----------------------------- MODULE MCChatServer -----------------------------
(* Small instances of ChatServer. *)
EXTENDS ChatServer

CONSTANTS p1, p2, p3

\* p1 types two lines, the second of them empty, and p2 one with the NUL that
\* chatclient sends behind it; a line with text is as long as two parts.  p3 only
\* listens.
Talk == [p \in Peers |-> CASE p = p1 -> <<"text", "eol", "eol">>
                           [] p = p2 -> <<"text", "eol", "nul">>
                           [] OTHER -> <<>>]

\* p1 types one line of three parts.
LongTalk == [p \in Peers |-> IF p = p1 THEN <<"text", "text", "eol">> ELSE <<>>]
===============================================================================
