------------------------------ MODULE HttpServer ------------------------------
(***************************************************************************)
(* http_server: one thread accepts a connection, receives once, parses     *)
(* what came (Request.cpp), handles it (Handler.cpp), sends the answer and *)
(* closes.  A text is its lines; the last one ends with a newline or not,  *)
(* and the receive may find it cut anywhere.                               *)
(* Of a parameter string only the parts between "&" are told apart: their  *)
(* names, and whether they have a "=".                                     *)
(***************************************************************************)
EXTENDS Naturals, Sequences, FiniteSets

CONSTANTS Clients,
          Text,      \* Text[c]: the lines client c sends
          Ended,     \* the clients whose last line has its newline
          Partial,   \* the clients whose text may arrive in two parts, cut anywhere
          Leavers,   \* the clients that may leave at any time
          Deaf,      \* those that do not read an answer larger than the buffers
          Files,     \* the urls of files below the root
          MaxConnects,  \* bound: how many of the clients connect
          None

Methods == {"GET", "POST", "HEAD"}
Types == Methods \cup {"ERROR"}

\* "plain" has no colon; version: the start line's begins with HTTP/.
PartType == [name : STRING \cup {None}, eq : BOOLEAN]
LineType == [kind : {"start", "field", "plain", "blank", "body"},
             method : Methods \cup {None}, version : BOOLEAN, url : STRING \cup {None},
             parts : Seq(PartType)]

\* A text has a line at least; a body is one line, behind a blank one.
ASSUME TextAssumption ==
  /\ None \notin Clients \cup Types \cup LineType /\ None # 200 /\ None # 404
  /\ \A c \in Clients :
       /\ Text[c] \in Seq(LineType) /\ Len(Text[c]) >= 1
       /\ \A i \in 1..Len(Text[c]) :
            /\ Text[c][i].kind = "start" => Text[c][i].url # None
            /\ Text[c][i].kind = "blank" =>
                 Len(Text[c]) = i \/ (Len(Text[c]) = i + 1 /\ Text[c][i + 1].kind = "body")

VARIABLES conn,     \* per client: "new", "queue", "slave", "closed"
          sent,     \* its whole lines that have been sent, and the beginning
                    \*   of the next one, or None
          gone,     \* the clients that have left
          queue,    \* connections not accepted yet
          server, slave,           \* main: where it is, for whom
          received, \* per client: what its receive has found, as in sent
          next, eof,               \* Request::Request: the next line to read, the
          state, type,             \*   stream's eofbit, and the fields it fills
          url, query, body,
          at, params,              \* parse_params
          answer,   \* per client: the status it was sent
          data      \* the clients whose line is in data.html

net == <<conn, sent, gone, queue>>
parser == <<next, eof, state, type, url, query, body>>
vars == <<net, server, slave, received, parser, at, params, answer, data>>

Nothing == [whole |-> 0, tail |-> None]

Init ==
  /\ conn = [c \in Clients |-> "new"] /\ sent = [c \in Clients |-> Nothing]
  /\ gone = {} /\ queue = << >>
  /\ server = "accept" /\ slave = None
  /\ received = sent /\ next = 1 /\ eof = FALSE /\ state = "END" /\ type = "ERROR"
  /\ url = None /\ query = << >> /\ body = << >> /\ at = 1 /\ params = {}
  /\ answer = [c \in Clients |-> None] /\ data = {}

------------------------------------------------------------------------------
\* The clients.
Connect(c) ==
  /\ conn[c] = "new" /\ Cardinality({d \in Clients : conn[d] # "new"}) < MaxConnects
  /\ conn' = [conn EXCEPT ![c] = "queue"] /\ queue' = Append(queue, c)
  /\ UNCHANGED <<sent, gone, server, slave, received, parser, at, params, answer, data>>

\* What may be there of a line without its newline: all of it, a start line's
\* method cut (or a method made by the cut), a field in front of its colon, a
\* body in front of, or behind, one of its "=".
Bare == [name |-> None, eq |-> FALSE]
CutBody(line, k, part) == [line EXCEPT !.parts = Append(SubSeq(@, 1, k - 1), part)]
CutBodies(line) ==
  UNION {{CutBody(line, k, part) : part \in {Bare, line.parts[k]}} : k \in DOMAIN line.parts}
Beginnings(line) ==
  {line} \cup
  CASE line.kind = "start" ->
         {[line EXCEPT !.method = m] : m \in IF line.method = None THEN Methods ELSE {None}}
    [] line.kind = "field" -> {[line EXCEPT !.kind = "plain"]}
    [] line.kind = "body" -> CutBodies(line)
    [] OTHER -> {}

Whole(c) == IF c \in Ended
            THEN [whole |-> Len(Text[c]), tail |-> None]
            ELSE [whole |-> Len(Text[c]) - 1, tail |-> Text[c][Len(Text[c])]]
Cuts(c) ==
  {[whole |-> n, tail |-> None] : n \in 1..Len(Text[c])}
    \cup UNION {{[whole |-> n - 1, tail |-> line] : line \in Beginnings(Text[c][n])} :
                  n \in 1..Len(Text[c])}

Speak(c) ==
  /\ conn[c] \in {"queue", "slave"} /\ c \notin gone /\ sent[c] # Whole(c)
  /\ \E piece \in {Whole(c)} \cup (IF c \in Partial /\ sent[c] = Nothing THEN Cuts(c) ELSE {}) :
       sent' = [sent EXCEPT ![c] = piece]
  /\ UNCHANGED <<conn, gone, queue, server, slave, received, parser, at, params, answer, data>>

Leave(c) ==
  /\ c \in Leavers \ gone /\ conn[c] \in {"queue", "slave"}
  /\ gone' = gone \cup {c}
  /\ UNCHANGED <<conn, sent, queue, server, slave, received, parser, at, params, answer, data>>

------------------------------------------------------------------------------
Accept ==
  /\ server = "accept" /\ queue # << >>
  /\ slave' = Head(queue) /\ queue' = Tail(queue) /\ server' = "receive"
  /\ conn' = [conn EXCEPT ![Head(queue)] = "slave"]
  /\ UNCHANGED <<sent, gone, received, parser, at, params, answer, data>>

\* One receive for the whole request.
Receive ==
  /\ server = "receive" /\ sent[slave] # Nothing
  /\ received' = [received EXCEPT ![slave] = sent[slave]] /\ next' = 1 /\ eof' = FALSE
  /\ state' = "STARTLINE" /\ type' = "ERROR" /\ url' = None /\ query' = << >> /\ body' = << >>
  /\ server' = "parse"
  /\ UNCHANGED <<net, slave, at, params, answer, data>>

\* receive throws at the end of the stream or on a reset; the slave is closed.
ReceiveFails ==
  /\ server = "receive" /\ slave \in gone
  /\ conn' = [conn EXCEPT ![slave] = "closed"] /\ slave' = None /\ server' = "accept"
  /\ UNCHANGED <<sent, gone, queue, received, parser, at, params, answer, data>>

------------------------------------------------------------------------------
\* std::getline: past the last newline an empty line and the eofbit.
NoLine == [kind |-> "blank", method |-> None, version |-> FALSE, url |-> None,
           parts |-> <<Bare>>]
Line ==
  LET got == received[slave] IN
  IF next <= got.whole THEN Text[slave][next]
  ELSE IF next = got.whole + 1 /\ got.tail # None THEN got.tail ELSE NoLine
AtEof == next > received[slave].whole
GetLine == next' = next + 1 /\ eof' = AtEof

InState(s) == server = "parse" /\ ~eof /\ state = s
Parsed == UNCHANGED <<net, received, server, slave, at, params, answer, data>>

StartLine ==
  /\ InState("STARTLINE")
  /\ GetLine
  /\ type' = IF Line.kind = "start" /\ Line.method # None THEN Line.method ELSE "ERROR"
  /\ state' = IF type' = "ERROR" THEN "ERROR" ELSE "STARTLINE_INFO"
  /\ Parsed /\ UNCHANGED <<url, query, body>>

\* A bad version makes the type ERROR, and the parser goes on all the same.
TypeCompared(version) == type
TypeAfter(version) == IF version THEN type ELSE "ERROR"
StartLineInfo ==
  /\ InState("STARTLINE_INFO")
  /\ url' = Text[slave][1].url /\ query' = Text[slave][1].parts
  /\ type' = TypeAfter(Text[slave][1].version)
  /\ state' = "HEADER"
  /\ Parsed /\ UNCHANGED <<next, eof, body>>

\* A line without colon ends the parser but leaves the type (type == ERROR).
HeaderLine ==
  /\ InState("HEADER")
  /\ GetLine
  /\ state' = IF Line.kind = "blank" THEN "BODY"
              ELSE IF Line.kind = "plain" THEN "ERROR" ELSE "HEADER"
  /\ Parsed /\ UNCHANGED <<type, url, query, body>>

\* The rest of the stream; without one more line an empty one is read.
Body ==
  /\ InState("BODY")
  /\ body' = Line.parts
  /\ next' = received[slave].whole + 2 /\ eof' = TRUE /\ state' = "END"
  /\ Parsed /\ UNCHANGED <<type, url, query>>

KeptParams == params
ClearedParams == {}
ParserEnds ==
  /\ server = "parse" /\ (eof \/ state \in {"END", "ERROR"})
  /\ server' = IF type = "ERROR" THEN "handle" ELSE "url"
  /\ at' = 1 /\ params' = ClearedParams
  /\ UNCHANGED <<net, slave, received, parser, answer, data>>

------------------------------------------------------------------------------
\* parse_params, one iteration: the name goes up to the next "=".  Without one
\* i = npos + 1 = 0, so the value ends at the first "&" of the whole string and
\* the walk goes on behind that.
Parts == IF server = "url" THEN query ELSE body
WithEq == {k \in at..Len(Parts) : Parts[k].eq}
FirstWithEq == CHOOSE k \in WithEq : \A j \in WithEq : k <= j
Name == IF at \in WithEq THEN {Parts[at].name} ELSE {}
BehindTwo == IF WithEq = {} THEN 2 ELSE FirstWithEq + 2
BehindOwn == IF WithEq = {} THEN at ELSE FirstWithEq + 1
Behind == IF WithEq = {} THEN 2 ELSE FirstWithEq + 1

Param ==
  /\ server \in {"url", "body"} /\ at <= Len(Parts)
  /\ at' = Behind
  /\ params' = IF server = "body" THEN params \cup Name ELSE params
  /\ UNCHANGED <<net, server, slave, received, parser, answer, data>>

ParamsEnd ==
  /\ server \in {"url", "body"} /\ at > Len(Parts)
  /\ server' = IF server = "url" THEN "body" ELSE "handle"
  /\ at' = 1
  /\ UNCHANGED <<net, slave, received, parser, params, answer, data>>

------------------------------------------------------------------------------
\* Handler::handle.  For ERROR it ends without a return: nothing is known of
\* the server afterwards.  map::at throws for a missing parameter, and nobody
\* catches.  An url that was not read names the root directory, which opens.
Needed == {"name", "phone"}
Found == url = None \/ url \in Files

Answered(status) ==
  answer' = [answer EXCEPT ![slave] = status] /\ server' = "send"
Handled == UNCHANGED <<net, slave, received, parser, at, params>>

NoReturn ==
  /\ server = "handle" /\ type = "ERROR"
  /\ server' = "undefined" /\ Handled /\ UNCHANGED <<answer, data>>

\* get and head open the file for the answer's body or for the status only.
GetOrHead ==
  /\ server = "handle" /\ type \in {"GET", "HEAD"}
  /\ Answered(IF Found THEN 200 ELSE 404)
  /\ Handled /\ UNCHANGED data

\* data.html may not open.
PostDenied ==
  /\ server = "handle" /\ type = "POST"
  /\ Answered(404)
  /\ Handled /\ UNCHANGED data

Post ==
  /\ server = "handle" /\ type = "POST"
  /\ IF Needed \subseteq params
     THEN Answered(200) /\ data' = data \cup {slave}
     ELSE server' = "ended" /\ UNCHANGED <<answer, data>>
  /\ Handled

\* send blocks until all is in the buffers, which never happens to a client
\* that does not read.  To one that has left it may throw; nobody catches.
Send ==
  /\ server = "send"
  /\ \/ /\ slave \in Deaf => slave \in gone
        /\ server' = "accept" /\ slave' = None
        /\ conn' = [conn EXCEPT ![slave] = "closed"]
     \/ /\ slave \in gone
        /\ server' = "ended" /\ UNCHANGED <<conn, slave>>
  /\ UNCHANGED <<sent, gone, queue, received, parser, at, params, answer, data>>

Parse == StartLine \/ StartLineInfo \/ HeaderLine \/ Body \/ ParserEnds
ServerStep ==
  \/ Accept \/ Receive \/ ReceiveFails \/ Parse
  \/ Param \/ ParamsEnd \/ NoReturn \/ GetOrHead \/ PostDenied \/ Post \/ Send

Next ==
  \/ ServerStep
  \/ \E c \in Clients : Connect(c) \/ Speak(c) \/ Leave(c)

Spec == Init /\ [][Next]_vars

\* The server runs; a client that has connected says something or leaves.
Fairness ==
  /\ WF_vars(ServerStep)
  /\ \A c \in Clients : WF_vars(Speak(c) \/ Leave(c))
FairSpec == Spec /\ Fairness

------------------------------------------------------------------------------
States == {"STARTLINE", "STARTLINE_INFO", "HEADER", "BODY", "END", "ERROR"}
Busy == {"receive", "parse", "url", "body", "handle", "send"}

Pieces == [whole : Nat, tail : LineType \cup {None}]

\* Types; the server has a slave exactly while it serves one, and the walk of
\* parse_params never passes the end of its string.
TypeOK ==
  /\ conn \in [Clients -> {"new", "queue", "slave", "closed"}]
  /\ sent \in [Clients -> Pieces] /\ received \in [Clients -> Pieces]
  /\ gone \subseteq Clients /\ queue \in Seq(Clients)
  /\ server \in Busy \cup {"accept", "undefined", "ended"} /\ slave \in Clients \cup {None}
  /\ server \in Busy => slave # None
  /\ next \in Nat /\ eof \in BOOLEAN /\ state \in States /\ type \in Types
  /\ url \in STRING \cup {None} /\ query \in Seq(PartType) /\ body \in Seq(PartType)
  /\ at \in Nat /\ params \subseteq STRING \cup {None}
  /\ server \in {"url", "body"} => at \in 1..Len(Parts) + 1
  /\ answer \in [Clients -> {None, 200, 404}] /\ data \subseteq Clients

Started(c) == Text[c][1].kind = "start" /\ Text[c][1].method # None
\* The receive found the start line with its newline.
HadStart(c) == received[c].whole >= 1
Given(c) == LET last == Text[c][Len(Text[c])] IN
  IF last.kind = "body" THEN {last.parts[k].name : k \in {i \in DOMAIN last.parts : last.parts[i].eq}}
                        ELSE {}

\* When the receive found the whole start line, an answer is to this client's
\* own request: one with a known method and a good version, and to GET and HEAD
\* 404 exactly for a file that is not there, however the rest was cut and
\* whatever else is wrong with it.  When it did not, nothing of url and version
\* is read, and GET and HEAD are answered 200 whatever the client asked for.
RightAnswer ==
  \A c \in Clients : answer[c] # None =>
    IF HadStart(c)
    THEN /\ Started(c) /\ Text[c][1].version
         /\ Text[c][1].method # "POST" => (answer[c] = 200 <=> Text[c][1].url \in Files)
    ELSE received[c].tail.method # "POST" => answer[c] = 200

\* data.html has the line of a client exactly when it was answered 200 to a
\* POST, and that client has given name and phone itself, if only the beginning
\* of a value: nothing of an earlier request is left in the parameters.
PostsStored ==
  \A c \in Clients :
    /\ c \in data <=> answer[c] = 200 /\ Text[c][1].method = "POST"
    /\ c \in data => Needed \subseteq Given(c)

\* parse_params finds no "=" any more in a string of several parts, and begins
\* again behind the first one for ever.
Loops == server \in {"url", "body"} /\ Len(Parts) > 1 /\ at <= Len(Parts) /\ WithEq = {}

Stuck == server = "send" /\ slave \in Deaf

\* Every connection is closed in the end, unless the server is lost: in the
\* loop of parse_params, by an exception nobody catches, behind the handle
\* without return, or in the send to a client that does not read.
Served == \A c \in Clients :
  conn[c] = "queue" ~> conn[c] = "closed" \/ server \in {"undefined", "ended"} \/ Loops \/ Stuck
==============================================================================
