------------------------------- MODULE MCShell --------------------------------
(* Lines for small instances of Shell. *)
EXTENDS Shell

Call(c) == [cmd |-> c, from |-> FALSE, to |-> FALSE]
L(cmds, ops) == [calls |-> [i \in DOMAIN cmds |-> Call(cmds[i])], ops |-> ops, bg |-> FALSE]
Bg(l) == [l EXCEPT !.bg = TRUE]

Lines ==
  { L(<<"true", "cat", "false">>, <<"SIMULTANEOUSLY", "AND">>),
    L(<<"false", "true", "cat", "true">>, <<"AND", "SIMULTANEOUSLY", "LAST">>),
    L(<<"true", "false", "cat">>, <<"OR", "LAST">>),
    L(<<"false", "cat", "cat">>, <<"OR", "SIMULTANEOUSLY">>),
    [L(<<"cat", "cat">>, <<"SIMULTANEOUSLY">>) EXCEPT !.calls[1].from = TRUE,
                                                      !.calls[1].to = TRUE],
    L(<<"true", "bad", "false">>, <<"SIMULTANEOUSLY", "OR">>),
    L(<<"bad", "true">>, <<"AND">>), L(<<"bad", "cat">>, <<"SIMULTANEOUSLY">>) }

\* Every line in the background beside every other in front, and the last one
\* of the input in the background.
Pairs == {<<Bg(l), m>> : l, m \in Lines} \cup {<<l, Bg(m)>> : l, m \in Lines}
==============================================================================
