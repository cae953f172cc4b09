------------------------------ MODULE AtomicCells ------------------------------
(***************************************************************************)
(* What the cache of sphere_prac/p5 promises of its cells: a get, a set or *)
(* the collector reads or changes one cell in one indivisible step.  A     *)
(* request is still a walk along the key's probe sequence, and other       *)
(* processes may act between two cells of the walk.  A worker may be       *)
(* killed: a set that nobody was told of may then have left the cell torn, *)
(* but never a living entry with anything but values of its own key.       *)
(***************************************************************************)
EXTENDS Naturals

CONSTANTS
  Workers, Requests, Idle, None,
  Keys, Vals, TTLs,
  N,            \* the number of cells
  hash(_, _)    \* the cell of the i-th probe of a key

VARIABLES
  cell,    \* the table; a value is its two halves
  state,   \* of each worker: "idle", "probing", "answered" or "dead"
  req,     \* its request
  at,      \* the number of the probe it makes next
  answer,  \* its reply: the code and, for a get, the value
  sweep    \* the cell the collector visits next

vars == <<sweep, state, req, at, answer, cell>>

Cells == 0 .. N - 1
Nothing == <<None, None>>
Silent == [code |-> None, val |-> Nothing]

Init ==
  /\ cell = [s \in Cells |-> [key |-> None, val |-> Nothing, TTL |-> 0, status |-> "FREE"]]
  /\ state = [w \in Workers |-> "idle"]
  /\ req = [w \in Workers |-> Idle]
  /\ at = [w \in Workers |-> 0]
  /\ answer = [w \in Workers |-> Silent]
  /\ sweep = 0

Reply(w, code, val) ==
  /\ state' = [state EXCEPT ![w] = "answered"]
  /\ answer' = [answer EXCEPT ![w] = [code |-> code, val |-> val]]

Request(w) ==
  /\ state[w] = "idle"
  /\ \E r \in Requests : req' = [req EXCEPT ![w] = r]
  /\ \/ \E code \in {"INVALID_KEY", "INVALID_VALUE"} : Reply(w, code, Nothing)
     \/ state' = [state EXCEPT ![w] = "probing"] /\ UNCHANGED answer
  /\ UNCHANGED <<cell, at, sweep>>

Here(w) == hash(req[w].key, at[w])
Mine(w) == cell[Here(w)].status = "ALIVE" /\ cell[Here(w)].key = req[w].key

\* A get or a set finds nothing to do in the cell and goes on or gives up.
PassBy(w) ==
  /\ state[w] = "probing" /\ ~Mine(w)
  /\ \/ /\ at[w] < N - 1
        /\ cell[Here(w)].status # "FREE"
        /\ req[w].op = "set" => cell[Here(w)].status = "ALIVE"
        /\ at' = [at EXCEPT ![w] = @ + 1]
        /\ UNCHANGED <<state, answer>>
     \/ /\ req[w].op = "get"
        /\ at[w] = N - 1 \/ cell[Here(w)].status = "FREE"
        /\ Reply(w, "NO_SUCH_KEY", Nothing) /\ UNCHANGED at
     \/ /\ req[w].op = "set"
        /\ at[w] = N - 1 /\ cell[Here(w)].status = "ALIVE"
        /\ Reply(w, "NO_FREE_SPACE", Nothing) /\ UNCHANGED at
  /\ UNCHANGED <<cell, req, sweep>>

\* A get answers with the value of its key's cell, both halves at once.
Fetch(w) ==
  /\ state[w] = "probing" /\ req[w].op = "get" /\ Mine(w)
  /\ Reply(w, "OK", cell[Here(w)].val)
  /\ UNCHANGED <<cell, req, at, sweep>>

\* A set fills its key's cell, or one that is free, at once.
Datum(w) == <<req[w].key, req[w].val>>

Store(w) ==
  /\ state[w] = "probing" /\ req[w].op = "set"
  /\ Mine(w) \/ cell[Here(w)].status # "ALIVE"
  /\ Reply(w, "OK", Nothing)
  /\ cell' = [cell EXCEPT ![Here(w)] =
       [key |-> req[w].key, val |-> <<Datum(w), Datum(w)>>,
        TTL |-> req[w].TTL, status |-> "ALIVE"]]
  /\ UNCHANGED <<req, at, sweep>>

\* The collector's visit: a cell whose TTL is used up is removed, never one
\* that has time left.
Aged(c) ==
  IF c.status # "ALIVE" THEN c
  ELSE IF c.TTL = 0 THEN [c EXCEPT !.status = "REMOVED"]
  ELSE [c EXCEPT !.TTL = c.TTL - 1]

Visit ==
  /\ sweep' = (sweep + 1) % N
  /\ cell' = [cell EXCEPT ![sweep] = Aged(cell[sweep])]
  /\ UNCHANGED <<state, req, at, answer>>

Done(w) ==
  /\ state[w] = "answered"
  /\ state' = [state EXCEPT ![w] = "idle"]
  /\ req' = [req EXCEPT ![w] = Idle]
  /\ at' = [at EXCEPT ![w] = 0]
  /\ answer' = [answer EXCEPT ![w] = Silent]
  /\ UNCHANGED <<cell, sweep>>

\* What a killed set may leave: an unused or removed cell with anything in it,
\* or a living entry of its key with halves of values set under that key.
Halves == (Keys \X Vals) \cup {None}
Torn(w) ==
  [key : Keys \cup {None}, val : Halves \X Halves, TTL : TTLs, status : {"FREE", "REMOVED"}]
    \cup [key : {req[w].key}, val : ({req[w].key} \X Vals) \X ({req[w].key} \X Vals),
           TTL : TTLs, status : {"ALIVE"}]

\* A worker is killed; what it has stored for an answer that nobody gets stays
\* or is torn.
Die(w) ==
  /\ state[w] # "dead"
  /\ state' = [state EXCEPT ![w] = "dead"]
  /\ req' = [req EXCEPT ![w] = Idle]
  /\ at' = [at EXCEPT ![w] = 0]
  /\ answer' = [answer EXCEPT ![w] = Silent]
  /\ \/ UNCHANGED cell
     \/ /\ state[w] = "answered" /\ req[w].op = "set" /\ answer[w].code = "OK"
        /\ \E c \in Torn(w) : cell' = [cell EXCEPT ![Here(w)] = c]
  /\ UNCHANGED sweep

Next ==
  \/ \E w \in Workers :
       \/ Request(w) \/ PassBy(w) \/ Fetch(w) \/ Store(w) \/ Done(w) \/ Die(w)
  \/ Visit

Spec == Init /\ [][Next]_vars
================================================================================
