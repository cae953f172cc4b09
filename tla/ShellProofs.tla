------------------------------ MODULE ShellProofs ------------------------------
(***************************************************************************)
(* Proofs about Shell for every input, whatever its lines, and every way   *)
(* their processes are scheduled.                                          *)
(***************************************************************************)
EXTENDS Shell, TLAPS, FiniteSetTheorems

Names == Seq(Nat)

\* A process and its place in the tree.
IsProc(e) == DOMAIN e = {"st", "in", "out", "fds", "act", "pos", "code"}
ProcOK(p, e) ==
  /\ IsProc(e) /\ e.st \in {"loop", "wait", "command", "zombie", "reaped"}
  /\ e.act \in Seq(Names) /\ e.code \in 0 .. 255 /\ e.pos \in 0 .. Len(Calls(p)) + 1
  /\ e.st = "wait" => e.act # << >>
  /\ e.st \in {"loop", "wait"} => e.pos # 0
IsName(p) == p \in Names /\ Len(p) \in Nat \ {0} /\ p[1] \in 1 .. Len(script)
NameOK(p) == IsName(p) /\ (Len(p) > 1 => Front(p) \in Pids)

\* Where the shell is, and which lines have a process.
Shells ==
  /\ script \in Scripts /\ line \in 1 .. Len(script) + 1 /\ active \in 0 .. line - 1
  /\ shell \in {"read", "pushing", "wait", "final", "done", "undefined"}
  /\ shell \in {"pushing", "wait", "undefined"} => line <= Len(script)
  /\ shell \in {"final", "done"} => line = Len(script) + 1
Passed(n) == n < line \/ (n = line /\ shell \in {"pushing", "wait", "undefined"})
Begun == \A n \in 1 .. Len(script) : <<n>> \in Pids <=> Passed(n)
Types ==
  /\ Shells /\ proc = [p \in Pids |-> proc[p]]
  /\ \A p \in Pids : NameOK(p) /\ ProcOK(p, proc[p])

\* What main knows about its lines: the ones it waited for are reported with the
\* code they ended with; the last one, in the background, has an entry in active.
Reported(n) == <<<<n>>, proc[<<n>>].code>> \in ToSet(reports)
Taken(n) == <<n>> \in Pids /\ proc[<<n>>].st = "reaped"
Told == \A n \in 1 .. Len(script) : Taken(n) => Reported(n)
Behind == \A n \in 1 .. Len(script) : n < line /\ ~ script[n].bg => Taken(n)
LastOne ==
  LET n == Len(script) IN
  ints = 0 /\ line = n + 1 /\ n # 0 /\ script[n].bg => active # 0 \/ Taken(n)
Pushes == shell = "pushing" => script[line].bg
Reports ==
  /\ reports \in Seq(Names \X (0 .. 255)) /\ ints \in Nat
  /\ Told /\ Behind /\ LastOne /\ Pushes /\ (shell = "done" => active = 0)

\* A plain line at its call pos: the calls before it have run as the operators
\* ask, the ones that are not waited for are the active ones, in their order.
Rooted == \A p \in Pids : <<p[1]>> \in Pids
Settled(n, i) == i = 0 \/ Action(script[n], i) # "SIMULTANEOUSLY"
CallOK(n, i) ==
  LET c == proc[<<n, i>>]
      act == proc[<<n>>].act IN
  /\ c.st \in {"command", "zombie", "reaped"}
  /\ c.st # "command" => c.code = Code(script[n].calls[i].cmd)
  /\ c.st # "reaped" => \E k \in 1 .. Len(act) : act[k] = <<n, i>>
Done(n) == 1 .. proc[<<n>>].pos - 1
Calls1(n) ==
  /\ \A q \in Pids : q[1] = n /\ Len(q) > 1 => \E i \in Done(n) : q = <<n, i>>
  /\ \A i \in Done(n) : <<n, i>> \in Pids <=> Runs(script[n], i)
  /\ \A i \in Done(n) : <<n, i>> \in Pids => CallOK(n, i)
Active1(n) ==
  LET act == proc[<<n>>].act IN
  /\ \A k \in 1 .. Len(act) :
       \E i \in Done(n) : act[k] = <<n, i>> /\ <<n, i>> \in Pids /\ proc[<<n, i>>].st # "reaped"
  /\ \A k, m \in 1 .. Len(act) : act[k] = act[m] => k = m
Phase(n) ==
  LET e == proc[<<n>>]
      l == script[n] IN
  /\ e.st \in {"loop", "wait", "zombie", "reaped"} /\ e.pos \in 1 .. Len(l.calls) + 1
  /\ e.st = "loop" /\ Settled(n, e.pos - 1) => e.act = << >> /\ e.code = Value(l)[e.pos - 1]
  /\ e.st = "wait" =>
       /\ e.pos > 1 /\ Settled(n, e.pos - 1) /\ e.act # << >> /\ e.act[Len(e.act)] = <<n, e.pos - 1>>
       /\ Value(l)[e.pos - 1] = Code(l.calls[e.pos - 1].cmd)
  /\ e.st \in {"zombie", "reaped"} =>
       e.pos = Len(l.calls) + 1 /\ e.act = << >> /\ e.code = Value(l)[Len(l.calls)]
LineOK(n) == Calls1(n) /\ Active1(n) /\ Phase(n)
PlainLines == Rooted /\ \A n \in 1 .. Len(script) : <<n>> \in Pids /\ Plain(n) => LineOK(n)

\* No line ends with a pipe that nothing reads ("a |&").
PipesClosed ==
  \A s \in Scripts : \A n \in 1 .. Len(s) : Action(s[n], Len(s[n].calls)) # "SIMULTANEOUSLY"

--------------------------------------------------------------------------------
(* Lemmas about names and processes *)

LEMMA FrontIs ==
  ASSUME NEW q \in Names, Len(q) \in Nat, Len(q) > 1
  PROVE  Front(q) \in Names /\ Len(Front(q)) = Len(q) - 1
         /\ \A i \in 1 .. Len(q) - 1 : Front(q)[i] = q[i]
<1>1. Front(q) = SubSeq(q, 1, Len(q) - 1)
  BY DEF Front
<1> QED
  BY <1>1 DEF Names

LEMMA ChildName ==
  ASSUME NEW p \in Names, Len(p) \in Nat \ {0}, NEW i \in Nat
  PROVE  LET q == Append(p, i) IN
         q \in Names /\ Len(q) = Len(p) + 1 /\ q[1] = p[1] /\ q[Len(q)] = i /\ Front(q) = p
<1> DEFINE q == Append(p, i)
<1>1. /\ q \in Names /\ Len(q) = Len(p) + 1 /\ q[Len(q)] = i
      /\ \A k \in 1 .. Len(p) : q[k] = p[k]
  BY DEF Names
<1>2. Front(q) = p
  <2> HIDE DEF q
  <2>1. /\ Front(q) \in Names /\ Len(Front(q)) = Len(p)
        /\ \A k \in 1 .. Len(p) : Front(q)[k] = p[k]
    BY <1>1, FrontIs
  <2> QED
    BY <2>1 DEF Names
<1> QED
  BY <1>1, <1>2

LEMMA LineName ==
  ASSUME NEW n \in Nat
  PROVE  <<n>> \in Names /\ Len(<<n>>) = 1 /\ <<n>>[1] = n
  BY DEF Names

LEMMA OneName ==
  ASSUME NEW p \in Names, Len(p) = 1 PROVE p = <<p[1]>>
  BY DEF Names

LEMMA CallName ==
  ASSUME NEW n \in Nat, NEW i \in Nat
  PROVE  /\ Append(<<n>>, i) = <<n, i>> /\ <<n, i>> \in Names /\ Len(<<n, i>>) = 2
         /\ <<n, i>>[1] = n /\ <<n, i>>[2] = i /\ Front(<<n, i>>) = <<n>> /\ Last(<<n, i>>) = i
<1>1. Append(<<n>>, i) = <<n, i>>
  <2> DEFINE a == Append(<<n>>, i)
             b == <<n, i>>
  <2>1. a \in Seq(Nat) /\ Len(a) = 2 /\ a[1] = n /\ a[2] = i
    OBVIOUS
  <2>2. b \in Seq(Nat) /\ Len(b) = 2 /\ b[1] = n /\ b[2] = i
    OBVIOUS
  <2> HIDE DEF a, b
  <2>3. \A k \in 1 .. 2 : a[k] = b[k]
    BY <2>1, <2>2
  <2>4. a = b
    BY <2>1, <2>2, <2>3, SMTT(30)
  <2> QED
    BY <2>4 DEF a, b
<1>2. <<n>> \in Names /\ Len(<<n>>) \in Nat \ {0}
  BY LineName
<1>3. Front(<<n, i>>) = <<n>>
  BY <1>1, <1>2, ChildName
<1> QED
  BY <1>1, <1>3 DEF Names, Last

LEMMA ExecutorIs ==
  ASSUME NEW in, NEW out, NEW fds, NEW act, NEW pos
  PROVE  LET e == Executor(in, out, fds, act, pos) IN
         /\ IsProc(e) /\ e.st = "loop" /\ e.act = act /\ e.pos = pos /\ e.code = 0
         /\ LET c == [e EXCEPT !.st = "command"] IN
            IsProc(c) /\ c.st = "command" /\ c.act = act /\ c.pos = pos /\ c.code = 0
  BY DEF Executor, IsProc

LEMMA AfterRunIs ==
  ASSUME NEW e, IsProc(e), NEW who, NEW fds, NEW action
  PROVE  LET a == AfterRun(e, who, fds, action) IN
         /\ IsProc(a) /\ a.st = (IF action = "SIMULTANEOUSLY" THEN "loop" ELSE "wait")
         /\ a.act = Append(e.act, who) /\ a.pos = e.pos + 1 /\ a.code = e.code
  BY DEF AfterRun, ActAfter, IsProc

LEMMA WaitedIs ==
  ASSUME NEW e, IsProc(e), NEW code
  PROVE  LET w == Waited(e, code) IN
         /\ IsProc(w) /\ w.st = (IF Len(e.act) = 1 THEN "loop" ELSE "wait")
         /\ w.act = Tail(e.act) /\ w.pos = e.pos /\ w.code = code
  BY DEF Waited, IsProc

\* proc' has the processes of proc, and e for p.
Becomes(p, e) ==
  /\ proc' = [r \in Pids |-> proc'[r]] /\ p \in Pids /\ proc'[p] = e
  /\ \A r \in Pids : r # p => proc'[r] = proc[r]

LEMMA ExitedIs ==
  ASSUME NEW p \in Pids, proc = [r \in Pids |-> proc[r]], IsProc(proc[p]), NEW c, proc' = Exited(p, c)
  PROVE  \E e : /\ Becomes(p, e) /\ IsProc(e) /\ e.st = "zombie" /\ e.code = c
                /\ e.act = proc[p].act /\ e.pos = proc[p].pos
<1> DEFINE e == [proc[p] EXCEPT !.st = "zombie", !.code = c]
<1>1. IsProc(e) /\ e.st = "zombie" /\ e.code = c /\ e.act = proc[p].act /\ e.pos = proc[p].pos
  BY DEF IsProc
<1>2. Becomes(p, e)
  BY DEF Exited, Becomes, Pids
<1> QED
  BY <1>1, <1>2

LEMMA ReapedIs ==
  ASSUME NEW p \in Pids, proc = [r \in Pids |-> proc[r]], IsProc(proc[p]),
         proc' = [proc EXCEPT ![p].st = "reaped"]
  PROVE  \E e : /\ Becomes(p, e) /\ IsProc(e) /\ e.st = "reaped" /\ e.code = proc[p].code
                /\ e.act = proc[p].act /\ e.pos = proc[p].pos
<1> DEFINE e == [proc[p] EXCEPT !.st = "reaped"]
<1>1. IsProc(e) /\ e.st = "reaped" /\ e.code = proc[p].code /\ e.act = proc[p].act /\ e.pos = proc[p].pos
  BY DEF IsProc
<1>2. Becomes(p, e)
  BY DEF Becomes, Pids
<1> QED
  BY <1>1, <1>2

LEMMA ScriptIs ==
  ASSUME NEW s \in Scripts
  PROVE  /\ Len(s) \in Nat /\ DOMAIN s = 1 .. Len(s)
         /\ \A n \in 1 .. Len(s) :
              s[n] \in Instructions /\ Len(s[n].ops) \in {Len(s[n].calls) - 1, Len(s[n].calls)}
<1> DEFINE I == Instructions
<1>1. s \in Seq(I) /\ \A n \in DOMAIN s : Len(s[n].ops) \in {Len(s[n].calls) - 1, Len(s[n].calls)}
  BY ScriptAssumption
<1> HIDE DEF I
<1>2. Len(s) \in Nat /\ DOMAIN s = 1 .. Len(s) /\ \A n \in 1 .. Len(s) : s[n] \in I
  BY <1>1
<1> QED
  BY <1>1, <1>2 DEF I

LEMMA LineIs ==
  ASSUME NEW l \in Instructions
  PROVE  /\ Len(l.calls) \in Nat /\ Len(l.ops) \in Nat /\ l.bg \in BOOLEAN
         /\ \A i \in 1 .. Len(l.ops) : l.ops[i] \in Ops
<1> DEFINE C == [cmd : STRING, from : BOOLEAN, to : BOOLEAN]
<1>1. l.calls \in Seq(C) /\ l.ops \in Seq(Ops) /\ l.bg \in BOOLEAN
  BY DEF Instructions
<1> HIDE DEF C
<1> QED
  BY <1>1

LEMMA CallsOf ==
  ASSUME Types, NEW p \in Pids
  PROVE  /\ Line(p) \in Instructions /\ Len(Calls(p)) \in Nat
         /\ Len(Line(p).ops) \in {Len(Calls(p)) - 1, Len(Calls(p))}
         /\ \A i \in 1 .. Len(Line(p).ops) : Line(p).ops[i] \in Ops
<1>1. script \in Scripts /\ p[1] \in 1 .. Len(script)
  BY DEF Types, Shells, NameOK, IsName
<1>2. Line(p) \in Instructions /\ Len(Line(p).ops) \in {Len(Calls(p)) - 1, Len(Calls(p))}
  BY <1>1, ScriptIs DEF Line, Calls
<1> QED
  BY <1>2, LineIs DEF Calls

LEMMA LineLimits ==
  ASSUME Types
  PROVE  line \in Nat /\ Len(script) \in Nat /\ line <= Len(script) + 1 /\ line # 0
         /\ active \in Nat /\ active < line
<1>1. Len(script) \in Nat
  BY ScriptIs DEF Types, Shells
<1> QED
  BY <1>1 DEF Types, Shells

LEMMA NothingElse ==
  ASSUME Types, UNCHANGED <<script, proc>>, Shells' PROVE Types'
  BY DEF Types, NameOK, IsName, ProcOK, Pids, Calls, Line

LEMMA TypesChange ==
  ASSUME Types, script' = script, Shells',
         NEW Q, proc' = [r \in Q |-> proc'[r]], Pids \subseteq Q,
         \A r \in Q : \/ r \in Pids /\ proc'[r] = proc[r]
                      \/ /\ IsName(r) /\ ProcOK(r, proc'[r])
                         /\ Len(r) > 1 => Front(r) \in Q
  PROVE  Types'
<1>1. Pids' = Q
  BY DEF Pids
<1>2. ASSUME NEW r \in Q PROVE (NameOK(r) /\ ProcOK(r, proc[r]))'
  <2>1. CASE r \in Pids /\ proc'[r] = proc[r]
    BY <1>1, <2>1 DEF Types, NameOK, IsName, ProcOK, Calls, Line
  <2>2. CASE IsName(r) /\ ProcOK(r, proc'[r]) /\ (Len(r) > 1 => Front(r) \in Q)
    BY <1>1, <2>2 DEF NameOK, IsName, ProcOK, Calls, Line
  <2> QED
    BY <2>1, <2>2
<1> QED
  BY <1>1, <1>2 DEF Types

LEMMA TypesBecome ==
  ASSUME Types, UNCHANGED script, Shells', NEW p, NEW e, Becomes(p, e), ProcOK(p, e)
  PROVE  Types'
<1>1. \A r \in Pids : \/ r \in Pids /\ proc'[r] = proc[r]
                      \/ IsName(r) /\ ProcOK(r, proc'[r]) /\ (Len(r) > 1 => Front(r) \in Pids)
  BY DEF Types, NameOK, Becomes
<1>2. proc' = [r \in Pids |-> proc'[r]]
  BY DEF Becomes
<1> QED
  BY <1>1, <1>2, TypesChange

LEMMA ShellsKept ==
  ASSUME Types, UNCHANGED <<script, line, shell, active>> PROVE Shells'
  BY DEF Types, Shells

LEMMA CodeSmall == ASSUME NEW cmd PROVE Code(cmd) \in 0 .. 255
  BY DEF Code

LEMMA Ends ==
  ASSUME Types, NEW p \in Pids, NEW c \in 0 .. 255, proc' = Exited(p, c), UNCHANGED script, Shells'
  PROVE  Types'
<1>1. PICK e : /\ Becomes(p, e) /\ IsProc(e) /\ e.st = "zombie" /\ e.code = c
               /\ e.act = proc[p].act /\ e.pos = proc[p].pos
  BY ExitedIs DEF Types, ProcOK
<1>2. ProcOK(p, e)
  BY <1>1 DEF Types, ProcOK
<1> QED
  BY <1>1, <1>2, TypesBecome

LEMMA CommandEndsTypes ==
  ASSUME Types, NEW p \in Pids, CommandEnds(p) \/ CommandKilled(p) PROVE Types'
<1>1. Shells'
  BY ShellsKept DEF CommandEnds, CommandKilled
<1>2. CASE CommandEnds(p)
  BY <1>1, <1>2, Ends, CodeSmall DEF CommandEnds
<1>3. CASE CommandKilled(p)
  BY <1>1, <1>3, Ends DEF CommandKilled
<1> QED
  BY <1>2, <1>3

LEMMA InstructionEndsTypes == ASSUME Types, NEW p \in Pids, InstructionEnds(p) PROVE Types'
<1>1. Shells' /\ proc[p].code \in 0 .. 255
  BY ShellsKept DEF InstructionEnds, Types, ProcOK
<1> QED
  BY <1>1, Ends DEF InstructionEnds

LEMMA TailIs ==
  ASSUME NEW s \in Seq(Names), s # << >>
  PROVE  /\ Len(s) \in Nat \ {0} /\ Head(s) = s[1] /\ Head(s) \in Names
         /\ Tail(s) \in Seq(Names) /\ Len(Tail(s)) = Len(s) - 1
         /\ \A k \in 1 .. Len(s) - 1 : Tail(s)[k] = s[k + 1]
<1> DEFINE S == Names
<1>1. s \in Seq(S)
  OBVIOUS
<1> HIDE DEF S
<1> QED
  BY <1>1 DEF S

\* A process that has waited for one call.
LEMMA WaitedOK ==
  ASSUME Types, NEW p \in Pids, proc[p].st = "wait", NEW c \in 0 .. 255
  PROVE  ProcOK(p, Waited(proc[p], c))
<1> DEFINE e == proc[p]
           w == Waited(e, c)
<1>1. /\ IsProc(w) /\ w.st = (IF Len(e.act) = 1 THEN "loop" ELSE "wait")
      /\ w.act = Tail(e.act) /\ w.pos = e.pos /\ w.code = c
  BY WaitedIs DEF Types, ProcOK
<1> HIDE DEF w
<1>2. ProcOK(p, e) /\ e.act \in Seq(Names) /\ e.act # << >>
  BY DEF Types, ProcOK
<1>3. Tail(e.act) \in Seq(Names) /\ (Len(e.act) # 1 => Tail(e.act) # << >>)
  <2>1. Tail(e.act) \in Seq(Names) /\ Len(Tail(e.act)) = Len(e.act) - 1 /\ Len(e.act) \in Nat
    BY <1>2, TailIs
  <2>2. Len(e.act) # 1 => Len(Tail(e.act)) # 0
    BY <2>1
  <2>3. Len(<< >>) = 0
    OBVIOUS
  <2> QED
    BY <2>1, <2>2, <2>3, Zenon
<1>4. w.st \in {"loop", "wait"} /\ (w.st = "wait" => w.act # << >>)
  BY <1>1, <1>3, Zenon
<1>5. e.pos # 0 /\ e.pos \in 0 .. Len(Calls(p)) + 1
  BY <1>2 DEF ProcOK
<1>6. /\ IsProc(w) /\ w.act \in Seq(Names) /\ w.code \in 0 .. 255
      /\ w.pos # 0 /\ w.pos \in 0 .. Len(Calls(p)) + 1
  BY <1>1, <1>3, <1>5, Zenon
<1> QED
  BY <1>4, <1>6 DEF ProcOK, w

WaitedOne(p, code) == Becomes(p, Waited(proc[p], code))

WaitedFor(p, q, r) ==
  /\ q \in Pids /\ q # p /\ proc[q].st = "zombie"
  /\ IsProc(r) /\ r.st = "reaped" /\ r.code = proc[q].code
  /\ r.act = proc[q].act /\ r.pos = proc[q].pos
  /\ proc' = [x \in Pids |-> proc'[x]] /\ proc'[q] = r
  /\ proc'[p] = Waited(proc[p], proc[q].code)
  /\ \A x \in Pids : x # p /\ x # q => proc'[x] = proc[x]

\* What a process waits for: nothing, or a child of its own that has ended.
LEMMA WaitCallIs ==
  ASSUME Types, NEW p \in Pids, WaitCall(p)
  PROVE  /\ proc[p].st = "wait" /\ UNCHANGED <<script, line, shell, active, reports, ints, hit>>
         /\ \/ Waitable(p, Head(proc[p].act)) = {} /\ WaitedOne(p, 0)
            \/ \E q \in Waitable(p, Head(proc[p].act)) : \E r : WaitedFor(p, q, r)
<1> DEFINE who == Head(proc[p].act)
<1>1. proc = [r \in Pids |-> proc[r]]
  BY DEF Types
<1>2. CASE proc' = [proc EXCEPT ![p] = Waited(proc[p], 0)] /\ Waitable(p, who) = {}
  <2> DEFINE w == Waited(proc[p], 0)
  <2>1. proc' = [proc EXCEPT ![p] = w]
    BY <1>2
  <2> HIDE DEF w
  <2>2. Becomes(p, w)
    BY <1>1, <2>1 DEF Becomes, Pids
  <2> QED
    BY <1>2, <2>2 DEF WaitCall, WaitedOne, w
<1>3. ASSUME NEW q \in Waitable(p, who), proc[q].st = "zombie",
             proc' = [proc EXCEPT ![p] = Waited(proc[p], proc[q].code), ![q].st = "reaped"]
      PROVE  \E r : WaitedFor(p, q, r)
  <2> DEFINE w == Waited(proc[p], proc[q].code)
             r == [proc[q] EXCEPT !.st = "reaped"]
  <2>1. q \in Pids /\ q # p
    <3>1. q \in Pids /\ Len(q) > 1 /\ Parent(q) = p
      BY DEF Waitable, Children
    <3>2. Len(Front(q)) = Len(q) - 1 /\ Len(q) \in Nat
      BY <3>1, FrontIs DEF Types, NameOK, IsName
    <3> QED
      BY <3>1, <3>2 DEF Parent
  <2>2. /\ IsProc(r) /\ r.st = "reaped" /\ r.code = proc[q].code
        /\ r.act = proc[q].act /\ r.pos = proc[q].pos
    <3>1. IsProc(proc[q])
      BY <2>1 DEF Types, ProcOK
    <3> QED
      BY <3>1 DEF IsProc
  <2>3. proc' = [proc EXCEPT ![p] = w, ![q].st = "reaped"]
    BY <1>3
  <2> HIDE DEF w
  <2>4. /\ proc' = [x \in Pids |-> proc'[x]] /\ proc'[q] = r /\ proc'[p] = w
        /\ \A x \in Pids : x # p /\ x # q => proc'[x] = proc[x]
    BY <1>1, <2>1, <2>3 DEF Pids
  <2> HIDE DEF r
  <2> QED
    BY <1>3, <2>1, <2>2, <2>4 DEF w, WaitedFor
<1>4. proc[p].st = "wait" /\ UNCHANGED <<script, line, shell, active, reports, ints, hit>>
  BY DEF WaitCall
<1> QED
  BY <1>2, <1>3, <1>4, Zenon DEF WaitCall

LEMMA WaitCallTypes == ASSUME Types, NEW p \in Pids, WaitCall(p) PROVE Types'
<1>1. Shells' /\ script' = script /\ proc[p].st = "wait"
  BY WaitCallIs, ShellsKept
<1>2. CASE WaitedOne(p, 0)
  <2>1. ProcOK(p, Waited(proc[p], 0))
    <3>1. 0 \in 0 .. 255
      OBVIOUS
    <3> QED
      BY <1>1, <3>1, WaitedOK
  <2> QED
    BY <1>1, <1>2, <2>1, TypesBecome DEF WaitedOne
<1>3. ASSUME NEW q, NEW r, WaitedFor(p, q, r) PROVE Types'
  <2>1. ProcOK(q, proc[q])
    BY <1>3 DEF Types, WaitedFor
  <2>2. ProcOK(q, r)
    BY <1>3, <2>1 DEF ProcOK, WaitedFor
  <2>3. ProcOK(p, Waited(proc[p], proc[q].code))
    BY <1>1, <2>1, WaitedOK DEF ProcOK
  <2>4. \A x \in Pids : \/ x \in Pids /\ proc'[x] = proc[x]
                        \/ IsName(x) /\ ProcOK(x, proc'[x]) /\ (Len(x) > 1 => Front(x) \in Pids)
    BY <1>3, <2>2, <2>3 DEF Types, NameOK, WaitedFor
  <2> QED
    BY <1>1, <1>3, <2>4, TypesChange DEF WaitedFor
<1> QED
  BY <1>2, <1>3, WaitCallIs, Zenon

\* A call becomes a command, or a copy of its instruction process.
ChildOK(p, call, action, c) ==
  /\ IsProc(c)
  /\ call.cmd # "bad" => c.st = "command" /\ c.act = << >> /\ c.pos = 0 /\ c.code = 0
  /\ call.cmd = "bad" =>
       /\ c.st = (IF action = "SIMULTANEOUSLY" THEN "loop" ELSE "wait")
       /\ c.act = Append(proc[p].act, << >>) /\ c.pos = proc[p].pos + 1 /\ c.code = proc[p].code

LEMMA ChildIs ==
  ASSUME NEW p, IsProc(proc[p]), NEW call, NEW last_action, NEW action, NEW fds
  PROVE  ChildOK(p, call, action, Child(p, call, last_action, action, fds))
<1> DEFINE e == proc[p]
           in == IF call.from THEN File
                 ELSE IF last_action = "SIMULTANEOUSLY" THEN Last(e.fds) ELSE e.in
           out == IF call.to THEN File ELSE IF action = "SIMULTANEOUSLY" THEN Last(fds) ELSE e.out
           d == [e EXCEPT !.in = in, !.out = out]
<1>1. Child(p, call, last_action, action, fds) =
        IF call.cmd = "bad" THEN AfterRun(d, << >>, fds, action)
        ELSE [Executor(in, out, << >>, << >>, 0) EXCEPT !.st = "command"]
  BY DEF Child
<1> HIDE DEF in, out
<1>2. LET c == [Executor(in, out, << >>, << >>, 0) EXCEPT !.st = "command"] IN
      IsProc(c) /\ c.st = "command" /\ c.act = << >> /\ c.pos = 0 /\ c.code = 0
  BY ExecutorIs
<1>3. IsProc(d) /\ d.act = e.act /\ d.pos = e.pos /\ d.code = e.code
  <2>1. IsProc(e)
    OBVIOUS
  <2> HIDE DEF e
  <2> QED
    BY <2>1 DEF IsProc
<1> HIDE DEF d
<1>4. LET c == AfterRun(d, << >>, fds, action) IN
      /\ IsProc(c) /\ c.st = (IF action = "SIMULTANEOUSLY" THEN "loop" ELSE "wait")
      /\ c.act = Append(d.act, << >>) /\ c.pos = d.pos + 1 /\ c.code = d.code
  BY <1>3, AfterRunIs
<1> QED
  BY <1>1, <1>2, <1>3, <1>4 DEF ChildOK

Ran(p, c, a) ==
  LET e == proc[p]
      q == Append(p, e.pos)
      call == Calls(p)[e.pos]
      st == IF Action(Line(p), e.pos) = "SIMULTANEOUSLY" THEN "loop" ELSE "wait" IN
  /\ proc' = [r \in Pids \cup {q} |-> proc'[r]] /\ proc'[q] = c /\ proc'[p] = a
  /\ \A r \in Pids : r # p /\ r # q => proc'[r] = proc[r]
  /\ IsProc(a) /\ a.st = st /\ a.act = Append(e.act, q) /\ a.pos = e.pos + 1 /\ a.code = e.code
  /\ IsProc(c)
  /\ call.cmd # "bad" => c.st = "command" /\ c.act = << >> /\ c.pos = 0 /\ c.code = 0
  /\ call.cmd = "bad" =>
       c.st = st /\ c.act = Append(e.act, << >>) /\ c.pos = e.pos + 1 /\ c.code = e.code
Skipped(p, a) ==
  /\ Becomes(p, a) /\ IsProc(a) /\ a.st = proc[p].st /\ a.act = proc[p].act
  /\ a.pos = proc[p].pos + 1 /\ a.code = proc[p].code
Starts(p) == Started(LastAction(Line(p), proc[p].pos), proc[p].code)

LEMMA NewName ==
  ASSUME Types, NEW p \in Pids, proc[p].st = "loop"
  PROVE  LET q == Append(p, proc[p].pos) IN
         /\ IsName(q) /\ q # p /\ Len(q) > 1 /\ q[1] = p[1] /\ Front(q) = p /\ q[Len(q)] = proc[p].pos
         /\ proc[p].pos \in Nat
<1> DEFINE k == proc[p].pos
           q == Append(p, k)
<1>1. k \in Nat /\ p \in Names /\ Len(p) \in Nat \ {0} /\ p[1] \in 1 .. Len(script)
  BY CallsOf DEF Types, ProcOK, NameOK, IsName
<1> HIDE DEF k
<1>2. q \in Names /\ Len(q) = Len(p) + 1 /\ q[1] = p[1] /\ q[Len(q)] = k /\ Front(q) = p
  BY <1>1, ChildName
<1> HIDE DEF q
<1>3. IsName(q) /\ q # p /\ Len(q) > 1
  BY <1>1, <1>2 DEF IsName
<1> QED
  BY <1>1, <1>2, <1>3 DEF q, k

LEMMA RunCallIs ==
  ASSUME Types, NEW p \in Pids, RunCall(p)
  PROVE  /\ proc[p].st = "loop" /\ proc[p].pos \in 1 .. Len(Calls(p)) /\ Len(Calls(p)) \in Nat
         /\ UNCHANGED <<script, line, shell, active, reports, ints, hit>>
         /\ Starts(p) => \E c, a : Ran(p, c, a)
         /\ ~ Starts(p) => \E a : Skipped(p, a)
<1> DEFINE e == proc[p]
           i == e.pos
           q == Append(p, i)
           action == Action(Line(p), i)
           fds == IF action = "SIMULTANEOUSLY" THEN Append(e.fds, q) ELSE e.fds
           c == Child(p, Calls(p)[i], LastAction(Line(p), i), action, fds)
           a == AfterRun(e, q, fds, action)
<1>1. e.st = "loop" /\ UNCHANGED <<script, line, shell, active, reports, ints, hit>> /\ i <= Len(Calls(p))
  BY DEF RunCall
<1>2. IsProc(e) /\ i \in 1 .. Len(Calls(p)) /\ Len(Calls(p)) \in Nat /\ proc = [r \in Pids |-> proc[r]]
  BY <1>1, CallsOf DEF Types, ProcOK
<1>3. q # p
  BY <1>1, NewName
<1>4. ASSUME Starts(p) PROVE \E x, y : Ran(p, x, y)
  <2>1. proc' = [r \in Pids \cup {q} |-> IF r = q THEN c ELSE IF r = p THEN a ELSE proc[r]]
    BY <1>4, Zenon DEF RunCall, Starts
  <2>2. /\ IsProc(a) /\ a.st = (IF action = "SIMULTANEOUSLY" THEN "loop" ELSE "wait")
        /\ a.act = Append(e.act, q) /\ a.pos = i + 1 /\ a.code = e.code
    <3> HIDE DEF q, action, fds
    <3> QED
      BY <1>2, AfterRunIs
  <2>3. /\ IsProc(c)
        /\ Calls(p)[i].cmd # "bad" => c.st = "command" /\ c.act = << >> /\ c.pos = 0 /\ c.code = 0
        /\ Calls(p)[i].cmd = "bad" =>
              /\ c.st = (IF action = "SIMULTANEOUSLY" THEN "loop" ELSE "wait")
              /\ c.act = Append(e.act, << >>) /\ c.pos = i + 1 /\ c.code = e.code
    <3>1. ChildOK(p, Calls(p)[i], action, c)
      BY <1>2, ChildIs, Zenon
    <3> QED
      BY <3>1, Zenon DEF ChildOK
  <2> HIDE DEF c, a
  <2>4. /\ proc' = [r \in Pids \cup {q} |-> proc'[r]] /\ proc'[q] = c /\ proc'[p] = a
        /\ \A r \in Pids : r # p /\ r # q => proc'[r] = proc[r]
    <3> HIDE DEF q
    <3> QED
      BY <1>3, <2>1
  <2>5. Ran(p, c, a)
    BY <2>2, <2>3, <2>4, Zenon DEF Ran
  <2> QED
    BY <2>5
<1>5. ASSUME ~ Starts(p) PROVE \E x : Skipped(p, x)
  <2> DEFINE x == [e EXCEPT !.fds = fds, !.pos = i + 1]
  <2>1. proc' = [proc EXCEPT ![p].fds = fds, ![p].pos = i + 1]
    BY <1>5, Zenon DEF RunCall, Starts
  <2> HIDE DEF fds
  <2>2. IsProc(x) /\ x.st = e.st /\ x.act = e.act /\ x.pos = i + 1 /\ x.code = e.code
    <3> HIDE DEF i
    <3> QED
      BY <1>2 DEF IsProc
  <2>3. Becomes(p, x)
    <3> HIDE DEF i
    <3> QED
      BY <1>2, <2>1 DEF Becomes, Pids
  <2> HIDE DEF x
  <2> QED
    BY <2>2, <2>3, Zenon DEF Skipped
<1> QED
  BY <1>1, <1>2, <1>4, <1>5

LEMMA RunCallTypes == ASSUME Types, NEW p \in Pids, RunCall(p) PROVE Types'
<1> DEFINE e == proc[p]
           q == Append(p, e.pos)
<1>1. /\ e.st = "loop" /\ e.pos \in 1 .. Len(Calls(p)) /\ Len(Calls(p)) \in Nat
      /\ UNCHANGED <<script, line, shell, active, reports, ints, hit>>
      /\ Starts(p) => \E c, a : Ran(p, c, a)
      /\ ~ Starts(p) => \E a : Skipped(p, a)
  BY RunCallIs
<1>2. Shells' /\ ProcOK(p, e)
  BY <1>1, ShellsKept DEF Types
<1>3. e.pos + 1 \in 0 .. Len(Calls(p)) + 1 /\ e.pos + 1 # 0
  BY <1>1
<1>4. ASSUME NEW a, Skipped(p, a) PROVE Types'
  <2>1. ProcOK(p, a)
    BY <1>1, <1>2, <1>3, <1>4 DEF ProcOK, Skipped
  <2> QED
    BY <1>1, <1>2, <1>4, <2>1, TypesBecome DEF Skipped
<1>5. ASSUME NEW c, NEW a, Ran(p, c, a) PROVE Types'
  <2>1. IsName(q) /\ q # p /\ Len(q) > 1 /\ q[1] = p[1] /\ Front(q) = p
    BY <1>1, NewName
  <2>2. /\ Append(e.act, q) \in Seq(Names) /\ Append(e.act, q) # << >>
        /\ Append(e.act, << >>) \in Seq(Names) /\ Append(e.act, << >>) # << >>
    <3> DEFINE S == Names
    <3>1. e.act \in Seq(S) /\ q \in S /\ << >> \in S
      BY <1>2, <2>1 DEF ProcOK, IsName, Names
    <3> HIDE DEF S, q
    <3>2. /\ Append(e.act, q) \in Seq(S) /\ Len(Append(e.act, q)) # 0
          /\ Append(e.act, << >>) \in Seq(S) /\ Len(Append(e.act, << >>)) # 0
      BY <3>1
    <3>3. Len(<< >>) = 0
      OBVIOUS
    <3> QED
      BY <3>2, <3>3, Zenon DEF S
  <2> DEFINE st == IF Action(Line(p), e.pos) = "SIMULTANEOUSLY" THEN "loop" ELSE "wait"
  <2>3. st \in {"loop", "wait"}
    OBVIOUS
  <2>4. e.code \in 0 .. 255 /\ 0 \in 0 .. 255 /\ Calls(q) = Calls(p)
    BY <1>2, <2>1 DEF ProcOK, Calls, Line
  <2> HIDE DEF st, q
  <2>5. /\ IsProc(a) /\ a.st = st /\ a.act = Append(e.act, q) /\ a.pos = e.pos + 1 /\ a.code = e.code
        /\ IsProc(c)
        /\ \/ c.st = "command" /\ c.act = << >> /\ c.pos = 0 /\ c.code = 0
           \/ c.st = st /\ c.act = Append(e.act, << >>) /\ c.pos = e.pos + 1 /\ c.code = e.code
    BY <1>5, Zenon DEF Ran, st, q
  <2>6. ProcOK(p, a)
    BY <1>3, <2>2, <2>3, <2>4, <2>5 DEF ProcOK
  <2>7. ProcOK(q, c)
    <3>1. << >> \in Seq(Names) /\ 0 \in 0 .. Len(Calls(p)) + 1
      BY <1>1
    <3> QED
      BY <1>3, <2>2, <2>3, <2>4, <2>5, <3>1 DEF ProcOK
  <2>8. /\ proc' = [r \in Pids \cup {q} |-> proc'[r]] /\ proc'[q] = c /\ proc'[p] = a
        /\ \A r \in Pids : r # p /\ r # q => proc'[r] = proc[r]
    BY <1>5, Zenon DEF Ran, q
  <2>9. \A r \in Pids \cup {q} :
          \/ r \in Pids /\ proc'[r] = proc[r]
          \/ IsName(r) /\ ProcOK(r, proc'[r]) /\ (Len(r) > 1 => Front(r) \in Pids \cup {q})
    BY <2>1, <2>6, <2>7, <2>8 DEF Types, NameOK
  <2> QED
    BY <1>1, <1>2, <2>8, <2>9, TypesChange
<1> QED
  BY <1>1, <1>4, <1>5, Zenon

LEMMA OldLine == ASSUME Types, shell \in {"pushing", "wait"} PROVE line \in 1 .. Len(script)
  BY LineLimits DEF Types, Shells

LEMMA ReadIs ==
  ASSUME Types, Read
  PROVE  /\ shell = "read" /\ line \in 1 .. Len(script)
         /\ UNCHANGED <<script, line, active, reports, ints, hit>>
         /\ shell' = IF script[line].bg THEN "pushing" ELSE "wait"
         /\ <<line>> \notin Pids =>
              /\ proc' = [r \in Pids \cup {<<line>>} |-> proc'[r]]
              /\ \A r \in Pids : proc'[r] = proc[r]
         /\ LET e == proc'[<<line>>] IN
            IsProc(e) /\ e.st = "loop" /\ e.act = << >> /\ e.pos = 1 /\ e.code = 0
         /\ \E Q : /\ proc' = [r \in Q |-> proc'[r]] /\ Pids \subseteq Q /\ <<line>> \in Q
                   /\ \A r \in Q : r # <<line>> => r \in Pids /\ proc'[r] = proc[r]
<1> DEFINE e == Executor(Tty, Tty, << >>, << >>, 1)
<1>1. /\ shell = "read" /\ line \in 1 .. Len(script)
      /\ UNCHANGED <<script, line, active, reports, ints, hit>>
      /\ shell' = IF script[line].bg THEN "pushing" ELSE "wait"
  BY LineLimits DEF Read
<1>2. IsProc(e) /\ e.st = "loop" /\ e.act = << >> /\ e.pos = 1 /\ e.code = 0
  BY DEF Executor, IsProc
<1>3. proc' = [r \in Pids \cup {<<line>>} |-> IF r = <<line>> THEN e ELSE proc[r]]
  BY DEF Read
<1> DEFINE n == <<line>>
<1> HIDE DEF e, n
<1>4. proc' = [r \in Pids \cup {n} |-> IF r = n THEN e ELSE proc[r]]
  BY <1>3 DEF n
<1>5. /\ proc' = [r \in Pids \cup {n} |-> proc'[r]] /\ proc'[n] = e
      /\ \A r \in Pids \cup {n} : r # n => r \in Pids /\ proc'[r] = proc[r]
  BY <1>4
<1> QED
  BY <1>1, <1>2, <1>5 DEF n

LEMMA ReadTypes == ASSUME Types, Read PROVE Types'
<1>1. /\ line \in 1 .. Len(script) /\ UNCHANGED <<script, line, active>>
      /\ shell' \in {"pushing", "wait"} /\ Len(script) \in Nat
  BY ReadIs, LineLimits
<1>2. Shells'
  BY <1>1 DEF Types, Shells
<1>3. PICK Q : /\ proc' = [r \in Q |-> proc'[r]] /\ Pids \subseteq Q /\ <<line>> \in Q
               /\ \A r \in Q : r # <<line>> => r \in Pids /\ proc'[r] = proc[r]
  BY ReadIs
<1>4. LET e == proc'[<<line>>] IN
      IsProc(e) /\ e.st = "loop" /\ e.act = << >> /\ e.pos = 1 /\ e.code = 0
  BY ReadIs
<1> DEFINE n == <<line>>
<1>5. IsName(n) /\ Len(n) = 1 /\ n[1] = line
  BY <1>1, LineName DEF IsName
<1>6. Len(Calls(n)) \in Nat
  <2>1. Calls(n) = script[line].calls
    BY <1>5 DEF Calls, Line
  <2>2. script[line] \in Instructions
    BY <1>1, ScriptIs DEF Types, Shells
  <2> QED
    BY <2>1, <2>2, LineIs
<1>7. ProcOK(n, proc'[n])
  <2>1. << >> \in Seq(Names) /\ 1 \in 0 .. Len(Calls(n)) + 1 /\ 0 \in 0 .. 255
    BY <1>6
  <2> QED
    BY <1>4, <2>1 DEF ProcOK
<1> HIDE DEF n
<1>8. \A r \in Q : \/ r \in Pids /\ proc'[r] = proc[r]
                   \/ IsName(r) /\ ProcOK(r, proc'[r]) /\ (Len(r) > 1 => Front(r) \in Q)
  <2>1. \A r \in Q : r # n => r \in Pids /\ proc'[r] = proc[r]
    BY <1>3 DEF n
  <2>2. \A r \in Q : r = n => IsName(r) /\ ProcOK(r, proc'[r]) /\ ~ (Len(r) > 1)
    <3>1. ~ (Len(n) > 1)
      BY <1>5
    <3> QED
      BY <1>5, <1>7, <3>1, Zenon
  <2> QED
    BY <2>1, <2>2, Zenon
<1> QED
  BY <1>1, <1>2, <1>3, <1>8, TypesChange

LEMMA PushTypes == ASSUME Types, Push PROVE Types'
<1>1. line \in 1 .. Len(script) /\ line \in Nat /\ active \in 0 .. line - 1 /\ Len(script) \in Nat
  BY OldLine, LineLimits DEF Push, Types, Shells
<1>2. Shells'
  BY <1>1 DEF Push, Types, Shells
<1> QED
  BY <1>2, NothingElse DEF Push

LEMMA EndTypes == ASSUME Types, EndOfInput \/ Quit PROVE Types'
<1>1. Shells'
  BY LineLimits DEF EndOfInput, Quit, Types, Shells
<1> QED
  BY <1>1, NothingElse DEF EndOfInput, Quit

\* Instruction::wait takes an ended process, or finds one that was taken before.
ReapedNow(p, e) ==
  /\ Becomes(p, e) /\ IsProc(e) /\ e.st = "reaped" /\ e.code = proc[p].code
  /\ e.act = proc[p].act /\ e.pos = proc[p].pos /\ proc[p].st = "zombie"
  /\ reports' = Append(reports, <<p, proc[p].code>>)

LEMMA ReapsIs ==
  ASSUME Types, NEW p \in Pids, Reaps(p)
  PROVE  \/ \E e : ReapedNow(p, e)
         \/ proc' = proc /\ proc[p].st = "reaped" /\ reports' = Append(reports, <<p, 0>>)
<1>1. CASE /\ proc[p].st = "zombie" /\ proc' = [proc EXCEPT ![p].st = "reaped"]
           /\ reports' = Append(reports, <<p, proc[p].code>>)
  <2>1. PICK e : /\ Becomes(p, e) /\ IsProc(e) /\ e.st = "reaped" /\ e.code = proc[p].code
                 /\ e.act = proc[p].act /\ e.pos = proc[p].pos
    BY <1>1, ReapedIs DEF Types, ProcOK
  <2> QED
    BY <1>1, <2>1 DEF ReapedNow
<1> QED
  BY <1>1 DEF Reaps

LEMMA ReapsTypes == ASSUME Types, NEW p \in Pids, Reaps(p), Shells', UNCHANGED script PROVE Types'
<1>1. ASSUME NEW e, ReapedNow(p, e) PROVE Types'
  <2>1. ProcOK(p, e)
    BY <1>1 DEF Types, ProcOK, ReapedNow
  <2> QED
    BY <1>1, <2>1, TypesBecome DEF ReapedNow
<1> QED
  BY <1>1, ReapsIs, NothingElse

\* Nobody but Read adds the process of a line.
LEMMA SameLines ==
  ASSUME Types, Begun, UNCHANGED <<script, line>>, Passed(line)' <=> Passed(line),
         \A n \in Nat : <<n>> \in Pids' <=> <<n>> \in Pids
  PROVE  Begun'
<1>1. \A n : n # line => (Passed(n)' <=> Passed(n))
  BY DEF Passed
<1>2. 1 .. Len(script) \subseteq Nat
  BY LineLimits
<1> QED
  BY <1>1, <1>2 DEF Begun

LEMMA BecomesLines == ASSUME NEW p, NEW e, Becomes(p, e) PROVE Pids' = Pids
  BY DEF Becomes, Pids

LEMMA ShellBegun ==
  ASSUME Types, Begun, UNCHANGED <<script, line, shell>>, Pids' = Pids PROVE Begun'
  BY DEF Begun, Passed

LEMMA ProcBegun ==
  ASSUME Types, Begun, NEW p \in Pids, ProcStep(p) \/ CommandKilled(p) PROVE Begun'
<1>1. UNCHANGED <<script, line, shell>>
  BY DEF ProcStep, RunCall, WaitCall, InstructionEnds, CommandEnds, CommandKilled
<1>2. CASE RunCall(p)
  <2>1. CASE Starts(p)
    <3>1. PICK c, a : Ran(p, c, a)
      BY <1>2, <2>1, RunCallIs
    <3> DEFINE q == Append(p, proc[p].pos)
    <3>2. Len(q) > 1
      BY <1>2, NewName, RunCallIs
    <3>3. Pids' = Pids \cup {q}
      BY <3>1 DEF Ran, Pids
    <3> HIDE DEF q
    <3>4. \A n \in Nat : <<n>> # q
      <4>1. \A n \in Nat : ~ (Len(<<n>>) > 1)
        OBVIOUS
      <4> QED
        BY <3>2, <4>1, Zenon
    <3>5. Passed(line)' <=> Passed(line)
      BY <1>1 DEF Passed
    <3> QED
      BY <1>1, <3>3, <3>4, <3>5, SameLines
  <2>2. CASE ~ Starts(p)
    <3>1. PICK a : Skipped(p, a)
      BY <1>2, <2>2, RunCallIs
    <3> QED
      BY <1>1, <3>1, BecomesLines, ShellBegun DEF Skipped
  <2> QED
    BY <2>1, <2>2
<1>3. CASE WaitCall(p)
  <2>1. Pids' = Pids
    <3>1. CASE WaitedOne(p, 0)
      BY <3>1, BecomesLines DEF WaitedOne
    <3>2. ASSUME NEW q, NEW r, WaitedFor(p, q, r) PROVE Pids' = Pids
      BY <3>2 DEF WaitedFor, Pids
    <3> QED
      BY <1>3, <3>1, <3>2, WaitCallIs, Zenon
  <2> QED
    BY <1>1, <2>1, ShellBegun
<1>4. CASE InstructionEnds(p) \/ CommandEnds(p) \/ CommandKilled(p)
  <2>1. Pids' = Pids
    BY <1>4 DEF InstructionEnds, CommandEnds, CommandKilled, Exited, Pids
  <2> QED
    BY <1>1, <2>1, ShellBegun
<1> QED
  BY <1>2, <1>3, <1>4 DEF ProcStep

LEMMA ProcTypes ==
  ASSUME Types, NEW p \in Pids, ProcStep(p) \/ CommandKilled(p) PROVE Types'
  BY RunCallTypes, WaitCallTypes, InstructionEndsTypes, CommandEndsTypes DEF ProcStep

LEMMA WaitIs ==
  ASSUME Types, Begun, Wait
  PROVE  /\ <<line>> \in Pids /\ line \in 1 .. Len(script) /\ Reaps(<<line>>) /\ shell = "wait"
         /\ shell' = "read" /\ line' = line + 1 /\ UNCHANGED <<script, active, ints, hit>>
  BY OldLine DEF Wait, Begun, Passed

LEMMA FinalWaitIs ==
  ASSUME Types, Begun, FinalWait
  PROVE  /\ Len(script) \in Nat \ {0} /\ line = Len(script) + 1 /\ <<Len(script)>> \in Pids
         /\ Reaps(<<Len(script)>>) /\ shell = "final" /\ active # 0 /\ active' = active - 1
         /\ UNCHANGED <<script, line, shell, ints, hit>>
<1>1. /\ line = Len(script) + 1 /\ Len(script) \in Nat /\ active < line /\ active \in Nat /\ active > 0
  BY LineLimits DEF FinalWait, Types, Shells
<1>2. Len(script) \in Nat \ {0} /\ Len(script) < line /\ line - 1 = Len(script)
  BY <1>1
<1>3. <<Len(script)>> \in Pids
  BY <1>2 DEF Begun, Passed
<1>4. Newest = <<Len(script)>>
  BY <1>2 DEF FinalWait, Newest
<1>5. Reaps(<<Len(script)>>)
  BY <1>4 DEF FinalWait, Reaps
<1> QED
  BY <1>1, <1>2, <1>3, <1>5 DEF FinalWait

LEMMA ReapsLines == ASSUME Types, NEW p \in Pids, Reaps(p) PROVE Pids' = Pids
<1>1. ASSUME NEW e, ReapedNow(p, e) PROVE Pids' = Pids
  BY <1>1, BecomesLines DEF ReapedNow
<1> QED
  BY <1>1, ReapsIs DEF Pids

LEMMA NextLine ==
  ASSUME Types, Begun, shell \in {"pushing", "wait"}, shell' = "read", line' = line + 1,
         Pids' = Pids, UNCHANGED script
  PROVE  Begun'
<1>1. line \in Nat /\ Len(script) \in Nat
  BY LineLimits
<1>2. \A n \in 1 .. Len(script) : n < line + 1 <=> n < line \/ n = line
  BY <1>1
<1> QED
  BY <1>2 DEF Begun, Passed

LEMMA ShellTypes == ASSUME Types, Begun, ShellStep PROVE Types' /\ Begun'
<1>1. CASE Read
  <2>1. /\ shell = "read" /\ line \in 1 .. Len(script) /\ UNCHANGED <<script, line>>
        /\ shell' \in {"pushing", "wait"}
    BY <1>1, ReadIs
  <2>2. PICK Q : /\ proc' = [r \in Q |-> proc'[r]] /\ Pids \subseteq Q /\ <<line>> \in Q
                 /\ \A r \in Q : r # <<line>> => r \in Pids /\ proc'[r] = proc[r]
    BY <1>1, ReadIs
  <2>3. Pids' = Q /\ \A n \in Nat : n # line => (<<n>> \in Pids' <=> <<n>> \in Pids)
    BY <2>2 DEF Pids
  <2>4. 1 .. Len(script) \subseteq Nat
    BY LineLimits
  <2>5. Begun'
    BY <2>1, <2>2, <2>3, <2>4 DEF Begun, Passed
  <2> QED
    BY <1>1, <2>5, ReadTypes
<1>2. CASE Push
  <2>1. shell = "pushing" /\ shell' = "read" /\ line' = line + 1 /\ Pids' = Pids /\ script' = script
    BY <1>2 DEF Push, Pids
  <2> QED
    BY <1>2, <2>1, NextLine, PushTypes
<1>3. CASE Wait
  <2>1. /\ <<line>> \in Pids /\ line \in 1 .. Len(script) /\ Reaps(<<line>>) /\ shell = "wait"
        /\ shell' = "read" /\ line' = line + 1 /\ UNCHANGED <<script, active, ints, hit>>
    BY <1>3, WaitIs
  <2>2. Shells'
    <3>1. line \in Nat /\ Len(script) \in Nat /\ active \in 0 .. line - 1 /\ script \in Scripts
      BY LineLimits DEF Types, Shells
    <3> QED
      BY <2>1, <3>1 DEF Shells
  <2>3. Types' /\ Pids' = Pids
    BY <2>1, <2>2, ReapsTypes, ReapsLines
  <2> QED
    BY <2>1, <2>3, NextLine
<1>4. CASE EndOfInput \/ Quit
  <2>1. UNCHANGED <<script, line, proc>> /\ shell \in {"read", "final"} /\ shell' \in {"final", "done"}
    BY <1>4 DEF EndOfInput, Quit
  <2>2. Begun'
    BY <2>1 DEF Begun, Passed, Pids
  <2> QED
    BY <1>4, <2>2, EndTypes
<1>5. CASE FinalWait
  <2>1. /\ Len(script) \in Nat \ {0} /\ line = Len(script) + 1 /\ <<Len(script)>> \in Pids
        /\ Reaps(<<Len(script)>>) /\ shell = "final" /\ active # 0 /\ active' = active - 1
        /\ UNCHANGED <<script, line, shell, ints, hit>>
    BY <1>5, FinalWaitIs
  <2>2. Shells'
    <3>1. active \in 0 .. line - 1 /\ line \in Nat
      BY LineLimits DEF Types, Shells
    <3>2. active' \in 0 .. line - 1
      BY <2>1, <3>1
    <3> QED
      BY <2>1, <3>2 DEF Types, Shells
  <2>3. Types' /\ Pids' = Pids
    BY <2>1, <2>2, ReapsTypes, ReapsLines
  <2> QED
    BY <2>1, <2>3, ShellBegun
<1> QED
  BY <1>1, <1>2, <1>3, <1>4, <1>5 DEF ShellStep

\* A SIGINT ends the newest line, or nothing, or everything that can be said.
LEMMA InterruptIs ==
  ASSUME Types, Interrupt
  PROVE  /\ ints' = ints + 1 /\ UNCHANGED <<script, line, reports>>
         /\ \/ shell = "pushing" /\ shell' = "undefined" /\ UNCHANGED <<proc, active, hit>>
            \/ active' \in {0, active} /\ shell' = shell /\ UNCHANGED <<proc, hit>>
            \/ /\ active' \in {0, active} /\ shell' = shell /\ Newest \in Executors
               /\ proc' = Exited(Newest, 0) /\ hit' = hit \cup {Newest[1]}
  BY DEF Interrupt

LEMMA InterruptTypes == ASSUME Types, Begun, Interrupt PROVE Types' /\ Begun'
<1>1. UNCHANGED <<script, line>> /\ 0 \in 0 .. line - 1
  BY InterruptIs, LineLimits
<1>2. CASE shell = "pushing" /\ shell' = "undefined" /\ UNCHANGED <<proc, active, hit>>
  BY <1>1, <1>2, NothingElse DEF Types, Shells, Begun, Passed, Pids
<1>3. ASSUME active' \in {0, active}, shell' = shell PROVE Shells'
  BY <1>1, <1>3 DEF Types, Shells
<1>4. CASE active' \in {0, active} /\ shell' = shell /\ UNCHANGED <<proc, hit>>
  BY <1>1, <1>3, <1>4, NothingElse, ShellBegun DEF Pids
<1>5. CASE active' \in {0, active} /\ shell' = shell /\ Newest \in Executors /\ proc' = Exited(Newest, 0)
  <2>1. Newest \in Pids /\ 0 \in 0 .. 255
    BY <1>5 DEF Executors
  <2>2. Types'
    BY <1>1, <1>3, <1>5, <2>1, Ends
  <2>3. Pids' = Pids
    BY <1>5 DEF Exited, Pids
  <2> QED
    BY <1>1, <1>5, <2>2, <2>3, ShellBegun
<1> QED
  BY <1>2, <1>4, <1>5, InterruptIs

LEMMA InitTypes == Init => Types /\ Begun
<1> SUFFICES ASSUME Init PROVE Types /\ Begun
  OBVIOUS
<1>1. Pids = {} /\ script \in Scripts /\ Len(script) \in Nat
  BY ScriptIs DEF Init, Pids
<1>2. Shells
  BY <1>1 DEF Init, Shells
<1>3. Begun
  BY <1>1 DEF Init, Begun, Passed
<1>4. proc = [r \in Pids |-> proc[r]]
  BY <1>1 DEF Init
<1> QED
  BY <1>1, <1>2, <1>3, <1>4 DEF Types

LEMMA TypesStep == Types /\ Begun /\ [Next]_vars => (Types /\ Begun)'
<1> SUFFICES ASSUME Types, Begun, [Next]_vars PROVE Types' /\ Begun'
  OBVIOUS
<1>1. CASE UNCHANGED vars
  <2>1. UNCHANGED <<script, proc, line, shell, active>> /\ Pids' = Pids
    BY <1>1 DEF vars, Pids
  <2> QED
    BY <2>1, NothingElse, ShellBegun, ShellsKept
<1> QED
  BY <1>1, ShellTypes, InterruptTypes, ProcTypes, ProcBegun DEF Next

LEMMA TypesRead == ASSUME Types PROVE TypeOK
<1>1. /\ line \in 1 .. Len(script) + 1 /\ active \in 0 .. Len(script)
      /\ shell \in {"read", "pushing", "wait", "final", "done", "undefined"}
  BY LineLimits DEF Types, Shells
<1>2. ASSUME NEW p \in Pids
      PROVE  /\ proc[p].st \in {"loop", "wait", "command", "zombie", "reaped"}
             /\ proc[p].code \in 0..255 /\ proc[p].pos \in 0..(Len(Calls(p)) + 1)
             /\ proc[p].st = "wait" => proc[p].act # << >>
             /\ Len(p) > 1 => Parent(p) \in Pids
  BY DEF Types, ProcOK, NameOK, Parent
<1> QED
  BY <1>1, <1>2 DEF TypeOK

\* Every process is a child of one of the tree, in a place of its line that
\* exists, with a code that exit can report, whatever the lines are, and a
\* process that waits has somebody to wait for.
THEOREM TypeCorrect == Spec => []TypeOK
<1>1. Init => Types /\ Begun
  BY InitTypes
<1>2. Types /\ Begun /\ [Next]_vars => (Types /\ Begun)'
  BY TypesStep
<1>3. Types /\ Begun => TypeOK
  BY TypesRead
<1> QED
  BY <1>1, <1>2, <1>3, PTL DEF Spec

--------------------------------------------------------------------------------
(* What is reported *)

LEMMA AppendSet ==
  ASSUME NEW S, NEW s \in Seq(S), NEW x \in S
  PROVE  /\ Append(s, x) \in Seq(S) /\ ToSet(s) \subseteq ToSet(Append(s, x))
         /\ x \in ToSet(Append(s, x))
<1> DEFINE t == Append(s, x)
<1>1. /\ t \in Seq(S) /\ Len(t) = Len(s) + 1 /\ Len(s) \in Nat /\ t[Len(s) + 1] = x
      /\ \A i \in 1 .. Len(s) : t[i] = s[i]
  OBVIOUS
<1> HIDE DEF t
<1>2. DOMAIN s = 1 .. Len(s) /\ DOMAIN t = 1 .. Len(t)
  BY <1>1
<1> QED
  BY <1>1, <1>2 DEF ToSet, t

\* Nobody is taken, and what was taken stays as it is.
Untaken ==
  \A n \in 1 .. Len(script) :
    /\ Taken(n)' <=> Taken(n)
    /\ Taken(n) => proc'[<<n>>].code = proc[<<n>>].code

LEMMA SameTold ==
  ASSUME Untaken, Told, UNCHANGED <<script, reports>> PROVE Told'
  BY DEF Told, Untaken, Reported

LEMMA SameReports ==
  ASSUME Types, Untaken, Reports, UNCHANGED <<script, line, reports, ints, active>>,
         shell' = "done" => shell = "done" \/ active = 0,
         shell' = "pushing" => script[line].bg
  PROVE  Reports'
<1>1. Behind'
  BY DEF Reports, Behind, Untaken
<1>2. LastOne'
  <2>1. Len(script) # 0 => Len(script) \in 1 .. Len(script)
    BY LineLimits
  <2> QED
    BY <2>1 DEF Reports, LastOne, Untaken
<1> QED
  BY <1>1, <1>2, SameTold DEF Reports, Pushes

LEMMA SinglesProc ==
  ASSUME Types, NEW p \in Pids, ProcStep(p) \/ CommandKilled(p), NEW n \in Nat
  PROVE  /\ <<n>> \in Pids' <=> <<n>> \in Pids
         /\ <<n>> \in Pids =>
              \/ proc'[<<n>>] = proc[<<n>>]
              \/ p = <<n>> /\ proc[<<n>>].st # "reaped" /\ proc'[<<n>>].st # "reaped"
<1>1. CASE RunCall(p)
  <2>1. proc[p].st = "loop"
    BY <1>1, RunCallIs
  <2>2. CASE Starts(p)
    <3>1. PICK c, a : Ran(p, c, a)
      BY <1>1, <2>2, RunCallIs
    <3> DEFINE q == Append(p, proc[p].pos)
    <3>2. Len(q) > 1
      BY <2>1, NewName
    <3>3. Pids' = Pids \cup {q} /\ proc'[p] = a /\ \A r \in Pids : r # p /\ r # q => proc'[r] = proc[r]
      BY <3>1 DEF Ran, Pids
    <3>4. a.st # "reaped"
      BY <3>1 DEF Ran
    <3> HIDE DEF q
    <3>5. <<n>> # q
      <4>1. ~ (Len(<<n>>) > 1)
        OBVIOUS
      <4> QED
        BY <3>2, <4>1, Zenon
    <3> QED
      BY <2>1, <3>3, <3>4, <3>5
  <2>3. CASE ~ Starts(p)
    <3>1. PICK a : Skipped(p, a)
      BY <1>1, <2>3, RunCallIs
    <3> QED
      BY <2>1, <3>1, BecomesLines DEF Skipped, Becomes
  <2> QED
    BY <2>2, <2>3
<1>2. CASE WaitCall(p)
  <2>1. proc[p].st = "wait"
    BY <1>2, WaitCallIs
  <2>2. \A c : Waited(proc[p], c).st # "reaped"
    BY WaitedIs DEF Types, ProcOK
  <2>3. CASE WaitedOne(p, 0)
    BY <2>1, <2>2, <2>3, BecomesLines DEF WaitedOne, Becomes
  <2>4. ASSUME NEW q \in Waitable(p, Head(proc[p].act)), NEW r, WaitedFor(p, q, r)
        PROVE  /\ <<n>> \in Pids' <=> <<n>> \in Pids
               /\ <<n>> \in Pids =>
                    \/ proc'[<<n>>] = proc[<<n>>]
                    \/ p = <<n>> /\ proc[<<n>>].st # "reaped" /\ proc'[<<n>>].st # "reaped"
    <3>1. Len(q) > 1
      BY DEF Waitable, Children
    <3>2. <<n>> # q
      <4>1. ~ (Len(<<n>>) > 1)
        OBVIOUS
      <4> QED
        BY <3>1, <4>1, Zenon
    <3> QED
      BY <2>1, <2>2, <2>4, <3>2 DEF WaitedFor, Pids
  <2> QED
    BY <1>2, <2>3, <2>4, WaitCallIs, Zenon
<1>3. CASE InstructionEnds(p) \/ CommandEnds(p) \/ CommandKilled(p)
  <2>1. proc[p].st # "reaped"
    BY <1>3 DEF InstructionEnds, CommandEnds, CommandKilled, Running
  <2>2. PICK c : proc' = Exited(p, c)
    BY <1>3 DEF InstructionEnds, CommandEnds, CommandKilled
  <2>3. PICK e : Becomes(p, e) /\ e.st = "zombie"
    BY <2>2, ExitedIs DEF Types, ProcOK
  <2> QED
    BY <2>1, <2>3, BecomesLines DEF Becomes
<1> QED
  BY <1>1, <1>2, <1>3 DEF ProcStep

LEMMA ProcReports ==
  ASSUME Types, Reports, NEW p \in Pids, ProcStep(p) \/ CommandKilled(p) PROVE Reports'
<1>1. UNCHANGED <<script, line, shell, active, reports, ints>>
  BY DEF ProcStep, RunCall, WaitCall, InstructionEnds, CommandEnds, CommandKilled
<1>2. Untaken
  <2>1. 1 .. Len(script) \subseteq Nat
    BY LineLimits
  <2> SUFFICES ASSUME NEW n \in 1 .. Len(script)
               PROVE  /\ Taken(n)' <=> Taken(n)
                      /\ Taken(n) => proc'[<<n>>].code = proc[<<n>>].code
    BY DEF Untaken
  <2>2. /\ <<n>> \in Pids' <=> <<n>> \in Pids
        /\ <<n>> \in Pids =>
              \/ proc'[<<n>>] = proc[<<n>>]
              \/ p = <<n>> /\ proc[<<n>>].st # "reaped" /\ proc'[<<n>>].st # "reaped"
    BY <2>1, SinglesProc
  <2> QED
    BY <2>2 DEF Taken
<1> QED
  BY <1>1, <1>2, SameReports DEF Reports, Pushes

\* A line is taken, or was taken before.
LEMMA ReapsReports ==
  ASSUME Types, Begun, Reports, NEW m \in 1 .. Len(script), <<m>> \in Pids, Reaps(<<m>>), UNCHANGED script
  PROVE  /\ Told' /\ reports' \in Seq(Names \X (0 .. 255)) /\ Taken(m)'
         /\ \A n \in 1 .. Len(script) : Taken(n) => Taken(n)'
<1> DEFINE p == <<m>>
           R == Names \X (0 .. 255)
<1>1. p \in Names /\ proc[p].code \in 0 .. 255 /\ 0 \in 0 .. 255
  BY DEF Types, NameOK, IsName, ProcOK
<1>2. \A n \in 1 .. Len(script) : n # m => <<n>> # p
  OBVIOUS
<1>3. CASE \E e : ReapedNow(p, e)
  <2>1. PICK e : ReapedNow(p, e)
    BY <1>3
  <2> DEFINE x == <<p, proc[p].code>>
  <2>2. x \in R
    BY <1>1
  <2>3. /\ reports' = Append(reports, x) /\ Pids' = Pids /\ proc'[p].st = "reaped" /\ proc'[p].code = proc[p].code
        /\ \A r \in Pids : r # p => proc'[r] = proc[r]
    BY <2>1, BecomesLines DEF ReapedNow, Becomes
  <2> HIDE DEF R, x
  <2>4. reports' \in Seq(R) /\ ToSet(reports) \subseteq ToSet(reports') /\ x \in ToSet(reports')
    BY <2>2, <2>3, AppendSet DEF Reports, R
  <2> HIDE DEF p
  <2>5. \A n \in 1 .. Len(script) : n # m => (Taken(n)' <=> Taken(n)) /\ (Reported(n) /\ Taken(n) => Reported(n)')
    BY <1>2, <2>3, <2>4 DEF Taken, Reported
  <2>6. Taken(m)' /\ Reported(m)'
    BY <2>3, <2>4 DEF Taken, Reported, x, p
  <2>7. Told'
    BY <2>5, <2>6 DEF Reports, Told
  <2> QED
    BY <2>4, <2>5, <2>6, <2>7 DEF R
<1>4. CASE proc' = proc /\ proc[p].st = "reaped" /\ reports' = Append(reports, <<p, 0>>)
  <2> DEFINE x == <<p, 0>>
  <2>1. x \in R /\ reports' = Append(reports, x)
    BY <1>1, <1>4
  <2> HIDE DEF R, x
  <2>2. reports' \in Seq(R) /\ ToSet(reports) \subseteq ToSet(reports')
    BY <2>1, AppendSet DEF Reports, R
  <2>3. \A n \in 1 .. Len(script) : (Taken(n)' <=> Taken(n)) /\ (Reported(n) => Reported(n)')
    BY <1>4, <2>2 DEF Taken, Reported, Pids
  <2>4. Taken(m)
    BY <1>4 DEF Taken
  <2> QED
    BY <2>2, <2>3, <2>4 DEF Reports, Told, R
<1> QED
  BY <1>3, <1>4, ReapsIs

LEMMA ReadReports == ASSUME Types, Begun, Reports, Read PROVE Reports'
<1>1. /\ shell = "read" /\ line \in 1 .. Len(script)
      /\ UNCHANGED <<script, line, active, reports, ints, hit>>
      /\ shell' = IF script[line].bg THEN "pushing" ELSE "wait"
  BY ReadIs
<1>2. LET e == proc'[<<line>>] IN e.st = "loop"
  BY ReadIs
<1>3. PICK Q : /\ proc' = [r \in Q |-> proc'[r]] /\ Pids \subseteq Q /\ <<line>> \in Q
               /\ \A r \in Q : r # <<line>> => r \in Pids /\ proc'[r] = proc[r]
  BY ReadIs
<1>4. Pids' = Q
  BY <1>3 DEF Pids
<1>5. ~ Taken(line) /\ ~ Taken(line)'
  <2>1. <<line>> \notin Pids
    BY <1>1, LineLimits DEF Begun, Passed
  <2> QED
    BY <1>1, <1>2, <2>1 DEF Taken
<1>6. \A n \in 1 .. Len(script) : n # line =>
        (Taken(n)' <=> Taken(n)) /\ (Taken(n) => proc'[<<n>>].code = proc[<<n>>].code)
  <2>1. \A n \in 1 .. Len(script) : n # line => <<n>> # <<line>>
    OBVIOUS
  <2> QED
    BY <1>3, <1>4, <2>1 DEF Taken
<1>7. Untaken
  BY <1>1, <1>5, <1>6 DEF Untaken
<1> QED
  BY <1>1, <1>7, SameReports

LEMMA PushReports == ASSUME Types, Begun, Reports, Push PROVE Reports'
<1>1. /\ UNCHANGED <<script, proc, reports, ints>> /\ shell = "pushing" /\ shell' = "read"
      /\ line' = line + 1 /\ active' = active + 1
  BY DEF Push
<1>2. Untaken
  BY <1>1 DEF Untaken, Taken, Pids
<1>3. active \in Nat /\ line \in Nat /\ Len(script) \in Nat
  BY LineLimits
<1>4. LastOne'
  BY <1>1, <1>3 DEF LastOne
<1>5. script[line].bg
  BY <1>1 DEF Reports, Pushes
<1>6. Behind'
  <2> SUFFICES ASSUME NEW n \in 1 .. Len(script), n < line + 1, ~ script[n].bg PROVE Taken(n)'
    BY <1>1 DEF Behind
  <2>1. n < line
    BY <1>3, <1>5
  <2> QED
    BY <1>2, <2>1 DEF Reports, Behind, Untaken
<1>7. Pushes'
  BY <1>1 DEF Pushes
<1> QED
  BY <1>1, <1>2, <1>4, <1>6, <1>7, SameTold DEF Reports

LEMMA WaitReports == ASSUME Types, Begun, Reports, Wait PROVE Reports'
<1>1. /\ <<line>> \in Pids /\ line \in 1 .. Len(script) /\ Reaps(<<line>>) /\ shell = "wait"
      /\ shell' = "read" /\ line' = line + 1 /\ UNCHANGED <<script, active, ints, hit>>
  BY WaitIs
<1>2. PICK m \in 1 .. Len(script) : m = line
  BY <1>1
<1>3. /\ Told' /\ reports' \in Seq(Names \X (0 .. 255)) /\ Taken(m)'
      /\ \A n \in 1 .. Len(script) : Taken(n) => Taken(n)'
  <2>1. <<m>> \in Pids /\ Reaps(<<m>>)
    BY <1>1, <1>2 DEF Reaps
  <2> QED
    BY <1>1, <2>1, ReapsReports
<1>4. line \in Nat /\ Len(script) \in Nat
  BY LineLimits
<1>5. Behind'
  <2> SUFFICES ASSUME NEW n \in 1 .. Len(script), n < line + 1, ~ script[n].bg PROVE Taken(n)'
    BY <1>1 DEF Behind
  <2>1. n < line \/ n = m
    BY <1>2, <1>4
  <2> QED
    BY <1>3, <2>1 DEF Reports, Behind
<1>6. LastOne'
  <2>1. line + 1 = Len(script) + 1 => m = Len(script)
    BY <1>2, <1>4
  <2> QED
    BY <1>1, <1>3, <2>1, Zenon DEF LastOne
<1>7. Pushes'
  BY <1>1 DEF Pushes
<1> QED
  BY <1>1, <1>3, <1>5, <1>6, <1>7 DEF Reports

LEMMA FinalWaitReports == ASSUME Types, Begun, Reports, FinalWait PROVE Reports'
<1>1. /\ Len(script) \in Nat \ {0} /\ line = Len(script) + 1 /\ <<Len(script)>> \in Pids
      /\ Reaps(<<Len(script)>>) /\ shell = "final" /\ active # 0 /\ active' = active - 1
      /\ UNCHANGED <<script, line, shell, ints, hit>>
  BY FinalWaitIs
<1>2. PICK m \in 1 .. Len(script) : m = Len(script)
  BY <1>1
<1>3. /\ Told' /\ reports' \in Seq(Names \X (0 .. 255)) /\ Taken(m)'
      /\ \A n \in 1 .. Len(script) : Taken(n) => Taken(n)'
  <2>1. <<m>> \in Pids /\ Reaps(<<m>>)
    BY <1>1, <1>2 DEF Reaps
  <2> QED
    BY <1>1, <2>1, ReapsReports
<1>4. Behind'
  BY <1>1, <1>3 DEF Reports, Behind
<1>5. LastOne'
  BY <1>1, <1>2, <1>3, Zenon DEF LastOne
<1>6. Pushes'
  BY <1>1 DEF Pushes
<1> QED
  BY <1>1, <1>3, <1>4, <1>5, <1>6 DEF Reports

LEMMA ShellReports == ASSUME Types, Begun, Reports, ShellStep PROVE Reports'
<1>1. CASE EndOfInput \/ Quit
  <2>1. /\ UNCHANGED <<script, proc, line, active, reports, ints>> /\ shell' \in {"final", "done"}
        /\ shell' = "done" => active = 0
    BY <1>1 DEF EndOfInput, Quit
  <2>2. Untaken
    BY <2>1 DEF Untaken, Taken, Pids
  <2> QED
    BY <2>1, <2>2, SameReports
<1> QED
  BY <1>1, ReadReports, PushReports, WaitReports, FinalWaitReports DEF ShellStep

LEMMA InterruptReports == ASSUME Types, Begun, Reports, Interrupt PROVE Reports'
<1>1. /\ ints' = ints + 1 /\ UNCHANGED <<script, line, reports>>
      /\ shell' = shell \/ shell' = "undefined"
      /\ active' \in {0, active}
  BY InterruptIs
<1>2. Untaken
  <2>1. CASE UNCHANGED proc
    BY <1>1, <2>1 DEF Untaken, Taken, Pids
  <2>2. CASE Newest \in Executors /\ proc' = Exited(Newest, 0)
    <3> DEFINE p == Newest
    <3>1. p \in Pids /\ proc[p].st # "reaped"
      BY <2>2 DEF Executors
    <3>2. PICK e : Becomes(p, e) /\ e.st = "zombie"
      BY <2>2, <3>1, ExitedIs DEF Types, ProcOK
    <3>3. Pids' = Pids /\ proc'[p] = e /\ \A r \in Pids : r # p => proc'[r] = proc[r]
      BY <3>2, BecomesLines DEF Becomes
    <3>4. \A n \in 1 .. Len(script) : <<n>> \in Pids =>
            proc'[<<n>>] = proc[<<n>>] \/ (proc[<<n>>].st # "reaped" /\ proc'[<<n>>].st # "reaped")
      BY <3>1, <3>2, <3>3
    <3> QED
      BY <3>3, <3>4 DEF Untaken, Taken
  <2> QED
    BY <2>1, <2>2, InterruptIs
<1>3. ints \in Nat
  BY DEF Reports
<1>4. Told' /\ Behind'
  BY <1>1, <1>2, SameTold DEF Reports, Behind, Untaken
<1>5. LastOne' /\ ints' \in Nat
  BY <1>1, <1>3 DEF LastOne
<1> QED
  BY <1>1, <1>4, <1>5 DEF Reports, Pushes

LEMMA InitReports == Init => Reports
<1> SUFFICES ASSUME Init PROVE Reports
  OBVIOUS
<1>1. Pids = {} /\ Len(script) \in Nat /\ line = 1 /\ shell = "read" /\ reports = << >> /\ ints = 0
  BY ScriptIs DEF Init, Pids
<1>2. Told /\ Behind /\ LastOne
  BY <1>1 DEF Told, Behind, LastOne, Taken
<1> QED
  BY <1>1, <1>2 DEF Reports, Pushes

LEMMA ReportsStep == Types /\ Begun /\ Reports /\ [Next]_vars => Reports'
<1> SUFFICES ASSUME Types, Begun, Reports, [Next]_vars PROVE Reports'
  OBVIOUS
<1>1. CASE UNCHANGED vars
  <2>1. Untaken
    BY <1>1 DEF Untaken, Taken, Pids, vars
  <2> QED
    BY <1>1, <2>1, SameReports DEF vars, Reports, Pushes
<1> QED
  BY <1>1, ShellReports, InterruptReports, ProcReports DEF Next

\* A shell that has ended without a SIGINT has reported every line that it waited
\* for and the last one with the code that line ended with, whatever the lines
\* are and however long they ran.
THEOREM ReportsRight == Spec => []EndsReported
<1>1. Init => Types /\ Begun /\ Reports
  BY InitTypes, InitReports
<1>2. (Types /\ Begun /\ Reports) /\ [Next]_vars => (Types /\ Begun /\ Reports)'
  BY TypesStep, ReportsStep
<1>3. Types /\ Begun /\ Reports => EndsReported
  <2> SUFFICES ASSUME Types, Reports, shell = "done", ints = 0,
                      NEW n \in 1 .. Len(script), ~ (script[n].bg /\ n < Len(script))
               PROVE  Reported(n)
    BY DEF EndsReported, Reported
  <2>1. line = Len(script) + 1 /\ Len(script) \in Nat /\ n < line
    BY LineLimits DEF Types, Shells
  <2>2. CASE ~ script[n].bg
    BY <2>1, <2>2 DEF Reports, Behind, Told
  <2>3. CASE script[n].bg /\ n = Len(script)
    <3>1. Taken(n)
      BY <2>1, <2>3 DEF Reports, LastOne
    <3> QED
      BY <3>1 DEF Reports, Told
  <2> QED
    BY <2>1, <2>2, <2>3
<1> QED
  BY <1>1, <1>2, <1>3, PTL DEF Spec

--------------------------------------------------------------------------------
(* The value of a line *)

LEMMA MinExists ==
  ASSUME NEW T, T \subseteq Nat, T # {}
  PROVE  \E x \in T : \A y \in T : x <= y
<1> DEFINE Less == OpToRel(<, Nat)
<1>1. PICK x \in T : \A y \in T : ~ (<<y, x>> \in Less)
  <2>1. IsWellFoundedOn(Less, Nat)
    BY NatLessThanWellFounded
  <2> HIDE DEF Less
  <2> QED
    BY <2>1, WFMin
<1>2. \A y \in T : <<y, x>> \in Less <=> y < x
  <2>1. \A y \in T : <<y, x>> \in Nat \X Nat
    OBVIOUS
  <2> QED
    BY <2>1 DEF OpToRel
<1> HIDE DEF Less
<1>3. \A y \in T : ~ (y < x)
  BY <1>1, <1>2, Zenon
<1> QED
  BY <1>3

LEMMA Induction ==
  ASSUME NEW T, 0 \in T, \A n \in Nat : n \in T => n + 1 \in T
  PROVE  \A n \in Nat : n \in T
<1> SUFFICES ASSUME NEW n \in Nat, n \notin T PROVE FALSE
  OBVIOUS
<1> DEFINE U == {k \in Nat : k \notin T}
<1>1. PICK k \in U : \A l \in U : k <= l
  BY MinExists
<1>2. k - 1 \in Nat /\ k - 1 \notin U
  BY <1>1
<1> QED
  BY <1>1, <1>2

\* The function inside Value, up to call n.
OpBefore(l, i) == IF i = 1 THEN "LAST" ELSE l.ops[i - 1]
Stays(l, i, v) == (OpBefore(l, i) = "AND" /\ v # 0) \/ (OpBefore(l, i) = "OR" /\ v = 0)
ValueAt(l, f, i) == IF Stays(l, i, f[i - 1]) THEN f[i - 1] ELSE Code(l.calls[i].cmd)
ValueUpTo(l, n, f) == f = [i \in 0 .. n |-> IF i = 0 THEN 0 ELSE ValueAt(l, f, i)]

LEMMA ValueUnfolds ==
  ASSUME NEW l, NEW n \in Nat, NEW f, ValueUpTo(l, n, f)
  PROVE  f[0] = 0 /\ \A i \in 1 .. n : f[i] = ValueAt(l, f, i)
<1>1. 0 \in 0 .. n /\ \A i \in 1 .. n : i \in 0 .. n /\ i # 0
  OBVIOUS
<1> QED
  BY <1>1, Zenon DEF ValueUpTo

LEMMA ValueExists == ASSUME NEW l, NEW m \in Nat PROVE \E f : ValueUpTo(l, m, f)
<1> DEFINE T == {n \in Nat : \E f : ValueUpTo(l, n, f)}
<1>1. 0 \in T
  <2>1. ValueUpTo(l, 0, [i \in 0 .. 0 |-> 0])
    BY DEF ValueUpTo
  <2> QED
    BY <2>1
<1>2. ASSUME NEW n \in Nat, n \in T PROVE n + 1 \in T
  <2>1. PICK f : ValueUpTo(l, n, f)
    BY <1>2
  <2> DEFINE g == [i \in 0 .. n + 1 |-> IF i = n + 1 THEN ValueAt(l, f, i) ELSE f[i]]
  <2>2. ASSUME NEW i \in 0 .. n + 1 PROVE g[i] = IF i = 0 THEN 0 ELSE ValueAt(l, g, i)
    <3>1. CASE i = n + 1
      <4>1. i # 0 /\ g[i] = ValueAt(l, f, i) /\ g[i - 1] = f[i - 1]
        BY <3>1
      <4> HIDE DEF g
      <4> QED
        BY <4>1, Zenon DEF ValueAt
    <3>2. CASE i \in 1 .. n
      <4>1. i # 0 /\ g[i] = f[i] /\ g[i - 1] = f[i - 1]
        BY <3>2
      <4>2. f[i] = ValueAt(l, f, i)
        BY <2>1, <3>2, ValueUnfolds
      <4> HIDE DEF g
      <4> QED
        BY <4>1, <4>2, Zenon DEF ValueAt
    <3>3. CASE i = 0
      <4>1. g[0] = f[0]
        OBVIOUS
      <4> QED
        BY <2>1, <3>3, <4>1, ValueUnfolds
    <3> QED
      BY <3>1, <3>2, <3>3
  <2>3. g = [i \in 0 .. n + 1 |-> g[i]]
    OBVIOUS
  <2> HIDE DEF g
  <2>4. ValueUpTo(l, n + 1, g)
    BY <2>2, <2>3, Zenon DEF ValueUpTo
  <2> QED
    BY <2>4
<1> HIDE DEF T
<1>3. m \in T
  BY <1>1, <1>2, Induction
<1> QED
  BY <1>3 DEF T

\* The value of a line changes at the calls that run.
LEMMA ValueIs ==
  ASSUME NEW l, Len(l.calls) \in Nat
  PROVE  /\ Value(l)[0] = 0
         /\ \A i \in 1 .. Len(l.calls) :
              Value(l)[i] = IF Runs(l, i) THEN Code(l.calls[i].cmd) ELSE Value(l)[i - 1]
<1> DEFINE n == Len(l.calls)
           f == CHOOSE g : ValueUpTo(l, n, g)
<1>1. ValueUpTo(l, n, f)
  BY ValueExists
<1>2. Value(l) = f
  BY DEF Value, ValueUpTo, ValueAt, Stays, OpBefore
<1> HIDE DEF f
<1>3. f[0] = 0 /\ \A i \in 1 .. n : f[i] = ValueAt(l, f, i)
  BY <1>1, ValueUnfolds
<1>4. ASSUME NEW i \in 1 .. n PROVE f[i] = IF Runs(l, i) THEN Code(l.calls[i].cmd) ELSE f[i - 1]
  <2>1. Runs(l, i) <=> ~ Stays(l, i, f[i - 1])
    BY <1>2 DEF Runs, Stays, OpBefore
  <2> QED
    BY <1>3, <2>1, Zenon DEF ValueAt
<1> QED
  BY <1>2, <1>3, <1>4, Zenon

\* Whether a call starts is decided by the code so far exactly as by the value.
LEMMA StartsIs ==
  ASSUME NEW l \in Instructions, Len(l.ops) \in {Len(l.calls) - 1, Len(l.calls)},
         NEW i \in 1 .. Len(l.calls), NEW code,
         i = 1 \/ Action(l, i - 1) # "SIMULTANEOUSLY" => code = Value(l)[i - 1]
  PROVE  Started(LastAction(l, i), code) <=> Runs(l, i)
<1>1. Len(l.calls) \in Nat /\ Len(l.ops) \in Nat /\ \A k \in 1 .. Len(l.ops) : l.ops[k] \in Ops
  BY LineIs
<1>2. CASE i = 1
  BY <1>2 DEF Runs, Started, LastAction
<1>3. CASE i # 1
  <2> DEFINE op == l.ops[i - 1]
  <2>1. op \in Ops /\ ~ (i - 1 > Len(l.ops))
    BY <1>1, <1>3
  <2>2. Action(l, i - 1) = op
    BY <2>1, Zenon DEF Action
  <2>3. /\ op \in {"AND", "OR", "SIMULTANEOUSLY", "LAST"}
        /\ LastAction(l, i) = IF op = "LAST" THEN "FIRST" ELSE op
        /\ Runs(l, i) <=> (op = "AND" => Value(l)[i - 1] = 0) /\ (op = "OR" => Value(l)[i - 1] # 0)
    BY <1>3, <2>1 DEF Ops, LastAction, Runs
  <2> HIDE DEF op
  <2> QED
    BY <2>2, <2>3 DEF Started
<1> QED
  BY <1>2, <1>3

--------------------------------------------------------------------------------
(* Plain lines *)

LEMMA PlainBefore ==
  ASSUME UNCHANGED script, hit \subseteq hit', NEW n, Plain(n)' PROVE Plain(n)
  BY DEF Plain

LEMMA SameCallOK ==
  ASSUME UNCHANGED script, NEW n, NEW i, CallOK(n, i), proc'[<<n, i>>] = proc[<<n, i>>],
         proc'[<<n>>].act = proc[<<n>>].act
  PROVE  CallOK(n, i)'
<1>1. \A k : proc'[<<n>>].act[k] = proc[<<n>>].act[k]
  OBVIOUS
<1> QED
  BY <1>1 DEF CallOK

\* What others do does not touch a line.
LEMMA Elsewhere ==
  ASSUME UNCHANGED script, NEW n \in Nat,
         \A r : r[1] = n => (r \in Pids' <=> r \in Pids) /\ (r \in Pids => proc'[r] = proc[r]),
         <<n>> \in Pids, LineOK(n)
  PROVE  LineOK(n)'
<1>1. proc'[<<n>>] = proc[<<n>>]
  OBVIOUS
<1>2. \A i : (<<n, i>> \in Pids' <=> <<n, i>> \in Pids) /\ (<<n, i>> \in Pids => proc'[<<n, i>>] = proc[<<n, i>>])
  <2>1. \A i : <<n, i>>[1] = n
    OBVIOUS
  <2> QED
    BY <2>1
<1>3. Done(n)' = Done(n)
  BY <1>1 DEF Done
<1>4. Calls1(n)'
  <2>1. \A q \in Pids' : q[1] = n /\ Len(q) > 1 => \E i \in Done(n) : q = <<n, i>>
    BY DEF LineOK, Calls1
  <2>2. \A i \in Done(n) : <<n, i>> \in Pids' <=> Runs(script[n], i)
    BY <1>2 DEF LineOK, Calls1
  <2>3. ASSUME NEW i \in Done(n), <<n, i>> \in Pids' PROVE CallOK(n, i)'
    <3>1. proc'[<<n, i>>] = proc[<<n, i>>] /\ CallOK(n, i)
      BY <1>2, <2>3 DEF LineOK, Calls1
    <3> QED
      BY <1>1, <3>1, SameCallOK
  <2> QED
    BY <1>3, <2>1, <2>2, <2>3 DEF Calls1
<1>5. Active1(n)'
  <2>1. \A i : <<n, i>> \in Pids /\ proc[<<n, i>>].st # "reaped" => <<n, i>> \in Pids' /\ proc'[<<n, i>>].st # "reaped"
    BY <1>2
  <2> QED
    BY <1>1, <1>3, <2>1 DEF LineOK, Active1
<1>6. Phase(n)'
  BY <1>1 DEF LineOK, Phase, Settled
<1> QED
  BY <1>4, <1>5, <1>6 DEF LineOK

\* Where the line's own process stays at its call and what it waits for, and only
\* its calls end, the calls are as they should be.
LEMMA SameCalls ==
  ASSUME UNCHANGED script, NEW n \in Nat, Pids' = Pids, LineOK(n),
         proc'[<<n>>].pos = proc[<<n>>].pos, proc'[<<n>>].act = proc[<<n>>].act,
         \A i \in Done(n) : <<n, i>> \in Pids =>
           \/ proc'[<<n, i>>] = proc[<<n, i>>]
           \/ /\ proc[<<n, i>>].st # "reaped" /\ proc'[<<n, i>>].st = "zombie"
              /\ proc'[<<n, i>>].code = Code(script[n].calls[i].cmd)
  PROVE  Calls1(n)' /\ Active1(n)'
<1>1. Done(n)' = Done(n)
  BY DEF Done
<1>2. ASSUME NEW i \in Done(n), <<n, i>> \in Pids PROVE CallOK(n, i)'
  <2>1. CallOK(n, i)
    BY <1>2 DEF LineOK, Calls1
  <2>2. CASE proc'[<<n, i>>] = proc[<<n, i>>]
    BY <2>1, <2>2, SameCallOK
  <2>3. CASE /\ proc[<<n, i>>].st # "reaped" /\ proc'[<<n, i>>].st = "zombie"
             /\ proc'[<<n, i>>].code = Code(script[n].calls[i].cmd)
    BY <2>1, <2>3 DEF CallOK
  <2> QED
    BY <1>2, <2>2, <2>3
<1>3. Calls1(n)'
  BY <1>1, <1>2 DEF LineOK, Calls1
<1>4. \A i \in Done(n) : <<n, i>> \in Pids /\ proc[<<n, i>>].st # "reaped" => proc'[<<n, i>>].st # "reaped"
  OBVIOUS
<1>5. Active1(n)'
  BY <1>1, <1>4 DEF LineOK, Active1
<1> QED
  BY <1>3, <1>5

LEMMA PlainIs ==
  ASSUME Types, NEW n \in 1 .. Len(script)
  PROVE  n \in Nat /\ script[n] \in Instructions /\ Len(script[n].calls) \in Nat
         /\ Len(script[n].ops) \in {Len(script[n].calls) - 1, Len(script[n].calls)}
<1>1. n \in Nat
  BY LineLimits
<1>2. script[n] \in Instructions /\ Len(script[n].ops) \in {Len(script[n].calls) - 1, Len(script[n].calls)}
  BY ScriptIs DEF Types, Shells
<1> QED
  BY <1>1, <1>2, LineIs

\* A process of a plain line is the one of the line or that of a call.
LEMMA PlainProcs ==
  ASSUME Types, NEW p \in Pids, LineOK(p[1])
  PROVE  p = <<p[1]>> \/ \E i \in Done(p[1]) : p = <<p[1], i>> /\ <<p[1], i>> \in Pids
<1>1. p \in Names /\ Len(p) \in Nat \ {0}
  BY DEF Types, NameOK, IsName
<1>2. CASE Len(p) = 1
  BY <1>1, <1>2, OneName
<1>3. CASE Len(p) > 1
  <2>1. PICK i \in Done(p[1]) : p = <<p[1], i>>
    BY <1>3 DEF LineOK, Calls1
  <2> QED
    BY <2>1, Zenon
<1>4. Len(p) = 1 \/ Len(p) > 1
  <2>1. \A k \in Nat \ {0} : k = 1 \/ k > 1
    OBVIOUS
  <2> QED
    BY <1>1, <2>1, Zenon
<1> QED
  BY <1>2, <1>3, <1>4

LEMMA BecomesElsewhere ==
  ASSUME UNCHANGED script, NEW p, NEW e, Becomes(p, e), NEW n \in Nat, p[1] # n,
         <<n>> \in Pids, LineOK(n)
  PROVE  LineOK(n)'
<1>1. \A r : r[1] = n => (r \in Pids' <=> r \in Pids) /\ (r \in Pids => proc'[r] = proc[r])
  BY BecomesLines DEF Becomes
<1> QED
  BY <1>1, Elsewhere

LEMMA TwoNames ==
  ASSUME NEW n, NEW i PROVE <<n>> # <<n, i>> /\ \A k : <<n, i>> = <<n, k>> => i = k
<1>1. Len(<<n>>) = 1 /\ Len(<<n, i>>) = 2 /\ <<n, i>>[2] = i /\ \A k : <<n, k>>[2] = k
  OBVIOUS
<1> QED
  BY <1>1

LEMMA CommandPlain ==
  ASSUME Types, NEW p \in Pids, CommandEnds(p), NEW n \in Nat, <<n>> \in Pids, LineOK(n)
  PROVE  LineOK(n)'
<1> DEFINE cmd == Calls(p)[Last(p)].cmd
<1>1. UNCHANGED script /\ proc[p].st = "command" /\ proc' = Exited(p, Code(cmd))
  BY DEF CommandEnds, Running
<1>2. PICK e : Becomes(p, e) /\ e.st = "zombie" /\ e.code = Code(cmd)
  BY <1>1, ExitedIs DEF Types, ProcOK
<1>3. CASE p[1] # n
  BY <1>1, <1>2, <1>3, BecomesElsewhere
<1>4. CASE p[1] = n
  <2>1. p # <<n>>
    BY <1>1 DEF LineOK, Phase
  <2>2. PICK i \in Done(n) : p = <<n, i>> /\ <<n, i>> \in Pids
    BY <1>4, <2>1, PlainProcs
  <2>3. cmd = script[n].calls[i].cmd
    <3>1. Last(p) = i /\ Calls(p) = script[n].calls
      <4>1. Len(<<n, i>>) = 2 /\ <<n, i>>[2] = i
        OBVIOUS
      <4> QED
        BY <1>4, <2>2, <4>1 DEF Last, Calls, Line
    <3> QED
      BY <3>1
  <2>4. Pids' = Pids /\ proc'[p] = e /\ \A r \in Pids : r # p => proc'[r] = proc[r]
    BY <1>2, BecomesLines DEF Becomes
  <2>5. proc'[<<n>>] = proc[<<n>>]
    BY <2>1, <2>4
  <2>6. \A k \in Done(n) : <<n, k>> \in Pids =>
           \/ proc'[<<n, k>>] = proc[<<n, k>>]
           \/ /\ proc[<<n, k>>].st # "reaped" /\ proc'[<<n, k>>].st = "zombie"
              /\ proc'[<<n, k>>].code = Code(script[n].calls[k].cmd)
    <3> SUFFICES ASSUME NEW k \in Done(n), <<n, k>> \in Pids, proc'[<<n, k>>] # proc[<<n, k>>]
                 PROVE  /\ proc[<<n, k>>].st # "reaped" /\ proc'[<<n, k>>].st = "zombie"
                        /\ proc'[<<n, k>>].code = Code(script[n].calls[k].cmd)
      OBVIOUS
    <3>1. <<n, k>> = <<n, i>>
      BY <2>2, <2>4
    <3>2. k = i
      BY <3>1, TwoNames
    <3> QED
      BY <1>1, <1>2, <2>2, <2>3, <2>4, <3>2
  <2>7. Calls1(n)' /\ Active1(n)'
    BY <1>1, <2>4, <2>5, <2>6, SameCalls
  <2>8. Phase(n)'
    BY <1>1, <2>5 DEF LineOK, Phase, Settled
  <2> QED
    BY <2>7, <2>8 DEF LineOK
<1> QED
  BY <1>3, <1>4

\* No line ends in the middle of a pipeline.
LEMMA InstructionPlain ==
  ASSUME PipesClosed, Types, NEW p \in Pids, InstructionEnds(p),
         NEW n \in 1 .. Len(script), <<n>> \in Pids, LineOK(n)
  PROVE  LineOK(n)'
<1>1. UNCHANGED script /\ proc[p].st = "loop" /\ proc[p].pos > Len(Calls(p)) /\ proc' = Exited(p, proc[p].code)
  BY DEF InstructionEnds
<1>2. n \in Nat /\ Len(script[n].calls) \in Nat
  BY PlainIs
<1>3. PICK e : Becomes(p, e) /\ e.st = "zombie" /\ e.code = proc[p].code /\ e.act = proc[p].act /\ e.pos = proc[p].pos
  BY <1>1, ExitedIs DEF Types, ProcOK
<1>4. CASE p[1] # n
  BY <1>1, <1>2, <1>3, <1>4, BecomesElsewhere
<1>5. CASE p[1] = n
  <2>1. p = <<n>>
    <3> SUFFICES ASSUME p # <<n>> PROVE FALSE
      OBVIOUS
    <3>1. PICK i \in Done(n) : p = <<n, i>> /\ <<n, i>> \in Pids
      BY <1>5, PlainProcs
    <3> QED
      BY <1>1, <3>1 DEF LineOK, Calls1, CallOK
  <2>2. Pids' = Pids /\ proc'[<<n>>] = e /\ \A r \in Pids : r # <<n>> => proc'[r] = proc[r]
    BY <1>3, <2>1, BecomesLines DEF Becomes
  <2>3. Calls1(n)' /\ Active1(n)'
    <3>1. \A i : <<n, i>> # <<n>>
      BY TwoNames
    <3> QED
      BY <1>1, <1>2, <1>3, <2>1, <2>2, <3>1, SameCalls
  <2>4. Calls(p) = script[n].calls
    BY <1>5 DEF Calls, Line
  <2>5. proc[<<n>>].pos = Len(script[n].calls) + 1
    BY <1>1, <1>2, <2>1, <2>4 DEF LineOK, Phase
  <2>6. Settled(n, Len(script[n].calls))
    BY DEF PipesClosed, Settled, Types, Shells
  <2>7. proc[<<n>>].act = << >> /\ proc[<<n>>].code = Value(script[n])[Len(script[n].calls)]
    <3>1. proc[<<n>>].pos - 1 = Len(script[n].calls)
      BY <1>2, <2>5
    <3> QED
      BY <1>1, <2>1, <2>6, <3>1 DEF LineOK, Phase
  <2>8. Phase(n)'
    <3>1. /\ proc'[<<n>>].st = "zombie" /\ proc'[<<n>>].pos = Len(script[n].calls) + 1
          /\ proc'[<<n>>].act = << >> /\ proc'[<<n>>].code = Value(script[n])[Len(script[n].calls)]
      BY <1>3, <2>1, <2>2, <2>5, <2>7
    <3>2. proc'[<<n>>].pos \in 1 .. Len(script[n].calls) + 1
      BY <1>2, <3>1
    <3> QED
      BY <1>1, <3>1, <3>2 DEF Phase
  <2> QED
    BY <2>3, <2>8 DEF LineOK
<1> QED
  BY <1>4, <1>5

\* In a plain line only the process of the line makes progress through it.
LEMMA PlainExecutor ==
  ASSUME Types, NEW p \in Pids, NEW n, p[1] = n, LineOK(n), proc[p].st \in {"loop", "wait"}
  PROVE  p = <<n>>
<1> SUFFICES ASSUME p # <<n>> PROVE FALSE
  OBVIOUS
<1>1. PICK i \in Done(n) : p = <<n, i>> /\ <<n, i>> \in Pids
  BY PlainProcs
<1> QED
  BY <1>1 DEF LineOK, Calls1, CallOK

LEMMA NotYet ==
  ASSUME NEW n \in Nat, LineOK(n), NEW i \in Nat, i \notin Done(n) PROVE <<n, i>> \notin Pids
<1> SUFFICES ASSUME <<n, i>> \in Pids PROVE FALSE
  OBVIOUS
<1>1. <<n, i>>[1] = n /\ Len(<<n, i>>) > 1
  BY CallName
<1>2. PICK k \in Done(n) : <<n, i>> = <<n, k>>
  BY <1>1 DEF LineOK, Calls1
<1> QED
  BY <1>2, TwoNames

\* Behind a pipe a call starts at once.
LEMMA PipeStarts ==
  ASSUME NEW l \in Instructions, Len(l.ops) \in {Len(l.calls) - 1, Len(l.calls)},
         NEW i \in 1 .. Len(l.calls), NEW code, i # 1, Action(l, i - 1) = "SIMULTANEOUSLY"
  PROVE  Started(LastAction(l, i), code)
<1>1. Len(l.calls) \in Nat /\ Len(l.ops) \in Nat
  BY LineIs
<1>2. ~ (i - 1 > Len(l.ops))
  BY <1>1
<1>3. l.ops[i - 1] = "SIMULTANEOUSLY"
  BY <1>2, Zenon DEF Action
<1> QED
  BY <1>3 DEF LastAction, Started

\* The line's own process is at a call that is not skipped or started yet.
LEMMA AtCall ==
  ASSUME Types, NEW n \in 1 .. Len(script), <<n>> \in Pids, LineOK(n), RunCall(<<n>>)
  PROVE  LET e == proc[<<n>>]
             l == script[n] IN
         /\ e.st = "loop" /\ e.pos \in 1 .. Len(l.calls) /\ Len(l.calls) \in Nat
         /\ Starts(<<n>>) <=> Runs(l, e.pos)
         /\ ~ Starts(<<n>>) => e.act = << >> /\ e.code = Value(l)[e.pos - 1]
         /\ e.pos - 1 + 1 = e.pos /\ 1 .. (e.pos + 1) - 1 = Done(n) \cup {e.pos}
         /\ e.pos \notin Done(n) /\ Done(n) \subseteq Nat
         /\ e.pos + 1 \in 1 .. Len(l.calls) + 1 /\ e.pos + 1 > 1 /\ e.pos + 1 - 1 = e.pos
         /\ <<n, e.pos>> \notin Pids
<1> DEFINE e == proc[<<n>>]
           l == script[n]
           i == e.pos
<1>1. e.st = "loop" /\ i \in 1 .. Len(Calls(<<n>>)) /\ Len(Calls(<<n>>)) \in Nat
  BY RunCallIs
<1>2. Calls(<<n>>) = l.calls /\ Line(<<n>>) = l
  BY DEF Calls, Line
<1>3. n \in Nat /\ l \in Instructions /\ Len(l.ops) \in {Len(l.calls) - 1, Len(l.calls)}
  BY PlainIs
<1>4. i \in 1 .. Len(l.calls) /\ Len(l.calls) \in Nat
  BY <1>1, <1>2
<1> HIDE DEF l
<1>5. Settled(n, i - 1) => e.act = << >> /\ e.code = Value(l)[i - 1]
  BY <1>1 DEF LineOK, Phase, l
<1>6. Settled(n, i - 1) <=> i = 1 \/ Action(l, i - 1) # "SIMULTANEOUSLY"
  <2>1. i - 1 = 0 <=> i = 1
    BY <1>4
  <2> QED
    BY <2>1, Zenon DEF Settled, l
<1>7. Starts(<<n>>) <=> Started(LastAction(l, i), e.code)
  BY <1>2, Zenon DEF Starts
<1>8. Started(LastAction(l, i), e.code) <=> Runs(l, i)
  <2> HIDE DEF i
  <2>1. i = 1 \/ Action(l, i - 1) # "SIMULTANEOUSLY" => e.code = Value(l)[i - 1]
    BY <1>5, <1>6
  <2> QED
    BY <1>3, <1>4, <2>1, StartsIs
<1>9. ~ Started(LastAction(l, i), e.code) => Settled(n, i - 1)
  <2> HIDE DEF i
  <2> QED
    BY <1>3, <1>4, <1>6, PipeStarts
<1>10. /\ i - 1 + 1 = i /\ 1 .. (i + 1) - 1 = Done(n) \cup {i} /\ i \notin Done(n) /\ Done(n) \subseteq Nat
       /\ i + 1 \in 1 .. Len(l.calls) + 1 /\ i + 1 > 1 /\ i + 1 - 1 = i /\ i \in Nat
  BY <1>4, SMTT(30) DEF Done
<1>11. <<n, i>> \notin Pids
  BY <1>3, <1>10, NotYet
<1> QED
  BY <1>1, <1>4, <1>5, <1>7, <1>8, <1>9, <1>10, <1>11, Zenon DEF l

LEMMA SkippedPlain ==
  ASSUME Types, UNCHANGED script, NEW n \in 1 .. Len(script), <<n>> \in Pids, LineOK(n),
         RunCall(<<n>>), ~ Starts(<<n>>), NEW a, Skipped(<<n>>, a)
  PROVE  LineOK(n)'
<1> DEFINE e == proc[<<n>>]
           l == script[n]
           i == e.pos
<1>1. /\ e.st = "loop" /\ i \in 1 .. Len(l.calls) /\ Len(l.calls) \in Nat
      /\ ~ Runs(l, i) /\ e.act = << >> /\ e.code = Value(l)[i - 1]
      /\ 1 .. (i + 1) - 1 = Done(n) \cup {i} /\ i \notin Done(n)
      /\ i + 1 \in 1 .. Len(l.calls) + 1 /\ i + 1 > 1 /\ i + 1 - 1 = i /\ <<n, i>> \notin Pids
  BY AtCall, Zenon
<1>2. /\ Pids' = Pids /\ proc'[<<n>>] = a /\ \A r \in Pids : r # <<n>> => proc'[r] = proc[r]
      /\ a.st = e.st /\ a.act = e.act /\ a.pos = i + 1 /\ a.code = e.code
  BY BecomesLines DEF Skipped, Becomes
<1>3. Done(n)' = Done(n) \cup {i}
  BY <1>1, <1>2, Zenon DEF Done
<1>4. \A k : <<n, k>> \in Pids => proc'[<<n, k>>] = proc[<<n, k>>]
  BY <1>2, TwoNames
<1>5. Calls1(n)'
  <2>1. \A q \in Pids' : q[1] = n /\ Len(q) > 1 => \E k \in Done(n) \cup {i} : q = <<n, k>>
    BY <1>2 DEF LineOK, Calls1
  <2>2. \A k \in Done(n) \cup {i} : <<n, k>> \in Pids' <=> Runs(script[n], k)
    BY <1>1, <1>2 DEF LineOK, Calls1
  <2>3. ASSUME NEW k \in Done(n) \cup {i}, <<n, k>> \in Pids' PROVE CallOK(n, k)'
    <3>1. k \in Done(n) /\ CallOK(n, k) /\ proc'[<<n, k>>] = proc[<<n, k>>]
      BY <1>1, <1>2, <1>4, <2>3 DEF LineOK, Calls1
    <3> QED
      BY <1>2, <3>1, SameCallOK
  <2>4. script' = script
    OBVIOUS
  <2> QED
    BY <1>3, <2>1, <2>2, <2>3, <2>4 DEF Calls1
<1>6. Active1(n)'
  <2>1. proc'[<<n>>].act = e.act
    BY <1>2
  <2>2. e.act = << >>
    BY <1>1
  <2>3. \A k \in 1 .. Len(<< >>) : FALSE
    OBVIOUS
  <2> QED
    BY <2>1, <2>2, <2>3, Zenon DEF Active1
<1>7. Phase(n)'
  <2>1. Value(l)[i] = Value(l)[i - 1]
    BY <1>1, ValueIs
  <2>2. /\ proc'[<<n>>].st = "loop" /\ proc'[<<n>>].pos = i + 1 /\ proc'[<<n>>].act = << >>
        /\ proc'[<<n>>].code = Value(l)[i]
    BY <1>1, <1>2, <2>1
  <2> HIDE DEF i
  <2> QED
    BY <1>1, <2>2 DEF Phase
<1> QED
  BY <1>5, <1>6, <1>7 DEF LineOK

LEMMA StartedPlain ==
  ASSUME Types, UNCHANGED script, NEW n \in 1 .. Len(script), <<n>> \in Pids, LineOK(n), Plain(n),
         RunCall(<<n>>), Starts(<<n>>), NEW c, NEW a, Ran(<<n>>, c, a)
  PROVE  LineOK(n)'
<1> DEFINE e == proc[<<n>>]
           l == script[n]
           i == e.pos
           q == <<n, i>>
<1>1. /\ e.st = "loop" /\ i \in 1 .. Len(l.calls) /\ Len(l.calls) \in Nat /\ Runs(l, i)
      /\ 1 .. (i + 1) - 1 = Done(n) \cup {i} /\ i \notin Done(n)
      /\ i + 1 \in 1 .. Len(l.calls) + 1 /\ i + 1 > 1 /\ i + 1 - 1 = i /\ q \notin Pids
  BY AtCall, Zenon
<1>2. n \in Nat /\ i \in Nat /\ e.act \in Seq(Names)
  BY <1>1, PlainIs DEF Types, ProcOK
<1>3. Append(<<n>>, i) = q /\ Calls(<<n>>) = l.calls /\ Line(<<n>>) = l /\ l.calls[i].cmd # "bad"
  BY <1>1, <1>2, CallName DEF Calls, Line, Plain
<1> DEFINE st == IF Action(l, i) = "SIMULTANEOUSLY" THEN "loop" ELSE "wait"
<1>4. /\ proc' = [r \in Pids \cup {q} |-> proc'[r]] /\ proc'[q] = c /\ proc'[<<n>>] = a
      /\ \A r \in Pids : r # <<n>> /\ r # q => proc'[r] = proc[r]
      /\ a.st = st /\ a.act = Append(e.act, q) /\ a.pos = i + 1 /\ c.st = "command"
  <2> DEFINE o == Append(<<n>>, i)
  <2>1. /\ proc' = [r \in Pids \cup {o} |-> proc'[r]] /\ proc'[o] = c /\ proc'[<<n>>] = a
        /\ \A r \in Pids : r # <<n>> /\ r # o => proc'[r] = proc[r]
        /\ a.act = Append(e.act, o) /\ a.pos = i + 1
    BY Zenon DEF Ran
  <2>2. a.st = st /\ c.st = "command"
    <3>1. /\ a.st = IF Action(Line(<<n>>), i) = "SIMULTANEOUSLY" THEN "loop" ELSE "wait"
          /\ Calls(<<n>>)[i].cmd # "bad" => c.st = "command"
      BY Zenon DEF Ran
    <3>2. Action(Line(<<n>>), i) = Action(l, i)
      BY <1>3, Zenon
    <3>3. Calls(<<n>>)[i].cmd # "bad"
      BY <1>3, Zenon
    <3> HIDE DEF i, l
    <3> QED
      BY <3>1, <3>2, <3>3
  <2>3. o = q
    BY <1>3
  <2> HIDE DEF o, q, st, i
  <2> QED
    BY <2>1, <2>2, <2>3
<1>5. Pids' = Pids \cup {q}
  <2> HIDE DEF q
  <2> QED
    BY <1>4 DEF Pids
<1>6. Done(n)' = Done(n) \cup {i}
  BY <1>1, <1>4, Zenon DEF Done
<1>7. \A k \in Done(n) : <<n, k>> \in Pids => proc'[<<n, k>>] = proc[<<n, k>>]
  <2>1. \A k : <<n, k>> # <<n>>
    BY TwoNames
  <2> QED
    BY <1>1, <1>4, <2>1, Zenon
<1>8. /\ Len(a.act) = Len(e.act) + 1 /\ Len(e.act) \in Nat /\ a.act[Len(a.act)] = q
      /\ \A k \in 1 .. Len(e.act) : a.act[k] = e.act[k]
  <2> DEFINE S == Names
  <2>1. e.act \in Seq(S) /\ q \in S
    BY <1>2, CallName
  <2> HIDE DEF S, q
  <2>2. a.act = Append(e.act, q)
    BY <1>4
  <2> QED
    BY <2>1, <2>2
<1>9. 1 .. Len(a.act) = 1 .. Len(e.act) \cup {Len(a.act)}
  BY <1>8
<1>10. Calls1(n)'
  <2>1. \A r \in Pids' : r[1] = n /\ Len(r) > 1 => \E k \in Done(n) \cup {i} : r = <<n, k>>
    BY <1>5 DEF LineOK, Calls1
  <2>2. \A k \in Done(n) \cup {i} : <<n, k>> \in Pids' <=> Runs(script[n], k)
    <3>1. \A k \in Done(n) : <<n, k>> \in Pids <=> Runs(script[n], k)
      BY DEF LineOK, Calls1
    <3>2. \A k \in Done(n) : <<n, k>> # q
      BY <1>1, TwoNames
    <3> QED
      BY <1>1, <1>5, <3>1, <3>2, Zenon
  <2>3. ASSUME NEW k \in Done(n) \cup {i}, <<n, k>> \in Pids' PROVE CallOK(n, k)'
    <3>1. CASE k = i
      <4>1. Len(a.act) \in 1 .. Len(a.act)
        BY <1>8
      <4>3. <<n, k>> = q
        BY <3>1
      <4>2. proc'[<<n>>].act = a.act
        BY <1>4
      <4> HIDE DEF q, st
      <4>4. proc'[<<n, k>>].st = "command" /\ a.act[Len(a.act)] = <<n, k>>
        BY <1>4, <1>8, <4>3
      <4> QED
        BY <4>1, <4>2, <4>4 DEF CallOK
    <3>2. CASE k \in Done(n)
      <4>1. <<n, k>> \in Pids
        <5>1. <<n, k>> # q
          BY <1>1, <3>2, TwoNames
        <5> QED
          BY <1>5, <2>3, <5>1
      <4>2. CallOK(n, k) /\ proc'[<<n, k>>] = proc[<<n, k>>]
        BY <1>7, <3>2, <4>1 DEF LineOK, Calls1
      <4>3. \A x \in 1 .. Len(e.act) : x \in 1 .. Len(a.act) /\ a.act[x] = e.act[x]
        BY <1>8, <1>9
      <4>4. proc[<<n, k>>].st # "reaped" => \E x \in 1 .. Len(a.act) : a.act[x] = <<n, k>>
        BY <4>2, <4>3 DEF CallOK
      <4>5. proc'[<<n>>].act = a.act
        BY <1>4
      <4> HIDE DEF q, st
      <4> QED
        BY <4>2, <4>4, <4>5 DEF CallOK
    <3> QED
      BY <3>1, <3>2
  <2>4. script' = script
    OBVIOUS
  <2> QED
    BY <1>6, <2>1, <2>2, <2>3, <2>4 DEF Calls1
<1>11. Active1(n)'
  <2>1. ASSUME NEW k \in 1 .. Len(a.act)
        PROVE  \E j \in Done(n) \cup {i} :
                 a.act[k] = <<n, j>> /\ <<n, j>> \in Pids' /\ proc'[<<n, j>>].st # "reaped"
    <3>1. CASE k = Len(a.act)
      BY <1>4, <1>5, <1>8, <3>1
    <3>2. CASE k \in 1 .. Len(e.act)
      <4>1. PICK j \in Done(n) : e.act[k] = <<n, j>> /\ <<n, j>> \in Pids /\ proc[<<n, j>>].st # "reaped"
        BY <3>2 DEF LineOK, Active1
      <4> QED
        BY <1>5, <1>7, <1>8, <3>2, <4>1
    <3> QED
      BY <1>9, <3>1, <3>2
  <2>2. \A k \in 1 .. Len(e.act) : a.act[k] # q
    <3>1. \A k \in 1 .. Len(e.act) : e.act[k] \in Pids
      BY DEF LineOK, Active1
    <3> QED
      BY <1>1, <1>8, <3>1
  <2>3. ASSUME NEW k \in 1 .. Len(a.act), NEW m \in 1 .. Len(a.act), a.act[k] = a.act[m] PROVE k = m
    <3>1. \A x, y \in 1 .. Len(e.act) : e.act[x] = e.act[y] => x = y
      BY DEF LineOK, Active1
    <3> HIDE DEF q
    <3> QED
      BY <1>8, <1>9, <2>2, <2>3, <3>1
  <2>4. proc'[<<n>>].act = a.act
    BY <1>4
  <2> QED
    BY <1>6, <2>1, <2>3, <2>4, Zenon DEF Active1
<1>12. Phase(n)'
  <2>1. Value(l)[i] = Code(l.calls[i].cmd)
    BY <1>1, ValueIs
  <2>2. a.act # << >>
    <3>1. Len(a.act) # 0 /\ Len(<< >>) = 0
      BY <1>8
    <3> QED
      BY <3>1, Zenon
  <2>3. /\ proc'[<<n>>].st = st /\ proc'[<<n>>].pos = i + 1 /\ proc'[<<n>>].act = a.act
        /\ i + 1 - 1 = i /\ i # 0
    BY <1>1, <1>4
  <2> HIDE DEF i
  <2>4. proc'[<<n>>].pos - 1 = i
    BY <1>2, <2>3
  <2>5. Settled(n, proc[<<n>>].pos - 1)' <=> Action(l, i) # "SIMULTANEOUSLY"
    BY <2>3, <2>4, Zenon DEF Settled
  <2>6. CASE Action(l, i) = "SIMULTANEOUSLY"
    <3>1. proc'[<<n>>].st = "loop"
      BY <2>3, <2>6
    <3> HIDE DEF st
    <3> QED
      BY <1>1, <2>3, <2>5, <2>6, <3>1 DEF Phase
  <2>7. CASE Action(l, i) # "SIMULTANEOUSLY"
    <3>1. proc'[<<n>>].st = "wait"
      BY <2>3, <2>7
    <3> HIDE DEF st
    <3> QED
      BY <1>1, <1>8, <2>1, <2>2, <2>3, <2>5, <2>7, <3>1, SMTT(30) DEF Phase
  <2> QED
    BY <2>6, <2>7
<1> QED
  BY <1>10, <1>11, <1>12 DEF LineOK

LEMMA RunCallPlain ==
  ASSUME Types, NEW p \in Pids, RunCall(p), NEW n \in 1 .. Len(script), <<n>> \in Pids, LineOK(n), Plain(n)
  PROVE  LineOK(n)'
<1>1. /\ UNCHANGED script /\ proc[p].st = "loop"
      /\ Starts(p) => \E c, a : Ran(p, c, a)
      /\ ~ Starts(p) => \E a : Skipped(p, a)
  BY RunCallIs
<1>2. n \in Nat
  BY PlainIs
<1>3. CASE p[1] # n
  <2>1. CASE ~ Starts(p)
    BY <1>1, <1>2, <1>3, <2>1, BecomesElsewhere DEF Skipped
  <2>2. ASSUME NEW c, NEW a, Ran(p, c, a) PROVE LineOK(n)'
    <3> DEFINE q == Append(p, proc[p].pos)
    <3>1. q[1] = p[1]
      BY <1>1, NewName
    <3>2. /\ proc' = [r \in Pids \cup {q} |-> proc'[r]]
          /\ \A r \in Pids : r # p /\ r # q => proc'[r] = proc[r]
      BY <2>2 DEF Ran
    <3>3. Pids' = Pids \cup {q}
      BY <3>2 DEF Pids
    <3> HIDE DEF q
    <3>4. \A r : r[1] = n => (r \in Pids' <=> r \in Pids) /\ (r \in Pids => proc'[r] = proc[r])
      BY <1>3, <3>1, <3>2, <3>3
    <3> QED
      BY <1>1, <1>2, <3>4, Elsewhere
  <2> QED
    BY <1>1, <2>1, <2>2
<1>4. CASE p[1] = n
  <2>1. p = <<n>>
    BY <1>1, <1>4, PlainExecutor
  <2>2. RunCall(<<n>>)
    BY <2>1, Zenon
  <2>3. CASE Starts(<<n>>)
    <3>1. PICK c, a : Ran(<<n>>, c, a)
      BY <2>2, <2>3, RunCallIs
    <3> QED
      BY <1>1, <2>2, <2>3, <3>1, StartedPlain
  <2>4. CASE ~ Starts(<<n>>)
    <3>1. PICK a : Skipped(<<n>>, a)
      BY <2>2, <2>4, RunCallIs
    <3> QED
      BY <1>1, <2>2, <2>4, <3>1, SkippedPlain
  <2> QED
    BY <2>3, <2>4
<1> QED
  BY <1>3, <1>4

\* What the line's own process waits for is the first active call.
LEMMA FirstActive ==
  ASSUME Types, NEW n \in 1 .. Len(script), <<n>> \in Pids, LineOK(n), proc[<<n>>].st = "wait"
  PROVE  LET e == proc[<<n>>] IN
         /\ e.act \in Seq(Names) /\ e.act # << >>
         /\ \E k \in Done(n) :
              /\ Head(e.act) = <<n, k>> /\ e.act[1] = <<n, k>> /\ <<n, k>> \in Pids
              /\ Waitable(<<n>>, Head(e.act)) = {<<n, k>>}
<1> DEFINE act == proc[<<n>>].act
<1>1. act \in Seq(Names) /\ act # << >>
  BY DEF Types, ProcOK
<1>2. Len(act) \in Nat \ {0} /\ Head(act) = act[1]
  BY <1>1, TailIs
<1>3. 1 \in 1 .. Len(act)
  BY <1>2
<1>4. PICK k \in Done(n) : act[1] = <<n, k>> /\ <<n, k>> \in Pids /\ proc[<<n, k>>].st # "reaped"
  BY <1>3 DEF LineOK, Active1
<1>5. n \in Nat /\ k \in Nat
  <2>1. proc[<<n>>].pos \in Nat
    BY PlainIs DEF LineOK, Phase
  <2> QED
    BY <2>1, PlainIs DEF Done
<1>6. Len(<<n, k>>) > 1 /\ Parent(<<n, k>>) = <<n>>
  BY <1>5, CallName DEF Parent
<1>7. <<n, k>> # << >>
  <2>1. Len(<< >>) = 0 /\ Len(<<n, k>>) # 0
    OBVIOUS
  <2> QED
    BY <2>1, Zenon
<1> DEFINE who == <<n, k>>
<1> HIDE DEF act, who
<1>8. Waitable(<<n>>, who) = {who}
  BY <1>4, <1>6, <1>7 DEF Waitable, Children, who
<1>9. Waitable(<<n>>, Head(act)) = {who}
  BY <1>2, <1>4, <1>8, Zenon DEF who
<1> QED
  BY <1>1, <1>2, <1>4, <1>9 DEF act, who

\* The first active call is waited for.
WaitedPlain(n, k, r) ==
  LET e == proc[<<n>>]
      a == proc'[<<n>>] IN
  /\ e.st = "wait" /\ UNCHANGED script /\ Pids' = Pids
  /\ e.act \in Seq(Names) /\ e.act # << >> /\ k \in Done(n) /\ <<n, k>> \in Pids
  /\ e.act[1] = <<n, k>> /\ proc[<<n, k>>].st = "zombie" /\ proc'[<<n, k>>] = r
  /\ r.st = "reaped" /\ r.code = proc[<<n, k>>].code
  /\ a.act = Tail(e.act) /\ a.pos = e.pos /\ a.code = r.code
  /\ a.st = (IF Len(e.act) = 1 THEN "loop" ELSE "wait")
  /\ \A x \in Pids : x # <<n>> /\ x # <<n, k>> => proc'[x] = proc[x]

LEMMA WaitedPlainIs ==
  ASSUME Types, NEW n \in 1 .. Len(script), <<n>> \in Pids, LineOK(n), WaitCall(<<n>>)
  PROVE  \E k, r : WaitedPlain(n, k, r)
<1> DEFINE p == <<n>>
           e == proc[p]
<1>1. /\ e.st = "wait" /\ UNCHANGED script
      /\ \/ Waitable(p, Head(e.act)) = {}
         \/ \E q \in Waitable(p, Head(e.act)) : \E r : WaitedFor(p, q, r)
  BY WaitCallIs
<1>2. /\ e.act \in Seq(Names) /\ e.act # << >>
      /\ \E k \in Done(n) :
           /\ Head(e.act) = <<n, k>> /\ e.act[1] = <<n, k>> /\ <<n, k>> \in Pids
           /\ Waitable(p, Head(e.act)) = {<<n, k>>}
  BY <1>1, FirstActive
<1>3. PICK k \in Done(n) :
           /\ Head(e.act) = <<n, k>> /\ e.act[1] = <<n, k>> /\ <<n, k>> \in Pids
           /\ Waitable(p, Head(e.act)) = {<<n, k>>}
  BY <1>2
<1>4. PICK q \in {<<n, k>>} : \E r : WaitedFor(p, q, r)
  BY <1>1, <1>3
<1>5. PICK r : WaitedFor(p, q, r)
  BY <1>4
<1>6. q = <<n, k>>
  BY <1>4
<1>7. WaitedFor(p, <<n, k>>, r)
  BY <1>5, <1>6, Zenon
<1> DEFINE w == Waited(e, proc[<<n, k>>].code)
<1>8. /\ w.st = (IF Len(e.act) = 1 THEN "loop" ELSE "wait")
      /\ w.act = Tail(e.act) /\ w.pos = e.pos /\ w.code = proc[<<n, k>>].code
  <2>1. IsProc(e)
    BY DEF Types, ProcOK
  <2> HIDE DEF e
  <2> QED
    BY <2>1, WaitedIs
<1>9. proc'[p] = w
  BY <1>7, Zenon DEF WaitedFor
<1>10. Pids' = Pids
  BY <1>7 DEF WaitedFor, Pids
<1> HIDE DEF w
<1>11. /\ proc'[<<n>>].st = (IF Len(e.act) = 1 THEN "loop" ELSE "wait")
       /\ proc'[<<n>>].act = Tail(e.act) /\ proc'[<<n>>].pos = e.pos
       /\ proc'[<<n>>].code = proc[<<n, k>>].code
  BY <1>8, <1>9, Zenon
<1>12. /\ proc[<<n, k>>].st = "zombie" /\ proc'[<<n, k>>] = r /\ r.st = "reaped"
       /\ r.code = proc[<<n, k>>].code
       /\ \A x \in Pids : x # <<n>> /\ x # <<n, k>> => proc'[x] = proc[x]
  BY <1>7, Zenon DEF WaitedFor
<1>13. WaitedPlain(n, k, r)
  BY <1>1, <1>2, <1>3, <1>10, <1>11, <1>12, Zenon DEF WaitedPlain
<1> QED
  BY <1>13

LEMMA WaitedCalls ==
  ASSUME NEW n \in Nat, LineOK(n), NEW k, NEW r, WaitedPlain(n, k, r)
  PROVE  Calls1(n)' /\ Active1(n)'
<1> DEFINE act == proc[<<n>>].act
           next == Tail(act)
<1>1. /\ Len(act) \in Nat \ {0} /\ Len(next) = Len(act) - 1
      /\ \A x \in 1 .. Len(act) - 1 : next[x] = act[x + 1]
  BY TailIs DEF WaitedPlain
<1>2. /\ act[1] = <<n, k>> /\ k \in Done(n) /\ proc'[<<n>>].act = next
      /\ proc'[<<n>>].pos = proc[<<n>>].pos /\ Pids' = Pids /\ script' = script
  BY DEF WaitedPlain
<1>3. Done(n)' = Done(n)
  BY <1>2 DEF Done
<1>4. \A j : j # k /\ <<n, j>> \in Pids => proc'[<<n, j>>] = proc[<<n, j>>]
  BY TwoNames, Zenon DEF WaitedPlain
<1> HIDE DEF next
<1>5. /\ \A x \in 1 .. Len(next) : x + 1 \in 1 .. Len(act) /\ next[x] = act[x + 1] /\ x + 1 # 1
      /\ \A y \in 1 .. Len(act) : y # 1 => y - 1 \in 1 .. Len(next) /\ next[y - 1] = act[y]
  BY <1>1 DEF next
<1>6. 1 \in 1 .. Len(act) /\ Len(next) \in Nat
  BY <1>1
<1>7. ASSUME NEW j \in Done(n), <<n, j>> \in Pids PROVE CallOK(n, j)'
  <2>1. CallOK(n, j)
    BY <1>7 DEF LineOK, Calls1
  <2>2. CASE j = k
    <3>1. /\ proc'[<<n, k>>].st = "reaped" /\ proc'[<<n, k>>].code = Code(script[n].calls[k].cmd)
      <4>1. proc[<<n, j>>].code = Code(script[n].calls[j].cmd)
        <5>1. proc[<<n, j>>].st = "zombie"
          BY <2>2 DEF WaitedPlain
        <5> QED
          BY <2>1, <5>1 DEF CallOK
      <4> QED
        BY <2>2, <4>1 DEF WaitedPlain
    <3> QED
      BY <1>2, <2>2, <3>1 DEF CallOK
  <2>3. CASE j # k
    <3>1. proc'[<<n, j>>] = proc[<<n, j>>]
      BY <1>4, <1>7, <2>3
    <3>2. proc[<<n, j>>].st # "reaped" => \E x \in 1 .. Len(next) : next[x] = <<n, j>>
      <4> SUFFICES ASSUME proc[<<n, j>>].st # "reaped" PROVE \E x \in 1 .. Len(next) : next[x] = <<n, j>>
        OBVIOUS
      <4>1. PICK y \in 1 .. Len(act) : act[y] = <<n, j>>
        BY <2>1 DEF CallOK
      <4>2. y # 1
        BY <1>2, <2>3, <4>1, TwoNames
      <4> HIDE DEF act
      <4> QED
        BY <1>5, <4>1, <4>2
    <3> HIDE DEF act
    <3> QED
      BY <1>2, <2>1, <3>1, <3>2 DEF CallOK
  <2> QED
    BY <2>2, <2>3
<1>8. Calls1(n)'
  <2>1. /\ \A q \in Pids' : q[1] = n /\ Len(q) > 1 => \E i \in Done(n) : q = <<n, i>>
        /\ \A i \in Done(n) : <<n, i>> \in Pids' <=> Runs(script'[n], i)
    BY <1>2 DEF LineOK, Calls1
  <2> QED
    BY <1>2, <1>3, <1>7, <2>1 DEF Calls1
<1>9. Active1(n)'
  <2>1. ASSUME NEW x \in 1 .. Len(next)
        PROVE  \E i \in Done(n) : next[x] = <<n, i>> /\ <<n, i>> \in Pids /\ proc'[<<n, i>>].st # "reaped"
    <3>1. x + 1 \in 1 .. Len(act) /\ next[x] = act[x + 1] /\ x + 1 # 1
      BY <1>5
    <3>2. PICK i \in Done(n) : act[x + 1] = <<n, i>> /\ <<n, i>> \in Pids /\ proc[<<n, i>>].st # "reaped"
      BY <3>1 DEF LineOK, Active1
    <3>3. i # k
      <4>1. act[x + 1] # act[1]
        BY <1>6, <3>1 DEF LineOK, Active1
      <4> QED
        BY <1>2, <3>2, <4>1
    <3> QED
      BY <1>4, <3>1, <3>2, <3>3
  <2>2. ASSUME NEW x \in 1 .. Len(next), NEW y \in 1 .. Len(next), next[x] = next[y] PROVE x = y
    <3>1. \A u, v \in 1 .. Len(act) : act[u] = act[v] => u = v
      BY DEF LineOK, Active1
    <3> HIDE DEF act
    <3>2. x + 1 = y + 1
      BY <1>5, <2>2, <3>1
    <3> QED
      BY <1>6, <3>2
  <2> QED
    BY <1>2, <1>3, <2>1, <2>2, Zenon DEF Active1
<1> QED
  BY <1>8, <1>9

LEMMA WaitedPhase ==
  ASSUME NEW n \in Nat, LineOK(n), NEW k, NEW r, WaitedPlain(n, k, r)
  PROVE  Phase(n)'
<1> DEFINE e == proc[<<n>>]
           act == e.act
           next == Tail(act)
           l == script[n]
<1>1. /\ Len(act) \in Nat \ {0} /\ Len(next) = Len(act) - 1
      /\ \A x \in 1 .. Len(act) - 1 : next[x] = act[x + 1]
  BY TailIs DEF WaitedPlain
<1>2. /\ e.st = "wait" /\ e.pos > 1 /\ Settled(n, e.pos - 1) /\ act[Len(act)] = <<n, e.pos - 1>>
      /\ Value(l)[e.pos - 1] = Code(l.calls[e.pos - 1].cmd) /\ e.pos \in 1 .. Len(l.calls) + 1
  BY DEF LineOK, Phase, WaitedPlain
<1>3. /\ proc'[<<n>>].act = next /\ proc'[<<n>>].pos = e.pos /\ script' = script
      /\ proc'[<<n>>].st = (IF Len(act) = 1 THEN "loop" ELSE "wait")
      /\ proc'[<<n>>].code = Code(l.calls[k].cmd) /\ act[1] = <<n, k>>
  <2>1. proc[<<n, k>>].code = Code(l.calls[k].cmd)
    <3>1. CallOK(n, k) /\ proc[<<n, k>>].st = "zombie"
      BY DEF LineOK, Calls1, WaitedPlain
    <3> QED
      BY <3>1 DEF CallOK
  <2> QED
    BY <2>1 DEF WaitedPlain
<1>4. CASE Len(act) = 1
  <2>1. k = e.pos - 1
    <3>1. <<n, k>> = <<n, e.pos - 1>>
      BY <1>2, <1>3, <1>4
    <3> QED
      BY <3>1, TwoNames
  <2>2. next = << >>
    <3>1. Len(next) = 0 /\ next \in Seq(Names)
      <4>1. next \in Seq(Names)
        BY TailIs DEF WaitedPlain
      <4> QED
        BY <1>1, <1>4, <4>1
    <3> HIDE DEF next
    <3> QED
      BY <3>1
  <2>3. /\ proc'[<<n>>].st = "loop" /\ proc'[<<n>>].act = << >> /\ proc'[<<n>>].pos = e.pos
        /\ proc'[<<n>>].code = Value(l)[e.pos - 1]
    BY <1>2, <1>3, <1>4, <2>1, <2>2
  <2> QED
    BY <1>2, <1>3, <2>3 DEF Phase
<1>5. CASE Len(act) # 1
  <2>1. next # << >>
    <3>1. Len(next) # 0 /\ Len(<< >>) = 0
      BY <1>1, <1>5
    <3> QED
      BY <3>1, Zenon
  <2>2. next[Len(next)] = <<n, e.pos - 1>>
    <3>1. \A a \in Nat \ {0} : a # 1 => a - 1 \in 1 .. a - 1 /\ (a - 1) + 1 = a
      OBVIOUS
    <3>2. Len(next) \in 1 .. Len(act) - 1 /\ Len(next) + 1 = Len(act)
      BY <1>1, <1>5, <3>1, Zenon
    <3> QED
      BY <1>1, <1>2, <3>2, Zenon
  <2>3. proc'[<<n>>].st = "wait"
    BY <1>3, <1>5
  <2> HIDE DEF next
  <2>4. Settled(n, proc[<<n>>].pos - 1)'
    BY <1>2, <1>3 DEF Settled
  <2> QED
    BY <1>2, <1>3, <2>1, <2>2, <2>3, <2>4 DEF Phase
<1> QED
  BY <1>4, <1>5

LEMMA WaitCallPlain ==
  ASSUME Types, NEW p \in Pids, WaitCall(p), NEW n \in 1 .. Len(script), <<n>> \in Pids, LineOK(n)
  PROVE  LineOK(n)'
<1>1. n \in Nat /\ proc[p].st = "wait" /\ UNCHANGED script
  BY PlainIs, WaitCallIs
<1>2. CASE p[1] = n
  <2>1. p = <<n>>
    BY <1>1, <1>2, PlainExecutor
  <2>2. WaitCall(<<n>>)
    BY <2>1, Zenon
  <2>3. PICK k, r : WaitedPlain(n, k, r)
    BY <2>2, WaitedPlainIs
  <2>4. (Calls1(n)' /\ Active1(n)') /\ Phase(n)'
    BY <1>1, <2>3, WaitedCalls, WaitedPhase
  <2> QED
    BY <2>4 DEF LineOK
<1>3. CASE p[1] # n
  <2>1. CASE WaitedOne(p, 0)
    BY <1>1, <1>3, <2>1, BecomesElsewhere DEF WaitedOne
  <2>2. ASSUME NEW q \in Waitable(p, Head(proc[p].act)), NEW r, WaitedFor(p, q, r) PROVE LineOK(n)'
    <3>1. q \in Pids /\ Len(q) > 1 /\ Front(q) = p
      BY DEF Waitable, Children, Parent
    <3>2. q[1] = p[1]
      <4>1. q \in Names /\ Len(q) \in Nat
        BY <3>1 DEF Types, NameOK, IsName
      <4>2. 1 \in 1 .. Len(q) - 1
        BY <3>1, <4>1
      <4> QED
        BY <3>1, <4>1, <4>2, FrontIs
    <3>3. Pids' = Pids /\ \A x \in Pids : x # p /\ x # q => proc'[x] = proc[x]
      BY <2>2 DEF WaitedFor, Pids
    <3>4. \A x : x[1] = n => (x \in Pids' <=> x \in Pids) /\ (x \in Pids => proc'[x] = proc[x])
      BY <1>3, <3>2, <3>3
    <3> QED
      BY <1>1, <3>4, Elsewhere
  <2> QED
    BY <2>1, <2>2, WaitCallIs
<1> QED
  BY <1>2, <1>3

\* A signal touches no line that is still plain behind it.
LEMMA KilledPlain ==
  ASSUME Types, NEW p \in Pids, CommandKilled(p), NEW n \in 1 .. Len(script), <<n>> \in Pids,
         LineOK(n), Plain(n)'
  PROVE  LineOK(n)'
<1>1. UNCHANGED script /\ p[1] # n /\ proc' = Exited(p, 0)
  BY DEF CommandKilled, Plain
<1>2. PICK e : Becomes(p, e)
  BY <1>1, ExitedIs DEF Types, ProcOK
<1> QED
  BY <1>1, <1>2, PlainIs, BecomesElsewhere

LEMMA Untouched ==
  ASSUME UNCHANGED <<script, proc>>, NEW n \in Nat, <<n>> \in Pids, LineOK(n) PROVE LineOK(n)'
<1>1. Pids' = Pids
  BY DEF Pids
<1> QED
  BY <1>1, Elsewhere

LEMMA InterruptPlain ==
  ASSUME Types, Interrupt, NEW n \in 1 .. Len(script), <<n>> \in Pids, LineOK(n), Plain(n)'
  PROVE  LineOK(n)'
<1>1. n \in Nat /\ UNCHANGED script
  BY PlainIs, InterruptIs
<1>2. CASE UNCHANGED proc
  BY <1>1, <1>2, Untouched
<1>3. CASE Newest \in Executors /\ proc' = Exited(Newest, 0) /\ hit' = hit \cup {Newest[1]}
  <2> DEFINE p == Newest
  <2>1. p \in Pids /\ p[1] # n
    BY <1>3 DEF Executors, Plain
  <2>2. IsProc(proc[p]) /\ proc = [r \in Pids |-> proc[r]]
    BY <2>1 DEF Types, ProcOK
  <2>3. proc' = Exited(p, 0)
    BY <1>3
  <2> HIDE DEF p
  <2>4. PICK e : Becomes(p, e)
    BY <2>1, <2>2, <2>3, ExitedIs
  <2> QED
    BY <1>1, <2>1, <2>4, BecomesElsewhere
<1> QED
  BY <1>2, <1>3, InterruptIs

\* A new line has no call yet.
LEMMA ReadPlain ==
  ASSUME Types, Begun, Rooted, Read, NEW n \in 1 .. Len(script),
         <<n>> \in Pids => (Plain(n) => LineOK(n)), <<n>> \in Pids', Plain(n)
  PROVE  LineOK(n)'
<1>1. /\ shell = "read" /\ line \in 1 .. Len(script) /\ UNCHANGED script
      /\ LET e == proc'[<<line>>] IN e.st = "loop" /\ e.act = << >> /\ e.pos = 1 /\ e.code = 0
      /\ \E Q : /\ proc' = [r \in Q |-> proc'[r]] /\ Pids \subseteq Q /\ <<line>> \in Q
                /\ \A r \in Q : r # <<line>> => r \in Pids /\ proc'[r] = proc[r]
  BY ReadIs
<1>2. PICK m \in 1 .. Len(script) : m = line
  BY <1>1
<1>3. /\ Pids \subseteq Pids' /\ <<m>> \in Pids'
      /\ \A r \in Pids' : r # <<m>> => r \in Pids /\ proc'[r] = proc[r]
  BY <1>1, <1>2 DEF Pids
<1>4. <<m>> \notin Pids
  BY <1>1, <1>2 DEF Begun, Passed
<1>5. n \in Nat /\ m \in Nat /\ Len(script[n].calls) \in Nat
  BY PlainIs
<1>6. <<m>>[1] = m
  OBVIOUS
<1>7. CASE n # m
  <2>1. \A r : r[1] = n => (r \in Pids' <=> r \in Pids) /\ (r \in Pids => proc'[r] = proc[r])
    BY <1>3, <1>6, <1>7
  <2>2. <<n>> \in Pids
    BY <2>1
  <2> QED
    BY <1>1, <1>5, <2>1, <2>2, Elsewhere
<1>8. CASE n = m
  <2>1. /\ proc'[<<n>>].st = "loop" /\ proc'[<<n>>].act = << >> /\ proc'[<<n>>].pos = 1
        /\ proc'[<<n>>].code = 0
    BY <1>1, <1>2, <1>8
  <2>2. Done(n)' = {}
    BY <2>1 DEF Done
  <2>3. \A q \in Pids' : ~ (q[1] = n /\ Len(q) > 1)
    <3> SUFFICES ASSUME NEW q \in Pids', q[1] = n, Len(q) > 1 PROVE FALSE
      OBVIOUS
    <3>1. q # <<m>>
      <4>1. ~ (Len(<<m>>) > 1)
        OBVIOUS
      <4> QED
        BY <4>1, Zenon
    <3>2. <<n>> \in Pids
      BY <1>3, <3>1 DEF Rooted
    <3> QED
      BY <1>4, <1>8, <3>2
  <2>4. Calls1(n)'
    BY <2>2, <2>3 DEF Calls1
  <2>5. Active1(n)'
    <3>1. \A k \in 1 .. Len(<< >>) : FALSE
      OBVIOUS
    <3> QED
      BY <2>1, <3>1, Zenon DEF Active1
  <2>6. Phase(n)'
    <3>1. Value(script[n])[0] = 0 /\ 1 \in 1 .. Len(script[n].calls) + 1
      BY <1>5, ValueIs
    <3> QED
      BY <1>1, <2>1, <3>1 DEF Phase
  <2> QED
    BY <2>4, <2>5, <2>6 DEF LineOK
<1> QED
  BY <1>7, <1>8

LEMMA ReapsPlain ==
  ASSUME Types, NEW p \in Pids, Len(p) = 1, Reaps(p), UNCHANGED script, NEW n \in 1 .. Len(script),
         <<n>> \in Pids, LineOK(n)
  PROVE  LineOK(n)'
<1>1. n \in Nat
  BY PlainIs
<1>2. CASE proc' = proc
  BY <1>1, <1>2, Untouched
<1>3. ASSUME NEW e, ReapedNow(p, e) PROVE LineOK(n)'
  <2>1. CASE p[1] # n
    BY <1>1, <1>3, <2>1, BecomesElsewhere DEF ReapedNow
  <2>2. CASE p[1] = n
    <3>1. p = <<n>>
      BY <2>2, OneName DEF Types, NameOK, IsName
    <3>2. /\ Pids' = Pids /\ proc'[<<n>>] = e /\ \A r \in Pids : r # <<n>> => proc'[r] = proc[r]
          /\ e.st = "reaped" /\ e.code = proc[<<n>>].code /\ e.act = proc[<<n>>].act
          /\ e.pos = proc[<<n>>].pos /\ proc[<<n>>].st = "zombie"
      BY <1>3, <3>1, BecomesLines DEF ReapedNow, Becomes
    <3>3. \A i : <<n, i>> # <<n>>
      BY TwoNames
    <3>4. Calls1(n)' /\ Active1(n)'
      BY <1>1, <3>2, <3>3, SameCalls
    <3>5. Phase(n)'
      <4>1. /\ proc'[<<n>>].st = "reaped" /\ proc'[<<n>>].pos = proc[<<n>>].pos
            /\ proc'[<<n>>].act = proc[<<n>>].act /\ proc'[<<n>>].code = proc[<<n>>].code
        BY <3>2
      <4> QED
        BY <3>2, <4>1 DEF LineOK, Phase
    <3> QED
      BY <3>4, <3>5 DEF LineOK
  <2> QED
    BY <2>1, <2>2
<1> QED
  BY <1>2, <1>3, ReapsIs

LEMMA RootedGrows ==
  ASSUME Rooted, NEW q, Pids' = Pids \cup {q}, <<q[1]>> \in Pids' PROVE Rooted'
  BY DEF Rooted

LEMMA ProcRooted ==
  ASSUME Types, Rooted, NEW p \in Pids, ProcStep(p) \/ CommandKilled(p) PROVE Rooted'
<1>1. CASE RunCall(p)
  <2>1. CASE Starts(p)
    <3> DEFINE q == Append(p, proc[p].pos)
    <3>1. PICK c, a : Ran(p, c, a)
      BY <1>1, <2>1, RunCallIs
    <3>2. q[1] = p[1]
      BY <1>1, NewName, RunCallIs
    <3>3. Pids' = Pids \cup {q}
      BY <3>1 DEF Ran, Pids
    <3> HIDE DEF q
    <3>4. <<q[1]>> \in Pids'
      BY <3>2, <3>3 DEF Rooted
    <3> QED
      BY <3>3, <3>4, RootedGrows
  <2>2. CASE ~ Starts(p)
    <3>1. Pids' = Pids
      BY <1>1, <2>2, RunCallIs, BecomesLines DEF Skipped
    <3> QED
      BY <3>1 DEF Rooted
  <2> QED
    BY <2>1, <2>2
<1>2. CASE WaitCall(p)
  <2>1. CASE WaitedOne(p, 0)
    <3>1. Pids' = Pids
      BY <2>1, BecomesLines DEF WaitedOne
    <3> QED
      BY <3>1 DEF Rooted
  <2>2. ASSUME NEW q, NEW r, WaitedFor(p, q, r) PROVE Rooted'
    <3>1. Pids' = Pids
      BY <2>2 DEF WaitedFor, Pids
    <3> QED
      BY <3>1 DEF Rooted
  <2> QED
    BY <1>2, <2>1, <2>2, WaitCallIs, Zenon
<1>3. CASE InstructionEnds(p) \/ CommandEnds(p) \/ CommandKilled(p)
  <2>1. Pids' = Pids
    BY <1>3 DEF InstructionEnds, CommandEnds, CommandKilled, Exited, Pids
  <2> QED
    BY <2>1 DEF Rooted
<1> QED
  BY <1>1, <1>2, <1>3 DEF ProcStep

LEMMA ReadRooted == ASSUME Types, Rooted, Read PROVE Rooted'
<1>1. PICK m : m = line
  OBVIOUS
<1>2. PICK Q : /\ proc' = [r \in Q |-> proc'[r]] /\ Pids \subseteq Q /\ <<line>> \in Q
               /\ \A r \in Q : r # <<line>> => r \in Pids /\ proc'[r] = proc[r]
  BY ReadIs
<1> DEFINE q == <<m>>
<1>3. q[1] = m
  OBVIOUS
<1>4. Pids' = Pids \cup {q}
  BY <1>1, <1>2 DEF Pids
<1>5. <<q[1]>> \in Pids'
  BY <1>3, <1>4
<1> HIDE DEF q
<1> QED
  BY <1>4, <1>5, RootedGrows

\* What a plain line is after a step, if it was as it should be.
Kept(n) == <<n>> \in Pids' /\ Plain(n)' => LineOK(n)'

LEMMA ProcPlain ==
  ASSUME PipesClosed, Types, Begun, PlainLines, NEW p \in Pids, ProcStep(p) \/ CommandKilled(p),
         NEW n \in 1 .. Len(script)
  PROVE  Kept(n)
<1> SUFFICES ASSUME <<n>> \in Pids', Plain(n)' PROVE LineOK(n)'
  BY DEF Kept
<1>1. UNCHANGED script /\ hit \subseteq hit'
  BY DEF ProcStep, RunCall, WaitCall, InstructionEnds, CommandEnds, CommandKilled
<1>2. Plain(n)
  BY <1>1, PlainBefore
<1>3. <<n>> \in Pids
  BY PlainIs, SinglesProc
<1>4. LineOK(n)
  BY <1>2, <1>3 DEF PlainLines
<1>5. CASE RunCall(p)
  BY <1>2, <1>3, <1>4, <1>5, RunCallPlain
<1>6. CASE WaitCall(p)
  BY <1>3, <1>4, <1>6, WaitCallPlain
<1>7. CASE InstructionEnds(p)
  BY <1>3, <1>4, <1>7, InstructionPlain
<1>8. CASE CommandEnds(p)
  BY <1>3, <1>4, <1>8, PlainIs, CommandPlain
<1>9. CASE CommandKilled(p)
  BY <1>3, <1>4, <1>9, KilledPlain
<1> QED
  BY <1>5, <1>6, <1>7, <1>8, <1>9 DEF ProcStep

LEMMA ShellPlain ==
  ASSUME Types, Begun, PlainLines, ShellStep PROVE PlainLines'
<1>1. UNCHANGED <<script, hit>>
  BY DEF ShellStep, Read, Push, Wait, EndOfInput, FinalWait, Quit
<1>2. \A n : Plain(n)' => Plain(n)
  BY <1>1, PlainBefore
<1>3. 1 .. Len(script) \subseteq Nat
  BY LineLimits
<1>4. CASE Read
  <2>1. Rooted'
    BY <1>4, ReadRooted DEF PlainLines
  <2>2. ASSUME NEW n \in 1 .. Len(script), <<n>> \in Pids', Plain(n)' PROVE LineOK(n)'
    BY <1>2, <1>4, <2>2, ReadPlain DEF PlainLines
  <2> QED
    BY <1>1, <2>1, <2>2 DEF PlainLines
<1>5. CASE Push \/ EndOfInput \/ Quit
  <2>1. UNCHANGED proc /\ Pids' = Pids
    BY <1>5 DEF Push, EndOfInput, Quit, Pids
  <2>2. ASSUME NEW n \in 1 .. Len(script), <<n>> \in Pids', Plain(n)' PROVE LineOK(n)'
    <3>1. n \in Nat /\ <<n>> \in Pids /\ LineOK(n)
      BY <1>2, <1>3, <2>1, <2>2 DEF PlainLines
    <3> QED
      BY <1>1, <2>1, <3>1, Untouched
  <2> QED
    BY <1>1, <2>1, <2>2 DEF PlainLines, Rooted
<1>6. ASSUME NEW m \in 1 .. Len(script), <<m>> \in Pids, Reaps(<<m>>) PROVE PlainLines'
  <2>1. Pids' = Pids
    BY <1>6, ReapsLines
  <2>2. ASSUME NEW n \in 1 .. Len(script), <<n>> \in Pids', Plain(n)' PROVE LineOK(n)'
    <3> DEFINE p == <<m>>
    <3>1. <<n>> \in Pids /\ LineOK(n)
      BY <1>2, <2>1, <2>2 DEF PlainLines
    <3>2. Len(p) = 1 /\ p \in Pids /\ Reaps(p)
      BY <1>6
    <3> HIDE DEF p
    <3> QED
      BY <1>1, <3>1, <3>2, ReapsPlain
  <2> QED
    BY <1>1, <2>1, <2>2 DEF PlainLines, Rooted
<1>7. CASE Wait
  <2>1. PICK m \in 1 .. Len(script) : m = line
    BY <1>7, WaitIs
  <2>2. <<m>> \in Pids /\ Reaps(<<m>>)
    <3>1. <<line>> \in Pids /\ Reaps(<<line>>)
      BY <1>7, WaitIs
    <3> QED
      BY <2>1, <3>1 DEF Reaps
  <2> QED
    BY <1>6, <2>2
<1>8. CASE FinalWait
  <2>1. Len(script) \in Nat \ {0} /\ <<Len(script)>> \in Pids /\ Reaps(<<Len(script)>>)
    BY <1>8, FinalWaitIs
  <2>2. PICK m \in 1 .. Len(script) : m = Len(script)
    BY <2>1
  <2>3. <<m>> \in Pids /\ Reaps(<<m>>)
    BY <2>1, <2>2 DEF Reaps
  <2> QED
    BY <1>6, <2>3
<1> QED
  BY <1>4, <1>5, <1>7, <1>8 DEF ShellStep

LEMMA InterruptLines == ASSUME Types, Begun, PlainLines, Interrupt PROVE PlainLines'
<1>1. UNCHANGED script /\ hit \subseteq hit' /\ Pids' = Pids
  <2>1. CASE UNCHANGED <<proc, hit>>
    BY <2>1, InterruptIs DEF Pids
  <2>2. CASE proc' = Exited(Newest, 0) /\ hit' = hit \cup {Newest[1]}
    BY <2>2, InterruptIs DEF Exited, Pids
  <2> QED
    BY <2>1, <2>2, InterruptIs
<1>2. ASSUME NEW n \in 1 .. Len(script), <<n>> \in Pids', Plain(n)' PROVE LineOK(n)'
  <2>1. <<n>> \in Pids /\ LineOK(n)
    BY <1>1, <1>2, PlainBefore DEF PlainLines
  <2> QED
    BY <1>2, <2>1, InterruptPlain
<1> QED
  BY <1>1, <1>2 DEF PlainLines, Rooted

LEMMA PlainStep ==
  ASSUME PipesClosed PROVE Types /\ Begun /\ PlainLines /\ [Next]_vars => PlainLines'
<1> SUFFICES ASSUME Types, Begun, PlainLines, [Next]_vars PROVE PlainLines'
  OBVIOUS
<1>1. CASE UNCHANGED vars
  <2>1. UNCHANGED <<script, proc, hit>> /\ Pids' = Pids
    BY <1>1 DEF vars, Pids
  <2>2. ASSUME NEW n \in 1 .. Len(script), <<n>> \in Pids', Plain(n)' PROVE LineOK(n)'
    <3>1. n \in Nat /\ <<n>> \in Pids /\ LineOK(n)
      BY <2>1, <2>2, PlainIs, PlainBefore DEF PlainLines
    <3> QED
      BY <2>1, <3>1, Untouched
  <2> QED
    BY <2>1, <2>2 DEF PlainLines, Rooted
<1>2. ASSUME NEW p \in Pids, ProcStep(p) \/ CommandKilled(p) PROVE PlainLines'
  <2>1. UNCHANGED script /\ Rooted'
    BY <1>2, ProcRooted DEF PlainLines, ProcStep, RunCall, WaitCall, InstructionEnds, CommandEnds, CommandKilled
  <2>2. \A n \in 1 .. Len(script) : Kept(n)
    BY <1>2, ProcPlain
  <2> QED
    BY <2>1, <2>2 DEF PlainLines, Kept
<1> QED
  BY <1>1, <1>2, ShellPlain, InterruptLines DEF Next

LEMMA InitPlain == Init => PlainLines
  BY DEF Init, PlainLines, Rooted, Pids

LEMMA PlainEnd ==
  ASSUME Types, PlainLines, NEW n \in 1 .. Len(script), <<n>> \in Ended, Plain(n)
  PROVE  LET e == proc[<<n>>]
             l == script[n] IN
         /\ LineOK(n) /\ Done(n) = 1 .. Len(l.calls) /\ e.act = << >>
         /\ e.code = Value(l)[Len(l.calls)]
<1>1. <<n>> \in Pids /\ proc[<<n>>].st \in {"zombie", "reaped"}
  BY DEF Ended
<1>2. LineOK(n) /\ Len(script[n].calls) \in Nat
  BY <1>1, PlainIs DEF PlainLines
<1> QED
  BY <1>1, <1>2 DEF LineOK, Phase, Done

\* However its processes are scheduled, a line of existing commands ends with the
\* code of its value, and has run exactly the calls that its operators ask for
\* (Instruction.cpp:33-94 against info.txt:14-27), for every input whose lines
\* do not end in the middle of a pipeline.
THEOREM ValueOfLine == ASSUME PipesClosed PROVE Spec => []RightResult
<1>1. Init => Types /\ Begun /\ PlainLines
  BY InitTypes, InitPlain
<1>2. (Types /\ Begun /\ PlainLines) /\ [Next]_vars => (Types /\ Begun /\ PlainLines)'
  BY TypesStep, PlainStep
<1>3. Types /\ Begun /\ PlainLines => RightResult
  <2> SUFFICES ASSUME Types, PlainLines, NEW n \in 1 .. Len(script), <<n>> \in Ended, Plain(n)
               PROVE  /\ proc[<<n>>].code = Value(script[n])[Len(script[n].calls)]
                      /\ \A i \in 1 .. Len(script[n].calls) : <<n, i>> \in Pids <=> Runs(script[n], i)
    BY DEF RightResult
  <2> QED
    BY PlainEnd DEF LineOK, Calls1
<1> QED
  BY <1>1, <1>2, <1>3, PTL DEF Spec

\* When the process of such a line ends, each call of the line has been waited
\* for (wait_active_calls, Instruction.cpp:24-31).
THEOREM CallsWaitedFor == ASSUME PipesClosed PROVE Spec => []NothingLeft
<1>1. Init => Types /\ Begun /\ PlainLines
  BY InitTypes, InitPlain
<1>2. (Types /\ Begun /\ PlainLines) /\ [Next]_vars => (Types /\ Begun /\ PlainLines)'
  BY TypesStep, PlainStep
<1>3. Types /\ Begun /\ PlainLines => NothingLeft
  <2> SUFFICES ASSUME Types, PlainLines, NEW p \in Pids, Len(p) > 1, <<p[1]>> \in Ended, Plain(p[1])
               PROVE  proc[p].st = "reaped"
    BY DEF NothingLeft
  <2>1. PICK n \in 1 .. Len(script) : n = p[1]
    BY DEF Types, NameOK, IsName
  <2>2. <<n>> \in Ended /\ Plain(n)
    BY <2>1, Zenon
  <2>3. LineOK(n) /\ proc[<<n>>].act = << >>
    BY <2>2, PlainEnd
  <2>4. PICK i \in Done(n) : p = <<n, i>>
    BY <2>1, <2>3 DEF LineOK, Calls1
  <2>5. CallOK(n, i)
    BY <2>3, <2>4 DEF LineOK, Calls1
  <2>6. \A k \in 1 .. Len(<< >>) : FALSE
    OBVIOUS
  <2>7. ~ (\E k \in 1 .. Len(proc[<<n>>].act) : proc[<<n>>].act[k] = <<n, i>>)
    BY <2>3, <2>6, Zenon
  <2>8. proc[<<n, i>>].st = "reaped"
    BY <2>5, <2>7, Zenon DEF CallOK
  <2> QED
    BY <2>4, <2>8
<1> QED
  BY <1>1, <1>2, <1>3, PTL DEF Spec
================================================================================
