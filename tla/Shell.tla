-------------------------------- MODULE Shell ---------------------------------
(***************************************************************************)
(* p4: the shell reads lines; each line is an Instruction that runs in a   *)
(* process of its own, which starts one process per Call, connects         *)
(* neighbours of "|" with pipes and waits for them.  A call whose execvp   *)
(* fails goes on as a second copy of its instruction process.  What is     *)
(* read, written and printed is left out; who holds the writing end of a   *)
(* pipe is not, because a reader waits for it.                             *)
(***************************************************************************)
EXTENDS Integers, Sequences, FiniteSets, SequencesExt

CONSTANTS Scripts,  \* the inputs: sequences of lines
          MaxLines, \* how many lines a script has at most
          MaxInts,  \* how many SIGINTs the shell gets
          MaxHit    \* on how many lines a signal ends a process

\* What Instruction::Instruction makes of a line: a background line has an action
\* behind its last call, too, and no call at all when it is "&".
Ops == {"AND", "OR", "SIMULTANEOUSLY", "LAST"}
Instructions ==
  [calls : Seq([cmd : STRING, from : BOOLEAN, to : BOOLEAN]), ops : Seq(Ops), bg : BOOLEAN]
ASSUME ScriptAssumption ==
  /\ MaxLines \in Nat
  /\ \A s \in Scripts :
       /\ s \in Seq(Instructions) /\ Len(s) <= MaxLines
       /\ \A n \in DOMAIN s : Len(s[n].ops) \in {Len(s[n].calls) - 1, Len(s[n].calls)}
ASSUME BoundAssumption == MaxInts \in 0..1 /\ MaxHit \in Nat

VARIABLES script,   \* the input
          proc,     \* the processes below the shell, by their place in the tree
          line,     \* the line the shell is at
          shell,    \* "read", "pushing", "wait", "final", "done", "undefined"
          active,   \* entries of the shell's vector `active`
          reports,  \* what "Process .. exited: .." says
          ints,     \* SIGINTs of the shell
          hit       \* the lines with a process that a signal has ended

vars == <<script, proc, line, shell, active, reports, ints, hit>>

\* A process is named by its line and the calls that lead to it.
Pids == DOMAIN proc
Line(p) == script[p[1]]
Calls(p) == Line(p).calls
Parent(p) == Front(p)
Executors == {p \in Pids : proc[p].st \in {"loop", "wait"}}
Running == {p \in Pids : proc[p].st = "command"}
Ended == {p \in Pids : proc[p].st \in {"zombie", "reaped"}}
Children(p) == {q \in Pids : Len(q) > 1 /\ Parent(q) = p}

\* Instruction::Instruction: the action behind a call and the one before it;
\* a call behind ";" is a first one again.
Action(l, i) == IF i > Len(l.ops) THEN "LAST" ELSE l.ops[i]
LastActionKept(l, i) == IF i = 1 THEN "FIRST" ELSE l.ops[i - 1]
LastAction(l, i) == IF i = 1 \/ l.ops[i - 1] = "LAST" THEN "FIRST" ELSE l.ops[i - 1]

\* Inputs and outputs that are no pipe; a pipe is named by the call it was made for.
Tty == << >>
File == <<0>>

Executor(in, out, fds, act, pos) ==
  [st |-> "loop", in |-> in, out |-> out, fds |-> fds, act |-> act, pos |-> pos, code |-> 0]

Init ==
  /\ script \in Scripts
  /\ proc = <<>> /\ line = 1 /\ shell = "read" /\ active = 0 /\ reports = <<>>
  /\ ints = 0 /\ hit = {}

------------------------------------------------------------------------------
\* The calls.  waitpid makes an exit code of 0 of an end by a signal.
Exited(p, code) == [proc EXCEPT ![p].st = "zombie", ![p].code = code]

\* Descriptors of pipes close on exec; in a copy they stay open.
Writers(pipe) ==
  {p \in Executors : proc[p].out = pipe \/ pipe \in ToSet(proc[p].fds)}
    \cup {p \in Running : proc[p].out = pipe}

RawCode(cmd) == IF cmd = "false" THEN 256 ELSE 0
Code(cmd) == IF cmd = "false" THEN 1 ELSE 0

\* "cat" ends when its input does, the other commands at once.
CommandEnds(p) ==
  LET cmd == Calls(p)[Last(p)].cmd IN
  /\ p \in Running
  /\ cmd = "cat" => (proc[p].in \in {File, Tty} \/ Writers(proc[p].in) = {})
  /\ proc' = Exited(p, Code(cmd))
  /\ UNCHANGED <<script, line, shell, active, reports, ints, hit>>

CommandKilled(p) ==
  /\ p \in Running /\ Cardinality(hit) < MaxHit
  /\ hit' = hit \cup {p[1]}
  /\ proc' = Exited(p, 0)
  /\ UNCHANGED <<script, line, shell, active, reports, ints>>

------------------------------------------------------------------------------
\* Instruction::execute.
Started(last_action, code) ==
  \/ last_action \in {"FIRST", "SIMULTANEOUSLY"}
  \/ last_action = "AND" /\ code = 0
  \/ last_action = "OR" /\ code # 0

\* The parent's descriptors; the list of calls to wait for.
FdsAfterAlways(fds, action) == fds
FdsAfter(fds, action) == IF action = "SIMULTANEOUSLY" THEN fds ELSE << >>
OnlyLast(act, who) == <<who>>
ActAfter(act, who) == Append(act, who)

\* After call.run(): the call is active, and behind the last one of a pipeline
\* the pipes are closed and all active calls waited for.
AfterRun(e, who, fds, action) ==
  [e EXCEPT !.act = ActAfter(@, who), !.fds = FdsAfter(fds, action),
            !.st = IF action = "SIMULTANEOUSLY" THEN "loop" ELSE "wait",
            !.pos = @ + 1]

\* Call::run: the child has its redirections or pipes as input and output.  A
\* child that cannot exec returns from run with pid 0, shown as << >>.
Child(p, call, last_action, action, fds) ==
  LET e == proc[p]
      in == IF call.from THEN File
            ELSE IF last_action = "SIMULTANEOUSLY" THEN Last(e.fds) ELSE e.in
      out == IF call.to THEN File
             ELSE IF action = "SIMULTANEOUSLY" THEN Last(fds) ELSE e.out
  IN IF call.cmd = "bad"
     THEN AfterRun([e EXCEPT !.in = in, !.out = out], << >>, fds, action)
     ELSE [Executor(in, out, << >>, << >>, 0) EXCEPT !.st = "command"]

RunCall(p) ==
  LET e == proc[p]
      i == e.pos
      last_action == LastAction(Line(p), i)
      action == Action(Line(p), i)
      fds == IF action = "SIMULTANEOUSLY" THEN Append(e.fds, Append(p, i)) ELSE e.fds
      q == Append(p, i) IN
  /\ e.st = "loop" /\ i <= Len(Calls(p))
  /\ proc' = IF Started(last_action, e.code)
             THEN [r \in Pids \cup {q} |->
                     IF r = q THEN Child(p, Calls(p)[i], last_action, action, fds)
                     ELSE IF r = p THEN AfterRun(e, q, fds, action) ELSE proc[r]]
             ELSE [proc EXCEPT ![p].fds = fds, ![p].pos = i + 1]
  /\ UNCHANGED <<script, line, shell, active, reports, ints, hit>>

\* Call::wait for the first active call.  waitpid(0) takes any child; a process
\* that is not an own child, or is gone already, gives status 0 at once.
Waitable(p, who) ==
  {q \in Children(p) : (who = << >> \/ q = who) /\ proc[q].st # "reaped"}

Waited(e, code) ==
  [e EXCEPT !.act = Tail(@), !.code = code,
            !.st = IF Len(e.act) = 1 THEN "loop" ELSE "wait"]
WaitCall(p) ==
  LET e == proc[p]
      who == Head(e.act) IN
  /\ e.st = "wait"
  /\ \/ /\ Waitable(p, who) = {}
        /\ proc' = [proc EXCEPT ![p] = Waited(e, 0)]
     \/ \E q \in Waitable(p, who) :
          /\ proc[q].st = "zombie"
          /\ proc' = [proc EXCEPT ![p] = Waited(e, proc[q].code), ![q].st = "reaped"]
  /\ UNCHANGED <<script, line, shell, active, reports, ints, hit>>

InstructionEnds(p) ==
  /\ proc[p].st = "loop" /\ proc[p].pos > Len(Calls(p))
  /\ proc' = Exited(p, proc[p].code)
  /\ UNCHANGED <<script, line, shell, active, reports, ints, hit>>

------------------------------------------------------------------------------
\* main.  Every Instruction lives at the same address of the stack, and `active`
\* keeps that address: each entry means the newest line.
Oldest == <<1>>
Newest == << IF shell \in {"read", "final"} THEN line - 1 ELSE line >>

Read ==
  /\ shell = "read" /\ line <= Len(script)
  /\ proc' = [r \in Pids \cup {<<line>>} |->
                IF r = <<line>> THEN Executor(Tty, Tty, << >>, << >>, 1) ELSE proc[r]]
  /\ shell' = IF script[line].bg THEN "pushing" ELSE "wait"
  /\ UNCHANGED <<script, line, active, reports, ints, hit>>

Push ==
  /\ shell = "pushing"
  /\ active' = active + 1 /\ shell' = "read" /\ line' = line + 1
  /\ UNCHANGED <<script, proc, reports, ints, hit>>

\* Instruction::wait, and the report.
Reaps(p) ==
  \/ /\ proc[p].st = "zombie"
     /\ reports' = Append(reports, <<p, proc[p].code>>)
     /\ proc' = [proc EXCEPT ![p].st = "reaped"]
  \/ /\ proc[p].st = "reaped"
     /\ reports' = Append(reports, <<p, 0>>)
     /\ proc' = proc

Wait ==
  /\ shell = "wait"
  /\ Reaps(<<line>>)
  /\ shell' = "read" /\ line' = line + 1
  /\ UNCHANGED <<script, active, ints, hit>>

EndOfInput ==
  /\ shell = "read" /\ line > Len(script)
  /\ shell' = "final"
  /\ UNCHANGED <<script, proc, line, active, reports, ints, hit>>

FinalWait ==
  /\ shell = "final" /\ active > 0
  /\ Reaps(Newest)
  /\ active' = active - 1
  /\ UNCHANGED <<script, line, shell, ints, hit>>

Quit ==
  /\ shell = "final" /\ active = 0
  /\ shell' = "done"
  /\ UNCHANGED <<script, proc, line, active, reports, ints, hit>>

\* sighandler passes SIGINT on to the newest line once per entry.  The handler
\* there follows a pointer that is null until the shell has had a SIGINT: the
\* instruction process ends.  A SIGINT inside push_back has no defined effect;
\* the last loop of main has its bounds from before active.clear() and goes on.
Interrupt ==
  /\ shell \notin {"done", "undefined"} /\ ints < MaxInts
  /\ ints' = ints + 1
  /\ IF shell = "pushing" THEN shell' = "undefined" /\ UNCHANGED <<proc, active, hit>> ELSE
     /\ active' = (IF shell = "final" THEN active ELSE 0) /\ shell' = shell
     /\ IF active > 0 /\ Newest \in Executors
        THEN proc' = Exited(Newest, 0) /\ hit' = hit \cup {Newest[1]}
        ELSE UNCHANGED <<proc, hit>>
  /\ UNCHANGED <<script, line, reports>>

ShellStep == Read \/ Push \/ Wait \/ EndOfInput \/ FinalWait \/ Quit
ProcStep(p) == RunCall(p) \/ WaitCall(p) \/ InstructionEnds(p) \/ CommandEnds(p)

Next ==
  \/ ShellStep \/ Interrupt
  \/ \E p \in Pids : ProcStep(p) \/ CommandKilled(p)

Spec == Init /\ [][Next]_vars

\* The scheduler runs every process.
Fairness ==
  /\ WF_vars(ShellStep)
  /\ WF_vars(\E p \in Pids : ProcStep(p))
FairSpec == Spec /\ Fairness

------------------------------------------------------------------------------
TypeOK ==
  /\ line \in 1..(Len(script) + 1) /\ active \in 0..Len(script)
  /\ shell \in {"read", "pushing", "wait", "final", "done", "undefined"}
  /\ \A p \in Pids :
       /\ proc[p].st \in {"loop", "wait", "command", "zombie", "reaped"}
       /\ proc[p].code \in 0..255 /\ proc[p].pos \in 0..(Len(Calls(p)) + 1)
       /\ proc[p].st = "wait" => proc[p].act # << >>
       /\ Len(p) > 1 => Parent(p) \in Pids

\* info.txt:14-27: the exit code of a line's first i calls, left to right.
Value(l) ==
  LET op(i) == IF i = 1 THEN "LAST" ELSE l.ops[i - 1]
      r[i \in 0..Len(l.calls)] ==
        IF i = 0 THEN 0
        ELSE IF (op(i) = "AND" /\ r[i - 1] # 0) \/ (op(i) = "OR" /\ r[i - 1] = 0)
        THEN r[i - 1] ELSE Code(l.calls[i].cmd)
  IN r
Runs(l, i) ==
  LET op == IF i = 1 THEN "LAST" ELSE l.ops[i - 1]
  IN (op = "AND" => Value(l)[i - 1] = 0) /\ (op = "OR" => Value(l)[i - 1] # 0)

Plain(n) == n \notin hit /\ \A i \in 1..Len(script[n].calls) : script[n].calls[i].cmd # "bad"

\* A line of existing commands runs exactly the calls that its operators ask
\* for and ends with the code of the whole, however its processes are
\* scheduled (Instruction.cpp:33-94 against info.txt:14-27).
RightResult ==
  \A n \in 1..Len(script) :
    <<n>> \in Ended /\ Plain(n) =>
      /\ proc[<<n>>].code = Value(script[n])[Len(script[n].calls)]
      /\ \A i \in 1..Len(script[n].calls) : <<n, i>> \in Pids <=> Runs(script[n], i)

\* When such a line ends, none of its processes is left running or unwaited for
\* (wait_active_calls, Instruction.cpp:24-31).
NothingLeft ==
  \A p \in Pids : Len(p) > 1 /\ <<p[1]>> \in Ended /\ Plain(p[1]) => proc[p].st = "reaped"

\* Every line ends and the pipes of its calls with it, also when signals end
\* some of them or a command does not exist, unless that command writes to a
\* pipe (Instruction.cpp:16-22, Call.cpp:137-148).
PipesEnd(l) ==
  \A i \in 1..Len(l.calls) : l.calls[i].cmd = "bad" => Action(l, i) # "SIMULTANEOUSLY"
LinesEnd ==
  \A n \in 1..MaxLines :
    (n <= Len(script) /\ <<n>> \in Pids /\ PipesEnd(script[n])) ~> (<<n>> \in Ended)

\* Without SIGINT the shell reports the end of every line with the code of that
\* line, but for background lines with a line behind them: an entry of `active`
\* means whatever line the shell has read last (main.cpp:36-50).
EndsReported ==
  shell = "done" /\ ints = 0 =>
    \A n \in 1..Len(script) :
      (script[n].bg /\ n < Len(script)) \/ <<<<n>>, proc[<<n>>].code>> \in ToSet(reports)
==============================================================================
