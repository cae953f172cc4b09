--------------------------- MODULE CacheServerProofs ---------------------------
(***************************************************************************)
(* Proofs about CacheServer for every number of workers and clients.       *)
(***************************************************************************)
EXTENDS CacheServer, TLAPS, FiniteSetTheorems

USE ServerAssumption

\* One step of one worker, whichever it is.
WorkerNext(k) == WorkerStep(k) \/ Lock(k) \/ Kill(k)

--------------------------------------------------------------------------------
(* Types and units *)

\* The types of everything but the units.
Types ==
  /\ link \in [Clients -> [end : {"away", "up", "closed", "reset"}, sent : Nat]]
  /\ backlog \in Seq(Clients)
  /\ main \in [pc : {"fork", "accept_client", "accept", "send_fd", "ended"},
               w : Workers, slave : Clients \cup {None}, failed : SUBSET Misread]
  /\ main.slave \in Clients <=> main.pc = "send_fd"
  /\ ends \in [Workers -> SUBSET (Workers \cup {Parent})]
  /\ queue \in [Workers -> Seq(Clients)]
  /\ wpc \in [Workers -> {"unborn", "forked", "recv_fd", "recv", "lock", "inside", "send", "ended"}]
  /\ cur \in [Workers -> Clients \cup {None}]
  /\ broken \in [Workers -> BOOLEAN]
  /\ present \in BOOLEAN

Holders == {k \in Workers : held[k] > 0}

\* Only who is inside holds units; one has them all, or each has one and what
\* is left does not exceed the rest.
Units ==
  /\ held \in [Workers -> 0 .. W] /\ sem \in 0 .. W
  /\ \A k \in Workers : held[k] > 0 => wpc[k] = "inside"
  /\ \/ \E k \in Workers : held[k] = W /\ Holders = {k} /\ sem = 0
     \/ (\A k \in Holders : held[k] = 1) /\ sem + Cardinality(Holders) <= W

LEMMA HoldersFinite == IsFiniteSet(Holders) /\ Cardinality(Holders) \in Nat
<1>1. IsFiniteSet(0 .. W - 1)
  BY FS_Interval
<1>2. IsFiniteSet(Holders)
  BY <1>1, FS_Subset DEF Holders, Workers
<1> QED
  BY <1>2, FS_CardinalityType

LEMMA InitTypes == Init => Types /\ Units
<1> SUFFICES ASSUME Init PROVE Types /\ Units
  OBVIOUS
<1>1. Types
  BY DEF Init, Types, Workers, Created
<1>2. Holders = {}
  BY DEF Init, Holders
<1>3. Cardinality(Holders) = 0
  BY <1>2, FS_EmptySet
<1> QED
  BY <1>1, <1>2, <1>3 DEF Init, Units

LEMMA WithoutTypes ==
  ASSUME Types, NEW p PROVE Without(p) \in [Workers -> SUBSET (Workers \cup {Parent})]
  BY DEF Without, Types

LEMMA WorkerEndsTypes ==
  ASSUME Types, NEW k \in Workers, WorkerEnds(k), UNCHANGED <<link, backlog, main>>,
         present' \in BOOLEAN
  PROVE  Types'
<1>1. ends' \in [Workers -> SUBSET (Workers \cup {Parent})]
  BY WithoutTypes DEF WorkerEnds
<1>2. queue' \in [Workers -> Seq(Clients)]
  BY DEF WorkerEnds, Types
<1>3. broken' \in [Workers -> BOOLEAN]
  BY DEF WorkerEnds, Types
<1> QED
  BY <1>1, <1>2, <1>3 DEF WorkerEnds, Types

LEMMA ParentEndsTypes == ASSUME Types, ParentEnds PROVE Types'
<1>1. ends' \in [Workers -> SUBSET (Workers \cup {Parent})]
  BY WithoutTypes DEF ParentEnds
<1>2. main'.pc = "ended" /\ main'.slave = None
  BY DEF ParentEnds, Types
<1>3. main' \in [pc : {"fork", "accept_client", "accept", "send_fd", "ended"},
                 w : Workers, slave : Clients \cup {None}, failed : SUBSET Misread]
  BY DEF ParentEnds, Types
<1> QED
  BY <1>1, <1>2, <1>3 DEF ParentEnds, Types, worker

LEMMA TypesStep == Types /\ [Next]_vars => Types'
<1> SUFFICES ASSUME Types, [Next]_vars PROVE Types'
  OBVIOUS
<1> USE DEF clients, worker, locks
<1> DEFINE Mains == [pc : {"fork", "accept_client", "accept", "send_fd", "ended"},
                     w : Workers, slave : Clients \cup {None}, failed : SUBSET Misread]
           Endings == [Workers -> SUBSET (Workers \cup {Parent})]
<1>1. ASSUME NEW c \in Clients, Connect(c) \/ Speak(c) \/ Hang(c) PROVE Types'
  <2>1. link' \in [Clients -> [end : {"away", "up", "closed", "reset"}, sent : Nat]]
    <3>1. link[c].sent \in Nat /\ link[c].end \in {"away", "up", "closed", "reset"}
      BY DEF Types
    <3>2. link[c].sent + 1 \in Nat
      BY <3>1
    <3> DEFINE L == [end : {"away", "up", "closed", "reset"}, sent : Nat]
    <3>3. PICK v \in L : link' = [link EXCEPT ![c] = v]
      <4>1. ASSUME NEW e \in {"up", "closed", "reset"}, link' = [link EXCEPT ![c].end = e]
            PROVE  \E v \in L : link' = [link EXCEPT ![c] = v]
        <5>1. link[c] \in L
          BY DEF Types
        <5>2. [link[c] EXCEPT !.end = e] \in L
          BY <5>1
        <5>3. link' = [link EXCEPT ![c] = [link[c] EXCEPT !.end = e]]
          BY <4>1
        <5> QED
          BY <5>2, <5>3
      <4>2. ASSUME link' = [link EXCEPT ![c].sent = @ + 1]
            PROVE  \E v \in L : link' = [link EXCEPT ![c] = v]
        <5> link[c] \in L
          BY DEF Types
        <5>1. [link[c] EXCEPT !.sent = @ + 1] \in L
          BY <3>2
        <5>2. link' = [link EXCEPT ![c] = [link[c] EXCEPT !.sent = @ + 1]]
          BY <4>2
        <5> QED
          BY <5>1, <5>2
      <4> QED
        BY <1>1, <4>1, <4>2 DEF Connect, Speak, Hang
    <3> QED
      BY <3>3 DEF Types
  <2>2. backlog' \in Seq(Clients)
    <3>1. Append(backlog, c) \in Seq(Clients)
      BY DEF Types
    <3>2. backlog' = backlog \/ backlog' = Append(backlog, c)
      BY <1>1 DEF Connect, Speak, Hang
    <3> QED
      BY <3>1, <3>2 DEF Types
  <2> QED
    BY <1>1, <2>1, <2>2 DEF Connect, Speak, Hang, Types
<1>2. CASE Fork
  <2>1. main' \in Mains /\ main'.slave = main.slave /\ main'.pc # "send_fd"
    BY <1>2 DEF Fork, Types
  <2>2. ends' \in Endings
    BY <1>2 DEF Fork, Types
  <2> QED
    BY <1>2, <2>1, <2>2 DEF Fork, Types
<1>3. CASE AcceptInternal
  <2> DEFINE k == main.w
             next == IF k = W - 1 THEN [main EXCEPT !.pc = "accept"]
                     ELSE [main EXCEPT !.pc = "fork", !.w = k + 1]
  <2>1. next \in Mains /\ next.slave = main.slave /\ next.pc # "send_fd"
    <3>1. k \in Workers /\ (k # W - 1 => k + 1 \in Workers)
      BY DEF Types, Workers
    <3>2. CASE k = W - 1
      BY <3>2 DEF Types
    <3>3. CASE k # W - 1
      BY <3>1, <3>3 DEF Types
    <3> QED
      BY <3>2, <3>3
  <2>2. main' \in Mains /\ main'.slave = main.slave /\ main'.pc # "send_fd"
    <3>1. CASE main' = next
      BY <2>1, <3>1
    <3>2. CASE k \in Misread /\ main' = [next EXCEPT !.failed = @ \cup {k}]
      <4> HIDE DEF next
      <4> QED
        BY <2>1, <3>2
    <3> QED
      BY <1>3, <3>1, <3>2 DEF AcceptInternal
  <2>3. ends' \in Endings
    BY <1>3 DEF AcceptInternal, Types
  <2> QED
    BY <1>3, <2>2, <2>3 DEF AcceptInternal, Types
<1>4. CASE Accept
  <2>1. PICK k \in Workers :
          main' = [main EXCEPT !.pc = "send_fd", !.w = k, !.slave = Head(backlog)]
    BY <1>4 DEF Accept
  <2>2. Head(backlog) \in Clients /\ Tail(backlog) \in Seq(Clients)
    BY <1>4 DEF Accept, Types
  <2>3. main' \in Mains /\ main'.slave \in Clients /\ main'.pc = "send_fd"
    BY <2>1, <2>2 DEF Types
  <2> QED
    BY <1>4, <2>2, <2>3 DEF Accept, Types
<1>5. CASE SendFd
  <2>1. CASE ParentEnds
    BY <2>1, ParentEndsTypes
  <2>2. CASE /\ main' = [main EXCEPT !.pc = "accept", !.slave = None]
             /\ queue' = queue \/ queue' = [queue EXCEPT ![main.w] = Append(@, main.slave)]
             /\ UNCHANGED <<clients, ends, worker, locks, done>>
    <3>1. main' \in Mains /\ main'.slave = None /\ main'.pc = "accept"
      BY <2>2 DEF Types
    <3>2. main.slave \in Clients
      BY <1>5 DEF SendFd, Types
    <3>3. queue[main.w] \in Seq(Clients)
      BY DEF Types
    <3>4. Append(queue[main.w], main.slave) \in Seq(Clients)
      BY <3>2, <3>3
    <3>5. queue' \in [Workers -> Seq(Clients)]
      BY <2>2, <3>4 DEF Types
    <3> QED
      BY <2>2, <3>1, <3>5 DEF Types
  <2> QED
    BY <1>5, <2>1, <2>2 DEF SendFd
<1>6. CASE KillParent
  BY <1>6, ParentEndsTypes DEF KillParent
<1>7. ASSUME NEW k \in Workers, WorkerNext(k) PROVE Types'
  <2>1. CASE ConnectInternal(k)
    BY <2>1 DEF ConnectInternal, Types
  <2>2. CASE RecvFd(k)
    <3>1. Head(queue[k]) \in Clients /\ Tail(queue[k]) \in Seq(Clients)
      BY <2>2 DEF RecvFd, Types
    <3> QED
      BY <2>2, <3>1 DEF RecvFd, Types
  <2>3. CASE Leave(k)
    BY <2>3, WorkerEndsTypes DEF Leave
  <2>4. CASE Recv(k)
    <3>1. broken' \in [Workers -> BOOLEAN]
      BY <2>4 DEF Recv, Types
    <3> QED
      BY <2>4, <3>1 DEF Recv, Types
  <2>5. CASE Release(k)
    BY <2>5 DEF Release, Released, Types
  <2>6. CASE Send(k)
    <3>1. CASE broken[k]
      BY <2>6, <3>1, WorkerEndsTypes DEF Send, Types
    <3>2. CASE ~broken[k]
      BY <2>6, <3>2 DEF Send, Types
    <3> QED
      BY <3>1, <3>2
  <2>7. CASE Lock(k)
    BY <2>7 DEF Lock, Types
  <2>8. CASE Kill(k)
    BY <2>8, WorkerEndsTypes DEF Kill, Types
  <2> QED
    BY <1>7, <2>1, <2>2, <2>3, <2>4, <2>5, <2>6, <2>7, <2>8 DEF WorkerNext, WorkerStep
<1>8. CASE UNCHANGED vars
  BY <1>8 DEF vars, Types
<1> QED
  BY <1>1, <1>2, <1>3, <1>4, <1>5, <1>6, <1>7, <1>8 DEF Next, ParentStep, WorkerNext

\* Giving back what a process holds keeps the count.
LEMMA UnitsBack ==
  ASSUME Units, NEW k \in Workers, sem' = sem + held[k], held' = [held EXCEPT ![k] = 0],
         \A j \in Workers \ {k} : wpc'[j] = wpc[j]
  PROVE  Units'
<1>1. Holders' = Holders \ {k}
  BY DEF Holders, Units
<1>2. \A j \in Workers : held'[j] > 0 => wpc'[j] = "inside"
  BY DEF Units
<1>3. CASE \E i \in Workers : held[i] = W /\ Holders = {i} /\ sem = 0
  <2>1. PICK i \in Workers : held[i] = W /\ Holders = {i} /\ sem = 0
    BY <1>3
  <2>2. CASE k = i
    <3>1. Holders' = {} /\ sem' = W
      BY <1>1, <2>1, <2>2
    <3>2. Cardinality(Holders') = 0
      BY <3>1, FS_EmptySet
    <3> QED
      BY <1>2, <3>1, <3>2 DEF Units
  <2>3. CASE k # i
    <3>1. held[k] = 0
      BY <2>1, <2>3 DEF Holders, Units
    <3>2. held' = held /\ sem' = sem /\ Holders' = Holders
      BY <1>1, <2>1, <2>3, <3>1 DEF Units
    <3> QED
      BY <1>2, <2>1, <3>2 DEF Units
  <2> QED
    BY <2>2, <2>3
<1>4. CASE (\A i \in Holders : held[i] = 1) /\ sem + Cardinality(Holders) <= W
  <2>1. held[k] = (IF k \in Holders THEN 1 ELSE 0)
    BY <1>4 DEF Holders, Units
  <2>2. Cardinality(Holders') = Cardinality(Holders) - held[k]
    <3>1. CASE k \in Holders
      <4>1. Cardinality(Holders \ {k}) = Cardinality(Holders) - 1
        BY <3>1, HoldersFinite, FS_RemoveElement
      <4>2. held[k] = 1
        BY <2>1, <3>1
      <4> QED
        BY <1>1, <4>1, <4>2
    <3>2. CASE k \notin Holders
      <4>1. Holders' = Holders
        BY <1>1, <3>2
      <4> QED
        BY <2>1, <3>2, <4>1, HoldersFinite
    <3> QED
      BY <3>1, <3>2
  <2>3. Cardinality(Holders') \in Nat
    BY HoldersFinite, <1>1, FS_Subset, FS_CardinalityType
  <2>4. sem' + Cardinality(Holders') <= W /\ sem' \in 0 .. W
    BY <1>4, <2>1, <2>2, <2>3, HoldersFinite DEF Units
  <2>5. \A i \in Holders' : held'[i] = 1
    BY <1>1, <1>4 DEF Holders, Units
  <2>6. held' \in [Workers -> 0 .. W]
    BY DEF Units
  <2> QED
    BY <1>2, <2>4, <2>5, <2>6 DEF Units
<1> QED
  BY <1>3, <1>4 DEF Units

\* A step that moves no unit, except that the parent's undo may empty the
\* semaphore.
LEMMA UnitsKept ==
  ASSUME Units, held' = held, sem' = sem \/ sem' = 0,
         \A j \in Workers : wpc[j] = "inside" => wpc'[j] = "inside"
  PROVE  Units'
<1>1. Holders' = Holders
  BY DEF Holders
<1>2. sem' \in 0 .. W /\ sem' <= sem
  BY DEF Units
<1>3. CASE \E k \in Workers : held[k] = W /\ Holders = {k} /\ sem = 0
  BY <1>1, <1>2, <1>3 DEF Units
<1>4. CASE (\A k \in Holders : held[k] = 1) /\ sem + Cardinality(Holders) <= W
  <2>1. sem' + Cardinality(Holders') <= W
    BY <1>1, <1>2, <1>4, HoldersFinite DEF Units
  <2> QED
    BY <1>1, <1>2, <1>4, <2>1 DEF Units
<1> QED
  BY <1>3, <1>4 DEF Units

LEMMA WeightIs == ASSUME NEW k \in Workers PROVE Weight(k) \in {1, W}
  BY DEF Weight

\* Taking units that are there keeps the count.
LEMMA UnitsTaken == ASSUME Types, Units, NEW k \in Workers, Lock(k), present PROVE Units'
<1>1. sem >= Weight(k) /\ sem' = sem - Weight(k) /\ held' = [held EXCEPT ![k] = Weight(k)]
  BY DEF Lock
<1>2. held[k] = 0 /\ k \notin Holders
  BY DEF Lock, Units, Holders
<1>3. wpc' = [wpc EXCEPT ![k] = "inside"]
  BY DEF Lock
<1>4. Holders' = Holders \cup {k}
  BY <1>1, WeightIs DEF Holders, Units
<1>5. \A j \in Workers : held'[j] > 0 => wpc'[j] = "inside"
  BY <1>1, <1>3 DEF Units, Types
<1>6. held' \in [Workers -> 0 .. W] /\ sem' \in 0 .. W
  BY <1>1, WeightIs DEF Units
<1>7. (\A j \in Holders : held[j] = 1) /\ sem + Cardinality(Holders) <= W
  BY <1>1, WeightIs DEF Units
<1>8. CASE Weight(k) = 1
  <2>1. Cardinality(Holders') = Cardinality(Holders) + 1
    BY <1>2, <1>4, HoldersFinite, FS_AddElement
  <2>2. sem' + Cardinality(Holders') <= W
    BY <1>1, <1>7, <1>8, <2>1, HoldersFinite DEF Units
  <2>3. \A j \in Holders' : held'[j] = 1
    BY <1>1, <1>4, <1>7, <1>8 DEF Units
  <2> QED
    BY <1>5, <1>6, <2>2, <2>3 DEF Units
<1>9. CASE Weight(k) = W
  <2>1. sem = W /\ Cardinality(Holders) = 0
    BY <1>1, <1>7, <1>9, HoldersFinite DEF Units
  <2>2. Holders = {}
    BY <2>1, HoldersFinite, FS_EmptySet
  <2>3. Holders' = {k} /\ held'[k] = W /\ sem' = 0
    BY <1>1, <1>4, <1>9, <2>1, <2>2 DEF Units
  <2> QED
    BY <1>5, <1>6, <2>3 DEF Units
<1> QED
  BY <1>8, <1>9, WeightIs

--------------------------------------------------------------------------------
(* The start *)

\* Workers are forked one after the other, the next one only when the one
\* before has connected.
Starting ==
  /\ \A k \in Workers : wpc[k] \in {"unborn", "forked"} => ends[k] = {}
  /\ \A j, k \in Workers : wpc[k] = "forked" /\ j > k => wpc[j] = "unborn"
  /\ \A k \in Workers : wpc[k] = "forked" => main.pc = "ended" \/ (main.pc = "accept_client" /\ k = main.w)
  /\ main.pc = "fork" => \A k \in Workers : k >= main.w => wpc[k] = "unborn"
  /\ main.pc = "accept_client" => \A k \in Workers : k > main.w => wpc[k] = "unborn"

LEMMA InitStarting == Init => Starting
  BY DEF Init, Starting

\* A worker's step after its start, as far as the start is concerned.
LEMMA RunStarting ==
  ASSUME Types, Starting, NEW k \in Workers, wpc[k] # "unborn", \A j \in Workers \ {k} : wpc'[j] = wpc[j],
         wpc'[k] \notin {"unborn", "forked"}, main' = main,
         \A j \in Workers \ {k} : ends'[j] \subseteq ends[j]
  PROVE  Starting'
<1>1. \A j \in Workers : wpc'[j] \in {"unborn", "forked"} => j # k /\ wpc'[j] = wpc[j]
  OBVIOUS
<1>2. \A j \in Workers : wpc[j] = "unborn" => wpc'[j] = "unborn"
  OBVIOUS
<1>3. \A j \in Workers : wpc'[j] \in {"unborn", "forked"} => ends'[j] = {}
  BY <1>1 DEF Starting
<1> QED
  BY <1>1, <1>2, <1>3 DEF Starting

LEMMA EndsStarting ==
  ASSUME Types, Starting, wpc' = wpc, ends' = Without(Parent), main'.pc = "ended"
  PROVE  Starting'
  BY DEF Starting, Types, Without

LEMMA StartingStep == Types /\ Starting /\ [Next]_vars => Starting'
<1> SUFFICES ASSUME Types, Starting, [Next]_vars PROVE Starting'
  OBVIOUS
<1> USE DEF clients, worker, locks
<1>1. ASSUME NEW c \in Clients, Connect(c) \/ Speak(c) \/ Hang(c) PROVE Starting'
  BY <1>1 DEF Connect, Speak, Hang, Starting
<1>2. CASE Fork
  <2> DEFINE k == main.w
  <2>1. k \in Workers /\ main.pc = "fork" /\ main'.pc = "accept_client" /\ main'.w = k
    BY <1>2 DEF Fork, Types
  <2>2. wpc' = [wpc EXCEPT ![k] = "forked"]
    BY <1>2 DEF Fork
  <2>3. \A j \in Workers : ends[j] = {} => ends'[j] = {}
    BY <1>2 DEF Fork, Types
  <2> QED
    <3>1. \A j \in Workers : wpc[j] # "forked" /\ (j >= k => wpc[j] = "unborn")
      BY <2>1 DEF Starting
    <3>2. wpc'[k] = "forked" /\ \A j \in Workers \ {k} : wpc'[j] = wpc[j]
      BY <2>2 DEF Types
    <3>3. \A j \in Workers : wpc'[j] = "forked" => j = k
      BY <3>1, <3>2
    <3>4. \A j \in Workers : wpc'[j] \in {"unborn", "forked"} => ends'[j] = {}
      <4>1. wpc[k] = "unborn"
        BY <2>1, <3>1 DEF Workers
      <4>2. \A j \in Workers : wpc'[j] \in {"unborn", "forked"} => wpc[j] \in {"unborn", "forked"}
        BY <3>2, <4>1
      <4> QED
        BY <2>3, <4>2 DEF Starting
    <3>5. \A j \in Workers : j > k => wpc'[j] = "unborn"
      BY <2>1, <3>1, <3>2 DEF Workers
    <3> QED
      BY <2>1, <3>3, <3>4, <3>5 DEF Starting
<1>3. CASE AcceptInternal
  <2> DEFINE k == main.w
  <2>1. k \in Workers /\ main.pc = "accept_client" /\ k \in ends[k]
    BY <1>3 DEF AcceptInternal, Types
  <2>2. wpc[k] \notin {"unborn", "forked"}
    BY <2>1 DEF Starting
  <2>3. \/ k = W - 1 /\ main'.pc = "accept"
        \/ main'.pc = "fork" /\ main'.w = k + 1
    <3> DEFINE next == IF k = W - 1 THEN [main EXCEPT !.pc = "accept"]
                       ELSE [main EXCEPT !.pc = "fork", !.w = k + 1]
    <3>1. \/ k = W - 1 /\ next.pc = "accept"
          \/ next.pc = "fork" /\ next.w = k + 1
      BY DEF Types
    <3>2. main'.pc = next.pc /\ main'.w = next.w
      BY <1>3 DEF AcceptInternal, Types
    <3> QED
      BY <3>1, <3>2
  <2>4. wpc' = wpc /\ \A j \in Workers \ {k} : ends'[j] = ends[j]
    BY <1>3 DEF AcceptInternal, Types
  <2> QED
    BY <2>1, <2>2, <2>3, <2>4 DEF Starting, Types, Workers
<1>4. CASE Accept
  BY <1>4 DEF Accept, Starting, Types
<1>5. CASE SendFd
  <2>1. CASE ParentEnds
    BY <2>1, EndsStarting DEF ParentEnds, Types
  <2>2. CASE main' = [main EXCEPT !.pc = "accept", !.slave = None] /\ UNCHANGED <<ends, worker>>
    BY <1>5, <2>2 DEF SendFd, Starting, Types
  <2> QED
    BY <1>5, <2>1, <2>2 DEF SendFd
<1>6. CASE KillParent
  BY <1>6, EndsStarting DEF KillParent, ParentEnds, Types
<1>7. ASSUME NEW k \in Workers, WorkerNext(k) PROVE Starting'
  <2>1. CASE ConnectInternal(k)
    <3>1. wpc[k] # "unborn" /\ wpc'[k] = "recv_fd" /\ main' = main
      BY <2>1 DEF ConnectInternal, Types
    <3>2. \A j \in Workers \ {k} : wpc'[j] = wpc[j] /\ ends'[j] = ends[j]
      BY <2>1 DEF ConnectInternal, Types
    <3> QED
      BY <3>1, <3>2, RunStarting
  <2>2. CASE WorkerEnds(k) /\ wpc[k] # "unborn" /\ main' = main
    BY <2>2, RunStarting DEF WorkerEnds, Without, Types
  <2>3. CASE /\ UNCHANGED <<main, ends>> /\ wpc[k] # "unborn"
             /\ \A j \in Workers \ {k} : wpc'[j] = wpc[j]
             /\ wpc'[k] \notin {"unborn", "forked"}
    BY <2>3, RunStarting
  <2>4. RecvFd(k) \/ Recv(k) \/ Release(k) \/ Lock(k) \/ (Send(k) /\ ~broken[k]) => <2>3!1
    BY DEF RecvFd, Recv, Release, Released, Lock, Send, Types
  <2>5. Leave(k) \/ Kill(k) \/ (Send(k) /\ broken[k]) => <2>2!1
    BY DEF Leave, Kill, Alive, Send
  <2> QED
    BY <1>7, <2>1, <2>2, <2>3, <2>4, <2>5 DEF WorkerNext, WorkerStep
<1>8. CASE UNCHANGED vars
  BY <1>8 DEF vars, Starting
<1> QED
  BY <1>1, <1>2, <1>3, <1>4, <1>5, <1>6, <1>7, <1>8 DEF Next, ParentStep, WorkerNext

--------------------------------------------------------------------------------
(* Units, step by step *)

LEMMA UnitsStep == Types /\ Starting /\ Units /\ [Next]_vars => Units'
<1> SUFFICES ASSUME Types, Starting, Units, [Next]_vars PROVE Units'
  OBVIOUS
<1> USE DEF clients, worker, locks
<1>1. ASSUME NEW c \in Clients, Connect(c) \/ Speak(c) \/ Hang(c) PROVE Units'
  BY <1>1, UnitsKept DEF Connect, Speak, Hang
<1>2. CASE Fork
  <2>1. main.w \in Workers /\ wpc[main.w] = "unborn" /\ wpc' = [wpc EXCEPT ![main.w] = "forked"]
    BY <1>2 DEF Fork, Starting, Types, Workers
  <2>2. \A j \in Workers : wpc[j] = "inside" => wpc'[j] = "inside"
    BY <2>1 DEF Types
  <2> QED
    BY <1>2, <2>2, UnitsKept DEF Fork
<1>3. CASE AcceptInternal \/ Accept
  BY <1>3, UnitsKept DEF AcceptInternal, Accept
<1>4. ASSUME ParentEnds PROVE Units'
  <2>1. sem' = sem \/ sem' = 0
    BY <1>4 DEF ParentEnds, ParentUndo, Units
  <2> QED
    BY <1>4, <2>1, UnitsKept DEF ParentEnds
<1>5. CASE SendFd
  <2>1. CASE UNCHANGED <<worker, locks>>
    BY <2>1, UnitsKept
  <2> QED
    BY <1>4, <1>5, <2>1 DEF SendFd
<1>6. CASE KillParent
  BY <1>4, <1>6 DEF KillParent
<1>7. ASSUME NEW k \in Workers, WorkerNext(k) PROVE Units'
  <2>1. CASE /\ wpc[k] # "inside" /\ held' = held /\ sem' = sem
             /\ \A j \in Workers \ {k} : wpc'[j] = wpc[j]
    BY <2>1, UnitsKept
  <2>2. CASE sem' = sem + held[k] /\ held' = [held EXCEPT ![k] = 0] /\ \A j \in Workers \ {k} : wpc'[j] = wpc[j]
    BY <2>2, UnitsBack
  <2>3. ConnectInternal(k) \/ RecvFd(k) \/ Recv(k) \/ (Send(k) /\ ~broken[k]) => <2>1!1
    BY DEF ConnectInternal, RecvFd, Recv, Send, Types
  <2>4. wpc[k] # "inside" => sem = sem + held[k]
    BY DEF Units
  <2>5. Leave(k) \/ (Send(k) /\ broken[k]) => <2>2!1
    BY <2>4 DEF Leave, Send, WorkerEnds, Types
  <2>6. Release(k) \/ Kill(k) => <2>2!1
    BY DEF Release, Released, Kill, Undone, WorkerEnds, Types
  <2>7. CASE Lock(k) /\ present
    BY <2>7, UnitsTaken
  <2>8. Lock(k) /\ ~present => <2>1!1
    BY DEF Lock, Types
  <2> QED
    BY <1>7, <2>1, <2>2, <2>3, <2>5, <2>6, <2>7, <2>8 DEF WorkerNext, WorkerStep
<1>8. CASE UNCHANGED vars
  BY <1>8, UnitsKept DEF vars
<1> QED
  BY <1>1, <1>2, <1>3, <1>5, <1>6, <1>7, <1>8 DEF Next, ParentStep, WorkerNext

--------------------------------------------------------------------------------
(* The life of the set *)

\* The workers the parent has accepted.
Accepted == IF main.pc \in {"fork", "accept_client"} THEN 0 .. main.w - 1 ELSE Workers

\* Who has the server end of a worker's socket.
EndsOpen ==
  main.failed = {} =>
    /\ main.pc # "ended" => \A k \in Accepted : Parent \in ends[k]
    /\ main.pc = "accept_client" /\ wpc[main.w] \notin {"forked", "ended"} => main.w \in ends[main.w]
    /\ \A j, k \in Workers : k < j /\ Alive(j) => j \in ends[k]

\* When the set is removed, and that it is there for whoever has no units.
SetThere ==
  /\ main.failed = {} /\ ~present => main.pc = "ended" /\ ~Alive(W - 1)
  /\ \A k \in Workers : Inside(k) /\ held[k] = 0 => ~present

LEMMA InitEnds == Init => EndsOpen
  BY DEF Init, EndsOpen, Accepted, Alive, Workers

\* The parent ends.
LEMMA EndsParent ==
  ASSUME Types, EndsOpen, ParentEnds
  PROVE  EndsOpen' /\ main'.pc = "ended" /\ main'.failed = main.failed
<1>1. main'.pc = "ended" /\ main'.failed = main.failed
  BY DEF ParentEnds, Types
<1>2. wpc' = wpc /\ ends' = [j \in Workers |-> IF j = Parent THEN ends[j] ELSE ends[j] \ {Parent}]
  BY DEF ParentEnds, Without, worker
<1>3. ASSUME main'.failed = {}, NEW j \in Workers, NEW k \in Workers, k < j, Alive(j)'
      PROVE  j \in ends'[k]
  <2>1. j \in ends[k] /\ j # Parent
    BY <1>1, <1>2, <1>3 DEF EndsOpen, Alive, Workers
  <2> QED
    BY <1>2, <2>1
<1> QED
  BY <1>1, <1>3 DEF EndsOpen

\* A worker's step that touches no server end of the others, or only its own
\* descriptors when it ends.
LEMMA EndsWorker ==
  ASSUME Types, EndsOpen, NEW k \in Workers, main' = main, Alive(k),
         wpc[k] # "forked" \/ wpc'[k] = "ended",
         \A j \in Workers \ {k} : wpc'[j] = wpc[j],
         \/ ends' = ends
         \/ wpc'[k] = "ended" /\ ends' = Without(k)
  PROVE  EndsOpen'
<1>1. \A i \in Workers : \A p : p \in ends[i] /\ (p = k => wpc'[k] # "ended" \/ i = k) => p \in ends'[i]
  BY DEF Without
<1>2. \A j \in Workers : Alive(j)' => Alive(j) /\ (j = k => wpc'[k] # "ended")
  BY DEF Alive
<1> SUFFICES ASSUME main.failed = {} PROVE EndsOpen'
  BY DEF EndsOpen
<1>3. main.pc # "ended" => \A i \in Accepted : Parent \in ends'[i]
  <2>1. Parent # k /\ Accepted \subseteq Workers
    BY DEF Workers, Accepted, Types
  <2> QED
    BY <1>1, <2>1 DEF EndsOpen
<1>4. ASSUME main.pc = "accept_client", wpc'[main.w] \notin {"forked", "ended"}
      PROVE  main.w \in ends'[main.w]
  <2>1. wpc[main.w] \notin {"forked", "ended"}
    BY <1>4 DEF Alive, Types
  <2> QED
    BY <1>1, <1>4, <2>1 DEF EndsOpen, Types
<1>5. \A j, i \in Workers : i < j /\ Alive(j)' => j \in ends'[i]
  BY <1>1, <1>2 DEF EndsOpen
<1> QED
  BY <1>3, <1>4, <1>5 DEF EndsOpen, Accepted

\* Either the parent has its end of the worker in hand and goes on to the next,
\* or it has failed for good.
LEMMA AcceptedOrFailed ==
  ASSUME Types, AcceptInternal
  PROVE  \/ /\ ends' = [ends EXCEPT ![main.w] = {Parent}] /\ main'.failed = main.failed
            /\ \/ main'.pc = "fork" /\ main'.w = main.w + 1
               \/ main'.pc = "accept" /\ main.w = W - 1
         \/ main'.failed # {} /\ main.failed \subseteq main'.failed
<1> DEFINE k == main.w
           next == IF k = W - 1 THEN [main EXCEPT !.pc = "accept"]
                   ELSE [main EXCEPT !.pc = "fork", !.w = k + 1]
<1>1. k \in Nat /\ k + 1 \in Nat
  BY DEF Types, Workers
<1>2. /\ next \in [pc : {"fork", "accept_client", "accept", "send_fd", "ended"},
                   w : Nat, slave : Clients \cup {None}, failed : SUBSET Misread]
      /\ next.failed = main.failed
      /\ \/ next.pc = "fork" /\ next.w = k + 1
         \/ next.pc = "accept" /\ k = W - 1
  <2>1. CASE k = W - 1
    BY <1>1, <2>1 DEF Types
  <2>2. CASE k # W - 1
    BY <1>1, <2>2 DEF Types
  <2> QED
    BY <2>1, <2>2
<1>3. \/ main' = next /\ ends' = [ends EXCEPT ![k] = {Parent}]
      \/ main' = [next EXCEPT !.failed = @ \cup {k}]
  BY DEF AcceptInternal
<1> HIDE DEF next
<1>4. CASE main' = [next EXCEPT !.failed = @ \cup {k}]
  <2>1. main'.failed = next.failed \cup {k}
    BY <1>2, <1>4
  <2> QED
    BY <1>2, <2>1
<1> QED
  BY <1>2, <1>3, <1>4

LEMMA EndsStep == Types /\ Starting /\ EndsOpen /\ [Next]_vars => EndsOpen'
<1> SUFFICES ASSUME Types, Starting, EndsOpen, [Next]_vars PROVE EndsOpen'
  OBVIOUS
<1> USE DEF clients, worker, locks
<1>1. ASSUME UNCHANGED <<main, wpc, ends>> PROVE EndsOpen'
  BY <1>1 DEF EndsOpen, Accepted, Alive
<1>2. CASE Fork
  <2> DEFINE k == main.w
  <2>1. k \in Workers /\ main.pc = "fork" /\ main'.pc = "accept_client" /\ main'.w = k
        /\ main'.failed = main.failed
    BY <1>2 DEF Fork, Types
  <2>2. wpc'[k] = "forked" /\ \A j \in Workers \ {k} : wpc'[j] = wpc[j]
    BY <1>2 DEF Fork, Types
  <2>3. \A i \in Workers : ends'[i] = IF Parent \in ends[i] THEN ends[i] \cup {k} ELSE ends[i]
    BY <1>2 DEF Fork
  <2> SUFFICES ASSUME main.failed = {} PROVE EndsOpen'
    BY <2>1 DEF EndsOpen
  <2>4. Accepted' = 0 .. k - 1 /\ \A i \in 0 .. k - 1 : Parent \in ends[i] /\ i \in Workers
    BY <2>1 DEF Accepted, EndsOpen, Workers
  <2>5. ASSUME NEW j \in Workers, NEW i \in Workers, i < j, Alive(j)' PROVE j \in ends'[i]
    <3>1. CASE j = k
      <4>1. i \in 0 .. k - 1
        BY <2>1, <2>5, <3>1 DEF Workers
      <4> QED
        BY <2>3, <2>4, <3>1, <4>1
    <3>2. CASE j # k
      <4>1. Alive(j)
        BY <2>2, <2>5, <3>2 DEF Alive
      <4> QED
        BY <2>3, <2>5, <4>1 DEF EndsOpen
    <3> QED
      BY <3>1, <3>2
  <2> QED
    BY <2>1, <2>2, <2>3, <2>4, <2>5 DEF EndsOpen
<1>3. CASE AcceptInternal
  <2> DEFINE k == main.w
  <2>1. k \in Workers /\ main.pc = "accept_client" /\ wpc' = wpc
    BY <1>3 DEF AcceptInternal, Types
  <2>2. CASE main'.failed # {}
    BY <2>2 DEF EndsOpen
  <2>3. CASE main'.failed = {}
    <3>1. /\ ends' = [ends EXCEPT ![k] = {Parent}] /\ main.failed = {}
          /\ \/ main'.pc = "fork" /\ main'.w = k + 1
             \/ main'.pc = "accept" /\ k = W - 1
      BY <1>3, <2>3, AcceptedOrFailed
    <3>2. Accepted' = 0 .. k
      <4>1. k \in Nat /\ (k + 1) - 1 = k
        BY <2>1 DEF Workers
      <4>2. CASE main'.pc = "fork" /\ main'.w = k + 1
        BY <4>1, <4>2 DEF Accepted
      <4>3. CASE main'.pc = "accept" /\ k = W - 1
        BY <4>3 DEF Accepted, Workers
      <4> QED
        BY <3>1, <4>2, <4>3
    <3>3. \A i \in Accepted' : Parent \in ends'[i]
      <4>1. Accepted = 0 .. k - 1 /\ \A i \in Accepted : Parent \in ends[i]
        BY <2>1, <3>1 DEF EndsOpen, Accepted
      <4>2. \A i \in Accepted' : i \in Workers /\ (i # k => i \in Accepted)
        BY <2>1, <3>2, <4>1 DEF Workers
      <4>3. \A i \in Workers : ends'[i] = IF i = k THEN {Parent} ELSE ends[i]
        BY <3>1 DEF Types
      <4> QED
        BY <4>1, <4>2, <4>3
    <3>4. ASSUME NEW j \in Workers, NEW i \in Workers, i < j, Alive(j)' PROVE j \in ends'[i]
      <4>1. i # k
        BY <2>1, <3>4 DEF Starting, Alive
      <4> QED
        BY <2>1, <3>1, <3>4, <4>1 DEF EndsOpen, Alive
    <3> QED
      BY <3>1, <3>3, <3>4 DEF EndsOpen
  <2> QED
    BY <2>2, <2>3
<1>4. CASE Accept
  <2>1. main'.failed = main.failed /\ main.pc = "accept" /\ main'.pc = "send_fd" /\ UNCHANGED <<wpc, ends>>
    BY <1>4 DEF Accept, Types
  <2> QED
    BY <2>1 DEF EndsOpen, Accepted, Alive
<1>5. CASE SendFd
  <2>1. CASE ParentEnds
    BY <2>1, EndsParent
  <2>2. CASE main' = [main EXCEPT !.pc = "accept", !.slave = None] /\ UNCHANGED <<ends, worker>>
    <3>1. main'.failed = main.failed /\ main.pc = "send_fd" /\ main'.pc = "accept"
      BY <1>5, <2>2 DEF SendFd, Types
    <3> QED
      BY <2>2, <3>1 DEF EndsOpen, Accepted, Alive
  <2> QED
    BY <1>5, <2>1, <2>2 DEF SendFd
<1>6. CASE KillParent
  BY <1>6, EndsParent DEF KillParent
<1>7. ASSUME NEW k \in Workers, WorkerNext(k) PROVE EndsOpen'
  <2>1. CASE ConnectInternal(k)
    <3>1. wpc[k] = "forked" /\ wpc' = [wpc EXCEPT ![k] = "recv_fd"] /\ ends' = [ends EXCEPT ![k] = {k}] /\ main' = main
      BY <2>1 DEF ConnectInternal
    <3>2. main.pc = "ended" \/ (main.pc = "accept_client" /\ k = main.w)
      BY <3>1 DEF Starting
    <3>3. \A j \in Workers : k < j => ~Alive(j)
      BY <3>1 DEF Starting, Alive, Workers
    <3>4. \A j \in Workers : Alive(j)' => Alive(j)
      BY <3>1 DEF Alive, Types
    <3>5. k \notin Accepted \/ main.pc = "ended"
      BY <3>2 DEF Accepted, Workers
    <3> SUFFICES ASSUME main.failed = {} PROVE EndsOpen'
      BY <3>1 DEF EndsOpen
    <3>6. \A i \in Workers : i # k => ends'[i] = ends[i]
      BY <3>1 DEF Types
    <3>7. k \in ends'[k]
      BY <3>1 DEF Types
    <3>8. main.pc # "ended" => \A i \in Accepted : Parent \in ends'[i]
      <4>1. \A i \in Accepted : i \in Workers
        BY DEF Accepted, Workers, Types
      <4> QED
        BY <3>5, <3>6, <4>1 DEF EndsOpen
    <3>9. \A j, i \in Workers : i < j /\ Alive(j)' => j \in ends'[i]
      BY <3>3, <3>4, <3>6 DEF EndsOpen
    <3>10. Accepted' = Accepted
      BY <3>1 DEF Accepted
    <3> QED
      BY <3>1, <3>2, <3>7, <3>8, <3>9, <3>10 DEF EndsOpen
  <2>2. CASE WorkerEnds(k) /\ Alive(k) /\ main' = main
    <3>1. wpc'[k] = "ended" /\ \A j \in Workers \ {k} : wpc'[j] = wpc[j]
      BY <2>2 DEF WorkerEnds, Types
    <3> QED
      BY <2>2, <3>1, EndsWorker DEF WorkerEnds
  <2>3. CASE /\ UNCHANGED <<main, ends>> /\ Alive(k) /\ wpc[k] # "forked"
             /\ \A j \in Workers \ {k} : wpc'[j] = wpc[j]
    BY <2>3, EndsWorker
  <2>4. RecvFd(k) \/ Recv(k) \/ Release(k) \/ Lock(k) \/ (Send(k) /\ ~broken[k]) => <2>3!1
    BY DEF RecvFd, Recv, Release, Released, Lock, Send, Types, Alive
  <2>5. Leave(k) \/ Kill(k) \/ (Send(k) /\ broken[k]) => <2>2!1
    BY DEF Leave, Kill, Alive, Send
  <2> QED
    BY <1>7, <2>1, <2>2, <2>3, <2>4, <2>5 DEF WorkerNext, WorkerStep
<1>8. CASE UNCHANGED vars
  BY <1>1, <1>8 DEF vars
<1>9. ASSUME NEW c \in Clients, Connect(c) \/ Speak(c) \/ Hang(c) PROVE EndsOpen'
  BY <1>1, <1>9 DEF Connect, Speak, Hang
<1> QED
  BY <1>2, <1>3, <1>4, <1>5, <1>6, <1>7, <1>8, <1>9 DEF Next, ParentStep, WorkerNext

LEMMA InitSet == Created /\ Init => SetThere
  BY DEF Init, SetThere, Inside

LEMMA SetThereStep ==
  Types /\ Starting /\ Units /\ EndsOpen /\ SetThere /\ [Next]_vars => SetThere'
<1> SUFFICES ASSUME Types, Starting, Units, EndsOpen, SetThere, [Next]_vars PROVE SetThere'
  OBVIOUS
<1> USE DEF clients, worker, locks
\* What the parent does: it fails no less, comes back from no end and lets no
\* dead worker live.
<1>1. ASSUME UNCHANGED <<present, held>>, main.failed \subseteq main'.failed,
             main.pc = "ended" => main'.pc = "ended" /\ wpc' = wpc,
             \A k \in Workers : Inside(k)' => Inside(k)
      PROVE  SetThere'
  BY <1>1 DEF SetThere, Alive
<1>2. ASSUME NEW c \in Clients, Connect(c) \/ Speak(c) \/ Hang(c) PROVE SetThere'
  BY <1>1, <1>2 DEF Connect, Speak, Hang, Inside
<1>3. CASE Fork
  <2>1. main.pc = "fork" /\ main'.failed = main.failed
    BY <1>3 DEF Fork, Types
  <2>2. \A k \in Workers : Inside(k)' => Inside(k)
    BY <1>3 DEF Fork, Types, Inside
  <2> QED
    BY <1>1, <1>3, <2>1, <2>2 DEF Fork
<1>4. CASE AcceptInternal
  <2>1. main.failed \subseteq main'.failed
    BY <1>4, AcceptedOrFailed
  <2> QED
    BY <1>1, <1>4, <2>1 DEF AcceptInternal, Inside
<1>5. CASE Accept
  <2>1. main'.failed = main.failed
    BY <1>5 DEF Accept, Types
  <2> QED
    BY <1>1, <1>5, <2>1 DEF Accept, Inside
<1>6. ASSUME ParentEnds PROVE SetThere'
  <2>1. main'.failed = main.failed /\ main'.pc = "ended"
    BY <1>6, EndsParent
  <2> QED
    BY <1>1, <1>6, <2>1 DEF ParentEnds, Inside
<1>7. CASE SendFd
  <2>1. CASE main' = [main EXCEPT !.pc = "accept", !.slave = None] /\ UNCHANGED <<worker, locks>>
    <3>1. main'.failed = main.failed /\ main.pc = "send_fd"
      BY <1>7, <2>1 DEF SendFd, Types
    <3> QED
      BY <1>1, <2>1, <3>1 DEF Inside
  <2> QED
    BY <1>6, <1>7, <2>1 DEF SendFd
<1>8. ASSUME NEW k \in Workers, WorkerNext(k) PROVE SetThere'
  <2>1. main' = main /\ wpc[k] # "unborn" /\ Alive(k) /\ \A j \in Workers \ {k} : wpc'[j] = wpc[j]
    BY <1>8 DEF WorkerNext, WorkerStep, ConnectInternal, RecvFd, Leave, Recv, Release, Released, Send, Lock, Kill,
                WorkerEnds, Types, Alive
  <2>2. \A j \in Workers : Alive(j)' => Alive(j)
    BY <2>1 DEF Alive
  <2>3. W - 1 \in Workers
    BY DEF Workers
  <2>4. CASE Leave(k)
    <3>1. wpc[k] = "recv_fd" /\ ends[k] = {} /\ wpc' = [wpc EXCEPT ![k] = "ended"]
          /\ held' = [held EXCEPT ![k] = 0] /\ (~ present => ~ present')
      BY <2>4 DEF Leave, Eof, WorkerEnds
    <3>2. ASSUME main.failed = {} PROVE main.pc = "ended" /\ ~Alive(W - 1)'
      <4>1. main.pc = "ended"
        <5>1. main.w \in Nat /\ k \in Nat
          BY DEF Workers, Types
        <5>2. main.pc = "fork" => k < main.w
          BY <3>1, <5>1 DEF Starting
        <5>3. main.pc = "accept_client" => k <= main.w
          BY <3>1, <5>1 DEF Starting
        <5>4. main.pc # "ended" => k \notin Accepted
          BY <3>1, <3>2 DEF EndsOpen
        <5>5. main.pc = "accept_client" => k # main.w
          BY <3>1, <3>2 DEF EndsOpen
        <5>6. main.pc # "ended" => k \in Accepted
          BY <5>1, <5>2, <5>3, <5>5 DEF Accepted
        <5> QED
          BY <5>4, <5>6
      <4>2. CASE k = W - 1
        <5>1. wpc'[k] = "ended"
          BY <3>1 DEF Types
        <5> QED
          BY <4>1, <4>2, <5>1 DEF Alive
      <4>3. CASE k # W - 1
        <5>1. k < W - 1 /\ W - 1 \notin ends[k]
          BY <3>1, <4>3 DEF Workers
        <5>2. ~Alive(W - 1)
          BY <2>3, <3>2, <5>1 DEF EndsOpen
        <5> QED
          BY <2>2, <2>3, <4>1, <5>2 DEF Alive
      <4> QED
        BY <4>1, <4>2, <4>3
    <3>3. ASSUME NEW j \in Workers, Inside(j)', held'[j] = 0 PROVE ~ present'
      <4>1. j # k /\ wpc[j] = "inside" /\ held[j] = 0
        BY <3>1, <3>3 DEF Inside, Types
      <4> QED
        BY <3>1, <4>1 DEF SetThere, Inside
    <3> QED
      BY <2>1, <3>1, <3>2, <3>3 DEF SetThere
  <2>5. CASE ~Leave(k)
    <3>1. present' = present
      BY <1>8, <2>5 DEF WorkerNext, WorkerStep, ConnectInternal, RecvFd, Recv, Release, Released, Send, Lock, Kill
    <3>2. ASSUME NEW j \in Workers, Inside(j)', held'[j] = 0 PROVE ~present
      <4>1. CASE j = k
        <5>1. CASE Lock(k) /\ present
          <6>1. held'[k] = Weight(k) /\ Weight(k) > 0
            BY <5>1, WeightIs DEF Lock, Units
          <6> QED
            BY <3>2, <4>1, <6>1
        <5>2. ~Lock(k) => wpc'[k] # "inside"
          BY <1>8 DEF WorkerNext, WorkerStep, ConnectInternal, RecvFd, Leave, Recv, Release, Released, Send, Kill,
                      WorkerEnds, Types
        <5> QED
          BY <3>2, <4>1, <5>1, <5>2 DEF Inside
      <4>2. CASE j # k
        <5>1. held'[j] = held[j]
          BY <1>8, <4>2 DEF WorkerNext, WorkerStep, ConnectInternal, RecvFd, Leave, Recv, Release, Released, Send, Lock,
                            Kill, WorkerEnds, Units
        <5> QED
          BY <2>1, <3>2, <4>2, <5>1 DEF SetThere, Inside
      <4> QED
        BY <4>1, <4>2
    <3> QED
      BY <2>1, <2>2, <2>3, <3>1, <3>2 DEF SetThere
  <2> QED
    BY <2>4, <2>5
<1>9. CASE KillParent
  BY <1>6, <1>9 DEF KillParent
<1>10. CASE UNCHANGED vars
  BY <1>1, <1>10 DEF vars, Inside
<1> QED
  BY <1>2, <1>3, <1>4, <1>5, <1>7, <1>8, <1>9, <1>10 DEF Next, ParentStep, WorkerNext

--------------------------------------------------------------------------------
(* Connections *)

\* A connection is in one place at most: once in the backlog, in the parent's
\* hands, once in the queue of one worker or in the hands of one worker; and
\* nowhere before its client has connected.
Single ==
  /\ \A i, j \in DOMAIN backlog : backlog[i] = backlog[j] => i = j
  /\ \A i \in DOMAIN backlog : backlog[i] # main.slave
  /\ \A i \in DOMAIN backlog, l \in Workers : backlog[i] # cur[l]
  /\ \A i \in DOMAIN backlog, l \in Workers : \A j \in DOMAIN queue[l] : backlog[i] # queue[l][j]
  /\ \A k, l \in Workers : \A i \in DOMAIN queue[k], j \in DOMAIN queue[l] :
       queue[k][i] = queue[l][j] => k = l /\ i = j
  /\ \A l \in Workers : \A j \in DOMAIN queue[l] : queue[l][j] # main.slave
  /\ \A k, l \in Workers : \A j \in DOMAIN queue[l] : queue[l][j] # cur[k]
  /\ \A k \in Workers : cur[k] \in Clients => cur[k] # main.slave
  /\ \A k, l \in Workers : cur[k] \in Clients /\ cur[k] = cur[l] => k = l

\* Nobody has a client that has not connected.
Away ==
  \A c \in Clients : link[c].end = "away" =>
    /\ c # main.slave
    /\ \A i \in DOMAIN backlog : backlog[i] # c
    /\ \A l \in Workers : cur[l] # c
    /\ \A l \in Workers : \A j \in DOMAIN queue[l] : queue[l][j] # c

LEMMA InitSingle == Init => Single /\ Away
  BY DEF Init, Single, Away

LEMMA AppendAt ==
  ASSUME NEW S, NEW s \in Seq(S), NEW x \in S
  PROVE  \A i \in DOMAIN Append(s, x) :
           \/ i \in DOMAIN s /\ Append(s, x)[i] = s[i]
           \/ i = Len(s) + 1 /\ Append(s, x)[i] = x
  OBVIOUS

LEMMA TailAt ==
  ASSUME NEW S, NEW s \in Seq(S), s # <<>>
  PROVE  /\ 1 \in DOMAIN s /\ Head(s) = s[1]
         /\ \A i \in DOMAIN Tail(s) : i \in Nat /\ i + 1 \in DOMAIN s /\ i + 1 # 1 /\ Tail(s)[i] = s[i + 1]
  OBVIOUS

\* Closing descriptors keeps the rest where it is.
LEMMA Closes ==
  ASSUME Types, Single, Away,
         backlog' = backlog \/ backlog' = <<>>,
         \A l \in Workers : queue'[l] = queue[l] \/ queue'[l] = <<>>,
         main'.slave = main.slave \/ main'.slave = None,
         \A l \in Workers : cur'[l] = cur[l] \/ cur'[l] = None,
         \A c \in Clients : link'[c].end = "away" => link[c].end = "away"
  PROVE  Single' /\ Away'
<1>1. /\ \A i \in DOMAIN backlog' : i \in DOMAIN backlog /\ backlog'[i] = backlog[i] /\ backlog[i] \in Clients
      /\ \A l \in Workers : \A j \in DOMAIN queue'[l] :
           j \in DOMAIN queue[l] /\ queue'[l][j] = queue[l][j] /\ queue[l][j] \in Clients
  <2>1. DOMAIN <<>> = {}
    OBVIOUS
  <2>2. \A i \in DOMAIN backlog : backlog[i] \in Clients
    BY DEF Types
  <2>3. \A l \in Workers : \A j \in DOMAIN queue[l] : queue[l][j] \in Clients
    BY DEF Types
  <2> QED
    BY <2>1, <2>2, <2>3
<1>2. /\ main'.slave \in Clients => main'.slave = main.slave
      /\ \A l \in Workers : cur'[l] \in Clients => cur'[l] = cur[l]
  OBVIOUS
<1>3. Single'
  BY <1>1, <1>2 DEF Single
<1>4. Away'
  BY <1>1, <1>2 DEF Away
<1> QED
  BY <1>3, <1>4

LEMMA SingleStep == Types /\ Single /\ Away /\ [Next]_vars => Single' /\ Away'
<1> SUFFICES ASSUME Types, Single, Away, [Next]_vars PROVE Single' /\ Away'
  OBVIOUS
<1> USE DEF clients, worker, locks
<1>0. /\ \A i \in DOMAIN backlog : backlog[i] \in Clients
      /\ \A l \in Workers : \A j \in DOMAIN queue[l] : queue[l][j] \in Clients
  BY DEF Types
<1>00. \A k, l \in Workers : \A i \in DOMAIN queue[k], j \in DOMAIN queue[l] :
        queue[k][i] = queue[l][j] => k = l /\ i = j
  BY DEF Single
<1>1. ASSUME NEW c \in Clients, Connect(c) PROVE Single' /\ Away'
  <2>1. /\ link[c].end = "away" /\ backlog' = Append(backlog, c) /\ UNCHANGED <<main, cur, queue>>
        /\ link' = [link EXCEPT ![c].end = "up"]
    BY <1>1 DEF Connect
  <2>2. backlog \in Seq(Clients)
    BY DEF Types
  <2>3. \A i \in DOMAIN backlog' :
          \/ i \in DOMAIN backlog /\ backlog'[i] = backlog[i]
          \/ i = Len(backlog) + 1 /\ backlog'[i] = c
    BY <2>1, <2>2, AppendAt
  <2>4. /\ c # main.slave /\ \A i \in DOMAIN backlog : backlog[i] # c
        /\ \A l \in Workers : cur[l] # c /\ \A j \in DOMAIN queue[l] : queue[l][j] # c
    BY <2>1 DEF Away
  <2>5. \A d \in Clients : link'[d].end = "away" => d # c /\ link[d].end = "away"
    BY <2>1 DEF Types
  <2>6. Single'
    BY <2>1, <2>3, <2>4 DEF Single
  <2>7. Away'
    BY <2>1, <2>3, <2>5 DEF Away
  <2> QED
    BY <2>6, <2>7
<1>2. ASSUME NEW c \in Clients, Speak(c) \/ Hang(c) PROVE Single' /\ Away'
  <2>1. \A d \in Clients : link'[d].end = "away" => link[d].end = "away"
    <3>1. \A d \in Clients : d # c => link'[d] = link[d]
      BY <1>2 DEF Speak, Hang, Types
    <3>2. link[c].end = "up"
      BY <1>2 DEF Speak, Hang
    <3>3. link'[c].end # "away"
      <4>1. link[c] \in [end : {"away", "up", "closed", "reset"}, sent : Nat] /\ c \in DOMAIN link
        BY DEF Types
      <4>2. CASE Speak(c)
        <5>1. link'[c] = [link[c] EXCEPT !.sent = @ + 1]
          BY <4>1, <4>2 DEF Speak
        <5> QED
          BY <3>2, <4>1, <5>1
      <4>3. CASE Hang(c)
        <5>1. \E e \in {"closed", "reset"} : link'[c] = [link[c] EXCEPT !.end = e]
          BY <4>1, <4>3 DEF Hang
        <5> QED
          BY <4>1, <5>1
      <4> QED
        BY <1>2, <4>2, <4>3
    <3> QED
      BY <3>1, <3>3
  <2> QED
    BY <1>2, <2>1, Closes DEF Speak, Hang
<1>3. CASE Fork \/ AcceptInternal
  <2>1. main'.slave = main.slave
    <3>1. CASE Fork
      BY <3>1 DEF Fork, Types
    <3>2. CASE AcceptInternal
      BY <3>2, AcceptedOrFailed DEF AcceptInternal, Types
    <3> QED
      BY <1>3, <3>1, <3>2
  <2> QED
    BY <1>3, <2>1, Closes DEF Fork, AcceptInternal
<1>4. CASE Accept
  <2>1. backlog # <<>> /\ main'.slave = Head(backlog) /\ backlog' = Tail(backlog) /\ UNCHANGED <<link, cur, queue>>
    BY <1>4 DEF Accept, Types
  <2>2. 1 \in DOMAIN backlog /\ main'.slave = backlog[1]
    BY <2>1 DEF Types
  <2>3. \A i \in DOMAIN backlog' : i + 1 \in DOMAIN backlog /\ i + 1 # 1 /\ backlog'[i] = backlog[i + 1] /\ i \in Nat
    BY <2>1 DEF Types
  <2>4. Single'
    BY <1>0, <2>1, <2>2, <2>3 DEF Single
  <2>5. Away'
    BY <2>1, <2>2, <2>3 DEF Away
  <2> QED
    BY <2>4, <2>5
<1>5. ASSUME ParentEnds PROVE Single' /\ Away'
  <2>1. main'.slave = None
    BY <1>5 DEF ParentEnds, Types
  <2> QED
    BY <1>5, <2>1, Closes DEF ParentEnds
<1>6. CASE SendFd
  <2>1. CASE main' = [main EXCEPT !.pc = "accept", !.slave = None] /\ UNCHANGED <<clients, queue, worker>>
    <3>1. main'.slave = None
      BY <2>1 DEF Types
    <3> QED
      BY <2>1, <3>1, Closes
  <2>2. CASE /\ main' = [main EXCEPT !.pc = "accept", !.slave = None] /\ UNCHANGED <<clients, worker>>
             /\ queue' = [queue EXCEPT ![main.w] = Append(@, main.slave)]
    <3> DEFINE k == main.w
               n == Len(queue[k])
    <3>1. main'.slave = None /\ main.slave \in Clients /\ k \in Workers
      BY <1>6, <2>2 DEF SendFd, Types
    <3>2. queue[k] \in Seq(Clients) /\ queue'[k] = Append(queue[k], main.slave)
      BY <2>2, <3>1 DEF Types
    <3>3. \A j \in DOMAIN queue'[k] :
            \/ j \in DOMAIN queue[k] /\ queue'[k][j] = queue[k][j]
            \/ j = n + 1 /\ queue'[k][j] = main.slave
      BY <3>1, <3>2
    <3>4. \A l \in Workers \ {k} : queue'[l] = queue[l]
      BY <2>2 DEF Types
    <3>5. \A l \in Workers : \A j \in DOMAIN queue'[l] :
            \/ j \in DOMAIN queue[l] /\ queue'[l][j] = queue[l][j]
            \/ l = k /\ j = n + 1 /\ queue'[l][j] = main.slave
      BY <3>3, <3>4
    <3> HIDE DEF n, k
    <3>6. Single'
      <4>1. \A l \in Workers : \A j \in DOMAIN queue'[l] : queue'[l][j] \in Clients
        BY <1>0, <3>1, <3>5
      <4>2. \A i \in DOMAIN backlog, l \in Workers : \A j \in DOMAIN queue'[l] : backlog[i] # queue'[l][j]
        BY <3>5 DEF Single
      <4>3. ASSUME NEW x \in Workers, NEW l \in Workers, NEW i \in DOMAIN queue'[x], NEW j \in DOMAIN queue'[l],
                   queue'[x][i] = queue'[l][j]
            PROVE  x = l /\ i = j
        <5>1. CASE i \in DOMAIN queue[x] /\ queue'[x][i] = queue[x][i]
          <6>1. queue[x][i] # main.slave
            BY <5>1 DEF Single
          <6>2. j \in DOMAIN queue[l] /\ queue'[l][j] = queue[l][j]
            BY <3>5, <4>3, <5>1, <6>1
          <6> QED
            <7>1. queue[x][i] = queue[l][j] /\ i \in DOMAIN queue[x] /\ j \in DOMAIN queue[l]
              BY <4>3, <5>1, <6>2
            <7> QED
              BY <1>00, <7>1, Zenon
        <5>2. CASE x = k /\ i = n + 1 /\ queue'[x][i] = main.slave
          <6>1. ~(j \in DOMAIN queue[l] /\ queue'[l][j] = queue[l][j])
            BY <4>3, <5>2 DEF Single
          <6> QED
            BY <3>5, <5>2, <6>1
        <5> QED
          BY <3>5, <5>1, <5>2
      <4>4. \A x, l \in Workers : \A j \in DOMAIN queue'[l] : queue'[l][j] # cur[x]
        BY <3>1, <3>5 DEF Single
      <4> QED
        <5>1. UNCHANGED <<backlog, cur>>
          BY <2>2
        <5>2. /\ \A i, j \in DOMAIN backlog : backlog[i] = backlog[j] => i = j
              /\ \A i \in DOMAIN backlog, l \in Workers : backlog[i] # cur[l]
              /\ \A x, l \in Workers : cur[x] \in Clients /\ cur[x] = cur[l] => x = l
          BY DEF Single
        <5>3. /\ \A i \in DOMAIN backlog : backlog[i] # main'.slave
              /\ \A l \in Workers : \A j \in DOMAIN queue'[l] : queue'[l][j] # main'.slave
              /\ \A x \in Workers : cur[x] \in Clients => cur[x] # main'.slave
          BY <1>0, <3>1, <4>1
        <5> QED
          BY <4>2, <4>3, <4>4, <5>1, <5>2, <5>3 DEF Single
    <3>7. Away'
      BY <2>2, <3>1, <3>5 DEF Away
    <3> QED
      BY <3>6, <3>7
  <2> QED
    BY <1>5, <1>6, <2>1, <2>2 DEF SendFd
<1>7. CASE KillParent
  BY <1>5, <1>7 DEF KillParent
<1>8. ASSUME NEW k \in Workers, WorkerNext(k) PROVE Single' /\ Away'
  <2>1. CASE RecvFd(k)
    <3>1. /\ queue[k] # <<>> /\ queue[k] \in Seq(Clients) /\ queue'[k] = Tail(queue[k])
          /\ cur'[k] = Head(queue[k]) /\ UNCHANGED <<clients, main>>
          /\ \A l \in Workers \ {k} : cur'[l] = cur[l] /\ queue'[l] = queue[l]
      BY <2>1 DEF RecvFd, Types
    <3>2. 1 \in DOMAIN queue[k] /\ cur'[k] = queue[k][1] /\ cur'[k] \in Clients
      BY <3>1
    <3>3. \A j \in DOMAIN queue'[k] : j + 1 \in DOMAIN queue[k] /\ j + 1 # 1 /\ queue'[k][j] = queue[k][j + 1] /\ j \in Nat
      BY <3>1
    <3>4. Single'
      <4>1. ASSUME NEW l \in Workers, NEW j \in DOMAIN queue'[l]
            PROVE  \E m \in DOMAIN queue[l] :
                     queue'[l][j] = queue[l][m] /\ m = (IF l = k THEN j + 1 ELSE j) /\ (l = k => m # 1 /\ j \in Nat)
        <5>1. CASE l = k
          BY <3>3, <5>1
        <5>2. CASE l # k
          BY <3>1, <5>2
        <5> QED
          BY <5>1, <5>2
      <4>2. \A l \in Workers : \A j \in DOMAIN queue'[l] : queue'[l][j] # cur'[k]
        BY <3>2, <4>1 DEF Single
      <4>3. ASSUME NEW x \in Workers, NEW l \in Workers, NEW i \in DOMAIN queue'[x], NEW j \in DOMAIN queue'[l],
                   queue'[x][i] = queue'[l][j]
            PROVE  x = l /\ i = j
        <5>1. PICK a \in DOMAIN queue[x] :
                queue'[x][i] = queue[x][a] /\ a = (IF x = k THEN i + 1 ELSE i) /\ (x = k => a # 1 /\ i \in Nat)
          BY <4>1
        <5>2. PICK b \in DOMAIN queue[l] :
                queue'[l][j] = queue[l][b] /\ b = (IF l = k THEN j + 1 ELSE j) /\ (l = k => b # 1 /\ j \in Nat)
          BY <4>1
        <5>3. x = l /\ a = b
          <6>1. queue[x][a] = queue[l][b]
            BY <4>3, <5>1, <5>2
          <6> QED
            BY <1>00, <6>1, Zenon
        <5> QED
          BY <5>1, <5>2, <5>3
      <4>4. /\ \A i \in DOMAIN backlog, l \in Workers : \A j \in DOMAIN queue'[l] : backlog[i] # queue'[l][j]
            /\ \A l \in Workers : \A j \in DOMAIN queue'[l] : queue'[l][j] # main.slave
            /\ \A x, l \in Workers : x # k => \A j \in DOMAIN queue'[l] : queue'[l][j] # cur'[x]
        <5>1. /\ \A i \in DOMAIN backlog, l \in Workers : \A j \in DOMAIN queue[l] : backlog[i] # queue[l][j]
              /\ \A l \in Workers : \A j \in DOMAIN queue[l] : queue[l][j] # main.slave
              /\ \A x, l \in Workers : \A j \in DOMAIN queue[l] : queue[l][j] # cur[x]
          BY DEF Single
        <5>2. \A l \in Workers : \A j \in DOMAIN queue'[l] : \E m \in DOMAIN queue[l] : queue'[l][j] = queue[l][m]
          BY <4>1
        <5>3. \A x \in Workers : x # k => cur'[x] = cur[x]
          BY <3>1
        <5> QED
          BY <5>1, <5>2, <5>3
      <4>5. /\ \A i \in DOMAIN backlog, l \in Workers : backlog[i] # cur'[l]
            /\ \A l \in Workers : cur'[l] \in Clients => cur'[l] # main.slave
            /\ \A x, l \in Workers : cur'[x] \in Clients /\ cur'[x] = cur'[l] => x = l
        <5>1. \A l \in Workers : l # k => cur'[l] = cur[l]
          BY <3>1
        <5>2. \A i \in DOMAIN backlog : backlog[i] # cur'[k]
          BY <3>2 DEF Single
        <5>3. cur'[k] # main.slave /\ \A l \in Workers : cur[l] # cur'[k]
          BY <3>2 DEF Single
        <5>4. /\ \A i \in DOMAIN backlog, l \in Workers : backlog[i] # cur[l]
              /\ \A l \in Workers : cur[l] \in Clients => cur[l] # main.slave
              /\ \A x, l \in Workers : cur[x] \in Clients /\ cur[x] = cur[l] => x = l
          BY DEF Single
        <5> QED
          BY <5>1, <5>2, <5>3, <5>4
      <4>6. UNCHANGED <<backlog, main>>
        BY <3>1
      <4> QED
        BY <4>2, <4>3, <4>4, <4>5, <4>6 DEF Single
    <3>5. Away'
      <4>1. \A l \in Workers, c \in Clients : cur'[l] = c =>
              cur[l] = c \/ \E j \in DOMAIN queue[l] : queue[l][j] = c
        BY <3>1, <3>2
      <4>2. \A l \in Workers : \A j \in DOMAIN queue'[l] : \E m \in DOMAIN queue[l] : queue'[l][j] = queue[l][m]
        BY <3>1, <3>3
      <4> QED
        <5>1. ASSUME NEW c \in Clients, link[c].end = "away"
              PROVE  /\ c # main.slave /\ \A i \in DOMAIN backlog : backlog[i] # c
                     /\ \A l \in Workers : cur'[l] # c
                     /\ \A l \in Workers : \A j \in DOMAIN queue'[l] : queue'[l][j] # c
          <6>1. /\ c # main.slave /\ \A i \in DOMAIN backlog : backlog[i] # c
                /\ \A l \in Workers : cur[l] # c
                /\ \A l \in Workers : \A j \in DOMAIN queue[l] : queue[l][j] # c
            BY <5>1 DEF Away
          <6> QED
            BY <4>1, <4>2, <6>1
        <5>2. UNCHANGED <<link, backlog, main>>
          BY <3>1
        <5> QED
          BY <5>1, <5>2 DEF Away
    <3> QED
      BY <3>4, <3>5
  <2>2. CASE /\ UNCHANGED <<clients, main>>
             /\ \A l \in Workers : queue'[l] = queue[l] \/ queue'[l] = <<>>
             /\ \A l \in Workers : cur'[l] = cur[l] \/ cur'[l] = None
    BY <2>2, Closes
  <2>3. ~RecvFd(k) => <2>2!1
    BY <1>8 DEF WorkerNext, WorkerStep, ConnectInternal, Leave, Recv, Release, Released, Send, Lock, Kill, WorkerEnds, Types
  <2> QED
    BY <2>1, <2>2, <2>3
<1>9. CASE UNCHANGED vars
  BY <1>9, Closes DEF vars
<1> QED
  BY <1>1, <1>2, <1>3, <1>4, <1>6, <1>7, <1>8, <1>9 DEF Next, ParentStep, WorkerNext

--------------------------------------------------------------------------------
(* Requests *)

\* Whoever performs a request has a client, and the units that request takes.
Serving ==
  /\ done = [c \in Clients |-> done[c]]
  /\ \A k \in Workers : wpc[k] \in {"recv", "lock", "inside", "send"} => cur[k] \in Clients
  /\ \A k \in Workers : held[k] > 0 => held[k] = Weight(k)

LEMMA InitServing == Init => Serving
  BY DEF Init, Serving

\* A step that leaves alone what was performed for the clients in hand.
LEMMA ServingKept ==
  ASSUME Types, Units, Serving, done' = done,
         \A k \in Workers : wpc'[k] \in {"recv", "lock", "inside", "send"} => cur'[k] \in Clients,
         \A k \in Workers : held'[k] > 0 => held'[k] = held[k] /\ cur'[k] = cur[k]
  PROVE  Serving'
  BY DEF Serving, Weight, IsSet

LEMMA ServingStep == Types /\ Units /\ Single /\ Serving /\ [Next]_vars => Serving'
<1> SUFFICES ASSUME Types, Units, Single, Serving, [Next]_vars PROVE Serving'
  OBVIOUS
<1> USE DEF clients, worker, locks
<1>1. ASSUME UNCHANGED <<cur, held, done>>,
             \A k \in Workers : wpc'[k] \in {"recv", "lock", "inside", "send"} => wpc[k] = wpc'[k]
      PROVE  Serving'
  <2>1. \A k \in Workers : wpc'[k] \in {"recv", "lock", "inside", "send"} => cur'[k] \in Clients
    BY <1>1 DEF Serving
  <2> QED
    BY <1>1, <2>1, ServingKept
<1>2. ASSUME NEW c \in Clients, Connect(c) \/ Speak(c) \/ Hang(c) PROVE Serving'
  BY <1>1, <1>2 DEF Connect, Speak, Hang
<1>3. CASE Fork
  <2>1. \A k \in Workers : wpc'[k] \in {"recv", "lock", "inside", "send"} => wpc[k] = wpc'[k]
    BY <1>3 DEF Fork, Types
  <2> QED
    BY <1>1, <1>3, <2>1 DEF Fork
<1>4. CASE AcceptInternal \/ Accept \/ SendFd \/ KillParent
  BY <1>1, <1>4 DEF AcceptInternal, Accept, SendFd, KillParent, ParentEnds
<1>5. ASSUME NEW k \in Workers, WorkerNext(k) PROVE Serving'
  <2>1. CASE Recv(k)
    <3> DEFINE c == cur[k]
    <3>1. wpc[k] = "recv" /\ c \in Clients /\ UNCHANGED <<cur, held>>
      BY <2>1 DEF Recv, Serving
    <3>2. /\ \E v : done' = [done EXCEPT ![c] = v]
          /\ wpc' = [wpc EXCEPT ![k] = "lock"] \/ wpc' = [wpc EXCEPT ![k] = "send"]
      BY <2>1 DEF Recv
    <3>3. done' = [d \in Clients |-> done'[d]] /\ \A d \in Clients : d # c => done'[d] = done[d]
      BY <3>2 DEF Serving
    <3>4. \A j \in Workers : wpc'[j] \in {"recv", "lock", "inside", "send"} => cur'[j] \in Clients
      BY <3>1, <3>2 DEF Serving, Types
    <3>5. ASSUME NEW j \in Workers, held[j] > 0 PROVE held[j] = Weight(j)'
      <4>1. wpc[j] = "inside" /\ cur[j] \in Clients
        BY <3>5 DEF Units, Serving
      <4>2. cur[j] # c
        BY <3>1, <4>1 DEF Single
      <4>3. done'[cur[j]] = done[cur[j]] /\ cur' = cur
        BY <3>1, <3>3, <4>1, <4>2
      <4> QED
        BY <3>5, <4>3 DEF Serving, Weight, IsSet
    <3> QED
      BY <3>1, <3>3, <3>4, <3>5 DEF Serving
  <2>2. CASE Lock(k) /\ present
    <3>1. /\ wpc[k] = "lock" /\ wpc' = [wpc EXCEPT ![k] = "inside"] /\ UNCHANGED <<cur, done>>
          /\ held' = [held EXCEPT ![k] = Weight(k)]
      BY <2>2 DEF Lock
    <3>2. \A j \in Workers : Weight(j)' = Weight(j)
      BY <3>1 DEF Weight, IsSet
    <3>3. \A j \in Workers : held'[j] > 0 => held'[j] = Weight(j)
      BY <3>1 DEF Serving, Units
    <3>4. \A j \in Workers : wpc'[j] \in {"recv", "lock", "inside", "send"} => cur'[j] \in Clients
      BY <3>1 DEF Serving, Types
    <3> QED
      BY <3>1, <3>2, <3>3, <3>4 DEF Serving
  <2>3. CASE ~Recv(k) /\ ~(Lock(k) /\ present)
    <3>1. done' = done
      BY <1>5, <2>3 DEF WorkerNext, WorkerStep, ConnectInternal, RecvFd, Leave, Release, Released, Send, Lock, Kill
    <3>2. \A j \in Workers \ {k} : wpc'[j] = wpc[j] /\ cur'[j] = cur[j] /\ held'[j] = held[j]
      BY <1>5, <2>3 DEF WorkerNext, WorkerStep, ConnectInternal, RecvFd, Leave, Release, Released, Send, Lock, Kill,
                        WorkerEnds, Types, Units
    <3>3. wpc'[k] \in {"recv", "lock", "inside", "send"} => cur'[k] \in Clients
      <4>1. CASE RecvFd(k)
        <5>1. cur'[k] = Head(queue[k]) /\ queue[k] # <<>> /\ queue[k] \in Seq(Clients)
          BY <4>1 DEF RecvFd, Types
        <5> QED
          BY <5>1
      <4>2. CASE ~RecvFd(k)
        BY <1>5, <2>3, <4>2
        DEF WorkerNext, WorkerStep, ConnectInternal, Leave, Release, Released, Send, Lock, Kill, WorkerEnds, Types, Serving
      <4> QED
        BY <4>1, <4>2
    <3>4. held'[k] > 0 => held'[k] = held[k] /\ cur'[k] = cur[k]
      <4>1. CASE wpc[k] = "inside"
        BY <1>5, <2>3, <4>1
        DEF WorkerNext, WorkerStep, ConnectInternal, RecvFd, Leave, Release, Released, Send, Lock, Kill, WorkerEnds, Units
      <4>2. CASE wpc[k] # "inside"
        <5>1. held[k] = 0
          BY <4>2 DEF Units
        <5>2. held'[k] = 0
          BY <1>5, <2>3, <5>1
          DEF WorkerNext, WorkerStep, ConnectInternal, RecvFd, Leave, Release, Released, Send, Lock, Kill, WorkerEnds, Units
        <5> QED
          BY <5>2
      <4> QED
        BY <4>1, <4>2
    <3>5. \A j \in Workers : wpc'[j] \in {"recv", "lock", "inside", "send"} => cur'[j] \in Clients
      BY <3>2, <3>3 DEF Serving
    <3>6. \A j \in Workers : held'[j] > 0 => held'[j] = held[j] /\ cur'[j] = cur[j]
      BY <3>2, <3>4
    <3> QED
      BY <3>1, <3>5, <3>6, ServingKept
  <2> QED
    BY <2>1, <2>2, <2>3
<1>6. CASE UNCHANGED vars
  BY <1>1, <1>6 DEF vars
<1> QED
  BY <1>2, <1>3, <1>4, <1>5, <1>6 DEF Next, ParentStep, WorkerNext

--------------------------------------------------------------------------------
(* The receive buffer *)

Received == Clients \X Nat

\* A buffer holds pieces of requests, and what was performed for a client whose
\* whole request was read is that request.
Own ==
  /\ buf \in [Workers -> Seq(Received)]
  /\ \A c \in Clients : link[c].sent \in 0 .. Pieces[c]
  /\ \A c \in Clients : done[c] = [line |-> done[c].line, read |-> done[c].read]
  /\ OwnRequest

LEMMA InitOwn == Init => Own
<1> SUFFICES ASSUME Init PROVE Own
  OBVIOUS
<1>1. buf \in [Workers -> Seq(Received)]
  BY DEF Init
<1>2. \A c \in Clients : link[c].sent \in 0 .. Pieces[c] /\ done[c].read # Pieces[c]
  BY DEF Init
<1>3. \A c \in Clients : done[c] = [line |-> done[c].line, read |-> done[c].read]
  BY DEF Init
<1> QED
  BY <1>1, <1>2, <1>3 DEF Own, OwnRequest

\* The pieces that have arrived, and what lies behind them in the buffer.
LEMMA StoredIs ==
  ASSUME NEW c \in Clients, NEW n \in 0 .. Pieces[c], NEW old \in Seq(Received)
  PROVE  LET b == Stored(old, SubSeq(Request(c), 1, n))
         IN  b \in Seq(Received) /\ Len(b) >= n /\ \A i \in 1 .. n : b[i] = <<c, i>>
<1> DEFINE new == SubSeq(Request(c), 1, n)
           rest == SubSeq(old, Len(new) + 1, Len(old))
<1>1. Request(c) \in Seq(Received) /\ Len(Request(c)) = Pieces[c]
  <2>1. Pieces[c] \in Nat /\ \A i \in 1 .. Pieces[c] : <<c, i>> \in Received
    BY DEF Received
  <2> QED
    BY <2>1 DEF Request
<1>2. new \in Seq(Received) /\ Len(new) = n /\ \A i \in 1 .. n : new[i] = <<c, i>>
  <2>1. \A i \in 1 .. n : Request(c)[i] = <<c, i>>
    BY DEF Request
  <2> QED
    BY <1>1, <2>1
<1> HIDE DEF new
<1>3. rest \in Seq(Received) /\ Len(rest) \in Nat
  BY <1>2
<1> HIDE DEF rest
<1>4. /\ new \o rest \in Seq(Received) /\ Len(new \o rest) >= n
      /\ \A i \in 1 .. n : (new \o rest)[i] = <<c, i>>
  BY <1>2, <1>3
<1> QED
  BY <1>4 DEF Stored, new, rest

\* The line of a buffer that begins with a whole request is that request.
LEMMA LineOfWhole ==
  ASSUME NEW c \in Clients, NEW b \in Seq(Received), Len(b) >= Pieces[c],
         \A i \in 1 .. Pieces[c] : b[i] = <<c, i>>
  PROVE  Line(b) = Request(c)
<1> DEFINE I == {i \in 1 .. Len(b) : b[i][2] = Pieces[b[i][1]]}
<1>1. Pieces[c] \in I /\ \A i \in I : Pieces[c] <= i
  <2>1. Pieces[c] \in 1 .. Len(b) /\ b[Pieces[c]] = <<c, Pieces[c]>>
    OBVIOUS
  <2>2. ASSUME NEW i \in I, i < Pieces[c] PROVE FALSE
    <3>1. b[i] = <<c, i>>
      BY <2>2
    <3> QED
      BY <2>2, <3>1
  <2> QED
    BY <2>1, <2>2
<1> HIDE DEF I
<1>2. Min(I) = Pieces[c]
  <2>1. \A x \in I : (\A y \in I : x <= y) => x = Pieces[c]
    <3>1. \A x \in I : x \in Nat
      BY DEF I
    <3> QED
      BY <1>1, <3>1
  <2> QED
    BY <1>1, <2>1 DEF Min
<1>3. Line(b) = SubSeq(b, 1, Pieces[c])
  BY <1>1, <1>2 DEF Line, SelectInSeq, I
<1>4. SubSeq(b, 1, Pieces[c]) = [i \in 1 .. Pieces[c] |-> <<c, i>>]
  OBVIOUS
<1> QED
  BY <1>3, <1>4 DEF Request

LEMMA OwnRecv == ASSUME Types, Serving, Own, NEW k \in Workers, Recv(k) PROVE Own'
<1> DEFINE c == cur[k]
           n == link[c].sent
           b == Stored(buf[k], SubSeq(Request(c), 1, n))
<1>1. c \in Clients /\ n \in 0 .. Pieces[c] /\ link' = link
  BY DEF Recv, Serving, Own, clients
<1>2. b \in Seq(Received) /\ (n = Pieces[c] => Line(b) = Request(c))
  <2>1. b \in Seq(Received) /\ Len(b) >= n /\ \A i \in 1 .. n : b[i] = <<c, i>>
    BY <1>1, StoredIs DEF Own
  <2> QED
    BY <1>1, <2>1, LineOfWhole
<1>3. /\ buf' = [buf EXCEPT ![k] = b]
      /\ \/ done' = [done EXCEPT ![c] = [line |-> Line(b), read |-> n]]
         \/ (\A d \in Clients : Line(b) # Request(d)) /\ done' = [done EXCEPT ![c].read = n]
  BY DEF Recv
<1> HIDE DEF b, n, c
<1>4. buf' \in [Workers -> Seq(Received)]
  BY <1>2, <1>3 DEF Own
<1>5. ASSUME NEW d \in Clients, done'[d].read = Pieces[d] PROVE done'[d].line = Request(d)
  <2>1. CASE d # c
    BY <1>3, <1>5, <2>1 DEF Own, OwnRequest, Serving
  <2>2. CASE d = c
    <3>1. CASE done' = [done EXCEPT ![c] = [line |-> Line(b), read |-> n]]
      BY <1>1, <1>2, <1>5, <2>2, <3>1 DEF Serving
    <3>2. CASE (\A e \in Clients : Line(b) # Request(e)) /\ done' = [done EXCEPT ![c].read = n]
      <4>1. done'[c] = [line |-> done[c].line, read |-> n]
        BY <1>1, <3>2 DEF Serving, Own
      <4> QED
        BY <1>1, <1>2, <1>5, <2>2, <3>2, <4>1
    <3> QED
      BY <1>3, <3>1, <3>2
  <2> QED
    BY <2>1, <2>2
<1>6. ASSUME NEW d \in Clients PROVE done'[d] = [line |-> done'[d].line, read |-> done'[d].read]
  <2>1. done[c] = [line |-> done[c].line, read |-> done[c].read]
    BY <1>1 DEF Own
  <2>2. [done[c] EXCEPT !.read = n] = [line |-> done[c].line, read |-> n]
    BY <2>1
  <2>3. PICK x, y : done' = [done EXCEPT ![c] = [line |-> x, read |-> y]]
    BY <1>3, <2>2
  <2> QED
    BY <1>1, <2>3 DEF Own, Serving
<1> QED
  BY <1>1, <1>4, <1>5, <1>6 DEF Own, OwnRequest

LEMMA OwnStep == Types /\ Serving /\ Own /\ [Next]_vars => Own'
<1> SUFFICES ASSUME Types, Serving, Own, [Next]_vars PROVE Own'
  OBVIOUS
<1> USE DEF clients, worker, locks
<1>1. ASSUME UNCHANGED <<link, done>>, buf' \in [Workers -> Seq(Received)] PROVE Own'
  BY <1>1 DEF Own, OwnRequest
<1>2. ASSUME NEW c \in Clients, Connect(c) \/ Speak(c) \/ Hang(c) PROVE Own'
  <2>1. UNCHANGED <<buf, done>>
    BY <1>2 DEF Connect, Speak, Hang
  <2>2. \A d \in Clients : link'[d].sent \in 0 .. Pieces[d]
    <3>1. link[c].sent \in Nat /\ Pieces[c] \in Nat
      BY DEF Types
    <3>2. CASE Connect(c) \/ Hang(c)
      <4>1. PICK e : link' = [link EXCEPT ![c].end = e]
        BY <3>2 DEF Connect, Hang
      <4>2. \A d \in Clients : link'[d].sent = link[d].sent
        BY <4>1 DEF Types
      <4> QED
        BY <4>2 DEF Own
    <3>3. CASE Speak(c)
      BY <3>1, <3>3 DEF Speak, Own, Types
    <3> QED
      BY <1>2, <3>2, <3>3
  <2> QED
    BY <2>1, <2>2 DEF Own, OwnRequest
<1>3. CASE Fork \/ AcceptInternal \/ Accept \/ SendFd \/ KillParent
  <2>1. CASE Fork
    BY <1>1, <2>1, Zenon DEF Fork, Own
  <2>2. CASE Accept
    BY <1>1, <2>2 DEF Accept, Own
  <2>3. CASE AcceptInternal
    BY <1>1, <2>3 DEF AcceptInternal, Own
  <2>4. CASE ParentEnds
    BY <1>1, <2>4 DEF ParentEnds, Own
  <2>5. CASE SendFd
    BY <1>1, <2>4, <2>5 DEF SendFd, Own
  <2> QED
    BY <1>3, <2>1, <2>2, <2>3, <2>4, <2>5 DEF KillParent
<1>4. ASSUME NEW k \in Workers, WorkerNext(k) PROVE Own'
  <2>1. CASE Recv(k)
    BY <2>1, OwnRecv
  <2>2. CASE ~Recv(k)
    <3>1. UNCHANGED <<link, done>> /\ (buf' = buf \/ buf' = [buf EXCEPT ![k] = <<>>])
      BY <1>4, <2>2 DEF WorkerNext, WorkerStep, ConnectInternal, RecvFd, Leave, Release, Released, Send, Lock, Kill, WorkerEnds
    <3>2. <<>> \in Seq(Received)
      OBVIOUS
    <3> QED
      BY <1>1, <3>1, <3>2 DEF Own
  <2> QED
    BY <2>1, <2>2
<1>5. CASE UNCHANGED vars
  BY <1>1, <1>5 DEF vars, Own
<1> QED
  BY <1>2, <1>3, <1>4, <1>5 DEF Next, ParentStep, WorkerNext

--------------------------------------------------------------------------------
(* Theorems *)

\* What holds whether or not the set could be created.
Safe == Types /\ Starting /\ Units /\ EndsOpen /\ Single /\ Away /\ Serving

LEMMA SafeAlways == Spec => []Safe
<1>1. Init => Safe
  BY InitTypes, InitStarting, InitEnds, InitSingle, InitServing DEF Safe
<1>2. Safe /\ [Next]_vars => Safe'
  BY TypesStep, StartingStep, UnitsStep, EndsStep, SingleStep, ServingStep DEF Safe
<1> QED
  BY <1>1, <1>2, PTL DEF Spec

\* The state keeps its types: no undo, release or refused lock of any of the
\* processes takes a semaphore out of its range.
THEOREM TypeCorrect == Spec => []TypeOK
<1>1. Safe => TypeOK
  BY DEF Safe, Types, Units, TypeOK
<1> QED
  BY <1>1, SafeAlways, PTL

LEMMA Excluded == Safe => HoldersExclude
<1> SUFFICES ASSUME Safe, NEW j \in Workers, NEW k \in Workers, held[k] > 0, held[j] = W PROVE j = k
  BY DEF HoldersExclude
<1>1. j \in Holders /\ k \in Holders
  BY DEF Holders
<1>2. CASE \E i \in Workers : held[i] = W /\ Holders = {i} /\ sem = 0
  BY <1>1, <1>2
<1>3. CASE (\A i \in Holders : held[i] = 1) /\ sem + Cardinality(Holders) <= W
  <2>1. W = 1 /\ Cardinality(Holders) <= 1
    BY <1>1, <1>3, HoldersFinite DEF Safe, Units
  <2>2. Cardinality(Holders) # 0
    BY <1>1, HoldersFinite, FS_EmptySet
  <2>3. Cardinality(Holders) = 1
    BY <2>1, <2>2, HoldersFinite
  <2>4. \E x : Holders = {x}
    BY <2>3, HoldersFinite, FS_Singleton
  <2> QED
    BY <1>1, <2>4
<1> QED
  BY <1>2, <1>3 DEF Safe, Units

\* A worker that performs a set with its units is alone among those that have
\* theirs, whoever has been killed and also after the parent's undo.
THEOREM HoldersExcluded == Spec => []HoldersExclude
  BY Excluded, SafeAlways, PTL

LEMMA SetThereAlways == ASSUME Created PROVE Spec => []SetThere
<1>1. Init => SetThere
  BY InitSet
<1>2. Safe /\ SetThere /\ [Next]_vars => SetThere'
  BY SetThereStep DEF Safe
<1> QED
  BY <1>1, <1>2, SafeAlways, PTL DEF Spec

\* When the set was created and the parent has accepted its workers, nobody works
\* without units until the last worker of an orphaned server has left.
THEOREM LocksWhileServed == ASSUME Created PROVE Spec => []UnlockedOnlyOrphaned
<1>1. SetThere => UnlockedOnlyOrphaned
  BY DEF SetThere, UnlockedOnlyOrphaned
<1> QED
  BY <1>1, SetThereAlways, PTL

\* When the set was created, a set is performed alone as long as the parent lives
\* and has its end of every socket, whoever else has been killed.
THEOREM SetsAlone == ASSUME Created PROVE Spec => []ExclusiveService
<1>1. Safe /\ SetThere => ExclusiveService
  <2> SUFFICES ASSUME Safe, SetThere, main.pc # "ended", main.failed = {},
                      NEW j \in Workers, NEW k \in Workers, Inside(j), Inside(k), IsSet(k)
               PROVE  j = k
    BY DEF ExclusiveService
  <2>1. held[j] # 0 /\ held[k] # 0
    BY DEF SetThere
  <2>2. held[j] > 0 /\ held[k] > 0
    BY <2>1 DEF Safe, Units
  <2>3. held[k] = W
    BY <2>2 DEF Safe, Serving, Weight
  <2> QED
    BY <2>2, <2>3, Excluded DEF HoldersExclude
<1> QED
  BY <1>1, SafeAlways, SetThereAlways, PTL

\* A client whose whole request was there when its worker read gets exactly that
\* request performed, whatever earlier clients have left in the buffer, for any
\* number of segments, workers and clients.
THEOREM RequestsOwn == Spec => []OwnRequest
<1>1. Init => Own
  BY InitOwn
<1>2. Safe /\ Own /\ [Next]_vars => Own'
  BY OwnStep DEF Safe
<1>3. Own => OwnRequest
  BY DEF Own
<1> QED
  BY <1>1, <1>2, <1>3, SafeAlways, PTL DEF Spec
================================================================================
