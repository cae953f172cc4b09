-------------------------- MODULE EchoServersProofs ---------------------------
(***************************************************************************)
(* Proofs about EchoServers for every set of clients, every API and every  *)
(* size of the buffers.                                                    *)
(***************************************************************************)
EXTENDS EchoServers, TLAPS, SequenceTheorems

USE EchoAssumption

ConnType == conn \in [Clients -> {"new", "queue", "open", "closed"}]
SideType == side \in [Clients -> {"talks", "fin", "reset", "gone"}]
LoopType ==
  /\ api # "epoll" => edge = {} /\ hup = {}
  /\ watched \subseteq Clients
  /\ edge \subseteq Clients \cup {Master} /\ pending \subseteq Clients \cup {Master}

\* What the loop relies on: who waits is in the queue once, the master is
\* reported for a queue that is not empty, and a client is never owed more
\* than its way back has room for.
LoopOK ==
  /\ \A i \in 1..Len(queue) : conn[queue[i]] = "queue"
  /\ \A i, j \in 1..Len(queue) : queue[i] = queue[j] => i = j
  /\ Master \in pending => queue # << >>
  /\ \A c \in Clients : Len(got[c]) - read[c] <= SndBuf[c]

IInv == TypeOK /\ LoopOK /\ WatchedOpen

LEMMA InitIInv == Init => IInv
<1> SUFFICES ASSUME Init PROVE IInv
  OBVIOUS
<1>1. TypeOK
  <2>1. \A c \in Clients : inbox[c] = << >> /\ got[c] = << >> /\ read[c] = 0
    BY DEF Init
  <2>2. inbox \in [Clients -> Seq(1..MaxSaid)] /\ got \in [Clients -> Seq(1..MaxSaid)]
    BY DEF Init
  <2>3. read \in [Clients -> Nat] /\ \A c \in Clients : read[c] <= Len(got[c])
    BY <2>1 DEF Init
  <2>4. queue \in Seq(Clients)
    BY DEF Init
  <2>5. said \in [Clients -> 0..MaxSaid] /\ conn \in [Clients -> {"new", "queue", "open", "closed"}]
        /\ side \in [Clients -> {"talks", "fin", "reset", "gone"}]
    BY DEF Init
  <2>6. api \in Apis /\ lost \in BOOLEAN /\ errno \in {"EAGAIN", "other"} /\ watched = {} /\ edge = {} /\ pending = {} /\ hup = {}
    BY DEF Init
  <2> QED
    BY <2>2, <2>3, <2>4, <2>5, <2>6 DEF TypeOK
<1>2. LoopOK
  <2>1. \A c \in Clients : Len(got[c]) - read[c] <= SndBuf[c]
    BY DEF Init
  <2> QED
    BY <2>1 DEF Init, LoopOK
<1>3. WatchedOpen
  BY DEF Init, WatchedOpen
<1> QED
  BY <1>1, <1>2, <1>3 DEF IInv

LEMMA QueueIs == ASSUME TypeOK, NEW i \in 1..Len(queue) PROVE queue[i] \in Clients
  BY DEF TypeOK

\* A step of the server that moves no unit.
LEMMA TypeKept ==
  ASSUME TypeOK, UNCHANGED <<api, queue, said, got, read, inbox>>,
         ConnType', SideType', LoopType', lost' \in BOOLEAN, errno' \in {"EAGAIN", "other"}
  PROVE  TypeOK'
  BY DEF TypeOK, ConnType, SideType, LoopType

LEMMA ConnectIInv == ASSUME IInv, NEW c \in Clients, Connect(c) PROVE IInv'
<1> USE DEF IInv, Connect
<1>1. queue' \in Seq(Clients) /\ Len(queue') = Len(queue) + 1 /\ queue'[Len(queue) + 1] = c
      /\ \A i \in 1..Len(queue) : queue'[i] = queue[i]
  <2>1. queue \in Seq(Clients)
    BY DEF TypeOK
  <2> QED
    BY <2>1
<1>2. \A i \in 1..Len(queue) : queue[i] \in Clients /\ queue[i] # c
  BY QueueIs DEF LoopOK
<1>3. TypeOK'
  BY <1>1 DEF TypeOK, Edge, client
<1>4. LoopOK'
  <2> DEFINE n == Len(queue)
  <2>1. n \in Nat /\ conn \in [Clients -> {"new", "queue", "open", "closed"}]
    BY DEF TypeOK
  <2>2. \A i \in 1..n : conn[queue[i]] = "queue"
    BY DEF LoopOK
  <2>3. \A i, j \in 1..n : queue[i] = queue[j] => i = j
    BY DEF LoopOK
  <2> HIDE DEF n
  <2>4. Len(queue') = n + 1 /\ queue'[n + 1] = c /\ \A i \in 1..n : queue'[i] = queue[i]
    BY <1>1 DEF n
  <2>5. \A i \in 1..n : queue[i] \in Clients /\ queue[i] # c
    BY <1>2 DEF n
  <2>6. \A i \in 1..Len(queue') : conn'[queue'[i]] = "queue"
    BY <2>1, <2>2, <2>4, <2>5
  <2>7. \A i, j \in 1..Len(queue') : queue'[i] = queue'[j] => i = j
    BY <2>1, <2>3, <2>4, <2>5
  <2>8. queue' # << >>
    BY <2>1, <2>4, <1>1
  <2>9. \A d \in Clients : Len(got'[d]) - read'[d] <= SndBuf[d]
    BY DEF LoopOK, client
  <2> QED
    BY <2>6, <2>7, <2>8, <2>9 DEF LoopOK
<1>5. WatchedOpen'
  BY DEF WatchedOpen, TypeOK
<1> QED
  BY <1>3, <1>4, <1>5

LEMMA SayIInv == ASSUME IInv, NEW c \in Clients, Say(c) PROVE IInv'
<1> USE DEF IInv, Say, Arrived
<1>1. said[c] + 1 \in 1..MaxSaid
  BY DEF TypeOK
<1>2. TypeOK'
  BY <1>1 DEF TypeOK, Edge
<1>3. LoopOK'
  BY DEF LoopOK
<1>4. WatchedOpen'
  BY DEF WatchedOpen
<1> QED
  BY <1>2, <1>3, <1>4

LEMMA ReadIInv == ASSUME IInv, NEW c \in Clients, Read(c) PROVE IInv'
<1> USE DEF IInv, Read, loop
<1>1. Len(got[c]) \in Nat
  BY DEF TypeOK
<1>2. TypeOK'
  <2>1. read' \in [Clients -> Nat] /\ \A d \in Clients : read'[d] <= Len(got[d])
    BY <1>1 DEF TypeOK
  <2> QED
    BY <2>1 DEF TypeOK
<1>3. LoopOK'
  <2>1. \A d \in Clients : Len(got[d]) - read'[d] <= SndBuf[d]
    BY <1>1 DEF LoopOK, TypeOK
  <2> QED
    BY <2>1 DEF LoopOK
<1>4. WatchedOpen'
  BY DEF WatchedOpen
<1> QED
  BY <1>2, <1>3, <1>4

LEMMA LeaveIInv == ASSUME IInv, NEW c \in Clients, Leave(c) PROVE IInv'
<1> USE DEF IInv, Leave, Arrived
<1>1. TypeOK'
  BY DEF TypeOK, Edge
<1>2. LoopOK'
  BY DEF LoopOK
<1>3. WatchedOpen'
  BY DEF WatchedOpen
<1> QED
  BY <1>1, <1>2, <1>3

LEMMA WaitIInv == ASSUME IInv, Wait PROVE IInv'
<1> USE DEF IInv, Wait, client
<1>1. pending' \subseteq Readable /\ Readable \subseteq watched \cup {Master}
      /\ (Master \in Readable => queue # << >>)
  BY DEF Reported, Readable, WatchedOpen, TypeOK
<1>2. TypeOK'
  BY <1>1 DEF TypeOK
<1>3. LoopOK'
  BY <1>1 DEF LoopOK
<1>4. WatchedOpen'
  BY <1>1 DEF WatchedOpen
<1> QED
  BY <1>2, <1>3, <1>4

LEMMA AcceptIInv == ASSUME IInv, Accept PROVE IInv'
<1> USE DEF IInv, Accept, Handled, Turn
<1> DEFINE c == Head(queue)
<1>1. queue # << >>
  BY DEF LoopOK
<1>2. c \in Clients /\ c = queue[1] /\ Len(queue) >= 1 /\ queue' = Tail(queue)
  BY <1>1 DEF TypeOK
<1>3. queue' \in Seq(Clients) /\ Len(queue') = Len(queue) - 1
      /\ \A i \in 1..Len(queue') : queue'[i] = queue[i + 1]
  BY <1>1, <1>2 DEF TypeOK
<1>4. conn[c] = "queue" /\ \A i \in 1..Len(queue') : queue'[i] # c /\ queue'[i] \in Clients
  <2>1. Len(queue) \in Nat
    BY DEF TypeOK
  <2>2. \A i \in 1..Len(queue') : i + 1 \in 1..Len(queue) /\ i + 1 # 1
    BY <2>1, <1>3
  <2>3. \A i \in 1..Len(queue) : queue[i] \in Clients
    BY QueueIs
  <2> QED
    BY <2>1, <2>2, <2>3, <1>2, <1>3 DEF LoopOK
<1>5. TypeOK'
  BY <1>2, <1>3 DEF TypeOK, Edge
<1>6. LoopOK'
  <2>1. \A i \in 1..Len(queue') : conn'[queue'[i]] = "queue"
    BY <1>2, <1>3, <1>4 DEF LoopOK, TypeOK
  <2>2. \A i, j \in 1..Len(queue') : queue'[i] = queue'[j] => i = j
    BY <1>2, <1>3 DEF LoopOK, TypeOK
  <2> QED
    BY <2>1, <2>2 DEF LoopOK
<1>7. WatchedOpen'
  <2>1. conn' = [conn EXCEPT ![c] = "open"] /\ watched' = watched \cup {c} /\ c \in Clients
        /\ pending' = pending \ {Master} /\ api' = api
    BY <1>2
  <2>3. \A d \in watched' : conn'[d] = "open"
    BY <2>1 DEF WatchedOpen, TypeOK
  <2>4. \A d \in Clients : conn'[d] = "open" /\ api # "libev" => d \in watched'
    BY <2>1 DEF WatchedOpen, TypeOK
  <2>5. pending' \cap Clients \subseteq watched'
    BY <2>1 DEF WatchedOpen
  <2> QED
    BY <2>1, <2>3, <2>4, <2>5 DEF WatchedOpen
<1> QED
  BY <1>5, <1>6, <1>7

LEMMA TakenIs ==
  ASSUME IInv, NEW c \in Clients
  PROVE  Taken(c) \in 0..Len(inbox[c])
  BY DEF Taken, IInv, TypeOK

\* What is sent is a part of what was taken, and there is room for it.
LEMMA SentBackIs ==
  ASSUME IInv, NEW c \in Clients
  PROVE  /\ SentBack(c) \in Seq(1..MaxSaid) /\ Len(SentBack(c)) <= Taken(c)
         /\ Len(SentBack(c)) <= SndBuf[c] - (Len(got[c]) - read[c])
         /\ \A i \in 1..Len(SentBack(c)) : SentBack(c)[i] = inbox[c][i]
<1> DEFINE room == Space(c)
           n == IF room < Taken(c) THEN room ELSE Taken(c)
<1>1. room \in Nat /\ room = SndBuf[c] - (Len(got[c]) - read[c])
  <2>1. Len(got[c]) \in Nat /\ read[c] \in Nat
    BY DEF IInv, TypeOK
  <2> QED
    BY <2>1 DEF IInv, LoopOK, Space
<1>2. n \in 0..Len(inbox[c]) /\ n <= Taken(c) /\ n <= room
  BY <1>1, TakenIs
<1>3. inbox[c] \in Seq(1..MaxSaid)
  BY DEF IInv, TypeOK
<1>4. SentBack(c) = SubSeq(inbox[c], 1, n)
  BY DEF SentBack
<1> HIDE DEF n, room
<1>5. Len(SentBack(c)) = n /\ SentBack(c) \in Seq(1..MaxSaid)
      /\ \A i \in 1..n : SentBack(c)[i] = inbox[c][i]
  BY <1>2, <1>3, <1>4
<1> QED
  BY <1>1, <1>2, <1>5

LEMMA LeftIs ==
  ASSUME IInv, NEW c \in Clients
  PROVE  LET rest == SubSeq(inbox[c], Taken(c) + 1, Len(inbox[c])) IN
         /\ rest \in Seq(1..MaxSaid) /\ Len(rest) = Len(inbox[c]) - Taken(c)
         /\ \A i \in 1..Len(rest) : rest[i] = inbox[c][i + Taken(c)]
<1>1. inbox[c] \in Seq(1..MaxSaid) /\ Len(inbox[c]) \in Nat
  BY DEF IInv, TypeOK
<1> DEFINE k == Taken(c)
           s == inbox[c]
           n == Len(s)
<1>2. k \in 0..n
  BY TakenIs
<1>3. s \in Seq(1..MaxSaid) /\ n = Len(s) /\ n \in Nat
  BY <1>1
<1> HIDE DEF k, s, n
<1>4. SubSeq(s, k + 1, n) \in Seq(1..MaxSaid) /\ Len(SubSeq(s, k + 1, n)) = n - k
      /\ \A i \in 1..(n - k) : SubSeq(s, k + 1, n)[i] = s[i + k]
  BY <1>2, <1>3
<1> QED
  BY <1>4 DEF k, s, n

LEMMA EchoIInv == ASSUME IInv, NEW c \in Clients, Echo(c) PROVE IInv'
<1> USE DEF IInv, Echo, Handled, Turn
<1> DEFINE rest == SubSeq(inbox[c], Taken(c) + 1, Len(inbox[c]))
<1>1. rest \in Seq(1..MaxSaid)
  BY LeftIs
<1> HIDE DEF Echo
<1>10. got[c] \in Seq(1..MaxSaid) /\ got \in [Clients -> Seq(1..MaxSaid)]
       /\ inbox \in [Clients -> Seq(1..MaxSaid)]
  BY DEF TypeOK
<1>11. SentBack(c) \in Seq(1..MaxSaid)
  BY SentBackIs
<1>2. got[c] \o SentBack(c) \in Seq(1..MaxSaid)
      /\ Len(got[c] \o SentBack(c)) = Len(got[c]) + Len(SentBack(c))
      /\ Len(SentBack(c)) \in Nat
  BY <1>10, <1>11
<1> USE DEF Echo
<1>3. Len(SentBack(c)) <= SndBuf[c] - (Len(got[c]) - read[c])
  BY SentBackIs
<1> HIDE DEF rest
<1>4. inbox' = [inbox EXCEPT ![c] = rest]
  BY DEF rest
<1> DEFINE new == IF side[c] \in {"talks", "fin"} THEN got[c] \o SentBack(c) ELSE got[c]
<1>5. new \in Seq(1..MaxSaid) /\ Len(new) \in Nat /\ Len(new) >= Len(got[c])
      /\ Len(new) - read[c] <= SndBuf[c]
  <2>1. got[c] \in Seq(1..MaxSaid) /\ Len(got[c]) \in Nat /\ read[c] \in Nat
        /\ SndBuf[c] \in Nat /\ Len(got[c]) - read[c] <= SndBuf[c]
    BY DEF TypeOK, LoopOK
  <2>2. CASE side[c] \in {"talks", "fin"}
    BY <1>2, <1>3, <2>1, <2>2
  <2>3. CASE side[c] \notin {"talks", "fin"}
    BY <2>1, <2>3
  <2> QED
    BY <2>2, <2>3
<1>9. got' = [got EXCEPT ![c] = new]
  BY DEF Hears
<1> HIDE DEF new
<1>6. TypeOK'
  <2>1. got' \in [Clients -> Seq(1..MaxSaid)] /\ inbox' \in [Clients -> Seq(1..MaxSaid)]
    BY <1>1, <1>4, <1>5, <1>9, <1>10
  <2>2. \A d \in Clients : read[d] <= Len(got'[d])
    BY <1>5, <1>9 DEF TypeOK
  <2>3. conn' \in [Clients -> {"new", "queue", "open", "closed"}] /\ queue' \in Seq(Clients)
        /\ side' \in [Clients -> {"talks", "fin", "reset", "gone"}] /\ said' \in [Clients -> 0..MaxSaid]
        /\ read' \in [Clients -> Nat]
    BY DEF TypeOK
  <2>4. api' \in Apis /\ lost' \in BOOLEAN /\ errno' \in {"EAGAIN", "other"} /\ (api' # "epoll" => edge' = {} /\ hup' = {})
        /\ watched' \subseteq Clients /\ edge' \subseteq Clients \cup {Master}
        /\ pending' \subseteq Clients \cup {Master} /\ read' = read
    BY DEF TypeOK
  <2> QED
    BY <2>1, <2>2, <2>3, <2>4 DEF TypeOK
<1>7. LoopOK'
  BY <1>5, <1>9 DEF LoopOK, TypeOK
<1>8. WatchedOpen'
  BY DEF WatchedOpen
<1> QED
  BY <1>6, <1>7, <1>8

LEMMA EndOfStreamIInv == ASSUME IInv, NEW c \in Clients, EndOfStream(c) PROVE IInv'
<1> USE DEF IInv, EndOfStream, Handled, Turn
<1>1. conn[c] = "open"
  BY DEF WatchedOpen
<1>2. TypeOK'
  <2>1. ConnType' /\ SideType'
    BY DEF TypeOK, ConnType, SideType
  <2>2. LoopType' /\ lost' \in BOOLEAN /\ errno' \in {"EAGAIN", "other"}
    BY DEF TypeOK, LoopType
  <2> QED
    BY <2>1, <2>2, TypeKept
<1>3. LoopOK'
  <2>1. \A i \in 1..Len(queue) : queue[i] \in Clients /\ queue[i] # c
    BY <1>1, QueueIs DEF LoopOK
  <2>2. \A i \in 1..Len(queue') : conn'[queue'[i]] = "queue"
    BY <2>1 DEF LoopOK, TypeOK
  <2> QED
    BY <2>2 DEF LoopOK
<1>4. WatchedOpen'
  BY DEF WatchedOpen, TypeOK, Unwatches
<1> QED
  BY <1>2, <1>3, <1>4

LEMMA HangUpIInv == ASSUME IInv, NEW c \in Clients, HangUp(c) PROVE IInv'
<1> USE DEF IInv, HangUp, Handled, Turn
<1>1. conn[c] = "open"
  BY DEF WatchedOpen
<1>2. TypeOK'
  <2>1. ConnType' /\ SideType'
    BY DEF TypeOK, ConnType, SideType
  <2>2. LoopType' /\ lost' \in BOOLEAN /\ errno' \in {"EAGAIN", "other"}
    BY DEF TypeOK, LoopType
  <2> QED
    BY <2>1, <2>2, TypeKept
<1>3. LoopOK'
  <2>1. \A i \in 1..Len(queue) : queue[i] \in Clients /\ queue[i] # c
    BY <1>1, QueueIs DEF LoopOK
  <2>2. \A i \in 1..Len(queue') : conn'[queue'[i]] = "queue"
    BY <2>1 DEF LoopOK, TypeOK
  <2> QED
    BY <2>2 DEF LoopOK
<1>4. WatchedOpen'
  BY DEF WatchedOpen, TypeOK
<1> QED
  BY <1>2, <1>3, <1>4

LEMMA StepIInv == IInv /\ [Next]_vars => IInv'
<1> SUFFICES ASSUME IInv, [Next]_vars PROVE IInv'
  OBVIOUS
<1>1. CASE Next
  BY <1>1, ConnectIInv, SayIInv, ReadIInv, LeaveIInv, WaitIInv, AcceptIInv, EchoIInv,
     EndOfStreamIInv, HangUpIInv DEF Next, ServerStep
<1>2. CASE UNCHANGED vars
  BY <1>2 DEF IInv, TypeOK, LoopOK, WatchedOpen, vars, client, loop, Unwatches, Drops
<1> QED
  BY <1>1, <1>2

LEMMA AlwaysIInv == Spec => []IInv
  BY InitIInv, StepIInv, PTL DEF Spec

\* Types, of all six loops: in particular no event, registration or unit is
\* ever about something else than a client or the master.
THEOREM TypeCorrect == Spec => []TypeOK
  BY AlwaysIInv, PTL DEF IInv

\* No loop ever watches or handles a descriptor that has been closed, whatever
\* happened between the wait and the event, and only libev forgets an open one.
THEOREM OnlyOpenWatched == Spec => []WatchedOpen
  BY AlwaysIInv, PTL DEF IInv
------------------------------------------------------------------------------
(* What the clients get *)

\* The units of a client that are under way or back, in their order.
Units(c) == got[c] \o inbox[c]

Orderly ==
  \A c \in Clients :
    /\ \A i \in 1..Len(Units(c)) : Units(c)[i] \in 1..said[c]
    /\ \A i, j \in 1..Len(Units(c)) : i < j => Units(c)[i] < Units(c)[j]
    /\ c \notin Leavers => side[c] = "talks"
    /\ Room(c) => Len(Units(c)) = said[c] /\ \A i \in 1..said[c] : Units(c)[i] = i

\* Units depends on two variables only.
LEMMA OrderlyKept ==
  ASSUME Orderly, UNCHANGED <<got, inbox, said>>,
         \A c \in Clients : c \notin Leavers => side'[c] = side[c]
  PROVE  Orderly'
<1>1. \A c \in Clients : Units(c)' = Units(c) /\ Room(c)' = Room(c) /\ said'[c] = said[c]
  BY DEF Units, Room
<1> QED
  BY <1>1 DEF Orderly

LEMMA ConcatIs ==
  ASSUME NEW S, NEW g \in Seq(S), NEW x \in Seq(S)
  PROVE  /\ g \o x \in Seq(S) /\ Len(g \o x) = Len(g) + Len(x)
         /\ Len(g) \in Nat /\ Len(x) \in Nat
         /\ \A i \in 1..Len(g) : (g \o x)[i] = g[i]
         /\ \A i \in 1..Len(x) : (g \o x)[Len(g) + i] = x[i]
<1>1. Len(g) \in Nat /\ Len(x) \in Nat
  OBVIOUS
<1>2. g \o x \in Seq(S) /\ Len(g \o x) = Len(g) + Len(x)
      /\ \A i \in 1..Len(g) + Len(x) : (g \o x)[i] = IF i <= Len(g) THEN g[i] ELSE x[i - Len(g)]
  BY ConcatProperties
<1>3. \A i \in 1..Len(g) : (g \o x)[i] = g[i]
  BY <1>1, <1>2
<1>4. \A i \in 1..Len(x) : (g \o x)[Len(g) + i] = x[i]
  <2> SUFFICES ASSUME NEW i \in 1..Len(x) PROVE (g \o x)[Len(g) + i] = x[i]
    OBVIOUS
  <2>1. Len(g) + i \in 1..Len(g) + Len(x) /\ ~(Len(g) + i <= Len(g)) /\ (Len(g) + i) - Len(g) = i
    BY <1>1
  <2> QED
    BY <2>1, <1>2
<1> QED
  BY <1>1, <1>2, <1>3, <1>4

LEMMA UnitsTyped ==
  ASSUME TypeOK, NEW c \in Clients
  PROVE  /\ Units(c) \in Seq(1..MaxSaid) /\ Len(Units(c)) = Len(got[c]) + Len(inbox[c])
         /\ Len(got[c]) \in Nat /\ Len(inbox[c]) \in Nat /\ said[c] \in 0..MaxSaid
         /\ \A i \in 1..Len(got[c]) : Units(c)[i] = got[c][i]
         /\ \A i \in 1..Len(inbox[c]) : Units(c)[Len(got[c]) + i] = inbox[c][i]
<1>1. got[c] \in Seq(1..MaxSaid) /\ inbox[c] \in Seq(1..MaxSaid) /\ said[c] \in 0..MaxSaid
  BY DEF TypeOK
<1>2. Units(c) = got[c] \o inbox[c]
  BY DEF Units
<1> DEFINE g == got[c]
           x == inbox[c]
<1>3. g \in Seq(1..MaxSaid) /\ x \in Seq(1..MaxSaid)
  BY <1>1
<1> HIDE DEF g, x
<1>4. /\ g \o x \in Seq(1..MaxSaid) /\ Len(g \o x) = Len(g) + Len(x)
      /\ Len(g) \in Nat /\ Len(x) \in Nat
      /\ \A i \in 1..Len(g) : (g \o x)[i] = g[i]
      /\ \A i \in 1..Len(x) : (g \o x)[Len(g) + i] = x[i]
  BY <1>3, ConcatIs
<1> QED
  BY <1>1, <1>2, <1>4 DEF g, x

LEMMA SayOrderly == ASSUME IInv, Orderly, NEW c \in Clients, Say(c) PROVE Orderly'
<1> DEFINE u == Units(c)
           n == said[c]
<1>1. TypeOK
  BY DEF IInv
<1>2. u \in Seq(1..MaxSaid) /\ n \in Nat /\ n + 1 \in 1..MaxSaid
  <2>1. n \in 0..MaxSaid /\ n < MaxSaid /\ u \in Seq(1..MaxSaid)
    BY <1>1, UnitsTyped DEF Say
  <2> QED
    BY <2>1
<1>3. inbox'[c] = Append(inbox[c], n + 1) /\ got' = got /\ said' = [said EXCEPT ![c] = n + 1]
      /\ side' = side /\ \A d \in Clients : d # c => inbox'[d] = inbox[d]
  BY <1>1 DEF Say, TypeOK
<1>4. Units(c)' = Append(u, n + 1)
  <2>1. got[c] \in Seq(1..MaxSaid) /\ inbox[c] \in Seq(1..MaxSaid)
    BY <1>1 DEF TypeOK
  <2>2. <<n + 1>> \in Seq(1..MaxSaid)
    BY <1>2
  <2>3. Append(inbox[c], n + 1) = inbox[c] \o <<n + 1>> /\ Append(u, n + 1) = u \o <<n + 1>>
    BY <2>1, <1>2, AppendIsConcat
  <2> DEFINE e == <<n + 1>>
  <2> HIDE DEF e
  <2>4. got[c] \o (inbox[c] \o e) = (got[c] \o inbox[c]) \o e
    <3> DEFINE g == got[c]
             x == inbox[c]
    <3>1. g \in Seq(1..MaxSaid) /\ x \in Seq(1..MaxSaid) /\ e \in Seq(1..MaxSaid)
      BY <2>1, <2>2 DEF e
    <3> HIDE DEF g, x
    <3>2. (g \o x) \o e = g \o (x \o e)
      BY ONLY <3>1, ConcatAssociative
    <3> QED
      BY <3>2 DEF g, x
  <2>5. Units(c)' = got[c] \o inbox'[c] /\ u = got[c] \o inbox[c]
    BY <1>3 DEF Units
  <2> QED
    BY <2>3, <2>4, <2>5, <1>3 DEF e
<1>5. said'[c] = n + 1 /\ \A d \in Clients : d # c => said'[d] = said[d]
  BY <1>1, <1>3 DEF TypeOK
<1>6. ASSUME NEW d \in Clients, d # c
      PROVE  Units(d)' = Units(d) /\ said'[d] = said[d] /\ side'[d] = side[d]
  BY <1>3, <1>5, <1>6 DEF Units
<1>7. /\ \A i \in 1..Len(u) : u[i] \in 1..n
      /\ \A i, j \in 1..Len(u) : i < j => u[i] < u[j]
      /\ c \notin Leavers => side[c] = "talks"
      /\ Room(c) => Len(u) = n /\ \A i \in 1..n : u[i] = i
  BY DEF Orderly
<1> HIDE DEF u, n
<1> DEFINE v == Append(u, n + 1)
<1>8. Len(v) = Len(u) + 1 /\ Len(u) \in Nat /\ v[Len(u) + 1] = n + 1
      /\ \A i \in 1..Len(u) : v[i] = u[i]
  BY <1>2
<1> HIDE DEF v
<1>9. /\ \A i \in 1..Len(v) : v[i] \in 1..(n + 1)
      /\ \A i, j \in 1..Len(v) : i < j => v[i] < v[j]
      /\ Room(c) => Len(v) = n + 1 /\ \A i \in 1..(n + 1) : v[i] = i
  <2>1. \A i \in 1..Len(v) : i \in 1..Len(u) \/ i = Len(u) + 1
    BY <1>8
  <2>2. \A i \in 1..Len(u) : u[i] \in Nat /\ u[i] >= 1 /\ u[i] <= n
    BY <1>2, <1>7
  <2>3. \A i \in 1..Len(v) : v[i] \in 1..(n + 1)
    <3> SUFFICES ASSUME NEW i \in 1..Len(v) PROVE v[i] \in 1..(n + 1)
      OBVIOUS
    <3>1. CASE i \in 1..Len(u)
      BY <3>1, <1>2, <1>8, <2>2
    <3>2. CASE i = Len(u) + 1
      BY <3>2, <1>2, <1>8
    <3> QED
      BY <3>1, <3>2, <2>1
  <2>4. \A i, j \in 1..Len(v) : i < j => v[i] < v[j]
    BY <1>2, <1>7, <1>8, <2>1, <2>2
  <2>5. Room(c) => Len(v) = n + 1 /\ \A i \in 1..(n + 1) : v[i] = i
    BY <1>2, <1>7, <1>8
  <2> QED
    BY <2>3, <2>4, <2>5
<1>10. Units(c)' = v /\ said'[c] = n + 1 /\ side'[c] = side[c]
  BY <1>3, <1>4, <1>5 DEF v
<1> QED
  BY <1>6, <1>7, <1>9, <1>10 DEF Orderly, Room

\* Taking k units from the inbox x, and sending back only the part b of them,
\* leaves the order of what remains.
LEMMA EchoOrderly == ASSUME IInv, Orderly, NEW c \in Clients, Echo(c) PROVE Orderly'
<1> DEFINE g == got[c]
           x == inbox[c]
           k == Taken(c)
           b == IF side[c] \in {"talks", "fin"} THEN SentBack(c) ELSE << >>
           y == SubSeq(x, k + 1, Len(x))
           u == Units(c)
           v == (g \o b) \o y
           S == 1..MaxSaid
<1>1. TypeOK
  BY DEF IInv
<1>2. g \in Seq(S) /\ x \in Seq(S) /\ k \in 0..Len(x)
  BY <1>1, TakenIs DEF TypeOK
<1>3. y \in Seq(S) /\ Len(y) = Len(x) - k /\ \A i \in 1..Len(y) : y[i] = x[i + k]
  BY LeftIs
<1>4. b \in Seq(S) /\ Len(b) <= k /\ \A i \in 1..Len(b) : b[i] = x[i]
  <2>1. CASE side[c] \in {"talks", "fin"}
    BY <2>1, SentBackIs
  <2>2. CASE side[c] \notin {"talks", "fin"}
    BY <2>2, <1>2
  <2> QED
    BY <2>1, <2>2
<1>5. u = g \o x
  BY DEF Units
<1>6. got'[c] = g \o b /\ inbox'[c] = y /\ side' = side /\ said' = said
      /\ \A d \in Clients : d # c => got'[d] = got[d] /\ inbox'[d] = inbox[d]
  <2>1. g \o << >> = g
    BY <1>2
  <2>2. got \in [Clients -> Seq(S)] /\ inbox \in [Clients -> Seq(S)]
    BY <1>1 DEF TypeOK
  <2> QED
    BY <2>1, <2>2 DEF Echo, Handled, Hears
<1>7. Units(c)' = v
  BY <1>6 DEF Units
<1>8. ASSUME NEW d \in Clients, d # c PROVE Units(d)' = Units(d)
  BY <1>6, <1>8 DEF Units
<1>9. Room(c) /\ side[c] = "talks" => Len(b) = k
  <2> SUFFICES ASSUME Room(c), side[c] = "talks", Len(u) = said[c] PROVE Len(b) = k
    BY DEF Orderly
  <2> DEFINE room == Space(c)
  <2>1. Len(u) = Len(g) + Len(x) /\ Len(g) \in Nat /\ Len(x) \in Nat /\ said[c] \in 0..MaxSaid
    BY <1>1, UnitsTyped
  <2>2. SndBuf[c] \in Nat /\ SndBuf[c] >= MaxSaid /\ read[c] \in Nat
    BY <1>1 DEF Room, TypeOK
  <2> HIDE DEF g, x
  <2>7. room = SndBuf[c] - (Len(g) - read[c])
    BY DEF Space, g
  <2>3. room >= Len(x) /\ room \in Int
    BY <2>1, <2>2, <2>7
  <2> USE DEF g, x
  <2>4. ~(room < k)
    BY <2>3, <1>2
  <2>5. SentBack(c) = SubSeq(x, 1, k)
    BY <2>4 DEF SentBack
  <2> HIDE DEF k, x
  <2>6. Len(SubSeq(x, 1, k)) = k
    BY <1>2, <2>1
  <2> QED
    BY <2>5, <2>6
<1>10. /\ \A i \in 1..Len(u) : u[i] \in 1..said[c]
       /\ \A i, j \in 1..Len(u) : i < j => u[i] < u[j]
       /\ c \notin Leavers => side[c] = "talks"
       /\ Room(c) => Len(u) = said[c] /\ \A i \in 1..said[c] : u[i] = i
  BY DEF Orderly
<1>11. Len(g) \in Nat /\ Len(b) \in Nat /\ k \in Nat /\ said[c] \in Nat
  BY <1>1, <1>2, <1>4 DEF TypeOK
<1> HIDE DEF g, x, k, b, y, S
<1>12. /\ Len(v) = Len(u) - (k - Len(b)) /\ Len(v) \in Nat /\ Len(u) \in Nat
       /\ \A i \in 1..Len(v) : i <= Len(g) + Len(b) => i \in 1..Len(u) /\ v[i] = u[i]
       /\ \A i \in 1..Len(v) :
            i > Len(g) + Len(b) => i + (k - Len(b)) \in 1..Len(u) /\ v[i] = u[i + (k - Len(b))]
  <2>1. v = (g \o b) \o y
    OBVIOUS
  <2> HIDE DEF u, v
  <2>2. g \in Seq(S) /\ x \in Seq(S) /\ b \in Seq(S) /\ y \in Seq(S)
    BY <1>2, <1>3, <1>4
  <2>3. k \in 0..Len(x) /\ Len(b) <= k /\ Len(y) = Len(x) - k /\ u = g \o x
    BY <1>2, <1>3, <1>4, <1>5
  <2>4. \A i \in 1..Len(b) : b[i] = x[i]
    BY <1>4
  <2>5. \A i \in 1..Len(y) : y[i] = x[i + k]
    BY <1>3
  <2>6. Len(g) \in Nat /\ Len(b) \in Nat /\ Len(x) \in Nat /\ Len(y) \in Nat /\ k \in Nat
    BY <2>2, <2>3
  <2>7. /\ Len(u) = Len(g) + Len(x)
        /\ \A i \in 1..Len(g) : u[i] = g[i]
        /\ \A i \in 1..Len(x) : u[Len(g) + i] = x[i]
    BY <2>2, <2>3, ConcatIs
  <2>8. /\ g \o b \in Seq(S) /\ Len(g \o b) = Len(g) + Len(b)
        /\ \A i \in 1..Len(g) : (g \o b)[i] = g[i]
        /\ \A i \in 1..Len(b) : (g \o b)[Len(g) + i] = b[i]
    BY <2>2, ConcatIs
  <2>9. /\ Len(v) = Len(g) + Len(b) + Len(y)
        /\ \A i \in 1..(Len(g) + Len(b)) : v[i] = (g \o b)[i]
        /\ \A i \in 1..Len(y) : v[Len(g) + Len(b) + i] = y[i]
    <3> DEFINE h == g \o b
    <3>1. h \in Seq(S) /\ Len(h) = Len(g) + Len(b) /\ v = h \o y
      BY <2>1, <2>8
    <3> HIDE DEF h
    <3>2. h \in Seq(S) /\ y \in Seq(S)
      BY <2>2, <3>1
    <3>3. /\ Len(h \o y) = Len(h) + Len(y)
          /\ \A i \in 1..Len(h) : (h \o y)[i] = h[i]
          /\ \A i \in 1..Len(y) : (h \o y)[Len(h) + i] = y[i]
      BY ONLY <3>2, ConcatIs
    <3> QED
      BY <3>1, <3>3 DEF h
  <2>10. ASSUME NEW i \in 1..Len(v), i <= Len(g) PROVE i \in 1..Len(u) /\ v[i] = u[i]
    <3>1. i \in 1..Len(g) /\ i \in 1..(Len(g) + Len(b)) /\ i \in 1..Len(u)
      BY <2>6, <2>7, <2>9, <2>10
    <3> QED
      BY <3>1, <2>7, <2>8, <2>9
  <2>11. ASSUME NEW i \in 1..Len(v), i > Len(g), i <= Len(g) + Len(b)
        PROVE  i \in 1..Len(u) /\ v[i] = u[i]
    <3> DEFINE j == i - Len(g)
    <3>1. j \in 1..Len(b) /\ i = Len(g) + j /\ j \in 1..Len(x) /\ i \in 1..(Len(g) + Len(b))
          /\ i \in 1..Len(u)
      BY <2>3, <2>6, <2>7, <2>9, <2>11
    <3> HIDE DEF j
    <3>2. v[i] = b[j] /\ b[j] = x[j] /\ u[i] = x[j]
      BY <3>1, <2>4, <2>7, <2>8, <2>9
    <3> QED
      BY <3>1, <3>2
  <2>12. ASSUME NEW i \in 1..Len(v), i > Len(g) + Len(b)
        PROVE  i + (k - Len(b)) \in 1..Len(u) /\ v[i] = u[i + (k - Len(b))]
    <3> DEFINE j == i - (Len(g) + Len(b))
    <3>1. j \in 1..Len(y) /\ i = Len(g) + Len(b) + j /\ j + k \in 1..Len(x)
          /\ i + (k - Len(b)) = Len(g) + (j + k)
      BY <2>3, <2>6, <2>9, <2>12
    <3> HIDE DEF j
    <3>2. v[i] = x[j + k]
      BY <3>1, <2>5, <2>9
    <3>3. Len(g) + (j + k) \in 1..Len(u) /\ u[Len(g) + (j + k)] = x[j + k]
      BY <3>1, <2>6, <2>7
    <3> QED
      BY <3>1, <3>2, <3>3
  <2>13. Len(v) = Len(u) - (k - Len(b)) /\ Len(v) \in Nat /\ Len(u) \in Nat
    BY <2>3, <2>6, <2>7, <2>9
  <2>14. \A i \in 1..Len(v) : i <= Len(g) + Len(b) => i \in 1..Len(u) /\ v[i] = u[i]
    <3> SUFFICES ASSUME NEW i \in 1..Len(v), i <= Len(g) + Len(b) PROVE i \in 1..Len(u) /\ v[i] = u[i]
      OBVIOUS
    <3>1. CASE i <= Len(g)
      BY <3>1, <2>10
    <3>2. CASE i > Len(g)
      BY <3>2, <2>11
    <3> QED
      BY <3>1, <3>2, <2>6, <2>13
  <2> QED
    BY <2>12, <2>13, <2>14
<1> DEFINE F == [i \in 1..Len(v) |-> IF i <= Len(g) + Len(b) THEN i ELSE i + (k - Len(b))]
<1> HIDE DEF u, v
<1>17. \A i \in 1..Len(v) : F[i] \in 1..Len(u) /\ v[i] = u[F[i]]
  BY <1>11, <1>12
<1>13. \A i \in 1..Len(v) : v[i] \in 1..said[c]
  BY <1>10, <1>17
<1>14. \A i, j \in 1..Len(v) : i < j => v[i] < v[j]
  <2> SUFFICES ASSUME NEW i \in 1..Len(v), NEW j \in 1..Len(v), i < j PROVE v[i] < v[j]
    OBVIOUS
  <2>1. F[i] < F[j]
    BY <1>4, <1>11, <1>12
  <2> QED
    BY <2>1, <1>10, <1>17
<1>15. Room(c) => Len(v) = said[c] /\ \A i \in 1..said[c] : v[i] = i
  <2> SUFFICES ASSUME Room(c) PROVE Len(v) = said[c] /\ \A i \in 1..said[c] : v[i] = i
    OBVIOUS
  <2>1. Len(b) = k
    BY <1>9, <1>10 DEF Room
  <2>2. Len(v) = said[c]
    BY <2>1, <1>10, <1>11, <1>12
  <2>3. \A i \in 1..Len(v) : F[i] = i
    BY <2>1, <1>11, <1>12
  <2>4. \A i \in 1..said[c] : u[i] = i
    BY <1>10
  <2> QED
    BY <2>2, <2>3, <2>4, <1>17
<1>16. ASSUME NEW d \in Clients
       PROVE /\ \A i \in 1..Len(Units(d)') : Units(d)'[i] \in 1..said[d]
             /\ \A i, j \in 1..Len(Units(d)') : i < j => Units(d)'[i] < Units(d)'[j]
             /\ d \notin Leavers => side[d] = "talks"
             /\ Room(d) => Len(Units(d)') = said[d] /\ \A i \in 1..said[d] : Units(d)'[i] = i
  <2>1. CASE d = c
    BY <2>1, <1>7, <1>10, <1>13, <1>14, <1>15
  <2>2. CASE d # c
    BY <2>2, <1>8 DEF Orderly
  <2> QED
    BY <2>1, <2>2
<1> QED
  BY <1>6, <1>16 DEF Orderly, Room

LEMMA InitOrderly == Init => Orderly
<1> SUFFICES ASSUME Init, NEW c \in Clients
             PROVE  Units(c) = << >> /\ said[c] = 0 /\ side[c] = "talks"
  BY DEF Orderly
<1> QED
  BY DEF Init, Units

LEMMA StepOrderly == IInv /\ Orderly /\ [Next]_vars => Orderly'
<1> SUFFICES ASSUME IInv, Orderly, [Next]_vars PROVE Orderly'
  OBVIOUS
<1>1. ASSUME NEW c \in Clients, Connect(c) \/ Read(c) \/ Leave(c) PROVE Orderly'
  <2>1. UNCHANGED <<got, inbox, said>> /\ \A d \in Clients : d \notin Leavers => side'[d] = side[d]
    BY <1>1 DEF Connect, Read, Leave, client, IInv, TypeOK
  <2> QED
    BY <2>1, OrderlyKept
<1>2. ASSUME NEW c \in Clients, EndOfStream(c) PROVE Orderly'
  <2>1. UNCHANGED <<got, inbox, said>>
    BY <1>2 DEF EndOfStream, Handled
  <2>2. \A d \in Clients : d \notin Leavers => side'[d] = side[d]
    BY <1>2 DEF EndOfStream, Orderly, IInv, TypeOK
  <2> QED
    BY <2>1, <2>2, OrderlyKept
<1>3. ASSUME NEW c \in Clients, HangUp(c) PROVE Orderly'
  BY <1>3, OrderlyKept DEF HangUp, Handled
<1>4. CASE Wait \/ Accept
  BY <1>4, OrderlyKept DEF Wait, Accept, Handled, client
<1>5. CASE UNCHANGED vars
  BY <1>5, OrderlyKept DEF vars, client
<1> QED
  BY <1>1, <1>2, <1>3, <1>4, <1>5, SayOrderly, EchoOrderly DEF Next, ServerStep

LEMMA OrderlyIsExact == IInv /\ Orderly => EchoExact
<1> SUFFICES ASSUME IInv, Orderly, NEW c \in Clients
             PROVE  /\ \A i \in 1..(Len(got[c]) - 1) : got[c][i] < got[c][i + 1]
                    /\ Room(c) => Units(c) = [i \in 1..said[c] |-> i]
  BY DEF EchoExact, Units
<1>1. TypeOK
  BY DEF IInv
<1>2. /\ Units(c) \in Seq(1..MaxSaid) /\ Len(Units(c)) = Len(got[c]) + Len(inbox[c])
      /\ Len(got[c]) \in Nat /\ Len(inbox[c]) \in Nat /\ said[c] \in 0..MaxSaid
      /\ \A i \in 1..Len(got[c]) : Units(c)[i] = got[c][i]
  BY <1>1, UnitsTyped
<1>3. \A i, j \in 1..Len(Units(c)) : i < j => Units(c)[i] < Units(c)[j]
  BY DEF Orderly
<1>4. \A i \in 1..(Len(got[c]) - 1) : got[c][i] < got[c][i + 1]
  <2> SUFFICES ASSUME NEW i \in 1..(Len(got[c]) - 1) PROVE got[c][i] < got[c][i + 1]
    OBVIOUS
  <2> DEFINE m == Len(got[c])
           l == Len(Units(c))
  <2> DEFINE h == Len(inbox[c])
  <2>5. m \in Nat /\ h \in Nat /\ l = m + h
    BY <1>2
  <2>6. i \in 1..(m - 1)
    OBVIOUS
  <2>2. \A j \in 1..m : Units(c)[j] = got[c][j]
    BY <1>2
  <2>3. \A j, k \in 1..l : j < k => Units(c)[j] < Units(c)[k]
    BY <1>3
  <2> HIDE DEF m, l, h
  <2>1. l \in Nat /\ m <= l
    BY <2>5
  <2>4. i \in 1..m /\ i + 1 \in 1..m /\ i < i + 1 /\ i \in 1..l /\ i + 1 \in 1..l
    BY <2>1, <2>5, <2>6
  <2> QED
    BY <2>2, <2>3, <2>4
<1>5. Room(c) => Units(c) = [i \in 1..said[c] |-> i]
  <2> SUFFICES ASSUME Room(c) PROVE Units(c) = [i \in 1..said[c] |-> i]
    OBVIOUS
  <2>1. Len(Units(c)) = said[c] /\ \A i \in 1..said[c] : Units(c)[i] = i
    BY DEF Orderly
  <2> DEFINE t == [i \in 1..said[c] |-> i]
  <2>2. t \in Seq(1..MaxSaid) /\ Len(t) = said[c] /\ \A i \in 1..said[c] : t[i] = i
    <3>1. \A i \in 1..said[c] : i \in 1..MaxSaid
      BY <1>2
    <3> QED
      BY <3>1, <1>2
  <2> HIDE DEF t
  <2>3. Units(c) = t
    BY <2>1, <2>2, <1>2, SeqEqual
  <2> QED
    BY <2>3 DEF t
<1> QED
  BY <1>4, <1>5

\* Whatever the API, the buffers and the moments at which clients leave: a
\* client gets its own units back in order and none twice, and all of them
\* where the way back has room.
THEOREM EchoesExact == Spec => []EchoExact
<1>1. Spec => []Orderly
  BY AlwaysIInv, InitOrderly, StepOrderly, PTL DEF Spec
<1> QED
  BY <1>1, AlwaysIInv, OrderlyIsExact, PTL
==============================================================================
