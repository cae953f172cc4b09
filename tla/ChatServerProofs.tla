--------------------------- MODULE ChatServerProofs ----------------------------
(***************************************************************************)
(* Proofs about ChatServer for every set of peers, whatever they type, and *)
(* every number of descriptors.                                            *)
(***************************************************************************)
EXTENDS ChatServer, TLAPS, FiniteSetTheorems

\* A client of the vector, whatever its message.
Client(c) ==
  c.fd \in Fds /\ c = [fd |-> c.fd, curmsg |-> c.curmsg, eolpos |-> c.eolpos]

Shapes ==
  /\ conn \in [Fds -> Peers \cup {None}] /\ backlog \in Seq(Peers)
  /\ \E S : clients \in Seq(S)
  /\ \A i \in 1 .. Len(clients) : Client(clients[i])

\* RegisteredOpen, position by position.
Registered ==
  /\ \A i \in 1 .. Len(clients) : conn[clients[i].fd] # None
  /\ \A f \in Fds : conn[f] # None => \E i \in 1 .. Len(clients) : clients[i].fd = f
  /\ \A i, k \in 1 .. Len(clients) : clients[i].fd = clients[k].fd => i = k

\* The iterators start at a client; the one of the broadcast denotes one as long
\* as something is sent.
Iterators ==
  /\ cur \in Nat \ {0}
  /\ pc = "send" => it \in 1 .. Len(clients)

IInv == Shapes /\ Registered /\ Iterators

--------------------------------------------------------------------------------
(* Lemmas about sequences *)

LEMMA MinExists ==
  ASSUME NEW T, T \subseteq Nat, T # {}
  PROVE  \E x \in T : \A y \in T : x <= y
<1> DEFINE Less == OpToRel(<, Nat)
<1>1. PICK x \in T : \A y \in T : ~ (<<y, x>> \in Less)
  <2>1. IsWellFoundedOn(Less, Nat)
    BY NatLessThanWellFounded
  <2> HIDE DEF Less
  <2> QED
    BY <2>1, WFMin
<1>2. \A y \in T : <<y, x>> \in Less <=> y < x
  <2>1. \A y \in T : <<y, x>> \in Nat \X Nat
    OBVIOUS
  <2> QED
    BY <2>1 DEF OpToRel
<1> HIDE DEF Less
<1>3. \A y \in T : ~ (y < x)
  BY <1>1, <1>2, Zenon
<1> QED
  BY <1>3

LEMMA MinIs == ASSUME NEW T, T \subseteq Nat, T # {} PROVE Min(T) \in T
  BY MinExists DEF Min

LEMMA Concatenated ==
  ASSUME NEW S, NEW s \in Seq(S), NEW t \in Seq(S)
  PROVE  s \o t \in Seq(S) /\ Len(s \o t) = Len(s) + Len(t)
  OBVIOUS

LEMMA RemovedAt ==
  ASSUME NEW S, NEW s \in Seq(S), NEW k \in 1 .. Len(s)
  PROVE  /\ RemoveAt(s, k) \in Seq(S) /\ Len(RemoveAt(s, k)) = Len(s) - 1
         /\ \A i \in 1 .. Len(s) - 1 :
              RemoveAt(s, k)[i] = IF i < k THEN s[i] ELSE s[i + 1]
<1> DEFINE a == SubSeq(s, 1, k - 1)
           b == SubSeq(s, k + 1, Len(s))
<1>1. a \in Seq(S) /\ Len(a) = k - 1 /\ \A i \in 1 .. k - 1 : a[i] = s[i]
  OBVIOUS
<1>2. b \in Seq(S) /\ Len(b) = Len(s) - k /\ \A i \in 1 .. Len(s) - k : b[i] = s[k + i]
  OBVIOUS
<1> HIDE DEF a, b
<1> k \in Nat /\ Len(s) \in Nat /\ Len(s) >= k /\ k >= 1
  OBVIOUS
<1>3. a \o b \in Seq(S) /\ Len(a \o b) = Len(s) - 1
  <2>1. a \o b \in Seq(S) /\ Len(a \o b) = Len(a) + Len(b)
    BY <1>1, <1>2, Concatenated
  <2> QED
    BY <1>1, <1>2, <2>1
<1>4. ASSUME NEW i \in 1 .. Len(s) - 1 PROVE (a \o b)[i] = IF i < k THEN s[i] ELSE s[i + 1]
  <2>1. CASE i < k
    BY <1>1, <1>2, <2>1
  <2>2. CASE ~ (i < k)
    <3>1. (a \o b)[i] = b[i - (k - 1)] /\ i - (k - 1) \in 1 .. Len(s) - k
      BY <1>1, <1>2, <2>2
    <3> QED
      BY <1>2, <2>2, <3>1
  <2> QED
    BY <2>1, <2>2
<1> QED
  BY <1>3, <1>4 DEF RemoveAt, a, b

\* find: a position of a client with that descriptor, or none has it.
LEMMA FindIs ==
  ASSUME NEW f, Shapes
  PROVE  \/ Find(f) \in 1 .. Len(clients) /\ clients[Find(f)].fd = f
         \/ Find(f) = 0 /\ \A i \in 1 .. Len(clients) : clients[i].fd # f
<1> DEFINE I == {i \in 1 .. Len(clients) : clients[i].fd = f}
<1>1. Find(f) = IF I # {} THEN Min(I) ELSE 0
  BY DEF Find, SelectInSeq
<1>2. I # {} => Min(I) \in I
  <2>1. I \subseteq Nat
    BY DEF Shapes
  <2> QED
    BY <2>1, MinIs
<1> QED
  BY <1>1, <1>2

--------------------------------------------------------------------------------
(* Steps *)

USE ChatAssumption

LEMMA InitOK == Init => IInv
<1> SUFFICES ASSUME Init PROVE IInv
  OBVIOUS
<1>1. Len(clients) = 0 /\ clients \in Seq({})
  BY DEF Init
<1>2. conn \in [Fds -> Peers \cup {None}] /\ backlog \in Seq(Peers) /\ cur = 1 /\ pc = "wait"
  BY DEF Init
<1>3. \A f \in Fds : conn[f] = None
  BY DEF Init
<1> QED
  BY <1>1, <1>2, <1>3 DEF IInv, Shapes, Registered, Iterators

\* A step that leaves vector and descriptors alone.
LEMMA Kept ==
  ASSUME IInv, UNCHANGED <<conn, clients>>, backlog' \in Seq(Peers), cur' \in Nat \ {0},
         pc' = "send" => it' \in 1 .. Len(clients)
  PROVE  IInv'
  BY DEF IInv, Shapes, Registered, Iterators

\* A client that is erased takes its descriptor along, and nobody else's.
LEMMA Dropped ==
  ASSUME IInv, NEW f \in Fds, Find(f) # 0, Drop(f)
  PROVE  /\ Len(clients') = Len(clients) - 1
         /\ backlog' = backlog /\ cur' = cur /\ (pc' = "send" => it' \in 1 .. Len(clients) - 1) => IInv'
<1> DEFINE k == Find(f)
           r == RemoveAt(clients, k)
<1>1. k \in 1 .. Len(clients) /\ clients[k].fd = f
  BY FindIs DEF IInv
<1>2. clients' = r /\ conn' = [conn EXCEPT ![f] = None]
  BY DEF Drop
<1>3. PICK S : clients \in Seq(S)
  BY DEF IInv, Shapes
<1>4. /\ r \in Seq(S) /\ Len(r) = Len(clients) - 1
      /\ \A i \in 1 .. Len(clients) - 1 : r[i] = IF i < k THEN clients[i] ELSE clients[i + 1]
  BY <1>1, <1>3, RemovedAt
<1> HIDE DEF k, r
<1>5. \A i \in 1 .. Len(r) : \E n \in 1 .. Len(clients) :
        n # k /\ n = (IF i < k THEN i ELSE i + 1) /\ r[i] = clients[n]
  BY <1>1, <1>3, <1>4
<1>6. \A n \in 1 .. Len(clients) : n # k => \E i \in 1 .. Len(r) : r[i] = clients[n]
  <2> SUFFICES ASSUME NEW n \in 1 .. Len(clients), n # k PROVE \E i \in 1 .. Len(r) : r[i] = clients[n]
    OBVIOUS
  <2>1. CASE n < k
    BY <1>1, <1>3, <1>4, <2>1, SMTT(30)
  <2>2. CASE n > k
    <3>1. n - 1 \in 1 .. Len(r) /\ ~ (n - 1 < k) /\ (n - 1) + 1 = n
      BY <1>1, <1>3, <1>4, <2>2
    <3> QED
      BY <1>4, <3>1
  <2> QED
    BY <1>1, <1>3, <2>1, <2>2
<1>7. ASSUME backlog' = backlog PROVE Shapes'
  <2>1. conn' \in [Fds -> Peers \cup {None}]
    BY <1>2 DEF IInv, Shapes
  <2>2. \A i \in 1 .. Len(r) : Client(r[i])
    BY <1>5 DEF IInv, Shapes
  <2> QED
    BY <1>2, <1>4, <1>7, <2>1, <2>2 DEF IInv, Shapes
<1>8. Registered'
  <2>1. \A i \in 1 .. Len(r) : r[i].fd \in Fds /\ r[i].fd # f /\ conn[r[i].fd] # None
    <3>1. \A n \in 1 .. Len(clients) : clients[n].fd \in Fds /\ conn[clients[n].fd] # None
      BY DEF IInv, Shapes, Client, Registered
    <3>2. \A n \in 1 .. Len(clients) : n # k => clients[n].fd # f
      BY <1>1 DEF IInv, Registered
    <3> QED
      BY <1>5, <3>1, <3>2
  <2>2. \A g \in Fds : conn'[g] = IF g = f THEN None ELSE conn[g]
    BY <1>2 DEF IInv, Shapes
  <2>3. ASSUME NEW g \in Fds, conn'[g] # None PROVE \E i \in 1 .. Len(r) : r[i].fd = g
    <3>1. PICK n \in 1 .. Len(clients) : clients[n].fd = g
      BY <2>2, <2>3 DEF IInv, Registered
    <3> QED
      BY <1>1, <1>6, <2>2, <2>3, <3>1
  <2>4. ASSUME NEW i \in 1 .. Len(r), NEW h \in 1 .. Len(r), r[i].fd = r[h].fd PROVE i = h
    <3>1. (IF i < k THEN i ELSE i + 1) = (IF h < k THEN h ELSE h + 1)
      BY <1>5, <2>4 DEF IInv, Registered
    <3> QED
      BY <1>1, <1>3, <1>4, <3>1
  <2> QED
    BY <1>2, <2>1, <2>2, <2>3, <2>4 DEF Registered
<1> QED
  BY <1>2, <1>4, <1>7, <1>8 DEF IInv, Iterators

LEMMA AcceptStep == ASSUME IInv, Accept PROVE IInv'
<1> DEFINE f == CHOOSE g \in FreeFds : \A h \in FreeFds : g <= h
           new == [fd |-> f, curmsg |-> <<>>, eolpos |-> 0]
<1>1. f \in Fds /\ conn[f] = None
  <2>1. FreeFds \subseteq Nat /\ FreeFds # {}
    BY DEF Accept, FreeFds, Fds
  <2>2. f \in FreeFds
    BY <2>1, MinExists
  <2> QED
    BY <2>2 DEF FreeFds
<1>2. /\ conn' = [conn EXCEPT ![f] = Head(backlog)] /\ clients' = Append(clients, new)
      /\ backlog' = Tail(backlog) /\ backlog # <<>> /\ cur' = cur /\ pc' = "welcome"
  BY DEF Accept
<1>3. Client(new) /\ new.fd = f
  BY <1>1 DEF Client
<1> HIDE DEF f, new
<1>4. PICK S : clients \in Seq(S)
  BY DEF IInv, Shapes
<1>5. /\ clients' \in Seq(S \cup {new}) /\ Len(clients') = Len(clients) + 1
      /\ clients'[Len(clients) + 1] = new
      /\ \A i \in 1 .. Len(clients) : clients'[i] = clients[i]
  BY <1>2, <1>4
<1>6. Head(backlog) \in Peers /\ Tail(backlog) \in Seq(Peers)
  BY <1>2 DEF IInv, Shapes
<1>7. \A i \in 1 .. Len(clients') : i \in 1 .. Len(clients) \/ i = Len(clients) + 1
  BY <1>4, <1>5
<1>8. Shapes'
  <2>1. conn' \in [Fds -> Peers \cup {None}]
    BY <1>2, <1>6 DEF IInv, Shapes
  <2>2. \A i \in 1 .. Len(clients') : Client(clients'[i])
    BY <1>3, <1>5, <1>7 DEF IInv, Shapes
  <2> QED
    BY <1>2, <1>5, <1>6, <2>1, <2>2 DEF Shapes
<1>9. Registered'
  <2>1. \A i \in 1 .. Len(clients) : clients[i].fd \in Fds /\ clients[i].fd # f
    BY <1>1 DEF IInv, Shapes, Client, Registered
  <2>2. \A g \in Fds : conn'[g] = IF g = f THEN Head(backlog) ELSE conn[g]
    BY <1>2 DEF IInv, Shapes
  <2>3. Head(backlog) # None
    BY <1>6
  <2>4. \A i \in 1 .. Len(clients') : conn'[clients'[i].fd] # None
    BY <1>1, <1>3, <1>5, <1>7, <2>1, <2>2, <2>3 DEF IInv, Registered
  <2>5. \A g \in Fds : conn'[g] # None => \E i \in 1 .. Len(clients') : clients'[i].fd = g
    <3>1. \A i \in 1 .. Len(clients) : i \in 1 .. Len(clients')
      BY <1>4, <1>5
    <3>2. Len(clients) + 1 \in 1 .. Len(clients')
      BY <1>4, <1>5
    <3> QED
      BY <1>3, <1>5, <2>2, <3>1, <3>2 DEF IInv, Registered
  <2>6. \A i, k \in 1 .. Len(clients') : clients'[i].fd = clients'[k].fd => i = k
    BY <1>3, <1>5, <1>7, <2>1 DEF IInv, Registered
  <2> QED
    BY <2>4, <2>5, <2>6 DEF Registered
<1> QED
  BY <1>2, <1>8, <1>9 DEF IInv, Iterators

\* A client whose message changes is the same client.
LEMMA Rewritten ==
  ASSUME IInv, NEW i \in 1 .. Len(clients), NEW m, NEW e,
         clients' = [clients EXCEPT ![i] = [@ EXCEPT !.curmsg = m, !.eolpos = e]],
         UNCHANGED <<conn, backlog>>, cur' \in Nat \ {0},
         pc' = "send" => it' \in 1 .. Len(clients)
  PROVE  IInv'
<1> DEFINE c == [clients[i] EXCEPT !.curmsg = m, !.eolpos = e]
<1>1. PICK S : clients \in Seq(S)
  BY DEF IInv, Shapes
<1>2. Client(c) /\ c.fd = clients[i].fd
  <2>1. Client(clients[i])
    BY DEF IInv, Shapes
  <2> DEFINE d == clients[i]
  <2>2. d = [fd |-> d.fd, curmsg |-> d.curmsg, eolpos |-> d.eolpos]
    BY <2>1 DEF Client
  <2> HIDE DEF d
  <2>3. [d EXCEPT !.curmsg = m, !.eolpos = e] = [fd |-> d.fd, curmsg |-> m, eolpos |-> e]
    <3>1. [d EXCEPT !.curmsg = m, !.eolpos = e] = [[d EXCEPT !.curmsg = m] EXCEPT !.eolpos = e]
      OBVIOUS
    <3>2. [d EXCEPT !.curmsg = m] = [fd |-> d.fd, curmsg |-> m, eolpos |-> d.eolpos]
      BY <2>2
    <3>3. [[fd |-> d.fd, curmsg |-> m, eolpos |-> d.eolpos] EXCEPT !.eolpos = e]
            = [fd |-> d.fd, curmsg |-> m, eolpos |-> e]
      OBVIOUS
    <3> QED
      BY <3>1, <3>2, <3>3, Zenon
  <2>4. c = [fd |-> clients[i].fd, curmsg |-> m, eolpos |-> e]
    BY <2>3 DEF d
  <2> QED
    BY <2>1, <2>4 DEF Client
<1> HIDE DEF c
<1>3. clients' = [clients EXCEPT ![i] = c]
  BY DEF c
<1>4. /\ clients' \in Seq(S \cup {c}) /\ Len(clients') = Len(clients)
      /\ \A k \in 1 .. Len(clients) : clients'[k] = IF k = i THEN c ELSE clients[k]
  BY <1>1, <1>3
<1>5. \A k \in 1 .. Len(clients) : Client(clients'[k]) /\ clients'[k].fd = clients[k].fd
  BY <1>2, <1>4 DEF IInv, Shapes
<1> QED
  BY <1>4, <1>5 DEF IInv, Shapes, Registered, Iterators

LEMMA RecvStep == ASSUME IInv, Recv PROVE IInv'
<1> DEFINE i == Find(batch[1].fd)
<1>1. i \in 1 .. Len(clients)
  BY FindIs DEF Recv, IInv
<1>2. i \in Nat \ {0}
  BY <1>1 DEF IInv, Shapes
<1>3. /\ \E s : clients' = [clients EXCEPT ![i] = Grown(@, s)]
      /\ cur' = i /\ pc' = "flush" /\ UNCHANGED <<conn, backlog>>
  BY DEF Recv
<1> HIDE DEF i
<1>4. PICK m, e : clients' = [clients EXCEPT ![i] = [@ EXCEPT !.curmsg = m, !.eolpos = e]]
  BY <1>3 DEF Grown
<1> QED
  BY <1>1, <1>2, <1>3, <1>4, Rewritten

LEMMA FlushStep == ASSUME IInv, Flush PROVE IInv'
<1>1. CASE Undefined
  BY <1>1, Kept DEF Undefined, net, IInv, Shapes, Iterators
<1>2. CASE EventDone /\ UNCHANGED <<net, clients, cur>>
  BY <1>2, Kept DEF EventDone, net, IInv, Shapes, Iterators
<1>3. CASE /\ cur <= Len(clients)
           /\ clients' = [clients EXCEPT ![cur] = Flushed(clients[cur])]
           /\ it' = 1 /\ UNCHANGED <<net, cur>>
  <2>1. cur \in 1 .. Len(clients) /\ 1 \in 1 .. Len(clients) /\ cur \in Nat \ {0}
    BY <1>3 DEF IInv, Iterators, Shapes
  <2>2. PICK m, e : clients' = [clients EXCEPT ![cur] = [@ EXCEPT !.curmsg = m, !.eolpos = e]]
    BY <1>3 DEF Flushed
  <2> QED
    BY <1>3, <2>1, <2>2, Rewritten DEF net
<1> QED
  <2>1. Len(clients) \in Nat /\ cur \in Nat
    BY DEF IInv, Shapes, Iterators
  <2> QED
    BY <1>1, <1>2, <1>3, <2>1 DEF Flush

\* The broadcast ends behind the last of n clients, or at a client again.
LEMMA NextIs ==
  ASSUME NEW n \in Nat, NextClient(n), it \in 1 .. n + 1, pc = "send"
  PROVE  pc' = "send" => it' \in 1 .. n
<1>1. CASE it < n
  BY <1>1 DEF NextClient
<1>2. CASE it > n
  BY <1>2 DEF NextClient
<1>3. CASE it = n
  BY <1>3 DEF NextClient
<1> QED
  BY <1>1, <1>2, <1>3

LEMMA SendStep == ASSUME IInv, SendPart PROVE IInv'
<1> DEFINE f == clients[it].fd
           p == conn[f]
<1>1. pc = "send" /\ it \in 1 .. Len(clients) /\ Len(clients) \in Nat /\ f \in Fds
  <2>1. pc = "send"
    BY DEF SendPart
  <2>2. it \in 1 .. Len(clients) /\ Len(clients) \in Nat
    BY <2>1 DEF IInv, Iterators, Shapes
  <2>3. clients[it].fd \in Fds
    BY <2>2 DEF IInv, Shapes, Client
  <2> QED
    BY <2>1, <2>2, <2>3
<1>2. CASE pc' = "killed" /\ UNCHANGED <<net, clients, cur>>
  BY <1>2, Kept DEF net, IInv, Shapes, Iterators
<1>3. CASE Drop(f) /\ NextClient(Len(clients) - 1) /\ UNCHANGED <<backlog, cur>>
  <2>1. Find(f) # 0
    BY <1>1, FindIs DEF IInv
  <2>2. pc' = "send" => it' \in 1 .. Len(clients) - 1
    <3>1. Len(clients) - 1 \in Nat /\ it \in 1 .. (Len(clients) - 1) + 1
      BY <1>1
    <3> QED
      BY <1>1, <1>3, <3>1, NextIs
  <2> QED
    BY <1>1, <1>3, <2>1, <2>2, Dropped
<1>4. CASE NextClient(Len(clients)) /\ UNCHANGED <<backlog, conn, clients, cur>>
  <2>1. pc' = "send" => it' \in 1 .. Len(clients)
    BY <1>1, <1>4, NextIs
  <2> QED
    BY <1>4, <2>1, Kept DEF IInv, Shapes, Iterators
<1> QED
  BY <1>2, <1>3, <1>4 DEF SendPart

LEMMA DropStep == ASSUME IInv, DropOnEvent PROVE IInv'
<1> DEFINE f == batch[1].fd
<1>1. CASE Undefined
  BY <1>1, Kept DEF Undefined, net, IInv, Shapes, Iterators
<1>2. CASE Find(f) # 0 /\ Drop(f) /\ EventDone /\ UNCHANGED <<backlog, cur>>
  <2>1. f \in Fds
    BY <1>2, FindIs DEF IInv, Shapes, Client
  <2> QED
    BY <1>2, <2>1, Dropped DEF EventDone
<1> QED
  BY <1>1, <1>2 DEF DropOnEvent

LEMMA Step == IInv /\ [Next]_vars => IInv'
<1> SUFFICES ASSUME IInv, [Next]_vars PROVE IInv'
  OBVIOUS
<1>1. cur \in Nat \ {0} /\ backlog \in Seq(Peers)
  BY DEF IInv, Iterators, Shapes
<1>2. ASSUME UNCHANGED <<conn, clients, cur, it>>, pc' \in {pc, "wait", "events"}, backlog' \in Seq(Peers)
      PROVE  IInv'
  BY <1>1, <1>2, Kept DEF IInv, Iterators
<1>3. ASSUME NEW p \in Peers, Connect(p) \/ Type(p) \/ Read(p) \/ Leave(p) \/ ResetArrives(p) PROVE IInv'
  <2>1. Append(backlog, p) \in Seq(Peers)
    BY <1>1
  <2>2. UNCHANGED <<conn, clients, cur, it, pc>> /\ (backlog' = backlog \/ backlog' = Append(backlog, p))
    BY <1>3 DEF Connect, Type, Read, Leave, ResetArrives, server
  <2> QED
    BY <1>1, <1>2, <2>1, <2>2
<1>4. CASE EpollWait
  BY <1>1, <1>2, <1>4 DEF EpollWait
<1>5. CASE Greet
  BY <1>1, <1>2, <1>5 DEF Greet, AcceptsAgain
<1>6. CASE AcceptFails
  BY <1>1, <1>2, <1>6 DEF AcceptFails, EventDone, net
<1>7. CASE UNCHANGED vars
  BY <1>1, <1>2, <1>7 DEF vars, net, server
<1> QED
  BY <1>3, <1>4, <1>5, <1>6, <1>7, AcceptStep, RecvStep, FlushStep, SendStep, DropStep DEF Next

--------------------------------------------------------------------------------
(* Theorem *)

\* Up to the first undefined step, and in every state before: the vector holds
\* exactly the open descriptors, each once, although the broadcast erases from the
\* vector it walks and descriptors are used again.
THEOREM OpenRegistered == Spec => []RegisteredOpen
<1>1. Init => IInv
  BY InitOK
<1>2. IInv /\ [Next]_vars => IInv'
  BY Step
<1>3. IInv => RegisteredOpen
  <2> SUFFICES ASSUME IInv PROVE RegisteredOpen
    OBVIOUS
  <2>1. DOMAIN clients = 1 .. Len(clients)
    BY DEF IInv, Shapes
  <2>2. \A i \in 1 .. Len(clients) : clients[i].fd \in Fds
    BY DEF IInv, Shapes, Client
  <2> QED
    BY <2>1, <2>2 DEF IInv, Registered, RegisteredOpen
<1> QED
  BY <1>1, <1>2, <1>3, PTL DEF Spec
--------------------------------------------------------------------------------
(* The loop, its events and the connections *)

Pieces == Peers \X Nat

Links ==
  [end : {"away", "up", "gone"}, typed : Nat, inbox : Seq(Pieces), unread : 0 .. SndBuf,
   owed : BOOLEAN, err : {"none", "reset", "pipe"}]

\* A peer's side: nothing before it connects, no reset while it is there.
LinkIs(p, l) ==
  /\ l \in Links
  /\ l.typed <= Len(Typed[p])
  /\ l.err # "none" \/ l.owed => l.end = "gone"
  /\ l.end = "away" => l.typed = 0 /\ l.inbox = <<>> /\ l.unread = 0
LinksOK == link \in [Peers -> Links] /\ \A p \in Peers : LinkIs(p, link[p])

\* A peer that has connected waits in the queue or is behind one descriptor.
Received1(p) ==
  /\ \A i, k \in 1 .. Len(backlog) : backlog[i] = p /\ backlog[k] = p => i = k
  /\ \A i \in 1 .. Len(backlog) : backlog[i] = p => link[p].unread = 0 /\ \A f \in Fds : conn[f] # p
  /\ \A f, g \in Fds : conn[f] = p /\ conn[g] = p => f = g
  /\ link[p].end = "away" =>
       (\A i \in 1 .. Len(backlog) : backlog[i] # p) /\ (\A f \in Fds : conn[f] # p)

Watched == Fds \cup {Master}
Events ==
  /\ ready \in Seq(Watched) /\ batch \in Seq([fd : Watched, hup : BOOLEAN])
  /\ pc \in {"wait", "events", "welcome", "flush", "send", "killed", "undefined"}
  /\ \A i \in 1 .. Len(batch) : batch[i].hup => batch[i].fd # Master
  /\ pc = "wait" => batch = <<>>
  /\ pc \in {"events", "welcome", "flush", "send"} => batch # <<>>
  /\ pc \in {"flush", "send"} => batch[1].fd # Master /\ ~ batch[1].hup
  /\ pc = "welcome" => clients # <<>>
  /\ it \in 1 .. MaxFd + 1

\* Texts are made of pieces; eolpos is the place of an end of line, or none was
\* found.
EolPlace(c) ==
  /\ c.curmsg \in Seq(Pieces) /\ c.eolpos \in 0 .. Len(c.curmsg)
  /\ c.eolpos # 0 => Kind(c.curmsg[c.eolpos]) = "eol"
Texts ==
  /\ \A i \in 1 .. Len(clients) : EolPlace(clients[i])
  /\ msg \in Seq(Pieces) /\ j \in Nat /\ log \in Seq(Seq(Pieces))

\* What has an edge is in the ready list or in what epoll_wait has returned.
Told(f, h) ==
  f \in ToSet(ready) \/ \E i \in 1 .. Len(batch) : batch[i].fd = f /\ (h => batch[i].hup)
MasterEdge == backlog # <<>> => Told(Master, FALSE)
HupEdge(f) == conn[f] # None /\ Hup(f) => Told(f, TRUE)

Loop == LinksOK /\ Events /\ Texts /\ \A p \in Peers : Received1(p)
Edges == MasterEdge /\ \A f \in Fds : HupEdge(f)

--------------------------------------------------------------------------------
(* Lemmas about sequences that are built up *)

LEMMA Induction ==
  ASSUME NEW T, 0 \in T, \A n \in Nat : n \in T => n + 1 \in T
  PROVE  \A n \in Nat : n \in T
<1> SUFFICES ASSUME NEW n \in Nat, n \notin T PROVE FALSE
  OBVIOUS
<1> DEFINE U == {k \in Nat : k \notin T}
<1>1. PICK k \in U : \A l \in U : k <= l
  BY MinExists
<1>2. k - 1 \in Nat /\ k - 1 \notin U
  BY <1>1
<1> QED
  BY <1>1, <1>2

Elements(s) == {s[k] : k \in 1 .. Len(s)}

LEMMA Appended ==
  ASSUME NEW V, NEW s \in Seq(V), NEW e \in V
  PROVE  /\ Append(s, e) \in Seq(V)
         /\ Elements(Append(s, e)) = Elements(s) \cup {e}
<1> DEFINE t == Append(s, e)
<1>1. /\ t \in Seq(V) /\ Len(t) = Len(s) + 1 /\ t[Len(s) + 1] = e /\ Len(s) \in Nat
      /\ \A k \in 1 .. Len(s) : t[k] = s[k]
  OBVIOUS
<1> HIDE DEF t
<1>2. 1 .. Len(t) = 1 .. Len(s) \cup {Len(s) + 1}
  BY <1>1
<1>3. {t[k] : k \in 1 .. Len(t)} = {t[k] : k \in 1 .. Len(s)} \cup {t[Len(s) + 1]}
  BY <1>2
<1>4. {t[k] : k \in 1 .. Len(s)} = {s[k] : k \in 1 .. Len(s)}
  BY <1>1
<1> QED
  BY <1>1, <1>3, <1>4 DEF t, Elements

\* The function inside Only, up to n.
OnlyUpTo(s, S, n, f) ==
  f = [i \in 0 .. n |->
         IF i = 0 THEN <<>> ELSE IF s[i] \in S THEN Append(f[i - 1], s[i]) ELSE f[i - 1]]

OnlyTakes(s, S, f, i) == f[i] = IF s[i] \in S THEN Append(f[i - 1], s[i]) ELSE f[i - 1]

LEMMA OnlyUnfolds ==
  ASSUME NEW s, NEW S, NEW n \in Nat, NEW f, OnlyUpTo(s, S, n, f)
  PROVE  /\ f[0] = <<>>
         /\ \A i \in 1 .. n : OnlyTakes(s, S, f, i)
<1>1. 0 \in 0 .. n /\ \A i \in 1 .. n : i \in 0 .. n /\ i # 0
  OBVIOUS
<1> QED
  BY <1>1, Zenon DEF OnlyUpTo, OnlyTakes

LEMMA OnlyExists ==
  ASSUME NEW V, NEW s \in Seq(V), NEW S
  PROVE  \E f : OnlyUpTo(s, S, Len(s), f)
<1> DEFINE T == {n \in Nat : \E f : OnlyUpTo(s, S, n, f)}
<1>1. 0 \in T
  <2>1. OnlyUpTo(s, S, 0, [i \in 0 .. 0 |-> <<>>])
    BY DEF OnlyUpTo
  <2> QED
    BY <2>1
<1>2. ASSUME NEW n \in Nat, n \in T PROVE n + 1 \in T
  <2>1. PICK f : OnlyUpTo(s, S, n, f)
    BY <1>2
  <2> DEFINE e == IF s[n + 1] \in S THEN Append(f[n], s[n + 1]) ELSE f[n]
             g == [i \in 0 .. n + 1 |-> IF i = n + 1 THEN e ELSE f[i]]
             h == [i \in 0 .. n + 1 |->
                     IF i = 0 THEN <<>> ELSE IF s[i] \in S THEN Append(g[i - 1], s[i]) ELSE g[i - 1]]
  <2>2. ASSUME NEW i \in 0 .. n + 1 PROVE g[i] = h[i]
    <3>1. CASE i = n + 1
      <4>1. g[i] = e /\ i # 0 /\ g[i - 1] = f[n]
        BY <3>1
      <4> QED
        BY <3>1, <4>1
    <3>2. CASE i = 0
      <4>1. g[i] = f[0]
        BY <3>2
      <4>2. h[i] = <<>>
        BY <3>2
      <4>3. f[0] = <<>>
        BY <2>1, OnlyUnfolds, Zenon
      <4> QED
        BY <4>1, <4>2, <4>3, Zenon
    <3>3. CASE i \in 1 .. n
      <4>1. g[i] = f[i] /\ g[i - 1] = f[i - 1] /\ i # 0
        BY <3>3
      <4>2. f[i] = IF s[i] \in S THEN Append(f[i - 1], s[i]) ELSE f[i - 1]
        <5>1. OnlyTakes(s, S, f, i)
          <6> HIDE DEF h
          <6> QED
            BY <2>1, <3>3, OnlyUnfolds
        <5> QED
          BY <5>1 DEF OnlyTakes
      <4>3. h[i] = IF s[i] \in S THEN Append(g[i - 1], s[i]) ELSE g[i - 1]
        <5> HIDE DEF g
        <5> QED
          BY <4>1, Zenon
      <4> HIDE DEF g, h
      <4> QED
        BY <4>1, <4>2, <4>3, Zenon
    <3> QED
      BY <3>1, <3>2, <3>3
  <2> HIDE DEF e
  <2>3. g = h
    BY <2>2
  <2> HIDE DEF g
  <2>4. OnlyUpTo(s, S, n + 1, g)
    BY <2>3, Zenon DEF OnlyUpTo
  <2> QED
    BY <2>4
<1> QED
  <2> HIDE DEF T
  <2>1. \A n \in Nat : n \in T
    BY <1>1, <1>2, Induction
  <2>2. Len(s) \in T
    BY <2>1
  <2> QED
    BY <2>2 DEF T

\* Only keeps the elements of s that are in S and no others.
LEMMA OnlyIs ==
  ASSUME NEW V, NEW s \in Seq(V), NEW S
  PROVE  Only(s, S) \in Seq(V) /\ ToSet(Only(s, S)) = ToSet(s) \cap S
<1> DEFINE f == CHOOSE g : OnlyUpTo(s, S, Len(s), g)
<1>1. OnlyUpTo(s, S, Len(s), f)
  BY OnlyExists
<1>2. Only(s, S) = f[Len(s)]
  BY DEF Only, OnlyUpTo
<1>3. f[0] = <<>> /\ \A i \in 1 .. Len(s) : OnlyTakes(s, S, f, i)
  <2> HIDE DEF f
  <2>1. Len(s) \in Nat
    OBVIOUS
  <2> QED
    BY <1>1, <2>1, OnlyUnfolds, Zenon
<1> HIDE DEF f
<1> DEFINE Kept1(i) == f[i] \in Seq(V) /\ {f[i][k] : k \in 1 .. Len(f[i])} = {s[k] : k \in 1 .. i} \cap S
           T == {n \in Nat : n <= Len(s) => Kept1(n)}
<1>4. 0 \in T
  <2>1. f[0] \in Seq(V) /\ Len(f[0]) = 0
    BY <1>3
  <2> QED
    BY <2>1
<1>5. ASSUME NEW n \in Nat, n \in T, n + 1 <= Len(s) PROVE Kept1(n + 1)
  <2>1. Kept1(n) /\ s[n + 1] \in V /\ n + 1 \in 1 .. Len(s)
    <3> HIDE DEF Kept1
    <3> QED
      BY <1>5
  <2>2. f[n + 1] = IF s[n + 1] \in S THEN Append(f[n], s[n + 1]) ELSE f[n]
    BY <1>3, <2>1 DEF OnlyTakes
  <2>3. {s[k] : k \in 1 .. n + 1} = {s[k] : k \in 1 .. n} \cup {s[n + 1]}
    OBVIOUS
  <2>4. CASE s[n + 1] \in S
    <3>1. f[n + 1] = Append(f[n], s[n + 1])
      BY <2>2, <2>4
    <3>2. /\ f[n + 1] \in Seq(V)
          /\ {f[n + 1][k] : k \in 1 .. Len(f[n + 1])} = {f[n][k] : k \in 1 .. Len(f[n])} \cup {s[n + 1]}
      <4>1. f[n] \in Seq(V) /\ s[n + 1] \in V
        BY <2>1
      <4> DEFINE a == f[n]
                 e == s[n + 1]
      <4>2. a \in Seq(V) /\ e \in V
        BY <4>1
      <4>3. f[n + 1] = Append(a, e)
        BY <3>1
      <4> HIDE DEF Kept1, a, e
      <4>4. /\ Append(a, e) \in Seq(V)
            /\ Elements(Append(a, e)) = Elements(a) \cup {e}
        BY <4>2, Appended
      <4> QED
        BY <4>3, <4>4, Zenon DEF a, e, Elements
    <3> QED
      BY <2>1, <2>3, <2>4, <3>2
  <2>5. CASE s[n + 1] \notin S
    BY <2>1, <2>2, <2>3, <2>5
  <2> QED
    BY <2>4, <2>5
<1>6. Kept1(Len(s))
  <2> HIDE DEF Kept1
  <2>1. \A n \in Nat : n \in T => n + 1 \in T
    BY <1>5
  <2>2. \A n \in Nat : n \in T
    <3> HIDE DEF T
    <3> QED
      BY <1>4, <2>1, Induction
  <2>3. Len(s) \in Nat
    OBVIOUS
  <2> QED
    BY <2>2, <2>3
<1>7. DOMAIN s = 1 .. Len(s) /\ DOMAIN f[Len(s)] = 1 .. Len(f[Len(s)])
  BY <1>6
<1> QED
  BY <1>2, <1>6, <1>7, Zenon DEF ToSet

LEMMA Counts == ASSUME NEW n \in Nat PROVE IsFiniteSet(1 .. n) /\ Cardinality(1 .. n) = n
<1>1. 1 \in Int /\ n \in Int /\ (IF 1 > n THEN 0 ELSE n - 1 + 1) = n
  OBVIOUS
<1> QED
  BY <1>1, FS_Interval, Zenon

LEMMA FdsCount == IsFiniteSet(Fds) /\ Cardinality(Fds) = MaxFd
<1>1. MaxFd \in Nat
  OBVIOUS
<1> QED
  BY <1>1, Counts DEF Fds

LEMMA SetToSeqIs ==
  ASSUME NEW S, IsFiniteSet(S)
  PROVE  SetToSeq(S) \in Seq(S) /\ ToSet(SetToSeq(S)) = S
<1> DEFINE n == Cardinality(S)
           s == SetToSeq(S)
<1>1. n \in Nat /\ ExistsBijection(1 .. n, S)
  BY FS_CardinalityType
<1>2. s \in [1 .. n -> S] /\ IsInjective(s)
  <2>1. PICK f : f \in Bijection(1 .. n, S)
    BY <1>1 DEF ExistsBijection
  <2>2. f \in [1 .. n -> S] /\ IsInjective(f)
    BY <2>1 DEF Bijection, Injection
  <2> QED
    BY <2>2 DEF SetToSeq
<1> HIDE DEF s
<1>3. s \in Injection(1 .. n, S)
  BY <1>2 DEF Injection
<1>4. IsFiniteSet(1 .. n) /\ Cardinality(1 .. n) = n
  BY <1>1, Counts
<1>5. s \in Surjection(1 .. n, S)
  BY <1>3, <1>4, FS_Injection
<1>6. \A x \in S : \E i \in 1 .. n : s[i] = x
  BY <1>5 DEF Surjection
<1>7. s \in Seq(S)
  BY <1>1, <1>2
<1>8. DOMAIN s = 1 .. n /\ \A i \in 1 .. n : s[i] \in S
  BY <1>2
<1>9. ToSet(s) = S
  BY <1>6, <1>8 DEF ToSet
<1> QED
  BY <1>7, <1>9 DEF s

LEMMA SignalIs ==
  ASSUME NEW V, ready \in Seq(V), NEW S \in SUBSET V, IsFiniteSet(S)
  PROVE  Signal(S) \in Seq(V) /\ ToSet(Signal(S)) = ToSet(ready) \cup S
<1>1. SetToSeq(S) \in Seq(V) /\ ToSet(SetToSeq(S)) = S
  BY SetToSeqIs
<1> DEFINE t == SetToSeq(S)
<1> HIDE DEF t
<1>2. ASSUME NEW r \in Seq(V), NEW u \in Seq(V)
      PROVE  r \o u \in Seq(V) /\ ToSet(r \o u) = ToSet(r) \cup ToSet(u)
  <2>1. Len(r) \in Nat /\ Len(u) \in Nat /\ r \o u \in Seq(V) /\ Len(r \o u) = Len(r) + Len(u)
    OBVIOUS
  <2>2. \A i \in 1 .. Len(r) : i \in 1 .. Len(r \o u) /\ (r \o u)[i] = r[i]
    BY <2>1
  <2>3. \A i \in 1 .. Len(u) : Len(r) + i \in 1 .. Len(r \o u) /\ (r \o u)[Len(r) + i] = u[i]
    BY <2>1
  <2>4. \A i \in 1 .. Len(r \o u) : i \in 1 .. Len(r) \/ (i - Len(r) \in 1 .. Len(u) /\ i = Len(r) + (i - Len(r)))
    BY <2>1
  <2>5. ToSet(r \o u) = {(r \o u)[i] : i \in 1 .. Len(r \o u)} /\ ToSet(r) = {r[i] : i \in 1 .. Len(r)}
        /\ ToSet(u) = {u[i] : i \in 1 .. Len(u)}
    BY <2>1, SMTT(30) DEF ToSet
  <2>6. \A i \in 1 .. Len(r \o u) : (r \o u)[i] \in ToSet(r) \cup ToSet(u)
    BY <2>2, <2>3, <2>4, <2>5
  <2>7. \A i \in 1 .. Len(r) : r[i] \in ToSet(r \o u)
    BY <2>2, <2>5
  <2>8. \A i \in 1 .. Len(u) : u[i] \in ToSet(r \o u)
    BY <2>3, <2>5
  <2>9. ToSet(r \o u) \subseteq ToSet(r) \cup ToSet(u)
    BY <2>5, <2>6, Zenon
  <2>10. ToSet(r) \subseteq ToSet(r \o u) /\ ToSet(u) \subseteq ToSet(r \o u)
    BY <2>5, <2>7, <2>8, Zenon
  <2> QED
    BY <2>1, <2>9, <2>10, Zenon
<1> QED
  BY <1>1, <1>2 DEF Signal, t

\* The vector is not longer than the table of descriptors.
LEMMA VectorFits == ASSUME IInv PROVE Len(clients) \in 0 .. MaxFd
<1>1. Len(clients) \in Nat
  BY DEF IInv, Shapes
<1> DEFINE f == [i \in 1 .. Len(clients) |-> clients[i].fd]
<1>2. f \in Injection(1 .. Len(clients), Fds)
  BY DEF Injection, IsInjective, IInv, Shapes, Client, Registered
<1> HIDE DEF f
<1>3. IsFiniteSet(Fds) /\ Cardinality(Fds) = MaxFd
  BY FdsCount
<1>4. Cardinality(1 .. Len(clients)) = Len(clients)
  BY <1>1, Counts
<1> QED
  BY <1>1, <1>2, <1>3, <1>4, FS_Injection

--------------------------------------------------------------------------------
(* The steps and the loop *)

LEMMA Fields ==
  ASSUME NEW l \in Links
  PROVE  /\ l.end \in {"away", "up", "gone"} /\ l.typed \in Nat /\ l.inbox \in Seq(Pieces)
         /\ l.unread \in 0 .. SndBuf /\ l.owed \in BOOLEAN /\ l.err \in {"none", "reset", "pipe"}
         /\ l = [end |-> l.end, typed |-> l.typed, inbox |-> l.inbox, unread |-> l.unread,
                 owed |-> l.owed, err |-> l.err]
  BY DEF Links

LEMMA LinkSet ==
  ASSUME LinksOK, NEW p \in Peers, NEW l, LinkIs(p, l), link' = [link EXCEPT ![p] = l]
  PROVE  LinksOK' /\ link'[p] = l /\ \A q \in Peers : q # p => link'[q] = link[q]
<1>1. link' \in [Peers -> Links] /\ \A q \in Peers : link'[q] = IF q = p THEN l ELSE link[q]
  BY DEF LinksOK, LinkIs
<1> HIDE DEF LinkIs
<1> QED
  BY <1>1 DEF LinksOK

\* What a peer may do to its link, and what the server may.
LEMMA ConnectLink ==
  ASSUME LinksOK, NEW p \in Peers, Connect(p)
  PROVE  LinksOK' /\ link'[p] = [link[p] EXCEPT !.end = "up"] /\ \A q \in Peers : q # p => link'[q] = link[q]
<1> DEFINE l == [link[p] EXCEPT !.end = "up"]
<1>1. link' = [link EXCEPT ![p] = l]
  BY DEF Connect
<1>2. LinkIs(p, l)
  BY DEF LinksOK, LinkIs, Links, Connect
<1> HIDE DEF l
<1>3. LinksOK' /\ link'[p] = l /\ \A q \in Peers : q # p => link'[q] = link[q]
  BY <1>1, <1>2, LinkSet
<1> QED
  BY <1>3 DEF l

LEMMA TypeLink ==
  ASSUME LinksOK, NEW p \in Peers, Type(p)
  PROVE  /\ LinksOK' /\ \A q \in Peers : q # p => link'[q] = link[q]
         /\ link'[p] = [link[p] EXCEPT !.typed = link[p].typed + 1,
                                       !.inbox = Append(link[p].inbox, <<p, link[p].typed + 1>>)]
<1> DEFINE l == [link[p] EXCEPT !.typed = link[p].typed + 1,
                                !.inbox = Append(link[p].inbox, <<p, link[p].typed + 1>>)]
<1>1. link' = [link EXCEPT ![p] = l]
  BY DEF Type, LinksOK
<1>2. LinkIs(p, l)
  <2>1. link[p] \in Links /\ LinkIs(p, link[p]) /\ link[p].end = "up" /\ link[p].typed < Len(Typed[p])
        /\ Len(Typed[p]) \in Nat
    BY DEF LinksOK, Type
  <2>2. Append(link[p].inbox, <<p, link[p].typed + 1>>) \in Seq(Pieces)
    BY <2>1 DEF Links, Pieces
  <2>3. /\ l.typed = link[p].typed + 1 /\ l.inbox = Append(link[p].inbox, <<p, link[p].typed + 1>>)
        /\ l.end = link[p].end /\ l.unread = link[p].unread /\ l.owed = link[p].owed
        /\ l.err = link[p].err /\ l \in Links
    <3> DEFINE a == link[p].inbox
               b == Append(a, <<p, link[p].typed + 1>>)
    <3>1. b \in Seq(Pieces) /\ link[p].typed + 1 \in Nat
      BY <2>1, <2>2, Fields
    <3> HIDE DEF b
    <3> QED
      BY <2>1, <3>1, Fields DEF Links, b
  <2> HIDE DEF l
  <2> QED
    BY <2>1, <2>3, Fields DEF LinkIs
<1> HIDE DEF l
<1>3. LinksOK' /\ link'[p] = l /\ \A q \in Peers : q # p => link'[q] = link[q]
  BY <1>1, <1>2, LinkSet
<1> QED
  BY <1>3 DEF l

LEMMA ReadLink ==
  ASSUME LinksOK, NEW p \in Peers, Read(p)
  PROVE  LinksOK' /\ link'[p] = [link[p] EXCEPT !.unread = 0] /\ \A q \in Peers : q # p => link'[q] = link[q]
<1> DEFINE l == [link[p] EXCEPT !.unread = 0]
<1>1. link' = [link EXCEPT ![p] = l]
  BY DEF Read
<1>2. LinkIs(p, l)
  <2>1. LinkIs(p, link[p]) /\ link[p] \in Links /\ 0 \in 0 .. SndBuf
    BY DEF LinksOK
  <2> QED
    BY <2>1, Fields DEF LinkIs, Links
<1> HIDE DEF l
<1>3. LinksOK' /\ link'[p] = l /\ \A q \in Peers : q # p => link'[q] = link[q]
  BY <1>1, <1>2, LinkSet
<1> QED
  BY <1>3 DEF l

LEMMA LeaveLink ==
  ASSUME LinksOK, NEW p \in Peers, Leave(p)
  PROVE  /\ LinksOK' /\ \A q \in Peers : q # p => link'[q] = link[q]
         /\ \E e \in {"none", "reset"} : link'[p] = [link[p] EXCEPT !.end = "gone", !.err = e]
<1>1. PICK e \in {"none", "reset"} : link' = [link EXCEPT ![p].end = "gone", ![p].err = e]
  BY DEF Leave
<1> DEFINE l == [link[p] EXCEPT !.end = "gone", !.err = e]
<1>2. link' = [link EXCEPT ![p] = l]
  BY <1>1 DEF LinksOK
<1>3. LinkIs(p, l)
  BY DEF LinksOK, LinkIs, Links
<1> HIDE DEF l
<1>4. LinksOK' /\ link'[p] = l /\ \A q \in Peers : q # p => link'[q] = link[q]
  BY <1>2, <1>3, LinkSet
<1> QED
  BY <1>4 DEF l

LEMMA ResetLink ==
  ASSUME LinksOK, NEW p \in Peers, ResetArrives(p)
  PROVE  /\ LinksOK' /\ \A q \in Peers : q # p => link'[q] = link[q]
         /\ link'[p] = [link[p] EXCEPT !.owed = FALSE, !.err = "pipe"]
<1> DEFINE l == [link[p] EXCEPT !.owed = FALSE, !.err = "pipe"]
<1>1. link' = [link EXCEPT ![p] = l]
  BY DEF ResetArrives, LinksOK
<1>2. LinkIs(p, l)
  BY DEF LinksOK, LinkIs, Links, ResetArrives
<1> HIDE DEF l
<1>3. LinksOK' /\ link'[p] = l /\ \A q \in Peers : q # p => link'[q] = link[q]
  BY <1>1, <1>2, LinkSet
<1> QED
  BY <1>3 DEF l

\* What send makes of a link: no more than the buffer holds, and no error where
\* none was.
LEMMA SendLink ==
  ASSUME LinksOK, NEW p \in Peers, NEW n \in Nat, link[p].end # "away"
  PROVE  /\ LinkIs(p, AfterSend(p, n)) /\ Taken(p, n) \in 0 .. n
         /\ AfterSend(p, n).end = link[p].end /\ AfterSend(p, n).typed = link[p].typed
         /\ AfterSend(p, n).inbox = link[p].inbox
         /\ AfterSend(p, n).err # "none" <=> link[p].err # "none"
         /\ link[p].end = "gone" => AfterSend(p, n).unread = link[p].unread
<1>1. LinkIs(p, link[p]) /\ SndBuf \in Nat
  BY DEF LinksOK
<1>2. /\ link[p].unread \in 0 .. SndBuf /\ link[p] \in Links
      /\ link[p].end \in {"up", "gone"} /\ link[p].err \in {"none", "reset", "pipe"}
  BY <1>1 DEF LinkIs, Links
<1>3. CASE link[p].err = "reset"
  <2>1. AfterSend(p, n) = [link[p] EXCEPT !.err = "pipe"] /\ Taken(p, n) = 0
    BY <1>3 DEF AfterSend, Taken
  <2>2. Taken(p, n) \in 0 .. n
    BY <2>1
  <2>3. /\ AfterSend(p, n).err = "pipe" /\ AfterSend(p, n).end = link[p].end
        /\ AfterSend(p, n).typed = link[p].typed /\ AfterSend(p, n).inbox = link[p].inbox
        /\ AfterSend(p, n).unread = link[p].unread /\ AfterSend(p, n).owed = link[p].owed
        /\ AfterSend(p, n) \in Links
    BY <1>2, <2>1, Fields DEF Links
  <2> QED
    BY <1>1, <1>2, <1>3, <2>2, <2>3, Fields DEF LinkIs
<1>4. CASE link[p].err # "reset" /\ link[p].end = "gone"
  <2>1. /\ AfterSend(p, n) = [link[p] EXCEPT !.owed = TRUE]
        /\ Taken(p, n) = IF link[p].err # "none" THEN 0 ELSE n
    BY <1>4 DEF AfterSend, Taken
  <2>2. Taken(p, n) \in 0 .. n
    BY <2>1
  <2> QED
    BY <1>1, <1>2, <1>4, <2>1, <2>2, Fields DEF LinkIs, Links
<1>5. CASE link[p].err # "reset" /\ link[p].end # "gone"
  <2>1. Taken(p, n) \in 0 .. n /\ link[p].unread + Taken(p, n) \in 0 .. SndBuf
    BY <1>1, <1>2, <1>5 DEF Taken, LinkIs
  <2>2. AfterSend(p, n) = [link[p] EXCEPT !.unread = link[p].unread + Taken(p, n)]
    BY <1>5 DEF AfterSend
  <2> HIDE DEF Taken
  <2> QED
    BY <1>1, <1>2, <1>5, <2>1, <2>2 DEF LinkIs, Links
<1> QED
  BY <1>3, <1>4, <1>5

LEMMA CloseLink ==
  ASSUME LinksOK, NEW p \in Peers
  PROVE  /\ LinkIs(p, Close(p)) /\ Close(p).end = "gone" /\ Close(p).typed = link[p].typed
         /\ Close(p).inbox = <<>> /\ Close(p).err = link[p].err /\ Close(p).unread = link[p].unread
<1>1. link[p] \in Links /\ LinkIs(p, link[p])
  BY DEF LinksOK
<1>2. <<>> \in Seq(Pieces)
  OBVIOUS
<1> QED
  BY <1>1, <1>2 DEF Close, LinkIs, Links

--------------------------------------------------------------------------------
(* The texts *)

Prefix(a, b) == Len(a) <= Len(b) /\ \A k \in 1 .. Len(a) : a[k] = b[k]

LEMMA PrefixOfPrefix ==
  ASSUME NEW V, NEW t \in Seq(V), NEW r \in Seq(V), NEW s, Prefix(t, r), Prefix(r, s), Len(s) \in Nat
  PROVE  Prefix(t, s)
<1>1. Len(t) \in Nat /\ Len(r) \in Nat
  OBVIOUS
<1>2. Len(t) <= Len(r) /\ Len(r) <= Len(s)
  BY Zenon DEF Prefix
<1>3. \A k \in 1 .. Len(t) : k \in 1 .. Len(r)
  BY <1>1, <1>2
<1>4. \A k \in 1 .. Len(t) : t[k] = s[k]
  BY <1>3, Zenon DEF Prefix
<1>5. Len(t) <= Len(s)
  BY <1>1, <1>2
<1> QED
  BY <1>4, <1>5 DEF Prefix

LEMMA PrefixOf ==
  ASSUME NEW V, NEW s \in Seq(V), NEW n \in 0 .. Len(s)
  PROVE  SubSeq(s, 1, n) \in Seq(V) /\ Len(SubSeq(s, 1, n)) = n /\ Prefix(SubSeq(s, 1, n), s)
<1>1. /\ SubSeq(s, 1, n) \in Seq(V) /\ Len(SubSeq(s, 1, n)) = n /\ n <= Len(s)
      /\ \A k \in 1 .. n : SubSeq(s, 1, n)[k] = s[k]
  OBVIOUS
<1> QED
  BY <1>1 DEF Prefix

LEMMA SuffixOf ==
  ASSUME NEW V, NEW s \in Seq(V), NEW n \in 0 .. Len(s)
  PROVE  /\ SubSeq(s, n + 1, Len(s)) \in Seq(V) /\ Len(SubSeq(s, n + 1, Len(s))) = Len(s) - n
         /\ \A k \in 1 .. Len(s) - n : SubSeq(s, n + 1, Len(s))[k] = s[n + k]
  OBVIOUS

LEMMA ReceivedIs ==
  ASSUME NEW p, link[p].inbox \in Seq(Pieces)
  PROVE  /\ Received(p) \in Seq(Pieces) /\ Prefix(Received(p), link[p].inbox)
         /\ Len(Received(p)) \in 0 .. Len(link[p].inbox)
<1> DEFINE s == link[p].inbox
           n == Min({RecvMax, Len(s)})
<1>1. n \in 0 .. Len(s)
  <2>1. RecvMax \in Nat /\ Len(s) \in Nat
    OBVIOUS
  <2>2. PICK x \in {RecvMax, Len(s)} : \A y \in {RecvMax, Len(s)} : x <= y
    <3> DEFINE T == {RecvMax, Len(s)}
    <3>1. T \subseteq Nat /\ T # {}
      BY <2>1
    <3> QED
      BY <3>1, MinExists
  <2>3. n \in {RecvMax, Len(s)} /\ \A y \in {RecvMax, Len(s)} : n <= y
    BY <2>2 DEF Min
  <2> QED
    BY <2>1, <2>3
<1>2. Received(p) = SubSeq(s, 1, n)
  BY DEF Received
<1> HIDE DEF s, n
<1>3. s \in Seq(Pieces)
  BY DEF s
<1> QED
  BY <1>1, <1>2, <1>3, PrefixOf DEF s

LEMMA UpToNulIs ==
  ASSUME NEW s \in Seq(Pieces)
  PROVE  UpToNul(s) \in Seq(Pieces) /\ Prefix(UpToNul(s), s)
<1> DEFINE I == {i \in 1 .. Len(s) : Kind(s[i]) = "nul"}
           z == IF I # {} THEN Min(I) ELSE 0
<1>1. UpToNul(s) = IF z = 0 THEN s ELSE SubSeq(s, 1, z - 1)
  BY DEF UpToNul, SelectInSeq
<1>2. Prefix(s, s)
  <2>1. Len(s) \in Nat
    OBVIOUS
  <2> QED
    BY <2>1 DEF Prefix
<1>3. z = 0 \/ z - 1 \in 0 .. Len(s)
  <2>1. I \subseteq Nat
    OBVIOUS
  <2>2. I # {} => Min(I) \in I
    <3> HIDE DEF I
    <3> QED
      BY <2>1, MinIs
  <2> QED
    BY <2>2
<1> HIDE DEF z
<1> QED
  BY <1>1, <1>2, <1>3, PrefixOf

\* The end of line that is found: the first one behind i.
LEMMA EolAfterIs ==
  ASSUME NEW s \in Seq(Pieces), NEW i \in Nat
  PROVE  EolAfter(s, i) \in 0 .. Len(s) /\ (EolAfter(s, i) # 0 => Kind(s[EolAfter(s, i)]) = "eol")
<1> DEFINE I == {k \in i + 1 .. Len(s) : Kind(s[k]) = "eol"}
<1>1. EolAfter(s, i) = IF I # {} THEN Min(I) ELSE 0
  BY DEF EolAfter, SelectInSubSeq
<1>2. I \subseteq Nat
  OBVIOUS
<1>3. I # {} => Min(I) \in I
  <2> HIDE DEF I
  <2> QED
    BY <1>2, MinIs
<1>4. I # {} => Min(I) \in 1 .. Len(s) /\ Kind(s[Min(I)]) = "eol"
  BY <1>3
<1>5. 0 \in 0 .. Len(s) /\ \A k \in 1 .. Len(s) : k \in 0 .. Len(s)
  OBVIOUS
<1> HIDE DEF I
<1> QED
  BY <1>1, <1>4, <1>5

\* A client with another text.
With(c, m, e) == [c EXCEPT !.curmsg = m, !.eolpos = e]

LEMMA ClientWith ==
  ASSUME NEW c, Client(c), NEW m, NEW e
  PROVE  /\ With(c, m, e).fd = c.fd /\ With(c, m, e).curmsg = m /\ With(c, m, e).eolpos = e
         /\ Client(With(c, m, e))
<1>1. c = [fd |-> c.fd, curmsg |-> c.curmsg, eolpos |-> c.eolpos] /\ c.fd \in Fds
  BY DEF Client
<1>2. With(c, m, e) = [[c EXCEPT !.curmsg = m] EXCEPT !.eolpos = e]
  BY DEF With
<1>3. [c EXCEPT !.curmsg = m] = [fd |-> c.fd, curmsg |-> m, eolpos |-> c.eolpos]
  BY <1>1
<1>4. [[fd |-> c.fd, curmsg |-> m, eolpos |-> c.eolpos] EXCEPT !.eolpos = e]
        = [fd |-> c.fd, curmsg |-> m, eolpos |-> e]
  OBVIOUS
<1>5. With(c, m, e) = [fd |-> c.fd, curmsg |-> m, eolpos |-> e]
  BY <1>2, <1>3, <1>4, Zenon
<1>6. \A a : a = [fd |-> c.fd, curmsg |-> m, eolpos |-> e] => a.fd = c.fd /\ a.curmsg = m /\ a.eolpos = e
  OBVIOUS
<1>7. With(c, m, e).fd = c.fd /\ With(c, m, e).curmsg = m /\ With(c, m, e).eolpos = e
  BY <1>5, <1>6, Zenon
<1>8. Client(With(c, m, e))
  BY <1>1, <1>5, <1>7, Zenon DEF Client
<1> QED
  BY <1>7, <1>8

LEMMA GrownIs ==
  ASSUME NEW c, Client(c), EolPlace(c), NEW s \in Seq(Pieces)
  PROVE  /\ Grown(c, s).fd = c.fd /\ Grown(c, s).curmsg = c.curmsg \o s /\ EolPlace(Grown(c, s))
         /\ Client(Grown(c, s))
<1> DEFINE m == c.curmsg \o s
           e == EolAfter(m, c.eolpos)
<1>1. m \in Seq(Pieces) /\ c.eolpos \in Nat
  BY DEF EolPlace
<1> HIDE DEF m
<1>2. e \in 0 .. Len(m) /\ (e # 0 => Kind(m[e]) = "eol")
  BY <1>1, EolAfterIs
<1> HIDE DEF e
<1>3. Grown(c, s) = With(c, m, e)
  BY DEF Grown, With, m, e
<1>4. Grown(c, s).fd = c.fd /\ Grown(c, s).curmsg = m /\ Grown(c, s).eolpos = e /\ Client(Grown(c, s))
  <2>1. /\ With(c, m, e).fd = c.fd /\ With(c, m, e).curmsg = m /\ With(c, m, e).eolpos = e
        /\ Client(With(c, m, e))
    BY ClientWith
  <2> QED
    BY <1>3, <2>1, Zenon
<1>5. EolPlace(Grown(c, s))
  BY <1>1, <1>2, <1>4, Zenon DEF EolPlace
<1> QED
  BY <1>4, <1>5, Zenon DEF m

LEMMA FlushedIs ==
  ASSUME NEW c, Client(c), EolPlace(c)
  PROVE  /\ Flushed(c).fd = c.fd /\ Flushed(c).curmsg = SubSeq(c.curmsg, c.eolpos + 1, Len(c.curmsg))
         /\ EolPlace(Flushed(c)) /\ Client(Flushed(c))
<1> DEFINE m == SubSeq(c.curmsg, c.eolpos + 1, Len(c.curmsg))
           e == EolAfter(m, 0)
<1>1. m \in Seq(Pieces)
  BY SuffixOf DEF EolPlace
<1> HIDE DEF m
<1>2. e \in 0 .. Len(m) /\ (e # 0 => Kind(m[e]) = "eol")
  BY <1>1, EolAfterIs
<1> HIDE DEF e
<1>3. Flushed(c) = With(c, m, e)
  BY DEF Flushed, With, m, e
<1>4. Flushed(c).fd = c.fd /\ Flushed(c).curmsg = m /\ Flushed(c).eolpos = e /\ Client(Flushed(c))
  <2>1. /\ With(c, m, e).fd = c.fd /\ With(c, m, e).curmsg = m /\ With(c, m, e).eolpos = e
        /\ Client(With(c, m, e))
    BY ClientWith
  <2> QED
    BY <1>3, <2>1, Zenon
<1>5. EolPlace(Flushed(c))
  BY <1>1, <1>2, <1>4, Zenon DEF EolPlace
<1> QED
  BY <1>4, <1>5, Zenon DEF m

\* The part that is sent: from j on, at least one piece and at most what is left.
LEMMA PartIs ==
  ASSUME NEW V, msg \in Seq(V), j \in Nat
  PROVE  Part \in Seq(V) /\ Len(Part) \in Nat
<1> DEFINE a == Min({j + PartMax, Len(msg)})
           b == Min({j + a, Len(msg)})
<1>1. a \in Nat /\ b \in 0 .. Len(msg)
  <2>1. j + PartMax \in Nat /\ Len(msg) \in Nat
    OBVIOUS
  <2>2. a \in {j + PartMax, Len(msg)}
    BY <2>1, MinIs
  <2>3. j + a \in Nat
    BY <2>1, <2>2
  <2> HIDE DEF a
  <2> DEFINE T == {j + a, Len(msg)}
  <2>4. T \subseteq Nat /\ T # {}
    BY <2>1, <2>3
  <2>5. PICK x \in T : \A y \in T : x <= y
    BY <2>4, MinExists
  <2>6. b \in T /\ \A y \in T : b <= y
    BY <2>5 DEF Min
  <2> QED
    BY <2>1, <2>2, <2>3, <2>6
<1>2. Part = SubSeq(msg, j + 1, b)
  BY DEF Part
<1> HIDE DEF b
<1>3. SubSeq(msg, j + 1, b) \in Seq(V)
  BY <1>1
<1> QED
  BY <1>2, <1>3

\* drop_client: the others close up.
LEMMA DropClients ==
  ASSUME IInv, NEW f \in Fds, NEW k \in 1 .. Len(clients), clients[k].fd = f, Drop(f)
  PROVE  /\ Len(clients') = Len(clients) - 1
         /\ \A i \in 1 .. Len(clients) - 1 : clients'[i] = IF i < k THEN clients[i] ELSE clients[i + 1]
<1>1. Find(f) = k
  <2>1. Find(f) \in 1 .. Len(clients) /\ clients[Find(f)].fd = f
    BY FindIs DEF IInv
  <2> QED
    BY <2>1 DEF IInv, Registered
<1>2. PICK S : clients \in Seq(S)
  BY DEF IInv, Shapes
<1>3. clients' = RemoveAt(clients, k)
  BY <1>1 DEF Drop
<1> QED
  BY <1>2, <1>3, RemovedAt

LEMMA TextsKept ==
  ASSUME Texts, msg' = msg, log' = log, j' \in Nat, Len(clients) \in Nat,
         \A i \in 1 .. Len(clients') : EolPlace(clients'[i]) \/ \E k \in 1 .. Len(clients) : clients'[i] = clients[k]
  PROVE  Texts'
<1> HIDE DEF EolPlace
<1>1. \A i \in 1 .. Len(clients') : EolPlace(clients'[i])
  BY DEF Texts
<1>2. (\A i \in 1 .. Len(clients) : EolPlace(clients[i]))'
  BY <1>1
<1> QED
  BY <1>2 DEF Texts

LEMMA SameTexts == ASSUME Texts, UNCHANGED <<clients, msg, j, log>> PROVE Texts'
  BY DEF Texts

LEMMA DropTexts ==
  ASSUME IInv, Texts, NEW f \in Fds, Find(f) # 0, Drop(f), msg' = msg, log' = log, j' \in Nat
  PROVE  Texts'
<1>1. Find(f) \in 1 .. Len(clients) /\ clients[Find(f)].fd = f /\ Len(clients) \in Nat
  BY FindIs DEF IInv, Shapes
<1> DEFINE k == Find(f)
<1> HIDE DEF k
<1>2. k \in 1 .. Len(clients) /\ clients[k].fd = f
  BY <1>1 DEF k
<1>3. /\ Len(clients') = Len(clients) - 1
      /\ \A i \in 1 .. Len(clients) - 1 : clients'[i] = IF i < k THEN clients[i] ELSE clients[i + 1]
  BY <1>2, DropClients
<1>4. \A i \in 1 .. Len(clients') : \E n \in 1 .. Len(clients) : clients'[i] = clients[n]
  <2> SUFFICES ASSUME NEW i \in 1 .. Len(clients') PROVE \E n \in 1 .. Len(clients) : clients'[i] = clients[n]
    OBVIOUS
  <2>1. i \in 1 .. Len(clients) /\ i + 1 \in 1 .. Len(clients)
    BY <1>1, <1>3
  <2> QED
    BY <1>1, <1>3, <2>1
<1> QED
  BY <1>1, <1>4, TextsKept

\* A step after which nobody is new in the queue or behind a descriptor.
LEMMA ReceivedKept ==
  ASSUME Loop, backlog' = backlog, \A f \in Fds : conn'[f] \in {conn[f], None},
         \A q \in Peers :
           /\ link'[q].end = "away" => link[q].end = "away"
           /\ link'[q].unread \in {0, link[q].unread} \/ \E f \in Fds : conn[f] = q
  PROVE  \A q \in Peers : Received1(q)'
<1> SUFFICES ASSUME NEW q \in Peers PROVE Received1(q)'
  OBVIOUS
<1>1. Received1(q) /\ q # None
  BY DEF Loop
<1>2. \A f \in Fds : conn'[f] = q => conn[f] = q
  BY <1>1
<1>3. \A i \in 1 .. Len(backlog) : backlog[i] = q => link'[q].unread = 0
  BY <1>1 DEF Received1
<1> QED
  BY <1>1, <1>2, <1>3 DEF Received1

LEMMA ReadySignalled ==
  ASSUME Events, NEW S \in SUBSET Watched, IsFiniteSet(S)
  PROVE  Signal(S) \in Seq(Watched) /\ ToSet(Signal(S)) = ToSet(ready) \cup S
  BY SignalIs DEF Events

LEMMA AcceptedIs ==
  ASSUME NEW p \in Peers
  PROVE  Accepted(p) \in SUBSET Watched /\ IsFiniteSet(Accepted(p))
<1>1. Accepted(p) \in SUBSET Fds
  BY DEF Accepted
<1> QED
  BY <1>1, FdsCount, FS_Subset DEF Watched

LEMMA MasterIs == {Master} \in SUBSET Watched /\ IsFiniteSet({Master}) /\ Master \notin Fds
<1>1. Master \notin Fds
  BY DEF Master, Fds
<1> QED
  BY <1>1, FS_Singleton, Zenon DEF Watched

\* A peer that connects has not been heard of.
LEMMA ConnectLoop == ASSUME IInv, Loop, NEW p \in Peers, Connect(p) PROVE Loop'
<1>1. LinksOK' /\ link'[p] = [link[p] EXCEPT !.end = "up"] /\ \A q \in Peers : q # p => link'[q] = link[q]
  BY ConnectLink DEF Loop
<1>2. LinkIs(p, link[p]) /\ link[p].end = "away" /\ link[p] \in Links
  BY DEF Loop, LinksOK, Connect
<1>3. backlog' = Append(backlog, p) /\ UNCHANGED <<conn, server>> /\ backlog \in Seq(Peers)
  BY DEF Connect, IInv, Shapes
<1>4. /\ Len(backlog') = Len(backlog) + 1 /\ backlog'[Len(backlog) + 1] = p
      /\ Len(backlog) \in Nat /\ \A i \in 1 .. Len(backlog) : backlog'[i] = backlog[i]
  BY <1>3
<1>5. \A i \in 1 .. Len(backlog') : i \in 1 .. Len(backlog) \/ i = Len(backlog) + 1
  BY <1>4
<1>6. Received1(p)'
  <2>1. Received1(p)
    BY DEF Loop
  <2>2. link'[p].end = "up" /\ link'[p].unread = 0
    BY <1>1, <1>2 DEF LinkIs, Links
  <2>3. \A i \in 1 .. Len(backlog) : backlog'[i] # p
    BY <1>2, <1>4, <2>1 DEF Received1
  <2> QED
    BY <1>2, <1>3, <1>4, <1>5, <2>1, <2>2, <2>3 DEF Received1
<1>7. ASSUME NEW q \in Peers, q # p PROVE Received1(q)'
  <2>1. Received1(q) /\ link'[q] = link[q]
    BY <1>1, <1>7 DEF Loop
  <2> QED
    BY <1>3, <1>4, <1>5, <1>7, <2>1 DEF Received1
<1>8. Events'
  <2>1. ready' \in Seq(Watched)
    BY MasterIs, ReadySignalled DEF Connect, Loop
  <2> QED
    BY <1>3, <2>1 DEF Events, Loop, server
<1>9. Texts'
  BY <1>3, SameTexts DEF Loop, server
<1> QED
  BY <1>1, <1>6, <1>7, <1>8, <1>9 DEF Loop

\* The other steps of a peer, which the server hears of by a signal or not at all.
LEMMA PeerLoop ==
  ASSUME IInv, Loop, NEW p \in Peers, Type(p) \/ Read(p) \/ Leave(p) \/ ResetArrives(p)
  PROVE  Loop'
<1>1. UNCHANGED <<backlog, conn, server>> /\ ready' \in {ready, Signal(Accepted(p))}
  BY DEF Type, Read, Leave, ResetArrives
<1>2. LinkIs(p, link[p]) /\ link[p] \in Links
  BY DEF Loop, LinksOK
<1>3. /\ LinksOK' /\ \A q \in Peers : q # p => link'[q] = link[q]
      /\ link'[p].end \in {link[p].end, "gone"} /\ link'[p].unread \in {0, link[p].unread}
  <2>1. LinksOK
    BY DEF Loop
  <2>2. CASE Type(p)
    <3>1. /\ LinksOK' /\ \A q \in Peers : q # p => link'[q] = link[q]
          /\ link'[p] = [link[p] EXCEPT !.typed = link[p].typed + 1,
                           !.inbox = Append(link[p].inbox, <<p, link[p].typed + 1>>)]
      BY <2>1, <2>2, TypeLink
    <3>2. link'[p].end = link[p].end /\ link'[p].unread = link[p].unread
      BY <1>2, <3>1, Fields
    <3> QED
      BY <3>1, <3>2
  <2>3. CASE Read(p)
    <3>1. /\ LinksOK' /\ \A q \in Peers : q # p => link'[q] = link[q]
          /\ link'[p] = [link[p] EXCEPT !.unread = 0]
      BY <2>1, <2>3, ReadLink
    <3>2. link'[p].end = link[p].end /\ link'[p].unread = 0
      BY <1>2, <3>1, Fields
    <3> QED
      BY <3>1, <3>2
  <2>4. CASE Leave(p)
    <3>1. LinksOK' /\ \A q \in Peers : q # p => link'[q] = link[q]
      BY <2>1, <2>4, LeaveLink
    <3>2. PICK e \in {"none", "reset"} : link'[p] = [link[p] EXCEPT !.end = "gone", !.err = e]
      BY <2>1, <2>4, LeaveLink
    <3>3. link'[p].end = "gone" /\ link'[p].unread = link[p].unread
      BY <1>2, <3>2, Fields
    <3> QED
      BY <3>1, <3>3
  <2>5. CASE ResetArrives(p)
    <3>1. /\ LinksOK' /\ \A q \in Peers : q # p => link'[q] = link[q]
          /\ link'[p] = [link[p] EXCEPT !.owed = FALSE, !.err = "pipe"]
      BY <2>1, <2>5, ResetLink
    <3>2. link'[p].end = link[p].end /\ link'[p].unread = link[p].unread
      BY <1>2, <3>1, Fields
    <3> QED
      BY <3>1, <3>2
  <2> QED
    BY <2>2, <2>3, <2>4, <2>5
<1>4. \A q \in Peers : Received1(q)'
  <2>1. \A q \in Peers : /\ link'[q].end = "away" => link[q].end = "away"
                         /\ link'[q].unread \in {0, link[q].unread}
    BY <1>3
  <2> QED
    BY <1>1, <2>1, ReceivedKept
<1>5. Events'
  <2>1. ready' \in Seq(Watched)
    BY <1>1, AcceptedIs, ReadySignalled DEF Loop, Events
  <2> QED
    BY <1>1, <2>1 DEF Events, Loop, server
<1>6. Texts'
  BY <1>1, SameTexts DEF Loop, server
<1> QED
  BY <1>3, <1>4, <1>5, <1>6 DEF Loop

\* A step that leaves the connections alone.
LEMMA SameLinks ==
  ASSUME Loop, UNCHANGED <<link, backlog, conn>>, Events', Texts'
  PROVE  Loop'
<1>1. LinksOK'
  BY DEF Loop, LinksOK
<1>2. \A q \in Peers : Received1(q)'
  BY ReceivedKept
<1> QED
  BY <1>1, <1>2 DEF Loop

LEMMA EmptyIs == ASSUME NEW V, NEW s \in Seq(V) PROVE s = <<>> <=> Len(s) = 0
  OBVIOUS

\* The first event is handled.
LEMMA EventLeft ==
  ASSUME Events, EventDone, batch # <<>>
  PROVE  /\ batch' \in Seq([fd : Watched, hup : BOOLEAN]) /\ Len(batch') = Len(batch) - 1
         /\ \A i \in 1 .. Len(batch) - 1 : batch'[i] = batch[i + 1]
         /\ pc' \in {"wait", "events"}
         /\ pc' = "wait" <=> batch' = <<>>
<1>1. batch \in Seq([fd : Watched, hup : BOOLEAN])
  BY DEF Events
<1>2. batch' = Tail(batch) /\ pc' = IF Len(batch) = 1 THEN "wait" ELSE "events"
  BY DEF EventDone
<1>3. /\ batch' \in Seq([fd : Watched, hup : BOOLEAN]) /\ Len(batch') = Len(batch) - 1
      /\ \A i \in 1 .. Len(batch) - 1 : batch'[i] = batch[i + 1]
      /\ Len(batch) \in Nat
  BY <1>1, <1>2
<1>4. batch' = <<>> <=> Len(batch) = 1
  <2>1. batch' = <<>> <=> Len(batch') = 0
    BY <1>3, EmptyIs
  <2> QED
    BY <1>3, <2>1
<1> QED
  BY <1>2, <1>3, <1>4

LEMMA EventLeftOK ==
  ASSUME Events, EventDone, batch # <<>>, ready' \in Seq(Watched), it' = it
  PROVE  Events'
<1>1. \A i \in 1 .. Len(batch') : batch'[i].hup => batch'[i].fd # Master
  <2>1. Len(batch) \in Nat /\ \A i \in 1 .. Len(batch) : batch[i].hup => batch[i].fd # Master
    BY DEF Events
  <2>2. Len(batch') = Len(batch) - 1 /\ \A i \in 1 .. Len(batch) - 1 : batch'[i] = batch[i + 1]
    BY EventLeft
  <2> QED
    BY <2>1, <2>2
<1> QED
  BY <1>1, EventLeft DEF Events

\* The events are those of the signalled descriptors.
LEMMA WaitEvents ==
  ASSUME Events, EpollWait
  PROVE  /\ Events' /\ pc' = IF batch' = <<>> THEN "wait" ELSE "events"
         /\ \A f \in ToSet(ready) : Hup(f) \/ Readable(f) =>
              \E i \in 1 .. Len(batch') : batch'[i] = [fd |-> f, hup |-> Hup(f)]
<1> DEFINE S == {f \in ToSet(ready) : Hup(f) \/ Readable(f)}
           found == Only(ready, S)
<1>1. found \in Seq(Watched) /\ ToSet(found) = ToSet(ready) \cap S
  BY OnlyIs DEF Events
<1>2. /\ batch' = [i \in DOMAIN found |-> [fd |-> found[i], hup |-> Hup(found[i])]]
      /\ pc' = IF found = <<>> THEN "wait" ELSE "events"
      /\ ready' = <<>> /\ it' = it
  BY DEF EpollWait
<1> HIDE DEF found
<1>3. DOMAIN found = 1 .. Len(found) /\ Len(found) \in Nat
  BY <1>1
<1>4. \A f : Hup(f) \in BOOLEAN
  BY DEF Hup
<1>5. /\ batch' \in Seq([fd : Watched, hup : BOOLEAN]) /\ Len(batch') = Len(found)
      /\ \A i \in 1 .. Len(found) : batch'[i] = [fd |-> found[i], hup |-> Hup(found[i])]
  <2> DEFINE e(i) == [fd |-> found[i], hup |-> Hup(found[i])]
  <2>1. \A i \in 1 .. Len(found) : e(i) \in [fd : Watched, hup : BOOLEAN]
    BY <1>1, <1>4
  <2> HIDE DEF e
  <2>2. batch' = [i \in 1 .. Len(found) |-> e(i)]
    BY <1>2, <1>3 DEF e
  <2>3. /\ batch' \in Seq([fd : Watched, hup : BOOLEAN]) /\ Len(batch') = Len(found)
        /\ \A i \in 1 .. Len(found) : batch'[i] = e(i)
    BY <1>3, <2>1, <2>2
  <2> QED
    BY <2>3 DEF e
<1>6. found = <<>> <=> batch' = <<>>
  <2>1. (found = <<>> <=> Len(found) = 0) /\ (batch' = <<>> <=> Len(batch') = 0)
    BY <1>1, <1>5, EmptyIs
  <2>2. Len(batch') = 0 <=> Len(found) = 0
    BY <1>5
  <2> QED
    BY <2>1, <2>2, Zenon
<1>7. \A i \in 1 .. Len(batch') : batch'[i].hup => batch'[i].fd # Master
  <2> SUFFICES ASSUME NEW i \in 1 .. Len(batch'), batch'[i].hup PROVE batch'[i].fd # Master
    OBVIOUS
  <2>1. batch'[i] = [fd |-> found[i], hup |-> Hup(found[i])]
    BY <1>5
  <2>2. batch'[i].fd = found[i] /\ batch'[i].hup = Hup(found[i])
    <3>1. \A e, a, b : e = [fd |-> a, hup |-> b] => e.fd = a /\ e.hup = b
      OBVIOUS
    <3> DEFINE e == batch'[i]
               a == found[i]
               b == Hup(a)
    <3>2. e = [fd |-> a, hup |-> b]
      BY <2>1
    <3> HIDE DEF e, b, a
    <3>3. e.fd = a /\ e.hup = b
      BY <3>1, <3>2, Zenon
    <3> QED
      BY <3>3 DEF e, a, b
  <2> QED
    BY <2>2, Zenon DEF Hup
<1>8. Events'
  <2>1. ready' \in Seq(Watched)
    BY <1>2
  <2> QED
    BY <1>2, <1>5, <1>6, <1>7, <2>1 DEF Events
<1>9. ASSUME NEW f \in ToSet(ready), Hup(f) \/ Readable(f)
      PROVE  \E i \in 1 .. Len(batch') : batch'[i] = [fd |-> f, hup |-> Hup(f)]
  <2>1. f \in ToSet(found)
    BY <1>1, <1>9
  <2>2. PICK i \in 1 .. Len(found) : found[i] = f
    BY <1>3, <2>1 DEF ToSet
  <2> QED
    BY <1>5, <2>2
<1> QED
  BY <1>2, <1>6, <1>8, <1>9

LEMMA WaitLoop == ASSUME IInv, Loop, EpollWait PROVE Loop'
<1>1. Events'
  BY WaitEvents DEF Loop
<1>2. Texts'
  BY SameTexts DEF Loop, EpollWait
<1> QED
  BY <1>1, <1>2, SameLinks DEF EpollWait

\* drop_client, and the peer sees the end of its connection.
LEMMA DropLoop ==
  ASSUME IInv, Loop, NEW f \in Fds, conn[f] \in Peers, Drop(f),
         link' = [link EXCEPT ![conn[f]] = Close(conn[f])], backlog' = backlog
  PROVE  LinksOK' /\ (\A q \in Peers : Received1(q)') /\ ready' \in Seq(Watched)
         /\ ToSet(ready') = ToSet(ready) \ {f}
<1> DEFINE p == conn[f]
<1>1. /\ LinkIs(p, Close(p)) /\ Close(p).end = "gone" /\ Close(p).unread = link[p].unread
  BY CloseLink DEF Loop
<1>2. LinksOK' /\ link'[p] = Close(p) /\ \A q \in Peers : q # p => link'[q] = link[q]
  <2> HIDE DEF p
  <2>1. LinksOK /\ p \in Peers /\ link' = [link EXCEPT ![p] = Close(p)]
    BY DEF Loop, p
  <2> QED
    BY <1>1, <2>1, LinkSet
<1>3. \A g \in Fds : conn'[g] \in {conn[g], None}
  BY DEF Drop, IInv, Shapes
<1>4. \A q \in Peers : Received1(q)'
  <2>1. \A q \in Peers : /\ link'[q].end = "away" => link[q].end = "away"
                         /\ link'[q].unread \in {0, link[q].unread}
    BY <1>1, <1>2
  <2> QED
    BY <1>3, <2>1, ReceivedKept
<1>5. ready' \in Seq(Watched) /\ ToSet(ready') = ToSet(ready) \ {f}
  <2>1. ready \in Seq(Watched) /\ ready' = Only(ready, ToSet(ready) \ {f})
    BY DEF Loop, Events, Drop
  <2> QED
    BY <2>1, OnlyIs
<1> QED
  BY <1>2, <1>4, <1>5

LEMMA UndefinedLoop == ASSUME Loop, Undefined PROVE Loop'
<1>1. Events'
  BY DEF Undefined, Loop, Events, net
<1>2. Texts'
  BY SameTexts DEF Loop, Undefined
<1> QED
  BY <1>1, <1>2, SameLinks DEF Undefined, net

\* A descriptor that the vector holds has a peer behind it.
LEMMA PeerBehind ==
  ASSUME IInv, NEW i \in 1 .. Len(clients)
  PROVE  clients[i].fd \in Fds /\ conn[clients[i].fd] \in Peers
<1>1. clients[i].fd \in Fds /\ conn[clients[i].fd] # None
  BY DEF IInv, Shapes, Client, Registered
<1> QED
  BY <1>1 DEF IInv, Shapes

LEMMA DropOnEventLoop == ASSUME IInv, Loop, DropOnEvent PROVE Loop'
<1> DEFINE f == batch[1].fd
<1>1. CASE Undefined
  BY <1>1, UndefinedLoop
<1>2. CASE /\ Find(f) # 0 /\ Drop(f) /\ link' = [link EXCEPT ![conn[f]] = Close(conn[f])]
           /\ EventDone /\ UNCHANGED <<backlog, it, msg, j, log>>
  <2>1. f \in Fds /\ conn[f] \in Peers
    BY <1>2, FindIs, PeerBehind DEF IInv
  <2>2. LinksOK' /\ (\A q \in Peers : Received1(q)') /\ ready' \in Seq(Watched)
    <3> HIDE DEF f
    <3> QED
      BY <1>2, <2>1, DropLoop
  <2>3. batch # <<>>
    BY DEF DropOnEvent, Loop, Events
  <2>4. Events'
    BY <1>2, <2>2, <2>3, EventLeftOK DEF Loop
  <2>5. Texts'
    <3>1. Texts /\ j' \in Nat
      BY <1>2 DEF Loop, Texts
    <3> HIDE DEF f
    <3> QED
      BY <1>2, <2>1, <3>1, DropTexts
  <2> QED
    BY <2>2, <2>4, <2>5 DEF Loop
<1> QED
  BY <1>1, <1>2 DEF DropOnEvent

LEMMA AcceptFailsLoop == ASSUME IInv, Loop, AcceptFails PROVE Loop'
<1>1. batch # <<>> /\ EventDone /\ UNCHANGED <<link, backlog, conn, ready, it>>
  BY DEF AcceptFails, Loop, Events, net
<1>2. Events'
  BY <1>1, EventLeftOK DEF Loop, Events
<1>3. Texts'
  BY SameTexts DEF Loop, AcceptFails
<1> QED
  BY <1>1, <1>2, <1>3, SameLinks

\* accept: who waited longest, behind the lowest free descriptor.
LEMMA AcceptIs ==
  ASSUME IInv, Accept
  PROVE  \E f \in Fds :
           /\ conn[f] = None /\ conn' = [conn EXCEPT ![f] = Head(backlog)]
           /\ clients' = Append(clients, [fd |-> f, curmsg |-> <<>>, eolpos |-> 0])
           /\ ready' = IF link[Head(backlog)].inbox # <<>> \/ link[Head(backlog)].end = "gone"
                       THEN Append(ready, f) ELSE ready
           /\ Head(backlog) \in Peers /\ backlog # <<>> /\ backlog' = Tail(backlog)
           /\ pc' = "welcome" /\ UNCHANGED <<link, batch, cur, msg, j, it, log, out>>
<1> DEFINE f == CHOOSE g \in FreeFds : \A h \in FreeFds : g <= h
<1>1. f \in Fds /\ conn[f] = None
  <2>1. FreeFds \subseteq Nat /\ FreeFds # {}
    BY DEF Accept, FreeFds, Fds
  <2>2. f \in FreeFds
    BY <2>1, MinExists
  <2> QED
    BY <2>2 DEF FreeFds
<1>2. /\ conn' = [conn EXCEPT ![f] = Head(backlog)]
      /\ clients' = Append(clients, [fd |-> f, curmsg |-> <<>>, eolpos |-> 0])
      /\ ready' = IF link[Head(backlog)].inbox # <<>> \/ link[Head(backlog)].end = "gone"
                  THEN Append(ready, f) ELSE ready
      /\ backlog # <<>> /\ backlog' = Tail(backlog)
      /\ pc' = "welcome" /\ UNCHANGED <<link, batch, cur, msg, j, it, log, out>>
  BY DEF Accept
<1>3. Head(backlog) \in Peers
  BY <1>2 DEF IInv, Shapes
<1> HIDE DEF f
<1> QED
  BY <1>1, <1>2, <1>3

LEMMA AcceptLoop == ASSUME IInv, Loop, Accept PROVE Loop'
<1> DEFINE p == Head(backlog)
<1>1. PICK f \in Fds :
        /\ conn[f] = None /\ conn' = [conn EXCEPT ![f] = p]
        /\ clients' = Append(clients, [fd |-> f, curmsg |-> <<>>, eolpos |-> 0])
        /\ ready' \in {ready, Append(ready, f)}
        /\ p \in Peers /\ backlog # <<>> /\ backlog' = Tail(backlog)
        /\ pc' = "welcome" /\ UNCHANGED <<link, batch, it, msg, j, log>>
  BY AcceptIs
<1>2. \A g \in Fds : conn'[g] = IF g = f THEN p ELSE conn[g]
  BY <1>1 DEF IInv, Shapes
<1>3. /\ Len(backlog) \in Nat \ {0} /\ Len(backlog') = Len(backlog) - 1 /\ p = backlog[1]
      /\ \A i \in 1 .. Len(backlog) - 1 : backlog'[i] = backlog[i + 1]
  <2>1. backlog \in Seq(Peers)
    BY DEF IInv, Shapes
  <2> QED
    BY <1>1, <2>1
<1> HIDE DEF p
<1>4. \A i \in 1 .. Len(backlog') :
        i \in 1 .. Len(backlog) - 1 /\ i + 1 \in 1 .. Len(backlog) /\ backlog'[i] = backlog[i + 1] /\ i + 1 # 1
  BY <1>3
<1>5. 1 \in 1 .. Len(backlog)
  BY <1>3
<1>6. ASSUME NEW q \in Peers PROVE Received1(q)'
  <2>1. Received1(q) /\ link' = link
    BY <1>1 DEF Loop
  <2>2. \A i \in 1 .. Len(backlog') : backlog'[i] # p
    <3>1. p \in Peers /\ Received1(p)
      BY <1>1 DEF Loop
    <3> QED
      BY <1>3, <1>4, <1>5, <3>1 DEF Received1
  <2>3. \A i, k \in 1 .. Len(backlog') : backlog'[i] = q /\ backlog'[k] = q => i = k
    <3> SUFFICES ASSUME NEW i \in 1 .. Len(backlog'), NEW k \in 1 .. Len(backlog'),
                        backlog'[i] = q, backlog'[k] = q
                 PROVE  i = k
      OBVIOUS
    <3>1. i + 1 \in 1 .. Len(backlog) /\ k + 1 \in 1 .. Len(backlog)
          /\ backlog[i + 1] = q /\ backlog[k + 1] = q
      BY <1>4
    <3>2. i + 1 = k + 1
      BY <2>1, <3>1 DEF Received1
    <3> QED
      BY <3>2
  <2>4. \A i \in 1 .. Len(backlog') : backlog'[i] = q => link[q].unread = 0 /\ \A g \in Fds : conn'[g] # q
    BY <1>2, <1>4, <2>1, <2>2, ZenonT(30) DEF Received1
  <2>5. \A g, h \in Fds : conn'[g] = q /\ conn'[h] = q => g = h
    BY <1>2, <1>3, <1>5, <2>1 DEF Received1
  <2>6. link[q].end = "away" =>
          (\A i \in 1 .. Len(backlog') : backlog'[i] # q) /\ (\A g \in Fds : conn'[g] # q)
    BY <1>2, <1>3, <1>4, <1>5, <2>1 DEF Received1
  <2> QED
    BY <2>1, <2>3, <2>4, <2>5, <2>6 DEF Received1
<1>7. Events'
  <2>1. ready' \in Seq(Watched) /\ clients' # <<>>
    <3>1. f \in Watched /\ ready \in Seq(Watched)
      BY DEF Loop, Events, Watched
    <3>2. Append(ready, f) \in Seq(Watched)
      BY <3>1
    <3>3. clients' # <<>>
      <4>1. PICK S : clients \in Seq(S)
        BY DEF IInv, Shapes
      <4> QED
        BY <1>1, <4>1
    <3> QED
      BY <1>1, <3>1, <3>2, <3>3
  <2>2. batch # <<>>
    BY DEF Accept, Loop, Events
  <2> QED
    BY <1>1, <2>1, <2>2 DEF Loop, Events
<1>8. LinksOK'
  BY <1>1 DEF Loop, LinksOK
<1>9. Texts'
  <2> DEFINE new == [fd |-> f, curmsg |-> <<>>, eolpos |-> 0]
  <2>1. EolPlace(new)
    BY DEF EolPlace
  <2> HIDE DEF new
  <2>2. PICK S : clients \in Seq(S)
    BY DEF IInv, Shapes
  <2>3. /\ Len(clients) \in Nat /\ Len(clients') = Len(clients) + 1 /\ clients'[Len(clients) + 1] = new
        /\ \A i \in 1 .. Len(clients) : clients'[i] = clients[i]
    BY <1>1, <2>2 DEF new
  <2>4. \A i \in 1 .. Len(clients') : i \in 1 .. Len(clients) \/ i = Len(clients) + 1
    BY <2>3
  <2>5. \A i \in 1 .. Len(clients') :
          EolPlace(clients'[i]) \/ \E k \in 1 .. Len(clients) : clients'[i] = clients[k]
    BY <2>1, <2>3, <2>4
  <2>6. Texts /\ j' \in Nat
    BY <1>1 DEF Loop, Texts
  <2> QED
    BY <1>1, <2>3, <2>5, <2>6, TextsKept
<1> QED
  BY <1>6, <1>7, <1>8, <1>9 DEF Loop

\* A send to a client keeps the connections in order.
LEMMA SentTo ==
  ASSUME IInv, Loop, NEW f \in Fds, conn[f] \in Peers, NEW n \in Nat,
         link' = [link EXCEPT ![conn[f]] = AfterSend(conn[f], n)], UNCHANGED <<backlog, conn>>
  PROVE  LinksOK' /\ (\A q \in Peers : Received1(q)')
<1> DEFINE p == conn[f]
<1>1. p \in Peers /\ link' = [link EXCEPT ![p] = AfterSend(p, n)] /\ LinksOK
  BY DEF Loop
<1>2. link[p].end # "away"
  BY DEF Loop, Received1
<1> HIDE DEF p
<1>3. LinkIs(p, AfterSend(p, n)) /\ AfterSend(p, n).end = link[p].end
  BY <1>1, <1>2, SendLink
<1>4. LinksOK' /\ link'[p] = AfterSend(p, n) /\ \A q \in Peers : q # p => link'[q] = link[q]
  BY <1>1, <1>3, LinkSet
<1>5. \A q \in Peers :
        /\ link'[q].end = "away" => link[q].end = "away"
        /\ link'[q].unread \in {0, link[q].unread} \/ \E g \in Fds : conn[g] = q
  BY <1>3, <1>4 DEF p
<1>6. \A q \in Peers : Received1(q)'
  BY <1>5, ReceivedKept
<1> QED
  BY <1>4, <1>6

LEMMA GreetIs ==
  ASSUME IInv, Loop, Greet
  PROVE  /\ Len(clients) \in 1 .. Len(clients) /\ Last(clients).fd \in Fds
         /\ conn[Last(clients).fd] \in Peers
<1>1. pc = "welcome" /\ clients # <<>>
  BY DEF Greet, Loop, Events
<1>2. PICK S : clients \in Seq(S)
  BY DEF IInv, Shapes
<1>3. Len(clients) \in 1 .. Len(clients)
  BY <1>1, <1>2
<1> QED
  BY <1>3, PeerBehind DEF Last

LEMMA GreetLoop == ASSUME IInv, Loop, Greet PROVE Loop'
<1> DEFINE f == Last(clients).fd
<1>1. f \in Fds /\ conn[f] \in Peers
  BY GreetIs
<1>2. /\ link' = [link EXCEPT ![conn[f]] = AfterSend(conn[f], 1)] /\ pc = "welcome" /\ pc' = "events"
      /\ UNCHANGED <<backlog, conn, ready, clients, batch, it>>
  BY DEF Greet, AcceptsAgain
<1> HIDE DEF f
<1>3. LinksOK' /\ (\A q \in Peers : Received1(q)')
  BY <1>1, <1>2, SentTo
<1>4. Events'
  BY <1>2 DEF Loop, Events
<1>5. Texts'
  BY SameTexts DEF Loop, Greet
<1> QED
  BY <1>3, <1>4, <1>5 DEF Loop

\* recv and append: the client grows by a prefix of what it has in its socket.
LEMMA RecvIs ==
  ASSUME IInv, Loop, Recv
  PROVE  \E i \in 1 .. Len(clients), s \in Seq(Pieces) :
           /\ clients[i].fd = batch[1].fd /\ s = UpToNul(Received(conn[batch[1].fd]))
           /\ clients' = [clients EXCEPT ![i] = Grown(clients[i], s)] /\ cur' = i
           /\ conn[batch[1].fd] \in Peers /\ link[conn[batch[1].fd]].inbox \in Seq(Pieces)
<1> DEFINE i == Find(batch[1].fd)
           p == conn[batch[1].fd]
           s == UpToNul(Received(p))
<1>1. i \in 1 .. Len(clients) /\ clients[i].fd = batch[1].fd
  BY FindIs DEF Recv, IInv
<1>2. p \in Peers
  BY <1>1, PeerBehind
<1>3. link[p].inbox \in Seq(Pieces)
  <2> HIDE DEF p
  <2>1. link[p] \in Links
    BY <1>2 DEF Loop, LinksOK
  <2> QED
    BY <2>1, Fields
<1>4. s \in Seq(Pieces)
  BY <1>3, ReceivedIs, UpToNulIs
<1>5. clients' = [clients EXCEPT ![i] = Grown(@, s)] /\ cur' = i
  BY DEF Recv
<1>6. clients' = [clients EXCEPT ![i] = Grown(clients[i], s)]
  BY <1>5
<1> HIDE DEF i, s, p
<1> QED
  BY <1>1, <1>2, <1>3, <1>4, <1>5, <1>6 DEF s, p

LEMMA RecvLoop == ASSUME IInv, Loop, Recv PROVE Loop'
<1> DEFINE f == batch[1].fd
           p == conn[f]
           l == [link[p] EXCEPT !.inbox = SubSeq(link[p].inbox, Len(Received(p)) + 1, Len(link[p].inbox))]
<1>1. p \in Peers /\ LinksOK
  <2>1. Find(f) \in 1 .. Len(clients) /\ clients[Find(f)].fd = f
    BY FindIs DEF Recv, IInv
  <2> QED
    BY <2>1, PeerBehind DEF Loop
<1>2. /\ link' = [link EXCEPT ![p] = l] /\ pc = "events" /\ pc' = "flush"
      /\ UNCHANGED <<backlog, conn, ready, batch, it>> /\ f # Master /\ ~ batch[1].hup
  BY DEF Recv
<1>3. LinkIs(p, l) /\ l.end = link[p].end /\ l.unread = link[p].unread
  <2>1. LinkIs(p, link[p]) /\ link[p] \in Links
    BY <1>1 DEF LinksOK
  <2> DEFINE a == SubSeq(link[p].inbox, Len(Received(p)) + 1, Len(link[p].inbox))
  <2>2. a \in Seq(Pieces) /\ (link[p].inbox = <<>> => a = <<>>)
    <3> DEFINE i == link[p].inbox
               r == Received(p)
    <3>1. i \in Seq(Pieces) /\ Len(i) \in Nat
      BY <2>1, Fields
    <3>2. Len(r) \in 0 .. Len(i)
      BY <3>1, ReceivedIs
    <3>3. a = SubSeq(i, Len(r) + 1, Len(i))
      OBVIOUS
    <3> HIDE DEF i, r, a
    <3>4. a \in Seq(Pieces) /\ (i = <<>> => a = <<>>)
      BY <3>1, <3>2, <3>3
    <3> QED
      BY <3>4 DEF i, a
  <2> HIDE DEF a
  <2>3. l = [link[p] EXCEPT !.inbox = a]
    BY DEF a
  <2> HIDE DEF l
  <2> QED
    BY <2>1, <2>2, <2>3, Fields DEF LinkIs, Links
<1> HIDE DEF l
<1>4. LinksOK' /\ link'[p] = l /\ \A q \in Peers : q # p => link'[q] = link[q]
  <2> HIDE DEF p
  <2> QED
    BY <1>1, <1>2, <1>3, LinkSet
<1>5. \A q \in Peers : Received1(q)'
  <2>1. \A q \in Peers : /\ link'[q].end = "away" => link[q].end = "away"
                         /\ link'[q].unread \in {0, link[q].unread}
    BY <1>3, <1>4
  <2> QED
    BY <1>2, <2>1, ReceivedKept
<1>6. Events'
  BY <1>2 DEF Loop, Events
<1>7. Texts'
  <2>1. PICK i \in 1 .. Len(clients), s \in Seq(Pieces) : clients' = [clients EXCEPT ![i] = Grown(clients[i], s)]
    BY RecvIs
  <2>2. Client(clients[i]) /\ EolPlace(clients[i])
    BY DEF IInv, Shapes, Loop, Texts
  <2>3. EolPlace(Grown(clients[i], s))
    BY <2>2, GrownIs
  <2>4. PICK S : clients \in Seq(S)
    BY DEF IInv, Shapes
  <2>5. /\ Len(clients) \in Nat /\ Len(clients') = Len(clients)
        /\ \A k \in 1 .. Len(clients) : clients'[k] = IF k = i THEN Grown(clients[i], s) ELSE clients[k]
    BY <2>1, <2>4
  <2>6. \A k \in 1 .. Len(clients') :
          EolPlace(clients'[k]) \/ \E n \in 1 .. Len(clients) : clients'[k] = clients[n]
    BY <2>3, <2>5
  <2>7. Texts /\ j' \in Nat /\ msg' = msg /\ log' = log
    BY DEF Loop, Texts, Recv
  <2> QED
    BY <2>5, <2>6, <2>7, TextsKept
<1> QED
  BY <1>4, <1>5, <1>6, <1>7 DEF Loop

\* flush_msg: the first line of *curclient is logged and goes to everybody.
FlushesLine ==
  /\ clients[cur].eolpos # 0
  /\ msg' = SubSeq(clients[cur].curmsg, 1, clients[cur].eolpos) /\ log' = Append(log, msg')
  /\ clients' = [clients EXCEPT ![cur] = Flushed(clients[cur])]
  /\ j' = 0 /\ it' = 1 /\ pc' = "send" /\ UNCHANGED <<batch, net, cur, out>>

LEMMA FlushTexts ==
  ASSUME IInv, Loop, cur <= Len(clients), FlushesLine
  PROVE  Texts'
<1> DEFINE c == clients[cur]
<1>1. cur \in 1 .. Len(clients) /\ Len(clients) \in Nat
  BY DEF IInv, Iterators, Shapes
<1>2. Client(c) /\ EolPlace(c)
  BY <1>1 DEF IInv, Shapes, Loop, Texts
<1>3. EolPlace(Flushed(c))
  BY <1>2, FlushedIs
<1>4. msg' \in Seq(Pieces)
  <2>1. c.curmsg \in Seq(Pieces) /\ c.eolpos \in 0 .. Len(c.curmsg)
    BY <1>2 DEF EolPlace
  <2>2. SubSeq(c.curmsg, 1, c.eolpos) \in Seq(Pieces)
    <3> HIDE DEF c
    <3> QED
      BY <2>1, PrefixOf
  <2> QED
    BY <2>2 DEF FlushesLine
<1>5. log' \in Seq(Seq(Pieces))
  <2>1. log \in Seq(Seq(Pieces)) /\ log' = Append(log, msg')
    BY DEF Loop, Texts, FlushesLine
  <2> QED
    BY <1>4, <2>1
<1>6. PICK S : clients \in Seq(S)
  BY DEF IInv, Shapes
<1>7. /\ Len(clients') = Len(clients)
      /\ \A k \in 1 .. Len(clients) : clients'[k] = IF k = cur THEN Flushed(c) ELSE clients[k]
  BY <1>1, <1>6 DEF FlushesLine
<1> HIDE DEF c
<1>8. \A k \in 1 .. Len(clients') : EolPlace(clients'[k])
  BY <1>3, <1>7 DEF Loop, Texts
<1> QED
  BY <1>4, <1>5, <1>8 DEF Texts, FlushesLine

LEMMA FlushLoop == ASSUME IInv, Loop, Flush PROVE Loop'
<1>1. UNCHANGED <<link, backlog, conn, ready>> /\ pc = "flush" /\ Events
  BY DEF Flush, Undefined, net, Loop
<1>2. batch # <<>>
  BY <1>1 DEF Events
<1>3. CASE Undefined
  BY <1>3, UndefinedLoop
<1>4. CASE EventDone /\ UNCHANGED <<clients, msg, j, it, log>>
  <2>1. Events'
    BY <1>1, <1>2, <1>4, EventLeftOK DEF Events
  <2>2. Texts'
    BY <1>4, SameTexts DEF Loop
  <2> QED
    BY <1>1, <2>1, <2>2, SameLinks
<1>5. CASE cur <= Len(clients) /\ FlushesLine
  <2>1. 1 \in 1 .. MaxFd + 1
    OBVIOUS
  <2>2. Events'
    BY <1>1, <1>2, <1>5, <2>1 DEF Events, FlushesLine
  <2>3. Texts'
    BY <1>5, FlushTexts
  <2> QED
    BY <1>1, <2>2, <2>3, SameLinks
<1> QED
  <2>1. Len(clients) \in Nat /\ cur \in Nat
    BY DEF IInv, Shapes, Iterators
  <2> QED
    BY <1>3, <1>4, <1>5, <2>1 DEF Flush, FlushesLine

\* The three outcomes of a send of the broadcast.
LEMMA SendPartIs ==
  ASSUME IInv, Loop, SendPart
  PROVE  LET f == clients[it].fd IN
         /\ f \in Fds /\ conn[f] \in Peers /\ it \in 1 .. Len(clients) /\ pc = "send"
         /\ \/ pc' = "killed" /\ UNCHANGED <<net, batch, clients, cur, msg, j, it, log, out>>
            \/ /\ Drop(f) /\ link' = [link EXCEPT ![conn[f]] = Close(conn[f])]
               /\ NextClient(Len(clients) - 1) /\ UNCHANGED <<backlog, batch, cur, msg, log, out>>
            \/ /\ link' = [link EXCEPT ![conn[f]] = AfterSend(conn[f], Len(Part))]
               /\ Taken(conn[f], Len(Part)) > 0
               /\ out' = [out EXCEPT ![conn[f]] = @ \o SubSeq(Part, 1, Taken(conn[f], Len(Part)))]
               /\ NextClient(Len(clients))
               /\ UNCHANGED <<backlog, conn, ready, batch, clients, cur, msg, log>>
<1>1. it \in 1 .. Len(clients) /\ pc = "send"
  BY DEF SendPart, IInv, Iterators
<1> QED
  BY <1>1, PeerBehind DEF SendPart

LEMMA NextClientOK ==
  ASSUME NEW n \in Nat, NextClient(n), it \in 1 .. n + 1, n <= MaxFd, pc = "send"
  PROVE  it' \in 1 .. MaxFd + 1 /\ pc' \in {"send", "flush", "undefined"}
<1>1. CASE it < n
  BY <1>1 DEF NextClient
<1>2. CASE it > n
  BY <1>2 DEF NextClient
<1>3. CASE it = n
  BY <1>3 DEF NextClient
<1> QED
  BY <1>1, <1>2, <1>3

LEMMA PartsForth == ASSUME Texts, NEW n, NextClient(n) PROVE j' \in Nat
<1>1. j \in Nat /\ j + PartMax \in Nat
  BY DEF Texts
<1> QED
  BY <1>1 DEF NextClient

LEMMA SendPartLoop == ASSUME IInv, Loop, SendPart PROVE Loop'
<1> DEFINE f == clients[it].fd
           p == conn[f]
<1>1. /\ f \in Fds /\ p \in Peers /\ it \in 1 .. Len(clients) /\ pc = "send"
      /\ \/ pc' = "killed" /\ UNCHANGED <<net, batch, clients, cur, msg, j, it, log, out>>
         \/ /\ Drop(f) /\ link' = [link EXCEPT ![p] = Close(p)]
            /\ NextClient(Len(clients) - 1) /\ UNCHANGED <<backlog, batch, cur, msg, log, out>>
         \/ /\ link' = [link EXCEPT ![p] = AfterSend(p, Len(Part))]
            /\ NextClient(Len(clients))
            /\ UNCHANGED <<backlog, conn, ready, batch, clients, cur, msg, log>>
  BY SendPartIs
<1> DEFINE n == Len(clients)
<1>2. n \in Nat /\ n <= MaxFd /\ MaxFd \in Nat
  BY VectorFits
<1>3. ASSUME pc' \in {"send", "flush", "undefined"}, it' \in 1 .. MaxFd + 1, batch' = batch,
             ready' \in Seq(Watched)
      PROVE  Events'
  BY <1>1, <1>3 DEF Loop, Events
<1>4. CASE pc' = "killed" /\ UNCHANGED <<net, batch, clients, it, msg, j, log>>
  <2>1. Events'
    BY <1>4 DEF Loop, Events, net
  <2>2. Texts'
    BY <1>4, SameTexts DEF Loop
  <2> QED
    BY <1>4, <2>1, <2>2, SameLinks DEF net
<1>5. CASE /\ Drop(f) /\ link' = [link EXCEPT ![p] = Close(p)]
           /\ NextClient(Len(clients) - 1) /\ UNCHANGED <<backlog, batch, msg, log>>
  <2>1. LinksOK' /\ (\A q \in Peers : Received1(q)') /\ ready' \in Seq(Watched)
    <3> HIDE DEF f
    <3> QED
      BY <1>1, <1>5, DropLoop
  <2>2. n - 1 \in Nat /\ n - 1 <= MaxFd /\ it \in 1 .. (n - 1) + 1
    BY <1>1, <1>2
  <2>3. it' \in 1 .. MaxFd + 1 /\ pc' \in {"send", "flush", "undefined"}
    BY <1>1, <1>5, <2>2, NextClientOK
  <2>4. Texts'
    <3>1. Texts /\ j' \in Nat
      BY <1>5, PartsForth DEF Loop
    <3>2. Find(f) # 0
      BY <1>1, FindIs DEF IInv
    <3> HIDE DEF f
    <3> QED
      BY <1>1, <1>5, <3>1, <3>2, DropTexts
  <2> QED
    BY <1>3, <1>5, <2>1, <2>3, <2>4 DEF Loop
<1>6. CASE /\ link' = [link EXCEPT ![p] = AfterSend(p, Len(Part))]
           /\ NextClient(Len(clients)) /\ UNCHANGED <<backlog, conn, ready, batch, clients, msg, log>>
  <2>1. Len(Part) \in Nat
    BY PartIs DEF Loop, Texts
  <2>2. LinksOK' /\ (\A q \in Peers : Received1(q)')
    <3> HIDE DEF f
    <3> QED
      BY <1>1, <1>6, <2>1, SentTo
  <2>3. it \in 1 .. n + 1
    BY <1>1, <1>2
  <2>4. it' \in 1 .. MaxFd + 1 /\ pc' \in {"send", "flush", "undefined"}
    BY <1>1, <1>2, <1>6, <2>3, NextClientOK
  <2>5. Events'
    BY <1>3, <1>6, <2>4 DEF Loop, Events
  <2>6. Texts'
    <3>1. Texts /\ j' \in Nat /\ Len(clients) \in Nat
      BY <1>2, <1>6, PartsForth DEF Loop
    <3>2. \A i \in 1 .. Len(clients') : clients'[i] = clients[i] /\ i \in 1 .. Len(clients)
      BY <1>6
    <3> QED
      BY <1>6, <3>1, <3>2, TextsKept
  <2> QED
    BY <2>2, <2>5, <2>6 DEF Loop
<1> QED
  BY <1>1, <1>4, <1>5, <1>6

LEMMA InitLoop == Init => Loop
<1> SUFFICES ASSUME Init PROVE Loop
  OBVIOUS
<1>1. LinksOK
  <2> DEFINE l == [end |-> "away", typed |-> 0, inbox |-> <<>>, unread |-> 0, owed |-> FALSE,
                   err |-> "none"]
  <2>1. \A p \in Peers : LinkIs(p, l) /\ l \in Links
    BY DEF LinkIs, Links
  <2>2. link = [p \in Peers |-> l]
    BY DEF Init
  <2> HIDE DEF l
  <2> QED
    BY <2>1, <2>2 DEF LinksOK
<1>2. backlog = <<>> /\ Len(backlog) = 0 /\ \A f \in Fds : conn[f] = None
  BY DEF Init
<1>3. \A p \in Peers : Received1(p)
  BY <1>2 DEF Received1
<1>4. Events
  <2>1. 1 \in 1 .. MaxFd + 1
    OBVIOUS
  <2> QED
    BY <2>1 DEF Init, Events
<1>5. Texts
  BY DEF Init, Texts
<1> QED
  BY <1>1, <1>3, <1>4, <1>5 DEF Loop

LEMMA LoopStep == IInv /\ Loop /\ [Next]_vars => Loop'
<1> SUFFICES ASSUME IInv, Loop, [Next]_vars PROVE Loop'
  OBVIOUS
<1>1. CASE UNCHANGED vars
  BY <1>1, SameTexts, SameLinks DEF vars, net, server, Loop, Events
<1> QED
  BY <1>1, ConnectLoop, PeerLoop, WaitLoop, DropOnEventLoop, AcceptLoop, GreetLoop, AcceptFailsLoop, RecvLoop,
     FlushLoop, SendPartLoop DEF Next

--------------------------------------------------------------------------------
(* The steps and the edges *)

\* The table of descriptors is large enough for everybody who may connect.
EnoughFds == IsFiniteSet(Peers) /\ Cardinality(Peers) <= MaxFd

\* While somebody waits in the queue a descriptor is left: each of the others
\* holds one at most.
LEMMA DescriptorLeft ==
  ASSUME EnoughFds, IInv, Loop, backlog # <<>>
  PROVE  FreeFds # {}
<1> SUFFICES ASSUME FreeFds = {} PROVE FALSE
  OBVIOUS
<1>1. backlog \in Seq(Peers) /\ conn \in [Fds -> Peers \cup {None}]
  BY DEF IInv, Shapes
<1>2. 1 \in 1 .. Len(backlog) /\ backlog[1] \in Peers
  BY <1>1
<1> DEFINE p == backlog[1]
           Q == Peers \ {p}
<1>3. conn \in Injection(Fds, Q)
  <2>1. \A f \in Fds : conn[f] # None
    BY DEF FreeFds
  <2>2. \A f \in Fds : conn[f] # p
    BY <1>2 DEF Loop, Received1
  <2>3. conn \in [Fds -> Q]
    BY <1>1, <2>1, <2>2
  <2>4. \A f, g \in Fds : conn[f] = conn[g] => f = g
    BY <2>3 DEF Loop, Received1
  <2> HIDE DEF Q
  <2> QED
    BY <2>3, <2>4 DEF Injection, IsInjective
<1>4. IsFiniteSet(Q) /\ Cardinality(Q) = Cardinality(Peers) - 1 /\ Cardinality(Peers) \in Nat
  BY <1>2, FS_RemoveElement, FS_CardinalityType DEF EnoughFds
<1> HIDE DEF Q
<1>5. Cardinality(Fds) <= Cardinality(Q) /\ Cardinality(Fds) = MaxFd
  BY <1>3, <1>4, FS_Injection, FdsCount
<1> QED
  BY <1>4, <1>5 DEF EnoughFds

LEMMA EdgesFrame ==
  ASSUME IInv, Edges, backlog' = backlog, \A f \in Fds : conn'[f] \in {conn[f], None},
         \A q \in Peers : link'[q].err # "none" => link[q].err # "none",
         backlog # <<>> /\ Told(Master, FALSE) => Told(Master, FALSE)',
         \A f \in Fds : conn'[f] # None /\ Told(f, TRUE) => Told(f, TRUE)'
  PROVE  Edges'
<1>1. MasterEdge'
  BY DEF Edges, MasterEdge
<1>2. ASSUME NEW f \in Fds PROVE HupEdge(f)'
  <2> SUFFICES ASSUME conn'[f] # None, Hup(f)' PROVE Told(f, TRUE)'
    BY DEF HupEdge
  <2>1. conn'[f] = conn[f] /\ conn[f] \in Peers
    BY DEF IInv, Shapes
  <2>2. Hup(f)
    BY <2>1 DEF Hup
  <2>3. Told(f, TRUE)
    BY <2>1, <2>2 DEF Edges, HupEdge
  <2> QED
    BY <2>3
<1> QED
  BY <1>1, <1>2 DEF Edges

\* No event is taken and no signal is lost, but for those of g.
LEMMA StillTold ==
  ASSUME NEW f, NEW g, NEW h, f # g, ToSet(ready) \ {g} \subseteq ToSet(ready'), batch' = batch, Told(f, h)
  PROVE  Told(f, h)'
  BY DEF Told

LEMMA TailTold ==
  ASSUME Events, EventDone, batch # <<>>, NEW f, NEW g, NEW h, f # g,
         ToSet(ready) \ {g} \subseteq ToSet(ready'),
         batch[1].fd # f \/ (h /\ ~ batch[1].hup), Told(f, h)
  PROVE  Told(f, h)'
<1>1. CASE f \in ToSet(ready)
  BY <1>1 DEF Told
<1>2. CASE \E i \in 1 .. Len(batch) : batch[i].fd = f /\ (h => batch[i].hup)
  <2>1. PICK i \in 1 .. Len(batch) : batch[i].fd = f /\ (h => batch[i].hup)
    BY <1>2
  <2>2. i # 1
    BY <2>1
  <2>3. Len(batch') = Len(batch) - 1 /\ \A k \in 1 .. Len(batch) - 1 : batch'[k] = batch[k + 1]
    BY EventLeft
  <2>4. Len(batch) \in Nat
    BY DEF Events
  <2>5. i - 1 \in 1 .. Len(batch') /\ batch'[i - 1] = batch[i]
    BY <2>2, <2>3, <2>4
  <2> QED
    BY <2>1, <2>5 DEF Told
<1> QED
  BY <1>1, <1>2 DEF Told

LEMMA ConnectEdges == ASSUME IInv, Loop, Edges, NEW p \in Peers, Connect(p) PROVE Edges'
<1>1. UNCHANGED <<conn, server>> /\ ready' = Signal({Master})
  BY DEF Connect
<1>2. ToSet(ready') = ToSet(ready) \cup {Master} /\ batch' = batch
  BY <1>1, MasterIs, ReadySignalled DEF Loop, server
<1>3. MasterEdge'
  BY <1>2 DEF MasterEdge, Told
<1>4. ASSUME NEW f \in Fds PROVE HupEdge(f)'
  <2> SUFFICES ASSUME conn'[f] # None, Hup(f)' PROVE Told(f, TRUE)'
    BY DEF HupEdge
  <2>1. conn'[f] = conn[f] /\ conn[f] \in Peers
    BY <1>1 DEF IInv, Shapes
  <2>2. \A q \in Peers : link'[q].err = link[q].err
    <3>1. link'[p] = [link[p] EXCEPT !.end = "up"] /\ \A q \in Peers : q # p => link'[q] = link[q]
      BY ConnectLink DEF Loop
    <3>2. link[p] \in Links
      BY DEF Loop, LinksOK
    <3>3. link'[p].err = link[p].err
      BY <3>1, <3>2, Fields
    <3> QED
      BY <3>1, <3>3
  <2>3. Hup(f)
    BY <2>1, <2>2 DEF Hup
  <2>4. Told(f, TRUE)
    BY <2>1, <2>3 DEF Edges, HupEdge
  <2> QED
    BY <1>2, <2>4 DEF Told
<1> QED
  BY <1>3, <1>4 DEF Edges

\* A reset is signalled.
LEMMA SignalEdges ==
  ASSUME IInv, Loop, Edges, NEW p \in Peers, UNCHANGED <<backlog, conn, server>>,
         ready' = Signal(Accepted(p)), \A q \in Peers : q # p => link'[q] = link[q]
  PROVE  Edges'
<1>1. ToSet(ready') = ToSet(ready) \cup Accepted(p) /\ batch' = batch
  BY AcceptedIs, ReadySignalled DEF Loop, server
<1>2. MasterEdge'
  BY <1>1 DEF Edges, MasterEdge, Told
<1>3. ASSUME NEW f \in Fds PROVE HupEdge(f)'
  <2> SUFFICES ASSUME conn'[f] # None, Hup(f)' PROVE Told(f, TRUE)'
    BY DEF HupEdge
  <2>1. conn'[f] = conn[f] /\ conn[f] \in Peers
    BY DEF IInv, Shapes
  <2>2. CASE conn[f] = p
    <3>1. f \in Accepted(p)
      BY <2>2 DEF Accepted
    <3> QED
      BY <1>1, <3>1 DEF Told
  <2>3. CASE conn[f] # p
    <3>1. Hup(f)
      BY <2>1, <2>3 DEF Hup
    <3>2. Told(f, TRUE)
      BY <2>1, <3>1 DEF Edges, HupEdge
    <3> QED
      BY <1>1, <3>2 DEF Told
  <2> QED
    BY <2>2, <2>3
<1> QED
  BY <1>2, <1>3 DEF Edges

LEMMA PeerEdges ==
  ASSUME IInv, Loop, Edges, NEW p \in Peers, Type(p) \/ Read(p) \/ Leave(p) \/ ResetArrives(p)
  PROVE  Edges'
<1>1. CASE Type(p)
  BY <1>1, SignalEdges, TypeLink DEF Type, Loop
<1>2. CASE Leave(p)
  BY <1>2, SignalEdges, LeaveLink DEF Leave, Loop
<1>3. CASE ResetArrives(p)
  BY <1>3, SignalEdges, ResetLink DEF ResetArrives, Loop
<1>4. CASE Read(p)
  <2>1. link'[p] = [link[p] EXCEPT !.unread = 0] /\ \A q \in Peers : q # p => link'[q] = link[q]
    BY <1>4, ReadLink DEF Loop
  <2>2. link[p] \in Links
    BY DEF Loop, LinksOK
  <2>3. link'[p].err = link[p].err
    BY <2>1, <2>2, Fields
  <2>4. \A q \in Peers : link'[q].err = link[q].err
    BY <2>1, <2>3
  <2>5. UNCHANGED <<backlog, conn, ready, batch>>
    BY <1>4 DEF Read, server
  <2> QED
    BY <2>4, <2>5, EdgesFrame DEF Told
<1> QED
  BY <1>1, <1>2, <1>3, <1>4

LEMMA WaitEdges == ASSUME IInv, Loop, Edges, EpollWait PROVE Edges'
<1>1. \A f \in ToSet(ready) : Hup(f) \/ Readable(f) =>
        \E i \in 1 .. Len(batch') : batch'[i] = [fd |-> f, hup |-> Hup(f)]
  BY WaitEvents DEF Loop
<1>2. UNCHANGED <<link, backlog, conn>> /\ batch = <<>>
  BY DEF EpollWait, Loop, Events
<1>3. \A f, h : Told(f, h) => f \in ToSet(ready)
  BY <1>2 DEF Told
<1>4. MasterEdge'
  <2> SUFFICES ASSUME backlog # <<>> PROVE Told(Master, FALSE)'
    BY <1>2 DEF MasterEdge
  <2>1. Master \in ToSet(ready) /\ Readable(Master)
    BY <1>3 DEF Edges, MasterEdge, Readable
  <2>2. PICK i \in 1 .. Len(batch') : batch'[i] = [fd |-> Master, hup |-> Hup(Master)]
    BY <1>1, <2>1
  <2>3. batch'[i].fd = Master
    BY <2>2
  <2> QED
    BY <2>3 DEF Told
<1>5. ASSUME NEW f \in Fds PROVE HupEdge(f)'
  <2> SUFFICES ASSUME conn[f] # None, Hup(f) PROVE Told(f, TRUE)'
    BY <1>2 DEF HupEdge, Hup
  <2>1. f \in ToSet(ready)
    BY <1>3 DEF Edges, HupEdge
  <2>2. PICK i \in 1 .. Len(batch') : batch'[i] = [fd |-> f, hup |-> Hup(f)]
    BY <1>1, <2>1
  <2>3. batch'[i].fd = f /\ batch'[i].hup = Hup(f)
    <3> DEFINE h == Hup(f)
    <3> HIDE DEF h
    <3>1. batch'[i] = [fd |-> f, hup |-> h]
      BY <2>2 DEF h
    <3>2. batch'[i].fd = f /\ batch'[i].hup = h
      BY <3>1
    <3> QED
      BY <3>2 DEF h
  <2> QED
    BY <2>3, Zenon DEF Told
<1> QED
  BY <1>4, <1>5 DEF Edges

\* A client that is dropped takes no edge of another along.
LEMMA DropEdges ==
  ASSUME IInv, Loop, Edges, NEW f \in Fds, conn[f] \in Peers, Drop(f),
         link' = [link EXCEPT ![conn[f]] = Close(conn[f])], backlog' = backlog,
         \A g, h : Told(g, h) /\ g # f => Told(g, h)'
  PROVE  Edges'
<1> DEFINE p == conn[f]
<1>1. /\ LinkIs(p, Close(p)) /\ Close(p).err = link[p].err
  BY CloseLink DEF Loop
<1>2. link'[p] = Close(p) /\ \A q \in Peers : q # p => link'[q] = link[q]
  <2> HIDE DEF p
  <2>1. LinksOK /\ p \in Peers /\ link' = [link EXCEPT ![p] = Close(p)]
    BY DEF Loop, p
  <2> QED
    BY <1>1, <2>1, LinkSet
<1>3. \A q \in Peers : link'[q].err = link[q].err
  BY <1>1, <1>2
<1>4. \A g \in Fds : conn'[g] = IF g = f THEN None ELSE conn[g]
  BY DEF Drop, IInv, Shapes
<1>5. Master # f
  BY MasterIs
<1> QED
  BY <1>3, <1>4, <1>5, EdgesFrame

LEMMA DropOnEventEdges == ASSUME IInv, Loop, Edges, DropOnEvent PROVE Edges'
<1> DEFINE f == batch[1].fd
<1>1. CASE Undefined
  BY <1>1, EdgesFrame DEF Undefined, net, Told
<1>2. CASE /\ Find(f) # 0 /\ Drop(f) /\ link' = [link EXCEPT ![conn[f]] = Close(conn[f])]
           /\ EventDone /\ backlog' = backlog
  <2>1. f \in Fds /\ conn[f] \in Peers
    BY <1>2, FindIs, PeerBehind DEF IInv
  <2>2. ToSet(ready') = ToSet(ready) \ {f}
    <3> HIDE DEF f
    <3> QED
      BY <1>2, <2>1, DropLoop
  <2>3. batch # <<>> /\ Events
    BY DEF DropOnEvent, Loop, Events
  <2>4. \A g, h : Told(g, h) /\ g # f => Told(g, h)'
    BY <1>2, <2>2, <2>3, TailTold
  <2> HIDE DEF f
  <2> QED
    BY <1>2, <2>1, <2>4, DropEdges
<1> QED
  BY <1>1, <1>2 DEF DropOnEvent

LEMMA AcceptFailsEdges == ASSUME EnoughFds, IInv, Loop, Edges, AcceptFails PROVE Edges'
<1>1. backlog = <<>>
  BY DescriptorLeft DEF AcceptFails
<1>2. batch # <<>> /\ Events /\ EventDone /\ UNCHANGED <<link, backlog, conn, ready>> /\ batch[1].fd = Master
  BY DEF AcceptFails, Loop, Events, net
<1>3. ASSUME NEW f \in Fds, Told(f, TRUE) PROVE Told(f, TRUE)'
  <2>1. f # Master
    BY MasterIs
  <2> QED
    BY <1>2, <1>3, <2>1, TailTold
<1> QED
  BY <1>1, <1>2, <1>3, EdgesFrame

LEMMA AcceptEdges == ASSUME IInv, Loop, Edges, Accept PROVE Edges'
<1> DEFINE p == Head(backlog)
<1>1. PICK f \in Fds :
        /\ conn[f] = None /\ conn' = [conn EXCEPT ![f] = p]
        /\ ready' = IF link[p].inbox # <<>> \/ link[p].end = "gone" THEN Append(ready, f) ELSE ready
        /\ p \in Peers /\ backlog # <<>> /\ backlog' = Tail(backlog)
        /\ UNCHANGED <<link, batch>>
  BY AcceptIs
<1>2. \A g \in Fds : conn'[g] = IF g = f THEN p ELSE conn[g]
  BY <1>1 DEF IInv, Shapes
<1>3. /\ ToSet(ready) \subseteq ToSet(ready')
      /\ link[p].end = "gone" => f \in ToSet(ready')
  <2>1. ready \in Seq(Watched) /\ f \in Watched
    BY DEF Loop, Events, Watched
  <2>2. Append(ready, f) \in Seq(Watched) /\ Elements(Append(ready, f)) = Elements(ready) \cup {f}
    BY <2>1, Appended
  <2>3. \A s \in Seq(Watched) : ToSet(s) = Elements(s)
    BY DEF ToSet, Elements
  <2>4. ToSet(Append(ready, f)) = ToSet(ready) \cup {f}
    BY <2>1, <2>2, <2>3
  <2> QED
    BY <1>1, <2>4
<1> HIDE DEF p
<1>4. MasterEdge'
  <2>1. Told(Master, FALSE)
    BY <1>1 DEF Edges, MasterEdge
  <2> QED
    BY <1>1, <1>3, <2>1 DEF MasterEdge, Told
<1>5. ASSUME NEW g \in Fds PROVE HupEdge(g)'
  <2> SUFFICES ASSUME conn'[g] # None, Hup(g)' PROVE Told(g, TRUE)'
    BY DEF HupEdge
  <2>1. CASE g = f
    <3>1. link[p].err # "none"
      BY <1>1, <1>2, <2>1 DEF Hup
    <3>2. link[p].end = "gone"
      BY <1>1, <3>1 DEF Loop, LinksOK, LinkIs
    <3> QED
      BY <1>3, <2>1, <3>2 DEF Told
  <2>2. CASE g # f
    <3>1. Hup(g) /\ conn[g] # None
      BY <1>1, <1>2, <2>2 DEF Hup
    <3>2. Told(g, TRUE)
      BY <3>1 DEF Edges, HupEdge
    <3> QED
      BY <1>1, <1>3, <3>2 DEF Told
  <2> QED
    BY <2>1, <2>2
<1> QED
  BY <1>4, <1>5 DEF Edges

\* A send resets nobody.
LEMMA SentEdges ==
  ASSUME IInv, Loop, Edges, NEW f \in Fds, conn[f] \in Peers, NEW n \in Nat,
         link' = [link EXCEPT ![conn[f]] = AfterSend(conn[f], n)], UNCHANGED <<backlog, conn, ready, batch>>
  PROVE  Edges'
<1> DEFINE p == conn[f]
<1>1. p \in Peers /\ link' = [link EXCEPT ![p] = AfterSend(p, n)] /\ LinksOK
  BY DEF Loop
<1>2. link[p].end # "away"
  BY DEF Loop, Received1
<1> HIDE DEF p
<1>3. LinkIs(p, AfterSend(p, n)) /\ (AfterSend(p, n).err # "none" <=> link[p].err # "none")
  BY <1>1, <1>2, SendLink
<1>4. link'[p] = AfterSend(p, n) /\ \A q \in Peers : q # p => link'[q] = link[q]
  BY <1>1, <1>3, LinkSet
<1>5. \A q \in Peers : link'[q].err # "none" => link[q].err # "none"
  BY <1>3, <1>4
<1> QED
  BY <1>5, EdgesFrame DEF Told

LEMMA GreetEdges == ASSUME IInv, Loop, Edges, Greet PROVE Edges'
<1> DEFINE f == Last(clients).fd
<1>1. f \in Fds /\ conn[f] \in Peers
  BY GreetIs
<1>2. /\ link' = [link EXCEPT ![conn[f]] = AfterSend(conn[f], 1)]
      /\ UNCHANGED <<backlog, conn, ready, batch>>
  BY DEF Greet, AcceptsAgain
<1> HIDE DEF f
<1> QED
  BY <1>1, <1>2, SentEdges

LEMMA RecvEdges == ASSUME IInv, Loop, Edges, Recv PROVE Edges'
<1> DEFINE p == conn[batch[1].fd]
<1>1. p \in Peers
  BY RecvIs
<1>2. /\ link' = [link EXCEPT ![p].inbox = SubSeq(@, Len(Received(p)) + 1, Len(@))]
      /\ UNCHANGED <<backlog, conn, ready, batch>>
  BY DEF Recv
<1> HIDE DEF p
<1>3. \A q \in Peers : link'[q].err = link[q].err
  <2> DEFINE a == SubSeq(link[p].inbox, Len(Received(p)) + 1, Len(link[p].inbox))
  <2>1. link' = [link EXCEPT ![p] = [link[p] EXCEPT !.inbox = a]]
    BY <1>1, <1>2
  <2> HIDE DEF a
  <2>2. \A q \in Peers : link[q] \in Links /\ link \in [Peers -> Links]
    BY DEF Loop, LinksOK
  <2>3. [link[p] EXCEPT !.inbox = a].err = link[p].err
    BY <1>1, <2>2, Fields
  <2> QED
    BY <1>1, <2>1, <2>2, <2>3
<1> QED
  BY <1>2, <1>3, EdgesFrame DEF Told

LEMMA FlushEdges == ASSUME IInv, Loop, Edges, Flush PROVE Edges'
<1>1. UNCHANGED net /\ pc = "flush"
  BY DEF Flush, Undefined
<1>2. batch # <<>> /\ batch[1].fd # Master /\ ~ batch[1].hup /\ Events
  BY <1>1 DEF Loop, Events
<1>3. CASE batch' = batch
  BY <1>1, <1>3, EdgesFrame DEF net, Told
<1>4. CASE EventDone
  <2>1. Told(Master, FALSE) => Told(Master, FALSE)'
    <3>1. CASE Master \in ToSet(ready)
      BY <1>1, <3>1 DEF Told, net
    <3>2. CASE \E i \in 1 .. Len(batch) : batch[i].fd = Master
      <4>1. 1 # Master
        BY DEF Master
      <4>2. Told(Master, FALSE)
        BY <3>2 DEF Told
      <4> QED
        BY <1>1, <1>2, <1>4, <4>1, <4>2, TailTold DEF net
    <3> QED
      BY <3>1, <3>2 DEF Told
  <2>2. ASSUME NEW f \in Fds, Told(f, TRUE) PROVE Told(f, TRUE)'
    <3>1. f # Master
      BY MasterIs
    <3> QED
      BY <1>1, <1>2, <1>4, <2>2, <3>1, TailTold DEF net
  <2> QED
    BY <1>1, <2>1, <2>2, EdgesFrame DEF net
<1> QED
  BY <1>3, <1>4 DEF Flush, Undefined

LEMMA SendPartEdges == ASSUME IInv, Loop, Edges, SendPart PROVE Edges'
<1> DEFINE f == clients[it].fd
           p == conn[f]
<1>1. /\ f \in Fds /\ p \in Peers
      /\ \/ UNCHANGED <<net, batch>>
         \/ /\ Drop(f) /\ link' = [link EXCEPT ![p] = Close(p)] /\ UNCHANGED <<backlog, batch>>
         \/ /\ link' = [link EXCEPT ![p] = AfterSend(p, Len(Part))]
            /\ UNCHANGED <<backlog, conn, ready, batch>>
  BY SendPartIs
<1>2. CASE UNCHANGED <<net, batch>>
  BY <1>2, EdgesFrame DEF net, Told
<1>3. CASE Drop(f) /\ link' = [link EXCEPT ![p] = Close(p)] /\ UNCHANGED <<backlog, batch>>
  <2> HIDE DEF f
  <2>1. ToSet(ready') = ToSet(ready) \ {f}
    BY <1>1, <1>3, DropLoop
  <2>2. \A g, h : Told(g, h) /\ g # f => Told(g, h)'
    BY <1>3, <2>1 DEF Told
  <2> QED
    BY <1>1, <1>3, <2>2, DropEdges
<1>4. CASE link' = [link EXCEPT ![p] = AfterSend(p, Len(Part))] /\ UNCHANGED <<backlog, conn, ready, batch>>
  <2>1. Len(Part) \in Nat
    BY PartIs DEF Loop, Texts
  <2> HIDE DEF f
  <2> QED
    BY <1>1, <1>4, <2>1, SentEdges
<1> QED
  BY <1>1, <1>2, <1>3, <1>4

LEMMA EdgesStep == EnoughFds /\ IInv /\ Loop /\ Edges /\ [Next]_vars => Edges'
<1> SUFFICES ASSUME EnoughFds, IInv, Loop, Edges, [Next]_vars PROVE Edges'
  OBVIOUS
<1>1. CASE UNCHANGED vars
  BY <1>1, EdgesFrame DEF vars, net, server, Told
<1> QED
  BY <1>1, ConnectEdges, PeerEdges, WaitEdges, DropOnEventEdges, AcceptEdges, GreetEdges, AcceptFailsEdges,
     RecvEdges, FlushEdges, SendPartEdges DEF Next

LEMMA InitEdges == Init => Edges
  BY DEF Init, Edges, MasterEdge, HupEdge

--------------------------------------------------------------------------------
(* Theorems about the loop *)

\* The server's own data keep their shape in every run: buffers within their
\* bounds, descriptors, the queue and the ready list as epoll has them, eolpos
\* inside its message, the iterator at most one behind a full vector.
THEOREM TypeCorrect == Spec => []TypeOK
<1>1. Init => IInv /\ Loop
  BY InitOK, InitLoop
<1>2. (IInv /\ Loop) /\ [Next]_vars => (IInv /\ Loop)'
  BY Step, LoopStep
<1>3. IInv /\ Loop => TypeOK
  <2> SUFFICES ASSUME IInv, Loop PROVE TypeOK
    OBVIOUS
  <2>1. \A p \in Peers : link[p].unread \in 0 .. SndBuf /\ link[p].err \in {"none", "reset", "pipe"}
    <3>1. \A p \in Peers : link[p] \in Links
      BY DEF Loop, LinksOK
    <3> QED
      BY <3>1, Fields
  <2>2. ToSet(backlog) \subseteq Peers
    <3>1. backlog \in Seq(Peers)
      BY DEF IInv, Shapes
    <3> QED
      BY <3>1 DEF ToSet
  <2>3. ToSet(ready) \subseteq Fds \cup {Master}
    <3>1. ready \in Seq(Watched)
      BY DEF Loop, Events
    <3> QED
      BY <3>1 DEF ToSet, Watched
  <2>4. \A i \in DOMAIN clients : clients[i].eolpos \in 0 .. Len(clients[i].curmsg)
    <3>1. DOMAIN clients = 1 .. Len(clients)
      BY DEF IInv, Shapes
    <3> QED
      BY <3>1 DEF Loop, Texts, EolPlace
  <2>5. conn \in [Fds -> Peers \cup {None}]
    BY DEF IInv, Shapes
  <2>6. /\ pc \in {"wait", "events", "welcome", "flush", "send", "killed", "undefined"}
        /\ it \in 1 .. MaxFd + 1
    BY DEF Loop, Events
  <2> QED
    BY <2>1, <2>2, <2>3, <2>4, <2>5, <2>6 DEF TypeOK
<1> QED
  BY <1>1, <1>2, <1>3, PTL DEF Spec

\* With a descriptor for everybody who may connect, the edge-triggered loop
\* misses nothing of what it must not miss: whenever it waits it will be told of
\* the queue it left and of every reset.
THEOREM EdgesNotLost == ASSUME EnoughFds PROVE Spec => []EdgesKept
<1>1. Init => IInv /\ Loop /\ Edges
  BY InitOK, InitLoop, InitEdges
<1>2. (IInv /\ Loop /\ Edges) /\ [Next]_vars => (IInv /\ Loop /\ Edges)'
  BY Step, LoopStep, EdgesStep
<1>3. IInv /\ Loop /\ Edges => EdgesKept
  <2> SUFFICES ASSUME Loop, Edges, pc = "wait"
               PROVE  /\ backlog # <<>> => Master \in ToSet(ready)
                      /\ \A f \in Fds : conn[f] # None /\ Hup(f) => f \in ToSet(ready)
    BY DEF EdgesKept
  <2>1. batch = <<>>
    BY DEF Loop, Events
  <2> QED
    BY <2>1 DEF Edges, MasterEdge, HupEdge, Told
<1> QED
  BY <1>1, <1>2, <1>3, PTL DEF Spec

--------------------------------------------------------------------------------
(* The conversation as one sequence *)

\* The function inside FlattenSeq, up to n.
JoinedUpTo(s, n, f) == f = [i \in 1 .. n |-> IF i = 1 THEN s[i] ELSE f[i - 1] \o s[i]]
Joins(s, f, i) == f[i] = IF i = 1 THEN s[i] ELSE f[i - 1] \o s[i]

LEMMA JoinedUnfolds ==
  ASSUME NEW s, NEW n \in Nat, NEW f, JoinedUpTo(s, n, f)
  PROVE  \A i \in 1 .. n : Joins(s, f, i)
  BY Zenon DEF JoinedUpTo, Joins

LEMMA JoinedExists == ASSUME NEW s, NEW m \in Nat PROVE \E f : JoinedUpTo(s, m, f)
<1> DEFINE T == {n \in Nat : \E f : JoinedUpTo(s, n, f)}
<1>1. 0 \in T
  <2>1. JoinedUpTo(s, 0, [i \in 1 .. 0 |-> <<>>])
    <3>1. \A i \in 1 .. 0 : FALSE
      OBVIOUS
    <3> QED
      BY <3>1, Zenon DEF JoinedUpTo
  <2> QED
    BY <2>1
<1>2. ASSUME NEW n \in Nat, n \in T PROVE n + 1 \in T
  <2>1. PICK f : JoinedUpTo(s, n, f)
    BY <1>2
  <2> DEFINE e == IF n + 1 = 1 THEN s[n + 1] ELSE f[n] \o s[n + 1]
             g == [i \in 1 .. n + 1 |-> IF i = n + 1 THEN e ELSE f[i]]
  <2>2. ASSUME NEW i \in 1 .. n + 1 PROVE g[i] = IF i = 1 THEN s[i] ELSE g[i - 1] \o s[i]
    <3>1. CASE i = n + 1
      <4>1. g[i] = e
        BY <3>1
      <4>2. CASE i = 1
        BY <3>1, <4>1, <4>2, Zenon
      <4>3. CASE i # 1
        <5>1. g[i - 1] = f[n] /\ n + 1 # 1
          BY <3>1, <4>3
        <5> HIDE DEF g
        <5>2. e = f[n] \o s[n + 1]
          BY <5>1, Zenon
        <5> HIDE DEF e
        <5> QED
          BY <3>1, <4>1, <4>3, <5>1, <5>2, Zenon
      <4> QED
        BY <4>2, <4>3
    <3>2. CASE i \in 1 .. n
      <4>1. g[i] = f[i] /\ (i # 1 => g[i - 1] = f[i - 1])
        BY <3>2
      <4>2. Joins(s, f, i)
        BY <2>1, <3>2, JoinedUnfolds
      <4> HIDE DEF g
      <4> QED
        BY <4>1, <4>2, Zenon DEF Joins
    <3> QED
      BY <3>1, <3>2
  <2>3. g = [i \in 1 .. n + 1 |-> IF i = 1 THEN s[i] ELSE g[i - 1] \o s[i]]
    <3>1. g = [i \in 1 .. n + 1 |-> g[i]]
      OBVIOUS
    <3> HIDE DEF g
    <3> QED
      BY <2>2, <3>1, Zenon
  <2> HIDE DEF g
  <2>4. JoinedUpTo(s, n + 1, g)
    BY <2>3, Zenon DEF JoinedUpTo
  <2> QED
    BY <2>4
<1> QED
  <2> HIDE DEF T
  <2>1. \A n \in Nat : n \in T
    BY <1>1, <1>2, Induction
  <2>2. m \in T
    BY <2>1
  <2> QED
    BY <2>2 DEF T

LEMMA FlattenUnfolds ==
  ASSUME NEW V, NEW s \in Seq(V), s # <<>>
  PROVE  \E f : JoinedUpTo(s, Len(s), f) /\ FlattenSeq(s) = f[Len(s)]
<1> DEFINE f == CHOOSE g : JoinedUpTo(s, Len(s), g)
<1>1. Len(s) \in Nat /\ Len(s) # 0
  BY EmptyIs
<1>2. JoinedUpTo(s, Len(s), f)
  BY <1>1, JoinedExists
<1>3. FlattenSeq(s) = f[Len(s)]
  BY <1>1 DEF FlattenSeq, JoinedUpTo
<1> HIDE DEF f
<1> QED
  BY <1>2, <1>3

\* The function depends on what is joined only.
Agree(s, t, n) == \A i \in 1 .. n : s[i] = t[i]

LEMMA JoinedSame ==
  ASSUME NEW s, NEW t, NEW n \in Nat, NEW m \in Nat, n <= m, NEW f, NEW g,
         JoinedUpTo(s, n, f), JoinedUpTo(t, m, g), Agree(s, t, n)
  PROVE  Agree(f, g, n)
<1> DEFINE T == {k \in Nat : k \in 1 .. n => f[k] = g[k]}
<1>1. 0 \in T
  OBVIOUS
<1>2. ASSUME NEW k \in Nat, k \in T PROVE k + 1 \in T
  <2> SUFFICES ASSUME k + 1 \in 1 .. n PROVE f[k + 1] = g[k + 1]
    OBVIOUS
  <2>1. k + 1 \in 1 .. m /\ s[k + 1] = t[k + 1] /\ (k + 1) - 1 = k /\ (k + 1 # 1 => k \in 1 .. n)
    BY DEF Agree
  <2>2. Joins(s, f, k + 1) /\ Joins(t, g, k + 1)
    BY <2>1, JoinedUnfolds
  <2>3. k + 1 # 1 => f[(k + 1) - 1] = g[(k + 1) - 1]
    BY <1>2, <2>1
  <2> HIDE DEF T
  <2> QED
    BY <2>1, <2>2, <2>3, Zenon DEF Joins
<1> QED
  <2> HIDE DEF T
  <2>1. \A k \in Nat : k \in T
    BY <1>1, <1>2, Induction
  <2>2. \A k \in Nat : k \in 1 .. n => f[k] = g[k]
    BY <2>1 DEF T
  <2> QED
    BY <2>2 DEF Agree

LEMMA JoinedType ==
  ASSUME NEW V, NEW s \in Seq(Seq(V)), NEW f, JoinedUpTo(s, Len(s), f)
  PROVE  \A i \in 1 .. Len(s) : f[i] \in Seq(V)
<1> DEFINE n == Len(s)
           T == {k \in Nat : k \in 1 .. n => f[k] \in Seq(V)}
<1>0. n \in Nat
  OBVIOUS
<1> HIDE DEF n
<1>1. 0 \in T
  BY <1>0
<1>2. ASSUME NEW k \in Nat, k \in T PROVE k + 1 \in T
  <2> SUFFICES ASSUME k + 1 \in 1 .. n PROVE f[k + 1] \in Seq(V)
    OBVIOUS
  <2>1. s[k + 1] \in Seq(V) /\ (k + 1) - 1 = k /\ (k + 1 # 1 => k \in 1 .. n)
    BY <1>0 DEF n
  <2>2. Joins(s, f, k + 1)
    BY <1>0, JoinedUnfolds DEF n
  <2>3. CASE k + 1 = 1
    BY <2>1, <2>2, <2>3, Zenon DEF Joins
  <2>4. CASE k + 1 # 1
    <3>1. f[k] \in Seq(V)
      BY <1>2, <2>1, <2>4
    <3>2. f[k + 1] = f[k] \o s[k + 1]
      BY <2>1, <2>2, <2>4, Zenon DEF Joins
    <3>3. f[k] \o s[k + 1] \in Seq(V)
      <4> DEFINE a == f[k]
                 b == s[k + 1]
      <4>1. a \in Seq(V) /\ b \in Seq(V)
        BY <2>1, <3>1
      <4> HIDE DEF a, b
      <4>2. a \o b \in Seq(V)
        BY <4>1
      <4> QED
        BY <4>2 DEF a, b
    <3> QED
      BY <3>2, <3>3, Zenon
  <2> QED
    BY <2>3, <2>4
<1> QED
  <2> HIDE DEF T
  <2>1. \A k \in Nat : k \in T
    BY <1>1, <1>2, Induction
  <2>2. \A k \in Nat : k \in 1 .. n => f[k] \in Seq(V)
    BY <2>1 DEF T
  <2> QED
    BY <2>2 DEF n

LEMMA FlattenEmpty == FlattenSeq(<<>>) = <<>>
<1>1. Len(<<>>) = 0
  OBVIOUS
<1> QED
  BY <1>1, Zenon DEF FlattenSeq

\* A message that is added to a sequence of messages comes behind all of them.
LEMMA FlattenIs ==
  ASSUME NEW V, NEW s \in Seq(Seq(V))
  PROVE  /\ FlattenSeq(s) \in Seq(V)
         /\ \A m \in Seq(V) : FlattenSeq(Append(s, m)) = FlattenSeq(s) \o m
<1>1. FlattenSeq(<<>>) = <<>>
  BY FlattenEmpty
<1>2. ASSUME s # <<>> PROVE FlattenSeq(s) \in Seq(V)
  <2>1. PICK f : JoinedUpTo(s, Len(s), f) /\ FlattenSeq(s) = f[Len(s)]
    BY <1>2, FlattenUnfolds
  <2>2. Len(s) \in 1 .. Len(s)
    BY <1>2
  <2> QED
    BY <2>1, <2>2, JoinedType
<1>3. FlattenSeq(s) \in Seq(V)
  BY <1>1, <1>2
<1>4. ASSUME NEW m \in Seq(V) PROVE FlattenSeq(Append(s, m)) = FlattenSeq(s) \o m
  <2> DEFINE t == Append(s, m)
             n == Len(s)
  <2>1. /\ t \in Seq(Seq(V)) /\ Len(t) = n + 1 /\ n \in Nat /\ t[n + 1] = m /\ t # <<>>
        /\ \A i \in 1 .. n : t[i] = s[i]
    <3> DEFINE W == Seq(V)
    <3>1. s \in Seq(W) /\ m \in W
      OBVIOUS
    <3> HIDE DEF W
    <3>2. /\ t \in Seq(W) /\ Len(t) = n + 1 /\ n \in Nat /\ t[n + 1] = m
          /\ \A i \in 1 .. n : t[i] = s[i]
      BY <3>1
    <3> HIDE DEF t, n
    <3>3. t # <<>>
      BY <3>2, EmptyIs
    <3> QED
      BY <3>2, <3>3 DEF W
  <2> HIDE DEF t, n
  <2>2. PICK g : JoinedUpTo(t, n + 1, g) /\ FlattenSeq(t) = g[n + 1]
    <3>1. \E g : JoinedUpTo(t, Len(t), g) /\ FlattenSeq(t) = g[Len(t)]
      BY <2>1, FlattenUnfolds
    <3> QED
      BY <2>1, <3>1, Zenon
  <2>3. Joins(t, g, n + 1)
    BY <2>1, <2>2, JoinedUnfolds
  <2>4. CASE s = <<>>
    <3>1. n + 1 = 1
      BY <2>4 DEF n
    <3>2. FlattenSeq(t) = m
      BY <2>1, <2>2, <2>3, <3>1, Zenon DEF Joins
    <3>3. <<>> \o m = m
      OBVIOUS
    <3> QED
      BY <1>1, <2>4, <3>2, <3>3, Zenon DEF t
  <2>5. CASE s # <<>>
    <3>1. PICK f : JoinedUpTo(s, n, f) /\ FlattenSeq(s) = f[n]
      BY <2>5, FlattenUnfolds DEF n
    <3>2. n \in 1 .. n /\ n + 1 # 1 /\ (n + 1) - 1 = n
      BY <2>1, <2>5 DEF n
    <3>3. f[n] = g[n]
      <4>1. n + 1 \in Nat /\ n <= n + 1 /\ n \in Nat /\ Agree(s, t, n)
        BY <2>1 DEF Agree
      <4>2. Agree(f, g, n)
        BY <2>2, <3>1, <4>1, JoinedSame
      <4> QED
        BY <3>2, <4>2 DEF Agree
    <3>4. g[n + 1] = g[(n + 1) - 1] \o t[n + 1]
      BY <2>3, <3>2, Zenon DEF Joins
    <3> QED
      BY <2>1, <2>2, <3>1, <3>2, <3>3, <3>4, Zenon DEF t
  <2> QED
    BY <2>4, <2>5
<1> QED
  BY <1>3, <1>4

--------------------------------------------------------------------------------
(* The pieces of a peer, in the order it types them *)

Mine(s, p) == \A a \in 1 .. Len(s) : s[a][1] = p
UpTo(s, n) == \A a \in 1 .. Len(s) : s[a][2] <= n
Rising(s) == \A a, b \in 1 .. Len(s) : a < b => s[a][2] < s[b][2]
Before(s, t) == \A a \in 1 .. Len(s), b \in 1 .. Len(t) : s[a][2] < t[b][2]

\* A sequence that holds pieces of p only, no later ones than the n-th.
Stream(s, p, n) == s \in Seq(Pieces) /\ Mine(s, p) /\ Rising(s) /\ UpTo(s, n)

LEMMA PieceIs ==
  ASSUME NEW s \in Seq(Pieces), NEW a \in 1 .. Len(s)
  PROVE  s[a][1] \in Peers /\ s[a][2] \in Nat
<1>1. s[a] \in Pieces
  OBVIOUS
<1> DEFINE t == s[a]
<1> HIDE DEF t
<1>2. t \in Peers \X Nat
  BY <1>1 DEF Pieces, t
<1>3. t[1] \in Peers /\ t[2] \in Nat
  BY <1>2
<1> QED
  BY <1>3 DEF t

LEMMA EmptyStream ==
  ASSUME NEW p, NEW n
  PROVE  Stream(<<>>, p, n) /\ \A s : Before(<<>>, s) /\ Before(s, <<>>)
<1>1. Len(<<>>) = 0 /\ <<>> \in Seq(Pieces) /\ \A a \in 1 .. 0 : FALSE
  OBVIOUS
<1> QED
  BY <1>1 DEF Stream, Mine, Rising, UpTo, Before

LEMMA PrefixStream ==
  ASSUME NEW p, NEW n \in Nat, NEW s, Stream(s, p, n), NEW t \in Seq(Pieces), Prefix(t, s)
  PROVE  Stream(t, p, n) /\ \A u : Before(s, u) => Before(t, u)
<1>1. Len(t) \in Nat /\ Len(s) \in Nat /\ \A a \in 1 .. Len(t) : a \in 1 .. Len(s) /\ t[a] = s[a]
  BY DEF Prefix, Stream
<1> QED
  BY <1>1 DEF Stream, Mine, Rising, UpTo, Before

\* What is behind the first k of s.
Behind(t, s, k) ==
  /\ t \in Seq(Pieces) /\ Len(t) = Len(s) - k
  /\ \A a \in 1 .. Len(s) - k : t[a] = s[k + a]

LEMMA SuffixStream ==
  ASSUME NEW p, NEW n \in Nat, NEW s, Stream(s, p, n), NEW k \in 0 .. Len(s), NEW t, Behind(t, s, k)
  PROVE  /\ Stream(t, p, n)
         /\ \A u : Before(u, s) => Before(u, t)
         /\ \A u : Before(s, u) => Before(t, u)
         /\ \A u : Prefix(u, s) /\ Len(u) \in 0 .. k => Before(u, t)
<1>1. Len(s) \in Nat
  BY DEF Stream
<1>2. \A a \in 1 .. Len(t) : k + a \in 1 .. Len(s) /\ t[a] = s[k + a] /\ a \in Nat
  BY <1>1 DEF Behind
<1>3. Stream(t, p, n)
  <2>1. Rising(t)
    <3> SUFFICES ASSUME NEW a \in 1 .. Len(t), NEW b \in 1 .. Len(t), a < b PROVE t[a][2] < t[b][2]
      BY DEF Rising
    <3>1. k + a < k + b
      BY <1>2
    <3> QED
      BY <1>2, <3>1 DEF Stream, Rising
  <2>2. Mine(t, p)
    BY <1>2 DEF Stream, Mine
  <2>3. UpTo(t, n)
    BY <1>2 DEF Stream, UpTo
  <2>4. t \in Seq(Pieces)
    BY DEF Behind
  <2> QED
    BY <2>1, <2>2, <2>3, <2>4 DEF Stream
<1>4. ASSUME NEW u, Before(u, s) PROVE Before(u, t)
  BY <1>2, <1>4 DEF Before
<1>5. ASSUME NEW u, Before(s, u) PROVE Before(t, u)
  BY <1>2, <1>5 DEF Before
<1>6. ASSUME NEW u, Prefix(u, s), Len(u) \in 0 .. k PROVE Before(u, t)
  <2> SUFFICES ASSUME NEW a \in 1 .. Len(u), NEW b \in 1 .. Len(t) PROVE u[a][2] < t[b][2]
    BY DEF Before
  <2>1. u[a] = s[a] /\ a \in 1 .. Len(s) /\ a < k + b
    BY <1>1, <1>2, <1>6 DEF Prefix
  <2> QED
    BY <1>2, <2>1 DEF Stream, Rising
<1> QED
  BY <1>3, <1>4, <1>5, <1>6

LEMMA JoinedAt ==
  ASSUME NEW V, NEW s \in Seq(V), NEW t \in Seq(V)
  PROVE  /\ s \o t \in Seq(V) /\ Len(s \o t) = Len(s) + Len(t) /\ Len(s) \in Nat /\ Len(t) \in Nat
         /\ \A a \in 1 .. Len(s) : (s \o t)[a] = s[a] /\ a \in 1 .. Len(s \o t)
         /\ \A a \in 1 .. Len(t) : (s \o t)[Len(s) + a] = t[a] /\ Len(s) + a \in 1 .. Len(s \o t)
         /\ \A a \in 1 .. Len(s \o t) :
              a \in 1 .. Len(s) \/ (a - Len(s) \in 1 .. Len(t) /\ a = Len(s) + (a - Len(s)))
<1>1. Len(s) \in Nat /\ Len(t) \in Nat /\ s \o t \in Seq(V) /\ Len(s \o t) = Len(s) + Len(t)
  OBVIOUS
<1>2. \A a \in 1 .. Len(s) : a \in 1 .. Len(s \o t) /\ (s \o t)[a] = s[a]
  BY <1>1
<1>3. \A a \in 1 .. Len(t) : Len(s) + a \in 1 .. Len(s \o t) /\ (s \o t)[Len(s) + a] = t[a]
  BY <1>1
<1>4. \A a \in 1 .. Len(s \o t) :
        a \in 1 .. Len(s) \/ (a - Len(s) \in 1 .. Len(t) /\ a = Len(s) + (a - Len(s)))
  BY <1>1
<1> QED
  BY <1>1, <1>2, <1>3, <1>4

LEMMA JoinedStream ==
  ASSUME NEW p, NEW n \in Nat, NEW s, Stream(s, p, n), NEW t, Stream(t, p, n), Before(s, t)
  PROVE  /\ Stream(s \o t, p, n)
         /\ \A u : Before(s, u) /\ Before(t, u) => Before(s \o t, u)
<1> DEFINE w == s \o t
<1>1. /\ w \in Seq(Pieces) /\ Len(w) = Len(s) + Len(t) /\ Len(s) \in Nat /\ Len(t) \in Nat
      /\ \A a \in 1 .. Len(s) : w[a] = s[a]
      /\ \A a \in 1 .. Len(t) : w[Len(s) + a] = t[a]
      /\ \A a \in 1 .. Len(w) : a \in 1 .. Len(s) \/ (a - Len(s) \in 1 .. Len(t) /\ a = Len(s) + (a - Len(s)))
  BY JoinedAt DEF Stream
<1> HIDE DEF w
<1>2. \A a \in 1 .. Len(w) : (a \in 1 .. Len(s) /\ w[a] = s[a])
                              \/ (a - Len(s) \in 1 .. Len(t) /\ w[a] = t[a - Len(s)])
  BY <1>1
<1>3. Mine(w, p) /\ UpTo(w, n)
  BY <1>2 DEF Stream, Mine, UpTo
<1>4. Rising(w)
  <2> SUFFICES ASSUME NEW a \in 1 .. Len(w), NEW b \in 1 .. Len(w), a < b PROVE w[a][2] < w[b][2]
    BY DEF Rising
  <2>1. CASE b \in 1 .. Len(s)
    <3>1. a \in 1 .. Len(s)
      BY <1>1, <2>1
    <3> QED
      BY <1>1, <2>1, <3>1 DEF Stream, Rising
  <2>2. CASE a \in 1 .. Len(s) /\ b - Len(s) \in 1 .. Len(t) /\ w[b] = t[b - Len(s)]
    BY <1>1, <2>2 DEF Before
  <2>3. CASE /\ a - Len(s) \in 1 .. Len(t) /\ w[a] = t[a - Len(s)]
             /\ b - Len(s) \in 1 .. Len(t) /\ w[b] = t[b - Len(s)]
    <3>1. a - Len(s) < b - Len(s)
      BY <1>1
    <3> QED
      BY <2>3, <3>1 DEF Stream, Rising
  <2> QED
    BY <1>2, <2>1, <2>2, <2>3
<1>5. ASSUME NEW u, Before(s, u), Before(t, u) PROVE Before(w, u)
  BY <1>2, <1>5 DEF Before
<1> QED
  BY <1>1, <1>3, <1>4, <1>5 DEF Stream, w

\* What has been logged of p is typed, and comes before s.
LoggedUpTo(L, p, n) == \A a \in 1 .. Len(L) : L[a][1] = p => L[a][2] <= n
LoggedBefore(L, p, s) ==
  \A a \in 1 .. Len(L), b \in 1 .. Len(s) : L[a][1] = p => L[a][2] < s[b][2]
InOrder(L) ==
  \A a, b \in 1 .. Len(L) : a < b /\ L[a][1] = L[b][1] => L[a][2] < L[b][2]

\* A message, whole lines of one peer.
Message(m) ==
  /\ m \in Seq(Pieces) /\ m # <<>> /\ Kind(Last(m)) = "eol"
  /\ \A a \in 1 .. Len(m) : m[a][1] = m[1][1]

\* Of each peer: first what is logged, then what the server holds of its next
\* message, then what is in the socket.
PeerStream(p) ==
  /\ Stream(link[p].inbox, p, link[p].typed)
  /\ LoggedUpTo(Logged, p, link[p].typed) /\ LoggedBefore(Logged, p, link[p].inbox)
ClientStream(c, p) ==
  /\ Stream(c.curmsg, p, link[p].typed) /\ Before(c.curmsg, link[p].inbox)
  /\ LoggedBefore(Logged, p, c.curmsg)
Streams ==
  /\ \A p \in Peers : PeerStream(p)
  /\ \A i \in 1 .. Len(clients) : ClientStream(clients[i], conn[clients[i].fd])
  /\ InOrder(Logged) /\ \A k \in 1 .. Len(log) : Message(log[k])

LEMMA LoggedIs == ASSUME Texts PROVE Logged \in Seq(Pieces)
  BY FlattenIs DEF Texts, Logged

\* What the conversation is about stays as it is: nobody types, nothing is
\* received and nothing is logged.
LEMMA StreamsFrame ==
  ASSUME IInv, Streams, log' = log,
         \A q \in Peers : link'[q].typed = link[q].typed /\ link'[q].inbox \in {link[q].inbox, <<>>},
         \A i \in 1 .. Len(clients') :
           \/ clients'[i].curmsg = <<>> /\ conn'[clients'[i].fd] \in Peers
           \/ \E k \in 1 .. Len(clients) :
                clients'[i] = clients[k] /\ conn'[clients[k].fd] = conn[clients[k].fd]
  PROVE  Streams'
<1>1. Logged' = Logged
  BY DEF Logged
<1>2. \A L, p : LoggedBefore(L, p, <<>>)
  BY DEF LoggedBefore
<1>3. ASSUME NEW q \in Peers PROVE PeerStream(q)'
  <2>1. PeerStream(q)
    BY DEF Streams
  <2>2. CASE link'[q].inbox = link[q].inbox
    BY <1>1, <2>1, <2>2 DEF PeerStream
  <2>3. CASE link'[q].inbox = <<>>
    <3>1. Stream(<<>>, q, link[q].typed)
      BY EmptyStream
    <3> QED
      BY <1>1, <1>2, <2>1, <2>3, <3>1, ZenonT(30) DEF PeerStream
  <2> QED
    BY <2>2, <2>3
<1>4. ASSUME NEW i \in 1 .. Len(clients') PROVE ClientStream(clients[i], conn[clients[i].fd])'
  <2>1. CASE clients'[i].curmsg = <<>> /\ conn'[clients'[i].fd] \in Peers
    <3> DEFINE p == conn'[clients'[i].fd]
    <3>1. /\ Stream(<<>>, p, link'[p].typed) /\ Before(<<>>, link'[p].inbox)
          /\ LoggedBefore(Logged', p, <<>>)
      <4> HIDE DEF p
      <4> QED
        BY <1>2, EmptyStream
    <3> QED
      BY <2>1, <3>1 DEF ClientStream
  <2>2. CASE \E k \in 1 .. Len(clients) :
               clients'[i] = clients[k] /\ conn'[clients[k].fd] = conn[clients[k].fd]
    <3>1. PICK k \in 1 .. Len(clients) :
            clients'[i] = clients[k] /\ conn'[clients[k].fd] = conn[clients[k].fd]
      BY <2>2
    <3> DEFINE c == clients[k]
               p == conn[c.fd]
    <3>2. p \in Peers
      BY PeerBehind
    <3>3. ClientStream(c, p)
      BY DEF Streams
    <3>4. clients'[i] = c /\ conn'[clients'[i].fd] = p
      BY <3>1
    <3> HIDE DEF c, p
    <3>5. Before(c.curmsg, link'[p].inbox) /\ link'[p].typed = link[p].typed
      <4>1. Before(c.curmsg, link[p].inbox) /\ Before(c.curmsg, <<>>)
        BY <3>3, EmptyStream DEF ClientStream
      <4>2. link'[p].typed = link[p].typed /\ link'[p].inbox \in {link[p].inbox, <<>>}
        BY <3>2
      <4> QED
        BY <4>1, <4>2, Zenon
    <3> QED
      BY <1>1, <3>3, <3>4, <3>5 DEF ClientStream
  <2> QED
    BY <2>1, <2>2
<1>5. InOrder(Logged') /\ \A k \in 1 .. Len(log') : Message(log'[k])
  BY <1>1 DEF Streams
<1> QED
  BY <1>3, <1>4, <1>5 DEF Streams

\* The next piece is later than all that is on its way.
LEMMA TypeStreams == ASSUME IInv, Loop, Streams, NEW p \in Peers, Type(p) PROVE Streams'
<1> DEFINE n == link[p].typed
           s == link[p].inbox
           t == <<p, n + 1>>
           u == Append(s, t)
<1>1. UNCHANGED <<conn, clients, log>> /\ Logged' = Logged
  BY DEF Type, server, Logged
<1>2. n \in Nat /\ s \in Seq(Pieces) /\ link[p] \in Links
  BY Fields DEF Loop, LinksOK
<1>3. link'[p].typed = n + 1 /\ link'[p].inbox = u /\ \A q \in Peers : q # p => link'[q] = link[q]
  <2>1. /\ link'[p] = [link[p] EXCEPT !.typed = n + 1, !.inbox = u]
        /\ \A q \in Peers : q # p => link'[q] = link[q]
    BY TypeLink DEF Loop
  <2> DEFINE m == n + 1
  <2> HIDE DEF u, m
  <2>2. link'[p] = [link[p] EXCEPT !.typed = m, !.inbox = u]
    BY <2>1 DEF m
  <2>3. link'[p].typed = m /\ link'[p].inbox = u
    BY <1>2, <2>2, Fields
  <2> QED
    BY <2>1, <2>3 DEF m
<1>4. t \in Pieces /\ t[1] = p /\ t[2] = n + 1
  BY <1>2 DEF Pieces
<1>5. /\ u \in Seq(Pieces) /\ Len(u) = Len(s) + 1 /\ u[Len(s) + 1] = t /\ Len(s) \in Nat
      /\ \A a \in 1 .. Len(s) : u[a] = s[a]
  <2> HIDE DEF t, s
  <2> QED
    BY <1>2, <1>4
<1> HIDE DEF t, u, n, s
<1>6. \A a \in 1 .. Len(u) : (a \in 1 .. Len(s) /\ u[a] = s[a]) \/ (a = Len(s) + 1 /\ u[a] = t)
  BY <1>5
<1>7. PeerStream(p) /\ Stream(s, p, n)
  BY DEF Streams, PeerStream, s, n
<1>8. \A a \in 1 .. Len(s) : s[a][1] = p /\ s[a][2] \in Nat /\ s[a][2] < n + 1
  <2> SUFFICES ASSUME NEW a \in 1 .. Len(s) PROVE s[a][1] = p /\ s[a][2] \in Nat /\ s[a][2] < n + 1
    OBVIOUS
  <2>1. s[a][2] \in Nat
    BY <1>2, PieceIs
  <2>2. s[a][1] = p /\ s[a][2] <= n
    BY <1>7 DEF Stream, Mine, UpTo
  <2> QED
    BY <1>2, <2>1, <2>2
<1>9. Stream(u, p, n + 1)
  <2>1. Mine(u, p)
    BY <1>4, <1>6, <1>8 DEF Mine
  <2>2. UpTo(u, n + 1)
    <3> SUFFICES ASSUME NEW a \in 1 .. Len(u) PROVE u[a][2] <= n + 1
      BY DEF UpTo
    <3>1. CASE a \in 1 .. Len(s) /\ u[a] = s[a]
      BY <1>2, <1>8, <3>1
    <3>2. CASE u[a] = t
      BY <1>2, <1>4, <3>2
    <3> QED
      BY <1>6, <3>1, <3>2
  <2>3. Rising(u)
    <3> SUFFICES ASSUME NEW a \in 1 .. Len(u), NEW b \in 1 .. Len(u), a < b PROVE u[a][2] < u[b][2]
      BY DEF Rising
    <3>1. a \in 1 .. Len(s) /\ u[a] = s[a]
      BY <1>5
    <3>2. CASE b \in 1 .. Len(s) /\ u[b] = s[b]
      BY <1>7, <3>1, <3>2 DEF Stream, Rising
    <3>3. CASE u[b] = t
      BY <1>4, <1>8, <3>1, <3>3
    <3> QED
      BY <1>6, <3>2, <3>3
  <2> QED
    BY <1>5, <2>1, <2>2, <2>3 DEF Stream
<1>10. ASSUME NEW q \in Peers PROVE PeerStream(q)'
  <2>1. CASE q # p
    BY <1>1, <1>3, <2>1 DEF Streams, PeerStream
  <2>2. CASE q = p
    <3>1. \A a \in 1 .. Len(Logged) : Logged[a][2] \in Nat
      BY LoggedIs, PieceIs DEF Loop
    <3>2. \A a \in 1 .. Len(Logged) : Logged[a][1] = p => Logged[a][2] <= n
      BY <1>7 DEF PeerStream, LoggedUpTo, n
    <3>3. LoggedUpTo(Logged, p, n + 1)
      BY <1>2, <3>1, <3>2 DEF LoggedUpTo
    <3>4. LoggedBefore(Logged, p, u)
      <4> SUFFICES ASSUME NEW a \in 1 .. Len(Logged), NEW b \in 1 .. Len(u), Logged[a][1] = p
                   PROVE  Logged[a][2] < u[b][2]
        BY DEF LoggedBefore
      <4>1. CASE b \in 1 .. Len(s) /\ u[b] = s[b]
        BY <1>7, <4>1 DEF PeerStream, LoggedBefore, s
      <4>2. CASE u[b] = t
        BY <1>2, <1>4, <3>1, <3>2, <4>2, SMTT(30)
      <4> QED
        BY <1>6, <4>1, <4>2
    <3> QED
      BY <1>1, <1>3, <1>9, <2>2, <3>3, <3>4 DEF PeerStream
  <2> QED
    BY <2>1, <2>2
<1>11. ASSUME NEW i \in 1 .. Len(clients) PROVE ClientStream(clients[i], conn[clients[i].fd])'
  <2> DEFINE c == clients[i]
             q == conn[c.fd]
  <2>1. q \in Peers /\ ClientStream(c, q)
    BY PeerBehind DEF Streams
  <2>2. clients'[i] = c /\ conn'[clients'[i].fd] = q
    BY <1>1
  <2> HIDE DEF c, q
  <2>3. CASE q # p
    BY <1>1, <1>3, <2>1, <2>2, <2>3 DEF ClientStream
  <2>4. CASE q = p
    <3> DEFINE m == c.curmsg
    <3>1. Stream(m, p, n) /\ Before(m, s) /\ LoggedBefore(Logged, p, m)
      BY <2>1, <2>4 DEF ClientStream, n, s
    <3> HIDE DEF m
    <3>2. m \in Seq(Pieces) /\ Len(m) \in Nat
      BY <3>1 DEF Stream
    <3>3. \A a \in 1 .. Len(m) : m[a][2] \in Nat /\ m[a][2] <= n
      BY <3>1, <3>2, PieceIs DEF Stream, UpTo
    <3>4. Stream(m, p, n + 1)
      <4>1. UpTo(m, n + 1)
        BY <1>2, <3>3 DEF UpTo
      <4> QED
        BY <3>1, <4>1 DEF Stream
    <3>5. Before(m, u)
      <4> SUFFICES ASSUME NEW a \in 1 .. Len(m), NEW b \in 1 .. Len(u) PROVE m[a][2] < u[b][2]
        BY DEF Before
      <4>1. CASE b \in 1 .. Len(s) /\ u[b] = s[b]
        BY <3>1, <4>1 DEF Before
      <4>2. CASE u[b] = t
        BY <1>2, <1>4, <3>3, <4>2, SMTT(30)
      <4> QED
        BY <1>6, <4>1, <4>2
    <3> QED
      BY <1>1, <1>3, <2>2, <2>4, <3>1, <3>4, <3>5 DEF ClientStream, m
  <2> QED
    BY <2>3, <2>4
<1> QED
  BY <1>1, <1>10, <1>11 DEF Streams

\* The i-th client of the vector is replaced by c.
Clients1(i, c) ==
  /\ Len(clients') = Len(clients) /\ Len(clients) \in Nat
  /\ \A h \in 1 .. Len(clients) : clients'[h] = IF h = i THEN c ELSE clients[h]

LEMMA ClientReplaced ==
  ASSUME IInv, NEW i \in 1 .. Len(clients), NEW c, clients' = [clients EXCEPT ![i] = c]
  PROVE  Clients1(i, c)
<1>1. PICK S : clients \in Seq(S)
  BY DEF IInv, Shapes
<1> QED
  BY <1>1 DEF Clients1

\* The steps in which nobody types and the server handles no text.
LEMMA QuietStreams ==
  ASSUME IInv, Loop, Streams, NEW p \in Peers, Connect(p) \/ Read(p) \/ Leave(p) \/ ResetArrives(p)
  PROVE  Streams'
<1>1. link[p] \in Links
  BY DEF Loop, LinksOK
<1>2. UNCHANGED <<conn, clients, log>>
  BY DEF Connect, Read, Leave, ResetArrives, server
<1>3. /\ \A q \in Peers : q # p => link'[q] = link[q]
      /\ link'[p].typed = link[p].typed /\ link'[p].inbox = link[p].inbox
  <2>1. CASE Connect(p)
    <3>1. link'[p] = [link[p] EXCEPT !.end = "up"] /\ \A q \in Peers : q # p => link'[q] = link[q]
      BY <2>1, ConnectLink DEF Loop
    <3> QED
      BY <1>1, <3>1, Fields
  <2>2. CASE Read(p)
    <3>1. link'[p] = [link[p] EXCEPT !.unread = 0] /\ \A q \in Peers : q # p => link'[q] = link[q]
      BY <2>2, ReadLink DEF Loop
    <3> QED
      BY <1>1, <3>1, Fields
  <2>3. CASE Leave(p)
    <3>1. \A q \in Peers : q # p => link'[q] = link[q]
      BY <2>3, LeaveLink DEF Loop
    <3>2. PICK e \in {"none", "reset"} : link'[p] = [link[p] EXCEPT !.end = "gone", !.err = e]
      BY <2>3, LeaveLink DEF Loop
    <3> QED
      BY <1>1, <3>1, <3>2, Fields
  <2>4. CASE ResetArrives(p)
    <3>1. /\ link'[p] = [link[p] EXCEPT !.owed = FALSE, !.err = "pipe"]
          /\ \A q \in Peers : q # p => link'[q] = link[q]
      BY <2>4, ResetLink DEF Loop
    <3> QED
      BY <1>1, <3>1, Fields
  <2> QED
    BY <2>1, <2>2, <2>3, <2>4
<1> QED
  BY <1>2, <1>3, StreamsFrame

LEMMA SameStreams ==
  ASSUME IInv, Streams, UNCHANGED <<link, conn, clients, log>>
  PROVE  Streams'
  BY StreamsFrame

LEMMA DropStreams ==
  ASSUME IInv, Loop, Streams, NEW f \in Fds, conn[f] \in Peers, Find(f) # 0, Drop(f),
         link' = [link EXCEPT ![conn[f]] = Close(conn[f])], log' = log
  PROVE  Streams'
<1> DEFINE p == conn[f]
           k == Find(f)
<1>1. LinkIs(p, Close(p)) /\ Close(p).typed = link[p].typed /\ Close(p).inbox = <<>>
  BY CloseLink DEF Loop
<1>2. link'[p] = Close(p) /\ \A q \in Peers : q # p => link'[q] = link[q]
  <2> HIDE DEF p
  <2>1. LinksOK /\ p \in Peers /\ link' = [link EXCEPT ![p] = Close(p)]
    BY DEF Loop, p
  <2> QED
    BY <1>1, <2>1, LinkSet
<1>3. \A q \in Peers : link'[q].typed = link[q].typed /\ link'[q].inbox \in {link[q].inbox, <<>>}
  <2>1. link'[p].typed = link[p].typed /\ link'[p].inbox = <<>>
    BY <1>1, <1>2
  <2>2. ASSUME NEW q \in Peers PROVE link'[q].typed = link[q].typed /\ link'[q].inbox \in {link[q].inbox, <<>>}
    <3>1. CASE q = p
      <4> HIDE DEF p
      <4> QED
        BY <2>1, <3>1, Zenon
    <3>2. CASE q # p
      <4>1. link'[q] = link[q]
        BY <1>2, <3>2
      <4> QED
        BY <4>1, Zenon
    <3> QED
      BY <3>1, <3>2
  <2> QED
    BY <2>2, Zenon
<1>4. k \in 1 .. Len(clients) /\ clients[k].fd = f /\ Len(clients) \in Nat
  <2>1. Len(clients) \in Nat
    BY DEF IInv, Shapes
  <2>2. k \in 1 .. Len(clients) /\ clients[k].fd = f
    BY FindIs DEF IInv
  <2> QED
    BY <2>1, <2>2
<1> HIDE DEF k
<1>5. /\ Len(clients') = Len(clients) - 1
      /\ \A i \in 1 .. Len(clients) - 1 : clients'[i] = IF i < k THEN clients[i] ELSE clients[i + 1]
  BY <1>4, DropClients
<1>6. \A g \in Fds : conn'[g] = IF g = f THEN None ELSE conn[g]
  BY DEF Drop, IInv, Shapes
<1>7. ASSUME NEW i \in 1 .. Len(clients')
      PROVE  \E n \in 1 .. Len(clients) : clients'[i] = clients[n] /\ conn'[clients[n].fd] = conn[clients[n].fd]
  <2>1. PICK n \in 1 .. Len(clients) : n # k /\ clients'[i] = clients[n]
    <3>1. CASE i < k
      BY <1>4, <1>5, <3>1
    <3>2. CASE ~ (i < k)
      <4>1. i + 1 \in 1 .. Len(clients) /\ i + 1 # k /\ clients'[i] = clients[i + 1]
        BY <1>4, <1>5, <3>2
      <4> QED
        BY <4>1
    <3> QED
      BY <3>1, <3>2
  <2>2. clients[n].fd # f /\ clients[n].fd \in Fds
    BY <1>4, <2>1, PeerBehind DEF IInv, Registered
  <2> QED
    BY <1>6, <2>1, <2>2
<1> QED
  BY <1>3, <1>7, StreamsFrame

LEMMA AcceptStreams == ASSUME IInv, Loop, Streams, Accept PROVE Streams'
<1> DEFINE p == Head(backlog)
<1>1. PICK f \in Fds :
        /\ conn[f] = None /\ conn' = [conn EXCEPT ![f] = p]
        /\ clients' = Append(clients, [fd |-> f, curmsg |-> <<>>, eolpos |-> 0])
        /\ p \in Peers /\ UNCHANGED <<link, log>>
  BY AcceptIs
<1> DEFINE new == [fd |-> f, curmsg |-> <<>>, eolpos |-> 0]
<1>2. \A g \in Fds : conn'[g] = IF g = f THEN p ELSE conn[g]
  BY <1>1 DEF IInv, Shapes
<1>3. PICK S : clients \in Seq(S)
  BY DEF IInv, Shapes
<1>4. new.curmsg = <<>> /\ new.fd = f
  OBVIOUS
<1> HIDE DEF p, new
<1>5. /\ Len(clients) \in Nat /\ Len(clients') = Len(clients) + 1 /\ clients'[Len(clients) + 1] = new
      /\ \A i \in 1 .. Len(clients) : clients'[i] = clients[i]
  BY <1>1, <1>3 DEF new
<1>6. \A i \in 1 .. Len(clients') : i \in 1 .. Len(clients) \/ i = Len(clients) + 1
  BY <1>5
<1>7. \A i \in 1 .. Len(clients) : conn'[clients[i].fd] = conn[clients[i].fd]
  <2>1. \A i \in 1 .. Len(clients) : clients[i].fd \in Fds /\ clients[i].fd # f
    BY <1>1, PeerBehind
  <2> QED
    BY <1>2, <2>1
<1>8. \A i \in 1 .. Len(clients') :
        \/ clients'[i].curmsg = <<>> /\ conn'[clients'[i].fd] \in Peers
        \/ \E k \in 1 .. Len(clients) :
             clients'[i] = clients[k] /\ conn'[clients[k].fd] = conn[clients[k].fd]
  BY <1>1, <1>2, <1>4, <1>5, <1>6, <1>7
<1> QED
  BY <1>1, <1>8, StreamsFrame

LEMMA SentStreams ==
  ASSUME IInv, Loop, Streams, NEW f \in Fds, conn[f] \in Peers, NEW n \in Nat,
         link' = [link EXCEPT ![conn[f]] = AfterSend(conn[f], n)], UNCHANGED <<conn, clients, log>>
  PROVE  Streams'
<1> DEFINE p == conn[f]
<1>1. p \in Peers /\ link' = [link EXCEPT ![p] = AfterSend(p, n)] /\ LinksOK
  BY DEF Loop
<1>2. link[p].end # "away"
  BY DEF Loop, Received1
<1> HIDE DEF p
<1>3. LinkIs(p, AfterSend(p, n)) /\ AfterSend(p, n).typed = link[p].typed
      /\ AfterSend(p, n).inbox = link[p].inbox
  BY <1>1, <1>2, SendLink
<1>4. link'[p] = AfterSend(p, n) /\ \A q \in Peers : q # p => link'[q] = link[q]
  BY <1>1, <1>3, LinkSet
<1>5. \A q \in Peers : link'[q].typed = link[q].typed /\ link'[q].inbox = link[q].inbox
  BY <1>3, <1>4
<1> QED
  BY <1>5, StreamsFrame

LEMMA GreetStreams == ASSUME IInv, Loop, Streams, Greet PROVE Streams'
<1> DEFINE f == Last(clients).fd
<1>1. f \in Fds /\ conn[f] \in Peers
  BY GreetIs
<1>2. link' = [link EXCEPT ![conn[f]] = AfterSend(conn[f], 1)] /\ UNCHANGED <<conn, clients, log>>
  BY DEF Greet
<1> HIDE DEF f
<1> QED
  BY <1>1, <1>2, SentStreams

LEMMA SendPartStreams == ASSUME IInv, Loop, Streams, SendPart PROVE Streams'
<1> DEFINE f == clients[it].fd
           p == conn[f]
<1>1. /\ f \in Fds /\ p \in Peers /\ it \in 1 .. Len(clients)
      /\ \/ UNCHANGED <<net, clients, log>>
         \/ Drop(f) /\ link' = [link EXCEPT ![p] = Close(p)] /\ log' = log
         \/ link' = [link EXCEPT ![p] = AfterSend(p, Len(Part))] /\ UNCHANGED <<conn, clients, log>>
  BY SendPartIs
<1>2. CASE UNCHANGED <<net, clients, log>>
  BY <1>2, SameStreams DEF net
<1>3. CASE Drop(f) /\ link' = [link EXCEPT ![p] = Close(p)] /\ log' = log
  <2>1. Find(f) # 0
    BY <1>1, FindIs DEF IInv
  <2> HIDE DEF f
  <2> QED
    BY <1>1, <1>3, <2>1, DropStreams
<1>4. CASE link' = [link EXCEPT ![p] = AfterSend(p, Len(Part))] /\ UNCHANGED <<conn, clients, log>>
  <2>1. Len(Part) \in Nat
    BY PartIs DEF Loop, Texts
  <2> HIDE DEF f
  <2> QED
    BY <1>1, <1>4, <2>1, SentStreams
<1> QED
  BY <1>1, <1>2, <1>3, <1>4

LEMMA DropOnEventStreams == ASSUME IInv, Loop, Streams, DropOnEvent PROVE Streams'
<1> DEFINE f == batch[1].fd
<1>1. CASE Undefined
  BY <1>1, SameStreams DEF Undefined, net
<1>2. CASE Find(f) # 0 /\ Drop(f) /\ link' = [link EXCEPT ![conn[f]] = Close(conn[f])] /\ log' = log
  <2>1. f \in Fds /\ conn[f] \in Peers
    BY <1>2, FindIs, PeerBehind DEF IInv
  <2> HIDE DEF f
  <2> QED
    BY <1>2, <2>1, DropStreams
<1> QED
  BY <1>1, <1>2 DEF DropOnEvent

\* recv moves pieces from the socket to the message of their peer.
LEMMA RecvStreams == ASSUME IInv, Loop, Streams, Recv PROVE Streams'
<1>1. PICK i \in 1 .. Len(clients), t \in Seq(Pieces) :
        /\ clients[i].fd = batch[1].fd /\ t = UpToNul(Received(conn[batch[1].fd]))
        /\ clients' = [clients EXCEPT ![i] = Grown(clients[i], t)]
        /\ conn[batch[1].fd] \in Peers /\ link[conn[batch[1].fd]].inbox \in Seq(Pieces)
  BY RecvIs
<1> DEFINE p == conn[batch[1].fd]
           s == link[p].inbox
           n == link[p].typed
           k == Len(Received(p))
           u == SubSeq(s, k + 1, Len(s))
           m == clients[i].curmsg
<1>2. p \in Peers /\ s \in Seq(Pieces) /\ conn[clients[i].fd] = p /\ n \in Nat
  <2>1. link[p] \in Links
    BY <1>1 DEF Loop, LinksOK
  <2> QED
    BY <1>1, <2>1, Fields
<1>3. link' = [link EXCEPT ![p].inbox = SubSeq(@, Len(Received(p)) + 1, Len(@))] /\ UNCHANGED <<conn, log>>
  BY DEF Recv
<1>4. link'[p].inbox = u /\ link'[p].typed = n /\ \A q \in Peers : q # p => link'[q] = link[q]
  <2>1. link' = [link EXCEPT ![p] = [link[p] EXCEPT !.inbox = u]]
    BY <1>3
  <2>2. link \in [Peers -> Links]
    BY DEF Loop, LinksOK
  <2> HIDE DEF u, p
  <2>3. link'[p] = [link[p] EXCEPT !.inbox = u] /\ \A q \in Peers : q # p => link'[q] = link[q]
    BY <1>2, <2>1, <2>2
  <2>4. link'[p].inbox = u /\ link'[p].typed = link[p].typed
    BY <1>2, <2>2, <2>3, Fields
  <2> QED
    BY <2>3, <2>4
<1>5. PeerStream(p) /\ ClientStream(clients[i], p)
  BY <1>2 DEF Streams
<1>6. Stream(s, p, n) /\ LoggedUpTo(Logged, p, n) /\ LoggedBefore(Logged, p, s)
  BY <1>5 DEF PeerStream
<1>7. Stream(m, p, n) /\ Before(m, s) /\ LoggedBefore(Logged, p, m)
  BY <1>5 DEF ClientStream
<1>8. k \in 0 .. Len(s) /\ Prefix(t, s) /\ Len(t) \in 0 .. k
  <2>1. Received(p) \in Seq(Pieces) /\ Prefix(Received(p), s) /\ k \in 0 .. Len(s)
    BY <1>2, ReceivedIs
  <2>2. Prefix(t, Received(p))
    BY <1>1, <2>1, UpToNulIs
  <2> DEFINE r == Received(p)
  <2> HIDE DEF r
  <2>3. r \in Seq(Pieces) /\ Prefix(r, s) /\ Prefix(t, r) /\ k = Len(r)
    BY <2>1, <2>2 DEF r
  <2> HIDE DEF s, k
  <2>4. Len(t) \in Nat /\ Len(r) \in Nat
    BY <2>3
  <2>5. Prefix(t, s)
    <3>1. Len(s) \in Nat /\ t \in Seq(Pieces)
      BY <1>2
    <3> QED
      BY <2>3, <3>1, PrefixOfPrefix
  <2>6. Len(t) <= Len(r)
    BY <2>3, Zenon DEF Prefix
  <2>7. Len(t) \in 0 .. k
    BY <2>3, <2>4, <2>6
  <2> QED
    BY <2>1, <2>5, <2>7, Zenon
<1>9. Behind(u, s, k)
  <2>1. s \in Seq(Pieces) /\ k \in 0 .. Len(s) /\ u = SubSeq(s, k + 1, Len(s))
    BY <1>2, <1>8, Zenon
  <2> HIDE DEF s, k, u
  <2>2. /\ SubSeq(s, k + 1, Len(s)) \in Seq(Pieces) /\ Len(SubSeq(s, k + 1, Len(s))) = Len(s) - k
        /\ \A a \in 1 .. Len(s) - k : SubSeq(s, k + 1, Len(s))[a] = s[k + a]
    BY <2>1, SuffixOf
  <2> QED
    BY <2>1, <2>2, Zenon DEF Behind
<1>10. Clients1(i, Grown(clients[i], t)) /\ Grown(clients[i], t).fd = clients[i].fd
       /\ Grown(clients[i], t).curmsg = m \o t
  <2>1. Client(clients[i]) /\ EolPlace(clients[i])
    BY DEF IInv, Shapes, Loop, Texts
  <2>2. Grown(clients[i], t).fd = clients[i].fd /\ Grown(clients[i], t).curmsg = m \o t
    BY <2>1, GrownIs
  <2> QED
    BY <1>1, <2>2, ClientReplaced
<1> HIDE DEF u, k, s, n, p, m
<1>11. /\ Stream(t, p, n) /\ Stream(u, p, n) /\ Before(t, u) /\ Before(m, u) /\ Before(m, t)
  <2>1. Stream(t, p, n) /\ \A w : Before(s, w) => Before(t, w)
    BY <1>2, <1>6, <1>8, PrefixStream
  <2>2. /\ Stream(u, p, n) /\ (\A w : Before(w, s) => Before(w, u))
        /\ \A w : Prefix(w, s) /\ Len(w) \in 0 .. k => Before(w, u)
    <3>1. n \in Nat /\ Stream(s, p, n) /\ k \in 0 .. Len(s) /\ Behind(u, s, k)
      BY <1>2, <1>6, <1>8, <1>9
    <3> QED
      BY <3>1, SuffixStream, Zenon
  <2>3. Before(m, t)
    <3>1. Len(t) \in Nat /\ Len(s) \in Nat /\ \A b \in 1 .. Len(t) : b \in 1 .. Len(s) /\ t[b] = s[b]
      BY <1>2, <1>8 DEF Prefix
    <3> QED
      BY <1>7, <3>1 DEF Before
  <2> QED
    BY <1>7, <1>8, <2>1, <2>2, <2>3
<1>12. Stream(m \o t, p, n) /\ Before(m \o t, u)
  BY <1>2, <1>7, <1>11, JoinedStream
<1>13. LoggedBefore(Logged, p, u) /\ LoggedBefore(Logged, p, m \o t)
  <2>1. LoggedBefore(Logged, p, u)
    <3>1. \A b \in 1 .. Len(u) : k + b \in 1 .. Len(s) /\ u[b] = s[k + b]
      BY <1>2, <1>8, <1>9, SMTT(30) DEF Behind
    <3> QED
      BY <1>6, <3>1 DEF LoggedBefore
  <2>2. LoggedBefore(Logged, p, t)
    <3>1. Len(t) \in Nat /\ Len(s) \in Nat /\ \A b \in 1 .. Len(t) : b \in 1 .. Len(s) /\ t[b] = s[b]
      BY <1>2, <1>8 DEF Prefix
    <3> QED
      BY <1>6, <3>1 DEF LoggedBefore
  <2>3. LoggedBefore(Logged, p, m \o t)
    <3> DEFINE w == m \o t
    <3>1. \A b \in 1 .. Len(w) : (b \in 1 .. Len(m) /\ w[b] = m[b])
                                 \/ (b - Len(m) \in 1 .. Len(t) /\ w[b] = t[b - Len(m)])
      <4>1. m \in Seq(Pieces)
        BY <1>7 DEF Stream
      <4>2. /\ \A b \in 1 .. Len(m) : w[b] = m[b]
            /\ \A b \in 1 .. Len(t) : w[Len(m) + b] = t[b]
            /\ \A b \in 1 .. Len(w) : b \in 1 .. Len(m)
                                      \/ (b - Len(m) \in 1 .. Len(t) /\ b = Len(m) + (b - Len(m)))
        BY <1>1, <4>1, JoinedAt
      <4> HIDE DEF w
      <4> QED
        BY <4>2
    <3> HIDE DEF w
    <3>2. LoggedBefore(Logged, p, w)
      <4> SUFFICES ASSUME NEW a \in 1 .. Len(Logged), NEW b \in 1 .. Len(w), Logged[a][1] = p
                   PROVE  Logged[a][2] < w[b][2]
        BY DEF LoggedBefore
      <4>1. CASE b \in 1 .. Len(m) /\ w[b] = m[b]
        BY <1>7, <4>1 DEF LoggedBefore
      <4>2. CASE b - Len(m) \in 1 .. Len(t) /\ w[b] = t[b - Len(m)]
        BY <2>2, <4>2 DEF LoggedBefore
      <4> QED
        BY <3>1, <4>1, <4>2
    <3> QED
      BY <3>2 DEF w
  <2> QED
    BY <2>1, <2>3
<1>14. Logged' = Logged
  BY <1>3 DEF Logged
<1>15. ASSUME NEW q \in Peers PROVE PeerStream(q)'
  <2>1. CASE q # p
    BY <1>4, <1>14, <2>1 DEF Streams, PeerStream
  <2>2. CASE q = p
    BY <1>4, <1>6, <1>11, <1>13, <1>14, <2>2, Zenon DEF PeerStream
  <2> QED
    BY <2>1, <2>2
<1>16. ASSUME NEW h \in 1 .. Len(clients') PROVE ClientStream(clients[h], conn[clients[h].fd])'
  <2>1. h \in 1 .. Len(clients) /\ clients'[h] = IF h = i THEN Grown(clients[i], t) ELSE clients[h]
    BY <1>10 DEF Clients1
  <2>2. CASE h = i
    <3>1. clients'[h].curmsg = m \o t /\ conn'[clients'[h].fd] = p
      BY <1>2, <1>3, <1>10, <2>1, <2>2
    <3> QED
      BY <1>4, <1>12, <1>13, <1>14, <3>1, Zenon DEF ClientStream
  <2>3. CASE h # i
    <3> DEFINE c == clients[h]
               q == conn[c.fd]
    <3>1. q \in Peers /\ q # p
      <4>1. clients[h].fd # clients[i].fd /\ clients[h].fd \in Fds /\ clients[i].fd \in Fds /\ q \in Peers
        BY <2>1, <2>3, PeerBehind DEF IInv, Registered
      <4>2. Received1(p)
        BY <1>2 DEF Loop
      <4> QED
        BY <1>2, <4>1, <4>2 DEF Received1
    <3>2. clients'[h] = c /\ conn'[clients'[h].fd] = q /\ link'[q] = link[q] /\ ClientStream(c, q)
      BY <1>3, <1>4, <2>1, <2>3, <3>1 DEF Streams
    <3> HIDE DEF c, q
    <3> QED
      BY <1>14, <3>2 DEF ClientStream
  <2> QED
    BY <2>2, <2>3
<1> QED
  BY <1>3, <1>14, <1>15, <1>16 DEF Streams

\* What is logged is the head of its peer's message.
LEMMA FlushStreams == ASSUME IInv, Loop, Streams, cur <= Len(clients), FlushesLine PROVE Streams'
<1> DEFINE c == clients[cur]
           p == conn[c.fd]
           s == c.curmsg
           k == c.eolpos
           u == SubSeq(s, k + 1, Len(s))
           m == SubSeq(s, 1, k)
           n == link[p].typed
           L == Logged
<1>1. cur \in 1 .. Len(clients)
  BY DEF IInv, Iterators, Shapes
<1>2. Client(c) /\ EolPlace(c) /\ p \in Peers
  BY <1>1, PeerBehind DEF IInv, Shapes, Loop, Texts
<1>3. s \in Seq(Pieces) /\ k \in 1 .. Len(s) /\ Kind(s[k]) = "eol"
  <2>1. k # 0
    BY DEF FlushesLine
  <2> QED
    BY <1>2, <2>1 DEF EolPlace
<1>4. UNCHANGED <<link, conn>> /\ msg' = m /\ log' = Append(log, m)
  BY DEF FlushesLine, net
<1>5. Clients1(cur, Flushed(c)) /\ Flushed(c).fd = c.fd /\ Flushed(c).curmsg = u
  <2>1. Flushed(c).fd = c.fd /\ Flushed(c).curmsg = u
    BY <1>2, FlushedIs
  <2> QED
    BY <1>1, <2>1, ClientReplaced DEF FlushesLine
<1>6. PeerStream(p) /\ ClientStream(c, p)
  BY <1>1, <1>2 DEF Streams
<1>7. Stream(s, p, n) /\ Before(s, link[p].inbox) /\ LoggedBefore(L, p, s) /\ LoggedUpTo(L, p, n)
  BY <1>6 DEF ClientStream, PeerStream
<1>8. n \in Nat
  <2> HIDE DEF p
  <2>1. link[p] \in Links
    BY <1>2 DEF Loop, LinksOK
  <2> QED
    BY <2>1, Fields
<1>9. L \in Seq(Pieces)
  BY LoggedIs DEF Loop
<1> HIDE DEF c, p, s, n
<1>10. Behind(u, s, k) /\ k \in 0 .. Len(s) /\ k \in Nat
  <2>1. s \in Seq(Pieces) /\ k \in 0 .. Len(s) /\ k \in Nat
    <3> HIDE DEF k
    <3> QED
      BY <1>3
  <2>2. u = SubSeq(s, k + 1, Len(s))
    OBVIOUS
  <2> HIDE DEF k, u
  <2>3. /\ SubSeq(s, k + 1, Len(s)) \in Seq(Pieces) /\ Len(SubSeq(s, k + 1, Len(s))) = Len(s) - k
        /\ \A a \in 1 .. Len(s) - k : SubSeq(s, k + 1, Len(s))[a] = s[k + a]
    BY <2>1, SuffixOf
  <2> QED
    BY <2>1, <2>2, <2>3, Zenon DEF Behind
<1>11. m \in Seq(Pieces) /\ Len(m) = k /\ Prefix(m, s)
  BY <1>3, <1>10, PrefixOf
<1> HIDE DEF k, u, m
<1>12. Stream(m, p, n) /\ Before(m, link[p].inbox)
  <2>1. n \in Nat /\ Stream(s, p, n) /\ m \in Seq(Pieces) /\ Prefix(m, s)
    BY <1>7, <1>8, <1>11
  <2>2. Stream(m, p, n) /\ \A w : Before(s, w) => Before(m, w)
    BY <2>1, PrefixStream, Zenon
  <2> QED
    BY <1>7, <2>2, Zenon
<1>13. Stream(u, p, n) /\ Before(u, link[p].inbox) /\ Before(m, u)
  <2>1. /\ Stream(u, p, n) /\ (\A w : Before(s, w) => Before(u, w))
        /\ \A w : Prefix(w, s) /\ Len(w) \in 0 .. k => Before(w, u)
    <3>1. n \in Nat /\ Stream(s, p, n) /\ k \in 0 .. Len(s) /\ Behind(u, s, k)
      BY <1>7, <1>8, <1>10
    <3> QED
      BY <3>1, SuffixStream, Zenon
  <2>2. Len(m) \in 0 .. k
    BY <1>10, <1>11
  <2> QED
    BY <1>7, <1>11, <2>1, <2>2
<1>14. LoggedBefore(L, p, u) /\ LoggedBefore(L, p, m)
  <2>1. \A b \in 1 .. Len(u) : k + b \in 1 .. Len(s) /\ u[b] = s[k + b]
    BY <1>3, <1>10 DEF Behind
  <2>2. LoggedBefore(L, p, u)
    BY <1>7, <2>1 DEF LoggedBefore
  <2>3. Len(s) \in Nat /\ \A b \in 1 .. Len(m) : b \in 1 .. Len(s) /\ m[b] = s[b]
    BY <1>3, <1>10, <1>11 DEF Prefix
  <2>4. LoggedBefore(L, p, m)
    BY <1>7, <2>3 DEF LoggedBefore
  <2> QED
    BY <2>2, <2>4
<1> DEFINE N == L \o m
<1>15. Logged' = N
  <2>1. log \in Seq(Seq(Pieces))
    BY DEF Loop, Texts
  <2> QED
    BY <1>4, <1>11, <2>1, FlattenIs DEF Logged
<1> HIDE DEF L
<1>16. \A a \in 1 .. Len(N) : (a \in 1 .. Len(L) /\ N[a] = L[a])
                              \/ (a - Len(L) \in 1 .. Len(m) /\ N[a] = m[a - Len(L)] /\ a \notin 1 .. Len(L))
  <2>1. /\ \A b \in 1 .. Len(L) : N[b] = L[b]
        /\ \A b \in 1 .. Len(m) : N[Len(L) + b] = m[b]
        /\ \A b \in 1 .. Len(N) : b \in 1 .. Len(L)
                                  \/ (b - Len(L) \in 1 .. Len(m) /\ b = Len(L) + (b - Len(L)))
        /\ Len(L) \in Nat /\ Len(m) \in Nat
    BY <1>9, <1>11, JoinedAt
  <2> HIDE DEF N
  <2> QED
    BY <2>1
<1> HIDE DEF N
<1>17. \A a \in 1 .. Len(m) : m[a][1] = p /\ m[a][2] <= n
  BY <1>12 DEF Stream, Mine, UpTo
<1>18. LoggedUpTo(N, p, n)
  BY <1>7, <1>16, <1>17 DEF LoggedUpTo
<1>19. ASSUME NEW t, LoggedBefore(L, p, t), Before(m, t) PROVE LoggedBefore(N, p, t)
  <2> SUFFICES ASSUME NEW a \in 1 .. Len(N), NEW b \in 1 .. Len(t), N[a][1] = p PROVE N[a][2] < t[b][2]
    BY DEF LoggedBefore
  <2>1. CASE a \in 1 .. Len(L) /\ N[a] = L[a]
    BY <1>19, <2>1 DEF LoggedBefore
  <2>2. CASE a - Len(L) \in 1 .. Len(m) /\ N[a] = m[a - Len(L)]
    BY <1>19, <2>2 DEF Before
  <2> QED
    BY <1>16, <2>1, <2>2
<1>20. ASSUME NEW q, q # p, NEW t, LoggedBefore(L, q, t) PROVE LoggedBefore(N, q, t)
  BY <1>16, <1>17, <1>20 DEF LoggedBefore
<1>21. ASSUME NEW q, q # p, NEW h, LoggedUpTo(L, q, h) PROVE LoggedUpTo(N, q, h)
  BY <1>16, <1>17, <1>21 DEF LoggedUpTo
<1>22. InOrder(N)
  <2> SUFFICES ASSUME NEW a \in 1 .. Len(N), NEW b \in 1 .. Len(N), a < b, N[a][1] = N[b][1]
               PROVE  N[a][2] < N[b][2]
    BY DEF InOrder
  <2>1. CASE a \in 1 .. Len(L) /\ N[a] = L[a] /\ b \in 1 .. Len(L) /\ N[b] = L[b]
    BY <2>1 DEF Streams, InOrder, L
  <2>2. CASE a \in 1 .. Len(L) /\ N[a] = L[a] /\ b - Len(L) \in 1 .. Len(m) /\ N[b] = m[b - Len(L)]
    <3>1. L[a][1] = p
      BY <1>17, <2>2
    <3> QED
      BY <1>14, <2>2, <3>1 DEF LoggedBefore
  <2>3. CASE /\ a - Len(L) \in 1 .. Len(m) /\ N[a] = m[a - Len(L)]
             /\ b - Len(L) \in 1 .. Len(m) /\ N[b] = m[b - Len(L)]
    <3>1. a - Len(L) < b - Len(L)
      BY <1>9
    <3> QED
      BY <1>12, <2>3, <3>1 DEF Stream, Rising
  <2>4. ~ (a \notin 1 .. Len(L) /\ b \in 1 .. Len(L))
    BY <1>9
  <2> QED
    BY <1>16, <2>1, <2>2, <2>3, <2>4
<1>23. Message(m)
  <2>1. Len(m) # 0 /\ m[Len(m)] = s[k] /\ 1 \in 1 .. Len(m)
    BY <1>3, <1>10, <1>11 DEF Prefix
  <2>2. m # <<>> /\ Kind(Last(m)) = "eol"
    BY <1>3, <1>11, <2>1, EmptyIs DEF Last
  <2> QED
    BY <1>11, <1>17, <2>1, <2>2 DEF Message
<1>24. ASSUME NEW q \in Peers PROVE PeerStream(q)'
  <2>1. PeerStream(q) /\ link' = link
    BY <1>4 DEF Streams
  <2>2. CASE q = p
    <3>1. Stream(link[p].inbox, p, link[p].typed) /\ LoggedBefore(L, p, link[p].inbox)
      BY <1>6 DEF PeerStream, L
    <3>2. LoggedBefore(N, p, link[p].inbox)
      BY <1>12, <1>19, <3>1
    <3> QED
      BY <1>15, <1>18, <2>1, <2>2, <3>1, <3>2, Zenon DEF PeerStream, n
  <2>3. CASE q # p
    <3>1. Stream(link[q].inbox, q, link[q].typed) /\ LoggedBefore(L, q, link[q].inbox)
          /\ LoggedUpTo(L, q, link[q].typed)
      BY <2>1 DEF PeerStream, L
    <3>2. LoggedBefore(N, q, link[q].inbox) /\ LoggedUpTo(N, q, link[q].typed)
      BY <1>20, <1>21, <2>3, <3>1
    <3> QED
      BY <1>15, <2>1, <3>1, <3>2, Zenon DEF PeerStream
  <2> QED
    BY <2>2, <2>3
<1>25. ASSUME NEW h \in 1 .. Len(clients') PROVE ClientStream(clients[h], conn[clients[h].fd])'
  <2>1. h \in 1 .. Len(clients) /\ clients'[h] = IF h = cur THEN Flushed(c) ELSE clients[h]
    BY <1>5 DEF Clients1
  <2>2. CASE h = cur
    <3>1. clients'[h].curmsg = u /\ conn'[clients'[h].fd] = p
      BY <1>4, <1>5, <2>1, <2>2 DEF p
    <3>2. LoggedBefore(N, p, u)
      BY <1>13, <1>14, <1>19
    <3>3. link' = link
      BY <1>4
    <3> QED
      BY <1>13, <1>15, <3>1, <3>2, <3>3, Zenon DEF ClientStream, n
  <2>3. CASE h # cur
    <3> DEFINE d == clients[h]
               q == conn[d.fd]
    <3>1. q \in Peers /\ q # p
      <4>1. d.fd # c.fd /\ d.fd \in Fds /\ c.fd \in Fds /\ q \in Peers
        BY <1>1, <2>1, <2>3, PeerBehind DEF IInv, Registered, c
      <4>2. Received1(p)
        BY <1>2 DEF Loop
      <4> QED
        BY <1>2, <4>1, <4>2 DEF Received1, p
    <3>2. clients'[h] = d /\ conn'[clients'[h].fd] = q /\ link' = link /\ ClientStream(d, q)
      BY <1>4, <2>1, <2>3, <3>1 DEF Streams
    <3> HIDE DEF d, q
    <3>3. LoggedBefore(N, q, d.curmsg)
      BY <1>20, <3>1, <3>2 DEF ClientStream, L
    <3> QED
      BY <1>15, <3>2, <3>3, Zenon DEF ClientStream
  <2> QED
    BY <2>2, <2>3
<1>26. \A h \in 1 .. Len(log') : Message(log'[h])
  <2>1. log \in Seq(Seq(Pieces))
    BY DEF Loop, Texts
  <2>2. Len(log) \in Nat /\ Len(log') = Len(log) + 1 /\ log'[Len(log) + 1] = m
        /\ \A h \in 1 .. Len(log) : log'[h] = log[h]
    BY <1>4, <2>1
  <2>3. \A h \in 1 .. Len(log') : h \in 1 .. Len(log) \/ h = Len(log) + 1
    BY <2>2
  <2> QED
    BY <1>23, <2>2, <2>3 DEF Streams
<1> QED
  BY <1>15, <1>22, <1>24, <1>25, <1>26 DEF Streams

LEMMA TellsNothingStreams ==
  ASSUME IInv, Streams, EpollWait \/ AcceptFails PROVE Streams'
<1>1. UNCHANGED <<link, conn, clients, log>>
  BY DEF EpollWait, AcceptFails, net
<1> QED
  BY <1>1, SameStreams

LEMMA FlushEndsStreams == ASSUME IInv, Loop, Streams, Flush PROVE Streams'
<1>1. CASE cur > Len(clients)
  <2>1. UNCHANGED <<link, conn, clients, log>>
    BY <1>1 DEF Flush, Undefined, net
  <2> QED
    BY <2>1, SameStreams
<1>2. CASE cur <= Len(clients)
  <2>1. CASE clients[cur].eolpos = 0
    <3>1. UNCHANGED <<link, conn, clients, log>>
      BY <1>2, <2>1, VectorFits DEF Flush, net, IInv, Iterators
    <3> QED
      BY <3>1, SameStreams
  <2>2. CASE clients[cur].eolpos # 0
    <3>1. FlushesLine
      BY <1>2, <2>2, VectorFits DEF Flush, FlushesLine, IInv, Iterators
    <3> QED
      BY <1>2, <3>1, FlushStreams
  <2> QED
    BY <2>1, <2>2
<1> QED
  <2>1. Len(clients) \in Nat /\ cur \in Nat
    BY VectorFits DEF IInv, Iterators
  <2> QED
    BY <1>1, <1>2, <2>1

LEMMA InitStreams == Init => Streams
<1> SUFFICES ASSUME Init PROVE Streams
  OBVIOUS
<1>1. log = <<>> /\ clients = <<>>
  BY DEF Init
<1>2. Logged = <<>>
  BY <1>1, FlattenEmpty, Zenon DEF Logged
<1>3. ASSUME NEW p \in Peers PROVE PeerStream(p)
  <2>1. link[p].inbox = <<>>
    BY DEF Init
  <2>2. Stream(<<>>, p, link[p].typed)
    BY EmptyStream
  <2> QED
    BY <1>2, <2>1, <2>2 DEF PeerStream, LoggedUpTo, LoggedBefore
<1> QED
  BY <1>1, <1>2, <1>3 DEF Streams, InOrder

LEMMA StreamsStep == IInv /\ Loop /\ Streams /\ [Next]_vars => Streams'
<1> SUFFICES ASSUME IInv, Loop, Streams, [Next]_vars PROVE Streams'
  OBVIOUS
<1>1. CASE UNCHANGED vars
  BY <1>1, SameStreams DEF vars, net, server
<1> QED
  BY <1>1, QuietStreams, TypeStreams, TellsNothingStreams, DropOnEventStreams, AcceptStreams, GreetStreams,
     RecvStreams, FlushEndsStreams, SendPartStreams DEF Next

LEMMA StreamsRead == ASSUME Loop, Streams PROVE LinesInOrder
<1>1. ASSUME NEW m \in ToSet(log)
      PROVE  Kind(Last(m)) = "eol" /\ \A t \in ToSet(m) : t[1] = m[1][1]
  <2>1. PICK k \in 1 .. Len(log) : m = log[k]
    <3>1. DOMAIN log = 1 .. Len(log)
      <4>1. log \in Seq(Seq(Pieces))
        BY DEF Loop, Texts
      <4> DEFINE S == Seq(Pieces)
      <4>2. log \in Seq(S)
        BY <4>1
      <4> HIDE DEF S
      <4> QED
        BY <4>2
    <3> QED
      BY <1>1, <3>1, Zenon DEF ToSet
  <2>2. Message(m)
    BY <2>1 DEF Streams
  <2>3. DOMAIN m = 1 .. Len(m)
    BY <2>2 DEF Message
  <2> QED
    BY <2>2, <2>3 DEF Message, ToSet
<1>2. DOMAIN Logged = 1 .. Len(Logged)
  <2>1. Logged \in Seq(Pieces)
    BY LoggedIs DEF Loop
  <2> QED
    BY <2>1
<1> QED
  BY <1>1, <1>2 DEF Streams, InOrder, LinesInOrder

\* Messages are not mixed, whatever the peers type, whatever fits into a recv and
\* whoever leaves: each logged message is whole lines of one peer, and the pieces
\* of a peer are logged in the order it typed them, none twice.
THEOREM LinesLoggedInOrder == Spec => []LinesInOrder
<1>1. Init => IInv /\ Loop /\ Streams
  BY InitOK, InitLoop, InitStreams
<1>2. IInv /\ Loop /\ Streams /\ [Next]_vars => (IInv /\ Loop /\ Streams)'
  BY Step, LoopStep, StreamsStep
<1>3. IInv /\ Loop /\ Streams => LinesInOrder
  BY StreamsRead
<1> QED
  BY <1>1, <1>2, <1>3, PTL DEF Spec
--------------------------------------------------------------------------------
(* The steps and the conversation *)

\* No message is longer than two parts: behind them, the substr of SendPart's
\* Part sends again what it has sent.
ShortMessages == pc = "send" => Len(msg) <= 2 * PartMax

Said == Pieces \cup {Welcome}

\* The greeting, and then some of the first n pieces of L, in their order.
Follows(o, L, n) ==
  /\ o # <<>> => o[1] = Welcome
  /\ \A a \in 2 .. Len(o) : \E i \in 1 .. n : L[i] = o[a]
  /\ \A a, b \in 2 .. Len(o) : a < b => \E i, k \in 1 .. n : i < k /\ L[i] = o[a] /\ L[k] = o[b]

\* The message under way is the end of the log.  The clients before the iterator
\* have been sent the part, or were skipped; the others have not.
Base == Len(Logged) - Len(msg)
PartEnd == IF j + PartMax < Len(msg) THEN j + PartMax ELSE Len(msg)
Heard(k) == IF k < it THEN PartEnd ELSE j
PeerOf(k) == conn[clients[k].fd]

Listeners ==
  \A p \in Peers :
    /\ Follows(out[p], Logged, Len(Logged))
    /\ link[p].end = "away" \/ (\E i \in 1 .. Len(backlog) : backlog[i] = p) => out[p] = <<>>
\* Who has not been greeted will be sent nothing more.
Greeted ==
  \A k \in 1 .. Len(clients) :
    IF pc = "welcome" /\ k = Len(clients)
    THEN out[PeerOf(k)] = <<>> /\ (link[PeerOf(k)].err = "none" => link[PeerOf(k)].unread = 0)
    ELSE out[PeerOf(k)] # <<>> \/ link[PeerOf(k)].err = "pipe"
Broadcast ==
  pc = "send" =>
    /\ Base \in Nat /\ \A x \in 1 .. Len(msg) : Logged[Base + x] = msg[x]
    /\ j \in {0, PartMax} /\ j < Len(msg)
    /\ \A k \in 1 .. Len(clients) : Follows(out[PeerOf(k)], Logged, Base + Heard(k))

Conversation == out \in [Peers -> Seq(Said)] /\ Listeners /\ Greeted /\ Broadcast

LEMMA AddedTo ==
  ASSUME NEW a \in Nat, NEW b \in Nat, NEW c \in Nat, b <= c
  PROVE  a + b \in Nat /\ a + c \in Nat /\ a + b <= a + c
  OBVIOUS

LEMMA FollowsMore ==
  ASSUME NEW o, NEW L, NEW n \in Nat, NEW m \in Nat, n <= m, Follows(o, L, n)
  PROVE  Follows(o, L, m)
<1>1. \A i \in 1 .. n : i \in 1 .. m
  OBVIOUS
<1> QED
  BY <1>1 DEF Follows

LEMMA FollowsLonger ==
  ASSUME NEW o, NEW L, NEW M, NEW n \in Nat, \A i \in 1 .. n : M[i] = L[i], Follows(o, L, n)
  PROVE  Follows(o, M, n)
  BY DEF Follows

LEMMA FollowsStart ==
  ASSUME NEW L, NEW n
  PROVE  Follows(<<>>, L, n) /\ Follows(<<Welcome>>, L, n)
<1>1. <<Welcome>>[1] = Welcome /\ Len(<<Welcome>>) = 1 /\ Len(<<>>) = 0
  OBVIOUS
<1>2. 2 .. 0 = {} /\ 2 .. 1 = {}
  OBVIOUS
<1>3. 2 .. Len(<<>>) = {} /\ 2 .. Len(<<Welcome>>) = {}
  BY <1>1, <1>2
<1> QED
  BY <1>1, <1>3, Zenon DEF Follows

LEMMA FollowsSaid ==
  ASSUME NEW o \in Seq(Said), o # <<>>, NEW L, NEW n \in Nat, NEW m \in Nat, n <= m, Follows(o, L, n),
         NEW s \in Seq(Pieces), \A x \in 1 .. Len(s) : L[m + x] = s[x]
  PROVE  o \o s \in Seq(Said) /\ o \o s # <<>> /\ Follows(o \o s, L, m + Len(s))
<1> DEFINE w == o \o s
<1>1. s \in Seq(Said)
  BY DEF Said
<1>2. /\ w \in Seq(Said) /\ Len(w) = Len(o) + Len(s) /\ Len(o) \in Nat /\ Len(s) \in Nat
      /\ \A a \in 1 .. Len(o) : w[a] = o[a]
      /\ \A a \in 1 .. Len(s) : w[Len(o) + a] = s[a]
      /\ \A a \in 1 .. Len(w) : a \in 1 .. Len(o) \/ (a - Len(o) \in 1 .. Len(s) /\ a = Len(o) + (a - Len(o)))
  BY <1>1, JoinedAt
<1>3. Len(o) > 0
  <2>1. Len(o) # 0
    BY EmptyIs
  <2> QED
    BY <1>2, <2>1
<1> HIDE DEF w
<1>4. w # <<>> /\ w[1] = Welcome
  <2>1. Len(w) # 0 /\ 1 \in 1 .. Len(o)
    BY <1>2, <1>3
  <2>2. w # <<>>
    BY <1>2, <2>1, EmptyIs
  <2> QED
    BY <1>2, <2>1, <2>2 DEF Follows
<1>5. \A a \in 2 .. Len(w) :
        \/ a \in 2 .. Len(o) /\ w[a] = o[a]
        \/ a - Len(o) \in 1 .. Len(s) /\ w[a] = s[a - Len(o)] /\ a \notin 2 .. Len(o)
  BY <1>2, <1>3
<1>6. \A x \in 1 .. Len(s) : m + x \in 1 .. m + Len(s) /\ m + x > n
  BY <1>2
<1>7. \A i \in 1 .. n : i \in 1 .. m + Len(s)
  BY <1>2
<1>8. \A a \in 2 .. Len(w) : \E i \in 1 .. m + Len(s) : L[i] = w[a]
  <2> SUFFICES ASSUME NEW a \in 2 .. Len(w) PROVE \E i \in 1 .. m + Len(s) : L[i] = w[a]
    OBVIOUS
  <2>1. CASE a \in 2 .. Len(o) /\ w[a] = o[a]
    BY <1>7, <2>1 DEF Follows
  <2>2. CASE a - Len(o) \in 1 .. Len(s) /\ w[a] = s[a - Len(o)]
    <3>1. L[m + (a - Len(o))] = w[a] /\ m + (a - Len(o)) \in 1 .. m + Len(s)
      BY <1>6, <2>2
    <3> QED
      BY <3>1, Zenon
  <2> QED
    BY <1>5, <2>1, <2>2
<1>9. ASSUME NEW a \in 2 .. Len(w), NEW b \in 2 .. Len(w), a < b
      PROVE  \E i, k \in 1 .. m + Len(s) : i < k /\ L[i] = w[a] /\ L[k] = w[b]
  <2>1. CASE b \in 2 .. Len(o)
    <3>1. a \in 2 .. Len(o)
      BY <1>2, <1>9, <2>1
    <3>2. PICK i, k \in 1 .. n : i < k /\ L[i] = o[a] /\ L[k] = o[b]
      BY <1>9, <2>1, <3>1 DEF Follows
    <3>3. w[a] = o[a] /\ w[b] = o[b]
      BY <1>2, <2>1, <3>1
    <3> QED
      BY <1>7, <3>2, <3>3
  <2>2. CASE a \in 2 .. Len(o) /\ w[a] = o[a] /\ b - Len(o) \in 1 .. Len(s) /\ w[b] = s[b - Len(o)]
    <3>1. PICK i \in 1 .. n : L[i] = o[a]
      BY <2>2 DEF Follows
    <3>2. L[m + (b - Len(o))] = w[b]
      BY <2>2
    <3>3. m + (b - Len(o)) \in 1 .. m + Len(s) /\ i < m + (b - Len(o)) /\ i \in 1 .. m + Len(s)
      BY <1>6, <1>7, <2>2
    <3> QED
      BY <2>2, <3>1, <3>2, <3>3, Zenon
  <2>3. CASE /\ a - Len(o) \in 1 .. Len(s) /\ w[a] = s[a - Len(o)]
             /\ b - Len(o) \in 1 .. Len(s) /\ w[b] = s[b - Len(o)]
    <3>1. L[m + (a - Len(o))] = w[a] /\ L[m + (b - Len(o))] = w[b]
      BY <2>3
    <3>2. /\ m + (a - Len(o)) \in 1 .. m + Len(s) /\ m + (b - Len(o)) \in 1 .. m + Len(s)
          /\ m + (a - Len(o)) < m + (b - Len(o))
      BY <1>2, <1>6, <1>9, <2>3
    <3> QED
      BY <3>1, <3>2, Zenon
  <2> QED
    BY <1>5, <2>1, <2>2, <2>3
<1> QED
  BY <1>2, <1>4, <1>8, <1>9 DEF Follows, w

\* Nothing is said: nobody waits who did not, a broken pipe stays broken.
Silent ==
  /\ UNCHANGED <<log, out>>
  /\ \A q \in Peers :
       /\ link'[q].end = "away" \/ (\E i \in 1 .. Len(backlog') : backlog'[i] = q) =>
            link[q].end = "away" \/ (\E i \in 1 .. Len(backlog) : backlog[i] = q)
       /\ link[q].err = "pipe" => link'[q].err = "pipe"

LEMMA SilentListeners ==
  ASSUME Conversation, Silent
  PROVE  out' \in [Peers -> Seq(Said)] /\ Listeners'
<1>1. Logged' = Logged /\ out' = out
  BY DEF Silent, Logged
<1> QED
  BY <1>1 DEF Silent, Conversation, Listeners

\* A step of a peer.
LEMMA PeerConversation ==
  ASSUME IInv, Conversation, Silent, UNCHANGED <<conn, server>>,
         \A q \in Peers : link'[q].err = "none" =>
           link[q].err = "none" /\ link'[q].unread \in {0, link[q].unread}
  PROVE  Conversation'
<1>1. UNCHANGED <<conn, clients, pc, msg, j, it, log, out>> /\ Logged' = Logged
  BY DEF server, Silent, Logged
<1>2. ASSUME NEW k \in 1 .. Len(clients) PROVE PeerOf(k)' = PeerOf(k) /\ PeerOf(k) \in Peers
  BY <1>1, PeerBehind DEF PeerOf
<1>3. Greeted'
  <2>1. ASSUME NEW k \in 1 .. Len(clients)
        PROVE  IF pc = "welcome" /\ k = Len(clients)
               THEN out[PeerOf(k)] = <<>> /\ (link'[PeerOf(k)].err = "none" => link'[PeerOf(k)].unread = 0)
               ELSE out[PeerOf(k)] # <<>> \/ link'[PeerOf(k)].err = "pipe"
    BY <1>2, <2>1 DEF Conversation, Greeted, Silent
  <2> QED
    BY <1>1, <1>2, <2>1 DEF Greeted
<1>4. Broadcast'
  BY <1>1, <1>2 DEF Conversation, Broadcast, Base, Heard, PartEnd
<1> QED
  BY <1>3, <1>4, SilentListeners DEF Conversation

\* A step of the server outside the greeting and the broadcast.
LEMMA ServerConversation ==
  ASSUME IInv, Conversation, Silent, pc # "welcome", pc' \notin {"welcome", "send"},
         \A i \in 1 .. Len(clients') : \E k \in 1 .. Len(clients) :
           conn'[clients'[i].fd] = conn[clients[k].fd]
  PROVE  Conversation'
<1>1. out' = out
  BY DEF Silent
<1>2. ASSUME NEW i \in 1 .. Len(clients')
      PROVE  out'[conn'[clients'[i].fd]] # <<>> \/ link'[conn'[clients'[i].fd]].err = "pipe"
  <2>1. PICK k \in 1 .. Len(clients) : conn'[clients'[i].fd] = conn[clients[k].fd]
    OBVIOUS
  <2>2. conn[clients[k].fd] \in Peers
    BY PeerBehind
  <2>3. out[conn[clients[k].fd]] # <<>> \/ link[conn[clients[k].fd]].err = "pipe"
    BY DEF Conversation, Greeted, PeerOf
  <2> QED
    BY <1>1, <2>1, <2>2, <2>3 DEF Silent
<1>3. Greeted'
  BY <1>2 DEF Greeted, PeerOf
<1>4. Broadcast'
  BY DEF Broadcast
<1> QED
  BY <1>3, <1>4, SilentListeners DEF Conversation

LEMMA QuietConversation ==
  ASSUME IInv, Loop, Conversation, NEW p \in Peers, Type(p) \/ Read(p) \/ Leave(p) \/ ResetArrives(p)
  PROVE  Conversation'
<1>1. UNCHANGED <<backlog, conn, server, log, out>>
  BY DEF Type, Read, Leave, ResetArrives, server
<1>2. link[p] \in Links /\ (link[p].err # "none" => link[p].end = "gone")
  BY DEF Loop, LinksOK, LinkIs
<1>3. /\ \A q \in Peers : q # p => link'[q] = link[q]
      /\ link'[p].end = "away" => link[p].end = "away"
      /\ link[p].err = "pipe" => link'[p].err = "pipe"
      /\ link'[p].err = "none" => link[p].err = "none" /\ link'[p].unread \in {0, link[p].unread}
  <2>1. CASE Type(p)
    <3> DEFINE m == Append(link[p].inbox, <<p, link[p].typed + 1>>)
    <3>1. /\ link'[p] = [link[p] EXCEPT !.typed = link[p].typed + 1, !.inbox = m]
          /\ \A q \in Peers : q # p => link'[q] = link[q]
      BY <2>1, TypeLink DEF Loop
    <3> HIDE DEF m
    <3> QED
      BY <1>2, <3>1, Fields
  <2>2. CASE Read(p)
    <3>1. link'[p] = [link[p] EXCEPT !.unread = 0] /\ \A q \in Peers : q # p => link'[q] = link[q]
      BY <2>2, ReadLink DEF Loop
    <3> QED
      BY <1>2, <3>1, Fields
  <2>3. CASE Leave(p)
    <3>1. \A q \in Peers : q # p => link'[q] = link[q]
      BY <2>3, LeaveLink DEF Loop
    <3>2. PICK e \in {"none", "reset"} : link'[p] = [link[p] EXCEPT !.end = "gone", !.err = e]
      BY <2>3, LeaveLink DEF Loop
    <3>3. link[p].end = "up"
      BY <2>3 DEF Leave
    <3> QED
      BY <1>2, <3>1, <3>2, <3>3, Fields
  <2>4. CASE ResetArrives(p)
    <3>1. /\ link'[p] = [link[p] EXCEPT !.owed = FALSE, !.err = "pipe"]
          /\ \A q \in Peers : q # p => link'[q] = link[q]
      BY <2>4, ResetLink DEF Loop
    <3> QED
      BY <1>2, <3>1, Fields
  <2> QED
    BY <2>1, <2>2, <2>3, <2>4
<1>4. Silent
  BY <1>1, <1>3 DEF Silent
<1> QED
  BY <1>1, <1>3, <1>4, PeerConversation

LEMMA ConnectConversation ==
  ASSUME IInv, Loop, Conversation, NEW p \in Peers, Connect(p)
  PROVE  Conversation'
<1>1. UNCHANGED <<conn, server, log, out>> /\ backlog' = Append(backlog, p) /\ link[p].end = "away"
  BY DEF Connect, server
<1>2. link'[p] = [link[p] EXCEPT !.end = "up"] /\ \A q \in Peers : q # p => link'[q] = link[q]
  BY ConnectLink DEF Loop
<1>3. link[p] \in Links
  BY DEF Loop, LinksOK
<1>4. link'[p].end = "up" /\ link'[p].err = link[p].err /\ link'[p].unread = link[p].unread
  BY <1>2, <1>3, Fields
<1>5. \A q \in Peers : q # p => \A i \in 1 .. Len(backlog') : backlog'[i] = q =>
        i \in 1 .. Len(backlog) /\ backlog[i] = q
  <2>1. backlog \in Seq(Peers)
    BY DEF IInv, Shapes
  <2>2. /\ Len(backlog) \in Nat /\ Len(backlog') = Len(backlog) + 1 /\ backlog'[Len(backlog) + 1] = p
        /\ \A i \in 1 .. Len(backlog) : backlog'[i] = backlog[i]
    BY <1>1, <2>1
  <2>3. \A i \in 1 .. Len(backlog') : i \in 1 .. Len(backlog) \/ i = Len(backlog) + 1
    BY <2>2
  <2> QED
    BY <2>2, <2>3
<1>6. Silent
  BY <1>1, <1>2, <1>4, <1>5 DEF Silent
<1>7. \A q \in Peers : link'[q].err = "none" => link[q].err = "none" /\ link'[q].unread \in {0, link[q].unread}
  BY <1>2, <1>4
<1> QED
  BY <1>1, <1>6, <1>7, PeerConversation

\* The vector after a drop: where each client was.
LEMMA DroppedAt ==
  ASSUME IInv, NEW f \in Fds, NEW k \in 1 .. Len(clients), clients[k].fd = f, Drop(f)
  PROVE  /\ Len(clients') = Len(clients) - 1 /\ Len(clients) \in Nat
         /\ \A i \in 1 .. Len(clients') : \E n \in 1 .. Len(clients) :
              /\ n = (IF i < k THEN i ELSE i + 1) /\ conn'[clients'[i].fd] = conn[clients[n].fd]
<1>1. /\ Len(clients') = Len(clients) - 1
      /\ \A i \in 1 .. Len(clients) - 1 : clients'[i] = IF i < k THEN clients[i] ELSE clients[i + 1]
  BY DropClients
<1>2. Len(clients) \in Nat
  BY DEF IInv, Shapes
<1>3. \A g \in Fds : conn'[g] = IF g = f THEN None ELSE conn[g]
  BY DEF Drop, IInv, Shapes
<1>4. ASSUME NEW i \in 1 .. Len(clients')
      PROVE  \E n \in 1 .. Len(clients) :
               n = (IF i < k THEN i ELSE i + 1) /\ conn'[clients'[i].fd] = conn[clients[n].fd]
  <2>1. PICK n \in 1 .. Len(clients) : n = (IF i < k THEN i ELSE i + 1) /\ n # k /\ clients'[i] = clients[n]
    <3>1. CASE i < k
      <4>1. i \in 1 .. Len(clients) /\ i # k /\ clients'[i] = clients[i]
        BY <1>1, <1>2, <3>1
      <4> QED
        BY <3>1, <4>1
    <3>2. CASE ~ (i < k)
      <4>1. i + 1 \in 1 .. Len(clients) /\ i + 1 # k /\ clients'[i] = clients[i + 1]
        BY <1>1, <1>2, <3>2
      <4> QED
        BY <3>2, <4>1
    <3> QED
      BY <3>1, <3>2
  <2>2. clients[n].fd # f /\ clients[n].fd \in Fds
    BY <2>1, PeerBehind DEF IInv, Registered
  <2> QED
    BY <1>3, <2>1, <2>2
<1> QED
  BY <1>1, <1>2, <1>4

\* A socket that the server closes.
LEMMA ClosedSilent ==
  ASSUME Loop, NEW p \in Peers, link' = [link EXCEPT ![p] = Close(p)], UNCHANGED <<backlog, log, out>>
  PROVE  Silent /\ link'[p].err = link[p].err /\ \A q \in Peers : q # p => link'[q] = link[q]
<1>1. LinksOK /\ LinkIs(p, Close(p)) /\ Close(p).end = "gone" /\ Close(p).err = link[p].err
  BY CloseLink DEF Loop
<1>2. link'[p] = Close(p) /\ \A q \in Peers : q # p => link'[q] = link[q]
  BY <1>1, LinkSet
<1> QED
  BY <1>1, <1>2 DEF Silent

LEMMA SameConversation1 ==
  ASSUME IInv, Conversation, UNCHANGED <<link, backlog, conn, clients, log, out>>,
         pc # "welcome", pc' \notin {"welcome", "send"}
  PROVE  Conversation'
<1>1. Silent
  BY DEF Silent
<1> QED
  BY <1>1, ServerConversation

LEMMA TellsNothingConversation ==
  ASSUME IInv, Loop, Conversation, EpollWait \/ AcceptFails
  PROVE  Conversation'
<1>1. UNCHANGED <<link, backlog, conn, clients, log, out>> /\ pc # "welcome"
  BY DEF EpollWait, AcceptFails, net
<1>2. pc' \in {"wait", "events"}
  BY DEF EpollWait, AcceptFails, EventDone
<1> QED
  BY <1>1, <1>2, SameConversation1

LEMMA DropOnEventConversation == ASSUME IInv, Loop, Conversation, DropOnEvent PROVE Conversation'
<1> DEFINE f == batch[1].fd
<1>1. pc = "events"
  BY DEF DropOnEvent
<1>2. CASE Undefined
  BY <1>1, <1>2, SameConversation1 DEF Undefined, net
<1>3. CASE /\ Find(f) # 0 /\ Drop(f) /\ link' = [link EXCEPT ![conn[f]] = Close(conn[f])]
           /\ EventDone /\ UNCHANGED <<backlog, log, out>>
  <2>1. PICK k \in 1 .. Len(clients) : clients[k].fd = f
    BY <1>3, FindIs DEF IInv
  <2>2. f \in Fds /\ conn[f] \in Peers
    BY <2>1, PeerBehind
  <2> HIDE DEF f
  <2>3. Silent
    BY <1>3, <2>2, ClosedSilent
  <2>4. \A i \in 1 .. Len(clients') : \E n \in 1 .. Len(clients) : conn'[clients'[i].fd] = conn[clients[n].fd]
    <3>1. \A i \in 1 .. Len(clients') : \E n \in 1 .. Len(clients) :
            n = (IF i < k THEN i ELSE i + 1) /\ conn'[clients'[i].fd] = conn[clients[n].fd]
      BY <1>3, <2>1, <2>2, DroppedAt, Zenon
    <3> QED
      BY <3>1, Zenon
  <2>5. pc' \in {"wait", "events"}
    BY <1>3 DEF EventDone
  <2> QED
    BY <1>1, <2>3, <2>4, <2>5, ServerConversation
<1> QED
  BY <1>2, <1>3 DEF DropOnEvent

LEMMA RecvConversation == ASSUME IInv, Loop, Conversation, Recv PROVE Conversation'
<1>1. PICK i \in 1 .. Len(clients), t \in Seq(Pieces) :
        /\ clients[i].fd = batch[1].fd
        /\ clients' = [clients EXCEPT ![i] = Grown(clients[i], t)]
        /\ conn[batch[1].fd] \in Peers /\ link[conn[batch[1].fd]].inbox \in Seq(Pieces)
  BY RecvIs
<1> DEFINE p == conn[batch[1].fd]
           u == SubSeq(link[p].inbox, Len(Received(p)) + 1, Len(link[p].inbox))
<1>2. /\ link' = [link EXCEPT ![p].inbox = SubSeq(@, Len(Received(p)) + 1, Len(@))]
      /\ UNCHANGED <<backlog, conn, log, out>> /\ pc = "events" /\ pc' = "flush"
  BY DEF Recv
<1>3. p \in Peers /\ link \in [Peers -> Links] /\ link[p] \in Links
  BY <1>1 DEF Loop, LinksOK
<1>4. link' = [link EXCEPT ![p] = [link[p] EXCEPT !.inbox = u]]
  BY <1>2
<1> HIDE DEF p, u
<1>5. \A q \in Peers : link'[q].end = link[q].end /\ link'[q].err = link[q].err
  <2>1. \A q \in Peers : link'[q] = IF q = p THEN [link[p] EXCEPT !.inbox = u] ELSE link[q]
    BY <1>3, <1>4
  <2>2. LET l == [link[p] EXCEPT !.inbox = u] IN l.end = link[p].end /\ l.err = link[p].err
    BY <1>3, Fields
  <2> QED
    BY <2>1, <2>2
<1>6. Silent
  BY <1>2, <1>5 DEF Silent
<1>7. Client(clients[i]) /\ EolPlace(clients[i])
  BY DEF IInv, Shapes, Loop, Texts
<1>8. Grown(clients[i], t).fd = clients[i].fd
  BY <1>7, GrownIs
<1>9. \A h \in 1 .. Len(clients') : h \in 1 .. Len(clients) /\ clients'[h].fd = clients[h].fd
  <2> DEFINE c == Grown(clients[i], t)
  <2>1. clients' = [clients EXCEPT ![i] = c] /\ c.fd = clients[i].fd
    BY <1>1, <1>8
  <2> HIDE DEF c
  <2>2. Clients1(i, c)
    BY <2>1, ClientReplaced
  <2>3. ASSUME NEW h \in 1 .. Len(clients') PROVE h \in 1 .. Len(clients) /\ clients'[h].fd = clients[h].fd
    <3>1. h \in 1 .. Len(clients) /\ clients'[h] = IF h = i THEN c ELSE clients[h]
      BY <2>2, Zenon DEF Clients1
    <3> QED
      BY <2>1, <3>1, Zenon
  <2> QED
    BY <2>3, Zenon
<1> QED
  BY <1>2, <1>6, <1>9, ServerConversation

\* Between two messages.
LEMMA FlushEndsConversation ==
  ASSUME IInv, Loop, Conversation, Flush, ~ (cur <= Len(clients) /\ FlushesLine)
  PROVE  Conversation'
<1>1. UNCHANGED <<link, backlog, conn, out>> /\ pc = "flush" /\ Len(clients) \in Nat /\ cur \in Nat
  BY DEF Flush, Undefined, net, IInv, Shapes, Iterators
<1>2. UNCHANGED <<clients, log>> /\ pc' \in {"wait", "events", "undefined"}
  <2>1. CASE cur > Len(clients)
    BY <1>1, <2>1 DEF Flush, Undefined
  <2>2. CASE cur <= Len(clients) /\ clients[cur].eolpos = 0
    BY <1>1, <2>2 DEF Flush, EventDone
  <2>3. CASE cur <= Len(clients) /\ clients[cur].eolpos # 0
    <3>1. FlushesLine
      BY <1>1, <2>3 DEF Flush, FlushesLine
    <3> QED
      BY <2>3, <3>1
  <2> QED
    BY <1>1, <2>1, <2>2, <2>3
<1> QED
  BY <1>1, <1>2, SameConversation1

\* A message that is logged is what nobody has heard.
LEMMA FlushConversation ==
  ASSUME IInv, Loop, Conversation, pc = "flush", cur <= Len(clients), FlushesLine
  PROVE  Conversation'
<1> DEFINE c == clients[cur]
           m == SubSeq(c.curmsg, 1, c.eolpos)
           L == Logged
           N == L \o m
<1>1. cur \in 1 .. Len(clients)
  BY DEF IInv, Iterators, Shapes
<1>2. Client(c) /\ EolPlace(c)
  BY <1>1 DEF IInv, Shapes, Loop, Texts
<1>3. m \in Seq(Pieces) /\ Len(m) = c.eolpos /\ Len(m) > 0
  <2>1. c.curmsg \in Seq(Pieces) /\ c.eolpos \in 1 .. Len(c.curmsg) /\ Len(c.curmsg) \in Nat
    BY <1>2 DEF EolPlace, FlushesLine
  <2> DEFINE s == c.curmsg
             k == c.eolpos
  <2> HIDE DEF c
  <2>2. s \in Seq(Pieces) /\ k \in 0 .. Len(s)
    BY <2>1
  <2> HIDE DEF s, k
  <2>3. SubSeq(s, 1, k) \in Seq(Pieces) /\ Len(SubSeq(s, 1, k)) = k
    BY <2>2, PrefixOf
  <2> QED
    BY <2>1, <2>3 DEF s, k
<1>4. /\ UNCHANGED <<link, backlog, conn, out>> /\ msg' = m /\ log' = Append(log, m)
      /\ j' = 0 /\ it' = 1 /\ pc' = "send"
  BY DEF FlushesLine, net
<1>5. Clients1(cur, Flushed(c)) /\ Flushed(c).fd = c.fd
  <2>1. Flushed(c).fd = c.fd
    BY <1>2, FlushedIs
  <2> QED
    BY <1>1, <2>1, ClientReplaced DEF FlushesLine
<1>6. L \in Seq(Pieces)
  BY LoggedIs DEF Loop
<1>7. ASSUME NEW k \in 1 .. Len(clients')
      PROVE  k \in 1 .. Len(clients) /\ conn'[clients'[k].fd] = PeerOf(k) /\ PeerOf(k) \in Peers
  <2>1. k \in 1 .. Len(clients) /\ clients'[k].fd = clients[k].fd
    BY <1>5, <1>7 DEF Clients1
  <2> QED
    BY <1>4, <2>1, PeerBehind DEF PeerOf
<1> HIDE DEF c, m
<1>8. Logged' = N
  <2>1. log \in Seq(Seq(Pieces))
    BY DEF Loop, Texts
  <2> QED
    BY <1>3, <1>4, <2>1, FlattenIs DEF Logged
<1> HIDE DEF L
<1>9. /\ Len(L) \in Nat /\ Len(m) \in Nat /\ Len(N) = Len(L) + Len(m)
      /\ \A i \in 1 .. Len(L) : N[i] = L[i]
      /\ \A x \in 1 .. Len(m) : N[Len(L) + x] = m[x]
  <2>1. L \in Seq(Pieces) /\ m \in Seq(Pieces)
    BY <1>3, <1>6
  <2>2. /\ Len(L \o m) = Len(L) + Len(m) /\ Len(L) \in Nat /\ Len(m) \in Nat
        /\ \A a \in 1 .. Len(L) : (L \o m)[a] = L[a] /\ a \in 1 .. Len(L \o m)
        /\ \A a \in 1 .. Len(m) : (L \o m)[Len(L) + a] = m[a] /\ Len(L) + a \in 1 .. Len(L \o m)
    BY <2>1, JoinedAt
  <2> QED
    BY <2>2
<1> HIDE DEF N
<1>10. \A p \in Peers : Follows(out[p], N, Len(L)) /\ Follows(out[p], N, Len(N))
  <2> SUFFICES ASSUME NEW p \in Peers PROVE Follows(out[p], N, Len(L)) /\ Follows(out[p], N, Len(N))
    OBVIOUS
  <2>1. Follows(out[p], L, Len(L))
    BY DEF Conversation, Listeners, L
  <2>2. Follows(out[p], N, Len(L))
    BY <1>9, <2>1, FollowsLonger
  <2>3. Len(N) \in Nat /\ Len(L) <= Len(N)
    BY <1>9
  <2> QED
    BY <1>9, <2>2, <2>3, FollowsMore
<1>11. Listeners'
  <2>1. ASSUME NEW p \in Peers
        PROVE  /\ Follows(out'[p], Logged', Len(Logged'))
               /\ link'[p].end = "away" \/ (\E i \in 1 .. Len(backlog') : backlog'[i] = p) => out'[p] = <<>>
    <3>1. Follows(out'[p], Logged', Len(Logged'))
      BY <1>4, <1>8, <1>10, Zenon
    <3> QED
      BY <1>4, <3>1 DEF Conversation, Listeners
  <2> QED
    BY <2>1 DEF Listeners
<1>12. Greeted'
  BY <1>4, <1>7 DEF Conversation, Greeted, PeerOf
<1>13. Broadcast'
  <2>1. Base' = Len(L)
    <3>1. Base' = Len(Logged') - Len(msg')
      BY DEF Base
    <3>2. Base' = Len(N) - Len(m)
      BY <1>4, <1>8, <3>1, Zenon
    <3> QED
      BY <1>9, <3>2
  <2>2. j' \in {0, PartMax} /\ j' < Len(msg')
    BY <1>3, <1>4
  <2>3. \A x \in 1 .. Len(msg') : Logged'[Base' + x] = msg'[x]
    BY <1>4, <1>8, <1>9, <2>1
  <2>4. ASSUME NEW k \in 1 .. Len(clients')
        PROVE  Follows(out'[conn'[clients'[k].fd]], Logged', Base' + Heard(k)')
    <3>1. Heard(k)' = 0
      BY <1>4 DEF Heard
    <3>2. Base' + Heard(k)' = Len(L)
      BY <1>9, <2>1, <3>1
    <3>3. conn'[clients'[k].fd] \in Peers
      BY <1>7, Zenon
    <3> QED
      BY <1>4, <1>8, <1>10, <3>2, <3>3, Zenon
  <2>5. Base' \in Nat
    BY <1>9, <2>1
  <2> QED
    BY <2>2, <2>3, <2>4, <2>5, Zenon DEF Broadcast, PeerOf
<1> QED
  BY <1>4, <1>11, <1>12, <1>13 DEF Conversation

LEMMA FlushAllConversation == ASSUME IInv, Loop, Conversation, Flush PROVE Conversation'
<1>1. pc = "flush"
  BY DEF Flush
<1> QED
  BY <1>1, FlushConversation, FlushEndsConversation

LEMMA AcceptConversation == ASSUME IInv, Loop, Conversation, Accept PROVE Conversation'
<1> DEFINE p == Head(backlog)
<1>1. PICK f \in Fds :
        /\ conn[f] = None /\ conn' = [conn EXCEPT ![f] = p]
        /\ clients' = Append(clients, [fd |-> f, curmsg |-> <<>>, eolpos |-> 0])
        /\ p \in Peers /\ backlog # <<>> /\ backlog' = Tail(backlog) /\ pc' = "welcome"
        /\ UNCHANGED <<link, msg, j, it, log, out>>
  BY AcceptIs
<1>2. pc = "events"
  BY DEF Accept
<1> DEFINE new == [fd |-> f, curmsg |-> <<>>, eolpos |-> 0]
<1>3. new.fd = f
  OBVIOUS
<1>4. PICK S : clients \in Seq(S)
  BY DEF IInv, Shapes
<1>5. /\ backlog \in Seq(Peers) /\ Len(backlog) \in Nat /\ Len(backlog') = Len(backlog) - 1
      /\ \A i \in 1 .. Len(backlog) - 1 : backlog'[i] = backlog[i + 1]
      /\ 1 \in 1 .. Len(backlog) /\ backlog[1] = p
  BY <1>1 DEF IInv, Shapes
<1>6. \A g \in Fds : conn'[g] = IF g = f THEN p ELSE conn[g]
  BY <1>1 DEF IInv, Shapes
<1> HIDE DEF p, new
<1>7. /\ Len(clients) \in Nat /\ Len(clients') = Len(clients) + 1 /\ clients'[Len(clients) + 1] = new
      /\ \A i \in 1 .. Len(clients) : clients'[i] = clients[i]
  BY <1>1, <1>4 DEF new
<1>8. Silent
  <2>1. \A q \in Peers : (\E i \in 1 .. Len(backlog') : backlog'[i] = q) => \E i \in 1 .. Len(backlog) : backlog[i] = q
    <3>1. \A i \in 1 .. Len(backlog') : i + 1 \in 1 .. Len(backlog) /\ backlog'[i] = backlog[i + 1]
      BY <1>5
    <3> QED
      BY <3>1
  <2> QED
    BY <1>1, <2>1 DEF Silent
<1>9. out[p] = <<>> /\ link[p].unread = 0
  BY <1>1, <1>5 DEF Conversation, Listeners, Loop, Received1
<1>10. ASSUME NEW k \in 1 .. Len(clients')
       PROVE  \/ k = Len(clients') /\ conn'[clients'[k].fd] = p
              \/ k # Len(clients') /\ k \in 1 .. Len(clients) /\ conn'[clients'[k].fd] = PeerOf(k)
  <2>1. CASE k \in 1 .. Len(clients)
    <3>1. clients[k].fd \in Fds /\ clients[k].fd # f /\ clients'[k] = clients[k]
      <4>1. clients[k].fd \in Fds /\ conn[clients[k].fd] \in Peers
        BY <2>1, PeerBehind
      <4> QED
        BY <1>1, <1>7, <2>1, <4>1
    <3> QED
      BY <1>6, <1>7, <2>1, <3>1 DEF PeerOf
  <2>2. CASE k = Len(clients) + 1
    BY <1>1, <1>3, <1>6, <1>7, <2>2
  <2> QED
    BY <1>7, <2>1, <2>2
<1>11. Greeted'
  <2>1. \A k \in 1 .. Len(clients) : out[PeerOf(k)] # <<>> \/ link[PeerOf(k)].err = "pipe"
    BY <1>2 DEF Conversation, Greeted
  <2> QED
    BY <1>1, <1>9, <1>10, <2>1 DEF Greeted, PeerOf
<1>12. Broadcast'
  BY <1>1 DEF Broadcast
<1> QED
  BY <1>8, <1>11, <1>12, SilentListeners DEF Conversation

\* A send takes nothing only where the connection has failed or the buffer is full.
LEMMA SendTakes ==
  ASSUME Loop, NEW p \in Peers, link[p].end # "away", NEW n \in Nat,
         link' = [link EXCEPT ![p] = AfterSend(p, n)], UNCHANGED <<backlog, log>>
  PROVE  /\ \A q \in Peers : q # p => link'[q] = link[q]
         /\ link'[p].end = link[p].end /\ (link[p].err = "pipe" => link'[p].err = "pipe")
         /\ Taken(p, n) \in 0 .. n
         /\ link[p].err # "none" => Taken(p, n) = 0 /\ link'[p].err = "pipe"
<1>1. LinksOK /\ LinkIs(p, link[p]) /\ link[p] \in Links
  BY DEF Loop, LinksOK
<1>2. LinkIs(p, AfterSend(p, n)) /\ AfterSend(p, n).end = link[p].end /\ Taken(p, n) \in 0 .. n
  BY <1>1, SendLink
<1>3. link'[p] = AfterSend(p, n) /\ \A q \in Peers : q # p => link'[q] = link[q]
  BY <1>1, <1>2, LinkSet
<1>4. link[p].err # "none" => Taken(p, n) = 0 /\ AfterSend(p, n).err = "pipe"
  <2>1. CASE link[p].err = "reset"
    <3>1. AfterSend(p, n) = [link[p] EXCEPT !.err = "pipe"]
      BY <2>1 DEF AfterSend
    <3> QED
      BY <1>1, <2>1, <3>1, Fields DEF Taken
  <2>2. CASE link[p].err = "pipe"
    <3>1. AfterSend(p, n) = [link[p] EXCEPT !.owed = TRUE]
      BY <1>1, <2>2, Fields DEF AfterSend, LinkIs
    <3> QED
      BY <1>1, <2>2, <3>1, Fields DEF Taken
  <2> QED
    BY <1>1, <2>1, <2>2, Fields
<1>5. link[p].err = "pipe" => link[p].err # "none"
  OBVIOUS
<1> QED
  BY <1>2, <1>3, <1>4, <1>5

LEMMA GreetConversation == ASSUME IInv, Loop, Conversation, Greet PROVE Conversation'
<1> DEFINE f == Last(clients).fd
           p == conn[f]
           n == Len(clients)
<1>1. n \in 1 .. n /\ f \in Fds /\ p \in Peers /\ f = clients[n].fd
  BY GreetIs DEF Last
<1>2. /\ link' = [link EXCEPT ![p] = AfterSend(p, 1)]
      /\ out' = [out EXCEPT ![p] = IF Taken(p, 1) = 1 THEN Append(@, Welcome) ELSE @]
      /\ pc = "welcome" /\ pc' = "events" /\ UNCHANGED <<backlog, conn, clients, log>>
  BY DEF Greet, AcceptsAgain
<1>3. p = PeerOf(n)
  BY <1>1 DEF PeerOf
<1> HIDE DEF f
<1>4. link[p].end # "away" /\ \A i \in 1 .. Len(backlog) : backlog[i] # p
  BY <1>1 DEF Loop, Received1
<1> HIDE DEF p
<1>5. /\ \A q \in Peers : q # p => link'[q] = link[q]
      /\ link'[p].end = link[p].end /\ (link[p].err = "pipe" => link'[p].err = "pipe")
      /\ Taken(p, 1) \in 0 .. 1
      /\ link[p].err # "none" => Taken(p, 1) = 0 /\ link'[p].err = "pipe"
  BY <1>1, <1>2, <1>4, SendTakes
<1>6. out[p] = <<>> /\ (link[p].err = "none" => link[p].unread = 0)
  BY <1>1, <1>2, <1>3 DEF Conversation, Greeted
<1>7. link[p].err = "none" => Taken(p, 1) = 1
  <2>1. SndBuf \in Nat \ {0}
    OBVIOUS
  <2> QED
    BY <1>6, <2>1 DEF Taken
<1>8. out'[p] = IF Taken(p, 1) = 1 THEN <<Welcome>> ELSE <<>>
  <2>1. out \in [Peers -> Seq(Said)] /\ Append(<<>>, Welcome) = <<Welcome>>
    BY DEF Conversation
  <2> QED
    BY <1>1, <1>2, <1>6, <2>1
<1>9. \A q \in Peers : q # p => out'[q] = out[q]
  BY <1>2 DEF Conversation
<1>10. out' \in [Peers -> Seq(Said)]
  <2>1. <<Welcome>> \in Seq(Said) /\ <<>> \in Seq(Said)
    BY DEF Said
  <2>2. out'[p] \in Seq(Said)
    BY <1>8, <2>1
  <2>3. \E v : out' = [out EXCEPT ![p] = v]
    BY <1>2
  <2> QED
    BY <1>1, <2>2, <2>3 DEF Conversation
<1>11. Logged' = Logged
  BY <1>2 DEF Logged
<1>12. ASSUME NEW q \in Peers
       PROVE  /\ Follows(out'[q], Logged', Len(Logged'))
              /\ link'[q].end = "away" \/ (\E i \in 1 .. Len(backlog') : backlog'[i] = q) => out'[q] = <<>>
  <2>1. CASE q = p
    <3>1. Follows(out'[q], Logged, Len(Logged))
      BY <1>8, <2>1, FollowsStart
    <3> QED
      BY <1>2, <1>4, <1>5, <1>11, <2>1, <3>1, Zenon
  <2>2. CASE q # p
    <3>1. out'[q] = out[q] /\ link'[q] = link[q]
      BY <1>5, <1>9, <2>2
    <3> QED
      BY <1>2, <1>11, <3>1 DEF Conversation, Listeners
  <2> QED
    BY <2>1, <2>2
<1>13. ASSUME NEW k \in 1 .. Len(clients')
       PROVE  out'[PeerOf(k)] # <<>> \/ link'[PeerOf(k)].err = "pipe"
  <2>1. CASE PeerOf(k) = p
    <3>1. CASE link[p].err = "none"
      <4>1. out'[p] = <<Welcome>> /\ <<Welcome>> # <<>>
        BY <1>7, <1>8, <3>1
      <4> QED
        BY <2>1, <4>1
    <3>2. CASE link[p].err # "none"
      BY <1>5, <2>1, <3>2
    <3> QED
      BY <3>1, <3>2
  <2>2. CASE PeerOf(k) # p
    <3>1. k \in 1 .. Len(clients) /\ k # Len(clients)
      BY <1>2, <1>3, <2>2
    <3>2. PeerOf(k) \in Peers
      BY <3>1, PeerBehind DEF PeerOf
    <3>3. out[PeerOf(k)] # <<>> \/ link[PeerOf(k)].err = "pipe"
      BY <3>1 DEF Conversation, Greeted
    <3> QED
      BY <1>5, <1>9, <2>2, <3>2, <3>3
  <2> QED
    BY <2>1, <2>2
<1>14. Greeted'
  BY <1>2, <1>13 DEF Greeted, PeerOf
<1>15. Broadcast'
  BY <1>2 DEF Broadcast
<1>16. Listeners'
  BY <1>12 DEF Listeners
<1> QED
  BY <1>10, <1>14, <1>15, <1>16 DEF Conversation

LEMMA Smaller == ASSUME NEW a \in Nat, NEW b \in Nat PROVE Min({a, b}) = IF a < b THEN a ELSE b
<1>1. {a, b} \subseteq Nat /\ {a, b} # {}
  OBVIOUS
<1>2. Min({a, b}) \in {a, b} /\ \A y \in {a, b} : Min({a, b}) <= y
  <2> DEFINE T == {a, b}
  <2>1. PICK x \in T : \A y \in T : x <= y
    BY <1>1, MinExists
  <2> QED
    BY <2>1 DEF Min
<1> DEFINE x == Min({a, b})
<1> HIDE DEF x
<1>3. x \in {a, b} /\ \A y \in {a, b} : x <= y
  BY <1>2 DEF x
<1>4. x = IF a < b THEN a ELSE b
  BY <1>3
<1> QED
  BY <1>4 DEF x

\* The two parts of a message: the pieces from the j-th on, up to where the next
\* part begins or the message ends.
LEMMA PartPieces ==
  ASSUME Texts, j \in {0, PartMax}, j < Len(msg), Len(msg) <= 2 * PartMax
  PROVE  /\ Part \in Seq(Pieces) /\ Len(Part) = PartEnd - j /\ PartEnd \in j + 1 .. Len(msg)
         /\ \A x \in 1 .. Len(Part) : Part[x] = msg[j + x] /\ j + x \in 1 .. Len(msg)
<1> DEFINE n == Len(msg)
           a == Min({j + PartMax, n})
           b == Min({j + a, n})
<1>1. n \in Nat /\ PartMax \in Nat \ {0} /\ j \in Nat /\ msg \in Seq(Pieces)
  BY DEF Texts
<1>2. Part = SubSeq(msg, j + 1, b)
  BY DEF Part
<1> HIDE DEF n
<1>3. a = IF j + PartMax < n THEN j + PartMax ELSE n
  BY <1>1, Smaller
<1> HIDE DEF a
<1>4. j + a \in Nat
  BY <1>1, <1>3
<1>5. b = IF j + a < n THEN j + a ELSE n
  BY <1>1, <1>4, Smaller
<1> HIDE DEF b
<1>6. b = PartEnd
  BY <1>1, <1>3, <1>5 DEF PartEnd, n
<1>7. b \in j + 1 .. n
  BY <1>1, <1>6 DEF PartEnd, n
<1> HIDE DEF PartEnd
<1>8. /\ SubSeq(msg, j + 1, b) \in Seq(Pieces) /\ Len(SubSeq(msg, j + 1, b)) = b - j
      /\ \A x \in 1 .. b - j : SubSeq(msg, j + 1, b)[x] = msg[j + x] /\ j + x \in 1 .. n
  BY <1>1, <1>7 DEF n
<1> QED
  BY <1>2, <1>6, <1>7, <1>8 DEF n

LEMMA NextPart ==
  ASSUME Texts, NEW n \in Nat, NextClient(n), it \in 1 .. n + 1, pc = "send", j \in {0, PartMax},
         j < Len(msg), Len(msg) <= 2 * PartMax
  PROVE  /\ pc' # "welcome"
         /\ pc' = "send" =>
              \/ it' = it + 1 /\ j' = j
              \/ it' = 1 /\ j' = PartMax /\ j' = PartEnd /\ j' < Len(msg)
<1>1. Len(msg) \in Nat /\ PartMax \in Nat \ {0}
  BY DEF Texts
<1>2. CASE it < n
  BY <1>2 DEF NextClient
<1>3. CASE it > n
  BY <1>3 DEF NextClient
<1>4. CASE it = n
  <2>1. j' = j + PartMax /\ it' = 1 /\ pc' = IF j + PartMax < Len(msg) THEN "send" ELSE "flush"
    BY <1>4 DEF NextClient
  <2>2. j + PartMax < Len(msg) => j = 0
    BY <1>1
  <2> QED
    BY <1>1, <2>1, <2>2 DEF PartEnd
<1> QED
  BY <1>1, <1>2, <1>3, <1>4

\* A client whose send takes nothing is gone, the client behind it has its place.
LEMMA SendDropsConversation ==
  ASSUME IInv, Loop, Conversation, pc = "send", Len(msg) <= 2 * PartMax, NEW f \in Fds, conn[f] \in Peers,
         it \in 1 .. Len(clients), clients[it].fd = f,
         Drop(f), link' = [link EXCEPT ![conn[f]] = Close(conn[f])], NextClient(Len(clients) - 1),
         UNCHANGED <<backlog, batch, cur, msg, log, out>>
  PROVE  Conversation'
<1>1. Silent
  BY ClosedSilent
<1>2. /\ Len(clients') = Len(clients) - 1 /\ Len(clients) \in Nat
      /\ \A i \in 1 .. Len(clients') : \E n \in 1 .. Len(clients) :
           n = (IF i < it THEN i ELSE i + 1) /\ conn'[clients'[i].fd] = conn[clients[n].fd]
  BY DroppedAt
<1>3. /\ Base \in Nat /\ \A x \in 1 .. Len(msg) : Logged[Base + x] = msg[x]
      /\ j \in {0, PartMax} /\ j < Len(msg)
      /\ \A k \in 1 .. Len(clients) : Follows(out[PeerOf(k)], Logged, Base + Heard(k))
  BY DEF Conversation, Broadcast
<1>4. /\ pc' # "welcome"
      /\ pc' = "send" =>
           \/ it' = it + 1 /\ j' = j
           \/ it' = 1 /\ j' = PartMax /\ j' = PartEnd /\ j' < Len(msg)
  <2>1. Len(clients) - 1 \in Nat /\ it \in 1 .. (Len(clients) - 1) + 1
    BY <1>2
  <2> QED
    BY <1>3, <2>1, NextPart DEF Loop
<1>5. CASE pc' # "send"
  BY <1>1, <1>2, <1>4, <1>5, ServerConversation
<1>6. CASE pc' = "send"
  <2>1. Len(msg) \in Nat /\ j \in Nat /\ PartEnd \in Nat /\ j <= PartEnd
    BY <1>3 DEF Loop, Texts, PartEnd
  <2>2. Logged' = Logged /\ Base' = Base /\ msg' = msg /\ out' = out
    BY DEF Logged, Base
  <2>3. j' \in {0, PartMax} /\ j' < Len(msg)
    BY <1>3, <1>4, <1>6
  <2>4. PartEnd' = PartEnd \/ it' = 1
    BY <1>4, <1>6 DEF PartEnd
  <2> DEFINE heard(k) == IF k < it' THEN PartEnd' ELSE j'
  <2>5. ASSUME NEW i \in 1 .. Len(clients')
        PROVE  Follows(out'[conn'[clients'[i].fd]], Logged', Base' + heard(i))
    <3>1. PICK n \in 1 .. Len(clients) :
            n = (IF i < it THEN i ELSE i + 1) /\ conn'[clients'[i].fd] = conn[clients[n].fd]
      BY <1>2
    <3>2. Heard(n) \in Nat /\ heard(i) \in Nat /\ Heard(n) <= heard(i)
      <4>1. i \in Nat /\ n \in Nat /\ i >= 1 /\ it \in Nat
        BY <1>2
      <4>2. CASE it' = it + 1 /\ j' = j
        <5>1. PartEnd' = PartEnd
          BY <4>2 DEF PartEnd
        <5> HIDE DEF PartEnd
        <5>2. n < it => i < it'
          BY <3>1, <4>1, <4>2
        <5>3. heard(i) = IF i < it' THEN PartEnd ELSE j
          BY <4>2, <5>1
        <5> QED
          BY <2>1, <5>2, <5>3 DEF Heard
      <4>3. CASE it' = 1 /\ j' = PartEnd
        <5>1. heard(i) = PartEnd
          BY <4>1, <4>3
        <5> QED
          BY <2>1, <5>1, SMTT(30) DEF Heard
      <4> QED
        BY <1>4, <1>6, <4>2, <4>3
    <3>3. Follows(out[PeerOf(n)], Logged, Base + Heard(n))
      BY <1>3
    <3> HIDE DEF heard
    <3>4. Base + Heard(n) \in Nat /\ Base + heard(i) \in Nat /\ Base + Heard(n) <= Base + heard(i)
      BY <1>3, <3>2, AddedTo, Zenon
    <3>5. Follows(out[PeerOf(n)], Logged, Base + heard(i))
      BY <3>3, <3>4, FollowsMore
    <3> QED
      BY <2>2, <3>1, <3>5, Zenon DEF PeerOf
  <2>6. Broadcast'
    BY <1>3, <2>2, <2>3, <2>5, Zenon DEF Broadcast, Heard, PeerOf
  <2>7. Greeted'
    <3>1. ASSUME NEW i \in 1 .. Len(clients')
          PROVE  out'[conn'[clients'[i].fd]] # <<>> \/ link'[conn'[clients'[i].fd]].err = "pipe"
      <4>1. PICK n \in 1 .. Len(clients) : conn'[clients'[i].fd] = conn[clients[n].fd]
        BY <1>2
      <4>2. conn[clients[n].fd] \in Peers
        BY PeerBehind
      <4>3. out[conn[clients[n].fd]] # <<>> \/ link[conn[clients[n].fd]].err = "pipe"
        BY DEF Conversation, Greeted, PeerOf
      <4> QED
        BY <1>1, <2>2, <4>1, <4>2, <4>3 DEF Silent
    <3> QED
      BY <1>6, <3>1 DEF Greeted, PeerOf
  <2> QED
    BY <1>1, <2>6, <2>7, SilentListeners DEF Conversation
<1> QED
  BY <1>5, <1>6

\* What a send takes is the next that its client has not heard.
LEMMA SendTakesConversation ==
  ASSUME IInv, Loop, Conversation, pc = "send", Len(msg) <= 2 * PartMax, NEW f \in Fds, conn[f] \in Peers,
         it \in 1 .. Len(clients), clients[it].fd = f,
         link' = [link EXCEPT ![conn[f]] = AfterSend(conn[f], Len(Part))], Taken(conn[f], Len(Part)) > 0,
         out' = [out EXCEPT ![conn[f]] = @ \o SubSeq(Part, 1, Taken(conn[f], Len(Part)))],
         NextClient(Len(clients)), UNCHANGED <<backlog, conn, ready, batch, clients, cur, msg, log>>
  PROVE  Conversation'
<1> DEFINE p == conn[f]
           L == Logged
           t == Taken(p, Len(Part))
           s == SubSeq(Part, 1, t)
<1>1. /\ Base \in Nat /\ \A x \in 1 .. Len(msg) : L[Base + x] = msg[x]
      /\ j \in {0, PartMax} /\ j < Len(msg)
      /\ \A k \in 1 .. Len(clients) : Follows(out[PeerOf(k)], L, Base + Heard(k))
  BY DEF Conversation, Broadcast
<1>2. p = PeerOf(it) /\ p \in Peers
  BY DEF PeerOf
<1>3. link[p].end # "away" /\ \A i \in 1 .. Len(backlog) : backlog[i] # p
  BY DEF Loop, Received1
<1>4. /\ Part \in Seq(Pieces) /\ Len(Part) = PartEnd - j /\ PartEnd \in j + 1 .. Len(msg)
      /\ \A x \in 1 .. Len(Part) : Part[x] = msg[j + x] /\ j + x \in 1 .. Len(msg)
  BY <1>1, PartPieces DEF Loop
<1>5. Len(Part) \in Nat /\ Len(msg) \in Nat /\ j \in Nat /\ Len(clients) \in Nat
  BY <1>4, SMTT(30) DEF Loop, Texts, IInv, Shapes
<1>6. /\ link' = [link EXCEPT ![p] = AfterSend(p, Len(Part))] /\ t > 0
      /\ out' = [out EXCEPT ![p] = @ \o s]
  OBVIOUS
<1> HIDE DEF p
<1>7. /\ \A q \in Peers : q # p => link'[q] = link[q]
      /\ link'[p].end = link[p].end /\ (link[p].err = "pipe" => link'[p].err = "pipe")
      /\ t \in 0 .. Len(Part)
      /\ link[p].err # "none" => t = 0
  <2> DEFINE m == Len(Part)
  <2>1. m \in Nat /\ link' = [link EXCEPT ![p] = AfterSend(p, m)] /\ UNCHANGED <<backlog, log>>
    BY <1>5, <1>6
  <2>2. t = Taken(p, m)
    OBVIOUS
  <2> HIDE DEF m, t, s
  <2>3. /\ \A q \in Peers : q # p => link'[q] = link[q]
        /\ link'[p].end = link[p].end /\ (link[p].err = "pipe" => link'[p].err = "pipe")
        /\ Taken(p, m) \in 0 .. m
        /\ link[p].err # "none" => Taken(p, m) = 0 /\ link'[p].err = "pipe"
    BY <1>2, <1>3, <2>1, SendTakes
  <2> QED
    BY <2>2, <2>3, Zenon DEF m
<1> HIDE DEF t
<1>8. s \in Seq(Pieces) /\ Len(s) = t /\ \A x \in 1 .. t : s[x] = L[Base + j + x]
  <2>1. s \in Seq(Pieces) /\ Len(s) = t /\ Prefix(s, Part)
    BY <1>4, <1>7, PrefixOf
  <2>2. \A x \in 1 .. t : x \in 1 .. Len(Part) /\ s[x] = Part[x]
    BY <1>5, <1>7, <2>1 DEF Prefix
  <2>3. \A x \in 1 .. t : s[x] = msg[j + x] /\ j + x \in 1 .. Len(msg)
    BY <1>4, <2>2
  <2>4. \A x \in 1 .. t : Base + (j + x) = Base + j + x
    BY <1>1, <1>5, <1>7
  <2> HIDE DEF s, L
  <2> QED
    BY <1>1, <2>1, <2>3, <2>4
<1> HIDE DEF s
<1>9. out[p] # <<>> /\ out \in [Peers -> Seq(Said)] /\ out[p] \in Seq(Said)
  <2>1. link[p].err = "none"
    BY <1>5, <1>6, <1>7
  <2>2. out[p] # <<>> \/ link[p].err = "pipe"
    BY <1>2 DEF Conversation, Greeted
  <2> QED
    BY <1>2, <2>1, <2>2 DEF Conversation
<1>10. Base + j \in Nat /\ Base + PartEnd \in Nat /\ Base + j + t \in Nat /\ Base + j + t <= Base + PartEnd
       /\ Base + PartEnd <= Len(L) /\ Len(L) \in Nat
  <2>1. Len(L) \in Nat
    <3>1. L \in Seq(Pieces)
      BY LoggedIs DEF Loop
    <3> QED
      BY <3>1
  <2>2. Base = Len(L) - Len(msg) /\ Base \in Nat
    BY <1>1 DEF Base
  <2> HIDE DEF L
  <2> DEFINE e == PartEnd
  <2>3. e \in Nat /\ e <= Len(msg) /\ j + t <= e /\ t \in Nat
    BY <1>4, <1>5, <1>7
  <2> HIDE DEF e
  <2> QED
    BY <1>5, <2>1, <2>2, <2>3 DEF e
<1> HIDE DEF L
<1>11. out[p] \o s \in Seq(Said) /\ out[p] \o s # <<>> /\ Follows(out[p] \o s, L, Base + PartEnd)
  <2>1. Heard(it) = j
    <3>1. ~ (it < it)
      OBVIOUS
    <3> QED
      BY <3>1 DEF Heard
  <2>2. Follows(out[p], L, Base + j)
    BY <1>1, <1>2, <2>1, Zenon
  <2>3. \A x \in 1 .. Len(s) : L[(Base + j) + x] = s[x]
    BY <1>8
  <2>4. Base + j <= Base + j
    BY <1>10
  <2>5. /\ out[p] \o s \in Seq(Said) /\ out[p] \o s # <<>>
        /\ Follows(out[p] \o s, L, Base + j + Len(s))
    BY <1>8, <1>9, <1>10, <2>2, <2>3, <2>4, FollowsSaid
  <2>6. Follows(out[p] \o s, L, Base + j + t)
    BY <1>8, <2>5, Zenon
  <2>7. Follows(out[p] \o s, L, Base + PartEnd)
    BY <1>10, <2>6, FollowsMore
  <2> QED
    BY <2>5, <2>7
<1> DEFINE w == out[p] \o s
<1>12. out'[p] = w /\ \A q \in Peers : q # p => out'[q] = out[q]
  BY <1>2, <1>6, <1>9
<1> HIDE DEF w
<1>13. out' \in [Peers -> Seq(Said)]
  <2>1. out' = [out EXCEPT ![p] = w]
    BY <1>6 DEF w
  <2> QED
    BY <1>2, <1>9, <1>11, <2>1 DEF w
<1>14. Follows(out'[p], L, Base + PartEnd) /\ out'[p] # <<>>
  BY <1>11, <1>12, Zenon DEF w
<1>15. /\ pc' # "welcome"
       /\ pc' = "send" =>
            \/ it' = it + 1 /\ j' = j
            \/ it' = 1 /\ j' = PartMax /\ j' = PartEnd /\ j' < Len(msg)
  <2>1. it \in 1 .. Len(clients) + 1
    BY <1>5
  <2> QED
    BY <1>1, <1>5, <2>1, NextPart DEF Loop
<1>16. Logged' = L /\ Base' = Base /\ msg' = msg
  BY DEF L, Logged, Base
<1>17. Listeners'
  <2>1. ASSUME NEW q \in Peers
        PROVE  /\ Follows(out'[q], L, Len(L))
               /\ link'[q].end = "away" \/ (\E i \in 1 .. Len(backlog') : backlog'[i] = q) => out'[q] = <<>>
    <3>1. CASE q = p
      <4>1. Follows(out'[p], L, Len(L))
        BY <1>10, <1>14, FollowsMore
      <4> QED
        BY <1>3, <1>7, <3>1, <4>1
    <3>2. CASE q # p
      <4>1. out'[q] = out[q] /\ link'[q] = link[q]
        BY <1>7, <1>12, <3>2
      <4> QED
        BY <4>1 DEF Conversation, Listeners, L
    <3> QED
      BY <3>1, <3>2
  <2> QED
    BY <1>16, <2>1, Zenon DEF Listeners
<1>18. ASSUME NEW k \in 1 .. Len(clients)
       PROVE  PeerOf(k)' = PeerOf(k) /\ PeerOf(k) \in Peers /\ (PeerOf(k) = p => k = it)
  <2>1. clients[k].fd \in Fds /\ conn[clients[k].fd] \in Peers
    BY PeerBehind
  <2>2. PeerOf(k) = p => clients[k].fd = clients[it].fd
    BY <2>1 DEF PeerOf, p, Loop, Received1
  <2>3. clients[k].fd = clients[it].fd => k = it
    BY DEF IInv, Registered
  <2> QED
    BY <2>1, <2>2, <2>3 DEF PeerOf
<1>19. Greeted'
  <2>1. ASSUME NEW k \in 1 .. Len(clients)
        PROVE  out'[PeerOf(k)] # <<>> \/ link'[PeerOf(k)].err = "pipe"
    <3>1. CASE PeerOf(k) = p
      BY <1>14, <3>1
    <3>2. CASE PeerOf(k) # p
      <4>1. out[PeerOf(k)] # <<>> \/ link[PeerOf(k)].err = "pipe"
        BY DEF Conversation, Greeted
      <4> QED
        BY <1>7, <1>12, <1>18, <3>2, <4>1
    <3> QED
      BY <3>1, <3>2
  <2> QED
    BY <1>15, <1>18, <2>1 DEF Greeted
<1>20. ASSUME pc' = "send" PROVE Broadcast'
  <2>1. j' \in {0, PartMax} /\ j' < Len(msg')
    BY <1>1, <1>15, <1>16, <1>20
  <2>2. \A x \in 1 .. Len(msg') : Logged'[Base' + x] = msg'[x]
    BY <1>1, <1>16, Zenon
  <2>3. PartEnd \in Nat /\ j <= PartEnd
    BY <1>4, <1>5
  <2> DEFINE heard(k) == IF k < it' THEN PartEnd' ELSE j'
  <2>4. ASSUME NEW k \in 1 .. Len(clients)
        PROVE  heard(k) \in Nat /\ (k = it => heard(k) = PartEnd) /\ Heard(k) \in Nat /\ Heard(k) <= heard(k)
    <3>1. k \in Nat /\ k >= 1 /\ it \in Nat
      BY <1>5
    <3>2. CASE it' = it + 1 /\ j' = j
      <4>1. PartEnd' = PartEnd
        BY <1>16, <3>2 DEF PartEnd
      <4>2. (k < it => k < it') /\ (k = it => k < it')
        BY <3>1, <3>2
      <4> HIDE DEF PartEnd
      <4>3. heard(k) = IF k < it' THEN PartEnd ELSE j
        BY <3>2, <4>1
      <4> HIDE DEF heard
      <4> QED
        BY <1>5, <2>3, <4>2, <4>3 DEF Heard
    <3>3. CASE it' = 1 /\ j' = PartEnd
      <4>1. heard(k) = PartEnd
        BY <3>1, <3>3
      <4> HIDE DEF heard, PartEnd
      <4> QED
        BY <1>5, <2>3, <4>1 DEF Heard
    <3> QED
      BY <1>15, <1>20, <3>2, <3>3
  <2>5. ASSUME NEW k \in 1 .. Len(clients)
        PROVE  Follows(out'[PeerOf(k)], L, Base + heard(k))
    <3>1. CASE PeerOf(k) = p
      <4>1. heard(k) = PartEnd
        BY <1>18, <2>4, <3>1
      <4> HIDE DEF heard
      <4> QED
        BY <1>14, <3>1, <4>1, Zenon
    <3>2. CASE PeerOf(k) # p
      <4>1. out'[PeerOf(k)] = out[PeerOf(k)]
        BY <1>12, <1>18, <3>2
      <4>2. Follows(out'[PeerOf(k)], L, Base + Heard(k))
        BY <1>1, <4>1, Zenon
      <4>3. heard(k) \in Nat /\ Heard(k) \in Nat /\ Heard(k) <= heard(k)
        BY <2>4, Zenon
      <4> HIDE DEF heard
      <4>4. Base + Heard(k) \in Nat /\ Base + heard(k) \in Nat /\ Base + Heard(k) <= Base + heard(k)
        BY <1>1, <4>3, AddedTo, Zenon
      <4> QED
        BY <4>2, <4>4, FollowsMore
    <3> QED
      BY <3>1, <3>2
  <2>6. ASSUME NEW k \in 1 .. Len(clients')
        PROVE  Follows(out'[PeerOf(k)'], Logged', Base' + heard(k))
    BY <1>16, <1>18, <2>5, Zenon
  <2> QED
    BY <1>1, <1>16, <2>1, <2>2, <2>6, Zenon DEF Broadcast, Heard
<1>21. Broadcast'
  <2>1. CASE pc' = "send"
    BY <1>20, <2>1
  <2>2. CASE pc' # "send"
    BY <2>2 DEF Broadcast
  <2> QED
    BY <2>1, <2>2
<1> QED
  BY <1>13, <1>17, <1>19, <1>21 DEF Conversation

LEMMA SendPartConversation ==
  ASSUME IInv, Loop, Conversation, ShortMessages, SendPart
  PROVE  Conversation'
<1> DEFINE f == clients[it].fd
<1>1. /\ f \in Fds /\ conn[f] \in Peers /\ it \in 1 .. Len(clients) /\ pc = "send"
      /\ \/ pc' = "killed" /\ UNCHANGED <<net, batch, clients, cur, msg, j, it, log, out>>
         \/ /\ Drop(f) /\ link' = [link EXCEPT ![conn[f]] = Close(conn[f])]
            /\ NextClient(Len(clients) - 1) /\ UNCHANGED <<backlog, batch, cur, msg, log, out>>
         \/ /\ link' = [link EXCEPT ![conn[f]] = AfterSend(conn[f], Len(Part))]
            /\ Taken(conn[f], Len(Part)) > 0
            /\ out' = [out EXCEPT ![conn[f]] = @ \o SubSeq(Part, 1, Taken(conn[f], Len(Part)))]
            /\ NextClient(Len(clients))
            /\ UNCHANGED <<backlog, conn, ready, batch, clients, cur, msg, log>>
  BY SendPartIs
<1>2. Len(msg) <= 2 * PartMax
  BY <1>1 DEF ShortMessages
<1>3. clients[it].fd = f
  OBVIOUS
<1> HIDE DEF f
<1>4. CASE pc' = "killed" /\ UNCHANGED <<net, batch, clients, cur, msg, j, it, log, out>>
  BY <1>1, <1>4, SameConversation1 DEF net
<1>5. CASE /\ Drop(f) /\ link' = [link EXCEPT ![conn[f]] = Close(conn[f])]
           /\ NextClient(Len(clients) - 1) /\ UNCHANGED <<backlog, batch, cur, msg, log, out>>
  BY <1>1, <1>2, <1>3, <1>5, SendDropsConversation
<1>6. CASE /\ link' = [link EXCEPT ![conn[f]] = AfterSend(conn[f], Len(Part))]
           /\ Taken(conn[f], Len(Part)) > 0
           /\ out' = [out EXCEPT ![conn[f]] = @ \o SubSeq(Part, 1, Taken(conn[f], Len(Part)))]
           /\ NextClient(Len(clients))
           /\ UNCHANGED <<backlog, conn, ready, batch, clients, cur, msg, log>>
  BY <1>1, <1>2, <1>3, <1>6, SendTakesConversation
<1> QED
  BY <1>1, <1>4, <1>5, <1>6

LEMMA InitConversation == Init => Conversation
<1> SUFFICES ASSUME Init PROVE Conversation
  OBVIOUS
<1>1. \A p \in Peers : out[p] = <<>>
  BY DEF Init
<1>2. out \in [Peers -> Seq(Said)] /\ clients = <<>> /\ pc = "wait"
  BY DEF Init
<1>3. Listeners
  BY <1>1, FollowsStart DEF Listeners
<1> QED
  BY <1>2, <1>3 DEF Conversation, Greeted, Broadcast

LEMMA ConversationStep ==
  IInv /\ Loop /\ Conversation /\ ShortMessages /\ [Next]_vars => Conversation'
<1> SUFFICES ASSUME IInv, Loop, Conversation, ShortMessages, [Next]_vars PROVE Conversation'
  OBVIOUS
<1>1. CASE UNCHANGED vars
  <2>1. Silent /\ UNCHANGED <<conn, server>>
    BY <1>1 DEF vars, net, Silent, server
  <2>2. \A q \in Peers : link'[q].err = "none" =>
          link[q].err = "none" /\ link'[q].unread \in {0, link[q].unread}
    BY <1>1 DEF vars, net
  <2> QED
    BY <2>1, <2>2, PeerConversation
<1> QED
  BY <1>1, ConnectConversation, QuietConversation, TellsNothingConversation, DropOnEventConversation,
     AcceptConversation, GreetConversation, RecvConversation, FlushAllConversation, SendPartConversation DEF Next

\* A piece that was logged is found where it was logged: it was logged once.
LEMMA PlaceIs ==
  ASSUME Loop, InOrder(Logged), NEW i \in 1 .. Len(Logged)
  PROVE  PlaceInLog(Logged[i]) = i
<1> DEFINE L == Logged
           I == {a \in 1 .. Len(L) : L[a] = L[i]}
<1>1. L \in Seq(Pieces) /\ Len(L) \in Nat
  <2>1. L \in Seq(Pieces)
    BY LoggedIs DEF Loop
  <2> QED
    BY <2>1
<1>2. PlaceInLog(L[i]) = IF I # {} THEN Min(I) ELSE 0
  BY DEF PlaceInLog, SelectInSeq
<1> HIDE DEF L
<1>3. ASSUME NEW a \in 1 .. Len(L), L[a] = L[i] PROVE a = i
  <2>1. L[a][2] \in Nat
    BY <1>1, PieceIs
  <2>2. ~ (L[a][2] < L[i][2]) /\ ~ (L[i][2] < L[a][2])
    BY <1>3, <2>1
  <2>3. L[a][1] = L[i][1]
    BY <1>3, Zenon
  <2>4. ~ (a < i) /\ ~ (i < a)
    BY <2>2, <2>3 DEF InOrder, L
  <2> QED
    BY <1>1, <2>4 DEF L
<1>4. I = {i}
  BY <1>3 DEF L
<1> HIDE DEF I
<1>5. Min({i}) = i
  <2>1. {i} \subseteq Nat /\ {i} # {}
    BY <1>1 DEF L
  <2> QED
    BY <2>1, MinIs
<1> QED
  BY <1>2, <1>4, <1>5, Zenon DEF L

LEMMA ConversationRead ==
  ASSUME Loop, Streams, Conversation
  PROVE  SameConversation
<1>1. InOrder(Logged)
  BY DEF Streams
<1> SUFFICES ASSUME NEW p \in Peers
             PROVE  /\ out[p] # <<>> => out[p][1] = Welcome
                    /\ \A a, b \in 2 .. Len(out[p]) :
                         /\ PlaceInLog(out[p][a]) # 0
                         /\ a < b => PlaceInLog(out[p][a]) < PlaceInLog(out[p][b])
  BY DEF SameConversation
<1> DEFINE o == out[p]
           L == Logged
<1>2. Follows(o, L, Len(L))
  BY DEF Conversation, Listeners
<1>3. \A i \in 1 .. Len(L) : PlaceInLog(L[i]) = i
  BY <1>1, PlaceIs
<1> HIDE DEF o, L
<1>4. \A a \in 2 .. Len(o) : PlaceInLog(o[a]) # 0
  <2> SUFFICES ASSUME NEW a \in 2 .. Len(o) PROVE PlaceInLog(o[a]) # 0
    OBVIOUS
  <2>1. PICK i \in 1 .. Len(L) : L[i] = o[a]
    BY <1>2 DEF Follows
  <2>2. PlaceInLog(o[a]) = i
    BY <1>3, <2>1, Zenon
  <2> QED
    BY <2>2
<1>5. ASSUME NEW a \in 2 .. Len(o), NEW b \in 2 .. Len(o), a < b PROVE PlaceInLog(o[a]) < PlaceInLog(o[b])
  <2>1. PICK i, k \in 1 .. Len(L) : i < k /\ L[i] = o[a] /\ L[k] = o[b]
    BY <1>2, <1>5 DEF Follows
  <2>2. PlaceInLog(o[a]) = i /\ PlaceInLog(o[b]) = k
    BY <1>3, <2>1, Zenon
  <2> QED
    BY <2>1, <2>2
<1> QED
  BY <1>2, <1>4, <1>5 DEF Follows, o

\* Everybody hears the same conversation, whoever reads, leaves or is dropped, as
\* long as no message is longer than two parts (chatsrv.cpp:175).
THEOREM OneConversation == Spec /\ []ShortMessages => []SameConversation
<1>1. Init => IInv /\ Loop /\ Streams /\ Conversation
  BY InitOK, InitLoop, InitStreams, InitConversation
<1>2. IInv /\ Loop /\ Streams /\ Conversation /\ ShortMessages /\ [Next]_vars
        => (IInv /\ Loop /\ Streams /\ Conversation)'
  BY Step, LoopStep, StreamsStep, ConversationStep
<1>3. IInv /\ Loop /\ Streams /\ Conversation => SameConversation
  BY ConversationRead
<1> QED
  BY <1>1, <1>2, <1>3, PTL DEF Spec
================================================================================
