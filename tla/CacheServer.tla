------------------------------- MODULE CacheServer -------------------------------
(***************************************************************************)
(* The processes of the cache of sphere_prac/p5 around the table: the      *)
(* parent that forks the workers, accepts connections and passes their     *)
(* descriptors on (main.cpp, sock_ops.c), the workers that receive and     *)
(* perform requests (Coworker.cpp), and the life of the semaphore set.     *)
(* What a request does to the table is the module SharedCache; here it is  *)
(* a section under one semaphore of the set.                               *)
(***************************************************************************)
EXTENDS Naturals, Sequences, FiniteSets, SequencesExt, Functions

CONSTANTS
  W,          \* N_COWORKERS: the number of workers and the semaphores' maximum
  Parent,
  Clients,    \* who connects, each once
  Pieces,     \* the segments each client's request arrives in
  Setters,    \* the clients that send a set; the others send a get
  Closers,    \* the clients that may close before they have sent everything
  Resetters,  \* the clients that may reset the connection
  Mortal,     \* the processes that may be killed
  Misread,    \* the workers for whose accept the length on the stack may be negative
  QueueMax,   \* the descriptors a unix socket holds
  N_RECORDS,  \* the size of the semaphore set
  SEMOPM,     \* the operations the kernel allows in one semop
  SemId,      \* the identifier the kernel gives the semaphore set
  None

Workers == 0 .. W - 1

ASSUME ServerAssumption ==
  /\ W \in Nat \ {0} /\ Parent \notin Nat
  /\ Pieces \in [Clients -> Nat \ {0}] /\ None \notin Clients
  /\ Setters \cup Closers \cup Resetters \subseteq Clients
  /\ Mortal \subseteq Workers \cup {Parent} /\ Misread \subseteq Workers
  /\ QueueMax \in Nat \ {0} /\ N_RECORDS \in Nat /\ SEMOPM \in Nat
  /\ SemId \in Nat

VARIABLES
  link,    \* of each client: its own end, the pieces that have arrived
  backlog, \* connections waiting for accept
  main,    \* the parent: where it is, the worker in hand, the slave socket, the
           \* workers whose socket_fd is -1
  ends,    \* of each worker's unix socket: who holds the server end
  queue,   \* the descriptors on their way to each worker
  wpc,     \* where each worker is
  cur,     \* the connection a worker serves
  buf,     \* its receive buffer, as pieces
  broken,  \* its connection was reset and recv has taken the error
  held,    \* the units it holds
  present, \* the semaphore set exists
  sem,     \* the value of its semaphore
  done     \* what was performed for each client, and the pieces of it read

clients == <<link, backlog>>
worker == <<wpc, cur, buf, broken>>
locks == <<held, present, sem>>
vars == <<clients, main, ends, queue, worker, locks, done>>

Alive(k) == wpc[k] \notin {"unborn", "ended"}
Request(c) == [i \in 1 .. Pieces[c] |-> <<c, i>>]

\* full_release(0, n) of the constructor is one semop of n operations; when the
\* kernel refuses it the set is removed and semid is -1.
Created == N_RECORDS <= SEMOPM

Init ==
  /\ link = [c \in Clients |-> [end |-> "away", sent |-> 0]]
  /\ backlog = <<>>
  /\ main = [pc |-> "fork", w |-> 0, slave |-> None, failed |-> {}]
  /\ ends = [k \in Workers |-> {}] /\ queue = [k \in Workers |-> <<>>]
  /\ wpc = [k \in Workers |-> "unborn"] /\ cur = [k \in Workers |-> None]
  /\ buf = [k \in Workers |-> <<>>] /\ broken = [k \in Workers |-> FALSE]
  /\ held = [k \in Workers |-> 0] /\ present = Created /\ sem = W
  /\ done = [c \in Clients |-> [line |-> None, read |-> 0]]

--------------------------------------------------------------------------------
(* The clients *)

\* The listening socket is made after the workers.
Connect(c) ==
  /\ link[c].end = "away" /\ main.pc \in {"accept", "send_fd"}
  /\ link' = [link EXCEPT ![c].end = "up"]
  /\ backlog' = Append(backlog, c)
  /\ UNCHANGED <<main, ends, queue, worker, locks, done>>

Speak(c) ==
  /\ link[c].end = "up" /\ link[c].sent < Pieces[c]
  /\ link' = [link EXCEPT ![c].sent = @ + 1]
  /\ UNCHANGED <<backlog, main, ends, queue, worker, locks, done>>

Hang(c) ==
  /\ link[c].end = "up"
  /\ \/ c \in Closers /\ link' = [link EXCEPT ![c].end = "closed"]
     \/ c \in Resetters /\ link' = [link EXCEPT ![c].end = "reset"]
  /\ UNCHANGED <<backlog, main, ends, queue, worker, locks, done>>

--------------------------------------------------------------------------------
(* Processes that end *)

\* The descriptors of a process that ends are closed.  (A worker's own entry
\* stands for the queue of its listening socket.)
Without(p) == [k \in Workers |-> IF k = p THEN ends[k] ELSE ends[k] \ {p}]

\* SEM_UNDO of the parent takes back its full_release; the value stops at 0.
ParentUndo == IF sem > W THEN sem - W ELSE 0
ParentEnds ==
  /\ main' = [main EXCEPT !.pc = "ended", !.slave = None]
  /\ ends' = Without(Parent)
  /\ backlog' = <<>>
  /\ sem' = IF present THEN ParentUndo ELSE sem
  /\ UNCHANGED <<link, queue, worker, held, present, done>>

\* SEM_UNDO: the units a worker holds come back.
Undone(k) == sem' = sem + held[k]

\* A worker ends: its connection and those on their way to it are closed, and
\* SEM_UNDO gives back what it holds.
WorkerEnds(k) ==
  /\ wpc' = [wpc EXCEPT ![k] = "ended"]
  /\ cur' = [cur EXCEPT ![k] = None]
  /\ buf' = [buf EXCEPT ![k] = <<>>]
  /\ broken' = [broken EXCEPT ![k] = FALSE]
  /\ queue' = [queue EXCEPT ![k] = <<>>]
  /\ ends' = Without(k)
  /\ held' = [held EXCEPT ![k] = 0]

Kill(k) ==
  /\ k \in Mortal /\ Alive(k)
  /\ WorkerEnds(k)
  /\ Undone(k)
  /\ UNCHANGED <<clients, main, present, done>>

KillParent ==
  /\ Parent \in Mortal /\ main.pc # "ended"
  /\ ParentEnds

--------------------------------------------------------------------------------
(* The parent *)

\* Coworker::run: the child has every descriptor the parent has, the server
\* ends of the workers before it among them.
Fork ==
  /\ main.pc = "fork"
  /\ LET k == main.w
     IN  /\ wpc' = [wpc EXCEPT ![k] = "forked"]
         /\ ends' = [j \in Workers |-> IF Parent \in ends[j] THEN ends[j] \cup {k} ELSE ends[j]]
  /\ main' = [main EXCEPT !.pc = "accept_client"]
  /\ UNCHANGED <<clients, queue, cur, buf, broken, locks, done>>

\* connect: the server end waits in the listening socket, which the worker has
\* open itself.
ConnectInternal(k) ==
  /\ wpc[k] = "forked"
  /\ wpc' = [wpc EXCEPT ![k] = "recv_fd"]
  /\ ends' = [ends EXCEPT ![k] = {k}]
  /\ UNCHANGED <<clients, main, queue, cur, buf, broken, locks, done>>

\* accept_client gives accept a length it has never set: when it is negative the
\* connection is closed again and socket_fd is -1, at which nobody looks.
AcceptInternal ==
  /\ main.pc = "accept_client"
  /\ LET k == main.w
         next == IF k = W - 1 THEN [main EXCEPT !.pc = "accept"]
                 ELSE [main EXCEPT !.pc = "fork", !.w = k + 1]
     IN  /\ k \in ends[k]
         /\ \/ ends' = [ends EXCEPT ![k] = {Parent}] /\ main' = next
            \/ /\ k \in Misread
               /\ ends' = [ends EXCEPT ![k] = {}]
               /\ main' = [next EXCEPT !.failed = @ \cup {k}]
  /\ UNCHANGED <<clients, queue, worker, locks, done>>

\* accept, and the worker that rand() names.
Accept ==
  /\ main.pc = "accept" /\ backlog # <<>>
  /\ \E k \in Workers : main' = [main EXCEPT !.pc = "send_fd", !.w = k, !.slave = Head(backlog)]
  /\ backlog' = Tail(backlog)
  /\ UNCHANGED <<link, ends, queue, worker, locks, done>>

\* sendmsg waits while the socket is full; a worker that has ended breaks the
\* pipe, and SIGPIPE ends the parent.  Then, also when sendmsg fails on a
\* socket_fd of -1, the parent closes its descriptor.
SendFd ==
  /\ main.pc = "send_fd"
  /\ LET k == main.w
     IN  \/ k \notin main.failed /\ wpc[k] = "ended" /\ ParentEnds
         \/ /\ \/ k \in main.failed /\ UNCHANGED queue
               \/ /\ k \notin main.failed /\ wpc[k] # "ended" /\ Len(queue[k]) < QueueMax
                  /\ queue' = [queue EXCEPT ![k] = Append(@, main.slave)]
            /\ main' = [main EXCEPT !.pc = "accept", !.slave = None]
            /\ UNCHANGED <<clients, ends, worker, locks, done>>

--------------------------------------------------------------------------------
(* The workers *)

RecvFd(k) ==
  /\ wpc[k] = "recv_fd" /\ queue[k] # <<>>
  /\ wpc' = [wpc EXCEPT ![k] = "recv"]
  /\ cur' = [cur EXCEPT ![k] = Head(queue[k])]
  /\ queue' = [queue EXCEPT ![k] = Tail(@)]
  /\ UNCHANGED <<clients, main, ends, buf, broken, locks, done>>

\* recv_fd fails when nobody can write any more: the worker destroys its
\* HashTable, whose Semaphore removes the set unless its identifier is 0 (or -1,
\* when there is none), and exits.
ParentGone(k) == queue[k] = <<>> /\ Parent \notin ends[k]
Eof(k) == queue[k] = <<>> /\ ends[k] = {}
Leave(k) ==
  /\ wpc[k] = "recv_fd" /\ Eof(k)
  /\ WorkerEnds(k)
  /\ present' = (present /\ SemId = 0)
  /\ UNCHANGED <<clients, main, sem, done>>

\* The request line in the buffer: everything to the first newline.  (A client
\* has all words of its request in one line, so that the newlines which >> and
\* std::ws skip do not matter for a whole one.)
Line(b) ==
  LET n == SelectInSeq(b, LAMBDA t : t[2] = Pieces[t[1]]) IN IF n = 0 THEN b ELSE SubSeq(b, 1, n)

AppendsToBuf(old, new) == old \o new
\* What recv stores over the buffer of the last request.
Stored(old, new) == new \o SubSeq(old, Len(new) + 1, Len(old))

\* One recv, whose result is not looked at: it takes what has arrived, or
\* nothing after a close or a reset; then the line is parsed.  A line that is
\* not one whole request may make sense or not.
Recv(k) ==
  /\ wpc[k] = "recv"
  /\ LET c == cur[k]
         b == Stored(buf[k], SubSeq(Request(c), 1, link[c].sent))
     IN  /\ link[c].sent > 0 \/ link[c].end # "up"
         /\ buf' = [buf EXCEPT ![k] = b]
         /\ broken' = [broken EXCEPT ![k] = link[c].sent = 0 /\ link[c].end = "reset"]
         /\ \/ /\ b # <<>>
               /\ wpc' = [wpc EXCEPT ![k] = "lock"]
               /\ done' = [done EXCEPT ![c] = [line |-> Line(b), read |-> link[c].sent]]
            \/ /\ \A d \in Clients : Line(b) # Request(d)
               /\ wpc' = [wpc EXCEPT ![k] = "send"]
               /\ done' = [done EXCEPT ![c].read = link[c].sent]
  /\ UNCHANGED <<clients, main, ends, queue, cur, locks>>

\* lock for a get, full_lock for a set.  Without a set, or when it is removed
\* while the worker waits, semop fails and the worker goes on.
IsSet(k) == done[cur[k]].line[1][1] \in Setters
SharedWeight(k) == 1
Weight(k) == IF IsSet(k) THEN W ELSE 1
Lock(k) ==
  /\ wpc[k] = "lock"
  /\ wpc' = [wpc EXCEPT ![k] = "inside"]
  /\ IF present
       THEN /\ sem >= Weight(k)
            /\ sem' = sem - Weight(k) /\ held' = [held EXCEPT ![k] = Weight(k)]
       ELSE UNCHANGED <<sem, held>>
  /\ UNCHANGED <<clients, main, ends, queue, cur, buf, broken, present, done>>

\* release after lock, full_release after full_lock; nothing without a set.
ReleasesNone(k) == 0
ReleasesMaximum(k) == W
ReleasesRest(k) == W - sem
Released(k) == held[k]
Release(k) ==
  /\ wpc[k] = "inside"
  /\ wpc' = [wpc EXCEPT ![k] = "send"]
  /\ sem' = sem + Released(k)
  /\ held' = [held EXCEPT ![k] = 0]
  /\ UNCHANGED <<clients, main, ends, queue, cur, buf, broken, present, done>>

\* send and close; a second error on a reset connection is SIGPIPE.
Send(k) ==
  /\ wpc[k] = "send"
  /\ IF broken[k] THEN WorkerEnds(k)
     ELSE /\ wpc' = [wpc EXCEPT ![k] = "recv_fd"]
          /\ cur' = [cur EXCEPT ![k] = None]
          /\ UNCHANGED <<ends, queue, buf, broken, held>>
  /\ UNCHANGED <<clients, main, present, sem, done>>

ParentStep == Fork \/ AcceptInternal \/ Accept \/ SendFd
WorkerStep(k) ==
  ConnectInternal(k) \/ RecvFd(k) \/ Leave(k) \/ Recv(k) \/ Release(k) \/ Send(k)

Next ==
  \/ \E c \in Clients : Connect(c) \/ Speak(c) \/ Hang(c)
  \/ ParentStep \/ KillParent
  \/ \E k \in Workers : WorkerStep(k) \/ Lock(k) \/ Kill(k)

Spec == Init /\ [][Next]_vars

\* The scheduler, the queue of semop, and clients that do not stay connected
\* without a word.
Fairness ==
  /\ WF_vars(ParentStep)
  /\ \A k \in Workers : WF_vars(WorkerStep(k)) /\ SF_vars(Lock(k))
  /\ \A c \in Clients : WF_vars(Speak(c))
FairSpec == Spec /\ Fairness

--------------------------------------------------------------------------------
(* Properties *)

\* The state keeps its types; no semaphore exceeds its maximum or falls below 0.
TypeOK ==
  /\ link \in [Clients -> [end : {"away", "up", "closed", "reset"}, sent : Nat]]
  /\ backlog \in Seq(Clients)
  /\ main \in [pc : {"fork", "accept_client", "accept", "send_fd", "ended"},
               w : Workers, slave : Clients \cup {None},
               failed : SUBSET Misread]
  /\ main.slave \in Clients <=> main.pc = "send_fd"
  /\ ends \in [Workers -> SUBSET (Workers \cup {Parent})]
  /\ queue \in [Workers -> Seq(Clients)]
  /\ wpc \in [Workers -> {"unborn", "forked", "recv_fd", "recv", "lock", "inside", "send", "ended"}]
  /\ cur \in [Workers -> Clients \cup {None}]
  /\ broken \in [Workers -> BOOLEAN]
  /\ held \in [Workers -> 0 .. W] /\ present \in BOOLEAN /\ sem \in 0 .. W

\* A client whose whole request was there when the worker read has exactly
\* that request performed, whatever earlier clients left in the buffer.
OwnRequest ==
  \A c \in Clients : done[c].read = Pieces[c] => done[c].line = Request(c)

\* While the parent lives, with its end of every socket, a set is performed alone.
Inside(k) == wpc[k] = "inside"
ExclusiveService ==
  main.pc # "ended" /\ main.failed = {} =>
    \A j, k \in Workers : Inside(j) /\ Inside(k) /\ IsSet(k) => j = k

\* Those that have their units exclude each other to the end, also after the
\* parent's undo has emptied the semaphore.
HoldersExclude ==
  \A j, k \in Workers : held[k] > 0 /\ held[j] = W => j = k

\* Unless the parent failed to accept a worker, nobody works without its units
\* before the last worker has left an orphaned server: the workers after it have
\* its server end open.
UnlockedOnlyOrphaned ==
  main.failed = {} =>
    \A k \in Workers : Inside(k) /\ held[k] = 0 => main.pc = "ended" /\ ~Alive(W - 1)

\* A connection is in the backlog, in the parent's hands, on its way to a worker
\* or in a worker's hands.
Open(c) ==
  c \in ToSet(backlog) \cup {main.slave} \cup Range(cur) \cup UNION {ToSet(queue[k]) : k \in Workers}

\* No connection stays open for ever while the parent lives, whichever workers
\* end: each client connects once, so at some time none is open.
Served == []<>(main.pc = "ended" \/ \A c \in Clients : ~Open(c))

================================================================================
