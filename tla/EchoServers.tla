----------------------------- MODULE EchoServers ------------------------------
(***************************************************************************)
(* network/echo: one single-threaded server written six times, over epoll  *)
(* (edge-triggered), select, poll, kqueue, libev and libevent.  The loops  *)
(* differ in what is reported, in which order it is handled, and in what   *)
(* happens at the end of a stream.  A client says the units 1, 2, ...      *)
(***************************************************************************)
EXTENDS Naturals, Sequences, FiniteSets

CONSTANTS Apis, Clients, Master,
          Leavers,   \* clients that may leave
          SndBuf,    \* SndBuf[c]: units on the way back before send is refused
          MaxSaid,   \* bound: units of a client
          BufMax,    \* units one recv takes (1024 bytes in the code)
          PollSize   \* POLL_SIZE of poll, the master's place included

ASSUME EchoAssumption ==
  /\ Master \notin Clients /\ BufMax \in Nat \ {0}
  /\ MaxSaid \in Nat /\ PollSize \in Nat /\ SndBuf \in [Clients -> Nat]

VARIABLES api,
          conn,      \* per client: "new", "queue", "open", "closed"
          queue,     \* connections to accept
          said, side,    \* what a client has sent; "talks", "fin", "reset",
                         \*   "gone" once recv has returned the error
          inbox,     \* received by the kernel, not by the server
          got, read, \* the units sent back, and how many the client has read
          watched,   \* SlaveSockets, or the registrations of the API
          edge,      \* epoll: what became readable since the last wait
          pending, hup,  \* the events still to handle; those with EPOLLHUP
          errno,     \* "EAGAIN" from a refused send until another call fails
          lost       \* after a step without a defined effect

client == <<said, side, got, read>>
loop == <<watched, edge, pending, hup>>
vars == <<api, conn, queue, client, inbox, loop, errno, lost>>

Init ==
  /\ api \in Apis
  /\ conn = [c \in Clients |-> "new"] /\ queue = << >>
  /\ said = [c \in Clients |-> 0] /\ side = [c \in Clients |-> "talks"]
  /\ inbox = [c \in Clients |-> << >>]
  /\ got = [c \in Clients |-> << >>] /\ read = [c \in Clients |-> 0]
  /\ watched = {} /\ edge = {} /\ pending = {} /\ hup = {}
  /\ errno = "other" /\ lost = FALSE

\* Only epoll remembers that something has arrived.
Edge(e) == IF api = "epoll" THEN edge \cup {e} ELSE edge
Arrived(c) == edge' = (IF c \in watched THEN Edge(c) ELSE edge)
              /\ UNCHANGED <<watched, pending, hup>>

------------------------------------------------------------------------------
\* The clients.
Connect(c) ==
  /\ conn[c] = "new"
  /\ conn' = [conn EXCEPT ![c] = "queue"] /\ queue' = Append(queue, c)
  /\ edge' = Edge(Master)
  /\ UNCHANGED <<api, client, inbox, watched, pending, hup, errno, lost>>

Say(c) ==
  /\ conn[c] \in {"queue", "open"} /\ side[c] = "talks" /\ said[c] < MaxSaid
  /\ said' = [said EXCEPT ![c] = @ + 1]
  /\ inbox' = [inbox EXCEPT ![c] = Append(@, said[c] + 1)]
  /\ Arrived(c) /\ UNCHANGED <<api, conn, queue, side, got, read, errno, lost>>

Read(c) ==
  /\ read[c] < Len(got[c])
  /\ read' = [read EXCEPT ![c] = Len(got[c])]
  /\ UNCHANGED <<api, conn, queue, said, side, got, inbox, loop, errno, lost>>

\* In good order, or with a reset: before or after the end of its stream.
Leave(c) ==
  /\ c \in Leavers /\ conn[c] \in {"queue", "open"}
  /\ \E to \in {"fin", "reset"} :
       /\ side[c] = "talks" \/ (side[c] = "fin" /\ to = "reset")
       /\ side' = [side EXCEPT ![c] = to]
  /\ Arrived(c) /\ UNCHANGED <<api, conn, queue, said, got, read, inbox, errno, lost>>

------------------------------------------------------------------------------
\* epoll_wait, select, poll, kevent and the loops of the libraries: what is
\* reported; epoll only what is still readable of what has arrived.
Readable ==
  {c \in watched : inbox[c] # << >> \/ side[c] # "talks"}
    \cup (IF queue # << >> THEN {Master} ELSE {})
\* Before it waits poll writes a place for each client into an array of
\* POLL_SIZE, and select takes the largest of no descriptors when it has none.
Undefined ==
  \/ api = "poll" /\ Cardinality(watched) >= PollSize
  \/ api = "select" /\ watched = {}
ReportedArrived == Readable \cap edge
Reported == IF api = "epoll" THEN Readable \cap edge ELSE Readable
Wait ==
  /\ ~lost /\ pending = {} /\ Reported # {}
  /\ IF api = "kqueue" THEN \E e \in Reported : pending' = {e} ELSE pending' = Reported
  /\ hup' = IF api = "epoll" THEN {c \in pending' \cap Clients : side[c] \in {"reset", "gone"}} ELSE {}
  /\ edge' = {} /\ lost' \in IF Undefined THEN BOOLEAN ELSE {FALSE}
  /\ UNCHANGED <<api, conn, queue, client, inbox, watched, errno>>

\* poll looks at the master first, select last.
Turn(e) ==
  /\ ~lost /\ e \in pending
  /\ api = "poll" => e = Master \/ Master \notin pending
  /\ api = "select" => e # Master \/ pending = {Master}
Handled(e) == pending' = pending \ {e} /\ UNCHANGED <<api, said, hup>>

\* One connection of the queue; what it has sent already is reported at once.
Accept ==
  /\ Turn(Master)
  /\ LET c == Head(queue) IN
     /\ queue' = Tail(queue) /\ conn' = [conn EXCEPT ![c] = "open"]
     /\ watched' = watched \cup {c}
     /\ edge' = IF inbox[c] # << >> \/ side[c] # "talks" THEN Edge(c) ELSE edge
  /\ Handled(Master) /\ UNCHANGED <<side, got, read, inbox, errno, lost>>

\* recv takes what is there up to the size of Buffer, send what there is room
\* for; the rest of Buffer is not kept.
Taken(c) == IF Len(inbox[c]) < BufMax THEN Len(inbox[c]) ELSE BufMax
SentWithoutLast(c) == SubSeq(inbox[c], 1, Taken(c) - 1)
Space(c) == SndBuf[c] - (Len(got[c]) - read[c])
\* All of Buffer, behind the units received what an earlier client left.
SentBuffer(c) ==
  [i \in 1..(IF Space(c) < BufMax THEN Space(c) ELSE BufMax) |->
     IF i <= Taken(c) THEN inbox[c][i] ELSE 0]
SentBack(c) ==
  SubSeq(inbox[c], 1, IF Space(c) < Taken(c) THEN Space(c) ELSE Taken(c))
Hears(c) == side[c] \in {"talks", "fin"}

Echo(c) ==
  /\ Turn(c) /\ c \notin hup /\ inbox[c] # << >>
  /\ inbox' = [inbox EXCEPT ![c] = SubSeq(@, Taken(c) + 1, Len(@))]
  /\ got' = [got EXCEPT ![c] = IF Hears(c) THEN @ \o SentBack(c) ELSE @]
  /\ errno' = IF ~Hears(c) THEN "other" ELSE IF Space(c) = 0 THEN "EAGAIN" ELSE errno
  /\ Handled(c) /\ UNCHANGED <<conn, queue, side, read, watched, edge, lost>>

\* recv has returned 0, or -1 for a reset: who closes, and who stops watching.
\* select and poll close if it was 0 and errno, which recv has not set then, is
\* not EAGAIN; for -1 they send once more, which fails for the reset.
StaleErrno == api \in {"select", "poll"} /\ errno = "EAGAIN"
DropsOnError(c) == api \notin {"epoll", "libev"} /\ side[c] = "reset"
Drops(c) ==
  \/ api \in {"kqueue", "libevent"}
  \/ api \in {"select", "poll"} /\ side[c] # "reset" /\ ~StaleErrno
UnwatchesLibev(c) == api = "libev"
Unwatches(c) == Drops(c) \/ api = "libev"

\* select goes on from the element it has just erased from SlaveSockets: the
\* loop reaches the next one, or nothing is known any more.
EndOfStream(c) ==
  /\ Turn(c) /\ c \notin hup /\ inbox[c] = << >> /\ side[c] # "talks"
  /\ conn' = IF Drops(c) THEN [conn EXCEPT ![c] = "closed"] ELSE conn
  /\ watched' = IF Unwatches(c) THEN watched \ {c} ELSE watched
  /\ side' = IF side[c] = "reset" THEN [side EXCEPT ![c] = "gone"] ELSE side
  /\ errno' = IF side[c] = "reset" THEN "other" ELSE errno
  /\ lost' \in IF api = "select" /\ Drops(c) THEN BOOLEAN ELSE {FALSE}
  /\ Handled(c) /\ UNCHANGED <<queue, got, read, inbox, edge>>

\* epoll only, before anything is received.
HangUp(c) ==
  /\ Turn(c) /\ c \in hup
  /\ conn' = [conn EXCEPT ![c] = "closed"] /\ watched' = watched \ {c}
  /\ edge' = edge \ {c}
  /\ Handled(c) /\ UNCHANGED <<queue, side, got, read, inbox, errno, lost>>

ServerStep == Wait \/ Accept \/ \E c \in Clients : Echo(c) \/ EndOfStream(c) \/ HangUp(c)
Next == ServerStep \/ \E c \in Clients : Connect(c) \/ Say(c) \/ Read(c) \/ Leave(c)

Spec == Init /\ [][Next]_vars
\* The loop goes on as long as something is reported.
FairSpec == Spec /\ WF_vars(ServerStep)

------------------------------------------------------------------------------
TypeOK ==
  /\ api \in Apis /\ lost \in BOOLEAN /\ errno \in {"EAGAIN", "other"}
  /\ conn \in [Clients -> {"new", "queue", "open", "closed"}] /\ queue \in Seq(Clients)
  /\ side \in [Clients -> {"talks", "fin", "reset", "gone"}]
  /\ said \in [Clients -> 0..MaxSaid] /\ inbox \in [Clients -> Seq(1..MaxSaid)]
  /\ got \in [Clients -> Seq(1..MaxSaid)]
  /\ read \in [Clients -> Nat] /\ \A c \in Clients : read[c] <= Len(got[c])
  /\ api # "epoll" => edge = {} /\ hup = {}
  /\ watched \subseteq Clients
  /\ edge \subseteq Clients \cup {Master} /\ pending \subseteq Clients \cup {Master}

\* A registration is a connection that is open, and nobody but libev forgets
\* to watch one: neither the array of poll nor the set of select, both made
\* anew from SlaveSockets, ever names a descriptor that was closed.
WatchedOpen ==
  /\ \A c \in watched : conn[c] = "open"
  /\ \A c \in Clients : conn[c] = "open" /\ api # "libev" => c \in watched
  /\ pending \cap Clients \subseteq watched

\* A client gets its own units back in order, none twice; and all of them, as
\* far as they are received, where the way back has room for everything.
Room(c) == SndBuf[c] >= MaxSaid /\ c \notin Leavers
EchoExact ==
  \A c \in Clients :
    /\ \A i \in 1..(Len(got[c]) - 1) : got[c][i] < got[c][i + 1]
    /\ Room(c) => got[c] \o inbox[c] = [i \in 1..said[c] |-> i]

\* What is said is echoed.  Not with epoll, where one accept and one recv for
\* an edge leave connections and units behind until something else arrives.
LeftBehind(c) ==
  /\ api = "epoll" /\ pending = {}
  /\ \/ conn[c] = "queue" /\ Master \notin edge
     \/ conn[c] = "open" /\ inbox[c] # << >> /\ c \notin edge
Echoed ==
  \A c \in Clients : \A n \in 1..MaxSaid :
    Room(c) /\ said[c] >= n ~> Len(got[c]) >= n \/ LeftBehind(c) \/ lost

\* Who has left is closed; epoll closes after a reset only, libev never does.
\* After a send that was refused select and poll take the end of any stream for
\* EAGAIN, until some other call has failed: they leave it open and spin.
MustClose(c) ==
  \/ api \in {"select", "poll", "kqueue", "libevent"} /\ side[c] # "talks"
  \/ api = "epoll" /\ conn[c] = "open" /\ side[c] = "reset"
LeaversClosed == \A c \in Leavers : MustClose(c) ~> conn[c] = "closed" \/ StaleErrno \/ lost
==============================================================================
