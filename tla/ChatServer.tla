------------------------------- MODULE ChatServer -------------------------------
(***************************************************************************)
(* The chat server of sphere_prac/p2 (chatsrv.cpp): one thread around an   *)
(* edge-triggered epoll, its peers, and the sockets between them.  A step  *)
(* of the server is one system call with the code up to the next one.      *)
(* Iterators into the vector of clients are positions, as in the build:    *)
(* they survive an erase and then denote the next client.                  *)
(***************************************************************************)
EXTENDS Naturals, Sequences, SequencesExt

CONSTANTS
  Peers,     \* who connects, each once
  Slow,      \* the peers that never read
  Leavers,   \* the peers that may leave
  Typed,     \* what each peer types: pieces of text, ends of line, NULs
  MaxFd,     \* bound on the descriptors of accepted sockets
  RecvMax,   \* the pieces that MAX_MSG_SIZE - 1 bytes hold
  PartMax,   \* the pieces that MAX_MSG_SIZE bytes hold
  SndBuf,    \* the pieces a send buffer holds
  None

Master == 0
Fds == 1 .. MaxFd
Welcome == "Welcome"
Kinds == {"text", "eol", "nul"}

ASSUME ChatAssumption ==
  /\ Typed \in [Peers -> Seq(Kinds)] /\ None \notin Peers
  /\ {MaxFd, RecvMax, PartMax, SndBuf} \subseteq Nat \ {0}

VARIABLES
  link,      \* of each peer: its own end, and the socket buffers of its connection
  backlog,   \* connections waiting for accept
  conn,      \* the peer behind each open descriptor
  ready,     \* epoll's ready list
  batch,     \* the events that are still to be handled
  clients,   \* the vector of Client
  pc, cur,   \* where the server is, and the iterator curclient
  msg, j, it, \* the message being sent, its part, and the iterator over clients
  log,       \* the messages the server has logged
  out        \* all that the server's sends to each peer have taken

net == <<link, backlog, conn, ready>>
server == <<batch, clients, pc, cur, msg, j, it, log>>
vars == <<net, server, out>>

Kind(t) == Typed[t[1]][t[2]]
Accepted(p) == {f \in Fds : conn[f] = p}

\* The elements of s that are in S, in their order (SelectSeq with a set for a
\* test, as a function that a proof can unfold).
Only(s, S) ==
  LET f[i \in 0 .. Len(s)] ==
        IF i = 0 THEN <<>> ELSE IF s[i] \in S THEN Append(f[i - 1], s[i]) ELSE f[i - 1]
  IN  f[Len(s)]

\* The callback of a socket puts its descriptor on the ready list.
Signal(S) == IF S \subseteq ToSet(ready) THEN ready ELSE ready \o SetToSeq(S)

Init ==
  /\ link = [p \in Peers |->
               [end |-> "away", typed |-> 0, inbox |-> <<>>, unread |-> 0, owed |-> FALSE,
                err |-> "none"]]
  /\ backlog = <<>> /\ conn = [f \in Fds |-> None] /\ ready = <<>>
  /\ batch = <<>> /\ clients = <<>> /\ pc = "wait" /\ cur = 1
  /\ msg = <<>> /\ j = 0 /\ it = 1 /\ log = <<>>
  /\ out = [p \in Peers |-> <<>>]

--------------------------------------------------------------------------------
(* The peers and the kernel *)

Connect(p) ==
  /\ link[p].end = "away"
  /\ link' = [link EXCEPT ![p].end = "up"]
  /\ backlog' = Append(backlog, p)
  /\ ready' = Signal({Master})
  /\ UNCHANGED <<conn, server, out>>

Type(p) ==
  /\ link[p].end = "up" /\ link[p].typed < Len(Typed[p])
  /\ link' = [link EXCEPT ![p].typed = @ + 1, ![p].inbox = Append(@, <<p, link[p].typed + 1>>)]
  /\ ready' = Signal(Accepted(p))
  /\ UNCHANGED <<backlog, conn, server, out>>

Read(p) ==
  /\ p \notin Slow /\ link[p].end = "up" /\ link[p].unread > 0
  /\ link' = [link EXCEPT ![p].unread = 0]
  /\ UNCHANGED <<backlog, conn, ready, server, out>>

\* A peer that closes with data unread resets the connection; else it ends the
\* connection, or resets it (SO_LINGER, a crash).
Leave(p) ==
  /\ p \in Leavers /\ link[p].end = "up"
  /\ \E e \in {"none", "reset"} :
       /\ link[p].unread > 0 => e = "reset"
       /\ link' = [link EXCEPT ![p].end = "gone", ![p].err = e]
  /\ ready' = Signal(Accepted(p))
  /\ UNCHANGED <<backlog, conn, server, out>>

\* What was sent to a peer that has gone is answered with a reset.
ResetArrives(p) ==
  /\ link[p].owed
  /\ link' = [link EXCEPT ![p].owed = FALSE, ![p].err = "pipe"]
  /\ ready' = Signal(Accepted(p))
  /\ UNCHANGED <<backlog, conn, server, out>>

\* The outcome of send for data of n pieces: what is taken, the peer's new
\* link, and whether the call fails; a broken pipe kills (SIGPIPE).
Broken(p) == link[p].err = "pipe"
Taken(p, n) ==
  IF link[p].err # "none" THEN 0
  ELSE IF link[p].end = "gone" \/ n <= SndBuf - link[p].unread THEN n
  ELSE SndBuf - link[p].unread
AfterSend(p, n) ==
  IF link[p].err = "reset" THEN [link[p] EXCEPT !.err = "pipe"]
  ELSE IF link[p].end = "gone" THEN [link[p] EXCEPT !.owed = TRUE]
  ELSE [link[p] EXCEPT !.unread = @ + Taken(p, n)]

--------------------------------------------------------------------------------
(* The event loop *)

\* epoll_wait reports the signalled descriptors that have an event now, and
\* forgets the signals.
Hup(f) == f # Master /\ link[conn[f]].err # "none"
Readable(f) ==
  IF f = Master THEN backlog # <<>>
  ELSE link[conn[f]].inbox # <<>> \/ link[conn[f]].end = "gone"
EpollWait ==
  /\ pc = "wait" /\ ready # <<>>
  /\ LET found == Only(ready, {f \in ToSet(ready) : Hup(f) \/ Readable(f)})
     IN  /\ batch' = [i \in DOMAIN found |-> [fd |-> found[i], hup |-> Hup(found[i])]]
         /\ pc' = IF found = <<>> THEN "wait" ELSE "events"
  /\ ready' = <<>>
  /\ UNCHANGED <<link, backlog, conn, clients, cur, msg, j, it, log, out>>

EventDone ==
  /\ batch' = Tail(batch)
  /\ pc' = IF Len(batch) = 1 THEN "wait" ELSE "events"

Find(f) == SelectInSeq(clients, LAMBDA c : c.fd = f)

DropWithoutClose(f) == clients' = RemoveAt(clients, Find(f)) /\ UNCHANGED <<conn, ready>>
\* drop_client of a descriptor that clients holds: the client is erased, the
\* socket is shut down and closed, which takes it out of epoll.
Drop(f) ==
  /\ clients' = RemoveAt(clients, Find(f))
  /\ conn' = [conn EXCEPT ![f] = None]
  /\ ready' = Only(ready, ToSet(ready) \ {f})

Close(p) == [link[p] EXCEPT !.end = "gone", !.inbox = <<>>, !.owed = FALSE]

\* Behaviour that the language leaves open: the model stops here.
Undefined ==
  /\ pc' = "undefined"
  /\ UNCHANGED <<net, batch, clients, cur, msg, j, it, log, out>>

\* EPOLLERR or EPOLLHUP, or recv fails: drop_client.  A client that an
\* earlier event of the batch dropped is erased at end().
DropOnEvent ==
  /\ pc = "events" /\ batch[1].fd # Master
  /\ LET f == batch[1].fd
     IN  IF Find(f) = 0 THEN Undefined
         ELSE /\ batch[1].hup \/ (link[conn[f]].inbox = <<>> /\ link[conn[f]].err # "none")
              /\ Drop(f)
              /\ link' = [link EXCEPT ![conn[f]] = Close(conn[f])]
              /\ EventDone
              /\ UNCHANGED <<backlog, cur, msg, j, it, log, out>>

\* accept, epoll_ctl and push_back, again until accept fails: nobody waits, or
\* no descriptor is left.
FreeFds == {f \in Fds : conn[f] = None}
Accept ==
  /\ pc = "events" /\ batch[1].fd = Master
  /\ backlog # <<>> /\ FreeFds # {}
  /\ LET f == CHOOSE g \in FreeFds : \A h \in FreeFds : g <= h
         p == Head(backlog)
     IN  /\ conn' = [conn EXCEPT ![f] = p]
         /\ clients' = Append(clients, [fd |-> f, curmsg |-> <<>>, eolpos |-> 0])
         /\ ready' = IF link[p].inbox # <<>> \/ link[p].end = "gone" THEN Append(ready, f) ELSE ready
  /\ backlog' = Tail(backlog)
  /\ pc' = "welcome"
  /\ UNCHANGED <<link, batch, cur, msg, j, it, log, out>>

\* The greeting.  A send that fails returns -1, which is not less than the
\* unsigned size: the client stays.
AcceptsOnce == EventDone
AcceptsAgain == pc' = "events" /\ UNCHANGED batch
Greet ==
  /\ pc = "welcome"
  /\ LET p == conn[Last(clients).fd]
     IN  /\ link' = [link EXCEPT ![p] = AfterSend(p, 1)]
         /\ out' = [out EXCEPT ![p] = IF Taken(p, 1) = 1 THEN Append(@, Welcome) ELSE @]
  /\ AcceptsAgain
  /\ UNCHANGED <<backlog, conn, ready, clients, cur, msg, j, it, log>>

AcceptFails ==
  /\ pc = "events" /\ batch[1].fd = Master
  /\ backlog = <<>> \/ FreeFds = {}
  /\ EventDone
  /\ UNCHANGED <<net, clients, cur, msg, j, it, log, out>>

--------------------------------------------------------------------------------
(* Messages *)

\* recv takes what is there, up to the size of buf, and the string made of buf
\* ends at the first NUL.
Received(p) == SubSeq(link[p].inbox, 1, Min({RecvMax, Len(link[p].inbox)}))
UpToNul(s) ==
  LET z == SelectInSeq(s, LAMBDA t : Kind(t) = "nul") IN IF z = 0 THEN s ELSE SubSeq(s, 1, z - 1)

\* Client::append: the next end of line is looked for behind the last one found.
EolAfter(s, i) == SelectInSubSeq(s, i + 1, Len(s), LAMBDA t : Kind(t) = "eol")
Grown(c, s) ==
  [c EXCEPT !.curmsg = @ \o s, !.eolpos = EolAfter(c.curmsg \o s, c.eolpos)]

FlushKeepsEol(c) == [c EXCEPT !.curmsg = SubSeq(@, c.eolpos + 1, Len(@))]
FlushKeepsLine(c) == [c EXCEPT !.curmsg = SubSeq(@, c.eolpos, Len(@)), !.eolpos = 0]
\* Client::flush_msg: the first line and what is left.
Flushed(c) ==
  LET rest == SubSeq(c.curmsg, c.eolpos + 1, Len(c.curmsg))
  IN  [c EXCEPT !.curmsg = rest, !.eolpos = EolAfter(rest, 0)]

\* One recv for an event, whatever is left behind in the socket.
Recv ==
  /\ pc = "events" /\ batch[1].fd # Master /\ ~batch[1].hup /\ Find(batch[1].fd) # 0
  /\ LET i == Find(batch[1].fd)
         p == conn[batch[1].fd]
     IN  /\ link[p].inbox # <<>> \/ link[p].err = "none"
         /\ link' = [link EXCEPT ![p].inbox = SubSeq(@, Len(Received(p)) + 1, Len(@))]
         /\ clients' = [clients EXCEPT ![i] = Grown(@, UpToNul(Received(p)))]
         /\ cur' = i
  /\ pc' = "flush"
  /\ UNCHANGED <<backlog, conn, ready, batch, msg, j, it, log, out>>

\* The loop over the complete lines of *curclient.
Flush ==
  /\ pc = "flush"
  /\ IF cur > Len(clients) THEN Undefined
     ELSE LET c == clients[cur] IN
          /\ \/ /\ c.eolpos = 0 /\ EventDone
                /\ UNCHANGED <<clients, msg, j, it, log>>
             \/ /\ c.eolpos # 0
                /\ msg' = SubSeq(c.curmsg, 1, c.eolpos)
                /\ log' = Append(log, msg')
                /\ clients' = [clients EXCEPT ![cur] = Flushed(c)]
                /\ j' = 0 /\ it' = 1 /\ pc' = "send"
                /\ UNCHANGED batch
          /\ UNCHANGED <<net, cur, out>>

FirstPart == SubSeq(msg, 1, Min({PartMax, Len(msg)}))
\* msg.substr(j, min(j + MAX_MSG_SIZE, msg.length())): the second argument is
\* a length.  Every part but the first reaches two parts far or more, so that the
\* third and later ones are sent with an earlier one and then once more.
Part == SubSeq(msg, j + 1, Min({j + Min({j + PartMax, Len(msg)}), Len(msg)}))

\* ++it, the next part after the last client, or the next line after the last
\* part; an iterator that has passed the end is never equal to it.
NextClient(n) ==
  IF it < n THEN it' = it + 1 /\ UNCHANGED <<j, pc>>
  ELSE IF it > n THEN pc' = "undefined" /\ UNCHANGED <<j, it>>
  ELSE /\ j' = j + PartMax /\ it' = 1
       /\ pc' = IF j + PartMax < Len(msg) THEN "send" ELSE "flush"

\* One send of the broadcast; a client whose send takes nothing is dropped,
\* what a full buffer does not take is not sent again.
SendPart ==
  /\ pc = "send"
  /\ LET f == clients[it].fd
         p == conn[f]
         n == Taken(p, Len(Part))
     IN  \/ /\ Broken(p) /\ pc' = "killed"
            /\ UNCHANGED <<net, batch, clients, cur, msg, j, it, log, out>>
         \/ /\ ~Broken(p) /\ n = 0
            /\ Drop(f)
            /\ link' = [link EXCEPT ![p] = Close(p)]
            /\ NextClient(Len(clients) - 1)
            /\ UNCHANGED <<backlog, batch, cur, msg, log, out>>
         \/ /\ n > 0
            /\ link' = [link EXCEPT ![p] = AfterSend(p, Len(Part))]
            /\ out' = [out EXCEPT ![p] = @ \o SubSeq(Part, 1, n)]
            /\ NextClient(Len(clients))
            /\ UNCHANGED <<backlog, conn, ready, batch, clients, cur, msg, log>>

Next ==
  \/ \E p \in Peers : Connect(p) \/ Type(p) \/ Read(p) \/ Leave(p) \/ ResetArrives(p)
  \/ EpollWait \/ DropOnEvent \/ Accept \/ Greet \/ AcceptFails \/ Recv \/ Flush \/ SendPart

Spec == Init /\ [][Next]_vars

--------------------------------------------------------------------------------
(* Properties *)

Running == pc \notin {"killed", "undefined"}

TypeOK ==
  /\ \A p \in Peers : link[p].unread \in 0 .. SndBuf /\ link[p].err \in {"none", "reset", "pipe"}
  /\ conn \in [Fds -> Peers \cup {None}]
  /\ ToSet(backlog) \subseteq Peers /\ ToSet(ready) \subseteq Fds \cup {Master}
  /\ \A i \in DOMAIN clients : clients[i].eolpos \in 0 .. Len(clients[i].curmsg)
  /\ pc \in {"wait", "events", "welcome", "flush", "send", "killed", "undefined"}
  /\ it \in 1 .. MaxFd + 1

\* The vector and the kernel agree: every open descriptor belongs to exactly one
\* client, so no drop leaks a socket or sends to one that is closed.
RegisteredOpen ==
  Running =>
    /\ {clients[i].fd : i \in DOMAIN clients} = {f \in Fds : conn[f] # None}
    /\ \A i, k \in DOMAIN clients : clients[i].fd = clients[k].fd => i = k

\* No edge is lost on the listening socket or on a connection that was reset: a
\* server that waits will be told of every pending connection and every reset.
EdgesKept ==
  pc = "wait" =>
    /\ backlog # <<>> => Master \in ToSet(ready)
    /\ \A f \in Fds : conn[f] # None /\ Hup(f) => f \in ToSet(ready)

\* Messages are not mixed: every logged message is typed by one peer, ends with
\* its only end of line or is several whole lines, and the pieces of a peer are
\* logged in the order it typed them, none twice.
Logged == FlattenSeq(log)
LinesInOrder ==
  /\ \A m \in ToSet(log) : Kind(Last(m)) = "eol" /\ \A t \in ToSet(m) : t[1] = m[1][1]
  /\ \A a, b \in DOMAIN Logged :
       a < b /\ Logged[a][1] = Logged[b][1] => Logged[a][2] < Logged[b][2]

\* Everybody hears the same conversation: what a peer is sent is the greeting
\* and then pieces of the log in the log's order, none twice; so no two peers
\* see two messages in different orders.  It is true of messages of at most two
\* parts (2048 bytes): of a longer one the server sends pieces twice (Part).
PlaceInLog(t) == SelectInSeq(Logged, LAMBDA x : x = t)
SameConversation ==
  \A p \in Peers :
    /\ out[p] # <<>> => out[p][1] = Welcome
    /\ \A a, b \in 2 .. Len(out[p]) :
         /\ PlaceInLog(out[p][a]) # 0
         /\ a < b => PlaceInLog(out[p][a]) < PlaceInLog(out[p][b])

================================================================================
