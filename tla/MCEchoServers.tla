---------------------------- MODULE MCEchoServers -----------------------------
(* A small instance of EchoServers. *)
EXTENDS EchoServers

CONSTANTS c1, c2

AllApis == {"epoll", "select", "poll", "kqueue", "libev", "libevent"}
\* c1 has room for everything, c2 for one unit.
Rooms == [c \in Clients |-> IF c = c1 THEN MaxSaid ELSE 1]
==============================================================================
