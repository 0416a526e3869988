---------------------------- MODULE UnixSockets -----------------------------
(***************************************************************************)
(* AF_UNIX sockets: net/unix_socket.rs and the AF_UNIX halves of the calls *)
(* in net/syscall.rs.  A call runs to the place where it suspends itself   *)
(* (accept and recvfrom poll in a loop), so a turn of that loop is a step. *)
(* Sockets live as long as a descriptor, a call in progress or the backlog *)
(* of a live listener holds them (Arc); peers and the registry of names    *)
(* hold Weak references, which count for nothing once the socket is gone.  *)
(***************************************************************************)
EXTENDS SocketFds

CONSTANTS Names,     \* bound: names to bind, [path |-> BOOLEAN, n |-> Nat]
          MaxRx      \* bound: writes waiting in a receive buffer

NoName == [path |-> FALSE, n |-> 0]

ASSUME UnixAssumption == MaxRx \in Nat /\ NoName \notin Names

VARIABLES
  usock,     \* UnixSocketFile of each socket made so far; Gone once dropped
  registry,  \* UNIX_REGISTRY
  nodes,     \* pathnames that exist in the file system
  ucall      \* the polling call a thread is in: [op, file]

unixVars == <<usock, registry, nodes, ucall>>

NoCall == [op |-> "none", file |-> NoFile]
NewSock(type) == [type |-> type, state |-> "Unbound", name |-> NoName, rx |-> <<>>,
                  unlinked |-> FALSE, backlog |-> <<>>, peer |-> NoFile]
Gone == NewSock("gone")

UnixInit ==
  /\ usock = <<>>
  /\ registry = [k \in Names |-> NoFile]
  /\ nodes = {}
  /\ ucall = [t \in Actors |-> NoCall]

(* What keeps a socket: a descriptor, a call that polls it, or the backlog *)
(* of such a socket.  The others are dropped.                              *)
Held(tables, calls, i) == InTable(tables, i) \/ \E t \in Actors : calls[t].file = i
Kept(socks, tables, calls) ==
  LET held == {i \in DOMAIN socks : Held(tables, calls, i)}
  IN  held \cup UNION {ToSet(socks[i].backlog) : i \in held}
Swept(socks, tables, calls) ==
  [i \in DOMAIN socks |-> IF i \in Kept(socks, tables, calls) THEN socks[i] ELSE Gone]
Live(i) == i # NoFile /\ usock[i] # Gone

InUser(t) == ucall[t] = NoCall

(* sys_socket(AF_UNIX).                                                    *)
SysSocket(t, type) ==
  /\ InUser(t)
  /\ Len(usock) < uses.socks
  /\ FreeFDs(t) # {}
  /\ usock' = Append(usock, NewSock(type))
  /\ fds' = Installed(t, Len(usock) + 1)
  /\ UNCHANGED <<uses, registry, nodes, ucall>>

(* sys_socketpair: two sockets, each the other's peer.  When there is one  *)
(* descriptor only, it is given back and both sockets go.                  *)
SysSocketpair(t, type) ==
  /\ InUser(t)
  /\ Len(usock) + 2 <= uses.socks
  /\ Cardinality(FreeFDs(t)) >= 2
  /\ LET n == Len(usock)
         end(peer) == [NewSock(type) EXCEPT !.state = "Connected", !.peer = peer]
     IN  /\ usock' = usock \o <<end(n + 2), end(n + 1)>>
         /\ fds' = Installed2(t, n + 1, n + 2)
  /\ UNCHANGED <<uses, registry, nodes, ucall>>

(* unix_registry_has and unix_registry_get.                                *)
Registered(k) == Live(registry[k])

(* sys_bind: the name must be free in the registry and, a pathname, in the *)
(* file system, where it makes a node.                                     *)
NameTaken(k) == Registered(k) \/ k \in nodes
SysBind(t, d, k) ==
  /\ InUser(t)
  /\ Open(t, d)
  /\ ~NameTaken(k)
  /\ usock[Fd(t, d)].state = "Unbound"
  /\ usock' = [usock EXCEPT ![Fd(t, d)].state = "Bound", ![Fd(t, d)].name = k]
  /\ nodes' = IF k.path THEN nodes \cup {k} ELSE nodes
  /\ registry' = [registry EXCEPT ![k] = Fd(t, d)]
  /\ UNCHANGED <<uses, fds, ucall>>

(* sys_unlinkat of the node of a pathname socket takes the name out of the *)
(* registry too (unix_registry_remove).  unlinked is history.              *)
Unlink(t, k) ==
  /\ InUser(t)
  /\ k \in nodes
  /\ nodes' = nodes \ {k}
  /\ registry' = [registry EXCEPT ![k] = NoFile]
  /\ usock' = IF Registered(k) THEN [usock EXCEPT ![registry[k]].unlinked = TRUE] ELSE usock
  /\ UNCHANGED <<uses, fds, ucall>>

(* sys_listen.                                                             *)
SysListen(t, d) ==
  /\ InUser(t)
  /\ Open(t, d)
  /\ usock[Fd(t, d)].type # "dgram" /\ usock[Fd(t, d)].state = "Bound"
  /\ usock' = [usock EXCEPT ![Fd(t, d)].state = "Listening"]
  /\ UNCHANGED <<uses, fds, registry, nodes, ucall>>

(* unix_set_peer_dyn.                                                      *)
Linked(s, i, peer) == [s EXCEPT ![i].peer = peer, ![i].state = "Connected"]

(* sys_connect of a stream: a new socket becomes the server's end, and     *)
(* waits in the backlog of the listener.                                   *)
ConnectStream(t, d, k) ==
  /\ InUser(t)
  /\ Open(t, d)
  /\ usock[Fd(t, d)].type = "stream"
  /\ Registered(k)
  /\ usock[registry[k]].state = "Listening"
  /\ Len(usock) < uses.socks
  /\ LET c == Fd(t, d)
         n == Len(usock) + 1
         s == Append([usock EXCEPT ![registry[k]].backlog = Append(@, n)], NewSock("stream"))
     IN  usock' = Linked(Linked(s, c, n), n, c)
  /\ UNCHANGED <<uses, fds, registry, nodes, ucall>>

(* sys_connect of a datagram socket links both ways, whatever the other    *)
(* socket was doing.                                                       *)
ConnectDgram(t, d, k) ==
  /\ InUser(t)
  /\ Open(t, d)
  /\ usock[Fd(t, d)].type = "dgram"
  /\ Registered(k)
  /\ usock' = Linked(Linked(usock, Fd(t, d), registry[k]), registry[k], Fd(t, d))
  /\ UNCHANGED <<uses, fds, registry, nodes, ucall>>

(* A turn of the loop of sys_accept: unix_do_accept takes the oldest       *)
(* waiting connection.  Without a descriptor for it the connection is      *)
(* dropped (EMFILE).                                                       *)
Backlog(l) == IF usock[l].state = "Listening" THEN usock[l].backlog ELSE <<>>
TakenFrom_Peek(l) == usock
TakenFrom(l) == [usock EXCEPT ![l].backlog = Tail(@)]
Accept(t, l) ==
  /\ Backlog(l) # <<>>
  /\ ucall' = [ucall EXCEPT ![t] = NoCall]
  /\ fds' = IF FreeFDs(t) = {} THEN fds ELSE Installed(t, Head(usock[l].backlog))
  /\ usock' = Swept(TakenFrom(l), fds', ucall')
  /\ UNCHANGED <<uses, registry, nodes>>

Waits(t, op, i) ==
  /\ ucall' = [ucall EXCEPT ![t] = [op |-> op, file |-> i]]
  /\ UNCHANGED <<uses, usock, fds, registry, nodes>>

SysAccept(t, d) ==
  /\ InUser(t)
  /\ Open(t, d)
  /\ usock[Fd(t, d)].state = "Listening"
  /\ Accept(t, Fd(t, d)) \/ (Backlog(Fd(t, d)) = <<>> /\ Waits(t, "accept", Fd(t, d)))

AcceptTurn(t) == ucall[t].op = "accept" /\ Accept(t, ucall[t].file)

(* Data.  A byte is its sender.  sys_sendto to a name, or to the peer;     *)
(* write to the peer.  A peer that is gone takes nothing.                  *)
Push(i, from) == usock' = [usock EXCEPT ![i].rx = Append(@, from)]
SysSendto(t, d, k) ==
  /\ InUser(t)
  /\ Open(t, d)
  /\ LET s == usock[Fd(t, d)]
         to == IF k \in Names /\ Registered(k) THEN registry[k] ELSE s.peer
     IN  /\ to # NoFile /\ Live(to)
         /\ Len(usock[to].rx) < MaxRx
         /\ Push(to, Fd(t, d))
  /\ UNCHANGED <<uses, fds, registry, nodes, ucall>>

(* sys_recvfrom: what there is, or wait; no call tells a receiver that its *)
(* peer is gone.                                                           *)
Take(t, i) ==
  /\ usock[i].rx # <<>>
  /\ ucall' = [ucall EXCEPT ![t] = NoCall]
  /\ usock' = Swept([usock EXCEPT ![i].rx = <<>>], fds, ucall')
  /\ UNCHANGED <<uses, fds, registry, nodes>>

SysRecvfrom(t, d) ==
  /\ InUser(t)
  /\ Open(t, d)
  /\ Take(t, Fd(t, d)) \/ (usock[Fd(t, d)].rx = <<>> /\ Waits(t, "recv", Fd(t, d)))

RecvTurn(t) == ucall[t].op = "recv" /\ Take(t, ucall[t].file)

(* A pending signal ends either loop with EINTR.                           *)
UnixInterrupt(t) ==
  /\ ucall[t] # NoCall
  /\ ucall' = [ucall EXCEPT ![t] = NoCall]
  /\ usock' = Swept(usock, fds, ucall')
  /\ UNCHANGED <<uses, fds, registry, nodes>>

UnixDup(t, d) ==
  /\ InUser(t)
  /\ Open(t, d)
  /\ FreeFDs(t) # {}
  /\ fds' = Installed(t, Fd(t, d))
  /\ UNCHANGED <<uses, usock, registry, nodes, ucall>>

UnixClose(t, d) ==
  /\ InUser(t)
  /\ Open(t, d)
  /\ fds' = [fds EXCEPT ![TableOf[t]][d] = NoFile]
  /\ usock' = Swept(usock, fds', ucall)
  /\ UNCHANGED <<uses, registry, nodes, ucall>>

UnixTurn(t) == AcceptTurn(t) \/ RecvTurn(t)
UnixStep(t) ==
  \/ UnixInterrupt(t)
  \/ \E type \in {"stream", "dgram"} : May(t, type) /\ SysSocket(t, type)
  \/ May(t, "pair") /\ \E type \in {"stream", "dgram"} : SysSocketpair(t, type)
  \/ May(t, "unlink") /\ \E k \in uses.names : Unlink(t, k)
  \/ \E d \in FDs : \/ May(t, "close") /\ UnixClose(t, d)
                    \/ May(t, "dup") /\ UnixDup(t, d)
                    \/ May(t, "listen") /\ (SysListen(t, d) \/ SysAccept(t, d))
                    \/ May(t, "recv") /\ SysRecvfrom(t, d)
  \/ \E d \in FDs, k \in uses.names :
       \/ May(t, "bind") /\ SysBind(t, d, k)
       \/ May(t, "connect") /\ (ConnectStream(t, d, k) \/ ConnectDgram(t, d, k))
  \/ May(t, "send") /\ \E d \in FDs, k \in uses.names \cup {NoName} : SysSendto(t, d, k)
UnixNext == \E t \in Actors : UnixTurn(t) \/ UnixStep(t)

-----------------------------------------------------------------------------
\* A bound name leads to the socket that bound it.
NamesExact ==
  \A i \in DOMAIN usock :
    (usock[i].name # NoName /\ Live(i) /\ ~usock[i].unlinked) => registry[usock[i].name] = i

\* A connection is in one backlog, once, or with the accept that took it.
ConnectionsOnce ==
  \A i \in DOMAIN usock :
    LET places == UNION {{<<j, n>> : n \in {m \in DOMAIN usock[j].backlog : usock[j].backlog[m] = i}} :
                           j \in DOMAIN usock}
    IN  /\ Cardinality(places) <= 1
        /\ places # {} => ~Held(fds, ucall, i)

(* A bound name leads to the socket that bound it until it is unlinked or  *)
(* the socket is gone, whatever is closed, connected or bound meanwhile,   *)
(* and never to two sockets ("the address becomes reusable" only "when all *)
(* fds to a socket are closed", unix_socket.rs:86).  A connection reaches  *)
(* one acceptor: the server's end that connect queued is in one backlog,   *)
(* once, or with the accept that took it, and with it its client's data;   *)
(* two accepts that poll the same listener never share a connection.       *)
UnixExact == NamesExact /\ ConnectionsOnce
=============================================================================
