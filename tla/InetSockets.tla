---------------------------- MODULE InetSockets -----------------------------
(***************************************************************************)
(* AF_INET sockets over the loopback interface: net/socket_file.rs, the    *)
(* AF_INET halves of the calls in net/syscall.rs, and the ports and the    *)
(* UDP demultiplexing of net/mod.rs.  The TCP machine itself is the        *)
(* library smoltcp, modelled from how these files use it.  A SocketFile is *)
(* only a handle into smoltcp's socket set; handles are slots, taken again *)
(* as soon as they are free.  A call that polls in a loop keeps the handle *)
(* it looked up when it began, so a turn of the loop is a step.            *)
(***************************************************************************)
EXTENDS SocketFds

CONSTANTS MaxHandles,    \* bound: slots of the socket set
          FirstPort,     \* 49152, the first ephemeral port
          LastPort,      \* 65535: a port is a u16
          Retries,       \* 3, the tries of connect after a refusal
          BufCap,        \* bound: bytes a TCP receive buffer holds
          MaxSent        \* bound: bytes sent on a connection

ASSUME InetAssumption ==
  /\ FirstPort \in Nat /\ LastPort \in Nat /\ FirstPort < LastPort
  /\ BufCap \in Nat \ {0} /\ MaxSent \in Nat /\ MaxHandles \in Nat /\ Retries \in Nat
  /\ \A r \in Repertoires : r.ports \subseteq 1..(FirstPort - 1)

VARIABLES
  sset,      \* the socket set of smoltcp
  ifile,     \* SocketFile of each file made so far
  icall,     \* the polling call a thread is in
  nextPort,  \* NEXT_PORT
  shared     \* history: a handle was in use twice when accept or close took it

inetVars == <<sset, ifile, icall, nextPort, shared>>

Handles == 1..MaxHandles
NoSocket == [kind |-> "none"]
TcpSocket == [kind |-> "tcp", state |-> "Closed", port |-> 0, rport |-> 0,
              rx |-> <<>>, tx |-> <<>>, sent |-> 0, got |-> 0]
UdpSocket == [kind |-> "udp", port |-> 0, remote |-> 0, rx |-> <<>>]
NewFile(h, kind) == [handle |-> h, kind |-> kind, bound |-> 0, listening |-> FALSE, transferred |-> FALSE]
GoneFile == NewFile(0, "gone")
InetIdle == [op |-> "none", fd |-> 0, handle |-> 0, port |-> 0, retries |-> 0]

InetInit ==
  /\ sset = [h \in Handles |-> NoSocket]
  /\ ifile = <<>>
  /\ icall = [t \in Actors |-> InetIdle]
  /\ nextPort = LastPort
  /\ shared = FALSE

-----------------------------------------------------------------------------
(* smoltcp.  A poll of the loopback interface runs until nothing moves:    *)
(* connection requests meet a listener or are refused, data goes as far as *)
(* the peer's buffer takes it, and the end of a stream follows its data.   *)
Tcp(s, h) == s[h].kind = "tcp"
Linked2(s, h, g) ==
  /\ Tcp(s, h) /\ Tcp(s, g) /\ h # g
  /\ s[h].state \notin {"Closed", "Listen", "SynSent"} /\ s[g].state \notin {"Closed", "Listen", "SynSent"}
  /\ s[h].port = s[g].rport /\ s[h].rport = s[g].port
Peers(s, h) == {g \in Handles : Linked2(s, h, g)}
Listeners(s, port) == {g \in Handles : Tcp(s, g) /\ s[g].state = "Listen" /\ s[g].port = port}

Handshake(s, h) ==
  IF ~Tcp(s, h) \/ s[h].state # "SynSent" THEN s
  ELSE IF Listeners(s, s[h].rport) = {} THEN [s EXCEPT ![h].state = "Closed"]
  ELSE [s EXCEPT ![h].state = "Established",
                 ![Min(Listeners(s, s[h].rport))].state = "Established",
                 ![Min(Listeners(s, s[h].rport))].rport = s[h].port]
Deliver(s, h) ==
  IF ~Tcp(s, h) \/ s[h].tx = <<>> THEN s
  ELSE IF Peers(s, h) = {} THEN [s EXCEPT ![h].state = "Closed", ![h].tx = <<>>]
  ELSE LET g == Min(Peers(s, h))
           n == Min({Len(s[h].tx), BufCap - Len(s[g].rx)})
       IN  [s EXCEPT ![h].tx = SubSeq(@, n + 1, Len(@)), ![g].rx = @ \o SubSeq(s[h].tx, 1, n)]
Finish(s, h) ==
  IF ~Tcp(s, h) \/ s[h].state \notin {"FinWait", "LastAck"} \/ s[h].tx # <<>> THEN s
  ELSE IF Peers(s, h) = {} THEN [s EXCEPT ![h].state = "Closed"]
  ELSE LET g == Min(Peers(s, h))
       IN  [s EXCEPT ![g].state = CASE @ = "Established" -> "CloseWait"
                                    [] s[h].state = "LastAck" -> "Closed"
                                    [] OTHER -> @,
                     ![h].state = IF @ = "LastAck" THEN "Closed" ELSE @]
Each(Op(_, _), s) == LET upTo[n \in 0..MaxHandles] == IF n = 0 THEN s ELSE Op(upTo[n - 1], n)
                     IN  upTo[MaxHandles]
Poll(s) == Each(Finish, Each(Deliver, Each(Handshake, s)))

IsActive(x) == x.state \notin {"Closed", "Listen"}
MaySend(x) == x.state \in {"Established", "CloseWait"}
MayRecv(x) == x.state \in {"Established", "FinWait"} \/ x.rx # <<>>
ClosedSocket(x) ==
  IF x.kind = "udp" THEN [x EXCEPT !.port = 0, !.rx = <<>>]
  ELSE [x EXCEPT !.state = CASE @ \in {"Listen", "SynSent"} -> "Closed"
                             [] @ = "Established" -> "FinWait"
                             [] @ = "CloseWait" -> "LastAck"
                             [] OTHER -> @]

-----------------------------------------------------------------------------
InetIn(t) == icall[t] = InetIdle
File(t, d) == ifile[Fd(t, d)]
IsKind(t, d, kind) == Open(t, d) /\ File(t, d).kind = kind
SweptFiles(files, tables) == [i \in DOMAIN files |-> IF InTable(tables, i) THEN files[i] ELSE GoneFile]
FreeHandles(s) == {h \in Handles : s[h] = NoSocket}

(* alloc_ephemeral_port: what comes after the last port is below the       *)
(* range, and the counter starts again.  Assumed: the port it gives is not *)
(* in use (the range is far larger than the socket set).                   *)
EphemeralPort == IF nextPort < FirstPort THEN FirstPort ELSE nextPort
TakesEphemeralPort == nextPort' = (EphemeralPort + 1) % (LastPort + 1)
PortUnused == \A h \in Handles : sset[h].kind # "none" =>
                                   sset[h].port # EphemeralPort
                                   /\ (sset[h].kind = "tcp" => sset[h].rport # EphemeralPort)

(* Drop of a SocketFile: close, one poll, and the slot is free, whatever   *)
(* the close has left to do.  A transferred file leaves its socket alone.  *)
Dropped(s, h) == IF s[h] = NoSocket THEN s ELSE [Poll([s EXCEPT ![h] = ClosedSocket(@)]) EXCEPT ![h] = NoSocket]

(* sys_socket(AF_INET).                                                    *)
InetSocket(t, kind) ==
  /\ InetIn(t)
  /\ Len(ifile) < uses.socks /\ FreeFDs(t) # {} /\ FreeHandles(sset) # {}
  /\ LET h == Min(FreeHandles(sset))
     IN  /\ sset' = [sset EXCEPT ![h] = IF kind = "tcp" THEN TcpSocket ELSE UdpSocket]
         /\ ifile' = Append(ifile, NewFile(h, kind))
  /\ fds' = Installed(t, Len(ifile) + 1)
  /\ UNCHANGED <<uses, icall, nextPort, shared>>

(* sys_bind to a port, or to port 0 for any.                               *)
InetBind(t, d, port) ==
  /\ InetIn(t)
  /\ Open(t, d)
  /\ LET p == IF port = 0 THEN EphemeralPort ELSE port
     IN  /\ ifile' = [ifile EXCEPT ![Fd(t, d)].bound = p]
         /\ \/ IsKind(t, d, "tcp") /\ UNCHANGED sset
            \/ /\ IsKind(t, d, "udp") /\ sset[File(t, d).handle].port = 0
               /\ sset' = [sset EXCEPT ![File(t, d).handle].port = p]
  /\ IF port = 0 THEN PortUnused /\ TakesEphemeralPort ELSE UNCHANGED nextPort
  /\ UNCHANGED <<uses, fds, icall, shared>>

(* sys_listen.                                                             *)
InetListen(t, d) ==
  /\ InetIn(t)
  /\ IsKind(t, d, "tcp")
  /\ sset[File(t, d).handle].state = "Closed"
  /\ LET p == IF File(t, d).bound = 0 THEN EphemeralPort ELSE File(t, d).bound
     IN  /\ sset' = [sset EXCEPT ![File(t, d).handle] = [TcpSocket EXCEPT !.state = "Listen", !.port = p]]
         /\ ifile' = [ifile EXCEPT ![Fd(t, d)].bound = p, ![Fd(t, d)].listening = TRUE]
  /\ IF File(t, d).bound = 0 THEN PortUnused /\ TakesEphemeralPort ELSE UNCHANGED nextPort
  /\ UNCHANGED <<uses, fds, icall, shared>>

Enters(t, call) == icall' = [icall EXCEPT ![t] = call]
Leaves(t) == icall' = [icall EXCEPT ![t] = InetIdle]
OthersUse(t, h) == \E u \in Actors \ {t} : icall[u].handle = h

(* A turn of sys_accept: once the listening socket has become a connection *)
(* the accepted file takes its handle over, and the file at the listening  *)
(* descriptor is replaced by a new listening socket.  Without a descriptor *)
(* for the accepted file it is dropped (EMFILE).                           *)
Transferred_Not(old) == ifile
Transferred(old) == [ifile EXCEPT ![old].transferred = TRUE]
AcceptOn(t, d, h, port) ==
  LET polled == Poll(sset)
      n      == Min(FreeHandles(polled))
      listen == [polled EXCEPT ![n] = [TcpSocket EXCEPT !.state = "Listen", !.port = port]]
      old    == Fd(t, d)
      marked == IF old = NoFile THEN ifile ELSE Transferred(old)
      swapped == [fds EXCEPT ![TableOf[t]][d] = Len(ifile) + 1]
      free   == FreeFDs(t) \ {d}
  IN  /\ IsActive(polled[h])
      /\ FreeHandles(polled) # {}
      /\ Len(ifile) + 2 <= uses.socks
      /\ fds' = IF free = {} THEN swapped ELSE [swapped EXCEPT ![TableOf[t]][Min(free)] = Len(ifile) + 2]
      /\ ifile' = SweptFiles(marked \o <<[NewFile(n, "tcp") EXCEPT !.bound = port, !.listening = TRUE],
                                         NewFile(h, "tcp")>>, fds')
      /\ LET s == IF free = {} THEN Dropped(listen, h) ELSE listen
         IN  sset' = IF old # NoFile /\ ~marked[old].transferred /\ ~InTable(fds', old)
                       THEN Dropped(s, ifile[old].handle) ELSE s
      /\ Leaves(t)
      /\ shared' = (shared \/ OthersUse(t, h) \/ InTable(swapped, old) \/ old = NoFile
                           \/ (old # NoFile /\ ifile[old].handle # h))
      /\ UNCHANGED <<uses, nextPort>>
AcceptWaits(t, d, h, port) ==
  /\ ~IsActive(Poll(sset)[h])
  /\ sset' = Poll(sset)
  /\ Enters(t, [op |-> "accept", fd |-> d, handle |-> h, port |-> port, retries |-> 0])
  /\ UNCHANGED <<uses, fds, ifile, nextPort, shared>>
InetAccept(t, d) ==
  /\ InetIn(t)
  /\ IsKind(t, d, "tcp") /\ File(t, d).listening
  /\ \/ AcceptOn(t, d, File(t, d).handle, File(t, d).bound)
     \/ AcceptWaits(t, d, File(t, d).handle, File(t, d).bound)

(* sys_connect of a stream: SYN from an ephemeral port; on a refusal a few *)
(* more tries, each from a new port, with a pause between.                 *)
Requested(s, h, port) ==
  [s EXCEPT ![h] = [TcpSocket EXCEPT !.state = "SynSent", !.port = EphemeralPort, !.rport = port]]
ConnectLoop(t, h, port, retries, s) ==
  \/ /\ s[h].state = "Established"
     /\ Leaves(t)
     /\ sset' = s
     /\ UNCHANGED nextPort
  \/ /\ s[h].state = "Closed" /\ retries = 0
     /\ Leaves(t)
     /\ sset' = s
     /\ UNCHANGED nextPort
  \/ /\ s[h].state = "Closed" /\ retries > 0
     /\ PortUnused
     /\ TakesEphemeralPort
     /\ sset' = Requested(s, h, port)
     /\ Enters(t, [op |-> "connect", fd |-> 0, handle |-> h, port |-> port, retries |-> retries - 1])
  \/ /\ s[h].state \notin {"Established", "Closed"}
     /\ sset' = s
     /\ Enters(t, [op |-> "connect", fd |-> 0, handle |-> h, port |-> port, retries |-> retries])
     /\ UNCHANGED nextPort
InetConnect(t, d, port) ==
  /\ InetIn(t)
  /\ IsKind(t, d, "tcp")
  /\ sset[File(t, d).handle].state = "Closed"
  /\ PortUnused
  /\ TakesEphemeralPort
  /\ sset' = Requested(Poll(sset), File(t, d).handle, port)
  /\ Enters(t, [op |-> "connect", fd |-> 0, handle |-> File(t, d).handle, port |-> port, retries |-> Retries])
  /\ UNCHANGED <<uses, fds, ifile, shared>>

(* sys_sendto and tcp_write on a stream; 0 or EPIPE when it cannot send.   *)
(* Bytes are numbered.  The poll that follows hands them to the peer.      *)
TcpWrite(s, h) ==
  IF MaySend(s[h]) THEN Poll([s EXCEPT ![h].tx = Append(@, s[h].sent + 1), ![h].sent = @ + 1]) ELSE s
TcpSend(t, d) ==
  /\ InetIn(t)
  /\ IsKind(t, d, "tcp")
  /\ sset[File(t, d).handle].sent < MaxSent
  /\ sset' = TcpWrite(Poll(sset), File(t, d).handle)
  /\ UNCHANGED <<uses, fds, ifile, icall, nextPort, shared>>

(* A turn of the loop of sys_recvfrom or read: a byte, the end of the      *)
(* stream, or wait; a datagram, or wait.                                   *)
TcpRead_Peek(s, h) == IF s[h].rx = <<>> THEN s ELSE [s EXCEPT ![h].got = Head(s[h].rx)]
TcpRead(s, h) == IF s[h].rx = <<>> THEN s ELSE [s EXCEPT ![h].rx = Tail(@), ![h].got = Head(s[h].rx)]
UdpRead(s, h) == [s EXCEPT ![h].rx = Tail(@)]
Ready(x) == x.rx # <<>> \/ (x.kind = "tcp" /\ ~MayRecv(x))
RecvOn(t, h) ==
  LET s == Poll(sset) IN
  /\ Ready(s[h])
  /\ sset' = IF s[h].kind = "tcp" THEN TcpRead(s, h) ELSE UdpRead(s, h)
  /\ Leaves(t)
  /\ UNCHANGED <<uses, fds, ifile, nextPort, shared>>
RecvWaits(t, h) ==
  LET s == Poll(sset) IN
  /\ ~Ready(s[h])
  /\ sset' = s
  /\ Enters(t, [op |-> "recv", fd |-> 0, handle |-> h, port |-> 0, retries |-> 0])
  /\ UNCHANGED <<uses, fds, ifile, nextPort, shared>>
InetRecv(t, d) ==
  /\ InetIn(t)
  /\ Open(t, d)
  /\ RecvOn(t, File(t, d).handle) \/ RecvWaits(t, File(t, d).handle)

(* The next turn of the call that thread t is in.                          *)
Exists(h) == sset[h] # NoSocket
InetTurn(t) ==
  LET c == icall[t] IN
  /\ c.op # "none" /\ Exists(c.handle)
  /\ \/ c.op = "accept" /\ AcceptOn(t, c.fd, c.handle, c.port)
     \/ /\ c.op = "connect"
        /\ ConnectLoop(t, c.handle, c.port, c.retries, Poll(sset))
        /\ UNCHANGED <<uses, fds, ifile, shared>>
     \/ c.op = "recv" /\ RecvOn(t, c.handle)

(* A pending signal ends each of the loops with EINTR.                     *)
InetInterrupt(t) ==
  /\ ~InetIn(t)
  /\ Leaves(t)
  /\ UNCHANGED <<uses, fds, sset, ifile, nextPort, shared>>

-----------------------------------------------------------------------------
(* UDP.  sys_connect sets the remote end of a datagram socket.             *)
UdpConnect(t, d, port) ==
  /\ InetIn(t)
  /\ IsKind(t, d, "udp")
  /\ sset' = [sset EXCEPT ![File(t, d).handle].remote = port]
  /\ UNCHANGED <<uses, fds, ifile, icall, nextPort, shared>>

(* loopback_udp_inject: the scan of the socket set for the receiver.       *)
UdpMatch(s, sender, port, acc, h) ==
  IF acc.connected # 0 \/ s[h].kind # "udp" \/ h = sender THEN acc
  ELSE IF s[h].port # port THEN acc
  ELSE IF s[h].remote = s[sender].port THEN [acc EXCEPT !.connected = h]
  ELSE IF s[h].remote = 0 /\ acc.wildcard = 0 THEN [acc EXCEPT !.wildcard = h]
  ELSE acc
UdpTarget_First(s, sender, port) ==
  LET fits == {h \in Handles \ {sender} : s[h].kind = "udp" /\ s[h].port = port
                                            /\ s[h].remote \in {0, s[sender].port}}
  IN  IF fits = {} THEN 0 ELSE Min(fits)
UdpTarget(s, sender, port) ==
  LET scan(acc, h) == UdpMatch(s, sender, port, acc, h)
      found == Each(scan, [connected |-> 0, wildcard |-> 0])
  IN  IF found.connected # 0 THEN found.connected ELSE found.wildcard

(* sys_sendto of a datagram, from a port of its own if need be.  With no   *)
(* receiver, or one that is full, the datagram is lost.                    *)
UdpSend(t, d, port) ==
  /\ InetIn(t)
  /\ IsKind(t, d, "udp")
  /\ LET h == File(t, d).handle
         auto == sset[h].port = 0
         s == IF auto THEN [sset EXCEPT ![h].port = EphemeralPort] ELSE sset
         g == UdpTarget(s, h, port)
     IN  /\ IF auto THEN PortUnused /\ TakesEphemeralPort ELSE UNCHANGED nextPort
         /\ sset' = IF g = 0 THEN s
                    ELSE IF Len(s[g].rx) = BufCap THEN s
                    ELSE [s EXCEPT ![g].rx = Append(@, s[h].port)]
  /\ UNCHANGED <<uses, fds, ifile, icall, shared>>

(* write: to the port the socket is connected to.                          *)
UdpWrite(t, d) ==
  /\ IsKind(t, d, "udp")
  /\ sset[File(t, d).handle].remote # 0
  /\ UdpSend(t, d, sset[File(t, d).handle].remote)

-----------------------------------------------------------------------------
(* sys_shutdown, whatever half it is asked for.                            *)
InetShutdown(t, d) ==
  /\ InetIn(t)
  /\ Open(t, d)
  /\ LET h == File(t, d).handle
         s == [sset EXCEPT ![h] = ClosedSocket(@)]
     IN  sset' = IF IsKind(t, d, "tcp") THEN Poll(s) ELSE s
  /\ UNCHANGED <<uses, fds, ifile, icall, nextPort, shared>>

InetDup(t, d) ==
  /\ InetIn(t)
  /\ Open(t, d)
  /\ FreeFDs(t) # {}
  /\ fds' = Installed(t, Fd(t, d))
  /\ UNCHANGED <<uses, inetVars>>

InetClose(t, d) ==
  /\ InetIn(t)
  /\ Open(t, d)
  /\ fds' = [fds EXCEPT ![TableOf[t]][d] = NoFile]
  /\ LET f == File(t, d)
         last == ~InTable(fds', Fd(t, d)) /\ ~f.transferred
     IN  /\ last => Exists(f.handle)
         /\ sset' = IF last THEN Dropped(sset, f.handle) ELSE sset
         /\ shared' = (shared \/ (last /\ OthersUse(t, f.handle)))
  /\ ifile' = SweptFiles(ifile, fds')
  /\ UNCHANGED <<uses, icall, nextPort>>

(* The timer interrupt polls the stack too.                                *)
PollNet == Poll(sset) # sset /\ sset' = Poll(sset) /\ UNCHANGED <<uses, fds, ifile, icall, nextPort, shared>>

(* Sequences of calls stop where a handle has been in use twice: the slot  *)
(* may since be another socket's, or empty, on which smoltcp panics.       *)
InetStep(t) ==
  /\ ~shared
  /\ \/ May(t, "signal") /\ InetInterrupt(t)
     \/ \E kind \in {"tcp", "udp"} : May(t, kind) /\ InetSocket(t, kind)
     \/ \E d \in FDs :
          \/ May(t, "close") /\ InetClose(t, d)
          \/ May(t, "listen") /\ (InetListen(t, d) \/ InetAccept(t, d))
          \/ May(t, "send") /\ (TcpSend(t, d) \/ UdpWrite(t, d))
          \/ May(t, "recv") /\ InetRecv(t, d)
          \/ May(t, "dup") /\ InetDup(t, d)
          \/ May(t, "shutdown") /\ InetShutdown(t, d)
          \/ May(t, "port0") /\ InetBind(t, d, 0)
     \/ \E d \in FDs, p \in uses.ports :
          \/ May(t, "bind") /\ InetBind(t, d, p)
          \/ May(t, "connect") /\ (InetConnect(t, d, p) \/ UdpConnect(t, d, p))
          \/ May(t, "send") /\ UdpSend(t, d, p)
InetNext == \/ PollNet
            \/ \E t \in Actors : InetStep(t) \/ (~shared /\ InetTurn(t))

-----------------------------------------------------------------------------
(* Until a handle is in use twice (two accepts on one listener, a          *)
(* duplicate of a listening descriptor, a close under another thread's     *)
(* call), every socket of the set belongs to exactly one file that is open *)
(* and not transferred, every such file and every call in progress finds   *)
(* its socket, and nothing is left over: the swap of handles in sys_accept *)
(* loses no socket and frees none twice.                                   *)
HandlesOwned ==
  ~shared =>
    LET owners(h) == {i \in DOMAIN ifile : ifile[i].handle = h /\ ~ifile[i].transferred /\ InTable(fds, i)}
    IN  /\ \A h \in Handles : Cardinality(owners(h)) = (IF sset[h] = NoSocket THEN 0 ELSE 1)
        /\ \A t \in Actors : icall[t].op # "none" => sset[icall[t].handle] # NoSocket
        /\ \A i \in DOMAIN ifile : InTable(fds, i) => ~ifile[i].transferred

(* A stream is what was sent: what its receiver has not yet taken and what *)
(* the sender has not yet handed over are, together and in order, the      *)
(* bytes sent after the last one received, across every swap of handles    *)
(* and reuse of slots and ports.                                           *)
StreamsInOrder ==
  \A h \in Handles : \A g \in Peers(sset, h) :
    sset[g].rx \o sset[h].tx = [i \in 1..(sset[h].sent - sset[g].got) |-> sset[g].got + i]

(* A datagram that arrives goes to a socket connected to its sender, and   *)
(* to one that is connected to nobody only if there is no such socket      *)
(* (net/mod.rs:190: "1. Connected socket whose remote_endpoint matches     *)
(* the sender").                                                           *)
UdpDemux ==
  [][\A g \in Handles :
       (sset[g].kind = "udp" /\ sset'[g].kind = "udp" /\ Len(sset'[g].rx) > Len(sset[g].rx)) =>
         LET from == Last(sset'[g].rx)
             exact == {h \in Handles : sset[h].kind = "udp" /\ sset[h].port = sset[g].port
                                         /\ sset[h].remote = from /\ sset'[h].port # from}
         IN  /\ sset[g].remote \in {0, from}
             /\ exact # {} => g \in exact]_sset
=============================================================================
