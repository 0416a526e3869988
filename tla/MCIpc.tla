------------------------------- MODULE MCIpc --------------------------------
(* System V IPC with two processes, of which process 2 is not root, and    *)
(* sockets with two actors.                                                *)
EXTENDS Ipc

TwoUsers == [p \in {1, 2} |-> [uid |-> p - 1, gid |-> p - 1]]
TwoModes == {[own |-> {"r", "w"}, grp |-> {"r"}, oth |-> {}],
             [own |-> {"r"}, grp |-> {}, oth |-> {"w"}]}

\* One queue and its messages; several queues and their keys.
Messages == [calls |-> "msg", procs |-> {1, 2}, keys |-> {0, 1}, ids |-> 1, msgs |-> 3, pages |-> 0]
QueueKeys == [calls |-> "msg", procs |-> {1, 2}, keys |-> {0, 1}, ids |-> 2, msgs |-> 0, pages |-> 0]
\* One segment and two processes; two segments of one process.
Family == [calls |-> "shm", procs |-> {1, 2}, keys |-> {0}, ids |-> 1, msgs |-> 0, pages |-> 2]
Segments == [calls |-> "shm", procs |-> {1}, keys |-> {0, 1}, ids |-> 3, msgs |-> 0, pages |-> 3]
NoSysv == [calls |-> "none", procs |-> {1}, keys |-> {}, ids |-> 0, msgs |-> 0, pages |-> 0]
Active == {Messages, QueueKeys, Family, Segments}
MCPrograms == Active \cup {NoSysv}

Two(a, b) == [t \in {1, 2} |-> IF t = 1 THEN a ELSE b]
Threads2 == Two(1, 1)    \* two threads of a process
Processes2 == Two(1, 2)  \* two processes

Pathname == [path |-> TRUE, n |-> 1]
Abstract == [path |-> FALSE, n |-> 2]
MCNames == {Pathname, Abstract}

Unix == {
  [family |-> "unix", table |-> Threads2, limit |-> Two(3, 3), socks |-> 4, ports |-> {}, names |-> {Pathname},
   calls |-> LET c == {"stream", "bind", "listen", "connect", "unlink", "close"} IN Two(c, c)],
  [family |-> "unix", table |-> Threads2, limit |-> Two(3, 3), socks |-> 2, ports |-> {}, names |-> {Pathname},
   calls |-> LET c == {"stream", "dgram", "pair", "dup", "bind", "listen", "connect", "recv", "send", "close"}
             IN Two(c, c)],
  [family |-> "unix", table |-> Threads2, limit |-> Two(2, 2), socks |-> 3, ports |-> {}, names |-> {Abstract},
   calls |-> LET c == {"stream", "bind", "listen", "connect", "close"} IN Two(c, c)]}

Inet == {
  \* a stream from client to server, closed at any time
  [family |-> "inet", table |-> Processes2, limit |-> Two(2, 1), socks |-> 4, ports |-> {7}, names |-> {},
   calls |-> Two({"tcp", "bind", "listen", "recv"}, {"tcp", "connect", "send", "shutdown", "close"})],
  \* a stream from server to client
  [family |-> "inet", table |-> Processes2, limit |-> Two(2, 1), socks |-> 4, ports |-> {7}, names |-> {},
   calls |-> Two({"tcp", "bind", "listen", "send"}, {"tcp", "connect", "recv"})],
  \* connections that come, go and find the server's table full
  [family |-> "inet", table |-> Processes2, limit |-> Two(1, 1), socks |-> 5, ports |-> {7}, names |-> {},
   calls |-> Two({"tcp", "bind", "listen", "close"}, {"tcp", "connect", "close", "signal"})],
  \* two connections to one listener
  [family |-> "inet", table |-> Processes2, limit |-> Two(3, 2), socks |-> 7, ports |-> {7}, names |-> {},
   calls |-> Two({"tcp", "bind", "listen"}, {"tcp", "connect"})],
  \* datagrams to two sockets on a port, one of them connected
  [family |-> "inet", table |-> Processes2, limit |-> Two(2, 1), socks |-> 3, ports |-> {7, 8}, names |-> {},
   calls |-> Two({"udp", "bind", "connect"}, {"udp", "bind", "send"})],
  \* datagrams from ports of the kernel's choice, with sockets that close
  [family |-> "inet", table |-> Processes2, limit |-> Two(2, 1), socks |-> 3, ports |-> {7}, names |-> {},
   calls |-> Two({"udp", "bind", "recv", "close", "dup"}, {"udp", "port0", "send", "shutdown", "connect"})]}


NoSockets == [family |-> "none", table |-> Processes2, limit |-> Two(0, 0), socks |-> 0, ports |-> {}, names |-> {},
              calls |-> Two({}, {})]
MCRepertoires == Unix \cup Inet \cup {NoSockets}

MCIpcUses == Active \X {NoSockets} \cup {NoSysv} \X (Unix \cup Inet)
=============================================================================
