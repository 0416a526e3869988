------------------------------ MODULE Sockets -------------------------------
(* Both socket families over the descriptor tables.  They share nothing    *)
(* else, so the programs of a behaviour use one of them.                   *)
EXTENDS UnixSockets, InetSockets

socketVars == <<fds, uses, unixVars, inetVars>>

SocketsInit == FdsInit /\ UnixInit /\ InetInit
SocketsNext == \/ uses.family = "unix" /\ UnixNext /\ UNCHANGED inetVars
               \/ uses.family = "inet" /\ InetNext /\ UNCHANGED unixVars
=============================================================================
