-------------------------------- MODULE Ipc ---------------------------------
(* The ways programs talk to each other, apart from pipes and signals:     *)
(* System V queues and segments, and sockets.  They share no state, so the *)
(* programs of a behaviour use one of them.                                *)
EXTENDS SysvIpc, Sockets

CONSTANT IpcUses   \* what programs use: <<a program of SysvIpc, a repertoire of Sockets>>

ipcVars == <<sysvVars, socketVars>>

IpcInit == SysvInit /\ SocketsInit /\ <<program, uses>> \in IpcUses

IpcNext == \/ SysvNext /\ UNCHANGED socketVars
           \/ SocketsNext /\ UNCHANGED sysvVars

IpcSpec == IpcInit /\ [][IpcNext]_ipcVars
=============================================================================
