------------------------------- MODULE Files -------------------------------
(* The file systems and the calls on them: names and contents over ext4     *)
(* (FileNames), descriptor tables (Descriptors), timer files (TimerFd), and *)
(* easy-fs (EasyFs).  A behaviour follows one of the given programs, each   *)
(* of which uses some of the four.                                          *)
EXTENDS FileNames, Descriptors, TimerFd, EasyFs

CONSTANT Programs   \* what programs do: <<a use of names, a use of descriptors,
                    \* whether they use a timer, a use of easy-fs>>

VARIABLE timed

filesVars == <<nameVars, fdVars, timerVars, timed, easyFsVars>>

FilesInit ==
  /\ NamesInit /\ DescriptorsInit /\ TimerInit /\ EasyFsInit
  /\ timed \in BOOLEAN
  /\ <<fsUse, fdUse, timed, uses>> \in Programs

FilesNext ==
  \/ NamesNext /\ UNCHANGED <<fdVars, timerVars, timed, easyFsVars>>
  \/ DescriptorsNext /\ UNCHANGED <<nameVars, timerVars, timed, easyFsVars>>
  \/ timed /\ TimerNext /\ UNCHANGED <<nameVars, fdVars, timed, easyFsVars>>
  \/ EasyFsNext /\ UNCHANGED <<nameVars, fdVars, timerVars, timed>>

FilesSpec == FilesInit /\ [][FilesNext]_filesVars
=============================================================================
