----------------------- MODULE MachineRefinesPrivate -----------------------
(***************************************************************************)
(* The shared machine implements PrivateMachines.                          *)
(***************************************************************************)
EXTENDS UserMachine

life == [t \in Threads |->
    IF space[t] = NoSpace THEN "unborn"
    ELSE IF at[t] = "exited" THEN "gone" ELSE "alive"]

regs == [t \in Threads |->
    IF space[t] = NoSpace THEN InitialRegisters ELSE PrivateRegisters(t)]

Private == INSTANCE PrivateMachines

\* Every step of the shared machine is a step of one process on its own
\* machine, or changes no process's registers: context switches at any point,
\* page faults in mid-instruction and the birth of threads cannot be observed
\* by any process in its registers.  Of an interrupt, the process it finds in the
\* machine can observe that its pending load is complete, and no other process
\* can observe anything.
ImplementsPrivateMachines == Private!Spec
=============================================================================
