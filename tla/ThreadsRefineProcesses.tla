----------------------- MODULE ThreadsRefineProcesses -----------------------
(***************************************************************************)
(* The thread system implements Processes.  A process runs from the moment *)
(* its SWITCH has been completed; until then it counts as ready.           *)
(***************************************************************************)
EXTENDS NachOSThreads

\* The life of a thread with status st that continues at k, in mode m
LifeOf(st, k, m) ==
    IF st = "JUST_CREATED" THEN "unborn"
    ELSE IF k = "exit" THEN "gone"
    ELSE IF st = "BLOCKED" THEN "asleep"
    ELSE IF st = "RUNNING" /\ m # "switch" THEN "running"
    ELSE "ready"

life == [p \in Pid |-> LifeOf(status[p], pc[p], mode)]

Abstract == INSTANCE Processes WITH life <- life, parent <- ppid,
                                    waitsFor <- waitchild_id

\* Every step of the thread system is a step of Processes or leaves the
\* processes as they are: threads run one at a time, die once, and a parent in
\* JoinWithChild is readied by the exit of the child it named and nothing else.
ImplementsProcesses == Abstract!Spec
=============================================================================
