----------------------------- MODULE UnixThreads -----------------------------
(***************************************************************************)
(* The thread system under the UNIX scheduler: NachOSThreads, which leaves *)
(* open which ready thread is taken, joined with the priorities that       *)
(* decide it (scheduler.cc UpdateThreadPriority, list.cc                   *)
(* GetMinPriorityThread).                                                  *)
(*                                                                         *)
(* Every process of nachos -x inherits its base priority from its parent   *)
(* (GET_NICE_FROM_PARENT), so all bases are equal, and schedPriority is    *)
(* the base plus half the usage whenever it is assigned.                   *)
(***************************************************************************)
EXTENDS NachOSThreads

ASSUME UnixAssumption == schedulingAlgo = UNIX_SCHED

VARIABLE usage          \* [Pid -> Nat]

unixVars == <<vars, usage>>

\* schedPriority less the base
Priority(u, p) == u[p] \div 2

UnixInit == Init /\ usage = [p \in Pid |-> 0]

\* YieldCPU, PutThreadToSleep or Exit of currentThread while it is RUNNING,
\* after a burst that has taken time
BurstEnds ==
    /\ status[currentThread] = "RUNNING" /\ burst > 0
    /\ mode' = "switch" \/ status'[currentThread] # "RUNNING"

\* NachOSscheduler::UpdateThreadPriority, of the usages
\* (Slip: only the usage of the thread that ran is updated.)
UpdateRunning ==
    [p \in Pid |-> IF p = currentThread THEN (usage[p] + burst) \div 2 ELSE usage[p]]
UpdateThreadPriority ==
    [p \in Pid |-> IF p = currentThread THEN (usage[p] + burst) \div 2
                   ELSE IF p < thread_index /\ ~exitThreadArray[p] THEN usage[p] \div 2
                   ELSE usage[p]]

\* List::GetMinPriorityThread takes the first of the threads of least priority.
\* (Slip: the last one.)
LastMinPriority(list, u, p) ==
    \E i \in DOMAIN list : /\ list[i] = p
                           /\ \A j \in DOMAIN list : Priority(u, p) <= Priority(u, list[j])
                           /\ \A j \in i + 1 .. Len(list) : Priority(u, p) < Priority(u, list[j])
GetMinPriorityThread(list, u, p) ==
    \E i \in DOMAIN list : /\ list[i] = p
                           /\ \A j \in DOMAIN list : Priority(u, p) <= Priority(u, list[j])
                           /\ \A j \in 1 .. i - 1 : Priority(u, p) < Priority(u, list[j])

\* The list when FindNextThreadToRun looks at it: a thread that yields has been
\* appended, or a parent readied by an exit.
Appended == ({currentThread'} \cup Members(readyThreadList')) \ Members(readyThreadList)
ListSearched == IF Appended = {} THEN readyThreadList
                ELSE Append(readyThreadList, CHOOSE p \in Appended : TRUE)

UnixNext ==
    /\ Next
    /\ usage' = IF BurstEnds THEN UpdateThreadPriority ELSE usage
    /\ mode' = "switch" => GetMinPriorityThread(ListSearched, usage', currentThread')

UnixSpec == UnixInit /\ [][UnixNext]_unixVars

\* The simulator is one process that keeps executing.
UnixFairSpec == UnixSpec /\ WF_unixVars(UnixNext)
=============================================================================
