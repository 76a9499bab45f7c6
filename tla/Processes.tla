----------------------------- MODULE Processes -----------------------------
(***************************************************************************)
(* What the thread system promises its user processes, without queues,     *)
(* clocks or context switches: a process is forked by a running one, runs  *)
(* alone, sleeps and is woken, and exits once; a process that joins with a *)
(* child sleeps until exactly that child has exited.                       *)
(***************************************************************************)
EXTENDS Integers

CONSTANTS Pid, None

VARIABLES life,      \* [Pid -> Lives]
          parent,    \* [Pid -> Pid or None]
          waitsFor   \* [Pid -> Pid or None], the child a process joins with
vars == <<life, parent, waitsFor>>

Lives == {"unborn", "ready", "running", "asleep", "gone"}

Init ==
    /\ \E p \in Pid : life = [q \in Pid |-> IF q = p THEN "running" ELSE "unborn"]
    /\ parent = [p \in Pid |-> None]
    /\ waitsFor = [p \in Pid |-> None]

Fork(p, c) ==
    /\ life[p] = "running" /\ life[c] = "unborn"
    /\ life' = [life EXCEPT ![c] = "ready"]
    /\ parent' = [parent EXCEPT ![c] = p]
    /\ UNCHANGED waitsFor

Dispatch(p) ==
    /\ life[p] = "ready"
    /\ \A q \in Pid : life[q] # "running"
    /\ life' = [life EXCEPT ![p] = "running"]
    /\ UNCHANGED <<parent, waitsFor>>

Preempt(p) ==
    /\ life[p] = "running"
    /\ life' = [life EXCEPT ![p] = "ready"]
    /\ UNCHANGED <<parent, waitsFor>>

\* A process goes to sleep for a time or for a resource; one that was woken may
\* find the resource taken and go back to sleep.
Sleep(p) ==
    /\ life[p] \in {"running", "ready"}
    /\ life' = [life EXCEPT ![p] = "asleep"]
    /\ UNCHANGED <<parent, waitsFor>>

Wake(S) ==
    /\ \A p \in S : life[p] = "asleep" /\ waitsFor[p] = None
    /\ life' = [p \in Pid |-> IF p \in S THEN "ready" ELSE life[p]]
    /\ UNCHANGED <<parent, waitsFor>>

Join(p, c) ==
    /\ life[p] = "running" /\ parent[c] = p /\ life[c] # "gone"
    /\ life' = [life EXCEPT ![p] = "asleep"]
    /\ waitsFor' = [waitsFor EXCEPT ![p] = c]
    /\ UNCHANGED parent

\* The exit of a process ends the join with it, in the same step.
Exit(p) ==
    /\ life[p] = "running"
    /\ LET joined == {q \in Pid : waitsFor[q] = p}
       IN  /\ life' = [q \in Pid |-> IF q = p THEN "gone"
                                     ELSE IF q \in joined THEN "ready" ELSE life[q]]
           /\ waitsFor' = [q \in Pid |-> IF q \in joined THEN None ELSE waitsFor[q]]
    /\ UNCHANGED parent

Next ==
    \/ \E p, c \in Pid : Fork(p, c) \/ Join(p, c)
    \/ \E p \in Pid : Dispatch(p) \/ Preempt(p) \/ Sleep(p) \/ Exit(p)
    \/ \E S \in SUBSET Pid : Wake(S)

Spec == Init /\ [][Next]_vars
=============================================================================
