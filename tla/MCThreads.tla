------------------------------ MODULE MCThreads ------------------------------
(***************************************************************************)
(* Instances of the thread system for TLC.  The times keep the proportions *)
(* that matter: a kernel tick is longer than a user tick, several ticks    *)
(* fit in a timer period, a quantum is one period, a console write may end *)
(* on either side of a timer interrupt.                                    *)
(***************************************************************************)
EXTENDS ThreadsRefineProcesses

\* One sleep time, less than a timer period; and two, one of them longer, so
\* that a later sleeper may have to be inserted before an earlier one.
OneSleep == {3}
TwoSleeps == {1, 6}
=============================================================================
