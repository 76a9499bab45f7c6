--------------------------- MODULE WaitingProofs ----------------------------
(***************************************************************************)
(* What threads wait for: a child (JoinHandshake), the console             *)
(* (OneWriteAtATime, NoLostWakeup), their own deletion (NoLostCarcass), or *)
(* a time (WokenOnTime).  That the machine never idles or halts with work  *)
(* left follows.                                                           *)
(***************************************************************************)
EXTENDS NachOSThreadsProofs, FiniteSetTheorems

-----------------------------------------------------------------------------
(***************************************************************************)
(* Join and Exit agree (JoinHandshake), for every family tree.  Beyond the *)
(* queues the invariant needs: a thread whose exit is recorded never runs  *)
(* again, so a parent that can still join has been told of every child     *)
(* that exited; and a pid not handed out yet is nobody's child.            *)
(*                                                                         *)
(* The carcasses rest on the same ground: a thread that exited is asleep,  *)
(* so the next switch is to another one, and deletes it.  Main is the one  *)
(* thread that sleeps over its carcass without having exited; nothing was  *)
(* forked before it, so it leaves nobody and is deleted alone.             *)
(***************************************************************************)

Unborn == \A p \in Pid : p >= thread_index => pc[p] = "none" /\ ppid[p] = None

ExitedStay == \A p \in Pid : exitThreadArray[p] => pc[p] = "exit"

\* SetChildExitCode has been called for a child that exited before its parent.
ParentsTold ==
    \A c \in Pid : ppid[c] # None /\ exitThreadArray[c] /\ ~exitThreadArray[ppid[c]]
                       => exitedChild[c]

\* The inductive strengthening of JoinHandshake.
JoinInv == Unborn /\ ExitedStay /\ ParentsTold /\ JoinHandshake

-----------------------------------------------------------------------------
(* The actions *)

\* One that is no Fork, Join or Exit, and moves the current thread in its code

LEMMA OrdinaryStep ==
    ASSUME TypeOK, JoinInv, UnqueuedKept, NEW c \in Pid, NEW k,
           pc' = [pc EXCEPT ![c] = k],
           pc[c] \in {"none", "exit"} => k = pc[c], k # "join",
           \A p \in Pid \ {c} : whichchild'[p] = whichchild[p],
           UNCHANGED <<thread_index, ppid, exitThreadArray, exitedChild, waitchild_id>>
    PROVE  JoinInv'
<1>1. \A p \in Pid : pc'[p] = IF p = c THEN k ELSE pc[p]
  BY DEF TypeOK
<1>2. Unborn' /\ ExitedStay'
  BY <1>1 DEF JoinInv, Unborn, ExitedStay
<1>3. ParentsTold'
  BY DEF JoinInv, ParentsTold
<1>4. JoinHandshake'
  BY <1>1 DEF JoinInv, JoinHandshake, UnqueuedKept
<1>5. QED
  BY <1>2, <1>3, <1>4 DEF JoinInv

\* An action that moves nobody
LEMMA StillStep ==
    ASSUME TypeOK, JoinInv, UnqueuedKept, UNCHANGED <<pc, familyVars>>
    PROVE  JoinInv'
<1>1. /\ UNCHANGED <<pc, thread_index, ppid, exitThreadArray, exitedChild, waitchild_id,
                     whichchild>>
  BY DEF familyVars
<1>2. Unborn' /\ ExitedStay' /\ ParentsTold'
  BY <1>1 DEF JoinInv, Unborn, ExitedStay, ParentsTold
<1>3. JoinHandshake'
  BY <1>1 DEF JoinInv, JoinHandshake, UnqueuedKept
<1>4. QED
  BY <1>2, <1>3 DEF JoinInv

LEMMA ForkStep ==
    ASSUME TypeOK, QueuesInv, JoinInv, UnqueuedKept, SysFork
    PROVE  JoinInv'
<1>1. CASE UNCHANGED <<pc, familyVars>>
  BY <1>1, StillStep
<1>2. CASE /\ ~TooManyThreads
           /\ thread_index' = thread_index + 1
           /\ ppid' = [ppid EXCEPT ![thread_index] = currentThread]
           /\ pc' = [pc EXCEPT ![thread_index] = "fresh", ![currentThread] = "return"]
           /\ UNCHANGED <<exitThreadArray, exitedChild, waitchild_id, whichchild>>
  <2> DEFINE n == thread_index
  <2>1. n \in Pid /\ n \in Int /\ n' = n + 1
    BY <1>2, CountAssumption DEF TooManyThreads, TypeOK, Pid
  <2>2. pc[n] = "none" /\ ppid[n] = None
    BY <2>1 DEF JoinInv, Unborn
  <2>3. currentThread \in Pid /\ pc[currentThread] = "user" /\ currentThread # None
    BY ConstantTypes DEF SysFork, Exception, TypeOK
  <2>4. \A p \in Pid : pc'[p] = IF p = n THEN "fresh"
                                ELSE IF p = currentThread THEN "return" ELSE pc[p]
    BY <1>2, <2>1, <2>2, <2>3 DEF TypeOK
  <2>5. \A p \in Pid : ppid'[p] = IF p = n THEN currentThread ELSE ppid[p]
    BY <1>2, <2>1 DEF TypeOK
  <2>6. UNCHANGED <<exitThreadArray, exitedChild, waitchild_id, whichchild>>
    BY <1>2
  <2>7. ~exitThreadArray[n]
    BY <2>1, <2>2 DEF JoinInv, ExitedStay
  <2>8. ExitedStay'
    BY <2>2, <2>3, <2>4, <2>6 DEF JoinInv, ExitedStay
  <2>9. ParentsTold'
    BY <2>5, <2>6, <2>7 DEF JoinInv, ParentsTold
  <2>10. Unborn'
    <3>1. \A p \in Pid : p >= n + 1 => p >= n /\ p # n
      BY <2>1 DEF Pid
    <3>2. \A p \in Pid : p >= n => pc[p] = "none" /\ ppid[p] = None
      BY DEF JoinInv, Unborn
    <3>3. QED
      BY <2>1, <2>3, <2>4, <2>5, <3>1, <3>2 DEF Unborn
  <2>11. ASSUME NEW p \in Pid, pc'[p] = "join"
         PROVE  /\ whichchild'[p] # None /\ ppid'[whichchild'[p]] = p
                /\ IF status'[p] = "BLOCKED"
                   THEN waitchild_id'[p] = whichchild'[p] /\ ~exitThreadArray'[whichchild'[p]]
                   ELSE waitchild_id'[p] = None /\ exitedChild'[whichchild'[p]]
    <3>1. pc[p] = "join"
      BY <2>4, <2>11
    <3>2. /\ whichchild[p] # None /\ ppid[whichchild[p]] = p
          /\ IF status[p] = "BLOCKED"
             THEN waitchild_id[p] = whichchild[p] /\ ~exitThreadArray[whichchild[p]]
             ELSE waitchild_id[p] = None /\ exitedChild[whichchild[p]]
      BY <3>1 DEF JoinInv, JoinHandshake
    <3>3. whichchild[p] \in Pid /\ whichchild[p] # n
      BY <2>2, <3>2, ConstantTypes DEF TypeOK, PidOrNone
    <3>4. status'[p] = "BLOCKED" <=> status[p] = "BLOCKED"
      BY <2>11, <3>1 DEF UnqueuedKept
    <3>5. QED
      BY <2>5, <2>6, <3>2, <3>3, <3>4
  <2>12. QED
    BY <2>8, <2>9, <2>10, <2>11 DEF JoinInv, JoinHandshake
<1>3. QED
  BY <1>1, <1>2 DEF SysFork

LEMMA JoinStep ==
    ASSUME TypeOK, QueuesInv, QueuesInv', JoinInv, UnqueuedKept, SysJoin
    PROVE  JoinInv'
<1>1. PICK c \in Children(currentThread) :
        IF exitedChild[c]
        THEN /\ Continue("return")
             /\ UNCHANGED <<waitchild_id, whichchild>>
        ELSE /\ waitchild_id' = [waitchild_id EXCEPT ![currentThread] = c]
             /\ whichchild' = [whichchild EXCEPT ![currentThread] = c]
             /\ Continue("join")
             /\ PutThreadToSleep
  BY DEF SysJoin
<1>2. /\ pc[currentThread] = "user" /\ currentThread \in Pid /\ c \in Pid
      /\ ppid[c] = currentThread /\ currentThread # None /\ c # None
      /\ UNCHANGED <<thread_index, ppid, exitThreadArray, exitedChild>>
  BY ConstantTypes DEF SysJoin, Exception, TypeOK, Children
<1>3. CASE exitedChild[c]
  BY <1>1, <1>2, <1>3, OrdinaryStep DEF Continue
<1>4. CASE ~exitedChild[c]
  <2>1. /\ \A p \in Pid : pc'[p] = IF p = currentThread THEN "join" ELSE pc[p]
        /\ \A p \in Pid : waitchild_id'[p] = IF p = currentThread THEN c ELSE waitchild_id[p]
        /\ \A p \in Pid : whichchild'[p] = IF p = currentThread THEN c ELSE whichchild[p]
    BY <1>1, <1>4 DEF Continue, TypeOK
  <2>2. Unborn' /\ ExitedStay' /\ ParentsTold'
    BY <1>2, <2>1 DEF JoinInv, Unborn, ExitedStay, ParentsTold
  <2>3. ~exitThreadArray[c]
    BY <1>2, <1>4 DEF JoinInv, ParentsTold, ExitedStay
  <2>4. status'[currentThread] = "BLOCKED"
    BY <1>2, <2>1 DEF QueuesInv, JoinersSleep
  <2>5. JoinHandshake'
    BY <1>2, <2>1, <2>3, <2>4 DEF JoinInv, JoinHandshake, UnqueuedKept
  <2>6. QED
    BY <2>2, <2>5 DEF JoinInv
<1>5. QED
  BY <1>3, <1>4

LEMMA ExitStep ==
    ASSUME TypeOK, QueuesInv, JoinInv, SysExit
    PROVE  JoinInv'
<1> DEFINE e == currentThread
<1>1. /\ e \in Pid /\ pc[e] = "user" /\ UNCHANGED <<thread_index, ppid, whichchild>>
      /\ \A p \in Pid : pc'[p] = IF p = e THEN "exit" ELSE pc[p]
      /\ \A p \in Pid : exitThreadArray'[p] = IF p = e THEN TRUE ELSE exitThreadArray[p]
  BY DEF SysExit, Exception, Continue, TypeOK
<1>2. \A p \in Pid : exitedChild'[p] = IF p = e /\ Notifies(ppid[e]) THEN TRUE
                                       ELSE exitedChild[p]
  BY <1>1 DEF SysExit, TypeOK
<1>3. \A p \in Pid : ExitWakes(p) => waitchild_id'[p] = None
  BY DEF SysExit, ExitWakes, TypeOK
<1>4. \A p \in Pid : ~ExitWakes(p) => waitchild_id'[p] = waitchild_id[p]
  BY DEF SysExit, ExitWakes, TypeOK
<1>5. \A p \in Pid \ {e} : status'[p] = "BLOCKED" <=> status[p] = "BLOCKED" /\ ~ExitWakes(p)
  BY ExitAgrees
<1>6. Unborn' /\ ExitedStay'
  BY <1>1 DEF JoinInv, Unborn, ExitedStay
<1>7. ParentsTold'
  <2> SUFFICES ASSUME NEW c \in Pid, ppid[c] # None, exitThreadArray'[c],
                      ~exitThreadArray'[ppid[c]]
               PROVE  exitedChild'[c]
    BY <1>1 DEF ParentsTold
  <2>1. ppid[c] \in Pid /\ ~exitThreadArray[ppid[c]]
    BY <1>1 DEF TypeOK, PidOrNone
  <2>2. CASE c = e
    BY <1>1, <1>2, <2>1, <2>2 DEF Notifies
  <2>3. CASE c # e
    BY <1>1, <1>2, <2>1, <2>3 DEF JoinInv, ParentsTold
  <2>4. QED
    BY <2>2, <2>3
<1>8. JoinHandshake'
  <2> SUFFICES ASSUME NEW p \in Pid, pc'[p] = "join"
               PROVE  /\ whichchild[p] # None /\ ppid[whichchild[p]] = p
                      /\ IF status'[p] = "BLOCKED"
                         THEN /\ waitchild_id'[p] = whichchild[p]
                              /\ ~exitThreadArray'[whichchild[p]]
                         ELSE waitchild_id'[p] = None /\ exitedChild'[whichchild[p]]
    BY <1>1 DEF JoinHandshake
  <2> DEFINE w == whichchild[p]
  <2>1. p # e /\ pc[p] = "join"
    BY <1>1
  <2>2. /\ w # None /\ ppid[w] = p
        /\ IF status[p] = "BLOCKED"
           THEN waitchild_id[p] = w /\ ~exitThreadArray[w]
           ELSE waitchild_id[p] = None /\ exitedChild[w]
    BY <2>1 DEF JoinInv, JoinHandshake
  <2>3. w \in Pid /\ p # None
    BY <2>2, ConstantTypes DEF TypeOK, PidOrNone
  <2>4. Notifies(p)
    BY <2>1, <2>3 DEF Notifies, JoinInv, ExitedStay
  <2>5. CASE status[p] = "BLOCKED" /\ w = e
    <3>1. ExitWakes(p)
      BY <2>2, <2>4, <2>5 DEF ExitWakes, WaitsFor
    <3>2. exitedChild'[w]
      BY <1>2, <2>2, <2>3, <2>4, <2>5
    <3>3. QED
      BY <1>3, <1>5, <2>1, <2>2, <3>1, <3>2
  <2>6. CASE status[p] = "BLOCKED" /\ w # e
    <3>1. ~ExitWakes(p)
      BY <2>2, <2>6 DEF ExitWakes, WaitsFor
    <3>2. QED
      BY <1>1, <1>4, <1>5, <2>1, <2>2, <2>3, <2>6, <3>1
  <2>7. CASE status[p] # "BLOCKED"
    BY <1>2, <1>3, <1>4, <1>5, <2>1, <2>2, <2>3, <2>7
  <2>8. QED
    BY <2>5, <2>6, <2>7
<1>9. QED
  BY <1>6, <1>7, <1>8 DEF JoinInv

LEMMA InitJoin == Init => JoinInv
<1> SUFFICES ASSUME Init PROVE JoinInv
  OBVIOUS
<1>1. Unborn
  BY CountAssumption DEF Init, Unborn, Pid
<1>2. ExitedStay /\ ParentsTold /\ JoinHandshake
  BY DEF Init, ExitedStay, ParentsTold, JoinHandshake
<1>3. QED
  BY <1>1, <1>2 DEF JoinInv

LEMMA JoinInvStep ==
    ASSUME TypeOK, QueuesInv, QueuesInv', JoinInv, [Next]_vars
    PROVE  JoinInv'
<1>1. SysExit \/ UnqueuedKept
  BY QueuesStep
<1>2. CASE SysExit
  BY <1>2, ExitStep
<1>3. CASE UnqueuedKept /\ (SysFork \/ SysJoin)
  BY <1>3, ForkStep, JoinStep
<1>4. CASE UnqueuedKept /\ (Interrupts \/ SysHalt \/ UNCHANGED vars)
  <2>1. UNCHANGED <<pc, familyVars>>
    BY <1>4 DEF Interrupts, TimerInterrupt, WriteDoneInterrupt, TickReturn, Idle, IdleReturn,
                SysHalt, vars
  <2>2. QED
    BY <1>4, <2>1, StillStep
<1>5. CASE UnqueuedKept /\ (ResumeFresh \/ Start \/ Boot \/ FinishThread \/ Instruction
                           \/ QuickSyscall \/ SysYield \/ SysSleep \/ PutChar)
  <2>1. UNCHANGED familyVars /\ pc[currentThread] \notin {"none", "exit"}
    BY <1>5 DEF ResumeFresh, Start, Boot, FinishThread, Instruction, QuickSyscall,
                SysYield, SysSleep, PutChar, Exception
  <2>2. PICK k \in {"start", "user", "main", "exit", "return", "sleep", "print"} : Continue(k)
    BY <1>5 DEF ResumeFresh, Start, Boot, FinishThread, Instruction, QuickSyscall,
                SysYield, SysSleep, PutChar
  <2>3. QED
    BY <1>5, <2>1, <2>2, OrdinaryStep DEF Continue, familyVars, TypeOK
<1>6. CASE UnqueuedKept /\ (ResumeP \/ SysPrint \/ NextCharacter)
  <2>1. UNCHANGED familyVars /\ pc[currentThread] \notin {"none", "exit"}
    BY <1>6 DEF ResumeP, SysPrint, NextCharacter, Exception
  <2>2. PICK k \in {"P", "put"} : Continue(k)
    BY <1>6 DEF ResumeP, SysPrint, NextCharacter, P
  <2>3. QED
    BY <1>6, <2>1, <2>2, OrdinaryStep DEF Continue, familyVars, TypeOK
<1>7. CASE UnqueuedKept /\ Resume
  <2>1. /\ \E k \in AfterSleep(pc[currentThread]) : Continue(k)
        /\ whichchild' = [whichchild EXCEPT ![currentThread] = None]
        /\ UNCHANGED <<thread_index, ppid, exitThreadArray, exitedChild, waitchild_id>>
    BY <1>7 DEF Resume
  <2>2. PICK k \in AfterSleep(pc[currentThread]) : Continue(k)
    BY <2>1
  <2>3. k # "join" /\ (pc[currentThread] \in {"none", "exit"} => k = pc[currentThread])
    BY <2>2 DEF AfterSleep
  <2>4. currentThread \in Pid /\ \A p \in Pid \ {currentThread} : whichchild'[p] = whichchild[p]
    BY <2>1 DEF TypeOK
  <2>5. QED
    BY <1>7, <2>1, <2>2, <2>3, <2>4, OrdinaryStep DEF Continue
<1>8. QED
  BY <1>1, <1>2, <1>3, <1>4, <1>5, <1>6, <1>7
     DEF Next, Switched, Syscalls, Terminated

\* The strengthening of JoinHandshake is an invariant.
THEOREM JoinInvCorrect == Spec => []JoinInv
<1>1. Init => JoinInv
  BY InitJoin
<1>2. TypeOK /\ QueuesInv /\ QueuesInv' /\ JoinInv /\ [Next]_vars => JoinInv'
  BY JoinInvStep
<1>3. QED
  BY <1>1, <1>2, TypeCorrect, QueuesInvCorrect, PTL DEF Spec

\* Join returns what the child it named has left, and a parent sleeps in a join
\* only while that child can still wake it.
THEOREM JoinCorrect == Spec => []JoinHandshake
<1>1. JoinInv => JoinHandshake
  BY DEF JoinInv
<1>2. QED
  BY <1>1, JoinInvCorrect, PTL
-----------------------------------------------------------------------------
(* Exited threads, and the destruction of their objects *)

\* Who moves in its code, and where to
LEMMA Moves ==
    ASSUME TypeOK, [Next]_vars, NEW p \in Pid, pc'[p] # pc[p]
    PROVE  /\ mode \in {"run", "switch"}
           /\ p # currentThread => SysFork /\ p = thread_index /\ thread_index' = p + 1
           /\ pc'[p] \notin {"boot", "none"}
           /\ pc'[p] = "main" => pc[p] = "boot"
           /\ pc'[p] = "exit" => p = currentThread /\ (FinishThread \/ SysExit)
<1>1. ASSUME NEW k \in PC \ {"boot", "none", "main", "exit"}, Continue(k),
             mode \in {"run", "switch"}
      PROVE  /\ mode \in {"run", "switch"} /\ p = currentThread
             /\ pc'[p] \notin {"boot", "none", "main", "exit"}
  BY <1>1 DEF Continue, TypeOK
<1>2. CASE Interrupts \/ SysHalt \/ UNCHANGED vars
  BY <1>2 DEF Interrupts, TimerInterrupt, WriteDoneInterrupt, TickReturn, Idle, IdleReturn,
              SysHalt, vars
<1>3. CASE ResumeFresh \/ Start \/ Instruction \/ QuickSyscall \/ SysYield \/ SysSleep
           \/ PutChar \/ SysJoin
  <2>1. PICK k \in {"start", "user", "return", "sleep", "print", "join"} : Continue(k)
    BY <1>3 DEF ResumeFresh, Start, Instruction, QuickSyscall, SysYield, SysSleep, PutChar,
                SysJoin
  <2>2. mode \in {"run", "switch"}
    BY <1>3 DEF ResumeFresh, Start, Instruction, QuickSyscall, SysYield, SysSleep, PutChar,
                SysJoin, Exception
  <2>3. QED
    BY <1>1, <2>1, <2>2 DEF PC
<1>4. CASE Resume
  <2>1. PICK k \in AfterSleep(pc[currentThread]) : Continue(k)
    BY <1>4 DEF Resume
  <2>2. p = currentThread /\ pc'[p] = k
    BY <2>1 DEF Continue, TypeOK
  <2>3. k \in {"return", "print", "user"}
    BY <2>1, <2>2 DEF AfterSleep
  <2>4. QED
    BY <1>1, <1>4, <2>1, <2>3 DEF Resume, PC
<1>5. CASE ResumeP \/ SysPrint \/ NextCharacter
  <2>1. PICK k \in {"P", "put"} : Continue(k)
    BY <1>5 DEF ResumeP, SysPrint, NextCharacter, P
  <2>2. mode \in {"run", "switch"}
    BY <1>5 DEF ResumeP, SysPrint, NextCharacter, Exception
  <2>3. QED
    BY <1>1, <2>1, <2>2 DEF PC
<1>6. CASE Boot
  <2>1. PICK k \in {"user", "main"} : Continue(k)
    BY <1>6 DEF Boot
  <2>2. QED
    BY <1>6, <2>1 DEF Boot, Continue, TypeOK
<1>7. CASE FinishThread \/ SysExit
  <2>1. Continue("exit") /\ mode = "run"
    BY <1>7 DEF FinishThread, SysExit, Exception
  <2>2. QED
    BY <1>7, <2>1 DEF Continue, TypeOK
<1>8. CASE SysFork
  <2>1. /\ thread_index' = thread_index + 1
        /\ pc' = [pc EXCEPT ![thread_index] = "fresh", ![currentThread] = "return"]
    BY <1>8 DEF SysFork
  <2>2. QED
    BY <1>8, <2>1 DEF SysFork, Exception, TypeOK
<1>9. QED
  BY <1>2, <1>3, <1>4, <1>5, <1>6, <1>7, <1>8 DEF Next, Switched, Syscalls, Terminated

\* An exit is recorded by SysExit alone; the CPU changes hands only at a SWITCH.
LEMMA ExitsRecorded ==
    ASSUME [Next]_vars, ~SysExit
    PROVE  exitThreadArray' = exitThreadArray
<1>1. CASE Interrupts
  BY <1>1 DEF Interrupts, TimerInterrupt, WriteDoneInterrupt, TickReturn, Idle, IdleReturn,
              familyVars
<1>2. CASE Switched \/ Boot \/ FinishThread \/ Instruction \/ UNCHANGED vars
  BY <1>2 DEF Switched, ResumeFresh, Resume, ResumeP, Start, Boot, FinishThread,
              Instruction, vars, familyVars
<1>3. CASE Syscalls
  BY <1>3 DEF Syscalls, QuickSyscall, SysHalt, SysYield, SysSleep, SysPrint, NextCharacter,
              PutChar, SysFork, SysJoin, familyVars
<1>4. QED
  BY <1>1, <1>2, <1>3 DEF Next, Terminated

SwitchOrStay == mode' = "switch" \/ currentThread' = currentThread

LEMMA SelectSwitches ==
    ASSUME NEW r, NEW st, SelectNext(r, st)
    PROVE  SwitchOrStay /\ mode' \in {"switch", "wait"}
           /\ (mode' = "wait" => readyThreadList' = << >>)
BY DEF SelectNext, Dispatch, SwitchOrStay

LEMMA YieldSwitches ==
    ASSUME YieldCPU
    PROVE  SwitchOrStay /\ mode' \in {"switch", "tick", AssertYieldSJF}
<1>1. ASSUME NEW r, NEW n, NEW st, Dispatch(r, n, st)
      PROVE  mode' = "switch"
  BY <1>1 DEF Dispatch
<1>2. CASE schedulingAlgo = UNIX_SCHED \/ readyThreadList # << >>
  BY <1>1, <1>2 DEF YieldCPU, SwitchOrStay
<1>3. CASE schedulingAlgo # UNIX_SCHED /\ readyThreadList = << >>
  BY <1>3 DEF YieldCPU, SwitchOrStay
<1>4. QED
  BY <1>2, <1>3

LEMMA PSwitches ==
    ASSUME P
    PROVE  SwitchOrStay /\ mode' \in {"switch", "tick", "wait"}
           /\ (mode' = "wait" => readyThreadList' = << >>)
<1>1. CASE value = 0
  BY <1>1, SelectSwitches DEF P, PutThreadToSleep
<1>2. CASE value # 0
  BY <1>2 DEF P, OneTick, SwitchOrStay
<1>3. QED
  BY <1>1, <1>2

\* How the loop or switch the process is in can change
LEMMA ModeChanges ==
    ASSUME [Next]_vars
    PROVE  /\ SwitchOrStay
           /\ mode' = "wait" => readyThreadList' = << >> \/ UNCHANGED vars
           /\ mode' = "halted" => Idle \/ SysHalt \/ SysExit \/ UNCHANGED vars
           /\ mode' \in {"run", "tick"} => mode \in {"run", "tick", "switch"}
<1>1. CASE TimerInterrupt \/ WriteDoneInterrupt
  <2>1. UNCHANGED currentThread /\ mode \in {"tick", "idle"} /\ mode' \in {mode, AssertBurstStart}
    BY <1>1 DEF TimerInterrupt, WriteDoneInterrupt, InCheckIfDue
  <2>2. QED
    BY <2>1, AssertionNames DEF SwitchOrStay
<1>2. CASE TickReturn \/ SysYield
  <2>1. mode \in {"tick", "run"} /\ (YieldCPU \/ (mode' = "run" /\ UNCHANGED currentThread))
    BY <1>2 DEF TickReturn, SysYield, Exception
  <2>2. QED
    BY <2>1, YieldSwitches, AssertionNames DEF SwitchOrStay
<1>3. CASE Idle
  BY <1>3 DEF Idle, SwitchOrStay
<1>4. CASE IdleReturn
  BY <1>4, SelectSwitches DEF IdleReturn
<1>5. CASE ResumeFresh \/ Resume \/ Start \/ Boot \/ Instruction \/ QuickSyscall \/ PutChar
  BY <1>5 DEF ResumeFresh, Resume, Start, Boot, Instruction, QuickSyscall, PutChar,
              Exception, OneTick, SwitchOrStay
<1>6. CASE ResumeP \/ SysPrint \/ NextCharacter
  <2>1. P /\ mode \in {"run", "switch"}
    BY <1>6 DEF ResumeP, SysPrint, NextCharacter, Exception
  <2>2. QED
    BY <2>1, PSwitches
<1>7. CASE FinishThread \/ SysSleep
  <2>1. PutThreadToSleep /\ mode = "run"
    BY <1>7 DEF FinishThread, SysSleep
  <2>2. QED
    BY <2>1, SelectSwitches DEF PutThreadToSleep
<1>8. CASE SysHalt
  BY <1>8 DEF SysHalt, SwitchOrStay
<1>9. CASE SysFork
  <2>1. /\ mode = "run" /\ UNCHANGED currentThread
        /\ mode' \in {AssertMaxThreads, AssertMaxChildren, "tick"}
    BY <1>9 DEF SysFork, Exception, OneTick
  <2>2. QED
    BY <2>1, AssertionNames DEF SwitchOrStay
<1>10. CASE SysJoin
  <2>1. mode = "run" /\ (PutThreadToSleep \/ (mode' = mode /\ UNCHANGED currentThread))
    BY <1>10 DEF SysJoin, Exception
  <2>2. QED
    BY <2>1, SelectSwitches DEF PutThreadToSleep, SwitchOrStay
<1>11. CASE SysExit
  <2>1. \/ \E r, st : SelectNext(r, st)
        \/ mode' = "halted" /\ UNCHANGED currentThread
    BY <1>11 DEF SysExit
  <2>2. QED
    BY <1>11, <2>1, SelectSwitches DEF SwitchOrStay
<1>12. CASE UNCHANGED vars
  BY <1>12 DEF vars, SwitchOrStay
<1>13. QED
  BY <1>1, <1>2, <1>3, <1>4, <1>5, <1>6, <1>7, <1>8, <1>9, <1>10, <1>11, <1>12
     DEF Next, Interrupts, Switched, Syscalls, Terminated

LEMMA AgeKeepsWrites ==
    ASSUME TypeOK, NEW b, NEW d, Age(b, d)
    PROVE  Len(pendingWrites') = Len(pendingWrites)
BY DEF Age, TypeOK

LEMMA YieldKeepsWrites ==
    ASSUME TypeOK, YieldCPU
    PROVE  Len(pendingWrites') = Len(pendingWrites)
BY AgeKeepsWrites DEF YieldCPU, timeVars

\* A thread at the end of Exit or FinishThread stays asleep.
ExitedAsleep == \A p \in Pid : pc[p] = "exit" => status[p] = "BLOCKED"

\* Until main has entered Machine::Run it is the only thread and has touched
\* neither the sleep queue nor the console.  If it never does, it ends in
\* FinishThread, which does not record its exit, and the machine halts.
MainWaits == pc[0] \in {"boot", "main"} \/ (pc[0] = "exit" /\ ~exitThreadArray[0])

MainAlone ==
    /\ \A p \in Pid : pc[p] \in {"boot", "main"} => p = 0
    /\ \A p \in Pid : pc[p] = "exit" => p = 0 \/ exitThreadArray[p]
    /\ MainWaits => /\ thread_index = 1 /\ ~polling /\ pendingWrites = << >>
                    /\ currentThread = 0
                    /\ IF pc[0] = "exit" THEN mode \in {"wait", "halted"}
                                         ELSE mode \notin {"wait", "idle"}

\* One thread at a time waits for its destruction, and a thread that runs has
\* seen to it, unless it has just been forked and is not in Startup yet.
Carcasses ==
    /\ threadToBeDestroyed # None => pc[threadToBeDestroyed] = "exit"
    /\ threadToBeDestroyed # None /\ mode \in {"run", "tick"} => pc[currentThread] = "start"
    /\ \A p \in Pid : pc[p] = "exit" => p \in deleted \cup {threadToBeDestroyed}
    /\ \A p \in deleted : pc[p] = "exit" /\ p # currentThread

\* The inductive strengthening of NoLostCarcass and NoDangling.
ExitInv == ExitedAsleep /\ MainAlone /\ Carcasses

LEMMA ExitInvImplies ==
    ASSUME TypeOK, QueuesInv, ExitInv
    PROVE  NoLostCarcass /\ NoDangling
<1>1. NoLostCarcass
  BY DEF ExitInv, Carcasses, NoLostCarcass
<1>2. NoDangling
  <2> SUFFICES ASSUME NEW p \in deleted
               PROVE  /\ p # currentThread /\ exitThreadArray[p]
                      /\ p \notin Members(readyThreadList) /\ p \notin Members(sleepQueue)
                      /\ p \notin Members(queue)
    BY DEF NoDangling
  <2>1. p \in Pid /\ pc[p] = "exit" /\ p # currentThread /\ status[p] = "BLOCKED"
    BY DEF TypeOK, ExitInv, Carcasses, ExitedAsleep
  <2>2. /\ p \notin Members(readyThreadList) /\ p \notin Members(sleepQueue)
        /\ p \notin Members(queue)
    BY <2>1 DEF QueuesInv, ReadyAgrees, BlockedAgree
  <2>3. exitThreadArray[p]
    BY <2>1 DEF ExitInv, MainAlone, MainWaits
  <2>4. QED
    BY <2>1, <2>2, <2>3
<1>3. QED
  BY <1>1, <1>2

LEMMA InitExit == Init => ExitInv
<1> SUFFICES ASSUME Init PROVE ExitInv
  OBVIOUS
<1>1. ExitedAsleep /\ Carcasses
  BY DEF Init, ExitedAsleep, Carcasses
<1>2. MainAlone
  BY ConstantTypes DEF Init, MainAlone, MainWaits
<1>3. QED
  BY <1>1, <1>2 DEF ExitInv

\* Only a parent in its join is readied by an exit, only a sleeper or a waiter by
\* an interrupt, and the exiting thread is put to sleep.
LEMMA AsleepStep ==
    ASSUME TypeOK, QueuesInv, ExitedAsleep, [Next]_vars
    PROVE  ExitedAsleep'
<1> SUFFICES ASSUME NEW p \in Pid, pc'[p] = "exit" PROVE status'[p] = "BLOCKED"
  BY DEF ExitedAsleep
<1>1. CASE SysExit
  <2>1. /\ status'[currentThread] = "BLOCKED"
        /\ \A q \in Pid \ {currentThread} :
             status'[q] = "BLOCKED" <=> status[q] = "BLOCKED" /\ ~ExitWakes(q)
    BY <1>1, ExitAgrees
  <2>2. CASE p # currentThread
    <3>1. pc[p] = "exit" /\ status[p] = "BLOCKED"
      BY <1>1, <2>2 DEF SysExit, Continue, TypeOK, ExitedAsleep
    <3>2. waitchild_id[p] = None
      BY <3>1 DEF QueuesInv, JoinersSleep
    <3>3. waitchild_id[p] # currentThread
      BY <3>2, ConstantTypes DEF TypeOK
    <3>4. QED
      BY <2>1, <2>2, <3>1, <3>3 DEF ExitWakes, WaitsFor
  <2>3. QED
    BY <2>1, <2>2
<1>2. CASE ~SysExit
  <2>1. UnqueuedKept
    BY <1>2, QueuesStep
  <2>2. CASE pc[p] = "exit"
    BY <2>1, <2>2 DEF UnqueuedKept, ExitedAsleep
  <2>3. CASE pc[p] # "exit"
    BY <1>2, <2>3, Moves, FinishAgrees DEF BlockedKept
  <2>4. QED
    BY <2>2, <2>3
<1>3. QED
  BY <1>1, <1>2

\* While main has not entered Machine::Run nobody else does anything.
LEMMA MainStep ==
    ASSUME TypeOK, TypeOK', QueuesInv, QueuesInv', ExitedAsleep, MainAlone, [Next]_vars
    PROVE  MainAlone'
<1> DEFINE Recorded == \A p \in Pid : exitThreadArray[p] => exitThreadArray'[p]
<1>1. Recorded /\ (SysExit => exitThreadArray'[currentThread])
  <2>1. SysExit => Recorded /\ exitThreadArray'[currentThread]
    BY DEF SysExit, TypeOK
  <2>2. QED
    BY <2>1, ExitsRecorded
<1>2. ASSUME NEW p \in Pid, pc'[p] \in {"boot", "main"}
      PROVE  p = 0
  BY <1>2, Moves DEF MainAlone
<1>3. ASSUME NEW p \in Pid, pc'[p] = "exit"
      PROVE  p = 0 \/ exitThreadArray'[p]
  <2>1. CASE pc[p] = "exit"
    BY <1>1, <2>1 DEF MainAlone
  <2>2. CASE pc[p] # "exit"
    <3>1. p = currentThread /\ (FinishThread \/ SysExit)
      BY <1>3, <2>2, Moves
    <3>2. QED
      BY <1>1, <3>1 DEF MainAlone, FinishThread
  <2>3. QED
    BY <2>1, <2>2
<1>4. ASSUME MainWaits' PROVE MainWaits
  <2>1. CASE pc'[0] \in {"boot", "main"}
    BY <2>1, Moves, ConstantTypes DEF MainWaits
  <2>2. CASE pc'[0] = "exit" /\ ~exitThreadArray'[0]
    <3>1. ~exitThreadArray[0] /\ (SysExit => currentThread # 0)
      BY <1>1, <2>2, ConstantTypes
    <3>2. CASE pc[0] # "exit"
      <4>1. FinishThread /\ currentThread = 0
        BY <2>2, <3>1, <3>2, Moves, ConstantTypes
      <4>2. QED
        BY <4>1 DEF FinishThread, MainWaits
    <3>3. QED
      BY <3>1, <3>2 DEF MainWaits
  <2>3. QED
    BY <1>4, <2>1, <2>2 DEF MainWaits
<1>5. ASSUME MainWaits, pc[0] = "exit"
      PROVE  /\ thread_index' = 1 /\ ~polling' /\ pendingWrites' = << >>
             /\ currentThread' = 0 /\ pc'[0] = "exit" /\ mode' \in {"wait", "halted"}
  <2>1. /\ thread_index = 1 /\ ~polling /\ pendingWrites = << >> /\ currentThread = 0
        /\ mode \in {"wait", "halted"}
    BY <1>5 DEF MainAlone
  <2>2. Idle \/ UNCHANGED vars
    BY <2>1
       DEF Next, Interrupts, TimerInterrupt, WriteDoneInterrupt, InCheckIfDue, TickReturn,
           IdleReturn, Switched, ResumeFresh, Resume, ResumeP, Start, Boot, FinishThread,
           Instruction, Syscalls, QuickSyscall, SysHalt, SysYield, SysSleep, SysPrint,
           NextCharacter, PutChar, SysFork, SysJoin, SysExit, Exception, Terminated
  <2>3. CASE Idle
    BY <1>5, <2>1, <2>3 DEF Idle, NotTimerAlone, familyVars, timeVars
  <2>4. CASE UNCHANGED vars
    BY <1>5, <2>1, <2>4 DEF vars, familyVars, timeVars
  <2>5. QED
    BY <2>2, <2>3, <2>4
<1>6. ASSUME MainWaits, pc[0] # "exit"
      PROVE  /\ thread_index' = 1 /\ ~polling' /\ pendingWrites' = << >>
             /\ currentThread' = 0
             /\ IF pc'[0] = "exit" THEN mode' = "wait" ELSE mode' \notin {"wait", "idle"}
  <2>1. /\ thread_index = 1 /\ ~polling /\ pendingWrites = << >> /\ currentThread = 0
        /\ mode \notin {"wait", "idle"} /\ pc[0] \in {"boot", "main"}
    BY <1>6 DEF MainAlone, MainWaits
  <2>2. TimerInterrupt \/ TickReturn \/ Resume \/ Boot \/ FinishThread \/ UNCHANGED vars
    BY <2>1
       DEF Next, Interrupts, WriteDoneInterrupt, WriteDue, Idle, IdleReturn, Switched,
           ResumeFresh, ResumeP, Start, Instruction, Syscalls, QuickSyscall, SysHalt,
           SysYield, SysSleep, SysPrint, NextCharacter, PutChar, SysFork, SysJoin, SysExit,
           Exception, Terminated
  <2>3. /\ thread_index' = 1 /\ ~polling' /\ Len(pendingWrites') = Len(pendingWrites)
    BY <2>1, <2>2, AgeKeepsWrites, YieldKeepsWrites
       DEF TimerInterrupt, TickReturn, Resume, Boot, FinishThread, OneTick, familyVars,
           timeVars, vars
  <2>4. pendingWrites' = << >>
    BY <2>1, <2>3 DEF TypeOK
  <2>5. currentThread' = 0
    <3>1. CASE mode' = "switch"
      <4>1. status'[currentThread'] = "RUNNING" /\ currentThread' \in Pid
        BY <3>1 DEF QueuesInv, OneRuns, TypeOK
      <4>2. ~(currentThread' >= thread_index')
        BY <4>1 DEF QueuesInv, BlockedAgree
      <4>3. QED
        BY <2>3, <4>1, <4>2 DEF Pid
    <3>2. QED
      BY <2>1, <3>1, ModeChanges DEF SwitchOrStay
  <2>6. CASE FinishThread
    <3>1. mode = "run" /\ InCPU
      BY <2>6 DEF FinishThread, InCPU
    <3>2. status[0] = "RUNNING" /\ 0 \in Pid
      BY <2>1, <3>1, RunnerFacts
    <3>3. \A p \in Pid : p # 0 => status[p] = "JUST_CREATED"
      BY <2>1 DEF QueuesInv, BlockedAgree, Pid
    <3>4. Members(readyThreadList) \cap Pid = {}
      BY <3>2, <3>3 DEF QueuesInv, ReadyAgrees
    <3>5. readyThreadList = << >>
      <4> SUFFICES ASSUME readyThreadList # << >> PROVE FALSE
        OBVIOUS
      <4>1. 1 \in DOMAIN readyThreadList /\ readyThreadList[1] \in Pid
        BY DEF TypeOK
      <4>2. QED
        BY <3>4, <4>1 DEF Members
    <3>6. pc'[0] = "exit" /\ mode' = "wait"
      BY <2>1, <2>6, <3>2, <3>5 DEF FinishThread, Continue, PutThreadToSleep, SelectNext, TypeOK
    <3>7. QED
      BY <2>3, <2>4, <2>5, <3>6
  <2>7. CASE ~FinishThread
    <3>1. mode' \notin {"wait", "idle"}
      <4>1. CASE TimerInterrupt
        <5>1. mode' \in {mode, AssertBurstStart}
          BY <4>1 DEF TimerInterrupt
        <5>2. QED
          BY <2>1, <5>1, AssertionNames
      <4>2. CASE TickReturn
        <5>1. YieldCPU \/ mode' = "run"
          BY <4>2 DEF TickReturn
        <5>2. QED
          BY <5>1, YieldSwitches, AssertionNames
      <4>3. CASE Resume \/ Boot \/ UNCHANGED vars
        BY <2>1, <4>3 DEF Resume, Boot, OneTick, vars
      <4>4. QED
        BY <2>2, <2>7, <4>1, <4>2, <4>3
    <3>2. pc'[0] # "exit"
      <4>1. CASE SysExit
        BY <2>1, <4>1 DEF SysExit, Exception
      <4>2. QED
        BY <2>1, <2>7, <4>1, Moves, ConstantTypes
    <3>3. QED
      BY <2>3, <2>4, <2>5, <3>1, <3>2
  <2>8. QED
    BY <2>6, <2>7
<1>7. QED
  BY <1>2, <1>3, <1>4, <1>5, <1>6 DEF MainAlone

\* Who destroys a carcass, and who leaves one
LEMMA CarcassChanges ==
    ASSUME [Next]_vars
    PROVE  \/ UNCHANGED carcassVars /\ ~Resume /\ ~ResumeP /\ ~Start
           \/ DeleteCarcass /\ (Resume \/ ResumeP \/ Start)
           \/ threadToBeDestroyed' = currentThread /\ deleted' = deleted
                /\ (FinishThread \/ SysExit)
<1>1. CASE Resume \/ ResumeP \/ Start
  BY <1>1 DEF Resume, ResumeP, Start
<1>2. CASE FinishThread \/ SysExit
  BY <1>2 DEF FinishThread, SysExit
<1>3. CASE ~(Resume \/ ResumeP \/ Start \/ FinishThread \/ SysExit)
  <2>1. CASE Interrupts \/ UNCHANGED vars
    BY <1>3, <2>1 DEF Interrupts, TimerInterrupt, WriteDoneInterrupt, TickReturn, Idle,
                      IdleReturn, vars
  <2>2. CASE ResumeFresh \/ Boot \/ Instruction \/ Syscalls
    BY <1>3, <2>2 DEF ResumeFresh, Boot, Instruction, Syscalls, QuickSyscall, SysHalt,
                      SysYield, SysSleep, SysPrint, NextCharacter, PutChar, SysFork, SysJoin
  <2>3. QED
    BY <1>3, <2>1, <2>2 DEF Next, Switched, Terminated
<1>4. QED
  BY <1>1, <1>2, <1>3

LEMMA CarcassStep ==
    ASSUME TypeOK, TypeOK', QueuesInv, QueuesInv', JoinInv, ExitInv, ExitedAsleep',
           [Next]_vars
    PROVE  Carcasses'
<1> USE DEF ExitInv
<1>1. ASSUME InCPU PROVE pc[currentThread] # "exit" /\ currentThread \in Pid
  BY <1>1, RunnerFacts DEF ExitedAsleep
<1>2. ASSUME NEW p \in Pid, pc[p] = "exit" PROVE pc'[p] = "exit"
  <2>1. CASE p = currentThread
    <3>1. ~InCPU
      BY <1>1, <1>2, <2>1
    <3>2. QED
      BY <1>2, <3>1, Moves DEF InCPU
  <2>2. CASE p # currentThread
    <3> SUFFICES ASSUME pc'[p] # pc[p] PROVE FALSE
      BY <1>2
    <3>1. p = thread_index
      BY <2>2, Moves
    <3>2. pc[p] = "none"
      BY <3>1 DEF JoinInv, Unborn, TypeOK
    <3>3. QED
      BY <1>2, <3>2
  <2>3. QED
    BY <2>1, <2>2
<1>3. ASSUME NEW p \in Pid, pc'[p] = "exit", pc[p] # "exit"
      PROVE  p = currentThread /\ (FinishThread \/ SysExit)
  BY <1>3, Moves
<1>4. threadToBeDestroyed # None => threadToBeDestroyed \in Pid
  BY DEF TypeOK, PidOrNone
<1>5. FinishThread \/ SysExit =>
        /\ mode = "run" /\ pc[currentThread] \in {"main", "user"}
        /\ pc'[currentThread] = "exit"
        /\ mode' \in {"switch", "wait", "halted"}
  <2>1. FinishThread => mode' \in {"switch", "wait"}
    BY SelectSwitches DEF FinishThread, PutThreadToSleep
  <2>2. SysExit => \/ \E r, st : SelectNext(r, st)
                   \/ mode' = "halted"
    BY DEF SysExit
  <2>3. SysExit => mode' \in {"switch", "wait", "halted"}
    BY <2>2, SelectSwitches
  <2>4. QED
    BY <2>1, <2>3 DEF FinishThread, SysExit, Exception, Continue, TypeOK
<1>6. FinishThread \/ SysExit => threadToBeDestroyed = None
  BY <1>5 DEF Carcasses
<1>7. threadToBeDestroyed' # None => pc'[threadToBeDestroyed'] = "exit"
  BY <1>2, <1>4, <1>5, CarcassChanges DEF Carcasses, carcassVars, DeleteCarcass
<1>8. ASSUME NEW p \in Pid, pc'[p] = "exit"
      PROVE  p \in deleted' \cup {threadToBeDestroyed'}
  <2>1. CASE pc[p] = "exit"
    <3>1. p \in deleted \cup {threadToBeDestroyed} /\ p # None
      BY <2>1, ConstantTypes DEF Carcasses
    <3>2. QED
      BY <1>6, <3>1, CarcassChanges DEF carcassVars, DeleteCarcass
  <2>2. CASE pc[p] # "exit"
    BY <1>3, <1>8, <2>2, CarcassChanges
       DEF FinishThread, SysExit
  <2>3. QED
    BY <2>1, <2>2
<1>9. ASSUME NEW p \in deleted'
      PROVE  p \in Pid /\ pc'[p] = "exit" /\ p # currentThread'
  <2>1. CASE p \in deleted
    <3>1. p \in Pid /\ pc'[p] = "exit" /\ p # currentThread
      BY <1>2, <2>1 DEF Carcasses, TypeOK
    <3>2. CASE mode' = "switch"
      <4>1. status'[currentThread'] = "RUNNING" /\ currentThread' \in Pid
        BY <3>2 DEF QueuesInv, OneRuns, TypeOK
      <4>2. QED
        BY <3>1, <4>1 DEF ExitedAsleep
    <3>3. QED
      BY <3>1, <3>2, ModeChanges DEF SwitchOrStay
  <2>2. CASE p \notin deleted
    <3>1. p = threadToBeDestroyed /\ p # None /\ (Resume \/ ResumeP \/ Start)
      BY <1>9, <2>2, CarcassChanges DEF carcassVars, DeleteCarcass
    <3>2. p \in Pid /\ pc[p] = "exit" /\ pc'[p] = "exit"
      BY <1>2, <1>4, <3>1 DEF Carcasses
    <3>3. InCPU
      BY <3>1 DEF Resume, ResumeP, Start, InCPU
    <3>4. p # currentThread
      BY <1>1, <3>2, <3>3
    <3>5. CASE mode' = "switch"
      <4>1. status'[currentThread'] = "RUNNING" /\ currentThread' \in Pid
        BY <3>5 DEF QueuesInv, OneRuns, TypeOK
      <4>2. QED
        BY <3>2, <4>1 DEF ExitedAsleep
    <3>6. QED
      BY <3>2, <3>4, <3>5, ModeChanges DEF SwitchOrStay
  <2>3. QED
    BY <2>1, <2>2
<1>10. ASSUME threadToBeDestroyed' # None, mode' \in {"run", "tick"}
       PROVE  pc'[currentThread'] = "start"
  <2>1. /\ UNCHANGED carcassVars /\ ~Resume /\ ~ResumeP /\ ~Start
        /\ threadToBeDestroyed # None
    BY <1>5, <1>10, CarcassChanges DEF DeleteCarcass, carcassVars
  <2>2. mode \in {"run", "tick", "switch"} /\ currentThread' = currentThread
    BY <1>10, ModeChanges DEF SwitchOrStay
  <2>3. CASE mode = "switch"
    <3>1. ResumeFresh \/ UNCHANGED vars
      BY <2>1, <2>3
         DEF Next, Interrupts, TimerInterrupt, WriteDoneInterrupt, InCheckIfDue, TickReturn,
             Idle, IdleReturn, Switched, Boot, FinishThread, Instruction, Syscalls,
             QuickSyscall, SysHalt, SysYield, SysSleep, SysPrint, NextCharacter, PutChar,
             SysFork, SysJoin, SysExit, Exception, Terminated
    <3>2. ~UNCHANGED vars
      BY <1>10, <2>3 DEF vars
    <3>3. QED
      BY <2>2, <3>1, <3>2 DEF ResumeFresh, Continue, TypeOK
  <2>4. CASE mode \in {"run", "tick"}
    <3>1. pc[currentThread] = "start"
      BY <2>1, <2>4 DEF Carcasses
    <3>2. Interrupts \/ UNCHANGED vars
      BY <2>1, <2>4, <3>1
         DEF Next, Switched, ResumeFresh, Boot, FinishThread, Instruction, Syscalls,
             QuickSyscall, SysHalt, SysYield, SysSleep, SysPrint, NextCharacter, PutChar,
             SysFork, SysJoin, SysExit, Exception, Terminated
    <3>3. UNCHANGED pc
      BY <3>2 DEF Interrupts, TimerInterrupt, WriteDoneInterrupt, TickReturn, Idle,
                  IdleReturn, vars
    <3>4. QED
      BY <2>2, <3>1, <3>3
  <2>5. QED
    BY <2>2, <2>3, <2>4
<1>11. QED
  BY <1>7, <1>8, <1>9, <1>10 DEF Carcasses

\* The strengthening of NoLostCarcass and NoDangling is an invariant.
THEOREM ExitInvCorrect == Spec => []ExitInv
<1>1. Init => ExitInv
  BY InitExit
<1>2. TypeOK /\ TypeOK' /\ QueuesInv /\ QueuesInv' /\ JoinInv /\ ExitInv /\ [Next]_vars
        => ExitInv'
  BY AsleepStep, MainStep, CarcassStep DEF ExitInv
<1>3. QED
  BY <1>1, <1>2, TypeCorrect, QueuesInvCorrect, JoinInvCorrect, PTL DEF Spec

\* Every thread that exits is destroyed: threadToBeDestroyed holds one at a time,
\* and none is written over.
THEOREM CarcassCorrect == Spec => []NoLostCarcass
<1>1. TypeOK /\ QueuesInv /\ ExitInv => NoLostCarcass
  BY ExitInvImplies
<1>2. QED
  BY <1>1, TypeCorrect, QueuesInvCorrect, ExitInvCorrect, PTL

\* No thread is used after it is destroyed.
THEOREM DanglingCorrect == Spec => []NoDangling
<1>1. TypeOK /\ QueuesInv /\ ExitInv => NoDangling
  BY ExitInvImplies
<1>2. QED
  BY <1>1, TypeCorrect, QueuesInvCorrect, ExitInvCorrect, PTL

-----------------------------------------------------------------------------
(***************************************************************************)
(* The console and what waits, for every number of threads and every       *)
(* scheduling algorithm.  writeDone lets one character at a time be        *)
(* written.  The sum in                                                    *)
(* OneWriteAtATime is inductive: V adds to value what the end of a write   *)
(* takes from pendingWrites, P moves the unit to a thread at "put", PutChar*)
(* moves it on to pendingWrites.  A fork must not count: the slot of an    *)
(* unborn thread has no place in the code yet.                             *)
(*                                                                         *)
(* That no wakeup is lost and that the machine never idles or halts with   *)
(* work left follow from what each blocked thread waits for: a sleeper is  *)
(* in its list, a thread at P has a write under way to be woken by, and a  *)
(* joiner waits for a child, whose pid is greater than its own.  Of the    *)
(* blocked threads the one with the largest pid therefore does not join.   *)
(***************************************************************************)

\* The inductive strengthening of OneWriteAtATime.
OneWriteInv == TypeOK /\ Unborn /\ OneWriteAtATime

-----------------------------------------------------------------------------
(* What moves the sum *)

LEMMA WritersFinite ==
    ASSUME TypeOK
    PROVE  IsFiniteSet(Writers) /\ Cardinality(Writers) \in Nat
<1>1. IsFiniteSet(Pid)
  BY FS_Interval, CountAssumption DEF Pid
<1>2. Writers \in SUBSET Pid
  BY DEF Writers
<1>3. QED
  BY <1>1, <1>2, FS_Subset, FS_CardinalityType

LEMMA SummandTypes ==
    ASSUME TypeOK
    PROVE  value \in Nat /\ Cardinality(Writers) \in Nat /\ Len(pendingWrites) \in Nat
<1>1. Len(pendingWrites) \in Nat
  BY DEF TypeOK
<1>2. value \in Nat
  BY DEF TypeOK
<1>3. QED
  BY <1>1, <1>2, WritersFinite

\* A thread that goes from one place to another, neither being "put"
LEMMA OtherPlace ==
    ASSUME TypeOK, NEW p \in Pid, NEW k, pc[p] # "put", k # "put",
           pc' = [pc EXCEPT ![p] = k]
    PROVE  Writers' = Writers
BY DEF Writers, TypeOK

LEMMA EntersPut ==
    ASSUME TypeOK, NEW p \in Pid, pc[p] # "put", pc' = [pc EXCEPT ![p] = "put"]
    PROVE  Cardinality(Writers') = Cardinality(Writers) + 1
<1>1. Writers' = Writers \cup {p} /\ p \notin Writers
  BY DEF Writers, TypeOK
<1>2. QED
  BY <1>1, WritersFinite, FS_AddElement

LEMMA LeavesPut ==
    ASSUME TypeOK, NEW p \in Pid, NEW k, pc[p] = "put", k # "put",
           pc' = [pc EXCEPT ![p] = k]
    PROVE  Cardinality(Writers') = Cardinality(Writers) - 1
<1>1. Writers' = Writers \ {p} /\ p \in Writers
  BY DEF Writers, TypeOK
<1>2. QED
  BY <1>1, WritersFinite, FS_RemoveElement

\* An action that leaves the three summands alone
LEMMA SumKept ==
    ASSUME OneWriteInv, Writers' = Writers, value' = value,
           Len(pendingWrites') = Len(pendingWrites)
    PROVE  OneWriteAtATime'
BY DEF OneWriteInv, OneWriteAtATime

\* A turn of the loop in P by a thread that is not at "put"
LEMMA PKeepsSum ==
    ASSUME OneWriteInv, TypeOK', P, pc[currentThread] # "put"
    PROVE  OneWriteAtATime'
<1>1. TypeOK /\ currentThread \in Pid
  BY DEF OneWriteInv, TypeOK
<1>2. CASE value = 0
  <2>1. pc' = [pc EXCEPT ![currentThread] = "P"] /\ UNCHANGED <<value, pendingWrites>>
    BY <1>2 DEF P, Continue
  <2>2. QED
    BY <1>1, <2>1, OtherPlace, SumKept
<1>3. CASE value # 0
  <2>1. /\ pc' = [pc EXCEPT ![currentThread] = "put"] /\ value' = value - 1
        /\ OneTick(SystemTick)
    BY <1>3 DEF P, Continue
  <2>2. Cardinality(Writers') = Cardinality(Writers) + 1
    BY <1>1, <2>1, EntersPut
  <2>3. Len(pendingWrites') = Len(pendingWrites)
    BY <1>1, <2>1, AgeKeepsWrites DEF OneTick
  <2>4. value \in Nat /\ Cardinality(Writers) \in Nat /\ Len(pendingWrites) \in Nat
    BY <1>1, SummandTypes
  <2>5. QED
    BY <1>3, <2>1, <2>2, <2>3, <2>4 DEF OneWriteInv, OneWriteAtATime
<1>4. QED
  BY <1>2, <1>3

-----------------------------------------------------------------------------
(* The invariant *)

LEMMA InitOneWrite == Init => OneWriteInv
<1> SUFFICES ASSUME Init PROVE OneWriteInv
  OBVIOUS
<1>1. TypeOK
  BY InitType
<1>2. Unborn
  BY InitJoin DEF JoinInv
<1>3. OneWriteAtATime
  <2>1. Writers = {} /\ value = 1 /\ Len(pendingWrites) = 0
    BY DEF Init, Writers
  <2>2. QED
    BY <2>1, FS_EmptySet DEF OneWriteAtATime
<1>4. QED
  BY <1>1, <1>2, <1>3 DEF OneWriteInv

\* Every step keeps the sum.
LEMMA OneWriteStep ==
    ASSUME OneWriteInv, TypeOK', [Next]_vars
    PROVE  OneWriteAtATime'
<1> TypeOK /\ currentThread \in Pid
  BY DEF OneWriteInv, TypeOK
<1>1. ASSUME NEW k, Continue(k), pc[currentThread] # "put", k # "put",
             value' = value, Len(pendingWrites') = Len(pendingWrites)
      PROVE  OneWriteAtATime'
  BY <1>1, OtherPlace, SumKept DEF Continue
<1>2. ASSUME UNCHANGED <<pc, value>>, Len(pendingWrites') = Len(pendingWrites)
      PROVE  OneWriteAtATime'
  BY <1>2, SumKept DEF Writers
<1>3. CASE TimerInterrupt
  BY <1>2, <1>3 DEF TimerInterrupt, semaphoreVars
<1>4. CASE WriteDoneInterrupt
  <2>1. value' = value + 1 /\ UNCHANGED pc
    BY <1>4 DEF WriteDoneInterrupt, V
  <2>2. Len(pendingWrites') = Len(pendingWrites) - 1
    BY <1>4 DEF WriteDoneInterrupt, WriteDue, TypeOK
  <2>3. Writers' = Writers
    BY <2>1 DEF Writers
  <2>4. value \in Nat /\ Cardinality(Writers) \in Nat /\ Len(pendingWrites) \in Nat
    BY SummandTypes
  <2>5. QED
    BY <2>1, <2>2, <2>3, <2>4 DEF OneWriteInv, OneWriteAtATime
<1>5. CASE TickReturn
  <2>1. Len(pendingWrites') = Len(pendingWrites)
    BY <1>5, YieldKeepsWrites DEF TickReturn, timeVars
  <2>2. QED
    BY <1>2, <1>5, <2>1 DEF TickReturn, semaphoreVars
<1>6. CASE Idle
  <2>1. Len(pendingWrites') = Len(pendingWrites)
    BY <1>6, AgeKeepsWrites DEF Idle, timeVars
  <2>2. QED
    BY <1>2, <1>6, <2>1 DEF Idle, semaphoreVars
<1>7. CASE IdleReturn
  BY <1>2, <1>7 DEF IdleReturn, semaphoreVars
<1>8. CASE ResumeFresh \/ Boot \/ Instruction
  <2>1. Len(pendingWrites') = Len(pendingWrites)
    BY <1>8, AgeKeepsWrites DEF ResumeFresh, Boot, Instruction, OneTick
  <2>2. QED
    BY <1>1, <1>8, <2>1 DEF ResumeFresh, Boot, Instruction, semaphoreVars
<1>9. CASE Resume
  <2>1. Len(pendingWrites') = Len(pendingWrites)
    BY <1>9, AgeKeepsWrites DEF Resume, OneTick
  <2>2. Writers' = Writers
    BY <1>9 DEF Resume, Continue, AfterSleep, Writers, TypeOK
  <2>3. QED
    BY <1>9, <2>1, <2>2, SumKept DEF Resume, semaphoreVars
<1>10. CASE ResumeP \/ SysPrint \/ NextCharacter
  BY <1>10, PKeepsSum DEF ResumeP, SysPrint, NextCharacter, Exception
<1>11. CASE Start \/ FinishThread \/ QuickSyscall \/ SysSleep
  BY <1>1, <1>11 DEF Start, FinishThread, QuickSyscall, SysSleep, Exception, timeVars,
                     semaphoreVars
<1>12. CASE SysYield
  BY <1>1, <1>12, YieldKeepsWrites DEF SysYield, Exception, semaphoreVars
<1>13. CASE SysHalt
  BY <1>2, <1>13 DEF SysHalt, timeVars, semaphoreVars
<1>14. CASE PutChar
  <2>1. PICK k \in {"return", "print"} : pc' = [pc EXCEPT ![currentThread] = k]
    BY <1>14 DEF PutChar, Continue
  <2>2. Cardinality(Writers') = Cardinality(Writers) - 1
    BY <1>14, <2>1, LeavesPut DEF PutChar
  <2>3. value' = value /\ Len(pendingWrites') = Len(pendingWrites) + 1
    BY <1>14 DEF PutChar, semaphoreVars, TypeOK
  <2>4. value \in Nat /\ Cardinality(Writers) \in Nat /\ Len(pendingWrites) \in Nat
    BY SummandTypes
  <2>5. QED
    BY <2>2, <2>3, <2>4 DEF OneWriteInv, OneWriteAtATime
<1>15. CASE SysFork
  <2>1. CASE UNCHANGED <<pc, timeVars>>
    BY <1>2, <1>15, <2>1 DEF SysFork, timeVars, semaphoreVars
  <2>2. CASE /\ ~TooManyThreads
             /\ pc' = [pc EXCEPT ![thread_index] = "fresh", ![currentThread] = "return"]
             /\ OneTick(SystemTick)
    <3>1. thread_index \in Pid
      BY <2>2, CountAssumption DEF TooManyThreads, TypeOK, Pid
    <3>2. pc[thread_index] = "none"
      BY <3>1 DEF OneWriteInv, Unborn, TypeOK
    <3>3. pc[currentThread] = "user"
      BY <1>15 DEF SysFork, Exception
    <3>4. Writers' = Writers
      BY <2>2, <3>1, <3>2, <3>3 DEF Writers, TypeOK
    <3>5. Len(pendingWrites') = Len(pendingWrites)
      BY <2>2, AgeKeepsWrites DEF OneTick
    <3>6. QED
      BY <1>15, <3>4, <3>5, SumKept DEF SysFork, semaphoreVars
  <2>3. QED
    BY <1>15, <2>1, <2>2 DEF SysFork
<1>16. CASE SysJoin
  <2>1. PICK k \in {"return", "join"} : Continue(k)
    BY <1>16 DEF SysJoin
  <2>2. QED
    BY <1>1, <1>16, <2>1 DEF SysJoin, Exception, semaphoreVars
<1>17. CASE SysExit
  <2>1. Continue("exit") /\ pc[currentThread] = "user" /\ UNCHANGED <<value, pendingWrites>>
    BY <1>17 DEF SysExit, Exception, semaphoreVars
  <2>2. QED
    BY <1>1, <2>1
<1>18. CASE UNCHANGED vars
  BY <1>2, <1>18 DEF vars, timeVars, semaphoreVars
<1>19. QED
  BY <1>3, <1>4, <1>5, <1>6, <1>7, <1>8, <1>9, <1>10, <1>11, <1>12, <1>13, <1>14,
     <1>15, <1>16, <1>17, <1>18
     DEF Next, Interrupts, Switched, Syscalls, Terminated

\* One character at a time: the semaphore is free, or one thread is on its way
\* to PutChar, or one character is being written.
THEOREM OneWriteCorrect == Spec => []OneWriteAtATime
<1>1. Init => OneWriteAtATime
  BY InitOneWrite DEF OneWriteInv
<1>2. TypeOK /\ TypeOK' /\ JoinInv /\ OneWriteAtATime /\ [Next]_vars
        => OneWriteAtATime'
  BY OneWriteStep DEF OneWriteInv, JoinInv
<1>3. QED
  BY <1>1, <1>2, TypeCorrect, JoinInvCorrect, PTL DEF Spec

-----------------------------------------------------------------------------
(* Nobody waits for a character that is not being written *)

\* As long as the semaphore is left alone, a woken thread that has not had its
\* turn cannot be put back on the queue.
LEMMA WokenStays ==
    ASSUME QueuesInv, QueuesInv', NoLostWakeup, UNCHANGED semaphoreVars,
           \A p \in Pid : pc[p] = "P" => pc'[p] = "P"
    PROVE  NoLostWakeup'
<1> SUFFICES ASSUME value > 0, queue # << >>
             PROVE  \E p \in Pid : pc'[p] = "P" /\ status'[p] # "BLOCKED"
  BY DEF NoLostWakeup, semaphoreVars
<1>1. PICK p \in Pid : pc[p] = "P" /\ status[p] # "BLOCKED"
  BY DEF NoLostWakeup
<1>2. p \notin Members(queue) /\ queue' = queue /\ pc'[p] = "P"
  BY <1>1 DEF QueuesInv, BlockedAgree, semaphoreVars
<1>3. status'[p] # "BLOCKED"
  BY <1>2 DEF QueuesInv, BlockedAgree
<1>4. QED
  BY <1>2, <1>3

\* A turn of P takes the only unit there can be, or finds none.
LEMMA PLeavesNone ==
    ASSUME TypeOK, OneWriteAtATime, P
    PROVE  value' = 0
<1>1. value \in Nat /\ Cardinality(Writers) \in Nat /\ Len(pendingWrites) \in Nat
  BY SummandTypes
<1>2. value \in {0, 1}
  BY <1>1 DEF OneWriteAtATime
<1>3. QED
  BY <1>2 DEF P

LEMMA WakeupStep ==
    ASSUME TypeOK, QueuesInv, QueuesInv', JoinInv, OneWriteAtATime, NoLostWakeup, [Next]_vars
    PROVE  NoLostWakeup'
<1>1. CASE ResumeP \/ SysPrint \/ NextCharacter
  <2>1. value' = 0
    BY <1>1, PLeavesNone DEF ResumeP, SysPrint, NextCharacter
  <2>2. QED
    BY <2>1 DEF NoLostWakeup
<1>2. CASE WriteDoneInterrupt
  <2>1. CASE queue = << >>
    BY <1>2, <2>1 DEF WriteDoneInterrupt, V, NoLostWakeup
  <2>2. CASE queue # << >>
    <3> DEFINE h == Head(queue)
    <3>1. h \in Pid /\ h \in Members(queue)
      BY <2>2, TailMembers DEF TypeOK, QueuesInv, BlockedAgree
    <3>2. status' = [status EXCEPT ![h] = "READY"] /\ pc' = pc
      BY <1>2, <2>2 DEF WriteDoneInterrupt, V
    <3> HIDE DEF h
    <3>3. pc'[h] = "P" /\ status'[h] = "READY"
      BY <3>1, <3>2 DEF QueuesInv, BlockedAgree, TypeOK
    <3>4. QED
      BY <3>1, <3>3 DEF NoLostWakeup
  <2>3. QED
    BY <2>1, <2>2
<1>3. CASE ~(ResumeP \/ SysPrint \/ NextCharacter \/ WriteDoneInterrupt)
  <2>1. UNCHANGED semaphoreVars
    <3>1. CASE Interrupts \/ UNCHANGED vars
      BY <1>3, <3>1 DEF Interrupts, TimerInterrupt, TickReturn, Idle, IdleReturn, vars
    <3>2. CASE ResumeFresh \/ Resume \/ Start \/ Boot \/ FinishThread \/ Instruction \/ Syscalls
      BY <1>3, <3>2 DEF ResumeFresh, Resume, Start, Boot, FinishThread, Instruction,
                        Syscalls, QuickSyscall, SysHalt, SysYield, SysSleep, PutChar,
                        SysFork, SysJoin, SysExit
    <3>3. QED
      BY <1>3, <3>1, <3>2 DEF Next, Switched, Terminated
  <2>2. ASSUME NEW p \in Pid, pc[p] = "P" PROVE pc'[p] = "P"
    <3> SUFFICES ASSUME pc'[p] # pc[p] PROVE FALSE
      BY <2>2
    <3>1. CASE p # currentThread
      <4>1. p = thread_index
        BY <3>1, Moves
      <4>2. pc[p] = "none"
        BY <4>1 DEF JoinInv, Unborn, TypeOK
      <4>3. QED
        BY <2>2, <4>2
    <3>2. CASE p = currentThread
      <4>1. Resume \/ UNCHANGED pc
        BY <1>3, <2>2, <3>2
           DEF Next, Interrupts, TimerInterrupt, TickReturn, Idle, IdleReturn, Switched,
               ResumeFresh, Start, Boot, FinishThread, Instruction, Syscalls, QuickSyscall,
               SysHalt, SysYield, SysSleep, PutChar, SysFork, SysJoin, SysExit, Exception,
               Terminated, vars
      <4>2. QED
        BY <2>2, <3>2, <4>1 DEF Resume
    <3>3. QED
      BY <3>1, <3>2
  <2>3. QED
    BY <2>1, <2>2, WokenStays
<1>4. QED
  BY <1>1, <1>2, <1>3

\* A character's end wakes a waiter for good: whenever the semaphore is free and
\* threads sleep on it, one of them has been readied and has its turn to come.
THEOREM WakeupCorrect == Spec => []NoLostWakeup
<1>1. Init => NoLostWakeup
  BY DEF Init, NoLostWakeup
<1>2. TypeOK /\ QueuesInv /\ QueuesInv' /\ JoinInv /\ OneWriteAtATime /\ NoLostWakeup
        /\ [Next]_vars => NoLostWakeup'
  BY WakeupStep
<1>3. QED
  BY <1>1, <1>2, TypeCorrect, QueuesInvCorrect, JoinInvCorrect, OneWriteCorrect, PTL DEF Spec

-----------------------------------------------------------------------------
(* No deadlock, and no halt that leaves threads asleep *)

\* A child has a greater pid than its parent, so joins cannot wait in a circle;
\* a sleeper has made a system call, which leaves a Console that polls; and the
\* process is in "wait" only with nobody ready.
WaitInv ==
    /\ \A p \in Pid : ppid[p] # None => ppid[p] < p
    /\ polling \/ sleepQueue = << >>
    /\ mode = "wait" => readyThreadList = << >>

\* The least-number principle for the pids, upside down
LEMMA LargestPid ==
    ASSUME NEW A \in SUBSET Pid, A # {}
    PROVE  \E p \in A : \A q \in A : q <= p
<1> DEFINE From(p) == p .. MAX_THREAD_COUNT - 1
           Tails == {From(p) : p \in A}
<1>1. IsFiniteSet(Pid) /\ A \subseteq Int
  BY FS_Interval, CountAssumption DEF Pid
<1>2. Tails \subseteq FiniteSubsetsOf(Pid) /\ Tails # {}
  <2>1. \A p \in A : From(p) \in SUBSET Pid
    BY DEF Pid
  <2>2. Tails \in SUBSET SUBSET Pid /\ Tails # {}
    BY <2>1
  <2> HIDE DEF Tails
  <2>3. FiniteSubsetsOf(Pid) = SUBSET Pid
    BY <1>1, FS_FiniteSubsetsOfFinite
  <2>4. QED
    BY <2>2, <2>3
<1>3. PICK x \in Tails : \A y \in Tails : <<y, x>> \notin StrictSubsetOrdering(Pid)
  <2> HIDE DEF Tails
  <2>1. IsWellFoundedOn(StrictSubsetOrdering(Pid), FiniteSubsetsOf(Pid))
    BY FS_StrictSubsetOrderingWellFounded
  <2>2. QED
    BY <1>2, <2>1, WFMin
<1>4. PICK p \in A : x = From(p)
  OBVIOUS
<1>5. ASSUME NEW q \in A, ~(q <= p) PROVE FALSE
  <2>1. From(q) \in Tails /\ From(q) \subseteq From(p) /\ From(q) # From(p)
        /\ From(p) \in SUBSET Pid /\ From(q) \in SUBSET Pid
    BY <1>5, CountAssumption DEF Pid
  <2>2. <<From(q), From(p)>> \in StrictSubsetOrdering(Pid)
    BY <2>1 DEF StrictSubsetOrdering
  <2>3. QED
    BY <1>3, <1>4, <2>1, <2>2
<1>6. QED
  BY <1>4, <1>5

LEMMA InitWait == Init => WaitInv
BY DEF Init, WaitInv

LEMMA WaitStep ==
    ASSUME TypeOK, QueuesInv, JoinInv, WaitInv, [Next]_vars
    PROVE  WaitInv'
<1>1. ASSUME NEW p \in Pid, ppid'[p] # None PROVE ppid'[p] < p
  <2>1. CASE ppid' = ppid
    BY <1>1, <2>1 DEF WaitInv
  <2>2. CASE ppid' # ppid
    <3>1. SysFork /\ ppid' = [ppid EXCEPT ![thread_index] = currentThread]
      <4>1. ~(Interrupts \/ Switched \/ Boot \/ FinishThread \/ Instruction \/ UNCHANGED vars)
        BY <2>2
           DEF Interrupts, TimerInterrupt, WriteDoneInterrupt, TickReturn, Idle, IdleReturn,
               Switched, ResumeFresh, Resume, ResumeP, Start, Boot, FinishThread,
               Instruction, vars, familyVars
      <4>2. SysFork
        BY <2>2, <4>1
           DEF Next, Terminated, Syscalls, QuickSyscall, SysHalt, SysYield, SysSleep,
               SysPrint, NextCharacter, PutChar, SysJoin, SysExit, familyVars
      <4>3. QED
        BY <2>2, <4>2 DEF SysFork, familyVars
    <3>2. InCPU
      BY <3>1 DEF SysFork, Exception, InCPU
    <3>3. currentThread \in Pid /\ ~(currentThread >= thread_index)
      BY <3>2, RunnerFacts DEF QueuesInv, BlockedAgree
    <3>4. currentThread < thread_index
      BY <3>3 DEF TypeOK, Pid
    <3>5. ppid'[p] = IF p = thread_index THEN currentThread ELSE ppid[p]
      BY <3>1 DEF TypeOK
    <3>6. QED
      BY <1>1, <3>4, <3>5 DEF WaitInv
  <2>3. QED
    BY <2>1, <2>2
<1>2. polling' \/ sleepQueue' = << >>
  <2>1. CASE TimerInterrupt
    <3>1. CASE sleepQueue = << >>
      <4>1. PICK n \in 0 .. Len(sleepQueue) :
              sleepQueue' = SubSeq(sleepQueue, n + 1, Len(sleepQueue))
        BY <2>1 DEF TimerInterrupt
      <4>2. Len(sleepQueue) = 0 /\ n = 0
        BY <3>1, <4>1
      <4>3. QED
        BY <3>1, <4>1, <4>2
    <3>2. QED
      BY <2>1, <3>1 DEF TimerInterrupt, WaitInv
  <2>2. CASE ~TimerInterrupt
    <3>1. polling' = polling \/ polling'
      <4>1. CASE Interrupts \/ Switched \/ Boot \/ FinishThread \/ Instruction \/ UNCHANGED vars
        BY <4>1
           DEF Interrupts, TimerInterrupt, WriteDoneInterrupt, TickReturn, Idle, IdleReturn,
               Switched, ResumeFresh, Resume, ResumeP, Start, Boot, FinishThread,
               Instruction, vars
      <4>2. CASE Syscalls
        BY <4>2
           DEF Syscalls, QuickSyscall, SysHalt, SysYield, SysSleep, SysPrint, NextCharacter,
               PutChar, SysFork, SysJoin, SysExit, Exception, NewConsole
      <4>3. QED
        BY <4>1, <4>2 DEF Next, Terminated
    <3>2. sleepQueue' = sleepQueue \/ polling'
      <4>1. CASE Interrupts \/ Switched \/ Boot \/ FinishThread \/ Instruction \/ UNCHANGED vars
        BY <2>2, <4>1
           DEF Interrupts, WriteDoneInterrupt, TickReturn, Idle, IdleReturn,
               Switched, ResumeFresh, Resume, ResumeP, Start, Boot, FinishThread,
               Instruction, vars
      <4>2. CASE Syscalls
        BY <4>2
           DEF Syscalls, QuickSyscall, SysHalt, SysYield, SysSleep, SysPrint, NextCharacter,
               PutChar, SysFork, SysJoin, SysExit, Exception, NewConsole
      <4>3. QED
        BY <4>1, <4>2 DEF Next, Terminated
    <3>3. QED
      BY <3>1, <3>2 DEF WaitInv
  <2>3. QED
    BY <2>1, <2>2
<1>3. ASSUME mode' = "wait" PROVE readyThreadList' = << >>
  <2>1. readyThreadList' = << >> \/ UNCHANGED vars
    BY <1>3, ModeChanges
  <2>2. QED
    BY <1>3, <2>1 DEF WaitInv, vars
<1>4. QED
  BY <1>1, <1>2, <1>3 DEF WaitInv

THEOREM WaitInvCorrect == Spec => []WaitInv
<1>1. Init => WaitInv
  BY InitWait
<1>2. TypeOK /\ QueuesInv /\ JoinInv /\ WaitInv /\ [Next]_vars => WaitInv'
  BY WaitStep
<1>3. QED
  BY <1>1, <1>2, TypeCorrect, QueuesInvCorrect, JoinInvCorrect, PTL DEF Spec

\* With nobody ready and nobody on the sleep queue, a thread in P has a character
\* under way: the semaphore is not free and no thread is at PutChar.  If there is
\* no thread in P either, consider the youngest that has not exited: it joins a
\* child, which is younger and has not exited.
LEMMA SomethingComes ==
    ASSUME TypeOK, QueuesInv, JoinInv, ExitInv, WaitInv, OneWriteAtATime, NoLostWakeup
    PROVE  IdleHasWaker
<1> SUFFICES ASSUME mode = "wait", sleepQueue = << >>, pendingWrites = << >>
             PROVE  Done
  BY DEF IdleHasWaker
<1>1. ASSUME NEW p \in Pid PROVE status[p] \in {"BLOCKED", "JUST_CREATED"}
  <2>1. status[p] # "READY"
    BY DEF WaitInv, QueuesInv, ReadyAgrees, Members
  <2>2. status[p] # "RUNNING"
    BY DEF QueuesInv, OneRuns
  <2>3. QED
    BY <2>1, <2>2 DEF TypeOK, ThreadStatus
<1>2. ASSUME NEW p \in Pid, p < thread_index
      PROVE  status[p] = "BLOCKED" /\ pc[p] \in {"P", "join", "exit"}
  <2>1. status[p] # "JUST_CREATED"
    BY <1>2 DEF QueuesInv, BlockedAgree, TypeOK, Pid
  <2>2. status[p] = "BLOCKED"
    BY <1>1, <2>1
  <2>3. p \notin Members(sleepQueue)
    BY DEF Members
  <2>4. QED
    BY <2>2, <2>3 DEF QueuesInv, BlockedAgree
<1>3. ASSUME NEW p \in Pid, pc[p] \notin {"P", "join", "exit"} PROVE pc[p] = "none"
  <2>1. p >= thread_index
    BY <1>2, <1>3 DEF TypeOK, Pid
  <2>2. QED
    BY <2>1 DEF JoinInv, Unborn
<1>4. Writers = {}
  BY <1>3 DEF Writers
<1>5. value = 1
  <2>1. Cardinality(Writers) = 0 /\ Len(pendingWrites) = 0
    BY <1>4, FS_EmptySet
  <2>2. QED
    BY <2>1 DEF OneWriteAtATime, TypeOK
<1>6. queue = << >>
  <2> SUFFICES ASSUME queue # << >> PROVE FALSE
    OBVIOUS
  <2>1. PICK p \in Pid : pc[p] = "P" /\ status[p] # "BLOCKED"
    BY <1>5 DEF NoLostWakeup
  <2>2. p >= thread_index
    BY <1>2, <2>1 DEF TypeOK, Pid
  <2>3. QED
    BY <2>1, <2>2 DEF JoinInv, Unborn
<1> DEFINE Alive == {p \in Pid : p < thread_index /\ pc[p] # "exit"}
<1>7. Alive = {}
  <2> SUFFICES ASSUME Alive # {} PROVE FALSE
    OBVIOUS
  <2>1. PICK p \in Alive : \A q \in Alive : q <= p
    BY LargestPid
  <2>2. p \in Pid /\ p < thread_index /\ pc[p] # "exit" /\ p # None
    BY ConstantTypes
  <2>3. status[p] = "BLOCKED" /\ pc[p] \in {"P", "join"}
    BY <1>2, <2>2
  <2>4. p \notin Members(queue)
    BY <1>6 DEF Members
  <2>5. pc[p] = "join"
    BY <2>2, <2>3, <2>4 DEF QueuesInv, BlockedAgree
  <2> DEFINE c == whichchild[p]
  <2>6. c \in Pid /\ ppid[c] = p /\ ~exitThreadArray[c]
    BY <2>2, <2>3, <2>5 DEF JoinInv, JoinHandshake, TypeOK, PidOrNone
  <2> HIDE DEF c
  <2>7. p < c
    BY <2>2, <2>6 DEF WaitInv
  <2>8. c < thread_index
    BY <2>2, <2>6 DEF JoinInv, Unborn, TypeOK, Pid
  <2>9. pc[c] # "exit"
    BY <2>2, <2>6, <2>7 DEF ExitInv, MainAlone, Pid
  <2>10. c \in Alive
    BY <2>6, <2>8, <2>9
  <2>11. QED
    BY <2>1, <2>2, <2>6, <2>7, <2>10 DEF Pid
<1>8. ASSUME NEW p \in 0 .. thread_index - 1 PROVE p \in Pid /\ p < thread_index
  BY CountAssumption DEF TypeOK, Pid
<1>9. QED
  BY <1>7, <1>8 DEF Done

\* No deadlock: when no thread can run, a sleeper's time or the end of a console
\* write will ready one, or every thread has exited.
THEOREM IdleCorrect == Spec => []IdleHasWaker
<1>1. TypeOK /\ QueuesInv /\ JoinInv /\ ExitInv /\ WaitInv /\ OneWriteAtATime /\ NoLostWakeup
        => IdleHasWaker
  BY SomethingComes
<1>2. QED
  BY <1>1, TypeCorrect, QueuesInvCorrect, JoinInvCorrect, ExitInvCorrect, WaitInvCorrect,
     OneWriteCorrect, WakeupCorrect, PTL

\* Idle gives up only when nothing but the timer is pending, so nobody sleeps; the
\* last exit finds every exit recorded.
LEMMA HaltStep ==
    ASSUME TypeOK, QueuesInv, JoinInv, JoinInv', WaitInv, IdleHasWaker, HaltMeansDone,
           [Next]_vars
    PROVE  HaltMeansDone'
<1> SUFFICES ASSUME mode' = "halted"
             PROVE  status'[currentThread'] = "RUNNING" \/ Done'
  BY DEF HaltMeansDone
<1>1. CASE Idle
  <2>1. mode = "wait" /\ ~polling /\ pendingWrites = << >>
    BY <1>1 DEF Idle, NotTimerAlone
  <2>2. Done
    BY <2>1 DEF WaitInv, IdleHasWaker
  <2>3. QED
    BY <1>1, <2>2 DEF Idle, Done, familyVars
<1>2. CASE SysHalt
  <2>1. InCPU /\ UNCHANGED <<status, currentThread>>
    BY <1>2 DEF SysHalt, Exception, InCPU
  <2>2. QED
    BY <2>1, RunnerFacts
<1>3. CASE SysExit
  <2>1. \A p \in 0 .. thread_index - 1 : exitThreadArray'[p]
    BY <1>3 DEF SysExit, SelectNext, Dispatch
  <2>2. thread_index' = thread_index /\ 0 .. thread_index - 1 \subseteq Pid
    BY <1>3, CountAssumption DEF SysExit, TypeOK, Pid
  <2>3. QED
    BY <2>1, <2>2 DEF Done, JoinInv, ExitedStay
<1>4. CASE UNCHANGED vars
  BY <1>4 DEF vars, familyVars, HaltMeansDone, Done
<1>5. QED
  BY <1>1, <1>2, <1>3, <1>4, ModeChanges

\* The machine halts because a thread asked for it or because all have exited.
THEOREM HaltCorrect == Spec => []HaltMeansDone
<1>1. Init => HaltMeansDone
  BY DEF Init, HaltMeansDone
<1>2. TypeOK /\ QueuesInv /\ JoinInv /\ JoinInv' /\ WaitInv /\ IdleHasWaker /\ HaltMeansDone
        /\ [Next]_vars => HaltMeansDone'
  BY HaltStep
<1>3. QED
  BY <1>1, <1>2, TypeCorrect, QueuesInvCorrect, JoinInvCorrect, WaitInvCorrect, IdleCorrect,
     PTL DEF Spec

-----------------------------------------------------------------------------
(***************************************************************************)
(* The timer handler looks at the head of the sleep queue only, and stops  *)
(* at the first sleeper whose time has not come.  That it readies all the  *)
(* others whose time has come (WokenOnTime) rests on the order of the      *)
(* queue, which each insertion keeps because SortedInsert compares times   *)
(* that age together.                                                      *)
(***************************************************************************)

Sorted == \A i, j \in DOMAIN sleepQueue :
              i < j => wakeIn[sleepQueue[i]] <= wakeIn[sleepQueue[j]]

\* Time passes for all sleepers alike, or for none.
SleepersAge == \E d \in Nat : \A p \in Members(sleepQueue) : wakeIn'[p] = wakeIn[p] - d

LEMMA AgeSleepers ==
    ASSUME TypeOK, NEW b \in Nat, NEW d \in Nat, Age(b, d)
    PROVE  SleepersAge /\ timerIn' <= timerIn
<1>1. \A p \in Members(sleepQueue) : p \in Pid
  BY DEF Members, TypeOK
<1>2. \A p \in Members(sleepQueue) : wakeIn'[p] = wakeIn[p] - d
  BY <1>1 DEF Age
<1>3. SleepersAge
  BY <1>2 DEF SleepersAge
<1>4. QED
  BY <1>3, AgeSlice

LEMMA StillSleepers ==
    ASSUME TypeOK, UNCHANGED <<wakeIn, timerIn>>
    PROVE  SleepersAge /\ timerIn' <= timerIn
<1>1. \A p \in Members(sleepQueue) : wakeIn'[p] = wakeIn[p] - 0
  BY DEF Members, TypeOK
<1>2. 0 \in Nat /\ timerIn \in Int
  BY DEF TypeOK
<1>3. QED
  BY <1>1, <1>2 DEF SleepersAge

LEMMA TickSleepers ==
    ASSUME TypeOK, NEW d \in Nat, OneTick(d)
    PROVE  SleepersAge /\ timerIn' <= timerIn
BY AgeSleepers DEF OneTick, TypeOK

LEMMA YieldSleepers ==
    ASSUME TypeOK, YieldCPU
    PROVE  SleepersAge /\ timerIn' <= timerIn
<1>1. CASE UNCHANGED <<wakeIn, timerIn>>
  BY <1>1, StillSleepers
<1>2. CASE Age(0, SystemTick)
  BY <1>2, AgeSleepers, TickAssumption
<1>3. QED
  BY <1>1, <1>2 DEF YieldCPU, timeVars

\* No other step touches the queue, and none but the timer's sets the timer.
LEMMA OthersAge ==
    ASSUME TypeOK, [Next]_vars, ~TimerInterrupt, ~SysSleep
    PROVE  sleepQueue' = sleepQueue /\ SleepersAge /\ timerIn' <= timerIn
<1>1. sleepQueue' = sleepQueue
  <2>1. CASE Interrupts
    BY <2>1 DEF Interrupts, WriteDoneInterrupt, TickReturn, Idle, IdleReturn
  <2>2. CASE Switched \/ Boot \/ FinishThread \/ Instruction \/ UNCHANGED vars
    BY <2>2 DEF Switched, ResumeFresh, Resume, ResumeP, Start, Boot, FinishThread,
                Instruction, vars
  <2>3. CASE Syscalls
    BY <2>3 DEF Syscalls, QuickSyscall, SysHalt, SysYield, SysPrint, NextCharacter,
                PutChar, SysFork, SysJoin, SysExit
  <2>4. QED
    BY <2>1, <2>2, <2>3 DEF Next, Terminated
<1>2. CASE WriteDoneInterrupt \/ IdleReturn \/ Start \/ FinishThread \/ QuickSyscall
           \/ SysHalt \/ PutChar \/ SysJoin \/ SysExit \/ UNCHANGED vars
  <2>1. UNCHANGED <<wakeIn, timerIn>>
    BY <1>2 DEF WriteDoneInterrupt, IdleReturn, Start, FinishThread, QuickSyscall, SysHalt,
                PutChar, SysJoin, SysExit, vars, timeVars
  <2>2. QED
    BY <1>1, <2>1, StillSleepers
<1>3. CASE TickReturn \/ SysYield
  <2>1. YieldCPU \/ UNCHANGED <<wakeIn, timerIn>>
    BY <1>3 DEF TickReturn, SysYield, timeVars
  <2>2. QED
    BY <1>1, <2>1, YieldSleepers, StillSleepers
<1>4. CASE Idle
  <2>1. CASE NotTimerAlone
    <3> DEFINE d == IF NextDue > 0 THEN NextDue ELSE 0
    <3>1. NextDue \in Int
      BY DEF NextDue, TypeOK
    <3>2. Age(burst, d) /\ d \in Nat /\ burst \in Nat
      BY <1>4, <2>1, <3>1 DEF Idle, TypeOK
    <3> HIDE DEF d
    <3>3. QED
      BY <1>1, <3>2, AgeSleepers
  <2>2. CASE ~NotTimerAlone
    <3>1. UNCHANGED <<wakeIn, timerIn>>
      BY <1>4, <2>2 DEF Idle, timeVars
    <3>2. QED
      BY <1>1, <3>1, StillSleepers
  <2>3. QED
    BY <2>1, <2>2
<1>5. CASE ResumeFresh \/ Resume \/ Boot \/ Instruction
  <2>1. OneTick(UserTick) \/ OneTick(SystemTick)
    BY <1>5 DEF ResumeFresh, Resume, Boot, Instruction
  <2>2. QED
    BY <1>1, <2>1, TickSleepers, TickAssumption
<1>6. CASE ResumeP \/ SysPrint \/ NextCharacter
  <2>1. P
    BY <1>6 DEF ResumeP, SysPrint, NextCharacter
  <2>2. OneTick(SystemTick) \/ UNCHANGED <<wakeIn, timerIn>>
    BY <2>1 DEF P
  <2>3. QED
    BY <1>1, <2>2, TickSleepers, StillSleepers, TickAssumption
<1>7. CASE SysFork
  <2>1. OneTick(SystemTick) \/ UNCHANGED <<wakeIn, timerIn>>
    BY <1>7 DEF SysFork, timeVars
  <2>2. QED
    BY <1>1, <2>1, TickSleepers, StillSleepers, TickAssumption
<1>8. QED
  BY <1>2, <1>3, <1>4, <1>5, <1>6, <1>7 DEF Next, Interrupts, Switched, Syscalls, Terminated

\* SortedInsertInWaitQueue puts a thread after those that wake no later than it.
LEMMA InsertSorted ==
    ASSUME TypeOK, QueuesInv, Sorted, SysSleep
    PROVE  Sorted' /\ timerIn' = timerIn
<1>1. PICK t \in SleepTimes, n \in 0 .. Len(sleepQueue) :
        /\ InsertAfter(n, t)
        /\ sleepQueue' = [i \in 1 .. Len(sleepQueue) + 1 |->
                            IF i <= n THEN sleepQueue[i]
                            ELSE IF i = n + 1 THEN currentThread
                            ELSE sleepQueue[i - 1]]
        /\ wakeIn' = [wakeIn EXCEPT ![currentThread] = t]
  BY DEF SysSleep
<1>2. /\ t \in Int /\ n \in Int /\ Len(sleepQueue) \in Nat
      /\ DOMAIN sleepQueue = 1 .. Len(sleepQueue)
      /\ \A i \in 1 .. Len(sleepQueue) : sleepQueue[i] \in Pid
      /\ wakeIn \in [Pid -> Int]
  BY TickAssumption DEF TypeOK
<1>3. currentThread \in Pid /\ currentThread \notin Members(sleepQueue)
  <2>1. InCPU
    BY DEF SysSleep, InCPU
  <2>2. QED
    BY <2>1, RunnerFacts
<1> DEFINE w(i) == wakeIn[sleepQueue[i]]
           at(i) == wakeIn'[sleepQueue'[i]]
<1>4. \A i \in 1 .. Len(sleepQueue) : wakeIn'[sleepQueue[i]] = w(i) /\ w(i) \in Int
  BY <1>1, <1>2, <1>3 DEF Members
<1>5. /\ DOMAIN sleepQueue' = 1 .. Len(sleepQueue) + 1
      /\ \A i \in 1 .. Len(sleepQueue) + 1 :
           at(i) = IF i <= n THEN w(i) ELSE IF i = n + 1 THEN t ELSE w(i - 1)
  <2>1. wakeIn'[currentThread] = t
    BY <1>1, <1>2, <1>3
  <2>2. QED
    BY <1>1, <1>2, <1>4, <2>1
<1>6. \A i, j \in 1 .. Len(sleepQueue) : i < j => w(i) <= w(j)
  BY <1>2 DEF Sorted
<1>7. /\ \A i \in 1 .. n : w(i) <= t
      /\ n < Len(sleepQueue) => w(n + 1) > t
  BY <1>1 DEF InsertAfter
<1> HIDE DEF w, at
<1>8. \A i \in 1 .. Len(sleepQueue) : i > n => w(i) > t
  <2> SUFFICES ASSUME NEW i \in 1 .. Len(sleepQueue), i > n PROVE w(i) > t
    OBVIOUS
  <2>1. n + 1 \in 1 .. Len(sleepQueue) /\ w(n + 1) > t
    BY <1>2, <1>7
  <2>2. w(n + 1) <= w(i)
    <3>1. CASE i = n + 1
      BY <1>2, <1>4, <2>1, <3>1
    <3>2. CASE i > n + 1
      BY <1>2, <1>6, <2>1, <3>2
    <3>3. QED
      BY <1>2, <3>1, <3>2
  <2>3. QED
    BY <1>2, <1>4, <2>1, <2>2
<1>9. ASSUME NEW i \in 1 .. Len(sleepQueue) + 1, NEW j \in 1 .. Len(sleepQueue) + 1, i < j
      PROVE  at(i) <= at(j)
  <2>1. CASE j <= n
    BY <1>2, <1>5, <1>6, <1>9, <2>1
  <2>2. CASE j = n + 1
    BY <1>2, <1>5, <1>7, <1>9, <2>2
  <2>3. CASE j > n + 1
    <3>1. j - 1 \in 1 .. Len(sleepQueue) /\ j - 1 > n /\ at(j) = w(j - 1)
      BY <1>2, <1>5, <2>3
    <3>2. CASE i <= n
      <4>1. i \in 1 .. Len(sleepQueue) /\ i < j - 1 /\ at(i) = w(i)
        BY <1>2, <1>5, <1>9, <3>1, <3>2
      <4>2. QED
        BY <1>6, <3>1, <4>1
    <3>3. CASE i = n + 1
      <4>1. at(i) = t /\ w(j - 1) > t /\ w(j - 1) \in Int
        BY <1>2, <1>4, <1>5, <1>8, <3>1, <3>3
      <4>2. QED
        BY <1>2, <3>1, <4>1
    <3>4. CASE i > n + 1
      <4>1. i - 1 \in 1 .. Len(sleepQueue) /\ i - 1 < j - 1 /\ at(i) = w(i - 1)
        BY <1>2, <1>5, <1>9, <3>1, <3>4
      <4>2. QED
        BY <1>6, <3>1, <4>1
    <3>5. QED
      BY <1>2, <3>2, <3>3, <3>4
  <2>4. QED
    BY <1>2, <2>1, <2>2, <2>3
<1>10. Sorted'
  BY <1>5, <1>9 DEF Sorted, at
<1>11. QED
  BY <1>10 DEF SysSleep

\* The handler takes the sleepers up to the first whose time has not come, and
\* those are all whose time has come.
LEMMA TimerWakes ==
    ASSUME TypeOK, QueuesInv, Sorted, TimerInterrupt
    PROVE  /\ Sorted'
           /\ \A p \in Members(sleepQueue) : p \in Members(sleepQueue') <=> wakeIn[p] > 0
<1>1. PICK n \in 0 .. Len(sleepQueue) :
        /\ \A i \in 1 .. n : SleeperDue(sleepQueue[i])
        /\ n < Len(sleepQueue) => ~SleeperDue(sleepQueue[n + 1])
        /\ sleepQueue' = SubSeq(sleepQueue, n + 1, Len(sleepQueue))
        /\ wakeIn' = [p \in Pid |-> IF p \in Members(SubSeq(sleepQueue, 1, n))
                                    THEN 0 ELSE wakeIn[p]]
  BY DEF TimerInterrupt
<1> DEFINE woken == SubSeq(sleepQueue, 1, n)
<1>2. sleepQueue \in Seq(Pid) /\ NoDuplicates(sleepQueue)
  BY DEF TypeOK, QueuesInv, BlockedAgree
<1>3. /\ n \in Int /\ Len(sleepQueue) \in Nat
      /\ DOMAIN sleepQueue = 1 .. Len(sleepQueue)
      /\ \A i \in 1 .. Len(sleepQueue) : sleepQueue[i] \in Pid
      /\ wakeIn \in [Pid -> Int]
  BY <1>2 DEF TypeOK
<1>4. Members(sleepQueue') = Members(sleepQueue) \ Members(woken)
  BY <1>1, <1>2, CutMembers
<1>5. DOMAIN woken = 1 .. n /\ \A i \in 1 .. n : woken[i] = sleepQueue[i]
  BY <1>2, <1>3, SMTT(60)
<1>6. /\ DOMAIN sleepQueue' = 1 .. Len(sleepQueue) - n
      /\ \A i \in 1 .. Len(sleepQueue) - n : sleepQueue'[i] = sleepQueue[n + i]
  BY <1>1, <1>2, <1>3
<1>7. wakeIn' = [p \in Pid |-> IF p \in Members(woken) THEN 0 ELSE wakeIn[p]]
  BY <1>1
<1> HIDE DEF woken
<1>8. \A i \in 1 .. Len(sleepQueue) : sleepQueue[i] \in Members(woken) <=> i <= n
  <2> SUFFICES ASSUME NEW i \in 1 .. Len(sleepQueue)
               PROVE  sleepQueue[i] \in Members(woken) <=> i <= n
    OBVIOUS
  <2>1. ASSUME i <= n PROVE sleepQueue[i] \in Members(woken)
    <3>1. i \in DOMAIN woken /\ woken[i] = sleepQueue[i]
      BY <1>3, <1>5, <2>1
    <3>2. QED
      BY <3>1 DEF Members
  <2>2. ASSUME sleepQueue[i] \in Members(woken) PROVE i <= n
    <3>1. PICK j \in DOMAIN woken : woken[j] = sleepQueue[i]
      BY <2>2 DEF Members
    <3>2. j \in 1 .. n /\ sleepQueue[j] = sleepQueue[i]
      BY <1>5, <3>1
    <3>3. i \in DOMAIN sleepQueue /\ j \in DOMAIN sleepQueue
      BY <1>3, <3>2
    <3>4. NoDuplicates(sleepQueue)
      BY <1>2
    <3>5. j = i
      BY <3>2, <3>3, <3>4, Zenon DEF NoDuplicates
    <3>6. QED
      BY <1>3, <3>2, <3>5
  <2>3. QED
    BY <2>1, <2>2
<1>9. \A i \in 1 .. Len(sleepQueue) : i > n => wakeIn[sleepQueue[i]] > 0
  <2> SUFFICES ASSUME NEW i \in 1 .. Len(sleepQueue), i > n PROVE wakeIn[sleepQueue[i]] > 0
    OBVIOUS
  <2>1. n + 1 \in 1 .. Len(sleepQueue) /\ wakeIn[sleepQueue[n + 1]] > 0
    BY <1>1, <1>3 DEF SleeperDue
  <2>2. i = n + 1 \/ wakeIn[sleepQueue[n + 1]] <= wakeIn[sleepQueue[i]]
    BY <1>3, <2>1 DEF Sorted
  <2>3. QED
    BY <1>3, <2>1, <2>2
<1>10. \A i \in 1 .. Len(sleepQueue) : i <= n => ~(wakeIn[sleepQueue[i]] > 0)
  BY <1>1, <1>3 DEF SleeperDue
<1>11. \A p \in Members(sleepQueue) : p \in Members(sleepQueue') <=> wakeIn[p] > 0
  <2> SUFFICES ASSUME NEW i \in 1 .. Len(sleepQueue)
               PROVE  sleepQueue[i] \in Members(sleepQueue') <=> wakeIn[sleepQueue[i]] > 0
    BY <1>3 DEF Members
  <2>1. sleepQueue[i] \in Members(sleepQueue') <=> sleepQueue[i] \notin Members(woken)
    BY <1>3, <1>4 DEF Members
  <2>2. QED
    BY <1>3, <1>8, <1>9, <1>10, <2>1
<1>12. \A i \in 1 .. Len(sleepQueue) - n : wakeIn'[sleepQueue'[i]] = wakeIn[sleepQueue[n + i]]
  <2> SUFFICES ASSUME NEW i \in 1 .. Len(sleepQueue) - n
               PROVE  wakeIn'[sleepQueue'[i]] = wakeIn[sleepQueue[n + i]]
    OBVIOUS
  <2>1. n + i \in 1 .. Len(sleepQueue) /\ ~(n + i <= n)
    BY <1>1, <1>3
  <2>2. sleepQueue'[i] = sleepQueue[n + i] /\ sleepQueue[n + i] \in Pid
    BY <1>3, <1>6, <2>1
  <2>3. sleepQueue[n + i] \notin Members(woken)
    BY <1>8, <2>1
  <2>4. QED
    BY <1>7, <2>2, <2>3
<1>13. Sorted'
  <2> SUFFICES ASSUME NEW i \in DOMAIN sleepQueue', NEW j \in DOMAIN sleepQueue', i < j
               PROVE  wakeIn'[sleepQueue'[i]] <= wakeIn'[sleepQueue'[j]]
    BY DEF Sorted
  <2>1. /\ i \in 1 .. Len(sleepQueue) - n /\ j \in 1 .. Len(sleepQueue) - n
        /\ n + i \in DOMAIN sleepQueue /\ n + j \in DOMAIN sleepQueue /\ n + i < n + j
    BY <1>1, <1>3, <1>6
  <2>2. wakeIn[sleepQueue[n + i]] <= wakeIn[sleepQueue[n + j]]
    BY <2>1 DEF Sorted
  <2>3. QED
    BY <1>12, <2>1, <2>2
<1>14. QED
  BY <1>11, <1>13

LEMMA SortedStep ==
    ASSUME TypeOK, TypeOK', QueuesInv, Sorted, [Next]_vars
    PROVE  /\ Sorted'
           /\ timerIn' > timerIn =>
                \A p \in Members(sleepQueue) : p \in Members(sleepQueue') <=> wakeIn[p] > 0
<1>1. timerIn \in Int
  BY DEF TypeOK
<1>2. CASE TimerInterrupt
  BY <1>2, TimerWakes
<1>3. CASE SysSleep
  BY <1>1, <1>3, InsertSorted
<1>4. CASE ~TimerInterrupt /\ ~SysSleep
  <2>1. sleepQueue' = sleepQueue /\ SleepersAge /\ timerIn' <= timerIn
    BY <1>4, OthersAge
  <2>2. PICK d \in Nat : \A p \in Members(sleepQueue) : wakeIn'[p] = wakeIn[p] - d
    BY <2>1 DEF SleepersAge
  <2>3. \A i \in DOMAIN sleepQueue : /\ wakeIn'[sleepQueue[i]] = wakeIn[sleepQueue[i]] - d
                                     /\ wakeIn[sleepQueue[i]] \in Int
    BY <2>2 DEF Members, TypeOK
  <2>4. Sorted'
    BY <2>1, <2>3 DEF Sorted
  <2>5. timerIn' \in Int
    BY DEF TypeOK
  <2>6. QED
    BY <1>1, <2>1, <2>4, <2>5
<1>5. QED
  BY <1>2, <1>3, <1>4

\* The sleep queue is in the order of the times at which its threads wake.
THEOREM SortedCorrect == Spec => []Sorted
<1>1. Init => Sorted
  BY DEF Init, Sorted
<1>2. TypeOK /\ TypeOK' /\ QueuesInv /\ Sorted /\ [Next]_vars => Sorted'
  BY SortedStep
<1>3. QED
  BY <1>1, <1>2, TypeCorrect, QueuesInvCorrect, PTL DEF Spec

\* Each timer interrupt readies exactly the sleepers whose time has come, however
\* many sleep and in whatever order they went to sleep.
THEOREM WokenCorrect == Spec => WokenOnTime
<1>1. TypeOK /\ TypeOK' /\ QueuesInv /\ Sorted /\ [Next]_vars =>
        [timerIn' > timerIn =>
           \A p \in Members(sleepQueue) : p \in Members(sleepQueue') <=> wakeIn[p] > 0]_vars
  BY SortedStep
<1>2. QED
  BY <1>1, TypeCorrect, QueuesInvCorrect, SortedCorrect, PTL DEF Spec, WokenOnTime
=============================================================================
