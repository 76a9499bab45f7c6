-------------------------- MODULE RefinementProofs --------------------------
(***************************************************************************)
(* The thread system implements Processes (ImplementsProcesses), for every *)
(* number of threads and every scheduling algorithm.  The queue and join   *)
(* invariants say what a step does to the sleepers; the rest is that an    *)
(* exited thread never leaves BLOCKED, and that main, which ends without   *)
(* recording its exit, is nobody's child.                                  *)
(***************************************************************************)
EXTENDS ThreadsRefineProcesses, WaitingProofs

ExitedBlocked == \A p \in Pid : pc[p] = "exit" => status[p] = "BLOCKED"

MainIsRoot ==
    \A p \in Pid : ppid[p] # None =>
        pc[p] \notin {"boot", "main"} /\ (pc[p] = "exit" => exitThreadArray[p])

FamilyInv == ExitedBlocked /\ MainIsRoot

\* What the mapped step may rely on
AllInv == TypeOK /\ QueuesInv /\ JoinInv /\ FamilyInv

-----------------------------------------------------------------------------
(* The family invariant *)

LEMMA FamilyStep ==
    ASSUME TypeOK, TypeOK', QueuesInv, QueuesInv', JoinInv, FamilyInv, [Next]_vars
    PROVE  FamilyInv'
<1> DEFINE c == currentThread
<1>1. c \in Pid /\ c # None
  BY ConstantTypes DEF TypeOK
<1>2. CASE UnqueuedKept /\ UNCHANGED <<pc, ppid, exitThreadArray>>
  BY <1>2 DEF FamilyInv, ExitedBlocked, MainIsRoot, UnqueuedKept
<1>3. ASSUME UnqueuedKept, UNCHANGED <<ppid, exitThreadArray>>,
             NEW k \in PC, pc' = [pc EXCEPT ![c] = k],
             k = "exit" => pc[c] = "exit" \/ status'[c] = "BLOCKED",
             k \in {"boot", "main", "exit"} => pc[c] = k \/ pc[c] \in {"boot", "main"}
      PROVE  FamilyInv'
  <2>1. \A p \in Pid : pc'[p] = IF p = c THEN k ELSE pc[p]
    BY <1>3 DEF TypeOK
  <2>2. ExitedBlocked'
    BY <1>3, <2>1 DEF FamilyInv, ExitedBlocked, UnqueuedKept
  <2>3. MainIsRoot'
    BY <1>3, <2>1 DEF FamilyInv, MainIsRoot
  <2>4. QED
    BY <2>2, <2>3 DEF FamilyInv
<1>4. CASE SysExit
  <2>1. /\ UNCHANGED ppid /\ status'[c] = "BLOCKED"
        /\ \A p \in Pid : pc'[p] = IF p = c THEN "exit" ELSE pc[p]
        /\ \A p \in Pid : exitThreadArray'[p] = IF p = c THEN TRUE ELSE exitThreadArray[p]
    BY <1>4, ExitAgrees DEF SysExit, Continue, TypeOK
  <2>2. \A p \in Pid \ {c} : status'[p] = "BLOCKED" <=> status[p] = "BLOCKED" /\ ~ExitWakes(p)
    BY <1>4, ExitAgrees
  <2>3. \A p \in Pid : ExitWakes(p) => pc[p] # "exit"
    BY <1>1 DEF ExitWakes, WaitsFor, QueuesInv, JoinersSleep
  <2>4. ExitedBlocked'
    BY <2>1, <2>2, <2>3 DEF FamilyInv, ExitedBlocked
  <2>5. MainIsRoot'
    BY <2>1 DEF FamilyInv, MainIsRoot
  <2>6. QED
    BY <2>4, <2>5 DEF FamilyInv
<1>5. CASE UnqueuedKept /\ SysFork
  <2>1. CASE UNCHANGED <<pc, familyVars>>
    BY <1>2, <1>5, <2>1 DEF familyVars
  <2>2. CASE /\ ~TooManyThreads
             /\ ppid' = [ppid EXCEPT ![thread_index] = c]
             /\ pc' = [pc EXCEPT ![thread_index] = "fresh", ![c] = "return"]
             /\ UNCHANGED <<exitThreadArray, exitedChild, waitchild_id, whichchild>>
    <3>1. \A p \in Pid : pc'[p] = IF p = c THEN "return"
                                  ELSE IF p = thread_index THEN "fresh" ELSE pc[p]
      BY <2>2 DEF TypeOK
    <3>2. (\A p \in Pid \ {thread_index} : ppid'[p] = ppid[p]) /\ UNCHANGED exitThreadArray
      BY <2>2 DEF TypeOK
    <3>3. ExitedBlocked'
      BY <1>5, <3>1 DEF FamilyInv, ExitedBlocked, UnqueuedKept
    <3>4. MainIsRoot'
      BY <3>1, <3>2 DEF FamilyInv, MainIsRoot
    <3>5. QED
      BY <3>3, <3>4 DEF FamilyInv
  <2>3. QED
    BY <1>5, <2>1, <2>2 DEF SysFork
<1>6. CASE UnqueuedKept /\ (Interrupts \/ SysHalt \/ UNCHANGED vars)
  <2>1. UNCHANGED <<pc, ppid, exitThreadArray>>
    BY <1>6 DEF Interrupts, TimerInterrupt, WriteDoneInterrupt, TickReturn, Idle, IdleReturn,
                SysHalt, vars, familyVars
  <2>2. QED
    BY <1>2, <1>6, <2>1
<1>7. CASE UnqueuedKept /\ FinishThread
  <2>1. /\ UNCHANGED <<ppid, exitThreadArray>> /\ pc' = [pc EXCEPT ![c] = "exit"]
        /\ pc[c] = "main"
    BY <1>7 DEF FinishThread, Continue, familyVars
  <2>2. status'[c] = "BLOCKED"
    BY <1>7, FinishAgrees DEF BlockedKept
  <2>3. QED
    BY <1>3, <1>7, <2>1, <2>2 DEF PC
<1>8. CASE UnqueuedKept /\ Boot
  BY <1>3, <1>8 DEF Boot, Continue, familyVars, PC
<1>9. CASE UnqueuedKept /\ (ResumeFresh \/ Start \/ Instruction \/ QuickSyscall \/ SysYield
                           \/ SysSleep \/ PutChar \/ ResumeP \/ SysPrint \/ NextCharacter)
  <2>1. UNCHANGED <<ppid, exitThreadArray>>
    BY <1>9 DEF ResumeFresh, Start, Instruction, QuickSyscall, SysYield, SysSleep,
                PutChar, ResumeP, SysPrint, NextCharacter, familyVars
  <2>2. PICK k \in {"start", "user", "return", "sleep", "print", "P", "put"} : Continue(k)
    BY <1>9 DEF ResumeFresh, Start, Instruction, QuickSyscall, SysYield, SysSleep, PutChar,
                ResumeP, SysPrint, NextCharacter, P
  <2>3. QED
    BY <1>3, <1>9, <2>1, <2>2 DEF Continue, PC
<1>10. CASE UnqueuedKept /\ Resume
  <2>1. UNCHANGED <<ppid, exitThreadArray>>
    BY <1>10 DEF Resume
  <2>2. PICK k \in AfterSleep(pc[c]) : pc' = [pc EXCEPT ![c] = k]
    BY <1>10 DEF Resume, Continue
  <2>3. k \in PC /\ (k \in {"boot", "main", "exit"} => k = pc[c])
    BY <1>1, <2>2 DEF AfterSleep, TypeOK, PC
  <2>4. QED
    BY <1>3, <1>10, <2>1, <2>2, <2>3
<1>11. CASE UnqueuedKept /\ SysJoin
  <2>1. UNCHANGED <<ppid, exitThreadArray>>
    BY <1>11 DEF SysJoin
  <2>2. PICK k \in {"return", "join"} : Continue(k)
    BY <1>11 DEF SysJoin
  <2>3. QED
    BY <1>3, <1>11, <2>1, <2>2 DEF Continue, PC
<1>12. SysExit \/ UnqueuedKept
  BY QueuesStep
<1>13. QED
  BY <1>4, <1>5, <1>6, <1>7, <1>8, <1>9, <1>10, <1>11, <1>12
     DEF Next, Switched, Syscalls, Terminated

LEMMA InitFamily == Init => FamilyInv
BY DEF Init, FamilyInv, ExitedBlocked, MainIsRoot

-----------------------------------------------------------------------------
(* What becomes of one life *)

Runs(st, m) == st = "RUNNING" /\ m # "switch"

LEMMA LifeAt ==
    \A p \in Pid : /\ life[p] = LifeOf(status[p], pc[p], mode)
                   /\ life'[p] = LifeOf(status'[p], pc'[p], mode')
BY DEF life

LEMMA LifeExcept ==
    ASSUME NEW c \in Pid, NEW v, \A p \in Pid : life'[p] = IF p = c THEN v ELSE life[p]
    PROVE  life' = [life EXCEPT ![c] = v]
BY DEF life

LEMMA LifeSame ==
    ASSUME \A p \in Pid : life'[p] = life[p]
    PROVE  life' = life
BY DEF life

\* Neither born, nor exiting, nor falling asleep or waking, nor getting or
\* leaving the CPU
LEMMA LifeKept ==
    ASSUME TypeOK, TypeOK', QueuesInv, QueuesInv', NEW p \in Pid,
           UNCHANGED thread_index, pc'[p] = "exit" <=> pc[p] = "exit",
           status'[p] = "BLOCKED" <=> status[p] = "BLOCKED",
           Runs(status'[p], mode') <=> Runs(status[p], mode)
    PROVE  life'[p] = life[p]
<1>1. status[p] = "JUST_CREATED" <=> status'[p] = "JUST_CREATED"
  BY DEF QueuesInv, BlockedAgree
<1>2. status[p] \in ThreadStatus /\ status'[p] \in ThreadStatus
  BY DEF TypeOK
<1>3. QED
  BY <1>1, <1>2, LifeAt DEF LifeOf, Runs, ThreadStatus

\* While a switch is under way, or the machine idles, nobody runs.
LEMMA NobodyRuns ==
    ASSUME TypeOK, QueuesInv, mode \in {"switch", "wait", "idle"}, NEW p \in Pid
    PROVE  ~Runs(status[p], mode)
BY DEF QueuesInv, OneRuns, Runs

LEMMA OthersDoNotRun ==
    ASSUME QueuesInv, NEW p \in Pid \ {currentThread}
    PROVE  ~Runs(status[p], mode)
BY DEF QueuesInv, OneRuns, Runs

LEMMA SelectNextMode ==
    ASSUME NEW r, NEW st, SelectNext(r, st)
    PROVE  mode' \in {"switch", "wait"}
BY DEF SelectNext, Dispatch

\* The current thread goes to sleep or exits; nobody else's life changes.
LEMMA LeavesCPU ==
    ASSUME AllInv, TypeOK', QueuesInv', InCPU, PutThreadToSleep, BlockedKept,
           UNCHANGED thread_index, NEW k, pc' = [pc EXCEPT ![currentThread] = k]
    PROVE  life' = [life EXCEPT ![currentThread] = IF k = "exit" THEN "gone" ELSE "asleep"]
<1> DEFINE c == currentThread
<1>1. c \in Pid /\ mode' \in {"switch", "wait"}
  BY SelectNextMode DEF PutThreadToSleep, AllInv, TypeOK
<1>2. \A p \in Pid : pc'[p] = IF p = c THEN k ELSE pc[p]
  BY DEF AllInv, TypeOK
<1>3. ASSUME NEW p \in Pid \ {c} PROVE life'[p] = life[p]
  <2>1. ~Runs(status[p], mode)
    BY <1>3, OthersDoNotRun DEF AllInv
  <2>2. ~Runs(status'[p], mode')
    BY <1>1 DEF QueuesInv, OneRuns, Runs
  <2>3. QED
    BY <1>2, <1>3, <2>1, <2>2, LifeKept DEF AllInv, BlockedKept
<1>4. life'[c] = IF k = "exit" THEN "gone" ELSE "asleep"
  BY <1>1, <1>2, LifeAt DEF BlockedKept, LifeOf
<1>5. QED
  BY <1>1, <1>3, <1>4, LifeExcept

\* A thread that has the CPU is running, or ready if its switch is not complete.
LEMMA RunnerLives ==
    ASSUME AllInv, InCPU
    PROVE  /\ currentThread \in Pid
           /\ pc[currentThread] # "exit"
           /\ life[currentThread] = IF mode = "switch" THEN "ready" ELSE "running"
<1>1. currentThread \in Pid /\ status[currentThread] = "RUNNING"
  BY RunnerFacts DEF AllInv
<1>2. pc[currentThread] # "exit"
  BY <1>1 DEF AllInv, FamilyInv, ExitedBlocked
<1>3. QED
  BY <1>1, <1>2, LifeAt DEF LifeOf
-----------------------------------------------------------------------------
(* What each action is in Processes *)

\* Nothing: the same threads sleep, and the CPU has the same user or none.
LEMMA StillMaps ==
    ASSUME AllInv, TypeOK', QueuesInv', AwakeKept,
           UNCHANGED <<thread_index, ppid, waitchild_id>>,
           \A p \in Pid : /\ pc'[p] = "exit" <=> pc[p] = "exit"
                          /\ Runs(status'[p], mode') <=> Runs(status[p], mode)
    PROVE  UNCHANGED Abstract!vars
<1>1. life' = life
  BY LifeKept, LifeSame DEF AllInv, AwakeKept
<1>2. QED
  BY <1>1 DEF Abstract!vars

\* The end of a switch
LEMMA ResumeMaps ==
    ASSUME AllInv, TypeOK', QueuesInv', mode = "switch", mode' = "tick",
           UNCHANGED <<status, thread_index, ppid, waitchild_id>>,
           NEW k, k # "exit", pc' = [pc EXCEPT ![currentThread] = k]
    PROVE  Abstract!Dispatch(currentThread)
<1> DEFINE c == currentThread
<1>1. /\ c \in Pid /\ status[c] = "RUNNING" /\ pc[c] # "exit" /\ life[c] = "ready"
      /\ \A p \in Pid : status[p] = "RUNNING" => p = c
  BY RunnerLives, RunnerFacts DEF InCPU, AllInv
<1>2. \A p \in Pid : pc'[p] = IF p = c THEN k ELSE pc[p]
  BY DEF AllInv, TypeOK
<1>3. \A p \in Pid : life[p] # "running"
  BY LifeAt DEF LifeOf
<1>4. \A p \in Pid : life'[p] = IF p = c THEN "running" ELSE life[p]
  BY <1>1, <1>2, LifeAt DEF LifeOf
<1>5. life' = [life EXCEPT ![c] = "running"]
  BY <1>1, <1>4, LifeExcept
<1>6. QED
  BY <1>1, <1>3, <1>5 DEF Abstract!Dispatch

LEMMA SleepMaps ==
    ASSUME AllInv, TypeOK', QueuesInv', InCPU, PutThreadToSleep, BlockedKept,
           UNCHANGED <<thread_index, ppid, waitchild_id>>,
           NEW k, k # "exit", pc' = [pc EXCEPT ![currentThread] = k]
    PROVE  Abstract!Sleep(currentThread)
BY LeavesCPU, RunnerLives DEF Abstract!Sleep

\* YieldCPU, in a system call or in OneTick
LEMMA YieldMaps ==
    ASSUME AllInv, TypeOK', QueuesInv', mode \in {"run", "tick"}, YieldCPU, AwakeKept,
           UNCHANGED <<thread_index, ppid, waitchild_id>>,
           NEW k, k # "exit", pc' = [pc EXCEPT ![currentThread] = k]
    PROVE  Abstract!Preempt(currentThread) \/ UNCHANGED Abstract!vars
<1> DEFINE c == currentThread
<1>1. /\ c \in Pid /\ pc[c] # "exit" /\ life[c] = "running" /\ status[c] = "RUNNING"
  BY RunnerLives, RunnerFacts DEF InCPU, AllInv
<1>2. \A p \in Pid : pc'[p] = IF p = c THEN k ELSE pc[p]
  BY DEF AllInv, TypeOK
<1>3. CASE mode' = "switch"
  <2>1. \A p \in Pid : ~Runs(status'[p], mode')
    BY <1>3 DEF Runs
  <2>2. ASSUME NEW p \in Pid \ {c} PROVE life'[p] = life[p]
    <3>1. ~Runs(status[p], mode)
      BY <2>2, OthersDoNotRun DEF AllInv
    <3>2. QED
      BY <1>2, <2>1, <2>2, <3>1, LifeKept DEF AllInv, AwakeKept
  <2>3. status'[c] # "BLOCKED" /\ status'[c] # "JUST_CREATED"
    BY <1>1 DEF AllInv, QueuesInv, BlockedAgree, AwakeKept
  <2>4. life'[c] = "ready"
    BY <1>1, <1>2, <1>3, <2>3, LifeAt DEF LifeOf
  <2>5. life' = [life EXCEPT ![c] = "ready"]
    BY <1>1, <2>2, <2>4, LifeExcept
  <2>6. QED
    BY <1>1, <2>5 DEF Abstract!Preempt
<1>4. CASE mode' # "switch"
  <2>1. UNCHANGED status
    BY <1>4 DEF YieldCPU, Dispatch
  <2>2. \A p \in Pid : Runs(status'[p], mode') <=> Runs(status[p], mode)
    BY <1>4, <2>1 DEF Runs
  <2>3. QED
    BY <1>1, <1>2, <2>2, StillMaps
<1>5. QED
  BY <1>3, <1>4

\* A turn of the loop in Semaphore::P, by a thread that runs or was switched to
LEMMA PMaps ==
    ASSUME AllInv, TypeOK', QueuesInv', mode \in {"run", "switch"}, P,
           pc[currentThread] \notin {"join", "exit"},
           UNCHANGED <<sleepQueue, thread_index, ppid, waitchild_id>>
    PROVE  [Abstract!Next]_(Abstract!vars)
<1> DEFINE c == currentThread
<1>1. c \in Pid /\ pc[c] # "exit" /\ InCPU
  BY RunnerLives DEF InCPU, AllInv
<1>2. CASE value = 0
  <2>1. pc' = [pc EXCEPT ![c] = "P"] /\ PutThreadToSleep
    BY <1>2 DEF P, Continue
  <2>2. BlockedKept
    BY <1>1, <1>2, PAgrees DEF AllInv
  <2>3. Abstract!Sleep(c)
    BY <1>1, <2>1, <2>2, SleepMaps
  <2>4. QED
    BY <1>1, <2>3 DEF Abstract!Next
<1>3. CASE value # 0
  <2>1. /\ pc' = [pc EXCEPT ![c] = "put"] /\ mode' = "tick"
        /\ UNCHANGED status
    BY <1>3 DEF P, Continue, OneTick
  <2>2. CASE mode = "switch"
    <3>1. Abstract!Dispatch(c)
      BY <2>1, <2>2, ResumeMaps
    <3>2. QED
      BY <1>1, <3>1 DEF Abstract!Next
  <2>3. CASE mode = "run"
    <3>1. \A p \in Pid : /\ pc'[p] = "exit" <=> pc[p] = "exit"
                         /\ Runs(status'[p], mode') <=> Runs(status[p], mode)
      BY <1>1, <2>1, <2>3 DEF Runs, AllInv, TypeOK
    <3>2. QED
      BY <2>1, <3>1, StillMaps DEF AwakeKept
  <2>4. QED
    BY <2>2, <2>3
<1>4. QED
  BY <1>2, <1>3

\* Sleepers, who join with nobody, become ready; nobody falls asleep.
LEMMA WakeMaps ==
    ASSUME AllInv, TypeOK', QueuesInv', NEW S \in SUBSET Pid,
           \A p \in S : status[p] = "BLOCKED" /\ pc[p] \in {"sleep", "P"},
           \A p \in Pid : status'[p] = IF p \in S THEN "READY" ELSE status[p],
           UNCHANGED <<pc, thread_index, ppid, waitchild_id>>,
           mode' = mode \/ (mode # "switch" /\ mode' = AssertBurstStart)
    PROVE  Abstract!Wake(S)
<1>1. ASSUME NEW p \in S
      PROVE  life[p] = "asleep" /\ waitchild_id[p] = None /\ life'[p] = "ready"
  <2>1. p \in Pid /\ status[p] = "BLOCKED" /\ pc[p] \in {"sleep", "P"} /\ status'[p] = "READY"
    BY <1>1
  <2>2. waitchild_id[p] = None
    BY <2>1 DEF AllInv, QueuesInv, JoinersSleep
  <2>3. QED
    BY <2>1, <2>2, LifeAt DEF LifeOf
<1>2. ASSUME NEW p \in Pid \ S PROVE life'[p] = life[p]
  <2>1. mode' = "switch" <=> mode = "switch"
    BY DEF AssertBurstStart
  <2>2. QED
    BY <1>2, <2>1, LifeAt DEF LifeOf
<1>3. life' = [p \in Pid |-> IF p \in S THEN "ready" ELSE life[p]]
  <2>1. life' = [p \in Pid |-> life'[p]]
    BY DEF life
  <2>2. \A p \in Pid : life'[p] = IF p \in S THEN "ready" ELSE life[p]
    BY <1>1, <1>2
  <2>3. QED
    BY <2>1, <2>2
<1>4. QED
  BY <1>1, <1>3 DEF Abstract!Wake

LEMMA TimerMaps ==
    ASSUME AllInv, TypeOK', QueuesInv', TimerInterrupt
    PROVE  [Abstract!Next]_(Abstract!vars)
<1>1. PICK n \in 0 .. Len(sleepQueue) :
        status' = [p \in Pid |-> IF p \in Members(SubSeq(sleepQueue, 1, n))
                                 THEN "READY" ELSE status[p]]
  BY DEF TimerInterrupt
<1> DEFINE S == Members(SubSeq(sleepQueue, 1, n))
<1>2. S \subseteq Members(sleepQueue)
  <2>1. sleepQueue \in Seq(Pid) /\ NoDuplicates(sleepQueue)
    BY DEF AllInv, TypeOK, QueuesInv, BlockedAgree
  <2>2. QED
    BY <2>1, CutMembers
<1> HIDE DEF S
<1>3. S \in SUBSET Pid
  <2>1. sleepQueue \in Seq(Pid)
    BY DEF AllInv, TypeOK
  <2>2. Members(sleepQueue) \subseteq Pid
    BY <2>1 DEF Members
  <2>3. QED
    BY <1>2, <2>2
<1>4. \A p \in S : status[p] = "BLOCKED" /\ pc[p] \in {"sleep", "P"}
  BY <1>2, <1>3 DEF AllInv, QueuesInv, BlockedAgree
<1>5. \A p \in Pid : status'[p] = IF p \in S THEN "READY" ELSE status[p]
  BY <1>1 DEF S
<1>6. /\ UNCHANGED <<pc, thread_index, ppid, waitchild_id>>
      /\ mode' = mode \/ (mode # "switch" /\ mode' = AssertBurstStart)
  BY DEF TimerInterrupt, InCheckIfDue, familyVars
<1>7. Abstract!Wake(S)
  BY <1>3, <1>4, <1>5, <1>6, WakeMaps
<1>8. QED
  BY <1>3, <1>7 DEF Abstract!Next

LEMMA WriteDoneMaps ==
    ASSUME AllInv, TypeOK', QueuesInv', WriteDoneInterrupt
    PROVE  [Abstract!Next]_(Abstract!vars)
<1>1. UNCHANGED <<mode, pc, thread_index, ppid, waitchild_id>>
  BY DEF WriteDoneInterrupt, familyVars
<1>2. CASE queue = << >>
  <2>1. UNCHANGED status
    BY <1>2 DEF WriteDoneInterrupt, V
  <2>2. QED
    BY <1>1, <2>1 DEF life, Abstract!vars
<1>3. CASE queue # << >>
  <2> DEFINE h == Head(queue)
  <2>1. h \in Pid /\ h \in Members(queue)
    <3>1. queue \in Seq(Pid) /\ NoDuplicates(queue)
      BY DEF AllInv, TypeOK, QueuesInv, BlockedAgree
    <3>2. QED
      BY <1>3, <3>1, TailMembers DEF Members
  <2>2. status[h] = "BLOCKED" /\ pc[h] = "P"
    BY <2>1 DEF AllInv, QueuesInv, BlockedAgree
  <2>3. \A p \in Pid : status'[p] = IF p \in {h} THEN "READY" ELSE status[p]
    BY <1>3 DEF WriteDoneInterrupt, V, AllInv, TypeOK
  <2>4. Abstract!Wake({h})
    <3>1. {h} \in SUBSET Pid /\ \A p \in {h} : status[p] = "BLOCKED" /\ pc[p] \in {"sleep", "P"}
      BY <2>1, <2>2
    <3>2. QED
      BY <1>1, <2>3, <3>1, WakeMaps
  <2>5. QED
    BY <2>1, <2>4 DEF Abstract!Next
<1>4. QED
  BY <1>2, <1>3

LEMMA ForkMaps ==
    ASSUME AllInv, TypeOK', QueuesInv', SysFork
    PROVE  [Abstract!Next]_(Abstract!vars)
<1> DEFINE c == currentThread
           n == thread_index
<1>1. /\ c \in Pid /\ life[c] = "running" /\ pc[c] = "user" /\ mode = "run"
      /\ status[c] = "RUNNING"
  BY RunnerLives, RunnerFacts DEF SysFork, Exception, InCPU, AllInv
<1>2. CASE /\ mode' \in {AssertMaxThreads, AssertMaxChildren}
           /\ UNCHANGED <<status, pc, familyVars>>
  <2>1. mode' # "switch"
    BY <1>2 DEF AssertMaxThreads, AssertMaxChildren
  <2>2. life' = life
    BY <1>1, <1>2, <2>1 DEF life, LifeOf
  <2>3. QED
    BY <1>2, <2>2 DEF familyVars, Abstract!vars
<1>3. CASE /\ ~TooManyThreads
           /\ ppid' = [ppid EXCEPT ![n] = c]
           /\ status' = [status EXCEPT ![n] = "READY"]
           /\ pc' = [pc EXCEPT ![n] = "fresh", ![c] = "return"]
           /\ mode' = "tick"
           /\ UNCHANGED waitchild_id
  <2>1. n \in Pid /\ n \in Int
    BY <1>3, CountAssumption DEF TooManyThreads, AllInv, TypeOK, Pid
  <2>2. status[n] = "JUST_CREATED" /\ n # c
    BY <1>1, <2>1 DEF AllInv, QueuesInv, BlockedAgree
  <2>3. \A p \in Pid : status'[p] = IF p = n THEN "READY" ELSE status[p]
    BY <1>3, <2>1 DEF AllInv, TypeOK
  <2>4. \A p \in Pid : pc'[p] = IF p = c THEN "return" ELSE IF p = n THEN "fresh" ELSE pc[p]
    BY <1>3, <2>1, <2>2 DEF AllInv, TypeOK
  <2>5. mode' = "tick"
    BY <1>3
  <2>6. \A p \in Pid : life'[p] = IF p = n THEN "ready" ELSE life[p]
    BY <1>1, <2>2, <2>3, <2>4, <2>5, LifeAt DEF LifeOf
  <2>7. life' = [life EXCEPT ![n] = "ready"]
    BY <2>1, <2>6, LifeExcept
  <2>8. life[n] = "unborn"
    BY <2>1, <2>2, LifeAt DEF LifeOf
  <2>9. Abstract!Fork(c, n)
    BY <1>1, <1>3, <2>7, <2>8 DEF Abstract!Fork
  <2>10. QED
    BY <1>1, <2>1, <2>9 DEF Abstract!Next
<1>4. QED
  BY <1>2, <1>3 DEF SysFork, OneTick

LEMMA JoinMaps ==
    ASSUME AllInv, TypeOK', QueuesInv', SysJoin
    PROVE  [Abstract!Next]_(Abstract!vars)
<1> DEFINE p == currentThread
<1>1. PICK c \in Children(p) :
        IF exitedChild[c]
        THEN /\ Continue("return")
             /\ UNCHANGED <<mode, status, waitchild_id>>
        ELSE /\ waitchild_id' = [waitchild_id EXCEPT ![p] = c]
             /\ Continue("join")
             /\ PutThreadToSleep
  BY DEF SysJoin
<1>2. /\ p \in Pid /\ life[p] = "running" /\ pc[p] = "user" /\ InCPU
      /\ waitchild_id[p] = None
      /\ c \in Pid /\ c # None /\ ppid[c] = p /\ p # None
      /\ UNCHANGED <<thread_index, ppid>>
  BY RunnerLives, RunnerFacts, ConstantTypes
     DEF SysJoin, Exception, InCPU, AllInv, Children
<1>3. CASE exitedChild[c]
  <2>1. UNCHANGED <<mode, status, waitchild_id>> /\ pc' = [pc EXCEPT ![p] = "return"]
    BY <1>1, <1>3 DEF Continue
  <2>2. \A q \in Pid : pc'[q] = "exit" <=> pc[q] = "exit"
    BY <1>2, <2>1 DEF AllInv, TypeOK
  <2>3. QED
    BY <1>2, <2>1, <2>2, StillMaps DEF AwakeKept
<1>4. CASE ~exitedChild[c]
  <2>1. /\ waitchild_id' = [waitchild_id EXCEPT ![p] = c]
        /\ pc' = [pc EXCEPT ![p] = "join"] /\ PutThreadToSleep
    BY <1>1, <1>4 DEF Continue
  <2>2. waitchild_id'[p] = c
    BY <1>2, <2>1 DEF AllInv, TypeOK
  <2>3. BlockedKept
    BY <1>2, <2>2, JoinAgrees DEF AllInv
  <2>4. life' = [life EXCEPT ![p] = "asleep"]
    <3>1. "join" # "exit"
      OBVIOUS
    <3>2. QED
      BY <1>2, <2>1, <2>3, <3>1, LeavesCPU
  <2>5. ~exitThreadArray[p]
    BY <1>2 DEF AllInv, JoinInv, ExitedStay
  <2>6. ~exitThreadArray[c]
    BY <1>2, <1>4, <2>5 DEF AllInv, JoinInv, ParentsTold
  <2>7. pc[c] # "exit"
    BY <1>2, <2>6 DEF AllInv, FamilyInv, MainIsRoot
  <2>8. life[c] # "gone"
    BY <1>2, <2>7, LifeAt DEF LifeOf
  <2>9. Abstract!Join(p, c)
    BY <1>2, <2>1, <2>4, <2>8 DEF Abstract!Join
  <2>10. QED
    BY <1>2, <2>9 DEF Abstract!Next
<1>5. QED
  BY <1>3, <1>4

\* Main has no parent, so nobody is waiting for it.
LEMMA FinishMaps ==
    ASSUME AllInv, TypeOK', QueuesInv', FinishThread
    PROVE  Abstract!Exit(currentThread)
<1> DEFINE c == currentThread
<1>1. /\ c \in Pid /\ life[c] = "running" /\ pc[c] = "main" /\ InCPU
      /\ pc' = [pc EXCEPT ![c] = "exit"] /\ PutThreadToSleep
      /\ UNCHANGED <<thread_index, ppid, waitchild_id>>
  BY RunnerLives DEF FinishThread, Continue, InCPU, familyVars
<1>2. life' = [life EXCEPT ![c] = "gone"]
  <2>1. BlockedKept
    BY FinishAgrees DEF AllInv
  <2>2. life' = [life EXCEPT ![c] = IF "exit" = "exit" THEN "gone" ELSE "asleep"]
    BY <1>1, <2>1, LeavesCPU
  <2>3. QED
    BY <2>2
<1>3. ASSUME NEW q \in Pid PROVE waitchild_id[q] # c
  <2> SUFFICES ASSUME waitchild_id[q] = c PROVE FALSE
    OBVIOUS
  <2>1. c # None /\ q # None
    BY <1>1, ConstantTypes
  <2>2. status[q] = "BLOCKED" /\ pc[q] = "join"
    BY <2>1 DEF AllInv, QueuesInv, JoinersSleep
  <2>3. ppid[c] = q
    BY <2>2 DEF AllInv, JoinInv, JoinHandshake
  <2>4. QED
    BY <1>1, <2>1, <2>3 DEF AllInv, FamilyInv, MainIsRoot
<1> DEFINE joined == {q \in Pid : waitchild_id[q] = c}
<1>4. joined = {}
  BY <1>3
<1>5. /\ life' = [q \in Pid |-> IF q = c THEN "gone"
                                ELSE IF q \in joined THEN "ready" ELSE life[q]]
      /\ waitchild_id' = [q \in Pid |-> IF q \in joined THEN None ELSE waitchild_id[q]]
  <2> HIDE DEF joined
  <2>1. DOMAIN life = Pid /\ waitchild_id \in [Pid -> PidOrNone]
    BY DEF life, AllInv, TypeOK
  <2>2. life' = [q \in Pid |-> IF q = c THEN "gone" ELSE life[q]]
    BY <1>2, <2>1
  <2>3. QED
    BY <1>1, <1>4, <2>1, <2>2
<1>6. QED
  BY <1>1, <1>5 DEF Abstract!Exit

\* Those that join with the exiting process are those its exit wakes.
LEMMA ExitMaps ==
    ASSUME AllInv, TypeOK', QueuesInv', SysExit
    PROVE  Abstract!Exit(currentThread)
<1> DEFINE c == currentThread
<1>1. /\ c \in Pid /\ life[c] = "running" /\ status[c] = "RUNNING" /\ c # None
      /\ UNCHANGED <<thread_index, ppid>>
      /\ \A p \in Pid : pc'[p] = IF p = c THEN "exit" ELSE pc[p]
  <2>1. /\ mode = "run" /\ UNCHANGED <<thread_index, ppid>>
        /\ pc' = [pc EXCEPT ![c] = "exit"]
    BY DEF SysExit, Exception, Continue
  <2>2. c \in Pid /\ life[c] = "running" /\ status[c] = "RUNNING" /\ c # None
    BY <2>1, RunnerLives, RunnerFacts, ConstantTypes DEF InCPU, AllInv
  <2>3. \A p \in Pid : pc'[p] = IF p = c THEN "exit" ELSE pc[p]
    BY <2>1 DEF AllInv, TypeOK
  <2>4. QED
    BY <2>1, <2>2, <2>3
<1>2. /\ status'[c] = "BLOCKED"
      /\ \A p \in Pid \ {c} : status'[p] = "BLOCKED" <=> status[p] = "BLOCKED" /\ ~ExitWakes(p)
  BY ExitAgrees DEF AllInv
<1>3. ASSUME NEW q \in Pid PROVE ExitWakes(q) <=> waitchild_id[q] = c
  <2>1. CASE waitchild_id[q] = c
    <3>1. status[q] = "BLOCKED" /\ pc[q] = "join" /\ q # None
      BY <1>1, <2>1, ConstantTypes DEF AllInv, QueuesInv, JoinersSleep
    <3>2. ppid[c] = q
      BY <2>1, <3>1 DEF AllInv, JoinInv, JoinHandshake
    <3>3. ~exitThreadArray[q]
      BY <3>1 DEF AllInv, JoinInv, ExitedStay
    <3>4. QED
      BY <2>1, <3>1, <3>2, <3>3 DEF ExitWakes, Notifies, WaitsFor
  <2>2. CASE waitchild_id[q] # c
    BY <2>2 DEF ExitWakes, WaitsFor
  <2>3. QED
    BY <2>1, <2>2
<1>4. \A p \in Pid : waitchild_id'[p] = IF ExitWakes(p) THEN None ELSE waitchild_id[p]
  <2>1. waitchild_id \in [Pid -> PidOrNone]
    BY DEF AllInv, TypeOK
  <2>2. waitchild_id' = IF ExitWakes(ppid[c]) THEN [waitchild_id EXCEPT ![ppid[c]] = None]
                        ELSE waitchild_id
    BY DEF SysExit, ExitWakes
  <2>3. \A p \in Pid : ExitWakes(p) => p = ppid[c]
    BY DEF ExitWakes
  <2>4. CASE ExitWakes(ppid[c])
    BY <2>1, <2>2, <2>3, <2>4
  <2>5. CASE ~ExitWakes(ppid[c])
    BY <2>2, <2>3, <2>5
  <2>6. QED
    BY <2>4, <2>5
<1>5. \A p \in Pid : ~Runs(status'[p], mode')
  <2> DEFINE st == [status EXCEPT ![c] = "BLOCKED"]
  <2>1. \/ \E r, s : SelectNext(r, s)
        \/ mode' = "halted" /\ status' = st
    BY DEF SysExit
  <2>2. CASE \E r, s : SelectNext(r, s)
    <3>1. mode' \in {"switch", "wait"}
      BY <2>2, SelectNextMode
    <3>2. QED
      BY <3>1 DEF QueuesInv, OneRuns, Runs
  <2>3. CASE status' = st
    <3>1. \A p \in Pid : status[p] = "RUNNING" => p = c
      BY DEF AllInv, QueuesInv, OneRuns
    <3>2. \A p \in Pid : status'[p] = IF p = c THEN "BLOCKED" ELSE status[p]
      BY <2>3 DEF AllInv, TypeOK
    <3>3. QED
      BY <3>1, <3>2 DEF Runs
  <2>4. QED
    BY <2>1, <2>2, <2>3
<1>6. life'[c] = "gone"
  BY <1>1, <1>2, LifeAt DEF LifeOf
<1>7. ASSUME NEW q \in Pid \ {c}, ExitWakes(q) PROVE life'[q] = "ready"
  <2>1. status[q] = "BLOCKED" /\ pc[q] = "join"
    BY <1>1, <1>3, <1>7 DEF AllInv, QueuesInv, JoinersSleep
  <2>2. status'[q] # "BLOCKED" /\ pc'[q] = "join"
    BY <1>1, <1>2, <1>7, <2>1
  <2>3. status'[q] # "JUST_CREATED"
    BY <1>1, <2>1 DEF AllInv, QueuesInv, BlockedAgree
  <2>4. QED
    BY <1>5, <2>2, <2>3, LifeAt DEF LifeOf, Runs
<1>8. ASSUME NEW q \in Pid \ {c}, ~ExitWakes(q) PROVE life'[q] = life[q]
  <2>1. status'[q] = "BLOCKED" <=> status[q] = "BLOCKED"
    BY <1>2, <1>8
  <2>2. ~Runs(status[q], mode)
    BY <1>8, OthersDoNotRun DEF AllInv
  <2>3. QED
    BY <1>1, <1>5, <1>8, <2>1, <2>2, LifeKept DEF AllInv
<1> DEFINE joined == {q \in Pid : waitchild_id[q] = c}
<1>9. \A q \in Pid : q \in joined <=> ExitWakes(q)
  BY <1>3
<1> HIDE DEF joined
<1>10. life' = [q \in Pid |-> IF q = c THEN "gone"
                              ELSE IF q \in joined THEN "ready" ELSE life[q]]
  <2>1. \A q \in Pid : life'[q] = IF q = c THEN "gone"
                                  ELSE IF q \in joined THEN "ready" ELSE life[q]
    BY <1>6, <1>7, <1>8, <1>9
  <2>2. life' = [q \in Pid |-> life'[q]]
    BY DEF life
  <2>3. QED
    BY <2>1, <2>2
<1>11. waitchild_id' = [q \in Pid |-> IF q \in joined THEN None ELSE waitchild_id[q]]
  <2>1. waitchild_id' = [q \in Pid |-> waitchild_id'[q]]
    BY DEF TypeOK
  <2>2. QED
    BY <1>4, <1>9, <2>1
<1>12. QED
  BY <1>1, <1>10, <1>11 DEF Abstract!Exit, joined

LEMMA InterruptsMap ==
    ASSUME AllInv, TypeOK', QueuesInv', Interrupts
    PROVE  [Abstract!Next]_(Abstract!vars)
<1>1. CASE TimerInterrupt
  BY <1>1, TimerMaps
<1>2. CASE WriteDoneInterrupt
  BY <1>2, WriteDoneMaps
<1>3. CASE TickReturn
  <2>1. /\ UNCHANGED <<pc, thread_index, ppid, waitchild_id>> /\ mode = "tick" /\ AwakeKept
    BY <1>3, ClockAgrees DEF TickReturn, familyVars, AllInv
  <2>2. CASE yieldOnReturn
    <3>1. /\ YieldCPU /\ currentThread \in Pid /\ pc[currentThread] # "exit"
          /\ pc' = [pc EXCEPT ![currentThread] = pc[currentThread]]
      BY <1>3, <2>1, <2>2, RunnerLives DEF TickReturn, InCPU, AllInv, TypeOK
    <3>2. Abstract!Preempt(currentThread) \/ UNCHANGED Abstract!vars
      BY <2>1, <3>1, YieldMaps
    <3>3. QED
      BY <3>1, <3>2 DEF Abstract!Next
  <2>3. CASE ~yieldOnReturn
    <3>1. UNCHANGED status /\ mode' = "run"
      BY <1>3, <2>3 DEF TickReturn
    <3>2. QED
      BY <2>1, <3>1, StillMaps DEF Runs
  <2>4. QED
    BY <2>2, <2>3
<1>4. CASE Idle
  <2>1. /\ UNCHANGED <<pc, status, thread_index, ppid, waitchild_id>>
        /\ mode = "wait" /\ mode' \in {"idle", "halted"} /\ AwakeKept
    BY <1>4, ClockAgrees DEF Idle, familyVars, AllInv
  <2>2. \A p \in Pid : Runs(status'[p], mode') <=> Runs(status[p], mode)
    BY <2>1 DEF Runs
  <2>3. QED
    BY <2>1, <2>2, StillMaps
<1>5. CASE IdleReturn
  <2>1. /\ UNCHANGED <<pc, thread_index, ppid, waitchild_id>>
        /\ mode = "idle" /\ mode' \in {"switch", "wait"} /\ AwakeKept
    BY <1>5, ClockAgrees, SelectNextMode DEF IdleReturn, familyVars, AllInv
  <2>2. \A p \in Pid : ~Runs(status[p], mode) /\ ~Runs(status'[p], mode')
    BY <2>1 DEF AllInv, QueuesInv, OneRuns, Runs
  <2>3. QED
    BY <2>1, <2>2, StillMaps
<1>6. QED
  BY <1>1, <1>2, <1>3, <1>4, <1>5 DEF Interrupts

LEMMA SwitchedMap ==
    ASSUME AllInv, TypeOK', QueuesInv', Switched
    PROVE  [Abstract!Next]_(Abstract!vars)
<1> DEFINE c == currentThread
<1>1. CASE ResumeFresh \/ Resume
  <2>1. /\ mode = "switch" /\ mode' = "tick"
        /\ UNCHANGED <<status, thread_index, ppid, waitchild_id>>
    BY <1>1 DEF ResumeFresh, Resume, OneTick, familyVars
  <2>2. c \in Pid /\ pc[c] # "exit"
    BY <2>1, RunnerLives DEF InCPU
  <2>3. PICK k \in {"start"} \cup AfterSleep(pc[c]) : pc' = [pc EXCEPT ![c] = k]
    BY <1>1 DEF ResumeFresh, Resume, Continue
  <2>4. k # "exit"
    BY <2>2, <2>3 DEF AfterSleep
  <2>5. Abstract!Dispatch(c)
    BY <2>1, <2>3, <2>4, ResumeMaps
  <2>6. QED
    BY <2>2, <2>5 DEF Abstract!Next
<1>2. CASE ResumeP
  <2>1. /\ mode = "switch" /\ P /\ pc[c] = "P"
        /\ UNCHANGED <<sleepQueue, thread_index, ppid, waitchild_id>>
    BY <1>2 DEF ResumeP, familyVars
  <2>2. QED
    BY <2>1, PMaps
<1>3. CASE Start
  <2>1. /\ pc' = [pc EXCEPT ![c] = "user"] /\ pc[c] = "start"
        /\ UNCHANGED <<mode, status, thread_index, ppid, waitchild_id>>
    BY <1>3 DEF Start, Continue, familyVars
  <2>2. \A p \in Pid : pc'[p] = "exit" <=> pc[p] = "exit"
    BY <2>1 DEF AllInv, TypeOK
  <2>3. QED
    BY <2>1, <2>2, StillMaps DEF AwakeKept
<1>4. QED
  BY <1>1, <1>2, <1>3 DEF Switched

LEMMA RunningMaps ==
    ASSUME AllInv, TypeOK', QueuesInv', Boot \/ FinishThread \/ Instruction \/ Syscalls
    PROVE  [Abstract!Next]_(Abstract!vars)
<1> DEFINE c == currentThread
<1>1. mode = "run" => c \in Pid /\ pc[c] # "exit"
  BY RunnerLives DEF InCPU
<1>2. CASE Boot \/ Instruction \/ QuickSyscall \/ SysHalt \/ PutChar
  <2>1. /\ mode = "run" /\ mode' \in {"run", "tick", "halted"}
        /\ UNCHANGED <<status, thread_index, ppid, waitchild_id>>
    BY <1>2 DEF Boot, Instruction, QuickSyscall, SysHalt, PutChar, Exception, OneTick,
                familyVars
  <2>2. PICK k \in {"user", "main", "return", "print", pc[c]} : pc' = [pc EXCEPT ![c] = k]
    BY <1>2 DEF Boot, Instruction, QuickSyscall, SysHalt, PutChar, Continue, AllInv, TypeOK
  <2>3. \A p \in Pid : /\ pc'[p] = "exit" <=> pc[p] = "exit"
                       /\ Runs(status'[p], mode') <=> Runs(status[p], mode)
    BY <1>1, <2>1, <2>2 DEF AllInv, TypeOK, Runs
  <2>4. QED
    BY <2>1, <2>3, StillMaps DEF AwakeKept
<1>3. CASE FinishThread \/ SysExit
  <2>1. Abstract!Exit(c) /\ mode = "run"
    BY <1>3, FinishMaps, ExitMaps DEF FinishThread, SysExit, Exception
  <2>2. QED
    BY <1>1, <2>1 DEF Abstract!Next
<1>4. CASE SysYield
  <2>1. /\ pc' = [pc EXCEPT ![c] = "return"] /\ YieldCPU /\ mode = "run"
        /\ UNCHANGED <<thread_index, ppid, waitchild_id, sleepQueue, queue>>
    BY <1>4 DEF SysYield, Exception, Continue, familyVars, semaphoreVars
  <2>2. AwakeKept
    BY <2>1, YieldAgrees DEF InCPU, AllInv
  <2>3. Abstract!Preempt(c) \/ UNCHANGED Abstract!vars
    BY <2>1, <2>2, YieldMaps
  <2>4. QED
    BY <1>1, <2>1, <2>3 DEF Abstract!Next
<1>5. CASE SysSleep
  <2>1. /\ pc' = [pc EXCEPT ![c] = "sleep"] /\ PutThreadToSleep /\ mode = "run"
        /\ UNCHANGED <<thread_index, ppid, waitchild_id>>
    BY <1>5 DEF SysSleep, Exception, Continue, familyVars
  <2>2. BlockedKept
    BY <1>5, SleepAgrees DEF AllInv
  <2>3. Abstract!Sleep(c)
    BY <2>1, <2>2, SleepMaps DEF InCPU
  <2>4. QED
    BY <1>1, <2>1, <2>3 DEF Abstract!Next
<1>6. CASE SysPrint \/ NextCharacter
  <2>1. /\ P /\ mode = "run" /\ pc[c] \in {"user", "print"}
        /\ UNCHANGED <<sleepQueue, thread_index, ppid, waitchild_id>>
    BY <1>6 DEF SysPrint, NextCharacter, Exception, familyVars
  <2>2. QED
    BY <2>1, PMaps
<1>7. QED
  BY <1>2, <1>3, <1>4, <1>5, <1>6, ForkMaps, JoinMaps DEF Syscalls

LEMMA StepMaps ==
    ASSUME AllInv, TypeOK', QueuesInv', [Next]_vars
    PROVE  [Abstract!Next]_(Abstract!vars)
<1>1. CASE UNCHANGED vars
  <2>1. UNCHANGED <<mode, status, pc, ppid, waitchild_id>>
    BY <1>1 DEF vars, familyVars
  <2>2. QED
    BY <2>1 DEF life, Abstract!vars
<1>2. QED
  BY <1>1, InterruptsMap, SwitchedMap, RunningMaps DEF Next, Terminated

LEMMA InitMaps == Init => Abstract!Init
<1> SUFFICES ASSUME Init PROVE Abstract!Init
  OBVIOUS
<1>1. 0 \in Pid
  BY ConstantTypes
<1>2. \A p \in Pid : life[p] = IF p = 0 THEN "running" ELSE "unborn"
  BY DEF Init, life, LifeOf
<1>3. life = [p \in Pid |-> IF p = 0 THEN "running" ELSE "unborn"]
  BY <1>2 DEF life
<1>4. QED
  BY <1>1, <1>3 DEF Init, Abstract!Init

\* The thread system implements Processes, for any number of threads, any tick
\* lengths and each of the four scheduling algorithms.
THEOREM RefinementCorrect == Spec => ImplementsProcesses
<1>1. Init => FamilyInv
  BY InitFamily
<1>2. /\ TypeOK /\ TypeOK' /\ QueuesInv /\ QueuesInv' /\ JoinInv /\ FamilyInv
      /\ [Next]_vars
      => FamilyInv'
  BY FamilyStep
<1>3. Init => Abstract!Init
  BY InitMaps
<1>4. TypeOK /\ TypeOK' /\ QueuesInv /\ QueuesInv' /\ JoinInv /\ FamilyInv /\ [Next]_vars
      => [Abstract!Next]_(Abstract!vars)
  BY StepMaps DEF AllInv
<1>5. QED
  BY <1>1, <1>2, <1>3, <1>4, TypeCorrect, QueuesInvCorrect, JoinInvCorrect, PTL
     DEF Spec, ImplementsProcesses, Abstract!Spec
=============================================================================
