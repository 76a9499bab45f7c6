------------------------ MODULE NachOSThreadsProofs ------------------------
(***************************************************************************)
(* Theorems about the thread system, for every number of threads, every    *)
(* scheduling algorithm and all tick lengths.                              *)
(***************************************************************************)
EXTENDS NachOSThreads, TLAPS

-----------------------------------------------------------------------------
(* The constants and the operators on sequences *)

LEMMA ConstantTypes ==
    /\ 0 \in Pid /\ Pid \subseteq Int /\ None \notin Pid /\ None \in PidOrNone
    /\ Pid \subseteq PidOrNone
    /\ MaxPeriod \in Nat \ {0}
    /\ BurstCap \in Nat \ {0}
    /\ TimeOfNextInterrupt \subseteq 1 .. MaxPeriod
    /\ TimeOfNextInterrupt \subseteq Int
BY CountAssumption, TickAssumption
   DEF Pid, None, PidOrNone, MaxPeriod, BurstCap, TimeOfNextInterrupt

\* A function on 1 .. n is a sequence.
LEMMA SequenceOf ==
    ASSUME NEW S, NEW n \in Nat, NEW f \in [1 .. n -> S]
    PROVE  f \in Seq(S) /\ Len(f) = n /\ DOMAIN f = 1 .. n
OBVIOUS

\* Inserting an element after the first n leaves a sequence.
LEMMA InsertType ==
    ASSUME NEW S, NEW s \in Seq(S), NEW n \in 0 .. Len(s), NEW x \in S
    PROVE  [i \in 1 .. Len(s) + 1 |-> IF i <= n THEN s[i]
                                     ELSE IF i = n + 1 THEN x ELSE s[i - 1]] \in Seq(S)
<1> DEFINE e(i) == IF i <= n THEN s[i] ELSE IF i = n + 1 THEN x ELSE s[i - 1]
<1>1. Len(s) \in Nat /\ Len(s) + 1 \in Nat /\ n \in Int
  OBVIOUS
<1>2. ASSUME NEW i \in 1 .. Len(s) + 1 PROVE e(i) \in S
  <2>1. CASE i <= n
    BY <1>1, <2>1
  <2>2. CASE i > n + 1
    <3>1. i - 1 \in 1 .. Len(s)
      BY <1>1, <2>2
    <3>2. QED
      BY <1>1, <2>2, <3>1
  <2>3. CASE i = n + 1
    BY <1>1, <2>3
  <2>4. QED
    BY <1>1, <2>1, <2>2, <2>3
<1> HIDE DEF e
<1>3. [i \in 1 .. Len(s) + 1 |-> e(i)] \in [1 .. Len(s) + 1 -> S]
  BY <1>2
<1>4. QED
  BY <1>1, <1>3, SequenceOf DEF e

\* Removing one element of a sequence leaves a sequence of the others.
LEMMA WithoutType ==
    ASSUME NEW S, NEW s \in Seq(S), NEW i \in 1 .. Len(s)
    PROVE  /\ Without(s, i) \in Seq(S)
           /\ Len(Without(s, i)) = Len(s) - 1
           /\ \A j \in 1 .. Len(s) - 1 :
                Without(s, i)[j] = IF j < i THEN s[j] ELSE s[j + 1]
<1>1. Len(s) - 1 \in Nat
  OBVIOUS
<1>2. Without(s, i) \in [1 .. Len(s) - 1 -> S]
  BY DEF Without
<1>3. QED
  BY <1>1, <1>2, SequenceOf DEF Without

-----------------------------------------------------------------------------
(* Type correctness of the parts of an action *)

LEMMA AgeType ==
    ASSUME TypeOK, NEW b \in Nat, NEW d \in Nat, Age(b, d)
    PROVE  /\ wakeIn' \in [Pid -> Int] /\ timerIn' \in Int
           /\ pendingWrites' \in Seq(Int) /\ burst' \in Nat
<1>1. timerIn' \in Int
  BY DEF TypeOK, Age
<1>2. wakeIn' \in [Pid -> Int]
  BY DEF TypeOK, Age
<1>3. burst' \in Nat
  BY ConstantTypes DEF Age, Smaller
<1>4. pendingWrites' \in Seq(Int)
  <2>1. pendingWrites' \in [1 .. Len(pendingWrites) -> Int]
    BY DEF TypeOK, Age
  <2>2. Len(pendingWrites) \in Nat
    BY DEF TypeOK
  <2>3. QED
    BY <2>1, <2>2, SequenceOf
<1>5. QED
  BY <1>1, <1>2, <1>3, <1>4

LEMMA DispatchType ==
    ASSUME NEW r \in Seq(Pid), NEW n \in 0 .. Len(r),
           NEW st \in [Pid -> ThreadStatus], Dispatch(r, n, st)
    PROVE  /\ mode' \in Modes /\ currentThread' \in Pid
           /\ readyThreadList' \in Seq(Pid) /\ status' \in [Pid -> ThreadStatus]
           /\ burst' \in Nat /\ burstStartKnown' \in BOOLEAN
<1>1. PICK i \in 1 .. n : /\ currentThread' = r[i]
                          /\ readyThreadList' = Without(r, i)
                          /\ status' = [st EXCEPT ![r[i]] = "RUNNING"]
  BY DEF Dispatch
<1>2. i \in 1 .. Len(r) /\ r[i] \in Pid
  OBVIOUS
<1>3. readyThreadList' \in Seq(Pid)
  BY <1>1, <1>2, WithoutType
<1>4. QED
  BY <1>1, <1>2, <1>3 DEF Dispatch, Modes, ThreadStatus

LEMMA SelectNextType ==
    ASSUME TypeOK, NEW r \in Seq(Pid), NEW st \in [Pid -> ThreadStatus],
           SelectNext(r, st)
    PROVE  /\ mode' \in Modes /\ currentThread' \in Pid
           /\ readyThreadList' \in Seq(Pid) /\ status' \in [Pid -> ThreadStatus]
           /\ burst' \in Nat /\ burstStartKnown' \in BOOLEAN
<1>1. CASE r # << >>
  BY <1>1, DispatchType DEF SelectNext
<1>2. CASE r = << >>
  BY <1>2 DEF SelectNext, TypeOK, Modes
<1>3. QED
  BY <1>1, <1>2

LEMMA YieldType ==
    ASSUME TypeOK, YieldCPU
    PROVE  /\ mode' \in Modes /\ currentThread' \in Pid
           /\ readyThreadList' \in Seq(Pid) /\ status' \in [Pid -> ThreadStatus]
           /\ wakeIn' \in [Pid -> Int] /\ timerIn' \in Int
           /\ pendingWrites' \in Seq(Int)
           /\ burst' \in Nat /\ burstStartKnown' \in BOOLEAN
<1> DEFINE r == Append(readyThreadList, currentThread)
           st == [status EXCEPT ![currentThread] = "READY"]
<1>1. r \in Seq(Pid) /\ Len(r) \in 0 .. Len(r) /\ Len(readyThreadList) \in 0 .. Len(r)
  BY DEF TypeOK
<1>2. st \in [Pid -> ThreadStatus]
  BY DEF TypeOK, ThreadStatus
<1>3. ASSUME NEW n \in 0 .. Len(r), Dispatch(r, n, st),
             UNCHANGED <<wakeIn, timerIn, pendingWrites>>
      PROVE  /\ mode' \in Modes /\ currentThread' \in Pid
             /\ readyThreadList' \in Seq(Pid) /\ status' \in [Pid -> ThreadStatus]
             /\ wakeIn' \in [Pid -> Int] /\ timerIn' \in Int
             /\ pendingWrites' \in Seq(Int)
             /\ burst' \in Nat /\ burstStartKnown' \in BOOLEAN
  <2> HIDE DEF r, st
  <2>1. QED
    BY <1>1, <1>2, <1>3, DispatchType DEF TypeOK
<1>4. CASE schedulingAlgo = UNIX_SCHED
  BY <1>1, <1>3, <1>4 DEF YieldCPU
<1>5. CASE schedulingAlgo # UNIX_SCHED /\ readyThreadList # << >>
  BY <1>1, <1>3, <1>5 DEF YieldCPU
<1>6. CASE /\ schedulingAlgo # UNIX_SCHED /\ readyThreadList = << >>
           /\ burst > 0 /\ schedulingAlgo = NON_PREEMPTIVE_SJF
  BY <1>6 DEF YieldCPU, TypeOK, Modes, Assertions, timeVars
<1>7. CASE /\ schedulingAlgo # UNIX_SCHED /\ readyThreadList = << >>
           /\ ~(burst > 0 /\ schedulingAlgo = NON_PREEMPTIVE_SJF)
  <2>1. /\ mode' = "tick" /\ Age(0, SystemTick) /\ burstStartKnown' = TRUE
        /\ UNCHANGED <<currentThread, readyThreadList, status>>
    BY <1>7 DEF YieldCPU
  <2>2. QED
    BY <2>1, AgeType, TickAssumption DEF TypeOK, Modes
<1>8. QED
  BY <1>4, <1>5, <1>6, <1>7

LEMMA TickType ==
    ASSUME TypeOK, NEW d \in Nat, OneTick(d)
    PROVE  /\ mode' \in Modes
           /\ wakeIn' \in [Pid -> Int] /\ timerIn' \in Int
           /\ pendingWrites' \in Seq(Int) /\ burst' \in Nat
BY AgeType DEF OneTick, TypeOK, Modes

LEMMA SleepType ==
    ASSUME TypeOK, PutThreadToSleep
    PROVE  /\ mode' \in Modes /\ currentThread' \in Pid
           /\ readyThreadList' \in Seq(Pid) /\ status' \in [Pid -> ThreadStatus]
           /\ burst' \in Nat /\ burstStartKnown' \in BOOLEAN
<1> DEFINE st == [status EXCEPT ![currentThread] = "BLOCKED"]
<1>1. st \in [Pid -> ThreadStatus]
  BY DEF TypeOK, ThreadStatus
<1>2. readyThreadList \in Seq(Pid) /\ SelectNext(readyThreadList, st)
  BY DEF TypeOK, PutThreadToSleep
<1> HIDE DEF st
<1>3. QED
  BY <1>1, <1>2, SelectNextType

LEMMA PType ==
    ASSUME TypeOK, P
    PROVE  /\ mode' \in Modes /\ currentThread' \in Pid
           /\ readyThreadList' \in Seq(Pid) /\ status' \in [Pid -> ThreadStatus]
           /\ wakeIn' \in [Pid -> Int] /\ timerIn' \in Int
           /\ pendingWrites' \in Seq(Int)
           /\ burst' \in Nat /\ burstStartKnown' \in BOOLEAN
           /\ value' \in Nat /\ queue' \in Seq(Pid) /\ pc' \in [Pid -> PC]
<1>1. CASE value = 0
  <2>1. PutThreadToSleep /\ UNCHANGED <<value, wakeIn, timerIn, pendingWrites>>
        /\ queue' = Append(queue, currentThread) /\ Continue("P")
    BY <1>1 DEF P
  <2>2. pc' \in [Pid -> PC]
    BY <2>1 DEF Continue, TypeOK, PC
  <2>3. QED
    BY <2>1, <2>2, SleepType DEF TypeOK
<1>2. CASE value # 0
  <2>1. /\ value' = value - 1 /\ Continue("put") /\ OneTick(SystemTick)
        /\ UNCHANGED <<queue, currentThread, status, readyThreadList, burstStartKnown>>
    BY <1>2 DEF P
  <2>2. pc' \in [Pid -> PC] /\ value' \in Nat
    BY <1>2, <2>1 DEF Continue, TypeOK, PC
  <2>3. QED
    BY <2>1, <2>2, TickType, TickAssumption DEF TypeOK
<1>3. QED
  BY <1>1, <1>2

LEMMA VType ==
    ASSUME TypeOK, V
    PROVE  /\ readyThreadList' \in Seq(Pid) /\ status' \in [Pid -> ThreadStatus]
           /\ value' \in Nat /\ queue' \in Seq(Pid)
<1>1. CASE queue = << >>
  BY <1>1 DEF V, TypeOK
<1>2. CASE queue # << >>
  <2>1. Head(queue) \in Pid /\ Tail(queue) \in Seq(Pid)
    BY <1>2 DEF TypeOK
  <2>2. /\ readyThreadList' = Append(readyThreadList, Head(queue))
        /\ status' = [status EXCEPT ![Head(queue)] = "READY"]
        /\ queue' = Tail(queue) /\ value' = value + 1
    BY <1>2 DEF V
  <2>3. QED
    BY <2>1, <2>2 DEF TypeOK, ThreadStatus
<1>3. QED
  BY <1>1, <1>2

-----------------------------------------------------------------------------
(* Type correctness of the actions *)

LEMMA InitType == Init => TypeOK
<1> SUFFICES ASSUME Init PROVE TypeOK
  OBVIOUS
<1>1. 0 \in Pid /\ 1 \in 1 .. MAX_THREAD_COUNT - 1
  BY CountAssumption DEF Pid
<1>2. timerIn \in Int
  BY TickAssumption, ConstantTypes DEF Init
<1>3. QED
  BY <1>1, <1>2, ConstantTypes
     DEF Init, TypeOK, Modes, ThreadStatus, PC

\* The handler moves a prefix of the sleep queue to the ready list.
LEMMA TimerInterruptType ==
    ASSUME TypeOK, TimerInterrupt
    PROVE  TypeOK'
<1>1. PICK n \in 0 .. Len(sleepQueue) :
        /\ readyThreadList' = readyThreadList \o SubSeq(sleepQueue, 1, n)
        /\ sleepQueue' = SubSeq(sleepQueue, n + 1, Len(sleepQueue))
        /\ status' = [p \in Pid |-> IF p \in Members(SubSeq(sleepQueue, 1, n))
                                    THEN "READY" ELSE status[p]]
        /\ wakeIn' = [p \in Pid |-> IF p \in Members(SubSeq(sleepQueue, 1, n))
                                    THEN 0 ELSE wakeIn[p]]
  BY DEF TimerInterrupt
<1>2. /\ SubSeq(sleepQueue, 1, n) \in Seq(Pid)
      /\ SubSeq(sleepQueue, n + 1, Len(sleepQueue)) \in Seq(Pid)
  BY DEF TypeOK
<1>3. readyThreadList' \in Seq(Pid) /\ sleepQueue' \in Seq(Pid)
  BY <1>1, <1>2 DEF TypeOK
<1>4. status' \in [Pid -> ThreadStatus] /\ wakeIn' \in [Pid -> Int]
  BY <1>1 DEF TypeOK, ThreadStatus
<1>5. timerIn' \in Int
  BY ConstantTypes DEF TimerInterrupt
<1>6. mode' \in Modes /\ yieldOnReturn' \in BOOLEAN
  BY DEF TimerInterrupt, TypeOK, Modes, Assertions
<1>7. QED
  BY <1>3, <1>4, <1>5, <1>6
     DEF TypeOK, TimerInterrupt, familyVars, carcassVars, semaphoreVars

LEMMA InterruptsType ==
    ASSUME TypeOK, Interrupts
    PROVE  TypeOK'
<1>1. CASE TimerInterrupt
  BY <1>1, TimerInterruptType
<1>2. CASE WriteDoneInterrupt
  <2>1. V /\ pendingWrites' \in Seq(Int)
    BY <1>2 DEF WriteDoneInterrupt, WriteDue, TypeOK
  <2>2. QED
    BY <1>2, <2>1, VType DEF TypeOK, WriteDoneInterrupt, familyVars, carcassVars
<1>3. CASE TickReturn
  <2>1. CASE yieldOnReturn
    BY <1>3, <2>1, YieldType
       DEF TickReturn, TypeOK, familyVars, carcassVars, semaphoreVars
  <2>2. CASE ~yieldOnReturn
    BY <1>3, <2>2 DEF TickReturn, TypeOK, Modes, familyVars, carcassVars,
                      semaphoreVars, timeVars
  <2>3. QED
    BY <2>1, <2>2
<1>4. CASE Idle
  <2>1. CASE NotTimerAlone
    <3>1. NextDue \in Int
      BY DEF NextDue, TypeOK
    <3>2. (IF NextDue > 0 THEN NextDue ELSE 0) \in Nat
      BY <3>1
    <3>3. mode' \in Modes /\ Age(burst, IF NextDue > 0 THEN NextDue ELSE 0)
      BY <1>4, <2>1 DEF Idle, Modes
    <3>4. wakeIn' \in [Pid -> Int] /\ timerIn' \in Int
          /\ pendingWrites' \in Seq(Int) /\ burst' \in Nat
      BY <3>2, <3>3, AgeType DEF TypeOK
    <3>5. QED
      BY <1>4, <3>3, <3>4
         DEF Idle, TypeOK, familyVars, carcassVars, semaphoreVars
  <2>2. CASE ~NotTimerAlone
    BY <1>4, <2>2 DEF Idle, TypeOK, Modes, familyVars, carcassVars, semaphoreVars,
                      timeVars
  <2>3. QED
    BY <2>1, <2>2
<1>5. CASE IdleReturn
  <2>1. SelectNext(readyThreadList, status)
    BY <1>5 DEF IdleReturn
  <2>2. QED
    BY <1>5, <2>1, SelectNextType
       DEF IdleReturn, TypeOK, familyVars, carcassVars, semaphoreVars
<1>6. QED
  BY <1>1, <1>2, <1>3, <1>4, <1>5 DEF Interrupts

LEMMA SwitchedType ==
    ASSUME TypeOK, Switched
    PROVE  TypeOK'
<1> USE TickAssumption
<1>1. CASE ResumeFresh
  BY <1>1, TickType
     DEF ResumeFresh, Continue, TypeOK, PC, familyVars, carcassVars, semaphoreVars
<1>2. CASE Resume
  <2>1. pc' \in [Pid -> PC]
    <3>1. PICK k \in AfterSleep(pc[currentThread]) : pc' = [pc EXCEPT ![currentThread] = k]
      BY <1>2 DEF Resume, Continue
    <3>2. pc \in [Pid -> PC] /\ currentThread \in Pid
      BY DEF TypeOK
    <3>3. k \in PC
      BY <3>1, <3>2 DEF AfterSleep, PC
    <3>4. QED
      BY <3>1, <3>2, <3>3
  <2>2. deleted' \subseteq Pid /\ threadToBeDestroyed' \in PidOrNone
    BY <1>2, ConstantTypes DEF Resume, DeleteCarcass, TypeOK, PidOrNone
  <2>3. whichchild' \in [Pid -> PidOrNone]
    BY <1>2, ConstantTypes DEF Resume, TypeOK
  <2>4. QED
    BY <1>2, <2>1, <2>2, <2>3, TickType DEF Resume, TypeOK, semaphoreVars
<1>3. CASE ResumeP
  <2>1. deleted' \subseteq Pid /\ threadToBeDestroyed' \in PidOrNone
    BY <1>3, ConstantTypes DEF ResumeP, DeleteCarcass, TypeOK, PidOrNone
  <2>2. QED
    BY <1>3, <2>1, PType DEF ResumeP, TypeOK, familyVars
<1>4. CASE Start
  <2>1. deleted' \subseteq Pid /\ threadToBeDestroyed' \in PidOrNone
    BY <1>4, ConstantTypes DEF Start, DeleteCarcass, TypeOK, PidOrNone
  <2>2. QED
    BY <1>4, <2>1
       DEF Start, Continue, TypeOK, PC, familyVars, timeVars, semaphoreVars
<1>5. QED
  BY <1>1, <1>2, <1>3, <1>4 DEF Switched

LEMMA SyscallsType ==
    ASSUME TypeOK, Syscalls
    PROVE  TypeOK'
<1> USE TickAssumption
<1>1. CASE QuickSyscall
  BY <1>1 DEF QuickSyscall, Exception, NewConsole, Continue, TypeOK, PC, familyVars, carcassVars,
              timeVars, semaphoreVars
<1>2. CASE SysHalt
  BY <1>2 DEF SysHalt, Exception, NewConsole, TypeOK, Modes, familyVars, carcassVars, timeVars,
              semaphoreVars
<1>3. CASE SysYield
  BY <1>3, YieldType
     DEF SysYield, Exception, NewConsole, Continue, TypeOK, PC, familyVars, carcassVars,
         semaphoreVars
<1>4. CASE SysSleep
  <2>1. PICK t \in SleepTimes, n \in 0 .. Len(sleepQueue) :
          /\ sleepQueue' = [i \in 1 .. Len(sleepQueue) + 1 |->
                              IF i <= n THEN sleepQueue[i]
                              ELSE IF i = n + 1 THEN currentThread
                              ELSE sleepQueue[i - 1]]
          /\ wakeIn' = [wakeIn EXCEPT ![currentThread] = t]
    BY <1>4 DEF SysSleep
  <2>2. sleepQueue' \in Seq(Pid)
    <3>1. currentThread \in Pid /\ sleepQueue \in Seq(Pid)
      BY DEF TypeOK
    <3>2. QED
      BY <2>1, <3>1, InsertType
  <2>3. wakeIn' \in [Pid -> Int]
    BY <2>1 DEF TypeOK
  <2>4. PutThreadToSleep
    BY <1>4 DEF SysSleep
  <2>5. pc' \in [Pid -> PC]
    BY <1>4 DEF SysSleep, Continue, TypeOK, PC
  <2>6. QED
    BY <1>4, <2>2, <2>3, <2>4, <2>5, SleepType
       DEF SysSleep, NewConsole, TypeOK, familyVars, carcassVars, semaphoreVars
<1>5. CASE SysPrint
  BY <1>5, PType DEF SysPrint, Exception, NewConsole, TypeOK, familyVars, carcassVars
<1>6. CASE NextCharacter
  BY <1>6, PType DEF NextCharacter, TypeOK, familyVars, carcassVars
<1>7. CASE PutChar
  <2>1. pc' \in [Pid -> PC]
    BY <1>7 DEF PutChar, Continue, TypeOK, PC
  <2>2. pendingWrites' \in Seq(Int)
    BY <1>7 DEF PutChar, TypeOK
  <2>3. QED
    BY <1>7, <2>1, <2>2 DEF PutChar, TypeOK, familyVars, carcassVars, semaphoreVars
<1>8. CASE SysFork
  <2>1. CASE mode' \in {AssertMaxThreads, AssertMaxChildren}
              /\ UNCHANGED <<status, pc, familyVars, readyThreadList, timeVars>>
    <3>1. mode' \in Modes
      BY <2>1 DEF Modes, Assertions
    <3>2. QED
      BY <1>8, <2>1, <3>1
         DEF SysFork, Exception, NewConsole, TypeOK, familyVars, carcassVars, timeVars, semaphoreVars
  <2>2. CASE /\ ~TooManyThreads
             /\ thread_index' = thread_index + 1
             /\ ppid' = [ppid EXCEPT ![thread_index] = currentThread]
             /\ status' = [status EXCEPT ![thread_index] = "READY"]
             /\ pc' = [pc EXCEPT ![thread_index] = "fresh", ![currentThread] = "return"]
             /\ readyThreadList' = Append(readyThreadList, thread_index)
             /\ OneTick(SystemTick)
             /\ UNCHANGED <<exitThreadArray, exitedChild, waitchild_id, whichchild>>
    <3>1. ~TooManyThreads /\ thread_index' = thread_index + 1
      BY <2>2
    <3>2. thread_index \in 1 .. MAX_THREAD_COUNT - 1
      BY DEF TypeOK
    <3>3. thread_index \in Pid /\ thread_index' \in 1 .. MAX_THREAD_COUNT - 1
      BY <3>1, <3>2, CountAssumption DEF Pid, TooManyThreads
    <3>4. currentThread \in PidOrNone
      BY ConstantTypes DEF TypeOK
    <3>5. ppid' \in [Pid -> PidOrNone]
      BY <2>2, <3>4 DEF TypeOK
    <3>6. status' \in [Pid -> ThreadStatus]
      BY <2>2 DEF TypeOK, ThreadStatus
    <3>7. pc' \in [Pid -> PC]
      BY <2>2 DEF TypeOK, PC
    <3>8. readyThreadList' \in Seq(Pid)
      BY <2>2, <3>3 DEF TypeOK
    <3>9. /\ mode' \in Modes /\ wakeIn' \in [Pid -> Int] /\ timerIn' \in Int
          /\ pendingWrites' \in Seq(Int) /\ burst' \in Nat
      BY <2>2, TickType, TickAssumption
    <3>10. UNCHANGED <<currentThread, carcassVars, sleepQueue, yieldOnReturn,
                      burstStartKnown, semaphoreVars>> /\ polling' = TRUE
      BY <1>8 DEF SysFork, Exception, NewConsole
    <3>11. QED
      BY <2>2, <3>3, <3>5, <3>6, <3>7, <3>8, <3>9, <3>10
         DEF TypeOK, carcassVars, semaphoreVars
  <2>3. QED
    BY <1>8, <2>1, <2>2 DEF SysFork
<1>9. CASE SysJoin
  <2>1. PICK c \in Children(currentThread) :
          IF exitedChild[c]
          THEN /\ Continue("return")
               /\ UNCHANGED <<mode, currentThread, status, readyThreadList, burst,
                              burstStartKnown, waitchild_id, whichchild>>
          ELSE /\ waitchild_id' = [waitchild_id EXCEPT ![currentThread] = c]
               /\ whichchild' = [whichchild EXCEPT ![currentThread] = c]
               /\ Continue("join")
               /\ PutThreadToSleep
    BY <1>9 DEF SysJoin
  <2>2. c \in Pid
    BY DEF Children
  <2>3. pc' \in [Pid -> PC]
    BY <2>1 DEF Continue, TypeOK, PC
  <2>4. waitchild_id' \in [Pid -> PidOrNone] /\ whichchild' \in [Pid -> PidOrNone]
    <3>1. c \in PidOrNone
      BY <2>2 DEF PidOrNone
    <3>2. CASE exitedChild[c]
      BY <2>1, <3>2 DEF TypeOK
    <3>3. CASE ~exitedChild[c]
      <4>1. waitchild_id' = [waitchild_id EXCEPT ![currentThread] = c]
            /\ whichchild' = [whichchild EXCEPT ![currentThread] = c]
        BY <2>1, <3>3
      <4>2. QED
        BY <3>1, <4>1 DEF TypeOK
    <3>4. QED
      BY <3>2, <3>3
  <2>5. CASE exitedChild[c]
    BY <1>9, <2>1, <2>3, <2>4, <2>5
       DEF SysJoin, Exception, NewConsole, TypeOK, carcassVars, semaphoreVars
  <2>6. CASE ~exitedChild[c]
    BY <1>9, <2>1, <2>3, <2>4, <2>6, SleepType
       DEF SysJoin, Exception, NewConsole, TypeOK, carcassVars, semaphoreVars
  <2>7. QED
    BY <2>5, <2>6
<1>10. CASE SysExit
  <2> DEFINE parent == ppid[currentThread]
             notify == Notifies(parent)
             st == [status EXCEPT ![currentThread] = "BLOCKED"]
             wakes == notify /\ WaitsFor(parent, currentThread)
  <2>1. st \in [Pid -> ThreadStatus] /\ pc' \in [Pid -> PC]
        /\ exitThreadArray' \in [Pid -> BOOLEAN] /\ threadToBeDestroyed' \in PidOrNone
    BY <1>10 DEF SysExit, Continue, TypeOK, PC, ThreadStatus, PidOrNone
  <2>2. exitedChild' \in [Pid -> BOOLEAN]
    BY <1>10 DEF SysExit, TypeOK
  <2>3. wakes => parent \in Pid
    BY DEF TypeOK, PidOrNone, Notifies
  <2>4. waitchild_id' \in [Pid -> PidOrNone]
    <3>1. \/ wakes /\ waitchild_id' = [waitchild_id EXCEPT ![parent] = None]
          \/ waitchild_id' = waitchild_id
      BY <1>10 DEF SysExit
    <3>2. waitchild_id \in [Pid -> PidOrNone] /\ None \in PidOrNone
      BY ConstantTypes DEF TypeOK
    <3> HIDE DEF wakes, parent
    <3>3. QED
      BY <2>3, <3>1, <3>2
  <2>5. /\ mode' \in Modes /\ currentThread' \in Pid
        /\ readyThreadList' \in Seq(Pid) /\ status' \in [Pid -> ThreadStatus]
        /\ burst' \in Nat /\ burstStartKnown' \in BOOLEAN
    <3>1. CASE wakes
      <4>1. SelectNext(Append(readyThreadList, parent), [st EXCEPT ![parent] = "READY"])
        BY <1>10, <3>1 DEF SysExit
      <4>2. parent \in Pid
        BY <2>3, <3>1
      <4> HIDE DEF parent, st
      <4>3. /\ Append(readyThreadList, parent) \in Seq(Pid)
            /\ [st EXCEPT ![parent] = "READY"] \in [Pid -> ThreadStatus]
        BY <2>1, <4>2 DEF TypeOK, ThreadStatus
      <4>4. QED
        BY <4>1, <4>3, SelectNextType
    <3>2. CASE ~wakes
      <4>1. \/ SelectNext(readyThreadList, st)
            \/ /\ mode' = "halted" /\ status' = st
               /\ UNCHANGED <<currentThread, readyThreadList, burst, burstStartKnown>>
        BY <1>10, <3>2 DEF SysExit
      <4>2. readyThreadList \in Seq(Pid)
        BY DEF TypeOK
      <4>3. CASE SelectNext(readyThreadList, st)
        BY <2>1, <4>2, <4>3, SelectNextType
      <4>4. QED
        BY <2>1, <4>1, <4>3 DEF TypeOK, Modes
    <3>3. QED
      BY <3>1, <3>2
  <2>6. QED
    BY <1>10, <2>1, <2>2, <2>4, <2>5
       DEF SysExit, Exception, NewConsole, TypeOK, semaphoreVars
<1>11. QED
  BY <1>1, <1>2, <1>3, <1>4, <1>5, <1>6, <1>7, <1>8, <1>9, <1>10 DEF Syscalls

\* Every variable has its type in every reachable state.
THEOREM TypeCorrect == Spec => []TypeOK
<1>1. Init => TypeOK
  BY InitType
<1>2. TypeOK /\ [Next]_vars => TypeOK'
  <2> SUFFICES ASSUME TypeOK, [Next]_vars PROVE TypeOK'
    OBVIOUS
  <2>1. CASE Boot
    BY <2>1, TickType, TickAssumption
       DEF Boot, Continue, TypeOK, PC, familyVars, carcassVars, semaphoreVars
  <2>2. CASE FinishThread
    BY <2>2, SleepType
       DEF FinishThread, Continue, TypeOK, PC, PidOrNone, familyVars, semaphoreVars
  <2>3. CASE Instruction
    BY <2>3, TickType, TickAssumption
       DEF Instruction, Continue, TypeOK, PC, familyVars, carcassVars, semaphoreVars
  <2>4. CASE UNCHANGED vars
    BY <2>4 DEF vars, TypeOK, familyVars, carcassVars, timeVars, semaphoreVars
  <2>5. QED
    BY <2>1, <2>2, <2>3, <2>4, InterruptsType, SwitchedType, SyscallsType
       DEF Next, Terminated
<1>3. QED
  BY <1>1, <1>2, PTL DEF Spec
-----------------------------------------------------------------------------
(* The time slice *)

\* The assertions have names of their own among the modes.
LEMMA AssertionNames ==
    \A m \in {AssertMaxThreads, AssertMaxChildren, AssertYieldSJF, AssertBurstStart} :
        m \notin {"run", "tick", "wait", "idle", "switch", "halted"}
<1> DEFINE Loops == {"run", "tick", "wait", "idle", "switch", "halted"}
<1>1. AssertMaxThreads \notin Loops
  BY DEF AssertMaxThreads
<1>2. AssertMaxChildren \notin Loops
  BY DEF AssertMaxChildren
<1>3. AssertYieldSJF \notin Loops
  BY DEF AssertYieldSJF
<1>4. AssertBurstStart \notin Loops
  BY DEF AssertBurstStart
<1>5. QED
  BY <1>1, <1>2, <1>3, <1>4


\* How far the current thread is into its slice when the timer next fires
SliceEnd == burst + timerIn
SliceBound == SCHED_QUANTUM + MaxPeriod

\* The inductive strengthening of TimeSlice: a slice that has outgrown the bound
\* is one whose end has been asked for.
SliceInv ==
    /\ timerIn <= MaxPeriod
    /\ yieldOnReturn => mode \notin {"run", "switch"}
    /\ Preemptive /\ mode \in {"run", "tick", "switch"} /\ ~yieldOnReturn
            => SliceEnd < SliceBound

\* What lies at most at a number below the bound lies below the bound.
LEMMA BelowBound ==
    \A x, y, m \in Int : x <= y /\ y < m => x < m
OBVIOUS

\* Time passes for both summands alike.
LEMMA AgeSlice ==
    ASSUME TypeOK, NEW b \in Nat, NEW d \in Nat, Age(b, d)
    PROVE  timerIn' <= timerIn /\ burst' + timerIn' <= b + timerIn
BY ConstantTypes DEF Age, Smaller, TypeOK

LEMMA SliceTypes ==
    ASSUME TypeOK
    PROVE  burst \in Nat /\ timerIn \in Int /\ SliceBound \in Int /\ MaxPeriod < SliceBound
<1>1. burst \in Nat /\ timerIn \in Int
  BY DEF TypeOK
<1>2. QED
  BY <1>1, ConstantTypes, TickAssumption DEF SliceBound

LEMMA SelectSlice ==
    ASSUME NEW r, NEW st, SelectNext(r, st)
    PROVE  mode' \in {"switch", "wait"} /\ (mode' = "switch" => burst' = 0)
BY DEF SelectNext, Dispatch

\* An action that puts the current thread to sleep, or picks one in Idle
LEMMA SelectKeeps ==
    ASSUME TypeOK, SliceInv, NEW r, NEW st, SelectNext(r, st), ~yieldOnReturn',
           timerIn' = timerIn
    PROVE  SliceInv'
<1>1. mode' \in {"switch", "wait"} /\ (mode' = "switch" => burst' = 0)
  BY SelectSlice
<1>2. timerIn \in Int /\ MaxPeriod \in Int /\ SliceBound \in Int /\ MaxPeriod < SliceBound
      /\ timerIn <= MaxPeriod
  BY SliceTypes, ConstantTypes DEF SliceInv
<1>3. mode' = "switch" => burst' + timerIn' < SliceBound
  BY <1>1, <1>2
<1>4. QED
  BY <1>1, <1>2, <1>3 DEF SliceInv, SliceEnd, SliceBound, Preemptive

\* An action that charges the thread that runs
LEMMA TickKeeps ==
    ASSUME TypeOK, SliceInv, NEW d \in Nat, OneTick(d), UNCHANGED yieldOnReturn,
           mode \in {"run", "switch"}
    PROVE  SliceInv'
<1>1. mode' = "tick" /\ timerIn' <= timerIn /\ burst' + timerIn' <= burst + timerIn
      /\ burst' \in Nat /\ timerIn' \in Int
  BY AgeSlice, AgeType DEF OneTick, TypeOK
<1>2. /\ burst \in Nat /\ timerIn \in Int /\ MaxPeriod \in Int /\ SliceBound \in Int
      /\ timerIn <= MaxPeriod /\ ~yieldOnReturn
      /\ Preemptive => burst + timerIn < SliceBound
  BY SliceTypes, ConstantTypes DEF SliceInv, SliceEnd
<1>3. timerIn' <= MaxPeriod
  BY <1>1, <1>2
<1>4. burst' + timerIn' \in Int /\ burst + timerIn \in Int
  BY <1>1, <1>2
<1>5. Preemptive => burst' + timerIn' < SliceBound
  BY <1>1, <1>2, <1>4, BelowBound
<1>6. QED
  BY <1>1, <1>2, <1>3, <1>5 DEF SliceInv, SliceEnd, SliceBound, Preemptive

LEMMA YieldKeeps ==
    ASSUME TypeOK, SliceInv, YieldCPU, ~yieldOnReturn'
    PROVE  SliceInv'
<1> timerIn \in Int /\ MaxPeriod \in Int /\ SliceBound \in Int /\ MaxPeriod < SliceBound
      /\ timerIn <= MaxPeriod
  BY SliceTypes, ConstantTypes DEF SliceInv
<1>1. ASSUME NEW r, NEW n, NEW st, Dispatch(r, n, st), timerIn' = timerIn
      PROVE  SliceInv'
  <2>1. mode' = "switch" /\ burst' = 0
    BY <1>1 DEF Dispatch
  <2>2. burst' + timerIn' < SliceBound
    BY <1>1, <2>1
  <2>3. QED
    BY <1>1, <2>1, <2>2 DEF SliceInv, SliceEnd, SliceBound, Preemptive
<1>2. CASE schedulingAlgo = UNIX_SCHED
  BY <1>1, <1>2 DEF YieldCPU
<1>3. CASE schedulingAlgo # UNIX_SCHED /\ readyThreadList # << >>
  BY <1>1, <1>3 DEF YieldCPU
<1>4. CASE schedulingAlgo # UNIX_SCHED /\ readyThreadList = << >>
  <2>1. CASE mode' = "tick" /\ Age(0, SystemTick)
    <3>1. timerIn' <= timerIn /\ burst' + timerIn' <= timerIn
          /\ burst' \in Nat /\ timerIn' \in Int
      BY <2>1, AgeSlice, AgeType, TickAssumption DEF TypeOK
    <3>2. burst' + timerIn' \in Int /\ timerIn < SliceBound
      BY <3>1
    <3>3. burst' + timerIn' < SliceBound
      BY <3>1, <3>2, BelowBound
    <3>4. timerIn' <= MaxPeriod
      BY <3>1
    <3>5. QED
      BY <2>1, <3>3, <3>4 DEF SliceInv, SliceEnd, SliceBound, Preemptive
  <2>2. CASE mode' = AssertYieldSJF /\ UNCHANGED timeVars
    <3>1. mode' \notin {"run", "tick", "switch"}
      BY <2>2, AssertionNames
    <3>2. QED
      BY <2>2, <3>1 DEF SliceInv, timeVars
  <2>3. QED
    BY <1>4, <2>1, <2>2 DEF YieldCPU
<1>5. QED
  BY <1>2, <1>3, <1>4

\* The end of a quantum is noticed at the first interrupt after it.
LEMMA TimerKeeps ==
    ASSUME TypeOK, SliceInv, TimerInterrupt
    PROVE  SliceInv'
<1>1. /\ mode \in {"tick", "idle"} /\ mode' \in {mode, AssertBurstStart}
      /\ timerIn' \in TimeOfNextInterrupt /\ burst' = burst
      /\ IF Preemptive /\ QuantumOver
         THEN yieldOnReturn' \/ mode' = AssertBurstStart
         ELSE UNCHANGED yieldOnReturn
  BY DEF TimerInterrupt, InCheckIfDue
<1>2. mode' \notin {"run", "switch"} /\ (mode' = "tick" => mode # AssertBurstStart)
  BY <1>1, AssertionNames
<1>3. timerIn' \in Int /\ timerIn' <= MaxPeriod
  BY <1>1, TickAssumption, ConstantTypes DEF TimeOfNextInterrupt, MaxPeriod
<1>4. ASSUME Preemptive, mode' = "tick", ~yieldOnReturn'
      PROVE  burst' + timerIn' < SliceBound
  <2>1. ~QuantumOver
    BY <1>1, <1>4, AssertionNames
  <2>2. burst \in Nat /\ burst < SCHED_QUANTUM /\ SCHED_QUANTUM \in Int /\ MaxPeriod \in Int
    BY <2>1, SliceTypes, TickAssumption, ConstantTypes DEF QuantumOver
  <2>3. \A b, t, q, m \in Int : b < q /\ t <= m => b + t < q + m
    OBVIOUS
  <2>4. burst' \in Int /\ burst' < SCHED_QUANTUM
    BY <1>1, <2>2
  <2>5. burst' + timerIn' < SCHED_QUANTUM + MaxPeriod
    BY <1>3, <2>2, <2>3, <2>4
  <2>6. SliceBound' = SliceBound
    BY ConstantTypes DEF SliceBound
  <2>7. QED
    BY <2>5, <2>6 DEF SliceBound
<1>5. QED
  BY <1>2, <1>3, <1>4 DEF SliceInv, SliceEnd, SliceBound, Preemptive

LEMMA SliceStep ==
    ASSUME TypeOK, SliceInv, [Next]_vars
    PROVE  SliceInv'
<1>1. CASE WriteDoneInterrupt \/ Start \/ QuickSyscall \/ PutChar \/ UNCHANGED vars
  <2>1. UNCHANGED <<mode, timerIn, burst, yieldOnReturn>>
    BY <1>1 DEF WriteDoneInterrupt, Start, QuickSyscall, PutChar, vars, timeVars
  <2>2. QED
    BY <2>1 DEF SliceInv, SliceEnd, SliceBound, Preemptive
<1>2. CASE TickReturn
  <2>1. CASE yieldOnReturn
    BY <1>2, <2>1, YieldKeeps DEF TickReturn
  <2>2. CASE ~yieldOnReturn
    <3>1. mode = "tick" /\ mode' = "run" /\ ~yieldOnReturn' /\ UNCHANGED <<timerIn, burst>>
      BY <1>2, <2>2 DEF TickReturn, timeVars
    <3>2. QED
      BY <2>2, <3>1 DEF SliceInv, SliceEnd, SliceBound, Preemptive
  <2>3. QED
    BY <2>1, <2>2
<1>3. CASE Idle
  <2>1. mode' \in {"idle", "halted"} /\ timerIn' <= timerIn /\ timerIn' \in Int
    <3>1. CASE NotTimerAlone
      <4> DEFINE d == IF NextDue > 0 THEN NextDue ELSE 0
      <4>1. NextDue \in Int
        BY DEF NextDue, TypeOK
      <4>2. mode' = "idle" /\ Age(burst, d) /\ d \in Nat
        BY <1>3, <3>1, <4>1 DEF Idle
      <4>3. QED
        BY <4>2, AgeSlice, AgeType DEF TypeOK
    <3>2. CASE ~NotTimerAlone
      BY <1>3, <3>2 DEF Idle, timeVars, TypeOK
    <3>3. QED
      BY <3>1, <3>2
  <2>2. timerIn' <= MaxPeriod
    BY <2>1, ConstantTypes DEF SliceInv, TypeOK
  <2>3. QED
    BY <2>1, <2>2 DEF SliceInv
<1>4. CASE IdleReturn
  BY <1>4, SelectKeeps DEF IdleReturn
<1>5. CASE ResumeFresh \/ Resume \/ Boot \/ Instruction
  <2>1. /\ OneTick(UserTick) \/ OneTick(SystemTick)
        /\ UNCHANGED yieldOnReturn /\ mode \in {"run", "switch"}
    BY <1>5 DEF ResumeFresh, Resume, Boot, Instruction
  <2>2. QED
    BY <2>1, TickKeeps, TickAssumption
<1>6. CASE ResumeP \/ SysPrint \/ NextCharacter
  <2>1. P /\ UNCHANGED yieldOnReturn /\ mode \in {"run", "switch"}
    BY <1>6 DEF ResumeP, SysPrint, NextCharacter, Exception
  <2>2. ~yieldOnReturn
    BY <2>1 DEF SliceInv
  <2>3. CASE value = 0
    BY <2>1, <2>2, <2>3, SelectKeeps DEF P, PutThreadToSleep
  <2>4. CASE value # 0
    BY <2>1, <2>4, TickKeeps, TickAssumption DEF P
  <2>5. QED
    BY <2>3, <2>4
<1>7. CASE FinishThread \/ SysSleep
  <2>1. PutThreadToSleep /\ ~yieldOnReturn' /\ timerIn' = timerIn
    BY <1>7 DEF FinishThread, SysSleep, SliceInv
  <2>2. QED
    BY <2>1, SelectKeeps DEF PutThreadToSleep
<1>8. CASE SysHalt
  BY <1>8 DEF SysHalt, timeVars, SliceInv
<1>9. CASE SysYield
  <2>1. YieldCPU /\ ~yieldOnReturn'
    BY <1>9 DEF SysYield, Exception, SliceInv
  <2>2. QED
    BY <2>1, YieldKeeps
<1>10. CASE SysFork
  <2>1. mode = "run" /\ UNCHANGED yieldOnReturn
    BY <1>10 DEF SysFork, Exception
  <2>2. CASE mode' \in {AssertMaxThreads, AssertMaxChildren} /\ UNCHANGED timeVars
    <3>1. mode' \notin {"run", "tick", "switch"}
      BY <2>2, AssertionNames
    <3>2. QED
      BY <2>2, <3>1 DEF SliceInv, timeVars
  <2>3. CASE OneTick(SystemTick)
    BY <2>1, <2>3, TickKeeps, TickAssumption
  <2>4. QED
    BY <1>10, <2>2, <2>3 DEF SysFork
<1>11. CASE SysJoin
  <2>1. /\ mode = "run" /\ ~yieldOnReturn' /\ timerIn' = timerIn /\ yieldOnReturn' = yieldOnReturn
        /\ PutThreadToSleep \/ UNCHANGED <<mode, burst>>
    BY <1>11 DEF SysJoin, Exception, SliceInv
  <2>2. CASE PutThreadToSleep
    BY <2>1, <2>2, SelectKeeps DEF PutThreadToSleep
  <2>3. CASE UNCHANGED <<mode, burst>>
    BY <2>1, <2>3 DEF SliceInv, SliceEnd, SliceBound, Preemptive
  <2>4. QED
    BY <2>1, <2>2, <2>3
<1>12. CASE SysExit
  <2>1. /\ ~yieldOnReturn' /\ timerIn' = timerIn
        /\ (\E r, st : SelectNext(r, st)) \/ mode' = "halted"
    BY <1>12 DEF SysExit, Exception, SliceInv
  <2>2. CASE mode' = "halted"
    BY <2>1, <2>2 DEF SliceInv
  <2>3. QED
    BY <2>1, <2>2, SelectKeeps
<1>13. QED
  BY <1>1, <1>2, <1>3, <1>4, <1>5, <1>6, <1>7, <1>8, <1>9, <1>10, <1>11, <1>12, TimerKeeps
     DEF Next, Interrupts, Switched, Syscalls, Terminated

\* No thread runs past its quantum by more than a timer period, whatever the
\* lengths of ticks, quantum and period, and with a timer that fires at random.
THEOREM SliceCorrect == Spec => []TimeSlice
<1>1. Init => SliceInv
  <2> SUFFICES ASSUME Init PROVE SliceInv
    OBVIOUS
  <2>1. timerIn \in Int /\ timerIn <= MaxPeriod /\ burst = 0 /\ ~yieldOnReturn
    BY TickAssumption, ConstantTypes DEF Init, MaxPeriod
  <2>2. SliceEnd < SliceBound
    BY <2>1, ConstantTypes, TickAssumption DEF SliceEnd, SliceBound
  <2>3. QED
    BY <2>1, <2>2 DEF SliceInv
<1>2. TypeOK /\ SliceInv /\ [Next]_vars => SliceInv'
  BY SliceStep
<1>3. SliceInv => TimeSlice
  BY DEF SliceInv, TimeSlice, SliceEnd, SliceBound
<1>4. QED
  BY <1>1, <1>2, <1>3, TypeCorrect, PTL DEF Spec

-----------------------------------------------------------------------------
(***************************************************************************)
(* Every thread is on the one list its status names (QueuesAgree), for     *)
(* every number of threads and every scheduling algorithm.  The code moves *)
(* threads with Append, Remove and SortedInsert and assigns the status     *)
(* separately, so the invariant rests on what those do to the members of   *)
(* a list that holds nobody twice.                                         *)
(***************************************************************************)

-----------------------------------------------------------------------------
(* Lists without duplicates *)

\* List::Append
LEMMA AppendMembers ==
    ASSUME NEW S, NEW s \in Seq(S), NEW x \in S
    PROVE  /\ Members(Append(s, x)) = Members(s) \cup {x}
           /\ NoDuplicates(s) /\ x \notin Members(s) => NoDuplicates(Append(s, x))
<1>1. /\ DOMAIN s = 1 .. Len(s) /\ DOMAIN Append(s, x) = 1 .. Len(s) + 1
      /\ Len(s) \in Nat
      /\ \A i \in 1 .. Len(s) : Append(s, x)[i] = s[i]
      /\ Append(s, x)[Len(s) + 1] = x
  OBVIOUS
<1> DEFINE a == Append(s, x)
<1> HIDE DEF a
<1>2. Members(a) = Members(s) \cup {x}
  <2>1. \A y \in Members(a) : y \in Members(s) \cup {x}
    BY <1>1 DEF Members, a
  <2>2. \A y \in Members(s) : y \in Members(a)
    BY <1>1 DEF Members, a
  <2>3. x \in Members(a)
    BY <1>1 DEF Members, a
  <2>4. QED
    BY <2>1, <2>2, <2>3
<1>3. ASSUME NoDuplicates(s), x \notin Members(s) PROVE NoDuplicates(a)
  BY <1>1, <1>3 DEF Members, NoDuplicates, a
<1>4. QED
  BY <1>2, <1>3 DEF a

\* List::Remove, and the removal of the thread with the least priority
LEMMA WithoutMembers ==
    ASSUME NEW S, NEW s \in Seq(S), NEW i \in 1 .. Len(s), NoDuplicates(s)
    PROVE  /\ Members(Without(s, i)) = Members(s) \ {s[i]}
           /\ NoDuplicates(Without(s, i))
<1> DEFINE w == Without(s, i)
<1>1. /\ DOMAIN s = 1 .. Len(s) /\ Len(s) \in Nat /\ i \in Int
      /\ DOMAIN w = 1 .. Len(s) - 1
      /\ \A j \in 1 .. Len(s) - 1 : w[j] = IF j < i THEN s[j] ELSE s[j + 1]
  BY DEF Without
<1> HIDE DEF w
<1>2. \A y \in Members(w) : y \in Members(s) \ {s[i]}
  BY <1>1 DEF Members, NoDuplicates
<1>3. ASSUME NEW y \in Members(s) \ {s[i]} PROVE y \in Members(w)
  <2>1. PICK j \in 1 .. Len(s) : y = s[j] /\ j # i
    BY <1>1, <1>3 DEF Members
  <2>2. CASE j < i
    BY <1>1, <2>1, <2>2 DEF Members
  <2>3. CASE j > i
    <3>1. j - 1 \in 1 .. Len(s) - 1 /\ w[j - 1] = s[j]
      BY <1>1, <2>1, <2>3
    <3>2. QED
      BY <1>1, <2>1, <3>1 DEF Members
  <2>4. QED
    BY <1>1, <2>1, <2>2, <2>3
<1>4. NoDuplicates(w)
  BY <1>1 DEF NoDuplicates
<1>5. QED
  BY <1>2, <1>3, <1>4 DEF w

\* The two halves of a list cut after n
LEMMA CutMembers ==
    ASSUME NEW S, NEW s \in Seq(S), NEW n \in 0 .. Len(s), NoDuplicates(s)
    PROVE  LET a == SubSeq(s, 1, n)
               b == SubSeq(s, n + 1, Len(s))
           IN  /\ a \in Seq(S) /\ b \in Seq(S)
               /\ NoDuplicates(a) /\ NoDuplicates(b)
               /\ Members(b) = Members(s) \ Members(a)
               /\ Members(a) \subseteq Members(s)
<1> DEFINE a == SubSeq(s, 1, n)
           b == SubSeq(s, n + 1, Len(s))
<1>1. /\ a \in Seq(S) /\ b \in Seq(S) /\ Len(s) \in Nat /\ n \in Int
      /\ DOMAIN s = 1 .. Len(s) /\ DOMAIN a = 1 .. n /\ DOMAIN b = 1 .. Len(s) - n
      /\ \A j \in 1 .. n : a[j] = s[j]
      /\ \A j \in 1 .. Len(s) - n : b[j] = s[n + j]
  <2>1. Len(s) \in Nat /\ n \in Int /\ DOMAIN s = 1 .. Len(s)
    OBVIOUS
  <2>2. a \in Seq(S) /\ DOMAIN a = 1 .. n /\ \A j \in 1 .. n : a[j] = s[j]
    OBVIOUS
  <2>3. /\ b \in Seq(S) /\ DOMAIN b = 1 .. Len(s) - n
        /\ \A j \in 1 .. Len(s) - n : b[j] = s[n + j]
    OBVIOUS
  <2>4. QED
    BY <2>1, <2>2, <2>3
<1> HIDE DEF a, b
<1>2. NoDuplicates(a)
  <2> SUFFICES ASSUME NEW i \in 1 .. n, NEW j \in 1 .. n, a[i] = a[j] PROVE i = j
    BY <1>1 DEF NoDuplicates
  <2>1. s[i] = s[j] /\ i \in 1 .. Len(s) /\ j \in 1 .. Len(s)
    BY <1>1
  <2>2. QED
    BY <1>1, <2>1 DEF NoDuplicates
<1>3. NoDuplicates(b)
  <2> SUFFICES ASSUME NEW i \in 1 .. Len(s) - n, NEW j \in 1 .. Len(s) - n, b[i] = b[j]
               PROVE  i = j
    BY <1>1 DEF NoDuplicates
  <2>1. s[n + i] = s[n + j] /\ n + i \in 1 .. Len(s) /\ n + j \in 1 .. Len(s)
    BY <1>1
  <2>2. n + i = n + j
    BY <1>1, <2>1 DEF NoDuplicates
  <2>3. QED
    BY <1>1, <2>2
<1>4. Members(a) \subseteq Members(s)
  BY <1>1 DEF Members
<1>5. ASSUME NEW y \in Members(b) PROVE y \in Members(s) /\ y \notin Members(a)
  <2>1. PICK j \in 1 .. Len(s) - n : y = b[j]
    BY <1>1 DEF Members
  <2>2. n + j \in 1 .. Len(s) /\ y = s[n + j]
    BY <1>1, <2>1
  <2>3. \A i \in 1 .. n : i \in 1 .. Len(s) /\ i # n + j
    BY <1>1
  <2>4. \A i \in 1 .. n : s[i] # y
    BY <1>1, <2>2, <2>3 DEF NoDuplicates
  <2>5. y \in Members(s)
    BY <1>1, <2>2 DEF Members
  <2>6. y \notin Members(a)
    BY <1>1, <2>4 DEF Members
  <2>7. QED
    BY <2>5, <2>6
<1>6. ASSUME NEW y \in Members(s), y \notin Members(a) PROVE y \in Members(b)
  <2>1. PICK j \in 1 .. Len(s) : y = s[j]
    BY <1>1 DEF Members
  <2>2. j > n
    <3>1. \A i \in 1 .. n : s[i] # y
      BY <1>1, <1>6 DEF Members
    <3>2. QED
      BY <1>1, <2>1, <3>1
  <2>3. j - n \in 1 .. Len(s) - n /\ b[j - n] = s[j]
    <3>1. j - n \in 1 .. Len(s) - n /\ n + (j - n) = j
      BY <1>1, <2>1, <2>2
    <3>2. b[j - n] = s[n + (j - n)]
      BY <1>1, <3>1
    <3>3. QED
      BY <3>1, <3>2
  <2>4. QED
    BY <1>1, <2>1, <2>3 DEF Members
<1>7. QED
  BY <1>1, <1>2, <1>3, <1>4, <1>5, <1>6 DEF a, b

LEMMA TailMembers ==
    ASSUME NEW S, NEW s \in Seq(S), s # << >>, NoDuplicates(s)
    PROVE  /\ Tail(s) \in Seq(S) /\ NoDuplicates(Tail(s))
           /\ Head(s) \in Members(s)
           /\ Members(Tail(s)) = Members(s) \ {Head(s)}
<1> DEFINE t == Tail(s)
<1>1. /\ t \in Seq(S) /\ Len(s) \in Nat /\ Len(s) > 0 /\ Head(s) = s[1]
      /\ DOMAIN s = 1 .. Len(s) /\ DOMAIN t = 1 .. Len(s) - 1
      /\ \A j \in 1 .. Len(s) - 1 : t[j] = s[j + 1]
  OBVIOUS
<1> HIDE DEF t
<1>2. NoDuplicates(t) /\ Head(s) \in Members(s)
  <2>1. Head(s) \in Members(s)
    BY <1>1 DEF Members
  <2> SUFFICES ASSUME NEW i \in 1 .. Len(s) - 1, NEW j \in 1 .. Len(s) - 1, t[i] = t[j]
               PROVE  i = j
    BY <1>1, <2>1 DEF NoDuplicates
  <2>2. s[i + 1] = s[j + 1] /\ i + 1 \in 1 .. Len(s) /\ j + 1 \in 1 .. Len(s)
    BY <1>1
  <2>3. i + 1 = j + 1
    BY <1>1, <2>2 DEF NoDuplicates
  <2>4. QED
    BY <2>3
<1>3. \A y \in Members(t) : y \in Members(s) \ {Head(s)}
  BY <1>1 DEF NoDuplicates, Members
<1>4. ASSUME NEW y \in Members(s) \ {Head(s)} PROVE y \in Members(t)
  <2>1. PICK j \in 1 .. Len(s) : y = s[j] /\ j # 1
    BY <1>1, <1>4 DEF Members
  <2>2. j - 1 \in 1 .. Len(s) - 1 /\ t[j - 1] = s[j]
    BY <1>1, <2>1
  <2>3. QED
    BY <1>1, <2>1, <2>2 DEF Members
<1>5. QED
  BY <1>1, <1>2, <1>3, <1>4 DEF t

LEMMA ConcatMembers ==
    ASSUME NEW S, NEW s \in Seq(S), NEW t \in Seq(S)
    PROVE  /\ Members(s \o t) = Members(s) \cup Members(t)
           /\ NoDuplicates(s) /\ NoDuplicates(t) /\ Members(s) \cap Members(t) = {}
                => NoDuplicates(s \o t)
<1> DEFINE c == s \o t
<1>1. /\ Len(s) \in Nat /\ Len(t) \in Nat
      /\ DOMAIN s = 1 .. Len(s) /\ DOMAIN t = 1 .. Len(t)
      /\ DOMAIN c = 1 .. Len(s) + Len(t)
      /\ \A j \in 1 .. Len(s) + Len(t) : c[j] = IF j <= Len(s) THEN s[j] ELSE t[j - Len(s)]
  OBVIOUS
<1> HIDE DEF c
<1>2. \A y \in Members(c) : y \in Members(s) \cup Members(t)
  BY <1>1 DEF Members
<1>3. \A y \in Members(s) : y \in Members(c)
  BY <1>1 DEF Members
<1>4. ASSUME NEW y \in Members(t) PROVE y \in Members(c)
  <2>1. PICK j \in 1 .. Len(t) : y = t[j]
    BY <1>1 DEF Members
  <2>2. Len(s) + j \in 1 .. Len(s) + Len(t) /\ c[Len(s) + j] = t[j]
    BY <1>1, <2>1
  <2>3. QED
    BY <1>1, <2>1, <2>2 DEF Members
<1>5. ASSUME NoDuplicates(s), NoDuplicates(t), Members(s) \cap Members(t) = {}
      PROVE  NoDuplicates(c)
  <2> SUFFICES ASSUME NEW i \in 1 .. Len(s) + Len(t), NEW j \in 1 .. Len(s) + Len(t),
                      c[i] = c[j], i < j
               PROVE  FALSE
    BY <1>1 DEF NoDuplicates
  <2>1. CASE j <= Len(s)
    BY <1>1, <1>5, <2>1 DEF NoDuplicates
  <2>2. CASE i > Len(s)
    <3>1. /\ i - Len(s) \in 1 .. Len(t) /\ j - Len(s) \in 1 .. Len(t)
          /\ t[i - Len(s)] = t[j - Len(s)] /\ i - Len(s) # j - Len(s)
      BY <1>1, <2>2
    <3>2. QED
      BY <1>1, <1>5, <3>1 DEF NoDuplicates
  <2>3. CASE i <= Len(s) /\ j > Len(s)
    <3>1. s[i] \in Members(s) /\ t[j - Len(s)] \in Members(t)
      BY <1>1, <2>3 DEF Members
    <3>2. c[i] = s[i] /\ c[j] = t[j - Len(s)]
      BY <1>1, <2>3
    <3>3. QED
      BY <1>5, <3>1, <3>2
  <2>4. QED
    BY <1>1, <2>1, <2>2, <2>3
<1>6. QED
  BY <1>2, <1>3, <1>4, <1>5 DEF c

\* List::SortedInsert
LEMMA InsertMembers ==
    ASSUME NEW S, NEW s \in Seq(S), NEW x \in S, NEW n \in 0 .. Len(s), NEW r,
           r = [i \in 1 .. Len(s) + 1 |-> IF i <= n THEN s[i]
                                          ELSE IF i = n + 1 THEN x ELSE s[i - 1]]
    PROVE  /\ Members(r) = Members(s) \cup {x}
           /\ NoDuplicates(s) /\ x \notin Members(s) => NoDuplicates(r)
<1>1. /\ Len(s) \in Nat /\ n \in Int /\ DOMAIN s = 1 .. Len(s)
      /\ DOMAIN r = 1 .. Len(s) + 1
      /\ \A i \in 1 .. Len(s) + 1 :
           r[i] = IF i <= n THEN s[i] ELSE IF i = n + 1 THEN x ELSE s[i - 1]
  OBVIOUS
<1>2. \A y \in Members(r) : y \in Members(s) \cup {x}
  BY <1>1 DEF Members
<1>3. x \in Members(r)
  <2>1. n + 1 \in 1 .. Len(s) + 1 /\ r[n + 1] = x
    BY <1>1
  <2>2. QED
    BY <1>1, <2>1 DEF Members
<1>4. ASSUME NEW y \in Members(s) PROVE y \in Members(r)
  <2>1. PICK j \in 1 .. Len(s) : y = s[j]
    BY <1>1 DEF Members
  <2>2. CASE j <= n
    <3>1. j \in 1 .. Len(s) + 1 /\ r[j] = s[j]
      BY <1>1, <2>1, <2>2
    <3>2. QED
      BY <1>1, <2>1, <3>1 DEF Members
  <2>3. CASE j > n
    <3>1. j + 1 \in 1 .. Len(s) + 1 /\ r[j + 1] = s[j]
      BY <1>1, <2>1, <2>3
    <3>2. QED
      BY <1>1, <2>1, <3>1 DEF Members
  <2>4. QED
    BY <1>1, <2>1, <2>2, <2>3
<1>5. ASSUME NoDuplicates(s), x \notin Members(s) PROVE NoDuplicates(r)
  <2> SUFFICES ASSUME NEW i \in 1 .. Len(s) + 1, NEW j \in 1 .. Len(s) + 1,
                      r[i] = r[j], i < j
               PROVE  FALSE
    BY <1>1 DEF NoDuplicates
  <2>1. \A k \in 1 .. Len(s) : s[k] # x
    BY <1>1, <1>5 DEF Members
  <2> DEFINE old(k) == IF k <= n THEN k ELSE k - 1
  <2>2. CASE i = n + 1 \/ j = n + 1
    <3>1. PICK k \in {i, j} : r[k] = x /\ k # n + 1
      BY <1>1, <2>2
    <3>2. old(k) \in 1 .. Len(s) /\ r[k] = s[old(k)]
      BY <1>1, <3>1
    <3>3. QED
      BY <2>1, <3>1, <3>2
  <2>3. CASE i # n + 1 /\ j # n + 1
    <3>1. /\ old(i) \in 1 .. Len(s) /\ r[i] = s[old(i)]
          /\ old(j) \in 1 .. Len(s) /\ r[j] = s[old(j)]
          /\ old(i) < old(j)
      BY <1>1, <2>3
    <3> HIDE DEF old
    <3>2. s[old(i)] = s[old(j)]
      BY <3>1
    <3>3. old(i) = old(j)
      BY <1>1, <1>5, <3>1, <3>2 DEF NoDuplicates
    <3>4. QED
      BY <3>1, <3>3
  <2>4. QED
    BY <2>2, <2>3
<1>6. QED
  BY <1>2, <1>3, <1>4, <1>5
-----------------------------------------------------------------------------
(* The invariant, in the parts an action changes separately *)

\* The ready list r under the status function st
ReadyAgrees(r, st) ==
    NoDuplicates(r) /\ \A p \in Pid : p \in Members(r) <=> st[p] = "READY"

\* The two queues a thread sleeps on, and the threads not forked yet
BlockedAgree(st, at, sleepers, waiters, n) ==
    /\ NoDuplicates(sleepers) /\ NoDuplicates(waiters)
    /\ \A p \in Pid :
        /\ p \in Members(sleepers) <=> st[p] = "BLOCKED" /\ at[p] = "sleep"
        /\ p \in Members(waiters) <=> st[p] = "BLOCKED" /\ at[p] = "P"
        /\ st[p] = "BLOCKED" => at[p] \in {"sleep", "P", "join", "exit"}
        /\ st[p] = "JUST_CREATED" <=> p >= n

\* The CPU's user under st, while mode is m
OneRuns(st, m, c) ==
    /\ \A p \in Pid : st[p] = "RUNNING" => p = c
    /\ m \in {"run", "tick", "switch"} => st[c] = "RUNNING"
    /\ m \in {"wait", "idle"} => st[c] # "RUNNING"

\* A parent that a child's exit will wake is asleep in JoinWithChild, so it is on
\* no list and may be put on the ready list.
JoinersSleep ==
    \A p \in Pid : waitchild_id[p] # None => status[p] = "BLOCKED" /\ pc[p] = "join"

\* A thread that joins or has exited is on no queue to be woken from: every step
\* but an exit leaves it asleep or not.
UnqueuedKept ==
    \A p \in Pid : pc[p] \in {"join", "exit"} /\ pc'[p] = pc[p] =>
                      (status'[p] = "BLOCKED" <=> status[p] = "BLOCKED")

\* When the current thread goes to sleep nobody else does, or wakes.
BlockedKept ==
    /\ status'[currentThread] = "BLOCKED"
    /\ \A p \in Pid \ {currentThread} : status'[p] = "BLOCKED" <=> status[p] = "BLOCKED"

\* Nobody goes to sleep or wakes.
AwakeKept == \A p \in Pid : status'[p] = "BLOCKED" <=> status[p] = "BLOCKED"

\* The inductive strengthening of QueuesAgree.
QueuesInv ==
    /\ ReadyAgrees(readyThreadList, status)
    /\ BlockedAgree(status, pc, sleepQueue, queue, thread_index)
    /\ OneRuns(status, mode, currentThread)
    /\ JoinersSleep

LEMMA QueuesInvImplies ==
    ASSUME QueuesInv
    PROVE  QueuesAgree
BY DEF QueuesInv, QueuesAgree, ReadyAgrees, BlockedAgree, OneRuns

-----------------------------------------------------------------------------
(* What the scheduler does to it *)

\* A thread that is READY under st becomes the only RUNNING one.
LEMMA DispatchAgrees ==
    ASSUME NEW r \in Seq(Pid), NEW n \in 0 .. Len(r), NEW st \in [Pid -> ThreadStatus],
           ReadyAgrees(r, st), \A p \in Pid : st[p] # "RUNNING", Dispatch(r, n, st)
    PROVE  /\ ReadyAgrees(readyThreadList', status')
           /\ OneRuns(status', mode', currentThread')
           /\ \A p \in Pid : status'[p] # st[p] => st[p] = "READY" /\ status'[p] = "RUNNING"
<1>1. PICK i \in 1 .. n : /\ currentThread' = r[i]
                          /\ readyThreadList' = Without(r, i)
                          /\ status' = [st EXCEPT ![r[i]] = "RUNNING"]
                          /\ mode' = "switch"
  BY DEF Dispatch
<1>2. i \in 1 .. Len(r) /\ r[i] \in Pid /\ r[i] \in Members(r)
  BY DEF Members
<1>3. st[r[i]] = "READY"
  BY <1>2 DEF ReadyAgrees
<1>4. /\ Members(readyThreadList') = Members(r) \ {r[i]}
      /\ NoDuplicates(readyThreadList')
  BY <1>1, <1>2, WithoutMembers DEF ReadyAgrees
<1>5. QED
  BY <1>1, <1>2, <1>3, <1>4 DEF ReadyAgrees, OneRuns

\* A change of READY to RUNNING does not concern the blocked.
LEMMA BlockedUntouched ==
    ASSUME NEW st \in [Pid -> ThreadStatus], NEW tt \in [Pid -> ThreadStatus],
           NEW at, NEW sleepers, NEW waiters, NEW n,
           BlockedAgree(st, at, sleepers, waiters, n),
           \A p \in Pid : tt[p] # st[p] => st[p] \in {"READY", "RUNNING"}
                                          /\ tt[p] \in {"READY", "RUNNING"}
    PROVE  BlockedAgree(tt, at, sleepers, waiters, n)
BY DEF BlockedAgree

LEMMA SelectNextAgrees ==
    ASSUME TypeOK, NEW r \in Seq(Pid), NEW st \in [Pid -> ThreadStatus],
           ReadyAgrees(r, st), \A p \in Pid : st[p] # "RUNNING", SelectNext(r, st),
           BlockedAgree(st, pc', sleepQueue', queue', thread_index')
    PROVE  /\ ReadyAgrees(readyThreadList', status')
           /\ BlockedAgree(status', pc', sleepQueue', queue', thread_index')
           /\ OneRuns(status', mode', currentThread')
           /\ \A p \in Pid : status'[p] # st[p] => st[p] = "READY" /\ status'[p] = "RUNNING"
<1>1. CASE r # << >>
  <2>1. Dispatch(r, Len(r), st) /\ Len(r) \in 0 .. Len(r)
    BY <1>1 DEF SelectNext
  <2>2. /\ ReadyAgrees(readyThreadList', status')
        /\ OneRuns(status', mode', currentThread')
        /\ \A p \in Pid : status'[p] # st[p] => st[p] = "READY" /\ status'[p] = "RUNNING"
    BY <2>1, DispatchAgrees
  <2>3. status' \in [Pid -> ThreadStatus]
    BY <2>1, DispatchType
  <2>4. QED
    BY <2>2, <2>3, BlockedUntouched
<1>2. CASE r = << >>
  <2>1. /\ mode' = "wait" /\ status' = st /\ readyThreadList' = r
        /\ currentThread' = currentThread
    BY <1>2 DEF SelectNext
  <2>2. QED
    BY <2>1 DEF OneRuns, TypeOK
<1>3. QED
  BY <1>1, <1>2
-----------------------------------------------------------------------------
(* The parts of an action *)

InCPU == mode \in {"run", "tick", "switch"}

LEMMA RunnerFacts ==
    ASSUME TypeOK, QueuesInv, InCPU
    PROVE  /\ currentThread \in Pid /\ status[currentThread] = "RUNNING"
           /\ waitchild_id[currentThread] = None
           /\ currentThread \notin Members(readyThreadList)
           /\ currentThread \notin Members(sleepQueue)
           /\ currentThread \notin Members(queue)
           /\ \A p \in Pid : status[p] = "RUNNING" => p = currentThread
<1>1. currentThread \in Pid /\ status[currentThread] = "RUNNING"
  BY DEF QueuesInv, OneRuns, InCPU, TypeOK
<1>2. QED
  BY <1>1 DEF QueuesInv, OneRuns, ReadyAgrees, BlockedAgree, JoinersSleep

\* The current thread goes on elsewhere in its code.
LEMMA StaysRunning ==
    ASSUME TypeOK, QueuesInv, InCPU, NEW k, pc' = [pc EXCEPT ![currentThread] = k],
           mode' \notin {"wait", "idle"},
           UNCHANGED <<currentThread, status, readyThreadList, sleepQueue, queue,
                       thread_index, waitchild_id>>
    PROVE  QueuesInv'
<1>1. currentThread \in Pid /\ status[currentThread] = "RUNNING"
  BY RunnerFacts
<1>2. ReadyAgrees(readyThreadList', status') /\ OneRuns(status', mode', currentThread')
  BY <1>1 DEF QueuesInv, ReadyAgrees, OneRuns
<1>3. BlockedAgree(status', pc', sleepQueue', queue', thread_index')
  BY <1>1 DEF QueuesInv, BlockedAgree, TypeOK
<1>4. JoinersSleep'
  BY <1>1 DEF QueuesInv, JoinersSleep, TypeOK
<1>5. QED
  BY <1>2, <1>3, <1>4 DEF QueuesInv

\* The same when it stays where it is
LEMMA StaysThere ==
    ASSUME TypeOK, QueuesInv, InCPU, mode' \notin {"wait", "idle"},
           UNCHANGED <<pc, currentThread, status, readyThreadList, sleepQueue, queue,
                       thread_index, waitchild_id>>
    PROVE  QueuesInv'
<1>1. pc' = [pc EXCEPT ![currentThread] = pc[currentThread]]
  BY DEF TypeOK
<1>2. QED
  BY <1>1, StaysRunning

\* The current thread goes to sleep at k, having put itself on a queue or not.
LEMMA GoesToSleep ==
    ASSUME TypeOK, QueuesInv, InCPU, NEW k, pc' = [pc EXCEPT ![currentThread] = k],
           PutThreadToSleep, UNCHANGED thread_index,
           BlockedAgree([status EXCEPT ![currentThread] = "BLOCKED"], pc',
                        sleepQueue', queue', thread_index),
           \A p \in Pid \ {currentThread} : waitchild_id'[p] = waitchild_id[p],
           waitchild_id'[currentThread] # None => k = "join",
           pc[currentThread] \notin {"join", "exit"}
    PROVE  QueuesInv' /\ UnqueuedKept /\ BlockedKept
<1> DEFINE st == [status EXCEPT ![currentThread] = "BLOCKED"]
<1>1. /\ currentThread \in Pid /\ status[currentThread] = "RUNNING"
      /\ \A p \in Pid : status[p] = "RUNNING" => p = currentThread
  BY RunnerFacts
<1>2. /\ st \in [Pid -> ThreadStatus] /\ readyThreadList \in Seq(Pid)
      /\ \A p \in Pid : st[p] = IF p = currentThread THEN "BLOCKED" ELSE status[p]
  BY DEF TypeOK, ThreadStatus
<1>3. SelectNext(readyThreadList, st)
  BY DEF PutThreadToSleep
<1>4. BlockedAgree(st, pc', sleepQueue', queue', thread_index')
  OBVIOUS
<1> HIDE DEF st
<1>5. ReadyAgrees(readyThreadList, st) /\ \A p \in Pid : st[p] # "RUNNING"
  BY <1>1, <1>2 DEF QueuesInv, ReadyAgrees
<1>6. /\ ReadyAgrees(readyThreadList', status')
      /\ BlockedAgree(status', pc', sleepQueue', queue', thread_index')
      /\ OneRuns(status', mode', currentThread')
      /\ \A p \in Pid : status'[p] # st[p] => st[p] = "READY" /\ status'[p] = "RUNNING"
  BY <1>2, <1>3, <1>4, <1>5, SelectNextAgrees
<1>7. ASSUME NEW p \in Pid, waitchild_id'[p] # None
      PROVE  status'[p] = "BLOCKED" /\ pc'[p] = "join"
  <2>1. CASE p = currentThread
    BY <1>2, <1>6, <1>7, <2>1 DEF TypeOK
  <2>2. CASE p # currentThread
    <3>1. status[p] = "BLOCKED" /\ pc[p] = "join"
      BY <1>7, <2>2 DEF QueuesInv, JoinersSleep
    <3>2. QED
      BY <1>2, <1>6, <2>2, <3>1 DEF TypeOK
  <2>3. QED
    BY <2>1, <2>2
<1>8. BlockedKept
  <2>1. ASSUME NEW p \in Pid \ {currentThread}
        PROVE  status'[p] = "BLOCKED" <=> status[p] = "BLOCKED"
    <3>1. st[p] = status[p]
      BY <1>2
    <3>2. QED
      BY <1>6, <3>1
  <2>2. status'[currentThread] = "BLOCKED"
    BY <1>1, <1>2, <1>6
  <2>3. QED
    BY <2>1, <2>2 DEF BlockedKept
<1>9. UnqueuedKept
  BY <1>8 DEF UnqueuedKept, BlockedKept
<1>10. QED
  BY <1>6, <1>7, <1>8, <1>9 DEF QueuesInv, JoinersSleep

\* It sleeps on neither queue: in a join, or because it is finished.
LEMMA SleepsNowhere ==
    ASSUME TypeOK, QueuesInv, InCPU, NEW k \in {"join", "exit"},
           pc' = [pc EXCEPT ![currentThread] = k],
           UNCHANGED <<sleepQueue, queue>>
    PROVE  BlockedAgree([status EXCEPT ![currentThread] = "BLOCKED"], pc',
                        sleepQueue', queue', thread_index)
<1>1. /\ currentThread \in Pid /\ status[currentThread] = "RUNNING"
      /\ currentThread \notin Members(sleepQueue) /\ currentThread \notin Members(queue)
  BY RunnerFacts
<1>2. QED
  BY <1>1 DEF QueuesInv, BlockedAgree, TypeOK

LEMMA YieldAgrees ==
    ASSUME TypeOK, QueuesInv, InCPU, YieldCPU, NEW k,
           pc' = [pc EXCEPT ![currentThread] = k],
           UNCHANGED <<sleepQueue, queue, thread_index, waitchild_id>>
    PROVE  QueuesInv' /\ UnqueuedKept /\ AwakeKept
<1> DEFINE st == [status EXCEPT ![currentThread] = "READY"]
           r == Append(readyThreadList, currentThread)
<1>1. /\ currentThread \in Pid /\ status[currentThread] = "RUNNING"
      /\ currentThread \notin Members(readyThreadList)
      /\ \A p \in Pid : status[p] = "RUNNING" => p = currentThread
      /\ waitchild_id[currentThread] = None
  BY RunnerFacts
<1>2. /\ st \in [Pid -> ThreadStatus]
      /\ \A p \in Pid : st[p] = IF p = currentThread THEN "READY" ELSE status[p]
  BY DEF TypeOK, ThreadStatus
<1>3. r \in Seq(Pid) /\ Len(r) \in 0 .. Len(r) /\ Len(readyThreadList) \in 0 .. Len(r)
  BY DEF TypeOK
<1>4. ASSUME NEW n \in 0 .. Len(r), Dispatch(r, n, st)
      PROVE  QueuesInv' /\ UnqueuedKept /\ AwakeKept
  <2>1. Members(r) = Members(readyThreadList) \cup {currentThread} /\ NoDuplicates(r)
    BY <1>1, AppendMembers DEF TypeOK, QueuesInv, ReadyAgrees
  <2> HIDE DEF st, r
  <2>2. ReadyAgrees(r, st) /\ \A p \in Pid : st[p] # "RUNNING"
    BY <1>1, <1>2, <2>1 DEF QueuesInv, ReadyAgrees
  <2>3. /\ ReadyAgrees(readyThreadList', status')
        /\ OneRuns(status', mode', currentThread')
        /\ \A p \in Pid : status'[p] # st[p] => st[p] = "READY" /\ status'[p] = "RUNNING"
    BY <1>2, <1>3, <1>4, <2>2, DispatchAgrees
  <2>4. status' \in [Pid -> ThreadStatus]
    BY <1>2, <1>3, <1>4, DispatchType
  <2>5. BlockedAgree(st, pc', sleepQueue', queue', thread_index')
    BY <1>1, <1>2 DEF QueuesInv, BlockedAgree, TypeOK
  <2>6. BlockedAgree(status', pc', sleepQueue', queue', thread_index')
    BY <1>2, <2>3, <2>4, <2>5, BlockedUntouched
  <2>7. JoinersSleep'
    <3> SUFFICES ASSUME NEW p \in Pid, waitchild_id[p] # None
                 PROVE  status'[p] = "BLOCKED" /\ pc'[p] = "join"
      BY DEF JoinersSleep
    <3>1. status[p] = "BLOCKED" /\ pc[p] = "join" /\ p # currentThread
      BY <1>1 DEF QueuesInv, JoinersSleep
    <3>2. QED
      BY <1>2, <2>3, <3>1 DEF TypeOK
  <2>8. AwakeKept /\ UnqueuedKept
    BY <1>1, <1>2, <2>3 DEF AwakeKept, UnqueuedKept
  <2>9. QED
    BY <2>3, <2>6, <2>7, <2>8 DEF QueuesInv
<1>5. CASE schedulingAlgo = UNIX_SCHED
  BY <1>3, <1>4, <1>5 DEF YieldCPU
<1>6. CASE schedulingAlgo # UNIX_SCHED /\ readyThreadList # << >>
  BY <1>3, <1>4, <1>6 DEF YieldCPU
<1>7. CASE schedulingAlgo # UNIX_SCHED /\ readyThreadList = << >>
  <2>1. /\ mode' \in {AssertYieldSJF, "tick"}
        /\ UNCHANGED <<currentThread, readyThreadList, status>>
    BY <1>7 DEF YieldCPU
  <2>2. mode' \notin {"wait", "idle"}
    BY <2>1 DEF AssertYieldSJF
  <2>3. QED
    BY <2>1, <2>2, StaysRunning DEF AwakeKept, UnqueuedKept
<1>8. QED
  BY <1>5, <1>6, <1>7

LEMMA PAgrees ==
    ASSUME TypeOK, QueuesInv, InCPU, P, pc[currentThread] \notin {"join", "exit"},
           UNCHANGED <<sleepQueue, thread_index, waitchild_id>>
    PROVE  QueuesInv' /\ UnqueuedKept /\ (value = 0 => BlockedKept)
<1>1. CASE value # 0
  <2>1. pc' = [pc EXCEPT ![currentThread] = "put"] /\ mode' = "tick"
        /\ UNCHANGED <<queue, currentThread, status, readyThreadList>>
    BY <1>1 DEF P, Continue, OneTick
  <2>2. QED
    BY <1>1, <2>1, StaysRunning DEF UnqueuedKept
<1>2. CASE value = 0
  <2>1. /\ queue' = Append(queue, currentThread) /\ PutThreadToSleep
        /\ pc' = [pc EXCEPT ![currentThread] = "P"]
    BY <1>2 DEF P, Continue
  <2>2. /\ currentThread \in Pid /\ status[currentThread] = "RUNNING"
        /\ currentThread \notin Members(queue) /\ waitchild_id[currentThread] = None
        /\ currentThread \notin Members(sleepQueue)
    BY RunnerFacts
  <2>3. Members(queue') = Members(queue) \cup {currentThread} /\ NoDuplicates(queue')
    BY <2>1, <2>2, AppendMembers DEF TypeOK, QueuesInv, BlockedAgree
  <2>4. BlockedAgree([status EXCEPT ![currentThread] = "BLOCKED"], pc',
                     sleepQueue', queue', thread_index)
    BY <2>1, <2>2, <2>3 DEF QueuesInv, BlockedAgree, TypeOK
  <2>5. QED
    BY <2>1, <2>2, <2>4, GoesToSleep
<1>3. QED
  BY <1>1, <1>2
-----------------------------------------------------------------------------
(* The actions *)

LEMMA TimerAgrees ==
    ASSUME TypeOK, QueuesInv, TimerInterrupt
    PROVE  QueuesInv' /\ UnqueuedKept
<1>1. PICK n \in 0 .. Len(sleepQueue) :
        /\ readyThreadList' = readyThreadList \o SubSeq(sleepQueue, 1, n)
        /\ sleepQueue' = SubSeq(sleepQueue, n + 1, Len(sleepQueue))
        /\ status' = [p \in Pid |-> IF p \in Members(SubSeq(sleepQueue, 1, n))
                                    THEN "READY" ELSE status[p]]
  BY DEF TimerInterrupt
<1> DEFINE woken == SubSeq(sleepQueue, 1, n)
<1>2. /\ sleepQueue \in Seq(Pid) /\ NoDuplicates(sleepQueue)
      /\ readyThreadList \in Seq(Pid) /\ NoDuplicates(readyThreadList)
  BY DEF TypeOK, QueuesInv, BlockedAgree, ReadyAgrees
<1>3. /\ woken \in Seq(Pid) /\ NoDuplicates(woken) /\ NoDuplicates(sleepQueue')
      /\ Members(sleepQueue') = Members(sleepQueue) \ Members(woken)
      /\ Members(woken) \subseteq Members(sleepQueue)
  BY <1>1, <1>2, CutMembers
<1>4. /\ readyThreadList' = readyThreadList \o woken
      /\ status' = [p \in Pid |-> IF p \in Members(woken) THEN "READY" ELSE status[p]]
  BY <1>1
<1> HIDE DEF woken
<1>5. \A p \in Pid : p \in Members(woken) => status[p] = "BLOCKED" /\ pc[p] = "sleep"
  BY <1>3 DEF QueuesInv, BlockedAgree
<1>6. Members(readyThreadList) \cap Members(woken) = {}
  <2>1. \A p \in Members(readyThreadList) : p \in Pid
    BY <1>2 DEF Members
  <2>2. QED
    BY <1>5, <2>1 DEF QueuesInv, ReadyAgrees
<1>7. /\ Members(readyThreadList') = Members(readyThreadList) \cup Members(woken)
      /\ NoDuplicates(readyThreadList')
  BY <1>2, <1>3, <1>4, <1>6, ConcatMembers
<1>8. ReadyAgrees(readyThreadList', status')
  BY <1>4, <1>7 DEF QueuesInv, ReadyAgrees
<1>9. UNCHANGED <<pc, queue, thread_index, waitchild_id, currentThread>>
  BY DEF TimerInterrupt, familyVars, semaphoreVars
<1>10. BlockedAgree(status', pc', sleepQueue', queue', thread_index')
  BY <1>3, <1>4, <1>5, <1>9 DEF QueuesInv, BlockedAgree
<1>11. mode' = mode \/ mode' = AssertBurstStart
  BY DEF TimerInterrupt
<1>12. OneRuns(status', mode', currentThread')
  BY <1>4, <1>5, <1>9, <1>11 DEF QueuesInv, OneRuns, TypeOK, AssertBurstStart
<1>13. JoinersSleep'
  BY <1>4, <1>5, <1>9 DEF QueuesInv, JoinersSleep
<1>14. UnqueuedKept
  BY <1>4, <1>5 DEF UnqueuedKept
<1>15. QED
  BY <1>8, <1>10, <1>12, <1>13, <1>14 DEF QueuesInv

LEMMA WriteDoneAgrees ==
    ASSUME TypeOK, QueuesInv, WriteDoneInterrupt
    PROVE  QueuesInv' /\ UnqueuedKept
<1>1. UNCHANGED <<mode, currentThread, pc, sleepQueue, thread_index, waitchild_id>>
  BY DEF WriteDoneInterrupt, familyVars
<1>2. CASE queue = << >>
  <2>1. UNCHANGED <<queue, readyThreadList, status>>
    BY <1>2 DEF WriteDoneInterrupt, V
  <2>2. QED
    BY <1>1, <2>1
       DEF QueuesInv, ReadyAgrees, BlockedAgree, OneRuns, JoinersSleep, UnqueuedKept
<1>3. CASE queue # << >>
  <2> DEFINE h == Head(queue)
  <2>1. /\ readyThreadList' = Append(readyThreadList, h)
        /\ status' = [status EXCEPT ![h] = "READY"]
        /\ queue' = Tail(queue)
    BY <1>3 DEF WriteDoneInterrupt, V
  <2>2. /\ NoDuplicates(queue') /\ h \in Members(queue)
        /\ Members(queue') = Members(queue) \ {h}
    BY <1>3, <2>1, TailMembers DEF TypeOK, QueuesInv, BlockedAgree
  <2>3. h \in Pid
    BY <1>3 DEF TypeOK
  <2> HIDE DEF h
  <2>4. status[h] = "BLOCKED" /\ pc[h] = "P" /\ h \notin Members(readyThreadList)
    BY <2>2, <2>3 DEF QueuesInv, BlockedAgree, ReadyAgrees
  <2>5. /\ Members(readyThreadList') = Members(readyThreadList) \cup {h}
        /\ NoDuplicates(readyThreadList')
    BY <2>1, <2>3, <2>4, AppendMembers DEF TypeOK, QueuesInv, ReadyAgrees
  <2>6. \A p \in Pid : status'[p] = IF p = h THEN "READY" ELSE status[p]
    BY <2>1 DEF TypeOK
  <2>7. ReadyAgrees(readyThreadList', status')
    BY <2>5, <2>6 DEF QueuesInv, ReadyAgrees
  <2>8. BlockedAgree(status', pc', sleepQueue', queue', thread_index')
    BY <1>1, <2>2, <2>4, <2>6 DEF QueuesInv, BlockedAgree
  <2>9. OneRuns(status', mode', currentThread') /\ JoinersSleep'
    BY <1>1, <2>4, <2>6 DEF QueuesInv, OneRuns, JoinersSleep, TypeOK
  <2>10. UnqueuedKept
    BY <2>4, <2>6 DEF UnqueuedKept
  <2>11. QED
    BY <2>7, <2>8, <2>9, <2>10 DEF QueuesInv
<1>4. QED
  BY <1>2, <1>3

LEMMA ClockAgrees ==
    ASSUME TypeOK, QueuesInv, TickReturn \/ Idle \/ IdleReturn
    PROVE  QueuesInv' /\ UnqueuedKept /\ AwakeKept
<1>1. CASE TickReturn
  <2>1. UNCHANGED <<pc, sleepQueue, queue, thread_index, waitchild_id>> /\ InCPU
    BY <1>1 DEF TickReturn, familyVars, semaphoreVars, InCPU
  <2>2. CASE yieldOnReturn
    <3>1. YieldCPU /\ pc' = [pc EXCEPT ![currentThread] = pc[currentThread]]
      BY <1>1, <2>1, <2>2 DEF TickReturn, TypeOK
    <3>2. QED
      BY <2>1, <3>1, YieldAgrees
  <2>3. CASE ~yieldOnReturn
    BY <1>1, <2>1, <2>3, StaysThere DEF TickReturn, AwakeKept, UnqueuedKept
  <2>4. QED
    BY <2>2, <2>3
<1>2. CASE Idle
  <2>1. UNCHANGED <<pc, currentThread, status, readyThreadList, sleepQueue, queue,
                    thread_index, waitchild_id>>
    BY <1>2 DEF Idle, familyVars, semaphoreVars
  <2>2. mode = "wait" /\ mode' \in {"idle", "halted"}
    BY <1>2 DEF Idle
  <2>3. QED
    BY <2>1, <2>2
       DEF QueuesInv, ReadyAgrees, BlockedAgree, OneRuns, JoinersSleep, AwakeKept,
           UnqueuedKept
<1>3. CASE IdleReturn
  <2>1. /\ UNCHANGED <<pc, sleepQueue, queue, thread_index, waitchild_id>>
        /\ mode = "idle" /\ SelectNext(readyThreadList, status)
    BY <1>3 DEF IdleReturn, familyVars, semaphoreVars
  <2>2. /\ \A p \in Pid : status[p] # "RUNNING"
        /\ ReadyAgrees(readyThreadList, status)
        /\ BlockedAgree(status, pc', sleepQueue', queue', thread_index')
    BY <2>1 DEF QueuesInv, OneRuns, BlockedAgree
  <2>3. readyThreadList \in Seq(Pid) /\ status \in [Pid -> ThreadStatus]
    BY DEF TypeOK
  <2>4. /\ ReadyAgrees(readyThreadList', status')
        /\ BlockedAgree(status', pc', sleepQueue', queue', thread_index')
        /\ OneRuns(status', mode', currentThread')
        /\ \A p \in Pid : status'[p] # status[p] =>
                            status[p] = "READY" /\ status'[p] = "RUNNING"
    BY <2>1, <2>2, <2>3, SelectNextAgrees
  <2>5. JoinersSleep'
    BY <2>1, <2>4 DEF QueuesInv, JoinersSleep
  <2>6. AwakeKept /\ UnqueuedKept
    BY <2>4 DEF AwakeKept, UnqueuedKept
  <2>7. QED
    BY <2>4, <2>5, <2>6 DEF QueuesInv
<1>4. QED
  BY <1>1, <1>2, <1>3

LEMMA SleepAgrees ==
    ASSUME TypeOK, QueuesInv, SysSleep
    PROVE  QueuesInv' /\ UnqueuedKept /\ BlockedKept
<1>1. /\ pc[currentThread] \notin {"join", "exit"} /\ InCPU /\ PutThreadToSleep /\ UNCHANGED <<queue, thread_index, waitchild_id>>
      /\ pc' = [pc EXCEPT ![currentThread] = "sleep"]
  BY DEF SysSleep, Exception, InCPU, Continue, familyVars, semaphoreVars
<1>2. PICK n \in 0 .. Len(sleepQueue) :
        sleepQueue' = [i \in 1 .. Len(sleepQueue) + 1 |->
                         IF i <= n THEN sleepQueue[i]
                         ELSE IF i = n + 1 THEN currentThread ELSE sleepQueue[i - 1]]
  BY DEF SysSleep
<1>3. /\ currentThread \in Pid /\ status[currentThread] = "RUNNING"
      /\ currentThread \notin Members(queue) /\ currentThread \notin Members(sleepQueue)
      /\ waitchild_id[currentThread] = None
  BY <1>1, RunnerFacts
<1>4. /\ Members(sleepQueue') = Members(sleepQueue) \cup {currentThread}
      /\ NoDuplicates(sleepQueue')
  <2>1. sleepQueue \in Seq(Pid) /\ NoDuplicates(sleepQueue)
    BY DEF TypeOK, QueuesInv, BlockedAgree
  <2>2. QED
    BY <1>2, <1>3, <2>1, InsertMembers
<1>5. BlockedAgree([status EXCEPT ![currentThread] = "BLOCKED"], pc',
                   sleepQueue', queue', thread_index)
  BY <1>1, <1>3, <1>4 DEF QueuesInv, BlockedAgree, TypeOK
<1>6. QED
  BY <1>1, <1>3, <1>5, GoesToSleep

LEMMA JoinAgrees ==
    ASSUME TypeOK, QueuesInv, SysJoin
    PROVE  QueuesInv' /\ UnqueuedKept /\ (waitchild_id' # waitchild_id => BlockedKept)
<1>1. PICK c \in Children(currentThread) :
        IF exitedChild[c]
        THEN /\ Continue("return")
             /\ UNCHANGED <<mode, currentThread, status, readyThreadList, waitchild_id>>
        ELSE /\ waitchild_id' = [waitchild_id EXCEPT ![currentThread] = c]
             /\ Continue("join")
             /\ PutThreadToSleep
  BY DEF SysJoin
<1>2. /\ mode = "run" /\ InCPU /\ pc[currentThread] \notin {"join", "exit"}
      /\ UNCHANGED <<sleepQueue, queue, thread_index>>
  BY DEF SysJoin, Exception, InCPU, semaphoreVars
<1>3. CASE exitedChild[c]
  BY <1>1, <1>2, <1>3, StaysRunning DEF Continue, UnqueuedKept
<1>4. CASE ~exitedChild[c]
  <2>1. /\ pc' = [pc EXCEPT ![currentThread] = "join"] /\ PutThreadToSleep
        /\ \A p \in Pid \ {currentThread} : waitchild_id'[p] = waitchild_id[p]
    BY <1>1, <1>4 DEF Continue, TypeOK
  <2>2. QED
    BY <1>2, <2>1, GoesToSleep, SleepsNowhere
<1>5. QED
  BY <1>3, <1>4

LEMMA FinishAgrees ==
    ASSUME TypeOK, QueuesInv, FinishThread
    PROVE  QueuesInv' /\ UnqueuedKept /\ BlockedKept
<1>1. /\ pc' = [pc EXCEPT ![currentThread] = "exit"] /\ InCPU /\ PutThreadToSleep
      /\ UNCHANGED <<sleepQueue, queue, thread_index, waitchild_id>>
  BY DEF FinishThread, Continue, InCPU, familyVars, semaphoreVars
<1>2. waitchild_id[currentThread] = None /\ pc[currentThread] \notin {"join", "exit"}
  BY <1>1, RunnerFacts DEF FinishThread
<1>3. BlockedAgree([status EXCEPT ![currentThread] = "BLOCKED"], pc',
                   sleepQueue', queue', thread_index)
  BY <1>1, SleepsNowhere
<1>4. QED
  BY <1>1, <1>2, <1>3, GoesToSleep

\* The new thread was on no list, JUST_CREATED.
LEMMA ForkAgrees ==
    ASSUME TypeOK, QueuesInv, SysFork
    PROVE  QueuesInv' /\ UnqueuedKept
<1>1. /\ InCPU /\ UNCHANGED <<currentThread, sleepQueue, queue>>
  BY DEF SysFork, Exception, InCPU, semaphoreVars
<1>2. CASE /\ mode' \in {AssertMaxThreads, AssertMaxChildren}
           /\ UNCHANGED <<status, pc, familyVars, readyThreadList, timeVars>>
  BY <1>1, <1>2, StaysThere DEF familyVars, AssertMaxThreads, AssertMaxChildren, UnqueuedKept
<1>3. CASE /\ ~TooManyThreads
           /\ thread_index' = thread_index + 1
           /\ status' = [status EXCEPT ![thread_index] = "READY"]
           /\ pc' = [pc EXCEPT ![thread_index] = "fresh", ![currentThread] = "return"]
           /\ readyThreadList' = Append(readyThreadList, thread_index)
           /\ OneTick(SystemTick)
           /\ UNCHANGED waitchild_id
  <2> DEFINE c == thread_index
  <2>1. c \in Pid
    BY <1>3, CountAssumption DEF TooManyThreads, TypeOK, Pid
  <2>2. status[c] = "JUST_CREATED" /\ \A p \in Pid : p >= c + 1 <=> p >= c /\ p # c
    BY <2>1 DEF QueuesInv, BlockedAgree, TypeOK, Pid
  <2>3. currentThread \in Pid /\ status[currentThread] = "RUNNING" /\ currentThread # c
    BY <1>1, <2>2, RunnerFacts
  <2>4. \A p \in Pid : /\ status'[p] = IF p = c THEN "READY" ELSE status[p]
                       /\ pc'[p] = IF p = c THEN "fresh"
                                    ELSE IF p = currentThread THEN "return" ELSE pc[p]
    BY <1>3, <2>1, <2>3 DEF TypeOK
  <2>5. /\ readyThreadList' = Append(readyThreadList, c) /\ thread_index' = c + 1
        /\ mode' = "tick" /\ UNCHANGED waitchild_id
    BY <1>3 DEF OneTick
  <2> HIDE DEF c
  <2>6. c \notin Members(readyThreadList)
    BY <2>1, <2>2 DEF QueuesInv, ReadyAgrees
  <2>7. /\ Members(readyThreadList') = Members(readyThreadList) \cup {c}
        /\ NoDuplicates(readyThreadList')
    BY <2>1, <2>5, <2>6, AppendMembers DEF TypeOK, QueuesInv, ReadyAgrees
  <2>8. ReadyAgrees(readyThreadList', status')
    BY <2>4, <2>7 DEF QueuesInv, ReadyAgrees
  <2>9. BlockedAgree(status, pc, sleepQueue, queue, c)
    BY DEF QueuesInv, c
  <2>10. BlockedAgree(status', pc', sleepQueue', queue', thread_index')
    BY <1>1, <2>2, <2>3, <2>4, <2>5, <2>9 DEF BlockedAgree
  <2>11. OneRuns(status', mode', currentThread')
    BY <1>1, <2>3, <2>4, <2>5 DEF QueuesInv, OneRuns
  <2>12. JoinersSleep'
    BY <2>2, <2>3, <2>4, <2>5 DEF QueuesInv, JoinersSleep
  <2>13. UnqueuedKept
    BY <2>4 DEF UnqueuedKept
  <2>14. QED
    BY <2>8, <2>10, <2>11, <2>12, <2>13 DEF QueuesInv
<1>4. QED
  BY <1>2, <1>3 DEF SysFork

\* The parent, if it is woken, was asleep in its join and on no list.  Others that
\* join stay as they are.
ExitWakes(p) == p = ppid[currentThread] /\ Notifies(p) /\ WaitsFor(p, currentThread)

LEMMA ExitAgrees ==
    ASSUME TypeOK, QueuesInv, SysExit
    PROVE  /\ QueuesInv'
           /\ status'[currentThread] = "BLOCKED"
           /\ \A p \in Pid \ {currentThread} :
                status'[p] = "BLOCKED" <=> status[p] = "BLOCKED" /\ ~ExitWakes(p)
<1> DEFINE parent == ppid[currentThread]
           wakes == ExitWakes(parent)
           st == [status EXCEPT ![currentThread] = "BLOCKED"]
<1>1. /\ InCPU /\ UNCHANGED <<sleepQueue, queue, thread_index>>
      /\ pc' = [pc EXCEPT ![currentThread] = "exit"]
  BY DEF SysExit, Exception, InCPU, Continue, semaphoreVars
<1>2. /\ currentThread \in Pid /\ status[currentThread] = "RUNNING"
      /\ \A p \in Pid : status[p] = "RUNNING" => p = currentThread
      /\ waitchild_id[currentThread] = None
  BY <1>1, RunnerFacts
<1>3. BlockedAgree(st, pc', sleepQueue', queue', thread_index')
  BY <1>1, SleepsNowhere
<1>4. CASE wakes
  <2>1. /\ waitchild_id' = [waitchild_id EXCEPT ![parent] = None]
        /\ SelectNext(Append(readyThreadList, parent), [st EXCEPT ![parent] = "READY"])
    BY <1>4 DEF SysExit, ExitWakes
  <2>2. parent \in Pid
    BY <1>2, <1>4 DEF ExitWakes, Notifies, TypeOK, PidOrNone
  <2>3. waitchild_id[parent] # None
    BY <1>2, <1>4, ConstantTypes DEF ExitWakes, WaitsFor
  <2> HIDE DEF parent, wakes
  <2>4. status[parent] = "BLOCKED" /\ pc[parent] = "join" /\ parent # currentThread
    BY <1>2, <2>2, <2>3 DEF QueuesInv, JoinersSleep
  <2> DEFINE tt == [st EXCEPT ![parent] = "READY"]
             r == Append(readyThreadList, parent)
  <2>5. /\ tt \in [Pid -> ThreadStatus]
        /\ \A p \in Pid : st[p] = IF p = currentThread THEN "BLOCKED" ELSE status[p]
        /\ \A p \in Pid : tt[p] = IF p = parent THEN "READY" ELSE st[p]
    BY <1>2, <2>2, <2>4 DEF TypeOK, ThreadStatus
  <2>6. r \in Seq(Pid) /\ SelectNext(r, tt)
    BY <2>1, <2>2 DEF TypeOK
  <2> HIDE DEF st, tt
  <2>7. parent \notin Members(readyThreadList)
    BY <2>2, <2>4 DEF QueuesInv, ReadyAgrees
  <2>8. Members(r) = Members(readyThreadList) \cup {parent} /\ NoDuplicates(r)
    BY <2>2, <2>7, AppendMembers DEF TypeOK, QueuesInv, ReadyAgrees
  <2> HIDE DEF r
  <2>9. ReadyAgrees(r, tt) /\ \A p \in Pid : tt[p] # "RUNNING"
    BY <1>2, <2>2, <2>5, <2>8 DEF QueuesInv, ReadyAgrees
  <2>10. \A p \in Pid : pc'[p] = IF p = currentThread THEN "exit" ELSE pc[p]
    BY <1>1 DEF TypeOK
  <2>11. BlockedAgree(tt, pc', sleepQueue', queue', thread_index')
    BY <1>2, <1>3, <2>2, <2>4, <2>5, <2>10 DEF BlockedAgree
  <2>12. /\ ReadyAgrees(readyThreadList', status')
         /\ BlockedAgree(status', pc', sleepQueue', queue', thread_index')
         /\ OneRuns(status', mode', currentThread')
         /\ \A p \in Pid : status'[p] # tt[p] => tt[p] = "READY" /\ status'[p] = "RUNNING"
    BY <2>5, <2>6, <2>9, <2>11, SelectNextAgrees
  <2>13. ASSUME NEW p \in Pid, waitchild_id'[p] # None
         PROVE  status'[p] = "BLOCKED" /\ pc'[p] = "join"
    <3>1. p # parent /\ waitchild_id[p] # None
      BY <2>1, <2>2, <2>13 DEF TypeOK
    <3>2. status[p] = "BLOCKED" /\ pc[p] = "join" /\ p # currentThread
      BY <1>2, <3>1 DEF QueuesInv, JoinersSleep
    <3>3. QED
      BY <2>5, <2>10, <2>12, <3>1, <3>2
  <2>14. ExitWakes(parent) /\ \A p \in Pid : ExitWakes(p) => p = parent
    BY <1>4 DEF ExitWakes, parent, wakes
  <2>15. \A p \in Pid \ {currentThread} :
           status'[p] = "BLOCKED" <=> status[p] = "BLOCKED" /\ ~ExitWakes(p)
    BY <2>5, <2>12, <2>14
  <2>16. status'[currentThread] = "BLOCKED"
    BY <1>2, <2>4, <2>5, <2>12
  <2>17. QED
    BY <2>12, <2>13, <2>15, <2>16 DEF QueuesInv, JoinersSleep
<1>5. CASE ~wakes
  <2>1. /\ waitchild_id' = waitchild_id
        /\ \/ SelectNext(readyThreadList, st)
           \/ /\ mode' = "halted" /\ status' = st
              /\ UNCHANGED <<currentThread, readyThreadList>>
    BY <1>5 DEF SysExit, ExitWakes
  <2>2. \A p \in Pid : ~ExitWakes(p)
    BY <1>5 DEF ExitWakes
  <2> HIDE DEF wakes
  <2>3. CASE SelectNext(readyThreadList, st)
    <3>1. pc[currentThread] \notin {"join", "exit"}
      BY DEF SysExit, Exception
    <3>2. QueuesInv' /\ BlockedKept
      BY <1>1, <1>2, <1>3, <2>1, <2>3, <3>1, GoesToSleep DEF PutThreadToSleep
    <3>3. QED
      BY <2>2, <3>2 DEF BlockedKept
  <2>4. CASE /\ mode' = "halted" /\ status' = st
             /\ UNCHANGED <<currentThread, readyThreadList>>
    <3>1. \A p \in Pid : /\ status'[p] = IF p = currentThread THEN "BLOCKED" ELSE status[p]
                         /\ pc'[p] = IF p = currentThread THEN "exit" ELSE pc[p]
      BY <1>1, <2>4 DEF TypeOK
    <3>2. BlockedAgree(status', pc', sleepQueue', queue', thread_index')
      BY <1>3, <2>4
    <3> HIDE DEF st
    <3>3. ReadyAgrees(readyThreadList', status') /\ OneRuns(status', mode', currentThread')
      BY <1>2, <2>4, <3>1 DEF QueuesInv, ReadyAgrees, OneRuns
    <3>4. JoinersSleep'
      BY <1>2, <2>1, <3>1 DEF QueuesInv, JoinersSleep
    <3>5. QED
      BY <1>2, <2>2, <3>1, <3>2, <3>3, <3>4 DEF QueuesInv
  <2>5. QED
    BY <2>1, <2>3, <2>4
<1>6. QED
  BY <1>4, <1>5

LEMMA InitQueues == Init => QueuesInv
<1> SUFFICES ASSUME Init PROVE QueuesInv
  OBVIOUS
<1>1. \A s : s = << >> => Members(s) = {} /\ NoDuplicates(s)
  BY DEF Members, NoDuplicates
<1>2. ReadyAgrees(readyThreadList, status)
  BY <1>1 DEF Init, ReadyAgrees
<1>3. BlockedAgree(status, pc, sleepQueue, queue, thread_index)
  BY <1>1, CountAssumption DEF Init, BlockedAgree, Pid
<1>4. OneRuns(status, mode, currentThread) /\ JoinersSleep
  BY ConstantTypes DEF Init, OneRuns, JoinersSleep
<1>5. QED
  BY <1>2, <1>3, <1>4 DEF QueuesInv

LEMMA QueuesStep ==
    ASSUME TypeOK, QueuesInv, [Next]_vars
    PROVE  QueuesInv' /\ (SysExit \/ UnqueuedKept)
<1>1. CASE Interrupts
  BY <1>1, TimerAgrees, WriteDoneAgrees, ClockAgrees DEF Interrupts
<1>2. CASE ResumeFresh \/ Start \/ Boot \/ Instruction \/ QuickSyscall \/ PutChar
  <2>1. PICK k : Continue(k)
    BY <1>2 DEF ResumeFresh, Start, Boot, Instruction, QuickSyscall, PutChar
  <2>2. /\ InCPU /\ mode' \notin {"wait", "idle"}
        /\ UNCHANGED <<currentThread, status, readyThreadList, sleepQueue, queue,
                       thread_index, waitchild_id>>
    BY <1>2 DEF ResumeFresh, Start, Boot, Instruction, QuickSyscall, PutChar, InCPU,
                OneTick, Exception, familyVars, semaphoreVars
  <2>3. QED
    BY <2>1, <2>2, StaysRunning DEF Continue, UnqueuedKept
<1>3. CASE Resume
  <2>1. PICK k : Continue(k)
    BY <1>3 DEF Resume
  <2>2. /\ InCPU /\ mode' = "tick"
        /\ UNCHANGED <<currentThread, status, readyThreadList, sleepQueue, queue,
                       thread_index, waitchild_id>>
    BY <1>3 DEF Resume, InCPU, OneTick, semaphoreVars
  <2>3. QED
    BY <2>1, <2>2, StaysRunning DEF Continue, UnqueuedKept
<1>4. CASE ResumeP \/ SysPrint \/ NextCharacter
  <2>1. /\ P /\ InCPU /\ pc[currentThread] \notin {"join", "exit"}
        /\ UNCHANGED <<sleepQueue, thread_index, waitchild_id>>
    BY <1>4 DEF ResumeP, SysPrint, NextCharacter, Exception, InCPU, familyVars
  <2>2. QED
    BY <2>1, PAgrees
<1>5. CASE FinishThread
  BY <1>5, FinishAgrees
<1>6. CASE SysHalt
  BY <1>6, StaysThere DEF SysHalt, Exception, InCPU, familyVars, semaphoreVars, UnqueuedKept
<1>7. CASE SysYield
  BY <1>7, YieldAgrees DEF SysYield, Exception, Continue, InCPU, familyVars, semaphoreVars
<1>8. CASE SysSleep \/ SysFork \/ SysJoin \/ SysExit
  BY <1>8, SleepAgrees, ForkAgrees, JoinAgrees, ExitAgrees
<1>9. CASE UNCHANGED vars
  BY <1>9 DEF vars, familyVars, semaphoreVars, QueuesInv, ReadyAgrees, BlockedAgree,
              OneRuns, JoinersSleep, UnqueuedKept
<1>10. QED
  BY <1>1, <1>2, <1>3, <1>4, <1>5, <1>6, <1>7, <1>8, <1>9
     DEF Next, Switched, Syscalls, Terminated

THEOREM QueuesInvCorrect == Spec => []QueuesInv
<1>1. Init => QueuesInv
  BY InitQueues
<1>2. TypeOK /\ QueuesInv /\ [Next]_vars => QueuesInv'
  BY QueuesStep
<1>3. QED
  BY <1>1, <1>2, TypeCorrect, PTL DEF Spec

\* Every thread is where its status says and nowhere else, for any number of
\* threads: no thread is lost between the lists or runs twice.
THEOREM QueuesCorrect == Spec => []QueuesAgree
<1>1. QueuesInv => QueuesAgree
  BY QueuesInvImplies
<1>2. QED
  BY <1>1, QueuesInvCorrect, PTL
=============================================================================
