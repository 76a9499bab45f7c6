--------------------------- MODULE NachOSThreads ---------------------------
(***************************************************************************)
(* The multiprogramming core of NachOS: the thread table, the ready list,  *)
(* context switches, the timer, the sleep queue, Fork/Join/Exit and the    *)
(* console write semaphore (threads/, machine/interrupt.cc, timer.cc,      *)
(* console.cc and the system calls of userprog/exception.cc).              *)
(*                                                                         *)
(* The simulator is one host process.  Kernel code runs with interrupts    *)
(* off, so a piece of it between two calls of Interrupt::OneTick, or       *)
(* between two SWITCHes, is one action.  `mode' says which loop or switch  *)
(* the process is in, pc[p] where thread p continues when it has the CPU.  *)
(* Times are kept relative to stats->totalTicks.                           *)
(***************************************************************************)
EXTENDS Integers, Sequences, FiniteSets

CONSTANTS
    MAX_THREAD_COUNT,   \* size of threadArray, system.h
    MAX_CHILD_COUNT,    \* size of childpidArray, thread.h
    schedulingAlgo,     \* one of the four algorithms below
    UserTick,           \* time of a user instruction, stats.h
    SystemTick,         \* time charged when interrupts are enabled, stats.h
    TimerTicks,         \* period of the timer, stats.h
    ConsoleTime,        \* time to write a character, stats.h
    SCHED_QUANTUM,      \* system.h
    SleepTimes,         \* arguments of Sleep, and the wait of a page fault
    randomYield         \* TRUE for the -rs option: a randomised timer

NON_PREEMPTIVE_BASE == 1
NON_PREEMPTIVE_SJF  == 2
ROUND_ROBIN         == 3
UNIX_SCHED          == 4

Pid  == 0 .. MAX_THREAD_COUNT - 1
None == -1                      \* no pid; the NULL of a thread pointer
MaxPeriod == IF randomYield THEN 2 * TimerTicks ELSE TimerTicks
Preemptive == schedulingAlgo \in {ROUND_ROBIN, UNIX_SCHED}
Priorities == schedulingAlgo \in {UNIX_SCHED, NON_PREEMPTIVE_SJF}

ASSUME CountAssumption == MAX_THREAD_COUNT \in Nat /\ MAX_THREAD_COUNT > 1
                          /\ MAX_CHILD_COUNT \in Nat
ASSUME AlgoAssumption == schedulingAlgo \in
          {NON_PREEMPTIVE_BASE, NON_PREEMPTIVE_SJF, ROUND_ROBIN, UNIX_SCHED}
ASSUME TickAssumption ==
          /\ {UserTick, SystemTick, TimerTicks, ConsoleTime} \subseteq Nat \ {0}
          /\ SCHED_QUANTUM \in Nat \ {0}
          /\ SleepTimes \subseteq Nat \ {0}
          /\ randomYield \in BOOLEAN

\* The assertions of the code that an action of this module may fail: the
\* process aborts, and mode keeps which.
AssertMaxThreads == "thread.cc:53  thread_index < MAX_THREAD_COUNT"
AssertMaxChildren == "thread.h:125  childcount < MAX_CHILD_COUNT"
AssertYieldSJF == "thread.cc:344  schedulingAlgo != NON_PREEMPTIVE_SJF"
AssertBurstStart == "system.cc:100  cpu_burst_start_time == GetCPUBurstStartTime()"
Assertions == {AssertMaxThreads, AssertMaxChildren,
               AssertYieldSJF, AssertBurstStart}

VARIABLES
    mode,               \* "run": currentThread executes at pc[currentThread];
                        \* "tick": the CheckIfDue loop of OneTick;
                        \* "wait": nextThread is NULL, Idle is about to be called;
                        \* "idle": the CheckIfDue loop of Idle;
                        \* "switch": SWITCH has just returned in currentThread;
                        \* "halted": Interrupt::Halt; or a failed assertion
    currentThread,
    thread_index,       \* pids given out so far
    status,             \* [Pid -> ThreadStatus]
    pc,                 \* [Pid -> PC], where the thread continues
    ppid,
    exitThreadArray,    \* [Pid -> BOOLEAN]
    exitedChild,        \* [Pid -> BOOLEAN], the child's entry in its parent
    waitchild_id,       \* [Pid -> Pid or None], the child, named by its pid
    whichchild,         \* JoinWithChild's argument while it is active
    threadToBeDestroyed,
    deleted,            \* threads whose destructor has run
    readyThreadList,    \* sequence of pids
    sleepQueue,         \* sequence of pids sorted by when
    wakeIn,             \* [Pid -> Int], when - totalTicks of a sleeper
    timerIn,            \* when - totalTicks of the pending timer interrupt
    pendingWrites,      \* the same for each pending ConsoleWriteInt
    polling,            \* some Console exists: a ConsoleReadInt is pending
    yieldOnReturn,
    burst,              \* totalTicks - cpu_burst_start_time, at most BurstCap
    burstStartKnown,    \* burst_start_time of currentThread has been assigned
    value, queue        \* the semaphore writeDone

carcassVars == <<threadToBeDestroyed, deleted>>
timeVars == <<wakeIn, timerIn, pendingWrites, burst>>
familyVars == <<thread_index, ppid, exitThreadArray, exitedChild,
                waitchild_id, whichchild>>
semaphoreVars == <<value, queue>>
vars == <<mode, currentThread, status, pc, familyVars, carcassVars,
          readyThreadList, sleepQueue, timeVars, polling, yieldOnReturn,
          burstStartKnown, semaphoreVars>>

PC == {"none",      \* pid not given out
       "boot",      \* main, before interrupt->Enable() in Initialize
       "main",      \* in main, before its last call, FinishThread
      "fresh",     \* AllocateThreadStack done, never run
       "start",     \* in ThreadRoot, before ForkStartFunction's Startup
       "user",      \* in Machine::Run, before OneInstruction
       "return",    \* the exception handler is done, before Run's OneTick
       "join",      \* asleep in JoinWithChild
       "sleep",     \* asleep in SortedInsertInWaitQueue
       "P",         \* asleep in Semaphore::P
       "put",       \* P returned, before console->PutChar
       "print",     \* before the next P of a print call
       "exit"}      \* in Exit or FinishThread
ThreadStatus == {"JUST_CREATED", "RUNNING", "READY", "BLOCKED"}
Modes == {"run", "tick", "wait", "idle", "switch", "halted"} \cup Assertions

Smaller(a, b) == IF a < b THEN a ELSE b
Without(s, i) == [j \in 1 .. Len(s) - 1 |-> IF j < i THEN s[j] ELSE s[j + 1]]
Members(s) == {s[i] : i \in DOMAIN s}
\* Beyond BurstCap no comparison made by the code distinguishes bursts.
BurstCap == IF Preemptive THEN SCHED_QUANTUM + MaxPeriod ELSE 1

Init ==
    /\ mode = "run"
    /\ currentThread = 0
    /\ thread_index = 1
    /\ status = [p \in Pid |-> IF p = 0 THEN "RUNNING" ELSE "JUST_CREATED"]
    /\ pc = [p \in Pid |-> IF p = 0 THEN "boot" ELSE "none"]
    /\ ppid = [p \in Pid |-> None]
    /\ exitThreadArray = [p \in Pid |-> FALSE]
    /\ exitedChild = [p \in Pid |-> FALSE]
    /\ waitchild_id = [p \in Pid |-> None]
    /\ whichchild = [p \in Pid |-> None]
    /\ threadToBeDestroyed = None
    /\ deleted = {}
    /\ readyThreadList = << >>
    /\ sleepQueue = << >>
    /\ wakeIn = [p \in Pid |-> 0]
    /\ timerIn \in (IF randomYield THEN 1 .. MaxPeriod ELSE {TimerTicks})
    /\ pendingWrites = << >>
    /\ polling = FALSE
    /\ yieldOnReturn = FALSE
    /\ burst = 0
    /\ burstStartKnown = FALSE
    /\ value = 1
    /\ queue = << >>

-----------------------------------------------------------------------------
(* The clock *)

\* stats->totalTicks += d, in a burst that has lasted b so far
\* (Slip: the sleepers' clock is one that stands still in Idle.)
AgeBusy(b, d) ==
    /\ timerIn' = timerIn - d
    /\ pendingWrites' = [i \in DOMAIN pendingWrites |-> pendingWrites[i] - d]
    /\ wakeIn' = [p \in Pid |-> IF p \in Members(sleepQueue) /\ mode # "wait"
                                THEN wakeIn[p] - d ELSE wakeIn[p]]
    /\ burst' = Smaller(b + d, BurstCap)
Age(b, d) ==
    /\ timerIn' = timerIn - d
    /\ pendingWrites' = [i \in DOMAIN pendingWrites |-> pendingWrites[i] - d]
    /\ wakeIn' = [p \in Pid |-> IF p \in Members(sleepQueue)
                                THEN wakeIn[p] - d ELSE wakeIn[p]]
    /\ burst' = Smaller(b + d, BurstCap)

\* Interrupt::OneTick up to its CheckIfDue loop
OneTick(d) == mode' = "tick" /\ Age(burst, d)

\* Interrupt::CheckIfDue fires the earliest pending interrupt that is due; in
\* idle mode never the timer alone.
NotTimerAlone == polling \/ pendingWrites # << >>
TimerDue ==
    /\ timerIn <= 0
    /\ mode = "idle" => NotTimerAlone
    /\ pendingWrites # << >> => timerIn <= Head(pendingWrites)
WriteDue ==
    /\ pendingWrites # << >>
    /\ Head(pendingWrites) <= 0
    /\ Head(pendingWrites) <= timerIn
NextDue == IF pendingWrites # << >> /\ Head(pendingWrites) < timerIn
           THEN Head(pendingWrites) ELSE timerIn
InCheckIfDue == mode \in {"tick", "idle"}

TimeOfNextInterrupt == IF randomYield THEN 1 .. MaxPeriod ELSE {TimerTicks}

-----------------------------------------------------------------------------
(* The scheduler *)

\* FindNextThreadToRun among the first n threads of the ready list r, then
\* NachOSscheduler::Schedule up to the SWITCH.  st is the status function so
\* far.  The list's head is next, or, under the two algorithms with priorities,
\* any thread: their priorities are not part of this module.
Dispatch(r, n, st) ==
    \E i \in 1 .. n :
        /\ ~Priorities => i = 1
        /\ currentThread' = r[i]
        /\ readyThreadList' = Without(r, i)
        /\ status' = [st EXCEPT ![r[i]] = "RUNNING"]
        /\ mode' = "switch"
        /\ burst' = 0
        /\ burstStartKnown' = TRUE

\* The end of PutThreadToSleep and of Exit: run a ready thread or go idle.
SelectNext(r, st) ==
    IF r # << >>
    THEN Dispatch(r, Len(r), st)
    ELSE /\ mode' = "wait"
         /\ status' = st
         /\ readyThreadList' = r
         /\ UNCHANGED <<currentThread, burst, burstStartKnown>>

PutThreadToSleep == SelectNext(readyThreadList,
                               [status EXCEPT ![currentThread] = "BLOCKED"])

\* YieldCPU.  Without another ready thread it resets the burst and enables
\* interrupts, which is a tick.
YieldCPU ==
    LET r == Append(readyThreadList, currentThread)
    IN  CASE schedulingAlgo = UNIX_SCHED ->
                /\ Dispatch(r, Len(r), [status EXCEPT ![currentThread] = "READY"])
                /\ UNCHANGED <<wakeIn, timerIn, pendingWrites>>
          [] schedulingAlgo # UNIX_SCHED /\ readyThreadList # << >> ->
                /\ Dispatch(r, Len(readyThreadList),
                            [status EXCEPT ![currentThread] = "READY"])
                /\ UNCHANGED <<wakeIn, timerIn, pendingWrites>>
          [] OTHER ->
                IF burst > 0 /\ schedulingAlgo = NON_PREEMPTIVE_SJF
                THEN /\ mode' = AssertYieldSJF
                     /\ UNCHANGED <<timeVars, currentThread, readyThreadList,
                                    status, burstStartKnown>>
                ELSE /\ mode' = "tick"
                     /\ Age(0, SystemTick)
                     /\ burstStartKnown' = TRUE
                     /\ UNCHANGED <<currentThread, readyThreadList, status>>

-----------------------------------------------------------------------------
(* Interrupt handlers, inside CheckIfDue *)

\* TimerInterruptHandler wakes the sleepers at the head of the queue whose time
\* has come, and asks for a yield at the end of a quantum.  The assertion on
\* burst_start_time reads an uninitialised field while main is in its first
\* burst: it holds or fails.
\* (Slips: the quantum is compared strictly, or for equality.)
SleeperDue(p) == wakeIn[p] <= 0
QuantumOverStrict == burst > SCHED_QUANTUM
QuantumOverExact == burst = SCHED_QUANTUM
QuantumOver == burst >= SCHED_QUANTUM

TimerInterrupt ==
    /\ InCheckIfDue
    /\ TimerDue
    /\ timerIn' \in TimeOfNextInterrupt
    /\ \E n \in 0 .. Len(sleepQueue) :
        /\ \A i \in 1 .. n : SleeperDue(sleepQueue[i])
        /\ n < Len(sleepQueue) => ~SleeperDue(sleepQueue[n + 1])
        /\ LET woken == SubSeq(sleepQueue, 1, n)
           IN  /\ readyThreadList' = readyThreadList \o woken
               /\ sleepQueue' = SubSeq(sleepQueue, n + 1, Len(sleepQueue))
               /\ status' = [p \in Pid |-> IF p \in Members(woken)
                                           THEN "READY" ELSE status[p]]
               /\ wakeIn' = [p \in Pid |-> IF p \in Members(woken)
                                           THEN 0 ELSE wakeIn[p]]
    /\ IF Preemptive /\ QuantumOver
       THEN \/ yieldOnReturn' = TRUE /\ UNCHANGED mode
            \/ ~burstStartKnown /\ mode' = AssertBurstStart /\ UNCHANGED yieldOnReturn
       ELSE UNCHANGED <<yieldOnReturn, mode>>
    /\ UNCHANGED <<currentThread, pc, familyVars, carcassVars, pendingWrites, burst,
                   polling, burstStartKnown, semaphoreVars>>

\* Semaphore::V on writeDone: ready the head of the queue, if any; value++.
\* (Slips: the waiter stays on the queue; no waiter is woken.)
VKeepsWaiter == IF queue = << >>
     THEN value' = value + 1 /\ UNCHANGED <<queue, readyThreadList, status>>
     ELSE /\ readyThreadList' = Append(readyThreadList, Head(queue))
          /\ status' = [status EXCEPT ![Head(queue)] = "READY"]
          /\ value' = value + 1
          /\ UNCHANGED queue
VNoWake == value' = value + 1 /\ UNCHANGED <<queue, readyThreadList, status>>
V == IF queue = << >>
     THEN value' = value + 1 /\ UNCHANGED <<queue, readyThreadList, status>>
     ELSE /\ readyThreadList' = Append(readyThreadList, Head(queue))
          /\ status' = [status EXCEPT ![Head(queue)] = "READY"]
          /\ queue' = Tail(queue)
          /\ value' = value + 1

WriteDoneInterrupt ==
    /\ InCheckIfDue
    /\ WriteDue
    /\ pendingWrites' = Tail(pendingWrites)
    /\ V
    /\ UNCHANGED <<mode, currentThread, pc, familyVars, carcassVars, sleepQueue,
                   wakeIn, timerIn, burst, polling, yieldOnReturn, burstStartKnown>>

\* The end of OneTick
TickReturn ==
    /\ mode = "tick" /\ ~TimerDue /\ ~WriteDue
    /\ IF yieldOnReturn
       THEN YieldCPU
       ELSE /\ mode' = "run"
            /\ UNCHANGED <<currentThread, readyThreadList, status, timeVars,
                           burstStartKnown>>
    /\ yieldOnReturn' = FALSE
    /\ UNCHANGED <<pc, familyVars, carcassVars, sleepQueue, polling, semaphoreVars>>

\* Interrupt::Idle.  CheckIfDue(TRUE) advances the clock to the next pending
\* interrupt, or gives up when only the timer is pending.  The console polls
\* that may lie in between change nothing else.
Idle ==
    /\ mode = "wait"
    /\ IF NotTimerAlone
       THEN /\ mode' = "idle"
            /\ Age(burst, IF NextDue > 0 THEN NextDue ELSE 0)
       ELSE mode' = "halted" /\ UNCHANGED timeVars
    /\ UNCHANGED <<currentThread, status, pc, familyVars, carcassVars, readyThreadList,
                   sleepQueue, polling, yieldOnReturn, burstStartKnown, semaphoreVars>>

\* The end of Idle, and the FindNextThreadToRun after it
IdleReturn ==
    /\ mode = "idle" /\ ~TimerDue /\ ~WriteDue
    /\ yieldOnReturn' = FALSE
    /\ SelectNext(readyThreadList, status)
    /\ UNCHANGED <<pc, familyVars, carcassVars, sleepQueue, wakeIn, timerIn,
                   pendingWrites, polling, semaphoreVars>>

-----------------------------------------------------------------------------
(* currentThread after a SWITCH *)

\* The end of NachOSscheduler::Schedule, and NachOSscheduler::Tail
\* (Slip: threadToBeDestroyed is not reset.)
DeleteCarcassNoReset ==
    /\ UNCHANGED threadToBeDestroyed
    /\ deleted' = deleted \cup ({threadToBeDestroyed} \ {None})
DeleteCarcass ==
    /\ threadToBeDestroyed' = None
    /\ deleted' = deleted \cup ({threadToBeDestroyed} \ {None})

Continue(k) == pc' = [pc EXCEPT ![currentThread] = k]

\* ThreadRoot calls InterruptEnable first.  Nothing has deleted a carcass yet.
ResumeFresh ==
    /\ mode = "switch" /\ pc[currentThread] = "fresh"
    /\ Continue("start")
    /\ OneTick(SystemTick)
    /\ UNCHANGED <<currentThread, status, familyVars, carcassVars, readyThreadList,
                   sleepQueue, polling, yieldOnReturn, burstStartKnown, semaphoreVars>>

\* YieldCPU, JoinWithChild and SortedInsertInWaitQueue end by enabling interrupts.
\* A thread preempted in an OneTick goes on where that OneTick was called.
\* One that slept in a page fault may be inside a ReadMem of PrintString or of
\* Exec, which then reaches the first instruction of the new program.
AfterSleep(k) == IF k = "join" THEN {"return"}
                 ELSE IF k = "sleep" THEN {"return", "print", "user"}
                 ELSE {k}

Resume ==
    /\ mode = "switch" /\ pc[currentThread] \notin {"fresh", "P"}
    /\ DeleteCarcass
    /\ \E k \in AfterSleep(pc[currentThread]) : Continue(k)
    /\ whichchild' = [whichchild EXCEPT ![currentThread] = None]
    /\ OneTick(SystemTick)
    /\ UNCHANGED <<currentThread, status, thread_index, ppid, exitThreadArray,
                   exitedChild, waitchild_id, readyThreadList, sleepQueue, polling,
                   yieldOnReturn, burstStartKnown, semaphoreVars>>

\* One turn of the loop of Semaphore::P on writeDone
\* (Slip: an if for the while, a woken thread does not look at value again.)
PNoLoop == IF value = 0 /\ pc[currentThread] # "P"
     THEN /\ queue' = Append(queue, currentThread)
          /\ Continue("P")
          /\ PutThreadToSleep
          /\ UNCHANGED <<value, wakeIn, timerIn, pendingWrites>>
     ELSE /\ value' = value - 1
          /\ Continue("put")
          /\ OneTick(SystemTick)
          /\ UNCHANGED <<queue, currentThread, status, readyThreadList, burstStartKnown>>
P == IF value = 0
     THEN /\ queue' = Append(queue, currentThread)
          /\ Continue("P")
          /\ PutThreadToSleep
          /\ UNCHANGED <<value, wakeIn, timerIn, pendingWrites>>
     ELSE /\ value' = value - 1
          /\ Continue("put")
          /\ OneTick(SystemTick)
          /\ UNCHANGED <<queue, currentThread, status, readyThreadList, burstStartKnown>>

ResumeP ==
    /\ mode = "switch" /\ pc[currentThread] = "P"
    /\ DeleteCarcass
    /\ P
    /\ UNCHANGED <<familyVars, sleepQueue, polling, yieldOnReturn>>

\* ForkStartFunction: Startup, then Machine::Run
Start ==
    /\ mode = "run" /\ pc[currentThread] = "start"
    /\ DeleteCarcass
    /\ Continue("user")
    /\ UNCHANGED <<mode, currentThread, status, familyVars, readyThreadList, sleepQueue,
                   timeVars, polling, yieldOnReturn, burstStartKnown, semaphoreVars>>

-----------------------------------------------------------------------------
(* The running thread.  ExceptionHandler creates a Console on every call. *)

\* Initialize enables interrupts; main then runs StartUserProcess, which enters
\* Machine::Run or returns because it cannot open the program.
Boot ==
    /\ mode = "run" /\ pc[currentThread] = "boot"
    /\ \E k \in {"user", "main"} : Continue(k)
    /\ OneTick(SystemTick)
    /\ UNCHANGED <<currentThread, status, familyVars, carcassVars, readyThreadList,
                   sleepQueue, polling, yieldOnReturn, burstStartKnown, semaphoreVars>>

FinishThread ==
    /\ mode = "run" /\ pc[currentThread] = "main"
    /\ threadToBeDestroyed' = currentThread
    /\ Continue("exit")
    /\ PutThreadToSleep
    /\ UNCHANGED <<deleted, familyVars, sleepQueue, wakeIn, timerIn, pendingWrites,
                   polling, yieldOnReturn, semaphoreVars>>

\* OneInstruction without an exception, or the return from one; then OneTick.
Instruction ==
    /\ mode = "run" /\ pc[currentThread] \in {"user", "return"}
    /\ Continue("user")
    /\ OneTick(UserTick)
    /\ UNCHANGED <<currentThread, status, familyVars, carcassVars, readyThreadList,
                   sleepQueue, polling, yieldOnReturn, burstStartKnown, semaphoreVars>>

\* What every system call and page fault starts with
\* (Slip: the Console is created by the print calls only.)
NoConsole == UNCHANGED polling
NewConsole == polling' = TRUE
Exception == mode = "run" /\ pc[currentThread] = "user" /\ NewConsole

\* GetReg, GetPA, GetPID, GetPPID, Time, NumInstr, Exec, ShmAllocate, and Join
\* with a pid that CheckIfChild rejects: nothing here but the Console.  Exec goes
\* on at the first instruction of the new program.
QuickSyscall ==
    /\ Exception
    /\ \E k \in {"return", "user"} : Continue(k)
    /\ UNCHANGED <<mode, currentThread, status, familyVars, carcassVars,
                   readyThreadList, sleepQueue, timeVars, yieldOnReturn,
                   burstStartKnown, semaphoreVars>>

SysHalt ==
    /\ Exception
    /\ mode' = "halted"
    /\ UNCHANGED <<currentThread, status, pc, familyVars, carcassVars,
                   readyThreadList, sleepQueue, timeVars, yieldOnReturn,
                   burstStartKnown, semaphoreVars>>

\* Yield, and Sleep(0)
SysYield ==
    /\ Exception
    /\ Continue("return")
    /\ YieldCPU
    /\ UNCHANGED <<familyVars, carcassVars, sleepQueue, yieldOnReturn, semaphoreVars>>

\* SortedInsertInWaitQueue: after the sleepers that wake no later, then to sleep.
\* The handler of a page fault ends with the same call; PrintString may fault
\* between two characters.
\* (Slip: insertion at the tail.)
InsertAfterAll(n, t) == n = Len(sleepQueue)
InsertAfter(n, t) ==
    /\ \A i \in 1 .. n : wakeIn[sleepQueue[i]] <= t
    /\ n < Len(sleepQueue) => wakeIn[sleepQueue[n + 1]] > t

SysSleep ==
    /\ mode = "run" /\ pc[currentThread] \in {"user", "print"}
    /\ NewConsole
    /\ Continue("sleep")
    /\ \E t \in SleepTimes, n \in 0 .. Len(sleepQueue) :
        /\ InsertAfter(n, t)
        /\ sleepQueue' = [i \in 1 .. Len(sleepQueue) + 1 |->
                            IF i <= n THEN sleepQueue[i]
                            ELSE IF i = n + 1 THEN currentThread
                            ELSE sleepQueue[i - 1]]
        /\ wakeIn' = [wakeIn EXCEPT ![currentThread] = t]
    /\ PutThreadToSleep
    /\ UNCHANGED <<familyVars, carcassVars, timerIn, pendingWrites, yieldOnReturn,
                   semaphoreVars>>

\* writeDone->P(), first of a PrintInt, PrintChar, PrintString or PrintIntHex
\* call, or before its next character
SysPrint ==
    /\ Exception
    /\ P
    /\ UNCHANGED <<familyVars, carcassVars, sleepQueue, yieldOnReturn>>

NextCharacter ==
    /\ mode = "run" /\ pc[currentThread] = "print"
    /\ P
    /\ UNCHANGED <<familyVars, carcassVars, sleepQueue, polling, yieldOnReturn>>

\* console->PutChar; there may be more to print.
PutChar ==
    /\ mode = "run" /\ pc[currentThread] = "put"
    /\ pendingWrites' = Append(pendingWrites, ConsoleTime)
    /\ \E k \in {"return", "print"} : Continue(k)
    /\ UNCHANGED <<mode, currentThread, status, familyVars, carcassVars, sleepQueue,
                   readyThreadList, wakeIn, timerIn, burst, polling, yieldOnReturn,
                   burstStartKnown, semaphoreVars>>

\* SYScall_Fork: the constructor of NachOSThread with its two assertions,
\* AllocateThreadStack and Schedule, which ends by enabling interrupts.
\* (Slip: any thread counts as a child.)
ChildrenAnyone(p) == 0 .. thread_index - 1
Children(p) == {c \in Pid : ppid[c] = p}

TooManyThreads == thread_index + 1 >= MAX_THREAD_COUNT
TooManyChildren(p) == Cardinality(Children(p)) + 1 >= MAX_CHILD_COUNT

SysFork ==
    /\ Exception
    /\ \/ /\ TooManyThreads
          /\ mode' = AssertMaxThreads
          /\ UNCHANGED <<status, pc, familyVars, readyThreadList, timeVars>>
       \/ /\ ~TooManyThreads /\ TooManyChildren(currentThread)
          /\ mode' = AssertMaxChildren
          /\ UNCHANGED <<status, pc, familyVars, readyThreadList, timeVars>>
       \/ /\ ~TooManyThreads /\ ~TooManyChildren(currentThread)
          /\ thread_index' = thread_index + 1
          /\ ppid' = [ppid EXCEPT ![thread_index] = currentThread]
          /\ status' = [status EXCEPT ![thread_index] = "READY"]
          /\ pc' = [pc EXCEPT ![thread_index] = "fresh", ![currentThread] = "return"]
          /\ readyThreadList' = Append(readyThreadList, thread_index)
          /\ OneTick(SystemTick)
          /\ UNCHANGED <<exitThreadArray, exitedChild, waitchild_id, whichchild>>
    /\ UNCHANGED <<currentThread, carcassVars, sleepQueue, yieldOnReturn,
                   burstStartKnown, semaphoreVars>>

\* SYScall_Join of a child: JoinWithChild
SysJoin ==
    /\ Exception
    /\ \E c \in Children(currentThread) :
        IF exitedChild[c]
        THEN /\ Continue("return")
             /\ UNCHANGED <<mode, currentThread, status, readyThreadList, burst,
                            burstStartKnown, waitchild_id, whichchild>>
        ELSE /\ waitchild_id' = [waitchild_id EXCEPT ![currentThread] = c]
             /\ whichchild' = [whichchild EXCEPT ![currentThread] = c]
             /\ Continue("join")
             /\ PutThreadToSleep
    /\ UNCHANGED <<thread_index, ppid, exitThreadArray, exitedChild, carcassVars,
                   sleepQueue, wakeIn, timerIn, pendingWrites, yieldOnReturn,
                   semaphoreVars>>

\* SYScall_Exit and NachOSThread::Exit.  A parent that has not exited gets the
\* exit code (SetChildExitCode) and is readied if it waits for this child.
Notifies(parent) == parent # None /\ ~exitThreadArray[parent]
\* (Slips: whichever child the parent waits for; an index compared with a pid.)
WaitsForAny(parent, child) == waitchild_id[parent] # None
WaitsForIndex(parent, child) == waitchild_id[parent] = child - 1
WaitsFor(parent, child) == waitchild_id[parent] = child

SysExit ==
    /\ Exception
    /\ exitThreadArray' = [exitThreadArray EXCEPT ![currentThread] = TRUE]
    /\ threadToBeDestroyed' = currentThread
    /\ Continue("exit")
    /\ LET parent == ppid[currentThread]
           notify == Notifies(parent)
           wakes  == notify /\ WaitsFor(parent, currentThread)
           st     == [status EXCEPT ![currentThread] = "BLOCKED"]
           terminateSim == \A p \in 0 .. thread_index - 1 : exitThreadArray'[p]
       IN  /\ exitedChild' = IF notify THEN [exitedChild EXCEPT ![currentThread] = TRUE]
                             ELSE exitedChild
           /\ IF wakes
              THEN /\ waitchild_id' = [waitchild_id EXCEPT ![parent] = None]
                   /\ SelectNext(Append(readyThreadList, parent),
                                 [st EXCEPT ![parent] = "READY"])
              ELSE /\ UNCHANGED waitchild_id
                   /\ IF readyThreadList = << >> /\ terminateSim
                      THEN /\ mode' = "halted"
                           /\ status' = st
                           /\ UNCHANGED <<currentThread, readyThreadList, burst,
                                          burstStartKnown>>
                      ELSE SelectNext(readyThreadList, st)
    /\ UNCHANGED <<thread_index, ppid, whichchild, deleted, sleepQueue, wakeIn,
                   timerIn, pendingWrites, yieldOnReturn, semaphoreVars>>

\* The machine has halted or an assertion has aborted the process.
Stopped == mode \in {"halted"} \cup Assertions
Terminated == Stopped /\ UNCHANGED vars

Interrupts == TimerInterrupt \/ WriteDoneInterrupt \/ TickReturn \/ Idle \/ IdleReturn
Switched == ResumeFresh \/ Resume \/ ResumeP \/ Start
Syscalls == \/ QuickSyscall \/ SysHalt \/ SysYield \/ SysSleep \/ SysPrint
            \/ NextCharacter \/ PutChar \/ SysFork \/ SysJoin \/ SysExit
Next == Interrupts \/ Switched \/ Boot \/ FinishThread \/ Instruction \/ Syscalls
        \/ Terminated

Spec == Init /\ [][Next]_vars

\* The simulator is one process that keeps executing.
FairSpec == Spec /\ WF_vars(Next)

-----------------------------------------------------------------------------
PidOrNone == Pid \cup {None}

\* The type of every variable.
TypeOK ==
    /\ mode \in Modes
    /\ currentThread \in Pid
    /\ thread_index \in 1 .. MAX_THREAD_COUNT - 1
    /\ status \in [Pid -> ThreadStatus]
    /\ pc \in [Pid -> PC]
    /\ ppid \in [Pid -> PidOrNone]
    /\ exitThreadArray \in [Pid -> BOOLEAN]
    /\ exitedChild \in [Pid -> BOOLEAN]
    /\ waitchild_id \in [Pid -> PidOrNone]
    /\ whichchild \in [Pid -> PidOrNone]
    /\ threadToBeDestroyed \in PidOrNone
    /\ deleted \subseteq Pid
    /\ readyThreadList \in Seq(Pid)
    /\ sleepQueue \in Seq(Pid)
    /\ wakeIn \in [Pid -> Int]
    /\ timerIn \in Int
    /\ pendingWrites \in Seq(Int)
    /\ polling \in BOOLEAN
    /\ yieldOnReturn \in BOOLEAN
    /\ burst \in Nat
    /\ burstStartKnown \in BOOLEAN
    /\ value \in Nat
    /\ queue \in Seq(Pid)

NoDuplicates(s) == \A i, j \in DOMAIN s : s[i] = s[j] => i = j

\* Every thread is where its status says, and nowhere else: the ready list holds
\* the READY threads, the sleep queue and the semaphore's queue the threads
\* blocked in them, each once; a thread is RUNNING only as currentThread.
\* (thread.cc, scheduler.cc and synch.cc move a thread between these places in
\* two or three separate statements.)
QueuesAgree ==
    /\ \A s \in {readyThreadList, sleepQueue, queue} : NoDuplicates(s)
    /\ \A p \in Pid :
        /\ p \in Members(readyThreadList) <=> status[p] = "READY"
        /\ p \in Members(sleepQueue) <=> status[p] = "BLOCKED" /\ pc[p] = "sleep"
        /\ p \in Members(queue) <=> status[p] = "BLOCKED" /\ pc[p] = "P"
        /\ status[p] = "BLOCKED" => pc[p] \in {"sleep", "P", "join", "exit"}
        /\ status[p] = "RUNNING" => p = currentThread
        /\ status[p] = "JUST_CREATED" <=> p >= thread_index
    /\ mode \in {"run", "tick", "switch"} => status[currentThread] = "RUNNING"

\* JoinWithChild sleeps without a loop, so it is right only if the parent sleeps
\* while its child has not exited and is woken by that child's exit alone: what
\* it returns, childexitcode[whichchild], has then been set.
JoinHandshake ==
    \A p \in Pid : pc[p] = "join" =>
        /\ whichchild[p] # None /\ ppid[whichchild[p]] = p
        /\ IF status[p] = "BLOCKED"
           THEN waitchild_id[p] = whichchild[p] /\ ~exitThreadArray[whichchild[p]]
           ELSE waitchild_id[p] = None /\ exitedChild[whichchild[p]]

\* The semaphore writeDone admits one writer: either it is free, or one thread is
\* between P and PutChar, or one character is being written.
Writers == {p \in Pid : pc[p] = "put"}

OneWriteAtATime ==
    /\ value >= 0
    /\ value + Cardinality(Writers) + Len(pendingWrites) = 1

\* A V is never lost: when writeDone is free and threads sleep on it, one that
\* was woken has yet to take its turn.  (Semaphore::V wakes one thread, and the
\* value it leaves may be taken by a thread that did not wait.)
NoLostWakeup ==
    value > 0 /\ queue # << >> => \E p \in Pid : pc[p] = "P" /\ status[p] # "BLOCKED"

\* When no thread can run, something is on its way that will ready one: a
\* sleeper's time or the end of a console write.  Joins alone never deadlock,
\* and a thread does not wait for a character nobody is writing.
Done == \A p \in 0 .. thread_index - 1 : pc[p] = "exit"

IdleHasWaker ==
    mode = "wait" => sleepQueue # << >> \/ pendingWrites # << >> \/ Done

\* The machine halts when the last thread exits or a thread calls Halt, never
\* because Interrupt::Idle saw the timer alone while threads were asleep.
HaltMeansDone ==
    mode = "halted" => status[currentThread] = "RUNNING" \/ Done

\* The handler looks at the head of the sleep queue only.  Still a timer
\* interrupt readies exactly the sleepers whose time has come.
WokenOnTime ==
    [][timerIn' > timerIn =>
         \A p \in Members(sleepQueue) : p \in Members(sleepQueue') <=> wakeIn[p] > 0]_vars

\* Every exited thread is destroyed or still the one threadToBeDestroyed: no
\* carcass is lost when another thread exits before it was deleted, and none is
\* left when a user instruction runs.
NoLostCarcass ==
    /\ \A p \in Pid : pc[p] = "exit" => p \in deleted \cup {threadToBeDestroyed}
    /\ mode = "run" /\ pc[currentThread] \in {"user", "return"} =>
            threadToBeDestroyed = None

\* No thread object is used after its destructor: a deleted thread is not
\* running, is on no list, and has its exit recorded, which is what keeps its
\* children's Exit and UpdateThreadPriority away from threadArray[p].
NoDangling ==
    \A p \in deleted :
        /\ p # currentThread /\ exitThreadArray[p]
        /\ p \notin Members(readyThreadList) \cup Members(sleepQueue) \cup Members(queue)

\* Under round robin and UNIX no thread that runs is more than a quantum plus
\* what is left of a timer period into its time slice (system.h:28 says that the
\* quantum overshoots).
TimeSlice ==
    Preemptive /\ mode = "run" => burst + timerIn < SCHED_QUANTUM + MaxPeriod

\* Under round robin, and under UNIX with equal base priorities (UnixThreads), a
\* ready thread gets the CPU, whatever mixture of short and long bursts the
\* others have.
ReadyRuns == \A p \in Pid : status[p] = "READY" ~> status[p] = "RUNNING" \/ Stopped

\* A thread that sleeps is readied.
SleeperWakes == \A p \in Pid : p \in Members(sleepQueue) ~>
                                   p \notin Members(sleepQueue) \/ Stopped

\* A parent asleep in JoinWithChild goes on once the child has exited.
JoinReturns == \A p \in Pid : pc[p] = "join" /\ exitThreadArray[whichchild[p]] ~>
                                   pc[p] = "return" \/ Stopped
=============================================================================
