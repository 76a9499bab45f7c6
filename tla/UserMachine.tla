---------------------------- MODULE UserMachine ----------------------------
(***************************************************************************)
(* One set of user registers and one page table register, shared by all    *)
(* processes: the interpreter (mipssim.cc), the traps (machine.cc,         *)
(* exception.cc), the interrupts (interrupt.cc), and the save and restore  *)
(* of the user state around a context switch (thread.cc, scheduler.cc).    *)
(*                                                                         *)
(* When a thread sleeps, for what, and who is chosen next is the business  *)
(* of NachOSThreads; here any thread may be chosen, and an interrupt       *)
(* handler may wake any that sleep.  Which page is resident is the         *)
(* business of DemandPaging; here any access may fault.                    *)
(***************************************************************************)
EXTENDS Naturals, Registers

CONSTANTS Threads,      \* the entries of threadArray
          Main,         \* the thread main starts as
          NoSpace       \* the space of a thread without an address space

ASSUME ThreadsAssumption == Main \in Threads /\ NoSpace \notin {0, 1}

VARIABLES registers,      \* machine->registers
          pageTable,      \* machine->NachOSpageTable: <<thread, its space>>
          userRegisters,  \* [Threads -> RegisterFile or Unset], the save areas
          stateRestored,  \* [Threads -> BOOLEAN]
          space,          \* [Threads -> {NoSpace, 0, 1}]: an address space that
                          \* replaces another has the other number
          at,             \* [Threads -> Places], where the thread is
          ready,          \* the threads of the ready list
          currentThread,
          asleep          \* currentThread sleeps: it looks for another to run
vars == <<registers, pageTable, userRegisters, stateRestored, space, at, ready,
          currentThread, asleep>>

\* What the constructor leaves in the save area
Unset == <<>>

Places ==
    {"unborn",   \* not created yet
     "boot",     \* main, before it knows what to run
     "batch",    \* main, in ReadInputAndFork
     "fresh",    \* on the ready list, never run
     "root",     \* in ThreadRoot, interrupts on, Startup not yet called
     "user",     \* in Machine::Run, before OneInstruction
     "tick",     \* in Machine::Run, in OneTick
     "interrupted", \* in that OneTick, after an interrupt handler
     "fault",    \* in the handler of a page fault
     "trap",     \* in a system call, which has not moved the PCs on
     "forked",   \* in system_call_Fork, the child on the ready list
     "exited",   \* in NachOSThread::Exit
     "halted"}   \* in Interrupt::Halt, or stopped by ASSERT(FALSE)

Init ==
    /\ registers = [r \in AllRegs |-> 0]
    /\ pageTable = <<Main, NoSpace>>
    /\ userRegisters = [t \in Threads |-> Unset]
    /\ stateRestored = [t \in Threads |-> TRUE]
    /\ space = [t \in Threads |-> NoSpace]
    /\ at = [t \in Threads |-> IF t = Main THEN "boot" ELSE "unborn"]
    /\ ready = {} /\ currentThread = Main /\ asleep = FALSE

----------------------------------------------------------------------------
(* The context switch *)

\* NachOSThread::SaveUserState of thread t, with the machine registers f: what
\* is in t's save area afterwards.
\* (Slip: whatever has been restored.)
SaveUserStateAlways(t, f) == f
SaveUserState(t, f) == IF stateRestored[t] THEN f ELSE userRegisters[t]

\* The part of Schedule after SWITCH restores n's registers, if it is a process;
\* n executes it, unless n is new: it starts in ThreadRoot.
\* (Slip: no test for an address space.)
RestoresAny(n) == at[n] # "fresh"
Restores(n) == space[n] # NoSpace /\ at[n] # "fresh"

\* NachOSscheduler::Schedule(n), and R is the ready list afterwards.
Schedule(n, R) ==
    LET t == currentThread
        saves == space[t] # NoSpace
        areas == IF saves THEN [userRegisters EXCEPT ![t] = SaveUserState(t, registers)]
                 ELSE userRegisters
    IN  /\ userRegisters' = areas
        /\ registers' = IF Restores(n) THEN areas[n] ELSE registers
        /\ pageTable' = IF Restores(n) THEN <<n, space[n]>> ELSE pageTable
        /\ stateRestored' = [u \in Threads |->
              IF u = n /\ Restores(n) THEN TRUE
              ELSE IF u = t /\ saves THEN FALSE ELSE stateRestored[u]]
        /\ at' = IF at[n] = "fresh" THEN [at EXCEPT ![n] = "root"] ELSE at
        /\ ready' = R /\ currentThread' = n /\ asleep' = FALSE
        /\ UNCHANGED space

\* OneTick, after an interrupt, or the call of YieldCPU, gives the processor to
\* n; UNIX_SCHED may choose the thread that yields.
Yield(n) ==
    /\ ~asleep /\ n \in ready \cup {currentThread}
    /\ at[currentThread] \in {"interrupted", "fault", "trap", "forked", "root", "batch"}
    /\ Schedule(n, (ready \cup {currentThread}) \ {n})

\* PutThreadToSleep and Exit: n is the first thread found
Dispatch(n) ==
    /\ asleep /\ n \in ready
    /\ Schedule(n, ready \ {n})

\* The threads that wait, for a time, a page, a write, a semaphore or a child
Sleepers == {u \in Threads : /\ at[u] \in {"fault", "trap"} /\ u \notin ready
                             /\ u # currentThread \/ asleep}

\* A call of the current thread makes a waiting thread ready: V, or the exit of a
\* child.
Wake(u) ==
    /\ at[currentThread] = "trap" /\ ~asleep /\ u \in Sleepers
    /\ ready' = ready \cup {u}
    /\ UNCHANGED <<registers, pageTable, userRegisters, stateRestored, space, at,
                   currentThread, asleep>>

\* Interrupt::CheckIfDue finds a pending interrupt due: in the OneTick after an
\* instruction, in one by which kernel code enables interrupts, or in Idle.  It
\* completes the load in progress, whoever's registers are in the machine, and
\* calls the handler, which may wake sleepers.
Interrupt ==
    /\ IF asleep THEN ready = {}
       ELSE at[currentThread] \notin {"user", "halted"}
    /\ registers' = Trapped(registers)
    /\ \E W \in SUBSET Sleepers : ready' = ready \cup W
    /\ at' = IF at[currentThread] = "tick" THEN [at EXCEPT ![currentThread] = "interrupted"]
             ELSE at
    /\ UNCHANGED <<pageTable, userRegisters, stateRestored, space, currentThread, asleep>>

----------------------------------------------------------------------------
(* Machine::Run *)

\* The current thread t is at p, awake.
Running(t, p) == t = currentThread /\ at[t] = p /\ ~asleep

\* t goes on to p and nothing but the registers changes: they become f.
Continue(t, p, f) ==
    /\ at' = [at EXCEPT ![t] = p]
    /\ registers' = f
    /\ UNCHANGED <<pageTable, userRegisters, stateRestored, space, ready,
                   currentThread, asleep>>

OneInstruction(t) ==
    /\ Running(t, "user")
    /\ \E f \in InstructionResults(registers) : Continue(t, "tick", f)

\* OneTick returns: no interrupt was due, or none asked for a context switch.
TickReturn(t) ==
    /\ Running(t, "tick") \/ Running(t, "interrupted")
    /\ Continue(t, "user", registers)

\* The fetch, or the access of a load or a store, faults: nothing of the
\* instruction has been done; the handler sleeps while the page comes in.
PageFault(t) ==
    /\ Running(t, "user")
    /\ registers' = Trapped(registers)
    /\ at' = [at EXCEPT ![t] = "fault"]
    /\ asleep' = TRUE
    /\ UNCHANGED <<pageTable, userRegisters, stateRestored, space, ready, currentThread>>

FaultReturn(t) == Running(t, "fault") /\ Continue(t, "tick", registers)

Syscall(t) == Running(t, "user") /\ Continue(t, "trap", Trapped(registers))

\* An overflow, an illegal instruction, a misaligned address: ExceptionHandler
\* ends in ASSERT(FALSE).
Unexpected(t) == Running(t, "user") /\ Continue(t, "halted", Trapped(registers))

----------------------------------------------------------------------------
(* ExceptionHandler *)

\* Sleep, Join and P wait; what they wait for is not modelled here.
SysWait(t) ==
    /\ Running(t, "trap")
    /\ asleep' = TRUE
    /\ UNCHANGED <<registers, pageTable, userRegisters, stateRestored, space, at, ready,
                   currentThread>>

\* The kernel reads a string of the process (Exec, PrintString) and faults: a
\* trap within a trap, which sleeps as any page fault does.
KernelFault(t) ==
    /\ Running(t, "trap")
    /\ registers' = Trapped(registers)
    /\ asleep' = TRUE
    /\ UNCHANGED <<pageTable, userRegisters, stateRestored, space, at, ready, currentThread>>

\* The PCs move on, and register 2 gets the result if there is one.
SysReturn(t) ==
    /\ Running(t, "trap")
    /\ \/ Continue(t, "tick", Advance(registers))
       \/ \E v \in Values : Continue(t, "tick", WithResult(Advance(registers), v))

\* The child c takes over the machine's registers, with 0 as its result.
SysFork(t, c) ==
    /\ Running(t, "trap") /\ at[c] = "unborn"
    /\ registers' = Advance(registers)
    /\ userRegisters' = [userRegisters EXCEPT
          ![c] = WithResult(SaveUserState(c, Advance(registers)), 0)]
    /\ stateRestored' = [stateRestored EXCEPT ![c] = FALSE]
    /\ space' = [space EXCEPT ![c] = 0]
    /\ at' = [at EXCEPT ![t] = "forked", ![c] = "fresh"]
    /\ ready' = ready \cup {c}
    /\ UNCHANGED <<pageTable, currentThread, asleep>>

ForkReturn(t) ==
    /\ Running(t, "forked")
    /\ \E v \in Values : Continue(t, "tick", WithResult(registers, v))

\* The current thread t gets a new address space and goes on at p with the
\* registers f.
\* (Slip: the page table register keeps the old page table.)
NewSpaceOldTable(t, p, f) ==
    /\ space' = [space EXCEPT ![t] = IF @ = 0 THEN 1 ELSE 0]
    /\ registers' = f /\ at' = [at EXCEPT ![t] = p]
    /\ UNCHANGED <<pageTable, userRegisters, stateRestored, ready, currentThread, asleep>>
NewSpace(t, p, f) ==
    /\ space' = [space EXCEPT ![t] = IF @ = 0 THEN 1 ELSE 0]
    /\ pageTable' = <<t, space'[t]>>
    /\ registers' = f
    /\ at' = [at EXCEPT ![t] = p]
    /\ UNCHANGED <<userRegisters, stateRestored, ready, currentThread, asleep>>

SysShmAllocate(t) ==
    /\ Running(t, "trap")
    /\ \E v \in Values : NewSpace(t, "tick", WithResult(Advance(registers), v))

\* StartUserProcess runs the new program in a machine->Run of its own; when the
\* file does not open it returns, and the call is made again.
SysExec(t) ==
    /\ Running(t, "trap")
    /\ \/ NewSpace(t, "user", InitialRegisters)
       \/ Continue(t, "tick", registers)

SysExit(t) ==
    /\ Running(t, "trap")
    /\ at' = [at EXCEPT ![t] = "exited"]
    /\ asleep' = TRUE
    /\ UNCHANGED <<registers, pageTable, userRegisters, stateRestored, space, ready,
                   currentThread>>

SysHalt(t) == Running(t, "trap") /\ Continue(t, "halted", registers)

----------------------------------------------------------------------------
(* The start of threads *)

\* ForkStartFunction and BatchStartFunction: Startup, then machine->Run
Startup(t) ==
    /\ Running(t, "root")
    /\ registers' = userRegisters[t]
    /\ pageTable' = <<t, space[t]>>
    /\ stateRestored' = [stateRestored EXCEPT ![t] = TRUE]
    /\ at' = [at EXCEPT ![t] = "user"]
    /\ UNCHANGED <<userRegisters, space, ready, currentThread, asleep>>

\* nachos -x: main becomes the process.
StartUserProcess(t) ==
    /\ Running(t, "boot")
    /\ NewSpace(t, "user", InitialRegisters)

\* nachos -F: main creates the processes, using the machine's registers to set
\* up theirs.
BatchFork(t, c) ==
    /\ t = currentThread /\ at[t] \in {"boot", "batch"} /\ ~asleep
    /\ at[c] = "unborn"
    /\ registers' = InitialRegisters
    /\ userRegisters' = [userRegisters EXCEPT ![c] = SaveUserState(c, InitialRegisters)]
    /\ stateRestored' = [stateRestored EXCEPT ![c] = FALSE]
    /\ space' = [space EXCEPT ![c] = 0]
    /\ at' = [at EXCEPT ![t] = "batch", ![c] = "fresh"]
    /\ ready' = ready \cup {c}
    /\ UNCHANGED <<pageTable, currentThread, asleep>>

\* main exits, having created its processes or found nothing to run
BatchExit(t) ==
    /\ t = currentThread /\ at[t] \in {"boot", "batch"} /\ ~asleep
    /\ at' = [at EXCEPT ![t] = "exited"]
    /\ asleep' = TRUE
    /\ UNCHANGED <<registers, pageTable, userRegisters, stateRestored, space, ready,
                   currentThread>>

Terminated ==
    /\ \/ at[currentThread] = "halted"
       \/ \A t \in Threads : at[t] \in {"exited", "unborn"}
    /\ UNCHANGED vars

Next ==
    \/ \E t \in Threads :
        \/ Yield(t) \/ Dispatch(t) \/ Wake(t)
        \/ OneInstruction(t) \/ TickReturn(t) \/ PageFault(t) \/ FaultReturn(t)
        \/ Syscall(t) \/ Unexpected(t)
        \/ SysWait(t) \/ KernelFault(t) \/ SysReturn(t) \/ ForkReturn(t)
        \/ SysShmAllocate(t) \/ SysExec(t) \/ SysExit(t) \/ SysHalt(t)
        \/ Startup(t) \/ StartUserProcess(t) \/ BatchExit(t)
        \/ \E c \in Threads : SysFork(t, c) \/ BatchFork(t, c)
    \/ Interrupt
    \/ Terminated

Spec == Init /\ [][Next]_vars

----------------------------------------------------------------------------
(* Properties *)

\* Every variable has its type.
TypeOK ==
    /\ registers \in RegisterFile
    /\ pageTable \in Threads \X {NoSpace, 0, 1}
    /\ userRegisters \in [Threads -> RegisterFile \cup {Unset}]
    /\ stateRestored \in [Threads -> BOOLEAN]
    /\ space \in [Threads -> {NoSpace, 0, 1}]
    /\ at \in [Threads -> Places]
    /\ ready \in SUBSET Threads /\ currentThread \in Threads /\ asleep \in BOOLEAN

\* A thread that executes user code has the machine for itself: the registers
\* in it are its own, no other process believes to have its registers there,
\* and addresses are translated by its own current page table.  This is what
\* stateRestored, SaveUserState and RestoreUserState are for: a new thread is
\* preempted before Startup, one that slept comes back by another path than
\* one that is new, Exec and ShmAllocate replace the page table of a thread
\* that runs.
HasMachine ==
    /\ at[currentThread] \in {"user", "tick", "interrupted"} /\ ~asleep
          => pageTable = <<currentThread, space[currentThread]>>
    /\ \A t \in Threads :
          /\ t = currentThread /\ space[t] # NoSpace /\ at[t] # "root" => stateRestored[t]
          /\ t # currentThread /\ space[t] # NoSpace => ~stateRestored[t]

\* The registers of process t, wherever they are
PrivateRegisters(t) ==
    IF t = currentThread /\ stateRestored[t] THEN registers ELSE userRegisters[t]

\* Register 0 reads as zero in every process whenever an instruction starts,
\* though instructions, loads and links may name it as their destination, and
\* a trap completes a load to it.
ZeroRegister == \A t \in Threads : space[t] # NoSpace => PrivateRegisters(t)[0] = 0
=============================================================================
