# NachOS (Assignment-3): a TLA+ development of the kernel

The repository holds three successive versions of a NachOS kernel. The last one,
`src/Assignment-3/nachos/code/`, contains the features of the first two and is the one
modelled here, but for the network: its files are in Assignment-3 as well, where `post.cc` calls
the thread constructor with one argument and does not compile, so `PostOffice` is mapped to
Assignment-1. Paths below are relative to Assignment-3 unless they start with `src/`.

## 1. Inventory

NachOS is one host process: a MIPS interpreter, simulated devices, and a kernel whose threads
are switched by `SWITCH`. Time is a counter, `stats->totalTicks`, advanced by `OneTick` when a
user instruction ends or interrupts are enabled. Device interrupts are entries of a list sorted
by time, and run inside `CheckIfDue`, so a kernel path is interrupted only where it enables
interrupts.

| Component | State | Operations | Hard behaviour | What makes it correct |
|---|---|---|---|---|
| Threads (`threads/thread.*`) | status, pid, ppid, children, exit codes, `waitchild_id`, `threadArray`, `exitThreadArray` | constructor, `Schedule`, `YieldCPU`, `PutThreadToSleep`, `Exit`, `FinishThread`, `JoinWithChild`, `SortedInsertInWaitQueue` | interleaving at every tick; Join racing with Exit; use after the destructor | a thread is in one place; a join returns after the exit it names; no thread is lost or used after deletion |
| Scheduler (`threads/scheduler.*`, `list.*`) | ready list, priorities, `threadToBeDestroyed` | `ThreadIsReadyToRun`, `FindNextThreadToRun`, `Schedule`, `Tail`, `UpdateThreadPriority` | deferred deletion; walking all threads during a switch | one running thread; quantum; no starvation under round robin |
| Interrupts, clock, timer (`machine/interrupt.*`, `timer.*`, `system.cc`) | level, pending list, `yieldOnReturn`, sleep queue | `OneTick`, `CheckIfDue`, `Idle`, `Halt`, `TimerInterruptHandler` | interrupts in ticks of any path; idle with sleepers; quantum at a timer edge | sleepers wake in time; the machine halts only when done |
| Semaphore and console (`threads/synch.cc`, `machine/console.cc`) | `value`, `queue`, `putBusy`, pending writes | `P`, `V`, `PutChar`, `WriteDone` | barging between wake-up and the second look at `value` | one write at a time, no lost wake-up |
| System calls (`userprog/exception.cc`) | registers, a console per exception | Halt, Exit, Exec, Fork, Join, Yield, Sleep, Print*, Get*, Time, NumInstr, Shm, page fault | they block in the middle | the promises of `Processes` (section 9) |
| Interpreter and user registers (`machine/mipssim.cc`, `machine.cc`, `thread.cc` 484-509, `scheduler.cc` 137-170) | the machine's registers with two delay slots, the page table register, `userRegisters`, `stateRestored` | instructions, traps, save, restore, `Startup`, the copies made by Fork, Exec and `-F` | a fresh child preempted before its registers were loaded; a load in flight when a trap comes; the page table of a thread that runs is replaced | each process computes as if the machine were its own |
| Demand paging (`userprog/addrspace.cc`) | page tables, frame map, swap tables, FIFO, LRU and LRU-clock lists | exec, fork and shm constructors, `LoadPage`, `PagetoEvict`, `replacePage`, `FreePages` | replacement of pages of other processes, also half-made ones | a process reads what it last wrote |
| File system (`filesys/`, `userprog/bitmap.cc`) | the sectors of the disk: free map, directory, headers, data | format, Create, Open, Remove, ReadAt, WriteAt | nachos stops between two writes of one command; partial sectors; refusals half-way | no sector in two files or lost; a file reads as it was written |
| Disk (`filesys/synchdisk.cc`, `machine/disk.cc`) | the request, the head, the track buffer, a semaphore | ReadSector, WriteSector, the interrupt | a `Lock` with an empty body; latency to the tick | an interrupt for each request, when its sector has passed the head |
| Network (`src/Assignment-1/.../network/`, `machine/network.cc`) | sockets, the one-packet inbox, mailboxes, `messageAvailable`, `messageSent` | Send, Receive, the poll, the postal worker, the send interrupt | loss; several senders over one semaphore; machines that end | a packet that is not lost is delivered once, in order |

The user programs, the coff tools, the cross compiler and the earlier snapshots are not part of
the kernel.

Interactions: a system call runs in the current thread and may block in a queue (sleep queue,
semaphore queue, or nowhere, in a join); the timer handler and the write-done interrupt move
threads from queues to the ready list; `PutThreadToSleep`, `YieldCPU` and `Exit` dispatch the
next thread; the next thread completes the switch and deletes the carcass of an exited one.

## 2. Modules and plan

Most important behaviour first. "Done" modules are in this directory.

| # | Module | Models | State |
|---|---|---|---|
| 1 | `NachOSThreads` | threads, ready list, switches, timer, sleep queue, Fork/Join/Exit, console semaphore | done |
| 2 | `Processes` | what the threads promise to user processes, the abstract specification of 1 | done |
| 3 | `ThreadsRefineProcesses`, `MCThreads` | the refinement mapping; instances for TLC | done |
| 3a | `UnixThreads` | the usages and priorities of the UNIX scheduler, joined with 1 | done |
| 4 | `NachOSThreadsProofs`, `WaitingProofs`, `RefinementProofs` | the theorems about 1-3 | done |
| 5 | `Registers`, `UserMachine` | the user registers and what instructions, traps, system calls, switches and batch mode do to them | done |
| 6 | `PrivateMachines`, `MachineRefinesPrivate`, `MCMachine` | a machine per process, the abstract specification of 5; the mapping; an instance | done |
| 7 | `DemandPaging` | frames, page and swap tables, `LoadPage`, `PagetoEvict`, `replacePage`, Fork/Exec/ShmAllocate/Exit | done |
| 8 | `FileSystem`, `MCFileSystem` | the commands of `nachos -f -cp -p -r`, sector by sector | done |
| 9 | `FileStore`, `FileSystemRefinesStore` | a map from names to contents, the abstract specification of 8; the mapping | done |
| 10 | `SynchDisk` | the disk's latency and interrupt, `SynchDisk` over the empty `Lock` | done |
| 11 | `PostOffice`, `MCPostOffice` | machines, packets, mailboxes, senders | done |
| 12 | `MailSystem` | ordered lossy delivery, the abstract specification of 11 | done |
| 13 | `MachineProofs`, `PostOfficeProofs` | the theorems about 5, 6, 11 and 12 | done |
| 14 | `PagingProofs` | the theorems about 7, for any number of frames and processes: ownership and backups without sharing, the types and the end of the scan with it, and that a process alone never stops | done |
| 15 | `DiskProofs`, `FileSystemProofs` | the theorems about 10, and those about 8 and 9 for a disk of any size | done |
| 16 | `SJFThreads` | the burst estimates of SJF, which need bursts without a cap | planned |

The components meet where one hands a thread or a value to another, and each module leaves open
what the other decides: `UserMachine` lets any ready thread be chosen and any access fault, which
includes what `NachOSThreads` and `DemandPaging` choose; `DemandPaging` lets any live process run
next; `FileSystem` writes a sector at a time, in the order in which `SynchDisk` is called, and is
run by main alone, so the races of `SynchDisk` do not touch it. An abstract specification of 7, a
memory per process, is not implemented by the code (section 5); `DirtyIntact` is the part of it
that is. Every invariant and action property that a passing run checks is also proved (section
11); the next theorems would be about 16.

## 3. The model of the threads and how it corresponds to the code

**Grain.** The simulator is one host process and kernel code runs with interrupts off, so the
code between two `OneTick`s, or between two `SWITCH`es, is one action. `mode` says which loop or
switch the process is in: `run` (`currentThread` executes), `tick` (the `CheckIfDue` loop of
`OneTick`), `wait` (`FindNextThreadToRun` returned NULL), `idle` (the `CheckIfDue` loop of
`Idle`), `switch` (`SWITCH` has just returned in `currentThread`), `halted`, or the name of the
assertion that failed. `pc[p]` says where a thread continues when it has the CPU. So an
interrupt can come in each place where the code enables interrupts: between two instructions,
in a fork, between two characters of a print, at the end of a `Yield` and in `ThreadRoot`.

| State | Code |
|---|---|
| `currentThread`, `thread_index`, `status`, `ppid`, `exitThreadArray`, `threadToBeDestroyed`, `readyThreadList`, `sleepQueue`, `yieldOnReturn` | the globals and fields of the same names |
| `exitedChild[c]` | the entry for `c` in its parent's `exitedChild` array |
| `waitchild_id[p]`, `whichchild[p]` | the field, and the argument of an active `JoinWithChild`; an index of `childpidArray` in the code, the pid at that index here |
| `deleted` | threads whose destructor has run |
| `wakeIn[p]`, `timerIn`, `pendingWrites`, `burst` | `when - totalTicks` of a sleeper, of the pending timer interrupt and of each pending console write; `totalTicks - cpu_burst_start_time`. Relative times keep the state space finite without a bound on the run |
| `polling` | some `Console` exists, so a read poll is always pending |
| `value`, `queue` | the semaphore `writeDone` |
| `burstStartKnown` | whether `burst_start_time` of the current thread was ever assigned |

| Actions | Code |
|---|---|
| `TimerInterrupt`, `WriteDoneInterrupt` | one turn of `CheckIfDue` that fires the timer (`TimerInterruptHandler`) or a `ConsoleWriteInt` (`writeDone->V()`) |
| `TickReturn`, `Idle`, `IdleReturn` | the ends of `OneTick` and `Idle` and the clock jump of an idle `CheckIfDue` |
| `ResumeFresh`, `Resume`, `ResumeP`, `Start` | what a thread does after `SWITCH`: `ThreadRoot`, the rest of `NachOSscheduler::Schedule`, the loop of `Semaphore::P`, `Startup` |
| `Boot`, `FinishThread`, `Instruction` | `Initialize` and `StartUserProcess`; the end of `main`; an iteration of `Machine::Run` |
| `QuickSyscall`, `SysHalt`, `SysYield`, `SysSleep`, `SysPrint`, `NextCharacter`, `PutChar`, `SysFork`, `SysJoin`, `SysExit` | the branches of `ExceptionHandler`; a page fault waits like `SysSleep`, also when `PrintString` or `Exec` meets it while it reads its argument |

`Dispatch`, `SelectNext`, `PutThreadToSleep`, `YieldCPU`, `P`, `V`, `Age`, `OneTick` and
`DeleteCarcass` are the helpers the code calls in those actions.

**Abstractions.**
- SJF and UNIX take the ready thread of least priority. `NachOSThreads` lets any ready thread be
  taken, which includes the one the code takes; for UNIX, `UnixThreads` says which.
- The console polls are a boolean. A poll that is due does nothing to the state here; their only
  effect is that `Idle` does not give up.
- Two interrupts due at the same time fire in either order (the code: in order of insertion).
- Registers (section 4), memory (section 5), statistics and messages are left out; characters have no content; `putBusy`
  belongs to a `Console` that serves one exception and is left out.
- A thread that was put to sleep goes on with the next instruction, the next character or the
  first instruction of a new program: which page is absent, and so which of them it is, is left
  open.
- `OneTick` charges `SystemTick` inside a system call. A page fault nested in one leaves the
  machine in `UserMode` (machine.cc:123), so the code charges `UserTick` for the rest of that call.
- `Join` with a pid that is no child returns at once, like the other calls in `QuickSyscall`.

`NachOSThreads` has beside some operators a "slip" of theirs, a plausible mistake in the same
code (`VNoWake`, `WaitsForIndex`, ...). No action uses them. Each is the form with which the
corresponding property was seen to fail, so that the property is known to say something.

**UNIX priorities.** `UnixThreads` joins each step of `NachOSThreads` with what it does to the
`usage` of the threads: when a running thread's burst ends (`BurstEnds`: in `YieldCPU`,
`PutThreadToSleep` or `Exit`, if the burst took time) `UpdateThreadPriority` charges it and halves
the usage of every thread that has not exited, and a step that dispatches takes the thread that
`GetMinPriorityThread` finds, the first of the least priority in the list with the yielding
thread or the readied parent at its end. `nachos -x` gives all processes the same base priority,
so `schedPriority` is a function of the usage; with different ones, as `-F` may give, a nicer
process may wait for as long as others compute, which is what nice is for.

## 4. The model of the user machine and how it corresponds to the code

There is one set of user registers and one page table register. `Schedule` saves the registers of
the thread that leaves, if it is a process and `stateRestored`, and restores those of the thread
that comes, unless that one is new: then it starts in `ThreadRoot` with interrupts on, and its
registers are loaded by `Startup`, which may come many switches later. `UserMachine` is about
these paths; which thread is chosen, when an interrupt is due and which sleepers its handler wakes
is left open, which includes all that `NachOSThreads` does.

| State | Code |
|---|---|
| `registers` | `machine->registers`: the general registers of `DataRegs` (with Hi and Lo if wanted), PC, NextPC, LoadReg, LoadValueReg |
| `pageTable` | `machine->NachOSpageTable`, as the thread and the address space it belongs to |
| `userRegisters`, `stateRestored` | the fields of the thread; `Unset` is the area as the constructor leaves it |
| `space[t]` | none, or one of two tags; a space that replaces another has the other tag |
| `at[t]` | where the thread is: in `ThreadRoot`, in `Machine::Run` before an instruction, in its `OneTick` before or after an interrupt, in a page fault, in a system call, in the tail of a Fork, and so on |
| `ready`, `currentThread`, `asleep` | the ready list as a set; `asleep`: the current thread has no more to do and looks for another |

| Actions | Code |
|---|---|
| `OneInstruction`, `TickReturn` | an iteration of `Machine::Run` |
| `Interrupt` | one turn of `CheckIfDue` that finds an interrupt due, in `Machine::Run`'s `OneTick`, in one of the kernel's or in `Idle`: `DelayedLoad(0, 0)` on the registers that are in the machine, then the handler, which may ready sleepers |
| `PageFault`, `FaultReturn`, `Syscall`, `Unexpected` | `RaiseException`, which completes the load in progress; a fault restarts its instruction, a call moves the PCs itself |
| `SysWait`, `KernelFault`, `SysReturn`, `SysFork`, `ForkReturn`, `SysShmAllocate`, `SysExec`, `SysExit`, `SysHalt` | the branches of `ExceptionHandler` by what they do to registers and page table |
| `Yield`, `Dispatch` | `YieldCPU`, called in a system call or by `OneTick` after an interrupt, never between two instructions without one; `PutThreadToSleep` and `Exit`; both through `NachOSscheduler::Schedule` |
| `Wake` | `ThreadIsReadyToRun` in a call of the current thread: `V`, or the exit of a child |
| `Startup` | `ForkStartFunction` and `BatchStartFunction` |
| `StartUserProcess`, `BatchFork`, `BatchExit` | `nachos -x`, and `ReadInputAndFork` of `nachos -F`, in which main uses the machine's registers to set up those of its children |

`Registers` has the instructions by what they write: computations (one register), `Divided` (Hi
and Lo), branches with and without link (NextPC is replaced after the delay slot), loads (LoadReg
and LoadValueReg; the value arrives one instruction later) and stores. `DelayedLoad` and
`Advanced` are what `mipssim.cc` and `machine.cc` do at the end of each.

**Interrupts show.** `CheckIfDue` completes the load in progress before it calls a handler
(interrupt.cc:374-377; the note at mipssim.cc:572 demands it), so when an interrupt comes between
a load and the instruction in its delay slot, that instruction reads the new value, and without
the interrupt the old one. A process can tell. `PrivateMachines` therefore promises a machine
on which an interrupt, like a trap, may complete the load at any time; that another process ran
in the meantime cannot be told. No load is ever in progress in a save area.

**Abstractions.** A word is a member of a small set and a computation may yield any of it, so
what an instruction computes is not checked. (`OR` computes `rs | rs`, mipssim.cc:377; no
property here can see it.) `PrevPCReg`, which only the debugger reads, and `BadVAddrReg`, which a
handler reads before anything else can run, are left out. An access may fault at any time, twice
in one call too. The contents of memory belong to `DemandPaging`.

## 5. The model of demand paging and how it corresponds to the code

`DemandPaging` is a model of its own: it keeps of the threads only which of them are alive. A
page fault puts its process to sleep and the timer may preempt a process after any instruction,
so in `run` any live process executes the next instruction. The loops of the two constructors
over a page table are a step per page (`mode` "fork" and "shm"); nothing else runs meanwhile,
because the system calls enable no interrupts there.

| State | Code |
|---|---|
| `table[p]` | `threadArray[p]->space->NachOSpageTable`; `physicalPage` is `None` where `valid` is FALSE, since the code reads it only in valid entries; `use`, `readOnly` and `virtualPage` are left out (set, never tested to effect) |
| `PhysMap`, `numPagesAllocated`, `mainMemory`, `SwapTable`, `pageReplaceAlgo`, `thread_index` | the globals and fields of these names; `SwapTable[p]` has the length the code allocates |
| `replacement` | `fifoList` or `lruList`, whichever is in use, `Refbit` and `headpt` |
| `fileName[p]` | the length of the string, and whether it still spells the name of the program |
| `live` | processes whose `space` is set and whose destructor has not run |
| `job` | the locals of the constructor in progress: process, child, number of pages, the table so far |
| `pending[p]` | the instruction that is restarted after a page fault (the code restarts it because the program counter was not advanced) |
| `retrying` | processes that repeat an `Exec` of a missing file |
| `written` | no state of the code: what the program of `p` last left in each of its pages, beside which the invariants set memory and backup |

| Actions | Code |
|---|---|
| `Instruction` | `OneInstruction` with `ReadMem` of the code page, then `ReadMem` or `WriteMem` of the data page: `Translate`, `LoadPage` on a fault, `access`, the write |
| `BeginFork`, `ForkPage`, `ForkDone` | `SYScall_Fork`: the thread, the constructor that copies each resident page, the name and the backup |
| `BeginShm`, `ShmPage`, `ShmDone` | `SYScall_ShmAllocate`: the entries carried over, the shared pages, the new page table |
| `Exec`, `ExecMissing` | `SYScall_Exec` with a file that opens, and with one that does not |
| `Exit`, `LastExit` | `SYScall_Exit` with the destructor's `FreePages`; the exit of the last process |

`Access`, `replacePage`, `PagetoEvict`, `LoadPage` and `FreePages` are the functions of
`addrspace.cc`. `replacePage` gives the set of possible victims with the state of the algorithm
after each: RANDOM has many, the others one, and none where the code's search does not end
("hung"). "undefined" is a step through a null or dangling pointer, or past the end of a table:
nothing is claimed of what follows. "assert" is a failed assertion.

**Abstractions.**
- The content of a page is a tag: the image in the file, zero, or the process and page that
  wrote it last. A page lies wholly in the file or wholly past its end.
- A page fault meant by `ReadMem` in a system call (the name in `Exec`, the string of a print)
  looks like the fault of an instruction that reads a data page.
- All programs have the same number of pages; names differ in length.
- The destructor runs with `Exit`, before another process has the CPU, as it does unless an
  interrupt intervenes; no paging code runs in between.
- What a Fork copies from behind the end of the parent's backup is never read.
- Byte offsets, alignment, the TLB (compiled out) and `NumPageFaults` are left out.

**What the runs found.** Without shared pages, page tables, core map and backups stay consistent
(`OwnedFrames`, `DirtyIntact`), and a single process makes progress in two frames under FIFO, LRU
and CLOCK (`InstructionCompletes`). RANDOM is left out there, since it may choose the other page
of the instruction for ever. Two statements of the
assignment's text (`src/Assignment-3/assignment3.txt`) are refuted, each by a run:

- `loaded_back`: `LoadPage` clears `dirty` and `swapped` of a page it loads from the backup
  (addrspace.cc:530-532). Replaced again while clean, the page is not backed up and comes back
  from the executable: the writes are lost. The text (141-143) wants the page "loaded back
  correctly".
- `shared_kept`: the scan for a frame stops at the first that is empty or shared
  (addrspace.cc:554), and its caller overwrites the frame, names it for the new page and clears
  `IsShared`. The page table entry of the shared page stays valid and now shows the other page.
  In the run's trace an empty frame is left, so no page needs to be replaced at all. The text
  (137-138) ensures "that shared pages are never considered for replacement" and (176-178) says
  that they "can never be replaced as per our design".

A shared frame that is handed out in this way is counted a second time. The count stays on the
safe side: it is never less than the frames in use, so that the scan, which has no other end,
always finds a frame (`ScanEnds`, under all four algorithms).

Other behaviours of the code that the actions follow, and that limit what the passing runs may
claim, are not stated by a run of their own:

- the frame of a page past the end of the file is not cleared (addrspace.cc:499);
- `ShmAllocate` copies the caller's page table and may then replace a page it has copied (248);
  it also clears `swapped` (243);
- a Fork may replace a page that it has just given to the child, whose `space` is still NULL
  (564): `mode` becomes "undefined", also within two pages per thread. The
  invariants hold up to there;
- FIFO and LRU take the next frame of their list without looking at `IsShared`
  (addrspace.cc:320-360), and a frame that Exec or Exit released stays on the list when
  `ShmAllocate` takes it, so a shared page may be evicted. RANDOM and CLOCK pass over shared
  frames, but under all four a shared frame may have been lost to the scan before;
- frames given out by Fork are on neither list: FIFO then dereferences an empty list (322), and
  with three processes LRU may choose the very page that is copied, because it compares with
  `ign` only once (347);
- the copy in Fork calls `access` for neither frame (172);
- an `Exec` of a missing file releases frames that the caller goes on using (exception.cc:140);
- the tail of a longer program name remains behind a shorter one, and no later page fault can
  open the executable (progtest.cc:44). `Exec` and `LoadPage` model this; the runs have names of
  one length, so nothing is claimed of it.

## 6. The model of the file system and how it corresponds to the code

The disk is an array of sectors, each holding a header, the map, half the directory, or bytes.
A command computes what it will write from what it reads, and `pending` is the list of sectors
still to be written, in the code's order; `WriteSector` writes the first, and `Crash` stops nachos
between any two. Commands run one at a time (filesys.cc says it does not synchronise).

| State | Code |
|---|---|
| `disk` | the contents of the DISK file, by sector |
| `pending` | the `WriteSector` calls the running operation has still to make |
| `client` | the command that runs: the locals of `Copy` and `Print` (fstest.cc), the open file's header and seek position |
| `usable` | no state of the code: the disk was formatted, and nachos never stopped while directory and map disagreed |

| Actions | Code |
|---|---|
| `Format`, `FormatDone` | `FileSystem(TRUE)`: two headers, the map, the directory |
| `Create`, `CopyOpen`, `CopyWrite`, `CopyDone` | `Copy`: `FileSystem::Create` (header, directory, map), `Open`, a `Write` for each `TransferSize` bytes |
| `PrintOpen`, `PrintRead` | `Print` |
| `Remove`, `RemoveDone` | `FileSystem::Remove` (map, then directory) |
| `WriteSector`, `Crash` | `SynchDisk::WriteSector`, and the end of the process |

`ByteToSector`, `ReadAt`, `WriteAt`, `Kept`, `Clipped`, `NumClear`, `FirstClear`, `Found` and
`FreeEntry` are the functions and loops of `filehdr.cc`, `openfile.cc`, `bitmap.cc` and
`directory.cc`. The directory of ten entries takes 200 bytes, two sectors; entry 6 lies on both,
with its name in the second. `Straddler` is that entry: written to one sector only, it has the
new flag and sector with the old name. A new buffer holds `Junk`, and a sector of a new file what
it held before.

filesys.cc:38-40 warns that an operation that fails in the middle may leave the disk corrupt. The
model says how: while `HalfWritten`, a stop may leave a listed file whose sectors the map offers to
others, in Create as in Remove; it never leaks a sector (`NoLeak`), and a stop before the first or
after the last of these writes harms nothing. After such a stop the model uses the disk only after
another format (`usable`).

**Abstractions and bounds.** File sizes stay within `NumDirect` sectors (`Allocate` does not check
it, and a longer file writes past the header, filehdr.cc:50); the map fits a sector; names are
compared whole. `List`, `Print` of the file system and reading by `nachos -D` change nothing.
`PerformanceTest` creates a file of size 0, whose every write `Clipped` cuts to nothing
(fstest.cc:124); it ends there and is left out.

## 7. The model of the disk and how it corresponds to the code

| State | Code |
|---|---|
| `totalTicks`, `lastSector`, `bufferInit` | `stats->totalTicks` and the fields of `Disk` |
| `request` | `active`, with the pending interrupt: which thread asked for which sector, when, and when it is due |
| `value`, `queue` | the semaphore of `SynchDisk` |
| `at[t]` | a thread outside, asleep in `P`, or woken and about to look again |
| `aborted` | `ASSERT(!active)` has failed |

`Call` is `ReadSector` or `WriteSector` up to the `P` that sleeps or returns; `CallActive` the same
while a request is pending; `HandleInterrupt` is `Disk::HandleInterrupt` with `RequestDone`;
`Resume` the woken thread's second look at the semaphore. `ComputeLatency`, `Seek`, `Rotation`,
`ModuloDiff` and `BufferInit` are the functions of `disk.cc`. The interrupt may be handled later
than it is due, as it is when interrupts are off.

`Lock::Acquire` and `Lock::Release` are empty (threads/synch.cc:105-106), so two threads may be in
`SynchDisk` at once. The run `disk_returns` shows a call that returns while its own request is
pending: it has taken the token of the request before it. synchdisk.cc:65 says "Return only
after the data has been read". No token is lost or made (`TokensMatch`), and the latency is right
to the tick (`Timely`).

## 8. The model of the post office and how it corresponds to the code

Each machine is a process of its own with a socket, a network device that polls it, a post office
with a worker thread, and threads that send and receive. All of them interleave.

| State | Code |
|---|---|
| `socket`, `inbox` | the UNIX socket's queue; `inHdr` and `inbox` of `Network` (one packet) |
| `messageAvailable`, `worker` | the semaphore, and where the postal worker is |
| `mailbox` | the `SynchList` of each box |
| `sendsPending`, `messageSent`, `sendQueue` | `NetworkSendDone` interrupts to come; the semaphore and its queue |
| `client`, `sent` | where each thread is; how many packets its machine has sent, to tell packets apart |
| `stopped` | the machine's process has ended |

| Actions | Code |
|---|---|
| `CheckPktAvail` | the poll, which reads a packet only into an empty inbox, with the handler `IncomingPacket` |
| `WorkerWaits`, `Deliver` | `PostalDelivery`: `P`, then `Network::Receive` and `MailBox::Put` |
| `Send`, `ResumeSend`, `SendDone` | `PostOffice::Send` with the loss of a packet; the loop of `P`; `SendDone` with `PacketSent` |
| `Receive`, `ReceiveEmpty` | `PostOffice::Receive`; `Condition::Wait` is `ASSERT(FALSE)` in this version (threads/synch.cc:110), so a Receive from an empty box ends the machine |
| `SendAborts`, `Halt` | a machine that ends takes its socket along, and the next `SendToSocket` to it fails its assertion |

`Lock` is empty, and `sendBusy` is never set to TRUE, so several threads may be in `Send`; each
takes one token, not its own. `SendersMatch` says that none is lost or made by that, and that
whoever sleeps has a send interrupt to come. A thread that was woken may still find its token
gone (synch.cc:69), because another called `Send` before it was scheduled, and sleeps again; if
the others go on sending for ever this may go on for ever, in the code and in the model.
`SendReturns` therefore promises a return only if they stop. Packets have a sender, a box and a
number in place of contents. The sockets deliver in order, as UNIX datagram sockets on one host
do. All machines are up from the start, and no socket is ever full (the code asserts that `sendto`
takes the whole packet, sysdep.cc:381); both would end the sender like a machine that has stopped.

## 9. The abstract specifications

`Processes` has three variables: the life of each process (`unborn`, `ready`, `running`,
`asleep`, `gone`), its parent, and the child it waits for. It has no queues, no clock and no
switch. Its promises: only a running process forks; one process runs at a time; a process that
waits for a child is readied by nothing but the exit of that child, in the same step; an exit is
final. `ThreadsRefineProcesses` maps the threads to it. A thread counts as running from the
moment its `SWITCH` is complete, so a dispatch by a yielding or exiting thread is two steps of
`Processes`: the old one leaves, later the new one starts.

`PrivateMachines` gives each process registers of its own, changed by nothing but its own
instructions, traps and calls, and copied whole by a fork. `MachineRefinesPrivate` maps the
registers of a process to the machine's when it is the current thread and its state is restored,
else to its save area: `Schedule`, `Startup`, `Wake` and `FaultReturn` are stutters. `Interrupt`
is a `Trap` of the process whose registers are in the machine, if there is one.

`FileStore` is a map from names to contents with the promises of create, write and remove, and
`Lose` for a format or a stop in a half-written command. `FileSystemRefinesStore` reads the map
off the sectors; a command takes effect at one of its sector writes.

`MailSystem` has, per machine, the messages on their way to it and its mailboxes. A message is
lost when it is sent, or delivered once, in the order of acceptance. In `PostOffice` what is on its
way is the inbox followed by the socket.

## 10. Runs

Tick constants of the threads are scaled (`UserTick` 1, `SystemTick` 2, console write 3, timer 4,
quantum 4; in `threads_unix` 1, 2, 2, 2, 2): what matters is that a kernel tick is longer than a user tick, that several ticks fit
in a period, and that a write and a sleep can end on either side of a timer interrupt. The
constructor's assertion limits a table of N to N - 1 threads.

| Run | Configuration | Shows |
|---|---|---|
| `threads_rr` | round robin, table of 4, sleeps of 1 and 6, weak fairness of `Next` | the queues, the console semaphore, the sleep queue, Join, thread deletion, the idle loop; that nobody starves, oversleeps or joins for ever; `ImplementsProcesses`. Two sleep times, one longer than a period, are the least with which a later sleeper is inserted before an earlier one; three live threads the least with a barging writer between a woken and a waiting one, with a chain of joins, and with siblings that exit in either order |
| `threads_unix` | `UnixThreads`: table of 4, randomised timer of 1 to 4 ticks, quantum 2, at most 2 children, so that a process forks too often; weak fairness of `UnixNext` | `TimeSlice`: no slice exceeds a quantum plus a timer period; `ReadyRuns`: nobody starves. Bursts of 1 to 6 ticks give usages that differ by more and by less than a step of the priority, so that both the decay and the order of the list decide |
| `paging_private` | 2 processes of 2 pages in 2 frames, all algorithms, Fork, Exec, Exit | `TypeOK`, `OwnedFrames`, `CountsFrames`, `DirtyIntact`: the least with which each process replaces pages of the other and of its own, and a Fork finds all frames in use |
| `paging_shared` | 2 processes of 1 page, one shared page each, 2 frames, all algorithms | `ScanEnds`: frames short with none, one or both of them shared, and shared frames given out again |
| `shared_kept` | 1 process of 2 pages, one shared page, 3 frames, all algorithms | violation of `SharedKept` (section 5): three frames are enough for all three pages |
| `paging_alone` | 1 process of 3 pages, 2 of them of code, in 2 frames, FIFO, LRU, CLOCK; weak fairness of `Next` | `RunsOn`, `InstructionCompletes`: three pages compete for two frames, with frames released by Exec still on the lists |
| `loaded_back` | 1 process of 3 pages in 2 frames, LRU | violation of `LoadedBack` (section 5) |
| `machine` | 2 threads, started by `-x` or `-F`; register 0, one other register, two words | `TypeOK`, `HasMachine`, `ZeroRegister`, `ImplementsPrivateMachines`. Two threads give each kind of switch: to one that is new, that has slept, that was preempted before `Startup`, and to itself; two words tell a register that was kept from one that was not |
| `filesystem` | 9 sectors of 4 bytes, 2 directory entries of which the second straddles, 3 names (symmetric), files of 0, 1 and 7 bytes written 3 bytes at a time | `TypeOK`, `NoSharedSector`, `MapExact`, `NoLeak`, `PrintsFile`, `ImplementsFileStore`. 9 sectors hold the system's five and four more: the large file fills three and an empty one fits beside it, but not one of a byte, so that Create is refused for want of sectors and, with three names, of entries; writes start and end in mid-sector |
| `disk` | 2 threads, 2 tracks of 4 sectors, a seek of 2 ticks and a rotation of 3, 48 ticks | `Timely`, `TokensMatch`: a seek ends inside a sector; 48 ticks are four rotations of the disk |
| `disk_returns` | as `disk` | violation of `ReturnsWhenDone` (section 7) |
| `post_office` | 2 machines, of 2 threads that send twice and 1 that sends once, 1 mailbox | `OneNotice`, `SendersMatch`, `Delivered`, `SendReturns`, `ImplementsMailSystem`: two threads in `Send` at once, one of which takes the token the other was woken for, packets from both machines in one socket, a machine that has ended |

Deadlock is checked in every run: the only states without a step are `halted`, failed
assertions and the other stops, in which `Terminated` stutters.

**Bounds.** The number of threads is bounded by `MAX_THREAD_COUNT` itself: pids are never reused.
`burst` is capped at `BurstCap`, a quantum plus a timer period, beyond which no comparison of
the code tells two bursts apart; without preemption the code compares it with 0 only and the cap
is 1. In `threads_unix`, where `UpdateThreadPriority` adds it to the usage, the burst of a running
thread never exceeds the cap. `pendingWrites` needs no bound (`OneWriteAtATime`), nor do `value` and the relative times.
No state constraint is used, and no symmetry but that of file names.
In `DemandPaging` the number of processes is bounded by `MAX_THREAD_COUNT` too, and `VMPages`
bounds the pages a process has after `ShmAllocate`; with `VMPages` equal to `NumPages` no page is
shared. The lists hold each frame at most once and need no bound.
In `SynchDisk` time ends at `MaxTicks`, in `PostOffice` each machine sends `MaxSends` packets;
with that bound the premise of `SendReturns`, that the other threads stop sending, always holds,
and without the premise the property would be true in the run but not of the code.
`UserMachine` and `FileSystem` need no bound beyond their sets of words, names and files.

**Fairness.** The threads and paging have `WF_vars(Next)`: the one host process goes on executing.
There is no fairness among threads: that a ready thread runs under round robin follows from the
timer, and a user program that loops for ever is one of the behaviours. Liveness says "or the
machine stops", since any process may call `Halt`. `PostOffice` has several machines, and fairness
for each step that its machine takes by itself: the poll (it reschedules itself), the send
interrupt (a scheduled event), the worker and a woken sender (ready threads of a scheduler that
does not starve them, which `ReadyRuns` shows). What user threads do, send, receive or halt, is
under no fairness.

**What holds against appearances.** Idle's `CheckIfDue(TRUE)` gives up when only the timer is
pending, so sleepers alone would halt the machine. They are saved because every exception has
created a `Console` whose polls stay pending (`HaltMeansDone` fails when only the print calls
create one). A timer interrupt readies every sleeper whose time has come although it looks at
the head of the list only (`WokenOnTime`). `P` is correct although `V` both wakes a thread and
leaves a value for anyone to take (`NoLostWakeup`), because `P` looks again. A process does not
notice that its saved registers are loaded on two different paths, because `stateRestored` keeps
a thread preempted before `Startup` from saving another's (`HasMachine`).

The handler's assertion on `burst_start_time` (system.cc:100) reads a field of main that nothing
has assigned in main's first burst; that it fails is an outcome of `TimerInterrupt` in every run.
The one in `YieldCPU` (thread.cc:344) takes it that under SJF only preemption comes there, which
SJF has not; but `Yield` and `Sleep(0)` come there too, and a process that is alone and has used
a tick fails it. `SysYield` has this outcome; no run states it.

## 11. Proofs

The theorems hold for every value of the constants that satisfies the named assumptions of the
modules, which TLC evaluates in the runs: for the threads at least two slots in the thread table,
a known scheduling algorithm, positive tick lengths, quantum and sleep times; for the user machine
that register 0 and the return register are among the general ones, that 0 is a word and
that there is a thread to start with; for demand paging that there are frames, processes
and pages, and a known replacement algorithm; for the file system that the map, the directory and
their headers fit on the disk, that sectors, chunks and directory have a positive size, that the
files to copy are sequences of bytes that one header can describe; for the disk a positive geometry
and positive seek and rotation times; for the post office that a machine has finitely many
threads (their number in `Send` is counted).

| Theorem | Module | Argument |
|---|---|---|
| `TypeCorrect`: `TypeOK` | `NachOSThreadsProofs` | inductive as it stands; lemmas give the types of what `Dispatch`, `YieldCPU`, `P`, `V` and `Age` assign |
| `OneWriteCorrect`: `OneWriteAtATime` | `WaitingProofs` | the invariant bounds the writers by a cardinality, so it needs that the set of writers is finite and changes by one thread at a time; the strengthening adds that a pid not given out has no position in the code, so that a fork adds no writer and removes none |
| `QueuesCorrect`: `QueuesAgree` | `NachOSThreadsProofs` | `QueuesInv` adds that nobody is RUNNING while the machine idles, and that a parent with `waitchild_id` set is asleep in its join (else an exit could put on the ready list a thread that is already there). Lemmas say what append, removal, cutting and sorted insertion do to the members of a list without duplicates |
| `SliceCorrect`: `TimeSlice` | `NachOSThreadsProofs` | `SliceInv` says it of every tick and every switch, not only of user code, unless `yieldOnReturn` is set: the timer handler finds a quantum that is over at the first interrupt after it, and a thread whose yield was asked for leaves before it runs again. Time adds to `burst` at most what it takes from `timerIn`, so their sum never grows within a slice but when the timer is set again |
| `JoinCorrect`: `JoinHandshake` | `WaitingProofs` | `JoinInv` adds that an exit once recorded is final, that every parent that has not exited was told of each child that did, and that pids not given out are nobody's children |
| `CarcassCorrect`: `NoLostCarcass`; `DanglingCorrect`: `NoDangling` | `WaitingProofs` | `ExitInv`: an exited thread is asleep, so the next switch is to another thread and deletes it; a thread that runs has seen to the last carcass unless it was just forked; a deleted thread is not the current one. `MainAlone` is the hard part: main may end in `FinishThread` without recording its exit, but only before `Machine::Run`, when it is the only thread and the machine halts |
| `WakeupCorrect`: `NoLostWakeup` | `WaitingProofs` | with `QueuesInv` and `OneWriteAtATime`, as it stands: the step that raises `value` readies the head of `queue`; a thread that was woken is at its `P` until it takes the value, and by `OneWriteAtATime` that leaves 0 |
| `WokenCorrect`: `WokenOnTime` | `WaitingProofs` | `Sorted`: the sleep queue is in the order of the times at which its threads wake. `SortedInsert` keeps it so, and all sleepers' times come nearer together (`OthersAge`); the current thread, which is inserted, is not yet on the queue (`QueuesInv`), so its new time changes nobody else's. Then the sleepers after the first whose time has not come need not be looked at |
| `IdleCorrect`: `IdleHasWaker`; `HaltCorrect`: `HaltMeansDone` | `WaitingProofs` | `WaitInv`: a child's pid is greater than its parent's, sleepers mean that a Console polls, and the machine waits with an empty ready list. If threads that have not exited are all blocked, the one with the largest pid among them cannot wait in a join (its child would have to be blocked too), so it sleeps, or waits for `writeDone`; then by `OneWriteAtATime` and `NoLostWakeup` a character is being written, or a thread that is ready has the turn. The largest pid exists because the pids are finitely many (`LargestPid`, from the well-foundedness theorems of the library) |
| `RefinementCorrect`: `Spec => ImplementsProcesses` | `RefinementProofs` | `FamilyInv` adds that an exited thread stays BLOCKED and that main, which ends without recording its exit, has no parent. Each action maps to a step of `Processes` or a stutter: `StillMaps`, `ResumeMaps`, `SleepMaps`, `YieldMaps`, `PMaps`, `WakeMaps`, `ForkMaps`, `JoinMaps`, `FinishMaps`, `ExitMaps` |
| `MachineTypeCorrect`: `TypeOK`; `MachineCorrect`: `HasMachine`; `ZeroCorrect`: `ZeroRegister` | `MachineProofs` | `MachineInv` says of each thread, by its place in the code and whether it is current, where its registers and its address space are: a thread that is not current and not new has good registers in its save area, and `stateRestored` is FALSE; the current one has them in the machine, unless it has just started in `ThreadRoot`, where they may or may not have been restored by a `Schedule` on the way. `HasMachine` alone is not inductive, because a switch restores what an earlier one saved. A thread that is new, in `ThreadRoot`, in a system call or exited has no load in progress, so that an interrupt there leaves its registers alone; in `ThreadRoot` they would else differ from the save area that `Startup` loads again. Lemmas say that every instruction, trap and call keeps a register file good: words in every register, and zero in register 0 |
| `PrivateCorrect`: `Spec => ImplementsPrivateMachines` | `MachineProofs` | with `MachineInv`, saving and restoring move the registers of a process without changing them, so `Schedule`, `Startup` and `Wake` are stutters of `PrivateMachines`, each instruction or call is a step of the process that makes it, an interrupt is a trap of the process in the machine or, where no load is in progress and where the machine has nobody's registers, a stutter (`InterruptMaps`), and `SysFork` and the batch start give birth with the right copy |
| `OwnedCorrect`: `OwnedFrames`; `CountCorrect`: `CountsFrames` | `PagingProofs` | `FramesInv`: a page maps to a frame exactly if the core map says so, in both directions and with the half-made table of a Fork counted, and an empty frame has no process (`FreePages` looks at `processID` only). `FrameFound` says once what `PagetoEvict` returns, whether the frame was empty or taken by one of the four algorithms: no page is in it, and all other pages are where they were. A fault and the copy in Fork then put one page there (`FramePut`) |
| `BackupCorrect`: `DirtyIntact` | `PagingProofs` | `BackupInv` says the same of the pages in the half-made table of a Fork, in terms of what the parent wrote, and that a page the Fork did not copy stays out of memory until it ends, so that the backup the child then copies is complete. It needs that a page in the backup is marked dirty (`LoadPage` clears both marks together), and that no two pages share a frame (`FramesInv`) |
| `PagingTypeCorrect`: `TypeOK` | `PagingProofs` | `AnyInv`: a frame that is not in use has no process, so that `FreePages` subtracts no more than are in use, and the count never falls below the frames in use; it may exceed them, because a shared frame that is found "empty" is counted again. What is marked as swapped has a place in the backup: `ShmAllocate` makes the page table longer than the backup, and clears the mark. `FoundAny` says what a call of `PagetoEvict` keeps |
| `ScanEndsCorrect`: `ScanEnds` | `PagingProofs` | from `AnyInv`: the frames in use are no more than the count, so while the count is below the number of frames one of them is not in use. Each handing out of a shared frame makes the count exceed them by one more, and `FreePages` takes off only what it releases |
| `RunsOnCorrect`: `RunsOn` | `PagingProofs` | `AloneInv`: nothing is shared, each entry of the core map that is in use names the page of the process whose entry is that frame, the count is the number of frames in use, and under FIFO and LRU each frame in use is on the list or holds a page that the pending instruction still needs. Of the two pages an instruction needs, the one that faults has no frame, so when all frames are in use, and there are two, one of them is on the list (`SomeQueued`) and `PagetoEvict` finds it before the list is empty, whatever else is left on the list by an Exec; the other algorithms search the core map (`VictimExists`) |
| `FileTypeCorrect`: `TypeOK`; `NoSharedSectorCorrect`: `NoSharedSector`; `MapExactCorrect`: `MapExact`; `NoLeakCorrect`: `NoLeak` | `FileSystemProofs` | `FilesInv` follows the writes of a command one by one, because between them directory and map disagree: while a Create has k writes to go, `Created` says which they are, that the new header is on the disk after the first, each part of the directory after its own, and that the map has the new sectors only after the last (`Removed` likewise, the other way round; `Formatting` for the five writes of a format). Entries half created or half removed do not count as files (`Listed`), and with that the map is exact at every moment. A copy writes in the sectors of its own file only (`Copying`, `WriteAtSectors`). Lemmas: what `Find` returns, called n times, are n different clear sectors (`FirstClearFinds`, by the least element of a set of sectors that no number of others precede); a sector of the file system is never written but by the command it is listed for |
| `PrintsFileCorrect`: `PrintsFile`; `StoreImplemented`: `Spec => ImplementsFileStore` | `FileSystemProofs` | `StoreInv`, on top of `FilesInv`: listed files have different names (`Named`), the file being created has a new one (`NewName`), what was printed is a prefix of the file (`Printed`), and each pending write of a chunk has the bytes of the source within the chunk and those of the file around it (`Chunk`; that `WriteAt` computes such writes, with the first and last sector read first, is `WriteAtBrings`). Then one write of each command is its step of `FileStore`: the map for Create (`CreateLast`), the map again for Remove (`RemoveFirst`), and for Copy every write, which brings the range of bytes that the chunk and the sector have in common (`WriteCopyStore`, `SectorRange`). The others leave every file as it is (`SilentWrite`), since they write in no sector of a file. `StoreImplemented` assumes that `NoFile` is no function, so that no file's bytes are mistaken for it |
| `TimelyCorrect`: `Timely` | `DiskProofs` | `TimelyInv` adds that the track buffer began to be filled at the start of a sector and not in the future. The sum that `ComputeLatency` computes is shown to be the first end of a pass of the wanted sector after the head has arrived, by facts about quotients and remainders (`FirstPass`): not before, not a rotation later; and what is in the track buffer has passed since it began to be filled |
| `TokensCorrect`: `TokensMatch` | `DiskProofs` | `TokensInv` counts the threads in their calls: they are as many as tokens and requests together, and while somebody sleeps no more tokens are free than threads have been woken; the queue holds each sleeper once |
| `NoticeCorrect`: `OneNotice` | `PostOfficeProofs` | inductive with the types of the receiving side; all sending actions are summarised by what they do to a socket |
| `SendersCorrect`: `SendersMatch` | `PostOfficeProofs` | `SendInv` adds that the queue of `messageSent` holds the sleeping threads, each once, so that a wake-up takes one interrupt and one sleeper and moves no thread into or out of `Send`; a thread falls asleep only when there is no token, and then as many interrupts are to come as threads are in `Send` |
| `MailCorrect`: `Spec => ImplementsMailSystem` | `PostOfficeProofs` | uses `OneNotice`: a worker about to take a packet finds one, and it is the oldest on its way |

The modules about the threads build on each other: `WaitingProofs` on `NachOSThreadsProofs`, and
`RefinementProofs` on `WaitingProofs`; each invariant is proved with the earlier ones as hypotheses. A step of
`UnixThreads` is one of `NachOSThreads` with one more condition, so all of this holds of it too.

The first three theorems of `PagingProofs` assume `Unshared`: no process allocates shared memory
or executes a missing file, as in `paging_private`. With either, `OwnedFrames` is false for the
reasons in section 5. `PagingTypeCorrect` and `ScanEndsCorrect` assume nothing. `RunsOnCorrect` assumes `Alone`: one process, no shared memory, as in `paging_alone`, and two frames or more (the
code has 512). After a Fork it is false, because the child's frames are on neither list (section
5). With one frame it is false under FIFO, as TLC shows when given one: the fault of a
load or store takes the only frame off the list, and the next fetch finds the list empty.

Only model-checked: what must eventually happen (`ReadyRuns`, `SleeperWakes`, `JoinReturns`,
`InstructionCompletes`, `Delivered`, `SendReturns`), since liveness under fairness is out of the
prover's reach, and what the runs that expect a violation check, which is false.

## 12. Not modelled, and why

- The burst estimates of SJF: planned; under SJF the thread model lets any ready thread be of
  least priority. No run has SJF or the default algorithm; the theorems about the threads hold
  under all four. Different base priorities under UNIX (section 3).
- `readAvail` and console input: no kernel code waits for it.
- The results and the decoding of MIPS instructions: a definition of them would repeat
  `mipssim.cc` case by case. The contents of memory appear as tags in `DemandPaging` only.
- `Lock` and `Condition` have empty bodies in this version; the disk and the post office are
  modelled with them empty.
- Statistics, messages, the command line, the host interface (`sysdep.cc`) and the assembly of
  the context switch: input, output and layout.
- Demand paging of the processes of a batch (`-F`). The constructor allocates the backup in
  `currentThread` (addrspace.cc:98), which is main for all of them, so they have none of their
  own; `DemandPaging` starts with one process, as `-x` does.
- A full socket and a machine that is started late (section 8).
- User programs, `coff2noff` and the cross compiler, not part of the kernel.
- The kernels of Assignment-1 and Assignment-2, but for the network: earlier versions of the same
  files.

Hazards without a property are listed in PROJECT.json with the reason.
