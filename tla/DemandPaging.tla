---------------------------- MODULE DemandPaging ----------------------------
(***************************************************************************)
(* Demand paging, page replacement and shared memory of Assignment-3:      *)
(* userprog/addrspace.cc, with Translate, ReadMem and WriteMem, and the    *)
(* Fork, Exec, Exit and ShmAllocate system calls as far as they touch      *)
(* memory.  Any live process may execute the next instruction: a page      *)
(* fault puts its process to sleep, and the timer preempts the others.     *)
(***************************************************************************)
EXTENDS Integers, Sequences, FiniteSets, FiniteSetsExt, SequencesExt

CONSTANTS
    MAX_THREAD_COUNT,   \* size of threadArray: pids are not used twice
    NumPhysPages,       \* frames of the main memory
    NumPages,           \* pages of an executable, with its stack
    FilePages,          \* those of them that the executable file fills
    VMPages,            \* bound on the pages of a process after ShmAllocate
    NameLengths,        \* lengths of the names of executables
    MissingFiles,       \* whether a process may Exec a file that does not exist
    Algorithms          \* values of the flag -R: a subset of the four below

RANDOM == 1
FIFO == 2
LRU == 3
CLOCK == 4

ASSUME CountAssumption == /\ {MAX_THREAD_COUNT, NumPhysPages} \subseteq Nat \ {0}
                          /\ NumPages \in Nat /\ FilePages \in 1 .. NumPages
                          /\ VMPages \in Nat /\ VMPages >= NumPages
ASSUME FileAssumption == NameLengths \subseteq Nat \ {0} /\ MissingFiles \in BOOLEAN
ASSUME AlgorithmAssumption == Algorithms \subseteq {RANDOM, FIFO, LRU, CLOCK}

None == -1
Pid == 0 .. MAX_THREAD_COUNT - 1
Frames == 0 .. NumPhysPages - 1
PidOrNone == Pid \cup {None}
FrameOrNone == Frames \cup {None}

VARIABLES
    pageReplaceAlgo,    \* set by the command line
    mode,               \* "run", "fork" and "shm" within the loops over a page
                        \* table, or how the simulation came to a stop
    job,                \* the loop: its process, the child, the table it builds
    thread_index,       \* number of processes created
    live,               \* the processes with an address space
    table,              \* their page tables, functions on 0 .. numPagesInVM - 1
    PhysMap,            \* the core map
    numPagesAllocated,
    replacement,        \* fifoList or lruList, Refbit and headpt
    mainMemory,         \* the contents of each frame
    SwapTable,          \* the backup of each page of each process
    fileName,           \* length, and whether it spells the name of the program
    pending,            \* the instruction that is restarted after a page fault
    retrying,           \* processes that repeat an Exec of a missing file
    written             \* what the program last left in each of its own pages

vars == <<pageReplaceAlgo, mode, job, thread_index, live, table, PhysMap,
          numPagesAllocated, replacement, mainMemory, SwapTable, fileName, pending,
          retrying, written>>
memoryVars == <<table, PhysMap, numPagesAllocated, replacement, mainMemory, SwapTable>>
processVars == <<thread_index, live, fileName, pending, retrying, written>>

\* A page is as in the file, is zero, or was modified: by whom, and which page.
Image == <<None, 0>>
Zero == <<None, 1>>
Modified == Pid \X (0 .. VMPages - 1)
Content == {Image, Zero} \cup Modified

\* TranslationEntry; physicalPage is None where valid is FALSE: nothing reads it.
Entry == [physicalPage : FrameOrNone, dirty : BOOLEAN, swapped : BOOLEAN,
          shared : BOOLEAN]
CoreMap == [IsEmpty : BOOLEAN, processID : PidOrNone, virtPage : Int, IsShared : BOOLEAN]

\* An instruction is fetched from one page and may read or write another.
Instructions == [fetch : 0 .. FilePages - 1, data : Nat \cup {None}, write : BOOLEAN]
NoInstruction == [fetch |-> None, data |-> None, write |-> FALSE]

NoJob == [proc |-> None, child |-> None, size |-> 0, pages |-> <<>>]

Stops == {"hung", "undefined", "assert"}

FreshEntry == [physicalPage |-> None, dirty |-> FALSE, swapped |-> FALSE, shared |-> FALSE]
FreshTable == [v \in 0 .. NumPages - 1 |-> FreshEntry]
FreshSwap == [v \in 0 .. NumPages - 1 |-> Zero]
FreshProgram == [v \in 0 .. NumPages - 1 |-> IF v < FilePages THEN Image ELSE Zero]

Init ==
    /\ pageReplaceAlgo \in Algorithms
    /\ mode = "run" /\ job = NoJob
    /\ thread_index = 1 /\ live = {0}
    /\ table = [p \in Pid |-> IF p = 0 THEN FreshTable ELSE <<>>]
    /\ PhysMap = [f \in Frames |-> [IsEmpty |-> TRUE, processID |-> None,
                                    virtPage |-> None, IsShared |-> FALSE]]
    /\ numPagesAllocated = 0
    /\ replacement = [list |-> <<>>, Refbit |-> [f \in Frames |-> FALSE], headpt |-> 0]
    /\ mainMemory = [f \in Frames |-> Zero]
    /\ SwapTable = [p \in Pid |-> IF p = 0 THEN FreshSwap ELSE <<>>]
    /\ fileName \in [Pid -> {[length |-> n, spelled |-> TRUE] : n \in NameLengths}]
    /\ pending = [p \in Pid |-> NoInstruction]
    /\ retrying = {}
    /\ written = [p \in Pid |-> IF p = 0 THEN FreshProgram ELSE <<>>]

-----------------------------------------------------------------------------
(* access and replacePage *)

Valid(p, v) == table[p][v].physicalPage # None

\* access: a reference to frame f, from replacement state r
\* (Slip: a frame that is not on the list is not appended.)
AccessListed(f, r) == IF pageReplaceAlgo = CLOCK THEN [r EXCEPT !.Refbit[f] = TRUE] ELSE r
Access(f, r) ==
    CASE PhysMap[f].IsShared -> r
      [] pageReplaceAlgo = FIFO /\ f \notin ToSet(r.list) -> [r EXCEPT !.list = Append(@, f)]
      [] pageReplaceAlgo = LRU -> [r EXCEPT !.list = Append(RemoveFirst(@, f), f)]
      [] pageReplaceAlgo = CLOCK -> [r EXCEPT !.Refbit[f] = TRUE]
      [] OTHER -> r

Chosen(f, r) == [frame |-> f, replacement |-> r]

RandomVictims(ign, r) ==
    {Chosen(f, r) : f \in {g \in Frames \ {ign} : ~PhysMap[g].IsShared}}

\* The first frame of the list that is not ign; ign goes to the end.
FifoVictims(ign, r) ==
    LET others == {i \in DOMAIN r.list : r.list[i] # ign}
        k == Min(others)
    IN  IF others = {} THEN {}
        ELSE {Chosen(r.list[k], [r EXCEPT !.list = SubSeq(@, k + 1, Len(@))
                                                     \o SubSeq(@, 1, k - 1)])}

\* The head of the list, or the one behind it if that is ign; the victim is
\* appended as the most recent.
\* (Slip: the most recent is replaced.)
MruVictims(ign, r) == {Chosen(Last(r.list), r)}
LruVictims(ign, r) ==
    LET l == IF Head(r.list) = ign THEN Append(Tail(r.list), ign) ELSE r.list
    IN  {Chosen(Head(l), [r EXCEPT !.list = Append(Tail(l), Head(l))])}

\* The frame k places past the hand
FromHand(r, k) == (r.headpt + k) % NumPhysPages

\* The bits when the hand has passed some frames and stopped at f
BitsAfter(ign, r, passed, f) ==
    [g \in Frames |-> g = f \/ IF g \in passed THEN g = ign ELSE r.Refbit[g]]

\* The hand clears the reference bits it passes and stops at the first frame that
\* may be replaced; after one turn all the others are clear.
ClockVictims(ign, r) ==
    LET candidates == {k \in Frames : /\ FromHand(r, k) # ign
                                      /\ ~PhysMap[FromHand(r, k)].IsShared}
        clear == {k \in candidates : ~r.Refbit[FromHand(r, k)]}
        k == Min(IF clear # {} THEN clear ELSE candidates)
        f == FromHand(r, k)
        passed == IF clear # {} THEN {FromHand(r, j) : j \in 0 .. k - 1} ELSE Frames
    IN  IF candidates = {} THEN {}
        ELSE {Chosen(f, [r EXCEPT !.headpt = FromHand(r, k + 1),
                                  !.Refbit = BitsAfter(ign, r, passed, f)])}

\* replacePage: an empty set where the search for a victim does not end.
replacePage(ign, r) ==
    CASE pageReplaceAlgo = RANDOM -> RandomVictims(ign, r)
      [] pageReplaceAlgo = FIFO -> FifoVictims(ign, r)
      [] pageReplaceAlgo = LRU -> LruVictims(ign, r)
      [] pageReplaceAlgo = CLOCK -> ClockVictims(ign, r)

-----------------------------------------------------------------------------
(* PagetoEvict *)

\* What a call yields: the frame and the state after it, or a stop.
Yields(f, count, r, t, s) == [stop |-> "none", frame |-> f, count |-> count,
                              replacement |-> r, table |-> t, swap |-> s]
StopsWith(m) == [stop |-> m]

\* (Slips: the entry stays valid; the page is not copied to the backup.)
StillValid(e) == [e EXCEPT !.swapped = @ \/ e.dirty]
Invalidated(e) == [e EXCEPT !.physicalPage = None, !.swapped = @ \/ e.dirty]
NoBackup(p, v, f) == SwapTable
Backup(p, v, f) == [SwapTable EXCEPT ![p][v] = mainMemory[f]]

\* The page in frame v.frame is invalidated in the table of the process that the
\* core map names, and backed up if dirty.  Undefined if there is no such process,
\* no space of it yet, or no place for the page in its two tables.
Evict(v) ==
    LET owner == PhysMap[v.frame].processID
        page == PhysMap[v.frame].virtPage
        dirty == table[owner][page].dirty
    IN  IF \/ owner \notin live
           \/ page \notin DOMAIN table[owner]
           \/ dirty /\ page \notin DOMAIN SwapTable[owner]
        THEN StopsWith("undefined")
        ELSE Yields(v.frame, numPagesAllocated, v.replacement,
                    [table EXCEPT ![owner][page] = Invalidated(@)],
                    IF dirty THEN Backup(owner, page, v.frame) ELSE SwapTable)

\* The frame found first is empty, or shared.
Available == {f \in Frames : PhysMap[f].IsEmpty \/ PhysMap[f].IsShared}

\* (Slip: the frame is not counted.)
Uncounted == numPagesAllocated
Counted == numPagesAllocated + 1

PagetoEvict(ign, r) ==
    IF numPagesAllocated < NumPhysPages
    THEN IF Available = {} THEN {StopsWith("undefined")}
         ELSE {Yields(Min(Available), Counted, r, table, SwapTable)}
    ELSE IF pageReplaceAlgo \in {FIFO, LRU} /\ r.list = <<>> THEN {StopsWith("undefined")}
    ELSE IF replacePage(ign, r) = {} THEN {StopsWith("hung")}
    ELSE {Evict(v) : v \in replacePage(ign, r)}

Stop(m) == mode' = m /\ UNCHANGED <<job, memoryVars, processVars>>

\* PagetoEvict, then the page v of process p in the frame it found.
Take(o, p, v, isShared, content) ==
    /\ numPagesAllocated' = o.count
    /\ replacement' = o.replacement
    /\ SwapTable' = o.swap
    /\ PhysMap' = [PhysMap EXCEPT ![o.frame] =
                     [IsEmpty |-> FALSE, processID |-> p, virtPage |-> v,
                      IsShared |-> isShared]]
    /\ mainMemory' = [mainMemory EXCEPT ![o.frame] = content]

-----------------------------------------------------------------------------
(* Instructions and page faults *)

\* A page past the end of the file keeps what is in the frame.
Loaded(o, p, v) ==
    IF o.table[p][v].swapped THEN o.swap[p][v]
    ELSE IF v < FilePages THEN Image ELSE mainMemory[o.frame]

\* Without its file, LoadPage returns at once; the page fault is the same.
LoadPage(p, v, r) ==
    IF ~fileName[p].spelled
    THEN /\ replacement' = r
         /\ UNCHANGED <<mode, table, PhysMap, numPagesAllocated, mainMemory, SwapTable>>
    ELSE \E o \in PagetoEvict(None, r) :
           IF o.stop # "none"
           THEN /\ mode' = o.stop
                /\ UNCHANGED memoryVars
           ELSE /\ Take(o, p, v, FALSE, Loaded(o, p, v))
                /\ table' = [o.table EXCEPT ![p][v] =
                               [FreshEntry EXCEPT !.physicalPage = o.frame]]
                /\ UNCHANGED mode

PageFault(p, i, v, r) ==
    /\ LoadPage(p, v, r)
    /\ pending' = [pending EXCEPT ![p] = i]
    /\ UNCHANGED <<pageReplaceAlgo, job, thread_index, live, fileName, retrying, written>>

\* Translate, ReadMem and WriteMem for the fetch, then for the data.
Instruction(p) ==
    /\ mode = "run" /\ p \in live
    /\ \E i \in IF pending[p] = NoInstruction
                THEN {j \in [fetch : 0 .. FilePages - 1,
                             data : DOMAIN table[p] \cup {None}, write : BOOLEAN] :
                        j.data = None \/ p \in retrying => ~j.write}
                ELSE {pending[p]} :
        LET fetched == Access(table[p][i.fetch].physicalPage, replacement)
            frame == table[p][i.data].physicalPage
        IN  IF ~Valid(p, i.fetch) THEN PageFault(p, i, i.fetch, replacement)
            ELSE IF i.data # None /\ ~Valid(p, i.data) THEN PageFault(p, i, i.data, fetched)
            ELSE /\ replacement' = IF i.data = None THEN fetched ELSE Access(frame, fetched)
                 /\ pending' = [pending EXCEPT ![p] = NoInstruction]
                 /\ IF i.write
                    THEN /\ table' = [table EXCEPT ![p][i.data].dirty = TRUE]
                         /\ mainMemory' = [mainMemory EXCEPT ![frame] = <<p, i.data>>]
                         /\ written' = [written EXCEPT ![p][i.data] = <<p, i.data>>]
                    ELSE UNCHANGED <<table, mainMemory, written>>
                 /\ UNCHANGED <<pageReplaceAlgo, mode, job, thread_index, live, PhysMap,
                                numPagesAllocated, SwapTable, fileName, retrying>>

\* The instruction that traps was fetched; none is being restarted.
Trap(p) ==
    /\ mode = "run" /\ p \in live \ retrying /\ pending[p] = NoInstruction
    /\ UNCHANGED <<pageReplaceAlgo, pending>>

Fetch(p) == \E v \in 0 .. FilePages - 1 :
              /\ Valid(p, v)
              /\ replacement' = Access(table[p][v].physicalPage, replacement)

-----------------------------------------------------------------------------
(* Fork: the constructor that duplicates an address space *)

BeginFork(p) ==
    /\ Trap(p) /\ Fetch(p)
    /\ thread_index < MAX_THREAD_COUNT
    /\ mode' = "fork"
    /\ job' = [proc |-> p, child |-> thread_index, size |-> Cardinality(DOMAIN table[p]),
               pages |-> <<>>]
    /\ thread_index' = thread_index + 1
    /\ UNCHANGED <<live, table, PhysMap, numPagesAllocated, mainMemory, SwapTable,
                   fileName, retrying, written>>

NextPage == Len(job.pages)
AddPage(e) == job' = [job EXCEPT !.pages = Append(@, e)]

\* A resident page is copied to a frame of the child's; the frame it is copied
\* from is not to be replaced.
CopyPage(p, i) ==
    \E o \in PagetoEvict(table[p][i].physicalPage, replacement) :
      IF o.stop # "none" THEN Stop(o.stop)
      ELSE /\ Take(o, job.child, i, FALSE, mainMemory[table[p][i].physicalPage])
           /\ table' = o.table
           /\ AddPage([o.table[p][i] EXCEPT !.physicalPage = o.frame])
           /\ UNCHANGED <<mode, processVars>>

ForkPage ==
    /\ mode = "fork" /\ NextPage < job.size
    /\ UNCHANGED pageReplaceAlgo
    /\ LET e == table[job.proc][NextPage] IN
       IF ~e.shared /\ Valid(job.proc, NextPage) THEN CopyPage(job.proc, NextPage)
       ELSE IF e.shared /\ e.swapped THEN Stop("assert")
       ELSE AddPage(e) /\ UNCHANGED <<mode, memoryVars, processVars>>

\* The rest of SYScall_Fork: the child gets its space, the name and the backup.  What
\* is copied from behind the end of the parent's backup is never read.
ForkDone ==
    /\ mode = "fork" /\ NextPage = job.size
    /\ mode' = "run" /\ job' = NoJob
    /\ live' = live \cup {job.child}
    /\ table' = [table EXCEPT ![job.child] = [v \in 0 .. job.size - 1 |-> job.pages[v + 1]]]
    /\ SwapTable' = [SwapTable EXCEPT ![job.child] =
                       [v \in 0 .. job.size - 1 |-> IF v \in DOMAIN SwapTable[job.proc]
                                                    THEN SwapTable[job.proc][v] ELSE Zero]]
    /\ fileName' = [fileName EXCEPT ![job.child] = fileName[job.proc]]
    /\ written' = [written EXCEPT ![job.child] = written[job.proc]]
    /\ UNCHANGED <<pageReplaceAlgo, thread_index, PhysMap, numPagesAllocated, replacement,
                   mainMemory, pending, retrying>>

-----------------------------------------------------------------------------
(* ShmAllocate: the constructor that extends an address space *)

BeginShm(p) ==
    /\ Trap(p) /\ Fetch(p)
    /\ mode' = "shm"
    /\ LET old == Cardinality(DOMAIN table[p]) IN
       \E size \in old + 1 .. VMPages :
         job' = [proc |-> p, child |-> None, size |-> size,
                 pages |-> [k \in 1 .. old |-> [table[p][k - 1] EXCEPT !.swapped = FALSE]]]
    /\ UNCHANGED <<thread_index, live, table, PhysMap, numPagesAllocated, mainMemory,
                   SwapTable, fileName, retrying, written>>

ShmPage ==
    /\ mode = "shm" /\ NextPage < job.size
    /\ UNCHANGED pageReplaceAlgo
    /\ \E o \in PagetoEvict(None, replacement) :
         IF o.stop # "none" THEN Stop(o.stop)
         ELSE /\ Take(o, job.proc, NextPage, TRUE, Zero)
              /\ table' = o.table
              /\ AddPage([FreshEntry EXCEPT !.physicalPage = o.frame, !.shared = TRUE])
              /\ UNCHANGED <<mode, processVars>>

ShmDone ==
    /\ mode = "shm" /\ NextPage = job.size
    /\ mode' = "run" /\ job' = NoJob
    /\ table' = [table EXCEPT ![job.proc] = [v \in 0 .. job.size - 1 |-> job.pages[v + 1]]]
    /\ written' = [written EXCEPT ![job.proc] =
                     [v \in 0 .. job.size - 1 |-> IF v \in DOMAIN @ THEN @[v] ELSE Zero]]
    /\ UNCHANGED <<pageReplaceAlgo, thread_index, live, PhysMap, numPagesAllocated,
                   replacement, mainMemory, SwapTable, fileName, pending, retrying>>

-----------------------------------------------------------------------------
(* Exec and Exit *)

\* (Slip: the frame keeps its process, and is released again.)
ReleasedOnly(c) == [c EXCEPT !.IsEmpty = TRUE]
Released(c) == [c EXCEPT !.IsEmpty = TRUE, !.processID = None]

FreePages(p) ==
    LET freed == {f \in Frames : PhysMap[f].processID = p /\ ~PhysMap[f].IsShared} IN
    /\ PhysMap' = [f \in Frames |-> IF f \in freed THEN Released(PhysMap[f]) ELSE PhysMap[f]]
    /\ numPagesAllocated' = numPagesAllocated - Cardinality(freed)

\* The new name is copied over the old one without an end of string.
Rename(old, n) == [length |-> Max({n, old.length}), spelled |-> n >= old.length]

Exec(p) ==
    /\ Trap(p) /\ Fetch(p)
    /\ FreePages(p)
    /\ table' = [table EXCEPT ![p] = FreshTable]
    /\ SwapTable' = [SwapTable EXCEPT ![p] = FreshSwap]
    /\ written' = [written EXCEPT ![p] = FreshProgram]
    /\ \E n \in NameLengths : fileName' = [fileName EXCEPT ![p] = Rename(@, n)]
    /\ UNCHANGED <<mode, job, thread_index, live, mainMemory, retrying>>

\* StartUserProcess cannot open the file and returns, with the program counter
\* still at the system call: the process makes the same call again.
ExecMissing(p) ==
    /\ MissingFiles
    /\ mode = "run" /\ p \in live /\ pending[p] = NoInstruction
    /\ Fetch(p)
    /\ FreePages(p)
    /\ retrying' = retrying \cup {p}
    /\ UNCHANGED <<pageReplaceAlgo, mode, job, thread_index, live, table, mainMemory,
                   SwapTable, fileName, pending, written>>

\* The destructor of the thread runs before another process has the CPU.
Exit(p) ==
    /\ Trap(p) /\ Fetch(p)
    /\ live # {p}
    /\ FreePages(p)
    /\ live' = live \ {p}
    /\ table' = [table EXCEPT ![p] = <<>>]
    /\ SwapTable' = [SwapTable EXCEPT ![p] = <<>>]
    /\ written' = [written EXCEPT ![p] = <<>>]
    /\ UNCHANGED <<mode, job, thread_index, mainMemory, fileName, retrying>>

\* The exit of the last process halts the machine.
LastExit(p) ==
    /\ Trap(p) /\ Fetch(p)
    /\ live = {p}
    /\ mode' = "halted"
    /\ UNCHANGED <<job, table, PhysMap, numPagesAllocated, mainMemory, SwapTable, thread_index,
                   live, fileName, retrying, written>>

Terminated == mode \in Stops \cup {"halted"} /\ UNCHANGED vars

Next ==
    \/ \E p \in Pid : \/ Instruction(p) \/ BeginFork(p) \/ BeginShm(p)
                      \/ Exec(p) \/ ExecMissing(p) \/ Exit(p) \/ LastExit(p)
    \/ ForkPage \/ ForkDone
    \/ ShmPage \/ ShmDone
    \/ Terminated

Spec == Init /\ [][Next]_vars

\* The host process goes on executing.
FairSpec == Spec /\ WF_vars(Next)

-----------------------------------------------------------------------------
(* Properties *)

JobOK ==
    /\ job.proc \in PidOrNone /\ job.child \in PidOrNone /\ job.size \in 0 .. VMPages
    /\ job.pages \in Seq(Entry) /\ Len(job.pages) <= job.size
    /\ mode \in {"fork", "shm"} => job.proc \in live
    /\ mode = "fork" => job.child \in 0 .. thread_index - 1 /\ job.child \notin live

\* Types of the state.  Two of the relations need more than one step to break: the
\* count of frames stays within the memory (it is unsigned, and PagetoEvict
\* compares it), and a backup has no more pages than the page table.
TypeOK ==
    /\ pageReplaceAlgo \in {RANDOM, FIFO, LRU, CLOCK}
    /\ mode \in {"run", "fork", "shm", "halted"} \cup Stops
    /\ JobOK
    /\ thread_index \in 1 .. MAX_THREAD_COUNT /\ live \subseteq 0 .. thread_index - 1
    /\ PhysMap \in [Frames -> CoreMap]
    /\ numPagesAllocated \in 0 .. NumPhysPages
    /\ replacement.list \in Seq(Frames)
    /\ replacement.Refbit \in [Frames -> BOOLEAN] /\ replacement.headpt \in Frames
    /\ mainMemory \in [Frames -> Content]
    /\ fileName \in [Pid -> [length : NameLengths, spelled : BOOLEAN]]
    /\ pending \in [Pid -> Instructions \cup {NoInstruction}]
    /\ retrying \subseteq live
    /\ \A p \in live : /\ DOMAIN table[p] = DOMAIN written[p]
                       /\ DOMAIN SwapTable[p] \subseteq DOMAIN table[p]
                       /\ \A v \in DOMAIN table[p] :
                            table[p][v] \in Entry /\ written[p][v] \in Content
                       /\ \A v \in DOMAIN SwapTable[p] : SwapTable[p][v] \in Content

\* Page v of process p is in frame f, by its page table or by the one that the Fork
\* in progress builds.
Maps(p, v, f) ==
    \/ p \in live /\ v \in DOMAIN table[p] /\ table[p][v].physicalPage = f
    \/ mode # "shm" /\ job.child = p /\ v + 1 \in DOMAIN job.pages
         /\ job.pages[v + 1].physicalPage = f

\* A frame belongs to the page that its entry of the core map names, and to no other:
\* PagetoEvict, LoadPage, Fork, Exec and Exit each update a page table and the core
\* map by separate statements, of two different processes when a page is replaced.
OwnedFrames ==
    \A f \in Frames :
      /\ ~PhysMap[f].IsEmpty => Maps(PhysMap[f].processID, PhysMap[f].virtPage, f)
      /\ \A p \in Pid, v \in 0 .. NumPages - 1 :
           Maps(p, v, f) => /\ ~PhysMap[f].IsEmpty /\ PhysMap[f].processID = p
                            /\ PhysMap[f].virtPage = v

\* numPagesAllocated, which decides between the scan for an empty frame and a
\* replacement, counts the frames in use through every Fork, Exec and Exit.
CountsFrames == numPagesAllocated = Cardinality({f \in Frames : ~PhysMap[f].IsEmpty})

\* What a process last wrote to a page is in its frame while the page is resident and
\* dirty, and in the backup of that process once it has been replaced by another
\* process's page, or copied by a Fork.
DirtyIntact ==
    \A p \in live : \A v \in DOMAIN table[p] :
      LET e == table[p][v] IN
      /\ ~e.shared /\ e.physicalPage # None /\ e.dirty
           => mainMemory[e.physicalPage] = written[p][v]
      /\ ~e.shared /\ e.physicalPage = None /\ e.swapped => SwapTable[p][v] = written[p][v]

\* A page that was written, replaced and needed again is loaded back as it was left.
LoadedBack ==
    \A p \in live : \A v \in DOMAIN table[p] :
      Valid(p, v) /\ ~table[p][v].shared /\ written[p][v] \in Modified
        => mainMemory[table[p][v].physicalPage] = written[p][v]

\* The scan for an empty frame ends within the core map (addrspace.cc:554 looks at
\* PhysMap[i] before it looks at i).  With shared pages numPagesAllocated no longer
\* counts the frames in use: a shared frame is handed out, and counted, again, and is
\* released by none.  The count must not fall below them, through any sequence of
\* Fork, ShmAllocate, Exec, Exit and page faults.
ScanEnds == numPagesAllocated < NumPhysPages => Available # {}

\* A shared page keeps its frame as long as a process has the page: no page fault, Fork
\* or ShmAllocate replaces it or gives its frame to another page.  There is no copy of
\* it elsewhere.  (The code does both, see the README.)
SharedKept ==
    \A p \in live : \A v \in DOMAIN table[p] :
      table[p][v].shared =>
        /\ Valid(p, v)
        /\ PhysMap[table[p][v].physicalPage].IsShared
        /\ PhysMap[table[p][v].physicalPage].virtPage = v

\* The simulation runs on: no replacement hangs, uses an empty list or a wrong entry of
\* the core map, and no assertion fails, even with frames that were released by Exec
\* still on the lists.
RunsOn == mode \notin Stops

\* An instruction that has met a page fault is completed: its two pages are in the end
\* resident together, although each fault may replace the other's page.
InstructionCompletes ==
    \A p \in Pid : pending[p] # NoInstruction ~> (pending[p] = NoInstruction \/ mode \in Stops)
=============================================================================
