---------------------------- MODULE PagingProofs ----------------------------
(***************************************************************************)
(* The page tables, the core map, the count of frames and the backups      *)
(* agree, for any number of processes, frames and pages and each of the    *)
(* four replacement algorithms, as long as no process allocates shared     *)
(* memory or executes a missing file (Unshared).  In the second half, with *)
(* both: the types, and that the scan for a frame ends.  At the end, that  *)
(* a process which is alone always finds a frame.                          *)
(*                                                                         *)
(* What PagetoEvict returns is summarised once for each of the first two:  *)
(* FrameFound and FoundAnyFrame.                                           *)
(***************************************************************************)
EXTENDS DemandPaging, FiniteSetTheorems, SequenceTheorems, TLAPS

Unshared == VMPages = NumPages /\ MissingFiles = FALSE

VPages == 0 .. NumPages - 1

\* An entry of a table without shared pages: a page in the backup was modified.
PrivateEntry == {e \in Entry : ~e.shared /\ (e.swapped => e.dirty)}
PrivateTable == [VPages -> PrivateEntry]
Contents == [VPages -> Content]
Replacement == [list : Seq(Frames), Refbit : [Frames -> BOOLEAN], headpt : Frames]
Restarted == {i \in [fetch : 0 .. FilePages - 1, data : VPages \cup {None},
                     write : BOOLEAN] : i.write => i.data # None}

ForkJob ==
    /\ job.proc \in live /\ job.child \in Pid /\ job.child \notin live
    /\ job.child < thread_index
    /\ job.size = NumPages
    /\ job.pages \in Seq(PrivateEntry) /\ Len(job.pages) <= NumPages
    /\ job = [proc |-> job.proc, child |-> job.child, size |-> job.size,
              pages |-> job.pages]

ProcessesOK ==
    /\ pageReplaceAlgo \in {RANDOM, FIFO, LRU, CLOCK}
    /\ mode \in {"run", "fork", "halted"} \cup Stops
    /\ thread_index \in 1 .. MAX_THREAD_COUNT /\ live \subseteq 0 .. thread_index - 1
    /\ job = NoJob \/ ForkJob
    /\ mode = "run" => job = NoJob
    /\ mode = "fork" => ForkJob
    /\ pending \in [Pid -> Restarted \cup {NoInstruction}]
    /\ retrying = {}

TablesOK ==
    /\ table \in [Pid -> PrivateTable \cup {<<>>}]
    /\ SwapTable \in [Pid -> Contents \cup {<<>>}]
    /\ written \in [Pid -> Contents \cup {<<>>}]
    /\ \A p \in live : table[p] \in PrivateTable /\ SwapTable[p] \in Contents
                       /\ written[p] \in Contents

MemoryOK ==
    /\ PhysMap \in [Frames -> CoreMap]
    /\ replacement \in Replacement
    /\ mainMemory \in [Frames -> Content]

\* A frame in use has one page, the one its entry of the core map names.
FrameOK(f) ==
    LET c == PhysMap[f] IN
    /\ ~c.IsShared
    /\ c.IsEmpty => c.processID = None
    /\ ~c.IsEmpty => c.processID \in Pid /\ c.virtPage \in VPages
    /\ \A p \in Pid, v \in VPages :
         Maps(p, v, f) <=> ~c.IsEmpty /\ c.processID = p /\ c.virtPage = v

FramesOK == \A f \in Frames : FrameOK(f)

Used == {f \in Frames : ~PhysMap[f].IsEmpty}

\* The inductive strengthening of OwnedFrames and CountsFrames.
FramesInv ==
    /\ ProcessesOK /\ TablesOK /\ MemoryOK /\ FramesOK
    /\ numPagesAllocated = Cardinality(Used)

-----------------------------------------------------------------------------
(* Numbers and lists *)

LEMMA ConstantFacts ==
    /\ NumPhysPages \in Nat \ {0} /\ MAX_THREAD_COUNT \in Nat \ {0}
    /\ NumPages \in Nat \ {0} /\ FilePages \in 1 .. NumPages
    /\ Frames = 0 .. NumPhysPages - 1 /\ Frames # {} /\ IsFiniteSet(Frames)
    /\ Cardinality(Frames) = NumPhysPages
    /\ None \notin Frames /\ None \notin Pid /\ None \notin VPages
    /\ <<>> \notin PrivateTable /\ <<>> \notin Contents
<1>1. /\ NumPhysPages \in Nat \ {0} /\ MAX_THREAD_COUNT \in Nat \ {0}
      /\ NumPages \in Nat \ {0} /\ FilePages \in 1 .. NumPages
  BY CountAssumption
<1>2. IsFiniteSet(Frames) /\ Cardinality(Frames) = NumPhysPages
  BY <1>1, FS_Interval DEF Frames
<1>3. \A S : <<>> \notin [VPages -> S]
  BY <1>1 DEF VPages
<1>4. None \notin Frames /\ None \notin Pid /\ None \notin VPages
  BY DEF None, Frames, Pid, VPages
<1>5. Frames = 0 .. NumPhysPages - 1 /\ Frames # {}
  BY <1>1 DEF Frames
<1>6. QED
  BY <1>1, <1>2, <1>3, <1>4, <1>5 DEF PrivateTable, Contents

\* The least element of a set of numbers below a bound
LEMMA LeastNumber ==
    ASSUME NEW n \in Nat, NEW A \in SUBSET (0 .. n), A # {}
    PROVE  Min(A) \in A /\ \A q \in A : Min(A) <= q
<1> DEFINE UpTo(p) == 0 .. p
           Starts == {UpTo(p) : p \in A}
<1>1. IsFiniteSet(0 .. n) /\ A \subseteq Nat
  BY FS_Interval
<1>2. Starts \subseteq FiniteSubsetsOf(0 .. n) /\ Starts # {}
  <2>1. \A p \in A : UpTo(p) \in SUBSET (0 .. n)
    OBVIOUS
  <2>2. Starts \in SUBSET SUBSET (0 .. n) /\ Starts # {}
    BY <2>1
  <2> HIDE DEF Starts
  <2>3. FiniteSubsetsOf(0 .. n) = SUBSET (0 .. n)
    BY <1>1, FS_FiniteSubsetsOfFinite
  <2>4. QED
    BY <2>2, <2>3
<1>3. PICK x \in Starts : \A y \in Starts : <<y, x>> \notin StrictSubsetOrdering(0 .. n)
  <2> HIDE DEF Starts
  <2>1. IsWellFoundedOn(StrictSubsetOrdering(0 .. n), FiniteSubsetsOf(0 .. n))
    BY FS_StrictSubsetOrderingWellFounded
  <2>2. QED
    BY <1>2, <2>1, WFMin
<1>4. PICK p \in A : x = UpTo(p)
  OBVIOUS
<1>5. ASSUME NEW q \in A, ~(p <= q) PROVE FALSE
  <2>1. UpTo(q) \in Starts /\ UpTo(q) \subseteq UpTo(p) /\ UpTo(q) # UpTo(p)
        /\ UpTo(p) \in SUBSET (0 .. n) /\ UpTo(q) \in SUBSET (0 .. n)
    BY <1>5
  <2>2. <<UpTo(q), UpTo(p)>> \in StrictSubsetOrdering(0 .. n)
    BY <2>1 DEF StrictSubsetOrdering
  <2>3. QED
    BY <1>3, <1>4, <2>1, <2>2
<1>6. \E m \in A : \A q \in A : m <= q
  BY <1>5
<1>7. QED
  BY <1>6 DEF Min

LEMMA RemoveFirstType ==
    ASSUME NEW S, NEW s \in Seq(S), NEW e
    PROVE  RemoveFirst(s, e) \in Seq(S)
<1> DEFINE I == {i \in 1 .. Len(s) : s[i] = e}
<1>1. Len(s) \in Nat /\ \A i \in 1 .. Len(s) : s[i] \in S
  OBVIOUS
<1>2. CASE I # {}
  <2>1. Min(I) \in I
    <3>1. I \in SUBSET (0 .. Len(s))
      BY <1>1
    <3> HIDE DEF I
    <3>2. QED
      BY <1>1, <1>2, <3>1, LeastNumber
  <2>2. RemoveFirst(s, e) = SubSeq(s, 1, Min(I) - 1) \o SubSeq(s, Min(I) + 1, Len(s))
    BY <1>2 DEF RemoveFirst, RemoveAt, SelectInSeq
  <2> DEFINE m == Min(I)
  <2>3. m \in 1 .. Len(s)
    BY <2>1
  <2> HIDE DEF m
  <2>4. SubSeq(s, 1, m - 1) \in Seq(S)
    BY <1>1, <2>3, SubSeqProperties
  <2>5. SubSeq(s, m + 1, Len(s)) \in Seq(S)
    BY <1>1, <2>3, SubSeqProperties
  <2>6. QED
    BY <2>2, <2>4, <2>5, ConcatProperties DEF m
<1>3. CASE I = {}
  BY <1>3 DEF RemoveFirst
<1>4. QED
  BY <1>2, <1>3

-----------------------------------------------------------------------------
(* The replacement algorithms *)

LEMMA AccessType ==
    ASSUME NEW f \in Frames, NEW r \in Replacement
    PROVE  Access(f, r) \in Replacement
<1>1. /\ r.list \in Seq(Frames) /\ r.Refbit \in [Frames -> BOOLEAN] /\ r.headpt \in Frames
      /\ r = [list |-> r.list, Refbit |-> r.Refbit, headpt |-> r.headpt]
  BY DEF Replacement
<1>2. Append(r.list, f) \in Seq(Frames)
  BY <1>1
<1>3. Append(RemoveFirst(r.list, f), f) \in Seq(Frames)
  BY <1>1, RemoveFirstType
<1>4. [r.Refbit EXCEPT ![f] = TRUE] \in [Frames -> BOOLEAN]
  BY <1>1
<1>5. \A l \in Seq(Frames) : [r EXCEPT !.list = l] \in Replacement
  BY <1>1 DEF Replacement
<1>6. \A b \in [Frames -> BOOLEAN] : [r EXCEPT !.Refbit = b] \in Replacement
  BY <1>1 DEF Replacement
<1>7. Access(f, r) \in {r, [r EXCEPT !.list = Append(r.list, f)],
                        [r EXCEPT !.list = Append(RemoveFirst(r.list, f), f)],
                        [r EXCEPT !.Refbit = [r.Refbit EXCEPT ![f] = TRUE]]}
  BY <1>1 DEF Access
<1>8. QED
  BY <1>2, <1>3, <1>4, <1>5, <1>6, <1>7

VictimOK(v) == v.frame \in Frames /\ v.replacement \in Replacement

LEMMA FifoType ==
    ASSUME NEW ign, NEW r \in Replacement, NEW v \in FifoVictims(ign, r)
    PROVE  VictimOK(v)
<1> DEFINE l == r.list
           others == {i \in DOMAIN l : l[i] # ign}
           k == Min(others)
           moved == SubSeq(l, k + 1, Len(l)) \o SubSeq(l, 1, k - 1)
<1>1. l \in Seq(Frames) /\ \A m \in Seq(Frames) : [r EXCEPT !.list = m] \in Replacement
  BY DEF Replacement
<1>2. v = Chosen(l[k], [r EXCEPT !.list = moved]) /\ others # {}
  BY DEF FifoVictims
<1>3. k \in 1 .. Len(l)
  <2>1. others \in SUBSET (0 .. Len(l)) /\ Len(l) \in Nat /\ DOMAIN l = 1 .. Len(l)
    BY <1>1
  <2>2. others \subseteq 1 .. Len(l)
    BY <2>1
  <2> HIDE DEF others, l
  <2>3. k \in others
    BY <1>2, <2>1, LeastNumber
  <2>4. QED
    BY <2>2, <2>3
<1> HIDE DEF l, k
<1>4. moved \in Seq(Frames)
  <2>1. \A i \in 1 .. Len(l) : l[i] \in Frames
    BY <1>1
  <2>2. Len(l) \in Nat
    BY <1>1
  <2>3. SubSeq(l, k + 1, Len(l)) \in Seq(Frames)
    BY <1>3, <2>1, <2>2, SubSeqProperties
  <2>4. SubSeq(l, 1, k - 1) \in Seq(Frames)
    BY <1>3, <2>1, <2>2, SubSeqProperties
  <2>5. QED
    BY <2>3, <2>4, ConcatProperties
<1>5. l[k] \in Frames
  BY <1>1, <1>3
<1> HIDE DEF moved
<1>6. QED
  BY <1>1, <1>2, <1>4, <1>5 DEF Chosen, VictimOK

LEMMA LruType ==
    ASSUME NEW ign \in FrameOrNone, NEW r \in Replacement, r.list # <<>>,
           NEW v \in LruVictims(ign, r)
    PROVE  VictimOK(v)
<1> DEFINE l == IF Head(r.list) = ign THEN Append(Tail(r.list), ign) ELSE r.list
<1>1. r.list \in Seq(Frames) /\ \A m \in Seq(Frames) : [r EXCEPT !.list = m] \in Replacement
  BY DEF Replacement
<1>2. Head(r.list) \in Frames /\ Tail(r.list) \in Seq(Frames)
  BY <1>1, HeadTailProperties
<1>3. l \in Seq(Frames) /\ l # <<>>
  <2>1. CASE Head(r.list) = ign
    <3>1. Append(Tail(r.list), ign) \in Seq(Frames) /\ Len(Append(Tail(r.list), ign)) > 0
      BY <1>2, <2>1
    <3>2. QED
      BY <2>1, <3>1
  <2>2. CASE Head(r.list) # ign
    BY <1>1, <2>2
  <2>3. QED
    BY <2>1, <2>2
<1>4. v = Chosen(Head(l), [r EXCEPT !.list = Append(Tail(l), Head(l))])
  BY DEF LruVictims
<1> HIDE DEF l
<1>5. Head(l) \in Frames /\ Tail(l) \in Seq(Frames)
  BY <1>3, HeadTailProperties
<1>6. Append(Tail(l), Head(l)) \in Seq(Frames)
  BY <1>5
<1>7. QED
  BY <1>1, <1>4, <1>5, <1>6 DEF Chosen, VictimOK

LEMMA ClockType ==
    ASSUME NEW ign, NEW r \in Replacement, NEW v \in ClockVictims(ign, r)
    PROVE  VictimOK(v)
<1> DEFINE candidates == {k \in Frames : /\ FromHand(r, k) # ign
                                         /\ ~PhysMap[FromHand(r, k)].IsShared}
           clear == {k \in candidates : ~r.Refbit[FromHand(r, k)]}
           turn == IF clear # {} THEN clear ELSE candidates
           stop == Min(turn)
           passed == IF clear # {} THEN {FromHand(r, j) : j \in 0 .. stop - 1} ELSE Frames
           moved == [r EXCEPT !.headpt = FromHand(r, stop + 1),
                              !.Refbit = BitsAfter(ign, r, passed, FromHand(r, stop))]
<1>1. r.headpt \in Frames /\ r.Refbit \in [Frames -> BOOLEAN]
  BY DEF Replacement
<1>2. \A j \in Int : FromHand(r, j) \in Frames
  BY <1>1, ConstantFacts DEF FromHand
<1>3. turn # {} /\ v = Chosen(FromHand(r, stop), moved)
  BY Zenon DEF ClockVictims
<1>4. stop \in Int
  <2>1. turn \in SUBSET (0 .. NumPhysPages - 1) /\ NumPhysPages - 1 \in Nat
    BY ConstantFacts
  <2> HIDE DEF turn
  <2>2. QED
    BY <1>3, <2>1, LeastNumber
<1> HIDE DEF stop
<1>5. FromHand(r, stop) \in Frames /\ FromHand(r, stop + 1) \in Frames
  BY <1>2, <1>4
<1> DEFINE bits == BitsAfter(ign, r, passed, FromHand(r, stop))
<1>6. bits \in [Frames -> BOOLEAN]
  BY <1>1 DEF BitsAfter
<1> HIDE DEF bits, passed
<1>7. moved \in Replacement
  BY <1>5, <1>6 DEF Replacement, bits
<1> HIDE DEF moved
<1>8. QED
  BY <1>3, <1>5, <1>7 DEF Chosen, VictimOK

LEMMA VictimType ==
    ASSUME NEW ign \in FrameOrNone, NEW r \in Replacement,
           pageReplaceAlgo \in {RANDOM, FIFO, LRU, CLOCK},
           pageReplaceAlgo \in {FIFO, LRU} => r.list # <<>>,
           NEW v \in replacePage(ign, r)
    PROVE  VictimOK(v)
<1>1. CASE pageReplaceAlgo = RANDOM
  <2>1. v \in RandomVictims(ign, r)
    BY <1>1 DEF replacePage, RANDOM, FIFO, LRU, CLOCK
  <2>2. QED
    BY <2>1 DEF RandomVictims, Chosen, VictimOK
<1>2. CASE pageReplaceAlgo = FIFO
  <2>1. v \in FifoVictims(ign, r)
    BY <1>2 DEF replacePage, RANDOM, FIFO, LRU, CLOCK
  <2>2. QED
    BY <2>1, FifoType
<1>3. CASE pageReplaceAlgo = LRU
  <2>1. v \in LruVictims(ign, r)
    BY <1>3 DEF replacePage, RANDOM, FIFO, LRU, CLOCK
  <2>2. QED
    BY <1>3, <2>1, LruType
<1>4. CASE pageReplaceAlgo = CLOCK
  <2>1. v \in ClockVictims(ign, r)
    BY <1>4 DEF replacePage, RANDOM, FIFO, LRU, CLOCK
  <2>2. QED
    BY <2>1, ClockType
<1>5. QED
  BY <1>1, <1>2, <1>3, <1>4

-----------------------------------------------------------------------------
(* PagetoEvict *)

\* The core map and the tables that are searched through it
LEMMA Mapped ==
    ASSUME FramesInv, NEW f \in Frames
    PROVE  /\ \A p \in live, v \in VPages :
                table[p][v].physicalPage = f
                  => /\ ~PhysMap[f].IsEmpty
                     /\ PhysMap[f].processID = p /\ PhysMap[f].virtPage = v
           /\ ~PhysMap[f].IsEmpty /\ PhysMap[f].processID \in live
                => table[PhysMap[f].processID][PhysMap[f].virtPage].physicalPage = f
           /\ \A k \in DOMAIN job.pages :
                job.pages[k].physicalPage = f
                  => ~PhysMap[f].IsEmpty /\ PhysMap[f].processID \notin live
<1> DEFINE c == PhysMap[f]
<1>1. FrameOK(f)
  BY DEF FramesInv, FramesOK
<1>2. live \subseteq Pid
  BY ConstantFacts DEF FramesInv, ProcessesOK, Pid
<1>3. \A p \in live : DOMAIN table[p] = VPages
  BY DEF FramesInv, TablesOK, PrivateTable
<1>4. \A p \in live, v \in VPages : table[p][v].physicalPage = f => Maps(p, v, f)
  BY <1>3 DEF Maps
<1>5. \A p \in live, v \in VPages : Maps(p, v, f) => table[p][v].physicalPage = f
  BY ConstantFacts, <1>2 DEF Maps, FramesInv, ProcessesOK, ForkJob, NoJob
<1>6. \A k \in DOMAIN job.pages : job.pages[k].physicalPage = f
        => ~c.IsEmpty /\ c.processID \notin live
  <2>1. CASE job = NoJob
    BY <2>1 DEF NoJob
  <2>2. CASE ForkJob
    <3> SUFFICES ASSUME NEW k \in DOMAIN job.pages, job.pages[k].physicalPage = f
                 PROVE  ~c.IsEmpty /\ c.processID \notin live
      OBVIOUS
    <3>1. k - 1 \in VPages /\ (k - 1) + 1 = k
      BY <2>2, ConstantFacts DEF ForkJob, VPages
    <3>2. Maps(job.child, k - 1, f)
      BY <3>1 DEF Maps, FramesInv, ProcessesOK, Stops
    <3>3. QED
      BY <1>1, <2>2, <3>1, <3>2 DEF FrameOK, ForkJob
  <2>3. QED
    BY <2>1, <2>2 DEF FramesInv, ProcessesOK
<1>7. QED
  BY <1>1, <1>2, <1>4, <1>5, <1>6 DEF FrameOK

\* What a frame that was found leaves behind: its page is invalid, in the backup if
\* it was modified, and nobody else's.
FoundOK(o) ==
    /\ o.frame \in Frames /\ o.replacement \in Replacement
    /\ o.count = Cardinality(Used \cup {o.frame})
    /\ o.table \in [Pid -> PrivateTable \cup {<<>>}]
    /\ o.swap \in [Pid -> Contents \cup {<<>>}]
    /\ \A p \in live : o.table[p] \in PrivateTable /\ o.swap[p] \in Contents
    /\ \A p \in live, v \in VPages :
         LET e == table[p][v] IN
         /\ o.table[p][v] = IF e.physicalPage = o.frame THEN Invalidated(e) ELSE e
         /\ o.swap[p][v] = IF e.physicalPage = o.frame /\ e.dirty THEN mainMemory[o.frame]
                           ELSE SwapTable[p][v]
    /\ \A k \in DOMAIN job.pages : job.pages[k].physicalPage # o.frame

LEMMA UsedFacts ==
    ASSUME FramesInv
    PROVE  /\ IsFiniteSet(Used) /\ Used \in SUBSET Frames
           /\ numPagesAllocated \in 0 .. NumPhysPages
           /\ numPagesAllocated = NumPhysPages => Used = Frames
<1>1. Used \in SUBSET Frames
  BY DEF Used
<1>2. IsFiniteSet(Used) /\ Cardinality(Used) <= NumPhysPages
      /\ (Cardinality(Used) = NumPhysPages => Used = Frames)
  BY <1>1, ConstantFacts, FS_Subset
<1>3. Cardinality(Used) \in Nat
  BY <1>2, FS_CardinalityType
<1>4. QED
  BY <1>1, <1>2, <1>3, ConstantFacts DEF FramesInv

LEMMA EmptyFound ==
    ASSUME FramesInv, NEW r \in Replacement, NEW o, Available # {},
           o = Yields(Min(Available), Counted, r, table, SwapTable)
    PROVE  FoundOK(o)
<1> DEFINE f == Min(Available)
<1>1. Available \in SUBSET (0 .. NumPhysPages - 1) /\ NumPhysPages - 1 \in Nat
  BY ConstantFacts DEF Available
<1>2. f \in Available
  BY <1>1, LeastNumber
<1> HIDE DEF f
<1>3. f \in Frames /\ PhysMap[f].IsEmpty
  BY <1>2 DEF Available, FramesInv, FramesOK, FrameOK
<1>4. Cardinality(Used \cup {f}) = numPagesAllocated + 1
  <2>1. f \notin Used
    BY <1>3 DEF Used
  <2>2. Cardinality(Used \cup {f}) = Cardinality(Used) + 1
    BY <2>1, UsedFacts, FS_AddElement
  <2>3. QED
    BY <2>2 DEF FramesInv
<1>5. /\ o.frame = f /\ o.replacement = r /\ o.count = numPagesAllocated + 1
      /\ o.table = table /\ o.swap = SwapTable
  BY DEF Yields, Counted, f
<1>6. /\ \A p \in live, v \in VPages : table[p][v].physicalPage # f
      /\ \A k \in DOMAIN job.pages : job.pages[k].physicalPage # f
  BY <1>3, Mapped
<1>7. QED
  BY <1>3, <1>4, <1>5, <1>6 DEF FoundOK, FramesInv, TablesOK

LEMMA InvalidatedEntry ==
    ASSUME NEW e \in PrivateEntry
    PROVE  /\ Invalidated(e) \in PrivateEntry
           /\ Invalidated(e).physicalPage = None /\ Invalidated(e).dirty = e.dirty
           /\ Invalidated(e).swapped = e.dirty
<1>1. /\ e.dirty \in BOOLEAN /\ e.swapped \in BOOLEAN /\ e.shared = FALSE
      /\ e.swapped => e.dirty
      /\ e = [physicalPage |-> e.physicalPage, dirty |-> e.dirty, swapped |-> e.swapped,
              shared |-> e.shared]
  BY DEF PrivateEntry, Entry
<1> DEFINE b == e.swapped \/ e.dirty
<1>2. Invalidated(e) = [e EXCEPT !.physicalPage = None, !.swapped = b]
  BY DEF Invalidated
<1>3. Invalidated(e) = [physicalPage |-> None, dirty |-> e.dirty, swapped |-> e.dirty,
                        shared |-> FALSE]
  <2>1. b = e.dirty
    BY <1>1
  <2> HIDE DEF b
  <2>2. QED
    BY <1>1, <1>2, <2>1
<1>4. QED
  BY <1>1, <1>3 DEF PrivateEntry, Entry, FrameOrNone

LEMMA EvictFound ==
    ASSUME FramesInv, numPagesAllocated = NumPhysPages, NEW v, VictimOK(v),
           NEW o, o = Evict(v), o.stop = "none"
    PROVE  FoundOK(o)
<1> DEFINE f == v.frame
           owner == PhysMap[f].processID
           page == PhysMap[f].virtPage
           e == table[owner][page]
<1>1. f \in Frames /\ v.replacement \in Replacement
  BY DEF VictimOK
<1>2. f \in Used /\ ~PhysMap[f].IsEmpty
  BY <1>1, UsedFacts DEF Used
<1>3. owner \in live
  BY DEF Evict, StopsWith
<1>4. o = Yields(f, numPagesAllocated, v.replacement,
                    [table EXCEPT ![owner][page] = Invalidated(@)],
                    IF e.dirty THEN Backup(owner, page, f) ELSE SwapTable)
  BY DEF Evict, StopsWith
<1>5. /\ f = v.frame /\ owner = PhysMap[f].processID /\ page = PhysMap[f].virtPage
      /\ e = table[owner][page]
  OBVIOUS
<1> HIDE DEF f, owner, page, e
<1>6. page \in VPages /\ owner \in Pid /\ FrameOK(f)
  BY <1>5, <1>1, <1>2 DEF FramesInv, FramesOK, FrameOK
<1>7. e.physicalPage = f
  BY <1>5, <1>1, <1>2, <1>3, Mapped
<1>8. \A p \in live, w \in VPages : table[p][w].physicalPage = f <=> p = owner /\ w = page
  BY <1>5, <1>1, <1>3, <1>6, <1>7, Mapped
<1>9. \A k \in DOMAIN job.pages : job.pages[k].physicalPage # f
  BY <1>5, <1>1, <1>3, Mapped
<1>10. Cardinality(Used \cup {f}) = numPagesAllocated
  <2>1. Used \cup {f} = Used
    BY <1>2
  <2>2. QED
    BY <2>1 DEF FramesInv
<1>11. Invalidated(e) \in PrivateEntry
  <2>1. e \in PrivateEntry
    BY <1>5, <1>3, <1>6 DEF FramesInv, TablesOK, PrivateTable
  <2>2. QED
    BY <2>1, InvalidatedEntry
<1> DEFINE t == [table EXCEPT ![owner][page] = Invalidated(@)]
           s == IF e.dirty THEN Backup(owner, page, f) ELSE SwapTable
<1>12. /\ o.frame = f /\ o.replacement = v.replacement /\ o.count = numPagesAllocated
       /\ o.table = t /\ o.swap = s
  BY <1>4 DEF Yields
<1>13. /\ t \in [Pid -> PrivateTable \cup {<<>>}]
       /\ \A p \in live : t[p] \in PrivateTable
       /\ \A p \in live, w \in VPages :
            t[p][w] = IF p = owner /\ w = page THEN Invalidated(e) ELSE table[p][w]
  <2>1. table \in [Pid -> PrivateTable \cup {<<>>}] /\ table[owner] \in PrivateTable
        /\ \A p \in live : table[p] \in PrivateTable
    BY <1>3 DEF FramesInv, TablesOK
  <2>2. t = [table EXCEPT ![owner] = [table[owner] EXCEPT ![page] = Invalidated(e)]]
    BY <1>5
  <2>3. live \subseteq Pid
    BY ConstantFacts DEF FramesInv, ProcessesOK, Pid
  <2> HIDE DEF t
  <2> DEFINE u == [table[owner] EXCEPT ![page] = Invalidated(e)]
  <2>4. u \in PrivateTable
        /\ \A w \in VPages : u[w] = IF w = page THEN Invalidated(e) ELSE table[owner][w]
    BY <1>6, <1>11, <2>1 DEF PrivateTable
  <2> HIDE DEF u
  <2>5. t = [table EXCEPT ![owner] = u]
    BY <2>2 DEF u
  <2>6. t \in [Pid -> PrivateTable \cup {<<>>}]
    BY <1>6, <2>1, <2>4, <2>5
  <2>7. \A p \in live : t[p] = IF p = owner THEN u ELSE table[p]
    BY <1>6, <2>1, <2>3, <2>5
  <2>8. QED
    BY <2>1, <2>4, <2>6, <2>7
<1>14. /\ s \in [Pid -> Contents \cup {<<>>}]
       /\ \A p \in live : s[p] \in Contents
       /\ \A p \in live, w \in VPages :
            s[p][w] = IF p = owner /\ w = page /\ e.dirty THEN mainMemory[f]
                      ELSE SwapTable[p][w]
  <2>1. SwapTable \in [Pid -> Contents \cup {<<>>}] /\ SwapTable[owner] \in Contents
        /\ \A p \in live : SwapTable[p] \in Contents
    BY <1>3 DEF FramesInv, TablesOK
  <2>2. mainMemory[f] \in Content
    BY <1>1 DEF FramesInv, MemoryOK
  <2>3. CASE ~e.dirty
    BY <2>1, <2>3
  <2>4. CASE e.dirty
    <3>1. s = [SwapTable EXCEPT ![owner] = [SwapTable[owner] EXCEPT ![page] = mainMemory[f]]]
      BY <2>4 DEF Backup
    <3>2. live \subseteq Pid
      BY ConstantFacts DEF FramesInv, ProcessesOK, Pid
    <3> HIDE DEF s
    <3> DEFINE u == [SwapTable[owner] EXCEPT ![page] = mainMemory[f]]
    <3>3. u \in Contents
          /\ \A w \in VPages : u[w] = IF w = page THEN mainMemory[f] ELSE SwapTable[owner][w]
      BY <1>6, <2>1, <2>2 DEF Contents
    <3> HIDE DEF u
    <3>4. s = [SwapTable EXCEPT ![owner] = u]
      BY <3>1 DEF u
    <3>5. s \in [Pid -> Contents \cup {<<>>}]
      BY <1>6, <2>1, <3>3, <3>4
    <3>6. \A p \in live : s[p] = IF p = owner THEN u ELSE SwapTable[p]
      BY <1>6, <2>1, <3>2, <3>4
    <3>7. QED
      BY <2>1, <2>4, <3>3, <3>5, <3>6
  <2>5. QED
    BY <2>3, <2>4
<1> HIDE DEF t, s
<1>15. \A p \in live, w \in VPages :
         LET x == table[p][w] IN
         /\ t[p][w] = IF x.physicalPage = f THEN Invalidated(x) ELSE x
         /\ s[p][w] = IF x.physicalPage = f /\ x.dirty THEN mainMemory[f]
                      ELSE SwapTable[p][w]
  <2> SUFFICES ASSUME NEW p \in live, NEW w \in VPages
               PROVE  LET x == table[p][w] IN
                      /\ t[p][w] = IF x.physicalPage = f THEN Invalidated(x) ELSE x
                      /\ s[p][w] = IF x.physicalPage = f /\ x.dirty THEN mainMemory[f]
                                   ELSE SwapTable[p][w]
    OBVIOUS
  <2>1. CASE p = owner /\ w = page
    BY <1>5, <1>7, <1>13, <1>14, <2>1
  <2>2. CASE ~(p = owner /\ w = page)
    <3>1. table[p][w].physicalPage # f
      BY <1>8, <2>2
    <3>2. t[p][w] = table[p][w] /\ s[p][w] = SwapTable[p][w]
      BY <1>13, <1>14, <2>2
    <3>3. QED
      BY <3>1, <3>2
  <2>3. QED
    BY <2>1, <2>2
<1>16. QED
  BY <1>1, <1>9, <1>10, <1>12, <1>13, <1>14, <1>15 DEF FoundOK

LEMMA FrameFound ==
    ASSUME FramesInv, NEW ign \in FrameOrNone, NEW r \in Replacement,
           NEW o \in PagetoEvict(ign, r), o.stop = "none"
    PROVE  FoundOK(o)
<1>1. CASE numPagesAllocated < NumPhysPages
  <2>1. Available # {} /\ o = Yields(Min(Available), Counted, r, table, SwapTable)
    BY <1>1 DEF PagetoEvict, StopsWith
  <2>2. QED
    BY <2>1, EmptyFound
<1>2. CASE ~(numPagesAllocated < NumPhysPages)
  <2>1. numPagesAllocated = NumPhysPages
    BY <1>2, UsedFacts, ConstantFacts
  <2>2. /\ pageReplaceAlgo \in {FIFO, LRU} => r.list # <<>>
        /\ \E v \in replacePage(ign, r) : o = Evict(v)
    BY <1>2 DEF PagetoEvict, StopsWith
  <2>3. PICK v \in replacePage(ign, r) : o = Evict(v)
    BY <2>2
  <2>4. VictimOK(v)
    BY <2>2, VictimType DEF FramesInv, ProcessesOK
  <2>5. QED
    BY <2>1, <2>3, <2>4, EvictFound
<1>3. QED
  BY <1>1, <1>2

-----------------------------------------------------------------------------
(* What the steps do to the frames *)

LEMMA PagetoEvictStops ==
    ASSUME NEW ign, NEW r, NEW o \in PagetoEvict(ign, r)
    PROVE  o.stop = "none" \/ o.stop \in Stops
<1>1. \A m : StopsWith(m).stop = m
  BY DEF StopsWith
<1>2. \A f, c, s, t, w : Yields(f, c, s, t, w).stop = "none"
  BY DEF Yields
<1>3. \A v : Evict(v).stop \in {"none", "undefined"}
  BY <1>1, <1>2 DEF Evict
<1>4. \/ o \in {StopsWith("undefined"), StopsWith("hung")}
      \/ o = Yields(Min(Available), Counted, r, table, SwapTable)
      \/ \E v \in replacePage(ign, r) : o = Evict(v)
  BY DEF PagetoEvict
<1>5. QED
  BY <1>1, <1>2, <1>3, <1>4 DEF Stops

LEMMA LiveFacts ==
    ASSUME FramesInv
    PROVE  /\ live \subseteq Pid
           /\ \A p \in live : DOMAIN table[p] = VPages /\ DOMAIN SwapTable[p] = VPages
                              /\ DOMAIN written[p] = VPages
           /\ \A p \in live, v \in VPages : table[p][v] \in PrivateEntry
                              /\ SwapTable[p][v] \in Content /\ written[p][v] \in Content
           /\ \A p \in live, v \in VPages : Valid(p, v) => table[p][v].physicalPage \in Frames
<1>1. live \subseteq Pid
  BY ConstantFacts DEF FramesInv, ProcessesOK, Pid
<1>2. \A p \in live : DOMAIN table[p] = VPages /\ DOMAIN SwapTable[p] = VPages
                      /\ DOMAIN written[p] = VPages
  BY DEF FramesInv, TablesOK, PrivateTable, Contents
<1>3. \A p \in live, v \in VPages : table[p][v] \in PrivateEntry
        /\ SwapTable[p][v] \in Content /\ written[p][v] \in Content
  BY DEF FramesInv, TablesOK, PrivateTable, Contents
<1>4. \A e \in PrivateEntry : e.physicalPage # None => e.physicalPage \in Frames
  BY DEF PrivateEntry, Entry, FrameOrNone
<1>5. QED
  BY <1>1, <1>2, <1>3, <1>4 DEF Valid

\* A step that moves no page
LEMMA FramesKept ==
    ASSUME FramesInv, UNCHANGED <<PhysMap, numPagesAllocated>>,
           \A p \in Pid, v \in VPages, f \in Frames : Maps(p, v, f)' <=> Maps(p, v, f)
    PROVE  FramesOK' /\ numPagesAllocated' = Cardinality(Used)'
BY DEF FramesInv, FramesOK, FrameOK, Used

\* PagetoEvict has found a frame, and the page v of p is put there.
LEMMA FramePut ==
    ASSUME FramesInv, NEW o, FoundOK(o), NEW p \in Pid, NEW v \in VPages,
           NEW content \in Content, Take(o, p, v, FALSE, content),
           \A q \in Pid, w \in VPages, f \in Frames :
             Maps(q, w, f)' <=> IF f = o.frame THEN q = p /\ w = v ELSE Maps(q, w, f)
    PROVE  /\ FramesOK' /\ numPagesAllocated' = Cardinality(Used)'
           /\ PhysMap' \in [Frames -> CoreMap] /\ replacement' \in Replacement
           /\ mainMemory' \in [Frames -> Content]
<1> DEFINE c == [IsEmpty |-> FALSE, processID |-> p, virtPage |-> v, IsShared |-> FALSE]
<1>1. o.frame \in Frames /\ c \in CoreMap
  BY DEF FoundOK, CoreMap, PidOrNone, VPages
<1>2. PhysMap \in [Frames -> CoreMap] /\ mainMemory \in [Frames -> Content]
  BY DEF FramesInv, MemoryOK
<1>3. c.IsEmpty = FALSE /\ c.processID = p /\ c.virtPage = v /\ c.IsShared = FALSE
  OBVIOUS
<1>4. PhysMap' = [PhysMap EXCEPT ![o.frame] = c]
  BY DEF Take
<1> HIDE DEF c
<1>5. /\ PhysMap' \in [Frames -> CoreMap]
      /\ \A f \in Frames : PhysMap'[f] = IF f = o.frame THEN c ELSE PhysMap[f]
  BY <1>1, <1>2, <1>4
<1>6. FramesOK'
  <2> SUFFICES ASSUME NEW f \in Frames PROVE FrameOK(f)'
    BY DEF FramesOK
  <2>1. FrameOK(f)
    BY DEF FramesInv, FramesOK
  <2>2. CASE f = o.frame
    BY <1>3, <1>5, <2>2 DEF FrameOK
  <2>3. CASE f # o.frame
    BY <1>5, <2>1, <2>3 DEF FrameOK
  <2>4. QED
    BY <2>2, <2>3
<1>7. Used' = Used \cup {o.frame}
  BY <1>1, <1>3, <1>5 DEF Used
<1>8. numPagesAllocated' = Cardinality(Used)'
  BY <1>7 DEF Take, FoundOK
<1>9. mainMemory' \in [Frames -> Content] /\ replacement' \in Replacement
  BY <1>1, <1>2 DEF Take, FoundOK
<1>10. QED
  BY <1>5, <1>6, <1>8, <1>9

\* Exec and Exit release the frames of p.
LEMMA FramesFreed ==
    ASSUME FramesInv, NEW p \in Pid, FreePages(p),
           \A q \in Pid, w \in VPages, f \in Frames :
             Maps(q, w, f)' <=> q # p /\ Maps(q, w, f)
    PROVE  /\ FramesOK' /\ numPagesAllocated' = Cardinality(Used)'
           /\ PhysMap' \in [Frames -> CoreMap]
<1> DEFINE freed == {f \in Frames : PhysMap[f].processID = p /\ ~PhysMap[f].IsShared}
<1>1. PhysMap \in [Frames -> CoreMap] /\ \A f \in Frames : FrameOK(f)
  BY DEF FramesInv, MemoryOK, FramesOK
<1>2. \A f \in Frames : f \in freed <=> PhysMap[f].processID = p
  BY <1>1 DEF FrameOK
<1>3. \A f \in freed : ~PhysMap[f].IsEmpty
  BY <1>1, ConstantFacts DEF FrameOK
<1>4. /\ PhysMap' = [f \in Frames |-> IF f \in freed THEN Released(PhysMap[f])
                                      ELSE PhysMap[f]]
      /\ numPagesAllocated' = numPagesAllocated - Cardinality(freed)
  BY DEF FreePages
<1> HIDE DEF freed
<1>5. \A c \in CoreMap : /\ Released(c) \in CoreMap /\ Released(c).IsEmpty
                         /\ Released(c).processID = None
                         /\ Released(c).IsShared = c.IsShared
  BY DEF Released, CoreMap, PidOrNone
<1>6. PhysMap' \in [Frames -> CoreMap]
      /\ \A f \in Frames : PhysMap'[f] = IF f \in freed THEN Released(PhysMap[f])
                                         ELSE PhysMap[f]
  BY <1>1, <1>4, <1>5
<1>7. FramesOK'
  <2> SUFFICES ASSUME NEW f \in Frames PROVE FrameOK(f)'
    BY DEF FramesOK
  <2>1. FrameOK(f) /\ PhysMap[f] \in CoreMap
    BY <1>1
  <2>2. CASE f \in freed
    BY <1>2, <1>5, <1>6, <2>1, <2>2 DEF FrameOK
  <2>3. CASE f \notin freed
    BY <1>2, <1>6, <2>1, <2>3 DEF FrameOK
  <2>4. QED
    BY <2>2, <2>3
<1>8. Used' = Used \ freed /\ Used \cap freed = freed
  <2>1. freed \subseteq Frames
    BY DEF freed
  <2>2. QED
    BY <1>1, <1>3, <1>5, <1>6, <2>1 DEF Used
<1>9. Cardinality(Used \ freed) = Cardinality(Used) - Cardinality(freed)
  BY <1>8, UsedFacts, FS_Difference
<1>10. numPagesAllocated' = Cardinality(Used)'
  BY <1>4, <1>8, <1>9 DEF FramesInv
<1>11. QED
  BY <1>6, <1>7, <1>10

-----------------------------------------------------------------------------
(* Instructions and page faults *)

LEMMA StopFrames ==
    ASSUME FramesInv, mode' \in Stops, UNCHANGED <<pageReplaceAlgo, job, live, thread_index,
           pending, retrying, written, memoryVars>>
    PROVE  FramesInv'
<1>1. mode \notin {"shm"} /\ mode' \notin {"run", "fork", "shm"}
  BY DEF FramesInv, ProcessesOK, Stops
<1>2. \A p \in Pid, v \in VPages, f \in Frames : Maps(p, v, f)' <=> Maps(p, v, f)
  BY <1>1 DEF Maps, memoryVars
<1>3. FramesOK' /\ numPagesAllocated' = Cardinality(Used)'
  BY <1>2, FramesKept DEF memoryVars
<1>4. ProcessesOK'
  BY <1>1 DEF FramesInv, ProcessesOK, ForkJob
<1>5. TablesOK' /\ MemoryOK'
  BY DEF FramesInv, TablesOK, MemoryOK, memoryVars
<1>6. QED
  BY <1>3, <1>4, <1>5 DEF FramesInv

\* The page table entry of a page that has just been loaded
Entered(f) == [FreshEntry EXCEPT !.physicalPage = f]

LEMMA EnteredEntry ==
    ASSUME NEW f \in Frames
    PROVE  /\ Entered(f) \in PrivateEntry /\ Entered(f).physicalPage = f
           /\ ~Entered(f).dirty /\ ~Entered(f).swapped /\ ~Entered(f).shared
BY DEF Entered, FreshEntry, PrivateEntry, Entry, FrameOrNone

LEMMA LoadedTable ==
    ASSUME FramesInv, NEW p \in live, NEW v \in VPages, NEW o, FoundOK(o),
           table' = [o.table EXCEPT ![p][v] = Entered(o.frame)]
    PROVE  /\ table' \in [Pid -> PrivateTable \cup {<<>>}]
           /\ \A q \in live : table'[q] \in PrivateTable
           /\ \A q \in live, w \in VPages :
                table'[q][w] = IF q = p /\ w = v THEN Entered(o.frame)
                               ELSE IF table[q][w].physicalPage = o.frame
                               THEN Invalidated(table[q][w]) ELSE table[q][w]
<1> DEFINE u == [o.table[p] EXCEPT ![v] = Entered(o.frame)]
<1>1. /\ o.table \in [Pid -> PrivateTable \cup {<<>>}] /\ o.frame \in Frames
      /\ \A q \in live : o.table[q] \in PrivateTable
      /\ \A q \in live, w \in VPages :
           o.table[q][w] = IF table[q][w].physicalPage = o.frame
                           THEN Invalidated(table[q][w]) ELSE table[q][w]
  BY DEF FoundOK
<1>2. live \subseteq Pid
  BY LiveFacts
<1>3. u \in PrivateTable
      /\ \A w \in VPages : u[w] = IF w = v THEN Entered(o.frame) ELSE o.table[p][w]
  BY <1>1, EnteredEntry DEF PrivateTable
<1>4. table' = [o.table EXCEPT ![p] = u]
  OBVIOUS
<1> HIDE DEF u
<1>5. table' \in [Pid -> PrivateTable \cup {<<>>}]
  BY <1>1, <1>2, <1>3, <1>4
<1>6. \A q \in live : table'[q] = IF q = p THEN u ELSE o.table[q]
  BY <1>1, <1>2, <1>4
<1>7. ASSUME NEW q \in live, NEW w \in VPages
      PROVE  table'[q][w] = IF q = p /\ w = v THEN Entered(o.frame)
                            ELSE IF table[q][w].physicalPage = o.frame
                            THEN Invalidated(table[q][w]) ELSE table[q][w]
  <2>1. table'[q][w] = IF q = p /\ w = v THEN Entered(o.frame) ELSE o.table[q][w]
    <3>1. CASE q = p
      BY <1>3, <1>6, <3>1
    <3>2. CASE q # p
      BY <1>6, <3>2
    <3>3. QED
      BY <3>1, <3>2
  <2>2. QED
    BY <1>1, <2>1
<1>8. \A q \in live : table'[q] \in PrivateTable
  BY <1>1, <1>3, <1>6
<1>9. QED
  BY <1>5, <1>7, <1>8

LEMMA LoadPageFrames ==
    ASSUME FramesInv, NEW p \in live, NEW v \in VPages, NEW r \in Replacement,
           mode = "run", ~Valid(p, v), LoadPage(p, v, r),
           pending' \in [Pid -> Restarted \cup {NoInstruction}],
           UNCHANGED <<pageReplaceAlgo, job, thread_index, live, retrying, written>>
    PROVE  FramesInv'
<1>1. job = NoJob /\ job' = NoJob
  BY DEF FramesInv, ProcessesOK
<1>2. CASE ~fileName[p].spelled
  <2>1. replacement' = r
        /\ UNCHANGED <<mode, table, PhysMap, numPagesAllocated, mainMemory, SwapTable>>
    BY <1>2 DEF LoadPage
  <2>2. \A q \in Pid, w \in VPages, f \in Frames : Maps(q, w, f)' <=> Maps(q, w, f)
    BY <2>1 DEF Maps
  <2>3. FramesOK' /\ numPagesAllocated' = Cardinality(Used)'
    BY <2>1, <2>2, FramesKept
  <2>4. ProcessesOK' /\ TablesOK' /\ MemoryOK'
    BY <1>1, <2>1 DEF FramesInv, ProcessesOK, TablesOK, MemoryOK
  <2>5. QED
    BY <2>3, <2>4 DEF FramesInv
<1>3. CASE fileName[p].spelled
  <2>1. PICK o \in PagetoEvict(None, r) :
          IF o.stop # "none"
          THEN mode' = o.stop /\ UNCHANGED memoryVars
          ELSE /\ Take(o, p, v, FALSE, Loaded(o, p, v))
               /\ table' = [o.table EXCEPT ![p][v] = Entered(o.frame)]
               /\ UNCHANGED mode
    BY <1>3 DEF LoadPage, Entered
  <2>2. CASE o.stop # "none"
    <3>1. mode' \in Stops /\ UNCHANGED memoryVars
      BY <2>1, <2>2, PagetoEvictStops
    <3>2. mode' \notin {"run", "fork", "shm"} /\ mode # "shm"
      BY <3>1 DEF Stops
    <3>3. \A q \in Pid, w \in VPages, f \in Frames : Maps(q, w, f)' <=> Maps(q, w, f)
      BY <3>1, <3>2 DEF Maps, memoryVars
    <3>4. FramesOK' /\ numPagesAllocated' = Cardinality(Used)'
      BY <3>1, <3>3, FramesKept DEF memoryVars
    <3>5. ProcessesOK' /\ TablesOK' /\ MemoryOK'
      BY <1>1, <3>1, <3>2 DEF FramesInv, ProcessesOK, TablesOK, MemoryOK, memoryVars
    <3>6. QED
      BY <3>4, <3>5 DEF FramesInv
  <2>3. CASE o.stop = "none"
    <3>1. FoundOK(o)
      BY <2>3, FrameFound DEF FrameOrNone
    <3>2. /\ Take(o, p, v, FALSE, Loaded(o, p, v)) /\ UNCHANGED mode
          /\ table' = [o.table EXCEPT ![p][v] = Entered(o.frame)]
      BY <2>1, <2>3
    <3>3. Loaded(o, p, v) \in Content
      <4>1. o.swap[p][v] \in Content /\ mainMemory[o.frame] \in Content /\ Image \in Content
        BY <3>1 DEF FoundOK, Contents, FramesInv, MemoryOK, Content
      <4>2. QED
        BY <4>1 DEF Loaded
    <3>4. /\ table' \in [Pid -> PrivateTable \cup {<<>>}]
          /\ \A q \in live : table'[q] \in PrivateTable
          /\ \A q \in live, w \in VPages :
               table'[q][w] = IF q = p /\ w = v THEN Entered(o.frame)
                              ELSE IF table[q][w].physicalPage = o.frame
                              THEN Invalidated(table[q][w]) ELSE table[q][w]
      BY <3>1, <3>2, LoadedTable
    <3>5. \A q \in live, w \in VPages, f \in Frames :
            table'[q][w].physicalPage = f
              <=> IF f = o.frame THEN q = p /\ w = v ELSE table[q][w].physicalPage = f
      <4> SUFFICES ASSUME NEW q \in live, NEW w \in VPages, NEW f \in Frames
                   PROVE  table'[q][w].physicalPage = f
                            <=> IF f = o.frame THEN q = p /\ w = v
                                ELSE table[q][w].physicalPage = f
        OBVIOUS
      <4>1. o.frame \in Frames /\ table[q][w] \in PrivateEntry
        BY <3>1, LiveFacts DEF FoundOK
      <4>2. Entered(o.frame).physicalPage = o.frame
            /\ Invalidated(table[q][w]).physicalPage = None /\ f # None
        BY <4>1, EnteredEntry, InvalidatedEntry, ConstantFacts
      <4>3. table[p][v].physicalPage = None
        BY DEF Valid
      <4>4. QED
        BY <3>4, <4>2, <4>3
    <3>6. \A q \in live : DOMAIN table[q] = VPages /\ DOMAIN table'[q] = VPages
      BY <3>4, LiveFacts DEF PrivateTable
    <3>7. \A q \in Pid, w \in VPages, f \in Frames :
            /\ Maps(q, w, f) <=> q \in live /\ table[q][w].physicalPage = f
            /\ Maps(q, w, f)' <=> q \in live /\ table'[q][w].physicalPage = f
      BY <1>1, <3>6 DEF Maps, NoJob
    <3>8. \A q \in Pid, w \in VPages, f \in Frames :
            Maps(q, w, f)' <=> IF f = o.frame THEN q = p /\ w = v ELSE Maps(q, w, f)
      BY <3>5, <3>7
    <3>9. p \in Pid
      BY LiveFacts
    <3>10. /\ FramesOK' /\ numPagesAllocated' = Cardinality(Used)' /\ MemoryOK'
      BY <3>1, <3>2, <3>3, <3>8, <3>9, FramePut DEF MemoryOK
    <3>11. TablesOK'
      <4>1. SwapTable' = o.swap
        BY <3>2 DEF Take
      <4>2. QED
        BY <3>1, <3>4, <4>1 DEF FoundOK, FramesInv, TablesOK
    <3>12. ProcessesOK'
      BY <1>1, <3>2 DEF FramesInv, ProcessesOK
    <3>13. QED
      BY <3>10, <3>11, <3>12 DEF FramesInv
  <2>4. QED
    BY <2>2, <2>3
<1>4. QED
  BY <1>2, <1>3

\* A store to a page of p that is in memory
WrittenPage(p, v) ==
    /\ table' = [table EXCEPT ![p][v].dirty = TRUE]
    /\ mainMemory' = [mainMemory EXCEPT ![table[p][v].physicalPage] = <<p, v>>]
    /\ written' = [written EXCEPT ![p][v] = <<p, v>>]

\* What it leaves
AfterWrite(p, v) ==
    /\ TablesOK' /\ mainMemory' \in [Frames -> Content]
    /\ \A q \in live, w \in VPages :
         /\ table'[q][w] = IF q = p /\ w = v THEN [table[q][w] EXCEPT !.dirty = TRUE]
                           ELSE table[q][w]
         /\ written'[q][w] = IF q = p /\ w = v THEN <<p, v>> ELSE written[q][w]
    /\ \A f \in Frames : mainMemory'[f] = IF f = table[p][v].physicalPage
                                          THEN <<p, v>> ELSE mainMemory[f]

LEMMA WrittenTables ==
    ASSUME Unshared, FramesInv, NEW p \in live, NEW v \in VPages, Valid(p, v),
           WrittenPage(p, v), UNCHANGED <<live, SwapTable>>
    PROVE  AfterWrite(p, v)
<1> DEFINE x == [table[p][v] EXCEPT !.dirty = TRUE]
           c == <<p, v>>
           t == [table[p] EXCEPT ![v] = x]
           w == [written[p] EXCEPT ![v] = c]
<1>1. p \in Pid /\ live \subseteq Pid /\ table[p][v].physicalPage \in Frames
  BY LiveFacts
<1>2. c \in Content
  BY <1>1 DEF Content, Modified, VPages, Unshared
<1>3. x \in PrivateEntry
  <2>1. table[p][v] \in PrivateEntry
    BY LiveFacts
  <2>2. QED
    BY <2>1 DEF PrivateEntry, Entry
<1>4. /\ table \in [Pid -> PrivateTable \cup {<<>>}] /\ table[p] \in PrivateTable
      /\ written \in [Pid -> Contents \cup {<<>>}] /\ written[p] \in Contents
      /\ \A q \in live : table[q] \in PrivateTable /\ written[q] \in Contents
      /\ mainMemory \in [Frames -> Content]
  BY DEF FramesInv, TablesOK, MemoryOK
<1>5. table' = [table EXCEPT ![p] = t]
  BY DEF WrittenPage
<1>6. written' = [written EXCEPT ![p] = w]
  BY DEF WrittenPage
<1> HIDE DEF x, c
<1>7. t \in PrivateTable /\ \A u \in VPages : t[u] = IF u = v THEN x ELSE table[p][u]
  BY <1>3, <1>4 DEF PrivateTable
<1>8. w \in Contents /\ \A u \in VPages : w[u] = IF u = v THEN c ELSE written[p][u]
  BY <1>2, <1>4 DEF Contents
<1> HIDE DEF t, w
<1>9. table' \in [Pid -> PrivateTable \cup {<<>>}]
      /\ \A q \in live : table'[q] = IF q = p THEN t ELSE table[q]
  BY <1>1, <1>4, <1>5, <1>7
<1>10. written' \in [Pid -> Contents \cup {<<>>}]
       /\ \A q \in live : written'[q] = IF q = p THEN w ELSE written[q]
  BY <1>1, <1>4, <1>6, <1>8
<1>11. TablesOK'
  BY <1>4, <1>7, <1>8, <1>9, <1>10 DEF FramesInv, TablesOK
<1>12. mainMemory' = [mainMemory EXCEPT ![table[p][v].physicalPage] = c]
  BY DEF WrittenPage, c
<1>13. /\ mainMemory' \in [Frames -> Content]
       /\ \A f \in Frames : mainMemory'[f] = IF f = table[p][v].physicalPage
                                             THEN c ELSE mainMemory[f]
  BY <1>1, <1>2, <1>4, <1>12
<1>14. /\ \A u \in VPages : table'[p][u] = IF u = v THEN x ELSE table[p][u]
       /\ \A u \in VPages : written'[p][u] = IF u = v THEN c ELSE written[p][u]
  BY <1>7, <1>8, <1>9, <1>10
<1>15. \A q \in live : q # p => table'[q] = table[q] /\ written'[q] = written[q]
  BY <1>9, <1>10
<1>16. QED
  BY <1>11, <1>13, <1>14, <1>15 DEF AfterWrite, x, c

\* An instruction meets a fault, stores, or leaves the pages as they are.
Faults(p) == \E v \in VPages, r \in Replacement, i \in Restarted :
                ~Valid(p, v) /\ PageFault(p, i, v, r)

Completes(p) ==
    /\ \/ \E v \in VPages : Valid(p, v) /\ WrittenPage(p, v)
       \/ UNCHANGED <<table, mainMemory, written>>
    /\ replacement' \in Replacement
    /\ pending' = [pending EXCEPT ![p] = NoInstruction]
    /\ UNCHANGED <<pageReplaceAlgo, mode, job, thread_index, live, PhysMap,
                   numPagesAllocated, SwapTable, retrying>>

LEMMA InstructionOutcome ==
    ASSUME FramesInv, NEW p \in Pid, Instruction(p)
    PROVE  mode = "run" /\ p \in live /\ (Faults(p) \/ Completes(p))
<1>1. mode = "run" /\ p \in live /\ job = NoJob /\ retrying = {}
  BY DEF Instruction, FramesInv, ProcessesOK
<1>2. PICK i \in IF pending[p] = NoInstruction
                 THEN {j \in [fetch : 0 .. FilePages - 1,
                              data : DOMAIN table[p] \cup {None}, write : BOOLEAN] :
                         j.data = None \/ p \in retrying => ~j.write}
                 ELSE {pending[p]} :
        LET fetched == Access(table[p][i.fetch].physicalPage, replacement)
            frame == table[p][i.data].physicalPage
        IN  IF ~Valid(p, i.fetch) THEN PageFault(p, i, i.fetch, replacement)
            ELSE IF i.data # None /\ ~Valid(p, i.data) THEN PageFault(p, i, i.data, fetched)
            ELSE /\ replacement' = IF i.data = None THEN fetched ELSE Access(frame, fetched)
                 /\ pending' = [pending EXCEPT ![p] = NoInstruction]
                 /\ IF i.write
                    THEN /\ table' = [table EXCEPT ![p][i.data].dirty = TRUE]
                         /\ mainMemory' = [mainMemory EXCEPT ![frame] = <<p, i.data>>]
                         /\ written' = [written EXCEPT ![p][i.data] = <<p, i.data>>]
                    ELSE UNCHANGED <<table, mainMemory, written>>
                 /\ UNCHANGED <<pageReplaceAlgo, mode, job, thread_index, live, PhysMap,
                                numPagesAllocated, SwapTable, fileName, retrying>>
  BY Zenon DEF Instruction
<1>3. i \in Restarted
  <2>1. CASE pending[p] = NoInstruction
    BY <1>1, <1>2, <2>1, LiveFacts DEF Restarted
  <2>2. CASE pending[p] # NoInstruction
    BY <1>2, <2>2 DEF FramesInv, ProcessesOK
  <2>3. QED
    BY <2>1, <2>2
<1> DEFINE fetched == Access(table[p][i.fetch].physicalPage, replacement)
           frame == table[p][i.data].physicalPage
<1>4. /\ i.fetch \in VPages /\ i.data \in VPages \cup {None}
      /\ i.write => i.data \in VPages
  BY <1>3, ConstantFacts DEF Restarted, VPages
<1>5. replacement \in Replacement
  BY DEF FramesInv, MemoryOK
<1>6. Valid(p, i.fetch) => fetched \in Replacement
  BY <1>1, <1>4, <1>5, LiveFacts, AccessType
<1>7. i.data # None /\ Valid(p, i.data) => frame \in Frames
  BY <1>1, <1>4, LiveFacts
<1> HIDE DEF fetched, frame
<1>8. CASE ~Valid(p, i.fetch)
  <2>1. PageFault(p, i, i.fetch, replacement)
    BY <1>2, <1>8
  <2>2. QED
    BY <1>1, <1>3, <1>4, <1>5, <1>8, <2>1 DEF Faults
<1>9. CASE Valid(p, i.fetch) /\ i.data # None /\ ~Valid(p, i.data)
  <2>1. PageFault(p, i, i.data, fetched)
    BY <1>2, <1>9 DEF fetched
  <2>2. QED
    BY <1>1, <1>3, <1>4, <1>6, <1>9, <2>1 DEF Faults
<1>10. CASE Valid(p, i.fetch) /\ (i.data = None \/ Valid(p, i.data))
  <2>1. /\ replacement' = IF i.data = None THEN fetched ELSE Access(frame, fetched)
        /\ pending' = [pending EXCEPT ![p] = NoInstruction]
        /\ IF i.write
           THEN /\ table' = [table EXCEPT ![p][i.data].dirty = TRUE]
                /\ mainMemory' = [mainMemory EXCEPT ![frame] = <<p, i.data>>]
                /\ written' = [written EXCEPT ![p][i.data] = <<p, i.data>>]
           ELSE UNCHANGED <<table, mainMemory, written>>
        /\ UNCHANGED <<pageReplaceAlgo, mode, job, thread_index, live, PhysMap,
                       numPagesAllocated, SwapTable, fileName, retrying>>
    BY <1>2, <1>10 DEF fetched, frame
  <2>2. replacement' \in Replacement
    BY <1>6, <1>7, <1>10, <2>1, AccessType
  <2>3. i.write => i.data \in VPages /\ Valid(p, i.data) /\ WrittenPage(p, i.data)
    <3>1. i.write => i.data \in VPages /\ i.data # None
      BY <1>4, ConstantFacts
    <3>2. QED
      BY <1>10, <2>1, <3>1 DEF WrittenPage, frame
  <2>4. ~i.write => UNCHANGED <<table, mainMemory, written>>
    BY <2>1
  <2>5. Completes(p)
    BY <2>1, <2>2, <2>3, <2>4 DEF Completes
  <2>6. QED
    BY <1>1, <2>5
<1>11. QED
  BY <1>8, <1>9, <1>10

LEMMA InstructionFrames ==
    ASSUME Unshared, FramesInv, NEW p \in Pid, Instruction(p)
    PROVE  FramesInv'
<1>1. mode = "run" /\ p \in live /\ (Faults(p) \/ Completes(p))
  BY InstructionOutcome
<1>2. CASE Faults(p)
  <2>1. PICK v \in VPages, r \in Replacement, i \in Restarted :
          ~Valid(p, v) /\ PageFault(p, i, v, r)
    BY <1>2 DEF Faults
  <2>2. pending' \in [Pid -> Restarted \cup {NoInstruction}]
    BY <2>1 DEF PageFault, FramesInv, ProcessesOK
  <2>3. QED
    BY <1>1, <2>1, <2>2, LoadPageFrames DEF PageFault
<1>3. CASE Completes(p)
  <2>1. /\ replacement' \in Replacement
        /\ pending' = [pending EXCEPT ![p] = NoInstruction]
        /\ UNCHANGED <<pageReplaceAlgo, mode, job, thread_index, live, PhysMap,
                       numPagesAllocated, SwapTable, retrying>>
    BY <1>3 DEF Completes
  <2>2. ProcessesOK'
    <3>1. job = NoJob
      BY <1>1 DEF FramesInv, ProcessesOK
    <3>2. pending' \in [Pid -> Restarted \cup {NoInstruction}]
      BY <2>1 DEF FramesInv, ProcessesOK
    <3>3. QED
      BY <1>1, <2>1, <3>1, <3>2 DEF FramesInv, ProcessesOK
  <2>3. CASE UNCHANGED <<table, mainMemory, written>>
    <3>1. \A q \in Pid, w \in VPages, f \in Frames : Maps(q, w, f)' <=> Maps(q, w, f)
      BY <2>1, <2>3 DEF Maps
    <3>2. QED
      BY <2>1, <2>2, <2>3, <3>1, FramesKept DEF FramesInv, TablesOK, MemoryOK
  <2>4. ASSUME NEW v \in VPages, Valid(p, v), WrittenPage(p, v)
        PROVE  FramesInv'
    <3>1. AfterWrite(p, v)
      BY <1>1, <2>1, <2>4, WrittenTables
    <3>2. \A e \in PrivateEntry : [e EXCEPT !.dirty = TRUE].physicalPage = e.physicalPage
      BY DEF PrivateEntry, Entry
    <3>3. \A q \in live, w \in VPages : table'[q][w].physicalPage = table[q][w].physicalPage
      <4> SUFFICES ASSUME NEW q \in live, NEW w \in VPages
                   PROVE  table'[q][w].physicalPage = table[q][w].physicalPage
        OBVIOUS
      <4>1. table[q][w] \in PrivateEntry
        BY LiveFacts
      <4>2. table'[q][w] \in {table[q][w], [table[q][w] EXCEPT !.dirty = TRUE]}
        BY <3>1 DEF AfterWrite
      <4>3. QED
        BY <3>2, <4>1, <4>2
    <3>4. \A q \in live : DOMAIN table[q] = VPages /\ DOMAIN table'[q] = VPages
      BY <2>1, <3>1, LiveFacts DEF AfterWrite, TablesOK, PrivateTable
    <3>5. \A q \in Pid, w \in VPages, f \in Frames : Maps(q, w, f)' <=> Maps(q, w, f)
      BY <2>1, <3>3, <3>4 DEF Maps
    <3>6. QED
      BY <2>1, <2>2, <3>1, <3>5, FramesKept DEF FramesInv, MemoryOK, AfterWrite
  <2>5. QED
    BY <1>3, <2>3, <2>4 DEF Completes
<1>4. QED
  BY <1>1, <1>2, <1>3

-----------------------------------------------------------------------------
(* Fork *)

LEMMA PrivateEntryPage ==
    ASSUME NEW e \in PrivateEntry, NEW f \in FrameOrNone
    PROVE  /\ [e EXCEPT !.physicalPage = f] \in PrivateEntry
           /\ [e EXCEPT !.physicalPage = f].physicalPage = f
           /\ [e EXCEPT !.physicalPage = f].dirty = e.dirty
           /\ [e EXCEPT !.physicalPage = f].swapped = e.swapped
BY DEF PrivateEntry, Entry

LEMMA FetchFrames ==
    ASSUME FramesInv, NEW p \in live, Fetch(p)
    PROVE  replacement' \in Replacement
<1>1. PICK v \in 0 .. FilePages - 1 :
        Valid(p, v) /\ replacement' = Access(table[p][v].physicalPage, replacement)
  BY DEF Fetch
<1>2. v \in VPages
  BY ConstantFacts DEF VPages
<1>3. QED
  BY <1>1, <1>2, LiveFacts, AccessType DEF FramesInv, MemoryOK

LEMMA BeginForkFrames ==
    ASSUME FramesInv, NEW p \in Pid, BeginFork(p)
    PROVE  FramesInv'
<1>1. p \in live /\ mode = "run" /\ mode' = "fork" /\ job = NoJob
  BY DEF BeginFork, Trap, FramesInv, ProcessesOK
<1>2. replacement' \in Replacement
  BY <1>1, FetchFrames DEF BeginFork
<1>3. Cardinality(DOMAIN table[p]) = NumPages
  <2>1. DOMAIN table[p] = 0 .. NumPages - 1
    BY <1>1, LiveFacts DEF VPages
  <2>2. NumPages \in Nat \ {0}
    BY ConstantFacts
  <2>3. Cardinality(0 .. NumPages - 1) = NumPages
    BY <2>2, FS_Interval
  <2>4. QED
    BY <2>1, <2>3
<1>4. /\ job' = [proc |-> p, child |-> thread_index, size |-> NumPages, pages |-> <<>>]
      /\ thread_index < MAX_THREAD_COUNT /\ thread_index' = thread_index + 1
      /\ UNCHANGED <<pageReplaceAlgo, live, table, PhysMap, numPagesAllocated, mainMemory,
                     SwapTable, retrying, written, pending>>
  BY <1>3 DEF BeginFork, Trap
<1>5. thread_index \in Nat /\ live \subseteq 0 .. thread_index - 1
  BY ConstantFacts DEF FramesInv, ProcessesOK
<1>6. ForkJob'
  BY <1>1, <1>4, <1>5, ConstantFacts DEF ForkJob, Pid
<1>7. ProcessesOK'
  <2>1. thread_index' \in 1 .. MAX_THREAD_COUNT /\ live' \subseteq 0 .. thread_index' - 1
    BY <1>4, <1>5, ConstantFacts
  <2>2. QED
    BY <1>1, <1>4, <1>6, <2>1 DEF FramesInv, ProcessesOK
<1>8. \A q \in Pid, w \in VPages, f \in Frames : Maps(q, w, f)' <=> Maps(q, w, f)
  BY <1>1, <1>4 DEF Maps, NoJob
<1>9. QED
  BY <1>2, <1>4, <1>7, <1>8, FramesKept DEF FramesInv, TablesOK, MemoryOK

\* What a step of the loop appends
LEMMA PageAdded ==
    ASSUME FramesInv, ForkJob, mode = "fork", NextPage < job.size,
           NEW e \in PrivateEntry, AddPage(e),
           UNCHANGED <<pageReplaceAlgo, mode, processVars>>
    PROVE  /\ ProcessesOK' /\ ForkJob' /\ NextPage \in VPages
           /\ job'.child = job.child /\ job'.proc = job.proc /\ job'.size = job.size
           /\ DOMAIN job'.pages = 1 .. NextPage + 1 /\ DOMAIN job.pages = 1 .. NextPage
           /\ \A k \in 1 .. NextPage + 1 :
                job'.pages[k] = IF k = NextPage + 1 THEN e ELSE job.pages[k]
<1>1. /\ job.pages \in Seq(PrivateEntry) /\ job.size = NumPages
      /\ job = [proc |-> job.proc, child |-> job.child, size |-> job.size,
                pages |-> job.pages]
  BY DEF ForkJob
<1>2. /\ Append(job.pages, e) \in Seq(PrivateEntry)
      /\ Len(Append(job.pages, e)) = NextPage + 1 /\ NextPage \in Nat
      /\ DOMAIN Append(job.pages, e) = 1 .. NextPage + 1 /\ DOMAIN job.pages = 1 .. NextPage
      /\ \A k \in 1 .. NextPage + 1 :
           Append(job.pages, e)[k] = IF k = NextPage + 1 THEN e ELSE job.pages[k]
  BY <1>1 DEF NextPage
<1>3. job' = [proc |-> job.proc, child |-> job.child, size |-> job.size,
              pages |-> Append(job.pages, e)]
  BY <1>1 DEF AddPage
<1>4. job'.child = job.child /\ job'.proc = job.proc /\ job'.size = job.size
      /\ job'.pages = Append(job.pages, e)
  BY <1>3
<1>5. NextPage \in VPages
  BY <1>1, <1>2, ConstantFacts DEF VPages
<1>6. ForkJob'
  <2>1. NextPage + 1 <= NumPages
    BY <1>1, <1>2, ConstantFacts
  <2>2. UNCHANGED <<live, thread_index>>
    BY DEF processVars
  <2>3. QED
    BY <1>1, <1>2, <1>3, <1>4, <2>1, <2>2 DEF ForkJob
<1>7. ProcessesOK'
  BY <1>6 DEF FramesInv, ProcessesOK, processVars
<1>8. QED
  BY <1>2, <1>4, <1>5, <1>6, <1>7

LEMMA ForkMaps ==
    ASSUME FramesInv, ForkJob, mode = "fork"
    PROVE  \A q \in Pid, w \in VPages, f \in Frames :
             Maps(q, w, f) <=> \/ q \in live /\ table[q][w].physicalPage = f
                               \/ /\ q = job.child /\ w + 1 \in DOMAIN job.pages
                                  /\ job.pages[w + 1].physicalPage = f
<1>1. \A q \in live : DOMAIN table[q] = VPages
  BY LiveFacts
<1>2. QED
  BY <1>1 DEF Maps

LEMMA CopyPageFrames ==
    ASSUME FramesInv, mode = "fork", NextPage < job.size, Valid(job.proc, NextPage),
           CopyPage(job.proc, NextPage), UNCHANGED pageReplaceAlgo
    PROVE  FramesInv'
<1> DEFINE p == job.proc
           i == NextPage
           from == table[p][i].physicalPage
<1>1. ForkJob /\ p \in live /\ job.child \in Pid /\ job.child \notin live
  BY DEF FramesInv, ProcessesOK, ForkJob
<1>2. i \in VPages
  BY <1>1, ConstantFacts DEF ForkJob, NextPage, VPages
<1>3. from \in Frames /\ replacement \in Replacement
  BY <1>1, <1>2, LiveFacts DEF FramesInv, MemoryOK
<1>4. PICK o \in PagetoEvict(from, replacement) :
        IF o.stop # "none" THEN Stop(o.stop)
        ELSE /\ Take(o, job.child, i, FALSE, mainMemory[from])
             /\ table' = o.table
             /\ AddPage([o.table[p][i] EXCEPT !.physicalPage = o.frame])
             /\ UNCHANGED <<mode, processVars>>
  BY DEF CopyPage
<1>5. CASE o.stop # "none"
  <2>1. Stop(o.stop)
    BY <1>4, <1>5
  <2> HIDE DEF p, i, from
  <2>2. QED
    BY <1>5, <2>1, PagetoEvictStops, StopFrames DEF Stop, processVars
<1>6. CASE o.stop = "none"
  <2> DEFINE e == [o.table[p][i] EXCEPT !.physicalPage = o.frame]
  <2>1. FoundOK(o)
    BY <1>3, <1>6, FrameFound DEF FrameOrNone
  <2>2. /\ Take(o, job.child, i, FALSE, mainMemory[from]) /\ table' = o.table
        /\ AddPage(e) /\ UNCHANGED <<mode, processVars>>
    BY <1>4, <1>6
  <2>3. mainMemory[from] \in Content
    BY <1>3 DEF FramesInv, MemoryOK
  <2>4. e \in PrivateEntry /\ e.physicalPage = o.frame /\ o.frame \in Frames
    <3>1. o.table[p][i] \in PrivateEntry /\ o.frame \in FrameOrNone /\ o.frame \in Frames
      BY <1>1, <1>2, <2>1 DEF FoundOK, PrivateTable, FrameOrNone
    <3>2. QED
      BY <3>1, PrivateEntryPage
  <2> HIDE DEF p, i, from, e
  <2>5. /\ ProcessesOK' /\ ForkJob' /\ job'.child = job.child /\ NextPage = i
        /\ DOMAIN job'.pages = 1 .. i + 1 /\ DOMAIN job.pages = 1 .. i
        /\ \A k \in 1 .. i + 1 : job'.pages[k] = IF k = i + 1 THEN e ELSE job.pages[k]
    <3>1. NextPage = i
      BY DEF i
    <3>2. QED
      BY <1>1, <2>2, <2>4, <3>1, PageAdded
  <2>6. \A q \in live, w \in VPages, f \in Frames :
          table'[q][w].physicalPage = f
            <=> f # o.frame /\ table[q][w].physicalPage = f
    <3> SUFFICES ASSUME NEW q \in live, NEW w \in VPages, NEW f \in Frames
                 PROVE  table'[q][w].physicalPage = f
                          <=> f # o.frame /\ table[q][w].physicalPage = f
      OBVIOUS
    <3>1. o.table[q][w] = IF table[q][w].physicalPage = o.frame
                          THEN Invalidated(table[q][w]) ELSE table[q][w]
      BY <2>1 DEF FoundOK
    <3>2. Invalidated(table[q][w]).physicalPage = None /\ f # None
      BY LiveFacts, InvalidatedEntry, ConstantFacts
    <3>3. QED
      BY <2>2, <3>1, <3>2
  <2>7. \A k \in DOMAIN job.pages : job.pages[k].physicalPage # o.frame
    BY <2>1 DEF FoundOK
  <2>8. \A q \in Pid, w \in VPages, f \in Frames :
          /\ Maps(q, w, f) <=> \/ q \in live /\ table[q][w].physicalPage = f
                               \/ /\ q = job.child /\ w + 1 \in 1 .. i
                                  /\ job.pages[w + 1].physicalPage = f
          /\ Maps(q, w, f)' <=> \/ q \in live /\ table'[q][w].physicalPage = f
                                \/ /\ q = job.child /\ w + 1 \in 1 .. i + 1
                                   /\ job'.pages[w + 1].physicalPage = f
    <3>1. \A q \in live : DOMAIN table[q] = VPages /\ DOMAIN table'[q] = VPages
      BY <2>1, <2>2, LiveFacts DEF FoundOK, PrivateTable
    <3>2. UNCHANGED <<mode, live>>
      BY <2>2 DEF processVars
    <3>3. QED
      BY <2>5, <3>1, <3>2 DEF Maps
  <2>9. \A q \in Pid, w \in VPages, f \in Frames :
          Maps(q, w, f)' <=> IF f = o.frame THEN q = job.child /\ w = i ELSE Maps(q, w, f)
    <3> SUFFICES ASSUME NEW q \in Pid, NEW w \in VPages, NEW f \in Frames
                 PROVE  Maps(q, w, f)' <=> IF f = o.frame THEN q = job.child /\ w = i
                                           ELSE Maps(q, w, f)
      OBVIOUS
    <3>1. w \in Nat /\ i \in Nat
      BY <1>2, ConstantFacts DEF VPages
    <3>2. CASE q \in live
      BY <1>1, <2>6, <2>8, <3>2
    <3>3. CASE q # job.child /\ q \notin live
      BY <2>8, <3>3
    <3>4. CASE q = job.child /\ w = i
      BY <1>1, <2>4, <2>5, <2>8, <3>1, <3>4
    <3>5. CASE q = job.child /\ w # i
      <4>1. w + 1 \in 1 .. i + 1 <=> w + 1 \in 1 .. i
        BY <3>1, <3>5
      <4>2. w + 1 \in 1 .. i => job'.pages[w + 1] = job.pages[w + 1]
                                /\ job.pages[w + 1].physicalPage # o.frame
        BY <2>5, <2>7, <3>1, <3>5
      <4>3. QED
        BY <1>1, <2>8, <3>5, <4>1, <4>2
    <3>6. QED
      BY <3>2, <3>3, <3>4, <3>5
  <2>10. FramesOK' /\ numPagesAllocated' = Cardinality(Used)' /\ MemoryOK'
    <3> DEFINE child == job.child
               content == mainMemory[from]
    <3>1. child \in Pid /\ content \in Content /\ Take(o, child, i, FALSE, content)
          /\ \A q \in Pid, w \in VPages, f \in Frames :
               Maps(q, w, f)' <=> IF f = o.frame THEN q = child /\ w = i ELSE Maps(q, w, f)
      BY <1>1, <2>2, <2>3, <2>9
    <3> HIDE DEF child, content
    <3>2. QED
      BY <1>2, <2>1, <3>1, FramePut DEF MemoryOK
  <2>11. TablesOK'
    <3>1. SwapTable' = o.swap /\ UNCHANGED <<live, written>>
      BY <2>2 DEF Take, processVars
    <3>2. QED
      BY <2>1, <2>2, <3>1 DEF FoundOK, FramesInv, TablesOK
  <2>12. QED
    BY <2>5, <2>10, <2>11 DEF FramesInv
<1>7. QED
  BY <1>5, <1>6

LEMMA ForkPageFrames ==
    ASSUME FramesInv, ForkPage
    PROVE  FramesInv'
<1> DEFINE e == table[job.proc][NextPage]
<1>1. ForkJob /\ mode = "fork" /\ NextPage < job.size /\ UNCHANGED pageReplaceAlgo
  BY DEF ForkPage, FramesInv, ProcessesOK
<1>2. NextPage \in VPages /\ job.proc \in live
  BY <1>1, ConstantFacts DEF ForkJob, NextPage, VPages
<1>3. e \in PrivateEntry /\ ~e.shared
  BY <1>2, LiveFacts DEF PrivateEntry
<1>4. CASE Valid(job.proc, NextPage)
  <2>1. CopyPage(job.proc, NextPage)
    BY <1>3, <1>4 DEF ForkPage
  <2>2. QED
    BY <1>1, <1>4, <2>1, CopyPageFrames
<1>5. CASE ~Valid(job.proc, NextPage)
  <2>1. AddPage(e) /\ UNCHANGED <<mode, memoryVars, processVars>>
    BY <1>3, <1>5 DEF ForkPage
  <2>2. e.physicalPage = None
    BY <1>5 DEF Valid
  <2> HIDE DEF e
  <2>3. /\ ProcessesOK' /\ ForkJob' /\ job'.child = job.child
        /\ DOMAIN job'.pages = 1 .. NextPage + 1 /\ DOMAIN job.pages = 1 .. NextPage
        /\ \A k \in 1 .. NextPage + 1 :
             job'.pages[k] = IF k = NextPage + 1 THEN e ELSE job.pages[k]
    BY <1>1, <1>3, <2>1, PageAdded
  <2>4. \A q \in Pid, w \in VPages, f \in Frames : Maps(q, w, f)' <=> Maps(q, w, f)
    <3> SUFFICES ASSUME NEW q \in Pid, NEW w \in VPages, NEW f \in Frames
                 PROVE  Maps(q, w, f)' <=> Maps(q, w, f)
      OBVIOUS
    <3>1. w \in Nat /\ NextPage \in Nat /\ f # None
      BY <1>2, ConstantFacts DEF VPages
    <3>2. UNCHANGED <<mode, live, table>>
      BY <2>1 DEF processVars, memoryVars
    <3>3. w + 1 \in 1 .. NextPage + 1 /\ job'.pages[w + 1].physicalPage = f
            <=> w + 1 \in 1 .. NextPage /\ job.pages[w + 1].physicalPage = f
      BY <2>2, <2>3, <3>1
    <3>4. QED
      BY <2>3, <3>2, <3>3 DEF Maps
  <2>5. QED
    BY <2>1, <2>3, <2>4, FramesKept
       DEF FramesInv, TablesOK, MemoryOK, memoryVars, processVars
<1>6. QED
  BY <1>4, <1>5

LEMMA ForkDoneFrames ==
    ASSUME FramesInv, ForkDone
    PROVE  FramesInv'
<1> DEFINE c == job.child
           t == [v \in 0 .. job.size - 1 |-> job.pages[v + 1]]
           s == [v \in 0 .. job.size - 1 |-> IF v \in DOMAIN SwapTable[job.proc]
                                             THEN SwapTable[job.proc][v] ELSE Zero]
<1>1. /\ ForkJob /\ mode = "fork" /\ mode' = "run" /\ job' = NoJob /\ Len(job.pages) = NumPages
      /\ c \in Pid /\ c \notin live /\ c < thread_index /\ job.proc \in live
      /\ job.size = NumPages /\ job.pages \in Seq(PrivateEntry)
  BY DEF ForkDone, FramesInv, ProcessesOK, ForkJob, NextPage
<1>2. t \in PrivateTable /\ \A v \in VPages : t[v] = job.pages[v + 1]
  BY <1>1, ConstantFacts DEF PrivateTable, VPages
<1>3. s \in Contents
  <2>1. Zero \in Content /\ DOMAIN SwapTable[job.proc] = VPages
        /\ \A v \in VPages : SwapTable[job.proc][v] \in Content
    BY <1>1, LiveFacts DEF Content
  <2>2. QED
    BY <1>1, <2>1 DEF Contents, VPages
<1>4. written[job.proc] \in Contents
  BY <1>1 DEF FramesInv, TablesOK
<1>5. /\ live' = live \cup {c}
      /\ table' = [table EXCEPT ![c] = t]
      /\ SwapTable' = [SwapTable EXCEPT ![c] = s]
      /\ written' = [written EXCEPT ![c] = written[job.proc]]
      /\ UNCHANGED <<pageReplaceAlgo, thread_index, PhysMap, numPagesAllocated, replacement,
                     mainMemory, pending, retrying>>
  BY DEF ForkDone
<1>6. live \subseteq Pid
  BY LiveFacts
<1> HIDE DEF t, s
<1>7. /\ table' \in [Pid -> PrivateTable \cup {<<>>}]
      /\ \A q \in live' : table'[q] = IF q = c THEN t ELSE table[q]
  BY <1>1, <1>2, <1>5, <1>6 DEF FramesInv, TablesOK
<1>8. /\ SwapTable' \in [Pid -> Contents \cup {<<>>}]
      /\ \A q \in live' : SwapTable'[q] = IF q = c THEN s ELSE SwapTable[q]
  BY <1>1, <1>3, <1>5, <1>6 DEF FramesInv, TablesOK
<1>9. /\ written' \in [Pid -> Contents \cup {<<>>}]
      /\ \A q \in live' : written'[q] = IF q = c THEN written[job.proc] ELSE written[q]
  BY <1>1, <1>4, <1>5, <1>6 DEF FramesInv, TablesOK
<1>10. TablesOK'
  <2>1. \A q \in live : table[q] \in PrivateTable /\ SwapTable[q] \in Contents
                        /\ written[q] \in Contents
    BY DEF FramesInv, TablesOK
  <2>2. \A q \in live' : q = c \/ q \in live
    BY <1>5
  <2> HIDE DEF c
  <2>3. QED
    BY <1>2, <1>3, <1>4, <1>7, <1>8, <1>9, <2>1, <2>2 DEF TablesOK
<1>11. ProcessesOK'
  <2>1. live' \subseteq 0 .. thread_index - 1
    BY <1>1, <1>5 DEF FramesInv, ProcessesOK, Pid
  <2>2. QED
    BY <1>1, <1>5, <2>1 DEF FramesInv, ProcessesOK
<1>12. \A q \in Pid, w \in VPages, f \in Frames : Maps(q, w, f)' <=> Maps(q, w, f)
  <2> SUFFICES ASSUME NEW q \in Pid, NEW w \in VPages, NEW f \in Frames
               PROVE  Maps(q, w, f)' <=> Maps(q, w, f)
    OBVIOUS
  <2>1. Maps(q, w, f) <=> \/ q \in live /\ table[q][w].physicalPage = f
                          \/ /\ q = c /\ w + 1 \in DOMAIN job.pages
                             /\ job.pages[w + 1].physicalPage = f
    BY <1>1, ForkMaps
  <2>2. w + 1 \in DOMAIN job.pages
    BY <1>1, ConstantFacts DEF VPages
  <2>3. Maps(q, w, f)' <=> q \in live' /\ table'[q][w].physicalPage = f
    <3>1. \A x \in live' : DOMAIN table'[x] = VPages
      BY <1>10 DEF TablesOK, PrivateTable
    <3>2. QED
      BY <1>1, <3>1 DEF Maps, NoJob
  <2>4. CASE q = c
    BY <1>1, <1>2, <1>5, <1>7, <2>1, <2>2, <2>3, <2>4
  <2>5. CASE q # c
    BY <1>5, <1>7, <2>1, <2>3, <2>5
  <2>6. QED
    BY <2>4, <2>5
<1>13. QED
  BY <1>5, <1>10, <1>11, <1>12, FramesKept DEF FramesInv, MemoryOK

-----------------------------------------------------------------------------
(* Exec and Exit *)

LEMMA FreshFacts ==
    FreshTable \in PrivateTable /\ FreshSwap \in Contents /\ FreshProgram \in Contents
    /\ \A v \in VPages : FreshTable[v] = FreshEntry
    /\ FreshEntry.physicalPage = None /\ ~FreshEntry.dirty /\ ~FreshEntry.swapped
BY DEF FreshTable, FreshSwap, FreshProgram, FreshEntry, PrivateTable, PrivateEntry, Entry,
       FrameOrNone, Contents, Content, VPages

LEMMA ExecFrames ==
    ASSUME FramesInv, NEW p \in Pid, Exec(p)
    PROVE  FramesInv'
<1>1. p \in live /\ mode = "run" /\ job = NoJob
  BY DEF Exec, Trap, FramesInv, ProcessesOK
<1>2. replacement' \in Replacement
  BY <1>1, FetchFrames DEF Exec
<1>3. /\ FreePages(p)
      /\ table' = [table EXCEPT ![p] = FreshTable]
      /\ SwapTable' = [SwapTable EXCEPT ![p] = FreshSwap]
      /\ written' = [written EXCEPT ![p] = FreshProgram]
      /\ UNCHANGED <<pageReplaceAlgo, pending, mode, job, thread_index, live, mainMemory,
                     retrying>>
  BY DEF Exec, Trap
<1>4. live \subseteq Pid /\ \A q \in live : DOMAIN table[q] = VPages
  BY LiveFacts
<1>5. TablesOK' /\ \A q \in live : table'[q] = IF q = p THEN FreshTable ELSE table[q]
  BY <1>1, <1>3, <1>4, FreshFacts DEF FramesInv, TablesOK
<1>6. \A q \in Pid, w \in VPages, f \in Frames :
        /\ Maps(q, w, f) <=> q \in live /\ table[q][w].physicalPage = f
        /\ Maps(q, w, f)' <=> q \in live /\ table'[q][w].physicalPage = f
  <2>1. \A q \in live : DOMAIN table'[q] = VPages
    BY <1>3, <1>5 DEF TablesOK, PrivateTable
  <2>2. QED
    BY <1>1, <1>3, <1>4, <2>1 DEF Maps, NoJob
<1>7. \A q \in Pid, w \in VPages, f \in Frames : Maps(q, w, f)' <=> q # p /\ Maps(q, w, f)
  <2>1. \A w \in VPages, f \in Frames : FreshTable[w].physicalPage # f
    BY FreshFacts, ConstantFacts
  <2>2. QED
    BY <1>5, <1>6, <2>1
<1>8. FramesOK' /\ numPagesAllocated' = Cardinality(Used)' /\ PhysMap' \in [Frames -> CoreMap]
  BY <1>3, <1>7, FramesFreed
<1>9. ProcessesOK'
  BY <1>1, <1>3 DEF FramesInv, ProcessesOK
<1>10. QED
  BY <1>2, <1>3, <1>5, <1>8, <1>9 DEF FramesInv, MemoryOK

LEMMA ExitFrames ==
    ASSUME FramesInv, NEW p \in Pid, Exit(p)
    PROVE  FramesInv'
<1>1. p \in live /\ mode = "run" /\ job = NoJob
  BY DEF Exit, Trap, FramesInv, ProcessesOK
<1>2. replacement' \in Replacement
  BY <1>1, FetchFrames DEF Exit
<1>3. /\ FreePages(p) /\ live' = live \ {p}
      /\ table' = [table EXCEPT ![p] = <<>>]
      /\ SwapTable' = [SwapTable EXCEPT ![p] = <<>>]
      /\ written' = [written EXCEPT ![p] = <<>>]
      /\ UNCHANGED <<pageReplaceAlgo, pending, mode, job, thread_index, mainMemory, retrying>>
  BY DEF Exit, Trap
<1>4. live \subseteq Pid /\ \A q \in live : DOMAIN table[q] = VPages
  BY LiveFacts
<1>5. TablesOK' /\ \A q \in live' : table'[q] = table[q]
  BY <1>1, <1>3, <1>4 DEF FramesInv, TablesOK
<1>6. \A q \in Pid, w \in VPages, f \in Frames : Maps(q, w, f)' <=> q # p /\ Maps(q, w, f)
  BY <1>1, <1>3, <1>4, <1>5 DEF Maps, NoJob
<1>7. FramesOK' /\ numPagesAllocated' = Cardinality(Used)' /\ PhysMap' \in [Frames -> CoreMap]
  BY <1>3, <1>6, FramesFreed
<1>8. ProcessesOK'
  BY <1>1, <1>3 DEF FramesInv, ProcessesOK
<1>9. QED
  BY <1>2, <1>3, <1>5, <1>7, <1>8 DEF FramesInv, MemoryOK

LEMMA LastExitFrames ==
    ASSUME FramesInv, NEW p \in Pid, LastExit(p)
    PROVE  FramesInv'
<1>1. p \in live /\ mode = "run" /\ mode' = "halted" /\ job = NoJob
  BY DEF LastExit, Trap, FramesInv, ProcessesOK
<1>2. replacement' \in Replacement
  BY <1>1, FetchFrames DEF LastExit
<1>3. UNCHANGED <<pageReplaceAlgo, pending, job, table, PhysMap, numPagesAllocated, mainMemory,
                  SwapTable, thread_index, live, retrying, written>>
  BY DEF LastExit, Trap
<1>4. \A q \in Pid, w \in VPages, f \in Frames : Maps(q, w, f)' <=> Maps(q, w, f)
  BY <1>1, <1>3 DEF Maps
<1>5. QED
  BY <1>1, <1>2, <1>3, <1>4, FramesKept DEF FramesInv, ProcessesOK, TablesOK, MemoryOK

-----------------------------------------------------------------------------
(* The theorems about the frames *)

LEMMA NoSharedMemory ==
    ASSUME Unshared, FramesInv
    PROVE  ~ShmPage /\ ~ShmDone /\ \A p \in Pid : ~BeginShm(p) /\ ~ExecMissing(p)
<1>1. mode # "shm"
  BY DEF FramesInv, ProcessesOK, Stops
<1>2. ASSUME NEW p \in Pid, BeginShm(p) PROVE FALSE
  <2>1. p \in live
    BY <1>2 DEF BeginShm, Trap
  <2>2. NumPages \in Nat \ {0}
    BY ConstantFacts
  <2>3. Cardinality(0 .. NumPages - 1) = NumPages
    BY <2>2, FS_Interval
  <2>4. Cardinality(DOMAIN table[p]) = NumPages
    BY <2>1, <2>3, LiveFacts DEF VPages
  <2>5. \E size \in Cardinality(DOMAIN table[p]) + 1 .. VMPages : TRUE
    BY <1>2 DEF BeginShm
  <2>6. QED
    BY <2>2, <2>4, <2>5 DEF Unshared
<1>3. ~ShmPage
  <2> SUFFICES ASSUME ShmPage PROVE FALSE
    OBVIOUS
  <2>1. mode = "shm"
    BY Zenon DEF ShmPage
  <2>2. QED
    BY <1>1, <2>1
<1>4. ~ShmDone
  BY <1>1 DEF ShmDone
<1>5. \A p \in Pid : ~ExecMissing(p)
  BY DEF ExecMissing, Unshared
<1>6. QED
  BY <1>2, <1>3, <1>4, <1>5

LEMMA FramesInit ==
    ASSUME Init
    PROVE  FramesInv
<1>1. ProcessesOK
  BY ConstantFacts, AlgorithmAssumption DEF Init, ProcessesOK
<1>2. TablesOK
  <2>1. /\ live = {0} /\ 0 \in Pid
        /\ table = [p \in Pid |-> IF p = 0 THEN FreshTable ELSE <<>>]
        /\ SwapTable = [p \in Pid |-> IF p = 0 THEN FreshSwap ELSE <<>>]
        /\ written = [p \in Pid |-> IF p = 0 THEN FreshProgram ELSE <<>>]
    BY ConstantFacts DEF Init, Pid
  <2>2. table \in [Pid -> PrivateTable \cup {<<>>}] /\ table[0] \in PrivateTable
    BY <2>1, FreshFacts
  <2>3. SwapTable \in [Pid -> Contents \cup {<<>>}] /\ SwapTable[0] \in Contents
    BY <2>1, FreshFacts
  <2>4. written \in [Pid -> Contents \cup {<<>>}] /\ written[0] \in Contents
    BY <2>1, FreshFacts
  <2>5. QED
    BY <2>1, <2>2, <2>3, <2>4 DEF TablesOK
<1>3. MemoryOK
  <2>1. <<>> \in Seq(Frames) /\ 0 \in Frames /\ Zero \in Content
    BY ConstantFacts DEF Content
  <2>2. QED
    BY <2>1 DEF Init, MemoryOK, CoreMap, Replacement, PidOrNone, None
<1>4. FramesOK
  <2> SUFFICES ASSUME NEW f \in Frames PROVE FrameOK(f)
    BY DEF FramesOK
  <2>1. PhysMap[f] = [IsEmpty |-> TRUE, processID |-> None, virtPage |-> None,
                      IsShared |-> FALSE]
    BY DEF Init
  <2>2. \A p \in Pid, v \in VPages : ~Maps(p, v, f)
    <3>1. live = {0} /\ table[0] = FreshTable /\ job = NoJob
      BY ConstantFacts DEF Init, Pid
    <3>2. QED
      BY <3>1, FreshFacts, ConstantFacts DEF Maps, NoJob
  <2>3. QED
    BY <2>1, <2>2 DEF FrameOK
<1>5. numPagesAllocated = Cardinality(Used)
  <2>1. Used = {}
    BY DEF Init, Used
  <2>2. QED
    BY <2>1, FS_EmptySet DEF Init
<1>6. QED
  BY <1>1, <1>2, <1>3, <1>4, <1>5 DEF FramesInv

LEMMA FramesStep ==
    ASSUME Unshared, FramesInv, [Next]_vars
    PROVE  FramesInv'
<1>1. CASE UNCHANGED vars
  <2>1. \A p \in Pid, v \in VPages, f \in Frames : Maps(p, v, f)' <=> Maps(p, v, f)
    BY <1>1 DEF vars, Maps
  <2>2. QED
    BY <1>1, <2>1, FramesKept DEF vars, FramesInv, ProcessesOK, ForkJob, TablesOK, MemoryOK
<1>2. CASE \E p \in Pid : Instruction(p) \/ BeginFork(p) \/ Exec(p) \/ Exit(p) \/ LastExit(p)
  BY <1>2, InstructionFrames, BeginForkFrames, ExecFrames, ExitFrames, LastExitFrames
<1>3. CASE ForkPage \/ ForkDone
  BY <1>3, ForkPageFrames, ForkDoneFrames
<1>4. QED
  BY <1>1, <1>2, <1>3, NoSharedMemory DEF Next, Terminated

LEMMA FramesInvImplies ==
    ASSUME FramesInv
    PROVE  OwnedFrames /\ CountsFrames
BY DEF FramesInv, FramesOK, FrameOK, OwnedFrames, CountsFrames, Used, VPages

LEMMA FramesInvCorrect ==
    ASSUME Unshared
    PROVE  Spec => []FramesInv
<1>1. Init => FramesInv
  BY FramesInit
<1>2. FramesInv /\ [Next]_vars => FramesInv'
  BY FramesStep
<1>3. QED
  BY <1>1, <1>2, PTL DEF Spec

\* A frame belongs to the page that its entry of the core map names, and to no
\* other, through every fault, replacement, Fork, Exec and Exit, in every order.
THEOREM OwnedCorrect ==
    ASSUME Unshared
    PROVE  Spec => []OwnedFrames
<1>1. FramesInv => OwnedFrames
  BY FramesInvImplies
<1>2. QED
  BY <1>1, FramesInvCorrect, PTL

\* numPagesAllocated counts the frames in use.
THEOREM CountCorrect ==
    ASSUME Unshared
    PROVE  Spec => []CountsFrames
<1>1. FramesInv => CountsFrames
  BY FramesInvImplies
<1>2. QED
  BY <1>1, FramesInvCorrect, PTL

-----------------------------------------------------------------------------
(* Backups *)

\* A page with entry e whose process last left x in it: memory holds m, and the
\* backup of the page s.
Safe(e, x, m, s) ==
    /\ e.physicalPage # None /\ e.dirty => m[e.physicalPage] = x
    /\ e.physicalPage = None /\ e.swapped => s = x

\* The page table that a Fork builds is as safe as the parent's, in terms of what
\* the parent wrote; a page that is not copied stays out of memory.
JobSafe ==
    job # NoJob =>
      \A v \in VPages : v + 1 \in DOMAIN job.pages =>
        LET e == job.pages[v + 1]  p == job.proc IN
        /\ Safe(e, written[p][v], mainMemory, SwapTable[p][v])
        /\ e.physicalPage = None => table[p][v].physicalPage = None

\* The inductive strengthening of DirtyIntact.
BackupInv ==
    /\ \A p \in live, v \in VPages :
         Safe(table[p][v], written[p][v], mainMemory, SwapTable[p][v])
    /\ JobSafe

LEMMA BackupKept ==
    ASSUME BackupInv, UNCHANGED <<table, SwapTable, mainMemory, live, written, job>>
    PROVE  BackupInv'
BY DEF BackupInv, JobSafe

\* No frame PagetoEvict finds costs a page its contents.
LEMMA FoundSafe ==
    ASSUME FramesInv, BackupInv, NEW o, FoundOK(o), NEW m,
           \A f \in Frames : f # o.frame => m[f] = mainMemory[f],
           NEW q \in live, NEW w \in VPages
    PROVE  Safe(o.table[q][w], written[q][w], m, o.swap[q][w])
<1> DEFINE e == table[q][w]
<1>1. /\ e \in PrivateEntry /\ (e.physicalPage # None => e.physicalPage \in Frames)
      /\ o.frame # None
  BY LiveFacts, ConstantFacts DEF Valid, FoundOK
<1>2. Safe(e, written[q][w], mainMemory, SwapTable[q][w])
  BY DEF BackupInv
<1>3. /\ o.table[q][w] = IF e.physicalPage = o.frame THEN Invalidated(e) ELSE e
      /\ o.swap[q][w] = IF e.physicalPage = o.frame /\ e.dirty THEN mainMemory[o.frame]
                        ELSE SwapTable[q][w]
  BY DEF FoundOK
<1> HIDE DEF e
<1>4. /\ Invalidated(e).physicalPage = None /\ Invalidated(e).dirty = e.dirty
      /\ Invalidated(e).swapped = e.dirty
  BY <1>1, InvalidatedEntry
<1>5. CASE e.physicalPage = o.frame
  BY <1>1, <1>2, <1>3, <1>4, <1>5 DEF Safe
<1>6. CASE e.physicalPage # o.frame
  BY <1>1, <1>2, <1>3, <1>6 DEF Safe
<1>7. QED
  BY <1>5, <1>6

LEMMA TakenMemory ==
    ASSUME FramesInv, NEW o, FoundOK(o), NEW p, NEW v, NEW s, NEW content,
           Take(o, p, v, s, content)
    PROVE  /\ mainMemory'[o.frame] = content
           /\ \A f \in Frames : f # o.frame => mainMemory'[f] = mainMemory[f]
           /\ SwapTable' = o.swap
BY DEF Take, FoundOK, FramesInv, MemoryOK

LEMMA LoadPageSafe ==
    ASSUME FramesInv, BackupInv, NEW p \in live, NEW v \in VPages, NEW r \in Replacement,
           mode = "run", ~Valid(p, v), LoadPage(p, v, r),
           UNCHANGED <<job, live, written>>
    PROVE  BackupInv'
<1>1. job = NoJob
  BY DEF FramesInv, ProcessesOK
<1>2. CASE ~fileName[p].spelled
  BY <1>2, BackupKept DEF LoadPage
<1>3. CASE fileName[p].spelled
  <2>1. PICK o \in PagetoEvict(None, r) :
          IF o.stop # "none"
          THEN mode' = o.stop /\ UNCHANGED memoryVars
          ELSE /\ Take(o, p, v, FALSE, Loaded(o, p, v))
               /\ table' = [o.table EXCEPT ![p][v] = Entered(o.frame)]
               /\ UNCHANGED mode
    BY <1>3 DEF LoadPage, Entered
  <2>2. CASE o.stop # "none"
    BY <2>1, <2>2, BackupKept DEF memoryVars
  <2>3. CASE o.stop = "none"
    <3>1. FoundOK(o)
      BY <2>3, FrameFound DEF FrameOrNone
    <3>2. Take(o, p, v, FALSE, Loaded(o, p, v))
          /\ table' = [o.table EXCEPT ![p][v] = Entered(o.frame)]
      BY <2>1, <2>3
    <3>3. \A q \in live, w \in VPages :
            table'[q][w] = IF q = p /\ w = v THEN Entered(o.frame)
                           ELSE IF table[q][w].physicalPage = o.frame
                           THEN Invalidated(table[q][w]) ELSE table[q][w]
      BY <3>1, <3>2, LoadedTable
    <3>4. /\ \A f \in Frames : f # o.frame => mainMemory'[f] = mainMemory[f]
          /\ SwapTable' = o.swap
      BY <3>1, <3>2, TakenMemory
    <3>5. ASSUME NEW q \in live, NEW w \in VPages
          PROVE  Safe(table'[q][w], written[q][w], mainMemory', SwapTable'[q][w])
      <4>1. CASE q = p /\ w = v
        <5>1. o.frame \in Frames /\ o.frame # None
          BY <3>1, ConstantFacts DEF FoundOK
        <5>2. table'[q][w] = Entered(o.frame)
          BY <3>3, <4>1
        <5>3. QED
          BY <5>1, <5>2, EnteredEntry DEF Safe
      <4>2. CASE ~(q = p /\ w = v)
        <5>1. table'[q][w] = o.table[q][w]
          BY <3>1, <3>3, <4>2 DEF FoundOK
        <5>2. QED
          BY <3>1, <3>4, <5>1, FoundSafe
      <4>3. QED
        BY <4>1, <4>2
    <3>6. QED
      BY <1>1, <3>5 DEF BackupInv, JobSafe
  <2>4. QED
    BY <2>2, <2>3
<1>4. QED
  BY <1>2, <1>3

LEMMA InstructionSafe ==
    ASSUME Unshared, FramesInv, BackupInv, NEW p \in Pid, Instruction(p)
    PROVE  BackupInv'
<1>1. mode = "run" /\ p \in live /\ job = NoJob /\ (Faults(p) \/ Completes(p))
  BY InstructionOutcome DEF FramesInv, ProcessesOK
<1>2. CASE Faults(p)
  <2>1. PICK v \in VPages, r \in Replacement, i \in Restarted :
          ~Valid(p, v) /\ PageFault(p, i, v, r)
    BY <1>2 DEF Faults
  <2>2. QED
    BY <1>1, <2>1, LoadPageSafe DEF PageFault
<1>3. CASE Completes(p)
  <2>1. UNCHANGED <<job, live, SwapTable>>
    BY <1>3 DEF Completes
  <2>2. CASE UNCHANGED <<table, mainMemory, written>>
    BY <2>1, <2>2, BackupKept
  <2>3. ASSUME NEW v \in VPages, Valid(p, v), WrittenPage(p, v)
        PROVE  BackupInv'
    <3> DEFINE frame == table[p][v].physicalPage
    <3>1. AfterWrite(p, v)
      BY <1>1, <2>1, <2>3, WrittenTables
    <3>2. frame \in Frames
      BY <1>1, <2>3, LiveFacts
    <3>3. ASSUME NEW q \in live, NEW w \in VPages
          PROVE  Safe(table'[q][w], written'[q][w], mainMemory', SwapTable'[q][w])
      <4>1. table[q][w] \in PrivateEntry
            /\ (table[q][w].physicalPage # None => table[q][w].physicalPage \in Frames)
        BY LiveFacts DEF Valid
      <4>2. CASE q = p /\ w = v
        <5>1. /\ table'[q][w] = [table[q][w] EXCEPT !.dirty = TRUE]
              /\ written'[q][w] = <<p, v>> /\ mainMemory'[frame] = <<p, v>>
          BY <3>1, <3>2, <4>2 DEF AfterWrite
        <5>2. \A e \in PrivateEntry : [e EXCEPT !.dirty = TRUE].physicalPage = e.physicalPage
          BY DEF PrivateEntry, Entry
        <5>3. table'[q][w].physicalPage = frame /\ frame # None
          BY <3>2, <4>1, <4>2, <5>1, <5>2, ConstantFacts
        <5>4. QED
          BY <5>1, <5>3 DEF Safe
      <4>3. CASE ~(q = p /\ w = v)
        <5>1. table'[q][w] = table[q][w] /\ written'[q][w] = written[q][w]
          BY <3>1, <4>3 DEF AfterWrite
        <5>2. table[q][w].physicalPage # frame
          BY <1>1, <3>2, <4>3, Mapped
        <5>3. table[q][w].physicalPage # None
                => mainMemory'[table[q][w].physicalPage] = mainMemory[table[q][w].physicalPage]
          BY <3>1, <4>1, <5>2 DEF AfterWrite
        <5>4. Safe(table[q][w], written[q][w], mainMemory, SwapTable[q][w])
          BY DEF BackupInv
        <5>5. QED
          BY <2>1, <5>1, <5>3, <5>4 DEF Safe
      <4>4. QED
        BY <4>2, <4>3
    <3>4. QED
      BY <1>1, <2>1, <3>3 DEF BackupInv, JobSafe
  <2>4. QED
    BY <1>3, <2>2, <2>3 DEF Completes
<1>4. QED
  BY <1>1, <1>2, <1>3

LEMMA CopyPageSafe ==
    ASSUME FramesInv, BackupInv, mode = "fork", NextPage < job.size,
           Valid(job.proc, NextPage), CopyPage(job.proc, NextPage),
           UNCHANGED pageReplaceAlgo
    PROVE  BackupInv'
<1> DEFINE p == job.proc
           i == NextPage
           from == table[p][i].physicalPage
<1>1. ForkJob /\ p \in live /\ job # NoJob
  BY ConstantFacts, LiveFacts DEF FramesInv, ProcessesOK, ForkJob, NoJob
<1>2. i \in VPages
  BY <1>1, ConstantFacts DEF ForkJob, NextPage, VPages
<1>3. from \in Frames /\ replacement \in Replacement
  BY <1>1, <1>2, LiveFacts DEF FramesInv, MemoryOK
<1>4. PICK o \in PagetoEvict(from, replacement) :
        IF o.stop # "none" THEN Stop(o.stop)
        ELSE /\ Take(o, job.child, i, FALSE, mainMemory[from])
             /\ table' = o.table
             /\ AddPage([o.table[p][i] EXCEPT !.physicalPage = o.frame])
             /\ UNCHANGED <<mode, processVars>>
  BY DEF CopyPage
<1>5. CASE o.stop # "none"
  <2>1. Stop(o.stop)
    BY <1>4, <1>5
  <2>2. QED
    BY <2>1, BackupKept DEF Stop, memoryVars, processVars
<1>6. CASE o.stop = "none"
  <2> DEFINE e == [o.table[p][i] EXCEPT !.physicalPage = o.frame]
  <2>1. FoundOK(o) /\ o.frame \in Frames
    <3>1. FoundOK(o)
      BY <1>3, <1>6, FrameFound DEF FrameOrNone
    <3>2. QED
      BY <3>1 DEF FoundOK
  <2>2. /\ Take(o, job.child, i, FALSE, mainMemory[from]) /\ table' = o.table
        /\ AddPage(e) /\ UNCHANGED <<mode, processVars>>
    BY <1>4, <1>6
  <2>3. /\ mainMemory'[o.frame] = mainMemory[from]
        /\ \A f \in Frames : f # o.frame => mainMemory'[f] = mainMemory[f]
        /\ SwapTable' = o.swap /\ UNCHANGED <<live, written>>
    <3> DEFINE content == mainMemory[from]
               child == job.child
    <3>1. Take(o, child, i, FALSE, content)
      BY <2>2
    <3>2. UNCHANGED <<live, written>>
      BY <2>2 DEF processVars
    <3> HIDE DEF content, child
    <3>3. /\ mainMemory'[o.frame] = content
          /\ \A f \in Frames : f # o.frame => mainMemory'[f] = mainMemory[f]
          /\ SwapTable' = o.swap
      BY <2>1, <3>1, TakenMemory
    <3>4. QED
      BY <3>2, <3>3 DEF content
  <2>4. table[p][i] \in PrivateEntry /\ o.table[p][i] \in PrivateEntry
    BY <1>1, <1>2, <2>1, LiveFacts DEF FoundOK, PrivateTable
  <2>5. e.physicalPage = o.frame /\ e.dirty = table[p][i].dirty
    <3>1. o.table[p][i].dirty = table[p][i].dirty
      BY <1>1, <1>2, <2>1, <2>4, InvalidatedEntry DEF FoundOK
    <3>2. o.frame \in FrameOrNone
      BY <2>1 DEF FrameOrNone
    <3>3. QED
      BY <2>4, <3>1, <3>2, PrivateEntryPage
  <2>6. table[p][i].dirty => mainMemory[from] = written[p][i]
    <3>1. Safe(table[p][i], written[p][i], mainMemory, SwapTable[p][i])
      BY <1>1, <1>2 DEF BackupInv
    <3>2. QED
      BY <1>3, <3>1, ConstantFacts DEF Safe
  <2>7. p = job.proc /\ e \in PrivateEntry /\ i = NextPage
    BY <2>1, <2>4, PrivateEntryPage DEF FrameOrNone
  <2> HIDE DEF p, i, from, e
  <2>8. /\ job'.proc = p /\ DOMAIN job'.pages = 1 .. i + 1 /\ DOMAIN job.pages = 1 .. i
        /\ \A k \in 1 .. i + 1 : job'.pages[k] = IF k = i + 1 THEN e ELSE job.pages[k]
    BY <1>1, <2>2, <2>7, PageAdded
  <2>9. \A q \in live, w \in VPages :
          Safe(table'[q][w], written'[q][w], mainMemory', SwapTable'[q][w])
    BY <2>1, <2>2, <2>3, FoundSafe
  <2>10. ASSUME NEW w \in VPages, w + 1 \in DOMAIN job'.pages
         PROVE  /\ Safe(job'.pages[w + 1], written'[p][w], mainMemory', SwapTable'[p][w])
                /\ job'.pages[w + 1].physicalPage = None => table'[p][w].physicalPage = None
    <3>1. w \in Nat /\ i \in Nat /\ o.frame # None
      BY <1>2, <2>1, ConstantFacts DEF VPages
    <3>2. CASE w = i
      <4>1. job'.pages[w + 1] = e
        BY <2>8, <3>1, <3>2
      <4>2. QED
        BY <2>3, <2>5, <2>6, <3>1, <3>2, <4>1 DEF Safe
    <3>3. CASE w # i
      <4> DEFINE x == job.pages[w + 1]
      <4>1. w + 1 \in DOMAIN job.pages /\ job'.pages[w + 1] = x
        BY <2>8, <2>10, <3>1, <3>3
      <4>2. /\ Safe(x, written[p][w], mainMemory, SwapTable[p][w])
            /\ x.physicalPage = None => table[p][w].physicalPage = None
        BY <1>1, <2>7, <4>1 DEF BackupInv, JobSafe
      <4>3. x.physicalPage # o.frame /\ (x.physicalPage # None => x.physicalPage \in Frames)
        <5>1. x \in PrivateEntry
          BY <1>1, <4>1 DEF ForkJob
        <5>2. QED
          BY <2>1, <4>1, <5>1 DEF FoundOK, PrivateEntry, Entry, FrameOrNone
      <4> HIDE DEF x
      <4>4. CASE x.physicalPage # None
        BY <2>3, <4>1, <4>2, <4>3, <4>4 DEF Safe
      <4>5. CASE x.physicalPage = None
        <5>1. table'[p][w].physicalPage = None /\ SwapTable'[p][w] = SwapTable[p][w]
          BY <1>1, <2>1, <2>2, <2>3, <3>1, <4>2, <4>5 DEF FoundOK
        <5>2. QED
          BY <2>3, <4>1, <4>2, <4>5, <5>1 DEF Safe
      <4>6. QED
        BY <4>4, <4>5
    <3>4. QED
      BY <3>2, <3>3
  <2>11. JobSafe'
    BY <2>8, <2>10 DEF JobSafe
  <2>12. QED
    BY <2>3, <2>9, <2>11 DEF BackupInv
<1>7. QED
  BY <1>5, <1>6


LEMMA ForkPageSafe ==
    ASSUME FramesInv, BackupInv, ForkPage
    PROVE  BackupInv'
<1> DEFINE p == job.proc
           i == NextPage
           e == table[p][i]
<1>1. ForkJob /\ mode = "fork" /\ i < job.size /\ UNCHANGED pageReplaceAlgo /\ job # NoJob
  BY ConstantFacts, LiveFacts DEF ForkPage, FramesInv, ProcessesOK, ForkJob, NoJob
<1>2. i \in VPages /\ p \in live
  BY <1>1, ConstantFacts DEF ForkJob, NextPage, VPages
<1>3. e \in PrivateEntry /\ ~e.shared
  BY <1>2, LiveFacts DEF PrivateEntry
<1>4. CASE Valid(p, i)
  <2>1. CopyPage(p, i)
    BY <1>3, <1>4 DEF ForkPage
  <2>2. QED
    BY <1>1, <1>4, <2>1, CopyPageSafe
<1>5. CASE ~Valid(p, i)
  <2>1. AddPage(e) /\ UNCHANGED <<mode, memoryVars, processVars>>
    BY <1>3, <1>5 DEF ForkPage
  <2>2. e.physicalPage = None /\ Safe(e, written[p][i], mainMemory, SwapTable[p][i])
    BY <1>2, <1>5 DEF Valid, BackupInv
  <2>3. UNCHANGED <<table, SwapTable, mainMemory, live, written>>
    BY <2>1 DEF memoryVars, processVars
  <2>4. p = job.proc /\ i = NextPage /\ e = table[p][i]
    OBVIOUS
  <2> HIDE DEF p, i, e
  <2>5. /\ job'.proc = p /\ DOMAIN job'.pages = 1 .. i + 1 /\ DOMAIN job.pages = 1 .. i
        /\ \A k \in 1 .. i + 1 : job'.pages[k] = IF k = i + 1 THEN e ELSE job.pages[k]
    BY <1>1, <1>3, <2>1, <2>4, PageAdded
  <2>6. ASSUME NEW w \in VPages, w + 1 \in DOMAIN job'.pages
        PROVE  /\ Safe(job'.pages[w + 1], written[p][w], mainMemory, SwapTable[p][w])
               /\ job'.pages[w + 1].physicalPage = None => table[p][w].physicalPage = None
    <3>1. w \in Nat /\ i \in Nat
      BY <1>2, ConstantFacts DEF VPages
    <3>2. CASE w = i
      BY <2>2, <2>4, <2>5, <3>1, <3>2
    <3>3. CASE w # i
      <4>1. w + 1 \in DOMAIN job.pages /\ job'.pages[w + 1] = job.pages[w + 1]
        BY <2>5, <2>6, <3>1, <3>3
      <4>2. QED
        BY <1>1, <2>4, <4>1 DEF BackupInv, JobSafe
    <3>4. QED
      BY <3>2, <3>3
  <2>7. JobSafe'
    BY <2>3, <2>5, <2>6 DEF JobSafe
  <2>8. QED
    BY <2>3, <2>7 DEF BackupInv
<1>6. QED
  BY <1>4, <1>5

\* The child starts with the parent's pages, its backup and what it had written.
LEMMA ForkDoneSafe ==
    ASSUME FramesInv, BackupInv, ForkDone
    PROVE  BackupInv'
<1> DEFINE c == job.child
           p == job.proc
           t == [v \in 0 .. job.size - 1 |-> job.pages[v + 1]]
           s == [v \in 0 .. job.size - 1 |-> IF v \in DOMAIN SwapTable[p]
                                             THEN SwapTable[p][v] ELSE Zero]
<1>1. /\ ForkJob /\ job # NoJob /\ job' = NoJob /\ Len(job.pages) = NumPages
      /\ c \in Pid /\ c \notin live /\ p \in live
      /\ job.size = NumPages /\ job.pages \in Seq(PrivateEntry)
  BY ConstantFacts, LiveFacts
     DEF ForkDone, FramesInv, ProcessesOK, ForkJob, NextPage, NoJob
<1>2. /\ live' = live \cup {c}
      /\ table' = [table EXCEPT ![c] = t]
      /\ SwapTable' = [SwapTable EXCEPT ![c] = s]
      /\ written' = [written EXCEPT ![c] = written[p]]
      /\ mainMemory' = mainMemory
  BY DEF ForkDone
<1>3. \A v \in VPages : t[v] = job.pages[v + 1] /\ s[v] = SwapTable[p][v]
                        /\ v + 1 \in DOMAIN job.pages
  BY <1>1, LiveFacts, ConstantFacts DEF VPages
<1>4. \A v \in VPages : Safe(t[v], written[p][v], mainMemory, s[v])
  BY <1>1, <1>3 DEF BackupInv, JobSafe
<1>5. table'[c] = t /\ SwapTable'[c] = s /\ written'[c] = written[p]
  BY <1>1, <1>2 DEF FramesInv, TablesOK
<1>6. \A q \in live : table'[q] = table[q] /\ SwapTable'[q] = SwapTable[q]
                      /\ written'[q] = written[q]
  BY <1>1, <1>2, LiveFacts DEF FramesInv, TablesOK
<1> HIDE DEF t, s, c, p
<1>7. \A q \in live', v \in VPages :
        Safe(table'[q][v], written'[q][v], mainMemory', SwapTable'[q][v])
  BY <1>2, <1>4, <1>5, <1>6 DEF BackupInv
<1>8. QED
  BY <1>1, <1>7 DEF BackupInv, JobSafe

LEMMA BeginForkSafe ==
    ASSUME FramesInv, BackupInv, NEW p \in Pid, BeginFork(p)
    PROVE  BackupInv'
<1>1. UNCHANGED <<table, SwapTable, mainMemory, live, written>> /\ DOMAIN job'.pages = {}
  BY DEF BeginFork
<1>2. \A v \in VPages : v + 1 \notin DOMAIN job'.pages
  BY <1>1
<1>3. JobSafe'
  BY <1>2 DEF JobSafe
<1>4. QED
  BY <1>1, <1>3 DEF BackupInv

LEMMA ExecSafe ==
    ASSUME FramesInv, BackupInv, NEW p \in Pid, Exec(p)
    PROVE  BackupInv'
<1>1. p \in live /\ job = NoJob
  BY DEF Exec, Trap, FramesInv, ProcessesOK
<1>2. /\ table' = [table EXCEPT ![p] = FreshTable]
      /\ SwapTable' = [SwapTable EXCEPT ![p] = FreshSwap]
      /\ written' = [written EXCEPT ![p] = FreshProgram]
      /\ UNCHANGED <<job, live, mainMemory>>
  BY DEF Exec
<1>3. \A q \in live : q # p => table'[q] = table[q] /\ SwapTable'[q] = SwapTable[q]
                               /\ written'[q] = written[q]
  BY <1>2, LiveFacts DEF FramesInv, TablesOK
<1>4. table'[p] = FreshTable
  BY <1>1, <1>2, LiveFacts DEF FramesInv, TablesOK
<1>5. \A v \in VPages : Safe(table'[p][v], written'[p][v], mainMemory', SwapTable'[p][v])
  BY <1>4, FreshFacts DEF Safe
<1>6. \A q \in live', v \in VPages :
        Safe(table'[q][v], written'[q][v], mainMemory', SwapTable'[q][v])
  BY <1>2, <1>3, <1>5 DEF BackupInv
<1>7. QED
  BY <1>1, <1>2, <1>6 DEF BackupInv, JobSafe

LEMMA ExitSafe ==
    ASSUME FramesInv, BackupInv, NEW p \in Pid, Exit(p)
    PROVE  BackupInv'
<1>1. p \in live /\ job = NoJob
  BY DEF Exit, Trap, FramesInv, ProcessesOK
<1>2. /\ live' = live \ {p}
      /\ table' = [table EXCEPT ![p] = <<>>]
      /\ SwapTable' = [SwapTable EXCEPT ![p] = <<>>]
      /\ written' = [written EXCEPT ![p] = <<>>]
      /\ UNCHANGED <<job, mainMemory>>
  BY DEF Exit
<1>3. \A q \in live' : q \in live /\ table'[q] = table[q] /\ SwapTable'[q] = SwapTable[q]
                       /\ written'[q] = written[q]
  BY <1>2, LiveFacts DEF FramesInv, TablesOK
<1>4. QED
  BY <1>1, <1>2, <1>3 DEF BackupInv, JobSafe

LEMMA BackupInit ==
    ASSUME Init
    PROVE  BackupInv
<1>1. live = {0} /\ table[0] = FreshTable /\ job = NoJob
  BY ConstantFacts DEF Init, Pid
<1>2. QED
  BY <1>1, FreshFacts DEF BackupInv, JobSafe, Safe

LEMMA BackupStep ==
    ASSUME Unshared, FramesInv, BackupInv, [Next]_vars
    PROVE  BackupInv'
<1>1. CASE UNCHANGED vars
  BY <1>1, BackupKept DEF vars
<1>2. ASSUME NEW p \in Pid, LastExit(p) PROVE BackupInv'
  BY <1>2, BackupKept DEF LastExit
<1>3. CASE \E p \in Pid : Instruction(p) \/ BeginFork(p) \/ Exec(p) \/ Exit(p) \/ LastExit(p)
  BY <1>2, <1>3, InstructionSafe, BeginForkSafe, ExecSafe, ExitSafe
<1>4. CASE ForkPage \/ ForkDone
  BY <1>4, ForkPageSafe, ForkDoneSafe
<1>5. QED
  BY <1>1, <1>3, <1>4, NoSharedMemory DEF Next, Terminated

LEMMA BackupImplies ==
    ASSUME FramesInv, BackupInv
    PROVE  DirtyIntact
BY LiveFacts DEF BackupInv, Safe, DirtyIntact

\* What a process last wrote to a page is not lost by any replacement or Fork.
THEOREM BackupCorrect ==
    ASSUME Unshared
    PROVE  Spec => []DirtyIntact
<1>1. Init => BackupInv
  BY BackupInit
<1>2. FramesInv /\ BackupInv /\ [Next]_vars => BackupInv'
  BY BackupStep
<1>3. Spec => []FramesInv
  BY FramesInvCorrect
<1>4. FramesInv /\ BackupInv => DirtyIntact
  BY BackupImplies
<1>5. QED
  BY <1>1, <1>2, <1>3, <1>4, PTL DEF Spec

-----------------------------------------------------------------------------
(* The types, with shared pages and missing files *)

\* Page tables and backups have as many pages as the process.
IsTable(t) == \E n \in NumPages .. VMPages : t \in [0 .. n - 1 -> Entry]
IsBackup(t) == \E n \in NumPages .. VMPages : t \in [0 .. n - 1 -> Content]

\* What is said to be in the backup has a place there.
PagesOK(t, s) ==
    /\ IsTable(t) /\ IsBackup(s) /\ DOMAIN s \subseteq DOMAIN t
    /\ \A v \in DOMAIN t : t[v].swapped => v \in DOMAIN s

\* The constructor in progress: of a child that is not live yet, or of the process
\* that allocates shared memory
AnyJob ==
    /\ job = [proc |-> job.proc, child |-> job.child, size |-> job.size, pages |-> job.pages]
    /\ job.proc \in live /\ job.size \in NumPages .. VMPages
    /\ job.pages \in Seq(Entry) /\ Len(job.pages) <= job.size
    /\ \/ /\ job.child \in Pid \ live /\ job.child < thread_index
          /\ DOMAIN table[job.proc] = 0 .. job.size - 1
       \/ /\ job.child = None /\ DOMAIN table[job.proc] \subseteq 0 .. job.size - 1
          /\ \A k \in DOMAIN job.pages : ~job.pages[k].swapped

\* An instruction waits to be restarted in a live process only.
AnyPending ==
    /\ pending \in [Pid -> Instructions \cup {NoInstruction}]
    /\ \A p \in Pid : pending[p] # NoInstruction =>
          /\ p \in live /\ pending[p].data \in DOMAIN table[p] \cup {None}
          /\ pending[p].write => pending[p].data # None

AnyProcesses ==
    /\ pageReplaceAlgo \in Algorithms
    /\ mode \in {"run", "fork", "shm", "halted"} \cup Stops
    /\ job = NoJob \/ AnyJob
    /\ mode = "run" => job = NoJob
    /\ mode = "fork" => job.child \in Pid
    /\ mode = "shm" => job.proc \in live /\ job.child = None
    /\ thread_index \in 1 .. MAX_THREAD_COUNT /\ live \subseteq 0 .. thread_index - 1
    /\ fileName \in [Pid -> [length : NameLengths, spelled : BOOLEAN]]
    /\ retrying \subseteq live

TablesOf(p) ==
    /\ PagesOK(table[p], SwapTable[p])
    /\ IsBackup(written[p]) /\ DOMAIN written[p] = DOMAIN table[p]

AnyTables ==
    /\ DOMAIN table = Pid /\ DOMAIN SwapTable = Pid /\ DOMAIN written = Pid
    /\ \A p \in live : TablesOf(p)

\* A frame that is not in use has no process: it is not released twice.  A frame
\* of a shared page may be given out again, and is then counted again.
AnyCount ==
    /\ \A f \in Frames : PhysMap[f].IsEmpty => PhysMap[f].processID = None
    /\ Cardinality(Used) <= numPagesAllocated /\ numPagesAllocated \in 0 .. NumPhysPages

\* The inductive strengthening of TypeOK.
AnyInv == AnyProcesses /\ AnyPending /\ AnyTables /\ MemoryOK /\ AnyCount

LEMMA AnyConstants ==
    /\ NumPages \in Nat \ {0} /\ VMPages \in Nat /\ NumPages <= VMPages
    /\ FilePages \in 1 .. NumPages /\ NumPhysPages \in Nat \ {0}
    /\ MAX_THREAD_COUNT \in Nat \ {0}
    /\ None \notin Frames /\ None \notin Pid /\ None \notin Nat
    /\ Pid \subseteq Nat
<1>1. None = -1
  BY DEF None
<1>2. QED
  BY <1>1, CountAssumption DEF Frames, Pid

\* A change of one entry
LEMMA TableChanged ==
    ASSUME NEW t, IsTable(t), NEW v \in DOMAIN t, NEW e \in Entry
    PROVE  /\ IsTable([t EXCEPT ![v] = e])
           /\ DOMAIN [t EXCEPT ![v] = e] = DOMAIN t
           /\ \A w \in DOMAIN t : [t EXCEPT ![v] = e][w] = IF w = v THEN e ELSE t[w]
<1>1. PICK n \in NumPages .. VMPages : t \in [0 .. n - 1 -> Entry]
  BY DEF IsTable
<1>2. [t EXCEPT ![v] = e] \in [0 .. n - 1 -> Entry]
  BY <1>1
<1> QED
  BY <1>1, <1>2 DEF IsTable

LEMMA BackupChanged ==
    ASSUME NEW t, IsBackup(t), NEW v \in DOMAIN t, NEW c \in Content
    PROVE  /\ IsBackup([t EXCEPT ![v] = c])
           /\ DOMAIN [t EXCEPT ![v] = c] = DOMAIN t
<1>1. PICK n \in NumPages .. VMPages : t \in [0 .. n - 1 -> Content]
  BY DEF IsBackup
<1>2. [t EXCEPT ![v] = c] \in [0 .. n - 1 -> Content]
  BY <1>1
<1> QED
  BY <1>1, <1>2 DEF IsBackup

\* The pages of a process are 0 .. n - 1, those of its executable among them.
LEMMA TablePages ==
    ASSUME NEW t, IsTable(t)
    PROVE  /\ \E n \in NumPages .. VMPages :
                n \in Nat /\ DOMAIN t = 0 .. n - 1 /\ Cardinality(DOMAIN t) = n
           /\ \A v \in DOMAIN t : t[v] \in Entry /\ v \in 0 .. VMPages - 1 /\ v \in Nat
           /\ 0 .. FilePages - 1 \subseteq DOMAIN t
<1>1. PICK n \in NumPages .. VMPages : t \in [0 .. n - 1 -> Entry]
  BY DEF IsTable
<1>2. n \in Nat \ {0} /\ n <= VMPages /\ NumPages <= n
  BY <1>1, AnyConstants
<1> DEFINE last == n - 1
<1>3. last \in Int /\ 0 \in Int /\ last - 0 + 1 = n /\ ~(0 > last)
  BY <1>2
<1>4. DOMAIN t = 0 .. last
  BY <1>1
<1> HIDE DEF last
<1>5. Cardinality(0 .. last) = IF 0 > last THEN 0 ELSE last - 0 + 1
  BY <1>3, FS_Interval, Zenon
<1>6. Cardinality(DOMAIN t) = n
  BY <1>3, <1>4, <1>5
<1>7. \A v \in DOMAIN t : t[v] \in Entry
  BY <1>1
<1>8. \A v \in DOMAIN t : v \in Nat /\ v \in 0 .. VMPages - 1
  BY <1>2, <1>4, AnyConstants DEF last
<1>9. 0 .. FilePages - 1 \subseteq DOMAIN t
  BY <1>2, <1>4, AnyConstants DEF last
<1> QED
  BY <1>1, <1>2, <1>4, <1>6, <1>7, <1>8, <1>9 DEF last

LEMMA BackupPages ==
    ASSUME NEW t, IsBackup(t)
    PROVE  /\ \A v \in DOMAIN t : t[v] \in Content
           /\ \E n \in NumPages .. VMPages : DOMAIN t = 0 .. n - 1
BY DEF IsBackup

\* What a new process, or one that executes a file, starts with
LEMMA FreshTables ==
    /\ PagesOK(FreshTable, FreshSwap) /\ IsBackup(FreshProgram)
    /\ DOMAIN FreshTable = VPages /\ DOMAIN FreshSwap = VPages
    /\ DOMAIN FreshProgram = VPages
    /\ FreshEntry \in Entry /\ \A v \in VPages : FreshTable[v] = FreshEntry
<1>1. FreshEntry \in Entry
  BY DEF FreshEntry, Entry, FrameOrNone
<1>2. Zero \in Content /\ Image \in Content
  BY DEF Content
<1>3. NumPages \in NumPages .. VMPages
  BY AnyConstants
<1>4. FreshTable \in [0 .. NumPages - 1 -> Entry]
  BY <1>1 DEF FreshTable
<1>5. FreshSwap \in [0 .. NumPages - 1 -> Content]
      /\ FreshProgram \in [0 .. NumPages - 1 -> Content]
  BY <1>2 DEF FreshSwap, FreshProgram
<1> QED
  BY <1>1, <1>3, <1>4, <1>5 DEF PagesOK, IsTable, IsBackup, VPages, FreshTable,
                                FreshEntry

-----------------------------------------------------------------------------
(* PagetoEvict, with shared pages *)

\* What a call yields keeps the pages of every process, and the frame is counted.
FoundAny(o) ==
    /\ o.frame \in Frames /\ o.replacement \in Replacement
    /\ o.count \in 0 .. NumPhysPages /\ Cardinality(Used \cup {o.frame}) <= o.count
    /\ DOMAIN o.table = Pid /\ DOMAIN o.swap = Pid
    /\ \A p \in live : /\ PagesOK(o.table[p], o.swap[p])
                       /\ DOMAIN o.table[p] = DOMAIN table[p]
                       /\ DOMAIN o.swap[p] = DOMAIN SwapTable[p]

LEMMA UsedAny ==
    /\ IsFiniteSet(Used) /\ Used \in SUBSET Frames /\ Cardinality(Used) \in Nat
    /\ \A f \in Frames : /\ Cardinality(Used \cup {f}) <= NumPhysPages
                         /\ Cardinality(Used \cup {f}) <= Cardinality(Used) + 1
                         /\ Cardinality(Used \cup {f}) \in Nat
<1>1. Used \in SUBSET Frames
  BY DEF Used
<1>2. IsFiniteSet(Used)
  BY <1>1, ConstantFacts, FS_Subset
<1>3. Cardinality(Used) \in Nat
  BY <1>2, FS_CardinalityType
<1>4. ASSUME NEW f \in Frames
      PROVE  /\ Cardinality(Used \cup {f}) <= NumPhysPages
             /\ Cardinality(Used \cup {f}) <= Cardinality(Used) + 1
             /\ Cardinality(Used \cup {f}) \in Nat
  <2> DEFINE U == Used \cup {f}
  <2>1. U \in SUBSET Frames
    BY <1>1, <1>4
  <2>2. Cardinality(U) = IF f \in Used THEN Cardinality(Used) ELSE Cardinality(Used) + 1
    BY <1>2, FS_AddElement
  <2> HIDE DEF U
  <2>3. Cardinality(U) <= NumPhysPages
    <3>1. IsFiniteSet(Frames) /\ Cardinality(Frames) = NumPhysPages
      BY ConstantFacts
    <3>2. Cardinality(U) <= Cardinality(Frames)
      BY <2>1, <3>1, FS_Subset, Zenon
    <3> QED
      BY <3>1, <3>2
  <2>4. Cardinality(U) \in Nat /\ Cardinality(U) <= Cardinality(Used) + 1
    BY <1>3, <2>2
  <2> QED
    BY <2>3, <2>4 DEF U
<1> QED
  BY <1>1, <1>2, <1>3, <1>4

LEMMA LiveAny ==
    ASSUME AnyInv
    PROVE  /\ live \subseteq Pid /\ replacement \in Replacement
           /\ pageReplaceAlgo \in {RANDOM, FIFO, LRU, CLOCK}
           /\ numPagesAllocated \in 0 .. NumPhysPages
           /\ \A p \in live : \A v \in DOMAIN table[p] :
                /\ table[p][v] \in Entry
                /\ Valid(p, v) => table[p][v].physicalPage \in Frames
<1>1. live \subseteq Pid
  BY AnyConstants DEF AnyInv, AnyProcesses, Pid
<1>2. pageReplaceAlgo \in {RANDOM, FIFO, LRU, CLOCK}
  BY AlgorithmAssumption DEF AnyInv, AnyProcesses
<1>3. \A p \in live : \A v \in DOMAIN table[p] : table[p][v] \in Entry
  BY TablePages DEF AnyInv, AnyTables, TablesOf, PagesOK
<1>4. \A e \in Entry : e.physicalPage # None => e.physicalPage \in Frames
  BY DEF Entry, FrameOrNone
<1> QED
  BY <1>1, <1>2, <1>3, <1>4 DEF AnyInv, AnyCount, MemoryOK, Valid

LEMMA InvalidatedAny ==
    ASSUME NEW e \in Entry
    PROVE  /\ Invalidated(e) \in Entry
           /\ Invalidated(e).physicalPage = None /\ Invalidated(e).shared = e.shared
           /\ Invalidated(e).swapped => e.swapped \/ e.dirty
<1> DEFINE b == e.swapped \/ e.dirty
<1>1. /\ e.dirty \in BOOLEAN /\ e.swapped \in BOOLEAN /\ e.shared \in BOOLEAN
      /\ e = [physicalPage |-> e.physicalPage, dirty |-> e.dirty, swapped |-> e.swapped,
              shared |-> e.shared]
  BY DEF Entry
<1>2. Invalidated(e) = [e EXCEPT !.physicalPage = None, !.swapped = b] /\ b \in BOOLEAN
  BY <1>1 DEF Invalidated
<1>3. b => e.swapped \/ e.dirty
  OBVIOUS
<1> HIDE DEF b
<1>4. Invalidated(e) = [physicalPage |-> None, dirty |-> e.dirty, swapped |-> b,
                        shared |-> e.shared]
  BY <1>1, <1>2
<1> QED
  BY <1>1, <1>2, <1>3, <1>4 DEF Entry, FrameOrNone

LEMMA EmptyAny ==
    ASSUME AnyInv, NEW r \in Replacement, NEW o, Available # {},
           numPagesAllocated < NumPhysPages,
           o = Yields(Min(Available), Counted, r, table, SwapTable)
    PROVE  FoundAny(o)
<1> DEFINE f == Min(Available)
           c == numPagesAllocated + 1
<1>1. Available \in SUBSET (0 .. NumPhysPages - 1) /\ NumPhysPages - 1 \in Nat
  BY ConstantFacts DEF Available
<1>2. f \in Available
  BY <1>1, LeastNumber
<1>3. /\ o.frame = f /\ o.replacement = r /\ o.count = c
      /\ o.table = table /\ o.swap = SwapTable
  BY DEF Yields, Counted
<1> HIDE DEF f
<1>4. f \in Frames
  BY <1>2 DEF Available
<1>5. Cardinality(Used) <= numPagesAllocated /\ numPagesAllocated \in 0 .. NumPhysPages
  BY DEF AnyInv, AnyCount
<1>6. c \in 0 .. NumPhysPages /\ Cardinality(Used \cup {f}) <= c
  <2>1. c \in 0 .. NumPhysPages
    BY <1>5, AnyConstants
  <2>2. /\ Cardinality(Used \cup {f}) <= Cardinality(Used) + 1
        /\ Cardinality(Used \cup {f}) \in Nat /\ Cardinality(Used) \in Nat
    BY <1>4, UsedAny
  <2> QED
    BY <1>5, <2>1, <2>2
<1> HIDE DEF c
<1> QED
  BY <1>3, <1>4, <1>6 DEF FoundAny, AnyInv, AnyTables, TablesOf

\* The page that is replaced is one of the process that the core map names.
EvictedFrom(o, v) ==
    LET owner == PhysMap[v.frame].processID
        page == PhysMap[v.frame].virtPage
    IN  /\ owner \in live /\ page \in DOMAIN table[owner]
        /\ table[owner][page].dirty => page \in DOMAIN SwapTable[owner]
        /\ o.frame = v.frame /\ o.count = numPagesAllocated /\ o.replacement = v.replacement
        /\ o.table = [table EXCEPT ![owner] =
                        [table[owner] EXCEPT ![page] = Invalidated(table[owner][page])]]
        /\ o.swap = IF table[owner][page].dirty
                    THEN [SwapTable EXCEPT ![owner] =
                            [SwapTable[owner] EXCEPT ![page] = mainMemory[v.frame]]]
                    ELSE SwapTable

LEMMA EvictOutcome ==
    ASSUME NEW v, NEW o, o = Evict(v), o.stop = "none"
    PROVE  EvictedFrom(o, v)
<1> DEFINE owner == PhysMap[v.frame].processID
           page == PhysMap[v.frame].virtPage
           dirty == table[owner][page].dirty
<1>1. StopsWith("undefined").stop # "none"
  BY DEF StopsWith
<1>2. ~(\/ owner \notin live
        \/ page \notin DOMAIN table[owner]
        \/ dirty /\ page \notin DOMAIN SwapTable[owner])
  BY <1>1, Zenon DEF Evict
<1>3. o = Yields(v.frame, numPagesAllocated, v.replacement,
                 [table EXCEPT ![owner][page] = Invalidated(@)],
                 IF dirty THEN Backup(owner, page, v.frame) ELSE SwapTable)
  BY <1>2, Zenon DEF Evict
<1> HIDE DEF owner, page, dirty
<1>4. /\ o.frame = v.frame /\ o.count = numPagesAllocated /\ o.replacement = v.replacement
      /\ o.table = [table EXCEPT ![owner][page] = Invalidated(@)]
      /\ o.swap = IF dirty THEN Backup(owner, page, v.frame) ELSE SwapTable
  BY <1>3 DEF Yields
<1>5. Backup(owner, page, v.frame) =
        [SwapTable EXCEPT ![owner] = [SwapTable[owner] EXCEPT ![page] = mainMemory[v.frame]]]
  BY Zenon DEF Backup
<1>6. o.table = [table EXCEPT ![owner] =
                   [table[owner] EXCEPT ![page] = Invalidated(table[owner][page])]]
  BY <1>4, Zenon
<1> QED
  BY <1>2, <1>4, <1>5, <1>6 DEF EvictedFrom, owner, page, dirty

LEMMA EvictAny ==
    ASSUME AnyInv, numPagesAllocated = NumPhysPages, NEW v, VictimOK(v),
           NEW o, EvictedFrom(o, v)
    PROVE  FoundAny(o)
<1> DEFINE owner == PhysMap[v.frame].processID
           page == PhysMap[v.frame].virtPage
           changed == [table[owner] EXCEPT ![page] = Invalidated(table[owner][page])]
           saved == [SwapTable[owner] EXCEPT ![page] = mainMemory[v.frame]]
           dirty == table[owner][page].dirty
<1>1. /\ owner \in live /\ page \in DOMAIN table[owner]
      /\ dirty => page \in DOMAIN SwapTable[owner]
      /\ o.frame = v.frame /\ o.count = numPagesAllocated /\ o.replacement = v.replacement
      /\ o.table = [table EXCEPT ![owner] = changed]
      /\ o.swap = IF dirty THEN [SwapTable EXCEPT ![owner] = saved] ELSE SwapTable
  BY DEF EvictedFrom
<1>2. o.frame \in Frames /\ o.replacement \in Replacement
  BY <1>1 DEF VictimOK
<1>3. o.count \in 0 .. NumPhysPages /\ Cardinality(Used \cup {o.frame}) <= o.count
  BY <1>1, <1>2, UsedAny, LiveAny
<1>4. DOMAIN table = Pid /\ DOMAIN SwapTable = Pid /\ live \subseteq Pid
      /\ \A p \in live : PagesOK(table[p], SwapTable[p])
  BY LiveAny DEF AnyInv, AnyTables, TablesOf
<1>5. /\ IsTable(changed) /\ DOMAIN changed = DOMAIN table[owner]
      /\ \A w \in DOMAIN table[owner] :
           changed[w].swapped => table[owner][w].swapped \/ (w = page /\ dirty)
  <2>1. /\ Invalidated(table[owner][page]) \in Entry
        /\ Invalidated(table[owner][page]).swapped => table[owner][page].swapped \/ dirty
    BY <1>1, LiveAny, InvalidatedAny
  <2>2. IsTable(table[owner])
    BY <1>1, <1>4 DEF PagesOK
  <2> HIDE DEF dirty, owner, page
  <2> QED
    BY <1>1, <2>1, <2>2, TableChanged
<1>6. dirty => IsBackup(saved) /\ DOMAIN saved = DOMAIN SwapTable[owner]
  <2>1. mainMemory[v.frame] \in Content
    BY <1>1, <1>2 DEF AnyInv, MemoryOK
  <2>2. IsBackup(SwapTable[owner])
    BY <1>1, <1>4 DEF PagesOK
  <2> QED
    BY <1>1, <2>1, <2>2, BackupChanged
<1> HIDE DEF owner, page, changed, saved, dirty
<1>7. /\ DOMAIN o.table = Pid /\ DOMAIN o.swap = Pid
      /\ \A p \in live : o.table[p] = IF p = owner THEN changed ELSE table[p]
      /\ \A p \in live : o.swap[p] = IF p = owner /\ dirty THEN saved ELSE SwapTable[p]
  BY <1>1, <1>4
<1>8. ASSUME NEW p \in live
      PROVE  /\ PagesOK(o.table[p], o.swap[p])
             /\ DOMAIN o.table[p] = DOMAIN table[p]
             /\ DOMAIN o.swap[p] = DOMAIN SwapTable[p]
  <2>1. PagesOK(table[p], SwapTable[p])
    BY <1>4
  <2>2. CASE p # owner
    BY <1>7, <2>1, <2>2
  <2>3. CASE p = owner /\ ~dirty
    BY <1>1, <1>5, <1>7, <2>1, <2>3 DEF PagesOK
  <2>4. CASE p = owner /\ dirty
    BY <1>1, <1>5, <1>6, <1>7, <2>1, <2>4 DEF PagesOK
  <2> QED
    BY <2>2, <2>3, <2>4
<1> QED
  BY <1>2, <1>3, <1>7, <1>8 DEF FoundAny

\* The two ways a call of PagetoEvict yields a frame
LEMMA TwoWays ==
    ASSUME AnyInv, NEW ign \in FrameOrNone, NEW r \in Replacement,
           NEW o \in PagetoEvict(ign, r), o.stop = "none"
    PROVE  \/ /\ numPagesAllocated < NumPhysPages /\ Available # {}
              /\ o = Yields(Min(Available), Counted, r, table, SwapTable)
           \/ /\ numPagesAllocated = NumPhysPages
              /\ \E v \in replacePage(ign, r) : VictimOK(v) /\ EvictedFrom(o, v)
<1>1. CASE numPagesAllocated < NumPhysPages
  BY <1>1 DEF PagetoEvict, StopsWith
<1>2. CASE ~(numPagesAllocated < NumPhysPages)
  <2>1. numPagesAllocated = NumPhysPages
    BY <1>2, LiveAny, AnyConstants
  <2>2. /\ pageReplaceAlgo \in {FIFO, LRU} => r.list # <<>>
        /\ \E v \in replacePage(ign, r) : o = Evict(v)
    BY <1>2 DEF PagetoEvict, StopsWith
  <2>3. PICK v \in replacePage(ign, r) : o = Evict(v)
    BY <2>2
  <2>4. VictimOK(v)
    BY <2>2, VictimType, LiveAny
  <2> QED
    BY <2>1, <2>3, <2>4, EvictOutcome
<1> QED
  BY <1>1, <1>2

LEMMA FoundAnyFrame ==
    ASSUME AnyInv, NEW ign \in FrameOrNone, NEW r \in Replacement,
           NEW o \in PagetoEvict(ign, r), o.stop = "none"
    PROVE  FoundAny(o)
BY TwoWays, EmptyAny, EvictAny

-----------------------------------------------------------------------------
(* The steps keep the types *)

LEMMA TakenAny ==
    ASSUME AnyInv, NEW o, FoundAny(o), NEW p \in Pid, NEW v \in Int,
           NEW isShared \in BOOLEAN, NEW content \in Content,
           Take(o, p, v, isShared, content)
    PROVE  MemoryOK' /\ AnyCount' /\ SwapTable' = o.swap
<1> DEFINE c == [IsEmpty |-> FALSE, processID |-> p, virtPage |-> v, IsShared |-> isShared]
<1>1. o.frame \in Frames /\ o.replacement \in Replacement /\ o.count \in 0 .. NumPhysPages
      /\ Cardinality(Used \cup {o.frame}) <= o.count
  BY DEF FoundAny
<1>2. PhysMap \in [Frames -> CoreMap] /\ mainMemory \in [Frames -> Content]
      /\ \A f \in Frames : PhysMap[f].IsEmpty => PhysMap[f].processID = None
  BY DEF AnyInv, MemoryOK, AnyCount
<1>3. c \in CoreMap /\ c.IsEmpty = FALSE
  BY DEF CoreMap, PidOrNone
<1>4. /\ PhysMap' = [PhysMap EXCEPT ![o.frame] = c]
      /\ numPagesAllocated' = o.count /\ replacement' = o.replacement
      /\ SwapTable' = o.swap
      /\ mainMemory' = [mainMemory EXCEPT ![o.frame] = content]
  BY DEF Take
<1> HIDE DEF c
<1>5. /\ PhysMap' \in [Frames -> CoreMap] /\ mainMemory' \in [Frames -> Content]
      /\ \A f \in Frames : PhysMap'[f] = IF f = o.frame THEN c ELSE PhysMap[f]
  BY <1>1, <1>2, <1>3, <1>4
<1>6. Used' = Used \cup {o.frame}
  BY <1>1, <1>3, <1>5 DEF Used
<1>7. Cardinality(Used)' <= numPagesAllocated'
  BY <1>1, <1>4, <1>6
<1>8. \A f \in Frames : PhysMap'[f].IsEmpty => PhysMap'[f].processID = None
  BY <1>2, <1>3, <1>5
<1> QED
  BY <1>1, <1>4, <1>5, <1>7, <1>8 DEF MemoryOK, AnyCount

\* A frame that is released was in use: the count stays above the frames in use.
LEMMA FreedAny ==
    ASSUME AnyInv, NEW p \in Pid, FreePages(p)
    PROVE  AnyCount' /\ PhysMap' \in [Frames -> CoreMap]
<1> DEFINE freed == {f \in Frames : PhysMap[f].processID = p /\ ~PhysMap[f].IsShared}
<1>1. /\ PhysMap \in [Frames -> CoreMap]
      /\ \A f \in Frames : PhysMap[f].IsEmpty => PhysMap[f].processID = None
      /\ Cardinality(Used) <= numPagesAllocated /\ numPagesAllocated \in 0 .. NumPhysPages
  BY DEF AnyInv, MemoryOK, AnyCount
<1>2. \A f \in freed : ~PhysMap[f].IsEmpty
  BY <1>1, AnyConstants
<1>3. /\ PhysMap' = [f \in Frames |-> IF f \in freed THEN Released(PhysMap[f])
                                      ELSE PhysMap[f]]
      /\ numPagesAllocated' = numPagesAllocated - Cardinality(freed)
  BY DEF FreePages
<1>4. freed \in SUBSET Used /\ freed \subseteq Frames
  BY <1>2 DEF Used
<1> HIDE DEF freed
<1>5. \A c \in CoreMap : /\ Released(c) \in CoreMap /\ Released(c).IsEmpty
                         /\ Released(c).processID = None
  BY DEF Released, CoreMap, PidOrNone
<1>6. PhysMap' \in [Frames -> CoreMap]
      /\ \A f \in Frames : PhysMap'[f] = IF f \in freed THEN Released(PhysMap[f])
                                         ELSE PhysMap[f]
  BY <1>1, <1>3, <1>5
<1>7. Used' = Used \ freed /\ Used \cap freed = freed
  BY <1>1, <1>4, <1>5, <1>6 DEF Used
<1>8. Cardinality(Used') = Cardinality(Used) - Cardinality(freed)
  <2>1. IsFiniteSet(Used)
    BY UsedAny
  <2>2. Cardinality(Used \ freed) = Cardinality(Used) - Cardinality(Used \cap freed)
    BY <2>1, FS_Difference
  <2> QED
    BY <1>7, <2>2
<1>9. Cardinality(freed) \in Nat /\ Cardinality(freed) <= Cardinality(Used)
      /\ Cardinality(Used) \in Nat
  <2>1. IsFiniteSet(freed) /\ Cardinality(freed) <= Cardinality(Used)
    BY <1>4, UsedAny, FS_Subset
  <2> QED
    BY <2>1, UsedAny, FS_CardinalityType
<1>10. Cardinality(Used') <= numPagesAllocated' /\ numPagesAllocated' \in 0 .. NumPhysPages
  BY <1>1, <1>3, <1>8, <1>9, AnyConstants
<1>11. \A f \in Frames : PhysMap'[f].IsEmpty => PhysMap'[f].processID = None
  BY <1>1, <1>5, <1>6
<1> QED
  BY <1>6, <1>10, <1>11 DEF AnyCount

LEMMA FetchAny ==
    ASSUME AnyInv, NEW p \in live, Fetch(p)
    PROVE  replacement' \in Replacement
<1>1. PICK v \in 0 .. FilePages - 1 :
        Valid(p, v) /\ replacement' = Access(table[p][v].physicalPage, replacement)
  BY DEF Fetch
<1>2. IsTable(table[p])
  BY DEF AnyInv, AnyTables, TablesOf, PagesOK
<1>3. v \in DOMAIN table[p]
  BY <1>1, <1>2, TablePages
<1> QED
  BY <1>1, <1>3, LiveAny, AccessType

\* A change of the tables that keeps the pages of the live processes
Kept == /\ DOMAIN table' = Pid /\ DOMAIN SwapTable' = Pid /\ live' = live
        /\ \A p \in live : /\ PagesOK(table'[p], SwapTable'[p])
                           /\ DOMAIN table'[p] = DOMAIN table[p]

LEMMA KeptAny ==
    ASSUME AnyInv, Kept
    PROVE  /\ written' = written => AnyTables'
           /\ pending' = pending => AnyPending'
           /\ UNCHANGED <<job, thread_index>> /\ job # NoJob => AnyJob'
<1>1. written' = written => AnyTables'
  BY DEF Kept, AnyInv, AnyTables, TablesOf
<1>2. pending' = pending => AnyPending'
  BY DEF Kept, AnyInv, AnyPending
<1>3. UNCHANGED <<job, thread_index>> /\ job # NoJob => AnyJob'
  BY DEF Kept, AnyInv, AnyProcesses, AnyJob
<1> QED
  BY <1>1, <1>2, <1>3

LEMMA StopAny ==
    ASSUME AnyInv, mode' \in Stops \cup {"halted"}, AnyPending',
           UNCHANGED <<pageReplaceAlgo, job, live, thread_index, fileName, retrying,
                       written, table, SwapTable, PhysMap, numPagesAllocated, mainMemory>>,
           replacement' \in Replacement
    PROVE  AnyInv'
<1>1. mode' \notin {"run", "fork", "shm"}
  BY DEF Stops
<1>2. AnyProcesses'
  BY <1>1 DEF AnyInv, AnyProcesses, AnyJob
<1>3. AnyTables' /\ AnyCount' /\ MemoryOK'
  BY DEF AnyInv, AnyTables, TablesOf, AnyCount, Used, MemoryOK
<1> QED
  BY <1>2, <1>3 DEF AnyInv

-----------------------------------------------------------------------------
(* Instructions *)

\* The instruction of p that a fault suspends
Restart(p, i) ==
    /\ i \in Instructions /\ i.data \in DOMAIN table[p] \cup {None}
    /\ i.write => i.data # None

LEMMA PendingAny ==
    ASSUME AnyInv, NEW p \in live, NEW i, Restart(p, i) \/ i = NoInstruction, Kept,
           pending' = [pending EXCEPT ![p] = i]
    PROVE  AnyPending'
<1>1. p \in Pid /\ pending \in [Pid -> Instructions \cup {NoInstruction}]
  BY LiveAny DEF AnyInv, AnyPending
<1>2. i \in Instructions \cup {NoInstruction}
  BY DEF Restart
<1>3. pending' \in [Pid -> Instructions \cup {NoInstruction}]
      /\ \A q \in Pid : pending'[q] = IF q = p THEN i ELSE pending[q]
  BY <1>1, <1>2
<1>4. ASSUME NEW q \in Pid, pending'[q] # NoInstruction
      PROVE  /\ q \in live' /\ pending'[q].data \in DOMAIN table'[q] \cup {None}
             /\ pending'[q].write => pending'[q].data # None
  <2>1. CASE q = p
    BY <1>3, <1>4, <2>1 DEF Restart, Kept
  <2>2. CASE q # p
    BY <1>3, <1>4, <2>2 DEF AnyInv, AnyPending, Kept
  <2> QED
    BY <2>1, <2>2
<1> QED
  BY <1>3, <1>4 DEF AnyPending

LEMMA EnteredAny ==
    ASSUME NEW f \in Frames
    PROVE  Entered(f) \in Entry /\ ~Entered(f).swapped /\ ~Entered(f).shared
           /\ Entered(f).physicalPage = f
BY DEF Entered, FreshEntry, Entry, FrameOrNone

LEMMA FaultAny ==
    ASSUME AnyInv, mode = "run", NEW p \in live, NEW v \in DOMAIN table[p], NEW i,
           Restart(p, i), NEW r \in Replacement, PageFault(p, i, v, r)
    PROVE  AnyInv'
<1>1. /\ LoadPage(p, v, r) /\ pending' = [pending EXCEPT ![p] = i]
      /\ UNCHANGED <<pageReplaceAlgo, job, thread_index, live, fileName, retrying, written>>
  BY DEF PageFault
<1>2. job = NoJob /\ p \in Pid /\ AnyTables /\ AnyProcesses
      /\ \A q \in live : PagesOK(table[q], SwapTable[q])
  BY LiveAny DEF AnyInv, AnyProcesses, AnyTables, TablesOf
<1>3. UNCHANGED <<table, SwapTable>> => Kept
  BY <1>1, <1>2 DEF Kept, AnyTables
<1>4. CASE ~fileName[p].spelled
  <2>1. /\ replacement' = r
        /\ UNCHANGED <<mode, table, PhysMap, numPagesAllocated, mainMemory, SwapTable>>
    BY <1>1, <1>4 DEF LoadPage
  <2>2. AnyPending'
    BY <1>1, <1>3, <2>1, PendingAny
  <2>3. AnyProcesses'
    BY <1>1, <1>2, <2>1 DEF AnyProcesses
  <2>4. AnyTables' /\ AnyCount' /\ MemoryOK'
    BY <1>1, <2>1 DEF AnyInv, AnyTables, TablesOf, AnyCount, Used, MemoryOK
  <2> QED
    BY <2>2, <2>3, <2>4 DEF AnyInv
<1>5. CASE fileName[p].spelled
  <2>1. PICK o \in PagetoEvict(None, r) :
           IF o.stop # "none"
           THEN /\ mode' = o.stop
                /\ UNCHANGED memoryVars
           ELSE /\ Take(o, p, v, FALSE, Loaded(o, p, v))
                /\ table' = [o.table EXCEPT ![p][v] =
                               [FreshEntry EXCEPT !.physicalPage = o.frame]]
                /\ UNCHANGED mode
    BY <1>1, <1>5, Zenon DEF LoadPage
  <2>2. CASE o.stop # "none"
    <3>1. mode' \in Stops /\ UNCHANGED memoryVars
      BY <2>1, <2>2, PagetoEvictStops
    <3>2. AnyPending'
      BY <1>1, <1>3, <3>1, PendingAny DEF memoryVars
    <3>3. replacement' \in Replacement
      BY <3>1, LiveAny DEF memoryVars
    <3> QED
      BY <1>1, <3>1, <3>2, <3>3, StopAny DEF memoryVars
  <2>3. CASE o.stop = "none"
    <3>1. FoundAny(o)
      BY <2>3, FoundAnyFrame DEF FrameOrNone
    <3>2. /\ Take(o, p, v, FALSE, Loaded(o, p, v)) /\ UNCHANGED mode
          /\ table' = [o.table EXCEPT ![p] = [o.table[p] EXCEPT ![v] = Entered(o.frame)]]
      BY <2>1, <2>3, Zenon DEF Entered
    <3>3. /\ o.frame \in Frames /\ DOMAIN o.table = Pid /\ DOMAIN o.swap = Pid
          /\ \A q \in live : /\ PagesOK(o.table[q], o.swap[q])
                             /\ DOMAIN o.table[q] = DOMAIN table[q]
                             /\ DOMAIN o.swap[q] = DOMAIN SwapTable[q]
      BY <3>1 DEF FoundAny
    <3>4. v \in Nat
      BY <1>2, TablePages DEF PagesOK
    <3>5. Loaded(o, p, v) \in Content
      <4>1. o.table[p][v].swapped => o.swap[p][v] \in Content
        BY <3>3, BackupPages DEF PagesOK
      <4>2. mainMemory[o.frame] \in Content /\ Image \in Content
        BY <3>3 DEF AnyInv, MemoryOK, Content
      <4> QED
        BY <4>1, <4>2 DEF Loaded
    <3>6. MemoryOK' /\ AnyCount' /\ SwapTable' = o.swap
      <4> DEFINE content == Loaded(o, p, v)
      <4>1. content \in Content /\ Take(o, p, v, FALSE, content)
        BY <3>2, <3>5
      <4>2. p \in Pid /\ v \in Int /\ FALSE \in BOOLEAN
        BY <1>2, <3>4
      <4> HIDE DEF content
      <4> QED
        BY <3>1, <4>1, <4>2, TakenAny
    <3> DEFINE e == Entered(o.frame)
               changed == [o.table[p] EXCEPT ![v] = e]
    <3>7. e \in Entry /\ ~e.swapped
      BY <3>3, EnteredAny
    <3> HIDE DEF e
    <3>8. IsTable(o.table[p]) /\ v \in DOMAIN o.table[p]
      BY <3>3 DEF PagesOK
    <3>9. /\ IsTable(changed) /\ DOMAIN changed = DOMAIN o.table[p]
          /\ \A w \in DOMAIN o.table[p] : changed[w] = IF w = v THEN e ELSE o.table[p][w]
      BY <3>7, <3>8, TableChanged
    <3>10. table' = [o.table EXCEPT ![p] = changed]
      BY <3>2 DEF e
    <3> HIDE DEF changed
    <3>11. PagesOK(changed, o.swap[p])
      <4>1. PagesOK(o.table[p], o.swap[p])
        BY <3>3
      <4> QED
        BY <3>7, <3>9, <4>1 DEF PagesOK
    <3>12. DOMAIN table' = Pid /\ \A q \in live : table'[q] = IF q = p THEN changed
                                                             ELSE o.table[q]
      BY <1>2, <3>3, <3>10, LiveAny
    <3>13. Kept
      BY <1>1, <3>3, <3>6, <3>9, <3>11, <3>12 DEF Kept
    <3>14. AnyPending' /\ AnyTables'
      BY <1>1, <3>13, PendingAny, KeptAny
    <3>15. AnyProcesses'
      BY <1>1, <1>2, <3>2 DEF AnyProcesses
    <3> QED
      BY <3>6, <3>14, <3>15 DEF AnyInv
  <2> QED
    BY <2>2, <2>3
<1> QED
  BY <1>4, <1>5

\* What an instruction that meets no fault leaves
CompletesAny(p) ==
    /\ \/ \E v \in DOMAIN table[p] : Valid(p, v) /\ WrittenPage(p, v)
       \/ UNCHANGED <<table, mainMemory, written>>
    /\ replacement' \in Replacement
    /\ pending' = [pending EXCEPT ![p] = NoInstruction]
    /\ UNCHANGED <<pageReplaceAlgo, mode, job, thread_index, live, PhysMap,
                   numPagesAllocated, SwapTable, fileName, retrying>>

FaultsAny(p) ==
    \E v \in DOMAIN table[p], r \in Replacement, i \in Instructions :
      Restart(p, i) /\ ~Valid(p, v) /\ PageFault(p, i, v, r)

LEMMA InstructionOutcomeAny ==
    ASSUME AnyInv, NEW p \in Pid, Instruction(p)
    PROVE  mode = "run" /\ job = NoJob /\ p \in live /\ (FaultsAny(p) \/ CompletesAny(p))
<1>1. mode = "run" /\ p \in live /\ job = NoJob
  BY DEF Instruction, AnyInv, AnyProcesses
<1>2. PICK i \in IF pending[p] = NoInstruction
                 THEN {j \in [fetch : 0 .. FilePages - 1,
                              data : DOMAIN table[p] \cup {None}, write : BOOLEAN] :
                         j.data = None \/ p \in retrying => ~j.write}
                 ELSE {pending[p]} :
        LET fetched == Access(table[p][i.fetch].physicalPage, replacement)
            frame == table[p][i.data].physicalPage
        IN  IF ~Valid(p, i.fetch) THEN PageFault(p, i, i.fetch, replacement)
            ELSE IF i.data # None /\ ~Valid(p, i.data) THEN PageFault(p, i, i.data, fetched)
            ELSE /\ replacement' = IF i.data = None THEN fetched ELSE Access(frame, fetched)
                 /\ pending' = [pending EXCEPT ![p] = NoInstruction]
                 /\ IF i.write
                    THEN /\ table' = [table EXCEPT ![p][i.data].dirty = TRUE]
                         /\ mainMemory' = [mainMemory EXCEPT ![frame] = <<p, i.data>>]
                         /\ written' = [written EXCEPT ![p][i.data] = <<p, i.data>>]
                    ELSE UNCHANGED <<table, mainMemory, written>>
                 /\ UNCHANGED <<pageReplaceAlgo, mode, job, thread_index, live, PhysMap,
                                numPagesAllocated, SwapTable, fileName, retrying>>
  BY Zenon DEF Instruction
<1>3. TablesOf(p) /\ DOMAIN table = Pid /\ DOMAIN SwapTable = Pid /\ DOMAIN written = Pid
  BY <1>1 DEF AnyInv, AnyTables
<1>4. IsTable(table[p]) /\ IsBackup(written[p]) /\ DOMAIN written[p] = DOMAIN table[p]
  BY <1>3 DEF TablesOf, PagesOK
<1>5. Restart(p, i) /\ i.fetch \in 0 .. FilePages - 1
  <2>1. \A v \in DOMAIN table[p] : v \in Nat
    BY <1>4, TablePages
  <2>2. CASE pending[p] = NoInstruction
    BY <1>2, <2>1, <2>2 DEF Restart, Instructions
  <2>3. CASE pending[p] # NoInstruction
    <3>1. i = pending[p] /\ i \in Instructions
      BY <1>2, <2>3 DEF AnyInv, AnyPending
    <3> QED
      BY <2>3, <3>1 DEF AnyInv, AnyPending, Restart, Instructions
  <2> QED
    BY <2>2, <2>3
<1> DEFINE fetched == Access(table[p][i.fetch].physicalPage, replacement)
           frame == table[p][i.data].physicalPage
<1>6. /\ i.fetch \in DOMAIN table[p] /\ i.data \in DOMAIN table[p] \cup {None}
      /\ i.write => i.data # None
  BY <1>4, <1>5, TablePages DEF Restart
<1>7. Valid(p, i.fetch) => fetched \in Replacement
  BY <1>1, <1>6, LiveAny, AccessType
<1>8. i.data # None /\ Valid(p, i.data) => frame \in Frames
  BY <1>1, <1>6, LiveAny
<1> HIDE DEF fetched, frame
<1>9. CASE ~Valid(p, i.fetch)
  <2>1. PageFault(p, i, i.fetch, replacement)
    BY <1>2, <1>9
  <2> QED
    BY <1>1, <1>5, <1>6, <1>9, <2>1, LiveAny DEF FaultsAny, Restart
<1>10. CASE Valid(p, i.fetch) /\ i.data # None /\ ~Valid(p, i.data)
  <2>1. PageFault(p, i, i.data, fetched)
    BY <1>2, <1>10 DEF fetched
  <2> QED
    BY <1>1, <1>5, <1>6, <1>7, <1>10, <2>1 DEF FaultsAny, Restart
<1>11. CASE Valid(p, i.fetch) /\ (i.data = None \/ Valid(p, i.data))
  <2>1. /\ replacement' = IF i.data = None THEN fetched ELSE Access(frame, fetched)
        /\ pending' = [pending EXCEPT ![p] = NoInstruction]
        /\ IF i.write
           THEN /\ table' = [table EXCEPT ![p][i.data].dirty = TRUE]
                /\ mainMemory' = [mainMemory EXCEPT ![frame] = <<p, i.data>>]
                /\ written' = [written EXCEPT ![p][i.data] = <<p, i.data>>]
           ELSE UNCHANGED <<table, mainMemory, written>>
        /\ UNCHANGED <<pageReplaceAlgo, mode, job, thread_index, live, PhysMap,
                       numPagesAllocated, SwapTable, fileName, retrying>>
    BY <1>2, <1>11 DEF fetched, frame
  <2>2. replacement' \in Replacement
    BY <1>7, <1>8, <1>11, <2>1, AccessType
  <2>3. i.write => i.data \in DOMAIN table[p] /\ Valid(p, i.data) /\ WrittenPage(p, i.data)
    <3>1. i.write => i.data \in DOMAIN table[p] /\ i.data # None
      BY <1>6
    <3> QED
      BY <1>11, <2>1, <3>1 DEF WrittenPage, frame
  <2>4. ~i.write => UNCHANGED <<table, mainMemory, written>>
    BY <2>1
  <2>5. CompletesAny(p)
    BY <2>1, <2>2, <2>3, <2>4 DEF CompletesAny
  <2> QED
    BY <1>1, <2>5
<1> QED
  BY <1>9, <1>10, <1>11

\* Only the entry of the page that is stored to changes.
Stored(p, v) ==
    /\ \A q \in live : q # p => table'[q] = table[q]
    /\ DOMAIN table'[p] = DOMAIN table[p]
    /\ \A w \in DOMAIN table[p] :
         table'[p][w] = IF w = v THEN [table[p][w] EXCEPT !.dirty = TRUE] ELSE table[p][w]

LEMMA WrittenAny ==
    ASSUME AnyInv, NEW p \in live, NEW v \in DOMAIN table[p], Valid(p, v),
           WrittenPage(p, v), UNCHANGED <<live, SwapTable>>
    PROVE  /\ Kept /\ AnyTables' /\ mainMemory' \in [Frames -> Content]
           /\ Stored(p, v)
<1> DEFINE e == [table[p][v] EXCEPT !.dirty = TRUE]
           changed == [table[p] EXCEPT ![v] = e]
           c == <<p, v>>
           last == [written[p] EXCEPT ![v] = c]
           frame == table[p][v].physicalPage
<1>1. /\ TablesOf(p) /\ DOMAIN table = Pid /\ DOMAIN SwapTable = Pid
      /\ DOMAIN written = Pid /\ \A q \in live : TablesOf(q)
  BY DEF AnyInv, AnyTables
<1>2. IsTable(table[p]) /\ IsBackup(written[p]) /\ DOMAIN written[p] = DOMAIN table[p]
  BY <1>1 DEF TablesOf, PagesOK
<1>3. frame \in Frames /\ p \in Pid /\ live \subseteq Pid
  BY LiveAny
<1>4. c \in Content
  <2>1. v \in 0 .. VMPages - 1
    BY <1>2, TablePages
  <2> QED
    BY <1>3, <2>1 DEF Content, Modified
<1>5. e \in Entry /\ (e.swapped <=> table[p][v].swapped)
  <2>1. table[p][v] \in Entry
    BY LiveAny
  <2> QED
    BY <2>1 DEF Entry
<1>6. /\ table' = [table EXCEPT ![p] = changed]
      /\ written' = [written EXCEPT ![p] = last]
      /\ mainMemory' = [mainMemory EXCEPT ![frame] = c]
  BY Zenon DEF WrittenPage
<1>7. mainMemory' \in [Frames -> Content]
  <2> HIDE DEF c, frame
  <2> QED
    BY <1>3, <1>4, <1>6 DEF AnyInv, MemoryOK
<1> HIDE DEF e, c
<1>8. /\ IsTable(changed) /\ DOMAIN changed = DOMAIN table[p]
      /\ \A w \in DOMAIN table[p] : changed[w] = IF w = v THEN e ELSE table[p][w]
  BY <1>2, <1>5, TableChanged
<1>9. IsBackup(last) /\ DOMAIN last = DOMAIN written[p]
  BY <1>2, <1>4, BackupChanged
<1> HIDE DEF changed, last
<1>10. PagesOK(changed, SwapTable[p])
  BY <1>1, <1>5, <1>8 DEF TablesOf, PagesOK
<1>11. /\ DOMAIN table' = Pid /\ DOMAIN written' = Pid
       /\ \A q \in live : table'[q] = IF q = p THEN changed ELSE table[q]
       /\ \A q \in live : written'[q] = IF q = p THEN last ELSE written[q]
  BY <1>1, <1>3, <1>6
<1>12. Kept
  BY <1>1, <1>8, <1>10, <1>11 DEF Kept, TablesOf
<1>13. AnyTables'
  BY <1>1, <1>2, <1>8, <1>9, <1>10, <1>11 DEF AnyTables, TablesOf
<1>14. Stored(p, v)
  <2>1. \A w \in DOMAIN table[p] : changed[w] =
          IF w = v THEN [table[p][w] EXCEPT !.dirty = TRUE] ELSE table[p][w]
    BY <1>8 DEF e
  <2> QED
    BY <1>8, <1>11, <2>1 DEF Stored
<1> QED
  BY <1>7, <1>12, <1>13, <1>14

LEMMA InstructionAny ==
    ASSUME AnyInv, NEW p \in Pid, Instruction(p)
    PROVE  AnyInv'
<1>1. mode = "run" /\ job = NoJob /\ p \in live /\ (FaultsAny(p) \/ CompletesAny(p))
  BY InstructionOutcomeAny
<1>2. CASE FaultsAny(p)
  BY <1>1, <1>2, FaultAny DEF FaultsAny
<1>3. CASE CompletesAny(p)
  <2>1. /\ replacement' \in Replacement
        /\ pending' = [pending EXCEPT ![p] = NoInstruction]
        /\ UNCHANGED <<pageReplaceAlgo, mode, job, thread_index, live, PhysMap,
                       numPagesAllocated, SwapTable, fileName, retrying>>
    BY <1>3 DEF CompletesAny
  <2>2. Kept /\ AnyTables' /\ mainMemory' \in [Frames -> Content]
    <3>1. CASE UNCHANGED <<table, mainMemory, written>>
      BY <2>1, <3>1 DEF Kept, AnyInv, AnyTables, TablesOf, MemoryOK
    <3>2. CASE \E v \in DOMAIN table[p] : Valid(p, v) /\ WrittenPage(p, v)
      BY <1>1, <2>1, <3>2, WrittenAny
    <3> QED
      BY <1>3, <3>1, <3>2 DEF CompletesAny
  <2>3. AnyPending'
    BY <1>1, <2>1, <2>2, PendingAny
  <2>4. AnyCount' /\ AnyProcesses' /\ MemoryOK'
    BY <1>1, <2>1, <2>2 DEF AnyInv, AnyCount, Used, AnyProcesses, MemoryOK
  <2> QED
    BY <2>2, <2>3, <2>4 DEF AnyInv
<1> QED
  BY <1>1, <1>2, <1>3

-----------------------------------------------------------------------------
(* Fork and ShmAllocate *)

\* What a system call starts from
LEMMA TrapAny ==
    ASSUME AnyInv, NEW p \in Pid, mode = "run", p \in live
    PROVE  /\ job = NoJob /\ IsTable(table[p])
           /\ \E n \in NumPages .. VMPages :
                n \in Nat /\ DOMAIN table[p] = 0 .. n - 1 /\ Cardinality(DOMAIN table[p]) = n
<1>1. job = NoJob /\ IsTable(table[p])
  BY DEF AnyInv, AnyProcesses, AnyTables, TablesOf, PagesOK
<1> QED
  BY <1>1, TablePages

LEMMA BeginForkAny ==
    ASSUME AnyInv, NEW p \in Pid, BeginFork(p)
    PROVE  AnyInv'
<1>1. /\ mode = "run" /\ p \in live /\ Fetch(p) /\ thread_index < MAX_THREAD_COUNT
      /\ mode' = "fork" /\ thread_index' = thread_index + 1
      /\ UNCHANGED <<pageReplaceAlgo, pending, live, table, PhysMap, numPagesAllocated,
                     mainMemory, SwapTable, fileName, retrying, written>>
  BY DEF BeginFork, Trap
<1>2. PICK n \in NumPages .. VMPages :
        n \in Nat /\ DOMAIN table[p] = 0 .. n - 1 /\ Cardinality(DOMAIN table[p]) = n
  BY <1>1, TrapAny
<1>3. job' = [proc |-> p, child |-> thread_index, size |-> n, pages |-> <<>>]
  BY <1>2 DEF BeginFork
<1>4. /\ thread_index \in 1 .. MAX_THREAD_COUNT /\ live \subseteq 0 .. thread_index - 1
      /\ MAX_THREAD_COUNT \in Nat \ {0}
  BY AnyConstants DEF AnyInv, AnyProcesses
<1>5. thread_index \in Pid \ live /\ thread_index < thread_index'
      /\ thread_index' \in 1 .. MAX_THREAD_COUNT /\ live \subseteq 0 .. thread_index' - 1
  BY <1>1, <1>4 DEF Pid
<1>6. AnyJob'
  <2>1. <<>> \in Seq(Entry) /\ Len(<<>>) = 0
    OBVIOUS
  <2> QED
    BY <1>1, <1>2, <1>3, <1>5, <2>1 DEF AnyJob
<1>7. AnyProcesses'
  BY <1>1, <1>3, <1>5, <1>6 DEF AnyInv, AnyProcesses
<1>8. AnyPending' /\ AnyTables' /\ AnyCount'
  BY <1>1 DEF AnyInv, AnyPending, AnyTables, TablesOf, AnyCount, Used
<1>9. MemoryOK'
  BY <1>1, FetchAny DEF AnyInv, MemoryOK
<1> QED
  BY <1>7, <1>8, <1>9 DEF AnyInv

LEMMA BeginShmAny ==
    ASSUME AnyInv, NEW p \in Pid, BeginShm(p)
    PROVE  AnyInv'
<1>1. /\ mode = "run" /\ p \in live /\ Fetch(p) /\ mode' = "shm"
      /\ UNCHANGED <<pageReplaceAlgo, pending, thread_index, live, table, PhysMap,
                     numPagesAllocated, mainMemory, SwapTable, fileName, retrying, written>>
  BY DEF BeginShm, Trap
<1>2. PICK n \in NumPages .. VMPages :
        n \in Nat /\ DOMAIN table[p] = 0 .. n - 1 /\ Cardinality(DOMAIN table[p]) = n
  BY <1>1, TrapAny
<1> DEFINE copied == [k \in 1 .. n |-> [table[p][k - 1] EXCEPT !.swapped = FALSE]]
<1>3. PICK size \in n + 1 .. VMPages :
        job' = [proc |-> p, child |-> None, size |-> size, pages |-> copied]
  BY <1>2 DEF BeginShm
<1>4. \A k \in 1 .. n : copied[k] \in Entry /\ ~copied[k].swapped
  <2>1. \A k \in 1 .. n : table[p][k - 1] \in Entry
    BY <1>1, <1>2, LiveAny
  <2> QED
    BY <2>1 DEF Entry
<1>5. copied \in [1 .. n -> Entry]
  BY <1>4
<1> HIDE DEF copied
<1>6. copied \in Seq(Entry) /\ Len(copied) = n /\ DOMAIN copied = 1 .. n
  BY <1>2, <1>5
<1>7. /\ size \in NumPages .. VMPages /\ n <= size
      /\ DOMAIN table[p] \subseteq 0 .. size - 1
  BY <1>2, AnyConstants
<1>8. AnyJob'
  BY <1>1, <1>3, <1>4, <1>6, <1>7 DEF AnyJob
<1>9. AnyProcesses'
  BY <1>1, <1>3, <1>8 DEF AnyInv, AnyProcesses
<1>10. AnyPending' /\ AnyTables' /\ AnyCount'
  BY <1>1 DEF AnyInv, AnyPending, AnyTables, TablesOf, AnyCount, Used
<1>11. MemoryOK'
  BY <1>1, FetchAny DEF AnyInv, MemoryOK
<1> QED
  BY <1>9, <1>10, <1>11 DEF AnyInv

\* The constructor in progress
LEMMA JobAny ==
    ASSUME AnyInv, mode \in {"fork", "shm"}
    PROVE  /\ AnyJob /\ job.proc \in live /\ job.proc \in Pid /\ IsTable(table[job.proc])
           /\ mode = "fork" => /\ job.child \in Pid \ live /\ job.child < thread_index
                               /\ DOMAIN table[job.proc] = 0 .. job.size - 1
           /\ mode = "shm" => job.child = None
           /\ job.size \in NumPages .. VMPages /\ job.size \in Nat
           /\ NextPage \in Nat /\ job.pages \in Seq(Entry)
<1>1. AnyJob
  <2>1. job.child \in Pid \/ job.proc \in live
    BY DEF AnyInv, AnyProcesses
  <2>2. NoJob.child \notin Pid
    BY AnyConstants DEF NoJob
  <2>3. NoJob.proc \notin live
    BY AnyConstants, LiveAny DEF NoJob
  <2>4. job # NoJob
    BY <2>2, <2>3 DEF AnyInv, AnyProcesses
  <2> QED
    BY <2>4 DEF AnyInv, AnyProcesses
<1>2. mode = "fork" => job.child \in Pid
  BY DEF AnyInv, AnyProcesses
<1>3. mode = "shm" => job.child = None
  BY DEF AnyInv, AnyProcesses
<1>4. job.proc \in live /\ job.proc \in Pid /\ IsTable(table[job.proc])
  BY <1>1, LiveAny DEF AnyJob, AnyInv, AnyTables, TablesOf, PagesOK
<1>5. job.size \in NumPages .. VMPages /\ job.size \in Nat
  BY <1>1, AnyConstants DEF AnyJob
<1>6. NextPage \in Nat /\ job.pages \in Seq(Entry)
  BY <1>1 DEF AnyJob, NextPage
<1> QED
  BY <1>1, <1>2, <1>3, <1>4, <1>5, <1>6, AnyConstants DEF AnyJob

LEMMA StopsAny ==
    ASSUME AnyInv, NEW m \in Stops, Stop(m), UNCHANGED pageReplaceAlgo
    PROVE  AnyInv'
<1>1. AnyPending'
  BY DEF Stop, memoryVars, processVars, AnyInv, AnyPending
<1>2. replacement' \in Replacement
  BY LiveAny DEF Stop, memoryVars
<1> QED
  BY <1>1, <1>2, StopAny DEF Stop, memoryVars, processVars

\* The next page is added to the table that a constructor builds.
LEMMA PageAddedAny ==
    ASSUME AnyInv, mode \in {"fork", "shm"}, NextPage < job.size, NEW e \in Entry,
           mode = "shm" => ~e.swapped, AddPage(e), Kept,
           UNCHANGED <<mode, pageReplaceAlgo, thread_index, fileName, retrying>>
    PROVE  AnyProcesses'
<1>1. AnyJob
  BY JobAny
<1>2. /\ job' = [job EXCEPT !.pages = Append(job.pages, e)]
      /\ job = [proc |-> job.proc, child |-> job.child, size |-> job.size,
                pages |-> job.pages]
      /\ job.pages \in Seq(Entry) /\ Len(job.pages) < job.size /\ job.size \in NumPages .. VMPages
  BY <1>1 DEF AddPage, AnyJob, NextPage
<1> DEFINE longer == Append(job.pages, e)
<1>3. /\ longer \in Seq(Entry) /\ Len(longer) = Len(job.pages) + 1
      /\ \A k \in DOMAIN longer : longer[k] = e \/ (k \in DOMAIN job.pages
                                                     /\ longer[k] = job.pages[k])
  BY <1>2
<1>4. Len(longer) <= job.size
  BY <1>2, <1>3, AnyConstants
<1>5. job' = [proc |-> job.proc, child |-> job.child, size |-> job.size, pages |-> longer]
  BY <1>2
<1> HIDE DEF longer
<1>6. job.child = None => mode = "shm"
  BY AnyConstants DEF AnyInv, AnyProcesses
<1>7. AnyJob'
  BY <1>1, <1>3, <1>4, <1>5, <1>6 DEF AnyJob, Kept
<1> QED
  BY <1>5, <1>7 DEF AnyInv, AnyProcesses, Kept

\* PagetoEvict has found a frame for the next page of a constructor.
LEMMA PagePutAny ==
    ASSUME AnyInv, mode \in {"fork", "shm"}, NextPage < job.size,
           NEW o, FoundAny(o), NEW p \in Pid, NEW isShared \in BOOLEAN,
           NEW content \in Content, Take(o, p, NextPage, isShared, content),
           table' = o.table, NEW e \in Entry, mode = "shm" => ~e.swapped, AddPage(e),
           UNCHANGED <<mode, processVars, pageReplaceAlgo>>
    PROVE  AnyInv'
<1>1. NextPage \in Int
  BY JobAny
<1>2. MemoryOK' /\ AnyCount' /\ SwapTable' = o.swap
  BY <1>1, TakenAny
<1>3. Kept
  BY <1>2 DEF FoundAny, Kept, processVars
<1>4. AnyTables' /\ AnyPending'
  BY <1>3, KeptAny DEF processVars
<1>5. AnyProcesses'
  BY <1>3, PageAddedAny DEF processVars
<1> QED
  BY <1>2, <1>4, <1>5 DEF AnyInv

LEMMA CopyPageAny ==
    ASSUME AnyInv, mode = "fork", NextPage < job.size, UNCHANGED pageReplaceAlgo,
           Valid(job.proc, NextPage), CopyPage(job.proc, NextPage)
    PROVE  AnyInv'
<1> DEFINE p == job.proc
           i == NextPage
           from == table[p][i].physicalPage
<1>1. /\ p \in live /\ i \in DOMAIN table[p] /\ i \in Nat /\ job.child \in Pid
      /\ mode \in {"fork", "shm"} /\ mode # "shm"
  BY JobAny
<1>2. from \in Frames /\ from \in FrameOrNone
  BY <1>1, LiveAny DEF FrameOrNone
<1>3. PICK o \in PagetoEvict(from, replacement) :
        IF o.stop # "none" THEN Stop(o.stop)
        ELSE /\ Take(o, job.child, i, FALSE, mainMemory[from])
             /\ table' = o.table
             /\ AddPage([o.table[p][i] EXCEPT !.physicalPage = o.frame])
             /\ UNCHANGED <<mode, processVars>>
  BY Zenon DEF CopyPage
<1> HIDE DEF p, i, from
<1>4. CASE o.stop # "none"
  BY <1>3, <1>4, PagetoEvictStops, StopsAny
<1>5. CASE o.stop = "none"
  <2>1. FoundAny(o)
    BY <1>2, <1>3, <1>5, LiveAny, FoundAnyFrame
  <2> DEFINE e == [o.table[p][i] EXCEPT !.physicalPage = o.frame]
             content == mainMemory[from]
  <2>2. /\ Take(o, job.child, i, FALSE, content) /\ table' = o.table /\ AddPage(e)
        /\ UNCHANGED <<mode, processVars>>
    BY <1>3, <1>5
  <2>3. content \in Content
    BY <1>2 DEF AnyInv, MemoryOK
  <2>4. e \in Entry
    <3>1. PagesOK(o.table[p], o.swap[p]) /\ i \in DOMAIN o.table[p] /\ o.frame \in Frames
      BY <1>1, <2>1 DEF FoundAny
    <3>2. o.table[p][i] \in Entry
      BY <3>1, TablePages DEF PagesOK
    <3> QED
      BY <3>1, <3>2 DEF Entry, FrameOrNone
  <2>5. Take(o, job.child, NextPage, FALSE, content) /\ FALSE \in BOOLEAN
    BY <2>2 DEF i
  <2> HIDE DEF e, content
  <2> QED
    BY <1>1, <2>1, <2>2, <2>3, <2>4, <2>5, PagePutAny
<1> QED
  BY <1>4, <1>5

LEMMA ForkPageAny ==
    ASSUME AnyInv, ForkPage
    PROVE  AnyInv'
<1> DEFINE e == table[job.proc][NextPage]
<1>1. /\ mode = "fork" /\ NextPage < job.size /\ UNCHANGED pageReplaceAlgo
      /\ IF ~e.shared /\ Valid(job.proc, NextPage) THEN CopyPage(job.proc, NextPage)
         ELSE IF e.shared /\ e.swapped THEN Stop("assert")
         ELSE AddPage(e) /\ UNCHANGED <<mode, memoryVars, processVars>>
  BY DEF ForkPage
<1>2. e \in Entry
  BY <1>1, JobAny, LiveAny
<1> HIDE DEF e
<1>3. CASE ~e.shared /\ Valid(job.proc, NextPage)
  BY <1>1, <1>3, CopyPageAny
<1>4. CASE ~(~e.shared /\ Valid(job.proc, NextPage)) /\ e.shared /\ e.swapped
  BY <1>1, <1>4, StopsAny DEF Stops
<1>5. CASE ~(~e.shared /\ Valid(job.proc, NextPage)) /\ ~(e.shared /\ e.swapped)
  <2>1. AddPage(e) /\ UNCHANGED <<mode, memoryVars, processVars>>
    BY <1>1, <1>5
  <2>2. Kept
    BY <2>1 DEF Kept, memoryVars, processVars, AnyInv, AnyTables, TablesOf
  <2>3. AnyTables' /\ AnyPending'
    BY <2>1, <2>2, KeptAny DEF processVars
  <2>4. AnyProcesses'
    BY <1>1, <1>2, <2>1, <2>2, PageAddedAny DEF processVars
  <2>5. MemoryOK' /\ AnyCount'
    BY <2>1 DEF memoryVars, AnyInv, MemoryOK, AnyCount, Used
  <2> QED
    BY <2>3, <2>4, <2>5 DEF AnyInv
<1> QED
  BY <1>3, <1>4, <1>5

\* The page table entry of a page of shared memory
ShmEntry(f) == [FreshEntry EXCEPT !.physicalPage = f, !.shared = TRUE]

LEMMA ShmPageAny ==
    ASSUME AnyInv, ShmPage
    PROVE  AnyInv'
<1>1. mode = "shm" /\ NextPage < job.size /\ UNCHANGED pageReplaceAlgo
  BY DEF ShmPage
<1>2. PICK o \in PagetoEvict(None, replacement) :
        IF o.stop # "none" THEN Stop(o.stop)
        ELSE /\ Take(o, job.proc, NextPage, TRUE, Zero)
             /\ table' = o.table
             /\ AddPage(ShmEntry(o.frame))
             /\ UNCHANGED <<mode, processVars>>
  <2>1. PICK o \in PagetoEvict(None, replacement) :
          IF o.stop # "none" THEN Stop(o.stop)
          ELSE /\ Take(o, job.proc, NextPage, TRUE, Zero)
               /\ table' = o.table
               /\ AddPage([FreshEntry EXCEPT !.physicalPage = o.frame, !.shared = TRUE])
               /\ UNCHANGED <<mode, processVars>>
    BY Zenon DEF ShmPage
  <2>2. [FreshEntry EXCEPT !.physicalPage = o.frame, !.shared = TRUE] = ShmEntry(o.frame)
    BY DEF ShmEntry
  <2> QED
    BY <2>1, <2>2
<1>3. \A f \in Frames : ShmEntry(f) \in Entry /\ ~ShmEntry(f).swapped
  BY DEF ShmEntry, FreshEntry, Entry, FrameOrNone
<1>4. CASE o.stop # "none"
  BY <1>1, <1>2, <1>4, PagetoEvictStops, StopsAny
<1>5. CASE o.stop = "none"
  <2>1. FoundAny(o)
    BY <1>2, <1>5, LiveAny, FoundAnyFrame DEF FrameOrNone
  <2>2. /\ Take(o, job.proc, NextPage, TRUE, Zero) /\ table' = o.table
        /\ AddPage(ShmEntry(o.frame)) /\ UNCHANGED <<mode, processVars>>
    BY <1>2, <1>5
  <2>3. ShmEntry(o.frame) \in Entry /\ ~ShmEntry(o.frame).swapped
    BY <1>3, <2>1 DEF FoundAny
  <2>4. Zero \in Content /\ TRUE \in BOOLEAN /\ job.proc \in Pid /\ mode \in {"fork", "shm"}
    BY <1>1, JobAny DEF Content
  <2> QED
    BY <1>1, <2>1, <2>2, <2>3, <2>4, PagePutAny
<1> QED
  BY <1>4, <1>5

\* The table that a constructor has built
LEMMA BuiltTable ==
    ASSUME AnyInv, mode \in {"fork", "shm"}, NextPage = job.size
    PROVE  LET built == [v \in 0 .. job.size - 1 |-> job.pages[v + 1]]
           IN  /\ IsTable(built) /\ DOMAIN built = 0 .. job.size - 1
               /\ mode = "shm" => \A v \in DOMAIN built : ~built[v].swapped
<1> DEFINE built == [v \in 0 .. job.size - 1 |-> job.pages[v + 1]]
<1>1. /\ job.size \in NumPages .. VMPages /\ job.size \in Nat /\ job.pages \in Seq(Entry)
      /\ Len(job.pages) = job.size
      /\ mode = "shm" => \A k \in DOMAIN job.pages : ~job.pages[k].swapped
  <2>1. mode = "shm" => \A k \in DOMAIN job.pages : ~job.pages[k].swapped
    BY JobAny, AnyConstants DEF AnyJob
  <2> QED
    BY <2>1, JobAny DEF NextPage
<1>2. \A v \in 0 .. job.size - 1 : v + 1 \in DOMAIN job.pages /\ job.pages[v + 1] \in Entry
  BY <1>1
<1>3. built \in [0 .. job.size - 1 -> Entry]
  BY <1>2
<1>4. mode = "shm" => \A v \in 0 .. job.size - 1 : ~built[v].swapped
  BY <1>1, <1>2
<1> QED
  BY <1>1, <1>3, <1>4 DEF IsTable

LEMMA ForkDoneAny ==
    ASSUME AnyInv, ForkDone
    PROVE  AnyInv'
<1>0. PICK c, p, size : c = job.child /\ p = job.proc /\ size = job.size
  OBVIOUS
<1> DEFINE built == [v \in 0 .. size - 1 |-> job.pages[v + 1]]
           saved == [v \in 0 .. size - 1 |-> IF v \in DOMAIN SwapTable[p]
                                             THEN SwapTable[p][v] ELSE Zero]
<1>1. /\ mode = "fork" /\ NextPage = size /\ mode' = "run" /\ job' = NoJob
      /\ live' = live \cup {c}
      /\ table' = [table EXCEPT ![c] = built]
      /\ SwapTable' = [SwapTable EXCEPT ![c] = saved]
      /\ fileName' = [fileName EXCEPT ![c] = fileName[p]]
      /\ written' = [written EXCEPT ![c] = written[p]]
      /\ UNCHANGED <<pageReplaceAlgo, thread_index, PhysMap, numPagesAllocated, replacement,
                     mainMemory, pending, retrying>>
  BY <1>0 DEF ForkDone
<1>2. /\ c \in Pid \ live /\ c < thread_index /\ p \in live /\ p \in Pid
      /\ DOMAIN table[p] = 0 .. size - 1 /\ size \in NumPages .. VMPages
  BY <1>0, <1>1, JobAny
<1>3. IsTable(built) /\ DOMAIN built = 0 .. size - 1
  BY <1>0, <1>1, BuiltTable
<1>4. TablesOf(p)
  BY <1>2 DEF AnyInv, AnyTables
<1>5. IsBackup(saved) /\ DOMAIN saved = 0 .. size - 1
  <2>1. \A v \in DOMAIN SwapTable[p] : SwapTable[p][v] \in Content
    BY <1>4, BackupPages DEF TablesOf, PagesOK
  <2>2. Zero \in Content
    BY DEF Content
  <2>3. saved \in [0 .. size - 1 -> Content]
    BY <2>1, <2>2
  <2> QED
    BY <1>2, <2>3 DEF IsBackup
<1>6. IsBackup(written[p]) /\ DOMAIN written[p] = 0 .. size - 1
  BY <1>2, <1>4 DEF TablesOf
<1> DEFINE lastOnes == written[p]
<1>7. written' = [written EXCEPT ![c] = lastOnes]
  BY <1>1
<1> HIDE DEF built, saved, lastOnes
<1>8. /\ DOMAIN table' = Pid /\ DOMAIN SwapTable' = Pid /\ DOMAIN written' = Pid
      /\ table'[c] = built /\ SwapTable'[c] = saved /\ written'[c] = lastOnes
      /\ \A q \in live : q # c /\ table'[q] = table[q] /\ SwapTable'[q] = SwapTable[q]
                         /\ written'[q] = written[q]
  BY <1>1, <1>2, <1>7, LiveAny DEF AnyInv, AnyTables
<1>9. AnyTables'
  <2>1. ASSUME NEW q \in live PROVE TablesOf(q)'
    BY <1>8 DEF AnyInv, AnyTables, TablesOf
  <2>2. TablesOf(c)'
    BY <1>3, <1>5, <1>6, <1>8 DEF TablesOf, PagesOK, lastOnes
  <2> QED
    BY <1>1, <1>8, <2>1, <2>2 DEF AnyTables
<1>10. AnyPending'
  BY <1>1, <1>8 DEF AnyInv, AnyPending
<1>11. AnyProcesses'
  <2>1. fileName' \in [Pid -> [length : NameLengths, spelled : BOOLEAN]]
    BY <1>1, <1>2 DEF AnyInv, AnyProcesses
  <2>2. c \in 0 .. thread_index - 1
    BY <1>2, AnyConstants DEF AnyInv, AnyProcesses
  <2> QED
    BY <1>1, <2>1, <2>2 DEF AnyInv, AnyProcesses
<1>12. MemoryOK' /\ AnyCount'
  BY <1>1 DEF AnyInv, MemoryOK, AnyCount, Used
<1> QED
  BY <1>9, <1>10, <1>11, <1>12 DEF AnyInv

LEMMA ShmDoneAny ==
    ASSUME AnyInv, ShmDone
    PROVE  AnyInv'
<1>0. PICK p, size : p = job.proc /\ size = job.size
  OBVIOUS
<1> DEFINE built == [v \in 0 .. size - 1 |-> job.pages[v + 1]]
           longer == [v \in 0 .. size - 1 |-> IF v \in DOMAIN written[p]
                                              THEN written[p][v] ELSE Zero]
<1>1. /\ mode = "shm" /\ NextPage = size /\ mode' = "run" /\ job' = NoJob
      /\ table' = [table EXCEPT ![p] = built]
      /\ written' = [written EXCEPT ![p] =
                       [v \in 0 .. size - 1 |-> IF v \in DOMAIN @ THEN @[v] ELSE Zero]]
      /\ UNCHANGED <<pageReplaceAlgo, thread_index, live, PhysMap, numPagesAllocated,
                     replacement, mainMemory, SwapTable, fileName, pending, retrying>>
  BY <1>0 DEF ShmDone
<1>2. written' = [written EXCEPT ![p] = longer]
  BY <1>1, Zenon
<1>3. /\ p \in live /\ p \in Pid /\ size \in NumPages .. VMPages
      /\ DOMAIN table[p] \subseteq 0 .. size - 1
  BY <1>0, <1>1, JobAny, AnyConstants DEF AnyJob
<1>4. IsTable(built) /\ DOMAIN built = 0 .. size - 1 /\ \A v \in DOMAIN built : ~built[v].swapped
  BY <1>0, <1>1, BuiltTable
<1>5. TablesOf(p)
  BY <1>3 DEF AnyInv, AnyTables
<1>6. IsBackup(longer) /\ DOMAIN longer = 0 .. size - 1
  <2>1. \A v \in DOMAIN written[p] : written[p][v] \in Content
    BY <1>5, BackupPages DEF TablesOf
  <2>2. Zero \in Content
    BY DEF Content
  <2>3. longer \in [0 .. size - 1 -> Content]
    BY <2>1, <2>2
  <2> QED
    BY <1>3, <2>3 DEF IsBackup
<1> HIDE DEF built, longer
<1>7. /\ DOMAIN table' = Pid /\ DOMAIN written' = Pid
      /\ table'[p] = built /\ written'[p] = longer
      /\ \A q \in live : q # p => table'[q] = table[q] /\ written'[q] = written[q]
  BY <1>1, <1>2, <1>3, LiveAny DEF AnyInv, AnyTables
<1>8. AnyTables'
  <2>1. ASSUME NEW q \in live, q # p PROVE TablesOf(q)'
    BY <1>1, <1>7, <2>1 DEF AnyInv, AnyTables, TablesOf
  <2>2. TablesOf(p)'
    BY <1>1, <1>3, <1>4, <1>5, <1>6, <1>7 DEF TablesOf, PagesOK
  <2> QED
    BY <1>1, <1>7, <2>1, <2>2 DEF AnyInv, AnyTables
<1>9. AnyPending'
  <2>1. \A q \in live : DOMAIN table[q] \subseteq DOMAIN table'[q]
    BY <1>3, <1>4, <1>7
  <2> QED
    BY <1>1, <2>1 DEF AnyInv, AnyPending
<1>10. AnyProcesses'
  BY <1>1 DEF AnyInv, AnyProcesses
<1>11. MemoryOK' /\ AnyCount'
  BY <1>1 DEF AnyInv, MemoryOK, AnyCount, Used
<1> QED
  BY <1>8, <1>9, <1>10, <1>11 DEF AnyInv

-----------------------------------------------------------------------------
(* Exec and Exit *)

LEMMA RenameType ==
    ASSUME NEW old \in [length : NameLengths, spelled : BOOLEAN], NEW n \in NameLengths
    PROVE  Rename(old, n) \in [length : NameLengths, spelled : BOOLEAN]
<1> DEFINE lengths == {n, old.length}
<1>1. n \in Nat /\ old.length \in Nat /\ old.length \in NameLengths
  BY FileAssumption
<1>2. \E m \in lengths : \A k \in lengths : m >= k
  BY <1>1
<1>3. Max(lengths) \in lengths
  <2> HIDE DEF lengths
  <2> QED
    BY <1>2 DEF Max
<1>4. Max(lengths) \in NameLengths /\ (n >= old.length) \in BOOLEAN
  BY <1>1, <1>3
<1> HIDE DEF lengths
<1> QED
  BY <1>4 DEF Rename, lengths

\* The tables and the contents of process p are those of a new program.
LEMMA ExecAny ==
    ASSUME AnyInv, NEW p \in Pid, Exec(p)
    PROVE  AnyInv'
<1>1. /\ mode = "run" /\ p \in live /\ pending[p] = NoInstruction
      /\ Fetch(p) /\ FreePages(p)
      /\ table' = [table EXCEPT ![p] = FreshTable]
      /\ SwapTable' = [SwapTable EXCEPT ![p] = FreshSwap]
      /\ written' = [written EXCEPT ![p] = FreshProgram]
      /\ UNCHANGED <<pageReplaceAlgo, pending, mode, job, thread_index, live, mainMemory,
                     retrying>>
  BY DEF Exec, Trap
<1>2. fileName' \in [Pid -> [length : NameLengths, spelled : BOOLEAN]]
  <2>1. PICK n \in NameLengths : fileName' = [fileName EXCEPT ![p] = Rename(fileName[p], n)]
    BY DEF Exec
  <2>2. /\ fileName \in [Pid -> [length : NameLengths, spelled : BOOLEAN]]
        /\ fileName[p] \in [length : NameLengths, spelled : BOOLEAN]
    BY DEF AnyInv, AnyProcesses
  <2>3. Rename(fileName[p], n) \in [length : NameLengths, spelled : BOOLEAN]
    BY <2>2, RenameType
  <2> QED
    BY <2>1, <2>2, <2>3
<1>3. /\ DOMAIN table' = Pid /\ DOMAIN SwapTable' = Pid /\ DOMAIN written' = Pid
      /\ table'[p] = FreshTable /\ SwapTable'[p] = FreshSwap /\ written'[p] = FreshProgram
      /\ \A q \in live : q # p => /\ table'[q] = table[q] /\ SwapTable'[q] = SwapTable[q]
                                  /\ written'[q] = written[q]
  BY <1>1, LiveAny DEF AnyInv, AnyTables
<1>4. AnyTables'
  <2>1. ASSUME NEW q \in live, q # p PROVE TablesOf(q)'
    BY <1>3, <2>1 DEF AnyInv, AnyTables, TablesOf
  <2>2. TablesOf(p)'
    BY <1>3, FreshTables DEF TablesOf
  <2> QED
    BY <1>1, <1>3, <2>1, <2>2 DEF AnyTables
<1>5. AnyPending'
  BY <1>1, <1>3 DEF AnyInv, AnyPending
<1>6. AnyProcesses'
  BY <1>1, <1>2 DEF AnyInv, AnyProcesses
<1>7. AnyCount' /\ MemoryOK'
  BY <1>1, FreedAny, FetchAny DEF AnyInv, MemoryOK
<1> QED
  BY <1>4, <1>5, <1>6, <1>7 DEF AnyInv

LEMMA ExecMissingAny ==
    ASSUME AnyInv, NEW p \in Pid, ExecMissing(p)
    PROVE  AnyInv'
<1>1. /\ mode = "run" /\ p \in live /\ Fetch(p) /\ FreePages(p)
      /\ retrying' = retrying \cup {p}
      /\ UNCHANGED <<pageReplaceAlgo, mode, job, thread_index, live, table, mainMemory,
                     SwapTable, fileName, pending, written>>
  BY DEF ExecMissing
<1>2. AnyProcesses' /\ AnyPending' /\ AnyTables'
  BY <1>1 DEF AnyInv, AnyProcesses, AnyPending, AnyTables, TablesOf
<1>3. AnyCount' /\ MemoryOK'
  BY <1>1, FreedAny, FetchAny DEF AnyInv, MemoryOK
<1> QED
  BY <1>2, <1>3 DEF AnyInv

LEMMA ExitAny ==
    ASSUME AnyInv, NEW p \in Pid, Exit(p)
    PROVE  AnyInv'
<1>1. /\ mode = "run" /\ p \in live \ retrying /\ pending[p] = NoInstruction
      /\ Fetch(p) /\ FreePages(p) /\ live' = live \ {p}
      /\ table' = [table EXCEPT ![p] = <<>>]
      /\ SwapTable' = [SwapTable EXCEPT ![p] = <<>>]
      /\ written' = [written EXCEPT ![p] = <<>>]
      /\ UNCHANGED <<pageReplaceAlgo, pending, mode, job, thread_index, mainMemory,
                     fileName, retrying>>
  BY DEF Exit, Trap
<1>2. /\ DOMAIN table' = Pid /\ DOMAIN SwapTable' = Pid /\ DOMAIN written' = Pid
      /\ \A q \in live' : /\ q \in live /\ table'[q] = table[q]
                          /\ SwapTable'[q] = SwapTable[q] /\ written'[q] = written[q]
  BY <1>1, LiveAny DEF AnyInv, AnyTables
<1>3. AnyTables'
  BY <1>2 DEF AnyInv, AnyTables, TablesOf
<1>4. AnyPending'
  BY <1>1, <1>2 DEF AnyInv, AnyPending
<1>5. AnyProcesses'
  BY <1>1 DEF AnyInv, AnyProcesses
<1>6. AnyCount' /\ MemoryOK'
  BY <1>1, FreedAny, FetchAny DEF AnyInv, MemoryOK
<1> QED
  BY <1>3, <1>4, <1>5, <1>6 DEF AnyInv

LEMMA LastExitAny ==
    ASSUME AnyInv, NEW p \in Pid, LastExit(p)
    PROVE  AnyInv'
<1>1. /\ p \in live /\ Fetch(p) /\ mode' = "halted"
      /\ UNCHANGED <<pageReplaceAlgo, pending, job, table, PhysMap, numPagesAllocated,
                     mainMemory, SwapTable, thread_index, live, fileName, retrying, written>>
  BY DEF LastExit, Trap
<1>2. AnyPending'
  BY <1>1 DEF AnyInv, AnyPending
<1> QED
  BY <1>1, <1>2, FetchAny, StopAny

-----------------------------------------------------------------------------
(* The types, in general *)

LEMMA AnyInit == Init => AnyInv
<1> SUFFICES ASSUME Init PROVE AnyInv
  OBVIOUS
<1>1. 0 \in Pid /\ 1 \in 1 .. MAX_THREAD_COUNT /\ 0 \in Frames /\ 0 \in 0 .. NumPhysPages
      /\ 0 \in 0 .. 1 - 1
  BY AnyConstants DEF Pid, Frames
<1>2. /\ pageReplaceAlgo \in Algorithms /\ mode = "run" /\ job = NoJob
      /\ thread_index = 1 /\ live = {0} /\ retrying = {} /\ numPagesAllocated = 0
      /\ fileName \in [Pid -> {[length |-> n, spelled |-> TRUE] : n \in NameLengths}]
      /\ pending = [p \in Pid |-> NoInstruction]
      /\ table = [p \in Pid |-> IF p = 0 THEN FreshTable ELSE <<>>]
      /\ SwapTable = [p \in Pid |-> IF p = 0 THEN FreshSwap ELSE <<>>]
      /\ written = [p \in Pid |-> IF p = 0 THEN FreshProgram ELSE <<>>]
      /\ PhysMap = [f \in Frames |-> [IsEmpty |-> TRUE, processID |-> None,
                                      virtPage |-> None, IsShared |-> FALSE]]
      /\ replacement = [list |-> <<>>, Refbit |-> [f \in Frames |-> FALSE], headpt |-> 0]
      /\ mainMemory = [f \in Frames |-> Zero]
  BY DEF Init
<1>3. AnyProcesses
  <2> DEFINE names == {[length |-> n, spelled |-> TRUE] : n \in NameLengths}
  <2>1. fileName \in [Pid -> [length : NameLengths, spelled : BOOLEAN]]
    <3>1. \A x \in names : x \in [length : NameLengths, spelled : BOOLEAN]
      <4>1. \A n \in NameLengths :
              [length |-> n, spelled |-> TRUE] \in [length : NameLengths, spelled : BOOLEAN]
        OBVIOUS
      <4>2. \A x \in names : \E n \in NameLengths : x = [length |-> n, spelled |-> TRUE]
        OBVIOUS
      <4> HIDE DEF names
      <4> QED
        BY <4>1, <4>2, Zenon
    <3>2. fileName \in [Pid -> names]
      BY <1>2
    <3> HIDE DEF names
    <3> QED
      BY <3>1, <3>2
  <2> QED
    BY <1>1, <1>2, <2>1 DEF AnyProcesses
<1>4. AnyPending
  BY <1>2 DEF AnyPending
<1>5. AnyTables
  BY <1>1, <1>2, FreshTables DEF AnyTables, TablesOf
<1>6. MemoryOK
  <2>1. None \in Int
    BY DEF None
  <2> QED
    BY <1>1, <1>2, <2>1 DEF MemoryOK, CoreMap, PidOrNone, Replacement, Content
<1>7. AnyCount
  <2>1. Used = {}
    BY <1>2 DEF Used
  <2>2. Cardinality(Used) = 0
    BY <2>1, FS_EmptySet
  <2> QED
    BY <1>1, <1>2, <2>2 DEF AnyCount
<1> QED
  BY <1>3, <1>4, <1>5, <1>6, <1>7 DEF AnyInv

LEMMA AnyStep == AnyInv /\ [Next]_vars => AnyInv'
<1> SUFFICES ASSUME AnyInv, [Next]_vars PROVE AnyInv'
  OBVIOUS
<1>1. CASE \E p \in Pid : \/ Instruction(p) \/ BeginFork(p) \/ BeginShm(p)
                          \/ Exec(p) \/ ExecMissing(p) \/ Exit(p) \/ LastExit(p)
  BY <1>1, InstructionAny, BeginForkAny, BeginShmAny, ExecAny, ExecMissingAny, ExitAny,
     LastExitAny
<1>2. CASE ForkPage \/ ForkDone \/ ShmPage \/ ShmDone
  BY <1>2, ForkPageAny, ForkDoneAny, ShmPageAny, ShmDoneAny
<1>3. CASE Terminated \/ UNCHANGED vars
  <2>1. UNCHANGED vars
    BY <1>3 DEF Terminated
  <2> QED
    BY <2>1 DEF vars, AnyInv, AnyProcesses, AnyJob, AnyPending, AnyTables, TablesOf,
                MemoryOK, AnyCount, Used
<1> QED
  BY <1>1, <1>2, <1>3 DEF Next

LEMMA AnyImplies == AnyInv => TypeOK
<1> SUFFICES ASSUME AnyInv PROVE TypeOK
  OBVIOUS
<1>1. JobOK
  <2>1. CASE job = NoJob
    <3>1. <<>> \in Seq(Entry) /\ Len(<<>>) = 0 /\ 0 \in 0 .. VMPages
      BY AnyConstants
    <3>2. None \notin live /\ None \notin Pid
      BY LiveAny, AnyConstants
    <3>3. mode \notin {"fork", "shm"}
      BY <2>1, <3>2 DEF NoJob, AnyInv, AnyProcesses
    <3> QED
      BY <2>1, <3>1, <3>3 DEF JobOK, NoJob, PidOrNone
  <2>2. CASE job # NoJob
    <3>1. AnyJob
      BY <2>2 DEF AnyInv, AnyProcesses
    <3>2. job.size \in 0 .. VMPages
      BY <3>1, AnyConstants DEF AnyJob
    <3>3. job.proc \in PidOrNone /\ job.child \in PidOrNone
      BY <3>1, LiveAny DEF AnyJob, PidOrNone
    <3>4. mode = "fork" => job.child \in 0 .. thread_index - 1 /\ job.child \notin live
      <4>1. mode = "fork" => /\ job.child \in Pid \ live /\ job.child < thread_index
        BY JobAny
      <4>2. thread_index \in Int
        BY AnyConstants DEF AnyInv, AnyProcesses
      <4>3. \A c \in Pid : c < thread_index => c \in 0 .. thread_index - 1
        BY <4>2, AnyConstants
      <4> QED
        BY <4>1, <4>3
    <3> QED
      BY <3>1, <3>2, <3>3, <3>4 DEF JobOK, AnyJob
  <2> QED
    BY <2>1, <2>2
<1>2. ASSUME NEW p \in live
      PROVE  /\ DOMAIN table[p] = DOMAIN written[p]
             /\ DOMAIN SwapTable[p] \subseteq DOMAIN table[p]
             /\ \A v \in DOMAIN table[p] :
                  table[p][v] \in Entry /\ written[p][v] \in Content
             /\ \A v \in DOMAIN SwapTable[p] : SwapTable[p][v] \in Content
  <2>1. TablesOf(p)
    BY DEF AnyInv, AnyTables
  <2> QED
    BY <2>1, TablePages, BackupPages DEF TablesOf, PagesOK
<1>3. /\ replacement.list \in Seq(Frames)
      /\ replacement.Refbit \in [Frames -> BOOLEAN] /\ replacement.headpt \in Frames
  BY LiveAny DEF Replacement
<1>4. /\ pageReplaceAlgo \in {RANDOM, FIFO, LRU, CLOCK}
      /\ mode \in {"run", "fork", "shm", "halted"} \cup Stops
      /\ thread_index \in 1 .. MAX_THREAD_COUNT /\ live \subseteq 0 .. thread_index - 1
      /\ fileName \in [Pid -> [length : NameLengths, spelled : BOOLEAN]]
      /\ retrying \subseteq live
      /\ pending \in [Pid -> Instructions \cup {NoInstruction}]
  BY LiveAny DEF AnyInv, AnyProcesses, AnyPending
<1>5. /\ PhysMap \in [Frames -> CoreMap] /\ mainMemory \in [Frames -> Content]
      /\ numPagesAllocated \in 0 .. NumPhysPages
  BY DEF AnyInv, MemoryOK, AnyCount
<1> QED
  BY <1>1, <1>2, <1>3, <1>4, <1>5 DEF TypeOK

LEMMA AnyInvCorrect == Spec => []AnyInv
<1>1. QED
  BY AnyInit, AnyStep, PTL DEF Spec

\* Whatever is shared, executed or missing, and whichever algorithm replaces pages:
\* numPagesAllocated, which is unsigned and which PagetoEvict compares with the size of
\* the memory, stays within 0 .. NumPhysPages, although a frame of a shared page may be
\* given out again and is then counted twice; and every backup fits its page table.
THEOREM PagingTypeCorrect == Spec => []TypeOK
<1>1. QED
  BY AnyInvCorrect, AnyImplies, PTL

\* Under the same conditions, and whichever frames of shared pages were given out again:
\* while PagetoEvict finds numPagesAllocated below the size of the memory, its scan of
\* the core map for a frame that is empty or shared ends within the core map.
THEOREM ScanEndsCorrect == Spec => []ScanEnds
<1>1. AnyInv => ScanEnds
  <2>1. SUFFICES ASSUME AnyInv, numPagesAllocated < NumPhysPages
                 PROVE  Available # {}
    BY DEF ScanEnds
  <2>2. Used # Frames
    <3>1. Cardinality(Used) <= numPagesAllocated /\ numPagesAllocated \in Nat
      BY <2>1, AnyConstants DEF AnyInv, AnyCount
    <3>2. Cardinality(Frames) = NumPhysPages /\ NumPhysPages \in Nat
      BY ConstantFacts
    <3>3. Cardinality(Used) \in Nat
      BY UsedAny
    <3> QED
      BY <2>1, <3>1, <3>2, <3>3
  <2>3. PICK f \in Frames : PhysMap[f].IsEmpty
    BY <2>2 DEF Used
  <2> QED
    BY <2>3 DEF Available
<1>2. QED
  BY AnyInvCorrect, <1>1, PTL

-----------------------------------------------------------------------------
(* One process *)

Alone == MAX_THREAD_COUNT = 1 /\ VMPages = NumPages /\ NumPhysPages >= 2

Queueing == pageReplaceAlgo \in {FIFO, LRU}

\* A frame in use is that of the page of process 0 which the core map names, even if the
\* page table, after an Exec of a missing file, maps other pages to the same frame.
NamedAlone(f) ==
    LET c == PhysMap[f] IN
    /\ ~c.IsShared
    /\ ~c.IsEmpty => c.processID = 0 /\ c.virtPage \in VPages
                     /\ table[0][c.virtPage].physicalPage = f

\* A frame in use is on the list, or it is that of a page which instruction i needs.
Queued(l, i) ==
    Queueing => \A f \in Used : \/ f \in ToSet(l)
                                \/ \E v \in VPages : /\ v \in {i.fetch, i.data}
                                                     /\ table[0][v].physicalPage = f

\* The inductive strengthening of RunsOn for one process.
AloneInv ==
    /\ AnyInv
    /\ mode \in {"run", "halted"} /\ live = {0}
    /\ \A f \in Frames : NamedAlone(f)
    /\ numPagesAllocated = Cardinality(Used)
    /\ Queued(replacement.list, pending[0])

LEMMA AloneTables ==
    ASSUME Alone, AnyInv, live = {0}
    PROVE  /\ 0 \in Pid /\ Pid = {0} /\ DOMAIN table = Pid /\ DOMAIN SwapTable = Pid
           /\ DOMAIN table[0] = VPages /\ DOMAIN SwapTable[0] = VPages
           /\ \A v \in VPages : Valid(0, v) => table[0][v].physicalPage \in Frames
<1>1. Pid = {0}
  BY DEF Alone, Pid
<1>2. TablesOf(0) /\ DOMAIN table = Pid /\ DOMAIN SwapTable = Pid
  BY DEF AnyInv, AnyTables
<1>3. \A n \in NumPages .. VMPages : n = NumPages
  BY AnyConstants DEF Alone
<1>4. DOMAIN table[0] = VPages
  BY <1>2, <1>3, TablePages DEF TablesOf, PagesOK, VPages
<1>5. DOMAIN SwapTable[0] = VPages
  BY <1>2, <1>3, BackupPages DEF TablesOf, PagesOK, VPages
<1> QED
  BY <1>1, <1>2, <1>4, <1>5, LiveAny

\* Without one of its elements, a list has the others.
LEMMA WithoutOne ==
    ASSUME NEW S, NEW l \in Seq(S), NEW k \in 1 .. Len(l), NEW g \in ToSet(l), g # l[k]
    PROVE  \/ \E j \in 1 .. Len(SubSeq(l, 1, k - 1)) : SubSeq(l, 1, k - 1)[j] = g
           \/ \E j \in 1 .. Len(SubSeq(l, k + 1, Len(l))) : SubSeq(l, k + 1, Len(l))[j] = g
<1>1. PICK i \in 1 .. Len(l) : l[i] = g
  BY DEF ToSet
<1>2. i # k /\ Len(l) \in Nat /\ i \in Int /\ k \in Int
  BY <1>1
<1>3. /\ Len(SubSeq(l, 1, k - 1)) = k - 1
      /\ \A j \in 1 .. k - 1 : SubSeq(l, 1, k - 1)[j] = l[j]
  OBVIOUS
<1>4. /\ Len(SubSeq(l, k + 1, Len(l))) = Len(l) - k
      /\ \A j \in 1 .. Len(l) - k : SubSeq(l, k + 1, Len(l))[j] = l[k + j]
  OBVIOUS
<1>5. CASE i < k
  <2>1. i \in 1 .. k - 1
    BY <1>2, <1>5
  <2> QED
    BY <1>1, <1>3, <2>1
<1>6. CASE i > k
  <2>1. PICK j : j = i - k
    OBVIOUS
  <2>2. j \in 1 .. Len(l) - k /\ k + j = i
    BY <1>2, <1>6, <2>1
  <2> QED
    BY <1>1, <1>4, <2>2
<1>7. i < k \/ i > k
  BY <1>2
<1> QED
  BY <1>5, <1>6, <1>7, Zenon

LEMMA InConcat ==
    ASSUME NEW S, NEW s \in Seq(S), NEW t \in Seq(S), NEW g,
           \/ \E j \in 1 .. Len(s) : s[j] = g
           \/ \E j \in 1 .. Len(t) : t[j] = g
    PROVE  g \in ToSet(s \o t)
<1>1. /\ Len(s \o t) = Len(s) + Len(t) /\ Len(s) \in Nat /\ Len(t) \in Nat
      /\ DOMAIN (s \o t) = 1 .. Len(s) + Len(t)
      /\ \A i \in 1 .. Len(s) + Len(t) :
           (s \o t)[i] = IF i <= Len(s) THEN s[i] ELSE t[i - Len(s)]
  OBVIOUS
<1>2. CASE \E j \in 1 .. Len(s) : s[j] = g
  <2>1. PICK j \in 1 .. Len(s) : s[j] = g
    BY <1>2
  <2>2. j \in 1 .. Len(s) + Len(t) /\ (s \o t)[j] = g
    BY <1>1, <2>1
  <2> QED
    BY <1>1, <2>2 DEF ToSet
<1>3. CASE \E j \in 1 .. Len(t) : t[j] = g
  <2>1. PICK j \in 1 .. Len(t) : t[j] = g
    BY <1>3
  <2>2. PICK i : i = j + Len(s)
    OBVIOUS
  <2>3. i \in 1 .. Len(s) + Len(t) /\ ~(i <= Len(s)) /\ i - Len(s) = j
    BY <1>1, <2>2
  <2>4. (s \o t)[i] = g
    BY <1>1, <2>1, <2>3
  <2> QED
    BY <1>1, <2>3, <2>4 DEF ToSet
<1> QED
  BY <1>2, <1>3

LEMMA InAppend ==
    ASSUME NEW S, NEW s \in Seq(S), NEW e \in S
    PROVE  e \in ToSet(Append(s, e)) /\ ToSet(s) \subseteq ToSet(Append(s, e))
<1>1. /\ DOMAIN Append(s, e) = 1 .. Len(s) + 1 /\ DOMAIN s = 1 .. Len(s) /\ Len(s) \in Nat
      /\ Append(s, e)[Len(s) + 1] = e
      /\ \A i \in 1 .. Len(s) : Append(s, e)[i] = s[i]
  OBVIOUS
<1>2. Len(s) + 1 \in 1 .. Len(s) + 1 /\ \A i \in 1 .. Len(s) : i \in 1 .. Len(s) + 1
  BY <1>1
<1> QED
  BY <1>1, <1>2 DEF ToSet

LEMMA KeptByRemove ==
    ASSUME NEW S, NEW l \in Seq(S), NEW e, NEW g \in ToSet(l), g # e
    PROVE  g \in ToSet(RemoveFirst(l, e))
<1> DEFINE I == {i \in 1 .. Len(l) : l[i] = e}
           m == Min(I)
<1>1. CASE I # {}
  <2>1. I \in SUBSET (0 .. Len(l)) /\ Len(l) \in Nat
    OBVIOUS
  <2>2. m \in I
    <3> HIDE DEF I
    <3> QED
      BY <1>1, <2>1, LeastNumber
  <2>3. RemoveFirst(l, e) = SubSeq(l, 1, m - 1) \o SubSeq(l, m + 1, Len(l))
    BY <1>1 DEF RemoveFirst, RemoveAt, SelectInSeq
  <2>4. m \in 1 .. Len(l) /\ l[m] = e
    BY <2>2
  <2> HIDE DEF m, I
  <2>5. SubSeq(l, 1, m - 1) \in Seq(S) /\ SubSeq(l, m + 1, Len(l)) \in Seq(S)
    BY <2>1, <2>4, SubSeqProperties
  <2> QED
    BY <2>3, <2>4, <2>5, WithoutOne, InConcat
<1>2. CASE I = {}
  BY <1>2 DEF RemoveFirst
<1> QED
  BY <1>1, <1>2

\* A reference to a frame that is not shared puts it on the list.
LEMMA AccessQueues ==
    ASSUME Queueing, NEW f \in Frames, ~PhysMap[f].IsShared, NEW r \in Replacement
    PROVE  /\ f \in ToSet(Access(f, r).list)
           /\ ToSet(r.list) \subseteq ToSet(Access(f, r).list)
<1>1. r.list \in Seq(Frames) /\ \A l : [r EXCEPT !.list = l].list = l
  BY DEF Replacement
<1>2. CASE pageReplaceAlgo = FIFO /\ f \notin ToSet(r.list)
  <2>1. Access(f, r) = [r EXCEPT !.list = Append(r.list, f)]
    BY <1>2, ConstantFacts DEF Access, FIFO, LRU, CLOCK
  <2> QED
    BY <1>1, <2>1, InAppend
<1>3. CASE pageReplaceAlgo = FIFO /\ f \in ToSet(r.list)
  <2>1. Access(f, r) = r
    BY <1>3 DEF Access, FIFO, LRU, CLOCK
  <2> QED
    BY <1>3, <2>1
<1>4. CASE pageReplaceAlgo = LRU
  <2>1. Access(f, r) = [r EXCEPT !.list = Append(RemoveFirst(r.list, f), f)]
    BY <1>4 DEF Access, FIFO, LRU, CLOCK
  <2>2. RemoveFirst(r.list, f) \in Seq(Frames)
    BY <1>1, RemoveFirstType
  <2>3. \A g \in ToSet(r.list) : g = f \/ g \in ToSet(RemoveFirst(r.list, f))
    BY <1>1, KeptByRemove
  <2> QED
    BY <1>1, <2>1, <2>2, <2>3, InAppend
<1> QED
  BY <1>2, <1>3, <1>4 DEF Queueing

\* A replacement takes no other frame than the victim off the list.
LEMMA VictimQueues ==
    ASSUME Queueing, NEW r \in Replacement, r.list # <<>>, NEW v \in replacePage(None, r),
           NEW g \in ToSet(r.list), g # v.frame
    PROVE  g \in ToSet(v.replacement.list)
<1> DEFINE l == r.list
<1>1. l \in Seq(Frames) /\ \A m : [r EXCEPT !.list = m].list = m
  BY DEF Replacement
<1>2. \A f, m : Chosen(f, m).frame = f /\ Chosen(f, m).replacement = m
  BY DEF Chosen
<1>3. CASE pageReplaceAlgo = FIFO
  <2> DEFINE others == {i \in DOMAIN l : l[i] # None}
             k == Min(others)
             moved == SubSeq(l, k + 1, Len(l)) \o SubSeq(l, 1, k - 1)
  <2>1. v = Chosen(l[k], [r EXCEPT !.list = moved]) /\ others # {}
    BY <1>3 DEF replacePage, FifoVictims, RANDOM, FIFO, LRU, CLOCK
  <2>2. others \in SUBSET (0 .. Len(l)) /\ Len(l) \in Nat /\ others \subseteq 1 .. Len(l)
    BY <1>1
  <2>3. k \in 1 .. Len(l)
    <3> HIDE DEF others
    <3>1. k \in others
      BY <2>1, <2>2, LeastNumber
    <3> QED
      BY <2>2, <3>1
  <2> HIDE DEF k, l
  <2>4. SubSeq(l, 1, k - 1) \in Seq(Frames) /\ SubSeq(l, k + 1, Len(l)) \in Seq(Frames)
    BY <1>1, <2>2, <2>3, SubSeqProperties
  <2>5. g # l[k] /\ g \in ToSet(l)
    BY <1>2, <2>1 DEF l
  <2>6. g \in ToSet(moved)
    BY <1>1, <2>3, <2>4, <2>5, WithoutOne, InConcat
  <2> HIDE DEF moved
  <2>7. [r EXCEPT !.list = moved].list = moved
    BY <1>1
  <2>8. v.replacement = [r EXCEPT !.list = moved]
    BY <2>1 DEF Chosen
  <2> QED
    BY <2>6, <2>7, <2>8
<1>4. CASE pageReplaceAlgo = LRU
  <2>1. v \in LruVictims(None, r)
    BY <1>4 DEF replacePage, RANDOM, FIFO, LRU, CLOCK
  <2>2. Head(l) \in Frames /\ Tail(l) \in Seq(Frames)
    BY <1>1, HeadTailProperties
  <2>3. Head(l) # None
    BY <2>2, AnyConstants
  <2>4. v = Chosen(Head(l), [r EXCEPT !.list = Append(Tail(l), Head(l))])
    BY <2>1, <2>3 DEF LruVictims
  <2>5. g # Head(l)
    BY <1>2, <2>4
  <2>6. g \in ToSet(Tail(l))
    <3>1. PICK i \in 1 .. Len(l) : l[i] = g
      BY <1>1 DEF ToSet
    <3>2. i # 1
      BY <1>1, <2>5, <3>1
    <3>3. PICK j : j = i - 1
      OBVIOUS
    <3>4. j \in 1 .. Len(Tail(l)) /\ Tail(l)[j] = g /\ DOMAIN Tail(l) = 1 .. Len(Tail(l))
      BY <1>1, <3>1, <3>2, <3>3
    <3> QED
      BY <3>4 DEF ToSet
  <2> DEFINE moved == Append(Tail(l), Head(l))
  <2>7. g \in ToSet(moved) /\ v = Chosen(Head(l), [r EXCEPT !.list = moved])
    BY <2>2, <2>4, <2>6, InAppend
  <2> HIDE DEF moved
  <2>8. [r EXCEPT !.list = moved].list = moved
    BY <1>1
  <2>9. v.replacement = [r EXCEPT !.list = moved]
    BY <2>7 DEF Chosen
  <2> QED
    BY <2>7, <2>8, <2>9
<1> QED
  BY <1>3, <1>4 DEF Queueing

\* The search for a victim ends.
LEMMA VictimExists ==
    ASSUME NEW r \in Replacement, pageReplaceAlgo \in {RANDOM, FIFO, LRU, CLOCK},
           Queueing => r.list # <<>>, \A f \in Frames : ~PhysMap[f].IsShared
    PROVE  replacePage(None, r) # {}
<1>1. 0 \in Frames /\ None \notin Frames
  BY AnyConstants DEF Frames
<1>2. CASE pageReplaceAlgo = RANDOM
  <2>1. Chosen(0, r) \in RandomVictims(None, r)
    BY <1>1 DEF RandomVictims
  <2> QED
    BY <1>2, <2>1 DEF replacePage, RANDOM, FIFO, LRU, CLOCK
<1>3. CASE pageReplaceAlgo = FIFO
  <2>1. r.list \in Seq(Frames) /\ r.list # <<>>
    BY <1>3 DEF Queueing, Replacement
  <2>2. 1 \in DOMAIN r.list /\ r.list[1] \in Frames
    BY <2>1
  <2>3. {i \in DOMAIN r.list : r.list[i] # None} # {}
    BY <1>1, <2>2
  <2>4. FifoVictims(None, r) # {}
    BY <2>3 DEF FifoVictims
  <2> QED
    BY <1>3, <2>4 DEF replacePage, RANDOM, FIFO, LRU, CLOCK
<1>4. CASE pageReplaceAlgo = LRU
  <2>1. LruVictims(None, r) # {}
    BY DEF LruVictims
  <2> QED
    BY <1>4, <2>1 DEF replacePage, RANDOM, FIFO, LRU, CLOCK
<1>5. CASE pageReplaceAlgo = CLOCK
  <2> DEFINE candidates == {k \in Frames : /\ FromHand(r, k) # None
                                           /\ ~PhysMap[FromHand(r, k)].IsShared}
  <2>1. FromHand(r, 0) \in Frames
    BY ConstantFacts DEF FromHand, Replacement
  <2>2. 0 \in candidates
    BY <1>1, <2>1
  <2>3. candidates # {}
    BY <2>2
  <2> HIDE DEF candidates
  <2>4. ClockVictims(None, r) # {}
    <3>1. ClockVictims(None, r) # {} \/ candidates = {}
      BY DEF ClockVictims, candidates
    <3> QED
      BY <2>3, <3>1
  <2> QED
    BY <1>5, <2>4 DEF replacePage, RANDOM, FIFO, LRU, CLOCK
<1> QED
  BY <1>2, <1>3, <1>4, <1>5

\* What a call of PagetoEvict leaves: the frame it found is counted, and no other page
\* than that of the frame is invalidated, nor taken off the list.
FoundAlone(o, l) ==
    /\ o.stop = "none" /\ o.frame \in Frames /\ o.count = Cardinality(Used \cup {o.frame})
    /\ DOMAIN o.table = Pid /\ DOMAIN o.table[0] = VPages
    /\ \A w \in VPages : \/ o.table[0][w].physicalPage = table[0][w].physicalPage
                         \/ table[0][w].physicalPage = o.frame
    /\ Queueing => \A g \in ToSet(l) : g # o.frame => g \in ToSet(o.replacement.list)

LEMMA EmptyAlone ==
    ASSUME Alone, AloneInv, NEW r \in Replacement, NEW o \in PagetoEvict(None, r),
           numPagesAllocated < NumPhysPages
    PROVE  FoundAlone(o, r.list)
<1> DEFINE f == Min(Available)
<1>1. AnyInv /\ live = {0} /\ numPagesAllocated = Cardinality(Used)
      /\ \A g \in Frames : ~PhysMap[g].IsShared
  BY DEF AloneInv, NamedAlone
<1>2. Used # Frames /\ Used \in SUBSET Frames /\ IsFiniteSet(Used)
  BY <1>1, ConstantFacts, UsedAny, AnyConstants
<1>3. Available # {}
  BY <1>2 DEF Available, Used
<1>4. o = Yields(f, Counted, r, table, SwapTable)
  BY <1>3 DEF PagetoEvict
<1>5. f \in Available
  <2>1. Available \in SUBSET (0 .. NumPhysPages - 1) /\ NumPhysPages - 1 \in Nat
    BY ConstantFacts DEF Available
  <2> QED
    BY <1>3, <2>1, LeastNumber
<1> HIDE DEF f
<1>6. f \in Frames /\ f \notin Used
  BY <1>1, <1>5 DEF Available, Used
<1>7. Cardinality(Used \cup {f}) = numPagesAllocated + 1
  BY <1>1, <1>2, <1>6, FS_AddElement
<1>8. /\ o.stop = "none" /\ o.frame = f /\ o.count = numPagesAllocated + 1
      /\ o.table = table /\ o.replacement = r
  BY <1>4 DEF Yields, Counted
<1> QED
  BY <1>1, <1>6, <1>7, <1>8, AloneTables DEF FoundAlone

LEMMA EvictAlone ==
    ASSUME Alone, AloneInv, NEW r \in Replacement, NEW o \in PagetoEvict(None, r),
           numPagesAllocated = NumPhysPages, Queueing => r.list # <<>>
    PROVE  FoundAlone(o, r.list)
<1>1. AnyInv /\ live = {0} /\ numPagesAllocated = Cardinality(Used)
      /\ \A g \in Frames : NamedAlone(g)
  BY DEF AloneInv
<1>2. Used = Frames
  <2>1. Used \in SUBSET Frames /\ IsFiniteSet(Frames) /\ Cardinality(Frames) = NumPhysPages
    BY UsedAny, ConstantFacts
  <2>2. Cardinality(Used) = Cardinality(Frames)
    BY <1>1, <2>1
  <2> QED
    BY <2>1, <2>2, FS_Subset
<1>3. /\ pageReplaceAlgo \in {RANDOM, FIFO, LRU, CLOCK} /\ replacePage(None, r) # {}
      /\ ~(numPagesAllocated < NumPhysPages)
  BY <1>1, LiveAny, AnyConstants, VictimExists DEF NamedAlone
<1>4. PICK v \in replacePage(None, r) : o = Evict(v)
  BY <1>3 DEF PagetoEvict, Queueing
<1>5. VictimOK(v)
  BY <1>3, <1>4, VictimType DEF FrameOrNone, Queueing
<1> DEFINE owner == PhysMap[v.frame].processID
           page == PhysMap[v.frame].virtPage
<1>6. /\ v.frame \in Frames /\ owner = 0 /\ page \in VPages
      /\ table[0][page].physicalPage = v.frame
  BY <1>1, <1>2, <1>5 DEF VictimOK, NamedAlone, Used
<1>7. o.stop = "none"
  <2>1. owner \in live /\ page \in DOMAIN table[owner] /\ page \in DOMAIN SwapTable[owner]
    BY <1>1, <1>6, AloneTables
  <2>2. \E s : o = Yields(v.frame, numPagesAllocated, v.replacement,
                 [table EXCEPT ![owner][page] = Invalidated(@)], s)
    BY <1>4, <2>1, Zenon DEF Evict
  <2> QED
    BY <2>2 DEF Yields
<1>8. EvictedFrom(o, v)
  BY <1>4, <1>7, EvictOutcome
<1>9. /\ o.frame = v.frame /\ o.count = numPagesAllocated /\ o.replacement = v.replacement
      /\ o.table = [table EXCEPT ![0] =
                      [table[0] EXCEPT ![page] = Invalidated(table[0][page])]]
  BY <1>6, <1>8 DEF EvictedFrom
<1>10. Used \cup {v.frame} = Used
  BY <1>2, <1>6
<1> HIDE DEF owner, page
<1>11. /\ DOMAIN o.table = Pid /\ DOMAIN o.table[0] = VPages
       /\ \A w \in VPages : w # page => o.table[0][w] = table[0][w]
  BY <1>1, <1>9, AloneTables
<1>12. Queueing => \A g \in ToSet(r.list) : g # v.frame => g \in ToSet(v.replacement.list)
  BY <1>4, VictimQueues
<1> QED
  BY <1>1, <1>6, <1>7, <1>9, <1>10, <1>11, <1>12 DEF FoundAlone

\* With two frames or more, the list is not empty when a victim is needed: of the two
\* pages that an instruction waits for, one has no frame.
LEMMA SomeQueued ==
    ASSUME Alone, AloneInv, NEW l \in Seq(Frames), NEW i, Queued(l, i), Queueing,
           NEW v \in VPages, v \in {i.fetch, i.data}, ~Valid(0, v),
           numPagesAllocated = NumPhysPages
    PROVE  l # <<>>
<1>1. Used = Frames
  <2>1. Used \in SUBSET Frames /\ IsFiniteSet(Frames) /\ Cardinality(Frames) = NumPhysPages
    BY UsedAny, ConstantFacts
  <2>2. Cardinality(Used) = Cardinality(Frames)
    BY <2>1 DEF AloneInv
  <2> QED
    BY <2>1, <2>2, FS_Subset
<1>2. 0 \in Frames /\ 1 \in Frames /\ None \notin Frames
  BY AnyConstants DEF Alone, Frames
<1> SUFFICES ASSUME l = <<>> PROVE FALSE
  OBVIOUS
<1>3. \A f \in Frames : \E w \in {i.fetch, i.data} : w # v /\ table[0][w].physicalPage = f
  <2>1. ToSet(<<>>) = {}
    BY DEF ToSet
  <2>2. \A f \in Frames : \E w \in VPages : /\ w \in {i.fetch, i.data}
                                           /\ table[0][w].physicalPage = f
    BY <1>1, <2>1 DEF Queued
  <2> QED
    BY <1>2, <2>2 DEF Valid
<1> QED
  BY <1>2, <1>3

\* A page fault of the only process for one of the pages of instruction i
LEMMA FaultAlone ==
    ASSUME Alone, AloneInv, AnyInv', mode = "run", NEW i, NEW v \in VPages,
           v \in {i.fetch, i.data}, ~Valid(0, v), NEW r \in Replacement,
           Queued(r.list, i), PageFault(0, i, v, r)
    PROVE  AloneInv'
<1>1. /\ LoadPage(0, v, r) /\ pending' = [pending EXCEPT ![0] = i]
      /\ live' = live /\ pageReplaceAlgo' = pageReplaceAlgo
  BY DEF PageFault
<1>2. AnyInv /\ live = {0} /\ numPagesAllocated = Cardinality(Used)
      /\ \A f \in Frames : NamedAlone(f)
  BY DEF AloneInv
<1>3. pending'[0] = i
  BY <1>1, <1>2, AloneTables DEF AnyInv, AnyPending
<1>4. CASE ~fileName[0].spelled
  <2>1. replacement' = r /\ UNCHANGED <<mode, table, PhysMap, numPagesAllocated>>
    BY <1>1, <1>4 DEF LoadPage
  <2>2. Queued(replacement.list, pending[0])'
    BY <1>1, <1>3, <2>1 DEF Queued, Queueing, Used
  <2> QED
    BY <1>1, <1>2, <2>1, <2>2 DEF AloneInv, NamedAlone, Used
<1>5. CASE fileName[0].spelled
  <2>1. PICK o \in PagetoEvict(None, r) :
           IF o.stop # "none"
           THEN /\ mode' = o.stop
                /\ UNCHANGED memoryVars
           ELSE /\ Take(o, 0, v, FALSE, Loaded(o, 0, v))
                /\ table' = [o.table EXCEPT ![0][v] =
                               [FreshEntry EXCEPT !.physicalPage = o.frame]]
                /\ UNCHANGED mode
    BY <1>1, <1>5, Zenon DEF LoadPage
  <2>2. FoundAlone(o, r.list)
    <3>1. CASE numPagesAllocated < NumPhysPages
      BY <3>1, EmptyAlone
    <3>2. CASE ~(numPagesAllocated < NumPhysPages)
      <4>1. numPagesAllocated = NumPhysPages
        BY <1>2, <3>2, LiveAny, AnyConstants
      <4>2. r.list \in Seq(Frames)
        BY DEF Replacement
      <4> QED
        BY <4>1, <4>2, SomeQueued, EvictAlone
    <3> QED
      BY <3>1, <3>2
  <2>3. /\ o.stop = "none" /\ o.frame \in Frames
        /\ o.count = Cardinality(Used \cup {o.frame})
        /\ DOMAIN o.table = Pid /\ DOMAIN o.table[0] = VPages
        /\ \A w \in VPages : \/ o.table[0][w].physicalPage = table[0][w].physicalPage
                             \/ table[0][w].physicalPage = o.frame
        /\ Queueing => \A g \in ToSet(r.list) : g # o.frame => g \in ToSet(o.replacement.list)
    BY <2>2 DEF FoundAlone
  <2>4. /\ Take(o, 0, v, FALSE, Loaded(o, 0, v)) /\ mode' = mode
        /\ table' = [o.table EXCEPT ![0] = [o.table[0] EXCEPT ![v] = Entered(o.frame)]]
    BY <2>1, <2>3, Zenon DEF Entered
  <2>5. \A w \in VPages : table'[0][w] = IF w = v THEN Entered(o.frame) ELSE o.table[0][w]
    BY <1>2, <2>3, <2>4, AloneTables
  <2>6. /\ numPagesAllocated' = o.count /\ replacement' = o.replacement
        /\ PhysMap' = [PhysMap EXCEPT ![o.frame] = [IsEmpty |-> FALSE, processID |-> 0,
                          virtPage |-> v, IsShared |-> FALSE]]
    BY <2>4 DEF Take
  <2>7. PhysMap \in [Frames -> CoreMap]
    BY <1>2 DEF AnyInv, MemoryOK
  <2>8. /\ \A f \in Frames : f # o.frame => PhysMap'[f] = PhysMap[f]
        /\ ~PhysMap'[o.frame].IsEmpty /\ ~PhysMap'[o.frame].IsShared
        /\ PhysMap'[o.frame].processID = 0 /\ PhysMap'[o.frame].virtPage = v
    BY <2>3, <2>6, <2>7
  <2>9. Used' = Used \cup {o.frame}
    BY <2>3, <2>8 DEF Used
  <2>10. table'[0][v].physicalPage = o.frame
    BY <2>3, <2>5, EnteredAny
  <2>11. ASSUME NEW w \in VPages, NEW f \in Frames, f # o.frame,
                table[0][w].physicalPage = f
         PROVE  table'[0][w].physicalPage = f
    <3>1. w # v
      BY <2>11, AnyConstants DEF Valid
    <3> QED
      BY <2>3, <2>5, <2>11, <3>1
  <2>12. ASSUME NEW f \in Frames PROVE NamedAlone(f)'
    <3>1. CASE f = o.frame
      BY <2>8, <2>10, <3>1 DEF NamedAlone
    <3>2. CASE f # o.frame
      <4>1. NamedAlone(f) /\ PhysMap'[f] = PhysMap[f]
        BY <1>2, <2>8, <3>2
      <4> QED
        BY <2>11, <3>2, <4>1 DEF NamedAlone
    <3> QED
      BY <3>1, <3>2
  <2>13. Queued(replacement.list, pending[0])'
    <3> SUFFICES ASSUME Queueing', NEW f \in Used'
                 PROVE  \/ f \in ToSet(replacement'.list)
                        \/ \E w \in VPages : /\ w \in {i.fetch, i.data}
                                            /\ table'[0][w].physicalPage = f
      BY <1>3, Zenon DEF Queued
    <3>1. CASE f = o.frame
      BY <2>10, <3>1
    <3>2. CASE f # o.frame
      <4>1. Queueing /\ f \in Used /\ f \in Frames
        BY <1>1, <2>9, <3>2 DEF Queueing, Used
      <4>2. CASE f \in ToSet(r.list)
        BY <2>3, <2>6, <3>2, <4>1, <4>2
      <4>3. CASE \E w \in VPages : w \in {i.fetch, i.data} /\ table[0][w].physicalPage = f
        BY <2>11, <3>2, <4>1, <4>3
      <4> QED
        BY <4>1, <4>2, <4>3 DEF Queued
    <3> QED
      BY <3>1, <3>2
  <2>14. numPagesAllocated' = Cardinality(Used')
    BY <2>3, <2>6, <2>9
  <2>15. mode' \in {"run", "halted"} /\ live' = {0}
    BY <1>1, <1>2, <2>4
  <2> QED
    BY <2>12, <2>13, <2>14, <2>15 DEF AloneInv
<1> QED
  BY <1>4, <1>5

\* A list that has what another one has keeps the frames queued.
LEMMA QueuedMore ==
    ASSUME NEW l, NEW m, NEW i, NEW j, Queued(l, i),
           Queueing => ToSet(l) \subseteq ToSet(m),
           j = i \/ i = NoInstruction
    PROVE  Queued(m, j)
<1>1. None \notin VPages
  BY ConstantFacts
<1> QED
  BY <1>1 DEF Queued, NoInstruction

\* What an instruction of the only process leaves: a page fault for one of its pages, or
\* its two pages on the list
FaultsAlone ==
    \E v \in VPages, r \in Replacement, i \in Instructions :
      /\ v \in {i.fetch, i.data} /\ ~Valid(0, v) /\ Queued(r.list, i)
      /\ PageFault(0, i, v, r)

CompletesAlone ==
    /\ \/ \E v \in DOMAIN table[0] : Valid(0, v) /\ WrittenPage(0, v)
       \/ UNCHANGED <<table, mainMemory, written>>
    /\ pending' = [pending EXCEPT ![0] = NoInstruction]
    /\ Queued(replacement'.list, NoInstruction)
    /\ UNCHANGED <<pageReplaceAlgo, mode, job, thread_index, live, PhysMap,
                   numPagesAllocated, SwapTable, fileName, retrying>>

LEMMA OutcomeAlone ==
    ASSUME Alone, AloneInv, Instruction(0)
    PROVE  mode = "run" /\ (FaultsAlone \/ CompletesAlone)
<1>1. mode = "run" /\ 0 \in live /\ AnyInv /\ live = {0}
      /\ \A f \in Frames : ~PhysMap[f].IsShared
  BY DEF Instruction, AloneInv, NamedAlone
<1>2. PICK i \in IF pending[0] = NoInstruction
                 THEN {j \in [fetch : 0 .. FilePages - 1,
                              data : DOMAIN table[0] \cup {None}, write : BOOLEAN] :
                         j.data = None \/ 0 \in retrying => ~j.write}
                 ELSE {pending[0]} :
        LET fetched == Access(table[0][i.fetch].physicalPage, replacement)
            frame == table[0][i.data].physicalPage
        IN  IF ~Valid(0, i.fetch) THEN PageFault(0, i, i.fetch, replacement)
            ELSE IF i.data # None /\ ~Valid(0, i.data) THEN PageFault(0, i, i.data, fetched)
            ELSE /\ replacement' = IF i.data = None THEN fetched ELSE Access(frame, fetched)
                 /\ pending' = [pending EXCEPT ![0] = NoInstruction]
                 /\ IF i.write
                    THEN /\ table' = [table EXCEPT ![0][i.data].dirty = TRUE]
                         /\ mainMemory' = [mainMemory EXCEPT ![frame] = <<0, i.data>>]
                         /\ written' = [written EXCEPT ![0][i.data] = <<0, i.data>>]
                    ELSE UNCHANGED <<table, mainMemory, written>>
                 /\ UNCHANGED <<pageReplaceAlgo, mode, job, thread_index, live, PhysMap,
                                numPagesAllocated, SwapTable, fileName, retrying>>
  BY Zenon DEF Instruction
<1>3. /\ i \in Instructions /\ i.fetch \in VPages /\ i.data \in VPages \cup {None}
      /\ (i.write => i.data # None)
  <2>1. 0 .. FilePages - 1 \subseteq VPages
    BY AnyConstants DEF VPages
  <2>2. 0 \in Pid /\ DOMAIN table[0] = VPages /\ VPages \subseteq Nat
    BY <1>1, AloneTables DEF VPages
  <2>3. CASE pending[0] = NoInstruction
    BY <1>2, <2>1, <2>2, <2>3 DEF Instructions
  <2>4. CASE pending[0] # NoInstruction
    <3>1. i = pending[0] /\ i \in Instructions
      BY <1>1, <1>2, <2>2, <2>4 DEF AnyInv, AnyPending
    <3> QED
      BY <1>1, <2>1, <2>2, <2>4, <3>1 DEF AnyInv, AnyPending, Instructions
  <2> QED
    BY <2>3, <2>4
<1>4. Queued(replacement.list, i)
  <2>1. i = pending[0] \/ pending[0] = NoInstruction
    BY <1>2
  <2> QED
    BY <2>1, QueuedMore DEF AloneInv
<1>5. PICK code, frame, fetched : /\ code = table[0][i.fetch].physicalPage
                                  /\ frame = table[0][i.data].physicalPage
                                  /\ fetched = Access(code, replacement)
  OBVIOUS
<1>6. Valid(0, i.fetch) =>
        /\ fetched \in Replacement
        /\ Queueing => /\ code \in ToSet(fetched.list)
                       /\ ToSet(replacement.list) \subseteq ToSet(fetched.list)
  <2>1. Valid(0, i.fetch) => code \in Frames
    BY <1>1, <1>3, <1>5, AloneTables
  <2>2. replacement \in Replacement
    BY <1>1, LiveAny
  <2> QED
    BY <1>1, <1>5, <2>1, <2>2, AccessType, AccessQueues
<1>7. CASE ~Valid(0, i.fetch)
  <2>1. PageFault(0, i, i.fetch, replacement)
    BY <1>2, <1>7
  <2>2. replacement \in Replacement /\ i.fetch \in {i.fetch, i.data}
    BY <1>1, LiveAny
  <2> QED
    BY <1>1, <1>3, <1>4, <1>7, <2>1, <2>2, Zenon DEF FaultsAlone
<1>8. CASE Valid(0, i.fetch) /\ i.data # None /\ ~Valid(0, i.data)
  <2>1. PageFault(0, i, i.data, fetched)
    BY <1>2, <1>5, <1>8
  <2>2. Queued(fetched.list, i) /\ fetched \in Replacement
    BY <1>4, <1>6, <1>8, QueuedMore
  <2>3. i.data \in VPages /\ i.data \in {i.fetch, i.data}
    BY <1>3, <1>8
  <2> QED
    BY <1>1, <1>3, <1>8, <2>1, <2>2, <2>3, Zenon DEF FaultsAlone
<1>9. CASE Valid(0, i.fetch) /\ (i.data = None \/ Valid(0, i.data))
  <2>1. /\ replacement' = IF i.data = None THEN fetched ELSE Access(frame, fetched)
        /\ pending' = [pending EXCEPT ![0] = NoInstruction]
        /\ IF i.write
           THEN /\ table' = [table EXCEPT ![0][i.data].dirty = TRUE]
                /\ mainMemory' = [mainMemory EXCEPT ![frame] = <<0, i.data>>]
                /\ written' = [written EXCEPT ![0][i.data] = <<0, i.data>>]
           ELSE UNCHANGED <<table, mainMemory, written>>
        /\ UNCHANGED <<pageReplaceAlgo, mode, job, thread_index, live, PhysMap,
                       numPagesAllocated, SwapTable, fileName, retrying>>
    BY <1>2, <1>5, <1>9
  <2>2. Queued(replacement'.list, NoInstruction)
    <3> SUFFICES ASSUME Queueing, NEW f \in Used
                 PROVE  f \in ToSet(replacement'.list)
      BY Zenon DEF Queued
    <3>1. \/ f \in ToSet(replacement.list) \/ table[0][i.fetch].physicalPage = f
          \/ (i.data # None /\ frame = f)
      <4>1. None \notin VPages
        BY ConstantFacts
      <4> QED
        BY <1>4, <1>5, <4>1 DEF Queued
    <3>2. f \in ToSet(fetched.list) \/ (i.data # None /\ frame = f)
      BY <1>5, <1>6, <1>9, <3>1
    <3>3. CASE i.data = None
      BY <2>1, <3>2, <3>3
    <3>4. CASE i.data # None
      <4>1. frame \in Frames /\ fetched \in Replacement
        BY <1>1, <1>3, <1>5, <1>6, <1>9, <3>4, AloneTables
      <4> QED
        BY <1>1, <2>1, <3>2, <3>4, <4>1, AccessQueues
    <3> QED
      BY <3>3, <3>4
  <2>3. i.write => i.data \in DOMAIN table[0] /\ Valid(0, i.data) /\ WrittenPage(0, i.data)
    <3>1. i.write => i.data \in DOMAIN table[0] /\ i.data # None
      BY <1>1, <1>3, AloneTables
    <3> QED
      BY <1>5, <1>9, <2>1, <3>1 DEF WrittenPage
  <2>4. ~i.write => UNCHANGED <<table, mainMemory, written>>
    BY <2>1
  <2>5. CompletesAlone
    BY <2>1, <2>2, <2>3, <2>4 DEF CompletesAlone
  <2> QED
    BY <1>1, <2>5
<1> QED
  BY <1>7, <1>8, <1>9

\* A step that moves no page, after which all that is in use is on the list
LEMMA KeptAlone ==
    ASSUME Alone, AloneInv, AnyInv', mode' \in {"run", "halted"},
           UNCHANGED <<pageReplaceAlgo, live, PhysMap, numPagesAllocated>>,
           \A v \in VPages : table'[0][v].physicalPage = table[0][v].physicalPage,
           Queued(replacement'.list, pending'[0])
    PROVE  AloneInv'
<1>1. ASSUME NEW f \in Frames PROVE NamedAlone(f)'
  <2>1. NamedAlone(f)
    BY DEF AloneInv
  <2> QED
    BY <2>1 DEF NamedAlone
<1>2. Queued(replacement.list, pending[0])'
  BY DEF Queued, Queueing, Used
<1> QED
  BY <1>1, <1>2 DEF AloneInv, Used

LEMMA InstructionAlone ==
    ASSUME Alone, AloneInv, AnyInv', Instruction(0)
    PROVE  AloneInv'
<1>1. mode = "run" /\ (FaultsAlone \/ CompletesAlone) /\ AnyInv /\ live = {0}
  BY OutcomeAlone DEF AloneInv
<1>2. CASE FaultsAlone
  BY <1>1, <1>2, FaultAlone DEF FaultsAlone
<1>3. CASE CompletesAlone
  <2>1. /\ pending' = [pending EXCEPT ![0] = NoInstruction]
        /\ Queued(replacement'.list, NoInstruction)
        /\ UNCHANGED <<pageReplaceAlgo, mode, job, thread_index, live, PhysMap,
                       numPagesAllocated, SwapTable, fileName, retrying>>
    BY <1>3 DEF CompletesAlone
  <2>2. pending'[0] = NoInstruction
    BY <1>1, <2>1, AloneTables DEF AnyInv, AnyPending
  <2>3. \A v \in VPages : table'[0][v].physicalPage = table[0][v].physicalPage
    <3>1. CASE UNCHANGED <<table, mainMemory, written>>
      BY <3>1
    <3>2. CASE \E v \in DOMAIN table[0] : Valid(0, v) /\ WrittenPage(0, v)
      <4>1. PICK v \in DOMAIN table[0] : Valid(0, v) /\ WrittenPage(0, v)
        BY <3>2
      <4>2. Stored(0, v)
        BY <1>1, <2>1, <4>1, WrittenAny
      <4>3. \A w \in VPages : table[0][w] \in Entry
        BY <1>1, AloneTables, LiveAny
      <4>4. \A e \in Entry : [e EXCEPT !.dirty = TRUE].physicalPage = e.physicalPage
        BY DEF Entry
      <4> QED
        BY <1>1, <4>2, <4>3, <4>4, AloneTables DEF Stored
    <3> QED
      BY <1>3, <3>1, <3>2 DEF CompletesAlone
  <2> QED
    BY <1>1, <2>1, <2>2, <2>3, KeptAlone
<1> QED
  BY <1>1, <1>2, <1>3

\* Exec, with or without its file, releases every frame.
LEMMA ExecAlone ==
    ASSUME Alone, AloneInv, AnyInv', Exec(0) \/ ExecMissing(0)
    PROVE  AloneInv'
<1>1. FreePages(0) /\ UNCHANGED <<mode, live>>
  BY DEF Exec, ExecMissing, Trap
<1>2. numPagesAllocated = Cardinality(Used) /\ AnyInv /\ \A f \in Frames : NamedAlone(f)
  BY DEF AloneInv
<1> DEFINE freed == {f \in Frames : PhysMap[f].processID = 0 /\ ~PhysMap[f].IsShared}
<1>3. freed = Used
  <2>1. \A f \in Frames : PhysMap[f].IsEmpty => PhysMap[f].processID = None
    BY <1>2 DEF AnyInv, AnyCount
  <2>2. None # 0
    BY DEF None
  <2>3. \A f \in Frames : PhysMap[f].IsEmpty \in BOOLEAN
    BY <1>2 DEF AnyInv, MemoryOK, CoreMap
  <2> QED
    BY <1>2, <2>1, <2>2, <2>3 DEF NamedAlone, Used
<1>4. PhysMap' = [f \in Frames |-> IF f \in freed THEN Released(PhysMap[f]) ELSE PhysMap[f]]
      /\ numPagesAllocated' = numPagesAllocated - Cardinality(freed)
  BY <1>1 DEF FreePages
<1> HIDE DEF freed
<1>5. \A c \in CoreMap : Released(c).IsEmpty /\ Released(c).IsShared = c.IsShared
  BY DEF Released, CoreMap
<1>6. \A f \in Frames : PhysMap'[f].IsEmpty /\ ~PhysMap'[f].IsShared
  <2>1. \A f \in Frames : PhysMap[f] \in CoreMap
    BY <1>2 DEF AnyInv, MemoryOK
  <2> QED
    BY <1>2, <1>3, <1>4, <1>5, <2>1 DEF NamedAlone, Used
<1>7. Used' = {}
  BY <1>6 DEF Used
<1>8. numPagesAllocated' = 0 /\ Cardinality(Used') = 0
  <2>1. Cardinality(Used) \in Nat
    BY UsedAny
  <2>2. numPagesAllocated' = 0
    BY <1>2, <1>3, <1>4, <2>1
  <2>3. Cardinality({}) = 0
    BY FS_EmptySet
  <2> QED
    BY <1>7, <2>2, <2>3
<1>9. \A f \in Frames : NamedAlone(f)'
  BY <1>6 DEF NamedAlone
<1>10. Queued(replacement.list, pending[0])'
  BY <1>7 DEF Queued
<1> QED
  BY <1>1, <1>8, <1>9, <1>10 DEF AloneInv

LEMMA LastExitAlone ==
    ASSUME Alone, AloneInv, AnyInv', LastExit(0)
    PROVE  AloneInv'
<1>1. /\ mode' = "halted" /\ Fetch(0)
      /\ UNCHANGED <<pageReplaceAlgo, pending, live, table, PhysMap, numPagesAllocated>>
  BY DEF LastExit, Trap
<1>2. /\ AnyInv /\ live = {0} /\ \A f \in Frames : ~PhysMap[f].IsShared
      /\ Queued(replacement.list, pending[0])
  BY DEF AloneInv, NamedAlone
<1>3. PICK v \in 0 .. FilePages - 1 :
        Valid(0, v) /\ replacement' = Access(table[0][v].physicalPage, replacement)
  BY <1>1 DEF Fetch
<1>4. v \in VPages /\ replacement \in Replacement
  BY <1>2, <1>3, AnyConstants, LiveAny DEF VPages
<1>5. Queueing => ToSet(replacement.list) \subseteq ToSet(replacement'.list)
  BY <1>2, <1>3, <1>4, AloneTables, AccessQueues
<1>6. Queued(replacement'.list, pending'[0])
  BY <1>1, <1>2, <1>5, QueuedMore
<1> QED
  BY <1>1, <1>6, KeptAlone

LEMMA AloneInit ==
    ASSUME Alone, Init
    PROVE  AloneInv
<1>1. AnyInv
  BY AnyInit
<1>2. /\ mode = "run" /\ live = {0} /\ numPagesAllocated = 0
      /\ \A f \in Frames : PhysMap[f].IsEmpty /\ ~PhysMap[f].IsShared
  BY DEF Init
<1>3. Used = {}
  BY <1>2 DEF Used
<1>4. Cardinality({}) = 0
  BY FS_EmptySet
<1>5. \A f \in Frames : NamedAlone(f)
  BY <1>2 DEF NamedAlone
<1>6. Queued(replacement.list, pending[0])
  BY <1>3 DEF Queued
<1> QED
  BY <1>1, <1>2, <1>3, <1>4, <1>5, <1>6 DEF AloneInv

LEMMA AloneStep ==
    ASSUME Alone
    PROVE  AloneInv /\ [Next]_vars => AloneInv'
<1> SUFFICES ASSUME AloneInv, [Next]_vars PROVE AloneInv'
  OBVIOUS
<1>1. AnyInv' /\ AnyInv /\ mode \in {"run", "halted"} /\ live = {0}
  BY AnyStep DEF AloneInv
<1>2. CASE \E p \in Pid : \/ Instruction(p) \/ BeginFork(p) \/ BeginShm(p)
                          \/ Exec(p) \/ ExecMissing(p) \/ Exit(p) \/ LastExit(p)
  <2>1. \/ Instruction(0) \/ BeginFork(0) \/ BeginShm(0)
        \/ Exec(0) \/ ExecMissing(0) \/ Exit(0) \/ LastExit(0)
    BY <1>1, <1>2, AloneTables
  <2>2. ~BeginFork(0)
    <3>1. ~(thread_index < MAX_THREAD_COUNT)
      BY <1>1 DEF Alone, AnyInv, AnyProcesses
    <3> QED
      BY <3>1 DEF BeginFork
  <2>3. ~BeginShm(0)
    <3>1. Cardinality(VPages) = NumPages
      BY FS_Interval, AnyConstants DEF VPages
    <3>3. NumPages + 1 .. VMPages = {}
      BY AnyConstants DEF Alone
    <3> QED
      BY <1>1, <3>1, <3>3, AloneTables DEF BeginShm
  <2>4. ~Exit(0)
    BY <1>1 DEF Exit
  <2> QED
    BY <1>1, <2>1, <2>2, <2>3, <2>4, InstructionAlone, ExecAlone, LastExitAlone
<1>3. CASE ForkPage \/ ForkDone \/ ShmPage \/ ShmDone
  BY <1>1, <1>3 DEF ForkPage, ForkDone, ShmPage, ShmDone
<1>4. CASE Terminated \/ UNCHANGED vars
  <2>1. UNCHANGED vars
    BY <1>4 DEF Terminated
  <2>2. Queued(replacement.list, pending[0])
    BY DEF AloneInv
  <2> QED
    BY <1>1, <2>1, <2>2, KeptAlone DEF vars
<1> QED
  BY <1>2, <1>3, <1>4 DEF Next

\* A process that runs alone, and does not extend its memory, never brings the simulation
\* to a stop, whichever algorithm replaces pages and however often it executes a file that
\* does not exist: the search for a victim ends, the lists of FIFO and LRU are not empty
\* when a frame is taken from them although Exec leaves released frames there, and the
\* core map names a page of the process.  With one frame FIFO does find an empty list.
THEOREM RunsOnCorrect ==
    ASSUME Alone
    PROVE  Spec => []RunsOn
<1>1. Init => AloneInv
  BY AloneInit
<1>2. AloneInv /\ [Next]_vars => AloneInv'
  BY AloneStep
<1>3. AloneInv => RunsOn
  BY DEF AloneInv, RunsOn, Stops
<1>4. QED
  BY <1>1, <1>2, <1>3, PTL DEF Spec
=============================================================================
