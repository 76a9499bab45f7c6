-------------------------- MODULE FileSystemProofs --------------------------
(***************************************************************************)
(* No sector of the file system is shared, its map is exact, and no sector *)
(* is leaked, whatever the size of the disk and wherever nachos stops.     *)
(*                                                                         *)
(* The argument follows the writes of a command one by one.  While some of *)
(* them are pending, the invariant knows which: the map, the two parts of  *)
(* the directory and the header still to be written, and how far each of   *)
(* them is from what the disk has now.                                     *)
(*                                                                         *)
(* The second half shows that the file system implements FileStore: which  *)
(* write of a command the user sees, what it changes, and that the others  *)
(* change nothing of any file.                                             *)
(***************************************************************************)
EXTENDS FileSystemRefinesStore, FiniteSetTheorems, SequenceTheorems, TLAPS

----------------------------------------------------------------------------
(* The invariant *)

\* The sectors FileSystem(TRUE) finds for the map and the directory
Reserved == FirstClear({FreeMapSector, DirectorySector}, 3)
ReservedSectors ==
    {FreeMapSector, DirectorySector, Reserved[1], Reserved[2], Reserved[3]}

FormatWrites ==
    << [sector |-> FreeMapSector, contents |-> Header(SectorSize, <<Reserved[1]>>)],
       [sector |-> DirectorySector,
        contents |-> Header(2 * SectorSize, <<Reserved[2], Reserved[3]>>)],
       [sector |-> Reserved[1], contents |-> Map(ReservedSectors)],
       [sector |-> Reserved[2], contents |-> Part(NewTable, FirstPart)],
       [sector |-> Reserved[3], contents |-> Part(NewTable, Fields \ FirstPart)] >>

Placed ==
    /\ disk[FreeMapSector] = Header(SectorSize, <<Reserved[1]>>)
    /\ disk[DirectorySector] = Header(2 * SectorSize, <<Reserved[2], Reserved[3]>>)

Formatted ==
    /\ Placed
    /\ disk[Reserved[1]].kind = "map"
    /\ disk[Reserved[2]].kind = "directory" /\ disk[Reserved[3]].kind = "directory"
    /\ \A e \in Entries : InUse(e) \in BOOLEAN

\* The sectors of a file whose header hdr is in sector s
Extent(hdr, s) == {hdr.dataSectors[i] : i \in DOMAIN hdr.dataSectors} \cup {s}

FileOK(hdr, s) ==
    /\ hdr.kind = "header" /\ hdr.numBytes \in Nat
    /\ hdr.dataSectors \in Seq(Sectors \ ReservedSectors)
    /\ Len(hdr.dataSectors) = SectorsFor(hdr.numBytes)
    /\ \A i, j \in DOMAIN hdr.dataSectors :
          hdr.dataSectors[i] = hdr.dataSectors[j] => i = j
    /\ \A i \in DOMAIN hdr.dataSectors : hdr.dataSectors[i] # s
    /\ s \in Sectors \ ReservedSectors

FilesOK ==
    \A e \in Listed :
        /\ FileOK(HeaderOf(e), SectorOf(e))
        /\ \A d \in Listed \ {e} : FileSectors(e) \cap FileSectors(d) = {}

\* The map is exact even when it is half written: the entry that is being
\* created or removed is not listed then.
MapOK == marked = ReservedSectors \cup UNION {FileSectors(e) : e \in Listed}

\* What is pending is what is left of the writes w.
LeftOf(w) == \E k \in 1 .. Len(w) + 1 : pending = SubSeq(w, k, Len(w))

Formatting ==
    client.kind = "format" =>
        /\ LeftOf(FormatWrites)
        /\ \A i \in 1 .. 5 - Len(pending) :
              disk[FormatWrites[i].sector] = FormatWrites[i].contents

Created(s, hdr, t, m) ==
    /\ pending = SubSeq(CreateWrites(s, hdr, t, m), 5 - Len(pending), 4)
    /\ FileOK(hdr, s) /\ Extent(hdr, s) \cap marked = {}
    /\ m = marked \cup Extent(hdr, s)
    /\ t[<<client.entry, "inUse">>] = TRUE /\ t[<<client.entry, "sector">>] = s
    /\ t[<<client.entry, "name">>] = client.name /\ hdr.numBytes = Len(client.source)
    /\ \A f \in Fields : f[1] # client.entry => table[f] = t[f]
    /\ Len(pending) >= 3 => ~InUse(client.entry)
    /\ Len(pending) <= 3 => disk[s] = hdr
    /\ Len(pending) <= 2 => \A f \in FirstPart : table[f] = t[f]
    /\ Len(pending) <= 1 => \A f \in Fields : table[f] = t[f]

Creating ==
    client.kind = "create" /\ pending # <<>> =>
        /\ client.entry \in Entries /\ Len(pending) \in 1 .. 4
        /\ \E s \in Sectors : \E hdr, t, m : Created(s, hdr, t, m)

Removed(m, t) ==
    /\ pending = SubSeq(RemoveWrites(m, t), 4 - Len(pending), 3)
    /\ t[<<client.entry, "inUse">>] = FALSE
    /\ \A f \in Fields : f # <<client.entry, "inUse">> => table[f] = t[f]
    /\ Len(pending) = 3 => /\ InUse(client.entry)
                           /\ m = marked \ FileSectors(client.entry)
    /\ Len(pending) = 1 => \A f \in FirstPart : table[f] = t[f]

Removing ==
    client.kind = "remove" /\ pending # <<>> =>
        /\ client.entry \in Entries /\ Len(pending) \in 1 .. 3
        /\ \E m, t : Removed(m, t)

\* A file that is open is listed, and its header is the one on the disk.
Opened ==
    client.kind \in {"copy", "print"} =>
        /\ client.entry \in Listed /\ client.hdr = HeaderOf(client.entry)
        /\ client.position \in Nat

Copying ==
    client.kind = "copy" =>
        \A i \in 1 .. Len(pending) : pending[i].sector \in DataSectors(client.entry)

CommandFields == {"kind", "name", "entry", "source", "hdr", "position"}
Commands == {"create", "copy", "print", "remove"}

ClientType ==
    /\ DOMAIN disk = Sectors /\ usable \in BOOLEAN
    /\ DOMAIN client = CommandFields
    /\ client.kind \in {"idle", "format"} \cup Commands
    /\ client.kind \in Commands => usable
    /\ client.kind = "format" => ~usable
    /\ client.kind \in {"create", "copy"} => client.source \in Sources
    /\ client.kind \in {"idle", "print"} => pending = <<>>
    /\ \E W : pending \in Seq(W)
    /\ \A i \in 1 .. Len(pending) : pending[i].sector \in Sectors

FilesInv ==
    /\ ClientType
    /\ usable => Formatted /\ FilesOK /\ MapOK
    /\ Formatting /\ Creating /\ Removing /\ Opened /\ Copying

----------------------------------------------------------------------------
(* The bit map: what Find returns *)

\* A nonempty set of naturals that is bounded has a least element.
LEMMA Least ==
    ASSUME NEW n \in Nat, NEW A \in SUBSET (0 .. n), A # {}
    PROVE  \E m \in A : \A q \in A : m <= q
<1> DEFINE UpTo(p) == 0 .. p
           Starts == {UpTo(p) : p \in A}
<1>1. IsFiniteSet(0 .. n) /\ A \subseteq Nat
  BY FS_Interval
<1>2. Starts \subseteq FiniteSubsetsOf(0 .. n) /\ Starts # {}
  <2>1. \A p \in A : UpTo(p) \in SUBSET (0 .. n)
    OBVIOUS
  <2>2. Starts \in SUBSET SUBSET (0 .. n) /\ Starts # {}
    BY <2>1
  <2> HIDE DEF Starts
  <2>3. FiniteSubsetsOf(0 .. n) = SUBSET (0 .. n)
    BY <1>1, FS_FiniteSubsetsOfFinite
  <2>4. QED
    BY <2>2, <2>3
<1>3. PICK x \in Starts : \A y \in Starts : <<y, x>> \notin StrictSubsetOrdering(0 .. n)
  <2> HIDE DEF Starts
  <2>1. IsWellFoundedOn(StrictSubsetOrdering(0 .. n), FiniteSubsetsOf(0 .. n))
    BY FS_StrictSubsetOrderingWellFounded
  <2>2. QED
    BY <1>2, <2>1, WFMin
<1>4. PICK p \in A : x = UpTo(p)
  OBVIOUS
<1>5. ASSUME NEW q \in A, ~(p <= q) PROVE FALSE
  <2>1. UpTo(q) \in Starts /\ UpTo(q) \subseteq UpTo(p) /\ UpTo(q) # UpTo(p)
        /\ UpTo(p) \in SUBSET (0 .. n) /\ UpTo(q) \in SUBSET (0 .. n)
    BY <1>5
  <2>2. <<UpTo(q), UpTo(p)>> \in StrictSubsetOrdering(0 .. n)
    BY <2>1 DEF StrictSubsetOrdering
  <2>3. QED
    BY <1>3, <1>4, <2>1, <2>2
<1>6. QED
  BY <1>5

\* The number of clear sectors before s
Before(C, s) == Cardinality({c \in C : c < s})

\* There are at most as many clear sectors before s as there are in all.
LEMMA BeforeFacts ==
    ASSUME NEW C \in SUBSET Sectors, NEW s \in Int
    PROVE  /\ IsFiniteSet(C) /\ IsFiniteSet({c \in C : c < s})
           /\ Before(C, s) \in Nat /\ Cardinality(C) \in Nat
           /\ Before(C, s) <= Cardinality(C)
<1>1. IsFiniteSet(Sectors)
  BY FileSystemAssumption, FS_Interval DEF Sectors
<1>2. IsFiniteSet(C)
  BY <1>1, FS_Subset
<1>3. {c \in C : c < s} \in SUBSET C
  OBVIOUS
<1>4. QED
  BY <1>2, <1>3, FS_Subset, FS_CardinalityType DEF Before

\* In every set of sectors there is one before which there are k others, for
\* each k that is less than their number.
LEMMA Ranked ==
    ASSUME NEW C \in SUBSET Sectors, NEW k \in Nat, k < Cardinality(C)
    PROVE  \E s \in C : Before(C, s) = k
<1> DEFINE Missing == {q \in 0 .. k : ~\E s \in C : Before(C, s) = q}
           last == NumSectors - 1
<1>0. last \in Nat /\ C \in SUBSET (0 .. last) /\ \A c \in C : c \in Int
  BY FileSystemAssumption DEF Sectors
<1> HIDE DEF last
<1>1. SUFFICES ASSUME Missing # {} PROVE FALSE
  OBVIOUS
<1>2. PICK q \in Missing : \A p \in Missing : q <= p
  BY <1>1, Least, Missing \in SUBSET (0 .. k)
<1>3. CASE q = 0
  <2>1. C # {}
    BY FS_EmptySet
  <2>2. PICK m \in C : \A c \in C : m <= c
    BY <1>0, <2>1, Least
  <2>3. {c \in C : c < m} = {}
    <3>1. ASSUME NEW c \in C, c < m PROVE FALSE
      <4>1. m \in Int /\ c \in Int /\ m <= c
        BY <1>0, <2>2
      <4> QED
        BY <3>1, <4>1
    <3> QED
      BY <3>1
  <2>4. Before(C, m) = 0
    BY <2>3, FS_EmptySet DEF Before
  <2> QED
    BY <1>2, <1>3, <2>4
<1>4. CASE q # 0
  <2>1. q - 1 \in 0 .. k /\ q - 1 \notin Missing
    BY <1>2, <1>4
  <2>2. PICK s \in C : Before(C, s) = q - 1
    BY <2>1
  <2> DEFINE Low == {c \in C : c < s}
             High == {c \in C : s < c}
  <2>3. IsFiniteSet(C) /\ IsFiniteSet(Low) /\ s \notin Low
    BY BeforeFacts, <1>0
  <2>4. IsFiniteSet(Low \cup {s}) /\ Cardinality(Low \cup {s}) = q
    <3>1. Cardinality(Low) = q - 1
      BY <2>2 DEF Before
    <3> HIDE DEF Low
    <3> QED
      BY <3>1, <2>3, FS_AddElement, <2>1
  <2>5. High # {}
    <3>1. SUFFICES ASSUME High = {} PROVE FALSE
      OBVIOUS
    <3>2. ASSUME NEW c \in C, c \notin Low PROVE c = s
      <4>1. c \in Int /\ s \in Int /\ ~(s < c) /\ ~(c < s)
        BY <1>0, <3>1, <3>2
      <4> QED
        BY <4>1
    <3>3. C = Low \cup {s}
      BY <3>2
    <3> HIDE DEF Low
    <3> QED
      BY <3>3, <2>4, <2>1
  <2>6. PICK m \in High : \A c \in High : m <= c
    <3>1. High \in SUBSET (0 .. last)
      BY <1>0
    <3> HIDE DEF High
    <3> QED
      BY <1>0, <2>5, <3>1, Least
  <2>7. m \in C /\ {c \in C : c < m} = Low \cup {s}
    <3>1. m \in C /\ s < m /\ m \in Int /\ s \in Int
      BY <2>6, <1>0
    <3>2. ASSUME NEW c \in C PROVE c < m <=> c \in Low \cup {s}
      <4>1. c \in Int
        BY <1>0
      <4>2. s < c => m <= c
        BY <2>6
      <4> QED
        BY <3>1, <4>1, <4>2
    <3> QED
      BY <3>1, <3>2
  <2>8. Before(C, m) = q
    BY <2>4, <2>7 DEF Before
  <2> QED
    BY <1>2, <2>7, <2>8
<1> QED
  BY <1>3, <1>4

\* BitMap::Find, n times: as many different clear sectors, if there are so many.
LEMMA FirstClearFinds ==
    ASSUME NEW m \in SUBSET Sectors, NEW n \in Nat, n <= NumClear(m)
    PROVE  /\ FirstClear(m, n) \in Seq(Sectors \ m)
           /\ Len(FirstClear(m, n)) = n
           /\ \A i, j \in 1 .. n : FirstClear(m, n)[i] = FirstClear(m, n)[j] => i = j
<1> DEFINE C == Sectors \ m
<1>1. C \in SUBSET Sectors
  OBVIOUS
<1>2. \A i \in 1 .. n : \E s \in C : Before(C, s) = i - 1
  <2> TAKE i \in 1 .. n
  <2>0. Cardinality(C) \in Nat
    BY <1>1, BeforeFacts, 0 \in Int
  <2>1. i - 1 \in Nat /\ i - 1 < Cardinality(C)
    BY <2>0 DEF NumClear
  <2> HIDE DEF C
  <2> QED
    BY <1>1, <2>1, Ranked
<1>3. \A i \in 1 .. n : FirstClear(m, n)[i] \in C /\ Before(C, FirstClear(m, n)[i]) = i - 1
  BY <1>2 DEF FirstClear, Before
<1>4. FirstClear(m, n) \in [1 .. n -> C]
  BY <1>3 DEF FirstClear
<1> QED
  BY <1>3, <1>4 

\* What the disk is formatted with
LEMMA ReservedFacts ==
    /\ \A i \in 1 .. 3 : Reserved[i] \in Sectors
    /\ Reserved[1] # Reserved[2] /\ Reserved[1] # Reserved[3] /\ Reserved[2] # Reserved[3]
    /\ \A i \in 1 .. 3 : Reserved[i] # FreeMapSector /\ Reserved[i] # DirectorySector
    /\ ReservedSectors \subseteq Sectors /\ FreeMapSector # DirectorySector
<1> DEFINE hdrs == {FreeMapSector, DirectorySector}
<1>1. hdrs \in SUBSET Sectors
  BY FileSystemAssumption DEF Sectors, FreeMapSector, DirectorySector
<1>2. 3 <= NumClear(hdrs)
  <2>1. IsFiniteSet(Sectors \ hdrs)
    BY BeforeFacts, 0 \in Int
  <2> DEFINE four == 4
  <2>2. 2 .. four \in SUBSET (Sectors \ hdrs)
    BY FileSystemAssumption DEF Sectors, FreeMapSector, DirectorySector
  <2>3. four \in Int /\ Cardinality(2 .. four) = 3
    <3>1. four \in Int /\ four = 4 /\ 2 \in Int
      OBVIOUS
    <3> HIDE DEF four
    <3>2. Cardinality(2 .. four) = IF 2 > four THEN 0 ELSE four - 2 + 1
      BY ONLY <3>1, FS_Interval, Zenon
    <3> QED
      BY <3>1, <3>2
  <2> HIDE DEF hdrs, four
  <2> QED
    BY <2>1, <2>2, <2>3, FS_Subset, FS_CardinalityType DEF NumClear
<1>3. /\ Reserved \in Seq(Sectors \ hdrs) /\ Len(Reserved) = 3
      /\ \A i, j \in 1 .. 3 : Reserved[i] = Reserved[j] => i = j
  <2> HIDE DEF hdrs
  <2>1. Reserved = FirstClear(hdrs, 3)
    BY DEF Reserved, hdrs
  <2> QED
    BY <1>1, <1>2, <2>1, FirstClearFinds
<1>4. \A i \in 1 .. 3 : Reserved[i] \in Sectors \ hdrs
  <2> HIDE DEF hdrs
  <2>1. \A i \in 1 .. Len(Reserved) : Reserved[i] \in Sectors \ hdrs
    BY <1>3, ElementOfSeq
  <2> QED
    BY <1>3, <2>1
<1> QED
  BY <1>1, <1>3, <1>4 DEF ReservedSectors, FreeMapSector, DirectorySector

----------------------------------------------------------------------------
(* The writes of a command *)

\* What is left of the writes w from the k-th on
LEMMA Left ==
    ASSUME NEW S, NEW w \in Seq(S), NEW k \in 1 .. Len(w)
    PROVE  /\ Len(SubSeq(w, k, Len(w))) = Len(w) - k + 1
           /\ SubSeq(w, k, Len(w)) # <<>>
           /\ Head(SubSeq(w, k, Len(w))) = w[k]
           /\ Tail(SubSeq(w, k, Len(w))) = SubSeq(w, k + 1, Len(w))
<1> DEFINE q == SubSeq(w, k, Len(w))
<1>1. q \in Seq(S) /\ Len(q) = Len(w) - k + 1 /\ \A i \in 1 .. Len(w) - k + 1 : q[i] = w[k + i - 1]
  OBVIOUS
<1>2. SubSeq(w, k + 1, Len(w)) \in Seq(S) /\ Len(SubSeq(w, k + 1, Len(w))) = Len(w) - k
      /\ \A i \in 1 .. Len(w) - k : SubSeq(w, k + 1, Len(w))[i] = w[k + i]
  OBVIOUS
<1> HIDE DEF q
<1>3. q # <<>> /\ Head(q) = w[k]
  BY <1>1
<1>4. /\ Tail(q) \in Seq(S) /\ Len(Tail(q)) = Len(w) - k
      /\ \A i \in 1 .. Len(w) - k : Tail(q)[i] = w[k + i]
  BY <1>1, <1>3
<1>5. Tail(q) = SubSeq(w, k + 1, Len(w))
  <2> DEFINE x == Tail(q)
             y == SubSeq(w, k + 1, Len(w))
             n == Len(w) - k
  <2>1. x \in Seq(S) /\ y \in Seq(S) /\ Len(x) = n /\ Len(y) = n /\ \A i \in 1 .. n : x[i] = y[i]
    BY <1>2, <1>4
  <2> HIDE DEF x, y, n
  <2>2. x = y
    BY <2>1, SeqEqual
  <2> QED
    BY <2>2 DEF x, y
<1> QED
  BY <1>1, <1>3, <1>5 DEF q

Joins(c, a, b, S) ==
    /\ c \in Seq(S) /\ Len(c) = Len(a) + Len(b)
    /\ \A i \in 1 .. Len(a) : c[i] = a[i]
    /\ \A i \in 1 .. Len(b) : c[Len(a) + i] = b[i]

\* A concatenation, place by place
LEMMA Joined ==
    ASSUME NEW S, NEW a \in Seq(S), NEW b \in Seq(S)
    PROVE  Joins(a \o b, a, b, S)
BY ConcatProperties, LenProperties DEF Joins

\* The headers in sectors 0 and 1 lead to the map and to the directory.
LEMMA PlacedSectors ==
    ASSUME Placed
    PROVE  DirectorySectors = <<Reserved[2], Reserved[3]>> /\ MapSector = Reserved[1]
<1> DEFINE r1 == Reserved[1]
           r2 == Reserved[2]
           r3 == Reserved[3]
           long == 2 * SectorSize
<1>1. /\ disk[FreeMapSector] = [kind |-> "header", numBytes |-> SectorSize, dataSectors |-> <<r1>>]
      /\ disk[DirectorySector] = [kind |-> "header", numBytes |-> long, dataSectors |-> <<r2, r3>>]
  BY DEF Placed, Header
<1> HIDE DEF r1, r2, r3, long
<1>2. disk[FreeMapSector].dataSectors = <<r1>> /\ disk[DirectorySector].dataSectors = <<r2, r3>>
  BY <1>1
<1> QED
  BY <1>2 DEF DirectorySectors, MapSector, r1, r2, r3

CreatesFile(w, s, hdr, t, m) ==
    /\ \E S : w \in Seq(S)
    /\ Len(w) = 4
    /\ w[1] = [sector |-> s, contents |-> hdr]
    /\ w[2] = [sector |-> Reserved[2], contents |-> Part(t, FirstPart)]
    /\ w[3] = [sector |-> Reserved[3], contents |-> Part(t, Fields \ FirstPart)]
    /\ w[4] = [sector |-> Reserved[1], contents |-> Map(m)]

\* The four writes of Create: header, directory in two sectors, map
LEMMA CreateWritesAre ==
    ASSUME NEW s, NEW hdr, NEW t, NEW m, Formatted
    PROVE  CreatesFile(CreateWrites(s, hdr, t, m), s, hdr, t, m)
<1>1. DirectorySectors = <<Reserved[2], Reserved[3]>> /\ MapSector = Reserved[1]
  BY PlacedSectors DEF Formatted
<1> DEFINE a == HeaderWrites(s, hdr)
           b == DirectoryWrites(DirectorySectors, t)
           c == MapWrites(MapSector, m)
           S == {a[1], b[1], b[2], c[1]}
<1>2. /\ a \in Seq(S) /\ Len(a) = 1 /\ a[1] = [sector |-> s, contents |-> hdr]
      /\ b \in Seq(S) /\ Len(b) = 2
      /\ b[1] = [sector |-> Reserved[2], contents |-> Part(t, FirstPart)]
      /\ b[2] = [sector |-> Reserved[3], contents |-> Part(t, Fields \ FirstPart)]
      /\ c \in Seq(S) /\ Len(c) = 1 /\ c[1] = [sector |-> Reserved[1], contents |-> Map(m)]
  BY <1>1 DEF HeaderWrites, DirectoryWrites, MapWrites
<1> HIDE DEF a, b, c, S
<1>3. a \o b \in Seq(S) /\ Len(a \o b) = 3
      /\ (a \o b)[1] = a[1] /\ (a \o b)[2] = b[1] /\ (a \o b)[3] = b[2]
  <2>1. /\ a \o b \in Seq(S) /\ Len(a \o b) = Len(a) + Len(b)
        /\ \A i \in 1 .. Len(a) + Len(b) :
              (a \o b)[i] = IF i <= Len(a) THEN a[i] ELSE b[i - Len(a)]
    BY <1>2, ConcatProperties
  <2>2. Len(a) + Len(b) = 3 /\ 1 - Len(a) = 0 /\ 2 - Len(a) = 1 /\ 3 - Len(a) = 2
    BY <1>2
  <2>3. /\ 1 \in 1 .. 3 /\ 2 \in 1 .. 3 /\ 3 \in 1 .. 3
        /\ 1 <= Len(a) /\ ~(2 <= Len(a)) /\ ~(3 <= Len(a))
    BY <1>2
  <2> QED
    BY <2>1, <2>2, <2>3
<1> DEFINE d == a \o b
<1> HIDE DEF d
<1>4. d \o c \in Seq(S) /\ Len(d \o c) = 4 /\ (d \o c)[1] = d[1] /\ (d \o c)[2] = d[2]
      /\ (d \o c)[3] = d[3] /\ (d \o c)[4] = c[1]
  <2>0. d \in Seq(S) /\ Len(d) = 3
    BY <1>3 DEF d
  <2>1. /\ d \o c \in Seq(S) /\ Len(d \o c) = Len(d) + Len(c)
        /\ \A i \in 1 .. Len(d) + Len(c) :
              (d \o c)[i] = IF i <= Len(d) THEN d[i] ELSE c[i - Len(d)]
    BY <1>2, <2>0, ConcatProperties
  <2> QED
    BY <1>2, <2>0, <2>1
<1>5. CreateWrites(s, hdr, t, m) = d \o c
  BY DEF CreateWrites, a, b, c, d
<1> QED
  BY <1>2, <1>3, <1>4, <1>5 DEF d, CreatesFile

RemovesFile(w, m, t) ==
    /\ \E S : w \in Seq(S)
    /\ Len(w) = 3
    /\ w[1] = [sector |-> Reserved[1], contents |-> Map(m)]
    /\ w[2] = [sector |-> Reserved[2], contents |-> Part(t, FirstPart)]
    /\ w[3] = [sector |-> Reserved[3], contents |-> Part(t, Fields \ FirstPart)]

\* The three writes of Remove: map, directory in two sectors
LEMMA RemoveWritesAre ==
    ASSUME NEW t, NEW m, Formatted
    PROVE  RemovesFile(RemoveWrites(m, t), m, t)
<1>1. DirectorySectors = <<Reserved[2], Reserved[3]>> /\ MapSector = Reserved[1]
  BY PlacedSectors DEF Formatted
<1> DEFINE b == DirectoryWrites(DirectorySectors, t)
           c == MapWrites(MapSector, m)
           S == {b[1], b[2], c[1]}
<1>2. /\ b \in Seq(S) /\ Len(b) = 2
      /\ b[1] = [sector |-> Reserved[2], contents |-> Part(t, FirstPart)]
      /\ b[2] = [sector |-> Reserved[3], contents |-> Part(t, Fields \ FirstPart)]
      /\ c \in Seq(S) /\ Len(c) = 1 /\ c[1] = [sector |-> Reserved[1], contents |-> Map(m)]
  BY <1>1 DEF DirectoryWrites, MapWrites
<1> HIDE DEF b, c, S
<1>3. /\ c \o b \in Seq(S) /\ Len(c \o b) = 3
      /\ (c \o b)[1] = c[1] /\ (c \o b)[2] = b[1] /\ (c \o b)[3] = b[2]
  <2>1. /\ c \o b \in Seq(S) /\ Len(c \o b) = Len(c) + Len(b)
        /\ \A i \in 1 .. Len(c) + Len(b) :
              (c \o b)[i] = IF i <= Len(c) THEN c[i] ELSE b[i - Len(c)]
    BY <1>2, ConcatProperties
  <2>2. Len(c) + Len(b) = 3 /\ 1 - Len(c) = 0 /\ 2 - Len(c) = 1 /\ 3 - Len(c) = 2
    BY <1>2
  <2>3. /\ 1 \in 1 .. 3 /\ 2 \in 1 .. 3 /\ 3 \in 1 .. 3
        /\ 1 <= Len(c) /\ ~(2 <= Len(c)) /\ ~(3 <= Len(c))
    BY <1>2
  <2> QED
    BY <2>1, <2>2, <2>3
<1>4. RemoveWrites(m, t) = c \o b
  BY DEF RemoveWrites, b, c
<1> QED
  BY <1>2, <1>3, <1>4 DEF RemovesFile

\* Of the writes of a command that leave w, the next one is w[k], and it leaves
\* those after it.
LEMMA NextWrite ==
    ASSUME NEW w, \E S : w \in Seq(S), NEW k \in 1 .. Len(w),
           pending = SubSeq(w, k, Len(w))
    PROVE  /\ pending # <<>> /\ Len(pending) = Len(w) - k + 1
           /\ Head(pending) = w[k] /\ Tail(pending) = SubSeq(w, k + 1, Len(w))
BY Left

----------------------------------------------------------------------------
(* Reading a formatted disk *)

\* What FetchFrom finds on a formatted disk
LEMMA Read ==
    ASSUME Formatted
    PROVE  /\ MapSector = Reserved[1] /\ DirectorySectors = <<Reserved[2], Reserved[3]>>
           /\ SystemSectors = ReservedSectors
           /\ marked = disk[Reserved[1]].marked
           /\ \A f \in FirstPart : table[f] = disk[Reserved[2]].table[f]
           /\ \A f \in Fields \ FirstPart : table[f] = disk[Reserved[3]].table[f]
<1>1. DirectorySectors = <<Reserved[2], Reserved[3]>> /\ MapSector = Reserved[1]
  BY PlacedSectors DEF Formatted
<1>2. FirstPart \subseteq Fields
  BY DEF FirstPart
<1>3. DirectorySectors[1] = Reserved[2] /\ DirectorySectors[2] = Reserved[3]
  BY <1>1
<1>4. \A f \in Fields : table[f] = disk[DirectorySectors[IF f \in FirstPart THEN 1 ELSE 2]].table[f]
  BY DEF table
<1> QED
  BY <1>1, <1>2, <1>3, <1>4 DEF marked, SystemSectors, ReservedSectors

\* The same, one step later

LEMMA PlacedNext ==
    ASSUME Placed'
    PROVE  DirectorySectors' = <<Reserved[2], Reserved[3]>> /\ MapSector' = Reserved[1]
<1> DEFINE r1 == Reserved[1]
           r2 == Reserved[2]
           r3 == Reserved[3]
           long == 2 * SectorSize
<1>1. /\ disk'[FreeMapSector] = [kind |-> "header", numBytes |-> SectorSize, dataSectors |-> <<r1>>]
      /\ disk'[DirectorySector] = [kind |-> "header", numBytes |-> long, dataSectors |-> <<r2, r3>>]
  BY DEF Placed, Header
<1> HIDE DEF r1, r2, r3, long
<1>2. disk'[FreeMapSector].dataSectors = <<r1>> /\ disk'[DirectorySector].dataSectors = <<r2, r3>>
  BY <1>1
<1> QED
  BY <1>2 DEF DirectorySectors, MapSector, r1, r2, r3

LEMMA ReadNext ==
    ASSUME Placed'
    PROVE  /\ MapSector' = Reserved[1] /\ DirectorySectors' = <<Reserved[2], Reserved[3]>>
           /\ SystemSectors' = ReservedSectors
           /\ marked' = disk'[Reserved[1]].marked
           /\ \A f \in FirstPart : table'[f] = disk'[Reserved[2]].table[f]
           /\ \A f \in Fields \ FirstPart : table'[f] = disk'[Reserved[3]].table[f]
<1>1. DirectorySectors' = <<Reserved[2], Reserved[3]>> /\ MapSector' = Reserved[1]
  BY PlacedNext
<1>2. FirstPart \subseteq Fields
  BY DEF FirstPart
<1>3. DirectorySectors'[1] = Reserved[2] /\ DirectorySectors'[2] = Reserved[3]
  BY <1>1
<1>4. \A f \in Fields :
        table'[f] = disk'[DirectorySectors'[IF f \in FirstPart THEN 1 ELSE 2]].table[f]
  BY DEF table
<1> QED
  BY <1>1, <1>2, <1>3, <1>4 DEF marked, SystemSectors, ReservedSectors

\* The fields of an entry are fields of the directory.
LEMMA FieldFacts ==
    /\ \A e \in Entries : /\ <<e, "inUse">> \in Fields /\ <<e, "sector">> \in Fields
                          /\ <<e, "name">> \in Fields
    /\ FirstPart \subseteq Fields
BY DEF Fields, FirstPart

\* A step that leaves the directory as it was
LEMMA TableKept ==
    ASSUME Formatted, Placed',
           disk'[Reserved[2]] = disk[Reserved[2]], disk'[Reserved[3]] = disk[Reserved[3]]
    PROVE  /\ \A f \in Fields : table'[f] = table[f]
           /\ \A e \in Entries : InUse(e)' = InUse(e) /\ SectorOf(e)' = SectorOf(e)
<1>1. \A f \in Fields : table'[f] = table[f]
  BY Read, ReadNext
<1> QED
  BY <1>1, FieldFacts DEF InUse, SectorOf

\* A step that writes a part of the directory
LEMMA FirstPartWritten ==
    ASSUME Formatted, Placed', NEW t,
           disk'[Reserved[2]] = Part(t, FirstPart), disk'[Reserved[3]] = disk[Reserved[3]]
    PROVE  /\ \A f \in FirstPart : table'[f] = t[f]
           /\ \A f \in Fields \ FirstPart : table'[f] = table[f]
<1>1. disk'[Reserved[2]].table = [f \in FirstPart |-> t[f]]
  BY DEF Part
<1>2. \A f \in FirstPart : disk'[Reserved[2]].table[f] = t[f]
  BY <1>1
<1> QED
  BY <1>2, Read, ReadNext

LEMMA SecondPartWritten ==
    ASSUME Formatted, Placed', NEW t,
           disk'[Reserved[3]] = Part(t, Fields \ FirstPart),
           disk'[Reserved[2]] = disk[Reserved[2]]
    PROVE  /\ \A f \in FirstPart : table'[f] = table[f]
           /\ \A f \in Fields \ FirstPart : table'[f] = t[f]
<1>1. disk'[Reserved[3]].table = [f \in Fields \ FirstPart |-> t[f]]
  BY DEF Part
<1>2. \A f \in Fields \ FirstPart : disk'[Reserved[3]].table[f] = t[f]
  BY <1>1
<1>3. \A f \in Fields \ FirstPart : table'[f] = t[f]
  BY <1>2, ReadNext
<1>4. \A f \in FirstPart : table'[f] = table[f]
  BY Read, ReadNext
<1> QED
  BY <1>3, <1>4

\* The files whose headers a step leaves alone
LEMMA FilesKept ==
    ASSUME FilesOK, Listed' \subseteq Listed,
           \A e \in Listed' : /\ SectorOf(e)' = SectorOf(e)
                              /\ disk'[SectorOf(e)] = disk[SectorOf(e)]
    PROVE  /\ FilesOK'
           /\ \A e \in Listed' : HeaderOf(e)' = HeaderOf(e) /\ FileSectors(e)' = FileSectors(e)
<1>1. \A e \in Listed' : HeaderOf(e)' = HeaderOf(e)
  BY DEF HeaderOf
<1>2. \A e \in Listed' : FileSectors(e)' = FileSectors(e)
  BY <1>1 DEF FileSectors, DataSectors
<1>3. ASSUME NEW e \in Listed'
      PROVE  /\ FileOK(HeaderOf(e)', SectorOf(e)')
             /\ \A d \in Listed' \ {e} : FileSectors(e)' \cap FileSectors(d)' = {}
  <2>1. e \in Listed /\ HeaderOf(e)' = HeaderOf(e) /\ SectorOf(e)' = SectorOf(e)
    BY <1>1
  <2>2. FileOK(HeaderOf(e), SectorOf(e))
    BY <2>1 DEF FilesOK
  <2>3. \A d \in Listed' \ {e} : d \in Listed \ {e} /\ FileSectors(d)' = FileSectors(d)
    BY <1>2
  <2>4. \A d \in Listed \ {e} : FileSectors(e) \cap FileSectors(d) = {}
    BY <2>1 DEF FilesOK
  <2> QED
    BY <1>2, <2>1, <2>2, <2>3, <2>4
<1>4. FilesOK'
  BY <1>3 DEF FilesOK, FileOK
<1> QED
  BY <1>1, <1>2, <1>4

\* Where headers are and are not
LEMMA HeaderPlaces ==
    ASSUME FilesOK, MapOK, NEW e \in Listed
    PROVE  /\ SectorOf(e) \notin ReservedSectors /\ SectorOf(e) \in FileSectors(e)
           /\ FileSectors(e) \subseteq marked /\ ReservedSectors \subseteq marked
           /\ FileSectors(e) = Extent(HeaderOf(e), SectorOf(e))
BY DEF FilesOK, FileOK, MapOK, FileSectors, DataSectors, Extent

\* The sectors of a file are none of the file system.
LEMMA ExtentPlaces ==
    ASSUME NEW hdr, NEW s, FileOK(hdr, s)
    PROVE  Extent(hdr, s) \subseteq Sectors \ ReservedSectors
<1>1. \A i \in DOMAIN hdr.dataSectors : hdr.dataSectors[i] \in Sectors \ ReservedSectors
  BY LenProperties, ElementOfSeq DEF FileOK
<1> QED
  BY <1>1 DEF FileOK, Extent

----------------------------------------------------------------------------
(* A write of Create *)

\* What a write does to the disk
Writes(s, c) == disk' = [disk EXCEPT ![s] = c]

\* A write changes one sector.
LEMMA Written ==
    ASSUME ClientType, NEW s \in Sectors, NEW c, Writes(s, c)
    PROVE  /\ DOMAIN disk' = Sectors /\ disk'[s] = c
           /\ \A x \in Sectors \ {s} : disk'[x] = disk[x]
BY DEF ClientType, Writes

\* A write to a sector that is not of the file system leaves it formatted.
LEMMA FormattedKept ==
    ASSUME Formatted, \A x \in ReservedSectors : disk'[x] = disk[x]
    PROVE  /\ Formatted' /\ Placed'
           /\ marked' = marked /\ \A f \in Fields : table'[f] = table[f]
           /\ \A e \in Entries : InUse(e)' = InUse(e) /\ SectorOf(e)' = SectorOf(e)
<1>1. Placed'
  BY DEF Formatted, Placed, ReservedSectors
<1>2. /\ disk'[Reserved[1]] = disk[Reserved[1]] /\ disk'[Reserved[2]] = disk[Reserved[2]]
      /\ disk'[Reserved[3]] = disk[Reserved[3]]
  BY DEF ReservedSectors
<1>3. /\ \A f \in Fields : table'[f] = table[f]
      /\ \A e \in Entries : InUse(e)' = InUse(e) /\ SectorOf(e)' = SectorOf(e)
  BY <1>1, <1>2, TableKept
<1>4. marked' = marked
  BY <1>1, <1>2, Read, ReadNext
<1>5. Formatted'
  BY <1>1, <1>2, <1>3 DEF Formatted
<1> QED
  BY <1>1, <1>3, <1>4, <1>5

\* The entries that are listed during a command
LEMMA ListedIs ==
    ASSUME Formatted
    PROVE  /\ client.kind \notin {"create", "remove"} \/ Len(pending) \notin 1 .. 2 =>
                  Listed = {e \in Entries : InUse(e)}
           /\ client.kind \in {"create", "remove"} /\ Len(pending) \in 1 .. 2 =>
                  Listed = {e \in Entries : InUse(e) /\ e # client.entry}
BY DEF Listed, HalfWritten

LEMMA ListedNext ==
    /\ client'.kind \notin {"create", "remove"} \/ Len(pending') \notin 1 .. 2 =>
           Listed' = {e \in Entries : InUse(e)'}
    /\ client'.kind \in {"create", "remove"} /\ Len(pending') \in 1 .. 2 =>
           Listed' = {e \in Entries : InUse(e)' /\ e # client'.entry}
BY DEF Listed, HalfWritten

\* The parts of the invariant that are about the disk
DiskOK == Formatted /\ FilesOK /\ MapOK

\* The writes of a command depend on the disk only through the sectors of
\* map and directory, which never change.
LEMMA CreateWritesKept ==
    ASSUME Formatted, Placed', NEW s, NEW hdr, NEW t, NEW m
    PROVE  CreateWrites(s, hdr, t, m)' = CreateWrites(s, hdr, t, m)
BY PlacedSectors, PlacedNext DEF Formatted, CreateWrites

LEMMA RemoveWritesKept ==
    ASSUME Formatted, Placed', NEW t, NEW m
    PROVE  RemoveWrites(m, t)' = RemoveWrites(m, t)
BY PlacedSectors, PlacedNext DEF Formatted, RemoveWrites

\* The next write of a Create, and what it leaves
LEMMA CreateNext ==
    ASSUME Formatted, WriteSector, NEW n \in 1 .. 4, Len(pending) = n,
           NEW s, NEW hdr, NEW t, NEW m,
           pending = SubSeq(CreateWrites(s, hdr, t, m), 5 - n, 4)
    PROVE  /\ Len(pending') = n - 1
           /\ pending' = SubSeq(CreateWrites(s, hdr, t, m), 5 - Len(pending'), 4)
           /\ n = 4 => Writes(s, hdr)
           /\ n = 3 => Writes(Reserved[2], Part(t, FirstPart))
           /\ n = 2 => Writes(Reserved[3], Part(t, Fields \ FirstPart))
           /\ n = 1 => Writes(Reserved[1], Map(m)) /\ pending' = <<>>
<1> DEFINE w == CreateWrites(s, hdr, t, m)
           k == 5 - n
<1>1. /\ \E S : w \in Seq(S)
      /\ Len(w) = 4
      /\ w[1] = [sector |-> s, contents |-> hdr]
      /\ w[2] = [sector |-> Reserved[2], contents |-> Part(t, FirstPart)]
      /\ w[3] = [sector |-> Reserved[3], contents |-> Part(t, Fields \ FirstPart)]
      /\ w[4] = [sector |-> Reserved[1], contents |-> Map(m)]
  <2>1. CreatesFile(w, s, hdr, t, m)
    BY CreateWritesAre
  <2> HIDE DEF w
  <2> QED
    BY <2>1 DEF CreatesFile
<1>0. k \in 1 .. 4 /\ 4 - k + 1 = n
  OBVIOUS
<1>9. pending = SubSeq(w, k, 4)
  OBVIOUS
<1> HIDE DEF w
<1>2. k \in 1 .. 4 /\ pending = SubSeq(w, k, Len(w)) /\ 4 - k + 1 = n
  BY <1>0, <1>1, <1>9
<1>3. /\ pending # <<>> /\ Len(pending) = 4 - k + 1
      /\ Head(pending) = w[k] /\ Tail(pending) = SubSeq(w, k + 1, 4)
  BY <1>1, <1>2, NextWrite
<1>4. /\ disk' = [disk EXCEPT ![w[k].sector] = w[k].contents]
      /\ pending' = SubSeq(w, k + 1, 4)
  BY <1>3 DEF WriteSector
<1>5. Len(pending') = n - 1 /\ 5 - Len(pending') = k + 1
  <2>1. PICK S : w \in Seq(S)
    BY <1>1
  <2>2. Len(SubSeq(w, k + 1, 4)) = 4 - k
    BY <1>1, <1>2, <2>1
  <2> QED
    BY <1>2, <1>4, <2>2
<1>6. n = 1 => pending' = <<>>
  <2>1. PICK S : w \in Seq(S)
    BY <1>1
  <2>2. k = 4 => SubSeq(w, k + 1, 4) = <<>>
    BY <1>1, <2>1
  <2> QED
    BY <1>2, <1>4, <2>2
<1>7. /\ w[1].sector = s /\ w[1].contents = hdr
      /\ w[2].sector = Reserved[2] /\ w[2].contents = Part(t, FirstPart)
      /\ w[3].sector = Reserved[3] /\ w[3].contents = Part(t, Fields \ FirstPart)
      /\ w[4].sector = Reserved[1] /\ w[4].contents = Map(m)
  BY <1>1
<1>8. /\ n = 4 => Writes(s, hdr)
      /\ n = 3 => Writes(Reserved[2], Part(t, FirstPart))
      /\ n = 2 => Writes(Reserved[3], Part(t, Fields \ FirstPart))
      /\ n = 1 => Writes(Reserved[1], Map(m))
  <2>1. (n = 4 => k = 1) /\ (n = 3 => k = 2) /\ (n = 2 => k = 3) /\ (n = 1 => k = 4)
    OBVIOUS
  <2> HIDE DEF k
  <2> QED
    BY <1>4, <1>7, <2>1 DEF Writes
<1> QED
  BY <1>4, <1>5, <1>6, <1>8 DEF w

\* The next write of a Remove
LEMMA RemoveNext ==
    ASSUME Formatted, WriteSector, NEW n \in 1 .. 3, Len(pending) = n, NEW t, NEW m,
           pending = SubSeq(RemoveWrites(m, t), 4 - n, 3)
    PROVE  /\ Len(pending') = n - 1
           /\ pending' = SubSeq(RemoveWrites(m, t), 4 - Len(pending'), 3)
           /\ n = 3 => Writes(Reserved[1], Map(m))
           /\ n = 2 => Writes(Reserved[2], Part(t, FirstPart))
           /\ n = 1 => Writes(Reserved[3], Part(t, Fields \ FirstPart)) /\ pending' = <<>>
<1> DEFINE w == RemoveWrites(m, t)
           k == 4 - n
<1>1. /\ \E S : w \in Seq(S)
      /\ Len(w) = 3
      /\ w[1] = [sector |-> Reserved[1], contents |-> Map(m)]
      /\ w[2] = [sector |-> Reserved[2], contents |-> Part(t, FirstPart)]
      /\ w[3] = [sector |-> Reserved[3], contents |-> Part(t, Fields \ FirstPart)]
  <2>1. RemovesFile(w, m, t)
    BY RemoveWritesAre
  <2> HIDE DEF w
  <2> QED
    BY <2>1 DEF RemovesFile
<1>0. k \in 1 .. 3 /\ 3 - k + 1 = n
  OBVIOUS
<1>9. pending = SubSeq(w, k, 3)
  OBVIOUS
<1> HIDE DEF w
<1>2. k \in 1 .. 3 /\ pending = SubSeq(w, k, Len(w)) /\ 3 - k + 1 = n
  BY <1>0, <1>1, <1>9
<1>3. /\ pending # <<>> /\ Len(pending) = 3 - k + 1
      /\ Head(pending) = w[k] /\ Tail(pending) = SubSeq(w, k + 1, 3)
  BY <1>1, <1>2, NextWrite
<1>4. /\ disk' = [disk EXCEPT ![w[k].sector] = w[k].contents]
      /\ pending' = SubSeq(w, k + 1, 3)
  BY <1>3 DEF WriteSector
<1>5. Len(pending') = n - 1 /\ 4 - Len(pending') = k + 1
  <2>1. PICK S : w \in Seq(S)
    BY <1>1
  <2>2. Len(SubSeq(w, k + 1, 3)) = 3 - k
    BY <1>1, <1>2, <2>1
  <2> QED
    BY <1>2, <1>4, <2>2
<1>6. n = 1 => pending' = <<>>
  <2>1. PICK S : w \in Seq(S)
    BY <1>1
  <2>2. k = 3 => SubSeq(w, k + 1, 3) = <<>>
    BY <1>1, <2>1
  <2> QED
    BY <1>2, <1>4, <2>2
<1>7. /\ w[1].sector = Reserved[1] /\ w[1].contents = Map(m)
      /\ w[2].sector = Reserved[2] /\ w[2].contents = Part(t, FirstPart)
      /\ w[3].sector = Reserved[3] /\ w[3].contents = Part(t, Fields \ FirstPart)
  BY <1>1
<1>8. /\ n = 3 => Writes(Reserved[1], Map(m))
      /\ n = 2 => Writes(Reserved[2], Part(t, FirstPart))
      /\ n = 1 => Writes(Reserved[3], Part(t, Fields \ FirstPart))
  <2>1. (n = 3 => k = 1) /\ (n = 2 => k = 2) /\ (n = 1 => k = 3)
    OBVIOUS
  <2> HIDE DEF k
  <2> QED
    BY <1>4, <1>7, <2>1 DEF Writes
<1> QED
  BY <1>4, <1>5, <1>6, <1>8 DEF w

\* What writing a part of the directory leaves alone: the entries of which t has
\* what the disk has, and the sectors of files
PartOf(t) ==
    \/ Writes(Reserved[2], Part(t, FirstPart))
    \/ Writes(Reserved[3], Part(t, Fields \ FirstPart))

\* A write of one part of the directory leaves the other sectors alone.
LEMMA OutsideKept ==
    ASSUME ClientType, NEW t, PartOf(t)
    PROVE  \A x \in Sectors \ {Reserved[2], Reserved[3]} : disk'[x] = disk[x]
<1>1. Reserved[2] \in Sectors /\ Reserved[3] \in Sectors
  BY ReservedFacts
<1> QED
  BY <1>1, Written DEF PartOf

\* What the directory is after the write of one part
LEMMA PartTable ==
    ASSUME ClientType, Formatted, NEW t, PartOf(t)
    PROVE  /\ Placed' /\ marked' = marked
           /\ disk'[Reserved[1]].kind = "map"
           /\ disk'[Reserved[2]].kind = "directory" /\ disk'[Reserved[3]].kind = "directory"
           /\ Writes(Reserved[2], Part(t, FirstPart)) =>
                 /\ \A f \in FirstPart : table'[f] = t[f]
                 /\ \A f \in Fields \ FirstPart : table'[f] = table[f]
           /\ Writes(Reserved[3], Part(t, Fields \ FirstPart)) =>
                 /\ \A f \in FirstPart : table'[f] = table[f]
                 /\ \A f \in Fields \ FirstPart : table'[f] = t[f]
           /\ \A f \in Fields : table'[f] = table[f] \/ table'[f] = t[f]
<1>1. /\ Reserved[2] \in Sectors /\ Reserved[3] \in Sectors /\ Reserved[1] \in Sectors
      /\ FreeMapSector \in Sectors /\ DirectorySector \in Sectors
      /\ Reserved[2] # Reserved[3] /\ Reserved[1] # Reserved[2] /\ Reserved[1] # Reserved[3]
      /\ Reserved[2] # FreeMapSector /\ Reserved[2] # DirectorySector
      /\ Reserved[3] # FreeMapSector /\ Reserved[3] # DirectorySector
  BY ReservedFacts DEF ReservedSectors
<1>2. \A x \in Sectors \ {Reserved[2], Reserved[3]} : disk'[x] = disk[x]
  BY OutsideKept
<1>3. Placed' /\ disk'[Reserved[1]] = disk[Reserved[1]]
  BY <1>1, <1>2 DEF Formatted, Placed
<1>4. marked' = marked
  BY <1>3, Read, ReadNext 
<1>5. /\ Writes(Reserved[2], Part(t, FirstPart)) =>
            /\ \A f \in FirstPart : table'[f] = t[f]
            /\ \A f \in Fields \ FirstPart : table'[f] = table[f]
            /\ disk'[Reserved[2]].kind = "directory" /\ disk'[Reserved[3]].kind = "directory"
      /\ Writes(Reserved[3], Part(t, Fields \ FirstPart)) =>
            /\ \A f \in FirstPart : table'[f] = table[f]
            /\ \A f \in Fields \ FirstPart : table'[f] = t[f]
            /\ disk'[Reserved[2]].kind = "directory" /\ disk'[Reserved[3]].kind = "directory"
  <2>1. ASSUME Writes(Reserved[2], Part(t, FirstPart))
        PROVE  /\ \A f \in FirstPart : table'[f] = t[f]
               /\ \A f \in Fields \ FirstPart : table'[f] = table[f]
               /\ disk'[Reserved[2]].kind = "directory" /\ disk'[Reserved[3]].kind = "directory"
    <3>1. disk'[Reserved[2]] = Part(t, FirstPart) /\ disk'[Reserved[3]] = disk[Reserved[3]]
      BY <1>1, <2>1, Written
    <3> QED
      BY <1>3, <3>1, FirstPartWritten DEF Formatted, Part
  <2>2. ASSUME Writes(Reserved[3], Part(t, Fields \ FirstPart))
        PROVE  /\ \A f \in FirstPart : table'[f] = table[f]
               /\ \A f \in Fields \ FirstPart : table'[f] = t[f]
               /\ disk'[Reserved[2]].kind = "directory" /\ disk'[Reserved[3]].kind = "directory"
    <3>1. disk'[Reserved[3]] = Part(t, Fields \ FirstPart) /\ disk'[Reserved[2]] = disk[Reserved[2]]
      BY <1>1, <2>2, Written
    <3>2. /\ \A f \in FirstPart : table'[f] = table[f]
          /\ \A f \in Fields \ FirstPart : table'[f] = t[f]
      BY <1>3, <3>1, SecondPartWritten
    <3>3. disk'[Reserved[2]].kind = "directory" /\ disk'[Reserved[3]].kind = "directory"
      BY <3>1 DEF Formatted, Part
    <3> QED
      BY <3>2, <3>3
  <2> QED
    BY <2>1, <2>2
<1>6. \A f \in Fields : table'[f] = table[f] \/ table'[f] = t[f]
  <2> TAKE f \in Fields
  <2>1. f \in FirstPart \/ f \in Fields \ FirstPart
    OBVIOUS
  <2> QED
    BY <1>5, <2>1 DEF PartOf
<1> QED
  BY <1>3, <1>4, <1>5, <1>6 DEF Formatted, PartOf

\* Such a write changes one entry only, if the new table differs in no other.
LEMMA EntriesKept ==
    ASSUME ClientType, Formatted, NEW t, PartOf(t), NEW n \in Entries,
           \A f \in Fields : f[1] # n => table[f] = t[f]
    PROVE  /\ \A f \in Fields : f[1] # n => table'[f] = table[f]
           /\ \A e \in Entries \ {n} : InUse(e)' = InUse(e) /\ SectorOf(e)' = SectorOf(e)
<1>1. \A f \in Fields : f[1] # n => table'[f] = table[f]
  BY PartTable
<1>2. \A e \in Entries : /\ <<e, "inUse">>[1] = e /\ <<e, "sector">>[1] = e
                         /\ <<e, "inUse">> \in Fields /\ <<e, "sector">> \in Fields
  <2>1. \A e \in Entries : <<e, "inUse">>[1] = e /\ <<e, "sector">>[1] = e
    OBVIOUS
  <2> QED
    BY <2>1, FieldFacts, Zenon
<1> QED
  BY <1>1, <1>2 DEF InUse, SectorOf

\* Writing a part of a directory t that differs from the one on the disk only in
\* an entry that is not listed
LEMMA PartWritten ==
    ASSUME ClientType, DiskOK, Listed' = Listed, NEW n \in Entries \ Listed,
           NEW t, PartOf(t), \A f \in Fields : f[1] # n => table[f] = t[f],
           t[<<n, "inUse">>] \in BOOLEAN
    PROVE  DiskOK'
<1>2. \A x \in Sectors \ {Reserved[2], Reserved[3]} : disk'[x] = disk[x]
  BY OutsideKept
<1>3. /\ Placed' /\ marked' = marked
      /\ disk'[Reserved[1]].kind = "map"
      /\ disk'[Reserved[2]].kind = "directory" /\ disk'[Reserved[3]].kind = "directory"
      /\ \A f \in Fields : table'[f] = table[f] \/ table'[f] = t[f]
  BY PartTable DEF DiskOK
<1>7. \A e \in Entries \ {n} : InUse(e)' = InUse(e) /\ SectorOf(e)' = SectorOf(e)
  BY EntriesKept DEF DiskOK
<1>8. \A e \in Entries : InUse(e)' \in BOOLEAN
  <2> TAKE e \in Entries
  <2>1. <<e, "inUse">> \in Fields
    BY FieldFacts
  <2>2. InUse(e)' = InUse(e) \/ InUse(e)' = t[<<e, "inUse">>]
    BY <1>3, <2>1 DEF InUse
  <2> QED
    BY <1>7, <2>2 DEF DiskOK, Formatted
<1>9. Formatted'
  BY <1>3, <1>8 DEF Formatted
<1>10. \A e \in Listed' : SectorOf(e)' = SectorOf(e) /\ disk'[SectorOf(e)] = disk[SectorOf(e)]
  <2> TAKE e \in Listed'
  <2>1. e \in Entries /\ e # n /\ e \in Listed
    BY DEF Listed
  <2>2. SectorOf(e) \in Sectors \ ReservedSectors
    BY <2>1 DEF DiskOK, FilesOK, FileOK
  <2> QED
    BY <1>2, <1>7, <2>1, <2>2 DEF ReservedSectors
<1>11. FilesOK' /\ \A e \in Listed' : FileSectors(e)' = FileSectors(e)
  BY <1>10, FilesKept DEF DiskOK
<1>12. MapOK'
  BY <1>3, <1>11 DEF DiskOK, MapOK
<1> QED
  BY <1>9, <1>11, <1>12 DEF DiskOK

\* A step of WriteSector leaves client and usable alone.
LEMMA SameClient ==
    ASSUME WriteSector
    PROVE  client' = client /\ usable' = usable /\ pending # <<>>
BY DEF WriteSector

\* The header is written to a sector that was clear.
LEMMA WriteHeader ==
    ASSUME ClientType, DiskOK, WriteSector, client.kind = "create", Len(pending) = 4,
           client.entry \in Entries,
           NEW s \in Sectors, NEW hdr, NEW t, NEW m, Created(s, hdr, t, m)
    PROVE  DiskOK' /\ Len(pending') = 3 /\ Created(s, hdr, t, m)'
<1>1. pending = SubSeq(CreateWrites(s, hdr, t, m), 5 - 4, 4)
  BY DEF Created
<1>2. /\ Len(pending') = 3 /\ Writes(s, hdr)
      /\ pending' = SubSeq(CreateWrites(s, hdr, t, m), 5 - Len(pending'), 4)
  <2>1. Len(pending') = 4 - 1 /\ Writes(s, hdr)
        /\ pending' = SubSeq(CreateWrites(s, hdr, t, m), 5 - Len(pending'), 4)
    BY <1>1, CreateNext, 4 \in 1 .. 4 DEF DiskOK
  <2> QED
    BY <2>1
<1>3. s \in Extent(hdr, s) /\ s \notin marked /\ s \notin ReservedSectors
  <2>1. s \in Extent(hdr, s) /\ s \notin marked
    BY DEF Created, Extent
  <2> QED
    BY <2>1 DEF DiskOK, MapOK
<1>4. disk'[s] = hdr /\ \A x \in Sectors \ {s} : disk'[x] = disk[x]
  BY <1>2, Written
<1>5. \A x \in ReservedSectors : disk'[x] = disk[x]
  BY <1>3, <1>4, ReservedFacts
<1>6. /\ Formatted' /\ Placed' /\ marked' = marked
      /\ \A f \in Fields : table'[f] = table[f]
      /\ \A e \in Entries : InUse(e)' = InUse(e) /\ SectorOf(e)' = SectorOf(e)
  BY <1>5, FormattedKept DEF DiskOK
<1>7. Listed' = Listed
  BY <1>2, <1>6, ListedIs, ListedNext DEF DiskOK
<1>8. \A e \in Listed' : SectorOf(e)' = SectorOf(e) /\ disk'[SectorOf(e)] = disk[SectorOf(e)]
  <2> TAKE e \in Listed'
  <2>1. e \in Listed /\ e \in Entries
    BY <1>7 DEF Listed
  <2>2. SectorOf(e) \in marked /\ SectorOf(e) \in Sectors
    BY <2>1, HeaderPlaces DEF DiskOK, FilesOK, FileOK
  <2> QED
    BY <1>3, <1>4, <1>6, <2>1, <2>2
<1>9. FilesOK' /\ \A e \in Listed' : FileSectors(e)' = FileSectors(e)
  BY <1>7, <1>8, FilesKept DEF DiskOK
<1>10. MapOK'
  BY <1>6, <1>7, <1>9 DEF DiskOK, MapOK
<1>11. CreateWrites(s, hdr, t, m)' = CreateWrites(s, hdr, t, m)
  BY <1>6, CreateWritesKept DEF DiskOK
<1>12. client' = client
  BY SameClient
<1>13. InUse(client.entry)' = InUse(client.entry)
  BY <1>6, <1>12 DEF InUse
<1> QED
  BY <1>2, <1>4, <1>6, <1>9, <1>10, <1>11, <1>12, <1>13 DEF Created, DiskOK


\* A part of the directory is written, with the new entry.
LEMMA WriteFirst ==
    ASSUME ClientType, DiskOK, WriteSector, client.kind = "create", Len(pending) = 3,
           client.entry \in Entries,
           NEW s \in Sectors, NEW hdr, NEW t, NEW m, Created(s, hdr, t, m)
    PROVE  DiskOK' /\ Len(pending') = 2 /\ Created(s, hdr, t, m)'
<1> DEFINE n == client.entry
<1>1. /\ pending = SubSeq(CreateWrites(s, hdr, t, m), 5 - 3, 4)
      /\ \A f \in Fields : f[1] # n => table[f] = t[f]
      /\ t[<<n, "inUse">>] \in BOOLEAN /\ ~InUse(n) /\ disk[s] = hdr
  <2>1. 3 >= 3 /\ 3 <= 3
    OBVIOUS
  <2> QED
    BY <2>1, Zenon DEF Created
<1>2. /\ Len(pending') = 2 /\ Writes(Reserved[2], Part(t, FirstPart))
      /\ pending' = SubSeq(CreateWrites(s, hdr, t, m), 5 - Len(pending'), 4)
  <2>1. /\ Len(pending') = 3 - 1 /\ Writes(Reserved[2], Part(t, FirstPart))
        /\ pending' = SubSeq(CreateWrites(s, hdr, t, m), 5 - Len(pending'), 4)
    BY <1>1, CreateNext, 3 \in 1 .. 4 DEF DiskOK
  <2> QED
    BY <2>1
<1>3. client' = client
  BY SameClient
<1>4. Listed = {e \in Entries : InUse(e)} /\ n \in Entries \ Listed
  BY <1>1, ListedIs DEF DiskOK
<1>5. Listed' = {e \in Entries : InUse(e)' /\ e # n}
  BY <1>2, <1>3, ListedNext
<1>6. \A e \in Entries \ {n} : InUse(e)' = InUse(e)
  <2>1. PartOf(t)
    BY <1>2 DEF PartOf
  <2> HIDE DEF n
  <2> QED
    BY <1>1, <1>4, <2>1, EntriesKept DEF DiskOK
<1>7. Listed' = Listed
  BY <1>1, <1>4, <1>5, <1>6
<1> HIDE DEF n
<1>8. /\ DiskOK' /\ Placed' /\ marked' = marked
      /\ \A f \in Fields : f[1] # n => table'[f] = table[f]
      /\ \A f \in FirstPart : table'[f] = t[f]
  <2>1. PartOf(t)
    BY <1>2 DEF PartOf
  <2>2. DiskOK'
    BY <1>1, <1>4, <1>7, <2>1, PartWritten
  <2> QED
    BY <1>1, <1>2, <1>4, <2>1, <2>2, PartTable, EntriesKept DEF DiskOK
<1>9. CreateWrites(s, hdr, t, m)' = CreateWrites(s, hdr, t, m)
  BY <1>8, CreateWritesKept DEF DiskOK
<1>10. disk'[s] = hdr
  BY <1>1, <1>2, OutsideKept DEF Created, FileOK, PartOf, ReservedSectors
<1>11. \A f \in Fields : f[1] # n => table'[f] = t[f]
  BY <1>1, <1>8
<1> QED
  BY <1>1, <1>2, <1>3, <1>8, <1>9, <1>10, <1>11 DEF Created, n

LEMMA WriteSecond ==
    ASSUME ClientType, DiskOK, WriteSector, client.kind = "create", Len(pending) = 2,
           client.entry \in Entries,
           NEW s \in Sectors, NEW hdr, NEW t, NEW m, Created(s, hdr, t, m)
    PROVE  DiskOK' /\ Len(pending') = 1 /\ Created(s, hdr, t, m)'
<1> DEFINE n == client.entry
<1>1. /\ pending = SubSeq(CreateWrites(s, hdr, t, m), 5 - 2, 4)
      /\ \A f \in Fields : f[1] # n => table[f] = t[f]
      /\ t[<<n, "inUse">>] \in BOOLEAN /\ disk[s] = hdr
      /\ \A f \in FirstPart : table[f] = t[f]
  <2>1. 2 <= 3 /\ 2 <= 2
    OBVIOUS
  <2> QED
    BY <2>1, Zenon DEF Created
<1>2. /\ Len(pending') = 1 /\ Writes(Reserved[3], Part(t, Fields \ FirstPart))
      /\ pending' = SubSeq(CreateWrites(s, hdr, t, m), 5 - Len(pending'), 4)
  <2>1. /\ Len(pending') = 2 - 1 /\ Writes(Reserved[3], Part(t, Fields \ FirstPart))
        /\ pending' = SubSeq(CreateWrites(s, hdr, t, m), 5 - Len(pending'), 4)
    BY <1>1, CreateNext, 2 \in 1 .. 4 DEF DiskOK
  <2> QED
    BY <2>1
<1>3. client' = client
  BY SameClient
<1>4. Listed = {e \in Entries : InUse(e) /\ e # n} /\ n \in Entries \ Listed
  BY ListedIs DEF DiskOK
<1>5. Listed' = {e \in Entries : InUse(e)' /\ e # n}
  BY <1>2, <1>3, ListedNext
<1>6. \A e \in Entries \ {n} : InUse(e)' = InUse(e)
  <2>1. PartOf(t)
    BY <1>2 DEF PartOf
  <2> HIDE DEF n
  <2> QED
    BY <1>1, <1>4, <2>1, EntriesKept DEF DiskOK
<1>7. Listed' = Listed
  BY <1>4, <1>5, <1>6
<1> HIDE DEF n
<1>8. /\ DiskOK' /\ Placed' /\ marked' = marked
      /\ \A f \in FirstPart : table'[f] = table[f]
      /\ \A f \in Fields \ FirstPart : table'[f] = t[f]
  <2>1. PartOf(t)
    BY <1>2 DEF PartOf
  <2>2. DiskOK'
    BY <1>1, <1>4, <1>7, <2>1, PartWritten
  <2> QED
    BY <1>1, <1>2, <1>4, <2>1, <2>2, PartTable, EntriesKept DEF DiskOK
<1>9. CreateWrites(s, hdr, t, m)' = CreateWrites(s, hdr, t, m)
  BY <1>8, CreateWritesKept DEF DiskOK
<1>10. disk'[s] = hdr
  BY <1>1, <1>2, OutsideKept DEF Created, FileOK, PartOf, ReservedSectors
<1>11. (\A f \in FirstPart : table'[f] = t[f]) /\ \A f \in Fields : table'[f] = t[f]
  BY <1>1, <1>8, FieldFacts
<1> QED
  BY <1>1, <1>2, <1>3, <1>8, <1>9, <1>10, <1>11 DEF Created, n

\* The map gets the sectors of the new file, which is listed from then on.
LEMMA WriteMap ==
    ASSUME ClientType, DiskOK, WriteSector, client.kind = "create", Len(pending) = 1,
           client.entry \in Entries,
           NEW s \in Sectors, NEW hdr, NEW t, NEW m, Created(s, hdr, t, m)
    PROVE  DiskOK' /\ pending' = <<>>
<1> DEFINE n == client.entry
<1>1. /\ pending = SubSeq(CreateWrites(s, hdr, t, m), 5 - 1, 4)
      /\ FileOK(hdr, s) /\ Extent(hdr, s) \cap marked = {}
      /\ m = marked \cup Extent(hdr, s) /\ disk[s] = hdr
      /\ t[<<n, "inUse">>] = TRUE /\ t[<<n, "sector">>] = s
      /\ \A f \in Fields : table[f] = t[f]
  <2>1. 1 <= 3 /\ 1 <= 2 /\ 1 <= 1
    OBVIOUS
  <2> QED
    BY <2>1, Zenon DEF Created
<1>2. pending' = <<>> /\ Len(pending') = 0 /\ Writes(Reserved[1], Map(m))
  <2>1. Len(pending') = 1 - 1 /\ Writes(Reserved[1], Map(m)) /\ pending' = <<>>
    <3>1. Formatted /\ 1 \in 1 .. 4
      BY DEF DiskOK
    <3>2. pending = SubSeq(CreateWrites(s, hdr, t, m), 5 - 1, 4)
      BY <1>1
    <3> QED
      BY <3>1, <3>2, CreateNext, Zenon
  <2> QED
    BY <2>1
<1>3. client' = client
  BY SameClient
<1>4. Reserved[1] \in Sectors /\ disk'[Reserved[1]] = Map(m)
      /\ \A x \in Sectors \ {Reserved[1]} : disk'[x] = disk[x]
  BY <1>2, Written, ReservedFacts
<1>5. Placed' /\ disk'[Reserved[2]] = disk[Reserved[2]] /\ disk'[Reserved[3]] = disk[Reserved[3]]
  BY <1>4, ReservedFacts DEF DiskOK, Formatted, Placed, ReservedSectors
<1>6. \A e \in Entries : InUse(e)' = InUse(e) /\ SectorOf(e)' = SectorOf(e)
  BY <1>5, TableKept DEF DiskOK
<1>7. marked' = m
  BY <1>4, <1>5, ReadNext DEF Map
<1>8. Formatted'
  BY <1>4, <1>5, <1>6 DEF DiskOK, Formatted, Map
<1>9. InUse(n) /\ SectorOf(n) = s /\ HeaderOf(n) = hdr
  BY <1>1, FieldFacts DEF InUse, SectorOf, HeaderOf
<1>10. Listed = {e \in Entries : InUse(e) /\ e # n}
  BY ListedIs DEF DiskOK
<1>11. Listed' = {e \in Entries : InUse(e)'}
  BY <1>2, <1>3, ListedNext
<1>12. Listed' = Listed \cup {n} /\ n \notin Listed
  BY <1>6, <1>9, <1>10, <1>11
<1>13. \A e \in Listed' : SectorOf(e)' = SectorOf(e) /\ disk'[SectorOf(e)] = disk[SectorOf(e)]
  <2> TAKE e \in Listed'
  <2>1. FileOK(HeaderOf(e), SectorOf(e)) /\ e \in Entries
    BY <1>1, <1>9, <1>11, <1>12 DEF DiskOK, FilesOK
  <2>2. SectorOf(e) \in Sectors /\ SectorOf(e) # Reserved[1]
    BY <2>1 DEF FileOK, ReservedSectors
  <2> QED
    BY <1>4, <1>6, <2>1, <2>2
<1>14. \A e \in Listed' : HeaderOf(e)' = HeaderOf(e) /\ FileSectors(e)' = FileSectors(e)
  BY <1>13 DEF HeaderOf, FileSectors, DataSectors
<1> HIDE DEF n
<1>15. FileSectors(n) = Extent(hdr, s)
  BY <1>9 DEF FileSectors, DataSectors, Extent
<1>16. \A e \in Listed : FileSectors(e) \subseteq marked
  BY HeaderPlaces DEF DiskOK
<1>17. \A e \in Listed' : FileOK(HeaderOf(e)', SectorOf(e)')
  BY <1>1, <1>9, <1>12, <1>13, <1>14 DEF DiskOK, FilesOK
<1>18. \A e \in Listed' : \A d \in Listed' \ {e} : FileSectors(e)' \cap FileSectors(d)' = {}
  <2> TAKE e \in Listed'
  <2> TAKE d \in Listed' \ {e}
  <2>1. CASE e = n
    BY <1>1, <1>12, <1>14, <1>15, <1>16, <2>1
  <2>2. CASE d = n
    BY <1>1, <1>12, <1>14, <1>15, <1>16, <2>2
  <2>3. CASE e # n /\ d # n
    BY <1>12, <1>14, <2>3 DEF DiskOK, FilesOK
  <2> QED
    BY <2>1, <2>2, <2>3
<1>19. FilesOK'
  BY <1>17, <1>18 DEF FilesOK, FileOK
<1>20. MapOK'
  <2>1. UNION {FileSectors(e)' : e \in Listed'}
        = (UNION {FileSectors(e) : e \in Listed}) \cup Extent(hdr, s)
    BY <1>12, <1>14, <1>15
  <2> QED
    BY <1>1, <1>7, <2>1 DEF DiskOK, MapOK
<1> QED
  BY <1>2, <1>8, <1>19, <1>20 DEF DiskOK

----------------------------------------------------------------------------
(* A write of Remove *)

\* The map loses the sectors of the file, which is not listed from then on.
LEMMA ClearMap ==
    ASSUME ClientType, DiskOK, WriteSector, client.kind = "remove", Len(pending) = 3,
           client.entry \in Entries, NEW m, NEW t, Removed(m, t)
    PROVE  DiskOK' /\ Len(pending') = 2 /\ Removed(m, t)'
<1> DEFINE n == client.entry
<1>1. /\ pending = SubSeq(RemoveWrites(m, t), 4 - 3, 3)
      /\ t[<<n, "inUse">>] = FALSE
      /\ \A f \in Fields : f # <<n, "inUse">> => table[f] = t[f]
      /\ InUse(n) /\ m = marked \ FileSectors(n)
  BY Zenon DEF Removed
<1>2. /\ Len(pending') = 2 /\ Writes(Reserved[1], Map(m))
      /\ pending' = SubSeq(RemoveWrites(m, t), 4 - Len(pending'), 3)
  <2>1. /\ Len(pending') = 3 - 1 /\ Writes(Reserved[1], Map(m))
        /\ pending' = SubSeq(RemoveWrites(m, t), 4 - Len(pending'), 3)
    <3>1. Formatted /\ 3 \in 1 .. 3
      BY DEF DiskOK
    <3>2. pending = SubSeq(RemoveWrites(m, t), 4 - 3, 3)
      BY <1>1
    <3> QED
      BY <3>1, <3>2, RemoveNext, Zenon
  <2> QED
    BY <2>1
<1>3. client' = client
  BY SameClient
<1>4. Reserved[1] \in Sectors /\ disk'[Reserved[1]] = Map(m)
      /\ \A x \in Sectors \ {Reserved[1]} : disk'[x] = disk[x]
  BY <1>2, Written, ReservedFacts
<1>5. Placed' /\ disk'[Reserved[2]] = disk[Reserved[2]] /\ disk'[Reserved[3]] = disk[Reserved[3]]
  BY <1>4, ReservedFacts DEF DiskOK, Formatted, Placed, ReservedSectors
<1>6. /\ \A e \in Entries : InUse(e)' = InUse(e) /\ SectorOf(e)' = SectorOf(e)
      /\ \A f \in Fields : table'[f] = table[f]
  BY <1>5, TableKept DEF DiskOK
<1>7. marked' = m
  BY <1>4, <1>5, ReadNext DEF Map
<1>8. Formatted'
  BY <1>4, <1>5, <1>6 DEF DiskOK, Formatted, Map
<1>9. Listed = {e \in Entries : InUse(e)} /\ Listed' = {e \in Entries : InUse(e)' /\ e # n}
  BY <1>2, <1>3, ListedIs, ListedNext DEF DiskOK
<1>10. Listed' = Listed \ {n} /\ n \in Listed
  BY <1>1, <1>6, <1>9
<1>11. \A e \in Listed' : SectorOf(e)' = SectorOf(e) /\ disk'[SectorOf(e)] = disk[SectorOf(e)]
  <2> TAKE e \in Listed'
  <2>1. FileOK(HeaderOf(e), SectorOf(e)) /\ e \in Entries
    BY <1>9, <1>10 DEF DiskOK, FilesOK
  <2>2. SectorOf(e) \in Sectors /\ SectorOf(e) # Reserved[1]
    BY <2>1 DEF FileOK, ReservedSectors
  <2> QED
    BY <1>4, <1>6, <2>1, <2>2
<1>12. FilesOK' /\ \A e \in Listed' : FileSectors(e)' = FileSectors(e)
  BY <1>10, <1>11, FilesKept DEF DiskOK
<1> HIDE DEF n
<1>13. MapOK'
  <2>1. UNION {FileSectors(e)' : e \in Listed'}
        = (UNION {FileSectors(e) : e \in Listed}) \ FileSectors(n)
    <3>1. \A e \in Listed' : FileSectors(e) \cap FileSectors(n) = {}
      BY <1>10 DEF DiskOK, FilesOK
    <3> QED
      BY <1>10, <1>12, <3>1
  <2>2. FileSectors(n) \cap ReservedSectors = {}
    <3>1. FileOK(HeaderOf(n), SectorOf(n)) /\ FileSectors(n) = Extent(HeaderOf(n), SectorOf(n))
      BY <1>10, HeaderPlaces DEF DiskOK, FilesOK
    <3>2. Extent(HeaderOf(n), SectorOf(n)) \subseteq Sectors \ ReservedSectors
      BY <3>1, ExtentPlaces
    <3> QED
      BY <3>1, <3>2
  <2> QED
    BY <1>1, <1>7, <2>1, <2>2 DEF DiskOK, MapOK
<1>14. RemoveWrites(m, t)' = RemoveWrites(m, t)
  BY <1>5, RemoveWritesKept DEF DiskOK
<1>15. \A f \in Fields : f # <<n, "inUse">> => table'[f] = t[f]
  BY <1>1, <1>6
<1>16. 2 # 3 /\ 2 # 1
  OBVIOUS
<1>17. Removed(m, t)'
  BY <1>1, <1>2, <1>3, <1>14, <1>15, <1>16, Zenon DEF Removed, n
<1> QED
  BY <1>2, <1>8, <1>12, <1>13, <1>17 DEF DiskOK

\* The entry is no longer in use, in the first part of the directory.
LEMMA ClearFirst ==
    ASSUME ClientType, DiskOK, WriteSector, client.kind = "remove", Len(pending) = 2,
           client.entry \in Entries, NEW m, NEW t, Removed(m, t)
    PROVE  DiskOK' /\ Len(pending') = 1 /\ Removed(m, t)'
<1> DEFINE n == client.entry
<1>1. /\ pending = SubSeq(RemoveWrites(m, t), 4 - 2, 3)
      /\ t[<<n, "inUse">>] = FALSE
      /\ \A f \in Fields : f # <<n, "inUse">> => table[f] = t[f]
  BY Zenon DEF Removed
<1>2. /\ Len(pending') = 1 /\ Writes(Reserved[2], Part(t, FirstPart))
      /\ pending' = SubSeq(RemoveWrites(m, t), 4 - Len(pending'), 3)
  <2>1. /\ Len(pending') = 2 - 1 /\ Writes(Reserved[2], Part(t, FirstPart))
        /\ pending' = SubSeq(RemoveWrites(m, t), 4 - Len(pending'), 3)
    <3>1. Formatted /\ 2 \in 1 .. 3
      BY DEF DiskOK
    <3>2. pending = SubSeq(RemoveWrites(m, t), 4 - 2, 3)
      BY <1>1
    <3> QED
      BY <3>1, <3>2, RemoveNext, Zenon
  <2> QED
    BY <2>1
<1>3. client' = client
  BY SameClient
<1>4. Listed = {e \in Entries : InUse(e) /\ e # n} /\ n \in Entries \ Listed
      /\ Listed' = {e \in Entries : InUse(e)' /\ e # n}
  BY <1>2, <1>3, ListedIs, ListedNext DEF DiskOK
<1> HIDE DEF n
<1>5. PartOf(t) /\ t[<<n, "inUse">>] \in BOOLEAN
  BY <1>1, <1>2 DEF PartOf
<1>6. \A f \in Fields : f[1] # n => table[f] = t[f]
  BY <1>1
<1>7. \A e \in Entries \ {n} : InUse(e)' = InUse(e)
  BY <1>4, <1>5, <1>6, EntriesKept DEF DiskOK
<1>8. Listed' = Listed
  BY <1>4, <1>7
<1>9. DiskOK'
  BY <1>4, <1>5, <1>6, <1>8, PartWritten
<1>10. /\ Placed' /\ \A f \in FirstPart : table'[f] = t[f]
       /\ \A f \in Fields : table'[f] = table[f] \/ table'[f] = t[f]
  BY <1>2, <1>5, PartTable DEF DiskOK
<1>11. \A f \in Fields : f # <<n, "inUse">> => table'[f] = t[f]
  BY <1>1, <1>10
<1>12. RemoveWrites(m, t)' = RemoveWrites(m, t)
  BY <1>10, RemoveWritesKept DEF DiskOK
<1>13. 1 # 3
  OBVIOUS
<1>14. Removed(m, t)'
  BY <1>1, <1>2, <1>3, <1>10, <1>11, <1>12, <1>13, Zenon DEF Removed, n
<1> QED
  BY <1>2, <1>9, <1>14

\* The same, in the second part
LEMMA ClearSecond ==
    ASSUME ClientType, DiskOK, WriteSector, client.kind = "remove", Len(pending) = 1,
           client.entry \in Entries, NEW m, NEW t, Removed(m, t)
    PROVE  DiskOK' /\ pending' = <<>>
<1> DEFINE n == client.entry
<1>1. /\ pending = SubSeq(RemoveWrites(m, t), 4 - 1, 3)
      /\ t[<<n, "inUse">>] = FALSE
      /\ \A f \in Fields : f # <<n, "inUse">> => table[f] = t[f]
      /\ \A f \in FirstPart : table[f] = t[f]
  BY Zenon DEF Removed
<1>2. pending' = <<>> /\ Len(pending') = 0 /\ Writes(Reserved[3], Part(t, Fields \ FirstPart))
  <2>1. Len(pending') = 1 - 1 /\ Writes(Reserved[3], Part(t, Fields \ FirstPart)) /\ pending' = <<>>
    <3>1. Formatted /\ 1 \in 1 .. 3
      BY DEF DiskOK
    <3>2. pending = SubSeq(RemoveWrites(m, t), 4 - 1, 3)
      BY <1>1
    <3> QED
      BY <3>1, <3>2, RemoveNext, Zenon
  <2> QED
    BY <2>1
<1>3. client' = client
  BY SameClient
<1>4. Listed = {e \in Entries : InUse(e) /\ e # n} /\ n \in Entries \ Listed
      /\ Listed' = {e \in Entries : InUse(e)'}
  BY <1>2, <1>3, ListedIs, ListedNext DEF DiskOK
<1> HIDE DEF n
<1>5. PartOf(t) /\ t[<<n, "inUse">>] \in BOOLEAN
  BY <1>1, <1>2 DEF PartOf
<1>6. \A f \in Fields : f[1] # n => table[f] = t[f]
  BY <1>1
<1>7. \A e \in Entries \ {n} : InUse(e)' = InUse(e)
  BY <1>4, <1>5, <1>6, EntriesKept DEF DiskOK
<1>8. /\ \A f \in FirstPart : table'[f] = table[f]
      /\ \A f \in Fields \ FirstPart : table'[f] = t[f]
  BY <1>2, <1>5, PartTable DEF DiskOK
<1>9. \A e \in {n} : InUse(e)' = FALSE
  <2> TAKE e \in {n}
  <2>1. <<n, "inUse">> \in Fields /\ n \in Entries
    BY <1>4, FieldFacts
  <2>2. table'[<<e, "inUse">>] = t[<<e, "inUse">>]
    BY <1>1, <1>8, <2>1
  <2> QED
    BY <1>1, <2>2 DEF InUse
<1>10. Listed' = Listed
  BY <1>4, <1>7, <1>9
<1>11. DiskOK'
  BY <1>4, <1>5, <1>6, <1>10, PartWritten
<1> QED
  BY <1>2, <1>11

----------------------------------------------------------------------------
(* A sector is written *)

\* The writes that are left after one are writes to sectors, too.
LEMMA PendingTail ==
    ASSUME ClientType, WriteSector
    PROVE  /\ \E W : pending' \in Seq(W)
           /\ Len(pending) \in Nat \ {0} /\ Len(pending') = Len(pending) - 1
           /\ \A i \in 1 .. Len(pending') :
                 i + 1 \in 1 .. Len(pending) /\ pending'[i] = pending[i + 1]
           /\ Head(pending) = pending[1] /\ 1 \in 1 .. Len(pending)
<1>1. PICK W : pending \in Seq(W)
  BY DEF ClientType
<1>2. pending # <<>> /\ pending' = Tail(pending)
  BY DEF WriteSector
<1> QED
  BY <1>1, <1>2

LEMMA WriteType ==
    ASSUME ClientType, WriteSector
    PROVE  ClientType'
<1>1. /\ \E W : pending' \in Seq(W)
      /\ \A i \in 1 .. Len(pending') : pending'[i].sector \in Sectors
  BY PendingTail DEF ClientType
<1>2. DOMAIN disk' = Sectors
  BY DEF ClientType, WriteSector
<1> QED
  BY <1>1, <1>2, SameClient DEF ClientType

\* The next write of Create, whichever it is
LEMMA WriteCreate ==
    ASSUME FilesInv, WriteSector, client.kind = "create"
    PROVE  DiskOK' /\ Creating'
<1>1. ClientType /\ DiskOK /\ pending # <<>>
  BY DEF FilesInv, DiskOK, ClientType, Commands, WriteSector
<1>2. client.entry \in Entries /\ Len(pending) \in 1 .. 4
  BY <1>1 DEF FilesInv, Creating
<1>3. PICK s \in Sectors : \E hdr, t, m : Created(s, hdr, t, m)
  BY <1>1 DEF FilesInv, Creating
<1>4. PICK hdr, t, m : Created(s, hdr, t, m)
  BY <1>3
<1>5. client' = client
  BY SameClient
<1>6. CASE Len(pending) = 1
  BY <1>1, <1>2, <1>4, <1>6, WriteMap DEF Creating
<1>7. CASE Len(pending) \in 2 .. 4
  <2>1. DiskOK' /\ Len(pending') \in 1 .. 4 /\ Created(s, hdr, t, m)'
    BY <1>1, <1>2, <1>4, <1>7, WriteHeader, WriteFirst, WriteSecond
  <2>2. \E x \in Sectors : \E h, u, v : Created(x, h, u, v)'
    BY <2>1
  <2> QED
    BY <1>2, <1>5, <2>1, <2>2 DEF Creating
<1> QED
  BY <1>2, <1>6, <1>7

\* The next write of Remove, whichever it is
LEMMA WriteRemove ==
    ASSUME FilesInv, WriteSector, client.kind = "remove"
    PROVE  DiskOK' /\ Removing'
<1>1. ClientType /\ DiskOK /\ pending # <<>>
  BY DEF FilesInv, DiskOK, ClientType, Commands, WriteSector
<1>2. client.entry \in Entries /\ Len(pending) \in 1 .. 3
  BY <1>1 DEF FilesInv, Removing
<1>4. PICK m, t : Removed(m, t)
  BY <1>1 DEF FilesInv, Removing
<1>5. client' = client
  BY SameClient
<1>6. CASE Len(pending) = 1
  BY <1>1, <1>2, <1>4, <1>6, ClearSecond DEF Removing
<1>7. CASE Len(pending) \in 2 .. 3
  <2>1. DiskOK' /\ Len(pending') \in 1 .. 3 /\ Removed(m, t)'
    BY <1>1, <1>2, <1>4, <1>7, ClearMap, ClearFirst
  <2>2. \E u, v : Removed(u, v)'
    BY <2>1
  <2> QED
    BY <1>2, <1>5, <2>1, <2>2 DEF Removing
<1> QED
  BY <1>2, <1>6, <1>7

\* A write of Copy is to the data of the file that is open.
LEMMA WriteCopy ==
    ASSUME FilesInv, WriteSector, client.kind = "copy"
    PROVE  DiskOK' /\ Opened' /\ Copying'
<1> DEFINE n == client.entry
           x == Head(pending).sector
<1>1. ClientType /\ DiskOK /\ pending # <<>>
  BY DEF FilesInv, DiskOK, ClientType, Commands, WriteSector
<1>2. n \in Listed /\ client.hdr = HeaderOf(n) /\ client.position \in Nat
  BY DEF FilesInv, Opened
<1>3. x \in DataSectors(n) /\ x \in Sectors
  BY <1>1, PendingTail DEF FilesInv, Copying, ClientType
<1>4. \A y \in Sectors \ {x} : disk'[y] = disk[y]
  <2>1. Writes(x, Head(pending).contents)
    BY DEF WriteSector, Writes
  <2> HIDE DEF x
  <2> QED
    BY <1>1, <1>3, <2>1, Written
<1>5. client' = client
  BY SameClient
<1> HIDE DEF n, x
<1>6. FileOK(HeaderOf(n), SectorOf(n)) /\ x \in Extent(HeaderOf(n), SectorOf(n)) /\ x # SectorOf(n)
  <2>1. FileOK(HeaderOf(n), SectorOf(n))
    BY <1>1, <1>2 DEF DiskOK, FilesOK
  <2> QED
    BY <1>3, <2>1 DEF FileOK, Extent, DataSectors
<1>7. x \notin ReservedSectors
  BY <1>6, ExtentPlaces
<1>8. /\ Formatted' /\ marked' = marked
      /\ \A e \in Entries : InUse(e)' = InUse(e) /\ SectorOf(e)' = SectorOf(e)
  BY <1>1, <1>4, <1>7, ReservedFacts, FormattedKept DEF DiskOK
<1>9. Listed' = Listed /\ Listed \subseteq Entries
  <2>1. client.kind \notin {"create", "remove"}
    OBVIOUS
  <2> QED
    BY <1>1, <1>5, <1>8, <2>1, ListedIs, ListedNext DEF DiskOK
<1>10. \A e \in Listed' : SectorOf(e)' = SectorOf(e) /\ disk'[SectorOf(e)] = disk[SectorOf(e)]
  <2> TAKE e \in Listed'
  <2>1. e \in Listed /\ SectorOf(e) \in Sectors /\ SectorOf(e) \in FileSectors(e)
    BY <1>1, <1>9, HeaderPlaces DEF DiskOK, FilesOK, FileOK
  <2>2. x # SectorOf(e)
    <3>1. CASE e = n
      BY <1>6, <3>1
    <3>2. CASE e # n
      <4>1. FileSectors(e) \cap FileSectors(n) = {}
        BY <1>1, <1>2, <2>1, <3>2 DEF DiskOK, FilesOK
      <4> QED
        BY <1>3, <2>1, <4>1 DEF FileSectors
    <3> QED
      BY <3>1, <3>2
  <2> QED
    BY <1>4, <1>8, <1>9, <2>1, <2>2
<1>11. /\ FilesOK'
       /\ \A e \in Listed' : HeaderOf(e)' = HeaderOf(e) /\ FileSectors(e)' = FileSectors(e)
  BY <1>1, <1>9, <1>10, FilesKept DEF DiskOK
<1>12. MapOK'
  BY <1>1, <1>8, <1>9, <1>11 DEF DiskOK, MapOK
<1>13. Opened'
  BY <1>2, <1>5, <1>9, <1>11 DEF Opened, n
<1>14. Copying'
  <2>1. DataSectors(n)' = DataSectors(n)
    BY <1>2, <1>5, <1>9, <1>11 DEF DataSectors, n
  <2>2. \A i \in 1 .. Len(pending) : pending[i].sector \in DataSectors(n)
    BY DEF FilesInv, Copying, n
  <2>3. \A i \in 1 .. Len(pending') : pending'[i].sector \in DataSectors(n)
    BY <1>1, <2>2, PendingTail
  <2> QED
    BY <1>5, <2>1, <2>3 DEF Copying, n
<1> QED
  BY <1>8, <1>11, <1>12, <1>13, <1>14 DEF DiskOK

----------------------------------------------------------------------------
(* Formatting *)

\* The five writes of a format
LEMMA FormatWritesAre ==
    /\ \E S : FormatWrites \in Seq(S)
    /\ Len(FormatWrites) = 5
    /\ \A i \in 1 .. 5 : FormatWrites[i].sector \in Sectors
    /\ \A i, j \in 1 .. 5 : FormatWrites[i].sector = FormatWrites[j].sector => i = j
<1> DEFINE W(i) == FormatWrites[i].sector
<1>1. \E S : FormatWrites \in Seq(S)
  <2> DEFINE S == {FormatWrites[1], FormatWrites[2], FormatWrites[3], FormatWrites[4],
                   FormatWrites[5]}
  <2>1. FormatWrites \in Seq(S)
    BY DEF FormatWrites
  <2> QED
    BY <2>1
<1>2. Len(FormatWrites) = 5
  BY DEF FormatWrites
<1>3. /\ W(1) = FreeMapSector /\ W(2) = DirectorySector
      /\ W(3) = Reserved[1] /\ W(4) = Reserved[2] /\ W(5) = Reserved[3]
  BY DEF FormatWrites
<1> HIDE DEF W
<1>4. \A i \in 1 .. 5 : W(i) \in Sectors
  BY <1>3, ReservedFacts DEF ReservedSectors
<1>5. \A i, j \in 1 .. 5 : W(i) = W(j) => i = j
  BY <1>3, ReservedFacts
<1> QED
  BY <1>1, <1>2, <1>4, <1>5 DEF W

\* The next write of a format, whichever it is
LEMMA WriteFormat ==
    ASSUME ClientType, Formatting, WriteSector, client.kind = "format"
    PROVE  Formatting'
<1>1. PICK k \in 1 .. 6 : pending = SubSeq(FormatWrites, k, 5)
  BY FormatWritesAre DEF Formatting, LeftOf
<1> DEFINE w == FormatWrites
<1>2. (\E S : w \in Seq(S)) /\ Len(w) = 5
  BY FormatWritesAre
<1>3. k \in 1 .. 5
  <2>1. pending # <<>>
    BY SameClient
  <2>2. PICK S : w \in Seq(S)
    BY <1>2
  <2>3. k = 6 => pending = <<>>
    BY <1>1, <2>2
  <2> QED
    BY <2>1, <2>3
<1> HIDE DEF w
<1>4. Len(pending) = 5 - k + 1 /\ Head(pending) = w[k] /\ Tail(pending) = SubSeq(w, k + 1, 5)
  BY <1>1, <1>2, <1>3, NextWrite DEF w
<1>5. /\ pending' = SubSeq(w, k + 1, 5) /\ Len(pending') = 5 - k
      /\ Writes(w[k].sector, w[k].contents)
  <2>1. pending' = SubSeq(w, k + 1, 5) /\ Writes(w[k].sector, w[k].contents)
    BY <1>4 DEF WriteSector, Writes
  <2>2. Len(pending') = Len(pending) - 1
    BY PendingTail
  <2>3. Len(pending') = 5 - k
    BY <1>3, <1>4, <2>2
  <2> QED
    BY <2>1, <2>3
<1>6. /\ disk'[w[k].sector] = w[k].contents
      /\ \A x \in Sectors \ {w[k].sector} : disk'[x] = disk[x]
  BY <1>3, <1>5, Written, FormatWritesAre DEF w
<1>7. \A i \in 1 .. 5 - Len(pending) : disk[w[i].sector] = w[i].contents
  BY DEF Formatting, w
<1>8. \A i \in 1 .. 5 - Len(pending') : disk'[w[i].sector] = w[i].contents
  <2> TAKE i \in 1 .. 5 - Len(pending')
  <2>1. CASE i = k
    BY <1>6, <2>1
  <2>2. CASE i # k
    <3>1. i \in 1 .. 5 /\ i \in 1 .. 5 - Len(pending)
      BY <1>3, <1>4, <1>5, <2>2
    <3>2. w[i].sector \in Sectors /\ w[i].sector # w[k].sector
      BY <1>3, <2>2, <3>1, FormatWritesAre DEF w
    <3> QED
      BY <1>6, <1>7, <3>1, <3>2
  <2> QED
    BY <2>1, <2>2
<1>9. LeftOf(FormatWrites)'
  <2>1. k + 1 \in 1 .. Len(w) + 1
    BY <1>2, <1>3
  <2> QED
    BY <1>2, <1>5, <2>1 DEF LeftOf, w
<1> QED
  BY <1>8, <1>9 DEF Formatting, w

\* The map of a new disk marks the sectors of the file system.
LEMMA FormatSets ==
    FirstClear({FreeMapSector, DirectorySector}, 3) = Reserved
    /\ {FreeMapSector, DirectorySector} \cup {Reserved[1], Reserved[2], Reserved[3]}
         = ReservedSectors
BY DEF Reserved, ReservedSectors

\* What Format has to write
LEMMA FormatBegins ==
    ASSUME Format
    PROVE  pending' = FormatWrites
<1> DEFINE d == Reserved
           hdrs == {FreeMapSector, DirectorySector}
           a == HeaderWrites(FreeMapSector, Header(SectorSize, <<d[1]>>))
           b == HeaderWrites(DirectorySector, Header(2 * SectorSize, <<d[2], d[3]>>))
           c == MapWrites(d[1], hdrs \cup {d[1], d[2], d[3]})
           e == DirectoryWrites(<<d[2], d[3]>>, NewTable)
           w == FormatWrites
           S == {w[1], w[2], w[3], w[4], w[5]}
<1>1. pending' = a \o b \o c \o e
  BY DEF Format, Reserved
<1>2. /\ a \in Seq(S) /\ Len(a) = 1 /\ a[1] = w[1]
      /\ b \in Seq(S) /\ Len(b) = 1 /\ b[1] = w[2]
  BY DEF HeaderWrites, FormatWrites
<1>3. c \in Seq(S) /\ Len(c) = 1 /\ c[1] = w[3]
  BY FormatSets DEF MapWrites, FormatWrites
<1>4. e \in Seq(S) /\ Len(e) = 2 /\ e[1] = w[4] /\ e[2] = w[5]
  BY DEF DirectoryWrites, FormatWrites
<1>5. w \in Seq(S) /\ Len(w) = 5
  BY DEF FormatWrites
<1> HIDE DEF a, b, c, e, w, S
<1> DEFINE ab == a \o b
           abc == ab \o c
           all == abc \o e
<1>6. ab \in Seq(S) /\ Len(ab) = 2 /\ ab[1] = w[1] /\ ab[2] = w[2]
  <2>1. Joins(ab, a, b, S)
    BY <1>2, Joined
  <2> HIDE DEF ab
  <2>2. 1 + 1 = 2 /\ 1 \in 1 .. 1
    OBVIOUS
  <2> QED
    BY <1>2, <2>1, <2>2 DEF Joins
<1> HIDE DEF ab
<1>7. abc \in Seq(S) /\ Len(abc) = 3 /\ abc[1] = w[1] /\ abc[2] = w[2] /\ abc[3] = w[3]
  <2>1. Joins(abc, ab, c, S)
    BY <1>3, <1>6, Joined
  <2> HIDE DEF abc
  <2>2. 2 + 1 = 3 /\ 1 \in 1 .. 1 /\ 1 \in 1 .. 2 /\ 2 \in 1 .. 2
    OBVIOUS
  <2> QED
    BY <1>3, <1>6, <2>1, <2>2 DEF Joins
<1> HIDE DEF abc
<1>10. /\ all \in Seq(S) /\ Len(all) = 5 /\ all[1] = w[1] /\ all[2] = w[2]
       /\ all[3] = w[3] /\ all[4] = w[4] /\ all[5] = w[5]
  <2>1. Joins(all, abc, e, S)
    BY <1>4, <1>7, Joined
  <2> HIDE DEF all
  <2>2. /\ 3 + 1 = 4 /\ 3 + 2 = 5 /\ 1 \in 1 .. 2 /\ 2 \in 1 .. 2
        /\ 1 \in 1 .. 3 /\ 2 \in 1 .. 3 /\ 3 \in 1 .. 3
    OBVIOUS
  <2> QED
    BY <1>4, <1>7, <2>1, <2>2 DEF Joins
<1> HIDE DEF all
<1>11. \A i \in 1 .. 5 : all[i] = w[i]
  <2>1. \A i \in 1 .. 5 : i = 1 \/ i = 2 \/ i = 3 \/ i = 4 \/ i = 5
    OBVIOUS
  <2> QED
    BY <1>10, <2>1
<1>12. all = w
  BY <1>5, <1>10, <1>11, SeqEqual
<1> QED
  BY <1>1, <1>12 DEF w, ab, abc, all

\* A disk that has been formatted has no files.
LEMMA FormatEnds ==
    ASSUME ClientType, Formatting, FormatDone
    PROVE  DiskOK' /\ Listed' = {}
<1> DEFINE w == FormatWrites
<1>1. Len(pending) = 0 /\ disk' = disk /\ client'.kind = "idle"
  BY DEF FormatDone, Idle, Command
<1>2. \A i \in 1 .. 5 : disk'[w[i].sector] = w[i].contents
  BY <1>1 DEF Formatting, FormatDone
<1>3. /\ w[1] = [sector |-> FreeMapSector, contents |-> Header(SectorSize, <<Reserved[1]>>)]
      /\ w[2] = [sector |-> DirectorySector,
                 contents |-> Header(2 * SectorSize, <<Reserved[2], Reserved[3]>>)]
      /\ w[3] = [sector |-> Reserved[1], contents |-> Map(ReservedSectors)]
      /\ w[4] = [sector |-> Reserved[2], contents |-> Part(NewTable, FirstPart)]
      /\ w[5] = [sector |-> Reserved[3], contents |-> Part(NewTable, Fields \ FirstPart)]
  BY DEF FormatWrites
<1> HIDE DEF w
<1>4. /\ disk'[FreeMapSector] = Header(SectorSize, <<Reserved[1]>>)
      /\ disk'[DirectorySector] = Header(2 * SectorSize, <<Reserved[2], Reserved[3]>>)
      /\ disk'[Reserved[1]] = Map(ReservedSectors)
      /\ disk'[Reserved[2]] = Part(NewTable, FirstPart)
      /\ disk'[Reserved[3]] = Part(NewTable, Fields \ FirstPart)
  <2>1. /\ disk'[w[1].sector] = w[1].contents /\ disk'[w[2].sector] = w[2].contents
        /\ disk'[w[3].sector] = w[3].contents /\ disk'[w[4].sector] = w[4].contents
        /\ disk'[w[5].sector] = w[5].contents
    BY <1>2
  <2> QED
    BY <1>3, <2>1
<1>5. Placed'
  BY <1>4 DEF Placed
<1>6. marked' = ReservedSectors
  BY <1>4, <1>5, ReadNext DEF Map
<1>7. \A f \in Fields : table'[f] = NewTable[f]
  <2>1. \A f \in FirstPart : table'[f] = NewTable[f]
    BY <1>4, <1>5, ReadNext DEF Part
  <2>2. \A f \in Fields \ FirstPart : table'[f] = NewTable[f]
    BY <1>4, <1>5, ReadNext DEF Part
  <2> QED
    BY <2>1, <2>2
<1>8. \A e \in Entries : InUse(e)' = FALSE
  <2> TAKE e \in Entries
  <2>1. <<e, "inUse">> \in Fields /\ <<e, "inUse">>[2] = "inUse"
    BY FieldFacts
  <2> QED
    BY <1>7, <2>1 DEF InUse, NewTable
<1>9. Formatted'
  <2>1. /\ disk'[Reserved[1]].kind = "map"
        /\ disk'[Reserved[2]].kind = "directory" /\ disk'[Reserved[3]].kind = "directory"
    BY <1>4 DEF Map, Part
  <2>2. \A e \in Entries : InUse(e)' \in BOOLEAN
    BY <1>8
  <2> QED
    BY <1>5, <2>1, <2>2 DEF Formatted
<1>10. Listed' = {}
  BY <1>8 DEF Listed
<1> QED
  BY <1>6, <1>9, <1>10 DEF DiskOK, FilesOK, MapOK

----------------------------------------------------------------------------
(* A command begins *)

\* The number of sectors of a file
LEMMA SectorsForType ==
    ASSUME NEW n \in Nat
    PROVE  SectorsFor(n) \in Nat
<1>1. n + SectorSize - 1 \in Nat /\ SectorSize \in Nat \ {0}
  BY FileSystemAssumption
<1> QED
  BY <1>1 DEF SectorsFor

\* The sectors Create takes: there are enough of them, and none is in use.
LEMMA TakenSectors ==
    ASSUME DiskOK, NEW k \in Nat, NumClear(marked) >= 1 + k
    PROVE  LET d == FirstClear(marked, 1 + k)
           IN  /\ d \in Seq(Sectors \ marked) /\ Len(d) = 1 + k
               /\ \A i, j \in 1 .. 1 + k : d[i] = d[j] => i = j
<1> DEFINE c == 1 + k
<1>1. marked \in SUBSET Sectors
  <2>1. ReservedSectors \subseteq Sectors
    BY ReservedFacts
  <2>2. \A e \in Listed : FileSectors(e) \subseteq Sectors
    <3> TAKE e \in Listed
    <3>1. FileOK(HeaderOf(e), SectorOf(e)) /\ FileSectors(e) = Extent(HeaderOf(e), SectorOf(e))
      BY HeaderPlaces DEF DiskOK, FilesOK
    <3> QED
      BY <3>1, ExtentPlaces
  <2> QED
    BY <2>1, <2>2 DEF DiskOK, MapOK
<1>2. NumClear(marked) \in Nat
  BY BeforeFacts, 0 \in Int DEF NumClear
<1>3. c \in Nat /\ c <= NumClear(marked)
  BY <1>2
<1> HIDE DEF c
<1>4. /\ FirstClear(marked, c) \in Seq(Sectors \ marked) /\ Len(FirstClear(marked, c)) = c
      /\ \A i, j \in 1 .. c : FirstClear(marked, c)[i] = FirstClear(marked, c)[j] => i = j
  BY <1>1, <1>3, FirstClearFinds
<1> QED
  BY <1>4 DEF c

\* The new file: its sectors are the first of those and the others, in order.
LEMMA NewFile ==
    ASSUME NEW L \in Nat, DiskOK, NEW d \in Seq(Sectors \ marked),
           Len(d) = 1 + SectorsFor(L),
           \A i, j \in 1 .. Len(d) : d[i] = d[j] => i = j
    PROVE  /\ FileOK(Header(L, Tail(d)), d[1])
           /\ Extent(Header(L, Tail(d)), d[1]) = {d[i] : i \in DOMAIN d}
           /\ Extent(Header(L, Tail(d)), d[1]) \cap marked = {}
<1> DEFINE hdr == Header(L, Tail(d))
           k == SectorsFor(L)
           q == Tail(d)
<1>1. k \in Nat
  BY SectorsForType
<1>2. /\ hdr.kind = "header" /\ hdr.numBytes = L /\ hdr.dataSectors = q
  BY DEF Header
<1>3. d # <<>> /\ 1 \in 1 .. Len(d) /\ Len(d) = 1 + k
  BY <1>1
<1> HIDE DEF k
<1>4. /\ q \in Seq(Sectors \ marked) /\ Len(q) = k
      /\ \A i \in 1 .. k : q[i] = d[i + 1] /\ i + 1 \in 1 .. Len(d) /\ i + 1 # 1
  BY <1>1, <1>3
<1> HIDE DEF q, hdr
<1>5. Sectors \ marked \subseteq Sectors \ ReservedSectors
  BY DEF DiskOK, MapOK
<1>6. q \in Seq(Sectors \ ReservedSectors) /\ DOMAIN q = 1 .. k
  BY <1>4, <1>5, SeqMonotonic, LenProperties
<1>7. d[1] \in Sectors \ marked
  BY <1>3, ElementOfSeq
<1>8. \A i \in 1 .. k : q[i] # d[1]
  BY <1>3, <1>4
<1>9. \A i, j \in 1 .. k : q[i] = q[j] => i = j
  <2> TAKE i, j \in 1 .. k
  <2>1. q[i] = q[j] => i + 1 = j + 1
    BY <1>4
  <2> QED
    BY <1>1, <2>1
<1>10. FileOK(hdr, d[1])
  BY <1>2, <1>4, <1>5, <1>6, <1>7, <1>8, <1>9 DEF FileOK, k
<1>11. Extent(hdr, d[1]) = {q[i] : i \in 1 .. k} \cup {d[1]}
  BY <1>2, <1>6 DEF Extent
<1>12. {q[i] : i \in 1 .. k} \cup {d[1]} = {d[i] : i \in 1 .. Len(d)}
  <2>1. ASSUME NEW i \in 1 .. Len(d) PROVE d[i] \in {q[j] : j \in 1 .. k} \cup {d[1]}
    <3>1. CASE i = 1
      BY <3>1
    <3>2. CASE i # 1
      <4>1. i - 1 \in 1 .. k /\ q[i - 1] = d[i - 1 + 1] /\ i - 1 + 1 = i
        BY <1>1, <1>3, <1>4, <3>2
      <4> QED
        BY <4>1
    <3> QED
      BY <3>1, <3>2
  <2> QED
    BY <1>3, <1>4, <2>1
<1>13. DOMAIN d = 1 .. Len(d) /\ \A i \in 1 .. Len(d) : d[i] \in Sectors \ marked
  BY LenProperties, ElementOfSeq
<1>14. Extent(hdr, d[1]) = {d[i] : i \in DOMAIN d} /\ Extent(hdr, d[1]) \cap marked = {}
  <2>1. Extent(hdr, d[1]) = {d[i] : i \in 1 .. Len(d)}
    BY <1>11, <1>12
  <2>2. {d[i] : i \in 1 .. Len(d)} \cap marked = {}
    BY <1>13
  <2> QED
    BY <1>13, <2>1, <2>2, Zenon
<1>15. hdr = Header(L, Tail(d))
  BY DEF hdr, q
<1> QED
  BY <1>10, <1>14, <1>15

\* The parts of the invariant about the disk do not depend on the rest of the
\* state, but for what is listed.
LEMMA DiskKept ==
    ASSUME DiskOK, disk' = disk, Listed' = Listed
    PROVE  DiskOK'
<1>1. \A x \in ReservedSectors : disk'[x] = disk[x]
  OBVIOUS
<1>2. /\ Formatted' /\ marked' = marked
      /\ \A e \in Entries : InUse(e)' = InUse(e) /\ SectorOf(e)' = SectorOf(e)
  BY <1>1, FormattedKept DEF DiskOK
<1>3. Listed \subseteq Entries
  BY DEF Listed
<1>4. FilesOK' /\ \A e \in Listed' : FileSectors(e)' = FileSectors(e)
  BY <1>2, <1>3, FilesKept DEF DiskOK
<1> QED
  BY <1>2, <1>4 DEF DiskOK, MapOK

\* What is listed when nothing is pending, or as much as a Create begins with
LEMMA ListedKept ==
    ASSUME Formatted, disk' = disk, Len(pending) \notin 1 .. 2, Len(pending') \notin 1 .. 2
    PROVE  Listed' = Listed /\ Listed = {e \in Entries : InUse(e)}
<1>1. \A e \in Entries : InUse(e)' = InUse(e)
  BY FormattedKept
<1> QED
  BY <1>1 DEF Listed, HalfWritten

----------------------------------------------------------------------------
(* What WriteAt writes *)

\* Division
LEMMA DivMod ==
    ASSUME NEW a \in Nat, NEW r \in Nat \ {0}
    PROVE  /\ a \div r \in Nat /\ a % r \in Nat /\ a % r < r
           /\ a = (a \div r) * r + (a % r)
OBVIOUS

LEMMA DivFacts ==
    ASSUME NEW r \in Nat \ {0}, NEW p \in Nat, NEW q \in Nat
    PROVE  /\ p <= q => (p \div r) <= (q \div r)
           /\ (p * r) \in Nat /\ ((p * r) \div r) = p
           /\ (p + r) \div r = (p \div r) + 1
OBVIOUS

\* A ReadAt or WriteAt stays within the file.
LEMMA ClippedFacts ==
    ASSUME NEW hdr, hdr.numBytes \in Nat, NEW n \in Nat, NEW position \in Nat
    PROVE  /\ Clipped(hdr, n, position) \in Nat /\ Clipped(hdr, n, position) <= n
           /\ Clipped(hdr, n, position) > 0 =>
                  position + Clipped(hdr, n, position) <= hdr.numBytes
BY DEF Clipped

\* The sectors of a range of a file
LEMMA RangeSectors ==
    ASSUME NEW size \in Nat, NEW position \in Nat, NEW n \in Nat \ {0}, position + n <= size
    PROVE  LET first == position \div SectorSize
               last == ((position + n) - 1) \div SectorSize
           IN  /\ first \in Nat /\ last \in Nat /\ first <= last
               /\ last + 1 <= SectorsFor(size) /\ SectorsFor(size) \in Nat
<1> DEFINE a == (position + n) - 1
           b == size + SectorSize - 1
           first == position \div SectorSize
           last == a \div SectorSize
<1>1. /\ a \in Nat /\ b \in Nat /\ position <= a /\ a + SectorSize \in Nat /\ a + SectorSize <= b
      /\ SectorSize \in Nat \ {0}
  BY FileSystemAssumption
<1>2. SectorsFor(size) = b \div SectorSize
  BY DEF SectorsFor
<1> HIDE DEF a, b
<1>3. first \in Nat /\ last \in Nat /\ SectorsFor(size) \in Nat
  BY <1>1, <1>2, DivMod
<1>4. first <= last
  BY <1>1, DivFacts
<1>5. (a + SectorSize) \div SectorSize = last + 1
  BY <1>1, DivFacts
<1>6. (a + SectorSize) \div SectorSize <= b \div SectorSize
  BY <1>1, DivFacts
<1> QED
  BY <1>2, <1>3, <1>4, <1>5, <1>6 DEF a

\* The sectors that WriteAt writes are sectors of the file.
LEMMA WriteAtSectors ==
    ASSUME NEW hdr, NEW s, FileOK(hdr, s), NEW position \in Nat,
           NEW from, Len(from) \in Nat
    PROVE  /\ \E W : WriteAt(hdr, from, position) \in Seq(W)
           /\ \A i \in 1 .. Len(WriteAt(hdr, from, position)) :
                 WriteAt(hdr, from, position)[i].sector
                    \in {hdr.dataSectors[j] : j \in DOMAIN hdr.dataSectors}
<1> DEFINE n == Clipped(hdr, Len(from), position)
           end == position + n
           first == position \div SectorSize
           last == (end - 1) \div SectorSize
           kept == Kept(first, last, position = first * SectorSize,
                        end = (last + 1) * SectorSize)
           byte(p) == IF p \in position .. end - 1 THEN from[p - position + 1]
                      ELSE IF p \div SectorSize \in kept /\ p < hdr.numBytes THEN ByteAt(hdr, p)
                      ELSE Junk
           write(i) == LET start == (first + i - 1) * SectorSize
                       IN  [sector |-> ByteToSector(hdr, start),
                            contents |-> Data([b \in 0 .. SectorSize - 1 |-> byte(start + b)])]
           count == last - first + 1
           D == {hdr.dataSectors[j] : j \in DOMAIN hdr.dataSectors}
<1>1. WriteAt(hdr, from, position) = IF n = 0 THEN <<>> ELSE [i \in 1 .. count |-> write(i)]
  BY DEF WriteAt
<1>2. /\ SectorSize \in Nat \ {0} /\ hdr.numBytes \in Nat
      /\ DOMAIN hdr.dataSectors = 1 .. SectorsFor(hdr.numBytes)
  BY FileSystemAssumption, LenProperties DEF FileOK
<1>3. n \in Nat /\ (n > 0 => position + n <= hdr.numBytes)
  BY <1>2, ClippedFacts
<1>4. CASE n = 0
  BY <1>1, <1>4, EmptySeq
<1>5. CASE n # 0
  <2> HIDE DEF n
  <2>1. n \in Nat \ {0} /\ position + n <= hdr.numBytes
    BY <1>3, <1>5
  <2>2. /\ first \in Nat /\ last \in Nat /\ first <= last
        /\ last + 1 <= SectorsFor(hdr.numBytes)
        /\ SectorsFor(hdr.numBytes) \in Nat
    BY <1>2, <2>1, RangeSectors
  <2> HIDE DEF end
  <2> HIDE DEF first, last
  <2>3. \A i \in 1 .. count : write(i).sector \in D
    <3> TAKE i \in 1 .. count
    <3> DEFINE p == first + i - 1
    <3>1. p \in Nat /\ 1 + p \in 1 .. SectorsFor(hdr.numBytes)
      BY <2>2
    <3> HIDE DEF p
    <3>2. (p * SectorSize) \div SectorSize = p
      BY <1>2, <3>1, DivFacts
    <3>3. write(i).sector = ByteToSector(hdr, p * SectorSize)
      BY DEF p
    <3>4. ByteToSector(hdr, p * SectorSize) = hdr.dataSectors[1 + p]
      BY <3>2 DEF ByteToSector
    <3> HIDE DEF write
    <3> QED
      BY <1>2, <3>1, <3>3, <3>4
  <2> HIDE DEF write
  <2>4. count \in Nat
    BY <2>2
  <2> HIDE DEF count
  <2> DEFINE W == {write(i) : i \in 1 .. count}
             f == [i \in 1 .. count |-> write(i)]
  <2>5. f \in [1 .. count -> W] /\ \A i \in 1 .. count : f[i] = write(i)
    OBVIOUS
  <2>6. f \in Seq(W) /\ Len(f) = count
    <3> HIDE DEF f, W
    <3> QED
      BY <2>4, <2>5
  <2>7. \A i \in 1 .. Len(f) : f[i].sector \in D
    BY <2>3, <2>5, <2>6
  <2>8. WriteAt(hdr, from, position) = f
    BY <1>1, <1>5
  <2> HIDE DEF f, W
  <2> QED
    BY <2>6, <2>7, <2>8
<1> QED
  BY <1>4, <1>5

----------------------------------------------------------------------------
(* The other steps *)

\* A command has the fields it is made of.
LEMMA Idleness ==
    /\ DOMAIN Idle = CommandFields /\ Idle.kind = "idle"
    /\ \A kind, name, entry, source, hdr, position :
          LET c == Command(kind, name, entry, source, hdr, position)
          IN  /\ DOMAIN c = CommandFields /\ c.kind = kind /\ c.name = name /\ c.entry = entry
              /\ c.source = source /\ c.hdr = hdr /\ c.position = position
BY DEF Idle, Command, CommandFields

\* Nothing is pending.
LEMMA EmptyPending ==
    /\ Len(<<>>) = 0 /\ \A W : <<>> \in Seq(W)
BY EmptySeq

\* A usable disk has a file system on it.
LEMMA Running ==
    ASSUME FilesInv, usable
    PROVE  DiskOK
BY DEF FilesInv, DiskOK

\* A step after which no command runs and nothing is pending
LEMMA BecomesIdle ==
    ASSUME ClientType, client' = Idle, pending' = <<>>, DOMAIN disk' = Sectors,
           usable' \in BOOLEAN, usable' => DiskOK'
    PROVE  FilesInv'
<1>1. client'.kind = "idle" /\ DOMAIN client' = CommandFields
  BY Idleness
<1>2. (\E W : pending' \in Seq(W)) /\ Len(pending') = 0
  BY EmptyPending
<1>3. ClientType'
  BY <1>1, <1>2 DEF ClientType, Commands
<1>4. Formatting' /\ Creating' /\ Removing' /\ Opened' /\ Copying'
  BY <1>1 DEF Formatting, Creating, Removing, Opened, Copying
<1> QED
  BY <1>3, <1>4 DEF FilesInv, DiskOK

\* A blank disk has no files.
LEMMA InitFiles == Init => FilesInv
<1> SUFFICES ASSUME Init PROVE FilesInv
  OBVIOUS
<1>1. client.kind = "idle" /\ DOMAIN client = CommandFields
  BY Idleness DEF Init
<1>2. (\E W : pending \in Seq(W)) /\ Len(pending) = 0 /\ pending = <<>>
  BY EmptyPending DEF Init
<1>0. DOMAIN disk = Sectors /\ usable = FALSE
  BY DEF Init
<1>3. ClientType
  <2>1. \A i \in 1 .. Len(pending) : pending[i].sector \in Sectors
    BY <1>2
  <2> QED
    BY <1>0, <1>1, <1>2, <2>1 DEF ClientType, Commands
<1>4. Formatting /\ Creating /\ Removing /\ Opened /\ Copying
  BY <1>1 DEF Formatting, Creating, Removing, Opened, Copying
<1> QED
  BY <1>3, <1>4 DEF FilesInv, Init

\* nachos -f begins
LEMMA FormatStep ==
    ASSUME FilesInv, Format
    PROVE  FilesInv'
<1>1. pending' = FormatWrites
  BY FormatBegins
<1>2. client'.kind = "format" /\ DOMAIN client' = CommandFields
  BY Idleness DEF Format
<1>3. usable' = FALSE /\ disk' = disk
  BY DEF Format
<1>4. /\ \E W : pending' \in Seq(W)
      /\ Len(pending') = 5 /\ \A i \in 1 .. 5 : pending'[i].sector \in Sectors
  BY <1>1, FormatWritesAre
<1>5. ClientType'
  BY <1>2, <1>3, <1>4 DEF FilesInv, ClientType, Commands
<1>6. Formatting'
  <2>1. PICK S : FormatWrites \in Seq(S)
    BY FormatWritesAre
  <2>2. /\ FormatWrites = SubSeq(FormatWrites, 1, Len(FormatWrites))
        /\ 1 \in 1 .. Len(FormatWrites) + 1
    BY <2>1, FormatWritesAre
  <2>3. LeftOf(FormatWrites)'
    BY <1>1, <2>2 DEF LeftOf
  <2>4. \A i \in 1 .. 5 - Len(pending') :
            disk'[FormatWrites[i].sector] = FormatWrites[i].contents
    BY <1>4
  <2> QED
    BY <2>3, <2>4 DEF Formatting
<1>7. Creating' /\ Removing' /\ Opened' /\ Copying'
  BY <1>2 DEF Creating, Removing, Opened, Copying
<1> QED
  BY <1>3, <1>5, <1>6, <1>7 DEF FilesInv

\* nachos -f ends: what has been written is an empty file system.
LEMMA FormatDoneStep ==
    ASSUME FilesInv, FormatDone
    PROVE  FilesInv'
<1>1. /\ ClientType /\ Formatting
      /\ client' = Idle /\ pending' = <<>> /\ disk' = disk /\ usable' = TRUE
  BY DEF FilesInv, FormatDone
<1>2. DiskOK'
  BY <1>1, FormatEnds
<1>3. DOMAIN disk' = Sectors
  BY <1>1 DEF ClientType
<1> QED
  BY <1>1, <1>2, <1>3, BecomesIdle

\* A command that ends
LEMMA Done ==
    ASSUME FilesInv, client' = Idle, pending = <<>>, UNCHANGED <<disk, pending, usable>>
    PROVE  FilesInv'
<1>1. ClientType /\ DOMAIN disk' = Sectors /\ usable' \in BOOLEAN
  BY DEF FilesInv, ClientType
<1>2. usable' => DiskOK'
  BY Running, EmptyPending, ListedKept, DiskKept DEF DiskOK
<1> QED
  BY <1>1, <1>2, BecomesIdle

\* nachos stops: what is pending is lost, and the disk is as it is.
LEMMA CrashStep ==
    ASSUME FilesInv, Crash
    PROVE  FilesInv'
<1>1. /\ client' = Idle /\ pending' = <<>> /\ disk' = disk
      /\ usable' = (usable /\ ~HalfWritten)
  BY DEF Crash
<1>2. ClientType /\ DOMAIN disk' = Sectors /\ usable' \in BOOLEAN
  BY <1>1 DEF FilesInv, ClientType
<1>3. ASSUME usable' PROVE DiskOK'
  <2>1. DiskOK /\ ~HalfWritten
    BY <1>1, <1>3, Running
  <2>2. ~HalfWritten'
    BY <1>1, EmptyPending DEF HalfWritten
  <2>3. \A e \in Entries : InUse(e)' = InUse(e)
    BY <1>1, <2>1, FormattedKept DEF DiskOK
  <2>4. Listed' = Listed
    BY <2>1, <2>2, <2>3 DEF Listed
  <2> QED
    BY <1>1, <2>1, <2>4, DiskKept
<1> QED
  BY <1>1, <1>2, <1>3, BecomesIdle

\* A file is opened, or read on.
LEMMA OpenedStep ==
    ASSUME FilesInv, usable, pending = <<>>, UNCHANGED <<disk, pending, usable>>,
           DOMAIN client' = CommandFields, client'.kind \in {"copy", "print"},
           client'.kind = "copy" => client'.source \in Sources,
           client'.entry \in Listed, client'.hdr = HeaderOf(client'.entry),
           client'.position \in Nat
    PROVE  FilesInv'
<1>1. Len(pending) = 0 /\ Len(pending') = 0 /\ (\E W : pending' \in Seq(W)) /\ disk' = disk
  BY EmptyPending
<1>2. ClientType'
  BY <1>1 DEF FilesInv, ClientType, Commands
<1>3. DiskOK /\ Listed' = Listed
  BY <1>1, Running, ListedKept DEF DiskOK
<1>4. DiskOK'
  BY <1>1, <1>3, DiskKept
<1>5. \A e \in Entries : HeaderOf(e)' = HeaderOf(e)
  <2>1. \A e \in Entries : SectorOf(e)' = SectorOf(e)
    BY <1>1, <1>3, FormattedKept DEF DiskOK
  <2> QED
    BY <1>1, <2>1 DEF HeaderOf
<1>6. Opened'
  BY <1>3, <1>5 DEF Opened, Listed
<1>7. Copying'
  BY <1>1 DEF Copying
<1>8. Formatting' /\ Creating' /\ Removing'
  BY DEF Formatting, Creating, Removing
<1> QED
  BY <1>2, <1>4, <1>6, <1>7, <1>8 DEF FilesInv, DiskOK

LEMMA OpenStep ==
    ASSUME FilesInv, usable, pending = <<>>, UNCHANGED <<disk, pending, usable>>,
           NEW n, NEW kind \in {"copy", "print"}, NEW source,
           kind = "copy" => source \in Sources, Open(n, kind, source)
    PROVE  FilesInv'
<1>1. PICK e \in Found(n) : client' = Command(kind, n, e, source, disk[SectorOf(e)], 0)
  BY DEF Open
<1>2. Len(pending) = 0
  BY EmptyPending
<1>3. e \in Listed
  BY <1>1, <1>2, Running, ListedIs DEF DiskOK, Found
<1>4. /\ DOMAIN client' = CommandFields /\ client'.kind = kind /\ client'.entry = e
      /\ client'.source = source /\ client'.hdr = HeaderOf(e) /\ client'.position = 0
  BY <1>1, Idleness DEF HeaderOf
<1> QED
  BY <1>3, <1>4, OpenedStep, 0 \in Nat

\* nachos -p reads on
LEMMA PrintReadStep ==
    ASSUME FilesInv, PrintRead
    PROVE  FilesInv'
<1> DEFINE bytes == ReadAt(client.hdr, TransferSize, client.position)
           n == Clipped(client.hdr, TransferSize, client.position)
<1>1. /\ client.kind = "print" /\ UNCHANGED <<disk, pending, usable>>
      /\ client' = IF bytes = <<>> THEN Idle
                   ELSE [client EXCEPT !.position = @ + Len(bytes), !.source = @ \o bytes]
  BY DEF PrintRead
<1>2. /\ ClientType /\ usable /\ pending = <<>> /\ client.entry \in Listed
      /\ client.hdr = HeaderOf(client.entry) /\ client.position \in Nat
  BY <1>1 DEF FilesInv, ClientType, Opened, Commands
<1>3. CASE client' = Idle
  BY <1>1, <1>2, <1>3, Done
<1>4. CASE client' = [client EXCEPT !.position = @ + Len(bytes), !.source = @ \o bytes]
  <2>1. Len(bytes) \in Nat
    <3>1. client.hdr.numBytes \in Nat
      BY <1>2, Running DEF DiskOK, FilesOK, FileOK
    <3>2. n \in Nat
      <4>1. TransferSize \in Nat
        BY FileSystemAssumption
      <4> QED
        BY <1>2, <3>1, <4>1, ClippedFacts
    <3>3. Len(bytes) = n
      BY <3>2 DEF ReadAt
    <3> QED
      BY <3>2, <3>3
  <2> HIDE DEF bytes
  <2>2. /\ DOMAIN client' = CommandFields /\ client'.kind = "print"
        /\ client'.entry = client.entry /\ client'.hdr = client.hdr
        /\ client'.position = client.position + Len(bytes)
    BY <1>1, <1>2, <1>4 DEF ClientType, CommandFields
  <2>3. client'.position \in Nat /\ client'.entry \in Listed
        /\ client'.hdr = HeaderOf(client.entry)
    BY <1>2, <2>1, <2>2
  <2>4. client'.hdr = HeaderOf(client'.entry)
    BY <2>2, <2>3
  <2> QED
    BY <1>1, <1>2, <2>2, <2>3, <2>4, OpenedStep
<1> QED
  BY <1>1, <1>3, <1>4

\* nachos -cp writes on, in the sectors of its file only
LEMMA CopyWriteStep ==
    ASSUME FilesInv, CopyWrite
    PROVE  FilesInv'
<1> DEFINE size == Len(client.source)
           upTo == client.position + TransferSize
           buffer == SubSeq(client.source, client.position + 1,
                            IF upTo < size THEN upTo ELSE size)
           n == Clipped(client.hdr, Len(buffer), client.position)
           w == WriteAt(client.hdr, buffer, client.position)
<1>1. /\ client.kind = "copy" /\ disk' = disk /\ usable' = usable /\ pending = <<>>
      /\ client.position < size /\ pending' = w
      /\ client' = [client EXCEPT !.position = @ + n]
  BY DEF CopyWrite
<1>2. /\ ClientType /\ usable /\ client.entry \in Listed /\ client.source \in Sources
      /\ client.hdr = HeaderOf(client.entry) /\ client.position \in Nat
  BY <1>1 DEF FilesInv, ClientType, Opened, Commands
<1>3. DiskOK /\ FileOK(client.hdr, SectorOf(client.entry))
  BY <1>2, Running DEF DiskOK, FilesOK
<1>4. Len(buffer) \in Nat
  <2>1. client.source \in Seq(0 .. 255) /\ TransferSize \in Nat
    BY <1>2, FileSystemAssumption
  <2>2. size \in Nat /\ upTo \in Nat
    BY <1>2, <2>1
  <2> DEFINE a == client.position + 1
             b == IF upTo < size THEN upTo ELSE size
  <2>3. a \in Nat \ {0} /\ b \in Nat /\ b <= size
    BY <1>2, <2>2
  <2> HIDE DEF a, b, size, upTo
  <2>4. Len(SubSeq(client.source, a, b)) \in Nat
    <3>1. \A i \in a .. b : client.source[i] \in 0 .. 255
      <4> TAKE i \in a .. b
      <4>1. i \in 1 .. Len(client.source)
        BY <2>2, <2>3 DEF size
      <4> QED
        BY <2>1, <4>1, ElementOfSeq
    <3>2. Len(SubSeq(client.source, a, b)) = IF a <= b THEN b - a + 1 ELSE 0
      BY <2>3, <3>1, SubSeqProperties
    <3> QED
      BY <2>3, <3>2
  <2> QED
    BY <2>4 DEF a, b
<1> HIDE DEF buffer
<1>5. n \in Nat
  BY <1>2, <1>3, <1>4, ClippedFacts DEF FileOK
<1>6. /\ \E W : w \in Seq(W)
      /\ \A i \in 1 .. Len(w) : w[i].sector \in DataSectors(client.entry)
  BY <1>2, <1>3, <1>4, WriteAtSectors DEF DataSectors
<1> HIDE DEF w, n
<1>7. /\ DOMAIN client' = CommandFields /\ client'.kind = "copy"
      /\ client'.entry = client.entry /\ client'.hdr = client.hdr
      /\ client'.source = client.source /\ client'.position = client.position + n
  BY <1>1, <1>2 DEF ClientType, CommandFields
<1>8. Listed' = Listed /\ \A e \in Entries : SectorOf(e)' = SectorOf(e)
  <2>1. \A e \in Entries : InUse(e)' = InUse(e) /\ SectorOf(e)' = SectorOf(e)
    BY <1>1, <1>3, FormattedKept DEF DiskOK
  <2> QED
    BY <1>1, <1>7, <2>1 DEF Listed, HalfWritten
<1>9. DiskOK'
  BY <1>1, <1>3, <1>8, DiskKept
<1>10. \A e \in Listed :
         e \in Entries /\ HeaderOf(e)' = HeaderOf(e) /\ DataSectors(e)' = DataSectors(e)
  BY <1>1, <1>8 DEF HeaderOf, DataSectors, Listed
<1>11. DataSectors(client.entry) \subseteq Sectors
  <2>1. DataSectors(client.entry) \subseteq Extent(client.hdr, SectorOf(client.entry))
    BY <1>2 DEF DataSectors, Extent
  <2> QED
    BY <1>3, <2>1, ExtentPlaces
<1>12. ClientType'
  <2>1. \A i \in 1 .. Len(pending') : pending'[i].sector \in Sectors
    BY <1>1, <1>6, <1>11
  <2>2. \E W : pending' \in Seq(W)
    BY <1>1, <1>6
  <2> QED
    BY <1>1, <1>2, <1>7, <2>1, <2>2 DEF ClientType, Commands
<1>13. Opened'
  <2>1. client'.position \in Nat
    BY <1>2, <1>5, <1>7
  <2>2. client'.entry \in Listed' /\ client'.hdr = HeaderOf(client.entry)
    BY <1>2, <1>7, <1>8
  <2> QED
    BY <1>2, <1>7, <1>10, <2>1, <2>2 DEF Opened
<1>14. Copying'
  BY <1>1, <1>2, <1>6, <1>7, <1>10 DEF Copying
<1>15. Formatting' /\ Creating' /\ Removing'
  BY <1>7 DEF Formatting, Creating, Removing
<1> QED
  BY <1>9, <1>12, <1>13, <1>14, <1>15 DEF FilesInv, DiskOK

\* What a command that changes the directory begins with
LEMMA CommandBegins ==
    ASSUME FilesInv, usable, client = Idle, UNCHANGED <<disk, usable>>,
           NEW w, (\E S : w \in Seq(S)), Len(w) \in 3 .. 4,
           \A i \in 1 .. Len(w) : w[i].sector \in Sectors, pending' = w,
           NEW kind \in {"create", "remove"}, NEW name, NEW e, NEW source,
           kind = "create" => source \in Sources,
           client' = Command(kind, name, e, source, NoHeader, 0)
    PROVE  /\ ClientType' /\ DiskOK' /\ Listed' = Listed
           /\ Listed = {c \in Entries : InUse(c)}
           /\ client'.kind = kind /\ client'.entry = e
           /\ client'.name = name /\ client'.source = source
<1>1. client.kind = "idle" /\ pending = <<>>
  BY Idleness DEF FilesInv, ClientType
<1>2. /\ DOMAIN client' = CommandFields /\ client'.kind = kind /\ client'.entry = e
      /\ client'.name = name /\ client'.source = source
  BY Idleness
<1>3. ClientType'
  <2>1. client'.kind \in Commands /\ client'.kind \notin {"idle", "format", "copy", "print"}
    BY <1>2 DEF Commands
  <2> QED
    BY <1>2, <2>1 DEF FilesInv, ClientType
<1>4. Len(pending) \notin 1 .. 2 /\ Len(pending') \notin 1 .. 2
  <2>1. Len(pending) = 0
    BY <1>1, EmptyPending
  <2>2. Len(pending') \in 3 .. 4
    BY Zenon
  <2>3. \A q : (q = 0 => q \notin 1 .. 2) /\ (q \in 3 .. 4 => q \notin 1 .. 2)
    OBVIOUS
  <2> QED
    BY <2>1, <2>2, <2>3, Zenon
<1>5. DiskOK /\ Listed' = Listed /\ Listed = {c \in Entries : InUse(c)}
  BY <1>4, Running, ListedKept DEF DiskOK
<1>6. DiskOK'
  BY <1>5, DiskKept
<1> QED
  BY <1>2, <1>3, <1>5, <1>6

\* nachos -r begins
LEMMA RemoveStep ==
    ASSUME FilesInv, NEW n, Remove(n)
    PROVE  FilesInv' /\ Listed' = Listed
<1>1. PICK e \in Found(n) :
          /\ pending' = RemoveWrites(marked \ Freed(SectorOf(e)),
                                     [table EXCEPT ![<<e, "inUse">>] = FALSE])
          /\ client' = Command("remove", n, e, <<>>, NoHeader, 0)
  BY DEF Remove
<1>a. PICK m : m = marked \ Freed(SectorOf(e))
  OBVIOUS
<1>b. PICK t : t = [table EXCEPT ![<<e, "inUse">>] = FALSE]
  OBVIOUS
<1>c. PICK w : w = RemoveWrites(m, t)
  OBVIOUS
<1>2. client = Idle /\ usable /\ disk' = disk /\ usable' = usable /\ DiskOK
  BY Running DEF Remove
<1>3. e \in Entries /\ InUse(e) /\ pending' = w
      /\ client' = Command("remove", n, e, <<>>, NoHeader, 0)
  BY <1>1, <1>a, <1>b, <1>c DEF Found
<1>4. /\ t[<<e, "inUse">>] = FALSE
      /\ \A f \in Fields : f # <<e, "inUse">> => table[f] = t[f]
  BY <1>3, <1>b, FieldFacts DEF table
<1>5. m = marked \ FileSectors(e)
  BY <1>a DEF Freed, FileSectors, DataSectors, HeaderOf
<1>6. RemovesFile(w, m, t)
  BY <1>2, <1>c, RemoveWritesAre DEF DiskOK
<1>7. (\E S : w \in Seq(S)) /\ Len(w) = 3 /\ Len(w) \in 3 .. 4
  BY <1>6 DEF RemovesFile
<1>8. \A i \in 1 .. Len(w) : w[i].sector \in Sectors
  <2>1. w[1].sector = Reserved[1] /\ w[2].sector = Reserved[2] /\ w[3].sector = Reserved[3]
    BY <1>6 DEF RemovesFile
  <2>2. \A i \in 1 .. Len(w) : i = 1 \/ i = 2 \/ i = 3
    BY <1>7
  <2> QED
    BY <2>1, <2>2, ReservedFacts
<1>9. /\ ClientType' /\ DiskOK' /\ Listed' = Listed
      /\ client'.kind = "remove" /\ client'.entry = e
  BY <1>2, <1>3, <1>7, <1>8, CommandBegins
<1>10. /\ Placed' /\ marked' = marked /\ \A f \in Fields : table'[f] = table[f]
       /\ \A c \in Entries : InUse(c)' = InUse(c) /\ SectorOf(c)' = SectorOf(c)
  BY <1>2, FormattedKept DEF DiskOK
<1>11. \A c \in Entries : FileSectors(c)' = FileSectors(c)
  BY <1>2, <1>10 DEF FileSectors, DataSectors, HeaderOf
<1>12. Removed(m, t)'
  <2>1. pending' = SubSeq(RemoveWrites(m, t)', 4 - Len(pending'), 3)
    <3>1. RemoveWrites(m, t)' = w
      BY <1>2, <1>10, <1>c, RemoveWritesKept DEF DiskOK
    <3>2. PICK S : w \in Seq(S)
      BY <1>7
    <3>3. w = SubSeq(w, 4 - 3, 3)
      BY <1>7, <3>2
    <3> QED
      BY <1>3, <1>7, <3>1, <3>3
  <2>2. InUse(client.entry)'
    BY <1>3, <1>9, <1>10
  <2>3. m = marked' \ FileSectors(client.entry)'
    BY <1>3, <1>5, <1>9, <1>10, <1>11
  <2>4. Len(pending') = 3 /\ 3 # 1
    BY <1>3, <1>7
  <2>5. \A f \in Fields : f # <<client'.entry, "inUse">> => table'[f] = t[f]
    BY <1>4, <1>9, <1>10
  <2>6. t[<<client'.entry, "inUse">>] = FALSE
    BY <1>4, <1>9
  <2> QED
    BY <2>1, <2>2, <2>3, <2>4, <2>5, <2>6, Zenon DEF Removed
<1>13. Removing'
  BY <1>3, <1>7, <1>9, <1>12 DEF Removing
<1>14. Formatting' /\ Creating' /\ Opened' /\ Copying'
  BY <1>9 DEF Formatting, Creating, Opened, Copying
<1> QED
  BY <1>9, <1>13, <1>14 DEF FilesInv, DiskOK

\* nachos -cp begins: Create finds an entry and sectors that are free.
LEMMA CreateStep ==
    ASSUME FilesInv, NEW n, NEW source \in Sources, Create(n, source)
    PROVE  FilesInv' /\ Listed' = Listed
<1>1. PICK e \in FreeEntry :
        LET d == FirstClear(marked, 1 + SectorsFor(Len(source)))
            hdr == Header(Len(source), Tail(d))
            t == [table EXCEPT ![<<e, "inUse">>] = TRUE, ![<<e, "name">>] = n,
                               ![<<e, "sector">>] = d[1]]
        IN  /\ pending' = CreateWrites(d[1], hdr, t, Marked(d))
            /\ client' = Command("create", n, e, source, NoHeader, 0)
  BY DEF Create
<1>a. PICK d : d = FirstClear(marked, 1 + SectorsFor(Len(source)))
  OBVIOUS
<1>b. PICK hdr : hdr = Header(Len(source), Tail(d))
  OBVIOUS
<1>c. PICK t : t = [table EXCEPT ![<<e, "inUse">>] = TRUE, ![<<e, "name">>] = n,
                                 ![<<e, "sector">>] = d[1]]
  OBVIOUS
<1>d. PICK m : m = Marked(d)
  OBVIOUS
<1>e. PICK w : w = CreateWrites(d[1], hdr, t, m)
  OBVIOUS
<1>2. /\ client = Idle /\ usable /\ disk' = disk /\ usable' = usable /\ DiskOK
      /\ NumClear(marked) >= 1 + SectorsFor(Len(source))
  BY Running DEF Create
<1>3. /\ e \in Entries /\ ~InUse(e) /\ pending' = w
      /\ client' = Command("create", n, e, source, NoHeader, 0)
  BY <1>1, <1>a, <1>b, <1>c, <1>d, <1>e DEF FreeEntry
<1>4. /\ t[<<e, "inUse">>] = TRUE /\ t[<<e, "sector">>] = d[1] /\ t[<<e, "name">>] = n
      /\ \A f \in Fields : f[1] # e => table[f] = t[f]
  <2>1. DOMAIN table = Fields
    BY DEF table
  <2>2. /\ <<e, "inUse">> \in Fields /\ <<e, "name">> \in Fields /\ <<e, "sector">> \in Fields
        /\ <<e, "inUse">> # <<e, "name">> /\ <<e, "inUse">> # <<e, "sector">>
        /\ <<e, "name">> # <<e, "sector">>
    BY <1>3, FieldFacts
  <2>3. /\ <<e, "inUse">>[1] = e /\ <<e, "name">>[1] = e /\ <<e, "sector">>[1] = e
    OBVIOUS
  <2>4. t[<<e, "inUse">>] = TRUE /\ t[<<e, "sector">>] = d[1] /\ t[<<e, "name">>] = n
    BY <1>c, <2>1, <2>2
  <2>5. \A f \in Fields : f # <<e, "inUse">> /\ f # <<e, "name">> /\ f # <<e, "sector">>
                             => table[f] = t[f]
    BY <1>c, <2>1
  <2> QED
    BY <2>3, <2>4, <2>5, Zenon
<1>5. /\ d \in Seq(Sectors \ marked) /\ Len(d) = 1 + SectorsFor(Len(source))
      /\ \A i, j \in 1 .. Len(d) : d[i] = d[j] => i = j
      /\ Len(source) \in Nat /\ SectorsFor(Len(source)) \in Nat
  <2>1. Len(source) \in Nat
    BY FileSystemAssumption, LenProperties
  <2> DEFINE k == SectorsFor(Len(source))
  <2>2. k \in Nat
    BY <2>1, SectorsForType
  <2>3. NumClear(marked) >= 1 + k /\ d = FirstClear(marked, 1 + k)
    BY <1>2, <1>a
  <2> HIDE DEF k
  <2>4. d \in Seq(Sectors \ marked) /\ Len(d) = 1 + k
        /\ \A i, j \in 1 .. 1 + k : d[i] = d[j] => i = j
    BY <1>2, <2>2, <2>3, TakenSectors
  <2> QED
    BY <2>1, <2>2, <2>4 DEF k
<1>6. /\ FileOK(hdr, d[1]) /\ Extent(hdr, d[1]) \cap marked = {}
      /\ m = marked \cup Extent(hdr, d[1])
  BY <1>2, <1>5, <1>b, <1>d, NewFile DEF Marked
<1>7. d[1] \in Sectors
  BY <1>6 DEF FileOK
<1>8. CreatesFile(w, d[1], hdr, t, m)
  BY <1>2, <1>e, CreateWritesAre DEF DiskOK
<1>9. (\E S : w \in Seq(S)) /\ Len(w) = 4 /\ Len(w) \in 3 .. 4
  BY <1>8 DEF CreatesFile
<1>10. \A i \in 1 .. Len(w) : w[i].sector \in Sectors
  <2>1. /\ w[1].sector = d[1] /\ w[2].sector = Reserved[2] /\ w[3].sector = Reserved[3]
        /\ w[4].sector = Reserved[1]
    BY <1>8 DEF CreatesFile
  <2>2. \A i \in 1 .. Len(w) : i = 1 \/ i = 2 \/ i = 3 \/ i = 4
    BY <1>9
  <2> QED
    BY <1>7, <2>1, <2>2, ReservedFacts
<1>11. /\ ClientType' /\ DiskOK' /\ client'.kind = "create" /\ client'.entry = e
       /\ Listed' = Listed /\ client'.name = n /\ client'.source = source
  BY <1>2, <1>3, <1>9, <1>10, CommandBegins
<1>12. /\ Placed' /\ marked' = marked /\ \A f \in Fields : table'[f] = table[f]
       /\ \A c \in Entries : InUse(c)' = InUse(c)
  BY <1>2, FormattedKept DEF DiskOK
<1>13. Created(d[1], hdr, t, m)'
  <2>1. pending' = SubSeq(CreateWrites(d[1], hdr, t, m)', 5 - Len(pending'), 4)
    <3>1. CreateWrites(d[1], hdr, t, m)' = w
      BY <1>2, <1>12, <1>e, CreateWritesKept DEF DiskOK
    <3>2. PICK S : w \in Seq(S)
      BY <1>9
    <3>3. w = SubSeq(w, 5 - 4, 4)
      BY <1>9, <3>2
    <3> QED
      BY <1>3, <1>9, <3>1, <3>3
  <2>2. ~InUse(client.entry)'
    BY <1>3, <1>11, <1>12
  <2>3. Len(pending') = 4 /\ ~(4 <= 3) /\ ~(4 <= 2) /\ ~(4 <= 1)
    BY <1>3, <1>9
  <2>4. FileOK(hdr, d[1])' /\ (Extent(hdr, d[1]) \cap marked = {})'
        /\ (m = marked \cup Extent(hdr, d[1]))'
    BY <1>6, <1>12 DEF FileOK, Extent
  <2>5. \A f \in Fields : f[1] # client'.entry => table'[f] = t[f]
    BY <1>4, <1>11, <1>12
  <2>6. /\ t[<<client'.entry, "inUse">>] = TRUE /\ t[<<client'.entry, "sector">>] = d[1]
        /\ t[<<client'.entry, "name">>] = client'.name
    BY <1>4, <1>11
  <2>7. hdr.numBytes = Len(client'.source)
    BY <1>b, <1>11 DEF Header
  <2> QED
    BY <2>1, <2>2, <2>3, <2>4, <2>5, <2>6, <2>7, Zenon DEF Created
<1>14. Creating'
  <2>1. \E x \in Sectors : \E h, u, v : Created(x, h, u, v)'
    BY <1>7, <1>13
  <2>2. Len(pending') \in 1 .. 4
    BY <1>3, <1>9
  <2> QED
    BY <1>3, <1>11, <2>1, <2>2 DEF Creating
<1>15. Formatting' /\ Removing' /\ Opened' /\ Copying'
  BY <1>11 DEF Formatting, Removing, Opened, Copying
<1> QED
  BY <1>11, <1>14, <1>15 DEF FilesInv, DiskOK

\* The disk is written.
LEMMA WriteStep ==
    ASSUME FilesInv, WriteSector
    PROVE  FilesInv'
<1>1. ClientType /\ client' = client /\ usable' = usable /\ pending # <<>>
  BY SameClient DEF FilesInv
<1>2. ClientType'
  BY <1>1, WriteType
<1>3. client.kind \in {"format", "create", "copy", "remove"}
  BY <1>1 DEF ClientType, Commands
<1>4. CASE client.kind = "format"
  <2>1. Formatting'
    BY <1>1, <1>4, WriteFormat DEF FilesInv
  <2>2. ~usable'
    BY <1>1, <1>4 DEF ClientType
  <2>3. Creating' /\ Removing' /\ Opened' /\ Copying'
    BY <1>1, <1>4 DEF Creating, Removing, Opened, Copying
  <2> QED
    BY <1>2, <2>1, <2>2, <2>3 DEF FilesInv
<1>5. CASE client.kind = "create"
  <2>1. DiskOK' /\ Creating'
    BY <1>5, WriteCreate
  <2>2. Formatting' /\ Removing' /\ Opened' /\ Copying'
    BY <1>1, <1>5 DEF Formatting, Removing, Opened, Copying
  <2> QED
    BY <1>2, <2>1, <2>2 DEF FilesInv, DiskOK
<1>6. CASE client.kind = "remove"
  <2>1. DiskOK' /\ Removing'
    BY <1>6, WriteRemove
  <2>2. Formatting' /\ Creating' /\ Opened' /\ Copying'
    BY <1>1, <1>6 DEF Formatting, Creating, Opened, Copying
  <2> QED
    BY <1>2, <2>1, <2>2 DEF FilesInv, DiskOK
<1>7. CASE client.kind = "copy"
  <2>1. DiskOK' /\ Opened' /\ Copying'
    BY <1>7, WriteCopy
  <2>2. Formatting' /\ Creating' /\ Removing'
    BY <1>1, <1>7 DEF Formatting, Creating, Removing
  <2> QED
    BY <1>2, <2>1, <2>2 DEF FilesInv, DiskOK
<1> QED
  BY <1>3, <1>4, <1>5, <1>6, <1>7

\* Nothing happens.
LEMMA Stutters ==
    ASSUME FilesInv, UNCHANGED vars
    PROVE  FilesInv'
<1>1. disk' = disk /\ pending' = pending /\ client' = client /\ usable' = usable
  BY DEF vars
<1>2. ClientType'
  BY <1>1 DEF FilesInv, ClientType
<1>3. /\ MapSector' = MapSector /\ DirectorySectors' = DirectorySectors
      /\ table' = table /\ marked' = marked /\ HalfWritten' = HalfWritten
  BY <1>1 DEF MapSector, DirectorySectors, table, marked, HalfWritten
<1>4. \A e : InUse(e)' = InUse(e) /\ SectorOf(e)' = SectorOf(e)
  BY <1>3 DEF InUse, SectorOf
<1>5. Listed' = Listed
  BY <1>1, <1>3, <1>4 DEF Listed
<1>6. \A e : HeaderOf(e)' = HeaderOf(e)
  BY <1>1, <1>4 DEF HeaderOf
<1>7. \A e : DataSectors(e)' = DataSectors(e)
  BY <1>6 DEF DataSectors
<1>8. \A e : FileSectors(e)' = FileSectors(e)
  BY <1>4, <1>7 DEF FileSectors
<1>9. usable' => Formatted' /\ FilesOK' /\ MapOK'
  BY <1>1, Running, DiskKept, <1>5 DEF DiskOK
<1>10. Formatting'
  BY <1>1 DEF FilesInv, Formatting, LeftOf
<1>11. Creating'
  <2>1. \A s, hdr, t, m : CreateWrites(s, hdr, t, m)' = CreateWrites(s, hdr, t, m)
    BY <1>3 DEF CreateWrites, HeaderWrites, DirectoryWrites, MapWrites
  <2>2. ASSUME NEW s, NEW hdr, NEW t, NEW m, Created(s, hdr, t, m)
        PROVE  Created(s, hdr, t, m)'
    <3>1. pending' = SubSeq(CreateWrites(s, hdr, t, m)', 5 - Len(pending'), 4)
      <4>1. pending = SubSeq(CreateWrites(s, hdr, t, m), 5 - Len(pending), 4)
        BY <2>2 DEF Created
      <4> QED
        BY <4>1, <2>1, <1>1, Zenon
    <3>2. disk'[s] = disk[s] /\ \A f \in Fields : table'[f] = table[f]
      BY <1>1, <1>3
    <3> QED
      BY <2>2, <3>1, <3>2, <1>1, <1>3, <1>4 DEF Created, FileOK
  <2> QED
    BY <2>2, <1>1 DEF FilesInv, Creating
<1>12. Removing'
  <2>1. \A m, t : RemoveWrites(m, t)' = RemoveWrites(m, t)
    BY <1>3 DEF RemoveWrites, DirectoryWrites, MapWrites
  <2>2. \A m, t : Removed(m, t) => Removed(m, t)'
    BY <2>1, <1>1, <1>3, <1>4, <1>8 DEF Removed
  <2> QED
    BY <2>2, <1>1 DEF FilesInv, Removing
<1>13. Opened'
  BY <1>1, <1>5, <1>6 DEF FilesInv, Opened
<1>14. Copying'
  BY <1>1, <1>7 DEF FilesInv, Copying
<1> QED
  BY <1>2, <1>9, <1>10, <1>11, <1>12, <1>13, <1>14 DEF FilesInv

\* Every step preserves the invariant.
LEMMA FilesStep == FilesInv /\ [Next]_vars => FilesInv'
<1> SUFFICES ASSUME FilesInv, [Next]_vars PROVE FilesInv'
  OBVIOUS
<1>1. CASE Format
  BY <1>1, FormatStep
<1>2. CASE FormatDone
  BY <1>2, FormatDoneStep
<1>3. ASSUME NEW n \in Names, NEW source \in Sources, Create(n, source) PROVE FilesInv'
  BY <1>3, CreateStep
<1>4. ASSUME NEW n \in Names, PrintOpen(n) PROVE FilesInv'
  <2>1. usable /\ client = Idle /\ UNCHANGED <<disk, pending, usable>> /\ Open(n, "print", <<>>)
    BY <1>4 DEF PrintOpen
  <2>2. pending = <<>>
    BY <2>1, Idleness DEF FilesInv, ClientType
  <2> QED
    BY <2>1, <2>2, OpenStep
<1>5. ASSUME NEW n \in Names, Remove(n) PROVE FilesInv'
  BY <1>5, RemoveStep
<1>6. CASE CopyOpen
  <2>1. /\ client.kind = "create" /\ pending = <<>> /\ UNCHANGED <<disk, pending, usable>>
        /\ Open(client.name, "copy", client.source)
    BY <1>6 DEF CopyOpen
  <2>2. usable /\ client.source \in Sources
    BY <2>1 DEF FilesInv, ClientType, Commands
  <2> QED
    BY <2>1, <2>2, OpenStep
<1>7. CASE CopyWrite
  BY <1>7, CopyWriteStep
<1>8. CASE CopyDone
  BY <1>8, Done DEF CopyDone
<1>9. CASE PrintRead
  BY <1>9, PrintReadStep
<1>10. CASE RemoveDone
  BY <1>10, Done DEF RemoveDone
<1>11. CASE WriteSector
  BY <1>11, WriteStep
<1>12. CASE Crash
  BY <1>12, CrashStep
<1>13. CASE UNCHANGED vars
  BY <1>13, Stutters
<1> QED
  BY <1>1, <1>2, <1>3, <1>4, <1>5, <1>6, <1>7, <1>8, <1>9, <1>10, <1>11, <1>12, <1>13 DEF Next

----------------------------------------------------------------------------
(* The theorems *)

\* The invariant holds at all times.
LEMMA FilesInvAlways == Spec => []FilesInv
BY InitFiles, FilesStep, PTL DEF Spec

\* A sequence without repetition has as many elements as places.
LEMMA Distinct ==
    ASSUME NEW S, NEW q \in Seq(S), \A i, j \in DOMAIN q : q[i] = q[j] => i = j
    PROVE  LET range == {q[i] : i \in DOMAIN q}
           IN  IsFiniteSet(range) /\ Cardinality(range) = Len(q)
<1> DEFINE range == {q[i] : i \in DOMAIN q}
           last == Len(q)
           places == 1 .. last
<1>1. DOMAIN q = places /\ last \in Nat
  BY LenProperties
<1>2. IsFiniteSet(places) /\ Cardinality(places) = last
  <2>1. last \in Int /\ 1 \in Int
    BY <1>1
  <2> HIDE DEF last
  <2>2. Cardinality(places) = IF 1 > last THEN 0 ELSE last - 1 + 1
    BY <2>1, FS_Interval, Zenon
  <2>3. IsFiniteSet(places)
    BY <2>1, FS_Interval, Zenon
  <2> QED
    BY <1>1, <2>2, <2>3
<1>3. [i \in places |-> q[i]] \in Bijection(places, range)
  BY <1>1 DEF Bijection, Injection, IsInjective, Surjection
<1> HIDE DEF places, range
<1>4. ExistsBijection(places, range)
  BY <1>3 DEF ExistsBijection
<1>5. IsFiniteSet(range) /\ Cardinality(range) = Cardinality(places)
  BY <1>2, <1>4, FS_Bijection
<1> QED
  BY <1>2, <1>5 DEF last, range

\* A file has as many sectors as its header names, and the header's own.
LEMMA FileSize ==
    ASSUME NEW e, FileOK(HeaderOf(e), SectorOf(e))
    PROVE  Cardinality(FileSectors(e)) = 1 + Len(HeaderOf(e).dataSectors)
<1> DEFINE q == HeaderOf(e).dataSectors
           range == {q[i] : i \in DOMAIN q}
<1>1. /\ q \in Seq(Sectors \ ReservedSectors)
      /\ \A i, j \in DOMAIN q : q[i] = q[j] => i = j
      /\ \A i \in DOMAIN q : q[i] # SectorOf(e)
  BY DEF FileOK
<1>2. FileSectors(e) = range \cup {SectorOf(e)} /\ SectorOf(e) \notin range
  BY <1>1 DEF FileSectors, DataSectors
<1> HIDE DEF q
<1>3. IsFiniteSet(range) /\ Cardinality(range) = Len(q)
  BY <1>1, Distinct
<1>4. Len(q) \in Nat
  BY <1>1, LenProperties
<1> HIDE DEF range
<1>5. Cardinality(range \cup {SectorOf(e)}) = Cardinality(range) + 1
  BY <1>2, <1>3, FS_AddElement
<1> QED
  BY <1>2, <1>3, <1>4, <1>5 DEF q

\* The invariant implies what the runs check.
LEMMA FilesInvImplies ==
    ASSUME FilesInv
    PROVE  TypeOK /\ NoSharedSector /\ MapExact /\ NoLeak
<1>1. ASSUME usable
      PROVE  Formatted /\ FilesOK /\ MapOK /\ SystemSectors = ReservedSectors
  BY <1>1, Read DEF FilesInv
<1>2. TypeOK
  <2>1. ASSUME usable
        PROVE  /\ disk[FreeMapSector].kind = "header" /\ disk[DirectorySector].kind = "header"
               /\ disk[MapSector].kind = "map"
               /\ disk[DirectorySectors[1]].kind = "directory"
               /\ disk[DirectorySectors[2]].kind = "directory"
    <3>1. /\ MapSector = Reserved[1]
          /\ DirectorySectors[1] = Reserved[2] /\ DirectorySectors[2] = Reserved[3]
      BY <1>1, <2>1, Read
    <3>2. disk[FreeMapSector].kind = "header" /\ disk[DirectorySector].kind = "header"
      BY <1>1, <2>1 DEF Formatted, Placed, Header
    <3> QED
      BY <1>1, <2>1, <3>1, <3>2 DEF Formatted
  <2>2. ASSUME usable, NEW e \in Listed
        PROVE  /\ HeaderOf(e).kind = "header"
               /\ Len(HeaderOf(e).dataSectors) = SectorsFor(HeaderOf(e).numBytes)
    BY <1>1, <2>2 DEF FilesOK, FileOK
  <2>3. \A i \in DOMAIN pending : pending[i].sector \in Sectors
    BY LenProperties DEF FilesInv, ClientType
  <2>4. \A i \in 1 .. 2 : i = 1 \/ i = 2
    OBVIOUS
  <2>5. /\ DOMAIN disk = Sectors /\ usable \in BOOLEAN
        /\ client.kind \in {"idle", "format", "create", "copy", "print", "remove"}
    BY DEF FilesInv, ClientType, Commands
  <2> QED
    BY <2>1, <2>2, <2>3, <2>4, <2>5 DEF TypeOK
<1>3. NoSharedSector
  <2>1. ASSUME usable, NEW e \in Listed
        PROVE  /\ Cardinality(FileSectors(e)) = 1 + Len(HeaderOf(e).dataSectors)
               /\ FileSectors(e) \cap SystemSectors = {}
               /\ \A d \in Listed \ {e} : FileSectors(e) \cap FileSectors(d) = {}
    <3>1. /\ FileOK(HeaderOf(e), SectorOf(e))
          /\ \A d \in Listed \ {e} : FileSectors(e) \cap FileSectors(d) = {}
      BY <1>1, <2>1 DEF FilesOK
    <3>2. FileSectors(e) = Extent(HeaderOf(e), SectorOf(e))
      BY DEF FileSectors, DataSectors, Extent
    <3>3. FileSectors(e) \subseteq Sectors \ ReservedSectors
      BY <3>1, <3>2, ExtentPlaces
    <3> QED
      BY <1>1, <2>1, <3>1, <3>3, FileSize
  <2> QED
    BY <2>1 DEF NoSharedSector
<1>4. MapExact
  BY <1>1 DEF MapExact, MapOK
<1>5. NoLeak
  <2>1. Listed \subseteq {d \in Entries : InUse(d)}
    BY DEF Listed
  <2>2. UNION {FileSectors(e) : e \in Listed}
            \subseteq UNION {FileSectors(e) : e \in {d \in Entries : InUse(d)}}
    BY <2>1
  <2> QED
    BY <1>1, <2>2 DEF NoLeak, MapOK
<1> QED
  BY <1>2, <1>3, <1>4, <1>5

\* FileSystem.TypeOK: what is read as a map, a directory or a header was written
\* as one, on a disk of any size.
THEOREM FileTypeCorrect == Spec => []TypeOK
BY FilesInvAlways, FilesInvImplies, PTL

\* FileSystem.NoSharedSector: no sector belongs to two files, or twice to one, or
\* to a file and to the file system, whatever Create, Remove and Copy did and
\* wherever nachos stopped before.
THEOREM NoSharedSectorCorrect == Spec => []NoSharedSector
BY FilesInvAlways, FilesInvImplies, PTL

\* FileSystem.MapExact: the bit map marks exactly the sectors in use whenever
\* directory and map are not half written, so Deallocate's assertion holds.
THEOREM MapExactCorrect == Spec => []MapExact
BY FilesInvAlways, FilesInvImplies, PTL

\* FileSystem.NoLeak: every marked sector is in use at every moment, so that no
\* sector is lost wherever nachos stops.
THEOREM NoLeakCorrect == Spec => []NoLeak
BY FilesInvAlways, FilesInvImplies, PTL

----------------------------------------------------------------------------
(* The file system implements FileStore: what the user can see *)

\* The names of the files that are there
Named ==
    usable => \A e \in Listed : /\ NameOf(e) \in Names
                                /\ \A d \in Listed \ {e} : NameOf(d) # NameOf(e)

\* The file that is being created has a new name.
NewName ==
    client.kind = "create" /\ pending # <<>> =>
        /\ client.name \in Names /\ client.source \in Sources
        /\ \A e \in Listed : NameOf(e) # client.name

\* What has been printed is what the file has from its first byte on.
Printed ==
    client.kind = "print" =>
        /\ client.name = NameOf(client.entry)
        /\ client.position <= client.hdr.numBytes
        /\ client.source = [i \in 1 .. client.position |-> ByteAt(client.hdr, i - 1)]

\* The write w of the q-th sector of a file brings those bytes of source that are
\* between first and last, and leaves the others as they are.
Brings(w, hdr, source, q, first, last) ==
    /\ q + 1 \in DOMAIN hdr.dataSectors
    /\ w.sector = hdr.dataSectors[q + 1] /\ w.contents.kind = "data"
    /\ \A p \in 0 .. hdr.numBytes - 1 :
          p \div SectorSize = q =>
              w.contents.bytes[p % SectorSize] =
                  IF p \in first .. last THEN source[p + 1] ELSE ByteAt(hdr, p)

Chunk ==
    client.kind = "copy" /\ pending # <<>> =>
        \E first, last \in 0 .. Len(client.source) - 1 : \A i \in 1 .. Len(pending) :
            \E q \in first \div SectorSize .. last \div SectorSize :
                Brings(pending[i], client.hdr, client.source, q, first, last)

StoreInv == Named /\ NewName /\ Printed /\ Chunk

\* NoFile is no file's bytes: it is not a function.
NoFileIsNone == NoFile # [x \in DOMAIN NoFile |-> NoFile[x]]

\* The file of an entry that is listed
LEMMA FileNow ==
    ASSUME usable, Named, NEW e \in Listed
    PROVE  NameOf(e) \in Names /\ files[NameOf(e)] = BytesOf(e)
<1>1. NameOf(e) \in Names /\ \A d \in Listed \ {e} : NameOf(d) # NameOf(e)
  BY DEF Named
<1>2. PICK n : n = NameOf(e)
  OBVIOUS
<1>3. (CHOOSE d \in Listed : NameOf(d) = n) = e
  BY <1>1, <1>2
<1>4. \E d \in Listed : NameOf(d) = n
  BY <1>2
<1>5. files[n] = BytesOf(CHOOSE d \in Listed : NameOf(d) = n)
  BY <1>1, <1>2, <1>4 DEF files
<1> QED
  BY <1>1, <1>2, <1>3, <1>5

\* A name that no listed entry has
LEMMA NoFileNow ==
    ASSUME NEW n \in Names, usable => \A e \in Listed : NameOf(e) # n
    PROVE  files[n] = NoFile
BY DEF files

\* The same, one step later
LEMMA FileNext ==
    ASSUME usable', Named', NEW e \in Listed'
    PROVE  NameOf(e)' \in Names /\ files'[NameOf(e)'] = BytesOf(e)'
<1>1. NameOf(e)' \in Names /\ \A d \in Listed' \ {e} : NameOf(d)' # NameOf(e)'
  BY DEF Named
<1>2. PICK n : n = NameOf(e)'
  OBVIOUS
<1>3. (CHOOSE d \in Listed' : NameOf(d)' = n) = e
  BY <1>1, <1>2
<1>4. \E d \in Listed' : NameOf(d)' = n
  BY <1>2
<1>5. files'[n] = BytesOf(CHOOSE d \in Listed : NameOf(d) = n)'
  BY <1>1, <1>2, <1>4 DEF files
<1>6. BytesOf(CHOOSE d \in Listed : NameOf(d) = n)' = BytesOf(e)'
  <2> DEFINE c == CHOOSE d \in Listed : NameOf(d) = n
  <2>1. c' = e
    BY <1>3
  <2> HIDE DEF c
  <2>2. BytesOf(c)' = BytesOf(e)'
    BY <2>1 DEF BytesOf, HeaderOf, SectorOf, ByteAt, ByteToSector
  <2> QED
    BY <2>2 DEF c
<1> QED
  BY <1>1, <1>2, <1>5, <1>6

LEMMA NoFileNext ==
    ASSUME NEW n \in Names, usable' => \A e \in Listed' : NameOf(e)' # n
    PROVE  files'[n] = NoFile
BY DEF files

\* files is a function of names, and equal to another if it is so for each name.
LEMMA FilesType ==
    /\ files = [n \in Names |-> files[n]] /\ files' = [n \in Names |-> files'[n]]
BY DEF files

\* Without a usable disk there are no files.
LEMMA NoFiles ==
    /\ ~usable => files = Store!Empty
    /\ ~usable' => files' = Store!Empty
BY DEF files, Store!Empty

\* Nothing the user can see changes.
LEMMA SameStore ==
    ASSUME usable, usable', Named, Listed' = Listed,
           \A e \in Listed : NameOf(e)' = NameOf(e) /\ BytesOf(e)' = BytesOf(e)
    PROVE  Named' /\ files' = files
<1>1. Named'
  BY DEF Named
<1>2. \A n \in Names : files'[n] = files[n]
  <2> TAKE n \in Names
  <2>1. CASE \E e \in Listed : NameOf(e) = n
    <3>1. PICK e \in Listed : NameOf(e) = n
      BY <2>1
    <3>2. files[n] = BytesOf(e)
      BY <3>1, FileNow
    <3>3. files'[n] = BytesOf(e)'
      BY <1>1, <3>1, FileNext
    <3> QED
      BY <3>2, <3>3
  <2>2. CASE ~\E e \in Listed : NameOf(e) = n
    BY <2>2, NoFileNow, NoFileNext
  <2> QED
    BY <2>1, <2>2
<1> QED
  BY <1>1, <1>2, FilesType

\* A step that leaves the disk alone
LEMMA SameDisk ==
    ASSUME disk' = disk
    PROVE  \A e : /\ InUse(e)' = InUse(e) /\ NameOf(e)' = NameOf(e) /\ SectorOf(e)' = SectorOf(e)
                  /\ HeaderOf(e)' = HeaderOf(e) /\ BytesOf(e)' = BytesOf(e)
<1>1. table' = table
  BY DEF table, DirectorySectors
<1>2. \A e : /\ InUse(e)' = InUse(e) /\ NameOf(e)' = NameOf(e) /\ SectorOf(e)' = SectorOf(e)
             /\ HeaderOf(e)' = HeaderOf(e)
  BY <1>1 DEF InUse, NameOf, SectorOf, HeaderOf
<1>3. \A e : BytesOf(e)' = BytesOf(e)
  BY <1>2 DEF BytesOf, ByteAt, ByteToSector
<1> QED
  BY <1>2, <1>3

\* What is listed does not change then, but for what is half written.
LEMMA Invisible ==
    ASSUME Named, disk' = disk, usable' = usable, usable => Listed' = Listed
    PROVE  Named' /\ files' = files
<1>1. CASE usable
  BY <1>1, SameDisk, SameStore
<1>2. CASE ~usable
  BY <1>2, NoFiles DEF Named
<1> QED
  BY <1>1, <1>2

----------------------------------------------------------------------------
(* The steps that write nothing *)

\* No command runs: only the names remain to be shown.
LEMMA IdleStore ==
    ASSUME Named', client' = Idle
    PROVE  StoreInv'
<1>1. client'.kind = "idle"
  BY Idleness
<1> QED
  BY <1>1 DEF StoreInv, NewName, Printed, Chunk

\* nachos -f begins: the user's files are lost.
LEMMA FormatStore ==
    ASSUME FilesInv, StoreInv, Format
    PROVE  StoreInv' /\ Store!Lose
<1>1. client'.kind = "format" /\ usable' = FALSE
  BY Idleness DEF Format
<1>2. StoreInv'
  BY <1>1 DEF StoreInv, Named, NewName, Printed, Chunk
<1> QED
  BY <1>1, <1>2, NoFiles DEF Store!Lose

LEMMA FormatDoneStore ==
    ASSUME FilesInv, StoreInv, FormatDone
    PROVE  StoreInv' /\ Store!Format
<1>1. ~usable /\ usable' = TRUE /\ client' = Idle
  BY DEF FormatDone, FilesInv, ClientType
<1>2. Listed' = {}
  BY FormatEnds DEF FilesInv
<1>3. StoreInv'
  BY <1>1, <1>2, IdleStore DEF Named
<1>4. files' = Store!Empty
  <2>1. \A n \in Names : files'[n] = NoFile
    BY <1>2, NoFileNext
  <2> QED
    BY <2>1, FilesType DEF Store!Empty
<1> QED
  BY <1>1, <1>3, <1>4 DEF Store!Format

\* A command begins that will change the directory.
LEMMA CreateStore ==
    ASSUME FilesInv, StoreInv, NEW n \in Names, NEW source \in Sources, Create(n, source)
    PROVE  StoreInv' /\ UNCHANGED Store!vars
<1>1. /\ Found(n) = {} /\ disk' = disk /\ usable' = usable
      /\ \E e : client' = Command("create", n, e, source, NoHeader, 0)
  BY DEF Create
<1>2. Listed' = Listed
  BY CreateStep
<1>3. Named' /\ files' = files
  BY <1>1, <1>2, Invisible DEF StoreInv
<1>4. client'.kind = "create" /\ client'.name = n /\ client'.source = source
  BY <1>1, Idleness
<1>5. \A e \in Listed' : NameOf(e)' # n
  <2>1. \A e \in Listed : NameOf(e) # n
    BY <1>1 DEF Listed, Found
  <2> QED
    BY <1>1, <1>2, <2>1, SameDisk
<1>6. StoreInv'
  BY <1>3, <1>4, <1>5 DEF StoreInv, NewName, Printed, Chunk
<1> QED
  BY <1>1, <1>3, <1>6 DEF Store!vars

LEMMA RemoveStore ==
    ASSUME FilesInv, StoreInv, NEW n, Remove(n)
    PROVE  StoreInv' /\ UNCHANGED Store!vars
<1>1. /\ disk' = disk /\ usable' = usable
      /\ \E e : client' = Command("remove", n, e, <<>>, NoHeader, 0)
  BY DEF Remove
<1>2. Listed' = Listed
  BY RemoveStep
<1>3. Named' /\ files' = files
  BY <1>1, <1>2, Invisible DEF StoreInv
<1>4. client'.kind = "remove"
  BY <1>1, Idleness
<1>5. StoreInv'
  BY <1>3, <1>4 DEF StoreInv, NewName, Printed, Chunk
<1> QED
  BY <1>1, <1>3, <1>5 DEF Store!vars

\* Nothing is pending, before and after: what is listed is the same.
LEMMA NothingPending ==
    ASSUME FilesInv, StoreInv, pending = <<>>, UNCHANGED <<disk, pending, usable>>
    PROVE  Named' /\ files' = files /\ UNCHANGED Store!vars /\ (usable => Listed' = Listed)
<1>1. Len(pending) = 0 /\ Len(pending') = 0
  BY EmptyPending
<1>2. usable => Listed' = Listed
  BY <1>1, Running, ListedKept DEF DiskOK
<1> QED
  BY <1>2, Invisible DEF StoreInv, Store!vars

\* A file is opened.
LEMMA OpenStore ==
    ASSUME FilesInv, StoreInv, usable, pending = <<>>, UNCHANGED <<disk, pending, usable>>,
           NEW n, NEW kind \in {"copy", "print"}, NEW source,
           kind = "print" => source = <<>>, Open(n, kind, source)
    PROVE  StoreInv' /\ UNCHANGED Store!vars
<1>1. PICK e \in Found(n) : client' = Command(kind, n, e, source, disk[SectorOf(e)], 0)
  BY DEF Open
<1>2. /\ client'.kind = kind /\ client'.name = n /\ client'.entry = e
      /\ client'.source = source /\ client'.hdr = HeaderOf(e) /\ client'.position = 0
  BY <1>1, Idleness DEF HeaderOf
<1>3. Len(pending) = 0
  BY EmptyPending
<1>4. e \in Listed /\ NameOf(e)' = n
  BY <1>1, <1>3, Running, ListedIs, SameDisk DEF DiskOK, Found
<1>5. 0 <= client'.hdr.numBytes
  BY <1>2, <1>4, Running DEF DiskOK, FilesOK, FileOK
<1>6. ASSUME kind = "print"
      PROVE  client'.source = [i \in 1 .. 0 |-> ByteAt(client.hdr, i - 1)']
  BY <1>2, <1>6
<1>7. Printed'
  BY <1>2, <1>4, <1>5, <1>6 DEF Printed
<1>8. NewName' /\ Chunk'
  BY <1>2 DEF NewName, Chunk
<1> QED
  BY <1>7, <1>8, NothingPending DEF StoreInv

\* A command ends.
LEMMA DoneStore ==
    ASSUME FilesInv, StoreInv, client' = Idle, pending = <<>>, UNCHANGED <<disk, pending, usable>>
    PROVE  StoreInv' /\ UNCHANGED Store!vars
BY NothingPending, IdleStore

\* nachos stops: in the middle of an operation the files are lost, else nothing is.
LEMMA CrashStore ==
    ASSUME FilesInv, StoreInv, Crash
    PROVE  StoreInv' /\ [Store!Next]_(Store!vars)
<1>1. client' = Idle /\ disk' = disk /\ usable' = (usable /\ ~HalfWritten)
  BY DEF Crash
<1>2. CASE ~usable'
  <2>1. StoreInv'
    BY <1>1, <1>2, IdleStore DEF Named
  <2>2. usable' \in BOOLEAN
    BY <1>1
  <2> QED
    BY <1>2, <2>1, <2>2, NoFiles DEF Store!Lose, Store!Next
<1>3. CASE usable'
  <2>1. usable /\ usable' = usable /\ ~HalfWritten
    <3>1. usable /\ ~HalfWritten
      BY <1>1, <1>3, Zenon
    <3>2. usable \in BOOLEAN /\ usable' \in BOOLEAN
      BY <1>1 DEF FilesInv, ClientType
    <3> QED
      BY <1>3, <3>1, <3>2
  <2>2. ~HalfWritten'
    BY <1>1, Idleness DEF HalfWritten
  <2>3. Listed' = Listed
    BY <1>1, <2>1, <2>2, SameDisk DEF Listed
  <2>4. Named' /\ files' = files
    <3>1. Named /\ disk' = disk /\ usable' = usable /\ (usable => Listed' = Listed)
      BY <1>1, <2>1, <2>3, Zenon DEF StoreInv
    <3> QED
      BY <3>1, Invisible, Zenon
  <2>5. StoreInv'
    BY <1>1, <2>4, IdleStore
  <2>6. UNCHANGED Store!vars
    BY <2>1, <2>4 DEF Store!vars
  <2> QED
    BY <2>5, <2>6
<1> QED
  BY <1>2, <1>3

----------------------------------------------------------------------------
(* Reading and writing the data *)

\* What is read next comes after what was read before.
LEMMA Appended ==
    ASSUME NEW f, NEW m \in Nat, NEW n \in Nat
    PROVE  [i \in 1 .. m |-> f[i - 1]] \o [i \in 1 .. n |-> f[m + i - 1]]
           = [i \in 1 .. m + n |-> f[i - 1]]
<1> DEFINE W == {f[i] : i \in 0 .. m + n}
           a == [i \in 1 .. m |-> f[i - 1]]
           b == [i \in 1 .. n |-> f[m + i - 1]]
           c == [i \in 1 .. m + n |-> f[i - 1]]
<1>1. a \in Seq(W) /\ b \in Seq(W) /\ c \in Seq(W)
  <2>1. \A i \in 0 .. m + n : f[i] \in W
    OBVIOUS
  <2> HIDE DEF W
  <2>2. a \in [1 .. m -> W] /\ b \in [1 .. n -> W] /\ c \in [1 .. m + n -> W]
    BY <2>1
  <2> QED
    BY <2>2, SeqDef, m + n \in Nat
<1>2. Len(a) = m /\ Len(b) = n /\ Len(c) = m + n
  BY <1>1, LenProperties, m + n \in Nat
<1> HIDE DEF W
<1>3. /\ a \o b \in Seq(W) /\ Len(a \o b) = m + n
      /\ \A i \in 1 .. m + n : (a \o b)[i] = IF i <= m THEN a[i] ELSE b[i - m]
  <2> HIDE DEF a, b
  <2> QED
    BY <1>1, <1>2, ConcatProperties
<1>4. ASSUME NEW i \in 1 .. m + n PROVE (a \o b)[i] = c[i]
  <2>1. CASE i <= m
    <3>1. i \in 1 .. m
      BY <2>1
    <3> QED
      BY <1>3, <2>1, <3>1
  <2>2. CASE ~(i <= m)
    <3>1. i - m \in 1 .. n /\ m + (i - m) - 1 = i - 1
      BY <2>2
    <3>2. b[i - m] = f[m + (i - m) - 1]
      BY <3>1
    <3> QED
      BY <1>3, <2>2, <3>1, <3>2
  <2> QED
    BY <2>1, <2>2
<1> HIDE DEF a, b, c
<1>5. a \o b = c
  BY <1>1, <1>2, <1>3, <1>4, SeqEqual
<1> QED
  BY <1>5 DEF a, b, c

\* nachos -p reads on.
LEMMA PrintReadStore ==
    ASSUME FilesInv, StoreInv, PrintRead
    PROVE  StoreInv' /\ UNCHANGED Store!vars
<1> DEFINE bytes == ReadAt(client.hdr, TransferSize, client.position)
           n == Clipped(client.hdr, TransferSize, client.position)
<1>1. /\ client.kind = "print" /\ UNCHANGED <<disk, pending, usable>>
      /\ client' = IF bytes = <<>> THEN Idle
                   ELSE [client EXCEPT !.position = @ + Len(bytes), !.source = @ \o bytes]
  BY DEF PrintRead
<1>2. /\ DOMAIN client = CommandFields /\ usable /\ pending = <<>> /\ client.entry \in Listed
      /\ client.hdr = HeaderOf(client.entry) /\ client.position \in Nat
  BY <1>1 DEF FilesInv, ClientType, Opened, Commands
<1>3. CASE client' = Idle
  BY <1>1, <1>2, <1>3, DoneStore
<1>4. CASE client' = [client EXCEPT !.position = @ + Len(bytes), !.source = @ \o bytes] /\ bytes # <<>>
  <2>1. PICK hdr : hdr = client.hdr
    OBVIOUS
  <2>2. PICK m : m = client.position
    OBVIOUS
  <2>3. PICK k : k = n
    OBVIOUS
  <2>4. PICK f : f = [p \in Nat |-> ByteAt(hdr, p)]
    OBVIOUS
  <2>5. hdr.numBytes \in Nat /\ TransferSize \in Nat
    BY <1>2, <2>1, Running, FileSystemAssumption DEF DiskOK, FilesOK, FileOK
  <2>6. k \in Nat /\ m \in Nat /\ (k > 0 => m + k <= hdr.numBytes)
    BY <1>2, <2>1, <2>2, <2>3, <2>5, ClippedFacts
  <2>7. bytes = [i \in 1 .. k |-> f[m + i - 1]]
    <3>1. \A i \in 1 .. k : f[m + i - 1] = ByteAt(hdr, m + i - 1)
      BY <2>4, <2>6
    <3>2. bytes = [i \in 1 .. k |-> ByteAt(hdr, m + i - 1)]
      BY <2>1, <2>2, <2>3 DEF ReadAt
    <3> QED
      BY <3>1, <3>2
  <2>8. Len(bytes) = k /\ k > 0
    <3>1. Len(bytes) = k
      BY <2>6, <2>7
    <3>2. k # 0
      BY <1>4, <2>7
    <3> QED
      BY <2>6, <3>1, <3>2
  <2>9. client.source = [i \in 1 .. m |-> f[i - 1]]
    <3>1. client.source = [i \in 1 .. m |-> ByteAt(hdr, i - 1)]
      BY <1>1, <2>1, <2>2 DEF StoreInv, Printed
    <3>2. \A i \in 1 .. m : f[i - 1] = ByteAt(hdr, i - 1)
      BY <2>4, <2>6
    <3> QED
      BY <3>1, <3>2
  <2>10. client.source \o bytes = [i \in 1 .. m + k |-> f[i - 1]]
    BY <2>6, <2>7, <2>9, Appended
  <2> HIDE DEF bytes, n
  <2>11. /\ client'.kind = "print" /\ client'.name = client.name /\ client'.entry = client.entry
         /\ client'.hdr = hdr /\ client'.position = m + k
         /\ client'.source = client.source \o bytes
    BY <1>1, <1>2, <1>4, <2>1, <2>2, <2>8 DEF CommandFields
  <2>12. \A p : ByteAt(hdr, p)' = ByteAt(hdr, p)
    BY <1>1 DEF ByteAt, ByteToSector
  <2>13. client'.source = [i \in 1 .. m + k |-> ByteAt(hdr, i - 1)']
    <3>1. \A i \in 1 .. m + k : f[i - 1] = ByteAt(hdr, i - 1)'
      BY <2>4, <2>6, <2>12
    <3> QED
      BY <2>10, <2>11, <3>1
  <2>14. NameOf(client.entry)' = client.name
    <3>1. client.name = NameOf(client.entry)
      BY <1>1 DEF StoreInv, Printed
    <3>2. PICK e : e = client.entry
      OBVIOUS
    <3>3. NameOf(e)' = NameOf(e)
      BY <1>1, SameDisk
    <3> QED
      BY <2>11, <3>1, <3>2, <3>3 DEF NameOf
  <2>15. Printed'
    <3>1. client'.name = NameOf(client.entry)' /\ client'.position <= client'.hdr.numBytes
      BY <2>6, <2>8, <2>11, <2>14
    <3>2. \A i : ByteAt(client.hdr, i - 1)' = ByteAt(hdr, i - 1)'
      BY <2>11 DEF ByteAt, ByteToSector
    <3>3. client'.source = [i \in 1 .. client'.position |-> ByteAt(client.hdr, i - 1)']
      BY <2>11, <2>13, <3>2
    <3> QED
      BY <3>1, <3>3 DEF Printed
  <2>16. NewName' /\ Chunk'
    BY <2>11 DEF NewName, Chunk
  <2> QED
    BY <1>1, <1>2, <2>15, <2>16, NothingPending DEF StoreInv
<1> QED
  BY <1>1, <1>3, <1>4

\* The sector of a byte of a file
LEMMA ByteSector ==
    ASSUME NEW hdr, NEW s, FileOK(hdr, s), NEW p \in 0 .. hdr.numBytes - 1
    PROVE  /\ p \div SectorSize \in Nat /\ 1 + p \div SectorSize \in DOMAIN hdr.dataSectors
           /\ p % SectorSize \in 0 .. SectorSize - 1
           /\ ByteToSector(hdr, p) \in {hdr.dataSectors[i] : i \in DOMAIN hdr.dataSectors}
<1>1. hdr.numBytes \in Nat /\ p \in Nat /\ p + 1 <= hdr.numBytes /\ SectorSize \in Nat \ {0}
      /\ DOMAIN hdr.dataSectors = 1 .. SectorsFor(hdr.numBytes)
  BY FileSystemAssumption, LenProperties DEF FileOK
<1>2. p \div SectorSize \in Nat /\ p % SectorSize \in 0 .. SectorSize - 1
  BY <1>1, DivMod
<1>3. (p \div SectorSize) + 1 <= SectorsFor(hdr.numBytes) /\ SectorsFor(hdr.numBytes) \in Nat
  <2>1. 1 \in Nat \ {0} /\ (p + 1) - 1 = p
    BY <1>1
  <2> QED
    BY <1>1, <2>1, RangeSectors
<1>4. 1 + p \div SectorSize \in DOMAIN hdr.dataSectors
  BY <1>1, <1>2, <1>3
<1> QED
  BY <1>2, <1>4 DEF ByteToSector

\* The byte at a place of the q-th sector
LEMMA PlaceInSector ==
    ASSUME NEW p \in Nat, NEW q \in Nat, p \div SectorSize = q
    PROVE  /\ q * SectorSize + (p % SectorSize) = p /\ p % SectorSize \in 0 .. SectorSize - 1
           /\ q * SectorSize \in Nat /\ (q + 1) * SectorSize \in Nat
           /\ q * SectorSize <= p /\ p < (q + 1) * SectorSize
<1>1. SectorSize \in Nat \ {0}
  BY FileSystemAssumption
<1>2. p % SectorSize \in Nat /\ p % SectorSize < SectorSize /\ p = q * SectorSize + (p % SectorSize)
  BY <1>1, DivMod
<1>3. q * SectorSize \in Nat /\ (q + 1) * SectorSize = q * SectorSize + SectorSize
  BY <1>1
<1> QED
  BY <1>1, <1>2, <1>3

\* What WriteAt writes: the sectors of the range, whole, with the bytes of the
\* buffer in the range and what the file has outside.
Transfers(w, hdr, from, position, end) ==
    \A i \in 1 .. Len(w) :
        \E q \in position \div SectorSize .. (end - 1) \div SectorSize :
            /\ q + 1 \in DOMAIN hdr.dataSectors
            /\ w[i].sector = hdr.dataSectors[q + 1] /\ w[i].contents.kind = "data"
            /\ \A p \in 0 .. hdr.numBytes - 1 :
                  p \div SectorSize = q =>
                      w[i].contents.bytes[p % SectorSize] =
                          IF p \in position .. end - 1 THEN from[p - position + 1]
                          ELSE ByteAt(hdr, p)

LEMMA WriteAtBrings ==
    ASSUME NEW hdr, NEW s, FileOK(hdr, s), NEW position \in Nat,
           NEW from, Len(from) \in Nat,
           NEW n, n = Clipped(hdr, Len(from), position), n # 0,
           NEW w, w = WriteAt(hdr, from, position)
    PROVE  Transfers(w, hdr, from, position, position + n)
<1> DEFINE end == position + n
           first == position \div SectorSize
           last == (end - 1) \div SectorSize
           aligned == position = first * SectorSize
           ends == end = (last + 1) * SectorSize
           kept == Kept(first, last, aligned, ends)
           byte(p) == IF p \in position .. end - 1 THEN from[p - position + 1]
                      ELSE IF p \div SectorSize \in kept /\ p < hdr.numBytes THEN ByteAt(hdr, p)
                      ELSE Junk
           write(i) == LET start == (first + i - 1) * SectorSize
                       IN  [sector |-> ByteToSector(hdr, start),
                            contents |-> Data([b \in 0 .. SectorSize - 1 |-> byte(start + b)])]
           count == last - first + 1
<1>1. w = [i \in 1 .. count |-> write(i)]
  BY DEF WriteAt
<1>2. /\ SectorSize \in Nat \ {0} /\ hdr.numBytes \in Nat
      /\ DOMAIN hdr.dataSectors = 1 .. SectorsFor(hdr.numBytes)
  BY FileSystemAssumption, LenProperties DEF FileOK
<1>3. n \in Nat \ {0} /\ position + n <= hdr.numBytes
  <2>1. n \in Nat /\ (n > 0 => position + n <= hdr.numBytes)
    BY <1>2, ClippedFacts
  <2> QED
    BY <2>1
<1>4. /\ first \in Nat /\ last \in Nat /\ first <= last
      /\ last + 1 <= SectorsFor(hdr.numBytes) /\ SectorsFor(hdr.numBytes) \in Nat
  BY <1>2, <1>3, RangeSectors
<1>5. end - 1 \in Nat /\ end \in Nat
  BY <1>3
<1> HIDE DEF byte
<1>6. ASSUME NEW i \in 1 .. count, NEW q, q = first + i - 1
      PROVE  /\ q \in first .. last /\ q + 1 \in DOMAIN hdr.dataSectors
             /\ write(i).sector = hdr.dataSectors[q + 1] /\ write(i).contents.kind = "data"
             /\ \A b \in 0 .. SectorSize - 1 :
                   write(i).contents.bytes[b] = byte(q * SectorSize + b)
  <2> HIDE DEF first, last
  <2>1. q \in first .. last /\ q \in Nat /\ q + 1 \in 1 .. SectorsFor(hdr.numBytes) /\ 1 + q = q + 1
    BY <1>4, <1>6
  <2>2. ByteToSector(hdr, q * SectorSize) = hdr.dataSectors[q + 1]
    <3>1. (q * SectorSize) \div SectorSize = q
      BY <1>2, <2>1, DivFacts
    <3> QED
      BY <2>1, <3>1 DEF ByteToSector
  <2>3. write(i) = [sector |-> ByteToSector(hdr, q * SectorSize),
                    contents |-> Data([b \in 0 .. SectorSize - 1 |-> byte(q * SectorSize + b)])]
    BY <1>6
  <2> HIDE DEF write
  <2> QED
    BY <1>2, <2>1, <2>2, <2>3 DEF Data
<1>7. ASSUME NEW p \in 0 .. hdr.numBytes - 1, NEW q \in first .. last, p \div SectorSize = q
      PROVE  byte(p) = IF p \in position .. end - 1 THEN from[p - position + 1] ELSE ByteAt(hdr, p)
  <2>1. CASE p \in position .. end - 1
    BY <2>1 DEF byte
  <2>2. CASE p \notin position .. end - 1
    <3>1. q \in kept
      <4>1. p \in Nat /\ q \in Nat
        BY <1>2, <1>4
      <4>2. q * SectorSize <= p /\ p < (q + 1) * SectorSize
            /\ q * SectorSize \in Nat /\ (q + 1) * SectorSize \in Nat
        BY <1>7, <4>1, PlaceInSector
      <4>3. CASE p < position
        <5>1. q <= first
          <6>1. p <= position
            BY <4>1, <4>3
          <6>2. p \div SectorSize <= position \div SectorSize
            BY <1>2, <4>1, <6>1, DivFacts
          <6> QED
            BY <1>7, <6>2
        <5>2. q = first
          <6> HIDE DEF first, last
          <6> QED
            BY <1>4, <4>1, <5>1
        <5>3. ~aligned
          <6>1. position # q * SectorSize
            BY <4>2, <4>3
          <6> QED
            BY <5>2, <6>1
        <5> QED
          BY <5>2, <5>3 DEF Kept
      <4>4. CASE ~(p < position)
        <5>1. end <= p /\ end - 1 <= p
          <6> HIDE DEF end
          <6> QED
            BY <1>5, <2>2, <4>1, <4>4
        <5>2. last <= q
          BY <1>2, <1>5, <1>7, <4>1, <5>1, DivFacts
        <5>3. q = last
          <6> HIDE DEF first, last
          <6> QED
            BY <1>4, <4>1, <5>2
        <5>4. ~ends
          <6>1. end # (q + 1) * SectorSize
            <7> HIDE DEF end
            <7> QED
              BY <1>5, <4>2, <5>1
          <6> QED
            BY <5>3, <6>1
        <5> HIDE DEF first, last, ends, aligned
        <5> QED
          BY <5>3, <5>4 DEF Kept
      <4> QED
        BY <4>3, <4>4
    <3>2. p < hdr.numBytes
      BY <1>2
    <3> HIDE DEF kept
    <3> QED
      BY <1>7, <2>2, <3>1, <3>2 DEF byte
  <2> QED
    BY <2>1, <2>2
<1>8. Len(w) = count /\ count \in Nat
  <2>1. count \in Nat
    <3> HIDE DEF first, last
    <3> QED
      BY <1>4
  <2> HIDE DEF count, write
  <2> QED
    BY <1>1, <2>1
<1>9. ASSUME NEW i \in 1 .. Len(w)
      PROVE  \E q \in first .. last :
                     /\ q + 1 \in DOMAIN hdr.dataSectors
                     /\ w[i].sector = hdr.dataSectors[q + 1] /\ w[i].contents.kind = "data"
                     /\ \A p \in 0 .. hdr.numBytes - 1 :
                           p \div SectorSize = q =>
                               w[i].contents.bytes[p % SectorSize] =
                                   IF p \in position .. end - 1 THEN from[p - position + 1]
                                   ELSE ByteAt(hdr, p)
  <2>1. i \in 1 .. count
    BY <1>8
  <2>2. PICK q : q = first + i - 1
    OBVIOUS
  <2>3. w[i] = write(i)
    <3> HIDE DEF count, write
    <3> QED
      BY <1>1, <2>1
  <2> HIDE DEF count
  <2>4. /\ q \in first .. last /\ q + 1 \in DOMAIN hdr.dataSectors
        /\ write(i).sector = hdr.dataSectors[q + 1] /\ write(i).contents.kind = "data"
        /\ \A b \in 0 .. SectorSize - 1 :
              write(i).contents.bytes[b] = byte(q * SectorSize + b)
    BY <1>6, <2>1, <2>2
  <2> HIDE DEF write
  <2>5. ASSUME NEW p \in 0 .. hdr.numBytes - 1, p \div SectorSize = q
        PROVE  w[i].contents.bytes[p % SectorSize] =
                                   IF p \in position .. end - 1 THEN from[p - position + 1]
                                   ELSE ByteAt(hdr, p)
    <3>1. q \in Nat /\ p \in Nat
      <4> HIDE DEF first, last
      <4> QED
        BY <1>2, <1>4, <2>4
    <3>2. q * SectorSize + (p % SectorSize) = p /\ p % SectorSize \in 0 .. SectorSize - 1
      BY <2>5, <3>1, PlaceInSector
    <3>3. w[i].contents.bytes[p % SectorSize] = byte(p)
      BY <2>3, <2>4, <3>2
    <3>4. byte(p) = IF p \in position .. end - 1 THEN from[p - position + 1] ELSE ByteAt(hdr, p)
      BY <1>7, <2>4, <2>5
    <3> QED
      BY <3>3, <3>4
  <2> QED
    BY <2>3, <2>4, <2>5
<1> QED
  BY <1>9 DEF Transfers

\* nachos -cp writes on.
LEMMA CopyWriteStore ==
    ASSUME FilesInv, StoreInv, CopyWrite
    PROVE  StoreInv' /\ UNCHANGED Store!vars
<1>1. PICK source, hdr, position :
          source = client.source /\ hdr = client.hdr /\ position = client.position
  OBVIOUS
<1> DEFINE size == Len(source)
           upTo == position + TransferSize
           b == IF upTo < size THEN upTo ELSE size
<1>2. PICK buffer : buffer = SubSeq(source, position + 1, b)
  OBVIOUS
<1>3. PICK n : n = Clipped(hdr, Len(buffer), position)
  OBVIOUS
<1>4. /\ client.kind = "copy" /\ disk' = disk /\ usable' = usable /\ pending = <<>>
      /\ position < size /\ pending' = WriteAt(hdr, buffer, position)
      /\ client' = [client EXCEPT !.position = @ + n]
  BY <1>1, <1>2, <1>3 DEF CopyWrite
<1>5. /\ DOMAIN client = CommandFields /\ usable /\ client.entry \in Listed /\ source \in Sources
      /\ hdr = HeaderOf(client.entry) /\ position \in Nat
  BY <1>1, <1>4 DEF FilesInv, ClientType, Opened, Commands
<1>6. PICK s : FileOK(hdr, s)
  BY <1>5, Running DEF DiskOK, FilesOK
<1>7. source \in Seq(0 .. 255) /\ TransferSize \in Nat \ {0} /\ size \in Nat
  BY <1>5, FileSystemAssumption, LenProperties
<1>8. b \in Nat /\ position + 1 <= b /\ b <= size
  BY <1>4, <1>5, <1>7
<1> HIDE DEF b, size
<1>9. /\ Len(buffer) = b - position
      /\ \A j \in 1 .. Len(buffer) : buffer[j] = source[position + j]
  <2>1. \A i \in position + 1 .. b : source[i] \in 0 .. 255
    <3> TAKE i \in position + 1 .. b
    <3>1. i \in 1 .. Len(source)
      BY <1>5, <1>7, <1>8 DEF size
    <3> QED
      BY <1>7, <3>1, ElementOfSeq
  <2>2. PICK a : a = position + 1
    OBVIOUS
  <2>3. a \in Int /\ b \in Int /\ a <= b /\ \A i \in a .. b : source[i] \in 0 .. 255
    BY <1>5, <1>8, <2>1, <2>2
  <2>4. /\ Len(SubSeq(source, a, b)) = b - a + 1
        /\ \A j \in 1 .. b - a + 1 : SubSeq(source, a, b)[j] = source[a + j - 1]
    BY <2>3, SubSeqProperties
  <2> QED
    BY <1>2, <1>5, <1>8, <2>2, <2>4
<1>10. Len(buffer) \in Nat
  BY <1>5, <1>8, <1>9
<1>11. n \in Nat /\ n <= Len(buffer)
  BY <1>3, <1>5, <1>6, <1>10, ClippedFacts DEF FileOK
<1>12. /\ client'.kind = "copy" /\ client'.hdr = hdr /\ client'.source = source
  BY <1>1, <1>4, <1>5 DEF CommandFields
<1>13. Chunk'
  <2>1. CASE n = 0
    <3>1. pending' = <<>>
      BY <1>3, <1>4, <2>1 DEF WriteAt
    <3> QED
      BY <3>1 DEF Chunk
  <2>2. CASE n # 0
    <3>1. PICK last : last = (position + n) - 1
      OBVIOUS
    <3>2. position \in 0 .. size - 1 /\ last \in 0 .. size - 1
      BY <1>4, <1>5, <1>7, <1>8, <1>9, <1>11, <2>2, <3>1
    <3>3. PICK w : w = WriteAt(hdr, buffer, position)
      OBVIOUS
    <3>4. \A i \in 1 .. Len(w) : \E q \in position \div SectorSize .. last \div SectorSize :
             /\ q + 1 \in DOMAIN hdr.dataSectors
             /\ w[i].sector = hdr.dataSectors[q + 1] /\ w[i].contents.kind = "data"
             /\ \A p \in 0 .. hdr.numBytes - 1 :
                   p \div SectorSize = q =>
                       w[i].contents.bytes[p % SectorSize] =
                           IF p \in position .. last THEN buffer[p - position + 1]
                           ELSE ByteAt(hdr, p)
      <4>1. Transfers(w, hdr, buffer, position, position + n)
        BY <1>3, <1>5, <1>6, <1>10, <2>2, <3>3, WriteAtBrings
      <4>2. last = (position + n) - 1
        BY <3>1
      <4> QED
        BY <4>1, <4>2, Zenon DEF Transfers
    <3>5. \A p \in position .. last : buffer[p - position + 1] = source[p + 1]
      <4> TAKE p \in position .. last
      <4>1. /\ p - position + 1 \in 1 .. Len(buffer)
            /\ position + (p - position + 1) = p + 1
        BY <1>5, <1>10, <1>11, <3>1, <3>2
      <4>2. buffer[p - position + 1] = source[position + (p - position + 1)]
        BY <1>9, <4>1
      <4> QED
        BY <4>1, <4>2
    <3>6. \A p : ByteAt(hdr, p)' = ByteAt(hdr, p)
      BY <1>4 DEF ByteAt, ByteToSector
    <3>7. \A i \in 1 .. Len(w) : \E q \in position \div SectorSize .. last \div SectorSize :
             Brings(w[i], hdr, source, q, position, last)'
      <4> TAKE i \in 1 .. Len(w)
      <4>1. PICK q \in position \div SectorSize .. last \div SectorSize :
             /\ q + 1 \in DOMAIN hdr.dataSectors
             /\ w[i].sector = hdr.dataSectors[q + 1] /\ w[i].contents.kind = "data"
             /\ \A p \in 0 .. hdr.numBytes - 1 :
                   p \div SectorSize = q =>
                       w[i].contents.bytes[p % SectorSize] =
                           IF p \in position .. last THEN buffer[p - position + 1]
                           ELSE ByteAt(hdr, p)
        BY <3>4
      <4>2. \A p \in 0 .. hdr.numBytes - 1 :
                   p \div SectorSize = q =>
                       w[i].contents.bytes[p % SectorSize] =
                           IF p \in position .. last THEN source[p + 1] ELSE ByteAt(hdr, p)'
        BY <3>5, <3>6, <4>1
      <4> QED
        BY <4>1, <4>2 DEF Brings
    <3>8. \E f, l \in 0 .. Len(source) - 1 : \A i \in 1 .. Len(w) :
             \E q \in f \div SectorSize .. l \div SectorSize : Brings(w[i], hdr, source, q, f, l)'
      BY <3>2, <3>7 DEF size
    <3>9. pending' = w
      BY <1>4, <3>3
    <3>10. \A i, q, f, l : Brings(w[i], hdr, source, q, f, l)'
                           => Brings(pending[i], client.hdr, client.source, q, f, l)'
      BY <1>12, <3>9 DEF Brings, ByteAt, ByteToSector
    <3> QED
      BY <1>12, <3>8, <3>9, <3>10 DEF Chunk
  <2> QED
    BY <2>1, <2>2
<1>14. Named' /\ files' = files
  <2>1. Listed' = Listed
    BY <1>4, <1>12, SameDisk DEF Listed, HalfWritten
  <2> QED
    BY <1>4, <2>1, Invisible DEF StoreInv
<1>15. NewName' /\ Printed'
  BY <1>12 DEF NewName, Printed
<1> QED
  BY <1>4, <1>13, <1>14, <1>15 DEF StoreInv, Store!vars

----------------------------------------------------------------------------
(* The steps that write a sector *)

\* A write elsewhere changes nothing of a file.
LEMMA Untouched ==
    ASSUME ClientType, DiskOK, NEW e \in Listed, NEW x \in Sectors, NEW c, Writes(x, c),
           x \notin FileSectors(e), SectorOf(e)' = SectorOf(e)
    PROVE  HeaderOf(e)' = HeaderOf(e) /\ BytesOf(e)' = BytesOf(e)
<1>1. PICK hdr, s : hdr = HeaderOf(e) /\ s = SectorOf(e)
  OBVIOUS
<1>2. FileOK(hdr, s) /\ FileSectors(e) = Extent(hdr, s)
  BY <1>1, HeaderPlaces DEF DiskOK, FilesOK
<1>3. Extent(hdr, s) \subseteq Sectors
  BY <1>2, ExtentPlaces
<1>4. \A y \in Extent(hdr, s) : disk'[y] = disk[y]
  BY <1>2, <1>3, Written
<1>5. HeaderOf(e)' = HeaderOf(e)
  BY <1>1, <1>4 DEF HeaderOf, Extent
<1>6. \A p \in 0 .. hdr.numBytes - 1 : ByteAt(hdr, p)' = ByteAt(hdr, p)
  <2> TAKE p \in 0 .. hdr.numBytes - 1
  <2>1. ByteToSector(hdr, p) \in Extent(hdr, s)
    BY <1>2, ByteSector DEF Extent
  <2>2. disk'[ByteToSector(hdr, p)] = disk[ByteToSector(hdr, p)]
    BY <1>4, <2>1
  <2> QED
    BY <2>2 DEF ByteAt, ByteToSector
<1>7. BytesOf(e) = [p \in 0 .. hdr.numBytes - 1 |-> ByteAt(hdr, p)]
  BY <1>1 DEF BytesOf
<1>8. BytesOf(e)' = [p \in 0 .. hdr.numBytes - 1 |-> ByteAt(hdr, p)']
  BY <1>1, <1>5 DEF BytesOf, ByteAt, ByteToSector
<1> QED
  BY <1>5, <1>6, <1>7, <1>8

\* The fields of an entry that a step leaves alone
LEMMA EntrySame ==
    ASSUME NEW e \in Entries, \A f \in Fields : f[1] = e => table'[f] = table[f]
    PROVE  InUse(e)' = InUse(e) /\ SectorOf(e)' = SectorOf(e) /\ NameOf(e)' = NameOf(e)
<1>1. /\ <<e, "inUse">>[1] = e /\ <<e, "sector">>[1] = e /\ <<e, "name">>[1] = e
  OBVIOUS
<1>2. /\ table'[<<e, "inUse">>] = table[<<e, "inUse">>]
      /\ table'[<<e, "sector">>] = table[<<e, "sector">>]
      /\ table'[<<e, "name">>] = table[<<e, "name">>]
  BY <1>1, FieldFacts, Zenon
<1> QED
  BY <1>2 DEF InUse, SectorOf, NameOf

\* The system's own sectors are in no file, and those that are clear neither.
LEMMA Elsewhere ==
    ASSUME DiskOK, NEW e \in Listed, NEW x, x \in ReservedSectors \/ x \notin marked
    PROVE  x \notin FileSectors(e)
<1>1. FileSectors(e) \subseteq marked /\ FileSectors(e) = Extent(HeaderOf(e), SectorOf(e))
      /\ FileOK(HeaderOf(e), SectorOf(e))
  BY HeaderPlaces DEF DiskOK, FilesOK
<1>2. FileSectors(e) \subseteq Sectors \ ReservedSectors
  BY <1>1, ExtentPlaces
<1> QED
  BY <1>1, <1>2

\* A write of Create or Remove that does not change what is listed
LEMMA SilentWrite ==
    ASSUME FilesInv, StoreInv, WriteSector, DiskOK, client.kind \in {"create", "remove"},
           Listed' = Listed,
           \A e \in Listed : \A f \in Fields : f[1] = e => table'[f] = table[f],
           NEW x \in Sectors, NEW c, Writes(x, c), x \in ReservedSectors \/ x \notin marked
    PROVE  StoreInv' /\ UNCHANGED Store!vars
<1>1. ClientType /\ client' = client /\ usable' = usable /\ usable
  BY SameClient DEF FilesInv, ClientType, Commands
<1>2. \A e \in Listed : NameOf(e)' = NameOf(e) /\ BytesOf(e)' = BytesOf(e)
  <2> TAKE e \in Listed
  <2>1. SectorOf(e)' = SectorOf(e) /\ NameOf(e)' = NameOf(e)
    BY EntrySame DEF Listed
  <2>2. x \notin FileSectors(e)
    BY Elsewhere
  <2> QED
    BY <1>1, <2>1, <2>2, Untouched
<1>3. Named' /\ files' = files
  BY <1>1, <1>2, SameStore DEF StoreInv
<1>4. NewName'
  <2>1. pending # <<>>
    BY DEF WriteSector
  <2> QED
    BY <1>1, <1>2, <2>1 DEF StoreInv, NewName
<1>5. Printed' /\ Chunk'
  BY <1>1 DEF Printed, Chunk
<1> QED
  BY <1>1, <1>3, <1>4, <1>5 DEF StoreInv, Store!vars

\* The writes of Create but the last: the file is not listed before.
LEMMA CreatingSilently ==
    ASSUME FilesInv, StoreInv, WriteSector, DiskOK, client.kind = "create",
           Len(pending) \in 2 .. 4, client.entry \in Entries,
           NEW s \in Sectors, NEW hdr, NEW t, NEW m, Created(s, hdr, t, m)
    PROVE  StoreInv' /\ UNCHANGED Store!vars
<1>1. ClientType /\ client' = client
  BY SameClient DEF FilesInv
<1>0. PICK n \in 2 .. 4 : n = Len(pending)
  OBVIOUS
<1>2. Len(pending') = n - 1 /\ Created(s, hdr, t, m)'
  <2>1. CASE n = 4
    BY <1>0, <1>1, <2>1, WriteHeader
  <2>2. CASE n = 3
    BY <1>0, <1>1, <2>2, WriteFirst
  <2>3. CASE n = 2
    BY <1>0, <1>1, <2>3, WriteSecond
  <2> QED
    BY <2>1, <2>2, <2>3
<1>3. /\ \A f \in Fields : f[1] # client.entry => table[f] = t[f]
      /\ \A f \in Fields : f[1] # client'.entry => table'[f] = t[f]
  BY <1>2 DEF Created
<1>4. \A f \in Fields : f[1] # client.entry => table'[f] = table[f]
  BY <1>1, <1>3
<1>5. \A e \in Entries \ {client.entry} : InUse(e)' = InUse(e)
  BY <1>4, EntrySame
<1>6. client.entry \notin Listed /\ client.entry \notin Listed'
  <2>1. Len(pending) >= 3 => ~InUse(client.entry)
    BY Zenon DEF Created
  <2>2. Len(pending') >= 3 => ~InUse(client.entry)'
    BY <1>2, Zenon DEF Created
  <2>3. Len(pending) \in 1 .. 2 \/ Len(pending) >= 3
    BY <1>0
  <2>4. Len(pending') \in 1 .. 2 \/ Len(pending') >= 3
    BY <1>2
  <2>5. client.entry \notin Listed
    BY <2>1, <2>3 DEF Listed, HalfWritten
  <2>6. client'.entry \notin Listed'
    <3>1. client'.kind = "create" /\ (Len(pending') \in 1 .. 2 \/ ~InUse(client.entry)')
      BY <1>1, <2>2, <2>4
    <3> QED
      BY <3>1 DEF Listed, HalfWritten
  <2> QED
    BY <1>1, <2>5, <2>6
<1>7. \A e \in Entries \ {client.entry} :
        (e \in Listed <=> InUse(e)) /\ (e \in Listed' <=> InUse(e)')
  BY <1>1 DEF Listed
<1>8. Listed' = Listed /\ Listed \subseteq Entries /\ Listed' \subseteq Entries
  <2>1. Listed \subseteq Entries /\ Listed' \subseteq Entries
    BY DEF Listed
  <2> QED
    BY <1>5, <1>6, <1>7, <2>1
<1>9. \E x \in Sectors : \E c : Writes(x, c) /\ (x \in ReservedSectors \/ x \notin marked)
  <2>2. n \in 1 .. 4 /\ pending = SubSeq(CreateWrites(s, hdr, t, m), 5 - n, 4)
    <3>1. pending = SubSeq(CreateWrites(s, hdr, t, m), 5 - Len(pending), 4)
      BY Zenon DEF Created
    <3> QED
      BY <1>0, <3>1
  <2>3. /\ n = 4 => Writes(s, hdr)
        /\ n = 3 => Writes(Reserved[2], Part(t, FirstPart))
        /\ n = 2 => Writes(Reserved[3], Part(t, Fields \ FirstPart))
    <3>1. Formatted /\ Len(pending) = n
      BY <1>0 DEF DiskOK
    <3> QED
      BY <2>2, <3>1, CreateNext, Zenon
  <2>4. s \notin marked
    BY DEF Created, Extent
  <2>5. /\ Reserved[2] \in Sectors /\ Reserved[3] \in Sectors
        /\ Reserved[2] \in ReservedSectors /\ Reserved[3] \in ReservedSectors
    BY ReservedFacts DEF ReservedSectors
  <2>6. n = 2 \/ n = 3 \/ n = 4
    OBVIOUS
  <2> QED
    BY <2>3, <2>4, <2>5, <2>6
<1>10. \A e \in Listed : \A f \in Fields : f[1] = e => table'[f] = table[f]
  BY <1>4, <1>6
<1> QED
  BY <1>8, <1>9, <1>10, SilentWrite

\* files changes for one name only.
LEMMA OneFile ==
    ASSUME NEW n \in Names, \A k \in Names \ {n} : files'[k] = files[k]
    PROVE  \A bytes : files'[n] = bytes => files' = [files EXCEPT ![n] = bytes]
<1> TAKE bytes
<1> HAVE files'[n] = bytes
<1>1. DOMAIN files = Names
  BY DEF files
<1>2. [files EXCEPT ![n] = bytes] = [k \in Names |-> IF k = n THEN bytes ELSE files[k]]
  BY <1>1
<1>3. [files EXCEPT ![n] = bytes] = [k \in Names |-> files'[k]]
  BY <1>2
<1> QED
  BY <1>3, FilesType

\* What other entries than n are files of
LEMMA OtherFiles ==
    ASSUME usable, usable', Named, Named', NEW n,
           Listed \ {n} = Listed' \ {n},
           \A e \in Listed \ {n} : NameOf(e)' = NameOf(e) /\ BytesOf(e)' = BytesOf(e),
           NEW k \in Names, n \in Listed => NameOf(n) # k, n \in Listed' => NameOf(n)' # k
    PROVE  files'[k] = files[k]
<1>1. CASE \E e \in Listed : NameOf(e) = k
  <2>1. PICK e \in Listed : NameOf(e) = k
    BY <1>1
  <2>2. e # n /\ e \in Listed'
    BY <2>1
  <2>3. files[k] = BytesOf(e)
    BY <2>1, FileNow
  <2>4. files'[k] = BytesOf(e)'
    BY <2>1, <2>2, FileNext
  <2> QED
    BY <2>1, <2>2, <2>3, <2>4
<1>2. CASE ~\E e \in Listed : NameOf(e) = k
  <2>1. \A e \in Listed' : NameOf(e)' # k
    BY <1>2
  <2> QED
    BY <1>2, <2>1, NoFileNow, NoFileNext
<1> QED
  BY <1>1, <1>2

\* The last write of Create: the file is there.
LEMMA CreateLast ==
    ASSUME FilesInv, StoreInv, WriteSector, DiskOK, client.kind = "create",
           Len(pending) = 1, client.entry \in Entries,
           NEW s \in Sectors, NEW hdr, NEW t, NEW m, Created(s, hdr, t, m)
    PROVE  StoreInv' /\ (NoFileIsNone => Store!Next)
<1>1. PICK n, name, source :
          n = client.entry /\ name = client.name /\ source = client.source
  OBVIOUS
<1>2. /\ ClientType /\ client' = client /\ usable' = usable /\ usable /\ pending # <<>>
      /\ n \in Entries
  BY <1>1, SameClient DEF FilesInv, ClientType, Commands
<1>3. /\ pending = SubSeq(CreateWrites(s, hdr, t, m), 5 - 1, 4)
      /\ FileOK(hdr, s) /\ disk[s] = hdr /\ hdr.numBytes = Len(source)
      /\ t[<<n, "inUse">>] = TRUE /\ t[<<n, "sector">>] = s /\ t[<<n, "name">>] = name
      /\ \A f \in Fields : table[f] = t[f]
  <2>1. 1 <= 3 /\ 1 <= 2 /\ 1 <= 1
    OBVIOUS
  <2> QED
    BY <1>1, <2>1, Zenon DEF Created
<1>4. pending' = <<>> /\ Writes(Reserved[1], Map(m))
  <2>1. Formatted /\ 1 \in 1 .. 4
    BY DEF DiskOK
  <2> QED
    BY <1>3, <2>1, CreateNext, Zenon
<1>5. Reserved[1] \in Sectors /\ Reserved[1] \in ReservedSectors
  BY ReservedFacts DEF ReservedSectors
<1>6. \A x \in Sectors \ {Reserved[1]} : disk'[x] = disk[x]
  BY <1>2, <1>4, <1>5, Written
<1>7. \A f \in Fields : table'[f] = table[f]
  <2>1. Placed' /\ disk'[Reserved[2]] = disk[Reserved[2]] /\ disk'[Reserved[3]] = disk[Reserved[3]]
    BY <1>6, ReservedFacts DEF DiskOK, Formatted, Placed, ReservedSectors
  <2> QED
    BY <2>1, TableKept DEF DiskOK
<1>8. \A e \in Entries : /\ InUse(e)' = InUse(e) /\ SectorOf(e)' = SectorOf(e)
                         /\ NameOf(e)' = NameOf(e)
  BY <1>7, EntrySame
<1>9. InUse(n) /\ SectorOf(n) = s /\ NameOf(n) = name
  BY <1>2, <1>3, FieldFacts DEF InUse, SectorOf, NameOf
<1>10. Listed = {e \in Entries : InUse(e) /\ e # n}
  BY <1>1, ListedIs DEF DiskOK
<1>11. Listed' = {e \in Entries : InUse(e)'}
  BY <1>4, EmptyPending, ListedNext
<1>12. Listed' = Listed \cup {n} /\ n \notin Listed /\ Listed' \subseteq Entries
  BY <1>2, <1>8, <1>9, <1>10, <1>11
<1>13. \A e \in Listed : NameOf(e)' = NameOf(e) /\ BytesOf(e)' = BytesOf(e)
  <2> TAKE e \in Listed
  <2>1. Reserved[1] \notin FileSectors(e)
    BY <1>5, Elsewhere
  <2>2. SectorOf(e)' = SectorOf(e) /\ NameOf(e)' = NameOf(e)
    BY <1>8, <1>10
  <2> QED
    BY <1>2, <1>4, <1>5, <2>1, <2>2, Untouched
<1>14. name \in Names /\ source \in Sources /\ \A e \in Listed : NameOf(e) # name
  BY <1>1, <1>2 DEF StoreInv, NewName
<1>15. Named'
  <2>1. \A e \in Listed : NameOf(e) \in Names /\ \A d \in Listed \ {e} : NameOf(d) # NameOf(e)
    BY <1>2 DEF StoreInv, Named
  <2> QED
    BY <1>8, <1>9, <1>12, <1>13, <1>14, <2>1 DEF Named
<1>16. HeaderOf(n)' = hdr
  <2>1. s \in Sectors /\ s # Reserved[1]
    BY <1>3, <1>5 DEF FileOK
  <2> QED
    BY <1>2, <1>3, <1>6, <1>8, <1>9, <2>1 DEF HeaderOf
<1>17. files'[name] = BytesOf(n)'
  BY <1>2, <1>8, <1>9, <1>12, <1>15, FileNext
<1>18. (NoFileIsNone => files'[name] # NoFile) /\ DOMAIN files'[name] = 0 .. Len(source) - 1
  <2>1. BytesOf(n)' = [p \in 0 .. Len(source) - 1 |-> ByteAt(HeaderOf(n), p)']
    BY <1>3, <1>16 DEF BytesOf, ByteAt, ByteToSector
  <2>2. BytesOf(n)' = [x \in DOMAIN BytesOf(n)' |-> BytesOf(n)'[x]]
    BY <2>1
  <2> QED
    BY <1>17, <2>1, <2>2 DEF NoFileIsNone
<1>19. files[name] = NoFile
  BY <1>14, NoFileNow
<1>20. \A k \in Names \ {name} : files'[k] = files[k]
  <2> TAKE k \in Names \ {name}
  <2>1. Listed \ {n} = Listed' \ {n}
    BY <1>12
  <2>2. NameOf(n)' # k /\ n \notin Listed
    BY <1>2, <1>8, <1>9, <1>12
  <2> QED
    BY <1>2, <1>13, <1>15, <2>1, <2>2, OtherFiles DEF StoreInv
<1>21. NoFileIsNone => Store!Create(name, source)
  <2>1. files' = [files EXCEPT ![name] = files'[name]]
    BY <1>14, <1>20, OneFile
  <2> QED
    BY <1>2, <1>18, <1>19, <2>1 DEF Store!Create
<1>22. NewName' /\ Printed' /\ Chunk'
  BY <1>2, <1>4 DEF NewName, Printed, Chunk
<1> QED
  BY <1>14, <1>15, <1>21, <1>22 DEF StoreInv, Store!Next

LEMMA WriteCreateStore ==
    ASSUME FilesInv, StoreInv, WriteSector, client.kind = "create"
    PROVE  StoreInv' /\ (NoFileIsNone => [Store!Next]_(Store!vars))
<1>1. DiskOK /\ pending # <<>>
  BY DEF FilesInv, DiskOK, ClientType, Commands, WriteSector
<1>2. client.entry \in Entries /\ Len(pending) \in 1 .. 4
  BY <1>1 DEF FilesInv, Creating
<1>3. PICK s \in Sectors : \E hdr, t, m : Created(s, hdr, t, m)
  BY <1>1 DEF FilesInv, Creating
<1>4. PICK hdr, t, m : Created(s, hdr, t, m)
  BY <1>3
<1>5. CASE Len(pending) = 1
  BY <1>1, <1>2, <1>4, <1>5, CreateLast
<1>6. CASE Len(pending) \in 2 .. 4
  BY <1>1, <1>2, <1>4, <1>6, CreatingSilently
<1> QED
  BY <1>2, <1>5, <1>6

\* What a write of Remove leaves of the other entries
LEMMA RemovingEntries ==
    ASSUME FilesInv, WriteSector, DiskOK, client.kind = "remove",
           client.entry \in Entries, NEW m, NEW t, Removed(m, t),
           NEW n \in 1 .. 3, n = Len(pending)
    PROVE  /\ Len(pending') = n - 1
           /\ \A f \in Fields : f[1] # client.entry => table'[f] = table[f]
           /\ \E x \in Sectors : \E c : Writes(x, c) /\ x \in ReservedSectors
<1>1. ClientType
  BY DEF FilesInv
<1>2. /\ pending = SubSeq(RemoveWrites(m, t), 4 - n, 3)
      /\ \A f \in Fields : f # <<client.entry, "inUse">> => table[f] = t[f]
  <2>1. /\ pending = SubSeq(RemoveWrites(m, t), 4 - Len(pending), 3)
        /\ \A f \in Fields : f # <<client.entry, "inUse">> => table[f] = t[f]
    BY Zenon DEF Removed
  <2> QED
    BY <2>1
<1>3. /\ Len(pending') = n - 1
      /\ n = 3 => Writes(Reserved[1], Map(m))
      /\ n = 2 => Writes(Reserved[2], Part(t, FirstPart))
      /\ n = 1 => Writes(Reserved[3], Part(t, Fields \ FirstPart))
  <2>1. Formatted /\ Len(pending) = n
    BY DEF DiskOK
  <2> QED
    BY <1>2, <2>1, RemoveNext, Zenon
<1>4. /\ Reserved[1] \in Sectors /\ Reserved[2] \in Sectors /\ Reserved[3] \in Sectors
      /\ Reserved[1] \in ReservedSectors /\ Reserved[2] \in ReservedSectors
      /\ Reserved[3] \in ReservedSectors
  BY ReservedFacts DEF ReservedSectors
<1>5. n = 1 \/ n = 2 \/ n = 3
  OBVIOUS
<1>6. \A f \in Fields : f[1] # client.entry => table[f] = t[f]
  <2>1. <<client.entry, "inUse">>[1] = client.entry
    OBVIOUS
  <2> QED
    BY <1>2, <2>1, Zenon
<1>7. ASSUME n = 3 PROVE \A f \in Fields : table'[f] = table[f]
  <2>1. \A x \in Sectors \ {Reserved[1]} : disk'[x] = disk[x]
    BY <1>1, <1>3, <1>4, <1>7, Written
  <2>2. Placed' /\ disk'[Reserved[2]] = disk[Reserved[2]] /\ disk'[Reserved[3]] = disk[Reserved[3]]
    BY <2>1, ReservedFacts DEF DiskOK, Formatted, Placed, ReservedSectors
  <2> QED
    BY <2>2, TableKept DEF DiskOK
<1>8. ASSUME n # 3 PROVE \A f \in Fields : f[1] # client.entry => table'[f] = table[f]
  <2>1. PartOf(t)
    BY <1>3, <1>5, <1>8 DEF PartOf
  <2>2. PICK e \in Entries : e = client.entry
    OBVIOUS
  <2>3. \A f \in Fields : f[1] # e => table[f] = t[f]
    BY <1>6, <2>2
  <2>4. \A f \in Fields : f[1] # e => table'[f] = table[f]
    BY <1>1, <2>1, <2>3, EntriesKept DEF DiskOK
  <2> QED
    BY <2>2, <2>4
<1>9. \E x \in Sectors : \E c : Writes(x, c) /\ x \in ReservedSectors
  BY <1>3, <1>4, <1>5
<1> QED
  BY <1>3, <1>7, <1>8, <1>9

\* The first write of Remove: the file is gone.
LEMMA RemoveFirst ==
    ASSUME FilesInv, StoreInv, WriteSector, DiskOK, client.kind = "remove",
           Len(pending) = 3, client.entry \in Entries,
           NEW m, NEW t, Removed(m, t)
    PROVE  StoreInv' /\ (NoFileIsNone => Store!Next)
<1>1. PICK n \in Entries : n = client.entry
  OBVIOUS
<1>2. ClientType /\ client' = client /\ usable' = usable /\ usable
  BY SameClient DEF FilesInv, ClientType, Commands
<1>3. PICK k \in 1 .. 3 : k = 3
  OBVIOUS
<1>4. /\ Len(pending') = 2
      /\ \A f \in Fields : f[1] # n => table'[f] = table[f]
      /\ \E x \in Sectors : \E c : Writes(x, c) /\ x \in ReservedSectors
  <2>1. k = Len(pending)
    BY <1>3
  <2>2. /\ Len(pending') = k - 1
        /\ \A f \in Fields : f[1] # client.entry => table'[f] = table[f]
        /\ \E x \in Sectors : \E c : Writes(x, c) /\ x \in ReservedSectors
    BY <2>1, RemovingEntries
  <2> QED
    BY <1>1, <1>3, <2>2
<1>5. \A e \in Entries \ {n} : /\ InUse(e)' = InUse(e) /\ SectorOf(e)' = SectorOf(e)
                               /\ NameOf(e)' = NameOf(e)
  BY <1>4, EntrySame
<1>6. InUse(n)
  BY <1>1, Zenon DEF Removed
<1>7. Listed = {e \in Entries : InUse(e)}
  <2>1. Len(pending) \notin 1 .. 2
    OBVIOUS
  <2> QED
    BY <2>1, ListedIs DEF DiskOK
<1>8. Listed' = {e \in Entries : InUse(e)' /\ e # n}
  BY <1>1, <1>2, <1>4, ListedNext
<1>9. Listed' = Listed \ {n} /\ n \in Listed /\ Listed \subseteq Entries
  BY <1>5, <1>6, <1>7, <1>8
<1>10. \A e \in Listed \ {n} : NameOf(e)' = NameOf(e) /\ BytesOf(e)' = BytesOf(e)
  <2> TAKE e \in Listed \ {n}
  <2>1. PICK x \in Sectors : \E c : Writes(x, c) /\ x \in ReservedSectors
    BY <1>4
  <2>2. PICK c : Writes(x, c)
    BY <2>1
  <2>3. x \notin FileSectors(e)
    BY <2>1, Elsewhere
  <2> QED
    BY <1>2, <1>5, <1>9, <2>2, <2>3, Untouched
<1>11. \A e \in Listed : NameOf(e) \in Names /\ \A d \in Listed \ {e} : NameOf(d) # NameOf(e)
  BY <1>2 DEF StoreInv, Named
<1>12. Named'
  BY <1>9, <1>10, <1>11 DEF Named
<1>13. PICK name \in Names : name = NameOf(n)
  BY <1>9, <1>11
<1>14. files'[name] = NoFile
  BY <1>9, <1>10, <1>11, <1>13, NoFileNext
<1>15. NoFileIsNone => files[name] # NoFile
  <2>1. files[name] = BytesOf(n)
    BY <1>2, <1>9, <1>13, FileNow DEF StoreInv
  <2>2. BytesOf(n) = [x \in DOMAIN BytesOf(n) |-> BytesOf(n)[x]]
    BY DEF BytesOf
  <2> QED
    BY <2>1, <2>2 DEF NoFileIsNone
<1>16. \A k1 \in Names \ {name} : files'[k1] = files[k1]
  <2> TAKE k1 \in Names \ {name}
  <2>1. Listed \ {n} = Listed' \ {n} /\ n \notin Listed' /\ NameOf(n) # k1
    BY <1>9, <1>13
  <2> QED
    BY <1>2, <1>10, <1>12, <2>1, OtherFiles DEF StoreInv
<1>17. NoFileIsNone => Store!Remove(name)
  BY <1>2, <1>14, <1>15, <1>16, OneFile DEF Store!Remove
<1>18. NewName' /\ Printed' /\ Chunk'
  BY <1>2 DEF NewName, Printed, Chunk
<1> QED
  BY <1>12, <1>13, <1>17, <1>18 DEF StoreInv, Store!Next

LEMMA WriteRemoveStore ==
    ASSUME FilesInv, StoreInv, WriteSector, client.kind = "remove"
    PROVE  StoreInv' /\ (NoFileIsNone => [Store!Next]_(Store!vars))
<1>1. DiskOK /\ pending # <<>> /\ client' = client
  BY SameClient DEF FilesInv, DiskOK, ClientType, Commands
<1>2. client.entry \in Entries /\ Len(pending) \in 1 .. 3
  BY <1>1 DEF FilesInv, Removing
<1>3. PICK m, t : Removed(m, t)
  BY <1>1 DEF FilesInv, Removing
<1>4. CASE Len(pending) = 3
  BY <1>1, <1>2, <1>3, <1>4, RemoveFirst
<1>5. CASE Len(pending) # 3
  <2>1. PICK n \in 1 .. 3 : n = Len(pending)
    BY <1>2
  <2>2. PICK e \in Entries : e = client.entry
    BY <1>2
  <2>3. /\ Len(pending') = n - 1
        /\ \A f \in Fields : f[1] # e => table'[f] = table[f]
        /\ \E x \in Sectors : \E c : Writes(x, c) /\ x \in ReservedSectors
    BY <1>1, <1>3, <2>1, <2>2, RemovingEntries
  <2>4. Listed = {d \in Entries : InUse(d) /\ d # e}
    <3>1. Len(pending) \in 1 .. 2
      BY <1>5, <2>1
    <3> QED
      BY <1>1, <2>2, <3>1, ListedIs DEF DiskOK
  <2>5. \A d \in Entries \ {e} : InUse(d)' = InUse(d)
    BY <2>3, EntrySame
  <2>6. e \notin Listed'
    <3>1. CASE n = 2
      <4>1. Len(pending') \in 1 .. 2
        BY <2>3, <3>1
      <4> QED
        BY <1>1, <2>2, <4>1, ListedNext
    <3>2. CASE n = 1
      <4>1. /\ pending = SubSeq(RemoveWrites(m, t), 4 - 1, 3)
            /\ t[<<e, "inUse">>] = FALSE
            /\ \A f \in Fields : f # <<e, "inUse">> => table[f] = t[f]
            /\ \A f \in FirstPart : table[f] = t[f]
        <5>1. Len(pending) = 1
          BY <2>1, <3>2
        <5> QED
          BY <1>3, <2>2, <5>1, Zenon DEF Removed
      <4>2. Writes(Reserved[3], Part(t, Fields \ FirstPart))
        <5>1. Formatted /\ Len(pending) = 1 /\ 1 \in 1 .. 3
          BY <1>1, <2>1, <3>2 DEF DiskOK
        <5> QED
          BY <4>1, <5>1, RemoveNext, Zenon
      <4>3. /\ \A f \in FirstPart : table'[f] = table[f]
            /\ \A f \in Fields \ FirstPart : table'[f] = t[f]
        <5>1. PartOf(t) /\ ClientType
          BY <4>2 DEF PartOf, FilesInv
        <5> QED
          BY <1>1, <4>2, <5>1, PartTable DEF DiskOK
      <4>4. table'[<<e, "inUse">>] = FALSE
        BY <4>1, <4>3, FieldFacts
      <4> QED
        BY <4>4 DEF Listed, InUse
    <3> QED
      BY <1>5, <2>1, <3>1, <3>2
  <2>7. \A d \in Entries \ {e} : d \in Listed' <=> InUse(d)'
    BY <1>1, <2>2 DEF Listed
  <2>8. Listed' = Listed
    <3>1. Listed' \subseteq Entries
      BY DEF Listed
    <3> QED
      BY <2>4, <2>5, <2>6, <2>7, <3>1
  <2>9. \A d \in Listed : \A f \in Fields : f[1] = d => table'[f] = table[f]
    BY <2>3, <2>4
  <2>10. StoreInv' /\ UNCHANGED Store!vars
    BY <1>1, <2>3, <2>8, <2>9, SilentWrite
  <2> QED
    BY <2>10
<1> QED
  BY <1>4, <1>5

\* The bytes of a range that are in the q-th sector are a range too.
IsRange(n, first, last, q) ==
    \E f, l \in 0 .. n - 1 : \A p \in Nat :
        p \in f .. l <=> p \in first .. last /\ p \div SectorSize = q

LEMMA SectorRange ==
    ASSUME NEW n \in Nat, NEW first \in 0 .. n - 1, NEW last \in 0 .. n - 1,
           NEW q \in first \div SectorSize .. last \div SectorSize
    PROVE  IsRange(n, first, last, q)
<1>1. SectorSize \in Nat \ {0} /\ first \in Nat /\ last \in Nat
  BY FileSystemAssumption
<1>2. /\ q \in Nat /\ first \div SectorSize <= q /\ q <= last \div SectorSize
      /\ last \div SectorSize \in Nat /\ first \div SectorSize \in Nat
  <2>1. last \div SectorSize \in Nat /\ first \div SectorSize \in Nat
    BY <1>1, DivMod
  <2> QED
    BY <2>1
<1>3. PICK low : low = q * SectorSize
  OBVIOUS
<1>4. low \in Nat /\ (q + 1) * SectorSize = low + SectorSize /\ low <= last
  <2>1. low \in Nat /\ (q + 1) * SectorSize = low + SectorSize
    BY <1>1, <1>2, <1>3
  <2>2. PICK r : r = last \div SectorSize
    OBVIOUS
  <2>3. r * SectorSize <= last
    BY <1>1, <1>2, <2>2, PlaceInSector
  <2>4. q * SectorSize <= r * SectorSize
    <3>1. PICK d \in Nat : r = q + d
      <4>1. r - q \in Nat /\ r = q + (r - q)
        BY <1>2, <2>2
      <4> QED
        BY <4>1
    <3>2. r * SectorSize = q * SectorSize + d * SectorSize /\ d * SectorSize \in Nat
      BY <1>1, <1>2, <3>1
    <3> QED
      BY <1>1, <1>2, <3>2
  <2> QED
    BY <1>1, <1>2, <1>3, <2>1, <2>2, <2>3, <2>4
<1>5. ASSUME NEW p \in Nat
      PROVE  p \div SectorSize = q <=> low <= p /\ p < low + SectorSize
  <2>1. ASSUME p \div SectorSize = q PROVE low <= p /\ p < low + SectorSize
    BY <1>2, <1>3, <1>4, <2>1, PlaceInSector
  <2>2. ASSUME low <= p, p < low + SectorSize PROVE p \div SectorSize = q
    <3>1. PICK b : b = p - low
      OBVIOUS
    <3>2. b \in Nat /\ b < SectorSize /\ p = q * SectorSize + b
      BY <1>1, <1>3, <1>4, <2>2, <3>1
    <3>3. PICK r : r = p \div SectorSize
      OBVIOUS
    <3>4. r \in Nat /\ r * SectorSize <= p /\ p < (r + 1) * SectorSize
      BY <1>1, <3>3, DivMod, PlaceInSector
    <3>5. q <= r
      <4>1. low \div SectorSize = q
        BY <1>1, <1>2, <1>3, DivFacts
      <4> QED
        BY <1>1, <1>4, <2>2, <3>3, <4>1, DivFacts
    <3>6. ASSUME q # r PROVE FALSE
      <4>1. PICK d \in Nat : r = (q + 1) + d
        <5>1. r - (q + 1) \in Nat /\ r = (q + 1) + (r - (q + 1))
          BY <1>2, <3>4, <3>5, <3>6
        <5> QED
          BY <5>1
      <4>2. r * SectorSize = (q + 1) * SectorSize + d * SectorSize /\ d * SectorSize \in Nat
        BY <1>1, <1>2, <4>1
      <4> QED
        BY <1>1, <1>4, <2>2, <3>4, <4>2
    <3> QED
      BY <3>3, <3>6
  <2> QED
    BY <2>1, <2>2
<1>6. PICK f, l : /\ f = IF first < low THEN low ELSE first
                  /\ l = IF last < low + SectorSize THEN last ELSE (low + SectorSize) - 1
  OBVIOUS
<1>7. f \in 0 .. n - 1 /\ l \in 0 .. n - 1
  BY <1>1, <1>4, <1>6
<1>8. \A p \in Nat : p \in f .. l <=> p \in first .. last /\ low <= p /\ p < low + SectorSize
  BY <1>1, <1>4, <1>6, <1>7
<1> QED
  BY <1>5, <1>7, <1>8 DEF IsRange

\* Two bytes of a file are in the same sector of the disk only if they are in
\* the same sector of the file.
LEMMA SameSector ==
    ASSUME NEW hdr, NEW s, FileOK(hdr, s), NEW q \in Nat, q + 1 \in DOMAIN hdr.dataSectors,
           NEW p \in 0 .. hdr.numBytes - 1
    PROVE  ByteToSector(hdr, p) = hdr.dataSectors[q + 1] <=> p \div SectorSize = q
<1>1. PICK r : r = p \div SectorSize
  OBVIOUS
<1>2. r \in Nat /\ 1 + r \in DOMAIN hdr.dataSectors
  BY <1>1, ByteSector
<1>3. ByteToSector(hdr, p) = hdr.dataSectors[1 + r]
  BY <1>1 DEF ByteToSector
<1>4. hdr.dataSectors[1 + r] = hdr.dataSectors[q + 1] => 1 + r = q + 1
  BY <1>2 DEF FileOK
<1>5. r = q => 1 + r = q + 1
  BY <1>2
<1>6. 1 + r = q + 1 => r = q
  BY <1>2
<1> QED
  BY <1>1, <1>3, <1>4, <1>5, <1>6
\* A write of Copy: a range of the file that is copied to gets its bytes, and
\* nothing else changes.
LEMMA WriteCopyStore ==
    ASSUME FilesInv, StoreInv, WriteSector, client.kind = "copy"
    PROVE  StoreInv' /\ (NoFileIsNone => Store!Next)
<1>1. PICK n, hdr, source, w :
          n = client.entry /\ hdr = client.hdr /\ source = client.source /\ w = pending[1]
  OBVIOUS
<1>2. PICK x : x = w.sector
  OBVIOUS
<1>3. /\ ClientType /\ DiskOK /\ pending # <<>> /\ client' = client
      /\ usable /\ usable' = usable /\ usable' /\ source \in Sources
  BY <1>1, SameClient DEF FilesInv, DiskOK, ClientType, Commands
<1>4. n \in Listed /\ hdr = HeaderOf(n) /\ FileOK(hdr, SectorOf(n))
  <2>1. n \in Listed /\ hdr = HeaderOf(n)
    BY <1>1 DEF FilesInv, Opened
  <2> QED
    BY <1>3, <2>1 DEF DiskOK, FilesOK
<1>5. /\ Len(pending) \in Nat \ {0} /\ Len(pending') = Len(pending) - 1
      /\ \A i \in 1 .. Len(pending') : i + 1 \in 1 .. Len(pending) /\ pending'[i] = pending[i + 1]
      /\ Head(pending) = w /\ 1 \in 1 .. Len(pending)
  BY <1>1, <1>3, PendingTail
<1>6. PICK first, last \in 0 .. Len(source) - 1 : \A i \in 1 .. Len(pending) :
          \E q \in first \div SectorSize .. last \div SectorSize :
              Brings(pending[i], hdr, source, q, first, last)
  BY <1>1, <1>3 DEF StoreInv, Chunk
<1>7. PICK q \in first \div SectorSize .. last \div SectorSize :
          Brings(w, hdr, source, q, first, last)
  BY <1>1, <1>5, <1>6
<1>8. /\ q + 1 \in DOMAIN hdr.dataSectors /\ x = hdr.dataSectors[q + 1]
      /\ w.contents.kind = "data"
      /\ \A p \in 0 .. hdr.numBytes - 1 :
            p \div SectorSize = q =>
                w.contents.bytes[p % SectorSize] =
                    IF p \in first .. last THEN source[p + 1] ELSE ByteAt(hdr, p)
  BY <1>2, <1>7 DEF Brings
<1>9. Len(source) \in Nat /\ q \in Nat
  <2>1. Len(source) \in Nat
    BY <1>3, FileSystemAssumption, LenProperties
  <2>2. first \div SectorSize \in Nat /\ last \div SectorSize \in Nat
    BY <2>1, FileSystemAssumption, DivMod
  <2> QED
    BY <2>1, <2>2
<1>10. x \in DataSectors(n) /\ x \in Extent(hdr, SectorOf(n)) /\ x # SectorOf(n)
  BY <1>4, <1>8 DEF DataSectors, Extent, FileOK
<1>11. x \in Sectors /\ x \notin ReservedSectors
  BY <1>4, <1>10, ExtentPlaces
<1>12. Writes(x, w.contents)
  BY <1>2, <1>5 DEF WriteSector, Writes
<1>13. disk'[x] = w.contents /\ \A y \in Sectors \ {x} : disk'[y] = disk[y]
  BY <1>3, <1>11, <1>12, Written
<1>14. /\ \A f \in Fields : table'[f] = table[f]
       /\ \A e \in Entries : InUse(e)' = InUse(e) /\ SectorOf(e)' = SectorOf(e)
  BY <1>3, <1>11, <1>13, ReservedFacts, FormattedKept DEF DiskOK
<1>15. \A e \in Entries : NameOf(e)' = NameOf(e)
  BY <1>14, EntrySame
<1>16. Listed' = Listed /\ Listed \subseteq Entries
  <2>1. client.kind \notin {"create", "remove"}
    OBVIOUS
  <2> QED
    BY <1>3, <1>14, <2>1, ListedIs, ListedNext DEF DiskOK
<1>17. Named'
  BY <1>3, <1>15, <1>16 DEF StoreInv, Named
<1>18. \A e \in Listed \ {n} : NameOf(e)' = NameOf(e) /\ BytesOf(e)' = BytesOf(e)
  <2> TAKE e \in Listed \ {n}
  <2>1. FileSectors(e) \cap FileSectors(n) = {}
    BY <1>3, <1>4 DEF DiskOK, FilesOK
  <2>2. x \notin FileSectors(e)
    BY <1>10, <2>1 DEF FileSectors
  <2>3. SectorOf(e)' = SectorOf(e) /\ NameOf(e)' = NameOf(e)
    BY <1>14, <1>15, <1>16
  <2> QED
    BY <1>3, <1>11, <1>12, <2>2, <2>3, Untouched
<1>19. HeaderOf(n)' = hdr
  BY <1>4, <1>10, <1>13, <1>14, <1>16 DEF HeaderOf, FileOK
<1>20. ASSUME NEW p \in 0 .. hdr.numBytes - 1
       PROVE  ByteAt(hdr, p)' = IF p \in first .. last /\ p \div SectorSize = q
                                THEN source[p + 1] ELSE ByteAt(hdr, p)
  <2>1. ByteToSector(hdr, p)' = ByteToSector(hdr, p)
    BY DEF ByteToSector
  <2>2. ByteToSector(hdr, p) = x <=> p \div SectorSize = q
    BY <1>4, <1>8, <1>9, SameSector
  <2>3. CASE p \div SectorSize = q
    <3>1. disk'[ByteToSector(hdr, p)] = w.contents
      BY <1>13, <2>2, <2>3
    <3>2. ByteAt(hdr, p)' = w.contents.bytes[p % SectorSize]
      BY <1>8, <2>1, <3>1 DEF ByteAt
    <3> QED
      BY <1>8, <2>3, <3>2
  <2>4. CASE p \div SectorSize # q
    <3>1. ByteToSector(hdr, p) \in Sectors
      <4>1. ByteToSector(hdr, p) \in Extent(hdr, SectorOf(n))
        BY <1>4, ByteSector DEF Extent
      <4> QED
        BY <1>4, <4>1, ExtentPlaces
    <3>2. disk'[ByteToSector(hdr, p)] = disk[ByteToSector(hdr, p)]
      BY <1>13, <2>2, <2>4, <3>1
    <3> QED
      BY <2>1, <2>4, <3>2 DEF ByteAt
  <2> QED
    BY <2>3, <2>4
<1>21. PICK f, l \in 0 .. Len(source) - 1 : \A p \in Nat :
           p \in f .. l <=> p \in first .. last /\ p \div SectorSize = q
  <2>1. IsRange(Len(source), first, last, q)
    BY <1>9, SectorRange
  <2> QED
    BY <2>1, Zenon DEF IsRange
<1>22. PICK name \in Names : name = NameOf(n)
  BY <1>3, <1>4 DEF StoreInv, Named
<1>23. files[name] = BytesOf(n) /\ files'[name] = BytesOf(n)'
  <2>1. files[name] = BytesOf(n)
    BY <1>3, <1>4, <1>22, FileNow DEF StoreInv
  <2>2. NameOf(n)' = name
    BY <1>4, <1>15, <1>16, <1>22
  <2>3. files'[NameOf(n)'] = BytesOf(n)'
    BY <1>3, <1>4, <1>16, <1>17, FileNext
  <2> QED
    BY <2>1, <2>2, <2>3
<1>24. /\ BytesOf(n) = [p \in 0 .. hdr.numBytes - 1 |-> ByteAt(hdr, p)]
       /\ BytesOf(n)' = [p \in 0 .. hdr.numBytes - 1 |-> ByteAt(hdr, p)']
  BY <1>4, <1>19 DEF BytesOf, ByteAt, ByteToSector
<1>25. files'[name] = [p \in DOMAIN files[name] |->
                          IF p \in f .. l THEN source[p + 1] ELSE files[name][p]]
  <2>1. hdr.numBytes \in Nat
    BY <1>4 DEF FileOK
  <2>2. \A p \in 0 .. hdr.numBytes - 1 :
           ByteAt(hdr, p)' = IF p \in f .. l THEN source[p + 1] ELSE ByteAt(hdr, p)
    <3> TAKE p \in 0 .. hdr.numBytes - 1
    <3>1. p \in f .. l <=> p \in first .. last /\ p \div SectorSize = q
      BY <1>21, <2>1
    <3> QED
      BY <1>20, <3>1
  <2> QED
    BY <1>23, <1>24, <2>2
<1>26. NoFileIsNone => files[name] # NoFile
  <2>1. BytesOf(n) = [y \in DOMAIN BytesOf(n) |-> BytesOf(n)[y]]
    BY DEF BytesOf
  <2> QED
    BY <1>23, <2>1 DEF NoFileIsNone
<1>27. \A k \in Names \ {name} : files'[k] = files[k]
  <2> TAKE k \in Names \ {name}
  <2>1. NameOf(n) # k /\ NameOf(n)' # k
    BY <1>4, <1>15, <1>16, <1>22
  <2> QED
    BY <1>3, <1>16, <1>17, <1>18, <2>1, OtherFiles DEF StoreInv
<1>28. NoFileIsNone => Store!Write(name, source, f, l)
  <2>1. \A bytes : files'[name] = bytes => files' = [files EXCEPT ![name] = bytes]
    BY <1>27, OneFile
  <2>2. files' = [files EXCEPT ![name] =
                     [p \in DOMAIN files[name] |->
                         IF p \in f .. l THEN source[p + 1] ELSE files[name][p]]]
    BY <1>25, <2>1
  <2> QED
    BY <1>3, <1>26, <2>2 DEF Store!Write
<1>29. Chunk'
  <2>1. ASSUME NEW i \in 1 .. Len(pending')
        PROVE  \E r \in first \div SectorSize .. last \div SectorSize :
                   Brings(pending[i], hdr, source, r, first, last)'
    <3>1. i + 1 \in 1 .. Len(pending) /\ pending'[i] = pending[i + 1]
      BY <1>5
    <3>2. PICK v : v = pending[i + 1]
      OBVIOUS
    <3>3. PICK r \in first \div SectorSize .. last \div SectorSize :
              Brings(v, hdr, source, r, first, last)
      BY <1>6, <3>1, <3>2
    <3>4. \A p \in 0 .. hdr.numBytes - 1 :
              p \div SectorSize = r =>
                  v.contents.bytes[p % SectorSize] =
                      IF p \in first .. last THEN source[p + 1] ELSE ByteAt(hdr, p)'
      BY <1>20, <3>3 DEF Brings
    <3>5. Brings(v, hdr, source, r, first, last)'
      BY <3>3, <3>4 DEF Brings
    <3> QED
      BY <3>1, <3>2, <3>5 DEF Brings
  <2>2. \A i, r : Brings(pending[i], hdr, source, r, first, last)'
                  => Brings(pending[i], client.hdr, client.source, r, first, last)'
    BY <1>1, <1>3 DEF Brings, ByteAt, ByteToSector
  <2>3. \E a, b \in 0 .. Len(source) - 1 : \A i \in 1 .. Len(pending') :
            \E r \in a \div SectorSize .. b \div SectorSize :
                Brings(pending[i], client.hdr, client.source, r, a, b)'
    <3>1. \A i \in 1 .. Len(pending') :
             \E r \in first \div SectorSize .. last \div SectorSize :
                Brings(pending[i], client.hdr, client.source, r, first, last)'
      BY <2>1, <2>2
    <3> QED
      BY <3>1, Zenon
  <2>4. client'.source = source
    BY <1>1, <1>3
  <2> QED
    BY <2>3, <2>4 DEF Chunk
<1>30. NewName' /\ Printed'
  BY <1>3 DEF NewName, Printed
<1> QED
  BY <1>3, <1>17, <1>22, <1>28, <1>29, <1>30 DEF StoreInv, Store!Next
\* A write of FileSystem(TRUE): the disk is not yet usable.
LEMMA WriteFormatStore ==
    ASSUME FilesInv, StoreInv, WriteSector, client.kind = "format"
    PROVE  StoreInv' /\ UNCHANGED Store!vars
<1>1. ~usable /\ client' = client /\ usable' = usable
  BY SameClient DEF FilesInv, ClientType
<1>2. StoreInv'
  BY <1>1 DEF StoreInv, Named, NewName, Printed, Chunk
<1> QED
  BY <1>1, <1>2, NoFiles DEF Store!vars

LEMMA WriteSectorStore ==
    ASSUME FilesInv, StoreInv, WriteSector
    PROVE  StoreInv' /\ (NoFileIsNone => [Store!Next]_(Store!vars))
<1>1. client.kind \in {"format", "create", "copy", "remove"}
  BY SameClient DEF FilesInv, ClientType, Commands
<1> QED
  BY <1>1, WriteFormatStore, WriteCreateStore, WriteCopyStore, WriteRemoveStore

----------------------------------------------------------------------------
(* Every step is a step of the abstract store, or invisible to it *)

LEMMA InitStore == Init => StoreInv /\ Store!Init
<1> SUFFICES ASSUME Init PROVE StoreInv /\ Store!Init
  OBVIOUS
<1>1. client.kind = "idle" /\ usable = FALSE
  BY DEF Init, Idle, Command
<1>2. StoreInv
  BY <1>1 DEF StoreInv, Named, NewName, Printed, Chunk
<1> QED
  BY <1>1, <1>2, NoFiles DEF Store!Init

LEMMA StutterStore ==
    ASSUME StoreInv, UNCHANGED vars
    PROVE  StoreInv' /\ UNCHANGED Store!vars
<1>1. disk' = disk /\ pending' = pending /\ client' = client /\ usable' = usable
  BY DEF vars
<1>2. Listed' = Listed
  BY <1>1, SameDisk DEF Listed, HalfWritten
<1>3. Named' /\ files' = files
  BY <1>1, <1>2, Invisible DEF StoreInv
<1>4. NewName'
  BY <1>1, <1>2, SameDisk DEF StoreInv, NewName
<1>5. \A h, p : ByteAt(h, p)' = ByteAt(h, p)
  BY <1>1 DEF ByteAt, ByteToSector
<1>6. Printed'
  <2>1. PICK e : e = client.entry
    OBVIOUS
  <2>2. NameOf(client.entry)' = NameOf(client.entry)
    <3>1. NameOf(e)' = NameOf(e)
      BY <1>1, SameDisk
    <3> QED
      BY <1>1, <2>1, <3>1 DEF NameOf
  <2>3. \A i : ByteAt(client.hdr, i - 1)' = ByteAt(client.hdr, i - 1)
    BY <1>1 DEF ByteAt, ByteToSector
  <2> QED
    BY <1>1, <2>2, <2>3 DEF StoreInv, Printed
<1>7. Chunk'
  <2>1. \A w, h, source, q, f, l :
            Brings(w, h, source, q, f, l)' <=> Brings(w, h, source, q, f, l)
    BY <1>5 DEF Brings
  <2>2. PICK p, h, source : p = pending /\ h = client.hdr /\ source = client.source
    OBVIOUS
  <2>3. ASSUME client.kind = "copy", pending # <<>>
        PROVE  \E f, l \in 0 .. Len(source) - 1 : \A i \in 1 .. Len(p) :
                   \E q \in f \div SectorSize .. l \div SectorSize :
                       Brings(p[i], h, source, q, f, l)
    BY <2>2, <2>3 DEF StoreInv, Chunk
  <2>4. ASSUME client.kind = "copy", pending # <<>>
        PROVE  \E f, l \in 0 .. Len(source) - 1 : \A i \in 1 .. Len(p) :
                   \E q \in f \div SectorSize .. l \div SectorSize :
                       Brings(p[i], h, source, q, f, l)'
    BY <2>1, <2>3, <2>4, Zenon
  <2>5. p = pending' /\ h = client'.hdr /\ source = client'.source
    BY <1>1, <2>2
  <2>6. \A i, q, f, l : Brings(p[i], h, source, q, f, l)'
                        => Brings(pending[i], client.hdr, client.source, q, f, l)'
    BY <2>5 DEF Brings, ByteAt, ByteToSector
  <2> QED
    BY <1>1, <2>4, <2>5, <2>6 DEF Chunk
<1> QED
  BY <1>1, <1>3, <1>4, <1>6, <1>7 DEF StoreInv, Store!vars

LEMMA StoreStep ==
    ASSUME FilesInv, StoreInv, [Next]_vars
    PROVE  StoreInv' /\ (NoFileIsNone => [Store!Next]_(Store!vars))
<1>1. CASE Format
  BY <1>1, FormatStore DEF Store!Next
<1>2. CASE FormatDone
  BY <1>2, FormatDoneStore DEF Store!Next
<1>3. ASSUME NEW n \in Names, NEW source \in Sources, Create(n, source)
      PROVE  StoreInv' /\ (NoFileIsNone => [Store!Next]_(Store!vars))
  BY <1>3, CreateStore
<1>4. ASSUME NEW n \in Names, PrintOpen(n)
      PROVE  StoreInv' /\ (NoFileIsNone => [Store!Next]_(Store!vars))
  <2>1. usable /\ client = Idle /\ UNCHANGED <<disk, pending, usable>> /\ Open(n, "print", <<>>)
    BY <1>4 DEF PrintOpen
  <2>2. pending = <<>>
    BY <2>1, Idleness DEF FilesInv, ClientType
  <2> QED
    BY <2>1, <2>2, OpenStore
<1>5. ASSUME NEW n \in Names, Remove(n)
      PROVE  StoreInv' /\ (NoFileIsNone => [Store!Next]_(Store!vars))
  BY <1>5, RemoveStore
<1>6. CASE CopyOpen
  <2>1. /\ client.kind = "create" /\ pending = <<>> /\ UNCHANGED <<disk, pending, usable>>
        /\ Open(client.name, "copy", client.source)
    BY <1>6 DEF CopyOpen
  <2>2. usable
    BY <2>1 DEF FilesInv, ClientType, Commands
  <2> QED
    BY <2>1, <2>2, OpenStore
<1>7. CASE CopyWrite
  BY <1>7, CopyWriteStore
<1>8. CASE CopyDone
  BY <1>8, DoneStore DEF CopyDone
<1>9. CASE PrintRead
  BY <1>9, PrintReadStore
<1>10. CASE RemoveDone
  BY <1>10, DoneStore DEF RemoveDone
<1>11. CASE WriteSector
  BY <1>11, WriteSectorStore
<1>12. CASE Crash
  BY <1>12, CrashStore
<1>13. CASE UNCHANGED vars
  BY <1>13, StutterStore
<1> QED
  BY <1>1, <1>2, <1>3, <1>4, <1>5, <1>6, <1>7, <1>8, <1>9, <1>10, <1>11, <1>12, <1>13 DEF Next

LEMMA StoreInvAlways == Spec => [](FilesInv /\ StoreInv)
<1>1. Init => FilesInv /\ StoreInv
  BY InitFiles, InitStore
<1>2. FilesInv /\ StoreInv /\ [Next]_vars => (FilesInv /\ StoreInv)'
  BY FilesStep, StoreStep
<1> QED
  BY <1>1, <1>2, PTL DEF Spec

\* What is printed is in the file.
LEMMA PrintedInFile ==
    ASSUME FilesInv, StoreInv
    PROVE  PrintsFile
<1> SUFFICES ASSUME client.kind = "print", NEW p \in 1 .. client.position
             PROVE  client.source[p] = files[client.name][p - 1]
  BY DEF PrintsFile
<1>1. PICK e, hdr, position, name :
          e = client.entry /\ hdr = client.hdr /\ position = client.position /\ name = client.name
  OBVIOUS
<1>2. usable /\ e \in Listed /\ hdr = HeaderOf(e) /\ position \in Nat
  BY <1>1 DEF FilesInv, ClientType, Opened, Commands
<1>3. /\ name = NameOf(e) /\ position <= hdr.numBytes
      /\ client.source = [i \in 1 .. position |-> ByteAt(hdr, i - 1)]
  BY <1>1 DEF StoreInv, Printed
<1>4. files[name] = BytesOf(e)
  BY <1>2, <1>3, FileNow DEF StoreInv
<1>5. hdr.numBytes \in Nat
  BY <1>2, Running DEF DiskOK, FilesOK, FileOK
<1>6. p \in 1 .. position /\ p - 1 \in 0 .. hdr.numBytes - 1
  BY <1>1, <1>2, <1>3, <1>5
<1>7. files[name][p - 1] = ByteAt(hdr, p - 1)
  BY <1>2, <1>4, <1>6 DEF BytesOf
<1>8. client.source[p] = ByteAt(hdr, p - 1)
  BY <1>3, <1>6
<1> QED
  BY <1>1, <1>7, <1>8

\* FileSystem.PrintsFile: what nachos -p has printed is what the file holds, from
\* its first byte on, wherever its sectors are.
THEOREM PrintsFileCorrect == Spec => []PrintsFile
BY StoreInvAlways, PrintedInFile, PTL

\* The file system implements FileStore: Create, Remove, Copy and the format take
\* effect at one of their writes, a write to a file changes the bytes it is about
\* and no others, of no other file, and nachos may stop between any two writes
\* but those of HalfWritten.
THEOREM StoreImplemented ==
    ASSUME NoFileIsNone
    PROVE  Spec => ImplementsFileStore
<1>1. Init => Store!Init
  BY InitStore
<1>2. FilesInv /\ StoreInv /\ [Next]_vars => [Store!Next]_(Store!vars)
  BY StoreStep
<1> QED
  BY <1>1, <1>2, StoreInvAlways, PTL DEF Spec, ImplementsFileStore, Store!Spec
=============================================================================
