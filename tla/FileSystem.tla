----------------------------- MODULE FileSystem -----------------------------
(***************************************************************************)
(* The Nachos file system on its disk: FileSystem, Directory, FileHeader,  *)
(* BitMap and OpenFile, and the commands of main.cc that use it (nachos    *)
(* -f, -cp, -p, -r; fstest.cc).  The disk is written a sector at a time,   *)
(* and nachos may be stopped between any two writes.  One command runs at  *)
(* a time, as the code asks for.                                           *)
(***************************************************************************)
EXTENDS Integers, FiniteSets, Sequences

CONSTANTS Names,          \* file names: what strncmp sees, their first 9 characters
          Sources,        \* the UNIX files that are copied, sequences of bytes
          NumSectors,
          SectorSize,
          NumDirEntries,
          Straddler,      \* the directory entry whose name is in another sector
                          \* than its inUse and sector: 6 of 10
          NumDirect,      \* the data sectors a header has room for
          TransferSize,   \* the bytes of one Write or Read of fstest.cc
          NoName,         \* what a new directory has for a name
          Junk,           \* what a new buffer has for a byte
          NoFile          \* no such file

Sectors == 0 .. NumSectors - 1
FreeMapSector == 0
DirectorySector == 1

\* The map fills one sector and the directory two; create does not check that
\* a file's header has room for its sectors, so the files are small enough.
ASSUME FileSystemAssumption ==
    /\ NumSectors \in 5 .. NumSectors /\ SectorSize \in Nat \ {0}
    /\ TransferSize \in Nat \ {0} /\ Sources \subseteq Seq(0 .. 255)
    /\ NumDirEntries \in Nat \ {0} /\ Straddler \in 0 .. NumDirEntries - 1
    /\ NoName \notin Names
    /\ \A s \in Sources : Len(s) <= NumDirect * SectorSize

VARIABLES disk,       \* [Sectors -> contents]
          pending,    \* the sectors the current operation has still to write, in order
          client,     \* the command that runs, see below
          usable      \* the disk is formatted, and nachos never stopped with
                      \* directory and map half written
vars == <<disk, pending, client, usable>>

----------------------------------------------------------------------------
(* What sectors hold *)

Header(length, sectors) == [kind |-> "header", numBytes |-> length, dataSectors |-> sectors]
Map(marked) == [kind |-> "map", marked |-> marked]
Data(bytes) == [kind |-> "data", bytes |-> bytes]

\* A directory is a table of fields, in two sectors.
Entries == 0 .. NumDirEntries - 1
Fields == Entries \X {"inUse", "sector", "name"}
FirstPart == {f \in Fields : f[1] < Straddler \/ (f[1] = Straddler /\ f[2] # "name")}
Part(table, fields) == [kind |-> "directory", table |-> [f \in fields |-> table[f]]]

NewTable == [f \in Fields |->
    IF f[2] = "inUse" THEN FALSE ELSE IF f[2] = "sector" THEN 0 ELSE NoName]

----------------------------------------------------------------------------
(* Reading: FetchFrom and ByteToSector *)

\* A map sector, when the disk is formatted
MapSector == disk[FreeMapSector].dataSectors[1]
DirectorySectors == disk[DirectorySector].dataSectors

marked == disk[MapSector].marked

table == [f \in Fields |->
    disk[DirectorySectors[IF f \in FirstPart THEN 1 ELSE 2]].table[f]]
InUse(e) == table[<<e, "inUse">>]
SectorOf(e) == table[<<e, "sector">>]
NameOf(e) == table[<<e, "name">>]

ByteToSector(hdr, p) == hdr.dataSectors[1 + p \div SectorSize]

\* A sector may still hold what it held as part of another file.
ByteAt(hdr, p) ==
    LET contents == disk[ByteToSector(hdr, p)]
    IN  IF contents.kind = "data" THEN contents.bytes[p % SectorSize] ELSE Junk

\* The bytes a ReadAt or WriteAt of n bytes at position transfers
Clipped(hdr, n, position) ==
    IF n <= 0 \/ position >= hdr.numBytes THEN 0
    ELSE IF position + n > hdr.numBytes THEN hdr.numBytes - position ELSE n

\* OpenFile::ReadAt
\* (Slip: the copy starts at the beginning of the sector.)
ReadAtSector(hdr, n, position) ==
    [i \in 1 .. Clipped(hdr, n, position) |->
        ByteAt(hdr, (position \div SectorSize) * SectorSize + i - 1)]
ReadAt(hdr, n, position) ==
    [i \in 1 .. Clipped(hdr, n, position) |-> ByteAt(hdr, position + i - 1)]

----------------------------------------------------------------------------
(* Writing *)

\* The first and the last sector are read before they are written when only
\* part of them is written; what they have beyond the end of the file is not.
\* (Slip: the last sector is read only if the first is not partial.)
KeptIfOneIsPartial(first, last, firstAligned, lastAligned) ==
    IF ~firstAligned THEN {first} ELSE IF ~lastAligned THEN {last} ELSE {}
Kept(first, last, firstAligned, lastAligned) ==
    (IF ~firstAligned THEN {first} ELSE {})
    \cup (IF ~lastAligned /\ (first # last \/ firstAligned) THEN {last} ELSE {})

\* OpenFile::WriteAt: the sectors to write
WriteAt(hdr, from, position) ==
    LET n == Clipped(hdr, Len(from), position)
        end == position + n
        firstSector == position \div SectorSize
        lastSector == (end - 1) \div SectorSize
        kept == Kept(firstSector, lastSector, position = firstSector * SectorSize,
                     end = (lastSector + 1) * SectorSize)
        byte(p) == IF p \in position .. end - 1 THEN from[p - position + 1]
                   ELSE IF p \div SectorSize \in kept /\ p < hdr.numBytes THEN ByteAt(hdr, p)
                   ELSE Junk
    IN  IF n = 0 THEN <<>>
        ELSE [i \in 1 .. lastSector - firstSector + 1 |->
                LET start == (firstSector + i - 1) * SectorSize
                IN  [sector |-> ByteToSector(hdr, start),
                     contents |-> Data([b \in 0 .. SectorSize - 1 |-> byte(start + b)])]]

MapWrites(sector, m) == <<[sector |-> sector, contents |-> Map(m)]>>

DirectoryWrites(sectors, t) ==
    << [sector |-> sectors[1], contents |-> Part(t, FirstPart)],
       [sector |-> sectors[2], contents |-> Part(t, Fields \ FirstPart)] >>

HeaderWrites(sector, hdr) == <<[sector |-> sector, contents |-> hdr]>>

\* BitMap::NumClear
NumClear(m) == Cardinality(Sectors \ m)

\* BitMap::Find, n times: the first clear sectors, in order
FirstClear(m, n) ==
    [i \in 1 .. n |->
        CHOOSE s \in Sectors \ m : Cardinality({c \in Sectors \ m : c < s}) = i - 1]

\* divRoundUp(fileSize, SectorSize)
SectorsFor(length) == (length + SectorSize - 1) \div SectorSize

----------------------------------------------------------------------------
(* The commands *)

\* A command is of a kind; the other fields are those it uses.
Command(kind, name, entry, source, hdr, position) ==
    [kind |-> kind, name |-> name, entry |-> entry, source |-> source,
     hdr |-> hdr, position |-> position]
NoHeader == Header(0, <<>>)
Idle == Command("idle", NoName, 0, <<>>, NoHeader, 0)

Init ==
    /\ disk = [s \in Sectors |-> [kind |-> "blank"]]
    /\ pending = <<>> /\ client = Idle /\ usable = FALSE

\* FileSystem(TRUE): headers, then map and directory
Format ==
    /\ client = Idle
    /\ LET hdrs == {FreeMapSector, DirectorySector}
           d == FirstClear(hdrs, 3)
       IN  pending' = HeaderWrites(FreeMapSector, Header(SectorSize, <<d[1]>>))
                     \o HeaderWrites(DirectorySector, Header(2 * SectorSize, <<d[2], d[3]>>))
                     \o MapWrites(d[1], hdrs \cup {d[1], d[2], d[3]})
                     \o DirectoryWrites(<<d[2], d[3]>>, NewTable)
    /\ client' = Command("format", NoName, 0, <<>>, NoHeader, 0)
    /\ usable' = FALSE
    /\ UNCHANGED disk

FormatDone ==
    /\ client.kind = "format" /\ pending = <<>>
    /\ client' = Idle /\ usable' = TRUE
    /\ UNCHANGED <<disk, pending>>

\* Directory::FindIndex
Found(n) == {e \in Entries : InUse(e) /\ NameOf(e) = n}

\* Directory::Add: the first entry that is not in use
FreeEntry == {e \in Entries : ~InUse(e) /\ \A d \in 0 .. e - 1 : InUse(d)}

\* The map after the sectors d have been found
\* (Slip: the sectors of the data are not marked.)
MarkedHeader(d) == marked \cup {d[1]}
Marked(d) == marked \cup {d[i] : i \in DOMAIN d}

\* (Slip: the directory is written before the header.)
CreateWritesDirectoryFirst(sector, hdr, t, m) ==
    DirectoryWrites(DirectorySectors, t) \o HeaderWrites(sector, hdr) \o MapWrites(MapSector, m)
CreateWrites(sector, hdr, t, m) ==
    HeaderWrites(sector, hdr) \o DirectoryWrites(DirectorySectors, t) \o MapWrites(MapSector, m)

\* Create(n) as Copy calls it.  A failure writes nothing.
Create(n, source) ==
    /\ client = Idle /\ usable
    /\ Found(n) = {}
    /\ NumClear(marked) >= 1 + SectorsFor(Len(source))
    /\ \E e \in FreeEntry :
        LET d == FirstClear(marked, 1 + SectorsFor(Len(source)))
            hdr == Header(Len(source), Tail(d))
            t == [table EXCEPT ![<<e, "inUse">>] = TRUE, ![<<e, "name">>] = n,
                               ![<<e, "sector">>] = d[1]]
        IN  /\ pending' = CreateWrites(d[1], hdr, t, Marked(d))
            /\ client' = Command("create", n, e, source, NoHeader, 0)
    /\ UNCHANGED <<disk, usable>>

\* Copy opens the file it has created: ASSERT(openFile != NULL).
Open(n, kind, source) ==
    \E e \in Found(n) :
        client' = Command(kind, n, e, source, disk[SectorOf(e)], 0)

CopyOpen ==
    /\ client.kind = "create" /\ pending = <<>>
    /\ Open(client.name, "copy", client.source)
    /\ UNCHANGED <<disk, pending, usable>>

\* fread and Write: the next TransferSize bytes, or what there is
CopyWrite ==
    /\ client.kind = "copy" /\ pending = <<>>
    /\ client.position < Len(client.source)
    /\ LET upTo == client.position + TransferSize
           buffer == SubSeq(client.source, client.position + 1,
                            IF upTo < Len(client.source) THEN upTo ELSE Len(client.source))
       IN  /\ pending' = WriteAt(client.hdr, buffer, client.position)
           /\ client' = [client EXCEPT !.position =
                            @ + Clipped(client.hdr, Len(buffer), @)]
    /\ UNCHANGED <<disk, usable>>

CopyDone ==
    /\ client.kind = "copy" /\ pending = <<>>
    /\ client.position = Len(client.source)
    /\ client' = Idle
    /\ UNCHANGED <<disk, pending, usable>>

\* Print: what has been printed is kept in source.
PrintOpen(n) ==
    /\ client = Idle /\ usable
    /\ Open(n, "print", <<>>)
    /\ UNCHANGED <<disk, pending, usable>>

PrintRead ==
    /\ client.kind = "print"
    /\ LET bytes == ReadAt(client.hdr, TransferSize, client.position)
       IN  client' = IF bytes = <<>> THEN Idle
                     ELSE [client EXCEPT !.position = @ + Len(bytes), !.source = @ \o bytes]
    /\ UNCHANGED <<disk, pending, usable>>

\* FileSystem::Remove.  That Deallocate's assertion, the sectors are marked, holds
\* is part of MapExact.
\* (Slip: the directory is written before the map.)
RemoveWritesDirectoryFirst(m, t) ==
    DirectoryWrites(DirectorySectors, t) \o MapWrites(MapSector, m)
RemoveWrites(m, t) == MapWrites(MapSector, m) \o DirectoryWrites(DirectorySectors, t)

\* The sectors Remove clears
\* (Slip: the header's sector is not cleared.)
FreedData(sector) == {disk[sector].dataSectors[i] : i \in DOMAIN disk[sector].dataSectors}
Freed(sector) == {sector} \cup {disk[sector].dataSectors[i] : i \in DOMAIN disk[sector].dataSectors}

Remove(n) ==
    /\ client = Idle /\ usable
    /\ \E e \in Found(n) :
        /\ pending' = RemoveWrites(marked \ Freed(SectorOf(e)),
                                   [table EXCEPT ![<<e, "inUse">>] = FALSE])
        /\ client' = Command("remove", n, e, <<>>, NoHeader, 0)
    /\ UNCHANGED <<disk, usable>>

RemoveDone ==
    /\ client.kind = "remove" /\ pending = <<>>
    /\ client' = Idle
    /\ UNCHANGED <<disk, pending, usable>>

----------------------------------------------------------------------------
(* The disk, and the end of nachos *)

WriteSector ==
    /\ pending # <<>>
    /\ disk' = [disk EXCEPT ![Head(pending).sector] = Head(pending).contents]
    /\ pending' = Tail(pending)
    /\ UNCHANGED <<client, usable>>

\* Directory and map do not agree: one of them is still to be written, or is
\* written in part.
HalfWritten == client.kind \in {"create", "remove"} /\ Len(pending) \in 1 .. 2

\* nachos stops and is started again, without -f.  A disk that may be corrupt
\* is not used before it is formatted.
Crash ==
    /\ client # Idle
    /\ client' = Idle /\ pending' = <<>>
    /\ usable' = (usable /\ ~HalfWritten)
    /\ UNCHANGED disk

Next ==
    \/ Format \/ FormatDone
    \/ \E n \in Names :
        \/ \E source \in Sources : Create(n, source)
        \/ PrintOpen(n) \/ Remove(n)
    \/ CopyOpen \/ CopyWrite \/ CopyDone \/ PrintRead \/ RemoveDone
    \/ WriteSector \/ Crash

Spec == Init /\ [][Next]_vars

----------------------------------------------------------------------------
(* Properties *)

SystemSectors ==
    {FreeMapSector, DirectorySector, MapSector, DirectorySectors[1], DirectorySectors[2]}

\* The entries of files that are there: not being created or removed
Listed == {e \in Entries : InUse(e) /\ ~(HalfWritten /\ client.entry = e)}

HeaderOf(e) == disk[SectorOf(e)]
DataSectors(e) == {HeaderOf(e).dataSectors[i] : i \in DOMAIN HeaderOf(e).dataSectors}
FileSectors(e) == DataSectors(e) \cup {SectorOf(e)}

\* Every variable has its type, and what is read as a map, a directory or a
\* header was written as one.
TypeOK ==
    /\ DOMAIN disk = Sectors
    /\ \A i \in DOMAIN pending : pending[i].sector \in Sectors
    /\ client.kind \in {"idle", "format", "create", "copy", "print", "remove"}
    /\ usable \in BOOLEAN
    /\ usable =>
          /\ disk[FreeMapSector].kind = "header" /\ disk[DirectorySector].kind = "header"
          /\ disk[MapSector].kind = "map"
          /\ \A i \in 1 .. 2 : disk[DirectorySectors[i]].kind = "directory"
          /\ \A e \in Listed :
                /\ HeaderOf(e).kind = "header"
                /\ Len(HeaderOf(e).dataSectors) = SectorsFor(HeaderOf(e).numBytes)

\* No sector belongs to two files, or twice to one, or to a file and to the
\* file system, whatever was created, removed and interrupted before.
NoSharedSector ==
    usable =>
        \A e \in Listed :
            /\ Cardinality(FileSectors(e)) = 1 + Len(HeaderOf(e).dataSectors)
            /\ FileSectors(e) \cap SystemSectors = {}
            /\ \A d \in Listed \ {e} : FileSectors(e) \cap FileSectors(d) = {}

\* The map marks exactly the sectors in use whenever directory and map are not
\* half written, whatever was created, removed, refused and interrupted before;
\* so Deallocate's assertion holds.
MapExact ==
    usable /\ ~HalfWritten =>
        marked = SystemSectors \cup UNION {FileSectors(e) : e \in Listed}

\* Every marked sector is in use at every moment, half written or not: nachos
\* never leaks a sector by stopping.  (What it may do then is leave a file whose
\* sectors the map offers to others; the opposite order of the writes would
\* leak and never do that.)
NoLeak ==
    usable =>
        marked \subseteq SystemSectors
                         \cup UNION {FileSectors(e) : e \in {d \in Entries : InUse(d)}}
=============================================================================
