----------------------------- MODULE SynchDisk -----------------------------
(***************************************************************************)
(* The simulated disk (disk.cc): seek, rotation and track buffer, one      *)
(* request at a time and an interrupt when it is done; and SynchDisk       *)
(* (synchdisk.cc), whose calls return when the disk has interrupted.       *)
(* Lock::Acquire and Lock::Release are empty in synch.cc: they do nothing  *)
(* here either.                                                            *)
(***************************************************************************)
EXTENDS Integers, FiniteSets, Sequences

CONSTANTS Threads,          \* the threads that use the disk
          SectorsPerTrack,
          NumTracks,
          SeekTime,         \* ticks to seek past one track
          RotationTime,     \* ticks to rotate past one sector
          MaxTicks          \* bound on the time modelled

ASSUME DiskAssumption ==
    /\ {SectorsPerTrack, NumTracks, SeekTime, RotationTime} \subseteq Nat \ {0}
    /\ MaxTicks \in Nat

VARIABLES totalTicks,
          lastSector,       \* the sector requested last: where the head is
          bufferInit,       \* when the track buffer began to be filled
          request,          \* the pending request, or NoRequest: active
          value,            \* of the semaphore
          queue,            \* of the semaphore
          at,               \* [Threads -> {"running", "asleep", "woken"}]
          aborted           \* an ASSERT has failed
vars == <<totalTicks, lastSector, bufferInit, request, value, queue, at, aborted>>

Sectors == 0 .. SectorsPerTrack * NumTracks - 1

\* No thread: active is FALSE
NoRequest == [thread |-> 0, sector |-> 0, writing |-> FALSE, made |-> 0, arrived |-> 0, due |-> 0]
active == request # NoRequest

Init ==
    /\ totalTicks = 0 /\ lastSector = 0 /\ bufferInit = 0 /\ request = NoRequest
    /\ value = 0 /\ queue = <<>> /\ at = [t \in Threads |-> "running"] /\ aborted = FALSE

----------------------------------------------------------------------------
(* How long a request takes *)

Distance(a, b) == IF a < b THEN b - a ELSE a - b

\* TimeToSeek, and the rotation it returns: the rest of the sector that the head
\* arrives in the middle of
Seek(newSector) ==
    Distance(newSector \div SectorsPerTrack, lastSector \div SectorsPerTrack) * SeekTime

Rotation(seek) ==
    LET over == (totalTicks + seek) % RotationTime
    IN  IF over > 0 THEN RotationTime - over ELSE 0

ModuloDiff(to, from) ==
    ((to % SectorsPerTrack) - (from % SectorsPerTrack) + SectorsPerTrack) % SectorsPerTrack

\* The sector has passed the head since the track buffer began to be filled.
\* (Slip: or it is about to.)
AlmostInTrackBuffer(newSector, timeAfter) ==
    (timeAfter - bufferInit) \div RotationTime
        >= ModuloDiff(newSector, bufferInit \div RotationTime)
InTrackBuffer(newSector, timeAfter) ==
    (timeAfter - bufferInit) \div RotationTime
        > ModuloDiff(newSector, bufferInit \div RotationTime)

ComputeLatency(newSector, writing) ==
    LET seek == Seek(newSector)
        rotation == Rotation(seek)
        timeAfter == totalTicks + seek + rotation
    IN  IF ~writing /\ seek = 0 /\ InTrackBuffer(newSector, timeAfter)
        THEN RotationTime
        ELSE seek + rotation + RotationTime
             + ModuloDiff(newSector, timeAfter \div RotationTime) * RotationTime

\* What UpdateLast makes of bufferInit: a seek discards the track buffer.
BufferInit(newSector) ==
    LET seek == Seek(newSector)
    IN  IF seek # 0 THEN totalTicks + seek + Rotation(seek) ELSE bufferInit

----------------------------------------------------------------------------
(* SynchDisk *)

\* Semaphore::P, until it sleeps or returns
\* (Slip: a token that is there is not taken.)
PTakesNothing(t, v) ==
    /\ value' = v
    /\ IF v = 0 THEN queue' = Append(queue, t) /\ at' = [at EXCEPT ![t] = "asleep"]
       ELSE queue' = queue /\ at' = [at EXCEPT ![t] = "running"]
P(t, v) ==
    IF v = 0
    THEN value' = v /\ queue' = Append(queue, t) /\ at' = [at EXCEPT ![t] = "asleep"]
    ELSE value' = v - 1 /\ queue' = queue /\ at' = [at EXCEPT ![t] = "running"]

\* ReadSector and WriteSector: a request, then P, without a tick in between.
Call(t, sector, writing) ==
    /\ ~aborted /\ at[t] = "running" /\ ~active
    /\ request' = [thread |-> t, sector |-> sector, writing |-> writing,
                   made |-> totalTicks, arrived |-> totalTicks + Seek(sector),
                   due |-> totalTicks + ComputeLatency(sector, writing)]
    /\ bufferInit' = BufferInit(sector)
    /\ lastSector' = sector
    /\ P(t, value)
    /\ UNCHANGED <<totalTicks, aborted>>

\* ASSERT(!active) in ReadRequest and WriteRequest
CallActive(t) ==
    /\ ~aborted /\ at[t] = "running" /\ active
    /\ aborted' = TRUE
    /\ UNCHANGED <<totalTicks, lastSector, bufferInit, request, value, queue, at>>

\* Disk::HandleInterrupt and SynchDisk::RequestDone, which does V
HandleInterrupt ==
    /\ ~aborted /\ active /\ totalTicks >= request.due
    /\ request' = NoRequest
    /\ value' = value + 1
    /\ IF queue = <<>> THEN UNCHANGED <<queue, at>>
       ELSE queue' = Tail(queue) /\ at' = [at EXCEPT ![Head(queue)] = "woken"]
    /\ UNCHANGED <<totalTicks, lastSector, bufferInit, aborted>>

\* A woken thread runs, and looks at value again.
Resume(t) ==
    /\ ~aborted /\ at[t] = "woken"
    /\ P(t, value)
    /\ UNCHANGED <<totalTicks, lastSector, bufferInit, request, aborted>>

\* Time passes; the interrupt may come late.
Tick ==
    /\ ~aborted /\ totalTicks < MaxTicks
    /\ totalTicks' = totalTicks + 1
    /\ UNCHANGED <<lastSector, bufferInit, request, value, queue, at, aborted>>

Terminated == (aborted \/ totalTicks = MaxTicks) /\ UNCHANGED vars

Next ==
    \/ \E t \in Threads :
        \/ \E sector \in Sectors, writing \in BOOLEAN : Call(t, sector, writing)
        \/ CallActive(t) \/ Resume(t)
    \/ HandleInterrupt \/ Tick \/ Terminated

Spec == Init /\ [][Next]_vars

----------------------------------------------------------------------------
(* Properties *)

\* The sector passes the head, from its first bit to its last, in from .. until:
\* the disk turns by one sector in RotationTime.
Passes(sector, from, until) ==
    \E k \in from \div RotationTime .. until \div RotationTime :
        /\ k % SectorsPerTrack = sector % SectorsPerTrack
        /\ from <= k * RotationTime /\ (k + 1) * RotationTime <= until

\* A request is done when its sector has passed the head on its track, not
\* before and not a rotation later.  A write waits for that to happen after the
\* head has arrived; a read may find that it happened since the track buffer
\* began to be filled.
Timely ==
    active =>
        /\ Passes(request.sector,
                  IF request.writing THEN request.arrived ELSE bufferInit, request.due)
        /\ ~Passes(request.sector, request.arrived, request.due - 1)

\* Whoever waits in P waits for a request that is pending, or its interrupt has
\* come: no interrupt is lost and none is counted twice, even if one thread takes
\* the token meant for another.
TokensMatch ==
    /\ Cardinality({t \in Threads : at[t] # "running"}) = value + (IF active THEN 1 ELSE 0)
    /\ value > 0 => \E t \in Threads : at[t] = "woken"

\* "Return only after the data has been read" (written), synchdisk.cc:65 and 84:
\* the thread of the pending request is still in its call.
ReturnsWhenDone == active => at[request.thread] # "running"
=============================================================================
