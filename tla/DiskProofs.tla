----------------------------- MODULE DiskProofs -----------------------------
(***************************************************************************)
(* Every request of the simulated disk is done when its sector has passed  *)
(* the head, for any geometry, seek and rotation time and any moments of   *)
(* the requests; and the semaphore of SynchDisk neither loses an interrupt *)
(* nor counts one twice, for any number of threads.                        *)
(***************************************************************************)
EXTENDS SynchDisk, FiniteSetTheorems, SequenceTheorems, TLAPS

Requests == [thread : Threads, sector : Sectors, writing : BOOLEAN, made : Nat,
             arrived : Nat, due : Nat \ {0}]

DiskType ==
    /\ totalTicks \in Nat /\ lastSector \in Sectors /\ bufferInit \in Nat
    /\ request \in Requests \cup {NoRequest}
    /\ value \in Nat /\ queue \in Seq(Threads)
    /\ at \in [Threads -> {"running", "asleep", "woken"}]
    /\ aborted \in BOOLEAN

\* The track buffer begins at a sector, and never in the future of an idle disk.
BufferOK ==
    /\ bufferInit % RotationTime = 0
    /\ bufferInit <= IF active THEN request.due ELSE totalTicks

\* The inductive strengthening of Timely.
TimelyInv == DiskType /\ BufferOK /\ Timely

-----------------------------------------------------------------------------
(* Division *)

LEMMA DivMod ==
    ASSUME NEW a \in Nat, NEW r \in Nat \ {0}
    PROVE  /\ a \div r \in Nat /\ a % r \in Nat /\ a % r < r
           /\ a = (a \div r) * r + (a % r)
OBVIOUS

LEMMA DivUnique ==
    ASSUME NEW a \in Nat, NEW r \in Nat \ {0}, NEW q \in Nat, NEW s \in Nat, s < r,
           a = q * r + s
    PROVE  a \div r = q /\ a % r = s
OBVIOUS

LEMMA Multiples ==
    ASSUME NEW r \in Nat \ {0}, NEW p \in Nat, NEW q \in Nat
    PROVE  /\ p * r \in Nat /\ (p + q) * r = p * r + q * r /\ (p + 1) * r = p * r + r
           /\ p * r < q * r => p < q
           /\ p <= q => p * r <= q * r
           /\ (p * r) \div r = p /\ (p * r) % r = 0
OBVIOUS

\* How far after m the next number is that is sector modulo s
Ahead(sector, m, s) == ((sector % s) - (m % s) + s) % s

\* The first time, from m on, that the head passes the sector
LEMMA FirstPass ==
    ASSUME NEW s \in Nat \ {0}, NEW m \in Nat, NEW sector \in Nat
    PROVE  /\ Ahead(sector, m, s) \in Nat /\ Ahead(sector, m, s) < s
           /\ (m + Ahead(sector, m, s)) % s = sector % s
           /\ \A k \in m .. m + Ahead(sector, m, s) - 1 : k % s # sector % s
<1> DEFINE d == Ahead(sector, m, s)
           a == sector % s
           b == m % s
           q == m \div s
<1>1. a \in Nat /\ a < s /\ b \in Nat /\ b < s /\ q \in Nat /\ m = q * s + b
  BY DivMod
<1> HIDE DEF a, b, q, d
<1>2. d = IF a >= b THEN a - b ELSE a - b + s
  <2>1. d = (a - b + s) % s
    BY DEF a, b, d, Ahead
  <2>2. CASE a >= b
    <3>1. a - b + s = 1 * s + (a - b) /\ a - b \in Nat /\ a - b < s /\ a - b + s \in Nat
      BY <1>1, <2>2
    <3> DEFINE x == a - b + s
               y == a - b
    <3>2. x \in Nat /\ y \in Nat /\ y < s /\ x = 1 * s + y
      BY <3>1
    <3> HIDE DEF x, y
    <3>3. x % s = y
      BY <3>2, DivUnique
    <3>4. QED
      BY <2>1, <2>2, <3>3 DEF x, y
  <2>3. CASE ~(a >= b)
    <3>1. a - b + s \in Nat /\ a - b + s < s
      BY <1>1, <2>3
    <3> DEFINE x == a - b + s
    <3>2. x \in Nat /\ x < s /\ x = 0 * s + x
      BY <3>1
    <3> HIDE DEF x
    <3>3. x % s = x
      BY <3>2, DivUnique
    <3>4. QED
      BY <2>1, <2>3, <3>3 DEF x
  <2>4. QED
    BY <2>2, <2>3
<1>3. d \in Nat /\ d < s
  BY <1>1, <1>2
<1>4. (m + d) % s = a
  <2>1. CASE a >= b
    <3>1. m + d = q * s + a /\ m + d \in Nat
      BY <1>1, <1>2, <1>3, <2>1, Multiples
    <3>2. QED
      BY <1>1, <3>1, DivUnique
  <2>2. CASE ~(a >= b)
    <3>1. m + d = (q + 1) * s + a /\ m + d \in Nat /\ q + 1 \in Nat
      BY <1>1, <1>2, <1>3, <2>2, Multiples
    <3>2. QED
      BY <1>1, <3>1, DivUnique
  <2>3. QED
    BY <2>1, <2>2
<1>5. ASSUME NEW k \in m .. m + d - 1
      PROVE  k % s # a
  <2> DEFINE j == k - m
  <2>1. j \in Nat /\ j < d /\ k = q * s + (b + j) /\ k \in Nat
    BY <1>1, <1>3
  <2> HIDE DEF j
  <2>2. CASE b + j < s
    <3> DEFINE x == b + j
    <3>1. x \in Nat /\ x < s /\ k = q * s + x
      BY <1>1, <2>1, <2>2
    <3> HIDE DEF x
    <3>2. k % s = x
      BY <1>1, <2>1, <3>1, DivUnique
    <3>3. QED
      BY <1>1, <1>2, <2>1, <3>2 DEF x
  <2>3. CASE ~(b + j < s)
    <3> DEFINE x == b + j - s
    <3>1. x \in Nat /\ x < s /\ k = (q + 1) * s + x /\ q + 1 \in Nat
      BY <1>1, <1>3, <2>1, <2>3, Multiples
    <3> HIDE DEF x
    <3>2. k % s = x
      BY <2>1, <3>1, DivUnique
    <3>3. QED
      BY <1>1, <1>2, <2>1, <2>3, <3>2 DEF x
  <2>4. QED
    BY <2>2, <2>3
<1>6. QED
  BY <1>3, <1>4, <1>5 DEF a, d

-----------------------------------------------------------------------------
(* How long a request takes *)

\* The constants, and sector 0
LEMMA ConstantFacts ==
    /\ SectorsPerTrack \in Nat \ {0} /\ NumTracks \in Nat \ {0}
    /\ SeekTime \in Nat \ {0} /\ RotationTime \in Nat \ {0}
    /\ Sectors \subseteq Nat /\ 0 \in Sectors
<1>1. /\ SectorsPerTrack \in Nat \ {0} /\ NumTracks \in Nat \ {0}
      /\ SeekTime \in Nat \ {0} /\ RotationTime \in Nat \ {0}
  BY DiskAssumption
<1>2. SectorsPerTrack * NumTracks \in Nat \ {0}
  BY <1>1
<1>3. QED
  BY <1>1, <1>2 DEF Sectors

\* When the head has reached the track, and the next sector begins
LEMMA SeekFacts ==
    ASSUME DiskType, NEW sector \in Sectors
    PROVE  /\ Seek(sector) \in Nat
           /\ Rotation(Seek(sector)) \in 0 .. RotationTime - 1
           /\ \E m \in Nat : totalTicks + Seek(sector) + Rotation(Seek(sector))
                               = m * RotationTime
<1> DEFINE R == RotationTime
           a == totalTicks + Seek(sector)
<1>1. Seek(sector) \in Nat
  <2>1. sector \div SectorsPerTrack \in Nat /\ lastSector \div SectorsPerTrack \in Nat
    BY ConstantFacts, DivMod DEF DiskType
  <2>2. \A x, y \in Nat : Distance(x, y) \in Nat
    BY DEF Distance
  <2>3. \A x \in Nat : x * SeekTime \in Nat
    BY ConstantFacts
  <2>4. QED
    BY <2>1, <2>2, <2>3 DEF Seek
<1>2. a \in Nat /\ R \in Nat \ {0}
  BY <1>1, ConstantFacts DEF DiskType
<1> HIDE DEF a, R
<1>3. a \div R \in Nat /\ a % R \in Nat /\ a % R < R /\ a = (a \div R) * R + (a % R)
  BY <1>2, DivMod
<1>4. Rotation(Seek(sector)) = IF a % R > 0 THEN R - (a % R) ELSE 0
  BY DEF Rotation, a, R
<1> DEFINE rotation == Rotation(Seek(sector))
<1>5. rotation \in 0 .. R - 1
  BY <1>2, <1>3, <1>4
<1>6. \E m \in Nat : a + rotation = m * R
  <2>1. CASE a % R > 0
    <3>1. a + rotation = (a \div R + 1) * R
      BY <1>2, <1>3, <1>4, <2>1, Multiples
    <3>2. QED
      BY <1>3, <3>1
  <2>2. CASE ~(a % R > 0)
    <3>1. a % R = 0 /\ rotation = 0
      BY <1>3, <1>4, <2>2
    <3>2. (a \div R) * R \in Nat
      BY <1>2, <1>3, Multiples
    <3> HIDE DEF rotation
    <3>3. a + rotation = (a \div R) * R
      BY <1>2, <1>3, <3>1, <3>2
    <3>4. QED
      BY <1>3, <3>3
  <2>3. QED
    BY <2>1, <2>2
<1>7. QED
  BY <1>1, <1>5, <1>6 DEF a, R

\* The numbers of a request for sector, made in this state.
TimeAfter(sector) == totalTicks + Seek(sector) + Rotation(Seek(sector))
Arrived(sector) == totalTicks + Seek(sector)
Due(sector, writing) == totalTicks + ComputeLatency(sector, writing)

\* A sector that passed the head since the buffer began is read at the next
\* sector's end.
LEMMA FromBuffer ==
    ASSUME DiskType, bufferInit % RotationTime = 0, bufferInit <= totalTicks,
           NEW sector \in Sectors, Seek(sector) = 0,
           InTrackBuffer(sector, TimeAfter(sector))
    PROVE  /\ Passes(sector, bufferInit, totalTicks + RotationTime)
           /\ ~Passes(sector, totalTicks, totalTicks + RotationTime - 1)
<1> DEFINE R == RotationTime
           S == SectorsPerTrack
           b == bufferInit \div R
           d == ModuloDiff(sector, b)
           after == TimeAfter(sector)
           until == totalTicks + R
<1>1. R \in Nat \ {0} /\ S \in Nat \ {0} /\ sector \in Nat /\ totalTicks \in Nat
      /\ bufferInit \in Nat
  BY ConstantFacts DEF DiskType
<1>2. b \in Nat /\ bufferInit = b * R
  <2>1. bufferInit \div R \in Nat /\ bufferInit = (bufferInit \div R) * R + (bufferInit % R)
    BY <1>1, DivMod
  <2>2. (bufferInit \div R) * R \in Nat
    BY <1>1, <2>1, Multiples
  <2>3. QED
    BY <2>1, <2>2
<1>3. d = Ahead(sector, b, S)
  BY DEF ModuloDiff, Ahead
<1>4. after \in Nat /\ totalTicks <= after /\ after < until
  BY <1>1, SeekFacts DEF TimeAfter
<1>5. (after - bufferInit) \div R > d
  BY DEF InTrackBuffer
<1> HIDE DEF R, S, b, d, after
<1>6. d \in Nat /\ d < S /\ (b + d) % S = sector % S
  BY <1>1, <1>2, <1>3, FirstPass
<1> DEFINE x == after - bufferInit
           q == x \div R
<1>7. x \in Nat
  BY <1>1, <1>4
<1>8. q \in Nat /\ q * R <= x /\ d + 1 <= q
  <2> HIDE DEF x
  <2>1. x \div R \in Nat /\ x % R \in Nat /\ x = (x \div R) * R + (x % R)
    BY <1>1, <1>7, DivMod
  <2>2. (x \div R) * R \in Nat
    BY <1>1, <2>1, Multiples
  <2>3. (x \div R) * R <= x
    BY <1>7, <2>1, <2>2
  <2>4. x \div R > d
    BY <1>5 DEF x
  <2>5. QED
    BY <1>6, <2>1, <2>3, <2>4
<1> HIDE DEF q
<1> DEFINE k == b + d
<1>9. k \in Nat /\ k % S = sector % S /\ bufferInit <= k * R /\ (k + 1) * R <= until
  <2>1. (d + 1) * R <= q * R /\ d * R \in Nat /\ (d + 1) * R = d * R + R
        /\ (b + d) * R = b * R + d * R /\ (b + d + 1) * R = (b + d) * R + R
        /\ b * R \in Nat /\ q * R \in Nat
    BY <1>1, <1>2, <1>6, <1>8, Multiples
  <2>2. (d + 1) * R <= x
    <3> HIDE DEF x
    <3>1. QED
      BY <1>1, <1>6, <1>7, <1>8, <2>1
  <2>3. QED
    BY <1>1, <1>2, <1>4, <1>6, <2>1, <2>2
<1> HIDE DEF k
<1>10. k \in b .. until \div R
  <2>1. b <= k
    BY <1>2, <1>6 DEF k
  <2>2. k <= until \div R
    <3>1. until \in Nat
      BY <1>1
    <3> HIDE DEF until
    <3>2. until \div R \in Nat /\ until < (until \div R + 1) * R
      <4>1. until \div R \in Nat /\ until % R < R /\ until % R \in Nat
            /\ until = (until \div R) * R + (until % R)
        BY <1>1, <3>1, DivMod
      <4>2. (until \div R + 1) * R = (until \div R) * R + R /\ (until \div R) * R \in Nat
        BY <1>1, <4>1, Multiples
      <4>3. QED
        BY <1>1, <4>1, <4>2
    <3>3. (k + 1) * R < (until \div R + 1) * R
      <4>1. (k + 1) * R \in Nat /\ (until \div R + 1) * R \in Nat
        BY <1>1, <1>9, <3>2, Multiples
      <4>2. QED
        BY <1>9, <3>1, <3>2, <4>1
    <3>4. k + 1 < until \div R + 1
      <4>1. k + 1 \in Nat /\ until \div R + 1 \in Nat
        BY <1>9, <3>2
      <4>2. QED
        BY <1>1, <3>3, <4>1, Multiples
    <3>5. QED
      BY <1>9, <3>2, <3>4
  <2>3. QED
    BY <1>2, <1>9, <2>1, <2>2, DivMod, <1>1
<1>11. Passes(sector, bufferInit, totalTicks + R)
  BY <1>9, <1>10 DEF Passes, b, R, S
<1>12. ~Passes(sector, totalTicks, totalTicks + R - 1)
  <2> SUFFICES ASSUME NEW j \in totalTicks \div R .. (totalTicks + R - 1) \div R,
                      totalTicks <= j * R, (j + 1) * R <= totalTicks + R - 1
               PROVE  FALSE
    BY Zenon DEF Passes, R
  <2>1. totalTicks \div R \in Nat
    BY <1>1, DivMod
  <2>2. totalTicks + R - 1 \in Nat
    BY <1>1
  <2>3. j \in Nat
    <3> DEFINE y == totalTicks + R - 1
    <3>1. y \div R \in Nat
      <4> HIDE DEF y
      <4>1. y \in Nat
        BY <2>2 DEF y
      <4>2. QED
        BY <1>1, <4>1, DivMod
    <3>2. QED
      BY <2>1, <3>1
  <2>4. (j + 1) * R = j * R + R /\ j * R \in Nat
    BY <1>1, <2>3, Multiples
  <2>5. QED
    BY <1>1, <2>4
<1>13. QED
  BY <1>11, <1>12, Zenon DEF R

\* Without the buffer: the head arrives, waits for the next sector to begin, and
\* then for this one.
LEMMA FromTrack ==
    ASSUME DiskType, NEW sector \in Sectors, NEW from \in Nat, from <= TimeAfter(sector),
           NEW until \in Nat, NEW m \in Nat, TimeAfter(sector) = m * RotationTime,
           until = TimeAfter(sector) + RotationTime
                     + ModuloDiff(sector, m) * RotationTime
    PROVE  /\ Passes(sector, from, until)
           /\ ~Passes(sector, Arrived(sector), until - 1)
<1> DEFINE R == RotationTime
           S == SectorsPerTrack
           d == ModuloDiff(sector, m)
           after == TimeAfter(sector)
           arrived == Arrived(sector)
           k == m + d
<1>1. R \in Nat \ {0} /\ S \in Nat \ {0} /\ sector \in Nat
  BY ConstantFacts
<1>2. arrived \in Nat /\ after \in Nat /\ after < arrived + R /\ arrived <= after
  <2>1. Seek(sector) \in Nat /\ Rotation(Seek(sector)) \in 0 .. RotationTime - 1
        /\ totalTicks \in Nat
    BY SeekFacts DEF DiskType
  <2>2. QED
    BY <1>1, <2>1 DEF Arrived, TimeAfter
<1>3. d = Ahead(sector, m, S)
  BY DEF ModuloDiff, Ahead
<1>4. after = m * R /\ from <= after /\ until = after + R + d * R
  OBVIOUS
<1> HIDE DEF R, S, d, after, arrived
<1>5. d \in Nat /\ d < S /\ (m + d) % S = sector % S
      /\ \A j \in m .. m + d - 1 : j % S # sector % S
  BY <1>1, <1>3, FirstPass
<1>6. /\ d * R \in Nat /\ m * R \in Nat /\ (m + d) * R = m * R + d * R
      /\ (m + d + 1) * R = (m + d) * R + R
  BY <1>1, <1>5, Multiples
<1>7. k \in Nat /\ k % S = sector % S /\ from <= k * R /\ (k + 1) * R = until
  BY <1>1, <1>2, <1>4, <1>5, <1>6
<1> HIDE DEF k
<1>8. k \in from \div R .. until \div R
  <2>1. until \div R = k + 1
    BY <1>1, <1>7, Multiples
  <2>2. from \div R <= k
    <3>1. /\ from \div R \in Nat /\ from % R \in Nat
          /\ from = (from \div R) * R + (from % R)
      BY <1>1, DivMod
    <3>2. (from \div R) * R \in Nat /\ (k + 1) * R = k * R + R /\ k * R \in Nat
          /\ (k + 1) * R \in Nat
      BY <1>1, <1>7, <3>1, Multiples
    <3>3. (from \div R) * R < (k + 1) * R
      BY <1>1, <1>7, <3>1, <3>2
    <3>4. from \div R < k + 1
      BY <1>1, <1>7, <3>1, <3>3, Multiples
    <3>5. QED
      BY <1>7, <3>1, <3>4
  <2>3. from \div R \in Nat
    BY <1>1, DivMod
  <2>4. QED
    BY <1>7, <2>1, <2>2, <2>3
<1>9. Passes(sector, from, until)
  <2>1. (k + 1) * R <= until
    BY <1>7
  <2>2. QED
    BY <1>7, <1>8, <2>1 DEF Passes, R, S
<1>10. ~Passes(sector, arrived, until - 1)
  <2> SUFFICES ASSUME NEW j \in arrived \div R .. (until - 1) \div R,
                      j % S = sector % S, arrived <= j * R, (j + 1) * R <= until - 1
               PROVE  FALSE
    BY Zenon DEF Passes, R, S
  <2>1. j \in Nat
    <3>1. arrived \div R \in Nat
      BY <1>1, <1>2, DivMod
    <3>2. until - 1 \in Nat
      BY <1>1, <1>2, <1>4, <1>6
    <3> DEFINE y == until - 1
    <3> HIDE DEF y
    <3>3. y \div R \in Nat
      BY <1>1, <3>2, DivMod DEF y
    <3>4. QED
      BY <3>1, <3>3 DEF y
  <2>2. /\ (j + 1) * R = j * R + R /\ j * R \in Nat /\ (j + 1) * R \in Nat
        /\ (k + 1) * R \in Nat /\ m * R < (j + 1) * R => m < j + 1
        /\ (j + 1) * R < (k + 1) * R => j + 1 < k + 1
    BY <1>1, <1>7, <2>1, Multiples
  <2>3. m < j + 1
    BY <1>1, <1>2, <1>4, <2>2
  <2>4. j + 1 < k + 1
    BY <1>1, <1>7, <2>2
  <2>5. j \in m .. m + d - 1
    BY <1>5, <2>1, <2>3, <2>4 DEF k
  <2>6. QED
    BY <1>5, <2>5
<1>11. QED
  BY <1>9, <1>10 DEF arrived

-----------------------------------------------------------------------------
(* The steps *)

\* A request is due when its sector has just passed, not one pass later.
LEMMA DueFacts ==
    ASSUME DiskType, BufferOK, ~active, NEW sector \in Sectors, NEW writing \in BOOLEAN
    PROVE  /\ Arrived(sector) \in Nat /\ Due(sector, writing) \in Nat \ {0}
           /\ BufferInit(sector) \in Nat /\ BufferInit(sector) % RotationTime = 0
           /\ BufferInit(sector) <= Due(sector, writing)
           /\ Passes(sector, IF writing THEN Arrived(sector) ELSE BufferInit(sector),
                     Due(sector, writing))
           /\ ~Passes(sector, Arrived(sector), Due(sector, writing) - 1)
<1> DEFINE R == RotationTime
           seek == Seek(sector)
           rotation == Rotation(seek)
           after == TimeAfter(sector)
           arrived == Arrived(sector)
           due == Due(sector, writing)
<1>1. R \in Nat \ {0} /\ totalTicks \in Nat /\ bufferInit \in Nat
      /\ bufferInit % R = 0 /\ bufferInit <= totalTicks
  BY ConstantFacts DEF DiskType, BufferOK
<1>2. seek \in Nat /\ rotation \in 0 .. R - 1 /\ arrived = totalTicks + seek
      /\ after = totalTicks + seek + rotation
  BY SeekFacts DEF Arrived, TimeAfter
<1>3. PICK m \in Nat : after = m * R
  BY SeekFacts DEF TimeAfter
<1>4. due = IF ~writing /\ seek = 0 /\ InTrackBuffer(sector, after)
            THEN totalTicks + R
            ELSE totalTicks + (seek + rotation + R + ModuloDiff(sector, after \div R) * R)
  BY DEF Due, ComputeLatency, TimeAfter
<1>5. BufferInit(sector) = IF seek # 0 THEN after ELSE bufferInit
  BY DEF BufferInit, TimeAfter
<1>6. CASE ~writing /\ seek = 0 /\ InTrackBuffer(sector, after)
  <2>1. due = totalTicks + R /\ arrived = totalTicks /\ BufferInit(sector) = bufferInit
    BY <1>1, <1>2, <1>4, <1>5, <1>6
  <2>2. /\ Passes(sector, bufferInit, totalTicks + R)
        /\ ~Passes(sector, totalTicks, totalTicks + R - 1)
    BY <1>1, <1>6, FromBuffer
  <2> HIDE DEF due, arrived, R
  <2>3. due \in Nat \ {0} /\ bufferInit <= due /\ arrived \in Nat
    BY <1>1, <2>1
  <2>4. /\ Passes(sector, IF writing THEN arrived ELSE BufferInit(sector), due)
        /\ ~Passes(sector, arrived, due - 1)
    <3>1. (IF writing THEN arrived ELSE BufferInit(sector)) = bufferInit
      BY <1>6, <2>1
    <3>2. due = totalTicks + R /\ due - 1 = totalTicks + R - 1
      BY <1>1, <2>1
    <3>3. QED
      BY <2>1, <2>2, <3>1, <3>2, Zenon
  <2>5. QED
    BY <1>1, <2>1, <2>3, <2>4 DEF due, arrived, R
<1>7. CASE ~(~writing /\ seek = 0 /\ InTrackBuffer(sector, after))
  <2> DEFINE d == ModuloDiff(sector, m)
             from == IF writing THEN arrived ELSE BufferInit(sector)
  <2>1. after \div R = m /\ after % R = 0
    BY <1>1, <1>3, Multiples
  <2>2. d \in Nat
    <3>1. sector \in Nat /\ SectorsPerTrack \in Nat \ {0}
      BY ConstantFacts
    <3>2. d = Ahead(sector, m, SectorsPerTrack)
      BY DEF ModuloDiff, Ahead
    <3>3. QED
      BY <3>1, <3>2, FirstPass
  <2>3. due = totalTicks + (seek + rotation + R + d * R)
    BY <1>4, <1>7, <2>1
  <2> HIDE DEF d
  <2>4. d * R \in Nat
    BY <1>1, <2>2, Multiples
  <2> HIDE DEF R, seek, rotation, after, arrived, due
  <2>5. due = after + R + d * R /\ due \in Nat \ {0} /\ arrived \in Nat /\ arrived <= after
    BY <1>1, <1>2, <2>3, <2>4
  <2>6. /\ BufferInit(sector) \in Nat /\ BufferInit(sector) % R = 0
        /\ BufferInit(sector) <= after /\ after \in Nat
    BY <1>1, <1>2, <1>5, <2>1
  <2>7. from \in Nat /\ from <= after
    BY <2>5, <2>6
  <2>8. Passes(sector, from, due) /\ ~Passes(sector, arrived, due - 1)
    <3> HIDE DEF from
    <3>1. due = TimeAfter(sector) + RotationTime + ModuloDiff(sector, m) * RotationTime
      BY <2>5 DEF R, after, d
    <3>2. TimeAfter(sector) = m * RotationTime /\ from <= TimeAfter(sector)
      BY <1>3, <2>7 DEF R, after
    <3>3. QED
      BY <2>5, <2>7, <3>1, <3>2, FromTrack DEF arrived
  <2>9. BufferInit(sector) <= due
    BY <1>1, <2>4, <2>5, <2>6
  <2>10. QED
    BY <2>5, <2>6, <2>8, <2>9 DEF R, arrived, due
<1>8. QED
  BY <1>6, <1>7

\* A request is told from none by its due time.
LEMMA RequestFacts ==
    /\ \A r \in Requests : r # NoRequest
    /\ NoRequest.due = 0
<1>1. \A r \in Requests : r.due # 0
  BY DEF Requests
<1>2. QED
  BY <1>1 DEF NoRequest

\* What P leaves
LEMMA PType ==
    ASSUME NEW t \in Threads, value \in Nat, queue \in Seq(Threads),
           at \in [Threads -> {"running", "asleep", "woken"}], P(t, value)
    PROVE  /\ value' \in Nat /\ queue' \in Seq(Threads)
           /\ at' \in [Threads -> {"running", "asleep", "woken"}]
BY DEF P

\* A call of ReadSector or WriteSector while the disk is idle
LEMMA CallTimely ==
    ASSUME TimelyInv, NEW t \in Threads, NEW sector \in Sectors, NEW writing \in BOOLEAN,
           Call(t, sector, writing)
    PROVE  TimelyInv'
<1> DEFINE r == [thread |-> t, sector |-> sector, writing |-> writing, made |-> totalTicks,
                 arrived |-> Arrived(sector), due |-> Due(sector, writing)]
<1>1. /\ DiskType /\ BufferOK /\ ~active
      /\ value' \in Nat /\ queue' \in Seq(Threads)
      /\ at' \in [Threads -> {"running", "asleep", "woken"}]
  BY PType DEF TimelyInv, Call, DiskType
<1>2. /\ Arrived(sector) \in Nat /\ Due(sector, writing) \in Nat \ {0}
      /\ BufferInit(sector) \in Nat /\ BufferInit(sector) % RotationTime = 0
      /\ BufferInit(sector) <= Due(sector, writing)
      /\ Passes(sector, IF writing THEN Arrived(sector) ELSE BufferInit(sector),
                Due(sector, writing))
      /\ ~Passes(sector, Arrived(sector), Due(sector, writing) - 1)
  BY <1>1, DueFacts
<1>3. /\ request' = r /\ bufferInit' = BufferInit(sector) /\ lastSector' = sector
      /\ UNCHANGED <<totalTicks, aborted>>
  BY DEF Call, Arrived, Due
<1>4. r \in Requests
  BY <1>1, <1>2 DEF Requests, DiskType
<1>5. /\ r.sector = sector /\ r.writing = writing /\ r.arrived = Arrived(sector)
      /\ r.due = Due(sector, writing)
  OBVIOUS
<1> HIDE DEF r
<1>6. DiskType'
  BY <1>1, <1>2, <1>3, <1>4 DEF DiskType
<1>7. active'
  BY <1>3, <1>4, RequestFacts DEF active
<1>8. BufferOK'
  BY <1>2, <1>3, <1>5, <1>7 DEF BufferOK
<1>9. Timely'
  BY <1>2, <1>3, <1>5, Zenon DEF Timely
<1>10. QED
  BY <1>6, <1>8, <1>9 DEF TimelyInv

\* Every step preserves the first invariant.
LEMMA TimelyStep ==
    ASSUME TimelyInv, [Next]_vars
    PROVE  TimelyInv'
<1>1. DiskType /\ BufferOK /\ Timely
  BY DEF TimelyInv
<1>2. CASE UNCHANGED vars
  <2>1. BufferOK'
    BY <1>1, <1>2 DEF BufferOK, vars, active
  <2>2. Timely'
    BY <1>1, <1>2 DEF Timely, vars, active, Passes
  <2>3. DiskType'
    BY <1>1, <1>2 DEF DiskType, vars
  <2>4. QED
    BY <2>1, <2>2, <2>3 DEF TimelyInv
<1>3. ASSUME NEW t \in Threads, NEW sector \in Sectors, NEW writing \in BOOLEAN,
             Call(t, sector, writing)
      PROVE  TimelyInv'
  BY <1>3, CallTimely
<1>4. ASSUME UNCHANGED <<bufferInit, request>>, DiskType',
             totalTicks' \in Nat /\ totalTicks' >= totalTicks
      PROVE  TimelyInv'
  <2>1. Timely'
    BY <1>1, <1>4 DEF Timely, active, Passes
  <2>2. BufferOK'
    BY <1>1, <1>4 DEF BufferOK, active, DiskType
  <2>3. QED
    BY <1>4, <2>1, <2>2 DEF TimelyInv
<1>5. ASSUME NEW t \in Threads, CallActive(t) \/ Resume(t)
      PROVE  TimelyInv'
  <2>1. DiskType'
    <3>1. CASE CallActive(t)
      BY <1>1, <3>1 DEF CallActive, DiskType
    <3>2. CASE Resume(t)
      BY <1>1, <3>2, PType DEF Resume, DiskType
    <3>3. QED
      BY <1>5, <3>1, <3>2
  <2>2. UNCHANGED <<bufferInit, request, totalTicks>>
    BY <1>5 DEF CallActive, Resume
  <2>3. QED
    BY <1>1, <1>4, <2>1, <2>2 DEF DiskType
<1>6. CASE HandleInterrupt
  <2>1. /\ active /\ totalTicks >= request.due /\ request' = NoRequest
        /\ UNCHANGED <<totalTicks, lastSector, bufferInit, aborted>>
    BY <1>6 DEF HandleInterrupt
  <2>2. ~active'
    BY <2>1 DEF active
  <2>3. Timely'
    BY <2>2 DEF Timely
  <2>4. BufferOK'
    <3>1. request \in Requests
      BY <1>1, <2>1 DEF DiskType, active
    <3>2. request.due \in Nat
      BY <3>1 DEF Requests
    <3>3. QED
      BY <1>1, <2>1, <2>2, <3>2 DEF BufferOK, DiskType
  <2>5. DiskType'
    <3>1. queue' \in Seq(Threads) /\ at' \in [Threads -> {"running", "asleep", "woken"}]
      <4>1. CASE queue = <<>>
        BY <1>1, <1>6, <4>1 DEF HandleInterrupt, DiskType
      <4>2. CASE queue # <<>>
        <5>1. Tail(queue) \in Seq(Threads) /\ queue' = Tail(queue)
              /\ at' = [at EXCEPT ![Head(queue)] = "woken"]
          BY <1>1, <1>6, <4>2, HeadTailProperties DEF HandleInterrupt, DiskType
        <5>2. QED
          BY <1>1, <5>1 DEF DiskType
      <4>3. QED
        BY <4>1, <4>2
    <3>2. value' \in Nat
      BY <1>1, <1>6 DEF HandleInterrupt, DiskType
    <3>3. QED
      BY <1>1, <2>1, <3>1, <3>2 DEF DiskType
  <2>6. QED
    BY <2>3, <2>4, <2>5 DEF TimelyInv
<1>7. CASE Tick
  <2>1. DiskType' /\ totalTicks' \in Nat /\ totalTicks' >= totalTicks
    BY <1>1, <1>7 DEF Tick, DiskType
  <2>2. QED
    BY <1>4, <1>7, <2>1 DEF Tick
<1>8. QED
  BY <1>2, <1>3, <1>5, <1>6, <1>7 DEF Next, Terminated

\* A new disk is timely.
LEMMA TimelyInit ==
    ASSUME Init
    PROVE  TimelyInv
<1>1. DiskType
  <2>1. <<>> \in Seq(Threads) /\ 0 \in Sectors /\ 0 \in Nat
    BY ConstantFacts
  <2>2. at \in [Threads -> {"running", "asleep", "woken"}]
    BY DEF Init
  <2>3. QED
    BY <2>1, <2>2 DEF Init, DiskType
<1>2. ~active
  BY DEF Init, active
<1>3. 0 % RotationTime = 0
  BY ConstantFacts
<1>4. QED
  BY <1>1, <1>2, <1>3 DEF TimelyInv, BufferOK, Timely, Init

LEMMA TimelyInvCorrect == Spec => []TimelyInv
<1>1. Init => TimelyInv
  BY TimelyInit
<1>2. TimelyInv /\ [Next]_vars => TimelyInv'
  BY TimelyStep
<1>3. QED
  BY <1>1, <1>2, PTL DEF Spec

\* A request is done when its sector has passed the head, not before and not a
\* rotation later, for any geometry and times and any moments of the requests:
\* Disk::ComputeLatency agrees with a disk that turns.
THEOREM TimelyCorrect == Spec => []Timely
<1>1. TimelyInv => Timely
  BY DEF TimelyInv
<1>2. QED
  BY <1>1, TimelyInvCorrect, PTL

-----------------------------------------------------------------------------
(* Tokens *)

Busy == {t \in Threads : at[t] # "running"}
Woken == {t \in Threads : at[t] = "woken"}
Pending == IF active THEN 1 ELSE 0

\* The inductive strengthening of TokensMatch.  The list holds exactly the
\* threads that are asleep, once each; while it holds any, each token that is
\* free has had a thread woken for it.
TokensInv ==
    /\ IsFiniteSet(Busy) /\ Cardinality(Busy) = value + Pending
    /\ \A t \in Threads : at[t] = "asleep" <=> \E i \in DOMAIN queue : queue[i] = t
    /\ \A i, j \in DOMAIN queue : queue[i] = queue[j] => i = j
    /\ queue # <<>> => value <= Cardinality(Woken)

\* The threads are possibly infinitely many; those that use the disk are finitely
\* many.
LEMMA WokenFinite ==
    ASSUME TokensInv
    PROVE  /\ IsFiniteSet(Woken) /\ Cardinality(Woken) \in Nat
           /\ IsFiniteSet(Busy) /\ Cardinality(Busy) \in Nat
<1>1. Woken \subseteq Busy
  BY DEF Woken, Busy
<1>2. QED
  BY <1>1, FS_Subset, FS_CardinalityType DEF TokensInv

\* The second invariant implies what the run checks.
LEMMA TokensImplies ==
    ASSUME DiskType, TokensInv
    PROVE  TokensMatch
<1>1. ASSUME value > 0, \A t \in Threads : at[t] # "woken" PROVE FALSE
  <2>1. Woken = {}
    BY <1>1 DEF Woken
  <2>2. Cardinality(Woken) = 0
    BY <2>1, FS_EmptySet
  <2>3. queue = <<>>
    BY <1>1, <2>2 DEF TokensInv, DiskType
  <2>4. \A t \in Threads : at[t] # "asleep"
    BY <2>3 DEF TokensInv
  <2>5. Busy = {}
    BY <1>1, <2>4 DEF Busy, DiskType
  <2>6. Cardinality(Busy) = 0
    BY <2>5, FS_EmptySet
  <2>7. QED
    BY <1>1, <2>6 DEF TokensInv, DiskType, Pending
<1>2. Cardinality(Busy) = value + Pending
  BY DEF TokensInv
<1>3. QED
  BY <1>1, <1>2 DEF TokensMatch, Busy, Pending

\* Whoever goes to sleep in P joins the list, once.
LEMMA Slept ==
    ASSUME DiskType, TokensInv, NEW t \in Threads, at[t] # "asleep",
           queue' = Append(queue, t), at' = [at EXCEPT ![t] = "asleep"]
    PROVE  /\ \A u \in Threads : at'[u] = "asleep" <=> \E i \in DOMAIN queue' : queue'[i] = u
           /\ \A i, j \in DOMAIN queue' : queue'[i] = queue'[j] => i = j
<1>1. queue \in Seq(Threads) /\ at \in [Threads -> {"running", "asleep", "woken"}]
  BY DEF DiskType
<1> DEFINE n == Len(queue)
<1>2. /\ n \in Nat /\ DOMAIN queue = 1 .. n /\ DOMAIN queue' = 1 .. n + 1
      /\ \A i \in 1 .. n : queue'[i] = queue[i] /\ queue[i] \in Threads
      /\ queue'[n + 1] = t
  BY <1>1
<1> HIDE DEF n
<1>3. \A i \in 1 .. n : queue[i] # t
  BY <1>2 DEF TokensInv
<1>4. \A u \in Threads : at'[u] = "asleep" <=> u = t \/ at[u] = "asleep"
  BY <1>1
<1>5. \A i \in DOMAIN queue' : i \in 1 .. n \/ i = n + 1
  BY <1>2
<1>6. n + 1 \in DOMAIN queue' /\ \A i \in 1 .. n : i \in DOMAIN queue'
  BY <1>2
<1>7. ASSUME NEW u \in Threads
      PROVE  at'[u] = "asleep" <=> \E i \in DOMAIN queue' : queue'[i] = u
  BY <1>2, <1>4, <1>5, <1>6 DEF TokensInv
<1>8. \A i, j \in DOMAIN queue' : queue'[i] = queue'[j] => i = j
  BY <1>2, <1>3, <1>5 DEF TokensInv
<1>9. QED
  BY <1>7, <1>8

\* A call, which ends in P: the caller takes the value or sleeps.
LEMMA CallTokens ==
    ASSUME DiskType, TokensInv, NEW t \in Threads, NEW sector, NEW writing,
           Call(t, sector, writing), active'
    PROVE  TokensInv'
<1>1. at[t] = "running" /\ ~active /\ P(t, value) /\ value \in Nat
      /\ at \in [Threads -> {"running", "asleep", "woken"}]
  BY DEF Call, DiskType
<1>2. Cardinality(Busy) = value /\ Pending' = 1 /\ IsFiniteSet(Busy)
  BY <1>1 DEF TokensInv, Pending
<1>3. CASE value = 0
  <2>1. value' = value /\ queue' = Append(queue, t) /\ at' = [at EXCEPT ![t] = "asleep"]
    BY <1>1, <1>3 DEF P
  <2>2. Busy' = Busy \cup {t} /\ t \notin Busy
    BY <1>1, <2>1 DEF Busy
  <2>3. IsFiniteSet(Busy') /\ Cardinality(Busy') = Cardinality(Busy) + 1
    BY <1>2, <2>2, FS_AddElement
  <2>4. Woken' = Woken
    BY <1>1, <2>1 DEF Woken
  <2>5. value' <= Cardinality(Woken')
    BY <1>3, <2>1, <2>4, WokenFinite
  <2>6. IsFiniteSet(Busy)' /\ Cardinality(Busy)' = value' + Pending'
    BY <1>2, <1>3, <2>1, <2>3
  <2>7. /\ \A u \in Threads : at'[u] = "asleep" <=> \E i \in DOMAIN queue' : queue'[i] = u
        /\ \A i, j \in DOMAIN queue' : queue'[i] = queue'[j] => i = j
    BY <1>1, <2>1, Slept
  <2>8. QED
    BY <2>5, <2>6, <2>7 DEF TokensInv
<1>4. CASE value # 0
  <2>1. value' = value - 1 /\ queue' = queue /\ at' = at
    BY <1>1, <1>4 DEF P
  <2>2. Busy' = Busy /\ Woken' = Woken
    BY <2>1 DEF Busy, Woken
  <2>3. IsFiniteSet(Busy)' /\ Cardinality(Busy)' = value' + Pending'
    BY <1>1, <1>2, <2>1, <2>2
  <2>4. queue' # <<>> => value' <= Cardinality(Woken)'
    BY <1>1, <2>1, <2>2, WokenFinite DEF TokensInv
  <2>5. QED
    BY <2>1, <2>3, <2>4 DEF TokensInv
<1>5. QED
  BY <1>3, <1>4

\* A woken thread looks at value again: it takes it, or sleeps again.
LEMMA ResumeTokens ==
    ASSUME DiskType, TokensInv, NEW t \in Threads, Resume(t)
    PROVE  TokensInv'
<1>1. at[t] = "woken" /\ P(t, value) /\ value \in Nat /\ request' = request
      /\ at \in [Threads -> {"running", "asleep", "woken"}]
  BY DEF Resume, DiskType
<1>2. /\ IsFiniteSet(Busy) /\ Cardinality(Busy) = value + Pending /\ Cardinality(Busy) \in Nat
      /\ IsFiniteSet(Woken) /\ Cardinality(Woken) \in Nat
  BY WokenFinite DEF TokensInv
<1>3. Pending' = Pending /\ Pending \in Nat
  BY <1>1 DEF Pending, active
<1>4. CASE value = 0
  <2>1. value' = value /\ queue' = Append(queue, t) /\ at' = [at EXCEPT ![t] = "asleep"]
    BY <1>1, <1>4 DEF P
  <2>2. Busy' = Busy
    BY <1>1, <2>1 DEF Busy
  <2>3. Woken' = Woken \ {t}
    BY <1>1, <2>1 DEF Woken
  <2>4. Cardinality(Woken') \in Nat
    BY <1>2, <2>3, FS_RemoveElement, FS_CardinalityType
  <2>5. value' <= Cardinality(Woken)'
    BY <1>4, <2>1, <2>4
  <2>6. /\ \A u \in Threads : at'[u] = "asleep" <=> \E i \in DOMAIN queue' : queue'[i] = u
        /\ \A i, j \in DOMAIN queue' : queue'[i] = queue'[j] => i = j
    BY <1>1, <2>1, Slept
  <2>7. QED
    BY <1>2, <1>3, <2>1, <2>2, <2>5, <2>6 DEF TokensInv
<1>5. CASE value # 0
  <2>1. value' = value - 1 /\ queue' = queue /\ at' = [at EXCEPT ![t] = "running"]
    BY <1>1, <1>5 DEF P
  <2>2. Busy' = Busy \ {t} /\ t \in Busy
    BY <1>1, <2>1 DEF Busy
  <2>3. Woken' = Woken \ {t} /\ t \in Woken
    BY <1>1, <2>1 DEF Woken
  <2>4. /\ IsFiniteSet(Busy') /\ Cardinality(Busy') = Cardinality(Busy) - 1
        /\ Cardinality(Woken') = Cardinality(Woken) - 1
    BY <1>2, <2>2, <2>3, FS_RemoveElement
  <2>5. Cardinality(Busy') = value' + Pending'
    BY <1>1, <1>2, <1>3, <2>1, <2>4
  <2>6. queue' # <<>> => value' <= Cardinality(Woken')
    BY <1>1, <1>2, <2>1, <2>4 DEF TokensInv
  <2>7. \A u \in Threads : at'[u] = "asleep" <=> at[u] = "asleep"
    BY <1>1, <2>1
  <2>8. QED
    BY <2>1, <2>4, <2>5, <2>6, <2>7 DEF TokensInv
<1>6. QED
  BY <1>4, <1>5

\* The disk interrupt: V raises value and wakes the first of the queue.
LEMMA InterruptTokens ==
    ASSUME DiskType, TokensInv, HandleInterrupt
    PROVE  TokensInv'
<1>1. active /\ ~active' /\ value' = value + 1 /\ value \in Nat
      /\ at \in [Threads -> {"running", "asleep", "woken"}] /\ queue \in Seq(Threads)
  BY DEF HandleInterrupt, active, DiskType
<1>2. Pending = 1 /\ Pending' = 0
  BY <1>1 DEF Pending
<1>3. /\ IsFiniteSet(Busy) /\ Cardinality(Busy) = value + 1
      /\ IsFiniteSet(Woken) /\ Cardinality(Woken) \in Nat
  BY <1>2, WokenFinite DEF TokensInv
<1>4. CASE queue = <<>>
  <2>1. queue' = <<>> /\ queue' = queue /\ at' = at
    BY <1>4 DEF HandleInterrupt
  <2>2. Busy' = Busy
    BY <2>1 DEF Busy
  <2>3. Cardinality(Busy)' = value' + Pending'
    BY <1>1, <1>2, <1>3, <2>2
  <2>4. QED
    BY <1>3, <2>1, <2>2, <2>3 DEF TokensInv
<1>5. CASE queue # <<>>
  <2> DEFINE h == Head(queue)
  <2>1. queue' = Tail(queue) /\ at' = [at EXCEPT ![h] = "woken"]
    BY <1>5 DEF HandleInterrupt
  <2>2. /\ Len(queue) \in Nat /\ Len(queue) # 0 /\ DOMAIN queue = 1 .. Len(queue)
        /\ h = queue[1] /\ h \in Threads /\ 1 \in DOMAIN queue
        /\ DOMAIN queue' = 1 .. Len(queue) - 1
        /\ \A i \in 1 .. Len(queue) - 1 : queue'[i] = queue[i + 1] /\ i + 1 \in DOMAIN queue
    BY <1>1, <1>5, <2>1
  <2>3. at[h] = "asleep"
    BY <2>2 DEF TokensInv
  <2> HIDE DEF h
  <2>4. Busy' = Busy /\ Woken' = Woken \cup {h} /\ h \notin Woken
    BY <1>1, <2>1, <2>2, <2>3 DEF Busy, Woken
  <2>5. Cardinality(Woken') = Cardinality(Woken) + 1
    BY <1>3, <2>4, FS_AddElement
  <2>6. value' <= Cardinality(Woken')
    BY <1>1, <1>3, <1>5, <2>5 DEF TokensInv
  <2>7. \A u \in Threads : at'[u] = "asleep" <=> u # h /\ at[u] = "asleep"
    BY <1>1, <2>1, <2>2
  <2>8. \A u \in Threads :
          (\E i \in DOMAIN queue' : queue'[i] = u) <=> u # h /\ \E i \in DOMAIN queue : queue[i] = u
    <3> SUFFICES ASSUME NEW u \in Threads
                 PROVE  (\E i \in DOMAIN queue' : queue'[i] = u)
                          <=> u # h /\ \E i \in DOMAIN queue : queue[i] = u
      OBVIOUS
    <3>1. ASSUME NEW i \in DOMAIN queue', queue'[i] = u
          PROVE  u # h /\ \E j \in DOMAIN queue : queue[j] = u
      <4>1. i + 1 \in DOMAIN queue /\ queue[i + 1] = u /\ i + 1 # 1
        BY <2>2, <3>1
      <4>2. QED
        BY <2>2, <4>1 DEF TokensInv
    <3>2. ASSUME NEW i \in DOMAIN queue, queue[i] = u, u # h
          PROVE  \E j \in DOMAIN queue' : queue'[j] = u
      <4>1. i - 1 \in DOMAIN queue' /\ (i - 1) + 1 = i
        BY <2>2, <3>2
      <4>2. queue'[i - 1] = u
        BY <2>2, <3>2, <4>1
      <4>3. QED
        BY <4>1, <4>2
    <3>3. QED
      BY <3>1, <3>2
  <2>9. \A i, j \in DOMAIN queue' : queue'[i] = queue'[j] => i = j
    BY <2>2 DEF TokensInv
  <2>10. Cardinality(Busy)' = value' + Pending'
    BY <1>1, <1>2, <1>3, <2>4
  <2>11. QED
    BY <1>3, <2>4, <2>6, <2>7, <2>8, <2>9, <2>10 DEF TokensInv
<1>6. QED
  BY <1>4, <1>5

\* Every step preserves the second invariant.
LEMMA TokensStep ==
    ASSUME TimelyInv, TokensInv, [Next]_vars
    PROVE  TokensInv'
<1>1. DiskType
  BY DEF TimelyInv
<1>2. ASSUME UNCHANGED <<value, queue, at, request>> PROVE TokensInv'
  BY <1>2 DEF TokensInv, Busy, Woken, Pending, active
<1>3. ASSUME NEW t \in Threads, NEW sector \in Sectors, NEW writing \in BOOLEAN,
             Call(t, sector, writing)
      PROVE  TokensInv'
  <2>1. active'
    <3>1. request'.due = Due(sector, writing)
      BY <1>3 DEF Call, Due
    <3>2. BufferOK /\ ~active
      BY <1>3 DEF Call, TimelyInv
    <3>3. request'.due # 0
      BY <1>1, <3>1, <3>2, DueFacts
    <3>4. QED
      BY <3>3, RequestFacts DEF active
  <2>2. QED
    BY <1>1, <1>3, <2>1, CallTokens
<1>4. ASSUME NEW t \in Threads, CallActive(t) \/ Resume(t) PROVE TokensInv'
  BY <1>1, <1>2, <1>4, ResumeTokens DEF CallActive
<1>5. CASE HandleInterrupt
  BY <1>1, <1>5, InterruptTokens
<1>6. CASE Tick \/ Terminated \/ UNCHANGED vars
  BY <1>2, <1>6 DEF Tick, Terminated, vars
<1>7. QED
  BY <1>3, <1>4, <1>5, <1>6 DEF Next

\* Nobody uses a new disk.
LEMMA TokensInit ==
    ASSUME Init
    PROVE  TokensInv
<1>1. Busy = {} /\ Pending = 0 /\ value = 0 /\ queue = <<>>
  BY DEF Init, Busy, Pending, active
<1>2. IsFiniteSet(Busy) /\ Cardinality(Busy) = 0
  BY <1>1, FS_EmptySet
<1>3. \A t \in Threads : at[t] # "asleep"
  BY DEF Init
<1>4. QED
  BY <1>1, <1>2, <1>3 DEF TokensInv

\* As many threads are in their calls as requests are pending and tokens free,
\* whoever takes whose token.
THEOREM TokensCorrect == Spec => []TokensMatch
<1>1. Init => TokensInv
  BY TokensInit
<1>2. TimelyInv /\ TokensInv /\ [Next]_vars => TokensInv'
  BY TokensStep
<1>3. TimelyInv /\ TokensInv => TokensMatch
  BY TokensImplies DEF TimelyInv
<1>4. QED
  BY <1>1, <1>2, <1>3, TimelyInvCorrect, PTL DEF Spec
=============================================================================
