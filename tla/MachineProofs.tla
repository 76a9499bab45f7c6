--------------------------- MODULE MachineProofs ---------------------------
(***************************************************************************)
(* Theorems about the user machine, for any number of threads, registers   *)
(* and words: a process that runs has the machine for itself, register 0   *)
(* is zero, and the shared machine implements a machine per process.       *)
(***************************************************************************)
EXTENDS MachineRefinesPrivate, TLAPS

----------------------------------------------------------------------------
(* Register files *)

LEMMA RegisterNumbers ==
    /\ 0 \in DataRegs /\ ReturnReg \in DataRegs /\ ReturnReg # 0
    /\ DataRegs \subseteq AllRegs
    /\ {PCReg, NextPCReg, LoadReg, LoadValueReg} \subseteq AllRegs
    /\ {PCReg, NextPCReg, LoadReg, LoadValueReg} \cap DataRegs = {}
    /\ {HiReg, LoReg} \cap {0, LoadReg} = {}
    /\ LoadReg \notin {PCReg, NextPCReg, LoadValueReg}
BY RegistersAssumption
   DEF AllRegs, ReturnReg, HiReg, LoReg, PCReg, NextPCReg, LoadReg, LoadValueReg

LEMMA WordFacts ==
    0 \in Words /\ Values \subseteq Words /\ \A w \in Words : Next4[w] \in Words
BY RegistersAssumption

\* A register file whose register 0 is zero
Good(f) == f \in RegisterFile /\ f[0] = 0

\* Assignments to a register that holds words, and to LoadReg
LEMMA SetWord ==
    ASSUME NEW f \in RegisterFile, NEW r \in AllRegs \ {LoadReg}, NEW w \in Words
    PROVE  /\ [f EXCEPT ![r] = w] \in RegisterFile
           /\ \A s \in AllRegs : [f EXCEPT ![r] = w][s] = IF s = r THEN w ELSE f[s]
<1> DEFINE g == [f EXCEPT ![r] = w]
<1>1. f \in [AllRegs -> Words \cup DataRegs] /\ f[LoadReg] \in DataRegs
      /\ \A s \in AllRegs \ {LoadReg} : f[s] \in Words
  BY DEF RegisterFile
<1>2. g \in [AllRegs -> Words \cup DataRegs]
  BY <1>1
<1>3. \A s \in AllRegs : g[s] = IF s = r THEN w ELSE f[s]
  BY <1>1
<1> HIDE DEF g
<1>4. g[LoadReg] \in DataRegs /\ \A s \in AllRegs \ {LoadReg} : g[s] \in Words
  BY <1>1, <1>3, RegisterNumbers
<1>5. g \in RegisterFile
  BY <1>2, <1>4 DEF RegisterFile
<1>6. QED
  BY <1>3, <1>5 DEF g

LEMMA SetLoad ==
    ASSUME NEW f \in RegisterFile, NEW r \in DataRegs
    PROVE  /\ [f EXCEPT ![LoadReg] = r] \in RegisterFile
           /\ \A s \in AllRegs : [f EXCEPT ![LoadReg] = r][s] = IF s = LoadReg THEN r ELSE f[s]
BY RegisterNumbers DEF RegisterFile

LEMMA RegisterTypes ==
    ASSUME NEW f \in RegisterFile
    PROVE  /\ f[LoadReg] \in DataRegs
           /\ \A r \in AllRegs \ {LoadReg} : f[r] \in Words
BY DEF RegisterFile

\* No load is in progress
Settled(f) == f[LoadReg] = 0 /\ f[LoadValueReg] = 0

LEMMA DelayedLoadType ==
    ASSUME NEW f \in RegisterFile, NEW reg \in DataRegs, NEW value \in Words
    PROVE  /\ Good(DelayedLoad(f, reg, value))
           /\ DelayedLoad(f, reg, value)[LoadReg] = reg
           /\ DelayedLoad(f, reg, value)[LoadValueReg] = value
<1> DEFINE a == [f EXCEPT ![f[LoadReg]] = f[LoadValueReg]]
           b == [a EXCEPT ![LoadReg] = reg]
           c == [b EXCEPT ![LoadValueReg] = value]
           d == [c EXCEPT ![0] = 0]
<1>1. f[LoadReg] \in AllRegs \ {LoadReg} /\ f[LoadValueReg] \in Words
  BY RegisterTypes, RegisterNumbers
<1>2. a \in RegisterFile
  BY <1>1, SetWord
<1>3. b \in RegisterFile
  <2> HIDE DEF a
  <2> QED
    BY <1>2, SetLoad
<1>4. b[LoadReg] = reg
  <2>1. LoadReg \in AllRegs
    BY RegisterNumbers
  <2> HIDE DEF a
  <2>2. \A s \in AllRegs : b[s] = IF s = LoadReg THEN reg ELSE a[s]
    BY <1>2, SetLoad
  <2>3. QED
    BY <2>1, <2>2
<1>5. c \in RegisterFile /\ c[LoadReg] = reg /\ c[LoadValueReg] = value
  <2> HIDE DEF a, b
  <2> QED
    BY <1>3, <1>4, SetWord, RegisterNumbers
<1>6. /\ d \in RegisterFile /\ d[0] = 0
      /\ d[LoadReg] = reg /\ d[LoadValueReg] = value
  <2>1. 0 \in AllRegs \ {LoadReg} /\ 0 # LoadValueReg /\ 0 \in Words
    BY RegisterNumbers, WordFacts
  <2> HIDE DEF a, b, c
  <2> QED
    BY <1>5, <2>1, SetWord, RegisterNumbers
<1>7. DelayedLoad(f, reg, value) = d
  BY DEF DelayedLoad
<1>8. QED
  BY <1>6, <1>7 DEF Good

LEMMA AdvancedType ==
    ASSUME NEW f, Good(f), NEW pc \in Words
    PROVE  Good(Advanced(f, pc)) /\ (Settled(f) => Settled(Advanced(f, pc)))
<1> DEFINE a == [f EXCEPT ![PCReg] = f[NextPCReg]]
           b == [a EXCEPT ![NextPCReg] = pc]
<1>1. f \in RegisterFile /\ f[0] = 0 /\ f[NextPCReg] \in Words
  BY RegisterTypes, RegisterNumbers DEF Good
<1>2. {0, LoadReg, LoadValueReg} \subseteq AllRegs \ {PCReg, NextPCReg}
  BY RegisterNumbers DEF LoadValueReg, PCReg, NextPCReg
<1>3. a \in RegisterFile /\ \A r \in {0, LoadReg, LoadValueReg} : a[r] = f[r]
  BY <1>1, <1>2, SetWord, RegisterNumbers
<1>4. b \in RegisterFile /\ \A r \in {0, LoadReg, LoadValueReg} : b[r] = f[r]
  <2> HIDE DEF a
  <2> QED
    BY <1>2, <1>3, SetWord, RegisterNumbers
<1>5. QED
  BY <1>1, <1>4 DEF Advanced, Good, Settled

LEMMA AdvanceType ==
    ASSUME NEW f, Good(f)
    PROVE  Good(Advance(f)) /\ (Settled(f) => Settled(Advance(f)))
<1>1. f[NextPCReg] \in Words
  BY RegisterTypes, RegisterNumbers DEF Good
<1>2. QED
  BY <1>1, WordFacts, AdvancedType DEF Advance

LEMMA TrappedType ==
    ASSUME NEW f \in RegisterFile
    PROVE  Good(Trapped(f)) /\ Settled(Trapped(f))
BY DelayedLoadType, RegisterNumbers, WordFacts DEF Trapped, Settled

\* Where no load is in progress a trap or an interrupt changes nothing.
LEMMA TrappedSettled ==
    ASSUME NEW f, Good(f), Settled(f)
    PROVE  Trapped(f) = f
<1> DEFINE a == [f EXCEPT ![f[LoadReg]] = f[LoadValueReg]]
<1>1. f[0] = 0 /\ f[LoadReg] = 0 /\ f[LoadValueReg] = 0 /\ f = [r \in AllRegs |-> f[r]]
  BY DEF Good, Settled, RegisterFile
<1>2. a = f
  BY <1>1
<1>3. [f EXCEPT ![LoadReg] = 0, ![LoadValueReg] = 0, ![0] = 0] = f
  BY <1>1
<1>4. Trapped(f) = [a EXCEPT ![LoadReg] = 0, ![LoadValueReg] = 0, ![0] = 0]
  BY DEF Trapped, DelayedLoad
<1> HIDE DEF a
<1>5. QED
  BY <1>2, <1>3, <1>4

LEMMA WithResultType ==
    ASSUME NEW f, Good(f), NEW v \in Words
    PROVE  Good(WithResult(f, v)) /\ (Settled(f) => Settled(WithResult(f, v)))
<1>1. f \in RegisterFile /\ f[0] = 0
  BY DEF Good
<1>2. ReturnReg \in AllRegs \ {LoadReg} /\ ReturnReg \notin {0, LoadReg, LoadValueReg}
  BY RegisterNumbers
<1>3. {0, LoadReg, LoadValueReg} \subseteq AllRegs
  BY RegisterNumbers
<1>4. QED
  BY <1>1, <1>2, <1>3, SetWord DEF WithResult, WithWord, Good, Settled

LEMMA InitialType == Good(InitialRegisters) /\ Settled(InitialRegisters)
<1>1. Next4[0] \in Words /\ 0 \in DataRegs /\ 0 \in AllRegs /\ 0 # NextPCReg /\ LoadReg # NextPCReg
  BY WordFacts, RegisterNumbers
<1>2. InitialRegisters \in RegisterFile
  BY <1>1, WordFacts, RegisterNumbers DEF InitialRegisters, RegisterFile
<1>3. InitialRegisters[0] = 0
  BY <1>1 DEF InitialRegisters
<1>4. Settled(InitialRegisters)
  BY <1>1, RegisterNumbers DEF InitialRegisters, Settled, LoadValueReg, NextPCReg
<1>5. QED
  BY <1>2, <1>3, <1>4 DEF Good

\* Every instruction leaves a register file whose register 0 is zero.
LEMMA ResultsType ==
    ASSUME NEW f \in RegisterFile, NEW g \in InstructionResults(f)
    PROVE  Good(g)
<1>1. DataRegs \subseteq AllRegs \ {LoadReg} /\ 0 \in DataRegs /\ 0 \in Words
  BY RegisterNumbers, WordFacts
<1>2. ASSUME NEW h \in RegisterFile, NEW r \in DataRegs, NEW v \in Words
      PROVE  Good(Advance(DelayedLoad(h, r, v)))
  BY <1>2, DelayedLoadType, AdvanceType
<1>3. CASE g \in Computed(f)
  <2>1. PICK d \in DataRegs, v \in Values : g = Advance(DelayedLoad(WithWord(f, d, v), 0, 0))
    BY <1>3 DEF Computed
  <2>2. WithWord(f, d, v) \in RegisterFile
    BY <1>1, SetWord, WordFacts DEF WithWord
  <2>3. QED
    BY <1>1, <1>2, <2>1, <2>2
<1>4. CASE g \in Divided(f)
  <2> DEFINE h(v, w) == [r \in AllRegs |-> IF r = HiReg THEN v ELSE IF r = LoReg THEN w ELSE f[r]]
  <2>1. PICK v \in Values, w \in Values : g = Advance(DelayedLoad(h(v, w), 0, 0))
    BY <1>4 DEF Divided
  <2>2. v \in Words /\ w \in Words /\ LoadReg \in AllRegs /\ LoadReg \notin {HiReg, LoReg}
    BY WordFacts, RegisterNumbers
  <2>3. h(v, w) \in RegisterFile
    BY <2>2 DEF RegisterFile
  <2> HIDE DEF h
  <2>4. QED
    BY <1>1, <1>2, <2>1, <2>3
<1>5. CASE g \in Branched(f)
  <2>1. PICK h \in {f} \cup {WithWord(f, d, Next4[f[NextPCReg]]) : d \in DataRegs}, pc \in Values :
          g = Advanced(DelayedLoad(h, 0, 0), pc)
    BY <1>5 DEF Branched
  <2>2. Next4[f[NextPCReg]] \in Words
    BY RegisterTypes, RegisterNumbers, WordFacts
  <2>3. h \in RegisterFile
    BY <1>1, <2>1, <2>2, SetWord DEF WithWord
  <2>4. QED
    BY <1>1, <2>1, <2>3, DelayedLoadType, AdvancedType, WordFacts
<1>6. CASE g \in Loaded(f)
  BY <1>2, <1>6, WordFacts DEF Loaded
<1>7. CASE g \in Stored(f)
  BY <1>1, <1>2, <1>7 DEF Stored
<1>8. QED
  BY <1>3, <1>4, <1>5, <1>6, <1>7 DEF InstructionResults


----------------------------------------------------------------------------
(* The inductive invariant *)

Lived == {"fresh", "root", "user", "tick", "interrupted", "fault", "trap", "forked"}

\* Where no load of a process is in progress: an interrupt there leaves its
\* registers alone.
Unloaded == {"fresh", "root", "trap", "exited"}

\* Who has an address space has registers: in the machine if it is the current
\* thread and they were restored, else in its save area.  A thread in ThreadRoot
\* may be restored by Schedule before Startup does it again.
ThreadInv(t) ==
    /\ at[t] \in {"unborn", "boot", "batch"} => space[t] = NoSpace /\ stateRestored[t]
    /\ at[t] \in Lived => space[t] # NoSpace
    /\ t \in ready => at[t] # "unborn"
    /\ space[t] # NoSpace => Good(PrivateRegisters(t))
    /\ space[t] # NoSpace /\ at[t] \in Unloaded => Settled(PrivateRegisters(t))
    /\ t # currentThread /\ space[t] # NoSpace => ~stateRestored[t]
    /\ t = currentThread => at[t] \notin {"fresh", "unborn"}
    /\ t = currentThread /\ space[t] # NoSpace /\ at[t] # "root"
          => stateRestored[t] /\ pageTable = <<t, space[t]>>
    /\ t = currentThread /\ at[t] = "root" /\ stateRestored[t] => registers = userRegisters[t]

MachineInv == TypeOK /\ \A t \in Threads : ThreadInv(t)

LEMMA InvImplies == MachineInv => TypeOK /\ HasMachine /\ ZeroRegister
<1> SUFFICES ASSUME MachineInv PROVE TypeOK /\ HasMachine /\ ZeroRegister
  OBVIOUS
<1>1. TypeOK /\ currentThread \in Threads
  BY DEF MachineInv, TypeOK
<1>2. HasMachine
  BY <1>1 DEF MachineInv, ThreadInv, HasMachine, Lived
<1>3. ZeroRegister
  BY DEF MachineInv, ThreadInv, ZeroRegister, Good
<1>4. QED
  BY <1>1, <1>2, <1>3

LEMMA InitInv == Init => MachineInv
<1> SUFFICES ASSUME Init PROVE MachineInv
  OBVIOUS
<1>1. registers \in RegisterFile
  BY RegisterNumbers, WordFacts DEF Init, RegisterFile
<1>2. Main \in Threads /\ NoSpace \notin {0, 1}
  BY ThreadsAssumption
<1>3. TypeOK
  BY <1>1, <1>2 DEF Init, TypeOK, Places
<1>4. ASSUME NEW t \in Threads PROVE ThreadInv(t)
  BY <1>2, <1>4 DEF Init, ThreadInv, Lived
<1>5. QED
  BY <1>3, <1>4 DEF MachineInv

\* Where a thread with an address space is when it has the processor
Awake == {"user", "tick", "interrupted", "fault", "trap", "forked"}

LEMMA RunningFacts ==
    ASSUME MachineInv, NEW t \in Threads, NEW q \in Awake, Running(t, q)
    PROVE  /\ t = currentThread /\ at[t] = q /\ ~asleep
           /\ space[t] # NoSpace /\ stateRestored[t]
           /\ PrivateRegisters(t) = registers /\ Good(registers)
           /\ q = "trap" => Settled(registers)
<1>1. t = currentThread /\ at[t] = q /\ ~asleep /\ ThreadInv(t)
  BY DEF Running, MachineInv
<1>2. space[t] # NoSpace /\ stateRestored[t]
  BY <1>1 DEF ThreadInv, Awake, Lived
<1>3. PrivateRegisters(t) = registers
  BY <1>1, <1>2 DEF PrivateRegisters
<1>4. QED
  BY <1>1, <1>2, <1>3 DEF ThreadInv, Unloaded

\* The current thread goes on to p, and its registers become f.
GoesOn(t, p, f) ==
    /\ at' = [at EXCEPT ![t] = p]
    /\ registers' = f
    /\ asleep' \in BOOLEAN
    /\ UNCHANGED <<pageTable, userRegisters, stateRestored, space, ready, currentThread>>

LEMMA GoesOnInv ==
    ASSUME MachineInv, NEW t \in Threads, NEW q \in Awake, Running(t, q),
           NEW p \in Awake \cup {"exited", "halted"}, NEW f, Good(f), GoesOn(t, p, f),
           p \in {"trap", "exited"} => Settled(f)
    PROVE  MachineInv'
<1>1. /\ t = currentThread /\ at[t] = q /\ TypeOK
      /\ space[t] # NoSpace /\ stateRestored[t] /\ ThreadInv(t)
  BY RunningFacts DEF MachineInv
<1>2. /\ \A u \in Threads : at'[u] = IF u = t THEN p ELSE at[u]
      /\ registers' = f /\ pageTable' = pageTable /\ userRegisters' = userRegisters
      /\ stateRestored' = stateRestored /\ space' = space /\ ready' = ready
      /\ currentThread' = currentThread
  BY <1>1 DEF GoesOn, TypeOK
<1>3. TypeOK'
  BY <1>1 DEF GoesOn, TypeOK, Places, Awake, Good
<1>4. ASSUME NEW u \in Threads PROVE ThreadInv(u)'
  <2>1. ThreadInv(u)
    BY DEF MachineInv
  <2>2. CASE u = t
    <3>1. PrivateRegisters(u)' = f
      BY <1>1, <1>2, <2>2 DEF PrivateRegisters
    <3>2. QED
      BY <1>1, <1>2, <2>2, <3>1 DEF ThreadInv, Awake, Lived, Unloaded
  <2>3. CASE u # t
    <3>1. PrivateRegisters(u)' = PrivateRegisters(u)
      BY <1>1, <1>2, <2>3 DEF PrivateRegisters
    <3>2. QED
      BY <1>1, <1>2, <2>1, <2>3, <3>1 DEF ThreadInv
  <2>4. QED
    BY <2>2, <2>3
<1>5. QED
  BY <1>3, <1>4 DEF MachineInv

\* A context switch: the threads on either side of it keep their registers, in
\* the machine or in their save areas.
LEMMA ScheduleFacts ==
    ASSUME MachineInv, NEW n \in Threads, NEW R \in SUBSET Threads, Schedule(n, R)
    PROVE  /\ \A u \in Threads : at'[u] = IF u = n /\ at[n] = "fresh" THEN "root" ELSE at[u]
           /\ space' = space /\ currentThread' = n /\ ready' = R /\ asleep' = FALSE
           /\ Restores(n) => /\ registers' = userRegisters'[n] /\ pageTable' = <<n, space[n]>>
                             /\ stateRestored'[n]
           /\ ~Restores(n) => registers' = registers /\ pageTable' = pageTable
           /\ \A u \in Threads : ~(u = n /\ Restores(n)) =>
                 stateRestored'[u] = (stateRestored[u] /\ ~(u = currentThread /\ space[u] # NoSpace))
           /\ \A u \in Threads : userRegisters'[u] =
                 IF space[u] # NoSpace THEN PrivateRegisters(u) ELSE userRegisters[u]
           /\ \A u \in Threads : space[u] # NoSpace => PrivateRegisters(u)' = PrivateRegisters(u)
<1> DEFINE t == currentThread
           saves == space[t] # NoSpace
           areas == IF saves THEN [userRegisters EXCEPT ![t] = SaveUserState(t, registers)]
                    ELSE userRegisters
<1>1. TypeOK /\ t \in Threads /\ \A u \in Threads : ThreadInv(u)
  BY DEF MachineInv, TypeOK
<1>2. /\ userRegisters' = areas
      /\ registers' = IF Restores(n) THEN areas[n] ELSE registers
      /\ pageTable' = IF Restores(n) THEN <<n, space[n]>> ELSE pageTable
      /\ space' = space /\ ready' = R /\ currentThread' = n /\ asleep' = FALSE
  BY DEF Schedule
<1>3. \A u \in Threads : stateRestored'[u] =
          IF u = n /\ Restores(n) THEN TRUE
          ELSE IF u = t /\ saves THEN FALSE ELSE stateRestored[u]
  BY DEF Schedule
<1>4. \A u \in Threads : at'[u] = IF u = n /\ at[n] = "fresh" THEN "root" ELSE at[u]
  BY <1>1 DEF Schedule, TypeOK
<1>5. \A u \in Threads : areas[u] =
          IF u = t /\ saves THEN (IF stateRestored[t] THEN registers ELSE userRegisters[t])
          ELSE userRegisters[u]
  BY <1>1 DEF TypeOK, SaveUserState
<1> HIDE DEF areas
<1>6. \A u \in Threads : areas[u] =
          IF space[u] # NoSpace THEN PrivateRegisters(u) ELSE userRegisters[u]
  BY <1>1, <1>5 DEF ThreadInv, PrivateRegisters
<1>7. ASSUME NEW u \in Threads, space[u] # NoSpace
      PROVE  PrivateRegisters(u)' = PrivateRegisters(u)
  <2>1. PrivateRegisters(u)' = IF u = n /\ stateRestored'[u] THEN registers' ELSE areas[u]
    BY <1>2 DEF PrivateRegisters
  <2>2. areas[u] = PrivateRegisters(u)
    BY <1>6, <1>7
  <2>3. CASE u = n /\ stateRestored'[u]
    <3>1. Restores(n)
      <4>1. ThreadInv(n) /\ ThreadInv(t)
        BY <1>1
      <4>2. at[n] = "fresh" => n # t /\ ~stateRestored[n]
        BY <1>7, <2>3, <4>1 DEF ThreadInv
      <4>3. SUFFICES ASSUME at[n] = "fresh" PROVE FALSE
        BY <1>7, <2>3 DEF Restores
      <4>4. QED
        BY <1>3, <2>3, <4>2, <4>3 DEF Restores
    <3>2. QED
      BY <1>2, <2>1, <2>2, <2>3, <3>1
  <2>4. QED
    BY <2>1, <2>2, <2>3
<1>8. \A u \in Threads : ~(u = n /\ Restores(n)) =>
          stateRestored'[u] = (stateRestored[u] /\ ~(u = t /\ space[u] # NoSpace))
  <2>1. stateRestored \in [Threads -> BOOLEAN]
    BY <1>1 DEF TypeOK
  <2>2. QED
    BY <1>3, <2>1
<1>9. QED
  BY <1>2, <1>3, <1>4, <1>6, <1>7, <1>8

LEMMA ScheduleInv ==
    ASSUME MachineInv, NEW n \in Threads, NEW R, R \subseteq ready \cup {currentThread},
           at[n] # "unborn", Schedule(n, R)
    PROVE  MachineInv'
<1>1. TypeOK /\ currentThread \in Threads /\ \A u \in Threads : ThreadInv(u)
  BY DEF MachineInv, TypeOK
<1>2. R \in SUBSET Threads
  BY <1>1 DEF TypeOK
<1>3. /\ \A u \in Threads : at'[u] = IF u = n /\ at[n] = "fresh" THEN "root" ELSE at[u]
      /\ space' = space /\ currentThread' = n /\ ready' = R /\ asleep' = FALSE
      /\ Restores(n) => /\ registers' = userRegisters'[n] /\ pageTable' = <<n, space[n]>>
                        /\ stateRestored'[n]
      /\ ~Restores(n) => registers' = registers /\ pageTable' = pageTable
      /\ \A u \in Threads : ~(u = n /\ Restores(n)) =>
            stateRestored'[u] = (stateRestored[u] /\ ~(u = currentThread /\ space[u] # NoSpace))
      /\ \A u \in Threads : userRegisters'[u] =
            IF space[u] # NoSpace THEN PrivateRegisters(u) ELSE userRegisters[u]
      /\ \A u \in Threads : space[u] # NoSpace => PrivateRegisters(u)' = PrivateRegisters(u)
  BY <1>2, ScheduleFacts
<1>4. TypeOK'
  <2>1. userRegisters' \in [Threads -> RegisterFile \cup {Unset}]
    <3>1. DOMAIN userRegisters' = Threads /\ userRegisters' = [u \in Threads |-> userRegisters'[u]]
      BY <1>1 DEF Schedule, TypeOK
    <3>2. ASSUME NEW u \in Threads PROVE userRegisters'[u] \in RegisterFile \cup {Unset}
      BY <1>1, <1>3 DEF ThreadInv, TypeOK, Good
    <3>3. QED
      BY <3>1, <3>2
  <2>2. registers' \in RegisterFile
    <3>1. Restores(n) => Good(PrivateRegisters(n)) /\ space[n] # NoSpace
      BY <1>1 DEF Restores, ThreadInv
    <3>2. QED
      BY <1>1, <1>3, <3>1 DEF TypeOK, Good
  <2>3. stateRestored' \in [Threads -> BOOLEAN]
    BY <1>1 DEF Schedule, TypeOK
  <2>4. at' \in [Threads -> Places]
    BY <1>1 DEF Schedule, TypeOK, Places
  <2>5. pageTable' \in Threads \X {NoSpace, 0, 1}
    BY <1>1, <1>3 DEF TypeOK
  <2>6. QED
    BY <1>1, <1>2, <1>3, <2>1, <2>2, <2>3, <2>4, <2>5 DEF TypeOK
<1>5. ASSUME NEW u \in Threads PROVE ThreadInv(u)'
  <2>1. ThreadInv(u) /\ ThreadInv(currentThread)
    BY <1>1
  <2>2. Restores(n) <=> space[n] # NoSpace /\ at[n] # "fresh"
    BY DEF Restores
  <2>3. at'[u] \in {"unborn", "boot", "batch"} => space'[u] = NoSpace /\ stateRestored'[u]
    BY <1>3, <2>1, <2>2 DEF ThreadInv
  <2>4. at'[u] \in Lived => space'[u] # NoSpace
    BY <1>3, <2>1 DEF ThreadInv, Lived
  <2>5. u \in ready' => at'[u] # "unborn"
    BY <1>3, <2>1 DEF ThreadInv
  <2>6. space'[u] # NoSpace => Good(PrivateRegisters(u))'
    BY <1>3, <2>1 DEF ThreadInv, Good
  <2>7. u # currentThread' /\ space'[u] # NoSpace => ~stateRestored'[u]
    BY <1>3, <2>1 DEF ThreadInv
  <2>8. u = currentThread' => at'[u] \notin {"fresh", "unborn"}
    BY <1>3
  <2>9. u = currentThread' /\ space'[u] # NoSpace /\ at'[u] # "root"
          => stateRestored'[u] /\ pageTable' = <<u, space'[u]>>
    BY <1>3, <2>2
  <2>10. u = currentThread' /\ at'[u] = "root" /\ stateRestored'[u]
          => registers' = userRegisters'[u]
    BY <1>1, <1>3, <2>1, <2>2 DEF ThreadInv, Lived
  <2>11. space'[u] # NoSpace /\ at'[u] \in Unloaded => Settled(PrivateRegisters(u))'
    BY <1>3, <2>1 DEF ThreadInv, Settled, Unloaded
  <2>12. QED
    BY <2>3, <2>4, <2>5, <2>6, <2>7, <2>8, <2>9, <2>10, <2>11 DEF ThreadInv
<1>6. QED
  BY <1>4, <1>5 DEF MachineInv

\* The current thread gets another address space.
LEMMA NewSpaceInv ==
    ASSUME MachineInv, NEW t \in Threads, t = currentThread, stateRestored[t], ~asleep,
           NEW p \in {"user", "tick"}, NEW f, Good(f), NewSpace(t, p, f)
    PROVE  MachineInv'
<1>1. TypeOK /\ ThreadInv(t) /\ NoSpace \notin {0, 1}
  BY ThreadsAssumption DEF MachineInv
<1>2. /\ \A u \in Threads : at'[u] = IF u = t THEN p ELSE at[u]
      /\ \A u \in Threads : space'[u] = IF u = t THEN (IF space[t] = 0 THEN 1 ELSE 0)
                                        ELSE space[u]
      /\ pageTable' = <<t, space'[t]>>
      /\ registers' = f /\ userRegisters' = userRegisters /\ stateRestored' = stateRestored
      /\ ready' = ready /\ currentThread' = currentThread /\ asleep' = asleep
  BY <1>1 DEF NewSpace, TypeOK
<1>3. TypeOK'
  <2>1. space' \in [Threads -> {NoSpace, 0, 1}] /\ at' \in [Threads -> Places]
    BY <1>1 DEF NewSpace, TypeOK, Places
  <2>2. QED
    BY <1>1, <1>2, <2>1 DEF TypeOK, Good
<1>4. ASSUME NEW u \in Threads PROVE ThreadInv(u)'
  <2>1. ThreadInv(u)
    BY DEF MachineInv
  <2>2. CASE u = t
    <3>1. PrivateRegisters(u)' = f
      BY <1>2, <2>2 DEF PrivateRegisters
    <3>2. QED
      BY <1>1, <1>2, <2>2, <3>1 DEF ThreadInv, Lived, Unloaded
  <2>3. CASE u # t
    <3>1. PrivateRegisters(u)' = PrivateRegisters(u)
      BY <1>2, <2>3 DEF PrivateRegisters
    <3>2. QED
      BY <1>2, <2>1, <2>3, <3>1 DEF ThreadInv
  <2>4. QED
    BY <2>2, <2>3
<1>5. QED
  BY <1>3, <1>4 DEF MachineInv

\* The current thread t creates the thread c, with the registers h, and goes on
\* at p with the registers g.
Birth(t, c, p, g, h) ==
    /\ at' = [at EXCEPT ![t] = p, ![c] = "fresh"]
    /\ registers' = g
    /\ userRegisters' = [userRegisters EXCEPT ![c] = h]
    /\ stateRestored' = [stateRestored EXCEPT ![c] = FALSE]
    /\ space' = [space EXCEPT ![c] = 0]
    /\ ready' = ready \cup {c}
    /\ UNCHANGED <<pageTable, currentThread, asleep>>

\* Where a thread is that creates another, and goes on
Creates(t, p) ==
    \/ at[t] = "trap" /\ p = "forked"
    \/ at[t] \in {"boot", "batch"} /\ p = "batch"

LEMMA BirthInv ==
    ASSUME MachineInv, NEW t \in Threads, t = currentThread, NEW c \in Threads,
           at[c] = "unborn", NEW p, NEW g, Good(g), NEW h, Good(h), Settled(h),
           Creates(t, p), Birth(t, c, p, g, h)
    PROVE  /\ MachineInv'
           /\ t # c /\ space[c] = NoSpace /\ space'[c] = 0
           /\ \A u \in Threads \ {c} : space'[u] = space[u]
           /\ PrivateRegisters(c)' = h
           /\ space[t] # NoSpace => PrivateRegisters(t)' = g
           /\ \A u \in Threads \ {t, c} : PrivateRegisters(u)' = PrivateRegisters(u)
           /\ \A u \in Threads : at'[u] = "exited" <=> at[u] = "exited"
<1>1. TypeOK /\ ThreadInv(t) /\ ThreadInv(c) /\ NoSpace \notin {0, 1}
  BY ThreadsAssumption DEF MachineInv
<1>2. t # c /\ space[c] = NoSpace /\ stateRestored[t]
  BY <1>1 DEF ThreadInv, Lived, Creates
<1>3. /\ \A u \in Threads : at'[u] = IF u = c THEN "fresh" ELSE IF u = t THEN p ELSE at[u]
      /\ \A u \in Threads : space'[u] = IF u = c THEN 0 ELSE space[u]
      /\ \A u \in Threads : stateRestored'[u] = IF u = c THEN FALSE ELSE stateRestored[u]
      /\ \A u \in Threads : userRegisters'[u] = IF u = c THEN h ELSE userRegisters[u]
      /\ registers' = g /\ pageTable' = pageTable
      /\ ready' = ready \cup {c} /\ currentThread' = currentThread /\ asleep' = asleep
  BY <1>1, <1>2 DEF Birth, TypeOK
<1>4. /\ PrivateRegisters(c)' = h
      /\ PrivateRegisters(t)' = g
      /\ \A u \in Threads \ {t, c} : PrivateRegisters(u)' = PrivateRegisters(u)
  BY <1>2, <1>3 DEF PrivateRegisters
<1>5. TypeOK'
  <2>1. at' \in [Threads -> Places] /\ space' \in [Threads -> {NoSpace, 0, 1}]
    BY <1>1 DEF Birth, TypeOK, Places, Creates
  <2>2. /\ userRegisters' \in [Threads -> RegisterFile \cup {Unset}]
        /\ stateRestored' \in [Threads -> BOOLEAN]
    BY <1>1 DEF Birth, TypeOK, Good
  <2>3. QED
    BY <1>1, <1>3, <2>1, <2>2 DEF TypeOK, Good
<1>6. ASSUME NEW u \in Threads PROVE ThreadInv(u)'
  <2>1. ThreadInv(u)
    BY DEF MachineInv
  <2>2. CASE u = c
    BY <1>1, <1>2, <1>3, <1>4, <2>2 DEF ThreadInv, Lived, Creates
  <2>3. CASE u = t
    BY <1>1, <1>2, <1>3, <1>4, <2>3 DEF ThreadInv, Lived, Creates, Unloaded
  <2>4. CASE u \notin {t, c}
    BY <1>2, <1>3, <1>4, <2>1, <2>4 DEF ThreadInv
  <2>5. QED
    BY <2>2, <2>3, <2>4
<1>7. QED
  BY <1>1, <1>2, <1>3, <1>4, <1>5, <1>6 DEF MachineInv, Creates

\* Both kinds of birth
LEMMA SysForkBirth ==
    ASSUME MachineInv, NEW t \in Threads, NEW c \in Threads, SysFork(t, c)
    PROVE  /\ t = currentThread /\ at[t] = "trap" /\ at[c] = "unborn"
           /\ Creates(t, "forked")
           /\ Good(Advance(registers)) /\ Good(WithResult(Advance(registers), 0))
           /\ Settled(WithResult(Advance(registers), 0))
           /\ Birth(t, c, "forked", Advance(registers), WithResult(Advance(registers), 0))
<1>1. Running(t, "trap") /\ at[c] = "unborn" /\ ThreadInv(c)
  BY DEF SysFork, MachineInv
<1>2. t = currentThread /\ at[t] = "trap" /\ Good(registers) /\ Settled(registers)
  BY <1>1, RunningFacts DEF Awake
<1>3. /\ Good(Advance(registers)) /\ Good(WithResult(Advance(registers), 0))
      /\ Settled(WithResult(Advance(registers), 0))
  BY <1>2, AdvanceType, WithResultType, WordFacts
<1>4. SaveUserState(c, Advance(registers)) = Advance(registers)
  BY <1>1 DEF ThreadInv, SaveUserState
<1>5. QED
  BY <1>1, <1>2, <1>3, <1>4 DEF SysFork, Birth, Creates

LEMMA BatchForkBirth ==
    ASSUME MachineInv, NEW t \in Threads, NEW c \in Threads, BatchFork(t, c)
    PROVE  /\ t = currentThread /\ at[t] \in {"boot", "batch"} /\ at[c] = "unborn"
           /\ Creates(t, "batch")
           /\ Birth(t, c, "batch", InitialRegisters, InitialRegisters)
<1>1. ThreadInv(c) /\ at[c] = "unborn"
  BY DEF MachineInv, BatchFork
<1>2. SaveUserState(c, InitialRegisters) = InitialRegisters
  BY <1>1 DEF ThreadInv, SaveUserState
<1>3. QED
  BY <1>1, <1>2 DEF BatchFork, Birth, Creates

\* Startup loads what is in the save area; if Schedule has done so before, the
\* registers in the machine are the same.
LEMMA StartupFacts ==
    ASSUME MachineInv, NEW t \in Threads, Startup(t)
    PROVE  /\ MachineInv'
           /\ space' = space
           /\ \A u \in Threads : space[u] # NoSpace => PrivateRegisters(u)' = PrivateRegisters(u)
           /\ \A u \in Threads : at'[u] = "exited" <=> at[u] = "exited"
<1>1. /\ TypeOK /\ ThreadInv(t) /\ t = currentThread /\ at[t] = "root"
  BY DEF MachineInv, Startup, Running
<1>2. space[t] # NoSpace /\ PrivateRegisters(t) = userRegisters[t] /\ Good(userRegisters[t])
  BY <1>1 DEF ThreadInv, Lived, PrivateRegisters
<1>3. /\ \A u \in Threads : at'[u] = IF u = t THEN "user" ELSE at[u]
      /\ \A u \in Threads : stateRestored'[u] = IF u = t THEN TRUE ELSE stateRestored[u]
      /\ registers' = userRegisters[t] /\ pageTable' = <<t, space[t]>>
      /\ userRegisters' = userRegisters /\ space' = space /\ ready' = ready
      /\ currentThread' = currentThread /\ asleep' = asleep
  BY <1>1 DEF Startup, TypeOK
<1>4. \A u \in Threads : PrivateRegisters(u)' = PrivateRegisters(u)
  BY <1>1, <1>2, <1>3 DEF PrivateRegisters
<1>5. TypeOK'
  <2>1. at' \in [Threads -> Places] /\ stateRestored' \in [Threads -> BOOLEAN]
    BY <1>1 DEF Startup, TypeOK, Places
  <2>2. QED
    BY <1>1, <1>2, <1>3, <2>1 DEF TypeOK, Good
<1>6. ASSUME NEW u \in Threads PROVE ThreadInv(u)'
  <2>1. ThreadInv(u)
    BY DEF MachineInv
  <2>2. CASE u = t
    BY <1>1, <1>2, <1>3, <1>4, <2>2 DEF ThreadInv, Lived, Unloaded
  <2>3. CASE u # t
    BY <1>1, <1>3, <1>4, <2>1, <2>3 DEF ThreadInv
  <2>4. QED
    BY <2>2, <2>3
<1>7. QED
  BY <1>1, <1>3, <1>4, <1>5, <1>6 DEF MachineInv

LEMMA WakeInv ==
    ASSUME MachineInv, NEW u \in Threads, Wake(u)
    PROVE  MachineInv'
<1>1. TypeOK'
  BY DEF MachineInv, TypeOK, Wake, Sleepers
<1>2. ASSUME NEW t \in Threads PROVE ThreadInv(t)'
  <2>1. ThreadInv(t) /\ PrivateRegisters(t)' = PrivateRegisters(t)
    BY DEF MachineInv, Wake, PrivateRegisters
  <2>2. QED
    BY <2>1 DEF ThreadInv, Wake, Sleepers
<1>3. QED
  BY <1>1, <1>2 DEF MachineInv

\* An interrupt completes a load of the process whose registers are in the
\* machine, if there is such a process, and there is a load.
LEMMA InterruptFacts ==
    ASSUME MachineInv, Interrupt, NEW t \in Threads, t = currentThread
    PROVE  /\ MachineInv'
           /\ space' = space
           /\ \A u \in Threads : at'[u] = "exited" <=> at[u] = "exited"
           /\ \A u \in Threads \ {t} : PrivateRegisters(u)' = PrivateRegisters(u)
           /\ space[t] # NoSpace =>
                 \/ PrivateRegisters(t)' = PrivateRegisters(t)
                 \/ at[t] # "exited" /\ PrivateRegisters(t)' = Trapped(PrivateRegisters(t))
<1>1. TypeOK /\ ThreadInv(t) /\ registers \in RegisterFile
  BY DEF MachineInv, TypeOK
<1>2. /\ registers' = Trapped(registers) /\ Good(registers') /\ Settled(registers')
      /\ pageTable' = pageTable /\ userRegisters' = userRegisters /\ space' = space
      /\ stateRestored' = stateRestored /\ currentThread' = t /\ asleep' = asleep
      /\ ready' \subseteq ready \cup Sleepers
  BY <1>1, TrappedType DEF Interrupt
<1>3. \A u \in Threads : at'[u] = IF u = t /\ at[u] = "tick" THEN "interrupted" ELSE at[u]
  BY <1>1 DEF Interrupt, TypeOK
<1>4. \A u \in Threads \ {t} : PrivateRegisters(u)' = PrivateRegisters(u)
  BY <1>2 DEF PrivateRegisters
<1>5. ~stateRestored[t] => PrivateRegisters(t)' = PrivateRegisters(t)
  BY <1>2 DEF PrivateRegisters
<1>6. stateRestored[t] => /\ PrivateRegisters(t) = registers
                          /\ PrivateRegisters(t)' = Trapped(registers)
  BY <1>2 DEF PrivateRegisters
<1>7. space[t] # NoSpace /\ at[t] \in Unloaded => PrivateRegisters(t)' = PrivateRegisters(t)
  BY <1>1, <1>5, <1>6, TrappedSettled DEF ThreadInv
<1>8. at[t] = "root" /\ stateRestored[t] => registers' = userRegisters[t]
  <2> SUFFICES ASSUME at[t] = "root", stateRestored[t] PROVE registers' = userRegisters[t]
    OBVIOUS
  <2>1. registers = userRegisters[t] /\ space[t] # NoSpace
    BY <1>1 DEF ThreadInv, Lived
  <2>2. Trapped(registers) = registers
    BY <1>6, <1>7, <2>1 DEF Unloaded
  <2>3. QED
    BY <1>2, <2>1, <2>2
<1>9. TypeOK'
  <2>1. at' \in [Threads -> Places]
    BY <1>1 DEF Interrupt, TypeOK, Places
  <2>2. QED
    BY <1>1, <1>2, <2>1 DEF TypeOK, Good, Sleepers
<1>10. ASSUME NEW u \in Threads PROVE ThreadInv(u)'
  <2>1. ThreadInv(u)
    BY DEF MachineInv
  <2>2. u \in ready' => at[u] # "unborn"
    BY <1>2, <2>1 DEF ThreadInv, Sleepers
  <2>3. CASE u = t
    <3>1. space[t] # NoSpace => Good(PrivateRegisters(t))'
      BY <1>1, <1>2, <1>5, <1>6 DEF ThreadInv, Good
    <3>2. space[t] # NoSpace /\ at[t] \in Unloaded => Settled(PrivateRegisters(t))'
      BY <1>1, <1>7 DEF ThreadInv, Settled
    <3>3. QED
      BY <1>1, <1>2, <1>3, <1>8, <2>2, <2>3, <3>1, <3>2 DEF ThreadInv, Lived, Unloaded
  <2>4. CASE u # t
    BY <1>2, <1>3, <1>4, <2>1, <2>2, <2>4 DEF ThreadInv, Good, Settled
  <2>5. QED
    BY <2>3, <2>4
<1>11. \A u \in Threads : at'[u] = "exited" <=> at[u] = "exited"
  BY <1>3
<1>12. space[t] # NoSpace =>
          \/ PrivateRegisters(t)' = PrivateRegisters(t)
          \/ at[t] # "exited" /\ PrivateRegisters(t)' = Trapped(PrivateRegisters(t))
  BY <1>5, <1>6, <1>7 DEF Unloaded
<1>13. QED
  BY <1>2, <1>4, <1>9, <1>10, <1>11, <1>12 DEF MachineInv

LEMMA BatchExitInv ==
    ASSUME MachineInv, NEW t \in Threads, BatchExit(t)
    PROVE  MachineInv' /\ space[t] = NoSpace
<1>1. TypeOK /\ ThreadInv(t) /\ t = currentThread /\ at[t] \in {"boot", "batch"}
  BY DEF MachineInv, BatchExit
<1>2. \A u \in Threads : at'[u] = IF u = t THEN "exited" ELSE at[u]
  BY <1>1 DEF BatchExit, TypeOK
<1>3. TypeOK'
  BY <1>1 DEF BatchExit, TypeOK, Places
<1>4. ASSUME NEW u \in Threads PROVE ThreadInv(u)'
  <2>1. ThreadInv(u) /\ PrivateRegisters(u)' = PrivateRegisters(u)
    BY DEF MachineInv, BatchExit, PrivateRegisters
  <2>2. QED
    BY <1>1, <1>2, <2>1 DEF ThreadInv, BatchExit, Lived, Unloaded
<1>5. QED
  BY <1>1, <1>3, <1>4 DEF MachineInv, ThreadInv

----------------------------------------------------------------------------
(* Every step keeps the invariant *)

\* The actions in which only the registers and the place of t change
LEMMA ContinueGoesOn ==
    ASSUME NEW t, NEW p, NEW f, MachineInv, Continue(t, p, f)
    PROVE  GoesOn(t, p, f)
BY DEF Continue, GoesOn, MachineInv, TypeOK

LEMMA WaitGoesOn ==
    ASSUME MachineInv, NEW t \in Threads
    PROVE  /\ SysWait(t) => Running(t, "trap") /\ GoesOn(t, "trap", registers)
           /\ KernelFault(t) => Running(t, "trap") /\ GoesOn(t, "trap", Trapped(registers))
           /\ PageFault(t) => Running(t, "user") /\ GoesOn(t, "fault", Trapped(registers))
           /\ SysExit(t) => Running(t, "trap") /\ GoesOn(t, "exited", registers)
<1>1. at \in [Threads -> Places]
  BY DEF MachineInv, TypeOK
<1>2. at[t] = "trap" => at = [at EXCEPT ![t] = "trap"]
  BY <1>1
<1>3. QED
  BY <1>2 DEF SysWait, KernelFault, PageFault, SysExit, GoesOn, Running

\* What the current thread does in user code and in system calls
UserStep(t) ==
    \/ OneInstruction(t) \/ TickReturn(t) \/ PageFault(t) \/ FaultReturn(t)
    \/ Syscall(t) \/ Unexpected(t)
    \/ SysWait(t) \/ KernelFault(t) \/ SysReturn(t) \/ ForkReturn(t)
    \/ SysExit(t) \/ SysHalt(t)

LEMMA UserStepInv ==
    ASSUME MachineInv, NEW t \in Threads, UserStep(t)
    PROVE  MachineInv'
<1>1. ASSUME NEW q \in Awake, Running(t, q), NEW p \in Awake \cup {"exited", "halted"},
             NEW f, Good(registers) => Good(f), GoesOn(t, p, f),
             p \in {"trap", "exited"} => (q = "trap" /\ f = registers) \/ Settled(f)
      PROVE  MachineInv'
  <2>1. Good(f) /\ (q = "trap" => Settled(registers))
    BY <1>1, RunningFacts
  <2>2. p \in {"trap", "exited"} => Settled(f)
    BY <1>1, <2>1
  <2>3. QED
    BY <1>1, <2>1, <2>2, GoesOnInv
<1>2. \A f : Good(f) => /\ Good(Trapped(f)) /\ Good(Advance(f))
                        /\ \A v \in Values : Good(WithResult(f, v))
                        /\ \A g \in InstructionResults(f) : Good(g)
  BY TrappedType, AdvanceType, WithResultType, ResultsType, WordFacts DEF Good
<1>0. registers \in RegisterFile /\ Settled(Trapped(registers))
  BY TrappedType DEF MachineInv, TypeOK
<1>3. CASE OneInstruction(t)
  <2>1. PICK f \in InstructionResults(registers) : Continue(t, "tick", f)
    BY <1>3 DEF OneInstruction
  <2>2. QED
    BY <1>1, <1>2, <1>3, <2>1, ContinueGoesOn DEF OneInstruction, Awake
<1>4. CASE TickReturn(t)
  BY <1>1, <1>4, ContinueGoesOn DEF TickReturn, Awake
<1>5. CASE PageFault(t)
  BY <1>1, <1>2, <1>5, WaitGoesOn DEF Awake
<1>6. CASE FaultReturn(t)
  BY <1>1, <1>6, ContinueGoesOn DEF FaultReturn, Awake
<1>7. CASE Syscall(t)
  BY <1>0, <1>1, <1>2, <1>7, ContinueGoesOn DEF Syscall, Awake
<1>8. CASE Unexpected(t)
  BY <1>1, <1>2, <1>8, ContinueGoesOn DEF Unexpected, Awake
<1>9. CASE SysWait(t)
  BY <1>1, <1>9, WaitGoesOn DEF Awake
<1>10. CASE KernelFault(t)
  BY <1>0, <1>1, <1>2, <1>10, WaitGoesOn DEF Awake
<1>11. CASE SysReturn(t)
  <2>1. PICK f \in {Advance(registers)} \cup {WithResult(Advance(registers), v) : v \in Values} :
          Continue(t, "tick", f)
    BY <1>11 DEF SysReturn
  <2>2. Good(registers) => Good(f)
    BY <1>2, <2>1
  <2>3. QED
    BY <1>1, <1>11, <2>1, <2>2, ContinueGoesOn DEF SysReturn, Awake
<1>12. CASE ForkReturn(t)
  <2>1. PICK v \in Values : Continue(t, "tick", WithResult(registers, v))
    BY <1>12 DEF ForkReturn
  <2>2. QED
    BY <1>1, <1>2, <1>12, <2>1, ContinueGoesOn DEF ForkReturn, Awake
<1>13. CASE SysExit(t)
  BY <1>1, <1>13, WaitGoesOn DEF Awake
<1>14. CASE SysHalt(t)
  BY <1>1, <1>14, ContinueGoesOn DEF SysHalt, Awake
<1>15. QED
  BY <1>3, <1>4, <1>5, <1>6, <1>7, <1>8, <1>9, <1>10, <1>11, <1>12, <1>13, <1>14 DEF UserStep

\* SysExec either replaces the program or lets the call be made again;
\* ShmAllocate replaces the address space.
LEMMA SpaceStepInv ==
    ASSUME MachineInv, NEW t \in Threads,
           SysExec(t) \/ SysShmAllocate(t) \/ StartUserProcess(t)
    PROVE  MachineInv'
<1>1. TypeOK /\ ThreadInv(t)
  BY DEF MachineInv
<1>2. CASE SysExec(t) /\ Continue(t, "tick", registers)
  BY <1>2, RunningFacts, ContinueGoesOn, GoesOnInv DEF SysExec, Awake
<1>3. CASE SysExec(t) /\ NewSpace(t, "user", InitialRegisters)
  BY <1>3, RunningFacts, NewSpaceInv, InitialType DEF SysExec, Awake
<1>4. CASE SysShmAllocate(t)
  <2>1. PICK v \in Values : NewSpace(t, "tick", WithResult(Advance(registers), v))
    BY <1>4 DEF SysShmAllocate
  <2>2. Good(registers) /\ t = currentThread /\ stateRestored[t] /\ ~asleep
    BY <1>4, RunningFacts DEF SysShmAllocate, Awake
  <2>3. Good(WithResult(Advance(registers), v))
    BY <2>2, AdvanceType, WithResultType, WordFacts
  <2>4. QED
    BY <2>1, <2>2, <2>3, NewSpaceInv
<1>5. CASE StartUserProcess(t)
  <2>1. t = currentThread /\ ~asleep /\ at[t] = "boot" /\ stateRestored[t]
    BY <1>1, <1>5 DEF StartUserProcess, Running, ThreadInv
  <2>2. QED
    BY <1>5, <2>1, NewSpaceInv, InitialType DEF StartUserProcess
<1>6. QED
  BY <1>2, <1>3, <1>4, <1>5 DEF SysExec

\* The steps in which the scheduler chooses n
LEMMA SwitchFacts ==
    ASSUME MachineInv, NEW n \in Threads, Yield(n) \/ Dispatch(n)
    PROVE  \E R : R \subseteq ready \cup {currentThread} /\ at[n] # "unborn" /\ Schedule(n, R)
<1>1. ThreadInv(n)
  BY DEF MachineInv
<1>2. CASE Yield(n)
  <2>1. n \in ready \cup {currentThread} /\ at[n] # "unborn"
    BY <1>1, <1>2 DEF Yield, ThreadInv
  <2>2. QED
    BY <1>2, <2>1 DEF Yield
<1>3. CASE Dispatch(n)
  BY <1>1, <1>3 DEF Dispatch, ThreadInv
<1>4. QED
  BY <1>2, <1>3

LEMMA NextInv == MachineInv /\ [Next]_vars => MachineInv'
<1> SUFFICES ASSUME MachineInv, [Next]_vars PROVE MachineInv'
  OBVIOUS
<1>1. CASE UNCHANGED vars
  BY <1>1 DEF vars, MachineInv, TypeOK, ThreadInv, PrivateRegisters, Good, Settled
<1>2. ASSUME NEW t \in Threads, Yield(t) \/ Dispatch(t) PROVE MachineInv'
  BY <1>2, SwitchFacts, ScheduleInv
<1>3. ASSUME NEW t \in Threads, UserStep(t) PROVE MachineInv'
  BY <1>3, UserStepInv
<1>4. ASSUME NEW t \in Threads, SysExec(t) \/ SysShmAllocate(t) \/ StartUserProcess(t)
      PROVE  MachineInv'
  BY <1>4, SpaceStepInv
<1>5. ASSUME NEW t \in Threads, Wake(t) PROVE MachineInv'
  BY <1>5, WakeInv
<1>6. ASSUME NEW t \in Threads, Startup(t) PROVE MachineInv'
  BY <1>6, StartupFacts
<1>7. ASSUME NEW t \in Threads, BatchExit(t) PROVE MachineInv'
  BY <1>7, BatchExitInv
<1>8. ASSUME NEW t \in Threads, NEW c \in Threads, SysFork(t, c) PROVE MachineInv'
  BY <1>8, SysForkBirth, BirthInv
<1>9. ASSUME NEW t \in Threads, NEW c \in Threads, BatchFork(t, c) PROVE MachineInv'
  BY <1>9, BatchForkBirth, BirthInv, InitialType
<1>10. CASE Interrupt
  <2>1. currentThread \in Threads
    BY DEF MachineInv, TypeOK
  <2>2. QED
    BY <1>10, <2>1, InterruptFacts
<1>11. CASE Terminated
  BY <1>1, <1>11 DEF Terminated
<1>12. QED
  BY <1>1, <1>2, <1>3, <1>4, <1>5, <1>6, <1>7, <1>8, <1>9, <1>10, <1>11 DEF Next, UserStep

\* Wherever a thread is on its way through Startup, a switch or a system call,
\* its registers and its address space are in the place the code looks for them
\* next.
THEOREM InvCorrect == Spec => []MachineInv
<1>1. Init => MachineInv
  BY InitInv
<1>2. MachineInv /\ [Next]_vars => MachineInv'
  BY NextInv
<1>3. QED
  BY <1>1, <1>2, PTL DEF Spec

\* Every variable of the user machine keeps its type.
THEOREM MachineTypeCorrect == Spec => []TypeOK
BY InvCorrect, InvImplies, PTL

\* A thread that executes user code has the machine for itself, for any number
\* of threads and any registers and words.
THEOREM MachineCorrect == Spec => []HasMachine
BY InvCorrect, InvImplies, PTL

\* Register 0 is zero in every process, wherever its registers are.
THEOREM ZeroCorrect == Spec => []ZeroRegister
BY InvCorrect, InvImplies, PTL

----------------------------------------------------------------------------
(* The refinement: no process can tell from its registers that it shares the
   machine. *)

\* The abstract specification has the same instructions, traps and calls.
LEMMA SameRegisters ==
    \A f : /\ Private!InstructionResults(f) = InstructionResults(f)
           /\ Private!Trapped(f) = Trapped(f)
           /\ Private!Advance(f) = Advance(f)
           /\ \A v : Private!WithResult(f, v) = WithResult(f, v)
<1>1. /\ Private!PCReg = PCReg /\ Private!NextPCReg = NextPCReg /\ Private!LoadReg = LoadReg
      /\ Private!LoadValueReg = LoadValueReg /\ Private!ReturnReg = ReturnReg
      /\ Private!HiReg = HiReg /\ Private!LoReg = LoReg
  BY DEF PCReg, NextPCReg, LoadReg, LoadValueReg, ReturnReg, HiReg, LoReg,
         Private!PCReg, Private!NextPCReg, Private!LoadReg, Private!LoadValueReg,
         Private!ReturnReg, Private!HiReg, Private!LoReg
<1>2. Private!AllRegs = AllRegs
  BY <1>1 DEF AllRegs, Private!AllRegs
<1>3. \A f, r, v : Private!WithWord(f, r, v) = WithWord(f, r, v)
  BY DEF WithWord, Private!WithWord
<1>4. \A f, r, v : Private!DelayedLoad(f, r, v) = DelayedLoad(f, r, v)
  BY <1>1, Zenon DEF DelayedLoad, Private!DelayedLoad
<1>5. \A f, pc : Private!Advanced(f, pc) = Advanced(f, pc)
  BY <1>1, Zenon DEF Advanced, Private!Advanced
<1>6. \A f : Private!Advance(f) = Advance(f)
  BY <1>1, <1>5 DEF Advance, Private!Advance
<1>7. \A f, v : Private!WithResult(f, v) = WithResult(f, v)
  BY <1>1, <1>3 DEF WithResult, Private!WithResult
<1>8. \A f : Private!Trapped(f) = Trapped(f)
  BY <1>4 DEF Trapped, Private!Trapped
<1>9. ASSUME NEW f PROVE Private!InstructionResults(f) = InstructionResults(f)
  <2>1. Private!Computed(f) = Computed(f)
    BY <1>3, <1>4, <1>6 DEF Computed, Private!Computed
  <2>2. Private!Divided(f) = Divided(f)
    BY <1>1, <1>2, <1>4, <1>6 DEF Divided, Private!Divided
  <2>3. Private!Branched(f) = Branched(f)
    BY <1>1, <1>3, <1>4, <1>5 DEF Branched, Private!Branched
  <2>4. Private!Loaded(f) = Loaded(f)
    BY <1>4, <1>6 DEF Loaded, Private!Loaded
  <2>5. Private!Stored(f) = Stored(f)
    BY <1>4, <1>6 DEF Stored, Private!Stored
  <2>6. QED
    BY <2>1, <2>2, <2>3, <2>4, <2>5 DEF InstructionResults, Private!InstructionResults
<1>10. QED
  BY <1>6, <1>7, <1>8, <1>9

----------------------------------------------------------------------------
(* What the steps look like through the mapping *)

LEMMA MappedInit == Init => Private!Init
<1>1. Private!InitialRegisters = InitialRegisters
  BY DEF InitialRegisters, Private!InitialRegisters, AllRegs, Private!AllRegs,
         PCReg, NextPCReg, LoadReg, LoadValueReg,
         Private!PCReg, Private!NextPCReg, Private!LoadReg, Private!LoadValueReg
<1>2. QED
  BY <1>1 DEF Init, Private!Init, life, regs

\* No process's registers change, and none is born or dies.
LEMMA Stutters ==
    ASSUME space' = space,
           \A u \in Threads : space[u] # NoSpace => PrivateRegisters(u)' = PrivateRegisters(u),
           \A u \in Threads : space[u] # NoSpace => (at'[u] = "exited" <=> at[u] = "exited")
    PROVE  UNCHANGED Private!vars
<1>1. life' = life
  BY DEF life
<1>2. regs' = regs
  BY DEF regs
<1>3. QED
  BY <1>1, <1>2 DEF Private!vars

\* The current thread goes on with other registers, or exits.
LEMMA GoesOnMaps ==
    ASSUME MachineInv, NEW t \in Threads, NEW q \in Awake, Running(t, q),
           NEW p \in Awake \cup {"exited", "halted"}, NEW f, GoesOn(t, p, f)
    PROVE  /\ regs[t] = registers
           /\ p # "exited" => Private!Set(t, f)
           /\ p = "exited" /\ f = registers => Private!Exit(t)
           /\ p # "exited" /\ f = registers => UNCHANGED Private!vars
<1>1. /\ t = currentThread /\ at[t] = q /\ space[t] # NoSpace /\ stateRestored[t]
      /\ PrivateRegisters(t) = registers /\ TypeOK
  BY RunningFacts DEF MachineInv
<1>2. /\ \A u \in Threads : at'[u] = IF u = t THEN p ELSE at[u]
      /\ registers' = f /\ userRegisters' = userRegisters
      /\ stateRestored' = stateRestored /\ space' = space /\ currentThread' = currentThread
  BY <1>1 DEF GoesOn, TypeOK
<1>3. PrivateRegisters(t)' = f
  BY <1>1, <1>2 DEF PrivateRegisters
<1>4. \A u \in Threads \ {t} : PrivateRegisters(u)' = PrivateRegisters(u)
  BY <1>1, <1>2 DEF PrivateRegisters
<1>5. regs[t] = registers /\ regs' = [regs EXCEPT ![t] = f]
  BY <1>1, <1>2, <1>3, <1>4 DEF regs
<1>6. life[t] = "alive" /\ life' = [life EXCEPT ![t] = IF p = "exited" THEN "gone" ELSE "alive"]
  BY <1>1, <1>2 DEF life, Awake
<1>7. regs = [u \in Threads |-> regs[u]] /\ life = [u \in Threads |-> life[u]]
  BY DEF life, regs
<1>8. regs = [regs EXCEPT ![t] = registers]
  BY <1>5, <1>7
<1>9. life = [life EXCEPT ![t] = "alive"]
  BY <1>6, <1>7
<1>10. QED
  BY <1>5, <1>6, <1>8, <1>9 DEF Private!Set, Private!Exit, Private!vars

\* The current thread goes on in a new address space: a process that exists, or
\* main as it becomes one.
LEMMA NewSpaceMaps ==
    ASSUME MachineInv, NEW t \in Threads, t = currentThread, stateRestored[t],
           at[t] # "exited", NEW p \in {"user", "tick"}, NEW f, NewSpace(t, p, f)
    PROVE  /\ space[t] # NoSpace => regs[t] = registers /\ Private!Set(t, f)
           /\ space[t] = NoSpace => /\ life[t] = "unborn"
                                    /\ life' = [life EXCEPT ![t] = "alive"]
                                    /\ regs' = [regs EXCEPT ![t] = f]
<1>1. TypeOK /\ NoSpace \notin {0, 1}
  BY ThreadsAssumption DEF MachineInv
<1>2. /\ \A u \in Threads : at'[u] = IF u = t THEN p ELSE at[u]
      /\ \A u \in Threads : space'[u] = IF u = t THEN (IF space[t] = 0 THEN 1 ELSE 0)
                                        ELSE space[u]
      /\ registers' = f /\ userRegisters' = userRegisters /\ stateRestored' = stateRestored
      /\ currentThread' = currentThread
  BY <1>1 DEF NewSpace, TypeOK
<1>3. PrivateRegisters(t) = registers /\ PrivateRegisters(t)' = f
  BY <1>2 DEF PrivateRegisters
<1>4. \A u \in Threads \ {t} : PrivateRegisters(u)' = PrivateRegisters(u)
  BY <1>2 DEF PrivateRegisters
<1>5. space'[t] # NoSpace /\ at'[t] # "exited"
  BY <1>1, <1>2
<1>6. regs' = [regs EXCEPT ![t] = f]
  BY <1>2, <1>3, <1>4, <1>5 DEF regs
<1>7. life' = [life EXCEPT ![t] = "alive"]
  BY <1>2, <1>5 DEF life
<1>8. CASE space[t] # NoSpace
  <2>1. regs[t] = registers /\ life[t] = "alive"
    BY <1>3, <1>8 DEF regs, life
  <2>2. life = [life EXCEPT ![t] = "alive"]
    BY <2>1 DEF life
  <2>3. QED
    BY <1>6, <1>7, <1>8, <2>1, <2>2 DEF Private!Set
<1>9. CASE space[t] = NoSpace
  BY <1>6, <1>7, <1>9 DEF life
<1>10. QED
  BY <1>8, <1>9

\* A thread is born with the registers h.
LEMMA BirthMaps ==
    ASSUME MachineInv, NEW t \in Threads, t = currentThread, NEW c \in Threads,
           at[c] = "unborn", NEW p, NEW g, Good(g), NEW h, Good(h), Settled(h),
           Creates(t, p), Birth(t, c, p, g, h)
    PROVE  /\ life[c] = "unborn" /\ life' = [life EXCEPT ![c] = "alive"]
           /\ space[t] = NoSpace => regs' = [regs EXCEPT ![c] = h]
           /\ space[t] # NoSpace => regs' = [regs EXCEPT ![t] = g, ![c] = h]
<1>1. /\ t # c /\ space[c] = NoSpace /\ space'[c] = 0
      /\ \A u \in Threads \ {c} : space'[u] = space[u]
      /\ PrivateRegisters(c)' = h
      /\ space[t] # NoSpace => PrivateRegisters(t)' = g
      /\ \A u \in Threads \ {t, c} : PrivateRegisters(u)' = PrivateRegisters(u)
      /\ \A u \in Threads : at'[u] = "exited" <=> at[u] = "exited"
  BY BirthInv
<1>2. space'[c] # NoSpace
  BY <1>1, ThreadsAssumption
<1>3. life[c] = "unborn" /\ life' = [life EXCEPT ![c] = "alive"]
  BY <1>1, <1>2 DEF life
<1>4. \A u \in Threads : regs'[u] = IF u = c THEN h
                                    ELSE IF u = t /\ space[t] # NoSpace THEN g ELSE regs[u]
  BY <1>1, <1>2 DEF regs
<1>5. regs = [u \in Threads |-> regs[u]] /\ regs' = [u \in Threads |-> regs'[u]]
  BY DEF regs
<1>6. CASE space[t] = NoSpace
  BY <1>3, <1>4, <1>5, <1>6
<1>7. CASE space[t] # NoSpace
  BY <1>1, <1>3, <1>4, <1>5, <1>7
<1>8. QED
  BY <1>6, <1>7

----------------------------------------------------------------------------
(* Every step is a step of PrivateMachines, or a stutter *)

LEMMA UserStepMaps ==
    ASSUME MachineInv, NEW t \in Threads, UserStep(t)
    PROVE  [Private!Next]_(Private!vars)
<1>1. ASSUME NEW q \in Awake, Running(t, q), NEW p \in Awake \cup {"halted"},
             GoesOn(t, p, registers)
      PROVE  UNCHANGED Private!vars
  BY <1>1, GoesOnMaps DEF Awake
<1>2. ASSUME NEW q \in Awake, Running(t, q), NEW p \in Awake \cup {"halted"},
             NEW f, GoesOn(t, p, f)
      PROVE  regs[t] = registers /\ Private!Set(t, f)
  BY <1>2, GoesOnMaps DEF Awake
<1>3. ASSUME NEW q \in Awake, Running(t, q), NEW p \in Awake \cup {"halted"},
             GoesOn(t, p, Trapped(registers))
      PROVE  Private!Next
  BY <1>2, <1>3, SameRegisters DEF Private!Next, Private!Trap
<1>4. CASE OneInstruction(t)
  <2>1. PICK f \in InstructionResults(registers) : Continue(t, "tick", f)
    BY <1>4 DEF OneInstruction
  <2>2. regs[t] = registers /\ Private!Set(t, f)
    BY <1>2, <1>4, <2>1, ContinueGoesOn DEF OneInstruction, Awake
  <2>3. Private!Instruction(t)
    BY <2>1, <2>2, SameRegisters DEF Private!Instruction
  <2>4. QED
    BY <2>3 DEF Private!Next
<1>5. CASE TickReturn(t)
  BY <1>1, <1>5, ContinueGoesOn DEF TickReturn, Awake
<1>6. CASE PageFault(t)
  BY <1>3, <1>6, WaitGoesOn DEF Awake
<1>7. CASE FaultReturn(t)
  BY <1>1, <1>7, ContinueGoesOn DEF FaultReturn, Awake
<1>8. CASE Syscall(t)
  BY <1>3, <1>8, ContinueGoesOn DEF Syscall, Awake
<1>9. CASE Unexpected(t)
  BY <1>3, <1>9, ContinueGoesOn DEF Unexpected, Awake
<1>10. CASE SysWait(t)
  BY <1>1, <1>10, WaitGoesOn DEF Awake
<1>11. CASE KernelFault(t)
  BY <1>3, <1>11, WaitGoesOn DEF Awake
<1>12. CASE SysReturn(t)
  <2>1. PICK f \in {Advance(registers)} \cup {WithResult(Advance(registers), v) : v \in Values} :
          Continue(t, "tick", f)
    BY <1>12 DEF SysReturn
  <2>2. regs[t] = registers /\ Private!Set(t, f)
    BY <1>2, <1>12, <2>1, ContinueGoesOn DEF SysReturn, Awake
  <2>3. Private!Return(t)
    BY <2>1, <2>2, SameRegisters DEF Private!Return
  <2>4. QED
    BY <2>3 DEF Private!Next
<1>13. CASE ForkReturn(t)
  <2>1. PICK v \in Values : Continue(t, "tick", WithResult(registers, v))
    BY <1>13 DEF ForkReturn
  <2>2. regs[t] = registers /\ Private!Set(t, WithResult(registers, v))
    BY <1>2, <1>13, <2>1, ContinueGoesOn DEF ForkReturn, Awake
  <2>3. Private!Result(t)
    BY <2>1, <2>2, SameRegisters DEF Private!Result
  <2>4. QED
    BY <2>3 DEF Private!Next
<1>14. CASE SysExit(t)
  <2>1. Private!Exit(t)
    BY <1>14, WaitGoesOn, GoesOnMaps DEF Awake
  <2>2. QED
    BY <2>1 DEF Private!Next
<1>15. CASE SysHalt(t)
  BY <1>1, <1>15, ContinueGoesOn DEF SysHalt, Awake
<1>16. QED
  BY <1>4, <1>5, <1>6, <1>7, <1>8, <1>9, <1>10, <1>11, <1>12, <1>13, <1>14, <1>15
     DEF UserStep

LEMMA SpaceStepMaps ==
    ASSUME MachineInv, NEW t \in Threads,
           SysExec(t) \/ SysShmAllocate(t) \/ StartUserProcess(t)
    PROVE  [Private!Next]_(Private!vars)
<1>1. Private!InitialRegisters = InitialRegisters
  BY DEF InitialRegisters, Private!InitialRegisters, AllRegs, Private!AllRegs,
         PCReg, NextPCReg, LoadReg, LoadValueReg,
         Private!PCReg, Private!NextPCReg, Private!LoadReg, Private!LoadValueReg
<1>2. ASSUME Running(t, "trap"), NEW p \in {"user", "tick"}, NEW f, NewSpace(t, p, f)
      PROVE  regs[t] = registers /\ Private!Set(t, f)
  BY <1>2, RunningFacts, NewSpaceMaps DEF Awake
<1>3. CASE SysExec(t) /\ Continue(t, "tick", registers)
  BY <1>3, ContinueGoesOn, GoesOnMaps DEF SysExec, Awake
<1>4. CASE SysExec(t) /\ NewSpace(t, "user", InitialRegisters)
  BY <1>1, <1>2, <1>4 DEF SysExec, Private!Next, Private!Exec
<1>5. CASE SysShmAllocate(t)
  <2>1. PICK v \in Values : NewSpace(t, "tick", WithResult(Advance(registers), v))
    BY <1>5 DEF SysShmAllocate
  <2>2. regs[t] = registers /\ Private!Set(t, WithResult(Advance(registers), v))
    BY <1>2, <1>5, <2>1 DEF SysShmAllocate
  <2>3. QED
    BY <2>2, SameRegisters DEF Private!Next, Private!Return
<1>6. CASE StartUserProcess(t)
  <2>1. t = currentThread /\ at[t] = "boot" /\ ThreadInv(t)
    BY <1>6 DEF StartUserProcess, Running, MachineInv
  <2>2. stateRestored[t] /\ space[t] = NoSpace
    BY <2>1 DEF ThreadInv
  <2>3. Private!Create(t)
    BY <1>1, <1>6, <2>1, <2>2, NewSpaceMaps DEF StartUserProcess, Private!Create
  <2>4. QED
    BY <2>3 DEF Private!Next
<1>7. QED
  BY <1>3, <1>4, <1>5, <1>6 DEF SysExec

LEMMA SysForkMaps ==
    ASSUME MachineInv, NEW t \in Threads, NEW c \in Threads, SysFork(t, c)
    PROVE  Private!Fork(t, c)
<1>1. /\ t = currentThread /\ at[t] = "trap" /\ at[c] = "unborn" /\ Creates(t, "forked")
      /\ Good(Advance(registers)) /\ Good(WithResult(Advance(registers), 0))
      /\ Settled(WithResult(Advance(registers), 0))
      /\ Birth(t, c, "forked", Advance(registers), WithResult(Advance(registers), 0))
  BY SysForkBirth
<1>2. space[t] # NoSpace /\ PrivateRegisters(t) = registers
  BY RunningFacts DEF SysFork, Awake
<1>3. /\ life[c] = "unborn" /\ life' = [life EXCEPT ![c] = "alive"]
      /\ regs' = [regs EXCEPT ![t] = Advance(registers), ![c] = WithResult(Advance(registers), 0)]
  BY <1>1, <1>2, BirthMaps
<1>4. life[t] = "alive" /\ regs[t] = registers
  BY <1>1, <1>2 DEF life, regs
<1>5. QED
  BY <1>3, <1>4, SameRegisters DEF Private!Fork

LEMMA BatchForkMaps ==
    ASSUME MachineInv, NEW t \in Threads, NEW c \in Threads, BatchFork(t, c)
    PROVE  Private!Create(c)
<1>1. Private!InitialRegisters = InitialRegisters
  BY DEF InitialRegisters, Private!InitialRegisters, AllRegs, Private!AllRegs,
         PCReg, NextPCReg, LoadReg, LoadValueReg,
         Private!PCReg, Private!NextPCReg, Private!LoadReg, Private!LoadValueReg
<1>2. /\ t = currentThread /\ at[t] \in {"boot", "batch"} /\ at[c] = "unborn"
      /\ Creates(t, "batch")
      /\ Birth(t, c, "batch", InitialRegisters, InitialRegisters)
  BY BatchForkBirth
<1>3. space[t] = NoSpace
  BY <1>2 DEF MachineInv, ThreadInv
<1>4. QED
  BY <1>1, <1>2, <1>3, BirthMaps, InitialType DEF Private!Create

\* An interrupt is a trap of the process in the machine, or nothing to any.
LEMMA InterruptMaps ==
    ASSUME MachineInv, Interrupt
    PROVE  [Private!Next]_(Private!vars)
<1> PICK t \in Threads : t = currentThread
  BY DEF MachineInv, TypeOK
<1>1. /\ space' = space
      /\ \A u \in Threads : at'[u] = "exited" <=> at[u] = "exited"
      /\ \A u \in Threads \ {t} : PrivateRegisters(u)' = PrivateRegisters(u)
      /\ space[t] # NoSpace =>
            \/ PrivateRegisters(t)' = PrivateRegisters(t)
            \/ at[t] # "exited" /\ PrivateRegisters(t)' = Trapped(PrivateRegisters(t))
  BY InterruptFacts
<1>2. CASE space[t] # NoSpace => PrivateRegisters(t)' = PrivateRegisters(t)
  <2>1. \A u \in Threads : space[u] # NoSpace => PrivateRegisters(u)' = PrivateRegisters(u)
    BY <1>1, <1>2
  <2>2. UNCHANGED Private!vars
    BY <1>1, <2>1, Stutters
  <2>3. QED
    BY <2>2
<1>3. CASE /\ space[t] # NoSpace /\ at[t] # "exited"
           /\ PrivateRegisters(t)' = Trapped(PrivateRegisters(t))
  <2>1. regs[t] = PrivateRegisters(t) /\ life[t] = "alive" /\ life' = life
    BY <1>1, <1>3 DEF regs, life
  <2>2. regs' = [regs EXCEPT ![t] = Trapped(PrivateRegisters(t))]
    <3>1. \A u \in Threads : regs'[u] = IF u = t THEN Trapped(PrivateRegisters(t)) ELSE regs[u]
      BY <1>1, <1>3 DEF regs
    <3>2. regs = [u \in Threads |-> regs[u]] /\ regs' = [u \in Threads |-> regs'[u]]
      BY DEF regs
    <3>3. QED
      BY <1>1, <3>1, <3>2
  <2>3. Private!Trapped(regs[t]) = Trapped(PrivateRegisters(t))
    BY <2>1, SameRegisters
  <2>4. Private!Trap(t)
    BY <2>1, <2>2, <2>3 DEF Private!Trap, Private!Set
  <2>5. QED
    BY <1>1, <2>4 DEF Private!Next
<1>4. QED
  BY <1>1, <1>2, <1>3

LEMMA StepMaps ==
    ASSUME MachineInv, [Next]_vars
    PROVE  [Private!Next]_(Private!vars)
<1>1. CASE UNCHANGED vars
  BY <1>1, Stutters DEF vars, PrivateRegisters
<1>2. ASSUME NEW n \in Threads, Yield(n) \/ Dispatch(n)
      PROVE  UNCHANGED Private!vars
  <2>1. PICK R : R \subseteq ready \cup {currentThread} /\ Schedule(n, R)
    BY <1>2, SwitchFacts
  <2>2. R \in SUBSET Threads
    BY <2>1 DEF MachineInv, TypeOK
  <2>3. QED
    BY <2>1, <2>2, ScheduleFacts, Stutters
<1>3. ASSUME NEW t \in Threads, UserStep(t) PROVE [Private!Next]_(Private!vars)
  BY <1>3, UserStepMaps
<1>4. ASSUME NEW t \in Threads, SysExec(t) \/ SysShmAllocate(t) \/ StartUserProcess(t)
      PROVE  [Private!Next]_(Private!vars)
  BY <1>4, SpaceStepMaps
<1>5. ASSUME NEW t \in Threads, Wake(t) PROVE UNCHANGED Private!vars
  BY <1>5, Stutters DEF Wake, PrivateRegisters
<1>6. ASSUME NEW t \in Threads, Startup(t) PROVE UNCHANGED Private!vars
  BY <1>6, StartupFacts, Stutters
<1>7. ASSUME NEW t \in Threads, BatchExit(t) PROVE UNCHANGED Private!vars
  <2>1. space[t] = NoSpace /\ \A u \in Threads \ {t} : at'[u] = at[u]
    BY <1>7, BatchExitInv DEF BatchExit, MachineInv, TypeOK
  <2>2. space' = space /\ \A u \in Threads : PrivateRegisters(u)' = PrivateRegisters(u)
    BY <1>7 DEF BatchExit, PrivateRegisters
  <2>3. QED
    BY <2>1, <2>2, Stutters
<1>8. ASSUME NEW t \in Threads, NEW c \in Threads, SysFork(t, c) PROVE Private!Next
  BY <1>8, SysForkMaps DEF Private!Next
<1>9. ASSUME NEW t \in Threads, NEW c \in Threads, BatchFork(t, c) PROVE Private!Next
  BY <1>9, BatchForkMaps DEF Private!Next
<1>10. CASE Interrupt
  BY <1>10, InterruptMaps
<1>11. CASE Terminated
  BY <1>1, <1>11 DEF Terminated
<1>12. QED
  BY <1>1, <1>2, <1>3, <1>4, <1>5, <1>6, <1>7, <1>8, <1>9, <1>10, <1>11 DEF Next, UserStep

\* The shared machine implements a machine for each process, for any number of
\* threads, any registers and any words: no context switch, page fault, fork or
\* start of a program can be observed by a process in its registers, and of an
\* interrupt only that a load in progress is complete, by the process it finds in
\* the machine.
THEOREM PrivateCorrect == Spec => ImplementsPrivateMachines
<1>1. Init => Private!Init
  BY MappedInit
<1>2. MachineInv /\ [Next]_vars => [Private!Next]_(Private!vars)
  BY StepMaps
<1>3. Spec => []MachineInv
  BY InvCorrect
<1>4. QED
  BY <1>1, <1>2, <1>3, PTL DEF Spec, ImplementsPrivateMachines, Private!Spec
=============================================================================
