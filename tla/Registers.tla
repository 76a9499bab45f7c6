----------------------------- MODULE Registers -----------------------------
(***************************************************************************)
(* The user registers of the MIPS machine and what instructions, traps and *)
(* system calls do to them.  Values are abstract: a word is a member of a  *)
(* small set, and an instruction that computes may compute any word.  What *)
(* is kept is which registers an instruction writes and when: the branch   *)
(* delay slot (PC, NextPC), the load delay slot (LoadReg, LoadValueReg),   *)
(* register 0, and the early returns.  Two registers are left out: PrevPCReg,  *)
(* which the debugger alone reads, and BadVAddrReg, which a handler reads  *)
(* on entry, before anything else can run.                                 *)
(***************************************************************************)
EXTENDS Naturals

CONSTANTS DataRegs,   \* the general registers and Hi, Lo that are modelled
          Words,      \* the values of a register
          Values,     \* the words instructions, traps and calls may come up with
          Next4       \* [Words -> Words], the address of the following instruction

ReturnReg == 2
HiReg == 32
LoReg == 33
PCReg == 34
NextPCReg == 35
LoadReg == 37
LoadValueReg == 38

ASSUME RegistersAssumption ==
    /\ DataRegs \subseteq 0..33 /\ {0, ReturnReg} \subseteq DataRegs
    /\ 0 \in Words /\ Values \subseteq Words /\ Next4 \in [Words -> Words]

AllRegs == DataRegs \cup {PCReg, NextPCReg, LoadReg, LoadValueReg}

\* LoadReg holds the number of a data register, the others hold words.
RegisterFile ==
    {f \in [AllRegs -> Words \cup DataRegs] :
        f[LoadReg] \in DataRegs /\ \A r \in AllRegs \ {LoadReg} : f[r] \in Words}

\* InitUserCPURegisters; the stack pointer's value is not modelled
InitialRegisters == [r \in AllRegs |-> IF r = NextPCReg THEN Next4[0] ELSE 0]

\* Apply the load in progress, start another, keep register 0 at zero.
\* (Slip: register 0 is not reset.)
DelayedLoadToZero(f, reg, value) ==
    [f EXCEPT ![f[LoadReg]] = f[LoadValueReg], ![LoadReg] = reg, ![LoadValueReg] = value]
DelayedLoad(f, reg, value) ==
    [[f EXCEPT ![f[LoadReg]] = f[LoadValueReg]]
       EXCEPT ![LoadReg] = reg, ![LoadValueReg] = value, ![0] = 0]

\* RaiseException, up to the call of the kernel, and CheckIfDue, up to that of the
\* interrupt handler
Trapped(f) == DelayedLoad(f, 0, 0)

\* The end of an instruction: the program counters move on, to pcAfter once
\* the instruction in the delay slot is done.
Advanced(f, pcAfter) ==
    [f EXCEPT ![PCReg] = f[NextPCReg], ![NextPCReg] = pcAfter]

Advance(f) == Advanced(f, Next4[f[NextPCReg]])

WithWord(f, r, v) == [f EXCEPT ![r] = v]

\* Arithmetic, logic, shifts, comparisons and moves: one destination
Computed(f) ==
    {Advance(DelayedLoad(WithWord(f, d, v), 0, 0)) : d \in DataRegs, v \in Values}

\* Multiplication and division: Hi and Lo together
Divided(f) ==
    {Advance(DelayedLoad([r \in AllRegs |-> IF r = HiReg THEN v ELSE IF r = LoReg THEN w ELSE f[r]],
                         0, 0)) : v \in Values, w \in Values}

\* Jumps and branches, with or without a link to the instruction after the slot
Branched(f) ==
    {Advanced(DelayedLoad(g, 0, 0), pc) :
        g \in {f} \cup {WithWord(f, d, Next4[f[NextPCReg]]) : d \in DataRegs},
        pc \in Values}

\* A load arrives in its register one instruction later.
Loaded(f) == {Advance(DelayedLoad(f, d, v)) : d \in DataRegs, v \in Values}

\* A store writes no register.
Stored(f) == {Advance(DelayedLoad(f, 0, 0))}

InstructionResults(f) ==
    Computed(f) \cup Divided(f) \cup Branched(f) \cup Loaded(f) \cup Stored(f)

WithResult(f, v) == WithWord(f, ReturnReg, v)
=============================================================================
