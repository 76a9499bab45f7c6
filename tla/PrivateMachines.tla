-------------------------- MODULE PrivateMachines --------------------------
(***************************************************************************)
(* What multiprogramming promises a process: a machine of its own.  Every  *)
(* process has its own registers; nothing but its own instructions, its    *)
(* own traps and its own system calls changes them, and a fork copies them *)
(* whole.  There is no register set to share, no switch and no save area.  *)
(* One thing a process may observe of the world outside: an interrupt      *)
(* between two instructions completes its pending load at once, so what an *)
(* instruction in a load's delay slot reads is not determined.             *)
(***************************************************************************)
EXTENDS Naturals, Registers

CONSTANT Threads

VARIABLES life,     \* [Threads -> Lives]
          regs      \* [Threads -> RegisterFile], the registers of each machine
vars == <<life, regs>>

Lives == {"unborn", "alive", "gone"}

TypeOK == life \in [Threads -> Lives] /\ regs \in [Threads -> RegisterFile]

Init ==
    /\ life = [t \in Threads |-> "unborn"]
    /\ regs = [t \in Threads |-> InitialRegisters]

\* The registers of the living process t become f.
Set(t, f) ==
    /\ life[t] = "alive"
    /\ regs' = [regs EXCEPT ![t] = f]
    /\ UNCHANGED life

\* An instruction leaves any of the register files it can leave.
Instruction(t) == \E f \in InstructionResults(regs[t]) : Set(t, f)

\* A trap completes the pending load, and so does an interrupt.  An instruction
\* that is executed again after the trap finds all else as it was.
Trap(t) == Set(t, Trapped(regs[t]))

\* A system call returns: the process goes on after it, with or without a result.
Return(t) ==
    \/ Set(t, Advance(regs[t]))
    \/ \E v \in Values : Set(t, WithResult(Advance(regs[t]), v))

\* The result of a call that has moved on already
Result(t) == \E v \in Values : Set(t, WithResult(regs[t], v))

\* A fork: parent and child both go on after the call, the child with every
\* register of its parent but the result, which is 0; the parent's follows.
Fork(t, c) ==
    /\ life[t] = "alive" /\ life[c] = "unborn"
    /\ life' = [life EXCEPT ![c] = "alive"]
    /\ regs' = [regs EXCEPT ![t] = Advance(@), ![c] = WithResult(Advance(regs[t]), 0)]

\* A program is started in a new process, or in place of the old one.
Create(c) ==
    /\ life[c] = "unborn"
    /\ life' = [life EXCEPT ![c] = "alive"]
    /\ regs' = [regs EXCEPT ![c] = InitialRegisters]

Exec(t) == Set(t, InitialRegisters)

Exit(t) ==
    /\ life[t] = "alive"
    /\ life' = [life EXCEPT ![t] = "gone"]
    /\ UNCHANGED regs

Next ==
    \E t \in Threads :
        \/ Instruction(t) \/ Trap(t) \/ Return(t) \/ Result(t)
        \/ Create(t) \/ Exec(t) \/ Exit(t)
        \/ \E c \in Threads : Fork(t, c)

Spec == Init /\ [][Next]_vars
=============================================================================
