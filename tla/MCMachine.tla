----------------------------- MODULE MCMachine -----------------------------
(***************************************************************************)
(* An instance of the user machine for TLC.                                *)
(***************************************************************************)
EXTENDS MachineRefinesPrivate

\* Addresses wrap around after two words: a branch to the next instruction and
\* one to itself are told apart.
TwoWords == [w \in {0, 1} |-> 1 - w]
=============================================================================
