------------------------------ MODULE FileStore ------------------------------
(***************************************************************************)
(* What the file system promises its user: named files of a fixed size,    *)
(* created whole, removed whole, and changed by nothing but writes to them *)
(* -- as long as nachos does not exit in the middle of an operation that   *)
(* modifies directory and free map.                                        *)
(***************************************************************************)
EXTENDS Integers, Sequences

CONSTANTS Names,        \* the names of files
          Sources,      \* the UNIX files that are copied, sequences of bytes
          NoFile

VARIABLES usable,       \* the disk is formatted and not corrupt
          files         \* [Names -> a file's bytes, or NoFile]
vars == <<usable, files>>

Empty == [n \in Names |-> NoFile]

Init == usable = FALSE /\ files = Empty

Format == ~usable /\ usable' = TRUE /\ files' = Empty

\* nachos -f begins, or nachos exits in the middle of an operation
Lose == usable' = FALSE /\ files' = Empty

\* The bytes of a new file are what its sectors happen to hold.
Create(n, source) ==
    /\ usable /\ files[n] = NoFile
    /\ \E bytes \in {files'[n]} :
          /\ bytes # NoFile /\ DOMAIN bytes = 0 .. Len(source) - 1
          /\ files' = [files EXCEPT ![n] = bytes]
    /\ UNCHANGED usable

\* A range of a file gets the bytes at the same place in source.
Write(n, source, first, last) ==
    /\ usable /\ files[n] # NoFile
    /\ files' = [files EXCEPT ![n] =
          [p \in DOMAIN files[n] |->
              IF p \in first .. last THEN source[p + 1] ELSE files[n][p]]]
    /\ UNCHANGED usable

Remove(n) ==
    /\ usable /\ files[n] # NoFile
    /\ files' = [files EXCEPT ![n] = NoFile]
    /\ UNCHANGED usable

Next ==
    \/ Format \/ Lose
    \/ \E n \in Names :
        \/ Remove(n)
        \/ \E source \in Sources :
            \/ Create(n, source)
            \/ \E first, last \in 0 .. Len(source) - 1 : Write(n, source, first, last)

Spec == Init /\ [][Next]_vars
=============================================================================
