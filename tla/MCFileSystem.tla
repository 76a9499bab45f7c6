---------------------------- MODULE MCFileSystem ----------------------------
(***************************************************************************)
(* An instance of the file system for TLC.                                 *)
(***************************************************************************)
EXTENDS FileSystemRefinesStore, TLC

\* A file that ends in mid-sector and takes three Writes, one of a byte, and an
\* empty one.
SmallSources == {<<>>, <<9>>, <<1, 2, 3, 4, 5, 6, 7>>}

\* Nothing but equality is asked of names.
NameSymmetry == Permutations(Names)
=============================================================================
