----------------------- MODULE FileSystemRefinesStore -----------------------
(***************************************************************************)
(* The file system on its disk implements FileStore.                       *)
(***************************************************************************)
EXTENDS FileSystem

\* The bytes of the file of entry e, wherever its sectors are
BytesOf(e) == [p \in 0 .. HeaderOf(e).numBytes - 1 |-> ByteAt(HeaderOf(e), p)]

files == [n \in Names |->
    IF usable /\ \E e \in Listed : NameOf(e) = n
    THEN BytesOf(CHOOSE e \in Listed : NameOf(e) = n)
    ELSE NoFile]

Store == INSTANCE FileStore

\* Every write of a sector is a step of the abstract store or invisible to it:
\* an operation takes effect at one of its writes, a write to a file changes
\* the bytes it is about and no others, of no other file, and nachos may stop
\* between any two writes but those of HalfWritten.
ImplementsFileStore == Store!Spec

\* What is printed is what the file holds, from its first byte on.
PrintsFile ==
    client.kind = "print" =>
        \A p \in 1 .. client.position : client.source[p] = files[client.name][p - 1]
=============================================================================
