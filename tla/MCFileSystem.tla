----------------------------- MODULE MCFileSystem -----------------------------
(* Small instances of the file server for TLC. *)
EXTENDS FileSystemRefinement, TLC

CONSTANTS u1, u2

Dir(owner, blocks) == [kind |-> "inode", type |-> "d", owner |-> owner, blocks |-> blocks]
File(owner, blocks) == [kind |-> "inode", type |-> "f", owner |-> owner, blocks |-> blocks]
Entries(list) ==
    [kind |-> "direntries",
     entries |-> [j \in 1 .. FS_DIRENTRIES |->
                     IF j <= Len(list) THEN Entry(list[j][1], list[j][2]) ELSE UnusedEntry]]
Holds(value) == [kind |-> "data", value |-> value]

Image(written) ==
    [b \in Blocks |-> IF b + 1 <= Len(written) THEN written[b + 1] ELSE BlankBlock]

\* A disk as createfs leaves it, and one with the file /d/f in a directory.
EmptyImage == Image(<<Dir(RootOwner, <<>>)>>)
FileInDir ==
    Image(<<Dir(RootOwner, <<1>>), Entries(<< <<"d", 2>> >>), Dir(u1, <<3>>),
            Entries(<< <<"f", 4>> >>), File(u1, <<5>>), Holds("v1")>>)

Create(u, p, type) == [op |-> "FS_CREATE", username |-> u, path |-> p, type |-> type]
Delete(u, p) == [op |-> "FS_DELETE", username |-> u, path |-> p]
ReadAt(u, p, b) == [op |-> "FS_READBLOCK", username |-> u, path |-> p, block |-> b]
WriteAt(u, p, b, v) ==
    [op |-> "FS_WRITEBLOCK", username |-> u, path |-> p, block |-> b, data |-> v]

\* Requests that fight over the directory /d and over what is in it.
TreeRequests ==
    {Create(u1, <<"d">>, "d"), Create(u1, <<"d", "f">>, "f"), Create(u2, <<"d">>, "f"),
     Delete(u1, <<"d">>), Delete(u1, <<"d", "f">>), Delete(u2, <<"d", "f">>)}
TreeImages == {EmptyImage, FileInDir}

\* Requests that fight over the blocks of one file.
DataRequests ==
    {ReadAt(u1, <<"d", "f">>, 0), ReadAt(u1, <<"d", "f">>, 1), ReadAt(u2, <<"d", "f">>, 0),
     WriteAt(u1, <<"d", "f">>, 0, "v2"), WriteAt(u1, <<"d", "f">>, 1, "v2"),
     Delete(u1, <<"d", "f">>), Create(u1, <<"d", "f">>, "f")}
DataImages == {FileInDir}

\* A directory of two blocks of entries.
TwoBlocks ==
    Image(<<Dir(RootOwner, <<1, 3>>), Entries(<< <<"d", 2>> >>), Dir(u1, <<>>),
            Entries(<< <<"f", 4>> >>), File(u1, <<5>>), Holds("v1")>>)

\* Requests that use up the disk, a file and the entries of directories, and give them back.
CrashRequests ==
    {Create(u1, <<"d", "f">>, "f"), Create(u1, <<"d", "g">>, "d"), Create(u1, <<"g">>, "f"),
     Delete(u1, <<"d">>), Delete(u1, <<"d", "f">>), Delete(u1, <<"f">>), Delete(u1, <<>>),
     WriteAt(u1, <<"f">>, 0, "v2"), WriteAt(u1, <<"f">>, 1, "v2"), WriteAt(u1, <<"f">>, 2, "v2"),
     WriteAt(u1, <<"d", "f">>, 0, "v2")}
CrashImages == {EmptyImage, FileInDir, TwoBlocks}

\* Requests whose locks meet on one path.
LockRequests ==
    {Delete(u1, <<"d">>), Delete(u1, <<"d", "f">>), WriteAt(u1, <<"d", "f">>, 0, "v2")}
LockImages == {FileInDir}

Symmetric == Permutations(Threads)
=============================================================================
