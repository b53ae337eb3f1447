--------------------------------- MODULE Disk ---------------------------------
(***************************************************************************)
(* The disk of the file server: what its blocks hold, the walk by which     *)
(* fs_init finds the blocks in use when the server starts, and what makes a *)
(* disk a tree of files and directories.                                    *)
(***************************************************************************)
EXTENDS Integers, Sequences, FiniteSets

CONSTANTS
    Users, Names, Data,
    RootOwner,        \* the owner field of the root inode, no user's name
    FS_DISKSIZE, FS_DIRENTRIES, FS_MAXFILEBLOCKS,
    None              \* "no value": an expired pointer, a block not found

Blocks == 0 .. FS_DISKSIZE - 1
Owners == Users \cup {RootOwner}

ASSUME SizesAssumption ==
    /\ FS_DISKSIZE \in Nat \ {0}
    /\ FS_DIRENTRIES \in Nat \ {0}
    /\ FS_MAXFILEBLOCKS \in Nat \ {0}

-----------------------------------------------------------------------------
(* What a disk block holds: an inode, an array of directory entries (the    *)
(* name of an unused entry is never read), or a block of a file.            *)

Direntry == [name : Names \cup {None}, inode_block : Blocks]
UnusedEntry == [name |-> None, inode_block |-> 0]
BlockArrays == UNION {[1 .. n -> Blocks \ {0}] : n \in 0 .. FS_MAXFILEBLOCKS}
fs_inode == [kind : {"inode"}, type : {"f", "d"}, owner : Owners, blocks : BlockArrays]
direntries == [kind : {"direntries"}, entries : [1 .. FS_DIRENTRIES -> Direntry]]
DataBlock == [kind : {"data"}, value : Data]
BlankBlock == [kind |-> "blank"]
Contents == fs_inode \cup direntries \cup DataBlock \cup {BlankBlock}

size(inode) == Len(inode.blocks)
NewInode(type, owner) ==
    [kind |-> "inode", type |-> type, owner |-> owner, blocks |-> <<>>]
Entry(name, b) == [name |-> name, inode_block |-> b]

\* The used slots of a direntries block that carry a name, and its free slots.
Matches(dir, name) ==
    {j \in 1 .. FS_DIRENTRIES :
        dir.entries[j].inode_block # 0 /\ dir.entries[j].name = name}
FreeSlots(dir) == {j \in 1 .. FS_DIRENTRIES : dir.entries[j].inode_block = 0}
First(S) == CHOOSE j \in S : \A k \in S : j <= k

(***************************************************************************)
(* fs_init: walk the tree from the root inode in block 0 and put every      *)
(* block the walk did not meet on the free list, in ascending order.        *)
(***************************************************************************)
Children(d, b) ==
    IF d[b].type = "f" THEN {}
    ELSE {c \in Blocks \ {0} :
            \E i \in 1 .. size(d[b]), j \in 1 .. FS_DIRENTRIES :
                d[d[b].blocks[i]].entries[j].inode_block = c}

ReachableInodes(d) ==
    LET Level[n \in 0 .. FS_DISKSIZE] ==
            IF n = 0 THEN {0}
            ELSE LET prev == Level[n - 1]
                 IN  prev \cup UNION {Children(d, b) : b \in prev}
    IN  Level[FS_DISKSIZE]

blocks_used(d) ==
    LET inodes == ReachableInodes(d)
    IN  (inodes \ {0}) \cup UNION {{d[b].blocks[i] : i \in 1 .. size(d[b])} : b \in inodes}

Ascending(S) ==
    [i \in 1 .. Cardinality(S) |->
        CHOOSE b \in S : Cardinality({c \in S : c < b}) = i - 1]

fs_init(d) == Ascending((1 .. FS_DISKSIZE - 1) \ blocks_used(d))

-----------------------------------------------------------------------------
(* A disk that spells out a tree.                                         *)

InodesOf(d) == ReachableInodes(d)
DirsOf(d) == {b \in InodesOf(d) : d[b].type = "d"}

\* The j-th entry in the i-th block of the directory whose inode is in block b.
EntryAt(d, b, i, j) == d[d[b].blocks[i]].entries[j]

\* No entry of the directory in block b has name n.
NotIn(d, b, n) ==
    \A i \in 1 .. size(d[b]), j \in 1 .. FS_DIRENTRIES :
        EntryAt(d, b, i, j).inode_block # 0 => EntryAt(d, b, i, j).name # n

\* The walk of initial_traverse_helper meets only blocks of the right kind, and each
\* block of entries that a directory keeps is in use.
KindsRight(d) ==
    \A b \in InodesOf(d) :
        /\ d[b] \in fs_inode
        /\ \A i \in 1 .. size(d[b]) :
            IF d[b].type = "f" THEN d[d[b].blocks[i]] \in DataBlock
            ELSE /\ d[d[b].blocks[i]] \in direntries
                 /\ \E j \in 1 .. FS_DIRENTRIES : EntryAt(d, b, i, j).inode_block # 0

\* The walk meets no block twice: neither as the block of an inode, nor in an entry.
MetOnce(d) ==
    /\ \A b, c \in InodesOf(d) : \A i \in 1 .. size(d[b]), k \in 1 .. size(d[c]) :
        d[b].blocks[i] = d[c].blocks[k] => b = c /\ i = k
    /\ \A b, c \in DirsOf(d) : \A i \in 1 .. size(d[b]), k \in 1 .. size(d[c]) :
        \A j, m \in 1 .. FS_DIRENTRIES :
            /\ EntryAt(d, b, i, j).inode_block # 0
            /\ EntryAt(d, b, i, j).inode_block = EntryAt(d, c, k, m).inode_block
            => b = c /\ i = k /\ j = m

\* No two entries of a directory have the same name.
OneEntryPerName(d) ==
    \A b \in DirsOf(d) : \A i, k \in 1 .. size(d[b]) : \A j, m \in 1 .. FS_DIRENTRIES :
        /\ EntryAt(d, b, i, j).inode_block # 0 /\ EntryAt(d, b, k, m).inode_block # 0
        /\ EntryAt(d, b, i, j).name = EntryAt(d, b, k, m).name
        => i = k /\ j = m

\* A disk that spells out a tree of files and directories.
Sound(d) == d \in [Blocks -> Contents] /\ KindsRight(d) /\ MetOnce(d) /\ OneEntryPerName(d)

\* A list without repetitions of the elements of a set.
Lists(list, S) ==
    /\ \A i \in 1 .. Len(list) : list[i] \in S
    /\ \A x \in S : \E i \in 1 .. Len(list) : list[i] = x
    /\ \A i, j \in 1 .. Len(list) : list[i] = list[j] => i = j

===============================================================================
