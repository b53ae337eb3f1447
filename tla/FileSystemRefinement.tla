-------------------------- MODULE FileSystemRefinement --------------------------
(***************************************************************************)
(* The file server of module FileSystem implements the atomic tree of       *)
(* module AtomicFileSystem.                                                 *)
(***************************************************************************)
EXTENDS FileSystemProperties, SequencesExt

CONSTANT MaxDepth   \* no path of a request or an image is longer

\* The inodes that a directory's entries with some name point to.
Lookup(d, b, name) ==
    {d[d[b].blocks[r[1]]].entries[r[2]].inode_block :
        r \in {q \in (1 .. size(d[b])) \X (1 .. FS_DIRENTRIES) :
                  d[b].type = "d" /\ q[2] \in Matches(d[d[b].blocks[q[1]]], name)}}

NodeOf(d, b) ==
    [type |-> d[b].type, owner |-> d[b].owner,
     data |-> IF d[b].type = "d" THEN <<>>
              ELSE [i \in 1 .. size(d[b]) |-> d[d[b].blocks[i]].value]]

BoundedPaths == UNION {[1 .. n -> Names] : n \in 0 .. MaxDepth}

\* The tree that the blocks of a disk spell out.
TreeOf(d) ==
    LET InodesAt[p \in BoundedPaths] ==
            IF p = <<>> THEN {0} ELSE UNION {Lookup(d, b, Last(p)) : b \in InodesAt[Front(p)]}
    IN  [p \in {q \in BoundedPaths : InodesAt[q] # {}} |->
            CHOOSE n \in {NodeOf(d, b) : b \in InodesAt[p]} : TRUE]

\* A read takes effect when it gets the lock of its file: from then on the
\* block it will return cannot change, even if the file is deleted meanwhile.
ReadsBlock(t) ==
    /\ Op(t) = "FS_READBLOCK"
    /\ pc[t] = "read_data" \/ (pc[t] = "read_inode" /\ AtEnd(t))
    /\ LET n == disk[loc[t].node]
       IN  n.type = "f" /\ n.owner = req[t].username /\ req[t].block < size(n)

\* A delete takes effect when it unlinks its target.
HasUnlinked(t) == pc[t] \in {"free_direntries", "upgrade_target", "erase_lock", "free_blocks"}

ResultNow(t) ==
    CASE pc[t] \in {"idle", "reply"} -> resp[t]
      [] HasUnlinked(t) -> "ok"
      [] OTHER -> IF ReadsBlock(t)
                  THEN disk[disk[loc[t].node].blocks[req[t].block + 1]].value
                  ELSE None

Atomic == INSTANCE AtomicFileSystem WITH
    tree <- TreeOf(disk),
    call <- req,
    result <- [t \in Threads |-> ResultNow(t)]

\* The concurrent server implements the atomic tree: requests take effect one
\* at a time, reads included, and a request is refused only when the tree does
\* not allow it or space runs out (execute_request, filesystem.cpp:91-489).
ImplementsAtomic == Atomic!Spec
=============================================================================
