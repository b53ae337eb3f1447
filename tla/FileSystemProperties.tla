------------------------- MODULE FileSystemProperties -------------------------
(***************************************************************************)
(* What the file server of module FileSystem must keep true.               *)
(***************************************************************************)
EXTENDS FileSystem, Functions

\* The images are disks that createfs, or an earlier run of the server, can have left.
ASSUME ImagesAssumption == \A d \in Images : Sound(d)

\* The server can be started again on the disk as it is now, whatever threads
\* were doing: the walk of fs_init meets only blocks of the right kind and no
\* block twice (the asserts at filesystem.cpp:43 and :64), and each block of
\* entries that a directory keeps is in use, which is what FS_DELETE relies on
\* to see whether a directory is empty (filesystem.cpp:331).
RestartSafe == KindsRight(disk) /\ MetOnce(disk)

\* No two entries of a directory have the same name, whatever creates and
\* deletes made of its blocks and free entries (filesystem.cpp:133-154, :346-365).
NamesUnique == OneEntryPerName(disk)

\* The blocks that belong to a thread alone: allocated and not yet linked, or
\* unlinked and not yet given back.
OwnBlocks(t) ==
    Range(loc[t].new)
    \cup (IF At(t, "free_direntries") THEN {loc[t].spot.block} ELSE {})
    \cup (IF pc[t] \in {"free_direntries", "upgrade_target", "erase_lock", "free_blocks"}
          THEN Range(FreedBlocks(loc[t])) ELSE {})

\* Every block but the root's is in exactly one place: in the tree, once on the
\* free list, or in the hands of one thread.  No block is lost, given back
\* twice, or handed out while it is in use.
BlocksAccounted ==
    LET used == blocks_used(disk)
    IN  \A b \in 1 .. FS_DISKSIZE - 1 :
            (IF b \in used THEN 1 ELSE 0)
            + Cardinality({i \in 1 .. Len(free_disk_blocks) : free_disk_blocks[i] = b})
            + Cardinality({t \in Threads : b \in OwnBlocks(t)}) = 1

\* Labels at which a thread relies on the inode it has read at loc.node.
UsesInode == {"scan", "get_lock", "upgrade", "commit", "create_scan", "alloc_inode",
              "return_inode", "alloc_direntries", "write_direntries", "write_inode",
              "delete_scan", "get_target", "lock_target", "read_target", "unlink",
              "read_data", "alloc_data", "write_data"}

\* What a thread has read it can rely on until it is done: the copies of the
\* inode, of the direntries block and of the target's inode that it computes
\* with are still what is on the disk, so no concurrent update is overwritten.
CopiesCurrent ==
    \A t \in Threads :
        LET l == loc[t]
        IN  /\ pc[t] \in UsesInode \ {"get_lock"} => l.inode = disk[l.node]
            /\ pc[t] \in {"get_target", "lock_target", "read_target", "unlink"}
                 => disk[l.spot.block].entries = l.spot.dir.entries
            /\ pc[t] \in {"write_inode", "upgrade", "commit"} /\ Op(t) = "FS_CREATE"
                 /\ l.spot # None
                 => \A j \in 1 .. FS_DIRENTRIES :
                        IF j = l.spot.slot THEN disk[l.spot.block].entries[j].inode_block = 0
                        ELSE disk[l.spot.block].entries[j] = l.spot.dir.entries[j]
            /\ l.tinode # None => l.tinode = disk[l.target]

\* When FS_DELETE drops a block's lock from data_locks, nobody else holds that
\* lock or is about to ask for it (the comments at filesystem.cpp:373 and :379),
\* so no thread is left with a lock that new users of the block do not share.
NoOneLeftOnErasedLock ==
    \A t, u \in Threads :
        (t # u /\ pc[t] \in {"erase_lock", "free_blocks"})
            => /\ pc[u] \in {"lock", "upgrade", "lock_target"} => nxt[u] # nxt[t]
               /\ \A h \in hold[u] : h[1] # nxt[t]

\* While a thread changes a file or directory, no other thread is inside it,
\* whichever lock object it may have used to get there.
WritersAlone ==
    \A t, u \in Threads :
        (t # u /\ pc[t] \in {"commit", "unlink", "free_direntries"})
            => \A h \in hold[u] : h[1][1] # loc[t].node

\* Labels at which a thread is not in the tree; at which it has read what it is going to
\* change; at which it may change it; at which it has deleted the target.
Outside == {"idle", "reply", "check_free", "get_root"}
Preparing == {"upgrade", "create_scan", "alloc_inode", "return_inode", "alloc_direntries",
              "write_direntries", "write_inode", "delete_scan", "get_target", "alloc_data",
              "write_data"}
Changing == {"commit", "lock_target", "read_target", "unlink", "free_direntries"}
Erasing == {"erase_lock", "free_blocks"}

\* Nobody else holds the lock that a thread writes or frees blocks under, and from the
\* moment it has read what it is going to change nobody else may prepare to change it
\* (the upgrade locks of traverse_fs, and how execute_request upgrades, adds and drops
\* locks up to its last write).
LocksExclude ==
    \A t, u \in Threads : t # u =>
        \A h \in hold[u] :
            /\ pc[t] \in Preparing /\ h[1] = cur[t] => h[2] = "shared"
            /\ pc[t] \in Changing => h[1] # cur[t]
            /\ pc[t] \in Erasing => h[1] # nxt[t]

\* Every request is answered once no more requests come in: no thread waits for
\* ever for a lock, whatever the threads do at once to a path and to what is
\* above and below it (the lock orders of traverse_fs and of FS_DELETE,
\* filesystem.cpp:290-298 and :369-372).
Answered == \A t \in Threads : ~At(t, "idle") ~> At(t, "idle")

=============================================================================
