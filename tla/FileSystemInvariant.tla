---------------------- MODULE FileSystemInvariant ----------------------
(***************************************************************************)
(* The inductive invariant of the file server: which locks the threads      *)
(* hold, what holds of each thread at each point of a request, and where     *)
(* each block is; and what a step of one thread leaves alone.               *)
(***************************************************************************)
EXTENDS FileSystemProperties

(* Locks.                                                                  *)

\* The domains of what the lock discipline is about.
DomainsOK ==
    /\ DOMAIN pc = Threads /\ DOMAIN req = Threads /\ DOMAIN loc = Threads
    /\ DOMAIN hold = Threads /\ DOMAIN cur = Threads /\ DOMAIN nxt = Threads

\* The locks that two threads hold at once go together.
Compatible ==
    \A t, u \in Threads : t # u =>
        \A g \in hold[t], h \in hold[u] : g[1] = h[1] =>
            g[2] # "unique" /\ (g[2] = "upgrade" => h[2] = "shared")

\* The mode in which traverse_fs locks the inode at hand.
WalkMode(t) == IF AtEnd(t) THEN FinalMode(req[t]) ELSE "shared"

\* The locks a thread holds at each point.
HoldsAt(t) ==
    /\ \A h \in hold[t] : h = <<h[1], h[2]>> /\ h[2] \in Modes
    /\ pc[t] \in Outside => hold[t] = {}
    /\ pc[t] = "lock" => hold[t] \subseteq {<<cur[t], "shared">>}
    /\ pc[t] = "read_inode" => hold[t] = {<<cur[t], WalkMode(t)>>}
    /\ pc[t] \in {"scan", "get_lock", "read_data"} => hold[t] = {<<cur[t], "shared">>}
    /\ pc[t] \in Preparing => hold[t] = {<<cur[t], "upgrade">>}
    /\ pc[t] \in {"commit", "lock_target"} => hold[t] = {<<cur[t], "unique">>}
    /\ pc[t] \in {"read_target", "unlink", "free_direntries"} =>
        hold[t] = {<<cur[t], "unique">>, <<nxt[t], "upgrade">>}
    /\ pc[t] = "upgrade_target" => hold[t] = {<<nxt[t], "upgrade">>}
    /\ pc[t] \in Erasing => hold[t] = {<<nxt[t], "unique">>}

LocksInv == DomainsOK /\ Compatible /\ \A t \in Threads : HoldsAt(t)

-----------------------------------------------------------------------------
(* Threads.                                                                *)

Walking == {"lock", "read_inode", "scan", "get_lock"}
Inside == {"read_inode", "scan", "read_data"} \cup Preparing \cup Changing
Unlinked == {"free_direntries", "upgrade_target", "erase_lock", "free_blocks"}

\* The thread holds the lock of the inode in block cur[t][1].
Here(t) == pc[t] \in Inside \/ pc[t] = "get_lock" \/ (pc[t] = "lock" /\ loc[t].i # 0)

\* The inodes a thread may be at: those of the tree, and those whose deleter still
\* waits for its readers.
Doomed(b) == \E u \in Threads : pc[u] \in {"free_direntries", "upgrade_target"} /\ loc[u].target = b
Alive(b) == b \in ReachableInodes(disk) \/ Doomed(b)

\* At which labels which request is executed.
CreateLabels == {"create_scan", "alloc_inode", "return_inode", "alloc_direntries",
             "write_direntries", "write_inode"}
DeleteLabels == {"delete_scan", "get_target", "lock_target", "read_target", "unlink"} \cup Unlinked
WriteLabels == {"alloc_data", "write_data"}
Creates(t) == pc[t] \in CreateLabels \/ (pc[t] \in {"upgrade", "commit"} /\ Op(t) = "FS_CREATE")
Writes(t) == pc[t] \in WriteLabels \/ (pc[t] \in {"upgrade", "commit"} /\ Op(t) = "FS_WRITEBLOCK")
\* Delete has found its target; it has a pointer to the target's lock.
Found(t) ==
    \/ pc[t] \in {"get_target", "lock_target", "read_target", "unlink"}
    \/ pc[t] = "upgrade" /\ Op(t) = "FS_DELETE"
Fetched(t) ==
    \/ pc[t] \in {"lock", "lock_target", "read_target", "unlink"} \cup Unlinked
    \/ pc[t] = "upgrade" /\ Op(t) = "FS_DELETE"

CallOK(t) ==
    /\ pc[t] # "idle" => req[t] \in RequestType
    /\ pc[t] \notin {"idle", "reply"} => ~OutOfRange(req[t])
    /\ pc[t] = "check_free" => Op(t) \in {"FS_CREATE", "FS_DELETE"}
    /\ pc[t] \in CreateLabels => Op(t) = "FS_CREATE"
    /\ pc[t] \in DeleteLabels => Op(t) = "FS_DELETE"
    /\ pc[t] \in WriteLabels => Op(t) = "FS_WRITEBLOCK"
    /\ pc[t] = "read_data" => Op(t) = "FS_READBLOCK"
    /\ pc[t] = "upgrade" => Op(t) \in {"FS_CREATE", "FS_DELETE", "FS_WRITEBLOCK"}
    /\ pc[t] = "commit" => Op(t) \in {"FS_CREATE", "FS_WRITEBLOCK"}

FrameOK(t) ==
    LET l == loc[t]
    IN  /\ pc[t] \in Outside => l = FreshLoc /\ cur[t] = None /\ nxt[t] = None
        /\ pc[t] \notin {"unlink"} \cup Unlinked => l.tinode = None
        /\ ~Creates(t) /\ ~Found(t) /\ pc[t] # "free_direntries" /\ pc[t] \notin Unlinked
             => l.spot = None
        /\ ~Creates(t) /\ ~Writes(t) => l.new = <<>>

\* A lock that a thread holds, or is about to take, is the one in data_locks.
PointersOK(t) ==
    /\ Here(t) => cur[t] \in LockObjects /\ data_locks[cur[t][1]] = cur[t][2]
    /\ Fetched(t) => /\ nxt[t] \in LockObjects
                     /\ pc[t] # "free_blocks" => data_locks[nxt[t][1]] = nxt[t][2]
    /\ Creates(t) \/ Writes(t) => nxt[t] = None

WalkOK(t) ==
    LET l == loc[t]
    IN  /\ pc[t] \in Walking => l.i \in 0 .. Len(TargetPath(req[t]))
        /\ pc[t] = "lock" => nxt[t][1] = l.node
        /\ pc[t] = "lock" /\ l.i = 0 => l.node = 0 /\ cur[t] = None /\ hold[t] = {}
        /\ pc[t] = "get_lock" => l.i # 0
        /\ pc[t] \in {"lock", "get_lock"} /\ l.i # 0 =>
            /\ hold[t] = {<<cur[t], "shared">>}
            /\ Alive(cur[t][1]) /\ l.node \in Children(disk, cur[t][1])
        /\ pc[t] = "scan" => /\ l.i < Len(TargetPath(req[t]))
                             /\ l.inode.type = "d" /\ l.k \in 1 .. size(l.inode)

InsideOK(t) ==
    LET l == loc[t]
    IN  /\ pc[t] \in Inside => cur[t][1] = l.node /\ Alive(l.node)
        /\ pc[t] \in Inside \ {"read_inode", "free_direntries"} => l.inode = disk[l.node]
        /\ pc[t] \in Preparing \cup Changing => l.node \in ReachableInodes(disk)
        /\ pc[t] = "read_data" => l.inode.type = "f" /\ req[t].block < size(l.inode)

\* The entry that create remembered is unused, in the i-th block of its directory.
SpotFree(t, i) ==
    LET l == loc[t]
    IN  /\ l.spot \in SpotType /\ l.spot.block = l.inode.blocks[i]
        /\ EntryAt(disk, l.node, i, l.spot.slot).inode_block = 0
        /\ \A j \in 1 .. FS_DIRENTRIES :
            j # l.spot.slot => l.spot.dir.entries[j] = EntryAt(disk, l.node, i, j)

\* The block of entries that create adds to its directory.
NewEntries(c, name, b) ==
    /\ c \in direntries /\ c.entries[1] = Entry(name, b)
    /\ \A j \in 1 .. FS_DIRENTRIES : j # 1 => c.entries[j] = UnusedEntry

CreateOK(t) ==
    LET l == loc[t]
        name == Filename(req[t])
    IN  Creates(t) =>
        /\ l.inode.type = "d"
        /\ l.spot # None => \E i \in 1 .. size(l.inode) : SpotFree(t, i)
        /\ pc[t] = "create_scan" =>
            /\ l.k \in 1 .. size(l.inode)
            /\ \A i \in 1 .. l.k - 1, j \in 1 .. FS_DIRENTRIES :
                EntryAt(disk, l.node, i, j).inode_block # 0 => EntryAt(disk, l.node, i, j).name # name
        /\ pc[t] # "create_scan" => NotIn(disk, l.node, name)
        /\ pc[t] \in {"create_scan", "alloc_inode"} => l.new = <<>>
        /\ pc[t] \in {"return_inode", "alloc_direntries"} => Len(l.new) = 1 /\ l.spot = None
        /\ pc[t] = "write_direntries" => Len(l.new) = 2 /\ l.spot = None
        /\ Len(l.new) = 2 => l.new[1] # l.new[2]
        /\ pc[t] \in {"alloc_direntries", "write_direntries"} => size(l.inode) < FS_MAXFILEBLOCKS
        /\ pc[t] \in {"write_inode", "upgrade", "commit"} =>
            IF l.spot # None
            THEN Len(l.new) = 1 /\ l.spot.dir.entries[l.spot.slot] = Entry(name, l.new[1])
            ELSE /\ Len(l.new) = 2 /\ size(l.inode) < FS_MAXFILEBLOCKS
                 /\ NewEntries(disk[l.new[2]], name, l.new[1])
        /\ pc[t] \in {"upgrade", "commit"} =>
            disk[l.new[1]] = NewInode(req[t].type, req[t].username)

WriteOK(t) ==
    LET l == loc[t]
    IN  Writes(t) =>
        /\ l.inode.type = "f"
        /\ pc[t] = "alloc_data" => l.new = <<>> /\ req[t].block = size(l.inode)
        /\ pc[t] = "write_data" => Len(l.new) = 1 /\ req[t].block = size(l.inode)
        /\ pc[t] \in {"upgrade", "commit"} =>
            \/ l.new = <<>> /\ req[t].block < size(l.inode)
            \/ Len(l.new) = 1 /\ req[t].block = size(l.inode) /\ disk[l.new[1]] \in DataBlock

\* A file, or an empty directory.
NoChildren(inode) == inode.type = "d" => size(inode) = 0

DeleteOK(t) ==
    LET l == loc[t]
    IN  /\ pc[t] = "delete_scan" \/ Found(t) => l.inode.type = "d" /\ l.k \in 1 .. size(l.inode)
        /\ Found(t) =>
            /\ l.spot \in SpotType /\ l.spot.block = l.inode.blocks[l.k]
            /\ l.spot.dir = disk[l.spot.block]
            /\ l.target = l.spot.dir.entries[l.spot.slot].inode_block /\ l.target # 0
        /\ Fetched(t) /\ pc[t] # "lock" => nxt[t][1] = l.target
        /\ pc[t] \in {"unlink"} \cup Unlinked =>
            l.tinode \in fs_inode /\ l.tinode = disk[l.target] /\ NoChildren(l.tinode)
        /\ pc[t] \in Unlinked =>
            /\ l.target \in Blocks \ {0}
            /\ \A i, j \in 1 .. size(l.tinode) : l.tinode.blocks[i] = l.tinode.blocks[j] => i = j
            /\ \A i \in 1 .. size(l.tinode) :
                disk[l.tinode.blocks[i]] \in DataBlock /\ l.tinode.blocks[i] # l.target
        /\ pc[t] = "free_direntries" =>
            /\ l.spot \in SpotType /\ l.spot.block # 0 /\ l.spot.block # l.target
            /\ \A i \in 1 .. size(l.tinode) : l.tinode.blocks[i] # l.spot.block

ThreadOK(t) ==
    /\ CallOK(t) /\ FrameOK(t) /\ PointersOK(t) /\ WalkOK(t) /\ InsideOK(t)
    /\ CreateOK(t) /\ WriteOK(t) /\ DeleteOK(t)

\* Every block but the root's is in the tree, on the free list or a thread's own, and
\* in one of these places only.
FreeBlocksOf(list) == {list[i] : i \in 1 .. Len(list)}
Accounted ==
    /\ \A i, j \in 1 .. Len(free_disk_blocks) : free_disk_blocks[i] = free_disk_blocks[j] => i = j
    /\ \A b \in 1 .. FS_DISKSIZE - 1 :
        \/ b \in blocks_used(disk) \/ b \in FreeBlocksOf(free_disk_blocks)
        \/ \E t \in Threads : b \in OwnBlocks(t)
    /\ blocks_used(disk) \cap FreeBlocksOf(free_disk_blocks) = {}
    /\ \A t \in Threads :
        /\ OwnBlocks(t) \cap blocks_used(disk) = {}
        /\ OwnBlocks(t) \cap FreeBlocksOf(free_disk_blocks) = {}
        /\ \A u \in Threads : u # t => OwnBlocks(t) \cap OwnBlocks(u) = {}

Inv == TypeOK /\ LocksInv /\ Sound(disk) /\ Accounted /\ \A t \in Threads : ThreadOK(t)

-----------------------------------------------------------------------------
(* Steps.                                                                  *)

\* The steps of thread t leave the others' variables alone.
Alone(t) ==
    /\ DomainsOK'
    /\ \A u \in Threads \ {t} :
        /\ pc'[u] = pc[u] /\ hold'[u] = hold[u] /\ cur'[u] = cur[u] /\ nxt'[u] = nxt[u]
        /\ req'[u] = req[u] /\ loc'[u] = loc[u]

\* Every lock that t takes goes together with those that the others hold.
TakesFree(t) ==
    \A g \in hold'[t] \ hold[t], u \in Threads \ {t} : \A h \in hold[u] : g[1] = h[1] =>
        /\ g[2] # "unique" /\ h[2] # "unique"
        /\ g[2] = "upgrade" => h[2] = "shared"
        /\ h[2] = "upgrade" => g[2] = "shared"

Keeps(t) == Alone(t) /\ TakesFree(t) /\ HoldsAt(t)'

\* The pointers of the others stay those in data_locks.
PointersKept(t, locks) ==
    \A u \in Threads \ {t} : \A l \in {cur[u], nxt[u]} :
        l \in LockObjects /\ data_locks[l[1]] = l[2] => locks[l[1]] = l[2]

\* A step that does not write to the disk.
Quiet(t) ==
    /\ TypeOK' /\ ThreadOK(t)' /\ Accounted' /\ disk' = disk /\ PointersKept(t, data_locks')
    /\ pc[t] \in {"free_direntries", "upgrade_target"}
        => pc'[t] = "upgrade_target" /\ loc'[t].target = loc[t].target

\* A step that writes to a block that only the thread knows of.
OwnWrite(t) ==
    /\ \E b \in OwnBlocks(t), c \in Contents : Write(b, c)
    /\ TypeOK' /\ free_disk_blocks' = free_disk_blocks /\ OwnBlocks(t)' = OwnBlocks(t)
    /\ ReachableInodes(disk') = ReachableInodes(disk) => ThreadOK(t)'
    /\ data_locks' = data_locks /\ pc[t] \notin Unlinked

-----------------------------------------------------------------------------
(* What the invariant says of the disk where the threads are.              *)

InodeFacts(b) ==
    /\ b \in Blocks /\ disk[b] \in fs_inode /\ disk[b].type \in {"f", "d"}
    /\ size(disk[b]) \in Nat /\ size(disk[b]) <= FS_MAXFILEBLOCKS
    /\ \A k \in 1 .. size(disk[b]) :
        /\ disk[b].blocks[k] \in Blocks \ {0}
        /\ disk[b].type = "d" => disk[disk[b].blocks[k]] \in direntries
        /\ disk[b].type = "f" => disk[disk[b].blocks[k]] \in DataBlock

PlaceFacts(t) ==
    /\ pc[t] \in {"lock", "get_lock"} => loc[t].node \in ReachableInodes(disk)
    /\ pc[t] = "read_inode" /\ AtEnd(t) /\ Op(t) # "FS_READBLOCK" => loc[t].node \in ReachableInodes(disk)
    /\ Found(t) => loc[t].target \in Blocks /\ loc[t].target \in ReachableInodes(disk)
    /\ pc[t] \in Unlinked => loc[t].tinode.blocks \in Seq(Blocks \ {0})
    /\ \A b \in OwnBlocks(t) :
        /\ b \in Blocks /\ b # 0 /\ b \notin ReachableInodes(disk)
        /\ \A a \in ReachableInodes(disk) : \A i \in 1 .. size(disk[a]) : disk[a].blocks[i] # b

LockFacts(b) ==
    lock_ptr(b) \in LockObjects /\ lock_ptr(b)[1] = b /\ data_locks[b] \in {None, lock_ptr(b)[2]}

Facts ==
    /\ \A b : Alive(b) => InodeFacts(b)
    /\ \A t \in Threads : PlaceFacts(t)
    /\ \A b \in Blocks : LockFacts(b)
    /\ \A S : S \subseteq 1 .. FS_DIRENTRIES /\ S # {} => First(S) \in S

\* What unlink needs to know of the disk that it leaves behind.
UnlinkedDisk(l) ==
    /\ disk' \in [Blocks -> Contents] /\ l.node \in ReachableInodes(disk')
    /\ l.target \in Blocks \ {0} /\ disk'[l.target] = disk[l.target]
    /\ l.spot.block # 0 /\ l.spot.block # l.target
    /\ \A i, j \in 1 .. size(l.tinode) : l.tinode.blocks[i] = l.tinode.blocks[j] => i = j
    /\ \A i \in 1 .. size(l.tinode) :
        /\ disk'[l.tinode.blocks[i]] \in DataBlock
        /\ l.tinode.blocks[i] # l.target /\ l.tinode.blocks[i] # l.spot.block
=============================================================================
