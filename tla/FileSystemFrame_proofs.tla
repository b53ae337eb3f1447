----------------------- MODULE FileSystemFrame_proofs -----------------------
(***************************************************************************)
(* What a step of one thread leaves of what the others rely on.             *)
(***************************************************************************)
EXTENDS FileSystemLocks_proofs, Disk_proofs

\* The prover of a leaf that names none.
USE ZenonT(30)


-----------------------------------------------------------------------------
(* Where the threads are.                                                  *)

\* What a thread that holds a lock of an inode can rely on.
LEMMA HereFacts ==
    ASSUME Inv, NEW u \in Threads, Here(u)
    PROVE  /\ cur[u] \in LockObjects /\ data_locks[cur[u][1]] = cur[u][2]
           /\ Alive(cur[u][1]) /\ \E m \in Modes : <<cur[u], m>> \in hold[u]
<1>1. ThreadOK(u) /\ HoldsAt(u)
    BY DEF Inv, LocksInv
<1> USE <1>1
<1>2. cur[u] \in LockObjects /\ data_locks[cur[u][1]] = cur[u][2]
    BY DEF ThreadOK, PointersOK
<1> USE <1>2
<1>3. CASE pc[u] \in {"lock", "get_lock"}
    BY <1>3 DEF ThreadOK, WalkOK, Here, Inside, Preparing, Changing, Modes
<1>4. CASE pc[u] \in Inside
    <2>1. Alive(cur[u][1])
        BY <1>4 DEF ThreadOK, InsideOK
    <2>2. \E m \in Modes : <<cur[u], m>> \in hold[u]
        BY <1>4 DEF HoldsAt, WalkMode, FinalMode, Inside, Changing, Modes
    <2> QED BY <2>1, <2>2
<1> QED BY <1>3, <1>4 DEF Here

\* Each lock that a thread holds is that of the inode it is at or of its target.
LEMMA HoldFacts ==
    ASSUME Inv, NEW u \in Threads, NEW h \in hold[u]
    PROVE  /\ \/ Here(u) /\ h[1] = cur[u]
              \/ pc[u] \in {"read_target", "unlink"} \cup Unlinked /\ h[1] = nxt[u]
           /\ h[1] \in LockObjects
           /\ pc[u] # "free_blocks" => data_locks[h[1][1]] = h[1][2]
<1>1. ThreadOK(u) /\ HoldsAt(u) /\ pc[u] \in Labels
    BY DEF Inv, LocksInv, TypeOK
<1> USE <1>1
<1>2. \/ Here(u) /\ h[1] = cur[u]
      \/ pc[u] \in {"read_target", "unlink"} \cup Unlinked /\ h[1] = nxt[u]
    <2>1. CASE pc[u] \in Outside
        BY <2>1 DEF HoldsAt
    <2>2. CASE pc[u] = "lock"
        BY <2>2 DEF HoldsAt, ThreadOK, WalkOK, Here
    <2>3. CASE pc[u] \in {"read_inode", "scan", "get_lock", "read_data", "commit", "lock_target"} \cup Preparing
        BY SMT, <2>3 DEF HoldsAt, Here, Inside, Changing
    <2>4. CASE pc[u] \in {"read_target", "unlink", "free_direntries"}
        BY SMT, <2>4 DEF HoldsAt, Here, Inside, Changing, Unlinked
    <2>5. CASE pc[u] \in {"upgrade_target", "erase_lock", "free_blocks"}
        BY SMT, <2>5 DEF HoldsAt, Erasing, Unlinked
    <2> QED BY <2>1, <2>2, <2>3, <2>4, <2>5 DEF Labels, Outside, Preparing
<1> USE <1>2
<1>3. CASE Here(u) /\ h[1] = cur[u]
    BY <1>3, HereFacts
<1>4. CASE pc[u] \in {"read_target", "unlink"} \cup Unlinked /\ h[1] = nxt[u]
    BY <1>4 DEF ThreadOK, PointersOK, Fetched
<1> QED BY <1>3, <1>4

\* Two threads that hold locks of one block hold the same lock.
LEMMA SameLock ==
    ASSUME Inv, NEW t \in Threads, NEW u \in Threads, NEW g \in hold[t], NEW h \in hold[u],
           pc[t] # "free_blocks", pc[u] # "free_blocks", g[1][1] = h[1][1]
    PROVE  g[1] = h[1]
<1>1. /\ g[1] \in LockObjects /\ data_locks[g[1][1]] = g[1][2]
      /\ h[1] \in LockObjects /\ data_locks[h[1][1]] = h[1][2]
    BY HoldFacts
<1> QED BY SMT, <1>1 DEF LockObjects

\* The blocks in a thread's hands are not part of the tree.
LEMMA OwnFacts ==
    ASSUME Inv, NEW u \in Threads, NEW b \in OwnBlocks(u)
    PROVE  /\ b \in Blocks /\ b # 0 /\ b \notin ReachableInodes(disk) /\ b \notin blocks_used(disk)
           /\ \A v \in Threads : v # u => b \notin OwnBlocks(v)
<1>1. ThreadOK(u) /\ loc[u] \in LocType
    BY DEF Inv, TypeOK
<1> USE <1>1
<1>2. b \notin blocks_used(disk) /\ \A v \in Threads : v # u => b \notin OwnBlocks(v)
    BY DEF Inv, Accounted
<1>3. b \in Blocks /\ b # 0
    <2>1. CASE b \in Range(loc[u].new)
        <3>1. loc[u].new \in Seq(Blocks \ {0})
            BY DEF LocType
        <3> QED BY SMT, <2>1, <3>1 DEF Range
    <2>2. CASE pc[u] = "free_direntries" /\ b = loc[u].spot.block
        BY <2>2 DEF ThreadOK, DeleteOK, SpotType
    <2>3. CASE pc[u] \in Unlinked /\ b \in Range(FreedBlocks(loc[u]))
        <3>1. loc[u].target \in Blocks \ {0} /\ loc[u].tinode \in fs_inode
            BY <2>3 DEF ThreadOK, DeleteOK
        <3> USE <3>1
        <3>2. loc[u].tinode.blocks \in Seq(Blocks \ {0})
            BY InodeFields
        <3>3. FreedBlocks(loc[u]) \in Seq(Blocks \ {0})
            BY SMT, <3>2 DEF FreedBlocks
        <3> QED BY SMT, <2>3, <3>3 DEF Range
    <2> QED BY <2>1, <2>2, <2>3 DEF OwnBlocks, At, Unlinked
<1> QED BY <1>2, <1>3, UsedIff

\* What delete gives back: the target and its blocks.
LEMMA FreedIff ==
    ASSUME NEW l, l.tinode \in fs_inode, l.target \in Blocks \ {0}, NoChildren(l.tinode)
    PROVE  /\ FreedBlocks(l) \in Seq(Blocks \ {0})
           /\ Range(FreedBlocks(l)) = {l.target} \cup BlocksOf(l.tinode)
<1>1. /\ l.tinode.blocks \in Seq(Blocks \ {0}) /\ l.tinode.type \in {"f", "d"}
      /\ size(l.tinode) = Len(l.tinode.blocks) /\ size(l.tinode) \in Nat
    BY InodeFields DEF size
<1> USE <1>1
<1>2. CASE l.tinode.type = "f"
    <2> DEFINE f == l.tinode.blocks \o <<l.target>>
    <2>1. FreedBlocks(l) = f
        BY <1>2 DEF FreedBlocks
    <2>2. /\ f \in Seq(Blocks \ {0}) /\ Len(f) = size(l.tinode) + 1
          /\ DOMAIN f = 1 .. size(l.tinode) + 1 /\ f[size(l.tinode) + 1] = l.target
          /\ \A i \in 1 .. size(l.tinode) : f[i] = l.tinode.blocks[i]
        BY SMT
    <2> USE <2>2
    <2> HIDE DEF f
    <2>3. \A i \in 1 .. size(l.tinode) + 1 : i \in 1 .. size(l.tinode) \/ i = size(l.tinode) + 1
        BY SMT
    <2>4. size(l.tinode) + 1 \in DOMAIN f /\ \A i \in 1 .. size(l.tinode) : i \in DOMAIN f
        BY SMT
    <2>5. \A x : x \in Range(f) <=> x \in {l.target} \cup BlocksOf(l.tinode)
        BY <2>3, <2>4 DEF Range, BlocksOf
    <2> QED BY <2>1, <2>5
<1>3. CASE l.tinode.type = "d"
    <2>1. 1 .. size(l.tinode) = {}
        BY SMT, <1>3 DEF NoChildren
    <2>2. FreedBlocks(l) = <<>> \o <<l.target>>
        BY <1>3 DEF FreedBlocks
    <2>3. FreedBlocks(l) = <<l.target>>
        BY SMT, <2>2
    <2> QED BY SMT, <2>1, <2>3 DEF Range, BlocksOf
<1> QED BY <1>2, <1>3

LEMMA UnlinkedFacts ==
    ASSUME Inv, NEW u \in Threads, pc[u] \in Unlinked
    PROVE  /\ loc[u].target \in OwnBlocks(u) /\ disk[loc[u].target] = loc[u].tinode
           /\ loc[u].tinode \in fs_inode /\ NoChildren(loc[u].tinode)
           /\ \A i \in 1 .. size(loc[u].tinode) :
                loc[u].tinode.blocks[i] \in OwnBlocks(u) /\ disk[loc[u].tinode.blocks[i]] \in DataBlock
<1>1. /\ loc[u].tinode \in fs_inode /\ loc[u].target \in Blocks \ {0} /\ NoChildren(loc[u].tinode)
      /\ disk[loc[u].target] = loc[u].tinode
      /\ \A i \in 1 .. size(loc[u].tinode) : disk[loc[u].tinode.blocks[i]] \in DataBlock
    BY DEF Inv, ThreadOK, DeleteOK
<1> USE <1>1
<1>2. {loc[u].target} \cup BlocksOf(loc[u].tinode) \subseteq OwnBlocks(u)
    BY FreedIff DEF OwnBlocks, Unlinked
<1> QED BY <1>2 DEF BlocksOf

\* The inodes that threads may be at.
LEMMA AliveFacts ==
    ASSUME Inv, NEW b, Alive(b)
    PROVE  /\ b \in Blocks /\ disk[b] \in fs_inode
           /\ b \notin ReachableInodes(disk) =>
                /\ NoChildren(disk[b])
                /\ \E u \in Threads :
                    /\ pc[u] \in {"free_direntries", "upgrade_target"} /\ loc[u].target = b
                    /\ b \in OwnBlocks(u)
                    /\ \A i \in 1 .. size(disk[b]) :
                        disk[b].blocks[i] \in OwnBlocks(u) /\ disk[disk[b].blocks[i]] \in DataBlock
<1>1. CASE b \in ReachableInodes(disk)
    BY <1>1, SoundFacts DEF Inv
<1>2. CASE Doomed(b)
    <2>1. PICK u \in Threads : pc[u] \in {"free_direntries", "upgrade_target"} /\ loc[u].target = b
        BY <1>2 DEF Doomed
    <2>2. pc[u] \in Unlinked
        BY <2>1 DEF Unlinked
    <2>3. /\ b \in OwnBlocks(u) /\ disk[b] = loc[u].tinode /\ disk[b] \in fs_inode /\ NoChildren(disk[b])
          /\ \A i \in 1 .. size(disk[b]) :
                disk[b].blocks[i] \in OwnBlocks(u) /\ disk[disk[b].blocks[i]] \in DataBlock
        BY <2>1, <2>2, UnlinkedFacts
    <2> QED BY <2>1, <2>3, OwnFacts
<1> QED BY <1>1, <1>2 DEF Alive

\* Nobody else is inside a directory or file that a thread changes, and no other
\* thread deletes it.
LEMMA OthersAway ==
    ASSUME Inv, NEW t \in Threads, NEW u \in Threads, t # u, pc[t] \in Changing
    PROVE  /\ Here(u) => cur[u][1] # loc[t].node
           /\ pc[u] \in {"read_target", "unlink"} => loc[u].target # loc[t].node
           /\ \A h \in hold[u] : h[1][1] # loc[t].node
<1>1. <<cur[t], "unique">> \in hold[t] /\ cur[t][1] = loc[t].node /\ pc[t] # "free_blocks"
      /\ loc[t].node \in ReachableInodes(disk)
    BY SMT DEF Inv, LocksInv, HoldsAt, ThreadOK, InsideOK, Changing, Inside
<1> USE <1>1
<1>2. ASSUME NEW h \in hold[u] PROVE h[1][1] # loc[t].node
    <2>1. CASE pc[u] # "free_blocks"
        <3>1. h[1][1] = loc[t].node => h[1] = cur[t]
            BY SMT, <2>1, SameLock
        <3>2. h[1] # cur[t]
            BY DEF Inv, LocksInv, Compatible
        <3> QED BY <3>1, <3>2
    <2>2. CASE pc[u] = "free_blocks"
        <3>1. h[1] = nxt[u]
            BY <2>2, HoldFacts DEF Here, Inside, Preparing, Changing
        <3>2. nxt[u][1] = loc[u].target
            BY <2>2 DEF Inv, ThreadOK, DeleteOK, Fetched, Unlinked
        <3>3. loc[u].target \in OwnBlocks(u)
            BY <2>2, UnlinkedFacts DEF Unlinked
        <3> QED BY <3>1, <3>2, <3>3, OwnFacts
    <2> QED BY <2>1, <2>2
<1>3. ASSUME Here(u) PROVE cur[u][1] # loc[t].node
    BY <1>2, <1>3, HereFacts
<1>4. ASSUME pc[u] \in {"read_target", "unlink"} PROVE loc[u].target # loc[t].node
    <2>1. <<nxt[u], "upgrade">> \in hold[u] /\ nxt[u][1] = loc[u].target
        BY SMT, <1>4 DEF Inv, LocksInv, HoldsAt, ThreadOK, DeleteOK, Fetched
    <2> QED BY <1>2, <2>1
<1> QED BY <1>2, <1>3, <1>4

-----------------------------------------------------------------------------
(* What a step leaves of the other threads' facts.                          *)

\* What u has read, holds or owns is as it was.
DiskKept(u) ==
    /\ Here(u) =>
        /\ disk'[cur[u][1]] = disk[cur[u][1]]
        /\ \A i \in 1 .. size(disk[cur[u][1]]) :
            disk'[disk[cur[u][1]].blocks[i]] = disk[disk[cur[u][1]].blocks[i]]
    /\ \A b \in OwnBlocks(u) : disk'[b] = disk[b]
    /\ pc[u] = "unlink" => disk'[loc[u].target] = disk[loc[u].target]
InodeKept(u) ==
    /\ Here(u) => Alive(cur[u][1])'
    /\ pc[u] \in Preparing \cup Changing => cur[u][1] \in ReachableInodes(disk')
LocksKept(u) ==
    /\ Here(u) => data_locks'[cur[u][1]] = data_locks[cur[u][1]]
    /\ Fetched(u) /\ pc[u] # "free_blocks" => data_locks'[nxt[u][1]] = data_locks[nxt[u][1]]
OwnKept(u) ==
    /\ pc'[u] = pc[u] /\ hold'[u] = hold[u] /\ cur'[u] = cur[u] /\ nxt'[u] = nxt[u]
    /\ req'[u] = req[u] /\ loc'[u] = loc[u]
Undisturbed(u) == OwnKept(u) /\ DiskKept(u) /\ InodeKept(u) /\ LocksKept(u)

LEMMA Frame ==
    ASSUME Inv, NEW u \in Threads, Undisturbed(u) PROVE ThreadOK(u)'
<1> USE DEF Op
<1>1. ThreadOK(u)
    BY DEF Inv
<1> USE <1>1
<1>2. OwnKept(u) /\ DiskKept(u) /\ InodeKept(u) /\ LocksKept(u)
    BY DEF Undisturbed
<1> USE <1>2
<1>3. /\ Here(u)' = Here(u) /\ Creates(u)' = Creates(u) /\ Writes(u)' = Writes(u)
      /\ Found(u)' = Found(u) /\ Fetched(u)' = Fetched(u)
    BY DEF OwnKept, Here, Creates, Writes, Found, Fetched
<1> USE <1>3
<1>4. CallOK(u)'
    BY DEF ThreadOK, CallOK, OwnKept
<1>5. FrameOK(u)'
    BY DEF ThreadOK, FrameOK, OwnKept
<1>6. PointersOK(u)'
    BY DEF ThreadOK, PointersOK, OwnKept, LocksKept
<1>7. WalkOK(u)'
    <2>1. ASSUME pc[u] \in {"lock", "get_lock"}, loc[u].i # 0
          PROVE  Alive(cur[u][1])' /\ loc[u].node \in Children(disk', cur[u][1])
        <3>1. Here(u)
            BY <2>1 DEF Here
        <3> USE <3>1
        <3>2. Children(disk', cur[u][1]) = Children(disk, cur[u][1])
            BY SMT, SameChildren DEF DiskKept
        <3> QED BY <2>1, <3>2 DEF ThreadOK, WalkOK, InodeKept
    <2> QED BY <2>1 DEF ThreadOK, WalkOK, OwnKept
<1>8. InsideOK(u)'
    <2>1. pc[u] \in Inside => Here(u)
        BY DEF Here
    <2>2. pc[u] \in Inside => /\ Alive(loc[u].node)' /\ disk'[loc[u].node] = disk[loc[u].node]
                              /\ cur[u][1] = loc[u].node
        BY <2>1 DEF ThreadOK, InsideOK, InodeKept, DiskKept, OwnKept
    <2> USE <2>2
    <2>3. pc[u] \in Preparing \cup Changing => loc[u].node \in ReachableInodes(disk')
        BY DEF InodeKept, Inside
    <2> QED BY <2>3 DEF ThreadOK, InsideOK, OwnKept
<1>9. ASSUME pc[u] \in Inside \ {"read_inode", "free_direntries"}
      PROVE  /\ loc[u].inode = disk[loc[u].node] /\ disk'[loc[u].node] = disk[loc[u].node]
             /\ \A i \in 1 .. size(loc[u].inode) :
                    /\ disk'[loc[u].inode.blocks[i]] = disk[loc[u].inode.blocks[i]]
                    /\ \A j : EntryAt(disk', loc[u].node, i, j) = EntryAt(disk, loc[u].node, i, j)
    <2>1. loc[u].inode = disk[loc[u].node] /\ cur[u][1] = loc[u].node
        BY <1>9 DEF ThreadOK, InsideOK
    <2> USE <2>1
    <2>2. /\ disk'[loc[u].node] = disk[loc[u].node]
          /\ \A i \in 1 .. size(loc[u].inode) :
                disk'[loc[u].inode.blocks[i]] = disk[loc[u].inode.blocks[i]]
        BY SMT, <1>9 DEF DiskKept, Here
    <2> QED BY <2>2 DEF EntryAt
<1>10. \A b \in Range(loc[u].new) : disk'[b] = disk[b]
    BY DEF DiskKept, OwnBlocks
<1>11. \A i \in 1 .. Len(loc[u].new) : disk'[loc[u].new[i]] = disk[loc[u].new[i]]
    <2>1. loc[u].new \in Seq(Blocks \ {0})
        BY DEF Inv, TypeOK, LocType
    <2> QED BY SMT, <1>10, <2>1 DEF Range
<1>12. CreateOK(u)'
    <2> SUFFICES ASSUME Creates(u) PROVE CreateOK(u)'
        BY DEF CreateOK
    <2>1. pc[u] \in Inside \ {"read_inode", "free_direntries"}
        BY DEF Creates, CreateLabels, Inside, Preparing, Changing
    <2> USE <2>1
    <2>2. ASSUME NEW i \in 1 .. size(loc[u].inode), SpotFree(u, i) PROVE SpotFree(u, i)'
        BY <1>9, <2>2 DEF SpotFree, OwnKept
    <2>3. NotIn(disk, loc[u].node, Filename(req[u])) => NotIn(disk', loc[u].node, Filename(req[u]))
        BY SMT, <1>9 DEF NotIn
    <2>4. 1 \in 1 .. 1 /\ 1 \in 1 .. 2 /\ 2 \in 1 .. 2
        BY SMT
    <2> USE <2>4
    <2>5. CreateOK(u)
        BY DEF ThreadOK
    <2> USE <2>5
    <2>6. pc[u] = "create_scan" => 1 .. loc[u].k - 1 \subseteq 1 .. size(loc[u].inode)
        <3>1. pc[u] = "create_scan" => loc[u].k \in 1 .. size(loc[u].inode)
            BY DEF CreateOK
        <3>2. size(loc[u].inode) \in Int
            BY SMT, <1>9, AliveFacts, InodeFields DEF ThreadOK, InsideOK
        <3> QED BY SMT, <3>1, <3>2
    <2>7. /\ loc[u].inode.type = "d"
          /\ loc[u].spot # None => \E i \in 1 .. size(loc[u].inode) : SpotFree(u, i)'
        BY <2>2 DEF CreateOK
    <2>8. pc[u] = "create_scan" =>
            /\ loc[u].k \in 1 .. size(loc[u].inode)
            /\ \A i \in 1 .. loc[u].k - 1, j \in 1 .. FS_DIRENTRIES :
                EntryAt(disk', loc[u].node, i, j).inode_block # 0
                    => EntryAt(disk', loc[u].node, i, j).name # Filename(req[u])
        BY SMT, <1>9, <2>6 DEF CreateOK
    <2>9. pc[u] # "create_scan" => NotIn(disk', loc[u].node, Filename(req[u]))
        BY <2>3 DEF CreateOK
    <2>10. pc[u] \in {"write_inode", "upgrade", "commit"} =>
            IF loc[u].spot # None
            THEN Len(loc[u].new) = 1
                 /\ loc[u].spot.dir.entries[loc[u].spot.slot] = Entry(Filename(req[u]), loc[u].new[1])
            ELSE /\ Len(loc[u].new) = 2 /\ size(loc[u].inode) < FS_MAXFILEBLOCKS
                 /\ NewEntries(disk'[loc[u].new[2]], Filename(req[u]), loc[u].new[1])
        BY <1>11 DEF CreateOK
    <2>11. pc[u] \in {"upgrade", "commit"} =>
            disk'[loc[u].new[1]] = NewInode(req[u].type, req[u].username)
        BY <1>11 DEF CreateOK
    <2> QED BY <2>7, <2>8, <2>9, <2>10, <2>11 DEF CreateOK, OwnKept
<1>13. WriteOK(u)'
    <2>1. 1 \in 1 .. 1
        BY SMT
    <2> QED BY <1>11, <2>1 DEF ThreadOK, WriteOK, OwnKept
<1>14. DeleteOK(u)'
    <2>1. Found(u) => pc[u] \in Inside \ {"read_inode", "free_direntries"}
        BY DEF Found, Inside, Preparing, Changing
    <2>2. Found(u) => disk'[loc[u].spot.block] = disk[loc[u].spot.block]
        BY <1>9, <2>1 DEF ThreadOK, DeleteOK
    <2>3. pc[u] \in Unlinked => /\ disk'[loc[u].target] = disk[loc[u].target]
                                /\ \A i \in 1 .. size(loc[u].tinode) :
                                    disk'[loc[u].tinode.blocks[i]] = disk[loc[u].tinode.blocks[i]]
        BY UnlinkedFacts DEF DiskKept
    <2> USE <2>3
    <2>4. pc[u] \in {"unlink"} \cup Unlinked => disk'[loc[u].target] = disk[loc[u].target]
        BY DEF DiskKept
    <2>5. DeleteOK(u)
        BY DEF ThreadOK
    <2> USE <2>5
    <2>6. pc[u] \in Unlinked =>
            \A i \in 1 .. size(loc[u].tinode) : disk'[loc[u].tinode.blocks[i]] \in DataBlock
        BY DEF DeleteOK
    <2>7. pc[u] \in {"unlink"} \cup Unlinked => loc[u].tinode = disk'[loc[u].target]
        BY <2>4 DEF DeleteOK
    <2>8. Found(u) => loc[u].spot.dir = disk'[loc[u].spot.block]
        BY <2>2 DEF DeleteOK
    <2> QED BY <2>6, <2>7, <2>8 DEF DeleteOK, OwnKept
<1> QED BY <1>4, <1>5, <1>6, <1>7, <1>8, <1>12, <1>13, <1>14 DEF ThreadOK

LEMMA StepLemma ==
    ASSUME Inv, NEW t \in Threads, LocksInv', TypeOK', Sound(disk)', Accounted', ThreadOK(t)',
           \A u \in Threads \ {t} : Undisturbed(u)
    PROVE  Inv'
<1>1. \A u \in Threads : ThreadOK(u)'
    BY Frame
<1> QED BY <1>1 DEF Inv

\* The entry that delete has found is one of the tree.
LEMMA FoundFacts ==
    ASSUME Inv, NEW u \in Threads, Found(u)
    PROVE  /\ loc[u].node \in ReachableInodes(disk) /\ disk[loc[u].node].type = "d"
           /\ loc[u].inode = disk[loc[u].node] /\ loc[u].k \in 1 .. size(disk[loc[u].node])
           /\ loc[u].spot.slot \in 1 .. FS_DIRENTRIES
           /\ loc[u].spot.block = disk[loc[u].node].blocks[loc[u].k]
           /\ loc[u].spot.dir = disk[loc[u].spot.block] /\ loc[u].spot.dir \in direntries
           /\ loc[u].target = EntryAt(disk, loc[u].node, loc[u].k, loc[u].spot.slot).inode_block
           /\ loc[u].target # 0 /\ loc[u].target \in ReachableInodes(disk)
<1>1. ThreadOK(u)
    BY DEF Inv
<1> USE <1>1
<1>2. pc[u] \in Preparing \cup Changing /\ pc[u] \in Inside \ {"read_inode", "free_direntries"}
    BY DEF Found, Inside, Preparing, Changing
<1>3. loc[u].node \in ReachableInodes(disk) /\ loc[u].inode = disk[loc[u].node]
    BY <1>2 DEF ThreadOK, InsideOK
<1> USE <1>3
<1>4. /\ disk[loc[u].node].type = "d" /\ loc[u].k \in 1 .. size(disk[loc[u].node])
      /\ loc[u].spot \in SpotType /\ loc[u].spot.block = disk[loc[u].node].blocks[loc[u].k]
      /\ loc[u].spot.dir = disk[loc[u].spot.block]
      /\ loc[u].target = loc[u].spot.dir.entries[loc[u].spot.slot].inode_block /\ loc[u].target # 0
    BY DEF ThreadOK, DeleteOK
<1> USE <1>4
<1>5. loc[u].spot.slot \in 1 .. FS_DIRENTRIES /\ loc[u].spot.dir \in direntries
    BY DEF SpotType
<1> USE <1>5
<1>6. loc[u].target = EntryAt(disk, loc[u].node, loc[u].k, loc[u].spot.slot).inode_block
    BY DEF EntryAt
<1> USE <1>6
<1>7. loc[u].target \in ReachableInodes(disk)
    <2>1. Sound(disk)
        BY DEF Inv
    <2> QED BY <2>1, EntryReached
<1> QED BY <1>7

\* The inode that a walk goes on to is one of the tree.
LEMMA NextFacts ==
    ASSUME Inv, NEW u \in Threads, pc[u] \in {"lock", "get_lock"}
    PROVE  loc[u].node \in ReachableInodes(disk)
<1>1. ThreadOK(u)
    BY DEF Inv
<1> USE <1>1
<1>2. CASE loc[u].i = 0
    BY <1>2, Reach DEF ThreadOK, WalkOK
<1>3. CASE loc[u].i # 0
    <2>1. Alive(cur[u][1]) /\ loc[u].node \in Children(disk, cur[u][1])
        BY <1>3 DEF ThreadOK, WalkOK
    <2> USE <2>1
    <2>2. CASE cur[u][1] \in ReachableInodes(disk)
        BY <2>2, Reach
    <2>3. CASE cur[u][1] \notin ReachableInodes(disk)
        <3>1. NoChildren(disk[cur[u][1]]) /\ disk[cur[u][1]] \in fs_inode
            BY <2>3, AliveFacts
        <3> USE <3>1
        <3>2. Children(disk, cur[u][1]) = {}
            <4>1. CASE disk[cur[u][1]].type = "f"
                BY <4>1 DEF Children
            <4>2. CASE disk[cur[u][1]].type = "d"
                <5>1. 1 .. size(disk[cur[u][1]]) = {}
                    BY SMT, <4>2 DEF NoChildren
                <5> QED BY <4>2, <5>1 DEF Children
            <4> QED BY <4>1, <4>2, InodeFields
        <3> QED BY <3>2
    <2> QED BY <2>2, <2>3
<1> QED BY <1>2, <1>3

\* Whose lock a thread has got the pointer to.
LEMMA FetchedFacts ==
    ASSUME Inv, NEW u \in Threads, Fetched(u)
    PROVE  /\ nxt[u] \in LockObjects
           /\ pc[u] \in Unlinked => nxt[u][1] = loc[u].target /\ nxt[u][1] \in OwnBlocks(u)
           /\ pc[u] \notin Unlinked => nxt[u][1] \in ReachableInodes(disk)
<1>1. ThreadOK(u)
    BY DEF Inv
<1> USE <1>1
<1>2. nxt[u] \in LockObjects
    BY DEF ThreadOK, PointersOK
<1> USE <1>2
<1>3. CASE pc[u] = "lock"
    BY <1>3, NextFacts DEF ThreadOK, WalkOK, Unlinked
<1>4. CASE pc[u] # "lock"
    <2>1. nxt[u][1] = loc[u].target
        BY <1>4 DEF ThreadOK, DeleteOK
    <2> USE <2>1
    <2>2. CASE pc[u] \in Unlinked
        BY <2>2, UnlinkedFacts
    <2>3. CASE pc[u] \notin Unlinked
        <3>1. Found(u)
            BY <1>4, <2>3 DEF Fetched, Found
        <3> QED BY <2>3, <3>1, FoundFacts
    <2> QED BY <2>2, <2>3
<1> QED BY <1>3, <1>4

\* The inodes that the others are at stay in the tree, or stay doomed.
LEMMA InodesKept ==
    ASSUME Inv, NEW t \in Threads, NEW u \in Threads, t # u, Alone(t),
           ReachableInodes(disk) \subseteq ReachableInodes(disk'),
           pc[t] \in {"free_direntries", "upgrade_target"} /\ Here(u) /\ cur[u][1] = loc[t].target
                => pc'[t] = "upgrade_target" /\ loc'[t].target = loc[t].target
    PROVE  InodeKept(u)
<1>1. \A v \in Threads : v # t => pc'[v] = pc[v] /\ loc'[v] = loc[v] /\ cur'[v] = cur[v]
    BY DEF Alone
<1>2. ASSUME Here(u) PROVE Alive(cur[u][1])'
    <2>1. Alive(cur[u][1])
        BY <1>2, HereFacts
    <2>2. CASE cur[u][1] \in ReachableInodes(disk)
        BY <1>1, <2>2 DEF Alive
    <2>3. CASE Doomed(cur[u][1])
        <3>1. PICK v \in Threads : pc[v] \in {"free_direntries", "upgrade_target"} /\ loc[v].target = cur[u][1]
            BY <2>3 DEF Doomed
        <3>2. pc'[v] \in {"free_direntries", "upgrade_target"} /\ loc'[v].target = cur'[u][1]
            BY <1>1, <1>2, <3>1
        <3> QED BY <3>2 DEF Alive, Doomed
    <2> QED BY <2>1, <2>2, <2>3 DEF Alive
<1>3. ASSUME pc[u] \in Preparing \cup Changing PROVE cur[u][1] \in ReachableInodes(disk')
    BY <1>3 DEF Inv, ThreadOK, InsideOK, Inside
<1> QED BY <1>2, <1>3 DEF InodeKept

LEMMA PointersLocks ==
    ASSUME Inv, NEW t \in Threads, NEW u \in Threads, t # u, PointersKept(t, data_locks')
    PROVE  LocksKept(u)
<1>1. ThreadOK(u)
    BY DEF Inv
<1> USE <1>1
<1>2. ASSUME Here(u) PROVE data_locks'[cur[u][1]] = data_locks[cur[u][1]]
    BY <1>2 DEF ThreadOK, PointersOK, PointersKept
<1>3. ASSUME Fetched(u), pc[u] # "free_blocks" PROVE data_locks'[nxt[u][1]] = data_locks[nxt[u][1]]
    BY <1>3 DEF ThreadOK, PointersOK, PointersKept
<1> QED BY <1>2, <1>3 DEF LocksKept

\* Whoever writes a block it owns disturbs nobody, and the tree stays as it is.
LEMMA OwnWriteKept ==
    ASSUME Inv, NEW t \in Threads, pc[t] \notin Unlinked, NEW x \in OwnBlocks(t), NEW c,
           Wrote(disk, disk', x, c)
    PROVE  /\ \A u \in Threads \ {t} : DiskKept(u)
           /\ Sound(disk') /\ ReachableInodes(disk') = ReachableInodes(disk)
           /\ blocks_used(disk') = blocks_used(disk)
<1>1. /\ x \in Blocks /\ x # 0 /\ x \notin ReachableInodes(disk) /\ x \notin blocks_used(disk)
      /\ \A v \in Threads : v # t => x \notin OwnBlocks(v)
    BY OwnFacts
<1> USE <1>1
<1>2. Sound(disk) /\ disk' \in [Blocks -> Contents] /\ \A b \in Blocks : b # x => disk'[b] = disk[b]
    BY DEF Inv, Wrote
<1> USE <1>2
<1>3. \A b \in {0} \cup blocks_used(disk) : disk'[b] = disk[b]
    <2>1. 0 \in Blocks
        BY SMT, SizesAssumption DEF Blocks
    <2>2. \A b \in blocks_used(disk) : b \in Blocks
        <3> SUFFICES ASSUME NEW b \in blocks_used(disk) PROVE b \in Blocks
            OBVIOUS
        <3>1. CASE b \in ReachableInodes(disk)
            BY <3>1, SoundFacts
        <3>2. ASSUME NEW a \in ReachableInodes(disk), NEW i \in 1 .. size(disk[a]), disk[a].blocks[i] = b
              PROVE  b \in Blocks
            BY <3>2, SoundFacts
        <3> QED BY <3>1, <3>2, UsedIff
    <2> QED BY <2>1, <2>2
<1>4. /\ Sound(disk') /\ ReachableInodes(disk') = ReachableInodes(disk)
      /\ blocks_used(disk') = blocks_used(disk)
    BY <1>3, Agree
<1>5. ASSUME NEW u \in Threads \ {t}, Here(u)
      PROVE  /\ disk'[cur[u][1]] = disk[cur[u][1]]
             /\ \A i \in 1 .. size(disk[cur[u][1]]) :
                    disk'[disk[cur[u][1]].blocks[i]] = disk[disk[cur[u][1]].blocks[i]]
    <2>1. Alive(cur[u][1])
        BY <1>5, HereFacts
    <2>2. CASE cur[u][1] \in ReachableInodes(disk)
        <3>1. disk'[cur[u][1]] = disk[cur[u][1]]
            BY <2>2, SoundFacts
        <3>2. ASSUME NEW i \in 1 .. size(disk[cur[u][1]])
              PROVE  disk'[disk[cur[u][1]].blocks[i]] = disk[disk[cur[u][1]].blocks[i]]
            <4>1. disk[cur[u][1]].blocks[i] \in blocks_used(disk)
                BY <2>2, UsedIff
            <4> QED BY <1>3, <4>1
        <3> QED BY <3>1, <3>2
    <2>3. CASE cur[u][1] \notin ReachableInodes(disk)
        <3>1. PICK v \in Threads :
                /\ pc[v] \in {"free_direntries", "upgrade_target"} /\ cur[u][1] \in OwnBlocks(v)
                /\ \A i \in 1 .. size(disk[cur[u][1]]) : disk[cur[u][1]].blocks[i] \in OwnBlocks(v)
            BY <2>1, <2>3, AliveFacts
        <3>2. v # t
            BY <3>1 DEF Unlinked
        <3>3. \A b \in OwnBlocks(v) : b \in Blocks /\ b # x
            BY <3>2, OwnFacts
        <3> QED BY <3>1, <3>3
    <2> QED BY <2>2, <2>3
<1>6. ASSUME NEW u \in Threads \ {t}, NEW b \in OwnBlocks(u) PROVE disk'[b] = disk[b]
    BY OwnFacts
<1>7. ASSUME NEW u \in Threads \ {t}, pc[u] = "unlink" PROVE disk'[loc[u].target] = disk[loc[u].target]
    <2>1. loc[u].target \in ReachableInodes(disk)
        BY <1>7, FoundFacts DEF Found
    <2> QED BY <2>1, SoundFacts
<1> QED BY <1>4, <1>5, <1>6, <1>7 DEF DiskKept

\* Whoever writes the directory or file it changes, or a block of it, disturbs nobody.
LEMMA ChangeKept ==
    ASSUME Inv, NEW t \in Threads, pc[t] \in Changing, NEW x, NEW c, Wrote(disk, disk', x, c),
           x = loc[t].node \/ \E i \in 1 .. size(disk[loc[t].node]) : x = disk[loc[t].node].blocks[i]
    PROVE  \A u \in Threads \ {t} : DiskKept(u)
<1>1. Sound(disk) /\ loc[t].node \in ReachableInodes(disk)
    BY DEF Inv, ThreadOK, InsideOK, Inside
<1> USE <1>1
<1>2. \A b \in Blocks : b # x => disk'[b] = disk[b]
    BY DEF Wrote
<1>3. x \in {0} \cup blocks_used(disk)
    BY UsedIff
<1>4. ASSUME NEW a \in ReachableInodes(disk), a # loc[t].node
      PROVE  disk'[a] = disk[a] /\ \A i \in 1 .. size(disk[a]) : disk'[disk[a].blocks[i]] = disk[disk[a].blocks[i]]
    <2>1. CASE x = loc[t].node
        BY <1>2, <1>4, <2>1, SoundFacts
    <2>2. ASSUME NEW k \in 1 .. size(disk[loc[t].node]), x = disk[loc[t].node].blocks[k]
          PROVE  disk'[a] = disk[a] /\ \A i \in 1 .. size(disk[a]) : disk'[disk[a].blocks[i]] = disk[disk[a].blocks[i]]
        <3>1. a # x
            BY <2>2, SoundFacts
        <3>2. \A i \in 1 .. size(disk[a]) : disk[a].blocks[i] # x
            BY <1>4, <2>2, BlockOnce
        <3> QED BY <1>2, <3>1, <3>2, SoundFacts
    <2> QED BY <2>1, <2>2
<1>5. ASSUME NEW u \in Threads, NEW b \in OwnBlocks(u) PROVE disk'[b] = disk[b]
    BY <1>2, <1>3, OwnFacts
<1>6. ASSUME NEW u \in Threads \ {t}, Here(u)
      PROVE  /\ disk'[cur[u][1]] = disk[cur[u][1]]
             /\ \A i \in 1 .. size(disk[cur[u][1]]) :
                    disk'[disk[cur[u][1]].blocks[i]] = disk[disk[cur[u][1]].blocks[i]]
    <2>1. Alive(cur[u][1])
        BY <1>6, HereFacts
    <2>2. CASE cur[u][1] \in ReachableInodes(disk)
        <3>1. cur[u][1] # loc[t].node
            BY <1>6, OthersAway
        <3> QED BY <1>4, <2>2, <3>1
    <2>3. CASE cur[u][1] \notin ReachableInodes(disk)
        <3>1. PICK v \in Threads :
                /\ cur[u][1] \in OwnBlocks(v)
                /\ \A i \in 1 .. size(disk[cur[u][1]]) : disk[cur[u][1]].blocks[i] \in OwnBlocks(v)
            BY <2>1, <2>3, AliveFacts
        <3> QED BY <1>5, <3>1
    <2> QED BY <2>2, <2>3
<1>7. ASSUME NEW u \in Threads \ {t}, pc[u] = "unlink" PROVE disk'[loc[u].target] = disk[loc[u].target]
    <2>1. loc[u].target \in ReachableInodes(disk)
        BY <1>7, FoundFacts DEF Found
    <2>2. loc[u].target # loc[t].node
        BY <1>7, OthersAway
    <2> QED BY <1>4, <2>1, <2>2
<1> QED BY <1>5, <1>6, <1>7 DEF DiskKept

-----------------------------------------------------------------------------
(* The shapes of the steps.                                                *)

LEMMA Preserved ==
    ASSUME Inv, NEW t \in Threads, Keeps(t), TypeOK', Sound(disk)', Accounted', ThreadOK(t)',
           \A u \in Threads \ {t} : DiskKept(u) /\ InodeKept(u) /\ LocksKept(u)
    PROVE  Inv'
<1>1. LocksInv'
    BY KeepsLemma DEF Inv
<1>2. \A u \in Threads \ {t} : Undisturbed(u)
    BY DEF Keeps, Alone, Undisturbed, OwnKept
<1> QED BY <1>1, <1>2, StepLemma

\* A step that does not write to the disk.
LEMMA QuietStep ==
    ASSUME Inv, NEW t \in Threads, Keeps(t), Quiet(t) PROVE Inv'
<1>1. \A u \in Threads \ {t} : DiskKept(u)
    BY DEF DiskKept, Quiet
<1>2. \A u \in Threads \ {t} : InodeKept(u)
    BY InodesKept DEF Keeps, Quiet
<1>3. \A u \in Threads \ {t} : LocksKept(u)
    BY PointersLocks DEF Quiet
<1>4. Sound(disk)'
    BY DEF Inv, Quiet
<1> QED BY <1>1, <1>2, <1>3, <1>4, Preserved DEF Quiet

-----------------------------------------------------------------------------
(* What the invariant says of the disk.                                    *)

\* Whoever has walked to the end of its path, to change what is there, is in the tree.
LEMMA ReachedFacts ==
    ASSUME Inv, NEW t \in Threads, pc[t] = "read_inode", AtEnd(t), Op(t) # "FS_READBLOCK"
    PROVE  loc[t].node \in ReachableInodes(disk)
<1>1. hold[t] = {<<cur[t], "upgrade">>}
    BY DEF Inv, LocksInv, HoldsAt, WalkMode, FinalMode, Op
<1>2. cur[t][1] = loc[t].node /\ Alive(loc[t].node)
    BY DEF Inv, ThreadOK, InsideOK, Inside
<1>3. ASSUME NEW u \in Threads, pc[u] \in {"free_direntries", "upgrade_target"}, loc[u].target = loc[t].node
      PROVE  FALSE
    <2>1. <<nxt[u], "upgrade">> \in hold[u] /\ nxt[u][1] = loc[t].node
        BY <1>3, FetchedFacts DEF Inv, LocksInv, HoldsAt, Fetched, Unlinked
    <2> DEFINE g == <<cur[t], "upgrade">>
               h == <<nxt[u], "upgrade">>
    <2>2. /\ g \in hold[t] /\ h \in hold[u] /\ g[1] = cur[t] /\ h[1] = nxt[u] /\ g[1][1] = h[1][1]
          /\ pc[t] # "free_blocks" /\ pc[u] # "free_blocks" /\ t # u
        BY <1>1, <1>2, <1>3, <2>1
    <2> HIDE DEF g, h
    <2>3. nxt[u] = cur[t]
        BY <2>2, SameLock
    <2>4. g[1] = h[1] /\ g[2] = "upgrade" /\ h[2] = "upgrade"
        BY <2>2, <2>3 DEF g, h
    <2> QED BY <2>2, <2>4 DEF Inv, LocksInv, Compatible
<1> QED BY <1>2, <1>3 DEF Alive, Doomed

LEMMA AliveInodes == ASSUME Inv, NEW b, Alive(b) PROVE InodeFacts(b)
<1>1. b \in Blocks /\ disk[b] \in fs_inode /\ Sound(disk)
    BY AliveFacts DEF Inv
<1>2. /\ disk[b].type \in {"f", "d"} /\ size(disk[b]) \in Nat /\ size(disk[b]) <= FS_MAXFILEBLOCKS
      /\ \A k \in 1 .. size(disk[b]) : disk[b].blocks[k] \in Blocks \ {0}
    BY <1>1, InodeFields
<1>3. CASE b \in ReachableInodes(disk)
    BY <1>1, <1>2, <1>3, SoundFacts DEF InodeFacts
<1>4. CASE b \notin ReachableInodes(disk)
    <2>1. NoChildren(disk[b]) /\ \A k \in 1 .. size(disk[b]) : disk[disk[b].blocks[k]] \in DataBlock
        BY <1>4, AliveFacts
    <2> QED BY SMT, <1>1, <1>2, <2>1 DEF InodeFacts, NoChildren
<1> QED BY <1>3, <1>4

LEMMA Places == ASSUME Inv, NEW t \in Threads PROVE PlaceFacts(t)
<1>1. pc[t] \in {"lock", "get_lock"} => loc[t].node \in ReachableInodes(disk)
    BY NextFacts
<1>2. pc[t] = "read_inode" /\ AtEnd(t) /\ Op(t) # "FS_READBLOCK" => loc[t].node \in ReachableInodes(disk)
    BY ReachedFacts
<1>3. Found(t) => loc[t].target \in Blocks /\ loc[t].target \in ReachableInodes(disk)
    BY FoundFacts, Reach
<1>4. pc[t] \in Unlinked => loc[t].tinode.blocks \in Seq(Blocks \ {0})
    BY UnlinkedFacts, InodeFields
<1>5. ASSUME NEW b \in OwnBlocks(t)
      PROVE  /\ b \in Blocks /\ b # 0 /\ b \notin ReachableInodes(disk)
             /\ \A a \in ReachableInodes(disk) : \A i \in 1 .. size(disk[a]) : disk[a].blocks[i] # b
    BY OwnFacts, UsedIff
<1> QED BY <1>1, <1>2, <1>3, <1>4, <1>5 DEF PlaceFacts

LEMMA LockPointers == ASSUME Inv, NEW b \in Blocks PROVE LockFacts(b)
<1>1. data_locks[b] \in Generations \cup {None} /\ TypeOK
    BY DEF Inv, TypeOK
<1>2. CASE data_locks[b] # None
    BY <1>1, <1>2 DEF LockFacts, lock_ptr, LockObjects
<1>3. CASE data_locks[b] = None
    <2> DEFINE S == {g \in Generations : ~Referenced(<<b, g>>)}
    <2>1. S # {}
        BY <1>1, FreshGeneration
    <2>2. S \subseteq Nat /\ S \subseteq Generations
        BY SMT DEF Generations
    <2>3. lock_ptr(b) = <<b, First(S)>>
        BY <1>3 DEF lock_ptr
    <2> HIDE DEF S
    <2>4. First(S) \in S
        BY <2>1, <2>2, FirstIn
    <2>5. First(S) \in Generations
        BY <2>2, <2>4
    <2>6. lock_ptr(b)[1] = b /\ lock_ptr(b) \in LockObjects
        BY SMT, <2>3, <2>5 DEF LockObjects
    <2> QED BY <1>3, <2>3, <2>5, <2>6 DEF LockFacts
<1> QED BY <1>2, <1>3

LEMMA WroteIt ==
    ASSUME Inv, NEW b \in Blocks, NEW c \in Contents, Write(b, c) PROVE Wrote(disk, disk', b, c)
BY DEF Inv, TypeOK, Write, Wrote

\* Unlink takes the target and its blocks out of the tree, and the block that named it
\* when that has no other entry.
UnlinkWrites(t) ==
    LET l == loc[t]
        x == l.target
        gone == {x} \cup BlocksOf(disk[x]) \cup (IF CanDeleteDirentries(l) THEN {l.spot.block} ELSE {})
    IN  /\ \E b, c : /\ Wrote(disk, disk', b, c) /\ (b = l.node \/ b = l.spot.block)
        /\ Sound(disk') /\ ReachableInodes(disk') = ReachableInodes(disk) \ {x}
        /\ blocks_used(disk') = blocks_used(disk) \ gone

LEMMA UnlinkShape ==
    ASSUME Inv, NEW t \in Threads, Unlink(t) PROVE UnlinkWrites(t)
<1> DEFINE l == loc[t]
           n == l.node
           k == l.k
           s == l.spot.slot
           x == l.target
           y == l.spot.block
<1>1. pc[t] = "unlink" /\ Found(t) /\ ThreadOK(t) /\ Sound(disk)
    BY DEF Unlink, At, Found, Inv
<1>2. /\ n \in ReachableInodes(disk) /\ disk[n].type = "d" /\ l.inode = disk[n] /\ k \in 1 .. size(disk[n])
      /\ s \in 1 .. FS_DIRENTRIES /\ y = disk[n].blocks[k] /\ l.spot.dir = disk[y] /\ l.spot.dir \in direntries
      /\ x = EntryAt(disk, n, k, s).inode_block /\ x # 0 /\ x \in ReachableInodes(disk)
    BY <1>1, FoundFacts
<1>3. l.tinode = disk[x] /\ NoChildren(disk[x])
    BY <1>1 DEF ThreadOK, DeleteOK
<1>4. disk[n] \in fs_inode /\ n \in Blocks /\ y \in Blocks
    BY <1>1, <1>2, SoundFacts
<1>5. \A j \in 1 .. FS_DIRENTRIES : l.spot.dir.entries[j] = EntryAt(disk, n, k, j)
    BY <1>2 DEF EntryAt
<1>6. disk[x].type = "d" => size(disk[x]) = 0
    BY <1>3 DEF NoChildren
<1>7. CASE CanDeleteDirentries(l)
    <2>1. Write(n, Shorter(disk[n], k))
        BY <1>2, <1>7 DEF Unlink, Shorter, Without
    <2>2. \A j \in 1 .. FS_DIRENTRIES : EntryAt(disk, n, k, j).inode_block \in {0, x}
        BY <1>5, <1>7 DEF CanDeleteDirentries
    <2>3. UnlinkWrites(t) <=>
            /\ \E b, c : Wrote(disk, disk', b, c) /\ (b = n \/ b = y)
            /\ Sound(disk') /\ ReachableInodes(disk') = ReachableInodes(disk) \ {x}
            /\ blocks_used(disk') = blocks_used(disk) \ ({x} \cup BlocksOf(disk[x]) \cup {y})
        BY <1>7 DEF UnlinkWrites
    <2> HIDE DEF n, k, s, x, y
    <2>4. Wrote(disk, disk', n, Shorter(disk[n], k))
        BY <1>2, <1>4, <2>1, InodeShorter, WroteIt DEF Contents
    <2>5. /\ Sound(disk') /\ ReachableInodes(disk') = ReachableInodes(disk) \ {x}
          /\ blocks_used(disk') = blocks_used(disk) \ ({x, disk[n].blocks[k]} \cup BlocksOf(disk[x]))
        <3>1. /\ n \in ReachableInodes(disk) /\ disk[n].type = "d" /\ k \in 1 .. size(disk[n])
              /\ s \in 1 .. FS_DIRENTRIES /\ x = EntryAt(disk, n, k, s).inode_block /\ x # 0 /\ Sound(disk)
            BY <1>1, <1>2
        <3>2. Unlinks(disk, n, k, s, x)
            BY <1>6, <3>1 DEF Unlinks
        <3>3. Became(disk', ReachableInodes(disk) \ {x},
                     blocks_used(disk) \ ({x, disk[n].blocks[k]} \cup BlocksOf(disk[x])))
            BY <2>2, <2>4, <3>2, BlockUnlinked
        <3> QED BY <3>3 DEF Became
    <2>6. {x, disk[n].blocks[k]} \cup BlocksOf(disk[x]) = {x} \cup BlocksOf(disk[x]) \cup {y}
        BY <1>2
    <2> QED BY <2>3, <2>4, <2>5, <2>6
<1>8. CASE ~CanDeleteDirentries(l)
    <2> DEFINE c == Cleared(l.spot.dir, s)
    <2>1. Write(y, c)
        BY <1>8 DEF Unlink, Cleared
    <2>2. \E j \in 1 .. FS_DIRENTRIES : EntryAt(disk, n, k, j).inode_block \notin {0, x}
        BY <1>5, <1>8 DEF CanDeleteDirentries
    <2>3. UnlinkWrites(t) <=>
            /\ \E b, d : Wrote(disk, disk', b, d) /\ (b = n \/ b = y)
            /\ Sound(disk') /\ ReachableInodes(disk') = ReachableInodes(disk) \ {x}
            /\ blocks_used(disk') = blocks_used(disk) \ ({x} \cup BlocksOf(disk[x]) \cup {})
        BY <1>8 DEF UnlinkWrites
    <2>4. /\ c \in direntries /\ c.entries[s] = UnusedEntry
          /\ \A j \in 1 .. FS_DIRENTRIES : j # s => c.entries[j] = l.spot.dir.entries[j]
        BY <1>2, EntryCleared
    <2> HIDE DEF c
    <2>5. \A j \in 1 .. FS_DIRENTRIES : j # s => c.entries[j] = EntryAt(disk, n, k, j)
        BY <1>5, <2>4
    <2> HIDE DEF n, k, s, x, y
    <2>6. Wrote(disk, disk', disk[n].blocks[k], c)
        BY <1>2, <1>4, <2>1, <2>4, WroteIt DEF Contents
    <2>7. /\ Sound(disk') /\ ReachableInodes(disk') = ReachableInodes(disk) \ {x}
          /\ blocks_used(disk') = blocks_used(disk) \ ({x} \cup BlocksOf(disk[x]))
        <3>1. /\ n \in ReachableInodes(disk) /\ disk[n].type = "d" /\ k \in 1 .. size(disk[n])
              /\ s \in 1 .. FS_DIRENTRIES /\ x = EntryAt(disk, n, k, s).inode_block /\ x # 0 /\ Sound(disk)
              /\ c \in direntries /\ c.entries[s] = UnusedEntry
            BY <1>1, <1>2, <2>4
        <3>2. Unlinks(disk, n, k, s, x)
            BY <1>6, <3>1 DEF Unlinks
        <3>3. ClearsEntry(disk, n, k, s, x, c)
            BY <2>2, <2>5, <3>1 DEF ClearsEntry
        <3>4. Became(disk', ReachableInodes(disk) \ {x}, blocks_used(disk) \ ({x} \cup BlocksOf(disk[x])))
            BY <2>6, <3>2, <3>3, EntryUnlinked
        <3> QED BY <3>4 DEF Became
    <2>8. {x} \cup BlocksOf(disk[x]) = {x} \cup BlocksOf(disk[x]) \cup {}
        OBVIOUS
    <2> QED BY <1>2, <2>3, <2>6, <2>7, <2>8
<1> QED BY <1>7, <1>8


\* The target is a part of the tree of its own.
LEMMA UnlinkLeaves ==
    ASSUME Inv, NEW t \in Threads, Unlink(t)
    PROVE  /\ UnlinkedDisk(loc[t]) /\ loc[t].tinode = disk[loc[t].target] /\ loc[t].tinode \in fs_inode
           /\ NoChildren(loc[t].tinode) /\ loc[t].spot.block \in blocks_used(disk)
           /\ loc[t].target \in blocks_used(disk) /\ BlocksOf(loc[t].tinode) \subseteq blocks_used(disk)
<1> DEFINE l == loc[t]
           n == l.node
           k == l.k
           x == l.target
           y == l.spot.block
<1>1. pc[t] = "unlink" /\ Found(t) /\ ThreadOK(t) /\ Sound(disk) /\ UnlinkWrites(t)
    BY UnlinkShape DEF Unlink, At, Found, Inv
<1>2. /\ n \in ReachableInodes(disk) /\ disk[n].type = "d" /\ k \in 1 .. size(disk[n])
      /\ l.spot.slot \in 1 .. FS_DIRENTRIES /\ y = disk[n].blocks[k]
      /\ x = EntryAt(disk, n, k, l.spot.slot).inode_block /\ x # 0 /\ x \in ReachableInodes(disk)
    BY <1>1, FoundFacts
<1>3. l.tinode = disk[x] /\ NoChildren(disk[x])
    BY <1>1 DEF ThreadOK, DeleteOK
<1>4. x # n
    <2> DEFINE s == l.spot.slot
    <2>1. /\ n \in ReachableInodes(disk) /\ disk[n].type = "d" /\ k \in 1 .. size(disk[n])
          /\ s \in 1 .. FS_DIRENTRIES /\ x = EntryAt(disk, n, k, s).inode_block /\ x # 0
          /\ (disk[x].type = "d" => size(disk[x]) = 0) /\ Sound(disk)
        BY <1>1, <1>2, <1>3 DEF NoChildren
    <2> HIDE DEF s, x, n, k
    <2> QED BY <2>1, TargetFacts
<1>5. PICK b, c : Wrote(disk, disk', b, c) /\ (b = n \/ b = y)
    BY <1>1 DEF UnlinkWrites
<1>6. ReachableInodes(disk') = ReachableInodes(disk) \ {x}
    BY <1>1 DEF UnlinkWrites
<1> HIDE DEF n, k, x, y, l
<1>7. /\ x \in Blocks \ {0} /\ n \in Blocks /\ y \in Blocks /\ y # 0 /\ y \notin ReachableInodes(disk) /\ disk[x] \in fs_inode
      /\ disk[x].type \in {"f", "d"} /\ size(disk[x]) \in Nat
    BY <1>1, <1>2, SoundFacts
<1>8. \A i \in 1 .. size(disk[x]) :
        /\ disk[x].blocks[i] \in Blocks /\ disk[x].blocks[i] # x /\ disk[x].blocks[i] # n
        /\ disk[x].blocks[i] # y /\ disk[disk[x].blocks[i]] \in DataBlock
    <2> SUFFICES ASSUME NEW i \in 1 .. size(disk[x])
                 PROVE  /\ disk[x].blocks[i] \in Blocks /\ disk[x].blocks[i] # x /\ disk[x].blocks[i] # n
                        /\ disk[x].blocks[i] # y /\ disk[disk[x].blocks[i]] \in DataBlock
        OBVIOUS
    <2>1. disk[x].type = "f"
        BY SMT, <1>3, <1>7 DEF NoChildren
    <2>2. disk[x].blocks[i] # y
        BY <1>1, <1>2, <1>4, BlockOnce
    <2> QED BY <1>1, <1>2, <2>1, <2>2, SoundFacts
<1>9. \A i, j \in 1 .. size(disk[x]) : disk[x].blocks[i] = disk[x].blocks[j] => i = j
    <2>1. x \in ReachableInodes(disk) /\ Sound(disk)
        BY <1>1, <1>2
    <2> QED BY <2>1, BlockOnce
<1>10. \A a \in Blocks : a # n /\ a # y => disk'[a] = disk[a]
    BY <1>5 DEF Wrote
<1>11. /\ disk'[x] = disk[x] /\ y # x
       /\ \A i \in 1 .. size(disk[x]) : disk'[disk[x].blocks[i]] \in DataBlock
    BY <1>2, <1>4, <1>7, <1>8, <1>10
<1>12. n \in ReachableInodes(disk')
    BY <1>2, <1>4, <1>6
<1>13. disk' \in [Blocks -> Contents]
    BY <1>5 DEF Wrote
<1>14. UnlinkedDisk(l)
    BY <1>3, <1>7, <1>8, <1>9, <1>11, <1>12, <1>13 DEF UnlinkedDisk, n, x, y
<1>15. y \in blocks_used(disk) /\ x \in blocks_used(disk)
    BY <1>2, UsedIff
<1>16. BlocksOf(disk[x]) \subseteq blocks_used(disk)
    BY <1>2, UsedIff DEF BlocksOf
<1> QED BY <1>3, <1>7, <1>14, <1>15, <1>16 DEF l, x, y

-----------------------------------------------------------------------------
(* The server starts.                                                      *)

\* What fs_init makes of a disk: no thread is at work.
Started ==
    /\ Sound(disk) /\ free_disk_blocks = fs_init(disk) /\ data_locks = [b \in Blocks |-> None]
    /\ pc = [t \in Threads |-> "idle"] /\ req = [t \in Threads |-> None]
    /\ cur = [t \in Threads |-> None] /\ nxt = [t \in Threads |-> None]
    /\ hold = [t \in Threads |-> {}] /\ loc = [t \in Threads |-> FreshLoc]
    /\ resp = [t \in Threads |-> None] /\ issued \in 0 .. MaxRequests

LEMMA StartedInv == Started => Inv
<1> SUFFICES ASSUME Started PROVE Inv
    OBVIOUS
<1>1. /\ fs_init(disk) \in Seq(Blocks \ {0})
      /\ Lists(free_disk_blocks, (1 .. FS_DISKSIZE - 1) \ blocks_used(disk))
    BY FreeAtStart DEF Started
<1>2. TypeOK
    <2>1. FreshLoc \in LocType
        BY SMT, SizesAssumption DEF FreshLoc, LocType, Blocks
    <2>2. disk \in [Blocks -> Contents]
        BY DEF Started, Sound
    <2> QED BY <1>1, <2>1, <2>2 DEF Started, TypeOK, Labels
<1>3. LocksInv
    <2>1. DomainsOK /\ \A t \in Threads : pc[t] = "idle" /\ hold[t] = {}
        BY DEF Started, DomainsOK
    <2> QED BY <2>1 DEF LocksInv, Compatible, HoldsAt, Preparing, Erasing
<1>4. ASSUME NEW t \in Threads PROVE ThreadOK(t)
    <2>1. pc[t] = "idle" /\ loc[t] = FreshLoc /\ cur[t] = None /\ nxt[t] = None
        BY DEF Started
    <2>2. /\ ~Here(t) /\ ~Creates(t) /\ ~Writes(t) /\ ~Found(t) /\ ~Fetched(t)
          /\ pc[t] \notin Inside \cup Preparing \cup Changing \cup Unlinked \cup Walking
        BY <2>1 DEF Here, Creates, Writes, Found, Fetched, Inside, Preparing, Changing, Unlinked, Walking,
                    CreateLabels, WriteLabels
    <2>3. CallOK(t)
        BY <2>1 DEF CallOK, CreateLabels, DeleteLabels, WriteLabels, Unlinked
    <2>4. FrameOK(t) /\ PointersOK(t)
        <3>1. PointersOK(t)
            BY <2>1, <2>2 DEF PointersOK
        <3>2. FrameOK(t)
            BY SMT, <2>1, <2>2 DEF FrameOK, FreshLoc
        <3> QED BY <3>1, <3>2
    <2>5. InsideOK(t) /\ CreateOK(t) /\ WriteOK(t)
        BY <2>2 DEF InsideOK, CreateOK, WriteOK, Inside
    <2>6. WalkOK(t) /\ DeleteOK(t)
        BY <2>1, <2>2 DEF WalkOK, DeleteOK, Walking, Unlinked
    <2> QED BY <2>3, <2>4, <2>5, <2>6 DEF ThreadOK
<1>5. Accounted
    <2>1. \A t \in Threads : OwnBlocks(t) = {}
        <3>1. \A t \in Threads : pc[t] = "idle" /\ loc[t].new = <<>>
            BY DEF Started, FreshLoc
        <3> QED BY SMT, <3>1 DEF OwnBlocks, At, Range
    <2>2. /\ \A i, j \in 1 .. Len(free_disk_blocks) : free_disk_blocks[i] = free_disk_blocks[j] => i = j
          /\ FreeBlocksOf(free_disk_blocks) = (1 .. FS_DISKSIZE - 1) \ blocks_used(disk)
        <3>1. ASSUME NEW S, Lists(free_disk_blocks, S)
              PROVE  /\ \A i, j \in 1 .. Len(free_disk_blocks) : free_disk_blocks[i] = free_disk_blocks[j] => i = j
                     /\ FreeBlocksOf(free_disk_blocks) = S
            <4>1. \A i, j \in 1 .. Len(free_disk_blocks) : free_disk_blocks[i] = free_disk_blocks[j] => i = j
                BY <3>1 DEF Lists
            <4>2. ASSUME NEW x \in FreeBlocksOf(free_disk_blocks) PROVE x \in S
                <5>1. PICK i \in 1 .. Len(free_disk_blocks) : free_disk_blocks[i] = x
                    BY <4>2 DEF FreeBlocksOf
                <5>2. free_disk_blocks[i] \in S
                    BY <3>1 DEF Lists
                <5> QED BY <5>1, <5>2
            <4>3. \A x \in S : x \in FreeBlocksOf(free_disk_blocks)
                BY <3>1 DEF Lists, FreeBlocksOf
            <4> QED BY <4>1, <4>2, <4>3
        <3> QED BY <1>1, <3>1
    <2> QED BY <2>1, <2>2 DEF Accounted
<1> QED BY <1>2, <1>3, <1>4, <1>5 DEF Inv, Started

LEMMA InvInit == Init => Inv
<1>1. Init => Started
    <2>1. 0 \in 0 .. MaxRequests
        BY SMT, BoundAssumption
    <2> QED BY <2>1, ImagesAssumption DEF Init, Started
<1> QED BY <1>1, StartedInv

LEMMA InvCrash == Inv /\ Crash => Inv'
<1>1. Inv /\ Crash => Started'
    BY DEF Inv, TypeOK, Crash, Started
<1>2. Started' => Inv'
    BY StartedInv, PTL
<1> QED BY <1>1, <1>2

-----------------------------------------------------------------------------
(* What the invariant says.                                                *)

LEMMA InvCopies == Inv => CopiesCurrent
<1> SUFFICES ASSUME Inv, NEW t \in Threads
             PROVE  LET l == loc[t]
                    IN  /\ pc[t] \in UsesInode \ {"get_lock"} => l.inode = disk[l.node]
                        /\ pc[t] \in {"get_target", "lock_target", "read_target", "unlink"}
                             => disk[l.spot.block].entries = l.spot.dir.entries
                        /\ pc[t] \in {"write_inode", "upgrade", "commit"} /\ Op(t) = "FS_CREATE"
                             /\ l.spot # None
                             => \A j \in 1 .. FS_DIRENTRIES :
                                    IF j = l.spot.slot THEN disk[l.spot.block].entries[j].inode_block = 0
                                    ELSE disk[l.spot.block].entries[j] = l.spot.dir.entries[j]
                        /\ l.tinode # None => l.tinode = disk[l.target]
    BY DEF CopiesCurrent
<1> DEFINE l == loc[t]
<1>1. ThreadOK(t)
    BY DEF Inv
<1>2. pc[t] \in UsesInode \ {"get_lock"} => l.inode = disk[l.node]
    BY <1>1 DEF ThreadOK, InsideOK, UsesInode, Inside, Preparing, Changing
<1>3. pc[t] \in {"get_target", "lock_target", "read_target", "unlink"} => disk[l.spot.block].entries = l.spot.dir.entries
    BY <1>1 DEF ThreadOK, DeleteOK, Found
<1>4. ASSUME pc[t] \in {"write_inode", "upgrade", "commit"}, Op(t) = "FS_CREATE", l.spot # None
      PROVE  \A j \in 1 .. FS_DIRENTRIES :
                 IF j = l.spot.slot THEN disk[l.spot.block].entries[j].inode_block = 0
                 ELSE disk[l.spot.block].entries[j] = l.spot.dir.entries[j]
    <2>1. l.inode = disk[l.node]
        BY <1>2, <1>4 DEF UsesInode
    <2>2. PICK i \in 1 .. size(l.inode) : SpotFree(t, i)
        BY <1>1, <1>4 DEF ThreadOK, CreateOK, Creates, CreateLabels
    <2> QED BY <2>1, <2>2 DEF SpotFree, EntryAt
<1>5. l.tinode # None => l.tinode = disk[l.target]
    BY <1>1 DEF ThreadOK, FrameOK, DeleteOK
<1> QED BY <1>2, <1>3, <1>4, <1>5

LEMMA InvWriters == Inv => WritersAlone
BY OthersAway DEF WritersAlone, Changing

LEMMA InvErased == Inv => NoOneLeftOnErasedLock
<1> SUFFICES ASSUME Inv, NEW t \in Threads, NEW u \in Threads, t # u, pc[t] \in Erasing
             PROVE  /\ pc[u] \in {"lock", "upgrade", "lock_target"} => nxt[u] # nxt[t]
                    /\ \A h \in hold[u] : h[1] # nxt[t]
    BY DEF NoOneLeftOnErasedLock, Erasing
<1>1. nxt[t] \in LockObjects /\ nxt[t][1] \in OwnBlocks(t)
    BY FetchedFacts DEF Fetched, Erasing, Unlinked
<1>2. ASSUME pc[u] \in {"lock", "upgrade", "lock_target"} PROVE nxt[u] # nxt[t]
    <2>1. CASE Fetched(u)
        <3>1. nxt[u][1] \in ReachableInodes(disk)
            BY <1>2, <2>1, FetchedFacts DEF Unlinked
        <3> QED BY <1>1, <3>1, OwnFacts
    <2>2. CASE ~Fetched(u)
        <3>1. pc[u] = "upgrade" /\ Op(u) # "FS_DELETE"
            BY <1>2, <2>2 DEF Fetched
        <3>2. Creates(u) \/ Writes(u)
            BY <3>1 DEF Inv, ThreadOK, CallOK, Creates, Writes
        <3>3. nxt[u] = None
            BY <3>2 DEF Inv, ThreadOK, PointersOK
        <3> QED BY <1>1, <3>3, NoneAssumption
    <2> QED BY <2>1, <2>2
<1>3. ASSUME NEW h \in hold[u] PROVE h[1] # nxt[t]
    BY InvExcludes DEF Inv, LocksExclude
<1> QED BY <1>2, <1>3

LEMMA AtMostOne ==
    ASSUME NEW S, \A x, y \in S : x = y
    PROVE  Cardinality(S) = IF S = {} THEN 0 ELSE 1
<1>1. CASE S = {}
    BY <1>1, FS_EmptySet
<1>2. ASSUME NEW x \in S PROVE Cardinality(S) = 1
    <2>1. S = {x}
        BY <1>2
    <2> QED BY <2>1, FS_Singleton
<1> QED BY <1>1, <1>2

LEMMA InvBlocks == Inv => BlocksAccounted
<1> SUFFICES ASSUME Inv, NEW b \in 1 .. FS_DISKSIZE - 1
             PROVE  (IF b \in blocks_used(disk) THEN 1 ELSE 0)
                    + Cardinality({i \in 1 .. Len(free_disk_blocks) : free_disk_blocks[i] = b})
                    + Cardinality({t \in Threads : b \in OwnBlocks(t)}) = 1
    BY DEF BlocksAccounted
<1> DEFINE F == {i \in 1 .. Len(free_disk_blocks) : free_disk_blocks[i] = b}
           O == {t \in Threads : b \in OwnBlocks(t)}
<1>1. Accounted
    BY DEF Inv
<1>2. (\A i, j \in F : i = j) /\ (F # {} <=> b \in FreeBlocksOf(free_disk_blocks))
    BY <1>1 DEF Accounted, FreeBlocksOf
<1>3. \A t, u \in O : t = u
    BY <1>1 DEF Accounted
<1>4. b \in blocks_used(disk) \/ F # {} \/ O # {}
    BY <1>1, <1>2 DEF Accounted
<1>5. /\ ~(b \in blocks_used(disk) /\ F # {}) /\ ~(b \in blocks_used(disk) /\ O # {}) /\ ~(F # {} /\ O # {})
    BY <1>1, <1>2 DEF Accounted
<1> HIDE DEF F, O
<1>6. Cardinality(F) = (IF F = {} THEN 0 ELSE 1) /\ Cardinality(O) = (IF O = {} THEN 0 ELSE 1)
    BY <1>2, <1>3, AtMostOne
<1>7. (IF b \in blocks_used(disk) THEN 1 ELSE 0) + Cardinality(F) + Cardinality(O) = 1
    BY SMT, <1>4, <1>5, <1>6
<1> QED BY <1>7 DEF F, O
=============================================================================
