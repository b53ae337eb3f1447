-------------------------- MODULE FileSystem_proofs --------------------------
(***************************************************************************)
(* The file server is safe: whatever requests its threads execute at once,  *)
(* and wherever it crashes, the disk spells out a tree, every block is in   *)
(* one place, and what a thread has read stays true until it is done.       *)
(***************************************************************************)
EXTENDS FileSystemFrame_proofs, FileSystemThread_proofs

\* The prover of a leaf that names none.
USE ZenonT(30)

LEMMA InvFacts == ASSUME Inv PROVE Facts
<1>1. \A S : S \subseteq 1 .. FS_DIRENTRIES /\ S # {} => First(S) \in S
    <2>1. 1 .. FS_DIRENTRIES \subseteq Nat
        BY SMT
    <2> QED BY <2>1, FirstIn
<1> QED BY <1>1, AliveInodes, Places, LockPointers DEF Facts

-----------------------------------------------------------------------------
(* Steps that write to the disk, or take a lock away.                      *)

LEMMA OwnWriteStep ==
    ASSUME Inv, NEW t \in Threads, Keeps(t), OwnWrite(t) PROVE Inv'
<1>1. PICK b \in OwnBlocks(t), c \in Contents : Write(b, c)
    BY DEF OwnWrite
<1>2. Wrote(disk, disk', b, c)
    BY <1>1, OwnFacts, WroteIt
<1>3. /\ \A u \in Threads \ {t} : DiskKept(u)
      /\ Sound(disk') /\ ReachableInodes(disk') = ReachableInodes(disk) /\ blocks_used(disk') = blocks_used(disk)
    BY <1>2, OwnWriteKept DEF OwnWrite
<1>4. /\ TypeOK' /\ ThreadOK(t)' /\ free_disk_blocks' = free_disk_blocks /\ OwnBlocks(t)' = OwnBlocks(t)
      /\ PointersKept(t, data_locks') /\ Alone(t) /\ pc[t] \notin {"free_direntries", "upgrade_target"}
    BY <1>3 DEF OwnWrite, PointersKept, Keeps, Unlinked
<1>5. Accounted'
    BY <1>3, <1>4, BlocksStay
<1>6. \A u \in Threads \ {t} : InodeKept(u) /\ LocksKept(u)
    BY <1>3, <1>4, InodesKept, PointersLocks
<1> QED BY <1>3, <1>4, <1>5, <1>6, Preserved

\* The step that makes a change visible, when it leaves a tree.
LEMMA CommitStep ==
    ASSUME Inv, NEW t \in Threads, Keeps(t), Commit(t), NEW b, NEW c, Wrote(disk, disk', b, c),
           b = loc[t].node \/ \E i \in 1 .. size(disk[loc[t].node]) : b = disk[loc[t].node].blocks[i],
           Sound(disk'), ReachableInodes(disk) \subseteq ReachableInodes(disk'),
           blocks_used(disk') = blocks_used(disk) \cup OwnBlocks(t)
    PROVE  Inv'
<1>1. pc[t] = "commit" /\ pc[t] \in Changing /\ Alone(t)
    BY DEF Commit, At, Changing, Keeps
<1>2. \A u \in Threads \ {t} : DiskKept(u)
    BY <1>1, ChangeKept
<1>3. disk' \in [Blocks -> Contents]
    BY DEF Wrote
<1>4. /\ TypeOK' /\ ThreadOK(t)' /\ PointersKept(t, data_locks') /\ free_disk_blocks' = free_disk_blocks
      /\ OwnBlocks(t)' = {}
    BY <1>1, <1>3, CommitReturns
<1>5. \A u \in Threads \ {t} : InodeKept(u) /\ LocksKept(u)
    BY <1>1, <1>4, InodesKept, PointersLocks
<1>6. Accounted'
    <2>1. Lists(free_disk_blocks', FreeBlocksOf(free_disk_blocks'))
        BY <1>4, FreeLists
    <2>2. /\ blocks_used(disk) \cap FreeBlocksOf(free_disk_blocks) = {}
          /\ OwnBlocks(t) \cap FreeBlocksOf(free_disk_blocks) = {} /\ Accounted
        BY DEF Inv, Accounted
    <2> QED BY <1>1, <1>4, <2>1, <2>2, BlocksMove
<1> QED BY <1>2, <1>4, <1>5, <1>6, Preserved

LEMMA UpgradeTargetStep ==
    ASSUME Inv, NEW t \in Threads, Keeps(t), UpgradeTarget(t) PROVE Inv'
<1>1. /\ TypeOK' /\ ThreadOK(t)' /\ disk' = disk /\ data_locks' = data_locks /\ Alone(t)
      /\ free_disk_blocks' = free_disk_blocks /\ OwnBlocks(t)' = OwnBlocks(t) /\ Sound(disk)'
    BY UpgradeTargetOK DEF Keeps, Inv
<1>2. Accounted' /\ \A u \in Threads \ {t} : DiskKept(u) /\ LocksKept(u)
    <2>1. PointersKept(t, data_locks')
        BY <1>1 DEF PointersKept
    <2>2. \A u \in Threads \ {t} : DiskKept(u)
        BY <1>1 DEF DiskKept
    <2> QED BY <1>1, <2>1, <2>2, BlocksStay, PointersLocks
<1>3. /\ pc[t] = "upgrade_target" /\ HoldersOf(nxt[t], Modes) \subseteq {t}
      /\ hold[t] = {<<nxt[t], "upgrade">>} /\ nxt[t][1] = loc[t].target
    <2>1. pc[t] = "upgrade_target" /\ HoldersOf(nxt[t], Modes) \subseteq {t}
        BY DEF UpgradeTarget, At, CanUpgrade
    <2> QED BY <2>1, FetchedFacts DEF Inv, LocksInv, HoldsAt, Fetched, Unlinked
\* Nobody else holds the target's lock any more.
<1>4. ASSUME NEW u \in Threads \ {t}, Here(u) PROVE cur[u][1] # loc[t].target
    <2> SUFFICES ASSUME cur[u][1] = loc[t].target PROVE FALSE
        OBVIOUS
    <2>1. PICK m \in Modes : <<cur[u], m>> \in hold[u]
        BY <1>4, HereFacts
    <2> DEFINE g == <<nxt[t], "upgrade">>
               h == <<cur[u], m>>
    <2>2. /\ g \in hold[t] /\ h \in hold[u] /\ g[1] = nxt[t] /\ h[1] = cur[u] /\ g[1][1] = h[1][1]
          /\ pc[t] # "free_blocks"
        BY <1>3, <2>1
    <2>3. pc[u] # "free_blocks"
        BY <1>4 DEF Here, Inside, Preparing, Changing
    <2> HIDE DEF g, h
    <2>4. cur[u] = nxt[t]
        BY <2>2, <2>3, SameLock
    <2>5. u \in HoldersOf(nxt[t], Modes)
        BY <2>1, <2>4 DEF HoldersOf
    <2> QED BY <1>3, <2>5
<1>5. \A u \in Threads \ {t} : InodeKept(u)
    BY <1>1, <1>4, InodesKept
<1> QED BY <1>1, <1>2, <1>5, Preserved

LEMMA EraseLockStep ==
    ASSUME Inv, NEW t \in Threads, Keeps(t), EraseLock(t) PROVE Inv'
<1>1. /\ TypeOK' /\ ThreadOK(t)' /\ disk' = disk /\ Alone(t)
      /\ \A b \in Blocks \ {loc[t].target} : data_locks'[b] = data_locks[b]
      /\ free_disk_blocks' = free_disk_blocks /\ OwnBlocks(t)' = OwnBlocks(t) /\ Sound(disk)'
    BY EraseLockOK DEF Keeps, Inv
<1>2. Accounted' /\ \A u \in Threads \ {t} : DiskKept(u)
    <2>1. \A u \in Threads \ {t} : DiskKept(u)
        BY <1>1 DEF DiskKept
    <2> QED BY <1>1, <2>1, BlocksStay
<1>3. /\ pc[t] = "erase_lock" /\ pc[t] \in Unlinked /\ hold[t] = {<<nxt[t], "unique">>}
      /\ nxt[t][1] = loc[t].target /\ loc[t].target \in OwnBlocks(t) /\ loc[t].target \notin ReachableInodes(disk)
    <2>1. pc[t] = "erase_lock" /\ pc[t] \in Unlinked
        BY DEF EraseLock, At, Unlinked
    <2>2. hold[t] = {<<nxt[t], "unique">>}
        BY <2>1 DEF Inv, LocksInv, HoldsAt, Erasing
    <2> QED BY <2>1, <2>2, FetchedFacts, OwnFacts DEF Fetched
<1>4. \A u \in Threads \ {t} : InodeKept(u)
    BY <1>1, <1>3, InodesKept
\* Nobody else holds the lock that goes, or is about to ask for it.
<1>5. ASSUME NEW u \in Threads \ {t}, Here(u)
      PROVE  cur[u][1] # loc[t].target /\ cur[u][1] \in Blocks
    <2>1. cur[u] \in LockObjects
        BY <1>5, HereFacts
    <2>2. cur[u][1] \in Blocks
        BY <2>1 DEF LockObjects
    <2>3. ASSUME cur[u][1] = loc[t].target PROVE FALSE
        <3>1. PICK m \in Modes : <<cur[u], m>> \in hold[u]
            BY <1>5, HereFacts
        <3> DEFINE g == <<nxt[t], "unique">>
                   h == <<cur[u], m>>
        <3>2. /\ g \in hold[t] /\ h \in hold[u] /\ g[1] = nxt[t] /\ h[1] = cur[u] /\ g[1][1] = h[1][1]
              /\ pc[t] # "free_blocks" /\ g[2] = "unique"
            BY <1>3, <2>3, <3>1
        <3>3. pc[u] # "free_blocks"
            BY <1>5 DEF Here, Inside, Preparing, Changing
        <3> HIDE DEF g, h
        <3>4. g[1] = h[1]
            BY <3>2, <3>3, SameLock
        <3> QED BY <3>2, <3>4 DEF Inv, LocksInv, Compatible
    <2> QED BY <2>2, <2>3
<1>6. ASSUME NEW u \in Threads \ {t}, Fetched(u), pc[u] # "free_blocks"
      PROVE  nxt[u][1] # loc[t].target /\ nxt[u][1] \in Blocks
    <2>1. /\ nxt[u] \in LockObjects
          /\ nxt[u][1] \in OwnBlocks(u) \/ nxt[u][1] \in ReachableInodes(disk)
        BY <1>6, FetchedFacts
    <2> QED BY <1>3, <2>1, OwnFacts DEF LockObjects
<1>7. \A u \in Threads \ {t} : LocksKept(u)
    BY <1>1, <1>5, <1>6 DEF LocksKept
<1> QED BY <1>1, <1>2, <1>4, <1>7, Preserved

LEMMA CommitInv ==
    ASSUME Inv, NEW t \in Threads, Keeps(t), Commit(t) PROVE Inv'
<1> DEFINE l == loc[t]
           n == l.node
           x == l.new[1]
           name == Filename(req[t])
<1>1. Sound(disk) /\ disk \in [Blocks -> Contents] /\ \A b \in OwnBlocks(t) : b \in Blocks /\ b \notin blocks_used(disk)
    BY OwnFacts DEF Inv, TypeOK
<1>2. CASE Op(t) = "FS_CREATE"
    <2>1. /\ n \in ReachableInodes(disk) /\ disk[n].type = "d" /\ NotIn(disk, n, name)
          /\ x \in OwnBlocks(t) /\ x \in Blocks \ {0} /\ disk[x] \in fs_inode /\ size(disk[x]) = 0
        BY <1>2, CommitCreates
    <2>2. \/ /\ OwnBlocks(t) = {x} /\ Write(l.spot.block, l.spot.dir)
             /\ l.spot.dir.entries[l.spot.slot] = Entry(name, x)
             /\ \E i \in 1 .. size(disk[n]) : SpotFree(t, i)
             /\ l.inode = disk[n]
          \/ /\ OwnBlocks(t) = {x, l.new[2]} /\ l.new[2] \in Blocks \ {0}
             /\ size(disk[n]) < FS_MAXFILEBLOCKS /\ NewEntries(disk[l.new[2]], name, x)
             /\ Write(n, Longer(disk[n], l.new[2]))
        BY <1>2, CommitCreates DEF Longer
    <2>3. disk[n] \in fs_inode /\ n \in Blocks /\ \A i \in 1 .. size(disk[n]) : disk[n].blocks[i] \in Blocks
        BY <1>1, <2>1, SoundFacts
    <2>4. CASE /\ OwnBlocks(t) = {x} /\ Write(l.spot.block, l.spot.dir)
               /\ l.spot.dir.entries[l.spot.slot] = Entry(name, x)
               /\ \E i \in 1 .. size(disk[n]) : SpotFree(t, i)
               /\ l.inode = disk[n]
        <3>1. PICK i \in 1 .. size(disk[n]) : SpotFree(t, i)
            BY <2>4
        <3>2. /\ l.spot \in SpotType /\ l.spot.block = disk[n].blocks[i]
              /\ EntryAt(disk, n, i, l.spot.slot).inode_block = 0
              /\ \A j \in 1 .. FS_DIRENTRIES : j # l.spot.slot => l.spot.dir.entries[j] = EntryAt(disk, n, i, j)
            BY <2>4, <3>1 DEF SpotFree
        <3>3. l.spot.slot \in 1 .. FS_DIRENTRIES /\ l.spot.dir \in direntries /\ l.spot.dir \in Contents
            BY <3>2 DEF SpotType, Contents
        <3> DEFINE b == l.spot.block
                   c == l.spot.dir
                   s == l.spot.slot
        <3>4. Wrote(disk, disk', b, c) /\ b = disk[n].blocks[i]
            BY <2>3, <2>4, <3>2, <3>3, WroteIt
        <3>5. /\ s \in 1 .. FS_DIRENTRIES /\ c \in direntries /\ c.entries[s] = Entry(name, x)
              /\ EntryAt(disk, n, i, s).inode_block = 0
              /\ \A j \in 1 .. FS_DIRENTRIES : j # s => c.entries[j] = EntryAt(disk, n, i, j)
            BY <2>4, <3>2, <3>3
        <3> HIDE DEF b, c, s, x, n, name
        <3>6. x \notin blocks_used(disk)
            BY <1>1, <2>1
        <3>7. /\ Sound(disk') /\ ReachableInodes(disk') = ReachableInodes(disk) \cup {x}
              /\ blocks_used(disk') = blocks_used(disk) \cup {x}
            <4>1. /\ Sound(disk) /\ n \in ReachableInodes(disk) /\ disk[n].type = "d" /\ i \in 1 .. size(disk[n])
                  /\ NotIn(disk, n, name) /\ x \in Blocks \ {0} /\ disk[x] \in fs_inode /\ size(disk[x]) = 0
                  /\ Wrote(disk, disk', disk[n].blocks[i], c)
                BY <1>1, <2>1, <3>4
            <4>2. LinksEntry(disk, n, i, s, name, x, c, disk')
                BY <3>5, <3>6, <4>1 DEF LinksEntry
            <4>3. Became(disk', ReachableInodes(disk) \cup {x}, blocks_used(disk) \cup {x})
                BY <4>2, EntryLinked
            <4> QED BY <4>3 DEF Became
        <3>8. b = loc[t].node \/ \E j \in 1 .. size(disk[loc[t].node]) : b = disk[loc[t].node].blocks[j]
            BY <3>4 DEF n
        <3> QED BY <2>4, <3>4, <3>7, <3>8, CommitStep
    <2>5. CASE /\ OwnBlocks(t) = {x, l.new[2]} /\ l.new[2] \in Blocks \ {0}
               /\ size(disk[n]) < FS_MAXFILEBLOCKS /\ NewEntries(disk[l.new[2]], name, x)
               /\ Write(n, Longer(disk[n], l.new[2]))
        <3> DEFINE y == l.new[2]
        <3>1. /\ OwnBlocks(t) = {x, y} /\ y \in Blocks \ {0} /\ size(disk[n]) < FS_MAXFILEBLOCKS
              /\ Write(n, Longer(disk[n], y)) /\ n = loc[t].node
              /\ disk[y] \in direntries /\ disk[y].entries[1] = Entry(name, x)
              /\ \A j \in 1 .. FS_DIRENTRIES : j # 1 => disk[y].entries[j] = UnusedEntry
            BY <2>5 DEF NewEntries
        <3> HIDE DEF x, y, n, name
        <3>2. Longer(disk[n], y) \in Contents
            <4>1. Grown(disk[n], y, Longer(disk[n], y))
                BY <2>3, <3>1, InodeGrown DEF Longer
            <4> QED BY <4>1 DEF Grown, Contents
        <3>3. Wrote(disk, disk', n, Longer(disk[n], y))
            BY <2>3, <3>1, <3>2, WroteIt
        <3>4. x \notin blocks_used(disk) /\ y \notin blocks_used(disk)
            BY <1>1, <3>1
        <3>5. /\ Sound(disk') /\ ReachableInodes(disk') = ReachableInodes(disk) \cup {x}
              /\ blocks_used(disk') = blocks_used(disk) \cup {x, y}
            <4>1. /\ Sound(disk) /\ n \in ReachableInodes(disk) /\ disk[n].type = "d"
                  /\ NotIn(disk, n, name) /\ x \in Blocks \ {0} /\ disk[x] \in fs_inode /\ size(disk[x]) = 0
                BY <1>1, <2>1
            <4>2. LinksBlock(disk, n, name, x, y, disk')
                BY <3>1, <3>3, <3>4, <4>1 DEF LinksBlock
            <4>3. Became(disk', ReachableInodes(disk) \cup {x}, blocks_used(disk) \cup {x, y})
                BY <4>2, BlockLinked
            <4> QED BY <4>3 DEF Became
        <3> QED BY <3>1, <3>3, <3>5, CommitStep
    <2> QED BY <2>2, <2>4, <2>5
<1>3. CASE Op(t) # "FS_CREATE"
    <2> DEFINE k == req[t].block + 1
               c == [kind |-> "data", value |-> req[t].data]
    <2>1. /\ n \in ReachableInodes(disk) /\ disk[n].type = "f"
          /\ \/ /\ OwnBlocks(t) = {} /\ k \in 1 .. size(disk[n]) /\ c \in DataBlock
                /\ Write(disk[n].blocks[k], c)
             \/ /\ OwnBlocks(t) = {x} /\ x \in Blocks \ {0} /\ size(disk[n]) < FS_MAXFILEBLOCKS
                /\ disk[x] \in DataBlock /\ Write(n, Longer(disk[n], x))
        BY <1>3, InvFacts, CommitWrites DEF Longer
    <2>2. disk[n] \in fs_inode /\ n \in Blocks /\ \A i \in 1 .. size(disk[n]) : disk[n].blocks[i] \in Blocks
        BY <1>1, <2>1, SoundFacts
    <2>3. n = loc[t].node
        OBVIOUS
    <2> HIDE DEF k, c, x, n
    <2>4. CASE OwnBlocks(t) = {} /\ k \in 1 .. size(disk[n]) /\ c \in DataBlock /\ Write(disk[n].blocks[k], c)
        <3> DEFINE b == disk[n].blocks[k]
        <3>1. Wrote(disk, disk', b, c) /\ b = disk[n].blocks[k]
            BY <2>2, <2>4, WroteIt DEF Contents
        <3>2. /\ Sound(disk') /\ ReachableInodes(disk') = ReachableInodes(disk)
              /\ blocks_used(disk') = blocks_used(disk)
            <4>1. /\ Sound(disk) /\ n \in ReachableInodes(disk) /\ disk[n].type = "f"
                  /\ Wrote(disk, disk', disk[n].blocks[k], c)
                BY <1>1, <2>1, <3>1
            <4>2. Overwrites(disk, n, k, c, disk')
                BY <2>4, <4>1 DEF Overwrites
            <4>3. Became(disk', ReachableInodes(disk), blocks_used(disk))
                BY <4>2, Overwritten
            <4> QED BY <4>3 DEF Became
        <3> HIDE DEF b
        <3>3. b = loc[t].node \/ \E j \in 1 .. size(disk[loc[t].node]) : b = disk[loc[t].node].blocks[j]
            BY <2>3, <2>4, <3>1
        <3>4. blocks_used(disk') = blocks_used(disk) \cup OwnBlocks(t)
            BY <2>4, <3>2
        <3> QED BY <3>1, <3>2, <3>3, <3>4, CommitStep
    <2>5. CASE /\ OwnBlocks(t) = {x} /\ x \in Blocks \ {0} /\ size(disk[n]) < FS_MAXFILEBLOCKS
               /\ disk[x] \in DataBlock /\ Write(n, Longer(disk[n], x))
        <3>1. Longer(disk[n], x) \in Contents
            <4>1. Grown(disk[n], x, Longer(disk[n], x))
                BY <2>2, <2>5, InodeGrown DEF Longer
            <4> QED BY <4>1 DEF Grown, Contents
        <3>2. Wrote(disk, disk', n, Longer(disk[n], x)) /\ x \notin blocks_used(disk)
            BY <1>1, <2>2, <2>5, <3>1, WroteIt
        <3>3. /\ Sound(disk') /\ ReachableInodes(disk') = ReachableInodes(disk)
              /\ blocks_used(disk') = blocks_used(disk) \cup {x}
            BY <1>1, <2>1, <2>5, <3>2, ExtendFile
        <3> QED BY <2>3, <2>5, <3>2, <3>3, CommitStep
    <2> QED BY <2>1, <2>4, <2>5
<1> QED BY <1>2, <1>3


LEMMA EmptyRange == Range(<<>>) = {}
BY SMT DEF Range

LEMMA UnlinkStep ==
    ASSUME Inv, NEW t \in Threads, Keeps(t), Unlink(t) PROVE Inv'
<1> DEFINE l == loc[t]
           x == l.target
           y == l.spot.block
           more == IF CanDeleteDirentries(l) THEN {y} ELSE {}
           gone == {x} \cup BlocksOf(disk[x]) \cup more
<1>1. pc[t] = "unlink" /\ Found(t) /\ pc[t] \in Changing /\ Alone(t)
      /\ pc' = [pc EXCEPT ![t] = IF CanDeleteDirentries(l) THEN "free_direntries" ELSE "upgrade_target"]
    BY DEF Unlink, At, Found, Changing, Goto, Keeps
<1>2. /\ UnlinkedDisk(l) /\ l.tinode = disk[x] /\ l.tinode \in fs_inode
      /\ NoChildren(l.tinode) /\ y \in blocks_used(disk)
      /\ x \in blocks_used(disk) /\ BlocksOf(l.tinode) \subseteq blocks_used(disk)
    BY UnlinkLeaves
<1>3. /\ Sound(disk') /\ ReachableInodes(disk') = ReachableInodes(disk) \ {x}
      /\ blocks_used(disk') = blocks_used(disk) \ gone
    BY UnlinkShape DEF UnlinkWrites
<1>4. /\ TypeOK' /\ ThreadOK(t)' /\ data_locks' = data_locks /\ free_disk_blocks' = free_disk_blocks
      /\ pc'[t] \in {"free_direntries", "upgrade_target"} /\ loc'[t] = loc[t] /\ OwnBlocks(t) = {}
    BY <1>1, <1>2, UnlinkOK
<1>5. \A u \in Threads \ {t} : DiskKept(u)
    <2>1. PICK b, c : Wrote(disk, disk', b, c) /\ (b = l.node \/ b = y)
        BY UnlinkShape DEF UnlinkWrites
    <2>2. l.k \in 1 .. size(disk[l.node]) /\ y = disk[l.node].blocks[l.k]
        BY <1>1, FoundFacts
    <2>3. b = loc[t].node \/ \E i \in 1 .. size(disk[loc[t].node]) : b = disk[loc[t].node].blocks[i]
        BY <2>1, <2>2
    <2> QED BY <1>1, <2>1, <2>3, ChangeKept
<1>6. \A u \in Threads \ {t} : LocksKept(u)
    <2>1. PointersKept(t, data_locks')
        BY <1>4 DEF PointersKept
    <2> QED BY <2>1, PointersLocks
<1>7. ASSUME NEW u \in Threads \ {t} PROVE InodeKept(u)
    <2>1. ASSUME Here(u) PROVE Alive(cur[u][1])'
        <3>1. Alive(cur[u][1]) /\ cur'[u] = cur[u]
            BY <1>1, <2>1, HereFacts DEF Alone
        <3>2. CASE cur[u][1] \in ReachableInodes(disk) /\ cur[u][1] # x
            BY <1>3, <3>1, <3>2 DEF Alive
        <3>3. CASE cur[u][1] = x
            <4>1. pc'[t] \in {"free_direntries", "upgrade_target"} /\ loc'[t].target = cur'[u][1]
                BY <1>4, <3>1, <3>3
            <4> QED BY <4>1 DEF Alive, Doomed
        <3>4. CASE Doomed(cur[u][1])
            <4>1. PICK v \in Threads : pc[v] \in {"free_direntries", "upgrade_target"} /\ loc[v].target = cur[u][1]
                BY <3>4 DEF Doomed
            <4>2. v # t
                BY <1>1, <4>1
            <4>3. pc'[v] \in {"free_direntries", "upgrade_target"} /\ loc'[v].target = cur'[u][1]
                BY <1>1, <3>1, <4>1, <4>2 DEF Alone
            <4> QED BY <4>3 DEF Alive, Doomed
        <3> QED BY <3>1, <3>2, <3>3, <3>4 DEF Alive
    \* t keeps the upgrade lock of its target: nobody prepares to change it.
    <2>2. ASSUME pc[u] \in Preparing \cup Changing PROVE cur[u][1] \in ReachableInodes(disk')
        <3>1. cur[u][1] \in ReachableInodes(disk) /\ pc[u] # "free_blocks"
            BY <2>2 DEF Inv, ThreadOK, InsideOK, Inside, Preparing, Changing
        <3>2. PICK m \in {"upgrade", "unique"} : <<cur[u], m>> \in hold[u]
            BY <2>2 DEF Inv, LocksInv, HoldsAt, Changing
        <3>3. <<nxt[t], "upgrade">> \in hold[t] /\ nxt[t][1] = x
            <4>1. ThreadOK(t) /\ LocksInv /\ pc[t] = "unlink"
                BY <1>1 DEF Inv
            <4>2. <<nxt[t], "upgrade">> \in hold[t]
                BY <4>1 DEF LocksInv, HoldsAt
            <4>3. nxt[t][1] = x
                BY <4>1 DEF ThreadOK, DeleteOK, Fetched
            <4> QED BY <4>2, <4>3
        <3> DEFINE g == <<nxt[t], "upgrade">>
                   h == <<cur[u], m>>
        <3>4. ASSUME cur[u][1] = x PROVE FALSE
            <4>1. /\ g \in hold[t] /\ h \in hold[u] /\ g[1][1] = h[1][1] /\ pc[t] # "free_blocks"
                  /\ g[2] = "upgrade" /\ h[2] # "shared"
                BY <1>1, <3>2, <3>3, <3>4
            <4> HIDE DEF g, h
            <4>2. g[1] = h[1]
                BY <3>1, <4>1, SameLock
            <4> QED BY <4>1, <4>2 DEF Inv, LocksInv, Compatible
        <3> QED BY <1>3, <3>1, <3>4
    <2> QED BY <2>1, <2>2 DEF InodeKept
<1>8. Accounted'
    <2>1. pc'[t] = (IF CanDeleteDirentries(l) THEN "free_direntries" ELSE "upgrade_target") /\ l.new = <<>>
        <3>1. l.new = <<>>
            BY <1>1 DEF Inv, ThreadOK, FrameOK, Creates, Writes, CreateLabels, WriteLabels
        <3> QED BY <1>1, <3>1 DEF Inv, TypeOK
    <2>2. Range(l.new) = {}
        BY <2>1, EmptyRange
    <2>3. OwnBlocks(t)' = Range(FreedBlocks(l)) \cup more
        BY <1>4, <2>1, <2>2 DEF OwnBlocks, At
    <2>4. Range(FreedBlocks(l)) = {x} \cup BlocksOf(disk[x])
        BY <1>2, FreedIff DEF UnlinkedDisk
    <2>5. OwnBlocks(t)' = gone /\ gone \subseteq blocks_used(disk)
        BY <1>2, <2>3, <2>4
    <2>6. Lists(free_disk_blocks', FreeBlocksOf(free_disk_blocks'))
        BY <1>4, FreeLists
    <2>7. blocks_used(disk) \cap FreeBlocksOf(free_disk_blocks) = {} /\ Accounted
        BY DEF Inv, Accounted
    <2> HIDE DEF gone
    <2> QED BY <1>1, <1>3, <1>4, <2>5, <2>6, <2>7, BlocksMove
<1> QED BY <1>3, <1>4, <1>5, <1>6, <1>7, <1>8, Preserved


-----------------------------------------------------------------------------
LEMMA SameAccounted ==
    ASSUME Accounted, disk' = disk, free_disk_blocks' = free_disk_blocks,
           \A t \in Threads : OwnBlocks(t)' = OwnBlocks(t)
    PROVE  Accounted'
<1>1. /\ blocks_used(disk') = blocks_used(disk)
      /\ FreeBlocksOf(free_disk_blocks') = FreeBlocksOf(free_disk_blocks)
    OBVIOUS
<1>2. \A b : (\E t \in Threads : b \in OwnBlocks(t)') <=> (\E t \in Threads : b \in OwnBlocks(t))
    OBVIOUS
<1> QED BY <1>1, <1>2 DEF Accounted

LEMMA InvNext == Inv /\ [Next \/ Crash]_vars => Inv'
<1> SUFFICES ASSUME Inv, [Next \/ Crash]_vars PROVE Inv'
    OBVIOUS
<1>1. ASSUME NEW t \in Threads, Step(t) PROVE Inv'
    <2>1. Keeps(t) /\ Alone(t) /\ Facts
        BY <1>1, StepKeeps, InvFacts DEF Inv, Keeps
    <2>2. Quiet(t) \/ OwnWrite(t) \/ Commit(t) \/ Unlink(t) \/ UpgradeTarget(t) \/ EraseLock(t)
        BY <1>1, <2>1, Steps
    <2> QED BY <2>1, <2>2, QuietStep, OwnWriteStep, CommitInv, UnlinkStep, UpgradeTargetStep, EraseLockStep
<1>2. ASSUME NEW t \in Threads, NEW r \in Requests, Receive(t, r) PROVE Inv'
    <2>1. Keeps(t) /\ Alone(t)
        BY <1>2, ReceiveKeeps DEF Inv, Keeps
    <2> QED BY <1>2, <2>1, ReceiveQuiet, QuietStep
<1>3. CASE UNCHANGED vars
    <2>1. /\ disk' = disk /\ free_disk_blocks' = free_disk_blocks /\ data_locks' = data_locks /\ pc' = pc
          /\ req' = req /\ cur' = cur /\ nxt' = nxt /\ hold' = hold /\ loc' = loc /\ resp' = resp
          /\ issued' = issued
        BY <1>3 DEF vars
    <2>2. TypeOK' /\ LocksInv' /\ Sound(disk)'
        BY <2>1, LocksStep DEF Inv, TypeOK
    <2>3. Accounted'
        <3>1. \A t \in Threads : OwnBlocks(t)' = OwnBlocks(t)
            BY <2>1 DEF OwnBlocks, At
        <3> QED BY <2>1, <3>1, SameAccounted DEF Inv
    <2>4. ASSUME NEW u \in Threads PROVE Undisturbed(u)
        <3>1. OwnKept(u) /\ DiskKept(u) /\ LocksKept(u)
            BY <2>1 DEF OwnKept, DiskKept, LocksKept
        <3>2. \A b : Alive(b)' = Alive(b)
            BY <2>1 DEF Alive, Doomed
        <3>3. Here(u) => Alive(cur[u][1])'
            BY <2>1, <3>2, HereFacts
        <3>4. pc[u] \in Preparing \cup Changing => cur[u][1] \in ReachableInodes(disk')
            BY <2>1 DEF Inv, ThreadOK, InsideOK, Inside
        <3> QED BY <3>1, <3>3, <3>4 DEF Undisturbed, InodeKept
    <2> QED BY <2>2, <2>3, <2>4, Frame DEF Inv
<1>4. CASE Next
    BY <1>1, <1>2, <1>3, <1>4 DEF Next, Finished
<1> QED BY <1>3, <1>4, InvCrash


-----------------------------------------------------------------------------
(* The theorems.                                                           *)

\* The inductive invariant holds whatever the requests of execute_request, their
\* interleaving, the image that fs_init starts with and the crashes.
THEOREM InvSafe == CrashSpec => []Inv
BY InvInit, InvNext, PTL DEF CrashSpec

\* Every variable of the server keeps the type of its declaration: no inode outgrows its
\* array of blocks (filesystem.cpp:175, :408 and :445 guard it), and the root's block is
\* neither free nor part of anything.
THEOREM TypesSafe == CrashSpec => []TypeOK
<1>1. Inv => TypeOK
    BY DEF Inv
<1> QED BY <1>1, InvSafe, PTL


\* Wherever the process dies, the disk is one that the server can be started on: the
\* walk of fs_init meets only blocks of the right kind and none twice (the asserts at
\* filesystem.cpp:43 and :64), and no directory keeps a block without entries.
THEOREM RestartsSafe == CrashSpec => []RestartSafe
<1>1. Inv => RestartSafe
    BY DEF Inv, Sound, RestartSafe
<1> QED BY <1>1, InvSafe, PTL

\* No two entries of a directory have the same name, however creates and deletes
\* interleave in it (filesystem.cpp:133-154, :346-365).
THEOREM NamesSafe == CrashSpec => []NamesUnique
<1>1. Inv => NamesUnique
    BY DEF Inv, Sound, NamesUnique
<1> QED BY <1>1, InvSafe, PTL

\* No disk block is lost, given back twice or handed out while it is in use: at any time
\* each is in the tree, on free_disk_blocks or in the hands of one thread, and in one of
\* these places only.
THEOREM BlocksSafe == CrashSpec => []BlocksAccounted
BY InvBlocks, InvSafe, PTL

\* What execute_request and traverse_fs have read of an inode, of a block of entries or
\* of a target is still on the disk when they use it.
THEOREM CopiesSafe == CrashSpec => []CopiesCurrent
BY InvCopies, InvSafe, PTL

\* While a thread changes a file or a directory no other is inside, whichever object of
\* data_locks it locked to get there.
THEOREM WritersSafe == CrashSpec => []WritersAlone
BY InvWriters, InvSafe, PTL

\* When FS_DELETE takes a lock out of data_locks nobody holds it or is about to ask for
\* it (the comments at filesystem.cpp:373 and :379).
THEOREM ErasedSafe == CrashSpec => []NoOneLeftOnErasedLock
BY InvErased, InvSafe, PTL

\* All of it holds of a server that is never restarted.
THEOREM SafeUp ==
    Spec => [](/\ TypeOK /\ RestartSafe /\ NamesUnique /\ BlocksAccounted
               /\ CopiesCurrent /\ WritersAlone /\ NoOneLeftOnErasedLock)
<1>1. Spec => CrashSpec
    <2>1. [Next]_vars => [Next \/ Crash]_vars
        OBVIOUS
    <2> QED BY <2>1, PTL DEF Spec, CrashSpec
<1> QED BY <1>1, TypesSafe, RestartsSafe, NamesSafe, BlocksSafe, CopiesSafe, WritersSafe, ErasedSafe, PTL

=============================================================================
