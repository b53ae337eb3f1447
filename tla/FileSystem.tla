------------------------------ MODULE FileSystem ------------------------------
(***************************************************************************)
(* The file server's core, src/filesystem.cpp: server threads that execute  *)
(* FS_CREATE, FS_DELETE, FS_READBLOCK and FS_WRITEBLOCK against one disk,    *)
(* under hand-over-hand reader/writer locks, one lock per inode.            *)
(*                                                                         *)
(* A step of a thread is one disk access, one lock acquisition, or one      *)
(* critical section of internal_lock_free_list or internal_lock_map; what a *)
(* thread computes on its own variables, and the locks it releases, go with *)
(* the step before.                                                        *)
(***************************************************************************)
EXTENDS Disk

CONSTANTS
    Threads,          \* server threads; each serves one connection at a time
    Requests,         \* the requests that clients may send
    Images,           \* the disk images the server may be started on
    MaxRequests       \* bound on the number of requests in a behaviour

Paths == Seq(Names)

RequestType ==
    [op : {"FS_CREATE"}, username : Users, path : Paths, type : {"f", "d"}]
    \cup [op : {"FS_DELETE"}, username : Users, path : Paths]
    \cup [op : {"FS_READBLOCK"}, username : Users, path : Paths, block : Nat]
    \cup [op : {"FS_WRITEBLOCK"}, username : Users, path : Paths, block : Nat,
          data : Data]

ASSUME BoundAssumption == MaxRequests \in Nat

ASSUME ValuesAssumption ==
    /\ IsFiniteSet(Threads)
    /\ None \notin Blocks \cup Nat \cup Threads \cup Users \cup Names \cup Data
    /\ RootOwner \notin Users

ASSUME RequestsAssumption == Requests \subseteq RequestType

-----------------------------------------------------------------------------
VARIABLES
    disk,               \* the contents of every disk block
    free_disk_blocks,   \* the deque of free blocks
    data_locks,         \* block -> lock object, None when the weak_ptr expired
    pc, req,            \* what each thread executes
    cur, nxt,           \* the lock objects each thread has a shared_ptr to
    hold,               \* the locks each thread holds, with their modes
    loc,                \* the local variables of execute_request/traverse_fs
    resp,               \* the result of execute_request
    issued              \* number of requests received (bounded)

vars == <<disk, free_disk_blocks, data_locks, pc, req, cur, nxt, hold, loc, resp, issued>>

\* A lock object: the block it was made for and a number that tells apart the
\* objects made for one block (delete drops a block's entry from data_locks).
Generations == 0 .. 2 * Cardinality(Threads)
LockObjects == Blocks \X Generations
Modes == {"shared", "upgrade", "unique"}

FreshLoc == [i |-> 0, node |-> 0, inode |-> None, k |-> 1, spot |-> None,
             target |-> None, tinode |-> None, new |-> <<>>]

Init ==
    /\ disk \in Images
    /\ free_disk_blocks = fs_init(disk)
    /\ data_locks = [b \in Blocks |-> None]
    /\ pc = [t \in Threads |-> "idle"]
    /\ req = [t \in Threads |-> None]
    /\ cur = [t \in Threads |-> None]
    /\ nxt = [t \in Threads |-> None]
    /\ hold = [t \in Threads |-> {}]
    /\ loc = [t \in Threads |-> FreshLoc]
    /\ resp = [t \in Threads |-> None]
    /\ issued = 0

-----------------------------------------------------------------------------
(* The locks.  boost::shared_mutex: any number of shared owners, at most one *)
(* upgrade owner beside them, a unique owner alone; an upgrade owner becomes *)
(* the unique one when it is the last owner left.                           *)

HoldersOf(l, modes) == {t \in Threads : \E m \in modes : <<l, m>> \in hold[t]}

CanLock(l, mode) ==
    IF mode = "shared" THEN HoldersOf(l, {"unique"}) = {}
    ELSE HoldersOf(l, {"upgrade", "unique"}) = {}

CanUpgrade(t, l) == HoldersOf(l, Modes) \subseteq {t}

\* The lock object get_lock_ptr(b) returns: the one in data_locks when some
\* thread still points to it, else a new one.
Referenced(l) == \E t \in Threads : l \in {cur[t], nxt[t]}
lock_ptr(b) ==
    IF data_locks[b] # None THEN <<b, data_locks[b]>>
    ELSE <<b, First({g \in Generations : ~Referenced(<<b, g>>)})>>

\* A weak_ptr in data_locks expires with the last shared_ptr.
Expire(locks) ==
    [b \in Blocks |->
        IF locks[b] # None /\ \E t \in Threads : <<b, locks[b]>> \in {cur'[t], nxt'[t]}
        THEN locks[b] ELSE None]

\* The pointer that next_lock_ptr held before is dropped.
get_lock_ptr(t, b) ==
    /\ UNCHANGED cur
    /\ nxt' = [nxt EXCEPT ![t] = lock_ptr(b)]
    /\ data_locks' = Expire([data_locks EXCEPT ![b] = lock_ptr(b)[2]])

-----------------------------------------------------------------------------
(* Threads.                                                                *)

Goto(t, label) == pc' = [pc EXCEPT ![t] = label]
SetLoc(t, value) == loc' = [loc EXCEPT ![t] = value]
Write(b, content) == disk' = [disk EXCEPT ![b] = content]

At(t, label) == pc[t] = label
Op(t) == req[t].op

\* execute_request returns: the thread's locks and pointers go with its frame.
Return(t, result) ==
    /\ Goto(t, "reply")
    /\ resp' = [resp EXCEPT ![t] = result]
    /\ cur' = [cur EXCEPT ![t] = None]
    /\ nxt' = [nxt EXCEPT ![t] = None]
    /\ hold' = [hold EXCEPT ![t] = {}]
    /\ data_locks' = Expire(data_locks)
    /\ SetLoc(t, FreshLoc)
    /\ UNCHANGED <<req, issued>>

Fail(t) == Return(t, "error")

\* What a step that only reads or writes and goes on leaves alone.
KeepLocks == UNCHANGED <<data_locks, cur, nxt, hold>>
KeepCall == UNCHANGED <<req, resp, issued>>
Continue(t, label, value) == Goto(t, label) /\ SetLoc(t, value) /\ KeepLocks /\ KeepCall

\* A step that gets the pointer to a block's lock, and one that has waited for
\* a lock and now holds exactly these.
Fetch(t, b, label) ==
    /\ get_lock_ptr(t, b)
    /\ Goto(t, label)
    /\ UNCHANGED <<disk, free_disk_blocks, hold, loc>> /\ KeepCall
Acquire(t, locks, label) ==
    /\ hold' = [hold EXCEPT ![t] = locks]
    /\ Goto(t, label)
    /\ UNCHANGED <<disk, free_disk_blocks, data_locks, loc>> /\ KeepCall

\* The path traverse_fs walks, and the lock mode it takes at its end.
TargetPath(r) ==
    IF r.op \in {"FS_CREATE", "FS_DELETE"} THEN SubSeq(r.path, 1, Len(r.path) - 1)
    ELSE r.path
Filename(r) == r.path[Len(r.path)]

\* Fault: the end of the walk is locked for reading only.
FinalModeShared(r) == "shared"

FinalMode(r) == IF r.op = "FS_READBLOCK" THEN "shared" ELSE "upgrade"
AtEnd(t) == loc[t].i = Len(TargetPath(req[t]))

\* Fault: the block number may be one too high.
OutOfRangeByOne(r) == r.path = <<>> \/ ("block" \in DOMAIN r /\ r.block > FS_MAXFILEBLOCKS)

\* The checks of the arguments alone.
OutOfRange(r) == r.path = <<>> \/ ("block" \in DOMAIN r /\ r.block >= FS_MAXFILEBLOCKS)

\* A request arrives; the checks before any shared state is read.
Receive(t, r) ==
    /\ At(t, "idle") /\ issued < MaxRequests
    /\ issued' = issued + 1
    /\ req' = [req EXCEPT ![t] = r]
    /\ IF OutOfRange(r)
       THEN Goto(t, "reply") /\ resp' = [resp EXCEPT ![t] = "error"]
       ELSE /\ Goto(t, IF r.op \in {"FS_CREATE", "FS_DELETE"} THEN "check_free" ELSE "get_root")
            /\ UNCHANGED resp
    /\ UNCHANGED <<disk, free_disk_blocks, loc>> /\ KeepLocks

\* The response is sent and the connection closed.
Reply(t) ==
    /\ At(t, "reply")
    /\ Goto(t, "idle")
    /\ req' = [req EXCEPT ![t] = None]
    /\ resp' = [resp EXCEPT ![t] = None]
    /\ UNCHANGED <<disk, free_disk_blocks, loc, issued>> /\ KeepLocks

\* Create gives up on a full disk, delete on an empty one, before walking.
CheckFree(t) ==
    /\ At(t, "check_free")
    /\ IF \/ Op(t) = "FS_CREATE" /\ free_disk_blocks = <<>>
          \/ Op(t) = "FS_DELETE" /\ Len(free_disk_blocks) = FS_DISKSIZE - 1
       THEN Fail(t)
       ELSE Continue(t, "get_root", loc[t])
    /\ UNCHANGED <<disk, free_disk_blocks>>

-----------------------------------------------------------------------------
(* traverse_fs.                                                            *)

GetRoot(t) == At(t, "get_root") /\ Fetch(t, 0, "lock")

\* Take the next inode's lock, then let go of the one before it; its pointer
\* stays in next_lock_ptr until that is assigned again.
Lock(t) ==
    LET mode == IF AtEnd(t) THEN FinalMode(req[t]) ELSE "shared"
    IN  /\ At(t, "lock")
        /\ CanLock(nxt[t], mode)
        /\ Acquire(t, {<<nxt[t], mode>>}, "read_inode")
        /\ cur' = [cur EXCEPT ![t] = nxt[t]]
        /\ nxt' = [nxt EXCEPT ![t] = cur[t]]

\* traverse_fs returns an inode: next_lock_ptr goes with its frame.
Traversed(t, label, value) ==
    /\ Goto(t, label) /\ SetLoc(t, value)
    /\ nxt' = [nxt EXCEPT ![t] = None]
    /\ UNCHANGED <<cur, hold>>
    /\ data_locks' = Expire(data_locks)
    /\ KeepCall

\* What each request does with the inode at the end of its walk.
Reached(t, inode) == [loc[t] EXCEPT !.inode = inode, !.k = 1]
CreateIn(t, inode) ==
    IF inode.type = "f" THEN Fail(t)
    ELSE Traversed(t, IF size(inode) = 0 THEN "alloc_inode" ELSE "create_scan", Reached(t, inode))
DeleteIn(t, inode) ==
    IF size(inode) = 0 \/ inode.type = "f" THEN Fail(t)
    ELSE Traversed(t, "delete_scan", Reached(t, inode))
ReadFrom(t, inode) ==
    IF inode.type = "d" \/ size(inode) <= req[t].block THEN Fail(t)
    ELSE Traversed(t, "read_data", Reached(t, inode))
WriteTo(t, inode) ==
    IF inode.type = "d" \/ req[t].block > size(inode) THEN Fail(t)
    ELSE Traversed(t, IF req[t].block < size(inode) THEN "upgrade" ELSE "alloc_data",
                   Reached(t, inode))

AfterTraverse(t, inode) ==
    \/ Op(t) = "FS_CREATE" /\ CreateIn(t, inode)
    \/ Op(t) = "FS_DELETE" /\ DeleteIn(t, inode)
    \/ Op(t) = "FS_READBLOCK" /\ ReadFrom(t, inode)
    \/ Op(t) = "FS_WRITEBLOCK" /\ WriteTo(t, inode)

\* Everyone may pass through the root; below it only the owner may.
Permitted(t, inode) == loc[t].i = 0 \/ inode.owner = req[t].username

ReadInode(t) ==
    LET inode == disk[loc[t].node]
    IN  /\ At(t, "read_inode")
        /\ IF ~Permitted(t, inode) THEN Fail(t)
           ELSE IF AtEnd(t) THEN AfterTraverse(t, inode)
           ELSE IF inode.type = "f" \/ size(inode) = 0 THEN Fail(t)
           ELSE Continue(t, "scan", [loc[t] EXCEPT !.inode = inode, !.k = 1])
        /\ UNCHANGED <<disk, free_disk_blocks>>

\* Look for path[i] in the next block of directory entries.
Scan(t) ==
    LET l == loc[t]
        dir == disk[l.inode.blocks[l.k]]
        found == Matches(dir, req[t].path[l.i + 1])
    IN  /\ At(t, "scan")
        /\ IF found # {}
           THEN Continue(t, "get_lock",
                    [l EXCEPT !.node = dir.entries[First(found)].inode_block, !.i = @ + 1])
           ELSE IF l.k = size(l.inode) THEN Fail(t)
           ELSE Continue(t, "scan", [l EXCEPT !.k = @ + 1])
        /\ UNCHANGED <<disk, free_disk_blocks>>

GetLock(t) == At(t, "get_lock") /\ Fetch(t, loc[t].node, "lock")

-----------------------------------------------------------------------------
(* Steps that several requests take.                                       *)

\* Fault: the writer does not wait for the readers.
UpgradeSkipped(t) ==
    /\ At(t, "upgrade")
    /\ Acquire(t, hold[t], IF Op(t) = "FS_DELETE" THEN "lock_target" ELSE "commit")
    /\ UNCHANGED <<cur, nxt>>

\* The upgrade lock becomes a unique lock once every reader has left.
Upgrade(t) ==
    /\ At(t, "upgrade")
    /\ CanUpgrade(t, cur[t])
    /\ Acquire(t, {<<cur[t], "unique">>}, IF Op(t) = "FS_DELETE" THEN "lock_target" ELSE "commit")
    /\ UNCHANGED <<cur, nxt>>

\* The write that makes a create, an append or an overwrite visible.
ExtendInode(l) == Write(l.node, [l.inode EXCEPT !.blocks = Append(@, l.new[Len(l.new)])])
CommitCreate(l) ==
    IF l.spot # None THEN Write(l.spot.block, l.spot.dir) ELSE ExtendInode(l)
CommitData(l, r) ==
    IF l.new # <<>> THEN ExtendInode(l)
    ELSE Write(l.inode.blocks[r.block + 1], [kind |-> "data", value |-> r.data])

Commit(t) ==
    /\ At(t, "commit")
    /\ IF Op(t) = "FS_CREATE" THEN CommitCreate(loc[t]) ELSE CommitData(loc[t], req[t])
    /\ Return(t, "ok")
    /\ UNCHANGED free_disk_blocks

-----------------------------------------------------------------------------
(* FS_CREATE.                                                              *)

\* Fault: the scan leaves out the first entry of each block.
AlreadyExistsOffByOne(dir, name) == Matches(dir, name) \ {1} # {}

AlreadyExists(dir, name) == Matches(dir, name) # {}

\* Reject a duplicate name; remember the first unused entry.
CreateScan(t) ==
    LET l == loc[t]
        b == l.inode.blocks[l.k]
        dir == disk[b]
        spot == IF l.spot = None /\ FreeSlots(dir) # {}
                THEN [block |-> b, slot |-> First(FreeSlots(dir)), dir |-> dir]
                ELSE l.spot
    IN  /\ At(t, "create_scan")
        /\ IF AlreadyExists(dir, Filename(req[t])) THEN Fail(t)
           ELSE IF l.k = size(l.inode)
                THEN Continue(t, "alloc_inode", [l EXCEPT !.spot = spot])
           ELSE Continue(t, "create_scan", [l EXCEPT !.spot = spot, !.k = @ + 1])
        /\ UNCHANGED <<disk, free_disk_blocks>>

\* Allocate the inode block and fill in the remembered entry.
AllocInode(t) ==
    LET l == loc[t]
        b == Head(free_disk_blocks)
        new == [l EXCEPT !.new = <<b>>]
    IN  /\ At(t, "alloc_inode")
        /\ \/ free_disk_blocks = <<>> /\ Fail(t) /\ UNCHANGED free_disk_blocks
           \/ /\ free_disk_blocks # <<>>
              /\ free_disk_blocks' = Tail(free_disk_blocks)
              /\ IF l.spot # None
                 THEN Continue(t, "write_inode",
                        [new EXCEPT !.spot.dir.entries[l.spot.slot] = Entry(Filename(req[t]), b)])
                 ELSE Continue(t, IF size(l.inode) = FS_MAXFILEBLOCKS THEN "return_inode"
                                  ELSE "alloc_direntries", new)
        /\ UNCHANGED disk

\* Fault: the inode block is lost.
ReturnInodeForgotten(t) ==
    /\ At(t, "return_inode")
    /\ Fail(t)
    /\ UNCHANGED <<disk, free_disk_blocks>>

\* The directory is full: the inode block goes back.
ReturnInode(t) ==
    /\ At(t, "return_inode")
    /\ free_disk_blocks' = loc[t].new \o free_disk_blocks
    /\ Fail(t)
    /\ UNCHANGED disk

AllocDirentries(t) ==
    LET l == loc[t]
    IN  /\ At(t, "alloc_direntries")
        /\ \/ /\ free_disk_blocks = <<>>
              /\ free_disk_blocks' = l.new
              /\ Fail(t)
           \/ /\ free_disk_blocks # <<>>
              /\ free_disk_blocks' = Tail(free_disk_blocks)
              /\ Continue(t, "write_direntries",
                          [l EXCEPT !.new = Append(@, Head(free_disk_blocks))])
        /\ UNCHANGED disk

WriteDirentries(t) ==
    /\ At(t, "write_direntries")
    /\ Write(loc[t].new[2],
             [kind |-> "direntries",
              entries |-> [j \in 1 .. FS_DIRENTRIES |->
                  IF j = 1 THEN Entry(Filename(req[t]), loc[t].new[1]) ELSE UnusedEntry]])
    /\ Continue(t, "write_inode", loc[t])
    /\ UNCHANGED free_disk_blocks

WriteInode(t) ==
    /\ At(t, "write_inode")
    /\ Write(loc[t].new[1], NewInode(req[t].type, req[t].username))
    /\ Continue(t, "upgrade", loc[t])
    /\ UNCHANGED free_disk_blocks

-----------------------------------------------------------------------------
(* FS_DELETE.                                                              *)

DeleteScan(t) ==
    LET l == loc[t]
        b == l.inode.blocks[l.k]
        found == Matches(disk[b], Filename(req[t]))
    IN  /\ At(t, "delete_scan")
        /\ IF found # {}
           THEN Continue(t, "get_target",
                    [l EXCEPT !.spot = [block |-> b, slot |-> First(found), dir |-> disk[b]],
                              !.target = disk[b].entries[First(found)].inode_block])
           ELSE IF l.k = size(l.inode) THEN Fail(t)
           ELSE Continue(t, "delete_scan", [l EXCEPT !.k = @ + 1])
        /\ UNCHANGED <<disk, free_disk_blocks>>

GetTarget(t) == At(t, "get_target") /\ Fetch(t, loc[t].target, "upgrade")

LockTarget(t) ==
    /\ At(t, "lock_target")
    /\ CanLock(nxt[t], "upgrade")
    /\ Acquire(t, hold[t] \cup {<<nxt[t], "upgrade">>}, "read_target")
    /\ UNCHANGED <<cur, nxt>>

\* Fault: a directory is deleted with what is in it.
DeletableFull(t, inode) == inode.owner = req[t].username

\* Only the owner may delete, and only a file or an empty directory.
Deletable(t, inode) ==
    /\ inode.owner = req[t].username
    /\ inode.type = "d" => size(inode) = 0

ReadTarget(t) ==
    LET inode == disk[loc[t].target]
    IN  /\ At(t, "read_target")
        /\ IF Deletable(t, inode)
           THEN Continue(t, "unlink", [loc[t] EXCEPT !.tinode = inode])
           ELSE Fail(t)
        /\ UNCHANGED <<disk, free_disk_blocks>>

\* The parent's unique lock is dropped, the target's upgrade lock kept.
UnlockParent(t) == hold' = [hold EXCEPT ![t] = {<<nxt[t], "upgrade">>}]

\* Fault: a direntries block without used entries stays in its directory.
CanDeleteDirentriesNever(l) == FALSE

\* No other entry is used in the target's direntries block.
CanDeleteDirentries(l) ==
    \A j \in 1 .. FS_DIRENTRIES : l.spot.dir.entries[j].inode_block \in {0, l.target}

\* One write takes the target out of the tree: of the parent's inode, when its
\* direntries block is given back as well, or else of the direntries block.
Unlink(t) ==
    LET l == loc[t]
        b == l.inode.blocks
        shifted == [i \in 1 .. Len(b) - 1 |-> IF i < l.k THEN b[i] ELSE b[i + 1]]
    IN  /\ At(t, "unlink")
        /\ IF CanDeleteDirentries(l)
           THEN /\ Write(l.node, [l.inode EXCEPT !.blocks = shifted])
                /\ Goto(t, "free_direntries")
                /\ UNCHANGED hold
           ELSE /\ Write(l.spot.block, [l.spot.dir EXCEPT !.entries[l.spot.slot] = UnusedEntry])
                /\ Goto(t, "upgrade_target")
                /\ UnlockParent(t)
        /\ UNCHANGED <<free_disk_blocks, data_locks, cur, nxt, loc>> /\ KeepCall

FreeDirentries(t) ==
    /\ At(t, "free_direntries")
    /\ free_disk_blocks' = Append(free_disk_blocks, loc[t].spot.block)
    /\ UnlockParent(t)
    /\ Goto(t, "upgrade_target")
    /\ UNCHANGED <<disk, data_locks, cur, nxt, loc>> /\ KeepCall

\* Fault: the deleted file's readers are not waited for.
UpgradeTargetSkipped(t) ==
    /\ At(t, "upgrade_target")
    /\ Acquire(t, hold[t], "erase_lock")
    /\ UNCHANGED <<cur, nxt>>

\* Wait for the readers of the deleted file to leave.
UpgradeTarget(t) ==
    /\ At(t, "upgrade_target")
    /\ CanUpgrade(t, nxt[t])
    /\ Acquire(t, {<<nxt[t], "unique">>}, "erase_lock")
    /\ UNCHANGED <<cur, nxt>>

EraseLock(t) ==
    /\ At(t, "erase_lock")
    /\ data_locks' = [data_locks EXCEPT ![loc[t].target] = None]
    /\ Goto(t, "free_blocks")
    /\ UNCHANGED <<disk, free_disk_blocks, cur, nxt, hold, loc>> /\ KeepCall

FreedBlocks(l) ==
    (IF l.tinode.type = "f" THEN l.tinode.blocks ELSE <<>>) \o <<l.target>>

FreeBlocks(t) ==
    /\ At(t, "free_blocks")
    /\ free_disk_blocks' = free_disk_blocks \o FreedBlocks(loc[t])
    /\ Return(t, "ok")
    /\ UNCHANGED disk

-----------------------------------------------------------------------------
(* FS_READBLOCK and FS_WRITEBLOCK.                                         *)

ReadData(t) ==
    /\ At(t, "read_data")
    /\ Return(t, disk[loc[t].inode.blocks[req[t].block + 1]].value)
    /\ UNCHANGED <<disk, free_disk_blocks>>

\* The file grows by one block.
AllocData(t) ==
    /\ At(t, "alloc_data")
    /\ \/ free_disk_blocks = <<>> /\ Fail(t) /\ UNCHANGED free_disk_blocks
       \/ /\ free_disk_blocks # <<>>
          /\ free_disk_blocks' = Tail(free_disk_blocks)
          /\ Continue(t, "write_data", [loc[t] EXCEPT !.new = <<Head(free_disk_blocks)>>])
    /\ UNCHANGED disk

\* Fault: the new block is linked before its data is written.
WriteDataSkipped(t) ==
    /\ At(t, "write_data")
    /\ Continue(t, "upgrade", loc[t])
    /\ UNCHANGED <<disk, free_disk_blocks>>

WriteData(t) ==
    /\ At(t, "write_data")
    /\ Write(loc[t].new[1], [kind |-> "data", value |-> req[t].data])
    /\ Continue(t, "upgrade", loc[t])
    /\ UNCHANGED free_disk_blocks

-----------------------------------------------------------------------------
Step(t) ==
    \/ CheckFree(t) \/ GetRoot(t) \/ Lock(t) \/ ReadInode(t) \/ Scan(t) \/ GetLock(t)
    \/ Upgrade(t) \/ Commit(t)
    \/ CreateScan(t) \/ AllocInode(t) \/ ReturnInode(t) \/ AllocDirentries(t)
    \/ WriteDirentries(t) \/ WriteInode(t)
    \/ DeleteScan(t) \/ GetTarget(t) \/ LockTarget(t) \/ ReadTarget(t) \/ Unlink(t)
    \/ FreeDirentries(t) \/ UpgradeTarget(t) \/ EraseLock(t) \/ FreeBlocks(t)
    \/ ReadData(t) \/ AllocData(t) \/ WriteData(t)
    \/ Reply(t)

\* Every request received has been answered (only the bound stops the server).
Finished == issued = MaxRequests /\ (\A t \in Threads : At(t, "idle")) /\ UNCHANGED vars

Next ==
    \/ \E t \in Threads : Step(t) \/ \E r \in Requests : Receive(t, r)
    \/ Finished

Spec == Init /\ [][Next]_vars

\* Every thread with something to do is scheduled.
FairSpec == Spec /\ \A t \in Threads : WF_vars(Step(t))

\* The process dies; the disk keeps its contents; the server is started again.
Crash ==
    /\ free_disk_blocks' = fs_init(disk)
    /\ data_locks' = [b \in Blocks |-> None]
    /\ pc' = [t \in Threads |-> "idle"]
    /\ req' = [t \in Threads |-> None]
    /\ cur' = [t \in Threads |-> None]
    /\ nxt' = [t \in Threads |-> None]
    /\ hold' = [t \in Threads |-> {}]
    /\ loc' = [t \in Threads |-> FreshLoc]
    /\ resp' = [t \in Threads |-> None]
    /\ UNCHANGED <<disk, issued>>

CrashSpec == Init /\ [][Next \/ Crash]_vars

-----------------------------------------------------------------------------
(* Properties.                                                             *)

Labels == {"idle", "reply", "check_free", "get_root", "lock", "read_inode", "scan",
           "get_lock", "upgrade", "commit", "create_scan", "alloc_inode", "return_inode",
           "alloc_direntries", "write_direntries", "write_inode", "delete_scan",
           "get_target", "lock_target", "read_target", "unlink", "free_direntries",
           "upgrade_target", "erase_lock", "free_blocks", "read_data", "alloc_data",
           "write_data"}

SpotType == [block : Blocks, slot : 1 .. FS_DIRENTRIES, dir : direntries]
LocType == [i : Nat, node : Blocks, inode : fs_inode \cup {None}, k : Nat,
            spot : SpotType \cup {None}, target : Blocks \cup {None},
            tinode : fs_inode \cup {None}, new : Seq(Blocks \ {0})]
ASSUME NoneAssumption == None \notin LockObjects \cup SpotType

\* Every variable of the server holds a value of the type it is declared with:
\* no inode on the disk or in a thread's hands outgrows its array of blocks
\* (filesystem.cpp:175, :408 and :445 guard it), and the root's block is neither
\* free nor part of anything.
TypeOK ==
    /\ disk \in [Blocks -> Contents]
    /\ free_disk_blocks \in Seq(Blocks \ {0})
    /\ data_locks \in [Blocks -> Generations \cup {None}]
    /\ pc \in [Threads -> Labels]
    /\ req \in [Threads -> RequestType \cup {None}]
    /\ cur \in [Threads -> LockObjects \cup {None}]
    /\ nxt \in [Threads -> LockObjects \cup {None}]
    /\ hold \in [Threads -> SUBSET (LockObjects \X Modes)]
    /\ loc \in [Threads -> LocType]
    /\ resp \in [Threads -> Data \cup {None, "ok", "error"}]
    /\ issued \in 0 .. MaxRequests

=============================================================================
