----------------------- MODULE FileSystemLocks_proofs -----------------------
(***************************************************************************)
(* The lock discipline of the file server, for any number of threads, any   *)
(* requests, any disk and any crashes.                                     *)
(***************************************************************************)
EXTENDS FileSystemInvariant, FiniteSetTheorems, TLAPS

\* The prover of a leaf that names none.
USE ZenonT(30)

\* Such a step keeps the invariant.
LEMMA KeepsLemma == ASSUME LocksInv, NEW t \in Threads, Keeps(t) PROVE LocksInv'
<1>1. Compatible'
    <2> SUFFICES ASSUME NEW a \in Threads, NEW b \in Threads, a # b,
                        NEW g \in hold'[a], NEW h \in hold'[b], g[1] = h[1]
                 PROVE  g[2] # "unique" /\ (g[2] = "upgrade" => h[2] = "shared")
        BY DEF Compatible
    <2>1. CASE g \in hold[a] /\ h \in hold[b]
        BY <2>1 DEF LocksInv, Compatible
    <2>2. CASE g \notin hold[a]
        BY SMT, <2>2 DEF Keeps, Alone, TakesFree
    <2>3. CASE h \notin hold[b]
        BY SMT, <2>3 DEF Keeps, Alone, TakesFree
    <2> QED BY <2>1, <2>2, <2>3
<1>2. ASSUME NEW u \in Threads PROVE HoldsAt(u)'
    <2>1. CASE u = t
        BY <2>1 DEF Keeps
    <2>2. CASE u # t
        <3>1. /\ pc'[u] = pc[u] /\ hold'[u] = hold[u] /\ cur'[u] = cur[u] /\ nxt'[u] = nxt[u]
              /\ req'[u] = req[u] /\ loc'[u] = loc[u]
            BY <2>2 DEF Keeps, Alone
        <3>2. WalkMode(u)' = WalkMode(u)
            BY <3>1 DEF WalkMode, AtEnd
        <3> QED BY <3>1, <3>2 DEF LocksInv, HoldsAt
    <2> QED BY <2>1, <2>2
<1> QED BY <1>1, <1>2 DEF LocksInv, Keeps, Alone

-----------------------------------------------------------------------------
(* The shapes of the steps.                                                *)

\* A step that returns.
LEMMA ReturnKeeps ==
    ASSUME LocksInv, NEW t \in Threads, NEW result, Return(t, result)
    PROVE  Keeps(t)
<1>1. /\ hold'[t] = {} /\ pc'[t] = "reply"
    BY DEF Return, Goto, LocksInv, DomainsOK
<1>2. Alone(t)
    BY DEF Return, Goto, SetLoc, LocksInv, DomainsOK, Alone
<1>3. HoldsAt(t)'
    BY <1>1 DEF HoldsAt, Outside, Preparing, Erasing
<1> QED BY <1>1, <1>2, <1>3 DEF Keeps, TakesFree

\* A step that goes on with the locks it has.
GoesOn(t, label) ==
    /\ Alone(t) /\ TakesFree(t)
    /\ pc'[t] = label /\ hold'[t] = hold[t] /\ cur'[t] = cur[t]

LEMMA ContinueGoesOn ==
    ASSUME LocksInv, NEW t \in Threads, NEW label, NEW value, Continue(t, label, value)
    PROVE  GoesOn(t, label) /\ nxt'[t] = nxt[t]
BY DEF Continue, Goto, SetLoc, KeepLocks, KeepCall, LocksInv, DomainsOK, Alone, TakesFree, GoesOn

LEMMA TraversedGoesOn ==
    ASSUME LocksInv, NEW t \in Threads, NEW label, NEW value, Traversed(t, label, value)
    PROVE  GoesOn(t, label)
BY DEF Traversed, Goto, SetLoc, KeepCall, LocksInv, DomainsOK, Alone, TakesFree, GoesOn

LEMMA FetchGoesOn ==
    ASSUME LocksInv, NEW t \in Threads, NEW b, NEW label, Fetch(t, b, label)
    PROVE  GoesOn(t, label)
BY DEF Fetch, get_lock_ptr, Goto, KeepCall, LocksInv, DomainsOK, Alone, TakesFree, GoesOn

\* A step that takes no lock.
LEMMA GoesOnKeeps ==
    ASSUME LocksInv, NEW t \in Threads, NEW label, GoesOn(t, label),
           \/ label \in Outside /\ hold[t] = {}
           \/ label = "lock" /\ hold[t] \subseteq {<<cur[t], "shared">>}
           \/ label \in {"scan", "get_lock", "read_data"} /\ hold[t] = {<<cur[t], "shared">>}
           \/ label \in Preparing /\ hold[t] = {<<cur[t], "upgrade">>}
    PROVE  Keeps(t)
<1>1. HoldsAt(t)
    BY DEF LocksInv
<1>2. \A h \in hold'[t] : h = <<h[1], h[2]>> /\ h[2] \in Modes
    BY <1>1 DEF GoesOn, HoldsAt
<1>3. HoldsAt(t)'
    BY <1>2 DEF GoesOn, HoldsAt, Outside, Preparing, Erasing
<1> QED BY <1>3 DEF GoesOn, Keeps

\* What a lock that can be had says of the other threads' locks.
LEMMA LockFree ==
    ASSUME LocksInv, NEW l, NEW mode \in {"shared", "upgrade"}, CanLock(l, mode),
           NEW u \in Threads, NEW h \in hold[u], h[1] = l
    PROVE  h[2] # "unique" /\ (mode = "upgrade" => h[2] = "shared")
<1>1. h = <<l, h[2]>> /\ h[2] \in Modes
    BY DEF LocksInv, HoldsAt
<1> QED BY <1>1 DEF CanLock, HoldersOf, Modes

LEMMA UpgradeFree ==
    ASSUME LocksInv, NEW t \in Threads, NEW l, CanUpgrade(t, l),
           NEW u \in Threads \ {t}, NEW h \in hold[u]
    PROVE  h[1] # l
<1>1. h = <<h[1], h[2]>> /\ h[2] \in Modes
    BY DEF LocksInv, HoldsAt
<1> QED BY <1>1 DEF CanUpgrade, HoldersOf

\* A step that waits for a lock.
LEMMA AcquireAlone ==
    ASSUME LocksInv, NEW t \in Threads, NEW locks, NEW label, Acquire(t, locks, label),
           DOMAIN cur' = Threads, DOMAIN nxt' = Threads,
           \A u \in Threads \ {t} : cur'[u] = cur[u] /\ nxt'[u] = nxt[u]
    PROVE  Alone(t) /\ hold'[t] = locks /\ pc'[t] = label
BY DEF Acquire, Goto, KeepCall, LocksInv, DomainsOK, Alone

-----------------------------------------------------------------------------
(* traverse_fs.                                                            *)

LEMMA ReceiveKeeps ==
    ASSUME LocksInv, NEW t \in Threads, NEW r, Receive(t, r) PROVE Keeps(t)
<1>1. hold[t] = {}
    BY DEF Receive, At, LocksInv, HoldsAt, Outside
<1>2. PICK label \in Outside : Goto(t, label)
    BY DEF Receive, Outside
<1>3. GoesOn(t, label)
    BY <1>2 DEF Receive, Goto, KeepLocks, LocksInv, DomainsOK, Alone, TakesFree, GoesOn
<1> QED BY <1>1, <1>3, GoesOnKeeps

LEMMA ReplyKeeps == ASSUME LocksInv, NEW t \in Threads, Reply(t) PROVE Keeps(t)
<1>1. hold[t] = {}
    BY DEF Reply, At, LocksInv, HoldsAt, Outside
<1>2. GoesOn(t, "idle")
    BY DEF Reply, Goto, KeepLocks, LocksInv, DomainsOK, Alone, TakesFree, GoesOn
<1> QED BY <1>1, <1>2, GoesOnKeeps DEF Outside

LEMMA CheckFreeKeeps == ASSUME LocksInv, NEW t \in Threads, CheckFree(t) PROVE Keeps(t)
<1>1. hold[t] = {}
    BY DEF CheckFree, At, LocksInv, HoldsAt, Outside
<1>2. CASE Fail(t)
    BY <1>2, ReturnKeeps DEF Fail
<1>3. CASE Continue(t, "get_root", loc[t])
    BY <1>1, <1>3, ContinueGoesOn, GoesOnKeeps DEF Outside
<1> QED BY <1>2, <1>3 DEF CheckFree

\* The steps that get the pointer to a lock.
LEMMA FetchKeeps ==
    ASSUME LocksInv, NEW t \in Threads, GetRoot(t) \/ GetLock(t) \/ GetTarget(t)
    PROVE  Keeps(t)
<1>1. CASE GetRoot(t)
    <2>1. hold[t] = {} /\ GoesOn(t, "lock")
        BY <1>1, FetchGoesOn DEF GetRoot, At, LocksInv, HoldsAt, Outside
    <2> QED BY <2>1, GoesOnKeeps
<1>2. CASE GetLock(t)
    <2>1. hold[t] = {<<cur[t], "shared">>} /\ GoesOn(t, "lock")
        BY <1>2, FetchGoesOn DEF GetLock, At, LocksInv, HoldsAt
    <2> QED BY <2>1, GoesOnKeeps
<1>3. CASE GetTarget(t)
    <2>1. hold[t] = {<<cur[t], "upgrade">>} /\ GoesOn(t, "upgrade")
        BY <1>3, FetchGoesOn DEF GetTarget, At, LocksInv, HoldsAt, Preparing
    <2> QED BY <2>1, GoesOnKeeps DEF Preparing
<1> QED BY <1>1, <1>2, <1>3

LEMMA LockKeeps == ASSUME LocksInv, NEW t \in Threads, Lock(t) PROVE Keeps(t)
<1>1. WalkMode(t) \in {"shared", "upgrade"}
    BY DEF WalkMode, FinalMode
<1>2. /\ CanLock(nxt[t], WalkMode(t))
      /\ Acquire(t, {<<nxt[t], WalkMode(t)>>}, "read_inode")
      /\ cur' = [cur EXCEPT ![t] = nxt[t]]
      /\ nxt' = [nxt EXCEPT ![t] = cur[t]]
    BY DEF Lock, WalkMode
<1>3. /\ DOMAIN cur' = Threads /\ DOMAIN nxt' = Threads /\ cur'[t] = nxt[t]
      /\ \A u \in Threads \ {t} : cur'[u] = cur[u] /\ nxt'[u] = nxt[u]
    BY <1>2 DEF LocksInv, DomainsOK
<1>4. Alone(t) /\ hold'[t] = {<<nxt[t], WalkMode(t)>>} /\ pc'[t] = "read_inode"
    BY <1>2, <1>3, AcquireAlone
<1>5. TakesFree(t)
    BY SMT, <1>1, <1>2, <1>4, LockFree DEF TakesFree
<1>6. WalkMode(t)' = WalkMode(t)
    BY <1>2 DEF Acquire, KeepCall, WalkMode, AtEnd
<1>7. HoldsAt(t)'
    BY SMT, <1>1, <1>3, <1>4, <1>6 DEF HoldsAt, Outside, Preparing, Erasing, Modes
<1> QED BY <1>4, <1>5, <1>7 DEF Keeps

LEMMA AfterTraverseKeeps ==
    ASSUME LocksInv, NEW t \in Threads, NEW inode, At(t, "read_inode"), AtEnd(t),
           AfterTraverse(t, inode)
    PROVE  Keeps(t)
<1>1. hold[t] = {<<cur[t], FinalMode(req[t])>>}
    BY DEF At, LocksInv, HoldsAt, WalkMode
<1>2. CASE Fail(t)
    BY <1>2, ReturnKeeps DEF Fail
<1>3. ASSUME Op(t) # "FS_READBLOCK", NEW label \in Preparing,
             Traversed(t, label, Reached(t, inode))
      PROVE  Keeps(t)
    <2>1. GoesOn(t, label)
        BY <1>3, TraversedGoesOn
    <2>2. hold[t] = {<<cur[t], "upgrade">>}
        BY <1>1, <1>3 DEF FinalMode, Op
    <2> QED BY <2>1, <2>2, GoesOnKeeps
<1>4. CASE Op(t) = "FS_CREATE" /\ CreateIn(t, inode)
    BY <1>2, <1>3, <1>4 DEF CreateIn, Preparing
<1>5. CASE Op(t) = "FS_DELETE" /\ DeleteIn(t, inode)
    BY <1>2, <1>3, <1>5 DEF DeleteIn, Preparing
<1>6. CASE Op(t) = "FS_WRITEBLOCK" /\ WriteTo(t, inode)
    BY <1>2, <1>3, <1>6 DEF WriteTo, Preparing
<1>7. CASE Op(t) = "FS_READBLOCK" /\ ReadFrom(t, inode)
    <2>1. CASE Traversed(t, "read_data", Reached(t, inode))
        <3>1. GoesOn(t, "read_data")
            BY <2>1, TraversedGoesOn
        <3>2. hold[t] = {<<cur[t], "shared">>}
            BY <1>1, <1>7 DEF FinalMode, Op
        <3> QED BY <3>1, <3>2, GoesOnKeeps
    <2> QED BY <1>2, <1>7, <2>1 DEF ReadFrom
<1> QED BY <1>4, <1>5, <1>6, <1>7 DEF AfterTraverse

LEMMA ReadInodeKeeps == ASSUME LocksInv, NEW t \in Threads, ReadInode(t) PROVE Keeps(t)
<1> DEFINE inode == disk[loc[t].node]
<1>1. At(t, "read_inode")
    BY DEF ReadInode
<1>2. CASE Fail(t)
    BY <1>2, ReturnKeeps DEF Fail
<1>3. CASE AtEnd(t) /\ AfterTraverse(t, inode)
    BY <1>1, <1>3, AfterTraverseKeeps
<1>4. ASSUME ~AtEnd(t), NEW value, Continue(t, "scan", value) PROVE Keeps(t)
    <2>1. hold[t] = {<<cur[t], "shared">>}
        BY <1>1, <1>4 DEF At, LocksInv, HoldsAt, WalkMode
    <2> QED BY <1>4, <2>1, ContinueGoesOn, GoesOnKeeps
<1> QED BY <1>2, <1>3, <1>4 DEF ReadInode

LEMMA ScanKeeps == ASSUME LocksInv, NEW t \in Threads, Scan(t) PROVE Keeps(t)
<1>1. hold[t] = {<<cur[t], "shared">>}
    BY DEF Scan, At, LocksInv, HoldsAt
<1>2. CASE Fail(t)
    BY <1>2, ReturnKeeps DEF Fail
<1>3. ASSUME NEW label \in {"scan", "get_lock"}, NEW value, Continue(t, label, value)
      PROVE  Keeps(t)
    BY <1>1, <1>3, ContinueGoesOn, GoesOnKeeps
<1> QED BY <1>2, <1>3 DEF Scan

-----------------------------------------------------------------------------
(* The requests.                                                           *)

\* The steps from the end of the walk to the upgrade of its lock.
PrepareStep(t) ==
    \/ CreateScan(t) \/ AllocInode(t) \/ ReturnInode(t) \/ AllocDirentries(t)
    \/ WriteDirentries(t) \/ WriteInode(t) \/ DeleteScan(t) \/ AllocData(t) \/ WriteData(t)

LEMMA PrepareKeeps == ASSUME LocksInv, NEW t \in Threads, PrepareStep(t) PROVE Keeps(t)
<1>1. pc[t] \in Preparing
    BY DEF PrepareStep, CreateScan, AllocInode, ReturnInode, AllocDirentries, WriteDirentries,
           WriteInode, DeleteScan, AllocData, WriteData, At, Preparing
<1>2. hold[t] = {<<cur[t], "upgrade">>}
    BY <1>1 DEF LocksInv, HoldsAt
<1>3. CASE Fail(t)
    BY <1>3, ReturnKeeps DEF Fail
<1>4. ASSUME NEW label \in Preparing, NEW value, Continue(t, label, value) PROVE Keeps(t)
    BY <1>2, <1>4, ContinueGoesOn, GoesOnKeeps
<1>5. CASE CreateScan(t)
    BY <1>3, <1>4, <1>5 DEF CreateScan, Preparing
<1>6. CASE AllocInode(t)
    BY <1>3, <1>4, <1>6 DEF AllocInode, Preparing
<1>7. CASE ReturnInode(t)
    BY <1>3, <1>7 DEF ReturnInode
<1>8. CASE AllocDirentries(t)
    BY <1>3, <1>4, <1>8 DEF AllocDirentries, Preparing
<1>9. CASE WriteDirentries(t)
    BY <1>4, <1>9 DEF WriteDirentries, Preparing
<1>10. CASE WriteInode(t)
    BY <1>4, <1>10 DEF WriteInode, Preparing
<1>11. CASE DeleteScan(t)
    BY <1>3, <1>4, <1>11 DEF DeleteScan, Preparing
<1>12. CASE AllocData(t)
    BY <1>3, <1>4, <1>12 DEF AllocData, Preparing
<1>13. CASE WriteData(t)
    BY <1>4, <1>13 DEF WriteData, Preparing
<1> QED BY <1>5, <1>6, <1>7, <1>8, <1>9, <1>10, <1>11, <1>12, <1>13 DEF PrepareStep

LEMMA UpgradeKeeps == ASSUME LocksInv, NEW t \in Threads, Upgrade(t) PROVE Keeps(t)
<1>1. PICK label \in {"lock_target", "commit"} : Acquire(t, {<<cur[t], "unique">>}, label)
    BY DEF Upgrade
<1>2. Alone(t) /\ hold'[t] = {<<cur[t], "unique">>} /\ pc'[t] = label /\ cur' = cur
    BY <1>1, AcquireAlone DEF Upgrade, LocksInv, DomainsOK
<1>3. TakesFree(t)
    BY SMT, <1>2, UpgradeFree DEF Upgrade, TakesFree
<1>4. HoldsAt(t)'
    BY SMT, <1>2 DEF HoldsAt, Outside, Preparing, Erasing, Modes
<1> QED BY <1>2, <1>3, <1>4 DEF Keeps

LEMMA LockTargetKeeps == ASSUME LocksInv, NEW t \in Threads, LockTarget(t) PROVE Keeps(t)
<1>1. hold[t] = {<<cur[t], "unique">>}
    BY DEF LockTarget, At, LocksInv, HoldsAt
<1>2. /\ Alone(t) /\ pc'[t] = "read_target" /\ cur' = cur /\ nxt' = nxt
      /\ hold'[t] = {<<cur[t], "unique">>, <<nxt[t], "upgrade">>}
    BY SMT, <1>1, AcquireAlone DEF LockTarget, LocksInv, DomainsOK
<1>3. TakesFree(t)
    BY SMT, <1>1, <1>2, LockFree DEF LockTarget, TakesFree
<1>4. HoldsAt(t)'
    BY SMT, <1>2 DEF HoldsAt, Outside, Preparing, Erasing, Modes
<1> QED BY <1>2, <1>3, <1>4 DEF Keeps

LEMMA ReadTargetKeeps == ASSUME LocksInv, NEW t \in Threads, ReadTarget(t) PROVE Keeps(t)
<1>1. CASE Fail(t)
    BY <1>1, ReturnKeeps DEF Fail
<1>2. ASSUME NEW value, Continue(t, "unlink", value) PROVE Keeps(t)
    <2>1. hold[t] = {<<cur[t], "unique">>, <<nxt[t], "upgrade">>}
        BY DEF ReadTarget, At, LocksInv, HoldsAt
    <2>2. GoesOn(t, "unlink") /\ nxt'[t] = nxt[t]
        BY <1>2, ContinueGoesOn
    <2>3. HoldsAt(t)'
        BY SMT, <2>1, <2>2 DEF GoesOn, HoldsAt, Outside, Preparing, Erasing, Modes
    <2> QED BY <2>2, <2>3 DEF GoesOn, Keeps
<1> QED BY <1>1, <1>2 DEF ReadTarget

\* The parent is unlocked, after the write that unlinks the target or after its
\* direntries block is free.
LEMMA UnlinkKeeps ==
    ASSUME LocksInv, NEW t \in Threads, Unlink(t) \/ FreeDirentries(t) PROVE Keeps(t)
<1>1. hold[t] = {<<cur[t], "unique">>, <<nxt[t], "upgrade">>}
    BY DEF Unlink, FreeDirentries, At, LocksInv, HoldsAt
<1>2. cur' = cur /\ nxt' = nxt /\ req' = req /\ loc' = loc
    BY DEF Unlink, FreeDirentries, KeepCall
<1>3. CASE Goto(t, "upgrade_target") /\ UnlockParent(t)
    <2>1. Alone(t) /\ pc'[t] = "upgrade_target" /\ hold'[t] = {<<nxt[t], "upgrade">>}
        BY <1>2, <1>3 DEF Goto, UnlockParent, LocksInv, DomainsOK, Alone
    <2>2. TakesFree(t)
        BY <1>1, <2>1 DEF TakesFree
    <2>3. HoldsAt(t)'
        BY SMT, <1>2, <2>1 DEF HoldsAt, Outside, Preparing, Erasing, Modes
    <2> QED BY <2>1, <2>2, <2>3 DEF Keeps
<1>4. CASE Goto(t, "free_direntries") /\ UNCHANGED hold
    <2>1. Alone(t) /\ pc'[t] = "free_direntries" /\ hold' = hold
        BY <1>2, <1>4 DEF Goto, LocksInv, DomainsOK, Alone
    <2>2. HoldsAt(t)'
        BY SMT, <1>1, <1>2, <2>1 DEF HoldsAt, Outside, Preparing, Erasing, Modes
    <2> QED BY <2>1, <2>2 DEF Keeps, TakesFree
<1> QED BY <1>3, <1>4 DEF Unlink, FreeDirentries

LEMMA UpgradeTargetKeeps ==
    ASSUME LocksInv, NEW t \in Threads, UpgradeTarget(t) PROVE Keeps(t)
<1>1. /\ Alone(t) /\ pc'[t] = "erase_lock" /\ nxt' = nxt
      /\ hold'[t] = {<<nxt[t], "unique">>}
    BY AcquireAlone DEF UpgradeTarget, LocksInv, DomainsOK
<1>2. TakesFree(t)
    BY SMT, <1>1, UpgradeFree DEF UpgradeTarget, TakesFree
<1>3. HoldsAt(t)'
    BY SMT, <1>1 DEF HoldsAt, Outside, Preparing, Erasing, Modes
<1> QED BY <1>1, <1>2, <1>3 DEF Keeps

LEMMA EraseLockKeeps == ASSUME LocksInv, NEW t \in Threads, EraseLock(t) PROVE Keeps(t)
<1>1. hold[t] = {<<nxt[t], "unique">>}
    BY DEF EraseLock, At, LocksInv, HoldsAt, Erasing
<1>2. Alone(t) /\ pc'[t] = "free_blocks" /\ hold' = hold /\ nxt' = nxt
    BY DEF EraseLock, Goto, KeepCall, LocksInv, DomainsOK, Alone
<1>3. HoldsAt(t)'
    BY SMT, <1>1, <1>2 DEF HoldsAt, Outside, Preparing, Erasing, Modes
<1> QED BY <1>2, <1>3 DEF Keeps, TakesFree

\* The last steps of the requests.
LEMMA LastStepKeeps ==
    ASSUME LocksInv, NEW t \in Threads, Commit(t) \/ FreeBlocks(t) \/ ReadData(t)
    PROVE  Keeps(t)
BY ReturnKeeps DEF Commit, FreeBlocks, ReadData

\* The threads never refer to all the lock objects of a block.
LEMMA FreshGeneration ==
    ASSUME TypeOK, NEW b
    PROVE  {g \in Generations : ~Referenced(<<b, g>>)} # {}
<1> DEFINE n == Cardinality(Threads)
           C == {cur[t] : t \in Threads}
           N == {nxt[t] : t \in Threads}
           f == [g \in Generations |-> <<b, g>>]
           S == {g \in Generations : ~Referenced(<<b, g>>)}
<1>1. IsFiniteSet(Threads) /\ n \in Nat
    BY ValuesAssumption, FS_CardinalityType
<1> USE <1>1
<1>2. IsFiniteSet(C) /\ Cardinality(C) <= n
    <2>1. cur \in Surjection(Threads, C)
        BY DEF TypeOK, Surjection
    <2> QED BY <2>1, FS_Surjection
<1> USE <1>2
<1>3. IsFiniteSet(N) /\ Cardinality(N) <= n
    <2>1. nxt \in Surjection(Threads, N)
        BY DEF TypeOK, Surjection
    <2> QED BY <2>1, FS_Surjection
<1> USE <1>3
<1>4. Cardinality(Generations) = 2 * n + 1
    <2>1. 0 \in Int /\ 2 * n \in Int /\ ~(0 > 2 * n)
        BY SMT
    <2> HIDE DEF n
    <2>2. Cardinality(0 .. 2 * n) = 2 * n - 0 + 1
        BY <2>1, FS_Interval
    <2> QED BY SMT, <2>2 DEF Generations, n
<1>5. IsFiniteSet(C \cup N) /\ Cardinality(C \cup N) <= 2 * n
    <2>1. /\ IsFiniteSet(C \cup N)
          /\ Cardinality(C \cup N) = Cardinality(C) + Cardinality(N) - Cardinality(C \cap N)
        BY FS_Union
    <2>2. IsFiniteSet(C \cap N)
        BY FS_Subset
    <2>3. Cardinality(C) \in Nat /\ Cardinality(N) \in Nat /\ Cardinality(C \cap N) \in Nat
        BY <2>2, FS_CardinalityType
    <2> HIDE DEF C, N, n
    <2> QED BY SMT, <2>1, <2>3
<1> USE <1>5
<1>6. S # {}
    <2> SUFFICES ASSUME \A g \in Generations : Referenced(<<b, g>>) PROVE FALSE
        OBVIOUS
    <2>1. \A g \in Generations : <<b, g>> \in C \cup N
        BY DEF Referenced
    <2>2. f \in Injection(Generations, C \cup N)
        BY <2>1 DEF Injection, IsInjective
    <2>3. Cardinality(Generations) <= Cardinality(C \cup N)
        BY <2>2, FS_Injection
    <2>4. Cardinality(C \cup N) \in Nat
        BY FS_CardinalityType
    <2> HIDE DEF C, N, n, f
    <2> QED BY SMT, <1>4, <2>3, <2>4
<1> QED BY <1>6

-----------------------------------------------------------------------------
(* The server.                                                             *)

LEMMA LocksInit == Init => LocksInv
<1> SUFFICES ASSUME Init PROVE LocksInv
    OBVIOUS
<1>1. DomainsOK /\ \A t \in Threads : pc[t] = "idle" /\ hold[t] = {}
    BY DEF Init, DomainsOK
<1> QED BY <1>1 DEF LocksInv, Compatible, HoldsAt, Preparing, Erasing

LEMMA LocksCrash == Crash => LocksInv'
<1> SUFFICES ASSUME Crash PROVE LocksInv'
    OBVIOUS
<1>1. DomainsOK' /\ \A t \in Threads : pc'[t] = "idle" /\ hold'[t] = {}
    BY DEF Crash, DomainsOK
<1> QED BY <1>1 DEF LocksInv, Compatible, HoldsAt, Preparing, Erasing

LEMMA StepKeeps == ASSUME LocksInv, NEW t \in Threads, Step(t) PROVE Keeps(t)
BY CheckFreeKeeps, FetchKeeps, LockKeeps, ReadInodeKeeps, ScanKeeps, UpgradeKeeps,
   PrepareKeeps, LockTargetKeeps, ReadTargetKeeps, UnlinkKeeps, UpgradeTargetKeeps,
   EraseLockKeeps, LastStepKeeps, ReplyKeeps
   DEF Step, PrepareStep

LEMMA LocksStep == LocksInv /\ [Next \/ Crash]_vars => LocksInv'
<1> SUFFICES ASSUME LocksInv, [Next \/ Crash]_vars PROVE LocksInv'
    OBVIOUS
<1>1. ASSUME NEW t \in Threads, Step(t) PROVE Keeps(t)
    BY <1>1, StepKeeps
<1>2. ASSUME NEW t \in Threads, NEW r \in Requests, Receive(t, r) PROVE Keeps(t)
    BY <1>2, ReceiveKeeps
<1>3. CASE UNCHANGED vars
    BY SMT, <1>3 DEF vars, LocksInv, DomainsOK, Compatible, HoldsAt, WalkMode, AtEnd
<1>4. CASE Next
    BY <1>1, <1>2, <1>3, <1>4, KeepsLemma DEF Next, Finished
<1> QED BY <1>3, <1>4, LocksCrash

LEMMA InvExcludes == LocksInv => LocksExclude
<1> SUFFICES ASSUME LocksInv, NEW t \in Threads, NEW u \in Threads, t # u, NEW h \in hold[u]
             PROVE  /\ pc[t] \in Preparing /\ h[1] = cur[t] => h[2] = "shared"
                    /\ pc[t] \in Changing => h[1] # cur[t]
                    /\ pc[t] \in Erasing => h[1] # nxt[t]
    BY DEF LocksExclude
<1>1. ASSUME NEW g \in hold[t], g[1] = h[1]
      PROVE  g[2] # "unique" /\ (g[2] = "upgrade" => h[2] = "shared")
    BY <1>1 DEF LocksInv, Compatible
<1>2. CASE pc[t] \in Preparing
    <2>1. <<cur[t], "upgrade">> \in hold[t]
        BY <1>2 DEF LocksInv, HoldsAt
    <2> QED BY <1>1, <1>2, <2>1 DEF Preparing, Changing, Erasing
<1>3. CASE pc[t] \in Changing
    <2>1. <<cur[t], "unique">> \in hold[t]
        BY <1>3 DEF LocksInv, HoldsAt, Changing
    <2> QED BY <1>1, <1>3, <2>1 DEF Preparing, Changing, Erasing
<1>4. CASE pc[t] \in Erasing
    <2>1. <<nxt[t], "unique">> \in hold[t]
        BY <1>4 DEF LocksInv, HoldsAt
    <2> QED BY <1>1, <1>4, <2>1 DEF Preparing, Changing, Erasing
<1> QED BY <1>2, <1>3, <1>4

\* Whatever the requests, the disk and the crashes, the lock under which
\* execute_request writes or frees blocks is held by nobody else, and from the read of
\* what it is going to change nobody else may prepare to change it.
THEOREM LocksSafe == CrashSpec => []LocksExclude
<1>1. CrashSpec => []LocksInv
    BY LocksInit, LocksStep, PTL DEF CrashSpec
<1> QED BY <1>1, InvExcludes, PTL

\* The same without crashes.
THEOREM LocksSafeUp == Spec => []LocksExclude
<1>1. Spec => CrashSpec
    <2>1. [Next]_vars => [Next \/ Crash]_vars
        OBVIOUS
    <2> QED BY <2>1, PTL DEF Spec, CrashSpec
<1> QED BY <1>1, LocksSafe, PTL

=============================================================================
