---------------------- MODULE FileSystemThread_proofs ----------------------
(***************************************************************************)
(* What a step of a thread makes of the thread's own facts, and of the      *)
(* types.                                                                  *)
(***************************************************************************)
EXTENDS FileSystemInvariant, TLAPS

\* The prover of a leaf that names none.
USE ZenonT(30)

(* Types.                                                                  *)

LEMMA ExpireType ==
    ASSUME NEW locks, \A b \in Blocks : locks[b] \in Generations \cup {None}, data_locks' = Expire(locks)
    PROVE  data_locks' \in [Blocks -> Generations \cup {None}]
BY DEF Expire

LEMMA ContinueType ==
    ASSUME TypeOK, NEW t \in Threads, NEW label \in Labels, NEW value \in LocType,
           Continue(t, label, value),
           disk' \in [Blocks -> Contents], free_disk_blocks' \in Seq(Blocks \ {0})
    PROVE  TypeOK'
BY DEF TypeOK, Continue, Goto, SetLoc, KeepLocks, KeepCall

LEMMA FreshType == FreshLoc \in LocType
<1>1. 0 \in Blocks /\ <<>> \in Seq(Blocks \ {0})
    BY SMT, SizesAssumption DEF Blocks
<1> QED BY <1>1 DEF FreshLoc, LocType

LEMMA ReturnType ==
    ASSUME TypeOK, NEW t \in Threads, NEW result \in Data \cup {None, "ok", "error"}, Return(t, result),
           disk' \in [Blocks -> Contents], free_disk_blocks' \in Seq(Blocks \ {0})
    PROVE  TypeOK'
<1>1. data_locks' \in [Blocks -> Generations \cup {None}]
    BY ExpireType DEF TypeOK, Return
<1>2. pc' \in [Threads -> Labels] /\ resp' \in [Threads -> Data \cup {None, "ok", "error"}]
    BY DEF TypeOK, Return, Goto, Labels
<1>3. /\ cur' \in [Threads -> LockObjects \cup {None}] /\ nxt' \in [Threads -> LockObjects \cup {None}]
      /\ hold' \in [Threads -> SUBSET (LockObjects \X Modes)]
    BY DEF TypeOK, Return
<1>4. loc' \in [Threads -> LocType]
    BY FreshType DEF TypeOK, Return, SetLoc
<1> QED BY <1>1, <1>2, <1>3, <1>4 DEF TypeOK, Return

LEMMA TraversedType ==
    ASSUME TypeOK, NEW t \in Threads, NEW label \in Labels, NEW value \in LocType,
           Traversed(t, label, value), disk' = disk, free_disk_blocks' = free_disk_blocks
    PROVE  TypeOK'
<1>1. data_locks' \in [Blocks -> Generations \cup {None}]
    BY ExpireType DEF TypeOK, Traversed
<1>2. nxt' \in [Threads -> LockObjects \cup {None}]
    BY DEF TypeOK, Traversed
<1>3. pc' \in [Threads -> Labels] /\ loc' \in [Threads -> LocType]
    BY DEF TypeOK, Traversed, Goto, SetLoc
<1> QED BY <1>1, <1>2, <1>3 DEF TypeOK, Traversed, KeepCall

LEMMA AcquireType ==
    ASSUME TypeOK, NEW t \in Threads, NEW locks \in SUBSET (LockObjects \X Modes), NEW label \in Labels,
           Acquire(t, locks, label), cur' \in [Threads -> LockObjects \cup {None}],
           nxt' \in [Threads -> LockObjects \cup {None}]
    PROVE  TypeOK'
BY DEF TypeOK, Acquire, Goto, KeepCall

LEMMA FetchType ==
    ASSUME TypeOK, NEW t \in Threads, NEW b \in Blocks, lock_ptr(b) \in LockObjects, NEW label \in Labels,
           Fetch(t, b, label)
    PROVE  TypeOK'
<1> DEFINE locks == [data_locks EXCEPT ![b] = lock_ptr(b)[2]]
<1>1. lock_ptr(b)[2] \in Generations /\ nxt' = [nxt EXCEPT ![t] = lock_ptr(b)] /\ data_locks' = Expire(locks)
    BY DEF LockObjects, Fetch, get_lock_ptr
<1>2. \A c \in Blocks : locks[c] \in Generations \cup {None}
    BY <1>1 DEF TypeOK
<1> HIDE DEF locks
<1>3. data_locks' \in [Blocks -> Generations \cup {None}]
    BY <1>1, <1>2, ExpireType
<1>4. nxt' \in [Threads -> LockObjects \cup {None}]
    BY <1>1 DEF TypeOK
<1>5. pc' \in [Threads -> Labels]
    BY DEF TypeOK, Fetch, Goto
<1> QED BY <1>3, <1>4, <1>5 DEF TypeOK, Fetch, KeepCall, get_lock_ptr

-----------------------------------------------------------------------------
(* Where the blocks are.                                                   *)

\* What taking the first block of a list, and putting lists together, leaves.
LEMMA ListTail ==
    ASSUME NEW A, NEW f \in Seq(A), NEW S, Lists(f, S), f # <<>>
    PROVE  Head(f) \in S /\ Lists(Tail(f), S \ {Head(f)})
<1>1. /\ \A i \in 1 .. Len(f) : f[i] \in S
      /\ Len(f) \in Nat /\ Len(f) # 0
      /\ \A x \in S : \E i \in 1 .. Len(f) : f[i] = x
      /\ \A i, j \in 1 .. Len(f) : f[i] = f[j] => i = j
    BY SMT DEF Lists
<1>2. /\ Head(f) = f[1] /\ Head(f) \in S /\ Len(Tail(f)) = Len(f) - 1
      /\ \A i \in 1 .. Len(f) - 1 : Tail(f)[i] = f[i + 1]
    BY SMT, <1>1
<1>3. \A i \in 1 .. Len(f) - 1 : i + 1 \in 1 .. Len(f) /\ i + 1 # 1 /\ 1 \in 1 .. Len(f)
    BY SMT, <1>1
<1>4. \A i \in 1 .. Len(Tail(f)) : Tail(f)[i] \in S \ {Head(f)}
    BY SMT, <1>1, <1>2, <1>3
<1>6. ASSUME NEW x \in S \ {Head(f)} PROVE \E i \in 1 .. Len(Tail(f)) : Tail(f)[i] = x
    <2>1. PICK i \in 1 .. Len(f) : f[i] = x
        BY <1>1
    <2>2. i # 1
        BY <1>2, <2>1
    <2>3. i - 1 \in 1 .. Len(f) - 1 /\ (i - 1) + 1 = i
        BY SMT, <1>1, <2>1, <2>2
    <2>4. Tail(f)[i - 1] = x
        BY <1>2, <2>1, <2>3
    <2> QED BY <1>2, <2>3, <2>4
<1>7. ASSUME NEW i \in 1 .. Len(Tail(f)), NEW j \in 1 .. Len(Tail(f)), Tail(f)[i] = Tail(f)[j] PROVE i = j
    <2>1. i + 1 = j + 1
        BY SMT, <1>1, <1>2, <1>3, <1>7
    <2> QED BY SMT, <1>1, <1>2, <2>1
<1> QED BY <1>2, <1>4, <1>6, <1>7 DEF Lists

LEMMA ListConcat ==
    ASSUME NEW A, NEW f \in Seq(A), NEW g \in Seq(A), NEW S, NEW T,
           Lists(f, S), Lists(g, T), S \cap T = {}
    PROVE  Lists(f \o g, S \cup T)
<1>1. /\ Len(f) \in Nat /\ \A i \in 1 .. Len(f) : f[i] \in S
      /\ \A x \in S : \E i \in 1 .. Len(f) : f[i] = x
      /\ \A i, j \in 1 .. Len(f) : f[i] = f[j] => i = j
    BY SMT DEF Lists
<1>2. /\ Len(g) \in Nat /\ \A i \in 1 .. Len(g) : g[i] \in T
      /\ \A x \in T : \E i \in 1 .. Len(g) : g[i] = x
      /\ \A i, j \in 1 .. Len(g) : g[i] = g[j] => i = j
    BY SMT DEF Lists
<1> DEFINE h == f \o g
<1>3. /\ Len(h) = Len(f) + Len(g)
      /\ \A i \in 1 .. Len(f) : h[i] = f[i] /\ f[i] \in S
      /\ \A i \in 1 .. Len(g) : h[Len(f) + i] = g[i] /\ g[i] \in T
    BY SMT, <1>1, <1>2
<1> HIDE DEF h
<1>4. /\ \A i \in 1 .. Len(f) : i \in 1 .. Len(h)
      /\ \A i \in 1 .. Len(g) : Len(f) + i \in 1 .. Len(h)
      /\ \A i \in 1 .. Len(h) : i \in 1 .. Len(f) \/ \E k \in 1 .. Len(g) : i = Len(f) + k
    <2>1. ASSUME NEW i \in 1 .. Len(h), i \notin 1 .. Len(f)
          PROVE  \E k \in 1 .. Len(g) : i = Len(f) + k
        <3> DEFINE k == i - Len(f)
        <3>1. k \in 1 .. Len(g) /\ i = Len(f) + k
            BY SMT, <1>1, <1>2, <1>3, <2>1
        <3> HIDE DEF k
        <3> QED BY <3>1
    <2>2. /\ \A i \in 1 .. Len(f) : i \in 1 .. Len(h)
          /\ \A i \in 1 .. Len(g) : Len(f) + i \in 1 .. Len(h)
        BY SMT, <1>1, <1>2, <1>3
    <2> QED BY <2>1, <2>2
<1>5. ASSUME NEW x \in S \cup T PROVE \E i \in 1 .. Len(h) : h[i] = x
    <2>1. CASE x \in S
        <3>1. PICK i \in 1 .. Len(f) : f[i] = x
            BY <1>1, <2>1
        <3> QED BY <1>3, <1>4, <3>1
    <2>2. CASE x \in T
        <3>1. PICK i \in 1 .. Len(g) : g[i] = x
            BY <1>2, <2>2
        <3> DEFINE m == Len(f) + i
        <3>2. h[m] = x /\ m \in 1 .. Len(h)
            BY <1>3, <1>4, <3>1
        <3> HIDE DEF m
        <3> QED BY <3>2
    <2> QED BY <2>1, <2>2
<1>6. ASSUME NEW i \in 1 .. Len(h), NEW j \in 1 .. Len(h), h[i] = h[j] PROVE i = j
    <2>1. CASE i \in 1 .. Len(f) /\ j \in 1 .. Len(f)
        BY <1>1, <1>3, <1>6, <2>1
    <2>2. ASSUME NEW k \in 1 .. Len(g), NEW m \in 1 .. Len(g), i = Len(f) + k, j = Len(f) + m
          PROVE  i = j
        <3>1. g[k] = g[m]
            BY <1>3, <1>6, <2>2
        <3> QED BY <1>2, <2>2, <3>1
    <2>3. ASSUME NEW p \in 1 .. Len(f), NEW k \in 1 .. Len(g) PROVE h[p] # h[Len(f) + k]
        BY <1>3, <2>3
    <2> QED BY <1>4, <1>6, <2>1, <2>2, <2>3
<1>7. \A i \in 1 .. Len(h) : h[i] \in S \cup T
    BY <1>3, <1>4
<1> QED BY <1>5, <1>6, <1>7 DEF Lists, h

\* What the others own stays theirs.
LEMMA OthersOwn ==
    ASSUME NEW t \in Threads, Alone(t) PROVE \A u \in Threads \ {t} : OwnBlocks(u)' = OwnBlocks(u)
BY DEF Alone, OwnBlocks, At

\* Blocks move between the tree, the free list and thread t.
LEMMA BlocksMove ==
    ASSUME Accounted, NEW t \in Threads, Alone(t),
           Lists(free_disk_blocks', FreeBlocksOf(free_disk_blocks')),
           \A b : \/ b \in blocks_used(disk') \/ b \in FreeBlocksOf(free_disk_blocks')
                  \/ b \in OwnBlocks(t)'
                  <=> \/ b \in blocks_used(disk) \/ b \in FreeBlocksOf(free_disk_blocks)
                      \/ b \in OwnBlocks(t),
           \A b : /\ b \in blocks_used(disk') => b \notin FreeBlocksOf(free_disk_blocks')
                  /\ b \in OwnBlocks(t)' => /\ b \notin blocks_used(disk')
                                            /\ b \notin FreeBlocksOf(free_disk_blocks')
    PROVE  Accounted'
<1>1. \A u \in Threads \ {t} : OwnBlocks(u)' = OwnBlocks(u)
    BY OthersOwn
<1>2. \A i, j \in 1 .. Len(free_disk_blocks') : free_disk_blocks'[i] = free_disk_blocks'[j] => i = j
    BY DEF Lists
<1>3. ASSUME NEW u \in Threads \ {t}, NEW b \in OwnBlocks(u)
      PROVE  b \notin blocks_used(disk') /\ b \notin FreeBlocksOf(free_disk_blocks') /\ b \notin OwnBlocks(t)'
    BY DEF Accounted
<1>4. ASSUME NEW b \in 1 .. FS_DISKSIZE - 1
      PROVE  \/ b \in blocks_used(disk') \/ b \in FreeBlocksOf(free_disk_blocks')
             \/ \E u \in Threads : b \in OwnBlocks(u)'
    <2>1. CASE b \in blocks_used(disk) \/ b \in FreeBlocksOf(free_disk_blocks) \/ b \in OwnBlocks(t)
        BY <2>1
    <2>2. CASE \E u \in Threads \ {t} : b \in OwnBlocks(u)
        BY <1>1, <2>2
    <2> QED BY <2>1, <2>2 DEF Accounted
<1>5. blocks_used(disk') \cap FreeBlocksOf(free_disk_blocks') = {}
    OBVIOUS
<1>6. ASSUME NEW u \in Threads
      PROVE  /\ OwnBlocks(u)' \cap blocks_used(disk') = {}
             /\ OwnBlocks(u)' \cap FreeBlocksOf(free_disk_blocks') = {}
             /\ \A v \in Threads : v # u => OwnBlocks(u)' \cap OwnBlocks(v)' = {}
    <2>1. CASE u = t
        BY <1>1, <1>3, <2>1
    <2>2. CASE u # t
        <3>1. \A v \in Threads \ {t} : v # u => OwnBlocks(u)' \cap OwnBlocks(v)' = {}
            BY <1>1, <2>2 DEF Accounted
        <3>2. OwnBlocks(u)' \cap OwnBlocks(t)' = {}
            BY <1>1, <1>3, <2>2
        <3> QED BY <1>1, <1>3, <2>2, <3>1, <3>2
    <2> QED BY <2>1, <2>2
<1> QED BY <1>2, <1>4, <1>5, <1>6 DEF Accounted

LEMMA FreeLists ==
    ASSUME Inv
    PROVE  /\ free_disk_blocks \in Seq(Blocks \ {0})
           /\ Lists(free_disk_blocks, FreeBlocksOf(free_disk_blocks))
BY DEF Inv, TypeOK, Accounted, Lists, FreeBlocksOf

LEMMA BlocksStay ==
    ASSUME Inv, NEW t \in Threads, Alone(t), blocks_used(disk') = blocks_used(disk),
           free_disk_blocks' = free_disk_blocks, OwnBlocks(t)' = OwnBlocks(t)
    PROVE  Accounted'
<1>1. Accounted /\ Lists(free_disk_blocks, FreeBlocksOf(free_disk_blocks))
    BY FreeLists DEF Inv
<1> USE <1>1
<1>2. \A b : /\ b \in blocks_used(disk) => b \notin FreeBlocksOf(free_disk_blocks)
             /\ b \in OwnBlocks(t) => b \notin blocks_used(disk) /\ b \notin FreeBlocksOf(free_disk_blocks)
    BY DEF Accounted
<1> QED BY <1>2, BlocksMove

\* A step that neither writes to the disk nor moves blocks.
LEMMA StayQuiet ==
    ASSUME Inv, NEW t \in Threads, Alone(t), TypeOK', ThreadOK(t)', disk' = disk,
           free_disk_blocks' = free_disk_blocks, OwnBlocks(t)' = OwnBlocks(t), PointersKept(t, data_locks'),
           pc[t] \notin {"free_direntries", "upgrade_target"}
    PROVE  Quiet(t)
BY BlocksStay DEF Quiet

-----------------------------------------------------------------------------
(* Outside the tree.                                                       *)

LEMMA OutsideOK ==
    ASSUME NEW t \in Threads, pc'[t] \in Outside, CallOK(t)',
           loc'[t] = FreshLoc, cur'[t] = None, nxt'[t] = None
    PROVE  ThreadOK(t)'
<1>1. /\ ~Here(t)' /\ ~Creates(t)' /\ ~Writes(t)' /\ ~Found(t)' /\ ~Fetched(t)'
      /\ pc'[t] \notin Inside \cup Preparing \cup Changing \cup Unlinked \cup Walking
    BY DEF Here, Creates, Writes, Found, Fetched, Inside, Preparing, Changing, Unlinked, Walking,
           CreateLabels, WriteLabels, Outside
<1>2. FrameOK(t)' /\ PointersOK(t)'
    BY SMT, <1>1 DEF FrameOK, PointersOK, FreshLoc
<1>3. InsideOK(t)' /\ CreateOK(t)' /\ WriteOK(t)'
    BY <1>1 DEF InsideOK, CreateOK, WriteOK, Inside
<1>4. WalkOK(t)' /\ DeleteOK(t)'
    BY <1>1 DEF WalkOK, DeleteOK, Walking, Outside, Unlinked
<1> QED BY <1>2, <1>3, <1>4 DEF ThreadOK

LEMMA ReturnOK ==
    ASSUME TypeOK, NEW t \in Threads, ThreadOK(t), NEW result, Return(t, result), pc[t] # "idle"
    PROVE  ThreadOK(t)'
<1>1. /\ pc'[t] = "reply" /\ loc'[t] = FreshLoc /\ cur'[t] = None /\ nxt'[t] = None /\ req'[t] = req[t]
    BY DEF TypeOK, Return, Goto, SetLoc
<1>2. CallOK(t)'
    BY <1>1 DEF ThreadOK, CallOK, CreateLabels, DeleteLabels, WriteLabels, Unlinked
<1> QED BY <1>1, <1>2, OutsideOK DEF Outside

\* A thread outside the tree goes on to another label outside it.
LEMMA OutsideQuiet ==
    ASSUME Inv, NEW t \in Threads, Alone(t), pc[t] \in Outside, pc'[t] \in Outside, CallOK(t)', TypeOK',
           UNCHANGED <<disk, free_disk_blocks, loc, data_locks, cur, nxt>>
    PROVE  Quiet(t)
<1>1. loc[t] = FreshLoc /\ cur[t] = None /\ nxt[t] = None
    BY DEF Inv, ThreadOK, FrameOK
<1>2. ThreadOK(t)'
    BY <1>1, OutsideOK
<1>3. OwnBlocks(t)' = OwnBlocks(t)
    BY DEF OwnBlocks, At, Outside
<1> QED BY <1>2, <1>3, StayQuiet DEF PointersKept, Outside

LEMMA ReceiveQuiet ==
    ASSUME Inv, NEW t \in Threads, Alone(t), NEW r \in Requests, Receive(t, r) PROVE Quiet(t)
<1>1. r \in RequestType
    BY RequestsAssumption
<1>2. req' = [req EXCEPT ![t] = r] /\ issued' = issued + 1 /\ issued < MaxRequests /\ pc[t] = "idle"
    BY DEF Receive, At
<1>3. req'[t] = r
    BY <1>2 DEF Inv, TypeOK
<1>4. /\ pc'[t] \in Outside \ {"idle"} /\ resp' \in [Threads -> Data \cup {None, "ok", "error"}]
      /\ pc' \in [Threads -> Labels] /\ (OutOfRange(r) => pc'[t] = "reply")
      /\ pc'[t] = "check_free" => r.op \in {"FS_CREATE", "FS_DELETE"}
    <2>1. CASE OutOfRange(r)
        BY <2>1 DEF Receive, Goto, Inv, TypeOK, Outside, Labels
    <2>2. CASE ~OutOfRange(r)
        BY <2>2 DEF Receive, Goto, Inv, TypeOK, Outside, Labels
    <2> QED BY <2>1, <2>2
<1>5. CallOK(t)'
    BY <1>1, <1>3, <1>4 DEF CallOK, Op, CreateLabels, DeleteLabels, WriteLabels, Unlinked, Outside
<1>6. issued' \in 0 .. MaxRequests
    <2>1. issued \in 0 .. MaxRequests
        BY DEF Inv, TypeOK
    <2> QED BY SMT, <1>2, <2>1, BoundAssumption
<1>7. req' \in [Threads -> RequestType \cup {None}]
    <2>1. req \in [Threads -> RequestType \cup {None}] /\ r \in RequestType \cup {None}
        BY <1>1 DEF Inv, TypeOK
    <2> QED BY <1>2, <2>1
<1>8. TypeOK'
    BY <1>4, <1>6, <1>7 DEF Inv, TypeOK, Receive, KeepLocks
<1> QED BY <1>2, <1>4, <1>5, <1>8, OutsideQuiet DEF Receive, KeepLocks, Outside

LEMMA ReplyQuiet ==
    ASSUME Inv, NEW t \in Threads, Alone(t), Reply(t) PROVE Quiet(t)
<1>1. pc[t] = "reply" /\ pc'[t] = "idle"
    BY DEF Reply, At, Goto, Inv, TypeOK
<1>2. CallOK(t)'
    BY <1>1 DEF CallOK, CreateLabels, DeleteLabels, WriteLabels, Unlinked
<1>3. TypeOK'
    BY DEF Inv, TypeOK, Reply, Goto, KeepLocks, Labels
<1> QED BY <1>1, <1>2, <1>3, OutsideQuiet DEF Reply, KeepLocks, Outside

-----------------------------------------------------------------------------
(* The pointers to the locks.                                              *)

LEMMA NoneNoGeneration == None \notin Generations
<1>1. Generations \subseteq Nat
    BY SMT DEF Generations
<1> QED BY <1>1, ValuesAssumption

\* A pointer in data_locks that is still referred to does not expire.
LEMMA ExpireStays ==
    ASSUME NEW locks, data_locks' = Expire(locks), NEW l \in LockObjects, locks[l[1]] = l[2],
           NEW u \in Threads, l \in {cur'[u], nxt'[u]}
    PROVE  data_locks'[l[1]] = l[2]
<1>1. l[1] \in Blocks /\ l[2] # None /\ l = <<l[1], l[2]>>
    BY SMT, NoneNoGeneration DEF LockObjects
<1>2. <<l[1], locks[l[1]]>> \in {cur'[u], nxt'[u]}
    BY <1>1
<1> QED BY <1>1, <1>2 DEF Expire

LEMMA ExpireKeeps ==
    ASSUME NEW t \in Threads, Alone(t), NEW locks, PointersKept(t, locks), data_locks' = Expire(locks)
    PROVE  PointersKept(t, data_locks')
<1> SUFFICES ASSUME NEW u \in Threads \ {t}, NEW l \in {cur[u], nxt[u]},
                    l \in LockObjects, data_locks[l[1]] = l[2]
             PROVE  data_locks'[l[1]] = l[2]
    BY DEF PointersKept
<1>1. locks[l[1]] = l[2] /\ l \in {cur'[u], nxt'[u]}
    BY DEF PointersKept, Alone
<1> QED BY <1>1, ExpireStays

LEMMA ReturnPointers ==
    ASSUME NEW t \in Threads, Alone(t), NEW result, Return(t, result)
    PROVE  PointersKept(t, data_locks')
BY ExpireKeeps DEF Return, PointersKept

\* A request that fails before it owns a block.
LEMMA FailQuiet ==
    ASSUME Inv, NEW t \in Threads, Alone(t), Fail(t), disk' = disk, free_disk_blocks' = free_disk_blocks,
           pc[t] \notin {"idle"} \cup Unlinked, loc[t].new = <<>>
    PROVE  Quiet(t)
<1>1. Return(t, "error") /\ TypeOK /\ ThreadOK(t)
    BY DEF Fail, Inv
<1>2. TypeOK' /\ ThreadOK(t)' /\ PointersKept(t, data_locks')
    BY <1>1, ReturnType, ReturnOK, ReturnPointers DEF TypeOK
<1>3. pc'[t] = "reply" /\ loc'[t] = FreshLoc
    BY <1>1 DEF TypeOK, Return, Goto, SetLoc
<1>4. OwnBlocks(t)' = {} /\ OwnBlocks(t) = {}
    BY SMT, <1>3 DEF OwnBlocks, At, Unlinked, Range, FreshLoc
<1> QED BY <1>2, <1>4, StayQuiet DEF Unlinked

\* A step with Continue that keeps what the thread owns.
LEMMA ContinueQuiet ==
    ASSUME Inv, NEW t \in Threads, Alone(t), NEW label \in Labels, NEW value \in LocType,
           Continue(t, label, value), disk' = disk, free_disk_blocks' = free_disk_blocks,
           pc[t] \notin Unlinked, label \notin Unlinked, value.new = loc[t].new, ThreadOK(t)'
    PROVE  Quiet(t)
<1>1. TypeOK'
    BY ContinueType DEF Inv, TypeOK
<1>2. pc'[t] = label /\ loc'[t] = value /\ data_locks' = data_locks
    BY DEF Inv, TypeOK, Continue, Goto, SetLoc, KeepLocks
<1>3. OwnBlocks(t)' = OwnBlocks(t)
    BY <1>2 DEF OwnBlocks, At, Unlinked
<1> QED BY <1>1, <1>2, <1>3, StayQuiet DEF PointersKept, Unlinked

LEMMA CheckFreeQuiet ==
    ASSUME Inv, NEW t \in Threads, Alone(t), CheckFree(t) PROVE Quiet(t)
<1>1. pc[t] = "check_free" /\ disk' = disk /\ free_disk_blocks' = free_disk_blocks
    BY DEF CheckFree, At
<1>2. loc[t] = FreshLoc
    BY <1>1 DEF Inv, ThreadOK, FrameOK, Outside
<1>3. CASE Fail(t)
    BY SMT, <1>1, <1>2, <1>3, FailQuiet DEF Unlinked, FreshLoc
<1>4. CASE Continue(t, "get_root", loc[t])
    <2>1. /\ pc'[t] = "get_root" /\ req' = req
          /\ UNCHANGED <<disk, free_disk_blocks, loc, data_locks, cur, nxt>>
        BY <1>1, <1>4 DEF Inv, TypeOK, Continue, Goto, SetLoc, KeepLocks, KeepCall
    <2>2. CallOK(t)'
        BY <1>1, <2>1 DEF Inv, ThreadOK, CallOK, CreateLabels, DeleteLabels, WriteLabels, Unlinked
    <2>3. "get_root" \in Labels /\ loc[t] \in LocType
        BY DEF Inv, TypeOK, Labels
    <2>4. TypeOK'
        BY <1>1, <1>4, <2>3, ContinueType DEF Inv, TypeOK
    <2> QED BY <1>1, <2>1, <2>2, <2>4, OutsideQuiet DEF Outside
<1> QED BY <1>3, <1>4 DEF CheckFree

-----------------------------------------------------------------------------
(* Steps that get a pointer to a lock.                                     *)

LEMMA FetchKept ==
    ASSUME Inv, Facts, NEW t \in Threads, NEW b \in Blocks, NEW label \in Labels, Fetch(t, b, label), Alone(t)
    PROVE  /\ nxt'[t] \in LockObjects /\ nxt'[t][1] = b /\ data_locks'[b] = nxt'[t][2]
           /\ PointersKept(t, data_locks') /\ TypeOK'
           /\ cur[t] \in LockObjects /\ data_locks[cur[t][1]] = cur[t][2]
                => data_locks'[cur[t][1]] = cur[t][2]
           /\ pc'[t] = label /\ loc' = loc /\ cur' = cur /\ req' = req /\ hold' = hold
           /\ disk' = disk /\ free_disk_blocks' = free_disk_blocks
<1> DEFINE locks == [data_locks EXCEPT ![b] = lock_ptr(b)[2]]
<1>1. /\ nxt' = [nxt EXCEPT ![t] = lock_ptr(b)] /\ cur' = cur /\ data_locks' = Expire(locks)
      /\ pc' = [pc EXCEPT ![t] = label] /\ loc' = loc /\ req' = req /\ hold' = hold
      /\ disk' = disk /\ free_disk_blocks' = free_disk_blocks
    BY DEF Fetch, get_lock_ptr, Goto, KeepCall
<1>2. data_locks \in [Blocks -> Generations \cup {None}] /\ nxt'[t] = lock_ptr(b) /\ pc'[t] = label
    BY <1>1 DEF Inv, TypeOK
<1>3. lock_ptr(b) \in LockObjects /\ lock_ptr(b)[1] = b /\ data_locks[b] \in {None, lock_ptr(b)[2]}
    BY DEF Facts, LockFacts
<1>4. locks[b] = lock_ptr(b)[2] /\ \A c \in Blocks : c # b => locks[c] = data_locks[c]
    BY <1>2
<1> HIDE DEF locks
<1>5. \A l \in LockObjects : data_locks[l[1]] = l[2] => locks[l[1]] = l[2]
    <2> SUFFICES ASSUME NEW l \in LockObjects, data_locks[l[1]] = l[2] PROVE locks[l[1]] = l[2]
        OBVIOUS
    <2>1. l[1] \in Blocks /\ l[2] # None
        BY NoneNoGeneration DEF LockObjects
    <2> QED BY <1>3, <1>4, <2>1
<1>6. PointersKept(t, locks)
    BY <1>5 DEF PointersKept
<1>7. PointersKept(t, data_locks')
    BY <1>1, <1>6, ExpireKeeps
<1>8. data_locks'[b] = nxt'[t][2]
    BY SMT, <1>1, <1>2, <1>3, <1>4, ExpireStays
<1>9. cur[t] \in LockObjects /\ data_locks[cur[t][1]] = cur[t][2] => data_locks'[cur[t][1]] = cur[t][2]
    BY <1>1, <1>5, ExpireStays
<1>10. TypeOK'
    BY <1>3, FetchType DEF Inv
<1> QED BY <1>1, <1>2, <1>3, <1>7, <1>8, <1>9, <1>10

LEMMA FetchQuiet ==
    ASSUME Inv, Facts, NEW t \in Threads, NEW b \in Blocks, NEW label \in Labels, Fetch(t, b, label), Alone(t),
           pc[t] \notin Unlinked, label \notin Unlinked, ThreadOK(t)'
    PROVE  Quiet(t)
<1>1. /\ PointersKept(t, data_locks') /\ TypeOK' /\ pc'[t] = label /\ loc' = loc
      /\ disk' = disk /\ free_disk_blocks' = free_disk_blocks
    BY FetchKept
<1>2. OwnBlocks(t)' = OwnBlocks(t)
    BY <1>1 DEF OwnBlocks, At, Unlinked
<1> QED BY <1>1, <1>2, StayQuiet DEF Unlinked

LEMMA RequestFields ==
    ASSUME NEW r \in RequestType
    PROVE  /\ r.op \in {"FS_CREATE", "FS_DELETE", "FS_READBLOCK", "FS_WRITEBLOCK"} /\ r.username \in Users
           /\ r.op = "FS_CREATE" => r.type \in {"f", "d"}
           /\ r.op \in {"FS_READBLOCK", "FS_WRITEBLOCK"} => r.block \in Nat
           /\ r.op = "FS_WRITEBLOCK" => r.data \in Data
BY DEF RequestType

LEMMA PathLength ==
    ASSUME NEW r \in RequestType, ~OutOfRange(r)
    PROVE  /\ Len(TargetPath(r)) \in Nat /\ Len(TargetPath(r)) <= Len(r.path)
           /\ r.path \in Paths /\ Filename(r) \in Names
<1>1. r.path \in Paths /\ r.path # <<>>
    BY DEF RequestType, OutOfRange
<1> HIDE DEF RequestType
<1>2. Len(r.path) \in Nat \ {0} /\ r.path[Len(r.path)] \in Names
    BY SMT, <1>1 DEF Paths
<1>3. Len(SubSeq(r.path, 1, Len(r.path) - 1)) = Len(r.path) - 1
    BY SMT, <1>1, <1>2 DEF Paths
<1> QED BY SMT, <1>1, <1>2, <1>3 DEF TargetPath, Filename

LEMMA AliveStays ==
    ASSUME NEW t \in Threads, Alone(t), ReachableInodes(disk) \subseteq ReachableInodes(disk'),
           pc[t] \notin {"free_direntries", "upgrade_target"}
    PROVE  \A b : Alive(b) => Alive(b)'
<1> SUFFICES ASSUME NEW b, Alive(b) PROVE Alive(b)'
    OBVIOUS
<1>1. CASE b \in ReachableInodes(disk)
    BY <1>1 DEF Alive
<1>2. CASE Doomed(b)
    BY <1>2 DEF Alive, Doomed, Alone
<1> QED BY <1>1, <1>2 DEF Alive

LEMMA GetRootQuiet ==
    ASSUME Inv, Facts, NEW t \in Threads, Alone(t), GetRoot(t) PROVE Quiet(t)
<1>1. pc[t] = "get_root" /\ Fetch(t, 0, "lock") /\ 0 \in Blocks /\ "lock" \in Labels /\ ThreadOK(t)
    BY SMT, SizesAssumption DEF GetRoot, At, Blocks, Labels, Inv
<1>2. /\ nxt'[t] \in LockObjects /\ nxt'[t][1] = 0 /\ data_locks'[0] = nxt'[t][2]
      /\ pc'[t] = "lock" /\ loc' = loc /\ cur' = cur /\ req' = req /\ hold' = hold
    BY <1>1, FetchKept
<1>3. loc[t] = FreshLoc /\ cur[t] = None /\ hold[t] = {}
    BY <1>1 DEF Inv, ThreadOK, FrameOK, LocksInv, HoldsAt, Outside
<1>4. /\ ~Here(t)' /\ ~Creates(t)' /\ ~Writes(t)' /\ ~Found(t)'
      /\ pc'[t] \notin Inside \cup Preparing \cup Changing \cup Unlinked
    BY SMT, <1>2, <1>3 DEF Here, Creates, Writes, Found, Inside, Preparing, Changing, Unlinked,
                      CreateLabels, WriteLabels, FreshLoc
<1>5. req[t] \in RequestType /\ ~OutOfRange(req[t])
    BY <1>1 DEF ThreadOK, CallOK
<1>6. CallOK(t)'
    BY <1>2, <1>5 DEF CallOK, CreateLabels, DeleteLabels, WriteLabels, Unlinked
<1>7. FrameOK(t)' /\ PointersOK(t)' /\ InsideOK(t)' /\ CreateOK(t)' /\ WriteOK(t)' /\ DeleteOK(t)'
    BY SMT, <1>2, <1>3, <1>4
    DEF FrameOK, PointersOK, InsideOK, CreateOK, WriteOK, DeleteOK, FreshLoc, Outside, Inside, Unlinked
<1>8. WalkOK(t)'
    <2>1. 0 \in 0 .. Len(TargetPath(req[t]))
        BY SMT, <1>5, PathLength
    <2> QED BY SMT, <1>2, <1>3, <2>1 DEF WalkOK, FreshLoc
<1>9. ThreadOK(t)'
    BY <1>6, <1>7, <1>8 DEF ThreadOK
<1> QED BY <1>1, <1>9, FetchQuiet DEF Unlinked

LEMMA GetLockQuiet ==
    ASSUME Inv, Facts, NEW t \in Threads, Alone(t), GetLock(t) PROVE Quiet(t)
<1>1. /\ pc[t] = "get_lock" /\ Fetch(t, loc[t].node, "lock")
      /\ loc[t].node \in Blocks /\ "lock" \in Labels /\ ThreadOK(t)
    BY DEF GetLock, At, Inv, TypeOK, LocType, Labels
<1>2. /\ nxt'[t] \in LockObjects /\ nxt'[t][1] = loc[t].node /\ data_locks'[loc[t].node] = nxt'[t][2]
      /\ cur[t] \in LockObjects /\ data_locks[cur[t][1]] = cur[t][2]
                => data_locks'[cur[t][1]] = cur[t][2]
      /\ pc'[t] = "lock" /\ loc' = loc /\ cur' = cur /\ req' = req /\ hold' = hold /\ disk' = disk
    BY <1>1, FetchKept
<1>3. cur[t] \in LockObjects /\ data_locks[cur[t][1]] = cur[t][2]
    BY <1>1 DEF ThreadOK, PointersOK, Here
<1>4. /\ ~Creates(t)' /\ ~Writes(t)' /\ ~Found(t)'
      /\ pc'[t] \notin Inside \cup Preparing \cup Changing \cup Unlinked
    BY <1>2 DEF Creates, Writes, Found, Inside, Preparing, Changing, Unlinked, CreateLabels, WriteLabels
<1>5. CallOK(t)'
    BY <1>1, <1>2 DEF ThreadOK, CallOK, CreateLabels, DeleteLabels, WriteLabels, Unlinked
<1>6. loc[t].tinode = None /\ loc[t].spot = None /\ loc[t].new = <<>>
    BY <1>1 DEF ThreadOK, FrameOK, Creates, Writes, Found, Unlinked, CreateLabels, WriteLabels
<1>7. FrameOK(t)' /\ PointersOK(t)' /\ InsideOK(t)' /\ CreateOK(t)' /\ WriteOK(t)' /\ DeleteOK(t)'
    BY <1>2, <1>3, <1>4, <1>6
    DEF FrameOK, PointersOK, InsideOK, CreateOK, WriteOK, DeleteOK, Outside, Inside, Unlinked
<1>8. WalkOK(t)'
    <2>1. /\ loc[t].i \in 0 .. Len(TargetPath(req[t])) /\ loc[t].i # 0 /\ hold[t] = {<<cur[t], "shared">>}
          /\ Alive(cur[t][1]) /\ loc[t].node \in Children(disk, cur[t][1])
        BY <1>1 DEF ThreadOK, WalkOK, Walking
    <2>2. Alive(cur[t][1])'
        BY <1>1, <1>2, <2>1, AliveStays
    <2> QED BY <1>2, <2>1, <2>2 DEF WalkOK
<1>9. ThreadOK(t)'
    BY <1>5, <1>7, <1>8 DEF ThreadOK
<1> QED BY <1>1, <1>9, FetchQuiet DEF Unlinked

LEMMA GetTargetQuiet ==
    ASSUME Inv, Facts, NEW t \in Threads, Alone(t), GetTarget(t) PROVE Quiet(t)
<1>1. pc[t] = "get_target" /\ Fetch(t, loc[t].target, "upgrade") /\ Found(t) /\ ThreadOK(t) /\ "upgrade" \in Labels
    BY DEF GetTarget, At, Found, Inv, Labels
<1>2. loc[t].target \in Blocks
    BY <1>1 DEF Facts, PlaceFacts
<1>3. /\ nxt'[t] \in LockObjects /\ nxt'[t][1] = loc[t].target /\ data_locks'[loc[t].target] = nxt'[t][2]
      /\ cur[t] \in LockObjects /\ data_locks[cur[t][1]] = cur[t][2]
                => data_locks'[cur[t][1]] = cur[t][2]
      /\ pc'[t] = "upgrade" /\ loc' = loc /\ cur' = cur /\ req' = req /\ disk' = disk
    BY <1>1, <1>2, FetchKept
<1>4. cur[t] \in LockObjects /\ data_locks[cur[t][1]] = cur[t][2]
    BY <1>1 DEF ThreadOK, PointersOK, Here, Inside, Preparing
<1>5. Op(t) = "FS_DELETE" /\ Op(t)' = "FS_DELETE"
    BY <1>1, <1>3 DEF ThreadOK, CallOK, DeleteLabels, Op
<1>6. ~Creates(t)' /\ ~Writes(t)' /\ Found(t)' /\ Fetched(t)'
    BY <1>3, <1>5 DEF Creates, Writes, Found, Fetched, CreateLabels, WriteLabels
<1>7. CallOK(t)'
    BY <1>1, <1>3, <1>5 DEF ThreadOK, CallOK, CreateLabels, DeleteLabels, WriteLabels, Unlinked
<1>8. loc[t].tinode = None /\ loc[t].new = <<>>
    BY <1>1 DEF ThreadOK, FrameOK, Creates, Writes, Unlinked, CreateLabels, WriteLabels
<1>9. FrameOK(t)' /\ PointersOK(t)' /\ CreateOK(t)' /\ WriteOK(t)' /\ WalkOK(t)'
    BY <1>3, <1>4, <1>6, <1>8
    DEF FrameOK, PointersOK, CreateOK, WriteOK, WalkOK, Walking, Outside, Unlinked
<1>10. InsideOK(t)'
    <2>1. \A b : Alive(b) => Alive(b)'
        BY <1>1, <1>3, AliveStays
    <2> QED BY <1>1, <1>3, <2>1 DEF ThreadOK, InsideOK, Inside, Preparing
<1>11. DeleteOK(t)'
    BY <1>1, <1>3 DEF ThreadOK, DeleteOK, Unlinked
<1>12. ThreadOK(t)'
    BY <1>7, <1>9, <1>10, <1>11 DEF ThreadOK
<1> QED BY <1>1, <1>2, <1>12, FetchQuiet DEF Unlinked

-----------------------------------------------------------------------------
(* Steps that take a lock.                                                 *)

LEMMA AcquireQuiet ==
    ASSUME Inv, NEW t \in Threads, Alone(t), NEW locks, NEW label, Acquire(t, locks, label), TypeOK',
           ThreadOK(t)', pc[t] \notin Unlinked, label \notin Unlinked
    PROVE  Quiet(t)
<1>1. /\ pc'[t] = label /\ loc' = loc /\ disk' = disk /\ free_disk_blocks' = free_disk_blocks
      /\ data_locks' = data_locks
    BY DEF Acquire, Goto, Inv, TypeOK
<1>2. OwnBlocks(t)' = OwnBlocks(t)
    BY <1>1 DEF OwnBlocks, At, Unlinked
<1> QED BY <1>1, <1>2, StayQuiet DEF PointersKept, Unlinked

LEMMA LockQuiet ==
    ASSUME Inv, Facts, NEW t \in Threads, Alone(t), Lock(t) PROVE Quiet(t)
<1>1. pc[t] = "lock" /\ ThreadOK(t)
    BY DEF Lock, At, Inv
<1>2. PICK mode \in Modes : Acquire(t, {<<nxt[t], mode>>}, "read_inode")
    BY DEF Lock, FinalMode, Modes
<1>3. /\ pc'[t] = "read_inode" /\ cur'[t] = nxt[t]
      /\ loc' = loc /\ req' = req /\ disk' = disk /\ data_locks' = data_locks
    BY <1>2 DEF Lock, Acquire, Goto, KeepCall, Inv, TypeOK
<1>4. /\ nxt[t] \in LockObjects /\ data_locks[nxt[t][1]] = nxt[t][2] /\ nxt[t][1] = loc[t].node
      /\ loc[t].i \in 0 .. Len(TargetPath(req[t]))
    BY <1>1 DEF ThreadOK, PointersOK, Fetched, WalkOK, Walking
<1>5. TypeOK'
    <2>1. {<<nxt[t], mode>>} \in SUBSET (LockObjects \X Modes) /\ "read_inode" \in Labels
        BY SMT, <1>4 DEF Labels
    <2>2. cur' \in [Threads -> LockObjects \cup {None}] /\ nxt' \in [Threads -> LockObjects \cup {None}]
        BY <1>4 DEF Lock, Inv, TypeOK
    <2> QED BY <1>2, <2>1, <2>2, AcquireType DEF Inv
<1>6. /\ ~Creates(t)' /\ ~Writes(t)' /\ ~Found(t)' /\ ~Fetched(t)'
      /\ pc'[t] \notin Preparing \cup Changing \cup Unlinked
    BY <1>3 DEF Creates, Writes, Found, Fetched, Preparing, Changing, Unlinked, CreateLabels, WriteLabels
<1>7. CallOK(t)'
    BY <1>1, <1>3 DEF ThreadOK, CallOK, CreateLabels, DeleteLabels, WriteLabels, Unlinked
<1>8. loc[t].tinode = None /\ loc[t].spot = None /\ loc[t].new = <<>>
    BY <1>1 DEF ThreadOK, FrameOK, Creates, Writes, Found, Unlinked, CreateLabels, WriteLabels
<1>9. FrameOK(t)' /\ PointersOK(t)' /\ WalkOK(t)' /\ CreateOK(t)' /\ WriteOK(t)' /\ DeleteOK(t)'
    BY <1>3, <1>4, <1>6, <1>8 DEF FrameOK, PointersOK, WalkOK, CreateOK, WriteOK, DeleteOK, Outside
<1>10. InsideOK(t)'
    <2>1. loc[t].node \in ReachableInodes(disk)
        BY <1>1 DEF Facts, PlaceFacts
    <2> QED BY <1>3, <1>4, <1>6, <2>1 DEF InsideOK, Alive
<1>11. ThreadOK(t)'
    BY <1>7, <1>9, <1>10 DEF ThreadOK
<1> QED BY <1>1, <1>2, <1>5, <1>11, AcquireQuiet DEF Unlinked

-----------------------------------------------------------------------------
(* The walk.                                                               *)

LEMMA TraversedQuiet ==
    ASSUME Inv, NEW t \in Threads, Alone(t), NEW label \in Labels, NEW value \in LocType,
           Traversed(t, label, value), disk' = disk, free_disk_blocks' = free_disk_blocks,
           pc[t] \notin Unlinked, label \notin Unlinked, value.new = loc[t].new, ThreadOK(t)'
    PROVE  Quiet(t)
<1>1. TypeOK'
    BY TraversedType DEF Inv
<1>2. pc'[t] = label /\ loc'[t] = value /\ data_locks' = Expire(data_locks)
    BY DEF Inv, TypeOK, Traversed, Goto, SetLoc
<1>3. OwnBlocks(t)' = OwnBlocks(t)
    BY <1>2 DEF OwnBlocks, At, Unlinked
<1>4. PointersKept(t, data_locks')
    BY <1>2, ExpireKeeps DEF PointersKept
<1> QED BY <1>1, <1>3, <1>4, StayQuiet DEF Unlinked

\* The local variables with the next block to look at, and with the next inode to go to.
LEMMA LocNext ==
    ASSUME NEW l \in LocType, NEW value, value = [l EXCEPT !.k = @ + 1]
    PROVE  /\ value \in LocType /\ value.new = l.new /\ value.node = l.node /\ value.inode = l.inode
           /\ value.k = l.k + 1 /\ value.i = l.i /\ value.spot = l.spot /\ value.tinode = l.tinode
           /\ value.target = l.target
BY SMT DEF LocType

LEMMA LocDown ==
    ASSUME NEW l \in LocType, NEW b \in Blocks
    PROVE  LET value == [l EXCEPT !.node = b, !.i = @ + 1]
           IN  /\ value \in LocType /\ value.new = l.new /\ value.node = b /\ value.i = l.i + 1
               /\ value.spot = l.spot /\ value.tinode = l.tinode
<1> DEFINE value == [l EXCEPT !.node = b, !.i = @ + 1]
<1>1. l.i + 1 \in Nat
    BY SMT DEF LocType
<1>2. value.i = l.i + 1 /\ value.node = b /\ value.spot = l.spot /\ value.tinode = l.tinode /\ value.new = l.new
    BY DEF LocType
<1>3. value \in LocType
    BY <1>1, <1>2 DEF LocType
<1> QED BY <1>2, <1>3

\* With which inodes each request goes on.
Ready(op, label, inode, block) ==
    \/ op = "FS_CREATE" /\ inode.type = "d" /\ size(inode) = 0 /\ label = "alloc_inode"
    \/ op = "FS_CREATE" /\ inode.type = "d" /\ size(inode) # 0 /\ label = "create_scan"
    \/ op = "FS_DELETE" /\ inode.type = "d" /\ size(inode) # 0 /\ label = "delete_scan"
    \/ op = "FS_READBLOCK" /\ inode.type = "f" /\ block < size(inode) /\ label = "read_data"
    \/ op = "FS_WRITEBLOCK" /\ inode.type = "f" /\ block < size(inode) /\ label = "upgrade"
    \/ op = "FS_WRITEBLOCK" /\ inode.type = "f" /\ block = size(inode) /\ label = "alloc_data"

LEMMA ReachedOK ==
    ASSUME Inv, Facts, NEW t \in Threads, pc[t] = "read_inode", AtEnd(t), Alone(t), disk' = disk, NEW label,
           Traversed(t, label, Reached(t, disk[loc[t].node])),
           Ready(Op(t), label, disk[loc[t].node], req[t].block)
    PROVE  ThreadOK(t)'
<1> DEFINE inode == disk[loc[t].node]
<1>1. /\ pc'[t] = label /\ cur' = cur /\ req' = req /\ nxt'[t] = None /\ data_locks' = Expire(data_locks)
      /\ loc'[t] = [loc[t] EXCEPT !.inode = inode, !.k = 1] /\ loc[t] \in LocType
    BY DEF Traversed, Goto, SetLoc, KeepCall, Inv, TypeOK, Reached
<1>2. /\ loc[t].tinode = None /\ loc[t].spot = None /\ loc[t].new = <<>>
      /\ cur[t] \in LockObjects /\ data_locks[cur[t][1]] = cur[t][2]
      /\ cur[t][1] = loc[t].node /\ Alive(loc[t].node)
    BY DEF Inv, ThreadOK, FrameOK, PointersOK, InsideOK, Here, Inside, Creates, Writes, Found, Unlinked,
           CreateLabels, WriteLabels
<1>3. inode \in fs_inode /\ size(inode) \in Nat
    BY <1>2 DEF Facts, InodeFacts
<1> HIDE DEF inode
<1>4. /\ loc'[t].node = loc[t].node /\ loc'[t].inode = inode /\ loc'[t].k = 1
      /\ loc'[t].spot = None /\ loc'[t].tinode = None /\ loc'[t].new = <<>>
    BY <1>1, <1>2, <1>3 DEF LocType
<1>5. Alive(loc[t].node)'
    <2>1. \A b : Alive(b) => Alive(b)'
        BY AliveStays
    <2> QED BY <1>2, <1>4, <2>1
<1>6. label \in Preparing => loc[t].node \in ReachableInodes(disk)
    BY DEF Facts, PlaceFacts, Ready, Preparing
<1>7. /\ label \in {"alloc_inode", "create_scan", "delete_scan", "read_data", "upgrade", "alloc_data"}
      /\ Op(t)' = Op(t) /\ ~Found(t)' /\ ~Fetched(t)' /\ label \notin Changing \cup Unlinked \cup Walking
      /\ (Creates(t)' <=> label \in {"alloc_inode", "create_scan"})
      /\ (Writes(t)' <=> label \in {"upgrade", "alloc_data"})
    BY <1>1 DEF Ready, Op, Found, Fetched, Creates, Writes, CreateLabels, WriteLabels, Changing, Unlinked,
                Walking
<1>8. CallOK(t)'
    BY <1>1, <1>7 DEF Inv, ThreadOK, CallOK, CreateLabels, DeleteLabels, WriteLabels, Unlinked, Ready
<1>9. data_locks'[cur[t][1]] = cur[t][2]
    BY <1>1, <1>2, ExpireStays
<1>10. FrameOK(t)' /\ PointersOK(t)' /\ WalkOK(t)'
    BY <1>1, <1>2, <1>4, <1>7, <1>9 DEF FrameOK, PointersOK, WalkOK, Outside, Walking
<1>11. InsideOK(t)'
    BY <1>1, <1>2, <1>4, <1>5, <1>6, <1>7 DEF InsideOK, Inside, Preparing, Changing, Ready, inode
<1>12. CreateOK(t)'
    <2>1. size(inode) = 0 => NotIn(disk, loc[t].node, Filename(req[t]))
        BY SMT DEF NotIn, inode
    <2>2. 1 .. 1 - 1 = {} /\ (size(inode) # 0 => 1 \in 1 .. size(inode)) /\ Len(<<>>) = 0
        BY SMT, <1>3
    <2>3. \A i \in 1 .. 1 - 1 : FALSE
        BY <2>2
    <2>4. Len(loc'[t].new) # 2
        BY SMT, <1>4, <2>2
    <2> QED BY <1>1, <1>4, <1>7, <2>1, <2>2, <2>3, <2>4 DEF CreateOK, Ready, inode
<1>13. WriteOK(t)' /\ DeleteOK(t)'
    <2>1. size(inode) # 0 => 1 \in 1 .. size(inode)
        BY SMT, <1>3
    <2> QED BY <1>1, <1>4, <1>7, <2>1 DEF WriteOK, DeleteOK, Ready, Unlinked, inode
<1> QED BY <1>8, <1>10, <1>11, <1>12, <1>13 DEF ThreadOK

\* A thread that goes on looking for its path.
LEMMA WalkingOK ==
    ASSUME Inv, Facts, NEW t \in Threads, Alone(t), pc[t] \in {"read_inode", "scan"}, disk' = disk,
           NEW label \in {"scan", "get_lock"}, NEW value \in LocType, Continue(t, label, value),
           value.tinode = None, value.spot = None, value.new = <<>>,
           hold[t] = {<<cur[t], "shared">>}, loc[t].i < Len(TargetPath(req[t])),
           label = "scan" => /\ value.i = loc[t].i /\ value.node = loc[t].node
                             /\ value.inode = disk[loc[t].node] /\ value.inode.type = "d"
                             /\ value.k \in 1 .. size(value.inode),
           label = "get_lock" => value.i = loc[t].i + 1 /\ value.node \in Children(disk, loc[t].node)
    PROVE  ThreadOK(t)'
<1>1. /\ pc'[t] = label /\ loc'[t] = value /\ cur' = cur /\ req' = req /\ data_locks' = data_locks
      /\ hold' = hold /\ loc[t] \in LocType /\ ThreadOK(t)
    BY DEF Continue, Goto, SetLoc, KeepLocks, KeepCall, Inv, TypeOK
<1>2. /\ cur[t] \in LockObjects /\ data_locks[cur[t][1]] = cur[t][2]
      /\ cur[t][1] = loc[t].node /\ Alive(loc[t].node) /\ loc[t].i \in Nat
      /\ Len(TargetPath(req[t])) \in Nat
    BY <1>1, PathLength DEF ThreadOK, CallOK, PointersOK, InsideOK, Here, Inside, LocType
<1>3. /\ ~Creates(t)' /\ ~Writes(t)' /\ ~Found(t)' /\ ~Fetched(t)'
      /\ pc'[t] \notin Preparing \cup Changing \cup Unlinked
    BY <1>1 DEF Creates, Writes, Found, Fetched, Preparing, Changing, Unlinked, CreateLabels, WriteLabels
<1>4. CallOK(t)'
    BY <1>1 DEF ThreadOK, CallOK, CreateLabels, DeleteLabels, WriteLabels, Unlinked
<1>5. FrameOK(t)' /\ PointersOK(t)' /\ CreateOK(t)' /\ WriteOK(t)' /\ DeleteOK(t)'
    BY <1>1, <1>2, <1>3 DEF FrameOK, PointersOK, CreateOK, WriteOK, DeleteOK, Outside
<1>6. Alive(cur[t][1])' /\ \A b : Alive(b) => Alive(b)'
    BY <1>1, <1>2, AliveStays
<1>7. InsideOK(t)'
    BY <1>1, <1>2, <1>3, <1>6 DEF InsideOK, Inside
<1>8. WalkOK(t)'
    BY SMT, <1>1, <1>2, <1>6 DEF WalkOK
<1> QED BY <1>4, <1>5, <1>7, <1>8 DEF ThreadOK

LEMMA ReadInodeQuiet ==
    ASSUME Inv, Facts, NEW t \in Threads, Alone(t), ReadInode(t) PROVE Quiet(t)
<1> DEFINE inode == disk[loc[t].node]
<1>1. pc[t] = "read_inode" /\ disk' = disk /\ free_disk_blocks' = free_disk_blocks /\ ThreadOK(t)
    BY DEF ReadInode, At, Inv
<1>2. /\ loc[t].tinode = None /\ loc[t].spot = None /\ loc[t].new = <<>> /\ loc[t] \in LocType
      /\ Alive(loc[t].node) /\ loc[t].i \in 0 .. Len(TargetPath(req[t]))
    BY <1>1 DEF Inv, TypeOK, ThreadOK, FrameOK, InsideOK, WalkOK, Inside, Creates, Writes,
                Found, Unlinked, Walking, CreateLabels, WriteLabels
<1>3. inode \in fs_inode /\ inode.type \in {"f", "d"} /\ size(inode) \in Nat
    BY <1>2 DEF Facts, InodeFacts
<1>4. CASE Fail(t)
    BY <1>1, <1>2, <1>4, FailQuiet DEF Unlinked
<1>5. ASSUME AtEnd(t), NEW label, Traversed(t, label, Reached(t, inode)), Ready(Op(t), label, inode, req[t].block)
      PROVE  Quiet(t)
    <2>1. ThreadOK(t)'
        BY <1>1, <1>5, ReachedOK
    <2>2. Reached(t, inode) \in LocType /\ Reached(t, inode).new = loc[t].new
        BY <1>2, <1>3 DEF Reached, LocType
    <2>3. label \in Labels /\ label \notin Unlinked
        BY <1>5 DEF Ready, Labels, Unlinked
    <2> HIDE DEF inode
    <2> QED BY <1>1, <1>5, <2>1, <2>2, <2>3, TraversedQuiet DEF Unlinked
<1>6. ASSUME AtEnd(t), AfterTraverse(t, inode), ~Fail(t) PROVE Quiet(t)
    <2>1. Op(t) \in {"FS_READBLOCK", "FS_WRITEBLOCK"} => req[t].block \in Nat
        BY <1>1, RequestFields DEF ThreadOK, CallOK, Op
    <2> HIDE DEF inode
    <2>2. \E label : Traversed(t, label, Reached(t, inode)) /\ Ready(Op(t), label, inode, req[t].block)
        BY SMT, <1>3, <1>6, <2>1 DEF AfterTraverse, CreateIn, DeleteIn, ReadFrom, WriteTo, Ready
    <2> QED BY <1>5, <1>6, <2>2
<1>7. ASSUME ~AtEnd(t), inode.type # "f", size(inode) # 0,
             Continue(t, "scan", [loc[t] EXCEPT !.inode = inode, !.k = 1])
      PROVE  Quiet(t)
    <2> DEFINE value == [loc[t] EXCEPT !.inode = inode, !.k = 1]
    <2>1. /\ value \in LocType /\ value.new = <<>> /\ value.node = loc[t].node /\ value.inode = inode
          /\ value.k = 1 /\ value.i = loc[t].i /\ value.spot = None /\ value.tinode = None
        BY <1>2, <1>3 DEF LocType
    <2> HIDE DEF value
    <2>2. Len(TargetPath(req[t])) \in Nat
        BY <1>1, PathLength DEF ThreadOK, CallOK
    <2>3. loc[t].i < Len(TargetPath(req[t])) /\ 1 \in 1 .. size(inode) /\ inode.type = "d"
        BY SMT, <1>2, <1>3, <1>7, <2>2 DEF AtEnd
    <2>4. hold[t] = {<<cur[t], "shared">>}
        BY <1>1, <1>7 DEF Inv, LocksInv, HoldsAt, WalkMode
    <2>5. Continue(t, "scan", value)
        BY <1>7 DEF value
    <2>6. ThreadOK(t)'
        BY <1>1, <2>1, <2>3, <2>4, <2>5, WalkingOK
    <2> QED BY <1>1, <1>2, <2>1, <2>5, <2>6, ContinueQuiet DEF Unlinked, Labels
<1> QED BY <1>4, <1>6, <1>7 DEF ReadInode

LEMMA ScanQuiet ==
    ASSUME Inv, Facts, NEW t \in Threads, Alone(t), Scan(t) PROVE Quiet(t)
<1> DEFINE l == loc[t]
           dir == disk[l.inode.blocks[l.k]]
           found == Matches(dir, req[t].path[l.i + 1])
<1>1. pc[t] = "scan" /\ disk' = disk /\ free_disk_blocks' = free_disk_blocks /\ ThreadOK(t)
    BY DEF Scan, At, Inv
<1>2. /\ l.tinode = None /\ l.spot = None /\ l.new = <<>> /\ l \in LocType
      /\ Alive(l.node) /\ l.inode = disk[l.node] /\ l.i < Len(TargetPath(req[t]))
      /\ l.inode.type = "d" /\ l.k \in 1 .. size(l.inode)
    BY <1>1 DEF Inv, TypeOK, ThreadOK, FrameOK, InsideOK, WalkOK, Inside, Creates, Writes,
                Found, Unlinked, CreateLabels, WriteLabels
<1>3. dir \in direntries /\ size(l.inode) \in Nat
    BY <1>2 DEF Facts, InodeFacts
<1>4. hold[t] = {<<cur[t], "shared">>}
    BY <1>1 DEF Inv, LocksInv, HoldsAt
<1>5. /\ dir = disk[disk[l.node].blocks[l.k]]
      /\ \/ Fail(t)
         \/ l.k # size(l.inode) /\ Continue(t, "scan", [l EXCEPT !.k = @ + 1])
         \/ found # {} /\ Continue(t, "get_lock", [l EXCEPT !.node = dir.entries[First(found)].inode_block, !.i = @ + 1])
    BY <1>2 DEF Scan
<1>6. ASSUME found # {}
      PROVE  \E j \in 1 .. FS_DIRENTRIES : j = First(found) /\ dir.entries[j].inode_block # 0
    BY <1>6 DEF Facts, Matches
<1>7. Fail(t) => Quiet(t)
    BY <1>1, <1>2, FailQuiet DEF Unlinked
<1>8. loc[t] = l
    OBVIOUS
<1> HIDE DEF l, dir, found
<1>9. ASSUME NEW label \in {"scan", "get_lock"}, NEW value \in LocType, Continue(t, label, value),
             value.tinode = None, value.spot = None, value.new = <<>>,
             label = "scan" => value.i = l.i /\ value.node = l.node /\ value.inode = l.inode
                               /\ value.k \in 1 .. size(l.inode),
             label = "get_lock" => value.i = l.i + 1 /\ value.node \in Children(disk, l.node)
      PROVE  Quiet(t)
    <2>1. ThreadOK(t)'
        BY <1>1, <1>2, <1>4, <1>8, <1>9, WalkingOK
    <2>2. label \in Labels /\ label \notin Unlinked
        BY <1>9 DEF Labels, Unlinked
    <2> QED BY <1>1, <1>2, <1>8, <1>9, <2>1, <2>2, ContinueQuiet DEF Unlinked
<1>10. ASSUME l.k # size(l.inode), Continue(t, "scan", [l EXCEPT !.k = @ + 1]) PROVE Quiet(t)
    <2> DEFINE value == [l EXCEPT !.k = @ + 1]
    <2>1. /\ value \in LocType /\ value.new = <<>> /\ value.node = l.node /\ value.inode = l.inode
          /\ value.k = l.k + 1 /\ value.i = l.i /\ value.spot = None /\ value.tinode = None
        BY <1>2, LocNext
    <2>2. l.k + 1 \in 1 .. size(l.inode) /\ Continue(t, "scan", value)
        BY SMT, <1>2, <1>3, <1>10
    <2> HIDE DEF value
    <2> QED BY <1>9, <2>1, <2>2
<1>11. ASSUME found # {},
              Continue(t, "get_lock", [l EXCEPT !.node = dir.entries[First(found)].inode_block, !.i = @ + 1])
       PROVE  Quiet(t)
    <2>1. PICK j \in 1 .. FS_DIRENTRIES : j = First(found) /\ dir.entries[j].inode_block # 0
        BY <1>6, <1>11
    <2> DEFINE b == dir.entries[j].inode_block
               value == [l EXCEPT !.node = b, !.i = @ + 1]
    <2>2. b \in Blocks \ {0} /\ b = disk[disk[l.node].blocks[l.k]].entries[j].inode_block
        BY <1>3, <1>5, <2>1 DEF direntries, Direntry
    <2>3. Continue(t, "get_lock", value)
        BY <1>11, <2>1
    <2>4. b \in Children(disk, l.node)
        BY <1>2, <2>2 DEF Children
    <2> HIDE DEF b
    <2>5. value \in LocType /\ value.new = <<>> /\ value.node = b /\ value.i = l.i + 1
          /\ value.spot = None /\ value.tinode = None
        BY <1>2, <2>2, LocDown
    <2> HIDE DEF value
    <2> QED BY <1>9, <2>3, <2>4, <2>5
<1> QED BY <1>5, <1>7, <1>10, <1>11

-----------------------------------------------------------------------------
(* Preparing a change.                                                     *)

\* A thread that goes on with the inode it has read, with the lock it holds.
Proceeds(t) ==
    /\ req'[t] = req[t] /\ cur'[t] = cur[t] /\ nxt'[t] = nxt[t] /\ data_locks' = data_locks
    /\ loc'[t].node = loc[t].node /\ loc'[t].inode = loc[t].inode
    /\ ReachableInodes(disk) \subseteq ReachableInodes(disk') /\ disk'[loc[t].node] = disk[loc[t].node]

LEMMA PreparedOK ==
    ASSUME Inv, NEW t \in Threads, Alone(t), Proceeds(t),
           pc[t] \in Preparing \cup {"lock_target", "read_target"},
           pc'[t] \in Preparing \cup {"commit", "lock_target", "read_target", "unlink"}
    PROVE  /\ WalkOK(t)' /\ InsideOK(t)' /\ pc'[t] \notin Outside \cup Unlinked
           /\ cur'[t] \in LockObjects /\ data_locks'[cur'[t][1]] = cur'[t][2]
           /\ req'[t] \in RequestType /\ ~OutOfRange(req'[t])
<1>1. ThreadOK(t) /\ pc[t] \in Inside \ {"read_inode", "free_direntries"}
      /\ pc[t] \notin {"idle", "reply", "free_direntries", "upgrade_target"}
    BY DEF Inv, Inside, Preparing, Changing
<1>2. /\ pc'[t] \notin Walking \cup Outside \cup Unlinked /\ pc'[t] # "read_data"
    BY DEF Preparing, Walking, Outside, Unlinked
<1>3. WalkOK(t)'
    BY <1>2 DEF WalkOK, Walking
<1>4. /\ cur[t][1] = loc[t].node /\ Alive(loc[t].node) /\ loc[t].inode = disk[loc[t].node]
      /\ loc[t].node \in ReachableInodes(disk)
    BY <1>1 DEF ThreadOK, InsideOK, Inside, Preparing, Changing
<1>5. InsideOK(t)'
    BY <1>2, <1>4 DEF InsideOK, Proceeds, Alive
<1>6. /\ cur[t] \in LockObjects /\ data_locks[cur[t][1]] = cur[t][2]
      /\ req[t] \in RequestType /\ ~OutOfRange(req[t])
    BY <1>1 DEF ThreadOK, PointersOK, CallOK, Here
<1> QED BY <1>2, <1>3, <1>5, <1>6 DEF Proceeds

LEMMA CreatingOK ==
    ASSUME Inv, NEW t \in Threads, Alone(t), Proceeds(t), Creates(t), pc[t] # "commit",
           pc'[t] \in CreateLabels \cup {"upgrade", "commit"}, loc'[t].tinode = loc[t].tinode, CreateOK(t)'
    PROVE  ThreadOK(t)'
<1>1. ThreadOK(t) /\ Op(t) = "FS_CREATE" /\ Op(t)' = "FS_CREATE"
    BY DEF Inv, ThreadOK, CallOK, Creates, Op, Proceeds
<1>2. /\ pc[t] \in Preparing /\ pc'[t] \in Preparing \cup {"commit"}
      /\ Creates(t)' /\ ~Writes(t)' /\ ~Found(t)' /\ ~Fetched(t)' /\ pc'[t] \notin {"unlink", "delete_scan"}
    BY <1>1 DEF Creates, Writes, Found, Fetched, CreateLabels, WriteLabels, Preparing, Unlinked
<1>3. /\ WalkOK(t)' /\ InsideOK(t)' /\ pc'[t] \notin Outside \cup Unlinked
      /\ cur'[t] \in LockObjects /\ data_locks'[cur'[t][1]] = cur'[t][2]
      /\ req'[t] \in RequestType /\ ~OutOfRange(req'[t])
    BY <1>2, PreparedOK
<1>4. loc[t].tinode = None /\ nxt[t] = None
    BY <1>1, <1>2 DEF ThreadOK, FrameOK, PointersOK, Preparing, Unlinked
<1>5. CallOK(t)'
    BY <1>1, <1>3 DEF CallOK, CreateLabels, DeleteLabels, WriteLabels, Outside, Unlinked
<1>6. FrameOK(t)' /\ PointersOK(t)'
    BY <1>2, <1>3, <1>4 DEF FrameOK, PointersOK, Proceeds
<1>7. WriteOK(t)' /\ DeleteOK(t)'
    BY <1>2, <1>3 DEF WriteOK, DeleteOK, Unlinked
<1> QED BY <1>3, <1>5, <1>6, <1>7 DEF ThreadOK

LEMMA WritingOK ==
    ASSUME Inv, NEW t \in Threads, Alone(t), Proceeds(t), Writes(t), pc[t] # "commit",
           pc'[t] \in WriteLabels \cup {"upgrade", "commit"}, loc'[t].tinode = loc[t].tinode,
           loc'[t].spot = loc[t].spot, WriteOK(t)'
    PROVE  ThreadOK(t)'
<1>1. ThreadOK(t) /\ Op(t) = "FS_WRITEBLOCK" /\ Op(t)' = "FS_WRITEBLOCK"
    BY DEF Inv, ThreadOK, CallOK, Writes, Op, Proceeds
<1>2. /\ pc[t] \in Preparing /\ pc'[t] \in Preparing \cup {"commit"} /\ ~Creates(t) /\ ~Found(t)
      /\ Writes(t)' /\ ~Creates(t)' /\ ~Found(t)' /\ ~Fetched(t)' /\ pc'[t] \notin {"unlink", "delete_scan"}
    BY <1>1 DEF Creates, Writes, Found, Fetched, CreateLabels, WriteLabels, Preparing, Unlinked
<1>3. /\ WalkOK(t)' /\ InsideOK(t)' /\ pc'[t] \notin Outside \cup Unlinked
      /\ cur'[t] \in LockObjects /\ data_locks'[cur'[t][1]] = cur'[t][2]
      /\ req'[t] \in RequestType /\ ~OutOfRange(req'[t])
    BY <1>2, PreparedOK
<1>4. loc[t].tinode = None /\ nxt[t] = None /\ loc[t].spot = None
    BY <1>1, <1>2 DEF ThreadOK, FrameOK, PointersOK, Preparing, Unlinked
<1>5. CallOK(t)'
    BY <1>1, <1>3 DEF CallOK, CreateLabels, DeleteLabels, WriteLabels, Outside, Unlinked
<1>6. FrameOK(t)' /\ PointersOK(t)'
    BY <1>2, <1>3, <1>4 DEF FrameOK, PointersOK, Proceeds
<1>7. CreateOK(t)' /\ DeleteOK(t)'
    BY <1>2, <1>3 DEF CreateOK, DeleteOK, Unlinked
<1> QED BY <1>3, <1>5, <1>6, <1>7 DEF ThreadOK

\* A delete that has not unlinked its target yet.
Deletes(t) == pc[t] = "delete_scan" \/ Found(t)

LEMMA DeletingOK ==
    ASSUME Inv, NEW t \in Threads, Alone(t), Proceeds(t), Deletes(t), pc[t] # "unlink",
           Deletes(t)', loc'[t].new = loc[t].new, pc'[t] # "unlink" => loc'[t].tinode = loc[t].tinode,
           pc'[t] = "delete_scan" => loc'[t].spot = None,
           Fetched(t)' => Fetched(t), DeleteOK(t)'
    PROVE  ThreadOK(t)'
<1>1. ThreadOK(t) /\ Op(t) = "FS_DELETE" /\ Op(t)' = "FS_DELETE"
    BY DEF Inv, ThreadOK, CallOK, Deletes, Found, DeleteLabels, Op, Proceeds
<1>2. /\ pc[t] \in Preparing \cup {"lock_target", "read_target"}
      /\ pc'[t] \in Preparing \cup {"lock_target", "read_target", "unlink"}
      /\ pc'[t] \notin {"commit", "check_free", "read_data"} \cup CreateLabels \cup WriteLabels
      /\ ~Creates(t) /\ ~Writes(t) /\ ~Writes(t)' /\ ~Creates(t)' /\ (Found(t)' \/ pc'[t] = "delete_scan")
      /\ pc[t] # "free_blocks"
    BY <1>1 DEF Deletes, Creates, Writes, Found, Fetched, CreateLabels, WriteLabels, Preparing, Unlinked
<1>3. /\ WalkOK(t)' /\ InsideOK(t)' /\ pc'[t] \notin Outside \cup Unlinked
      /\ cur'[t] \in LockObjects /\ data_locks'[cur'[t][1]] = cur'[t][2]
      /\ req'[t] \in RequestType /\ ~OutOfRange(req'[t])
    BY <1>2, PreparedOK
<1>4. /\ loc[t].tinode = None /\ loc[t].new = <<>>
      /\ Fetched(t) => nxt[t] \in LockObjects /\ data_locks[nxt[t][1]] = nxt[t][2]
    BY <1>1, <1>2 DEF ThreadOK, FrameOK, PointersOK, Preparing, Unlinked
<1>5. CallOK(t)'
    BY <1>1, <1>2, <1>3 DEF CallOK, Outside
<1>6. FrameOK(t)' /\ PointersOK(t)'
    BY <1>2, <1>3, <1>4 DEF FrameOK, PointersOK, Proceeds
<1>7. CreateOK(t)' /\ WriteOK(t)'
    BY <1>2 DEF CreateOK, WriteOK
<1> QED BY <1>3, <1>5, <1>6, <1>7 DEF ThreadOK

\* What t writes is not the node it works on, and takes nothing out of the tree.
NodeKept(t) ==
    disk'[loc[t].node] = disk[loc[t].node] /\ ReachableInodes(disk) \subseteq ReachableInodes(disk')

LEMMA ContinueOn ==
    ASSUME Inv, NEW t \in Threads, NEW label, NEW value, Continue(t, label, value),
           value.node = loc[t].node, value.inode = loc[t].inode, NodeKept(t)
    PROVE  Proceeds(t) /\ pc'[t] = label /\ loc'[t] = value /\ req'[t] = req[t] /\ nxt'[t] = nxt[t]
BY DEF NodeKept, Continue, Goto, SetLoc, KeepLocks, KeepCall, Proceeds, Inv, TypeOK

LEMMA ContinueStill ==
    ASSUME Inv, NEW t \in Threads, NEW label, NEW value, Continue(t, label, value),
           value.node = loc[t].node, value.inode = loc[t].inode, disk' = disk
    PROVE  Proceeds(t) /\ pc'[t] = label /\ loc'[t] = value /\ req'[t] = req[t] /\ nxt'[t] = nxt[t]
BY DEF Continue, Goto, SetLoc, KeepLocks, KeepCall, Proceeds, Inv, TypeOK

LEMMA UpgradeQuiet ==
    ASSUME Inv, NEW t \in Threads, Alone(t), Upgrade(t) PROVE Quiet(t)
<1> DEFINE label == IF Op(t) = "FS_DELETE" THEN "lock_target" ELSE "commit"
<1>1. pc[t] = "upgrade" /\ Acquire(t, {<<cur[t], "unique">>}, label) /\ cur' = cur /\ nxt' = nxt /\ ThreadOK(t)
    BY DEF Upgrade, At, Inv
<1>2. /\ pc'[t] = label /\ loc' = loc /\ req' = req /\ disk' = disk /\ data_locks' = data_locks
      /\ Proceeds(t) /\ Op(t)' = Op(t)
    BY <1>1 DEF Acquire, Goto, KeepCall, Proceeds, Inv, TypeOK, Op
<1>3. cur[t] \in LockObjects /\ Op(t) \in {"FS_CREATE", "FS_DELETE", "FS_WRITEBLOCK"}
    BY <1>1 DEF ThreadOK, CallOK, PointersOK, Here, Inside, Preparing
<1>4. TypeOK'
    <2>1. {<<cur[t], "unique">>} \in SUBSET (LockObjects \X Modes) /\ label \in Labels
        BY SMT, <1>3 DEF Modes, Labels
    <2>2. cur' \in [Threads -> LockObjects \cup {None}] /\ nxt' \in [Threads -> LockObjects \cup {None}]
        BY <1>1 DEF Inv, TypeOK
    <2> HIDE DEF label
    <2> QED BY <1>1, <2>1, <2>2, AcquireType DEF Inv
<1>5. ASSUME Op(t) = "FS_CREATE" PROVE ThreadOK(t)'
    <2>1. Creates(t) /\ Creates(t)' /\ pc'[t] = "commit"
        BY <1>1, <1>2, <1>5 DEF Creates
    <2>2. \A i : SpotFree(t, i) => SpotFree(t, i)'
        BY <1>2 DEF SpotFree
    <2>3. CreateOK(t)'
        BY <1>1, <1>2, <2>1, <2>2 DEF ThreadOK, CreateOK
    <2> QED BY <1>1, <1>2, <2>1, <2>3, CreatingOK
<1>6. ASSUME Op(t) = "FS_WRITEBLOCK" PROVE ThreadOK(t)'
    <2>1. Writes(t) /\ Writes(t)' /\ pc'[t] = "commit"
        BY <1>1, <1>2, <1>6 DEF Writes
    <2>2. WriteOK(t)'
        BY <1>1, <1>2, <2>1 DEF ThreadOK, WriteOK
    <2> QED BY <1>1, <1>2, <2>1, <2>2, WritingOK
<1>7. ASSUME Op(t) = "FS_DELETE" PROVE ThreadOK(t)'
    <2>1. Deletes(t) /\ Deletes(t)' /\ Found(t) /\ Fetched(t) /\ pc'[t] = "lock_target"
        BY <1>1, <1>2, <1>7 DEF Deletes, Found, Fetched
    <2>2. DeleteOK(t)'
        BY <1>1, <1>2, <2>1 DEF ThreadOK, DeleteOK, Unlinked
    <2> QED BY <1>1, <1>2, <2>1, <2>2, DeletingOK
<1>8. ThreadOK(t)'
    BY <1>3, <1>5, <1>6, <1>7
<1>9. label \notin Unlinked /\ pc[t] \notin Unlinked
    BY <1>1 DEF Unlinked
<1> HIDE DEF label
<1> QED BY <1>1, <1>4, <1>8, <1>9, AcquireQuiet

LEMMA LockTargetQuiet ==
    ASSUME Inv, NEW t \in Threads, Alone(t), LockTarget(t) PROVE Quiet(t)
<1> DEFINE locks == hold[t] \cup {<<nxt[t], "upgrade">>}
<1>1. pc[t] = "lock_target" /\ Acquire(t, locks, "read_target") /\ cur' = cur /\ nxt' = nxt /\ ThreadOK(t)
    BY DEF LockTarget, At, Inv
<1>2. /\ pc'[t] = "read_target" /\ loc' = loc /\ req' = req /\ disk' = disk /\ data_locks' = data_locks
      /\ Proceeds(t)
    BY <1>1 DEF Acquire, Goto, KeepCall, Proceeds, Inv, TypeOK
<1>3. Deletes(t) /\ Deletes(t)' /\ Found(t) /\ Fetched(t)
    BY <1>1, <1>2 DEF Deletes, Found, Fetched
<1>4. nxt[t] \in LockObjects
    BY <1>1, <1>3 DEF ThreadOK, PointersOK
<1>5. TypeOK'
    <2>1. locks \in SUBSET (LockObjects \X Modes) /\ "read_target" \in Labels
        BY SMT, <1>4 DEF Modes, Labels, Inv, TypeOK
    <2>2. cur' \in [Threads -> LockObjects \cup {None}] /\ nxt' \in [Threads -> LockObjects \cup {None}]
        BY <1>1 DEF Inv, TypeOK
    <2> HIDE DEF locks
    <2> QED BY <1>1, <2>1, <2>2, AcquireType DEF Inv
<1>6. DeleteOK(t)'
    BY <1>1, <1>2, <1>3 DEF ThreadOK, DeleteOK, Unlinked
<1>7. ThreadOK(t)'
    BY <1>1, <1>2, <1>3, <1>6, DeletingOK
<1> HIDE DEF locks
<1> QED BY <1>1, <1>5, <1>7, AcquireQuiet DEF Unlinked

LEMMA ReadTargetQuiet ==
    ASSUME Inv, Facts, NEW t \in Threads, Alone(t), ReadTarget(t) PROVE Quiet(t)
<1> DEFINE inode == disk[loc[t].target]
           value == [loc[t] EXCEPT !.tinode = inode]
<1>1. /\ pc[t] = "read_target" /\ disk' = disk /\ free_disk_blocks' = free_disk_blocks
      /\ ThreadOK(t) /\ loc[t] \in LocType
    BY DEF ReadTarget, At, Inv, TypeOK
<1>2. Deletes(t) /\ Found(t) /\ Fetched(t) /\ loc[t].new = <<>>
    BY <1>1 DEF Deletes, Found, Fetched, ThreadOK, FrameOK, Creates, Writes, CreateLabels, WriteLabels
<1>3. CASE Fail(t)
    BY <1>1, <1>2, <1>3, FailQuiet DEF Unlinked
<1>4. ASSUME Deletable(t, inode), Continue(t, "unlink", value) PROVE Quiet(t)
    <2>1. inode \in fs_inode /\ NoChildren(inode)
        BY <1>2, <1>4 DEF Facts, PlaceFacts, Alive, InodeFacts, Deletable, NoChildren
    <2>2. /\ value \in LocType /\ value.new = <<>> /\ value.node = loc[t].node /\ value.inode = loc[t].inode
          /\ value.k = loc[t].k /\ value.spot = loc[t].spot /\ value.target = loc[t].target /\ value.tinode = inode
        BY <1>1, <1>2, <2>1 DEF LocType
    <2> HIDE DEF value
    <2>3. Proceeds(t) /\ pc'[t] = "unlink" /\ loc'[t] = value /\ req'[t] = req[t] /\ nxt'[t] = nxt[t]
        <3>1. /\ Continue(t, "unlink", value) /\ disk' = disk
              /\ value.node = loc[t].node /\ value.inode = loc[t].inode
            BY <1>1, <1>4, <2>2
        <3> QED BY <3>1, ContinueStill
    <2>4. Deletes(t)' /\ Found(t)' /\ Fetched(t)'
        BY <2>3 DEF Deletes, Found, Fetched
    <2>5. DeleteOK(t)'
        BY <1>1, <1>2, <2>1, <2>2, <2>3 DEF ThreadOK, DeleteOK, Unlinked
    <2>6. ThreadOK(t)'
        BY <1>1, <1>2, <2>2, <2>3, <2>4, <2>5, DeletingOK
    <2> QED BY <1>1, <1>2, <1>4, <2>2, <2>6, ContinueQuiet DEF Unlinked, Labels
<1> QED BY <1>3, <1>4 DEF ReadTarget

LEMMA ReadDataQuiet ==
    ASSUME Inv, Facts, NEW t \in Threads, Alone(t), ReadData(t) PROVE Quiet(t)
<1> DEFINE result == disk[loc[t].inode.blocks[req[t].block + 1]].value
<1>1. /\ pc[t] = "read_data" /\ Return(t, result) /\ disk' = disk /\ free_disk_blocks' = free_disk_blocks
      /\ ThreadOK(t) /\ TypeOK
    BY DEF ReadData, At, Inv
<1>2. /\ Alive(loc[t].node) /\ loc[t].inode = disk[loc[t].node] /\ loc[t].inode.type = "f"
      /\ req[t].block < size(loc[t].inode) /\ loc[t].new = <<>> /\ Op(t) = "FS_READBLOCK" /\ req[t] \in RequestType
    BY <1>1 DEF ThreadOK, CallOK, InsideOK, FrameOK, Inside, Creates, Writes, CreateLabels, WriteLabels
<1>3. result \in Data
    <2>1. req[t].block \in Nat /\ size(loc[t].inode) \in Nat
        BY <1>2, RequestFields DEF Op, Facts, InodeFacts
    <2>2. req[t].block + 1 \in 1 .. size(loc[t].inode)
        BY SMT, <1>2, <2>1
    <2>3. disk[loc[t].inode.blocks[req[t].block + 1]] \in DataBlock
        BY <1>2, <2>2 DEF Facts, InodeFacts
    <2> QED BY <2>3 DEF DataBlock
<1> HIDE DEF result
<1>4. TypeOK' /\ ThreadOK(t)' /\ PointersKept(t, data_locks')
    <2>1. /\ disk' \in [Blocks -> Contents] /\ free_disk_blocks' \in Seq(Blocks \ {0})
          /\ result \in Data \cup {None, "ok", "error"}
        BY <1>1, <1>3 DEF TypeOK
    <2>2. TypeOK'
        BY <1>1, <2>1, ReturnType
    <2>3. ThreadOK(t)' /\ PointersKept(t, data_locks')
        BY <1>1, ReturnOK, ReturnPointers
    <2> QED BY <2>2, <2>3
<1>5. pc'[t] = "reply" /\ loc'[t] = FreshLoc
    BY <1>1 DEF TypeOK, Return, Goto, SetLoc
<1>6. OwnBlocks(t)' = {} /\ OwnBlocks(t) = {}
    BY SMT, <1>1, <1>2, <1>5 DEF OwnBlocks, At, Unlinked, Range, FreshLoc
<1> QED BY <1>1, <1>4, <1>6, StayQuiet

-----------------------------------------------------------------------------
(* Looking for an entry to delete, or for a free one.                      *)

LEMMA DeleteScanQuiet ==
    ASSUME Inv, Facts, NEW t \in Threads, Alone(t), DeleteScan(t) PROVE Quiet(t)
<1> DEFINE l == loc[t]
           b == l.inode.blocks[l.k]
           dir == disk[b]
           found == Matches(dir, Filename(req[t]))
<1>1. /\ pc[t] = "delete_scan" /\ disk' = disk /\ free_disk_blocks' = free_disk_blocks
      /\ ThreadOK(t) /\ l \in LocType /\ Deletes(t) /\ pc[t] \notin Unlinked /\ loc[t] = l /\ disk[b] = dir
    BY DEF DeleteScan, At, Inv, TypeOK, Deletes, Unlinked
<1>2. /\ l.new = <<>> /\ l.spot = None /\ l.inode.type = "d" /\ l.k \in 1 .. size(l.inode)
      /\ Alive(l.node) /\ l.inode = disk[l.node] /\ l.inode.blocks[l.k] = b
    BY <1>1 DEF ThreadOK, FrameOK, DeleteOK, InsideOK, Inside, Preparing, Creates, Writes, Found,
                CreateLabels, WriteLabels
<1>3. dir \in direntries /\ b \in Blocks /\ size(l.inode) \in Nat
    BY <1>2 DEF Facts, InodeFacts
<1>4. \/ Fail(t)
      \/ l.k # size(l.inode) /\ Continue(t, "delete_scan", [l EXCEPT !.k = @ + 1])
      \/ /\ found # {}
         /\ Continue(t, "get_target", [l EXCEPT !.spot = [block |-> b, slot |-> First(found), dir |-> dir],
                                                !.target = dir.entries[First(found)].inode_block])
    BY DEF DeleteScan
<1>5. ASSUME found # {}
      PROVE  \E j \in 1 .. FS_DIRENTRIES : j = First(found) /\ dir.entries[j].inode_block # 0
    BY <1>5 DEF Facts, Matches
<1> HIDE DEF l, b, dir, found
<1>6. CASE Fail(t)
    BY <1>1, <1>2, <1>6, FailQuiet DEF Unlinked
<1>7. ASSUME l.k # size(l.inode), Continue(t, "delete_scan", [l EXCEPT !.k = @ + 1]) PROVE Quiet(t)
    <2> DEFINE value == [l EXCEPT !.k = @ + 1]
    <2>1. /\ value \in LocType /\ value.new = <<>> /\ value.node = l.node /\ value.inode = l.inode
          /\ value.k = l.k + 1 /\ value.spot = None /\ value.tinode = l.tinode
        BY <1>1, <1>2, LocNext
    <2>2. l.k + 1 \in 1 .. size(l.inode) /\ Continue(t, "delete_scan", value)
        BY SMT, <1>2, <1>3, <1>7
    <2> HIDE DEF value
    <2>3. Proceeds(t) /\ pc'[t] = "delete_scan" /\ loc'[t] = value
        <3>1. /\ Continue(t, "delete_scan", value) /\ disk' = disk
              /\ value.node = loc[t].node /\ value.inode = loc[t].inode
            BY <1>1, <2>1, <2>2 DEF l
        <3> QED BY <3>1, ContinueStill
    <2>4. Deletes(t)' /\ ~Found(t)' /\ ~Fetched(t)'
        BY <2>3 DEF Deletes, Found, Fetched, Unlinked
    <2>5. DeleteOK(t)'
        BY <1>2, <2>1, <2>2, <2>3, <2>4 DEF DeleteOK, Unlinked
    <2>6. ThreadOK(t)'
        BY <1>1, <1>2, <2>1, <2>3, <2>4, <2>5, DeletingOK
    <2> QED BY <1>1, <1>2, <2>1, <2>2, <2>6, ContinueQuiet DEF Unlinked, Labels
<1>8. ASSUME found # {},
             Continue(t, "get_target", [l EXCEPT !.spot = [block |-> b, slot |-> First(found), dir |-> dir],
                                                 !.target = dir.entries[First(found)].inode_block])
      PROVE  Quiet(t)
    <2>1. PICK j \in 1 .. FS_DIRENTRIES : j = First(found) /\ dir.entries[j].inode_block # 0
        BY <1>5, <1>8
    <2> DEFINE spot == [block |-> b, slot |-> j, dir |-> dir]
               target == dir.entries[j].inode_block
               value == [l EXCEPT !.spot = spot, !.target = target]
    <2>2. Continue(t, "get_target", value)
        BY <1>8, <2>1
    <2>3. spot \in SpotType /\ target \in Blocks
        BY <1>3 DEF SpotType, direntries, Direntry
    <2>4. spot.block = b /\ spot.dir = dir /\ target = spot.dir.entries[spot.slot].inode_block /\ target # 0
        BY <2>1
    <2> HIDE DEF spot, target
    <2>5. /\ value \in LocType /\ value.new = <<>> /\ value.node = l.node /\ value.inode = l.inode
          /\ value.k = l.k /\ value.spot = spot /\ value.target = target /\ value.tinode = l.tinode
        BY <1>1, <1>2, <2>3 DEF LocType
    <2> HIDE DEF value
    <2>6. Proceeds(t) /\ pc'[t] = "get_target" /\ loc'[t] = value
        <3>1. /\ Continue(t, "get_target", value) /\ disk' = disk
              /\ value.node = loc[t].node /\ value.inode = loc[t].inode
            BY <1>1, <2>2, <2>5 DEF l
        <3> QED BY <3>1, ContinueStill
    <2>7. Deletes(t)' /\ Found(t)' /\ ~Fetched(t)'
        BY <2>6 DEF Deletes, Found, Fetched, Unlinked
    <2>8. DeleteOK(t)'
        BY <1>1, <1>2, <2>3, <2>4, <2>5, <2>6, <2>7 DEF DeleteOK, Unlinked
    <2>9. ThreadOK(t)'
        BY <1>1, <1>2, <2>5, <2>6, <2>7, <2>8, DeletingOK
    <2> QED BY <1>1, <1>2, <2>2, <2>5, <2>9, ContinueQuiet DEF Unlinked, Labels
<1> QED BY <1>4, <1>6, <1>7, <1>8

LEMMA CreateScanQuiet ==
    ASSUME Inv, Facts, NEW t \in Threads, Alone(t), CreateScan(t) PROVE Quiet(t)
<1> DEFINE l == loc[t]
           b == l.inode.blocks[l.k]
           dir == disk[b]
           spot == IF l.spot = None /\ FreeSlots(dir) # {}
                   THEN [block |-> b, slot |-> First(FreeSlots(dir)), dir |-> dir]
                   ELSE l.spot
           name == Filename(req[t])
<1>1. /\ pc[t] = "create_scan" /\ disk' = disk /\ free_disk_blocks' = free_disk_blocks /\ dir = disk[b]
      /\ ThreadOK(t) /\ l \in LocType /\ Creates(t) /\ pc[t] \notin Unlinked /\ loc[t] = l
    BY DEF CreateScan, At, Inv, TypeOK, Creates, CreateLabels, Unlinked
<1>2. /\ l.new = <<>> /\ l.inode.type = "d" /\ l.k \in 1 .. size(l.inode)
      /\ Alive(l.node) /\ l.inode = disk[l.node] /\ l.inode.blocks[l.k] = b
      /\ \A i \in 1 .. l.k - 1, j \in 1 .. FS_DIRENTRIES :
            EntryAt(disk, l.node, i, j).inode_block # 0 => EntryAt(disk, l.node, i, j).name # name
      /\ l.spot # None => \E i \in 1 .. size(l.inode) : SpotFree(t, i)
    BY <1>1 DEF ThreadOK, CreateOK, InsideOK, Inside, Preparing
<1>3. dir \in direntries /\ b \in Blocks /\ size(l.inode) \in Nat
    BY <1>2 DEF Facts, InodeFacts
<1>4. \/ Fail(t)
      \/ /\ ~AlreadyExists(dir, name) /\ l.k = size(l.inode)
         /\ Continue(t, "alloc_inode", [l EXCEPT !.spot = spot])
      \/ /\ ~AlreadyExists(dir, name) /\ l.k # size(l.inode)
         /\ Continue(t, "create_scan", [l EXCEPT !.spot = spot, !.k = @ + 1])
    BY DEF CreateScan
<1>5. \/ spot = l.spot
      \/ \E j \in 1 .. FS_DIRENTRIES :
            spot = [block |-> b, slot |-> j, dir |-> dir] /\ dir.entries[j].inode_block = 0
    BY DEF Facts, FreeSlots
<1> HIDE DEF l, b, dir, spot, name
<1>6. CASE Fail(t)
    BY <1>1, <1>2, <1>6, FailQuiet DEF Unlinked
<1>7. spot \in SpotType \cup {None}
    <2>1. l.spot \in SpotType \cup {None}
        BY <1>1 DEF LocType
    <2> QED BY SMT, <1>3, <1>5, <2>1 DEF SpotType
<1>8. ASSUME ~AlreadyExists(dir, name)
      PROVE  \A i \in 1 .. l.k, j \in 1 .. FS_DIRENTRIES :
                EntryAt(disk, l.node, i, j).inode_block # 0 => EntryAt(disk, l.node, i, j).name # name
    <2> SUFFICES ASSUME NEW i \in 1 .. l.k, NEW j \in 1 .. FS_DIRENTRIES,
                        EntryAt(disk, l.node, i, j).inode_block # 0
                 PROVE  EntryAt(disk, l.node, i, j).name # name
        OBVIOUS
    <2>1. CASE i = l.k
        BY <1>1, <1>2, <1>8, <2>1 DEF AlreadyExists, Matches, EntryAt
    <2>2. CASE i # l.k
        <3>1. i \in 1 .. l.k - 1
            BY SMT, <1>2, <1>3, <2>2
        <3> QED BY <1>2, <3>1
    <2> QED BY <2>1, <2>2
<1>9. ASSUME NEW label \in {"alloc_inode", "create_scan"}, NEW value \in LocType, Continue(t, label, value),
             ~AlreadyExists(dir, name), value.new = <<>>, value.node = l.node, value.inode = l.inode,
             value.spot = spot, value.tinode = l.tinode,
             IF label = "alloc_inode" THEN l.k = size(l.inode)
             ELSE value.k = l.k + 1 /\ l.k # size(l.inode)
      PROVE  Quiet(t)
    <2>1. Proceeds(t) /\ pc'[t] = label /\ loc'[t] = value /\ req'[t] = req[t]
        <3>1. /\ Continue(t, label, value) /\ disk' = disk
              /\ value.node = loc[t].node /\ value.inode = loc[t].inode
            BY <1>1, <1>9 DEF l
        <3> QED BY <3>1, ContinueStill
    <2>2. Creates(t)' /\ pc'[t] \in CreateLabels /\ Filename(req[t])' = name
        BY <2>1 DEF Creates, CreateLabels, name
    <2>3. spot # None => \E i \in 1 .. size(l.inode) : SpotFree(t, i)'
        <3>1. ASSUME spot = l.spot, NEW i \in 1 .. size(l.inode), SpotFree(t, i) PROVE SpotFree(t, i)'
            BY <1>1, <1>9, <2>1, <3>1 DEF SpotFree
        <3>2. ASSUME NEW j \in 1 .. FS_DIRENTRIES, spot = [block |-> b, slot |-> j, dir |-> dir],
                     dir.entries[j].inode_block = 0, NEW i \in 1 .. size(l.inode), i = l.k
              PROVE  SpotFree(t, i)'
            <4>1. spot \in SpotType /\ spot.block = b /\ spot.slot = j /\ spot.dir = dir
                BY <1>3, <3>2 DEF SpotType
            <4>2. \A m : EntryAt(disk, l.node, l.k, m) = dir.entries[m]
                BY <1>1, <1>2 DEF EntryAt
            <4> QED BY SMT, <1>1, <1>2, <1>9, <2>1, <3>2, <4>1, <4>2 DEF SpotFree
        <3> QED BY <1>2, <1>5, <3>1, <3>2
    <2>4. CASE label = "alloc_inode"
        <3>1. NotIn(disk, l.node, name)
            BY <1>2, <1>8, <1>9, <2>4 DEF NotIn
        <3>2. CreateOK(t)'
            <4>1. Len(loc'[t].new) # 2
                BY SMT, <1>9, <2>1
            <4> QED BY <1>1, <1>2, <1>9, <2>1, <2>2, <2>3, <2>4, <3>1, <4>1 DEF CreateOK
        <3> QED BY <1>1, <2>1, <2>2, <3>2, <1>2, <1>9, <2>4, CreatingOK, ContinueQuiet DEF Labels, Unlinked
    <2>5. CASE label = "create_scan"
        <3>1. value.k \in 1 .. size(l.inode) /\ 1 .. value.k - 1 = 1 .. l.k
            BY SMT, <1>2, <1>3, <1>9, <2>5
        <3>2. CreateOK(t)'
            <4>1. Len(loc'[t].new) # 2
                BY SMT, <1>9, <2>1
            <4> QED BY <1>1, <1>2, <1>8, <1>9, <2>1, <2>2, <2>3, <2>5, <3>1, <4>1 DEF CreateOK
        <3> QED BY <1>1, <2>1, <2>2, <3>2, <1>2, <1>9, <2>5, CreatingOK, ContinueQuiet DEF Labels, Unlinked
    <2> QED BY <2>4, <2>5
<1>10. ASSUME ~AlreadyExists(dir, name), l.k = size(l.inode), Continue(t, "alloc_inode", [l EXCEPT !.spot = spot])
       PROVE  Quiet(t)
    <2> DEFINE value == [l EXCEPT !.spot = spot]
    <2>1. /\ value \in LocType /\ value.new = <<>> /\ value.node = l.node /\ value.inode = l.inode
          /\ value.spot = spot /\ value.tinode = l.tinode
        BY <1>1, <1>2, <1>7 DEF LocType
    <2>2. Continue(t, "alloc_inode", value)
        BY <1>10
    <2> HIDE DEF value
    <2> QED BY <1>9, <1>10, <2>1, <2>2
<1>11. ASSUME ~AlreadyExists(dir, name), l.k # size(l.inode),
              Continue(t, "create_scan", [l EXCEPT !.spot = spot, !.k = @ + 1])
       PROVE  Quiet(t)
    <2> DEFINE value == [l EXCEPT !.spot = spot, !.k = @ + 1]
    <2>1. /\ value \in LocType /\ value.new = <<>> /\ value.node = l.node /\ value.inode = l.inode
          /\ value.k = l.k + 1 /\ value.spot = spot /\ value.tinode = l.tinode
        <3>1. l.k + 1 \in Nat
            BY SMT, <1>1 DEF LocType
        <3>2. /\ value.k = l.k + 1 /\ value.spot = spot /\ value.new = l.new /\ value.node = l.node
              /\ value.inode = l.inode /\ value.tinode = l.tinode
            BY <1>1 DEF LocType
        <3>3. value \in LocType
            BY <1>1, <1>7, <3>1, <3>2 DEF LocType
        <3> QED BY <1>2, <3>2, <3>3
    <2>2. Continue(t, "create_scan", value)
        BY <1>11
    <2> HIDE DEF value
    <2> QED BY <1>9, <1>11, <2>1, <2>2
<1> QED BY <1>4, <1>6, <1>10, <1>11

-----------------------------------------------------------------------------
(* Blocks taken from the free list, and given back.                        *)

LEMMA ListsRange ==
    ASSUME NEW A, NEW f \in Seq(A), NEW S, Lists(f, S) PROVE Range(f) = S /\ FreeBlocksOf(f) = S
<1>1. DOMAIN f = 1 .. Len(f)
    BY SMT
<1> QED BY SMT, <1>1 DEF Lists, Range, FreeBlocksOf

LEMMA ListOne ==
    ASSUME NEW A, NEW b \in A PROVE <<b>> \in Seq(A) /\ Lists(<<b>>, {b})
BY SMT DEF Lists

LEMMA TakeQuiet ==
    ASSUME Inv, NEW t \in Threads, Alone(t), TypeOK', ThreadOK(t)', disk' = disk, data_locks' = data_locks,
           free_disk_blocks # <<>>, free_disk_blocks' = Tail(free_disk_blocks),
           OwnBlocks(t)' = OwnBlocks(t) \cup {Head(free_disk_blocks)}, pc[t] \notin Unlinked
    PROVE  Quiet(t)
<1> DEFINE f == free_disk_blocks
           S == FreeBlocksOf(f)
<1>1. f \in Seq(Blocks \ {0}) /\ Lists(f, S) /\ Accounted /\ f' \in Seq(Blocks \ {0})
    BY FreeLists DEF Inv, TypeOK
<1>2. Head(f) \in S /\ Lists(f', S \ {Head(f)})
    BY <1>1, ListTail
<1>3. FreeBlocksOf(f') = S \ {Head(f)}
    BY <1>1, <1>2, ListsRange
<1>4. /\ S \cap blocks_used(disk) = {} /\ S \cap OwnBlocks(t) = {} /\ OwnBlocks(t) \cap blocks_used(disk) = {}
    BY <1>1 DEF Accounted
<1>5. /\ Lists(free_disk_blocks', FreeBlocksOf(free_disk_blocks'))
      /\ FreeBlocksOf(free_disk_blocks') = FreeBlocksOf(free_disk_blocks) \ {Head(f)}
      /\ Head(f) \in FreeBlocksOf(free_disk_blocks)
    BY <1>2, <1>3
<1> HIDE DEF f, S
<1>6. OwnBlocks(t)' = OwnBlocks(t) \cup {Head(f)}
    BY DEF f
<1>7. Accounted'
    BY <1>1, <1>4, <1>5, <1>6, BlocksMove DEF S, f
<1> QED BY <1>7 DEF Quiet, PointersKept, Unlinked

LEMMA GiveQuiet ==
    ASSUME Inv, NEW t \in Threads, Alone(t), TypeOK', ThreadOK(t)', disk' = disk, PointersKept(t, data_locks'),
           NEW G, G \subseteq OwnBlocks(t), OwnBlocks(t)' = OwnBlocks(t) \ G,
           Lists(free_disk_blocks', FreeBlocksOf(free_disk_blocks) \cup G),
           pc[t] \in {"free_direntries", "upgrade_target"}
                => pc'[t] = "upgrade_target" /\ loc'[t].target = loc[t].target
    PROVE  Quiet(t)
<1>1. Accounted /\ free_disk_blocks' \in Seq(Blocks \ {0})
    BY DEF Inv, TypeOK
<1>2. FreeBlocksOf(free_disk_blocks') = FreeBlocksOf(free_disk_blocks) \cup G
    BY <1>1, ListsRange
<1>3. /\ FreeBlocksOf(free_disk_blocks) \cap blocks_used(disk) = {}
      /\ FreeBlocksOf(free_disk_blocks) \cap OwnBlocks(t) = {} /\ OwnBlocks(t) \cap blocks_used(disk) = {}
    BY <1>1 DEF Accounted
<1>4. Lists(free_disk_blocks', FreeBlocksOf(free_disk_blocks'))
    BY <1>2
<1>5. Accounted'
    BY <1>1, <1>2, <1>3, <1>4, BlocksMove
<1> QED BY <1>5 DEF Quiet

\* A request that fails and gives back the one block it owns.
LEMMA GiveBackQuiet ==
    ASSUME Inv, NEW t \in Threads, Alone(t), Fail(t), disk' = disk, pc[t] \notin {"idle"} \cup Unlinked,
           Len(loc[t].new) = 1, free_disk_blocks' = loc[t].new \o free_disk_blocks
    PROVE  Quiet(t)
<1> DEFINE b == loc[t].new[1]
<1>1. Return(t, "error") /\ TypeOK /\ ThreadOK(t) /\ Accounted
    BY DEF Fail, Inv
<1>2. loc[t].new \in Seq(Blocks \ {0}) /\ free_disk_blocks \in Seq(Blocks \ {0})
    BY <1>1 DEF TypeOK, LocType
<1>3. loc[t].new = <<b>> /\ b \in Blocks \ {0}
    BY SMT, <1>2
<1>4. free_disk_blocks' \in Seq(Blocks \ {0})
    BY SMT, <1>2
<1>5. TypeOK' /\ ThreadOK(t)' /\ PointersKept(t, data_locks')
    BY <1>1, <1>4, ReturnType, ReturnOK, ReturnPointers DEF TypeOK
<1>6. pc'[t] = "reply" /\ loc'[t] = FreshLoc
    BY <1>1 DEF TypeOK, Return, Goto, SetLoc
<1> HIDE DEF b
<1>7. Lists(<<b>>, {b}) /\ <<b>> \in Seq(Blocks \ {0})
    BY <1>3, ListOne
<1>8. Range(loc[t].new) = {b}
    BY <1>3, <1>7, ListsRange
<1>9. OwnBlocks(t)' = {} /\ OwnBlocks(t) = {b}
    <2>1. OwnBlocks(t)' = {}
        BY SMT, <1>6 DEF OwnBlocks, At, Range, FreshLoc
    <2>2. OwnBlocks(t) = {b}
        BY <1>8 DEF OwnBlocks, At, Unlinked
    <2> QED BY <2>1, <2>2
<1>10. Lists(free_disk_blocks, FreeBlocksOf(free_disk_blocks)) /\ {b} \cap FreeBlocksOf(free_disk_blocks) = {}
    BY <1>1, <1>9, FreeLists DEF Accounted
<1>11. Lists(free_disk_blocks', {b} \cup FreeBlocksOf(free_disk_blocks))
    BY <1>2, <1>3, <1>7, <1>10, ListConcat
<1>12. FreeBlocksOf(free_disk_blocks) \cup {b} = {b} \cup FreeBlocksOf(free_disk_blocks)
    OBVIOUS
<1> QED BY <1>5, <1>9, <1>11, <1>12, GiveQuiet DEF Unlinked

LEMMA ReturnInodeQuiet ==
    ASSUME Inv, NEW t \in Threads, Alone(t), ReturnInode(t) PROVE Quiet(t)
<1>1. /\ pc[t] = "return_inode" /\ Fail(t) /\ disk' = disk /\ free_disk_blocks' = loc[t].new \o free_disk_blocks
      /\ ThreadOK(t) /\ Creates(t)
    BY DEF ReturnInode, At, Inv, Creates, CreateLabels
<1>2. Len(loc[t].new) = 1
    BY <1>1 DEF ThreadOK, CreateOK
<1> QED BY <1>1, <1>2, GiveBackQuiet DEF Unlinked

\* The blocks of a thread that has not unlinked anything.
LEMMA OwnNew ==
    ASSUME NEW t, pc[t] \notin Unlinked PROVE OwnBlocks(t) = Range(loc[t].new)
BY DEF OwnBlocks, At, Unlinked

LEMMA OwnNewNext ==
    ASSUME NEW t, pc'[t] \notin Unlinked PROVE OwnBlocks(t)' = Range(loc'[t].new)
BY DEF OwnBlocks, At, Unlinked

\* A step that takes a block and goes on.
LEMMA TakeOn ==
    ASSUME Inv, NEW t \in Threads, Alone(t), NEW label \in Labels, NEW value \in LocType,
           Continue(t, label, value), disk' = disk, free_disk_blocks # <<>>,
           free_disk_blocks' = Tail(free_disk_blocks), pc[t] \notin Unlinked, label \notin Unlinked,
           value.new = Append(loc[t].new, Head(free_disk_blocks)), ThreadOK(t)'
    PROVE  Quiet(t)
<1> DEFINE b == Head(free_disk_blocks)
           f == loc[t].new
<1>1. free_disk_blocks \in Seq(Blocks \ {0}) /\ f \in Seq(Blocks \ {0}) /\ TypeOK
    BY DEF Inv, TypeOK, LocType
<1>2. b \in Blocks \ {0} /\ free_disk_blocks' \in Seq(Blocks \ {0})
    BY SMT, <1>1
<1>3. TypeOK'
    BY <1>1, <1>2, ContinueType DEF TypeOK
<1>4. pc'[t] = label /\ loc'[t] = value /\ data_locks' = data_locks
    BY <1>1 DEF TypeOK, Continue, Goto, SetLoc, KeepLocks
<1>5. OwnBlocks(t) = Range(f) /\ OwnBlocks(t)' = Range(Append(f, b))
    BY <1>4, OwnNew, OwnNewNext
<1> HIDE DEF b, f
<1>6. Range(Append(f, b)) = Range(f) \cup {b}
    <2> DEFINE g == Append(f, b)
    <2>1. /\ DOMAIN f = 1 .. Len(f) /\ DOMAIN g = 1 .. Len(f) + 1 /\ Len(f) \in Nat
          /\ g[Len(f) + 1] = b /\ \A i \in 1 .. Len(f) : g[i] = f[i]
        BY SMT, <1>1, <1>2
    <2> HIDE DEF g
    <2>2. \A i \in 1 .. Len(f) + 1 : i \in 1 .. Len(f) \/ i = Len(f) + 1
        BY SMT, <2>1
    <2>3. Len(f) + 1 \in DOMAIN g /\ \A i \in 1 .. Len(f) : i \in DOMAIN g
        BY SMT, <2>1
    <2>4. \A x : x \in Range(g) <=> x \in Range(f) \cup {b}
        BY <2>1, <2>2, <2>3 DEF Range
    <2>5. Range(g) = Range(f) \cup {b}
        BY <2>4
    <2> QED BY <2>5 DEF g
<1>7. OwnBlocks(t)' = OwnBlocks(t) \cup {Head(free_disk_blocks)}
    BY <1>5, <1>6 DEF b
<1> QED BY <1>3, <1>4, <1>7, TakeQuiet

\* The remembered entry filled in.
LEMMA SpotFilled ==
    ASSUME NEW spot \in SpotType, NEW e \in Direntry
    PROVE  LET s == [spot EXCEPT !.dir.entries[spot.slot] = e]
           IN  /\ s \in SpotType /\ s.block = spot.block /\ s.slot = spot.slot
               /\ s.dir.entries[spot.slot] = e
               /\ \A j \in 1 .. FS_DIRENTRIES : j # spot.slot => s.dir.entries[j] = spot.dir.entries[j]
<1> DEFINE s == [spot EXCEPT !.dir.entries[spot.slot] = e]
           entries == [spot.dir.entries EXCEPT ![spot.slot] = e]
<1>1. spot.slot \in 1 .. FS_DIRENTRIES /\ spot.dir \in direntries /\ spot.block \in Blocks
    BY DEF SpotType
<1>2. spot.dir.entries \in [1 .. FS_DIRENTRIES -> Direntry] /\ spot.dir.kind = "direntries"
    BY <1>1 DEF direntries
<1>3. /\ entries \in [1 .. FS_DIRENTRIES -> Direntry] /\ entries[spot.slot] = e
      /\ \A j \in 1 .. FS_DIRENTRIES : j # spot.slot => entries[j] = spot.dir.entries[j]
    BY <1>1, <1>2
<1>4. s = [spot EXCEPT !.dir = [spot.dir EXCEPT !.entries = entries]]
    BY <1>1, <1>2 DEF SpotType, direntries
<1> HIDE DEF entries
<1>5. [spot.dir EXCEPT !.entries = entries] \in direntries /\ [spot.dir EXCEPT !.entries = entries].entries = entries
    BY <1>1, <1>3 DEF direntries
<1>6. s.dir = [spot.dir EXCEPT !.entries = entries] /\ s.block = spot.block /\ s.slot = spot.slot
    BY <1>4 DEF SpotType
<1>7. s \in SpotType
    BY <1>1, <1>4, <1>5, <1>6 DEF SpotType
<1> QED BY <1>3, <1>5, <1>6, <1>7

LEMMA AllocInodeQuiet ==
    ASSUME Inv, Facts, NEW t \in Threads, Alone(t), AllocInode(t) PROVE Quiet(t)
<1> DEFINE l == loc[t]
           b == Head(free_disk_blocks)
           name == Filename(req[t])
           e == Entry(name, b)
<1>1. /\ pc[t] = "alloc_inode" /\ disk' = disk /\ ThreadOK(t) /\ l \in LocType /\ Creates(t)
      /\ pc[t] \notin Unlinked /\ loc[t] = l
    BY DEF AllocInode, At, Inv, TypeOK, Creates, CreateLabels, Unlinked
<1>2. /\ l.new = <<>> /\ l.inode.type = "d" /\ NotIn(disk, l.node, name)
      /\ l.spot # None => \E i \in 1 .. size(l.inode) : SpotFree(t, i)
      /\ req[t] \in RequestType /\ ~OutOfRange(req[t]) /\ l.spot \in SpotType \cup {None}
      /\ l.inode = disk[l.node] /\ l.node \in ReachableInodes(disk)
    BY <1>1 DEF ThreadOK, CallOK, CreateOK, LocType, InsideOK, Inside, Preparing
<1>3. name \in Names
    BY <1>2, PathLength
<1>4. \/ Fail(t) /\ free_disk_blocks' = free_disk_blocks
      \/ /\ free_disk_blocks # <<>> /\ free_disk_blocks' = Tail(free_disk_blocks)
         /\ \/ /\ l.spot # None
               /\ Continue(t, "write_inode", [[l EXCEPT !.new = <<b>>] EXCEPT !.spot.dir.entries[l.spot.slot] = e])
            \/ /\ l.spot = None /\ size(l.inode) = FS_MAXFILEBLOCKS
               /\ Continue(t, "return_inode", [l EXCEPT !.new = <<b>>])
            \/ /\ l.spot = None /\ size(l.inode) # FS_MAXFILEBLOCKS
               /\ Continue(t, "alloc_direntries", [l EXCEPT !.new = <<b>>])
    BY DEF AllocInode
<1>5. ASSUME free_disk_blocks # <<>> PROVE b \in Blocks \ {0} /\ e \in Direntry /\ e = Entry(name, b)
    <2>1. b \in Blocks \ {0}
        BY SMT, <1>5 DEF Inv, TypeOK
    <2> QED BY <1>3, <2>1 DEF Entry, Direntry
<1>6. b = Head(free_disk_blocks) /\ name = Filename(req[t]) /\ Append(<<>>, b) = <<b>>
      /\ Len(<<b>>) = 1 /\ <<b>>[1] = b
    BY SMT
<1> HIDE DEF l, b, name, e
<1>7. CASE Fail(t) /\ free_disk_blocks' = free_disk_blocks
    BY <1>1, <1>2, <1>7, FailQuiet DEF Unlinked
<1>8. ASSUME NEW label \in {"write_inode", "return_inode", "alloc_direntries"}, NEW value \in LocType,
             Continue(t, label, value), free_disk_blocks # <<>>, free_disk_blocks' = Tail(free_disk_blocks),
             value.new = <<b>>, value.node = l.node, value.inode = l.inode, value.tinode = l.tinode,
             label # "write_inode" => value.spot = None,
             label = "write_inode" =>
                /\ l.spot # None /\ value.spot # None /\ value.spot \in SpotType
                /\ value.spot.block = l.spot.block /\ value.spot.slot = l.spot.slot
                /\ value.spot.dir.entries[l.spot.slot] = e
                /\ \A j \in 1 .. FS_DIRENTRIES : j # l.spot.slot => value.spot.dir.entries[j] = l.spot.dir.entries[j],
             label = "alloc_direntries" => size(l.inode) < FS_MAXFILEBLOCKS
      PROVE  Quiet(t)
    <2>1. Proceeds(t) /\ pc'[t] = label /\ loc'[t] = value /\ req'[t] = req[t]
        <3>1. /\ Continue(t, label, value) /\ disk' = disk
              /\ value.node = loc[t].node /\ value.inode = loc[t].inode
            BY <1>1, <1>8 DEF l
        <3> QED BY <3>1, ContinueStill
    <2>2. Creates(t)' /\ pc'[t] \in CreateLabels /\ Filename(req[t])' = name
        BY <1>6, <2>1 DEF Creates, CreateLabels
    <2>3. value.spot # None => \E i \in 1 .. size(l.inode) : SpotFree(t, i)'
        <3>1. ASSUME value.spot # None, NEW i \in 1 .. size(l.inode), SpotFree(t, i) PROVE SpotFree(t, i)'
            BY <1>1, <1>8, <2>1, <3>1 DEF SpotFree
        <3> QED BY <1>2, <1>8, <3>1
    <2>4. CreateOK(t)'
        <3>1. label = "write_inode" => value.spot.dir.entries[value.spot.slot] = Entry(name, value.new[1])
            BY <1>5, <1>6, <1>8
        <3>2. Len(value.new) = 1
            BY <1>6, <1>8
        <3>3. /\ loc'[t].inode.type = "d" /\ NotIn(disk', loc'[t].node, Filename(req'[t]))
              /\ loc'[t].spot # None => \E i \in 1 .. size(loc'[t].inode) : SpotFree(t, i)'
              /\ Len(loc'[t].new) = 1
            BY <1>1, <1>2, <1>6, <1>8, <2>1, <2>3, <3>2
        <3>7. Len(loc'[t].new) # 2
            BY SMT, <3>3
        <3>4. CASE label = "write_inode"
            BY <1>6, <1>8, <2>1, <3>1, <3>3, <3>4, <3>7 DEF CreateOK
        <3>5. CASE label = "return_inode"
            BY <1>8, <2>1, <3>3, <3>5, <3>7 DEF CreateOK
        <3>6. CASE label = "alloc_direntries"
            BY <1>8, <2>1, <3>3, <3>6, <3>7 DEF CreateOK
        <3> QED BY <3>4, <3>5, <3>6
    <2>5. ThreadOK(t)'
        BY <1>1, <1>8, <2>1, <2>2, <2>4, CreatingOK
    <2>6. label \in Labels /\ label \notin Unlinked /\ value.new = Append(loc[t].new, Head(free_disk_blocks))
        BY <1>1, <1>2, <1>6, <1>8 DEF Labels, Unlinked
    <2> QED BY <1>1, <1>8, <2>5, <2>6, TakeOn
<1>9. ASSUME free_disk_blocks # <<>>, l.spot = None
      PROVE  LET value == [l EXCEPT !.new = <<b>>]
             IN  /\ value \in LocType /\ value.new = <<b>> /\ value.node = l.node /\ value.inode = l.inode
                 /\ value.tinode = l.tinode /\ value.spot = None
    <2>1. <<b>> \in Seq(Blocks \ {0})
        BY SMT, <1>5, <1>9
    <2> QED BY <1>1, <1>9, <2>1 DEF LocType
<1>10. size(l.inode) \in Nat /\ size(l.inode) <= FS_MAXFILEBLOCKS
    BY <1>2 DEF Facts, Alive, InodeFacts
<1>11. ASSUME free_disk_blocks # <<>>, free_disk_blocks' = Tail(free_disk_blocks), l.spot = None,
              NEW label \in {"return_inode", "alloc_direntries"}, Continue(t, label, [l EXCEPT !.new = <<b>>]),
              label = "alloc_direntries" => size(l.inode) # FS_MAXFILEBLOCKS
       PROVE  Quiet(t)
    <2> DEFINE value == [l EXCEPT !.new = <<b>>]
    <2>1. /\ value \in LocType /\ value.new = <<b>> /\ value.node = l.node /\ value.inode = l.inode
          /\ value.tinode = l.tinode /\ value.spot = None /\ Continue(t, label, value)
        BY <1>9, <1>11
    <2>2. label = "alloc_direntries" => size(l.inode) < FS_MAXFILEBLOCKS
        BY SMT, <1>10, <1>11, SizesAssumption
    <2> HIDE DEF value
    <2> QED BY <1>8, <1>11, <2>1, <2>2
<1>12. ASSUME free_disk_blocks # <<>>, free_disk_blocks' = Tail(free_disk_blocks), l.spot # None,
              Continue(t, "write_inode", [[l EXCEPT !.new = <<b>>] EXCEPT !.spot.dir.entries[l.spot.slot] = e])
       PROVE  Quiet(t)
    <2> DEFINE s == [l.spot EXCEPT !.dir.entries[l.spot.slot] = e]
               value == [[l EXCEPT !.new = <<b>>] EXCEPT !.spot.dir.entries[l.spot.slot] = e]
    <2>1. <<b>> \in Seq(Blocks \ {0}) /\ l.spot \in SpotType /\ e \in Direntry
        BY SMT, <1>2, <1>5, <1>12
    <2>2. /\ s \in SpotType /\ s.block = l.spot.block /\ s.slot = l.spot.slot /\ s.dir.entries[l.spot.slot] = e
          /\ \A j \in 1 .. FS_DIRENTRIES : j # l.spot.slot => s.dir.entries[j] = l.spot.dir.entries[j]
        BY <2>1, SpotFilled
    <2>3. value = [[l EXCEPT !.new = <<b>>] EXCEPT !.spot = s]
        BY <1>1 DEF LocType
    <2> HIDE DEF s
    <2>4. /\ value \in LocType /\ value.new = <<b>> /\ value.node = l.node /\ value.inode = l.inode
          /\ value.tinode = l.tinode /\ value.spot = s
        BY <1>1, <2>1, <2>2, <2>3 DEF LocType
    <2>5. Continue(t, "write_inode", value) /\ s # None
        BY <1>12, <2>2, NoneAssumption
    <2> HIDE DEF value
    <2> QED BY <1>8, <1>12, <2>2, <2>4, <2>5
<1> QED BY <1>4, <1>7, <1>11, <1>12

LEMMA AppendOne ==
    ASSUME NEW A, NEW f \in Seq(A), NEW b \in A, NEW g, g = Append(f, b)
    PROVE  /\ g \in Seq(A) /\ Len(g) = Len(f) + 1 /\ g[Len(f) + 1] = b
           /\ Len(f) \in Nat /\ \A i \in 1 .. Len(f) : g[i] = f[i]
<1>1. g \in Seq(A)
    BY SMT
<1>2. Len(g) = Len(f) + 1 /\ g[Len(f) + 1] = b
    BY SMT
<1>3. Len(f) \in Nat /\ \A i \in 1 .. Len(f) : g[i] = f[i]
    BY SMT
<1> QED BY <1>1, <1>2, <1>3

LEMMA AppendTwo ==
    ASSUME NEW A, NEW f \in Seq(A), Len(f) = 1, NEW b \in A, NEW g, g = Append(f, b)
    PROVE  g \in Seq(A) /\ Len(g) = 2 /\ g[1] = f[1] /\ g[2] = b
<1>1. /\ g \in Seq(A) /\ Len(g) = Len(f) + 1 /\ g[Len(f) + 1] = b
      /\ \A i \in 1 .. Len(f) : g[i] = f[i]
    BY SMT, AppendOne
<1>2. 1 \in 1 .. Len(f) /\ Len(f) + 1 = 2
    BY SMT
<1> QED BY <1>1, <1>2

LEMMA HeadFacts ==
    ASSUME NEW A, NEW f \in Seq(A), f # <<>> PROVE Head(f) \in A /\ Head(f) = f[1] /\ Len(f) >= 1
BY SMT

LEMMA AllocDirentriesQuiet ==
    ASSUME Inv, Facts, NEW t \in Threads, Alone(t), AllocDirentries(t) PROVE Quiet(t)
<1> DEFINE l == loc[t]
           b == Head(free_disk_blocks)
           value == [l EXCEPT !.new = Append(@, b)]
<1>1. /\ pc[t] = "alloc_direntries" /\ disk' = disk /\ ThreadOK(t) /\ l \in LocType /\ Creates(t)
      /\ pc[t] \notin Unlinked /\ loc[t] = l /\ l.new \in Seq(Blocks \ {0})
      /\ free_disk_blocks \in Seq(Blocks \ {0})
    BY DEF AllocDirentries, At, Inv, TypeOK, Creates, CreateLabels, Unlinked, LocType
<1>2. /\ Len(l.new) = 1 /\ l.spot = None /\ l.inode.type = "d" /\ NotIn(disk, l.node, Filename(req[t]))
      /\ size(l.inode) < FS_MAXFILEBLOCKS
    BY <1>1 DEF ThreadOK, CreateOK
<1>3. \/ free_disk_blocks = <<>> /\ free_disk_blocks' = l.new /\ Fail(t)
      \/ /\ free_disk_blocks # <<>> /\ free_disk_blocks' = Tail(free_disk_blocks)
         /\ Continue(t, "write_direntries", value)
    BY DEF AllocDirentries
<1>4. CASE free_disk_blocks = <<>> /\ free_disk_blocks' = l.new /\ Fail(t)
    <2>1. loc[t].new \o free_disk_blocks = loc[t].new
        BY SMT, <1>1, <1>4
    <2> QED BY <1>1, <1>2, <1>4, <2>1, GiveBackQuiet
<1>5. CASE /\ free_disk_blocks # <<>> /\ free_disk_blocks' = Tail(free_disk_blocks)
           /\ Continue(t, "write_direntries", value)
    <2>1. b \in Blocks \ {0} /\ b = free_disk_blocks[1] /\ Len(free_disk_blocks) >= 1
        BY <1>1, <1>5, HeadFacts
    <2> DEFINE n == Append(l.new, b)
    <2>2. n \in Seq(Blocks \ {0}) /\ Len(n) = 2 /\ n[1] = l.new[1] /\ n[2] = b
        <3>1. n = Append(l.new, b)
            OBVIOUS
        <3> HIDE DEF n
        <3> QED BY SMT, <1>1, <1>2, <2>1, <3>1, AppendTwo
    <2>3. l.new[1] # b
        <3>1. b \in FreeBlocksOf(free_disk_blocks)
            BY SMT, <1>1, <2>1 DEF FreeBlocksOf
        <3>2. l.new[1] \in OwnBlocks(t)
            <4>1. 1 \in DOMAIN l.new
                BY SMT, <1>1, <1>2
            <4>2. l.new[1] \in Range(l.new)
                BY <4>1 DEF Range
            <4> QED BY <1>1, <4>2, OwnNew
        <3> QED BY <3>1, <3>2 DEF Inv, Accounted
    <2>4. value \in LocType /\ value.new = n /\ value.node = l.node
          /\ value.inode = l.inode /\ value.tinode = l.tinode /\ value.spot = None
        <3>1. value = [l EXCEPT !.new = n]
            BY <1>1 DEF LocType
        <3> HIDE DEF n, value
        <3> QED BY <1>1, <1>2, <2>2, <3>1 DEF LocType
    <2> HIDE DEF n, value
    <2>10. value.new = Append(loc[t].new, Head(free_disk_blocks))
        BY <2>4 DEF n
    <2>5. Proceeds(t) /\ pc'[t] = "write_direntries" /\ loc'[t] = value /\ req'[t] = req[t]
        <3>1. /\ Continue(t, "write_direntries", value) /\ disk' = disk
              /\ value.node = loc[t].node /\ value.inode = loc[t].inode
            BY <1>1, <1>5, <2>4 DEF l
        <3> QED BY <3>1, ContinueStill
    <2>6. Creates(t)' /\ pc'[t] \in CreateLabels
        BY <2>5 DEF Creates, CreateLabels
    <2>7. CreateOK(t)'
        BY <1>1, <1>2, <2>2, <2>3, <2>4, <2>5 DEF CreateOK
    <2>8. ThreadOK(t)'
        BY <1>1, <2>4, <2>5, <2>6, <2>7, CreatingOK
    <2>9. "write_direntries" \in Labels /\ "write_direntries" \notin Unlinked
        BY DEF Labels, Unlinked
    <2> QED BY <1>1, <1>5, <2>4, <2>8, <2>9, <2>10, TakeOn
<1> QED BY <1>3, <1>4, <1>5

LEMMA AllocDataQuiet ==
    ASSUME Inv, NEW t \in Threads, Alone(t), AllocData(t) PROVE Quiet(t)
<1> DEFINE l == loc[t]
           b == Head(free_disk_blocks)
           value == [l EXCEPT !.new = <<b>>]
<1>1. /\ pc[t] = "alloc_data" /\ disk' = disk /\ ThreadOK(t) /\ l \in LocType /\ Writes(t)
      /\ pc[t] \notin Unlinked /\ loc[t] = l /\ ~Creates(t)
      /\ free_disk_blocks \in Seq(Blocks \ {0})
    BY DEF AllocData, At, Inv, TypeOK, Creates, CreateLabels, Writes, WriteLabels, Unlinked, LocType
<1>2. l.new = <<>> /\ l.inode.type = "f" /\ req[t].block = size(l.inode)
    BY <1>1 DEF ThreadOK, WriteOK
<1>3. \/ Fail(t) /\ free_disk_blocks' = free_disk_blocks
      \/ /\ free_disk_blocks # <<>> /\ free_disk_blocks' = Tail(free_disk_blocks)
         /\ Continue(t, "write_data", value)
    BY DEF AllocData
<1>4. CASE Fail(t) /\ free_disk_blocks' = free_disk_blocks
    BY <1>1, <1>2, <1>4, FailQuiet DEF Unlinked
<1>5. CASE /\ free_disk_blocks # <<>> /\ free_disk_blocks' = Tail(free_disk_blocks)
           /\ Continue(t, "write_data", value)
    <2>1. b \in Blocks \ {0}
        BY SMT, <1>1, <1>5
    <2>2. <<b>> \in Seq(Blocks \ {0}) /\ Len(<<b>>) = 1 /\ <<b>> = Append(l.new, b)
        BY SMT, <1>2, <2>1
    <2>4. value \in LocType /\ value.new = <<b>> /\ value.node = l.node
          /\ value.inode = l.inode /\ value.tinode = l.tinode /\ value.spot = l.spot
        BY <1>1, <1>2, <2>2 DEF LocType
    <2>5. Proceeds(t) /\ pc'[t] = "write_data" /\ loc'[t] = value /\ req'[t] = req[t]
        <3>1. /\ Continue(t, "write_data", value) /\ disk' = disk
              /\ value.node = loc[t].node /\ value.inode = loc[t].inode
            BY <1>1, <1>5, <2>4 DEF l
        <3> HIDE DEF l, value
        <3> QED BY <3>1, ContinueStill
    <2>6. Writes(t)' /\ pc'[t] \in WriteLabels
        BY <2>5 DEF Writes, WriteLabels
    <2>7. WriteOK(t)'
        BY <1>1, <1>2, <2>2, <2>4, <2>5 DEF WriteOK
    <2>8. ThreadOK(t)'
        BY <1>1, <2>4, <2>5, <2>6, <2>7, WritingOK
    <2>9. "write_data" \in Labels /\ "write_data" \notin Unlinked
        BY DEF Labels, Unlinked
    <2> QED BY <1>1, <1>5, <2>2, <2>4, <2>8, <2>9, TakeOn
<1> QED BY <1>3, <1>4, <1>5

-----------------------------------------------------------------------------
(* After the target is unlinked.                                           *)

\* The blocks that a delete gives back at its end.
LEMMA FreedLists ==
    ASSUME Inv, Facts, NEW t \in Threads, pc[t] \in Unlinked
    PROVE  LET f == FreedBlocks(loc[t])
           IN  f \in Seq(Blocks \ {0}) /\ Lists(f, Range(f))
<1> DEFINE l == loc[t]
           s == IF l.tinode.type = "f" THEN l.tinode.blocks ELSE <<>>
           b == l.target
<1>1. /\ l.tinode.blocks \in Seq(Blocks \ {0}) /\ b \in Blocks \ {0}
      /\ \A i, j \in 1 .. Len(l.tinode.blocks) : l.tinode.blocks[i] = l.tinode.blocks[j] => i = j
      /\ \A i \in 1 .. Len(l.tinode.blocks) : l.tinode.blocks[i] # b
    BY DEF Facts, PlaceFacts, Inv, ThreadOK, DeleteOK, size
<1>2. /\ s \in Seq(Blocks \ {0}) /\ \A i, j \in 1 .. Len(s) : s[i] = s[j] => i = j
      /\ \A i \in 1 .. Len(s) : s[i] # b
    BY SMT, <1>1
<1>3. FreedBlocks(l) = s \o <<b>>
    BY DEF FreedBlocks
<1> HIDE DEF s, b, l
<1>4. Lists(s, FreeBlocksOf(s)) /\ b \notin FreeBlocksOf(s)
    BY <1>2 DEF Lists, FreeBlocksOf
<1>5. <<b>> \in Seq(Blocks \ {0}) /\ Lists(<<b>>, {b})
    BY <1>1, ListOne
<1>6. Lists(s \o <<b>>, FreeBlocksOf(s) \cup {b}) /\ s \o <<b>> \in Seq(Blocks \ {0})
    <2>1. FreeBlocksOf(s) \cap {b} = {}
        BY <1>4
    <2>3. Lists(s \o <<b>>, FreeBlocksOf(s) \cup {b})
        BY <1>2, <1>4, <1>5, <2>1, ListConcat
    <2>2. s \o <<b>> \in Seq(Blocks \ {0})
        BY SMT, <1>2, <1>5
    <2> QED BY <2>2, <2>3
<1>7. Range(s \o <<b>>) = FreeBlocksOf(s) \cup {b}
    BY <1>6, ListsRange
<1> QED BY <1>3, <1>6, <1>7 DEF l

LEMMA UnlinkedOwn ==
    ASSUME Inv, NEW t \in Threads, pc[t] \in Unlinked
    PROVE  OwnBlocks(t) = Range(FreedBlocks(loc[t]))
                          \cup (IF pc[t] = "free_direntries" THEN {loc[t].spot.block} ELSE {})
<1>1. loc[t].new = <<>>
    BY DEF Inv, ThreadOK, FrameOK, Creates, Writes, CreateLabels, WriteLabels, Unlinked
<1>2. Range(loc[t].new) = {}
    BY SMT, <1>1 DEF Range
<1> QED BY <1>2 DEF OwnBlocks, At, Unlinked

\* A delete goes on after it has unlinked its target.
LEMMA UnlinkedOK ==
    ASSUME Inv, NEW t \in Threads, Alone(t), pc[t] \in Unlinked,
           pc'[t] \in {"upgrade_target", "erase_lock", "free_blocks"}, disk' = disk,
           req'[t] = req[t], nxt'[t] = nxt[t], loc'[t] = loc[t],
           pc'[t] # "free_blocks" => pc[t] # "free_blocks" /\ data_locks' = data_locks
    PROVE  ThreadOK(t)' /\ OwnBlocks(t)' = Range(FreedBlocks(loc[t]))
<1>1. /\ CallOK(t) /\ FrameOK(t) /\ PointersOK(t) /\ DeleteOK(t)
      /\ ~Creates(t) /\ ~Writes(t) /\ ~Creates(t)' /\ ~Writes(t)' /\ ~Found(t)' /\ Fetched(t) /\ Fetched(t)'
      /\ pc'[t] \in Unlinked /\ ~Here(t)' /\ pc'[t] \in DeleteLabels /\ pc[t] \in DeleteLabels
    BY DEF Inv, ThreadOK, Creates, Writes, Found, Fetched, Here, Unlinked, CreateLabels, WriteLabels,
           DeleteLabels, Inside, Preparing, Changing
<1>2. CallOK(t)'
    BY <1>1 DEF CallOK, CreateLabels, DeleteLabels, WriteLabels, Unlinked, Op
<1>3. FrameOK(t)'
    BY <1>1 DEF FrameOK, Outside, Unlinked
<1>4. PointersOK(t)'
    BY <1>1 DEF PointersOK
<1>5. WalkOK(t)' /\ InsideOK(t)'
    BY DEF WalkOK, InsideOK, Walking, Inside, Preparing, Changing
<1>6. CreateOK(t)' /\ WriteOK(t)'
    BY <1>1 DEF CreateOK, WriteOK
<1>7. DeleteOK(t)'
    BY <1>1 DEF DeleteOK, Unlinked
<1>8. OwnBlocks(t)' = Range(FreedBlocks(loc[t]))
    <2>1. Range(loc[t].new) = {}
        BY SMT, <1>1 DEF FrameOK, Range
    <2> QED BY <2>1 DEF OwnBlocks, At
<1> QED BY <1>2, <1>3, <1>4, <1>5, <1>6, <1>7, <1>8 DEF ThreadOK

LEMMA FreeDirentriesQuiet ==
    ASSUME Inv, Facts, NEW t \in Threads, Alone(t), FreeDirentries(t) PROVE Quiet(t)
<1> DEFINE b == loc[t].spot.block
           f == FreedBlocks(loc[t])
<1>1. /\ pc[t] = "free_direntries" /\ pc'[t] = "upgrade_target" /\ disk' = disk /\ data_locks' = data_locks
      /\ req' = req /\ nxt' = nxt /\ loc' = loc /\ cur' = cur /\ pc[t] \in Unlinked
      /\ free_disk_blocks' = Append(free_disk_blocks, b) /\ resp' = resp /\ issued' = issued
      /\ hold' = [hold EXCEPT ![t] = {<<nxt[t], "upgrade">>}] /\ pc' = [pc EXCEPT ![t] = "upgrade_target"]
    BY DEF FreeDirentries, At, Goto, UnlockParent, KeepCall, Unlinked, Inv, TypeOK
<1>2. /\ TypeOK /\ b \in Blocks \ {0} /\ b # loc[t].target /\ loc[t].spot \in SpotType
      /\ \A i \in 1 .. size(loc[t].tinode) : loc[t].tinode.blocks[i] # b
      /\ nxt[t] \in LockObjects
    BY <1>1 DEF Inv, ThreadOK, DeleteOK, SpotType, PointersOK, Fetched
<1>3. f \in Seq(Blocks \ {0}) /\ Lists(f, Range(f))
    BY <1>1, FreedLists
<1>4. b \notin Range(f)
    <2> DEFINE s == IF loc[t].tinode.type = "f" THEN loc[t].tinode.blocks ELSE <<>>
    <2>1. loc[t].tinode.blocks \in Seq(Blocks \ {0}) /\ loc[t].target \in Blocks \ {0}
        BY <1>1 DEF Facts, PlaceFacts, Inv, ThreadOK, DeleteOK
    <2>2. /\ s \in Seq(Blocks \ {0}) /\ \A i \in 1 .. Len(s) : s[i] # b
          /\ f = s \o <<loc[t].target>>
        BY SMT, <1>2, <2>1 DEF size, FreedBlocks
    <2> HIDE DEF s, f
    <2>3. \A i \in 1 .. Len(f) : f[i] # b
        BY SMT, <1>2, <2>1, <2>2
    <2>4. DOMAIN f = 1 .. Len(f)
        BY SMT, <1>3
    <2> QED BY <2>3, <2>4 DEF Range
<1>5. OwnBlocks(t) = Range(f) \cup {b}
    BY <1>1, UnlinkedOwn
<1>6. ThreadOK(t)' /\ OwnBlocks(t)' = Range(f)
    BY <1>1, UnlinkedOK
<1> HIDE DEF b, f
<1>7. Append(free_disk_blocks, b) = free_disk_blocks \o <<b>> /\ free_disk_blocks \in Seq(Blocks \ {0})
    BY SMT, <1>2 DEF TypeOK
<1>8. Lists(free_disk_blocks', FreeBlocksOf(free_disk_blocks) \cup {b})
      /\ free_disk_blocks' \in Seq(Blocks \ {0})
    <2>1. <<b>> \in Seq(Blocks \ {0}) /\ Lists(<<b>>, {b}) /\ Lists(free_disk_blocks, FreeBlocksOf(free_disk_blocks))
        BY <1>2, ListOne, FreeLists
    <2>2. {b} \cap FreeBlocksOf(free_disk_blocks) = {}
        BY <1>5 DEF Inv, Accounted
    <2>3. Lists(free_disk_blocks \o <<b>>, FreeBlocksOf(free_disk_blocks) \cup {b})
        BY <1>7, <2>1, <2>2, ListConcat
    <2> QED BY SMT, <1>1, <1>2, <1>7, <2>1, <2>3
<1>9. TypeOK'
    <2>1. {<<nxt[t], "upgrade">>} \in SUBSET (LockObjects \X Modes) /\ "upgrade_target" \in Labels
        BY SMT, <1>2 DEF Modes, Labels
    <2>2. hold' \in [Threads -> SUBSET (LockObjects \X Modes)] /\ pc' \in [Threads -> Labels]
        BY <1>1, <1>2, <2>1 DEF TypeOK
    <2> QED BY <1>1, <1>2, <1>8, <2>2 DEF TypeOK
<1>10. {b} \subseteq OwnBlocks(t) /\ OwnBlocks(t)' = OwnBlocks(t) \ {b} /\ PointersKept(t, data_locks')
    BY <1>1, <1>4, <1>5, <1>6 DEF PointersKept
<1> QED BY <1>1, <1>6, <1>8, <1>9, <1>10, GiveQuiet

LEMMA FreeBlocksQuiet ==
    ASSUME Inv, Facts, NEW t \in Threads, Alone(t), FreeBlocks(t) PROVE Quiet(t)
<1> DEFINE f == FreedBlocks(loc[t])
<1>1. /\ pc[t] = "free_blocks" /\ pc[t] \in Unlinked /\ Return(t, "ok") /\ disk' = disk
      /\ free_disk_blocks' = free_disk_blocks \o f
    BY DEF FreeBlocks, At, Unlinked
<1>2. f \in Seq(Blocks \ {0}) /\ Lists(f, Range(f)) /\ OwnBlocks(t) = Range(f)
    BY <1>1, FreedLists, UnlinkedOwn
<1> HIDE DEF f
<1>3. /\ free_disk_blocks \in Seq(Blocks \ {0}) /\ Lists(free_disk_blocks, FreeBlocksOf(free_disk_blocks))
      /\ Range(f) \cap FreeBlocksOf(free_disk_blocks) = {} /\ TypeOK /\ ThreadOK(t)
    BY <1>2, FreeLists DEF Inv, Accounted
<1>4. Lists(free_disk_blocks', FreeBlocksOf(free_disk_blocks) \cup Range(f))
      /\ free_disk_blocks' \in Seq(Blocks \ {0})
    <2>1. Lists(free_disk_blocks \o f, FreeBlocksOf(free_disk_blocks) \cup Range(f))
        BY <1>2, <1>3, ListConcat
    <2> QED BY SMT, <1>1, <1>2, <1>3, <2>1
<1>5. disk' \in [Blocks -> Contents] /\ "ok" \in Data \cup {None, "ok", "error"}
    BY <1>1, <1>3 DEF TypeOK
<1>6. TypeOK' /\ ThreadOK(t)' /\ PointersKept(t, data_locks')
    BY <1>1, <1>3, <1>4, <1>5, ReturnType, ReturnOK, ReturnPointers
<1>7. pc'[t] = "reply" /\ loc'[t] = FreshLoc
    BY <1>1, <1>3 DEF TypeOK, Return, Goto, SetLoc
<1>8. OwnBlocks(t)' = {}
    BY SMT, <1>7 DEF OwnBlocks, At, Range, FreshLoc
<1> QED BY <1>1, <1>2, <1>4, <1>6, <1>8, GiveQuiet

-----------------------------------------------------------------------------
(* Writes to a thread's own blocks.                                        *)

\* Where the thread is nothing changes.
LEMMA OwnDisk ==
    ASSUME Inv, Facts, NEW t \in Threads, NEW b \in OwnBlocks(t), NEW c \in Contents,
           Write(b, c), loc[t].node \in ReachableInodes(disk)
    PROVE  /\ disk' \in [Blocks -> Contents] /\ disk'[b] = c
           /\ \A x \in Blocks : x # b => disk'[x] = disk[x]
           /\ disk'[loc[t].node] = disk[loc[t].node]
           /\ \A i \in 1 .. size(disk[loc[t].node]) :
                disk'[disk[loc[t].node].blocks[i]] = disk[disk[loc[t].node].blocks[i]]
<1> DEFINE n == loc[t].node
<1>1. disk \in [Blocks -> Contents] /\ n \in ReachableInodes(disk)
    BY DEF Inv, TypeOK
<1>2. InodeFacts(n) /\ PlaceFacts(t)
    BY <1>1 DEF Facts, Alive
<1>3. /\ b \in Blocks /\ b # n /\ n \in Blocks
      /\ \A i \in 1 .. size(disk[n]) : disk[n].blocks[i] \in Blocks /\ disk[n].blocks[i] # b
    BY <1>1, <1>2 DEF InodeFacts, PlaceFacts
<1> HIDE DEF n
<1>4. /\ disk' \in [Blocks -> Contents] /\ disk'[b] = c /\ \A x \in Blocks : x # b => disk'[x] = disk[x]
    BY <1>1, <1>3 DEF Write
<1>5. disk'[n] = disk[n] /\ \A i \in 1 .. size(disk[n]) : disk'[disk[n].blocks[i]] = disk[disk[n].blocks[i]]
    BY <1>3, <1>4
<1> QED BY <1>4, <1>5 DEF n

LEMMA ContinueWrites ==
    ASSUME Inv, NEW t \in Threads, NEW label \in Labels, Continue(t, label, loc[t]),
           NEW b \in OwnBlocks(t), NEW c \in Contents, Write(b, c),
           disk' \in [Blocks -> Contents], free_disk_blocks' = free_disk_blocks,
           pc[t] \notin Unlinked, label \notin Unlinked,
           ReachableInodes(disk') = ReachableInodes(disk) => ThreadOK(t)'
    PROVE  OwnWrite(t)
<1>1. TypeOK /\ loc[t] \in LocType
    BY DEF Inv, TypeOK
<1>2. TypeOK'
    BY <1>1, ContinueType DEF TypeOK
<1>3. pc'[t] = label /\ loc'[t] = loc[t] /\ data_locks' = data_locks
    BY <1>1 DEF TypeOK, Continue, Goto, SetLoc, KeepLocks
<1>4. OwnBlocks(t)' = OwnBlocks(t)
    BY <1>3, OwnNew, OwnNewNext
<1> QED BY <1>2, <1>3, <1>4 DEF OwnWrite

\* What create knows of its directory stays true.
LEMMA CreateStays ==
    ASSUME NEW t \in Threads, disk'[loc[t].node] = disk[loc[t].node],
           \A i \in 1 .. size(disk[loc[t].node]) :
                disk'[disk[loc[t].node].blocks[i]] = disk[disk[loc[t].node].blocks[i]],
           loc'[t] = loc[t], loc[t].inode = disk[loc[t].node], NEW name
    PROVE  /\ NotIn(disk, loc[t].node, name) => NotIn(disk', loc[t].node, name)
           /\ \A i \in 1 .. size(loc[t].inode) : SpotFree(t, i) => SpotFree(t, i)'
<1>1. \A i \in 1 .. size(disk[loc[t].node]), j \in 1 .. FS_DIRENTRIES :
        EntryAt(disk', loc[t].node, i, j) = EntryAt(disk, loc[t].node, i, j)
    BY DEF EntryAt
<1>2. NotIn(disk, loc[t].node, name) => NotIn(disk', loc[t].node, name)
    BY <1>1 DEF NotIn
<1>3. ASSUME NEW i \in 1 .. size(loc[t].inode), SpotFree(t, i) PROVE SpotFree(t, i)'
    <2>1. loc[t].spot \in SpotType
        BY <1>3 DEF SpotFree
    <2>2. loc[t].spot.slot \in 1 .. FS_DIRENTRIES
        BY <2>1 DEF SpotType
    <2>3. \A j \in 1 .. FS_DIRENTRIES : EntryAt(disk', loc[t].node, i, j) = EntryAt(disk, loc[t].node, i, j)
        BY <1>1
    <2> QED BY <1>3, <2>2, <2>3 DEF SpotFree
<1> QED BY <1>2, <1>3

LEMMA WriteDirentriesOwn ==
    ASSUME Inv, Facts, NEW t \in Threads, Alone(t), WriteDirentries(t) PROVE OwnWrite(t)
<1> DEFINE l == loc[t]
           name == Filename(req[t])
           entries == [j \in 1 .. FS_DIRENTRIES |-> IF j = 1 THEN Entry(name, l.new[1]) ELSE UnusedEntry]
           c == [kind |-> "direntries", entries |-> entries]
           b == l.new[2]
<1>1. /\ pc[t] = "write_direntries" /\ Write(b, c) /\ Continue(t, "write_inode", loc[t])
      /\ free_disk_blocks' = free_disk_blocks /\ ThreadOK(t) /\ l \in LocType /\ Creates(t)
      /\ pc[t] \notin Unlinked /\ l.new \in Seq(Blocks \ {0})
    BY DEF WriteDirentries, At, Inv, TypeOK, Creates, CreateLabels, Unlinked, LocType
<1>2. /\ Len(l.new) = 2 /\ l.spot = None /\ l.inode.type = "d" /\ NotIn(disk, l.node, name)
      /\ l.new[1] # l.new[2] /\ size(l.inode) < FS_MAXFILEBLOCKS
    BY <1>1 DEF ThreadOK, CreateOK
<1>3. req[t] \in RequestType /\ ~OutOfRange(req[t]) /\ l.inode = disk[l.node] /\ l.node \in ReachableInodes(disk)
    BY <1>1 DEF ThreadOK, CallOK, InsideOK, Inside, Preparing
<1>4. name \in Names /\ 1 \in DOMAIN l.new /\ 2 \in DOMAIN l.new /\ l.new[1] \in Blocks \ {0} /\ b \in Blocks \ {0}
    BY SMT, <1>1, <1>2, <1>3, PathLength
<1>5. b \in OwnBlocks(t)
    <2>1. b \in Range(l.new)
        BY <1>4 DEF Range
    <2> QED BY <1>1, <2>1, OwnNew
<1>6. c \in Contents /\ NewEntries(c, name, l.new[1])
    <2>1. Entry(name, l.new[1]) \in Direntry /\ UnusedEntry \in Direntry
        BY SMT, <1>4, SizesAssumption DEF Entry, UnusedEntry, Direntry, Blocks
    <2>2. /\ entries \in [1 .. FS_DIRENTRIES -> Direntry] /\ entries[1] = Entry(name, l.new[1])
          /\ \A j \in 1 .. FS_DIRENTRIES : j # 1 => entries[j] = UnusedEntry
        BY SMT, <2>1, SizesAssumption
    <2> HIDE DEF entries
    <2>3. c \in direntries
        BY <2>2 DEF direntries
    <2> QED BY <2>2, <2>3 DEF Contents, NewEntries
<1>7. loc[t] = l /\ name = Filename(req[t])
    OBVIOUS
<1> HIDE DEF c, b, l, name
<1>8. /\ disk' \in [Blocks -> Contents] /\ disk'[b] = c
      /\ disk'[loc[t].node] = disk[loc[t].node]
      /\ \A i \in 1 .. size(disk[loc[t].node]) :
            disk'[disk[loc[t].node].blocks[i]] = disk[disk[loc[t].node].blocks[i]]
    BY <1>1, <1>3, <1>5, <1>6, <1>7, OwnDisk
<1>9. ASSUME ReachableInodes(disk') = ReachableInodes(disk) PROVE ThreadOK(t)'
    <2>1. Proceeds(t) /\ pc'[t] = "write_inode" /\ loc'[t] = l /\ req'[t] = req[t]
        <3>1. /\ Continue(t, "write_inode", l) /\ NodeKept(t)
              /\ l.node = loc[t].node /\ l.inode = loc[t].inode
            BY <1>1, <1>7, <1>8, <1>9 DEF NodeKept, l
        <3> QED BY <3>1, ContinueOn
    <2>2. Creates(t)' /\ pc'[t] \in CreateLabels /\ Filename(req'[t]) = name
        BY <1>7, <2>1 DEF Creates, CreateLabels
    <2>3. NotIn(disk', l.node, name)
        BY <1>2, <1>3, <1>7, <1>8, <2>1, CreateStays
    <2>4. NewEntries(disk'[l.new[2]], name, l.new[1])
        BY <1>6, <1>8 DEF b
    <2>5. CreateOK(t)'
        BY <1>2, <2>1, <2>2, <2>3, <2>4 DEF CreateOK
    <2> QED BY <1>1, <1>7, <2>1, <2>2, <2>5, CreatingOK
<1>10. "write_inode" \in Labels /\ "write_inode" \notin Unlinked
    BY DEF Labels, Unlinked
<1> QED BY <1>1, <1>5, <1>6, <1>8, <1>9, <1>10, ContinueWrites

LEMMA WriteInodeOwn ==
    ASSUME Inv, Facts, NEW t \in Threads, Alone(t), WriteInode(t) PROVE OwnWrite(t)
<1> DEFINE l == loc[t]
           name == Filename(req[t])
           c == NewInode(req[t].type, req[t].username)
           b == l.new[1]
<1>1. /\ pc[t] = "write_inode" /\ Write(b, c) /\ Continue(t, "upgrade", loc[t])
      /\ free_disk_blocks' = free_disk_blocks /\ ThreadOK(t) /\ l \in LocType /\ Creates(t)
      /\ pc[t] \notin Unlinked /\ l.new \in Seq(Blocks \ {0})
    BY DEF WriteInode, At, Inv, TypeOK, Creates, CreateLabels, Unlinked, LocType
<1>2. /\ l.inode.type = "d" /\ NotIn(disk, l.node, name)
      /\ l.spot # None => \E i \in 1 .. size(l.inode) : SpotFree(t, i)
      /\ Len(l.new) = 2 => l.new[1] # l.new[2]
      /\ IF l.spot # None
         THEN Len(l.new) = 1 /\ l.spot.dir.entries[l.spot.slot] = Entry(name, l.new[1])
         ELSE /\ Len(l.new) = 2 /\ l.new[1] # l.new[2] /\ size(l.inode) < FS_MAXFILEBLOCKS
              /\ NewEntries(disk[l.new[2]], name, l.new[1])
    BY <1>1 DEF ThreadOK, CreateOK
<1>3. /\ req[t] \in RequestType /\ ~OutOfRange(req[t]) /\ l.inode = disk[l.node]
      /\ l.node \in ReachableInodes(disk) /\ Op(t) = "FS_CREATE"
    BY <1>1 DEF ThreadOK, CallOK, CreateLabels, InsideOK, Inside, Preparing
<1>4. Len(l.new) \in {1, 2}
    BY <1>2
<1>5. 1 \in DOMAIN l.new /\ b \in Blocks \ {0} /\ (Len(l.new) = 2 => l.new[2] \in Blocks \ {0})
    BY SMT, <1>1, <1>4
<1>6. b \in OwnBlocks(t)
    <2>1. b \in Range(l.new)
        BY <1>5 DEF Range
    <2> QED BY <1>1, <2>1, OwnNew
<1>7. c \in Contents
    <2>1. req[t].type \in {"f", "d"} /\ req[t].username \in Owners
        BY <1>3, RequestFields DEF Op, Owners
    <2>2. <<>> \in [1 .. 0 -> Blocks \ {0}] /\ 0 \in 0 .. FS_MAXFILEBLOCKS
        BY SMT, SizesAssumption
    <2>3. <<>> \in BlockArrays
        BY <2>2 DEF BlockArrays
    <2> QED BY <2>1, <2>3 DEF NewInode, fs_inode, Contents
<1>8. loc[t] = l /\ name = Filename(req[t]) /\ b = l.new[1] /\ c = NewInode(req[t].type, req[t].username)
    OBVIOUS
<1> HIDE DEF c, b, l, name
<1>9. /\ disk' \in [Blocks -> Contents] /\ disk'[b] = c /\ \A x \in Blocks : x # b => disk'[x] = disk[x]
      /\ disk'[loc[t].node] = disk[loc[t].node]
      /\ \A i \in 1 .. size(disk[loc[t].node]) :
            disk'[disk[loc[t].node].blocks[i]] = disk[disk[loc[t].node].blocks[i]]
    BY <1>1, <1>3, <1>6, <1>7, <1>8, OwnDisk
<1>10. ASSUME ReachableInodes(disk') = ReachableInodes(disk) PROVE ThreadOK(t)'
    <2>1. Proceeds(t) /\ pc'[t] = "upgrade" /\ loc'[t] = l /\ req'[t] = req[t]
        <3>1. /\ Continue(t, "upgrade", l) /\ NodeKept(t)
              /\ l.node = loc[t].node /\ l.inode = loc[t].inode
            BY <1>1, <1>8, <1>9, <1>10 DEF NodeKept, l
        <3> QED BY <3>1, ContinueOn
    <2>2. Creates(t)' /\ Filename(req'[t]) = name
        BY <1>3, <1>8, <2>1 DEF Creates, Op
    <2>3. NotIn(disk', l.node, name) /\ (l.spot # None => \E i \in 1 .. size(l.inode) : SpotFree(t, i)')
        <3>1. /\ NotIn(disk, loc[t].node, name) => NotIn(disk', loc[t].node, name)
              /\ \A i \in 1 .. size(loc[t].inode) : SpotFree(t, i) => SpotFree(t, i)'
            BY <1>3, <1>8, <1>9, <2>1, CreateStays
        <3> QED BY <1>2, <1>8, <3>1
    <2>4. l.spot = None => NewEntries(disk'[l.new[2]], name, l.new[1])
        BY <1>2, <1>5, <1>8, <1>9
    <2>5. CreateOK(t)'
        BY <1>2, <1>8, <1>9, <2>1, <2>2, <2>3, <2>4 DEF CreateOK
    <2> QED BY <1>1, <1>8, <2>1, <2>5, CreatingOK
<1>11. "upgrade" \in Labels /\ "upgrade" \notin Unlinked
    BY DEF Labels, Unlinked
<1> QED BY <1>1, <1>6, <1>7, <1>9, <1>10, <1>11, ContinueWrites

LEMMA WriteDataOwn ==
    ASSUME Inv, Facts, NEW t \in Threads, Alone(t), WriteData(t) PROVE OwnWrite(t)
<1> DEFINE l == loc[t]
           c == [kind |-> "data", value |-> req[t].data]
           b == l.new[1]
<1>1. /\ pc[t] = "write_data" /\ Write(b, c) /\ Continue(t, "upgrade", loc[t])
      /\ free_disk_blocks' = free_disk_blocks /\ ThreadOK(t) /\ l \in LocType /\ Writes(t)
      /\ pc[t] \notin Unlinked /\ l.new \in Seq(Blocks \ {0})
    BY DEF WriteData, At, Inv, TypeOK, Writes, WriteLabels, Unlinked, LocType
<1>2. l.inode.type = "f" /\ Len(l.new) = 1 /\ req[t].block = size(l.inode)
    BY <1>1 DEF ThreadOK, WriteOK
<1>3. /\ req[t] \in RequestType /\ l.inode = disk[l.node]
      /\ l.node \in ReachableInodes(disk) /\ Op(t) = "FS_WRITEBLOCK"
    BY <1>1 DEF ThreadOK, CallOK, WriteLabels, InsideOK, Inside, Preparing
<1>4. 1 \in DOMAIN l.new /\ b \in Blocks \ {0}
    <2>1. l.new \in Seq(Blocks \ {0}) /\ Len(l.new) = 1
        BY <1>1, <1>2
    <2>2. \A s \in Seq(Blocks \ {0}) : Len(s) = 1 => 1 \in DOMAIN s /\ s[1] \in Blocks \ {0}
        BY SMT
    <2> QED BY <2>1, <2>2
<1>5. b \in OwnBlocks(t)
    <2>1. b \in Range(l.new)
        BY <1>4 DEF Range
    <2> QED BY <1>1, <2>1, OwnNew
<1>6. c \in DataBlock /\ c \in Contents
    <2>1. req[t].data \in Data
        BY <1>3, RequestFields DEF Op
    <2> QED BY <2>1 DEF DataBlock, Contents
<1>7. loc[t] = l /\ b = l.new[1]
    OBVIOUS
<1> HIDE DEF c, b, l
<1>8. /\ disk' \in [Blocks -> Contents] /\ disk'[b] = c
      /\ disk'[loc[t].node] = disk[loc[t].node]
    BY <1>1, <1>3, <1>5, <1>6, <1>7, OwnDisk
<1>9. ASSUME ReachableInodes(disk') = ReachableInodes(disk) PROVE ThreadOK(t)'
    <2>1. Proceeds(t) /\ pc'[t] = "upgrade" /\ loc'[t] = l /\ req'[t] = req[t]
        <3>1. /\ Continue(t, "upgrade", l) /\ NodeKept(t)
              /\ l.node = loc[t].node /\ l.inode = loc[t].inode
            BY <1>1, <1>7, <1>8, <1>9 DEF NodeKept, l
        <3> QED BY <3>1, ContinueOn
    <2>2. Writes(t)'
        BY <1>3, <2>1 DEF Writes, Op
    <2>3. WriteOK(t)'
        BY <1>2, <1>6, <1>7, <1>8, <2>1, <2>2 DEF WriteOK
    <2> QED BY <1>1, <1>7, <2>1, <2>3, WritingOK
<1>10. "upgrade" \in Labels /\ "upgrade" \notin Unlinked
    BY DEF Labels, Unlinked
<1> QED BY <1>1, <1>5, <1>6, <1>8, <1>9, <1>10, ContinueWrites

-----------------------------------------------------------------------------
(* Writes to the tree, and the steps after them: what the thread itself     *)
(* knows.                                                                  *)

LEMMA CommitReturns ==
    ASSUME Inv, NEW t \in Threads, Alone(t), Commit(t), disk' \in [Blocks -> Contents]
    PROVE  /\ TypeOK' /\ ThreadOK(t)' /\ PointersKept(t, data_locks') /\ free_disk_blocks' = free_disk_blocks
           /\ OwnBlocks(t) = Range(loc[t].new) /\ OwnBlocks(t)' = {}
<1>1. /\ pc[t] = "commit" /\ Return(t, "ok") /\ free_disk_blocks' = free_disk_blocks
      /\ TypeOK /\ ThreadOK(t) /\ pc[t] \notin Unlinked
    BY DEF Commit, At, Inv, Unlinked
<1>2. "ok" \in Data \cup {None, "ok", "error"} /\ free_disk_blocks' \in Seq(Blocks \ {0})
    BY <1>1 DEF TypeOK
<1>3. TypeOK' /\ ThreadOK(t)' /\ PointersKept(t, data_locks')
    BY <1>1, <1>2, ReturnType, ReturnOK, ReturnPointers
<1>4. pc'[t] = "reply" /\ loc'[t] = FreshLoc
    BY <1>1 DEF TypeOK, Return, Goto, SetLoc
<1>5. OwnBlocks(t)' = {}
    BY SMT, <1>4 DEF OwnBlocks, At, Range, FreshLoc
<1> QED BY <1>1, <1>3, <1>5, OwnNew

LEMMA UnlinkOK ==
    ASSUME Inv, NEW t \in Threads, Alone(t), Unlink(t), UnlinkedDisk(loc[t])
    PROVE  /\ TypeOK' /\ ThreadOK(t)' /\ data_locks' = data_locks /\ free_disk_blocks' = free_disk_blocks
           /\ pc'[t] \in {"free_direntries", "upgrade_target"} /\ loc'[t] = loc[t] /\ OwnBlocks(t) = {}
           /\ OwnBlocks(t)' = Range(FreedBlocks(loc[t]))
                              \cup (IF CanDeleteDirentries(loc[t]) THEN {loc[t].spot.block} ELSE {})
<1> DEFINE l == loc[t]
<1>1. /\ pc[t] = "unlink" /\ ThreadOK(t) /\ TypeOK /\ data_locks' = data_locks /\ free_disk_blocks' = free_disk_blocks
      /\ cur' = cur /\ nxt' = nxt /\ loc' = loc /\ req' = req /\ resp' = resp /\ issued' = issued
    BY DEF Unlink, At, Inv, KeepCall
<1>2. \/ /\ CanDeleteDirentries(l) /\ pc' = [pc EXCEPT ![t] = "free_direntries"] /\ hold' = hold
      \/ /\ ~CanDeleteDirentries(l) /\ pc' = [pc EXCEPT ![t] = "upgrade_target"]
         /\ hold' = [hold EXCEPT ![t] = {<<nxt[t], "upgrade">>}]
    BY DEF Unlink, Goto, UnlockParent
<1>3. /\ CallOK(t) /\ FrameOK(t) /\ PointersOK(t) /\ InsideOK(t) /\ DeleteOK(t)
      /\ ~Creates(t) /\ ~Writes(t) /\ Found(t) /\ Fetched(t) /\ Here(t)
    BY <1>1 DEF ThreadOK, Creates, Writes, Found, Fetched, Here, CreateLabels, WriteLabels, Inside, Changing
<1>4. /\ nxt[t] \in LockObjects /\ data_locks[nxt[t][1]] = nxt[t][2] /\ nxt[t][1] = l.target
      /\ cur[t] \in LockObjects /\ data_locks[cur[t][1]] = cur[t][2] /\ cur[t][1] = l.node
      /\ l.new = <<>> /\ req[t] \in RequestType /\ ~OutOfRange(req[t]) /\ Op(t) = "FS_DELETE"
      /\ l.spot \in SpotType
    BY <1>1, <1>3 DEF PointersOK, DeleteOK, InsideOK, FrameOK, CallOK, Inside, Changing, DeleteLabels
<1>5. l.tinode \in fs_inode /\ l.tinode = disk[l.target] /\ NoChildren(l.tinode)
    BY <1>1, <1>3 DEF DeleteOK
<1>6. pc'[t] \in {"free_direntries", "upgrade_target"}
      /\ (pc'[t] = "free_direntries" <=> CanDeleteDirentries(l))
    BY <1>1, <1>2 DEF TypeOK
<1>7. TypeOK'
    <2>1. {<<nxt[t], "upgrade">>} \in SUBSET (LockObjects \X Modes)
        BY SMT, <1>4 DEF Modes
    <2>2. hold' \in [Threads -> SUBSET (LockObjects \X Modes)]
        BY <1>1, <1>2, <2>1 DEF TypeOK
    <2>3. pc' \in [Threads -> Labels]
        BY <1>1, <1>2 DEF TypeOK, Labels
    <2>4. disk' \in [Blocks -> Contents]
        BY DEF UnlinkedDisk
    <2> QED BY <1>1, <2>2, <2>3, <2>4 DEF TypeOK
<1>8. CallOK(t)'
    BY <1>1, <1>4, <1>6 DEF CallOK, Op, CreateLabels, DeleteLabels, WriteLabels, Unlinked
<1>9. FrameOK(t)'
    BY <1>1, <1>4, <1>6 DEF FrameOK, Outside, Unlinked
<1>10. PointersOK(t)' /\ CreateOK(t)' /\ WriteOK(t)'
    <2>1. ~Creates(t)' /\ ~Writes(t)'
        BY <1>6 DEF Creates, Writes, CreateLabels, WriteLabels
    <2> QED BY <1>1, <1>4, <2>1 DEF PointersOK, CreateOK, WriteOK
<1>11. WalkOK(t)' /\ InsideOK(t)'
    <2>1. Alive(l.node)' /\ l.node \in ReachableInodes(disk')
        BY <1>1 DEF Alive, UnlinkedDisk
    <2> QED BY <1>1, <1>4, <1>6, <2>1 DEF WalkOK, InsideOK, Walking, Inside, Preparing, Changing
<1>12. DeleteOK(t)'
    <2>1. ~Found(t)' /\ pc'[t] # "delete_scan" /\ pc'[t] \notin {"unlink", "lock"}
        BY <1>6 DEF Found
    <2> QED BY <1>1, <1>4, <1>5, <2>1 DEF DeleteOK, UnlinkedDisk
<1>13. OwnBlocks(t) = {} /\ OwnBlocks(t)' = Range(FreedBlocks(l))
                              \cup (IF CanDeleteDirentries(l) THEN {l.spot.block} ELSE {})
    <2>1. Range(l.new) = {}
        BY SMT, <1>4 DEF Range
    <2>2. OwnBlocks(t) = {}
        BY <1>1, <2>1 DEF OwnBlocks, At
    <2>3. OwnBlocks(t)' = Range(FreedBlocks(l)) \cup (IF CanDeleteDirentries(l) THEN {l.spot.block} ELSE {})
        BY <1>1, <1>6, <2>1 DEF OwnBlocks, At
    <2> QED BY <2>2, <2>3
<1> QED BY <1>1, <1>6, <1>7, <1>8, <1>9, <1>10, <1>11, <1>12, <1>13 DEF ThreadOK

LEMMA UpgradeTargetOK ==
    ASSUME Inv, NEW t \in Threads, Alone(t), UpgradeTarget(t)
    PROVE  /\ TypeOK' /\ ThreadOK(t)' /\ disk' = disk /\ data_locks' = data_locks
           /\ free_disk_blocks' = free_disk_blocks /\ OwnBlocks(t)' = OwnBlocks(t)
<1>1. /\ pc[t] = "upgrade_target" /\ Acquire(t, {<<nxt[t], "unique">>}, "erase_lock")
      /\ cur' = cur /\ nxt' = nxt /\ pc[t] \in Unlinked /\ TypeOK
    BY DEF UpgradeTarget, At, Unlinked, Inv
<1>2. /\ pc'[t] = "erase_lock" /\ loc' = loc /\ req' = req /\ disk' = disk /\ data_locks' = data_locks
      /\ free_disk_blocks' = free_disk_blocks
    BY <1>1 DEF Acquire, Goto, KeepCall, TypeOK
<1>3. nxt[t] \in LockObjects
    BY <1>1 DEF Inv, ThreadOK, PointersOK, Fetched
<1>4. TypeOK'
    <2>1. {<<nxt[t], "unique">>} \in SUBSET (LockObjects \X Modes) /\ "erase_lock" \in Labels
        BY SMT, <1>3 DEF Modes, Labels
    <2>2. cur' \in [Threads -> LockObjects \cup {None}] /\ nxt' \in [Threads -> LockObjects \cup {None}]
        BY <1>1 DEF TypeOK
    <2> QED BY <1>1, <2>1, <2>2, AcquireType
<1>5. ThreadOK(t)' /\ OwnBlocks(t)' = Range(FreedBlocks(loc[t]))
    BY <1>1, <1>2, UnlinkedOK
<1>6. OwnBlocks(t) = Range(FreedBlocks(loc[t]))
    BY <1>1, UnlinkedOwn
<1> QED BY <1>2, <1>4, <1>5, <1>6

LEMMA EraseLockOK ==
    ASSUME Inv, NEW t \in Threads, Alone(t), EraseLock(t)
    PROVE  /\ TypeOK' /\ ThreadOK(t)' /\ disk' = disk /\ \A b \in Blocks \ {loc[t].target} : data_locks'[b] = data_locks[b]
           /\ free_disk_blocks' = free_disk_blocks /\ OwnBlocks(t)' = OwnBlocks(t)
<1>1. /\ pc[t] = "erase_lock" /\ data_locks' = [data_locks EXCEPT ![loc[t].target] = None]
      /\ pc' = [pc EXCEPT ![t] = "free_blocks"] /\ disk' = disk /\ free_disk_blocks' = free_disk_blocks
      /\ cur' = cur /\ nxt' = nxt /\ hold' = hold /\ loc' = loc /\ req' = req /\ resp' = resp /\ issued' = issued
      /\ pc[t] \in Unlinked /\ TypeOK
    BY DEF EraseLock, At, Goto, KeepCall, Unlinked, Inv
<1>2. data_locks' \in [Blocks -> Generations \cup {None}]
      /\ \A b \in Blocks \ {loc[t].target} : data_locks'[b] = data_locks[b]
    BY <1>1 DEF TypeOK
<1>3. pc' \in [Threads -> Labels] /\ pc'[t] = "free_blocks"
    BY <1>1 DEF TypeOK, Labels
<1>4. TypeOK'
    BY <1>1, <1>2, <1>3 DEF TypeOK
<1>5. ThreadOK(t)' /\ OwnBlocks(t)' = Range(FreedBlocks(loc[t]))
    BY <1>1, <1>3, UnlinkedOK
<1>6. OwnBlocks(t) = Range(FreedBlocks(loc[t]))
    BY <1>1, UnlinkedOwn
<1> QED BY <1>1, <1>2, <1>4, <1>5, <1>6

LEMMA RangeOne == ASSUME NEW A, NEW f \in Seq(A), Len(f) = 1 PROVE Range(f) = {f[1]} /\ f[1] \in A
<1>1. DOMAIN f = {1} /\ f[1] \in A
    BY SMT
<1> QED BY <1>1 DEF Range

LEMMA RangeTwo ==
    ASSUME NEW A, NEW f \in Seq(A), Len(f) = 2 PROVE Range(f) = {f[1], f[2]} /\ f[1] \in A /\ f[2] \in A
<1>1. DOMAIN f = {1, 2} /\ f[1] \in A /\ f[2] \in A
    BY SMT
<1> QED BY <1>1 DEF Range

LEMMA NewInodeType ==
    ASSUME NEW r \in RequestType, r.op = "FS_CREATE"
    PROVE  NewInode(r.type, r.username) \in fs_inode /\ size(NewInode(r.type, r.username)) = 0
<1>1. r.type \in {"f", "d"} /\ r.username \in Owners
    BY RequestFields DEF Owners
<1>2. <<>> \in [1 .. 0 -> Blocks \ {0}] /\ 0 \in 0 .. FS_MAXFILEBLOCKS
    BY SMT, SizesAssumption
<1>3. <<>> \in BlockArrays
    BY <1>2 DEF BlockArrays
<1> QED BY <1>1, <1>3 DEF NewInode, fs_inode, size

\* What a create commits.
LEMMA CommitCreates ==
    ASSUME Inv, NEW t \in Threads, Commit(t), Op(t) = "FS_CREATE"
    PROVE  LET l == loc[t]
               x == l.new[1]
               name == Filename(req[t])
           IN  /\ l.node \in ReachableInodes(disk) /\ disk[l.node].type = "d" /\ NotIn(disk, l.node, name)
               /\ x \in OwnBlocks(t) /\ x \in Blocks \ {0} /\ disk[x] \in fs_inode /\ size(disk[x]) = 0
               /\ \/ /\ OwnBlocks(t) = {x} /\ Write(l.spot.block, l.spot.dir)
                     /\ l.spot.dir.entries[l.spot.slot] = Entry(name, x)
                     /\ \E i \in 1 .. size(disk[l.node]) : SpotFree(t, i)
                     /\ l.inode = disk[l.node]
                  \/ /\ OwnBlocks(t) = {x, l.new[2]} /\ l.new[2] \in Blocks \ {0}
                     /\ size(disk[l.node]) < FS_MAXFILEBLOCKS /\ NewEntries(disk[l.new[2]], name, x)
                     /\ Write(l.node, [disk[l.node] EXCEPT !.blocks = Append(@, l.new[2])])
<1> DEFINE l == loc[t]
           x == l.new[1]
           name == Filename(req[t])
<1>1. /\ pc[t] = "commit" /\ CommitCreate(l) /\ ThreadOK(t) /\ Creates(t) /\ l.new \in Seq(Blocks \ {0})
      /\ OwnBlocks(t) = Range(l.new)
    BY OwnNew DEF Commit, At, Inv, Creates, TypeOK, LocType, Unlinked
<1>2. /\ l.inode.type = "d" /\ NotIn(disk, l.node, name) /\ disk[x] = NewInode(req[t].type, req[t].username)
      /\ l.spot # None => \E i \in 1 .. size(l.inode) : SpotFree(t, i)
      /\ IF l.spot # None
         THEN Len(l.new) = 1 /\ l.spot.dir.entries[l.spot.slot] = Entry(name, x)
         ELSE Len(l.new) = 2 /\ size(l.inode) < FS_MAXFILEBLOCKS /\ NewEntries(disk[l.new[2]], name, x)
    BY <1>1 DEF ThreadOK, CreateOK
<1>3. req[t] \in RequestType /\ l.inode = disk[l.node] /\ l.node \in ReachableInodes(disk)
    BY <1>1 DEF ThreadOK, CallOK, InsideOK, Inside, Changing
<1>4. disk[x] \in fs_inode /\ size(disk[x]) = 0
    BY <1>2, <1>3, NewInodeType DEF Op
<1>5. CASE l.spot # None
    <2>1. OwnBlocks(t) = {x} /\ x \in Blocks \ {0}
        BY <1>1, <1>2, <1>5, RangeOne
    <2>2. Write(l.spot.block, l.spot.dir)
        BY <1>1, <1>5 DEF CommitCreate
    <2> QED BY <1>2, <1>3, <1>4, <1>5, <2>1, <2>2
<1>6. CASE l.spot = None
    <2>1. OwnBlocks(t) = {x, l.new[2]} /\ x \in Blocks \ {0} /\ l.new[2] \in Blocks \ {0} /\ Len(l.new) = 2
        BY <1>1, <1>2, <1>6, RangeTwo
    <2>2. Write(l.node, [disk[l.node] EXCEPT !.blocks = Append(@, l.new[2])])
        BY <1>1, <1>3, <1>6, <2>1 DEF CommitCreate, ExtendInode
    <2> QED BY <1>2, <1>3, <1>4, <1>6, <2>1, <2>2
<1> QED BY <1>5, <1>6

\* What a write commits.
LEMMA CommitWrites ==
    ASSUME Inv, Facts, NEW t \in Threads, Commit(t), Op(t) # "FS_CREATE"
    PROVE  LET l == loc[t]
               k == req[t].block + 1
               c == [kind |-> "data", value |-> req[t].data]
           IN  /\ l.node \in ReachableInodes(disk) /\ disk[l.node].type = "f"
               /\ \/ /\ OwnBlocks(t) = {} /\ k \in 1 .. size(disk[l.node]) /\ c \in DataBlock
                     /\ Write(disk[l.node].blocks[k], c)
                  \/ /\ OwnBlocks(t) = {l.new[1]} /\ l.new[1] \in Blocks \ {0}
                     /\ size(disk[l.node]) < FS_MAXFILEBLOCKS /\ disk[l.new[1]] \in DataBlock
                     /\ Write(l.node, [disk[l.node] EXCEPT !.blocks = Append(@, l.new[1])])
<1> DEFINE l == loc[t]
           k == req[t].block + 1
           c == [kind |-> "data", value |-> req[t].data]
<1>1. /\ pc[t] = "commit" /\ CommitData(l, req[t]) /\ ThreadOK(t) /\ l.new \in Seq(Blocks \ {0})
      /\ OwnBlocks(t) = Range(l.new) /\ req[t] \in RequestType /\ Op(t) = "FS_WRITEBLOCK" /\ Writes(t)
      /\ ~OutOfRange(req[t])
    <2>1. pc[t] = "commit" /\ CommitData(l, req[t]) /\ ThreadOK(t) /\ l.new \in Seq(Blocks \ {0})
          /\ OwnBlocks(t) = Range(l.new)
        BY OwnNew DEF Commit, At, Inv, TypeOK, LocType, Unlinked
    <2> QED BY <2>1 DEF ThreadOK, CallOK, Writes
<1>2. l.inode.type = "f" /\ \/ l.new = <<>> /\ req[t].block < size(l.inode)
                            \/ Len(l.new) = 1 /\ req[t].block = size(l.inode) /\ disk[l.new[1]] \in DataBlock
    BY <1>1 DEF ThreadOK, WriteOK
<1>3. l.inode = disk[l.node] /\ l.node \in ReachableInodes(disk)
    BY <1>1 DEF ThreadOK, InsideOK, Inside, Changing
<1>4. req[t].block \in Nat /\ req[t].block < FS_MAXFILEBLOCKS /\ c \in DataBlock
    <2>1. req[t].block \in Nat /\ req[t].data \in Data
        BY <1>1, RequestFields DEF Op
    <2>2. "block" \in DOMAIN req[t]
        BY <1>1 DEF RequestType, Op
    <2>3. req[t].block < FS_MAXFILEBLOCKS
        BY SMT, <1>1, <2>1, <2>2, SizesAssumption DEF OutOfRange
    <2> QED BY <2>1, <2>3 DEF DataBlock
<1> HIDE DEF c
<1>5. CASE l.new = <<>> /\ req[t].block < size(l.inode)
    <2>1. Range(l.new) = {}
        BY SMT, <1>5 DEF Range
    <2>2. Write(disk[l.node].blocks[k], c)
        BY <1>1, <1>3, <1>5 DEF CommitData, c
    <2>3. k \in 1 .. size(disk[l.node])
        <3>1. size(disk[l.node]) \in Nat
            BY <1>3 DEF Facts, Alive, InodeFacts
        <3> QED BY SMT, <1>3, <1>4, <1>5, <3>1
    <2> QED BY <1>1, <1>2, <1>3, <1>4, <2>1, <2>2, <2>3 DEF c
<1>6. CASE Len(l.new) = 1 /\ req[t].block = size(l.inode) /\ disk[l.new[1]] \in DataBlock
    <2>1. OwnBlocks(t) = {l.new[1]} /\ l.new[1] \in Blocks \ {0} /\ l.new # <<>>
        BY SMT, <1>1, <1>6, RangeOne
    <2>2. Write(l.node, [disk[l.node] EXCEPT !.blocks = Append(@, l.new[1])])
        BY <1>1, <1>3, <1>6, <2>1 DEF CommitData, ExtendInode
    <2> QED BY <1>2, <1>3, <1>4, <1>6, <2>1, <2>2
<1> QED BY <1>2, <1>5, <1>6

-----------------------------------------------------------------------------
(* Each step: it does not write to the disk, it writes to a block of its     *)
(* own, or it is one of the last four above.                               *)

LEMMA Steps ==
    ASSUME Inv, Facts, NEW t \in Threads, Alone(t), Step(t)
    PROVE  Quiet(t) \/ OwnWrite(t) \/ Commit(t) \/ Unlink(t) \/ UpgradeTarget(t) \/ EraseLock(t)
<1>1. CheckFree(t) \/ GetRoot(t) \/ Lock(t) \/ ReadInode(t) \/ Scan(t) \/ GetLock(t) => Quiet(t)
    BY CheckFreeQuiet, GetRootQuiet, LockQuiet, ReadInodeQuiet, ScanQuiet, GetLockQuiet
<1>2. Upgrade(t) \/ CreateScan(t) \/ AllocInode(t) \/ ReturnInode(t) \/ AllocDirentries(t) => Quiet(t)
    BY UpgradeQuiet, CreateScanQuiet, AllocInodeQuiet, ReturnInodeQuiet, AllocDirentriesQuiet
<1>3. DeleteScan(t) \/ GetTarget(t) \/ LockTarget(t) \/ ReadTarget(t) => Quiet(t)
    BY DeleteScanQuiet, GetTargetQuiet, LockTargetQuiet, ReadTargetQuiet
<1>4. FreeDirentries(t) \/ FreeBlocks(t) \/ ReadData(t) \/ AllocData(t) \/ Reply(t) => Quiet(t)
    BY FreeDirentriesQuiet, FreeBlocksQuiet, ReadDataQuiet, AllocDataQuiet, ReplyQuiet
<1>5. WriteDirentries(t) \/ WriteInode(t) \/ WriteData(t) => OwnWrite(t)
    BY WriteDirentriesOwn, WriteInodeOwn, WriteDataOwn
<1> QED BY <1>1, <1>2, <1>3, <1>4, <1>5 DEF Step

=============================================================================
