------------------------------ MODULE Disk_proofs ------------------------------
(***************************************************************************)
(* What a disk holds, and what each write of the file server makes of it:    *)
(* the tree that fs_init finds is the least set of inodes that contains the *)
(* root and everything its directories point to, and the five writes that   *)
(* link, unlink, extend or overwrite keep a disk restartable.               *)
(***************************************************************************)
EXTENDS Disk, FiniteSetTheorems, TLAPS

\* The prover of a leaf that names none.
USE ZenonT(30)

(* Induction, for sets of numbers.                                         *)

LEMMA LeastNumber ==
    ASSUME NEW S, S \subseteq Nat, S # {}
    PROVE  \E n \in S : \A m \in S : n <= m
<1> DEFINE Less == {ss \in Nat \X Nat : ss[1] < ss[2]}
<1>1. IsWellFoundedOn(Less, Nat)
    BY NatLessThanWellFounded DEF OpToRel
<1>2. PICK n \in S : \A m \in S : ~(<<m, n>> \in Less)
    BY <1>1, WFMin
<1>3. \A m \in S : m \in Nat /\ n \in Nat /\ ~(m < n)
    BY <1>2
<1>4. \A m \in S : n <= m
    BY SMT, <1>3
<1> QED BY <1>4

LEMMA FirstIn == ASSUME NEW S, S \subseteq Nat, S # {} PROVE First(S) \in S
<1>1. \E j \in S : \A k \in S : j <= k
    BY LeastNumber
<1> QED BY <1>1 DEF First

LEMMA NumberInduction ==
    ASSUME NEW S, 0 \in S, \A n \in Nat : n \in S => n + 1 \in S
    PROVE  Nat \subseteq S
<1>1. SUFFICES ASSUME Nat \ S # {} PROVE FALSE
    OBVIOUS
<1>2. PICK n \in Nat \ S : \A m \in Nat \ S : n <= m
    BY <1>1, LeastNumber
<1>3. n # 0 /\ n - 1 \in Nat /\ n - 1 \in S
    BY SMT, <1>2
<1>4. (n - 1) + 1 \in S
    BY <1>3
<1> QED BY SMT, <1>2, <1>3, <1>4

\* A function can be iterated any number of times.
Iteration(f, F, x, N) == f[0] = x /\ \A n \in 1 .. N : f[n] = F[f[n - 1]]

LEMMA Iterates ==
    ASSUME NEW T, NEW F \in [T -> T], NEW x \in T, NEW N \in Nat
    PROVE  \E f \in [0 .. N -> T] : Iteration(f, F, x, N)
<1> DEFINE S == {n \in Nat : \E f \in [0 .. n -> T] :
                    f[0] = x /\ \A m \in 1 .. n : f[m] = F[f[m - 1]]}
<1>1. 0 \in S
    <2> DEFINE f == [m \in 0 .. 0 |-> x]
    <2>1. f \in [0 .. 0 -> T] /\ f[0] = x /\ \A m \in 1 .. 0 : f[m] = F[f[m - 1]]
        BY SMT
    <2> QED BY <2>1
<1>2. ASSUME NEW n \in Nat, n \in S PROVE n + 1 \in S
    <2>1. PICK f \in [0 .. n -> T] : f[0] = x /\ \A m \in 1 .. n : f[m] = F[f[m - 1]]
        BY <1>2
    <2> DEFINE g == [m \in 0 .. n + 1 |-> IF m = n + 1 THEN F[f[n]] ELSE f[m]]
    <2>2. g \in [0 .. n + 1 -> T] /\ g[0] = x
        BY SMT, <2>1
    <2>3. ASSUME NEW m \in 1 .. n + 1 PROVE g[m] = F[g[m - 1]]
        <3>1. CASE m = n + 1
            BY SMT, <3>1
        <3>2. CASE m # n + 1
            BY SMT, <2>1, <3>2
        <3> QED BY <3>1, <3>2
    <2> HIDE DEF g
    <2> QED BY SMT, <2>2, <2>3
<1> HIDE DEF S
<1>3. Nat \subseteq S
    BY <1>1, <1>2, NumberInduction
<1> QED BY <1>3 DEF S, Iteration

-----------------------------------------------------------------------------
(* The walk of fs_init.                                                    *)

\* One more level of the tree.
Deeper(d) == [S \in SUBSET Blocks |-> S \cup UNION {Children(d, b) : b \in S}]

LEMMA DeeperType ==
    ASSUME NEW d
    PROVE  /\ Deeper(d) \in [SUBSET Blocks -> SUBSET Blocks]
           /\ \A b : Children(d, b) \subseteq Blocks \ {0}
<1>1. \A b : Children(d, b) \subseteq Blocks \ {0}
    BY DEF Children
<1>2. \A S \in SUBSET Blocks : S \cup UNION {Children(d, b) : b \in S} \in SUBSET Blocks
    BY <1>1
<1> QED BY <1>1, <1>2 DEF Deeper

\* The levels of the walk, as ReachableInodes computes them.
Levels(d, f) ==
    f = [n \in 0 .. FS_DISKSIZE |->
            IF n = 0 THEN {0} ELSE f[n - 1] \cup UNION {Children(d, b) : b \in f[n - 1]}]

LEMMA LevelsExist ==
    ASSUME NEW d
    PROVE  \E f \in [0 .. FS_DISKSIZE -> SUBSET Blocks] :
                Levels(d, f) /\ ReachableInodes(d) = f[FS_DISKSIZE]
<1>1. FS_DISKSIZE \in Nat /\ {0} \in SUBSET Blocks
    BY SMT, SizesAssumption DEF Blocks
<1>2. \E f : Levels(d, f)
    <2>1. PICK f \in [0 .. FS_DISKSIZE -> SUBSET Blocks] :
              f[0] = {0} /\ \A n \in 1 .. FS_DISKSIZE : f[n] = Deeper(d)[f[n - 1]]
        <3>1. Deeper(d) \in [SUBSET Blocks -> SUBSET Blocks]
            BY DeeperType
        <3>2. \E f \in [0 .. FS_DISKSIZE -> SUBSET Blocks] :
                  Iteration(f, Deeper(d), {0}, FS_DISKSIZE)
            BY <1>1, <3>1, Iterates, Zenon
        <3> QED BY <3>2 DEF Iteration
    <2>2. ASSUME NEW n \in 0 .. FS_DISKSIZE
          PROVE  f[n] = IF n = 0 THEN {0}
                        ELSE f[n - 1] \cup UNION {Children(d, b) : b \in f[n - 1]}
        <3>1. CASE n = 0
            BY <2>1, <3>1
        <3>2. CASE n # 0
            <4>1. n \in 1 .. FS_DISKSIZE /\ n - 1 \in 0 .. FS_DISKSIZE
                BY SMT, <1>1, <3>2
            <4>2. f[n] = Deeper(d)[f[n - 1]] /\ f[n - 1] \in SUBSET Blocks
                BY <2>1, <4>1
            <4> QED BY <3>2, <4>2 DEF Deeper
        <3> QED BY <3>1, <3>2
    <2> QED BY <2>2 DEF Levels
<1> DEFINE L == CHOOSE f : Levels(d, f)
<1>3. Levels(d, L)
    BY <1>2
<1>4. ReachableInodes(d) = L[FS_DISKSIZE]
    BY DEF ReachableInodes, Levels
<1> HIDE DEF L
<1>5. L[0] = {0} /\ DOMAIN L = 0 .. FS_DISKSIZE
    BY SMT, <1>1, <1>3 DEF Levels
<1> DEFINE S == {n \in Nat : n \in 0 .. FS_DISKSIZE => L[n] \in SUBSET Blocks}
<1>6. 0 \in S
    BY <1>1, <1>5
<1>7. ASSUME NEW n \in Nat, n \in S PROVE n + 1 \in S
    <2>1. SUFFICES ASSUME n + 1 \in 0 .. FS_DISKSIZE PROVE L[n + 1] \in SUBSET Blocks
        BY SMT
    <2>2. L[n + 1] = L[n] \cup UNION {Children(d, b) : b \in L[n]}
        BY SMT, <1>1, <1>3, <2>1 DEF Levels
    <2>3. L[n] \in SUBSET Blocks
        BY SMT, <1>1, <1>7, <2>1
    <2>4. \A b \in L[n] : Children(d, b) \subseteq Blocks
        BY DeeperType
    <2> QED BY <2>2, <2>3, <2>4
<1> HIDE DEF S
<1>8. Nat \subseteq S
    BY <1>6, <1>7, NumberInduction
<1>9. \A n \in 0 .. FS_DISKSIZE : L[n] \in SUBSET Blocks
    BY SMT, <1>1, <1>8 DEF S
<1>10. L \in [0 .. FS_DISKSIZE -> SUBSET Blocks]
    BY <1>3, <1>5, <1>9 DEF Levels
<1> QED BY <1>3, <1>4, <1>10

\* The walk finds the root and what the directories it finds point to, and nothing
\* else: no set with these two properties is smaller.
LEMMA Reach ==
    ASSUME NEW d
    PROVE  /\ 0 \in ReachableInodes(d)
           /\ ReachableInodes(d) \subseteq Blocks
           /\ \A b \in ReachableInodes(d) : Children(d, b) \subseteq ReachableInodes(d)
           /\ \A S : 0 \in S /\ (\A b \in S : Children(d, b) \subseteq S)
                        => ReachableInodes(d) \subseteq S
<1>1. PICK L \in [0 .. FS_DISKSIZE -> SUBSET Blocks] :
          Levels(d, L) /\ ReachableInodes(d) = L[FS_DISKSIZE]
    BY LevelsExist
<1>2. FS_DISKSIZE \in Nat /\ FS_DISKSIZE \in 0 .. FS_DISKSIZE /\ L[0] = {0}
    BY SMT, <1>1, SizesAssumption DEF Levels
<1>3. ASSUME NEW n \in Nat, n + 1 \in 0 .. FS_DISKSIZE
      PROVE  /\ n \in 0 .. FS_DISKSIZE
             /\ L[n + 1] = L[n] \cup UNION {Children(d, b) : b \in L[n]}
    BY SMT, <1>1, <1>2, <1>3 DEF Levels
<1>4. ASSUME NEW n \in Nat PROVE n \in 0 .. FS_DISKSIZE => 0 \in L[n]
    <2> DEFINE P == {m \in Nat : m \in 0 .. FS_DISKSIZE => 0 \in L[m]}
    <2>1. 0 \in P
        BY <1>2
    <2>2. \A m \in Nat : m \in P => m + 1 \in P
        BY SMT, <1>3
    <2> HIDE DEF P
    <2>3. Nat \subseteq P
        BY <2>1, <2>2, NumberInduction
    <2> QED BY <2>3 DEF P
<1>5. ASSUME NEW S, 0 \in S, \A b \in S : Children(d, b) \subseteq S
      PROVE  L[FS_DISKSIZE] \subseteq S
    <2> DEFINE P == {m \in Nat : m \in 0 .. FS_DISKSIZE => L[m] \subseteq S}
    <2>1. 0 \in P
        BY <1>2, <1>5
    <2>2. \A m \in Nat : m \in P => m + 1 \in P
        BY SMT, <1>3, <1>5
    <2> HIDE DEF P
    <2>3. Nat \subseteq P
        BY <2>1, <2>2, NumberInduction
    <2> QED BY <1>2, <2>3 DEF P
<1>6. ASSUME NEW b \in L[FS_DISKSIZE] PROVE Children(d, b) \subseteq L[FS_DISKSIZE]
    <2> DEFINE Stable(n) == \A c \in L[n] : Children(d, c) \subseteq L[n]
               P == {n \in Nat : n \in 0 .. FS_DISKSIZE => Cardinality(L[n]) >= n + 1 \/ Stable(n)}
    <2>0. IsFiniteSet(Blocks) /\ Cardinality(Blocks) = FS_DISKSIZE
        <3>1. 0 \in Int /\ FS_DISKSIZE - 1 \in Int
            BY SMT, <1>2
        <3> QED BY SMT, <1>2, <3>1, FS_Interval, SizesAssumption DEF Blocks
    <2>1. \A n \in 0 .. FS_DISKSIZE :
              IsFiniteSet(L[n]) /\ Cardinality(L[n]) \in Nat /\ Cardinality(L[n]) <= FS_DISKSIZE
        BY <1>1, <2>0, FS_Subset, FS_CardinalityType
    <2>2. 0 \in P
        <3>1. Cardinality(L[0]) = 1
            BY <1>2, FS_Singleton
        <3> QED BY SMT, <3>1
    <2>3. ASSUME NEW n \in Nat, n \in P PROVE n + 1 \in P
        <3>1. SUFFICES ASSUME n + 1 \in 0 .. FS_DISKSIZE
                       PROVE  Cardinality(L[n + 1]) >= n + 2 \/ Stable(n + 1)
            BY SMT
        <3>2. n \in 0 .. FS_DISKSIZE /\ L[n + 1] = L[n] \cup UNION {Children(d, c) : c \in L[n]}
            BY <1>3, <3>1
        <3>3. CASE Stable(n)
            <4>1. L[n + 1] = L[n]
                BY <3>2, <3>3
            <4> QED BY <3>3, <4>1
        <3>4. CASE ~Stable(n)
            <4>1. PICK x \in L[n + 1] : x \notin L[n]
                BY <3>2, <3>4
            <4>2. L[n] \cup {x} \subseteq L[n + 1]
                BY <3>2, <4>1
            <4>3. Cardinality(L[n] \cup {x}) = Cardinality(L[n]) + 1
                BY <2>1, <3>2, <4>1, FS_AddElement
            <4>4. Cardinality(L[n] \cup {x}) <= Cardinality(L[n + 1])
                BY <2>1, <3>1, <4>2, FS_Subset
            <4>5. Cardinality(L[n]) >= n + 1
                BY <2>3, <3>2, <3>4
            <4>6. Cardinality(L[n]) \in Nat /\ Cardinality(L[n + 1]) \in Nat
                BY <2>1, <3>1, <3>2
            <4> HIDE DEF Stable
            <4> QED BY SMT, <4>3, <4>4, <4>5, <4>6
        <3> QED BY <3>3, <3>4
    <2> HIDE DEF P
    <2>4. Nat \subseteq P
        BY <2>2, <2>3, NumberInduction
    <2>5. Cardinality(L[FS_DISKSIZE]) >= FS_DISKSIZE + 1 \/ Stable(FS_DISKSIZE)
        BY <1>2, <2>4 DEF P
    <2> HIDE DEF Stable
    <2>6. Stable(FS_DISKSIZE)
        BY SMT, <1>2, <2>1, <2>5
    <2> QED BY <1>6, <2>6 DEF Stable
<1> QED BY <1>1, <1>2, <1>4, <1>5, <1>6

-----------------------------------------------------------------------------
(* Blocks and inodes.                                                      *)

LEMMA BlockArray ==
    ASSUME NEW a
    PROVE  a \in BlockArrays <=> /\ a \in Seq(Blocks \ {0})
                                 /\ Len(a) <= FS_MAXFILEBLOCKS
<1>1. FS_MAXFILEBLOCKS \in Nat
    BY SizesAssumption
<1>2. ASSUME a \in BlockArrays PROVE a \in Seq(Blocks \ {0}) /\ Len(a) <= FS_MAXFILEBLOCKS
    <2>1. PICK n \in 0 .. FS_MAXFILEBLOCKS : a \in [1 .. n -> Blocks \ {0}]
        BY <1>2 DEF BlockArrays
    <2> QED BY SMT, <1>1, <2>1
<1>3. ASSUME a \in Seq(Blocks \ {0}), Len(a) <= FS_MAXFILEBLOCKS PROVE a \in BlockArrays
    <2>1. Len(a) \in 0 .. FS_MAXFILEBLOCKS /\ a \in [1 .. Len(a) -> Blocks \ {0}]
        BY SMT, <1>1, <1>3
    <2> QED BY <2>1 DEF BlockArrays
<1> QED BY <1>2, <1>3

LEMMA InodeFields ==
    ASSUME NEW x \in fs_inode
    PROVE  /\ x.kind = "inode" /\ x.type \in {"f", "d"} /\ x.owner \in Owners
           /\ x.blocks \in Seq(Blocks \ {0})
           /\ size(x) \in Nat /\ size(x) <= FS_MAXFILEBLOCKS
           /\ \A i \in 1 .. size(x) : x.blocks[i] \in Blocks /\ x.blocks[i] # 0
<1>1. x.kind = "inode" /\ x.type \in {"f", "d"} /\ x.owner \in Owners /\ x.blocks \in BlockArrays
    BY DEF fs_inode
<1>2. x.blocks \in Seq(Blocks \ {0}) /\ Len(x.blocks) <= FS_MAXFILEBLOCKS
    BY <1>1, BlockArray
<1> QED BY SMT, <1>1, <1>2 DEF size

\* y is inode x with another array of blocks.
WithBlocks(x, a, y) == y \in fs_inode /\ y.type = x.type /\ y.owner = x.owner /\ y.blocks = a

LEMMA InodeWith ==
    ASSUME NEW x \in fs_inode, NEW a \in Seq(Blocks \ {0}), Len(a) <= FS_MAXFILEBLOCKS
    PROVE  WithBlocks(x, a, [x EXCEPT !.blocks = a])
<1>1. a \in BlockArrays
    BY BlockArray
<1> QED BY <1>1 DEF fs_inode, WithBlocks

\* y is inode x with one more block.
Grown(x, b, y) ==
    /\ y \in fs_inode /\ y.type = x.type /\ y.owner = x.owner /\ size(y) = size(x) + 1
    /\ y.blocks[size(x) + 1] = b /\ \A i \in 1 .. size(x) : y.blocks[i] = x.blocks[i]

Longer(inode, b) == [inode EXCEPT !.blocks = Append(@, b)]

LEMMA InodeGrown ==
    ASSUME NEW x \in fs_inode, NEW b \in Blocks \ {0}, size(x) < FS_MAXFILEBLOCKS
    PROVE  Grown(x, b, [x EXCEPT !.blocks = Append(x.blocks, b)])
<1> DEFINE y == [x EXCEPT !.blocks = Append(x.blocks, b)]
           a == Append(x.blocks, b)
<1>1. x.blocks \in Seq(Blocks \ {0}) /\ size(x) \in Nat /\ size(x) = Len(x.blocks)
    BY InodeFields DEF size
<1>2. /\ a \in Seq(Blocks \ {0}) /\ Len(a) = size(x) + 1
      /\ a[size(x) + 1] = b /\ \A i \in 1 .. size(x) : a[i] = x.blocks[i]
    BY SMT, <1>1
<1>3. Len(a) <= FS_MAXFILEBLOCKS
    BY SMT, <1>1, <1>2, SizesAssumption
<1>4. WithBlocks(x, a, y)
    <2> HIDE DEF a
    <2>1. WithBlocks(x, a, [x EXCEPT !.blocks = a])
        BY <1>2, <1>3, InodeWith
    <2> QED BY <2>1 DEF a
<1> HIDE DEF a, y
<1>5. Grown(x, b, y)
    BY <1>1, <1>2, <1>4 DEF WithBlocks, Grown, size
<1> QED BY <1>5 DEF y, a

LEMMA EntryFields ==
    ASSUME NEW x \in direntries
    PROVE  /\ x.kind = "direntries"
           /\ \A j \in 1 .. FS_DIRENTRIES :
                x.entries[j] \in Direntry /\ x.entries[j].inode_block \in Blocks
                /\ x.entries[j].name \in Names \cup {None}
BY DEF direntries, Direntry

LEMMA DataFields == ASSUME NEW x \in DataBlock PROVE x.kind = "data" /\ x.value \in Data
BY DEF DataBlock

LEMMA UpToNext == ASSUME NEW n \in Nat PROVE \A i \in 1 .. n + 1 : i \in 1 .. n \/ i = n + 1
BY SMT

\* What a sound disk holds, in terms of its inodes.
LEMMA SoundFacts ==
    ASSUME NEW d, Sound(d), NEW b \in ReachableInodes(d)
    PROVE  /\ b \in Blocks /\ d[b] \in fs_inode /\ d[b].type \in {"f", "d"}
           /\ size(d[b]) \in Nat /\ size(d[b]) <= FS_MAXFILEBLOCKS
           /\ \A i \in 1 .. size(d[b]) :
                /\ d[b].blocks[i] \in Blocks /\ d[b].blocks[i] # 0
                /\ d[b].blocks[i] \notin ReachableInodes(d)
                /\ d[b].type = "f" => d[d[b].blocks[i]] \in DataBlock
                /\ d[b].type = "d" => d[d[b].blocks[i]] \in direntries
<1>1. b \in Blocks
    BY Reach
<1>2. \A c \in ReachableInodes(d) : d[c] \in fs_inode /\ d[c].kind = "inode"
    BY InodeFields DEF Sound, KindsRight, InodesOf
<1>3. /\ d[b].type \in {"f", "d"} /\ size(d[b]) \in Nat /\ size(d[b]) <= FS_MAXFILEBLOCKS
      /\ \A i \in 1 .. size(d[b]) : d[b].blocks[i] \in Blocks /\ d[b].blocks[i] # 0
    BY <1>2, InodeFields
<1>4. ASSUME NEW i \in 1 .. size(d[b])
      PROVE  /\ d[b].type = "f" => d[d[b].blocks[i]] \in DataBlock
             /\ d[b].type = "d" => d[d[b].blocks[i]] \in direntries
    BY DEF Sound, KindsRight, InodesOf
<1>5. ASSUME NEW i \in 1 .. size(d[b])
      PROVE  d[b].blocks[i] \notin ReachableInodes(d)
    <2>1. d[d[b].blocks[i]].kind \in {"data", "direntries"}
        BY <1>3, <1>4, EntryFields, DataFields
    <2> QED BY <1>2, <2>1
<1> QED BY <1>1, <1>2, <1>3, <1>4, <1>5

\* The walk meets each block, each entry and each name of a directory once.
LEMMA BlockOnce ==
    ASSUME NEW d, Sound(d), NEW b \in ReachableInodes(d), NEW c \in ReachableInodes(d),
           NEW i \in 1 .. size(d[b]), NEW k \in 1 .. size(d[c]), d[b].blocks[i] = d[c].blocks[k]
    PROVE  b = c /\ i = k
BY DEF Sound, MetOnce, InodesOf

LEMMA EntryOnce ==
    ASSUME NEW d, Sound(d), NEW b \in DirsOf(d), NEW c \in DirsOf(d),
           NEW i \in 1 .. size(d[b]), NEW k \in 1 .. size(d[c]),
           NEW j \in 1 .. FS_DIRENTRIES, NEW m \in 1 .. FS_DIRENTRIES,
           EntryAt(d, b, i, j).inode_block # 0,
           EntryAt(d, b, i, j).inode_block = EntryAt(d, c, k, m).inode_block
    PROVE  b = c /\ i = k /\ j = m
BY SMT DEF Sound, MetOnce

LEMMA NameOnce ==
    ASSUME NEW d, Sound(d), NEW b \in DirsOf(d),
           NEW i \in 1 .. size(d[b]), NEW k \in 1 .. size(d[b]),
           NEW j \in 1 .. FS_DIRENTRIES, NEW m \in 1 .. FS_DIRENTRIES,
           EntryAt(d, b, i, j).inode_block # 0, EntryAt(d, b, k, m).inode_block # 0,
           EntryAt(d, b, i, j).name = EntryAt(d, b, k, m).name
    PROVE  i = k /\ j = m
BY DEF Sound, OneEntryPerName

LEMMA UsedIff ==
    ASSUME NEW d, NEW x
    PROVE  x \in blocks_used(d) <=>
                \/ x \in ReachableInodes(d) /\ x # 0
                \/ \E b \in ReachableInodes(d) : \E i \in 1 .. size(d[b]) : d[b].blocks[i] = x
BY SMT DEF blocks_used

LEMMA DirChildIff ==
    ASSUME NEW d, NEW b, d[b].type # "f", NEW x
    PROVE  x \in Children(d, b) <=>
                /\ x \in Blocks /\ x # 0
                /\ \E i \in 1 .. size(d[b]), j \in 1 .. FS_DIRENTRIES :
                        EntryAt(d, b, i, j).inode_block = x
BY DEF Children, EntryAt

LEMMA ChildIff ==
    ASSUME NEW d, Sound(d), NEW b \in ReachableInodes(d), NEW x
    PROVE  x \in Children(d, b) <=>
                /\ d[b].type = "d" /\ x # 0
                /\ \E i \in 1 .. size(d[b]), j \in 1 .. FS_DIRENTRIES :
                        EntryAt(d, b, i, j).inode_block = x
<1>1. d[b].type \in {"f", "d"}
    BY SoundFacts
<1>2. ASSUME d[b].type = "d", NEW i \in 1 .. size(d[b]), NEW j \in 1 .. FS_DIRENTRIES
      PROVE  EntryAt(d, b, i, j).inode_block \in Blocks
    BY <1>2, SoundFacts, EntryFields DEF EntryAt
<1> QED BY <1>1, <1>2 DEF Children, EntryAt

LEMMA SameChildren ==
    ASSUME NEW d, NEW e, NEW b, e[b] = d[b],
           \A i \in 1 .. size(d[b]) : e[d[b].blocks[i]] = d[d[b].blocks[i]]
    PROVE  Children(e, b) = Children(d, b)
<1>1. \A i \in 1 .. size(d[b]), j \in 1 .. FS_DIRENTRIES :
          e[e[b].blocks[i]].entries[j].inode_block = d[d[b].blocks[i]].entries[j].inode_block
    OBVIOUS
<1>2. CASE d[b].type = "f"
    BY <1>2 DEF Children
<1>3. CASE d[b].type # "f"
    <2>1. \A x : x \in Children(e, b) <=> x \in Children(d, b)
        BY SMT, <1>1, <1>3 DEF Children
    <2> QED BY <2>1
<1> QED BY <1>2, <1>3

LEMMA SameTree ==
    ASSUME NEW d, NEW e, \A b \in ReachableInodes(d) : Children(e, b) = Children(d, b)
    PROVE  ReachableInodes(e) = ReachableInodes(d)
<1>1. ReachableInodes(e) \subseteq ReachableInodes(d)
    BY Reach
<1>2. ReachableInodes(d) \subseteq ReachableInodes(e)
    <2>1. \A b \in ReachableInodes(e) : Children(d, b) \subseteq ReachableInodes(e)
        BY <1>1, Reach
    <2> QED BY <2>1, Reach
<1> QED BY <1>1, <1>2

\* An inode without children joins the tree, or leaves it.
LEMMA GrowTree ==
    ASSUME NEW d, NEW e, NEW x, x \notin ReachableInodes(d), Children(e, x) = {},
           \A b \in ReachableInodes(d) :
                Children(d, b) \subseteq Children(e, b) /\ Children(e, b) \subseteq Children(d, b) \cup {x},
           \E b \in ReachableInodes(d) : x \in Children(e, b)
    PROVE  ReachableInodes(e) = ReachableInodes(d) \cup {x}
<1>1. ReachableInodes(e) \subseteq ReachableInodes(d) \cup {x}
    <2> DEFINE S == ReachableInodes(d) \cup {x}
    <2>1. 0 \in S /\ \A b \in S : Children(e, b) \subseteq S
        BY Reach
    <2> HIDE DEF S
    <2>2. ReachableInodes(e) \subseteq S
        BY <2>1, Reach
    <2> QED BY <2>2 DEF S
<1>2. ReachableInodes(d) \subseteq ReachableInodes(e)
    <2> DEFINE S == ReachableInodes(e) \cap ReachableInodes(d)
    <2>1. 0 \in S /\ \A b \in S : Children(d, b) \subseteq S
        BY Reach
    <2> HIDE DEF S
    <2>2. ReachableInodes(d) \subseteq S
        BY <2>1, Reach
    <2> QED BY <2>2 DEF S
<1>3. x \in ReachableInodes(e)
    BY <1>2, Reach
<1> QED BY SMT, <1>1, <1>2, <1>3

LEMMA ShrinkTree ==
    ASSUME NEW d, NEW e, NEW x, x # 0, Children(d, x) = {},
           \A b \in ReachableInodes(d) : b # x => Children(e, b) = Children(d, b) \ {x}
    PROVE  ReachableInodes(e) = ReachableInodes(d) \ {x}
<1>1. ReachableInodes(e) \subseteq ReachableInodes(d) \ {x}
    <2> DEFINE S == ReachableInodes(d) \ {x}
    <2>1. 0 \in S /\ \A b \in S : Children(e, b) \subseteq S
        BY Reach
    <2> HIDE DEF S
    <2>2. ReachableInodes(e) \subseteq S
        BY <2>1, Reach
    <2> QED BY <2>2 DEF S
<1>2. ReachableInodes(d) \subseteq ReachableInodes(e) \cup {x}
    <2> DEFINE S == ReachableInodes(e) \cup {x}
    <2>1. 0 \in S /\ \A b \in S : Children(d, b) \subseteq S
        BY <1>1, Reach
    <2> HIDE DEF S
    <2>2. ReachableInodes(d) \subseteq S
        BY <2>1, Reach
    <2> QED BY <2>2 DEF S
<1> QED BY <1>1, <1>2

\* What is not part of the tree does not matter.
LEMMA Agree ==
    ASSUME NEW d, NEW e, Sound(d), e \in [Blocks -> Contents],
           \A b \in {0} \cup blocks_used(d) : e[b] = d[b]
    PROVE  /\ Sound(e)
           /\ ReachableInodes(e) = ReachableInodes(d)
           /\ blocks_used(e) = blocks_used(d)
<1>1. ASSUME NEW b \in ReachableInodes(d)
      PROVE  e[b] = d[b] /\ \A i \in 1 .. size(d[b]) : e[d[b].blocks[i]] = d[d[b].blocks[i]]
    BY UsedIff
<1>2. ReachableInodes(e) = ReachableInodes(d)
    BY SMT, <1>1, SameChildren, SameTree
<1>3. blocks_used(e) = blocks_used(d)
    <2>1. \A x : x \in blocks_used(e) <=> x \in blocks_used(d)
        BY SMT, <1>1, <1>2, UsedIff
    <2> QED BY <2>1
<1>4. \A b \in ReachableInodes(d) : \A i \in 1 .. size(d[b]), j \in 1 .. FS_DIRENTRIES :
          EntryAt(e, b, i, j) = EntryAt(d, b, i, j)
    BY <1>1 DEF EntryAt
<1>5. KindsRight(e)
    BY SMT, <1>1, <1>2, <1>4 DEF Sound, KindsRight, InodesOf
<1>6. MetOnce(e)
    BY SMT, <1>1, <1>2, <1>4 DEF Sound, MetOnce, InodesOf, DirsOf
<1>7. OneEntryPerName(e)
    BY SMT, <1>1, <1>2, <1>4 DEF Sound, OneEntryPerName, InodesOf, DirsOf
<1> QED BY <1>2, <1>3, <1>5, <1>6, <1>7 DEF Sound

-----------------------------------------------------------------------------
(* The writes.                                                             *)

\* Disk e is disk d after content c was written to block x.
Wrote(d, e, x, c) ==
    e \in [Blocks -> Contents] /\ e[x] = c /\ \A b \in Blocks : b # x => e[b] = d[b]

LEMMA WriteWrote ==
    ASSUME NEW d \in [Blocks -> Contents], NEW x \in Blocks, NEW c \in Contents
    PROVE  Wrote(d, [d EXCEPT ![x] = c], x, c)
BY DEF Wrote

\* A block of a file is overwritten.
LEMMA Overwrite ==
    ASSUME NEW d, Sound(d), NEW b \in ReachableInodes(d), d[b].type = "f",
           NEW k \in 1 .. size(d[b]), NEW c \in DataBlock,
           NEW e, Wrote(d, e, d[b].blocks[k], c)
    PROVE  /\ Sound(e)
           /\ ReachableInodes(e) = ReachableInodes(d)
           /\ blocks_used(e) = blocks_used(d)
<1> DEFINE y == d[b].blocks[k]
<1>1. y \in Blocks /\ y \notin ReachableInodes(d)
    BY SoundFacts
<1>2. e \in [Blocks -> Contents] /\ e[y] = c /\ \A x \in Blocks : x # y => e[x] = d[x]
    BY DEF Wrote
<1> HIDE DEF y
<1>3. ASSUME NEW a \in ReachableInodes(d)
      PROVE  /\ e[a] = d[a]
             /\ d[a].type = "d" => \A i \in 1 .. size(d[a]) : e[d[a].blocks[i]] = d[d[a].blocks[i]]
    <2>1. \A i \in 1 .. size(d[a]) : d[a].blocks[i] = y => a = b
        BY DEF y, Sound, MetOnce, InodesOf
    <2> QED BY <1>1, <1>2, <2>1, SoundFacts
<1>4. ASSUME NEW a \in ReachableInodes(d) PROVE Children(e, a) = Children(d, a)
    <2>1. CASE d[a].type = "d"
        BY SMT, <1>3, <2>1, SameChildren
    <2>2. CASE d[a].type = "f"
        BY <1>3, <2>2 DEF Children
    <2> QED BY <2>1, <2>2, SoundFacts
<1>5. ReachableInodes(e) = ReachableInodes(d)
    BY <1>4, SameTree
<1>6. blocks_used(e) = blocks_used(d)
    <2>1. \A x : x \in blocks_used(e) <=> x \in blocks_used(d)
        BY SMT, <1>3, <1>5, UsedIff
    <2> QED BY <2>1
<1>7. \A a \in DirsOf(d) : \A i \in 1 .. size(d[a]), j \in 1 .. FS_DIRENTRIES :
          EntryAt(e, a, i, j) = EntryAt(d, a, i, j)
    BY <1>3 DEF EntryAt, DirsOf, InodesOf
<1>8. DirsOf(e) = DirsOf(d)
    BY <1>3, <1>5 DEF DirsOf, InodesOf
<1>9. KindsRight(e)
    <2> SUFFICES ASSUME NEW a \in ReachableInodes(d), NEW i \in 1 .. size(d[a])
                 PROVE  IF d[a].type = "f" THEN e[d[a].blocks[i]] \in DataBlock
                        ELSE /\ e[d[a].blocks[i]] \in direntries
                             /\ \E j \in 1 .. FS_DIRENTRIES : EntryAt(e, a, i, j).inode_block # 0
        BY SMT, <1>3, <1>5, SoundFacts DEF KindsRight, InodesOf
    <2>1. CASE d[a].type = "f"
        BY <1>2, <2>1, SoundFacts
    <2>2. CASE d[a].type = "d"
        BY SMT, <1>3, <1>7, <2>2 DEF Sound, KindsRight, InodesOf, DirsOf
    <2> QED BY <2>1, <2>2, SoundFacts
<1>10. MetOnce(e)
    BY SMT, <1>3, <1>5, <1>7, <1>8 DEF Sound, MetOnce, InodesOf, DirsOf
<1>11. OneEntryPerName(e)
    <2> SUFFICES \A a \in DirsOf(e) : \A i, m \in 1 .. size(e[a]) : \A j, q \in 1 .. FS_DIRENTRIES :
                    /\ EntryAt(e, a, i, j).inode_block # 0 /\ EntryAt(e, a, m, q).inode_block # 0
                    /\ EntryAt(e, a, i, j).name = EntryAt(e, a, m, q).name
                    => i = m /\ j = q
        BY DEF OneEntryPerName
    <2> TAKE a \in DirsOf(e)
    <2> TAKE i, m \in 1 .. size(e[a])
    <2> TAKE j, q \in 1 .. FS_DIRENTRIES
    <2> HAVE /\ EntryAt(e, a, i, j).inode_block # 0 /\ EntryAt(e, a, m, q).inode_block # 0
             /\ EntryAt(e, a, i, j).name = EntryAt(e, a, m, q).name
    <2>1. a \in DirsOf(d) /\ e[a] = d[a]
        BY <1>3, <1>8 DEF DirsOf, InodesOf
    <2>2. EntryAt(e, a, i, j) = EntryAt(d, a, i, j) /\ EntryAt(e, a, m, q) = EntryAt(d, a, m, q)
        BY <1>7, <2>1
    <2> QED BY SMT, <2>1, <2>2, NameOnce
<1> QED BY <1>2, <1>5, <1>6, <1>9, <1>10, <1>11 DEF Sound

Became(e, inodes, used) == Sound(e) /\ ReachableInodes(e) = inodes /\ blocks_used(e) = used

Overwrites(d, b, k, c, e) ==
    /\ Sound(d) /\ b \in ReachableInodes(d) /\ d[b].type = "f" /\ k \in 1 .. size(d[b]) /\ c \in DataBlock
    /\ Wrote(d, e, d[b].blocks[k], c)

LEMMA Overwritten ==
    ASSUME NEW d, NEW b, NEW k, NEW c, NEW e, Overwrites(d, b, k, c, e)
    PROVE  Became(e, ReachableInodes(d), blocks_used(d))
BY SMT, Overwrite DEF Overwrites, Became

\* A block of data is appended to a file.
LEMMA ExtendFile ==
    ASSUME NEW d, Sound(d), NEW b \in ReachableInodes(d), d[b].type = "f",
           size(d[b]) < FS_MAXFILEBLOCKS,
           NEW y \in Blocks \ {0}, y \notin blocks_used(d), d[y] \in DataBlock,
           NEW e, Wrote(d, e, b, Longer(d[b], y))
    PROVE  /\ Sound(e)
           /\ ReachableInodes(e) = ReachableInodes(d)
           /\ blocks_used(e) = blocks_used(d) \cup {y}
<1> DEFINE n == size(d[b])
<1>0. n \in Nat /\ n + 1 <= FS_MAXFILEBLOCKS /\ d[b] \in fs_inode /\ b \in Blocks
      /\ FS_MAXFILEBLOCKS \in Nat
    BY SMT, SoundFacts, SizesAssumption
<1>1. /\ e[b] \in fs_inode /\ e[b].type = "f" /\ size(e[b]) = n + 1
      /\ e[b].blocks[n + 1] = y /\ \A i \in 1 .. n : e[b].blocks[i] = d[b].blocks[i]
    <2>1. e[b] = [d[b] EXCEPT !.blocks = Append(d[b].blocks, y)]
        BY DEF Wrote, Longer
    <2>2. Grown(d[b], y, e[b])
        BY <1>0, <2>1, InodeGrown
    <2> QED BY <2>2 DEF Grown
<1>2. e \in [Blocks -> Contents] /\ \A x \in Blocks : x # b => e[x] = d[x]
    BY DEF Wrote
<1> HIDE DEF n
<1>3. ASSUME NEW a \in ReachableInodes(d), NEW i \in 1 .. size(d[a])
      PROVE  d[a].blocks[i] \in Blocks /\ d[a].blocks[i] # b /\ d[a].blocks[i] # y
    BY SMT, SoundFacts, UsedIff
<1>4. ASSUME NEW a \in ReachableInodes(d), a # b
      PROVE  e[a] = d[a] /\ \A i \in 1 .. size(d[a]) : e[d[a].blocks[i]] = d[d[a].blocks[i]]
    BY <1>2, <1>3, <1>4, SoundFacts
<1>5. ASSUME NEW a \in ReachableInodes(d) PROVE Children(e, a) = Children(d, a)
    <2>1. CASE a = b
        BY <1>1, <2>1 DEF Children
    <2>2. CASE a # b
        BY <1>4, <2>2, SameChildren
    <2> QED BY <2>1, <2>2
<1>6. ReachableInodes(e) = ReachableInodes(d)
    BY <1>5, SameTree
<1>7. blocks_used(e) = blocks_used(d) \cup {y}
    <2>1. ASSUME NEW x, x \in blocks_used(e) PROVE x \in blocks_used(d) \cup {y}
        <3>1. ASSUME NEW a \in ReachableInodes(d), NEW i \in 1 .. size(e[a]), e[a].blocks[i] = x
              PROVE  x \in blocks_used(d) \cup {y}
            <4>1. CASE a # b
                BY <1>4, <3>1, <4>1, UsedIff
            <4>2. CASE a = b /\ i = n + 1
                BY <1>1, <3>1, <4>2
            <4>3. CASE a = b /\ i # n + 1
                <5>1. i \in 1 .. size(d[b]) /\ d[b].blocks[i] = x
                    BY SMT, <1>0, <1>1, <3>1, <4>3 DEF n
                <5> QED BY <5>1, UsedIff
            <4> QED BY <4>1, <4>2, <4>3
        <3> QED BY SMT, <1>6, <2>1, <3>1, UsedIff
    <2>2. ASSUME NEW x, x \in blocks_used(d) PROVE x \in blocks_used(e)
        <3>1. ASSUME NEW a \in ReachableInodes(d), NEW i \in 1 .. size(d[a]), d[a].blocks[i] = x
              PROVE  i \in 1 .. size(e[a]) /\ e[a].blocks[i] = x
            BY SMT, <1>0, <1>1, <1>4, <3>1 DEF n
        <3> QED BY SMT, <1>6, <2>2, <3>1, UsedIff
    <2>3. y \in blocks_used(e)
        <3>1. n + 1 \in 1 .. size(e[b])
            BY SMT, <1>0, <1>1
        <3> QED BY <1>1, <1>6, <3>1, UsedIff
    <2> QED BY <2>1, <2>2, <2>3
<1>8. DirsOf(e) = DirsOf(d) /\ b \notin DirsOf(d) /\ DirsOf(d) \subseteq ReachableInodes(d)
    BY SMT, <1>1, <1>4, <1>6 DEF DirsOf, InodesOf
<1>9. \A a \in DirsOf(d) : e[a] = d[a] /\
          \A i \in 1 .. size(d[a]), j \in 1 .. FS_DIRENTRIES : EntryAt(e, a, i, j) = EntryAt(d, a, i, j)
    BY <1>4, <1>8 DEF EntryAt
<1>10. KindsRight(e)
    <2> SUFFICES ASSUME NEW a \in ReachableInodes(d)
                 PROVE  /\ e[a] \in fs_inode
                        /\ \A i \in 1 .. size(e[a]) :
                            IF e[a].type = "f" THEN e[e[a].blocks[i]] \in DataBlock
                            ELSE /\ e[e[a].blocks[i]] \in direntries
                                 /\ \E j \in 1 .. FS_DIRENTRIES : EntryAt(e, a, i, j).inode_block # 0
        BY <1>6 DEF KindsRight, InodesOf
    <2>1. CASE a = b
        <3>1. ASSUME NEW i \in 1 .. n PROVE e[d[b].blocks[i]] \in DataBlock
            <4>1. d[d[b].blocks[i]] \in DataBlock /\ e[d[b].blocks[i]] = d[d[b].blocks[i]]
                BY <1>2, <1>3, SoundFacts DEF n
            <4> QED BY <4>1
        <3>2. e[y] \in DataBlock
            <4>1. y # b
                BY UsedIff
            <4> QED BY <1>2, <4>1
        <3>3. \A i \in 1 .. n + 1 : i \in 1 .. n \/ i = n + 1
            BY <1>0, UpToNext
        <3> QED BY <1>1, <2>1, <3>1, <3>2, <3>3
    <2>2. CASE a # b
        BY SMT, <1>4, <2>2 DEF Sound, KindsRight, InodesOf, EntryAt
    <2> QED BY <2>1, <2>2
<1>11. MetOnce(e)
    <2>1. ASSUME NEW a \in ReachableInodes(d), NEW c \in ReachableInodes(d),
                 NEW i \in 1 .. size(e[a]), NEW k \in 1 .. size(e[c]), e[a].blocks[i] = e[c].blocks[k]
          PROVE  a = c /\ i = k
        <3>1. ASSUME NEW z \in ReachableInodes(d), NEW m \in 1 .. size(e[z])
              PROVE  \/ z = b /\ m = n + 1 /\ e[z].blocks[m] = y
                     \/ /\ m \in 1 .. size(d[z]) /\ e[z].blocks[m] = d[z].blocks[m]
                        /\ d[z].blocks[m] # y
            BY SMT, <1>0, <1>1, <1>3, <1>4 DEF n
        <3> QED BY SMT, <2>1, <3>1 DEF Sound, MetOnce, InodesOf
    <2> QED BY SMT, <1>6, <1>8, <1>9, <2>1 DEF Sound, MetOnce, InodesOf
<1>12. OneEntryPerName(e)
    <2> SUFFICES \A a \in DirsOf(e) : \A i, m \in 1 .. size(e[a]) : \A j, q \in 1 .. FS_DIRENTRIES :
                    /\ EntryAt(e, a, i, j).inode_block # 0 /\ EntryAt(e, a, m, q).inode_block # 0
                    /\ EntryAt(e, a, i, j).name = EntryAt(e, a, m, q).name
                    => i = m /\ j = q
        BY DEF OneEntryPerName
    <2> TAKE a \in DirsOf(e)
    <2> TAKE i, m \in 1 .. size(e[a])
    <2> TAKE j, q \in 1 .. FS_DIRENTRIES
    <2> HAVE /\ EntryAt(e, a, i, j).inode_block # 0 /\ EntryAt(e, a, m, q).inode_block # 0
             /\ EntryAt(e, a, i, j).name = EntryAt(e, a, m, q).name
    <2>1. a \in DirsOf(d) /\ e[a] = d[a]
        BY <1>8, <1>9
    <2>2. EntryAt(e, a, i, j) = EntryAt(d, a, i, j) /\ EntryAt(e, a, m, q) = EntryAt(d, a, m, q)
        BY <1>9, <2>1
    <2> QED BY SMT, <2>1, <2>2, NameOnce
<1> QED BY <1>2, <1>6, <1>7, <1>10, <1>11, <1>12 DEF Sound

\* An unused entry of a directory is filled in with a new inode.
LEMMA LinkEntry ==
    ASSUME NEW d, Sound(d), NEW b \in ReachableInodes(d), d[b].type = "d",
           NEW k \in 1 .. size(d[b]), NEW s \in 1 .. FS_DIRENTRIES,
           EntryAt(d, b, k, s).inode_block = 0,
           NEW n, NotIn(d, b, n),
           NEW x \in Blocks \ {0}, x \notin blocks_used(d), d[x] \in fs_inode, size(d[x]) = 0,
           NEW c \in direntries, c.entries[s] = Entry(n, x),
           \A j \in 1 .. FS_DIRENTRIES : j # s => c.entries[j] = EntryAt(d, b, k, j),
           NEW e, Wrote(d, e, d[b].blocks[k], c)
    PROVE  /\ Sound(e)
           /\ ReachableInodes(e) = ReachableInodes(d) \cup {x}
           /\ blocks_used(e) = blocks_used(d) \cup {x}
<1> DEFINE y == d[b].blocks[k]
<1>1. y \in Blocks /\ y \notin ReachableInodes(d) /\ y # 0
    BY SoundFacts
<1>2. e \in [Blocks -> Contents] /\ e[y] = c /\ \A z \in Blocks : z # y => e[z] = d[z]
    BY DEF Wrote
<1>3. x \notin ReachableInodes(d) /\ x # y
    BY UsedIff
<1>4. e[x] = d[x]
    BY <1>2, <1>3
<1>5. ASSUME NEW a \in ReachableInodes(d) PROVE e[a] = d[a]
    BY <1>1, <1>2, Reach
<1>6. ASSUME NEW a \in ReachableInodes(d), NEW i \in 1 .. size(d[a]), <<a, i>> # <<b, k>>
      PROVE  e[d[a].blocks[i]] = d[d[a].blocks[i]]
    <2>1. d[a].blocks[i] # y
        BY SMT, <1>6 DEF Sound, MetOnce, InodesOf
    <2> QED BY <1>2, <2>1, SoundFacts
<1> HIDE DEF y
<1>7. ASSUME NEW a \in ReachableInodes(d), NEW i \in 1 .. size(d[a]), NEW j \in 1 .. FS_DIRENTRIES
      PROVE  /\ <<a, i, j>> # <<b, k, s>> => EntryAt(e, a, i, j) = EntryAt(d, a, i, j)
             /\ <<a, i, j>> = <<b, k, s>> => EntryAt(e, a, i, j) = Entry(n, x)
    <2>1. CASE <<a, i>> # <<b, k>>
        BY <1>5, <1>6, <2>1 DEF EntryAt
    <2>2. CASE <<a, i>> = <<b, k>>
        BY <1>2, <1>5, <2>2 DEF EntryAt, y
    <2> QED BY <2>1, <2>2
<1>8. ASSUME NEW a \in ReachableInodes(d), NEW i \in 1 .. size(d[a]), NEW j \in 1 .. FS_DIRENTRIES,
             d[a].type = "d"
      PROVE  EntryAt(d, a, i, j).inode_block # x
    <2>1. EntryAt(d, a, i, j).inode_block # 0
              => EntryAt(d, a, i, j).inode_block \in Children(d, a)
        BY <1>8, ChildIff
    <2> QED BY <1>3, <2>1, Reach
<1>9. ReachableInodes(e) = ReachableInodes(d) \cup {x}
    <2>1. Children(e, x) = {}
        BY SMT, <1>4, SizesAssumption DEF Children
    <2>2. ASSUME NEW a \in ReachableInodes(d), a # b PROVE Children(e, a) = Children(d, a)
        BY SMT, <1>5, <1>6, <2>2, SameChildren
    <2>3. ASSUME NEW z, z # x PROVE z \in Children(e, b) <=> z \in Children(d, b)
        <3>1. e[b] = d[b] /\ e[b].type # "f"
            BY <1>5
        <3>2. \A i \in 1 .. size(d[b]), j \in 1 .. FS_DIRENTRIES :
                \/ EntryAt(e, b, i, j).inode_block \in {0, x} /\ EntryAt(d, b, i, j).inode_block = 0
                \/ EntryAt(e, b, i, j).inode_block = EntryAt(d, b, i, j).inode_block
            BY SMT, <1>7 DEF Entry
        <3> QED BY SMT, <2>3, <3>1, <3>2, DirChildIff
    <2>4. x \in Children(e, b)
        <3>1. e[b] = d[b] /\ e[b].type # "f" /\ EntryAt(e, b, k, s).inode_block = x
            BY SMT, <1>5, <1>7 DEF Entry
        <3> QED BY <3>1, DirChildIff
    <2>5. \A a \in ReachableInodes(d) :
              Children(d, a) \subseteq Children(e, a) /\ Children(e, a) \subseteq Children(d, a) \cup {x}
        <3>1. ASSUME NEW a \in ReachableInodes(d), a = b
              PROVE  Children(d, a) \subseteq Children(e, a) \cup {x}
                     /\ Children(e, a) \subseteq Children(d, a) \cup {x}
            BY <2>3, <3>1
        <3> QED BY <2>2, <2>4, <3>1
    <2> QED BY <1>3, <2>1, <2>4, <2>5, GrowTree
<1>10. blocks_used(e) = blocks_used(d) \cup {x}
    <2>1. \A z : z \in blocks_used(e) <=> z \in blocks_used(d) \/ z = x
        <3>1. 1 .. size(e[x]) = {}
            BY SMT, <1>4
        <3> QED BY SMT, <1>5, <1>9, <3>1, UsedIff
    <2> QED BY <2>1
<1>11. /\ DirsOf(d) \subseteq ReachableInodes(d) /\ \A a \in DirsOf(d) : d[a].type = "d"
       /\ \A a \in DirsOf(e) : (a \in DirsOf(d) /\ e[a] = d[a]) \/ a = x
    BY <1>5, <1>9 DEF DirsOf, InodesOf
<1>12. KindsRight(e)
    <2>1. ASSUME NEW a \in ReachableInodes(d), NEW i \in 1 .. size(d[a])
          PROVE  IF d[a].type = "f" THEN e[d[a].blocks[i]] \in DataBlock
                 ELSE /\ e[d[a].blocks[i]] \in direntries
                      /\ \E j \in 1 .. FS_DIRENTRIES : EntryAt(e, a, i, j).inode_block # 0
        <3>1. CASE <<a, i>> # <<b, k>>
            <4>1. /\ e[d[a].blocks[i]] = d[d[a].blocks[i]]
                  /\ \A j \in 1 .. FS_DIRENTRIES : EntryAt(e, a, i, j) = EntryAt(d, a, i, j)
                BY <1>5, <1>6, <3>1 DEF EntryAt
            <4> QED BY <4>1 DEF Sound, KindsRight, InodesOf
        <3>2. CASE <<a, i>> = <<b, k>>
            <4>1. EntryAt(e, a, i, s).inode_block # 0
                BY SMT, <1>7, <3>2 DEF Entry
            <4> QED BY <1>2, <3>2, <4>1 DEF y
        <3> QED BY <3>1, <3>2
    <2>2. \A a \in ReachableInodes(e) : a = x \/ a \in ReachableInodes(d)
        BY <1>9
    <2>3. 1 .. size(e[x]) = {} /\ e[x] \in fs_inode
        BY SMT, <1>4
    <2> QED BY SMT, <1>5, <2>1, <2>2, <2>3, SoundFacts DEF KindsRight, InodesOf
<1>13. 1 .. size(e[x]) = {}
    BY SMT, <1>4
<1>14. MetOnce(e)
    <2>1. ASSUME NEW a \in DirsOf(d), NEW z \in DirsOf(d), NEW i \in 1 .. size(d[a]),
                 NEW m \in 1 .. size(d[z]), NEW j \in 1 .. FS_DIRENTRIES, NEW q \in 1 .. FS_DIRENTRIES,
                 EntryAt(e, a, i, j).inode_block # 0,
                 EntryAt(e, a, i, j).inode_block = EntryAt(e, z, m, q).inode_block
          PROVE  a = z /\ i = m /\ j = q
        <3>0. a \in ReachableInodes(d) /\ z \in ReachableInodes(d) /\ d[a].type = "d" /\ d[z].type = "d"
            BY <1>11
        <3>1. CASE <<a, i, j>> # <<b, k, s>> /\ <<z, m, q>> # <<b, k, s>>
            <4>1. /\ EntryAt(e, a, i, j) = EntryAt(d, a, i, j)
                  /\ EntryAt(e, z, m, q) = EntryAt(d, z, m, q)
                BY <1>7, <3>0, <3>1
            <4> QED BY SMT, <2>1, <4>1, EntryOnce
        <3>2. CASE <<a, i, j>> = <<b, k, s>> /\ <<z, m, q>> # <<b, k, s>>
            <4>1. EntryAt(e, a, i, j) = Entry(n, x) /\ EntryAt(e, z, m, q) = EntryAt(d, z, m, q)
                BY <1>7, <3>0, <3>2
            <4>2. EntryAt(d, z, m, q).inode_block # x /\ Entry(n, x).inode_block = x
                BY <1>8, <3>0 DEF Entry
            <4> QED BY <2>1, <4>1, <4>2
        <3>3. CASE <<a, i, j>> # <<b, k, s>> /\ <<z, m, q>> = <<b, k, s>>
            <4>1. EntryAt(e, a, i, j) = EntryAt(d, a, i, j) /\ EntryAt(e, z, m, q) = Entry(n, x)
                BY <1>7, <3>0, <3>3
            <4>2. EntryAt(d, a, i, j).inode_block # x /\ Entry(n, x).inode_block = x
                BY <1>8, <3>0 DEF Entry
            <4> QED BY <2>1, <4>1, <4>2
        <3> QED BY <3>1, <3>2, <3>3
    <2>2. ASSUME NEW a \in ReachableInodes(e), NEW z \in ReachableInodes(e),
                 NEW i \in 1 .. size(e[a]), NEW m \in 1 .. size(e[z]), e[a].blocks[i] = e[z].blocks[m]
          PROVE  a = z /\ i = m
        BY SMT, <1>5, <1>9, <1>13, <2>2 DEF Sound, MetOnce, InodesOf
    <2> QED BY SMT, <1>11, <1>13, <2>1, <2>2 DEF MetOnce, InodesOf
<1>15. OneEntryPerName(e)
    <2>1. ASSUME NEW a \in DirsOf(d), NEW i \in 1 .. size(d[a]), NEW m \in 1 .. size(d[a]),
                 NEW j \in 1 .. FS_DIRENTRIES, NEW q \in 1 .. FS_DIRENTRIES,
                 EntryAt(e, a, i, j).inode_block # 0, EntryAt(e, a, m, q).inode_block # 0,
                 EntryAt(e, a, i, j).name = EntryAt(e, a, m, q).name
          PROVE  i = m /\ j = q
        <3>0. a \in ReachableInodes(d)
            BY <1>11
        <3>1. CASE <<a, i, j>> # <<b, k, s>> /\ <<a, m, q>> # <<b, k, s>>
            <4>1. /\ EntryAt(e, a, i, j) = EntryAt(d, a, i, j)
                  /\ EntryAt(e, a, m, q) = EntryAt(d, a, m, q)
                BY <1>7, <3>0, <3>1
            <4> QED BY SMT, <2>1, <4>1, NameOnce
        <3>2. CASE <<a, i, j>> = <<b, k, s>> /\ <<a, m, q>> # <<b, k, s>>
            <4>1. EntryAt(e, a, i, j) = Entry(n, x) /\ EntryAt(e, a, m, q) = EntryAt(d, a, m, q)
                BY <1>7, <3>0, <3>2
            <4>2. EntryAt(d, a, m, q).name # n /\ Entry(n, x).name = n
                BY <2>1, <3>2, <4>1 DEF Entry, NotIn
            <4> QED BY <2>1, <4>1, <4>2
        <3>3. CASE <<a, i, j>> # <<b, k, s>> /\ <<a, m, q>> = <<b, k, s>>
            <4>1. EntryAt(e, a, i, j) = EntryAt(d, a, i, j) /\ EntryAt(e, a, m, q) = Entry(n, x)
                BY <1>7, <3>0, <3>3
            <4>2. EntryAt(d, a, i, j).name # n /\ Entry(n, x).name = n
                BY <2>1, <3>3, <4>1 DEF Entry, NotIn
            <4> QED BY <2>1, <4>1, <4>2
        <3> QED BY <3>1, <3>2, <3>3
    <2> QED BY SMT, <1>11, <1>13, <2>1 DEF OneEntryPerName
<1> QED BY <1>2, <1>9, <1>10, <1>12, <1>14, <1>15 DEF Sound

LinksEntry(d, b, k, s, n, x, c, e) ==
    /\ Sound(d) /\ b \in ReachableInodes(d) /\ d[b].type = "d" /\ k \in 1 .. size(d[b])
    /\ s \in 1 .. FS_DIRENTRIES /\ EntryAt(d, b, k, s).inode_block = 0 /\ NotIn(d, b, n)
    /\ x \in Blocks \ {0} /\ x \notin blocks_used(d) /\ d[x] \in fs_inode /\ size(d[x]) = 0
    /\ c \in direntries /\ c.entries[s] = Entry(n, x)
    /\ \A j \in 1 .. FS_DIRENTRIES : j # s => c.entries[j] = EntryAt(d, b, k, j)
    /\ Wrote(d, e, d[b].blocks[k], c)

LEMMA EntryLinked ==
    ASSUME NEW d, NEW b, NEW k, NEW s, NEW n, NEW x, NEW c, NEW e, LinksEntry(d, b, k, s, n, x, c, e)
    PROVE  Became(e, ReachableInodes(d) \cup {x}, blocks_used(d) \cup {x})
BY SMT, LinkEntry DEF LinksEntry, Became

\* A block with the entry of a new inode is appended to a directory.
LEMMA LinkBlock ==
    ASSUME NEW d, Sound(d), NEW b \in ReachableInodes(d), d[b].type = "d",
           size(d[b]) < FS_MAXFILEBLOCKS,
           NEW n, NotIn(d, b, n),
           NEW x \in Blocks \ {0}, x \notin blocks_used(d), d[x] \in fs_inode, size(d[x]) = 0,
           NEW y \in Blocks \ {0}, y \notin blocks_used(d), d[y] \in direntries,
           d[y].entries[1] = Entry(n, x),
           \A j \in 1 .. FS_DIRENTRIES : j # 1 => d[y].entries[j] = UnusedEntry,
           NEW e, Wrote(d, e, b, Longer(d[b], y))
    PROVE  /\ Sound(e)
           /\ ReachableInodes(e) = ReachableInodes(d) \cup {x}
           /\ blocks_used(e) = blocks_used(d) \cup {x, y}
<1> DEFINE w == size(d[b])
<1>0. /\ w \in Nat /\ d[b] \in fs_inode /\ b \in Blocks /\ 1 \in 1 .. FS_DIRENTRIES
    BY SMT, SoundFacts, SizesAssumption
<1>1. /\ e[b] \in fs_inode /\ e[b].type = "d" /\ size(e[b]) = w + 1
      /\ e[b].blocks[w + 1] = y /\ \A i \in 1 .. w : e[b].blocks[i] = d[b].blocks[i]
    <2>1. e[b] = [d[b] EXCEPT !.blocks = Append(d[b].blocks, y)]
        BY DEF Wrote, Longer
    <2>2. Grown(d[b], y, e[b])
        BY SMT, <1>0, <2>1, InodeGrown
    <2> QED BY <2>2 DEF Grown
<1>2. e \in [Blocks -> Contents] /\ \A z \in Blocks : z # b => e[z] = d[z]
    BY DEF Wrote
<1>3. x \notin ReachableInodes(d) /\ y \notin ReachableInodes(d) /\ x # b /\ y # b /\ x # y
    <2>1. d[x].kind = "inode" /\ d[y].kind = "direntries"
        BY InodeFields, EntryFields
    <2> QED BY <2>1, UsedIff
<1>4. e[x] = d[x] /\ e[y] = d[y] /\ 1 .. size(e[x]) = {}
    BY SMT, <1>2, <1>3
<1> HIDE DEF w
<1>5. ASSUME NEW a \in ReachableInodes(d), NEW i \in 1 .. size(d[a])
      PROVE  /\ d[a].blocks[i] # y /\ e[d[a].blocks[i]] = d[d[a].blocks[i]]
             /\ i \in 1 .. size(e[a]) /\ e[a].blocks[i] = d[a].blocks[i]
    <2>1. d[a].blocks[i] \in Blocks /\ d[a].blocks[i] # b /\ d[a].blocks[i] # y
        BY SMT, SoundFacts, UsedIff
    <2>2. i \in 1 .. size(e[a]) /\ e[a].blocks[i] = d[a].blocks[i]
        <3>1. CASE a = b
            BY SMT, <1>0, <1>1, <3>1 DEF w
        <3>2. CASE a # b
            BY <1>2, <3>2, SoundFacts
        <3> QED BY <3>1, <3>2
    <2> QED BY <1>2, <2>1, <2>2
<1>6. ASSUME NEW a \in ReachableInodes(d)
      PROVE  /\ e[a] \in fs_inode /\ e[a].type = d[a].type
             /\ a # b => e[a] = d[a]
             /\ \A i \in 1 .. size(e[a]) : i \in 1 .. size(d[a]) \/ (a = b /\ i = w + 1)
    <2>1. CASE a = b
        BY SMT, <1>0, <1>1, <2>1 DEF w
    <2>2. CASE a # b
        BY <1>2, <2>2, SoundFacts
    <2> QED BY <2>1, <2>2
<1>7. /\ \A a \in ReachableInodes(d) : \A i \in 1 .. size(d[a]), j \in 1 .. FS_DIRENTRIES :
            EntryAt(e, a, i, j) = EntryAt(d, a, i, j)
      /\ EntryAt(e, b, w + 1, 1) = Entry(n, x)
      /\ \A j \in 1 .. FS_DIRENTRIES : j # 1 => EntryAt(e, b, w + 1, j) = UnusedEntry
    BY SMT, <1>1, <1>4, <1>5 DEF EntryAt
<1>8. ASSUME NEW a \in ReachableInodes(d), NEW i \in 1 .. size(d[a]), NEW j \in 1 .. FS_DIRENTRIES,
             d[a].type = "d"
      PROVE  EntryAt(d, a, i, j).inode_block # x
    <2>1. EntryAt(d, a, i, j).inode_block # 0
              => EntryAt(d, a, i, j).inode_block \in Children(d, a)
        BY <1>8, ChildIff
    <2> QED BY <1>3, <2>1, Reach
<1>9. ReachableInodes(e) = ReachableInodes(d) \cup {x}
    <2>1. Children(e, x) = {}
        BY <1>4 DEF Children
    <2>2. ASSUME NEW a \in ReachableInodes(d), a # b PROVE Children(e, a) = Children(d, a)
        BY SMT, <1>5, <1>6, <2>2, SameChildren
    <2>3. ASSUME NEW z, z # x PROVE z \in Children(e, b) <=> z \in Children(d, b)
        <3>1. \A i \in 1 .. size(e[b]), j \in 1 .. FS_DIRENTRIES :
                EntryAt(e, b, i, j).inode_block = z /\ z # 0 =>
                    i \in 1 .. size(d[b]) /\ EntryAt(d, b, i, j).inode_block = z
            BY SMT, <1>6, <1>7, <2>3 DEF Entry, UnusedEntry
        <3>2. \A i \in 1 .. size(d[b]), j \in 1 .. FS_DIRENTRIES :
                i \in 1 .. size(e[b]) /\ EntryAt(d, b, i, j).inode_block = EntryAt(e, b, i, j).inode_block
            BY SMT, <1>5, <1>7
        <3> QED BY SMT, <1>1, <3>1, <3>2, DirChildIff
    <2>4. x \in Children(e, b)
        <3>1. w + 1 \in 1 .. size(e[b]) /\ EntryAt(e, b, w + 1, 1).inode_block = x
            BY SMT, <1>0, <1>1, <1>7 DEF Entry
        <3> QED BY SMT, <1>0, <1>1, <3>1, DirChildIff
    <2>5. \A a \in ReachableInodes(d) :
              Children(d, a) \subseteq Children(e, a) /\ Children(e, a) \subseteq Children(d, a) \cup {x}
        <3>1. ASSUME NEW a \in ReachableInodes(d), a = b
              PROVE  Children(d, a) \subseteq Children(e, a) \cup {x}
                     /\ Children(e, a) \subseteq Children(d, a) \cup {x}
            BY <2>3, <3>1
        <3> QED BY <2>2, <2>4, <3>1
    <2> QED BY <1>3, <2>1, <2>4, <2>5, GrowTree
<1>10. blocks_used(e) = blocks_used(d) \cup {x, y}
    <2>1. ASSUME NEW z, z \in blocks_used(e) PROVE z \in blocks_used(d) \cup {x, y}
        <3>1. ASSUME NEW a \in ReachableInodes(d), NEW i \in 1 .. size(e[a]), e[a].blocks[i] = z
              PROVE  z \in blocks_used(d) \cup {x, y}
            <4>1. CASE i \in 1 .. size(d[a])
                BY SMT, <1>5, <3>1, <4>1, UsedIff
            <4>2. CASE a = b /\ i = w + 1
                BY <1>1, <3>1, <4>2
            <4> QED BY <1>6, <4>1, <4>2
        <3> QED BY SMT, <1>4, <1>9, <2>1, <3>1, UsedIff
    <2>2. ASSUME NEW z, z \in blocks_used(d) PROVE z \in blocks_used(e)
        BY SMT, <1>5, <1>9, <2>2, UsedIff
    <2>3. x \in blocks_used(e)
        BY <1>9, UsedIff
    <2>4. y \in blocks_used(e)
        <3>1. w + 1 \in 1 .. size(e[b])
            BY SMT, <1>0, <1>1
        <3> QED BY <1>1, <1>9, <3>1, UsedIff
    <2> QED BY <2>1, <2>2, <2>3, <2>4
<1>11. /\ DirsOf(d) \subseteq ReachableInodes(d) /\ \A a \in DirsOf(d) : d[a].type = "d"
       /\ \A a \in DirsOf(e) : a \in DirsOf(d) \/ a = x
    BY <1>6, <1>9 DEF DirsOf, InodesOf
<1>12. KindsRight(e)
    <2>1. ASSUME NEW a \in ReachableInodes(d), NEW i \in 1 .. size(e[a])
          PROVE  IF e[a].type = "f" THEN e[e[a].blocks[i]] \in DataBlock
                 ELSE /\ e[e[a].blocks[i]] \in direntries
                      /\ \E j \in 1 .. FS_DIRENTRIES : EntryAt(e, a, i, j).inode_block # 0
        <3>1. CASE i \in 1 .. size(d[a])
            <4>1. /\ e[e[a].blocks[i]] = d[d[a].blocks[i]] /\ e[a].type = d[a].type
                  /\ \A j \in 1 .. FS_DIRENTRIES : EntryAt(e, a, i, j) = EntryAt(d, a, i, j)
                BY SMT, <1>5, <1>6, <1>7, <3>1
            <4> QED BY <3>1, <4>1 DEF Sound, KindsRight, InodesOf
        <3>2. CASE a = b /\ i = w + 1
            <4>1. EntryAt(e, a, i, 1).inode_block # 0
                BY SMT, <1>7, <3>2 DEF Entry
            <4> QED BY <1>0, <1>1, <1>4, <3>2, <4>1
        <3> QED BY <1>6, <3>1, <3>2
    <2>2. \A a \in ReachableInodes(e) : a = x \/ a \in ReachableInodes(d)
        BY <1>9
    <2> QED BY <1>4, <1>6, <2>1, <2>2 DEF KindsRight, InodesOf
<1>13. MetOnce(e)
    <2>1. ASSUME NEW a \in DirsOf(d), NEW i \in 1 .. size(e[a]), NEW j \in 1 .. FS_DIRENTRIES,
                 EntryAt(e, a, i, j).inode_block # 0
          PROVE  \/ a = b /\ i = w + 1 /\ j = 1 /\ EntryAt(e, a, i, j).inode_block = x
                 \/ /\ i \in 1 .. size(d[a]) /\ EntryAt(e, a, i, j) = EntryAt(d, a, i, j)
                    /\ EntryAt(d, a, i, j).inode_block # x
        BY SMT, <1>6, <1>7, <1>8, <1>11, <2>1 DEF Entry, UnusedEntry
    <2>2. ASSUME NEW a \in DirsOf(d), NEW z \in DirsOf(d), NEW i \in 1 .. size(e[a]),
                 NEW m \in 1 .. size(e[z]), NEW j \in 1 .. FS_DIRENTRIES, NEW q \in 1 .. FS_DIRENTRIES,
                 EntryAt(e, a, i, j).inode_block # 0,
                 EntryAt(e, a, i, j).inode_block = EntryAt(e, z, m, q).inode_block
          PROVE  a = z /\ i = m /\ j = q
        <3>1. EntryAt(e, z, m, q).inode_block # 0
            BY <2>2
        <3> QED BY SMT, <2>1, <2>2, <3>1 DEF Sound, MetOnce
    <2>3. ASSUME NEW a \in ReachableInodes(d), NEW i \in 1 .. size(e[a])
          PROVE  \/ a = b /\ i = w + 1 /\ e[a].blocks[i] = y
                 \/ /\ i \in 1 .. size(d[a]) /\ e[a].blocks[i] = d[a].blocks[i]
                    /\ d[a].blocks[i] # y
        BY SMT, <1>1, <1>5, <1>6
    <2>4. ASSUME NEW a \in ReachableInodes(d), NEW z \in ReachableInodes(d),
                 NEW i \in 1 .. size(e[a]), NEW m \in 1 .. size(e[z]), e[a].blocks[i] = e[z].blocks[m]
          PROVE  a = z /\ i = m
        BY SMT, <2>3, <2>4 DEF Sound, MetOnce, InodesOf
    <2> QED BY SMT, <1>4, <1>9, <1>11, <2>2, <2>4 DEF MetOnce, InodesOf
<1>14. OneEntryPerName(e)
    <2>1. ASSUME NEW a \in DirsOf(d), NEW i \in 1 .. size(e[a]), NEW j \in 1 .. FS_DIRENTRIES,
                 EntryAt(e, a, i, j).inode_block # 0
          PROVE  \/ a = b /\ i = w + 1 /\ j = 1 /\ EntryAt(e, a, i, j).name = n
                 \/ /\ i \in 1 .. size(d[a]) /\ EntryAt(e, a, i, j) = EntryAt(d, a, i, j)
                    /\ a = b => EntryAt(d, a, i, j).name # n
        BY SMT, <1>6, <1>7, <1>11, <2>1 DEF Entry, UnusedEntry, NotIn
    <2>2. ASSUME NEW a \in DirsOf(d), NEW i \in 1 .. size(e[a]), NEW m \in 1 .. size(e[a]),
                 NEW j \in 1 .. FS_DIRENTRIES, NEW q \in 1 .. FS_DIRENTRIES,
                 EntryAt(e, a, i, j).inode_block # 0, EntryAt(e, a, m, q).inode_block # 0,
                 EntryAt(e, a, i, j).name = EntryAt(e, a, m, q).name
          PROVE  i = m /\ j = q
        BY SMT, <2>1, <2>2 DEF Sound, OneEntryPerName
    <2> QED BY SMT, <1>4, <1>11, <2>2 DEF OneEntryPerName
<1> QED BY <1>2, <1>9, <1>10, <1>12, <1>13, <1>14 DEF Sound

LinksBlock(d, b, n, x, y, e) ==
    /\ Sound(d) /\ b \in ReachableInodes(d) /\ d[b].type = "d" /\ size(d[b]) < FS_MAXFILEBLOCKS
    /\ NotIn(d, b, n)
    /\ x \in Blocks \ {0} /\ x \notin blocks_used(d) /\ d[x] \in fs_inode /\ size(d[x]) = 0
    /\ y \in Blocks \ {0} /\ y \notin blocks_used(d) /\ d[y] \in direntries
    /\ d[y].entries[1] = Entry(n, x)
    /\ \A j \in 1 .. FS_DIRENTRIES : j # 1 => d[y].entries[j] = UnusedEntry
    /\ Wrote(d, e, b, Longer(d[b], y))

LEMMA BlockLinked ==
    ASSUME NEW d, NEW b, NEW n, NEW x, NEW y, NEW e, LinksBlock(d, b, n, x, y, e)
    PROVE  Became(e, ReachableInodes(d) \cup {x}, blocks_used(d) \cup {x, y})
BY SMT, LinkBlock DEF LinksBlock, Became

\* The blocks of a file or directory.
BlocksOf(inode) == {inode.blocks[i] : i \in 1 .. size(inode)}

\* What an entry in use points to is in the tree.
LEMMA EntryReached ==
    ASSUME NEW d, Sound(d), NEW b \in ReachableInodes(d), d[b].type = "d",
           NEW k \in 1 .. size(d[b]), NEW s \in 1 .. FS_DIRENTRIES,
           EntryAt(d, b, k, s).inode_block # 0
    PROVE  EntryAt(d, b, k, s).inode_block \in ReachableInodes(d)
BY SMT, ChildIff, Reach

\* No other entry points to it.
LEMMA OnlyEntry ==
    ASSUME NEW d, Sound(d), NEW b \in ReachableInodes(d), d[b].type = "d",
           NEW k \in 1 .. size(d[b]), NEW s \in 1 .. FS_DIRENTRIES,
           NEW a \in ReachableInodes(d), d[a].type = "d",
           NEW i \in 1 .. size(d[a]), NEW j \in 1 .. FS_DIRENTRIES,
           EntryAt(d, b, k, s).inode_block # 0,
           EntryAt(d, a, i, j).inode_block = EntryAt(d, b, k, s).inode_block
    PROVE  a = b /\ i = k /\ j = s
<1>1. a \in DirsOf(d) /\ b \in DirsOf(d)
    BY DEF DirsOf, InodesOf
<1>2. EntryAt(d, a, i, j).inode_block # 0
    OBVIOUS
<1> QED BY SMT, <1>1, <1>2, EntryOnce

\* A file, or an empty directory, that an entry points to has no children, is not
\* the directory itself, and is no child of another.
LEMMA TargetFacts ==
    ASSUME NEW d, Sound(d), NEW b \in ReachableInodes(d), d[b].type = "d",
           NEW k \in 1 .. size(d[b]), NEW s \in 1 .. FS_DIRENTRIES,
           NEW x, x = EntryAt(d, b, k, s).inode_block, x # 0,
           d[x].type = "d" => size(d[x]) = 0
    PROVE  /\ x \in ReachableInodes(d) /\ x # b /\ Children(d, x) = {}
           /\ \A a \in ReachableInodes(d) : a # b => x \notin Children(d, a)
<1>1. x \in ReachableInodes(d)
    BY EntryReached
<1>2. x # b
    BY SMT, SoundFacts
<1>3. \A z : z \notin Children(d, x)
    BY SMT, <1>1, ChildIff
<1>4. ASSUME NEW a \in ReachableInodes(d), a # b PROVE x \notin Children(d, a)
    BY SMT, <1>4, ChildIff, OnlyEntry
<1> QED BY <1>1, <1>2, <1>3, <1>4

\* One of several entries of a block is made unused.
LEMMA UnlinkEntry ==
    ASSUME NEW d, Sound(d), NEW b \in ReachableInodes(d), d[b].type = "d",
           NEW k \in 1 .. size(d[b]), NEW s \in 1 .. FS_DIRENTRIES,
           NEW x, x = EntryAt(d, b, k, s).inode_block, x # 0,
           d[x].type = "d" => size(d[x]) = 0,
           \E j \in 1 .. FS_DIRENTRIES : EntryAt(d, b, k, j).inode_block \notin {0, x},
           NEW c \in direntries, c.entries[s] = UnusedEntry,
           \A j \in 1 .. FS_DIRENTRIES : j # s => c.entries[j] = EntryAt(d, b, k, j),
           NEW e, Wrote(d, e, d[b].blocks[k], c)
    PROVE  /\ Sound(e)
           /\ ReachableInodes(e) = ReachableInodes(d) \ {x}
           /\ blocks_used(e) = blocks_used(d) \ ({x} \cup BlocksOf(d[x]))
<1> DEFINE y == d[b].blocks[k]
<1>0. /\ x \in ReachableInodes(d) /\ x # b /\ Children(d, x) = {}
      /\ \A a \in ReachableInodes(d) : a # b => x \notin Children(d, a)
    BY TargetFacts
<1>1. y \in Blocks /\ y \notin ReachableInodes(d)
    BY SoundFacts
<1>2. e \in [Blocks -> Contents] /\ e[y] = c /\ \A z \in Blocks : z # y => e[z] = d[z]
    BY DEF Wrote
<1>3. ASSUME NEW a \in ReachableInodes(d) PROVE e[a] = d[a]
    BY <1>1, <1>2, Reach
<1>4. ASSUME NEW a \in ReachableInodes(d), NEW i \in 1 .. size(d[a]), <<a, i>> # <<b, k>>
      PROVE  e[d[a].blocks[i]] = d[d[a].blocks[i]]
    <2>1. d[a].blocks[i] # y
        BY SMT, <1>4 DEF Sound, MetOnce, InodesOf
    <2> QED BY <1>2, <2>1, SoundFacts
<1> HIDE DEF y
<1>5. ASSUME NEW a \in ReachableInodes(d), NEW i \in 1 .. size(d[a]), NEW j \in 1 .. FS_DIRENTRIES
      PROVE  /\ <<a, i, j>> # <<b, k, s>> => EntryAt(e, a, i, j) = EntryAt(d, a, i, j)
             /\ <<a, i, j>> = <<b, k, s>> => EntryAt(e, a, i, j) = UnusedEntry
    <2>1. CASE <<a, i>> # <<b, k>>
        BY <1>3, <1>4, <2>1 DEF EntryAt
    <2>2. CASE <<a, i>> = <<b, k>>
        BY <1>2, <1>3, <2>2 DEF EntryAt, y
    <2> QED BY <2>1, <2>2
<1>6. ReachableInodes(e) = ReachableInodes(d) \ {x}
    <2>1. ASSUME NEW a \in ReachableInodes(d), a # b PROVE Children(e, a) = Children(d, a) \ {x}
        <3>1. Children(e, a) = Children(d, a)
            BY SMT, <1>3, <1>4, <2>1, SameChildren
        <3> QED BY <1>0, <2>1, <3>1
    <2>2. ASSUME NEW z PROVE z \in Children(e, b) <=> z \in Children(d, b) /\ z # x
        <3>1. e[b] = d[b] /\ e[b].type # "f"
            BY <1>3
        <3>2. ASSUME NEW i \in 1 .. size(d[b]), NEW j \in 1 .. FS_DIRENTRIES, z # 0
              PROVE  EntryAt(e, b, i, j).inode_block = z
                        <=> EntryAt(d, b, i, j).inode_block = z /\ z # x
            <4>1. CASE <<i, j>> = <<k, s>>
                BY SMT, <1>5, <3>2, <4>1 DEF UnusedEntry
            <4>2. CASE <<i, j>> # <<k, s>>
                <5>1. EntryAt(d, b, i, j).inode_block # x
                    BY SMT, <4>2, OnlyEntry
                <5> QED BY <1>5, <4>2, <5>1
            <4> QED BY <4>1, <4>2
        <3> QED BY SMT, <3>1, <3>2, DirChildIff
    <2>3. Children(e, b) = Children(d, b) \ {x}
        BY <2>2
    <2> QED BY SMT, <1>0, <2>1, <2>3, ShrinkTree
<1>7. blocks_used(e) = blocks_used(d) \ ({x} \cup BlocksOf(d[x]))
    <2>1. \A z : z \in blocks_used(e) <=> z \in blocks_used(d) /\ z # x /\ z \notin BlocksOf(d[x])
        <3>1. \A a \in ReachableInodes(d) : \A i \in 1 .. size(d[a]) :
                a # x => d[a].blocks[i] # x /\ d[a].blocks[i] \notin BlocksOf(d[x])
            <4>1. ASSUME NEW a \in ReachableInodes(d), NEW i \in 1 .. size(d[a]), a # x,
                         NEW m \in 1 .. size(d[x])
                  PROVE  d[a].blocks[i] # d[x].blocks[m]
                BY <1>0, <4>1, BlockOnce
            <4> QED BY <1>0, <4>1, SoundFacts DEF BlocksOf
        <3>2. \A a \in ReachableInodes(d) : a \notin BlocksOf(d[x])
            BY <1>0, SoundFacts DEF BlocksOf
        <3>3. \A i \in 1 .. size(d[x]) : d[x].blocks[i] \in BlocksOf(d[x])
            BY DEF BlocksOf
        <3> QED BY SMT, <1>0, <1>3, <1>6, <3>1, <3>2, <3>3, UsedIff
    <2> QED BY <2>1
<1>8. /\ DirsOf(d) \subseteq ReachableInodes(d) /\ \A a \in DirsOf(d) : d[a].type = "d"
      /\ \A a \in DirsOf(e) : a \in DirsOf(d) /\ e[a] = d[a]
    BY <1>3, <1>6 DEF DirsOf, InodesOf
<1>9. ASSUME NEW a \in DirsOf(e), NEW i \in 1 .. size(e[a]), NEW j \in 1 .. FS_DIRENTRIES,
             EntryAt(e, a, i, j).inode_block # 0
      PROVE  a \in DirsOf(d) /\ i \in 1 .. size(d[a]) /\ EntryAt(e, a, i, j) = EntryAt(d, a, i, j)
    BY SMT, <1>5, <1>8, <1>9 DEF UnusedEntry
<1>10. KindsRight(e)
    <2>1. ASSUME NEW a \in ReachableInodes(d), NEW i \in 1 .. size(d[a])
          PROVE  IF d[a].type = "f" THEN e[d[a].blocks[i]] \in DataBlock
                 ELSE /\ e[d[a].blocks[i]] \in direntries
                      /\ \E j \in 1 .. FS_DIRENTRIES : EntryAt(e, a, i, j).inode_block # 0
        <3>1. CASE <<a, i>> # <<b, k>>
            <4>1. /\ e[d[a].blocks[i]] = d[d[a].blocks[i]]
                  /\ \A j \in 1 .. FS_DIRENTRIES : EntryAt(e, a, i, j) = EntryAt(d, a, i, j)
                BY <1>3, <1>4, <3>1 DEF EntryAt
            <4> QED BY <4>1 DEF Sound, KindsRight, InodesOf
        <3>2. CASE <<a, i>> = <<b, k>>
            <4>1. PICK j \in 1 .. FS_DIRENTRIES : EntryAt(d, b, k, j).inode_block \notin {0, x}
                OBVIOUS
            <4>2. EntryAt(e, a, i, j).inode_block # 0
                BY SMT, <1>5, <3>2, <4>1
            <4> QED BY <1>2, <3>2, <4>2 DEF y
        <3> QED BY <3>1, <3>2
    <2> QED BY SMT, <1>3, <1>6, <2>1, SoundFacts DEF KindsRight, InodesOf
<1>11. MetOnce(e)
    <2>1. ASSUME NEW a \in DirsOf(e), NEW z \in DirsOf(e), NEW i \in 1 .. size(e[a]),
                 NEW m \in 1 .. size(e[z]), NEW j \in 1 .. FS_DIRENTRIES, NEW q \in 1 .. FS_DIRENTRIES,
                 EntryAt(e, a, i, j).inode_block # 0,
                 EntryAt(e, a, i, j).inode_block = EntryAt(e, z, m, q).inode_block
          PROVE  a = z /\ i = m /\ j = q
        <3>1. EntryAt(e, z, m, q).inode_block # 0
            BY <2>1
        <3>2. /\ a \in DirsOf(d) /\ i \in 1 .. size(d[a]) /\ EntryAt(e, a, i, j) = EntryAt(d, a, i, j)
              /\ z \in DirsOf(d) /\ m \in 1 .. size(d[z]) /\ EntryAt(e, z, m, q) = EntryAt(d, z, m, q)
            BY <1>9, <2>1, <3>1
        <3>3. /\ EntryAt(d, a, i, j).inode_block # 0
              /\ EntryAt(d, a, i, j).inode_block = EntryAt(d, z, m, q).inode_block
            BY <2>1, <3>2
        <3> QED BY SMT, <3>2, <3>3, EntryOnce
    <2>2. ASSUME NEW a \in ReachableInodes(e), NEW z \in ReachableInodes(e),
                 NEW i \in 1 .. size(e[a]), NEW m \in 1 .. size(e[z]), e[a].blocks[i] = e[z].blocks[m]
          PROVE  a = z /\ i = m
        <3>1. a \in ReachableInodes(d) /\ z \in ReachableInodes(d)
            BY <1>6
        <3>2. e[a] = d[a] /\ e[z] = d[z]
            BY <1>3, <3>1
        <3>3. /\ i \in 1 .. size(d[a]) /\ m \in 1 .. size(d[z]) /\ d[a].blocks[i] = d[z].blocks[m]
            BY <2>2, <3>2
        <3> QED BY SMT, <3>1, <3>3, BlockOnce
    <2> QED BY SMT, <2>1, <2>2 DEF MetOnce, InodesOf
<1>12. OneEntryPerName(e)
    <2> SUFFICES \A a \in DirsOf(e) : \A i, m \in 1 .. size(e[a]) : \A j, q \in 1 .. FS_DIRENTRIES :
                    /\ EntryAt(e, a, i, j).inode_block # 0 /\ EntryAt(e, a, m, q).inode_block # 0
                    /\ EntryAt(e, a, i, j).name = EntryAt(e, a, m, q).name
                    => i = m /\ j = q
        BY DEF OneEntryPerName
    <2> TAKE a \in DirsOf(e)
    <2> TAKE i, m \in 1 .. size(e[a])
    <2> TAKE j, q \in 1 .. FS_DIRENTRIES
    <2> HAVE /\ EntryAt(e, a, i, j).inode_block # 0 /\ EntryAt(e, a, m, q).inode_block # 0
             /\ EntryAt(e, a, i, j).name = EntryAt(e, a, m, q).name
    <2>1. /\ a \in DirsOf(d) /\ i \in 1 .. size(d[a]) /\ m \in 1 .. size(d[a])
          /\ EntryAt(e, a, i, j) = EntryAt(d, a, i, j) /\ EntryAt(e, a, m, q) = EntryAt(d, a, m, q)
        BY <1>9
    <2> QED BY SMT, <2>1, NameOnce
<1> QED BY <1>2, <1>6, <1>7, <1>10, <1>11, <1>12 DEF Sound

\* The array of blocks without its k-th element, as delete shifts it.
Without(a, k) == [i \in 1 .. Len(a) - 1 |-> IF i < k THEN a[i] ELSE a[i + 1]]
Shorter(inode, k) == [inode EXCEPT !.blocks = Without(inode.blocks, k)]

LEMMA InodeShorter ==
    ASSUME NEW x \in fs_inode, NEW k \in 1 .. size(x)
    PROVE  /\ Shorter(x, k) \in fs_inode /\ Shorter(x, k).type = x.type /\ size(Shorter(x, k)) = size(x) - 1
           /\ \A i \in 1 .. size(x) - 1 :
                Shorter(x, k).blocks[i] = IF i < k THEN x.blocks[i] ELSE x.blocks[i + 1]
<1> DEFINE w == size(x)
           a == Without(x.blocks, k)
<1>1. w = Len(x.blocks) /\ w \in Nat /\ w <= FS_MAXFILEBLOCKS /\ x.blocks \in Seq(Blocks \ {0}) /\ w >= 1
    BY SMT, InodeFields DEF size
<1>2. w - 1 \in Nat
    BY SMT, <1>1
<1>3. \A i \in 1 .. w - 1 : /\ i \in 1 .. w /\ i + 1 \in 1 .. w
                            /\ x.blocks[i] \in Blocks \ {0} /\ x.blocks[i + 1] \in Blocks \ {0}
    BY SMT, <1>1
<1>4. a \in [1 .. w - 1 -> Blocks \ {0}]
    BY <1>1, <1>3 DEF Without
<1>5. \A i \in 1 .. w - 1 : a[i] = IF i < k THEN x.blocks[i] ELSE x.blocks[i + 1]
    BY <1>1 DEF Without
<1>6. Shorter(x, k) = [x EXCEPT !.blocks = a]
    BY DEF Shorter
<1> HIDE DEF a, w
<1>7. a \in Seq(Blocks \ {0}) /\ Len(a) = w - 1 /\ Len(a) <= FS_MAXFILEBLOCKS
    BY SMT, <1>1, <1>2, <1>4, SizesAssumption
<1>8. WithBlocks(x, a, Shorter(x, k))
    BY <1>6, <1>7, InodeWith
<1> QED BY <1>5, <1>7, <1>8 DEF WithBlocks, size, w

\* A block that only the target's entry uses is taken out of its directory.
LEMMA UnlinkBlock ==
    ASSUME NEW d, Sound(d), NEW b \in ReachableInodes(d), d[b].type = "d",
           NEW k \in 1 .. size(d[b]), NEW s \in 1 .. FS_DIRENTRIES,
           NEW x, x = EntryAt(d, b, k, s).inode_block, x # 0,
           d[x].type = "d" => size(d[x]) = 0,
           \A j \in 1 .. FS_DIRENTRIES : EntryAt(d, b, k, j).inode_block \in {0, x},
           NEW e, Wrote(d, e, b, Shorter(d[b], k))
    PROVE  /\ Sound(e)
           /\ ReachableInodes(e) = ReachableInodes(d) \ {x}
           /\ blocks_used(e) = blocks_used(d) \ ({x, d[b].blocks[k]} \cup BlocksOf(d[x]))
<1> DEFINE w == size(d[b])
           y == d[b].blocks[k]
           up(a, i) == IF a = b /\ i >= k THEN i + 1 ELSE i
<1>0. /\ x \in ReachableInodes(d) /\ x # b /\ Children(d, x) = {}
      /\ \A a \in ReachableInodes(d) : a # b => x \notin Children(d, a)
      /\ w \in Nat /\ w <= FS_MAXFILEBLOCKS /\ FS_MAXFILEBLOCKS \in Nat
      /\ k \in Nat /\ k >= 1 /\ k <= w
      /\ d[b] \in fs_inode /\ b \in Blocks /\ d[b].blocks \in Seq(Blocks \ {0})
    <2>1. /\ x \in ReachableInodes(d) /\ x # b /\ Children(d, x) = {}
          /\ \A a \in ReachableInodes(d) : a # b => x \notin Children(d, a)
        BY TargetFacts
    <2>2. /\ d[b] \in fs_inode /\ b \in Blocks /\ w \in Nat /\ w <= FS_MAXFILEBLOCKS
        BY SoundFacts
    <2>3. d[b].blocks \in Seq(Blocks \ {0})
        BY <2>2, InodeFields
    <2> HIDE DEF w
    <2>4. k \in Nat /\ k >= 1 /\ k <= w
        BY SMT, <2>2 DEF w
    <2> QED BY <2>1, <2>2, <2>3, <2>4, SizesAssumption
<1>1. /\ e[b] \in fs_inode /\ e[b].type = "d" /\ size(e[b]) = w - 1
      /\ \A i \in 1 .. w - 1 : e[b].blocks[i] = d[b].blocks[up(b, i)]
    <2>1. e[b] = Shorter(d[b], k)
        BY DEF Wrote
    <2>2. /\ e[b] \in fs_inode /\ e[b].type = "d" /\ size(e[b]) = w - 1
          /\ \A i \in 1 .. w - 1 : e[b].blocks[i] = IF i < k THEN d[b].blocks[i] ELSE d[b].blocks[i + 1]
        <3>1. d[b] \in fs_inode /\ k \in 1 .. size(d[b])
            BY <1>0
        <3> QED BY <2>1, <3>1, InodeShorter
    <2> HIDE DEF w
    <2> QED BY SMT, <1>0, <2>2
<1>2. e \in [Blocks -> Contents] /\ \A z \in Blocks : z # b => e[z] = d[z]
    BY DEF Wrote
<1> HIDE DEF w
<1>3. ASSUME NEW a \in ReachableInodes(d), NEW i \in 1 .. size(d[a])
      PROVE  d[a].blocks[i] \in Blocks /\ e[d[a].blocks[i]] = d[d[a].blocks[i]]
    BY SMT, <1>2, SoundFacts
<1>4. ASSUME NEW a \in ReachableInodes(d), a # b PROVE e[a] = d[a]
    BY <1>2, <1>4, SoundFacts
\* Each block of an inode was one before, and only the unlinked one is gone.
<1>5. ASSUME NEW a \in ReachableInodes(d), NEW i \in 1 .. size(e[a])
      PROVE  /\ up(a, i) \in 1 .. size(d[a]) /\ e[a].blocks[i] = d[a].blocks[up(a, i)]
             /\ <<a, up(a, i)>> # <<b, k>>
             /\ \A m \in 1 .. size(e[a]) : up(a, i) = up(a, m) => i = m
    <2>1. CASE a = b
        BY SMT, <1>0, <1>1, <2>1 DEF w
    <2>2. CASE a # b
        BY <1>4, <2>2
    <2> QED BY <2>1, <2>2
<1>6. ASSUME NEW a \in ReachableInodes(d), NEW i \in 1 .. size(d[a]), <<a, i>> # <<b, k>>
      PROVE  \E m \in 1 .. size(e[a]) : up(a, m) = i
    <2>1. CASE a = b /\ i < k
        <3>1. i \in 1 .. size(e[a]) /\ up(a, i) = i
            BY SMT, <1>0, <1>1, <2>1 DEF w
        <3> QED BY <3>1
    <2>2. CASE a = b /\ i > k
        <3>1. i - 1 \in 1 .. size(e[a]) /\ up(a, i - 1) = i
            BY SMT, <1>0, <1>1, <2>2 DEF w
        <3> QED BY <3>1
    <2>3. CASE a # b
        BY <1>4, <2>3
    <2> QED BY SMT, <1>0, <1>6, <2>1, <2>2, <2>3
<1>7. ASSUME NEW a \in ReachableInodes(d), NEW i \in 1 .. size(e[a])
      PROVE  /\ e[e[a].blocks[i]] = d[d[a].blocks[up(a, i)]]
             /\ \A j \in 1 .. FS_DIRENTRIES : EntryAt(e, a, i, j) = EntryAt(d, a, up(a, i), j)
    <2>1. up(a, i) \in 1 .. size(d[a]) /\ e[a].blocks[i] = d[a].blocks[up(a, i)]
        BY <1>5
    <2> HIDE DEF up
    <2>2. e[e[a].blocks[i]] = d[d[a].blocks[up(a, i)]]
        BY <1>3, <2>1
    <2> QED BY <2>2 DEF EntryAt
<1>8. \A a \in ReachableInodes(d) : e[a] \in fs_inode /\ e[a].type = d[a].type
    BY <1>1, <1>4, SoundFacts
<1> HIDE DEF up
<1>9. ReachableInodes(e) = ReachableInodes(d) \ {x}
    <2>1. ASSUME NEW a \in ReachableInodes(d), a # b PROVE Children(e, a) = Children(d, a) \ {x}
        <3>1. Children(e, a) = Children(d, a)
            BY SMT, <1>3, <1>4, <2>1, SameChildren
        <3> QED BY <1>0, <2>1, <3>1
    <2>2. ASSUME NEW z PROVE z \in Children(e, b) <=> z \in Children(d, b) /\ z # x
        <3>1. ASSUME NEW i \in 1 .. size(e[b]), NEW j \in 1 .. FS_DIRENTRIES, z # 0,
                     EntryAt(e, b, i, j).inode_block = z
              PROVE  z # x /\ \E m \in 1 .. size(d[b]) : EntryAt(d, b, m, j).inode_block = z
            <4>1. /\ up(b, i) \in 1 .. size(d[b]) /\ EntryAt(d, b, up(b, i), j).inode_block = z
                  /\ up(b, i) # k
                BY <1>5, <1>7, <3>1
            <4>2. z # x
                BY <4>1, OnlyEntry
            <4> QED BY <4>1, <4>2
        <3>2. ASSUME NEW i \in 1 .. size(d[b]), NEW j \in 1 .. FS_DIRENTRIES, z # 0, z # x,
                     EntryAt(d, b, i, j).inode_block = z
              PROVE  \E m \in 1 .. size(e[b]) : EntryAt(e, b, m, j).inode_block = z
            <4>1. i # k
                BY <3>2
            <4>2. PICK m \in 1 .. size(e[b]) : up(b, m) = i
                BY <1>6, <4>1
            <4> QED BY <1>7, <3>2, <4>2
        <3>3. e[b].type # "f" /\ d[b].type # "f"
            BY <1>1
        <3> QED BY SMT, <3>1, <3>2, <3>3, DirChildIff
    <2>3. Children(e, b) = Children(d, b) \ {x}
        BY <2>2
    <2> QED BY SMT, <1>0, <2>1, <2>3, ShrinkTree
<1>10. blocks_used(e) = blocks_used(d) \ ({x, y} \cup BlocksOf(d[x]))
    <2>1. /\ \A a \in ReachableInodes(d) : a # y /\ a \notin BlocksOf(d[x])
          /\ \A a \in ReachableInodes(d) : \A i \in 1 .. size(d[a]) :
                /\ d[a].blocks[i] # x
                /\ a # x => d[a].blocks[i] \notin BlocksOf(d[x])
                /\ a = x => d[a].blocks[i] \in BlocksOf(d[x])
                /\ <<a, i>> # <<b, k>> => d[a].blocks[i] # y
        <3>1. \A a \in ReachableInodes(d) : a # y /\ a \notin BlocksOf(d[x])
            BY <1>0, SoundFacts DEF BlocksOf
        <3>2. ASSUME NEW a \in ReachableInodes(d), NEW i \in 1 .. size(d[a])
              PROVE  /\ d[a].blocks[i] # x
                     /\ a # x => d[a].blocks[i] \notin BlocksOf(d[x])
                     /\ a = x => d[a].blocks[i] \in BlocksOf(d[x])
            <4>1. d[a].blocks[i] # x
                BY <1>0, SoundFacts
            <4>2. ASSUME a # x, NEW m \in 1 .. size(d[x]) PROVE d[a].blocks[i] # d[x].blocks[m]
                BY <1>0, <4>2, BlockOnce
            <4> QED BY <4>1, <4>2 DEF BlocksOf
        <3>3. ASSUME NEW a \in ReachableInodes(d), NEW i \in 1 .. size(d[a]), <<a, i>> # <<b, k>>
              PROVE  d[a].blocks[i] # y
            BY SMT, <3>3 DEF Sound, MetOnce, InodesOf
        <3> HIDE DEF y
        <3> QED BY <3>1, <3>2, <3>3
    <2>2. ASSUME NEW z, z \in blocks_used(e)
          PROVE  z \in blocks_used(d) /\ z \notin {x, y} \cup BlocksOf(d[x])
        <3>1. CASE z \in ReachableInodes(e) /\ z # 0
            BY <1>9, <2>1, <3>1, UsedIff
        <3>2. ASSUME NEW a \in ReachableInodes(e), NEW i \in 1 .. size(e[a]), e[a].blocks[i] = z
              PROVE  z \in blocks_used(d) /\ z \notin {x, y} \cup BlocksOf(d[x])
            <4>1. /\ a \in ReachableInodes(d) /\ a # x /\ up(a, i) \in 1 .. size(d[a])
                  /\ d[a].blocks[up(a, i)] = z /\ <<a, up(a, i)>> # <<b, k>>
                BY <1>5, <1>9, <3>2
            <4> QED BY <2>1, <4>1, UsedIff
        <3> QED BY SMT, <2>2, <3>1, <3>2, UsedIff
    <2>3. ASSUME NEW z, z \in blocks_used(d), z \notin {x, y} \cup BlocksOf(d[x])
          PROVE  z \in blocks_used(e)
        <3>1. CASE z \in ReachableInodes(d) /\ z # 0
            BY <1>9, <2>3, <3>1, UsedIff
        <3>2. ASSUME NEW a \in ReachableInodes(d), NEW i \in 1 .. size(d[a]), d[a].blocks[i] = z
              PROVE  z \in blocks_used(e)
            <4>1. a \in ReachableInodes(e) /\ <<a, i>> # <<b, k>>
                BY <1>9, <2>1, <2>3, <3>2
            <4>2. PICK m \in 1 .. size(e[a]) : up(a, m) = i
                BY <1>6, <4>1
            <4>3. e[a].blocks[m] = z
                BY <1>5, <3>2, <4>2
            <4> QED BY <4>1, <4>3, UsedIff
        <3> QED BY SMT, <2>3, <3>1, <3>2, UsedIff
    <2> QED BY <2>2, <2>3
<1>11. \A a \in DirsOf(e) : a \in DirsOf(d) /\ a \in ReachableInodes(d)
    BY <1>8, <1>9 DEF DirsOf, InodesOf
<1>12. KindsRight(e)
    <2> SUFFICES ASSUME NEW a \in ReachableInodes(d), NEW i \in 1 .. size(e[a])
                 PROVE  IF e[a].type = "f" THEN e[e[a].blocks[i]] \in DataBlock
                        ELSE /\ e[e[a].blocks[i]] \in direntries
                             /\ \E j \in 1 .. FS_DIRENTRIES : EntryAt(e, a, i, j).inode_block # 0
        BY <1>8, <1>9 DEF KindsRight, InodesOf
    <2>1. up(a, i) \in 1 .. size(d[a])
        BY <1>5
    <2>2. IF d[a].type = "f" THEN d[d[a].blocks[up(a, i)]] \in DataBlock
          ELSE /\ d[d[a].blocks[up(a, i)]] \in direntries
               /\ \E j \in 1 .. FS_DIRENTRIES : EntryAt(d, a, up(a, i), j).inode_block # 0
        BY <2>1 DEF Sound, KindsRight, InodesOf
    <2> QED BY <1>7, <1>8, <2>2
<1>13. MetOnce(e)
    <2>1. ASSUME NEW a \in DirsOf(e), NEW z \in DirsOf(e), NEW i \in 1 .. size(e[a]),
                 NEW m \in 1 .. size(e[z]), NEW j \in 1 .. FS_DIRENTRIES, NEW q \in 1 .. FS_DIRENTRIES,
                 EntryAt(e, a, i, j).inode_block # 0,
                 EntryAt(e, a, i, j).inode_block = EntryAt(e, z, m, q).inode_block
          PROVE  a = z /\ i = m /\ j = q
        <3>1. /\ up(a, i) \in 1 .. size(d[a]) /\ up(z, m) \in 1 .. size(d[z])
              /\ EntryAt(e, a, i, j) = EntryAt(d, a, up(a, i), j)
              /\ EntryAt(e, z, m, q) = EntryAt(d, z, up(z, m), q)
            BY <1>5, <1>7, <1>11
        <3>2. a = z /\ up(a, i) = up(z, m) /\ j = q
            <4>1. /\ a \in DirsOf(d) /\ z \in DirsOf(d)
                  /\ EntryAt(d, a, up(a, i), j).inode_block # 0
                  /\ EntryAt(d, a, up(a, i), j).inode_block = EntryAt(d, z, up(z, m), q).inode_block
                BY <1>11, <2>1, <3>1
            <4> HIDE DEF up
            <4> QED BY SMT, <3>1, <4>1, EntryOnce
        <3> QED BY <1>5, <1>11, <3>2
    <2>2. ASSUME NEW a \in ReachableInodes(d), NEW z \in ReachableInodes(d),
                 NEW i \in 1 .. size(e[a]), NEW m \in 1 .. size(e[z]), e[a].blocks[i] = e[z].blocks[m]
          PROVE  a = z /\ i = m
        <3>1. a = z /\ up(a, i) = up(z, m)
            <4>1. /\ up(a, i) \in 1 .. size(d[a]) /\ up(z, m) \in 1 .. size(d[z])
                  /\ d[a].blocks[up(a, i)] = d[z].blocks[up(z, m)]
                BY <1>5, <2>2
            <4> HIDE DEF up
            <4> QED BY SMT, <4>1, BlockOnce
        <3> QED BY <1>5, <3>1
    <2> QED BY SMT, <1>9, <2>1, <2>2 DEF MetOnce, InodesOf
<1>14. OneEntryPerName(e)
    <2>1. ASSUME NEW a \in DirsOf(e), NEW i \in 1 .. size(e[a]), NEW m \in 1 .. size(e[a]),
                 NEW j \in 1 .. FS_DIRENTRIES, NEW q \in 1 .. FS_DIRENTRIES,
                 EntryAt(e, a, i, j).inode_block # 0, EntryAt(e, a, m, q).inode_block # 0,
                 EntryAt(e, a, i, j).name = EntryAt(e, a, m, q).name
          PROVE  i = m /\ j = q
        <3>1. /\ up(a, i) \in 1 .. size(d[a]) /\ up(a, m) \in 1 .. size(d[a])
              /\ EntryAt(e, a, i, j) = EntryAt(d, a, up(a, i), j)
              /\ EntryAt(e, a, m, q) = EntryAt(d, a, up(a, m), q)
            BY <1>5, <1>7, <1>11
        <3>2. up(a, i) = up(a, m) /\ j = q
            BY SMT, <1>11, <2>1, <3>1 DEF Sound, OneEntryPerName
        <3> QED BY <1>5, <1>11, <3>2
    <2> QED BY SMT, <2>1 DEF OneEntryPerName
<1> QED BY <1>2, <1>9, <1>10, <1>12, <1>13, <1>14 DEF Sound

Unlinks(d, b, k, s, x) ==
    /\ Sound(d) /\ b \in ReachableInodes(d) /\ d[b].type = "d" /\ k \in 1 .. size(d[b])
    /\ s \in 1 .. FS_DIRENTRIES /\ x = EntryAt(d, b, k, s).inode_block /\ x # 0
    /\ d[x].type = "d" => size(d[x]) = 0

LEMMA BlockUnlinked ==
    ASSUME NEW d, NEW b, NEW k, NEW s, NEW x, NEW e, Unlinks(d, b, k, s, x),
           \A j \in 1 .. FS_DIRENTRIES : EntryAt(d, b, k, j).inode_block \in {0, x},
           Wrote(d, e, b, Shorter(d[b], k))
    PROVE  Became(e, ReachableInodes(d) \ {x}, blocks_used(d) \ ({x, d[b].blocks[k]} \cup BlocksOf(d[x])))
BY SMT, UnlinkBlock DEF Unlinks, Became

ClearsEntry(d, b, k, s, x, c) ==
    /\ \E j \in 1 .. FS_DIRENTRIES : EntryAt(d, b, k, j).inode_block \notin {0, x}
    /\ c \in direntries /\ c.entries[s] = UnusedEntry
    /\ \A j \in 1 .. FS_DIRENTRIES : j # s => c.entries[j] = EntryAt(d, b, k, j)

LEMMA EntryUnlinked ==
    ASSUME NEW d, NEW b, NEW k, NEW s, NEW x, NEW c, NEW e, Unlinks(d, b, k, s, x),
           ClearsEntry(d, b, k, s, x, c), Wrote(d, e, d[b].blocks[k], c)
    PROVE  Became(e, ReachableInodes(d) \ {x}, blocks_used(d) \ ({x} \cup BlocksOf(d[x])))
BY SMT, UnlinkEntry DEF Unlinks, ClearsEntry, Became

-----------------------------------------------------------------------------
(* The free list that fs_init builds.                                      *)

LEMMA AscendingLists ==
    ASSUME NEW S \in SUBSET Nat, IsFiniteSet(S)
    PROVE  /\ Cardinality(S) \in Nat /\ Ascending(S) \in [1 .. Cardinality(S) -> S]
           /\ Lists(Ascending(S), S)
<1> DEFINE N == Cardinality(S)
           Below(b) == {c \in S : c < b}
           rank == [b \in S |-> Cardinality(Below(b)) + 1]
<1>1. N \in Nat /\ IsFiniteSet(1 .. N) /\ Cardinality(1 .. N) = N
    <2>1. N \in Nat
        BY FS_CardinalityType
    <2>2. 1 \in Int /\ N \in Int
        BY SMT, <2>1
    <2> QED BY SMT, <2>1, <2>2, FS_Interval
<1>2. ASSUME NEW b \in S
      PROVE  IsFiniteSet(Below(b)) /\ Cardinality(Below(b)) \in Nat /\ Cardinality(Below(b)) < N
    <2>1. Below(b) \in SUBSET S /\ b \notin Below(b)
        BY SMT
    <2> HIDE DEF Below
    <2>2. IsFiniteSet(Below(b)) /\ Cardinality(Below(b)) \in Nat
        BY <2>1, FS_Subset, FS_CardinalityType
    <2>3. Cardinality(Below(b)) <= N /\ Cardinality(Below(b)) # N
        BY <2>1, FS_Subset
    <2> QED BY SMT, <1>1, <2>2, <2>3
<1>3. ASSUME NEW b \in S, NEW c \in S, b < c
      PROVE  Cardinality(Below(b)) < Cardinality(Below(c))
    <2>1. Below(b) \cup {b} \in SUBSET Below(c) /\ b \notin Below(b)
        <3>1. b \in Nat /\ c \in Nat /\ \A z \in Below(b) : z \in Nat /\ z \in S /\ z < b
            OBVIOUS
        <3>2. \A z \in Below(b) : z < c
            BY SMT, <1>3, <3>1
        <3>3. Below(b) \subseteq Below(c) /\ b \in Below(c)
            BY <1>3, <3>1, <3>2
        <3> QED BY SMT, <3>1, <3>3
    <2> HIDE DEF Below
    <2>2. Cardinality(Below(b) \cup {b}) = Cardinality(Below(b)) + 1
        BY <1>2, <2>1, FS_AddElement
    <2>3. Cardinality(Below(b) \cup {b}) <= Cardinality(Below(c))
        BY <1>2, <2>1, FS_Subset
    <2>4. Cardinality(Below(b)) \in Nat /\ Cardinality(Below(c)) \in Nat
        BY <1>2
    <2> QED BY SMT, <2>2, <2>3, <2>4
<1> HIDE DEF Below
<1>4. rank \in Injection(S, 1 .. N)
    <2>1. rank \in [S -> 1 .. N]
        BY SMT, <1>1, <1>2
    <2>2. ASSUME NEW b \in S, NEW c \in S, rank[b] = rank[c] PROVE b = c
        <3>1. Cardinality(Below(b)) = Cardinality(Below(c))
            BY SMT, <1>2, <2>2
        <3>2. ~(b < c) /\ ~(c < b)
            BY SMT, <1>2, <1>3, <3>1
        <3> QED BY SMT, <3>2
    <2> HIDE DEF rank
    <2> QED BY <2>1, <2>2 DEF Injection, IsInjective
<1>5. rank \in Surjection(S, 1 .. N)
    <2> HIDE DEF rank
    <2> QED BY <1>1, <1>4, FS_Injection
<1>6. ASSUME NEW i \in 1 .. N
      PROVE  Ascending(S)[i] \in S /\ Cardinality(Below(Ascending(S)[i])) = i - 1
    <2>1. \E b \in S : rank[b] = i
        <3> HIDE DEF rank
        <3> QED BY <1>5 DEF Surjection
    <2>2. \E b \in S : Cardinality(Below(b)) = i - 1
        BY SMT, <1>2, <2>1
    <2>3. Ascending(S)[i] = CHOOSE b \in S : Cardinality(Below(b)) = i - 1
        BY DEF Ascending, Below
    <2> QED BY <2>2, <2>3
<1>7. Ascending(S) \in [1 .. N -> S]
    <2> DEFINE Pick(i) == CHOOSE b \in S : Cardinality(Below(b)) = i - 1
    <2>1. Ascending(S) = [i \in 1 .. N |-> Pick(i)]
        BY DEF Ascending, Below
    <2> HIDE DEF Pick
    <2>2. \A i \in 1 .. N : Pick(i) \in S
        BY <1>6, <2>1
    <2> QED BY <2>1, <2>2
<1>8. Ascending(S) \in Seq(S) /\ Len(Ascending(S)) = N
    BY SMT, <1>1, <1>7
<1>9. ASSUME NEW i \in 1 .. N, NEW j \in 1 .. N, Ascending(S)[i] = Ascending(S)[j] PROVE i = j
    BY SMT, <1>6, <1>9
<1>10. ASSUME NEW x \in S PROVE \E i \in 1 .. N : Ascending(S)[i] = x
    <2> DEFINE i == Cardinality(Below(x)) + 1
    <2>1. i \in 1 .. N /\ Cardinality(Below(x)) = i - 1
        BY SMT, <1>1, <1>2
    <2>2. Ascending(S)[i] \in S /\ Cardinality(Below(Ascending(S)[i])) = i - 1
        BY <1>6, <2>1
    <2> HIDE DEF i
    <2> DEFINE z == Ascending(S)[i]
    <2>3. z \in S /\ Cardinality(Below(x)) = Cardinality(Below(z)) /\ Cardinality(Below(z)) \in Nat
        BY <1>2, <2>1, <2>2
    <2> HIDE DEF z
    <2>4. ~(x < z) /\ ~(z < x)
        BY SMT, <1>3, <2>3
    <2>5. x \in Nat /\ z \in Nat
        BY <2>3
    <2>6. z = x
        BY SMT, <2>4, <2>5
    <2> QED BY <2>1, <2>6 DEF z
<1>11. \A i \in 1 .. N : Ascending(S)[i] \in S
    BY <1>6
<1>12. Lists(Ascending(S), S)
    <2> HIDE DEF N
    <2> QED BY <1>8, <1>9, <1>10, <1>11 DEF Lists
<1> QED BY <1>1, <1>7, <1>12

\* The free list of a server that starts: each block that the walk did not meet, once.
LEMMA FreeAtStart ==
    ASSUME NEW d
    PROVE  /\ fs_init(d) \in Seq(Blocks \ {0})
           /\ Lists(fs_init(d), (1 .. FS_DISKSIZE - 1) \ blocks_used(d))
<1> DEFINE S == (1 .. FS_DISKSIZE - 1) \ blocks_used(d)
<1>1. /\ S \in SUBSET Nat /\ S \in SUBSET (1 .. FS_DISKSIZE - 1) /\ S \in SUBSET (Blocks \ {0})
      /\ FS_DISKSIZE - 1 \in Int /\ 1 \in Int
    BY SMT, SizesAssumption DEF Blocks
<1>2. IsFiniteSet(1 .. FS_DISKSIZE - 1)
    BY <1>1, FS_Interval
<1> HIDE DEF S
<1>3. IsFiniteSet(S)
    BY <1>1, <1>2, FS_Subset
<1>4. /\ Cardinality(S) \in Nat /\ Ascending(S) \in [1 .. Cardinality(S) -> S]
      /\ Lists(Ascending(S), S)
    BY <1>1, <1>3, AscendingLists
<1>5. Ascending(S) \in Seq(Blocks \ {0})
    <2>1. Ascending(S) \in [1 .. Cardinality(S) -> Blocks \ {0}]
        BY <1>1, <1>4
    <2> QED BY SMT, <1>4, <2>1
<1> QED BY <1>4, <1>5 DEF S, fs_init

\* A block of entries with one entry cleared.
Cleared(dir, s) == [dir EXCEPT !.entries[s] = UnusedEntry]

LEMMA EntryCleared ==
    ASSUME NEW dir \in direntries, NEW s \in 1 .. FS_DIRENTRIES
    PROVE  /\ Cleared(dir, s) \in direntries /\ Cleared(dir, s).entries[s] = UnusedEntry
           /\ \A j \in 1 .. FS_DIRENTRIES : j # s => Cleared(dir, s).entries[j] = dir.entries[j]
<1>1. UnusedEntry \in Direntry
    BY SMT, SizesAssumption DEF UnusedEntry, Direntry, Blocks
<1>2. dir.entries \in [1 .. FS_DIRENTRIES -> Direntry]
    BY DEF direntries
<1> DEFINE entries == [dir.entries EXCEPT ![s] = UnusedEntry]
<1>3. /\ entries \in [1 .. FS_DIRENTRIES -> Direntry] /\ entries[s] = UnusedEntry
      /\ \A j \in 1 .. FS_DIRENTRIES : j # s => entries[j] = dir.entries[j]
    BY <1>1, <1>2
<1>4. Cleared(dir, s) = [dir EXCEPT !.entries = entries]
    BY DEF direntries, Cleared
<1> HIDE DEF entries
<1> QED BY <1>3, <1>4 DEF direntries
=============================================================================
