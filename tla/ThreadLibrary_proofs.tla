------------------------ MODULE ThreadLibrary_proofs ------------------------
(***************************************************************************)
(* The theorems about ThreadLibrary, for any number of CPUs, threads,       *)
(* mutexes and condition variables: its invariants, and that it implements  *)
(* Monitor.                                                                *)
(***************************************************************************)
EXTENDS ThreadLibrary, TLAPS

\* The prover of a leaf that names none.
USE ZenonT(30)

(* Queues: push, pop, readying, and the context switch.                    *)

QueuesType == [Queues -> Seq(Threads)]

\* Thread t is in queue q of Q; in some queue of Q.
InQueue(Q, q, t) == \E i \in DOMAIN Q[q] : Q[q][i] = t
InQueues(Q, t) == \E q \in Queues : InQueue(Q, q, t)

\* No context is in two places of the queues Q.
Distinct(Q) ==
    \A q, r \in Queues : \A i \in DOMAIN Q[q], j \in DOMAIN Q[r] :
        Q[q][i] = Q[r][j] => q = r /\ i = j

\* R has the contexts of Q, in other places.
SameContexts(Q, R) == \A t \in Threads : InQueues(Q, t) <=> InQueues(R, t)

\* The queues Q with x at the end of queue q; with the front of queue q removed.
Push(Q, q, x) == [Q EXCEPT ![q] = Append(@, x)]
Pop(Q, q) == [Q EXCEPT ![q] = Tail(@)]

\* swap_self_to_queue adds one context at the end of a queue.
LEMMA PushLemma ==
    ASSUME NEW Q \in QueuesType, NEW q \in Queues, NEW x \in Threads
    PROVE  /\ Push(Q, q, x) \in QueuesType
           /\ \A r \in Queues \ {q} : Push(Q, q, x)[r] = Q[r]
           /\ \A t \in Threads : InQueue(Push(Q, q, x), q, t) <=> InQueue(Q, q, t) \/ t = x
           /\ \A t \in Threads : InQueues(Push(Q, q, x), t) <=> InQueues(Q, t) \/ t = x
           /\ Distinct(Q) /\ ~InQueues(Q, x) => Distinct(Push(Q, q, x))
<1> DEFINE R == Push(Q, q, x)
<1>1. R \in QueuesType
    BY SMT DEF QueuesType, Push
<1>2. \A r \in Queues \ {q} : R[r] = Q[r]
    BY DEF QueuesType, Push
<1>3. /\ R[q] = Append(Q[q], x) /\ Q[q] \in Seq(Threads)
      /\ DOMAIN R[q] = 1 .. Len(Q[q]) + 1 /\ DOMAIN Q[q] = 1 .. Len(Q[q])
      /\ R[q][Len(Q[q]) + 1] = x
      /\ \A i \in 1 .. Len(Q[q]) : R[q][i] = Q[q][i]
    BY SMT DEF QueuesType, Push
<1> HIDE DEF R
<1>4. \A t \in Threads : InQueue(R, q, t) <=> InQueue(Q, q, t) \/ t = x
    <2>1. Len(Q[q]) \in Nat
        BY SMT, <1>3
    <2> QED BY SMT, <1>3, <2>1 DEF InQueue
<1>5. \A t \in Threads : InQueues(R, t) <=> InQueues(Q, t) \/ t = x
    BY SMT, <1>2, <1>4 DEF InQueues, InQueue
<1>6. ASSUME Distinct(Q), ~InQueues(Q, x) PROVE Distinct(R)
    <2>0. Len(Q[q]) \in Nat
        BY SMT, <1>3
    <2>1. \A r \in Queues : \A i \in DOMAIN R[r] :
            (r = q /\ i = Len(Q[q]) + 1 /\ R[r][i] = x)
            \/ (i \in DOMAIN Q[r] /\ R[r][i] = Q[r][i])
        BY SMT, <1>2, <1>3, <2>0
    <2>2. \A r \in Queues : \A i \in DOMAIN Q[r] : Q[r][i] # x
        BY <1>6 DEF InQueues, InQueue
    <2> QED BY SMT, <1>6, <2>1, <2>2 DEF Distinct
<1> QED BY <1>1, <1>2, <1>4, <1>5, <1>6 DEF R

\* A context is taken from the front of a queue.
LEMMA PopLemma ==
    ASSUME NEW Q \in QueuesType, NEW q \in Queues, Q[q] # <<>>
    PROVE  /\ Pop(Q, q) \in QueuesType
           /\ Head(Q[q]) \in Threads
           /\ InQueue(Q, q, Head(Q[q]))
           /\ \A r \in Queues \ {q} : Pop(Q, q)[r] = Q[r]
           /\ \A t \in Threads : InQueue(Q, q, t) <=> InQueue(Pop(Q, q), q, t) \/ t = Head(Q[q])
           /\ \A t \in Threads : InQueues(Q, t) <=> InQueues(Pop(Q, q), t) \/ t = Head(Q[q])
           /\ Distinct(Q) => Distinct(Pop(Q, q)) /\ ~InQueues(Pop(Q, q), Head(Q[q]))
<1> DEFINE R == Pop(Q, q)
<1>1. R \in QueuesType
    BY SMT DEF QueuesType, Pop
<1>2. \A r \in Queues \ {q} : R[r] = Q[r]
    BY DEF QueuesType, Pop
<1>3. /\ R[q] = Tail(Q[q]) /\ Q[q] \in Seq(Threads)
      /\ Len(Q[q]) \in Nat \ {0}
      /\ DOMAIN R[q] = 1 .. Len(Q[q]) - 1 /\ DOMAIN Q[q] = 1 .. Len(Q[q])
      /\ Head(Q[q]) = Q[q][1] /\ Head(Q[q]) \in Threads
      /\ \A i \in 1 .. Len(Q[q]) - 1 : R[q][i] = Q[q][i + 1]
    BY SMT DEF QueuesType, Pop
<1> HIDE DEF R
<1>4. InQueue(Q, q, Head(Q[q]))
    BY SMT, <1>3 DEF InQueue
<1>5. \A t \in Threads : InQueue(Q, q, t) <=> InQueue(R, q, t) \/ t = Head(Q[q])
    <2>1. SUFFICES ASSUME NEW t \in Threads
                   PROVE  InQueue(Q, q, t) <=> InQueue(R, q, t) \/ t = Q[q][1]
        BY <1>3
    <2>2. ASSUME NEW i \in 1 .. Len(Q[q]), Q[q][i] = t, i # 1 PROVE InQueue(R, q, t)
        <3>1. i - 1 \in DOMAIN R[q] /\ R[q][i - 1] = Q[q][i - 1 + 1] /\ i - 1 + 1 = i
            BY SMT, <1>3, <2>2
        <3> QED BY <2>2, <3>1 DEF InQueue
    <2>3. ASSUME NEW i \in 1 .. Len(Q[q]) - 1, R[q][i] = t PROVE InQueue(Q, q, t)
        <3>1. i + 1 \in DOMAIN Q[q] /\ Q[q][i + 1] = t
            BY SMT, <1>3, <2>3
        <3> QED BY <3>1 DEF InQueue
    <2>4. InQueue(Q, q, Q[q][1])
        BY <1>3, <1>4
    <2> QED BY <1>3, <2>2, <2>3, <2>4 DEF InQueue
<1>6. \A t \in Threads : InQueues(Q, t) <=> InQueues(R, t) \/ t = Head(Q[q])
    BY SMT, <1>2, <1>5 DEF InQueues, InQueue
<1>7. ASSUME Distinct(Q) PROVE Distinct(R) /\ ~InQueues(R, Head(Q[q]))
    <2> DEFINE old(r, i) == IF r = q THEN i + 1 ELSE i
    <2>1. \A r \in Queues : \A i \in DOMAIN R[r] :
            /\ r = q => i \in Nat /\ i + 1 # 1
            /\ old(r, i) \in DOMAIN Q[r] /\ R[r][i] = Q[r][old(r, i)]
        <3>1. SUFFICES ASSUME NEW r \in Queues, NEW i \in DOMAIN R[r]
                       PROVE  /\ r = q => i \in Nat /\ i + 1 # 1
                              /\ old(r, i) \in DOMAIN Q[r] /\ R[r][i] = Q[r][old(r, i)]
            OBVIOUS
        <3>2. CASE r = q
            <4>1. i \in 1 .. Len(Q[q]) - 1
                BY <1>3, <3>2
            <4>2. i \in Nat /\ i + 1 # 1 /\ i + 1 \in 1 .. Len(Q[q]) /\ R[q][i] = Q[q][i + 1]
                BY SMT, <1>3, <4>1
            <4> QED BY <1>3, <3>2, <4>2
        <3>3. CASE r # q
            BY <1>2, <3>3
        <3> QED BY <3>2, <3>3
    <2>2. Distinct(R)
        <3>1. SUFFICES ASSUME NEW r \in Queues, NEW s \in Queues,
                              NEW i \in DOMAIN R[r], NEW j \in DOMAIN R[s], R[r][i] = R[s][j]
                       PROVE  r = s /\ i = j
            BY DEF Distinct
        <3>2. r = s /\ old(r, i) = old(s, j)
            BY SMT, <1>7, <2>1, <3>1 DEF Distinct
        <3> QED BY SMT, <2>1, <3>2, <1>3
    <2>3. ~InQueues(R, Head(Q[q]))
        <3>1. SUFFICES ASSUME NEW r \in Queues, NEW i \in DOMAIN R[r], R[r][i] = Q[q][1]
                       PROVE  FALSE
            BY <1>3 DEF InQueues, InQueue
        <3>2. 1 \in DOMAIN Q[q]
            BY SMT, <1>3
        <3>3. r = q /\ old(r, i) = 1
            BY SMT, <1>7, <2>1, <3>1, <3>2 DEF Distinct
        <3> QED BY <2>1, <3>3
    <2> QED BY <2>2, <2>3
<1> QED BY <1>1, <1>2, <1>3, <1>4, <1>5, <1>6, <1>7 DEF R

\* add_to_ready_queue of the first context of queue q.
LEMMA FirstReadiedLemma ==
    ASSUME queue \in QueuesType, NEW q \in Queues \ {Ready}, queue[q] # <<>>
    PROVE  /\ FirstReadied(q) \in QueuesType
           /\ SameContexts(queue, FirstReadied(q))
           /\ \A r \in Queues \ {q, Ready} : FirstReadied(q)[r] = queue[r]
           /\ FirstReadied(q)[q] = Tail(queue[q])
           /\ Head(queue[q]) \in Threads /\ InQueue(queue, q, Head(queue[q]))
           /\ \A t \in Threads :
                InQueue(queue, q, t) <=> InQueue(FirstReadied(q), q, t) \/ t = Head(queue[q])
           /\ Distinct(queue) => /\ Distinct(FirstReadied(q))
                                 /\ ~InQueue(FirstReadied(q), q, Head(queue[q]))
<1> DEFINE P == Pop(queue, q)
           x == Head(queue[q])
           R == Push(P, Ready, x)
<1>0. Ready \in Queues
    BY DEF Queues
<1>1. /\ P \in QueuesType /\ x \in Threads /\ InQueue(queue, q, x)
      /\ \A r \in Queues \ {q} : P[r] = queue[r]
      /\ \A t \in Threads : InQueue(queue, q, t) <=> InQueue(P, q, t) \/ t = x
      /\ \A t \in Threads : InQueues(queue, t) <=> InQueues(P, t) \/ t = x
      /\ Distinct(queue) => Distinct(P) /\ ~InQueues(P, x)
    BY PopLemma
<1>2. FirstReadied(q) = R
    <2>1. queue[Ready] \in Seq(Threads) /\ queue[Ready] \o <<x>> = Append(queue[Ready], x)
        BY SMT, <1>0, <1>1 DEF QueuesType
    <2> HIDE DEF x
    <2>2. [queue EXCEPT ![Ready] = @ \o <<x>>] = [queue EXCEPT ![Ready] = Append(@, x)]
        BY <2>1
    <2>3. FirstReadied(q) = [[queue EXCEPT ![Ready] = Append(@, x)] EXCEPT ![q] = Tail(@)]
        BY <2>2 DEF FirstReadied, Readied, x
    <2> QED BY <2>3, <1>0 DEF QueuesType, Pop, Push
<1>3. P[q] = Tail(queue[q])
    BY DEF QueuesType, Pop
<1>4. /\ R \in QueuesType
      /\ \A r \in Queues \ {Ready} : R[r] = P[r]
      /\ \A t \in Threads : InQueues(R, t) <=> InQueues(P, t) \/ t = x
      /\ Distinct(P) /\ ~InQueues(P, x) => Distinct(R)
    <2> HIDE DEF P, x
    <2> QED BY SMT, PushLemma, <1>0, <1>1
<1> HIDE DEF P, R, x
<1>5. \A t \in Threads : InQueue(R, q, t) <=> InQueue(P, q, t)
    BY <1>4 DEF InQueue
<1>6. ~InQueues(P, x) => ~InQueue(R, q, x)
    BY <1>1, <1>5 DEF InQueues
<1>7. SameContexts(queue, R)
    BY <1>1, <1>4 DEF SameContexts
<1>8. R[q] = Tail(queue[q]) /\ \A r \in Queues \ {q, Ready} : R[r] = queue[r]
    BY <1>1, <1>3, <1>4
<1> QED BY <1>1, <1>2, <1>4, <1>5, <1>6, <1>7, <1>8 DEF x

\* add_to_ready_queue of all the contexts of queue q.
LEMMA AllReadiedLemma ==
    ASSUME queue \in QueuesType, NEW q \in Queues \ {Ready}
    PROVE  /\ AllReadied(q) \in QueuesType
           /\ SameContexts(queue, AllReadied(q))
           /\ \A r \in Queues \ {q, Ready} : AllReadied(q)[r] = queue[r]
           /\ AllReadied(q)[q] = <<>>
           /\ Distinct(queue) => Distinct(AllReadied(q))
<1> DEFINE R == AllReadied(q)
           n == Len(queue[Ready])
           k == Len(queue[q])
<1>0. Ready \in Queues
    BY DEF Queues
<1>1. /\ queue[Ready] \in Seq(Threads) /\ queue[q] \in Seq(Threads)
      /\ n \in Nat /\ k \in Nat /\ DOMAIN queue[Ready] = 1 .. n /\ DOMAIN queue[q] = 1 .. k
    BY SMT, <1>0 DEF QueuesType
<1> DEFINE both == queue[Ready] \o queue[q]
<1>2. both \in Seq(Threads) /\ DOMAIN both = 1 .. n + k
      /\ \A i \in 1 .. n + k : both[i] = IF i <= n THEN queue[Ready][i] ELSE queue[q][i - n]
    <2> DEFINE f == queue[Ready]
               g == queue[q]
    <2>0. /\ f \in Seq(Threads) /\ g \in Seq(Threads) /\ n = Len(f) /\ k = Len(g)
          /\ n \in Nat /\ k \in Nat /\ both = f \o g
        BY <1>1
    <2> HIDE DEF both, n, k, f, g
    <2>1. /\ both \in Seq(Threads) /\ Len(both) = n + k
          /\ \A i \in 1 .. n : both[i] = f[i]
          /\ \A i \in 1 .. k : both[n + i] = g[i]
        BY SMT, <2>0
    <2>2. DOMAIN both = 1 .. n + k
        BY SMT, <2>1
    <2>3. ASSUME NEW i \in 1 .. n + k PROVE both[i] = IF i <= n THEN queue[Ready][i] ELSE queue[q][i - n]
        <3>1. CASE i <= n
            <4>1. i \in 1 .. n
                BY SMT, <1>1, <3>1
            <4> QED BY <2>1, <3>1, <4>1 DEF f
        <3>2. CASE ~(i <= n)
            <4> DEFINE j == i - n
            <4>1. j \in 1 .. k /\ i = n + j
                BY SMT, <1>1, <3>2
            <4> HIDE DEF j
            <4>2. both[n + j] = queue[q][j]
                BY <2>1, <4>1 DEF g
            <4> QED BY <3>2, <4>1, <4>2 DEF j
        <3> QED BY <3>1, <3>2
    <2> QED BY <2>1, <2>2, <2>3
<1>3. R = [[queue EXCEPT ![Ready] = both] EXCEPT ![q] = <<>>]
    BY DEF AllReadied, Readied
<1> HIDE DEF both, R
<1>4. /\ R \in QueuesType /\ R[q] = <<>> /\ R[Ready] = both
      /\ \A r \in Queues \ {q, Ready} : R[r] = queue[r]
    <2>1. both \in Seq(Threads) /\ <<>> \in Seq(Threads)
        BY SMT, <1>2 DEF both
    <2> QED BY <1>0, <1>3, <2>1 DEF QueuesType
<1>5. /\ DOMAIN R[q] = {} /\ DOMAIN R[Ready] = 1 .. n + k
      /\ \A i \in 1 .. n : R[Ready][i] = queue[Ready][i]
      /\ \A i \in n + 1 .. n + k : R[Ready][i] = queue[q][i - n]
    <2>1. DOMAIN <<>> = {}
        BY SMT
    <2> HIDE DEF n, k
    <2>2. \A i \in 1 .. n : i \in 1 .. n + k /\ i <= n
        BY SMT, <1>1
    <2>3. \A i \in n + 1 .. n + k : i \in 1 .. n + k /\ ~(i <= n)
        BY SMT, <1>1
    <2> QED BY <1>2, <1>4, <2>1, <2>2, <2>3 DEF both
<1> HIDE DEF n, k
<1>6. \A r \in Queues : \A i \in DOMAIN R[r] :
        \/ r # q /\ i \in DOMAIN queue[r] /\ R[r][i] = queue[r][i]
        \/ r = Ready /\ i \in n + 1 .. n + k /\ i - n \in DOMAIN queue[q] /\ R[r][i] = queue[q][i - n]
    <2>1. \A i \in 1 .. n + k : i \in 1 .. n \/ (i \in n + 1 .. n + k /\ i - n \in 1 .. k)
        BY SMT, <1>1
    <2> QED BY <1>1, <1>4, <1>5, <2>1
<1>7. \A r \in Queues : \A i \in DOMAIN queue[r] :
        \/ r # q /\ i \in DOMAIN R[r] /\ R[r][i] = queue[r][i]
        \/ r = q /\ n + i \in DOMAIN R[Ready] /\ R[Ready][n + i] = queue[r][i]
    <2>1. SUFFICES ASSUME NEW r \in Queues, NEW i \in DOMAIN queue[r]
                   PROVE  \/ r # q /\ i \in DOMAIN R[r] /\ R[r][i] = queue[r][i]
                          \/ r = q /\ n + i \in DOMAIN R[Ready] /\ R[Ready][n + i] = queue[r][i]
        OBVIOUS
    <2>2. CASE r = q
        <3> DEFINE h == n + i
        <3>1. h \in n + 1 .. n + k /\ h \in 1 .. n + k /\ h - n = i
            BY SMT, <1>1, <2>2
        <3> HIDE DEF h
        <3>2. R[Ready][h] = queue[q][h - n]
            BY <1>5, <3>1
        <3> QED BY <1>5, <2>2, <3>1, <3>2 DEF h
    <2>3. CASE r = Ready
        <3>1. i \in 1 .. n /\ i \in 1 .. n + k
            BY SMT, <1>1, <2>3
        <3> QED BY <1>5, <2>3, <3>1
    <2>4. CASE r \notin {q, Ready}
        BY <1>4, <2>4
    <2> QED BY <2>2, <2>3, <2>4
<1>8. SameContexts(queue, R)
    BY SMT, <1>0, <1>6, <1>7 DEF SameContexts, InQueues, InQueue
<1>9. ASSUME Distinct(queue) PROVE Distinct(R)
    <2>1. SUFFICES ASSUME NEW r \in Queues, NEW s \in Queues,
                          NEW i \in DOMAIN R[r], NEW j \in DOMAIN R[s], R[r][i] = R[s][j]
                   PROVE  r = s /\ i = j
        BY DEF Distinct
    <2> DEFINE Stays(p, h) == p # q /\ h \in DOMAIN queue[p] /\ R[p][h] = queue[p][h]
               Moves(p, h) == /\ p = Ready /\ h \in n + 1 .. n + k /\ h - n \in DOMAIN queue[q]
                              /\ R[p][h] = queue[q][h - n]
    <2>2. (Stays(r, i) \/ Moves(r, i)) /\ (Stays(s, j) \/ Moves(s, j))
        BY <1>6
    <2>0. \A p, u \in Queues : \A h \in DOMAIN queue[p], l \in DOMAIN queue[u] :
            queue[p][h] = queue[u][l] => p = u /\ h = l
        BY <1>9 DEF Distinct
    <2>3. CASE Stays(r, i) /\ Stays(s, j)
        <3>1. queue[r][i] = queue[s][j]
            BY <2>1, <2>3
        <3> QED BY <2>0, <2>3, <3>1
    <2>4. CASE Stays(r, i) /\ Moves(s, j)
        <3>1. queue[r][i] = queue[q][j - n]
            BY <2>1, <2>4
        <3> QED BY <2>0, <2>4, <3>1
    <2>5. CASE Moves(r, i) /\ Stays(s, j)
        <3>1. queue[q][i - n] = queue[s][j]
            BY <2>1, <2>5
        <3> QED BY <2>0, <2>5, <3>1
    <2>6. CASE Moves(r, i) /\ Moves(s, j)
        <3>1. i - n = j - n
            BY SMT, <1>9, <2>1, <2>6 DEF Distinct
        <3> QED BY SMT, <1>1, <2>6, <3>1
    <2> QED BY <2>2, <2>3, <2>4, <2>5, <2>6
<1> QED BY <1>4, <1>8, <1>9 DEF R

\* What a context switch leaves behind: the new context, if any, was in the queues Q
\* and is in none any more.
LEMMA SwitchFromLemma ==
    ASSUME NEW Q \in QueuesType, NEW c \in CPUs, SwitchFrom(c, Q),
           last_context \in [CPUs -> Threads \cup {None}], pc \in [CPUs -> Places]
    PROVE  /\ queue' \in QueuesType
           /\ last_context' \in [CPUs -> Threads \cup {None}]
           /\ \A d \in CPUs \ {c} : last_context'[d] = last_context[d] /\ pc'[d] = pc[d]
           /\ pc' \in [CPUs -> Places]
           /\ pc'[c] = IF last_context'[c] = None THEN "goldfish" ELSE "kernel"
           /\ \A r \in Queues \ {Ready} : queue'[r] = Q[r]
           /\ \A t \in Threads : InQueues(Q, t) <=> InQueues(queue', t) \/ last_context'[c] = t
           /\ Distinct(Q) => /\ Distinct(queue')
                             /\ \A t \in Threads : last_context'[c] = t => ~InQueues(queue', t)
<1>0. Ready \in Queues /\ None \notin Threads
    BY NamesAssumption DEF Queues
<1>1. CASE Q[Ready] # <<>>
    <2>1. /\ queue' = Pop(Q, Ready)
          /\ last_context' = [last_context EXCEPT ![c] = Head(Q[Ready])]
          /\ pc' = [pc EXCEPT ![c] = "kernel"]
        BY <1>1 DEF SwitchFrom, Pop
    <2>2. /\ Pop(Q, Ready) \in QueuesType /\ Head(Q[Ready]) \in Threads
          /\ \A r \in Queues \ {Ready} : Pop(Q, Ready)[r] = Q[r]
          /\ \A t \in Threads : InQueues(Q, t) <=> InQueues(Pop(Q, Ready), t) \/ t = Head(Q[Ready])
          /\ Distinct(Q) => Distinct(Pop(Q, Ready)) /\ ~InQueues(Pop(Q, Ready), Head(Q[Ready]))
        BY <1>0, <1>1, PopLemma
    <2>3. last_context'[c] = Head(Q[Ready]) /\ pc'[c] = "kernel"
        BY <2>1
    <2> QED BY <1>0, <2>1, <2>2, <2>3 DEF Places
<1>2. CASE Q[Ready] = <<>>
    <2>1. /\ queue' = Q /\ last_context' = [last_context EXCEPT ![c] = None]
          /\ pc' = [pc EXCEPT ![c] = "goldfish"]
        BY <1>2 DEF SwitchFrom
    <2> QED BY <1>0, <2>1 DEF Places
<1> QED BY <1>1, <1>2

\* swap_self_to_queue: the calling context is in queue q unless it was taken again.
LEMMA SwapLemma ==
    ASSUME NEW Q \in QueuesType, NEW c \in CPUs, NEW q \in Queues, swap_self_to_queue(c, q, Q),
           last_context \in [CPUs -> Threads \cup {None}], pc \in [CPUs -> Places],
           last_context[c] \in Threads
    PROVE  /\ queue' \in QueuesType
           /\ last_context' \in [CPUs -> Threads \cup {None}]
           /\ \A d \in CPUs \ {c} : last_context'[d] = last_context[d] /\ pc'[d] = pc[d]
           /\ pc' \in [CPUs -> Places]
           /\ pc'[c] = IF last_context'[c] = None THEN "goldfish" ELSE "kernel"
           /\ \A r \in Queues \ {q, Ready} : queue'[r] = Q[r]
           /\ q # Ready => \A t \in Threads :
                InQueue(queue', q, t) <=> InQueue(Q, q, t) \/ last_context[c] = t
           /\ \A t \in Threads :
                InQueues(Q, t) \/ last_context[c] = t <=> InQueues(queue', t) \/ last_context'[c] = t
           /\ Distinct(Q) /\ ~InQueues(Q, last_context[c]) =>
                /\ Distinct(queue')
                /\ \A t \in Threads : last_context'[c] = t => ~InQueues(queue', t)
<1> DEFINE x == last_context[c]
           P == Push(Q, q, x)
<1>1. SwitchFrom(c, P)
    BY DEF swap_self_to_queue, Push
<1>2. /\ P \in QueuesType
      /\ \A r \in Queues \ {q} : P[r] = Q[r]
      /\ \A t \in Threads : InQueue(P, q, t) <=> InQueue(Q, q, t) \/ t = x
      /\ \A t \in Threads : InQueues(P, t) <=> InQueues(Q, t) \/ t = x
      /\ Distinct(Q) /\ ~InQueues(Q, x) => Distinct(P)
    BY PushLemma
<1> HIDE DEF P
<1>3. /\ queue' \in QueuesType
      /\ last_context' \in [CPUs -> Threads \cup {None}]
      /\ \A d \in CPUs \ {c} : last_context'[d] = last_context[d] /\ pc'[d] = pc[d]
      /\ pc' \in [CPUs -> Places]
      /\ pc'[c] = IF last_context'[c] = None THEN "goldfish" ELSE "kernel"
      /\ \A r \in Queues \ {Ready} : queue'[r] = P[r]
      /\ \A t \in Threads : InQueues(P, t) <=> InQueues(queue', t) \/ last_context'[c] = t
      /\ Distinct(P) => /\ Distinct(queue')
                        /\ \A t \in Threads : last_context'[c] = t => ~InQueues(queue', t)
    BY <1>1, <1>2, SwitchFromLemma
<1>4. q # Ready => \A t \in Threads :
        InQueue(queue', q, t) <=> InQueue(Q, q, t) \/ last_context[c] = t
    BY SMT, <1>2, <1>3 DEF InQueue
<1> QED BY <1>2, <1>3, <1>4

\* swap_self_to_queue leaves every queue but its target and the ready queue alone.
LEMMA SwapRest ==
    ASSUME NEW Q \in QueuesType, NEW c \in CPUs, NEW q \in Queues, swap_self_to_queue(c, q, Q),
           last_context \in [CPUs -> Threads \cup {None}], pc \in [CPUs -> Places],
           last_context[c] \in Threads
    PROVE  \A r \in Queues \ {q, Ready} : queue'[r] = Q[r]
BY SMT, SwapLemma

-----------------------------------------------------------------------------
(* Types.                                                                  *)

\* A CPU has a context exactly while it runs a thread.
RunsThread == \A c \in CPUs : pc[c] \in {"user", "kernel"} <=> last_context[c] # None

\* A context that is to own or to relock a mutex knows which.
LockArg == \A t \in Threads : cont[t] # "run" => arg[t] \in Mutexes

TypeInv == TypeOK /\ RunsThread /\ LockArg

\* check_ready_and_wake (cpu.cpp:149-169) keeps its flags Boolean.
LEMMA WakeType ==
    ASSUME NEW n, check_ready_and_wake(n), TypeOK
    PROVE  is_idle' \in [CPUs -> BOOLEAN] /\ ipi' \in [CPUs -> BOOLEAN]
<1> DEFINE W == ToWake(n)
<1>1. /\ is_idle' = [c \in CPUs |-> is_idle[c] /\ c \notin W]
      /\ ipi' = [c \in CPUs |-> ipi[c] \/ c \in W]
    BY DEF check_ready_and_wake
<1> HIDE DEF W
<1> QED BY <1>1 DEF TypeOK

\* The caller of the library is a thread, and its names are queues.
LEMMA CallerLemma ==
    ASSUME NEW c \in CPUs, TypeInv
    PROVE  /\ queue \in QueuesType
           /\ last_context \in [CPUs -> Threads \cup {None}] /\ pc \in [CPUs -> Places]
           /\ pc[c] \in {"user", "kernel"} => last_context[c] \in Threads
           /\ Ready \in Queues /\ Threads \subseteq Queues \ {Ready}
           /\ Mutexes \subseteq Queues \ {Ready} /\ CVs \subseteq Queues \ {Ready}
           /\ None \notin Threads /\ None \notin CPUs /\ None \notin Mutexes
BY NamesAssumption, QueuesAssumption DEF TypeInv, TypeOK, RunsThread, QueuesType, Queues

\* Making one thread ready (add_to_ready_queue, cpu.cpp:67-78) appends it to the
\* ready queue and leaves the other queues alone.
LEMMA ReadiedType ==
    ASSUME NEW x \in Threads, queue \in QueuesType
    PROVE  /\ Readied(queue, <<x>>) = Push(queue, Ready, x)
           /\ Readied(queue, <<x>>) \in QueuesType
           /\ Readied(queue, <<x>>)[Ready] # <<>>
           /\ \A r \in Queues \ {Ready} : Readied(queue, <<x>>)[r] = queue[r]
<1>0. Ready \in Queues /\ queue[Ready] \in Seq(Threads)
    BY DEF Queues, QueuesType
<1>1. queue[Ready] \o <<x>> = Append(queue[Ready], x)
    BY SMT, <1>0
<1>2. Readied(queue, <<x>>) = Push(queue, Ready, x)
    BY <1>1 DEF Readied, Push
<1>3. Push(queue, Ready, x)[Ready] = Append(queue[Ready], x)
    BY <1>0 DEF Push, QueuesType
<1>4. Append(queue[Ready], x) # <<>>
    BY SMT, <1>0
<1>5. /\ Push(queue, Ready, x) \in QueuesType
      /\ \A r \in Queues \ {Ready} : Push(queue, Ready, x)[r] = queue[r]
    BY SMT, <1>0, PushLemma
<1> QED BY <1>2, <1>3, <1>4, <1>5

\* What unlock and wait do to the queues is well typed.
LEMMA ReleaseType ==
    ASSUME NEW t \in Threads, NEW m \in Mutexes, TypeOK, release_lock(t, m)
    PROVE  /\ Released(m) \in QueuesType
           /\ free' \in [Mutexes -> BOOLEAN]
           /\ owner' \in [Mutexes -> Threads \cup {None}]
           /\ held' \in [Threads -> SUBSET Mutexes]
           /\ is_idle' \in [CPUs -> BOOLEAN] /\ ipi' \in [CPUs -> BOOLEAN]
<1>1. queue \in QueuesType /\ m \in Queues \ {Ready}
    BY QueuesAssumption DEF TypeOK, QueuesType, Queues
<1>2. Released(m) \in QueuesType
    BY <1>1, FirstReadiedLemma DEF Released
<1>3. is_idle' \in [CPUs -> BOOLEAN] /\ ipi' \in [CPUs -> BOOLEAN]
    <2>1. CASE queue[m] # <<>>
        BY <2>1, WakeType DEF release_lock
    <2>2. CASE queue[m] = <<>>
        BY <2>2 DEF release_lock, TypeOK
    <2> QED BY <2>1, <2>2
<1>4. free' \in [Mutexes -> BOOLEAN]
    <2> DEFINE e == queue[m] = <<>>
    <2>1. e \in BOOLEAN /\ free' = [free EXCEPT ![m] = e]
        BY DEF release_lock
    <2> HIDE DEF e
    <2> QED BY <2>1 DEF TypeOK
<1> QED BY <1>2, <1>3, <1>4 DEF release_lock, TypeOK

\* TypeInv in two halves: where the contexts are, and everything else.
PlaceOK ==
    /\ guard \in CPUs \cup {None}
    /\ pc \in [CPUs -> Places]
    /\ last_context \in [CPUs -> Threads \cup {None}]
    /\ queue \in QueuesType
    /\ RunsThread

RestOK ==
    /\ cpu_vec \in Seq(CPUs)
    /\ is_idle \in [CPUs -> BOOLEAN]
    /\ ipi \in [CPUs -> BOOLEAN]
    /\ to_kill \in [CPUs -> Threads \cup {None}]
    /\ free \in [Mutexes -> BOOLEAN]
    /\ owner \in [Mutexes -> Threads \cup {None}]
    /\ life \in [Threads -> {"unborn", "alive", "dead"}]
    /\ cont \in [Threads -> Continuations]
    /\ arg \in [Threads -> Mutexes \cup {None}]
    /\ held \in [Threads -> SUBSET Mutexes]
    /\ LockArg

\* The invariant in two halves: what a switch changes, and the rest.
LEMMA TypeHalves == (TypeInv <=> PlaceOK /\ RestOK) /\ (TypeInv' <=> PlaceOK' /\ RestOK')
BY DEF TypeInv, TypeOK, PlaceOK, RestOK, QueuesType

\* Leaving a context for the next ready one keeps the first half.
LEMMA SwitchPlace ==
    ASSUME TypeInv, NEW c \in CPUs, NEW Q \in QueuesType, SwitchFrom(c, Q)
    PROVE  PlaceOK'
<1>1. /\ queue' \in QueuesType
      /\ last_context' \in [CPUs -> Threads \cup {None}]
      /\ \A d \in CPUs \ {c} : last_context'[d] = last_context[d] /\ pc'[d] = pc[d]
      /\ pc' \in [CPUs -> Places]
      /\ pc'[c] = IF last_context'[c] = None THEN "goldfish" ELSE "kernel"
    BY SwitchFromLemma, CallerLemma
<1>2. guard' = c
    BY DEF SwitchFrom
<1>3. RunsThread'
    BY <1>1 DEF RunsThread, TypeInv
<1>4. QueuesType' = QueuesType
    BY DEF QueuesType
<1> QED BY <1>1, <1>2, <1>3, <1>4 DEF PlaceOK

\* So does queueing the own context first.
LEMMA SwapPlace ==
    ASSUME TypeInv, NEW c \in CPUs, pc[c] = "user", NEW q \in Queues, NEW Q \in QueuesType,
           swap_self_to_queue(c, q, Q)
    PROVE  PlaceOK'
<1>1. last_context[c] \in Threads
    BY CallerLemma
<1>2. Push(Q, q, last_context[c]) \in QueuesType /\ SwitchFrom(c, Push(Q, q, last_context[c]))
    BY <1>1, PushLemma DEF swap_self_to_queue, Push
<1> QED BY <1>2, SwitchPlace

\* So does a call that does not switch.
LEMMA NoSwitchPlace ==
    ASSUME TypeInv, NEW c \in CPUs, pc[c] = "user", NEW Q \in QueuesType, NoSwitch(c, Q)
    PROVE  PlaceOK'
<1>1. /\ guard' = c /\ queue' = Q /\ last_context' = last_context
      /\ pc' = [pc EXCEPT ![c] = "kernel"]
    BY DEF NoSwitch
<1>2. QueuesType' = QueuesType
    BY DEF QueuesType
<1>3. pc \in [CPUs -> Places] /\ last_context \in [CPUs -> Threads \cup {None}]
    BY DEF TypeInv, TypeOK
<1>4. RunsThread'
    BY <1>1, <1>3 DEF RunsThread, TypeInv
<1> QED BY <1>1, <1>2, <1>3, <1>4 DEF PlaceOK, Places

\* A call that is refused keeps the types.
LEMMA RefusedType == ASSUME TypeInv, NEW c \in CPUs, pc[c] = "user", Refused(c) PROVE TypeInv'
<1>1. PlaceOK'
    BY CallerLemma, NoSwitchPlace DEF Refused
<1>2. RestOK'
    BY TypeHalves DEF Refused, RestOK, cpuVars, mutexVars, LockArg
<1> QED BY <1>1, <1>2, TypeHalves

\* The initial state and every step are well typed.
LEMMA TypeInit == Init => TypeInv
BY SMT, NamesAssumption DEF Init, TypeInv, TypeOK, RunsThread, LockArg, Places, Continuations

\* Every step of every CPU is well typed.
LEMMA TypeStep == TypeInv /\ [Next]_vars => TypeInv'
<1> SUFFICES ASSUME TypeInv, [Next]_vars PROVE TypeInv'
    OBVIOUS
<1> USE TypeHalves
<1>0. CASE UNCHANGED vars
    BY <1>0 DEF vars, TypeInv, TypeOK, RunsThread, LockArg
<1>1. ASSUME NEW c \in CPUs, Resume(c) PROVE TypeInv'
    <2>1. last_context[c] \in Threads /\ Self(c) = last_context[c] /\ pc[c] = "kernel"
        BY <1>1, CallerLemma DEF Resume, Self
    <2>2. PlaceOK'
        BY <1>1, <2>1 DEF Resume, GuardUnlock, PlaceOK, RunsThread, Places, QueuesType
    <2>3. RestOK'
        <3>1. CASE cont[Self(c)] = "lock"
            BY SMT, <1>1, <2>1, <3>1 DEF Resume, RestOK, LockArg, Continuations, cpuVars
        <3>2. CASE cont[Self(c)] # "lock"
            BY <1>1, <2>1, <3>2 DEF Resume, RestOK, LockArg, Continuations, cpuVars
        <3> QED BY <3>1, <3>2
    <2> QED BY <2>2, <2>3
<1>2. ASSUME NEW c \in CPUs, Boot(c) PROVE TypeInv'
    <2>0. cpu_vec' \in Seq(CPUs)
        <3>1. cpu_vec \in Seq(CPUs) /\ cpu_vec' = Append(cpu_vec, c)
            BY <1>2 DEF Boot, TypeInv, TypeOK
        <3> QED BY SMT, <3>1
    <2>1. CASE c = BootCPU
        <3>1. Main \in Threads /\ queue \in QueuesType
            BY NamesAssumption, CallerLemma
        <3>2. PlaceOK'
            BY <1>2, <2>1, <3>1, ReadiedType, SwitchPlace DEF Boot
        <3>3. is_idle' \in [CPUs -> BOOLEAN] /\ ipi' \in [CPUs -> BOOLEAN]
            BY <1>2, <2>1, WakeType DEF Boot, TypeInv
        <3>4. RestOK'
            BY <1>2, <2>0, <2>1, <3>1, <3>3 DEF Boot, RestOK, LockArg, mutexVars
        <3> QED BY <3>2, <3>4
    <2>2. CASE c # BootCPU
        <3>1. PlaceOK'
            BY <1>2, <2>2 DEF Boot, PlaceOK, RunsThread, Places, QueuesType
        <3>2. RestOK'
            BY <1>2, <2>0, <2>2 DEF Boot, RestOK, LockArg, mutexVars
        <3> QED BY <3>1, <3>2
    <2> QED BY <2>1, <2>2
<1>3. ASSUME NEW c \in CPUs, GoldfishTakes(c) PROVE TypeInv'
    <2>1. PlaceOK'
        BY <1>3, CallerLemma, SwitchPlace DEF GoldfishTakes
    <2>2. RestOK'
        BY <1>3 DEF GoldfishTakes, RestOK, LockArg, mutexVars, cpuVars
    <2> QED BY <2>1, <2>2
<1>4. ASSUME NEW c \in CPUs, GoldfishSleeps(c) \/ Suspend(c) \/ DeliverIPI(c) \/ GoldfishLoops(c)
      PROVE TypeInv'
    <2>1. PlaceOK'
        BY <1>4 DEF GoldfishSleeps, Suspend, DeliverIPI, GoldfishLoops, PlaceOK, RunsThread, Places,
                    QueuesType, GuardUnlock
    <2>2. RestOK'
        BY <1>4 DEF GoldfishSleeps, Suspend, DeliverIPI, GoldfishLoops, RestOK, LockArg, mutexVars,
                    cpuVars
    <2> QED BY <2>1, <2>2
<1>5. ASSUME NEW c \in CPUs, Timer(c) PROVE TypeInv'
    <2>1. RestOK'
        BY <1>5 DEF Timer, RestOK, LockArg, mutexVars, cpuVars
    <2>2. pc[c] = "woken" => Self(c) = None
        BY DEF TypeInv, RunsThread, Self
    <2>3. CASE swap_self_to_queue(c, Ready, queue) /\ pc[c] = "user"
        BY <2>1, <2>3, CallerLemma, SwapPlace
    <2>4. CASE NoSwitch(c, queue) /\ pc[c] = "user"
        BY <2>1, <2>4, CallerLemma, NoSwitchPlace
    <2>5. CASE UNCHANGED <<guard, queue, pc, last_context>>
        BY <2>1, <2>5 DEF PlaceOK, RunsThread, QueuesType
    <2> QED BY <1>5, <2>2, <2>3, <2>4, <2>5 DEF Timer
<1>6. ASSUME NEW c \in CPUs, NEW t \in Threads, Create(c, t) PROVE TypeInv'
    <2>1. PlaceOK'
        BY <1>6, CallerLemma, ReadiedType, NoSwitchPlace DEF Create, Calls, MayCall
    <2>2. is_idle' \in [CPUs -> BOOLEAN] /\ ipi' \in [CPUs -> BOOLEAN]
        BY <1>6, WakeType DEF Create, TypeInv
    <2>3. RestOK'
        BY <1>6, <2>2 DEF Create, RestOK, LockArg, mutexVars
    <2> QED BY <2>1, <2>3
<1>7. ASSUME NEW c \in CPUs, NEW t \in Threads, Join(c, t) PROVE TypeInv'
    <2>1. CASE life[t] = "alive"
        <3>1. PlaceOK'
            BY <1>7, <2>1, CallerLemma, SwapPlace DEF Join, Calls, MayCall, Refused
        <3>2. RestOK'
            BY <1>7, <2>1 DEF Join, RestOK, LockArg, mutexVars, cpuVars
        <3> QED BY <3>1, <3>2
    <2>2. CASE life[t] # "alive"
        BY <1>7, <2>2, RefusedType DEF Join, Calls, MayCall
    <2> QED BY <2>1, <2>2
<1>8. ASSUME NEW c \in CPUs, Yield(c) \/ CreateFails(c) PROVE TypeInv'
    <2>1. CASE swap_self_to_queue(c, Ready, queue) /\ Yield(c) /\ queue[Ready] # <<>>
        <3>1. PlaceOK'
            BY <2>1, CallerLemma, SwapPlace DEF Yield, Calls, MayCall
        <3>2. RestOK'
            BY <2>1 DEF Yield, RestOK, LockArg, mutexVars, cpuVars
        <3> QED BY <3>1, <3>2
    <2>2. CASE Refused(c)
        BY <1>8, <2>2, RefusedType DEF Yield, CreateFails, Calls, MayCall
    <2> QED BY <1>8, <2>1, <2>2 DEF Yield, CreateFails
<1>9. ASSUME NEW c \in CPUs, Exit(c) PROVE TypeInv'
    <2>1. Self(c) \in Threads /\ AllReadied(Self(c)) \in QueuesType
        BY <1>9, CallerLemma, AllReadiedLemma DEF Exit, Calls, MayCall, Self
    <2>2. PlaceOK'
        BY <1>9, <2>1, SwitchPlace DEF Exit
    <2>3. is_idle' \in [CPUs -> BOOLEAN] /\ ipi' \in [CPUs -> BOOLEAN]
        BY <1>9, WakeType DEF Exit, TypeInv
    <2>4. RestOK'
        BY <1>9, <2>1, <2>3 DEF Exit, RestOK, LockArg, mutexVars
    <2> QED BY <2>2, <2>4
<1>10. ASSUME NEW c \in CPUs, NEW m \in Mutexes, Lock(c, m) PROVE TypeInv'
    <2>1. Self(c) \in Threads /\ pc[c] = "user"
        BY <1>10, CallerLemma DEF Lock, MayCall, Self
    <2>2. PlaceOK'
        BY <1>10, <2>1, CallerLemma, NoSwitchPlace, SwapPlace DEF Lock
    <2>3. RestOK'
        BY <1>10, <2>1 DEF Lock, RestOK, LockArg, cpuVars, Continuations
    <2> QED BY <2>2, <2>3
<1>11. ASSUME NEW c \in CPUs, NEW m \in Mutexes, Unlock(c, m) PROVE TypeInv'
    <2>1. Self(c) \in Threads /\ pc[c] = "user"
        BY <1>11, CallerLemma DEF Unlock, Calls, MayCall, Self
    <2>2. CASE CanRelease(Self(c), m)
        <3>1. release_lock(Self(c), m) /\ NoSwitch(c, Released(m))
              /\ UNCHANGED <<cpu_vec, to_kill, life, cont, arg>>
            BY <1>11, <2>2 DEF Unlock
        <3>2. /\ Released(m) \in QueuesType
              /\ free' \in [Mutexes -> BOOLEAN]
              /\ owner' \in [Mutexes -> Threads \cup {None}]
              /\ held' \in [Threads -> SUBSET Mutexes]
              /\ is_idle' \in [CPUs -> BOOLEAN] /\ ipi' \in [CPUs -> BOOLEAN]
            BY <2>1, <3>1, ReleaseType DEF TypeInv
        <3>3. PlaceOK'
            BY <2>1, <3>1, <3>2, NoSwitchPlace
        <3>4. RestOK'
            BY <3>1, <3>2 DEF RestOK, LockArg
        <3> QED BY <3>3, <3>4
    <2>3. CASE ~CanRelease(Self(c), m)
        BY <1>11, <2>1, <2>3, RefusedType DEF Unlock
    <2> QED BY <2>2, <2>3
<1>12. ASSUME NEW c \in CPUs, NEW v \in CVs, NEW m \in Mutexes, Wait(c, v, m) PROVE TypeInv'
    <2>1. Self(c) \in Threads /\ pc[c] = "user" /\ v \in Queues
        BY <1>12, CallerLemma DEF Wait, Calls, MayCall, Self
    <2>2. CASE CanRelease(Self(c), m)
        <3>1. /\ release_lock(Self(c), m) /\ swap_self_to_queue(c, v, Released(m))
              /\ UNCHANGED <<cpu_vec, to_kill, life>>
              /\ cont' = [cont EXCEPT ![Self(c)] = "wait"] /\ arg' = [arg EXCEPT ![Self(c)] = m]
            BY <1>12, <2>2 DEF Wait
        <3>2. /\ Released(m) \in QueuesType
              /\ free' \in [Mutexes -> BOOLEAN]
              /\ owner' \in [Mutexes -> Threads \cup {None}]
              /\ held' \in [Threads -> SUBSET Mutexes]
              /\ is_idle' \in [CPUs -> BOOLEAN] /\ ipi' \in [CPUs -> BOOLEAN]
            BY <2>1, <3>1, ReleaseType DEF TypeInv
        <3>3. PlaceOK'
            BY <2>1, <3>1, <3>2, SwapPlace
        <3>4. RestOK'
            BY <2>1, <3>1, <3>2 DEF RestOK, LockArg, Continuations
        <3> QED BY <3>3, <3>4
    <2>3. CASE ~CanRelease(Self(c), m)
        BY <1>12, <2>1, <2>3, RefusedType DEF Wait
    <2> QED BY <2>2, <2>3
<1>13. ASSUME NEW c \in CPUs, NEW v \in CVs, Signal(c, v) PROVE TypeInv'
    <2>1. CASE queue[v] # <<>>
        <3>1. PlaceOK'
            BY <1>13, <2>1, CallerLemma, FirstReadiedLemma, NoSwitchPlace DEF Signal, Calls, MayCall
        <3>2. is_idle' \in [CPUs -> BOOLEAN] /\ ipi' \in [CPUs -> BOOLEAN]
            BY <1>13, <2>1, WakeType DEF Signal, TypeInv
        <3>3. RestOK'
            BY <1>13, <2>1, <3>2 DEF Signal, RestOK, LockArg, mutexVars
        <3> QED BY <3>1, <3>3
    <2>2. CASE queue[v] = <<>>
        BY <1>13, <2>2, RefusedType DEF Signal, Calls, MayCall
    <2> QED BY <2>1, <2>2
<1>14. ASSUME NEW c \in CPUs, NEW v \in CVs, Broadcast(c, v) PROVE TypeInv'
    <2>1. PlaceOK'
        BY <1>14, CallerLemma, AllReadiedLemma, NoSwitchPlace DEF Broadcast, Calls, MayCall
    <2>2. is_idle' \in [CPUs -> BOOLEAN] /\ ipi' \in [CPUs -> BOOLEAN]
        BY <1>14, WakeType DEF Broadcast, TypeInv
    <2>3. RestOK'
        BY <1>14, <2>2 DEF Broadcast, RestOK, LockArg, mutexVars
    <2> QED BY <2>1, <2>3
<1> QED
    BY <1>0, <1>1, <1>2, <1>3, <1>4, <1>5, <1>6, <1>7, <1>8, <1>9, <1>10, <1>11, <1>12, <1>13, <1>14
    DEF Next, Kernel, Application

\* Every variable keeps its type, whatever the application calls and whenever the
\* interrupts come.
THEOREM TypeCorrect == Spec => []TypeOK
<1>1. Spec => []TypeInv
    BY TypeInit, TypeStep, PTL DEF Spec
<1>2. TypeInv => TypeOK
    BY DEF TypeInv
<1> QED BY <1>1, <1>2, PTL

-----------------------------------------------------------------------------
(* Contexts.                                                               *)

\* NoContextTwice and NoContextLost in terms of InQueues.
LEMMA TwiceAndLost ==
    /\ NoContextTwice <=>
        /\ Distinct(queue)
        /\ \A q \in Queues : \A i \in DOMAIN queue[q] :
            life[queue[q][i]] = "alive" /\ \A c \in CPUs : last_context[c] # queue[q][i]
        /\ \A c, d \in CPUs : last_context[c] # None =>
            life[last_context[c]] = "alive" /\ (last_context[c] = last_context[d] => c = d)
    /\ NoContextLost <=>
        \A t \in Threads : life[t] = "alive" =>
            (\E c \in CPUs : last_context[c] = t) \/ InQueues(queue, t)
BY DEF NoContextTwice, NoContextLost, Distinct, InQueues, InQueue

ContextsOK ==
    /\ Distinct(queue)
    /\ \A t \in Threads : InQueues(queue, t) =>
        life[t] = "alive" /\ \A c \in CPUs : last_context[c] # t
    /\ \A c \in CPUs : last_context[c] # None => life[last_context[c]] = "alive"
    /\ \A c, d \in CPUs : last_context[c] # None /\ last_context[c] = last_context[d] => c = d
    /\ \A t \in Threads : life[t] = "alive" =>
        (\E c \in CPUs : last_context[c] = t) \/ InQueues(queue, t)

\* ContextsOK says of the members of queues what the two properties say of
\* their positions.
LEMMA ContextsOKLemma ==
    ASSUME queue \in QueuesType
    PROVE  ContextsOK <=> NoContextTwice /\ NoContextLost
<1>1. \A q \in Queues : \A i \in DOMAIN queue[q] : queue[q][i] \in Threads
    BY SMT DEF QueuesType
<1>2. (\A t \in Threads : InQueues(queue, t) =>
            life[t] = "alive" /\ \A c \in CPUs : last_context[c] # t)
      <=> (\A q \in Queues : \A i \in DOMAIN queue[q] :
            life[queue[q][i]] = "alive" /\ \A c \in CPUs : last_context[c] # queue[q][i])
    BY <1>1 DEF InQueues, InQueue
<1> QED BY <1>2, TwiceAndLost DEF ContextsOK

\* CPU c has the context of thread t, or a queue has it.
Here(Q, x, t) == InQueues(Q, t) \/ x = t

\* The fate of thread t in a step of CPU c: it stays where CPU c can reach it or out of
\* its reach, it is new, or it exits.
Fate(c, t) ==
    \/ /\ life'[t] = life[t]
       /\ Here(queue, last_context[c], t) <=> Here(queue', last_context'[c], t)
    \/ life[t] = "unborn" /\ life'[t] = "alive" /\ Here(queue', last_context'[c], t)
    \/ /\ Here(queue, last_context[c], t) /\ life'[t] = "dead"
       /\ ~Here(queue', last_context'[c], t)

\* A step of one CPU that moves contexts about keeps each of them in one place.
LEMMA FateLemma ==
    ASSUME TypeInv, ContextsOK, NEW c \in CPUs,
           last_context' \in [CPUs -> Threads \cup {None}],
           \A d \in CPUs \ {c} : last_context'[d] = last_context[d],
           Distinct(queue'),
           \A t \in Threads : last_context'[c] = t => ~InQueues(queue', t),
           \A t \in Threads : Fate(c, t)
    PROVE  ContextsOK'
<1>0. /\ last_context \in [CPUs -> Threads \cup {None}] /\ None \notin Threads
      /\ life \in [Threads -> {"unborn", "alive", "dead"}]
    BY CallerLemma DEF TypeInv, TypeOK
<1>1. ASSUME NEW t \in Threads, Here(queue', last_context'[c], t)
      PROVE  life'[t] = "alive" /\ \A d \in CPUs \ {c} : last_context'[d] # t
    BY SMT, <1>0, <1>1 DEF Fate, Here, ContextsOK
<1>2. ASSUME NEW t \in Threads, InQueues(queue', t)
      PROVE  life'[t] = "alive" /\ \A d \in CPUs : last_context'[d] # t
    BY <1>1, <1>2 DEF Here
<1>3. ASSUME NEW d \in CPUs, last_context'[d] # None PROVE life'[last_context'[d]] = "alive"
    <2>1. CASE d = c
        BY <1>1, <1>3, <2>1 DEF Here
    <2>2. CASE d # c
        <3>1. life[last_context[d]] = "alive" /\ last_context'[d] = last_context[d]
              /\ last_context[d] \in Threads
            BY <1>0, <1>3, <2>2 DEF ContextsOK
        <3>2. ~Here(queue, last_context[c], last_context[d])
            BY <1>0, <2>2, <3>1 DEF ContextsOK, Here
        <3> QED BY <3>1, <3>2 DEF Fate
    <2> QED BY <2>1, <2>2
<1>4. ASSUME NEW d \in CPUs, NEW e \in CPUs, last_context'[d] # None,
             last_context'[d] = last_context'[e]
      PROVE  d = e
    <2>1. CASE d # c /\ e # c
        BY <1>4, <2>1 DEF ContextsOK
    <2>2. CASE d = c \/ e = c
        BY <1>1, <1>4, <2>2 DEF Here
    <2> QED BY <2>1, <2>2
<1>5. ASSUME NEW t \in Threads, life'[t] = "alive"
      PROVE  (\E d \in CPUs : last_context'[d] = t) \/ InQueues(queue', t)
    <2>1. CASE Here(queue', last_context'[c], t)
        BY <2>1 DEF Here
    <2>2. CASE ~Here(queue', last_context'[c], t)
        <3>1. life[t] = "alive" /\ ~Here(queue, last_context[c], t)
            BY <1>5, <2>2 DEF Fate
        <3>2. PICK d \in CPUs : last_context[d] = t
            BY <3>1 DEF ContextsOK, Here
        <3>3. d # c
            BY <3>1, <3>2 DEF Here
        <3> QED BY <3>2, <3>3
    <2> QED BY <2>1, <2>2
<1>6. \A t \in Threads : InQueues(queue, t)' <=> InQueues(queue', t)
    BY DEF InQueues, InQueue, Queues
<1>7. Distinct(queue)'
    BY DEF Distinct, Queues
<1> QED BY <1>2, <1>3, <1>4, <1>5, <1>6, <1>7 DEF ContextsOK

\* A call that queues its own context and takes the next one (swap_self_to_queue,
\* cpu.cpp:13-31) keeps every context in one place.
LEMMA SwapContexts ==
    ASSUME TypeInv, ContextsOK, NEW c \in CPUs, pc[c] = "user", NEW q \in Queues,
           NEW Q \in QueuesType, SameContexts(queue, Q), Distinct(Q),
           swap_self_to_queue(c, q, Q), life' = life
    PROVE  ContextsOK'
<1>1. last_context[c] \in Threads /\ last_context \in [CPUs -> Threads \cup {None}]
      /\ pc \in [CPUs -> Places]
    BY CallerLemma
<1>2. ~InQueues(Q, last_context[c])
    BY <1>1 DEF SameContexts, ContextsOK
<1>3. /\ last_context' \in [CPUs -> Threads \cup {None}]
      /\ \A d \in CPUs \ {c} : last_context'[d] = last_context[d]
      /\ \A t \in Threads :
            InQueues(Q, t) \/ last_context[c] = t <=> InQueues(queue', t) \/ last_context'[c] = t
      /\ Distinct(queue')
      /\ \A t \in Threads : last_context'[c] = t => ~InQueues(queue', t)
    BY <1>1, <1>2, SwapLemma
<1>4. \A t \in Threads : Fate(c, t)
    BY <1>3 DEF Fate, Here, SameContexts
<1> QED BY <1>3, <1>4, FateLemma

\* So does a call that only moves contexts from queue to queue.
LEMMA NoSwitchContexts ==
    ASSUME TypeInv, ContextsOK, NEW c \in CPUs, NEW Q \in QueuesType, SameContexts(queue, Q),
           Distinct(Q), NoSwitch(c, Q), life' = life
    PROVE  ContextsOK'
<1>1. queue' = Q /\ last_context' = last_context
      /\ last_context \in [CPUs -> Threads \cup {None}]
    BY CallerLemma DEF NoSwitch
<1>2. \A t \in Threads : Fate(c, t)
    BY <1>1 DEF Fate, Here, SameContexts
<1>3. \A t \in Threads : last_context'[c] = t => ~InQueues(queue', t)
    BY <1>1 DEF SameContexts, ContextsOK
<1> QED BY <1>1, <1>2, <1>3, FateLemma

\* release_lock (mutex.cpp:42-68) moves the first waiter and loses no context.
LEMMA ReleasedContexts ==
    ASSUME TypeInv, ContextsOK, NEW m \in Mutexes
    PROVE  Released(m) \in QueuesType /\ SameContexts(queue, Released(m)) /\ Distinct(Released(m))
<1>1. queue \in QueuesType /\ m \in Queues \ {Ready} /\ Distinct(queue)
    <2>1. CPUs # {}
        BY NamesAssumption
    <2> QED BY <2>1, CallerLemma DEF ContextsOK
<1>2. SameContexts(queue, queue)
    BY DEF SameContexts
<1> QED BY <1>1, <1>2, FirstReadiedLemma DEF Released

\* The main thread does not exist before the boot CPU makes it.
MainUnborn == pc[BootCPU] = "off" => life[Main] = "unborn"

\* Every step keeps every context in one place.
LEMMA ContextsStep == TypeInv /\ ContextsOK /\ MainUnborn /\ [Next]_vars => ContextsOK'
<1> SUFFICES ASSUME TypeInv, ContextsOK, MainUnborn, [Next]_vars PROVE ContextsOK'
    OBVIOUS
<1>a. SameContexts(queue, queue) /\ Distinct(queue)
    BY DEF SameContexts, ContextsOK
<1>b. ASSUME NEW c \in CPUs, Refused(c) PROVE ContextsOK'
    BY <1>a, <1>b, CallerLemma, NoSwitchContexts DEF Refused
<1>c. ASSUME UNCHANGED <<queue, last_context, life>> PROVE ContextsOK'
    BY SMT, <1>c DEF ContextsOK, InQueues, InQueue, Distinct
<1>d. /\ queue \in QueuesType /\ last_context \in [CPUs -> Threads \cup {None}]
      /\ pc \in [CPUs -> Places] /\ None \notin Threads /\ Ready \in Queues
      /\ life \in [Threads -> {"unborn", "alive", "dead"}]
    BY CallerLemma, NamesAssumption DEF TypeInv, TypeOK
<1>1. ASSUME NEW c \in CPUs, Boot(c) PROVE ContextsOK'
    <2>1. CASE c = BootCPU
        <3> DEFINE Q == Push(queue, Ready, Main)
        <3>1. Main \in Threads /\ life[Main] = "unborn" /\ last_context[c] = None
            BY <1>1, <2>1, NamesAssumption DEF Boot, MainUnborn, TypeInv, RunsThread
        <3>2. SwitchFrom(c, Q) /\ life' = [life EXCEPT ![Main] = "alive"]
            BY <1>1, <1>d, <2>1, <3>1, ReadiedType DEF Boot
        <3>3. ~InQueues(queue, Main)
            BY <3>1 DEF ContextsOK
        <3>4. Q \in QueuesType /\ Distinct(Q)
              /\ \A t \in Threads : InQueues(Q, t) <=> InQueues(queue, t) \/ t = Main
            BY <1>a, <1>d, <3>1, <3>3, PushLemma
        <3> HIDE DEF Q
        <3>5. /\ last_context' \in [CPUs -> Threads \cup {None}]
              /\ \A d \in CPUs \ {c} : last_context'[d] = last_context[d]
              /\ \A t \in Threads : InQueues(Q, t) <=> InQueues(queue', t) \/ last_context'[c] = t
              /\ Distinct(queue')
              /\ \A t \in Threads : last_context'[c] = t => ~InQueues(queue', t)
            BY <1>d, <3>2, <3>4, SwitchFromLemma
        <3>6. \A t \in Threads : Fate(c, t)
            BY <1>d, <3>1, <3>2, <3>4, <3>5 DEF Fate, Here
        <3> QED BY <3>5, <3>6, FateLemma
    <2>2. CASE c # BootCPU
        BY <1>1, <1>c, <2>2 DEF Boot
    <2> QED BY <2>1, <2>2
<1>2. ASSUME NEW c \in CPUs, GoldfishTakes(c) PROVE ContextsOK'
    <2>1. SwitchFrom(c, queue) /\ life' = life /\ last_context[c] = None
        BY <1>2 DEF GoldfishTakes, TypeInv, RunsThread
    <2>2. /\ last_context' \in [CPUs -> Threads \cup {None}]
          /\ \A d \in CPUs \ {c} : last_context'[d] = last_context[d]
          /\ \A t \in Threads : InQueues(queue, t) <=> InQueues(queue', t) \/ last_context'[c] = t
          /\ Distinct(queue')
          /\ \A t \in Threads : last_context'[c] = t => ~InQueues(queue', t)
        BY <1>a, <1>d, <2>1, SwitchFromLemma
    <2>3. \A t \in Threads : Fate(c, t)
        BY <1>d, <2>1, <2>2 DEF Fate, Here
    <2> QED BY <2>2, <2>3, FateLemma
<1>3. ASSUME NEW c \in CPUs,
             Resume(c) \/ GoldfishSleeps(c) \/ Suspend(c) \/ DeliverIPI(c) \/ GoldfishLoops(c)
      PROVE  ContextsOK'
    BY <1>3, <1>c DEF Resume, GoldfishSleeps, Suspend, DeliverIPI, GoldfishLoops
<1>4. ASSUME NEW c \in CPUs, Timer(c) PROVE ContextsOK'
    <2>1. life' = life /\ (pc[c] = "woken" => Self(c) = None)
        BY <1>4 DEF Timer, TypeInv, RunsThread, Self
    <2>2. CASE swap_self_to_queue(c, Ready, queue) /\ pc[c] = "user"
        BY <1>a, <1>d, <2>1, <2>2, SwapContexts
    <2>3. CASE NoSwitch(c, queue)
        BY <1>a, <1>d, <2>1, <2>3, NoSwitchContexts
    <2>4. CASE UNCHANGED <<guard, queue, pc, last_context>>
        BY <1>c, <2>1, <2>4
    <2> QED BY <1>4, <2>1, <2>2, <2>3, <2>4 DEF Timer
<1>5. ASSUME NEW c \in CPUs, NEW x \in Threads, Create(c, x) PROVE ContextsOK'
    <2> DEFINE Q == Push(queue, Ready, x)
    <2>1. queue' = Q /\ last_context' = last_context /\ life' = [life EXCEPT ![x] = "alive"]
          /\ life[x] = "unborn"
        BY <1>5, <1>d, ReadiedType DEF Create, NoSwitch
    <2>2. ~InQueues(queue, x) /\ \A d \in CPUs : last_context[d] # x
        BY <1>d, <2>1 DEF ContextsOK
    <2>3. Distinct(Q) /\ \A t \in Threads : InQueues(Q, t) <=> InQueues(queue, t) \/ t = x
        BY <1>a, <1>d, <2>2, PushLemma
    <2> HIDE DEF Q
    <2>4. \A t \in Threads : Fate(c, t)
        BY <1>d, <2>1, <2>3 DEF Fate, Here
    <2>5. \A t \in Threads : last_context'[c] = t => ~InQueues(queue', t)
        BY <2>1, <2>2, <2>3 DEF ContextsOK
    <2> QED BY <1>d, <2>1, <2>3, <2>4, <2>5, FateLemma
<1>6. ASSUME NEW c \in CPUs, NEW t \in Threads, Join(c, t) PROVE ContextsOK'
    <2>1. CASE life[t] = "alive"
        BY <1>6, <1>a, <1>b, <2>1, CallerLemma, SwapContexts DEF Join, Calls, MayCall
    <2>2. CASE life[t] # "alive"
        BY <1>6, <1>b, <2>2 DEF Join
    <2> QED BY <2>1, <2>2
<1>7. ASSUME NEW c \in CPUs, Yield(c) \/ CreateFails(c) PROVE ContextsOK'
    <2>1. CASE Refused(c)
        BY <1>b, <2>1
    <2>2. CASE Yield(c) /\ ~Refused(c)
        BY <1>a, <1>d, <2>2, SwapContexts DEF Yield, Calls, MayCall
    <2> QED BY <1>7, <2>1, <2>2 DEF CreateFails
<1>8. ASSUME NEW c \in CPUs, Exit(c) PROVE ContextsOK'
    <2> DEFINE x == last_context[c]
               Q == AllReadied(x)
    <2>1. x \in Threads /\ x \in Queues \ {Ready}
        BY <1>8, CallerLemma DEF Exit, Calls, MayCall
    <2>2. SwitchFrom(c, Q) /\ life' = [life EXCEPT ![x] = "dead"]
        BY <1>8 DEF Exit, Self
    <2>3. Q \in QueuesType /\ SameContexts(queue, Q) /\ Distinct(Q)
        BY <1>a, <1>d, <2>1, AllReadiedLemma
    <2> HIDE DEF Q
    <2>4. /\ last_context' \in [CPUs -> Threads \cup {None}]
          /\ \A d \in CPUs \ {c} : last_context'[d] = last_context[d]
          /\ \A t \in Threads : InQueues(Q, t) <=> InQueues(queue', t) \/ last_context'[c] = t
          /\ Distinct(queue')
          /\ \A t \in Threads : last_context'[c] = t => ~InQueues(queue', t)
        BY <1>d, <2>2, <2>3, SwitchFromLemma
    <2>5. ~InQueues(queue, x)
        BY <2>1 DEF ContextsOK
    <2>6. \A t \in Threads : Fate(c, t)
        BY <1>d, <2>1, <2>2, <2>3, <2>4, <2>5 DEF Fate, Here, SameContexts
    <2> QED BY <2>4, <2>6, FateLemma
<1>9. ASSUME NEW c \in CPUs, NEW m \in Mutexes, Lock(c, m) PROVE ContextsOK'
    <2>1. life' = life /\ pc[c] = "user" /\ m \in Queues
        BY <1>9, CallerLemma DEF Lock, MayCall
    <2> QED BY <1>9, <1>a, <1>d, <2>1, SwapContexts, NoSwitchContexts DEF Lock
<1>10. ASSUME NEW c \in CPUs, NEW m \in Mutexes, Unlock(c, m) PROVE ContextsOK'
    <2>1. CASE CanRelease(Self(c), m)
        BY <1>10, <2>1, ReleasedContexts, NoSwitchContexts DEF Unlock
    <2>2. CASE ~CanRelease(Self(c), m)
        BY <1>10, <1>b, <2>2 DEF Unlock
    <2> QED BY <2>1, <2>2
<1>11. ASSUME NEW c \in CPUs, NEW v \in CVs, NEW m \in Mutexes, Wait(c, v, m) PROVE ContextsOK'
    <2>1. CASE CanRelease(Self(c), m)
        <3>1. swap_self_to_queue(c, v, Released(m)) /\ life' = life /\ pc[c] = "user" /\ v \in Queues
            BY <1>11, <2>1, CallerLemma DEF Wait, Calls, MayCall
        <3> QED BY <3>1, ReleasedContexts, SwapContexts
    <2>2. CASE ~CanRelease(Self(c), m)
        BY <1>11, <1>b, <2>2 DEF Wait
    <2> QED BY <2>1, <2>2
<1>12. ASSUME NEW c \in CPUs, NEW v \in CVs, Signal(c, v) PROVE ContextsOK'
    <2>1. CASE queue[v] # <<>>
        BY <1>12, <1>a, <1>d, <2>1, CallerLemma, FirstReadiedLemma, NoSwitchContexts DEF Signal
    <2>2. CASE queue[v] = <<>>
        BY <1>12, <1>b, <2>2 DEF Signal
    <2> QED BY <2>1, <2>2
<1>13. ASSUME NEW c \in CPUs, NEW v \in CVs, Broadcast(c, v) PROVE ContextsOK'
    BY <1>13, <1>a, <1>d, CallerLemma, AllReadiedLemma, NoSwitchContexts DEF Broadcast
<1>14. CASE UNCHANGED vars
    BY <1>c, <1>14 DEF vars
<1> QED
    BY <1>1, <1>2, <1>3, <1>4, <1>5, <1>6, <1>7, <1>8, <1>9, <1>10, <1>11, <1>12, <1>13, <1>14
    DEF Next, Kernel, Application


-----------------------------------------------------------------------------
(* The guard, the stacks and the joiners.                                  *)

\* What a step of CPU c does to the guard and to the places of the CPUs.
LEMMA PcStep ==
    ASSUME TypeInv, GuardHeld, NEW c \in CPUs, Kernel(c) \/ Timer(c) \/ Application(c)
    PROVE  /\ \A d \in CPUs \ {c} : pc'[d] = pc[d]
           /\ pc'[c] # "off"
           /\ pc'[c] \in {"kernel", "goldfish"} <=> guard' = c
           /\ guard' = guard \/ (guard' \in {None, c} /\ guard \in {None, c})
<1> DEFINE Goal == /\ \A d \in CPUs \ {c} : pc'[d] = pc[d]
                   /\ pc'[c] # "off"
                   /\ pc'[c] \in {"kernel", "goldfish"} <=> guard' = c
                   /\ guard' = guard \/ (guard' \in {None, c} /\ guard \in {None, c})
<1>0. pc \in [CPUs -> Places] /\ None \notin CPUs
    BY CallerLemma
<1>1. ASSUME NEW Q, SwitchFrom(c, Q), guard \in {None, c} PROVE Goal
    BY <1>0, <1>1 DEF SwitchFrom
<1>2. ASSUME NEW Q, NoSwitch(c, Q), guard = None PROVE Goal
    BY <1>0, <1>2 DEF NoSwitch
<1>3. ASSUME NEW Q, NEW q, swap_self_to_queue(c, q, Q), guard = None PROVE Goal
    BY <1>1, <1>3 DEF swap_self_to_queue
<1>4. ASSUME Refused(c), guard = None PROVE Goal
    BY <1>2, <1>4 DEF Refused
<1>5. ASSUME Resume(c) \/ GoldfishSleeps(c) \/ GoldfishLoops(c) \/ Suspend(c) \/ DeliverIPI(c)
      PROVE  Goal
    BY <1>0, <1>5 DEF Resume, GoldfishSleeps, GoldfishLoops, Suspend, DeliverIPI, GuardUnlock, GuardHeld
<1>6. ASSUME Boot(c) PROVE Goal
    BY <1>0, <1>1, <1>6 DEF Boot
<1>7. ASSUME GoldfishTakes(c) PROVE Goal
    BY <1>1, <1>7 DEF GoldfishTakes, GuardHeld
<1>8. ASSUME Timer(c) PROVE Goal
    <2>1. CASE UNCHANGED <<guard, queue, pc, last_context>> /\ pc[c] = "woken"
        BY <1>0, <1>8, <2>1 DEF Timer
    <2>2. CASE ~(UNCHANGED <<guard, queue, pc, last_context>> /\ pc[c] = "woken")
        BY <1>2, <1>3, <1>8, <2>2 DEF Timer
    <2> QED BY <2>1, <2>2
<1>9. ASSUME NEW t \in Threads, Create(c, t) \/ Join(c, t) PROVE Goal
    BY <1>2, <1>3, <1>4, <1>9 DEF Create, Join, Calls, MayCall
<1>10. ASSUME CreateFails(c) \/ Yield(c) \/ Exit(c) PROVE Goal
    BY <1>1, <1>3, <1>4, <1>10 DEF CreateFails, Yield, Exit, Calls, MayCall
<1>11. ASSUME NEW m \in Mutexes, Lock(c, m) \/ Unlock(c, m) PROVE Goal
    BY <1>2, <1>3, <1>4, <1>11 DEF Lock, Unlock, Calls, MayCall
<1>12. ASSUME NEW m \in Mutexes, NEW v \in CVs, Wait(c, v, m) PROVE Goal
    BY <1>3, <1>4, <1>12 DEF Wait, Calls, MayCall
<1>13. ASSUME NEW v \in CVs, Signal(c, v) \/ Broadcast(c, v) PROVE Goal
    BY <1>2, <1>4, <1>13 DEF Signal, Broadcast, Calls, MayCall
<1> QED
    BY <1>5, <1>6, <1>7, <1>8, <1>9, <1>10, <1>11, <1>12, <1>13 DEF Kernel, Application

\* Every step passes the guard on, or leaves it with the CPU that holds it.
LEMMA GuardStep == TypeInv /\ GuardHeld /\ [Next]_vars => GuardHeld'
<1> SUFFICES ASSUME TypeInv, GuardHeld, [Next]_vars PROVE GuardHeld'
    OBVIOUS
<1>0. guard \in CPUs \cup {None} /\ None \notin CPUs
    BY NamesAssumption DEF TypeInv, TypeOK
<1>1. ASSUME NEW c \in CPUs, Kernel(c) \/ Timer(c) \/ Application(c) PROVE GuardHeld'
    BY SMT, <1>0, <1>1, PcStep DEF GuardHeld
<1>2. CASE UNCHANGED vars
    BY <1>2 DEF vars, GuardHeld
<1> QED BY <1>1, <1>2 DEF Next

\* Threads are made by Create and Boot, and end in Exit.
LEMMA LifeStep ==
    ASSUME TypeInv, ContextsOK, NEW c \in CPUs, Kernel(c) \/ Timer(c) \/ Application(c)
    PROVE  \/ life' = life /\ to_kill' \in {to_kill, [to_kill EXCEPT ![c] = None]}
           \/ /\ c = BootCPU /\ pc[c] = "off" /\ life' = [life EXCEPT ![Main] = "alive"]
              /\ to_kill' = to_kill
           \/ \E t \in Threads : /\ t # Main /\ life[t] = "unborn" /\ to_kill' = to_kill
                                 /\ life' = [life EXCEPT ![t] = "alive"]
           \/ \E t \in Threads : /\ Exit(c) /\ t = last_context[c] /\ life[t] = "alive"
                                 /\ life' = [life EXCEPT ![t] = "dead"]
                                 /\ to_kill' = [to_kill EXCEPT ![c] = t]
<1>1. ASSUME Exit(c)
      PROVE  \E t \in Threads : /\ t = last_context[c] /\ life[t] = "alive"
                                /\ life' = [life EXCEPT ![t] = "dead"]
                                /\ to_kill' = [to_kill EXCEPT ![c] = t]
    <2>1. last_context[c] \in Threads /\ last_context[c] # None
        BY <1>1, CallerLemma DEF Exit, Calls, MayCall
    <2> QED BY <1>1, <2>1 DEF Exit, Self, ContextsOK
<1> QED
    BY <1>1 DEF Kernel, Application, Resume, Boot, GoldfishTakes, GoldfishSleeps, GoldfishLoops,
        Suspend, DeliverIPI, Timer, Create, Refused, CreateFails, Join, Yield, Lock, Unlock, Wait,
        Signal, Broadcast

\* Only the boot CPU makes the main thread.
LEMMA MainStep == TypeInv /\ GuardHeld /\ ContextsOK /\ MainUnborn /\ [Next]_vars => MainUnborn'
<1> SUFFICES ASSUME TypeInv, GuardHeld, ContextsOK, MainUnborn, [Next]_vars PROVE MainUnborn'
    OBVIOUS
<1>1. ASSUME NEW c \in CPUs, Kernel(c) \/ Timer(c) \/ Application(c) PROVE MainUnborn'
    <2>1. pc'[BootCPU] = "off" => pc[BootCPU] = "off" /\ c # BootCPU
        BY <1>1, PcStep, NamesAssumption
    <2>2. life \in [Threads -> {"unborn", "alive", "dead"}] /\ Main \in Threads
        BY NamesAssumption DEF TypeInv, TypeOK
    <2> QED BY SMT, <1>1, <2>1, <2>2, LifeStep DEF MainUnborn
<1>2. CASE UNCHANGED vars
    BY <1>2 DEF vars, MainUnborn
<1> QED BY <1>1, <1>2 DEF Next

\* Every step keeps the stacks of finished threads for one CPU to free
\* (wrapped_function, thread.cpp:16-57).
LEMMA StacksStep ==
    TypeInv /\ ContextsOK /\ MainUnborn /\ StacksFreedOnce /\ [Next]_vars => StacksFreedOnce'
<1> SUFFICES ASSUME TypeInv, ContextsOK, MainUnborn, StacksFreedOnce, [Next]_vars
             PROVE  StacksFreedOnce'
    OBVIOUS
<1>0. /\ life \in [Threads -> {"unborn", "alive", "dead"}] /\ Main \in Threads
      /\ to_kill \in [CPUs -> Threads \cup {None}]
    BY NamesAssumption DEF TypeInv, TypeOK
<1>1. ASSUME NEW c \in CPUs, Kernel(c) \/ Timer(c) \/ Application(c)
      PROVE  StacksFreedOnce'
    <2>1. CASE life' = life /\ to_kill' \in {to_kill, [to_kill EXCEPT ![c] = None]}
        BY <1>0, <2>1 DEF StacksFreedOnce
    <2>2. ASSUME NEW t \in Threads, to_kill' = to_kill, life' = [life EXCEPT ![t] = "alive"],
                 \A d \in CPUs : to_kill[d] # t
          PROVE  StacksFreedOnce'
        BY <1>0, <2>2 DEF StacksFreedOnce
    <2>3. ASSUME NEW t \in Threads, life[t] = "alive", life' = [life EXCEPT ![t] = "dead"],
                 to_kill' = [to_kill EXCEPT ![c] = t]
          PROVE  StacksFreedOnce'
        <3>1. \A d \in CPUs : to_kill[d] # t
            BY <2>3, NamesAssumption DEF StacksFreedOnce
        <3> QED BY <1>0, <2>3, <3>1 DEF StacksFreedOnce
    <2>4. ASSUME NEW t \in Threads, life[t] = "unborn" PROVE \A d \in CPUs : to_kill[d] # t
        BY <2>4, NamesAssumption DEF StacksFreedOnce
    <2>5. c = BootCPU /\ pc[c] = "off" => life[Main] = "unborn"
        BY SMT DEF MainUnborn
    <2>6. CASE c = BootCPU /\ pc[c] = "off" /\ life' = [life EXCEPT ![Main] = "alive"]
               /\ to_kill' = to_kill
        BY <1>0, <2>2, <2>4, <2>5, <2>6
    <2>7. CASE \E t \in Threads : /\ t # Main /\ life[t] = "unborn" /\ to_kill' = to_kill
                                  /\ life' = [life EXCEPT ![t] = "alive"]
        BY <2>2, <2>4, <2>7
    <2>8. CASE \E t \in Threads : /\ life[t] = "alive" /\ life' = [life EXCEPT ![t] = "dead"]
                                  /\ to_kill' = [to_kill EXCEPT ![c] = t]
        BY <2>3, <2>8
    <2> QED BY <1>1, <2>1, <2>6, <2>7, <2>8, LifeStep
<1>2. CASE UNCHANGED vars
    BY <1>2 DEF vars, StacksFreedOnce
<1> QED BY <1>1, <1>2 DEF Next

\* A step changes no queues but those of S and the ready queue.
Touches(S) == \A q \in Queues \ (S \cup {Ready}) : queue'[q] = queue[q]

\* Which queues each call touches.
LEMMA QueuesStep ==
    ASSUME TypeInv, NEW c \in CPUs, Kernel(c) \/ Timer(c) \/ Application(c)
    PROVE  /\ \/ Touches({})
              \/ \E t \in Threads : life[t] = "alive" /\ Touches({t})
              \/ Exit(c) /\ Touches({last_context[c]})
              \/ \E m \in Mutexes : Touches({m}) /\ (Lock(c, m) \/ Unlock(c, m))
              \/ \E m \in Mutexes, v \in CVs : Touches({m, v}) /\ Wait(c, v, m)
              \/ \E v \in CVs : Touches({v})
           /\ Exit(c) => queue'[last_context[c]] = <<>>
<1>0. /\ queue \in QueuesType /\ last_context \in [CPUs -> Threads \cup {None}]
      /\ pc \in [CPUs -> Places] /\ Main \in Threads /\ Ready \in Queues
    BY CallerLemma, NamesAssumption
<1>1. ASSUME NEW S, NEW Q \in QueuesType, \A q \in Queues \ (S \cup {Ready}) : Q[q] = queue[q],
             SwitchFrom(c, Q) \/ NoSwitch(c, Q)
      PROVE  Touches(S)
    BY <1>0, <1>1, SwitchFromLemma DEF NoSwitch, Touches
<1>2. ASSUME NEW S, NEW Q \in QueuesType, \A q \in Queues \ (S \cup {Ready}) : Q[q] = queue[q],
             NEW r \in Queues, pc[c] = "user", swap_self_to_queue(c, r, Q), r \in S \cup {Ready}
      PROVE  Touches(S)
    <2>1. last_context[c] \in Threads
        BY <1>2, CallerLemma
    <2>2. \A q \in Queues \ {r, Ready} : queue'[q] = Q[q]
        BY SMT, <1>0, <1>2, <2>1, SwapLemma
    <2> QED BY <1>2, <2>2 DEF Touches
<1>3. ASSUME Refused(c) PROVE Touches({})
    BY <1>3 DEF Refused, NoSwitch, Touches
<1>4. ASSUME NEW S, Touches({}) PROVE Touches(S)
    BY <1>4 DEF Touches
<1>5. ASSUME NEW x \in Threads
      PROVE  /\ Readied(queue, <<x>>) \in QueuesType
             /\ \A q \in Queues \ ({} \cup {Ready}) : Readied(queue, <<x>>)[q] = queue[q]
    BY <1>0, ReadiedType
<1>6. ASSUME Kernel(c) PROVE Touches({})
    <2>1. CASE Boot(c)
        <3>1. CASE c = BootCPU
            BY <1>0, <1>1, <1>5, <2>1, <3>1 DEF Boot
        <3>2. CASE c # BootCPU
            BY <2>1, <3>2 DEF Boot, Touches
        <3> QED BY <3>1, <3>2
    <2>2. CASE GoldfishTakes(c)
        BY <1>0, <1>1, <2>2 DEF GoldfishTakes
    <2>3. CASE Resume(c) \/ GoldfishSleeps(c) \/ GoldfishLoops(c) \/ Suspend(c) \/ DeliverIPI(c)
        BY <2>3 DEF Resume, GoldfishSleeps, GoldfishLoops, Suspend, DeliverIPI, Touches
    <2> QED BY <1>6, <2>1, <2>2, <2>3 DEF Kernel
<1>7. ASSUME Timer(c) PROVE Touches({})
    <2>1. pc[c] = "woken" => Self(c) = None
        BY DEF TypeInv, RunsThread, Self
    <2>2. CASE swap_self_to_queue(c, Ready, queue) /\ pc[c] = "user"
        BY <1>0, <1>2, <2>2
    <2>3. CASE NoSwitch(c, queue)
        BY <1>0, <1>1, <2>3
    <2>4. CASE UNCHANGED <<guard, queue, pc, last_context>>
        BY <2>4 DEF Touches
    <2> QED BY <1>7, <2>1, <2>2, <2>3, <2>4 DEF Timer
<1>8. ASSUME NEW x \in Threads, Create(c, x) PROVE Touches({})
    BY <1>1, <1>5, <1>8 DEF Create
<1>9. ASSUME NEW x \in Threads, Join(c, x)
      PROVE  Touches({}) \/ (life[x] = "alive" /\ Touches({x}))
    <2>1. x \in Queues
        BY CallerLemma
    <2> QED BY <1>0, <1>2, <1>3, <1>9, <2>1 DEF Join, Calls, MayCall
<1>10. ASSUME CreateFails(c) \/ Yield(c) PROVE Touches({})
    BY <1>0, <1>2, <1>3, <1>10 DEF CreateFails, Yield, Calls, MayCall
<1>11. ASSUME Exit(c) PROVE queue'[last_context[c]] = <<>> /\ Touches({last_context[c]})
    <2> DEFINE x == last_context[c]
    <2>1. x \in Queues \ {Ready} /\ SwitchFrom(c, AllReadied(x))
        BY <1>11, CallerLemma DEF Exit, Calls, MayCall, Self
    <2>2. /\ AllReadied(x) \in QueuesType /\ AllReadied(x)[x] = <<>>
          /\ \A r \in Queues \ {x, Ready} : AllReadied(x)[r] = queue[r]
        BY <1>0, <2>1, AllReadiedLemma
    <2>3. queue'[x] = <<>>
        BY <1>0, <2>1, <2>2, SwitchFromLemma
    <2> QED BY <1>1, <2>1, <2>2, <2>3
<1>12. ASSUME NEW m \in Mutexes
       PROVE  /\ m \in Queues \ {Ready} /\ Released(m) \in QueuesType
              /\ \A q \in Queues \ {m, Ready} : Released(m)[q] = queue[q]
    BY <1>0, FirstReadiedLemma, CallerLemma DEF Released
<1>13. ASSUME NEW m \in Mutexes, Lock(c, m) \/ Unlock(c, m) PROVE Touches({m})
    <2>1. CASE Lock(c, m)
        BY <1>0, <1>1, <1>2, <1>12, <2>1 DEF Lock, MayCall
    <2>2. CASE Unlock(c, m)
        BY <1>1, <1>3, <1>4, <1>12, <2>2 DEF Unlock
    <2> QED BY <1>13, <2>1, <2>2
<1>14. ASSUME NEW m \in Mutexes, NEW v \in CVs, Wait(c, v, m) PROVE Touches({m, v})
    <2>1. v \in Queues
        BY CallerLemma
    <2> QED BY <1>2, <1>3, <1>4, <1>12, <1>14, <2>1 DEF Wait, Calls, MayCall
<1>15. ASSUME NEW v \in CVs, Signal(c, v) \/ Broadcast(c, v) PROVE Touches({v})
    <2>1. v \in Queues \ {Ready}
        BY CallerLemma
    <2>2. /\ AllReadied(v) \in QueuesType
          /\ \A q \in Queues \ {v, Ready} : AllReadied(v)[q] = queue[q]
          /\ queue[v] # <<>> => /\ FirstReadied(v) \in QueuesType
                                /\ \A q \in Queues \ {v, Ready} : FirstReadied(v)[q] = queue[q]
        BY <1>0, <2>1, FirstReadiedLemma, AllReadiedLemma
    <2> QED BY <1>1, <1>3, <1>4, <1>15, <2>2 DEF Signal, Broadcast
<1> QED BY <1>6, <1>7, <1>8, <1>9, <1>10, <1>11, <1>13, <1>14, <1>15 DEF Application

\* Every step leaves no joiner on a finished thread (thread.cpp:100-113 against
\* the exit in thread.cpp:16-57).
LEMMA JoinersStep ==
    TypeInv /\ ContextsOK /\ MainUnborn /\ JoinersReleased /\ [Next]_vars => JoinersReleased'
<1> SUFFICES ASSUME TypeInv, ContextsOK, MainUnborn, JoinersReleased, [Next]_vars
             PROVE  JoinersReleased'
    OBVIOUS
<1>0. /\ life \in [Threads -> {"unborn", "alive", "dead"}] /\ Main \in Threads
      /\ Threads \subseteq Queues \ {Ready} /\ Threads \cap Mutexes = {} /\ Threads \cap CVs = {}
    BY CallerLemma, NamesAssumption, QueuesAssumption DEF TypeInv, TypeOK
<1>1. ASSUME NEW c \in CPUs, Kernel(c) \/ Timer(c) \/ Application(c) PROVE JoinersReleased'
    <2>1. \A t \in Threads : queue'[t] # <<>> => life[t] = "alive" /\ ~(Exit(c) /\ t = last_context[c])
        <3>1. SUFFICES ASSUME NEW t \in Threads, queue'[t] # <<>>, ~(Exit(c) /\ t = last_context[c])
                       PROVE  life[t] = "alive"
            BY <1>1, QueuesStep
        <3>2. queue'[t] = queue[t] \/ life[t] = "alive"
            BY <1>0, <1>1, <3>1, QueuesStep DEF Touches
        <3> QED BY <3>1, <3>2 DEF JoinersReleased
    <2>2. \A t \in Threads :
            life[t] = "alive" /\ ~(Exit(c) /\ t = last_context[c]) => life'[t] = "alive"
        <3>1. \/ life' = life
              \/ \E t \in Threads : life' = [life EXCEPT ![t] = "alive"]
              \/ \E t \in Threads : /\ Exit(c) /\ t = last_context[c]
                                    /\ life' = [life EXCEPT ![t] = "dead"]
            BY <1>0, <1>1, LifeStep
        <3> QED BY <1>0, <3>1
    <2> QED BY <2>1, <2>2 DEF JoinersReleased
<1>2. CASE UNCHANGED vars
    BY <1>2 DEF vars, JoinersReleased
<1> QED BY <1>1, <1>2 DEF Next

(* Mutexes.                                                                *)

\* Thread t has asked for mutex m and is not in its queue: it is about to own it.
Pending(t, m) == cont[t] = "lock" /\ arg[t] = m /\ ~InQueue(queue, m, t)

\* A running thread is in the application, or in cv::wait before it relocks.
UserCont == \A c \in CPUs : pc[c] = "user" => cont[last_context[c]] \in {"run", "relock"}

CallersLive == \A t \in Threads : cont[t] # "run" => life[t] = "alive"

\* Whoever is in a mutex's queue asked for that mutex, and it is taken.
WaitingLock ==
    \A t \in Threads, m \in Mutexes :
        InQueue(queue, m, t) => cont[t] = "lock" /\ arg[t] = m /\ ~free[m]

\* The library and the application agree on who has the mutex.
OwnerHolds == \A t \in Threads, m \in Mutexes : m \in held[t] <=> owner[m] = t

\* A mutex that is being handed over has no owner, is not free, and is handed to one
\* thread only.
GrantedOnce ==
    \A t \in Threads, m \in Mutexes : Pending(t, m) =>
        owner[m] = None /\ ~free[m] /\ \A u \in Threads : Pending(u, m) => u = t

FreeUnowned == \A m \in Mutexes : free[m] => owner[m] = None

TakenBySome == \A m \in Mutexes : ~free[m] => owner[m] # None \/ \E t \in Threads : Pending(t, m)

MutexState == WaitingLock /\ OwnerHolds /\ GrantedOnce /\ FreeUnowned /\ TakenBySome

MutexInv == UserCont /\ CallersLive /\ MutexState

\* Only its own CPU changes what a thread's context continues with.
LEMMA OthersStep ==
    ASSUME TypeInv, NEW c \in CPUs, Kernel(c) \/ Timer(c) \/ Application(c)
    PROVE  /\ \A d \in CPUs \ {c} : last_context'[d] = last_context[d]
           /\ \A t \in Threads : t # last_context[c] => cont'[t] = cont[t] /\ arg'[t] = arg[t]
           /\ pc'[c] = "user" => Resume(c) \/ (/\ pc[c] = "user" /\ cont' = cont
                                              /\ last_context'[c] = last_context[c])
<1>0. /\ last_context \in [CPUs -> Threads \cup {None}] /\ pc \in [CPUs -> Places]
      /\ cont \in [Threads -> Continuations] /\ arg \in [Threads -> Mutexes \cup {None}]
    BY DEF TypeInv, TypeOK
<1> DEFINE Moved == /\ \A d \in CPUs \ {c} : last_context'[d] = last_context[d]
                    /\ pc'[c] # "user"
<1>1. ASSUME NEW Q, SwitchFrom(c, Q) \/ NoSwitch(c, Q) PROVE Moved
    BY <1>0, <1>1 DEF SwitchFrom, NoSwitch
<1>2. ASSUME NEW Q, NEW q, swap_self_to_queue(c, q, Q) PROVE Moved
    BY <1>1, <1>2 DEF swap_self_to_queue
<1>3. ASSUME Refused(c) PROVE Moved /\ cont' = cont /\ arg' = arg
    BY <1>1, <1>3 DEF Refused
<1> HIDE DEF Moved
<1>4. CASE Resume(c)
    BY <1>0, <1>4 DEF Resume, Self
<1>5. CASE GoldfishSleeps(c) \/ GoldfishLoops(c) \/ Suspend(c) \/ DeliverIPI(c)
    BY <1>0, <1>5 DEF GoldfishSleeps, GoldfishLoops, Suspend, DeliverIPI, GuardUnlock
<1>6. CASE Boot(c)
    <2>1. CASE c = BootCPU
        BY <1>1, <1>6, <2>1 DEF Boot, Moved
    <2>2. CASE c # BootCPU
        BY <1>0, <1>6, <2>2 DEF Boot
    <2> QED BY <2>1, <2>2
<1>7. CASE GoldfishTakes(c)
    BY <1>1, <1>7 DEF GoldfishTakes, Moved
<1>8. CASE Timer(c)
    <2>1. cont' = cont /\ arg' = arg
        BY <1>8 DEF Timer
    <2>2. CASE UNCHANGED <<guard, queue, pc, last_context>>
        BY <2>1, <2>2
    <2>3. CASE ~UNCHANGED <<guard, queue, pc, last_context>>
        BY <1>1, <1>2, <1>8, <2>1, <2>3 DEF Timer, Moved
    <2> QED BY <2>2, <2>3
<1>9. CASE CreateFails(c) \/ Yield(c) \/ Exit(c) \/ \E t \in Threads : Create(c, t) \/ Join(c, t)
    BY <1>1, <1>2, <1>3, <1>9 DEF CreateFails, Yield, Exit, Create, Join, Moved
<1>10. CASE \E m \in Mutexes : Lock(c, m)
    BY <1>0, <1>1, <1>2, <1>10 DEF Lock, Moved, Self
<1>11. CASE \E m \in Mutexes : Unlock(c, m)
    BY <1>1, <1>3, <1>11 DEF Unlock, Moved
<1>12. CASE \E m \in Mutexes, v \in CVs : Wait(c, v, m)
    BY <1>0, <1>2, <1>3, <1>12 DEF Wait, Moved, Self
<1>13. CASE \E v \in CVs : Signal(c, v) \/ Broadcast(c, v)
    BY <1>1, <1>3, <1>13 DEF Signal, Broadcast, Moved
<1> QED
    BY <1>4, <1>5, <1>6, <1>7, <1>8, <1>9, <1>10, <1>11, <1>12, <1>13 DEF Kernel, Application

\* A thread that runs is not in the middle of a call, but for the second half of
\* a wait.
LEMMA UserContStep ==
    ASSUME TypeInv, GuardHeld, ContextsOK, UserCont, NEW c \in CPUs,
           Kernel(c) \/ Timer(c) \/ Application(c)
    PROVE  UserCont'
<1>0. /\ last_context \in [CPUs -> Threads \cup {None}] /\ cont \in [Threads -> Continuations]
    BY DEF TypeInv, TypeOK
<1>1. ASSUME NEW d \in CPUs \ {c}, pc'[d] = "user" PROVE cont'[last_context'[d]] \in {"run", "relock"}
    <2>1. pc[d] = "user" /\ last_context'[d] = last_context[d]
        BY <1>1, PcStep, OthersStep
    <2>2. last_context[d] \in Threads /\ last_context[d] # last_context[c]
        BY SMT, <2>1, CallerLemma DEF ContextsOK
    <2> QED BY <2>1, <2>2, OthersStep DEF UserCont
<1>2. ASSUME pc'[c] = "user" PROVE cont'[last_context'[c]] \in {"run", "relock"}
    <2>1. CASE Resume(c)
        <3>1. last_context[c] \in Threads /\ last_context' = last_context
            BY <2>1, CallerLemma DEF Resume
        <3> QED BY <1>0, <2>1, <3>1 DEF Resume, Self, Continuations
    <2>2. CASE ~Resume(c)
        BY <1>2, <2>2, OthersStep DEF UserCont
    <2> QED BY <2>1, <2>2
<1> QED BY <1>1, <1>2 DEF UserCont

\* A thread in the middle of a call has not finished.
LEMMA CallersLiveStep ==
    ASSUME TypeInv, ContextsOK, CallersLive, NEW c \in CPUs,
           Kernel(c) \/ Timer(c) \/ Application(c)
    PROVE  CallersLive'
<1>0. /\ life \in [Threads -> {"unborn", "alive", "dead"}] /\ Main \in Threads
    BY NamesAssumption DEF TypeInv, TypeOK
<1>1. ASSUME NEW t \in Threads, cont'[t] # "run" PROVE life'[t] = "alive"
    <2>1. CASE Exit(c)
        <3>1. cont' = cont /\ (t = last_context[c] => cont[t] = "run")
            BY <2>1 DEF Exit, Calls, Self
        <3> QED BY <1>0, <1>1, <2>1, <3>1 DEF Exit, Self, CallersLive
    <2>2. CASE ~Exit(c)
        <3>1. life[t] = "alive" => life'[t] = "alive"
            BY <1>0, <2>2, LifeStep
        <3>2. t = last_context[c] => life[t] = "alive"
            BY SMT, NamesAssumption DEF ContextsOK
        <3> QED BY <1>1, <3>1, <3>2, OthersStep DEF CallersLive
    <2> QED BY <2>1, <2>2
<1> QED BY <1>1 DEF CallersLive

\* A step that touches neither the mutexes nor their queues.
LEMMA MutexFrame ==
    ASSUME MutexState, UNCHANGED <<free, owner, held, cont, arg>>,
           \A m \in Mutexes : queue'[m] = queue[m]
    PROVE  MutexState'
<1>1. \A t \in Threads, m \in Mutexes : InQueue(queue, m, t)' <=> InQueue(queue, m, t)
    BY DEF InQueue
<1>2. \A t \in Threads, m \in Mutexes : Pending(t, m)' <=> Pending(t, m)
    BY <1>1 DEF Pending
<1>3. WaitingLock' /\ OwnerHolds' /\ FreeUnowned'
    BY <1>1 DEF MutexState, WaitingLock, OwnerHolds, FreeUnowned
<1>4. GrantedOnce' /\ TakenBySome'
    BY <1>2 DEF MutexState, GrantedOnce, TakenBySome
<1> QED BY <1>3, <1>4 DEF MutexState

\* Resume gives the mutex to the thread it was handed to.
LEMMA ResumeMutex ==
    ASSUME TypeInv, ContextsOK, MutexState, NEW c \in CPUs, Resume(c)
    PROVE  MutexState'
<1> DEFINE t == last_context[c]
           m == arg[t]
<1>0. /\ cont \in [Threads -> Continuations] /\ arg \in [Threads -> Mutexes \cup {None}]
      /\ owner \in [Mutexes -> Threads \cup {None}] /\ held \in [Threads -> SUBSET Mutexes]
      /\ None \notin Threads /\ t \in Threads /\ Mutexes \subseteq Queues
    BY CallerLemma DEF TypeInv, TypeOK, Resume
<1>1. queue' = queue /\ free' = free /\ last_context' = last_context
    BY DEF Resume
<1>2. ~InQueues(queue, t)
    BY <1>0 DEF ContextsOK
<1>3. \A n \in Mutexes : ~InQueue(queue, n, t)
    BY <1>0, <1>2 DEF InQueues
<1>4. \A u \in Threads, n \in Mutexes : InQueue(queue, n, u)' <=> InQueue(queue, n, u)
    BY <1>1 DEF InQueue
<1>5. CASE cont[t] = "lock"
    <2>1. m \in Mutexes
        BY <1>0, <1>5 DEF TypeInv, LockArg
    <2>2. /\ owner' = [owner EXCEPT ![m] = t] /\ held' = [held EXCEPT ![t] = @ \cup {m}]
          /\ cont' = [cont EXCEPT ![t] = "run"] /\ arg' = [arg EXCEPT ![t] = None]
        BY <1>5 DEF Resume, Self
    <2>3. Pending(t, m)
        BY <1>3, <1>5, <2>1 DEF Pending
    <2>4. owner[m] = None /\ ~free[m] /\ \A u \in Threads : Pending(u, m) => u = t
        BY <1>0, <2>1, <2>3 DEF MutexState, GrantedOnce
    <2> HIDE DEF m, t
    <2>5. \A u \in Threads, n \in Mutexes : Pending(u, n)' <=> Pending(u, n) /\ u # t
        BY <1>0, <1>4, <2>2 DEF Pending
    <2>6. WaitingLock'
        BY SMT, <1>0, <1>1, <1>3, <1>4, <2>2 DEF MutexState, WaitingLock
    <2>7. OwnerHolds'
        BY SMT, <1>0, <2>1, <2>2, <2>4 DEF MutexState, OwnerHolds
    <2>8. GrantedOnce'
        BY SMT, <1>0, <1>1, <2>1, <2>2, <2>4, <2>5 DEF MutexState, GrantedOnce
    <2>9. FreeUnowned'
        BY <1>0, <1>1, <2>1, <2>2, <2>4 DEF MutexState, FreeUnowned
    <2>10. TakenBySome'
        <3>1. SUFFICES ASSUME NEW n \in Mutexes, ~free[n], n # m
                       PROVE  owner[n] # None \/ \E u \in Threads : Pending(u, n)'
            BY <1>0, <1>1, <2>1, <2>2 DEF TakenBySome
        <3>2. ~Pending(t, n)
            BY <2>3, <3>1 DEF Pending
        <3> QED BY <2>5, <3>1, <3>2 DEF MutexState, TakenBySome
    <2> QED BY <2>6, <2>7, <2>8, <2>9, <2>10 DEF MutexState
<1>6. CASE cont[t] # "lock"
    <2>1. /\ owner' = owner /\ held' = held /\ arg' = arg
          /\ cont' = [cont EXCEPT ![t] = IF @ = "wait" THEN "relock" ELSE @]
        BY <1>6 DEF Resume, Self
    <2>2. \A u \in Threads : cont'[u] = "lock" <=> cont[u] = "lock"
        BY <1>0, <1>6, <2>1
    <2>3. \A u \in Threads, n \in Mutexes : Pending(u, n)' <=> Pending(u, n)
        BY <1>4, <2>1, <2>2 DEF Pending
    <2>4. WaitingLock' /\ OwnerHolds' /\ FreeUnowned'
        BY <1>1, <1>4, <2>1, <2>2 DEF MutexState, WaitingLock, OwnerHolds, FreeUnowned
    <2>5. GrantedOnce' /\ TakenBySome'
        BY <1>1, <2>1, <2>3 DEF MutexState, GrantedOnce, TakenBySome
    <2> QED BY <2>4, <2>5 DEF MutexState
<1> QED BY <1>5, <1>6

\* lock takes a free mutex or waits in its queue.
LEMMA LockMutex ==
    ASSUME TypeInv, ContextsOK, UserCont, MutexState, NEW c \in CPUs, NEW m \in Mutexes, Lock(c, m)
    PROVE  MutexState'
<1> DEFINE t == last_context[c]
<1>0. /\ cont \in [Threads -> Continuations] /\ arg \in [Threads -> Mutexes \cup {None}]
      /\ free \in [Mutexes -> BOOLEAN] /\ pc[c] = "user"
      /\ t \in Threads /\ Mutexes \subseteq Queues \ {Ready}
      /\ queue \in QueuesType /\ last_context \in [CPUs -> Threads \cup {None}]
      /\ pc \in [CPUs -> Places]
    BY CallerLemma DEF TypeInv, TypeOK, Lock, MayCall
<1>1. /\ cont' = [cont EXCEPT ![t] = "lock"] /\ arg' = [arg EXCEPT ![t] = m]
      /\ free' = [free EXCEPT ![m] = FALSE] /\ owner' = owner /\ held' = held
      /\ cont[t] \in {"run", "relock"}
    BY DEF Lock, Self
<1>2. \A n \in Mutexes : ~InQueue(queue, n, t) /\ ~Pending(t, n)
    <2>1. ~InQueues(queue, t)
        BY <1>0 DEF ContextsOK
    <2> QED BY <1>0, <1>1, <2>1 DEF InQueues, Pending
<1>3. OwnerHolds'
    BY <1>1 DEF MutexState, OwnerHolds
<1>4. FreeUnowned'
    BY <1>0, <1>1 DEF MutexState, FreeUnowned
<1>5. CASE free[m]
    <2>1. queue' = queue
        BY <1>0, <1>5 DEF Lock, NoSwitch
    <2>2. \A u \in Threads, n \in Mutexes : InQueue(queue, n, u)' <=> InQueue(queue, n, u)
        BY <2>1 DEF InQueue
    <2>3. \A u \in Threads, n \in Mutexes :
            Pending(u, n)' <=> Pending(u, n) \/ (u = t /\ n = m)
        BY <1>0, <1>1, <1>2, <2>2 DEF Pending
    <2>4. owner[m] = None /\ \A u \in Threads : ~Pending(u, m)
        BY <1>5 DEF MutexState, FreeUnowned, GrantedOnce
    <2>5. WaitingLock'
        BY SMT, <1>0, <1>1, <1>2, <1>5, <2>2 DEF MutexState, WaitingLock
    <2>6. GrantedOnce'
        BY SMT, <1>0, <1>1, <1>2, <2>3, <2>4 DEF MutexState, GrantedOnce
    <2>7. TakenBySome'
        BY <1>0, <1>1, <2>3 DEF MutexState, TakenBySome
    <2> QED BY <1>3, <1>4, <2>5, <2>6, <2>7 DEF MutexState
<1>6. CASE ~free[m]
    <2>1. swap_self_to_queue(c, m, queue)
        BY <1>6 DEF Lock
    <2>2. /\ \A r \in Queues \ {m, Ready} : queue'[r] = queue[r]
          /\ \A u \in Threads : InQueue(queue', m, u) <=> InQueue(queue, m, u) \/ t = u
        BY <1>0, <2>1, SwapLemma
    <2>3. \A u \in Threads, n \in Mutexes :
            InQueue(queue, n, u)' <=> InQueue(queue, n, u) \/ (u = t /\ n = m)
        BY <1>0, <2>2 DEF InQueue
    <2>4. \A u \in Threads, n \in Mutexes : Pending(u, n)' <=> Pending(u, n)
        BY <1>0, <1>1, <1>2, <2>3 DEF Pending
    <2>5. free' = free
        BY <1>0, <1>1, <1>6
    <2>6. WaitingLock'
        BY SMT, <1>0, <1>1, <1>2, <1>6, <2>3, <2>5 DEF MutexState, WaitingLock
    <2>7. GrantedOnce' /\ TakenBySome'
        BY <1>1, <2>4, <2>5 DEF MutexState, GrantedOnce, TakenBySome
    <2> QED BY <1>3, <1>4, <2>6, <2>7 DEF MutexState
<1> QED BY <1>5, <1>6

\* release_lock frees the mutex or hands it to the first of its queue.
LEMMA ReleaseMutex ==
    ASSUME TypeInv, ContextsOK, MutexState, NEW t \in Threads, NEW m \in Mutexes,
           CanRelease(t, m), release_lock(t, m), queue'[m] = Released(m)[m],
           \A n \in Mutexes \ {m} : queue'[n] = queue[n],
           cont[t] = "run", cont'[t] # "lock",
           \A u \in Threads \ {t} : cont'[u] = cont[u] /\ arg'[u] = arg[u],
           ~InQueues(queue, t)
    PROVE  MutexState'
<1>0. /\ free \in [Mutexes -> BOOLEAN] /\ owner \in [Mutexes -> Threads \cup {None}]
      /\ held \in [Threads -> SUBSET Mutexes] /\ None \notin Threads
      /\ m \in Queues \ {Ready} /\ Mutexes \subseteq Queues /\ queue \in QueuesType
      /\ Distinct(queue)
    BY CallerLemma, NamesAssumption DEF TypeInv, TypeOK, ContextsOK
<1>1. /\ owner' = [owner EXCEPT ![m] = None] /\ held' = [held EXCEPT ![t] = @ \ {m}]
      /\ free' = [free EXCEPT ![m] = queue[m] = <<>>]
    BY DEF release_lock
<1>2. owner[m] = t /\ ~free[m] /\ \A u \in Threads : ~Pending(u, m)
    BY <1>0 DEF CanRelease, MutexState, GrantedOnce
<1>3. \A n \in Mutexes : ~InQueue(queue, n, t) /\ ~Pending(t, n)
    BY <1>0 DEF InQueues, Pending
<1>4. OwnerHolds'
    <2>1. \A u \in Threads, n \in Mutexes : n \in held'[u] <=> n \in held[u] /\ ~(n = m /\ u = t)
        BY <1>0, <1>1
    <2>2. \A n \in Mutexes : owner'[n] = IF n = m THEN None ELSE owner[n]
        BY <1>0, <1>1
    <2> QED BY SMT, <1>0, <1>2, <2>1, <2>2 DEF MutexState, OwnerHolds
<1>5. FreeUnowned'
    BY <1>0, <1>1 DEF MutexState, FreeUnowned
<1>6. \A u \in Threads, n \in Mutexes \ {m} :
        /\ InQueue(queue, n, u)' <=> InQueue(queue, n, u)
        /\ Pending(u, n)' <=> Pending(u, n)
    <2>1. \A u \in Threads, n \in Mutexes \ {m} : InQueue(queue, n, u)' <=> InQueue(queue, n, u)
        BY DEF InQueue
    <2> QED BY <1>3, <2>1 DEF Pending
<1>7. \A n \in Mutexes \ {m} : free'[n] = free[n] /\ owner'[n] = owner[n]
    BY <1>0, <1>1
<1>8. CASE queue[m] = <<>>
    <2>1. free'[m] = TRUE /\ queue'[m] = <<>>
        BY <1>0, <1>1, <1>8 DEF Released
    <2>2. \A u \in Threads : ~InQueue(queue, m, u)' /\ ~InQueue(queue, m, u)
        BY SMT, <1>8, <2>1 DEF InQueue
    <2>3. \A u \in Threads : ~Pending(u, m)'
        BY <1>2, <2>2 DEF Pending
    <2>4. WaitingLock'
        <3>1. \A u \in Threads, n \in Mutexes \ {m} :
                InQueue(queue, n, u)' => cont[u] = "lock" /\ arg[u] = n /\ ~free[n]
            BY <1>6 DEF MutexState, WaitingLock
        <3> QED BY <1>3, <1>7, <2>2, <3>1 DEF WaitingLock
    <2>5. GrantedOnce' /\ TakenBySome'
        BY SMT, <1>6, <1>7, <2>1, <2>3 DEF MutexState, GrantedOnce, TakenBySome
    <2> QED BY <1>4, <1>5, <2>4, <2>5 DEF MutexState
<1>9. CASE queue[m] # <<>>
    <2> DEFINE h == Head(queue[m])
    <2>1. free'[m] = FALSE /\ owner'[m] = None /\ queue'[m] = FirstReadied(m)[m]
        BY <1>0, <1>1, <1>9 DEF Released
    <2>2. /\ h \in Threads /\ InQueue(queue, m, h)
          /\ \A u \in Threads : InQueue(queue, m, u) <=> InQueue(FirstReadied(m), m, u) \/ u = h
          /\ ~InQueue(FirstReadied(m), m, h)
        BY <1>0, <1>9, FirstReadiedLemma
    <2> HIDE DEF h
    <2>3. \A u \in Threads : InQueue(queue, m, u)' <=> InQueue(queue, m, u) /\ u # h
        <3>1. \A u \in Threads : InQueue(queue, m, u)' <=> InQueue(FirstReadied(m), m, u)
            BY <2>1 DEF InQueue
        <3> QED BY <2>2, <3>1
    <2>4. \A u \in Threads : Pending(u, m)' <=> u = h
        <3>1. \A u \in Threads : InQueue(queue, m, u) => cont[u] = "lock" /\ arg[u] = m
            BY DEF MutexState, WaitingLock
        <3>2. h # t /\ cont'[h] = "lock" /\ arg'[h] = m
            BY <1>3, <2>2, <3>1
        <3>3. ASSUME NEW u \in Threads, u # h PROVE ~Pending(u, m)'
            BY <1>2, <2>3, <3>3 DEF Pending
        <3> QED BY <2>2, <2>3, <3>2, <3>3 DEF Pending
    <2>5. WaitingLock'
        <3> SUFFICES ASSUME NEW u \in Threads, NEW n \in Mutexes, InQueue(queue, n, u)'
                     PROVE  cont'[u] = "lock" /\ arg'[u] = n /\ ~free'[n]
            BY DEF WaitingLock
        <3>1. InQueue(queue, n, u)
            BY <1>6, <2>3
        <3>2. u # t
            BY <1>3, <3>1
        <3>3. cont[u] = "lock" /\ arg[u] = n /\ ~free[n]
            BY <3>1 DEF MutexState, WaitingLock
        <3> QED BY <1>7, <2>1, <3>2, <3>3
    <2>6. GrantedOnce'
        <3> SUFFICES ASSUME NEW u \in Threads, NEW n \in Mutexes, Pending(u, n)'
                     PROVE  /\ owner'[n] = None /\ ~free'[n]
                            /\ \A v \in Threads : Pending(v, n)' => v = u
            BY DEF GrantedOnce
        <3>1. CASE n = m
            BY <2>1, <2>4, <3>1
        <3>2. CASE n # m
            BY <1>6, <1>7, <3>2 DEF MutexState, GrantedOnce
        <3> QED BY <3>1, <3>2
    <2>7. TakenBySome'
        BY <1>6, <1>7, <2>2, <2>4 DEF MutexState, TakenBySome
    <2> QED BY <1>4, <1>5, <2>5, <2>6, <2>7 DEF MutexState
<1> QED BY <1>8, <1>9

\* Every step keeps the mutexes and the threads that hold or wait for them in
\* agreement (mutex.cpp, cv.cpp).
LEMMA MutexStep ==
    ASSUME TypeInv, ContextsOK, UserCont, MutexState, NEW c \in CPUs,
           Kernel(c) \/ Timer(c) \/ Application(c)
    PROVE  MutexState'
<1>0. /\ queue \in QueuesType /\ last_context \in [CPUs -> Threads \cup {None}]
      /\ pc \in [CPUs -> Places] /\ cont \in [Threads -> Continuations]
      /\ arg \in [Threads -> Mutexes \cup {None}]
      /\ Mutexes \subseteq Queues \ {Ready} /\ CVs \subseteq Queues \ {Ready}
      /\ Mutexes \cap CVs = {} /\ Mutexes \cap Threads = {}
    BY CallerLemma, QueuesAssumption DEF TypeInv, TypeOK
<1>1. ASSUME Refused(c) PROVE MutexState'
    BY <1>1, MutexFrame DEF Refused, NoSwitch, mutexVars
<1>2. ASSUME NEW m \in Mutexes, Unlock(c, m) PROVE MutexState'
    <2>1. CASE CanRelease(Self(c), m)
        <3>1. Self(c) \in Threads /\ ~InQueues(queue, Self(c)) /\ cont[Self(c)] = "run"
            BY <1>2, CallerLemma DEF Unlock, Calls, MayCall, Self, ContextsOK
        <3>2. queue' = Released(m) /\ cont' = cont /\ arg' = arg /\ release_lock(Self(c), m)
            BY <1>2, <2>1 DEF Unlock, NoSwitch
        <3>3. \A n \in Mutexes \ {m} : queue'[n] = queue[n]
            BY <1>0, <3>2, FirstReadiedLemma DEF Released
        <3> QED BY <2>1, <3>1, <3>2, <3>3, ReleaseMutex
    <2>2. CASE ~CanRelease(Self(c), m)
        BY <1>1, <1>2, <2>2 DEF Unlock
    <2> QED BY <2>1, <2>2
<1>3. ASSUME NEW m \in Mutexes, NEW v \in CVs, Wait(c, v, m) PROVE MutexState'
    <2>1. CASE CanRelease(Self(c), m)
        <3> DEFINE t == last_context[c]
        <3>1. t \in Threads /\ ~InQueues(queue, t) /\ cont[t] = "run"
            BY <1>3, CallerLemma DEF Wait, Calls, MayCall, Self, ContextsOK
        <3>2. /\ swap_self_to_queue(c, v, Released(m)) /\ release_lock(t, m)
              /\ cont' = [cont EXCEPT ![t] = "wait"] /\ arg' = [arg EXCEPT ![t] = m]
            BY <1>3, <2>1 DEF Wait, Self
        <3>3. /\ Released(m) \in QueuesType
              /\ \A q \in Queues \ {m, Ready} : Released(m)[q] = queue[q]
            BY <1>0, FirstReadiedLemma DEF Released
        <3>4. \A q \in Queues \ {v, Ready} : queue'[q] = Released(m)[q]
            BY <1>0, <3>1, <3>2, <3>3, SwapRest
        <3>5. queue'[m] = Released(m)[m] /\ \A n \in Mutexes \ {m} : queue'[n] = queue[n]
            BY <1>0, <3>3, <3>4
        <3>6. /\ cont'[t] # "lock"
              /\ \A u \in Threads \ {t} : cont'[u] = cont[u] /\ arg'[u] = arg[u]
            BY <1>0, <3>1, <3>2
        <3> QED BY <2>1, <3>1, <3>2, <3>5, <3>6, ReleaseMutex DEF Self
    <2>2. CASE ~CanRelease(Self(c), m)
        BY <1>1, <1>3, <2>2 DEF Wait
    <2> QED BY <2>1, <2>2
<1>4. ASSUME ~Resume(c), \A m \in Mutexes : ~Lock(c, m) /\ ~Unlock(c, m),
             \A m \in Mutexes, v \in CVs : ~Wait(c, v, m)
      PROVE  MutexState'
    <2>1. UNCHANGED <<free, owner, held, cont, arg>>
        BY <1>4 DEF Kernel, Application, Boot, GoldfishTakes, GoldfishSleeps, GoldfishLoops,
            Suspend, DeliverIPI, Timer, Create, Refused, CreateFails, Join, Yield, Exit, Signal,
            Broadcast, mutexVars
    <2>2. ASSUME Exit(c) PROVE last_context[c] \in Threads
        BY <2>2, CallerLemma DEF Exit, Calls, MayCall
    <2>3. \A m \in Mutexes : queue'[m] = queue[m]
        BY <1>0, <1>4, <2>2, QueuesStep, ZenonT(60) DEF Touches
    <2> QED BY <2>1, <2>3, MutexFrame
<1> QED BY <1>2, <1>3, <1>4, ResumeMutex, LockMutex


-----------------------------------------------------------------------------
(* The inductive invariant and what follows from it.                       *)

Inv == /\ TypeInv /\ GuardHeld /\ ContextsOK /\ MainUnborn /\ StacksFreedOnce /\ JoinersReleased
       /\ MutexInv

\* The invariant holds before the CPUs boot.
LEMMA InvInit == Init => Inv
<1> SUFFICES ASSUME Init PROVE Inv
    OBVIOUS
<1>1. TypeInv
    BY TypeInit
<1>2. \A t \in Threads : ~InQueues(queue, t) /\ \A m \in Mutexes : ~InQueue(queue, m, t)
    BY SMT DEF Init, InQueues, InQueue, Queues
<1>3. ContextsOK
    BY SMT, <1>2 DEF Init, ContextsOK, Distinct
<1>4. GuardHeld /\ MainUnborn /\ StacksFreedOnce /\ JoinersReleased
    BY NamesAssumption DEF Init, GuardHeld, MainUnborn, StacksFreedOnce, JoinersReleased, Queues
<1>5. MutexInv
    BY <1>2, NamesAssumption DEF Init, MutexInv, MutexState, UserCont, CallersLive, WaitingLock,
        OwnerHolds, GrantedOnce, FreeUnowned, TakenBySome, Pending
<1> QED BY <1>1, <1>3, <1>4, <1>5 DEF Inv

\* Every step of every CPU keeps the invariant.
LEMMA InvStep == Inv /\ [Next]_vars => Inv'
<1> SUFFICES ASSUME Inv, [Next]_vars PROVE Inv'
    OBVIOUS
<1>1. /\ TypeInv' /\ GuardHeld' /\ ContextsOK' /\ MainUnborn'
      /\ StacksFreedOnce' /\ JoinersReleased'
    BY TypeStep, GuardStep, ContextsStep, MainStep, StacksStep, JoinersStep DEF Inv
<1>2. MutexInv'
    <2>1. ASSUME NEW c \in CPUs, Kernel(c) \/ Timer(c) \/ Application(c) PROVE MutexInv'
        BY <2>1, UserContStep, CallersLiveStep, MutexStep DEF Inv, MutexInv
    <2>2. CASE UNCHANGED vars
        <3>1. MutexState'
            BY <2>2, MutexFrame DEF vars, Inv, MutexInv
        <3>2. UserCont' /\ CallersLive'
            BY <2>2 DEF vars, Inv, MutexInv, UserCont, CallersLive
        <3> QED BY <3>1, <3>2 DEF MutexInv
    <2> QED BY <2>1, <2>2 DEF Next
<1> QED BY <1>1, <1>2 DEF Inv

\* The inductive invariant holds in every reachable state.
THEOREM Invariance == Spec => []Inv
BY InvInit, InvStep, PTL DEF Spec

\* No two threads are inside the same mutex, on any number of CPUs.
THEOREM MutexesExclude == Spec => []MutualExclusion
<1>1. Inv => MutualExclusion
    BY SMT DEF Inv, MutexInv, MutexState, OwnerHolds, MutualExclusion, TypeInv, TypeOK
<1> QED BY <1>1, Invariance, PTL

\* A mutex is never lost in a hand-over, and nobody waits for a free one.
THEOREM MutexesNotLost == Spec => []MutexNotLost
<1>1. Inv => MutexNotLost
    <2> SUFFICES ASSUME Inv, NEW m \in Mutexes
                 PROVE  IF free[m] THEN queue[m] = <<>> /\ owner[m] = None
                        ELSE owner[m] # None \/ \E t \in Threads : Granted(t, m)
        BY DEF MutexNotLost
    <2>1. CASE free[m]
        <3>1. queue[m] \in Seq(Threads) /\ \A t \in Threads : ~InQueue(queue, m, t)
            BY <2>1, CallerLemma, NamesAssumption
            DEF Inv, MutexInv, MutexState, WaitingLock, QueuesType
        <3>2. queue[m] = <<>>
            <4>1. SUFFICES ASSUME queue[m] # <<>> PROVE FALSE
                OBVIOUS
            <4>2. 1 \in DOMAIN queue[m] /\ queue[m][1] \in Threads
                BY SMT, <3>1, <4>1
            <4> QED BY <3>1, <4>2 DEF InQueue
        <3> QED BY <2>1, <3>2 DEF Inv, MutexInv, MutexState, FreeUnowned
    <2>2. CASE ~free[m]
        <3>1. \A t \in Threads : Pending(t, m) => Granted(t, m)
            BY DEF Pending, Granted, InQueue, Inv, MutexInv, CallersLive
        <3> QED BY <2>2, <3>1 DEF Inv, MutexInv, MutexState, TakenBySome
    <2> QED BY <2>1, <2>2
<1> QED BY <1>1, Invariance, PTL

\* No context is on two CPUs, in two queues, or in both (swap_self_to_queue and the
\* moves to the ready queue).
THEOREM ContextsOnce == Spec => []NoContextTwice
<1>1. Inv => NoContextTwice
    BY ContextsOKLemma, CallerLemma, NamesAssumption DEF Inv
<1> QED BY <1>1, Invariance, PTL

\* Every unfinished thread is on a CPU or in a queue: none is forgotten in a switch.
THEOREM ContextsKept == Spec => []NoContextLost
<1>1. Inv => NoContextLost
    BY ContextsOKLemma, CallerLemma, NamesAssumption DEF Inv
<1> QED BY <1>1, Invariance, PTL

\* The guard is passed through every switch: it is held in the library and free outside.
THEOREM GuardPassed == Spec => []GuardHeld
<1>1. Inv => GuardHeld
    BY DEF Inv
<1> QED BY <1>1, Invariance, PTL

\* A stack waits to be freed on one CPU only, after its thread has finished (to_kill in
\* wrapped_function and watch_suspend).
THEOREM StacksFreed == Spec => []StacksFreedOnce
<1>1. Inv => StacksFreedOnce
    BY DEF Inv
<1> QED BY <1>1, Invariance, PTL

\* Nobody waits to join a thread that has finished (thread::join, wrapped_function).
THEOREM JoinersReturn == Spec => []JoinersReleased
<1>1. Inv => JoinersReleased
    BY DEF Inv
<1> QED BY <1>1, Invariance, PTL

-----------------------------------------------------------------------------
(* The library implements Monitor.                                         *)

Lines == Threads \cup Mutexes \cup CVs

\* The step is one of the monitor's, or does not show.
Shows == Abstract!Next \/ UNCHANGED Abstract!vars

\* The lines are the queues other than the ready queue.
LEMMA LinesLemma ==
    /\ Lines \subseteq Queues /\ Ready \notin Lines /\ Queues = Lines \cup {Ready}
    /\ Threads \subseteq Lines /\ Mutexes \subseteq Lines /\ CVs \subseteq Lines
    /\ line = [x \in Lines |-> queue[x]] /\ line' = [x \in Lines |-> queue'[x]]
BY QueuesAssumption DEF Lines, Queues, line

\* A step that touches no line.
LEMMA SameLine == ASSUME Touches({}) PROVE line' = line
BY LinesLemma DEF Touches

\* A step that touches one line.
LEMMA OneLine ==
    ASSUME NEW x \in Lines, Touches({x}), NEW s, queue'[x] = s
    PROVE  line' = [line EXCEPT ![x] = s]
BY LinesLemma DEF Touches

\* Who holds a mutex, in terms of the library's variables.
LEMMA HolderLemma ==
    /\ Inv => \A m \in Mutexes : holder[m] = {t \in Threads : owner[m] = t \/ Pending(t, m)}
    /\ Inv' => \A m \in Mutexes : holder'[m] = {t \in Threads : owner'[m] = t \/ Pending(t, m)'}
<1>1. ASSUME Inv, NEW m \in Mutexes
      PROVE  holder[m] = {t \in Threads : owner[m] = t \/ Pending(t, m)}
    <2>1. \A t \in Threads : Granted(t, m) <=> Pending(t, m)
        BY <1>1 DEF Inv, MutexInv, CallersLive, Granted, Pending, InQueue
    <2>2. \A t \in Threads : m \in held[t] <=> owner[m] = t
        BY <1>1 DEF Inv, MutexInv, MutexState, OwnerHolds
    <2> QED BY <2>1, <2>2 DEF holder
<1>2. ASSUME Inv', NEW m \in Mutexes
      PROVE  holder'[m] = {t \in Threads : owner'[m] = t \/ Pending(t, m)'}
    <2>1. \A t \in Threads : Granted(t, m)' <=> Pending(t, m)'
        BY <1>2 DEF Inv, MutexInv, CallersLive, Granted, Pending, InQueue
    <2>2. \A t \in Threads : m \in held'[t] <=> owner'[m] = t
        BY <1>2 DEF Inv, MutexInv, MutexState, OwnerHolds
    <2> QED BY <2>1, <2>2 DEF holder
<1> QED BY <1>1, <1>2

\* The holder of a mutex is unique, and there is none exactly when it is free.
LEMMA HolderState ==
    /\ Inv => \A m \in Mutexes :
        /\ free[m] <=> holder[m] = {}
        /\ \A t \in Threads : owner[m] = t \/ Pending(t, m) => holder[m] = {t}
    /\ Inv' => \A m \in Mutexes :
        /\ free'[m] <=> holder'[m] = {}
        /\ \A t \in Threads : owner'[m] = t \/ Pending(t, m)' => holder'[m] = {t}
<1>1. ASSUME Inv, NEW m \in Mutexes
      PROVE  /\ free[m] <=> holder[m] = {}
             /\ \A t \in Threads : owner[m] = t \/ Pending(t, m) => holder[m] = {t}
    <2>0. owner[m] \in Threads \cup {None} /\ None \notin Threads
        BY <1>1, NamesAssumption DEF Inv, TypeInv, TypeOK
    <2>1. /\ free[m] => owner[m] = None /\ \A t \in Threads : ~Pending(t, m)
          /\ ~free[m] => owner[m] # None \/ \E t \in Threads : Pending(t, m)
          /\ \A t, u \in Threads : Pending(t, m) => owner[m] = None /\ (Pending(u, m) => u = t)
        BY <1>1 DEF Inv, MutexInv, MutexState, FreeUnowned, GrantedOnce, TakenBySome
    <2> QED BY SMT, <1>1, <2>0, <2>1, HolderLemma
<1>2. ASSUME Inv', NEW m \in Mutexes
      PROVE  /\ free'[m] <=> holder'[m] = {}
             /\ \A t \in Threads : owner'[m] = t \/ Pending(t, m)' => holder'[m] = {t}
    <2>0. owner'[m] \in Threads \cup {None} /\ None \notin Threads
        BY <1>2, NamesAssumption DEF Inv, TypeInv, TypeOK
    <2>1. /\ free'[m] => owner'[m] = None /\ \A t \in Threads : ~Pending(t, m)'
          /\ ~free'[m] => owner'[m] # None \/ \E t \in Threads : Pending(t, m)'
          /\ \A t, u \in Threads : Pending(t, m)' => owner'[m] = None /\ (Pending(u, m)' => u = t)
        BY <1>2 DEF Inv, MutexInv, MutexState, FreeUnowned, GrantedOnce, TakenBySome
    <2> QED BY SMT, <1>2, <2>0, <2>1, HolderLemma
<1> QED BY <1>1, <1>2

\* The holders change at most for the mutex m.
LEMMA OneHolder ==
    ASSUME Inv, Inv', NEW m \in Mutexes, NEW S, holder'[m] = S,
           \A n \in Mutexes \ {m} : owner'[n] = owner[n],
           \A n \in Mutexes \ {m}, t \in Threads : Pending(t, n)' <=> Pending(t, n)
    PROVE  holder' = [holder EXCEPT ![m] = S]
<1>1. ASSUME NEW n \in Mutexes \ {m} PROVE holder'[n] = holder[n]
    <2>1. /\ holder[n] = {t \in Threads : owner[n] = t \/ Pending(t, n)}
          /\ holder'[n] = {t \in Threads : owner'[n] = t \/ Pending(t, n)'}
        BY HolderLemma
    <2> QED BY <2>1
<1>2. /\ holder = [n \in Mutexes |-> holder[n]] /\ holder' = [n \in Mutexes |-> holder'[n]]
    BY DEF holder
<1> QED BY <1>1, <1>2

\* A step that hands no mutex to anybody.
LEMMA SameHolder ==
    ASSUME Inv, Inv', UNCHANGED owner,
           \A t \in Threads, m \in Mutexes : Pending(t, m)' <=> Pending(t, m)
    PROVE  holder' = holder
<1>1. \A m \in Mutexes : holder'[m] = holder[m]
    BY HolderLemma
<1>2. /\ holder = [n \in Mutexes |-> holder[n]] /\ holder' = [n \in Mutexes |-> holder'[n]]
    BY DEF holder
<1> QED BY <1>1, <1>2

\* A thread on a CPU runs in the monitor.
LEMMA RunsLemma ==
    ASSUME Inv, NEW c \in CPUs, pc[c] \in {"user", "kernel"}
    PROVE  /\ Self(c) \in Threads /\ Abstract!Runs(Self(c))
           /\ cont[Self(c)] = "run" => Abstract!Calls(Self(c))
<1>1. Self(c) \in Threads /\ None \notin Threads
    BY CallerLemma DEF Inv, Self
<1>2. life[Self(c)] = "alive" /\ ~InQueues(queue, Self(c))
    BY <1>1 DEF Inv, ContextsOK, Self
<1>3. ~Abstract!Waits(Self(c))
    BY <1>2, LinesLemma DEF Abstract!Waits, Abstract!Lines, Lines, InQueues, InQueue
<1> QED BY <1>1, <1>2, <1>3 DEF Abstract!Runs, Abstract!Calls

\* The line that a thread joins when it is switched out.
LEMMA SwapLine ==
    ASSUME TypeInv, NEW c \in CPUs, pc[c] = "user", NEW Q \in QueuesType,
           NEW x \in Queues \ {Ready}, swap_self_to_queue(c, x, Q)
    PROVE  queue'[x] = Append(Q[x], Self(c)) /\ \A r \in Queues \ {x, Ready} : queue'[r] = Q[r]
<1>1. /\ last_context[c] \in Threads /\ last_context \in [CPUs -> Threads \cup {None}]
      /\ pc \in [CPUs -> Places]
    BY CallerLemma
<1>2. SwitchFrom(c, Push(Q, x, last_context[c])) /\ Push(Q, x, last_context[c]) \in QueuesType
    BY <1>1, PushLemma DEF swap_self_to_queue, Push
<1>3. Push(Q, x, last_context[c])[x] = Append(Q[x], last_context[c])
    BY DEF Push, QueuesType
<1>4. \A r \in Queues \ {Ready} : queue'[r] = Push(Q, x, last_context[c])[r]
    BY <1>1, <1>2, SwitchFromLemma
<1> QED BY SMT, <1>1, <1>3, <1>4, PushLemma DEF Self

-----------------------------------------------------------------------------
\* The second half of a call: the thread enters the mutex it was handed, or is back from
\* its wait, or nothing shows.
LEMMA ResumeShows == ASSUME Inv, Inv', NEW c \in CPUs, Resume(c) PROVE Shows
<1> DEFINE t == Self(c)
           m == arg[t]
<1>0. /\ t \in Threads /\ Abstract!Runs(t) /\ queue' = queue /\ life' = life /\ line' = line
      /\ ~InQueues(queue, t) /\ Mutexes \subseteq Queues
    <2>1. t \in Threads /\ Abstract!Runs(t)
        BY RunsLemma DEF Resume
    <2> QED BY <2>1, CallerLemma DEF Resume, line, Inv, ContextsOK, Self
<1>1. CASE cont[t] = "lock"
    <2>1. /\ owner' = [owner EXCEPT ![m] = t] /\ held' = [held EXCEPT ![t] = @ \cup {m}]
          /\ cont' = [cont EXCEPT ![t] = "run"] /\ arg' = [arg EXCEPT ![t] = None]
        BY <1>1 DEF Resume
    <2>2. /\ m \in Mutexes /\ owner \in [Mutexes -> Threads \cup {None}]
          /\ cont \in [Threads -> Continuations]
        BY <1>0, <1>1 DEF Inv, TypeInv, TypeOK, LockArg
    <2>3. Pending(t, m)
        BY <1>0, <1>1, <2>2 DEF Pending, InQueues
    <2>4. cont'[t] = "run"
        BY <1>0, <2>1, <2>2
    <2> HIDE DEF m, t
    <2>5. holder[m] = {t} /\ holder'[m] = {t}
        BY <1>0, <2>1, <2>2, <2>3, HolderState
    <2>6. \A n \in Mutexes \ {m}, u \in Threads : Pending(u, n)' <=> Pending(u, n)
        <3>1. SUFFICES ASSUME NEW n \in Mutexes \ {m}, NEW u \in Threads
                       PROVE  Pending(u, n)' <=> Pending(u, n)
            OBVIOUS
        <3>2. CASE u = t
            BY <2>3, <2>4, <3>2 DEF Pending
        <3>3. CASE u # t
            BY SMT, <1>0, <2>1, <2>2, <3>3 DEF Pending, InQueue
        <3> QED BY <3>2, <3>3
    <2>7. holder' = [holder EXCEPT ![m] = {t}]
        BY <2>1, <2>2, <2>5, <2>6, OneHolder
    <2>8. holder' = holder
        BY <2>2, <2>5, <2>7 DEF holder
    <2>9. Abstract!Enter(t)
        BY <1>0, <1>1, <2>1, <2>5, <2>8 DEF Abstract!Enter, m
    <2> QED BY <1>0, <2>9 DEF Shows, Abstract!Next
<1>2. CASE cont[t] # "lock"
    <2>1. /\ owner' = owner /\ held' = held /\ arg' = arg
          /\ cont' = [cont EXCEPT ![t] = IF @ = "wait" THEN "relock" ELSE @]
        BY <1>2 DEF Resume
    <2>2. cont \in [Threads -> Continuations]
        BY DEF Inv, TypeInv, TypeOK
    <2>3. \A u \in Threads, n \in Mutexes : Pending(u, n)' <=> Pending(u, n)
        BY <1>0, <1>2, <2>1, <2>2 DEF Pending, InQueue
    <2>4. holder' = holder
        BY <2>1, <2>3, SameHolder
    <2>5. CASE cont[t] = "wait"
        BY <1>0, <2>1, <2>4, <2>5 DEF Shows, Abstract!Next, Abstract!Wake
    <2>6. CASE cont[t] # "wait"
        BY <1>0, <2>1, <2>2, <2>4, <2>6 DEF Shows, Abstract!vars
    <2> QED BY <2>5, <2>6
<1> QED BY <1>1, <1>2

\* lock: the caller gets a free mutex, or is the last in its line.
LEMMA LockShows ==
    ASSUME Inv, Inv', NEW c \in CPUs, NEW m \in Mutexes, Lock(c, m) PROVE Shows
<1>0. PICK t \in Threads : t = Self(c)
    BY RunsLemma DEF Lock, MayCall
<1>1. /\ Abstract!Runs(t) /\ ~InQueues(queue, t) /\ pc[c] = "user"
      /\ Mutexes \subseteq Queues \ {Ready} /\ queue \in QueuesType /\ m \in Lines
      /\ cont \in [Threads -> Continuations] /\ arg \in [Threads -> Mutexes \cup {None}]
    <2>1. pc[c] = "user" /\ Abstract!Runs(t)
        BY <1>0, RunsLemma DEF Lock, MayCall
    <2> QED BY <1>0, <2>1, CallerLemma, LinesLemma DEF Inv, ContextsOK, Self, TypeInv, TypeOK
<1>2. /\ cont[t] = "run" \/ (cont[t] = "relock" /\ arg[t] = m)
      /\ cont' = [cont EXCEPT ![t] = "lock"] /\ arg' = [arg EXCEPT ![t] = m]
      /\ life' = life /\ owner' = owner /\ held' = held
    BY <1>0 DEF Lock
<1>3. \A n \in Mutexes : ~InQueue(queue, n, t) /\ ~Pending(t, n)
    BY <1>1, <1>2 DEF InQueues, Pending
<1>4. CASE free[m]
    <2>1. queue' = queue /\ line' = line
        BY <1>4 DEF Lock, NoSwitch, line
    <2>2. \A u \in Threads, n \in Mutexes :
            Pending(u, n)' <=> Pending(u, n) \/ (u = t /\ n = m)
        <3>1. \A u \in Threads, n \in Mutexes : InQueue(queue, n, u)' <=> InQueue(queue, n, u)
            BY <2>1 DEF InQueue
        <3> QED BY <1>1, <1>2, <1>3, <3>1 DEF Pending
    <2>3. \A n \in Mutexes \ {m}, u \in Threads : Pending(u, n)' <=> Pending(u, n)
        BY <2>2
    <2>4. holder[m] = {} /\ holder'[m] = {t}
        BY <1>1, <1>4, <2>2, HolderState
    <2>5. holder' = [holder EXCEPT ![m] = {t}]
        BY <1>2, <2>3, <2>4, OneHolder
    <2>6. Abstract!Request(t, m)
        BY <1>1, <1>2, <2>1, <2>4, <2>5 DEF Abstract!Request
    <2> QED BY <1>1, <2>6 DEF Shows, Abstract!Next
<1>5. CASE ~free[m]
    <2>1. /\ queue'[m] = Append(queue[m], t)
          /\ \A r \in Queues \ {m, Ready} : queue'[r] = queue[r]
          /\ \A u \in Threads : InQueue(queue', m, u) <=> InQueue(queue, m, u) \/ t = u
        <3>1. swap_self_to_queue(c, m, queue)
            BY <1>5 DEF Lock
        <3> QED BY SMT, <1>1, <1>0, <3>1, SwapLine, SwapLemma, CallerLemma DEF Inv, Self
    <2>2. line' = [line EXCEPT ![m] = Append(queue[m], t)] /\ line[m] = queue[m]
        BY <1>1, <2>1, OneLine, LinesLemma DEF Touches
    <2>3. \A u \in Threads, n \in Mutexes : Pending(u, n)' <=> Pending(u, n)
        <3>1. \A u \in Threads, n \in Mutexes :
                InQueue(queue, n, u)' <=> InQueue(queue, n, u) \/ (u = t /\ n = m)
            BY <1>1, <2>1 DEF InQueue
        <3> QED BY <1>1, <1>2, <1>3, <3>1 DEF Pending
    <2>4. holder' = holder /\ holder[m] # {}
        BY <1>2, <1>5, <2>3, SameHolder, HolderState
    <2>5. Abstract!Request(t, m)
        BY <1>1, <1>2, <2>2, <2>4 DEF Abstract!Request
    <2> QED BY <1>1, <2>5 DEF Shows, Abstract!Next
<1> QED BY <1>4, <1>5

\* The lines of the queues Q.
LineOf(Q) == [x \in Lines |-> Q[x]]

\* Readying the first of a queue advances its line.
LEMMA AdvancedLemma ==
    ASSUME queue \in QueuesType, NEW x \in Lines
    PROVE  /\ queue[x] = <<>> => line = Abstract!Advanced(x)
           /\ queue[x] # <<>> => LineOf(FirstReadied(x)) = Abstract!Advanced(x)
<1>1. line[x] = queue[x] /\ x \in Queues \ {Ready} /\ line = [y \in Lines |-> queue[y]]
    BY LinesLemma
<1>2. ASSUME queue[x] # <<>> PROVE LineOf(FirstReadied(x)) = [line EXCEPT ![x] = Tail(@)]
    <2>1. /\ FirstReadied(x)[x] = Tail(queue[x])
          /\ \A r \in Queues \ {x, Ready} : FirstReadied(x)[r] = queue[r]
        BY <1>1, <1>2, FirstReadiedLemma
    <2> QED BY <1>1, <2>1, LinesLemma DEF LineOf
<1> QED BY <1>1, <1>2 DEF Abstract!Advanced

LEMMA ReleasedLine ==
    ASSUME queue \in QueuesType, NEW m \in Mutexes
    PROVE  LineOf(Released(m)) = Abstract!Advanced(m)
BY AdvancedLemma, LinesLemma DEF Released, LineOf

\* release_lock: the mutex goes to the first in its line.
LEMMA ReleaseShows ==
    ASSUME Inv, Inv', NEW t \in Threads, NEW m \in Mutexes,
           CanRelease(t, m), release_lock(t, m), queue'[m] = Released(m)[m],
           \A n \in Mutexes \ {m} : queue'[n] = queue[n],
           cont[t] = "run", cont'[t] # "lock", life' = life,
           \A u \in Threads \ {t} : cont'[u] = cont[u] /\ arg'[u] = arg[u]
    PROVE  Abstract!HandOver(t, m)
<1>0. /\ free \in [Mutexes -> BOOLEAN] /\ owner \in [Mutexes -> Threads \cup {None}]
      /\ m \in Queues \ {Ready} /\ queue \in QueuesType /\ Distinct(queue)
      /\ line[m] = queue[m]
    BY CallerLemma, NamesAssumption, LinesLemma DEF Inv, TypeInv, TypeOK, ContextsOK
<1>1. /\ owner' = [owner EXCEPT ![m] = None] /\ held' = [held EXCEPT ![t] = @ \ {m}]
      /\ free' = [free EXCEPT ![m] = queue[m] = <<>>]
    BY DEF release_lock
<1>2. m \in held[t]
    BY DEF CanRelease, Inv, MutexInv, MutexState, OwnerHolds
<1>3. \A n \in Mutexes \ {m}, u \in Threads : Pending(u, n)' <=> Pending(u, n)
    BY DEF Pending, InQueue
<1>4. holder'[m] = IF queue[m] = <<>> THEN {} ELSE {Head(queue[m])}
    <2>1. CASE queue[m] = <<>>
        <3>1. free'[m] = TRUE
            BY <1>0, <1>1, <2>1
        <3> QED BY <2>1, <3>1, HolderState
    <2>2. CASE queue[m] # <<>>
        <3>1. queue'[m] = FirstReadied(m)[m]
            BY <2>2 DEF Released
        <3>2. PICK h \in Threads :
                h = Head(queue[m]) /\ InQueue(queue, m, h) /\ ~InQueue(FirstReadied(m), m, h)
            BY <1>0, <2>2, FirstReadiedLemma
        <3>3. ~InQueue(queue, m, h)'
            BY <3>1, <3>2 DEF InQueue
        <3>4. cont[h] = "lock" /\ arg[h] = m
            BY <3>2 DEF Inv, MutexInv, MutexState, WaitingLock
        <3>5. Pending(h, m)'
            BY <3>2, <3>3, <3>4 DEF Pending
        <3>6. holder'[m] = {h}
            BY <3>2, <3>5, HolderState
        <3> QED BY <2>2, <3>2, <3>6
    <2> QED BY <2>1, <2>2
<1>5. holder' = [holder EXCEPT ![m] = IF queue[m] = <<>> THEN {} ELSE {Head(queue[m])}]
    BY <1>0, <1>1, <1>3, <1>4, OneHolder
<1> QED BY <1>0, <1>1, <1>2, <1>5 DEF Abstract!HandOver

\* unlock by the owner is the monitor's; other calls are refused and do not show.
LEMMA UnlockShows ==
    ASSUME Inv, Inv', NEW c \in CPUs, NEW m \in Mutexes, Unlock(c, m), ~Refused(c) PROVE Shows
<1>1. PICK t \in Threads : t = Self(c) /\ Abstract!Calls(t)
    BY RunsLemma DEF Unlock, Calls, MayCall
<1>2. /\ CanRelease(t, m) /\ release_lock(t, m) /\ queue' = Released(m)
      /\ cont' = cont /\ arg' = arg /\ life' = life /\ cont[t] = "run"
    BY <1>1 DEF Unlock, NoSwitch, Calls
<1>3. queue \in QueuesType /\ Mutexes \subseteq Queues \ {Ready}
    BY CallerLemma DEF Inv
<1>4. \A n \in Mutexes \ {m} : queue'[n] = queue[n]
    BY <1>2, <1>3, FirstReadiedLemma DEF Released
<1>5. Abstract!HandOver(t, m)
    BY <1>2, <1>4, ReleaseShows
<1>6. line' = Abstract!Advanced(m)
    BY <1>2, <1>3, ReleasedLine, LinesLemma DEF LineOf
<1>7. Abstract!Unlock(t, m)
    BY <1>1, <1>2, <1>5, <1>6 DEF Abstract!Unlock
<1> QED BY <1>7 DEF Shows, Abstract!Next

\* wait releases the mutex and joins the line of the condition variable at once.
LEMMA WaitShows ==
    ASSUME Inv, Inv', NEW c \in CPUs, NEW v \in CVs, NEW m \in Mutexes, Wait(c, v, m), ~Refused(c)
    PROVE  Shows
<1>1. PICK t \in Threads : t = Self(c) /\ Abstract!Calls(t)
    BY RunsLemma DEF Wait, Calls, MayCall
<1>2. /\ CanRelease(t, m) /\ release_lock(t, m) /\ swap_self_to_queue(c, v, Released(m))
      /\ cont' = [cont EXCEPT ![t] = "wait"] /\ arg' = [arg EXCEPT ![t] = m] /\ life' = life
      /\ cont[t] = "run" /\ pc[c] = "user"
    BY <1>1 DEF Wait, Calls, MayCall
<1>3. /\ queue \in QueuesType /\ Mutexes \subseteq Queues \ {Ready} /\ v \in Queues \ {Ready}
      /\ v \notin Mutexes /\ Released(m) \in QueuesType /\ v \in Lines
      /\ cont \in [Threads -> Continuations] /\ arg \in [Threads -> Mutexes \cup {None}]
    BY CallerLemma, QueuesAssumption, ReleasedContexts, LinesLemma DEF Inv, TypeInv, TypeOK
<1>4. /\ queue'[v] = Append(Released(m)[v], t)
      /\ \A r \in Queues \ {v, Ready} : queue'[r] = Released(m)[r]
    BY <1>1, <1>2, <1>3, SwapLine DEF Inv
<1>5. \A n \in Mutexes \ {m} : Released(m)[n] = queue[n]
    BY <1>3, FirstReadiedLemma DEF Released
<1>6. queue'[m] = Released(m)[m] /\ \A n \in Mutexes \ {m} : queue'[n] = queue[n]
    BY <1>3, <1>4, <1>5
<1>7. cont'[t] # "lock" /\ \A u \in Threads \ {t} : cont'[u] = cont[u] /\ arg'[u] = arg[u]
    BY <1>2, <1>3
<1>8. Abstract!HandOver(t, m)
    BY <1>2, <1>6, <1>7, ReleaseShows
<1>9. line' = [LineOf(Released(m)) EXCEPT ![v] = Append(@, t)]
    BY <1>3, <1>4, LinesLemma DEF LineOf
<1>10. line' = [Abstract!Advanced(m) EXCEPT ![v] = Append(@, t)]
    BY <1>3, <1>9, ReleasedLine
<1>11. Abstract!Wait(t, v, m)
    BY <1>1, <1>2, <1>8, <1>10 DEF Abstract!Wait
<1> QED BY <1>11 DEF Shows, Abstract!Next

\* A step that neither hands over a mutex nor changes a call or a mutex's line.
LEMMA MutexesSame ==
    ASSUME Inv, Inv', UNCHANGED <<owner, cont, arg>>, \A m \in Mutexes : queue'[m] = queue[m]
    PROVE  holder' = holder
<1>1. \A t \in Threads, m \in Mutexes : InQueue(queue, m, t)' <=> InQueue(queue, m, t)
    BY DEF InQueue
<1>2. \A t \in Threads, m \in Mutexes : Pending(t, m)' <=> Pending(t, m)
    BY <1>1 DEF Pending
<1> QED BY <1>2, SameHolder

\* A step that moves contexts between CPUs and the ready queue only.
LEMMA StutterLemma ==
    ASSUME Inv, Inv', UNCHANGED <<life, cont, arg, owner, held>>, Touches({})
    PROVE  Shows
<1>1. \A m \in Mutexes : queue'[m] = queue[m]
    BY LinesLemma DEF Touches
<1> QED BY <1>1, MutexesSame, SameLine DEF Shows, Abstract!vars

\* signal and broadcast.
LEMMA SignalShows ==
    ASSUME Inv, Inv', NEW c \in CPUs, NEW v \in CVs, Signal(c, v) \/ Broadcast(c, v), ~Refused(c)
    PROVE  Shows
<1>1. PICK t \in Threads : t = Self(c) /\ Abstract!Calls(t)
    BY RunsLemma DEF Signal, Broadcast, Calls, MayCall
<1>2. /\ queue \in QueuesType /\ Mutexes \subseteq Queues \ {Ready} /\ v \in Queues \ {Ready}
      /\ v \notin Mutexes /\ v \in Lines
    BY CallerLemma, QueuesAssumption, LinesLemma DEF Inv
<1>3. UNCHANGED <<life, cont, arg, owner, held>>
    BY DEF Signal, Broadcast, mutexVars
<1>4. CASE Signal(c, v)
    <2>1. queue[v] # <<>> /\ queue' = FirstReadied(v)
        BY <1>4 DEF Signal, NoSwitch
    <2>2. line' = Abstract!Advanced(v)
        BY <1>2, <2>1, AdvancedLemma, LinesLemma DEF LineOf
    <2>3. \A m \in Mutexes : queue'[m] = queue[m]
        BY <1>2, <2>1, FirstReadiedLemma
    <2>4. Abstract!Signal(t, v)
        BY <1>1, <1>3, <2>2, <2>3, MutexesSame DEF Abstract!Signal
    <2> QED BY <2>4 DEF Shows, Abstract!Next
<1>5. CASE Broadcast(c, v)
    <2>1. queue' = AllReadied(v)
        BY <1>5 DEF Broadcast, NoSwitch
    <2>2. Touches({v}) /\ queue'[v] = <<>>
        BY <1>2, <2>1, AllReadiedLemma DEF Touches
    <2>3. line' = [line EXCEPT ![v] = <<>>]
        BY <1>2, <2>2, OneLine
    <2>4. \A m \in Mutexes : queue'[m] = queue[m]
        BY <1>2, <2>2 DEF Touches
    <2>5. Abstract!Broadcast(t, v)
        BY <1>1, <1>3, <2>3, <2>4, MutexesSame DEF Abstract!Broadcast
    <2> QED BY <2>5 DEF Shows, Abstract!Next
<1> QED BY <1>4, <1>5

\* join waits in the line of the thread, and exit dissolves it.
LEMMA JoinExitShows ==
    ASSUME Inv, Inv', NEW c \in CPUs, Exit(c) \/ \E u \in Threads : Join(c, u), ~Refused(c)
    PROVE  Shows
<1>1. PICK t \in Threads : t = Self(c) /\ Abstract!Calls(t)
    BY RunsLemma DEF Join, Exit, Calls, MayCall
<1>2. /\ queue \in QueuesType /\ Mutexes \subseteq Queues \ {Ready} /\ Threads \subseteq Lines
      /\ Threads \cap Mutexes = {} /\ Threads \subseteq Queues \ {Ready} /\ TypeInv
      /\ last_context \in [CPUs -> Threads \cup {None}] /\ pc \in [CPUs -> Places]
    BY CallerLemma, QueuesAssumption, LinesLemma DEF Inv
<1>3. UNCHANGED <<cont, arg, owner, held>>
    BY DEF Join, Exit, mutexVars
<1>4. ASSUME NEW u \in Threads, Join(c, u) PROVE Shows
    <2>1. /\ swap_self_to_queue(c, u, queue) /\ life[u] = "alive" /\ life' = life
          /\ pc[c] = "user"
        BY <1>4 DEF Join, Calls, MayCall
    <2>2. queue'[u] = Append(queue[u], t) /\ Touches({u})
        <3>1. /\ queue'[u] = Append(queue[u], Self(c))
              /\ \A r \in Queues \ {u, Ready} : queue'[r] = queue[r]
            BY <1>2, <2>1, SwapLine
        <3> QED BY <1>1, <3>1 DEF Touches
    <2>3. line' = [line EXCEPT ![u] = Append(@, t)]
        BY <1>2, <2>2, OneLine, LinesLemma
    <2>4. \A m \in Mutexes : queue'[m] = queue[m]
        BY <1>2, <2>2 DEF Touches
    <2>5. Abstract!Join(t, u)
        BY <1>1, <1>3, <2>1, <2>3, <2>4, MutexesSame DEF Abstract!Join
    <2> QED BY <2>5 DEF Shows, Abstract!Next
<1>5. CASE Exit(c)
    <2>1. SwitchFrom(c, AllReadied(t)) /\ life' = [life EXCEPT ![t] = "dead"]
        BY <1>1, <1>5 DEF Exit
    <2>2. /\ AllReadied(t) \in QueuesType /\ AllReadied(t)[t] = <<>>
          /\ \A r \in Queues \ {t, Ready} : AllReadied(t)[r] = queue[r]
        BY <1>2, AllReadiedLemma
    <2>3. queue'[t] = <<>> /\ Touches({t})
        <3>1. \A r \in Queues \ {Ready} : queue'[r] = AllReadied(t)[r]
            BY <1>2, <2>1, <2>2, SwitchFromLemma
        <3> QED BY <1>2, <2>2, <3>1 DEF Touches
    <2>4. line' = [line EXCEPT ![t] = <<>>]
        BY <1>2, <2>3, OneLine
    <2>5. \A m \in Mutexes : queue'[m] = queue[m]
        BY <1>2, <2>3 DEF Touches
    <2>6. Abstract!Exit(t)
        BY <1>1, <1>3, <2>1, <2>4, <2>5, MutexesSame DEF Abstract!Exit
    <2> QED BY <2>6 DEF Shows, Abstract!Next
<1> QED BY <1>4, <1>5

\* A new thread, or the first one, is ready at once.
LEMMA CreateShows ==
    ASSUME Inv, Inv', NEW c \in CPUs, (Boot(c) /\ c = BootCPU) \/ \E u \in Threads : Create(c, u)
    PROVE  Shows
<1>1. /\ queue \in QueuesType /\ Mutexes \subseteq Queues \ {Ready} /\ Main \in Threads
      /\ last_context \in [CPUs -> Threads \cup {None}] /\ pc \in [CPUs -> Places]
    BY CallerLemma, NamesAssumption DEF Inv
<1>2. UNCHANGED <<cont, arg, owner, held>>
    BY DEF Boot, Create, mutexVars
<1>3. ASSUME NEW u \in Threads, Create(c, u) PROVE Shows
    <2>1. PICK t \in Threads : Abstract!Calls(t)
        BY <1>3, RunsLemma DEF Create, Calls, MayCall
    <2>2. queue' = Readied(queue, <<u>>)
        BY <1>3 DEF Create, NoSwitch
    <2>3. Touches({})
        BY <1>1, <2>2, ReadiedType DEF Touches
    <2>4. holder' = holder /\ line' = line
        BY <1>1, <1>2, <2>3, MutexesSame, SameLine DEF Touches
    <2>5. Abstract!Create(t, u)
        BY <1>2, <1>3, <2>1, <2>4 DEF Create, Abstract!Create
    <2> QED BY <2>5 DEF Shows, Abstract!Next
<1>4. CASE Boot(c) /\ c = BootCPU
    <2>1. /\ SwitchFrom(c, Readied(queue, <<Main>>)) /\ life' = [life EXCEPT ![Main] = "alive"]
          /\ life[Main] = "unborn"
        BY <1>4 DEF Boot, Inv, MainUnborn
    <2>2. /\ Readied(queue, <<Main>>) \in QueuesType
          /\ \A r \in Queues \ {Ready} : Readied(queue, <<Main>>)[r] = queue[r]
        BY <1>1, ReadiedType
    <2>3. \A r \in Queues \ {Ready} : queue'[r] = Readied(queue, <<Main>>)[r]
        BY <1>1, <2>1, <2>2, SwitchFromLemma
    <2>4. Touches({})
        BY <2>2, <2>3 DEF Touches
    <2>5. holder' = holder /\ line' = line
        BY <1>1, <1>2, <2>4, MutexesSame, SameLine DEF Touches
    <2>6. Abstract!Start
        BY <1>2, <2>1, <2>5 DEF Abstract!Start
    <2> QED BY <2>6 DEF Shows, Abstract!Next
<1> QED BY <1>3, <1>4

-----------------------------------------------------------------------------
\* Every step of every CPU is a step of the monitor or does not show.
LEMMA StepShows == ASSUME Inv, Inv', [Next]_vars PROVE Shows
<1>1. ASSUME UNCHANGED <<queue, life, cont, arg, owner, held>> PROVE Shows
    BY <1>1, StutterLemma DEF Touches
<1>2. ASSUME NEW c \in CPUs, Refused(c) PROVE Shows
    BY <1>1, <1>2 DEF Refused, NoSwitch, mutexVars
<1>3. ASSUME NEW c \in CPUs, NEW q, q = Ready, pc[c] = "user" \/ last_context[c] # None,
             UNCHANGED <<life, cont, arg, owner, held>>,
             SwitchFrom(c, queue) \/ swap_self_to_queue(c, q, queue)
      PROVE  Shows
    <2>0. /\ queue \in QueuesType /\ last_context \in [CPUs -> Threads \cup {None}]
          /\ pc \in [CPUs -> Places] /\ Ready \in Queues /\ last_context[c] \in Threads
        BY <1>3, CallerLemma DEF Inv
    <2>1. \A r \in Queues \ {Ready} : queue'[r] = queue[r]
        BY SMT, <1>3, <2>0, SwitchFromLemma, SwapRest
    <2> QED BY <1>3, <2>1, StutterLemma DEF Touches
<1>4. ASSUME NEW c \in CPUs, Kernel(c) PROVE Shows
    <2>1. CASE GoldfishTakes(c)
        <3>0. /\ queue \in QueuesType /\ last_context \in [CPUs -> Threads \cup {None}]
              /\ pc \in [CPUs -> Places]
            BY CallerLemma DEF Inv
        <3>1. \A r \in Queues \ {Ready} : queue'[r] = queue[r]
            BY <2>1, <3>0, SwitchFromLemma DEF GoldfishTakes
        <3> QED BY <2>1, <3>1, StutterLemma DEF GoldfishTakes, Touches, mutexVars
    <2>2. CASE Boot(c) /\ c # BootCPU
        BY <1>1, <2>2 DEF Boot, mutexVars
    <2>3. CASE GoldfishSleeps(c) \/ GoldfishLoops(c) \/ Suspend(c) \/ DeliverIPI(c)
        BY <1>1, <2>3 DEF GoldfishSleeps, GoldfishLoops, Suspend, DeliverIPI, mutexVars
    <2> QED BY <1>4, <2>1, <2>2, <2>3, ResumeShows, CreateShows DEF Kernel
<1>5. ASSUME NEW c \in CPUs, Timer(c) \/ Yield(c) \/ CreateFails(c) PROVE Shows
    <2>1. CASE Timer(c)
        BY <1>1, <1>3, <2>1 DEF Timer, NoSwitch, Self, mutexVars
    <2>2. CASE Yield(c)
        BY <1>2, <1>3, <2>2 DEF Yield, Calls, MayCall, mutexVars
    <2>3. CASE CreateFails(c)
        BY <1>2, <2>3 DEF CreateFails
    <2> QED BY <1>5, <2>1, <2>2, <2>3
<1>6. ASSUME NEW c \in CPUs, Application(c) PROVE Shows
    <2>1. CASE Refused(c)
        BY <1>2, <2>1
    <2>2. CASE ~Refused(c)
        BY <1>5, <1>6, <2>2, LockShows, UnlockShows, WaitShows, SignalShows, JoinExitShows, CreateShows
        DEF Application
    <2> QED BY <2>1, <2>2
<1>7. CASE UNCHANGED vars
    BY <1>1, <1>7 DEF vars
<1> QED BY <1>4, <1>5, <1>6, <1>7 DEF Next

\* The library is a monitor: what an application sees of it, on any number of CPUs and
\* under any preemption, is what it would see if every call took effect at once and every
\* thread could always run (mutex.cpp, cv.cpp and thread.cpp on top of cpu.cpp).
THEOREM MonitorImplemented == Spec => ImplementsMonitor
<1>1. Init => Abstract!Init
    <2> SUFFICES ASSUME Init PROVE Abstract!Init
        OBVIOUS
    <2>1. line = [x \in Lines |-> <<>>]
        BY LinesLemma DEF Init
    <2>2. holder = [m \in Mutexes |-> {}]
        BY DEF Init, holder, Granted
    <2> QED BY <2>1, <2>2 DEF Init, Abstract!Init, Abstract!Lines, Lines
<1>2. Inv /\ Inv' /\ [Next]_vars => [Abstract!Next]_(Abstract!vars)
    BY StepShows DEF Shows
<1> QED BY <1>1, <1>2, Invariance, PTL DEF Spec, ImplementsMonitor, Abstract!Spec

=============================================================================
