------------------------------- MODULE Monitor -------------------------------
(***************************************************************************)
(* What the thread library promises its application: threads that can all   *)
(* run at any time, mutexes that pass from thread to thread in the order in *)
(* which they were asked for, and condition variables.  There are no CPUs,  *)
(* no ready queue, no preemption and no guard.  ThreadLibrary implements it. *)
(***************************************************************************)
EXTENDS Sequences

CONSTANTS Threads, Mutexes, CVs, Main, None

VARIABLES
    life,      \* of each thread: "unborn", "alive" or "dead"
    cont,      \* "run", or the call it is in: "lock", "wait", "relock" (the end of a wait)
    arg,       \* the mutex of that call
    held,      \* the mutexes each thread has locked
    holder,    \* who has a mutex or has been handed it: a set of at most one
    line       \* who waits, in order, for a mutex, on a cv, or to join a thread

vars == <<life, cont, arg, held, holder, line>>

Lines == Threads \cup Mutexes \cup CVs

Init ==
    /\ life = [t \in Threads |-> "unborn"]
    /\ cont = [t \in Threads |-> "run"]
    /\ arg = [t \in Threads |-> None]
    /\ held = [t \in Threads |-> {}]
    /\ holder = [m \in Mutexes |-> {}]
    /\ line = [x \in Lines |-> <<>>]

Waits(t) == \E x \in Lines : \E i \in DOMAIN line[x] : line[x][i] = t

Runs(t) == life[t] = "alive" /\ ~Waits(t)
Calls(t) == Runs(t) /\ cont[t] = "run"

Start ==
    /\ life[Main] = "unborn"
    /\ life' = [life EXCEPT ![Main] = "alive"]
    /\ UNCHANGED <<cont, arg, held, holder, line>>

Create(t, u) ==
    /\ Calls(t) /\ life[u] = "unborn" /\ u # Main
    /\ life' = [life EXCEPT ![u] = "alive"]
    /\ UNCHANGED <<cont, arg, held, holder, line>>

Join(t, u) ==
    /\ Calls(t) /\ life[u] = "alive"
    /\ line' = [line EXCEPT ![u] = Append(@, t)]
    /\ UNCHANGED <<life, cont, arg, held, holder>>

Exit(t) ==
    /\ Calls(t)
    /\ life' = [life EXCEPT ![t] = "dead"]
    /\ line' = [line EXCEPT ![t] = <<>>]
    /\ UNCHANGED <<cont, arg, held, holder>>

Request(t, m) ==
    /\ Runs(t)
    /\ cont[t] = "run" \/ (cont[t] = "relock" /\ arg[t] = m)
    /\ cont' = [cont EXCEPT ![t] = "lock"]
    /\ arg' = [arg EXCEPT ![t] = m]
    /\ \/ holder[m] = {} /\ holder' = [holder EXCEPT ![m] = {t}] /\ UNCHANGED line
       \/ holder[m] # {} /\ line' = [line EXCEPT ![m] = Append(@, t)] /\ UNCHANGED holder
    /\ UNCHANGED <<life, held>>

Enter(t) ==
    /\ Runs(t) /\ cont[t] = "lock" /\ holder[arg[t]] = {t}
    /\ held' = [held EXCEPT ![t] = @ \cup {arg[t]}]
    /\ cont' = [cont EXCEPT ![t] = "run"]
    /\ arg' = [arg EXCEPT ![t] = None]
    /\ UNCHANGED <<life, holder, line>>

\* The lines after the first one in the line for x, if any, has left it.
Advanced(x) == IF line[x] = <<>> THEN line ELSE [line EXCEPT ![x] = Tail(@)]

HandOver(t, m) ==
    /\ m \in held[t]
    /\ held' = [held EXCEPT ![t] = @ \ {m}]
    /\ holder' = [holder EXCEPT ![m] = IF line[m] = <<>> THEN {} ELSE {Head(line[m])}]
    /\ UNCHANGED life

Unlock(t, m) ==
    /\ Calls(t) /\ HandOver(t, m)
    /\ line' = Advanced(m)
    /\ UNCHANGED <<cont, arg>>

Wait(t, v, m) ==
    /\ Calls(t) /\ HandOver(t, m)
    /\ line' = [Advanced(m) EXCEPT ![v] = Append(@, t)]
    /\ cont' = [cont EXCEPT ![t] = "wait"]
    /\ arg' = [arg EXCEPT ![t] = m]

Signal(t, v) ==
    /\ Calls(t)
    /\ line' = Advanced(v)
    /\ UNCHANGED <<life, cont, arg, held, holder>>

Broadcast(t, v) ==
    /\ Calls(t)
    /\ line' = [line EXCEPT ![v] = <<>>]
    /\ UNCHANGED <<life, cont, arg, held, holder>>

Wake(t) ==
    /\ Runs(t) /\ cont[t] = "wait"
    /\ cont' = [cont EXCEPT ![t] = "relock"]
    /\ UNCHANGED <<life, arg, held, holder, line>>

Next ==
    \/ Start
    \/ \E t \in Threads :
        \/ Exit(t) \/ Enter(t) \/ Wake(t)
        \/ \E u \in Threads : Create(t, u) \/ Join(t, u)
        \/ \E m \in Mutexes : Request(t, m) \/ Unlock(t, m) \/ \E v \in CVs : Wait(t, v, m)
        \/ \E v \in CVs : Signal(t, v) \/ Broadcast(t, v)

Spec == Init /\ [][Next]_vars
=============================================================================
