---------------------------- MODULE ThreadLibrary ----------------------------
(***************************************************************************)
(* The user-level thread library, src/thread_library: threads, mutexes and  *)
(* condition variables multiplexed over several CPUs, which share the ready *)
(* queue under one spin lock, the guard.                                    *)
(*                                                                         *)
(* A library call disables interrupts, takes the guard, does its work and   *)
(* may switch to another context; the guard is released by whichever        *)
(* context comes out of the switch.  So a call is two steps: the call's own *)
(* action, which takes the guard and ends with the switch, and Resume,      *)
(* which runs the rest of the context switched to and releases the guard.   *)
(* The application is arbitrary: any running thread may make any call.      *)
(***************************************************************************)
EXTENDS Integers, Sequences, FiniteSets

CONSTANTS
    CPUs, Threads, Mutexes, CVs,
    BootCPU,       \* the CPU whose constructor gets func, external (cpu::boot)
    Main,          \* the thread that runs func
    Ready,         \* the name of the ready queue
    LateBoot,      \* may user threads run while CPUs are still being booted?
    None

ASSUME NamesAssumption ==
    /\ BootCPU \in CPUs /\ Main \in Threads /\ LateBoot \in BOOLEAN
    /\ None \notin CPUs \cup Threads \cup Mutexes \cup CVs

ASSUME QueuesAssumption ==
    /\ Ready \notin Threads \cup Mutexes \cup CVs
    /\ Threads \cap Mutexes = {} /\ Threads \cap CVs = {} /\ Mutexes \cap CVs = {}

ASSUME FiniteAssumption == IsFiniteSet(CPUs)

\* A thread's join_waiting_queue goes by the name of the thread, the
\* waiting_queue of a mutex or a cv by the name of the mutex or the cv.
Queues == {Ready} \cup Threads \cup Mutexes \cup CVs

VARIABLES
    guard,          \* the CPU that has set cpu::guard, or None
    cpu_vec,        \* the CPUs constructed so far
    pc,             \* what each CPU is doing, see Places
    is_idle,
    ipi,            \* an inter-processor interrupt is on its way (external)
    last_context,   \* the thread whose context a CPU runs
    to_kill,        \* the finished thread whose stack a CPU has still to free
    queue,          \* every deque of contexts
    free, owner,    \* of each mutex
    life,           \* of each thread; shared_thread_info::alive is life = "alive"
    cont, arg,      \* where in the library a thread's context continues
    held            \* the mutexes the application has locked (its own view)

cpuVars == <<cpu_vec, is_idle, ipi>>
mutexVars == <<free, owner, held>>
vars == <<guard, cpu_vec, pc, is_idle, ipi, last_context, to_kill, queue, free, owner,
          life, cont, arg, held>>

\* off: not constructed.  user: running a thread, interrupts enabled.  kernel:
\* guard held, about to finish a call.  goldfish: guard held, in watch_suspend.
\* drowsy: guard released, not yet suspended.  woken: out of the suspension,
\* waiting for the guard.
Places == {"off", "user", "kernel", "goldfish", "drowsy", "suspended", "woken"}

\* run: back to the application.  lock: own the mutex arg, then back.  wait: back
\* in cv::wait.  relock: cv::wait has still to lock the mutex arg.
Continuations == {"run", "lock", "wait", "relock"}

Init ==
    /\ guard = None
    /\ cpu_vec = <<>>
    /\ pc = [c \in CPUs |-> "off"]
    /\ is_idle = [c \in CPUs |-> FALSE]
    /\ ipi = [c \in CPUs |-> FALSE]
    /\ last_context = [c \in CPUs |-> None]
    /\ to_kill = [c \in CPUs |-> None]
    /\ queue = [q \in Queues |-> <<>>]
    /\ free = [m \in Mutexes |-> TRUE]
    /\ owner = [m \in Mutexes |-> None]
    /\ life = [t \in Threads |-> "unborn"]
    /\ cont = [t \in Threads |-> "run"]
    /\ arg = [t \in Threads |-> None]
    /\ held = [t \in Threads |-> {}]

-----------------------------------------------------------------------------
(* The scheduler, cpu.cpp.                                                 *)

\* Fault: check_ready_and_wake stops one thread short.
ToWakeTooFew(n) ==
    {cpu_vec[i] : i \in {k \in DOMAIN cpu_vec :
        /\ is_idle[cpu_vec[k]]
        /\ Cardinality({j \in 1 .. k - 1 : is_idle[cpu_vec[j]]}) < n - 1}}

\* The idle CPUs that check_ready_and_wake interrupts when n threads are ready:
\* the first n of cpu_vec.
ToWake(n) ==
    {cpu_vec[i] : i \in {k \in DOMAIN cpu_vec :
        /\ is_idle[cpu_vec[k]]
        /\ Cardinality({j \in 1 .. k - 1 : is_idle[cpu_vec[j]]}) < n}}

check_ready_and_wake(n) ==
    /\ is_idle' = [c \in CPUs |-> is_idle[c] /\ c \notin ToWake(n)]
    /\ ipi' = [c \in CPUs |-> ipi[c] \/ c \in ToWake(n)]

\* The queues Q with the contexts of the sequence s at the end of the ready queue.
Readied(Q, s) == [Q EXCEPT ![Ready] = @ \o s]

\* Faults: the context stays in the queue it was readied from; the joiners are cleared
\* without being readied; they are left where they are.
FirstReadiedNotPopped(q) == Readied(queue, <<Head(queue[q])>>)
AllReadiedDropped(q) == [queue EXCEPT ![q] = <<>>]
AllReadiedLeft(q) == queue

\* Fault: the last context becomes ready in place of the first.
LastReadied(q) ==
    LET n == Len(queue[q])
    IN  [Readied(queue, <<queue[q][n]>>) EXCEPT ![q] = SubSeq(@, 1, n - 1)]

\* The queues after the first context of queue q, or all of them, become ready.
FirstReadied(q) == [Readied(queue, <<Head(queue[q])>>) EXCEPT ![q] = Tail(@)]
AllReadied(q) == [Readied(queue, queue[q]) EXCEPT ![q] = <<>>]

\* CPU c, which has put its own context away, takes the next ready one, or
\* switches to its goldfish when there is none.
SwitchFrom(c, Q) ==
    /\ guard' = c
    /\ IF Q[Ready] # <<>>
       THEN /\ queue' = [Q EXCEPT ![Ready] = Tail(@)]
            /\ last_context' = [last_context EXCEPT ![c] = Head(Q[Ready])]
            /\ pc' = [pc EXCEPT ![c] = "kernel"]
       ELSE /\ queue' = Q
            /\ last_context' = [last_context EXCEPT ![c] = None]
            /\ pc' = [pc EXCEPT ![c] = "goldfish"]

swap_self_to_queue(c, q, Q) == SwitchFrom(c, [Q EXCEPT ![q] = Append(@, last_context[c])])

\* The call ends without a switch.
NoSwitch(c, Q) ==
    /\ guard' = c
    /\ queue' = Q
    /\ pc' = [pc EXCEPT ![c] = "kernel"]
    /\ UNCHANGED last_context

\* A running thread calls into the library: interrupts off, guard taken.
Self(c) == last_context[c]
MayCall(c) == pc[c] = "user" /\ guard = None
Calls(c) == MayCall(c) /\ cont[Self(c)] = "run"

\* Fault: the guard is not released.
GuardUnlockForgotten(c, place) == pc' = [pc EXCEPT ![c] = place] /\ UNCHANGED guard

\* The guard is released and interrupts are enabled.
GuardUnlock(c, place) == guard' = None /\ pc' = [pc EXCEPT ![c] = place]

\* What is left of the call after the switch, of whichever thread came out.
Resume(c) ==
    LET t == Self(c)
    IN  /\ pc[c] = "kernel"
        /\ GuardUnlock(c, "user")
        /\ IF cont[t] = "lock"
           THEN /\ owner' = [owner EXCEPT ![arg[t]] = t]
                /\ held' = [held EXCEPT ![t] = @ \cup {arg[t]}]
                /\ cont' = [cont EXCEPT ![t] = "run"]
                /\ arg' = [arg EXCEPT ![t] = None]
           ELSE /\ cont' = [cont EXCEPT ![t] = IF @ = "wait" THEN "relock" ELSE @]
                /\ UNCHANGED <<owner, held, arg>>
        /\ UNCHANGED <<last_context, to_kill, queue, free, life>> /\ UNCHANGED cpuVars

\* cpu::cpu: the boot CPU makes and runs the main thread, the others look for
\* work in watch_suspend, marked idle.
Boot(c) ==
    /\ pc[c] = "off" /\ guard = None
    /\ LateBoot \/ c # BootCPU \/ \A d \in CPUs \ {c} : pc[d] # "off"
    /\ cpu_vec' = Append(cpu_vec, c)
    /\ IF c = BootCPU
       THEN /\ life' = [life EXCEPT ![Main] = "alive"]
            /\ check_ready_and_wake(Len(queue[Ready]) + 1)
            /\ SwitchFrom(c, Readied(queue, <<Main>>))
       ELSE /\ is_idle' = [is_idle EXCEPT ![c] = TRUE]
            /\ guard' = c
            /\ pc' = [pc EXCEPT ![c] = "goldfish"]
            /\ UNCHANGED <<life, ipi, last_context, queue>>
    /\ UNCHANGED <<to_kill, cont, arg>> /\ UNCHANGED mutexVars

\* watch_suspend: free the last stack, then run a ready thread or go to sleep.
GoldfishTakes(c) ==
    /\ pc[c] = "goldfish" /\ queue[Ready] # <<>>
    /\ to_kill' = [to_kill EXCEPT ![c] = None]
    /\ SwitchFrom(c, queue)
    /\ UNCHANGED <<life, cont, arg>> /\ UNCHANGED cpuVars /\ UNCHANGED mutexVars

GoldfishSleeps(c) ==
    /\ pc[c] = "goldfish" /\ queue[Ready] = <<>>
    /\ to_kill' = [to_kill EXCEPT ![c] = None]
    /\ is_idle' = [is_idle EXCEPT ![c] = TRUE]
    /\ GuardUnlock(c, "drowsy")
    /\ UNCHANGED <<cpu_vec, ipi, last_context, queue, life, cont, arg>> /\ UNCHANGED mutexVars

\* interrupt_enable_suspend, external: sleep until an IPI, also one sent before.
Suspend(c) ==
    /\ pc[c] = "drowsy"
    /\ pc' = [pc EXCEPT ![c] = "suspended"]
    /\ UNCHANGED <<guard, last_context, to_kill, queue, life, cont, arg>>
    /\ UNCHANGED cpuVars /\ UNCHANGED mutexVars

\* ipi_handler does nothing; the interrupt ends a suspension.
DeliverIPI(c) ==
    /\ ipi[c] /\ pc[c] \in {"user", "suspended", "woken"}
    /\ ipi' = [ipi EXCEPT ![c] = FALSE]
    /\ pc' = [pc EXCEPT ![c] = IF @ = "suspended" THEN "woken" ELSE @]
    /\ UNCHANGED <<guard, cpu_vec, is_idle, last_context, to_kill, queue, life, cont, arg>>
    /\ UNCHANGED mutexVars

GoldfishLoops(c) ==
    /\ pc[c] = "woken" /\ guard = None
    /\ guard' = c
    /\ pc' = [pc EXCEPT ![c] = "goldfish"]
    /\ UNCHANGED <<last_context, to_kill, queue, life, cont, arg>>
    /\ UNCHANGED cpuVars /\ UNCHANGED mutexVars

\* Faults: the handler does not look whether the CPU runs a thread; it takes the idle
\* CPUs for the running ones.
TimerUnchecked(c) ==
    /\ pc[c] \in {"user", "woken"} /\ guard = None
    /\ IF queue[Ready] # <<>> THEN swap_self_to_queue(c, Ready, queue)
       ELSE IF pc[c] = "user" THEN NoSwitch(c, queue)
            ELSE UNCHANGED <<guard, queue, pc, last_context>>
    /\ UNCHANGED <<to_kill, life, cont, arg>> /\ UNCHANGED cpuVars /\ UNCHANGED mutexVars

TimerOnIdle(c) ==
    /\ pc[c] \in {"user", "woken"} /\ guard = None
    /\ IF is_idle[c] /\ Self(c) # None /\ queue[Ready] # <<>>
       THEN swap_self_to_queue(c, Ready, queue)
       ELSE IF pc[c] = "user" THEN NoSwitch(c, queue)
            ELSE UNCHANGED <<guard, queue, pc, last_context>>
    /\ UNCHANGED <<to_kill, life, cont, arg>> /\ UNCHANGED cpuVars /\ UNCHANGED mutexVars

\* timer_interrupt_handler: preempt a running thread when another is ready.  It
\* may also come on a CPU that has just been woken, which runs no thread.
Timer(c) ==
    /\ pc[c] \in {"user", "woken"} /\ guard = None
    /\ IF ~is_idle[c] /\ Self(c) # None
       THEN IF queue[Ready] # <<>> THEN swap_self_to_queue(c, Ready, queue)
            ELSE NoSwitch(c, queue)
       ELSE IF pc[c] = "user" THEN NoSwitch(c, queue)
            ELSE UNCHANGED <<guard, queue, pc, last_context>>
    /\ UNCHANGED <<to_kill, life, cont, arg>> /\ UNCHANGED cpuVars /\ UNCHANGED mutexVars

-----------------------------------------------------------------------------
(* Threads, thread.cpp.                                                    *)

Create(c, t) ==
    /\ Calls(c) /\ life[t] = "unborn" /\ t # Main
    /\ life' = [life EXCEPT ![t] = "alive"]
    /\ check_ready_and_wake(Len(queue[Ready]) + 1)
    /\ NoSwitch(c, Readied(queue, <<t>>))
    /\ UNCHANGED <<cpu_vec, to_kill, cont, arg>> /\ UNCHANGED mutexVars

\* A call that changes nothing but the guard: construct_thread out of memory,
\* join of a finished thread, yield with nobody ready.
Refused(c) ==
    /\ NoSwitch(c, queue)
    /\ UNCHANGED <<to_kill, life, cont, arg>> /\ UNCHANGED cpuVars /\ UNCHANGED mutexVars

CreateFails(c) == Calls(c) /\ Refused(c)

Join(c, t) ==
    /\ Calls(c) /\ life[t] # "unborn"
    /\ \/ /\ life[t] = "alive"
          /\ swap_self_to_queue(c, t, queue)
          /\ UNCHANGED <<to_kill, life, cont, arg>> /\ UNCHANGED cpuVars /\ UNCHANGED mutexVars
       \/ life[t] = "dead" /\ Refused(c)

Yield(c) ==
    /\ Calls(c)
    /\ \/ /\ queue[Ready] # <<>>
          /\ swap_self_to_queue(c, Ready, queue)
          /\ UNCHANGED <<to_kill, life, cont, arg>> /\ UNCHANGED cpuVars /\ UNCHANGED mutexVars
       \/ queue[Ready] = <<>> /\ Refused(c)

\* Fault: the thread is not marked finished.
ExitStaysAlive(c) ==
    /\ Calls(c)
    /\ check_ready_and_wake(Len(queue[Ready]) + Len(queue[Self(c)]))
    /\ to_kill' = [to_kill EXCEPT ![c] = Self(c)]
    /\ SwitchFrom(c, AllReadied(Self(c)))
    /\ UNCHANGED <<cpu_vec, life, cont, arg>> /\ UNCHANGED mutexVars

\* wrapped_function after func returns: the joiners become ready, and the stack
\* is left to be freed by the CPU's next exit or by its goldfish.
Exit(c) ==
    LET t == Self(c)
    IN  /\ Calls(c)
        /\ life' = [life EXCEPT ![t] = "dead"]
        /\ check_ready_and_wake(Len(queue[Ready]) + Len(queue[t]))
        /\ to_kill' = [to_kill EXCEPT ![c] = t]
        /\ SwitchFrom(c, AllReadied(t))
        /\ UNCHANGED <<cpu_vec, cont, arg>> /\ UNCHANGED mutexVars

-----------------------------------------------------------------------------
(* Mutexes, mutex.cpp.                                                     *)

\* The caller is cv::wait when the thread has still to relock m.
Lock(c, m) ==
    LET t == Self(c)
    IN  /\ MayCall(c)
        /\ cont[t] = "run" \/ (cont[t] = "relock" /\ arg[t] = m)
        /\ cont' = [cont EXCEPT ![t] = "lock"]
        /\ arg' = [arg EXCEPT ![t] = m]
        /\ \/ free[m] /\ NoSwitch(c, queue)
           \/ ~free[m] /\ swap_self_to_queue(c, m, queue)
        /\ free' = [free EXCEPT ![m] = FALSE]
        /\ UNCHANGED <<to_kill, life, owner, held>> /\ UNCHANGED cpuVars

\* Fault: the owner is not compared.
CanReleaseOthers(t, m) == ~free[m]

\* release_lock throws unless the caller owns the mutex.
CanRelease(t, m) == ~free[m] /\ owner[m] = t

\* The first waiter, if any, is handed the mutex: it stays taken, with the owner
\* id 0 until the waiter runs.
Released(m) == IF queue[m] = <<>> THEN queue ELSE FirstReadied(m)

\* Fault: the mutex is free while it is handed over.
release_lockFrees(t, m) ==
    /\ owner' = [owner EXCEPT ![m] = None]
    /\ held' = [held EXCEPT ![t] = @ \ {m}]
    /\ free' = [free EXCEPT ![m] = TRUE]
    /\ IF queue[m] # <<>> THEN check_ready_and_wake(Len(queue[Ready]) + 1)
       ELSE UNCHANGED <<is_idle, ipi>>

release_lock(t, m) ==
    /\ owner' = [owner EXCEPT ![m] = None]
    /\ held' = [held EXCEPT ![t] = @ \ {m}]
    /\ free' = [free EXCEPT ![m] = queue[m] = <<>>]
    /\ IF queue[m] # <<>> THEN check_ready_and_wake(Len(queue[Ready]) + 1)
       ELSE UNCHANGED <<is_idle, ipi>>

Unlock(c, m) ==
    /\ Calls(c)
    /\ \/ /\ CanRelease(Self(c), m)
          /\ release_lock(Self(c), m)
          /\ NoSwitch(c, Released(m))
          /\ UNCHANGED <<cpu_vec, to_kill, life, cont, arg>>
       \/ ~CanRelease(Self(c), m) /\ Refused(c)

-----------------------------------------------------------------------------
(* Condition variables, cv.cpp.                                            *)

Wait(c, v, m) ==
    LET t == Self(c)
    IN  /\ Calls(c)
        /\ \/ /\ CanRelease(t, m)
              /\ release_lock(t, m)
              /\ swap_self_to_queue(c, v, Released(m))
              /\ cont' = [cont EXCEPT ![t] = "wait"]
              /\ arg' = [arg EXCEPT ![t] = m]
              /\ UNCHANGED <<cpu_vec, to_kill, life>>
           \/ ~CanRelease(t, m) /\ Refused(c)

Signal(c, v) ==
    /\ Calls(c)
    /\ \/ /\ queue[v] # <<>>
          /\ check_ready_and_wake(Len(queue[Ready]) + 1)
          /\ NoSwitch(c, FirstReadied(v))
          /\ UNCHANGED <<cpu_vec, to_kill, life, cont, arg>> /\ UNCHANGED mutexVars
       \/ queue[v] = <<>> /\ Refused(c)

Broadcast(c, v) ==
    /\ Calls(c)
    /\ check_ready_and_wake(Len(queue[Ready]) + Len(queue[v]))
    /\ NoSwitch(c, AllReadied(v))
    /\ UNCHANGED <<cpu_vec, to_kill, life, cont, arg>> /\ UNCHANGED mutexVars

-----------------------------------------------------------------------------
\* What the library and the machine do on a CPU, and what the application does.
Kernel(c) ==
    \/ Resume(c) \/ Boot(c) \/ GoldfishTakes(c) \/ GoldfishSleeps(c) \/ GoldfishLoops(c)
    \/ Suspend(c) \/ DeliverIPI(c)

Application(c) ==
    \/ \E t \in Threads : Create(c, t) \/ Join(c, t)
    \/ CreateFails(c) \/ Yield(c) \/ Exit(c)
    \/ \E m \in Mutexes : Lock(c, m) \/ Unlock(c, m) \/ \E v \in CVs : Wait(c, v, m)
    \/ \E v \in CVs : Signal(c, v) \/ Broadcast(c, v)

Next == \E c \in CPUs : Kernel(c) \/ Timer(c) \/ Application(c)

Spec == Init /\ [][Next]_vars

\* Interrupts that are sent arrive, the library's own code is never stopped, the
\* spin lock does not pass over a CPU for ever and the timer keeps ticking.
FairSpec ==
    /\ Spec
    /\ \A c \in CPUs :
        WF_vars(Kernel(c)) /\ SF_vars(GoldfishLoops(c)) /\ SF_vars(Timer(c))

-----------------------------------------------------------------------------
(* Properties.                                                             *)

\* Every variable has its type.
TypeOK ==
    /\ guard \in CPUs \cup {None}
    /\ cpu_vec \in Seq(CPUs)
    /\ pc \in [CPUs -> Places]
    /\ is_idle \in [CPUs -> BOOLEAN]
    /\ ipi \in [CPUs -> BOOLEAN]
    /\ last_context \in [CPUs -> Threads \cup {None}]
    /\ to_kill \in [CPUs -> Threads \cup {None}]
    /\ queue \in [Queues -> Seq(Threads)]
    /\ free \in [Mutexes -> BOOLEAN]
    /\ owner \in [Mutexes -> Threads \cup {None}]
    /\ life \in [Threads -> {"unborn", "alive", "dead"}]
    /\ cont \in [Threads -> Continuations]
    /\ arg \in [Threads -> Mutexes \cup {None}]
    /\ held \in [Threads -> SUBSET Mutexes]

\* No two threads are ever inside the same mutex, whatever they call and however
\* they are preempted and moved between CPUs (mutex::lock, mutex::release_lock).
MutualExclusion == \A t, u \in Threads : held[t] \cap held[u] # {} => t = u

\* Only code that holds the guard is inside the library, and one CPU at a time:
\* the guard passes through every context switch without a gap.
GuardHeld == \A c \in CPUs : pc[c] \in {"kernel", "goldfish"} <=> guard = c

\* A context is in one place only: no two CPUs run it, no queue has it twice, and
\* it is a live thread's (the moves of unique_ptr<managed_uc>).
NoContextTwice ==
    /\ \A q, r \in Queues : \A i \in DOMAIN queue[q], j \in DOMAIN queue[r] :
        queue[q][i] = queue[r][j] => q = r /\ i = j
    /\ \A q \in Queues : \A i \in DOMAIN queue[q] :
        life[queue[q][i]] = "alive" /\ \A c \in CPUs : last_context[c] # queue[q][i]
    /\ \A c, d \in CPUs : last_context[c] # None =>
        life[last_context[c]] = "alive" /\ (last_context[c] = last_context[d] => c = d)

\* No unfinished thread is dropped: a CPU runs it or a queue has it.
NoContextLost ==
    \A t \in Threads : life[t] = "alive" =>
        \/ \E c \in CPUs : last_context[c] = t
        \/ \E q \in Queues : \E i \in DOMAIN queue[q] : queue[q][i] = t

\* The stack of the context a CPU runs on is not freed: a stack left in to_kill is
\* a finished thread's and is freed by that CPU only.
StacksFreedOnce ==
    \A c, d \in CPUs : to_kill[c] # None =>
        life[to_kill[c]] = "dead" /\ (to_kill[c] = to_kill[d] => c = d)

\* The thread that unlock or wait handed the mutex m to, and which has still to run.
Granted(t, m) ==
    /\ cont[t] = "lock" /\ arg[t] = m /\ life[t] = "alive"
    /\ \A i \in DOMAIN queue[m] : queue[m][i] # t

\* A mutex nobody has is free, and nobody waits for a free mutex: hand-over never
\* loses it (release_lock leaves it taken, with owner 0, for the first waiter).
MutexNotLost ==
    \A m \in Mutexes :
        IF free[m] THEN queue[m] = <<>> /\ owner[m] = None
        ELSE owner[m] # None \/ \E t \in Threads : Granted(t, m)

\* Nobody waits to join a thread that has finished.
JoinersReleased == \A t \in Threads : queue[t] # <<>> => life[t] = "alive"

\* A CPU that has nothing to do and that no interrupt is going to wake.
Asleep(c) == pc[c] \in {"drowsy", "suspended"} /\ ~ipi[c]

\* A CPU that will look at the ready queue without being interrupted.
Looking(c) == pc[c] \in {"goldfish", "woken"} \/ (pc[c] \in {"drowsy", "suspended"} /\ ipi[c])

\* "checks ready queue and wakes up idle processors if they could be used"
\* (cpu.cpp:149): no CPU sleeps while more threads are ready than CPUs are on
\* their way to the ready queue.
WorkConserving ==
    (\E c \in CPUs : Asleep(c)) =>
        Len(queue[Ready]) <= Cardinality({c \in CPUs : Looking(c)})

\* A ready thread gets a CPU, even if the running threads never call the library.
ReadyRuns ==
    \A t \in Threads :
        (\E i \in DOMAIN queue[Ready] : queue[Ready][i] = t)
            ~> (\E c \in CPUs : pc[c] = "user" /\ last_context[c] = t)

-----------------------------------------------------------------------------
(* What the application sees.                                              *)

holder == [m \in Mutexes |-> {t \in Threads : m \in held[t] \/ Granted(t, m)}]
line == [x \in Threads \cup Mutexes \cup CVs |-> queue[x]]

Abstract == INSTANCE Monitor

\* Calls take effect at once and mutexes pass on in the order of the calls to lock and
\* wait, as if each thread had a CPU of its own: switches, preemptions, interrupts and
\* the boot of CPUs never show (mutex.cpp, cv.cpp, thread.cpp on top of cpu.cpp).
ImplementsMonitor == Abstract!Spec
=============================================================================
