-------------------------------- MODULE Pager --------------------------------
(***************************************************************************)
(* The external pager, src/pager_library: the arenas of several processes   *)
(* over few physical pages.  Private pages are backed by the swap file and  *)
(* copied on write, file pages are shared by all who map the same block of  *)
(* the same file, and a clock chooses which page leaves memory.             *)
(*                                                                         *)
(* The kernel calls the pager for one process at a time, so a call is one   *)
(* step.  A call may run vm_fault inside vm_map, or vm_fault inside         *)
(* vm_fault; the operators below therefore take the pager's data m and give *)
(* the data after the call, or the set of the possible results where a      *)
(* choice is left open.  Open are only which free page or block is taken    *)
(* (the code keeps deques, "don't need to be FIFO, but doing so for         *)
(* simplicity"), which spare block is given up, and what file_read returns. *)
(***************************************************************************)
EXTENDS Integers, Sequences, FiniteSets

CONSTANTS
    Pids,
    page_table_size,
    Frames,         \* the physical pages 1 .. memory_pages - 1
    NullPage,       \* physical page 0, which always holds zeroes
    SwapBlocks,     \* the blocks of the swap file
    Files, Blocks,  \* the files that names can denote, and the blocks mapped of them
    Values, Zero,   \* contents of a page; Zero is the page full of zeroes
    Garbage,        \* what memory and swap file hold when the pager starts
    FileName(_),    \* the file whose name is in pages with these contents
    MaxTwins,       \* bound: virtual pages at one time for one block of a file
    NamesKnown,     \* are the names for vm_map only where reading cannot fail?  See NameKnown
    Ok, Fail,       \* what a call returns: 0, or -1 and nullptr
    None, Expired

FileBlocks == Files \X Blocks

\* The pages of the arena, in the order of their addresses.
VAs == 1 .. page_table_size

\* The VirtualPage objects.  A page of the swap file goes by blocks.front(), which it
\* keeps as long as it lives; a page of a file goes by its block and a number.
FilePages == FileBlocks \X (1 .. MaxTwins)
PageIds == SwapBlocks \cup FilePages

isSwap(v) == v \in SwapBlocks
FrontBlock(v) == IF isSwap(v) THEN v ELSE v[1]

ASSUME PagerAssumption ==
    /\ page_table_size \in Nat /\ MaxTwins \in Nat
    /\ Frames # {} /\ NullPage \notin Frames /\ None \notin Frames \cup {NullPage}
    /\ SwapBlocks \cap (FileBlocks \cup FilePages) = {}
    /\ {None, Expired} \cap PageIds = {} /\ None # Expired
    /\ None \notin Pids /\ Zero \in Values /\ Garbage \in Values
    /\ Fail \notin Values \cup VAs \cup Files \cup {Ok}
    /\ IsFiniteSet(Frames) /\ IsFiniteSet(SwapBlocks) /\ IsFiniteSet(Pids)

VARIABLES
    vm,        \* the pager's data, memory and disk: see Init
    running,   \* the process the kernel runs, or None between two processes
    doomed,    \* the running process is being ended by the kernel
    out        \* what the last call or load returned, where it matters

vars == <<vm, running, doomed, out>>

\* A PTE is named by its process and page: VA_to_PTE(va, process_table[pid]).
PTEs == Pids \X VAs
NullPTE == [read_enable |-> FALSE, write_enable |-> FALSE, ppage |-> None]

\* struct VirtualPage with its PhysicalPage; PPN = None where physicalPage is null.
\* spare is blocks without the first one.
NewPage(pte) ==
    [affiliated |-> {pte}, spare |-> {}, PPN |-> None, dirty |-> FALSE, resident |-> FALSE]

-----------------------------------------------------------------------------
(* Pages and page tables, Page.cpp.                                        *)

\* clocked is kept as the set of the pages whose bit is set.
Readable(m, v) == m.vpages[v].resident /\ v \in m.clocked

Writable(m, v) ==
    /\ Readable(m, v) /\ m.vpages[v].dirty
    /\ isSwap(v) => Cardinality(m.vpages[v].affiliated) = 1

\* ppage keeps its old value where there is no physical page; nothing looks at it there.
EntryOf(m, v) ==
    [read_enable |-> Readable(m, v), write_enable |-> Writable(m, v), ppage |-> m.vpages[v].PPN]

\* What updatePTEs asserts: somebody has the page, and a private page that can be read has
\* a block for each who has it.
assert_affiliated(m, v) ==
    LET page == m.vpages[v]
    IN  /\ page.affiliated # {}
        /\ isSwap(v) /\ Readable(m, v) =>
            Cardinality(page.affiliated) = Cardinality(page.spare) + 1

\* updatePTEs on each of the pages V.
updatePTEs(m, V) ==
    [m EXCEPT !.ptes = [a \in PTEs |->
                  IF \E v \in V : a \in m.vpages[v].affiliated
                  THEN EntryOf(m, CHOOSE v \in V : a \in m.vpages[v].affiliated)
                  ELSE m.ptes[a]],
              !.aborted = @ \/ \E v \in V : ~assert_affiliated(m, v)]

\* A page of a file may have no mapping left; then there are no PTEs to update.
Mapped(m, V) == {v \in V : m.vpages[v].affiliated # {}}

\* The page v leaves memory.
Unloaded(m, v) ==
    [m EXCEPT !.vpages[v].resident = FALSE, !.vpages[v].PPN = None,
              !.vpages[v].dirty = FALSE, !.clocked = @ \ {v}]

-----------------------------------------------------------------------------
(* Physical pages and the clock, vm_pager.cpp.                             *)

\* The page v is destroyed with its last reference; those of the clock are weak.
Destructed(m, v) ==
    [m EXCEPT !.vpages[v] = None, !.clocked = @ \ {v},
              !.clock_queue = [i \in DOMAIN @ |-> IF @[i] = v THEN Expired ELSE @[i]]]

\* The table's entry for the block of v goes, whichever page it is for.
remove_from_filename_block(m, v) ==
    LET listed == m.filename_block_to_vpage[FrontBlock(v)]
        n == [m EXCEPT !.filename_block_to_vpage[FrontBlock(v)] = None]
    IN  IF listed # None /\ m.vpages[listed].affiliated = {} THEN Destructed(n, listed) ELSE n

\* The front of the clock goes to the back, losing its bit, as long as it has one.
\* After a full turn the first page has lost its bit.
Unclocked(m) == {i \in DOMAIN m.clock_queue : m.clock_queue[i] \notin m.clocked}
Victim(m) ==
    IF Unclocked(m) = {} THEN 1
    ELSE CHOOSE i \in Unclocked(m) : \A j \in Unclocked(m) : i <= j
Passed(m) ==
    {m.clock_queue[i] : i \in {k \in DOMAIN m.clock_queue :
                                Unclocked(m) = {} \/ k < Victim(m)}}
Swept(m) ==
    LET q == m.clock_queue
    IN  updatePTEs([m EXCEPT !.clocked = @ \ Passed(m),
                             !.clock_queue = SubSeq(q, Victim(m) + 1, Len(q))
                                             \o SubSeq(q, 1, Victim(m) - 1)],
                   Mapped(m, Passed(m)))

\* Fault: dirty pages are not written.
WrittenBackNever(m, e) == m

\* A dirty page is written to its first block.
WrittenBack(m, e) ==
    IF m.vpages[e].dirty
    THEN [m EXCEPT !.disk[FrontBlock(e)] = m.vm_physmem[m.vpages[e].PPN]]
    ELSE m

\* The page v gets the physical page f.
Placed(m, v, f) ==
    [m EXCEPT !.vpages[v].PPN = f, !.vpages[v].dirty = FALSE, !.clocked = @ \cup {v},
              !.clock_queue = Append(@, v)]

evict_and_replace(m, v) ==
    LET e == m.clock_queue[Victim(m)]
        written == WrittenBack(Swept(m), e)
        replaced == updatePTEs(Placed(written, v, written.vpages[e].PPN), {v})
        evicted == updatePTEs(Unloaded(replaced, e), Mapped(replaced, {e}))
    IN  IF ~isSwap(e) /\ evicted.vpages[e].affiliated = {}
        THEN Destructed(remove_from_filename_block(evicted, e), e)
        ELSE evicted

\* Fault: the physical page stays on the list of free ones.
give_new_ppnListed(m, v) ==
    {[n EXCEPT !.vpages[v].resident = TRUE] :
        n \in IF m.next_free_PPN = {} THEN {evict_and_replace(m, v)}
              ELSE {Placed(m, v, f) : f \in m.next_free_PPN}}

give_new_ppn(m, v) ==
    {[n EXCEPT !.vpages[v].resident = TRUE] :
        n \in IF m.next_free_PPN = {} THEN {evict_and_replace(m, v)}
              ELSE {[Placed(m, v, f) EXCEPT !.next_free_PPN = @ \ {f}] : f \in m.next_free_PPN}}

return_ppn_remove_from_clock(m, v) ==
    updatePTEs(Unloaded([m EXCEPT !.next_free_PPN = @ \cup {m.vpages[v].PPN},
                                  !.clock_queue = SelectSeq(@, LAMBDA u : u # v)], v),
               {v})

-----------------------------------------------------------------------------
(* Faults.  A result is the data after the call and what the call returns. *)

Returns(m, res) == [m |-> m, res |-> res]

\* The page of a virtual address of the current process, or None.
PageAt(m, va) == IF va \in VAs THEN m.translateVA[m.current_pid][va] ELSE None

\* affiliated.front()->read_enable; the PTEs of a page agree.
ReadEnabled(m, v) == \E a \in m.vpages[v].affiliated : m.ptes[a].read_enable

WithFrame(m, v, value) == [m EXCEPT !.vm_physmem[m.vpages[v].PPN] = value]

\* Fault: the physical page is not returned.
ReadFailedKeeps(m, v) ==
    updatePTEs(Unloaded(IF Cardinality(m.vpages[v].affiliated) = 1
                        THEN remove_from_filename_block(m, v) ELSE m, v),
               {v})

\* file_read failed: a file page with one mapping is taken out of the table of file
\* pages, and the physical page is returned.
ReadFailed(m, v) ==
    return_ppn_remove_from_clock(
        IF Cardinality(m.vpages[v].affiliated) = 1 THEN remove_from_filename_block(m, v) ELSE m,
        v)

\* Reading the page v from its first block into its physical page.  External: file_read
\* succeeds on the swap file and on what has been accessed with success before.  Any other
\* block can be read or not, now and at the next try.
ReadIn(m, v) ==
    LET b == FrontBlock(v)
        read == WithFrame(m, v, m.disk[b])
        done == Returns(IF isSwap(v) THEN read ELSE [read EXCEPT !.accessible = @ \cup {b}], Ok)
    IN  {done} \cup (IF isSwap(v) \/ b \in m.accessible THEN {}
                      ELSE {Returns(ReadFailed(m, v), Fail)})

\* The page v gets a physical page of its own, with its contents.
Resident(m, v) ==
    IF m.vpages[v].resident /\ m.vpages[v].PPN # NullPage THEN {Returns(m, Ok)}
    ELSE UNION {IF m.vpages[v].resident
                THEN {Returns(WithFrame(n, v, Zero), Ok)}
                ELSE ReadIn(n, v) : n \in give_new_ppn(m, v)}

\* Fault: the access is not noted for the clock.
TouchedUnclocked(m, v, write_flag) ==
    updatePTEs([m EXCEPT !.vpages[v].dirty = @ \/ write_flag], {v})

\* The page has been accessed.
Touched(m, v, write_flag) ==
    updatePTEs([m EXCEPT !.vpages[v].dirty = @ \/ write_flag, !.clocked = @ \cup {v}], {v})

PlainFault(m, v, write_flag) ==
    {IF r.res = Ok THEN Returns(Touched(r.m, v, write_flag), Ok) ELSE r : r \in Resident(m, v)}

\* Fault: the page keeps the block it gave to its copy.
SplitKeepsBlock(m, va, v, u) ==
    [m EXCEPT !.vpages[u] = NewPage(<<m.current_pid, va>>),
              !.vpages[v].affiliated = @ \ {<<m.current_pid, va>>},
              !.translateVA[m.current_pid][va] = u]

\* The current process gets a copy of the shared page v, on the spare block u.
Split(m, va, v, u) ==
    [m EXCEPT !.vpages[u] = NewPage(<<m.current_pid, va>>),
              !.vpages[v].affiliated = @ \ {<<m.current_pid, va>>},
              !.vpages[v].spare = @ \ {u},
              !.translateVA[m.current_pid][va] = u]

\* Faults: the copy is not dirty; the PTEs of the original are not updated.
CopiedClean(m, v, u) ==
    updatePTEs(IF m.vpages[v].resident
               THEN WithFrame(m, u, m.vm_physmem[m.vpages[v].PPN]) ELSE m, {v, u})
CopiedOldPTEs(m, v, u) ==
    updatePTEs([(IF m.vpages[v].resident
                 THEN WithFrame(m, u, m.vm_physmem[m.vpages[v].PPN]) ELSE m)
                EXCEPT !.vpages[u].dirty = TRUE], {u})

\* If the page itself was evicted to make room, its data is already in place.
Copied(m, v, u) ==
    LET n == IF m.vpages[v].resident
             THEN WithFrame(m, u, m.vm_physmem[m.vpages[v].PPN]) ELSE m
    IN  updatePTEs([n EXCEPT !.vpages[u].dirty = TRUE], {v, u})

CopyOnWrite(m, va, v) ==
    UNION {{Returns(Copied(n, v, u), Ok) : n \in give_new_ppn(Split(m, va, v, u), u)} :
           u \in m.vpages[v].spare}

vm_fault(m, va, write_flag) ==
    LET v == PageAt(m, va)
    IN  IF v = None THEN {Returns(m, Fail)}
        ELSE IF write_flag /\ m.vpages[v].spare # {}
        THEN UNION {IF r.res = Ok THEN CopyOnWrite(r.m, va, v) ELSE {r} :
                    r \in IF ReadEnabled(m, v) THEN {Returns(m, Ok)}
                          ELSE PlainFault(m, v, FALSE)}
        ELSE PlainFault(m, v, write_flag)

-----------------------------------------------------------------------------
(* Mapping.                                                                *)

\* A new page that reads as the null page.
NullBacked(pte) == [NewPage(pte) EXCEPT !.resident = TRUE, !.PPN = NullPage]

\* The process pid gets a new private page, with the swap block b.
make_swap_to_nullpage(m, va, pid, b) ==
    updatePTEs([m EXCEPT !.translateVA[pid][va] = b, !.next_free_swap = @ \ {b},
                         !.vpages[b] = NullBacked(<<pid, va>>), !.clocked = @ \cup {b}], {b})

\* One page of a name in the address space of the current process.  The result has
\* the contents of the page, read after the fault the reading may cause.
ReadNamePage(m, va) ==
    LET v == PageAt(m, va)
    IN  IF v = None THEN {Returns(m, Fail)}
        ELSE {IF r.res = Fail THEN r
              ELSE Returns(r.m, r.m.vm_physmem[r.m.vpages[v].PPN]) :
              r \in IF ReadEnabled(m, v) THEN {Returns(m, Ok)} ELSE vm_fault(m, va, FALSE)}

\* A name that ends in the page va, or in the next one if it crosses.  A page of zeroes
\* ends the name.  What the name is depends on the contents of the pages.
ReadName(m, va, crosses) ==
    UNION {IF r.res = Fail THEN {r}
           ELSE IF ~crosses \/ r.res = Zero THEN {Returns(r.m, FileName(<<r.res>>))}
           ELSE {IF s.res = Fail THEN s ELSE Returns(s.m, FileName(<<r.res, s.res>>)) :
                 s \in ReadNamePage(r.m, va + 1)} :
           r \in ReadNamePage(m, va)}

\* Fault: the page does not know of the new mapping.
MapKnownUnaffiliated(m, va, v) ==
    updatePTEs([m EXCEPT !.translateVA[m.current_pid][va] = v], {v})

\* The page v is mapped at va, in addition to where it is mapped already.
MapKnown(m, va, v) ==
    updatePTEs([m EXCEPT !.translateVA[m.current_pid][va] = v,
                         !.vpages[v].affiliated = @ \cup {<<m.current_pid, va>>}], {v})

\* A new page for the block fb is mapped at va.
MapNew(m, va, fb, v) ==
    updatePTEs([m EXCEPT !.translateVA[m.current_pid][va] = v,
                         !.filename_block_to_vpage[fb] = v,
                         !.vpages[v] = NewPage(<<m.current_pid, va>>)], {v})

\* Fault: the table of file pages is not looked at.
MapFileAnew(m, va, fb) ==
    {MapNew(m, va, fb, <<fb, k>>) : k \in {i \in 1 .. MaxTwins : m.vpages[<<fb, i>>] = None}}

MapFile(m, va, fb) ==
    LET unused == {k \in 1 .. MaxTwins : m.vpages[<<fb, k>>] = None}
    IN  IF m.filename_block_to_vpage[fb] # None
        THEN {MapKnown(m, va, m.filename_block_to_vpage[fb])}
        ELSE {MapNew(m, va, fb, <<fb, k>>) : k \in {i \in unused : \A j \in unused : i <= j}}

\* The end of a successful vm_map.
Extended(m, va) == Returns([m EXCEPT !.next_free_VA[m.current_pid] = @ + 1], va)

\* Fault: the end of the arena is not checked.
vm_map_swapUnchecked(m) ==
    {Extended(make_swap_to_nullpage(m, m.next_free_VA[m.current_pid], m.current_pid, b),
              m.next_free_VA[m.current_pid]) : b \in m.next_free_swap}

\* vm_map(nullptr, 0).
vm_map_swap(m) ==
    LET va == m.next_free_VA[m.current_pid]
    IN  IF va > page_table_size \/ m.next_free_swap = {} THEN {Returns(m, Fail)}
        ELSE {Extended(make_swap_to_nullpage(m, va, m.current_pid, b), va) :
              b \in m.next_free_swap}

vm_map_file(m, name_va, crosses, block) ==
    LET va == m.next_free_VA[m.current_pid]
    IN  IF va > page_table_size THEN {Returns(m, Fail)}
        ELSE UNION {IF r.res = Fail THEN {r}
                    ELSE {Extended(n, va) : n \in MapFile(r.m, va, <<r.res, block>>)} :
                    r \in ReadName(m, name_va, crosses)}

-----------------------------------------------------------------------------
(* Processes.                                                              *)

\* A process without pages.
Added(m, child) == [m EXCEPT !.process_table = @ \cup {child}, !.next_free_VA[child] = 1]

\* The child gets every page of the parent.  Pages that read as the null page are made
\* anew, the others are shared; each private page takes a swap block more: new[va].
Shared(m, parent, child, new) ==
    LET of == m.translateVA[parent]
        nulls == {va \in VAs : of[va] # None /\ m.vpages[of[va]].PPN = NullPage}
        shared == {va \in VAs \ nulls : of[va] # None}
        made == {new[va] : va \in nulls}
        table == [va \in VAs |-> IF va \in nulls THEN new[va] ELSE of[va]]
        mappedAt(v) == {va \in VAs : table[va] = v}
        newFor(v) == {new[va] : va \in mappedAt(v) \cap DOMAIN new}
        pages == [v \in PageIds |->
            IF v \in made THEN NullBacked(CHOOSE a \in {child} \X mappedAt(v) : TRUE)
            ELSE IF mappedAt(v) = {} THEN m.vpages[v]
            ELSE [m.vpages[v] EXCEPT !.affiliated = @ \cup ({child} \X mappedAt(v)),
                                     !.spare = @ \cup newFor(v)]]
    IN  updatePTEs([m EXCEPT !.vpages = pages,
                             !.clocked = @ \cup made,
                             !.translateVA[child] = table,
                             !.next_free_VA[child] = m.next_free_VA[parent],
                             !.next_free_swap = @ \ {new[va] : va \in DOMAIN new}],
                   made \cup {of[va] : va \in shared})

\* vm_create where the parent is managed.
vm_create(m, parent, child) ==
    LET of == m.translateVA[parent]
        private == {va \in VAs : of[va] # None /\ isSwap(of[va])}
        choices == {new \in [private -> m.next_free_swap] :
                      \A x, y \in private : new[x] = new[y] => x = y}
    IN  IF Cardinality(m.next_free_swap) < Cardinality(private) THEN {Returns(m, Fail)}
        ELSE {Returns(Shared(Added(m, child), parent, child, new), Ok) : new \in choices}

\* vm_create where it is not: the child is empty and becomes the current process.
vm_create_root(m, child) == [Added(m, child) EXCEPT !.current_pid = child]

vm_switch(m, pid) == [m EXCEPT !.current_pid = pid]

\* The current process ends.  Each of its private pages gives back a swap block (given,
\* while the page is shared), a page without a block also its physical page.  Pages that
\* nothing refers to any more are destroyed.
Destroyed(m, given) ==
    LET p == m.current_pid
        mine == {m.translateVA[p][va] : va \in VAs} \ {None}
        lasts == {v \in mine : isSwap(v) /\ m.vpages[v].spare = {}}
        freed == {v \in lasts : m.vpages[v].PPN \in Frames}
        left(v) == m.vpages[v].affiliated \ ({p} \X VAs)
        listed(v) == \E fb \in FileBlocks : m.filename_block_to_vpage[fb] = v
        dead == {v \in mine : left(v) = {} /\ ~listed(v)}
        pages == [v \in PageIds |->
            IF v \in dead THEN None
            ELSE IF v \notin mine THEN m.vpages[v]
            ELSE [m.vpages[v] EXCEPT !.affiliated = left(v),
                                     !.spare = @ \ {given[x] : x \in {v} \cap DOMAIN given}]]
        clock == SelectSeq(m.clock_queue, LAMBDA v : v \notin freed)
    IN  updatePTEs(
            [m EXCEPT !.vpages = pages,
                      !.clocked = @ \ dead,
                      !.ptes = [a \in PTEs |-> IF a[1] = p THEN NullPTE ELSE @[a]],
                      !.translateVA[p] = [va \in VAs |-> None],
                      !.next_free_VA[p] = 1,
                      !.process_table = @ \ {p},
                      !.next_free_swap = @ \cup lasts \cup {given[v] : v \in DOMAIN given},
                      !.next_free_PPN = @ \cup {m.vpages[v].PPN : v \in freed},
                      !.clock_queue = [i \in DOMAIN clock |->
                                        IF clock[i] \in dead THEN Expired ELSE clock[i]]],
            {v \in mine : left(v) # {}})

vm_destroy(m) ==
    LET mine == {m.translateVA[m.current_pid][va] : va \in VAs} \cap SwapBlocks
        shared == {v \in mine : m.vpages[v].spare # {}}
    IN  {Destroyed(m, given) : given \in {f \in [shared -> SwapBlocks] :
                                            \A v \in shared : f[v] \in m.vpages[v].spare}}

-----------------------------------------------------------------------------
(* What the pager asserts of its data at the end of every call.            *)

\* The part about the page v, which is mapped at the given places.
PageConsistent(m, v, places) ==
    LET page == m.vpages[v]
    IN  /\ \A a \in places : a[1] \in m.process_table /\ a[2] < m.next_free_VA[a[1]]
        /\ IF isSwap(v)
           THEN /\ ({v} \cup page.spare) \cap m.next_free_swap = {}
                /\ Cardinality(page.spare) + 1 = Cardinality(page.affiliated)
                /\ Cardinality(page.affiliated) > 1 =>
                    \A a \in page.affiliated : ~m.ptes[a].write_enable
           ELSE page.spare = {}
        /\ page.resident <=> page.PPN # None
        /\ page.PPN \notin m.next_free_PPN
        /\ page.affiliated = places
        /\ \A a \in page.affiliated : m.ptes[a] = EntryOf(m, v)
        /\ page.PPN \in Frames => \E i \in DOMAIN m.clock_queue : m.clock_queue[i] = v

assert_structure_consistency(m) ==
    /\ LET mappedAt(v) == {a \in PTEs : m.translateVA[a[1]][a[2]] = v}
       IN  \A v \in PageIds : mappedAt(v) # {} => PageConsistent(m, v, mappedAt(v))
    /\ Len(m.clock_queue) = Cardinality(Frames) - Cardinality(m.next_free_PPN)
    /\ \A i \in DOMAIN m.clock_queue :
        LET v == m.clock_queue[i]
        IN  v # Expired /\ m.vpages[v].resident /\ m.vpages[v].PPN \in Frames

\* What vm_fault asserts of a write to a page that is dirty already.
assert_dirty_fault(m, v) ==
    m.vpages[v].dirty => m.vpages[v].spare # {} \/ v \notin m.clocked

-----------------------------------------------------------------------------
\* vm_init, with any files on the disk.
Init ==
    /\ \E files \in [FileBlocks -> Values] :
        vm = [process_table |-> {},
              current_pid |-> None,
              translateVA |-> [p \in Pids |-> [va \in VAs |-> None]],
              next_free_VA |-> [p \in Pids |-> 1],
              filename_block_to_vpage |-> [fb \in FileBlocks |-> None],
              next_free_swap |-> SwapBlocks,
              next_free_PPN |-> Frames,
              clock_queue |-> <<>>,
              clocked |-> {},
              vpages |-> [v \in PageIds |-> None],
              ptes |-> [a \in PTEs |-> NullPTE],
              vm_physmem |-> [f \in Frames \cup {NullPage} |->
                                IF f = NullPage THEN Zero ELSE Garbage],
              disk |-> [b \in SwapBlocks \cup FileBlocks |->
                                IF b \in SwapBlocks THEN Garbage ELSE files[b]],
              accessible |-> {},
              aborted |-> FALSE]
    /\ running = None
    /\ doomed = FALSE
    /\ out = None

-----------------------------------------------------------------------------
(* The kernel's calls, and the accesses of the running process.  External: *)
(* the kernel calls vm_switch before it runs a process, vm_destroy when the *)
(* running process ends, and vm_fault when the MMU does not allow an access,*)
(* which is then tried again, or ends the process if vm_fault fails.         *)

\* An assertion has ended the pager: one in updatePTEs, or assert(!in_mem.expired()).
Aborted == vm.aborted \/ \E i \in DOMAIN vm.clock_queue : vm.clock_queue[i] = Expired

Runs == running # None /\ ~doomed /\ ~Aborted

\* The running process calls the pager, which returns one of the results.
Calls(results) ==
    /\ Runs
    /\ \E r \in results : vm' = r.m /\ out' = r.res
    /\ UNCHANGED <<running, doomed>>

\* The running process forks.
Create(child) == child \notin vm.process_table /\ Calls(vm_create(vm, running, child))

MapSwap == Calls(vm_map_swap(vm))

\* A page for a name that can be read whenever it is needed: a private one, or one of a file
\* that has been read before.
NameKnown(va) ==
    LET v == PageAt(vm, va)
    IN  v # None /\ ~isSwap(v) => FrontBlock(v) \in vm.accessible

MapFileNamed(va, crosses, block) ==
    /\ Runs
    /\ NamesKnown => NameKnown(va) /\ (crosses => NameKnown(va + 1))
    /\ Calls(vm_map_file(vm, va, crosses, block))

\* A process whose parent the pager does not manage.  It is the parent that ran, so the
\* kernel calls vm_switch before it runs a managed process again.
CreateRoot(child) ==
    /\ ~doomed /\ ~Aborted
    /\ child \notin vm.process_table
    /\ vm' = vm_create_root(vm, child)
    /\ running' = None
    /\ out' = Ok
    /\ UNCHANGED doomed

Switch(p) ==
    /\ ~doomed /\ ~Aborted
    /\ p \in vm.process_table
    /\ vm' = vm_switch(vm, p)
    /\ running' = p
    /\ out' = None
    /\ UNCHANGED doomed

Entry(va) == vm.ptes[<<vm.current_pid, va>>]

Load(va) ==
    /\ Runs
    /\ Entry(va).read_enable
    /\ out' = vm.vm_physmem[Entry(va).ppage]
    /\ UNCHANGED <<vm, running, doomed>>

Store(va, value) ==
    /\ Runs
    /\ Entry(va).write_enable
    /\ vm' = [vm EXCEPT !.vm_physmem[Entry(va).ppage] = value]
    /\ out' = None
    /\ UNCHANGED <<running, doomed>>

Fault(va, write_flag) ==
    /\ Runs
    /\ IF write_flag THEN ~Entry(va).write_enable ELSE ~Entry(va).read_enable
    /\ \E r \in vm_fault(vm, va, write_flag) :
        /\ vm' = r.m
        /\ out' = IF r.res = Fail THEN Fail ELSE None
        /\ doomed' = (r.res = Fail)
    /\ UNCHANGED running

Destroy ==
    /\ running # None /\ ~Aborted
    /\ vm' \in vm_destroy(vm)
    /\ running' = None
    /\ doomed' = FALSE
    /\ out' = None

Next ==
    \/ \E p \in Pids : Create(p) \/ CreateRoot(p) \/ Switch(p)
    \/ MapSwap
    \/ \E va \in VAs, crosses \in BOOLEAN, block \in Blocks : MapFileNamed(va, crosses, block)
    \/ \E va \in VAs :
        \/ Load(va)
        \/ \E value \in Values : Store(va, value)
        \/ \E write_flag \in BOOLEAN : Fault(va, write_flag)
    \/ Destroy

Spec == Init /\ [][Next]_vars
=============================================================================
