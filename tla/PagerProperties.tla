--------------------------- MODULE PagerProperties ---------------------------
(***************************************************************************)
(* What is checked of the pager.                                           *)
(***************************************************************************)
EXTENDS Pager

Page ==
    [affiliated : SUBSET PTEs, spare : SUBSET SwapBlocks, PPN : Frames \cup {NullPage, None},
     dirty : BOOLEAN, resident : BOOLEAN]

\* The pager's data have the types of its declarations; the next page of an arena is never
\* more than one past the end of the page table (the check at the start of vm_map).
TypeOK ==
    /\ vm.process_table \subseteq Pids
    /\ vm.translateVA \in [Pids -> [VAs -> PageIds \cup {None}]]
    /\ vm.next_free_VA \in [Pids -> 1 .. page_table_size + 1]
    /\ vm.filename_block_to_vpage \in [FileBlocks -> PageIds \cup {None}]
    /\ vm.next_free_swap \subseteq SwapBlocks
    /\ vm.next_free_PPN \subseteq Frames
    /\ vm.clock_queue \in Seq(PageIds \cup {Expired})
    /\ vm.current_pid \in Pids \cup {None}
    /\ \A v \in PageIds : vm.vpages[v] = None \/ vm.vpages[v] \in Page
    /\ vm.vm_physmem \in [Frames \cup {NullPage} -> Values]
    /\ vm.disk \in [SwapBlocks \cup FileBlocks -> Values]
    /\ vm.accessible \subseteq FileBlocks
    /\ vm.aborted \in BOOLEAN
    /\ running \in Pids \cup {None}
    /\ doomed \in BOOLEAN

\* The pager's own assertions hold: those of updatePTEs, those at the end of every call, and
\* the one in vm_fault for every fault on a write that can come next.  No sequence of calls
\* aborts the pager.
AssertsHold ==
    /\ ~vm.aborted
    /\ assert_structure_consistency(vm)
    /\ Runs => \A va \in VAs :
        PageAt(vm, va) # None /\ ~Entry(va).write_enable => assert_dirty_fault(vm, PageAt(vm, va))

Pages == {v \in PageIds : vm.vpages[v] # None}
InMemory == {v \in Pages : vm.vpages[v].PPN \in Frames}

\* Every physical page is free, or it belongs to exactly one page, which is on the clock
\* exactly once.  Nothing is lost when pages are evicted, copied, destroyed or fail to be
\* read (give_new_ppn, evict_and_replace, return_ppn_remove_from_clock).
FramesAccounted ==
    /\ vm.next_free_PPN = Frames \ {vm.vpages[v].PPN : v \in InMemory}
    /\ \A v, w \in InMemory : vm.vpages[v].PPN = vm.vpages[w].PPN => v = w
    /\ \A v \in InMemory :
        Cardinality({i \in DOMAIN vm.clock_queue : vm.clock_queue[i] = v}) = 1

\* Every block of the swap file is free or reserved for exactly one private page of one
\* process, so that an eviction never lacks a block (vm_create, make_swap_to_nullpage,
\* the copy in vm_fault, vm_destroy).
SwapAccounted ==
    LET blocks(v) == {v} \cup vm.vpages[v].spare
        private == Pages \cap SwapBlocks
    IN  /\ vm.next_free_swap = SwapBlocks \ UNION {blocks(v) : v \in private}
        /\ \A v, w \in private : v # w => blocks(v) \cap blocks(w) = {}

\* A page in memory that is not dirty is on the disk as it is in memory, so it may be
\* evicted without being written (evict_and_replace); the null page is never written to.
CleanOnDisk ==
    /\ vm.vm_physmem[NullPage] = Zero
    /\ \A v \in InMemory :
        vm.vpages[v].dirty \/ vm.disk[FrontBlock(v)] = vm.vm_physmem[vm.vpages[v].PPN]

\* A fault that succeeds has made the access possible, also if a page had to be evicted or
\* copied for it: the process does not fault forever (vm_fault).
FaultsResolve ==
    [][\A va \in VAs, write_flag \in BOOLEAN :
        Fault(va, write_flag) /\ out' # Fail =>
            IF write_flag THEN Entry(va)'.write_enable ELSE Entry(va)'.read_enable]_vars

-----------------------------------------------------------------------------
(* The memory that the processes see.                                      *)

PageContents(v) ==
    IF vm.vpages[v].resident THEN vm.vm_physmem[vm.vpages[v].PPN] ELSE vm.disk[FrontBlock(v)]

ArenaPage(v) ==
    IF isSwap(v) THEN [file |-> None, value |-> PageContents(v)]
    ELSE [file |-> FrontBlock(v), value |-> Zero]

Arena ==
    [p \in Pids |-> IF p \in vm.process_table
                    THEN [va \in 1 .. vm.next_free_VA[p] - 1 |-> ArenaPage(vm.translateVA[p][va])]
                    ELSE None]

FileContents ==
    [fb \in FileBlocks |-> LET v == vm.filename_block_to_vpage[fb]
                           IN  IF v = None THEN vm.disk[fb] ELSE PageContents(v)]

Memory == INSTANCE ProcessMemory WITH
    arena <- Arena, files <- FileContents, accessible <- vm.accessible

\* The pager implements the memory of vm_pager.h: copying on write, eviction and reading
\* back are not seen, processes are apart, file pages are shared, and calls fail only for
\* the reasons given there.
ImplementsMemory == Memory!Spec
=============================================================================
