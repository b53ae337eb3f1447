---------------------------- MODULE ProcessMemory ----------------------------
(***************************************************************************)
(* What the pager promises its processes (vm_pager.h, vm_app.h): each has   *)
(* an arena of pages.  A private page holds what the process last stored    *)
(* there, or what its parent had there when it forked, or zeroes.  A file   *)
(* page holds what anyone last stored in that block of the file.  There is  *)
(* no physical memory, no copying and no eviction here; the swap file only  *)
(* limits the number of private pages.                                      *)
(***************************************************************************)
EXTENDS Integers, Sequences, FiniteSets

CONSTANTS Pids, page_table_size, SwapBlocks, Files, Blocks, Values, Zero, FileName(_),
          Ok, Fail, None

VARIABLES
    arena,       \* of each process: a sequence of pages, or None
    files,       \* the contents of each block of a file
    accessible,  \* the blocks that have been read, and can be read from then on
    running,
    out          \* what the last call or load returned

vars == <<arena, files, accessible, running, out>>

PrivatePage(value) == [file |-> None, value |-> value]
FilePage(fb) == [file |-> fb, value |-> Zero]

Contents(page) == IF page.file = None THEN page.value ELSE files[page.file]
Readable(va, blocks) ==
    /\ va \in DOMAIN arena[running]
    /\ arena[running][va].file = None \/ arena[running][va].file \in blocks
CanRead(va) == Readable(va, accessible)

Private(p) == {va \in DOMAIN arena[p] : arena[p][va].file = None}
SwapUsed == Cardinality(UNION {{p} \X Private(p) : p \in {q \in Pids : arena[q] # None}})

Init ==
    /\ arena = [p \in Pids |-> None]
    /\ files \in [Files \X Blocks -> Values]
    /\ accessible = {}
    /\ running = None
    /\ out = None

\* A call that changes nothing but may fail.
Fails(condition) == condition /\ out' = Fail /\ UNCHANGED <<arena, files, accessible, running>>

Create(child) ==
    /\ running # None /\ arena[child] = None
    /\ LET full == SwapUsed + Cardinality(Private(running)) > Cardinality(SwapBlocks)
       IN  \/ Fails(full)
           \/ /\ ~full
              /\ arena' = [arena EXCEPT ![child] = arena[running]]
              /\ out' = Ok
              /\ UNCHANGED <<files, accessible, running>>

CreateRoot(child) ==
    /\ arena[child] = None
    /\ arena' = [arena EXCEPT ![child] = <<>>]
    /\ running' = None
    /\ out' = Ok
    /\ UNCHANGED <<files, accessible>>

Switch(p) ==
    /\ arena[p] # None
    /\ running' = p
    /\ out' = None
    /\ UNCHANGED <<arena, files, accessible>>

\* The next page of the arena.
Extend(page) ==
    /\ arena' = [arena EXCEPT ![running] = Append(@, page)]
    /\ out' = Len(arena[running]) + 1
    /\ UNCHANGED <<files, running>>

Full == Len(arena[running]) = page_table_size

MapSwap ==
    /\ running # None
    /\ \/ Fails(Full \/ SwapUsed = Cardinality(SwapBlocks))
       \/ ~Full /\ SwapUsed < Cardinality(SwapBlocks) /\ Extend(PrivatePage(Zero))
          /\ UNCHANGED accessible

\* The pages V of the running process are read: blocks of files that have not been read
\* before may turn out to be readable.
Reads(V) ==
    LET blocks == {arena[running][va].file : va \in V \cap DOMAIN arena[running]} \ {None}
    IN  accessible \subseteq accessible' /\ accessible' \subseteq accessible \cup blocks

\* The name is in the page va, and goes on in the next one if it crosses.
MapFileNamed(va, crosses, block) ==
    /\ running # None
    /\ LET first == Contents(arena[running][va])
           second == Contents(arena[running][va + 1])
           goesOn == crosses /\ first # Zero
           valid == Readable(va, accessible') /\ (goesOn => Readable(va + 1, accessible'))
           name == FileName(IF goesOn THEN <<first, second>> ELSE <<first>>)
       IN  /\ Reads({va, va + 1})
           /\ \/ (Full \/ ~valid) /\ out' = Fail /\ UNCHANGED <<arena, files, running>>
              \/ ~Full /\ valid /\ Extend(FilePage(<<name, block>>))

Load(va) ==
    /\ running # None /\ CanRead(va)
    /\ out' = Contents(arena[running][va])
    /\ UNCHANGED <<arena, files, accessible, running>>

Store(va, value) ==
    /\ running # None /\ CanRead(va)
    /\ LET page == arena[running][va]
       IN  IF page.file = None
           THEN arena' = [arena EXCEPT ![running][va].value = value] /\ UNCHANGED files
           ELSE files' = [files EXCEPT ![page.file] = value] /\ UNCHANGED arena
    /\ out' = None
    /\ UNCHANGED <<accessible, running>>

AccessFails(va) == running # None /\ Fails(~CanRead(va))

\* The pager works on an access without the process seeing anything of it.
Silent(va) == running # None /\ Reads({va}) /\ out' = None /\ UNCHANGED <<arena, files, running>>

Destroy ==
    /\ running # None
    /\ arena' = [arena EXCEPT ![running] = None]
    /\ running' = None
    /\ out' = None
    /\ UNCHANGED <<files, accessible>>

Next ==
    \/ \E p \in Pids : Create(p) \/ CreateRoot(p) \/ Switch(p)
    \/ MapSwap \/ Destroy
    \/ \E va \in 1 .. page_table_size :
        \/ Load(va) \/ AccessFails(va) \/ Silent(va)
        \/ \E value \in Values : Store(va, value)
        \/ \E crosses \in BOOLEAN, block \in Blocks : MapFileNamed(va, crosses, block)

Spec == Init /\ [][Next]_vars
=============================================================================
