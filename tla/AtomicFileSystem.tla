--------------------------- MODULE AtomicFileSystem ---------------------------
(***************************************************************************)
(* What the file server promises its clients: a tree of owned files and     *)
(* directories in which every request takes effect at one instant between   *)
(* its arrival and its response, or is refused.  A request is refused when  *)
(* the tree at that instant does not allow it, or when it needs disk space. *)
(***************************************************************************)
EXTENDS Integers, Sequences

CONSTANTS Threads, Requests, FS_MAXFILEBLOCKS, None

VARIABLES
    tree,     \* path -> [type, owner, data], for the paths that exist
    call,     \* the request each thread serves
    result    \* its result, once it has taken effect

vars == <<tree, call, result>>

Parent(p) == SubSeq(p, 1, Len(p) - 1)

\* The user may follow the path p in the tree T: it exists, and the user owns
\* every node on it but the root.
Reaches(T, user, p) ==
    p \in DOMAIN T /\ \A n \in 1 .. Len(p) : T[SubSeq(p, 1, n)].owner = user

IsEmpty(T, p) == \A q \in DOMAIN T : q = <<>> \/ Parent(q) # p

IsFileOf(T, user, p) == Reaches(T, user, p) /\ T[p].type = "f"

Allowed(T, r) ==
    /\ r.path # <<>>
    /\ CASE r.op = "FS_CREATE" ->
              /\ Reaches(T, r.username, Parent(r.path))
              /\ T[Parent(r.path)].type = "d"
              /\ r.path \notin DOMAIN T
         [] r.op = "FS_DELETE" -> Reaches(T, r.username, r.path) /\ IsEmpty(T, r.path)
         [] r.op = "FS_READBLOCK" ->
              IsFileOf(T, r.username, r.path) /\ r.block < Len(T[r.path].data)
         [] r.op = "FS_WRITEBLOCK" ->
              /\ IsFileOf(T, r.username, r.path)
              /\ r.block <= Len(T[r.path].data) /\ r.block < FS_MAXFILEBLOCKS

NeedsSpace(T, r) ==
    \/ r.op = "FS_CREATE"
    \/ r.op = "FS_WRITEBLOCK" /\ r.path \in DOMAIN T /\ r.block = Len(T[r.path].data)

\* The tree after the request, and what the request returns.
Updated(T, r) ==
    CASE r.op = "FS_CREATE" ->
           [p \in DOMAIN T \cup {r.path} |->
               IF p = r.path THEN [type |-> r.type, owner |-> r.username, data |-> <<>>]
               ELSE T[p]]
      [] r.op = "FS_DELETE" -> [p \in DOMAIN T \ {r.path} |-> T[p]]
      [] r.op = "FS_READBLOCK" -> T
      [] r.op = "FS_WRITEBLOCK" ->
           [T EXCEPT ![r.path].data =
               IF r.block = Len(@) THEN Append(@, r.data) ELSE [@ EXCEPT ![r.block + 1] = r.data]]

ResultOf(T, r) == IF r.op = "FS_READBLOCK" THEN T[r.path].data[r.block + 1] ELSE "ok"

-----------------------------------------------------------------------------
Init ==
    /\ <<>> \in DOMAIN tree
    /\ call = [t \in Threads |-> None]
    /\ result = [t \in Threads |-> None]

Invoke(t, r) ==
    /\ call[t] = None
    /\ call' = [call EXCEPT ![t] = r]
    /\ UNCHANGED <<tree, result>>

Do(t) ==
    /\ call[t] # None /\ result[t] = None
    /\ UNCHANGED call
    /\ Allowed(tree, call[t])
    /\ result' = [result EXCEPT ![t] = ResultOf(tree, call[t])]
    /\ tree' = Updated(tree, call[t])

Refuse(t) ==
    /\ call[t] # None /\ result[t] = None
    /\ result' = [result EXCEPT ![t] = "error"]
    /\ ~Allowed(tree, call[t]) \/ NeedsSpace(tree, call[t])
    /\ UNCHANGED <<tree, call>>

\* A request that is refused as soon as it arrives.
InvokeRefused(t, r) ==
    /\ call[t] = None
    /\ call' = [call EXCEPT ![t] = r]
    /\ result' = [result EXCEPT ![t] = "error"]
    /\ ~Allowed(tree, r)
    /\ UNCHANGED tree

Return(t) ==
    /\ result[t] # None
    /\ call' = [call EXCEPT ![t] = None]
    /\ result' = [result EXCEPT ![t] = None]
    /\ UNCHANGED tree

\* The server is restarted: requests in progress are lost, the tree is not.
Restart ==
    /\ call' = [t \in Threads |-> None]
    /\ result' = [t \in Threads |-> None]
    /\ UNCHANGED tree

Next ==
    \/ \E t \in Threads :
         \/ Do(t) \/ Refuse(t) \/ Return(t)
         \/ \E r \in Requests : Invoke(t, r) \/ InvokeRefused(t, r)
    \/ Restart

Spec == Init /\ [][Next]_vars
=============================================================================
