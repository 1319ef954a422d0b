----------------------- MODULE IndexWriterRefinement -----------------------
(***************************************************************************)
(* With one caller the writer implements IndexStore.                       *)
(***************************************************************************)
EXTENDS IndexWriter

\* Change items without their try counts.
ChangeOf(item) ==
    IF item.op = "Add" THEN [op |-> "Add", doc |-> item.doc]
                       ELSE [op |-> "Delete", keys |-> item.keys]

ChangesOf(items) == [i \in DOMAIN items |-> ChangeOf(items[i])]

\* The changes the caller asked for that are neither committed nor given up:
\* what its commit has taken or has to retry, then the buffer.
InFlight(c) ==
    IF pc[c] \in {"queued", "apply"} THEN batch[c] ELSE survivors[c] \o failed[c]

Queue(c) == InFlight(c) \o buffer

Waiting == ChangesOf(Queue(CHOOSE c \in Callers : TRUE))

AllChanges ==
    [op : {"Add"}, doc : [path : Paths, mtime : 1 .. MaxClock, text : 0 .. MaxClock,
                          from : {"disk", "cache", "none"}]]
    \cup [op : {"Delete"}, keys : SUBSET Paths]

Store == INSTANCE IndexStore
            WITH store <- committed, queue <- Waiting, Changes <- AllChanges

\* Every behaviour of the writer is one of the abstract store: batching,
\* rollbacks, retries and restarts may lose changes but never reorder, repeat
\* or half-apply them.
ImplementsStore == Store!Spec

-----------------------------------------------------------------------------
(* Why it does: what the invariant of the refinement says.                 *)

\* Documents are built from ticks of the clock.
DocsAreTicks ==
    /\ clock <= MaxClock
    /\ \A p \in Paths : disk[p] <= clock
    /\ \A c \in Callers : pc[c] \in {"load", "push"} =>
          doc[c].mtime \in 1 .. MaxClock /\ doc[c].text <= MaxClock

\* Each item is in one place: in the batch, on the lists of a retry, or in the
\* buffer; and outside of a task the tantivy writer holds nothing uncommitted.
OnePlace ==
    \A c \in Callers :
        /\ pc[c] \in {"queued", "apply"} => batch[c] # <<>>
        /\ pc[c] # "requeue" => failed[c] = <<>> /\ survivors[c] = <<>>
        /\ pc[c] # "apply" => pos[c] = 0 /\ applied[c] = <<>> /\ pending = committed

\* `items` are some of the first n of `all`, in their order; all of them or
\* fewer than n.
SomeOf(items, all, n) ==
    \E at \in [DOMAIN items -> 1 .. n] :
        /\ \A i, j \in DOMAIN items : i < j => at[i] < at[j]
        /\ \A i \in DOMAIN items : items[i] = all[at[i]]
        /\ \/ Len(items) < n
           \/ Len(items) = n /\ \A i \in DOMAIN items : at[i] = i

\* A task is a prefix of the changes ahead of the committed index, and what it
\* would requeue are some of this prefix.
TaskIsAhead ==
    \A c \in Callers : pc[c] = "apply" =>
        /\ pos[c] <= Len(batch[c])
        /\ pending = Store!Stores[pos[c]]
        /\ SomeOf(applied[c], batch[c], pos[c])

StoreInv == TypeOK /\ DocsAreTicks /\ OnePlace /\ TaskIsAhead
=============================================================================
