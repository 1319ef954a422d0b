----------------------------- MODULE IndexStore -----------------------------
(***************************************************************************)
(* What the writer promises a single caller.  The changes it asked for     *)
(* wait in a queue; the stored documents change only by the changes at     *)
(* the front of the queue, all of them at once and in their order, and     *)
(* never so that a file that is re-indexed is missing in between; a        *)
(* failure may lose waiting changes, but never invents, repeats, reorders  *)
(* or half-applies one.                                                    *)
(***************************************************************************)
EXTENDS Integers, Sequences

CONSTANTS Paths, Changes
VARIABLES store, queue

\* A change is [op |-> "Add", doc |-> document] or [op |-> "Delete", keys |->
\* paths]; a document is a record with a field `path`.
ApplyChange(index, change) ==
    IF change.op = "Add"
    THEN [index EXCEPT ![change.doc.path] = Append(@, change.doc)]
    ELSE [p \in Paths |-> IF p \in change.keys THEN <<>> ELSE index[p]]

Init == store = [p \in Paths |-> <<>>] /\ queue = <<>>

\* A call of the writer: a file to re-index, or paths to delete.
Submit ==
    \E change \in Changes :
        /\ \/ change.op = "Delete" /\ queue' = Append(queue, change)
           \/ /\ change.op = "Add"
              /\ queue' = queue \o <<[op |-> "Delete", keys |-> {change.doc.path}], change>>
        /\ UNCHANGED store

\* The store after the first i waiting changes.
Stores[i \in 0 .. Len(queue)] ==
    IF i = 0 THEN store ELSE ApplyChange(Stores[i - 1], queue[i])

\* The first n waiting changes, but not the Delete of a re-indexed file alone.
Persist ==
    \E n \in 1 .. Len(queue) :
        /\ n < Len(queue) => queue[n + 1].op # "Add"
        /\ store' = Stores[n]
        /\ queue' = SubSeq(queue, n + 1, Len(queue))

\* What is kept are the changes at the increasing positions `at`.
Lose ==
    \E n \in 0 .. Len(queue) - 1 : \E at \in [1 .. n -> DOMAIN queue] :
        /\ \A i, j \in 1 .. n : i < j => at[i] < at[j]
        /\ queue' = [i \in 1 .. n |-> queue[at[i]]]
        /\ UNCHANGED store

Next == Submit \/ Persist \/ Lose

Spec == Init /\ [][Next]_<<store, queue>>
=============================================================================
