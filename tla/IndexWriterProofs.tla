------------------------- MODULE IndexWriterProofs -------------------------
(***************************************************************************)
(* Proofs about IndexWriter for any number of paths, directories and       *)
(* callers, any batch size and retry limit: types, one document a path,    *)
(* times that tell texts; what a commit reports and the order in which it  *)
(* applies changes; and last that with one caller it implements            *)
(* IndexStore.                                                             *)
(***************************************************************************)
EXTENDS IndexWriterRefinement, SequenceTheorems, WellFoundedInduction, TLAPS

-----------------------------------------------------------------------------
(* Type correctness.                                                       *)

LEMMA NoDocType == NoDoc \in Docs
BY WriterAssumption DEF NoDoc, Unloaded, Docs, NoText

LEMMA ReindexedType ==
    ASSUME NEW d \in Docs
    PROVE  /\ Reindexed(d) \in Seq(Items)
           /\ Len(Reindexed(d)) = 2
           /\ Reindexed(d)[1] = DeleteItem(d.path)
           /\ Reindexed(d)[2] = AddItem(d)
BY DEF Reindexed, DeleteItem, AddItem, Items, AddItems, DeleteItems, Docs

LEMMA DeleteItemType == \A p \in Paths : DeleteItem(p) \in DeleteItems
BY DEF DeleteItem, DeleteItems

LEMMA DeleteDirItemType == \A d \in Dirs : DeleteDirItem(d) \in DeleteItems
BY WriterAssumption DEF DeleteDirItem, DeleteItems

\* An item under way is an Add with a document or a delete with keys.
LEMMA NextItemType ==
    ASSUME TypeOK, NEW c \in Callers, AtItem(c)
    PROVE  /\ NextItem(c) \in Items
           /\ NextItem(c).op = "Add" => NextItem(c).doc \in Docs
           /\ NextItem(c).op # "Add" => NextItem(c) \in DeleteItems
BY DEF TypeOK, AtItem, NextItem, Items, AddItems, DeleteItems

\* What may be loaded for p, and that it makes a document.
LEMMA LoadedType ==
    ASSUME TypeOK, NEW p \in Paths, NEW data \in Loaded(p)
    PROVE  /\ data.text \in Nat /\ data.from \in {"disk", "cache", "none"}
           /\ data.from = "disk" => data.text = disk[p]
           /\ data.text \in {disk[p], NoText} \/ data.text \in 1 .. clock
BY DEF Loaded, TypeOK, NoText

\* LoadText changes nothing but where its caller is and what it has built.
LEMMA LoadTextDoes ==
    ASSUME TypeOK, NEW c \in Callers, LoadText(c)
    PROVE  /\ pc[c] = "load" /\ pc' = [pc EXCEPT ![c] = "push"]
           /\ doc[c] \in Docs /\ doc[c].path \in Paths
           /\ \E data \in Loaded(doc[c].path) :
                 doc' = [doc EXCEPT ![c] = [@ EXCEPT !.text = data.text, !.from = data.from]]
           /\ UNCHANGED <<clock, disk, buffer, batch, pos, applied, failed, survivors,
                          result, writer, pending, committed, calls>>
<1>1. doc[c] \in Docs /\ doc[c].path \in Paths
    BY DEF TypeOK, Docs
<1>2. PICK data \in Loaded(doc[c].path) :
          doc' = [doc EXCEPT ![c].text = data.text, ![c].from = data.from]
    BY DEF LoadText
<1>3. doc' = [doc EXCEPT ![c] = [@ EXCEPT !.text = data.text, !.from = data.from]]
    BY <1>1, <1>2 DEF TypeOK, Docs
<1> QED BY <1>1, <1>3 DEF LoadText, indexVars

LEMMA WithDocType ==
    ASSUME NEW index \in [Paths -> Seq(Docs)], NEW d \in Docs
    PROVE  WithDoc(index, d) \in [Paths -> Seq(Docs)]
<1>1. d.path \in Paths
    BY DEF Docs
<1> QED BY <1>1 DEF WithDoc

LEMMA RetriedType == \A item \in DeleteItems : Retried(item) \in DeleteItems
BY DEF Retried, DeleteItems

LEMMA TypeInit == Init => TypeOK
BY NoDocType, WriterAssumption DEF Init, TypeOK, EmptyIndex

\* What an operation appends to the buffer keeps the buffer's type.
LEMMA BufferedType ==
    ASSUME TypeOK, NEW c \in Callers, NEW items \in Seq(Items), BufferChanges(c, items)
    PROVE  /\ buffer' \in Seq(Items)
           /\ pc' \in [Callers -> {"idle", "load", "push", "take", "queued", "apply", "requeue"}]
<1>1. buffer' \in Seq(Items)
    BY DEF TypeOK, BufferChanges
<1>2. pc' \in [Callers -> {"idle", "load", "push", "take", "queued", "apply", "requeue"}]
    BY DEF TypeOK, BufferChanges
<1> QED BY <1>1, <1>2

LEMMA OneDelete == \A item \in DeleteItems : <<item>> \in Seq(Items)
BY DEF Items

LEMMA TypeStep == TypeOK /\ [Next]_vars => TypeOK'
<1> SUFFICES ASSUME TypeOK, [Next]_vars PROVE TypeOK'
    OBVIOUS
<1> USE DEF TypeOK
<1>1. CASE FileSystem
    <2>1. PICK p \in Paths : WriteFile(p) \/ RemoveFile(p)
        BY <1>1 DEF FileSystem
    <2>2. CASE WriteFile(p)
        BY <2>2 DEF WriteFile, taskVars, indexVars
    <2>3. CASE RemoveFile(p)
        BY <2>3 DEF RemoveFile, taskVars, indexVars
    <2> QED BY <2>1, <2>2, <2>3
<1>2. ASSUME NEW c \in Callers, Call(c)
      PROVE  TypeOK'
    <2>1. CASE \E p \in Paths : StatFile(c, p)
        <3>1. PICK p \in Paths : StatFile(c, p)
            BY <2>1
        <3>2. Unloaded(p, disk[p]) \in Docs
            BY DEF Unloaded, Docs, NoText
        <3>3. doc' \in [Callers -> Docs]
            BY <3>1, <3>2 DEF StatFile
        <3>4. calls' \in Nat /\ pc' = [pc EXCEPT ![c] = "load"]
            BY <3>1 DEF StatFile, Called
        <3> QED BY <3>1, <3>3, <3>4 DEF StatFile, indexVars
    <2>2. CASE \E p \in Paths : DeleteFile(c, p)
        <3>1. PICK p \in Paths : DeleteFile(c, p)
            BY <2>2
        <3>2. <<DeleteItem(p)>> \in Seq(Items)
            BY DeleteItemType, OneDelete
        <3>3. /\ BufferChanges(c, <<DeleteItem(p)>>) /\ calls' = calls + 1
              /\ UNCHANGED <<clock, disk, doc, batch, pos, applied, failed, survivors,
                             result, writer, pending, committed>>
            BY <3>1 DEF DeleteFile, Called, indexVars
        <3>4. /\ buffer' \in Seq(Items)
              /\ pc' \in [Callers -> {"idle", "load", "push", "take", "queued", "apply", "requeue"}]
            BY <3>2, <3>3, BufferedType
        <3> QED BY <3>3, <3>4
    <2>3. CASE \E d \in Dirs : DeleteDir(c, d)
        <3>1. PICK d \in Dirs : DeleteDir(c, d)
            BY <2>3
        <3>2. <<DeleteDirItem(d)>> \in Seq(Items)
            BY DeleteDirItemType, OneDelete
        <3>3. /\ BufferChanges(c, <<DeleteDirItem(d)>>) /\ calls' = calls + 1
              /\ UNCHANGED <<clock, disk, doc, batch, pos, applied, failed, survivors,
                             result, writer, pending, committed>>
            BY <3>1 DEF DeleteDir, Called, indexVars
        <3>4. /\ buffer' \in Seq(Items)
              /\ pc' \in [Callers -> {"idle", "load", "push", "take", "queued", "apply", "requeue"}]
            BY <3>2, <3>3, BufferedType
        <3> QED BY <3>3, <3>4
    <2>4. CASE CallCommit(c)
        BY <2>4 DEF CallCommit, indexVars
    <2> QED BY <1>2, <2>1, <2>2, <2>3, <2>4 DEF Call
<1>3. ASSUME NEW c \in Callers, Proceed(c)
      PROVE  TypeOK'
    <2>1. CASE LoadText(c)
        <3>1. PICK data \in Loaded(doc[c].path) :
                  doc' = [doc EXCEPT ![c] = [@ EXCEPT !.text = data.text, !.from = data.from]]
            BY <2>1, LoadTextDoes
        <3>2. doc[c] \in Docs /\ doc[c].path \in Paths
            BY <2>1, LoadTextDoes
        <3>3. [doc[c] EXCEPT !.text = data.text, !.from = data.from] \in Docs
            BY <3>2, LoadedType DEF Docs
        <3> QED BY <2>1, <3>1, <3>3 DEF LoadText, indexVars
    <2>2. CASE PushReindexed(c)
        <3>1. Reindexed(doc[c]) \in Seq(Items)
            BY ReindexedType
        <3>2. /\ BufferChanges(c, Reindexed(doc[c])) /\ doc' = [doc EXCEPT ![c] = NoDoc]
              /\ UNCHANGED <<clock, disk, batch, pos, applied, failed, survivors,
                             result, writer, pending, committed, calls>>
            BY <2>2 DEF PushReindexed, indexVars
        <3>3. /\ buffer' \in Seq(Items)
              /\ pc' \in [Callers -> {"idle", "load", "push", "take", "queued", "apply", "requeue"}]
            BY <3>1, <3>2, BufferedType
        <3> QED BY <3>2, <3>3, NoDocType
    <2>3. CASE CommitEmpty(c)
        BY <2>3 DEF CommitEmpty, indexVars
    <2>4. CASE TakeBuffer(c)
        BY <2>4 DEF TakeBuffer, indexVars
    <2>5. CASE LockWriter(c)
        BY <2>5 DEF LockWriter, indexVars
    <2>6. CASE ApplyAdd(c)
        <3>1. NextItem(c).doc \in Docs
            BY <2>6, NextItemType DEF ApplyAdd
        <3>2. pending' \in [Paths -> Seq(Docs)]
            BY <2>6, <3>1, WithDocType DEF ApplyAdd
        <3>3. /\ pos' = [pos EXCEPT ![c] = @ + 1]
              /\ UNCHANGED <<clock, disk, buffer, pc, doc, batch, applied, failed,
                             survivors, result, writer, committed, calls>>
            BY <2>6 DEF ApplyAdd
        <3>4. pos' \in [Callers -> Nat]
            BY <3>3
        <3> QED BY <3>2, <3>3, <3>4
    <2>7. CASE ApplyDelete(c)
        <3>1. NextItem(c) \in DeleteItems
            BY <2>7, NextItemType DEF ApplyDelete
        <3>2. applied' \in [Callers -> Seq(DeleteItems)]
            BY <2>7, <3>1 DEF ApplyDelete
        <3>3. pending' \in [Paths -> Seq(Docs)]
            BY <2>7 DEF ApplyDelete, WithoutKeys
        <3> QED BY <2>7, <3>2, <3>3 DEF ApplyDelete
    <2>8. CASE DeleteFails(c)
        <3>1. NextItem(c) \in DeleteItems
            BY <2>8, NextItemType DEF DeleteFails
        <3>2. failed' \in [Callers -> Seq(DeleteItems)]
            BY <2>8, <3>1 DEF DeleteFails
        <3> QED BY <2>8, <3>2 DEF DeleteFails, indexVars
    <2>9. CASE CommitIndex(c)
        BY <2>9 DEF CommitIndex, EndTask
    <2>10. CASE CommitFails(c)
        BY <2>10 DEF CommitFails, EndTask
    <2>11. CASE TaskPanics(c)
        BY <2>11 DEF TaskPanics, indexVars
    <2>12. CASE RetainFailed(c)
        <3>1. Retried(Head(failed[c])) \in DeleteItems
            BY <2>12, RetriedType DEF RetainFailed
        <3> QED BY <2>12, <3>1 DEF RetainFailed, indexVars
    <2>13. CASE RequeueFailed(c)
        BY <2>13 DEF RequeueFailed, Items, indexVars
    <2> QED BY <1>3, <2>1, <2>2, <2>3, <2>4, <2>5, <2>6, <2>7, <2>8, <2>9, <2>10,
               <2>11, <2>12, <2>13 DEF Proceed
<1>4. CASE Restart
    BY <1>4, NoDocType DEF Restart
<1>5. CASE UNCHANGED vars
    BY <1>5 DEF vars, taskVars, indexVars
<1> QED BY <1>1, <1>2, <1>3, <1>4, <1>5 DEF Next

\* Every variable keeps its type.
THEOREM TypeCorrect == Spec => []TypeOK
BY TypeInit, TypeStep, PTL DEF Spec

-----------------------------------------------------------------------------
(* No duplicates.                                                          *)

LEMMA ConcatFacts ==
    ASSUME NEW S, NEW q \in Seq(S), NEW r \in Seq(S)
    PROVE  /\ q \o r \in Seq(S)
           /\ DOMAIN (q \o r) = 1 .. Len(q) + Len(r)
           /\ \A i \in 1 .. Len(q) : (q \o r)[i] = q[i]
           /\ \A i \in Len(q) + 1 .. Len(q) + Len(r) : (q \o r)[i] = r[i - Len(q)]
OBVIOUS

LEMMA PairedBefore ==
    ASSUME NEW q \in Seq(Items), NEW r \in Seq(DeleteItems), Paired(q)
    PROVE  Paired(r \o q)
<1>1. r \in Seq(Items)
    BY DEF Items
<1>2. SUFFICES ASSUME NEW i \in 1 .. Len(r) + Len(q), (r \o q)[i].op = "Add"
               PROVE  /\ i > 1
                      /\ (r \o q)[i - 1].op = "Delete"
                      /\ (r \o q)[i].doc.path \in (r \o q)[i - 1].keys
    <2>1. DOMAIN (r \o q) = 1 .. Len(r) + Len(q)
        BY <1>1, ConcatFacts
    <2> QED BY <2>1 DEF Paired
<1>3. i \notin 1 .. Len(r)
    <2> SUFFICES ASSUME i \in 1 .. Len(r) PROVE FALSE
        OBVIOUS
    <2>1. (r \o q)[i] = r[i]
        BY <1>1, ConcatFacts
    <2>2. r[i] \in DeleteItems
        OBVIOUS
    <2> QED BY <1>2, <2>1, <2>2 DEF DeleteItems
<1>4. /\ i - Len(r) \in DOMAIN q
      /\ (r \o q)[i] = q[i - Len(r)]
    BY <1>1, <1>3, ConcatFacts
<1>5. /\ i - Len(r) > 1
      /\ q[i - Len(r) - 1].op = "Delete"
      /\ q[i - Len(r)].doc.path \in q[i - Len(r) - 1].keys
    BY <1>2, <1>4 DEF Paired
<1>6. (r \o q)[i - 1] = q[i - Len(r) - 1]
    BY <1>1, <1>3, <1>5, ConcatFacts
<1> QED BY <1>4, <1>5, <1>6

\* A sequence keeps its pairs when a tail is appended whose own Adds are
\* paired within it.
LEMMA PairedAppend ==
    ASSUME NEW q \in Seq(Items), NEW r \in Seq(Items), Paired(q), Paired(r)
    PROVE  Paired(q \o r)
<1>1. SUFFICES ASSUME NEW i \in 1 .. Len(q) + Len(r), (q \o r)[i].op = "Add"
               PROVE  /\ i > 1
                      /\ (q \o r)[i - 1].op = "Delete"
                      /\ (q \o r)[i].doc.path \in (q \o r)[i - 1].keys
    <2>1. DOMAIN (q \o r) = 1 .. Len(q) + Len(r)
        BY ConcatFacts
    <2> QED BY <2>1 DEF Paired
<1>2. CASE i \in 1 .. Len(q)
    <2>1. (q \o r)[i] = q[i]
        BY <1>2, ConcatFacts
    <2>2. /\ i > 1
          /\ q[i - 1].op = "Delete"
          /\ q[i].doc.path \in q[i - 1].keys
        BY <1>1, <1>2, <2>1 DEF Paired
    <2>3. (q \o r)[i - 1] = q[i - 1]
        BY <1>2, <2>2, ConcatFacts
    <2> QED BY <2>1, <2>2, <2>3
<1>3. CASE i \in Len(q) + 1 .. Len(q) + Len(r)
    <2>1. (q \o r)[i] = r[i - Len(q)] /\ i - Len(q) \in DOMAIN r
        BY <1>3, ConcatFacts
    <2>2. /\ i - Len(q) > 1
          /\ r[i - Len(q) - 1].op = "Delete"
          /\ r[i - Len(q)].doc.path \in r[i - Len(q) - 1].keys
        BY <1>1, <2>1 DEF Paired
    <2>3. (q \o r)[i - 1] = r[i - Len(q) - 1]
        BY <1>3, <2>2, ConcatFacts
    <2> QED BY <2>1, <2>2, <2>3
<1> QED BY <1>2, <1>3

LEMMA PairedDelete ==
    ASSUME NEW item \in DeleteItems
    PROVE  <<item>> \in Seq(Items) /\ Paired(<<item>>)
BY DEF Paired, DeleteItems, Items

LEMMA PairedReindexed ==
    ASSUME NEW d \in Docs
    PROVE  Reindexed(d) \in Seq(Items) /\ Paired(Reindexed(d))
<1>1. /\ Reindexed(d) \in Seq(Items)
      /\ Len(Reindexed(d)) = 2
      /\ Reindexed(d)[1].op = "Delete"
      /\ Reindexed(d)[1].keys = {d.path}
      /\ Reindexed(d)[2].doc = d
    <2>1. DeleteItem(d.path).op = "Delete" /\ DeleteItem(d.path).keys = {d.path}
        BY DEF DeleteItem
    <2>2. AddItem(d).doc = d
        BY DEF AddItem
    <2> QED BY <2>1, <2>2, ReindexedType
<1> SUFFICES ASSUME NEW i \in {1, 2}, Reindexed(d)[i].op = "Add"
             PROVE  /\ i > 1
                    /\ Reindexed(d)[i - 1].op = "Delete"
                    /\ Reindexed(d)[i].doc.path \in Reindexed(d)[i - 1].keys
    <2>1. DOMAIN Reindexed(d) = {1, 2}
        BY <1>1
    <2> QED BY <1>1, <2>1 DEF Paired
<1> QED BY <1>1

\* The strengthening that is inductive.
NoDupInv == TypeOK /\ AddsArePaired /\ NoDuplicates

LEMMA NoDupInit == Init => NoDupInv
BY TypeInit DEF Init, NoDupInv, AddsArePaired, NoDuplicates, EmptyIndex, Paired, AtItem

\* The common part of the three steps of the commit loop.
ItemApplied(c) ==
    /\ AtItem(c)
    /\ pos' = [pos EXCEPT ![c] = @ + 1]
    /\ UNCHANGED <<batch, pc>>

\* An Add that comes next is the pair of the delete just handled.
LEMMA NextPaired ==
    ASSUME TypeOK, AddsArePaired, NEW c \in Callers, ItemApplied(c),
           AtItem(c)', NextItem(c)'.op = "Add"
    PROVE  NextItem(c).op = "Delete" /\ NextItem(c)'.doc.path \in NextItem(c).keys
<1>1. NextItem(c)' = batch[c][pos[c] + 2] /\ pos[c] + 2 \in DOMAIN batch[c]
    BY DEF ItemApplied, AtItem, NextItem, TypeOK
<1>2. Paired(batch[c])
    BY DEF AddsArePaired
<1> QED BY <1>1, <1>2 DEF Paired, NextItem, TypeOK

\* While c applies items no other caller does.
LEMMA OthersWait ==
    ASSUME TypeOK, AddsArePaired, NEW c \in Callers, ItemApplied(c)
    PROVE  \A e \in Callers \ {c} : ~AtItem(e) /\ ~AtItem(e)' /\ pos'[e] = pos[e]
BY DEF ItemApplied, AddsArePaired, AtItem, TypeOK

LEMMA ItemAppliedKeeps ==
    ASSUME TypeOK, AddsArePaired, NEW c \in Callers, ItemApplied(c),
           UNCHANGED buffer,
           AtItem(c)' /\ NextItem(c)'.op = "Add" =>
               pending'[NextItem(c)'.doc.path] = <<>>,
           \A p \in Paths : Len(pending'[p]) <= 1
    PROVE  AddsArePaired'
<1>1. \A e \in Callers : pc'[e] # "apply" => pos'[e] = 0
    BY OthersWait DEF ItemApplied, AtItem, AddsArePaired
<1>2. \A e \in Callers :
          AtItem(e)' /\ NextItem(e)'.op = "Add" => pending'[NextItem(e)'.doc.path] = <<>>
    BY OthersWait
<1> QED BY <1>1, <1>2 DEF ItemApplied, AddsArePaired

LEMMA NoDupStep ==
    ASSUME "delete" \notin Faults, NoDupInv, [Next]_vars
    PROVE  NoDupInv'
<1>1. TypeOK /\ TypeOK' /\ AddsArePaired /\ NoDuplicates
    BY TypeStep DEF NoDupInv
<1> SUFFICES AddsArePaired' /\ NoDuplicates'
    BY <1>1 DEF NoDupInv
<1> USE <1>1 DEF NoDuplicates
<1>2. CASE FileSystem
    BY <1>2 DEF AddsArePaired, FileSystem, WriteFile, RemoveFile, taskVars, indexVars, AtItem, NextItem
<1>3. ASSUME NEW c \in Callers, NEW items \in Seq(Items), Paired(items),
             BufferChanges(c, items), pc[c] \in {"idle", "push"},
             UNCHANGED <<batch, pos, indexVars>>
      PROVE  AddsArePaired' /\ NoDuplicates'
    <2>1. Paired(buffer')
        BY <1>3, PairedAppend DEF BufferChanges, TypeOK, AddsArePaired
    <2>2. \A e \in Callers : pc'[e] = "apply" <=> pc[e] = "apply"
        BY <1>3 DEF BufferChanges, TypeOK
    <2>3. \A e \in Callers : AtItem(e)' <=> AtItem(e)
        BY <1>3, <2>2 DEF AtItem
    <2> QED BY <1>3, <2>1, <2>2, <2>3 DEF AddsArePaired, indexVars, NextItem
<1>4. ASSUME NEW c \in Callers, Call(c)
      PROVE  AddsArePaired' /\ NoDuplicates'
    <2>1. CASE \E p \in Paths : StatFile(c, p)
        BY <2>1 DEF AddsArePaired, StatFile, indexVars, AtItem, NextItem, TypeOK
    <2>2. CASE \E p \in Paths : DeleteFile(c, p)
        BY <2>2, <1>3, DeleteItemType, PairedDelete DEF DeleteFile
    <2>3. CASE \E d \in Dirs : DeleteDir(c, d)
        BY <2>3, <1>3, DeleteDirItemType, PairedDelete DEF DeleteDir
    <2>4. CASE CallCommit(c)
        BY <2>4 DEF AddsArePaired, CallCommit, indexVars, AtItem, NextItem, TypeOK
    <2> QED BY <1>4, <2>1, <2>2, <2>3, <2>4 DEF Call
<1>5. ASSUME NEW c \in Callers, Proceed(c)
      PROVE  AddsArePaired' /\ NoDuplicates'
    <2>1. CASE LoadText(c)
        BY <2>1 DEF AddsArePaired, LoadText, indexVars, AtItem, NextItem, TypeOK
    <2>2. CASE PushReindexed(c)
        BY <2>2, <1>3, PairedReindexed DEF PushReindexed, TypeOK
    <2>3. CASE CommitEmpty(c)
        BY <2>3 DEF AddsArePaired, CommitEmpty, indexVars, AtItem, NextItem, TypeOK
    <2>4. CASE TakeBuffer(c)
        BY <2>4 DEF AddsArePaired, TakeBuffer, indexVars, AtItem, NextItem, TypeOK, Paired
    <2>5. CASE LockWriter(c)
        BY <2>5 DEF AddsArePaired, LockWriter, WriterFree, indexVars, AtItem, NextItem, TypeOK, Paired
    <2>6. CASE ApplyAdd(c)
        <3> DEFINE d == NextItem(c).doc
        <3>1. ItemApplied(c) /\ d \in Docs /\ pending[d.path] = <<>>
            BY <2>6, NextItemType DEF ApplyAdd, ItemApplied, AddsArePaired
        <3>2. ~(AtItem(c)' /\ NextItem(c)'.op = "Add")
            BY <2>6, <3>1, NextPaired DEF ApplyAdd
        <3>3. \A p \in Paths : Len(pending'[p]) <= 1
            <4>1. CASE pending' = WithDoc(pending, d)
                <5>1. d.path \in Paths
                    BY <3>1 DEF Docs
                <5>2. pending'[d.path] = Append(<<>>, d)
                    BY <3>1, <4>1, <5>1 DEF WithDoc, TypeOK
                <5>3. \A p \in Paths \ {d.path} : pending'[p] = pending[p]
                    BY <4>1 DEF WithDoc, TypeOK
                <5>4. Len(Append(<<>>, d)) = 1
                    BY <3>1
                <5>5. \A p \in Paths \ {d.path} : Len(pending'[p]) <= 1
                    BY <5>3 DEF AddsArePaired
                <5> QED
                    <6> SUFFICES ASSUME NEW p \in Paths PROVE Len(pending'[p]) <= 1
                        OBVIOUS
                    <6>1. CASE p = d.path
                        <7>1. pending'[p] = Append(<<>>, d)
                            BY <5>2, <6>1
                        <7> QED BY <5>4, <7>1
                    <6>2. CASE p # d.path
                        BY <5>5, <6>2
                    <6> QED BY <6>1, <6>2
            <4>2. CASE UNCHANGED pending
                BY <4>2 DEF AddsArePaired
            <4> QED BY <2>6, <4>1, <4>2 DEF ApplyAdd
        <3> QED BY <2>6, <3>1, <3>2, <3>3, ItemAppliedKeeps DEF ApplyAdd
    <2>7. CASE ApplyDelete(c)
        <3>1. ItemApplied(c)
            BY <2>7 DEF ApplyDelete, ItemApplied
        <3>2. AtItem(c)' /\ NextItem(c)'.op = "Add" =>
                  pending'[NextItem(c)'.doc.path] = <<>>
            <4> SUFFICES ASSUME AtItem(c)', NextItem(c)'.op = "Add"
                         PROVE  pending'[NextItem(c)'.doc.path] = <<>>
                OBVIOUS
            <4>1. NextItem(c)'.doc.path \in NextItem(c).keys
                BY <3>1, NextPaired
            <4>2. NextItem(c).keys \subseteq Paths
                BY <2>7, NextItemType DEF ApplyDelete, DeleteItems
            <4> QED BY <2>7, <4>1, <4>2 DEF ApplyDelete, WithoutKeys
        <3>3. \A p \in Paths : Len(pending'[p]) <= 1
            BY <2>7 DEF ApplyDelete, WithoutKeys, AddsArePaired
        <3> QED BY <2>7, <3>1, <3>2, <3>3, ItemAppliedKeeps DEF ApplyDelete
    <2>8. CASE DeleteFails(c)
        <3>1. ItemApplied(c)
            BY <2>8 DEF DeleteFails, ItemApplied
        <3>2. NextItem(c).op = "DeleteDir"
            BY <2>8 DEF DeleteFails
        <3>3. ~(AtItem(c)' /\ NextItem(c)'.op = "Add")
            BY <3>1, <3>2, NextPaired
        <3> QED BY <2>8, <3>1, <3>3, ItemAppliedKeeps DEF DeleteFails, indexVars, AddsArePaired
    <2>9. CASE CommitIndex(c)
        BY <2>9 DEF AddsArePaired, CommitIndex, EndTask, AtCommit, AtItem, NextItem, TypeOK, Paired
    <2>10. CASE CommitFails(c)
        BY <2>10 DEF AddsArePaired, CommitFails, EndTask, AtCommit, AtItem, NextItem, TypeOK, Paired
    <2>11. CASE TaskPanics(c)
        BY <2>11 DEF AddsArePaired, TaskPanics, indexVars, AtItem, NextItem, TypeOK, Paired
    <2>12. CASE RetainFailed(c)
        BY <2>12 DEF AddsArePaired, RetainFailed, indexVars, AtItem, NextItem, TypeOK
    <2>13. CASE RequeueFailed(c)
        BY <2>13, PairedBefore DEF AddsArePaired, RequeueFailed, indexVars, AtItem, NextItem, TypeOK
    <2> QED BY <1>5, <2>1, <2>2, <2>3, <2>4, <2>5, <2>6, <2>7, <2>8, <2>9, <2>10,
               <2>11, <2>12, <2>13 DEF Proceed
<1>6. CASE Restart
    BY <1>6 DEF AddsArePaired, Restart, AtItem, NextItem, Paired, TypeOK
<1>7. CASE UNCHANGED vars
    BY <1>7 DEF AddsArePaired, vars, taskVars, indexVars, AtItem, NextItem
<1> QED BY <1>2, <1>4, <1>5, <1>6, <1>7 DEF Next

\* No path ever has two live documents, provided that deleting by an exact
\* path does not fail by itself (a term query on an indexed field is always
\* well formed); commits, rollbacks, directory deletes, tasks and the process
\* may fail at any moment.
THEOREM WriterNeverDuplicates ==
    ASSUME "delete" \notin Faults
    PROVE  Spec => []NoDuplicates
<1>1. Init => NoDupInv
    BY NoDupInit
<1>2. NoDupInv /\ [Next]_vars => NoDupInv'
    BY NoDupStep
<1>3. NoDupInv => NoDuplicates
    BY DEF NoDupInv
<1> QED BY <1>1, <1>2, <1>3, PTL DEF Spec

-----------------------------------------------------------------------------
(* Times tell texts.                                                       *)

\* Neither a write nor a removal makes a sound document unsound.
LEMMA WriteKeepsSound ==
    ASSUME NEW now \in Nat, NEW files \in [Paths -> Nat], NEW p \in Paths,
           \A q \in Paths : files[q] <= now,
           NEW later, later = now + 1,
           NEW after, after = [files EXCEPT ![p] = later]
    PROVE  \A d \in Docs : /\ Seen(d, now, files) => Seen(d, later, after)
                           /\ Sound(d, now, files) => Sound(d, later, after)
BY DEF Seen, Sound, Docs, NoText

LEMMA RemoveKeepsSound ==
    ASSUME NEW now \in Nat, NEW files \in [Paths -> Nat], NEW p \in Paths,
           NEW after, after = [files EXCEPT ![p] = 0]
    PROVE  \A d \in Docs : /\ Seen(d, now, files) => Seen(d, now, after)
                           /\ Sound(d, now, files) => Sound(d, now, after)
BY DEF Seen, Sound, Docs, NoText

\* Loading the text of a document whose file has been seen makes it sound.
LEMMA LoadedIsSound ==
    ASSUME NEW now \in Nat, NEW files \in [Paths -> Nat], NEW d \in Docs,
           Seen(d, now, files), files[d.path] <= now,
           NEW text, NEW from, from = "disk" => text = files[d.path]
    PROVE  Sound([d EXCEPT !.text = text, !.from = from], now, files)
BY DEF Sound, Seen, Docs, NoText

\* The files change in a way that keeps every document sound.
FilesKeepSound ==
    /\ \A p \in Paths : disk'[p] <= clock'
    /\ \A d \in Docs : /\ Seen(d, clock, disk) => Seen(d, clock', disk')
                       /\ Sound(d, clock, disk) => Sound(d, clock', disk')
    /\ UNCHANGED <<buffer, pc, doc, batch, pending, committed>>

\* When the files change in a way that keeps every document sound, so they
\* stay everywhere in the writer.
LEMMA FilesChange ==
    ASSUME TypeOK, DocsAreSound, FilesKeepSound
    PROVE  DocsAreSound'
<1>1. \A items \in Seq(Items) :
          AllSound(items, clock, disk) => AllSound(items, clock', disk')
    BY DEF FilesKeepSound, AllSound, Items, AddItems, DeleteItems
<1>2. \A index \in [Paths -> Seq(Docs)] :
          IndexSound(index, clock, disk) => IndexSound(index, clock', disk')
    BY DEF FilesKeepSound, IndexSound
<1> QED BY <1>1, <1>2 DEF FilesKeepSound, DocsAreSound, TypeOK

LEMMA SoundConcat ==
    ASSUME NEW q \in Seq(Items), NEW r \in Seq(Items), NEW now, NEW files,
           AllSound(q, now, files), AllSound(r, now, files)
    PROVE  AllSound(q \o r, now, files)
<1>1. /\ DOMAIN (q \o r) = 1 .. Len(q) + Len(r)
      /\ \A i \in 1 .. Len(q) : (q \o r)[i] = q[i]
      /\ \A i \in Len(q) + 1 .. Len(q) + Len(r) : (q \o r)[i] = r[i - Len(q)]
    BY ConcatFacts
<1> QED BY <1>1 DEF AllSound

LEMMA SoundDeletes ==
    ASSUME NEW q \in Seq(DeleteItems), NEW now, NEW files
    PROVE  q \in Seq(Items) /\ AllSound(q, now, files)
<1>1. q \in Seq(Items)
    BY DEF Items
<1>2. \A i \in DOMAIN q : q[i].op # "Add"
    <2>1. \A i \in DOMAIN q : q[i] \in DeleteItems
        OBVIOUS
    <2> QED BY <2>1 DEF DeleteItems
<1> QED BY <1>1, <1>2 DEF AllSound

LEMMA SoundReindexed ==
    ASSUME NEW d \in Docs, NEW now, NEW files, Sound(d, now, files)
    PROVE  AllSound(Reindexed(d), now, files)
<1>1. AddItem(d).doc = d /\ DeleteItem(d.path).op # "Add"
    BY DEF AddItem, DeleteItem
<1>2. DOMAIN Reindexed(d) = {1, 2}
    BY ReindexedType
<1> QED BY <1>1, <1>2, ReindexedType DEF AllSound

LEMMA SoundWithDoc ==
    ASSUME NEW index \in [Paths -> Seq(Docs)], NEW d \in Docs, NEW now, NEW files,
           Sound(d, now, files), IndexSound(index, now, files)
    PROVE  IndexSound(WithDoc(index, d), now, files)
<1>1. d.path \in Paths
    BY DEF Docs
<1>2. SUFFICES ASSUME NEW p \in Paths, NEW i \in DOMAIN WithDoc(index, d)[p]
               PROVE  /\ WithDoc(index, d)[p][i].path = p
                      /\ Sound(WithDoc(index, d)[p][i], now, files)
    BY DEF IndexSound
<1>3. CASE p = d.path
    <2>1. WithDoc(index, d)[p] = Append(index[p], d)
        BY <1>1, <1>3 DEF WithDoc
    <2>2. CASE i = Len(index[p]) + 1
        BY <1>3, <2>1, <2>2
    <2>3. CASE i \in DOMAIN index[p]
        BY <2>1, <2>3 DEF IndexSound
    <2> QED BY <1>2, <2>1, <2>2, <2>3
<1>4. CASE p # d.path
    BY <1>2, <1>4 DEF WithDoc, IndexSound
<1> QED BY <1>3, <1>4

\* The strengthening that is inductive.
TellsInv == TypeOK /\ DocsAreSound

LEMMA TellsInit == Init => TellsInv
BY TypeInit DEF Init, TellsInv, DocsAreSound, AllSound, IndexSound, EmptyIndex

LEMMA TellsStep ==
    ASSUME TellsInv, [Next]_vars
    PROVE  TellsInv'
<1>1. TypeOK /\ TypeOK' /\ DocsAreSound
    BY TypeStep DEF TellsInv
<1> SUFFICES DocsAreSound'
    BY <1>1 DEF TellsInv
<1> USE <1>1
<1>2. CASE FileSystem
    <2>1. PICK p \in Paths : WriteFile(p) \/ RemoveFile(p)
        BY <1>2 DEF FileSystem
    <2>2. CASE WriteFile(p)
        <3>1. clock' = clock + 1 /\ disk' = [disk EXCEPT ![p] = clock']
            BY <2>2 DEF WriteFile
        <3>2. clock \in Nat /\ disk \in [Paths -> Nat] /\ \A q \in Paths : disk[q] <= clock
            BY DEF DocsAreSound, TypeOK
        <3>3. \A d \in Docs : /\ Seen(d, clock, disk) => Seen(d, clock', disk')
                              /\ Sound(d, clock, disk) => Sound(d, clock', disk')
            BY <3>1, <3>2, WriteKeepsSound
        <3>4. \A q \in Paths : disk'[q] <= clock'
            BY <3>1, <3>2
        <3>5. UNCHANGED <<buffer, pc, doc, batch, pending, committed>>
            BY <2>2 DEF WriteFile, taskVars, indexVars
        <3>6. FilesKeepSound
            BY <3>3, <3>4, <3>5 DEF FilesKeepSound
        <3> QED BY <3>6, FilesChange
    <2>3. CASE RemoveFile(p)
        <3>1. clock' = clock /\ disk' = [disk EXCEPT ![p] = 0]
            BY <2>3 DEF RemoveFile
        <3>2. clock \in Nat /\ disk \in [Paths -> Nat] /\ \A q \in Paths : disk[q] <= clock
            BY DEF DocsAreSound, TypeOK
        <3>3. \A d \in Docs : /\ Seen(d, clock, disk) => Seen(d, clock', disk')
                              /\ Sound(d, clock, disk) => Sound(d, clock', disk')
            BY <3>1, <3>2, RemoveKeepsSound
        <3>4. \A q \in Paths : disk'[q] <= clock'
            BY <3>1, <3>2
        <3>5. UNCHANGED <<buffer, pc, doc, batch, pending, committed>>
            BY <2>3 DEF RemoveFile, taskVars, indexVars
        <3>6. FilesKeepSound
            BY <3>3, <3>4, <3>5 DEF FilesKeepSound
        <3> QED BY <3>6, FilesChange
    <2> QED BY <2>1, <2>2, <2>3
<1>3. ASSUME NEW c \in Callers, NEW items \in Seq(Items), AllSound(items, clock, disk),
             BufferChanges(c, items), UNCHANGED <<clock, disk, batch, indexVars>>,
             UNCHANGED doc \/ doc' = [doc EXCEPT ![c] = NoDoc]
      PROVE  DocsAreSound'
    <2>1. AllSound(buffer', clock, disk)
        BY <1>3, SoundConcat DEF BufferChanges, DocsAreSound, TypeOK
    <2>2. \A e \in Callers : pc'[e] \in {"load", "push"} =>
              pc'[e] = pc[e] /\ doc'[e] = doc[e]
        BY <1>3 DEF BufferChanges, TypeOK
    <2> QED BY <1>3, <2>1, <2>2 DEF DocsAreSound, indexVars
<1>4. ASSUME NEW c \in Callers, Call(c)
      PROVE  DocsAreSound'
    <2>1. CASE \E p \in Paths : StatFile(c, p)
        <3>1. PICK p \in Paths : StatFile(c, p)
            BY <2>1
        <3>2. disk[p] \in 1 .. clock
            BY <3>1 DEF StatFile, DocsAreSound, TypeOK
        <3>3. Seen(doc'[c], clock, disk)
            BY <3>1, <3>2 DEF StatFile, Unloaded, Seen, TypeOK
        <3> QED BY <3>1, <3>3 DEF StatFile, DocsAreSound, TypeOK, indexVars
    <2>2. CASE \E p \in Paths : DeleteFile(c, p)
        <3>1. PICK p \in Paths : DeleteFile(c, p)
            BY <2>2
        <3>2. <<DeleteItem(p)>> \in Seq(DeleteItems)
            BY DeleteItemType
        <3> QED BY <3>1, <3>2, <1>3, SoundDeletes DEF DeleteFile
    <2>3. CASE \E d \in Dirs : DeleteDir(c, d)
        <3>1. PICK d \in Dirs : DeleteDir(c, d)
            BY <2>3
        <3>2. <<DeleteDirItem(d)>> \in Seq(DeleteItems)
            BY DeleteDirItemType
        <3> QED BY <3>1, <3>2, <1>3, SoundDeletes DEF DeleteDir
    <2>4. CASE CallCommit(c)
        BY <2>4 DEF CallCommit, DocsAreSound, TypeOK, indexVars
    <2> QED BY <1>4, <2>1, <2>2, <2>3, <2>4 DEF Call
<1>5. ASSUME NEW c \in Callers, Proceed(c)
      PROVE  DocsAreSound'
    <2>1. CASE LoadText(c)
        <3>1. PICK data \in Loaded(doc[c].path) :
                  doc' = [doc EXCEPT ![c] = [@ EXCEPT !.text = data.text, !.from = data.from]]
            BY <2>1, LoadTextDoes
        <3>2. doc[c] \in Docs /\ doc[c].path \in Paths /\ pc[c] = "load"
            BY <2>1, LoadTextDoes
        <3>3. data.from = "disk" => data.text = disk[doc[c].path]
            BY <3>2, LoadedType
        <3>4. doc'[c] = [doc[c] EXCEPT !.text = data.text, !.from = data.from]
            BY <3>1 DEF TypeOK
        <3>5. Sound(doc'[c], clock, disk)
            <4>1. clock \in Nat /\ disk \in [Paths -> Nat] /\ disk[doc[c].path] <= clock
                BY <3>2 DEF TypeOK, DocsAreSound
            <4>2. Seen(doc[c], clock, disk)
                BY <3>2 DEF DocsAreSound
            <4>3. Sound([doc[c] EXCEPT !.text = data.text, !.from = data.from], clock, disk)
                <5> DEFINE d == doc[c]
                <5>1. /\ d \in Docs /\ Seen(d, clock, disk) /\ disk[d.path] <= clock
                      /\ data.from = "disk" => data.text = disk[d.path]
                    BY <3>2, <3>3, <4>1, <4>2
                <5> HIDE DEF d
                <5>2. Sound([d EXCEPT !.text = data.text, !.from = data.from], clock, disk)
                    BY <4>1, <5>1, LoadedIsSound
                <5> QED BY <5>2 DEF d
            <4> QED BY <3>4, <4>3
        <3>6. /\ UNCHANGED <<clock, disk, buffer, batch, pending, committed>>
              /\ pc' = [pc EXCEPT ![c] = "push"]
            BY <2>1, LoadTextDoes
        <3>7. \A e \in Callers \ {c} : doc'[e] = doc[e] /\ pc'[e] = pc[e]
            BY <3>1, <3>6 DEF TypeOK
        <3>8. pc'[c] = "push"
            BY <3>6 DEF TypeOK
        <3> QED BY <3>5, <3>6, <3>7, <3>8 DEF DocsAreSound
    <2>2. CASE PushReindexed(c)
        <3>1. doc[c] \in Docs /\ Sound(doc[c], clock, disk)
            BY <2>2 DEF PushReindexed, DocsAreSound, TypeOK
        <3> QED BY <2>2, <3>1, <1>3, ReindexedType, SoundReindexed DEF PushReindexed
    <2>3. CASE CommitEmpty(c)
        BY <2>3 DEF CommitEmpty, DocsAreSound, TypeOK, indexVars
    <2>4. CASE TakeBuffer(c)
        BY <2>4 DEF TakeBuffer, DocsAreSound, AllSound, TypeOK, indexVars
    <2>5. CASE LockWriter(c)
        BY <2>5 DEF LockWriter, DocsAreSound, TypeOK, indexVars
    <2>6. CASE ApplyAdd(c)
        <3>1. NextItem(c).doc \in Docs
            BY <2>6, NextItemType DEF ApplyAdd
        <3>2. Sound(NextItem(c).doc, clock, disk)
            <4>1. pos[c] + 1 \in DOMAIN batch[c] /\ batch[c][pos[c] + 1].op = "Add"
                BY <2>6 DEF ApplyAdd, AtItem, NextItem, TypeOK
            <4>2. AllSound(batch[c], clock, disk)
                BY DEF DocsAreSound
            <4> QED BY <4>1, <4>2 DEF AllSound, NextItem
        <3>3. IndexSound(pending', clock, disk)
            <4>1. pending \in [Paths -> Seq(Docs)] /\ IndexSound(pending, clock, disk)
                BY DEF TypeOK, DocsAreSound
            <4>2. IndexSound(WithDoc(pending, NextItem(c).doc), clock, disk)
                BY <3>1, <3>2, <4>1, SoundWithDoc
            <4> QED BY <2>6, <4>1, <4>2 DEF ApplyAdd
        <3> QED BY <2>6, <3>3 DEF ApplyAdd, DocsAreSound
    <2>7. CASE ApplyDelete(c)
        <3>1. IndexSound(pending', clock, disk)
            BY <2>7 DEF ApplyDelete, WithoutKeys, IndexSound, DocsAreSound
        <3> QED BY <2>7, <3>1 DEF ApplyDelete, DocsAreSound
    <2>8. CASE DeleteFails(c)
        BY <2>8 DEF DeleteFails, DocsAreSound, indexVars
    <2>9. CASE CommitIndex(c)
        BY <2>9 DEF CommitIndex, EndTask, DocsAreSound, AllSound, TypeOK
    <2>10. CASE CommitFails(c)
        BY <2>10 DEF CommitFails, EndTask, DocsAreSound, AllSound, TypeOK
    <2>11. CASE TaskPanics(c)
        BY <2>11 DEF TaskPanics, DocsAreSound, AllSound, TypeOK, indexVars
    <2>12. CASE RetainFailed(c)
        BY <2>12 DEF RetainFailed, DocsAreSound, indexVars
    <2>13. CASE RequeueFailed(c)
        <3>1. AllSound(buffer', clock, disk)
            BY <2>13, SoundConcat, SoundDeletes DEF RequeueFailed, DocsAreSound, TypeOK
        <3> QED BY <2>13, <3>1 DEF RequeueFailed, DocsAreSound, TypeOK, indexVars
    <2> QED BY <1>5, <2>1, <2>2, <2>3, <2>4, <2>5, <2>6, <2>7, <2>8, <2>9, <2>10,
               <2>11, <2>12, <2>13 DEF Proceed
<1>6. CASE Restart
    BY <1>6 DEF Restart, DocsAreSound, AllSound
<1>7. CASE UNCHANGED vars
    BY <1>7 DEF vars, taskVars, indexVars, DocsAreSound
<1> QED BY <1>2, <1>4, <1>5, <1>6, <1>7 DEF Next

\* A document whose text was read from the disk (add_file reads the metadata
\* before it) and that has the file's present time has the file's present text:
\* loads, commits, deletes, tasks and the process may fail at any moment, and
\* the cache may hold any text.
THEOREM DiskTextsMatchTimes == Spec => []TimeTellsText
<1>1. Init => TellsInv
    BY TellsInit
<1>2. TellsInv /\ [Next]_vars => TellsInv'
    BY TellsStep
<1>3. TellsInv => TimeTellsText
    <2> SUFFICES ASSUME TellsInv, NEW p \in Paths, NEW i \in DOMAIN committed[p],
                        committed[p][i].from = "disk", committed[p][i].mtime = disk[p]
                 PROVE  committed[p][i].text = disk[p]
        BY DEF TimeTellsText
    <2>1. committed[p][i].path = p /\ Sound(committed[p][i], clock, disk)
        BY DEF TellsInv, DocsAreSound, IndexSound
    <2>2. committed[p][i] \in Docs /\ disk[p] \in Nat /\ clock \in Nat
        BY DEF TellsInv, TypeOK
    <2> QED BY <2>1, <2>2 DEF Sound, Seen, Docs, NoText
<1> QED BY <1>1, <1>2, <1>3, PTL DEF Spec

-----------------------------------------------------------------------------
(* A commit that returns true.                                             *)

\* What keeps the documents of a batch together with the deletes of their
\* paths, whatever fails.
BatchShape ==
    /\ Paired(buffer)
    /\ \A c \in Callers : Paired(batch[c])
    /\ \A c \in Callers : pc[c] # "apply" => pos[c] = 0
    /\ \A c \in Callers : pc[c] = "apply" => pos[c] <= Len(batch[c])
    /\ \A c, e \in Callers : pc[c] = "apply" /\ pc[e] = "apply" => c = e

\* Among the first n items, none behind item i deletes its document again.
KeptSoFar(items, i, n) ==
    /\ items[i].op = "Add"
    /\ \A j \in (i + 1) .. n :
          items[j].op # "Add" => items[i].doc.path \notin items[j].keys

Holds(index, d) == \E k \in DOMAIN index[d.path] : index[d.path][k] = d

\* What the running task has added so far and not deleted again is pending.
AddedArePending ==
    \A c \in Callers : pc[c] = "apply" =>
        \A i \in 1 .. pos[c] :
            KeptSoFar(batch[c], i, pos[c]) => Holds(pending, batch[c][i].doc)

\* A delete it has handled is on one of the lists that a failed commit requeues.
HandledAreListed ==
    \A c \in Callers : pc[c] = "apply" =>
        \A i \in 1 .. pos[c] :
            batch[c][i].op # "Add" => applied[c] # <<>> \/ failed[c] # <<>>

\* The strengthening that is inductive.
ReportInv ==
    /\ TypeOK
    /\ BatchShape
    /\ AddedArePending
    /\ HandledAreListed

LEMMA ReportInit == Init => ReportInv
BY TypeInit
DEF Init, ReportInv, BatchShape, Paired, AddedArePending, HandledAreListed

LEMMA ShapeStep ==
    ASSUME TypeOK, TypeOK', BatchShape, [Next]_vars
    PROVE  BatchShape'
<1> USE DEF BatchShape
<1>1. CASE UNCHANGED <<buffer, batch, pc, pos>>
    BY <1>1
<1>2. ASSUME NEW c \in Callers, NEW items \in Seq(Items), Paired(items),
             BufferChanges(c, items), pc[c] \in {"idle", "push"}, UNCHANGED <<batch, pos>>
      PROVE  BatchShape'
    <2>1. Paired(buffer')
        BY <1>2, PairedAppend DEF BufferChanges, TypeOK
    <2>2. \A e \in Callers : pc'[e] = "apply" <=> pc[e] = "apply"
        BY <1>2 DEF BufferChanges, TypeOK
    <2> QED BY <1>2, <2>1, <2>2
<1>3. ASSUME NEW c \in Callers, Call(c)
      PROVE  BatchShape'
    <2>1. CASE \E p \in Paths : StatFile(c, p)
        BY <2>1 DEF StatFile, TypeOK
    <2>2. CASE \E p \in Paths : DeleteFile(c, p)
        BY <1>2, <2>2, DeleteItemType, PairedDelete DEF DeleteFile
    <2>3. CASE \E d \in Dirs : DeleteDir(c, d)
        BY <1>2, <2>3, DeleteDirItemType, PairedDelete DEF DeleteDir
    <2>4. CASE CallCommit(c)
        BY <2>4 DEF CallCommit, TypeOK
    <2> QED BY <1>3, <2>1, <2>2, <2>3, <2>4 DEF Call
<1>4. ASSUME NEW c \in Callers, Proceed(c)
      PROVE  BatchShape'
    <2>1. CASE LoadText(c)
        BY <2>1 DEF LoadText, TypeOK
    <2>2. CASE PushReindexed(c)
        BY <1>2, <2>2, PairedReindexed DEF PushReindexed, TypeOK
    <2>3. CASE CommitEmpty(c)
        BY <2>3 DEF CommitEmpty, TypeOK
    <2>4. CASE TakeBuffer(c)
        BY <2>4 DEF TakeBuffer, TypeOK, Paired
    <2>5. CASE LockWriter(c)
        BY <2>5 DEF LockWriter, WriterFree, TypeOK
    <2>6. CASE ApplyAdd(c) \/ ApplyDelete(c) \/ DeleteFails(c)
        <3>1. ItemApplied(c) /\ UNCHANGED buffer
            BY <2>6 DEF ApplyAdd, ApplyDelete, DeleteFails, ItemApplied
        <3> QED BY <3>1 DEF ItemApplied, AtItem, TypeOK
    <2>7. CASE CommitIndex(c) \/ CommitFails(c)
        <3>1. /\ batch' = [batch EXCEPT ![c] = <<>>] /\ pos' = [pos EXCEPT ![c] = 0]
              /\ UNCHANGED buffer
              /\ \A e \in Callers : pc'[e] = "apply" => pc[e] = "apply" /\ e # c
            BY <2>7 DEF CommitIndex, CommitFails, EndTask, TypeOK
        <3>2. Paired(<<>>)
            BY DEF Paired
        <3>3. \A e \in Callers : Paired(batch'[e])
            BY <3>1, <3>2 DEF TypeOK
        <3>4. \A e \in Callers : pc'[e] # "apply" => pos'[e] = 0
            BY <2>7, <3>1 DEF CommitIndex, CommitFails, EndTask, TypeOK
        <3>5. \A e \in Callers : pc'[e] = "apply" => pos'[e] <= Len(batch'[e])
            BY <3>1 DEF TypeOK
        <3> QED BY <3>1, <3>3, <3>4, <3>5
    <2>8. CASE TaskPanics(c)
        BY <2>8 DEF TaskPanics, TypeOK, Paired
    <2>9. CASE RetainFailed(c)
        BY <1>1, <2>9 DEF RetainFailed
    <2>10. CASE RequeueFailed(c)
        BY <2>10, PairedBefore DEF RequeueFailed, TypeOK
    <2> QED BY <1>4, <2>1, <2>2, <2>3, <2>4, <2>5, <2>6, <2>7, <2>8, <2>9, <2>10 DEF Proceed
<1>5. CASE FileSystem
    BY <1>1, <1>5 DEF FileSystem, WriteFile, RemoveFile, taskVars
<1>6. CASE Restart
    BY <1>6 DEF Restart, Paired
<1>7. CASE UNCHANGED vars
    BY <1>1, <1>7 DEF vars, taskVars
<1> QED BY <1>3, <1>4, <1>5, <1>6, <1>7 DEF Next

LEMMA HoldsWithDoc ==
    ASSUME NEW index \in [Paths -> Seq(Docs)], NEW d \in Docs
    PROVE  /\ Holds(WithDoc(index, d), d)
           /\ \A e \in Docs : Holds(index, e) => Holds(WithDoc(index, d), e)
<1>1. /\ d.path \in Paths
      /\ WithDoc(index, d)[d.path] = Append(index[d.path], d)
      /\ \A p \in Paths \ {d.path} : WithDoc(index, d)[p] = index[p]
    BY DEF WithDoc, Docs
<1>2. /\ DOMAIN Append(index[d.path], d) = 1 .. Len(index[d.path]) + 1
      /\ Append(index[d.path], d)[Len(index[d.path]) + 1] = d
      /\ \A k \in DOMAIN index[d.path] : Append(index[d.path], d)[k] = index[d.path][k]
    BY <1>1
<1>3. Holds(WithDoc(index, d), d)
    BY <1>1, <1>2 DEF Holds
<1>4. ASSUME NEW e \in Docs, Holds(index, e)
      PROVE  Holds(WithDoc(index, d), e)
    <2>1. PICK k \in DOMAIN index[e.path] : index[e.path][k] = e
        BY <1>4 DEF Holds
    <2>2. CASE e.path = d.path
        <3>1. k \in DOMAIN Append(index[d.path], d) /\ Append(index[d.path], d)[k] = e
            BY <1>1, <1>2, <2>1, <2>2
        <3> QED BY <1>1, <2>2, <3>1 DEF Holds
    <2>3. CASE e.path # d.path
        BY <1>1, <2>1, <2>3 DEF Holds, Docs
    <2> QED BY <2>2, <2>3
<1> QED BY <1>3, <1>4

LEMMA HoldsWithoutKeys ==
    ASSUME NEW index \in [Paths -> Seq(Docs)], NEW keys \in SUBSET Paths,
           NEW e \in Docs, e.path \notin keys, Holds(index, e)
    PROVE  Holds(WithoutKeys(index, keys), e)
BY DEF Holds, WithoutKeys, Docs

\* No task that applies items is disturbed.
TasksUndisturbed ==
    /\ \A e \in Callers : pc'[e] = "apply" =>
          /\ pc[e] = "apply"
          /\ batch'[e] = batch[e] /\ pos'[e] = pos[e]
          /\ applied'[e] = applied[e] /\ failed'[e] = failed[e]
    /\ UNCHANGED pending \/ \A e \in Callers : pc'[e] # "apply"

LEMMA UndisturbedKeeps ==
    ASSUME AddedArePending, HandledAreListed, TasksUndisturbed
    PROVE  AddedArePending' /\ HandledAreListed'
BY DEF AddedArePending, HandledAreListed, TasksUndisturbed

\* One item of c has been handled.
LEMMA HandledKeeps ==
    ASSUME TypeOK, BatchShape, AddedArePending, HandledAreListed,
           NEW c \in Callers, ItemApplied(c),
           NextItem(c).op # "Add" => applied'[c] # <<>> \/ failed'[c] # <<>>,
           applied[c] # <<>> \/ failed[c] # <<>> => applied'[c] # <<>> \/ failed'[c] # <<>>,
           NextItem(c).op = "Add" => Holds(pending', NextItem(c).doc),
           \A d \in Docs : /\ Holds(pending, d)
                           /\ NextItem(c).op # "Add" => d.path \notin NextItem(c).keys
                           => Holds(pending', d)
    PROVE  AddedArePending' /\ HandledAreListed'
<1>1. \A e \in Callers : pc'[e] = "apply" => e = c
    BY DEF ItemApplied, AtItem, BatchShape
<1>2. pc'[c] = "apply" /\ pos'[c] = pos[c] + 1 /\ batch' = batch /\ pos[c] \in Nat
    BY DEF ItemApplied, AtItem, TypeOK
<1>3. pos[c] + 1 \in DOMAIN batch[c] /\ batch[c] \in Seq(Items)
    BY DEF ItemApplied, AtItem, TypeOK
<1>4. ASSUME NEW i \in 1 .. pos[c] + 1, KeptSoFar(batch[c], i, pos[c] + 1)
      PROVE  Holds(pending', batch[c][i].doc)
    <2>1. CASE i = pos[c] + 1
        BY <1>4, <2>1 DEF KeptSoFar, NextItem
    <2>2. CASE i \in 1 .. pos[c]
        <3>1. KeptSoFar(batch[c], i, pos[c])
            BY <1>2, <1>4, <2>2 DEF KeptSoFar
        <3>2. Holds(pending, batch[c][i].doc)
            BY <2>2, <3>1 DEF AddedArePending, ItemApplied, AtItem
        <3>3. NextItem(c).op # "Add" => batch[c][i].doc.path \notin NextItem(c).keys
            BY <1>2, <1>4, <2>2 DEF KeptSoFar, NextItem
        <3>4. batch[c][i].doc \in Docs
            <4>1. batch[c][i] \in Items
                BY <1>2, <1>3, <2>2
            <4>2. batch[c][i].op = "Add"
                BY <3>1 DEF KeptSoFar
            <4> QED BY <4>1, <4>2 DEF Items, AddItems, DeleteItems
        <3> QED BY <3>2, <3>3, <3>4
    <2> QED BY <1>2, <2>1, <2>2
<1>5. ASSUME NEW i \in 1 .. pos[c] + 1, batch[c][i].op # "Add"
      PROVE  applied'[c] # <<>> \/ failed'[c] # <<>>
    <2>1. CASE i = pos[c] + 1
        BY <1>5, <2>1 DEF NextItem
    <2>2. CASE i \in 1 .. pos[c]
        BY <1>5, <2>2 DEF HandledAreListed, ItemApplied, AtItem
    <2> QED BY <1>2, <2>1, <2>2
<1>6. AddedArePending'
    BY <1>1, <1>2, <1>4 DEF AddedArePending
<1>7. HandledAreListed'
    BY <1>1, <1>2, <1>5 DEF HandledAreListed
<1> QED BY <1>6, <1>7

LEMMA ReportStep ==
    ASSUME "add" \notin Faults, ReportInv, [Next]_vars
    PROVE  ReportInv'
<1>1. /\ TypeOK /\ TypeOK'
      /\ BatchShape /\ BatchShape'
      /\ AddedArePending /\ HandledAreListed
    BY TypeStep, ShapeStep DEF ReportInv
<1> SUFFICES AddedArePending' /\ HandledAreListed'
    BY <1>1 DEF ReportInv
<1>2. CASE TasksUndisturbed
    BY <1>1, <1>2, UndisturbedKeeps
<1>3. ASSUME NEW c \in Callers, Call(c)
      PROVE  TasksUndisturbed
    BY <1>1, <1>3
    DEF Call, StatFile, DeleteFile, DeleteDir, CallCommit, BufferChanges, indexVars,
        TasksUndisturbed, TypeOK
<1>4. ASSUME NEW c \in Callers, Proceed(c)
      PROVE  AddedArePending' /\ HandledAreListed'
    <2>1. CASE \/ LoadText(c) \/ PushReindexed(c) \/ CommitEmpty(c) \/ TakeBuffer(c)
               \/ TaskPanics(c) \/ RetainFailed(c) \/ RequeueFailed(c)
        <3>1. CASE LoadText(c) \/ PushReindexed(c) \/ CommitEmpty(c)
            <4>1. TasksUndisturbed
                BY <1>1, <3>1
                DEF LoadText, PushReindexed, CommitEmpty, BufferChanges, indexVars,
                    TasksUndisturbed, TypeOK
            <4> QED BY <1>2, <4>1
        <3>2. CASE TakeBuffer(c)
            <4>1. TasksUndisturbed
                BY <1>1, <3>2 DEF TakeBuffer, indexVars, TasksUndisturbed, TypeOK
            <4> QED BY <1>2, <4>1
        <3>4. CASE TaskPanics(c)
            <4>1. TasksUndisturbed
                BY <1>1, <3>4 DEF TaskPanics, indexVars, TasksUndisturbed, TypeOK
            <4> QED BY <1>2, <4>1
        <3>3. CASE RetainFailed(c) \/ RequeueFailed(c)
            <4>1. TasksUndisturbed
                BY <1>1, <3>3
                DEF RetainFailed, RequeueFailed, indexVars, TasksUndisturbed, TypeOK
            <4> QED BY <1>2, <4>1
        <3> QED BY <2>1, <3>1, <3>2, <3>3, <3>4
    <2>2. CASE LockWriter(c)
        <3>1. \A e \in Callers : pc'[e] = "apply" => e = c
            BY <1>1, <2>2 DEF LockWriter, WriterFree, TypeOK
        <3>2. pos'[c] = 0
            BY <1>1, <2>2 DEF LockWriter, BatchShape
        <3> QED BY <3>1, <3>2 DEF AddedArePending, HandledAreListed
    <2>3. CASE ApplyAdd(c)
        <3> DEFINE d == NextItem(c).doc
        <3>1. d \in Docs /\ pending' = WithDoc(pending, d) /\ ItemApplied(c)
            BY <1>1, <2>3, NextItemType DEF ApplyAdd, ItemApplied
        <3>2. /\ Holds(pending', d)
              /\ \A e \in Docs : Holds(pending, e) => Holds(pending', e)
            BY <1>1, <3>1, HoldsWithDoc DEF TypeOK
        <3>3. NextItem(c).op = "Add" /\ UNCHANGED <<applied, failed>>
            BY <2>3 DEF ApplyAdd
        <3> QED BY <1>1, <3>1, <3>2, <3>3, HandledKeeps
    <2>4. CASE ApplyDelete(c)
        <3>1. /\ ItemApplied(c) /\ NextItem(c).op # "Add"
              /\ pending' = WithoutKeys(pending, NextItem(c).keys)
              /\ applied'[c] = Append(applied[c], NextItem(c))
            BY <1>1, <2>4 DEF ApplyDelete, ItemApplied, TypeOK
        <3>2. NextItem(c) \in DeleteItems /\ NextItem(c).keys \in SUBSET Paths
            BY <1>1, <3>1, NextItemType DEF ItemApplied, DeleteItems
        <3>3. \A e \in Docs : Holds(pending, e) /\ e.path \notin NextItem(c).keys
                  => Holds(pending', e)
            BY <1>1, <3>1, <3>2, HoldsWithoutKeys DEF TypeOK
        <3>4. applied'[c] # <<>>
            <4>1. applied[c] \in Seq(DeleteItems)
                BY <1>1 DEF TypeOK
            <4> QED BY <3>1, <3>2, <4>1, AppendProperties
        <3> QED BY <1>1, <3>1, <3>3, <3>4, HandledKeeps
    <2>5. CASE DeleteFails(c)
        <3>1. /\ ItemApplied(c) /\ NextItem(c).op # "Add" /\ UNCHANGED pending
              /\ failed'[c] = Append(failed[c], NextItem(c))
            BY <1>1, <2>5 DEF DeleteFails, ItemApplied, TypeOK, indexVars
        <3>2. failed'[c] # <<>>
            <4>1. failed[c] \in Seq(DeleteItems) /\ NextItem(c) \in DeleteItems
                BY <1>1, <3>1, NextItemType DEF TypeOK, ItemApplied
            <4> QED BY <3>1, <4>1, AppendProperties
        <3> QED BY <1>1, <3>1, <3>2, HandledKeeps
    <2>6. CASE CommitIndex(c) \/ CommitFails(c)
        <3>1. \A e \in Callers : pc'[e] # "apply"
            BY <1>1, <2>6 DEF CommitIndex, CommitFails, AtCommit, EndTask, BatchShape, TypeOK
        <3> QED BY <3>1 DEF AddedArePending, HandledAreListed
    <2> QED BY <1>4, <2>1, <2>2, <2>3, <2>4, <2>5, <2>6 DEF Proceed
<1>5. CASE FileSystem
    <2>1. TasksUndisturbed
        BY <1>5 DEF FileSystem, WriteFile, RemoveFile, taskVars, indexVars, TasksUndisturbed
    <2> QED BY <1>2, <2>1
<1>6. CASE Restart
    BY <1>6 DEF Restart, AddedArePending, HandledAreListed
<1>7. CASE UNCHANGED vars
    <2>1. TasksUndisturbed
        BY <1>7 DEF vars, taskVars, indexVars, TasksUndisturbed
    <2> QED BY <1>2, <2>1
<1> QED BY <1>2, <1>3, <1>4, <1>5, <1>6, <1>7 DEF Next

\* A task that ends with true has committed what it kept.
LEMMA EndsTrue ==
    ASSUME ReportInv, NEW c \in Callers, CommitIndex(c) \/ CommitFails(c), result'[c],
           NEW i \in 1 .. Len(batch[c]), Kept(batch[c], i)
    PROVE  batch[c][i].doc \in Documents(committed')
<1>1. /\ TypeOK /\ BatchShape /\ AddedArePending /\ HandledAreListed
      /\ pc[c] = "apply" /\ pos[c] = Len(batch[c])
    BY DEF ReportInv, CommitIndex, CommitFails, AtCommit
<1>2. batch[c][i].op = "Add" /\ batch[c][i].doc \in Docs
    <2>1. batch[c][i] \in Items
        BY <1>1 DEF TypeOK
    <2> QED BY <2>1 DEF Kept, Items, AddItems, DeleteItems
<1>3. CASE CommitIndex(c)
    <2>1. KeptSoFar(batch[c], i, pos[c])
        BY <1>1 DEF Kept, KeptSoFar
    <2>2. Holds(committed', batch[c][i].doc)
        BY <1>1, <1>3, <2>1 DEF AddedArePending, CommitIndex
    <2> QED BY <1>2, <2>2 DEF Holds, Documents, Docs
<1>4. CASE CommitFails(c)
    <2>1. applied[c] = <<>> /\ failed[c] = <<>>
        <3>1. applied[c] \o failed[c] = <<>>
            BY <1>1, <1>4 DEF CommitFails, EndTask, TypeOK
        <3>2. Len(applied[c] \o failed[c]) = Len(applied[c]) + Len(failed[c])
            BY <1>1 DEF TypeOK
        <3> QED BY <1>1, <3>1, <3>2 DEF TypeOK
    <2>2. i > 1 /\ batch[c][i - 1].op = "Delete" /\ i - 1 \in 1 .. pos[c]
        <3>1. Paired(batch[c]) /\ i \in DOMAIN batch[c]
            BY <1>1 DEF BatchShape, TypeOK
        <3> QED BY <1>1, <1>2, <3>1 DEF Paired
    <2> QED BY <1>1, <2>1, <2>2 DEF HandledAreListed
<1> QED BY <1>3, <1>4

LEMMA ReportAction ==
    ReportInv /\ [Next]_vars =>
        \A c \in Callers :
            (pc[c] = "apply" /\ pc'[c] = "idle" /\ result'[c]) =>
                \A i \in 1 .. Len(batch[c]) :
                    Kept(batch[c], i) => batch[c][i].doc \in Documents(committed')
<1> SUFFICES ASSUME ReportInv, [Next]_vars, NEW c \in Callers,
                    pc[c] = "apply", pc'[c] = "idle", result'[c]
             PROVE  CommitIndex(c) \/ CommitFails(c)
    BY EndsTrue
<1>1. TypeOK
    BY DEF ReportInv
<1>2. CASE FileSystem \/ UNCHANGED vars
    BY <1>2 DEF FileSystem, WriteFile, RemoveFile, vars, taskVars
<1>3. ~Restart
    BY DEF Restart
<1>4. ASSUME NEW e \in Callers, Call(e)
      PROVE  FALSE
    BY <1>1, <1>4 DEF Call, StatFile, DeleteFile, DeleteDir, CallCommit, BufferChanges, TypeOK
<1>5. ASSUME NEW e \in Callers, Proceed(e)
      PROVE  CommitIndex(c) \/ CommitFails(c)
    <2>1. CASE \/ LoadText(e) \/ PushReindexed(e) \/ CommitEmpty(e) \/ TakeBuffer(e)
               \/ LockWriter(e) \/ RetainFailed(e) \/ RequeueFailed(e)
        BY <1>1, <2>1
        DEF LoadText, PushReindexed, CommitEmpty, TakeBuffer, LockWriter,
            RetainFailed, RequeueFailed, BufferChanges, TypeOK
    <2>2. CASE ApplyAdd(e) \/ ApplyDelete(e) \/ DeleteFails(e)
        BY <2>2 DEF ApplyAdd, ApplyDelete, DeleteFails
    <2>3. CASE TaskPanics(e)
        BY <1>1, <2>3 DEF TaskPanics, TypeOK
    <2>4. CASE CommitIndex(e) \/ CommitFails(e)
        <3>1. e = c
            BY <1>1, <2>4 DEF CommitIndex, CommitFails, EndTask, TypeOK
        <3> QED BY <2>4, <3>1
    <2> QED BY <1>5, <2>1, <2>2, <2>3, <2>4 DEF Proceed
<1> QED BY <1>2, <1>3, <1>4, <1>5 DEF Next

\* When commit() of a batch returns true, every document of the batch that the
\* batch itself does not delete again is in the index: for any number of
\* callers, whatever fails besides add_document, whose error is only logged.
THEOREM TrueCommitsKeepDocuments ==
    ASSUME "add" \notin Faults
    PROVE  Spec => TrueMeansCommitted
<1>1. ReportInv /\ [Next]_vars => ReportInv'
    BY ReportStep
<1>2. Spec => []ReportInv
    BY ReportInit, <1>1, PTL DEF Spec
<1> QED BY <1>2, ReportAction, PTL DEF Spec, TrueMeansCommitted

-----------------------------------------------------------------------------
(* The changes of a path in order, with one caller.                        *)

\* A document of p with modification time t was read from a version of the
\* file that is not newer than the present one.
ReadBefore(p, t) == t <= clock /\ (disk[p] # 0 => t <= disk[p])

\* d is not older than what the index holds of its path.
FollowsIndex(d) ==
    \A index \in {pending, committed} :
        \A k \in DOMAIN index[d.path] : index[d.path][k].mtime <= d.mtime

\* d is not older than the documents of its path among the items.
Follows(d, items) ==
    \A i \in DOMAIN items :
        items[i].op = "Add" /\ items[i].doc.path = d.path => items[i].doc.mtime <= d.mtime

InOrder(items) ==
    \A i, j \in DOMAIN items :
        /\ i < j
        /\ items[i].op = "Add" /\ items[j].op = "Add"
        /\ items[i].doc.path = items[j].doc.path
        => items[i].doc.mtime <= items[j].doc.mtime

\* The documents on the way, each stage behind the one before it: committed,
\* pending, the rest of the batch, the buffer, the document being built.
FilesInOrder ==
    /\ \A p \in Paths : disk[p] <= clock
    /\ \A p \in Paths : \A index \in {pending, committed} :
          \A k \in DOMAIN index[p] : ReadBefore(p, index[p][k].mtime)

IndexInOrder ==
    \A p \in Paths :
        /\ \A k \in DOMAIN committed[p] : committed[p][1].mtime <= committed[p][k].mtime
        /\ \A k \in DOMAIN pending[p] : /\ pending[p][1].mtime <= pending[p][k].mtime
                                        /\ committed[p] # <<>> =>
                                              committed[p][1].mtime <= pending[p][k].mtime

BatchInOrder ==
    \A c \in Callers :
        /\ InOrder(batch[c])
        /\ \A i \in DOMAIN batch[c] : batch[c][i].op = "Add" =>
              /\ ReadBefore(batch[c][i].doc.path, batch[c][i].doc.mtime)
              /\ i > pos[c] => FollowsIndex(batch[c][i].doc)

BufferInOrder ==
    /\ InOrder(buffer)
    /\ \A i \in DOMAIN buffer : buffer[i].op = "Add" =>
          /\ ReadBefore(buffer[i].doc.path, buffer[i].doc.mtime)
          /\ FollowsIndex(buffer[i].doc)
          /\ \A c \in Callers : Follows(buffer[i].doc, batch[c])

DocInOrder ==
    \A c \in Callers : pc[c] \in {"load", "push"} =>
        /\ ReadBefore(doc[c].path, doc[c].mtime)
        /\ FollowsIndex(doc[c])
        /\ Follows(doc[c], buffer)
        /\ \A e \in Callers : Follows(doc[c], batch[e])

\* The strengthening that is inductive when there is one caller.
OrderInv ==
    /\ TypeOK
    /\ FilesInOrder
    /\ IndexInOrder
    /\ BatchInOrder
    /\ BufferInOrder
    /\ DocInOrder

LEMMA OrderInit == Init => OrderInv
BY TypeInit
DEF Init, OrderInv, FilesInOrder, IndexInOrder, BatchInOrder, BufferInOrder, DocInOrder,
    EmptyIndex, InOrder

\* An item of a concatenation is an item of one of its halves.
LEMMA ConcatMember ==
    ASSUME NEW q \in Seq(Items), NEW r \in Seq(Items), NEW i \in DOMAIN (q \o r)
    PROVE  \/ i \in DOMAIN q /\ (q \o r)[i] = q[i]
           \/ /\ i > Len(q) /\ i - Len(q) \in DOMAIN r
              /\ (q \o r)[i] = r[i - Len(q)]
<1>1. DOMAIN (q \o r) = 1 .. Len(q) + Len(r)
    BY ConcatFacts
<1>2. CASE i \in 1 .. Len(q)
    BY <1>2, ConcatFacts
<1>3. CASE i \in Len(q) + 1 .. Len(q) + Len(r)
    <2>1. (q \o r)[i] = r[i - Len(q)]
        BY <1>3, ConcatFacts
    <2> QED BY <1>3, <2>1
<1> QED BY <1>1, <1>2, <1>3

LEMMA FollowsConcat ==
    ASSUME NEW q \in Seq(Items), NEW r \in Seq(Items), NEW d,
           Follows(d, q), Follows(d, r)
    PROVE  Follows(d, q \o r)
<1> SUFFICES ASSUME NEW i \in DOMAIN (q \o r), (q \o r)[i].op = "Add",
                    (q \o r)[i].doc.path = d.path
             PROVE  (q \o r)[i].doc.mtime <= d.mtime
    BY DEF Follows
<1> QED BY ConcatMember DEF Follows

LEMMA InOrderConcat ==
    ASSUME NEW q \in Seq(Items), NEW r \in Seq(Items), InOrder(q), InOrder(r),
           \A j \in DOMAIN r : r[j].op = "Add" => Follows(r[j].doc, q)
    PROVE  InOrder(q \o r)
<1> SUFFICES ASSUME NEW i \in DOMAIN (q \o r), NEW j \in DOMAIN (q \o r), i < j,
                    (q \o r)[i].op = "Add", (q \o r)[j].op = "Add",
                    (q \o r)[i].doc.path = (q \o r)[j].doc.path
             PROVE  (q \o r)[i].doc.mtime <= (q \o r)[j].doc.mtime
    BY DEF InOrder
<1>1. i \in Nat /\ j \in Nat /\ Len(q) \in Nat
    <2>1. DOMAIN (q \o r) = 1 .. Len(q) + Len(r)
        BY ConcatFacts
    <2> QED BY <2>1
<1>2. CASE j \in DOMAIN q /\ (q \o r)[j] = q[j]
    <2>1. i \in DOMAIN q /\ (q \o r)[i] = q[i]
        BY <1>1, <1>2, ConcatMember
    <2> QED BY <1>2, <2>1 DEF InOrder
<1>3. CASE j > Len(q) /\ j - Len(q) \in DOMAIN r /\ (q \o r)[j] = r[j - Len(q)]
    <2>1. CASE i \in DOMAIN q /\ (q \o r)[i] = q[i]
        BY <1>3, <2>1 DEF Follows
    <2>2. CASE i > Len(q) /\ i - Len(q) \in DOMAIN r /\ (q \o r)[i] = r[i - Len(q)]
        BY <1>1, <1>3, <2>2 DEF InOrder
    <2> QED BY <2>1, <2>2, ConcatMember
<1> QED BY <1>2, <1>3, ConcatMember

LEMMA NoAdds ==
    ASSUME NEW r \in Seq(DeleteItems)
    PROVE  /\ r \in Seq(Items)
           /\ InOrder(r)
           /\ \A d : Follows(d, r)
           /\ \A i \in DOMAIN r : r[i].op # "Add"
<1>1. r \in Seq(Items)
    BY DEF Items
<1>2. \A i \in DOMAIN r : r[i].op # "Add"
    <2>1. \A i \in DOMAIN r : r[i] \in DeleteItems
        OBVIOUS
    <2> QED BY <2>1 DEF DeleteItems
<1> QED BY <1>1, <1>2 DEF InOrder, Follows

\* What is at the front of a document's path after one more document.
LEMMA AppendedDoc ==
    ASSUME NEW index \in [Paths -> Seq(Docs)], NEW d \in Docs, NEW p \in Paths,
           NEW k \in DOMAIN WithDoc(index, d)[p]
    PROVE  /\ \/ k \in DOMAIN index[p] /\ WithDoc(index, d)[p][k] = index[p][k]
              \/ p = d.path /\ WithDoc(index, d)[p][k] = d
           /\ \/ index[p] # <<>> /\ WithDoc(index, d)[p][1] = index[p][1]
              \/ index[p] = <<>> /\ p = d.path /\ WithDoc(index, d)[p][1] = d /\ k = 1
<1>1. CASE p = d.path
    <2>1. WithDoc(index, d)[p] = Append(index[p], d)
        BY <1>1 DEF WithDoc
    <2> QED BY <1>1, <2>1
<1>2. CASE p # d.path
    <2>1. WithDoc(index, d)[p] = index[p]
        BY <1>2 DEF WithDoc, Docs
    <2> QED BY <2>1
<1> QED BY <1>1, <1>2

LEMMA IndexDoc ==
    ASSUME NEW index \in [Paths -> Seq(Docs)], NEW p \in Paths, NEW k \in DOMAIN index[p]
    PROVE  index[p][k] \in Docs /\ index[p][k].mtime \in Nat
<1>1. index[p] \in Seq(Docs)
    OBVIOUS
<1>2. index[p][k] \in Docs
    BY <1>1
<1> QED BY <1>2 DEF Docs

\* The files change: what has been read stays read before.
LEMMA OrderFiles ==
    ASSUME OrderInv, FileSystem
    PROVE  FilesInOrder' /\ IndexInOrder' /\ BatchInOrder' /\ BufferInOrder' /\ DocInOrder'
<1> USE DEF OrderInv, TypeOK
<1>1. UNCHANGED <<buffer, pc, doc, batch, pos, pending, committed>>
    BY DEF FileSystem, WriteFile, RemoveFile, taskVars, indexVars
<1>2. /\ \A p \in Paths : disk'[p] <= clock'
      /\ \A p \in Paths, t \in Nat : ReadBefore(p, t) => ReadBefore(p, t)'
    <2>1. PICK f \in Paths : WriteFile(f) \/ RemoveFile(f)
        BY DEF FileSystem
    <2>2. CASE WriteFile(f)
        BY <2>2 DEF WriteFile, FilesInOrder, ReadBefore
    <2>3. CASE RemoveFile(f)
        BY <2>3 DEF RemoveFile, FilesInOrder, ReadBefore
    <2> QED BY <2>1, <2>2, <2>3
<1>3. \A d : FollowsIndex(d)' <=> FollowsIndex(d)
    BY <1>1 DEF FollowsIndex
<1>4. FilesInOrder'
    <2>1. \A p \in Paths : \A index \in {pending, committed} :
              \A k \in DOMAIN index[p] : index[p][k].mtime \in Nat
        BY IndexDoc
    <2> QED BY <1>1, <1>2, <2>1 DEF FilesInOrder
<1>5. ASSUME NEW items \in Seq(Items), NEW i \in DOMAIN items, items[i].op = "Add"
      PROVE  items[i].doc.path \in Paths /\ items[i].doc.mtime \in Nat
    <2>1. items[i] \in Items
        OBVIOUS
    <2> QED BY <1>5, <2>1 DEF Items, AddItems, DeleteItems, Docs
<1>6. BatchInOrder' /\ BufferInOrder'
    BY <1>1, <1>2, <1>3, <1>5 DEF BatchInOrder, BufferInOrder
<1>7. DocInOrder'
    BY <1>1, <1>2, <1>3 DEF DocInOrder, Docs
<1>8. IndexInOrder'
    BY <1>1 DEF IndexInOrder
<1> QED BY <1>4, <1>6, <1>7, <1>8

\* Changes are appended to the buffer.
LEMMA OrderBuffered ==
    ASSUME OrderInv, NEW c \in Callers, Callers = {c}, NEW items \in Seq(Items),
           BufferChanges(c, items), InOrder(items),
           \A i \in DOMAIN items : items[i].op = "Add" =>
               /\ ReadBefore(items[i].doc.path, items[i].doc.mtime)
               /\ FollowsIndex(items[i].doc)
               /\ Follows(items[i].doc, buffer)
               /\ Follows(items[i].doc, batch[c]),
           UNCHANGED <<clock, disk, batch, pos, indexVars>>
    PROVE  FilesInOrder' /\ IndexInOrder' /\ BatchInOrder' /\ BufferInOrder' /\ DocInOrder'
<1>1. buffer \in Seq(Items) /\ buffer' = buffer \o items
    BY DEF OrderInv, TypeOK, BufferChanges
<1>2. UNCHANGED <<clock, disk, batch, pos, pending, committed>>
    BY DEF indexVars
<1>3. /\ FilesInOrder' /\ IndexInOrder'
      /\ \A p, t : ReadBefore(p, t)' <=> ReadBefore(p, t)
      /\ \A d : FollowsIndex(d)' <=> FollowsIndex(d)
    BY <1>2 DEF OrderInv, FilesInOrder, IndexInOrder, ReadBefore, FollowsIndex
<1>4. BatchInOrder'
    BY <1>2, <1>3 DEF OrderInv, BatchInOrder
<1>5. InOrder(buffer')
    BY <1>1, InOrderConcat DEF OrderInv, BufferInOrder
<1>6. BufferInOrder'
    <2> SUFFICES ASSUME NEW i \in DOMAIN buffer', buffer'[i].op = "Add"
                 PROVE  /\ ReadBefore(buffer'[i].doc.path, buffer'[i].doc.mtime)
                        /\ FollowsIndex(buffer'[i].doc)
                        /\ Follows(buffer'[i].doc, batch[c])
        BY <1>2, <1>3, <1>5 DEF BufferInOrder
    <2>1. \/ i \in DOMAIN buffer /\ buffer'[i] = buffer[i]
          \/ i - Len(buffer) \in DOMAIN items /\ buffer'[i] = items[i - Len(buffer)]
        BY <1>1, ConcatMember
    <2> QED BY <2>1 DEF OrderInv, BufferInOrder
<1>7. DocInOrder'
    BY DEF BufferChanges, DocInOrder, OrderInv, TypeOK
<1> QED BY <1>3, <1>4, <1>6, <1>7

\* The running task handles an item.
LEMMA OrderApplied ==
    ASSUME OrderInv, NEW c \in Callers, Callers = {c},
           ApplyAdd(c) \/ ApplyDelete(c) \/ DeleteFails(c)
    PROVE  FilesInOrder' /\ IndexInOrder' /\ BatchInOrder' /\ BufferInOrder' /\ DocInOrder'
<1> DEFINE d == NextItem(c).doc
<1>1. /\ TypeOK /\ AtItem(c)
      /\ UNCHANGED <<clock, disk, buffer, pc, doc, batch, committed>>
      /\ pos'[c] = pos[c] + 1
    BY DEF OrderInv, TypeOK, ApplyAdd, ApplyDelete, DeleteFails, indexVars
<1>2. pos[c] + 1 \in DOMAIN batch[c] /\ pos[c] \in Nat /\ batch[c] \in Seq(Items)
    BY <1>1 DEF TypeOK, AtItem
<1>3. NextItem(c).op = "Add" =>
          /\ d \in Docs
          /\ ReadBefore(d.path, d.mtime)
          /\ FollowsIndex(d)
    BY <1>1, <1>2, NextItemType DEF OrderInv, BatchInOrder, NextItem
<1>4. ASSUME NEW p \in Paths, NEW k \in DOMAIN pending'[p]
      PROVE  /\ \/ \E l \in DOMAIN pending[p] : pending'[p][k] = pending[p][l]
                \/ NextItem(c).op = "Add" /\ p = d.path /\ pending'[p][k] = d
             /\ \/ pending[p] # <<>> /\ pending'[p][1] = pending[p][1]
                \/ pending'[p][1] = pending'[p][k]
    <2>1. CASE UNCHANGED pending
        <3>1. pending[p] \in Seq(Docs)
            BY <1>1 DEF TypeOK
        <3> QED BY <2>1, <3>1
    <2>2. CASE NextItem(c).op = "Add" /\ pending' = WithDoc(pending, d)
        <3>1. pending \in [Paths -> Seq(Docs)] /\ d \in Docs
            BY <1>1, <1>3, <2>2 DEF TypeOK
        <3>2. k \in DOMAIN WithDoc(pending, d)[p]
            BY <2>2
        <3> QED BY <2>2, <3>1, <3>2, AppendedDoc
    <2>3. CASE pending' = WithoutKeys(pending, NextItem(c).keys)
        <3>1. p \notin NextItem(c).keys /\ pending'[p] = pending[p]
            BY <2>3 DEF WithoutKeys
        <3>2. pending[p] \in Seq(Docs)
            BY <1>1 DEF TypeOK
        <3> QED BY <3>1, <3>2
    <2> QED BY <2>1, <2>2, <2>3 DEF ApplyAdd, ApplyDelete, DeleteFails, indexVars
<1>5. FilesInOrder'
    BY <1>1, <1>3, <1>4 DEF OrderInv, FilesInOrder, ReadBefore
<1>6. IndexInOrder'
    <2> SUFFICES ASSUME NEW p \in Paths, NEW k \in DOMAIN pending'[p]
                 PROVE  /\ pending'[p][1].mtime <= pending'[p][k].mtime
                        /\ committed[p] # <<>> =>
                              committed[p][1].mtime <= pending'[p][k].mtime
        BY <1>1 DEF OrderInv, IndexInOrder
    <2>1. /\ pending[p] \in Seq(Docs) /\ committed[p] \in Seq(Docs)
          /\ pending[p] # <<>> => 1 \in DOMAIN pending[p]
          /\ committed[p] # <<>> => 1 \in DOMAIN committed[p]
        BY <1>1 DEF TypeOK
    <2>2. CASE \E l \in DOMAIN pending[p] : pending'[p][k] = pending[p][l]
        <3>1. PICK l \in DOMAIN pending[p] : pending'[p][k] = pending[p][l]
            BY <2>2
        <3>2. pending[p][l].mtime \in Nat
            BY <1>1, IndexDoc DEF TypeOK
        <3> QED BY <1>4, <3>1, <3>2 DEF OrderInv, IndexInOrder
    <2>3. CASE NextItem(c).op = "Add" /\ p = d.path /\ pending'[p][k] = d
        <3>1. d.mtime \in Nat
            BY <1>3, <2>3 DEF Docs
        <3> QED BY <1>3, <1>4, <2>1, <2>3, <3>1 DEF FollowsIndex
    <2> QED BY <1>4, <2>2, <2>3
<1>7. ASSUME NEW e \in Docs, FollowsIndex(e),
             NextItem(c).op = "Add" /\ d.path = e.path => d.mtime <= e.mtime
      PROVE  FollowsIndex(e)'
    <2>1. e.path \in Paths
        BY DEF Docs
    <2> QED BY <1>1, <1>4, <1>7, <2>1 DEF FollowsIndex
<1>8. ASSUME NEW items \in Seq(Items), NEW i \in DOMAIN items, items[i].op = "Add"
      PROVE  items[i].doc \in Docs
    <2>1. items[i] \in Items
        OBVIOUS
    <2> QED BY <1>8, <2>1 DEF Items, AddItems, DeleteItems
<1>9. BatchInOrder'
    <2> SUFFICES ASSUME NEW i \in DOMAIN batch[c], batch[c][i].op = "Add", i > pos[c] + 1
                 PROVE  FollowsIndex(batch[c][i].doc)'
        BY <1>1 DEF OrderInv, BatchInOrder, ReadBefore
    <2>1. /\ batch[c][i].doc \in Docs /\ FollowsIndex(batch[c][i].doc)
          /\ InOrder(batch[c]) /\ i \in Nat
        BY <1>2, <1>8 DEF OrderInv, BatchInOrder
    <2>2. NextItem(c).op = "Add" /\ d.path = batch[c][i].doc.path =>
              d.mtime <= batch[c][i].doc.mtime
        BY <1>2, <2>1 DEF InOrder, NextItem
    <2> QED BY <1>1, <1>7, <2>1, <2>2
<1>10. ASSUME NEW e, Follows(e, batch[c])
       PROVE  NextItem(c).op = "Add" /\ d.path = e.path => d.mtime <= e.mtime
    BY <1>2, <1>10 DEF Follows, NextItem
<1>11. BufferInOrder'
    BY <1>1, <1>7, <1>8, <1>10 DEF OrderInv, BufferInOrder, ReadBefore, TypeOK
<1>12. DocInOrder'
    BY <1>1, <1>7, <1>10 DEF OrderInv, DocInOrder, ReadBefore, TypeOK
<1> QED BY <1>5, <1>6, <1>9, <1>11, <1>12

\* A step that leaves the files and the index alone, and may take items away.
LEMMA OrderCleared ==
    ASSUME OrderInv, UNCHANGED <<clock, disk, pending, committed>>,
           \A e \in Callers : \/ batch'[e] = <<>>
                              \/ batch'[e] = batch[e] /\ pos'[e] = pos[e],
           buffer' \in {buffer, <<>>},
           \A e \in Callers : pc'[e] \in {"load", "push"} =>
               /\ pc[e] \in {"load", "push"}
               /\ doc'[e].path = doc[e].path /\ doc'[e].mtime = doc[e].mtime
    PROVE  FilesInOrder' /\ IndexInOrder' /\ BatchInOrder' /\ BufferInOrder' /\ DocInOrder'
<1>1. /\ FilesInOrder' /\ IndexInOrder'
      /\ \A p, t : ReadBefore(p, t)' <=> ReadBefore(p, t)
    BY DEF OrderInv, FilesInOrder, IndexInOrder, ReadBefore
<1>2. \A d, e : d.path = e.path /\ d.mtime = e.mtime =>
          /\ FollowsIndex(d)' <=> FollowsIndex(e)
          /\ \A items : Follows(d, items) <=> Follows(e, items)
    BY DEF FollowsIndex, Follows
<1>3. InOrder(<<>>) /\ \A d : Follows(d, <<>>)
    BY DEF InOrder, Follows
<1>4. BatchInOrder'
    BY <1>1, <1>2, <1>3 DEF OrderInv, BatchInOrder
<1>5. BufferInOrder'
    BY <1>1, <1>2, <1>3 DEF OrderInv, BufferInOrder
<1>6. DocInOrder'
    BY <1>1, <1>2, <1>3 DEF OrderInv, DocInOrder
<1> QED BY <1>1, <1>4, <1>5, <1>6

LEMMA OrderStep ==
    ASSUME \A c, e \in Callers : c = e, OrderInv, [Next]_vars
    PROVE  OrderInv'
<1>1. TypeOK /\ TypeOK'
    BY TypeStep DEF OrderInv
<1> DEFINE Goal == FilesInOrder' /\ IndexInOrder' /\ BatchInOrder' /\ BufferInOrder'
                   /\ DocInOrder'
<1> SUFFICES Goal
    BY <1>1 DEF OrderInv
<1> HIDE DEF Goal
<1>2. ASSUME NEW c \in Callers, Call(c)
      PROVE  Goal
    <2>1. Callers = {c}
        OBVIOUS
    <2>2. CASE \E p \in Paths : StatFile(c, p)
        <3>1. PICK p \in Paths : StatFile(c, p)
            BY <2>2
        <3>2. /\ UNCHANGED <<clock, disk, buffer, batch, pos, pending, committed>>
              /\ doc'[c].path = p /\ doc'[c].mtime = disk[p]
              /\ disk[p] # 0 /\ disk[p] \in Nat
            BY <1>1, <3>1 DEF StatFile, Unloaded, TypeOK, indexVars
        <3>3. /\ FilesInOrder' /\ IndexInOrder'
              /\ \A q, t : ReadBefore(q, t)' <=> ReadBefore(q, t)
              /\ \A d : FollowsIndex(d)' <=> FollowsIndex(d)
            BY <3>2 DEF OrderInv, FilesInOrder, IndexInOrder, ReadBefore, FollowsIndex
        <3>4. BatchInOrder' /\ BufferInOrder'
            BY <3>2, <3>3 DEF OrderInv, BatchInOrder, BufferInOrder
        <3>5. ReadBefore(doc'[c].path, doc'[c].mtime)
            BY <3>2 DEF OrderInv, FilesInOrder, ReadBefore
        <3>6. FollowsIndex(doc'[c])
            BY <3>2 DEF OrderInv, FilesInOrder, ReadBefore, FollowsIndex
        <3>7. Follows(doc'[c], buffer) /\ Follows(doc'[c], batch[c])
            BY <3>2 DEF OrderInv, BufferInOrder, BatchInOrder, ReadBefore, Follows
        <3>8. DocInOrder'
            BY <2>1, <3>2, <3>3, <3>5, <3>6, <3>7 DEF DocInOrder
        <3> QED BY <3>3, <3>4, <3>8 DEF Goal
    <2>3. ASSUME NEW item \in DeleteItems, BufferChanges(c, <<item>>),
                 UNCHANGED <<clock, disk, batch, pos, indexVars>>
          PROVE  Goal
        <3>1. <<item>> \in Seq(DeleteItems)
            OBVIOUS
        <3>2. /\ <<item>> \in Seq(Items) /\ InOrder(<<item>>)
              /\ \A i \in DOMAIN <<item>> : <<item>>[i].op # "Add"
            BY <3>1, NoAdds
        <3> QED BY <2>1, <2>3, <3>2, OrderBuffered DEF Goal
    <2>4. CASE \E p \in Paths : DeleteFile(c, p)
        BY <2>3, <2>4, DeleteItemType DEF DeleteFile
    <2>5. CASE \E d \in Dirs : DeleteDir(c, d)
        BY <2>3, <2>5, DeleteDirItemType DEF DeleteDir
    <2>6. CASE CallCommit(c)
        BY <1>1, <2>6, OrderCleared DEF CallCommit, TypeOK, indexVars, Goal
    <2> QED BY <1>2, <2>2, <2>4, <2>5, <2>6 DEF Call
<1>3. ASSUME NEW c \in Callers, Proceed(c)
      PROVE  Goal
    <2>1. Callers = {c}
        OBVIOUS
    <2>2. CASE LoadText(c)
        <3>1. UNCHANGED <<clock, disk, buffer, batch, pos, pending, committed>>
            BY <2>2 DEF LoadText, indexVars
        <3>2. \A e \in Callers : /\ pc[e] \in {"load", "push"}
                                /\ doc'[e].path = doc[e].path
                                /\ doc'[e].mtime = doc[e].mtime
            BY <1>1, <2>1, <2>2 DEF LoadText, TypeOK, Docs
        <3> QED BY <3>1, <3>2, OrderCleared DEF Goal
    <2>3. CASE PushReindexed(c)
        <3> DEFINE d == doc[c]
        <3>1. /\ d \in Docs /\ BufferChanges(c, Reindexed(d))
              /\ UNCHANGED <<clock, disk, batch, pos, indexVars>>
            BY <1>1, <2>3 DEF PushReindexed, TypeOK
        <3>2. /\ ReadBefore(d.path, d.mtime) /\ FollowsIndex(d)
              /\ Follows(d, buffer) /\ Follows(d, batch[c])
            BY <2>3 DEF PushReindexed, OrderInv, DocInOrder
        <3>3. /\ DOMAIN Reindexed(d) = {1, 2} /\ Reindexed(d) \in Seq(Items)
              /\ Reindexed(d)[1].op = "Delete" /\ Reindexed(d)[2].doc = d
            <4>1. DeleteItem(d.path).op = "Delete" /\ AddItem(d).doc = d
                BY DEF DeleteItem, AddItem
            <4> QED BY <3>1, <4>1, ReindexedType
        <3>4. InOrder(Reindexed(d))
            BY <3>3 DEF InOrder
        <3>5. \A i \in DOMAIN Reindexed(d) : Reindexed(d)[i].op = "Add" =>
                  Reindexed(d)[i].doc = d
            BY <3>3
        <3> QED BY <2>1, <3>1, <3>2, <3>3, <3>4, <3>5, OrderBuffered DEF Goal
    <2>4. CASE CommitEmpty(c)
        BY <1>1, <2>4, OrderCleared DEF CommitEmpty, TypeOK, indexVars, Goal
    <2>5. CASE TakeBuffer(c)
        <3>1. /\ UNCHANGED <<clock, disk, pending, committed>>
              /\ batch'[c] = buffer /\ buffer' = <<>> /\ pc'[c] = "queued"
            BY <1>1, <2>5 DEF TakeBuffer, TypeOK, indexVars
        <3>2. /\ FilesInOrder' /\ IndexInOrder'
              /\ \A p, t : ReadBefore(p, t)' <=> ReadBefore(p, t)
              /\ \A d : FollowsIndex(d)' <=> FollowsIndex(d)
            BY <3>1 DEF OrderInv, FilesInOrder, IndexInOrder, ReadBefore, FollowsIndex
        <3>3. BatchInOrder'
            BY <2>1, <3>1, <3>2 DEF OrderInv, BufferInOrder, BatchInOrder
        <3>4. BufferInOrder' /\ DocInOrder'
            BY <2>1, <3>1 DEF BufferInOrder, DocInOrder, InOrder
        <3> QED BY <3>2, <3>3, <3>4 DEF Goal
    <2>6. CASE LockWriter(c)
        BY <1>1, <2>6, OrderCleared DEF LockWriter, TypeOK, indexVars, Goal
    <2>7. CASE ApplyAdd(c) \/ ApplyDelete(c) \/ DeleteFails(c)
        BY <2>1, <2>7, OrderApplied DEF Goal
    <2>8. CASE CommitIndex(c) \/ CommitFails(c)
        <3>1. /\ UNCHANGED <<clock, disk, buffer, doc>>
              /\ batch'[c] = <<>> /\ pc'[c] \in {"idle", "requeue"}
              /\ \/ pending' = pending /\ committed' = pending
                 \/ pending' = committed /\ committed' = committed
            BY <1>1, <2>8 DEF CommitIndex, CommitFails, EndTask, TypeOK
        <3>2. /\ FilesInOrder'
              /\ \A p, t : ReadBefore(p, t)' <=> ReadBefore(p, t)
            BY <3>1 DEF OrderInv, FilesInOrder, ReadBefore
        <3>3. \A d : FollowsIndex(d) => FollowsIndex(d)'
            BY <3>1 DEF FollowsIndex
        <3>4. IndexInOrder'
            BY <3>1 DEF OrderInv, IndexInOrder
        <3>5. BatchInOrder'
            BY <2>1, <3>1 DEF BatchInOrder, InOrder
        <3>6. BufferInOrder'
            BY <2>1, <3>1, <3>2, <3>3 DEF OrderInv, BufferInOrder, Follows
        <3>7. DocInOrder'
            BY <2>1, <3>1 DEF DocInOrder
        <3> QED BY <3>2, <3>4, <3>5, <3>6, <3>7 DEF Goal
    <2>9. CASE TaskPanics(c)
        BY <1>1, <2>9, OrderCleared DEF TaskPanics, TypeOK, indexVars, Goal
    <2>10. CASE RetainFailed(c)
        BY <1>1, <2>10, OrderCleared DEF RetainFailed, TypeOK, indexVars, Goal
    <2>11. CASE RequeueFailed(c)
        <3> DEFINE r == survivors[c]
        <3>1. /\ UNCHANGED <<clock, disk, batch, pos, pending, committed>>
              /\ buffer' = r \o buffer /\ pc'[c] = "idle"
              /\ r \in Seq(DeleteItems) /\ buffer \in Seq(Items)
            BY <1>1, <2>11 DEF RequeueFailed, TypeOK, indexVars
        <3>2. /\ FilesInOrder' /\ IndexInOrder'
              /\ \A p, t : ReadBefore(p, t)' <=> ReadBefore(p, t)
              /\ \A d : FollowsIndex(d)' <=> FollowsIndex(d)
            BY <3>1 DEF OrderInv, FilesInOrder, IndexInOrder, ReadBefore, FollowsIndex
        <3>3. BatchInOrder'
            BY <3>1, <3>2 DEF OrderInv, BatchInOrder
        <3>4. /\ r \in Seq(Items) /\ InOrder(r) /\ \A d : Follows(d, r)
              /\ \A i \in DOMAIN r : r[i].op # "Add"
            BY <3>1, NoAdds
        <3>5. InOrder(buffer')
            BY <3>1, <3>4, InOrderConcat DEF OrderInv, BufferInOrder
        <3>6. ASSUME NEW i \in DOMAIN buffer', buffer'[i].op = "Add"
              PROVE  \E j \in DOMAIN buffer : buffer'[i] = buffer[j]
            BY <3>1, <3>4, <3>6, ConcatMember
        <3>7. BufferInOrder'
            BY <3>1, <3>2, <3>5, <3>6 DEF OrderInv, BufferInOrder
        <3>8. DocInOrder'
            BY <2>1, <3>1 DEF DocInOrder
        <3> QED BY <3>2, <3>3, <3>7, <3>8 DEF Goal
    <2> QED BY <1>3, <2>2, <2>3, <2>4, <2>5, <2>6, <2>7, <2>8, <2>9, <2>10, <2>11 DEF Proceed
<1>4. CASE FileSystem
    BY <1>4, OrderFiles DEF Goal
<1>5. CASE Restart
    <2>1. /\ UNCHANGED <<clock, disk, committed>> /\ pending' = committed /\ buffer' = <<>>
          /\ \A c \in Callers : batch'[c] = <<>> /\ pc'[c] = "idle"
        BY <1>5 DEF Restart
    <2>2. FilesInOrder' /\ IndexInOrder'
        BY <2>1 DEF OrderInv, FilesInOrder, IndexInOrder, ReadBefore
    <2>3. BatchInOrder' /\ BufferInOrder' /\ DocInOrder'
        BY <2>1 DEF BatchInOrder, BufferInOrder, DocInOrder, InOrder
    <2> QED BY <2>2, <2>3 DEF Goal
<1>6. CASE UNCHANGED vars
    BY <1>6, OrderCleared DEF vars, taskVars, indexVars, Goal
<1> QED BY <1>2, <1>3, <1>4, <1>5, <1>6 DEF Next

LEMMA OrderAction ==
    OrderInv /\ [Next]_vars =>
        \A p \in Paths : committed[p] # <<>> /\ committed'[p] # <<>> =>
            committed[p][1].mtime <= committed'[p][1].mtime
<1> SUFFICES ASSUME OrderInv, [Next]_vars, NEW p \in Paths,
                    committed[p] # <<>>, committed'[p] # <<>>
             PROVE  committed[p][1].mtime <= committed'[p][1].mtime
    OBVIOUS
<1>1. /\ committed \in [Paths -> Seq(Docs)] /\ pending \in [Paths -> Seq(Docs)]
    BY DEF OrderInv, TypeOK
<1>2. UNCHANGED committed \/ committed' = pending
    BY DEF Next, FileSystem, WriteFile, RemoveFile, Call, StatFile, DeleteFile, DeleteDir,
           CallCommit, Proceed, LoadText, PushReindexed, CommitEmpty, TakeBuffer, LockWriter,
           ApplyAdd, ApplyDelete, DeleteFails, CommitIndex, CommitFails, TaskPanics,
           RetainFailed, RequeueFailed, Restart, vars, indexVars
<1>3. CASE UNCHANGED committed
    <2>1. 1 \in DOMAIN committed[p]
        BY <1>1
    <2>2. committed[p][1].mtime \in Nat
        BY <1>1, <2>1, IndexDoc
    <2> QED BY <1>3, <2>2
<1>4. CASE committed' = pending
    <2>1. 1 \in DOMAIN pending[p]
        BY <1>1, <1>4
    <2> QED BY <1>4, <2>1 DEF OrderInv, IndexInOrder
<1> QED BY <1>2, <1>3, <1>4

\* With one caller the stored time of a file never goes back while its
\* document stays, whatever fails and wherever the batches are cut.
THEOREM TimesNeverGoBack ==
    ASSUME \A c, e \in Callers : c = e
    PROVE  Spec => MtimeMonotone
<1>1. OrderInv /\ [Next]_vars => OrderInv'
    BY OrderStep
<1>2. Spec => []OrderInv
    BY OrderInit, <1>1, PTL DEF Spec
<1> QED BY <1>2, OrderAction, PTL DEF Spec, MtimeMonotone

-----------------------------------------------------------------------------
(* One caller: the writer implements the store of IndexStore.              *)

\* Induction, with a set in the place of the formula.
LEMMA SetInduction ==
    ASSUME NEW T, 0 \in T, \A n \in Nat : n \in T => n + 1 \in T
    PROVE  \A n \in Nat : n \in T
<1> DEFINE Out == {n \in Nat : n \notin T}
<1>1. ASSUME NEW n \in Out, \A m \in Out : ~ (<<m, n>> \in OpToRel(<, Nat))
      PROVE  FALSE
    <2>1. n # 0 /\ n \in Nat
        OBVIOUS
    <2>2. n - 1 \in Nat /\ n - 1 < n
        BY <2>1
    <2>3. n - 1 \in T
        <3>1. <<n - 1, n>> \in OpToRel(<, Nat)
            BY <2>1, <2>2 DEF OpToRel
        <3> QED BY <1>1, <2>2, <3>1
    <2> QED BY <2>1, <2>2, <2>3
<1>2. Out = {}
    <2> HIDE DEF Out
    <2>1. Out \subseteq Nat
        BY DEF Out
    <2> QED BY <1>1, <2>1, WFMin, NatLessThanWellFounded
<1> QED BY <1>2

\* What Stores is of: a committed index and a queue.
StoresOf(index, changes) ==
    CHOOSE f : f = [i \in 0 .. Len(changes) |->
        IF i = 0 THEN index ELSE Store!ApplyChange(f[i - 1], changes[i])]

\* The abstract store's recursive function is StoresOf of its queue.
LEMMA StoresAre == Store!Stores = StoresOf(committed, Waiting)
BY DEF Store!Stores, StoresOf

\* The recursive function is what its definition says: the changes of a queue
\* of any length can be applied one after the other.
LEMMA StoresDefined ==
    ASSUME NEW index, NEW changes, Len(changes) \in Nat
    PROVE  StoresOf(index, changes) = [i \in 0 .. Len(changes) |->
               IF i = 0 THEN index
               ELSE Store!ApplyChange(StoresOf(index, changes)[i - 1], changes[i])]
<1> DEFINE Def(f, n) == f = [i \in 0 .. n |->
               IF i = 0 THEN index ELSE Store!ApplyChange(f[i - 1], changes[i])]
           T == {n \in Nat : \E f : Def(f, n)}
<1>1. 0 \in T
    <2>1. Def([i \in 0 .. 0 |-> index], 0)
        OBVIOUS
    <2> QED BY <2>1
<1>2. ASSUME NEW n \in Nat, NEW f, Def(f, n)
      PROVE  \E g : Def(g, n + 1)
    <2> DEFINE last == Store!ApplyChange(f[n], changes[n + 1])
               g == [i \in 0 .. n + 1 |-> IF i = n + 1 THEN last ELSE f[i]]
               h == [i \in 0 .. n + 1 |->
                        IF i = 0 THEN index ELSE Store!ApplyChange(g[i - 1], changes[i])]
    <2>1. g[0] = index /\ f[0] = index
        BY <1>2
    <2>2. ASSUME NEW i \in 1 .. n + 1
          PROVE  g[i] = Store!ApplyChange(g[i - 1], changes[i])
        <3>1. CASE i = n + 1
            BY <3>1
        <3>2. CASE i # n + 1
            <4>1. i \in 0 .. n /\ i - 1 \in 0 .. n /\ i # 0
                BY <3>2
            <4>2. g[i] = f[i] /\ g[i - 1] = f[i - 1]
                BY <3>2, <4>1
            <4>3. f[i] = Store!ApplyChange(f[i - 1], changes[i])
                BY <1>2, <4>1
            <4> QED BY <4>2, <4>3
        <3> QED BY <3>1, <3>2
    <2>3. \A i \in 0 .. n + 1 : g[i] = h[i]
        <3> SUFFICES ASSUME NEW i \in 0 .. n + 1 PROVE g[i] = h[i]
            OBVIOUS
        <3>1. h[i] = IF i = 0 THEN index ELSE Store!ApplyChange(g[i - 1], changes[i])
            OBVIOUS
        <3> HIDE DEF g, h
        <3> QED BY <2>1, <2>2, <3>1
    <2>4. Def(g, n + 1)
        BY <2>3
    <2> QED BY <2>4
<1>3. \A n \in Nat : n \in T
    <2>1. \A n \in Nat : n \in T => n + 1 \in T
        <3> HIDE DEF Def
        <3> QED BY <1>2
    <2> HIDE DEF T
    <2> QED BY <1>1, <2>1, SetInduction
<1>4. \E f : Def(f, Len(changes))
    BY <1>3
<1>5. StoresOf(index, changes) = CHOOSE f : Def(f, Len(changes))
    BY DEF StoresOf
<1>6. Def(StoresOf(index, changes), Len(changes))
    <2> HIDE DEF Def
    <2> QED BY <1>4, <1>5
<1> QED BY <1>6

\* The store after one change more.
LEMMA StoresStep ==
    ASSUME NEW index, NEW changes, Len(changes) \in Nat
    PROVE  /\ StoresOf(index, changes)[0] = index
           /\ \A n \in 0 .. Len(changes) - 1 :
                 StoresOf(index, changes)[n + 1] =
                     Store!ApplyChange(StoresOf(index, changes)[n], changes[n + 1])
<1> DEFINE f == StoresOf(index, changes)
<1>1. f = [i \in 0 .. Len(changes) |->
              IF i = 0 THEN index ELSE Store!ApplyChange(f[i - 1], changes[i])]
    BY StoresDefined
<1> HIDE DEF f
<1>2. f[0] = index
    BY <1>1
<1>3. ASSUME NEW n \in 0 .. Len(changes) - 1
      PROVE  f[n + 1] = Store!ApplyChange(f[n], changes[n + 1])
    <2>1. n + 1 \in 0 .. Len(changes) /\ n + 1 # 0 /\ (n + 1) - 1 = n
        OBVIOUS
    <2> QED BY <1>1, <2>1
<1> QED BY <1>2, <1>3 DEF f

\* Lists of items and of their changes.
LEMMA ChangesShape ==
    ASSUME NEW s \in Seq(Items)
    PROVE  /\ DOMAIN ChangesOf(s) = 1 .. Len(s) /\ Len(ChangesOf(s)) = Len(s)
           /\ \A i \in 1 .. Len(s) : ChangesOf(s)[i] = ChangeOf(s[i])
           /\ ChangesOf(s) = [i \in 1 .. Len(s) |-> ChangeOf(s[i])]
<1>1. DOMAIN s = 1 .. Len(s) /\ Len(s) \in Nat
    OBVIOUS
<1>2. ChangesOf(s) = [i \in 1 .. Len(s) |-> ChangeOf(s[i])]
    BY <1>1 DEF ChangesOf
<1> QED BY <1>1, <1>2

\* The waiting changes are those in flight, then the buffer.
LEMMA WaitingShape ==
    ASSUME NEW c, Callers = {c}, TypeOK
    PROVE  /\ Queue(c) \in Seq(Items) /\ InFlight(c) \in Seq(Items)
           /\ Waiting = ChangesOf(Queue(c))
           /\ Len(Waiting) = Len(Queue(c))
<1>1. InFlight(c) \in Seq(Items)
    <2>1. batch[c] \in Seq(Items) /\ survivors[c] \in Seq(DeleteItems)
          /\ failed[c] \in Seq(DeleteItems)
        BY DEF TypeOK
    <2>2. survivors[c] \in Seq(Items) /\ failed[c] \in Seq(Items)
        BY <2>1, SeqMonotonic DEF Items
    <2>3. survivors[c] \o failed[c] \in Seq(Items)
        BY <2>2, ConcatProperties
    <2> QED BY <2>1, <2>3 DEF InFlight
<1>2. Queue(c) \in Seq(Items)
    <2>1. buffer \in Seq(Items)
        BY DEF TypeOK
    <2> QED BY <1>1, <2>1, ConcatProperties DEF Queue
<1>3. Waiting = ChangesOf(Queue(c))
    <2>1. (CHOOSE e \in Callers : TRUE) = c
        OBVIOUS
    <2> QED BY <2>1 DEF Waiting
<1> QED BY <1>1, <1>2, <1>3, ChangesShape

\* A step that leaves the index alone and takes items out of the queue.
LEMMA LostItems ==
    ASSUME NEW s \in Seq(Items), NEW t \in Seq(Items),
           Waiting = ChangesOf(s), Waiting' = ChangesOf(t), committed' = committed,
           Len(t) < Len(s),
           NEW at \in [1 .. Len(t) -> 1 .. Len(s)],
           \A i, j \in 1 .. Len(t) : i < j => at[i] < at[j],
           \A i \in 1 .. Len(t) : ChangeOf(t[i]) = ChangeOf(s[at[i]])
    PROVE  Store!Lose
<1>1. /\ Len(t) \in 0 .. Len(Waiting) - 1 /\ DOMAIN Waiting = 1 .. Len(s)
    BY ChangesShape
<1>2. Waiting' = [i \in 1 .. Len(t) |-> Waiting[at[i]]]
    BY ChangesShape
<1>3. at \in [1 .. Len(t) -> DOMAIN Waiting]
    BY <1>1
<1> QED BY <1>1, <1>2, <1>3 DEF Store!Lose


-----------------------------------------------------------------------------
(* What the steps do to the queue.                                         *)

\* The caller's items are all in the buffer.
LEMMA NoneInFlight ==
    ASSUME NEW c, Callers = {c}, TypeOK, OnePlace, pc[c] \notin {"queued", "apply", "requeue"}
    PROVE  Queue(c) = buffer
<1>1. InFlight(c) = <<>>
    <2>1. failed[c] = <<>> /\ survivors[c] = <<>>
        BY DEF OnePlace
    <2>2. <<>> \o <<>> = <<>>
        OBVIOUS
    <2> QED BY <2>1, <2>2 DEF InFlight
<1>2. buffer \in Seq(Items)
    BY DEF TypeOK
<1> QED BY <1>1, <1>2, ConcatEmptySeq DEF Queue

\* The same of the next state.
LEMMA WaitingShapeNext ==
    ASSUME NEW c, Callers = {c}, TypeOK'
    PROVE  /\ Queue(c)' \in Seq(Items) /\ InFlight(c)' \in Seq(Items)
           /\ Waiting' = ChangesOf(Queue(c)')
           /\ Len(Waiting') = Len(Queue(c)')
<1>1. InFlight(c)' \in Seq(Items)
    <2>1. batch'[c] \in Seq(Items) /\ survivors'[c] \in Seq(DeleteItems)
          /\ failed'[c] \in Seq(DeleteItems)
        BY DEF TypeOK
    <2>2. survivors'[c] \in Seq(Items) /\ failed'[c] \in Seq(Items)
        BY <2>1, SeqMonotonic DEF Items
    <2>3. survivors'[c] \o failed'[c] \in Seq(Items)
        BY <2>2, ConcatProperties
    <2> QED BY <2>1, <2>3 DEF InFlight
<1>2. Queue(c)' \in Seq(Items)
    <2>1. buffer' \in Seq(Items)
        BY DEF TypeOK
    <2> QED BY <1>1, <2>1, ConcatProperties DEF Queue
<1>3. Waiting' = ChangesOf(Queue(c)')
    <2>1. (CHOOSE e \in Callers : TRUE) = c
        OBVIOUS
    <2> QED BY <2>1 DEF Waiting, ChangesOf
<1> QED BY <1>1, <1>2, <1>3, ChangesShape

\* A queue that stays.
LEMMA QueueStays ==
    ASSUME NEW c, Callers = {c}, TypeOK, TypeOK', Queue(c)' = Queue(c)
    PROVE  Waiting' = Waiting
<1>1. Waiting = ChangesOf(Queue(c))
    BY WaitingShape
<1>2. Waiting' = ChangesOf(Queue(c)')
    BY WaitingShapeNext
<1> QED BY <1>1, <1>2

Changed == {ChangeOf(item) : item \in Items}

\* Changes of two lists of items, one after the other.
LEMMA ChangesConcat ==
    ASSUME NEW s \in Seq(Items), NEW t \in Seq(Items)
    PROVE  /\ ChangesOf(s) \in Seq(Changed)
           /\ ChangesOf(s \o t) = ChangesOf(s) \o ChangesOf(t)
<1>1. ASSUME NEW u \in Seq(Items)
      PROVE  ChangesOf(u) \in Seq(Changed)
    <2>1. Len(u) \in Nat /\ \A i \in 1 .. Len(u) : ChangeOf(u[i]) \in Changed
        BY ElementOfSeq, LenProperties DEF Changed
    <2>2. [i \in 1 .. Len(u) |-> ChangeOf(u[i])] \in Seq(Changed)
        BY <2>1
    <2> QED BY <2>2, ChangesShape
<1>2. s \o t \in Seq(Items) /\ Len(s \o t) = Len(s) + Len(t)
    BY ConcatProperties
<1>3. /\ ChangesOf(s) \in Seq(Changed) /\ ChangesOf(t) \in Seq(Changed)
      /\ ChangesOf(s \o t) \in Seq(Changed)
    BY <1>1, <1>2
<1> DEFINE left == ChangesOf(s \o t)
           right == ChangesOf(s) \o ChangesOf(t)
<1>4. /\ Len(ChangesOf(s)) = Len(s) /\ Len(ChangesOf(t)) = Len(t)
      /\ Len(left) = Len(s) + Len(t) /\ Len(s) \in Nat /\ Len(t) \in Nat
    BY <1>2, ChangesShape, LenProperties
<1>5. right \in Seq(Changed) /\ Len(right) = Len(s) + Len(t)
    BY <1>3, <1>4, ConcatProperties
<1>6. ASSUME NEW i \in 1 .. Len(s) + Len(t) PROVE left[i] = right[i]
    <2>1. left[i] = ChangeOf((s \o t)[i])
        BY <1>2, <1>4, ChangesShape
    <2>2. (s \o t)[i] = IF i <= Len(s) THEN s[i] ELSE t[i - Len(s)]
        BY ConcatProperties
    <2>3. right[i] = IF i <= Len(s) THEN ChangesOf(s)[i] ELSE ChangesOf(t)[i - Len(s)]
        BY <1>3, <1>4, ConcatProperties
    <2>4. CASE i <= Len(s)
        <3>1. i \in 1 .. Len(s)
            BY <1>4, <2>4
        <3>2. ChangesOf(s)[i] = ChangeOf(s[i])
            BY <3>1, ChangesShape
        <3> HIDE DEF left, right
        <3> QED BY <2>1, <2>2, <2>3, <2>4, <3>2
    <2>5. CASE ~ (i <= Len(s))
        <3>1. i - Len(s) \in 1 .. Len(t)
            BY <1>4, <2>5
        <3>2. ChangesOf(t)[i - Len(s)] = ChangeOf(t[i - Len(s)])
            BY <3>1, ChangesShape
        <3> HIDE DEF left, right
        <3> QED BY <2>1, <2>2, <2>3, <2>5, <3>2
    <2> QED BY <2>4, <2>5
<1>7. left = right
    <2> HIDE DEF left, right
    <2>1. left \in Seq(Changed)
        BY <1>3 DEF left
    <2> QED BY <1>4, <1>5, <1>6, <2>1, SeqEqual
<1> QED BY <1>3, <1>7

\* New items, at the end of the buffer.
LEMMA QueueGrows ==
    ASSUME NEW c, Callers = {c}, TypeOK, TypeOK', OnePlace, OnePlace',
           pc[c] \in {"idle", "push"}, NEW items \in Seq(Items), BufferChanges(c, items)
    PROVE  /\ Waiting \in Seq(Changed)
           /\ Waiting' = Waiting \o ChangesOf(items)
<1>1. pc'[c] \in {"idle", "take"} /\ buffer' = buffer \o items
    BY DEF BufferChanges, TypeOK
<1>2. Queue(c) = buffer
    BY NoneInFlight
<1>3. Queue(c)' = buffer'
    <2>1. failed'[c] = <<>> /\ survivors'[c] = <<>>
        BY <1>1 DEF OnePlace
    <2>2. <<>> \o <<>> = <<>>
        OBVIOUS
    <2>3. InFlight(c)' = <<>>
        BY <1>1, <2>1, <2>2 DEF InFlight
    <2>4. buffer' \in Seq(Items)
        BY DEF TypeOK
    <2> QED BY <2>3, <2>4, ConcatEmptySeq DEF Queue
<1>4. buffer \in Seq(Items) /\ Waiting = ChangesOf(buffer) /\ Waiting' = ChangesOf(buffer')
    BY <1>2, <1>3, WaitingShape, WaitingShapeNext
<1> QED BY <1>1, <1>4, ChangesConcat

\* A delete of the caller is a Submit of the abstract store.
LEMMA DeleteSubmitted ==
    ASSUME NEW c, Callers = {c}, TypeOK, TypeOK', OnePlace, OnePlace', committed' = committed,
           pc[c] = "idle", NEW item \in DeleteItems, BufferChanges(c, <<item>>)
    PROVE  Store!Submit
<1> DEFINE change == [op |-> "Delete", keys |-> item.keys]
<1>1. <<item>> \in Seq(Items) /\ item \in Items
    BY DEF Items
<1>2. item.op # "Add" /\ item.keys \in SUBSET Paths
    BY DEF DeleteItems
<1>3. ChangeOf(item) = change /\ change \in AllChanges /\ change.op = "Delete"
    BY <1>2 DEF ChangeOf, AllChanges
<1>4. ChangesOf(<<item>>) = <<change>>
    <2> HIDE DEF change
    <2> QED BY <1>3 DEF ChangesOf
<1>5. change \in Changed
    BY <1>1, <1>3 DEF Changed
<1>6. Waiting' = Append(Waiting, change)
    <2> HIDE DEF change
    <2>1. Waiting \in Seq(Changed) /\ Waiting' = Waiting \o <<change>>
        BY <1>1, <1>4, QueueGrows
    <2> QED BY <1>5, <2>1, AppendIsConcat
<1> HIDE DEF change
<1> QED BY <1>3, <1>6 DEF Store!Submit

\* A re-indexed file is a Submit of the abstract store.
LEMMA FileSubmitted ==
    ASSUME NEW c, Callers = {c}, TypeOK, TypeOK', OnePlace, OnePlace', committed' = committed,
           pc[c] = "push", DocsAreTicks, BufferChanges(c, Reindexed(doc[c]))
    PROVE  Store!Submit
<1> DEFINE d == doc[c]
           change == [op |-> "Add", doc |-> d]
           delete == [op |-> "Delete", keys |-> {d.path}]
<1>1. d \in Docs /\ Reindexed(d) \in Seq(Items) /\ Len(Reindexed(d)) = 2
    BY ReindexedType DEF TypeOK
<1>2. Reindexed(d) = <<DeleteItem(d.path), AddItem(d)>>
    BY DEF Reindexed
<1>3. ChangeOf(DeleteItem(d.path)) = delete
    BY DEF ChangeOf, DeleteItem
<1>4. ChangeOf(AddItem(d)) = change
    BY DEF ChangeOf, AddItem
<1>5. change \in AllChanges /\ change.op = "Add" /\ change.doc = d
    <2>1. d.mtime \in 1 .. MaxClock /\ d.text <= MaxClock
        BY DEF DocsAreTicks
    <2>2. d = [path |-> d.path, mtime |-> d.mtime, text |-> d.text, from |-> d.from]
          /\ d.path \in Paths /\ d.text \in Nat /\ d.from \in {"disk", "cache", "none"}
        BY <1>1 DEF Docs
    <2>3. d.text \in 0 .. MaxClock
        BY <2>1, <2>2, WriterAssumption DEF WriterAssumption
    <2>4. d \in [path : Paths, mtime : 1 .. MaxClock, text : 0 .. MaxClock,
                 from : {"disk", "cache", "none"}]
        BY <2>1, <2>2, <2>3
    <2> QED BY <2>4 DEF AllChanges
<1>6. ChangesOf(Reindexed(d)) = <<delete, change>>
    <2> HIDE DEF delete, change, d
    <2> QED BY <1>2, <1>3, <1>4 DEF ChangesOf
<1>7. Waiting' = Waiting \o <<delete, change>>
    BY <1>1, <1>6, QueueGrows
<1>8. Waiting' = Waiting \o <<[op |-> "Delete", keys |-> {change.doc.path}], change>>
    BY <1>5, <1>7
<1> HIDE DEF change
<1> QED BY <1>5, <1>8 DEF Store!Submit

\* A commit that succeeds.
LEMMA BatchPersisted ==
    ASSUME NEW c, Callers = {c}, TypeOK, TypeOK', OnePlace, TaskIsAhead, CommitIndex(c),
           Paired(buffer)
    PROVE  Store!Persist
<1> DEFINE n == Len(batch[c])
<1>1. pc[c] = "apply" /\ pos[c] = n /\ committed' = pending /\ buffer' = buffer
    BY DEF CommitIndex, AtCommit
<1>2. failed[c] = <<>> /\ survivors[c] = <<>> /\ batch[c] # <<>>
    BY <1>1 DEF OnePlace
<1>3. batch[c] \in Seq(Items) /\ buffer \in Seq(Items)
    BY DEF TypeOK
<1>4. pc'[c] = "idle" /\ failed'[c] = <<>> /\ survivors'[c] = <<>>
    BY <1>2 DEF CommitIndex, EndTask, TypeOK
<1>5. Waiting = ChangesOf(batch[c] \o buffer)
    <2>1. Queue(c) = batch[c] \o buffer
        BY <1>1 DEF Queue, InFlight
    <2> QED BY <2>1, WaitingShape
<1>6. Waiting' = ChangesOf(buffer)
    <2>1. <<>> \o <<>> = <<>>
        OBVIOUS
    <2>2. InFlight(c)' = <<>>
        BY <1>4, <2>1 DEF InFlight
    <2>3. Queue(c)' = buffer
        BY <1>1, <1>3, <2>2, ConcatEmptySeq DEF Queue
    <2> QED BY <2>3, WaitingShapeNext
<1>7. /\ Waiting = ChangesOf(batch[c]) \o ChangesOf(buffer)
      /\ ChangesOf(batch[c]) \in Seq(Changed) /\ ChangesOf(buffer) \in Seq(Changed)
      /\ Len(ChangesOf(batch[c])) = n
    BY <1>3, <1>5, ChangesConcat, ChangesShape
<1>8. /\ n \in Nat /\ n > 0 /\ Waiting \in Seq(Changed)
      /\ Len(Waiting) = n + Len(buffer) /\ Len(buffer) \in Nat
      /\ Len(ChangesOf(buffer)) = Len(buffer)
    <2>1. n \in Nat /\ n > 0
        BY <1>2, <1>3, EmptySeq
    <2>2. Len(ChangesOf(buffer)) = Len(buffer) /\ Len(buffer) \in Nat
        BY <1>3, ChangesShape, LenProperties
    <2>3. Waiting \in Seq(Changed) /\ Len(Waiting) = n + Len(ChangesOf(buffer))
        <3> DEFINE front == ChangesOf(batch[c])
                   back == ChangesOf(buffer)
        <3>1. front \in Seq(Changed) /\ back \in Seq(Changed) /\ Waiting = front \o back
              /\ Len(front) = n
            BY <1>7
        <3> HIDE DEF front, back, n
        <3>2. front \o back \in Seq(Changed) /\ Len(front \o back) = Len(front) + Len(back)
            BY <3>1, ConcatProperties
        <3> QED BY <3>1, <3>2 DEF back
    <2> QED BY <2>1, <2>2, <2>3
<1>9. SubSeq(Waiting, n + 1, Len(Waiting)) = ChangesOf(buffer)
    <2> DEFINE rest == SubSeq(Waiting, n + 1, Len(Waiting))
    <2>1. \A i \in n + 1 .. Len(Waiting) : Waiting[i] \in Changed
        <3>1. \A i \in n + 1 .. Len(Waiting) : i \in 1 .. Len(Waiting)
            BY <1>8
        <3> QED BY <1>8, <3>1, ElementOfSeq
    <2>2. /\ rest \in Seq(Changed)
          /\ Len(rest) = IF n + 1 <= Len(Waiting) THEN Len(Waiting) - (n + 1) + 1 ELSE 0
          /\ \A i \in 1 .. Len(Waiting) - (n + 1) + 1 : rest[i] = Waiting[(n + 1) + i - 1]
        BY <1>8, <2>1, SubSeqProperties
    <2>3. Len(rest) = Len(buffer)
        BY <1>8, <2>2
    <2>4. ASSUME NEW i \in 1 .. Len(buffer)
          PROVE  rest[i] = ChangesOf(buffer)[i]
        <3>1. i \in 1 .. Len(Waiting) - (n + 1) + 1 /\ (n + 1) + i - 1 = n + i
              /\ n + i \in 1 .. n + Len(buffer) /\ ~ (n + i <= n) /\ (n + i) - n = i
            BY <1>8
        <3>2. rest[i] = Waiting[n + i]
            BY <2>2, <3>1
        <3>3. \A k \in 1 .. n + Len(buffer) :
                  Waiting[k] = IF k <= n THEN ChangesOf(batch[c])[k] ELSE ChangesOf(buffer)[k - n]
            BY <1>7, <1>8, ConcatProperties
        <3>4. Waiting[n + i] = ChangesOf(buffer)[i]
            BY <3>1, <3>3
        <3> HIDE DEF rest
        <3> QED BY <3>2, <3>4
    <2> HIDE DEF rest, n
    <2>5. rest \in Seq(Changed) /\ Len(rest) = Len(ChangesOf(buffer))
        BY <1>8, <2>2, <2>3
    <2>6. \A i \in 1 .. Len(rest) : rest[i] = ChangesOf(buffer)[i]
        BY <2>3, <2>4
    <2>7. rest = ChangesOf(buffer)
        BY <1>7, <2>5, <2>6, SeqEqual
    <2> QED BY <2>7 DEF rest
<1>10. pending = Store!Stores[n]
    BY <1>1 DEF TaskIsAhead
<1>11. n \in 1 .. Len(Waiting)
    BY <1>8
<1>12. ASSUME n < Len(Waiting) PROVE Waiting[n + 1].op # "Add"
    <2>1. 1 \in DOMAIN buffer /\ n + 1 \in 1 .. n + Len(buffer)
        BY <1>3, <1>8, <1>12
    <2>2. buffer[1].op # "Add"
        BY <2>1 DEF Paired
    <2>3. Waiting[n + 1] = ChangesOf(buffer)[1]
        <3> DEFINE front == ChangesOf(batch[c])
                   back == ChangesOf(buffer)
        <3>1. /\ front \in Seq(Changed) /\ back \in Seq(Changed) /\ Waiting = front \o back
              /\ Len(front) = n /\ Len(back) = Len(buffer)
            BY <1>7, <1>8
        <3> HIDE DEF front, back, n
        <3>2. (front \o back)[n + 1] = back[(n + 1) - n]
            BY <1>8, <2>1, <3>1, ConcatProperties
        <3> QED BY <1>8, <3>1, <3>2 DEF back
    <2>4. ChangesOf(buffer)[1] = ChangeOf(buffer[1])
        BY <2>1 DEF ChangesOf
    <2> QED BY <2>2, <2>3, <2>4 DEF ChangeOf
<1> HIDE DEF n
<1> QED BY <1>1, <1>6, <1>9, <1>10, <1>11, <1>12 DEF Store!Persist

\* A queue that loses items before the buffer.
LEMMA LostInFlight ==
    ASSUME NEW s \in Seq(Items), NEW t \in Seq(Items), NEW rest \in Seq(Items),
           Waiting = ChangesOf(s \o rest), Waiting' = ChangesOf(t \o rest),
           committed' = committed, Len(t) < Len(s),
           NEW at \in [1 .. Len(t) -> 1 .. Len(s)],
           \A i, j \in 1 .. Len(t) : i < j => at[i] < at[j],
           \A i \in 1 .. Len(t) : ChangeOf(t[i]) = ChangeOf(s[at[i]])
    PROVE  Store!Lose
<1> DEFINE m == Len(t)
           n == Len(s)
           r == Len(rest)
           here == [i \in 1 .. m + r |-> IF i <= m THEN at[i] ELSE (i - m) + n]
<1>1. m \in Nat /\ n \in Nat /\ r \in Nat /\ m < n
    BY LenProperties
<1>2. /\ s \o rest \in Seq(Items) /\ Len(s \o rest) = n + r
      /\ \A i \in 1 .. n + r : (s \o rest)[i] = IF i <= n THEN s[i] ELSE rest[i - n]
    BY ConcatProperties
<1>3. /\ t \o rest \in Seq(Items) /\ Len(t \o rest) = m + r
      /\ \A i \in 1 .. m + r : (t \o rest)[i] = IF i <= m THEN t[i] ELSE rest[i - m]
    BY ConcatProperties
<1>4. \A i \in 1 .. m : at[i] \in 1 .. n
    OBVIOUS
<1> HIDE DEF m, n, r
<1>5. here \in [1 .. m + r -> 1 .. n + r]
    <2>1. ASSUME NEW i \in 1 .. m + r
          PROVE  (IF i <= m THEN at[i] ELSE (i - m) + n) \in 1 .. n + r
        <3>1. CASE i <= m
            <4>1. i \in 1 .. m
                BY <1>1, <3>1
            <4> QED BY <1>1, <1>4, <3>1, <4>1
        <3>2. CASE ~ (i <= m)
            BY <1>1, <3>2
        <3> QED BY <3>1, <3>2
    <2> QED BY <2>1
<1>6. ASSUME NEW i \in 1 .. m + r, NEW j \in 1 .. m + r, i < j
      PROVE  here[i] < here[j]
    <2>1. CASE j <= m
        <3>1. i \in 1 .. m /\ j \in 1 .. m /\ i <= m
            BY <1>1, <1>6, <2>1
        <3>2. at[i] < at[j]
            BY <1>6, <3>1 DEF m
        <3> QED BY <2>1, <3>1, <3>2
    <2>2. CASE ~ (j <= m) /\ i <= m
        <3>1. i \in 1 .. m /\ here[i] = at[i] /\ here[j] = (j - m) + n
            BY <1>1, <2>2
        <3> HIDE DEF here
        <3> QED BY <1>1, <1>4, <2>2, <3>1
    <2>3. CASE ~ (i <= m)
        <3>1. ~ (j <= m)
            BY <1>1, <1>6, <2>3
        <3>2. here[i] = (i - m) + n /\ here[j] = (j - m) + n
            BY <2>3, <3>1
        <3> HIDE DEF here
        <3> QED BY <1>1, <1>6, <3>2
    <2> QED BY <1>1, <2>1, <2>2, <2>3
<1>7. ASSUME NEW i \in 1 .. m + r
      PROVE  ChangeOf((t \o rest)[i]) = ChangeOf((s \o rest)[here[i]])
    <2>1. CASE i <= m
        <3>1. i \in 1 .. m /\ here[i] = at[i] /\ at[i] \in 1 .. n
            BY <1>1, <1>4, <2>1
        <3>2. at[i] \in 1 .. n + r /\ at[i] <= n
            BY <1>1, <3>1
        <3>3. (t \o rest)[i] = t[i] /\ (s \o rest)[at[i]] = s[at[i]]
            BY <1>2, <1>3, <2>1, <3>2
        <3>4. ChangeOf(t[i]) = ChangeOf(s[at[i]])
            BY <3>1 DEF m
        <3> HIDE DEF here
        <3> QED BY <3>1, <3>3, <3>4
    <2>2. CASE ~ (i <= m)
        <3>1. here[i] = (i - m) + n
            BY <2>2
        <3>2. here[i] \in 1 .. n + r /\ ~ (here[i] <= n) /\ here[i] - n = i - m
            <4> HIDE DEF here
            <4> QED BY <1>1, <2>2, <3>1
        <3> HIDE DEF here
        <3> QED BY <1>2, <1>3, <2>2, <3>2
    <2> QED BY <2>1, <2>2
<1>8. Len(t \o rest) < Len(s \o rest)
    BY <1>1, <1>2, <1>3
<1>9. here \in [1 .. Len(t \o rest) -> 1 .. Len(s \o rest)]
    BY <1>2, <1>3, <1>5
<1>10. /\ \A i, j \in 1 .. Len(t \o rest) : i < j => here[i] < here[j]
       /\ \A i \in 1 .. Len(t \o rest) :
             ChangeOf((t \o rest)[i]) = ChangeOf((s \o rest)[here[i]])
    BY <1>3, <1>6, <1>7
<1> HIDE DEF here
<1> QED BY <1>2, <1>3, <1>8, <1>9, <1>10, LostItems

\* A commit that fails keeps the deletes it applied, and what was buffered.
LEMMA BatchLost ==
    ASSUME NEW c, Callers = {c}, TypeOK, TypeOK', OnePlace, TaskIsAhead, CommitFails(c)
    PROVE  Store!Lose \/ UNCHANGED <<committed, Waiting>>
<1> DEFINE n == Len(batch[c])
<1>1. pc[c] = "apply" /\ pos[c] = n /\ committed' = committed /\ buffer' = buffer
    BY DEF CommitFails, AtCommit
<1>2. failed[c] = <<>> /\ survivors[c] = <<>>
    BY <1>1 DEF OnePlace
<1>3. batch[c] \in Seq(Items) /\ buffer \in Seq(Items) /\ applied[c] \in Seq(DeleteItems)
    BY DEF TypeOK
<1>4. applied[c] \in Seq(Items)
    BY <1>3, SeqMonotonic DEF Items
<1>5. /\ pc'[c] \in {"idle", "requeue"} /\ survivors'[c] = <<>>
      /\ failed'[c] = applied[c]
    <2>1. applied[c] \o failed[c] = applied[c]
        BY <1>2, <1>3, ConcatEmptySeq
    <2> QED BY <1>2, <2>1 DEF CommitFails, EndTask, TypeOK
<1>6. Waiting = ChangesOf(batch[c] \o buffer)
    <2>1. Queue(c) = batch[c] \o buffer
        BY <1>1 DEF Queue, InFlight
    <2> QED BY <2>1, WaitingShape
<1>7. Waiting' = ChangesOf(applied[c] \o buffer)
    <2>1. <<>> \o applied[c] = applied[c]
        BY <1>4, ConcatEmptySeq
    <2>2. InFlight(c)' = applied[c]
        BY <1>5, <2>1 DEF InFlight
    <2>3. Queue(c)' = applied[c] \o buffer
        BY <1>1, <2>2 DEF Queue
    <2> QED BY <2>3, WaitingShapeNext
<1>8. SomeOf(applied[c], batch[c], n)
    BY <1>1 DEF TaskIsAhead
<1>9. PICK at \in [DOMAIN applied[c] -> 1 .. n] :
          /\ \A i, j \in DOMAIN applied[c] : i < j => at[i] < at[j]
          /\ \A i \in DOMAIN applied[c] : applied[c][i] = batch[c][at[i]]
          /\ \/ Len(applied[c]) < n
             \/ Len(applied[c]) = n /\ \A i \in DOMAIN applied[c] : at[i] = i
    BY <1>8 DEF SomeOf
<1>10. DOMAIN applied[c] = 1 .. Len(applied[c])
    BY <1>4, LenProperties
<1>11. CASE Len(applied[c]) < n
    <2>1. \A i \in 1 .. Len(applied[c]) : ChangeOf(applied[c][i]) = ChangeOf(batch[c][at[i]])
        BY <1>9, <1>10
    <2>2. at \in [1 .. Len(applied[c]) -> 1 .. Len(batch[c])]
        BY <1>9, <1>10
    <2>3. \A i, j \in 1 .. Len(applied[c]) : i < j => at[i] < at[j]
        BY <1>9, <1>10
    <2> QED BY <1>1, <1>3, <1>4, <1>6, <1>7, <1>11, <2>1, <2>2, <2>3, LostInFlight
<1>12. CASE ~ (Len(applied[c]) < n)
    <2>1. Len(applied[c]) = Len(batch[c])
        BY <1>9, <1>12
    <2>2. \A i \in 1 .. Len(applied[c]) : applied[c][i] = batch[c][i]
        BY <1>9, <1>10, <1>12
    <2>3. applied[c] = batch[c]
        BY <1>3, <1>4, <2>1, <2>2, SeqEqual
    <2> QED BY <1>1, <1>6, <1>7, <2>3
<1> QED BY <1>11, <1>12

\* A retried item is the same change; one that is given up is lost.
LEMMA RetriedOrLost ==
    ASSUME NEW c, Callers = {c}, TypeOK, TypeOK', OnePlace, RetainFailed(c)
    PROVE  Store!Lose \/ UNCHANGED <<committed, Waiting>>
<1> DEFINE v == survivors[c]
           f == failed[c]
           item == Head(f)
<1>1. /\ pc[c] = "requeue" /\ pc' = pc /\ committed' = committed /\ buffer' = buffer
      /\ f # <<>>
    BY DEF RetainFailed, indexVars
<1>2. /\ v \in Seq(DeleteItems) /\ f \in Seq(DeleteItems) /\ buffer \in Seq(Items)
    BY DEF TypeOK
<1>3. /\ v \in Seq(Items) /\ f \in Seq(Items)
    BY <1>2, SeqMonotonic DEF Items
<1>4. /\ item \in DeleteItems /\ Tail(f) \in Seq(Items) /\ Len(Tail(f)) = Len(f) - 1
      /\ \A i \in 1 .. Len(Tail(f)) : Tail(f)[i] = f[i + 1]
    BY <1>1, <1>2, <1>3, HeadTailProperties
<1>5. Retried(item) \in Items /\ item \in Items /\ ChangeOf(Retried(item)) = ChangeOf(item)
    <2>1. Retried(item) \in DeleteItems
        BY <1>4, RetriedType
    <2> HIDE DEF item
    <2>2. Retried(item).op = item.op /\ Retried(item).keys = item.keys /\ item.op # "Add"
        BY <1>4 DEF Retried, DeleteItems
    <2> QED BY <1>4, <2>1, <2>2 DEF Items, ChangeOf
<1>6. failed'[c] = Tail(f)
    BY DEF RetainFailed, TypeOK
<1>7. Waiting = ChangesOf((v \o f) \o buffer)
    <2>1. Queue(c) = (v \o f) \o buffer
        BY <1>1 DEF Queue, InFlight
    <2> QED BY <2>1, WaitingShape
<1>8. Waiting' = ChangesOf((survivors'[c] \o Tail(f)) \o buffer)
    <2>1. Queue(c)' = (survivors'[c] \o Tail(f)) \o buffer
        BY <1>1, <1>6 DEF Queue, InFlight
    <2> QED BY <2>1, WaitingShapeNext
<1>9. CASE Survives(Retried(item))
    <2>1. survivors'[c] = v \o <<Retried(item)>>
        <3>1. survivors'[c] = Append(v, Retried(item))
            BY <1>9 DEF RetainFailed, TypeOK
        <3> QED BY <1>3, <1>5, <3>1, AppendIsConcat
    <2>2. v \o f = (v \o <<item>>) \o Tail(f)
        <3>1. f = <<item>> \o Tail(f)
            BY <1>1, <1>3
        <3>2. <<item>> \in Seq(Items)
            BY <1>5
        <3> HIDE DEF v, f, item
        <3>3. v \o (<<item>> \o Tail(f)) = (v \o <<item>>) \o Tail(f)
            BY <1>3, <1>4, <3>2, ConcatAssociative
        <3> QED BY <3>1, <3>3
    <2>3. ChangesOf(<<Retried(item)>>) = ChangesOf(<<item>>)
        <3> HIDE DEF item
        <3> QED BY <1>5 DEF ChangesOf
    <2>4. /\ <<item>> \in Seq(Items) /\ <<Retried(item)>> \in Seq(Items)
        BY <1>5
    <2> HIDE DEF v, f, item
    <2>5. ASSUME NEW x \in Items, <<x>> \in Seq(Items)
          PROVE  ChangesOf(((v \o <<x>>) \o Tail(f)) \o buffer) =
                     ((ChangesOf(v) \o ChangesOf(<<x>>)) \o ChangesOf(Tail(f))) \o ChangesOf(buffer)
        <3>1. v \o <<x>> \in Seq(Items)
            BY <1>3, <2>5, ConcatProperties
        <3>2. (v \o <<x>>) \o Tail(f) \in Seq(Items)
            BY <1>4, <3>1, ConcatProperties
        <3>3. ChangesOf(v \o <<x>>) = ChangesOf(v) \o ChangesOf(<<x>>)
            BY <1>3, <2>5, ChangesConcat
        <3>4. ChangesOf((v \o <<x>>) \o Tail(f)) = ChangesOf(v \o <<x>>) \o ChangesOf(Tail(f))
            BY <1>4, <3>1, ChangesConcat
        <3>5. ChangesOf(((v \o <<x>>) \o Tail(f)) \o buffer) =
                  ChangesOf((v \o <<x>>) \o Tail(f)) \o ChangesOf(buffer)
            BY <1>2, <3>2, ChangesConcat
        <3> QED BY <3>3, <3>4, <3>5
    <2>6. Waiting = ((ChangesOf(v) \o ChangesOf(<<item>>)) \o ChangesOf(Tail(f))) \o ChangesOf(buffer)
        BY <1>5, <1>7, <2>2, <2>4, <2>5
    <2>7. Waiting' = ((ChangesOf(v) \o ChangesOf(<<Retried(item)>>)) \o ChangesOf(Tail(f)))
                        \o ChangesOf(buffer)
        BY <1>5, <1>8, <2>1, <2>4, <2>5
    <2>8. Waiting' = Waiting
        BY <2>3, <2>6, <2>7
    <2> QED BY <1>1, <2>8
<1>10. CASE ~ Survives(Retried(item))
    <2>1. survivors'[c] = v
        BY <1>10 DEF RetainFailed
    <2> DEFINE s == v \o f
               t == v \o Tail(f)
               at == [i \in 1 .. Len(t) |-> IF i <= Len(v) THEN i ELSE i + 1]
    <2>2. /\ Len(v) \in Nat /\ Len(f) \in Nat /\ Len(f) > 0 /\ Len(Tail(f)) = Len(f) - 1
        BY <1>1, <1>3, <1>4, EmptySeq, LenProperties
    <2> HIDE DEF v, f
    <2>3. /\ s \in Seq(Items) /\ Len(s) = Len(v) + Len(f)
          /\ \A i \in 1 .. Len(v) + Len(f) : s[i] = IF i <= Len(v) THEN v[i] ELSE f[i - Len(v)]
        BY <1>3, ConcatProperties
    <2>4. /\ t \in Seq(Items) /\ Len(t) = Len(v) + Len(Tail(f))
          /\ \A i \in 1 .. Len(v) + Len(Tail(f)) :
                t[i] = IF i <= Len(v) THEN v[i] ELSE Tail(f)[i - Len(v)]
        BY <1>3, <1>4, ConcatProperties
    <2> HIDE DEF s, t
    <2>5. Len(t) < Len(s) /\ Len(s) = Len(t) + 1 /\ Len(t) \in Nat
        BY <2>2, <2>3, <2>4
    <2>6. at \in [1 .. Len(t) -> 1 .. Len(s)]
        BY <2>2, <2>5
    <2>7. \A i, j \in 1 .. Len(t) : i < j => at[i] < at[j]
        BY <2>2, <2>5
    <2>8. ASSUME NEW i \in 1 .. Len(t)
          PROVE  t[i] = s[at[i]]
        <3>1. CASE i <= Len(v)
            <4>1. at[i] = i
                BY <3>1
            <4>2. i \in 1 .. Len(v) + Len(Tail(f)) /\ i \in 1 .. Len(v) + Len(f)
                BY <2>2, <2>4, <2>5
            <4>3. t[i] = v[i]
                BY <2>4, <3>1, <4>2
            <4>4. s[i] = v[i]
                BY <2>3, <3>1, <4>2
            <4> HIDE DEF at
            <4> QED BY <4>1, <4>3, <4>4
        <3>2. CASE ~ (i <= Len(v))
            <4>1. at[i] = i + 1
                BY <3>2
            <4>2. i - Len(v) \in 1 .. Len(Tail(f)) /\ (i - Len(v)) + 1 = (i + 1) - Len(v)
                  /\ i + 1 \in 1 .. Len(v) + Len(f) /\ ~ (i + 1 <= Len(v))
                BY <2>2, <2>4, <3>2
            <4>3. t[i] = Tail(f)[i - Len(v)] /\ s[i + 1] = f[(i + 1) - Len(v)]
                BY <2>2, <2>3, <2>4, <3>2, <4>2
            <4> HIDE DEF at
            <4> QED BY <1>4, <4>1, <4>2, <4>3
        <3> QED BY <3>1, <3>2
    <2>9. Waiting = ChangesOf(s \o buffer) /\ Waiting' = ChangesOf(t \o buffer)
        BY <1>7, <1>8, <2>1 DEF s, t
    <2>10. \A i \in 1 .. Len(t) : ChangeOf(t[i]) = ChangeOf(s[at[i]])
        BY <2>8
    <2> HIDE DEF at
    <2> QED BY <1>1, <1>2, <2>3, <2>4, <2>5, <2>6, <2>7, <2>9, <2>10, LostInFlight
<1> QED BY <1>9, <1>10

\* A restart loses all that is not committed.
LEMMA AllLost ==
    ASSUME NEW c, Callers = {c}, TypeOK, TypeOK', Restart
    PROVE  Store!Lose \/ UNCHANGED <<committed, Waiting>>
<1>1. Waiting' = ChangesOf(<<>>) /\ committed' = committed
    <2>1. /\ pc'[c] = "idle" /\ buffer' = <<>> /\ failed'[c] = <<>> /\ survivors'[c] = <<>>
        BY DEF Restart
    <2>2. <<>> \o <<>> = <<>>
        OBVIOUS
    <2>3. Queue(c)' = <<>>
        BY <2>1, <2>2 DEF Queue, InFlight
    <2> QED BY <2>3, WaitingShapeNext DEF Restart
<1>2. Queue(c) \in Seq(Items) /\ Waiting = ChangesOf(Queue(c))
    BY WaitingShape
<1>3. CASE Queue(c) = <<>>
    BY <1>1, <1>2, <1>3
<1>4. CASE Queue(c) # <<>>
    <2>1. PICK none \in Seq(Items) : none = <<>>
        BY EmptySeq
    <2>2. Len(none) = 0 /\ Len(Queue(c)) \in Nat /\ Len(none) < Len(Queue(c))
        BY <1>2, <1>4, <2>1, EmptySeq
    <2>3. 1 .. Len(none) = {}
        BY <2>2
    <2>4. PICK at \in [1 .. Len(none) -> 1 .. Len(Queue(c))] : TRUE
        <3>1. [i \in 1 .. Len(none) |-> i] \in [1 .. Len(none) -> 1 .. Len(Queue(c))]
            BY <2>3
        <3> QED BY <3>1
    <2>5. Waiting' = ChangesOf(none)
        BY <1>1, <2>1
    <2> QED BY <1>1, <1>2, <2>2, <2>3, <2>5, LostItems
<1> QED BY <1>3, <1>4

-----------------------------------------------------------------------------
(* The invariant of the refinement.                                        *)

SafeFaults == {"load", "commit", "rollback", "crash"}

\* Every step keeps DocsAreTicks.
LEMMA TicksStep ==
    ASSUME TypeOK, TypeOK', DocsAreTicks, [Next]_vars
    PROVE  DocsAreTicks'
<1>1. /\ clock \in Nat /\ clock <= MaxClock /\ MaxClock \in Nat
      /\ disk \in [Paths -> Nat] /\ \A p \in Paths : disk[p] <= clock
    BY WriterAssumption DEF WriterAssumption, TypeOK, DocsAreTicks
<1>2. ASSUME NEW c \in Callers, pc[c] \in {"load", "push"}
      PROVE  doc[c].mtime \in 1 .. MaxClock /\ doc[c].text <= MaxClock
    BY <1>2 DEF DocsAreTicks
<1>3. CASE FileSystem
    <2>1. PICK p \in Paths : WriteFile(p) \/ RemoveFile(p)
        BY <1>3 DEF FileSystem
    <2>2. pc' = pc /\ doc' = doc
        BY <2>1 DEF WriteFile, RemoveFile, taskVars
    <2>3. clock' <= MaxClock /\ \A q \in Paths : disk'[q] <= clock'
        BY <1>1, <2>1 DEF WriteFile, RemoveFile
    <2> QED BY <1>2, <2>2, <2>3 DEF DocsAreTicks
<1>4. ASSUME clock' = clock, disk' = disk,
             NEW e \in Callers, \A c \in Callers \ {e} : pc'[c] = pc[c] /\ doc'[c] = doc[c],
             pc'[e] \in {"load", "push"} =>
                 doc'[e].mtime \in 1 .. MaxClock /\ doc'[e].text <= MaxClock
      PROVE  DocsAreTicks'
    BY <1>1, <1>2, <1>4 DEF DocsAreTicks
<1>5. ASSUME NEW c \in Callers, Call(c)
      PROVE  DocsAreTicks'
    <2>1. CASE \E p \in Paths : StatFile(c, p)
        <3>1. PICK p \in Paths : StatFile(c, p)
            BY <2>1
        <3>2. doc'[c].mtime = disk[p] /\ doc'[c].text = 0 /\ disk[p] # 0
            BY <3>1 DEF StatFile, Unloaded, TypeOK, NoText
        <3>3. disk[p] \in 1 .. MaxClock /\ doc'[c].text <= MaxClock
            BY <1>1, <3>2
        <3>4. clock' = clock /\ disk' = disk
              /\ \A e \in Callers \ {c} : pc'[e] = pc[e] /\ doc'[e] = doc[e]
            BY <3>1 DEF StatFile, TypeOK
        <3> QED BY <1>4, <3>2, <3>3, <3>4
    <2>2. CASE \E p \in Paths : DeleteFile(c, p)
        BY <1>4, <2>2 DEF DeleteFile, BufferChanges, TypeOK
    <2>3. CASE \E d \in Dirs : DeleteDir(c, d)
        BY <1>4, <2>3 DEF DeleteDir, BufferChanges, TypeOK
    <2>4. CASE CallCommit(c)
        BY <1>4, <2>4 DEF CallCommit, TypeOK
    <2> QED BY <1>5, <2>1, <2>2, <2>3, <2>4 DEF Call
<1>6. ASSUME NEW c \in Callers, Proceed(c)
      PROVE  DocsAreTicks'
    <2>1. CASE LoadText(c)
        <3>1. PICK data \in Loaded(doc[c].path) :
                  doc' = [doc EXCEPT ![c] = [@ EXCEPT !.text = data.text, !.from = data.from]]
            BY <2>1, LoadTextDoes
        <3>2. doc[c] \in Docs /\ doc[c].path \in Paths
            BY <2>1, LoadTextDoes
        <3>3. data.text <= MaxClock
            BY <1>1, <3>2, LoadedType DEF NoText
        <3>4. doc'[c].text = data.text /\ doc'[c].mtime = doc[c].mtime
            BY <3>1, <3>2 DEF TypeOK, Docs
        <3>5. clock' = clock /\ disk' = disk
            BY <2>1, LoadTextDoes
        <3>7. \A e \in Callers \ {c} : pc'[e] = pc[e] /\ doc'[e] = doc[e]
            <4>1. pc' = [pc EXCEPT ![c] = "push"]
                BY <2>1, LoadTextDoes
            <4> QED BY <3>1, <4>1 DEF TypeOK
        <3>6. pc[c] = "load"
            BY <2>1 DEF LoadText
        <3> QED BY <1>2, <1>4, <3>3, <3>4, <3>5, <3>6, <3>7
    <2>2. CASE PushReindexed(c)
        BY <1>4, <2>2 DEF PushReindexed, BufferChanges, TypeOK
    <2>3. CASE CommitEmpty(c) \/ TakeBuffer(c) \/ LockWriter(c) \/ RequeueFailed(c)
        BY <1>4, <2>3 DEF CommitEmpty, TakeBuffer, LockWriter, RequeueFailed, TypeOK
    <2>4. CASE ApplyAdd(c) \/ ApplyDelete(c) \/ DeleteFails(c) \/ RetainFailed(c)
        BY <1>1, <1>2, <2>4 DEF ApplyAdd, ApplyDelete, DeleteFails, RetainFailed, DocsAreTicks
    <2>5. CASE CommitIndex(c)
        BY <1>4, <2>5 DEF CommitIndex, EndTask, TypeOK
    <2>6. CASE CommitFails(c)
        BY <1>4, <2>6 DEF CommitFails, EndTask, TypeOK
    <2>7. CASE TaskPanics(c)
        BY <1>4, <2>7 DEF TaskPanics, TypeOK
    <2> QED BY <1>6, <2>1, <2>2, <2>3, <2>4, <2>5, <2>6, <2>7 DEF Proceed
<1>7. CASE Restart
    BY <1>1, <1>7 DEF Restart, DocsAreTicks
<1>8. CASE UNCHANGED vars
    BY <1>1, <1>2, <1>8 DEF vars, taskVars, DocsAreTicks
<1> QED BY <1>3, <1>5, <1>6, <1>7, <1>8 DEF Next

\* Every step keeps OnePlace, if the faults are safe ones.
LEMMA OnePlaceStep ==
    ASSUME NEW c, Callers = {c}, Faults \subseteq SafeFaults,
           TypeOK, TypeOK', OnePlace, [Next]_vars
    PROVE  OnePlace'
<1> DEFINE P(s, b, f, v, n, a, x, y) ==
        /\ s \in {"queued", "apply"} => b # <<>>
        /\ s # "requeue" => f = <<>> /\ v = <<>>
        /\ s # "apply" => n = 0 /\ a = <<>> /\ x = y
<1>1. P(pc[c], batch[c], failed[c], survivors[c], pos[c], applied[c], pending, committed)
    BY DEF OnePlace
<1>2. SUFFICES P(pc'[c], batch'[c], failed'[c], survivors'[c], pos'[c], applied'[c],
                 pending', committed')
    BY DEF OnePlace
<1> USE <1>1 DEF TypeOK
<1>3. CASE FileSystem
    BY <1>3 DEF FileSystem, WriteFile, RemoveFile, taskVars, indexVars
<1>4. CASE Call(c)
    <2>1. CASE \E p \in Paths : StatFile(c, p)
        BY <2>1 DEF StatFile, indexVars
    <2>2. CASE \E p \in Paths : DeleteFile(c, p)
        BY <2>2 DEF DeleteFile, BufferChanges, indexVars
    <2>3. CASE \E d \in Dirs : DeleteDir(c, d)
        BY <2>3 DEF DeleteDir, BufferChanges, indexVars
    <2>4. CASE CallCommit(c)
        BY <2>4 DEF CallCommit, indexVars
    <2> QED BY <1>4, <2>1, <2>2, <2>3, <2>4 DEF Call
<1>5. CASE Proceed(c)
    <2>1. CASE LoadText(c)
        BY <2>1 DEF LoadText, indexVars
    <2>2. CASE PushReindexed(c)
        BY <2>2 DEF PushReindexed, BufferChanges, indexVars
    <2>3. CASE CommitEmpty(c) \/ TakeBuffer(c) \/ LockWriter(c)
        BY <2>3 DEF CommitEmpty, TakeBuffer, LockWriter, indexVars
    <2>4. CASE ApplyAdd(c)
        BY <2>4 DEF ApplyAdd, AtItem
    <2>5. CASE ApplyDelete(c)
        BY <2>5 DEF ApplyDelete, AtItem
    <2>6. CASE DeleteFails(c)
        BY <2>6 DEF DeleteFails, SafeFaults
    <2>7. CASE CommitIndex(c)
        BY <2>7 DEF CommitIndex, AtCommit, EndTask
    <2>8. CASE CommitFails(c)
        BY <2>8 DEF CommitFails, AtCommit, EndTask
    <2>9. CASE TaskPanics(c)
        BY <2>9 DEF TaskPanics, SafeFaults
    <2>10. CASE RetainFailed(c)
        BY <2>10 DEF RetainFailed, indexVars
    <2>11. CASE RequeueFailed(c)
        BY <2>11 DEF RequeueFailed, indexVars
    <2> QED BY <1>5, <2>1, <2>2, <2>3, <2>4, <2>5, <2>6, <2>7, <2>8, <2>9, <2>10, <2>11
            DEF Proceed
<1>6. CASE Restart
    BY <1>6 DEF Restart
<1>7. CASE UNCHANGED vars
    BY <1>7 DEF vars, taskVars, indexVars
<1> QED BY <1>3, <1>4, <1>5, <1>6, <1>7 DEF Next

\* Some of the first n are some of the first n + 1, with or without the last.
LEMMA SomeOfMore ==
    ASSUME NEW items \in Seq(Items), NEW all, NEW n \in Nat, SomeOf(items, all, n)
    PROVE  /\ SomeOf(items, all, n + 1)
           /\ all[n + 1] \in Items => SomeOf(Append(items, all[n + 1]), all, n + 1)
<1> DEFINE m == Len(items)
<1>1. m \in Nat /\ DOMAIN items = 1 .. m
    BY LenProperties
<1>2. PICK at \in [1 .. m -> 1 .. n] :
          /\ \A i, j \in 1 .. m : i < j => at[i] < at[j]
          /\ \A i \in 1 .. m : items[i] = all[at[i]]
          /\ \/ m < n
             \/ m = n /\ \A i \in 1 .. m : at[i] = i
    <2>1. PICK at \in [DOMAIN items -> 1 .. n] :
              /\ \A i, j \in DOMAIN items : i < j => at[i] < at[j]
              /\ \A i \in DOMAIN items : items[i] = all[at[i]]
              /\ \/ Len(items) < n
                 \/ Len(items) = n /\ \A i \in DOMAIN items : at[i] = i
        BY DEF SomeOf
    <2> HIDE DEF m
    <2>2. DOMAIN items = 1 .. m /\ Len(items) = m
        BY <1>1 DEF m
    <2> QED BY <2>1, <2>2
<1>3. SomeOf(items, all, n + 1)
    <2> HIDE DEF m
    <2>1. at \in [1 .. m -> 1 .. n + 1] /\ m < n + 1
        BY <1>1, <1>2
    <2>2. /\ at \in [DOMAIN items -> 1 .. n + 1]
          /\ \A i, j \in DOMAIN items : i < j => at[i] < at[j]
          /\ \A i \in DOMAIN items : items[i] = all[at[i]]
          /\ Len(items) < n + 1
        BY <1>1, <1>2, <2>1 DEF m
    <2> QED BY <2>2 DEF SomeOf
<1>4. ASSUME all[n + 1] \in Items
      PROVE  SomeOf(Append(items, all[n + 1]), all, n + 1)
    <2> DEFINE more == Append(items, all[n + 1])
               here == [i \in 1 .. m + 1 |-> IF i = m + 1 THEN n + 1 ELSE at[i]]
    <2>1. /\ more \in Seq(Items) /\ Len(more) = m + 1
          /\ \A i \in 1 .. m : more[i] = items[i]
          /\ more[m + 1] = all[n + 1]
        BY <1>4, AppendProperties
    <2>2. DOMAIN more = 1 .. m + 1
        BY <2>1, LenProperties
    <2> HIDE DEF more, m
    <2>3. \A i \in 1 .. m + 1 : i # m + 1 => i \in 1 .. m
        BY <1>1
    <2>4. here \in [1 .. m + 1 -> 1 .. n + 1]
        BY <1>2, <2>3
    <2>5. ASSUME NEW i \in 1 .. m + 1, NEW j \in 1 .. m + 1, i < j
          PROVE  here[i] < here[j]
        <3>1. i \in 1 .. m /\ here[i] = at[i] /\ at[i] \in 1 .. n
            BY <1>1, <1>2, <2>5
        <3>2. CASE j = m + 1
            <4>1. here[j] = n + 1
                BY <3>2
            <4> HIDE DEF here
            <4> QED BY <3>1, <4>1
        <3>3. CASE j # m + 1
            <4>1. j \in 1 .. m /\ here[j] = at[j]
                BY <2>3, <3>3
            <4> HIDE DEF here
            <4> QED BY <1>2, <2>5, <3>1, <4>1
        <3> QED BY <3>2, <3>3
    <2>6. ASSUME NEW i \in 1 .. m + 1 PROVE more[i] = all[here[i]]
        <3>1. CASE i = m + 1
            <4>1. here[i] = n + 1
                BY <3>1
            <4> HIDE DEF here
            <4> QED BY <2>1, <3>1, <4>1
        <3>2. CASE i # m + 1
            <4>1. i \in 1 .. m /\ here[i] = at[i]
                BY <2>3, <3>2
            <4> HIDE DEF here
            <4> QED BY <1>2, <2>1, <4>1
        <3> QED BY <3>1, <3>2
    <2>7. \/ m + 1 < n + 1
          \/ m + 1 = n + 1 /\ \A i \in 1 .. m + 1 : here[i] = i
        BY <1>1, <1>2, <2>3
    <2> HIDE DEF here
    <2>8. /\ here \in [DOMAIN more -> 1 .. n + 1]
          /\ \A i, j \in DOMAIN more : i < j => here[i] < here[j]
          /\ \A i \in DOMAIN more : more[i] = all[here[i]]
          /\ \/ Len(more) < n + 1
             \/ Len(more) = n + 1 /\ \A i \in DOMAIN more : here[i] = i
        BY <2>1, <2>2, <2>4, <2>5, <2>6, <2>7
    <2>9. SomeOf(more, all, n + 1)
        BY <2>8 DEF SomeOf
    <2> QED BY <2>9 DEF more
<1> QED BY <1>3, <1>4

\* What the next item does to the index is what its change does.
LEMMA NextIsChange ==
    ASSUME NEW c, Callers = {c}, TypeOK, TaskIsAhead, AtItem(c)
    PROVE  /\ pos[c] \in Nat /\ pos[c] + 1 <= Len(batch[c])
           /\ NextItem(c) \in Items
           /\ Store!Stores[pos[c] + 1] =
                 IF NextItem(c).op = "Add" THEN WithDoc(pending, NextItem(c).doc)
                                           ELSE WithoutKeys(pending, NextItem(c).keys)
<1> DEFINE n == pos[c]
<1>1. /\ pc[c] = "apply" /\ n \in Nat /\ n < Len(batch[c])
      /\ batch[c] \in Seq(Items) /\ buffer \in Seq(Items)
    BY DEF AtItem, TypeOK
<1>2. Len(batch[c]) \in Nat
    BY <1>1, LenProperties
<1>3. n + 1 \in 1 .. Len(batch[c]) /\ n + 1 <= Len(batch[c])
    BY <1>1, <1>2
<1>4. NextItem(c) \in Items /\ NextItem(c) = batch[c][n + 1]
    BY <1>1, <1>3, ElementOfSeq DEF NextItem
<1>5. Queue(c) = batch[c] \o buffer
    BY <1>1 DEF Queue, InFlight
<1>6. /\ Len(Queue(c)) = Len(batch[c]) + Len(buffer) /\ Len(buffer) \in Nat
      /\ n + 1 \in 1 .. Len(Queue(c)) /\ Queue(c)[n + 1] = batch[c][n + 1]
    <2>1. Len(buffer) \in Nat
        BY <1>1, LenProperties
    <2>2. Len(Queue(c)) = Len(batch[c]) + Len(buffer)
        BY <1>1, <1>5, ConcatProperties
    <2>3. n + 1 \in 1 .. Len(batch[c]) + Len(buffer)
        BY <1>2, <1>3, <2>1
    <2>4. Queue(c)[n + 1] = batch[c][n + 1]
        BY <1>1, <1>3, <1>5, <2>3, ConcatProperties
    <2> QED BY <2>1, <2>2, <2>3, <2>4
<1>7. /\ Len(Waiting) = Len(Queue(c)) /\ Len(Waiting) \in Nat
      /\ Waiting[n + 1] = ChangeOf(NextItem(c))
    <2>1. Queue(c) \in Seq(Items) /\ Waiting = ChangesOf(Queue(c)) /\ Len(Waiting) = Len(Queue(c))
        BY WaitingShape
    <2>2. Waiting[n + 1] = ChangeOf(Queue(c)[n + 1])
        BY <1>6, <2>1, ChangesShape
    <2> QED BY <1>4, <1>6, <2>1, <2>2, LenProperties
<1>8. pending = Store!Stores[n]
    BY <1>1 DEF TaskIsAhead
<1>9. Store!Stores[n + 1] = Store!ApplyChange(Store!Stores[n], Waiting[n + 1])
    <2>1. n \in 0 .. Len(Waiting) - 1
        BY <1>1, <1>6, <1>7
    <2> QED BY <1>7, <2>1, StoresAre, StoresStep
<1>10. Store!Stores[n + 1] = Store!ApplyChange(pending, ChangeOf(NextItem(c)))
    BY <1>7, <1>8, <1>9
<1>11. CASE NextItem(c).op = "Add"
    <2>1. ChangeOf(NextItem(c)).op = "Add" /\ ChangeOf(NextItem(c)).doc = NextItem(c).doc
        BY <1>11 DEF ChangeOf
    <2> QED BY <1>1, <1>3, <1>4, <1>10, <1>11, <2>1 DEF Store!ApplyChange, WithDoc
<1>12. CASE NextItem(c).op # "Add"
    <2>1. ChangeOf(NextItem(c)).op # "Add" /\ ChangeOf(NextItem(c)).keys = NextItem(c).keys
        BY <1>12 DEF ChangeOf
    <2> QED BY <1>1, <1>3, <1>4, <1>10, <1>12, <2>1 DEF Store!ApplyChange, WithoutKeys
<1> QED BY <1>11, <1>12

\* What keeps the committed index and the queue keeps the abstract stores.
LEMMA StoresStay ==
    ASSUME committed' = committed, Waiting' = Waiting
    PROVE  (Store!Stores)' = Store!Stores
BY DEF Store!Stores

-----------------------------------------------------------------------------
(* Every step is one of the store, or none.                                *)

\* The steps that the store does not see.
Quiet(c) ==
    \/ FileSystem
    \/ (\E p \in Paths : StatFile(c, p)) \/ LoadText(c)
    \/ CallCommit(c) \/ CommitEmpty(c) \/ TakeBuffer(c) \/ LockWriter(c)
    \/ ApplyAdd(c) \/ ApplyDelete(c) \/ RequeueFailed(c)
    \/ UNCHANGED vars

\* These steps change neither the committed documents nor the queue.
LEMMA QuietStep ==
    ASSUME NEW c, Callers = {c}, TypeOK, TypeOK', OnePlace, OnePlace', Quiet(c)
    PROVE  committed' = committed /\ Waiting' = Waiting
<1>1. committed' = committed
    BY DEF Quiet, FileSystem, WriteFile, RemoveFile, StatFile, LoadText, CallCommit,
           CommitEmpty, TakeBuffer, LockWriter, ApplyAdd, ApplyDelete, RequeueFailed,
           vars, indexVars
<1>2. /\ pc[c] \in {"idle", "load", "push", "take", "queued", "apply", "requeue"}
      /\ pc \in [Callers -> {"idle", "load", "push", "take", "queued", "apply", "requeue"}]
      /\ batch \in [Callers -> Seq(Items)] /\ survivors \in [Callers -> Seq(DeleteItems)]
    BY DEF TypeOK
<1>3. CASE FileSystem \/ UNCHANGED vars
    <2>1. pc' = pc /\ batch' = batch /\ survivors' = survivors /\ failed' = failed
          /\ buffer' = buffer
        BY <1>3 DEF FileSystem, WriteFile, RemoveFile, vars, taskVars
    <2>2. Queue(c)' = Queue(c)
        BY <2>1 DEF Queue, InFlight
    <2> QED BY <1>1, <2>2, QueueStays
<1>4. CASE (\E p \in Paths : StatFile(c, p)) \/ LoadText(c) \/ CallCommit(c) \/ CommitEmpty(c)
    <2>1. /\ pc[c] \in {"idle", "load", "take"} /\ pc'[c] \in {"idle", "load", "push", "take"}
          /\ survivors' = survivors /\ failed' = failed /\ buffer' = buffer
        BY <1>2, <1>4 DEF StatFile, LoadText, CallCommit, CommitEmpty
    <2>2. Queue(c)' = Queue(c)
        BY <2>1 DEF Queue, InFlight
    <2> QED BY <1>1, <2>2, QueueStays
<1>5. CASE TakeBuffer(c)
    <2>1. /\ pc[c] = "take" /\ pc'[c] = "queued" /\ batch'[c] = buffer /\ buffer' = <<>>
        BY <1>2, <1>5 DEF TakeBuffer
    <2>2. Queue(c) = buffer
        BY <2>1, NoneInFlight
    <2>3. buffer \o <<>> = buffer
        BY ConcatEmptySeq DEF TypeOK
    <2>4. Queue(c)' = Queue(c)
        BY <2>1, <2>2, <2>3 DEF Queue, InFlight
    <2> QED BY <1>1, <2>4, QueueStays
<1>6. CASE LockWriter(c) \/ ApplyAdd(c) \/ ApplyDelete(c)
    <2>1. /\ pc[c] \in {"queued", "apply"} /\ pc'[c] \in {"queued", "apply"}
          /\ batch' = batch /\ buffer' = buffer
        BY <1>2, <1>6 DEF LockWriter, ApplyAdd, ApplyDelete, AtItem
    <2>2. Queue(c)' = Queue(c)
        BY <2>1 DEF Queue, InFlight
    <2> QED BY <1>1, <2>2, QueueStays
<1>7. CASE RequeueFailed(c)
    <2>1. /\ pc[c] = "requeue" /\ pc'[c] = "idle" /\ failed[c] = <<>> /\ failed'[c] = <<>>
          /\ survivors'[c] = <<>> /\ buffer' = survivors[c] \o buffer
        BY <1>2, <1>7 DEF RequeueFailed
    <2>2. survivors[c] \o <<>> = survivors[c]
        BY <1>2, ConcatEmptySeq
    <2>3. InFlight(c) = survivors[c]
        BY <2>1, <2>2 DEF InFlight
    <2>4. Queue(c) = buffer'
        BY <2>1, <2>3 DEF Queue
    <2>5. <<>> \o <<>> = <<>>
        OBVIOUS
    <2>6. InFlight(c)' = <<>>
        BY <2>1, <2>5 DEF InFlight
    <2>7. <<>> \o buffer' = buffer'
        BY ConcatEmptySeq DEF TypeOK
    <2>8. Queue(c)' = Queue(c)
        BY <2>4, <2>6, <2>7 DEF Queue
    <2> QED BY <1>1, <2>8, QueueStays
<1> QED BY <1>3, <1>4, <1>5, <1>6, <1>7 DEF Quiet

\* Every step keeps TaskIsAhead, if the faults are safe ones.
LEMMA AheadStep ==
    ASSUME NEW c, Callers = {c}, Faults \subseteq SafeFaults,
           TypeOK, TypeOK', OnePlace, OnePlace', TaskIsAhead, [Next]_vars
    PROVE  TaskIsAhead'
<1> DEFINE Ahead == pos'[c] <= Len(batch'[c]) /\ pending' = (Store!Stores)'[pos'[c]]
                       /\ SomeOf(applied'[c], batch'[c], pos'[c])
<1>1. SUFFICES ASSUME pc'[c] = "apply" PROVE Ahead
    BY DEF TaskIsAhead
<1>2. pc \in [Callers -> {"idle", "load", "push", "take", "queued", "apply", "requeue"}]
    BY DEF TypeOK
<1>3. CASE FileSystem \/ UNCHANGED vars
    <2>1. committed' = committed /\ Waiting' = Waiting
        BY <1>3, QuietStep DEF Quiet
    <2>2. (Store!Stores)' = Store!Stores
        BY <2>1, StoresStay
    <2>3. pc' = pc /\ pos' = pos /\ batch' = batch /\ applied' = applied /\ pending' = pending
        BY <1>3 DEF FileSystem, WriteFile, RemoveFile, vars, taskVars, indexVars
    <2> QED BY <1>1, <2>2, <2>3 DEF TaskIsAhead
<1>4. CASE Call(c) \/ Restart
    <2>1. pc'[c] # "apply"
        BY <1>2, <1>4 DEF Call, StatFile, DeleteFile, DeleteDir, CallCommit, Restart, BufferChanges
    <2> QED BY <1>1, <2>1
<1>5. CASE LockWriter(c)
    <2>1. committed' = committed /\ Waiting' = Waiting
        BY <1>5, QuietStep DEF Quiet
    <2>2. (Store!Stores)' = Store!Stores
        BY <2>1, StoresStay
    <2>3. /\ pos'[c] = 0 /\ applied'[c] = <<>> /\ pending' = committed
          /\ batch'[c] = batch[c] /\ batch[c] \in Seq(Items)
        BY <1>5 DEF LockWriter, OnePlace, indexVars, TypeOK
    <2>4. 0 <= Len(batch[c])
        BY <2>3, LenProperties
    <2>5. Store!Stores[0] = committed
        <3>1. Len(Waiting) \in Nat
            BY WaitingShape, LenProperties
        <3> QED BY <3>1, StoresAre, StoresStep
    <2>6. SomeOf(<<>>, batch[c], 0)
        <3>1. [i \in {} |-> i] \in [DOMAIN <<>> -> 1 .. 0]
            OBVIOUS
        <3> QED BY <3>1 DEF SomeOf
    <2> QED BY <2>2, <2>3, <2>4, <2>5, <2>6
<1>6. CASE ApplyAdd(c) \/ ApplyDelete(c)
    <2>1. committed' = committed /\ Waiting' = Waiting
        BY <1>6, QuietStep DEF Quiet
    <2>2. (Store!Stores)' = Store!Stores
        BY <2>1, StoresStay
    <2>3. AtItem(c) /\ pc[c] = "apply"
        BY <1>6 DEF ApplyAdd, ApplyDelete, AtItem
    <2>4. /\ pos[c] \in Nat /\ pos[c] + 1 <= Len(batch[c])
          /\ NextItem(c) \in Items
          /\ Store!Stores[pos[c] + 1] =
                 IF NextItem(c).op = "Add" THEN WithDoc(pending, NextItem(c).doc)
                                           ELSE WithoutKeys(pending, NextItem(c).keys)
        BY <2>3, NextIsChange
    <2>5. pos'[c] = pos[c] + 1 /\ batch' = batch
        BY <1>6 DEF ApplyAdd, ApplyDelete, TypeOK
    <2>6. pending' = Store!Stores[pos[c] + 1]
        <3>1. CASE ApplyAdd(c)
            BY <2>4, <3>1 DEF ApplyAdd, SafeFaults
        <3>2. CASE ApplyDelete(c)
            BY <2>4, <3>2 DEF ApplyDelete
        <3> QED BY <1>6, <3>1, <3>2
    <2>7. SomeOf(applied'[c], batch[c], pos[c] + 1)
        <3>1. applied[c] \in Seq(Items)
            <4>1. applied[c] \in Seq(DeleteItems)
                BY DEF TypeOK
            <4> QED BY <4>1, SeqMonotonic DEF Items
        <3>2. SomeOf(applied[c], batch[c], pos[c])
            BY <2>3 DEF TaskIsAhead
        <3>3. /\ SomeOf(applied[c], batch[c], pos[c] + 1)
              /\ batch[c][pos[c] + 1] \in Items =>
                    SomeOf(Append(applied[c], batch[c][pos[c] + 1]), batch[c], pos[c] + 1)
            BY <2>4, <3>1, <3>2, SomeOfMore
        <3>4. CASE ApplyAdd(c)
            BY <3>3, <3>4 DEF ApplyAdd
        <3>5. CASE ApplyDelete(c)
            <4>1. applied'[c] = Append(applied[c], NextItem(c))
                BY <3>5 DEF ApplyDelete, TypeOK
            <4> QED BY <2>4, <3>3, <4>1 DEF NextItem
        <3> QED BY <1>6, <3>4, <3>5
    <2> QED BY <2>2, <2>4, <2>5, <2>6, <2>7
<1>7. CASE LoadText(c) \/ PushReindexed(c) \/ CommitEmpty(c) \/ TakeBuffer(c)
           \/ CommitIndex(c) \/ CommitFails(c) \/ RetainFailed(c) \/ RequeueFailed(c)
    <2>1. pc'[c] # "apply"
        BY <1>2, <1>7 DEF LoadText, PushReindexed, CommitEmpty, TakeBuffer, CommitIndex,
                CommitFails, RetainFailed, RequeueFailed, BufferChanges, EndTask
    <2> QED BY <1>1, <2>1
<1>8. CASE DeleteFails(c) \/ TaskPanics(c)
    BY <1>8 DEF DeleteFails, TaskPanics, SafeFaults
<1> HIDE DEF Ahead
<1>9. CASE Proceed(c)
    BY <1>5, <1>6, <1>7, <1>8, <1>9 DEF Proceed
<1> QED BY <1>3, <1>4, <1>9 DEF Next

\* StoreInv is inductive, for one caller and safe faults.
LEMMA StoreInvStep ==
    ASSUME NEW c, Callers = {c}, Faults \subseteq SafeFaults, StoreInv, [Next]_vars
    PROVE  StoreInv'
<1>1. TypeOK /\ DocsAreTicks /\ OnePlace /\ TaskIsAhead
    BY DEF StoreInv
<1>2. TypeOK'
    BY <1>1, TypeStep
<1>3. DocsAreTicks' /\ OnePlace'
    BY <1>1, <1>2, TicksStep, OnePlaceStep
<1>4. TaskIsAhead'
    BY <1>1, <1>2, <1>3, AheadStep
<1> QED BY <1>2, <1>3, <1>4 DEF StoreInv

\* Every step of the writer is one of the abstract store or a stutter.
LEMMA StoreStep ==
    ASSUME NEW c, Callers = {c}, Faults \subseteq SafeFaults, StoreInv, StoreInv',
           AddsArePaired, [Next]_vars
    PROVE  [Store!Next]_<<committed, Waiting>>
<1>1. /\ TypeOK /\ DocsAreTicks /\ OnePlace /\ TaskIsAhead
      /\ TypeOK' /\ OnePlace'
    BY DEF StoreInv
<1>2. ASSUME Store!Next \/ UNCHANGED <<committed, Waiting>>
      PROVE  [Store!Next]_<<committed, Waiting>>
    BY <1>2
<1>3. CASE Quiet(c)
    <2>1. committed' = committed /\ Waiting' = Waiting
        BY <1>1, <1>3, QuietStep
    <2> QED BY <2>1
<1>4. CASE (\E p \in Paths : DeleteFile(c, p)) \/ (\E d \in Dirs : DeleteDir(c, d))
    <2>1. PICK item \in DeleteItems : BufferChanges(c, <<item>>)
        <3>1. CASE \E p \in Paths : DeleteFile(c, p)
            BY <3>1, DeleteItemType DEF DeleteFile
        <3>2. CASE \E d \in Dirs : DeleteDir(c, d)
            BY <3>2, DeleteDirItemType DEF DeleteDir
        <3> QED BY <1>4, <3>1, <3>2
    <2>2. pc[c] = "idle" /\ committed' = committed
        BY <1>4 DEF DeleteFile, DeleteDir, indexVars
    <2>3. Store!Submit
        BY <1>1, <2>1, <2>2, DeleteSubmitted
    <2> QED BY <1>2, <2>3 DEF Store!Next
<1>5. CASE PushReindexed(c)
    <2>1. pc[c] = "push" /\ BufferChanges(c, Reindexed(doc[c])) /\ committed' = committed
        BY <1>5 DEF PushReindexed, indexVars
    <2>2. Store!Submit
        BY <1>1, <2>1, FileSubmitted
    <2> QED BY <1>2, <2>2 DEF Store!Next
<1>6. CASE CommitIndex(c)
    <2>1. Store!Persist
        BY <1>1, <1>6, BatchPersisted DEF AddsArePaired
    <2> QED BY <1>2, <2>1 DEF Store!Next
<1>7. CASE CommitFails(c) \/ RetainFailed(c) \/ Restart
    <2>1. Store!Lose \/ UNCHANGED <<committed, Waiting>>
        BY <1>1, <1>7, BatchLost, RetriedOrLost, AllLost
    <2> QED BY <1>2, <2>1 DEF Store!Next
<1>8. CASE DeleteFails(c) \/ TaskPanics(c)
    BY <1>8 DEF DeleteFails, TaskPanics, SafeFaults
<1>9. Call(c) \/ Proceed(c) \/ FileSystem \/ Restart \/ UNCHANGED vars
    BY DEF Next
<1> QED BY <1>3, <1>4, <1>5, <1>6, <1>7, <1>8, <1>9 DEF Call, Proceed, Quiet

\* Both start empty.
LEMMA StoreInit ==
    ASSUME NEW c, Callers = {c}, Init
    PROVE  StoreInv /\ Store!Init
<1>1. TypeOK
    BY TypeInit
<1>2. DocsAreTicks
    BY WriterAssumption DEF Init, DocsAreTicks, WriterAssumption
<1>3. OnePlace /\ TaskIsAhead
    BY DEF Init, OnePlace, TaskIsAhead
<1>4. Waiting = <<>>
    <2>1. pc[c] = "idle" /\ failed[c] = <<>> /\ survivors[c] = <<>> /\ buffer = <<>>
        BY DEF Init
    <2>2. <<>> \o <<>> = <<>>
        OBVIOUS
    <2>3. Queue(c) = <<>>
        BY <2>1, <2>2 DEF Queue, InFlight
    <2>4. ChangesOf(<<>>) = <<>>
        BY DEF ChangesOf
    <2> QED BY <1>1, <2>3, <2>4, WaitingShape
<1>5. Store!Init
    BY <1>4 DEF Init, EmptyIndex, Store!Init
<1> QED BY <1>1, <1>2, <1>3, <1>5 DEF StoreInv

\* With one caller, and if no panic and no failing add or delete query
\* interrupts a batch, the writer (add_file, delete_file, delete_dir, commit and
\* its blocking task) implements IndexStore: whatever fails otherwise, batches
\* are committed whole and in order, a re-indexed file's delete never without
\* its document, and changes are lost, but never reordered, repeated or
\* half-applied.
THEOREM WriterImplementsStore ==
    ASSUME NEW c, Callers = {c}, Faults \subseteq {"load", "commit", "rollback", "crash"}
    PROVE  Spec => ImplementsStore
<1>0. Faults \subseteq SafeFaults /\ "delete" \notin Faults
    BY DEF SafeFaults
<1>1. Init => StoreInv /\ NoDupInv /\ Store!Init
    BY StoreInit, NoDupInit
<1>2. StoreInv /\ NoDupInv /\ [Next]_vars => StoreInv' /\ NoDupInv'
    BY <1>0, StoreInvStep, NoDupStep
<1>3. StoreInv /\ NoDupInv /\ StoreInv' /\ [Next]_vars => [Store!Next]_<<committed, Waiting>>
    BY <1>0, StoreStep DEF NoDupInv
<1> QED BY <1>1, <1>2, <1>3, PTL DEF Spec, ImplementsStore, Store!Spec
=============================================================================
