---------------------------- MODULE IndexWriter ----------------------------
(***************************************************************************)
(* The batching writer of src/index/writer.rs.                             *)
(*                                                                         *)
(* Callers (the start-up scan and the event loop of index/mod.rs) share    *)
(* one IndexWriterWrapper.  add_file, delete_file and delete_dir append    *)
(* change items to `buffer`; commit takes the whole buffer, hands it to a  *)
(* blocking task that locks the tantivy writer, applies the items one by   *)
(* one to the writer's uncommitted state `pending` and commits it.  What   *)
(* a commit could not do is requeued at the front of the buffer.           *)
(*                                                                         *)
(* Data.  A document is its path, the modification time read from the      *)
(* file system and the text read afterwards.  Every write of a file takes  *)
(* a new tick of `clock`, and a tick stands both for the modification time *)
(* and for the text written then, so text = mtime says that the document   *)
(* is what was on the disk at that time.  The text may come from the cache *)
(* that all callers and request handlers share (module TextCache).         *)
(***************************************************************************)
EXTENDS Integers, Sequences, FiniteSets

CONSTANTS
    Paths,          \* relative paths of indexable files
    Dirs,           \* directories that DeletedDir events name
    Under,          \* Under[d]: the paths starting with "d/"
    Callers,        \* tasks sharing the writer
    BatchSize,      \* config.batch_size
    MaxRetryCount,  \* MAX_RETRY_COUNT
    Faults,         \* what may fail (see FaultKinds)
    MaxClock,       \* bound: writes to files
    MaxCalls        \* bound: calls of add_file, delete_file and delete_dir

FaultKinds ==
    { "load",       \* the text of a present file cannot be read
      "add",        \* add_document fails
      "delete",     \* the term query of a Delete fails
      "deldir",     \* the regex query of a DeleteDir fails
      "commit",     \* IndexWriter::commit fails
      "rollback",   \* IndexWriter::rollback fails after a failed commit
      "panic",      \* the blocking task panics
      "crash" }     \* the process dies and is started again

ASSUME WriterAssumption ==
    /\ Paths # {}
    /\ Under \in [Dirs -> SUBSET Paths]
    /\ BatchSize \in Nat \ {0}
    /\ MaxRetryCount \in Nat \ {0}
    /\ Faults \subseteq FaultKinds
    /\ MaxClock \in Nat
    /\ MaxCalls \in Nat

VARIABLES
    clock,      \* the last modification time given to a file
    disk,       \* disk[p]: modification time of p, 0 when there is no such file
    buffer,     \* IndexWriterWrapper.buffer
    pc,         \* pc[c]: where caller c is inside the wrapper
    doc,        \* doc[c]: the document add_file is building for c
    batch,      \* batch[c]: the change items c's commit took from the buffer
    pos,        \* pos[c]: how many of them the task has handled
    applied,    \* applied[c]: applied_items of the commit loop
    failed,     \* failed[c]: failed_items; later the items to requeue
    survivors,  \* survivors[c]: what requeue_failed keeps
    result,     \* result[c]: has the last commit() of c returned true?
    writer,     \* "open", or "killed" after a rollback that failed
    pending,    \* pending[p]: documents of p the tantivy writer would commit
    committed,  \* committed[p]: live documents of p on disk
    calls       \* number of changes asked for (bounded by MaxCalls)

taskVars == <<pc, doc, batch, pos, applied, failed, survivors, result>>
indexVars == <<writer, pending, committed>>
vars == <<clock, disk, buffer, taskVars, indexVars, calls>>

-----------------------------------------------------------------------------
(* Data.                                                                   *)

NoText == 0

\* `from` says where the text comes from, and "none" that there is none.
Docs == [path : Paths, mtime : Nat, text : Nat, from : {"disk", "cache", "none"}]

\* A document of p before its text is loaded.
Unloaded(p, time) == [path |-> p, mtime |-> time, text |-> NoText, from |-> "none"]

\* What doc[c] holds while c builds no document.
NoDoc == Unloaded(CHOOSE p \in Paths : TRUE, 0)

AddItems == [op : {"Add"}, doc : Docs, tries : Nat]
DeleteItems == [op : {"Delete", "DeleteDir"}, keys : SUBSET Paths, tries : Nat]
Items == AddItems \cup DeleteItems

\* ChangeItem::new on each kind of Change.  A Delete names one exact path, a
\* DeleteDir every path with the prefix "d/".
AddItem(d) == [op |-> "Add", doc |-> d, tries |-> 0]
DeleteItem(p) == [op |-> "Delete", keys |-> {p}, tries |-> 0]
DeleteDirItem(d) == [op |-> "DeleteDir", keys |-> Under[d], tries |-> 0]

\* What add_file buffers in one step: the Delete that keeps a re-indexed file
\* from having two documents, and the Add.
Reindexed_NoDelete(d) == <<AddItem(d)>>
Reindexed(d) == <<DeleteItem(d.path), AddItem(d)>>

EmptyIndex == [p \in Paths |-> <<>>]

Init ==
    /\ clock = 0
    /\ disk = [p \in Paths |-> 0]
    /\ buffer = <<>>
    /\ pc = [c \in Callers |-> "idle"]
    /\ doc = [c \in Callers |-> NoDoc]
    /\ batch = [c \in Callers |-> <<>>]
    /\ pos = [c \in Callers |-> 0]
    /\ applied = [c \in Callers |-> <<>>]
    /\ failed = [c \in Callers |-> <<>>]
    /\ survivors = [c \in Callers |-> <<>>]
    /\ result = [c \in Callers |-> FALSE]
    /\ writer = "open"
    /\ pending = EmptyIndex
    /\ committed = EmptyIndex
    /\ calls = 0

-----------------------------------------------------------------------------
(* The file system, which the program only reads.                          *)

WriteFile(p) ==
    /\ clock < MaxClock
    /\ clock' = clock + 1
    /\ disk' = [disk EXCEPT ![p] = clock + 1]
    /\ UNCHANGED <<buffer, taskVars, indexVars, calls>>

RemoveFile(p) ==
    /\ disk[p] # 0
    /\ disk' = [disk EXCEPT ![p] = 0]
    /\ UNCHANGED <<clock, buffer, taskVars, indexVars, calls>>

-----------------------------------------------------------------------------
(* add_file, delete_file, delete_dir.                                      *)

Called == /\ calls < MaxCalls
          /\ calls' = calls + 1

\* buffer_changes: extend under the buffer lock, then commit when the buffer
\* has reached batch_size.  The lock is released in between, so that another
\* caller may take the buffer first.
BufferChanges(c, items) ==
    /\ buffer' = buffer \o items
    /\ pc' = [pc EXCEPT ![c] = IF Len(buffer') >= BatchSize THEN "take" ELSE "idle"]

StatFile_TimeOptional(c, p) ==
    /\ pc[c] = "idle"
    /\ Called
    /\ disk[p] # 0
    /\ \E t \in {0, disk[p]} :
          doc' = [doc EXCEPT ![c] = Unloaded(p, t)]
    /\ pc' = [pc EXCEPT ![c] = "load"]
    /\ UNCHANGED <<clock, disk, buffer, batch, pos, applied, failed, survivors,
                   result, indexVars>>

\* add_file up to the metadata of the resolved path, the invalidation of the
\* cached text included; a path that cannot be canonicalized is an error and
\* changes nothing.
StatFile(c, p) ==
    /\ pc[c] = "idle"
    /\ Called
    /\ disk[p] # 0
    /\ doc' = [doc EXCEPT ![c] = Unloaded(p, disk[p])]
    /\ pc' = [pc EXCEPT ![c] = "load"]
    /\ UNCHANGED <<clock, disk, buffer, batch, pos, applied, failed, survivors,
                   result, indexVars>>

\* The two reads the other way round: the tick read first is the text's.
LoadText_Swapped(c) ==
    /\ pc[c] = "load"
    /\ disk[doc[c].path] # 0
    /\ doc' = [doc EXCEPT ![c].mtime = disk[doc[c].path], ![c].text = doc[c].mtime,
                          ![c].from = "disk"]
    /\ pc' = [pc EXCEPT ![c] = "push"]
    /\ UNCHANGED <<clock, disk, buffer, batch, pos, applied, failed, survivors,
                   result, indexVars, calls>>

\* What load_file_text_data may return for p: what is on the disk, which is no
\* text when the file has gone; a text that another task, a caller or a request
\* handler, has read at any earlier time and has put into the cache since the
\* invalidation; or, for an error of its own, no text.
Loaded(p) ==
    [text : {disk[p]}, from : {"disk"}]
    \cup [text : 1 .. clock, from : {"cache"}]
    \cup [text : {NoText}, from : IF "load" \in Faults THEN {"none"} ELSE {}]

\* The text is loaded after the metadata; without it the document has no content.
LoadText(c) ==
    /\ pc[c] = "load"
    /\ \E data \in Loaded(doc[c].path) :
          doc' = [doc EXCEPT ![c].text = data.text, ![c].from = data.from]
    /\ pc' = [pc EXCEPT ![c] = "push"]
    /\ UNCHANGED <<clock, disk, buffer, batch, pos, applied, failed, survivors,
                   result, indexVars, calls>>

PushReindexed(c) ==
    /\ pc[c] = "push"
    /\ BufferChanges(c, Reindexed(doc[c]))
    /\ doc' = [doc EXCEPT ![c] = NoDoc]
    /\ UNCHANGED <<clock, disk, batch, pos, applied, failed, survivors,
                   result, indexVars, calls>>

\* delete_file and delete_dir; a path whose parent cannot be canonicalized is
\* an error and changes nothing (module FileSync models that resolution).
DeleteFile(c, p) ==
    /\ pc[c] = "idle"
    /\ Called
    /\ BufferChanges(c, <<DeleteItem(p)>>)
    /\ UNCHANGED <<clock, disk, doc, batch, pos, applied, failed, survivors,
                   result, indexVars>>

DeleteDir(c, d) ==
    /\ pc[c] = "idle"
    /\ Called
    /\ BufferChanges(c, <<DeleteDirItem(d)>>)
    /\ UNCHANGED <<clock, disk, doc, batch, pos, applied, failed, survivors,
                   result, indexVars>>

-----------------------------------------------------------------------------
(* commit.                                                                 *)

\* Explicit calls: the end of a scan, the commit timer, the final commit.
CallCommit(c) ==
    /\ pc[c] = "idle"
    /\ pc' = [pc EXCEPT ![c] = "take"]
    /\ UNCHANGED <<clock, disk, buffer, doc, batch, pos, applied, failed, survivors,
                   result, indexVars, calls>>

CommitEmpty(c) ==
    /\ pc[c] = "take"
    /\ buffer = <<>>
    /\ pc' = [pc EXCEPT ![c] = "idle"]
    /\ result' = [result EXCEPT ![c] = TRUE]
    /\ UNCHANGED <<clock, disk, buffer, doc, batch, pos, applied, failed, survivors,
                   indexVars, calls>>

\* The buffer is taken under its lock, the blocking task is spawned after the
\* lock is released: two commits may reach the writer in either order.
TakeBuffer(c) ==
    /\ pc[c] = "take"
    /\ buffer # <<>>
    /\ batch' = [batch EXCEPT ![c] = buffer]
    /\ buffer' = <<>>
    /\ pc' = [pc EXCEPT ![c] = "queued"]
    /\ UNCHANGED <<clock, disk, doc, pos, applied, failed, survivors, result,
                   indexVars, calls>>

\* The task holds the mutex of the tantivy writer from here to the end of its
\* commit.  A mutex poisoned by a panic is taken like a free one.
WriterFree == \A c \in Callers : pc[c] # "apply"

LockWriter(c) ==
    /\ pc[c] = "queued"
    /\ WriterFree
    /\ pc' = [pc EXCEPT ![c] = "apply"]
    /\ UNCHANGED <<clock, disk, buffer, doc, batch, pos, applied, failed, survivors,
                   result, indexVars, calls>>

\* The item the task of c is about to apply.
AtItem(c) == pc[c] = "apply" /\ pos[c] < Len(batch[c])
NextItem(c) == batch[c][pos[c] + 1]

\* Tantivy: an added document is one more document of its path; a delete
\* removes the documents added before it.
WithDoc(index, d) == [index EXCEPT ![d.path] = Append(@, d)]
WithoutKeys(index, keys) == [p \in Paths |-> IF p \in keys THEN <<>> ELSE index[p]]

\* The document moves into the writer; an error is logged and the document
\* lost.
ApplyAdd(c) ==
    /\ AtItem(c)
    /\ NextItem(c).op = "Add"
    /\ \/ pending' = WithDoc(pending, NextItem(c).doc)
       \/ "add" \in Faults /\ UNCHANGED pending
    /\ pos' = [pos EXCEPT ![c] = @ + 1]
    /\ UNCHANGED <<clock, disk, buffer, pc, doc, batch, applied, failed, survivors,
                   result, writer, committed, calls>>

ApplyDelete(c) ==
    /\ AtItem(c)
    /\ NextItem(c).op # "Add"
    /\ pending' = WithoutKeys(pending, NextItem(c).keys)
    /\ applied' = [applied EXCEPT ![c] = Append(@, NextItem(c))]
    /\ pos' = [pos EXCEPT ![c] = @ + 1]
    /\ UNCHANGED <<clock, disk, buffer, pc, doc, batch, failed, survivors,
                   result, writer, committed, calls>>

DeleteFails(c) ==
    /\ AtItem(c)
    /\ \/ NextItem(c).op = "Delete" /\ "delete" \in Faults
       \/ NextItem(c).op = "DeleteDir" /\ "deldir" \in Faults
    /\ failed' = [failed EXCEPT ![c] = Append(@, NextItem(c))]
    /\ pos' = [pos EXCEPT ![c] = @ + 1]
    /\ UNCHANGED <<clock, disk, buffer, pc, doc, batch, applied, survivors,
                   result, indexVars, calls>>

AtCommit(c) == pc[c] = "apply" /\ pos[c] = Len(batch[c])

\* The task ends with `items` to requeue; the batch and applied_items are its
\* own and go with it.  A commit that failed reports it by this list alone:
\* an empty one makes commit() return true.
EndTask(c, items) ==
    /\ batch' = [batch EXCEPT ![c] = <<>>]
    /\ pos' = [pos EXCEPT ![c] = 0]
    /\ applied' = [applied EXCEPT ![c] = <<>>]
    /\ failed' = [failed EXCEPT ![c] = items]
    /\ pc' = [pc EXCEPT ![c] = IF items = <<>> THEN "idle" ELSE "requeue"]
    /\ result' = [result EXCEPT ![c] = items = <<>>]

CommitIndex(c) ==
    /\ AtCommit(c)
    /\ writer = "open"
    /\ committed' = pending
    /\ EndTask(c, failed[c])
    /\ UNCHANGED <<clock, disk, buffer, doc, survivors, writer, pending, calls>>

CommitFails_NoRollback(c) ==
    /\ AtCommit(c)
    /\ "commit" \in Faults \/ writer = "killed"
    /\ EndTask(c, applied[c] \o failed[c])
    /\ UNCHANGED <<clock, disk, buffer, doc, survivors, indexVars, calls>>

CommitFails_RequeuesBatch(c) ==
    /\ AtCommit(c)
    /\ "commit" \in Faults \/ writer = "killed"
    /\ pending' = committed
    /\ EndTask(c, batch[c])
    /\ UNCHANGED <<clock, disk, buffer, doc, survivors, writer, committed, calls>>

CommitFails_Unreported(c) ==
    /\ AtCommit(c)
    /\ "commit" \in Faults \/ writer = "killed"
    /\ pending' = committed
    /\ EndTask(c, failed[c])
    /\ UNCHANGED <<clock, disk, buffer, doc, survivors, writer, committed, calls>>

\* A failed commit is rolled back, the applied deletes with it, so all deletes
\* of the batch are requeued and the documents are lost.
CommitFails(c) ==
    /\ AtCommit(c)
    /\ "commit" \in Faults \/ writer = "killed"
    /\ pending' = committed
    /\ \/ writer' = writer
       \/ "rollback" \in Faults /\ writer' = "killed"
    /\ EndTask(c, applied[c] \o failed[c])
    /\ UNCHANGED <<clock, disk, buffer, doc, survivors, committed, calls>>

\* The task panics, before it has the mutex or between two items: commit()
\* returns false and the batch is gone, but what the task gave to the tantivy
\* writer stays there.
TaskPanics(c) ==
    /\ "panic" \in Faults
    /\ pc[c] \in {"queued", "apply"}
    /\ batch' = [batch EXCEPT ![c] = <<>>]
    /\ pos' = [pos EXCEPT ![c] = 0]
    /\ applied' = [applied EXCEPT ![c] = <<>>]
    /\ failed' = [failed EXCEPT ![c] = <<>>]
    /\ pc' = [pc EXCEPT ![c] = "idle"]
    /\ result' = [result EXCEPT ![c] = FALSE]
    /\ UNCHANGED <<clock, disk, buffer, doc, survivors, indexVars, calls>>

-----------------------------------------------------------------------------
(* requeue_failed, one item of its loop a step, and the splice that puts   *)
(* the survivors before what was buffered meanwhile.                       *)

Retried_NotCounted(item) == item
Retried(item) == [item EXCEPT !.tries = @ + 1]

Survives(item) == item.tries < MaxRetryCount

RetainFailed(c) ==
    /\ pc[c] = "requeue"
    /\ failed[c] # <<>>
    /\ LET item == Retried(Head(failed[c])) IN
       survivors' = IF Survives(item)
                    THEN [survivors EXCEPT ![c] = Append(@, item)]
                    ELSE survivors
    /\ failed' = [failed EXCEPT ![c] = Tail(@)]
    /\ UNCHANGED <<clock, disk, buffer, pc, doc, batch, pos, applied, result,
                   indexVars, calls>>

RequeueFailed(c) ==
    /\ pc[c] = "requeue"
    /\ failed[c] = <<>>
    /\ buffer' = survivors[c] \o buffer
    /\ survivors' = [survivors EXCEPT ![c] = <<>>]
    /\ pc' = [pc EXCEPT ![c] = "idle"]
    /\ UNCHANGED <<clock, disk, doc, batch, pos, applied, failed, result,
                   indexVars, calls>>

-----------------------------------------------------------------------------
(* The process dies and starts again: IndexWriterWrapper::new opens the    *)
(* index as it was committed, with an empty buffer.                        *)

Restart ==
    /\ "crash" \in Faults
    /\ buffer' = <<>>
    /\ pc' = [c \in Callers |-> "idle"]
    /\ doc' = [c \in Callers |-> NoDoc]
    /\ batch' = [c \in Callers |-> <<>>]
    /\ pos' = [c \in Callers |-> 0]
    /\ applied' = [c \in Callers |-> <<>>]
    /\ failed' = [c \in Callers |-> <<>>]
    /\ survivors' = [c \in Callers |-> <<>>]
    /\ result' = [c \in Callers |-> FALSE]
    /\ writer' = "open"
    /\ pending' = committed
    /\ UNCHANGED <<clock, disk, committed, calls>>

-----------------------------------------------------------------------------

FileSystem == \E p \in Paths : WriteFile(p) \/ RemoveFile(p)

\* What a caller chooses to ask of the wrapper.
Call(c) ==
    \/ \E p \in Paths : StatFile(c, p) \/ DeleteFile(c, p)
    \/ \E d \in Dirs : DeleteDir(c, d)
    \/ CallCommit(c)

\* What goes on inside it once asked.
Proceed(c) ==
    \/ LoadText(c) \/ PushReindexed(c)
    \/ CommitEmpty(c) \/ TakeBuffer(c) \/ LockWriter(c)
    \/ ApplyAdd(c) \/ ApplyDelete(c) \/ DeleteFails(c)
    \/ CommitIndex(c) \/ CommitFails(c) \/ TaskPanics(c)
    \/ RetainFailed(c) \/ RequeueFailed(c)

Next ==
    \/ FileSystem
    \/ \E c \in Callers : Call(c) \/ Proceed(c)
    \/ Restart

Spec == Init /\ [][Next]_vars

\* The runtime runs every task that can run, and some caller keeps asking for
\* commits: the event loop, on every tick of its commit timer.
Fairness ==
    /\ \A c \in Callers : WF_vars(Proceed(c))
    /\ WF_vars(\E c \in Callers : CallCommit(c))

FairSpec == Spec /\ Fairness

-----------------------------------------------------------------------------
(* Properties.                                                             *)

\* Types of all variables.
TypeOK ==
    /\ clock \in Nat
    /\ disk \in [Paths -> Nat]
    /\ buffer \in Seq(Items)
    /\ pc \in [Callers -> {"idle", "load", "push", "take", "queued", "apply", "requeue"}]
    /\ doc \in [Callers -> Docs]
    /\ batch \in [Callers -> Seq(Items)]
    /\ pos \in [Callers -> Nat]
    /\ applied \in [Callers -> Seq(DeleteItems)]
    /\ failed \in [Callers -> Seq(DeleteItems)]
    /\ survivors \in [Callers -> Seq(DeleteItems)]
    /\ result \in [Callers -> BOOLEAN]
    /\ writer \in {"open", "killed"}
    /\ pending \in [Paths -> Seq(Docs)]
    /\ committed \in [Paths -> Seq(Docs)]
    /\ calls \in Nat

\* No path ever has two live documents, whatever the interleaving of two
\* commits, the retries and the panics.  add_file deletes "any existing
\* document with the same path first to avoid duplicates", in a batch that may
\* be cut, rolled back or retried in parts.  The scanner takes the newest
\* document's time as the file's, so an older duplicate would stay for ever.
NoDuplicates == \A p \in Paths : Len(committed[p]) <= 1

\* Why it holds: in the buffer and in every batch an Add stands right behind
\* the Delete of its path; when a task is about to add a document, the writer
\* has none of that path; and only one task at a time applies items.
Paired(items) ==
    \A i \in DOMAIN items : items[i].op = "Add" =>
        /\ i > 1
        /\ items[i - 1].op = "Delete"
        /\ items[i].doc.path \in items[i - 1].keys

AddsArePaired ==
    /\ Paired(buffer)
    /\ \A c \in Callers : Paired(batch[c])
    /\ \A c \in Callers : pc[c] # "apply" => pos[c] = 0
    /\ \A c, e \in Callers : pc[c] = "apply" /\ pc[e] = "apply" => c = e
    /\ \A c \in Callers :
          AtItem(c) /\ NextItem(c).op = "Add" => pending[NextItem(c).doc.path] = <<>>
    /\ \A p \in Paths : Len(pending[p]) <= 1

\* A document whose text was read from the disk and whose time is the file's
\* present one has the file's present text: only then may the scan skip a file
\* whose stored time is not older than the file's (needs_indexing), whatever
\* was lost, retried or cut off in between.  A text from the cache may be older
\* than the time beside it (module TextCache), and a document without content
\* has the present time after a load that failed (writer.rs:138).
TimeTellsText ==
    \A p \in Paths : \A i \in DOMAIN committed[p] :
        LET kept == committed[p][i] IN
        kept.from = "disk" /\ kept.mtime = disk[p] => kept.text = disk[p]

\* Why it holds: the metadata is read before the text, so the text is at least
\* as new as the time stored with it, and a file that disappears in between
\* never has that time again.
Seen(d, now, files) ==
    /\ d.mtime \in 1 .. now
    /\ files[d.path] # 0 => d.mtime <= files[d.path]

Sound(d, now, files) ==
    /\ Seen(d, now, files)
    /\ d.from = "disk" =>
          /\ d.text <= now
          /\ files[d.path] # 0 => d.text <= files[d.path]
          /\ d.mtime <= d.text \/ (d.text = NoText /\ d.mtime # files[d.path])

AllSound(items, now, files) ==
    \A i \in DOMAIN items : items[i].op = "Add" => Sound(items[i].doc, now, files)

IndexSound(index, now, files) ==
    \A p \in Paths : \A i \in DOMAIN index[p] :
        index[p][i].path = p /\ Sound(index[p][i], now, files)

DocsAreSound ==
    /\ \A p \in Paths : disk[p] <= clock
    /\ AllSound(buffer, clock, disk)
    /\ \A c \in Callers : AllSound(batch[c], clock, disk)
    /\ \A c \in Callers : pc[c] = "load" => Seen(doc[c], clock, disk)
    /\ \A c \in Callers : pc[c] = "push" => Sound(doc[c], clock, disk)
    /\ IndexSound(pending, clock, disk)
    /\ IndexSound(committed, clock, disk)

\* When commit() of a batch returns true, every document of the batch that the
\* batch itself does not delete again is in the index.
Kept(items, i) ==
    /\ items[i].op = "Add"
    /\ \A j \in (i + 1) .. Len(items) :
          items[j].op # "Add" => items[i].doc.path \notin items[j].keys

Documents(index) == UNION {{index[p][i] : i \in DOMAIN index[p]} : p \in Paths}

TrueMeansCommitted ==
    [][\A c \in Callers :
          (pc[c] = "apply" /\ pc'[c] = "idle" /\ result'[c]) =>
              \A i \in 1 .. Len(batch[c]) :
                  Kept(batch[c], i) => batch[c][i].doc \in Documents(committed')]_vars

\* The stored time of a file never goes back while its document stays: with
\* one caller the changes of a path reach the index in the order in which
\* they were asked for, through batching, failed commits and retries.
MtimeMonotone ==
    [][\A p \in Paths :
          committed[p] # <<>> /\ committed'[p] # <<>> =>
              committed[p][1].mtime <= committed'[p][1].mtime]_vars

\* Whatever fails, the writer comes to rest: every change asked for is in the
\* end committed or given up, none is retried for ever or left in the buffer.
Settled ==
    /\ buffer = <<>>
    /\ \A c \in Callers : batch[c] = <<>> /\ failed[c] = <<>> /\ survivors[c] = <<>>

ChangesSettle == []<>Settled

=============================================================================
