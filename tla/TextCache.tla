----------------------------- MODULE TextCache -----------------------------
(***************************************************************************)
(* The text cache of src/formats/mod.rs, shared by the tasks that serve    *)
(* file contents (MCP tools, snippets, web handlers) and by the event      *)
(* loop's process_change, which re-indexes a file through the same cache   *)
(* and clears it afterwards.                                               *)
(*                                                                         *)
(* A load is a lookup, a read of the file and an insert, with the other    *)
(* tasks running in between.  Modification times and texts are ticks of    *)
(* one clock, as in IndexWriter; the cache maps a file to the tick of the  *)
(* text it holds.  Directories stay where they are (FileSync moves them).  *)
(***************************************************************************)
EXTENDS Naturals

CONSTANTS
    Files,
    Readers,        \* tasks that serve file contents
    Indexer,        \* the event loop
    WritesOverlap,  \* may a file be written while some task is loading it?
    MaxClock        \* bound: writes to files

ASSUME CacheAssumption ==
    /\ Files # {}
    /\ Indexer \notin Readers
    /\ WritesOverlap \in BOOLEAN
    /\ MaxClock \in Nat \ {0}

Tasks == Readers \cup {Indexer}

VARIABLES
    clock,
    disk,     \* disk[f]: tick of the last write to f, 0 when there is no f
    events,   \* changes of files the event loop has not taken
    cache,    \* cache[f]: tick of the cached text of f, or NotCached
    index,    \* index[f]: [mtime, text] of the document of f, or NoDocument
    pc,       \* pc[t]: where task t is
    target,   \* target[t]: the file t is loading
    text,     \* text[t]: what t has read from it
    mtime,    \* the modification time the indexer has read
    failed    \* failed[f]: what failed in the last change of f the loop took

vars == <<clock, disk, events, cache, index, pc, target, text, mtime, failed>>

NotCached == 0
NoText == 0
NoDocument == [mtime |-> 0, text |-> NoText]

\* The path was not resolved, the metadata was not read, the text was not loaded.
Failures == {"none", "path", "stat", "load"}

Modified(f) == [kind |-> "Modified", file |-> f]
Deleted(f) == [kind |-> "Deleted", file |-> f]

Init ==
    /\ clock = 1
    /\ disk = [f \in Files |-> 1]
    /\ events = {}
    /\ cache = [f \in Files |-> NotCached]
    /\ index = [f \in Files |-> [mtime |-> 1, text |-> 1]]
    /\ pc = [t \in Tasks |-> "idle"]
    /\ target \in [Tasks -> {CHOOSE f \in Files : TRUE}]
    /\ text = [t \in Tasks |-> 0]
    /\ mtime = 0
    /\ failed = [f \in Files |-> "none"]

-----------------------------------------------------------------------------
(* The file system and the watcher.                                        *)

Loading(f) == \E t \in Tasks : pc[t] \in {"read", "insert"} /\ target[t] = f

WriteFile(f) ==
    /\ clock < MaxClock
    /\ WritesOverlap \/ ~Loading(f)
    /\ clock' = clock + 1
    /\ disk' = [disk EXCEPT ![f] = clock + 1]
    /\ events' = events \cup {Modified(f)}
    /\ UNCHANGED <<cache, index, pc, target, text, mtime, failed>>

RemoveFile(f) ==
    /\ disk[f] # 0
    /\ WritesOverlap \/ ~Loading(f)
    /\ disk' = [disk EXCEPT ![f] = 0]
    /\ events' = events \cup {Deleted(f)}
    /\ UNCHANGED <<clock, cache, index, pc, target, text, mtime, failed>>

-----------------------------------------------------------------------------
(* load_file_text_data.                                                    *)

Return_ToIndexer(t, value) ==
    /\ text' = [text EXCEPT ![t] = value]
    /\ pc' = [pc EXCEPT ![t] = "push"]

\* What a task does with the text it asked for: the indexer goes on to its
\* document, a reader answers its request.
Return(t, value) ==
    /\ text' = [text EXCEPT ![t] = IF t = Indexer THEN value ELSE 0]
    /\ pc' = [pc EXCEPT ![t] = IF t = Indexer THEN "push" ELSE "idle"]

CacheHit(t) ==
    /\ pc[t] = "lookup"
    /\ cache[target[t]] # NotCached
    /\ Return(t, cache[target[t]])
    /\ UNCHANGED <<clock, disk, events, cache, index, target, mtime, failed>>

CacheMiss(t) ==
    /\ pc[t] = "lookup"
    /\ cache[target[t]] = NotCached
    /\ pc' = [pc EXCEPT ![t] = "read"]
    /\ UNCHANGED <<clock, disk, events, cache, index, target, text, mtime, failed>>

\* The file has gone, or cannot be read or converted, now or ever: a reader
\* answers with the error, the indexer logs it and goes on to a document
\* without content.
ReadFails(t) ==
    /\ pc[t] = "read"
    /\ Return(t, NoText)
    /\ failed' = IF t = Indexer THEN [failed EXCEPT ![target[t]] = "load"] ELSE failed
    /\ UNCHANGED <<clock, disk, events, cache, index, target, mtime>>

\* Metadata check, read and conversion.
ReadText(t) ==
    /\ pc[t] = "read"
    /\ disk[target[t]] # 0
    /\ text' = [text EXCEPT ![t] = disk[target[t]]]
    /\ pc' = [pc EXCEPT ![t] = "insert"]
    /\ UNCHANGED <<clock, disk, events, cache, index, target, mtime, failed>>

InsertText(t) ==
    /\ pc[t] = "insert"
    /\ cache' = [cache EXCEPT ![target[t]] = text[t]]
    /\ Return(t, text[t])
    /\ UNCHANGED <<clock, disk, events, index, target, mtime, failed>>

\* The cache evicts an entry to stay within its weight, or never keeps one
\* that is heavier than the whole budget.
Evict(f) ==
    /\ cache[f] # NotCached
    /\ cache' = [cache EXCEPT ![f] = NotCached]
    /\ UNCHANGED <<clock, disk, events, index, pc, target, text, mtime, failed>>

-----------------------------------------------------------------------------
(* Readers: get, structure, snippets, /file.                               *)

AskText(r, f) ==
    /\ pc[r] = "idle"
    /\ pc' = [pc EXCEPT ![r] = "lookup"]
    /\ target' = [target EXCEPT ![r] = f]
    /\ UNCHANGED <<clock, disk, events, cache, index, text, mtime, failed>>

-----------------------------------------------------------------------------
(* The event loop: process_change(Modified) and add_file.                  *)

NotBefore(f) == Deleted(f) \notin events

TakeModified_NoInvalidate(f) ==
    /\ pc[Indexer] = "idle"
    /\ Modified(f) \in events
    /\ NotBefore(f)
    /\ events' = events \ {Modified(f)}
    /\ target' = [target EXCEPT ![Indexer] = f]
    /\ pc' = [pc EXCEPT ![Indexer] = "stat"]
    /\ failed' = [failed EXCEPT ![f] = "none"]
    /\ UNCHANGED <<clock, disk, cache, index, text, mtime>>

\* add_file drops the cached text of the file before it reads the file again.
\* The watcher holds a Modified back and sends a Deleted at once, so a Deleted
\* that waits is taken first.
TakeModified(f) ==
    /\ pc[Indexer] = "idle"
    /\ Modified(f) \in events
    /\ NotBefore(f)
    /\ events' = events \ {Modified(f)}
    /\ target' = [target EXCEPT ![Indexer] = f]
    /\ cache' = [cache EXCEPT ![f] = NotCached]
    /\ pc' = [pc EXCEPT ![Indexer] = "stat"]
    /\ failed' = [failed EXCEPT ![f] = "none"]
    /\ UNCHANGED <<clock, disk, index, text, mtime>>

StatFile ==
    /\ pc[Indexer] = "stat"
    /\ disk[target[Indexer]] # 0
    /\ mtime' = disk[target[Indexer]]
    /\ pc' = [pc EXCEPT ![Indexer] = "lookup"]
    /\ UNCHANGED <<clock, disk, events, cache, index, target, text, failed>>

\* process_change returns the error of add_file before it clears the cache.
StatFails ==
    /\ pc[Indexer] = "stat"
    /\ pc' = [pc EXCEPT ![Indexer] = "idle"]
    /\ failed' = [failed EXCEPT ![target[Indexer]] = "stat"]
    /\ UNCHANGED <<clock, disk, events, cache, index, target, text, mtime>>

\* The document goes to the index (modules IndexWriter and IndexStore).
PushDocument ==
    /\ pc[Indexer] = "push"
    /\ index' = [index EXCEPT ![target[Indexer]] =
                    [mtime |-> mtime, text |-> text[Indexer]]]
    /\ mtime' = 0
    /\ text' = [text EXCEPT ![Indexer] = NoText]
    /\ pc' = [pc EXCEPT ![Indexer] = "clear"]
    /\ UNCHANGED <<clock, disk, events, cache, target, failed>>

\* delete_file touches no cache entry of its own.
TakeDeleted(f) ==
    /\ pc[Indexer] = "idle"
    /\ Deleted(f) \in events
    /\ events' = events \ {Deleted(f)}
    /\ index' = [index EXCEPT ![f] = NoDocument]
    /\ pc' = [pc EXCEPT ![Indexer] = "clear"]
    /\ failed' = [failed EXCEPT ![f] = "none"]
    /\ UNCHANGED <<clock, disk, cache, target, text, mtime>>

\* add_file and delete_file give up, before they touch anything, when the file
\* system cannot say where the file is.
ResolveFails(f) ==
    /\ pc[Indexer] = "idle"
    /\ \E e \in events :
        /\ e = Deleted(f) \/ (e = Modified(f) /\ NotBefore(f))
        /\ events' = events \ {e}
    /\ failed' = [failed EXCEPT ![f] = "path"]
    /\ UNCHANGED <<clock, disk, cache, index, pc, target, text, mtime>>

ClearCache_Skipped ==
    /\ pc[Indexer] = "clear"
    /\ pc' = [pc EXCEPT ![Indexer] = "idle"]
    /\ UNCHANGED <<clock, disk, events, cache, index, target, text, mtime, failed>>

\* process_change clears the entire cache after any change.
ClearCache ==
    /\ pc[Indexer] = "clear"
    /\ cache' = [f \in Files |-> NotCached]
    /\ pc' = [pc EXCEPT ![Indexer] = "idle"]
    /\ UNCHANGED <<clock, disk, events, index, target, text, mtime, failed>>

-----------------------------------------------------------------------------

Take(f) == TakeModified(f) \/ TakeDeleted(f) \/ ResolveFails(f)

Load(t) == CacheHit(t) \/ CacheMiss(t) \/ ReadFails(t) \/ ReadText(t) \/ InsertText(t)

Next ==
    \/ \E f \in Files : WriteFile(f) \/ RemoveFile(f) \/ Evict(f)
    \/ \E f \in Files : Take(f)
    \/ \E r \in Readers, f \in Files : AskText(r, f)
    \/ \E t \in Tasks : Load(t)
    \/ StatFile \/ StatFails \/ PushDocument \/ ClearCache

Spec == Init /\ [][Next]_vars

\* The changes wait in a queue: the event loop takes each of them in the end,
\* and finishes what it does.
Fairness ==
    /\ \A f \in Files : SF_vars(Take(f))
    /\ WF_vars(Load(Indexer) \/ StatFile \/ StatFails \/ PushDocument \/ ClearCache)

FairSpec == Spec /\ Fairness

-----------------------------------------------------------------------------

\* Types of all variables.
TypeOK ==
    /\ clock \in 1 .. MaxClock
    /\ disk \in [Files -> 0 .. MaxClock]
    /\ events \subseteq {Modified(f) : f \in Files} \cup {Deleted(f) : f \in Files}
    /\ cache \in [Files -> 0 .. MaxClock]
    /\ index \in [Files -> [mtime : 0 .. MaxClock, text : 0 .. MaxClock]]
    /\ \A r \in Readers : pc[r] \in {"idle", "lookup", "read", "insert"}
    /\ pc[Indexer] \in {"idle", "lookup", "read", "insert", "stat", "push", "clear"}
    /\ target \in [Tasks -> Files]
    /\ text \in [Tasks -> 0 .. MaxClock]
    /\ mtime \in 0 .. MaxClock
    /\ failed \in [Files -> Failures]

\* No change waits and no load is under way.
Quiet ==
    /\ events = {}
    /\ \A t \in Tasks : pc[t] = "idle"

\* The last change of f failed and an error was logged, or its text was not
\* loaded and its document has no content: not that of an older text either.
Reported(f) ==
    \/ failed[f] \in {"path", "stat"}
    \/ failed[f] = "load" /\ index[f].text = NoText

\* Once every change has been processed, the indexed text of a file is the text
\* of the file, never an older one, unless a failure was reported: add_file
\* drops "any stale cached text before re-reading the file for indexing".
IndexFreshWhenQuiet ==
    Quiet => \A f \in Files : index[f].text = disk[f] \/ Reported(f)

\* Once every change has been processed, the cache serves the text of the file
\* or nothing: process_change clears the cache "to minimize stale-data errors".
\* Only a change whose path was not resolved leaves an older text behind.
CacheFreshWhenQuiet ==
    Quiet => \A f \in Files : cache[f] \in {NotCached, disk[f]} \/ failed[f] = "path"

\* A document with another text than the file and with the file's present time,
\* which no scan would find, is about to be replaced: a change of the file waits
\* or is in work; or a failure was reported.
StaleIsAnnounced ==
    \A f \in Files :
        disk[f] # 0 /\ index[f].mtime = disk[f] /\ index[f].text # disk[f] =>
            \/ \E e \in events : e.file = f
            \/ pc[Indexer] # "idle" /\ target[Indexer] = f
            \/ Reported(f)

\* A file that stops changing is in the end indexed with its last text, unless
\* a failure was reported.
EventuallyFresh ==
    \A f \in Files : \A v \in 0 .. MaxClock :
        <>[](disk[f] = v) => <>[](index[f].text = v \/ Reported(f))
=============================================================================
