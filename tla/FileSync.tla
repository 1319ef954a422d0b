------------------------------ MODULE FileSync ------------------------------
(***************************************************************************)
(* How the index follows the watched directory: the notify events of       *)
(* watch/mod.rs and their debouncing, the event loop of index/mod.rs, the  *)
(* start-up scan and the overflow rescan of index/scanner.rs, the writer   *)
(* they share, and the life of the process around them.                    *)
(*                                                                         *)
(* Data.  A file is a directory and a name; directories are one level      *)
(* deep below Root, and Hidden is the set of those whose name starts with  *)
(* a dot.  disk[p] is the modification time of p, 0 when there is no such  *)
(* file; every write takes a new tick, so a tick also names the contents.  *)
(* index[p] is the time stored with the document of p.                     *)
(*                                                                         *)
(* The writer is module IndexStore's: `staged` is what the index will be   *)
(* once every buffered change is committed.  One change is processed in    *)
(* one step here; IndexWriter and TextCache take that step apart.          *)
(***************************************************************************)
EXTENDS Naturals, Sequences, SequencesExt

CONSTANTS
    Root, Dirs, Hidden, Names,
    FileOps,    \* situations (see Situation) in which files are written or removed
    MoveOps,    \* situations in which files or directories are renamed
    DirOps,     \* situations in which directories are made or removed
    Faults,     \* subset of FaultKinds
    MaxClock,   \* bound: writes to files
    MaxOps      \* bound: file operations and faults together

FaultKinds ==
    { "crash",      \* the process dies and is started again
      "watcher",    \* the notify watcher reports an error
      "stat",       \* a file's metadata cannot be read, though it is there
      "scan",       \* a directory or the index cannot be read by a scan
      "commit" }    \* a commit fails: some buffered changes are lost

Situations == {"offline", "unwatched", "scanning", "watched", "dropped"}

ASSUME SyncAssumption ==
    /\ IsFiniteSet(Dirs \X Names)
    /\ Dirs \cap (Dirs \X Names) = {}
    /\ Root \in Dirs
    /\ Hidden \subseteq Dirs \ {Root}
    /\ FileOps \cup MoveOps \cup DirOps \subseteq Situations
    /\ Faults \subseteq FaultKinds
    /\ MaxClock \in Nat
    /\ MaxOps \in Nat

Files == Dirs \X Names
DirOf(p) == p[1]
InDir(d) == {p \in Files : DirOf(p) = d}

\* Paths that no event and no scan reports: those below a hidden directory.
Skipped(x) == x \in Files /\ DirOf(x) \in Hidden
Visible == {p \in Files : ~Skipped(p)}

\* The start-up scan runs in a task of its own, a rescan in the event loop.
Scans == {"startup", "rescan"}

VARIABLES
    clock, disk,
    dirs,       \* the directories that exist
    ops,        \* file operations and faults so far
    up,         \* does the process run?
    watching,   \* is a notify watcher registered?
    raw,        \* notify events the watcher task has not handled
    pending,    \* Debouncer.pending
    chan,       \* changes on their way to the event loop
    rescanning, \* is the event loop inside rescan_directory?
    scan,       \* scan[s]: how far scan s is
    sent,       \* sent[s]: changes found by s and not yet processed
    staged, index,
    degraded,   \* has a scan or a commit failed, in part or as a whole, since the
                \* process started?
    blind       \* has a scan since begun before buffered changes were committed?

fsVars == <<clock, disk, dirs>>
pipeVars == <<raw, pending, chan>>
scanVars == <<scan, sent>>
history == <<degraded, blind>>
vars == <<fsVars, ops, up, watching, pipeVars, rescanning, scanVars, staged, index,
          history>>

Nothing == [p \in Files |-> 0]
NoScan == [stage |-> "off", todo |-> {}, gone |-> {}, snapshot |-> Nothing]

Init ==
    /\ clock = 0
    /\ disk = Nothing
    /\ dirs \in {D \in SUBSET Dirs : Root \in D}
    /\ ops = 0
    /\ up = FALSE
    /\ watching = FALSE
    /\ raw = <<>>
    /\ pending = {}
    /\ chan = <<>>
    /\ rescanning = FALSE
    /\ scan = [s \in Scans |-> NoScan]
    /\ sent = [s \in Scans |-> <<>>]
    /\ staged = Nothing
    /\ index = Nothing
    /\ degraded = FALSE
    /\ blind = FALSE

-----------------------------------------------------------------------------
(* The file system and notify, which the program only watches.             *)

Scanning(s) == scan[s].stage \notin {"off", "failed"} \/ sent[s] # <<>>

\* What the program notices of a change that happens now; "dropped" is the
\* situation of a watched change whose events the kernel loses.
Situation ==
    IF ~up THEN "offline"
    ELSE IF ~watching THEN "unwatched"
    ELSE IF Scanning("startup") THEN "scanning"
    ELSE "watched"

Event(kind, x, y) == [kind |-> kind, path |-> x, to |-> y]
Overflow == Event("Overflow", Root, Root)
Error == Event("Error", Root, Root)

Happens(situations, events) ==
    /\ ops < MaxOps
    /\ ops' = ops + 1
    /\ \/ /\ Situation \in situations
          /\ raw' = IF watching THEN raw \o events ELSE raw
       \/ /\ Situation = "watched"
          /\ "dropped" \in situations
          /\ raw' = IF raw # <<>> /\ Last(raw) = Overflow THEN raw
                                                         ELSE Append(raw, Overflow)
    /\ UNCHANGED <<up, watching, pending, chan, rescanning, scanVars, staged, index,
                   history>>

WriteFile(p) ==
    /\ DirOf(p) \in dirs
    /\ clock < MaxClock
    /\ clock' = clock + 1
    /\ disk' = [disk EXCEPT ![p] = clock + 1]
    /\ Happens(FileOps, <<Event(IF disk[p] = 0 THEN "Create" ELSE "Modify", p, p)>>)
    /\ UNCHANGED dirs

RemoveFile(p) ==
    /\ disk[p] # 0
    /\ disk' = [disk EXCEPT ![p] = 0]
    /\ Happens(FileOps, <<Event("Remove", p, p)>>)
    /\ UNCHANGED <<clock, dirs>>

\* A rename inside the watched directory is reported three times.
Renamed(x, y) == <<Event("From", x, x), Event("To", y, y), Event("Both", x, y)>>

RenameFile(p, q) ==
    /\ p # q
    /\ disk[p] # 0
    /\ DirOf(q) \in dirs
    /\ disk' = [disk EXCEPT ![q] = disk[p], ![p] = 0]
    /\ Happens(MoveOps, Renamed(p, q))
    /\ UNCHANGED <<clock, dirs>>

RenameDir(d, e) ==
    /\ d \in dirs \ {Root}
    /\ e \in Dirs \ dirs
    /\ disk' = [p \in Files |-> IF DirOf(p) = e THEN disk[<<d, p[2]>>]
                                ELSE IF DirOf(p) = d THEN 0
                                ELSE disk[p]]
    /\ dirs' = (dirs \ {d}) \cup {e}
    /\ Happens(MoveOps, Renamed(d, e))
    /\ UNCHANGED clock

MakeDir(d) ==
    /\ d \notin dirs
    /\ dirs' = dirs \cup {d}
    /\ Happens(DirOps, <<Event("Create", d, d)>>)
    /\ UNCHANGED <<clock, disk>>

RemoveDir(d) ==
    /\ d \in dirs \ {Root}
    /\ \A p \in InDir(d) : disk[p] = 0
    /\ dirs' = dirs \ {d}
    /\ Happens(DirOps, <<Event("Remove", d, d)>>)
    /\ UNCHANGED <<clock, disk>>

FileSystem ==
    \/ \E p \in Files : WriteFile(p) \/ RemoveFile(p)
    \/ \E p, q \in Files : RenameFile(p, q)
    \/ \E d, e \in Dirs : RenameDir(d, e)
    \/ \E d \in Dirs : MakeDir(d) \/ RemoveDir(d)

-----------------------------------------------------------------------------
(* The watcher task: event_to_changes, process_event and the Debouncer.    *)

Change(kind, x) == [kind |-> kind, path |-> x]
Modifieds(files) == SetToSeq({Change("Modified", p) : p \in files})
Deleteds(files) == SetToSeq({Change("Deleted", p) : p \in files})

AddAsModified_NoFilter(x) ==
    {p \in (IF x \in Files THEN {x} ELSE InDir(x)) : disk[p] # 0}

\* add_as_modified: a file, or the files of a directory that is not hidden.
AddAsModified(x) ==
    {p \in (IF x \in Files THEN {x} ELSE InDir(x)) : disk[p] # 0 /\ ~Skipped(p)}

ModifiedBy(event) ==
    CASE event.kind \in {"Create", "To", "Both"} -> AddAsModified(event.to)
      [] event.kind = "Modify" -> {event.path} \cap AddAsModified(event.path)
      [] OTHER -> {}

\* Deletes and rescans are sent at once.  For the old path of a rename the
\* code sends both a Deleted and a DeletedDir: the one of the wrong kind
\* matches nothing, so one change stands for both.
ImmediateBy_NoRescan(event) ==
    IF event.kind \in {"Remove", "From", "Both"} /\ ~Skipped(event.path)
    THEN <<Change("Deleted", event.path)>>
    ELSE <<>>

ImmediateBy(event) ==
    CASE event.kind = "Overflow" -> <<Change("Rescan", Root)>>
      [] event.kind \in {"Remove", "From", "Both"} /\ ~Skipped(event.path) ->
            <<Change("Deleted", event.path)>>
      [] OTHER -> <<>>

\* A Modified waits in the debouncer.  One that waits already is refreshed, or
\* sent when its window has expired (module Debouncer has the clock).
HandleEvent ==
    /\ raw # <<>>
    /\ Head(raw) # Error
    /\ LET event == Head(raw) IN
       \E expired \in SUBSET (pending \cap ModifiedBy(event)) :
          /\ chan' = chan \o ImmediateBy(event) \o Modifieds(expired)
          /\ pending' = (pending \cup ModifiedBy(event)) \ expired
    /\ raw' = Tail(raw)
    /\ UNCHANGED <<fsVars, ops, up, watching, rescanning, scanVars, staged, index,
                   history>>

\* A tick of the watcher task finds p's window expired.
Expire(p) ==
    /\ p \in pending
    /\ chan' = Append(chan, Change("Modified", p))
    /\ pending' = pending \ {p}
    /\ UNCHANGED <<fsVars, ops, up, watching, raw, rescanning, scanVars, staged, index,
                   history>>

HandleError_NoFlush ==
    /\ raw # <<>>
    /\ Head(raw) = Error
    /\ pending' = {}
    /\ raw' = Tail(raw)
    /\ UNCHANGED <<fsVars, ops, up, watching, chan, rescanning, scanVars, staged, index,
                   history>>

\* The notify error ends the watcher task, with a last flush of the debouncer.
HandleError ==
    /\ raw # <<>>
    /\ Head(raw) = Error
    /\ chan' = chan \o Modifieds(pending)
    /\ pending' = {}
    /\ raw' = Tail(raw)
    /\ UNCHANGED <<fsVars, ops, up, watching, rescanning, scanVars, staged, index,
                   history>>

-----------------------------------------------------------------------------
(* process_change, on the writer.                                          *)

\* canonical_relative_path of a path that may have gone: its parent must be
\* there.  The parent of a directory is Root.
Resolvable(x) == x \in Dirs \/ DirOf(x) \in dirs

Keys_FilesOnly(x) == IF x \in Files THEN {x} ELSE {}

\* What a delete of x removes: the document x, or those with the prefix "x/".
Keys(x) == IF x \in Files THEN {x} ELSE InDir(x)

Process(change) ==
    staged' =
        IF change.kind = "Modified" /\ disk[change.path] # 0
        THEN [staged EXCEPT ![change.path] = disk[change.path]]
        ELSE IF change.kind = "Deleted" /\ Resolvable(change.path)
        THEN [p \in Files |-> IF p \in Keys(change.path) THEN 0 ELSE staged[p]]
        ELSE staged

TakeChange ==
    /\ ~rescanning
    /\ chan # <<>>
    /\ chan' = Tail(chan)
    /\ Process(Head(chan))
    /\ IF Head(chan).kind = "Rescan"
       THEN /\ rescanning' = TRUE
            /\ scan' = [scan EXCEPT !["rescan"].stage = "begin"]
       ELSE UNCHANGED <<rescanning, scan>>
    /\ UNCHANGED <<fsVars, ops, up, watching, raw, pending, sent, index, history>>

\* The changes found are committed, unless the scan has failed, and the event
\* loop goes on.
EndRescan ==
    /\ rescanning
    /\ ~Scanning("rescan")
    /\ rescanning' = FALSE
    /\ index' = IF scan["rescan"].stage = "failed" THEN index ELSE staged
    /\ scan' = [scan EXCEPT !["rescan"] = NoScan]
    /\ UNCHANGED <<fsVars, ops, up, watching, pipeVars, sent, staged, history>>

\* The start-up scan drains its channel beside the event loop, a rescan inside.
Drain(s) ==
    /\ sent[s] # <<>>
    /\ sent' = [sent EXCEPT ![s] = Tail(@)]
    /\ Process(Head(sent[s]))
    /\ UNCHANGED <<fsVars, ops, up, watching, pipeVars, rescanning, scan, index, history>>

-----------------------------------------------------------------------------
(* scan_directory.                                                         *)

\* The scan reads the index as it is committed when it begins.
BeginScan(s) ==
    /\ scan[s].stage = "begin"
    /\ scan' = [scan EXCEPT ![s] =
                  [stage |-> "detect", todo |-> {p \in Files : index[p] # 0},
                   gone |-> {}, snapshot |-> index]]
    /\ blind' = (blind \/ staged # index)
    /\ UNCHANGED <<fsVars, ops, up, watching, pipeVars, rescanning, sent, staged, index,
                   degraded>>

Visit(s, p) == scan[s].stage = "detect" /\ p \in scan[s].todo

DetectDeletion(s, p) ==
    /\ Visit(s, p)
    /\ scan' = [scan EXCEPT ![s].todo = @ \ {p},
                            ![s].gone = IF disk[p] = 0 THEN @ \cup {p} ELSE @]
    /\ UNCHANGED <<fsVars, ops, up, watching, pipeVars, rescanning, sent, staged, index,
                   history>>

Unverified_IsGone(s, p) ==
    /\ "stat" \in Faults
    /\ ops < MaxOps
    /\ Visit(s, p)
    /\ scan' = [scan EXCEPT ![s].todo = @ \ {p}, ![s].gone = @ \cup {p}]
    /\ degraded' = TRUE
    /\ UNCHANGED blind
    /\ ops' = ops + 1
    /\ UNCHANGED <<fsVars, up, watching, pipeVars, rescanning, sent, staged, index>>

\* Only a NotFound proves a deletion: after any other error the path is kept,
\* for a later scan.
Unverified(s, p) ==
    /\ "stat" \in Faults
    /\ ops < MaxOps
    /\ Visit(s, p)
    /\ scan' = [scan EXCEPT ![s].todo = @ \ {p}]
    /\ degraded' = TRUE
    /\ UNCHANGED blind
    /\ ops' = ops + 1
    /\ UNCHANGED <<fsVars, up, watching, pipeVars, rescanning, sent, staged, index>>

\* The deletions are sent first, then the walk looks at every visible file.
BeginWalk(s) ==
    /\ scan[s].stage = "detect"
    /\ scan[s].todo = {}
    /\ sent' = [sent EXCEPT ![s] = @ \o Deleteds(scan[s].gone)]
    /\ scan' = [scan EXCEPT ![s].stage = "walk", ![s].todo = Visible, ![s].gone = {}]
    /\ UNCHANGED <<fsVars, ops, up, watching, pipeVars, rescanning, staged, index,
                   history>>

\* needs_indexing: not indexed, or a strictly newer file.
NeedsIndexing(s, p) == scan[s].snapshot[p] = 0 \/ disk[p] > scan[s].snapshot[p]

\* The walk finds p, which it may be unable to stat (then it re-indexes it).
WalkFile(s, p) ==
    /\ scan[s].stage = "walk"
    /\ p \in scan[s].todo
    /\ scan' = [scan EXCEPT ![s].todo = @ \ {p}]
    /\ \/ /\ disk[p] # 0
          /\ NeedsIndexing(s, p) \/ "stat" \in Faults
          /\ sent' = [sent EXCEPT ![s] = Append(@, Change("Modified", p))]
       \/ /\ disk[p] = 0 \/ ~NeedsIndexing(s, p)
          /\ UNCHANGED sent
    /\ UNCHANGED <<fsVars, ops, up, watching, pipeVars, rescanning, staged, index,
                   history>>

EndScan(s) ==
    /\ scan[s].stage = "walk"
    /\ scan[s].todo = {}
    /\ scan' = [scan EXCEPT ![s] = NoScan]
    /\ UNCHANGED <<fsVars, ops, up, watching, pipeVars, rescanning, sent, staged, index,
                   history>>

\* What the scan has sent stays sent.
ScanFails(s) ==
    /\ "scan" \in Faults
    /\ ops < MaxOps
    /\ scan[s].stage \notin {"off", "failed"}
    /\ scan' = [scan EXCEPT ![s] = [NoScan EXCEPT !.stage = "failed"]]
    /\ degraded' = TRUE
    /\ UNCHANGED blind
    /\ ops' = ops + 1
    /\ UNCHANGED <<fsVars, up, watching, pipeVars, rescanning, sent, staged, index>>

-----------------------------------------------------------------------------
(* The writer, the watcher's registration and the process.                 *)

Commit_NoTimer ==
    /\ Scanning("startup")
    /\ index # staged
    /\ index' = staged
    /\ UNCHANGED <<fsVars, ops, up, watching, pipeVars, rescanning, scanVars, staged,
                   history>>

\* The commit timer, a full batch, the end of the start-up scan.
Commit ==
    /\ index # staged
    /\ index' = staged
    /\ UNCHANGED <<fsVars, ops, up, watching, pipeVars, rescanning, scanVars, staged,
                   history>>

\* The documents of a failed commit are lost; their deletes are retried or, if
\* the retries are used up or the task has panicked, lost too.
CommitFails ==
    /\ "commit" \in Faults
    /\ ops < MaxOps
    /\ index # staged
    /\ \E retried \in SUBSET {p \in Files : index[p] # staged[p]} :
          staged' = [p \in Files |-> IF p \in retried THEN 0 ELSE index[p]]
    /\ degraded' = TRUE
    /\ UNCHANGED blind
    /\ ops' = ops + 1
    /\ UNCHANGED <<fsVars, up, watching, pipeVars, rescanning, scanVars, index>>

\* spawn_watcher, first of all and after a watcher has failed: the supervisor
\* starts the next one when the event loop has drained the last one's changes.
Register ==
    /\ up
    /\ ~watching
    /\ raw = <<>> /\ pending = {} /\ chan = <<>> /\ ~rescanning
    /\ watching' = TRUE
    /\ UNCHANGED <<fsVars, ops, up, pipeVars, rescanning, scanVars, staged, index,
                   history>>

WatcherFails ==
    /\ "watcher" \in Faults
    /\ ops < MaxOps
    /\ watching
    /\ watching' = FALSE
    /\ raw' = Append(raw, Error)
    /\ ops' = ops + 1
    /\ UNCHANGED <<fsVars, up, pending, chan, rescanning, scanVars, staged, index,
                   history>>

\* The start-up scan is spawned before the watcher.
Start ==
    /\ ~up
    /\ up' = TRUE
    /\ scan' = [scan EXCEPT !["startup"].stage = "begin"]
    /\ UNCHANGED <<fsVars, ops, watching, pipeVars, rescanning, sent, staged, index,
                   history>>

Crash ==
    /\ "crash" \in Faults
    /\ ops < MaxOps
    /\ up
    /\ up' = FALSE
    /\ watching' = FALSE
    /\ raw' = <<>> /\ pending' = {} /\ chan' = <<>>
    /\ rescanning' = FALSE
    /\ scan' = [s \in Scans |-> NoScan]
    /\ sent' = [s \in Scans |-> <<>>]
    /\ staged' = index
    /\ degraded' = FALSE
    /\ blind' = FALSE
    /\ ops' = ops + 1
    /\ UNCHANGED <<fsVars, index>>

-----------------------------------------------------------------------------

Watch == HandleEvent \/ HandleError \/ \E p \in Files : Expire(p)

ScanStep(s) ==
    \/ BeginScan(s) \/ BeginWalk(s) \/ EndScan(s)
    \/ \E p \in Files : DetectDeletion(s, p) \/ WalkFile(s, p)

Fault ==
    \/ CommitFails \/ WatcherFails \/ Crash
    \/ \E s \in Scans : ScanFails(s) \/ \E p \in Files : Unverified(s, p)

Next ==
    \/ FileSystem
    \/ Watch \/ TakeChange \/ EndRescan
    \/ \E s \in Scans : ScanStep(s) \/ Drain(s)
    \/ Commit \/ Register \/ Start
    \/ Fault

Spec == Init /\ [][Next]_vars

\* Every task of the program keeps running, and the process is started again.
Fairness ==
    /\ WF_vars(Watch)
    /\ WF_vars(TakeChange)
    /\ WF_vars(EndRescan)
    /\ \A s \in Scans : WF_vars(ScanStep(s)) /\ WF_vars(Drain(s))
    /\ WF_vars(Commit)
    /\ WF_vars(Register)
    /\ WF_vars(Start)

FairSpec == Spec /\ Fairness

-----------------------------------------------------------------------------

\* Types of all variables.  No change of a skipped path enters the program.
Changes == [kind : {"Modified"}, path : Visible]
           \cup [kind : {"Deleted"}, path : Files \cup Dirs]
           \cup [kind : {"Rescan"}, path : {Root}]

TypeOK ==
    /\ clock \in 0 .. MaxClock
    /\ disk \in [Files -> 0 .. MaxClock]
    /\ dirs \in SUBSET Dirs
    /\ ops \in 0 .. MaxOps
    /\ {up, watching, rescanning, degraded, blind} \subseteq BOOLEAN
    /\ \A i \in DOMAIN raw :
          /\ raw[i].kind \in {"Create", "Modify", "Remove", "From", "To", "Both",
                              "Overflow", "Error"}
          /\ {raw[i].path, raw[i].to} \subseteq Files \cup Dirs
    /\ pending \subseteq Visible
    /\ \A i \in DOMAIN chan : chan[i] \in Changes
    /\ \A s \in Scans :
          /\ scan[s].stage \in {"off", "begin", "detect", "walk", "failed"}
          /\ scan[s].todo \cup scan[s].gone \subseteq Files
          /\ scan[s].snapshot \in [Files -> 0 .. MaxClock]
          /\ \A i \in DOMAIN sent[s] : sent[s][i] \in Changes
    /\ staged \in [Files -> 0 .. MaxClock]
    /\ index \in [Files -> 0 .. MaxClock]

\* Nothing is on its way to the writer.
Quiet ==
    /\ up
    /\ watching
    /\ raw = <<>> /\ pending = {} /\ chan = <<>>
    /\ ~rescanning
    /\ \A s \in Scans : ~Scanning(s)

\* Every file that a scan or an event may report is indexed as it is on disk.
Fresh(documents) == \A p \in Visible : disk[p] # 0 => documents[p] = disk[p]

\* Every document is of a file that is there, below no hidden directory.
NoneLeft(documents) == \A p \in Files : documents[p] # 0 => disk[p] # 0 /\ ~Skipped(p)

\* Once every event has been handled and every scan has ended, every file is
\* indexed as it is on disk (or will be, at the next commit), whatever was
\* written, removed or renamed, lost in an overflow or a crash meanwhile, and in
\* whatever order the debounced, the immediate and the scanned changes came.
FreshWhenQuiet == Quiet /\ ~degraded /\ ~blind => Fresh(staged)

\* Then, too, no document is left of a file that was removed, renamed or moved
\* below a hidden directory: the deletes, which name paths that are gone, were
\* resolved, and none was overtaken by an older debounced Modified.
NoGhosts == Quiet /\ ~degraded /\ ~blind => NoneLeft(staged)

\* A scan never takes a file that is on disk out of the index: a transient
\* filesystem failure "can never wipe the index", and what a rescan found
\* deleted is not applied to a file that came back and was indexed since.
ScansDoNoHarm ==
    [][\A s \in Scans : up' /\ sent[s] # <<>> /\ sent'[s] = Tail(sent[s]) =>
          \A p \in Files : staged[p] = disk[p] => staged'[p] = disk[p]]_vars

\* The same of a rescan that begins while changes are buffered.
RescanRecovers == Quiet /\ ~degraded => Fresh(staged)

\* Again and again, in every session without a failed scan or commit, the index
\* on disk is that of the files: changes are not just handled but committed.
EventuallyFresh == []<>(degraded \/ blind \/ Fresh(index))

=============================================================================
