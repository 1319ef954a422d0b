--------------------------- MODULE FileSyncProofs ---------------------------
(***************************************************************************)
(* Proofs about FileSync for any directories, names and bounds: a scan     *)
(* takes no file that is there out of the index, and once everything has   *)
(* been handled the index is that of the files.                            *)
(***************************************************************************)
EXTENDS FileSync, FiniteSetTheorems, SequenceTheorems, TLAPS

Paths == Files \cup Dirs

Events == [kind : {"Create", "Modify", "Remove", "From", "To", "Both",
                   "Overflow", "Error"},
           path : Paths, to : Paths]

ScanRecords == [stage : {"off", "begin", "detect", "walk", "failed"},
                todo : SUBSET Files, gone : SUBSET Files,
                snapshot : [Files -> 0 .. MaxClock]]

\* The walk skips what is hidden.
ScanStates == {r \in ScanRecords : r.stage = "walk" => r.todo \subseteq Visible}

Types ==
    /\ clock \in 0 .. MaxClock
    /\ disk \in [Files -> 0 .. MaxClock]
    /\ dirs \in SUBSET Dirs
    /\ ops \in 0 .. MaxOps
    /\ up \in BOOLEAN /\ watching \in BOOLEAN /\ rescanning \in BOOLEAN
    /\ degraded \in BOOLEAN /\ blind \in BOOLEAN
    /\ raw \in Seq(Events)
    /\ pending \in SUBSET Visible
    /\ chan \in Seq(Changes)
    /\ scan \in [Scans -> ScanStates]
    /\ sent \in [Scans -> Seq(Changes)]
    /\ staged \in [Files -> 0 .. MaxClock]
    /\ index \in [Files -> 0 .. MaxClock]

(* How the parts of the program exclude each other.                        *)

\* Nothing that happened before the start of the process is left in it.
StoppedIsEmpty ==
    ~up => /\ ~watching /\ ~rescanning
           /\ raw = <<>> /\ pending = {} /\ chan = <<>>
           /\ \A s \in Scans : scan[s] = NoScan /\ sent[s] = <<>>
           /\ staged = index

\* What a scan has not begun, has ended or has left behind holds no files.
ScanShape ==
    /\ \A s \in Scans :
          /\ scan[s].stage \in {"off", "begin", "failed"} => scan[s].todo = {}
          /\ scan[s].stage # "detect" => scan[s].gone = {}
    /\ ~rescanning => scan["rescan"] = NoScan /\ sent["rescan"] = <<>>

\* During the start-up scan no file changes, so that nothing is reported.
StartupIsAlone ==
    Scanning("startup") =>
       /\ \A i \in DOMAIN raw : raw[i] = Error
       /\ pending = {} /\ chan = <<>> /\ ~rescanning

Shape == StoppedIsEmpty /\ ScanShape /\ StartupIsAlone

InPast == \A p \in Files : disk[p] <= clock /\ staged[p] <= clock /\ index[p] <= clock

BaseInv == Types /\ Shape /\ InPast

\* The situations whose changes are reported by an event, lost in an overflow that
\* is reported, or left to the start-up scan.
NoticedSituations == {"offline", "watched", "dropped"}
AllNoticed == FileOps \cup MoveOps \cup DirOps \subseteq NoticedSituations

\* The files that scan s has found, or will find, to be gone.
Doomed(s, p) ==
    \/ p \in scan[s].gone
    \/ \E i \in DOMAIN sent[s] : sent[s][i] = Change("Deleted", p)

-----------------------------------------------------------------------------
(* Scans do no harm.                                                       *)

\* No file moves while the program runs: one that moves back to where a scan has
\* missed it has the time of its document.
NoMoves == AllNoticed /\ MoveOps \subseteq {"offline"}

\* What a scan has found to be gone is gone, or is a newer file of which no
\* document is on its way.
DoomedIsOld ==
    \A s \in Scans, p \in Files : Doomed(s, p) /\ disk[p] # 0 =>
       s = "rescan" /\ staged[p] # disk[p] /\ index[p] # disk[p]

\* A scan sends its deletes before its updates, and those when it has decided all
\* deletes.
DeletesThenUpdates(q, stage) ==
    /\ \A i \in DOMAIN q :
          /\ q[i].kind \in {"Deleted", "Modified"} /\ q[i].path \in Files
          /\ stage \in {"begin", "detect"} => q[i].kind = "Deleted"
    /\ \A i, j \in DOMAIN q : i <= j /\ q[j].kind = "Deleted" => q[i].kind = "Deleted"

DeletesFirst ==
    \A s \in Scans : DeletesThenUpdates(sent[s], scan[s].stage)

HarmInv == BaseInv /\ DoomedIsOld /\ DeletesFirst

-----------------------------------------------------------------------------
(* The index follows the files.                                            *)

\* A scan finds files by their time and removes documents only from directories
\* that are there, so that of moves only the events tell: none may be lost, and
\* none may precede the start-up scan of an index that holds documents.
Noticed ==
    /\ AllNoticed
    /\ "dropped" \notin MoveOps \cup DirOps
    /\ "crash" \in Faults => MoveOps \cup DirOps = {}

Removes(e, p) == e.kind \in {"Remove", "From", "Both"} /\ p \in Keys(e.path)
Reports(e, p) == \/ e.kind \in {"Create", "To", "Both"} /\ p \in Keys(e.to)
                 \/ e.kind = "Modify" /\ p = e.path
Deletes(c, p) == c.kind = "Deleted" /\ p \in Keys(c.path)

Reported(p) ==
    \/ p \in pending
    \/ \E i \in DOMAIN chan : chan[i] = Change("Modified", p)
    \/ \E i \in DOMAIN raw : Reports(raw[i], p)

LossNoted ==
    \/ \E i \in DOMAIN chan : chan[i] = Change("Rescan", Root)
    \/ \E i \in DOMAIN raw : raw[i] = Overflow

Newer(p) == staged[p] = 0 \/ disk[p] > staged[p]

\* Scan s will send an update of p.
Finds(s, p) ==
    \/ scan[s].stage = "begin" /\ Newer(p)
    \/ scan[s].stage = "detect" /\ NeedsIndexing(s, p)
    \/ scan[s].stage = "walk" /\ p \in scan[s].todo /\ NeedsIndexing(s, p)
    \/ \E i \in DOMAIN sent[s] : sent[s][i] = Change("Modified", p)

\* Scan s will send a delete of p.
FindsGone(s, p) ==
    \/ scan[s].stage = "begin"
    \/ scan[s].stage = "detect" /\ p \in scan[s].todo
    \/ Doomed(s, p)

\* A file that is not indexed as it is on disk is on its way.
StaleIsCovered ==
    \A p \in Visible : disk[p] # 0 /\ staged[p] # disk[p] =>
       \/ Reported(p)
       \/ LossNoted /\ Newer(p)
       \/ \E s \in Scans : Finds(s, p)

\* A delete that is on its way and comes too late is followed by an update.
LateInChan ==
    \A p \in Visible : disk[p] # 0 =>
       \A i \in DOMAIN chan : Deletes(chan[i], p) =>
          \/ \E j \in DOMAIN chan :
                j > i /\ chan[j] \in {Change("Modified", p), Change("Rescan", Root)}
          \/ p \in pending
          \/ \E j \in DOMAIN raw : raw[j] = Overflow \/ Reports(raw[j], p)

LateInRaw ==
    \A p \in Visible : disk[p] # 0 =>
       \A i \in DOMAIN raw : Removes(raw[i], p) =>
          \E j \in DOMAIN raw : j >= i /\ (raw[j] = Overflow \/ Reports(raw[j], p))

LateInScan ==
    \A p \in Visible, s \in Scans : disk[p] # 0 /\ Doomed(s, p) => Reported(p) \/ LossNoted

DirGone(d) ==
    \/ \E i \in DOMAIN chan : chan[i] = Change("Deleted", d)
    \/ \E i \in DOMAIN raw :
          raw[i].kind \in {"Remove", "From", "Both"} /\ raw[i].path = d

FileGone(p) ==
    \/ \E i \in DOMAIN chan : chan[i] = Change("Deleted", p)
    \/ \E i \in DOMAIN raw :
          raw[i].kind \in {"Remove", "From", "Both"} /\ raw[i].path = p

\* The document of a file that is gone is going to be deleted: with its directory,
\* or, as long as that is there, by itself.
GhostIsCovered ==
    \A p \in Files : disk[p] = 0 /\ staged[p] # 0 =>
       \/ DirGone(DirOf(p))
       \/ /\ DirOf(p) \in dirs
          /\ FileGone(p) \/ LossNoted \/ \E s \in Scans : FindsGone(s, p)

Covered == StaleIsCovered /\ LateInChan /\ LateInRaw /\ LateInScan /\ GhostIsCovered

FilesHaveDirs == \A p \in Files : disk[p] # 0 => DirOf(p) \in dirs
OnlyVisible == \A p \in Files : staged[p] # 0 \/ index[p] # 0 => p \in Visible

\* What is left of a document when the process stops, the next start-up scan can
\* find: by its time, in a directory that is there.
InPlace ==
    \A p \in Files :
       /\ disk[p] # 0 => index[p] <= disk[p] /\ staged[p] <= disk[p]
       /\ index[p] # 0 \/ staged[p] # 0 => DirOf(p) \in dirs

Recoverable ==
    /\ "crash" \in Faults => InPlace
    /\ "crash" \notin Faults /\ ~up => index = Nothing

SyncInv ==
    /\ BaseInv /\ DeletesFirst
    /\ FilesHaveDirs /\ OnlyVisible /\ Recoverable
    /\ up /\ ~degraded /\ ~blind => Covered

-----------------------------------------------------------------------------
(* The sequences that the model makes of sets.                             *)

LEMMA SeqOfSet ==
    ASSUME NEW S, IsFiniteSet(S)
    PROVE  /\ SetToSeq(S) \in Seq(S)
           /\ \A x \in S : \E i \in DOMAIN SetToSeq(S) : SetToSeq(S)[i] = x
<1> DEFINE n == Cardinality(S)
           f == SetToSeq(S)
<1>1. n \in Nat /\ ExistsBijection(1..n, S)
    BY FS_CardinalityType
<1>2. \E g \in [1..n -> S] : IsInjective(g)
    BY <1>1, Zenon DEF ExistsBijection, Bijection, Injection
<1>3. f \in [1..n -> S] /\ IsInjective(f)
    BY <1>2, Zenon DEF SetToSeq
<1>4. f \in Injection(1..n, S)
    BY <1>3, Zenon DEF Injection
<1>5. Cardinality(1..n) = n
    BY <1>1, FS_Interval, Z3
<1>6. f \in Surjection(1..n, S)
    BY <1>4, <1>5, FS_Injection, Zenon
<1>7. f \in Seq(S)
    BY <1>1, <1>3, SeqDef
<1>8. \A x \in S : \E i \in DOMAIN f : f[i] = x
    BY <1>3, <1>6, Zenon DEF Surjection
<1> QED BY <1>7, <1>8

LEMMA ChangesFinite ==
    ASSUME NEW k, NEW S \in SUBSET Files
    PROVE  IsFiniteSet({Change(k, p) : p \in S})
<1> DEFINE T == {Change(k, p) : p \in S}
           f == [p \in S |-> Change(k, p)]
<1>1. IsFiniteSet(S)
    BY SyncAssumption, FS_Subset DEF Files
<1>2. f \in Surjection(S, T)
    BY Zenon DEF Surjection
<1> QED BY <1>1, <1>2, FS_Surjection, Zenon

LEMMA ModifiedsSeq ==
    ASSUME NEW S \in SUBSET Files
    PROVE  /\ Modifieds(S) \in Seq([kind : {"Modified"}, path : S])
           /\ \A p \in S : \E i \in DOMAIN Modifieds(S) : Modifieds(S)[i] = Change("Modified", p)
<1> DEFINE T == {Change("Modified", p) : p \in S}
<1>1. T \subseteq [kind : {"Modified"}, path : S]
    BY SMT DEF Change
<1>2. IsFiniteSet(T)
    BY ChangesFinite, Zenon
<1>3. \A p \in S : Change("Modified", p) \in T
    OBVIOUS
<1>4. Modifieds(S) = SetToSeq(T)
    BY DEF Modifieds
<1> HIDE DEF T
<1>5. /\ SetToSeq(T) \in Seq(T)
      /\ \A x \in T : \E i \in DOMAIN SetToSeq(T) : SetToSeq(T)[i] = x
    BY <1>2, SeqOfSet
<1>6. SetToSeq(T) \in Seq([kind : {"Modified"}, path : S])
    BY <1>1, <1>5, SeqMonotonic
<1>7. \A p \in S : \E i \in DOMAIN SetToSeq(T) : SetToSeq(T)[i] = Change("Modified", p)
    BY <1>3, <1>5, Zenon
<1> QED BY <1>4, <1>6, <1>7, Zenon

LEMMA DeletedsSeq ==
    ASSUME NEW S \in SUBSET Files
    PROVE  /\ Deleteds(S) \in Seq([kind : {"Deleted"}, path : S])
           /\ \A p \in S : \E i \in DOMAIN Deleteds(S) : Deleteds(S)[i] = Change("Deleted", p)
<1> DEFINE T == {Change("Deleted", p) : p \in S}
<1>1. T \subseteq [kind : {"Deleted"}, path : S]
    BY SMT DEF Change
<1>2. IsFiniteSet(T)
    BY ChangesFinite, Zenon
<1>3. \A p \in S : Change("Deleted", p) \in T
    OBVIOUS
<1>4. Deleteds(S) = SetToSeq(T)
    BY DEF Deleteds
<1> HIDE DEF T
<1>5. /\ SetToSeq(T) \in Seq(T)
      /\ \A x \in T : \E i \in DOMAIN SetToSeq(T) : SetToSeq(T)[i] = x
    BY <1>2, SeqOfSet
<1>6. SetToSeq(T) \in Seq([kind : {"Deleted"}, path : S])
    BY <1>1, <1>5, SeqMonotonic
<1>7. \A p \in S : \E i \in DOMAIN SetToSeq(T) : SetToSeq(T)[i] = Change("Deleted", p)
    BY <1>3, <1>5, Zenon
<1> QED BY <1>4, <1>6, <1>7, Zenon

-----------------------------------------------------------------------------
(* Types.                                                                  *)

LEMMA ChangeTypes ==
    /\ \A p \in Visible : Change("Modified", p) \in Changes
    /\ \A x \in Files \cup Dirs : Change("Deleted", x) \in Changes
    /\ Change("Rescan", Root) \in Changes
    /\ \A S \in SUBSET Visible : Modifieds(S) \in Seq(Changes)
    /\ \A S \in SUBSET Files : Deleteds(S) \in Seq(Changes)
<1>1. \A p \in Visible : Change("Modified", p) \in Changes
    BY DEF Change, Changes
<1>2. \A x \in Files \cup Dirs : Change("Deleted", x) \in Changes
    BY DEF Change, Changes
<1>3. Change("Rescan", Root) \in Changes
    BY DEF Change, Changes
<1>4. ASSUME NEW S \in SUBSET Visible PROVE Modifieds(S) \in Seq(Changes)
    <2>1. S \in SUBSET Files
        BY DEF Visible
    <2>2. [kind : {"Modified"}, path : S] \subseteq Changes
        BY DEF Changes
    <2> QED BY <2>1, <2>2, ModifiedsSeq, SeqMonotonic
<1>5. ASSUME NEW S \in SUBSET Files PROVE Deleteds(S) \in Seq(Changes)
    <2>1. [kind : {"Deleted"}, path : S] \subseteq Changes
        BY DEF Changes
    <2> QED BY <2>1, DeletedsSeq, SeqMonotonic
<1> QED BY <1>1, <1>2, <1>3, <1>4, <1>5

LEMMA EventTypes ==
    /\ \A x, y \in Paths : Renamed(x, y) \in Seq(Events)
    /\ Overflow \in Events /\ Error \in Events
<1>1. ASSUME NEW k \in {"Create", "Modify", "Remove", "From", "To", "Both",
                        "Overflow", "Error"},
             NEW x \in Paths, NEW y \in Paths
      PROVE  Event(k, x, y) \in Events
    BY DEF Event, Events
<1>2. Root \in Paths
    BY SyncAssumption DEF Paths
<1> QED BY <1>1, <1>2 DEF Renamed, Overflow, Error

LEMMA NoScanType == NoScan \in ScanStates
<1>1. Nothing \in [Files -> 0 .. MaxClock]
    BY SyncAssumption DEF Nothing
<1> QED BY <1>1 DEF NoScan, ScanStates, ScanRecords

LEMMA TypesInit == Init => Types
<1> SUFFICES ASSUME Init PROVE Types
    OBVIOUS
<1>1. Nothing \in [Files -> 0 .. MaxClock]
    BY SyncAssumption DEF Nothing
<1>2. scan \in [Scans -> ScanStates]
    BY NoScanType DEF Init
<1>3. sent \in [Scans -> Seq(Changes)]
    BY EmptySeq DEF Init
<1>4. raw \in Seq(Events) /\ chan \in Seq(Changes)
    BY EmptySeq DEF Init
<1>5. /\ clock \in 0 .. MaxClock /\ ops \in 0 .. MaxOps /\ dirs \in SUBSET Dirs
      /\ disk \in [Files -> 0 .. MaxClock]
      /\ staged \in [Files -> 0 .. MaxClock] /\ index \in [Files -> 0 .. MaxClock]
    BY <1>1, SyncAssumption DEF Init
<1>6. /\ up \in BOOLEAN /\ watching \in BOOLEAN /\ rescanning \in BOOLEAN
      /\ degraded \in BOOLEAN /\ blind \in BOOLEAN /\ pending \in SUBSET Visible
    BY DEF Init
<1> QED BY <1>2, <1>3, <1>4, <1>5, <1>6 DEF Types

\* The variables that a file operation leaves alone.
LEMMA HappensTypes ==
    ASSUME Types, NEW S, NEW events \in Seq(Events), Happens(S, events),
           clock' \in 0 .. MaxClock, disk' \in [Files -> 0 .. MaxClock],
           dirs' \in SUBSET Dirs
    PROVE  Types'
<1>1. ops' \in 0 .. MaxOps
    BY SyncAssumption DEF Types, Happens
<1>2. raw' \in Seq(Events)
    <2>1. raw \o events \in Seq(Events) /\ Append(raw, Overflow) \in Seq(Events)
        BY EventTypes, ConcatProperties, AppendProperties DEF Types
    <2> QED BY <2>1 DEF Happens, Types
<1> QED BY <1>1, <1>2 DEF Types, Happens, scanVars, history

LEMMA FileSystemTypes == Types /\ FileSystem => Types'
<1> SUFFICES ASSUME Types, FileSystem PROVE Types'
    OBVIOUS
<1>0. Files \subseteq Paths /\ Dirs \subseteq Paths
    BY DEF Paths
<1>1. ASSUME NEW k \in {"Create", "Modify", "Remove"}, NEW x \in Paths
      PROVE  <<Event(k, x, x)>> \in Seq(Events)
    BY DEF Event, Events
<1>2. ASSUME NEW p \in Files, WriteFile(p) PROVE Types'
    <2>1. clock' \in 0 .. MaxClock /\ disk' \in [Files -> 0 .. MaxClock]
        BY <1>2, SyncAssumption DEF WriteFile, Types
    <2>2. <<Event(IF disk[p] = 0 THEN "Create" ELSE "Modify", p, p)>> \in Seq(Events)
        BY <1>0, <1>1
    <2> QED BY <1>2, <2>1, <2>2, HappensTypes DEF WriteFile, Types
<1>3. ASSUME NEW p \in Files, RemoveFile(p) PROVE Types'
    <2>1. disk' \in [Files -> 0 .. MaxClock]
        BY <1>3, SyncAssumption DEF RemoveFile, Types
    <2>2. <<Event("Remove", p, p)>> \in Seq(Events)
        BY <1>0, <1>1
    <2> QED BY <1>3, <2>1, <2>2, HappensTypes DEF RemoveFile, Types
<1>4. ASSUME NEW p \in Files, NEW q \in Files, RenameFile(p, q) PROVE Types'
    <2>1. disk' \in [Files -> 0 .. MaxClock]
        <3>1. disk[p] \in 0 .. MaxClock /\ 0 \in 0 .. MaxClock
            BY SyncAssumption DEF Types
        <3>2. disk' = [[disk EXCEPT ![q] = disk[p]] EXCEPT ![p] = 0]
            BY <1>4 DEF RenameFile
        <3> QED BY <3>1, <3>2 DEF Types
    <2>2. Renamed(p, q) \in Seq(Events)
        BY <1>0, EventTypes
    <2> QED BY <1>4, <2>1, <2>2, HappensTypes DEF RenameFile, Types
<1>5. ASSUME NEW d \in Dirs, NEW e \in Dirs, RenameDir(d, e) PROVE Types'
    <2>1. \A p \in Files : <<d, p[2]>> \in Files
        BY DEF Files
    <2>2. disk' \in [Files -> 0 .. MaxClock]
        BY <1>5, <2>1, SyncAssumption DEF RenameDir, Types
    <2>3. Renamed(d, e) \in Seq(Events)
        BY <1>0, EventTypes
    <2>4. clock' \in 0 .. MaxClock /\ dirs' \in SUBSET Dirs
        BY <1>5 DEF RenameDir, Types
    <2> QED BY <1>5, <2>2, <2>3, <2>4, HappensTypes DEF RenameDir
<1>6. ASSUME NEW d \in Dirs, MakeDir(d) PROVE Types'
    <2>1. <<Event("Create", d, d)>> \in Seq(Events)
        BY <1>0, <1>1
    <2> QED BY <1>6, <2>1, HappensTypes DEF MakeDir, Types
<1>7. ASSUME NEW d \in Dirs, RemoveDir(d) PROVE Types'
    <2>1. <<Event("Remove", d, d)>> \in Seq(Events)
        BY <1>0, <1>1
    <2> QED BY <1>7, <2>1, HappensTypes DEF RemoveDir, Types
<1> QED BY <1>2, <1>3, <1>4, <1>5, <1>6, <1>7 DEF FileSystem

LEMMA ProcessTypes ==
    ASSUME Types, NEW c \in Changes, Process(c)
    PROVE  staged' \in [Files -> 0 .. MaxClock]
<1>1. 0 \in 0 .. MaxClock
    BY SyncAssumption
<1>2. CASE c.kind = "Modified" /\ disk[c.path] # 0
    <2>1. c.path \in Files
        BY <1>2 DEF Changes, Visible
    <2>2. staged' = [staged EXCEPT ![c.path] = disk[c.path]]
        BY <1>2 DEF Process
    <2> QED BY <2>1, <2>2 DEF Types
<1>3. CASE c.kind = "Deleted" /\ Resolvable(c.path)
    <2>1. staged' = [p \in Files |-> IF p \in Keys(c.path) THEN 0 ELSE staged[p]]
        BY <1>3 DEF Process
    <2> QED BY <1>1, <2>1 DEF Types
<1>4. CASE ~(c.kind = "Modified" /\ disk[c.path] # 0)
           /\ ~(c.kind = "Deleted" /\ Resolvable(c.path))
    BY <1>4 DEF Process, Types
<1> QED BY <1>2, <1>3, <1>4

\* The files that an event makes the debouncer wait for.
LEMMA ModifiedByVisible ==
    ASSUME Types, NEW e \in Events
    PROVE  ModifiedBy(e) \in SUBSET Visible
<1>1. \A x \in Paths : AddAsModified(x) \in SUBSET Visible
    BY DEF AddAsModified, InDir, Visible, Paths
<1> QED BY <1>1 DEF ModifiedBy, Events

LEMMA ImmediateByTypes ==
    ASSUME NEW e \in Events
    PROVE  ImmediateBy(e) \in Seq(Changes)
<1>1. e.path \in Files \cup Dirs
    BY DEF Events, Paths
<1>2. <<Change("Deleted", e.path)>> \in Seq(Changes)
    BY <1>1, ChangeTypes
<1>3. <<Change("Rescan", Root)>> \in Seq(Changes)
    BY ChangeTypes
<1> QED BY <1>2, <1>3, EmptySeq DEF ImmediateBy

LEMMA WatchTypes == Types /\ Watch => Types'
<1> SUFFICES ASSUME Types, Watch PROVE Types'
    OBVIOUS
<1>1. ASSUME raw # <<>> PROVE Head(raw) \in Events /\ Tail(raw) \in Seq(Events)
    BY <1>1, HeadTailProperties DEF Types
<1>2. CASE HandleEvent
    <2> DEFINE e == Head(raw)
    <2>1. e \in Events /\ raw' \in Seq(Events)
        BY <1>1, <1>2 DEF HandleEvent
    <2>2. PICK expired \in SUBSET (pending \cap ModifiedBy(e)) :
             /\ chan' = chan \o ImmediateBy(e) \o Modifieds(expired)
             /\ pending' = (pending \cup ModifiedBy(e)) \ expired
        BY <1>2 DEF HandleEvent
    <2>3. pending' \in SUBSET Visible /\ expired \in SUBSET Visible
        BY <2>1, <2>2, ModifiedByVisible DEF Types
    <2>4. chan' \in Seq(Changes)
        <3>1. chan \o ImmediateBy(e) \in Seq(Changes)
            BY <2>1, ImmediateByTypes, ConcatProperties DEF Types
        <3> QED BY <2>2, <2>3, <3>1, ChangeTypes, ConcatProperties
    <2> QED BY <1>2, <2>1, <2>3, <2>4 DEF HandleEvent, Types, fsVars, scanVars, history
<1>3. CASE HandleError
    <2>1. chan' \in Seq(Changes)
        BY <1>3, ChangeTypes, ConcatProperties DEF HandleError, Types
    <2> QED BY <1>1, <1>3, <2>1 DEF HandleError, Types, fsVars, scanVars, history
<1>4. ASSUME NEW p \in Files, Expire(p) PROVE Types'
    <2>1. p \in Visible /\ Change("Modified", p) \in Changes
        BY <1>4, ChangeTypes DEF Expire, Types
    <2>2. chan' \in Seq(Changes)
        BY <1>4, <2>1, AppendProperties DEF Expire, Types
    <2> QED BY <1>4, <2>2 DEF Expire, Types, fsVars, scanVars, history
<1> QED BY <1>2, <1>3, <1>4 DEF Watch

\* A step of scan s: what it does to its own state and its channel.
LEMMA ScanTypes ==
    ASSUME Types, NEW s \in Scans, NEW r \in ScanStates,
           scan' = [scan EXCEPT ![s] = r], sent' \in [Scans -> Seq(Changes)],
           degraded' \in BOOLEAN, blind' \in BOOLEAN, ops' \in 0 .. MaxOps,
           UNCHANGED <<fsVars, up, watching, pipeVars, rescanning, staged, index>>
    PROVE  Types'
BY DEF Types, fsVars, pipeVars

LEMMA ScanStepTypes == Types /\ (\E s \in Scans : ScanStep(s)) => Types'
<1> SUFFICES ASSUME Types, NEW s \in Scans, ScanStep(s) PROVE Types'
    OBVIOUS
<1>0. /\ scan[s] \in ScanStates /\ sent[s] \in Seq(Changes)
      /\ Visible \subseteq Files
      /\ degraded \in BOOLEAN /\ blind \in BOOLEAN /\ ops \in 0 .. MaxOps
      /\ sent \in [Scans -> Seq(Changes)] /\ index \in [Files -> 0 .. MaxClock]
    BY DEF Types, Visible
<1>1. CASE BeginScan(s)
    <2> DEFINE r == [stage |-> "detect", todo |-> {p \in Files : index[p] # 0},
                     gone |-> {}, snapshot |-> index]
    <2>1. r \in ScanStates
        BY <1>0 DEF ScanStates, ScanRecords
    <2>2. blind' \in BOOLEAN
        BY <1>1 DEF BeginScan
    <2> QED BY <1>0, <1>1, <2>1, <2>2, ScanTypes DEF BeginScan
<1>2. CASE BeginWalk(s)
    <2> DEFINE r == [scan[s] EXCEPT !.stage = "walk", !.todo = Visible, !.gone = {}]
    <2>1. r \in ScanStates
        BY <1>0 DEF ScanStates, ScanRecords
    <2>2. scan' = [scan EXCEPT ![s] = r]
        BY <1>2 DEF BeginWalk, Types
    <2>3. sent' \in [Scans -> Seq(Changes)]
        <3>1. scan[s].gone \in SUBSET Files
            BY <1>0 DEF ScanStates, ScanRecords
        <3>2. sent[s] \o Deleteds(scan[s].gone) \in Seq(Changes)
            BY <1>0, <3>1, ChangeTypes, ConcatProperties
        <3> QED BY <1>0, <1>2, <3>2 DEF BeginWalk
    <2> QED BY <1>0, <1>2, <2>1, <2>2, <2>3, ScanTypes DEF BeginWalk, history
<1>3. CASE EndScan(s)
    BY <1>0, <1>3, NoScanType, ScanTypes DEF EndScan, history
<1>4. ASSUME NEW p \in Files, DetectDeletion(s, p) PROVE Types'
    <2> DEFINE r == [scan[s] EXCEPT !.todo = @ \ {p},
                                    !.gone = IF disk[p] = 0 THEN @ \cup {p} ELSE @]
    <2>1. r \in ScanStates
        BY <1>0 DEF ScanStates, ScanRecords
    <2>2. scan' = [scan EXCEPT ![s] = r]
        BY <1>4 DEF DetectDeletion, Types
    <2> QED BY <1>0, <1>4, <2>1, <2>2, ScanTypes DEF DetectDeletion, history
<1>5. ASSUME NEW p \in Files, WalkFile(s, p) PROVE Types'
    <2> DEFINE r == [scan[s] EXCEPT !.todo = @ \ {p}]
    <2>1. r \in ScanStates
        BY <1>0 DEF ScanStates, ScanRecords
    <2>2. scan' = [scan EXCEPT ![s] = r]
        BY <1>5 DEF WalkFile, Types
    <2>3. sent' \in [Scans -> Seq(Changes)]
        <3>1. CASE UNCHANGED sent
            BY <1>0, <3>1
        <3>2. CASE sent' = [sent EXCEPT ![s] = Append(@, Change("Modified", p))]
            <4>1. p \in Visible
                BY <1>0, <1>5 DEF WalkFile, ScanStates
            <4>2. Append(sent[s], Change("Modified", p)) \in Seq(Changes)
                BY <1>0, <4>1, ChangeTypes, AppendProperties
            <4> QED BY <1>0, <3>2, <4>2
        <3> QED BY <1>5, <3>1, <3>2 DEF WalkFile
    <2> QED BY <1>0, <1>5, <2>1, <2>2, <2>3, ScanTypes DEF WalkFile, history
<1> QED BY <1>1, <1>2, <1>3, <1>4, <1>5 DEF ScanStep

LEMMA WriterTypes ==
    Types /\ (TakeChange \/ EndRescan \/ (\E s \in Scans : Drain(s)) \/ Commit
              \/ Register \/ Start) => Types'
<1> SUFFICES ASSUME Types PROVE TakeChange \/ EndRescan \/ (\E s \in Scans : Drain(s))
                                \/ Commit \/ Register \/ Start => Types'
    OBVIOUS
<1>0. "startup" \in Scans /\ "rescan" \in Scans
    BY DEF Scans
<1>1. ASSUME NEW s \in Scans
      PROVE  [scan[s] EXCEPT !.stage = "begin"] \in ScanStates
    BY DEF Types, ScanStates, ScanRecords
<1>2. CASE TakeChange
    <2>1. Head(chan) \in Changes /\ chan' \in Seq(Changes)
        BY <1>2, HeadTailProperties DEF TakeChange, Types
    <2>2. staged' \in [Files -> 0 .. MaxClock]
        BY <1>2, <2>1, ProcessTypes DEF TakeChange
    <2>3. rescanning' \in BOOLEAN /\ scan' \in [Scans -> ScanStates]
        <3>1. CASE Head(chan).kind = "Rescan"
            <4>1. scan' = [scan EXCEPT !["rescan"] = [scan["rescan"] EXCEPT !.stage = "begin"]]
                BY <1>2, <3>1 DEF TakeChange, Types
            <4> QED BY <1>0, <1>1, <1>2, <3>1, <4>1 DEF TakeChange, Types
        <3>2. CASE Head(chan).kind # "Rescan"
            BY <1>2, <3>2 DEF TakeChange, Types
        <3> QED BY <3>1, <3>2
    <2> QED BY <1>2, <2>1, <2>2, <2>3 DEF TakeChange, Types, fsVars, history
<1>3. CASE EndRescan
    <2>1. scan' \in [Scans -> ScanStates]
        BY <1>3, NoScanType DEF EndRescan, Types
    <2> QED BY <1>3, <2>1 DEF EndRescan, Types, fsVars, pipeVars, history
<1>4. ASSUME NEW s \in Scans, Drain(s) PROVE Types'
    <2>1. sent[s] \in Seq(Changes) /\ sent[s] # <<>>
        BY <1>4 DEF Drain, Types
    <2>2. Head(sent[s]) \in Changes /\ Tail(sent[s]) \in Seq(Changes)
        BY <2>1, HeadTailProperties
    <2>3. staged' \in [Files -> 0 .. MaxClock]
        BY <1>4, <2>2, ProcessTypes DEF Drain
    <2>4. sent' \in [Scans -> Seq(Changes)]
        BY <1>4, <2>2 DEF Drain, Types
    <2> QED BY <1>4, <2>3, <2>4 DEF Drain, Types, fsVars, pipeVars, history
<1>5. CASE Commit
    BY <1>5 DEF Commit, Types, fsVars, pipeVars, scanVars, history
<1>6. CASE Register
    BY <1>6 DEF Register, Types, fsVars, pipeVars, scanVars, history
<1>7. CASE Start
    <2>1. scan' = [scan EXCEPT !["startup"] = [scan["startup"] EXCEPT !.stage = "begin"]]
        BY <1>7 DEF Start, Types
    <2>2. scan' \in [Scans -> ScanStates]
        BY <1>0, <1>1, <2>1 DEF Types
    <2> QED BY <1>7, <2>2 DEF Start, Types, fsVars, pipeVars, history
<1> QED BY <1>2, <1>3, <1>4, <1>5, <1>6, <1>7

LEMMA FaultTypes == Types /\ Fault => Types'
<1> SUFFICES ASSUME Types, Fault PROVE Types'
    OBVIOUS
<1>0. 0 \in 0 .. MaxClock
    BY SyncAssumption
<1>1. ops < MaxOps /\ ops' = ops + 1 => ops' \in 0 .. MaxOps
    BY SyncAssumption DEF Types
<1>2. CASE CommitFails
    <2>1. staged' \in [Files -> 0 .. MaxClock]
        BY <1>0, <1>2 DEF CommitFails, Types
    <2> QED BY <1>1, <1>2, <2>1 DEF CommitFails, Types, fsVars, pipeVars, scanVars
<1>3. CASE WatcherFails
    <2>1. raw' \in Seq(Events)
        BY <1>3, EventTypes, AppendProperties DEF WatcherFails, Types
    <2> QED BY <1>1, <1>3, <2>1 DEF WatcherFails, Types, fsVars, scanVars, history
<1>4. CASE Crash
    <2>1. raw' \in Seq(Events) /\ chan' \in Seq(Changes) /\ sent' \in [Scans -> Seq(Changes)]
        BY <1>4, EmptySeq DEF Crash
    <2>2. scan' \in [Scans -> ScanStates]
        BY <1>4, NoScanType DEF Crash
    <2> QED BY <1>1, <1>4, <2>1, <2>2 DEF Crash, Types, fsVars
<1>5. ASSUME NEW s \in Scans, ScanFails(s) PROVE Types'
    <2>1. [NoScan EXCEPT !.stage = "failed"] \in ScanStates
        BY NoScanType DEF ScanStates, ScanRecords
    <2>2. sent' \in [Scans -> Seq(Changes)]
        BY <1>5 DEF ScanFails, Types
    <2>3. degraded' \in BOOLEAN /\ blind' \in BOOLEAN
        BY <1>5 DEF ScanFails, Types
    <2> QED BY <1>1, <1>5, <2>1, <2>2, <2>3, ScanTypes DEF ScanFails
<1>6. ASSUME NEW s \in Scans, NEW p \in Files, Unverified(s, p) PROVE Types'
    <2> DEFINE r == [scan[s] EXCEPT !.todo = @ \ {p}]
    <2>1. r \in ScanStates
        BY DEF Types, ScanStates, ScanRecords
    <2>2. scan' = [scan EXCEPT ![s] = r]
        BY <1>6 DEF Unverified, Types
    <2>3. sent' \in [Scans -> Seq(Changes)] /\ degraded' \in BOOLEAN /\ blind' \in BOOLEAN
        BY <1>6 DEF Unverified, Types
    <2> QED BY <1>1, <1>6, <2>1, <2>2, <2>3, ScanTypes DEF Unverified
<1> QED BY <1>2, <1>3, <1>4, <1>5, <1>6 DEF Fault

LEMMA TypesNext == Types /\ [Next]_vars => Types'
<1>1. Types /\ UNCHANGED vars => Types'
    BY DEF Types, vars, fsVars, pipeVars, scanVars, history
<1> QED BY <1>1, FileSystemTypes, WatchTypes, ScanStepTypes, WriterTypes, FaultTypes DEF Next

LEMMA TypesAreRight == Types => TypeOK
<1> SUFFICES ASSUME Types PROVE TypeOK
    OBVIOUS
<1>1. ASSUME NEW i \in DOMAIN raw
      PROVE  /\ raw[i].kind \in {"Create", "Modify", "Remove", "From", "To", "Both",
                                 "Overflow", "Error"}
             /\ {raw[i].path, raw[i].to} \subseteq Files \cup Dirs
    <2>1. raw[i] \in Events
        BY LenProperties, ElementOfSeq DEF Types
    <2> QED BY <2>1 DEF Events, Paths
<1>2. ASSUME NEW i \in DOMAIN chan PROVE chan[i] \in Changes
    BY LenProperties, ElementOfSeq DEF Types
<1>3. ASSUME NEW s \in Scans
      PROVE  /\ scan[s].stage \in {"off", "begin", "detect", "walk", "failed"}
             /\ scan[s].todo \cup scan[s].gone \subseteq Files
             /\ scan[s].snapshot \in [Files -> 0 .. MaxClock]
             /\ \A i \in DOMAIN sent[s] : sent[s][i] \in Changes
    <2>1. scan[s] \in ScanRecords /\ sent[s] \in Seq(Changes)
        BY DEF Types, ScanStates
    <2>2. \A i \in DOMAIN sent[s] : sent[s][i] \in Changes
        BY <2>1, LenProperties, ElementOfSeq
    <2> QED BY <2>1, <2>2 DEF ScanRecords
<1>4. {up, watching, rescanning, degraded, blind} \subseteq BOOLEAN
    BY DEF Types
<1> QED BY <1>1, <1>2, <1>3, <1>4 DEF Types, TypeOK

\* Types of all variables, for any directories, names and faults.
THEOREM SyncTypeCorrect == Spec => []TypeOK
BY TypesInit, TypesNext, TypesAreRight, PTL DEF Spec

-----------------------------------------------------------------------------
(* How the parts exclude each other.                                       *)

LEMMA EmptyModifieds == Modifieds({}) = <<>>
<1>1. Modifieds({}) \in Seq([kind : {"Modified"}, path : {}])
    BY ModifiedsSeq
<1>2. [kind : {"Modified"}, path : {}] = {}
    OBVIOUS
<1>3. Modifieds({}) \in Seq({})
    BY <1>1, <1>2
<1> QED BY <1>3, EmptySeq, LenProperties, ElementOfSeq

\* A file operation is noticed: as the kind of event it is, or as an overflow.
NoticedAs(S, events) ==
    \/ ~up /\ raw' = raw
    \/ up /\ raw' = raw \o events
    \/ /\ up /\ "dropped" \in S
       /\ \/ raw' = Append(raw, Overflow)
          \/ raw' = raw /\ raw # <<>> /\ Last(raw) = Overflow

LEMMA HappensNoticed ==
    ASSUME Shape, NEW S \in SUBSET NoticedSituations, NEW events, Happens(S, events)
    PROVE  /\ ~Scanning("startup")
           /\ NoticedAs(S, events)
<1>1. ~up => ~watching /\ ~Scanning("startup")
    BY DEF Shape, StoppedIsEmpty, Scanning, Scans, NoScan
<1>2. Situation \in {"offline", "watched"}
    BY DEF Happens, NoticedSituations, Situation
<1>3. ~up \/ (up /\ watching /\ ~Scanning("startup"))
    BY <1>2 DEF Situation
<1>4. CASE Situation \in S /\ raw' = IF watching THEN raw \o events ELSE raw
    BY <1>1, <1>3, <1>4 DEF NoticedAs
<1>5. CASE /\ Situation = "watched" /\ "dropped" \in S
           /\ raw' = IF raw # <<>> /\ Last(raw) = Overflow THEN raw
                                                           ELSE Append(raw, Overflow)
    <2>1. up
        BY <1>5 DEF Situation
    <2> QED BY <1>1, <1>3, <1>5, <2>1 DEF NoticedAs
<1> QED BY <1>1, <1>3, <1>4, <1>5 DEF Happens

LEMMA HappensShape ==
    ASSUME Shape, NEW S \in SUBSET NoticedSituations, NEW events, Happens(S, events)
    PROVE  Shape'
<1>1. ~Scanning("startup") /\ NoticedAs(S, events)
    BY HappensNoticed
<1>2. ~Scanning("startup")'
    BY <1>1 DEF Happens, Scanning, scanVars
<1>3. StoppedIsEmpty'
    BY <1>1 DEF Shape, StoppedIsEmpty, NoticedAs, Happens, scanVars
<1>4. ScanShape'
    BY DEF Shape, ScanShape, Happens, scanVars
<1> QED BY <1>2, <1>3, <1>4 DEF Shape, StartupIsAlone


LEMMA FileSystemShape ==
    ASSUME AllNoticed, Shape, FileSystem
    PROVE  Shape'
<1>1. /\ FileOps \in SUBSET NoticedSituations
      /\ MoveOps \in SUBSET NoticedSituations
      /\ DirOps \in SUBSET NoticedSituations
    BY DEF AllNoticed
<1>2. ASSUME NEW p \in Files, WriteFile(p) \/ RemoveFile(p) PROVE Shape'
    BY <1>1, <1>2, HappensShape DEF WriteFile, RemoveFile
<1>3. ASSUME NEW p \in Files, NEW q \in Files, RenameFile(p, q) PROVE Shape'
    BY <1>1, <1>3, HappensShape DEF RenameFile
<1>4. ASSUME NEW d \in Dirs, NEW e \in Dirs, RenameDir(d, e) PROVE Shape'
    BY <1>1, <1>4, HappensShape DEF RenameDir
<1>5. ASSUME NEW d \in Dirs, MakeDir(d) \/ RemoveDir(d) PROVE Shape'
    BY <1>1, <1>5, HappensShape DEF MakeDir, RemoveDir
<1> QED BY <1>2, <1>3, <1>4, <1>5 DEF FileSystem

LEMMA WatchShape ==
    ASSUME Types, Shape, Watch
    PROVE  Shape'
<1>1. raw # <<>> => /\ Head(raw) = raw[1] /\ 1 \in DOMAIN raw
                    /\ Tail(raw) \in Seq(Events)
                    /\ \A i \in DOMAIN Tail(raw) : i + 1 \in DOMAIN raw
                                                   /\ Tail(raw)[i] = raw[i + 1]
    BY HeadTailProperties, LenProperties, EmptySeq DEF Types
<1>2. ScanShape'
    BY DEF Shape, ScanShape, Watch, HandleEvent, HandleError, Expire, scanVars
<1>3. Scanning("startup")' <=> Scanning("startup")
    BY DEF Scanning, Watch, HandleEvent, HandleError, Expire, scanVars
<1>4. up' = up /\ up
    BY DEF Shape, StoppedIsEmpty, Watch, HandleEvent, HandleError, Expire
<1>5. CASE HandleEvent
    <2>1. ~Scanning("startup")
        BY <1>1, <1>5 DEF Shape, StartupIsAlone, HandleEvent
    <2> QED BY <1>2, <1>3, <1>4, <2>1 DEF Shape, StoppedIsEmpty, StartupIsAlone
<1>6. CASE HandleError
    <2>1. ASSUME Scanning("startup")
          PROVE  /\ \A i \in DOMAIN raw' : raw'[i] = Error
                 /\ pending' = {} /\ chan' = <<>> /\ ~rescanning'
        <3>1. \A i \in DOMAIN raw' : raw'[i] = Error
            BY <1>1, <1>6, <2>1 DEF Shape, StartupIsAlone, HandleError
        <3>2. chan' = <<>> \o <<>>
            BY <1>6, <2>1, EmptyModifieds DEF Shape, StartupIsAlone, HandleError
        <3> QED BY <1>6, <2>1, <3>1, <3>2 DEF Shape, StartupIsAlone, HandleError
    <2> QED BY <1>2, <1>3, <1>4, <2>1 DEF Shape, StoppedIsEmpty, StartupIsAlone
<1>7. ASSUME NEW p \in Files, Expire(p) PROVE Shape'
    <2>1. ~Scanning("startup")
        BY <1>7 DEF Shape, StartupIsAlone, Expire
    <2> QED BY <1>2, <1>3, <1>4, <2>1 DEF Shape, StoppedIsEmpty, StartupIsAlone
<1> QED BY <1>5, <1>6, <1>7 DEF Watch

\* A step of a scan, or of its channel.
LEMMA ScanShapeKept ==
    ASSUME Types, Shape, NEW s \in Scans, Scanning(s), NEW r, NEW q,
           scan' = [scan EXCEPT ![s] = r], sent' = [sent EXCEPT ![s] = q],
           r.stage \in {"off", "begin", "failed"} => r.todo = {},
           r.stage # "detect" => r.gone = {},
           UNCHANGED <<up, watching, raw, pending, chan, rescanning>>
    PROVE  Shape'
<1>1. up
    BY DEF Shape, StoppedIsEmpty, Scanning, NoScan
<1>2. s = "rescan" => rescanning
    BY DEF Shape, ScanShape, Scanning, NoScan
<1>3. \A t \in Scans : t # s => scan'[t] = scan[t] /\ sent'[t] = sent[t]
    BY DEF Types
<1>4. scan'[s] = r
    BY DEF Types
<1>5. ScanShape'
    BY <1>2, <1>3, <1>4 DEF Shape, ScanShape, Scans
<1>6. Scanning("startup")' => Scanning("startup")
    BY <1>3 DEF Scanning, Scans
<1> QED BY <1>1, <1>5, <1>6 DEF Shape, StoppedIsEmpty, StartupIsAlone

LEMMA ScansKeepShape ==
    ASSUME Types, Shape, NEW s \in Scans,
           \/ ScanStep(s) \/ Drain(s) \/ ScanFails(s)
           \/ \E p \in Files : Unverified(s, p)
    PROVE  Shape'
<1>0. /\ scan[s] \in ScanRecords /\ sent = [sent EXCEPT ![s] = sent[s]]
      /\ scan = [scan EXCEPT ![s] = scan[s]]
    BY DEF Types, ScanStates
<1>1. CASE BeginScan(s)
    BY <1>0, <1>1, ScanShapeKept DEF BeginScan, Scanning, pipeVars
<1>2. CASE BeginWalk(s)
    <2> DEFINE r == [scan[s] EXCEPT !.stage = "walk", !.todo = Visible, !.gone = {}]
    <2>1. r.stage = "walk" /\ r.gone = {}
        BY <1>0 DEF ScanRecords
    <2>2. scan' = [scan EXCEPT ![s] = r]
        BY <1>2 DEF BeginWalk, Types
    <2> HIDE DEF r
    <2> QED BY <1>2, <2>1, <2>2, ScanShapeKept DEF BeginWalk, Scanning, pipeVars
<1>3. CASE EndScan(s)
    BY <1>0, <1>3, ScanShapeKept DEF EndScan, Scanning, NoScan, pipeVars
<1>4. ASSUME NEW p \in Files, DetectDeletion(s, p) PROVE Shape'
    <2> DEFINE r == [scan[s] EXCEPT !.todo = @ \ {p},
                                    !.gone = IF disk[p] = 0 THEN @ \cup {p} ELSE @]
    <2>1. r.stage = "detect"
        BY <1>0, <1>4 DEF ScanRecords, DetectDeletion, Visit
    <2>2. scan' = [scan EXCEPT ![s] = r]
        BY <1>4 DEF DetectDeletion, Types
    <2>3. /\ Scanning(s) /\ sent' = [sent EXCEPT ![s] = sent[s]]
          /\ UNCHANGED <<up, watching, raw, pending, chan, rescanning>>
        BY <1>0, <1>4 DEF DetectDeletion, Visit, Scanning, pipeVars
    <2> HIDE DEF r
    <2> QED BY <2>1, <2>2, <2>3, ScanShapeKept
<1>5. ASSUME NEW p \in Files, WalkFile(s, p) PROVE Shape'
    <2> DEFINE r == [scan[s] EXCEPT !.todo = @ \ {p}]
    <2>1. r.stage = "walk" /\ r.gone = {}
        BY <1>0, <1>5 DEF ScanRecords, WalkFile, Shape, ScanShape
    <2>2. scan' = [scan EXCEPT ![s] = r]
        BY <1>5 DEF WalkFile, Types
    <2>3. \E q : sent' = [sent EXCEPT ![s] = q]
        BY <1>0, <1>5 DEF WalkFile
    <2> HIDE DEF r
    <2> QED BY <1>5, <2>1, <2>2, <2>3, ScanShapeKept DEF WalkFile, Scanning, pipeVars
<1>6. ASSUME NEW p \in Files, Unverified(s, p) PROVE Shape'
    <2> DEFINE r == [scan[s] EXCEPT !.todo = @ \ {p}]
    <2>1. r.stage = "detect"
        BY <1>0, <1>6 DEF ScanRecords, Unverified, Visit
    <2>2. scan' = [scan EXCEPT ![s] = r]
        BY <1>6 DEF Unverified, Types
    <2>3. /\ Scanning(s) /\ sent' = [sent EXCEPT ![s] = sent[s]]
          /\ UNCHANGED <<up, watching, raw, pending, chan, rescanning>>
        BY <1>0, <1>6 DEF Unverified, Visit, Scanning, pipeVars
    <2> HIDE DEF r
    <2> QED BY <2>1, <2>2, <2>3, ScanShapeKept
<1>7. CASE ScanFails(s)
    <2> DEFINE r == [NoScan EXCEPT !.stage = "failed"]
    <2>1. r.todo = {} /\ r.gone = {}
        BY DEF NoScan
    <2> HIDE DEF r
    <2> QED BY <1>0, <1>7, <2>1, ScanShapeKept DEF r, ScanFails, Scanning, pipeVars
<1>8. CASE Drain(s)
    <2>1. /\ scan[s].stage \in {"off", "begin", "failed"} => scan[s].todo = {}
          /\ scan[s].stage # "detect" => scan[s].gone = {}
          /\ sent[s] # <<>>
        BY <1>8 DEF Shape, ScanShape, Drain
    <2> QED BY <1>0, <1>8, <2>1, ScanShapeKept DEF Drain, Scanning, pipeVars
<1> QED BY <1>1, <1>2, <1>3, <1>4, <1>5, <1>6, <1>7, <1>8 DEF ScanStep

LEMMA WriterShape ==
    ASSUME Types, Shape,
           TakeChange \/ EndRescan \/ Commit \/ Register \/ Start
           \/ CommitFails \/ WatcherFails \/ Crash
    PROVE  Shape'
<1>0. "startup" \in Scans /\ "rescan" \in Scans
    BY DEF Scans
<1>1. CASE TakeChange
    <2>1. up /\ ~Scanning("startup")
        BY <1>1 DEF Shape, StoppedIsEmpty, StartupIsAlone, TakeChange
    <2>2. scan'["startup"] = scan["startup"] /\ sent' = sent
        BY <1>0, <1>1 DEF TakeChange, Types
    <2>3. scan["rescan"] = NoScan /\ sent["rescan"] = <<>>
        BY <1>1 DEF Shape, ScanShape, TakeChange
    <2>4. \/ rescanning' = rescanning /\ scan' = scan
          \/ rescanning' = TRUE /\ scan'["rescan"] = [NoScan EXCEPT !.stage = "begin"]
        BY <1>0, <1>1, <2>3 DEF TakeChange, Types
    <2>5. ScanShape'
        BY <2>2, <2>4 DEF Shape, ScanShape, Scans, NoScan
    <2> QED BY <1>1, <2>1, <2>2, <2>5
            DEF TakeChange, Shape, StoppedIsEmpty, StartupIsAlone, Scanning
<1>2. CASE EndRescan
    <2>1. up
        BY <1>2 DEF Shape, StoppedIsEmpty, EndRescan
    <2>2. scan'["startup"] = scan["startup"] /\ scan'["rescan"] = NoScan /\ sent' = sent
        BY <1>0, <1>2 DEF EndRescan, Types
    <2>3. ScanShape'
        BY <1>2, <2>2 DEF Shape, ScanShape, Scans, NoScan, EndRescan, Scanning
    <2> QED BY <1>2, <2>1, <2>2, <2>3
            DEF EndRescan, Shape, StoppedIsEmpty, StartupIsAlone, Scanning, pipeVars
<1>3. CASE Commit \/ CommitFails
    <2>1. up
        BY <1>3 DEF Shape, StoppedIsEmpty, Commit, CommitFails
    <2>2. UNCHANGED <<up, watching, raw, pending, chan, rescanning, scan, sent>>
        BY <1>3 DEF Commit, CommitFails, pipeVars, scanVars
    <2> QED BY <2>1, <2>2 DEF Shape, StoppedIsEmpty, ScanShape, StartupIsAlone, Scanning
<1>4. CASE Register
    BY <1>4 DEF Register, Shape, StoppedIsEmpty, ScanShape, StartupIsAlone, Scanning,
                pipeVars, scanVars
<1>5. CASE WatcherFails
    <2>1. up
        BY <1>5 DEF Shape, StoppedIsEmpty, WatcherFails
    <2>2. ASSUME Scanning("startup"), NEW i \in DOMAIN raw' PROVE raw'[i] = Error
        <3>1. raw' = Append(raw, Error) /\ \A j \in DOMAIN raw : raw[j] = Error
            BY <1>5, <2>2 DEF WatcherFails, Shape, StartupIsAlone
        <3> QED BY <2>2, <3>1, EventTypes, AppendProperties, LenProperties DEF Types
    <2> QED BY <1>5, <2>1, <2>2 DEF WatcherFails, Shape, StoppedIsEmpty, ScanShape,
                                    StartupIsAlone, Scanning, scanVars
<1>6. CASE Start
    <2>1. scan["startup"] = NoScan
        BY <1>0, <1>6 DEF Start, Shape, StoppedIsEmpty
    <2>2. /\ scan'["startup"] = [NoScan EXCEPT !.stage = "begin"]
          /\ scan'["rescan"] = scan["rescan"]
        BY <1>0, <1>6, <2>1 DEF Start, Types
    <2>3. ScanShape'
        BY <1>6, <2>2 DEF Shape, ScanShape, Scans, NoScan, Start, pipeVars
    <2>4. StartupIsAlone'
        BY <1>6 DEF Shape, StoppedIsEmpty, StartupIsAlone, Start, pipeVars
    <2> QED BY <1>6, <2>3, <2>4 DEF Shape, StoppedIsEmpty, Start
<1>7. CASE Crash
    BY <1>7 DEF Crash, Shape, StoppedIsEmpty, ScanShape, StartupIsAlone, Scans, NoScan
<1> QED BY <1>1, <1>2, <1>3, <1>4, <1>5, <1>6, <1>7

LEMMA ProcessPast ==
    ASSUME Types, InPast, NEW c \in Changes, Process(c)
    PROVE  \A p \in Files : staged'[p] \in {0, disk[p], staged[p]}
<1>1. CASE c.kind = "Modified" /\ disk[c.path] # 0
    BY <1>1 DEF Process, Types
<1>2. CASE c.kind = "Deleted" /\ Resolvable(c.path)
    BY <1>2 DEF Process, Types
<1>3. CASE ~(c.kind = "Modified" /\ disk[c.path] # 0)
           /\ ~(c.kind = "Deleted" /\ Resolvable(c.path))
    BY <1>3 DEF Process
<1> QED BY <1>1, <1>2, <1>3

\* The steps that process no change.
LEMMA PastKept ==
    ASSUME Types, InPast,
           \/ FileSystem \/ Watch \/ EndRescan \/ Commit \/ Register \/ Start \/ Fault
           \/ \E s \in Scans : ScanStep(s)
    PROVE  InPast'
<1>0. /\ clock \in Nat /\ 0 <= clock
      /\ \A p \in Files : disk[p] \in Nat /\ staged[p] \in Nat /\ index[p] \in Nat
    BY SyncAssumption DEF Types
<1>1. CASE FileSystem
    <2>0. UNCHANGED <<staged, index>>
        BY <1>1 DEF FileSystem, WriteFile, RemoveFile, RenameFile, RenameDir, MakeDir,
                    RemoveDir, Happens
    <2>1. ASSUME NEW p \in Files, WriteFile(p) PROVE InPast'
        BY <1>0, <2>0, <2>1 DEF WriteFile, InPast, Types
    <2>2. ASSUME NEW p \in Files, RemoveFile(p) PROVE InPast'
        BY <1>0, <2>0, <2>2 DEF RemoveFile, InPast, Types
    <2>3. ASSUME NEW p \in Files, NEW q \in Files, RenameFile(p, q) PROVE InPast'
        <3>1. \A x \in Files : disk'[x] \in {0, disk[p], disk[x]}
            BY <2>3 DEF RenameFile, Types
        <3> QED BY <1>0, <2>0, <2>3, <3>1 DEF RenameFile, InPast
    <2>4. ASSUME NEW d \in Dirs, NEW e \in Dirs, RenameDir(d, e) PROVE InPast'
        <3>1. \A p \in Files : <<d, p[2]>> \in Files
            BY DEF Files
        <3>2. \A p \in Files : disk'[p] \in {disk[<<d, p[2]>>], 0, disk[p]}
            BY <2>4 DEF RenameDir
        <3> QED BY <1>0, <2>0, <2>4, <3>1, <3>2 DEF RenameDir, InPast
    <2>5. ASSUME NEW d \in Dirs, MakeDir(d) \/ RemoveDir(d) PROVE InPast'
        BY <2>0, <2>5 DEF MakeDir, RemoveDir, InPast
    <2> QED BY <1>1, <2>1, <2>2, <2>3, <2>4, <2>5 DEF FileSystem
<1>2. CASE Watch
    BY <1>2 DEF Watch, HandleEvent, HandleError, Expire, fsVars, InPast
<1>3. CASE EndRescan \/ Commit \/ Register \/ Start
    BY <1>3 DEF EndRescan, Commit, Register, Start, fsVars, InPast
<1>4. CASE \E s \in Scans : ScanStep(s)
    BY <1>4 DEF ScanStep, BeginScan, BeginWalk, EndScan, DetectDeletion, WalkFile,
                fsVars, InPast
<1>5. CASE Fault
    <2>1. CASE CommitFails
        <3>1. \A p \in Files : staged'[p] \in {0, index[p]}
            BY <2>1 DEF CommitFails
        <3> QED BY <1>0, <2>1, <3>1 DEF CommitFails, fsVars, InPast
    <2>2. CASE WatcherFails \/ Crash
        BY <2>2 DEF WatcherFails, Crash, fsVars, InPast
    <2>3. CASE \E s \in Scans : ScanFails(s) \/ \E p \in Files : Unverified(s, p)
        BY <2>3 DEF ScanFails, Unverified, fsVars, InPast
    <2> QED BY <1>5, <2>1, <2>2, <2>3 DEF Fault
<1> QED BY <1>1, <1>2, <1>3, <1>4, <1>5

LEMMA BaseInit == Init => BaseInv
<1> SUFFICES ASSUME Init PROVE BaseInv
    OBVIOUS
<1>1. Shape
    BY DEF Init, Shape, StoppedIsEmpty, ScanShape, StartupIsAlone, Scanning, NoScan, Scans
<1>2. InPast
    BY DEF Init, InPast, Nothing
<1> QED BY <1>1, <1>2, TypesInit DEF BaseInv

LEMMA BaseNext ==
    ASSUME AllNoticed, BaseInv, [Next]_vars
    PROVE  BaseInv'
<1>0. Types /\ Shape /\ InPast /\ Types'
    BY TypesNext DEF BaseInv
<1>1. Shape'
    <2>1. CASE UNCHANGED vars
        BY <1>0, <2>1 DEF vars, fsVars, pipeVars, scanVars, history, Shape, StoppedIsEmpty,
                          ScanShape, StartupIsAlone, Scanning
    <2>2. CASE FileSystem
        BY <1>0, <2>2, FileSystemShape
    <2>3. CASE Watch
        BY <1>0, <2>3, WatchShape
    <2>4. CASE \E s \in Scans : ScanStep(s) \/ Drain(s)
        BY <1>0, <2>4, ScansKeepShape
    <2>5. CASE TakeChange \/ EndRescan \/ Commit \/ Register \/ Start
        BY <1>0, <2>5, WriterShape
    <2>6. CASE Fault
        BY <1>0, <2>6, WriterShape, ScansKeepShape DEF Fault
    <2> QED BY <2>1, <2>2, <2>3, <2>4, <2>5, <2>6 DEF Next
<1>2. InPast'
    <2>1. CASE UNCHANGED vars
        BY <1>0, <2>1 DEF vars, fsVars, InPast
    <2>2. ASSUME NEW c \in Changes, Process(c), UNCHANGED <<fsVars, index>>
          PROVE  InPast'
        <3>1. \A p \in Files : staged'[p] \in {0, disk[p], staged[p]}
            BY <1>0, <2>2, ProcessPast
        <3>2. clock \in Nat
            BY <1>0, SyncAssumption DEF Types
        <3> QED BY <1>0, <2>2, <3>1, <3>2 DEF InPast, fsVars
    <2>3. CASE TakeChange
        <3>1. Head(chan) \in Changes
            BY <1>0, <2>3, HeadTailProperties DEF TakeChange, Types
        <3> QED BY <2>2, <2>3, <3>1 DEF TakeChange
    <2>4. CASE \E s \in Scans : Drain(s)
        <3> PICK s \in Scans : Drain(s)
            BY <2>4
        <3>1. Head(sent[s]) \in Changes
            BY <1>0, HeadTailProperties DEF Drain, Types
        <3> QED BY <2>2, <3>1 DEF Drain
    <2> QED BY <1>0, <2>1, <2>3, <2>4, PastKept DEF Next
<1> QED BY <1>0, <1>1, <1>2 DEF BaseInv

-----------------------------------------------------------------------------
(* Scans do no harm.                                                       *)

LEMMA DoomedIsScanning ==
    ASSUME Types, Shape, NEW s \in Scans, NEW p, Doomed(s, p)
    PROVE  Scanning(s)
<1>1. CASE p \in scan[s].gone
    BY <1>1 DEF Shape, ScanShape, Scanning
<1>2. CASE \E i \in DOMAIN sent[s] : sent[s][i] = Change("Deleted", p)
    BY <1>2 DEF Scanning
<1> QED BY <1>1, <1>2 DEF Doomed

\* Only one scan runs at a time.
LEMMA OneScan ==
    ASSUME Shape, NEW s \in Scans, NEW t \in Scans, Scanning(s), Scanning(t)
    PROVE  s = t
<1>1. Scanning("rescan") => rescanning
    BY DEF Shape, ScanShape, Scanning, NoScan
<1> QED BY <1>1 DEF Shape, StartupIsAlone, Scans

\* A change can be taken from the channel only while no scan runs.
LEMMA NoScanWithChanges ==
    ASSUME Shape, ~rescanning, chan # <<>>, NEW s \in Scans
    PROVE  ~Scanning(s)
<1>1. Scanning("rescan") => rescanning
    BY DEF Shape, ScanShape, Scanning, NoScan
<1> QED BY <1>1 DEF Shape, StartupIsAlone, Scans

LEMMA DoomedStays ==
    ASSUME BaseInv, DoomedIsOld,
           \A s \in Scans, p \in Files : Doomed(s, p)' => Doomed(s, p) \/ disk'[p] = 0,
           UNCHANGED disk,
           \A p \in Files : staged'[p] \in {staged[p], 0, index[p]}
                            /\ index'[p] \in {index[p], staged[p]}
    PROVE  DoomedIsOld'
<1> SUFFICES ASSUME NEW s \in Scans, NEW p \in Files, Doomed(s, p)', disk'[p] # 0
             PROVE  s = "rescan" /\ staged'[p] # disk'[p] /\ index'[p] # disk'[p]
    BY DEF DoomedIsOld
<1>1. s = "rescan" /\ staged[p] # disk[p] /\ index[p] # disk[p]
    BY DEF DoomedIsOld
<1> QED BY <1>1

LEMMA FileSystemDoesNoHarm ==
    ASSUME NoMoves, BaseInv, DoomedIsOld, FileSystem
    PROVE  DoomedIsOld'
<1>0. UNCHANGED <<staged, index, scan, sent>>
    BY DEF FileSystem, WriteFile, RemoveFile, RenameFile, RenameDir, MakeDir, RemoveDir,
           Happens, scanVars
<1>1. \A s \in Scans, p \in Files : Doomed(s, p)' <=> Doomed(s, p)
    BY <1>0 DEF Doomed
<1>2. ~Scanning("startup") /\ UNCHANGED <<staged, index>>
    <2>1. /\ FileOps \in SUBSET NoticedSituations
          /\ MoveOps \in SUBSET NoticedSituations
          /\ DirOps \in SUBSET NoticedSituations
        BY DEF AllNoticed, NoMoves
    <2>2. Shape
        BY DEF BaseInv
    <2>3. ASSUME NEW p \in Files, WriteFile(p) \/ RemoveFile(p) PROVE ~Scanning("startup")
        BY <2>1, <2>2, <2>3, HappensNoticed DEF WriteFile, RemoveFile
    <2>4. ASSUME NEW p \in Files, NEW q \in Files, RenameFile(p, q)
          PROVE  ~Scanning("startup")
        BY <2>1, <2>2, <2>4, HappensNoticed DEF RenameFile
    <2>5. ASSUME NEW d \in Dirs, NEW e \in Dirs, RenameDir(d, e) PROVE ~Scanning("startup")
        BY <2>1, <2>2, <2>5, HappensNoticed DEF RenameDir
    <2>6. ASSUME NEW d \in Dirs, MakeDir(d) \/ RemoveDir(d) PROVE ~Scanning("startup")
        BY <2>1, <2>2, <2>6, HappensNoticed DEF MakeDir, RemoveDir
    <2> QED BY <1>0, <2>3, <2>4, <2>5, <2>6 DEF FileSystem
<1>3. \A s \in Scans, p \in Files : Doomed(s, p) => s = "rescan"
    BY <1>2, DoomedIsScanning DEF Scans, BaseInv
<1>4. ASSUME NEW p \in Files, WriteFile(p) PROVE DoomedIsOld'
    <2>1. \A q \in Files : q # p => disk'[q] = disk[q]
        BY <1>4 DEF WriteFile, BaseInv, Types
    <2>2. disk'[p] = clock + 1 /\ clock \in Nat
        BY <1>4, SyncAssumption DEF WriteFile, BaseInv, Types
    <2>3. staged[p] # clock + 1 /\ index[p] # clock + 1
        BY <2>2, SyncAssumption DEF BaseInv, InPast, Types
    <2> QED BY <1>1, <1>2, <1>3, <2>1, <2>2, <2>3 DEF DoomedIsOld
<1>5. ASSUME NEW p \in Files, RemoveFile(p) PROVE DoomedIsOld'
    <2>1. disk'[p] = 0 /\ \A q \in Files : q # p => disk'[q] = disk[q]
        BY <1>5 DEF RemoveFile, BaseInv, Types
    <2> QED BY <1>1, <1>2, <1>3, <2>1 DEF DoomedIsOld
<1>6. ASSUME NEW d \in Dirs, MakeDir(d) \/ RemoveDir(d) PROVE DoomedIsOld'
    <2>1. UNCHANGED disk
        BY <1>6 DEF MakeDir, RemoveDir
    <2> QED BY <1>1, <1>2, <2>1 DEF DoomedIsOld
<1>7. ASSUME NEW events, Happens(MoveOps, events) PROVE DoomedIsOld'
    <2>1. ~up
        BY <1>7 DEF Happens, NoMoves, Situation
    <2>2. \A s \in Scans : ~Scanning(s)
        BY <2>1 DEF BaseInv, Shape, StoppedIsEmpty, Scanning, NoScan
    <2>3. \A s \in Scans, p \in Files : ~Doomed(s, p)
        BY <2>2, DoomedIsScanning DEF BaseInv
    <2> QED BY <1>1, <2>3 DEF DoomedIsOld
<1> QED BY <1>4, <1>5, <1>6, <1>7 DEF FileSystem, RenameFile, RenameDir

LEMMA ScanDoesNoHarm ==
    ASSUME BaseInv, DoomedIsOld, NEW s \in Scans,
           ScanStep(s) \/ ScanFails(s) \/ \E p \in Files : Unverified(s, p)
    PROVE  DoomedIsOld'
<1>0. Types
    BY DEF BaseInv
<1>1. UNCHANGED <<disk, staged, index>>
    BY DEF ScanStep, BeginScan, BeginWalk, EndScan, DetectDeletion, WalkFile, ScanFails,
           Unverified, fsVars
<1>2. ASSUME \A p \in Files : Doomed(s, p)' => Doomed(s, p) \/ disk'[p] = 0,
             \A t \in Scans : t # s => scan'[t] = scan[t] /\ sent'[t] = sent[t]
      PROVE  DoomedIsOld'
    BY <1>1, <1>2, DoomedStays DEF Doomed
<1>3. CASE BeginScan(s) \/ EndScan(s) \/ ScanFails(s)
    <2>1. scan'[s].gone = {} /\ sent' = sent /\ \A t \in Scans : t # s => scan'[t] = scan[t]
        <3>1. \E r : scan' = [scan EXCEPT ![s] = r] /\ r.gone = {}
            BY <1>3 DEF BeginScan, EndScan, ScanFails, NoScan
        <3>2. sent' = sent
            BY <1>3 DEF BeginScan, EndScan, ScanFails
        <3> QED BY <1>0, <3>1, <3>2 DEF Types
    <2> QED BY <1>2, <2>1 DEF Doomed
<1>4. CASE BeginWalk(s)
    <2> DEFINE q == Deleteds(scan[s].gone)
    <2>1. /\ scan'[s].gone = {} /\ sent'[s] = sent[s] \o q
          /\ \A t \in Scans : t # s => scan'[t] = scan[t] /\ sent'[t] = sent[t]
        BY <1>0, <1>4 DEF BeginWalk, Types, ScanStates, ScanRecords
    <2>2. scan[s].gone \in SUBSET Files /\ sent[s] \in Seq(Changes)
        BY <1>0 DEF Types, ScanStates, ScanRecords
    <2>3. q \in Seq(Changes) /\ q \in Seq([kind : {"Deleted"}, path : scan[s].gone])
        BY <2>2, ChangeTypes, DeletedsSeq
    <2> HIDE DEF q
    <2>4. ASSUME NEW p \in Files, Doomed(s, p)' PROVE Doomed(s, p)
        <3>1. PICK i \in DOMAIN sent'[s] : sent'[s][i] = Change("Deleted", p)
            BY <2>1, <2>4 DEF Doomed
        <3>2. i \in 1 .. Len(sent[s]) + Len(q)
            BY <2>1, <2>2, <2>3, <3>1, ConcatProperties, LenProperties
        <3>3. CASE i \in 1 .. Len(sent[s])
            BY <2>1, <2>2, <2>3, <3>1, <3>3, ConcatProperties, LenProperties DEF Doomed
        <3>4. CASE i \notin 1 .. Len(sent[s])
            <4>1. i - Len(sent[s]) \in 1 .. Len(q) /\ sent'[s][i] = q[i - Len(sent[s])]
                BY <2>1, <2>2, <2>3, <3>2, <3>4, ConcatProperties, LenProperties
            <4>2. q[i - Len(sent[s])] \in [kind : {"Deleted"}, path : scan[s].gone]
                BY <2>3, <4>1, ElementOfSeq
            <4> QED BY <3>1, <4>1, <4>2 DEF Change, Doomed
        <3> QED BY <3>3, <3>4
    <2> QED BY <1>2, <2>1, <2>4
<1>5. ASSUME NEW p \in Files, DetectDeletion(s, p) \/ Unverified(s, p) PROVE DoomedIsOld'
    <2>1. /\ scan'[s].gone \subseteq scan[s].gone \cup {q \in Files : disk[q] = 0}
          /\ sent' = sent /\ \A t \in Scans : t # s => scan'[t] = scan[t]
        <3>1. scan[s] \in ScanRecords
            BY <1>0 DEF Types, ScanStates
        <3>2. CASE DetectDeletion(s, p)
            BY <1>0, <3>1, <3>2 DEF DetectDeletion, Types, ScanRecords
        <3>3. CASE Unverified(s, p)
            BY <1>0, <3>1, <3>3 DEF Unverified, Types, ScanRecords
        <3> QED BY <1>5, <3>2, <3>3
    <2> QED BY <1>1, <1>2, <2>1 DEF Doomed
<1>6. ASSUME NEW p \in Files, WalkFile(s, p) PROVE DoomedIsOld'
    <2>1. /\ scan'[s].gone = scan[s].gone
          /\ \A t \in Scans : t # s => scan'[t] = scan[t] /\ sent'[t] = sent[t]
          /\ sent'[s] = sent[s] \/ sent'[s] = Append(sent[s], Change("Modified", p))
        BY <1>0, <1>6 DEF WalkFile, Types, ScanStates, ScanRecords
    <2>2. sent[s] \in Seq(Changes) /\ p \in Visible
        BY <1>0, <1>6 DEF Types, WalkFile, ScanStates
    <2>3. ASSUME NEW q \in Files, Doomed(s, q)' PROVE Doomed(s, q)
        BY <2>1, <2>2, <2>3, ChangeTypes, AppendProperties, LenProperties DEF Doomed, Change
    <2> QED BY <1>2, <2>1, <2>3
<1> QED BY <1>3, <1>4, <1>5, <1>6 DEF ScanStep

LEMMA WriterDoesNoHarm ==
    ASSUME BaseInv, BaseInv', DoomedIsOld, DeletesFirst,
           \/ TakeChange \/ EndRescan \/ Commit \/ CommitFails \/ Crash
           \/ \E s \in Scans : Drain(s)
    PROVE  DoomedIsOld'
<1>0. Types /\ Shape /\ "rescan" \in Scans
    BY DEF BaseInv, Scans
<1>1. CASE TakeChange
    <2>1. \A s \in Scans, p \in Files : ~Doomed(s, p)
        BY <1>0, <1>1, NoScanWithChanges, DoomedIsScanning DEF TakeChange
    <2>2. sent' = sent /\ \A s \in Scans : scan'[s].gone = scan[s].gone
        <3>1. \A s \in Scans : scan[s] \in ScanRecords
            BY <1>0 DEF Types, ScanStates
        <3>2. \/ scan' = scan
              \/ scan' = [scan EXCEPT !["rescan"] = [scan["rescan"] EXCEPT !.stage = "begin"]]
            BY <1>0, <1>1 DEF TakeChange, Types
        <3>3. [scan["rescan"] EXCEPT !.stage = "begin"].gone = scan["rescan"].gone
            BY <1>0, <3>1 DEF ScanRecords
        <3>4. sent' = sent /\ scan \in [Scans -> ScanStates]
            BY <1>0, <1>1 DEF TakeChange, Types
        <3> DEFINE r == [scan["rescan"] EXCEPT !.stage = "begin"]
        <3> HIDE DEF r
        <3> QED BY <1>0, <3>2, <3>3, <3>4 DEF r
    <2> QED BY <2>1, <2>2 DEF DoomedIsOld, Doomed
<1>2. CASE EndRescan
    <2>1. sent' = sent /\ UNCHANGED <<disk, staged>>
        BY <1>2 DEF EndRescan, fsVars
    <2>2. scan'["rescan"].gone = {} /\ scan'["startup"] = scan["startup"]
        BY <1>0, <1>2 DEF EndRescan, Types, NoScan
    <2>3. sent["rescan"] = <<>>
        BY <1>2 DEF EndRescan, Scanning
    <2>4. \A s \in Scans, p \in Files : Doomed(s, p)' => Doomed(s, p)
        BY <2>1, <2>2, <2>3 DEF Doomed, Scans
    <2>5. \A p \in Files : index'[p] \in {index[p], staged[p]}
        BY <1>2 DEF EndRescan
    <2> QED BY <2>1, <2>4, <2>5, DoomedStays
<1>3. CASE Commit \/ CommitFails
    <2>1. UNCHANGED <<disk, scan, sent>>
        BY <1>3 DEF Commit, CommitFails, fsVars, scanVars
    <2>2. \A p \in Files : staged'[p] \in {staged[p], 0, index[p]}
                           /\ index'[p] \in {index[p], staged[p]}
        BY <1>3 DEF Commit, CommitFails
    <2>3. \A s \in Scans, p \in Files : Doomed(s, p)' => Doomed(s, p)
        BY <2>1 DEF Doomed
    <2> QED BY <2>1, <2>2, <2>3, DoomedStays
<1>4. CASE Crash
    BY <1>4 DEF Crash, DoomedIsOld, Doomed, NoScan
<1>5. ASSUME NEW s \in Scans, Drain(s) PROVE DoomedIsOld'
    <2> DEFINE c == Head(sent[s])
    <2>1. sent[s] \in Seq(Changes) /\ sent[s] # <<>> /\ scan' = scan /\ UNCHANGED <<disk, index>>
        BY <1>0, <1>5 DEF Drain, Types, fsVars
    <2>2. /\ c = sent[s][1] /\ 1 \in DOMAIN sent[s] /\ c \in Changes
          /\ sent'[s] = Tail(sent[s]) /\ \A t \in Scans : t # s => sent'[t] = sent[t]
        BY <1>0, <1>5, <2>1, HeadTailProperties, LenProperties, EmptySeq DEF Drain, Types
    <2>3. \A i \in DOMAIN sent'[s] : i + 1 \in DOMAIN sent[s] /\ 1 <= i + 1
                                     /\ sent'[s][i] = sent[s][i + 1]
        BY <2>1, <2>2, HeadTailProperties, LenProperties
    <2>4. ASSUME NEW t \in Scans, NEW p \in Files, Doomed(t, p)' PROVE Doomed(t, p)
        <3>1. CASE t = s
            BY <2>1, <2>3, <2>4, <3>1 DEF Doomed
        <3>2. CASE t # s
            BY <2>1, <2>2, <2>4, <3>2 DEF Doomed
        <3> QED BY <3>1, <3>2
    <2>5. c.kind \in {"Deleted", "Modified"} /\ c.path \in Files
        BY <2>2 DEF DeletesFirst, DeletesThenUpdates
    <2>6. CASE c.kind = "Deleted"
        <3>1. \A p \in Files : staged'[p] \in {staged[p], 0}
            BY <1>0, <1>5, <2>6 DEF Drain, Process, Types
        <3> QED BY <2>1, <2>4, <3>1, DoomedStays
    <2>7. CASE c.kind = "Modified"
        <3>1. \A i \in DOMAIN sent[s] : sent[s][i].kind = "Modified"
            BY <2>2, <2>5, <2>7, LenProperties, <2>1 DEF DeletesFirst, DeletesThenUpdates
        <3>2. scan[s].gone = {}
            BY <1>0, <2>2, <2>7 DEF DeletesFirst, DeletesThenUpdates, Shape, ScanShape
        <3>3. \A p \in Files : ~Doomed(s, p)
            BY <3>1, <3>2 DEF Doomed, Change
        <3>4. Scanning(s)
            BY <2>1 DEF Scanning
        <3>5. \A t \in Scans, p \in Files : ~Doomed(t, p)
            BY <1>0, <3>3, <3>4, DoomedIsScanning, OneScan
        <3> QED BY <2>4, <3>5 DEF DoomedIsOld
    <2> HIDE DEF c
    <2> QED BY <2>5, <2>6, <2>7
<1> QED BY <1>1, <1>2, <1>3, <1>4, <1>5

LEMMA RestDoesNoHarm ==
    ASSUME BaseInv, DoomedIsOld, Watch \/ Register \/ Start \/ WatcherFails \/ UNCHANGED vars
    PROVE  DoomedIsOld'
<1>0. Types /\ "startup" \in Scans
    BY DEF BaseInv, Scans
<1>1. UNCHANGED <<disk, staged, index, sent>>
    BY DEF Watch, HandleEvent, HandleError, Expire, Register, Start, WatcherFails, vars,
           fsVars, scanVars
<1>2. \A s \in Scans : scan'[s].gone = scan[s].gone
    <2>1. CASE Start
        BY <1>0, <2>1 DEF Start, Types, ScanStates, ScanRecords
    <2>2. CASE ~Start
        BY <2>2 DEF Watch, HandleEvent, HandleError, Expire, Register, WatcherFails, vars,
                    scanVars
    <2> QED BY <2>1, <2>2
<1> QED BY <1>1, <1>2 DEF DoomedIsOld, Doomed

LEMMA DeletesFirstKept ==
    ASSUME Types, Shape, DeletesFirst, [Next]_vars
    PROVE  DeletesFirst'
<1>0. "startup" \in Scans /\ "rescan" \in Scans
    BY DEF Scans
<1>1. \A b : DeletesThenUpdates(<<>>, b)
    BY DEF DeletesThenUpdates
<1>2. ASSUME NEW q, NEW a, NEW b, b \notin {"begin", "detect"}, DeletesThenUpdates(q, a)
      PROVE  DeletesThenUpdates(q, b)
    BY <1>2 DEF DeletesThenUpdates
<1>3. ASSUME UNCHANGED <<scan, sent>> PROVE DeletesFirst'
    BY <1>3 DEF DeletesFirst
<1>4. ASSUME NEW s \in Scans, NEW r, NEW q,
             scan' = [scan EXCEPT ![s] = r], sent' = [sent EXCEPT ![s] = q],
             DeletesThenUpdates(q, r.stage)
      PROVE  DeletesFirst'
    BY <1>4 DEF DeletesFirst, Types
<1>5. \A s \in Scans : sent = [sent EXCEPT ![s] = sent[s]] /\ scan = [scan EXCEPT ![s] = scan[s]]
    BY DEF Types
<1>6. CASE FileSystem \/ Watch \/ Commit \/ Register \/ CommitFails \/ WatcherFails
           \/ UNCHANGED vars
    BY <1>3, <1>6 DEF FileSystem, WriteFile, RemoveFile, RenameFile, RenameDir, MakeDir,
        RemoveDir, Happens, Watch, HandleEvent, HandleError, Expire, Commit, Register,
        CommitFails, WatcherFails, vars, scanVars
<1>7. CASE TakeChange
    <2>1. CASE Head(chan).kind = "Rescan"
        <3>1. sent["rescan"] = <<>> /\ sent' = sent
            BY <1>7 DEF TakeChange, Shape, ScanShape
        <3>2. scan' = [scan EXCEPT !["rescan"] = [scan["rescan"] EXCEPT !.stage = "begin"]]
            BY <1>7, <2>1 DEF TakeChange, Types
        <3> DEFINE r == [scan["rescan"] EXCEPT !.stage = "begin"]
        <3>3. sent' = [sent EXCEPT !["rescan"] = <<>>]
            BY <1>0, <1>5, <3>1
        <3>4. scan' = [scan EXCEPT !["rescan"] = r] /\ DeletesThenUpdates(<<>>, r.stage)
            BY <1>1, <3>2
        <3> HIDE DEF r
        <3> QED BY <1>0, <1>4, <3>3, <3>4
    <2>2. CASE Head(chan).kind # "Rescan"
        BY <1>3, <1>7, <2>2 DEF TakeChange
    <2> QED BY <2>1, <2>2
<1>8. CASE Start
    <2>1. sent["startup"] = <<>> /\ sent' = sent
        BY <1>0, <1>8 DEF Start, Shape, StoppedIsEmpty
    <2>2. scan' = [scan EXCEPT !["startup"] = [scan["startup"] EXCEPT !.stage = "begin"]]
        BY <1>8 DEF Start, Types
    <2> DEFINE r == [scan["startup"] EXCEPT !.stage = "begin"]
    <2>3. sent' = [sent EXCEPT !["startup"] = <<>>]
        BY <1>0, <1>5, <2>1
    <2>4. scan' = [scan EXCEPT !["startup"] = r] /\ DeletesThenUpdates(<<>>, r.stage)
        BY <1>1, <2>2
    <2> HIDE DEF r
    <2> QED BY <1>0, <1>4, <2>3, <2>4
<1>9. CASE EndRescan
    <2>1. DeletesThenUpdates(sent["rescan"], NoScan.stage)
        BY <1>0, <1>2 DEF DeletesFirst, NoScan
    <2> QED BY <1>0, <1>4, <1>5, <1>9, <2>1 DEF EndRescan
<1>10. CASE Crash
    BY <1>1, <1>10 DEF Crash, DeletesFirst, NoScan
<1>11. ASSUME NEW s \in Scans,
              \/ ScanStep(s) \/ Drain(s) \/ ScanFails(s)
              \/ \E p \in Files : Unverified(s, p)
       PROVE  DeletesFirst'
    <2>0. scan[s] \in ScanRecords /\ sent[s] \in Seq(Changes)
          /\ DeletesThenUpdates(sent[s], scan[s].stage)
        BY DEF Types, ScanStates, DeletesFirst
    <2>1. CASE BeginScan(s)
        <3> DEFINE r == [stage |-> "detect", todo |-> {p \in Files : index[p] # 0},
                         gone |-> {}, snapshot |-> index]
        <3>1. scan' = [scan EXCEPT ![s] = r] /\ sent' = [sent EXCEPT ![s] = sent[s]]
            BY <1>5, <2>1 DEF BeginScan
        <3>2. DeletesThenUpdates(sent[s], r.stage)
            BY <2>0, <2>1 DEF BeginScan, DeletesThenUpdates
        <3> HIDE DEF r
        <3> QED BY <1>4, <3>1, <3>2
    <2>2. CASE EndScan(s) \/ ScanFails(s)
        <3>1. sent' = sent
            BY <2>2 DEF EndScan, ScanFails
        <3>2. \E r : scan' = [scan EXCEPT ![s] = r] /\ r.stage \notin {"begin", "detect"}
            BY <2>2 DEF EndScan, ScanFails, NoScan
        <3>3. PICK r : scan' = [scan EXCEPT ![s] = r] /\ r.stage \notin {"begin", "detect"}
            BY <3>2
        <3>4. DeletesThenUpdates(sent[s], r.stage)
            BY <1>2, <2>0, <3>3
        <3> QED BY <1>4, <1>5, <3>1, <3>3, <3>4
    <2>3. ASSUME NEW p \in Files, DetectDeletion(s, p) \/ Unverified(s, p)
          PROVE  DeletesFirst'
        <3>1. /\ sent' = sent /\ scan'[s].stage = scan[s].stage
              /\ \A t \in Scans : t # s => scan'[t] = scan[t]
            <4>1. CASE DetectDeletion(s, p)
                BY <2>0, <4>1 DEF DetectDeletion, Types, ScanRecords
            <4>2. CASE Unverified(s, p)
                BY <2>0, <4>2 DEF Unverified, Types, ScanRecords
            <4> QED BY <2>3, <4>1, <4>2
        <3> QED BY <3>1 DEF DeletesFirst
    <2>4. CASE BeginWalk(s)
        <3> DEFINE q == Deleteds(scan[s].gone)
        <3>1. /\ scan'[s].stage = "walk" /\ sent'[s] = sent[s] \o q
              /\ \A t \in Scans : t # s => scan'[t] = scan[t] /\ sent'[t] = sent[t]
            BY <2>0, <2>4 DEF BeginWalk, Types, ScanRecords
        <3>2. scan[s].gone \in SUBSET Files
            BY <2>0 DEF ScanRecords
        <3>3. q \in Seq(Changes) /\ q \in Seq([kind : {"Deleted"}, path : scan[s].gone])
            BY <3>2, ChangeTypes, DeletedsSeq
        <3> HIDE DEF q
        <3>4. \A i \in DOMAIN q : q[i].kind = "Deleted" /\ q[i].path \in Files
            <4>1. \A i \in DOMAIN q : q[i] \in [kind : {"Deleted"}, path : scan[s].gone]
                BY <3>3, ElementOfSeq, LenProperties
            <4> QED BY <3>2, <4>1
        <3>5. \A i \in DOMAIN sent[s] : sent[s][i].kind = "Deleted" /\ sent[s][i].path \in Files
            BY <2>0, <2>4 DEF BeginWalk, DeletesThenUpdates
        <3>6. \A i \in DOMAIN (sent[s] \o q) :
                 (sent[s] \o q)[i].kind = "Deleted" /\ (sent[s] \o q)[i].path \in Files
            BY <2>0, <3>3, <3>4, <3>5, ConcatProperties, LenProperties
        <3>7. DeletesThenUpdates(sent'[s], "walk")
            BY <3>1, <3>6 DEF DeletesThenUpdates
        <3> QED BY <3>1, <3>7 DEF DeletesFirst
    <2>5. ASSUME NEW p \in Files, WalkFile(s, p) PROVE DeletesFirst'
        <3>1. /\ scan'[s].stage = "walk"
              /\ \A t \in Scans : t # s => scan'[t] = scan[t] /\ sent'[t] = sent[t]
              /\ sent'[s] = sent[s] \/ sent'[s] = Append(sent[s], Change("Modified", p))
            BY <2>0, <2>5 DEF WalkFile, Types, ScanRecords
        <3>2. DeletesThenUpdates(sent[s], "walk")
            BY <1>2, <2>0
        <3>3. p \in Visible
            BY <2>5 DEF Types, WalkFile, ScanStates
        <3> DEFINE q == Append(sent[s], Change("Modified", p))
        <3>4. /\ DOMAIN q = 1 .. Len(sent[s]) + 1 /\ DOMAIN sent[s] = 1 .. Len(sent[s])
              /\ Len(sent[s]) \in Nat
              /\ q[Len(sent[s]) + 1] = Change("Modified", p)
              /\ \A i \in 1 .. Len(sent[s]) : q[i] = sent[s][i]
            BY <2>0, <3>3, ChangeTypes, AppendProperties, LenProperties
        <3> HIDE DEF q
        <3>5. Change("Modified", p).kind = "Modified" /\ Change("Modified", p).path \in Files
            BY DEF Change
        <3>6. DeletesThenUpdates(q, "walk")
            BY <3>2, <3>4, <3>5 DEF DeletesThenUpdates
        <3>7. DeletesThenUpdates(sent'[s], "walk")
            BY <3>1, <3>2, <3>6 DEF q
        <3> QED BY <3>1, <3>7 DEF DeletesFirst
    <2>6. CASE Drain(s)
        <3>1. /\ sent[s] # <<>> /\ scan' = scan /\ sent'[s] = Tail(sent[s])
              /\ \A t \in Scans : t # s => sent'[t] = sent[t]
            BY <2>6 DEF Drain, Types
        <3>2. \A i \in DOMAIN sent'[s] : i + 1 \in DOMAIN sent[s]
                                         /\ sent'[s][i] = sent[s][i + 1] /\ i \in Nat
            BY <2>0, <3>1, HeadTailProperties, LenProperties
        <3>3. DeletesThenUpdates(sent'[s], scan[s].stage)
            BY <2>0, <3>2 DEF DeletesThenUpdates
        <3> QED BY <3>1, <3>3 DEF DeletesFirst
    <2> QED BY <1>11, <2>1, <2>2, <2>3, <2>4, <2>5, <2>6 DEF ScanStep
<1> QED BY <1>6, <1>7, <1>8, <1>9, <1>10, <1>11 DEF Next, Fault

LEMMA HarmInit == Init => HarmInv
<1>1. Init => DoomedIsOld /\ DeletesFirst
    BY DEF Init, DoomedIsOld, Doomed, DeletesFirst, DeletesThenUpdates, NoScan
<1> QED BY <1>1, BaseInit DEF HarmInv

LEMMA HarmNext ==
    ASSUME NoMoves, HarmInv, [Next]_vars
    PROVE  HarmInv'
<1>0. BaseInv /\ DoomedIsOld /\ DeletesFirst /\ Types /\ Shape /\ AllNoticed
    BY DEF HarmInv, BaseInv, NoMoves
<1>1. BaseInv'
    BY <1>0, BaseNext
<1>2. DeletesFirst'
    BY <1>0, DeletesFirstKept
<1>3. DoomedIsOld'
    BY <1>0, <1>1, FileSystemDoesNoHarm, ScanDoesNoHarm, WriterDoesNoHarm, RestDoesNoHarm
       DEF Next, Fault
<1> QED BY <1>1, <1>2, <1>3 DEF HarmInv

LEMMA TailIsShorter ==
    ASSUME NEW q \in Seq(Changes), q # <<>>
    PROVE  /\ Tail(q) # q
           /\ \A r \in Seq(Changes) : Tail(q) # q \o r
           /\ \A c \in Changes : Tail(q) # Append(q, c)
<1> DEFINE t == Tail(q)
           n == Len(q)
<1>1. Len(t) = n - 1 /\ n \in Nat
    BY HeadTailProperties, LenProperties
<1>2. ASSUME NEW r \in Seq(Changes) PROVE Len(q \o r) = n + Len(r) /\ Len(r) \in Nat
    BY ConcatProperties, LenProperties
<1>3. ASSUME NEW c \in Changes PROVE Len(Append(q, c)) = n + 1
    BY AppendProperties
<1>4. \A x : Len(x) >= n => t # x
    BY <1>1
<1>5. Len(q) >= n
    BY <1>1
<1> HIDE DEF t, n
<1>6. t # q
    BY <1>4, <1>5
<1>7. ASSUME NEW r \in Seq(Changes) PROVE t # q \o r
    <2>1. Len(q \o r) >= n
        BY <1>1, <1>2
    <2> QED BY <1>4, <2>1
<1>8. ASSUME NEW c \in Changes PROVE t # Append(q, c)
    <2>1. Len(Append(q, c)) >= n
        BY <1>1, <1>3
    <2> QED BY <1>4, <2>1
<1> QED BY <1>6, <1>7, <1>8 DEF t

\* The step that processes a change of a scan.
LEMMA HarmStep ==
    ASSUME HarmInv, [Next]_vars, NEW s \in Scans, up', sent[s] # <<>>,
           sent'[s] = Tail(sent[s]), NEW p \in Files, staged[p] = disk[p]
    PROVE  staged'[p] = disk[p]
<1>0. Types /\ sent[s] \in Seq(Changes) /\ scan[s] \in ScanRecords
    BY DEF HarmInv, BaseInv, Types, ScanStates
<1>2. sent'[s] # sent[s]
    BY <1>0, TailIsShorter, Zenon
<1>3. ASSUME NEW q \in Seq(Changes), sent'[s] = sent[s] \o q PROVE FALSE
    BY <1>0, <1>3, TailIsShorter, Zenon
<1>4. CASE \E t \in Scans : Drain(t)
    <2>1. PICK t \in Scans : Drain(t)
        BY <1>4
    <2>2. t = s
        BY <1>0, <1>2, <2>1 DEF Drain, Types
    <2> DEFINE c == Head(sent[s])
    <2>3. c = sent[s][1] /\ 1 \in DOMAIN sent[s]
        BY <1>0, HeadTailProperties, LenProperties, EmptySeq
    <2>4. c.kind \in {"Deleted", "Modified"} /\ c.path \in Files
        BY <2>3 DEF HarmInv, DeletesFirst, DeletesThenUpdates
    <2>5. CASE c.kind = "Modified"
        BY <1>0, <2>1, <2>2, <2>5 DEF Drain, Process, Types
    <2>6. CASE c.kind = "Deleted"
        <3>1. c = Change("Deleted", c.path)
            <4>1. c \in Changes
                BY <1>0, HeadTailProperties
            <4> QED BY <2>6, <4>1 DEF Changes, Change
        <3>2. Doomed(s, c.path)
            BY <2>3, <3>1 DEF Doomed
        <3>3. disk[c.path] = 0 \/ staged[c.path] # disk[c.path]
            BY <2>4, <3>2 DEF HarmInv, DoomedIsOld
        <3>4. Keys(c.path) = {c.path}
            BY <2>4 DEF Keys
        <3> QED BY <1>0, <2>1, <2>2, <2>6, <3>3, <3>4 DEF Drain, Process, Types
    <2> HIDE DEF c
    <2> QED BY <2>4, <2>5, <2>6
<1>5. CASE ~\E t \in Scans : Drain(t)
    <2>1. ASSUME NEW t \in Scans, BeginWalk(t) PROVE FALSE
        <3>1. CASE t = s
            <4>1. scan[s].gone \in SUBSET Files
                BY <1>0 DEF ScanRecords
            <4>2. sent'[s] = sent[s] \o Deleteds(scan[s].gone)
                BY <1>0, <2>1, <3>1 DEF BeginWalk, Types
            <4> QED BY <1>3, <4>1, <4>2, ChangeTypes
        <3>2. CASE t # s
            BY <1>0, <1>2, <2>1, <3>2 DEF BeginWalk, Types
        <3> QED BY <3>1, <3>2
    <2>2. ASSUME NEW t \in Scans, NEW q \in Files, WalkFile(t, q) PROVE FALSE
        <3>1. q \in Visible
            BY <1>0, <2>2 DEF Types, WalkFile, ScanStates
        <3>2. CASE sent'[s] = Append(sent[s], Change("Modified", q))
            <4>1. Change("Modified", q) \in Changes
                BY <3>1, ChangeTypes
            <4> QED BY <1>0, <3>2, <4>1, TailIsShorter, Zenon
        <3>3. sent'[s] = sent[s] \/ sent'[s] = Append(sent[s], Change("Modified", q))
            BY <1>0, <2>2 DEF WalkFile, Types
        <3> QED BY <1>2, <3>2, <3>3
    <2>3. ~Crash
        BY DEF Crash
    <2>4. CASE UNCHANGED sent
        BY <1>2, <2>4
    <2>5. UNCHANGED sent \/ \E t \in Scans : BeginWalk(t) \/ \E q \in Files : WalkFile(t, q)
        BY <1>5, <2>3 DEF Next, FileSystem, WriteFile, RemoveFile, RenameFile, RenameDir,
            MakeDir, RemoveDir, Happens, Watch, HandleEvent, HandleError, Expire, TakeChange,
            EndRescan, ScanStep, BeginScan, EndScan, DetectDeletion, Commit, Register,
            Start, Fault, CommitFails, WatcherFails, ScanFails, Unverified, vars, scanVars
    <2> QED BY <2>1, <2>2, <2>4, <2>5
<1> QED BY <1>4, <1>5

\* A scan takes no file that is on disk out of the index: when every operation is
\* reported, reported as lost or made while the program is down, and moves only then.
THEOREM ScansNeverHarm ==
    ASSUME NoMoves
    PROVE  Spec => ScansDoNoHarm
<1>1. HarmInv /\ [Next]_vars => HarmInv'
    BY HarmNext
<1>2. HarmInv /\ [Next]_vars =>
         [\A s \in Scans : up' /\ sent[s] # <<>> /\ sent'[s] = Tail(sent[s]) =>
             \A p \in Files : staged[p] = disk[p] => staged'[p] = disk[p]]_vars
    BY HarmStep
<1> QED BY <1>1, <1>2, HarmInit, PTL DEF Spec, ScansDoNoHarm

-----------------------------------------------------------------------------
(* The index follows the files.  Every step keeps what is stale or gone    *)
(* covered.                                                                *)

LEMMA KeysOf ==
    /\ \A p \in Files : Keys(p) = {p}
    /\ \A d \in Dirs : d \notin Files /\ Keys(d) = InDir(d)
    /\ \A p \in Files : DirOf(p) \in Dirs /\ p \in InDir(DirOf(p))
<1>1. \A d \in Dirs : d \notin Files
    BY SyncAssumption DEF Files
<1> QED BY <1>1 DEF Keys, InDir, Files, DirOf

LEMMA FindsIsScanning ==
    ASSUME Shape, NEW s \in Scans, NEW p
    PROVE  /\ Finds(s, p) => Scanning(s)
           /\ FindsGone(s, p) => Scanning(s)
<1>1. p \in scan[s].gone => Scanning(s)
    BY DEF Shape, ScanShape, Scanning
<1> QED BY <1>1 DEF Finds, FindsGone, Doomed, Scanning

\* A file operation: all that happens to p is reported, or noted to be lost.
RawKept == \A i \in DOMAIN raw : i \in DOMAIN raw' /\ raw'[i] = raw[i]

ChangeIsReported(p) ==
    \E i \in DOMAIN raw' :
       /\ Reports(raw'[i], p) \/ (raw'[i] = Overflow /\ Newer(p)')
       /\ \A j \in DOMAIN raw' : j <= i

OperationIsNoticed ==
    /\ RawKept
    /\ \A p \in Visible : disk'[p] # 0 /\ disk'[p] # disk[p] => ChangeIsReported(p)
    /\ \A p \in Files : disk'[p] = 0 /\ disk[p] # 0 =>
          DirGone(DirOf(p))' \/ (DirOf(p) \in dirs' /\ (FileGone(p) \/ LossNoted)')
    /\ \A d \in dirs \ dirs' : DirGone(d)'
    /\ \A i \in DOMAIN raw' \ DOMAIN raw : \A p \in Visible :
          Removes(raw'[i], p) => disk'[p] = 0

LEMMA OperationCovered ==
    ASSUME Types, Covered, OperationIsNoticed,
           UNCHANGED <<pending, chan, scanVars, staged>>
    PROVE  Covered'
<1>0. /\ RawKept
      /\ \A p \in Visible : p \in Files
      /\ UNCHANGED <<scan, sent>>
    BY DEF OperationIsNoticed, scanVars, Visible
<1>1. ASSUME NEW p PROVE Reported(p) => Reported(p)'
    BY <1>0 DEF Reported, RawKept
<1>2. LossNoted => LossNoted'
    BY <1>0 DEF LossNoted, RawKept
<1>3. ASSUME NEW p PROVE /\ DirGone(p) => DirGone(p)'
                         /\ FileGone(p) => FileGone(p)'
    BY <1>0 DEF DirGone, FileGone, RawKept
<1>4. ASSUME NEW p \in Visible, disk'[p] # 0, disk'[p] # disk[p]
      PROVE  Reported(p)' \/ (LossNoted' /\ Newer(p)')
    <2>1. ChangeIsReported(p)
        BY <1>4 DEF OperationIsNoticed
    <2> QED BY <2>1 DEF ChangeIsReported, Reported, LossNoted
<1>5. StaleIsCovered'
    <2> SUFFICES ASSUME NEW p \in Visible, disk'[p] # 0, staged'[p] # disk'[p]
                 PROVE  \/ Reported(p)'
                        \/ LossNoted' /\ Newer(p)'
                        \/ \E s \in Scans : Finds(s, p)'
        BY DEF StaleIsCovered
    <2>1. CASE disk'[p] # disk[p]
        BY <1>4, <2>1
    <2>2. CASE disk'[p] = disk[p]
        <3>1. \/ Reported(p)
              \/ LossNoted /\ Newer(p)
              \/ \E s \in Scans : Finds(s, p)
            BY <2>2 DEF Covered, StaleIsCovered
        <3>2. Newer(p) => Newer(p)'
            BY <2>2 DEF Newer
        <3>3. \A s \in Scans : Finds(s, p) => Finds(s, p)'
            BY <1>0, <2>2, <3>2 DEF Finds, NeedsIndexing
        <3> QED BY <1>1, <1>2, <3>1, <3>2, <3>3
    <2> QED BY <2>1, <2>2
<1>6. LateInChan'
    <2> SUFFICES ASSUME NEW p \in Visible, disk'[p] # 0,
                        NEW i \in DOMAIN chan, Deletes(chan[i], p)
                 PROVE  \/ \E j \in DOMAIN chan :
                              j > i /\ chan[j] \in {Change("Modified", p), Change("Rescan", Root)}
                        \/ p \in pending
                        \/ \E j \in DOMAIN raw' : raw'[j] = Overflow \/ Reports(raw'[j], p)
        BY DEF LateInChan
    <2>1. CASE disk'[p] # disk[p]
        <3>1. ChangeIsReported(p)
            BY <2>1 DEF OperationIsNoticed
        <3> QED BY <3>1 DEF ChangeIsReported
    <2>2. CASE disk'[p] = disk[p]
        BY <1>0, <2>2 DEF Covered, LateInChan, RawKept
    <2> QED BY <2>1, <2>2
<1>7. LateInRaw'
    <2> SUFFICES ASSUME NEW p \in Visible, disk'[p] # 0,
                        NEW i \in DOMAIN raw', Removes(raw'[i], p)
                 PROVE  \E j \in DOMAIN raw' : j >= i /\ (raw'[j] = Overflow \/ Reports(raw'[j], p))
        BY DEF LateInRaw
    <2>1. CASE disk'[p] # disk[p]
        <3>1. ChangeIsReported(p)
            BY <2>1 DEF OperationIsNoticed
        <3> QED BY <3>1 DEF ChangeIsReported
    <2>2. CASE disk'[p] = disk[p]
        <3>1. i \in DOMAIN raw /\ raw'[i] = raw[i]
            BY <1>0 DEF OperationIsNoticed, RawKept
        <3>2. PICK j \in DOMAIN raw : j >= i /\ (raw[j] = Overflow \/ Reports(raw[j], p))
            BY <2>2, <3>1 DEF Covered, LateInRaw
        <3> QED BY <1>0, <3>2 DEF RawKept
    <2> QED BY <2>1, <2>2
<1>8. LateInScan'
    <2> SUFFICES ASSUME NEW p \in Visible, NEW s \in Scans, disk'[p] # 0, Doomed(s, p)'
                 PROVE  Reported(p)' \/ LossNoted'
        BY DEF LateInScan
    <2>1. Doomed(s, p)
        BY <1>0 DEF Doomed
    <2> QED BY <1>1, <1>2, <1>4, <2>1 DEF Covered, LateInScan
<1>9. GhostIsCovered'
    <2> SUFFICES ASSUME NEW p \in Files, disk'[p] = 0, staged'[p] # 0
                 PROVE  \/ DirGone(DirOf(p))'
                        \/ /\ DirOf(p) \in dirs'
                           /\ \/ FileGone(p)' \/ LossNoted'
                              \/ \E s \in Scans : FindsGone(s, p)'
        BY DEF GhostIsCovered
    <2>1. CASE disk[p] # 0
        BY <2>1 DEF OperationIsNoticed
    <2>2. CASE disk[p] = 0
        <3>1. \A s \in Scans : FindsGone(s, p) => FindsGone(s, p)'
            BY <1>0 DEF FindsGone, Doomed
        <3>2. \/ DirGone(DirOf(p))
              \/ /\ DirOf(p) \in dirs
                 /\ FileGone(p) \/ LossNoted \/ \E s \in Scans : FindsGone(s, p)
            BY <2>2 DEF Covered, GhostIsCovered
        <3>3. DirOf(p) \in dirs => DirOf(p) \in dirs' \/ DirGone(DirOf(p))'
            BY DEF OperationIsNoticed
        <3> QED BY <1>2, <1>3, <3>1, <3>2, <3>3
    <2> QED BY <2>1, <2>2
<1> QED BY <1>5, <1>6, <1>7, <1>8, <1>9 DEF Covered

\* The events of an operation come last; or an overflow does.
EventsAppended(events) ==
    /\ DOMAIN raw = 1 .. Len(raw) /\ Len(raw) \in Nat
    /\ DOMAIN raw' = 1 .. Len(raw) + Len(events)
    /\ \A k \in 1 .. Len(events) : raw'[Len(raw) + k] = events[k]

OverflowIsLast ==
    /\ \E i \in DOMAIN raw' : raw'[i] = Overflow /\ \A j \in DOMAIN raw' : j <= i
    /\ \A j \in DOMAIN raw' \ DOMAIN raw : raw'[j] = Overflow

LEMMA EventsAreKept ==
    ASSUME Types, up, NEW S, NEW events \in Seq(Events), NoticedAs(S, events)
    PROVE  /\ RawKept
           /\ EventsAppended(events) \/ ("dropped" \in S /\ OverflowIsLast)
<1>0. raw \in Seq(Events) /\ Len(raw) \in Nat /\ DOMAIN raw = 1 .. Len(raw)
    BY LenProperties DEF Types
<1>1. CASE raw' = raw \o events
    <2>1. /\ raw \o events \in Seq(Events) /\ Len(raw \o events) = Len(raw) + Len(events)
          /\ \A i \in 1 .. Len(raw) + Len(events) : (raw \o events)[i] =
                IF i <= Len(raw) THEN raw[i] ELSE events[i - Len(raw)]
          /\ Len(events) \in Nat
        BY <1>0, ConcatProperties, LenProperties
    <2>2. DOMAIN raw' = 1 .. Len(raw) + Len(events)
        BY <1>1, <2>1, LenProperties
    <2>3. \A i \in 1 .. Len(raw) : i \in 1 .. Len(raw) + Len(events) /\ raw'[i] = raw[i]
        BY <1>0, <1>1, <2>1
    <2>4. ASSUME NEW k \in 1 .. Len(events) PROVE raw'[Len(raw) + k] = events[k]
        <3>1. /\ Len(raw) + k \in 1 .. Len(raw) + Len(events)
              /\ ~(Len(raw) + k <= Len(raw)) /\ Len(raw) + k - Len(raw) = k
            BY <1>0, <2>1
        <3> QED BY <1>1, <2>1, <3>1
    <2> QED BY <1>0, <2>2, <2>3, <2>4 DEF RawKept, EventsAppended
<1>2. CASE raw' = Append(raw, Overflow) /\ "dropped" \in S
    <2>1. /\ DOMAIN raw' = 1 .. Len(raw) + 1 /\ raw'[Len(raw) + 1] = Overflow
          /\ \A i \in 1 .. Len(raw) : raw'[i] = raw[i]
        BY <1>0, <1>2, EventTypes, AppendProperties, LenProperties
    <2>2. Len(raw) + 1 \in DOMAIN raw' /\ \A j \in DOMAIN raw' : j <= Len(raw) + 1
        BY <1>0, <2>1
    <2>3. \A j \in DOMAIN raw' \ DOMAIN raw : j = Len(raw) + 1
        BY <1>0, <2>1
    <2> QED BY <1>0, <1>2, <2>1, <2>2, <2>3 DEF RawKept, OverflowIsLast
<1>3. CASE raw' = raw /\ raw # <<>> /\ Last(raw) = Overflow /\ "dropped" \in S
    <2>1. Len(raw) \in DOMAIN raw /\ raw[Len(raw)] = Overflow
        BY <1>0, <1>3, EmptySeq DEF Last
    <2>2. \A j \in DOMAIN raw : j <= Len(raw)
        BY <1>0
    <2> QED BY <1>3, <2>1, <2>2 DEF RawKept, OverflowIsLast
<1> QED BY <1>1, <1>2, <1>3 DEF NoticedAs

LEMMA EventFields ==
    /\ \A k, x, y : /\ Event(k, x, y).kind = k /\ Event(k, x, y).path = x
                    /\ Event(k, x, y).to = y
    /\ \A p : ~Removes(Overflow, p) /\ ~Reports(Overflow, p)
    /\ \A p : ~Removes(Error, p) /\ ~Reports(Error, p)
BY DEF Event, Overflow, Error, Removes, Reports

\* Of a rename, the event with both paths comes last.
LEMMA RenamedEvents ==
    ASSUME NEW x \in Paths, NEW y \in Paths
    PROVE  LET e == Renamed(x, y) IN
           /\ e \in Seq(Events) /\ Len(e) = 3
           /\ e[1] = Event("From", x, x) /\ e[2] = Event("To", y, y) /\ e[3] = Event("Both", x, y)
BY EventTypes DEF Renamed

\* A file operation outside of the program: nothing of the program changes.
LEMMA HappensElsewhere ==
    ASSUME NEW S, NEW events, Happens(S, events)
    PROVE  UNCHANGED <<pending, chan, scanVars, staged, index, up, degraded, blind>>
BY DEF Happens, history

LEMMA WriteFileCovered ==
    ASSUME Noticed, BaseInv, Covered, up, NEW p \in Files, WriteFile(p)
    PROVE  Covered'
<1> DEFINE events == <<Event(IF disk[p] = 0 THEN "Create" ELSE "Modify", p, p)>>
<1>0. /\ Types /\ Shape /\ FileOps \in SUBSET NoticedSituations
      /\ p \in Paths /\ Happens(FileOps, events) /\ Keys(p) = {p}
    BY KeysOf DEF BaseInv, Noticed, AllNoticed, WriteFile, Paths
<1>1. events \in Seq(Events) /\ Len(events) = 1
    BY <1>0 DEF Event, Events
<1>2. RawKept /\ (EventsAppended(events) \/ OverflowIsLast)
    BY <1>0, <1>1, HappensNoticed, EventsAreKept
<1>3. /\ disk' = [disk EXCEPT ![p] = clock + 1] /\ dirs' = dirs /\ clock \in Nat
      /\ \A q \in Files : q # p => disk'[q] = disk[q]
    BY <1>0, SyncAssumption DEF WriteFile, Types
<1>4. disk'[p] = clock + 1 /\ disk'[p] # 0
    BY <1>0, <1>3 DEF Types
<1>5. Newer(p)'
    <2>1. staged' = staged
        BY <1>0, HappensElsewhere
    <2>2. staged[p] \in Nat /\ staged[p] <= clock
        BY SyncAssumption, <1>0 DEF BaseInv, InPast, Types
    <2> QED BY <1>3, <1>4, <2>1, <2>2 DEF Newer
<1>6. Reports(events[1], p) /\ \A q : ~Removes(events[1], q)
    BY <1>0, EventFields DEF Reports, Removes
<1> HIDE DEF events
<1>7. OperationIsNoticed
    <2>1. CASE EventsAppended(events)
        <3>1. /\ Len(raw) + 1 \in DOMAIN raw' /\ raw'[Len(raw) + 1] = events[1]
              /\ \A j \in DOMAIN raw' : j <= Len(raw) + 1
              /\ \A j \in DOMAIN raw' \ DOMAIN raw : j = Len(raw) + 1
            BY <1>1, <2>1 DEF EventsAppended
        <3>2. ChangeIsReported(p)
            BY <1>6, <3>1 DEF ChangeIsReported
        <3>3. \A i \in DOMAIN raw' \ DOMAIN raw : \A q : ~Removes(raw'[i], q)
            BY <1>6, <3>1
        <3> QED BY <1>2, <1>3, <1>4, <3>2, <3>3 DEF OperationIsNoticed, Visible
    <2>2. CASE OverflowIsLast
        <3>1. ChangeIsReported(p)
            BY <1>5, <2>2 DEF ChangeIsReported, OverflowIsLast
        <3>2. \A i \in DOMAIN raw' \ DOMAIN raw : \A q : ~Removes(raw'[i], q)
            BY <2>2, EventFields DEF OverflowIsLast
        <3> QED BY <1>2, <1>3, <1>4, <3>1, <3>2 DEF OperationIsNoticed, Visible
    <2> QED BY <1>2, <2>1, <2>2
<1> QED BY <1>0, <1>7, OperationCovered, HappensElsewhere

LEMMA RemoveFileCovered ==
    ASSUME Noticed, BaseInv, FilesHaveDirs, Covered, up, NEW p \in Files, RemoveFile(p)
    PROVE  Covered'
<1> DEFINE events == <<Event("Remove", p, p)>>
<1>0. /\ Types /\ Shape /\ FileOps \in SUBSET NoticedSituations
      /\ p \in Paths /\ Happens(FileOps, events) /\ Keys(p) = {p}
    BY KeysOf DEF BaseInv, Noticed, AllNoticed, RemoveFile, Paths
<1>1. events \in Seq(Events) /\ Len(events) = 1
    BY <1>0 DEF Event, Events
<1>2. RawKept /\ (EventsAppended(events) \/ OverflowIsLast)
    BY <1>0, <1>1, HappensNoticed, EventsAreKept
<1>3. /\ dirs' = dirs /\ disk'[p] = 0
      /\ \A q \in Files : q # p => disk'[q] = disk[q]
    BY <1>0 DEF RemoveFile, Types
<1>4. DirOf(p) \in dirs
    BY DEF FilesHaveDirs, RemoveFile
<1>5. events[1].kind = "Remove" /\ events[1].path = p /\ \A q : Removes(events[1], q) => q = p
    BY <1>0, EventFields DEF Removes
<1> HIDE DEF events
<1>6. OperationIsNoticed
    <2>1. CASE EventsAppended(events)
        <3>1. /\ Len(raw) + 1 \in DOMAIN raw' /\ raw'[Len(raw) + 1] = events[1]
              /\ \A j \in DOMAIN raw' \ DOMAIN raw : j = Len(raw) + 1
            BY <1>1, <2>1 DEF EventsAppended
        <3>2. FileGone(p)'
            BY <1>5, <3>1 DEF FileGone
        <3>3. \A i \in DOMAIN raw' \ DOMAIN raw : \A q : Removes(raw'[i], q) => q = p
            BY <1>5, <3>1
        <3> QED BY <1>2, <1>3, <1>4, <3>2, <3>3 DEF OperationIsNoticed, Visible
    <2>2. CASE OverflowIsLast
        <3>1. LossNoted'
            BY <2>2 DEF LossNoted, OverflowIsLast
        <3>2. \A i \in DOMAIN raw' \ DOMAIN raw : \A q : ~Removes(raw'[i], q)
            BY <2>2, EventFields DEF OverflowIsLast
        <3> QED BY <1>2, <1>3, <1>4, <3>1, <3>2 DEF OperationIsNoticed, Visible
    <2> QED BY <1>2, <2>1, <2>2
<1> QED BY <1>0, <1>6, OperationCovered, HappensElsewhere

LEMMA RenameFileCovered ==
    ASSUME Noticed, BaseInv, FilesHaveDirs, Covered, up, NEW p \in Files, NEW q \in Files,
           RenameFile(p, q)
    PROVE  Covered'
<1> DEFINE events == Renamed(p, q)
<1>0. /\ Types /\ Shape /\ MoveOps \in SUBSET NoticedSituations /\ "dropped" \notin MoveOps
      /\ p \in Paths /\ q \in Paths /\ p # q
      /\ Happens(MoveOps, events) /\ Keys(p) = {p} /\ Keys(q) = {q}
    BY KeysOf DEF BaseInv, Noticed, AllNoticed, RenameFile, Paths
<1>1. /\ events \in Seq(Events) /\ Len(events) = 3
      /\ events[1] = Event("From", p, p) /\ events[2] = Event("To", q, q)
      /\ events[3] = Event("Both", p, q)
    BY <1>0, RenamedEvents
<1>2. RawKept /\ EventsAppended(events)
    BY <1>0, <1>1, HappensNoticed, EventsAreKept
<1>3. /\ dirs' = dirs /\ disk'[p] = 0
      /\ \A x \in Files : x # p /\ x # q => disk'[x] = disk[x]
    BY <1>0 DEF RenameFile, Types
<1>4. disk'[q] = disk[p] /\ disk[p] # 0 /\ DirOf(p) \in dirs
    BY <1>0 DEF RenameFile, Types, FilesHaveDirs
<1>5. /\ events[1].kind = "From" /\ events[1].path = p /\ Reports(events[3], q)
      /\ \A k \in 1 .. 3 : \A x : Removes(events[k], x) => x = p
    BY <1>0, <1>1, EventFields DEF Removes, Reports
<1> HIDE DEF events
<1>6. /\ Len(raw) + 1 \in DOMAIN raw' /\ raw'[Len(raw) + 1] = events[1]
      /\ Len(raw) + 3 \in DOMAIN raw' /\ raw'[Len(raw) + 3] = events[3]
      /\ \A j \in DOMAIN raw' : j <= Len(raw) + 3
    BY <1>1, <1>2 DEF EventsAppended
<1>7. \A j \in DOMAIN raw' \ DOMAIN raw : \E k \in 1 .. 3 : raw'[j] = events[k]
    <2> SUFFICES ASSUME NEW j \in DOMAIN raw' \ DOMAIN raw
                 PROVE  \E k \in 1 .. 3 : raw'[j] = events[k]
        OBVIOUS
    <2>1. j - Len(raw) \in 1 .. 3 /\ j = Len(raw) + (j - Len(raw))
        BY <1>1, <1>2 DEF EventsAppended
    <2> QED BY <1>1, <1>2, <2>1 DEF EventsAppended
<1>8. FileGone(p)'
    BY <1>5, <1>6 DEF FileGone
<1>9. ChangeIsReported(q)
    BY <1>5, <1>6 DEF ChangeIsReported
<1>10. \A i \in DOMAIN raw' \ DOMAIN raw : \A x : Removes(raw'[i], x) => x = p
    BY <1>5, <1>7
<1>11. OperationIsNoticed
    BY <1>2, <1>3, <1>4, <1>8, <1>9, <1>10 DEF OperationIsNoticed, Visible
<1> QED BY <1>0, <1>11, OperationCovered, HappensElsewhere

LEMMA RenameDirCovered ==
    ASSUME Noticed, BaseInv, FilesHaveDirs, Covered, up, NEW d \in Dirs, NEW e \in Dirs,
           RenameDir(d, e)
    PROVE  Covered'
<1> DEFINE events == Renamed(d, e)
<1>0. /\ Types /\ Shape /\ MoveOps \in SUBSET NoticedSituations /\ "dropped" \notin MoveOps
      /\ d \in Paths /\ e \in Paths /\ d # e
      /\ Happens(MoveOps, events) /\ Keys(d) = InDir(d) /\ Keys(e) = InDir(e)
    BY KeysOf DEF BaseInv, Noticed, AllNoticed, RenameDir, Paths
<1>1. /\ events \in Seq(Events) /\ Len(events) = 3
      /\ events[1] = Event("From", d, d) /\ events[2] = Event("To", e, e)
      /\ events[3] = Event("Both", d, e)
    BY <1>0, RenamedEvents
<1>2. RawKept /\ EventsAppended(events)
    BY <1>0, <1>1, HappensNoticed, EventsAreKept
<1>3. /\ dirs' = (dirs \ {d}) \cup {e}
      /\ \A x \in Files : /\ DirOf(x) = d => disk'[x] = 0
                          /\ DirOf(x) # d /\ DirOf(x) # e => disk'[x] = disk[x]
    BY <1>0 DEF RenameDir
<1>4. \A x \in Files : DirOf(x) = e => disk[x] = 0
    BY DEF RenameDir, FilesHaveDirs
<1>5. /\ events[1].kind = "From" /\ events[1].path = d
      /\ \A x \in Files : DirOf(x) = e => Reports(events[3], x)
      /\ \A k \in 1 .. 3 : \A x : Removes(events[k], x) => x \in Files /\ DirOf(x) = d
    BY <1>0, <1>1, EventFields DEF Removes, Reports, InDir
<1> HIDE DEF events
<1>6. /\ Len(raw) + 1 \in DOMAIN raw' /\ raw'[Len(raw) + 1] = events[1]
      /\ Len(raw) + 3 \in DOMAIN raw' /\ raw'[Len(raw) + 3] = events[3]
      /\ \A j \in DOMAIN raw' : j <= Len(raw) + 3
    BY <1>1, <1>2 DEF EventsAppended
<1>7. \A j \in DOMAIN raw' \ DOMAIN raw : \E k \in 1 .. 3 : raw'[j] = events[k]
    <2> SUFFICES ASSUME NEW j \in DOMAIN raw' \ DOMAIN raw
                 PROVE  \E k \in 1 .. 3 : raw'[j] = events[k]
        OBVIOUS
    <2>1. j - Len(raw) \in 1 .. 3 /\ j = Len(raw) + (j - Len(raw))
        BY <1>1, <1>2 DEF EventsAppended
    <2> QED BY <1>1, <1>2, <2>1 DEF EventsAppended
<1>8. DirGone(d)'
    BY <1>5, <1>6 DEF DirGone
<1>9. \A x \in Files : DirOf(x) = e => ChangeIsReported(x)
    BY <1>5, <1>6 DEF ChangeIsReported
<1>10. \A i \in DOMAIN raw' \ DOMAIN raw : \A x :
          Removes(raw'[i], x) => x \in Files /\ DirOf(x) = d
    BY <1>5, <1>7
<1>11. \A x \in Files : disk'[x] = 0 /\ disk[x] # 0 => DirGone(DirOf(x))'
    BY <1>3, <1>4, <1>8
<1>12. \A x \in Visible : disk'[x] # 0 /\ disk'[x] # disk[x] => ChangeIsReported(x)
    BY <1>3, <1>9 DEF Visible
<1>13. OperationIsNoticed
    BY <1>2, <1>3, <1>8, <1>10, <1>11, <1>12 DEF OperationIsNoticed
<1> QED BY <1>0, <1>13, OperationCovered, HappensElsewhere

LEMMA MakeDirCovered ==
    ASSUME Noticed, BaseInv, Covered, up, NEW d \in Dirs, MakeDir(d)
    PROVE  Covered'
<1> DEFINE events == <<Event("Create", d, d)>>
<1>0. /\ Types /\ Shape /\ DirOps \in SUBSET NoticedSituations /\ "dropped" \notin DirOps
      /\ d \in Paths /\ Happens(DirOps, events)
      /\ dirs' = dirs \cup {d} /\ disk' = disk
    BY DEF BaseInv, Noticed, AllNoticed, MakeDir, Paths
<1>1. events \in Seq(Events) /\ Len(events) = 1
    BY <1>0 DEF Event, Events
<1>2. RawKept /\ EventsAppended(events)
    BY <1>0, <1>1, HappensNoticed, EventsAreKept
<1>3. \A q : ~Removes(events[1], q)
    BY EventFields DEF Removes
<1> HIDE DEF events
<1>4. \A j \in DOMAIN raw' \ DOMAIN raw : j = Len(raw) + 1
    BY <1>1, <1>2 DEF EventsAppended
<1>5. \A i \in DOMAIN raw' \ DOMAIN raw : \A q : ~Removes(raw'[i], q)
    BY <1>1, <1>2, <1>3, <1>4 DEF EventsAppended
<1>6. OperationIsNoticed
    BY <1>0, <1>2, <1>5 DEF OperationIsNoticed
<1> QED BY <1>0, <1>6, OperationCovered, HappensElsewhere

LEMMA RemoveDirCovered ==
    ASSUME Noticed, BaseInv, Covered, up, NEW d \in Dirs, RemoveDir(d)
    PROVE  Covered'
<1> DEFINE events == <<Event("Remove", d, d)>>
<1>0. /\ Types /\ Shape /\ DirOps \in SUBSET NoticedSituations /\ "dropped" \notin DirOps
      /\ d \in Paths /\ Happens(DirOps, events) /\ Keys(d) = InDir(d)
      /\ dirs' = dirs \ {d} /\ disk' = disk
    BY KeysOf DEF BaseInv, Noticed, AllNoticed, RemoveDir, Paths
<1>1. events \in Seq(Events) /\ Len(events) = 1
    BY <1>0 DEF Event, Events
<1>2. RawKept /\ EventsAppended(events)
    BY <1>0, <1>1, HappensNoticed, EventsAreKept
<1>3. /\ events[1].kind = "Remove" /\ events[1].path = d
      /\ \A q : Removes(events[1], q) => q \in InDir(d)
    BY <1>0, EventFields DEF Removes
<1> HIDE DEF events
<1>4. /\ Len(raw) + 1 \in DOMAIN raw' /\ raw'[Len(raw) + 1] = events[1]
      /\ \A j \in DOMAIN raw' \ DOMAIN raw : j = Len(raw) + 1
    BY <1>1, <1>2 DEF EventsAppended
<1>5. \A i \in DOMAIN raw' \ DOMAIN raw : \A q : Removes(raw'[i], q) => disk'[q] = 0
    BY <1>0, <1>3, <1>4 DEF RemoveDir
<1>6. DirGone(d)'
    BY <1>3, <1>4 DEF DirGone
<1>7. OperationIsNoticed
    BY <1>0, <1>2, <1>5, <1>6 DEF OperationIsNoticed
<1> QED BY <1>0, <1>7, OperationCovered, HappensElsewhere

\* The watcher task handles an event, or its end: what waits or is sent at once
\* stays covered.
LEMMA PipeCovered ==
    ASSUME Types, OnlyVisible, Covered, raw # <<>>,
           NEW expired \in SUBSET (pending \cup ModifiedBy(Head(raw))),
           chan' = chan \o ImmediateBy(Head(raw)) \o Modifieds(expired),
           pending' = (pending \cup ModifiedBy(Head(raw))) \ expired,
           raw' = Tail(raw),
           UNCHANGED <<disk, dirs, staged, scan, sent>>
    PROVE  Covered'
<1> DEFINE e == Head(raw)
           imm == ImmediateBy(e)
           mods == Modifieds(expired)
           n == Len(chan)
           m == Len(imm)
<1>1. /\ e \in Events /\ e = raw[1] /\ 1 \in DOMAIN raw
      /\ \A i \in DOMAIN raw : i = 1 \/ (i - 1 \in DOMAIN raw' /\ raw'[i - 1] = raw[i])
      /\ \A i \in DOMAIN raw' : i + 1 \in DOMAIN raw /\ raw'[i] = raw[i + 1] /\ i \in Nat
      /\ \A i \in DOMAIN raw : i \in Nat /\ i >= 1
    BY HeadTailProperties, LenProperties, EmptySeq DEF Types
<1>2. /\ expired \in SUBSET Visible /\ expired \in SUBSET Files
      /\ ModifiedBy(e) \in SUBSET Visible
    BY <1>1, ModifiedByVisible DEF Types, Visible
<1>3. /\ chan \in Seq(Changes) /\ imm \in Seq(Changes) /\ mods \in Seq(Changes)
      /\ chan \o imm \in Seq(Changes)
    BY <1>1, <1>2, ImmediateByTypes, ChangeTypes, ConcatProperties DEF Types
<1>4. /\ mods \in Seq([kind : {"Modified"}, path : expired])
      /\ \A p \in expired : \E i \in DOMAIN mods : mods[i] = Change("Modified", p)
    BY <1>2, ModifiedsSeq
<1>5. /\ m \in {0, 1} /\ DOMAIN imm = 1 .. m
      /\ m = 1 => \/ imm[1] = Change("Rescan", Root)
                  \/ imm[1] = Change("Deleted", e.path) /\ e.kind \in {"Remove", "From", "Both"}
      /\ e.kind = "Overflow" => m = 1 /\ imm[1] = Change("Rescan", Root)
      /\ e.kind \in {"Remove", "From", "Both"} /\ ~Skipped(e.path) =>
            m = 1 /\ imm[1] = Change("Deleted", e.path)
    <2>0. \A c : Len(<<c>>) = 1 /\ DOMAIN <<c>> = 1 .. 1 /\ <<c>>[1] = c
        OBVIOUS
    <2>1. CASE e.kind = "Overflow"
        <3>1. imm = <<Change("Rescan", Root)>>
            BY <2>1 DEF ImmediateBy
        <3> HIDE DEF e, imm
        <3> QED BY <2>0, <2>1, <3>1
    <2>2. CASE e.kind \in {"Remove", "From", "Both"} /\ ~Skipped(e.path)
        <3>1. imm = <<Change("Deleted", e.path)>>
            BY <2>2 DEF ImmediateBy
        <3> HIDE DEF e, imm
        <3> QED BY <2>0, <2>2, <3>1
    <2>3. CASE e.kind # "Overflow" /\ ~(e.kind \in {"Remove", "From", "Both"} /\ ~Skipped(e.path))
        <3>1. imm = <<>>
            BY <2>3 DEF ImmediateBy
        <3> HIDE DEF e, imm
        <3>2. Len(imm) = 0 /\ DOMAIN imm = 1 .. 0
            BY <3>1
        <3> QED BY <2>3, <3>2
    <2> HIDE DEF e, imm
    <2> QED BY <2>1, <2>2, <2>3
<1> HIDE DEF e, imm, mods
<1>6. /\ n \in Nat /\ Len(mods) \in Nat /\ DOMAIN chan = 1 .. n /\ DOMAIN mods = 1 .. Len(mods)
      /\ DOMAIN chan' = 1 .. n + m + Len(mods)
      /\ \A i \in 1 .. n : chan'[i] = chan[i]
      /\ m = 1 => chan'[n + 1] = imm[1]
      /\ \A i \in 1 .. Len(mods) : chan'[n + m + i] = mods[i]
    <2>1. n \in Nat /\ Len(mods) \in Nat /\ DOMAIN chan = 1 .. n /\ DOMAIN mods = 1 .. Len(mods)
        BY <1>3, LenProperties
    <2> DEFINE q == chan \o imm
    <2>2. /\ q \in Seq(Changes) /\ Len(q) = n + m
          /\ \A i \in 1 .. n + m : q[i] = IF i <= n THEN chan[i] ELSE imm[i - n]
        BY <1>3, ConcatProperties
    <2>3. chan' = q \o mods
        BY DEF e, imm, mods
    <2> HIDE DEF q
    <2>4. /\ chan' \in Seq(Changes) /\ Len(chan') = n + m + Len(mods)
          /\ \A i \in 1 .. n + m + Len(mods) : chan'[i] =
                IF i <= n + m THEN q[i] ELSE mods[i - (n + m)]
        <3>1. q \in Seq(Changes) /\ mods \in Seq(Changes)
            BY <1>3, <2>2
        <3>2. /\ q \o mods \in Seq(Changes) /\ Len(q \o mods) = Len(q) + Len(mods)
              /\ \A i \in 1 .. Len(q) + Len(mods) : (q \o mods)[i] =
                    IF i <= Len(q) THEN q[i] ELSE mods[i - Len(q)]
            BY <3>1, ConcatProperties, Zenon
        <3>3. Len(q) = n + m
            BY <2>2
        <3> QED BY <2>3, <3>2, <3>3, Zenon
    <2>5. DOMAIN chan' = 1 .. n + m + Len(mods)
        BY <2>4, LenProperties
    <2>6. ASSUME NEW i \in 1 .. n PROVE chan'[i] = chan[i]
        <3>1. i \in 1 .. n + m + Len(mods) /\ i \in 1 .. n + m /\ i <= n + m /\ i <= n
            BY <1>5, <2>1
        <3> QED BY <2>2, <2>4, <3>1
    <2>7. ASSUME m = 1 PROVE chan'[n + 1] = imm[1]
        <3>1. /\ n + 1 \in 1 .. n + m + Len(mods) /\ n + 1 \in 1 .. n + m /\ n + 1 <= n + m
              /\ ~(n + 1 <= n) /\ (n + 1) - n = 1
            BY <2>1, <2>7
        <3> QED BY <2>2, <2>4, <3>1
    <2>8. ASSUME NEW i \in 1 .. Len(mods) PROVE chan'[n + m + i] = mods[i]
        <3>1. /\ n + m + i \in 1 .. n + m + Len(mods) /\ ~(n + m + i <= n + m)
              /\ (n + m + i) - (n + m) = i
            BY <1>5, <2>1
        <3> QED BY <2>4, <3>1
    <2> QED BY <2>1, <2>5, <2>6, <2>7, <2>8
<1>7. /\ \A i \in DOMAIN chan : i \in DOMAIN chan' /\ chan'[i] = chan[i] /\ i <= n
      /\ m = 1 => n + 1 \in DOMAIN chan'
    BY <1>5, <1>6
<1>8. \A i \in DOMAIN chan' :
         \/ i \in DOMAIN chan
         \/ i = n + 1 /\ m = 1
         \/ chan'[i].kind = "Modified"
    <2> SUFFICES ASSUME NEW i \in DOMAIN chan', i \notin DOMAIN chan, ~(i = n + 1 /\ m = 1)
                 PROVE  chan'[i].kind = "Modified"
        OBVIOUS
    <2>0. i \in Nat /\ i <= n + m + Len(mods) /\ i > n /\ (m = 1 => i # n + 1)
        BY <1>5, <1>6
    <2>1. i - (n + m) \in 1 .. Len(mods) /\ i = n + m + (i - (n + m))
        <3>1. n \in Nat /\ m \in Nat /\ Len(mods) \in Nat
            BY <1>5, <1>6
        <3>2. i > n + m
            <4>1. CASE m = 0
                BY <2>0, <3>1, <4>1
            <4>2. CASE m = 1
                BY <2>0, <3>1, <4>2
            <4> QED BY <1>5, <4>1, <4>2
        <3> HIDE DEF n, m
        <3> QED BY <2>0, <3>1, <3>2
    <2>2. chan'[i] = mods[i - (n + m)]
        BY <1>6, <2>1
    <2>3. mods[i - (n + m)] \in [kind : {"Modified"}, path : expired]
        BY <1>4, <1>6, <2>1, ElementOfSeq
    <2> QED BY <2>2, <2>3
<1>9. \A i \in DOMAIN chan' : i \in Nat
    BY <1>6
\* What waits is still waiting, or is sent last.
<1>10. ASSUME NEW p \in pending \cup ModifiedBy(e)
       PROVE  \/ p \in pending'
              \/ \E j \in DOMAIN chan' : j > n + m /\ chan'[j] = Change("Modified", p)
    <2>1. CASE p \in expired
        <3>1. PICK i \in 1 .. Len(mods) : mods[i] = Change("Modified", p)
            BY <1>4, <1>6, <2>1
        <3>2. n + m + i \in DOMAIN chan' /\ n + m + i > n + m
            BY <1>5, <1>6
        <3> QED BY <1>6, <3>1, <3>2
    <2>2. CASE p \notin expired
        BY <2>2 DEF e
    <2> QED BY <2>1, <2>2
<1>11. ASSUME NEW p \in Visible, disk[p] # 0, Reports(e, p) PROVE p \in ModifiedBy(e)
    <2>1. p \in Files /\ ~Skipped(p)
        BY DEF Visible
    <2>2. \A x : p \in Keys(x) => p \in AddAsModified(x)
        BY <1>11, <2>1 DEF Keys, AddAsModified
    <2>3. p \in AddAsModified(p)
        BY <2>1, <2>2, KeysOf
    <2> QED BY <1>11, <2>2, <2>3 DEF Reports, ModifiedBy
<1>12. ASSUME NEW p \in Visible, disk[p] # 0, Reported(p) PROVE Reported(p)'
    <2>1. CASE p \in pending
        BY <1>10, <2>1 DEF Reported
    <2>2. CASE \E i \in DOMAIN chan : chan[i] = Change("Modified", p)
        BY <1>7, <2>2 DEF Reported
    <2>3. ASSUME NEW i \in DOMAIN raw, Reports(raw[i], p) PROVE Reported(p)'
        <3>1. CASE i = 1
            BY <1>1, <1>10, <1>11, <1>12, <2>3, <3>1 DEF Reported
        <3>2. CASE i # 1
            BY <1>1, <2>3, <3>2 DEF Reported
        <3> QED BY <3>1, <3>2
    <2> QED BY <1>12, <2>1, <2>2, <2>3 DEF Reported
<1>13. ASSUME NEW i \in DOMAIN raw, raw[i] = Overflow
       PROVE  \/ \E j \in DOMAIN chan' : j = n + 1 /\ chan'[j] = Change("Rescan", Root)
              \/ \E j \in DOMAIN raw' : raw'[j] = Overflow
    <2>1. CASE i = 1
        <3>1. e.kind = "Overflow"
            BY <1>1, <1>13, <2>1, EventFields DEF Overflow
        <3> QED BY <1>5, <1>6, <1>7, <3>1
    <2>2. CASE i # 1
        BY <1>1, <1>13, <2>2
    <2> QED BY <2>1, <2>2
<1>14. LossNoted => LossNoted'
    BY <1>7, <1>13 DEF LossNoted
<1>15. ASSUME NEW x, ~Skipped(x), NEW i \in DOMAIN raw,
              raw[i].kind \in {"Remove", "From", "Both"}, raw[i].path = x
       PROVE  \/ \E j \in DOMAIN chan' : chan'[j] = Change("Deleted", x)
              \/ \E j \in DOMAIN raw' : raw'[j].kind \in {"Remove", "From", "Both"}
                                        /\ raw'[j].path = x
    <2>1. CASE i = 1
        <3>1. e.kind \in {"Remove", "From", "Both"} /\ e.path = x
            BY <1>1, <1>15, <2>1
        <3> QED BY <1>5, <1>6, <1>7, <1>15, <3>1
    <2>2. CASE i # 1
        BY <1>1, <1>15, <2>2
    <2> QED BY <2>1, <2>2
<1>16. StaleIsCovered'
    <2> SUFFICES ASSUME NEW p \in Visible, disk[p] # 0, staged[p] # disk[p]
                 PROVE  \/ Reported(p)'
                        \/ LossNoted' /\ Newer(p)'
                        \/ \E s \in Scans : Finds(s, p)'
        BY DEF StaleIsCovered
    <2>1. Newer(p)' <=> Newer(p)
        BY DEF Newer
    <2>2. \A s \in Scans : Finds(s, p)' <=> Finds(s, p)
        BY <2>1 DEF Finds, NeedsIndexing
    <2> QED BY <1>12, <1>14, <2>1, <2>2 DEF Covered, StaleIsCovered
<1>17. LateInChan'
    <2> SUFFICES ASSUME NEW p \in Visible, disk[p] # 0,
                        NEW i \in DOMAIN chan', Deletes(chan'[i], p)
                 PROVE  \/ \E j \in DOMAIN chan' :
                              j > i /\ chan'[j] \in {Change("Modified", p), Change("Rescan", Root)}
                        \/ p \in pending'
                        \/ \E j \in DOMAIN raw' : raw'[j] = Overflow \/ Reports(raw'[j], p)
        BY DEF LateInChan
    <2>1. CASE i \in DOMAIN chan
        <3>0. i <= n /\ i \in Nat /\ n \in Nat /\ n + 1 > i /\ \A j \in Nat : j > n + m => j > i
            BY <1>5, <1>6, <1>7, <2>1
        <3>1. \/ \E j \in DOMAIN chan :
                    j > i /\ chan[j] \in {Change("Modified", p), Change("Rescan", Root)}
              \/ p \in pending
              \/ \E j \in DOMAIN raw : raw[j] = Overflow \/ Reports(raw[j], p)
            BY <1>7, <2>1 DEF Covered, LateInChan
        <3>2. CASE \E j \in DOMAIN chan :
                    j > i /\ chan[j] \in {Change("Modified", p), Change("Rescan", Root)}
            BY <1>7, <3>2
        <3>3. CASE p \in pending \cup ModifiedBy(e)
            BY <1>9, <1>10, <3>0, <3>3
        <3>4. ASSUME NEW j \in DOMAIN raw, raw[j] = Overflow \/ Reports(raw[j], p),
                     p \notin ModifiedBy(e)
              PROVE  \/ \E k \in DOMAIN chan' : k > i /\ chan'[k] = Change("Rescan", Root)
                     \/ \E k \in DOMAIN raw' : raw'[k] = Overflow \/ Reports(raw'[k], p)
            BY <1>1, <1>11, <1>13, <3>0, <3>4
        <3> QED BY <3>1, <3>2, <3>3, <3>4
    <2>2. CASE i = n + 1 /\ m = 1
        <3>1. imm[1] = Change("Deleted", e.path) /\ e.kind \in {"Remove", "From", "Both"}
            BY <1>5, <1>6, <2>2 DEF Deletes, Change
        <3>2. Removes(raw[1], p)
            BY <1>1, <1>6, <2>2, <3>1 DEF Deletes, Removes, Change
        <3>3. PICK k \in DOMAIN raw : k >= 1 /\ (raw[k] = Overflow \/ Reports(raw[k], p))
            BY <1>1, <3>2 DEF Covered, LateInRaw
        <3>4. CASE k = 1
            <4>1. Reports(e, p)
                BY <1>1, <3>1, <3>3, <3>4 DEF Overflow, Event
            <4> QED BY <1>10, <1>11, <2>2, <4>1
        <3>5. CASE k # 1
            BY <1>1, <3>3, <3>5
        <3> QED BY <3>4, <3>5
    <2>3. chan'[i].kind # "Modified"
        BY DEF Deletes
    <2> QED BY <1>8, <2>1, <2>2, <2>3
<1>18. LateInRaw'
    <2> SUFFICES ASSUME NEW p \in Visible, disk[p] # 0,
                        NEW i \in DOMAIN raw', Removes(raw'[i], p)
                 PROVE  \E j \in DOMAIN raw' : j >= i /\ (raw'[j] = Overflow \/ Reports(raw'[j], p))
        BY DEF LateInRaw
    <2>1. i + 1 \in DOMAIN raw /\ raw'[i] = raw[i + 1] /\ i \in Nat
        BY <1>1
    <2>2. PICK j \in DOMAIN raw : j >= i + 1 /\ (raw[j] = Overflow \/ Reports(raw[j], p))
        BY <2>1 DEF Covered, LateInRaw
    <2>3. j # 1 /\ j - 1 >= i
        BY <1>1, <2>1, <2>2
    <2> QED BY <1>1, <2>2, <2>3
<1>19. LateInScan'
    <2> SUFFICES ASSUME NEW p \in Visible, NEW s \in Scans, disk[p] # 0, Doomed(s, p)'
                 PROVE  Reported(p)' \/ LossNoted'
        BY DEF LateInScan
    <2>1. Doomed(s, p)
        BY DEF Doomed
    <2> QED BY <1>12, <1>14, <2>1 DEF Covered, LateInScan
<1>20. GhostIsCovered'
    <2> SUFFICES ASSUME NEW p \in Files, disk[p] = 0, staged[p] # 0
                 PROVE  \/ DirGone(DirOf(p))'
                        \/ /\ DirOf(p) \in dirs
                           /\ \/ FileGone(p)' \/ LossNoted'
                              \/ \E s \in Scans : FindsGone(s, p)'
        BY DEF GhostIsCovered
    <2>1. ~Skipped(p) /\ ~Skipped(DirOf(p))
        BY KeysOf DEF OnlyVisible, Visible, Skipped
    <2>2. DirGone(DirOf(p)) => DirGone(DirOf(p))'
        BY <1>7, <1>15, <2>1 DEF DirGone
    <2>3. FileGone(p) => FileGone(p)'
        BY <1>7, <1>15, <2>1 DEF FileGone
    <2>4. \A s \in Scans : FindsGone(s, p)' <=> FindsGone(s, p)
        BY DEF FindsGone, Doomed
    <2> QED BY <1>14, <2>2, <2>3, <2>4 DEF Covered, GhostIsCovered
<1> QED BY <1>16, <1>17, <1>18, <1>19, <1>20 DEF Covered

\* A step that leaves files and documents alone, and what is on its way.
LEMMA KeptCovered ==
    ASSUME Covered, UNCHANGED <<disk, dirs, staged>>,
           LateInChan', LateInRaw', LossNoted => LossNoted',
           \A p : /\ Reported(p) => Reported(p)'
                  /\ DirGone(p) => DirGone(p)'
                  /\ FileGone(p) => FileGone(p)',
           \A s \in Scans, p \in Visible : disk[p] # 0 /\ staged[p] # disk[p] =>
              (Finds(s, p) => Finds(s, p)'),
           \A s \in Scans, p \in Files : disk[p] = 0 /\ staged[p] # 0 =>
              (FindsGone(s, p) => FindsGone(s, p)'),
           \A s \in Scans, p \in Visible : disk[p] # 0 => (Doomed(s, p)' => Doomed(s, p))
    PROVE  Covered'
<1>1. StaleIsCovered'
    <2>1. \A p : Newer(p)' <=> Newer(p)
        BY DEF Newer
    <2> QED BY <2>1 DEF Covered, StaleIsCovered
<1>2. LateInScan'
    BY DEF Covered, LateInScan
<1>3. GhostIsCovered'
    <2> SUFFICES ASSUME NEW p \in Files, disk[p] = 0, staged[p] # 0
                 PROVE  \/ DirGone(DirOf(p))'
                        \/ /\ DirOf(p) \in dirs
                           /\ \/ FileGone(p)' \/ LossNoted'
                              \/ \E s \in Scans : FindsGone(s, p)'
        BY DEF GhostIsCovered
    <2>1. /\ DirGone(DirOf(p)) => DirGone(DirOf(p))'
          /\ FileGone(p) => FileGone(p)'
        OBVIOUS
    <2>2. \/ DirGone(DirOf(p))
          \/ /\ DirOf(p) \in dirs
             /\ FileGone(p) \/ LossNoted \/ \E s \in Scans : FindsGone(s, p)
        BY DEF Covered, GhostIsCovered
    <2>3. \A s \in Scans : FindsGone(s, p) => FindsGone(s, p)'
        OBVIOUS
    <2> QED BY <2>1, <2>2, <2>3
<1> QED BY <1>1, <1>2, <1>3 DEF Covered

LEMMA WatchCovered ==
    ASSUME BaseInv, OnlyVisible, Covered, Watch
    PROVE  Covered'
<1>0. Types
    BY DEF BaseInv
<1>1. CASE HandleEvent
    <2>1. PICK expired \in SUBSET (pending \cap ModifiedBy(Head(raw))) :
             /\ chan' = chan \o ImmediateBy(Head(raw)) \o Modifieds(expired)
             /\ pending' = (pending \cup ModifiedBy(Head(raw))) \ expired
        BY <1>1 DEF HandleEvent
    <2>2. expired \in SUBSET (pending \cup ModifiedBy(Head(raw)))
        OBVIOUS
    <2>3. /\ raw # <<>> /\ raw' = Tail(raw)
          /\ UNCHANGED <<disk, dirs, staged, scan, sent>>
        BY <1>1 DEF HandleEvent, fsVars, scanVars
    <2> QED BY <1>0, <2>1, <2>2, <2>3, PipeCovered
<1>2. CASE HandleError
    <2>1. /\ raw # <<>> /\ raw' = Tail(raw) /\ Head(raw) = Error
          /\ chan' = chan \o Modifieds(pending) /\ pending' = {}
          /\ UNCHANGED <<disk, dirs, staged, scan, sent>>
        BY <1>2 DEF HandleError, fsVars, scanVars
    <2>2. Error.kind = "Error"
        BY EventFields DEF Error
    <2>3. ImmediateBy(Head(raw)) = <<>> /\ ModifiedBy(Head(raw)) = {}
        BY <2>1, <2>2 DEF ImmediateBy, ModifiedBy
    <2>4. chan \o <<>> = chan
        BY <1>0, ConcatEmptySeq DEF Types
    <2>5. /\ chan' = chan \o ImmediateBy(Head(raw)) \o Modifieds(pending)
          /\ pending' = (pending \cup ModifiedBy(Head(raw))) \ pending
          /\ pending \in SUBSET (pending \cup ModifiedBy(Head(raw)))
        BY <2>1, <2>3, <2>4, Zenon
    <2> QED BY <1>0, <2>1, <2>5, PipeCovered
<1>3. ASSUME NEW p \in Files, Expire(p) PROVE Covered'
    <2>1. /\ p \in pending /\ pending' = pending \ {p}
          /\ chan' = Append(chan, Change("Modified", p)) /\ Change("Modified", p) \in Changes
          /\ UNCHANGED <<disk, dirs, staged, scan, sent, raw>>
        BY <1>0, <1>3, ChangeTypes DEF Expire, fsVars, scanVars, Types
    <2> DEFINE n == Len(chan)
    <2>2. /\ n \in Nat /\ DOMAIN chan = 1 .. n /\ DOMAIN chan' = 1 .. n + 1
          /\ chan'[n + 1] = Change("Modified", p)
          /\ \A i \in 1 .. n : chan'[i] = chan[i]
        BY <1>0, <2>1, AppendProperties, LenProperties DEF Types
    <2> HIDE DEF n
    <2>3. /\ \A i \in DOMAIN chan : i \in DOMAIN chan' /\ chan'[i] = chan[i] /\ i < n + 1
          /\ n + 1 \in DOMAIN chan'
          /\ \A i \in DOMAIN chan' : i \in DOMAIN chan \/ i = n + 1
        BY <2>2
    <2>4. \A q : /\ Reported(q) => Reported(q)'
                 /\ DirGone(q) => DirGone(q)'
                 /\ FileGone(q) => FileGone(q)'
        BY <2>1, <2>2, <2>3 DEF Reported, DirGone, FileGone
    <2>5. LossNoted => LossNoted'
        BY <2>1, <2>3 DEF LossNoted
    <2>6. \A q : ~Deletes(Change("Modified", p), q)
        BY DEF Deletes, Change
    <2>7. LateInChan'
        <3> SUFFICES ASSUME NEW q \in Visible, disk[q] # 0,
                            NEW i \in DOMAIN chan', Deletes(chan'[i], q)
                     PROVE  \/ \E j \in DOMAIN chan' :
                                  j > i /\ chan'[j] \in {Change("Modified", q), Change("Rescan", Root)}
                            \/ q \in pending'
                            \/ \E j \in DOMAIN raw : raw[j] = Overflow \/ Reports(raw[j], q)
            BY <2>1 DEF LateInChan
        <3>1. i \in DOMAIN chan /\ Deletes(chan[i], q) /\ n + 1 > i
            BY <2>2, <2>3, <2>6
        <3>2. \/ \E j \in DOMAIN chan :
                    j > i /\ chan[j] \in {Change("Modified", q), Change("Rescan", Root)}
              \/ q \in pending
              \/ \E j \in DOMAIN raw : raw[j] = Overflow \/ Reports(raw[j], q)
            BY <3>1 DEF Covered, LateInChan
        <3> QED BY <2>1, <2>2, <2>3, <3>1, <3>2
    <2>8. LateInRaw'
        BY <2>1 DEF Covered, LateInRaw
    <2>9. \A s \in Scans : \A q :
             /\ Finds(s, q) => Finds(s, q)'
             /\ FindsGone(s, q) => FindsGone(s, q)'
             /\ Doomed(s, q)' => Doomed(s, q)
        BY <2>1 DEF Finds, FindsGone, Doomed, NeedsIndexing, Newer
    <2> QED BY <2>1, <2>4, <2>5, <2>7, <2>8, <2>9, KeptCovered
<1> QED BY <1>1, <1>2, <1>3 DEF Watch

\* A step of scan s: what it will send, it sends in the end.
LEMMA ScanCovered ==
    ASSUME Covered, NEW s \in Scans,
           UNCHANGED <<disk, dirs, staged, raw, pending, chan>>,
           \A t \in Scans : t # s => scan'[t] = scan[t] /\ sent'[t] = sent[t],
           \A p \in Visible : disk[p] # 0 /\ Finds(s, p) => Finds(s, p)',
           \A p \in Files :
              disk[p] = 0 /\ staged[p] # 0 /\ FindsGone(s, p) => FindsGone(s, p)',
           \A p \in Visible : disk[p] # 0 /\ Doomed(s, p)' => Doomed(s, p)
    PROVE  Covered'
<1>1. LateInChan' /\ LateInRaw'
    BY DEF Covered, LateInChan, LateInRaw
<1>2. LossNoted => LossNoted'
    BY DEF LossNoted
<1>3. \A p : /\ Reported(p) => Reported(p)'
             /\ DirGone(p) => DirGone(p)'
             /\ FileGone(p) => FileGone(p)'
    BY DEF Reported, DirGone, FileGone
<1>4. ASSUME NEW t \in Scans, NEW p
      PROVE  /\ p \in Visible /\ disk[p] # 0 => (Finds(t, p) => Finds(t, p)')
             /\ p \in Files /\ disk[p] = 0 /\ staged[p] # 0 => (FindsGone(t, p) => FindsGone(t, p)')
             /\ p \in Visible /\ disk[p] # 0 => (Doomed(t, p)' => Doomed(t, p))
    <2>1. CASE t = s
        BY <2>1
    <2>2. CASE t # s
        BY <2>2 DEF Finds, FindsGone, Doomed, NeedsIndexing, Newer
    <2> QED BY <2>1, <2>2
<1>5. /\ \A t \in Scans, p \in Visible :
            disk[p] # 0 /\ staged[p] # disk[p] => (Finds(t, p) => Finds(t, p)')
      /\ \A t \in Scans, p \in Files :
            disk[p] = 0 /\ staged[p] # 0 => (FindsGone(t, p) => FindsGone(t, p)')
      /\ \A t \in Scans, p \in Visible : disk[p] # 0 => (Doomed(t, p)' => Doomed(t, p))
    BY <1>4
<1> QED BY <1>1, <1>2, <1>3, <1>5, KeptCovered

LEMMA ScanStepCovered ==
    ASSUME BaseInv, Covered, NEW s \in Scans, ScanStep(s), ~blind'
    PROVE  Covered'
<1>0. /\ Types /\ ScanShape /\ scan[s] \in ScanRecords /\ sent[s] \in Seq(Changes)
      /\ UNCHANGED <<disk, dirs, staged, raw, pending, chan>>
      /\ \A t \in Scans : t # s => scan'[t] = scan[t] /\ sent'[t] = sent[t]
      /\ \A p \in Visible : p \in Files
    <2>1. scan[s] \in ScanRecords
        BY DEF BaseInv, Types, ScanStates
    <2>2. sent[s] \in Seq(Changes)
        BY DEF BaseInv, Types
    <2>3. /\ UNCHANGED <<disk, dirs, staged, raw, pending, chan>>
          /\ \A t \in Scans : t # s => scan'[t] = scan[t] /\ sent'[t] = sent[t]
        BY DEF BaseInv, Types, ScanStep, BeginScan, BeginWalk, EndScan, DetectDeletion, WalkFile,
               fsVars, pipeVars
    <2> QED BY <2>1, <2>2, <2>3 DEF BaseInv, Shape, Visible
<1>1. CASE BeginScan(s)
    <2>1. /\ scan[s].stage = "begin" /\ scan'[s].stage = "detect" /\ scan'[s].gone = {}
          /\ scan'[s].todo = {p \in Files : index[p] # 0} /\ scan'[s].snapshot = index
          /\ sent' = sent
        BY <1>0, <1>1 DEF BeginScan, Types
    <2>2. staged = index
        BY <1>1 DEF BeginScan
    <2>3. \A p \in Visible : Finds(s, p) => Finds(s, p)'
        BY <1>0, <2>1, <2>2 DEF Finds, Newer, NeedsIndexing
    <2>4. \A p \in Files : staged[p] # 0 => FindsGone(s, p)'
        BY <2>1, <2>2 DEF FindsGone
    <2>5. \A p : Doomed(s, p)' => Doomed(s, p)
        BY <2>1 DEF Doomed
    <2> QED BY <1>0, <2>3, <2>4, <2>5, ScanCovered
<1>2. ASSUME NEW q \in Files, DetectDeletion(s, q) PROVE Covered'
    <2>1. /\ scan[s].stage = "detect" /\ scan'[s].stage = "detect"
          /\ scan'[s].todo = scan[s].todo \ {q} /\ scan'[s].snapshot = scan[s].snapshot
          /\ scan'[s].gone = IF disk[q] = 0 THEN scan[s].gone \cup {q} ELSE scan[s].gone
          /\ sent' = sent
        BY <1>0, <1>2 DEF DetectDeletion, Visit, Types, ScanRecords
    <2>2. \A p \in Visible : Finds(s, p) => Finds(s, p)'
        BY <1>0, <2>1 DEF Finds, NeedsIndexing
    <2>3. \A p \in Files : disk[p] = 0 /\ FindsGone(s, p) => FindsGone(s, p)'
        BY <2>1 DEF FindsGone, Doomed
    <2>4. \A p \in Files : disk[p] # 0 /\ Doomed(s, p)' => Doomed(s, p)
        BY <2>1 DEF Doomed
    <2> QED BY <1>0, <2>2, <2>3, <2>4, ScanCovered
<1>3. CASE BeginWalk(s)
    <2> DEFINE dels == Deleteds(scan[s].gone)
               n == Len(sent[s])
    <2>1. /\ scan[s].stage = "detect" /\ scan[s].todo = {} /\ scan'[s].stage = "walk"
          /\ scan'[s].todo = Visible /\ scan'[s].snapshot = scan[s].snapshot
          /\ scan'[s].gone = {} /\ sent'[s] = sent[s] \o dels
          /\ scan[s].gone \in SUBSET Files
        BY <1>0, <1>3 DEF BeginWalk, Types, ScanRecords
    <2>2. /\ dels \in Seq(Changes) /\ dels \in Seq([kind : {"Deleted"}, path : scan[s].gone])
          /\ \A p \in scan[s].gone : \E i \in DOMAIN dels : dels[i] = Change("Deleted", p)
        BY <2>1, DeletedsSeq, ChangeTypes
    <2> HIDE DEF dels
    <2>3. /\ n \in Nat /\ Len(dels) \in Nat /\ DOMAIN sent[s] = 1 .. n
          /\ DOMAIN dels = 1 .. Len(dels)
        BY <1>0, <2>2, LenProperties
    <2>4. /\ DOMAIN sent'[s] = 1 .. n + Len(dels)
          /\ \A i \in 1 .. n + Len(dels) :
                sent'[s][i] = IF i <= n THEN sent[s][i] ELSE dels[i - n]
        BY <1>0, <2>1, <2>2, ConcatProperties, LenProperties
    <2> HIDE DEF n
    <2>5. \A i \in DOMAIN sent[s] : i \in DOMAIN sent'[s] /\ sent'[s][i] = sent[s][i]
        BY <2>3, <2>4
    <2>6. ASSUME NEW p \in scan[s].gone
          PROVE  \E i \in DOMAIN sent'[s] : sent'[s][i] = Change("Deleted", p)
        <3>1. PICK i \in DOMAIN dels : dels[i] = Change("Deleted", p)
            BY <2>2
        <3>2. n + i \in DOMAIN sent'[s] /\ ~(n + i <= n) /\ (n + i) - n = i
            BY <2>3, <2>4
        <3> QED BY <2>4, <3>1, <3>2
    <2>7. ASSUME NEW i \in DOMAIN sent'[s], i \notin DOMAIN sent[s]
          PROVE  sent'[s][i] \in [kind : {"Deleted"}, path : scan[s].gone]
        <3>1. i - n \in DOMAIN dels /\ sent'[s][i] = dels[i - n]
            BY <2>3, <2>4, <2>7
        <3>2. i - n \in 1 .. Len(dels)
            BY <2>3, <3>1
        <3>3. dels[i - n] \in [kind : {"Deleted"}, path : scan[s].gone]
            BY <2>2, <3>2, ElementOfSeq, Zenon
        <3> QED BY <3>1, <3>3
    <2>8. \A p \in Visible : Finds(s, p) => Finds(s, p)'
        BY <1>0, <2>1, <2>5 DEF Finds, NeedsIndexing
    <2>9. \A p \in Files : FindsGone(s, p) => FindsGone(s, p)'
        BY <2>1, <2>5, <2>6 DEF FindsGone, Doomed
    <2>10. ASSUME NEW p, Doomed(s, p)' PROVE Doomed(s, p)
        <3>1. PICK i \in DOMAIN sent'[s] : sent'[s][i] = Change("Deleted", p)
            BY <2>1, <2>10 DEF Doomed
        <3>2. CASE i \in DOMAIN sent[s]
            BY <2>5, <3>1, <3>2 DEF Doomed
        <3>3. CASE i \notin DOMAIN sent[s]
            BY <2>7, <3>1, <3>3 DEF Doomed, Change
        <3> QED BY <3>2, <3>3
    <2> QED BY <1>0, <2>8, <2>9, <2>10, ScanCovered
<1>4. ASSUME NEW q \in Files, WalkFile(s, q) PROVE Covered'
    <2>1. /\ scan[s].stage = "walk" /\ q \in scan[s].todo /\ scan'[s].stage = "walk"
          /\ scan'[s].todo = scan[s].todo \ {q} /\ scan'[s].snapshot = scan[s].snapshot
          /\ scan'[s].gone = scan[s].gone /\ q \in Visible
        BY <1>0, <1>4 DEF WalkFile, Types, ScanRecords, ScanStates
    <2>2. /\ \/ sent'[s] = Append(sent[s], Change("Modified", q))
             \/ sent'[s] = sent[s] /\ (disk[q] = 0 \/ ~NeedsIndexing(s, q))
          /\ Change("Modified", q) \in Changes
        BY <1>0, <1>4, <2>1, ChangeTypes DEF WalkFile, Types
    <2> DEFINE n == Len(sent[s])
    <2>3. /\ n \in Nat /\ DOMAIN sent[s] = 1 .. n
          /\ \/ /\ DOMAIN sent'[s] = 1 .. n + 1
                /\ sent'[s][n + 1] = Change("Modified", q)
                /\ \A i \in 1 .. n : sent'[s][i] = sent[s][i]
             \/ sent'[s] = sent[s] /\ (disk[q] = 0 \/ ~NeedsIndexing(s, q))
        BY <1>0, <2>2, AppendProperties, LenProperties
    <2> HIDE DEF n
    <2>4. /\ \A i \in DOMAIN sent[s] : i \in DOMAIN sent'[s] /\ sent'[s][i] = sent[s][i]
          /\ \A i \in DOMAIN sent'[s] :
                i \in DOMAIN sent[s] \/ sent'[s][i] = Change("Modified", q)
          /\ \/ \E i \in DOMAIN sent'[s] : sent'[s][i] = Change("Modified", q)
             \/ disk[q] = 0 \/ ~NeedsIndexing(s, q)
        BY <2>3
    <2>5. \A p \in Visible : disk[p] # 0 /\ Finds(s, p) => Finds(s, p)'
        BY <1>0, <2>1, <2>4 DEF Finds, NeedsIndexing
    <2>6. \A p : FindsGone(s, p) => FindsGone(s, p)'
        BY <2>1, <2>4 DEF FindsGone, Doomed
    <2>7. \A p : Doomed(s, p)' => Doomed(s, p)
        BY <2>1, <2>4 DEF Doomed, Change
    <2> QED BY <1>0, <2>5, <2>6, <2>7, ScanCovered
<1>5. CASE EndScan(s)
    <2>1. /\ scan[s].stage = "walk" /\ scan[s].todo = {} /\ scan[s].gone = {}
          /\ scan'[s] = NoScan /\ sent' = sent
        BY <1>0, <1>5 DEF EndScan, Types, ScanShape
    <2>2. \A p : Finds(s, p) => Finds(s, p)'
        BY <2>1 DEF Finds
    <2>3. \A p : /\ FindsGone(s, p) => FindsGone(s, p)'
                 /\ Doomed(s, p)' => Doomed(s, p)
        BY <2>1 DEF FindsGone, Doomed, NoScan
    <2> QED BY <1>0, <2>2, <2>3, ScanCovered
<1> QED BY <1>1, <1>2, <1>3, <1>4, <1>5 DEF ScanStep

LEMMA EndRescanCovered ==
    ASSUME BaseInv, Covered, EndRescan
    PROVE  Covered'
<1>1. /\ Shape /\ "rescan" \in Scans /\ ~Scanning("rescan") /\ scan'["rescan"] = NoScan
      /\ sent' = sent /\ sent["rescan"] = <<>>
      /\ \A t \in Scans : t # "rescan" => scan'[t] = scan[t]
      /\ UNCHANGED <<disk, dirs, staged, raw, pending, chan>>
    BY DEF BaseInv, Types, EndRescan, Scanning, Scans, fsVars, pipeVars
<1>2. \A p : ~Finds("rescan", p) /\ ~FindsGone("rescan", p)
    BY <1>1, FindsIsScanning
<1>3. \A p : ~Doomed("rescan", p)'
    BY <1>1 DEF Doomed, NoScan
<1> QED BY <1>1, <1>2, <1>3, ScanCovered

\* The next change of a channel is taken out.
LEMMA HeadIsTaken ==
    ASSUME NEW q \in Seq(Changes), q # <<>>, NEW r, r = Tail(q)
    PROVE  /\ Head(q) = q[1] /\ 1 \in DOMAIN q /\ Head(q) \in Changes
           /\ \A i \in DOMAIN q : i \in Nat /\ i >= 1
           /\ \A i \in DOMAIN q : i = 1 \/ (i - 1 \in DOMAIN r /\ r[i - 1] = q[i])
           /\ \A i \in DOMAIN r : i \in Nat /\ i + 1 \in DOMAIN q /\ r[i] = q[i + 1]
BY HeadTailProperties, LenProperties, EmptySeq

LEMMA ChangeCases ==
    ASSUME NEW c \in Changes
    PROVE  \/ c = Change("Modified", c.path) /\ c.kind = "Modified" /\ c.path \in Visible
           \/ c = Change("Deleted", c.path) /\ c.kind = "Deleted" /\ c.path \in Paths
           \/ c = Change("Rescan", Root) /\ c.kind = "Rescan"
<1>1. CASE c.kind = "Modified"
    BY <1>1 DEF Changes, Change
<1>2. CASE c.kind = "Deleted"
    BY <1>2 DEF Changes, Change, Paths
<1>3. CASE c.kind = "Rescan"
    BY <1>3 DEF Changes, Change
<1> QED BY <1>1, <1>2, <1>3 DEF Changes

\* What processing a change does to a document.
LEMMA ProcessedDocuments ==
    ASSUME Types, NEW c \in Changes, Process(c), NEW p \in Files
    PROVE  /\ c.kind = "Modified" => staged'[p] = IF p = c.path /\ disk[p] # 0 THEN disk[p]
                                                                               ELSE staged[p]
           /\ c.kind = "Deleted" => staged'[p] = IF Resolvable(c.path) /\ p \in Keys(c.path)
                                                 THEN 0 ELSE staged[p]
           /\ c.kind = "Rescan" => staged'[p] = staged[p]
BY DEF Types, Process

LEMMA TakeChangeCovered ==
    ASSUME BaseInv, Covered, TakeChange
    PROVE  Covered'
<1> DEFINE c == Head(chan)
<1>0. /\ Types /\ Shape /\ chan \in Seq(Changes) /\ ~rescanning /\ chan # <<>>
      /\ chan' = Tail(chan) /\ UNCHANGED <<disk, dirs, raw, pending, sent>>
      /\ Process(c) /\ "rescan" \in Scans
    BY DEF BaseInv, Types, TakeChange, fsVars, Scans
<1>1. /\ c = chan[1] /\ 1 \in DOMAIN chan /\ c \in Changes
      /\ \A i \in DOMAIN chan : i \in Nat /\ i >= 1
      /\ \A i \in DOMAIN chan : i = 1 \/ (i - 1 \in DOMAIN chan' /\ chan'[i - 1] = chan[i])
      /\ \A i \in DOMAIN chan' : i \in Nat /\ i + 1 \in DOMAIN chan /\ chan'[i] = chan[i + 1]
    BY <1>0, HeadIsTaken
<1>2. \A s \in Scans : ~Scanning(s)
    BY <1>0, NoScanWithChanges
<1>3. \A s \in Scans : \A p : ~Finds(s, p) /\ ~FindsGone(s, p)
    BY <1>0, <1>2, FindsIsScanning
<1>4. /\ c.kind = "Rescan" => scan'["rescan"].stage = "begin"
      /\ \A s \in Scans : scan'[s].gone = {} /\ sent'[s] = <<>>
    <2>1. \A s \in Scans : scan[s] \in ScanRecords /\ scan[s].gone = {} /\ sent[s] = <<>>
        BY <1>0, <1>2 DEF Types, ScanStates, Scanning, Shape, ScanShape
    <2> DEFINE r == [scan["rescan"] EXCEPT !.stage = "begin"]
    <2>2. r.stage = "begin" /\ r.gone = {}
        BY <1>0, <2>1 DEF ScanRecords
    <2>3. \/ scan' = scan /\ c.kind # "Rescan"
          \/ scan' = [scan EXCEPT !["rescan"] = r]
        BY <1>0 DEF TakeChange, Types
    <2>4. scan \in [Scans -> ScanStates] /\ sent' = sent
        BY <1>0 DEF Types
    <2> HIDE DEF r, c
    <2> QED BY <1>0, <2>1, <2>2, <2>3, <2>4
<1>5. \A s \in Scans : \A p : ~Doomed(s, p)'
    BY <1>4 DEF Doomed
<1>6. \/ c = Change("Modified", c.path) /\ c.kind = "Modified" /\ c.path \in Visible
      \/ c = Change("Deleted", c.path) /\ c.kind = "Deleted" /\ c.path \in Paths
      \/ c = Change("Rescan", Root) /\ c.kind = "Rescan"
    BY <1>1, ChangeCases
<1>7. \A p \in Files :
         /\ c.kind = "Modified" => staged'[p] = IF p = c.path /\ disk[p] # 0 THEN disk[p]
                                                                             ELSE staged[p]
         /\ c.kind = "Deleted" => staged'[p] = IF Resolvable(c.path) /\ p \in Keys(c.path)
                                               THEN 0 ELSE staged[p]
         /\ c.kind = "Rescan" => staged'[p] = staged[p]
    BY <1>0, <1>1, ProcessedDocuments
<1> HIDE DEF c
<1>17. ASSUME NEW x, x # c, NEW i \in DOMAIN chan, chan[i] = x
       PROVE  \E j \in DOMAIN chan' : chan'[j] = x
    <2>1. i # 1
        BY <1>1, <1>17
    <2> QED BY <1>1, <1>17, <2>1
<1>8. \A p : /\ Reported(p) /\ c # Change("Modified", p) => Reported(p)'
             /\ DirGone(p) /\ c # Change("Deleted", p) => DirGone(p)'
             /\ FileGone(p) /\ c # Change("Deleted", p) => FileGone(p)'
    BY <1>0, <1>17 DEF Reported, DirGone, FileGone
<1>9. LossNoted /\ c # Change("Rescan", Root) => LossNoted'
    BY <1>0, <1>17 DEF LossNoted
<1>10. \A p \in Visible : p \in Files
    BY DEF Visible
<1>11. \A k, l, x, y : Change(k, x) = Change(l, y) => k = l /\ x = y
    BY DEF Change
<1>12. StaleIsCovered'
    <2> SUFFICES ASSUME NEW p \in Visible, disk[p] # 0, staged'[p] # disk[p]
                 PROVE  \/ Reported(p)'
                        \/ LossNoted' /\ Newer(p)'
                        \/ \E s \in Scans : Finds(s, p)'
        BY <1>0 DEF StaleIsCovered
    <2>1. CASE c.kind = "Modified"
        <3>1. p # c.path /\ staged'[p] = staged[p]
            BY <1>7, <1>10, <2>1
        <3>2. Reported(p) \/ (LossNoted /\ Newer(p))
            BY <1>3, <3>1 DEF Covered, StaleIsCovered
        <3>3. Newer(p) => Newer(p)'
            BY <1>0, <3>1 DEF Newer
        <3>4. c # Change("Modified", p) /\ c # Change("Rescan", Root)
            BY <1>6, <1>11, <2>1, <3>1
        <3> QED BY <1>8, <1>9, <3>2, <3>3, <3>4
    <2>2. CASE c.kind = "Deleted"
        <3>0. c # Change("Modified", p) /\ c # Change("Rescan", Root)
            BY <1>6, <1>11, <2>2
        <3>1. CASE staged'[p] = staged[p]
            <4>1. Reported(p) \/ (LossNoted /\ Newer(p))
                BY <1>3, <3>1 DEF Covered, StaleIsCovered
            <4>2. Newer(p) => Newer(p)'
                BY <1>0, <3>1 DEF Newer
            <4> QED BY <1>8, <1>9, <3>0, <4>1, <4>2
        <3>2. CASE staged'[p] # staged[p]
            <4>1. p \in Keys(c.path) /\ staged'[p] = 0
                BY <1>7, <1>10, <2>2, <3>2
            <4>2. Newer(p)'
                BY <4>1 DEF Newer
            <4>3. Deletes(chan[1], p)
                BY <1>1, <2>2, <4>1 DEF Deletes
            <4>4. \/ \E j \in DOMAIN chan :
                        chan[j] \in {Change("Modified", p), Change("Rescan", Root)}
                  \/ p \in pending
                  \/ \E j \in DOMAIN raw : raw[j] = Overflow \/ Reports(raw[j], p)
                BY <1>1, <4>3 DEF Covered, LateInChan
            <4>5. Reported(p) \/ LossNoted
                BY <4>4 DEF Reported, LossNoted
            <4> QED BY <1>8, <1>9, <3>0, <4>2, <4>5
        <3> QED BY <3>1, <3>2
    <2>3. CASE c.kind = "Rescan"
        <3>1. staged'[p] = staged[p]
            BY <1>7, <1>10, <2>3
        <3>2. Reported(p) \/ (LossNoted /\ Newer(p))
            BY <1>3, <3>1 DEF Covered, StaleIsCovered
        <3>3. Newer(p) => Finds("rescan", p)'
            BY <1>0, <1>4, <2>3, <3>1 DEF Newer, Finds
        <3>4. c # Change("Modified", p)
            BY <1>6, <1>11, <2>3
        <3> QED BY <1>0, <1>8, <3>2, <3>3, <3>4
    <2> QED BY <1>6, <2>1, <2>2, <2>3
<1>13. LateInChan'
    <2> SUFFICES ASSUME NEW p \in Visible, disk[p] # 0,
                        NEW i \in DOMAIN chan', Deletes(chan'[i], p)
                 PROVE  \/ \E j \in DOMAIN chan' :
                              j > i /\ chan'[j] \in {Change("Modified", p), Change("Rescan", Root)}
                        \/ p \in pending
                        \/ \E j \in DOMAIN raw : raw[j] = Overflow \/ Reports(raw[j], p)
        BY <1>0 DEF LateInChan
    <2>1. i \in Nat /\ i + 1 \in DOMAIN chan /\ Deletes(chan[i + 1], p)
        BY <1>1
    <2>2. \/ \E j \in DOMAIN chan :
                j > i + 1 /\ chan[j] \in {Change("Modified", p), Change("Rescan", Root)}
          \/ p \in pending
          \/ \E j \in DOMAIN raw : raw[j] = Overflow \/ Reports(raw[j], p)
        BY <2>1 DEF Covered, LateInChan
    <2>3. ASSUME NEW j \in DOMAIN chan, j > i + 1
          PROVE  j - 1 \in DOMAIN chan' /\ chan'[j - 1] = chan[j] /\ j - 1 > i
        BY <1>1, <2>1, <2>3
    <2> QED BY <2>2, <2>3
<1>14. LateInRaw'
    BY <1>0 DEF Covered, LateInRaw
<1>15. LateInScan'
    BY <1>5 DEF LateInScan
<1>16. GhostIsCovered'
    <2> SUFFICES ASSUME NEW p \in Files, disk[p] = 0, staged'[p] # 0
                 PROVE  \/ DirGone(DirOf(p))'
                        \/ /\ DirOf(p) \in dirs
                           /\ \/ FileGone(p)' \/ LossNoted'
                              \/ \E s \in Scans : FindsGone(s, p)'
        BY <1>0 DEF GhostIsCovered
    <2>1. staged'[p] = staged[p]
        BY <1>6, <1>7
    <2>2. \/ DirGone(DirOf(p))
          \/ DirOf(p) \in dirs /\ (FileGone(p) \/ LossNoted)
        BY <1>3, <2>1 DEF Covered, GhostIsCovered
    <2>3. c # Change("Deleted", DirOf(p))
        <3> SUFFICES ASSUME c = Change("Deleted", DirOf(p)) PROVE FALSE
            OBVIOUS
        <3>1. c.kind = "Deleted" /\ c.path = DirOf(p)
            BY DEF Change
        <3>2. Resolvable(DirOf(p)) /\ p \in Keys(DirOf(p))
            BY KeysOf DEF Resolvable
        <3> QED BY <1>7, <2>1, <3>1, <3>2
    <2>4. DirOf(p) \in dirs => c # Change("Deleted", p)
        <3> SUFFICES ASSUME DirOf(p) \in dirs, c = Change("Deleted", p) PROVE FALSE
            OBVIOUS
        <3>1. c.kind = "Deleted" /\ c.path = p
            BY DEF Change
        <3>2. Resolvable(p) /\ p \in Keys(p)
            BY KeysOf DEF Resolvable
        <3> QED BY <1>7, <2>1, <3>1, <3>2
    <2>5. c = Change("Rescan", Root) => FindsGone("rescan", p)'
        BY <1>4, <1>6, <1>11 DEF FindsGone
    <2> QED BY <1>0, <1>8, <1>9, <2>2, <2>3, <2>4, <2>5
<1> QED BY <1>12, <1>13, <1>14, <1>15, <1>16 DEF Covered

LEMMA DrainCovered ==
    ASSUME BaseInv, DeletesFirst, Covered, NEW s \in Scans, Drain(s)
    PROVE  Covered'
<1> DEFINE c == Head(sent[s])
<1>0. /\ Types /\ sent[s] \in Seq(Changes) /\ sent[s] # <<>> /\ sent'[s] = Tail(sent[s])
      /\ UNCHANGED <<disk, dirs, raw, pending, chan, scan>>
      /\ \A t \in Scans : t # s => sent'[t] = sent[t]
      /\ Process(c)
    BY DEF BaseInv, Types, Drain, fsVars, pipeVars
<1>1. /\ c = sent[s][1] /\ 1 \in DOMAIN sent[s] /\ c \in Changes
      /\ \A i \in DOMAIN sent[s] : i = 1 \/ (i - 1 \in DOMAIN sent'[s] /\ sent'[s][i - 1] = sent[s][i])
      /\ \A i \in DOMAIN sent'[s] : i + 1 \in DOMAIN sent[s] /\ sent'[s][i] = sent[s][i + 1]
    BY <1>0, HeadIsTaken
<1>2. c.kind \in {"Deleted", "Modified"} /\ c.path \in Files
    BY <1>1 DEF DeletesFirst, DeletesThenUpdates
<1>3. \/ c = Change("Modified", c.path) /\ c.kind = "Modified" /\ c.path \in Visible
      \/ c = Change("Deleted", c.path) /\ c.kind = "Deleted"
    BY <1>1, <1>2, ChangeCases
<1>4. \A p \in Files :
         /\ c.kind = "Modified" => staged'[p] = IF p = c.path /\ disk[p] # 0 THEN disk[p]
                                                                             ELSE staged[p]
         /\ c.kind = "Deleted" => staged'[p] = IF Resolvable(c.path) /\ p = c.path
                                               THEN 0 ELSE staged[p]
    <2>1. Keys(c.path) = {c.path}
        BY <1>2, KeysOf
    <2> QED BY <1>0, <1>1, <2>1, ProcessedDocuments
<1> HIDE DEF c
<1>5. ASSUME NEW x, x # c, NEW i \in DOMAIN sent[s], sent[s][i] = x
      PROVE  \E j \in DOMAIN sent'[s] : sent'[s][j] = x
    <2>1. i # 1
        BY <1>1, <1>5
    <2> QED BY <1>1, <1>5, <2>1
<1>6. \A p \in Visible : p \in Files
    BY DEF Visible
<1>7. \A k, l, x, y : Change(k, x) = Change(l, y) => k = l /\ x = y
    BY DEF Change
<1>8. \A p : /\ Reported(p)' <=> Reported(p)
             /\ DirGone(p)' <=> DirGone(p)
             /\ FileGone(p)' <=> FileGone(p)
    BY <1>0 DEF Reported, DirGone, FileGone
<1>9. LossNoted' <=> LossNoted
    BY <1>0 DEF LossNoted
<1>10. ASSUME NEW t \in Scans, NEW p, Doomed(t, p)' PROVE Doomed(t, p)
    <2>1. CASE t = s
        BY <1>0, <1>1, <1>10, <2>1 DEF Doomed
    <2>2. CASE t # s
        BY <1>0, <1>10, <2>2 DEF Doomed
    <2> QED BY <2>1, <2>2
<1>11. ASSUME NEW t \in Scans, NEW p, FindsGone(t, p), c # Change("Deleted", p)
       PROVE  FindsGone(t, p)'
    <2>1. CASE t = s
        BY <1>0, <1>5, <1>11, <2>1 DEF FindsGone, Doomed
    <2>2. CASE t # s
        BY <1>0, <1>11, <2>2 DEF FindsGone, Doomed
    <2> QED BY <2>1, <2>2
<1>12. ASSUME NEW t \in Scans, NEW p, Finds(t, p), c # Change("Modified", p),
              staged'[p] \in {staged[p], 0}
       PROVE  Finds(t, p)'
    <2>0. Newer(p) => Newer(p)'
        BY <1>0, <1>12 DEF Newer
    <2>1. CASE t = s
        BY <1>0, <1>5, <1>12, <2>0, <2>1 DEF Finds, NeedsIndexing
    <2>2. CASE t # s
        BY <1>0, <1>12, <2>0, <2>2 DEF Finds, NeedsIndexing
    <2> QED BY <2>1, <2>2
<1>13. StaleIsCovered'
    <2> SUFFICES ASSUME NEW p \in Visible, disk[p] # 0, staged'[p] # disk[p]
                 PROVE  \/ Reported(p)'
                        \/ LossNoted' /\ Newer(p)'
                        \/ \E t \in Scans : Finds(t, p)'
        BY <1>0 DEF StaleIsCovered
    <2>1. CASE staged'[p] = staged[p]
        <3>1. \/ Reported(p)
              \/ LossNoted /\ Newer(p)
              \/ \E t \in Scans : Finds(t, p)
            BY <2>1 DEF Covered, StaleIsCovered
        <3>2. Newer(p) => Newer(p)'
            BY <1>0, <2>1 DEF Newer
        <3>3. c # Change("Modified", p)
            BY <1>3, <1>4, <1>6, <1>7
        <3> QED BY <1>8, <1>9, <1>12, <2>1, <3>1, <3>2, <3>3
    <2>2. CASE staged'[p] # staged[p]
        <3>1. staged'[p] = 0 /\ c = Change("Deleted", p)
            BY <1>3, <1>4, <1>6, <2>2
        <3>2. Doomed(s, p)
            BY <1>1, <3>1 DEF Doomed
        <3>3. Reported(p) \/ LossNoted
            BY <3>2 DEF Covered, LateInScan
        <3> QED BY <1>8, <1>9, <3>1, <3>3 DEF Newer
    <2> QED BY <2>1, <2>2
<1>14. LateInChan' /\ LateInRaw'
    BY <1>0 DEF Covered, LateInChan, LateInRaw
<1>15. LateInScan'
    <2> SUFFICES ASSUME NEW p \in Visible, NEW t \in Scans, disk[p] # 0, Doomed(t, p)'
                 PROVE  Reported(p)' \/ LossNoted'
        BY <1>0 DEF LateInScan
    <2>1. Doomed(t, p)
        BY <1>10
    <2> QED BY <1>8, <1>9, <2>1 DEF Covered, LateInScan
<1>16. GhostIsCovered'
    <2> SUFFICES ASSUME NEW p \in Files, disk[p] = 0, staged'[p] # 0
                 PROVE  \/ DirGone(DirOf(p))'
                        \/ /\ DirOf(p) \in dirs
                           /\ \/ FileGone(p)' \/ LossNoted'
                              \/ \E t \in Scans : FindsGone(t, p)'
        BY <1>0 DEF GhostIsCovered
    <2>1. staged'[p] = staged[p]
        BY <1>3, <1>4
    <2>2. \/ DirGone(DirOf(p))
          \/ /\ DirOf(p) \in dirs
             /\ FileGone(p) \/ LossNoted \/ \E t \in Scans : FindsGone(t, p)
        BY <2>1 DEF Covered, GhostIsCovered
    <2>3. DirOf(p) \in dirs => c # Change("Deleted", p)
        <3> SUFFICES ASSUME DirOf(p) \in dirs, c = Change("Deleted", p) PROVE FALSE
            OBVIOUS
        <3>1. c.kind = "Deleted" /\ c.path = p
            BY DEF Change
        <3>2. Resolvable(p)
            BY DEF Resolvable
        <3> QED BY <1>4, <3>1, <3>2
    <2> QED BY <1>8, <1>9, <1>11, <2>2, <2>3
<1> QED BY <1>13, <1>14, <1>15, <1>16 DEF Covered

\* The process starts: what happened meanwhile, the start-up scan will find.
LEMMA StartCovered ==
    ASSUME Noticed, BaseInv, FilesHaveDirs, Recoverable, Start
    PROVE  Covered'
<1>1. /\ ~up /\ raw' = <<>> /\ pending' = {} /\ chan' = <<>> /\ sent' = sent
      /\ scan'["startup"].stage = "begin" /\ "startup" \in Scans
      /\ staged = index /\ UNCHANGED <<disk, dirs, staged>>
      /\ \A s \in Scans : scan'[s].gone = {} /\ sent'[s] = <<>>
    <2>1. /\ ~up /\ raw = <<>> /\ pending = {} /\ chan = <<>> /\ staged = index
          /\ \A s \in Scans : scan[s] = NoScan /\ sent[s] = <<>>
        BY DEF BaseInv, Shape, StoppedIsEmpty, Start
    <2> DEFINE r == [NoScan EXCEPT !.stage = "begin"]
    <2>2. r.stage = "begin" /\ r.gone = {}
        BY DEF NoScan
    <2>3. scan' = [scan EXCEPT !["startup"] = r]
        BY <2>1 DEF Start, Scans
    <2>4. scan \in [Scans -> ScanStates] /\ NoScan.gone = {} /\ "startup" \in Scans
        BY DEF BaseInv, Types, NoScan, Scans
    <2>5. UNCHANGED <<disk, dirs, staged, raw, pending, chan, sent>>
        BY DEF Start, fsVars, pipeVars
    <2> HIDE DEF r
    <2> QED BY <2>1, <2>2, <2>3, <2>4, <2>5
<1>2. \A p \in Files : disk[p] # 0 /\ staged[p] # disk[p] => Newer(p)
    BY <1>1, SyncAssumption DEF Newer, Recoverable, InPlace, Nothing, BaseInv, Types
<1>3. \A p \in Files : disk[p] = 0 /\ staged[p] # 0 => DirOf(p) \in dirs
    BY <1>1 DEF Recoverable, InPlace, Nothing
<1>4. StaleIsCovered'
    BY <1>1, <1>2 DEF StaleIsCovered, Finds, Newer, Visible
<1>5. LateInChan' /\ LateInRaw' /\ LateInScan'
    BY <1>1 DEF LateInChan, LateInRaw, LateInScan, Doomed
<1>6. GhostIsCovered'
    <2> SUFFICES ASSUME NEW p \in Files, disk[p] = 0, staged[p] # 0
                 PROVE  DirOf(p) \in dirs /\ FindsGone("startup", p)'
        BY <1>1 DEF GhostIsCovered
    <2> QED BY <1>1, <1>3 DEF FindsGone
<1> QED BY <1>4, <1>5, <1>6 DEF Covered

(* What a start of the process rests on.                                   *)

LEMMA FilesHaveDirsKept ==
    ASSUME Types, FilesHaveDirs, [Next]_vars
    PROVE  FilesHaveDirs'
<1>1. ASSUME NEW p \in Files, WriteFile(p) PROVE FilesHaveDirs'
    BY <1>1 DEF WriteFile, FilesHaveDirs, Types
<1>2. ASSUME NEW p \in Files, RemoveFile(p) PROVE FilesHaveDirs'
    BY <1>2 DEF RemoveFile, FilesHaveDirs, Types
<1>3. ASSUME NEW p \in Files, NEW q \in Files, RenameFile(p, q) PROVE FilesHaveDirs'
    BY <1>3 DEF RenameFile, FilesHaveDirs, Types
<1>4. ASSUME NEW d \in Dirs, NEW e \in Dirs, RenameDir(d, e) PROVE FilesHaveDirs'
    <2>1. /\ dirs' = (dirs \ {d}) \cup {e}
          /\ \A p \in Files : /\ DirOf(p) # e /\ DirOf(p) = d => disk'[p] = 0
                              /\ DirOf(p) # e /\ DirOf(p) # d => disk'[p] = disk[p]
        BY <1>4 DEF RenameDir
    <2> QED BY <2>1 DEF FilesHaveDirs
<1>5. ASSUME NEW d \in Dirs, MakeDir(d) PROVE FilesHaveDirs'
    BY <1>5 DEF MakeDir, FilesHaveDirs
<1>6. ASSUME NEW d \in Dirs, RemoveDir(d) PROVE FilesHaveDirs'
    BY <1>6 DEF RemoveDir, FilesHaveDirs, InDir
<1>7. CASE UNCHANGED <<disk, dirs>>
    BY <1>7 DEF FilesHaveDirs
<1>8. FileSystem \/ UNCHANGED <<disk, dirs>>
    BY DEF Next, Watch, HandleEvent, HandleError, Expire, TakeChange, EndRescan, ScanStep,
           BeginScan, BeginWalk, EndScan, DetectDeletion, WalkFile, Drain, Commit, Register,
           Start, Fault, CommitFails, WatcherFails, Crash, ScanFails, Unverified, vars, fsVars
<1> QED BY <1>1, <1>2, <1>3, <1>4, <1>5, <1>6, <1>7, <1>8 DEF FileSystem

\* Where the documents of the next state come from.
LEMMA ChangedDocuments ==
    ASSUME Types, [Next]_vars, NEW p \in Files
    PROVE  /\ index'[p] \in {index[p], staged[p]}
           /\ \/ staged'[p] \in {0, staged[p], index[p]}
              \/ staged'[p] = disk[p] /\ disk[p] # 0 /\ p \in Visible
<1>1. ASSUME NEW c \in Changes, Process(c)
      PROVE  \/ staged'[p] \in {0, staged[p]}
             \/ staged'[p] = disk[p] /\ disk[p] # 0 /\ p \in Visible
    BY <1>1, ProcessedDocuments, ChangeCases
<1>2. ASSUME TakeChange \/ \E s \in Scans : Drain(s)
      PROVE  index' = index /\ \E c \in Changes : Process(c)
    <2>1. CASE TakeChange
        BY <2>1, HeadIsTaken DEF TakeChange, Types
    <2>2. ASSUME NEW s \in Scans, Drain(s) PROVE index' = index /\ \E c \in Changes : Process(c)
        BY <2>2, HeadIsTaken DEF Drain, Types
    <2> QED BY <1>2, <2>1, <2>2
<1>3. CASE EndRescan \/ Commit
    BY <1>3 DEF EndRescan, Commit
<1>4. CASE CommitFails \/ Crash
    BY <1>4 DEF CommitFails, Crash, Types
<1>5. CASE UNCHANGED <<staged, index>>
    BY <1>5
<1>6. \/ TakeChange \/ \E s \in Scans : Drain(s)
      \/ EndRescan \/ Commit \/ CommitFails \/ Crash
      \/ UNCHANGED <<staged, index>>
    BY DEF Next, FileSystem, WriteFile, RemoveFile, RenameFile, RenameDir, MakeDir, RemoveDir,
           Happens, Watch, HandleEvent, HandleError, Expire, ScanStep,
           BeginScan, BeginWalk, EndScan, DetectDeletion, WalkFile, Register,
           Start, Fault, WatcherFails, ScanFails, Unverified, vars
<1> QED BY <1>1, <1>2, <1>3, <1>4, <1>5, <1>6

LEMMA OnlyVisibleKept ==
    ASSUME Types, OnlyVisible, [Next]_vars
    PROVE  OnlyVisible'
BY ChangedDocuments DEF OnlyVisible

LEMMA RecoverableKept ==
    ASSUME Noticed, BaseInv, BaseInv', FilesHaveDirs, Recoverable, [Next]_vars
    PROVE  Recoverable'
<1>0. Types /\ Shape
    BY DEF BaseInv
<1>1. ASSUME "crash" \notin Faults, ~up' PROVE index' = Nothing
    <2>1. ~Crash
        BY <1>1 DEF Crash
    <2>2. ~up
        BY <1>1, <2>1 DEF Next, FileSystem, WriteFile, RemoveFile, RenameFile, RenameDir, MakeDir,
            RemoveDir, Happens, Watch, HandleEvent, HandleError, Expire, TakeChange,
            EndRescan, ScanStep, BeginScan, BeginWalk, EndScan, DetectDeletion, WalkFile, Drain,
            Commit, Register, Start, Fault, CommitFails, WatcherFails, ScanFails, Unverified, vars
    <2>3. index = Nothing /\ staged = index
        BY <1>0, <1>1, <2>2 DEF Recoverable, Shape, StoppedIsEmpty
    <2>4. \A p \in Files : index'[p] = index[p]
        BY <1>0, <2>3, ChangedDocuments
    <2>5. index' \in [Files -> 0 .. MaxClock] /\ index \in [Files -> 0 .. MaxClock]
        BY DEF BaseInv, Types
    <2> QED BY <2>3, <2>4, <2>5
<1>2. ASSUME "crash" \in Faults PROVE InPlace'
    <2>0. InPlace /\ MoveOps = {} /\ DirOps = {}
        BY <1>2 DEF Noticed, Recoverable
    <2>1. ASSUME NEW S, NEW events, Happens(S, events) PROVE S # {}
        BY <2>1 DEF Happens
    <2>2. CASE FileSystem
        <3>1. PICK q \in Files : WriteFile(q) \/ RemoveFile(q)
            BY <2>0, <2>1, <2>2 DEF FileSystem, RenameFile, RenameDir, MakeDir, RemoveDir
        <3>2. UNCHANGED <<dirs, staged, index>>
            BY <3>1 DEF WriteFile, RemoveFile, Happens
        <3>3. \A p \in Files : disk'[p] \in {0, disk[p], clock + 1} /\ clock \in Nat
            BY <1>0, <3>1, SyncAssumption DEF WriteFile, RemoveFile, Types
        <3>4. \A p \in Files : /\ index[p] <= clock /\ staged[p] <= clock
                               /\ index[p] \in Nat /\ staged[p] \in Nat
            BY SyncAssumption DEF BaseInv, InPast, Types
        <3>5. ASSUME NEW p \in Files, disk'[p] # 0
              PROVE  index[p] <= disk'[p] /\ staged[p] <= disk'[p]
            BY <2>0, <3>3, <3>4, <3>5 DEF InPlace
        <3> QED BY <2>0, <3>2, <3>5 DEF InPlace
    <2>3. CASE UNCHANGED <<disk, dirs>>
        <3>1. \A p \in Files : /\ disk[p] \in Nat
                               /\ disk[p] # 0 => DirOf(p) \in dirs
            BY <1>0, SyncAssumption DEF Types, FilesHaveDirs
        <3> SUFFICES ASSUME NEW p \in Files
                     PROVE  /\ disk[p] # 0 => index'[p] <= disk[p] /\ staged'[p] <= disk[p]
                            /\ index'[p] # 0 \/ staged'[p] # 0 => DirOf(p) \in dirs
            BY <2>3 DEF InPlace
        <3>2. /\ index'[p] \in {index[p], staged[p]}
              /\ staged'[p] \in {0, staged[p], index[p], disk[p]}
            BY <1>0, ChangedDocuments
        <3> QED BY <2>0, <3>1, <3>2 DEF InPlace
    <2>4. FileSystem \/ UNCHANGED <<disk, dirs>>
        BY DEF Next, Watch, HandleEvent, HandleError, Expire, TakeChange, EndRescan, ScanStep,
           BeginScan, BeginWalk, EndScan, DetectDeletion, WalkFile, Drain, Commit, Register,
           Start, Fault, CommitFails, WatcherFails, Crash, ScanFails, Unverified, vars, fsVars
    <2> QED BY <2>2, <2>3, <2>4
<1> QED BY <1>1, <1>2 DEF Recoverable

LEMMA WatcherFailsCovered ==
    ASSUME Types, Covered, WatcherFails
    PROVE  Covered'
<1> DEFINE n == Len(raw)
<1>1. /\ n \in Nat /\ DOMAIN raw = 1 .. n /\ DOMAIN raw' = 1 .. n + 1 /\ raw'[n + 1] = Error
      /\ \A i \in 1 .. n : raw'[i] = raw[i]
      /\ UNCHANGED <<disk, dirs, staged, pending, chan, scan, sent>>
    BY EventTypes, AppendProperties, LenProperties
       DEF WatcherFails, Types, fsVars, scanVars
<1> HIDE DEF n
<1>2. /\ \A i \in DOMAIN raw : i \in DOMAIN raw' /\ raw'[i] = raw[i]
      /\ \A i \in DOMAIN raw' : i \in DOMAIN raw \/ raw'[i] = Error
    BY <1>1
<1>3. \A p : /\ Reported(p) => Reported(p)'
             /\ DirGone(p) => DirGone(p)'
             /\ FileGone(p) => FileGone(p)'
    BY <1>1, <1>2 DEF Reported, DirGone, FileGone
<1>4. LossNoted => LossNoted'
    BY <1>1, <1>2 DEF LossNoted
<1>5. LateInChan'
    BY <1>1, <1>2 DEF Covered, LateInChan
<1>6. LateInRaw'
    <2> SUFFICES ASSUME NEW p \in Visible, disk[p] # 0, NEW i \in DOMAIN raw', Removes(raw'[i], p)
                 PROVE  \E j \in DOMAIN raw' : j >= i /\ (raw'[j] = Overflow \/ Reports(raw'[j], p))
        BY <1>1 DEF LateInRaw
    <2>1. i \in DOMAIN raw /\ Removes(raw[i], p)
        BY <1>2, EventFields
    <2>2. PICK j \in DOMAIN raw : j >= i /\ (raw[j] = Overflow \/ Reports(raw[j], p))
        BY <2>1 DEF Covered, LateInRaw
    <2> QED BY <1>2, <2>2
<1>7. \A s \in Scans : \A p :
         /\ Finds(s, p) => Finds(s, p)'
         /\ FindsGone(s, p) => FindsGone(s, p)'
         /\ Doomed(s, p)' => Doomed(s, p)
    BY <1>1 DEF Finds, FindsGone, Doomed, NeedsIndexing, Newer
<1> QED BY <1>1, <1>3, <1>4, <1>5, <1>6, <1>7, KeptCovered

LEMMA FileSystemCovered ==
    ASSUME Noticed, BaseInv, FilesHaveDirs, Covered, up, FileSystem
    PROVE  Covered'
BY WriteFileCovered, RemoveFileCovered, RenameFileCovered, RenameDirCovered, MakeDirCovered,
   RemoveDirCovered DEF FileSystem

LEMMA SyncInit == Init => SyncInv
<1> SUFFICES ASSUME Init PROVE SyncInv
    OBVIOUS
<1>1. BaseInv /\ DeletesFirst
    BY BaseInit DEF Init, DeletesFirst, DeletesThenUpdates
<1>2. ~up /\ \A p \in Files : disk[p] = 0 /\ staged[p] = 0 /\ index[p] = 0
    BY DEF Init, Nothing
<1>3. FilesHaveDirs /\ OnlyVisible /\ InPlace
    BY <1>2 DEF FilesHaveDirs, OnlyVisible, InPlace
<1>4. Recoverable
    BY <1>3 DEF Init, Recoverable
<1> QED BY <1>1, <1>2, <1>3, <1>4 DEF SyncInv

LEMMA SyncNext ==
    ASSUME Noticed, SyncInv, [Next]_vars
    PROVE  SyncInv'
<1>0. /\ BaseInv /\ Types /\ Shape /\ DeletesFirst /\ FilesHaveDirs /\ OnlyVisible /\ Recoverable
      /\ AllNoticed
    BY DEF SyncInv, BaseInv, Noticed
<1>1. BaseInv' /\ DeletesFirst'
    BY <1>0, BaseNext, DeletesFirstKept
<1>2. FilesHaveDirs' /\ OnlyVisible' /\ Recoverable'
    BY <1>0, <1>1, FilesHaveDirsKept, OnlyVisibleKept, RecoverableKept
<1>3. ASSUME up', ~degraded', ~blind' PROVE Covered'
    <2>1. CASE FileSystem
        <3>1. UNCHANGED <<up, degraded, blind>>
            BY <2>1 DEF FileSystem, WriteFile, RemoveFile, RenameFile, RenameDir, MakeDir,
                RemoveDir, Happens, history
        <3>2. Covered /\ up
            BY <1>3, <3>1 DEF SyncInv
        <3> QED BY <1>0, <2>1, <3>2, FileSystemCovered
    <2>2. CASE Watch
        <3>1. UNCHANGED <<up, degraded, blind>>
            BY <2>2 DEF Watch, HandleEvent, HandleError, Expire, history
        <3>2. Covered
            BY <1>3, <3>1 DEF SyncInv
        <3> QED BY <1>0, <2>2, <3>2, WatchCovered
    <2>3. CASE TakeChange \/ EndRescan
        <3>1. UNCHANGED <<up, degraded, blind>>
            BY <2>3 DEF TakeChange, EndRescan, history
        <3>2. Covered
            BY <1>3, <3>1 DEF SyncInv
        <3> QED BY <1>0, <2>3, <3>2, TakeChangeCovered, EndRescanCovered
    <2>4. ASSUME NEW s \in Scans, ScanStep(s) PROVE Covered'
        <3>1. UNCHANGED <<up, degraded>> /\ ~blind
            <4>1. CASE BeginScan(s)
                BY <1>3, <4>1, Zenon DEF BeginScan
            <4>2. CASE ~BeginScan(s)
                <5>1. UNCHANGED <<up, degraded, blind>>
                    BY <2>4, <4>2 DEF ScanStep, BeginWalk, EndScan, DetectDeletion, WalkFile, history
                <5> QED BY <1>3, <5>1
            <4> QED BY <4>1, <4>2
        <3>2. Covered
            BY <1>3, <3>1 DEF SyncInv
        <3> QED BY <1>0, <1>3, <2>4, <3>2, ScanStepCovered
    <2>5. ASSUME NEW s \in Scans, Drain(s) PROVE Covered'
        <3>1. UNCHANGED <<up, degraded, blind>>
            BY <2>5 DEF Drain, history
        <3>2. Covered
            BY <1>3, <3>1 DEF SyncInv
        <3> QED BY <1>0, <2>5, <3>2, DrainCovered
    <2>6. CASE Commit \/ Register \/ UNCHANGED vars
        <3>1. UNCHANGED <<up, degraded, blind>>
            BY <2>6 DEF Commit, Register, vars, history
        <3>2. Covered
            BY <1>3, <3>1 DEF SyncInv
        <3>3. UNCHANGED <<disk, dirs, staged, raw, pending, chan, scan, sent>>
            BY <2>6 DEF Commit, Register, vars, fsVars, pipeVars, scanVars
        <3>4. \A p : /\ Finds("rescan", p) => Finds("rescan", p)'
                     /\ FindsGone("rescan", p) => FindsGone("rescan", p)'
                     /\ Doomed("rescan", p)' => Doomed("rescan", p)
            BY <3>3 DEF Finds, FindsGone, Doomed, NeedsIndexing, Newer
        <3> QED BY <3>2, <3>3, <3>4, ScanCovered DEF Scans
    <2>7. CASE Start
        BY <1>0, <2>7, StartCovered
    <2>8. CASE WatcherFails
        <3>1. UNCHANGED <<up, degraded, blind>>
            BY <2>8 DEF WatcherFails, history
        <3>2. Covered
            BY <1>3, <3>1 DEF SyncInv
        <3> QED BY <1>0, <2>8, <3>2, WatcherFailsCovered
    <2>9. ~CommitFails /\ ~Crash /\ \A s \in Scans : ~ScanFails(s) /\ \A p \in Files : ~Unverified(s, p)
        BY <1>3 DEF CommitFails, Crash, ScanFails, Unverified
    <2> QED BY <2>1, <2>2, <2>3, <2>4, <2>5, <2>6, <2>7, <2>8, <2>9 DEF Next, Fault
<1> QED BY <1>1, <1>2, <1>3 DEF SyncInv

-----------------------------------------------------------------------------

\* Nothing is left to do: nothing is stale and nothing is left over.
LEMMA QuietIsDone ==
    ASSUME SyncInv
    PROVE  FreshWhenQuiet /\ NoGhosts
<1> SUFFICES ASSUME Quiet, ~degraded, ~blind
             PROVE  Fresh(staged) /\ NoneLeft(staged)
    BY DEF FreshWhenQuiet, NoGhosts
<1>1. Covered /\ OnlyVisible /\ Shape
    BY DEF SyncInv, Quiet, BaseInv
<1>2. raw = <<>> /\ pending = {} /\ chan = <<>>
    BY DEF Quiet
<1>3. /\ ~LossNoted
      /\ \A p : ~Reported(p) /\ ~DirGone(p) /\ ~FileGone(p)
    BY <1>2 DEF LossNoted, Reported, DirGone, FileGone
<1>4. \A s \in Scans : \A p : ~Finds(s, p) /\ ~FindsGone(s, p)
    BY <1>1, FindsIsScanning DEF Quiet
<1>5. Fresh(staged)
    BY <1>1, <1>3, <1>4 DEF Covered, StaleIsCovered, Fresh
<1>6. NoneLeft(staged)
    <2>1. \A p \in Files : disk[p] = 0 => staged[p] = 0
        BY <1>1, <1>3, <1>4 DEF Covered, GhostIsCovered
    <2> QED BY <1>1, <2>1 DEF NoneLeft, OnlyVisible, Visible
<1> QED BY <1>5, <1>6

\* Once every event has been handled and every scan has ended, every file is indexed
\* as it is on disk: whatever was written, removed or renamed, lost in an overflow or a
\* crash, and in whatever order the debounced, the immediate and the scanned changes
\* came, as long as the changes are of those the program can notice.
THEOREM IndexFollowsFiles ==
    ASSUME Noticed
    PROVE  Spec => []FreshWhenQuiet
<1>1. SyncInv /\ [Next]_vars => SyncInv'
    BY SyncNext
<1>2. SyncInv => FreshWhenQuiet
    BY QuietIsDone
<1> QED BY <1>1, <1>2, SyncInit, PTL DEF Spec

\* Then, too, no document is left of a file that was removed or renamed, be it moved
\* below a hidden directory or gone with its own.
THEOREM NoGhostsLeft ==
    ASSUME Noticed
    PROVE  Spec => []NoGhosts
<1>1. SyncInv /\ [Next]_vars => SyncInv'
    BY SyncNext
<1>2. SyncInv => NoGhosts
    BY QuietIsDone
<1> QED BY <1>1, <1>2, SyncInit, PTL DEF Spec

=============================================================================
