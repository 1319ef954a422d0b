-------------------------- MODULE TextCacheProofs --------------------------
(***************************************************************************)
(* Proofs about TextCache for any number of files and readers.             *)
(***************************************************************************)
EXTENDS TextCache, TLAPS

\* Some change of f waits for the event loop.
Announced(f) == Modified(f) \in events \/ Deleted(f) \in events

\* The event loop is between taking a Modified of f and pushing its document.
Indexing(f) ==
    pc[Indexer] \in {"stat", "lookup", "read", "insert", "push"} /\ target[Indexer] = f

-----------------------------------------------------------------------------
(* Type correctness.                                                       *)

Steps == {"idle", "lookup", "read", "insert", "stat", "push", "clear"}

TypeInv == TypeOK /\ pc \in [Tasks -> Steps]

LEMMA EventKinds ==
    ASSUME NEW f, NEW g
    PROVE  /\ Modified(f) # Deleted(g)
           /\ Modified(f) = Modified(g) => f = g
           /\ Deleted(f) = Deleted(g) => f = g
BY DEF Modified, Deleted

LEMMA TypeInit == Init => TypeInv
<1> SUFFICES ASSUME Init PROVE TypeInv
    OBVIOUS
<1> USE CacheAssumption DEF Init, TypeInv, TypeOK, Steps, Tasks
<1>1. target \in [Tasks -> Files]
    <2>1. (CHOOSE f \in Files : TRUE) \in Files
        OBVIOUS
    <2> QED BY <2>1
<1>2. index \in [Files -> [mtime : 0 .. MaxClock, text : 0 .. MaxClock]]
    OBVIOUS
<1> QED BY <1>1, <1>2 DEF NotCached, Failures

LEMMA TypeStep == TypeInv /\ [Next]_vars => TypeInv'
<1> SUFFICES ASSUME TypeInv, [Next]_vars PROVE TypeInv'
    OBVIOUS
<1> USE CacheAssumption DEF TypeInv, TypeOK, Steps, Tasks, NotCached, NoText, Failures
<1>1. ASSUME NEW f \in Files, WriteFile(f) PROVE TypeInv'
    <2>1. /\ clock' \in 1 .. MaxClock
          /\ disk' \in [Files -> 0 .. MaxClock]
        BY <1>1 DEF WriteFile
    <2>2. events' \subseteq {Modified(g) : g \in Files} \cup {Deleted(g) : g \in Files}
        BY <1>1 DEF WriteFile
    <2>3. UNCHANGED <<cache, index, pc, target, text, mtime, failed>>
        BY <1>1 DEF WriteFile
    <2> QED BY <2>1, <2>2, <2>3
<1>2. ASSUME NEW f \in Files, RemoveFile(f) PROVE TypeInv'
    <2>1. disk' \in [Files -> 0 .. MaxClock]
        BY <1>2 DEF RemoveFile
    <2>2. events' \subseteq {Modified(g) : g \in Files} \cup {Deleted(g) : g \in Files}
        BY <1>2 DEF RemoveFile
    <2>3. UNCHANGED <<clock, cache, index, pc, target, text, mtime, failed>>
        BY <1>2 DEF RemoveFile
    <2> QED BY <2>1, <2>2, <2>3
<1>3. ASSUME NEW f \in Files, Evict(f) PROVE TypeInv'
    BY <1>3 DEF Evict
<1>4. ASSUME NEW f \in Files, TakeModified(f) PROVE TypeInv'
    BY <1>4 DEF TakeModified
<1>5. ASSUME NEW f \in Files, TakeDeleted(f) PROVE TypeInv'
    BY <1>5 DEF TakeDeleted, NoDocument
<1>6. ASSUME NEW r \in Readers, NEW f \in Files, AskText(r, f) PROVE TypeInv'
    BY <1>6 DEF AskText
<1>7. ASSUME NEW t \in Tasks, Load(t) PROVE TypeInv'
    <2>1. CASE CacheHit(t)
        BY <2>1 DEF CacheHit, Return
    <2>2. CASE CacheMiss(t)
        BY <2>2 DEF CacheMiss
    <2>3. CASE ReadFails(t)
        BY <2>3 DEF ReadFails, Return
    <2>4. CASE ReadText(t)
        BY <2>4 DEF ReadText
    <2>5. CASE InsertText(t)
        BY <2>5 DEF InsertText, Return
    <2> QED BY <1>7, <2>1, <2>2, <2>3, <2>4, <2>5 DEF Load
<1>8. ASSUME NEW f \in Files, ResolveFails(f) PROVE TypeInv'
    BY <1>8 DEF ResolveFails
<1>9. CASE StatFile
    BY <1>9 DEF StatFile
<1>10. CASE StatFails
    BY <1>10 DEF StatFails
<1>11. CASE PushDocument
    BY <1>11 DEF PushDocument
<1>12. CASE ClearCache
    BY <1>12 DEF ClearCache
<1>13. CASE UNCHANGED vars
    BY <1>13 DEF vars
<1> QED BY <1>1, <1>2, <1>3, <1>4, <1>5, <1>6, <1>7, <1>8, <1>9, <1>10, <1>11, <1>12, <1>13
        DEF Next, Take

\* Every variable of the cache model keeps its type.
THEOREM CacheTypeCorrect == Spec => []TypeOK
<1>1. TypeInv => TypeOK
    BY DEF TypeInv
<1> QED BY TypeInit, TypeStep, <1>1, PTL DEF Spec

-----------------------------------------------------------------------------
(* Freshness, as long as no file is written while a task loads it.         *)

\* What has been read and not yet inserted is still the text of the file.
ReadIsCurrent ==
    \A t \in Tasks : pc[t] = "insert" => text[t] = disk[target[t]]

\* Stale cached text is announced, or about to be cleared with the whole cache;
\* a change whose path was not resolved leaves it where it is.
CacheInv ==
    \A f \in Files :
        \/ cache[f] \in {NotCached, disk[f]}
        \/ Announced(f)
        \/ pc[Indexer] = "clear"
        \/ failed[f] = "path"

\* A file that was removed and written again has both changes announced: the
\* Modified is not taken before the Deleted.
RewriteIsAnnounced ==
    \A f \in Files : Deleted(f) \in events /\ disk[f] # 0 => Modified(f) \in events

\* What failed in the change that is in work.
WorkFails ==
    \A f \in Files :
        Indexing(f) => failed[f] = "none" \/ (failed[f] = "load" /\ pc[Indexer] = "push")

PushedIsCurrent ==
    \A f \in Files :
        Indexing(f) /\ pc[Indexer] = "push" =>
            \/ Announced(f)
            \/ text[Indexer] = disk[f]
            \/ text[Indexer] = NoText /\ failed[f] = "load"

IndexInv ==
    \A f \in Files :
        index[f].text = disk[f] \/ Announced(f) \/ Indexing(f) \/ Reported(f)

\* The strengthening that is inductive.
FreshInv ==
    /\ TypeInv
    /\ ReadIsCurrent
    /\ CacheInv
    /\ RewriteIsAnnounced
    /\ WorkFails
    /\ PushedIsCurrent
    /\ IndexInv

LEMMA FreshInit == Init => FreshInv
BY TypeInit
DEF Init, FreshInv, TypeInv, TypeOK, ReadIsCurrent, CacheInv, RewriteIsAnnounced,
    PushedIsCurrent, WorkFails, IndexInv, Indexing, Tasks

LEMMA FreshStep ==
    ASSUME ~WritesOverlap, FreshInv, [Next]_vars
    PROVE  FreshInv'
<1>1. TypeInv /\ TypeInv'
    BY TypeStep DEF FreshInv
<1> USE <1>1, CacheAssumption, EventKinds
    DEF FreshInv, TypeInv, TypeOK, Tasks, Announced, Indexing, Reported, NotCached, NoText
<1>2. ASSUME NEW f \in Files, WriteFile(f)
      PROVE  FreshInv'
    <2>1. ReadIsCurrent'
        BY <1>2 DEF ReadIsCurrent, WriteFile, Loading
    <2>2. CacheInv'
        BY <1>2 DEF CacheInv, WriteFile, Loading
    <2>3. RewriteIsAnnounced'
        BY <1>2 DEF RewriteIsAnnounced, WriteFile, Loading
    <2>4. PushedIsCurrent'
        BY <1>2 DEF PushedIsCurrent, WriteFile, Loading
    <2>5. WorkFails'
        BY <1>2 DEF WorkFails, WriteFile, Loading
    <2>6. IndexInv'
        BY <1>2 DEF IndexInv, WriteFile, Loading
    <2> QED BY <2>1, <2>2, <2>3, <2>4, <2>5, <2>6
<1>3. ASSUME NEW f \in Files, RemoveFile(f)
      PROVE  FreshInv'
    <2>1. ReadIsCurrent'
        BY <1>3 DEF ReadIsCurrent, RemoveFile, Loading
    <2>2. CacheInv'
        BY <1>3 DEF CacheInv, RemoveFile, Loading
    <2>3. RewriteIsAnnounced'
        BY <1>3 DEF RewriteIsAnnounced, RemoveFile, Loading
    <2>4. PushedIsCurrent'
        BY <1>3 DEF PushedIsCurrent, RemoveFile, Loading
    <2>5. WorkFails'
        BY <1>3 DEF WorkFails, RemoveFile, Loading
    <2>6. IndexInv'
        BY <1>3 DEF IndexInv, RemoveFile, Loading
    <2> QED BY <2>1, <2>2, <2>3, <2>4, <2>5, <2>6
<1>4. ASSUME NEW f \in Files, Evict(f)
      PROVE  FreshInv'
    <2>1. ReadIsCurrent'
        BY <1>4 DEF ReadIsCurrent, Evict
    <2>2. CacheInv'
        BY <1>4 DEF CacheInv, Evict
    <2>3. RewriteIsAnnounced'
        BY <1>4 DEF RewriteIsAnnounced, Evict
    <2>4. PushedIsCurrent'
        BY <1>4 DEF PushedIsCurrent, Evict
    <2>5. WorkFails'
        BY <1>4 DEF WorkFails, Evict
    <2>6. IndexInv'
        BY <1>4 DEF IndexInv, Evict
    <2> QED BY <2>1, <2>2, <2>3, <2>4, <2>5, <2>6
<1>5. ASSUME NEW f \in Files, TakeModified(f)
      PROVE  FreshInv'
    <2>1. ReadIsCurrent'
        BY <1>5 DEF ReadIsCurrent, TakeModified, NotBefore
    <2>2. CacheInv'
        BY <1>5 DEF CacheInv, TakeModified, NotBefore
    <2>3. RewriteIsAnnounced'
        BY <1>5 DEF RewriteIsAnnounced, TakeModified, NotBefore
    <2>4. PushedIsCurrent'
        BY <1>5 DEF PushedIsCurrent, TakeModified, NotBefore
    <2>5. WorkFails'
        BY <1>5 DEF WorkFails, TakeModified, NotBefore
    <2>6. IndexInv'
        BY <1>5 DEF IndexInv, TakeModified, NotBefore
    <2> QED BY <2>1, <2>2, <2>3, <2>4, <2>5, <2>6
<1>6. ASSUME NEW f \in Files, TakeDeleted(f)
      PROVE  FreshInv'
    <2>1. ReadIsCurrent'
        BY <1>6 DEF ReadIsCurrent, TakeDeleted, NoDocument
    <2>2. CacheInv'
        BY <1>6 DEF CacheInv, TakeDeleted, NoDocument
    <2>3. RewriteIsAnnounced'
        BY <1>6 DEF RewriteIsAnnounced, TakeDeleted, NoDocument
    <2>4. PushedIsCurrent'
        BY <1>6 DEF PushedIsCurrent, TakeDeleted, NoDocument
    <2>5. WorkFails'
        BY <1>6 DEF WorkFails, TakeDeleted, NoDocument
    <2>6. IndexInv'
        BY <1>6 DEF IndexInv, RewriteIsAnnounced, TakeDeleted, NoDocument
    <2> QED BY <2>1, <2>2, <2>3, <2>4, <2>5, <2>6
<1>7. ASSUME NEW r \in Readers, NEW f \in Files, AskText(r, f)
      PROVE  FreshInv'
    <2>1. ReadIsCurrent'
        BY <1>7 DEF ReadIsCurrent, AskText
    <2>2. CacheInv'
        BY <1>7 DEF CacheInv, AskText
    <2>3. RewriteIsAnnounced'
        BY <1>7 DEF RewriteIsAnnounced, AskText
    <2>4. PushedIsCurrent'
        BY <1>7 DEF PushedIsCurrent, AskText
    <2>5. WorkFails'
        BY <1>7 DEF WorkFails, AskText
    <2>6. IndexInv'
        BY <1>7 DEF IndexInv, AskText
    <2> QED BY <2>1, <2>2, <2>3, <2>4, <2>5, <2>6
<1>8. ASSUME NEW t \in Tasks, CacheHit(t)
      PROVE  FreshInv'
    <2>1. ReadIsCurrent'
        BY <1>8 DEF ReadIsCurrent, CacheHit, Return
    <2>2. CacheInv'
        BY <1>8 DEF CacheInv, CacheHit, Return
    <2>3. RewriteIsAnnounced'
        BY <1>8 DEF RewriteIsAnnounced, CacheHit, Return
    <2>4. PushedIsCurrent'
        BY <1>8 DEF PushedIsCurrent, CacheInv, WorkFails, CacheHit, Return
    <2>5. WorkFails'
        BY <1>8 DEF WorkFails, CacheHit, Return
    <2>6. IndexInv'
        BY <1>8 DEF IndexInv, CacheHit, Return
    <2> QED BY <2>1, <2>2, <2>3, <2>4, <2>5, <2>6
<1>9. ASSUME NEW t \in Tasks, CacheMiss(t)
      PROVE  FreshInv'
    <2>1. ReadIsCurrent'
        BY <1>9 DEF ReadIsCurrent, CacheMiss
    <2>2. CacheInv'
        BY <1>9 DEF CacheInv, CacheMiss
    <2>3. RewriteIsAnnounced'
        BY <1>9 DEF RewriteIsAnnounced, CacheMiss
    <2>4. PushedIsCurrent'
        BY <1>9 DEF PushedIsCurrent, CacheMiss
    <2>5. WorkFails'
        BY <1>9 DEF WorkFails, CacheMiss
    <2>6. IndexInv'
        BY <1>9 DEF IndexInv, CacheMiss
    <2> QED BY <2>1, <2>2, <2>3, <2>4, <2>5, <2>6
<1>10. ASSUME NEW t \in Tasks, ReadFails(t)
      PROVE  FreshInv'
    <2>1. ReadIsCurrent'
        BY <1>10 DEF ReadIsCurrent, ReadFails, Return
    <2>2. CacheInv'
        BY <1>10 DEF CacheInv, WorkFails, ReadFails, Return
    <2>3. RewriteIsAnnounced'
        BY <1>10 DEF RewriteIsAnnounced, ReadFails, Return
    <2>4. PushedIsCurrent'
        BY <1>10 DEF PushedIsCurrent, WorkFails, ReadFails, Return
    <2>5. WorkFails'
        BY <1>10 DEF WorkFails, ReadFails, Return
    <2>6. IndexInv'
        BY <1>10 DEF IndexInv, ReadFails, Return
    <2> QED BY <2>1, <2>2, <2>3, <2>4, <2>5, <2>6
<1>11. ASSUME NEW t \in Tasks, ReadText(t)
      PROVE  FreshInv'
    <2>1. ReadIsCurrent'
        BY <1>11 DEF ReadIsCurrent, ReadText
    <2>2. CacheInv'
        BY <1>11 DEF CacheInv, ReadText
    <2>3. RewriteIsAnnounced'
        BY <1>11 DEF RewriteIsAnnounced, ReadText
    <2>4. PushedIsCurrent'
        BY <1>11 DEF PushedIsCurrent, ReadText
    <2>5. WorkFails'
        BY <1>11 DEF WorkFails, ReadText
    <2>6. IndexInv'
        BY <1>11 DEF IndexInv, ReadText
    <2> QED BY <2>1, <2>2, <2>3, <2>4, <2>5, <2>6
<1>12. ASSUME NEW t \in Tasks, InsertText(t)
      PROVE  FreshInv'
    <2>1. ReadIsCurrent'
        BY <1>12 DEF ReadIsCurrent, InsertText, Return
    <2>2. CacheInv'
        BY <1>12 DEF CacheInv, ReadIsCurrent, InsertText, Return
    <2>3. RewriteIsAnnounced'
        BY <1>12 DEF RewriteIsAnnounced, InsertText, Return
    <2>4. PushedIsCurrent'
        BY <1>12 DEF PushedIsCurrent, ReadIsCurrent, InsertText, Return
    <2>5. WorkFails'
        BY <1>12 DEF WorkFails, InsertText, Return
    <2>6. IndexInv'
        BY <1>12 DEF IndexInv, InsertText, Return
    <2> QED BY <2>1, <2>2, <2>3, <2>4, <2>5, <2>6
<1>13. ASSUME StatFile
      PROVE  FreshInv'
    <2>1. ReadIsCurrent'
        BY <1>13 DEF ReadIsCurrent, StatFile
    <2>2. CacheInv'
        BY <1>13 DEF CacheInv, StatFile
    <2>3. RewriteIsAnnounced'
        BY <1>13 DEF RewriteIsAnnounced, StatFile
    <2>4. PushedIsCurrent'
        BY <1>13 DEF PushedIsCurrent, StatFile
    <2>5. WorkFails'
        BY <1>13 DEF WorkFails, StatFile
    <2>6. IndexInv'
        BY <1>13 DEF IndexInv, StatFile
    <2> QED BY <2>1, <2>2, <2>3, <2>4, <2>5, <2>6
<1>14. ASSUME StatFails
      PROVE  FreshInv'
    <2>1. ReadIsCurrent'
        BY <1>14 DEF ReadIsCurrent, StatFails
    <2>2. CacheInv'
        BY <1>14 DEF CacheInv, WorkFails, StatFails
    <2>3. RewriteIsAnnounced'
        BY <1>14 DEF RewriteIsAnnounced, StatFails
    <2>4. PushedIsCurrent'
        BY <1>14 DEF PushedIsCurrent, StatFails
    <2>5. WorkFails'
        BY <1>14 DEF WorkFails, StatFails
    <2>6. IndexInv'
        BY <1>14 DEF IndexInv, StatFails
    <2> QED BY <2>1, <2>2, <2>3, <2>4, <2>5, <2>6
<1>15. ASSUME PushDocument
      PROVE  FreshInv'
    <2>1. ReadIsCurrent'
        BY <1>15 DEF ReadIsCurrent, PushDocument
    <2>2. CacheInv'
        BY <1>15 DEF CacheInv, PushDocument
    <2>3. RewriteIsAnnounced'
        BY <1>15 DEF RewriteIsAnnounced, PushDocument
    <2>4. PushedIsCurrent'
        BY <1>15 DEF PushedIsCurrent, PushDocument
    <2>5. WorkFails'
        BY <1>15 DEF WorkFails, PushDocument
    <2>6. IndexInv'
        BY <1>15 DEF IndexInv, PushedIsCurrent, PushDocument
    <2> QED BY <2>1, <2>2, <2>3, <2>4, <2>5, <2>6
<1>16. ASSUME ClearCache
      PROVE  FreshInv'
    <2>1. ReadIsCurrent'
        BY <1>16 DEF ReadIsCurrent, ClearCache
    <2>2. CacheInv'
        BY <1>16 DEF CacheInv, ClearCache
    <2>3. RewriteIsAnnounced'
        BY <1>16 DEF RewriteIsAnnounced, ClearCache
    <2>4. PushedIsCurrent'
        BY <1>16 DEF PushedIsCurrent, ClearCache
    <2>5. WorkFails'
        BY <1>16 DEF WorkFails, ClearCache
    <2>6. IndexInv'
        BY <1>16 DEF IndexInv, ClearCache
    <2> QED BY <2>1, <2>2, <2>3, <2>4, <2>5, <2>6
<1>17. ASSUME UNCHANGED vars
      PROVE  FreshInv'
    <2>1. ReadIsCurrent'
        BY <1>17 DEF ReadIsCurrent, vars
    <2>2. CacheInv'
        BY <1>17 DEF CacheInv, vars
    <2>3. RewriteIsAnnounced'
        BY <1>17 DEF RewriteIsAnnounced, vars
    <2>4. PushedIsCurrent'
        BY <1>17 DEF PushedIsCurrent, vars
    <2>5. WorkFails'
        BY <1>17 DEF WorkFails, vars
    <2>6. IndexInv'
        BY <1>17 DEF IndexInv, vars
    <2> QED BY <2>1, <2>2, <2>3, <2>4, <2>5, <2>6
<1>18. ASSUME NEW f \in Files, ResolveFails(f)
      PROVE  FreshInv'
    <2>1. ReadIsCurrent'
        BY <1>18 DEF ReadIsCurrent, ResolveFails
    <2>2. CacheInv'
        BY <1>18 DEF CacheInv, ResolveFails
    <2>3. RewriteIsAnnounced'
        BY <1>18 DEF RewriteIsAnnounced, ResolveFails, NotBefore
    <2>4. PushedIsCurrent'
        BY <1>18 DEF PushedIsCurrent, ResolveFails
    <2>5. WorkFails'
        BY <1>18 DEF WorkFails, ResolveFails
    <2>6. IndexInv'
        BY <1>18 DEF IndexInv, ResolveFails
    <2> QED BY <2>1, <2>2, <2>3, <2>4, <2>5, <2>6
<1> QED BY <1>2, <1>3, <1>4, <1>5, <1>6, <1>7, <1>8, <1>9, <1>10, <1>11, <1>12, <1>13,
           <1>14, <1>15, <1>16, <1>17, <1>18 DEF Next, Take, Load

-----------------------------------------------------------------------------
(* The theorems.  Without the hypothesis the first is false: the run        *)
(* text_cache_overlap shows a write that races a load.                      *)

LEMMA FreshAlways ==
    ASSUME ~WritesOverlap
    PROVE  Spec => []FreshInv
<1>1. FreshInv /\ [Next]_vars => FreshInv'
    BY FreshStep
<1> QED BY FreshInit, <1>1, PTL DEF Spec

\* Once every change has been processed, the indexed text of a file is the
\* text of the file, unless a failure was reported, if no file is written while
\* some task is loading it.
THEOREM IndexEndsFresh ==
    ASSUME ~WritesOverlap
    PROVE  Spec => []IndexFreshWhenQuiet
<1>1. FreshInv => IndexFreshWhenQuiet
    BY DEF FreshInv, IndexInv, IndexFreshWhenQuiet, Quiet, Announced, Indexing, Tasks
<1> QED BY FreshAlways, <1>1, PTL

\* Once every change has been processed, the cache holds the text of the file
\* or nothing, unless its path was not resolved, if no file is written while
\* some task is loading it.
THEOREM CacheEndsFresh ==
    ASSUME ~WritesOverlap
    PROVE  Spec => []CacheFreshWhenQuiet
<1>1. FreshInv => CacheFreshWhenQuiet
    BY DEF FreshInv, CacheInv, CacheFreshWhenQuiet, Quiet, Announced, Tasks
<1> QED BY FreshAlways, <1>1, PTL

\* A stale document that no scan would find is about to be replaced, or a failure
\* was reported, if no file is written while some task is loading it.
THEOREM StaleDocumentsAnnounced ==
    ASSUME ~WritesOverlap
    PROVE  Spec => []StaleIsAnnounced
<1>1. FreshInv => StaleIsAnnounced
    <2> SUFFICES ASSUME FreshInv, NEW f \in Files, index[f].text # disk[f], ~Reported(f)
                 PROVE  \/ \E e \in events : e.file = f
                        \/ pc[Indexer] # "idle" /\ target[Indexer] = f
        BY DEF StaleIsAnnounced
    <2>1. CASE Announced(f)
        BY <2>1 DEF Announced, Modified, Deleted
    <2>2. CASE Indexing(f)
        BY <2>2 DEF Indexing
    <2> QED BY <2>1, <2>2 DEF FreshInv, IndexInv
<1> QED BY FreshAlways, <1>1, PTL
=============================================================================
