---------------------------- MODULE ServingProofs ----------------------------
(***************************************************************************)
(* Proof that answers show what was committed before their requests came   *)
(* in, for any number of requests and of other reloads of the shared       *)
(* reader, any stream of changes and any faults.                           *)
(***************************************************************************)
EXTENDS Serving, SequenceTheorems, TLAPS

Tasks == Requests \union Loaders

Steps == {"idle", "asked", "reloading", "reloaded", "searching", "snippets",
          "answered", "failed"}

Types ==
    /\ channel \in Seq(Stream \union {"mark"})
    /\ mark \in {"outside", "channel", "buffer", "index"}
    /\ searcher \in Versions
    /\ opened \in [Tasks -> Versions \union {"none"}]
    /\ pc \in [Requests -> Steps]
    /\ kind \in [Requests -> {"search", "stats"}]
    /\ view \in [Requests -> Versions \union {"none"}]
    /\ promised \in [Requests -> BOOLEAN]
    /\ excused \in [Requests -> BOOLEAN]

(* There is one Mark, and once it is on its way it is sent no more.        *)
OneMark ==
    \A i \in 1..Len(channel) :
        channel[i] = "mark" =>
            /\ mark = "channel"
            /\ \A j \in 1..Len(channel) : channel[j] = "mark" => i = j

(* What a request has been promised is in the index for good, in what its  *)
(* reload has opened, in what it then has published and in what it takes.  *)
Fresh(r) ==
    /\ promised[r] => mark = "index"
    /\ pc[r] = "reloading" => opened[r] # "none"
    /\ pc[r] = "reloading" /\ promised[r] => opened[r] = "new"
    /\ pc[r] = "reloaded" /\ promised[r] /\ ~excused[r] => searcher = "new"
    /\ pc[r] \in {"searching", "snippets", "answered"} /\ promised[r] /\ ~excused[r]
          => view[r] = "new"

Inv == Types /\ OneMark /\ \A r \in Requests : Fresh(r)

-----------------------------------------------------------------------------
LEMMA InvInit == Init => Inv
<1> SUFFICES ASSUME Init PROVE Inv
    OBVIOUS
<1>1. channel \in Seq(Stream \union {"mark"}) /\ Len(channel) = 0
    BY EmptySeq DEF Init
<1>2. Types
    BY <1>1 DEF Init, Types, Tasks, Steps, Versions
<1>3. OneMark
    BY <1>1 DEF OneMark
<1>4. \A r \in Requests : Fresh(r)
    BY DEF Init, Fresh
<1> QED BY <1>2, <1>3, <1>4 DEF Inv

(* The event loop: it moves the Mark on and never back.                    *)
LEMMA SendKeeps ==
    ASSUME Inv, NEW c \in Stream \union {"mark"}, Send(c)
    PROVE  Types' /\ OneMark' /\ (mark = "index" => mark' = "index")
<1>1. channel \in Seq(Stream \union {"mark"})
    BY DEF Inv, Types
<1>2. /\ channel' \in Seq(Stream \union {"mark"})
      /\ Len(channel') = Len(channel) + 1
      /\ \A i \in 1..Len(channel') :
            channel'[i] = IF i <= Len(channel) THEN channel[i] ELSE c
    BY <1>1 DEF Send
<1>3. Types'
    BY <1>2 DEF Inv, Types, Send, readerVars, answerVars
<1>4. OneMark'
    BY <1>1, <1>2 DEF Inv, OneMark, Send
<1> QED BY <1>3, <1>4 DEF Send

LEMMA TakeChangeKeeps ==
    ASSUME Inv, TakeChange
    PROVE  Types' /\ OneMark' /\ (mark = "index" => mark' = "index")
<1>1. channel \in Seq(Stream \union {"mark"}) /\ channel # <<>>
    BY DEF Inv, Types, TakeChange
<1>2. /\ channel' \in Seq(Stream \union {"mark"})
      /\ Len(channel) \in Nat \ {0}
      /\ Len(channel') = Len(channel) - 1
      /\ \A i \in 1..Len(channel') : channel'[i] = channel[i + 1]
      /\ Head(channel) = channel[1]
    BY <1>1 DEF TakeChange
<1>3. mark' = mark \/ mark = "buffer" \/ Head(channel) = "mark"
    BY DEF TakeChange, BufferChanges
<1>4. mark' \in {"outside", "channel", "buffer", "index"}
    BY DEF Inv, Types, TakeChange, BufferChanges
<1>5. Types'
    BY <1>2, <1>4 DEF Inv, Types, TakeChange, readerVars, answerVars
<1>6. 1 \in 1..Len(channel)
    BY <1>2
<1>7. Head(channel) = "mark" => mark = "channel"
    BY <1>2, <1>6 DEF Inv, OneMark
<1>8. OneMark'
    <2>1. SUFFICES ASSUME NEW i \in 1..Len(channel'), channel'[i] = "mark"
                   PROVE  /\ mark' = "channel"
                          /\ \A j \in 1..Len(channel') : channel'[j] = "mark" => i = j
        BY DEF OneMark
    <2>2. i + 1 \in 1..Len(channel) /\ channel[i + 1] = "mark" /\ i + 1 # 1
        BY <1>2, <2>1
    <2>3. mark = "channel" /\ Head(channel) # "mark"
        BY <1>2, <1>6, <2>2 DEF Inv, OneMark
    <2>4. ASSUME NEW j \in 1..Len(channel'), channel'[j] = "mark" PROVE i = j
        <3>1. j + 1 \in 1..Len(channel) /\ channel[j + 1] = "mark"
            BY <1>2, <2>4
        <3>2. i + 1 = j + 1
            BY <2>2, <3>1 DEF Inv, OneMark
        <3> QED BY <3>2
    <2> QED BY <1>3, <2>3, <2>4
<1> QED BY <1>3, <1>5, <1>7, <1>8

LEMMA TimerKeeps ==
    ASSUME Inv, TimerCommits
    PROVE  Types' /\ OneMark' /\ (mark = "index" => mark' = "index")
<1>1. Types' /\ (mark = "index" => mark' = "index")
    BY DEF Inv, Types, TimerCommits, readerVars, answerVars
<1>2. Len(channel') = 0
    BY DEF TimerCommits
<1> QED BY <1>1, <1>2 DEF OneMark

(* So requests stay fresh while only the loop works.                       *)
LEMMA LoopKeepsFresh ==
    ASSUME Inv, mark = "index" => mark' = "index",
           UNCHANGED <<readerVars, answerVars, pc, excused>>
    PROVE  \A r \in Requests : Fresh(r)'
BY DEF Inv, Fresh, readerVars, answerVars

-----------------------------------------------------------------------------
(* The reader.                                                             *)
LEMMA OpenKeeps ==
    ASSUME Inv, NEW t \in Tasks, Open(t)
    PROVE  /\ opened' \in [Tasks -> Versions \union {"none"}]
           /\ opened'[t] \in Versions
           /\ mark = "index" => opened'[t] = "new"
           /\ \A u \in Tasks : u # t => opened'[u] = opened[u]
BY DEF Inv, Types, Open, Committed, Versions

LEMMA PublishKeeps ==
    ASSUME Inv, NEW t \in Tasks, opened[t] # "none", Publish(t)
    PROVE  /\ opened' \in [Tasks -> Versions \union {"none"}]
           /\ searcher' \in Versions
           /\ excused' \in [Requests -> BOOLEAN]
           /\ searcher' = opened[t]
           /\ \A u \in Tasks : u # t => opened'[u] = opened[u]
           /\ \A r \in Requests : excused[r] => excused'[r]
           /\ \A r \in Requests :
                 r # t /\ pc[r] = "reloaded" /\ ~excused'[r] => searcher' = "new"
<1>1. opened' \in [Tasks -> Versions \union {"none"}]
    BY DEF Inv, Types, Publish, Versions
<1>2. searcher' = opened[t] /\ opened[t] \in Versions
    BY DEF Inv, Types, Publish
<1>3. \A u \in Tasks : u # t => opened'[u] = opened[u]
    BY DEF Inv, Types, Publish
<1>4. excused' \in [Requests -> BOOLEAN]
    BY DEF Publish
<1>5. ASSUME NEW r \in Requests
      PROVE  excused'[r] <=> excused[r] \/ (r # t /\ pc[r] = "reloaded" /\ opened[t] = "old")
    BY Zenon DEF Publish
<1> QED BY <1>1, <1>2, <1>3, <1>4, <1>5 DEF Versions


LEMMA LibraryKeeps ==
    ASSUME Inv, NEW t \in Loaders, LibraryOpens(t) \/ LibraryPublishes(t)
    PROVE  Inv'
<1>1. t \in Tasks /\ \A r \in Requests : r \in Tasks /\ r # t
    BY ServingAssumption DEF Tasks
<1>2. CASE LibraryOpens(t)
    <2>1. Types' /\ OneMark'
        BY <1>1, <1>2, OpenKeeps DEF Inv, Types, OneMark, LibraryOpens, loopVars, answerVars
    <2>2. \A r \in Requests : Fresh(r)'
        BY <1>1, <1>2, OpenKeeps DEF Inv, Fresh, LibraryOpens, loopVars, answerVars
    <2> QED BY <2>1, <2>2 DEF Inv
<1>3. CASE LibraryPublishes(t)
    <2>1. opened[t] # "none" /\ Publish(t)
        BY <1>3 DEF LibraryPublishes
    <2>2. Types' /\ OneMark'
        BY <1>1, <1>3, <2>1, PublishKeeps
           DEF Inv, Types, OneMark, LibraryPublishes, loopVars, answerVars
    <2>3. ASSUME NEW r \in Requests PROVE Fresh(r)'
        BY <1>1, <1>3, <2>1, PublishKeeps DEF Inv, Fresh, LibraryPublishes, loopVars, answerVars
    <2> QED BY <2>2, <2>3 DEF Inv
<1> QED BY <1>2, <1>3

-----------------------------------------------------------------------------
(* The steps of a request.  Each changes only what belongs to it, a reload *)
(* apart, so that it is enough to look at the request itself.              *)
LEMMA OwnStepKeeps ==
    ASSUME Inv, NEW r \in Requests, UNCHANGED <<loopVars, searcher>>,
           Types', Fresh(r)',
           \A q \in Requests : q # r =>
               /\ pc'[q] = pc[q] /\ view'[q] = view[q] /\ opened'[q] = opened[q]
               /\ promised'[q] = promised[q] /\ excused'[q] = excused[q]
    PROVE  Inv'
<1>1. OneMark'
    BY DEF Inv, OneMark, loopVars
<1>2. ASSUME NEW q \in Requests, q # r PROVE Fresh(q)'
    BY <1>2 DEF Inv, Fresh, loopVars
<1> QED BY <1>1, <1>2 DEF Inv

LEMMA AskKeeps ==
    ASSUME Inv, NEW r \in Requests, NEW k \in {"search", "stats"}, NEW n \in Asked, Ask(r, k, n)
    PROVE  Inv'
<1>1. Types'
    BY DEF Inv, Types, Steps, Ask, loopVars, readerVars
<1>2. Fresh(r)'
    BY DEF Inv, Types, Fresh, Ask, loopVars
<1> QED BY <1>1, <1>2, OwnStepKeeps DEF Inv, Types, Ask, loopVars, readerVars

LEMMA ReloadOpensKeeps ==
    ASSUME Inv, NEW r \in Requests, ReloadOpens(r)
    PROVE  Inv'
<1>1. r \in Tasks /\ Open(r)
    BY DEF Tasks, ReloadOpens
<1>2. Types'
    BY <1>1, OpenKeeps DEF Inv, Types, Steps, ReloadOpens, loopVars, answerVars
<1>3. Fresh(r)'
    BY <1>1, OpenKeeps DEF Inv, Types, Fresh, Versions, ReloadOpens, loopVars, answerVars
<1>4. \A q \in Requests : q # r => opened'[q] = opened[q]
    BY <1>1, OpenKeeps DEF Tasks
<1> QED BY <1>2, <1>3, <1>4, OwnStepKeeps DEF Inv, Types, ReloadOpens, loopVars, answerVars

LEMMA ReloadPublishesKeeps ==
    ASSUME Inv, NEW r \in Requests, ReloadPublishes(r)
    PROVE  Inv'
<1>1. r \in Tasks /\ opened[r] # "none" /\ Publish(r)
    BY DEF Inv, Fresh, Tasks, ReloadPublishes
<1>2. Types' /\ OneMark'
    BY <1>1, PublishKeeps DEF Inv, Types, Steps, OneMark, ReloadPublishes, loopVars, answerVars
<1>3. Fresh(r)'
    BY <1>1, PublishKeeps DEF Inv, Types, Fresh, ReloadPublishes, loopVars, answerVars
<1>4. ASSUME NEW q \in Requests, q # r PROVE Fresh(q)'
    <2>1. q \in Tasks /\ opened'[q] = opened[q] /\ pc'[q] = pc[q]
        BY <1>1, <1>4, PublishKeeps DEF Inv, Types, Tasks, ReloadPublishes
    <2> QED BY <1>1, <1>4, <2>1, PublishKeeps DEF Inv, Fresh, ReloadPublishes, loopVars, answerVars
<1> QED BY <1>2, <1>3, <1>4 DEF Inv

LEMMA TaskFailsKeeps ==
    ASSUME Inv, NEW r \in Requests, TaskFails(r)
    PROVE  Inv'
<1>1. pc'[r] \in {"failed", "reloaded"} /\ excused'[r] /\ promised'[r] = promised[r]
    <2>1. excused'[r] /\ promised' = promised
        BY DEF Inv, Types, TaskFails, answerVars
    <2>2. pc'[r] \in {"failed", "reloaded"}
        BY DEF Inv, Types, TaskFails
    <2> QED BY <2>1, <2>2
<1>2. Types'
    BY DEF Inv, Types, Tasks, Steps, TaskFails, loopVars, answerVars
<1>3. Fresh(r)'
    BY <1>1 DEF Inv, Fresh, TaskFails, loopVars
<1>4. UNCHANGED <<loopVars, searcher, view, promised>>
    BY DEF TaskFails, answerVars
<1>5. ASSUME NEW q \in Requests, q # r
      PROVE  pc'[q] = pc[q] /\ opened'[q] = opened[q] /\ excused'[q] = excused[q]
    <2>1. pc'[q] = pc[q]
        BY <1>5 DEF Inv, Types, TaskFails
    <2>2. opened'[q] = opened[q] /\ excused'[q] = excused[q]
        BY <1>5 DEF Inv, Types, Tasks, TaskFails
    <2> QED BY <2>1, <2>2
<1> QED BY <1>2, <1>3, <1>4, <1>5, OwnStepKeeps

LEMMA TakeSearcherKeeps ==
    ASSUME Inv, NEW r \in Requests, TakeSearcher(r) \/ AnswerCount(r)
    PROVE  Inv'
<1>1. Types'
    BY DEF Inv, Types, Steps, TakeSearcher, AnswerCount, loopVars, readerVars
<1>2. Fresh(r)'
    BY DEF Inv, Types, Fresh, TakeSearcher, AnswerCount, loopVars, readerVars
<1> QED BY <1>1, <1>2, OwnStepKeeps
           DEF Inv, Types, TakeSearcher, AnswerCount, loopVars, readerVars

LEMMA CollectKeeps ==
    ASSUME Inv, NEW r \in Requests, Collect(r) \/ AnswerSearch(r)
    PROVE  Inv'
<1>1. Types'
    BY DEF Inv, Types, Steps, Collect, AnswerSearch, loopVars, readerVars, answerVars
<1>2. Fresh(r)'
    BY DEF Inv, Types, Fresh, Collect, AnswerSearch, loopVars, readerVars, answerVars
<1> QED BY <1>1, <1>2, OwnStepKeeps
           DEF Inv, Types, Collect, AnswerSearch, loopVars, readerVars, answerVars

LEMMA LeaveKeeps ==
    ASSUME Inv, NEW r \in Requests, Leave(r)
    PROVE  Inv'
<1>1. Types'
    BY DEF Inv, Types, Steps, Leave, loopVars, readerVars
<1>2. Fresh(r)'
    BY DEF Inv, Types, Fresh, Leave, loopVars
<1> QED BY <1>1, <1>2, OwnStepKeeps DEF Inv, Types, Leave, loopVars, readerVars

LEMMA RestKeeps ==
    ASSUME Inv, UNCHANGED <<channel, mark, searcher, opened, pc, kind, view, promised, excused>>
    PROVE  Inv'
BY DEF Inv, Types, OneMark, Fresh

LEMMA ServeKeeps ==
    ASSUME Inv, NEW r \in Requests, Serve(r)
    PROVE  Inv'
<1>1. CASE ReloadOpens(r) \/ ReloadPublishes(r) \/ TaskFails(r)
    BY <1>1, ReloadOpensKeeps, ReloadPublishesKeeps, TaskFailsKeeps
<1>2. CASE TakeSearcher(r) \/ AnswerCount(r) \/ Collect(r) \/ AnswerSearch(r) \/ Leave(r)
    BY <1>2, TakeSearcherKeeps, CollectKeeps, LeaveKeeps
<1>3. CASE BeginSnippet(r) \/ EmitItem(r)
    BY <1>3, RestKeeps DEF BeginSnippet, EmitItem, loopVars, readerVars
<1>4. CASE \E i \in 1..Window : EndSnippet(r, i)
    BY <1>4, RestKeeps DEF EndSnippet, loopVars, readerVars
<1> QED BY <1>1, <1>2, <1>3, <1>4 DEF Serve

LEMMA InvKept == Inv /\ [Next]_vars => Inv'
<1> SUFFICES ASSUME Inv, [Next]_vars PROVE Inv'
    OBVIOUS
<1>1. ASSUME NEW c \in Stream \union {"mark"}, Send(c) PROVE Inv'
    BY <1>1, SendKeeps, LoopKeepsFresh DEF Inv, Send
<1>2. CASE Tick
    BY <1>2, RestKeeps DEF Tick, readerVars, answerVars
<1>3. CASE TakeChange
    BY <1>3, TakeChangeKeeps, LoopKeepsFresh DEF Inv, TakeChange
<1>4. CASE TimerCommits
    BY <1>4, TimerKeeps, LoopKeepsFresh DEF Inv, TimerCommits
<1>5. ASSUME NEW t \in Loaders, LibraryOpens(t) \/ LibraryPublishes(t) PROVE Inv'
    BY <1>5, LibraryKeeps
<1>6. ASSUME NEW r \in Requests, NEW k \in {"search", "stats"}, NEW n \in Asked, Ask(r, k, n)
      PROVE  Inv'
    BY <1>6, AskKeeps
<1>7. ASSUME NEW r \in Requests, Serve(r) PROVE Inv'
    BY <1>7, ServeKeeps
<1>8. CASE UNCHANGED vars
    BY <1>8, RestKeeps DEF vars, loopVars, readerVars, answerVars
<1> QED BY <1>1, <1>2, <1>3, <1>4, <1>5, <1>6, <1>7, <1>8 DEF Next, Loop

(* A search or a count that came in after a commit shows it, unless a late *)
(* reload undid its own in between (search in search.rs, stats_handler).   *)
THEOREM SearchesShowCommits == Spec => []AnswersAreFresh
<1>1. Inv => AnswersAreFresh
    BY DEF Inv, Fresh, AnswersAreFresh, Answered
<1> QED BY <1>1, InvInit, InvKept, PTL DEF Spec

-----------------------------------------------------------------------------
(* An answer is built from one commit: what Collect takes from it is what  *)
(* the stream of snippets still has to show, has at hand, or has shown.    *)
Item == [doc : Nat, snippet : {"loading", "text", "empty"}]

AnswerTypes ==
    /\ limit \in [Requests -> Nat]
    /\ total \in [Requests -> Nat]
    /\ docs \in [Requests -> Seq(Nat)]
    /\ futures \in [Requests -> Seq(Item)]
    /\ results \in [Requests -> Seq(Item)]

Least(a, b) == IF a <= b THEN a ELSE b

(* The answer under way, its total, its documents, its futures and results.*)
InOrder(d, f, res) ==
    /\ Len(res) + Len(f) <= Len(d)
    /\ \A i \in 1..Len(res) : res[i].doc = d[i]
    /\ \A i \in 1..Len(f) : f[i].doc = d[Len(res) + i]

OfOneCommit(v, n, l, d) ==
    /\ v \in Versions
    /\ n = Len(Hits(v))
    /\ Len(d) = Least(l, Len(Hits(v)))
    /\ \A i \in 1..Len(d) : d[i] = Hits(v)[i]

Whole(r) ==
    /\ pc[r] \in {"searching", "snippets"} => kind[r] = "search"
    /\ pc[r] # "idle" /\ kind[r] = "search" => limit[r] \in 1..MaxLimit
    /\ pc[r] = "searching" => view[r] \in Versions
    /\ pc[r] \notin {"snippets", "answered"} => futures[r] = <<>> /\ results[r] = <<>>
    /\ kind[r] = "stats" => futures[r] = <<>>
    /\ pc[r] \in {"snippets", "answered"} /\ kind[r] = "search" =>
          /\ OfOneCommit(view[r], total[r], limit[r], docs[r])
          /\ InOrder(docs[r], futures[r], results[r])
    /\ pc[r] = "answered" /\ kind[r] = "search" => Len(results[r]) = Len(docs[r])

AnswerInv == Types /\ AnswerTypes /\ \A r \in Requests : Whole(r)

LEMMA MinOfTwo ==
    ASSUME NEW a \in Nat, NEW b \in Nat
    PROVE  Min({a, b}) = Least(a, b)
<1>1. Least(a, b) \in {a, b} /\ \A y \in {a, b} : Least(a, b) <= y
    BY DEF Least
<1>2. ASSUME NEW x \in {a, b}, \A y \in {a, b} : x <= y PROVE x = Least(a, b)
    BY <1>2 DEF Least
<1> QED BY <1>1, <1>2 DEF Min

LEMMA HitsType == \A v : Hits(v) \in Seq(Nat)
BY ServingAssumption DEF Hits

LEMMA AnswerInit == Init => AnswerInv
<1> SUFFICES ASSUME Init PROVE AnswerInv
    OBVIOUS
<1>1. Types
    BY InvInit DEF Inv
<1>2. <<>> \in Seq(Nat) /\ <<>> \in Seq(Item)
    BY EmptySeq
<1>3. AnswerTypes
    BY <1>2 DEF Init, AnswerTypes
<1>4. \A r \in Requests : Whole(r)
    BY DEF Init, Whole
<1> QED BY <1>1, <1>3, <1>4 DEF AnswerInv

(* A step of r leaves the answers of the other requests alone.             *)
LEMMA OwnAnswerKeeps ==
    ASSUME AnswerInv, NEW r \in Requests, AnswerTypes', Whole(r)',
           \A q \in Requests : q # r =>
               /\ pc'[q] = pc[q] /\ kind'[q] = kind[q] /\ limit'[q] = limit[q]
               /\ view'[q] = view[q] /\ total'[q] = total[q] /\ docs'[q] = docs[q]
               /\ futures'[q] = futures[q] /\ results'[q] = results[q]
    PROVE  AnswerTypes' /\ \A q \in Requests : Whole(q)'
BY DEF AnswerInv, Whole

LEMMA CollectWhole ==
    ASSUME AnswerInv, NEW r \in Requests, Collect(r)
    PROVE  AnswerTypes' /\ \A q \in Requests : Whole(q)'
<1> DEFINE h == Hits(view[r])
           n == Least(limit[r], Len(h))
<1>1. h \in Seq(Nat) /\ Len(h) \in Nat /\ limit[r] \in Nat
    BY HitsType DEF AnswerInv, AnswerTypes
<1>2. n \in Nat /\ n <= Len(h) /\ Min({limit[r], Len(h)}) = n
    BY <1>1, MinOfTwo DEF Least
<1>3. /\ SubSeq(h, 1, n) \in Seq(Nat) /\ Len(SubSeq(h, 1, n)) = n
      /\ \A i \in 1..n : SubSeq(h, 1, n)[i] = h[i]
    BY <1>1, <1>2
<1>4. /\ docs' = [docs EXCEPT ![r] = SubSeq(h, 1, n)]
      /\ total' = [total EXCEPT ![r] = Len(h)]
      /\ pc' = [pc EXCEPT ![r] = "snippets"] /\ pc[r] = "searching"
      /\ UNCHANGED <<kind, limit, view, futures, results>>
    BY <1>2 DEF Collect
<1>5. AnswerTypes'
    BY <1>1, <1>3, <1>4 DEF AnswerInv, AnswerTypes
<1>6. /\ docs'[r] = SubSeq(h, 1, n) /\ total'[r] = Len(h) /\ pc'[r] = "snippets"
      /\ view'[r] = view[r] /\ limit'[r] = limit[r] /\ kind'[r] = kind[r]
      /\ futures'[r] = <<>> /\ results'[r] = <<>>
    BY <1>4 DEF AnswerInv, Types, AnswerTypes, Whole
<1>7. OfOneCommit(view'[r], total'[r], limit'[r], docs'[r])
    BY <1>3, <1>4, <1>6 DEF AnswerInv, Whole, OfOneCommit
<1>8. InOrder(docs'[r], futures'[r], results'[r])
    BY <1>2, <1>3, <1>6 DEF InOrder
<1>9. Whole(r)'
    BY <1>4, <1>6, <1>7, <1>8 DEF AnswerInv, Whole
<1>10. \A q \in Requests : q # r => pc'[q] = pc[q] /\ docs'[q] = docs[q] /\ total'[q] = total[q]
    BY <1>4 DEF AnswerInv, Types, AnswerTypes
<1> QED BY <1>4, <1>5, <1>9, <1>10, OwnAnswerKeeps

LEMMA LengthsAdd ==
    ASSUME NEW d \in Seq(Nat), NEW f \in Seq(Item), NEW res \in Seq(Item)
    PROVE  Len(d) \in Nat /\ Len(res) + Len(f) \in Nat
OBVIOUS

LEMMA AppendInOrder ==
    ASSUME NEW d \in Seq(Nat), NEW f \in Seq(Item), NEW res \in Seq(Item),
           InOrder(d, f, res), Len(res) + Len(f) < Len(d),
           NEW x \in Item, x.doc = d[Len(res) + Len(f) + 1]
    PROVE  InOrder(d, Append(f, x), res)
<1>1. Len(d) \in Nat /\ Len(f) \in Nat /\ Len(res) \in Nat
    OBVIOUS
<1>2. /\ Len(Append(f, x)) = Len(f) + 1
      /\ \A i \in 1..Len(f) : Append(f, x)[i] = f[i]
      /\ Append(f, x)[Len(f) + 1] = x
    BY AppendProperties
<1>3. ASSUME NEW i \in 1..(Len(f) + 1) PROVE Append(f, x)[i].doc = d[Len(res) + i]
    <2>1. i \in 1..Len(f) \/ i = Len(f) + 1
        BY <1>1
    <2>2. CASE i \in 1..Len(f)
        BY <1>2, <2>2 DEF InOrder
    <2>3. CASE i = Len(f) + 1
        <3>1. Len(res) + i = Len(res) + Len(f) + 1
            BY <1>1, <2>3
        <3> QED BY <1>2, <2>3, <3>1
    <2> QED BY <2>1, <2>2, <2>3
<1>4. Len(res) + (Len(f) + 1) <= Len(d)
    BY <1>1
<1> QED BY <1>2, <1>3, <1>4 DEF InOrder

LEMMA MoveInOrder ==
    ASSUME NEW d \in Seq(Nat), NEW f \in Seq(Item), NEW res \in Seq(Item),
           f # <<>>, InOrder(d, f, res)
    PROVE  /\ Head(f) \in Item /\ Tail(f) \in Seq(Item)
           /\ InOrder(d, Tail(f), Append(res, Head(f)))
           /\ Len(res) # Len(d)
<1>1. Len(d) \in Nat /\ Len(f) \in Nat /\ Len(res) \in Nat /\ Len(f) > 0
    BY EmptySeq
<1>2. /\ Head(f) = f[1] /\ Head(f) \in Item
      /\ Tail(f) \in Seq(Item) /\ Len(Tail(f)) = Len(f) - 1
      /\ \A i \in 1..(Len(f) - 1) : Tail(f)[i] = f[i + 1]
    BY HeadTailProperties
<1>3. /\ Len(Append(res, Head(f))) = Len(res) + 1
      /\ \A i \in 1..Len(res) : Append(res, Head(f))[i] = res[i]
      /\ Append(res, Head(f))[Len(res) + 1] = f[1]
    BY <1>2, AppendProperties
<1>4. (Len(res) + 1) + (Len(f) - 1) <= Len(d)
    BY <1>1 DEF InOrder
<1>5. ASSUME NEW i \in 1..(Len(res) + 1) PROVE Append(res, Head(f))[i].doc = d[i]
    <2>1. i \in 1..Len(res) \/ i = Len(res) + 1
        BY <1>1
    <2>2. CASE i \in 1..Len(res)
        BY <1>3, <2>2 DEF InOrder
    <2>3. CASE i = Len(res) + 1
        <3>1. 1 \in 1..Len(f)
            BY <1>1
        <3>2. f[1].doc = d[Len(res) + 1]
            BY <3>1 DEF InOrder
        <3> QED BY <1>3, <2>3, <3>2
    <2> QED BY <2>1, <2>2, <2>3
<1>6. ASSUME NEW i \in 1..(Len(f) - 1) PROVE Tail(f)[i].doc = d[(Len(res) + 1) + i]
    <2>1. i + 1 \in 1..Len(f) /\ Len(res) + (i + 1) = (Len(res) + 1) + i
        BY <1>1
    <2>2. f[i + 1].doc = d[Len(res) + (i + 1)]
        BY <2>1 DEF InOrder
    <2> QED BY <1>2, <2>1, <2>2
<1>7. Len(res) # Len(d)
    BY <1>1 DEF InOrder
<1> QED BY <1>2, <1>3, <1>4, <1>5, <1>6, <1>7 DEF InOrder

LEMMA BeginWhole ==
    ASSUME AnswerInv, NEW r \in Requests, BeginSnippet(r)
    PROVE  AnswerTypes' /\ \A q \in Requests : Whole(q)'
<1> DEFINE n == Len(results[r]) + Len(futures[r])
           new == [doc |-> docs[r][n + 1], snippet |-> "loading"]
<1>1. docs[r] \in Seq(Nat) /\ futures[r] \in Seq(Item) /\ results[r] \in Seq(Item)
    BY DEF AnswerInv, AnswerTypes
<1>2. /\ pc[r] = "snippets" /\ n + 1 <= Len(docs[r])
      /\ futures' = [futures EXCEPT ![r] = Append(futures[r], new)]
      /\ UNCHANGED <<pc, kind, limit, view, total, docs, results>>
    BY DEF BeginSnippet
<1>3. n \in Nat /\ Len(docs[r]) \in Nat
    BY <1>1, LengthsAdd
<1>4. new \in Item
    <2> HIDE DEF n
    <2>1. n + 1 \in 1..Len(docs[r])
        BY <1>2, <1>3
    <2>2. docs[r][n + 1] \in Nat
        BY <1>1, <2>1, ElementOfSeq
    <2> QED BY <2>2 DEF Item
<1>5. Append(futures[r], new) \in Seq(Item)
    BY <1>1, <1>4, AppendProperties
<1>6. AnswerTypes'
    BY <1>2, <1>5 DEF AnswerInv, AnswerTypes
<1>7. /\ futures'[r] = Append(futures[r], new)
      /\ \A q \in Requests : q # r => futures'[q] = futures[q]
    BY <1>2 DEF AnswerInv, AnswerTypes
<1>8. InOrder(docs[r], Append(futures[r], new), results[r])
    <2>1. InOrder(docs[r], futures[r], results[r])
        BY <1>2 DEF AnswerInv, Whole
    <2>2. n < Len(docs[r])
        <3> HIDE DEF n
        <3> QED BY <1>2, <1>3
    <2> QED BY <1>1, <1>4, <2>1, <2>2, AppendInOrder
<1>9. Whole(r)'
    BY <1>2, <1>7, <1>8 DEF AnswerInv, Whole
<1> QED BY <1>2, <1>6, <1>7, <1>9, OwnAnswerKeeps

LEMMA EndWhole ==
    ASSUME AnswerInv, NEW r \in Requests, NEW i \in 1..Window, EndSnippet(r, i)
    PROVE  AnswerTypes' /\ \A q \in Requests : Whole(q)'
<1> DEFINE f == futures[r]
<1>1. f \in Seq(Item) /\ Len(f) \in Nat /\ i \in 1..Len(f)
    BY DEF AnswerInv, AnswerTypes, EndSnippet
<1>2. PICK s \in {"text", "empty"} : futures' = [futures EXCEPT ![r][i].snippet = s]
    BY DEF EndSnippet
<1>3. UNCHANGED <<pc, kind, limit, view, total, docs, results>>
    BY DEF EndSnippet
<1>4. \A q \in Requests : q # r => futures'[q] = futures[q]
    BY <1>2 DEF AnswerInv, AnswerTypes
<1>5. futures'[r] = [f EXCEPT ![i] = [f[i] EXCEPT !.snippet = s]]
    BY <1>2 DEF AnswerInv, AnswerTypes
<1>6. f[i] \in Item /\ [f[i] EXCEPT !.snippet = s] \in Item
    <2>1. f[i] \in Item
        BY <1>1, ElementOfSeq
    <2> QED BY <2>1 DEF Item
<1>7. [f[i] EXCEPT !.snippet = s].doc = f[i].doc
    BY <1>6 DEF Item
<1>8. /\ futures'[r] \in Seq(Item) /\ Len(futures'[r]) = Len(f)
      /\ \A k \in 1..Len(f) : futures'[r][k].doc = f[k].doc
    <2> DEFINE item == [f[i] EXCEPT !.snippet = s]
               g == [f EXCEPT ![i] = item]
    <2>1. item \in Item /\ item.doc = f[i].doc
        BY <1>6, <1>7
    <2>2. g \in Seq(Item) /\ Len(g) = Len(f)
        <3> HIDE DEF item
        <3> QED BY <1>1, <2>1, ExceptSeq
    <2>3. \A k \in 1..Len(f) : g[k].doc = f[k].doc
        <3>1. \A k \in 1..Len(f) : g[k] = IF k = i THEN item ELSE f[k]
            <4> HIDE DEF item
            <4> QED BY <1>1, <2>1, ExceptSeq
        <3> HIDE DEF item, g
        <3> QED BY <2>1, <3>1
    <2> QED BY <1>5, <2>2, <2>3
<1>9. AnswerTypes'
    <2>1. futures' \in [Requests -> Seq(Item)]
        BY <1>2, <1>4, <1>8 DEF AnswerInv, AnswerTypes
    <2> QED BY <1>3, <2>1 DEF AnswerInv, AnswerTypes
<1>10. pc[r] \in {"snippets", "answered"} /\ kind[r] = "search"
    <2>1. f # <<>>
        BY <1>1
    <2> QED BY <2>1 DEF AnswerInv, Types, Whole
<1>11. InOrder(docs[r], futures'[r], results[r])
    <2>1. InOrder(docs[r], f, results[r])
        BY <1>10 DEF AnswerInv, Whole
    <2> HIDE DEF f
    <2> QED BY <1>1, <1>8, <2>1 DEF InOrder
<1>12. Whole(r)'
    BY <1>3, <1>10, <1>11 DEF AnswerInv, Whole
<1> QED BY <1>3, <1>4, <1>9, <1>12, OwnAnswerKeeps

LEMMA EmitWhole ==
    ASSUME AnswerInv, NEW r \in Requests, EmitItem(r)
    PROVE  AnswerTypes' /\ \A q \in Requests : Whole(q)'
<1> DEFINE f == futures[r]
           res == results[r]
<1>1. docs[r] \in Seq(Nat) /\ f \in Seq(Item) /\ res \in Seq(Item) /\ f # <<>>
    BY DEF AnswerInv, AnswerTypes, EmitItem
<1>2. /\ futures' = [futures EXCEPT ![r] = Tail(f)]
      /\ results' = [results EXCEPT ![r] = Append(res, Head(f))]
      /\ UNCHANGED <<pc, kind, limit, view, total, docs>>
    BY DEF EmitItem
<1>3. pc[r] \in {"snippets", "answered"} /\ kind[r] = "search"
    BY <1>1 DEF AnswerInv, Types, Whole
<1>4. InOrder(docs[r], f, res)
    BY <1>3 DEF AnswerInv, Whole
<1>5. /\ Head(f) \in Item /\ Tail(f) \in Seq(Item)
      /\ InOrder(docs[r], Tail(f), Append(res, Head(f)))
    BY <1>1, <1>4, MoveInOrder
<1>6. Append(res, Head(f)) \in Seq(Item)
    BY <1>1, <1>5, AppendProperties
<1>7. AnswerTypes'
    BY <1>2, <1>5, <1>6 DEF AnswerInv, AnswerTypes
<1>8. /\ futures'[r] = Tail(f) /\ results'[r] = Append(res, Head(f))
      /\ \A q \in Requests : q # r => futures'[q] = futures[q] /\ results'[q] = results[q]
    BY <1>2 DEF AnswerInv, AnswerTypes
<1>9. pc[r] = "snippets"
    <2>1. Len(res) # Len(docs[r])
        BY <1>1, <1>4, MoveInOrder
    <2> QED BY <1>3, <2>1 DEF AnswerInv, Whole
<1>10. Whole(r)'
    BY <1>2, <1>3, <1>5, <1>8, <1>9 DEF AnswerInv, Whole
<1> QED BY <1>2, <1>7, <1>8, <1>10, OwnAnswerKeeps

LEMMA AskWhole ==
    ASSUME AnswerInv, NEW r \in Requests, NEW k \in {"search", "stats"}, NEW n \in Asked, Ask(r, k, n)
    PROVE  AnswerTypes' /\ \A q \in Requests : Whole(q)'
<1> DEFINE l == IF k = "search" THEN Clamp(n) ELSE 0
<1>1. l \in Nat /\ (k = "search" => l \in 1..MaxLimit)
    BY ServingAssumption DEF Clamp
<1>2. /\ pc[r] = "idle" /\ pc' = [pc EXCEPT ![r] = "asked"]
      /\ kind' = [kind EXCEPT ![r] = k] /\ limit' = [limit EXCEPT ![r] = l]
      /\ UNCHANGED <<view, total, docs, futures, results>>
    BY DEF Ask
<1> HIDE DEF l
<1>3. AnswerTypes'
    BY <1>1, <1>2 DEF AnswerInv, AnswerTypes
<1>4. /\ pc'[r] = "asked" /\ kind'[r] = k /\ limit'[r] = l
      /\ \A q \in Requests : q # r =>
            pc'[q] = pc[q] /\ kind'[q] = kind[q] /\ limit'[q] = limit[q]
    BY <1>2 DEF AnswerInv, Types, AnswerTypes
<1>5. Whole(r)'
    BY <1>1, <1>2, <1>4 DEF AnswerInv, Whole
<1> QED BY <1>2, <1>3, <1>4, <1>5, OwnAnswerKeeps

LEMMA LeaveWhole ==
    ASSUME AnswerInv, NEW r \in Requests, Leave(r)
    PROVE  AnswerTypes' /\ \A q \in Requests : Whole(q)'
<1>1. <<>> \in Seq(Nat) /\ <<>> \in Seq(Item)
    BY EmptySeq
<1>2. AnswerTypes'
    BY <1>1 DEF AnswerInv, AnswerTypes, Leave
<1>3. /\ pc'[r] = "idle" /\ kind'[r] = "search" /\ futures'[r] = <<>> /\ results'[r] = <<>>
      /\ \A q \in Requests : q # r =>
            /\ pc'[q] = pc[q] /\ kind'[q] = kind[q] /\ limit'[q] = limit[q]
            /\ view'[q] = view[q] /\ total'[q] = total[q] /\ docs'[q] = docs[q]
            /\ futures'[q] = futures[q] /\ results'[q] = results[q]
    BY DEF AnswerInv, Types, AnswerTypes, Leave
<1>4. Whole(r)'
    BY <1>3 DEF Whole
<1> QED BY <1>2, <1>3, <1>4, OwnAnswerKeeps

(* The steps that only move on: the reload, its failure, the searcher.     *)
LEMMA ReloadWhole ==
    ASSUME AnswerInv, NEW r \in Requests,
           ReloadOpens(r) \/ ReloadPublishes(r) \/ TaskFails(r)
    PROVE  AnswerTypes' /\ \A q \in Requests : Whole(q)'
<1>1. UNCHANGED <<kind, limit, view, total, docs, futures, results>>
    BY DEF ReloadOpens, ReloadPublishes, TaskFails, answerVars
<1>2. /\ pc[r] \in {"asked", "reloading", "reloaded", "searching"}
      /\ pc'[r] \in {"reloading", "reloaded", "failed"}
      /\ \A q \in Requests : q # r => pc'[q] = pc[q]
    BY DEF AnswerInv, Types, ReloadOpens, ReloadPublishes, TaskFails
<1>3. AnswerTypes'
    BY <1>1 DEF AnswerInv, AnswerTypes
<1>4. Whole(r)'
    BY <1>1, <1>2 DEF AnswerInv, Whole
<1> QED BY <1>1, <1>2, <1>3, <1>4, OwnAnswerKeeps

LEMMA SearcherWhole ==
    ASSUME AnswerInv, NEW r \in Requests, TakeSearcher(r)
    PROVE  AnswerTypes' /\ \A q \in Requests : Whole(q)'
<1>1. UNCHANGED <<kind, limit, total, docs, futures, results>>
    BY DEF TakeSearcher
<1>2. /\ pc[r] = "reloaded" /\ kind[r] = "search"
      /\ pc'[r] = "searching" /\ view'[r] \in Versions
      /\ \A q \in Requests : q # r => pc'[q] = pc[q] /\ view'[q] = view[q]
    BY DEF AnswerInv, Types, TakeSearcher
<1>3. AnswerTypes'
    BY <1>1 DEF AnswerInv, AnswerTypes
<1>4. Whole(r)'
    BY <1>1, <1>2 DEF AnswerInv, Whole
<1> QED BY <1>1, <1>2, <1>3, <1>4, OwnAnswerKeeps

LEMMA AnswerWhole ==
    ASSUME AnswerInv, NEW r \in Requests, AnswerSearch(r)
    PROVE  AnswerTypes' /\ \A q \in Requests : Whole(q)'
<1>1. UNCHANGED <<kind, limit, view, total, docs, futures, results>>
    BY DEF AnswerSearch, answerVars
<1>2. /\ pc[r] = "snippets" /\ Len(results[r]) = Len(docs[r]) /\ pc'[r] = "answered"
      /\ \A q \in Requests : q # r => pc'[q] = pc[q]
    BY DEF AnswerInv, Types, AnswerSearch
<1>3. AnswerTypes'
    BY <1>1 DEF AnswerInv, AnswerTypes
<1>4. Whole(r)'
    BY <1>1, <1>2 DEF AnswerInv, Whole
<1> QED BY <1>1, <1>2, <1>3, <1>4, OwnAnswerKeeps

LEMMA CountWhole ==
    ASSUME AnswerInv, NEW r \in Requests, AnswerCount(r)
    PROVE  AnswerTypes' /\ \A q \in Requests : Whole(q)'
<1>1. UNCHANGED <<kind, limit, docs, futures, results>>
    BY DEF AnswerCount
<1>2. Len(Hits(searcher)) \in Nat
    BY HitsType
<1>3. AnswerTypes'
    BY <1>1, <1>2 DEF AnswerInv, AnswerTypes, AnswerCount
<1>4. /\ pc[r] = "reloaded" /\ kind[r] = "stats" /\ pc'[r] = "answered"
      /\ \A q \in Requests : q # r =>
            pc'[q] = pc[q] /\ view'[q] = view[q] /\ total'[q] = total[q]
    BY DEF AnswerInv, Types, AnswerTypes, AnswerCount
<1>5. Whole(r)'
    BY <1>1, <1>4 DEF AnswerInv, Whole
<1> QED BY <1>1, <1>3, <1>4, <1>5, OwnAnswerKeeps

LEMMA AnswerKept == Inv /\ AnswerInv /\ [Next]_vars => AnswerInv'
<1> SUFFICES ASSUME Inv, AnswerInv, [Next]_vars
             PROVE  AnswerTypes' /\ \A q \in Requests : Whole(q)'
    BY InvKept DEF Inv, AnswerInv
<1>1. ASSUME UNCHANGED <<pc, answerVars>> PROVE AnswerTypes' /\ \A q \in Requests : Whole(q)'
    BY <1>1 DEF AnswerInv, AnswerTypes, Whole, answerVars
<1>2. ASSUME NEW c \in Stream \union {"mark"}, Send(c) PROVE UNCHANGED <<pc, answerVars>>
    BY <1>2 DEF Send
<1>3. CASE Tick \/ Loop
    BY <1>1, <1>3 DEF Tick, Loop, TakeChange, TimerCommits
<1>4. ASSUME NEW t \in Loaders, LibraryOpens(t) \/ LibraryPublishes(t)
      PROVE  UNCHANGED <<pc, answerVars>>
    BY <1>4 DEF LibraryOpens, LibraryPublishes
<1>5. ASSUME NEW r \in Requests, NEW k \in {"search", "stats"}, NEW n \in Asked, Ask(r, k, n)
      PROVE  AnswerTypes' /\ \A q \in Requests : Whole(q)'
    BY <1>5, AskWhole
<1>6. ASSUME NEW r \in Requests, Serve(r)
      PROVE  AnswerTypes' /\ \A q \in Requests : Whole(q)'
    BY <1>6, ReloadWhole, SearcherWhole, CollectWhole, BeginWhole, EndWhole, EmitWhole,
       AnswerWhole, CountWhole, LeaveWhole DEF Serve
<1>7. CASE UNCHANGED vars
    BY <1>1, <1>7 DEF vars
<1> QED BY <1>1, <1>2, <1>3, <1>4, <1>5, <1>6, <1>7 DEF Next

(* Every answer to a search is one of one commit: its total, its best      *)
(* documents within the limit, in their order, whatever the snippets do.   *)
THEOREM SearchesAreWhole == Spec => []AnswersAreWhole
<1>1. ASSUME AnswerInv PROVE AnswersAreWhole
    <2> SUFFICES ASSUME NEW r \in Requests, pc[r] = "answered", kind[r] = "search"
                 PROVE  /\ total[r] = Len(Hits(view[r])) /\ view[r] \in Versions
                        /\ Len(results[r]) = Min({total[r], limit[r]})
                        /\ limit[r] \in 1..MaxLimit
                        /\ \A i \in DOMAIN results[r] : results[r][i].doc = Hits(view[r])[i]
        BY DEF AnswersAreWhole, Answered
    <2>1. /\ OfOneCommit(view[r], total[r], limit[r], docs[r])
          /\ InOrder(docs[r], futures[r], results[r])
          /\ Len(results[r]) = Len(docs[r]) /\ limit[r] \in 1..MaxLimit
        BY <1>1 DEF AnswerInv, Whole
    <2>2. total[r] \in Nat /\ limit[r] \in Nat /\ results[r] \in Seq(Item)
        BY <1>1 DEF AnswerInv, AnswerTypes
    <2>3. Min({total[r], limit[r]}) = Least(limit[r], total[r])
        BY <2>2, MinOfTwo DEF Least
    <2>4. DOMAIN results[r] = 1..Len(results[r])
        BY <2>2
    <2> QED BY <2>1, <2>3, <2>4 DEF OfOneCommit, InOrder
<1> QED BY <1>1, InvInit, InvKept, AnswerInit, AnswerKept, PTL DEF Spec

=============================================================================
