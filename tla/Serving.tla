------------------------------- MODULE Serving -------------------------------
(***************************************************************************)
(* Searches over an index that changes meanwhile: the event loop with its  *)
(* commit timer (index/mod.rs), the index reader shared by all requests    *)
(* (search.rs, web/handlers.rs, mcp/tools.rs) and requests of both kinds,  *)
(* searches and /stats, each taken apart into its steps.                   *)
(*                                                                         *)
(* The stream of changes never ends.  The model stays finite because it    *)
(* follows one of them, the Mark: the index is the one before the Mark was *)
(* committed ("old") or after it ("new"), and all other changes are only   *)
(* counted, by the items they leave in the writer's buffer.                *)
(***************************************************************************)
EXTENDS Integers, Sequences, SequencesExt

CONSTANTS
    Requests,       \* clients, each with one request at a time
    Loaders,        \* whatever else reloads the shared reader: the library's own
                    \* thread, requests whose answers are not followed
    OldHits,        \* the documents a query finds before the Mark, best first
    NewHits,        \* ... and after it
    Asked,          \* values of max_results that clients ask for
    MaxLimit,       \* MAX_RESULTS_LIMIT
    Window,         \* SNIPPET_CONCURRENCY
    Stream,         \* the other changes: subset of {"modified", "deleted", "skipped"}
    Capacity,       \* CHANGE_CHANNEL_CAPACITY
    BatchSize,      \* Config::batch_size
    Faults          \* subset of {"reload", "task", "load"}

ASSUME ServingAssumption ==
    /\ Requests \cap Loaders = {}
    /\ Asked \subseteq Nat
    /\ {MaxLimit, Window, Capacity, BatchSize} \subseteq Nat \ {0}
    /\ OldHits \in Seq(Nat) /\ NewHits \in Seq(Nat)
    /\ Stream \subseteq {"modified", "deleted", "skipped"}
    /\ Faults \subseteq {"reload", "task", "load"}

VARIABLES
    channel,        \* changes on their way to the event loop
    mark,           \* where the Mark is: "outside", "channel", "buffer", "index"
    items,          \* number of items in the writer's buffer
    tickDue,        \* the commit timer has a tick the loop has not taken
    skipping,       \* what the event loop took last left nothing in the buffer
    searcher,       \* the version of the index the shared reader hands out
    opened,         \* per reloading task: the version it has opened
    kind,           \* per request: "search" (GET /search, docs_search) or "stats"
    pc,             \* per request: its step
    limit,          \* per search: its limit
    view,           \* per request: the version it works with
    promised,       \* per request: the Mark was committed before it came in
    excused,        \* per request: its reload failed, or was undone by a late one
    total,          \* per request: the number of hits
    docs,           \* per search: the documents of its answer
    futures,        \* per search: the items whose snippet is being made, in order
    results         \* per search: the items of the answer

loopVars   == <<channel, mark, items, tickDue, skipping>>
readerVars == <<searcher, opened>>
answerVars == <<kind, limit, view, promised, total, docs, futures, results>>
vars == <<loopVars, readerVars, answerVars, pc, excused>>

Versions == {"old", "new"}

Committed == IF mark = "index" THEN "new" ELSE "old"

Hits(v) == IF v = "new" THEN NewHits ELSE OldHits

(***************************************************************************)
(* The number of buffered items a change becomes: add_file pushes a Delete *)
(* and an Add, delete_file a Delete; a file that is filtered out or cannot *)
(* be read leaves nothing.  The Mark re-indexes a file.                    *)
(***************************************************************************)
Items(c) == CASE c \in {"mark", "modified"} -> 2
              [] c = "deleted" -> 1
              [] c = "skipped" -> 0

Init ==
    /\ channel = <<>>
    /\ mark = "outside"
    /\ items = 0
    /\ tickDue = FALSE
    /\ skipping = FALSE
    /\ searcher = "old"
    /\ opened = [t \in Requests \union Loaders |-> "none"]
    /\ pc = [r \in Requests |-> "idle"]
    /\ kind = [r \in Requests |-> "search"]
    /\ limit = [r \in Requests |-> 0]
    /\ view = [r \in Requests |-> "none"]
    /\ promised = [r \in Requests |-> FALSE]
    /\ excused = [r \in Requests |-> FALSE]
    /\ total = [r \in Requests |-> 0]
    /\ docs = [r \in Requests |-> <<>>]
    /\ futures = [r \in Requests |-> <<>>]
    /\ results = [r \in Requests |-> <<>>]

-----------------------------------------------------------------------------
(* The event loop.  The watcher task sends whenever the channel has room.  *)

Send(c) ==
    /\ Len(channel) < Capacity
    /\ c = "mark" => mark = "outside"
    /\ channel' = Append(channel, c)
    /\ mark' = IF c = "mark" THEN "channel" ELSE mark
    /\ UNCHANGED <<items, tickDue, skipping, readerVars, answerVars, pc, excused>>

BufferChanges_NoBatch(c) ==
    /\ items' = IF items < BatchSize THEN items + Items(c) ELSE items
    /\ mark' = IF c = "mark" THEN "buffer" ELSE mark

(* buffer_changes: the items are appended and, if they make a batch,       *)
(* committed at once, on the loop's own time.                              *)
BufferChanges(c) ==
    LET n == items + Items(c)
        reached == c = "mark" \/ mark = "buffer"
    IN /\ items' = IF n >= BatchSize THEN 0 ELSE n
       /\ mark' = IF ~reached THEN mark
                  ELSE IF n >= BatchSize THEN "index" ELSE "buffer"

(* The first arm of the biased select: a change, whenever there is one.    *)
TakeChange ==
    /\ channel /= <<>>
    /\ channel' = Tail(channel)
    /\ IF Items(Head(channel)) = 0
       THEN UNCHANGED <<items, mark>>
       ELSE BufferChanges(Head(channel))
    /\ skipping' = (Items(Head(channel)) = 0)
    /\ UNCHANGED <<tickDue, readerVars, answerVars, pc, excused>>

Tick ==
    /\ ~tickDue
    /\ tickDue' = TRUE
    /\ UNCHANGED <<channel, mark, items, skipping, readerVars, answerVars, pc, excused>>

(* The second arm: the timer, looked at only when the channel is empty.    *)
TimerCommits ==
    /\ channel = <<>>
    /\ tickDue
    /\ tickDue' = FALSE
    /\ items' = 0
    /\ mark' = IF mark = "buffer" THEN "index" ELSE mark
    /\ skipping' = FALSE
    /\ UNCHANGED <<channel, readerVars, answerVars, pc, excused>>

-----------------------------------------------------------------------------
(* The reader.  A reload opens the last commit and then replaces the       *)
(* searcher all requests share; between the two, others may do the same.   *)

Open(t) == opened' = [opened EXCEPT ![t] = Committed]

Publish(t) ==
    /\ searcher' = opened[t]
    /\ opened' = [opened EXCEPT ![t] = "none"]
    /\ excused' = [r \in Requests |->
                      \/ excused[r]
                      \/ r /= t /\ pc[r] = "reloaded" /\ opened[t] = "old"]

(* The library reloads the reader by itself some time after a commit.      *)
LibraryOpens(t) ==
    /\ opened[t] = "none"
    /\ Open(t)
    /\ UNCHANGED <<loopVars, searcher, answerVars, pc, excused>>

LibraryPublishes(t) ==
    /\ opened[t] /= "none"
    /\ Publish(t)
    /\ UNCHANGED <<loopVars, answerVars, pc>>

-----------------------------------------------------------------------------
(* A request.  Its reload runs on the blocking pool; the searcher is taken *)
(* afterwards, by a search in the same task, by /stats in its handler.     *)

Clamp_Upper(n) == IF n > MaxLimit THEN MaxLimit ELSE n

Clamp(n) == IF n < 1 THEN 1 ELSE IF n > MaxLimit THEN MaxLimit ELSE n

Ask(r, k, n) ==
    /\ pc[r] = "idle"
    /\ pc' = [pc EXCEPT ![r] = "asked"]
    /\ kind' = [kind EXCEPT ![r] = k]
    /\ limit' = [limit EXCEPT ![r] = IF k = "search" THEN Clamp(n) ELSE 0]
    /\ promised' = [promised EXCEPT ![r] = mark = "index"]
    /\ UNCHANGED <<loopVars, readerVars, view, total, docs, futures, results, excused>>

ReloadOpens(r) ==
    /\ pc[r] = "asked"
    /\ pc' = [pc EXCEPT ![r] = "reloading"]
    /\ Open(r)
    /\ UNCHANGED <<loopVars, searcher, answerVars, excused>>

ReloadPublishes(r) ==
    /\ pc[r] = "reloading"
    /\ pc' = [pc EXCEPT ![r] = "reloaded"]
    /\ Publish(r)
    /\ UNCHANGED <<loopVars, answerVars>>

(* A failed reload or query, or a task that does not return, is the end of *)
(* a search but not of /stats, which then counts with the searcher there   *)
(* is.                                                                     *)
TaskFails(r) ==
    /\ \/ pc[r] = "asked" /\ "reload" \in Faults
       \/ pc[r] \in {"asked", "reloading"} /\ "task" \in Faults
       \/ pc[r] \in {"reloaded", "searching"} /\ "task" \in Faults /\ kind[r] = "search"
    /\ pc' = [pc EXCEPT ![r] = IF kind[r] = "search" THEN "failed" ELSE "reloaded"]
    /\ opened' = [opened EXCEPT ![r] = "none"]
    /\ excused' = [excused EXCEPT ![r] = TRUE]
    /\ UNCHANGED <<loopVars, searcher, answerVars>>

TakeSearcher_First(r) ==
    /\ kind[r] = "search"
    /\ pc[r] = "asked"
    /\ pc' = [pc EXCEPT ![r] = "searching"]
    /\ view' = [view EXCEPT ![r] = searcher]
    /\ UNCHANGED <<loopVars, readerVars, kind, limit, promised, total, docs, futures,
                   results, excused>>

TakeSearcher(r) ==
    /\ kind[r] = "search"
    /\ pc[r] = "reloaded"
    /\ pc' = [pc EXCEPT ![r] = "searching"]
    /\ view' = [view EXCEPT ![r] = searcher]
    /\ UNCHANGED <<loopVars, readerVars, kind, limit, promised, total, docs, futures,
                   results, excused>>

(* One searcher gives the total, the best documents and their fields.      *)
Collect_Twice(r) ==
    /\ pc[r] = "searching"
    /\ pc' = [pc EXCEPT ![r] = "snippets"]
    /\ total' = [total EXCEPT ![r] = Len(Hits(searcher))]
    /\ docs' = [docs EXCEPT ![r] =
                   SubSeq(Hits(view[r]), 1, Min({limit[r], Len(Hits(view[r]))}))]
    /\ UNCHANGED <<loopVars, readerVars, kind, limit, view, promised, futures, results, excused>>

Collect(r) ==
    /\ pc[r] = "searching"
    /\ pc' = [pc EXCEPT ![r] = "snippets"]
    /\ total' = [total EXCEPT ![r] = Len(Hits(view[r]))]
    /\ docs' = [docs EXCEPT ![r] =
                   SubSeq(Hits(view[r]), 1, Min({limit[r], Len(Hits(view[r]))}))]
    /\ UNCHANGED <<loopVars, readerVars, kind, limit, view, promised, futures, results, excused>>

(* buffered(Window): the items are pulled from the stream in order, while  *)
(* fewer than Window are unfinished or wait behind an unfinished one.      *)
BeginSnippet(r) ==
    LET i == Len(results[r]) + Len(futures[r]) + 1
    IN /\ pc[r] = "snippets"
       /\ Len(futures[r]) < Window
       /\ i <= Len(docs[r])
       /\ futures' = [futures EXCEPT ![r] =
                         Append(@, [doc |-> docs[r][i], snippet |-> "loading"])]
       /\ UNCHANGED <<loopVars, readerVars, kind, limit, view, promised, total, docs, results,
                      pc, excused>>

(* The text is loaded and the snippet made; a file that is gone, too large *)
(* or without content has none.                                            *)
EndSnippet(r, i) ==
    /\ i \in DOMAIN futures[r]
    /\ futures[r][i].snippet = "loading"
    /\ \E s \in {"text"} \union (IF "load" \in Faults THEN {"empty"} ELSE {}) :
          futures' = [futures EXCEPT ![r][i].snippet = s]
    /\ UNCHANGED <<loopVars, readerVars, kind, limit, view, promised, total, docs, results,
                   pc, excused>>

EmitItem_Unordered(r) ==
    \E i \in DOMAIN futures[r] :
        /\ futures[r][i].snippet /= "loading"
        /\ results' = [results EXCEPT ![r] = Append(@, futures[r][i])]
        /\ futures' = [futures EXCEPT ![r] = RemoveAt(@, i)]
        /\ UNCHANGED <<loopVars, readerVars, kind, limit, view, promised, total, docs, pc, excused>>

EmitItem_DropsFailed(r) ==
    /\ futures[r] /= <<>>
    /\ Head(futures[r]).snippet /= "loading"
    /\ results' = [results EXCEPT ![r] =
                      IF Head(futures[r]).snippet = "text" THEN Append(@, Head(futures[r])) ELSE @]
    /\ futures' = [futures EXCEPT ![r] = Tail(@)]
    /\ UNCHANGED <<loopVars, readerVars, kind, limit, view, promised, total, docs, pc, excused>>

EmitItem(r) ==
    /\ futures[r] /= <<>>
    /\ Head(futures[r]).snippet /= "loading"
    /\ results' = [results EXCEPT ![r] = Append(@, Head(futures[r]))]
    /\ futures' = [futures EXCEPT ![r] = Tail(@)]
    /\ UNCHANGED <<loopVars, readerVars, kind, limit, view, promised, total, docs, pc, excused>>

AnswerSearch(r) ==
    /\ pc[r] = "snippets"
    /\ Len(results[r]) = Len(docs[r])
    /\ pc' = [pc EXCEPT ![r] = "answered"]
    /\ UNCHANGED <<loopVars, readerVars, answerVars, excused>>

(* /stats: the number of documents of the searcher there is now.           *)
AnswerCount(r) ==
    /\ kind[r] = "stats"
    /\ pc[r] = "reloaded"
    /\ pc' = [pc EXCEPT ![r] = "answered"]
    /\ view' = [view EXCEPT ![r] = searcher]
    /\ total' = [total EXCEPT ![r] = Len(Hits(searcher))]
    /\ UNCHANGED <<loopVars, readerVars, kind, limit, promised, docs, futures, results, excused>>

(* The response is on its way; the same client may ask again.              *)
Leave(r) ==
    /\ pc[r] \in {"answered", "failed"}
    /\ pc' = [pc EXCEPT ![r] = "idle"]
    /\ kind' = [kind EXCEPT ![r] = "search"]
    /\ limit' = [limit EXCEPT ![r] = 0]
    /\ view' = [view EXCEPT ![r] = "none"]
    /\ promised' = [promised EXCEPT ![r] = FALSE]
    /\ excused' = [excused EXCEPT ![r] = FALSE]
    /\ total' = [total EXCEPT ![r] = 0]
    /\ docs' = [docs EXCEPT ![r] = <<>>]
    /\ futures' = [futures EXCEPT ![r] = <<>>]
    /\ results' = [results EXCEPT ![r] = <<>>]
    /\ UNCHANGED <<loopVars, readerVars>>

-----------------------------------------------------------------------------
Loop == TakeChange \/ TimerCommits

Serve(r) ==
    \/ ReloadOpens(r) \/ ReloadPublishes(r) \/ TaskFails(r) \/ TakeSearcher(r)
    \/ Collect(r) \/ BeginSnippet(r) \/ EmitItem(r) \/ AnswerSearch(r)
    \/ AnswerCount(r) \/ Leave(r)
    \/ \E i \in 1..Window : EndSnippet(r, i)

Next ==
    \/ \E c \in Stream \union {"mark"} : Send(c)
    \/ Tick
    \/ Loop
    \/ \E t \in Loaders : LibraryOpens(t) \/ LibraryPublishes(t)
    \/ \E r \in Requests :
          \/ \E k \in {"search", "stats"}, n \in Asked : Ask(r, k, n)
          \/ Serve(r)

(* The loop and the tasks of a request run whenever they can, and the      *)
(* timer ticks.  Nothing is assumed of the clients, of the stream of       *)
(* changes and of the library's own threads, except that a reload they     *)
(* have begun ends.                                                        *)
Fairness ==
    /\ WF_vars(Loop)
    /\ WF_vars(Tick)
    /\ \A r \in Requests : WF_vars(Serve(r))
    /\ \A t \in Loaders : WF_vars(LibraryPublishes(t))

Spec == Init /\ [][Next]_vars /\ Fairness

-----------------------------------------------------------------------------
Answered(k) == {r \in Requests : pc[r] = "answered" /\ kind[r] \in k}

(* A search that came in after a change was committed shows the change,    *)
(* whichever reloads and commits went on at the same time (search.rs:132), *)
(* unless another reload that had opened the index before the commit was   *)
(* published between this one's reload and its look at the shared searcher.*)
(* /stats is excused, too, when its own reload fails.                      *)
AnswersAreFresh ==
    \A r \in Answered({"search", "stats"}) :
        promised[r] /\ ~excused[r] => view[r] = "new"

(* An answer is one of one commit: its total is that commit's, its items   *)
(* are the commit's best documents, in their order and as many as the      *)
(* clamped limit allows, however the loads of the snippets overlap, end or *)
(* fail (search.rs:148).                                                   *)
AnswersAreWhole ==
    \A r \in Answered({"search"}) :
        \E v \in Versions :
            /\ total[r] = Len(Hits(v))
            /\ Len(results[r]) = Min({total[r], limit[r]})
            /\ limit[r] \in 1..MaxLimit
            /\ \A i \in DOMAIN results[r] : results[r][i].doc = Hits(v)[i]

(* A change gets into the buffer, from there, by the batch or by the timer,*)
(* into the index, and is shown by every search from some time on, even    *)
(* though the biased select never looks at the timer while changes keep    *)
(* coming (index/mod.rs:156).  The exception is a stream that never pauses *)
(* and of which nothing is ever buffered again.                            *)
ChangesGetSearchable ==
    []<>~skipping
        => (mark = "channel" ~> [](\A r \in Answered({"search"}) : view[r] = "new"))

(* Every search gets an answer or an error: a full window, a failed load   *)
(* or a lost task keep no client waiting (search.rs:179).                  *)
SearchesEnd ==
    \A r \in Requests : pc[r] /= "idle" ~> pc[r] = "idle"

=============================================================================
