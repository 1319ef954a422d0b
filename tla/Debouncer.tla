----------------------------- MODULE Debouncer -----------------------------
(***************************************************************************)
(* The Debouncer of watch/debouncer.rs, as the watcher task drives it      *)
(* (run_event_loop in watch/mod.rs): a Modified event waits until its file *)
(* has been quiet for Interval, and the events of a file merge.  Time is a *)
(* number; the task reads the same clock for add and for tick.             *)
(***************************************************************************)
EXTENDS Naturals

CONSTANTS
    Files,
    Interval,       \* DEBOUNCE_DELAY
    TickInterval,   \* the longest time between two ticks: TICK_INTERVAL and
                    \* whatever holds the task up
    MaxTime         \* bound: the clock

ASSUME DebouncerAssumption ==
    /\ Interval \in Nat \ {0}
    /\ TickInterval \in Nat \ {0}
    /\ MaxTime \in Nat

VARIABLES
    now,
    running,    \* does run_event_loop run?
    pending,    \* Debouncer.pending: file -> last event time
    lastTick,
    returned,   \* the files that the last call has emitted
    lastEvent,  \* history: file -> its last event
    lastEmit    \* history: file -> its last emission

taskVars == <<running, pending>>
vars == <<now, taskVars, lastTick, returned, lastEvent, lastEmit>>

Buffered == DOMAIN pending

\* Debouncer::new; the interval's first tick is immediate.
Init ==
    /\ now = Interval
    /\ running = TRUE
    /\ pending = [p \in {} |-> 0]
    /\ lastTick = now
    /\ returned = {}
    /\ lastEvent = [p \in Files |-> 0]
    /\ lastEmit = [p \in Files |-> 0]

Expired(p) == now - pending[p] >= Interval

\* The call returns the files of S.
Emit(S) ==
    /\ returned' = S
    /\ lastEmit' = [p \in Files |-> IF p \in S THEN now ELSE lastEmit[p]]

Forget(S) == pending' = [p \in Buffered \ S |-> pending[p]]

Put(p) == pending' = [q \in Buffered \cup {p} |-> IF q = p THEN now ELSE pending[q]]

Add_AtOnce(p) ==
    /\ running
    /\ lastEvent' = [lastEvent EXCEPT ![p] = now]
    /\ IF p \in Buffered
          THEN /\ IF Expired(p) THEN Forget({p}) /\ Emit({p})
                                ELSE Put(p) /\ Emit({})
          ELSE /\ Emit({p})
               /\ UNCHANGED pending
    /\ UNCHANGED <<now, running, lastTick>>

Add_DropsExpired(p) ==
    /\ running
    /\ lastEvent' = [lastEvent EXCEPT ![p] = now]
    /\ IF p \in Buffered /\ Expired(p)
          THEN Forget({p}) /\ Emit({})
          ELSE Put(p) /\ Emit({})
    /\ UNCHANGED <<now, running, lastTick>>

\* add: an event that meets an expired window, because a tick is late, is
\* emitted at once; any other opens or extends the window of its file.
Add(p) ==
    /\ running
    /\ lastEvent' = [lastEvent EXCEPT ![p] = now]
    /\ IF p \in Buffered /\ Expired(p)
          THEN Forget({p}) /\ Emit({p})
          ELSE Put(p) /\ Emit({})
    /\ UNCHANGED <<now, running, lastTick>>

Tick_OneFile ==
    /\ running
    /\ \/ \E p \in {q \in Buffered : Expired(q)} : Forget({p}) /\ Emit({p})
       \/ {q \in Buffered : Expired(q)} = {} /\ Forget({}) /\ Emit({})
    /\ lastTick' = now
    /\ UNCHANGED <<now, running, lastEvent>>

\* tick: every expired file is emitted and forgotten.
Tick ==
    /\ running
    /\ LET expired == {p \in Buffered : Expired(p)}
       IN  Forget(expired) /\ Emit(expired)
    /\ lastTick' = now
    /\ UNCHANGED <<now, running, lastEvent>>

\* flush, when the event loop of the task has ended.
Flush ==
    /\ running
    /\ running' = FALSE
    /\ Forget(Buffered)
    /\ Emit(Buffered)
    /\ UNCHANGED <<now, lastTick, lastEvent>>

\* The supervisor starts the next watcher, with a Debouncer of its own.
NewDebouncer ==
    /\ ~running
    /\ running' = TRUE
    /\ pending' = [p \in {} |-> 0]
    /\ lastTick' = now
    /\ Emit({})
    /\ UNCHANGED <<now, lastEvent>>

\* Time passes; while the task runs, no further than to its next tick.
Advance ==
    /\ now < MaxTime
    /\ running => now < lastTick + TickInterval
    /\ now' = now + 1
    /\ Emit({})
    /\ UNCHANGED <<taskVars, lastTick, lastEvent>>

Next ==
    \/ \E p \in Files : Add(p)
    \/ Tick \/ Flush \/ NewDebouncer \/ Advance

Spec == Init /\ [][Next]_vars

-----------------------------------------------------------------------------

\* Types, and nothing in the table or the history is later than the clock.
TypeOK ==
    /\ now \in Nat /\ lastTick \in 0 .. now
    /\ running \in BOOLEAN
    /\ Buffered \subseteq Files
    /\ pending = [p \in Buffered |-> pending[p]]
    /\ \A p \in Buffered : pending[p] \in 0 .. now
    /\ returned \subseteq Files
    /\ lastEvent \in [Files -> 0 .. now]
    /\ lastEmit \in [Files -> 0 .. now]

\* Merging loses nothing: a file whose last event has not been followed by an
\* emission is in the table, with the time of that event, so the index never
\* misses the last of a burst of writes.
LastEventIsKept ==
    \A p \in Files :
        \/ p \in Buffered /\ pending[p] = lastEvent[p]
        \/ p \notin Buffered /\ lastEvent[p] <= lastEmit[p]

\* The window does what it is for: except for the flush of a watcher that ends,
\* a file is not emitted again within Interval of its last emission, nor by a
\* tick within Interval of its last event.
BurstsMerge ==
    [][running' => \A p \in returned' :
           /\ now - lastEmit[p] >= Interval
           /\ UNCHANGED lastEvent => now - lastEvent[p] >= Interval]_vars

\* A file that has gone quiet is not held back: it leaves the table before
\* Interval plus the time between two ticks is over.
DelayBounded ==
    \A p \in Buffered : now < pending[p] + Interval + TickInterval

\* What bounds the delay: the last tick has left no expired file, and the next
\* is not overdue.
TickedRecently ==
    running => /\ now <= lastTick + TickInterval
               /\ \A p \in Buffered : lastTick < pending[p] + Interval

\* What spaces the emissions: a buffered event is no older than the emission
\* before it, and a file without one has been emitted since its last event.
EmittedBefore ==
    /\ \A p \in Buffered : lastEmit[p] <= pending[p]
    /\ ~running => Buffered = {}

=============================================================================
