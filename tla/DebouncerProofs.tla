-------------------------- MODULE DebouncerProofs --------------------------
(***************************************************************************)
(* Proofs about Debouncer for any set of files, window and tick interval.  *)
(***************************************************************************)
EXTENDS Debouncer, TLAPS

\* The inductive invariant: the types, the merge and the two facts about time
\* that the delay and the spacing follow from.
Inv == TypeOK /\ LastEventIsKept /\ TickedRecently /\ EmittedBefore

-----------------------------------------------------------------------------
(* What the helpers do to the table and the history.                       *)

LEMMA ForgetTable ==
    ASSUME NEW S, TypeOK, Forget(S)
    PROVE  /\ DOMAIN pending' = Buffered \ S
           /\ \A p \in Buffered \ S : pending'[p] = pending[p]
           /\ pending' = [p \in DOMAIN pending' |-> pending'[p]]
BY DEF Forget

LEMMA PutTable ==
    ASSUME NEW p \in Files, TypeOK, Put(p)
    PROVE  /\ DOMAIN pending' = Buffered \cup {p}
           /\ pending'[p] = now
           /\ \A q \in Buffered \ {p} : pending'[q] = pending[q]
           /\ pending' = [q \in DOMAIN pending' |-> pending'[q]]
BY DEF Put

LEMMA EmitHistory ==
    ASSUME NEW S, S \subseteq Files, TypeOK, Emit(S)
    PROVE  /\ returned' \subseteq Files
           /\ lastEmit' \in [Files -> 0 .. now]
           /\ \A p \in S : lastEmit'[p] = now
           /\ \A p \in Files \ S : lastEmit'[p] = lastEmit[p]
<1>1. now \in 0 .. now
    BY DEF TypeOK
<1> QED BY <1>1 DEF Emit, TypeOK

LEMMA EventHistory ==
    ASSUME NEW p \in Files, TypeOK, lastEvent' = [lastEvent EXCEPT ![p] = now]
    PROVE  /\ lastEvent' \in [Files -> 0 .. now]
           /\ lastEvent'[p] = now
           /\ \A q \in Files \ {p} : lastEvent'[q] = lastEvent[q]
<1>1. now \in 0 .. now
    BY DEF TypeOK
<1> QED BY <1>1 DEF TypeOK

-----------------------------------------------------------------------------
(* Every step keeps the invariant.                                         *)

LEMMA InvInit == Init => Inv
BY DebouncerAssumption
   DEF Init, Inv, TypeOK, LastEventIsKept, TickedRecently, EmittedBefore, Buffered

LEMMA InvAdd ==
    ASSUME Inv, NEW p \in Files, Add(p)
    PROVE  Inv'
<1> USE DebouncerAssumption DEF Inv
<1>1. /\ lastEvent' \in [Files -> 0 .. now]
      /\ lastEvent'[p] = now
      /\ \A q \in Files \ {p} : lastEvent'[q] = lastEvent[q]
    BY EventHistory DEF Add
<1>2. CASE p \in Buffered /\ Expired(p)
    <2>1. Forget({p}) /\ Emit({p})
        BY <1>2 DEF Add
    <2>2. /\ DOMAIN pending' = Buffered \ {p}
          /\ \A q \in Buffered \ {p} : pending'[q] = pending[q]
          /\ pending' = [q \in DOMAIN pending' |-> pending'[q]]
        BY <2>1, ForgetTable
    <2>3. /\ returned' \subseteq Files
          /\ lastEmit' \in [Files -> 0 .. now]
          /\ lastEmit'[p] = now
          /\ \A q \in Files \ {p} : lastEmit'[q] = lastEmit[q]
        BY <2>1, EmitHistory
    <2>4. TypeOK'
        BY <1>1, <2>2, <2>3 DEF TypeOK, Buffered, Add
    <2>5. LastEventIsKept'
        BY <1>1, <2>2, <2>3 DEF TypeOK, LastEventIsKept, Buffered
    <2>6. TickedRecently'
        BY <2>2 DEF TypeOK, TickedRecently, Buffered, Add
    <2>7. EmittedBefore'
        BY <2>2, <2>3 DEF TypeOK, EmittedBefore, Buffered, Add
    <2> QED BY <2>4, <2>5, <2>6, <2>7
<1>3. CASE ~(p \in Buffered /\ Expired(p))
    <2>1. Put(p) /\ Emit({})
        BY <1>3 DEF Add
    <2>2. /\ DOMAIN pending' = Buffered \cup {p}
          /\ pending'[p] = now
          /\ \A q \in Buffered \ {p} : pending'[q] = pending[q]
          /\ pending' = [q \in DOMAIN pending' |-> pending'[q]]
        BY <2>1, PutTable
    <2>3. /\ returned' \subseteq Files
          /\ lastEmit' \in [Files -> 0 .. now]
          /\ \A q \in Files : lastEmit'[q] = lastEmit[q]
        BY <2>1, EmitHistory
    <2>4. TypeOK'
        BY <1>1, <2>2, <2>3 DEF TypeOK, Buffered, Add
    <2>5. LastEventIsKept'
        BY <1>1, <2>2, <2>3 DEF TypeOK, LastEventIsKept, Buffered
    <2>6. TickedRecently'
        BY <2>2 DEF TypeOK, TickedRecently, Buffered, Add
    <2>7. EmittedBefore'
        BY <2>2, <2>3 DEF TypeOK, EmittedBefore, Buffered, Add
    <2> QED BY <2>4, <2>5, <2>6, <2>7
<1> QED BY <1>2, <1>3

\* Tick and Flush emit what they forget.
LEMMA InvForget ==
    ASSUME Inv, NEW S \in SUBSET Buffered, Forget(S), Emit(S), UNCHANGED <<now, lastEvent>>,
           running' \in BOOLEAN, lastTick' \in 0 .. now,
           ~running' => S = Buffered \/ ~running
    PROVE  TypeOK' /\ LastEventIsKept' /\ EmittedBefore'
<1> USE DEF Inv
<1>1. /\ DOMAIN pending' = Buffered \ S
      /\ \A q \in Buffered \ S : pending'[q] = pending[q]
      /\ pending' = [q \in DOMAIN pending' |-> pending'[q]]
    BY ForgetTable
<1>2. /\ returned' \subseteq Files
      /\ lastEmit' \in [Files -> 0 .. now]
      /\ \A q \in S : lastEmit'[q] = now
      /\ \A q \in Files \ S : lastEmit'[q] = lastEmit[q]
    BY EmitHistory DEF TypeOK
<1>3. TypeOK'
    BY <1>1, <1>2 DEF TypeOK, Buffered
<1>4. LastEventIsKept'
    BY <1>1, <1>2 DEF TypeOK, LastEventIsKept, Buffered
<1>5. EmittedBefore'
    BY <1>1, <1>2 DEF TypeOK, EmittedBefore, Buffered
<1> QED BY <1>3, <1>4, <1>5

LEMMA InvTick ==
    ASSUME Inv, Tick
    PROVE  Inv'
<1> DEFINE expired == {p \in Buffered : Expired(p)}
<1>1. /\ Forget(expired)
      /\ Emit(expired)
    BY DEF Tick
<1>2. TypeOK' /\ LastEventIsKept' /\ EmittedBefore'
    BY <1>1, InvForget DEF Tick, Inv, TypeOK
<1>3. /\ DOMAIN pending' = Buffered \ expired
      /\ \A q \in Buffered \ expired : pending'[q] = pending[q]
    BY <1>1, ForgetTable DEF Inv
<1>4. \A q \in Buffered \ expired : now < pending[q] + Interval
    BY DebouncerAssumption DEF Expired, Inv, TypeOK
<1>5. TickedRecently'
    BY <1>3, <1>4, DebouncerAssumption DEF TickedRecently, Buffered, Tick, Inv, TypeOK
<1> QED BY <1>2, <1>5 DEF Inv

LEMMA InvFlush ==
    ASSUME Inv, Flush
    PROVE  Inv'
<1>1. TypeOK' /\ LastEventIsKept' /\ EmittedBefore'
    BY InvForget DEF Flush, Inv, TypeOK
<1>2. TickedRecently'
    BY DEF TickedRecently, Flush
<1> QED BY <1>1, <1>2 DEF Inv

LEMMA InvNewDebouncer ==
    ASSUME Inv, NewDebouncer
    PROVE  Inv'
<1> USE DebouncerAssumption DEF Inv
<1>1. /\ returned' \subseteq Files
      /\ lastEmit' \in [Files -> 0 .. now]
      /\ \A q \in Files : lastEmit'[q] = lastEmit[q]
    BY EmitHistory DEF NewDebouncer
<1>2. Buffered = {} /\ Buffered' = {}
    BY DEF EmittedBefore, Buffered, NewDebouncer
<1>3. TypeOK'
    BY <1>1, <1>2 DEF TypeOK, Buffered, NewDebouncer
<1>4. LastEventIsKept'
    BY <1>1, <1>2 DEF TypeOK, LastEventIsKept, NewDebouncer
<1>5. TickedRecently' /\ EmittedBefore'
    BY <1>2 DEF TypeOK, TickedRecently, EmittedBefore, NewDebouncer
<1> QED BY <1>3, <1>4, <1>5

LEMMA InvAdvance ==
    ASSUME Inv, Advance
    PROVE  Inv'
<1> USE DebouncerAssumption DEF Inv
<1>1. /\ returned' \subseteq Files
      /\ lastEmit' \in [Files -> 0 .. now]
      /\ \A q \in Files : lastEmit'[q] = lastEmit[q]
    BY EmitHistory DEF Advance
<1>2. /\ Buffered' = Buffered
      /\ \A q \in Buffered : pending'[q] = pending[q]
    BY DEF Advance, taskVars, Buffered
<1>3. TypeOK'
    BY <1>1, <1>2 DEF TypeOK, Buffered, Advance, taskVars
<1>4. LastEventIsKept'
    BY <1>1, <1>2 DEF TypeOK, LastEventIsKept, Advance, taskVars
<1>5. TickedRecently' /\ EmittedBefore'
    BY <1>1, <1>2 DEF TypeOK, TickedRecently, EmittedBefore, Advance, taskVars
<1> QED BY <1>3, <1>4, <1>5

LEMMA InvStep == Inv /\ [Next]_vars => Inv'
<1> SUFFICES ASSUME Inv, [Next]_vars PROVE Inv'
    OBVIOUS
<1>1. CASE UNCHANGED vars
    BY <1>1 DEF Inv, TypeOK, LastEventIsKept, TickedRecently, EmittedBefore, Buffered, vars,
                taskVars
<1>2. ASSUME NEW p \in Files, Add(p) PROVE Inv'
    BY <1>2, InvAdd
<1>3. CASE Tick
    BY <1>3, InvTick
<1>4. CASE Flush
    BY <1>4, InvFlush
<1>5. CASE NewDebouncer
    BY <1>5, InvNewDebouncer
<1>6. CASE Advance
    BY <1>6, InvAdvance
<1> QED BY <1>1, <1>2, <1>3, <1>4, <1>5, <1>6 DEF Next

LEMMA SpecInv == Spec => []Inv
BY InvInit, InvStep, PTL DEF Spec

-----------------------------------------------------------------------------

\* The types, for any window and tick interval.
THEOREM TypeCorrect == Spec => []TypeOK
BY SpecInv, PTL DEF Inv

\* However the events of the files interleave with the ticks, the flush and a
\* new debouncer, the last event of every file is kept until it is emitted.
THEOREM NothingForgotten == Spec => []LastEventIsKept
BY SpecInv, PTL DEF Inv

\* A quiet file waits less than Interval and the time between two ticks.
THEOREM QuietFilesLeave == Spec => []DelayBounded
<1>1. Inv => DelayBounded
    <2> SUFFICES ASSUME Inv, NEW p \in Buffered
                 PROVE  now < pending[p] + Interval + TickInterval
        BY DEF DelayBounded
    <2>1. running
        BY DEF Inv, EmittedBefore
    <2>2. /\ now <= lastTick + TickInterval
          /\ lastTick < pending[p] + Interval
        BY <2>1 DEF Inv, TickedRecently
    <2> QED BY <2>2, DebouncerAssumption DEF Inv, TypeOK
<1> QED BY <1>1, SpecInv, PTL

\* The emissions of a file are spaced by the window, and a tick emits only
\* files that have been quiet for it.
THEOREM EmissionsAreSpaced == Spec => BurstsMerge
<1> DEFINE Spaced(p) == /\ now - lastEmit[p] >= Interval
                        /\ UNCHANGED lastEvent => now - lastEvent[p] >= Interval
<1>1. Inv /\ [Next]_vars =>
          [running' => \A p \in returned' : Spaced(p)]_vars
    <2> SUFFICES ASSUME Inv, Next, running', NEW p \in returned'
                 PROVE  Spaced(p)
        OBVIOUS
    <2>1. p \in Buffered /\ Expired(p)
        <3>1. ASSUME NEW q \in Files, Add(q) PROVE p \in Buffered /\ Expired(p)
            BY <3>1 DEF Add, Emit
        <3>2. CASE Tick
            BY <3>2 DEF Tick, Emit
        <3>3. CASE Flush
            BY <3>3 DEF Flush
        <3>4. CASE NewDebouncer \/ Advance
            BY <3>4 DEF NewDebouncer, Advance, Emit
        <3> QED BY <3>1, <3>2, <3>3, <3>4 DEF Next
    <2>2. p \in Files /\ lastEmit[p] <= pending[p] /\ now - pending[p] >= Interval
        BY <2>1 DEF Inv, TypeOK, EmittedBefore, Expired
    <2>3. pending[p] = lastEvent[p]
        BY <2>1, <2>2 DEF Inv, LastEventIsKept
    <2> QED BY <2>1, <2>2, <2>3, DebouncerAssumption DEF Inv, TypeOK
<1> QED BY <1>1, SpecInv, PTL DEF Spec, BurstsMerge
=============================================================================
