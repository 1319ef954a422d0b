-------------------------- MODULE SupervisorProofs --------------------------
(***************************************************************************)
(* Proofs about the safety of Supervisor for either transport, any number  *)
(* of attempts, any capacity of the channel and any faults.                *)
(***************************************************************************)
EXTENDS Supervisor, SequenceTheorems, TLAPS

\* An error is the last thing the bridge thread forwards.
ErrorIsLast ==
    \A i \in 1 .. Len(bridge) :
        bridge[i] = "error" => i = Len(bridge) /\ thread = "ended"

\* What the watcher task has left behind by the time it flushes and ends.
TaskEmpties ==
    /\ task = "off" => thread = "off" /\ outgoing = 0 /\ chan = 0
    /\ task \in {"off", "flushing", "ended"} => bridge = <<>> /\ pending = 0
    /\ task \in {"flushing", "ended"} => thread = "ended"
    /\ task = "ended" => outgoing = 0

\* Outside the event loop and its tear-down there is no pipeline.
LoopOwnsPipeline ==
    /\ loop \in {"off", "stopped", "failed"} => task \in {"off", "ended"} /\ chan = 0
    /\ sup \in {"check", "starting", "backoff", "ended"} => loop = "off"

\* A supervisor that has attempts left is one that has not ended.
AttemptsLeft == sup # "ended" => attempt < MaxRetries

\* A flag set after the supervisor has looked at it is one it has not seen.
FlagUnseen ==
    /\ sup = "starting" /\ shutdown => ~supSeen
    /\ NeverDeafToShutdown

Inv == TypeOK /\ ErrorIsLast /\ TaskEmpties /\ LoopOwnsPipeline /\ AttemptsLeft /\ FlagUnseen

-----------------------------------------------------------------------------

LEMMA InvInit == Init => Inv
<1> SUFFICES ASSUME Init PROVE Inv
    OBVIOUS
<1>1. ErrorIsLast
    <2>1. 1 .. Len(bridge) = {}
        BY EmptySeq DEF Init
    <2> QED BY <2>1 DEF ErrorIsLast
<1>2. TypeOK
    <2>1. {signal, shutdown, supSeen, loopSeen, done, notify, taskError} \subseteq BOOLEAN
        BY DEF Init
    <2>2. bridge \in Seq({"event", "error"})
        BY EmptySeq DEF Init
    <2>3. main \in {"binding", "serving"}
        BY DEF Init
    <2>4. attempt \in 0 .. MaxRetries /\ chan \in 0 .. Capacity
        BY SupervisorAssumption DEF Init
    <2> QED BY <2>1, <2>2, <2>3, <2>4 DEF Init, TypeOK
<1>3. TaskEmpties /\ LoopOwnsPipeline /\ AttemptsLeft /\ FlagUnseen
    BY SupervisorAssumption
       DEF Init, TaskEmpties, LoopOwnsPipeline, AttemptsLeft, FlagUnseen, NeverDeafToShutdown
<1> QED BY <1>1, <1>2, <1>3 DEF Inv

\* The head of a bridge is an error only if it is all there is.
LEMMA ErrorEmptiesBridge ==
    ASSUME Inv, bridge # <<>>, Head(bridge) = "error"
    PROVE  Tail(bridge) = <<>> /\ thread = "ended"
<1>1. bridge \in Seq({"event", "error"}) /\ Len(bridge) > 0 /\ bridge[1] = "error"
    BY DEF Inv, TypeOK
<1>2. Len(bridge) \in Nat /\ 1 \in 1 .. Len(bridge)
    BY <1>1
<1>3. 1 = Len(bridge) /\ thread = "ended"
    BY <1>1, <1>2 DEF Inv, ErrorIsLast
<1>4. Tail(bridge) \in Seq({"event", "error"}) /\ Len(Tail(bridge)) = 0
    BY <1>1, <1>3
<1> QED BY <1>3, <1>4, EmptySeq

LEMMA TailKeepsErrorLast ==
    ASSUME Inv, bridge # <<>>, bridge' = Tail(bridge), thread' = thread
    PROVE  ErrorIsLast' /\ bridge' \in Seq({"event", "error"})
<1>1. bridge \in Seq({"event", "error"}) /\ Len(bridge) > 0
    BY DEF Inv, TypeOK
<1>2. Len(bridge') = Len(bridge) - 1 /\ bridge' \in Seq({"event", "error"})
    BY <1>1
<1>3. ASSUME NEW i \in 1 .. Len(bridge'), bridge'[i] = "error"
      PROVE  i = Len(bridge') /\ thread' = "ended"
    <2>1. i + 1 \in 1 .. Len(bridge) /\ bridge'[i] = bridge[i + 1]
        BY <1>1, <1>2
    <2>2. i + 1 = Len(bridge) /\ thread = "ended"
        BY <1>3, <2>1 DEF Inv, ErrorIsLast
    <2>3. i \in Int /\ Len(bridge) \in Int
        BY <1>1, <1>2
    <2>4. \A k, n \in Int : k + 1 = n => k = n - 1
        OBVIOUS
    <2>5. i = Len(bridge) - 1
        BY <2>2, <2>3, <2>4, Zenon
    <2>6. i = Len(bridge')
        BY <1>2, <2>5, Zenon
    <2> QED BY <2>2, <2>6, Zenon
<1> QED BY <1>2, <1>3 DEF ErrorIsLast

LEMMA AppendKeepsErrorLast ==
    ASSUME Inv, thread = "running", NEW x \in {"event", "error"},
           bridge' = Append(bridge, x), thread' = IF x = "error" THEN "ended" ELSE thread
    PROVE  ErrorIsLast' /\ bridge' \in Seq({"event", "error"})
<1>1. bridge \in Seq({"event", "error"})
    BY DEF Inv, TypeOK
<1>2. \A i \in 1 .. Len(bridge) : bridge[i] # "error"
    BY DEF Inv, ErrorIsLast
<1>3. /\ Len(bridge') = Len(bridge) + 1
      /\ bridge'[Len(bridge')] = x
      /\ \A i \in 1 .. Len(bridge) : bridge'[i] = bridge[i]
      /\ bridge' \in Seq({"event", "error"})
    BY <1>1
<1>4. ASSUME NEW i \in 1 .. Len(bridge'), bridge'[i] = "error"
      PROVE  i = Len(bridge') /\ thread' = "ended"
    <2>1. i = Len(bridge') \/ i \in 1 .. Len(bridge)
        BY <1>1, <1>3
    <2>2. i = Len(bridge')
        BY <1>2, <1>3, <1>4, <2>1
    <2> QED BY <1>3, <1>4, <2>2
<1> QED BY <1>3, <1>4 DEF ErrorIsLast

LEMMA InvBridge ==
    ASSUME Inv, Bridge
    PROVE  Inv'
<1> USE SupervisorAssumption DEF Inv, TypeOK, TaskEmpties, LoopOwnsPipeline, AttemptsLeft,
        FlagUnseen, NeverDeafToShutdown, mainVars, flagVars, supVars, taskVars, pipeVars
<1>1. CASE ThreadForwards
    <2>1. ErrorIsLast' /\ bridge' \in Seq({"event", "error"})
        BY <1>1, AppendKeepsErrorLast DEF ThreadForwards
    <2> QED BY <1>1, <2>1 DEF ThreadForwards
<1>2. CASE NotifyFails
    <2>1. ErrorIsLast' /\ bridge' \in Seq({"event", "error"})
        BY <1>2, AppendKeepsErrorLast DEF NotifyFails
    <2> QED BY <1>2, <2>1 DEF NotifyFails
<1>3. CASE ThreadDisconnected
    BY <1>3 DEF ThreadDisconnected, ErrorIsLast
<1> QED BY <1>1, <1>2, <1>3 DEF Bridge

LEMMA InvTask ==
    ASSUME Inv, Task
    PROVE  Inv'
<1> USE SupervisorAssumption DEF Inv, TypeOK, TaskEmpties, LoopOwnsPipeline, AttemptsLeft,
        FlagUnseen, NeverDeafToShutdown, mainVars, flagVars, supVars, taskVars, pipeVars
<1>1. CASE TaskTakesEvent
    <2>1. ErrorIsLast' /\ bridge' \in Seq({"event", "error"})
        BY <1>1, TailKeepsErrorLast DEF TaskTakesEvent
    <2> QED BY <1>1, <2>1 DEF TaskTakesEvent
<1>2. CASE TaskTicks
    BY <1>2 DEF TaskTicks, ErrorIsLast
<1>3. CASE TaskSends
    BY <1>3 DEF TaskSends, ErrorIsLast
<1>4. CASE TaskBreaks
    <2>1. bridge' = <<>> /\ thread = "ended" /\ taskError' \in BOOLEAN
        BY <1>4, ErrorEmptiesBridge DEF TaskBreaks
    <2>2. ErrorIsLast'
        BY <2>1 DEF ErrorIsLast
    <2> QED BY <1>4, <2>1, <2>2 DEF TaskBreaks
<1>5. CASE TaskEnds
    BY <1>5 DEF TaskEnds, ErrorIsLast
<1> QED BY <1>1, <1>2, <1>3, <1>4, <1>5 DEF Task

LEMMA InvLoop ==
    ASSUME Inv, Loop
    PROVE  Inv'
<1> USE SupervisorAssumption DEF Inv, TypeOK, ErrorIsLast, TaskEmpties, LoopOwnsPipeline,
        AttemptsLeft, FlagUnseen, NeverDeafToShutdown, mainVars, flagVars, supVars, taskVars,
        pipeVars
<1>1. CASE LoopTakesChange
    BY <1>1 DEF LoopTakesChange
<1>2. CASE LoopClosed
    BY <1>2 DEF LoopClosed, BreakLoop
<1>3. CASE LoopShutdown
    BY <1>3 DEF LoopShutdown, BreakLoop
<1>4. CASE EndWatching
    BY <1>4 DEF EndWatching
<1> QED BY <1>1, <1>2, <1>3, <1>4 DEF Loop

LEMMA InvSupervise ==
    ASSUME Inv, Supervise
    PROVE  Inv'
<1> USE SupervisorAssumption DEF Inv, TypeOK, ErrorIsLast, TaskEmpties, LoopOwnsPipeline,
        AttemptsLeft, FlagUnseen, NeverDeafToShutdown, mainVars, flagVars, supVars, taskVars,
        pipeVars
<1>1. CASE SupervisorSeesShutdown
    BY <1>1 DEF SupervisorSeesShutdown, EndSupervisor
<1>2. CASE SupervisorGoesOn
    BY <1>2 DEF SupervisorGoesOn
<1>3. CASE StartWatching
    <2>1. 1 .. Len(bridge') = {} /\ bridge' \in Seq({"event", "error"})
        BY <1>3, EmptySeq DEF StartWatching
    <2>2. ErrorIsLast'
        BY <2>1
    <2> QED BY <1>3, <2>1, <2>2 DEF StartWatching
<1>4. CASE StartFails
    BY <1>4 DEF StartFails
<1>5. CASE WatchingStops
    BY <1>5 DEF WatchingStops, EndSupervisor
<1>6. CASE WatchingFails
    <2>1. attempt < MaxRetries /\ attempt' = attempt + 1 /\ attempt' \in 0 .. MaxRetries
        BY <1>6 DEF WatchingFails
    <2>2. CASE attempt' >= MaxRetries
        BY <1>6, <2>1, <2>2 DEF WatchingFails, EndSupervisor
    <2>3. CASE attempt' < MaxRetries
        BY <1>6, <2>1, <2>3 DEF WatchingFails
    <2> QED BY <2>1, <2>2, <2>3
<1>7. CASE BackoffEnds
    BY <1>7 DEF BackoffEnds
<1> QED BY <1>1, <1>2, <1>3, <1>4, <1>5, <1>6, <1>7 DEF Supervise

\* main, the start-up scan, a signal and the client.
LEMMA InvMain ==
    ASSUME Inv, Main \/ ScanEnds \/ Signal \/ CloseStdin
    PROVE  Inv'
<1> USE SupervisorAssumption DEF Inv, TypeOK, ErrorIsLast, TaskEmpties, LoopOwnsPipeline,
        AttemptsLeft, FlagUnseen, NeverDeafToShutdown, mainVars, flagVars, supVars, taskVars,
        pipeVars
<1>1. CASE Bind
    BY <1>1 DEF Bind
<1>2. CASE StopServing
    BY <1>2 DEF StopServing
<1>3. CASE SupervisorJoined
    BY <1>3 DEF SupervisorJoined
<1>4. CASE ScanAwaited
    BY <1>4 DEF ScanAwaited
<1>5. CASE Exit
    BY <1>5 DEF Exit
<1>6. CASE ScanEnds
    BY <1>6 DEF ScanEnds
<1>7. CASE Signal
    BY <1>7 DEF Signal
<1>8. CASE CloseStdin
    BY <1>8 DEF CloseStdin
<1> QED BY <1>1, <1>2, <1>3, <1>4, <1>5, <1>6, <1>7, <1>8 DEF Main

LEMMA InvStep == Inv /\ [Next]_vars => Inv'
<1> SUFFICES ASSUME Inv, [Next]_vars PROVE Inv'
    OBVIOUS
<1>1. CASE UNCHANGED vars
    BY <1>1 DEF vars, Inv, TypeOK, ErrorIsLast, TaskEmpties, LoopOwnsPipeline, AttemptsLeft,
                FlagUnseen, NeverDeafToShutdown, mainVars, flagVars, supVars, taskVars, pipeVars
<1>2. CASE Bridge
    BY <1>2, InvBridge
<1>3. CASE Task
    BY <1>3, InvTask
<1>4. CASE Loop
    BY <1>4, InvLoop
<1>5. CASE Supervise
    BY <1>5, InvSupervise
<1>6. CASE Main \/ ScanEnds \/ Signal \/ CloseStdin
    BY <1>6, InvMain
<1> QED BY <1>1, <1>2, <1>3, <1>4, <1>5, <1>6 DEF Next

LEMMA SpecInv == Spec => []Inv
BY InvInit, InvStep, PTL DEF Spec

-----------------------------------------------------------------------------

\* The types, for any capacity and number of attempts: the bounded channel
\* never holds more than its capacity, the attempts never exceed the limit.
THEOREM TypeCorrect == Spec => []TypeOK
BY SpecInv, PTL DEF Inv

\* However the tear-down interleaves with the bridge thread and the watcher
\* task, start_watching returns with an empty pipeline.
THEOREM PipelineIsDrained == Spec => []NothingLeftBehind
<1>1. Inv => NothingLeftBehind
    BY DEF Inv, NothingLeftBehind, LoopOwnsPipeline, TaskEmpties
<1> QED BY <1>1, SpecInv, PTL

\* Whenever the shutdown comes, a watcher that runs will see it.
THEOREM ShutdownIsSeen == Spec => []NeverDeafToShutdown
<1>1. Inv => NeverDeafToShutdown
    BY DEF Inv, FlagUnseen
<1> QED BY <1>1, SpecInv, PTL
=============================================================================
