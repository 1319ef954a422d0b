----------------------------- MODULE Supervisor -----------------------------
(***************************************************************************)
(* The life of the watcher pipeline and of the process: main.rs, the       *)
(* supervisor of index/supervisor.rs, start_watching and its event loop in *)
(* index/mod.rs, and the bridge thread and watcher task of watch/mod.rs.   *)
(*                                                                         *)
(* One watcher pipeline is                                                 *)
(*                                                                         *)
(*   notify -> bridge thread -> bridge -> watcher task -> chan -> event    *)
(*   loop                                                                  *)
(*                                                                         *)
(* with an unbounded bridge, a bounded chan and a debouncer inside the     *)
(* watcher task.  What a change says does not matter here: the bridge      *)
(* carries "event" and "error", pending, outgoing and chan are numbers of  *)
(* changes.                                                                *)
(***************************************************************************)
EXTENDS Naturals, Sequences

CONSTANTS
    Transports,     \* the transports it may be started with
    MaxRetries,     \* MAX_WATCHER_RETRIES
    Capacity,       \* CHANGE_CHANNEL_CAPACITY
    Faults,         \* subset of FaultKinds
    MaxWaiting      \* bound: changes that wait at once between notify and chan

FaultKinds ==
    { "register",   \* notify cannot watch the directory
      "notify",     \* a registered watcher reports an error
      "bind" }      \* the HTTP port cannot be bound

ASSUME SupervisorAssumption ==
    /\ Transports \subseteq {"http", "stdio"}
    /\ MaxRetries \in Nat \ {0}
    /\ Capacity \in Nat \ {0}
    /\ Faults \subseteq FaultKinds
    /\ MaxWaiting \in Nat

VARIABLES
    transport,      \* the TransportMode of the command line
    signal,         \* has SIGINT or SIGTERM arrived?
    stdin,          \* "open" or "closed" by the client
    main,           \* where main is
    scanTask,       \* the start-up scan: "running" or "ended"
    shutdown,       \* the value of main's shutdown channel
    supSeen,        \* has the supervisor's receiver seen it?
    loopSeen,       \* has start_watching's clone seen it?
    done,           \* the value of the supervisor's done channel
    sup,            \* where the supervisor is
    attempt,        \* failed attempts
    loop,           \* where start_watching is
    notify,         \* is the notify watcher alive?
    thread,         \* the bridge thread
    bridge,         \* the bridge channel
    task,           \* the watcher task
    taskError,      \* its bridge_error
    pending,        \* changes in the debouncer
    outgoing,       \* changes the task is sending
    chan            \* changes in the bounded channel

mainVars == <<transport, signal, stdin, main, scanTask>>
flagVars == <<shutdown, supSeen, loopSeen, done>>
supVars == <<sup, attempt>>
taskVars == <<task, taskError, pending, outgoing>>
pipeVars == <<notify, thread, bridge>>
vars == <<mainVars, flagVars, supVars, loop, pipeVars, taskVars, chan>>

Init ==
    /\ transport \in Transports
    /\ signal = FALSE
    /\ stdin = "open"
    /\ main = IF transport = "http" THEN "binding" ELSE "serving"
    /\ scanTask = "running"
    /\ shutdown = FALSE /\ supSeen = TRUE /\ loopSeen = TRUE
    /\ done = FALSE
    /\ sup = "check"
    /\ attempt = 0
    /\ loop = "off"
    /\ notify = FALSE
    /\ thread = "off"
    /\ bridge = <<>>
    /\ task = "off"
    /\ taskError = FALSE
    /\ pending = 0 /\ outgoing = 0
    /\ chan = 0

-----------------------------------------------------------------------------
(* Outside the process.                                                    *)

Signal ==
    /\ ~signal
    /\ signal' = TRUE
    /\ UNCHANGED <<transport, stdin, main, scanTask, flagVars, supVars, loop, pipeVars, taskVars, chan>>

CloseStdin ==
    /\ stdin = "open"
    /\ stdin' = "closed"
    /\ UNCHANGED <<transport, signal, main, scanTask, flagVars, supVars, loop, pipeVars, taskVars, chan>>

-----------------------------------------------------------------------------
(* The bridge thread.                                                      *)

\* There is no end of events: a directory may be written to for ever.
ThreadForwards ==
    /\ thread = "running"
    /\ notify
    /\ Len(bridge) + pending + outgoing < MaxWaiting
    /\ bridge' = Append(bridge, "event")
    /\ UNCHANGED <<mainVars, flagVars, supVars, loop, notify, thread, taskVars, chan>>

\* The thread forwards the error and ends.
NotifyFails ==
    /\ "notify" \in Faults
    /\ thread = "running"
    /\ notify
    /\ bridge' = Append(bridge, "error")
    /\ thread' = "ended"
    /\ UNCHANGED <<mainVars, flagVars, supVars, loop, notify, taskVars, chan>>

ThreadDisconnected ==
    /\ thread = "running"
    /\ ~notify
    /\ thread' = "ended"
    /\ UNCHANGED <<mainVars, flagVars, supVars, loop, notify, bridge, taskVars, chan>>

-----------------------------------------------------------------------------
(* The watcher task, run_event_loop.                                       *)

\* An event becomes changes that are sent at once or wait in the debouncer.
TaskTakesEvent ==
    /\ task = "running"
    /\ bridge # <<>>
    /\ Head(bridge) = "event"
    /\ bridge' = Tail(bridge)
    /\ \/ /\ outgoing' = 1
          /\ task' = "sending"
          /\ UNCHANGED pending
       \/ /\ pending' = pending + 1
          /\ UNCHANGED <<task, outgoing>>
    /\ UNCHANGED <<mainVars, flagVars, supVars, loop, notify, thread, taskError, chan>>

TaskTicks ==
    /\ task = "running"
    /\ pending > 0
    /\ \E expired \in 1 .. pending :
          /\ outgoing' = expired
          /\ pending' = pending - expired
    /\ task' = "sending"
    /\ UNCHANGED <<mainVars, flagVars, supVars, loop, pipeVars, taskError, chan>>

TaskSends_Unbounded ==
    /\ outgoing > 0
    /\ chan' = chan + 1
    /\ outgoing' = outgoing - 1
    /\ task' = IF outgoing' = 0 /\ task = "sending" THEN "running" ELSE task
    /\ UNCHANGED <<mainVars, flagVars, supVars, loop, pipeVars, taskError, pending>>

\* send waits for room; the receiver lives until the sender has gone.
TaskSends ==
    /\ outgoing > 0
    /\ chan < Capacity
    /\ chan' = chan + 1
    /\ outgoing' = outgoing - 1
    /\ task' = IF outgoing' = 0 /\ task = "sending" THEN "running" ELSE task
    /\ UNCHANGED <<mainVars, flagVars, supVars, loop, pipeVars, taskError, pending>>

\* The bridge reports an error, or is empty and its thread has gone: the
\* debouncer is flushed.
TaskBreaks ==
    /\ task = "running"
    /\ \/ /\ bridge # <<>>
          /\ Head(bridge) = "error"
          /\ taskError' = TRUE
          /\ bridge' = Tail(bridge)
       \/ /\ bridge = <<>>
          /\ thread = "ended"
          /\ UNCHANGED <<taskError, bridge>>
    /\ task' = "flushing"
    /\ outgoing' = pending
    /\ pending' = 0
    /\ UNCHANGED <<mainVars, flagVars, supVars, loop, notify, thread, chan>>

\* The task joins the bridge thread and drops its sender.
TaskEnds ==
    /\ task = "flushing"
    /\ outgoing = 0
    /\ thread = "ended"
    /\ task' = "ended"
    /\ UNCHANGED <<mainVars, flagVars, supVars, loop, pipeVars, taskError, pending, outgoing,
                   chan>>

-----------------------------------------------------------------------------
(* start_watching: event_loop, then the tear-down.                         *)

\* The select is biased: a change is taken before the shutdown is looked at.
LoopTakesChange ==
    /\ loop \in {"select", "draining"}
    /\ chan > 0
    /\ chan' = chan - 1
    /\ UNCHANGED <<mainVars, flagVars, supVars, loop, pipeVars, taskVars>>

BreakLoop_KeepsWatcher ==
    /\ loop' = "draining"
    /\ UNCHANGED notify

\* The notify watcher is dropped, so that its thread and then the task end.
BreakLoop ==
    /\ loop' = "draining"
    /\ notify' = FALSE

LoopClosed ==
    /\ loop = "select"
    /\ chan = 0
    /\ task = "ended"
    /\ BreakLoop
    /\ UNCHANGED <<mainVars, flagVars, supVars, thread, bridge, taskVars, chan>>

LoopShutdown ==
    /\ loop = "select"
    /\ chan = 0
    /\ ~loopSeen
    /\ loopSeen' = TRUE
    /\ BreakLoop
    /\ UNCHANGED <<mainVars, shutdown, supSeen, done, supVars, thread, bridge, taskVars, chan>>

EndWatching_NotDrained ==
    /\ loop = "draining"
    /\ loop' = IF taskError /\ ~shutdown THEN "failed" ELSE "stopped"
    /\ UNCHANGED <<mainVars, flagVars, supVars, pipeVars, taskVars, chan>>

\* The channel is closed and empty and the task has been awaited; an explicit
\* shutdown takes precedence over the watcher's error.
EndWatching ==
    /\ loop = "draining"
    /\ chan = 0
    /\ task = "ended"
    /\ loop' = IF taskError /\ ~shutdown THEN "failed" ELSE "stopped"
    /\ UNCHANGED <<mainVars, flagVars, supVars, pipeVars, taskVars, chan>>

-----------------------------------------------------------------------------
(* run_with_backoff.                                                       *)

EndSupervisor_Silent ==
    /\ sup' = "ended"
    /\ UNCHANGED done

EndSupervisor ==
    /\ sup' = "ended"
    /\ done' = TRUE

SupervisorSeesShutdown ==
    /\ sup = "check"
    /\ shutdown
    /\ EndSupervisor
    /\ UNCHANGED <<mainVars, shutdown, supSeen, loopSeen, attempt, loop, pipeVars, taskVars,
                   chan>>

SupervisorGoesOn_Unchecked ==
    /\ sup = "check"
    /\ sup' = "starting"
    /\ UNCHANGED <<mainVars, flagVars, attempt, loop, pipeVars, taskVars, chan>>

\* The flag has been looked at; it may be set before the receiver is cloned.
SupervisorGoesOn ==
    /\ sup = "check"
    /\ ~shutdown
    /\ sup' = "starting"
    /\ UNCHANGED <<mainVars, flagVars, attempt, loop, pipeVars, taskVars, chan>>

\* The clone has seen what the original has seen.
StartWatching ==
    /\ sup = "starting"
    /\ loopSeen' = supSeen
    /\ sup' = "watching"
    /\ loop' = "select"
    /\ notify' = TRUE
    /\ thread' = "running"
    /\ bridge' = <<>>
    /\ task' = "running"
    /\ taskError' = FALSE
    /\ pending' = 0 /\ outgoing' = 0
    /\ chan' = 0
    /\ UNCHANGED <<mainVars, shutdown, supSeen, done, attempt>>

StartFails ==
    /\ "register" \in Faults
    /\ sup = "starting"
    /\ sup' = "watching"
    /\ loop' = "failed"
    /\ UNCHANGED <<mainVars, flagVars, attempt, pipeVars, taskVars, chan>>

WatchingStops ==
    /\ sup = "watching"
    /\ loop = "stopped"
    /\ EndSupervisor
    /\ loop' = "off"
    /\ UNCHANGED <<mainVars, shutdown, supSeen, loopSeen, attempt, pipeVars, taskVars, chan>>

WatchingFails_NeverGivesUp ==
    /\ sup = "watching"
    /\ loop = "failed"
    /\ loop' = "off"
    /\ sup' = "backoff"
    /\ UNCHANGED <<done, mainVars, shutdown, supSeen, loopSeen, attempt, pipeVars, taskVars,
                   chan>>

WatchingFails ==
    /\ sup = "watching"
    /\ loop = "failed"
    /\ loop' = "off"
    /\ attempt' = attempt + 1
    /\ IF attempt' >= MaxRetries THEN EndSupervisor
                                 ELSE sup' = "backoff" /\ UNCHANGED done
    /\ UNCHANGED <<mainVars, shutdown, supSeen, loopSeen, pipeVars, taskVars, chan>>

\* timeout(delay, changed()): the delay is over, or the shutdown is seen.
BackoffEnds ==
    /\ sup = "backoff"
    /\ sup' = "check"
    /\ \/ UNCHANGED supSeen
       \/ ~supSeen /\ supSeen' = TRUE
    /\ UNCHANGED <<mainVars, shutdown, loopSeen, done, attempt, loop, pipeVars, taskVars, chan>>

-----------------------------------------------------------------------------
(* main.                                                                   *)

\* run_http_server binds its port after it has spawned the watcher; when it
\* cannot, main returns and the runtime goes with everything in it.
Bind ==
    /\ main = "binding"
    /\ \/ main' = "serving"
       \/ "bind" \in Faults /\ main' = "dropping"
    /\ UNCHANGED <<transport, signal, stdin, scanTask, flagVars, supVars, loop, pipeVars, taskVars, chan>>

StopServing_IgnoresEof ==
    /\ main = "serving"
    /\ signal \/ done
    /\ main' = "stopping"
    /\ shutdown' = TRUE
    /\ supSeen' = FALSE
    /\ loopSeen' = FALSE
    /\ UNCHANGED <<transport, signal, stdin, scanTask, done, supVars, loop, pipeVars, taskVars, chan>>

\* The transport ends at a signal, when the watcher is done or, in stdio mode,
\* with the client; requests in work are answered first.  stop_watcher sends
\* the shutdown flag.
StopServing ==
    /\ main = "serving"
    /\ signal \/ done \/ (transport = "stdio" /\ stdin = "closed")
    /\ main' = "stopping"
    /\ shutdown' = TRUE
    /\ supSeen' = FALSE
    /\ loopSeen' = FALSE
    /\ UNCHANGED <<transport, signal, stdin, scanTask, done, supVars, loop, pipeVars, taskVars, chan>>

SupervisorJoined ==
    /\ main = "stopping"
    /\ sup = "ended"
    /\ main' = "draining"
    /\ UNCHANGED <<transport, signal, stdin, scanTask, flagVars, supVars, loop, pipeVars, taskVars, chan>>

ScanEnds ==
    /\ scanTask = "running"
    /\ scanTask' = "ended"
    /\ UNCHANGED <<transport, signal, stdin, main, flagVars, supVars, loop, pipeVars, taskVars, chan>>

\* await_startup_scan: the scan has ended or SCAN_DRAIN_TIMEOUT is over.
ScanAwaited ==
    /\ main = "draining"
    /\ main' = "dropping"
    /\ UNCHANGED <<transport, signal, stdin, scanTask, flagVars, supVars, loop, pipeVars, taskVars, chan>>

\* The tokio runtime is dropped when main returns: it cancels the tasks and
\* waits for the blocking ones, the reader of stdin among them.
Exit ==
    /\ main = "dropping"
    /\ transport = "stdio" => stdin = "closed"
    /\ main' = "exited"
    /\ UNCHANGED <<transport, signal, stdin, scanTask, flagVars, supVars, loop, pipeVars, taskVars, chan>>

-----------------------------------------------------------------------------

Running == main # "exited"

Bridge == ThreadForwards \/ NotifyFails \/ ThreadDisconnected
Task == TaskTakesEvent \/ TaskTicks \/ TaskSends \/ TaskBreaks \/ TaskEnds
Loop == LoopTakesChange \/ LoopClosed \/ LoopShutdown \/ EndWatching
Supervise ==
    \/ SupervisorSeesShutdown \/ SupervisorGoesOn
    \/ StartWatching \/ StartFails \/ WatchingStops \/ WatchingFails
    \/ BackoffEnds
Main == Bind \/ StopServing \/ SupervisorJoined \/ ScanAwaited \/ Exit

Next ==
    \/ Signal \/ CloseStdin
    \/ Running /\ (Bridge \/ Task \/ Loop \/ Supervise \/ Main \/ ScanEnds)

Spec == Init /\ [][Next]_vars

\* Threads and tasks that can run do; timeouts elapse; the scan may take any
\* time; nothing is assumed of signals, the client or notify.
Fairness ==
    /\ WF_vars(Running /\ ThreadDisconnected)
    /\ WF_vars(Running /\ Task)
    /\ WF_vars(Running /\ Loop)
    /\ WF_vars(Running /\ Supervise)
    /\ WF_vars(Running /\ Main)

FairSpec == Spec /\ Fairness

-----------------------------------------------------------------------------

\* Types of all variables.
TypeOK ==
    /\ transport \in Transports
    /\ {signal, shutdown, supSeen, loopSeen, done, notify, taskError} \subseteq BOOLEAN
    /\ stdin \in {"open", "closed"}
    /\ main \in {"binding", "serving", "stopping", "draining", "dropping", "exited"}
    /\ scanTask \in {"running", "ended"}
    /\ sup \in {"check", "starting", "watching", "backoff", "ended"}
    /\ attempt \in 0 .. MaxRetries
    /\ loop \in {"off", "select", "draining", "stopped", "failed"}
    /\ thread \in {"off", "running", "ended"}
    /\ bridge \in Seq({"event", "error"})
    /\ task \in {"off", "running", "sending", "flushing", "ended"}
    /\ pending \in Nat
    /\ outgoing \in Nat
    /\ chan \in 0 .. Capacity

\* When start_watching returns, with success or failure, every event that the
\* bridge thread has forwarded has been processed, the debouncer's last flush
\* included, and no part of the pipeline is left that could meet the next one.
NothingLeftBehind ==
    loop \in {"stopped", "failed"} =>
        /\ bridge = <<>>
        /\ pending = 0 /\ outgoing = 0 /\ chan = 0
        /\ thread # "running"
        /\ task \in {"off", "ended"}

\* No watcher is started for a supervisor that has seen the shutdown flag: its
\* event loop would wait for a change of the flag that never comes again.
NeverDeafToShutdown == sup = "watching" /\ loop = "select" /\ shutdown => ~loopSeen

\* The event loop is kept from looking at the shutdown flag: its biased select
\* finds a change again and again.
Starved == []<>(shutdown /\ loop = "select" /\ chan > 0)

\* An HTTP server ends at a signal, "Graceful shutdown via SIGINT/SIGTERM",
\* whatever the watcher, the channels and the backoff are doing, unless changes
\* keep the event loop busy for ever.
SignalExitsHttp == Starved \/ (transport = "http" /\ signal ~> main = "exited")

\* When the watcher has failed for good the HTTP server goes down instead of
\* serving an index that nobody maintains; the stdio server stops serving, too,
\* and goes with its client.
WatcherEndExits ==
    sup = "ended" ~> main = "exited" \/ (transport = "stdio" /\ main = "dropping")

\* A stdio server goes when its client closes stdin, and no orphan is left behind
\* a client that has exited, with the same exception.
ClientEndExits == Starved \/ (transport = "stdio" /\ stdin = "closed" ~> main = "exited")

\* A watcher that keeps failing is given up.
FailuresEnd == <>[](Running => sup # "backoff")
=============================================================================
