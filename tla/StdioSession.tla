----------------------------- MODULE StdioSession -----------------------------
(***************************************************************************)
(* A session of an MCP client over stdin and stdout: the client, the two   *)
(* pipes, the blocking loop that reads a line, handles it and writes the   *)
(* answer (mcp/stdio.rs), the engine that decides what a line is and what  *)
(* it is owed (mcp/mod.rs, mcp/jsonrpc.rs, mcp/tools.rs), and the part of  *)
(* main that turns the end of the loop into the exit status (main.rs).     *)
(*                                                                         *)
(* A line is a record of what the code tells lines apart by:               *)
(*   text    "blank", "binary" (no UTF-8), "garbage" (no JSON), "json"     *)
(*   member  "method", "result" or "neither": the member it has            *)
(*   id      "absent", "null", "given"                                     *)
(*   shape   "valid" if it deserialises into a request, else "invalid"     *)
(*   target  "answers": a method or tool there is; "unknown"; "params":    *)
(*           a tool call without a name or a required argument             *)
(***************************************************************************)
EXTENDS Integers, Sequences, FiniteSetsExt

CONSTANTS
    Lines,          \* the lines the client may write
    MaxLines,       \* bound on the lines of a session
    PipeSize,       \* lines a pipe holds
    Faults          \* subset of {"read", "write", "panic"}

LineKinds ==
    [text : {"blank", "binary", "garbage", "json"},
     member : {"method", "result", "neither"},
     id : {"absent", "null", "given"},
     shape : {"valid", "invalid"},
     target : {"answers", "unknown", "params"}]

ASSUME SessionAssumption ==
    /\ Lines \subseteq LineKinds
    /\ MaxLines \in Nat /\ PipeSize \in Nat \ {0}
    /\ Faults \subseteq {"read", "write", "panic"}

VARIABLES
    sent,           \* the lines the client has written so far
    stdin,          \* how many of them are still in the pipe
    stdinOpen,      \* the client may write more
    stdout,         \* the answers in the pipe
    stdoutOpen,     \* the client still has its end open
    received,       \* the answers the client has read
    loop,           \* "read", "handle", "write"; "eof", "gone", "error", "panicked"
    answer,         \* the answer the loop is about to write
    main,           \* "serving", "stopping", "returned", "exited"
    signalled,      \* a signal came, or the watcher ended
    status          \* what main has decided to return: "ok", "error"

clientVars == <<sent, stdinOpen, stdoutOpen, received>>
pipeVars   == <<stdin, stdout>>
loopVars   == <<loop, answer>>
mainVars   == <<main, signalled, status>>
vars == <<clientVars, pipeVars, loopVars, mainVars>>

(* The id of an answer: the number of the line it answers, or one of these.*)
NoId   == -1
NullId == 0

Nothing == [id |-> NoId, outcome |-> "none"]

LoopEnded == loop \in {"eof", "gone", "error", "panicked"}

Init ==
    /\ sent = <<>> /\ received = <<>>
    /\ stdin = 0 /\ stdout = <<>>
    /\ stdinOpen = TRUE /\ stdoutOpen = TRUE
    /\ loop = "read" /\ answer = Nothing
    /\ main = "serving" /\ signalled = FALSE /\ status = "ok"

-----------------------------------------------------------------------------
(* The engine.  The id of an answer is that of its line, so it names the   *)
(* line; it is null where it cannot be known.                              *)

(* parse_message: a method makes it a request or, without the member id, a *)
(* notification; a result or an error a response.                          *)
Parse(l) ==
    IF l.text = "garbage" THEN "reject"
    ELSE IF l.member = "method"
         THEN IF l.shape = "invalid" THEN "reject"
              ELSE IF l.id /= "absent" THEN "request" ELSE "notification"
    ELSE IF l.member = "result" THEN "response" ELSE "reject"

(* resolve_method and Tools::call: an unknown method or tool and a missing *)
(* argument are errors of the protocol, a tool that fails is a result.     *)
Resolve(l) == IF l.target = "answers" THEN "result" ELSE "error"

(* An id that is null is no id for serde: the answer leaves the member out.*)
HandleMessage(l, n) ==
    CASE Parse(l) = "reject" -> [id |-> NullId, outcome |-> "error"]
      [] Parse(l) = "request" ->
            [id |-> IF l.id = "null" THEN NoId ELSE n, outcome |-> Resolve(l)]
      [] OTHER -> Nothing

-----------------------------------------------------------------------------
(* The client.                                                             *)

ClientWrites(l) ==
    /\ stdinOpen
    /\ Len(sent) < MaxLines
    /\ stdin < PipeSize
    /\ sent' = Append(sent, l)
    /\ stdin' = stdin + 1
    /\ UNCHANGED <<stdinOpen, stdoutOpen, received, stdout, loopVars, mainVars>>

ClientEndsInput ==
    /\ stdinOpen
    /\ stdinOpen' = FALSE
    /\ UNCHANGED <<sent, stdoutOpen, received, pipeVars, loopVars, mainVars>>

ClientReads ==
    /\ stdoutOpen
    /\ stdout /= <<>>
    /\ received' = Append(received, Head(stdout))
    /\ stdout' = Tail(stdout)
    /\ UNCHANGED <<sent, stdinOpen, stdoutOpen, stdin, loopVars, mainVars>>

ClientLeaves ==
    /\ stdoutOpen
    /\ stdoutOpen' = FALSE
    /\ stdinOpen' = FALSE
    /\ UNCHANGED <<sent, received, pipeVars, loopVars, mainVars>>

-----------------------------------------------------------------------------
(* The loop, a blocking task: it goes on, whatever main does, until its    *)
(* client ends it or an error does.                                        *)

Line == sent[Len(sent) - stdin + 1]

ReadLine_EndsOnBinary ==
    /\ loop = "read"
    /\ stdin > 0
    /\ stdin' = stdin - 1
    /\ IF Line.text = "binary" THEN loop' = "eof" /\ UNCHANGED answer
       ELSE IF Line.text = "blank" THEN UNCHANGED loopVars
       ELSE /\ loop' = "handle"
            /\ answer' = HandleMessage(Line, Len(sent) - stdin + 1)
    /\ UNCHANGED <<clientVars, stdout, mainVars>>

(* A line that is no UTF-8 and a blank one are skipped.                    *)
ReadLine ==
    /\ loop = "read"
    /\ stdin > 0
    /\ stdin' = stdin - 1
    /\ IF Line.text \in {"blank", "binary"} THEN UNCHANGED loopVars
       ELSE /\ loop' = "handle"
            /\ answer' = HandleMessage(Line, Len(sent) - stdin + 1)
    /\ UNCHANGED <<clientVars, stdout, mainVars>>

ReadEof ==
    /\ loop = "read"
    /\ stdin = 0 /\ ~stdinOpen
    /\ loop' = "eof"
    /\ UNCHANGED <<clientVars, pipeVars, answer, mainVars>>

ReadFails ==
    /\ "read" \in Faults
    /\ loop = "read"
    /\ loop' = "error"
    /\ UNCHANGED <<clientVars, pipeVars, answer, mainVars>>

(* block_on(handle_message) comes back: there is an answer to write or     *)
(* there is none.                                                          *)
Handled ==
    /\ loop = "handle"
    /\ loop' = IF answer = Nothing THEN "read" ELSE "write"
    /\ UNCHANGED <<clientVars, pipeVars, answer, mainVars>>

HandlerPanics ==
    /\ "panic" \in Faults
    /\ loop = "handle"
    /\ loop' = "panicked"
    /\ answer' = Nothing
    /\ UNCHANGED <<clientVars, pipeVars, mainVars>>

WriteAnswer_Waits ==
    /\ loop = "write"
    /\ stdoutOpen
    /\ Len(stdout) < PipeSize
    /\ stdin > 0 \/ ~stdinOpen
    /\ stdout' = Append(stdout, answer)
    /\ loop' = "read"
    /\ answer' = Nothing
    /\ UNCHANGED <<clientVars, stdin, mainVars>>

(* write_all and flush; they wait while the pipe is full.                  *)
WriteAnswer ==
    /\ loop = "write"
    /\ stdoutOpen
    /\ Len(stdout) < PipeSize
    /\ stdout' = Append(stdout, answer)
    /\ loop' = "read"
    /\ answer' = Nothing
    /\ UNCHANGED <<clientVars, stdin, mainVars>>

(* BrokenPipe: the client has left, which is a normal end.                 *)
WriteFindsNobody ==
    /\ loop = "write"
    /\ ~stdoutOpen
    /\ loop' = "gone"
    /\ answer' = Nothing
    /\ UNCHANGED <<clientVars, pipeVars, mainVars>>

WriteFails ==
    /\ "write" \in Faults
    /\ loop = "write"
    /\ loop' = "error"
    /\ answer' = Nothing
    /\ UNCHANGED <<clientVars, pipeVars, mainVars>>

-----------------------------------------------------------------------------
(* main: whichever of the loop's end and a signal, or the watcher's end,   *)
(* the select sees decides what it will return.                            *)

Signal ==
    /\ ~signalled
    /\ main = "serving"
    /\ signalled' = TRUE
    /\ UNCHANGED <<clientVars, pipeVars, loopVars, main, status>>

SeeLoopEnd_Ok ==
    /\ main = "serving"
    /\ LoopEnded
    /\ main' = "stopping"
    /\ status' = IF loop = "error" THEN "error" ELSE "ok"
    /\ UNCHANGED <<clientVars, pipeVars, loopVars, signalled>>

SeeLoopEnd ==
    /\ main = "serving"
    /\ LoopEnded
    /\ main' = "stopping"
    /\ status' = IF loop \in {"error", "panicked"} THEN "error" ELSE "ok"
    /\ UNCHANGED <<clientVars, pipeVars, loopVars, signalled>>

SeeSignal ==
    /\ main = "serving"
    /\ signalled
    /\ main' = "stopping"
    /\ UNCHANGED <<clientVars, pipeVars, loopVars, signalled, status>>

(* stop_watcher and await_startup_scan.                                    *)
Return ==
    /\ main = "stopping"
    /\ main' = "returned"
    /\ UNCHANGED <<clientVars, pipeVars, loopVars, signalled, status>>

(* The runtime is dropped, which waits for the blocking loop.              *)
Exit ==
    /\ main = "returned"
    /\ LoopEnded
    /\ main' = "exited"
    /\ UNCHANGED <<clientVars, pipeVars, loopVars, signalled, status>>

-----------------------------------------------------------------------------
Loop == ReadLine \/ ReadEof \/ Handled \/ WriteAnswer \/ WriteFindsNobody

Main == SeeLoopEnd \/ SeeSignal \/ Return \/ Exit

Next ==
    \/ \E l \in Lines : ClientWrites(l)
    \/ ClientEndsInput \/ ClientReads \/ ClientLeaves
    \/ Loop \/ ReadFails \/ HandlerPanics \/ WriteFails
    \/ Signal \/ Main

(* The loop's thread and main run; nothing is assumed of the client.       *)
Spec == Init /\ [][Next]_vars /\ WF_vars(Loop) /\ WF_vars(Main)

-----------------------------------------------------------------------------
(* What JSON-RPC owes a line: a request an answer with its id, anything    *)
(* that is no message an error with the id null, the rest nothing.         *)
Owed(n) ==
    LET l == sent[n]
        message == \/ l.member = "result"
                   \/ l.member = "method" /\ l.shape = "valid"
    IN IF l.text \in {"blank", "binary"} THEN <<>>
       ELSE IF l.text = "garbage" \/ ~message THEN <<[id |-> NullId, outcome |-> "error"]>>
       ELSE IF l.member = "result" \/ l.id = "absent" THEN <<>>
       ELSE <<[id |-> IF l.id = "null" THEN NullId ELSE n,
               outcome |-> IF l.target = "answers" THEN "result" ELSE "error"]>>

(* The lines among the first n that are owed an answer.                    *)
OwedLines(n) == {k \in 1..n : Owed(k) /= <<>>}

(* The answers are those of the lines, one for each, in their order.       *)
AnswersOf(answers, lines) ==
    \E line \in [DOMAIN answers -> lines] :
        /\ \A i \in DOMAIN answers : Owed(line[i]) = <<answers[i]>>
        /\ \A i, j \in DOMAIN answers : i < j => line[i] < line[j]
        /\ \A k \in lines : \E i \in DOMAIN answers : line[i] = k

(* The client gets the answers its lines are owed: each once, with the id  *)
(* of its request, in the order of the lines, and nothing for messages     *)
(* that want no answer (mcp/mod.rs:47).  A loop that has come to the end of*)
(* the input owes nothing any more: a line that is no text or no JSON has  *)
(* not cost a later one its answer (stdio.rs:41).                          *)
AnswersMatchLines ==
    /\ \E n \in 0..Len(sent) - stdin : AnswersOf(received \o stdout, OwedLines(n))
    /\ loop = "eof" => AnswersOf(received \o stdout, OwedLines(Len(sent)))

(* The exit status is that of the loop, unless a signal or the end of the  *)
(* watcher came into it (main.rs:148): an error of stdin or stdout and a   *)
(* panic are told to the host, the end of the input and a client that has  *)
(* left are not.                                                           *)
StatusTellsFailure ==
    main = "exited" /\ ~signalled => (status = "error" <=> loop \in {"error", "panicked"})

(* A client that keeps reading gets all its answers without having to end  *)
(* the input or to write more, unless the loop fails or the client leaves. *)
RequestsAnswered ==
    []<>(stdout = <<>>)
        => \A n \in 1..MaxLines :
              Len(sent) >= n
                 ~> \/ Len(received) >= Cardinality(OwedLines(Min({n, Len(sent)})))
                    \/ loop \in {"gone", "error", "panicked"}
                    \/ ~stdoutOpen

=============================================================================
