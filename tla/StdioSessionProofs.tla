-------------------------- MODULE StdioSessionProofs --------------------------
(***************************************************************************)
(* Proofs that the exit status of a session is that of its loop and that   *)
(* the client gets the answers its lines are owed, for any lines, any size *)
(* of the pipes and any faults.                                            *)
(***************************************************************************)
EXTENDS StdioSession, TLAPS

Failed == loop \in {"error", "panicked"}

(* Once main has seen the loop end, what it has decided stays true, since  *)
(* an ended loop takes no step.                                            *)
DecidedByLoop ==
    /\ main \in {"serving", "stopping", "returned", "exited"}
    /\ main = "serving" => status = "ok"
    /\ main # "serving" /\ ~signalled => LoopEnded /\ (status = "error" <=> Failed)

LEMMA EndedLoopRests ==
    ASSUME LoopEnded, [Next]_vars
    PROVE  loop' = loop
<1> USE DEF LoopEnded
<1>1. ASSUME NEW l \in Lines, ClientWrites(l) PROVE loop' = loop
    BY <1>1 DEF ClientWrites, loopVars
<1>2. CASE ClientEndsInput \/ ClientReads \/ ClientLeaves
    BY <1>2 DEF ClientEndsInput, ClientReads, ClientLeaves, loopVars
<1>3. CASE Loop \/ ReadFails \/ HandlerPanics \/ WriteFails
    BY <1>3 DEF Loop, ReadLine, ReadEof, Handled, WriteAnswer, WriteFindsNobody,
                ReadFails, HandlerPanics, WriteFails
<1>4. CASE Signal \/ Main
    BY <1>4 DEF Signal, Main, SeeLoopEnd, SeeSignal, Return, Exit, loopVars
<1>5. CASE UNCHANGED vars
    BY <1>5 DEF vars, loopVars
<1> QED BY <1>1, <1>2, <1>3, <1>4, <1>5 DEF Next

LEMMA DecidedKept == DecidedByLoop /\ [Next]_vars => DecidedByLoop'
<1> SUFFICES ASSUME DecidedByLoop, [Next]_vars PROVE DecidedByLoop'
    OBVIOUS
<1> USE DEF DecidedByLoop
<1>1. ASSUME UNCHANGED mainVars PROVE DecidedByLoop'
    <2>1. UNCHANGED <<main, signalled, status>>
        BY <1>1 DEF mainVars
    <2>2. LoopEnded => UNCHANGED <<LoopEnded, Failed>>
        BY EndedLoopRests DEF LoopEnded, Failed
    <2> QED BY <2>1, <2>2
<1>2. ASSUME NEW l \in Lines, ClientWrites(l) PROVE UNCHANGED mainVars
    BY <1>2 DEF ClientWrites
<1>3. CASE ClientEndsInput \/ ClientReads \/ ClientLeaves
    BY <1>1, <1>3 DEF ClientEndsInput, ClientReads, ClientLeaves
<1>4. CASE Loop \/ ReadFails \/ HandlerPanics \/ WriteFails
    BY <1>1, <1>4 DEF Loop, ReadLine, ReadEof, Handled, WriteAnswer, WriteFindsNobody,
                      ReadFails, HandlerPanics, WriteFails
<1>5. CASE Signal
    BY <1>5 DEF Signal
<1>6. CASE SeeLoopEnd
    BY <1>6 DEF SeeLoopEnd, LoopEnded, Failed, loopVars
<1>7. CASE SeeSignal
    BY <1>7 DEF SeeSignal
<1>8. CASE Return \/ Exit
    BY <1>8 DEF Return, Exit, LoopEnded, Failed, loopVars
<1>9. CASE UNCHANGED vars
    BY <1>1, <1>9 DEF vars
<1> QED BY <1>1, <1>2, <1>3, <1>4, <1>5, <1>6, <1>7, <1>8, <1>9 DEF Next, Main

(* Unless a signal came into it, the host learns of an error of stdin or   *)
(* stdout and of a panic, and of nothing else (run_stdio_mode in main.rs). *)
THEOREM ExitStatusIsTheLoops == Spec => []StatusTellsFailure
<1>1. Init => DecidedByLoop
    BY DEF Init, DecidedByLoop
<1>2. DecidedByLoop => StatusTellsFailure
    BY DEF DecidedByLoop, StatusTellsFailure, Failed
<1> QED BY <1>1, <1>2, DecidedKept, PTL DEF Spec

-----------------------------------------------------------------------------
(* The answers of a session.                                               *)

Answers == [id : Int, outcome : {"none", "result", "error"}]

TypeInv ==
    /\ sent \in Seq(Lines)
    /\ stdin \in 0..Len(sent)
    /\ stdout \in Seq(Answers)
    /\ received \in Seq(Answers)
    /\ answer \in Answers
    /\ loop \in {"read", "handle", "write", "eof", "gone", "error", "panicked"}
    /\ stdinOpen \in BOOLEAN

LEMMA LineType ==
    ASSUME NEW l \in Lines
    PROVE  l \in LineKinds
BY SessionAssumption

(* What the engine makes of a line is what the line is owed.               *)
LEMMA HandledAsOwed ==
    ASSUME \A l \in Lines : l.id # "null",
           sent \in Seq(Lines), NEW n \in 1..Len(sent), sent[n].text \notin {"blank", "binary"}
    PROVE  /\ HandleMessage(sent[n], n) \in Answers
           /\ HandleMessage(sent[n], n) = Nothing => Owed(n) = <<>>
           /\ HandleMessage(sent[n], n) # Nothing => Owed(n) = <<HandleMessage(sent[n], n)>>
<1> DEFINE l == sent[n]
<1>1. l \in LineKinds /\ l.id # "null"
    BY LineType
<1> QED BY <1>1 DEF HandleMessage, Owed, Parse, Resolve, Nothing, NullId, NoId, Answers, LineKinds

LEMMA SessionTypeStep ==
    ASSUME \A l \in Lines : l.id # "null", TypeInv, [Next]_vars
    PROVE  TypeInv'
<1> USE DEF TypeInv
<1>1. ASSUME NEW l \in Lines, ClientWrites(l) PROVE TypeInv'
    BY <1>1 DEF ClientWrites, loopVars
<1>2. CASE ClientEndsInput \/ ClientLeaves
    BY <1>2 DEF ClientEndsInput, ClientLeaves, pipeVars, loopVars
<1>3. CASE ClientReads
    BY <1>3 DEF ClientReads, loopVars
<1>4. CASE ReadLine
    <2>1. Len(sent) - stdin + 1 \in 1..Len(sent)
        BY <1>4 DEF ReadLine
    <2>2. Line.text \notin {"blank", "binary"} =>
              HandleMessage(Line, Len(sent) - stdin + 1) \in Answers
        BY <2>1, HandledAsOwed DEF Line
    <2> QED BY <1>4, <2>1, <2>2 DEF ReadLine, clientVars, loopVars
<1>5. CASE WriteAnswer
    BY <1>5 DEF WriteAnswer, clientVars, Nothing, NoId, Answers
<1>6. CASE \/ ReadEof \/ Handled \/ WriteFindsNobody \/ ReadFails \/ HandlerPanics
           \/ WriteFails
    BY <1>6 DEF ReadEof, Handled, WriteFindsNobody, ReadFails, HandlerPanics, WriteFails,
                clientVars, pipeVars, Nothing, NoId, Answers
<1>7. CASE Signal \/ Main
    BY <1>7 DEF Signal, Main, SeeLoopEnd, SeeSignal, Return, Exit, clientVars, pipeVars,
                loopVars
<1>8. CASE UNCHANGED vars
    BY <1>8 DEF vars, clientVars, pipeVars, loopVars
<1> QED BY <1>1, <1>2, <1>3, <1>4, <1>5, <1>6, <1>7, <1>8 DEF Next, Loop

(* The lines the loop has read.                                            *)
ReadSoFar == Len(sent) - stdin

(* The answers in the pipe and beyond it are those of the first n lines.   *)
Answered(n) == AnswersOf(received \o stdout, OwedLines(n))

(* They are those of all lines read, or of all but the last, whose answer  *)
(* the loop still has or has given up.                                     *)
AnswersInv ==
    /\ TypeInv
    /\ loop \in {"read", "eof"} => Answered(ReadSoFar)
    /\ loop \in {"handle", "write"} =>
          /\ ReadSoFar > 0
          /\ Answered(ReadSoFar - 1)
          /\ answer = Nothing => Owed(ReadSoFar) = <<>>
          /\ answer # Nothing => Owed(ReadSoFar) = <<answer>>
    /\ loop = "write" => answer # Nothing
    /\ \E n \in 0..ReadSoFar : Answered(n)
    /\ loop = "eof" => stdin = 0 /\ ~stdinOpen

LEMMA OwedNext ==
    ASSUME NEW n \in Nat \ {0}
    PROVE  /\ Owed(n) = <<>> => OwedLines(n) = OwedLines(n - 1)
           /\ Owed(n) # <<>> => OwedLines(n) = OwedLines(n - 1) \cup {n}
BY DEF OwedLines

LEMMA NoAnswers == AnswersOf(<<>>, OwedLines(0))
<1>1. OwedLines(0) = {}
    BY DEF OwedLines
<1>2. DOMAIN <<>> = {} /\ <<>> \in [{} -> {}]
    OBVIOUS
<1> QED BY <1>1, <1>2 DEF AnswersOf

(* One more answer for one more line.                                      *)
LEMMA AnswerOfNext ==
    ASSUME NEW answers \in Seq(Answers), NEW a \in Answers, NEW n \in Nat \ {0},
           AnswersOf(answers, OwedLines(n - 1)), Owed(n) = <<a>>
    PROVE  AnswersOf(Append(answers, a), OwedLines(n))
<1> DEFINE last == Len(answers) + 1
           more == Append(answers, a)
<1>1. PICK line \in [DOMAIN answers -> OwedLines(n - 1)] :
          /\ \A i \in DOMAIN answers : Owed(line[i]) = <<answers[i]>>
          /\ \A i, j \in DOMAIN answers : i < j => line[i] < line[j]
          /\ \A k \in OwedLines(n - 1) : \E i \in DOMAIN answers : line[i] = k
    BY DEF AnswersOf
<1>2. /\ DOMAIN answers = 1..Len(answers) /\ DOMAIN more = 1..last
      /\ Len(answers) \in Nat
      /\ \A i \in 1..Len(answers) : more[i] = answers[i]
      /\ more[last] = a
    OBVIOUS
<1>3. OwedLines(n) = OwedLines(n - 1) \cup {n}
    <2>1. Owed(n) # <<>>
        OBVIOUS
    <2> QED BY <2>1, OwedNext
<1>4. \A k \in OwedLines(n - 1) : k \in Nat /\ k < n
    BY DEF OwedLines
<1> DEFINE longer == [i \in 1..last |-> IF i = last THEN n ELSE line[i]]
<1>5. longer \in [DOMAIN more -> OwedLines(n)]
    BY <1>1, <1>2, <1>3
<1>6. \A i \in DOMAIN more : Owed(longer[i]) = <<more[i]>>
    BY <1>1, <1>2
<1>7. \A i, j \in DOMAIN more : i < j => longer[i] < longer[j]
    <2> SUFFICES ASSUME NEW i \in 1..last, NEW j \in 1..last, i < j
                 PROVE  longer[i] < longer[j]
        BY <1>2
    <2>1. i \in DOMAIN answers /\ longer[i] = line[i] /\ line[i] \in OwedLines(n - 1)
        BY <1>1, <1>2
    <2>2. CASE j = last
        BY <1>4, <2>1, <2>2
    <2>3. CASE j # last
        BY <1>1, <1>2, <2>1, <2>3
    <2> QED BY <2>2, <2>3
<1>8. \A k \in OwedLines(n) : \E i \in DOMAIN more : longer[i] = k
    <2> SUFFICES ASSUME NEW k \in OwedLines(n)
                 PROVE  \E i \in 1..last : longer[i] = k
        BY <1>2
    <2>1. CASE k = n
        BY <1>2, <2>1
    <2>2. CASE k \in OwedLines(n - 1)
        <3>1. PICK i \in DOMAIN answers : line[i] = k
            BY <1>1, <2>2
        <3> QED BY <1>2, <3>1
    <2> QED BY <1>3, <2>1, <2>2
<1> HIDE DEF longer
<1> QED BY <1>5, <1>6, <1>7, <1>8 DEF AnswersOf

(* A line more at the end changes nothing for the lines before it.         *)
LEMMA EarlierOwed ==
    ASSUME TypeInv,
           \/ UNCHANGED sent
           \/ \E l \in Lines : sent' = Append(sent, l)
    PROVE  /\ \A n \in 1..Len(sent) : Owed(n)' = Owed(n)
           /\ \A n \in 0..Len(sent) : OwedLines(n)' = OwedLines(n)
<1>1. \A n \in 1..Len(sent) : sent'[n] = sent[n]
    BY DEF TypeInv
<1>2. \A n \in 1..Len(sent) : Owed(n)' = Owed(n)
    BY <1>1 DEF Owed
<1>3. \A n \in 0..Len(sent) : OwedLines(n)' = OwedLines(n)
    BY <1>2 DEF OwedLines, TypeInv
<1> QED BY <1>2, <1>3

(* Nor does a step that at most moves an answer along.                     *)
LEMMA AnsweredKept ==
    ASSUME TypeInv,
           \/ UNCHANGED sent
           \/ \E l \in Lines : sent' = Append(sent, l),
           UNCHANGED <<received, stdout>> \/ ClientReads
    PROVE  \A n \in 0..Len(sent) : Answered(n)' <=> Answered(n)
<1>1. (received \o stdout)' = received \o stdout
    <2>1. CASE ClientReads
        <3>1. /\ received \in Seq(Answers) /\ stdout \in Seq(Answers) /\ stdout # <<>>
              /\ received' = Append(received, Head(stdout)) /\ stdout' = Tail(stdout)
            BY <2>1 DEF TypeInv, ClientReads
        <3> QED BY <3>1
    <2> QED BY <2>1
<1> SUFFICES ASSUME NEW n \in 0..Len(sent)
             PROVE  Answered(n)' <=> Answered(n)
    OBVIOUS
<1>2. OwedLines(n)' = OwedLines(n) /\ OwedLines(n) \subseteq 1..Len(sent)
    BY EarlierOwed DEF OwedLines, TypeInv
<1>3. \A k \in OwedLines(n) : Owed(k)' = Owed(k)
    BY <1>2, EarlierOwed
<1> QED BY <1>1, <1>2, <1>3 DEF Answered, AnswersOf

LEMMA AnswersStep ==
    ASSUME \A l \in Lines : l.id # "null", AnswersInv, [Next]_vars
    PROVE  AnswersInv'
<1>1. TypeInv /\ TypeInv' /\ ReadSoFar \in 0..Len(sent)
    BY SessionTypeStep DEF AnswersInv, TypeInv, ReadSoFar
<1>2. ASSUME UNCHANGED <<sent, stdin, loop, answer>>, loop = "eof" => UNCHANGED stdinOpen \/ ~stdinOpen',
             UNCHANGED <<received, stdout>> \/ ClientReads
      PROVE  AnswersInv'
    <2>1. /\ ReadSoFar' = ReadSoFar
          /\ \A n \in 0..Len(sent) : Answered(n)' <=> Answered(n)
          /\ \A n \in 1..Len(sent) : Owed(n)' = Owed(n)
        BY <1>1, <1>2, AnsweredKept, EarlierOwed DEF ReadSoFar
    <2> QED BY <1>1, <1>2, <2>1 DEF AnswersInv
<1>3. ASSUME NEW l \in Lines, ClientWrites(l)
      PROVE  AnswersInv'
    <2>1. /\ UNCHANGED <<received, stdout, loop, answer, stdinOpen>>
          /\ sent' = Append(sent, l) /\ stdin' = stdin + 1 /\ stdinOpen
        BY <1>3 DEF ClientWrites, loopVars
    <2>2. ReadSoFar' = ReadSoFar
        BY <1>1, <2>1 DEF ReadSoFar, TypeInv
    <2>3. /\ \A n \in 0..Len(sent) : Answered(n)' <=> Answered(n)
          /\ \A n \in 1..Len(sent) : Owed(n)' = Owed(n)
        BY <1>1, <2>1, AnsweredKept, EarlierOwed
    <2> QED BY <1>1, <2>1, <2>2, <2>3 DEF AnswersInv
<1>4. CASE ReadLine
    <2> DEFINE n == ReadSoFar + 1
    <2>1. /\ UNCHANGED <<sent, received, stdout, stdinOpen>>
          /\ stdin' = stdin - 1 /\ loop = "read"
          /\ n \in 1..Len(sent) /\ ReadSoFar' = n /\ Line = sent[n]
        BY <1>1, <1>4 DEF ReadLine, clientVars, ReadSoFar, Line, TypeInv
    <2>2. /\ \A k \in 0..Len(sent) : Answered(k)' <=> Answered(k)
          /\ \A k \in 1..Len(sent) : Owed(k)' = Owed(k)
        BY <1>1, <2>1, AnsweredKept, EarlierOwed
    <2>3. Answered(n - 1) /\ n - 1 \in 0..Len(sent)
        BY <1>1, <2>1 DEF AnswersInv
    <2>4. CASE sent[n].text \in {"blank", "binary"}
        <3>1. UNCHANGED <<loop, answer>>
            BY <1>4, <2>1, <2>4 DEF ReadLine, loopVars
        <3>2. Owed(n) = <<>>
            BY <2>4 DEF Owed
        <3>3. Answered(n)
            BY <1>1, <2>1, <2>3, <3>2, OwedNext DEF Answered
        <3> QED BY <1>1, <2>1, <2>2, <3>1, <3>3 DEF AnswersInv
    <2>5. CASE sent[n].text \notin {"blank", "binary"}
        <3>1. loop' = "handle" /\ answer' = HandleMessage(sent[n], n)
            BY <1>4, <2>1, <2>5 DEF ReadLine, ReadSoFar
        <3>2. /\ answer' = Nothing => Owed(n) = <<>>
              /\ answer' # Nothing => Owed(n) = <<answer'>>
            BY <1>1, <2>1, <2>5, <3>1, HandledAsOwed DEF TypeInv
        <3>3. Nothing' = Nothing
            BY DEF Nothing, NoId
        <3> QED BY <1>1, <2>1, <2>2, <2>3, <3>1, <3>2, <3>3 DEF AnswersInv
    <2> QED BY <2>4, <2>5
<1>5. CASE ReadEof
    <2>1. /\ UNCHANGED <<sent, stdin, received, stdout, stdinOpen>>
          /\ stdin = 0 /\ ~stdinOpen /\ loop = "read" /\ loop' = "eof"
        BY <1>5 DEF ReadEof, clientVars, pipeVars
    <2>2. /\ ReadSoFar' = ReadSoFar
          /\ \A n \in 0..Len(sent) : Answered(n)' <=> Answered(n)
        BY <1>1, <2>1, AnsweredKept DEF ReadSoFar
    <2> QED BY <1>1, <2>1, <2>2 DEF AnswersInv
<1>6. CASE Handled
    <2>1. /\ UNCHANGED <<sent, stdin, received, stdout, answer>>
          /\ loop = "handle" /\ loop' = IF answer = Nothing THEN "read" ELSE "write"
        BY <1>6 DEF Handled, clientVars, pipeVars
    <2>2. /\ ReadSoFar' = ReadSoFar
          /\ \A n \in 0..Len(sent) : Answered(n)' <=> Answered(n)
          /\ \A n \in 1..Len(sent) : Owed(n)' = Owed(n)
        BY <1>1, <2>1, AnsweredKept, EarlierOwed DEF ReadSoFar
    <2>3. answer = Nothing => Answered(ReadSoFar)
        BY <1>1, <2>1, OwedNext DEF AnswersInv, Answered
    <2> QED BY <1>1, <2>1, <2>2, <2>3 DEF AnswersInv
<1>7. CASE WriteAnswer
    <2>1. /\ UNCHANGED <<sent, stdin, received>> /\ loop = "write" /\ loop' = "read"
          /\ stdout' = Append(stdout, answer) /\ ReadSoFar' = ReadSoFar
        BY <1>7 DEF WriteAnswer, clientVars, ReadSoFar
    <2>2. PICK n \in 1..Len(sent) : n = ReadSoFar
        BY <1>1, <2>1 DEF AnswersInv, TypeInv
    <2>3. AnswersOf(received \o stdout, OwedLines(n - 1)) /\ Owed(n) = <<answer>>
        BY <1>1, <2>1, <2>2 DEF AnswersInv, Answered
    <2>4. (received \o stdout)' = Append(received \o stdout, answer)
        BY <1>1, <2>1 DEF TypeInv
    <2>5. received \o stdout \in Seq(Answers) /\ answer \in Answers
        BY <1>1 DEF TypeInv
    <2>6. AnswersOf(Append(received \o stdout, answer), OwedLines(n))
        <3>1. n \in Nat \ {0}
            BY <1>1 DEF TypeInv
        <3> QED BY <2>3, <2>5, <3>1, AnswerOfNext
    <2>7. /\ OwedLines(n)' = OwedLines(n)
          /\ \A k \in OwedLines(n) : Owed(k)' = Owed(k)
        BY <1>1, <2>1, EarlierOwed DEF OwedLines, TypeInv
    <2>8. Answered(n)'
        BY <2>4, <2>6, <2>7 DEF Answered, AnswersOf
    <2> QED BY <1>1, <2>1, <2>2, <2>8 DEF AnswersInv
<1>8. CASE WriteFindsNobody \/ ReadFails \/ HandlerPanics \/ WriteFails
    <2>1. /\ UNCHANGED <<sent, stdin, received, stdout>>
          /\ loop' \in {"gone", "error", "panicked"}
        BY <1>8 DEF WriteFindsNobody, ReadFails, HandlerPanics, WriteFails, clientVars,
                    pipeVars
    <2>2. /\ ReadSoFar' = ReadSoFar
          /\ \A n \in 0..Len(sent) : Answered(n)' <=> Answered(n)
        BY <1>1, <2>1, AnsweredKept DEF ReadSoFar
    <2> QED BY <1>1, <2>1, <2>2 DEF AnswersInv
<1>9. CASE \/ ClientEndsInput \/ ClientReads \/ ClientLeaves \/ Signal \/ Main
           \/ UNCHANGED vars
    BY <1>2, <1>9
    DEF ClientEndsInput, ClientReads, ClientLeaves, Signal, Main, SeeLoopEnd, SeeSignal,
        Return, Exit, clientVars, pipeVars, loopVars, vars
<1> QED BY <1>3, <1>4, <1>5, <1>6, <1>7, <1>8, <1>9 DEF Next, Loop

(* The client gets the answers its lines are owed, each once, in the order *)
(* of the lines, whatever fails and however the pipes fill up.  A request  *)
(* whose id is null is left out: its answer has no id at all, which        *)
(* JSON-RPC does not know.                                                 *)
THEOREM AnswersAreOwed ==
    ASSUME \A l \in Lines : l.id # "null"
    PROVE  Spec => []AnswersMatchLines
<1>1. Init => AnswersInv
    <2> SUFFICES ASSUME Init PROVE AnswersInv
        OBVIOUS
    <2>1. received \o stdout = <<>> /\ ReadSoFar = 0
        BY DEF Init, ReadSoFar
    <2>2. Answered(0)
        BY <2>1, NoAnswers DEF Answered
    <2>3. TypeInv
        BY DEF Init, TypeInv, Nothing, NoId, Answers
    <2> QED BY <2>1, <2>2, <2>3 DEF Init, AnswersInv
<1>2. AnswersInv /\ [Next]_vars => AnswersInv'
    BY AnswersStep
<1>3. AnswersInv => AnswersMatchLines
    BY DEF AnswersInv, AnswersMatchLines, Answered, ReadSoFar, TypeInv
<1> QED BY <1>1, <1>2, <1>3, PTL DEF Spec
=============================================================================
