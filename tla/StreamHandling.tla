--------------------------- MODULE StreamHandling ---------------------------
(***************************************************************************)
(* How the chunks of an upstream stream reach the client of the API.  A    *)
(* producer goroutine reads the stream, takes a preset prompt out of it,   *)
(* starts it again while nothing was sent, and passes chunks on over a     *)
(* channel without a buffer and a last error over another with room for    *)
(* one.  The handler waits for the first chunk to choose the status of its *)
(* answer, then forwards; handlers of completions have a goroutine that    *)
(* converts chunks in between.  Each of them selects over the channels and *)
(* the context of the client or of the call.  One stream is modelled:      *)
(* streams share nothing.                                                  *)
(***************************************************************************)
EXTENDS Integers, Sequences, SequencesExt, FiniteSets

CONSTANTS BootstrapRetries,  \* StreamingBootstrapRetries
          MaxFrames          \* bound: chunks of a stream

ASSUME StreamHandlingAssumption == BootstrapRetries \in Nat /\ MaxFrames \in Nat

VARIABLES dialect,     \* what the handler of this API does
          redacting,   \* whether there is a preset prompt to take out
          upstream,    \* the chunks the stream delivered, and how it ended
          producer,    \* the goroutine of ExecuteStreamWithAuthManager
          redactor,    \* presetPromptStreamRedactor.buffer
          reported,    \* whether errChan holds an error
          dataChan,
          converter,   \* the goroutine of handleCompletionsStreamingResponse
          handler,
          written,     \* the chunks the handler wrote
          outcome,     \* how it ended its answer
          clientGone,  \* the context of the client's request is done
          callGone     \* the context of the call is done

channelVars == <<reported, dataChan>>
clientVars == <<handler, written, outcome, clientGone, callGone>>
streamVars == <<dialect, redacting, upstream, producer, redactor, channelVars, converter,
                clientVars>>

\* The handlers: chat completions, Claude and Gemini; completions; Responses;
\* Gemini CLI, which does not wait for the first chunk.
Dialects ==
    {[peeks |-> TRUE, converts |-> FALSE, validates |-> FALSE],
     [peeks |-> TRUE, converts |-> TRUE, validates |-> FALSE],
     [peeks |-> TRUE, converts |-> FALSE, validates |-> TRUE],
     [peeks |-> FALSE, converts |-> FALSE, validates |-> FALSE]}

Reading == [pc |-> "read", chunks |-> <<>>, next |-> "read", sent |-> FALSE, retries |-> 0]

Fresh == [got |-> 0, end |-> "open"]

-----------------------------------------------------------------------------
(* The call, in the goroutine of the handler. *)

Arrive ==
    /\ handler = "idle" /\ handler' = "call"
    /\ UNCHANGED <<dialect, redacting, upstream, producer, redactor, channelVars, converter,
                   written, outcome, clientGone, callGone>>

Waits == IF dialect.peeks THEN "peek" ELSE "forward"

\* A stream, or an error and no stream at all.
CallReturns ==
    /\ handler = "call" /\ handler' = Waits
    /\ \/ /\ producer' = Reading /\ dataChan' = "open"
          /\ UNCHANGED <<reported, upstream>>
       \/ /\ reported' = TRUE /\ upstream' = [upstream EXCEPT !.end = "error"]
          /\ UNCHANGED <<producer, dataChan>>
    /\ UNCHANGED <<dialect, redacting, redactor, converter, written, outcome, clientGone,
                   callGone>>

-----------------------------------------------------------------------------
(* The producer. *)

ProducerMoves(p) ==
    /\ producer' = p
    /\ UNCHANGED <<dialect, redacting, converter, clientVars>>

\* Chunks to pass on before what is next, if there are any.
Passing(chunks, next) ==
    IF chunks = <<>> THEN [producer EXCEPT !.pc = next]
    ELSE [producer EXCEPT !.pc = "send", !.chunks = chunks, !.next = next]

\* A redactor keeps what is no complete event yet.
ReadChunk(whole) ==
    /\ producer.pc = "read" /\ upstream.got < MaxFrames
    /\ LET chunks == Append(redactor, upstream.got + 1) IN
       /\ upstream' = [upstream EXCEPT !.got = @ + 1]
       /\ redactor' = IF redacting /\ ~whole THEN chunks ELSE <<>>
       /\ ProducerMoves([Passing(IF redacting /\ ~whole THEN <<>> ELSE chunks, "read")
                           EXCEPT !.sent = TRUE])
    /\ UNCHANGED channelVars

\* validateSSEDataJSON; what the redactor holds is lost.
ReadInvalid ==
    /\ producer.pc = "read" /\ dialect.validates
    /\ upstream' = [upstream EXCEPT !.end = "error"]
    /\ ProducerMoves([producer EXCEPT !.pc = "report"])
    /\ UNCHANGED <<redactor, channelVars>>

\* The stream ends: what the redactor holds goes first.
ReadEnd(end) ==
    /\ producer.pc = "read"
    /\ upstream' = [upstream EXCEPT !.end = end]
    /\ redactor' = <<>>
    /\ ProducerMoves(Passing(redactor, IF end = "ok" THEN "close" ELSE "fail"))
    /\ UNCHANGED channelVars

\* While nothing was passed on the stream may be started again, by a call that may
\* fail; an error that does not make a retry worth while is reported.
StreamFails ==
    /\ producer.pc = "fail"
    /\ \/ /\ ~producer.sent /\ producer.retries < BootstrapRetries
          /\ ProducerMoves([producer EXCEPT !.pc = "retry", !.retries = @ + 1])
       \/ ProducerMoves([producer EXCEPT !.pc = "report"])
    /\ UNCHANGED <<upstream, redactor, channelVars>>

RetryReturns ==
    /\ producer.pc = "retry"
    /\ \/ ProducerMoves([producer EXCEPT !.pc = "read"]) /\ upstream' = Fresh
       \/ ProducerMoves([producer EXCEPT !.pc = "report"]) /\ UNCHANGED upstream
    /\ UNCHANGED <<redactor, channelVars>>

\* sendErr
Report ==
    /\ producer.pc = "report"
    /\ reported' \in IF callGone THEN {FALSE, TRUE} ELSE {TRUE}
    /\ ProducerMoves([producer EXCEPT !.pc = "close"])
    /\ UNCHANGED <<upstream, redactor, dataChan>>

\* The context of the call is done: while reading, or in sendData.
Abandon ==
    /\ callGone /\ producer.pc \in {"read", "send"}
    /\ ProducerMoves([producer EXCEPT !.pc = "close"])
    /\ UNCHANGED <<upstream, redactor, channelVars>>

\* errChan is closed first, which takes nothing out of it, then dataChan.
Close ==
    /\ producer.pc = "close" /\ dataChan' = "closed"
    /\ ProducerMoves([producer EXCEPT !.pc = "done"])
    /\ UNCHANGED <<upstream, redactor, reported>>

\* The producer meets whoever receives from dataChan.
Passed == producer' = [producer EXCEPT !.pc = producer.next, !.chunks = <<>>]

-----------------------------------------------------------------------------
(* The converter. *)

ConverterMoves(c) ==
    /\ converter' = c
    /\ UNCHANGED <<dialect, redacting, upstream, redactor, channelVars>>

Idle == [pc |-> "none", chunks |-> <<>>]

ConverterTakes ==
    /\ converter.pc = "take" /\ producer.pc = "send"
    /\ ConverterMoves([pc |-> "give", chunks |-> producer.chunks]) /\ Passed
    /\ UNCHANGED clientVars

ConverterEnds ==
    /\ converter.pc = "take" /\ dataChan = "closed"
    /\ ConverterMoves([converter EXCEPT !.pc = "ended"])
    /\ UNCHANGED <<producer, clientVars>>

\* Mutant: nobody tells it that the handler has ended.
MutantConverterStops ==
    /\ converter.pc = "take" /\ callGone
    /\ ConverterMoves([converter EXCEPT !.pc = "ended"])
    /\ UNCHANGED <<producer, clientVars>>

\* done is closed by the cancel function the handler calls.
ConverterStops ==
    /\ converter.pc \in {"take", "give"} /\ handler = "ended"
    /\ ConverterMoves([converter EXCEPT !.pc = "ended"])
    /\ UNCHANGED <<producer, clientVars>>

-----------------------------------------------------------------------------
(* The handler. *)

\* The end of an answer: cliCancel.
EndAnswer(how) ==
    /\ handler' = "ended" /\ outcome' = how /\ callGone' = TRUE
    /\ UNCHANGED <<dialect, redacting, upstream, producer, redactor, channelVars, converter,
                   written, clientGone>>

Writes(chunks) ==
    /\ written' = written \o chunks
    /\ handler' = "forward"
    /\ UNCHANGED <<dialect, redacting, upstream, redactor, channelVars, outcome, clientGone,
                   callGone>>

\* The first chunk fixes the status of the answer.
PeekChunk ==
    /\ handler = "peek" /\ producer.pc = "send"
    /\ Passed /\ Writes(producer.chunks)
    /\ converter' = IF dialect.converts THEN [Idle EXCEPT !.pc = "take"] ELSE Idle

\* The status and the body of an error.
PeekError == handler = "peek" /\ reported /\ EndAnswer("error")

\* No chunk at all: an answer without content.  Errors are not looked for.
PeekClosed == handler = "peek" /\ dataChan = "closed" /\ EndAnswer("done")

\* ForwardStream
ForwardChunk ==
    /\ handler = "forward"
    /\ IF dialect.converts
         THEN /\ converter.pc = "give" /\ converter' = [Idle EXCEPT !.pc = "take"]
              /\ Writes(converter.chunks) /\ UNCHANGED producer
         ELSE /\ producer.pc = "send" /\ Passed
              /\ Writes(producer.chunks) /\ UNCHANGED converter

ForwardError == handler = "forward" /\ reported /\ EndAnswer("error")

SourceClosed == IF dialect.converts THEN converter.pc = "ended" ELSE dataChan = "closed"

\* Mutant: an error that is there is not looked for.
MutantForwardClosed == handler = "forward" /\ SourceClosed /\ EndAnswer("done")

\* An error that is pending comes before the end.
ForwardClosed ==
    handler = "forward" /\ SourceClosed /\ EndAnswer(IF reported THEN "error" ELSE "done")

\* The client has left.
SeesClientGone == handler \in {"peek", "forward"} /\ clientGone /\ EndAnswer("left")

ClientLeaves ==
    /\ handler \notin {"idle", "ended"} /\ ~clientGone /\ clientGone' = TRUE
    /\ UNCHANGED <<dialect, redacting, upstream, producer, redactor, channelVars, converter,
                   handler, written, outcome, callGone>>

\* The goroutine of GetContextWithCancel.
CancelFollows ==
    /\ clientGone /\ ~callGone /\ callGone' = TRUE
    /\ UNCHANGED <<dialect, redacting, upstream, producer, redactor, channelVars, converter,
                   handler, written, outcome, clientGone>>

-----------------------------------------------------------------------------
(* The specification. *)

StreamInit ==
    /\ dialect \in Dialects /\ redacting \in BOOLEAN
    /\ upstream = Fresh
    /\ producer = [Reading EXCEPT !.pc = "none"] /\ redactor = <<>>
    /\ reported = FALSE /\ dataChan = "none"
    /\ converter = Idle
    /\ handler = "idle" /\ written = <<>> /\ outcome = "none"
    /\ clientGone = FALSE /\ callGone = FALSE

ProducerStep == StreamFails \/ RetryReturns \/ Report \/ Abandon \/ Close
ConverterStep == ConverterTakes \/ ConverterEnds \/ ConverterStops
HandlerStep ==
    \/ PeekChunk \/ PeekError \/ PeekClosed
    \/ ForwardChunk \/ ForwardError \/ ForwardClosed \/ SeesClientGone

\* What the upstream and the client decide.
StreamEvent ==
    \/ Arrive \/ ClientLeaves
    \/ \E whole \in BOOLEAN : ReadChunk(whole)
    \/ ReadInvalid
    \/ \E end \in {"ok", "error"} : ReadEnd(end)

StreamNext == CallReturns \/ ProducerStep \/ ConverterStep \/ HandlerStep \/ CancelFollows
              \/ StreamEvent

\* Every goroutine goes on, calls return; nothing is assumed of the stream.
StreamFairness ==
    /\ WF_streamVars(CallReturns) /\ WF_streamVars(CancelFollows)
    /\ WF_streamVars(ProducerStep) /\ WF_streamVars(ConverterStep)
    /\ WF_streamVars(HandlerStep)

StreamSpec == StreamInit /\ [][StreamNext]_streamVars /\ StreamFairness

-----------------------------------------------------------------------------
(* Properties. *)

AllChunks == [i \in 1 .. upstream.got |-> i]

\* What the client of an ended answer is told is what became of the stream: an
\* answer that ends well has every chunk in order and the stream ended well; one that
\* ends in an error has them up to those the converter or the redactor was left with.  The
\* case of EarlyErrorIsReported is left out.
AnswerTellsTheEnd ==
    handler = "ended" /\ ~clientGone =>
        \/ outcome = "done" /\ upstream.end = "ok" /\ written = AllChunks
        \/ /\ outcome = "error" /\ upstream.end = "error"
           /\ written \o converter.chunks \o redactor = AllChunks
        \/ outcome = "done" /\ upstream.end = "error" /\ dialect.peeks /\ written = <<>>

\* openai_handlers.go:488: a stream that fails before its first chunk is answered by
\* an error.
EarlyErrorIsReported ==
    handler = "ended" /\ ~clientGone /\ upstream.end = "error" /\ written = <<>>
        => outcome = "error"

StreamIsOver ==
    /\ handler = "ended" /\ producer.pc \in {"none", "done"}
    /\ converter.pc \in {"none", "ended"}

\* Once the client has left, the stream has ended or its error is to be told, the
\* handler ends its answer and no goroutine stays behind, whoever is in the middle
\* of handing over what to whom.
NothingStaysBehind ==
    (clientGone \/ upstream.end = "ok" \/ producer.pc = "report") ~> StreamIsOver
=============================================================================
