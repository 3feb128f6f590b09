------------------------ MODULE StreamHandlingProofs ------------------------
(***************************************************************************)
(* What the client of a stream is told is what became of it: for streams   *)
(* of any length, any number of retries before the first chunk and every   *)
(* dialect, redactor and time at which the client may leave.               *)
(* Then the connections of the websocket executor: none is left open that  *)
(* nothing will close, a channel is closed by the reader of its own        *)
(* request's connection, and a request is given the events of another only *)
(* where one before it was let go in the middle of its response.           *)
(***************************************************************************)
EXTENDS StreamHandling, CodexWebsockets, SequenceTheorems, FiniteSetTheorems,
        WellFoundedInduction, TLAPS

UpstreamRec == [got : Nat, end : {"open", "ok", "error"}]

ProducerRec ==
    [pc : {"none", "read", "send", "fail", "retry", "report", "close", "done"},
     chunks : Seq(Nat), next : {"read", "fail", "close"}, sent : BOOLEAN, retries : Nat]

ConverterRec == [pc : {"none", "take", "give", "ended"}, chunks : Seq(Nat)]

StreamTypeOK ==
    /\ dialect \in Dialects /\ redacting \in BOOLEAN
    /\ upstream \in UpstreamRec
    /\ producer \in ProducerRec /\ redactor \in Seq(Nat)
    /\ reported \in BOOLEAN /\ dataChan \in {"none", "open", "closed"}
    /\ converter \in ConverterRec
    /\ handler \in {"idle", "call", "peek", "forward", "ended"}
    /\ written \in Seq(Nat)
    /\ clientGone \in BOOLEAN /\ callGone \in BOOLEAN

\* Every chunk is written, or with the converter, the producer or the redactor, in
\* this order.
Chain(w, c, p, r) == w \o (c \o (p \o r))
NothingLost == Chain(written, converter.chunks, producer.chunks, redactor) = AllChunks

\* How far a stream is when its handler has not begun to forward.
HandlerOK ==
    /\ handler \in {"idle", "call"} =>
          upstream = Fresh /\ producer.pc = "none" /\ ~reported
    /\ handler \in {"idle", "call", "peek"} => written = <<>> /\ converter = Idle
    /\ handler = "peek" => dialect.peeks
    /\ ~dialect.converts => converter = Idle
    /\ callGone => clientGone \/ handler = "ended"
    /\ handler = "ended" /\ ~clientGone => producer.pc \in {"none", "close", "done"}

\* The end of the stream goes with what the producer will do next.
ProducerOK ==
    /\ producer.pc \in {"none", "read", "fail", "retry", "report"} => producer.chunks = <<>>
    /\ producer.pc = "read" => upstream.end = "open"
    /\ producer.pc = "send" =>
          \/ producer.next = "read" /\ upstream.end = "open"
          \/ producer.next = "fail" /\ upstream.end = "error" /\ redactor = <<>>
          \/ producer.next = "close" /\ upstream.end = "ok" /\ redactor = <<>>
    /\ producer.pc \in {"fail", "retry"} => upstream.end = "error" /\ redactor = <<>>
    /\ producer.pc = "retry" => ~producer.sent
    /\ producer.pc = "report" => upstream.end = "error"
    /\ ~producer.sent => upstream.got = 0

\* A call that was not given up closes its channels with an error, or after the
\* last chunk.
ChannelsOK ==
    /\ dataChan = "closed" => producer.pc = "done"
    /\ producer.pc \in {"close", "done"} /\ ~callGone =>
          /\ producer.chunks = <<>>
          /\ \/ upstream.end = "error" /\ reported
             \/ upstream.end = "ok" /\ ~reported /\ redactor = <<>>
    /\ reported =>
          /\ upstream.end = "error" /\ producer.chunks = <<>>
          /\ producer.pc \in {"none", "close", "done"}

ConverterOK ==
    /\ converter.pc \in {"none", "take"} => converter.chunks = <<>>
    /\ converter.pc = "ended" /\ handler # "ended" =>
          converter.chunks = <<>> /\ dataChan = "closed"

StreamInv ==
    /\ StreamTypeOK /\ NothingLost
    /\ HandlerOK /\ ProducerOK /\ ChannelsOK /\ ConverterOK
    /\ AnswerTellsTheEnd

-----------------------------------------------------------------------------
(* Chunks on their way. *)

LEMMA ChainAssociates ==
    /\ \A x, y \in Seq(Nat) : x \o y \in Seq(Nat)
    /\ \A x, y, z \in Seq(Nat) : (x \o y) \o z = x \o (y \o z)
    /\ \A x \in Seq(Nat) : <<>> \o x = x /\ x \o <<>> = x
  <1>1. \A x, y \in Seq(Nat) : x \o y \in Seq(Nat)
    BY ConcatProperties
  <1>2. ASSUME NEW x \in Seq(Nat), NEW y \in Seq(Nat), NEW z \in Seq(Nat)
        PROVE  (x \o y) \o z = x \o (y \o z)
    OBVIOUS
  <1>3. \A x \in Seq(Nat) : <<>> \o x = x /\ x \o <<>> = x
    BY ConcatEmptySeq
  <1> QED
    BY <1>1, <1>2, <1>3

\* Whoever hands chunks on hands all it has to somebody with none.
LEMMA ChainHands ==
    ASSUME NEW w \in Seq(Nat), NEW x \in Seq(Nat), NEW r \in Seq(Nat)
    PROVE  /\ Chain(w, <<>>, x, r) = Chain(w, x, <<>>, r)
           /\ Chain(w, x, <<>>, r) = Chain(w, x, r, <<>>)
           /\ Chain(w, x, <<>>, r) = (w \o x) \o r
  <1>1. w \o (x \o r) = (w \o x) \o r /\ x \o r \in Seq(Nat)
    BY ChainAssociates
  <1>2. <<>> \o r = r /\ r \o <<>> = r /\ <<>> \o (x \o r) = x \o r
    BY <1>1, ChainAssociates
  <1> QED
    BY <1>1, <1>2 DEF Chain

LEMMA ChainWrites ==
    ASSUME NEW w \in Seq(Nat), NEW c \in Seq(Nat), NEW p \in Seq(Nat), NEW r \in Seq(Nat)
    PROVE  Chain(w, c, p, r) = Chain(w \o c, <<>>, p, r)
  <1>1. p \o r \in Seq(Nat)
    BY ChainAssociates
  <1>2. w \o (c \o (p \o r)) = (w \o c) \o (p \o r)
    BY <1>1, ChainAssociates
  <1>3. <<>> \o (p \o r) = p \o r
    BY <1>1, ChainAssociates
  <1> QED
    BY <1>2, <1>3 DEF Chain

LEMMA ChainSplits ==
    ASSUME NEW w \in Seq(Nat), NEW c \in Seq(Nat), NEW t \in Seq(Nat)
    PROVE  Chain(w, c, <<>>, t) = Chain(w, c, t, <<>>)
  <1>1. <<>> \o t = t /\ t \o <<>> = t
    BY ChainAssociates
  <1> QED
    BY <1>1 DEF Chain

LEMMA ChainEmpty ==
    ASSUME NEW w \in Seq(Nat), NEW c \in Seq(Nat), NEW p \in Seq(Nat), NEW r \in Seq(Nat),
           Chain(w, c, p, r) = <<>>
    PROVE  w = <<>> /\ c = <<>> /\ p = <<>> /\ r = <<>>
  <1>1. \A x, y \in Seq(Nat) : x \o y = <<>> => x = <<>> /\ y = <<>>
    BY ConcatSimplifications
  <1>2. p \o r \in Seq(Nat) /\ c \o (p \o r) \in Seq(Nat)
    BY ConcatProperties
  <1> QED
    BY <1>1, <1>2 DEF Chain

LEMMA ChainMoves ==
    ASSUME NEW w \in Seq(Nat), NEW x \in Seq(Nat), NEW r \in Seq(Nat)
    PROVE  /\ Chain(w, <<>>, x, r) = Chain(w \o x, <<>>, <<>>, r)
           /\ w = <<>> => Chain(w, <<>>, x, r) = Chain(x, <<>>, <<>>, r)
  <1>1. Chain(w, <<>>, x, r) = Chain(w, x, <<>>, r)
    BY ChainHands
  <1>2. Chain(w, x, <<>>, r) = Chain(w \o x, <<>>, <<>>, r)
    <2>1. <<>> \o r = r /\ w \o (x \o r) = (w \o x) \o r
      BY ChainAssociates
    <2> QED
      BY <2>1 DEF Chain
  <1>3. <<>> \o x = x
    BY ChainAssociates
  <1> QED
    BY <1>1, <1>2, <1>3

LEMMA ChainJoins ==
    ASSUME NEW w \in Seq(Nat), NEW c \in Seq(Nat)
    PROVE  \A y \in Seq(Nat) : /\ Chain(w, c, <<>>, y) = (w \o c) \o y
                               /\ Chain(w, c, y, <<>>) = (w \o c) \o y
  <1> SUFFICES ASSUME NEW y \in Seq(Nat)
               PROVE  /\ Chain(w, c, <<>>, y) = (w \o c) \o y
                      /\ Chain(w, c, y, <<>>) = (w \o c) \o y
    OBVIOUS
  <1>1. Chain(w, c, <<>>, y) = (w \o c) \o y
    BY ChainHands
  <1>2. Chain(w, c, <<>>, y) = Chain(w, c, y, <<>>)
    BY ChainSplits
  <1> QED
    BY <1>1, <1>2

LEMMA ConcatAppends ==
    ASSUME NEW x \in Seq(Nat), NEW y \in Seq(Nat), NEW e \in Nat
    PROVE  x \o Append(y, e) = Append(x \o y, e)
  OBVIOUS

UpTo(n) == [i \in 1 .. n |-> i]

\* The chunks of the stream are in order, and one more is at the end.
LEMMA ChainGrows ==
    ASSUME NEW n \in Nat, NEW w \in Seq(Nat), NEW c \in Seq(Nat), NEW r \in Seq(Nat),
           Chain(w, c, <<>>, r) = UpTo(n)
    PROVE  /\ Chain(w, c, <<>>, Append(r, n + 1)) = UpTo(n + 1)
           /\ Chain(w, c, Append(r, n + 1), <<>>) = UpTo(n + 1)
  <1> DEFINE s == (w \o c) \o r
             t == Append(r, n + 1)
  <1>1. s \in Seq(Nat) /\ w \o c \in Seq(Nat) /\ t \in Seq(Nat)
    BY ConcatProperties
  <1>2. s = [i \in 1 .. n |-> i]
    BY ChainHands DEF UpTo
  <1>3. (w \o c) \o t = Append(s, n + 1)
    <2> DEFINE m == n + 1
    <2>1. m \in Nat
      OBVIOUS
    <2> HIDE DEF m
    <2>2. \A x \in Seq(Nat) : x \o Append(r, m) = Append(x \o r, m)
      BY <2>1, ConcatAppends, Zenon
    <2> QED
      BY <1>1, <2>2, Zenon DEF m
  <1>4. Append(s, n + 1) = [i \in 1 .. n + 1 |-> i]
    <2>1. Len(s) = n
      BY <1>1, <1>2
    <2> QED
      BY <1>1, <1>2, <2>1
  <1> HIDE DEF s, t
  <1>5. Chain(w, c, <<>>, t) = (w \o c) \o t /\ Chain(w, c, t, <<>>) = (w \o c) \o t
    BY <1>1, ChainJoins, Zenon
  <1>6. Append(s, n + 1) = UpTo(n + 1)
    BY <1>4, Zenon DEF UpTo
  <1>7. Chain(w, c, <<>>, t) = UpTo(n + 1) /\ Chain(w, c, t, <<>>) = UpTo(n + 1)
    BY <1>3, <1>5, <1>6, Zenon
  <1> QED
    BY <1>7 DEF t

-----------------------------------------------------------------------------
(* Types of what the actions assign. *)

ProducerPc == {"none", "read", "send", "fail", "retry", "report", "close", "done"}

\* A producer in another place is one.
LEMMA ProducerGoes ==
    ASSUME NEW p \in ProducerRec, NEW q \in ProducerPc
    PROVE  /\ [p EXCEPT !.pc = q] \in ProducerRec
           /\ [p EXCEPT !.pc = q].pc = q
           /\ [p EXCEPT !.pc = q].chunks = p.chunks
           /\ [p EXCEPT !.pc = q].next = p.next
           /\ [p EXCEPT !.pc = q].sent = p.sent
  BY DEF ProducerRec, ProducerPc

LEMMA NoChunks == <<>> \in Seq(Nat)
  OBVIOUS

LEMMA ProducerRetries ==
    ASSUME NEW p \in ProducerRec, NEW q, q = [p EXCEPT !.pc = "retry", !.retries = @ + 1]
    PROVE  /\ q \in ProducerRec /\ q.pc = "retry" /\ q.chunks = p.chunks
           /\ q.sent = p.sent
  <1>1. p.retries + 1 \in Nat
    BY DEF ProducerRec
  <1>2. q = [p EXCEPT !.pc = "retry", !.retries = p.retries + 1]
    OBVIOUS
  <1> QED
    BY <1>1, <1>2 DEF ProducerRec

\* With chunks to pass on or without.
LEMMA ProducerPasses ==
    ASSUME StreamTypeOK, NEW cs \in Seq(Nat), NEW n \in {"read", "fail", "close"}
    PROVE  LET q == Passing(cs, n)
           IN  /\ q \in ProducerRec /\ q.sent = producer.sent
               /\ cs = <<>> => q.pc = n /\ q.chunks = producer.chunks
               /\ cs # <<>> => q.pc = "send" /\ q.chunks = cs /\ q.next = n
  <1>1. CASE cs = <<>>
    BY <1>1 DEF StreamTypeOK, ProducerRec, Passing
  <1>2. CASE cs # <<>>
    BY <1>2 DEF StreamTypeOK, ProducerRec, Passing
  <1> QED
    BY <1>1, <1>2

LEMMA ChunksAreSequences ==
    ASSUME StreamTypeOK
    PROVE  /\ written \in Seq(Nat) /\ converter.chunks \in Seq(Nat)
           /\ producer.chunks \in Seq(Nat) /\ redactor \in Seq(Nat)
           /\ upstream.got \in Nat
  BY DEF StreamTypeOK, ConverterRec, ProducerRec, UpstreamRec

\* With nothing at the producer the rest is with the converter and the redactor.
LEMMA ChunksBehind ==
    ASSUME StreamTypeOK, NothingLost, producer.chunks = <<>>
    PROVE  (written \o converter.chunks) \o redactor = AllChunks
  <1>1. Chain(written, converter.chunks, <<>>, redactor) = AllChunks
    BY DEF NothingLost
  <1> QED
    BY <1>1, ChunksAreSequences, ChainHands

LEMMA ProducerPassed ==
    ASSUME StreamTypeOK, Passed
    PROVE  /\ producer' \in ProducerRec /\ producer'.pc = producer.next
           /\ producer'.chunks = <<>> /\ producer'.next = producer.next
           /\ producer'.sent = producer.sent
  BY NoChunks DEF StreamTypeOK, ProducerRec, Passed

-----------------------------------------------------------------------------
(* The producer. *)

LEMMA ReadInvalidKeeps ==
    ASSUME StreamInv, ReadInvalid
    PROVE  StreamInv'
  <1> USE DEF StreamInv, StreamTypeOK, ProducerRec, UpstreamRec, ConverterRec,
          ProducerMoves, clientVars, channelVars, ReadInvalid
  <1>1. StreamTypeOK'
    OBVIOUS
  <1>2. NothingLost'
    BY DEF NothingLost, AllChunks
  <1>3. (HandlerOK /\ ProducerOK /\ ChannelsOK /\ ConverterOK)'
    BY DEF HandlerOK, ProducerOK, ChannelsOK, ConverterOK
  <1>4. AnswerTellsTheEnd'
    BY DEF HandlerOK, AnswerTellsTheEnd, AllChunks
  <1> QED
    BY <1>1, <1>2, <1>3, <1>4

LEMMA StreamFailsKeeps ==
    ASSUME StreamInv, StreamFails
    PROVE  StreamInv'
  <1>1. /\ producer.pc = "fail" /\ producer' \in ProducerRec
        /\ producer'.chunks = producer.chunks /\ producer'.sent = producer.sent
        /\ \/ producer'.pc = "retry" /\ ~producer.sent
           \/ producer'.pc = "report"
    <2>1. producer \in ProducerRec /\ producer.pc = "fail" /\ {"retry", "report"} \subseteq ProducerPc
      BY DEF StreamInv, StreamTypeOK, StreamFails, ProducerPc
    <2>2. CASE /\ ~producer.sent
               /\ producer' = [producer EXCEPT !.pc = "retry", !.retries = @ + 1]
      BY <2>1, <2>2, ProducerRetries
    <2>3. CASE producer' = [producer EXCEPT !.pc = "report"]
      BY <2>1, <2>3, ProducerGoes
    <2> QED
      BY <2>2, <2>3 DEF StreamFails, ProducerMoves
  <1> USE DEF StreamInv, StreamFails, ProducerMoves, clientVars, channelVars
  <1>2. StreamTypeOK'
    BY <1>1 DEF StreamTypeOK
  <1>3. NothingLost'
    BY <1>1 DEF NothingLost, AllChunks
  <1>4. (HandlerOK /\ ProducerOK /\ ChannelsOK /\ ConverterOK)'
    BY <1>1 DEF HandlerOK, ProducerOK, ChannelsOK, ConverterOK
  <1>5. AnswerTellsTheEnd'
    BY DEF AnswerTellsTheEnd, AllChunks
  <1> QED
    BY <1>2, <1>3, <1>4, <1>5

LEMMA RetryReturnsKeeps ==
    ASSUME StreamInv, RetryReturns
    PROVE  StreamInv'
  <1>1. /\ producer.pc = "retry" /\ producer' \in ProducerRec
        /\ producer'.chunks = producer.chunks /\ producer'.sent = producer.sent
        /\ \/ producer'.pc = "read" /\ upstream' = Fresh
           \/ producer'.pc = "report" /\ upstream' = upstream
    <2>1. producer \in ProducerRec /\ producer.pc = "retry" /\ {"read", "report"} \subseteq ProducerPc
      BY DEF StreamInv, StreamTypeOK, RetryReturns, ProducerPc
    <2>2. CASE producer' = [producer EXCEPT !.pc = "read"] /\ upstream' = Fresh
      BY <2>1, <2>2, ProducerGoes
    <2>3. CASE producer' = [producer EXCEPT !.pc = "report"] /\ upstream' = upstream
      BY <2>1, <2>3, ProducerGoes
    <2> QED
      BY <2>2, <2>3 DEF RetryReturns, ProducerMoves
  <1>2. /\ upstream' \in UpstreamRec /\ upstream.got = 0 /\ upstream'.got = upstream.got
        /\ upstream'.end = IF producer'.pc = "read" THEN "open" ELSE "error"
    BY <1>1 DEF StreamInv, StreamTypeOK, UpstreamRec, Fresh, ProducerOK
  <1> USE DEF StreamInv, RetryReturns, ProducerMoves, clientVars, channelVars
  <1>3. StreamTypeOK'
    BY <1>1, <1>2 DEF StreamTypeOK
  <1>4. NothingLost'
    BY <1>1, <1>2 DEF NothingLost, AllChunks
  <1>5. (HandlerOK /\ ProducerOK /\ ChannelsOK /\ ConverterOK)'
    BY <1>1, <1>2 DEF HandlerOK, ProducerOK, ChannelsOK, ConverterOK
  <1>6. AnswerTellsTheEnd'
    BY <1>1, <1>2 DEF HandlerOK, AnswerTellsTheEnd, AllChunks
  <1> QED
    BY <1>3, <1>4, <1>5, <1>6

LEMMA ReportKeeps ==
    ASSUME StreamInv, Report
    PROVE  StreamInv'
  <1> USE DEF StreamInv, StreamTypeOK, ProducerRec, UpstreamRec, ConverterRec,
          ProducerMoves, clientVars, channelVars, Report
  <1>1. StreamTypeOK'
    OBVIOUS
  <1>2. NothingLost'
    BY DEF NothingLost, AllChunks
  <1>3. (HandlerOK /\ ProducerOK /\ ChannelsOK /\ ConverterOK)'
    BY DEF HandlerOK, ProducerOK, ChannelsOK, ConverterOK
  <1>4. AnswerTellsTheEnd'
    BY DEF HandlerOK, AnswerTellsTheEnd, AllChunks
  <1> QED
    BY <1>1, <1>2, <1>3, <1>4

LEMMA AbandonKeeps ==
    ASSUME StreamInv, Abandon
    PROVE  StreamInv'
  <1> USE DEF StreamInv, StreamTypeOK, ProducerRec, UpstreamRec, ConverterRec,
          ProducerMoves, clientVars, channelVars, Abandon
  <1>1. StreamTypeOK'
    OBVIOUS
  <1>2. NothingLost'
    BY DEF NothingLost, AllChunks
  <1>3. (HandlerOK /\ ProducerOK /\ ChannelsOK /\ ConverterOK)'
    BY DEF HandlerOK, ProducerOK, ChannelsOK, ConverterOK
  <1>4. AnswerTellsTheEnd'
    BY DEF HandlerOK, AnswerTellsTheEnd, AllChunks
  <1> QED
    BY <1>1, <1>2, <1>3, <1>4

LEMMA CloseKeeps ==
    ASSUME StreamInv, Close
    PROVE  StreamInv'
  <1> USE DEF StreamInv, StreamTypeOK, ProducerRec, UpstreamRec, ConverterRec,
          ProducerMoves, clientVars, channelVars, Close
  <1>1. StreamTypeOK'
    OBVIOUS
  <1>2. NothingLost'
    BY DEF NothingLost, AllChunks
  <1>3. (HandlerOK /\ ProducerOK /\ ChannelsOK /\ ConverterOK)'
    BY DEF HandlerOK, ProducerOK, ChannelsOK, ConverterOK
  <1>4. AnswerTellsTheEnd'
    BY DEF HandlerOK, AnswerTellsTheEnd, AllChunks
  <1> QED
    BY <1>1, <1>2, <1>3, <1>4

LEMMA ReadEndKeeps ==
    ASSUME StreamInv, NEW end \in {"ok", "error"}, ReadEnd(end)
    PROVE  StreamInv'
  <1> DEFINE next == IF end = "ok" THEN "close" ELSE "fail"
  <1>1. /\ producer.pc = "read" /\ producer.chunks = <<>> /\ upstream.end = "open"
        /\ upstream' \in UpstreamRec /\ upstream'.got = upstream.got
        /\ upstream'.end = end
    BY DEF StreamInv, StreamTypeOK, UpstreamRec, ReadEnd, ProducerOK
  <1>2. /\ producer' \in ProducerRec /\ producer'.chunks = redactor
        /\ producer'.sent = producer.sent /\ redactor' = <<>>
        /\ \/ producer'.pc = "send" /\ producer'.next = next
           \/ producer'.pc = next /\ redactor = <<>>
    <2>1. producer' = Passing(redactor, next) /\ redactor \in Seq(Nat)
      BY DEF StreamInv, StreamTypeOK, ReadEnd, ProducerMoves
    <2>2. redactor' = <<>> /\ next \in {"read", "fail", "close"} /\ StreamTypeOK
      BY DEF StreamInv, ReadEnd
    <2> HIDE DEF next
    <2> QED
      BY <1>1, <2>1, <2>2, ProducerPasses
  <1> USE DEF StreamInv, ReadEnd, ProducerMoves, clientVars, channelVars
  <1>3. StreamTypeOK'
    BY <1>1, <1>2 DEF StreamTypeOK
  <1>4. NothingLost'
    BY <1>1, <1>2, ChunksAreSequences, ChainSplits DEF NothingLost, AllChunks
  <1>5. (HandlerOK /\ ProducerOK /\ ChannelsOK /\ ConverterOK)'
    BY <1>1, <1>2 DEF HandlerOK, ProducerOK, ChannelsOK, ConverterOK
  <1>6. AnswerTellsTheEnd'
    BY <1>1 DEF HandlerOK, AnswerTellsTheEnd
  <1> QED
    BY <1>3, <1>4, <1>5, <1>6

LEMMA ReadChunkKeeps ==
    ASSUME StreamInv, NEW whole \in BOOLEAN, ReadChunk(whole)
    PROVE  StreamInv'
  <1> DEFINE chunks == Append(redactor, upstream.got + 1)
             kept == redacting /\ ~whole
             step == Passing(IF kept THEN <<>> ELSE chunks, "read")
  <1>1. /\ producer.pc = "read" /\ producer.chunks = <<>> /\ upstream.end = "open"
        /\ upstream' \in UpstreamRec /\ upstream'.got = upstream.got + 1
        /\ upstream'.end = "open" /\ upstream.got \in Nat /\ redactor \in Seq(Nat)
    <2>1. upstream.got \in Nat /\ redactor \in Seq(Nat) /\ upstream \in UpstreamRec
      BY ChunksAreSequences DEF StreamInv, StreamTypeOK
    <2>2. upstream' = [upstream EXCEPT !.got = upstream.got + 1] /\ producer.pc = "read"
      BY DEF ReadChunk
    <2>3. upstream.end = "open" /\ producer.chunks = <<>>
      BY <2>2 DEF StreamInv, ProducerOK
    <2> QED
      BY <2>1, <2>2, <2>3 DEF UpstreamRec
  <1>2. chunks \in Seq(Nat) /\ chunks # <<>>
    <2>1. upstream.got + 1 \in Nat
      BY <1>1
    <2> QED
      BY <1>1, <2>1, AppendProperties
  <1>3. /\ step \in ProducerRec
        /\ kept => step.pc = "read" /\ step.chunks = <<>>
        /\ ~kept => step.pc = "send" /\ step.chunks = chunks /\ step.next = "read"
    <2>1. (IF kept THEN <<>> ELSE chunks) \in Seq(Nat) /\ StreamTypeOK
      BY <1>2 DEF StreamInv
    <2> HIDE DEF kept, chunks
    <2> QED
      BY <1>1, <1>2, <2>1, ProducerPasses
  <1>4. producer' = [step EXCEPT !.sent = TRUE] /\ redactor' = IF kept THEN chunks ELSE <<>>
    BY DEF ReadChunk, ProducerMoves
  <1> HIDE DEF step, kept, chunks
  <1>5. /\ producer' \in ProducerRec /\ producer'.sent
        /\ \/ producer'.pc = "read" /\ producer'.chunks = <<>> /\ redactor' = chunks
           \/ /\ producer'.pc = "send" /\ producer'.chunks = chunks /\ redactor' = <<>>
              /\ producer'.next = "read"
    BY <1>3, <1>4 DEF ProducerRec
  <1> USE DEF StreamInv, ReadChunk, ProducerMoves, clientVars, channelVars
  <1>6. StreamTypeOK'
    BY <1>1, <1>2, <1>5 DEF StreamTypeOK
  <1>7. NothingLost'
    <2>1. Chain(written, converter.chunks, <<>>, redactor) = UpTo(upstream.got)
      BY <1>1 DEF NothingLost, AllChunks, UpTo
    <2>2. written \in Seq(Nat) /\ converter.chunks \in Seq(Nat)
      BY ChunksAreSequences
    <2>3. /\ Chain(written, converter.chunks, <<>>, chunks) = UpTo(upstream.got + 1)
          /\ Chain(written, converter.chunks, chunks, <<>>) = UpTo(upstream.got + 1)
      BY <1>1, <2>1, <2>2, ChainGrows DEF chunks
    <2>4. Chain(written', converter'.chunks, producer'.chunks, redactor') = UpTo(upstream'.got)
      BY <1>1, <1>5, <2>3
    <2> QED
      BY <2>4 DEF NothingLost, AllChunks, UpTo
  <1>8. (HandlerOK /\ ProducerOK /\ ChannelsOK /\ ConverterOK)'
    BY <1>1, <1>5 DEF HandlerOK, ProducerOK, ChannelsOK, ConverterOK
  <1>9. AnswerTellsTheEnd'
    BY <1>1 DEF HandlerOK, AnswerTellsTheEnd
  <1> QED
    BY <1>6, <1>7, <1>8, <1>9

-----------------------------------------------------------------------------
(* The converter. *)

LEMMA ConverterTakesKeeps ==
    ASSUME StreamInv, ConverterTakes
    PROVE  StreamInv'
  <1>1. /\ converter.pc = "take" /\ producer.pc = "send" /\ converter.chunks = <<>>
        /\ converter'.pc = "give" /\ converter'.chunks = producer.chunks
        /\ converter' \in ConverterRec
    BY DEF StreamInv, StreamTypeOK, ProducerRec, ConverterRec, ConverterTakes,
           ConverterMoves, ConverterOK
  <1>2. dialect.converts /\ handler # "peek" /\ producer.chunks \in Seq(Nat)
    BY <1>1 DEF StreamInv, StreamTypeOK, ProducerRec, HandlerOK, Idle
  <1>3. /\ producer' \in ProducerRec /\ producer'.pc = producer.next
        /\ producer'.chunks = <<>> /\ producer'.sent = producer.sent
    BY ProducerPassed DEF StreamInv, ConverterTakes
  <1> USE DEF StreamInv, ConverterTakes, ConverterMoves, clientVars, channelVars
  <1>4. StreamTypeOK'
    BY <1>1, <1>3 DEF StreamTypeOK
  <1>5. NothingLost'
    BY <1>1, <1>2, <1>3, ChainHands DEF NothingLost, AllChunks, StreamTypeOK
  <1>6. (HandlerOK /\ ProducerOK /\ ChannelsOK /\ ConverterOK)'
    BY <1>1, <1>2, <1>3 DEF HandlerOK, ProducerOK, ChannelsOK, ConverterOK
  <1>7. AnswerTellsTheEnd'
    BY <1>1 DEF HandlerOK, AnswerTellsTheEnd
  <1> QED
    BY <1>4, <1>5, <1>6, <1>7

LEMMA ConverterEndsKeeps ==
    ASSUME StreamInv, ConverterEnds
    PROVE  StreamInv'
  <1>1. /\ converter' \in ConverterRec /\ converter'.pc = "ended"
        /\ converter'.chunks = converter.chunks /\ converter.pc \in {"take", "give"}
        /\ converter.pc = "take" => converter.chunks = <<>>
    BY DEF StreamInv, StreamTypeOK, ConverterRec, ConverterEnds, ConverterMoves, ConverterOK
  <1>2. dialect.converts /\ handler \notin {"idle", "call", "peek"}
    BY <1>1 DEF StreamInv, HandlerOK, Idle
  <1> USE DEF StreamInv, ConverterEnds, ConverterMoves, clientVars, channelVars
  <1>3. StreamTypeOK'
    BY <1>1 DEF StreamTypeOK
  <1>4. NothingLost'
    BY <1>1 DEF NothingLost, AllChunks
  <1>5. (HandlerOK /\ ProducerOK /\ ChannelsOK /\ ConverterOK)'
    BY <1>1, <1>2 DEF HandlerOK, ProducerOK, ChannelsOK, ConverterOK
  <1>6. AnswerTellsTheEnd'
    BY <1>1 DEF AnswerTellsTheEnd, AllChunks
  <1> QED
    BY <1>3, <1>4, <1>5, <1>6

LEMMA ConverterStopsKeeps ==
    ASSUME StreamInv, ConverterStops
    PROVE  StreamInv'
  <1>1. /\ converter' \in ConverterRec /\ converter'.pc = "ended"
        /\ converter'.chunks = converter.chunks /\ converter.pc \in {"take", "give"}
        /\ converter.pc = "take" => converter.chunks = <<>>
    BY DEF StreamInv, StreamTypeOK, ConverterRec, ConverterStops, ConverterMoves, ConverterOK
  <1>2. dialect.converts /\ handler \notin {"idle", "call", "peek"}
    BY <1>1 DEF StreamInv, HandlerOK, Idle
  <1> USE DEF StreamInv, ConverterStops, ConverterMoves, clientVars, channelVars
  <1>3. StreamTypeOK'
    BY <1>1 DEF StreamTypeOK
  <1>4. NothingLost'
    BY <1>1 DEF NothingLost, AllChunks
  <1>5. (HandlerOK /\ ProducerOK /\ ChannelsOK /\ ConverterOK)'
    BY <1>1, <1>2 DEF HandlerOK, ProducerOK, ChannelsOK, ConverterOK
  <1>6. AnswerTellsTheEnd'
    BY <1>1 DEF AnswerTellsTheEnd, AllChunks
  <1> QED
    BY <1>3, <1>4, <1>5, <1>6

-----------------------------------------------------------------------------
(* The handler. *)

LEMMA PeekChunkKeeps ==
    ASSUME StreamInv, PeekChunk
    PROVE  StreamInv'
  <1>1. /\ handler = "peek" /\ producer.pc = "send" /\ written = <<>>
        /\ converter.chunks = <<>> /\ producer.chunks \in Seq(Nat)
    BY DEF StreamInv, StreamTypeOK, ProducerRec, PeekChunk, HandlerOK, Idle
  <1>2. /\ producer' \in ProducerRec /\ producer'.pc = producer.next
        /\ producer'.chunks = <<>> /\ producer'.sent = producer.sent
    BY ProducerPassed DEF StreamInv, PeekChunk
  <1>3. /\ converter' \in ConverterRec /\ converter'.chunks = <<>>
        /\ converter'.pc \in {"none", "take"} /\ (~dialect.converts => converter' = Idle)
    BY NoChunks DEF PeekChunk, Idle, ConverterRec
  <1>4. written' = producer.chunks
    BY <1>1, ChainAssociates DEF PeekChunk, Writes
  <1> USE DEF StreamInv, PeekChunk, Writes, channelVars
  <1>5. StreamTypeOK'
    BY <1>1, <1>2, <1>3, <1>4 DEF StreamTypeOK
  <1>6. NothingLost'
    <2>1. Chain(<<>>, <<>>, producer.chunks, redactor) = AllChunks /\ redactor \in Seq(Nat)
      BY <1>1, ChunksAreSequences DEF NothingLost
    <2>2. Chain(producer.chunks, <<>>, <<>>, redactor) = AllChunks
      BY <1>1, <2>1, NoChunks, ChainMoves
    <2> QED
      BY <1>2, <1>3, <1>4, <2>2 DEF NothingLost, AllChunks
  <1>7. (HandlerOK /\ ProducerOK /\ ChannelsOK /\ ConverterOK)'
    BY <1>1, <1>2, <1>3, <1>4 DEF HandlerOK, ProducerOK, ChannelsOK, ConverterOK
  <1>8. AnswerTellsTheEnd'
    BY DEF AnswerTellsTheEnd
  <1> QED
    BY <1>5, <1>6, <1>7, <1>8

LEMMA PeekErrorKeeps ==
    ASSUME StreamInv, PeekError
    PROVE  StreamInv'
  <1> USE DEF StreamInv, StreamTypeOK, ProducerRec, UpstreamRec, ConverterRec,
          channelVars, PeekError, EndAnswer
  <1>1. StreamTypeOK'
    OBVIOUS
  <1>2. NothingLost'
    BY DEF NothingLost, AllChunks
  <1>3. (HandlerOK /\ ProducerOK /\ ChannelsOK /\ ConverterOK)'
    BY DEF HandlerOK, ProducerOK, ChannelsOK, ConverterOK
  <1>4. AnswerTellsTheEnd'
    <2>1. SUFFICES ASSUME ~clientGone
                   PROVE  AnswerTellsTheEnd'
      BY DEF AnswerTellsTheEnd
    <2>2. upstream.end = "error" /\ producer.chunks = <<>>
      BY DEF ChannelsOK
    <2>3. (written \o converter.chunks) \o redactor = AllChunks
      BY <2>2, ChunksBehind
    <2> QED
      BY <2>2, <2>3 DEF AnswerTellsTheEnd, AllChunks
  <1> QED
    BY <1>1, <1>2, <1>3, <1>4

LEMMA PeekClosedKeeps ==
    ASSUME StreamInv, PeekClosed
    PROVE  StreamInv'
  <1> USE DEF StreamInv, StreamTypeOK, ProducerRec, UpstreamRec, ConverterRec,
          channelVars, PeekClosed, EndAnswer
  <1>1. StreamTypeOK'
    OBVIOUS
  <1>2. NothingLost'
    BY DEF NothingLost, AllChunks
  <1>3. (HandlerOK /\ ProducerOK /\ ChannelsOK /\ ConverterOK)'
    BY DEF HandlerOK, ProducerOK, ChannelsOK, ConverterOK
  <1>4. AnswerTellsTheEnd'
    <2>1. SUFFICES ASSUME ~clientGone
                   PROVE  AnswerTellsTheEnd'
      BY DEF AnswerTellsTheEnd
    <2>2. written = <<>> /\ converter.chunks = <<>> /\ dialect.peeks /\ producer.pc = "done"
      BY DEF HandlerOK, ChannelsOK, Idle
    <2>3. \/ upstream.end = "error"
          \/ upstream.end = "ok" /\ redactor = <<>> /\ producer.chunks = <<>>
      BY <2>1, <2>2 DEF ChannelsOK, HandlerOK
    <2>4. upstream.end = "ok" => AllChunks = <<>>
      BY <2>2, <2>3, ChainAssociates DEF NothingLost, Chain
    <2> QED
      BY <2>2, <2>3, <2>4 DEF AnswerTellsTheEnd, AllChunks
  <1> QED
    BY <1>1, <1>2, <1>3, <1>4

LEMMA ForwardChunkKeeps ==
    ASSUME StreamInv, ForwardChunk
    PROVE  StreamInv'
  <1> USE DEF StreamInv, Writes, channelVars
  <1>1. CASE dialect.converts
    <2>1. /\ converter.pc = "give" /\ converter.chunks \in Seq(Nat)
          /\ converter' \in ConverterRec /\ converter'.chunks = <<>>
          /\ converter'.pc = "take" /\ producer' = producer
      BY <1>1, NoChunks DEF ForwardChunk, StreamTypeOK, ConverterRec, Idle
    <2>2. handler = "forward" /\ Writes(converter.chunks)
      BY <1>1 DEF ForwardChunk
    <2>3. StreamTypeOK'
      BY <2>1, <2>2, ChainAssociates DEF StreamTypeOK
    <2>4. NothingLost'
      BY <2>1, <2>2, ChainWrites DEF NothingLost, AllChunks, StreamTypeOK, ProducerRec
    <2>5. (HandlerOK /\ ProducerOK /\ ChannelsOK /\ ConverterOK)'
      BY <1>1, <2>1, <2>2 DEF HandlerOK, ProducerOK, ChannelsOK, ConverterOK
    <2> QED
      BY <2>2, <2>3, <2>4, <2>5 DEF AnswerTellsTheEnd
  <1>2. CASE ~dialect.converts
    <2>1. /\ producer.pc = "send" /\ producer.chunks \in Seq(Nat)
          /\ converter' = converter /\ converter.chunks = <<>>
      BY <1>2 DEF ForwardChunk, StreamTypeOK, ProducerRec, HandlerOK, Idle
    <2>2. /\ producer' \in ProducerRec /\ producer'.pc = producer.next
          /\ producer'.chunks = <<>> /\ producer'.sent = producer.sent
      BY <1>2, ProducerPassed DEF ForwardChunk
    <2>3. handler = "forward" /\ Writes(producer.chunks)
      BY <1>2 DEF ForwardChunk
    <2>4. StreamTypeOK'
      BY <2>1, <2>2, <2>3, ChainAssociates DEF StreamTypeOK
    <2>5. NothingLost'
      <3>1. /\ Chain(written, <<>>, producer.chunks, redactor) = AllChunks
            /\ redactor \in Seq(Nat) /\ written \in Seq(Nat)
        BY <2>1, ChunksAreSequences DEF NothingLost
      <3>2. Chain(written \o producer.chunks, <<>>, <<>>, redactor) = AllChunks
        BY <2>1, <3>1, ChainMoves
      <3> QED
        BY <2>1, <2>2, <2>3, <3>2 DEF NothingLost, AllChunks
    <2>6. (HandlerOK /\ ProducerOK /\ ChannelsOK /\ ConverterOK)'
      BY <1>2, <2>1, <2>2, <2>3 DEF HandlerOK, ProducerOK, ChannelsOK, ConverterOK
    <2> QED
      BY <2>3, <2>4, <2>5, <2>6 DEF AnswerTellsTheEnd
  <1> QED
    BY <1>1, <1>2

LEMMA ForwardErrorKeeps ==
    ASSUME StreamInv, ForwardError
    PROVE  StreamInv'
  <1> USE DEF StreamInv, StreamTypeOK, ProducerRec, UpstreamRec, ConverterRec,
          channelVars, ForwardError, EndAnswer
  <1>1. StreamTypeOK'
    OBVIOUS
  <1>2. NothingLost'
    BY DEF NothingLost, AllChunks
  <1>3. (HandlerOK /\ ProducerOK /\ ChannelsOK /\ ConverterOK)'
    BY DEF HandlerOK, ProducerOK, ChannelsOK, ConverterOK
  <1>4. AnswerTellsTheEnd'
    <2>1. SUFFICES ASSUME ~clientGone
                   PROVE  AnswerTellsTheEnd'
      BY DEF AnswerTellsTheEnd
    <2>2. upstream.end = "error" /\ producer.chunks = <<>>
      BY DEF ChannelsOK
    <2>3. (written \o converter.chunks) \o redactor = AllChunks
      BY <2>2, ChunksBehind
    <2> QED
      BY <2>2, <2>3 DEF AnswerTellsTheEnd, AllChunks
  <1> QED
    BY <1>1, <1>2, <1>3, <1>4

LEMMA ForwardClosedKeeps ==
    ASSUME StreamInv, ForwardClosed
    PROVE  StreamInv'
  <1> USE DEF StreamInv, StreamTypeOK, ProducerRec, UpstreamRec, ConverterRec,
          channelVars, ForwardClosed, SourceClosed, EndAnswer
  <1>1. StreamTypeOK'
    OBVIOUS
  <1>2. NothingLost'
    BY DEF NothingLost, AllChunks
  <1>3. (HandlerOK /\ ProducerOK /\ ChannelsOK /\ ConverterOK)'
    BY DEF HandlerOK, ProducerOK, ChannelsOK, ConverterOK
  <1>4. AnswerTellsTheEnd'
    <2>1. SUFFICES ASSUME ~clientGone
                   PROVE  AnswerTellsTheEnd'
      BY DEF AnswerTellsTheEnd
    <2>2. converter.chunks = <<>> /\ producer.pc = "done"
      BY DEF HandlerOK, ConverterOK, ChannelsOK, Idle
    <2>3. /\ producer.chunks = <<>>
          /\ \/ upstream.end = "error" /\ reported
             \/ upstream.end = "ok" /\ ~reported /\ redactor = <<>>
      BY <2>1, <2>2 DEF ChannelsOK, HandlerOK
    <2>4. (written \o converter.chunks) \o redactor = AllChunks
      BY <2>3, ChunksBehind
    <2>5. reported \/ written = AllChunks
      BY <2>2, <2>3, <2>4, ChainAssociates
    <2> QED
      BY <2>3, <2>4, <2>5 DEF AnswerTellsTheEnd, AllChunks
  <1> QED
    BY <1>1, <1>2, <1>3, <1>4

LEMMA SeesClientGoneKeeps ==
    ASSUME StreamInv, SeesClientGone
    PROVE  StreamInv'
  <1> USE DEF StreamInv, StreamTypeOK, ProducerRec, UpstreamRec, ConverterRec,
          channelVars, SeesClientGone, EndAnswer
  <1>1. StreamTypeOK'
    OBVIOUS
  <1>2. NothingLost'
    BY DEF NothingLost, AllChunks
  <1>3. (HandlerOK /\ ProducerOK /\ ChannelsOK /\ ConverterOK)'
    BY DEF HandlerOK, ProducerOK, ChannelsOK, ConverterOK
  <1>4. AnswerTellsTheEnd'
    BY DEF HandlerOK, AnswerTellsTheEnd, AllChunks
  <1> QED
    BY <1>1, <1>2, <1>3, <1>4

-----------------------------------------------------------------------------
(* The call and the client. *)

LEMMA ArriveKeeps ==
    ASSUME StreamInv, Arrive
    PROVE  StreamInv'
  <1> USE DEF StreamInv, StreamTypeOK, ProducerRec, UpstreamRec, ConverterRec,
          channelVars, Arrive
  <1>1. StreamTypeOK'
    OBVIOUS
  <1>2. NothingLost'
    BY DEF NothingLost, AllChunks
  <1>3. (HandlerOK /\ ProducerOK /\ ChannelsOK /\ ConverterOK)'
    BY DEF HandlerOK, ProducerOK, ChannelsOK, ConverterOK
  <1>4. AnswerTellsTheEnd'
    BY DEF HandlerOK, AnswerTellsTheEnd, AllChunks
  <1> QED
    BY <1>1, <1>2, <1>3, <1>4

LEMMA CallReturnsKeeps ==
    ASSUME StreamInv, CallReturns
    PROVE  StreamInv'
  <1>1. /\ handler = "call" /\ upstream = Fresh /\ written = <<>> /\ converter = Idle
        /\ producer.pc = "none" /\ ~reported /\ producer.chunks = <<>>
    BY DEF StreamInv, CallReturns, HandlerOK, ProducerOK
  <1>2. handler' \in {"peek", "forward"} /\ (handler' = "peek" => dialect.peeks)
    BY DEF CallReturns, Waits
  <1> USE DEF StreamInv
  <1>3. CASE producer' = Reading /\ dataChan' = "open" /\ UNCHANGED <<reported, upstream>>
    <2>1. /\ producer' \in ProducerRec /\ producer'.pc = "read" /\ producer'.chunks = <<>>
          /\ ~producer'.sent
      BY <1>3 DEF Reading, ProducerRec
    <2>2. upstream.end = "open" /\ upstream.got = 0
      BY <1>1 DEF Fresh
    <2> USE DEF CallReturns
    <2>3. StreamTypeOK'
      BY <1>2, <1>3, <2>1 DEF StreamTypeOK
    <2>4. NothingLost'
      BY <1>1, <1>3, <2>1 DEF NothingLost, AllChunks
    <2>5. (HandlerOK /\ ProducerOK /\ ChannelsOK /\ ConverterOK)'
      BY <1>1, <1>2, <1>3, <2>1, <2>2 DEF HandlerOK, ProducerOK, ChannelsOK, ConverterOK
    <2> QED
      BY <1>2, <2>3, <2>4, <2>5 DEF AnswerTellsTheEnd
  <1>4. CASE /\ reported' = TRUE /\ upstream' = [upstream EXCEPT !.end = "error"]
             /\ UNCHANGED <<producer, dataChan>>
    <2>1. upstream' \in UpstreamRec /\ upstream'.got = upstream.got /\ upstream'.end = "error"
      BY <1>4 DEF StreamTypeOK, UpstreamRec
    <2> USE DEF CallReturns
    <2>2. StreamTypeOK'
      BY <1>2, <1>4, <2>1 DEF StreamTypeOK
    <2>3. NothingLost'
      BY <1>4, <2>1 DEF NothingLost, AllChunks
    <2>4. (HandlerOK /\ ProducerOK /\ ChannelsOK /\ ConverterOK)'
      BY <1>1, <1>2, <1>4, <2>1 DEF HandlerOK, ProducerOK, ChannelsOK, ConverterOK
    <2> QED
      BY <1>2, <2>2, <2>3, <2>4 DEF AnswerTellsTheEnd
  <1> QED
    BY <1>3, <1>4 DEF CallReturns

LEMMA ClientLeavesKeeps ==
    ASSUME StreamInv, ClientLeaves
    PROVE  StreamInv'
  <1> USE DEF StreamInv, StreamTypeOK, ProducerRec, UpstreamRec, ConverterRec,
          channelVars, ClientLeaves
  <1>1. StreamTypeOK'
    OBVIOUS
  <1>2. NothingLost'
    BY DEF NothingLost, AllChunks
  <1>3. (HandlerOK /\ ProducerOK /\ ChannelsOK /\ ConverterOK)'
    BY DEF HandlerOK, ProducerOK, ChannelsOK, ConverterOK
  <1>4. AnswerTellsTheEnd'
    BY DEF HandlerOK, AnswerTellsTheEnd, AllChunks
  <1> QED
    BY <1>1, <1>2, <1>3, <1>4

LEMMA CancelFollowsKeeps ==
    ASSUME StreamInv, CancelFollows
    PROVE  StreamInv'
  <1> USE DEF StreamInv, StreamTypeOK, ProducerRec, UpstreamRec, ConverterRec,
          channelVars, CancelFollows
  <1>1. StreamTypeOK'
    OBVIOUS
  <1>2. NothingLost'
    BY DEF NothingLost, AllChunks
  <1>3. (HandlerOK /\ ProducerOK /\ ChannelsOK /\ ConverterOK)'
    BY DEF HandlerOK, ProducerOK, ChannelsOK, ConverterOK
  <1>4. AnswerTellsTheEnd'
    BY DEF HandlerOK, AnswerTellsTheEnd, AllChunks
  <1> QED
    BY <1>1, <1>2, <1>3, <1>4

-----------------------------------------------------------------------------
(* The invariant. *)

LEMMA StreamInitInv == StreamInit => StreamInv
  <1> SUFFICES ASSUME StreamInit
               PROVE  StreamInv
    OBVIOUS
  <1> USE DEF StreamInit, Reading, Fresh, Idle
  <1>1. /\ producer \in ProducerRec /\ producer.pc = "none" /\ producer.chunks = <<>>
        /\ ~producer.sent /\ upstream.got = 0
    BY NoChunks DEF ProducerRec
  <1>2. StreamTypeOK
    BY <1>1, NoChunks DEF StreamTypeOK, UpstreamRec, ConverterRec
  <1>3. NothingLost
    <2>1. AllChunks = <<>>
      BY <1>1 DEF AllChunks
    <2> QED
      BY <1>1, <2>1 DEF NothingLost, Chain
  <1>4. HandlerOK /\ ProducerOK /\ ChannelsOK /\ ConverterOK /\ AnswerTellsTheEnd
    BY <1>1 DEF HandlerOK, ProducerOK, ChannelsOK, ConverterOK, AnswerTellsTheEnd
  <1> QED
    BY <1>2, <1>3, <1>4 DEF StreamInv

LEMMA StreamNextInv ==
    ASSUME StreamInv, [StreamNext]_streamVars
    PROVE  StreamInv'
  <1>1. CASE ProducerStep
    BY <1>1, StreamFailsKeeps, RetryReturnsKeeps, ReportKeeps, AbandonKeeps, CloseKeeps
       DEF ProducerStep
  <1>2. CASE ConverterStep
    BY <1>2, ConverterTakesKeeps, ConverterEndsKeeps, ConverterStopsKeeps DEF ConverterStep
  <1>3. CASE HandlerStep
    BY <1>3, PeekChunkKeeps, PeekErrorKeeps, PeekClosedKeeps, ForwardChunkKeeps,
       ForwardErrorKeeps, ForwardClosedKeeps, SeesClientGoneKeeps DEF HandlerStep
  <1>4. CASE StreamEvent
    BY <1>4, ArriveKeeps, ClientLeavesKeeps, ReadChunkKeeps, ReadInvalidKeeps, ReadEndKeeps
       DEF StreamEvent
  <1>5. CASE CallReturns \/ CancelFollows
    BY <1>5, CallReturnsKeeps, CancelFollowsKeeps
  <1>6. CASE UNCHANGED streamVars
    <2> USE <1>6 DEF streamVars, channelVars, clientVars, StreamInv
    <2>1. StreamTypeOK' /\ NothingLost'
      BY DEF StreamTypeOK, NothingLost, AllChunks
    <2>2. (HandlerOK /\ ProducerOK /\ ChannelsOK /\ ConverterOK)'
      BY DEF HandlerOK, ProducerOK, ChannelsOK, ConverterOK
    <2>3. AnswerTellsTheEnd'
      BY DEF AnswerTellsTheEnd, AllChunks
    <2> QED
      BY <2>1, <2>2, <2>3
  <1> QED
    BY <1>1, <1>2, <1>3, <1>4, <1>5, <1>6 DEF StreamNext

\* What the client of an ended answer is told is what became of the stream, and what
\* it was written before is the beginning of it.
THEOREM StreamAnswer == StreamSpec => []AnswerTellsTheEnd
  <1>1. StreamInv => AnswerTellsTheEnd
    BY DEF StreamInv
  <1> QED
    BY StreamInitInv, StreamNextInv, <1>1, PTL DEF StreamSpec

-----------------------------------------------------------------------------
(* The websocket executor. *)

\* A set of numbers that is not empty has a least one.
LEMMA LeastNat ==
    ASSUME NEW T, T \subseteq Nat, T # {}
    PROVE  \E x \in T : \A y \in T : x <= y
  <1> DEFINE R == {ss \in Nat \X Nat : ss[1] < ss[2]}
  <1>1. IsWellFoundedOn(R, Nat)
    BY NatLessThanWellFounded DEF OpToRel
  <1>2. PICK x \in T : \A y \in T : ~(<<y, x>> \in R)
    <2> HIDE DEF R
    <2> QED
      BY <1>1, WFMin
  <1>3. \A y \in T : ~(y < x)
    BY <1>2
  <1> QED
    BY <1>3

\* The types of the records: a request has the mutex of its session from Lock on, is
\* before its first connection until it has become active, and is at it again when a
\* send has failed.
RequestPcs ==
    {"idle", "lock", "ensure", "dial", "activate", "send", "again", "read", "giveUp", "leave", "ended"}
ReaderPcs == {"off", "read", "deliver", "tell", "shut", "leave"}
Kinds == {"none", "data", "fail", "end"}

SessionRec ==
    [used : BOOLEAN, conn : Conns \cup {0}, auth : Auths \cup {"none"}, active : Requests \cup {0},
     lock : Requests \cup {0}]
WireRec == [kind : Kinds, of : Requests \cup {0}]
HeardRec == [conn : Conns, kind : Kinds \cup {"lost"}, of : Requests \cup {0}]
ConnRec ==
    [used : BOOLEAN, state : {"none", "open", "broken", "closed"}, session : Sessions \cup {0},
     asked : Seq(Requests), sent : Nat, wire : Seq(WireRec), reader : ReaderPcs, held : WireRec,
     to : Requests \cup {0}]
RequestRec ==
    [used : BOOLEAN, pc : RequestPcs, auth : Auths \cup {"none"}, session : Sessions \cup {0},
     conn : Conns \cup {0}, retry : BOOLEAN, buf : Seq(HeardRec), shutBy : Conns \cup {0},
     done : BOOLEAN, gone : BOOLEAN,
     outcome : {"none", "ok", "error", "refused", "closed", "canceled"}]

CodexTypes ==
    /\ store \in Sessions \cup {0}
    /\ sessions \in [Sessions -> SessionRec]
    /\ conns \in [Conns -> ConnRec]
    /\ requests \in [Requests -> RequestRec]
    /\ closers \in [Closers -> [pc : {"idle", "unstore", "close", "done"},
            session : Sessions \cup {0}]]
    /\ crashed \in BOOLEAN /\ hungUp \in BOOLEAN
    /\ shadowed \subseteq Requests

Holds(r) == r.pc \in {"ensure", "dial", "activate", "send", "again", "read", "giveUp", "leave"}
Before(r) == r.pc \in {"idle", "lock"} \/ (~r.retry /\ r.pc \in {"ensure", "dial", "activate"})
Again(r) == r.retry /\ r.pc \in {"ensure", "dial"}
Telling(d) == d.reader \in {"deliver", "tell", "shut"}

Past(r) == r.pc \in {"activate", "send", "again", "read", "giveUp", "leave"}

\* Numbers are given in turn, and what has none is as it was at the start.
InTurn == /\ \A q, p \in Requests : requests[q].used /\ p < q => requests[p].used
          /\ \A s, t \in Sessions : sessions[s].used /\ t < s => sessions[t].used
          /\ \A c, d \in Conns : conns[c].used /\ d < c => conns[d].used

RequestNo(r) == /\ r.used <=> r.pc # "idle"
                /\ r.used <=> r.session # 0
                /\ r.pc \in {"idle", "lock"} => ~r.retry
ConnNo(d) == /\ d.used <=> d.session # 0
             /\ d.used <=> d.state # "none"
             /\ ~d.used => d.reader = "off"
             /\ d.to # 0 <=> Telling(d)
NumbersOK == /\ \A q \in Requests : RequestNo(requests[q])
             /\ \A c \in Conns : ConnNo(conns[c])
             /\ \A s \in Sessions : store = s => sessions[s].used

\* Who holds the mutex of a session is alone to replace its connection.
MutexOf(q, s) == requests[q].session = s =>
    /\ Holds(requests[q]) => sessions[s].lock = q
    /\ requests[q].pc = "dial" \/ Again(requests[q]) => sessions[s].conn = 0
    /\ Past(requests[q]) => sessions[s].conn \in {0, requests[q].conn}
MutexOK == \A q \in Requests, s \in Sessions : MutexOf(q, s)

ConnOf(s, c) == /\ sessions[s].conn = c => conns[c].session = s
                /\ conns[c].session = s /\ conns[c].state = "open" => sessions[s].conn = c
ConnOK == \A s \in Sessions, c \in Conns : ConnOf(s, c)

Closing(s) == \E k \in Closers : closers[k].pc = "close" /\ closers[k].session = s
OpenOf(c, s) ==
    conns[c].state = "open" /\ conns[c].session = s => s = store \/ s \in late \/ Closing(s)
OpenOK == /\ \A c \in Conns, s \in Sessions : OpenOf(c, s)
          /\ hungUp \/ closers["downstream"].pc = "idle"

\* An active request is past its first connection, and alone to have a reader.
ActiveOf(s, q) == sessions[s].active = q =>
    /\ requests[q].session = s /\ Holds(requests[q]) /\ ~Before(requests[q])
    /\ q \in shadowed \/ \A c \in Conns :
          conns[c].session = s /\ (c # requests[q].conn \/ Again(requests[q]))
                  => conns[c].reader = "off"
ActiveOK == \A s \in Sessions, q \in Requests : ActiveOf(s, q)

TellsOf(c, q) == conns[c].to = q =>
    /\ ~Before(requests[q])
    /\ q \in shadowed \/ (requests[q].conn = c /\ ~Again(requests[q]))
TellingOK == \A c \in Conns, q \in Requests : TellsOf(c, q)

ShutOf(q, c) == requests[q].shutBy = c =>
    /\ ~Before(requests[q]) /\ conns[c].used /\ conns[c].reader \in {"leave", "off"}
    /\ q \in shadowed \/ (requests[q].conn = c /\ ~Again(requests[q]))
ShutOK == \A q \in Requests, c \in Conns : ShutOf(q, c)

CodexInv ==
    /\ CodexTypes /\ InTurn /\ NumbersOK /\ MutexOK /\ ConnOK
    /\ OpenOK /\ ActiveOK /\ TellingOK /\ ShutOK
    /\ crashed => shadowed # {}

-----------------------------------------------------------------------------
(* What the invariant looks at. *)

SameRequest(r, x) ==
    /\ x.used = r.used /\ x.pc = r.pc /\ x.session = r.session /\ x.conn = r.conn
    /\ x.retry = r.retry /\ x.shutBy = r.shutBy
SameSession(s, x) == x.used = s.used /\ x.conn = s.conn /\ x.active = s.active /\ x.lock = s.lock
SameConn(c, x) ==
    /\ x.used = c.used /\ x.state = c.state /\ x.session = c.session
    /\ x.reader = c.reader /\ x.to = c.to

\* The number given next is the first that was not given.
LEMMA NextNumber ==
    ASSUME NEW N \in Nat, NEW T, DOMAIN T = 1 .. N,
           \A n, m \in 1 .. N : T[n].used /\ m < n => T[m].used,
           Next1(T) # 0, \A n \in 1 .. N : T[n].used \in BOOLEAN
    PROVE  /\ Next1(T) \in 1 .. N /\ ~T[Next1(T)].used
           /\ \A m \in 1 .. N : m < Next1(T) => T[m].used
  <1> DEFINE Free == {n \in 1 .. N : ~T[n].used}
  <1>1. Used(T) # DOMAIN T /\ Next1(T) = Cardinality(Used(T)) + 1
    BY DEF Next1
  <1>2. Free # {} /\ Free \subseteq Nat
    BY <1>1 DEF Used
  <1>3. PICK n \in Free : \A m \in Free : n <= m
    <2> HIDE DEF Free
    <2> QED  BY <1>2, LeastNat
  <1>4. Used(T) = 1 .. n - 1
    BY <1>3 DEF Used
  <1>5. Cardinality(1 .. n - 1) = n - 1
    BY <1>3, FS_Interval
  <1> QED
    BY <1>1, <1>3, <1>4, <1>5

LEMMA RecordsTyped ==
    ASSUME CodexInv
    PROVE  /\ requests \in [Requests -> RequestRec] /\ sessions \in [Sessions -> SessionRec]
           /\ conns \in [Conns -> ConnRec] /\ store \in Sessions \cup {0}
           /\ \A q \in Requests : requests[q] \in RequestRec
           /\ \A s \in Sessions : sessions[s] \in SessionRec
           /\ \A c \in Conns : conns[c] \in ConnRec
           /\ \A q \in Requests : requests[q].pc # "idle" => requests[q].session \in Sessions
           /\ \A c \in Conns : conns[c].used => conns[c].session \in Sessions
  BY DEF CodexInv, CodexTypes, NumbersOK, RequestNo, ConnNo, RequestRec, ConnRec

\* The fields that the invariant looks at.
LEMMA FieldsTyped ==
    ASSUME CodexInv
    PROVE  /\ \A q \in Requests : /\ requests[q].used \in BOOLEAN /\ requests[q].retry \in BOOLEAN
                                  /\ requests[q].session \in Sessions \cup {0}
                                  /\ requests[q].conn \in Conns \cup {0}
                                  /\ requests[q].shutBy \in Conns \cup {0}
           /\ \A s \in Sessions : /\ sessions[s].used \in BOOLEAN
                                  /\ sessions[s].conn \in Conns \cup {0}
                                  /\ sessions[s].active \in Requests \cup {0}
                                  /\ sessions[s].lock \in Requests \cup {0}
           /\ \A c \in Conns : /\ conns[c].used \in BOOLEAN
                               /\ conns[c].state \in {"none", "open", "broken", "closed"}
                               /\ conns[c].session \in Sessions \cup {0}
                               /\ conns[c].to \in Requests \cup {0}
           /\ 0 \notin Requests /\ 0 \notin Sessions /\ 0 \notin Conns
  <1>1. /\ requests \in [Requests -> RequestRec] /\ sessions \in [Sessions -> SessionRec]
        /\ conns \in [Conns -> ConnRec]
    BY DEF CodexInv, CodexTypes
  <1>2. 0 \notin Requests /\ 0 \notin Sessions /\ 0 \notin Conns
    BY CodexAssumption DEF Requests, Sessions, Conns
  <1> QED
    BY <1>1, <1>2 DEF RequestRec, SessionRec, ConnRec

\* Telling that a request is not active any more changes nothing that matters here.
LEMMA DoneButSame ==
    ASSUME CodexInv, NEW s, NEW p
    PROVE  /\ DoneBut(s, p) \in [Requests -> RequestRec]
           /\ \A q \in Requests : SameRequest(requests[q], DoneBut(s, p)[q])
  <1>1. requests \in [Requests -> RequestRec]
    BY DEF CodexInv, CodexTypes
  <1>2. ASSUME NEW r \in RequestRec
        PROVE  [r EXCEPT !.done = TRUE] \in RequestRec /\ SameRequest(r, [r EXCEPT !.done = TRUE])
    BY DEF RequestRec, SameRequest
  <1>3. \A r \in RequestRec : SameRequest(r, r)
    BY DEF SameRequest
  <1> QED
    BY <1>1, <1>2, <1>3 DEF DoneBut

\* The connection c of the session s is dropped and closed, if it is the one in use.
Drops(s, c) ==
    /\ \A t \in Sessions :
          /\ sessions'[t].used = sessions[t].used /\ sessions'[t].active = sessions[t].active
          /\ sessions'[t].lock = sessions[t].lock
          /\ sessions'[t].conn = IF t = s /\ sessions[s].conn = c THEN 0 ELSE sessions[t].conn
    /\ \A d \in Conns :
          /\ conns'[d].used = conns[d].used /\ conns'[d].session = conns[d].session
          /\ conns'[d].reader = conns[d].reader /\ conns'[d].to = conns[d].to
          /\ conns'[d].state = IF d = c /\ sessions[s].conn = c THEN "closed" ELSE conns[d].state

LEMMA ClosedIs ==
    ASSUME CodexInv, NEW c \in Conns \cup {0}
    PROVE  /\ Closed(c) \in [Conns -> ConnRec]
           /\ \A d \in Conns :
                 /\ Closed(c)[d].used = conns[d].used /\ Closed(c)[d].session = conns[d].session
                 /\ Closed(c)[d].reader = conns[d].reader /\ Closed(c)[d].to = conns[d].to
                 /\ Closed(c)[d].state = IF d = c THEN "closed" ELSE conns[d].state
  <1>1. conns \in [Conns -> ConnRec]
    BY DEF CodexInv, CodexTypes
  <1>2. ASSUME NEW r \in ConnRec
        PROVE  [r EXCEPT !.state = "closed", !.wire = <<>>, !.asked = <<>>, !.sent = 0] \in ConnRec
    <2>1. \A x \in ConnRec : [x EXCEPT !.state = "closed"] \in ConnRec
      BY DEF ConnRec
    <2>0. <<>> \in Seq(WireRec) /\ <<>> \in Seq(Requests)
      OBVIOUS
    <2>2. \A x \in ConnRec : [x EXCEPT !.wire = <<>>] \in ConnRec
      BY <2>0 DEF ConnRec
    <2>3. \A x \in ConnRec : [x EXCEPT !.asked = <<>>] \in ConnRec
      BY <2>0 DEF ConnRec
    <2>4. \A x \in ConnRec : [x EXCEPT !.sent = 0] \in ConnRec
      BY DEF ConnRec
    <2> QED  BY <1>2, <2>1, <2>2, <2>3, <2>4
  <1>3. ASSUME NEW r \in ConnRec, NEW x,
               x = [r EXCEPT !.state = "closed", !.wire = <<>>, !.asked = <<>>, !.sent = 0]
        PROVE  /\ x.used = r.used /\ x.session = r.session
               /\ x.reader = r.reader /\ x.to = r.to /\ x.state = "closed"
    BY <1>3 DEF ConnRec
  <1>4. /\ DOMAIN Closed(c) = Conns /\ Closed(c) = [d \in Conns |-> Closed(c)[d]]
        /\ \A d \in Conns : d # c => Closed(c)[d] = conns[d]
        /\ c \in Conns =>
              Closed(c)[c] = [conns[c] EXCEPT !.state = "closed", !.wire = <<>>,
                      !.asked = <<>>, !.sent = 0]
    BY <1>1 DEF Closed
  <1>5. c \in Conns =>
           /\ Closed(c)[c] \in ConnRec /\ Closed(c)[c].used = conns[c].used
           /\ Closed(c)[c].session = conns[c].session
           /\ Closed(c)[c].reader = conns[c].reader /\ Closed(c)[c].to = conns[c].to
           /\ Closed(c)[c].state = "closed"
    <2>1. ASSUME c \in Conns
          PROVE  /\ conns[c] \in ConnRec
                 /\ Closed(c)[c] = [conns[c] EXCEPT !.state = "closed", !.wire = <<>>,
                         !.asked = <<>>, !.sent = 0]
      BY <1>1, <1>4, <2>1
    <2> QED  BY <1>2, <1>3, <2>1
  <1> QED
    BY <1>1, <1>4, <1>5

LEMMA InvalidateDrops ==
    ASSUME CodexInv, NEW s \in Sessions, NEW c \in Conns \cup {0}, Invalidate(s, c)
    PROVE  Drops(s, c)
  <1>1. conns \in [Conns -> ConnRec] /\ sessions \in [Sessions -> SessionRec]
    BY DEF CodexInv, CodexTypes
  <1>2. CASE sessions[s].conn = c
    BY <1>1, <1>2, ClosedIs DEF Invalidate, Drops, SessionRec
  <1>3. CASE sessions[s].conn # c
    BY <1>1, <1>3 DEF Invalidate, Drops
  <1> QED
    BY <1>2, <1>3

-----------------------------------------------------------------------------
(* Types. *)

LEMMA NextTyped ==
    ASSUME NEW N \in Nat, NEW T, DOMAIN T = 1 .. N,
           \A n, m \in 1 .. N : T[n].used /\ m < n => T[m].used,
           \A n \in 1 .. N : T[n].used \in BOOLEAN
    PROVE  Next1(T) \in 0 .. N
  <1>1. CASE Next1(T) # 0
    BY <1>1, NextNumber
  <1> QED
    BY <1>1

\* A record keeps its type when one field is given a value of its own.
LEMMA RequestStaysTyped ==
    ASSUME NEW r \in RequestRec
    PROVE  /\ \A v \in BOOLEAN : [r EXCEPT !.used = v] \in RequestRec
           /\ \A v \in RequestPcs : [r EXCEPT !.pc = v] \in RequestRec
           /\ \A v \in Auths : [r EXCEPT !.auth = v] \in RequestRec
           /\ \A v \in Sessions : [r EXCEPT !.session = v] \in RequestRec
           /\ \A v \in Conns \cup {0} : [r EXCEPT !.conn = v] \in RequestRec
           /\ \A v \in BOOLEAN : [r EXCEPT !.retry = v] \in RequestRec
           /\ \A v \in Seq(HeardRec) : [r EXCEPT !.buf = v] \in RequestRec
           /\ \A v \in Conns \cup {0} : [r EXCEPT !.shutBy = v] \in RequestRec
           /\ \A v \in BOOLEAN : [r EXCEPT !.done = v] \in RequestRec
           /\ \A v \in BOOLEAN : [r EXCEPT !.gone = v] \in RequestRec
           /\ \A v \in {"none", "ok", "error", "refused", "closed", "canceled"} :
                 [r EXCEPT !.outcome = v] \in RequestRec
  BY DEF RequestRec

LEMMA SessionStaysTyped ==
    ASSUME NEW r \in SessionRec
    PROVE  /\ \A v \in BOOLEAN : [r EXCEPT !.used = v] \in SessionRec
           /\ \A v \in Conns \cup {0} : [r EXCEPT !.conn = v] \in SessionRec
           /\ \A v \in Auths \cup {"none"} : [r EXCEPT !.auth = v] \in SessionRec
           /\ \A v \in Requests \cup {0} : [r EXCEPT !.active = v] \in SessionRec
           /\ \A v \in Requests \cup {0} : [r EXCEPT !.lock = v] \in SessionRec
           /\ \A q : Cleared(r, q) \in SessionRec
  BY DEF SessionRec, Cleared

LEMMA ConnStaysTyped ==
    ASSUME NEW r \in ConnRec
    PROVE  /\ \A v \in BOOLEAN : [r EXCEPT !.used = v] \in ConnRec
           /\ \A v \in {"none", "open", "broken", "closed"} : [r EXCEPT !.state = v] \in ConnRec
           /\ \A v \in Sessions : [r EXCEPT !.session = v] \in ConnRec
           /\ \A v \in Seq(Requests) : [r EXCEPT !.asked = v] \in ConnRec
           /\ \A v \in Nat : [r EXCEPT !.sent = v] \in ConnRec
           /\ \A v \in Seq(WireRec) : [r EXCEPT !.wire = v] \in ConnRec
           /\ \A v \in ReaderPcs : [r EXCEPT !.reader = v] \in ConnRec
           /\ \A v \in WireRec : [r EXCEPT !.held = v] \in ConnRec
           /\ \A v \in Requests \cup {0} : [r EXCEPT !.to = v] \in ConnRec
  BY DEF ConnRec

LEMMA EnterTyped ==
    ASSUME CodexInv, NEW q \in Requests, NEW a \in Auths, Enter(q, a)
    PROVE  CodexTypes'
  <1>0. CodexTypes /\ 0 \notin Requests /\ 0 \notin Sessions /\ 0 \notin Conns
    BY FieldsTyped DEF CodexInv
  <1>1. Next1(sessions) \in Sessions \cup {0}
    <2>1. DOMAIN sessions = 1 .. MaxSessions /\ MaxSessions \in Nat
      BY <1>0, CodexAssumption DEF Sessions, CodexTypes
    <2> QED  BY <2>1, NextTyped, FieldsTyped DEF CodexInv, InTurn, Sessions
  <1>2. (IF store # 0 THEN store ELSE Next1(sessions)) \in Sessions
    BY <1>0, <1>1 DEF CodexTypes, Enter
  <1>11. requests' \in [Requests -> RequestRec]
    <2> DEFINE s == IF store # 0 THEN store ELSE Next1(sessions)
    <2>1. requests' = [requests EXCEPT ![q].used = TRUE, ![q].pc = "lock", ![q].auth = a,
            ![q].session = s]
      BY DEF Enter
    <2> HIDE DEF s
    <2>2. s \in Sessions
      BY <1>2 DEF s
    <2>3. [requests[q] EXCEPT !.used = TRUE, !.pc = "lock", !.auth = a, !.session = s] \in RequestRec
      <3>1. "lock" \in RequestPcs /\ requests[q] \in RequestRec
        BY <1>0 DEF CodexTypes, RequestPcs
      <3> QED  BY <2>2, <3>1, RequestStaysTyped
    <2> QED  BY <1>0, <2>1, <2>3 DEF CodexTypes
  <1>12. sessions' \in [Sessions -> SessionRec]
    BY <1>0, <1>2, SessionStaysTyped DEF CodexTypes, Enter
  <1>13. conns' \in [Conns -> ConnRec]
    BY <1>0 DEF CodexTypes, Enter
  <1> QED
    BY <1>0, <1>11, <1>12, <1>13, <1>2 DEF CodexTypes, historyVars, Enter

LEMMA LockTyped ==
    ASSUME CodexInv, NEW q \in Requests, Lock(q)
    PROVE  CodexTypes'
  <1>0. CodexTypes /\ 0 \notin Requests /\ 0 \notin Sessions /\ 0 \notin Conns
    BY FieldsTyped DEF CodexInv
  <1>1. requests[q].session \in Sessions
    BY RecordsTyped DEF Lock
  <1>11. requests' \in [Requests -> RequestRec]
    BY <1>0, <1>1, RequestStaysTyped, DoneButSame DEF CodexTypes, RequestPcs, Lock
  <1>12. sessions' \in [Sessions -> SessionRec]
    BY <1>0, <1>1, SessionStaysTyped DEF CodexTypes, Lock
  <1>13. conns' \in [Conns -> ConnRec]
    BY <1>0 DEF CodexTypes, Lock
  <1> QED
    BY <1>0, <1>11, <1>12, <1>13, <1>1 DEF CodexTypes, historyVars, Lock

LEMMA EnsureTyped ==
    ASSUME CodexInv, NEW q \in Requests, Ensure(q)
    PROVE  CodexTypes'
  <1>0. CodexTypes /\ 0 \notin Requests /\ 0 \notin Sessions /\ 0 \notin Conns
    BY FieldsTyped DEF CodexInv
  <1>1. sessions[requests[q].session].conn \in Conns \cup {0}
    BY RecordsTyped, FieldsTyped DEF Ensure
  <1>11. requests' \in [Requests -> RequestRec]
    BY <1>0, <1>1, RequestStaysTyped, DoneButSame DEF CodexTypes, RequestPcs, Ensure
  <1>12. sessions' \in [Sessions -> SessionRec]
    BY <1>0 DEF CodexTypes, Ensure
  <1>13. conns' \in [Conns -> ConnRec]
    BY <1>0 DEF CodexTypes, Ensure
  <1> QED
    BY <1>0, <1>11, <1>12, <1>13, <1>1 DEF CodexTypes, historyVars, Ensure

LEMMA DialSucceedsTyped ==
    ASSUME CodexInv, NEW q \in Requests, DialSucceeds(q)
    PROVE  CodexTypes'
  <1>0. CodexTypes /\ 0 \notin Requests /\ 0 \notin Sessions /\ 0 \notin Conns
    BY FieldsTyped DEF CodexInv
  <1>1. requests[q].session \in Sessions
    BY RecordsTyped DEF DialSucceeds
  <1>2. Next1(conns) \in Conns /\ requests[q].auth \in Auths \cup {"none"}
    <2>1. DOMAIN conns = 1 .. MaxConns /\ MaxConns \in Nat
      BY <1>0, CodexAssumption DEF Conns, CodexTypes
    <2>2. Next1(conns) \in Conns \cup {0}
      BY <2>1, NextTyped, FieldsTyped DEF CodexInv, InTurn, Conns
    <2>3. requests[q].auth \in Auths \cup {"none"}
      BY <1>0 DEF CodexTypes, RequestRec
    <2> QED  BY <2>2, <2>3 DEF DialSucceeds
  <1>11. requests' \in [Requests -> RequestRec]
    BY <1>0, <1>1, <1>2, RequestStaysTyped, DoneButSame DEF CodexTypes, RequestPcs, DialSucceeds
  <1>12. sessions' \in [Sessions -> SessionRec]
    BY <1>0, <1>1, <1>2, SessionStaysTyped DEF CodexTypes, DialSucceeds
  <1>13. conns' \in [Conns -> ConnRec]
    BY <1>0, <1>1, <1>2, ConnStaysTyped DEF CodexTypes, ReaderPcs, DialSucceeds
  <1> QED
    BY <1>0, <1>11, <1>12, <1>13, <1>1, <1>2 DEF CodexTypes, historyVars, DialSucceeds

LEMMA DialFailsTyped ==
    ASSUME CodexInv, NEW q \in Requests, DialFails(q)
    PROVE  CodexTypes'
  <1>0. CodexTypes /\ 0 \notin Requests /\ 0 \notin Sessions /\ 0 \notin Conns
    BY FieldsTyped DEF CodexInv
  <1>1. requests[q].session \in Sessions
    BY RecordsTyped DEF DialFails
  <1>11. requests' \in [Requests -> RequestRec]
    <2>1. requests' = [DoneBut(requests[q].session, 0) EXCEPT ![q].pc = "ended",
            ![q].outcome = "error"]
      BY DEF DialFails
    <2>2. PICK f \in [Requests -> RequestRec] : requests' = [f EXCEPT ![q].pc = "ended",
            ![q].outcome = "error"]
      BY <2>1, DoneButSame
    <2>3. "ended" \in RequestPcs
      BY DEF RequestPcs
    <2>4. f[q] \in RequestRec
      BY <2>2
    <2>5. [f[q] EXCEPT !.pc = "ended", !.outcome = "error"] \in RequestRec
      BY <2>3, <2>4, RequestStaysTyped
    <2> QED  BY <2>2, <2>5
  <1>12. sessions' \in [Sessions -> SessionRec]
    BY <1>0, <1>1, SessionStaysTyped DEF CodexTypes, DialFails
  <1>13. conns' \in [Conns -> ConnRec]
    BY <1>0 DEF CodexTypes, DialFails
  <1> QED
    BY <1>0, <1>11, <1>12, <1>13, <1>1 DEF CodexTypes, historyVars, DialFails

LEMMA LeaveTyped ==
    ASSUME CodexInv, NEW q \in Requests, Leave(q)
    PROVE  CodexTypes'
  <1>0. CodexTypes /\ 0 \notin Requests /\ 0 \notin Sessions /\ 0 \notin Conns
    BY FieldsTyped DEF CodexInv
  <1>1. requests[q].session \in Sessions
    BY RecordsTyped DEF Leave
  <1>11. requests' \in [Requests -> RequestRec]
    <2>1. requests' = [requests EXCEPT ![q].pc = "ended", ![q].done = TRUE, ![q].buf = <<>>]
      BY DEF Leave
    <2>2. "ended" \in RequestPcs /\ requests[q] \in RequestRec /\ <<>> \in Seq(HeardRec)
      BY <1>0 DEF CodexTypes, RequestPcs
    <2>3. [requests[q] EXCEPT !.pc = "ended", !.done = TRUE, !.buf = <<>>] \in RequestRec
      BY <2>2, RequestStaysTyped
    <2> QED  BY <1>0, <2>1, <2>3 DEF CodexTypes
  <1>12. sessions' \in [Sessions -> SessionRec]
    BY <1>0, <1>1, SessionStaysTyped DEF CodexTypes, Leave
  <1>13. conns' \in [Conns -> ConnRec]
    BY <1>0 DEF CodexTypes, Leave
  <1> QED
    BY <1>0, <1>11, <1>12, <1>13, <1>1 DEF CodexTypes, historyVars, Leave

LEMMA DialRefusedTyped ==
    ASSUME CodexInv, NEW q \in Requests, DialRefused(q)
    PROVE  CodexTypes'
  <1>0. CodexTypes /\ 0 \notin Requests /\ 0 \notin Sessions /\ 0 \notin Conns
    BY FieldsTyped DEF CodexInv
  <1>11. requests' \in [Requests -> RequestRec]
    BY <1>0, RequestStaysTyped, DoneButSame DEF CodexTypes, RequestPcs, DialRefused
  <1>12. sessions' \in [Sessions -> SessionRec]
    BY <1>0 DEF CodexTypes, DialRefused
  <1>13. conns' \in [Conns -> ConnRec]
    BY <1>0 DEF CodexTypes, DialRefused
  <1> QED
    BY <1>0, <1>11, <1>12, <1>13 DEF CodexTypes, historyVars, DialRefused

LEMMA ActivateTyped ==
    ASSUME CodexInv, NEW q \in Requests, Activate(q)
    PROVE  CodexTypes'
  <1>0. CodexTypes /\ 0 \notin Requests /\ 0 \notin Sessions /\ 0 \notin Conns
    BY FieldsTyped DEF CodexInv
  <1>1. requests[q].session \in Sessions
    BY RecordsTyped DEF Activate
  <1>11. requests' \in [Requests -> RequestRec]
    <2>1. requests' = [DoneBut(requests[q].session, q) EXCEPT ![q].pc = "send"]
      BY DEF Activate
    <2>2. PICK f \in [Requests -> RequestRec] : requests' = [f EXCEPT ![q].pc = "send"]
      BY <2>1, DoneButSame
    <2>3. "send" \in RequestPcs
      BY DEF RequestPcs
    <2>4. f[q] \in RequestRec
      BY <2>2
    <2>5. [f[q] EXCEPT !.pc = "send"] \in RequestRec
      BY <2>3, <2>4, RequestStaysTyped
    <2> QED  BY <2>2, <2>5
  <1>12. sessions' \in [Sessions -> SessionRec]
    BY <1>0, <1>1, SessionStaysTyped DEF CodexTypes, Activate
  <1>13. conns' \in [Conns -> ConnRec]
    BY <1>0 DEF CodexTypes, Activate
  <1> QED
    BY <1>0, <1>11, <1>12, <1>13, <1>1 DEF CodexTypes, historyVars, Activate

LEMMA SendTyped ==
    ASSUME CodexInv, NEW q \in Requests, Send(q)
    PROVE  CodexTypes'
  <1>0. CodexTypes /\ 0 \notin Requests /\ 0 \notin Sessions /\ 0 \notin Conns
    BY FieldsTyped DEF CodexInv
  <1>11. requests' \in [Requests -> RequestRec]
    <2>1. \/ requests' = [requests EXCEPT ![q].pc = "read"]
          \/ requests' = [requests EXCEPT ![q].pc = "giveUp", ![q].outcome = "error"]
          \/ requests' = [requests EXCEPT ![q].pc = "again", ![q].outcome = requests[q].outcome]
      BY <1>0 DEF CodexTypes, Send
    <2>2. /\ {"read", "giveUp", "again"} \subseteq RequestPcs /\ requests[q] \in RequestRec
          /\ requests[q].outcome \in {"none", "ok", "error", "refused", "closed", "canceled"}
      BY <1>0 DEF CodexTypes, RequestPcs, RequestRec
    <2>3. /\ [requests[q] EXCEPT !.pc = "read"] \in RequestRec
          /\ [requests[q] EXCEPT !.pc = "giveUp", !.outcome = "error"] \in RequestRec
          /\ [requests[q] EXCEPT !.pc = "again", !.outcome = requests[q].outcome] \in RequestRec
      BY <2>2, RequestStaysTyped
    <2> QED  BY <1>0, <2>1, <2>3 DEF CodexTypes
  <1>12. sessions' \in [Sessions -> SessionRec]
    BY <1>0 DEF CodexTypes, Send
  <1>13. conns' \in [Conns -> ConnRec]
    <2>1. \/ conns' = [conns EXCEPT ![requests[q].conn].asked = Append(@, q)]
          \/ conns' = conns
      BY DEF Send
    <2>2. \A x \in ConnRec : x.asked \in Seq(Requests)
      BY DEF ConnRec
    <2>3. \A x \in ConnRec : [x EXCEPT !.asked = Append(x.asked, q)] \in ConnRec
      <3>1. \A x \in ConnRec : Append(x.asked, q) \in Seq(Requests)
        BY <2>2
      <3> QED  BY <3>1, ConnStaysTyped
    <2> QED  BY <1>0, <2>1, <2>3 DEF CodexTypes
  <1> QED
    BY <1>0, <1>11, <1>12, <1>13 DEF CodexTypes, historyVars, Send

LEMMA SendAgainTyped ==
    ASSUME CodexInv, NEW q \in Requests, SendAgain(q)
    PROVE  CodexTypes'
  <1>0. CodexTypes /\ 0 \notin Requests /\ 0 \notin Sessions /\ 0 \notin Conns
    BY FieldsTyped DEF CodexInv
  <1>1. requests[q].session \in Sessions /\ requests[q].conn \in Conns \cup {0}
    BY RecordsTyped, FieldsTyped DEF SendAgain
  <1>11. requests' \in [Requests -> RequestRec]
    BY <1>0, <1>1, RequestStaysTyped, DoneButSame DEF CodexTypes, RequestPcs, SendAgain
  <1>12. sessions' \in [Sessions -> SessionRec]
    BY <1>0, <1>1, SessionStaysTyped DEF CodexTypes, Invalidate, SendAgain
  <1>13. conns' \in [Conns -> ConnRec]
    BY <1>0, <1>1, ClosedIs DEF CodexTypes, Invalidate, SendAgain
  <1> QED
    BY <1>0, <1>11, <1>12, <1>13, <1>1 DEF CodexTypes, historyVars, SendAgain

LEMMA GiveUpTyped ==
    ASSUME CodexInv, NEW q \in Requests, GiveUp(q)
    PROVE  CodexTypes'
  <1>0. CodexTypes /\ 0 \notin Requests /\ 0 \notin Sessions /\ 0 \notin Conns
    BY FieldsTyped DEF CodexInv
  <1>1. requests[q].session \in Sessions /\ requests[q].conn \in Conns \cup {0}
    BY RecordsTyped, FieldsTyped DEF GiveUp
  <1>11. requests' \in [Requests -> RequestRec]
    BY <1>0, <1>1, RequestStaysTyped, DoneButSame DEF CodexTypes, RequestPcs, GiveUp
  <1>12. sessions' \in [Sessions -> SessionRec]
    BY <1>0, <1>1, SessionStaysTyped DEF CodexTypes, Invalidate, GiveUp
  <1>13. conns' \in [Conns -> ConnRec]
    BY <1>0, <1>1, ClosedIs DEF CodexTypes, Invalidate, GiveUp
  <1> QED
    BY <1>0, <1>11, <1>12, <1>13, <1>1 DEF CodexTypes, historyVars, GiveUp

LEMMA ReadTyped ==
    ASSUME CodexInv, NEW q \in Requests, Read(q)
    PROVE  CodexTypes'
  <1>0. CodexTypes /\ 0 \notin Requests /\ 0 \notin Sessions /\ 0 \notin Conns
    BY FieldsTyped DEF CodexInv
  <1>11. requests' \in [Requests -> RequestRec]
    <2>1. \A x \in RequestRec : x.buf # <<>> => Tail(x.buf) \in Seq(HeardRec)
      BY DEF RequestRec
    <2>2. PICK o \in {"none", "ok", "error"}, pc \in {"read", "giveUp", "leave"} :
             requests' = [requests EXCEPT ![q].buf = Tail(@), ![q].outcome = o, ![q].pc = pc]
      BY DEF Read
    <2>3. requests[q].buf # <<>>
      BY DEF Read
    <2>4. Tail(requests[q].buf) \in Seq(HeardRec)
      BY <1>0, <2>1, <2>3 DEF CodexTypes
    <2> QED  BY <1>0, <2>2, <2>4, RequestStaysTyped DEF CodexTypes, RequestPcs
  <1>12. sessions' \in [Sessions -> SessionRec]
    BY <1>0 DEF CodexTypes, Read
  <1>13. conns' \in [Conns -> ConnRec]
    BY <1>0 DEF CodexTypes, Read
  <1> QED
    BY <1>0, <1>11, <1>12, <1>13 DEF CodexTypes, historyVars, Read

LEMMA ReadClosedTyped ==
    ASSUME CodexInv, NEW q \in Requests, ReadClosed(q)
    PROVE  CodexTypes'
  <1>0. CodexTypes /\ 0 \notin Requests /\ 0 \notin Sessions /\ 0 \notin Conns
    BY FieldsTyped DEF CodexInv
  <1>11. requests' \in [Requests -> RequestRec]
    BY <1>0, RequestStaysTyped, DoneButSame DEF CodexTypes, RequestPcs, ReadClosed
  <1>12. sessions' \in [Sessions -> SessionRec]
    BY <1>0 DEF CodexTypes, ReadClosed
  <1>13. conns' \in [Conns -> ConnRec]
    BY <1>0 DEF CodexTypes, ReadClosed
  <1> QED
    BY <1>0, <1>11, <1>12, <1>13 DEF CodexTypes, historyVars, ReadClosed

LEMMA ReadCanceledTyped ==
    ASSUME CodexInv, NEW q \in Requests, ReadCanceled(q)
    PROVE  CodexTypes'
  <1>0. CodexTypes /\ 0 \notin Requests /\ 0 \notin Sessions /\ 0 \notin Conns
    BY FieldsTyped DEF CodexInv
  <1>11. requests' \in [Requests -> RequestRec]
    BY <1>0, RequestStaysTyped, DoneButSame DEF CodexTypes, RequestPcs, ReadCanceled
  <1>12. sessions' \in [Sessions -> SessionRec]
    BY <1>0 DEF CodexTypes, ReadCanceled
  <1>13. conns' \in [Conns -> ConnRec]
    BY <1>0 DEF CodexTypes, ReadCanceled
  <1> QED
    BY <1>0, <1>11, <1>12, <1>13 DEF CodexTypes, historyVars, ReadCanceled

LEMMA CancelTyped ==
    ASSUME CodexInv, NEW q \in Requests, Cancel(q)
    PROVE  CodexTypes'
  <1>0. CodexTypes /\ 0 \notin Requests /\ 0 \notin Sessions /\ 0 \notin Conns
    BY FieldsTyped DEF CodexInv
  <1>11. requests' \in [Requests -> RequestRec]
    BY <1>0, RequestStaysTyped, DoneButSame DEF CodexTypes, RequestPcs, Cancel
  <1>12. sessions' \in [Sessions -> SessionRec]
    BY <1>0 DEF CodexTypes, Cancel
  <1>13. conns' \in [Conns -> ConnRec]
    BY <1>0 DEF CodexTypes, Cancel
  <1> QED
    BY <1>0, <1>11, <1>12, <1>13 DEF CodexTypes, historyVars, Cancel

LEMMA ReadMessageTyped ==
    ASSUME CodexInv, NEW c \in Conns, ReadMessage(c)
    PROVE  CodexTypes'
  <1>0. CodexTypes /\ 0 \notin Requests /\ 0 \notin Sessions /\ 0 \notin Conns
    BY FieldsTyped DEF CodexInv
  <1>1. /\ Head(conns[c].wire) \in WireRec /\ Tail(conns[c].wire) \in Seq(WireRec)
        /\ sessions[conns[c].session].active \in Requests \cup {0}
    <2>1. conns[c].wire # <<>> /\ conns[c].wire \in Seq(WireRec)
      BY <1>0 DEF CodexTypes, ConnRec, ReadMessage
    <2>2. conns[c].reader # "off"
      BY DEF ReadMessage
    <2>3. conns[c].session \in Sessions
      BY <2>2, RecordsTyped DEF CodexInv, NumbersOK, ConnNo
    <2> QED  BY <2>1, <2>3, FieldsTyped
  <1>11. requests' \in [Requests -> RequestRec]
    BY <1>0 DEF CodexTypes, ReadMessage
  <1>12. sessions' \in [Sessions -> SessionRec]
    BY <1>0 DEF CodexTypes, ReadMessage
  <1>13. conns' \in [Conns -> ConnRec]
    BY <1>0, <1>1, ConnStaysTyped DEF CodexTypes, ReaderPcs, ReadMessage
  <1> QED
    BY <1>0, <1>11, <1>12, <1>13 DEF CodexTypes, historyVars, ReadMessage

LEMMA DeliverTyped ==
    ASSUME CodexInv, NEW c \in Conns, Deliver(c)
    PROVE  CodexTypes'
  <1>0. CodexTypes /\ 0 \notin Requests /\ 0 \notin Sessions /\ 0 \notin Conns
    BY FieldsTyped DEF CodexInv
  <1>1. conns[c].to \in Requests /\ conns[c].session \in Sessions
    BY RecordsTyped, FieldsTyped DEF CodexInv, NumbersOK, ConnNo, Telling, Deliver
  <1>2. Nothing \in WireRec
    BY DEF Nothing, WireRec, Kinds
  <1>11. requests' \in [Requests -> RequestRec]
    <2> DEFINE m == [conn |-> c, kind |-> conns[c].held.kind, of |-> conns[c].held.of]
    <2>1. requests' = requests \/ requests' = [requests EXCEPT ![conns[c].to].buf = Append(@, m)]
      BY DEF Deliver
    <2>2. m \in HeardRec
      BY <1>0 DEF CodexTypes, ConnRec, WireRec, HeardRec
    <2> HIDE DEF m
    <2>3. \A x \in RequestRec : Append(x.buf, m) \in Seq(HeardRec)
      BY <2>2 DEF RequestRec
    <2>4. [requests[conns[c].to] EXCEPT !.buf = Append(@, m)] \in RequestRec
      BY <1>0, <1>1, <2>3, RequestStaysTyped DEF CodexTypes
    <2> QED  BY <1>0, <1>1, <2>1, <2>4 DEF CodexTypes
  <1>12. sessions' \in [Sessions -> SessionRec]
    BY <1>0 DEF CodexTypes, Deliver
  <1>13. conns' \in [Conns -> ConnRec]
    BY <1>0, <1>2, ConnStaysTyped DEF CodexTypes, ReaderPcs, Deliver
  <1> QED
    BY <1>0, <1>11, <1>12, <1>13 DEF CodexTypes, historyVars, Deliver

LEMMA ReadFailsTyped ==
    ASSUME CodexInv, NEW c \in Conns, ReadFails(c)
    PROVE  CodexTypes'
  <1>0. CodexTypes /\ 0 \notin Requests /\ 0 \notin Sessions /\ 0 \notin Conns
    BY FieldsTyped DEF CodexInv
  <1>1. sessions[conns[c].session].active \in Requests \cup {0}
    <2>1. conns[c].reader # "off"
      BY DEF ReadFails
    <2> QED  BY <2>1, RecordsTyped, FieldsTyped DEF CodexInv, NumbersOK, ConnNo
  <1>11. requests' \in [Requests -> RequestRec]
    BY <1>0 DEF CodexTypes, ReadFails
  <1>12. sessions' \in [Sessions -> SessionRec]
    BY <1>0 DEF CodexTypes, ReadFails
  <1>13. conns' \in [Conns -> ConnRec]
    BY <1>0, <1>1, ConnStaysTyped DEF CodexTypes, ReaderPcs, ReadFails
  <1> QED
    BY <1>0, <1>11, <1>12, <1>13 DEF CodexTypes, historyVars, ReadFails

LEMMA TellLostTyped ==
    ASSUME CodexInv, NEW c \in Conns, TellLost(c)
    PROVE  CodexTypes'
  <1>0. CodexTypes /\ 0 \notin Requests /\ 0 \notin Sessions /\ 0 \notin Conns
    BY FieldsTyped DEF CodexInv
  <1>1. conns[c].to \in Requests /\ conns[c].session \in Sessions
    BY RecordsTyped, FieldsTyped DEF CodexInv, NumbersOK, ConnNo, Telling, TellLost
  <1>11. requests' \in [Requests -> RequestRec]
    <2> DEFINE m == [conn |-> c, kind |-> "lost", of |-> 0]
               told == [requests EXCEPT ![conns[c].to].buf = Append(@, m)]
    <2>1. \E f \in {requests, told}
            : requests' = f \/ requests' = [f EXCEPT ![conns[c].to].done = TRUE]
      BY DEF TellLost
    <2>2. m \in HeardRec
      BY DEF HeardRec
    <2>3. \A x \in RequestRec : Append(x.buf, m) \in Seq(HeardRec)
      BY <2>2 DEF RequestRec
    <2>4. told \in [Requests -> RequestRec]
      <3> HIDE DEF m
      <3> QED  BY <1>0, <1>1, <2>3, RequestStaysTyped DEF CodexTypes
    <2> HIDE DEF told
    <2>5. ASSUME NEW f \in [Requests -> RequestRec]
          PROVE  [f EXCEPT ![conns[c].to].done = TRUE] \in [Requests -> RequestRec]
      BY <1>1, RequestStaysTyped
    <2> QED  BY <1>0, <2>1, <2>4, <2>5 DEF CodexTypes
  <1>12. sessions' \in [Sessions -> SessionRec]
    BY <1>0, <1>1, SessionStaysTyped DEF CodexTypes, TellLost
  <1>13. conns' \in [Conns -> ConnRec]
    BY <1>0, <1>1, ConnStaysTyped DEF CodexTypes, ReaderPcs, TellLost
  <1> QED
    BY <1>0, <1>11, <1>12, <1>13, <1>1 DEF CodexTypes, historyVars, TellLost

LEMMA ShutChannelTyped ==
    ASSUME CodexInv, NEW c \in Conns, ShutChannel(c)
    PROVE  CodexTypes'
  <1>0. CodexTypes /\ 0 \notin Requests /\ 0 \notin Sessions /\ 0 \notin Conns
    BY FieldsTyped DEF CodexInv
  <1>1. conns[c].to \in Requests /\ conns[c].session \in Sessions
    BY RecordsTyped, FieldsTyped DEF CodexInv, NumbersOK, ConnNo, Telling, ShutChannel
  <1>11. requests' \in [Requests -> RequestRec]
    BY <1>0, <1>1, RequestStaysTyped, DoneButSame DEF CodexTypes, RequestPcs, ShutChannel
  <1>12. sessions' \in [Sessions -> SessionRec]
    BY <1>0 DEF CodexTypes, ShutChannel
  <1>13. conns' \in [Conns -> ConnRec]
    BY <1>0, <1>1, ConnStaysTyped DEF CodexTypes, ReaderPcs, ShutChannel
  <1> QED
    BY <1>0, <1>11, <1>12, <1>13, <1>1 DEF CodexTypes, historyVars, ShutChannel

LEMMA ReaderLeavesTyped ==
    ASSUME CodexInv, NEW c \in Conns, ReaderLeaves(c)
    PROVE  CodexTypes'
  <1>0. CodexTypes /\ 0 \notin Requests /\ 0 \notin Sessions /\ 0 \notin Conns
    BY FieldsTyped DEF CodexInv
  <1>1. conns[c].session \in Sessions
    BY RecordsTyped DEF CodexInv, NumbersOK, ConnNo, ReaderLeaves
  <1>11. requests' \in [Requests -> RequestRec]
    BY <1>0 DEF CodexTypes, ReaderLeaves
  <1>12. sessions' \in [Sessions -> SessionRec]
    BY <1>0, <1>1, SessionStaysTyped DEF CodexTypes, ReaderLeaves
  <1>13. conns' \in [Conns -> ConnRec]
    <2>1. Closed(c) \in [Conns -> ConnRec]
      BY ClosedIs
    <2> QED  BY <1>0, <2>1, ConnStaysTyped DEF CodexTypes, ReaderPcs, ReaderLeaves
  <1> QED
    BY <1>0, <1>11, <1>12, <1>13 DEF CodexTypes, historyVars, ReaderLeaves

LEMMA AnswersTyped ==
    ASSUME CodexInv, NEW c \in Conns, Answers(c)
    PROVE  CodexTypes'
  <1>0. CodexTypes /\ 0 \notin Requests /\ 0 \notin Sessions /\ 0 \notin Conns
    BY FieldsTyped DEF CodexInv
  <1>11. requests' \in [Requests -> RequestRec]
    BY <1>0 DEF CodexTypes, Answers
  <1>12. sessions' \in [Sessions -> SessionRec]
    BY <1>0 DEF CodexTypes, Answers
  <1>13. conns' \in [Conns -> ConnRec]
    <2>1. PICK kind \in {"data", "fail", "end"} : conns' =
             [conns EXCEPT ![c].wire = Append(@, [kind |-> kind, of |-> Head(conns[c].asked)]),
                           ![c].sent = IF kind = "end" THEN 0 ELSE conns[c].sent + 1,
                           ![c].asked = IF kind = "end" THEN Tail(@) ELSE @]
      BY DEF Answers
    <2>2. conns[c].asked # <<>> /\ conns[c].asked \in Seq(Requests) /\ conns[c].sent \in Nat
          /\ conns[c].wire \in Seq(WireRec) /\ conns[c] \in ConnRec
      BY <1>0 DEF CodexTypes, ConnRec, Answers
    <2> DEFINE m == [kind |-> kind, of |-> Head(conns[c].asked)]
               w == Append(conns[c].wire, m)
               n == IF kind = "end" THEN 0 ELSE conns[c].sent + 1
               rest == IF kind = "end" THEN Tail(conns[c].asked) ELSE conns[c].asked
    <2>3. m \in WireRec
      BY <2>2 DEF WireRec, Kinds
    <2>4. w \in Seq(WireRec) /\ n \in Nat /\ rest \in Seq(Requests)
      <3> HIDE DEF m
      <3> QED  BY <2>2, <2>3
    <2>5. conns' = [conns EXCEPT ![c].wire = w, ![c].sent = n, ![c].asked = rest]
      BY <1>0, <2>1 DEF CodexTypes
    <2> HIDE DEF w, n, rest
    <2>6. \A x \in ConnRec : [x EXCEPT !.wire = w, !.sent = n, !.asked = rest] \in ConnRec
      BY <2>4, ConnStaysTyped
    <2> QED  BY <1>0, <2>5, <2>6 DEF CodexTypes
  <1> QED
    BY <1>0, <1>11, <1>12, <1>13 DEF CodexTypes, historyVars, Answers

LEMMA BreaksTyped ==
    ASSUME CodexInv, NEW c \in Conns, Breaks(c)
    PROVE  CodexTypes'
  <1>0. CodexTypes /\ 0 \notin Requests /\ 0 \notin Sessions /\ 0 \notin Conns
    BY FieldsTyped DEF CodexInv
  <1>11. requests' \in [Requests -> RequestRec]
    BY <1>0 DEF CodexTypes, Breaks
  <1>12. sessions' \in [Sessions -> SessionRec]
    BY <1>0 DEF CodexTypes, Breaks
  <1>13. conns' \in [Conns -> ConnRec]
    BY <1>0, ConnStaysTyped DEF CodexTypes, ReaderPcs, Breaks
  <1> QED
    BY <1>0, <1>11, <1>12, <1>13 DEF CodexTypes, historyVars, Breaks

LEMMA HangUpTyped ==
    ASSUME CodexInv, HangUp
    PROVE  CodexTypes'
  <1>0. CodexTypes /\ 0 \notin Requests /\ 0 \notin Sessions /\ 0 \notin Conns
    BY FieldsTyped DEF CodexInv
  <1>11. requests' \in [Requests -> RequestRec]
    BY <1>0 DEF CodexTypes, HangUp
  <1>12. sessions' \in [Sessions -> SessionRec]
    BY <1>0 DEF CodexTypes, HangUp
  <1>13. conns' \in [Conns -> ConnRec]
    BY <1>0 DEF CodexTypes, HangUp
  <1> QED
    BY <1>0, <1>11, <1>12, <1>13 DEF CodexTypes, historyVars, HangUp

LEMMA UnstoreTyped ==
    ASSUME CodexInv, Unstore
    PROVE  CodexTypes'
  <1>0. CodexTypes /\ 0 \notin Requests /\ 0 \notin Sessions /\ 0 \notin Conns
    BY FieldsTyped DEF CodexInv
  <1>11. requests' \in [Requests -> RequestRec]
    BY <1>0 DEF CodexTypes, Unstore
  <1>12. sessions' \in [Sessions -> SessionRec]
    BY <1>0 DEF CodexTypes, Unstore
  <1>13. conns' \in [Conns -> ConnRec]
    BY <1>0 DEF CodexTypes, Unstore
  <1> QED
    BY <1>0, <1>11, <1>12, <1>13 DEF CodexTypes, historyVars, Unstore

LEMMA MatchTyped ==
    ASSUME CodexInv, NEW a \in Auths, Match(a)
    PROVE  CodexTypes'
  <1>0. CodexTypes /\ 0 \notin Requests /\ 0 \notin Sessions /\ 0 \notin Conns
    BY FieldsTyped DEF CodexInv
  <1>11. requests' \in [Requests -> RequestRec]
    BY <1>0 DEF CodexTypes, Match
  <1>12. sessions' \in [Sessions -> SessionRec]
    BY <1>0 DEF CodexTypes, Match
  <1>13. conns' \in [Conns -> ConnRec]
    BY <1>0 DEF CodexTypes, Match
  <1> QED
    BY <1>0, <1>11, <1>12, <1>13 DEF CodexTypes, historyVars, Match

LEMMA CloseSessionTyped ==
    ASSUME CodexInv, NEW k \in Closers, CloseSession(k)
    PROVE  CodexTypes'
  <1>0. CodexTypes /\ 0 \notin Requests /\ 0 \notin Sessions /\ 0 \notin Conns
    BY FieldsTyped DEF CodexInv
  <1>11. requests' \in [Requests -> RequestRec]
    BY <1>0 DEF CodexTypes, CloseSession
  <1>12. sessions' \in [Sessions -> SessionRec]
    BY <1>0, SessionStaysTyped DEF CodexTypes, CloseSession
  <1>13. conns' \in [Conns -> ConnRec]
    <2>1. \A d \in Conns \cup {0} : Closed(d) \in [Conns -> ConnRec]
      BY ClosedIs
    <2>2. \A s \in Sessions : sessions[s].conn \in Conns \cup {0}
      BY FieldsTyped
    <2> QED  BY <1>0, <2>1, <2>2 DEF CodexTypes, CloseSession
  <1> QED
    BY <1>0, <1>11, <1>12, <1>13 DEF CodexTypes, historyVars, CloseSession
-----------------------------------------------------------------------------
(* Steps. *)

\* A request that was sent, or is about to be, goes on; the mutex stays with it.
GoesOn(q) ==
    /\ requests[q].pc \in {"send", "read"}
    /\ requests'[q].pc \in {"read", "again", "giveUp", "leave"}
    /\ \A p \in Requests :
          /\ requests'[p].used = requests[p].used /\ requests'[p].session = requests[p].session
          /\ requests'[p].conn = requests[p].conn /\ requests'[p].retry = requests[p].retry
          /\ requests'[p].shutBy = requests[p].shutBy
          /\ p # q => requests'[p].pc = requests[p].pc
    /\ \A d \in Conns : SameConn(conns[d], conns'[d])
    /\ UNCHANGED <<store, sessions, closers, crashed, hungUp, shadowed, late>>

LEMMA GoesOnInv ==
    ASSUME CodexInv, CodexTypes', NEW q \in Requests, GoesOn(q)
    PROVE  CodexInv'
  <1>1. InTurn /\ NumbersOK /\ MutexOK /\ ConnOK /\ OpenOK /\ ActiveOK /\ TellingOK /\ ShutOK
    BY DEF CodexInv
  <1>2. InTurn'
    BY <1>1 DEF InTurn, GoesOn, SameConn
  <1>3. NumbersOK'
    BY <1>1 DEF NumbersOK, RequestNo, ConnNo, Telling, GoesOn, SameConn
  <1>4. ASSUME NEW p \in Requests, NEW t \in Sessions PROVE MutexOf(p, t)'
    <2>1. CASE p = q
      BY <1>1, <2>1 DEF MutexOK, MutexOf, GoesOn, Holds, Again, Past
    <2>2. CASE p # q
      BY <1>1, <2>2 DEF MutexOK, MutexOf, GoesOn, Holds, Again, Past
    <2> QED  BY <2>1, <2>2
  <1>5. ASSUME NEW t \in Sessions, NEW d \in Conns PROVE ConnOf(t, d)'
    BY <1>1 DEF ConnOK, ConnOf, GoesOn, SameConn
  <1>6. ASSUME NEW d \in Conns, NEW t \in Sessions PROVE OpenOf(d, t)'
    BY <1>1 DEF OpenOK, OpenOf, Closing, GoesOn, SameConn
  <1>7. ASSUME NEW t \in Sessions, NEW p \in Requests PROVE ActiveOf(t, p)'
    <2>1. CASE p = q
      BY <1>1, <2>1 DEF ActiveOK, ActiveOf, GoesOn, Holds, Before, Again, SameConn
    <2>2. CASE p # q
      BY <1>1, <2>2 DEF ActiveOK, ActiveOf, GoesOn, Holds, Before, Again, SameConn
    <2> QED  BY <2>1, <2>2
  <1>8. ASSUME NEW d \in Conns, NEW p \in Requests PROVE TellsOf(d, p)'
    <2>1. CASE p = q
      BY <1>1, <2>1 DEF TellingOK, TellsOf, GoesOn, Before, Again, SameConn
    <2>2. CASE p # q
      BY <1>1, <2>2 DEF TellingOK, TellsOf, GoesOn, Before, Again, SameConn
    <2> QED  BY <2>1, <2>2
  <1>9. ASSUME NEW p \in Requests, NEW d \in Conns PROVE ShutOf(p, d)'
    <2>1. CASE p = q
      BY <1>1, <2>1 DEF ShutOK, ShutOf, GoesOn, Before, Again, SameConn
    <2>2. CASE p # q
      BY <1>1, <2>2 DEF ShutOK, ShutOf, GoesOn, Before, Again, SameConn
    <2> QED  BY <2>1, <2>2
  <1> QED
    BY <1>1, <1>2, <1>3, <1>4, <1>5, <1>6, <1>7, <1>8, <1>9
    DEF CodexInv, MutexOK, ConnOK, OpenOK, ActiveOK, TellingOK, ShutOK, GoesOn

\* Nothing that the invariant looks at changes.
Rests ==
    /\ \A p \in Requests : SameRequest(requests[p], requests'[p])
    /\ \A d \in Conns : SameConn(conns[d], conns'[d])
    /\ UNCHANGED <<store, sessions, hungUp, shadowed, late>>
    /\ crashed' => crashed
    /\ \A k \in Closers : closers[k].pc = "close" =>
          closers'[k].pc = "close" /\ closers'[k].session = closers[k].session
    /\ closers["downstream"].pc = "idle" => closers'["downstream"].pc = "idle"

LEMMA RestsInv ==
    ASSUME CodexInv, CodexTypes', Rests
    PROVE  CodexInv'
  <1>1. InTurn /\ NumbersOK /\ MutexOK /\ ConnOK /\ OpenOK /\ ActiveOK /\ TellingOK /\ ShutOK
    BY DEF CodexInv
  <1>2. InTurn'
    BY <1>1 DEF InTurn, Rests, SameRequest, SameConn
  <1>3. NumbersOK'
    BY <1>1 DEF NumbersOK, RequestNo, ConnNo, Telling, Rests, SameRequest, SameConn
  <1>4. ASSUME NEW p \in Requests, NEW t \in Sessions PROVE MutexOf(p, t)'
    BY <1>1 DEF MutexOK, MutexOf, Rests, Holds, Again, Past, SameRequest
  <1>5. ASSUME NEW t \in Sessions, NEW d \in Conns PROVE ConnOf(t, d)'
    BY <1>1 DEF ConnOK, ConnOf, Rests, SameConn
  <1>6. ASSUME NEW d \in Conns, NEW t \in Sessions PROVE OpenOf(d, t)'
    BY <1>1 DEF OpenOK, OpenOf, Closing, Rests, SameConn
  <1>7. ASSUME NEW t \in Sessions, NEW p \in Requests PROVE ActiveOf(t, p)'
    BY <1>1 DEF ActiveOK, ActiveOf, Rests, Holds, Before, Again, SameRequest, SameConn
  <1>8. ASSUME NEW d \in Conns, NEW p \in Requests PROVE TellsOf(d, p)'
    BY <1>1 DEF TellingOK, TellsOf, Rests, Before, Again, SameRequest, SameConn
  <1>9. ASSUME NEW p \in Requests, NEW d \in Conns PROVE ShutOf(p, d)'
    BY <1>1 DEF ShutOK, ShutOf, Rests, Before, Again, SameRequest, SameConn
  <1>10. OpenOK'
    BY <1>1, <1>6 DEF OpenOK, Rests, Closers
  <1> QED
    BY <1>1, <1>2, <1>3, <1>4, <1>5, <1>7, <1>8, <1>9, <1>10
    DEF CodexInv, MutexOK, ConnOK, ActiveOK, TellingOK, ShutOK, Rests

\* The mutex is locked.
LEMMA LockInv ==
    ASSUME CodexInv, CodexTypes', NEW q \in Requests, Lock(q)
    PROVE  CodexInv'
  <1> DEFINE s == requests[q].session
  <1>0. /\ requests \in [Requests -> RequestRec] /\ sessions \in [Sessions -> SessionRec]
        /\ conns \in [Conns -> ConnRec]
    BY DEF CodexInv, CodexTypes
  <1>1a. RequestNo(requests[q]) /\ MutexOf(q, s) /\ s \in Sessions /\ s = requests[q].session
    BY RecordsTyped DEF CodexInv, NumbersOK, MutexOK, Lock
  <1>1. s \in Sessions /\ s = requests[q].session /\ requests[q].pc = "lock"
          /\ ~requests[q].retry /\ sessions[s].lock = 0
    BY <1>1a DEF Lock, RequestNo
  <1>2. /\ requests'[q].used = requests[q].used /\ requests'[q].pc = "ensure"
        /\ requests'[q].session = requests[q].session /\ requests'[q].conn = requests[q].conn
        /\ requests'[q].retry = requests[q].retry /\ requests'[q].shutBy = requests[q].shutBy
        /\ \A p \in Requests : p # q => SameRequest(requests[p], requests'[p])
    BY <1>0 DEF Lock, RequestRec, SameRequest
  <1>3. /\ sessions'[s].used = sessions[s].used /\ sessions'[s].conn = sessions[s].conn
        /\ sessions'[s].active = sessions[s].active /\ sessions'[s].lock = q
        /\ \A t \in Sessions : t # s => SameSession(sessions[t], sessions'[t])
    BY <1>0, <1>1 DEF Lock, SessionRec, SameSession
  <1>4. UNCHANGED <<store, conns, closers, crashed, hungUp, historyVars>>
    BY DEF Lock
  <1> HIDE DEF s
  <1>5. InTurn /\ NumbersOK /\ MutexOK /\ ConnOK /\ OpenOK /\ ActiveOK /\ TellingOK /\ ShutOK
    BY DEF CodexInv
  <1>6. InTurn'
    BY FieldsTyped, <1>0, <1>1, <1>2, <1>3, <1>4, <1>5
       DEF InTurn, SameRequest, SameSession, SameConn
  <1>7. NumbersOK'
    BY FieldsTyped, <1>0, <1>1, <1>2, <1>3, <1>4, <1>5
       DEF NumbersOK, RequestNo, ConnNo, Telling, SameRequest, SameSession, SameConn
  <1>8. ASSUME NEW p \in Requests, NEW t \in Sessions PROVE MutexOf(p, t)'
    <2>1. CASE p = q
      BY FieldsTyped, <1>0, <1>1, <1>2, <1>3, <1>4, <1>5, <2>1
         DEF MutexOK, MutexOf, SameRequest, SameSession, SameConn, historyVars, Holds, Again,
             Past
    <2>2. CASE p # q
      BY FieldsTyped, <1>0, <1>1, <1>2, <1>3, <1>4, <1>5, <2>2
         DEF MutexOK, MutexOf, SameRequest, SameSession, SameConn, historyVars, Holds, Again,
             Past
    <2> QED  BY <2>1, <2>2
  <1>9. ASSUME NEW t \in Sessions, NEW d \in Conns PROVE ConnOf(t, d)'
    BY FieldsTyped, <1>0, <1>1, <1>3, <1>4, <1>5
       DEF ConnOK, ConnOf, SameRequest, SameSession, SameConn, historyVars
  <1>10. ASSUME NEW d \in Conns, NEW t \in Sessions PROVE OpenOf(d, t)'
    BY FieldsTyped, <1>0, <1>1, <1>4, <1>5
       DEF OpenOK, OpenOf, SameRequest, SameSession, SameConn, historyVars, Closing
  <1>11. ASSUME NEW t \in Sessions, NEW p \in Requests PROVE ActiveOf(t, p)'
    BY FieldsTyped, <1>0, <1>1, <1>2, <1>3, <1>4, <1>5
       DEF ActiveOK, ActiveOf, SameRequest, SameSession, SameConn, historyVars, Holds, Before,
           Again
  <1>12. ASSUME NEW d \in Conns, NEW p \in Requests PROVE TellsOf(d, p)'
    BY FieldsTyped, <1>0, <1>1, <1>2, <1>4, <1>5
       DEF TellingOK, TellsOf, SameRequest, SameSession, SameConn, historyVars, Before, Again
  <1>13. ASSUME NEW p \in Requests, NEW d \in Conns PROVE ShutOf(p, d)'
    BY FieldsTyped, <1>0, <1>1, <1>2, <1>4, <1>5
       DEF ShutOK, ShutOf, SameRequest, SameSession, SameConn, historyVars, Before, Again
  <1> QED
    BY <1>6, <1>7, <1>8, <1>9, <1>10, <1>11, <1>12, <1>13, <1>4, <1>5
       DEF CodexInv, MutexOK, ConnOK, OpenOK, ActiveOK, TellingOK, ShutOK, historyVars

\* A new connection is the one of the session.
LEMMA DialSucceedsInv ==
    ASSUME CodexInv, CodexTypes', NEW q \in Requests, DialSucceeds(q)
    PROVE  CodexInv'
  <1> DEFINE s == requests[q].session
             c == Next1(conns)
  <1>0. /\ requests \in [Requests -> RequestRec] /\ sessions \in [Sessions -> SessionRec]
        /\ conns \in [Conns -> ConnRec]
    BY DEF CodexInv, CodexTypes
  <1>1a. RequestNo(requests[q]) /\ MutexOf(q, s) /\ s \in Sessions /\ s = requests[q].session
    BY RecordsTyped DEF CodexInv, NumbersOK, MutexOK, DialSucceeds
  <1>1b. c \in Conns /\ ~conns[c].used /\ \A d \in Conns : d < c => conns[d].used
    <2>1. c # 0 /\ DOMAIN conns = 1 .. MaxConns /\ MaxConns \in Nat
            /\ \A d \in Conns : conns[d].used \in BOOLEAN
      BY <1>0, CodexAssumption, FieldsTyped DEF DialSucceeds, Conns
    <2> QED  BY <2>1, NextNumber DEF CodexInv, InTurn, Conns
  <1>1. /\ s \in Sessions /\ requests[q].pc = "dial" /\ sessions[s].lock = q /\ sessions[s].conn = 0
        /\ c \in Conns /\ ~conns[c].used /\ \A d \in Conns : d < c => conns[d].used
        /\ conns[c].session = 0 /\ conns[c].reader = "off" /\ conns[c].to = 0
    BY <1>1a, <1>1b DEF DialSucceeds, CodexInv, NumbersOK, ConnNo, MutexOf, Holds, Telling
  <1>2. /\ requests'[q].used = requests[q].used
        /\ requests'[q].pc = (IF requests[q].retry THEN "send" ELSE "activate")
        /\ requests'[q].session = requests[q].session /\ requests'[q].conn = c
        /\ requests'[q].retry = requests[q].retry /\ requests'[q].shutBy = requests[q].shutBy
        /\ \A p \in Requests : p # q => SameRequest(requests[p], requests'[p])
    BY <1>0 DEF DialSucceeds, RequestRec, SameRequest
  <1>3. /\ sessions'[s].used = sessions[s].used /\ sessions'[s].conn = c
        /\ sessions'[s].active = sessions[s].active /\ sessions'[s].lock = sessions[s].lock
        /\ \A t \in Sessions : t # s => SameSession(sessions[t], sessions'[t])
    BY <1>0, <1>1 DEF DialSucceeds, SessionRec, SameSession
  <1>4. /\ conns'[c].used = TRUE /\ conns'[c].state = "open" /\ conns'[c].session = s
        /\ conns'[c].reader = "read" /\ conns'[c].to = conns[c].to
        /\ \A d \in Conns : d # c => SameConn(conns[d], conns'[d])
    BY <1>0, <1>1 DEF DialSucceeds, ConnRec, SameConn
  <1>5. /\ UNCHANGED <<store, closers, crashed, hungUp, foreign, shadowed, unheard>>
        /\ late' = IF store # s THEN late \cup {s} ELSE late
    BY DEF DialSucceeds
  <1> HIDE DEF s, c
  <1>6. InTurn /\ NumbersOK /\ MutexOK /\ ConnOK /\ OpenOK /\ ActiveOK /\ TellingOK /\ ShutOK
    BY DEF CodexInv
  <1>7. InTurn'
    BY FieldsTyped, <1>0, <1>1, <1>2, <1>3, <1>4, <1>5, <1>6
       DEF InTurn, SameRequest, SameSession, SameConn
  <1>8. NumbersOK'
    BY FieldsTyped, <1>0, <1>1, <1>2, <1>3, <1>4, <1>5, <1>6
       DEF NumbersOK, RequestNo, ConnNo, Telling, SameRequest, SameSession, SameConn
  <1>9. ASSUME NEW p \in Requests, NEW t \in Sessions PROVE MutexOf(p, t)'
    BY FieldsTyped, <1>0, <1>1, <1>2, <1>3, <1>5, <1>6
       DEF MutexOK, MutexOf, SameRequest, SameSession, SameConn, historyVars, Holds, Again, Past
  <1>10. ASSUME NEW t \in Sessions, NEW d \in Conns PROVE ConnOf(t, d)'
    BY FieldsTyped, <1>0, <1>1, <1>3, <1>4, <1>5, <1>6
       DEF ConnOK, ConnOf, SameRequest, SameSession, SameConn, historyVars
  <1>11. ASSUME NEW d \in Conns, NEW t \in Sessions PROVE OpenOf(d, t)'
    BY FieldsTyped, <1>0, <1>1, <1>4, <1>5, <1>6
       DEF OpenOK, OpenOf, SameRequest, SameSession, SameConn, historyVars, Closing
  <1>12. ASSUME NEW t \in Sessions, NEW p \in Requests PROVE ActiveOf(t, p)'
    <2>1. CASE p = q
      BY FieldsTyped, <1>0, <1>1, <1>2, <1>3, <1>4, <1>5, <1>6, <2>1
         DEF ActiveOK, ActiveOf, SameRequest, SameSession, SameConn, historyVars, Holds, Before,
             Again, MutexOK, MutexOf
    <2>2. CASE p # q
      BY FieldsTyped, <1>0, <1>1, <1>2, <1>3, <1>4, <1>5, <1>6, <2>2
         DEF ActiveOK, ActiveOf, SameRequest, SameSession, SameConn, historyVars, Holds, Before,
             Again, MutexOK, MutexOf
    <2> QED  BY <2>1, <2>2
  <1>13. ASSUME NEW d \in Conns, NEW p \in Requests PROVE TellsOf(d, p)'
    BY FieldsTyped, <1>0, <1>1, <1>2, <1>4, <1>5, <1>6
       DEF TellingOK, TellsOf, SameRequest, SameSession, SameConn, historyVars, Before, Again
  <1>14. ASSUME NEW p \in Requests, NEW d \in Conns PROVE ShutOf(p, d)'
    BY FieldsTyped, <1>0, <1>1, <1>2, <1>4, <1>5, <1>6
       DEF ShutOK, ShutOf, SameRequest, SameSession, SameConn, historyVars, Before, Again
  <1> QED
    BY <1>7, <1>8, <1>9, <1>10, <1>11, <1>12, <1>13, <1>14, <1>5, <1>6
       DEF CodexInv, MutexOK, ConnOK, OpenOK, ActiveOK, TellingOK, ShutOK, historyVars

\* A request takes the connection of its session.
LEMMA EnsureInv ==
    ASSUME CodexInv, CodexTypes', NEW q \in Requests, Ensure(q)
    PROVE  CodexInv'
  <1> DEFINE s == requests[q].session
             c == sessions[s].conn
  <1>0. /\ requests \in [Requests -> RequestRec] /\ sessions \in [Sessions -> SessionRec]
        /\ conns \in [Conns -> ConnRec]
    BY DEF CodexInv, CodexTypes
  <1>1. /\ s \in Sessions /\ s = requests[q].session /\ requests[q].pc = "ensure"
        /\ RequestNo(requests[q]) /\ MutexOf(q, s)
        /\ c = sessions[s].conn /\ c \in Conns \cup {0} /\ (requests[q].retry => c = 0)
    BY RecordsTyped, FieldsTyped DEF CodexInv, NumbersOK, MutexOK, MutexOf, Again, Ensure
  <1>2. /\ requests'[q].used = requests[q].used
        /\ requests'[q].pc = (IF c = 0 THEN "dial"
                ELSE IF requests[q].retry THEN "send" ELSE "activate")
        /\ requests'[q].session = requests[q].session /\ requests'[q].conn = c
        /\ requests'[q].retry = requests[q].retry /\ requests'[q].shutBy = requests[q].shutBy
        /\ \A p \in Requests : p # q => SameRequest(requests[p], requests'[p])
    BY <1>0 DEF Ensure, RequestRec, SameRequest
  <1>3. UNCHANGED <<store, sessions, conns, closers, crashed, hungUp, historyVars>>
    BY DEF Ensure
  <1> HIDE DEF s, c
  <1>4. InTurn /\ NumbersOK /\ MutexOK /\ ConnOK /\ OpenOK /\ ActiveOK /\ TellingOK /\ ShutOK
    BY DEF CodexInv
  <1>5. InTurn'
    BY FieldsTyped, <1>0, <1>1, <1>2, <1>3, <1>4 DEF InTurn, SameRequest, SameSession, SameConn
  <1>6. NumbersOK'
    BY FieldsTyped, <1>0, <1>1, <1>2, <1>3, <1>4
       DEF NumbersOK, RequestNo, ConnNo, Telling, SameRequest, SameSession, SameConn
  <1>7. ASSUME NEW p \in Requests, NEW t \in Sessions PROVE MutexOf(p, t)'
    <2>1. CASE p = q
      BY FieldsTyped, <1>0, <1>1, <1>2, <1>3, <1>4, <2>1
         DEF MutexOK, MutexOf, SameRequest, SameSession, SameConn, historyVars, Holds, Again,
             Past, RequestNo, Past, Again
    <2>2. CASE p # q
      BY FieldsTyped, <1>0, <1>1, <1>2, <1>3, <1>4, <2>2
         DEF MutexOK, MutexOf, SameRequest, SameSession, SameConn, historyVars, Holds, Again,
             Past, RequestNo, Past, Again
    <2> QED  BY <2>1, <2>2
  <1>8. ASSUME NEW t \in Sessions, NEW d \in Conns PROVE ConnOf(t, d)'
    BY FieldsTyped, <1>0, <1>1, <1>3, <1>4
       DEF ConnOK, ConnOf, SameRequest, SameSession, SameConn, historyVars
  <1>9. ASSUME NEW d \in Conns, NEW t \in Sessions PROVE OpenOf(d, t)'
    BY FieldsTyped, <1>0, <1>1, <1>3, <1>4
       DEF OpenOK, OpenOf, SameRequest, SameSession, SameConn, historyVars, Closing
  <1>10. ASSUME NEW t \in Sessions, NEW p \in Requests PROVE ActiveOf(t, p)'
    <2>1. CASE p = q
      BY FieldsTyped, <1>0, <1>1, <1>2, <1>3, <1>4, <2>1
         DEF ActiveOK, ActiveOf, SameRequest, SameSession, SameConn, historyVars, Holds, Before,
             Again
    <2>2. CASE p # q
      BY FieldsTyped, <1>0, <1>1, <1>2, <1>3, <1>4, <2>2
         DEF ActiveOK, ActiveOf, SameRequest, SameSession, SameConn, historyVars, Holds, Before,
             Again
    <2> QED  BY <2>1, <2>2
  <1>11. ASSUME NEW d \in Conns, NEW p \in Requests PROVE TellsOf(d, p)'
    BY FieldsTyped, <1>0, <1>1, <1>2, <1>3, <1>4
       DEF TellingOK, TellsOf, SameRequest, SameSession, SameConn, historyVars, Before, Again
  <1>12. ASSUME NEW p \in Requests, NEW d \in Conns PROVE ShutOf(p, d)'
    BY FieldsTyped, <1>0, <1>1, <1>2, <1>3, <1>4
       DEF ShutOK, ShutOf, SameRequest, SameSession, SameConn, historyVars, Before, Again
  <1> QED
    BY <1>5, <1>6, <1>7, <1>8, <1>9, <1>10, <1>11, <1>12, <1>3, <1>4
       DEF CodexInv, MutexOK, ConnOK, OpenOK, ActiveOK, TellingOK, ShutOK, historyVars

\* A handshake that fails.
LEMMA DialFailsInv ==
    ASSUME CodexInv, CodexTypes', NEW q \in Requests, DialFails(q)
    PROVE  CodexInv'
  <1> DEFINE s == requests[q].session
  <1>0. /\ requests \in [Requests -> RequestRec] /\ sessions \in [Sessions -> SessionRec]
        /\ conns \in [Conns -> ConnRec]
    BY DEF CodexInv, CodexTypes
  <1>1. /\ s \in Sessions /\ s = requests[q].session /\ requests[q].pc = "dial"
        /\ RequestNo(requests[q]) /\ MutexOf(q, s)
    BY RecordsTyped DEF CodexInv, NumbersOK, MutexOK, DialFails
  <1>2. /\ requests'[q].used = requests[q].used /\ requests'[q].pc = "ended"
        /\ requests'[q].session = requests[q].session /\ requests'[q].conn = requests[q].conn
        /\ requests'[q].retry = requests[q].retry /\ requests'[q].shutBy = requests[q].shutBy
        /\ \A p \in Requests : p # q => SameRequest(requests[p], requests'[p])
    <2>1. requests' = [DoneBut(s, 0) EXCEPT ![q].pc = "ended", ![q].outcome = "error"]
      BY DEF DialFails, s
    <2>2. /\ DoneBut(s, 0) \in [Requests -> RequestRec]
          /\ \A p \in Requests : SameRequest(requests[p], DoneBut(s, 0)[p])
      BY DoneButSame
    <2> HIDE DEF s
    <2>3. QED  BY <2>1, <2>2 DEF RequestRec, SameRequest
  <1>3. /\ sessions'[s].used = sessions[s].used /\ sessions'[s].conn = sessions[s].conn
        /\ sessions'[s].active = (IF sessions[s].active = q THEN 0 ELSE sessions[s].active)
        /\ sessions'[s].lock = 0
        /\ \A t \in Sessions : t # s => SameSession(sessions[t], sessions'[t])
    BY <1>0, <1>1 DEF DialFails, Cleared, SessionRec, SameSession
  <1>4. UNCHANGED <<store, conns, closers, crashed, hungUp, historyVars>>
    BY DEF DialFails
  <1> HIDE DEF s
  <1>5. InTurn /\ NumbersOK /\ MutexOK /\ ConnOK /\ OpenOK /\ ActiveOK /\ TellingOK /\ ShutOK
    BY DEF CodexInv
  <1>6. InTurn'
    BY FieldsTyped, <1>0, <1>1, <1>2, <1>3, <1>4, <1>5
       DEF InTurn, SameRequest, SameSession, SameConn
  <1>7. NumbersOK'
    BY FieldsTyped, <1>0, <1>1, <1>2, <1>3, <1>4, <1>5
       DEF NumbersOK, RequestNo, ConnNo, Telling, SameRequest, SameSession, SameConn
  <1>8. ASSUME NEW p \in Requests, NEW t \in Sessions PROVE MutexOf(p, t)'
    <2>1. CASE p = q
      BY FieldsTyped, <1>0, <1>1, <1>2, <1>3, <1>4, <1>5, <2>1
         DEF MutexOK, MutexOf, SameRequest, SameSession, SameConn, historyVars, Holds, Again,
             Past, RequestNo, Past, Again
    <2>2. CASE p # q
      BY FieldsTyped, <1>0, <1>1, <1>2, <1>3, <1>4, <1>5, <2>2
         DEF MutexOK, MutexOf, SameRequest, SameSession, SameConn, historyVars, Holds, Again,
             Past, RequestNo, Past, Again
    <2> QED  BY <2>1, <2>2
  <1>9. ASSUME NEW t \in Sessions, NEW d \in Conns PROVE ConnOf(t, d)'
    BY FieldsTyped, <1>0, <1>1, <1>3, <1>4, <1>5
       DEF ConnOK, ConnOf, SameRequest, SameSession, SameConn, historyVars
  <1>10. ASSUME NEW d \in Conns, NEW t \in Sessions PROVE OpenOf(d, t)'
    BY FieldsTyped, <1>0, <1>1, <1>4, <1>5
       DEF OpenOK, OpenOf, SameRequest, SameSession, SameConn, historyVars, Closing
  <1>11. ASSUME NEW t \in Sessions, NEW p \in Requests PROVE ActiveOf(t, p)'
    <2>1. CASE p = q
      BY FieldsTyped, <1>0, <1>1, <1>2, <1>3, <1>4, <1>5, <2>1
         DEF ActiveOK, ActiveOf, SameRequest, SameSession, SameConn, historyVars, Holds, Before,
             Again, MutexOK, MutexOf
    <2>2. CASE p # q
      BY FieldsTyped, <1>0, <1>1, <1>2, <1>3, <1>4, <1>5, <2>2
         DEF ActiveOK, ActiveOf, SameRequest, SameSession, SameConn, historyVars, Holds, Before,
             Again, MutexOK, MutexOf
    <2> QED  BY <2>1, <2>2
  <1>12. ASSUME NEW d \in Conns, NEW p \in Requests PROVE TellsOf(d, p)'
    BY FieldsTyped, <1>0, <1>1, <1>2, <1>4, <1>5
       DEF TellingOK, TellsOf, SameRequest, SameSession, SameConn, historyVars, Before, Again
  <1>13. ASSUME NEW p \in Requests, NEW d \in Conns PROVE ShutOf(p, d)'
    BY FieldsTyped, <1>0, <1>1, <1>2, <1>4, <1>5
       DEF ShutOK, ShutOf, SameRequest, SameSession, SameConn, historyVars, Before, Again
  <1> QED
    BY <1>6, <1>7, <1>8, <1>9, <1>10, <1>11, <1>12, <1>13, <1>4, <1>5
       DEF CodexInv, MutexOK, ConnOK, OpenOK, ActiveOK, TellingOK, ShutOK, historyVars

\* A handshake that is refused leaves the mutex locked.
LEMMA DialRefusedInv ==
    ASSUME CodexInv, CodexTypes', NEW q \in Requests, DialRefused(q)
    PROVE  CodexInv'
  <1> DEFINE s == requests[q].session
  <1>0. /\ requests \in [Requests -> RequestRec] /\ sessions \in [Sessions -> SessionRec]
        /\ conns \in [Conns -> ConnRec]
    BY DEF CodexInv, CodexTypes
  <1>1. /\ s \in Sessions /\ s = requests[q].session /\ requests[q].pc = "dial"
          /\ ~requests[q].retry
        /\ RequestNo(requests[q]) /\ MutexOf(q, s)
    BY RecordsTyped DEF CodexInv, NumbersOK, MutexOK, DialRefused
  <1>2. /\ requests'[q].used = requests[q].used /\ requests'[q].pc = "ended"
        /\ requests'[q].session = requests[q].session /\ requests'[q].conn = requests[q].conn
        /\ requests'[q].retry = requests[q].retry /\ requests'[q].shutBy = requests[q].shutBy
        /\ \A p \in Requests : p # q => SameRequest(requests[p], requests'[p])
    BY <1>0 DEF DialRefused, RequestRec, SameRequest
  <1>3. UNCHANGED <<store, sessions, conns, closers, crashed, hungUp, historyVars>>
    BY DEF DialRefused
  <1> HIDE DEF s
  <1>4. InTurn /\ NumbersOK /\ MutexOK /\ ConnOK /\ OpenOK /\ ActiveOK /\ TellingOK /\ ShutOK
    BY DEF CodexInv
  <1>5. InTurn'
    BY FieldsTyped, <1>0, <1>1, <1>2, <1>3, <1>4 DEF InTurn, SameRequest, SameSession, SameConn
  <1>6. NumbersOK'
    BY FieldsTyped, <1>0, <1>1, <1>2, <1>3, <1>4
       DEF NumbersOK, RequestNo, ConnNo, Telling, SameRequest, SameSession, SameConn
  <1>7. ASSUME NEW p \in Requests, NEW t \in Sessions PROVE MutexOf(p, t)'
    <2>1. CASE p = q
      BY FieldsTyped, <1>0, <1>1, <1>2, <1>3, <1>4, <2>1
         DEF MutexOK, MutexOf, SameRequest, SameSession, SameConn, historyVars, Holds, Again,
             Past, RequestNo, Past, Again
    <2>2. CASE p # q
      BY FieldsTyped, <1>0, <1>1, <1>2, <1>3, <1>4, <2>2
         DEF MutexOK, MutexOf, SameRequest, SameSession, SameConn, historyVars, Holds, Again,
             Past, RequestNo, Past, Again
    <2> QED  BY <2>1, <2>2
  <1>8. ASSUME NEW t \in Sessions, NEW d \in Conns PROVE ConnOf(t, d)'
    BY FieldsTyped, <1>0, <1>1, <1>3, <1>4
       DEF ConnOK, ConnOf, SameRequest, SameSession, SameConn, historyVars
  <1>9. ASSUME NEW d \in Conns, NEW t \in Sessions PROVE OpenOf(d, t)'
    BY FieldsTyped, <1>0, <1>1, <1>3, <1>4
       DEF OpenOK, OpenOf, SameRequest, SameSession, SameConn, historyVars, Closing
  <1>10. ASSUME NEW t \in Sessions, NEW p \in Requests PROVE ActiveOf(t, p)'
    <2>1. CASE p = q
      BY FieldsTyped, <1>0, <1>1, <1>2, <1>3, <1>4, <2>1
         DEF ActiveOK, ActiveOf, SameRequest, SameSession, SameConn, historyVars, Holds, Before,
             Again
    <2>2. CASE p # q
      BY FieldsTyped, <1>0, <1>1, <1>2, <1>3, <1>4, <2>2
         DEF ActiveOK, ActiveOf, SameRequest, SameSession, SameConn, historyVars, Holds, Before,
             Again
    <2> QED  BY <2>1, <2>2
  <1>11. ASSUME NEW d \in Conns, NEW p \in Requests PROVE TellsOf(d, p)'
    BY FieldsTyped, <1>0, <1>1, <1>2, <1>3, <1>4
       DEF TellingOK, TellsOf, SameRequest, SameSession, SameConn, historyVars, Before, Again
  <1>12. ASSUME NEW p \in Requests, NEW d \in Conns PROVE ShutOf(p, d)'
    BY FieldsTyped, <1>0, <1>1, <1>2, <1>3, <1>4
       DEF ShutOK, ShutOf, SameRequest, SameSession, SameConn, historyVars, Before, Again
  <1> QED
    BY <1>5, <1>6, <1>7, <1>8, <1>9, <1>10, <1>11, <1>12, <1>3, <1>4
       DEF CodexInv, MutexOK, ConnOK, OpenOK, ActiveOK, TellingOK, ShutOK, historyVars

\* A request leaves.
LEMMA LeaveInv ==
    ASSUME CodexInv, CodexTypes', NEW q \in Requests, Leave(q)
    PROVE  CodexInv'
  <1> DEFINE s == requests[q].session
  <1>0. /\ requests \in [Requests -> RequestRec] /\ sessions \in [Sessions -> SessionRec]
        /\ conns \in [Conns -> ConnRec]
    BY DEF CodexInv, CodexTypes
  <1>1. /\ s \in Sessions /\ s = requests[q].session /\ requests[q].pc = "leave"
        /\ RequestNo(requests[q]) /\ MutexOf(q, s)
    BY RecordsTyped DEF CodexInv, NumbersOK, MutexOK, Leave
  <1>2. /\ requests'[q].used = requests[q].used /\ requests'[q].pc = "ended"
        /\ requests'[q].session = requests[q].session /\ requests'[q].conn = requests[q].conn
        /\ requests'[q].retry = requests[q].retry /\ requests'[q].shutBy = requests[q].shutBy
        /\ \A p \in Requests : p # q => SameRequest(requests[p], requests'[p])
    BY <1>0 DEF Leave, RequestRec, SameRequest
  <1>3. /\ sessions'[s].used = sessions[s].used /\ sessions'[s].conn = sessions[s].conn
        /\ sessions'[s].active = (IF sessions[s].active = q THEN 0 ELSE sessions[s].active)
        /\ sessions'[s].lock = 0
        /\ \A t \in Sessions : t # s => SameSession(sessions[t], sessions'[t])
    BY <1>0, <1>1 DEF Leave, Cleared, SessionRec, SameSession
  <1>4. UNCHANGED <<store, conns, closers, crashed, hungUp, historyVars>>
    BY DEF Leave
  <1> HIDE DEF s
  <1>5. InTurn /\ NumbersOK /\ MutexOK /\ ConnOK /\ OpenOK /\ ActiveOK /\ TellingOK /\ ShutOK
    BY DEF CodexInv
  <1>6. InTurn'
    BY FieldsTyped, <1>0, <1>1, <1>2, <1>3, <1>4, <1>5
       DEF InTurn, SameRequest, SameSession, SameConn
  <1>7. NumbersOK'
    BY FieldsTyped, <1>0, <1>1, <1>2, <1>3, <1>4, <1>5
       DEF NumbersOK, RequestNo, ConnNo, Telling, SameRequest, SameSession, SameConn
  <1>8. ASSUME NEW p \in Requests, NEW t \in Sessions PROVE MutexOf(p, t)'
    <2>1. CASE p = q
      BY FieldsTyped, <1>0, <1>1, <1>2, <1>3, <1>4, <1>5, <2>1
         DEF MutexOK, MutexOf, SameRequest, SameSession, SameConn, historyVars, Holds, Again,
             Past, RequestNo, Past, Again
    <2>2. CASE p # q
      BY FieldsTyped, <1>0, <1>1, <1>2, <1>3, <1>4, <1>5, <2>2
         DEF MutexOK, MutexOf, SameRequest, SameSession, SameConn, historyVars, Holds, Again,
             Past, RequestNo, Past, Again
    <2> QED  BY <2>1, <2>2
  <1>9. ASSUME NEW t \in Sessions, NEW d \in Conns PROVE ConnOf(t, d)'
    BY FieldsTyped, <1>0, <1>1, <1>3, <1>4, <1>5
       DEF ConnOK, ConnOf, SameRequest, SameSession, SameConn, historyVars
  <1>10. ASSUME NEW d \in Conns, NEW t \in Sessions PROVE OpenOf(d, t)'
    BY FieldsTyped, <1>0, <1>1, <1>4, <1>5
       DEF OpenOK, OpenOf, SameRequest, SameSession, SameConn, historyVars, Closing
  <1>11. ASSUME NEW t \in Sessions, NEW p \in Requests PROVE ActiveOf(t, p)'
    <2>1. CASE p = q
      BY FieldsTyped, <1>0, <1>1, <1>2, <1>3, <1>4, <1>5, <2>1
         DEF ActiveOK, ActiveOf, SameRequest, SameSession, SameConn, historyVars, Holds, Before,
             Again, MutexOK, MutexOf
    <2>2. CASE p # q
      BY FieldsTyped, <1>0, <1>1, <1>2, <1>3, <1>4, <1>5, <2>2
         DEF ActiveOK, ActiveOf, SameRequest, SameSession, SameConn, historyVars, Holds, Before,
             Again, MutexOK, MutexOf
    <2> QED  BY <2>1, <2>2
  <1>12. ASSUME NEW d \in Conns, NEW p \in Requests PROVE TellsOf(d, p)'
    BY FieldsTyped, <1>0, <1>1, <1>2, <1>4, <1>5
       DEF TellingOK, TellsOf, SameRequest, SameSession, SameConn, historyVars, Before, Again
  <1>13. ASSUME NEW p \in Requests, NEW d \in Conns PROVE ShutOf(p, d)'
    BY FieldsTyped, <1>0, <1>1, <1>2, <1>4, <1>5
       DEF ShutOK, ShutOf, SameRequest, SameSession, SameConn, historyVars, Before, Again
  <1> QED
    BY <1>6, <1>7, <1>8, <1>9, <1>10, <1>11, <1>12, <1>13, <1>4, <1>5
       DEF CodexInv, MutexOK, ConnOK, OpenOK, ActiveOK, TellingOK, ShutOK, historyVars

\* A request becomes active.
LEMMA ActivateInv ==
    ASSUME CodexInv, CodexTypes', NEW q \in Requests, Activate(q)
    PROVE  CodexInv'
  <1> DEFINE s == requests[q].session
             c == requests[q].conn
  <1>0. /\ requests \in [Requests -> RequestRec] /\ sessions \in [Sessions -> SessionRec]
        /\ conns \in [Conns -> ConnRec]
    BY DEF CodexInv, CodexTypes
  <1>1. /\ s \in Sessions /\ s = requests[q].session /\ requests[q].pc = "activate"
        /\ RequestNo(requests[q]) /\ MutexOf(q, s)
        /\ c = requests[q].conn /\ sessions[s].conn \in {0, c} /\ c \in Conns \cup {0}
    BY RecordsTyped, FieldsTyped DEF CodexInv, NumbersOK, MutexOK, MutexOf, Past, Activate
  <1>2. /\ requests'[q].used = requests[q].used /\ requests'[q].pc = "send"
        /\ requests'[q].session = requests[q].session /\ requests'[q].conn = requests[q].conn
        /\ requests'[q].retry = requests[q].retry /\ requests'[q].shutBy = requests[q].shutBy
        /\ \A p \in Requests : p # q => SameRequest(requests[p], requests'[p])
    <2>1. requests' = [DoneBut(s, q) EXCEPT ![q].pc = "send"]
      BY DEF Activate, s
    <2>2. /\ DoneBut(s, q) \in [Requests -> RequestRec]
          /\ \A p \in Requests : SameRequest(requests[p], DoneBut(s, q)[p])
      BY DoneButSame
    <2> HIDE DEF s
    <2>3. QED  BY <2>1, <2>2 DEF RequestRec, SameRequest
  <1>3. /\ sessions'[s].used = sessions[s].used /\ sessions'[s].conn = sessions[s].conn
        /\ sessions'[s].active = q /\ sessions'[s].lock = sessions[s].lock
        /\ \A t \in Sessions : t # s => SameSession(sessions[t], sessions'[t])
    BY <1>0, <1>1 DEF Activate, SessionRec, SameSession
  <1>4. /\ UNCHANGED <<store, conns, closers, crashed, hungUp, foreign, unheard, late>>
        /\ shadowed' = IF Shadows(s, c) # {} THEN shadowed \cup {q} ELSE shadowed
    BY DEF Activate
  <1> HIDE DEF s, c
  <1>5. InTurn /\ NumbersOK /\ MutexOK /\ ConnOK /\ OpenOK /\ ActiveOK /\ TellingOK /\ ShutOK
    BY DEF CodexInv
  <1>6. ASSUME Shadows(s, c) = {}, NEW d \in Conns, conns[d].session = s, d # c
        PROVE  conns[d].reader = "off"
    BY FieldsTyped, <1>1, <1>5, <1>6
       DEF ConnOK, ConnOf, NumbersOK, ConnNo, Shadows, Running, Dead
  <1>7. InTurn'
    BY FieldsTyped, <1>0, <1>1, <1>2, <1>3, <1>4, <1>5
       DEF InTurn, SameRequest, SameSession, SameConn
  <1>8. NumbersOK'
    BY FieldsTyped, <1>0, <1>1, <1>2, <1>3, <1>4, <1>5
       DEF NumbersOK, RequestNo, ConnNo, Telling, SameRequest, SameSession, SameConn
  <1>9. ASSUME NEW p \in Requests, NEW t \in Sessions PROVE MutexOf(p, t)'
    <2>1. CASE p = q
      BY FieldsTyped, <1>0, <1>1, <1>2, <1>3, <1>4, <1>5, <2>1
         DEF MutexOK, MutexOf, SameRequest, SameSession, SameConn, historyVars, Holds, Again,
             Past, RequestNo, Past, Again
    <2>2. CASE p # q
      BY FieldsTyped, <1>0, <1>1, <1>2, <1>3, <1>4, <1>5, <2>2
         DEF MutexOK, MutexOf, SameRequest, SameSession, SameConn, historyVars, Holds, Again,
             Past, RequestNo, Past, Again
    <2> QED  BY <2>1, <2>2
  <1>10. ASSUME NEW t \in Sessions, NEW d \in Conns PROVE ConnOf(t, d)'
    BY FieldsTyped, <1>0, <1>1, <1>3, <1>4, <1>5
       DEF ConnOK, ConnOf, SameRequest, SameSession, SameConn, historyVars
  <1>11. ASSUME NEW d \in Conns, NEW t \in Sessions PROVE OpenOf(d, t)'
    BY FieldsTyped, <1>0, <1>1, <1>4, <1>5
       DEF OpenOK, OpenOf, SameRequest, SameSession, SameConn, historyVars, Closing
  <1>12. ASSUME NEW t \in Sessions, NEW p \in Requests PROVE ActiveOf(t, p)'
    <2>1. CASE p = q
      BY FieldsTyped, <1>0, <1>1, <1>2, <1>3, <1>4, <1>5, <1>6, <2>1
         DEF ActiveOK, ActiveOf, SameRequest, SameSession, SameConn, historyVars, Holds, Before,
             Again, MutexOK, MutexOf
    <2>2. CASE p # q
      BY FieldsTyped, <1>0, <1>1, <1>2, <1>3, <1>4, <1>5, <1>6, <2>2
         DEF ActiveOK, ActiveOf, SameRequest, SameSession, SameConn, historyVars, Holds, Before,
             Again, MutexOK, MutexOf
    <2> QED  BY <2>1, <2>2
  <1>13. ASSUME NEW d \in Conns, NEW p \in Requests PROVE TellsOf(d, p)'
    BY FieldsTyped, <1>0, <1>1, <1>2, <1>4, <1>5
       DEF TellingOK, TellsOf, SameRequest, SameSession, SameConn, historyVars, Before, Again
  <1>14. ASSUME NEW p \in Requests, NEW d \in Conns PROVE ShutOf(p, d)'
    BY FieldsTyped, <1>0, <1>1, <1>2, <1>4, <1>5
       DEF ShutOK, ShutOf, SameRequest, SameSession, SameConn, historyVars, Before, Again
  <1> QED
    BY <1>7, <1>8, <1>9, <1>10, <1>11, <1>12, <1>13, <1>14, <1>4, <1>5
       DEF CodexInv, MutexOK, ConnOK, OpenOK, ActiveOK, TellingOK, ShutOK, historyVars

\* A send that failed is tried once more.
LEMMA SendAgainInv ==
    ASSUME CodexInv, CodexTypes', NEW q \in Requests, SendAgain(q)
    PROVE  CodexInv'
  <1> DEFINE s == requests[q].session
             c == requests[q].conn
  <1>0. /\ requests \in [Requests -> RequestRec] /\ sessions \in [Sessions -> SessionRec]
        /\ conns \in [Conns -> ConnRec]
    BY DEF CodexInv, CodexTypes
  <1>1. /\ s \in Sessions /\ s = requests[q].session /\ requests[q].pc = "again"
        /\ RequestNo(requests[q]) /\ MutexOf(q, s)
        /\ c = requests[q].conn /\ sessions[s].conn \in {0, c} /\ c \in Conns \cup {0}
    BY RecordsTyped, FieldsTyped DEF CodexInv, NumbersOK, MutexOK, MutexOf, Past, SendAgain
  <1>2. /\ requests'[q].used = requests[q].used /\ requests'[q].pc = "ensure"
        /\ requests'[q].session = requests[q].session /\ requests'[q].conn = requests[q].conn
        /\ requests'[q].retry = TRUE /\ requests'[q].shutBy = requests[q].shutBy
        /\ \A p \in Requests : p # q => SameRequest(requests[p], requests'[p])
    BY <1>0 DEF SendAgain, RequestRec, SameRequest
  <1>3. Drops(s, c)
    BY <1>1, InvalidateDrops DEF SendAgain, s, c
  <1>4. /\ UNCHANGED <<store, closers, crashed, hungUp, foreign, unheard, late>>
        /\ shadowed' = IF Running(c) \/ requests[q].shutBy # 0 THEN shadowed \cup {q} ELSE shadowed
    BY DEF SendAgain
  <1> HIDE DEF s, c
  <1>5. InTurn /\ NumbersOK /\ MutexOK /\ ConnOK /\ OpenOK /\ ActiveOK /\ TellingOK /\ ShutOK
    BY DEF CodexInv
  <1>6. \/ q \in shadowed'
        \/ /\ requests[q].shutBy = 0 /\ (c \in Conns => conns[c].reader = "off")
           /\ \A d \in Conns : conns[d].to # q
    BY FieldsTyped, <1>1, <1>4, <1>5 DEF Running, TellingOK, TellsOf, NumbersOK, ConnNo, Telling
  <1>7. InTurn'
    BY FieldsTyped, <1>0, <1>1, <1>2, <1>3, <1>4, <1>5 DEF InTurn, SameRequest, Drops
  <1>8. NumbersOK'
    BY FieldsTyped, <1>0, <1>1, <1>2, <1>3, <1>4, <1>5
       DEF NumbersOK, RequestNo, ConnNo, Telling, SameRequest, Drops, ConnOK, ConnOf
  <1>9. ASSUME NEW p \in Requests, NEW t \in Sessions PROVE MutexOf(p, t)'
    <2>1. CASE p = q
      BY FieldsTyped, <1>0, <1>1, <1>2, <1>3, <1>4, <1>5, <2>1
         DEF MutexOK, MutexOf, SameRequest, Drops, historyVars, Holds, Again, Past, RequestNo,
             Past, Again
    <2>2. CASE p # q
      BY FieldsTyped, <1>0, <1>1, <1>2, <1>3, <1>4, <1>5, <2>2
         DEF MutexOK, MutexOf, SameRequest, Drops, historyVars, Holds, Again, Past, RequestNo,
             Past, Again
    <2> QED  BY <2>1, <2>2
  <1>10. ASSUME NEW t \in Sessions, NEW d \in Conns PROVE ConnOf(t, d)'
    BY FieldsTyped, <1>0, <1>1, <1>3, <1>4, <1>5
       DEF ConnOK, ConnOf, SameRequest, Drops, historyVars
  <1>11. ASSUME NEW d \in Conns, NEW t \in Sessions PROVE OpenOf(d, t)'
    BY FieldsTyped, <1>0, <1>1, <1>3, <1>4, <1>5
       DEF OpenOK, OpenOf, SameRequest, Drops, historyVars, Closing
  <1>12. ASSUME NEW t \in Sessions, NEW p \in Requests PROVE ActiveOf(t, p)'
    <2>1. CASE p = q
      BY FieldsTyped, <1>0, <1>1, <1>2, <1>3, <1>4, <1>5, <1>6, <2>1
         DEF ActiveOK, ActiveOf, SameRequest, Drops, historyVars, Holds, Before, Again
    <2>2. CASE p # q
      BY FieldsTyped, <1>0, <1>1, <1>2, <1>3, <1>4, <1>5, <1>6, <2>2
         DEF ActiveOK, ActiveOf, SameRequest, Drops, historyVars, Holds, Before, Again
    <2> QED  BY <2>1, <2>2
  <1>13. ASSUME NEW d \in Conns, NEW p \in Requests PROVE TellsOf(d, p)'
    BY FieldsTyped, <1>0, <1>1, <1>2, <1>3, <1>4, <1>5, <1>6
       DEF TellingOK, TellsOf, SameRequest, Drops, historyVars, Before, Again
  <1>14. ASSUME NEW p \in Requests, NEW d \in Conns PROVE ShutOf(p, d)'
    BY FieldsTyped, <1>0, <1>1, <1>2, <1>3, <1>4, <1>5, <1>6
       DEF ShutOK, ShutOf, SameRequest, Drops, historyVars, Before, Again
  <1> QED
    BY <1>7, <1>8, <1>9, <1>10, <1>11, <1>12, <1>13, <1>14, <1>4, <1>5
       DEF CodexInv, MutexOK, ConnOK, OpenOK, ActiveOK, TellingOK, ShutOK, historyVars

\* A request goes on.
LEMMA LateInv ==
    ASSUME CodexInv, CodexTypes', NEW q \in Requests,
           Send(q) \/ Read(q) \/ ReadClosed(q) \/ ReadCanceled(q)
    PROVE  CodexInv'
  <1>0. requests \in [Requests -> RequestRec] /\ conns \in [Conns -> ConnRec]
    BY DEF CodexInv, CodexTypes
  <1>1. CASE Send(q)
    <2>1. /\ requests[q].pc = "send" /\ requests'[q].pc \in {"read", "giveUp", "again"}
          /\ \A p \in Requests :
                /\ requests'[p].used = requests[p].used
                        /\ requests'[p].session = requests[p].session
                /\ requests'[p].conn = requests[p].conn /\ requests'[p].retry = requests[p].retry
                /\ requests'[p].shutBy = requests[p].shutBy
                /\ p # q => requests'[p].pc = requests[p].pc
      BY <1>0, <1>1 DEF Send, RequestRec
    <2>2. \A d \in Conns : SameConn(conns[d], conns'[d])
      <3>1. \/ conns' = [conns EXCEPT ![requests[q].conn].asked = Append(@, q)]
            \/ conns' = conns
        BY <1>1 DEF Send
      <3>2. ASSUME NEW r \in ConnRec PROVE SameConn(r, [r EXCEPT !.asked = Append(@, q)])
        BY DEF ConnRec, SameConn
      <3>3. \A d \in Conns : conns'[d] \in {conns[d], [conns[d] EXCEPT !.asked = Append(@, q)]}
        BY <1>0, <3>1
      <3>4. \A r \in ConnRec : SameConn(r, r)
        BY DEF SameConn
      <3> QED  BY <1>0, <3>2, <3>3, <3>4
    <2> QED  BY <1>1, <2>1, <2>2, GoesOnInv DEF GoesOn, Send
  <1>2. CASE Read(q)
    <2>1. /\ requests[q].pc = "read" /\ requests'[q].pc \in {"read", "giveUp", "leave"}
          /\ \A p \in Requests :
                /\ requests'[p].used = requests[p].used
                        /\ requests'[p].session = requests[p].session
                /\ requests'[p].conn = requests[p].conn /\ requests'[p].retry = requests[p].retry
                /\ requests'[p].shutBy = requests[p].shutBy
                /\ p # q => requests'[p].pc = requests[p].pc
      BY <1>0, <1>2 DEF Read, RequestRec
    <2> QED  BY <1>2, <2>1, GoesOnInv DEF GoesOn, Read, SameConn
  <1>3. CASE ReadClosed(q) \/ ReadCanceled(q)
    <2>1. /\ requests[q].pc = "read" /\ requests'[q].pc = "leave"
          /\ \A p \in Requests :
                /\ requests'[p].used = requests[p].used
                        /\ requests'[p].session = requests[p].session
                /\ requests'[p].conn = requests[p].conn /\ requests'[p].retry = requests[p].retry
                /\ requests'[p].shutBy = requests[p].shutBy
                /\ p # q => requests'[p].pc = requests[p].pc
      BY <1>0, <1>3 DEF ReadClosed, ReadCanceled, RequestRec
    <2> QED  BY <1>3, <2>1, GoesOnInv DEF GoesOn, ReadClosed, ReadCanceled, SameConn, historyVars
  <1> QED
    BY <1>1, <1>2, <1>3

\* The reader takes a message for the request that is active.
LEMMA ReadMessageInv ==
    ASSUME CodexInv, CodexTypes', NEW c \in Conns, ReadMessage(c)
    PROVE  CodexInv'
  <1> DEFINE s == conns[c].session
             q == sessions[s].active
  <1>0. /\ requests \in [Requests -> RequestRec] /\ sessions \in [Sessions -> SessionRec]
        /\ conns \in [Conns -> ConnRec]
    BY DEF CodexInv, CodexTypes
  <1>1. /\ conns[c].reader = "read" /\ ConnNo(conns[c]) /\ conns[c].session \in Sessions
        /\ s \in Sessions /\ s = conns[c].session
        /\ q = sessions[s].active /\ q \in Requests \cup {0}
    BY RecordsTyped, FieldsTyped DEF CodexInv, NumbersOK, ConnNo, ReadMessage
  <1>2. /\ conns'[c].used = conns[c].used /\ conns'[c].state = conns[c].state
        /\ conns'[c].session = conns[c].session
        /\ conns'[c].reader = (IF q = 0 THEN "read" ELSE "deliver") /\ conns'[c].to = q
        /\ \A d \in Conns : d # c => SameConn(conns[d], conns'[d])
    BY <1>0, <1>1 DEF ReadMessage, ConnRec, SameConn
  <1>3. UNCHANGED <<store, sessions, requests, closers, crashed, hungUp, historyVars>>
    BY DEF ReadMessage
  <1> HIDE DEF s, q
  <1>4. InTurn /\ NumbersOK /\ MutexOK /\ ConnOK /\ OpenOK /\ ActiveOK /\ TellingOK /\ ShutOK
    BY DEF CodexInv
  <1>5. ASSUME NEW p \in Requests, p = q
        PROVE  /\ ~Before(requests[p])
               /\ p \in shadowed \/ (requests[p].conn = c /\ ~Again(requests[p]))
    BY <1>1, <1>5, <1>4 DEF ActiveOK, ActiveOf
  <1>6. InTurn'
    BY FieldsTyped, <1>0, <1>1, <1>2, <1>3, <1>4 DEF InTurn, SameRequest, SameSession, SameConn
  <1>7. NumbersOK'
    BY FieldsTyped, <1>0, <1>1, <1>2, <1>3, <1>4
       DEF NumbersOK, RequestNo, ConnNo, Telling, SameRequest, SameSession, SameConn
  <1>8. ASSUME NEW p \in Requests, NEW t \in Sessions PROVE MutexOf(p, t)'
    BY FieldsTyped, <1>0, <1>1, <1>3, <1>4
       DEF MutexOK, MutexOf, SameRequest, SameSession, SameConn, historyVars, Holds, Again, Past
  <1>9. ASSUME NEW t \in Sessions, NEW d \in Conns PROVE ConnOf(t, d)'
    BY FieldsTyped, <1>0, <1>1, <1>2, <1>3, <1>4
       DEF ConnOK, ConnOf, SameRequest, SameSession, SameConn, historyVars
  <1>10. ASSUME NEW d \in Conns, NEW t \in Sessions PROVE OpenOf(d, t)'
    BY FieldsTyped, <1>0, <1>1, <1>2, <1>3, <1>4
       DEF OpenOK, OpenOf, SameRequest, SameSession, SameConn, historyVars, Closing
  <1>11. ASSUME NEW t \in Sessions, NEW p \in Requests PROVE ActiveOf(t, p)'
    BY FieldsTyped, <1>0, <1>1, <1>2, <1>3, <1>4
       DEF ActiveOK, ActiveOf, SameRequest, SameSession, SameConn, historyVars, Holds, Before,
           Again
  <1>12. ASSUME NEW d \in Conns, NEW p \in Requests PROVE TellsOf(d, p)'
    <2>1. CASE d = c
      BY FieldsTyped, <1>0, <1>1, <1>2, <1>3, <1>4, <1>5, <2>1
         DEF TellingOK, TellsOf, SameRequest, SameSession, SameConn, historyVars, Before, Again
    <2>2. CASE d # c
      BY FieldsTyped, <1>0, <1>1, <1>2, <1>3, <1>4, <1>5, <2>2
         DEF TellingOK, TellsOf, SameRequest, SameSession, SameConn, historyVars, Before, Again
    <2> QED  BY <2>1, <2>2
  <1>13. ASSUME NEW p \in Requests, NEW d \in Conns PROVE ShutOf(p, d)'
    BY FieldsTyped, <1>0, <1>1, <1>2, <1>3, <1>4
       DEF ShutOK, ShutOf, SameRequest, SameSession, SameConn, historyVars, Before, Again
  <1> QED
    BY <1>6, <1>7, <1>8, <1>9, <1>10, <1>11, <1>12, <1>13, <1>3, <1>4
       DEF CodexInv, MutexOK, ConnOK, OpenOK, ActiveOK, TellingOK, ShutOK, historyVars

\* The reader finds that the connection is gone.
LEMMA ReadFailsInv ==
    ASSUME CodexInv, CodexTypes', NEW c \in Conns, ReadFails(c)
    PROVE  CodexInv'
  <1> DEFINE s == conns[c].session
             q == sessions[s].active
  <1>0. /\ requests \in [Requests -> RequestRec] /\ sessions \in [Sessions -> SessionRec]
        /\ conns \in [Conns -> ConnRec]
    BY DEF CodexInv, CodexTypes
  <1>1. /\ conns[c].reader = "read" /\ ConnNo(conns[c]) /\ conns[c].session \in Sessions
        /\ s \in Sessions /\ s = conns[c].session
        /\ q = sessions[s].active /\ q \in Requests \cup {0}
    BY RecordsTyped, FieldsTyped DEF CodexInv, NumbersOK, ConnNo, ReadFails
  <1>2. /\ conns'[c].used = conns[c].used /\ conns'[c].state = conns[c].state
        /\ conns'[c].session = conns[c].session
        /\ conns'[c].reader = (IF q = 0 THEN "leave" ELSE "tell") /\ conns'[c].to = q
        /\ \A d \in Conns : d # c => SameConn(conns[d], conns'[d])
    BY <1>0, <1>1 DEF ReadFails, ConnRec, SameConn
  <1>3. UNCHANGED <<store, sessions, requests, closers, crashed, hungUp, historyVars>>
    BY DEF ReadFails
  <1> HIDE DEF s, q
  <1>4. InTurn /\ NumbersOK /\ MutexOK /\ ConnOK /\ OpenOK /\ ActiveOK /\ TellingOK /\ ShutOK
    BY DEF CodexInv
  <1>5. ASSUME NEW p \in Requests, p = q
        PROVE  /\ ~Before(requests[p])
               /\ p \in shadowed \/ (requests[p].conn = c /\ ~Again(requests[p]))
    BY <1>1, <1>5, <1>4 DEF ActiveOK, ActiveOf
  <1>6. InTurn'
    BY FieldsTyped, <1>0, <1>1, <1>2, <1>3, <1>4 DEF InTurn, SameRequest, SameSession, SameConn
  <1>7. NumbersOK'
    BY FieldsTyped, <1>0, <1>1, <1>2, <1>3, <1>4
       DEF NumbersOK, RequestNo, ConnNo, Telling, SameRequest, SameSession, SameConn
  <1>8. ASSUME NEW p \in Requests, NEW t \in Sessions PROVE MutexOf(p, t)'
    BY FieldsTyped, <1>0, <1>1, <1>3, <1>4
       DEF MutexOK, MutexOf, SameRequest, SameSession, SameConn, historyVars, Holds, Again, Past
  <1>9. ASSUME NEW t \in Sessions, NEW d \in Conns PROVE ConnOf(t, d)'
    BY FieldsTyped, <1>0, <1>1, <1>2, <1>3, <1>4
       DEF ConnOK, ConnOf, SameRequest, SameSession, SameConn, historyVars
  <1>10. ASSUME NEW d \in Conns, NEW t \in Sessions PROVE OpenOf(d, t)'
    BY FieldsTyped, <1>0, <1>1, <1>2, <1>3, <1>4
       DEF OpenOK, OpenOf, SameRequest, SameSession, SameConn, historyVars, Closing
  <1>11. ASSUME NEW t \in Sessions, NEW p \in Requests PROVE ActiveOf(t, p)'
    BY FieldsTyped, <1>0, <1>1, <1>2, <1>3, <1>4
       DEF ActiveOK, ActiveOf, SameRequest, SameSession, SameConn, historyVars, Holds, Before,
           Again
  <1>12. ASSUME NEW d \in Conns, NEW p \in Requests PROVE TellsOf(d, p)'
    <2>1. CASE d = c
      BY FieldsTyped, <1>0, <1>1, <1>2, <1>3, <1>4, <1>5, <2>1
         DEF TellingOK, TellsOf, SameRequest, SameSession, SameConn, historyVars, Before, Again
    <2>2. CASE d # c
      BY FieldsTyped, <1>0, <1>1, <1>2, <1>3, <1>4, <1>5, <2>2
         DEF TellingOK, TellsOf, SameRequest, SameSession, SameConn, historyVars, Before, Again
    <2> QED  BY <2>1, <2>2
  <1>13. ASSUME NEW p \in Requests, NEW d \in Conns PROVE ShutOf(p, d)'
    BY FieldsTyped, <1>0, <1>1, <1>2, <1>3, <1>4
       DEF ShutOK, ShutOf, SameRequest, SameSession, SameConn, historyVars, Before, Again
  <1> QED
    BY <1>6, <1>7, <1>8, <1>9, <1>10, <1>11, <1>12, <1>13, <1>3, <1>4
       DEF CodexInv, MutexOK, ConnOK, OpenOK, ActiveOK, TellingOK, ShutOK, historyVars

\* The reader hands a message over.
LEMMA DeliverInv ==
    ASSUME CodexInv, CodexTypes', NEW c \in Conns, Deliver(c)
    PROVE  CodexInv'
  <1> DEFINE q == conns[c].to
  <1>0. /\ requests \in [Requests -> RequestRec] /\ sessions \in [Sessions -> SessionRec]
        /\ conns \in [Conns -> ConnRec]
    BY DEF CodexInv, CodexTypes
  <1>1. /\ conns[c].reader = "deliver" /\ ConnNo(conns[c]) /\ q = conns[c].to /\ q \in Requests
    BY FieldsTyped DEF CodexInv, NumbersOK, ConnNo, Telling, Deliver
  <1>1R. \A p \in Requests : SameRequest(requests[p], requests'[p])
    <2> DEFINE m == [conn |-> c, kind |-> conns[c].held.kind, of |-> conns[c].held.of]
    <2>1. requests' = requests \/ requests' = [requests EXCEPT ![q].buf = Append(@, m)]
      BY DEF Deliver
    <2> HIDE DEF m, q
    <2>2. ASSUME NEW r \in RequestRec
          PROVE  SameRequest(r, r) /\ SameRequest(r, [r EXCEPT !.buf = Append(@, m)])
      BY DEF RequestRec, SameRequest
    <2>3. ASSUME NEW p \in Requests
          PROVE  requests'[p] \in {requests[p], [requests[p] EXCEPT !.buf = Append(@, m)]}
      BY <1>0, <1>1, <2>1
    <2> QED  BY <1>0, <2>2, <2>3
  <1>2. /\ conns'[c].used = conns[c].used /\ conns'[c].state = conns[c].state
        /\ conns'[c].session = conns[c].session /\ conns'[c].reader = "read" /\ conns'[c].to = 0
        /\ \A d \in Conns : d # c => SameConn(conns[d], conns'[d])
    BY <1>0, <1>1 DEF Deliver, ConnRec, SameConn
  <1>3. UNCHANGED <<store, sessions, closers, hungUp, historyVars>>
    BY DEF Deliver
  <1> HIDE DEF q
  <1>4. InTurn /\ NumbersOK /\ MutexOK /\ ConnOK /\ OpenOK /\ ActiveOK /\ TellingOK /\ ShutOK
    BY DEF CodexInv
  <1>5. requests[q].shutBy # 0 => q \in shadowed
    BY FieldsTyped, <1>1, <1>4 DEF TellingOK, TellsOf, ShutOK, ShutOf
  <1>6. crashed' => crashed \/ requests[q].shutBy # 0
    BY <1>1 DEF Deliver
  <1>7. InTurn'
    BY FieldsTyped, <1>0, <1>1, <1>1R, <1>2, <1>3, <1>4
       DEF InTurn, SameRequest, SameSession, SameConn
  <1>8. NumbersOK'
    BY FieldsTyped, <1>0, <1>1, <1>1R, <1>2, <1>3, <1>4
       DEF NumbersOK, RequestNo, ConnNo, Telling, SameRequest, SameSession, SameConn
  <1>9. ASSUME NEW p \in Requests, NEW t \in Sessions PROVE MutexOf(p, t)'
    BY FieldsTyped, <1>0, <1>1, <1>1R, <1>3, <1>4
       DEF MutexOK, MutexOf, SameRequest, SameSession, SameConn, historyVars, Holds, Again, Past
  <1>10. ASSUME NEW t \in Sessions, NEW d \in Conns PROVE ConnOf(t, d)'
    BY FieldsTyped, <1>0, <1>1, <1>2, <1>3, <1>4
       DEF ConnOK, ConnOf, SameRequest, SameSession, SameConn, historyVars
  <1>11. ASSUME NEW d \in Conns, NEW t \in Sessions PROVE OpenOf(d, t)'
    BY FieldsTyped, <1>0, <1>1, <1>2, <1>3, <1>4
       DEF OpenOK, OpenOf, SameRequest, SameSession, SameConn, historyVars, Closing
  <1>12. ASSUME NEW t \in Sessions, NEW p \in Requests PROVE ActiveOf(t, p)'
    BY FieldsTyped, <1>0, <1>1, <1>1R, <1>2, <1>3, <1>4
       DEF ActiveOK, ActiveOf, SameRequest, SameSession, SameConn, historyVars, Holds, Before,
           Again
  <1>13. ASSUME NEW d \in Conns, NEW p \in Requests PROVE TellsOf(d, p)'
    BY FieldsTyped, <1>0, <1>1, <1>1R, <1>2, <1>3, <1>4
       DEF TellingOK, TellsOf, SameRequest, SameSession, SameConn, historyVars, Before, Again
  <1>14. ASSUME NEW p \in Requests, NEW d \in Conns PROVE ShutOf(p, d)'
    BY FieldsTyped, <1>0, <1>1, <1>1R, <1>2, <1>3, <1>4
       DEF ShutOK, ShutOf, SameRequest, SameSession, SameConn, historyVars, Before, Again
  <1> QED
    BY <1>7, <1>8, <1>9, <1>10, <1>11, <1>12, <1>13, <1>14, <1>3, <1>4, <1>5, <1>6
       DEF CodexInv, MutexOK, ConnOK, OpenOK, ActiveOK, TellingOK, ShutOK, historyVars

\* The reader tells that the connection is lost.
LEMMA TellLostInv ==
    ASSUME CodexInv, CodexTypes', NEW c \in Conns, TellLost(c)
    PROVE  CodexInv'
  <1> DEFINE q == conns[c].to
             s == conns[c].session
  <1>0. /\ requests \in [Requests -> RequestRec] /\ sessions \in [Sessions -> SessionRec]
        /\ conns \in [Conns -> ConnRec]
    BY DEF CodexInv, CodexTypes
  <1>1. /\ conns[c].reader = "tell" /\ ConnNo(conns[c]) /\ q = conns[c].to /\ q \in Requests
        /\ s = conns[c].session /\ s \in Sessions
    BY RecordsTyped, FieldsTyped DEF CodexInv, NumbersOK, ConnNo, Telling, TellLost
  <1>1R. \A p \in Requests : SameRequest(requests[p], requests'[p])
    BY <1>0, <1>1 DEF TellLost, RequestRec, SameRequest
  <1>2. /\ sessions'[s].used = sessions[s].used /\ sessions'[s].conn = sessions[s].conn
        /\ sessions'[s].active = (IF sessions[s].active = q THEN 0 ELSE sessions[s].active)
        /\ sessions'[s].lock = sessions[s].lock
        /\ \A t \in Sessions : t # s => SameSession(sessions[t], sessions'[t])
    BY <1>0, <1>1 DEF TellLost, Cleared, SessionRec, SameSession
  <1>3. /\ conns'[c].used = conns[c].used /\ conns'[c].state = conns[c].state
        /\ conns'[c].session = conns[c].session /\ conns'[c].reader = "shut"
        /\ conns'[c].to = conns[c].to
        /\ \A d \in Conns : d # c => SameConn(conns[d], conns'[d])
    BY <1>0, <1>1 DEF TellLost, ConnRec, SameConn
  <1>4. UNCHANGED <<store, closers, hungUp, historyVars>>
    BY DEF TellLost
  <1> HIDE DEF q, s
  <1>5. InTurn /\ NumbersOK /\ MutexOK /\ ConnOK /\ OpenOK /\ ActiveOK /\ TellingOK /\ ShutOK
    BY DEF CodexInv
  <1>6. requests[q].shutBy # 0 => q \in shadowed
    BY FieldsTyped, <1>1, <1>5 DEF TellingOK, TellsOf, ShutOK, ShutOf
  <1>7. crashed' => crashed \/ requests[q].shutBy # 0
    BY <1>1 DEF TellLost
  <1>8. InTurn'
    BY FieldsTyped, <1>0, <1>1, <1>1R, <1>2, <1>3, <1>4, <1>5
       DEF InTurn, SameRequest, SameSession, SameConn
  <1>9. NumbersOK'
    BY FieldsTyped, <1>0, <1>1, <1>1R, <1>2, <1>3, <1>4, <1>5
       DEF NumbersOK, RequestNo, ConnNo, Telling, SameRequest, SameSession, SameConn
  <1>10. ASSUME NEW p \in Requests, NEW t \in Sessions PROVE MutexOf(p, t)'
    BY FieldsTyped, <1>0, <1>1, <1>1R, <1>2, <1>4, <1>5
       DEF MutexOK, MutexOf, SameRequest, SameSession, SameConn, historyVars, Holds, Again, Past
  <1>11. ASSUME NEW t \in Sessions, NEW d \in Conns PROVE ConnOf(t, d)'
    BY FieldsTyped, <1>0, <1>1, <1>2, <1>3, <1>4, <1>5
       DEF ConnOK, ConnOf, SameRequest, SameSession, SameConn, historyVars
  <1>12. ASSUME NEW d \in Conns, NEW t \in Sessions PROVE OpenOf(d, t)'
    BY FieldsTyped, <1>0, <1>1, <1>3, <1>4, <1>5
       DEF OpenOK, OpenOf, SameRequest, SameSession, SameConn, historyVars, Closing
  <1>13. ASSUME NEW t \in Sessions, NEW p \in Requests PROVE ActiveOf(t, p)'
    BY FieldsTyped, <1>0, <1>1, <1>1R, <1>2, <1>3, <1>4, <1>5
       DEF ActiveOK, ActiveOf, SameRequest, SameSession, SameConn, historyVars, Holds, Before,
           Again
  <1>14. ASSUME NEW d \in Conns, NEW p \in Requests PROVE TellsOf(d, p)'
    BY FieldsTyped, <1>0, <1>1, <1>1R, <1>3, <1>4, <1>5
       DEF TellingOK, TellsOf, SameRequest, SameSession, SameConn, historyVars, Before, Again
  <1>15. ASSUME NEW p \in Requests, NEW d \in Conns PROVE ShutOf(p, d)'
    BY FieldsTyped, <1>0, <1>1, <1>1R, <1>3, <1>4, <1>5
       DEF ShutOK, ShutOf, SameRequest, SameSession, SameConn, historyVars, Before, Again
  <1> QED
    BY <1>8, <1>9, <1>10, <1>11, <1>12, <1>13, <1>14, <1>15, <1>4, <1>5, <1>6, <1>7
       DEF CodexInv, MutexOK, ConnOK, OpenOK, ActiveOK, TellingOK, ShutOK, historyVars

\* The reader closes the channel.
LEMMA ShutChannelInv ==
    ASSUME CodexInv, CodexTypes', NEW c \in Conns, ShutChannel(c)
    PROVE  CodexInv'
  <1> DEFINE q == conns[c].to
  <1>0. /\ requests \in [Requests -> RequestRec] /\ sessions \in [Sessions -> SessionRec]
        /\ conns \in [Conns -> ConnRec]
    BY DEF CodexInv, CodexTypes
  <1>1. /\ conns[c].reader = "shut" /\ ConnNo(conns[c]) /\ q = conns[c].to /\ q \in Requests
    BY FieldsTyped DEF CodexInv, NumbersOK, ConnNo, Telling, ShutChannel
  <1>2. /\ requests'[q].used = requests[q].used /\ requests'[q].pc = requests[q].pc
        /\ requests'[q].session = requests[q].session /\ requests'[q].conn = requests[q].conn
        /\ requests'[q].retry = requests[q].retry
        /\ requests'[q].shutBy = (IF requests[q].shutBy # 0 THEN requests[q].shutBy ELSE c)
        /\ \A p \in Requests : p # q => SameRequest(requests[p], requests'[p])
    BY <1>0, <1>1 DEF ShutChannel, RequestRec, SameRequest
  <1>3. /\ conns'[c].used = conns[c].used /\ conns'[c].state = conns[c].state
        /\ conns'[c].session = conns[c].session /\ conns'[c].reader = "leave" /\ conns'[c].to = 0
        /\ \A d \in Conns : d # c => SameConn(conns[d], conns'[d])
    BY <1>0, <1>1 DEF ShutChannel, ConnRec, SameConn
  <1>4. UNCHANGED <<store, sessions, closers, hungUp, historyVars>>
    BY DEF ShutChannel
  <1> HIDE DEF q
  <1>5. InTurn /\ NumbersOK /\ MutexOK /\ ConnOK /\ OpenOK /\ ActiveOK /\ TellingOK /\ ShutOK
    BY DEF CodexInv
  <1>6. requests[q].shutBy # 0 => q \in shadowed
    BY FieldsTyped, <1>1, <1>5 DEF TellingOK, TellsOf, ShutOK, ShutOf
  <1>7. crashed' => crashed \/ requests[q].shutBy # 0
    BY <1>1 DEF ShutChannel
  <1>8. InTurn'
    BY FieldsTyped, <1>0, <1>1, <1>2, <1>3, <1>4, <1>5
       DEF InTurn, SameRequest, SameSession, SameConn
  <1>9. NumbersOK'
    BY FieldsTyped, <1>0, <1>1, <1>2, <1>3, <1>4, <1>5
       DEF NumbersOK, RequestNo, ConnNo, Telling, SameRequest, SameSession, SameConn
  <1>10. ASSUME NEW p \in Requests, NEW t \in Sessions PROVE MutexOf(p, t)'
    BY FieldsTyped, <1>0, <1>1, <1>2, <1>4, <1>5
       DEF MutexOK, MutexOf, SameRequest, SameSession, SameConn, historyVars, Holds, Again, Past
  <1>11. ASSUME NEW t \in Sessions, NEW d \in Conns PROVE ConnOf(t, d)'
    BY FieldsTyped, <1>0, <1>1, <1>3, <1>4, <1>5
       DEF ConnOK, ConnOf, SameRequest, SameSession, SameConn, historyVars
  <1>12. ASSUME NEW d \in Conns, NEW t \in Sessions PROVE OpenOf(d, t)'
    BY FieldsTyped, <1>0, <1>1, <1>3, <1>4, <1>5
       DEF OpenOK, OpenOf, SameRequest, SameSession, SameConn, historyVars, Closing
  <1>13. ASSUME NEW t \in Sessions, NEW p \in Requests PROVE ActiveOf(t, p)'
    BY FieldsTyped, <1>0, <1>1, <1>2, <1>3, <1>4, <1>5
       DEF ActiveOK, ActiveOf, SameRequest, SameSession, SameConn, historyVars, Holds, Before,
           Again
  <1>14. ASSUME NEW d \in Conns, NEW p \in Requests PROVE TellsOf(d, p)'
    BY FieldsTyped, <1>0, <1>1, <1>2, <1>3, <1>4, <1>5
       DEF TellingOK, TellsOf, SameRequest, SameSession, SameConn, historyVars, Before, Again
  <1>15. ASSUME NEW p \in Requests, NEW d \in Conns PROVE ShutOf(p, d)'
    <2>1. CASE p = q
      BY FieldsTyped, <1>0, <1>1, <1>2, <1>3, <1>4, <1>5, <2>1
         DEF ShutOK, ShutOf, SameRequest, SameSession, SameConn, historyVars, Before, Again,
             TellingOK, TellsOf, NumbersOK, ConnNo
    <2>2. CASE p # q
      BY FieldsTyped, <1>0, <1>1, <1>2, <1>3, <1>4, <1>5, <2>2
         DEF ShutOK, ShutOf, SameRequest, SameSession, SameConn, historyVars, Before, Again,
             TellingOK, TellsOf, NumbersOK, ConnNo
    <2> QED  BY <2>1, <2>2
  <1> QED
    BY <1>8, <1>9, <1>10, <1>11, <1>12, <1>13, <1>14, <1>15, <1>4, <1>5, <1>6, <1>7
       DEF CodexInv, MutexOK, ConnOK, OpenOK, ActiveOK, TellingOK, ShutOK, historyVars

\* A request gives its connection up.
LEMMA GiveUpInv ==
    ASSUME CodexInv, CodexTypes', NEW q \in Requests, GiveUp(q)
    PROVE  CodexInv'
  <1> DEFINE s == requests[q].session
             c == requests[q].conn
  <1>0. /\ requests \in [Requests -> RequestRec] /\ sessions \in [Sessions -> SessionRec]
        /\ conns \in [Conns -> ConnRec]
    BY DEF CodexInv, CodexTypes
  <1>1. /\ s \in Sessions /\ s = requests[q].session /\ requests[q].pc = "giveUp"
        /\ RequestNo(requests[q]) /\ MutexOf(q, s)
        /\ c = requests[q].conn /\ c \in Conns \cup {0}
    BY RecordsTyped, FieldsTyped DEF CodexInv, NumbersOK, MutexOK, GiveUp
  <1>2. /\ requests'[q].used = requests[q].used /\ requests'[q].pc = "leave"
        /\ requests'[q].session = requests[q].session /\ requests'[q].conn = requests[q].conn
        /\ requests'[q].retry = requests[q].retry /\ requests'[q].shutBy = requests[q].shutBy
        /\ \A p \in Requests : p # q => SameRequest(requests[p], requests'[p])
    BY <1>0 DEF GiveUp, RequestRec, SameRequest
  <1>3. Drops(s, c)
    BY <1>1, InvalidateDrops DEF GiveUp, s, c
  <1>4. UNCHANGED <<store, closers, crashed, hungUp, historyVars>>
    BY DEF GiveUp
  <1> HIDE DEF s, c
  <1>5. InTurn /\ NumbersOK /\ MutexOK /\ ConnOK /\ OpenOK /\ ActiveOK /\ TellingOK /\ ShutOK
    BY DEF CodexInv
  <1>6. InTurn'
    BY FieldsTyped, <1>0, <1>1, <1>2, <1>3, <1>4, <1>5 DEF InTurn, SameRequest, Drops
  <1>7. NumbersOK'
    BY FieldsTyped, <1>0, <1>1, <1>2, <1>3, <1>4, <1>5
       DEF NumbersOK, RequestNo, ConnNo, Telling, SameRequest, Drops, ConnOK, ConnOf
  <1>8. ASSUME NEW p \in Requests, NEW t \in Sessions PROVE MutexOf(p, t)'
    <2>1. CASE p = q
      BY FieldsTyped, <1>0, <1>1, <1>2, <1>3, <1>4, <1>5, <2>1
         DEF MutexOK, MutexOf, SameRequest, Drops, historyVars, Holds, Again, Past, RequestNo,
             Past, Again
    <2>2. CASE p # q
      BY FieldsTyped, <1>0, <1>1, <1>2, <1>3, <1>4, <1>5, <2>2
         DEF MutexOK, MutexOf, SameRequest, Drops, historyVars, Holds, Again, Past, RequestNo,
             Past, Again
    <2> QED  BY <2>1, <2>2
  <1>9. ASSUME NEW t \in Sessions, NEW d \in Conns PROVE ConnOf(t, d)'
    BY FieldsTyped, <1>0, <1>1, <1>3, <1>4, <1>5
       DEF ConnOK, ConnOf, SameRequest, Drops, historyVars
  <1>10. ASSUME NEW d \in Conns, NEW t \in Sessions PROVE OpenOf(d, t)'
    BY FieldsTyped, <1>0, <1>1, <1>3, <1>4, <1>5
       DEF OpenOK, OpenOf, SameRequest, Drops, historyVars, Closing
  <1>11. ASSUME NEW t \in Sessions, NEW p \in Requests PROVE ActiveOf(t, p)'
    <2>1. CASE p = q
      BY FieldsTyped, <1>0, <1>1, <1>2, <1>3, <1>4, <1>5, <2>1
         DEF ActiveOK, ActiveOf, SameRequest, Drops, historyVars, Holds, Before, Again, ConnOK,
             ConnOf
    <2>2. CASE p # q
      BY FieldsTyped, <1>0, <1>1, <1>2, <1>3, <1>4, <1>5, <2>2
         DEF ActiveOK, ActiveOf, SameRequest, Drops, historyVars, Holds, Before, Again, ConnOK,
             ConnOf
    <2> QED  BY <2>1, <2>2
  <1>12. ASSUME NEW d \in Conns, NEW p \in Requests PROVE TellsOf(d, p)'
    BY FieldsTyped, <1>0, <1>1, <1>2, <1>3, <1>4, <1>5
       DEF TellingOK, TellsOf, SameRequest, Drops, historyVars, Before, Again
  <1>13. ASSUME NEW p \in Requests, NEW d \in Conns PROVE ShutOf(p, d)'
    BY FieldsTyped, <1>0, <1>1, <1>2, <1>3, <1>4, <1>5
       DEF ShutOK, ShutOf, SameRequest, Drops, historyVars, Before, Again
  <1> QED
    BY <1>6, <1>7, <1>8, <1>9, <1>10, <1>11, <1>12, <1>13, <1>4, <1>5
       DEF CodexInv, MutexOK, ConnOK, OpenOK, ActiveOK, TellingOK, ShutOK, historyVars

\* The reader leaves, and drops the connection.
LEMMA ReaderLeavesInv ==
    ASSUME CodexInv, CodexTypes', NEW c \in Conns, ReaderLeaves(c)
    PROVE  CodexInv'
  <1> DEFINE s == conns[c].session
  <1>0. /\ requests \in [Requests -> RequestRec] /\ sessions \in [Sessions -> SessionRec]
        /\ conns \in [Conns -> ConnRec]
    BY DEF CodexInv, CodexTypes
  <1>1. /\ conns[c].reader = "leave" /\ ConnNo(conns[c]) /\ s \in Sessions /\ s = conns[c].session
        /\ ConnOf(s, c)
    BY RecordsTyped, FieldsTyped DEF CodexInv, NumbersOK, ConnNo, ConnOK, ReaderLeaves
  <1>2. /\ sessions'[s].used = sessions[s].used
        /\ sessions'[s].conn = (IF sessions[s].conn = c THEN 0 ELSE sessions[s].conn)
        /\ sessions'[s].active = sessions[s].active /\ sessions'[s].lock = sessions[s].lock
        /\ \A t \in Sessions : t # s => SameSession(sessions[t], sessions'[t])
    BY <1>0, <1>1 DEF ReaderLeaves, SessionRec, SameSession
  <1>3. /\ conns'[c].used = conns[c].used
        /\ conns'[c].state = (IF sessions[s].conn = c THEN "closed" ELSE conns[c].state)
        /\ conns'[c].session = conns[c].session /\ conns'[c].reader = "off"
        /\ conns'[c].to = conns[c].to
        /\ \A d \in Conns : d # c => SameConn(conns[d], conns'[d])
    <2>1. /\ conns' = [IF sessions[s].conn = c THEN Closed(c) ELSE conns EXCEPT ![c].reader = "off"]
      BY DEF ReaderLeaves
    <2>2. ASSUME NEW r \in ConnRec
          PROVE  /\ [r EXCEPT !.reader = "off"].used = r.used
                 /\ [r EXCEPT !.reader = "off"].state = r.state
                 /\ [r EXCEPT !.reader = "off"].session = r.session
                 /\ [r EXCEPT !.reader = "off"].reader = "off"
                 /\ [r EXCEPT !.reader = "off"].to = r.to
      BY DEF ConnRec
    <2>3. PICK f \in [Conns -> ConnRec] :
             /\ conns' = [f EXCEPT ![c].reader = "off"]
             /\ \A d \in Conns :
                   /\ f[d].used = conns[d].used /\ f[d].session = conns[d].session
                   /\ f[d].reader = conns[d].reader /\ f[d].to = conns[d].to
                   /\ f[d].state = IF d = c
                           /\ sessions[s].conn = c THEN "closed" ELSE conns[d].state
      BY <1>0, <2>1, ClosedIs
    <2>4. conns'[c] = [f[c] EXCEPT !.reader = "off"] /\ \A d \in Conns : d # c => conns'[d] = f[d]
      BY <2>3
    <2> QED  BY <2>2, <2>3, <2>4 DEF SameConn
  <1>4. UNCHANGED <<store, requests, closers, crashed, hungUp, historyVars>>
    BY DEF ReaderLeaves
  <1> HIDE DEF s
  <1>5. InTurn /\ NumbersOK /\ MutexOK /\ ConnOK /\ OpenOK /\ ActiveOK /\ TellingOK /\ ShutOK
    BY DEF CodexInv
  <1>6. InTurn'
    BY FieldsTyped, <1>0, <1>1, <1>2, <1>3, <1>4, <1>5
       DEF InTurn, SameRequest, SameSession, SameConn
  <1>7. NumbersOK'
    BY FieldsTyped, <1>0, <1>1, <1>2, <1>3, <1>4, <1>5
       DEF NumbersOK, RequestNo, ConnNo, Telling, SameRequest, SameSession, SameConn
  <1>8. ASSUME NEW p \in Requests, NEW t \in Sessions PROVE MutexOf(p, t)'
    BY FieldsTyped, <1>0, <1>1, <1>2, <1>4, <1>5
       DEF MutexOK, MutexOf, SameRequest, SameSession, SameConn, historyVars, Holds, Again, Past
  <1>9. ASSUME NEW t \in Sessions, NEW d \in Conns PROVE ConnOf(t, d)'
    BY FieldsTyped, <1>0, <1>1, <1>2, <1>3, <1>4, <1>5
       DEF ConnOK, ConnOf, SameRequest, SameSession, SameConn, historyVars
  <1>10. ASSUME NEW d \in Conns, NEW t \in Sessions PROVE OpenOf(d, t)'
    BY FieldsTyped, <1>0, <1>1, <1>3, <1>4, <1>5
       DEF OpenOK, OpenOf, SameRequest, SameSession, SameConn, historyVars, Closing
  <1>11. ASSUME NEW t \in Sessions, NEW p \in Requests PROVE ActiveOf(t, p)'
    BY FieldsTyped, <1>0, <1>1, <1>2, <1>3, <1>4, <1>5
       DEF ActiveOK, ActiveOf, SameRequest, SameSession, SameConn, historyVars, Holds, Before,
           Again
  <1>12. ASSUME NEW d \in Conns, NEW p \in Requests PROVE TellsOf(d, p)'
    BY FieldsTyped, <1>0, <1>1, <1>3, <1>4, <1>5
       DEF TellingOK, TellsOf, SameRequest, SameSession, SameConn, historyVars, Before, Again
  <1>13. ASSUME NEW p \in Requests, NEW d \in Conns PROVE ShutOf(p, d)'
    BY FieldsTyped, <1>0, <1>1, <1>3, <1>4, <1>5
       DEF ShutOK, ShutOf, SameRequest, SameSession, SameConn, historyVars, Before, Again
  <1> QED
    BY <1>6, <1>7, <1>8, <1>9, <1>10, <1>11, <1>12, <1>13, <1>4, <1>5
       DEF CodexInv, MutexOK, ConnOK, OpenOK, ActiveOK, TellingOK, ShutOK, historyVars

\* A session is closed.
LEMMA CloseSessionInv ==
    ASSUME CodexInv, CodexTypes', NEW k \in Closers, CloseSession(k)
    PROVE  CodexInv'
  <1> DEFINE s == closers[k].session
             c == IF s = 0 THEN 0 ELSE sessions[s].conn
  <1>0. /\ requests \in [Requests -> RequestRec] /\ sessions \in [Sessions -> SessionRec]
        /\ conns \in [Conns -> ConnRec]
    BY DEF CodexInv, CodexTypes
  <1>1. /\ closers[k].pc = "close" /\ s \in Sessions \cup {0} /\ c \in Conns \cup {0}
        /\ closers \in [Closers -> [pc : {"idle", "unstore", "close", "done"},
                session : Sessions \cup {0}]]
        /\ (k = "downstream" => hungUp) /\ s = closers[k].session
        /\ (c # 0 => s \in Sessions /\ sessions[s].conn = c) /\ (c = 0 /\ s # 0
                => sessions[s].conn = 0)
    BY FieldsTyped DEF CodexInv, CodexTypes, OpenOK, CloseSession
  <1>2. Drops(s, c)
    <2>1. CASE c = 0
      <3>1. sessions' = sessions /\ conns' = conns
        BY <2>1 DEF CloseSession, s, c
      <3> QED  BY <1>1, <2>1, <3>1, FieldsTyped DEF Drops
    <2>2. CASE c # 0
      <3>1. Invalidate(s, c)
        BY <1>1, <2>2 DEF CloseSession, Invalidate, s, c
      <3> QED  BY <1>1, <2>2, <3>1, InvalidateDrops
    <2> QED  BY <2>1, <2>2
  <1>3. /\ UNCHANGED <<store, requests, crashed, hungUp, historyVars>>
        /\ \A j \in Closers : /\ closers'[j].session = closers[j].session
                               /\ closers'[j].pc = IF j = k THEN "done" ELSE closers[j].pc
    BY <1>1 DEF CloseSession
  <1> HIDE DEF s, c
  <1>4. InTurn /\ NumbersOK /\ MutexOK /\ ConnOK /\ OpenOK /\ ActiveOK /\ TellingOK /\ ShutOK
    BY DEF CodexInv
  <1>5. hungUp' \/ closers'["downstream"].pc = "idle"
    BY FieldsTyped, <1>0, <1>1, <1>2, <1>2, <1>3, <1>4 DEF OpenOK, Closers
  <1>6. InTurn'
    BY FieldsTyped, <1>0, <1>1, <1>2, <1>3, <1>4 DEF InTurn, SameRequest, Drops
  <1>7. NumbersOK'
    BY FieldsTyped, <1>0, <1>1, <1>2, <1>3, <1>4
       DEF NumbersOK, RequestNo, ConnNo, Telling, SameRequest, Drops, ConnOK, ConnOf
  <1>8. ASSUME NEW p \in Requests, NEW t \in Sessions PROVE MutexOf(p, t)'
    BY FieldsTyped, <1>0, <1>1, <1>2, <1>3, <1>4
       DEF MutexOK, MutexOf, SameRequest, Drops, historyVars, Holds, Again, Past
  <1>9. ASSUME NEW t \in Sessions, NEW d \in Conns PROVE ConnOf(t, d)'
    BY FieldsTyped, <1>0, <1>1, <1>2, <1>3, <1>4
       DEF ConnOK, ConnOf, SameRequest, Drops, historyVars
  <1>10. ASSUME NEW d \in Conns, NEW t \in Sessions PROVE OpenOf(d, t)'
    <2>1. CASE sessions[s].conn # c \/ d # c
      BY FieldsTyped, <1>0, <1>1, <1>2, <1>3, <1>4, <2>1
         DEF OpenOK, OpenOf, SameRequest, Drops, historyVars, Closing, ConnOK, ConnOf
    <2>2. CASE sessions[s].conn = c /\ d = c
      BY FieldsTyped, <1>0, <1>1, <1>2, <1>3, <1>4, <2>2
         DEF OpenOK, OpenOf, SameRequest, Drops, historyVars, Closing, ConnOK, ConnOf
    <2> QED  BY <2>1, <2>2
  <1>11. ASSUME NEW t \in Sessions, NEW p \in Requests PROVE ActiveOf(t, p)'
    BY FieldsTyped, <1>0, <1>1, <1>2, <1>3, <1>4
       DEF ActiveOK, ActiveOf, SameRequest, Drops, historyVars, Holds, Before, Again
  <1>12. ASSUME NEW d \in Conns, NEW p \in Requests PROVE TellsOf(d, p)'
    BY FieldsTyped, <1>0, <1>1, <1>2, <1>3, <1>4
       DEF TellingOK, TellsOf, SameRequest, Drops, historyVars, Before, Again
  <1>13. ASSUME NEW p \in Requests, NEW d \in Conns PROVE ShutOf(p, d)'
    BY FieldsTyped, <1>0, <1>1, <1>2, <1>3, <1>4
       DEF ShutOK, ShutOf, SameRequest, Drops, historyVars, Before, Again
  <1> QED
    BY <1>6, <1>7, <1>8, <1>9, <1>10, <1>11, <1>12, <1>13, <1>3, <1>4, <1>5
       DEF CodexInv, MutexOK, ConnOK, OpenOK, ActiveOK, TellingOK, ShutOK, historyVars

\* The downstream ends, a session is found to be closed or taken out of the store.
LEMMA HangUpInv ==
    ASSUME CodexInv, CodexTypes', HangUp
    PROVE  CodexInv'
  <1>1. InTurn /\ NumbersOK /\ MutexOK /\ ConnOK /\ OpenOK /\ ActiveOK /\ TellingOK /\ ShutOK
        /\ closers \in [Closers -> [pc : {"idle", "unstore", "close", "done"},
                session : Sessions \cup {0}]]
    BY DEF CodexInv, CodexTypes
  <1>2. /\ UNCHANGED <<sessions, conns, requests, crashed, historyVars>> /\ store' = 0 /\ hungUp'
        /\ closers["downstream"].pc = "idle"
        /\ closers'["downstream"].pc = "close" /\ closers'["downstream"].session = store
        /\ \A k \in Closers : k # "downstream" => closers'[k] = closers[k]
    BY <1>1 DEF HangUp, OpenOK, Closers
  <1>3. ASSUME NEW d \in Conns, NEW t \in Sessions PROVE OpenOf(d, t)'
    BY <1>1, <1>2 DEF OpenOK, OpenOf, Closing, Closers, historyVars
  <1>4. InTurn' /\ NumbersOK'
    BY <1>1, <1>2, FieldsTyped DEF InTurn, NumbersOK
  <1>5. MutexOK' /\ ConnOK'
    BY <1>1, <1>2 DEF MutexOK, MutexOf, ConnOK, ConnOf
  <1>6. ActiveOK' /\ TellingOK' /\ ShutOK'
    BY <1>1, <1>2 DEF ActiveOK, ActiveOf, TellingOK, TellsOf, ShutOK, ShutOf, historyVars
  <1> QED
    BY <1>2, <1>3, <1>4, <1>5, <1>6 DEF CodexInv, OpenOK, historyVars

LEMMA UnstoreInv ==
    ASSUME CodexInv, CodexTypes', Unstore
    PROVE  CodexInv'
  <1>1. InTurn /\ NumbersOK /\ MutexOK /\ ConnOK /\ OpenOK /\ ActiveOK /\ TellingOK /\ ShutOK
        /\ closers \in [Closers -> [pc : {"idle", "unstore", "close", "done"},
                session : Sessions \cup {0}]]
    BY DEF CodexInv, CodexTypes
  <1> DEFINE s == closers["removal"].session
  <1>2. /\ UNCHANGED <<sessions, conns, requests, crashed, hungUp, historyVars>>
        /\ closers["removal"].pc = "unstore"
        /\ closers'["downstream"] = closers["downstream"] /\ closers'["removal"].session = s
        /\ \/ store # s /\ store' = store
           \/ store = s /\ store' = 0 /\ closers'["removal"].pc = "close"
    BY <1>1 DEF Unstore, Closers
  <1> HIDE DEF s
  <1>3. ASSUME NEW d \in Conns, NEW t \in Sessions PROVE OpenOf(d, t)'
    BY <1>1, <1>2 DEF OpenOK, OpenOf, Closing, Closers, historyVars
  <1>4. InTurn' /\ NumbersOK'
    BY <1>1, <1>2, FieldsTyped DEF InTurn, NumbersOK
  <1>5. MutexOK' /\ ConnOK'
    BY <1>1, <1>2 DEF MutexOK, MutexOf, ConnOK, ConnOf
  <1>6. ActiveOK' /\ TellingOK' /\ ShutOK'
    BY <1>1, <1>2 DEF ActiveOK, ActiveOf, TellingOK, TellsOf, ShutOK, ShutOf, historyVars
  <1>7. OpenOK'
    BY <1>1, <1>2, <1>3 DEF OpenOK
  <1> QED
    BY <1>2, <1>4, <1>5, <1>6, <1>7 DEF CodexInv, historyVars

\* Steps that the invariant does not look at.
LEMMA OutsideInv ==
    ASSUME CodexInv, CodexTypes',
           \/ \E q \in Requests : Cancel(q)
           \/ \E c \in Conns : Answers(c)
           \/ \E a \in Auths : Match(a)
    PROVE  CodexInv'
  <1>0. /\ requests \in [Requests -> RequestRec] /\ conns \in [Conns -> ConnRec]
        /\ closers \in [Closers -> [pc : {"idle", "unstore", "close", "done"},
                session : Sessions \cup {0}]]
    BY DEF CodexInv, CodexTypes
  <1>1. ASSUME NEW q \in Requests, Cancel(q)
        PROVE  Rests
    BY <1>0, <1>1 DEF Cancel, Rests, RequestRec, SameRequest, SameConn, historyVars
  <1>2. ASSUME NEW c \in Conns, Answers(c)
        PROVE  Rests
    <2>1. \A d \in Conns : SameConn(conns[d], conns'[d])
      <3>1. ASSUME NEW r \in ConnRec, NEW w, NEW n, NEW rest
            PROVE  /\ SameConn(r, [r EXCEPT !.wire = w, !.sent = n, !.asked = rest])
                   /\ SameConn(r, r)
        BY DEF ConnRec, SameConn
      <3>2. PICK kind : conns' =
               [conns EXCEPT ![c].wire = Append(@, [kind |-> kind, of |-> Head(conns[c].asked)]),
                             ![c].sent = IF kind = "end" THEN 0 ELSE conns[c].sent + 1,
                             ![c].asked = IF kind = "end" THEN Tail(@) ELSE @]
        BY <1>2 DEF Answers
      <3>3. ASSUME NEW d \in Conns
            PROVE  \/ conns'[d] = conns[d]
                   \/ \E w, n, rest :
                         conns'[d] = [conns[d] EXCEPT !.wire = w, !.sent = n, !.asked = rest]
        BY <1>0, <3>2
      <3>4. ASSUME NEW d \in Conns
            PROVE  SameConn(conns[d], conns'[d])
        <4>1. CASE conns'[d] = conns[d]
          BY <4>1 DEF SameConn
        <4>2. CASE \E w, n, rest : conns'[d] = [conns[d] EXCEPT !.wire = w, !.sent = n,
                !.asked = rest]
          <5>1. PICK w, n, rest : conns'[d] = [conns[d] EXCEPT !.wire = w, !.sent = n,
                  !.asked = rest]
            BY <4>2
          <5>2. SameConn(conns[d], [conns[d] EXCEPT !.wire = w, !.sent = n, !.asked = rest])
            BY <1>0, <3>1
          <5> QED  BY <5>1, <5>2
        <4> QED  BY <3>3, <4>1, <4>2
      <3> QED  BY <3>4
    <2> QED  BY <1>2, <2>1 DEF Answers, Rests, SameRequest, historyVars
  <1>3. ASSUME NEW a \in Auths, Match(a)
        PROVE  Rests
    BY <1>0, <1>3 DEF Match, Rests, SameRequest, SameConn, Closers, historyVars
  <1> QED
    BY <1>1, <1>2, <1>3, RestsInv

\* A connection breaks.
LEMMA BreaksInv ==
    ASSUME CodexInv, CodexTypes', NEW c \in Conns, Breaks(c)
    PROVE  CodexInv'
  <1>0. /\ requests \in [Requests -> RequestRec] /\ sessions \in [Sessions -> SessionRec]
        /\ conns \in [Conns -> ConnRec]
    BY DEF CodexInv, CodexTypes
  <1>2. /\ conns'[c].used = conns[c].used /\ conns'[c].state = "broken"
        /\ conns'[c].session = conns[c].session /\ conns'[c].reader = conns[c].reader
        /\ conns'[c].to = conns[c].to
        /\ \A d \in Conns : d # c => SameConn(conns[d], conns'[d])
    BY <1>0 DEF Breaks, ConnRec, SameConn
  <1>3. UNCHANGED <<store, sessions, requests, closers, crashed, hungUp, historyVars>>
    BY DEF Breaks
  <1>4. InTurn /\ NumbersOK /\ MutexOK /\ ConnOK /\ OpenOK /\ ActiveOK /\ TellingOK /\ ShutOK
    BY DEF CodexInv
  <1>5. conns[c].state = "open" /\ ConnNo(conns[c])
    BY <1>4 DEF Breaks, NumbersOK
  <1>6. InTurn'
    BY FieldsTyped, <1>0, <1>2, <1>3, <1>4 DEF InTurn, SameRequest, SameSession, SameConn
  <1>7. NumbersOK'
    BY FieldsTyped, <1>0, <1>2, <1>3, <1>4, <1>5
       DEF NumbersOK, RequestNo, ConnNo, Telling, SameRequest, SameSession, SameConn
  <1>8. ASSUME NEW p \in Requests, NEW t \in Sessions PROVE MutexOf(p, t)'
    BY FieldsTyped, <1>0, <1>3, <1>4
       DEF MutexOK, MutexOf, SameRequest, SameSession, SameConn, historyVars, Holds, Again, Past
  <1>9. ASSUME NEW t \in Sessions, NEW d \in Conns PROVE ConnOf(t, d)'
    BY FieldsTyped, <1>0, <1>2, <1>3, <1>4
       DEF ConnOK, ConnOf, SameRequest, SameSession, SameConn, historyVars
  <1>10. ASSUME NEW d \in Conns, NEW t \in Sessions PROVE OpenOf(d, t)'
    BY FieldsTyped, <1>0, <1>2, <1>3, <1>4
       DEF OpenOK, OpenOf, SameRequest, SameSession, SameConn, historyVars, Closing
  <1>11. ASSUME NEW t \in Sessions, NEW p \in Requests PROVE ActiveOf(t, p)'
    BY FieldsTyped, <1>0, <1>2, <1>3, <1>4
       DEF ActiveOK, ActiveOf, SameRequest, SameSession, SameConn, historyVars, Holds, Before,
           Again
  <1>12. ASSUME NEW d \in Conns, NEW p \in Requests PROVE TellsOf(d, p)'
    BY FieldsTyped, <1>0, <1>2, <1>3, <1>4
       DEF TellingOK, TellsOf, SameRequest, SameSession, SameConn, historyVars, Before, Again
  <1>13. ASSUME NEW p \in Requests, NEW d \in Conns PROVE ShutOf(p, d)'
    BY FieldsTyped, <1>0, <1>2, <1>3, <1>4
       DEF ShutOK, ShutOf, SameRequest, SameSession, SameConn, historyVars, Before, Again
  <1> QED
    BY <1>6, <1>7, <1>8, <1>9, <1>10, <1>11, <1>12, <1>13, <1>3, <1>4
       DEF CodexInv, MutexOK, ConnOK, OpenOK, ActiveOK, TellingOK, ShutOK, historyVars

\* The next request of the downstream.
LEMMA EnterInv ==
    ASSUME CodexInv, CodexTypes', NEW q \in Requests, NEW a \in Auths, Enter(q, a)
    PROVE  CodexInv'
  <1> DEFINE s == IF store # 0 THEN store ELSE Next1(sessions)
  <1>0. /\ requests \in [Requests -> RequestRec] /\ sessions \in [Sessions -> SessionRec]
        /\ conns \in [Conns -> ConnRec]
    BY DEF CodexInv, CodexTypes
  <1>1a. q = Next1(requests) /\ s # 0
    BY DEF Enter
  <1>1b. ~requests[q].used /\ \A p \in Requests : p < q => requests[p].used
    <2>1. DOMAIN requests = 1 .. MaxRequests /\ MaxRequests \in Nat /\ q # 0
            /\ \A p \in Requests : requests[p].used \in BOOLEAN
      BY <1>0, CodexAssumption, FieldsTyped DEF Requests
    <2> QED  BY <1>1a, <2>1, NextNumber DEF CodexInv, InTurn, Requests
  <1>1c. s \in Sessions /\ (store = 0 => \A t \in Sessions : t < s => sessions[t].used)
    <2>1. DOMAIN sessions = 1 .. MaxSessions /\ MaxSessions \in Nat
            /\ \A t \in Sessions : sessions[t].used \in BOOLEAN
      BY <1>0, CodexAssumption, FieldsTyped DEF Sessions
    <2>2. CASE store = 0
      BY <1>1a, <2>1, <2>2, NextNumber DEF CodexInv, InTurn, Sessions
    <2>3. CASE store # 0
      BY <2>3, <2>1 DEF CodexInv, CodexTypes
    <2> QED  BY <2>2, <2>3
  <1>1. /\ s \in Sessions /\ ~requests[q].used /\ (\A p \in Requests : p < q => requests[p].used)
        /\ requests[q].pc = "idle" /\ requests[q].session = 0 /\ ~requests[q].retry
        /\ \A t \in Sessions : t < s => sessions[t].used
    BY <1>1b, <1>1c, RecordsTyped DEF CodexInv, NumbersOK, RequestNo, InTurn
  <1>2. /\ requests'[q].used = TRUE /\ requests'[q].pc = "lock" /\ requests'[q].session = s
        /\ requests'[q].conn = requests[q].conn /\ requests'[q].retry = requests[q].retry
        /\ requests'[q].shutBy = requests[q].shutBy
        /\ \A p \in Requests : p # q => SameRequest(requests[p], requests'[p])
    BY <1>0, <1>1 DEF Enter, RequestRec, SameRequest
  <1>3. /\ sessions'[s].used = TRUE /\ sessions'[s].conn = sessions[s].conn
        /\ sessions'[s].active = sessions[s].active /\ sessions'[s].lock = sessions[s].lock
        /\ \A t \in Sessions : t # s => SameSession(sessions[t], sessions'[t])
    BY <1>0, <1>1 DEF Enter, SessionRec, SameSession
  <1>4. /\ UNCHANGED <<conns, closers, crashed, hungUp, historyVars>>
        /\ store' = s /\ store \in {0, s}
    BY DEF Enter, s
  <1> HIDE DEF s
  <1>5. InTurn /\ NumbersOK /\ MutexOK /\ ConnOK /\ OpenOK /\ ActiveOK /\ TellingOK /\ ShutOK
    BY DEF CodexInv
  <1>6. InTurn'
    BY FieldsTyped, <1>0, <1>1, <1>2, <1>3, <1>4, <1>5
       DEF InTurn, SameRequest, SameSession, SameConn
  <1>7. NumbersOK'
    BY FieldsTyped, <1>0, <1>1, <1>2, <1>3, <1>4, <1>5
       DEF NumbersOK, RequestNo, ConnNo, Telling, SameRequest, SameSession, SameConn
  <1>8. ASSUME NEW p \in Requests, NEW t \in Sessions PROVE MutexOf(p, t)'
    <2>1. CASE p = q
      BY FieldsTyped, <1>0, <1>1, <1>2, <1>3, <1>4, <1>5, <2>1
         DEF MutexOK, MutexOf, SameRequest, SameSession, SameConn, historyVars, Holds, Again,
             Past, RequestNo, Past, Again
    <2>2. CASE p # q
      BY FieldsTyped, <1>0, <1>1, <1>2, <1>3, <1>4, <1>5, <2>2
         DEF MutexOK, MutexOf, SameRequest, SameSession, SameConn, historyVars, Holds, Again,
             Past, RequestNo, Past, Again
    <2> QED  BY <2>1, <2>2
  <1>9. ASSUME NEW t \in Sessions, NEW d \in Conns PROVE ConnOf(t, d)'
    BY FieldsTyped, <1>0, <1>1, <1>3, <1>4, <1>5
       DEF ConnOK, ConnOf, SameRequest, SameSession, SameConn, historyVars
  <1>10. ASSUME NEW d \in Conns, NEW t \in Sessions PROVE OpenOf(d, t)'
    BY FieldsTyped, <1>0, <1>1, <1>4, <1>5
       DEF OpenOK, OpenOf, SameRequest, SameSession, SameConn, historyVars, Closing
  <1>11. ASSUME NEW t \in Sessions, NEW p \in Requests PROVE ActiveOf(t, p)'
    <2>1. CASE p = q
      BY FieldsTyped, <1>0, <1>1, <1>2, <1>3, <1>4, <1>5, <2>1
         DEF ActiveOK, ActiveOf, SameRequest, SameSession, SameConn, historyVars, Holds, Before,
             Again
    <2>2. CASE p # q
      BY FieldsTyped, <1>0, <1>1, <1>2, <1>3, <1>4, <1>5, <2>2
         DEF ActiveOK, ActiveOf, SameRequest, SameSession, SameConn, historyVars, Holds, Before,
             Again
    <2> QED  BY <2>1, <2>2
  <1>12. ASSUME NEW d \in Conns, NEW p \in Requests PROVE TellsOf(d, p)'
    BY FieldsTyped, <1>0, <1>1, <1>2, <1>4, <1>5
       DEF TellingOK, TellsOf, SameRequest, SameSession, SameConn, historyVars, Before, Again
  <1>13. ASSUME NEW p \in Requests, NEW d \in Conns PROVE ShutOf(p, d)'
    BY FieldsTyped, <1>0, <1>1, <1>2, <1>4, <1>5
       DEF ShutOK, ShutOf, SameRequest, SameSession, SameConn, historyVars, Before, Again
  <1> QED
    BY <1>6, <1>7, <1>8, <1>9, <1>10, <1>11, <1>12, <1>13, <1>4, <1>5
       DEF CodexInv, MutexOK, ConnOK, OpenOK, ActiveOK, TellingOK, ShutOK, historyVars
-----------------------------------------------------------------------------
(* The invariant holds, and what it says. *)

LEMMA CodexInitInv == CodexInit => CodexInv
  <1> SUFFICES ASSUME CodexInit PROVE CodexInv
    OBVIOUS
  <1>0. 0 \notin Requests /\ 0 \notin Sessions /\ 0 \notin Conns
    BY CodexAssumption DEF Requests, Sessions, Conns
  <1>1. Nothing \in WireRec
    BY DEF Nothing, WireRec, Kinds
  <1>2. <<>> \in Seq(WireRec) /\ <<>> \in Seq(Requests) /\ <<>> \in Seq(HeardRec)
    OBVIOUS
  <1>3. /\ sessions \in [Sessions -> SessionRec] /\ conns \in [Conns -> ConnRec]
        /\ requests \in [Requests -> RequestRec]
    BY <1>1, <1>2 DEF CodexInit, SessionRec, ConnRec, RequestRec, RequestPcs, ReaderPcs
  <1>4. CodexTypes
    BY <1>3 DEF CodexTypes, CodexInit
  <1>5. /\ \A q \in Requests : /\ ~requests[q].used /\ requests[q].pc = "idle" /\ ~requests[q].retry
                               /\ requests[q].session = 0 /\ requests[q].shutBy = 0
        /\ \A s \in Sessions : ~sessions[s].used /\ sessions[s].conn = 0 /\ sessions[s].active = 0
        /\ \A c \in Conns : /\ ~conns[c].used /\ conns[c].state = "none" /\ conns[c].session = 0
                            /\ conns[c].reader = "off" /\ conns[c].to = 0
    BY DEF CodexInit
  <1>6. InTurn /\ NumbersOK
    BY <1>0, <1>5 DEF InTurn, NumbersOK, RequestNo, ConnNo, Telling, CodexInit
  <1>7. MutexOK /\ ConnOK
    BY <1>0, <1>5 DEF MutexOK, MutexOf, ConnOK, ConnOf
  <1>8. OpenOK
    BY <1>5 DEF OpenOK, OpenOf, CodexInit, Closers
  <1>9. ActiveOK /\ TellingOK /\ ShutOK
    BY <1>0, <1>5 DEF ActiveOK, ActiveOf, TellingOK, TellsOf, ShutOK, ShutOf
  <1> QED
    BY <1>4, <1>6, <1>7, <1>8, <1>9 DEF CodexInv, CodexInit

LEMMA RequestInv ==
    ASSUME CodexInv, NEW q \in Requests, RequestStep(q)
    PROVE  CodexInv'
  <1>1. CASE Lock(q) \/ Ensure(q) \/ DialSucceeds(q) \/ DialFails(q)
    BY <1>1, LockTyped, EnsureTyped, DialSucceedsTyped, DialFailsTyped,
       LockInv, EnsureInv, DialSucceedsInv, DialFailsInv
  <1>2. CASE DialRefused(q) \/ Activate(q) \/ SendAgain(q) \/ GiveUp(q) \/ Leave(q)
    BY <1>2, DialRefusedTyped, ActivateTyped, SendAgainTyped, GiveUpTyped, LeaveTyped,
       DialRefusedInv, ActivateInv, SendAgainInv, GiveUpInv, LeaveInv
  <1>3. CASE Send(q) \/ Read(q) \/ ReadClosed(q) \/ ReadCanceled(q)
    BY <1>3, SendTyped, ReadTyped, ReadClosedTyped, ReadCanceledTyped, LateInv
  <1> QED
    BY <1>1, <1>2, <1>3 DEF RequestStep

LEMMA ReaderInv ==
    ASSUME CodexInv, NEW c \in Conns, ReaderStep(c) \/ Answers(c) \/ Breaks(c)
    PROVE  CodexInv'
  <1>1. CASE ReadMessage(c) \/ Deliver(c) \/ ReadFails(c)
    BY <1>1, ReadMessageTyped, DeliverTyped, ReadFailsTyped, ReadMessageInv, DeliverInv,
       ReadFailsInv
  <1>2. CASE TellLost(c) \/ ShutChannel(c) \/ ReaderLeaves(c)
    BY <1>2, TellLostTyped, ShutChannelTyped, ReaderLeavesTyped,
       TellLostInv, ShutChannelInv, ReaderLeavesInv
  <1>3. CASE Answers(c) \/ Breaks(c) \/ IdleTimeout(c)
    BY <1>3, AnswersTyped, BreaksTyped, OutsideInv, BreaksInv DEF IdleTimeout
  <1> QED
    BY <1>1, <1>2, <1>3 DEF ReaderStep

LEMMA CodexNextInv == CodexInv /\ [CodexNext]_codexVars => CodexInv'
  <1> SUFFICES ASSUME CodexInv, [CodexNext]_codexVars PROVE CodexInv'
    OBVIOUS
  <1>1. ASSUME NEW q \in Requests,
               RequestStep(q) \/ Cancel(q) \/ \E a \in Auths : Enter(q, a)
        PROVE  CodexInv'
    BY <1>1, RequestInv, CancelTyped, OutsideInv, EnterTyped, EnterInv
  <1>2. ASSUME NEW c \in Conns, ReaderStep(c) \/ Answers(c) \/ Breaks(c)
        PROVE  CodexInv'
    BY <1>2, ReaderInv
  <1>3. CASE HangUp \/ Unstore \/ \E a \in Auths : Match(a)
    BY <1>3, HangUpTyped, HangUpInv, UnstoreTyped, UnstoreInv, MatchTyped, OutsideInv
  <1>4. CASE \E k \in Closers : CloseSession(k)
    BY <1>4, CloseSessionTyped, CloseSessionInv
  <1>5. CASE UNCHANGED codexVars
    <2>1. CodexTypes' /\ Rests
      BY <1>5 DEF CodexInv, CodexTypes, codexVars, historyVars, Rests, SameRequest, SameConn
    <2> QED  BY <2>1, RestsInv
  <1> QED
    BY <1>1, <1>2, <1>3, <1>4, <1>5 DEF CodexNext

LEMMA CodexInvariant == CodexSpec => []CodexInv
  BY CodexInitInv, CodexNextInv, PTL DEF CodexSpec

\* A connection that is open belongs to a session that uses it, and that will be
\* closed with it: whoever drops a connection closes it, and who holds the mutex
\* is alone to dial.
THEOREM NoneOrphaned == CodexSpec => []NoOrphan
  <1>1. CodexInv => NoOrphan
    <2> SUFFICES ASSUME CodexInv, NEW c \in Conns, conns[c].state = "open"
                 PROVE  LET s == conns[c].session
                        IN  /\ sessions[s].conn = c
                            /\ \/ s = store \/ s \in late
                               \/ \E k \in Closers : closers[k] = [pc |-> "close", session |-> s]
      BY DEF NoOrphan
    <2> DEFINE s == conns[c].session
    <2>1. s \in Sessions
      BY RecordsTyped DEF CodexInv, NumbersOK, ConnNo
    <2>2. sessions[s].conn = c /\ (s = store \/ s \in late \/ Closing(s))
      BY <2>1 DEF CodexInv, ConnOK, ConnOf, OpenOK, OpenOf
    <2>3. \A k \in Closers : closers[k].pc = "close" /\ closers[k].session = s =>
             closers[k] = [pc |-> "close", session |-> s]
      BY DEF CodexInv, CodexTypes
    <2> QED  BY <2>2, <2>3 DEF Closing
  <1> QED
    BY <1>1, CodexInvariant, PTL

\* A channel is closed by the reader of its own request's connection, so that no
\* reader sends on, or closes, a closed one: unless a reader of a dead connection
\* was still there when the request became active or was sent again.
THEOREM OwnConnectionEnds == CodexSpec => []EndsByOwnConnection
  <1>1. CodexInv => EndsByOwnConnection
    BY FieldsTyped DEF CodexInv, ShutOK, ShutOf, EndsByOwnConnection
  <1> QED
    BY <1>1, CodexInvariant, PTL

-----------------------------------------------------------------------------
(* Whose events a request is given. *)

Live(d) == d.state \in {"open", "broken"}
Reads(d) == d.reader \in {"read", "deliver"}
Begun(r) == r.pc \in {"read", "giveUp", "leave", "ended"}
Over(r) == r.pc \in {"leave", "ended"}
Broke(r) == r.outcome \in {"canceled", "closed"}

\* Events of the request p may still be read from the connection.
Coming(d, p) == \/ \E i \in DOMAIN d.asked : d.asked[i] = p
                \/ \E i \in DOMAIN d.wire : d.wire[i].of = p

\* A request before q left the connection in the middle of its response.
Left(c, q) == \E p \in Requests : p < q /\ requests[p].conn = c /\ Broke(requests[p])

BrokeOK == \A p \in Requests : Broke(requests[p]) => Over(requests[p])

\* A request is let in when those before it are over for the downstream.
SeqOK == \A p, q \in Requests : p < q /\ requests[q].used =>
             Begun(requests[p]) /\ (Over(requests[p]) \/ requests[p].gone)

\* Whoever drops a connection closes it; who has the mutex has one of its session.
UseOK == \A c \in Conns : Live(conns[c]) => sessions[conns[c].session].conn = c
MineOK == \A q \in Requests : Past(requests[q]) =>
    requests[q].conn \in Conns /\ conns[requests[q].conn].session = requests[q].session

\* What is on the way was asked for by a request that was sent over this connection.
ComeOK == \A c \in Conns, p \in Requests : Coming(conns[c], p) =>
    /\ Begun(requests[p]) /\ requests[p].conn = c
    /\ requests[p].session = conns[c].session /\ Live(conns[c])

\* A response is asked for once, and nothing of it comes after its end.
WireOf(d) ==
    /\ \A i \in DOMAIN d.wire :
          /\ i = 1 /\ d.wire[i].of # 0
          /\ d.wire[i].kind = "end" => \A j \in DOMAIN d.asked : d.asked[j] # d.wire[i].of
    /\ \A i, j \in DOMAIN d.asked : d.asked[i] = d.asked[j] => i = j
WireOK == \A c \in Conns : WireOf(conns[c])

Known(c, m) == /\ m.of # 0 => Begun(requests[m.of])
               /\ m.kind = "end" => ~Coming(conns[c], m.of)
Fits(c, m, q) == m.of \notin {0, q} /\ requests[q].conn = c => Left(c, q)
HeldOK == \A c \in Conns : conns[c].reader = "deliver" =>
    conns[c].held.of # 0 /\ Known(c, conns[c].held) /\ Fits(c, conns[c].held, conns[c].to)

HeardOf(q, m) ==
    /\ ~Before(requests[q]) /\ conns[m.conn].used
    /\ m.of = 0 <=> m.kind = "lost"
    /\ m.kind = "lost" => ~Reads(conns[m.conn])
    /\ Known(m.conn, m) /\ Fits(m.conn, m, q)
HeardOK == \A q \in Requests : \A i \in DOMAIN requests[q].buf : HeardOf(q, requests[q].buf[i])

\* While the connection is read, what is left of a response was left in the middle,
\* and who comes after that request knows.
LeftOK == \A c \in Conns, p \in Requests :
    Reads(conns[c]) /\ Coming(conns[c], p) /\ Over(requests[p]) => Broke(requests[p]) \/ Left(c, p)
NextOf(c, p, q) ==
    Reads(conns[c]) /\ Coming(conns[c], p) /\ p # q /\ Past(requests[q]) /\ requests[q].conn = c
        => Left(c, q)
NextOK == \A c \in Conns, p, q \in Requests : NextOf(c, p, q)

ForeignOK == \A q \in foreign \cap Requests : Begun(requests[q]) /\ Left(requests[q].conn, q)

AnswerInv ==
    /\ foreign \subseteq Requests
    /\ BrokeOK /\ SeqOK /\ UseOK /\ MineOK /\ ComeOK /\ WireOK /\ HeldOK /\ HeardOK
    /\ LeftOK /\ NextOK /\ ForeignOK

\* What a step may do to a request and to a connection.
Goes(r, x) ==
    /\ Begun(r) => Begun(x) /\ x.conn = r.conn /\ x.session = r.session
    /\ Over(r) => Over(x)
    /\ Broke(r) => Broke(x)
    /\ Broke(x) => Over(x)
Runs(d, x) == d.used => x.used /\ x.session = d.session /\ (Reads(x) => Reads(d))
Comes(d, x) == \A p \in Requests : Coming(x, p) => Coming(d, p) /\ Live(x)
Keeps(d, x) == x.reader = "deliver" => d.reader = "deliver" /\ x.held = d.held /\ x.to = d.to

AllGo == \A p \in Requests : Goes(requests[p], requests'[p])
AllRun == \A c \in Conns : Runs(conns[c], conns'[c])
NoneCome == \A c \in Conns : Comes(conns[c], conns'[c])
FewCome == \A c \in Conns, p \in Requests :
    Begun(requests[p]) /\ Coming(conns'[c], p) => Coming(conns[c], p)
Moves == \A p \in Requests :
    /\ Before(requests'[p]) => Before(requests[p])
    /\ requests'[p].conn # requests[p].conn =>
          requests'[p].conn = 0 \/ ~conns[requests'[p].conn].used \/ Before(requests[p])

LEMMA LeftStays ==
    ASSUME AllGo, BrokeOK, NEW c, NEW q, Left(c, q)
    PROVE  Left(c, q)'
  <1>1. PICK p \in Requests : p < q /\ requests[p].conn = c /\ Broke(requests[p])
    BY DEF Left
  <1>2. Begun(requests[p]) /\ Goes(requests[p], requests'[p])
    BY <1>1 DEF BrokeOK, Begun, Over, AllGo
  <1>3. requests'[p].conn = c /\ Broke(requests'[p])
    BY <1>1, <1>2 DEF Goes
  <1> QED
    BY <1>1, <1>3 DEF Left

LEMMA ComeStays ==
    ASSUME CodexInv, ComeOK, AllGo, AllRun, NoneCome
    PROVE  ComeOK'
  <1> SUFFICES ASSUME NEW c \in Conns, NEW p \in Requests, Coming(conns'[c], p)
               PROVE  /\ Begun(requests'[p]) /\ requests'[p].conn = c
                      /\ requests'[p].session = conns'[c].session /\ Live(conns'[c])
    BY DEF ComeOK
  <1>1. Coming(conns[c], p) /\ Live(conns'[c])
    BY DEF NoneCome, Comes
  <1>2. /\ Begun(requests[p]) /\ requests[p].conn = c
        /\ requests[p].session = conns[c].session /\ Live(conns[c])
    BY <1>1 DEF ComeOK
  <1>3. conns[c].used
    BY <1>2 DEF CodexInv, NumbersOK, ConnNo, Live
  <1>4. conns'[c].session = conns[c].session
    BY <1>3 DEF AllRun, Runs
  <1> QED
    BY <1>1, <1>2, <1>4 DEF AllGo, Goes

LEMMA KnownStays ==
    ASSUME AllGo, FewCome, NEW c \in Conns, NEW m, m.of \in Requests \cup {0}, Known(c, m),
           m.of # 0
    PROVE  Known(c, m)'
  BY DEF Known, AllGo, Goes, FewCome

LEMMA FitsStays ==
    ASSUME AllGo, BrokeOK, Moves, NEW c \in Conns, NEW m, NEW q \in Requests, Fits(c, m, q),
           conns[c].used, ~Before(requests[q])
    PROVE  Fits(c, m, q)'
  <1> SUFFICES ASSUME m.of \notin {0, q}, requests'[q].conn = c PROVE Left(c, q)'
    BY DEF Fits
  <1>0. c # 0
    BY CodexAssumption DEF Conns
  <1>1. requests[q].conn = c
    BY <1>0 DEF Moves
  <1> QED
    BY <1>1, LeftStays DEF Fits

LEMMA HeldStays ==
    ASSUME CodexInv, BrokeOK, HeldOK, AllGo, FewCome, Moves, NEW c \in Conns,
           Keeps(conns[c], conns'[c]), conns'[c].reader = "deliver"
    PROVE  conns'[c].held.of # 0 /\ Known(c, conns[c].held)' /\ Fits(c, conns[c].held, conns[c].to)'
  <1>0. PICK m, q : m = conns[c].held /\ q = conns[c].to
    OBVIOUS
  <1>1. conns[c].reader = "deliver" /\ conns'[c].held = m /\ conns'[c].to = q
    BY <1>0 DEF Keeps
  <1>2. m.of # 0 /\ Known(c, m) /\ Fits(c, m, q)
    BY <1>0, <1>1 DEF HeldOK
  <1>3. conns[c] \in ConnRec /\ ConnNo(conns[c])
    BY RecordsTyped DEF CodexInv, NumbersOK
  <1>4. m.of \in Requests \cup {0} /\ q \in Requests /\ conns[c].used
    BY <1>0, <1>1, <1>3 DEF ConnNo, Telling, ConnRec, WireRec
  <1>5. ~Before(requests[q])
    BY <1>0, <1>4 DEF CodexInv, TellingOK, TellsOf
  <1> QED
    BY <1>1, <1>2, <1>4, <1>5, KnownStays, FitsStays

LEMMA HeardStays ==
    ASSUME CodexInv, BrokeOK, AllGo, AllRun, FewCome, Moves, NEW q \in Requests,
           NEW m \in HeardRec, HeardOf(q, m)
    PROVE  HeardOf(q, m)'
  <1>1. m.conn \in Conns /\ m.of \in Requests \cup {0}
    BY DEF HeardRec
  <1>2. /\ ~Before(requests[q]) /\ conns[m.conn].used
        /\ m.of = 0 <=> m.kind = "lost"
        /\ m.kind = "lost" => ~Reads(conns[m.conn])
        /\ Known(m.conn, m) /\ Fits(m.conn, m, q)
    BY DEF HeardOf
  <1>3. ~Before(requests'[q]) /\ conns'[m.conn].used /\ (m.kind = "lost" => ~Reads(conns'[m.conn]))
    BY <1>1, <1>2 DEF Moves, AllRun, Runs
  <1>4. Known(m.conn, m)'
    <2>1. CASE m.of = 0
      BY <1>2, <2>1 DEF Known
    <2>2. CASE m.of # 0
      BY <1>1, <1>2, <2>2, KnownStays
    <2> QED  BY <2>1, <2>2
  <1>5. Fits(m.conn, m, q)'
    BY <1>1, <1>2, FitsStays
  <1> QED
    BY <1>2, <1>3, <1>4, <1>5 DEF HeardOf

\* A channel that gets nothing new.
Hears(r, x) == \A i \in DOMAIN x.buf : \E j \in DOMAIN r.buf : x.buf[i] = r.buf[j]

LEMMA MessagesTyped ==
    ASSUME CodexInv, NEW q \in Requests, NEW i \in DOMAIN requests[q].buf
    PROVE  requests[q].buf[i] \in HeardRec
  <1>1. requests[q] \in RequestRec
    BY RecordsTyped
  <1>2. requests[q].buf \in Seq(HeardRec)
    BY <1>1 DEF RequestRec
  <1> QED
    BY <1>2

LEMMA HeardAllStays ==
    ASSUME CodexInv, BrokeOK, HeardOK, AllGo, AllRun, FewCome, Moves, NEW q \in Requests,
           Hears(requests[q], requests'[q]), NEW i \in DOMAIN requests'[q].buf
    PROVE  HeardOf(q, requests[q].buf[i])'
  <1>1. PICK j \in DOMAIN requests[q].buf : requests'[q].buf[i] = requests[q].buf[j]
    BY DEF Hears
  <1>2. PICK m : m = requests[q].buf[j]
    OBVIOUS
  <1>3. m \in HeardRec /\ HeardOf(q, m)
    BY <1>2, MessagesTyped DEF HeardOK
  <1>4. HeardOf(q, m)'
    BY <1>3, HeardStays
  <1> QED
    BY <1>1, <1>2, <1>4

LEMMA LeftAllStays ==
    ASSUME CodexInv, BrokeOK, ComeOK, LeftOK, AllGo, AllRun, NoneCome,
           NEW c \in Conns, NEW p \in Requests,
           Over(requests'[p]) /\ ~Over(requests[p]) => Broke(requests'[p]) \/ ~Coming(conns'[c], p),
           Reads(conns'[c]), Coming(conns'[c], p), Over(requests'[p])
    PROVE  Broke(requests'[p]) \/ Left(c, p)'
  <1>1. Coming(conns[c], p) /\ conns[c].used
    BY DEF NoneCome, Comes, ComeOK, Live, CodexInv, NumbersOK, ConnNo
  <1>2. Reads(conns[c])
    BY <1>1 DEF AllRun, Runs
  <1>3. CASE ~Over(requests[p])
    BY <1>3
  <1>4. CASE Over(requests[p])
    <2>1. Broke(requests[p]) \/ Left(c, p)
      BY <1>1, <1>2, <1>4 DEF LeftOK
    <2> QED  BY <2>1, LeftStays DEF AllGo, Goes
  <1> QED
    BY <1>3, <1>4

\* A request that keeps its connection.
Remains(r, x) == Past(x) => Past(r) /\ x.conn = r.conn /\ x.session = r.session

LEMMA NextStays ==
    ASSUME CodexInv, BrokeOK, ComeOK, NextOK, AllGo, AllRun, NoneCome,
           NEW c \in Conns, NEW p \in Requests, NEW q \in Requests,
           Remains(requests[q], requests'[q])
    PROVE  NextOf(c, p, q)'
  <1> SUFFICES ASSUME Reads(conns'[c]), Coming(conns'[c], p), p # q, Past(requests'[q]),
                      requests'[q].conn = c
               PROVE  Left(c, q)'
    BY DEF NextOf
  <1>1. Coming(conns[c], p) /\ conns[c].used
    BY DEF NoneCome, Comes, ComeOK, Live, CodexInv, NumbersOK, ConnNo
  <1>2. Reads(conns[c])
    BY <1>1 DEF AllRun, Runs
  <1>3. Past(requests[q]) /\ requests[q].conn = c
    BY DEF Remains
  <1>4. Left(c, q)
    BY <1>1, <1>2, <1>3 DEF NextOK, NextOf
  <1> QED
    BY <1>4, LeftStays

LEMMA MineStays ==
    ASSUME CodexInv, MineOK, AllRun, NEW q \in Requests, Remains(requests[q], requests'[q]),
           Past(requests'[q])
    PROVE  requests'[q].conn \in Conns /\ conns'[requests'[q].conn].session = requests'[q].session
  <1>1. /\ Past(requests[q]) /\ requests'[q].conn = requests[q].conn
        /\ requests'[q].session = requests[q].session
    BY DEF Remains
  <1>2. requests[q].conn \in Conns /\ conns[requests[q].conn].session = requests[q].session
    BY <1>1 DEF MineOK
  <1>3. requests[q].session # 0
    BY <1>1 DEF CodexInv, NumbersOK, RequestNo, Past
  <1>4. conns[requests[q].conn].used
    BY <1>2, <1>3 DEF CodexInv, NumbersOK, ConnNo
  <1> QED
    BY <1>1, <1>2, <1>4 DEF AllRun, Runs

LEMMA SeqStays ==
    ASSUME SeqOK, AllGo,
           \A p \in Requests : /\ requests'[p].used => requests[p].used
                               /\ requests[p].gone => requests'[p].gone
    PROVE  SeqOK'
  BY DEF SeqOK, AllGo, Goes

LEMMA ForeignStays ==
    ASSUME ForeignOK, BrokeOK, AllGo, NEW q \in foreign \cap Requests
    PROVE  Begun(requests'[q]) /\ Left(requests[q].conn, q)'
  <1>1. Begun(requests[q]) /\ Left(requests[q].conn, q)
    BY DEF ForeignOK
  <1>2. PICK c : c = requests[q].conn
    OBVIOUS
  <1>3. Left(c, q)'
    BY <1>1, <1>2, LeftStays
  <1>4. Begun(requests'[q]) /\ requests'[q].conn = c
    BY <1>1, <1>2 DEF AllGo, Goes
  <1> QED
    BY <1>3, <1>4

-----------------------------------------------------------------------------
(* Steps that bring no event to anyone. *)

Easy(r, x) ==
    /\ Goes(r, x) /\ x.conn = r.conn
    /\ Remains(r, x) /\ Hears(r, x) /\ (Before(x) => Before(r))
Calm(r, x) == Easy(r, x) /\ (x.used => r.used) /\ (r.gone => x.gone)
Still(d, x) == Runs(d, x) /\ Comes(d, x) /\ Keeps(d, x) /\ (WireOf(d) => WireOf(x))

Eases ==
    /\ \A p \in Requests :
          /\ Easy(requests[p], requests'[p])
          /\ Over(requests'[p]) /\ ~Over(requests[p]) =>
                Broke(requests'[p]) \/ \A c \in Conns : ~Coming(conns'[c], p)
    /\ \A c \in Conns : Still(conns[c], conns'[c])
    /\ foreign' = foreign
Quiet == Eases /\ \A p \in Requests : Calm(requests[p], requests'[p])

LEMMA EasesKeeps ==
    ASSUME CodexInv, AnswerInv, Eases, UseOK', SeqOK'
    PROVE  AnswerInv'
  <1>1. /\ foreign \subseteq Requests /\ BrokeOK /\ SeqOK /\ UseOK /\ MineOK /\ ComeOK /\ WireOK
        /\ HeldOK /\ HeardOK /\ LeftOK /\ NextOK /\ ForeignOK
    BY DEF AnswerInv
  <1>2. AllGo /\ AllRun /\ NoneCome /\ FewCome /\ Moves
    BY DEF Eases, Easy, Still, AllGo, AllRun, NoneCome, FewCome, Comes, Moves
  <1>3. BrokeOK' /\ ComeOK' /\ WireOK' /\ foreign' \subseteq Requests
    <2>1. BrokeOK'
      BY <1>2 DEF BrokeOK, AllGo, Goes
    <2>2. ComeOK'
      BY <1>1, <1>2, ComeStays
    <2>3. WireOK' /\ foreign' \subseteq Requests
      BY <1>1 DEF WireOK, Eases, Still
    <2> QED  BY <2>1, <2>2, <2>3
  <1>4. HeldOK'
    BY <1>1, <1>2, HeldStays DEF HeldOK, Eases, Still
  <1>5. HeardOK'
    BY <1>1, <1>2, HeardAllStays DEF HeardOK, Eases, Easy
  <1>6. LeftOK'
    BY <1>1, <1>2, LeftAllStays DEF LeftOK, Eases
  <1>7. NextOK' /\ MineOK'
    BY <1>1, <1>2, NextStays, MineStays DEF NextOK, MineOK, Eases, Easy
  <1>8. ForeignOK'
    BY <1>1, <1>2, ForeignStays DEF ForeignOK, Eases
  <1> QED
    BY <1>3, <1>4, <1>5, <1>6, <1>7, <1>8 DEF AnswerInv

LEMMA QuietKeeps ==
    ASSUME CodexInv, AnswerInv, Quiet, UseOK'
    PROVE  AnswerInv'
  <1>1. AllGo /\ SeqOK /\ Eases
    BY DEF Quiet, Calm, Easy, AllGo, AnswerInv
  <1>2. SeqOK'
    BY <1>1, SeqStays DEF Quiet, Calm
  <1> QED
    BY <1>1, <1>2, EasesKeeps

\* A request of which only done or shutBy changes.
Alike(r, x) ==
    /\ x.used = r.used /\ x.pc = r.pc /\ x.session = r.session /\ x.conn = r.conn
    /\ x.retry = r.retry /\ x.buf = r.buf /\ x.gone = r.gone /\ x.outcome = r.outcome

LEMMA AlikeCalm ==
    ASSUME NEW r, NEW x, Alike(r, x), Broke(r) => Over(r)
    PROVE  Calm(r, x) /\ (Over(x) => Over(r))
  <1>1. Goes(r, x) /\ Remains(r, x) /\ (Over(x) => Over(r)) /\ (Before(x) => Before(r))
    BY DEF Alike, Goes, Remains, Begun, Over, Broke, Past, Before
  <1>2. Hears(r, x)
    BY DEF Alike, Hears
  <1> QED
    BY <1>1, <1>2 DEF Alike, Calm, Easy

LEMMA DoneButAlike ==
    ASSUME CodexInv, NEW s, NEW q, NEW p \in Requests
    PROVE  Alike(requests[p], DoneBut(s, q)[p])
  <1>1. requests[p] \in RequestRec
    BY RecordsTyped
  <1>2. DoneBut(s, q)[p] \in {requests[p], [requests[p] EXCEPT !.done = TRUE]}
    BY DEF DoneBut
  <1> QED
    BY <1>1, <1>2 DEF Alike, RequestRec

\* The request q takes a step; the connections lose at most what was on its way.
Steps(q) ==
    /\ \A p \in Requests : p # q => Alike(requests[p], requests'[p])
    /\ Calm(requests[q], requests'[q])
    /\ Over(requests'[q]) /\ ~Over(requests[q]) =>
          Broke(requests'[q]) \/ \A c \in Conns : ~Coming(conns'[c], q)

LEMMA StepsQuiet ==
    ASSUME BrokeOK, NEW q \in Requests, Steps(q),
           \A c \in Conns : Still(conns[c], conns'[c]), foreign' = foreign
    PROVE  Quiet
  <1>1. ASSUME NEW p \in Requests
        PROVE  /\ Calm(requests[p], requests'[p])
               /\ Over(requests'[p]) /\ ~Over(requests[p]) =>
                     Broke(requests'[p]) \/ \A c \in Conns : ~Coming(conns'[c], p)
    BY AlikeCalm DEF Steps, BrokeOK
  <1> QED
    BY <1>1 DEF Quiet, Eases, Calm

LEMMA RestQuiet ==
    ASSUME BrokeOK, \A p \in Requests : Alike(requests[p], requests'[p]),
           \A c \in Conns : Still(conns[c], conns'[c]), foreign' = foreign
    PROVE  Quiet
  BY AlikeCalm DEF Quiet, Eases, Calm, BrokeOK

LEMMA StillSame ==
    ASSUME ComeOK, NEW c \in Conns, NEW x, LET d == conns[c] IN
           /\ x.used = d.used /\ x.session = d.session /\ x.asked = d.asked /\ x.wire = d.wire
           /\ (Live(d) => Live(x)) /\ (Reads(x) => Reads(d)) /\ Keeps(d, x)
    PROVE  Still(conns[c], x)
  <1>1. PICK d : d = conns[c]
    OBVIOUS
  <1>2. WireOf(d) => WireOf(x)
    BY <1>1 DEF WireOf
  <1>3. \A p \in Requests : Coming(x, p) => Coming(d, p)
    BY <1>1 DEF Coming
  <1>4. Comes(d, x)
    BY <1>1, <1>3 DEF Comes, ComeOK
  <1> QED
    BY <1>1, <1>2, <1>4 DEF Still, Runs

LEMMA StillEmptied ==
    ASSUME NEW d, NEW x, x.asked = <<>>, x.wire = <<>>,
           x.used = d.used, x.session = d.session, Reads(x) => Reads(d), Keeps(d, x)
    PROVE  Still(d, x)
  BY DEF Still, Runs, Comes, Coming, WireOf

LEMMA UseStays ==
    ASSUME CodexInv, UseOK, \A s \in Sessions : sessions'[s].conn = sessions[s].conn,
           \A c \in Conns : /\ Live(conns'[c]) => Live(conns[c])
                            /\ conns'[c].session = conns[c].session
    PROVE  UseOK'
  <1>1. \A c \in Conns : Live(conns[c]) => conns[c].session \in Sessions
    BY RecordsTyped DEF Live, CodexInv, NumbersOK, ConnNo
  <1> QED
    BY <1>1 DEF UseOK

\* Drops, as far as UseOK is concerned.
Loses(s, c) ==
    /\ \A t \in Sessions :
          sessions'[t].conn = IF t = s /\ sessions[s].conn = c THEN 0 ELSE sessions[t].conn
    /\ \A d \in Conns :
          /\ conns'[d].session = conns[d].session
          /\ conns'[d].state = IF d = c /\ sessions[s].conn = c THEN "closed" ELSE conns[d].state

LEMMA LosesUse ==
    ASSUME CodexInv, UseOK, NEW s, NEW c, Loses(s, c)
    PROVE  UseOK'
  <1>1. \A d \in Conns : Live(conns[d]) => conns[d].session \in Sessions
    BY RecordsTyped DEF Live, CodexInv, NumbersOK, ConnNo
  <1>2. ASSUME NEW d \in Conns, Live(conns'[d]) PROVE sessions'[conns'[d].session].conn = d
    <2>1. Live(conns[d]) /\ ~(d = c /\ sessions[s].conn = c)
      BY <1>2 DEF Loses, Live
    <2>2. sessions[conns[d].session].conn = d /\ conns'[d].session = conns[d].session
      BY <2>1 DEF UseOK, Loses
    <2> QED  BY <1>1, <2>1, <2>2 DEF Loses
  <1> QED
    BY <1>2 DEF UseOK

LEMMA DropsUse ==
    ASSUME CodexInv, UseOK, NEW s, NEW c, Drops(s, c)
    PROVE  UseOK'
  <1>1. Loses(s, c)
    BY DEF Drops, Loses
  <1> QED
    BY <1>1, LosesUse

LEMMA ClosedStill ==
    ASSUME CodexInv, ComeOK, NEW c \in Conns \cup {0}, NEW d \in Conns
    PROVE  /\ Still(conns[d], Closed(c)[d])
           /\ Closed(c)[d].reader = conns[d].reader /\ Closed(c)[d].to = conns[d].to
           /\ Closed(c)[d].held = conns[d].held
  <1>1. conns \in [Conns -> ConnRec]
    BY DEF CodexInv, CodexTypes
  <1>2. CASE d # c
    <2>1. Closed(c)[d] = conns[d]
      BY <1>1, <1>2 DEF Closed
    <2> QED  BY <2>1, StillSame DEF Keeps
  <1>3. CASE d = c
    <2>0. PICK x : x = Closed(c)[d]
      OBVIOUS
    <2>1. PICK r \in ConnRec :
             /\ r = conns[d]
             /\ x = [r EXCEPT !.state = "closed", !.wire = <<>>, !.asked = <<>>, !.sent = 0]
      BY <1>1, <1>3, <2>0 DEF Closed
    <2>2. /\ x.used = r.used /\ x.session = r.session /\ x.asked = <<>> /\ x.wire = <<>>
          /\ x.reader = r.reader /\ x.held = r.held /\ x.to = r.to
      BY <2>1 DEF ConnRec
    <2> QED  BY <2>0, <2>1, <2>2, StillEmptied DEF Keeps, Reads
  <1> QED
    BY <1>2, <1>3

LEMMA InvalidateStill ==
    ASSUME CodexInv, ComeOK, NEW s, NEW c \in Conns \cup {0}, Invalidate(s, c), NEW d \in Conns
    PROVE  Still(conns[d], conns'[d])
  <1>1. conns' = Closed(c) \/ conns' = conns
    BY DEF Invalidate
  <1> QED
    BY <1>1, ClosedStill, StillSame DEF Keeps

\* The connections stay as they are.
LEMMA ConnsStay ==
    ASSUME ComeOK, conns' = conns, NEW c \in Conns
    PROVE  Still(conns[c], conns'[c])
  BY StillSame DEF Keeps

LEMMA BrokeIsOver ==
    ASSUME AnswerInv
    PROVE  /\ BrokeOK /\ ComeOK /\ UseOK
           /\ \A q \in Requests : Broke(requests[q]) => Over(requests[q])
  BY DEF AnswerInv, BrokeOK

\* A request goes on to another place.
LEMMA GoesCalm ==
    ASSUME NEW r \in RequestRec, NEW x, Broke(r) => Over(r),
           x.used = r.used, x.session = r.session, x.conn = r.conn, x.gone = r.gone,
           x.outcome = r.outcome \/ Over(x),
           Hears(r, x), Over(r) => Broke(r) = Broke(x) /\ Over(x),
           Begun(r) => Begun(x), Past(x) => Past(r), Before(x) => Before(r)
    PROVE  Calm(r, x)
  <1>1. Goes(r, x)
    BY DEF Goes, Over, Broke
  <1> QED
    BY <1>1 DEF Calm, Easy, Remains

LEMMA LockAnswers ==
    ASSUME CodexInv, AnswerInv, NEW q \in Requests, Lock(q)
    PROVE  AnswerInv'
  <1>1. requests \in [Requests -> RequestRec] /\ requests[q].pc = "lock" /\ ~requests[q].retry
    BY DEF CodexInv, CodexTypes, NumbersOK, RequestNo, Lock
  <1>2. PICK r \in RequestRec : r = requests[q] /\ requests'[q] = [r EXCEPT !.pc = "ensure"]
    BY <1>1 DEF Lock
  <1>3. Calm(requests[q], requests'[q]) /\ ~Over(requests'[q])
    BY <1>1, <1>2, GoesCalm, BrokeIsOver DEF RequestRec, Over, Begun, Past, Before, Hears
  <1>4. Steps(q)
    BY <1>1, <1>3 DEF Lock, Alike, Steps
  <1>5. Quiet
    BY <1>4, StepsQuiet, ConnsStay, BrokeIsOver DEF Lock, historyVars
  <1>6. UseOK'
    <2>1. sessions \in [Sessions -> SessionRec] /\ requests[q].session \in Sessions
      BY RecordsTyped, <1>1
    <2>2. \A s \in Sessions : sessions'[s].conn = sessions[s].conn
      BY <2>1 DEF Lock, SessionRec
    <2> QED  BY <2>2, UseStays, BrokeIsOver DEF Lock
  <1> QED
    BY <1>5, <1>6, QuietKeeps

LEMMA DialFailsAnswers ==
    ASSUME CodexInv, AnswerInv, NEW q \in Requests, DialFails(q)
    PROVE  AnswerInv'
  <1>1. /\ requests[q] \in RequestRec /\ requests[q].pc = "dial" /\ requests[q].session \in Sessions
        /\ sessions \in [Sessions -> SessionRec]
    BY RecordsTyped DEF DialFails
  <1>2. PICK D \in [Requests -> RequestRec] :
           /\ \A p \in Requests : Alike(requests[p], D[p])
           /\ requests' = [D EXCEPT ![q].pc = "ended", ![q].outcome = "error"]
    BY DoneButSame, DoneButAlike DEF DialFails
  <1>3. \A p \in Requests : p # q => Alike(requests[p], requests'[p])
    BY <1>2
  <1>4. PICK x : x = requests'[q] /\ x = [D[q] EXCEPT !.pc = "ended", !.outcome = "error"]
    BY <1>2
  <1>5. /\ x.used = requests[q].used /\ x.session = requests[q].session /\ x.conn = requests[q].conn
        /\ x.gone = requests[q].gone /\ x.buf = requests[q].buf /\ x.pc = "ended"
        /\ x.retry = requests[q].retry
    <2>1. D[q] \in RequestRec /\ Alike(requests[q], D[q])
      BY <1>2
    <2> QED  BY <1>4, <2>1 DEF Alike, RequestRec
  <1>6. Calm(requests[q], x)
    BY <1>1, <1>5, GoesCalm, BrokeIsOver DEF Over, Begun, Past, Before, Hears
  <1>7. conns' = conns /\ \A c \in Conns : ~Coming(conns'[c], q)
    BY <1>1, BrokeIsOver DEF ComeOK, Begun, DialFails
  <1>8. Quiet
    BY <1>3, <1>4, <1>6, <1>7, StepsQuiet, ConnsStay, BrokeIsOver
       DEF DialFails, historyVars, Steps
  <1>9. UseOK'
    <2>1. \A s \in Sessions : sessions'[s].conn = sessions[s].conn
      BY <1>1 DEF DialFails, SessionRec, Cleared
    <2> QED  BY <2>1, UseStays, BrokeIsOver DEF DialFails
  <1> QED
    BY <1>8, <1>9, QuietKeeps

LEMMA DialRefusedAnswers ==
    ASSUME CodexInv, AnswerInv, NEW q \in Requests, DialRefused(q)
    PROVE  AnswerInv'
  <1>1. PICK r \in RequestRec : /\ r = requests[q] /\ r.pc = "dial"
                                /\ requests'[q] = [r EXCEPT !.pc = "ended", !.outcome = "refused"]
    BY RecordsTyped DEF DialRefused
  <1>2. Calm(requests[q], requests'[q])
    <2>1. PICK x : x = requests'[q]
      OBVIOUS
    <2>2. /\ x.used = r.used /\ x.session = r.session /\ x.conn = r.conn /\ x.gone = r.gone
          /\ x.buf = r.buf /\ x.pc = "ended" /\ x.outcome = "refused"
      BY <1>1, <2>1 DEF RequestRec
    <2>3. Broke(r) => Over(r)
      BY <1>1, BrokeIsOver
    <2>4. Hears(r, x)
      BY <2>2 DEF Hears
    <2>5. Calm(r, x)
      BY <1>1, <2>2, <2>3, <2>4, GoesCalm DEF Over, Begun, Past, Before, Broke
    <2> QED  BY <1>1, <2>1, <2>2, <2>5 DEF Over
  <1>3. conns' = conns /\ \A c \in Conns : ~Coming(conns'[c], q)
    BY <1>1, BrokeIsOver DEF ComeOK, Begun, DialRefused
  <1>4. Steps(q)
    BY <1>2, <1>3, RecordsTyped DEF DialRefused, Alike, Steps
  <1>5. Quiet /\ UseOK'
    BY <1>4, StepsQuiet, ConnsStay, UseStays, BrokeIsOver DEF DialRefused, historyVars
  <1> QED
    BY <1>5, QuietKeeps

LEMMA ActivateAnswers ==
    ASSUME CodexInv, AnswerInv, NEW q \in Requests, Activate(q)
    PROVE  AnswerInv'
  <1>1. /\ requests[q] \in RequestRec /\ requests[q].pc = "activate"
        /\ requests[q].session \in Sessions /\ sessions \in [Sessions -> SessionRec]
    BY RecordsTyped DEF Activate
  <1>2. PICK D \in [Requests -> RequestRec] :
           /\ \A p \in Requests : Alike(requests[p], D[p])
           /\ requests' = [D EXCEPT ![q].pc = "send"]
    BY DoneButSame, DoneButAlike DEF Activate
  <1>3. \A p \in Requests : p # q => Alike(requests[p], requests'[p])
    BY <1>2
  <1>4. PICK x : x = requests'[q] /\ x = [D[q] EXCEPT !.pc = "send"]
    BY <1>2
  <1>5. /\ x.used = requests[q].used /\ x.session = requests[q].session /\ x.conn = requests[q].conn
        /\ x.gone = requests[q].gone /\ x.buf = requests[q].buf /\ x.pc = "send"
        /\ x.retry = requests[q].retry /\ x.outcome = requests[q].outcome
    <2>1. D[q] \in RequestRec /\ Alike(requests[q], D[q])
      BY <1>2
    <2> QED  BY <1>4, <2>1 DEF Alike, RequestRec
  <1>6. Calm(requests[q], x) /\ ~Over(x)
    BY <1>1, <1>5, GoesCalm, BrokeIsOver DEF Over, Begun, Past, Before, Hears
  <1>7. Quiet
    BY <1>3, <1>4, <1>6, StepsQuiet, ConnsStay, BrokeIsOver DEF Activate, historyVars, Steps
  <1>8. UseOK'
    <2>1. \A s \in Sessions : sessions'[s].conn = sessions[s].conn
      BY <1>1 DEF Activate, SessionRec
    <2> QED  BY <2>1, UseStays, BrokeIsOver DEF Activate
  <1> QED
    BY <1>7, <1>8, QuietKeeps

\* The second disjunct of Send: the connection is dead.
SendFails(q) ==
    /\ requests[q].pc = "send"
    /\ requests' = [requests EXCEPT ![q].pc = IF requests[q].retry THEN "giveUp" ELSE "again",
                                    ![q].outcome = IF requests[q].retry THEN "error" ELSE @]
    /\ UNCHANGED <<store, sessions, conns, closers, crashed, hungUp, historyVars>>

LEMMA SendFailsAnswers ==
    ASSUME CodexInv, AnswerInv, NEW q \in Requests, SendFails(q)
    PROVE  AnswerInv'
  <1>1. PICK r \in RequestRec : r = requests[q] /\ r.pc = "send"
    BY RecordsTyped DEF SendFails
  <1>2. PICK x : /\ x = requests'[q]
                 /\ x = [r EXCEPT !.pc = IF r.retry THEN "giveUp" ELSE "again",
                                  !.outcome = IF r.retry THEN "error" ELSE @]
    BY <1>1, RecordsTyped DEF SendFails
  <1>3. /\ x.used = r.used /\ x.session = r.session /\ x.conn = r.conn /\ x.gone = r.gone
        /\ x.buf = r.buf /\ x.pc \in {"giveUp", "again"} /\ x.outcome \in {r.outcome, "error"}
    BY <1>2 DEF RequestRec
  <1>4. Goes(r, x) /\ ~Over(x)
    BY <1>1, <1>3, BrokeIsOver DEF Goes, Over, Begun, Broke
  <1>5. Calm(r, x)
    BY <1>1, <1>3, <1>4 DEF Calm, Easy, Remains, Hears, Past, Before
  <1>6. Steps(q)
    BY <1>1, <1>2, <1>4, <1>5, RecordsTyped DEF SendFails, Alike, Steps
  <1>7. Quiet /\ UseOK'
    BY <1>6, StepsQuiet, ConnsStay, UseStays, BrokeIsOver DEF SendFails, historyVars
  <1> QED
    BY <1>7, QuietKeeps

LEMMA SendAgainAnswers ==
    ASSUME CodexInv, AnswerInv, NEW q \in Requests, SendAgain(q)
    PROVE  AnswerInv'
  <1>1. PICK r \in RequestRec : /\ r = requests[q] /\ r.pc = "again"
                                /\ requests'[q] = [r EXCEPT !.pc = "ensure", !.retry = TRUE]
    BY RecordsTyped DEF SendAgain
  <1>2. Calm(requests[q], requests'[q]) /\ ~Over(requests'[q])
    <2>1. PICK x : x = requests'[q]
      OBVIOUS
    <2>2. /\ x.used = r.used /\ x.session = r.session /\ x.conn = r.conn /\ x.gone = r.gone
          /\ x.buf = r.buf /\ x.pc = "ensure" /\ x.outcome = r.outcome /\ x.retry
      BY <1>1, <2>1 DEF RequestRec
    <2>3. Broke(r) => Over(r)
      BY <1>1, BrokeIsOver
    <2>4. Hears(r, x)
      BY <2>2 DEF Hears
    <2>5. Calm(r, x)
      BY <1>1, <2>2, <2>3, <2>4, GoesCalm DEF Over, Begun, Past, Before, Broke
    <2> QED  BY <1>1, <2>1, <2>2, <2>5 DEF Over
  <1>3. Steps(q)
    BY <1>2, RecordsTyped DEF SendAgain, Alike, Steps
  <1>4. PICK s, c : /\ s = requests[q].session /\ c = requests[q].conn
                    /\ s \in Sessions /\ c \in Conns \cup {0}
    BY <1>1, RecordsTyped, FieldsTyped
  <1>5. Invalidate(s, c) /\ foreign' = foreign
    BY <1>4 DEF SendAgain
  <1>6. Quiet /\ UseOK'
    BY <1>3, <1>4, <1>5, StepsQuiet, InvalidateStill, InvalidateDrops, DropsUse, BrokeIsOver
  <1> QED
    BY <1>6, QuietKeeps

LEMMA LeavesReadingAnswers ==
    ASSUME CodexInv, AnswerInv, NEW q \in Requests, ReadClosed(q) \/ ReadCanceled(q)
    PROVE  AnswerInv'
  <1>1. PICK r \in RequestRec, o \in {"closed", "canceled"} :
           /\ r = requests[q] /\ r.pc = "read"
           /\ requests' = [requests EXCEPT ![q].pc = "leave", ![q].outcome = o]
           /\ requests'[q] = [r EXCEPT !.pc = "leave", !.outcome = o]
           /\ UNCHANGED <<store, sessions, conns, closers, crashed, hungUp, historyVars>>
    BY RecordsTyped DEF ReadClosed, ReadCanceled
  <1>2. Calm(requests[q], requests'[q]) /\ Broke(requests'[q])
    <2>1. PICK x : x = requests'[q]
      OBVIOUS
    <2>2. /\ x.used = r.used /\ x.session = r.session /\ x.conn = r.conn /\ x.gone = r.gone
          /\ x.buf = r.buf /\ x.pc = "leave" /\ x.outcome = o
      BY <1>1, <2>1 DEF RequestRec
    <2>3. Broke(r) => Over(r)
      BY <1>1, BrokeIsOver
    <2>4. Hears(r, x)
      BY <2>2 DEF Hears
    <2>5. Calm(r, x)
      BY <1>1, <2>2, <2>3, <2>4, GoesCalm DEF Over, Begun, Past, Before, Broke
    <2> QED  BY <1>1, <2>1, <2>2, <2>5 DEF Broke
  <1>3. Steps(q)
    BY <1>1, <1>2, RecordsTyped DEF Alike, Steps
  <1>4. Quiet /\ UseOK'
    BY <1>1, <1>3, StepsQuiet, ConnsStay, UseStays, BrokeIsOver DEF historyVars
  <1> QED
    BY <1>4, QuietKeeps

\* An error event: what the upstream would still send is lost with the connection.
LEMMA GiveUpAnswers ==
    ASSUME CodexInv, AnswerInv, NEW q \in Requests, GiveUp(q)
    PROVE  AnswerInv'
  <1>1. PICK r \in RequestRec : /\ r = requests[q] /\ r.pc = "giveUp"
                                /\ requests'[q] = [r EXCEPT !.pc = "leave"]
    BY RecordsTyped DEF GiveUp
  <1>2. Calm(requests[q], requests'[q])
    BY <1>1, GoesCalm, BrokeIsOver DEF RequestRec, Over, Begun, Past, Before, Hears
  <1>3. PICK s, c : /\ s = requests[q].session /\ c = requests[q].conn
                    /\ s \in Sessions /\ c \in Conns \cup {0}
    BY <1>1, RecordsTyped, FieldsTyped
  <1>4. Invalidate(s, c) /\ foreign' = foreign /\ Drops(s, c)
    BY <1>3, InvalidateDrops DEF GiveUp, historyVars
  <1>5. \A d \in Conns : Still(conns[d], conns'[d])
    BY <1>3, <1>4, InvalidateStill, BrokeIsOver
  <1>6. ASSUME NEW d \in Conns PROVE ~Coming(conns'[d], q)
    <2>1. SUFFICES ASSUME Coming(conns'[d], q) PROVE FALSE
      OBVIOUS
    <2>2. Coming(conns[d], q) /\ Live(conns'[d])
      BY <1>5, <2>1 DEF Still, Comes
    <2>3. requests[q].conn = d /\ requests[q].session = conns[d].session /\ Live(conns[d])
      BY <2>2, BrokeIsOver DEF ComeOK
    <2>4. d = c /\ sessions[s].conn = c
      BY <1>3, <2>3, BrokeIsOver DEF UseOK
    <2> QED  BY <1>4, <2>2, <2>4 DEF Drops, Live
  <1>7. Steps(q)
    BY <1>2, <1>6, RecordsTyped DEF GiveUp, Alike, Steps
  <1>8. Quiet /\ UseOK'
    BY <1>4, <1>5, <1>7, StepsQuiet, DropsUse, BrokeIsOver
  <1> QED
    BY <1>8, QuietKeeps

LEMMA LeaveAnswers ==
    ASSUME CodexInv, AnswerInv, NEW q \in Requests, Leave(q)
    PROVE  AnswerInv'
  <1>1. PICK r \in RequestRec :
           /\ r = requests[q] /\ r.pc = "leave"
           /\ requests'[q] = [r EXCEPT !.pc = "ended", !.done = TRUE, !.buf = <<>>]
    BY RecordsTyped DEF Leave
  <1>2. Calm(requests[q], requests'[q]) /\ Over(requests[q])
    <2>1. PICK x : x = requests'[q]
      OBVIOUS
    <2>2. /\ x.used = r.used /\ x.session = r.session /\ x.conn = r.conn /\ x.gone = r.gone
          /\ x.buf = <<>> /\ x.pc = "ended" /\ x.outcome = r.outcome
      BY <1>1, <2>1 DEF RequestRec
    <2>3. Broke(r) => Over(r)
      BY <1>1, BrokeIsOver
    <2>4. Hears(r, x)
      BY <2>2 DEF Hears
    <2>5. Calm(r, x)
      BY <1>1, <2>2, <2>3, <2>4, GoesCalm DEF Over, Begun, Past, Before, Broke
    <2> QED  BY <1>1, <2>1, <2>2, <2>5 DEF Over
  <1>3. Steps(q)
    BY <1>2, RecordsTyped DEF Leave, Alike, Steps
  <1>4. Quiet
    BY <1>3, StepsQuiet, ConnsStay, BrokeIsOver DEF Leave, historyVars
  <1>5. UseOK'
    <2>1. sessions \in [Sessions -> SessionRec] /\ requests[q].session \in Sessions
      BY <1>1, RecordsTyped
    <2>2. \A s \in Sessions : sessions'[s].conn = sessions[s].conn
      BY <2>1 DEF Leave, SessionRec, Cleared
    <2> QED  BY <2>2, UseStays, BrokeIsOver DEF Leave
  <1> QED
    BY <1>4, <1>5, QuietKeeps

LEMMA CancelAnswers ==
    ASSUME CodexInv, AnswerInv, NEW q \in Requests, Cancel(q)
    PROVE  AnswerInv'
  <1>1. PICK r \in RequestRec : /\ r = requests[q] /\ r.pc = "read"
                                /\ requests'[q] = [r EXCEPT !.gone = TRUE]
    BY RecordsTyped DEF Cancel
  <1>2. PICK x : x = requests'[q]
    OBVIOUS
  <1>3. /\ x.used = r.used /\ x.session = r.session /\ x.conn = r.conn /\ x.gone
        /\ x.buf = r.buf /\ x.pc = r.pc /\ x.outcome = r.outcome /\ x.retry = r.retry
    BY <1>1, <1>2 DEF RequestRec
  <1>4. Goes(r, x) /\ ~Over(x)
    BY <1>1, <1>3, BrokeIsOver DEF Goes, Over, Begun, Broke
  <1>5. Calm(r, x)
    BY <1>1, <1>3, <1>4 DEF Calm, Easy, Remains, Hears, Past, Before
  <1>6. Steps(q)
    BY <1>1, <1>2, <1>4, <1>5, RecordsTyped DEF Cancel, Alike, Steps
  <1>7. Quiet /\ UseOK'
    BY <1>6, StepsQuiet, ConnsStay, UseStays, BrokeIsOver DEF Cancel, historyVars
  <1> QED
    BY <1>7, QuietKeeps

LEMMA OneStill ==
    ASSUME ComeOK, NEW c \in Conns, Still(conns[c], conns'[c]),
           \A d \in Conns : d # c => conns'[d] = conns[d]
    PROVE  \A d \in Conns : Still(conns[d], conns'[d])
  BY StillSame DEF Keeps

LEMMA EnterAnswers ==
    ASSUME CodexInv, AnswerInv, NEW q \in Requests, NEW a \in Auths, Enter(q, a)
    PROVE  AnswerInv'
  <1>0. /\ requests \in [Requests -> RequestRec] /\ sessions \in [Sessions -> SessionRec]
    BY DEF CodexInv, CodexTypes
  <1>1. ~requests[q].used /\ \A p \in Requests : p < q => requests[p].used
    <2>1. /\ DOMAIN requests = 1 .. MaxRequests /\ MaxRequests \in Nat
          /\ q # 0 /\ q = Next1(requests)
          /\ \A p \in Requests : requests[p].used \in BOOLEAN
      BY <1>0, CodexAssumption, FieldsTyped DEF Requests, Enter
    <2> QED  BY <2>1, NextNumber DEF CodexInv, InTurn, Requests
  <1>2. PICK s : requests' = [requests EXCEPT ![q].used = TRUE, ![q].pc = "lock", ![q].auth = a,
                                              ![q].session = s]
                 /\ sessions' = [sessions EXCEPT ![s].used = TRUE]
    BY DEF Enter
  <1>3. PICK r, x : /\ r \in RequestRec /\ r = requests[q] /\ x = requests'[q]
                    /\ x = [r EXCEPT !.used = TRUE, !.pc = "lock", !.auth = a, !.session = s]
    BY <1>0, <1>2
  <1>4. /\ r.pc = "idle" /\ ~r.retry /\ (Broke(r) => Over(r))
        /\ x.pc = "lock" /\ x.conn = r.conn /\ x.buf = r.buf /\ x.outcome = r.outcome
    BY <1>1, <1>3, BrokeIsOver DEF RequestRec, CodexInv, NumbersOK, RequestNo
  <1>5. Goes(r, x) /\ Remains(r, x) /\ Hears(r, x) /\ (Before(x) => Before(r)) /\ ~Over(x)
    BY <1>4 DEF Goes, Remains, Hears, Before, Past, Begun, Over, Broke
  <1>6. \A p \in Requests : p # q => requests'[p] = requests[p]
    BY <1>0, <1>2
  <1>7. ASSUME NEW p \in Requests
        PROVE  Easy(requests[p], requests'[p]) /\ (Over(requests'[p]) => Over(requests[p]))
    <2>1. CASE p = q
      BY <1>3, <1>4, <1>5, <2>1 DEF Easy
    <2>2. CASE p # q
      BY <1>6, <2>2, AlikeCalm, BrokeIsOver DEF Alike, Calm
    <2> QED  BY <2>1, <2>2
  <1>8. Eases
    BY <1>7, ConnsStay, BrokeIsOver DEF Eases, Enter, historyVars
  <1>9. SeqOK'
    <2> SUFFICES ASSUME NEW p \in Requests, NEW t \in Requests, p < t, requests'[t].used
                 PROVE  Begun(requests'[p]) /\ (Over(requests'[p]) \/ requests'[p].gone)
      BY DEF SeqOK
    <2>1. CASE t = q
      <3>1. requests[p].used /\ p # q /\ requests'[p] = requests[p]
        BY <1>1, <1>6, <2>1 DEF Requests
      <3>2. \/ Ended(p) \/ (InGoroutine(p) /\ requests[p].gone) \/ requests[p].pc = "leave"
        BY <1>0, <3>1 DEF Enter, Used
      <3> QED  BY <3>1, <3>2 DEF Begun, Over, Ended, InGoroutine
    <2>2. CASE t # q
      <3>1. requests[t].used /\ requests[p].used
        BY <1>6, <2>2 DEF CodexInv, InTurn
      <3>2. requests'[p] = requests[p]
        BY <1>1, <1>6, <3>1
      <3> QED  BY <3>1, <3>2 DEF AnswerInv, SeqOK
    <2> QED  BY <2>1, <2>2
  <1>10. UseOK'
    <2>1. \A t \in Sessions : sessions'[t].conn = sessions[t].conn
      BY <1>0, <1>2 DEF SessionRec
    <2> QED  BY <2>1, UseStays, BrokeIsOver DEF Enter
  <1> QED
    BY <1>8, <1>9, <1>10, EasesKeeps

LEMMA ReadFailsAnswers ==
    ASSUME CodexInv, AnswerInv, NEW c \in Conns, ReadFails(c)
    PROVE  AnswerInv'
  <1>1. PICK r, t, x :
           /\ r \in ConnRec /\ r = conns[c] /\ x = conns'[c]
           /\ x = [r EXCEPT !.to = t, !.reader = IF t = 0 THEN "leave" ELSE "tell"]
           /\ \A d \in Conns : d # c => conns'[d] = conns[d]
           /\ UNCHANGED <<sessions, requests, foreign>>
    BY RecordsTyped DEF ReadFails, historyVars
  <1>2. /\ x.used = r.used /\ x.session = r.session /\ x.asked = r.asked /\ x.wire = r.wire
        /\ x.state = r.state /\ x.reader \in {"leave", "tell"}
    BY <1>1 DEF ConnRec
  <1>3. Still(conns[c], conns'[c])
    BY <1>1, <1>2, StillSame, BrokeIsOver DEF Live, Reads, Keeps
  <1>4. Quiet
    BY <1>1, <1>3, OneStill, RestQuiet, BrokeIsOver DEF Alike
  <1>5. UseOK'
    BY <1>1, <1>2, UseStays, BrokeIsOver DEF Live
  <1> QED
    BY <1>4, <1>5, QuietKeeps

LEMMA ShutChannelAnswers ==
    ASSUME CodexInv, AnswerInv, NEW c \in Conns, ShutChannel(c)
    PROVE  AnswerInv'
  <1>1. PICK r, x :
           /\ r \in ConnRec /\ r = conns[c] /\ x = conns'[c]
           /\ x = [r EXCEPT !.reader = "leave", !.to = 0]
           /\ \A d \in Conns : d # c => conns'[d] = conns[d]
           /\ UNCHANGED <<sessions, foreign>>
    BY RecordsTyped DEF ShutChannel, historyVars
  <1>2. /\ x.used = r.used /\ x.session = r.session /\ x.asked = r.asked /\ x.wire = r.wire
        /\ x.state = r.state /\ x.reader = "leave"
    BY <1>1 DEF ConnRec
  <1>3. Still(conns[c], conns'[c])
    BY <1>1, <1>2, StillSame, BrokeIsOver DEF Live, Reads, Keeps
  <1>4. ASSUME NEW p \in Requests PROVE Alike(requests[p], requests'[p])
    <2>1. requests[p] \in RequestRec
      BY RecordsTyped
    <2>2. requests'[p] \in {requests[p], [requests[p] EXCEPT !.shutBy = c]}
      BY RecordsTyped DEF ShutChannel
    <2> QED  BY <2>1, <2>2 DEF Alike, RequestRec
  <1>5. Quiet
    BY <1>1, <1>3, <1>4, OneStill, RestQuiet, BrokeIsOver
  <1>6. UseOK'
    BY <1>1, <1>2, UseStays, BrokeIsOver DEF Live
  <1> QED
    BY <1>5, <1>6, QuietKeeps

LEMMA StillOff ==
    ASSUME NEW d, NEW y \in ConnRec, Still(d, y), NEW x, x = [y EXCEPT !.reader = "off"]
    PROVE  Still(d, x)
  <1>1. /\ x.used = y.used /\ x.session = y.session /\ x.asked = y.asked /\ x.wire = y.wire
        /\ x.state = y.state /\ x.reader = "off"
    BY DEF ConnRec
  <1>2. (WireOf(y) => WireOf(x)) /\ (Live(y) => Live(x)) /\ ~Reads(x) /\ Keeps(d, x)
    BY <1>1 DEF WireOf, Live, Reads, Keeps
  <1>3. \A p : Coming(x, p) => Coming(y, p)
    BY <1>1 DEF Coming
  <1> QED
    BY <1>1, <1>2, <1>3 DEF Still, Runs, Comes

LEMMA ReaderLeavesAnswers ==
    ASSUME CodexInv, AnswerInv, NEW c \in Conns, ReaderLeaves(c)
    PROVE  AnswerInv'
  <1>1. PICK s : s = conns[c].session /\ s \in Sessions /\ conns[c].session = s
    BY RecordsTyped DEF CodexInv, NumbersOK, ConnNo, ReaderLeaves
  <1>2. PICK f \in [Conns -> ConnRec] :
           /\ f = (IF sessions[s].conn = c THEN Closed(c) ELSE conns)
           /\ conns' = [f EXCEPT ![c].reader = "off"]
    BY <1>1, ClosedIs, RecordsTyped DEF ReaderLeaves
  <1>3. ASSUME NEW d \in Conns PROVE Still(conns[d], conns'[d])
    <2>1. Still(conns[d], f[d])
      BY <1>2, ClosedStill, StillSame, BrokeIsOver DEF Keeps
    <2>2. conns'[d] \in {f[d], [f[d] EXCEPT !.reader = "off"]}
      BY <1>2
    <2> QED  BY <1>2, <2>1, <2>2, StillOff
  <1>4. Quiet
    BY <1>3, RestQuiet, BrokeIsOver DEF ReaderLeaves, historyVars, Alike
  <1>5. Loses(s, c)
    <2>1. ASSUME NEW d \in Conns
          PROVE  /\ conns'[d].session = conns[d].session
                 /\ conns'[d].state = IF d = c /\ sessions[s].conn = c THEN "closed" ELSE conns[d].state
      <3>1. /\ f[d].session = conns[d].session
            /\ f[d].state = IF d = c /\ sessions[s].conn = c THEN "closed" ELSE conns[d].state
        BY <1>2, ClosedIs
      <3>2. f[d] \in ConnRec /\ conns'[d] \in {f[d], [f[d] EXCEPT !.reader = "off"]}
        BY <1>2
      <3> QED  BY <3>1, <3>2 DEF ConnRec
    <2>2. sessions \in [Sessions -> SessionRec]
      BY RecordsTyped
    <2>3. \A t \in Sessions :
             sessions'[t].conn = IF t = s /\ sessions[s].conn = c THEN 0 ELSE sessions[t].conn
      BY <1>1, <2>2 DEF ReaderLeaves, SessionRec
    <2> QED  BY <2>1, <2>3 DEF Loses
  <1>6. UseOK'
    BY <1>5, LosesUse, BrokeIsOver
  <1> QED
    BY <1>4, <1>6, QuietKeeps

LEMMA BreaksAnswers ==
    ASSUME CodexInv, AnswerInv, NEW c \in Conns, Breaks(c)
    PROVE  AnswerInv'
  <1>1. PICK r, x :
           /\ r \in ConnRec /\ r = conns[c] /\ x = conns'[c] /\ r.state = "open"
           /\ x = [r EXCEPT !.state = "broken"]
           /\ \A d \in Conns : d # c => conns'[d] = conns[d]
           /\ UNCHANGED <<sessions, requests, foreign>>
    BY RecordsTyped DEF Breaks, historyVars
  <1>2. /\ x.used = r.used /\ x.session = r.session /\ x.asked = r.asked /\ x.wire = r.wire
        /\ x.state = "broken" /\ x.reader = r.reader /\ x.held = r.held /\ x.to = r.to
    BY <1>1 DEF ConnRec
  <1>3. Still(conns[c], conns'[c])
    <2>1. Live(x) /\ (Reads(x) => Reads(r)) /\ Keeps(r, x)
      BY <1>2 DEF Live, Reads, Keeps
    <2> QED  BY <1>1, <1>2, <2>1, StillSame, BrokeIsOver
  <1>4. Quiet
    BY <1>1, <1>3, OneStill, RestQuiet, BrokeIsOver DEF Alike
  <1>5. UseOK'
    BY <1>1, <1>2, UseStays, BrokeIsOver DEF Live
  <1> QED
    BY <1>4, <1>5, QuietKeeps

\* The steps that leave the requests, and all but perhaps one connection, alone.
LEMMA OutsideAnswers ==
    ASSUME CodexInv, AnswerInv, UNCHANGED <<sessions, conns, requests, foreign>>
    PROVE  AnswerInv'
  <1>1. Quiet
    BY RestQuiet, ConnsStay, BrokeIsOver DEF Alike
  <1> QED
    BY <1>1, UseStays, QuietKeeps, BrokeIsOver

LEMMA CloseSessionAnswers ==
    ASSUME CodexInv, AnswerInv, NEW k \in Closers, CloseSession(k)
    PROVE  AnswerInv'
  <1>1. PICK s, c : /\ s = closers[k].session
                    /\ c = IF s = 0 THEN 0 ELSE sessions[s].conn
                    /\ s \in Sessions \cup {0}
    BY DEF CodexInv, CodexTypes
  <1>2. UNCHANGED <<requests, foreign>>
    BY DEF CloseSession, historyVars
  <1>3. CASE c = 0
    BY <1>1, <1>2, <1>3, OutsideAnswers DEF CloseSession
  <1>4. CASE c # 0
    <2>1. s \in Sessions /\ c \in Conns /\ Invalidate(s, c)
      BY <1>1, <1>4, FieldsTyped DEF CloseSession, Invalidate
    <2>2. Quiet
      BY <1>2, <2>1, InvalidateStill, RestQuiet, BrokeIsOver DEF Alike
    <2> QED  BY <2>1, <2>2, InvalidateDrops, DropsUse, QuietKeeps, BrokeIsOver
  <1> QED
    BY <1>3, <1>4

\* The upstream sends an event of the response that is first in turn.
LEMMA AnswersAnswers ==
    ASSUME CodexInv, AnswerInv, NEW c \in Conns, Answers(c)
    PROVE  AnswerInv'
  <1>a. PICK kind : conns' =
           [conns EXCEPT ![c].wire = Append(@, [kind |-> kind, of |-> Head(conns[c].asked)]),
                         ![c].sent = IF kind = "end" THEN 0 ELSE conns[c].sent + 1,
                         ![c].asked = IF kind = "end" THEN Tail(@) ELSE @]
    BY DEF Answers
  <1>b. conns \in [Conns -> ConnRec] /\ conns[c].asked # <<>> /\ conns[c].wire = <<>>
    BY RecordsTyped DEF Answers
  <1>c. PICK d, x, n, q, rest :
           /\ d = conns[c] /\ x = conns'[c] /\ q = Head(d.asked)
           /\ n = (IF kind = "end" THEN 0 ELSE d.sent + 1)
           /\ rest = (IF kind = "end" THEN Tail(d.asked) ELSE d.asked)
    OBVIOUS
  <1>1. /\ d \in ConnRec /\ d = conns[c] /\ x = conns'[c] /\ d.asked # <<>> /\ d.wire = <<>>
        /\ q = Head(d.asked) /\ rest = (IF kind = "end" THEN Tail(d.asked) ELSE d.asked)
        /\ x = [d EXCEPT !.wire = Append(@, [kind |-> kind, of |-> q]), !.sent = n, !.asked = rest]
    <2>1. x = [d EXCEPT !.wire = Append(@, [kind |-> kind, of |-> q]), !.sent = n, !.asked = rest]
      BY <1>a, <1>b, <1>c
    <2> QED  BY <1>b, <1>c, <2>1
  <1>2. /\ \A e \in Conns : e # c => conns'[e] = conns[e]
        /\ UNCHANGED <<sessions, requests, foreign>>
    BY RecordsTyped DEF Answers, historyVars
  <1>3. PICK m : m = [kind |-> kind, of |-> q]
    OBVIOUS
  <1>4. /\ x.used = d.used /\ x.session = d.session /\ x.state = d.state /\ x.reader = d.reader
        /\ x.held = d.held /\ x.to = d.to /\ x.asked = rest /\ x.wire = Append(d.wire, m)
    BY <1>1, <1>3 DEF ConnRec
  <1>5. /\ d.asked \in Seq(Requests) /\ DOMAIN d.asked = 1 .. Len(d.asked)
        /\ Len(d.asked) \in Nat \ {0}
        /\ q = d.asked[1] /\ q \in Requests /\ q # 0
    <2>1. d.asked \in Seq(Requests) /\ d.asked # <<>> /\ 0 \notin Requests
      BY <1>1, FieldsTyped DEF ConnRec
    <2> QED  BY <1>1, <2>1
  <1>6. x.wire = <<m>> /\ m.of = q /\ m.kind = kind /\ DOMAIN x.wire = {1} /\ x.wire[1] = m
    BY <1>1, <1>3, <1>4
  <1>7. \A j \in DOMAIN rest :
           \E i \in DOMAIN d.asked : rest[j] = d.asked[i] /\ i = (IF kind = "end" THEN j + 1 ELSE j)
    <2>1. CASE kind = "end"
      <3>1. rest = Tail(d.asked) /\ DOMAIN rest = 1 .. Len(d.asked) - 1
        BY <1>1, <1>5, <2>1
      <3>2. \A j \in 1 .. Len(d.asked) - 1 : rest[j] = d.asked[j + 1] /\ j + 1 \in DOMAIN d.asked
        BY <1>5, <3>1
      <3> QED  BY <2>1, <3>1, <3>2
    <2>2. CASE kind # "end"
      BY <1>1, <2>2
    <2> QED  BY <2>1, <2>2
  <1>8. DOMAIN rest \subseteq Nat \ {0}
    <2>1. rest \in Seq(Requests)
      BY <1>1, <1>5
    <2> QED  BY <2>1
  <1>9. \A p : Coming(x, p) => Coming(d, p)
    BY <1>4, <1>5, <1>6, <1>7 DEF Coming
  <1>10. WireOf(d) => WireOf(x)
    <2>1. SUFFICES ASSUME \A i, j \in DOMAIN d.asked : d.asked[i] = d.asked[j] => i = j
                   PROVE  /\ kind = "end" => \A j \in DOMAIN rest : rest[j] # q
                          /\ \A i, j \in DOMAIN rest : rest[i] = rest[j] => i = j
      BY <1>4, <1>5, <1>6 DEF WireOf
    <2>2. ASSUME kind = "end", NEW j \in DOMAIN rest PROVE rest[j] # q
      BY <1>5, <1>7, <1>8, <2>1, <2>2
    <2>3. ASSUME NEW i \in DOMAIN rest, NEW j \in DOMAIN rest, rest[i] = rest[j] PROVE i = j
      BY <1>7, <1>8, <2>1, <2>3
    <2> QED  BY <2>2, <2>3
  <1>11. Still(conns[c], conns'[c])
    <2>1. Runs(d, x) /\ Keeps(d, x) /\ (Live(d) => Live(x))
      BY <1>4 DEF Runs, Keeps, Live, Reads
    <2>2. Comes(d, x)
      BY <1>1, <1>9, <2>1, BrokeIsOver DEF Comes, ComeOK
    <2> QED  BY <1>1, <1>10, <2>1, <2>2 DEF Still
  <1>12. Quiet
    BY <1>2, <1>11, OneStill, RestQuiet, BrokeIsOver DEF Alike
  <1>13. UseOK'
    BY <1>1, <1>2, <1>4, UseStays, BrokeIsOver DEF Live
  <1> QED
    BY <1>12, <1>13, QuietKeeps

-----------------------------------------------------------------------------
(* Steps that do. *)

\* What holds whenever nothing more is on the way and no request loses its place.
Basics == AllGo /\ AllRun /\ NoneCome /\ Moves

LEMMA BasicsKeep ==
    ASSUME CodexInv, AnswerInv, Basics,
           \A p \in Requests : Over(requests'[p]) /\ ~Over(requests[p]) =>
                Broke(requests'[p]) \/ \A c \in Conns : ~Coming(conns'[c], p),
           foreign' = foreign
    PROVE  (BrokeOK /\ ComeOK /\ LeftOK /\ ForeignOK)' /\ foreign' \subseteq Requests /\ FewCome
  <1>1. AllGo /\ AllRun /\ NoneCome /\ Moves
    BY DEF Basics
  <1>2. /\ foreign \subseteq Requests /\ BrokeOK /\ ComeOK /\ LeftOK /\ ForeignOK
    BY DEF AnswerInv
  <1>3. BrokeOK'
    BY <1>1 DEF BrokeOK, AllGo, Goes
  <1>4. ComeOK'
    BY <1>1, <1>2, ComeStays
  <1>5. LeftOK'
    BY <1>1, <1>2, LeftAllStays DEF LeftOK
  <1>6. ForeignOK'
    BY <1>1, <1>2, ForeignStays DEF ForeignOK
  <1> QED
    BY <1>1, <1>2, <1>3, <1>4, <1>5, <1>6 DEF NoneCome, FewCome, Comes

\* The channel of the request q gets at most the message m.
Tells(q, m) ==
    \A p \in Requests :
        LET r == requests[p]
            x == requests'[p]
        IN  /\ x.used = r.used /\ x.pc = r.pc /\ x.session = r.session /\ x.conn = r.conn
            /\ x.retry = r.retry /\ x.gone = r.gone /\ x.outcome = r.outcome
            /\ x.buf = r.buf \/ (p = q /\ x.buf = Append(r.buf, m))

LEMMA TellsKeeps ==
    ASSUME CodexInv, AnswerInv, NEW q \in Requests, NEW m \in HeardRec, HeardOf(q, m),
           Tells(q, m), \A c \in Conns : Still(conns[c], conns'[c]), foreign' = foreign, UseOK'
    PROVE  AnswerInv'
  <1>1. /\ BrokeOK /\ SeqOK /\ MineOK /\ ComeOK /\ WireOK /\ HeldOK /\ HeardOK /\ NextOK
    BY DEF AnswerInv
  <1>2. ASSUME NEW p \in Requests
        PROVE  /\ Goes(requests[p], requests'[p]) /\ Remains(requests[p], requests'[p])
               /\ Over(requests'[p]) => Over(requests[p])
               /\ Before(requests'[p]) => Before(requests[p])
               /\ requests'[p].conn = requests[p].conn
               /\ requests'[p].used = requests[p].used /\ requests'[p].gone = requests[p].gone
    BY BrokeIsOver DEF Tells, Goes, Remains, Begun, Over, Broke, Before, Past
  <1>3. Basics
    BY <1>2 DEF Basics, AllGo, AllRun, NoneCome, Moves, Still
  <1>4. (BrokeOK /\ ComeOK /\ LeftOK /\ ForeignOK)' /\ foreign' \subseteq Requests /\ FewCome
    BY <1>2, <1>3, BasicsKeep
  <1>5. AllGo /\ AllRun /\ NoneCome /\ Moves
    BY <1>3 DEF Basics
  <1>6. SeqOK' /\ WireOK'
    BY <1>1, <1>2, <1>5, SeqStays DEF WireOK, Still
  <1>7. HeldOK'
    BY <1>1, <1>4, <1>5, HeldStays DEF HeldOK, Still
  <1>8. ASSUME NEW p \in Requests, NEW i \in DOMAIN requests'[p].buf
        PROVE  HeardOf(p, requests[p].buf[i])'
    <2>1. CASE requests'[p].buf = requests[p].buf
      BY <1>1, <1>4, <1>5, <2>1, HeardAllStays DEF Hears
    <2>2. CASE p = q /\ requests'[p].buf = Append(requests[p].buf, m)
      <3>1. PICK h : h = requests'[p].buf[i]
        OBVIOUS
      <3>2. requests[q].buf \in Seq(HeardRec)
        BY RecordsTyped DEF RequestRec
      <3>3. h = m \/ \E j \in DOMAIN requests[q].buf : h = requests[q].buf[j]
        BY <2>2, <3>1, <3>2
      <3>4. h \in HeardRec /\ HeardOf(q, h)
        BY <1>1, <3>3, MessagesTyped DEF HeardOK
      <3>5. HeardOf(q, h)'
        BY <1>1, <1>4, <1>5, <3>4, HeardStays
      <3> QED  BY <2>2, <3>1, <3>5
    <2> QED  BY <2>1, <2>2 DEF Tells
  <1>9. NextOK' /\ MineOK'
    BY <1>1, <1>2, <1>5, NextStays, MineStays DEF NextOK, MineOK
  <1> QED
    BY <1>4, <1>6, <1>7, <1>8, <1>9 DEF AnswerInv, HeardOK

\* What the reader holds is what it will hand over.
LEMMA DeliverAnswers ==
    ASSUME CodexInv, AnswerInv, NEW c \in Conns, Deliver(c)
    PROVE  AnswerInv'
  <1>1. PICK d, q : d \in ConnRec /\ d = conns[c] /\ q = d.to /\ d.reader = "deliver" /\ ConnNo(d)
    BY RecordsTyped DEF Deliver, CodexInv, NumbersOK
  <1>2. q \in Requests /\ d.used /\ ~Before(requests[q])
    <2>1. q \in Requests /\ d.used
      BY <1>1 DEF ConnNo, Telling, ConnRec
    <2> QED  BY <1>1, <2>1 DEF CodexInv, TellingOK, TellsOf
  <1>3. PICK h, m : h = d.held /\ m = [conn |-> c, kind |-> h.kind, of |-> h.of]
    OBVIOUS
  <1>4. m \in HeardRec /\ m.kind # "lost" /\ m.conn = c /\ m.of = h.of /\ m.kind = h.kind
    <2>1. h \in WireRec
      BY <1>1, <1>3 DEF ConnRec
    <2> QED  BY <1>3, <2>1 DEF WireRec, HeardRec, Kinds
  <1>5. HeardOf(q, m)
    <2>1. h.of # 0 /\ Known(c, h) /\ Fits(c, h, q)
      BY <1>1, <1>3 DEF AnswerInv, HeldOK
    <2> QED  BY <1>1, <1>2, <1>4, <2>1 DEF HeardOf, Known, Fits
  <1>6. Tells(q, m)
    <2>1. ASSUME NEW p \in Requests
          PROVE  \/ requests'[p] = requests[p]
                 \/ p = q /\ requests'[p] = [requests[p] EXCEPT !.buf = Append(@, m)]
      BY <1>1, <1>3, RecordsTyped DEF Deliver
    <2>2. \A p \in Requests : requests[p] \in RequestRec
      BY RecordsTyped
    <2> QED  BY <2>1, <2>2 DEF Tells, RequestRec
  <1>7. /\ \A e \in Conns : e # c => conns'[e] = conns[e]
        /\ conns'[c] = [d EXCEPT !.reader = "read", !.held = Nothing, !.to = 0]
        /\ UNCHANGED <<sessions, foreign>>
    BY <1>1, RecordsTyped DEF Deliver, historyVars
  <1>8. PICK x : x = conns'[c]
    OBVIOUS
  <1>9. /\ x.used = d.used /\ x.session = d.session /\ x.asked = d.asked /\ x.wire = d.wire
        /\ x.state = d.state /\ x.reader = "read"
    BY <1>7, <1>8 DEF ConnRec
  <1>10. \A e \in Conns : Still(conns[e], conns'[e])
    <2>1. (Live(d) => Live(x)) /\ (Reads(x) => Reads(d)) /\ Keeps(d, x)
      BY <1>1, <1>9 DEF Live, Reads, Keeps
    <2>2. Still(conns[c], conns'[c])
      BY <1>1, <1>8, <1>9, <2>1, StillSame, BrokeIsOver
    <2> QED  BY <1>7, <2>2, OneStill, BrokeIsOver
  <1>11. UseOK'
    BY <1>1, <1>7, <1>8, <1>9, UseStays, BrokeIsOver DEF Live
  <1> QED
    BY <1>2, <1>4, <1>5, <1>6, <1>7, <1>10, <1>11, TellsKeeps

\* That the connection is lost is no event of a response.
LEMMA TellLostAnswers ==
    ASSUME CodexInv, AnswerInv, NEW c \in Conns, TellLost(c)
    PROVE  AnswerInv'
  <1>1. PICK d, q : d \in ConnRec /\ d = conns[c] /\ q = d.to /\ d.reader = "tell" /\ ConnNo(d)
    BY RecordsTyped DEF TellLost, CodexInv, NumbersOK
  <1>2. q \in Requests /\ d.used /\ ~Before(requests[q]) /\ d.session \in Sessions
    <2>1. q \in Requests /\ d.used
      BY <1>1 DEF ConnNo, Telling, ConnRec
    <2> QED  BY <1>1, <2>1, RecordsTyped DEF CodexInv, TellingOK, TellsOf
  <1>3. PICK m : m = [conn |-> c, kind |-> "lost", of |-> 0]
    OBVIOUS
  <1>4. m \in HeardRec /\ m.kind = "lost" /\ m.conn = c /\ m.of = 0
    BY <1>3 DEF HeardRec
  <1>5. HeardOf(q, m)
    BY <1>1, <1>2, <1>4 DEF HeardOf, Known, Fits, Reads
  <1>6. Tells(q, m)
    <2>1. PICK told \in [Requests -> RequestRec] :
             /\ told \in {requests, [requests EXCEPT ![q].buf = Append(@, m)]}
             /\ requests' \in {told, [told EXCEPT ![q].done = TRUE]}
      <3>1. \/ requests' \in {requests, [requests EXCEPT ![q].done = TRUE]}
            \/ LET told == [requests EXCEPT ![q].buf = Append(@, m)]
               IN  requests' \in {told, [told EXCEPT ![q].done = TRUE]}
        BY <1>1, <1>3 DEF TellLost
      <3>2. requests[q] \in RequestRec /\ requests[q].buf \in Seq(HeardRec)
        BY <1>2, RecordsTyped DEF RequestRec
      <3>3. Append(requests[q].buf, m) \in Seq(HeardRec)
        BY <1>4, <3>2
      <3>4. [requests EXCEPT ![q].buf = Append(@, m)] \in [Requests -> RequestRec]
        BY <3>2, <3>3, RecordsTyped, RequestStaysTyped
      <3> QED  BY <3>1, <3>4, RecordsTyped
    <2>2. ASSUME NEW p \in Requests
          PROVE  /\ told[p] \in RequestRec /\ requests[p] \in RequestRec
                 /\ told[p] = requests[p] \/ (p = q /\ told[p] = [requests[p] EXCEPT !.buf = Append(@, m)])
                 /\ requests'[p] \in {told[p], [told[p] EXCEPT !.done = TRUE]}
      BY <2>1, RecordsTyped
    <2>3. ASSUME NEW r \in RequestRec, NEW t \in RequestRec, NEW x,
                 t = r \/ t = [r EXCEPT !.buf = Append(@, m)], x \in {t, [t EXCEPT !.done = TRUE]}
          PROVE  /\ x.used = r.used /\ x.pc = r.pc /\ x.session = r.session /\ x.conn = r.conn
                 /\ x.retry = r.retry /\ x.gone = r.gone /\ x.outcome = r.outcome
                 /\ x.buf = t.buf /\ (t = r \/ t.buf = Append(r.buf, m))
      BY <2>3 DEF RequestRec
    <2> QED  BY <2>2, <2>3 DEF Tells
  <1>7. /\ \A e \in Conns : e # c => conns'[e] = conns[e]
        /\ conns'[c] = [d EXCEPT !.reader = "shut"] /\ foreign' = foreign
        /\ sessions' = [sessions EXCEPT ![d.session] = Cleared(@, q)]
    BY <1>1, RecordsTyped DEF TellLost, historyVars
  <1>8. PICK x : x = conns'[c]
    OBVIOUS
  <1>9. /\ x.used = d.used /\ x.session = d.session /\ x.asked = d.asked /\ x.wire = d.wire
        /\ x.state = d.state /\ x.reader = "shut"
    BY <1>7, <1>8 DEF ConnRec
  <1>10. \A e \in Conns : Still(conns[e], conns'[e])
    <2>1. (Live(d) => Live(x)) /\ (Reads(x) => Reads(d)) /\ Keeps(d, x)
      BY <1>1, <1>9 DEF Live, Reads, Keeps
    <2>2. Still(conns[c], conns'[c])
      BY <1>1, <1>8, <1>9, <2>1, StillSame, BrokeIsOver
    <2> QED  BY <1>7, <2>2, OneStill, BrokeIsOver
  <1>11. UseOK'
    <2>1. \A s \in Sessions : sessions'[s].conn = sessions[s].conn
      BY <1>2, <1>7, RecordsTyped DEF SessionRec, Cleared
    <2>2. \A e \in Conns : /\ Live(conns'[e]) => Live(conns[e])
                           /\ conns'[e].session = conns[e].session
      BY <1>1, <1>7, <1>8, <1>9 DEF Live
    <2> QED  BY <2>1, <2>2, UseStays, BrokeIsOver
  <1> QED
    BY <1>2, <1>4, <1>5, <1>6, <1>7, <1>10, <1>11, TellsKeeps

\* The message is meant for the active request, or left over from one before it.
LEMMA ReadMessageAnswers ==
    ASSUME CodexInv, AnswerInv, NEW c \in Conns, ReadMessage(c)
    PROVE  AnswerInv'
  <1>1. PICK d, x, q, m :
           /\ d = conns[c] /\ x = conns'[c] /\ q = sessions[d.session].active /\ m = Head(d.wire)
    OBVIOUS
  <1>2. /\ d \in ConnRec /\ ConnNo(d) /\ WireOf(d) /\ d.reader = "read" /\ d.wire # <<>>
        /\ x = [d EXCEPT !.wire = Tail(d.wire), !.held = m, !.to = q,
                         !.reader = IF q = 0 THEN "read" ELSE "deliver"]
        /\ \A e \in Conns : e # c => conns'[e] = conns[e]
        /\ UNCHANGED <<sessions, requests, foreign>>
    <2>1. conns \in [Conns -> ConnRec] /\ ConnNo(d) /\ WireOf(d)
      BY <1>1, RecordsTyped DEF CodexInv, NumbersOK, AnswerInv, WireOK
    <2>2. conns' = [conns EXCEPT ![c].wire = Tail(@), ![c].held = m, ![c].to = q,
                                 ![c].reader = IF q = 0 THEN "read" ELSE "deliver"]
      BY <1>1 DEF ReadMessage
    <2>3. x = [d EXCEPT !.wire = Tail(d.wire), !.held = m, !.to = q,
                        !.reader = IF q = 0 THEN "read" ELSE "deliver"]
      BY <1>1, <2>1, <2>2
    <2>4. \A e \in Conns : e # c => conns'[e] = conns[e]
      BY <2>1, <2>2
    <2> QED  BY <1>1, <2>1, <2>3, <2>4 DEF ReadMessage, historyVars
  <1>3. /\ m = d.wire[1] /\ 1 \in DOMAIN d.wire /\ Tail(d.wire) = <<>> /\ m \in WireRec
    <2>1. d.wire \in Seq(WireRec) /\ d.wire # <<>>
      BY <1>2 DEF ConnRec
    <2>2. DOMAIN d.wire = 1 .. Len(d.wire) /\ Len(d.wire) \in Nat \ {0}
      BY <2>1
    <2>3. Len(d.wire) = 1
      <3>1. \A i \in DOMAIN d.wire : i = 1
        BY <1>2 DEF WireOf
      <3>2. Len(d.wire) \in DOMAIN d.wire
        BY <2>2
      <3> QED  BY <3>1, <3>2
    <2>4. Tail(d.wire) = <<>>
      <3>1. Tail(d.wire) \in Seq(WireRec) /\ Len(Tail(d.wire)) = 0
        BY <2>1, <2>3
      <3> QED  BY <3>1, EmptySeq
    <2> QED  BY <1>1, <2>1, <2>2, <2>4
  <1>4. /\ x.used = d.used /\ x.session = d.session /\ x.state = d.state /\ x.asked = d.asked
        /\ x.wire = <<>> /\ x.held = m /\ x.to = q /\ x.reader = IF q = 0 THEN "read" ELSE "deliver"
    BY <1>2, <1>3 DEF ConnRec
  <1>5. /\ Coming(d, m.of) /\ m.of \in Requests
        /\ m.kind = "end" => ~Coming(x, m.of)
        /\ \A p \in Requests : Coming(x, p) => Coming(d, p)
        /\ WireOf(x)
    <2>1. m.of \in Requests
      BY <1>2, <1>3 DEF WireOf, WireRec
    <2> QED  BY <1>2, <1>3, <1>4, <2>1 DEF WireOf, Coming
  <1>6. Begun(requests[m.of]) /\ Live(d)
    BY <1>1, <1>5 DEF AnswerInv, ComeOK
  <1>7. Basics
    <2>1. Runs(d, x) /\ Comes(d, x)
      BY <1>2, <1>4, <1>5, <1>6 DEF Runs, Comes, Live, Reads
    <2>2. ASSUME NEW e \in Conns PROVE Runs(conns[e], conns'[e]) /\ Comes(conns[e], conns'[e])
      <3>1. CASE e = c
        BY <1>1, <2>1, <3>1
      <3>2. CASE e # c
        BY <1>2, <3>2, BrokeIsOver DEF Runs, Comes, ComeOK
      <3> QED  BY <3>1, <3>2
    <2>3. AllGo /\ Moves
      BY <1>2, BrokeIsOver DEF AllGo, Goes, Moves
    <2> QED  BY <2>2, <2>3 DEF Basics, AllRun, NoneCome
  <1>8. (BrokeOK /\ ComeOK /\ LeftOK /\ ForeignOK)' /\ foreign' \subseteq Requests /\ FewCome
    BY <1>2, <1>7, BasicsKeep
  <1>9. AllGo /\ AllRun /\ NoneCome /\ Moves
    BY <1>7 DEF Basics
  <1>10. /\ BrokeOK /\ SeqOK /\ UseOK /\ MineOK /\ ComeOK /\ WireOK /\ HeldOK /\ HeardOK
         /\ LeftOK /\ NextOK
    BY DEF AnswerInv
  <1>11. SeqOK' /\ WireOK'
    BY <1>1, <1>2, <1>5, <1>10 DEF SeqOK, WireOK
  <1>12. UseOK'
    BY <1>1, <1>2, <1>4, <1>10, UseStays DEF Live
  <1>13. HeardOK'
    BY <1>2, <1>8, <1>9, <1>10, HeardAllStays DEF HeardOK, Hears
  <1>14. NextOK' /\ MineOK'
    BY <1>2, <1>9, <1>10, NextStays, MineStays DEF NextOK, MineOK, Remains
  <1>15. ASSUME q # 0 PROVE m.of # 0 /\ Known(c, m)' /\ Fits(c, m, q)'
    <2>1. m.of # 0 /\ Known(c, m)'
      BY <1>1, <1>2, <1>5, <1>6, FieldsTyped DEF Known
    <2>2. q \in Requests /\ d.session \in Sessions /\ requests[q].session = d.session
          /\ Holds(requests[q]) /\ ~Before(requests[q])
      <3>1. d.session \in Sessions
        BY <1>1, <1>2, RecordsTyped DEF ConnNo
      <3>2. q \in Requests
        BY <1>1, <1>15, <3>1, FieldsTyped
      <3> QED  BY <1>1, <3>1, <3>2 DEF CodexInv, ActiveOK, ActiveOf
    <2>3. sessions[d.session].conn = c
      BY <1>1, <1>6, <1>10 DEF UseOK
    <2>4. Past(requests[q])
      <3>1. c # 0
        BY FieldsTyped
      <3>2. ~Again(requests[q])
        BY <2>2, <2>3, <3>1 DEF CodexInv, MutexOK, MutexOf
      <3> QED  BY <2>2, <3>2, FieldsTyped DEF Holds, Before, Again, Past
    <2>5. Fits(c, m, q)
      BY <1>1, <1>2, <1>5, <1>10, <2>2, <2>4 DEF Fits, NextOK, NextOf, Reads
    <2>6. d.used
      BY <1>2, <2>2, FieldsTyped DEF ConnNo
    <2> QED  BY <1>1, <1>9, <1>10, <2>1, <2>2, <2>5, <2>6, FitsStays
  <1>16. HeldOK'
    <2> SUFFICES ASSUME NEW e \in Conns, conns'[e].reader = "deliver"
                 PROVE  /\ conns'[e].held.of # 0 /\ Known(e, conns[e].held)'
                        /\ Fits(e, conns[e].held, conns[e].to)'
      BY DEF HeldOK
    <2>1. CASE e = c
      <3>1. q # 0 /\ conns'[c].held = m /\ conns'[c].to = q
        BY <1>1, <1>4, <2>1
      <3> QED  BY <1>15, <2>1, <3>1
    <2>2. CASE e # c
      BY <1>2, <1>8, <1>9, <1>10, <2>2, HeldStays DEF Keeps
    <2> QED  BY <2>1, <2>2
  <1> QED
    BY <1>8, <1>11, <1>12, <1>13, <1>14, <1>16 DEF AnswerInv

\* The first message of the channel is what a request reads.
LEMMA ReadAnswers ==
    ASSUME CodexInv, AnswerInv, NEW q \in Requests, Read(q)
    PROVE  AnswerInv'
  <1>1. PICK r, x, m : r = requests[q] /\ x = requests'[q] /\ m = Head(r.buf)
    OBVIOUS
  <1>2. /\ r \in RequestRec /\ r.pc = "read" /\ r.buf # <<>>
        /\ UNCHANGED <<store, sessions, conns, closers, crashed, hungUp, shadowed, late>>
        /\ \A p \in Requests : p # q => requests'[p] = requests[p]
    BY <1>1, RecordsTyped DEF Read
  <1>3. PICK o \in {"none", "error", "ok"}, pc \in {"read", "giveUp", "leave"} :
           /\ x = [r EXCEPT !.buf = Tail(r.buf), !.outcome = o, !.pc = pc]
           /\ pc = "leave" => m.conn = r.conn /\ m.kind \in {"lost", "end"}
    BY <1>1, RecordsTyped DEF Read
  <1>4. /\ x.used = r.used /\ x.session = r.session /\ x.conn = r.conn /\ x.gone = r.gone
        /\ x.pc = pc /\ x.outcome = o /\ x.buf = Tail(r.buf)
    BY <1>2, <1>3 DEF RequestRec
  <1>5. /\ m = r.buf[1] /\ 1 \in DOMAIN r.buf
        /\ \A i \in DOMAIN Tail(r.buf) : \E j \in DOMAIN r.buf : Tail(r.buf)[i] = r.buf[j]
    <2>1. r.buf \in Seq(HeardRec) /\ r.buf # <<>>
      BY <1>2 DEF RequestRec
    <2>2. m = r.buf[1] /\ 1 \in DOMAIN r.buf
      BY <1>1, <2>1
    <2>3. \A i \in DOMAIN Tail(r.buf) : Tail(r.buf)[i] = r.buf[i + 1] /\ i + 1 \in DOMAIN r.buf
      BY <2>1
    <2> QED  BY <2>2, <2>3
  <1>6. m \in HeardRec /\ HeardOf(q, m)
    BY <1>1, <1>5, MessagesTyped DEF AnswerInv, HeardOK
  <1>7. ASSUME NEW p \in Requests
        PROVE  /\ Goes(requests[p], requests'[p]) /\ Remains(requests[p], requests'[p])
               /\ Hears(requests[p], requests'[p])
               /\ p # q => (Over(requests'[p]) => Over(requests[p]))
               /\ Before(requests'[p]) => Before(requests[p])
               /\ requests'[p].conn = requests[p].conn
               /\ requests'[p].used = requests[p].used /\ requests'[p].gone = requests[p].gone
    <2>1. CASE p = q
      <3>1. ~Over(r) /\ ~Broke(r) /\ ~Broke(x) /\ Begun(r) /\ Begun(x) /\ ~Before(x) /\ Past(r)
        BY <1>1, <1>2, <1>3, <1>4, BrokeIsOver DEF Over, Broke, Begun, Before, Past
      <3>2. Goes(r, x) /\ Remains(r, x)
        BY <1>4, <3>1 DEF Goes, Remains
      <3>3. Hears(r, x)
        BY <1>4, <1>5 DEF Hears
      <3> QED  BY <1>1, <1>4, <2>1, <3>1, <3>2, <3>3
    <2>2. CASE p # q
      BY <1>2, <2>2, BrokeIsOver DEF Goes, Remains, Hears
    <2> QED  BY <2>1, <2>2
  <1>8. /\ foreign \subseteq Requests /\ BrokeOK /\ SeqOK /\ UseOK /\ MineOK /\ ComeOK /\ WireOK
        /\ HeldOK /\ HeardOK /\ LeftOK /\ NextOK /\ ForeignOK
    BY DEF AnswerInv
  <1>9. AllGo /\ AllRun /\ NoneCome /\ FewCome /\ Moves
    <2>1. AllGo /\ Moves
      BY <1>7 DEF AllGo, Moves
    <2> QED  BY <1>2, <1>8, <2>1 DEF AllRun, Runs, NoneCome, Comes, FewCome, ComeOK
  <1>10. BrokeOK' /\ ComeOK' /\ WireOK' /\ SeqOK' /\ UseOK'
    <2>1. BrokeOK'
      BY <1>9 DEF BrokeOK, AllGo, Goes
    <2>2. ComeOK'
      BY <1>8, <1>9, ComeStays
    <2>3. SeqOK'
      BY <1>7, <1>8, <1>9, SeqStays
    <2>4. WireOK' /\ UseOK'
      BY <1>2, <1>8 DEF WireOK, UseOK
    <2> QED  BY <2>1, <2>2, <2>3, <2>4
  <1>11. HeldOK'
    BY <1>2, <1>8, <1>9, HeldStays DEF HeldOK, Keeps
  <1>12. HeardOK'
    BY <1>7, <1>8, <1>9, HeardAllStays DEF HeardOK
  <1>13. NextOK' /\ MineOK'
    BY <1>7, <1>8, <1>9, NextStays, MineStays DEF NextOK, MineOK
  <1>14. LeftOK'
    <2> SUFFICES ASSUME NEW c \in Conns, NEW p \in Requests, Reads(conns'[c]), Coming(conns'[c], p),
                        Over(requests'[p])
                 PROVE  Broke(requests'[p]) \/ Left(c, p)'
      BY DEF LeftOK
    <2>1. CASE p # q
      BY <1>7, <1>8, <1>9, <2>1, LeftAllStays
    <2>2. CASE p = q
      <3>1. pc = "leave" /\ m.conn = r.conn /\ m.kind \in {"lost", "end"}
        BY <1>1, <1>3, <1>4, <2>2 DEF Over
      <3>2. Reads(conns[c]) /\ Coming(conns[c], q) /\ r.conn = c
        BY <1>1, <1>2, <1>8, <2>2 DEF ComeOK
      <3>3. m.kind = "end" /\ m.of # 0 /\ m.of # q
        BY <1>6, <3>1, <3>2 DEF HeardOf, Known
      <3>4. Left(c, q)
        BY <1>1, <1>6, <3>1, <3>2, <3>3 DEF HeardOf, Fits
      <3> QED  BY <1>8, <1>9, <2>2, <3>4, LeftStays
    <2> QED  BY <2>1, <2>2
  <1>15. ForeignOK' /\ foreign' \subseteq Requests
    <2>1. foreign' \subseteq foreign \cup {q}
      BY DEF Read
    <2>2. ASSUME q \in foreign', q \notin foreign
          PROVE  Begun(requests'[q]) /\ Left(requests[q].conn, q)'
      <3>1. m.conn = r.conn /\ m.of \notin {0, q}
        BY <1>1, <2>2 DEF Read
      <3>2. PICK c : c = r.conn
        OBVIOUS
      <3>3. Left(c, q)
        BY <1>1, <1>6, <3>1, <3>2 DEF HeardOf, Fits
      <3>4. Left(c, q)' /\ requests'[q].conn = c
        BY <1>1, <1>4, <1>8, <1>9, <3>2, <3>3, LeftStays
      <3> QED  BY <1>1, <1>4, <3>4 DEF Begun
    <2> QED  BY <1>8, <1>9, <2>1, <2>2, ForeignStays DEF ForeignOK
  <1> QED
    BY <1>10, <1>11, <1>12, <1>13, <1>14, <1>15 DEF AnswerInv

\* The request is sent over a connection nobody else is at.
Asks(q) ==
    LET c == requests[q].conn
    IN  /\ requests[q].pc = "send" /\ conns[c].state # "closed"
        /\ conns' = [conns EXCEPT ![c].asked = Append(@, q)]
        /\ requests' = [requests EXCEPT ![q].pc = "read"]
        /\ UNCHANGED <<sessions, foreign>>

LEMMA AsksAnswers ==
    ASSUME CodexInv, AnswerInv, NEW q \in Requests, Asks(q)
    PROVE  AnswerInv'
  <1>1. PICK r, x, c : r = requests[q] /\ x = requests'[q] /\ c = r.conn
    OBVIOUS
  <1>2. /\ r \in RequestRec /\ r.pc = "send" /\ x = [r EXCEPT !.pc = "read"]
        /\ \A p \in Requests : p # q => requests'[p] = requests[p]
        /\ UNCHANGED <<sessions, foreign>>
    BY <1>1, RecordsTyped DEF Asks
  <1>3. /\ x.used = r.used /\ x.session = r.session /\ x.conn = r.conn /\ x.gone = r.gone
        /\ x.pc = "read" /\ x.outcome = r.outcome /\ x.buf = r.buf
    BY <1>2 DEF RequestRec
  <1>4. /\ foreign \subseteq Requests /\ BrokeOK /\ SeqOK /\ UseOK /\ MineOK /\ ComeOK /\ WireOK
        /\ HeldOK /\ HeardOK /\ LeftOK /\ NextOK /\ ForeignOK
    BY DEF AnswerInv
  <1>5. c \in Conns /\ conns[c].session = r.session /\ r.session \in Sessions
    BY <1>1, <1>2, <1>4, RecordsTyped DEF MineOK, Past
  <1>6. PICK d, y : d = conns[c] /\ y = conns'[c]
    OBVIOUS
  <1>7. /\ d \in ConnRec /\ d.state # "closed" /\ y = [d EXCEPT !.asked = Append(@, q)]
        /\ \A e \in Conns : e # c => conns'[e] = conns[e]
    BY <1>1, <1>5, <1>6, RecordsTyped DEF Asks
  <1>8. /\ y.used = d.used /\ y.session = d.session /\ y.state = d.state /\ y.wire = d.wire
        /\ y.reader = d.reader /\ y.held = d.held /\ y.to = d.to /\ y.asked = Append(d.asked, q)
    BY <1>7 DEF ConnRec
  <1>9. Live(d) /\ Live(y)
    <2>1. d.used
      BY <1>5, <1>6, FieldsTyped DEF CodexInv, NumbersOK, ConnNo
    <2>2. d.state # "none" /\ d.state \in {"none", "open", "broken", "closed"}
      BY <1>5, <1>6, <2>1, FieldsTyped DEF CodexInv, NumbersOK, ConnNo
    <2> QED  BY <1>7, <1>8, <2>2 DEF Live
  <1>10. /\ DOMAIN d.asked = 1 .. Len(d.asked) /\ Len(d.asked) \in Nat
         /\ DOMAIN y.asked = 1 .. Len(d.asked) + 1
         /\ \A i \in DOMAIN d.asked : y.asked[i] = d.asked[i]
         /\ y.asked[Len(d.asked) + 1] = q
    <2>1. d.asked \in Seq(Requests)
      BY <1>7 DEF ConnRec
    <2> QED  BY <1>8, <2>1
  <1>11. ~Begun(requests[q]) /\ ~Coming(d, q)
    BY <1>1, <1>2, <1>4, <1>5, <1>6 DEF Begun, ComeOK
  <1>12. \A p : Coming(y, p) <=> Coming(d, p) \/ p = q
    BY <1>8, <1>10 DEF Coming
  <1>13. ASSUME NEW p \in Requests
         PROVE  /\ Goes(requests[p], requests'[p]) /\ Remains(requests[p], requests'[p])
                /\ Hears(requests[p], requests'[p])
                /\ Over(requests'[p]) => Over(requests[p])
                /\ Before(requests'[p]) => Before(requests[p])
                /\ requests'[p].conn = requests[p].conn
                /\ requests'[p].used = requests[p].used /\ requests'[p].gone = requests[p].gone
    <2>1. CASE p = q
      <3>1. ~Over(r) /\ ~Broke(r) /\ ~Broke(x) /\ ~Over(x) /\ Begun(x) /\ ~Before(x) /\ Past(r)
        BY <1>1, <1>2, <1>3, BrokeIsOver DEF Over, Broke, Begun, Before, Past
      <3>2. Goes(r, x) /\ Remains(r, x) /\ Hears(r, x)
        BY <1>3, <3>1 DEF Goes, Remains, Hears
      <3> QED  BY <1>1, <1>3, <2>1, <3>1, <3>2
    <2>2. CASE p # q
      BY <1>2, <2>2, BrokeIsOver DEF Goes, Remains, Hears
    <2> QED  BY <2>1, <2>2
  <1>14. AllGo /\ AllRun /\ FewCome /\ Moves
    <2>1. AllGo /\ Moves
      BY <1>13 DEF AllGo, Moves
    <2>2. ASSUME NEW e \in Conns PROVE Runs(conns[e], conns'[e])
      <3>1. CASE e = c
        BY <1>6, <1>8, <3>1 DEF Runs, Reads
      <3>2. CASE e # c
        BY <1>7, <3>2 DEF Runs
      <3> QED  BY <3>1, <3>2
    <2>3. FewCome
      BY <1>6, <1>7, <1>11, <1>12 DEF FewCome
    <2> QED  BY <2>1, <2>2, <2>3 DEF AllRun
  <1>15. BrokeOK' /\ SeqOK' /\ UseOK' /\ MineOK'
    <2>1. BrokeOK'
      BY <1>14 DEF BrokeOK, AllGo, Goes
    <2>2. SeqOK'
      BY <1>4, <1>13, <1>14, SeqStays
    <2>3. UseOK'
      BY <1>2, <1>4, <1>6, <1>7, <1>8, UseStays DEF Live
    <2>4. MineOK'
      BY <1>4, <1>13, <1>14, MineStays DEF MineOK
    <2> QED  BY <2>1, <2>2, <2>3, <2>4
  <1>16. ASSUME NEW e \in Conns, NEW p \in Requests, Coming(conns'[e], p)
         PROVE  Coming(conns[e], p) \/ (e = c /\ p = q)
    BY <1>6, <1>7, <1>12, <1>16
  <1>17. ASSUME NEW e \in Conns
         PROVE  /\ conns'[e].session = conns[e].session /\ conns'[e].reader = conns[e].reader
                /\ Live(conns'[e]) = Live(conns[e]) /\ Reads(conns'[e]) = Reads(conns[e])
    BY <1>6, <1>7, <1>8 DEF Live, Reads
  <1>18. ComeOK'
    <2> SUFFICES ASSUME NEW e \in Conns, NEW p \in Requests, Coming(conns'[e], p)
                 PROVE  /\ Begun(requests'[p]) /\ requests'[p].conn = e
                        /\ requests'[p].session = conns'[e].session /\ Live(conns'[e])
      BY DEF ComeOK
    <2>1. CASE Coming(conns[e], p)
      <3>1. /\ Begun(requests[p]) /\ requests[p].conn = e
            /\ requests[p].session = conns[e].session /\ Live(conns[e])
        BY <1>4, <2>1 DEF ComeOK
      <3> QED  BY <1>14, <1>17, <3>1 DEF AllGo, Goes
    <2>2. CASE e = c /\ p = q
      BY <1>1, <1>3, <1>5, <1>6, <1>8, <1>9, <2>2 DEF Begun
    <2> QED  BY <1>16, <2>1, <2>2
  <1>19. WireOK'
    <2>1. WireOf(d) /\ \A i \in DOMAIN d.wire : d.wire[i].of # q
      BY <1>4, <1>5, <1>6, <1>11 DEF WireOK, Coming
    <2>2. \A i \in DOMAIN d.asked : d.asked[i] # q
      BY <1>11 DEF Coming
    <2>3. WireOf(y)
      BY <1>8, <1>10, <2>1, <2>2 DEF WireOf
    <2> QED  BY <1>4, <1>6, <1>7, <2>3 DEF WireOK
  <1>20. HeldOK'
    <2>1. ASSUME NEW e \in Conns PROVE Keeps(conns[e], conns'[e])
      BY <1>6, <1>7, <1>8 DEF Keeps
    <2> QED  BY <1>4, <1>14, <2>1, HeldStays DEF HeldOK
  <1>21. HeardOK'
    BY <1>4, <1>13, <1>14, HeardAllStays DEF HeardOK
  <1>22. LeftOK'
    <2> SUFFICES ASSUME NEW e \in Conns, NEW p \in Requests, Reads(conns'[e]), Coming(conns'[e], p),
                        Over(requests'[p])
                 PROVE  Broke(requests'[p]) \/ Left(e, p)'
      BY DEF LeftOK
    <2>1. p # q
      BY <1>1, <1>3 DEF Over
    <2>2. Broke(requests[p]) \/ Left(e, p)
      BY <1>4, <1>13, <1>16, <1>17, <2>1 DEF LeftOK
    <2> QED  BY <1>4, <1>14, <2>2, LeftStays DEF AllGo, Goes
  <1>23. NextOK'
    <2> SUFFICES ASSUME NEW e \in Conns, NEW p \in Requests, NEW t \in Requests, Reads(conns'[e]),
                        Coming(conns'[e], p), p # t, Past(requests'[t]), requests'[t].conn = e
                 PROVE  Left(e, t)'
      BY DEF NextOK, NextOf
    <2>1. Past(requests[t]) /\ requests[t].conn = e
      BY <1>13 DEF Remains
    <2>2. CASE Coming(conns[e], p)
      <3>1. Left(e, t)
        BY <1>4, <1>17, <2>1, <2>2 DEF NextOK, NextOf
      <3> QED  BY <1>4, <1>14, <3>1, LeftStays
    <2>3. CASE e = c /\ p = q
      <3>1. requests[t].session = r.session
        BY <1>4, <1>5, <2>1, <2>3 DEF MineOK
      <3>2. sessions[r.session].lock = t /\ sessions[r.session].lock = q
        BY <1>1, <1>2, <1>5, <2>1, <3>1 DEF CodexInv, MutexOK, MutexOf, Past, Holds
      <3> QED  BY <2>3, <3>2
    <2> QED  BY <1>16, <2>2, <2>3
  <1>24. ForeignOK' /\ foreign' \subseteq Requests
    BY <1>2, <1>4, <1>14, ForeignStays DEF ForeignOK
  <1> QED
    BY <1>15, <1>18, <1>19, <1>20, <1>21, <1>22, <1>23, <1>24 DEF AnswerInv

\* The request takes over the connection of its session, with what is left on it.
LEMMA EnsureAnswers ==
    ASSUME CodexInv, AnswerInv, NEW q \in Requests, Ensure(q)
    PROVE  AnswerInv'
  <1>1. PICK r, x, s, c : /\ r = requests[q] /\ x = requests'[q] /\ s = r.session
                          /\ c = sessions[s].conn
    OBVIOUS
  <1>2. /\ r \in RequestRec /\ r.pc = "ensure" /\ s \in Sessions /\ c \in Conns \cup {0}
        /\ (r.retry => c = 0) /\ r.retry \in BOOLEAN
    <2>1. r \in RequestRec /\ r.pc = "ensure" /\ s \in Sessions
      BY <1>1, RecordsTyped DEF Ensure
    <2>2. c \in Conns \cup {0} /\ r.retry \in BOOLEAN
      BY <1>1, <2>1, FieldsTyped
    <2> QED  BY <1>1, <2>1, <2>2 DEF CodexInv, MutexOK, MutexOf, Again
  <1>3. /\ x = [r EXCEPT !.conn = c, !.pc = IF c = 0 THEN "dial"
                                            ELSE IF r.retry THEN "send" ELSE "activate"]
        /\ \A p \in Requests : p # q => requests'[p] = requests[p]
        /\ UNCHANGED <<sessions, conns, foreign>>
    BY <1>1, RecordsTyped DEF Ensure, historyVars
  <1>4. /\ x.used = r.used /\ x.session = r.session /\ x.conn = c /\ x.gone = r.gone
        /\ x.outcome = r.outcome /\ x.buf = r.buf /\ x.retry = r.retry
        /\ x.pc = (IF c = 0 THEN "dial" ELSE IF r.retry THEN "send" ELSE "activate")
    BY <1>2, <1>3 DEF RequestRec
  <1>5. /\ ~Over(r) /\ ~Broke(r) /\ ~Broke(x) /\ ~Over(x) /\ ~Begun(r) /\ ~Begun(x)
        /\ (Before(x) => Before(r)) /\ (c = 0 \/ Before(r)) /\ (Past(x) => c # 0)
    BY <1>1, <1>2, <1>4, BrokeIsOver DEF Over, Broke, Begun, Before, Past
  <1>6. ASSUME NEW p \in Requests
        PROVE  /\ Goes(requests[p], requests'[p]) /\ Hears(requests[p], requests'[p])
               /\ p # q => Remains(requests[p], requests'[p])
               /\ Over(requests'[p]) => Over(requests[p])
               /\ Before(requests'[p]) => Before(requests[p])
               /\ requests'[p].used = requests[p].used /\ requests'[p].gone = requests[p].gone
    <2>1. CASE p = q
      <3>1. Goes(r, x) /\ Hears(r, x)
        BY <1>4, <1>5 DEF Goes, Hears
      <3> QED  BY <1>1, <1>4, <1>5, <2>1, <3>1
    <2>2. CASE p # q
      BY <1>3, <2>2, BrokeIsOver DEF Goes, Remains, Hears
    <2> QED  BY <2>1, <2>2
  <1>7. /\ BrokeOK /\ SeqOK /\ UseOK /\ MineOK /\ ComeOK /\ WireOK
        /\ HeldOK /\ HeardOK /\ LeftOK /\ NextOK
    BY DEF AnswerInv
  <1>8. Basics
    <2>1. AllGo
      BY <1>6 DEF AllGo
    <2>2. ASSUME NEW p \in Requests
          PROVE  /\ Before(requests'[p]) => Before(requests[p])
                 /\ requests'[p].conn # requests[p].conn =>
                       requests'[p].conn = 0 \/ Before(requests[p])
      <3>1. CASE p = q
        BY <1>1, <1>4, <1>5, <1>6, <3>1
      <3>2. CASE p # q
        BY <1>3, <1>6, <3>2
      <3> QED  BY <3>1, <3>2
    <2>3. Moves
      BY <2>2 DEF Moves
    <2> QED  BY <1>3, <1>7, <2>1, <2>3 DEF Basics, AllRun, Runs, NoneCome, Comes, ComeOK
  <1>9. (BrokeOK /\ ComeOK /\ LeftOK /\ ForeignOK)' /\ foreign' \subseteq Requests /\ FewCome
    BY <1>3, <1>6, <1>8, BasicsKeep
  <1>10. AllGo /\ AllRun /\ NoneCome /\ Moves
    BY <1>8 DEF Basics
  <1>11. SeqOK' /\ WireOK' /\ UseOK'
    BY <1>3, <1>6, <1>7, <1>10, SeqStays DEF WireOK, UseOK
  <1>12. HeldOK'
    BY <1>3, <1>7, <1>9, <1>10, HeldStays DEF HeldOK, Keeps
  <1>13. HeardOK'
    BY <1>6, <1>7, <1>9, <1>10, HeardAllStays DEF HeardOK
  <1>14. MineOK'
    <2>1. ASSUME NEW p \in Requests, Past(requests'[p])
          PROVE  /\ requests'[p].conn \in Conns
                 /\ conns'[requests'[p].conn].session = requests'[p].session
      <3>1. CASE p = q
        <4>1. c \in Conns /\ conns[c].session = s
          BY <1>1, <1>2, <1>5, <2>1, <3>1 DEF CodexInv, ConnOK, ConnOf
        <4> QED  BY <1>1, <1>3, <1>4, <3>1, <4>1
      <3>2. CASE p # q
        BY <1>6, <1>7, <1>10, <2>1, <3>2, MineStays
      <3> QED  BY <3>1, <3>2
    <2> QED  BY <2>1 DEF MineOK
  <1>15. ASSUME NEW p \in Requests, c # 0, Reads(conns[c]), Coming(conns[c], p), p # q
         PROVE  Left(c, q)
    <2>1. c \in Conns /\ conns[c].session = s
      BY <1>1, <1>2, <1>15 DEF CodexInv, ConnOK, ConnOf
    <2>2. Begun(requests[p]) /\ requests[p].conn = c /\ requests[p].session = s
      BY <1>7, <1>15, <2>1 DEF ComeOK
    <2>3. Over(requests[p])
      <3>1. ~Holds(requests[p])
        <4>1. Holds(requests[q]) /\ requests[q].session = s
          BY <1>1, <1>2 DEF Holds
        <4> QED  BY <1>2, <1>15, <2>2, <4>1 DEF CodexInv, MutexOK, MutexOf
      <3> QED  BY <2>2, <3>1 DEF Begun, Over, Holds
    <2>4. p < q
      <3>1. requests[p].used
        BY <2>2 DEF CodexInv, NumbersOK, RequestNo, Begun
      <3>2. ~(q < p)
        BY <1>1, <1>5, <1>7, <3>1 DEF SeqOK
      <3> QED  BY <1>15, <3>2, CodexAssumption DEF Requests
    <2>5. Broke(requests[p]) \/ Left(c, p)
      BY <1>7, <1>15, <2>1, <2>3 DEF LeftOK
    <2>6. CASE Broke(requests[p])
      BY <2>2, <2>4, <2>6 DEF Left
    <2>7. CASE Left(c, p)
      <3>1. PICK t \in Requests : t < p /\ requests[t].conn = c /\ Broke(requests[t])
        BY <2>7 DEF Left
      <3>2. t < q
        BY <2>4, <3>1, CodexAssumption DEF Requests
      <3> QED  BY <3>1, <3>2 DEF Left
    <2> QED  BY <2>5, <2>6, <2>7
  <1>16. NextOK'
    <2>1. ASSUME NEW e \in Conns, NEW p \in Requests, NEW t \in Requests PROVE NextOf(e, p, t)'
      <3>1. CASE t = q
        <4> SUFFICES ASSUME Reads(conns'[e]), Coming(conns'[e], p), p # q, Past(requests'[q]),
                            requests'[q].conn = e
                     PROVE  Left(e, q)'
          BY <3>1 DEF NextOf
        <4>1. e = c /\ c # 0
          BY <1>1, <1>4, <1>5
        <4>2. Left(e, q)
          BY <1>3, <1>15, <4>1
        <4> QED  BY <1>7, <1>10, <4>2, LeftStays
      <3>2. CASE t # q
        BY <1>6, <1>7, <1>10, <3>2, NextStays
      <3> QED  BY <3>1, <3>2
    <2> QED  BY <2>1 DEF NextOK
  <1> QED
    BY <1>9, <1>11, <1>12, <1>13, <1>14, <1>16 DEF AnswerInv

\* A new connection has nothing on its way.
LEMMA DialSucceedsAnswers ==
    ASSUME CodexInv, AnswerInv, NEW q \in Requests, DialSucceeds(q)
    PROVE  AnswerInv'
  <1>1. PICK r, x, s, c : /\ r = requests[q] /\ x = requests'[q] /\ s = r.session
                          /\ c = Next1(conns)
    OBVIOUS
  <1>2. /\ r \in RequestRec /\ r.pc = "dial" /\ s \in Sessions /\ sessions[s].conn = 0
        /\ r.retry \in BOOLEAN
    <2>1. r \in RequestRec /\ r.pc = "dial" /\ s \in Sessions
      BY <1>1, RecordsTyped DEF DialSucceeds
    <2>2. r.retry \in BOOLEAN /\ MutexOf(q, s)
      BY <1>1, <2>1, FieldsTyped DEF CodexInv, MutexOK
    <2> QED  BY <1>1, <2>1, <2>2 DEF MutexOf
  <1>3. c \in Conns /\ ~conns[c].used
    <2>1. /\ c # 0 /\ DOMAIN conns = 1 .. MaxConns /\ MaxConns \in Nat
          /\ \A d \in Conns : conns[d].used \in BOOLEAN
      BY <1>1, CodexAssumption, RecordsTyped, FieldsTyped DEF DialSucceeds, Conns
    <2> QED  BY <1>1, <2>1, NextNumber DEF CodexInv, InTurn, Conns
  <1>4. /\ x = [r EXCEPT !.conn = c, !.pc = IF r.retry THEN "send" ELSE "activate"]
        /\ \A p \in Requests : p # q => requests'[p] = requests[p]
        /\ sessions' = [sessions EXCEPT ![s].conn = c, ![s].auth = r.auth]
        /\ foreign' = foreign
    BY <1>1, RecordsTyped DEF DialSucceeds
  <1>5. /\ x.used = r.used /\ x.session = r.session /\ x.conn = c /\ x.gone = r.gone
        /\ x.outcome = r.outcome /\ x.buf = r.buf /\ x.retry = r.retry
        /\ x.pc = (IF r.retry THEN "send" ELSE "activate")
    BY <1>2, <1>4 DEF RequestRec
  <1>6. PICK d, y : d = conns[c] /\ y = conns'[c]
    OBVIOUS
  <1>7. /\ d \in ConnRec
        /\ y = [d EXCEPT !.used = TRUE, !.state = "open", !.session = s, !.reader = "read"]
        /\ \A e \in Conns : e # c => conns'[e] = conns[e]
    BY <1>1, <1>3, <1>6, RecordsTyped DEF DialSucceeds
  <1>8. /\ y.session = s /\ y.reader = "read" /\ y.state = "open"
        /\ y.asked = d.asked /\ y.wire = d.wire
    BY <1>7 DEF ConnRec
  <1>9. /\ \A t \in Sessions : t # s => sessions'[t] = sessions[t]
        /\ sessions'[s].conn = c
    BY <1>2, <1>4, RecordsTyped DEF SessionRec
  <1>10. /\ BrokeOK /\ SeqOK /\ UseOK /\ MineOK /\ ComeOK /\ WireOK
         /\ HeldOK /\ HeardOK /\ LeftOK /\ NextOK
    BY DEF AnswerInv
  <1>11. \A p \in Requests : ~Coming(d, p) /\ ~Coming(y, p)
    <2>1. ~Live(d)
      BY <1>3, <1>6 DEF CodexInv, NumbersOK, ConnNo, Live
    <2>2. \A p \in Requests : ~Coming(d, p)
      BY <1>3, <1>6, <1>10, <2>1 DEF ComeOK
    <2> QED  BY <1>8, <2>2 DEF Coming
  <1>12. /\ ~Over(r) /\ ~Broke(r) /\ ~Broke(x) /\ ~Over(x) /\ ~Begun(r) /\ ~Begun(x)
         /\ (Before(x) => Before(r))
    BY <1>1, <1>2, <1>5, BrokeIsOver DEF Over, Broke, Begun, Before
  <1>13. ASSUME NEW p \in Requests
         PROVE  /\ Goes(requests[p], requests'[p]) /\ Hears(requests[p], requests'[p])
                /\ p # q => Remains(requests[p], requests'[p])
                /\ Over(requests'[p]) => Over(requests[p])
                /\ Before(requests'[p]) => Before(requests[p])
                /\ requests'[p].used = requests[p].used /\ requests'[p].gone = requests[p].gone
    <2>1. CASE p = q
      <3>1. Goes(r, x) /\ Hears(r, x)
        BY <1>5, <1>12 DEF Goes, Hears
      <3> QED  BY <1>1, <1>5, <1>12, <2>1, <3>1
    <2>2. CASE p # q
      BY <1>4, <2>2, BrokeIsOver DEF Goes, Remains, Hears
    <2> QED  BY <2>1, <2>2
  <1>14. AllGo /\ AllRun /\ NoneCome /\ Moves
    <2>1. AllGo
      BY <1>13 DEF AllGo
    <2>2. AllRun
      BY <1>3, <1>7 DEF AllRun, Runs
    <2>3. ASSUME NEW e \in Conns PROVE Comes(conns[e], conns'[e])
      <3>1. CASE e = c
        BY <1>6, <1>11, <3>1 DEF Comes
      <3>2. CASE e # c
        BY <1>7, <1>10, <3>2 DEF Comes, ComeOK
      <3> QED  BY <3>1, <3>2
    <2>4. ASSUME NEW p \in Requests
          PROVE  /\ Before(requests'[p]) => Before(requests[p])
                 /\ requests'[p].conn # requests[p].conn => ~conns[requests'[p].conn].used
      <3>1. CASE p = q
        BY <1>1, <1>3, <1>5, <1>13, <3>1
      <3>2. CASE p # q
        BY <1>4, <1>13, <3>2
      <3> QED  BY <3>1, <3>2
    <2> QED  BY <2>1, <2>2, <2>3, <2>4 DEF NoneCome, Moves
  <1>15. (BrokeOK /\ ComeOK /\ LeftOK /\ ForeignOK)' /\ foreign' \subseteq Requests /\ FewCome
    BY <1>4, <1>13, <1>14, BasicsKeep DEF Basics
  <1>16. SeqOK'
    BY <1>10, <1>13, <1>14, SeqStays
  <1>17. WireOK'
    <2>1. WireOf(d) => WireOf(y)
      BY <1>8 DEF WireOf
    <2>2. ASSUME NEW e \in Conns PROVE WireOf(conns'[e])
      BY <1>6, <1>7, <1>10, <2>1 DEF WireOK
    <2> QED  BY <2>2 DEF WireOK
  <1>18. UseOK'
    <2>1. ASSUME NEW e \in Conns, Live(conns'[e]) PROVE sessions'[conns'[e].session].conn = e
      <3>1. CASE e = c
        BY <1>6, <1>8, <1>9, <3>1
      <3>2. CASE e # c
        <4>1. conns'[e] = conns[e] /\ sessions[conns[e].session].conn = e
          BY <1>7, <1>10, <2>1, <3>2 DEF UseOK
        <4>2. conns[e].session \in Sessions
          BY <2>1, <4>1, RecordsTyped DEF Live, CodexInv, NumbersOK, ConnNo
        <4>3. conns[e].session # s
          BY <1>2, <2>1, <4>1, FieldsTyped
        <4> QED  BY <1>9, <4>1, <4>2, <4>3
      <3> QED  BY <3>1, <3>2
    <2> QED  BY <2>1 DEF UseOK
  <1>19. HeldOK'
    <2>1. \A e \in Conns : Keeps(conns[e], conns'[e])
      BY <1>6, <1>7, <1>8 DEF Keeps
    <2> QED  BY <1>10, <1>14, <1>15, <2>1, HeldStays DEF HeldOK, Keeps
  <1>20. HeardOK'
    BY <1>10, <1>13, <1>14, <1>15, HeardAllStays DEF HeardOK
  <1>21. MineOK'
    <2>1. ASSUME NEW p \in Requests, Past(requests'[p])
          PROVE  /\ requests'[p].conn \in Conns
                 /\ conns'[requests'[p].conn].session = requests'[p].session
      <3>1. CASE p = q
        BY <1>1, <1>3, <1>5, <1>6, <1>8, <3>1
      <3>2. CASE p # q
        BY <1>10, <1>13, <1>14, <2>1, <3>2, MineStays
      <3> QED  BY <3>1, <3>2
    <2> QED  BY <2>1 DEF MineOK
  <1>22. NextOK'
    <2>1. ASSUME NEW e \in Conns, NEW p \in Requests, NEW t \in Requests PROVE NextOf(e, p, t)'
      <3>1. CASE t = q
        BY <1>1, <1>5, <1>6, <1>11, <3>1 DEF NextOf
      <3>2. CASE t # q
        BY <1>10, <1>13, <1>14, <3>2, NextStays
      <3> QED  BY <3>1, <3>2
    <2> QED  BY <2>1 DEF NextOK
  <1> QED
    BY <1>15, <1>16, <1>17, <1>18, <1>19, <1>20, <1>21, <1>22 DEF AnswerInv

-----------------------------------------------------------------------------
(* The invariant holds, and what it says of the events of others. *)

LEMMA AnswerInitInv == CodexInit => AnswerInv
  <1> SUFFICES ASSUME CodexInit PROVE AnswerInv
    OBVIOUS
  <1>1. /\ \A q \in Requests : /\ ~requests[q].used /\ requests[q].pc = "idle"
                               /\ requests[q].outcome = "none" /\ requests[q].buf = <<>>
        /\ \A c \in Conns : /\ conns[c].state = "none" /\ conns[c].reader = "off"
                            /\ conns[c].asked = <<>> /\ conns[c].wire = <<>>
        /\ foreign = {}
    BY DEF CodexInit
  <1>2. BrokeOK /\ SeqOK /\ MineOK /\ LeftOK /\ NextOK /\ ForeignOK
    BY <1>1 DEF BrokeOK, SeqOK, MineOK, LeftOK, NextOK, NextOf, ForeignOK, Broke, Past, Reads
  <1>3. UseOK /\ ComeOK /\ WireOK /\ HeldOK /\ HeardOK
    BY <1>1 DEF UseOK, ComeOK, WireOK, WireOf, HeldOK, HeardOK, Live, Coming
  <1> QED
    BY <1>1, <1>2, <1>3 DEF AnswerInv

LEMMA SendAnswers ==
    ASSUME CodexInv, AnswerInv, NEW q \in Requests, Send(q)
    PROVE  AnswerInv'
  <1>1. CASE Asks(q)
    BY <1>1, AsksAnswers
  <1>2. CASE SendFails(q)
    BY <1>2, SendFailsAnswers
  <1> QED
    BY <1>1, <1>2 DEF Send, Asks, SendFails, historyVars

LEMMA RequestAnswers ==
    ASSUME CodexInv, AnswerInv, NEW q \in Requests, RequestStep(q)
    PROVE  AnswerInv'
  <1>1. CASE Lock(q) \/ Ensure(q) \/ DialSucceeds(q) \/ DialFails(q) \/ DialRefused(q)
    BY <1>1, LockAnswers, EnsureAnswers, DialSucceedsAnswers, DialFailsAnswers,
       DialRefusedAnswers
  <1>2. CASE Activate(q) \/ Send(q) \/ SendAgain(q) \/ Read(q)
    BY <1>2, ActivateAnswers, SendAnswers, SendAgainAnswers, ReadAnswers
  <1>3. CASE ReadClosed(q) \/ ReadCanceled(q) \/ GiveUp(q) \/ Leave(q)
    BY <1>3, LeavesReadingAnswers, GiveUpAnswers, LeaveAnswers
  <1> QED
    BY <1>1, <1>2, <1>3 DEF RequestStep

LEMMA ReaderAnswers ==
    ASSUME CodexInv, AnswerInv, NEW c \in Conns, ReaderStep(c) \/ Answers(c) \/ Breaks(c)
    PROVE  AnswerInv'
  <1>1. CASE ReadMessage(c) \/ Deliver(c) \/ ReadFails(c) \/ TellLost(c)
    BY <1>1, ReadMessageAnswers, DeliverAnswers, ReadFailsAnswers, TellLostAnswers
  <1>2. CASE ShutChannel(c) \/ ReaderLeaves(c) \/ Answers(c) \/ Breaks(c) \/ IdleTimeout(c)
    BY <1>2, ShutChannelAnswers, ReaderLeavesAnswers, AnswersAnswers, BreaksAnswers
       DEF IdleTimeout
  <1> QED
    BY <1>1, <1>2 DEF ReaderStep

LEMMA AnswerNextInv == CodexInv /\ AnswerInv /\ [CodexNext]_codexVars => AnswerInv'
  <1> SUFFICES ASSUME CodexInv, AnswerInv, [CodexNext]_codexVars PROVE AnswerInv'
    OBVIOUS
  <1>1. ASSUME NEW q \in Requests,
               RequestStep(q) \/ Cancel(q) \/ \E a \in Auths : Enter(q, a)
        PROVE  AnswerInv'
    BY <1>1, RequestAnswers, CancelAnswers, EnterAnswers
  <1>2. ASSUME NEW c \in Conns, ReaderStep(c) \/ Answers(c) \/ Breaks(c)
        PROVE  AnswerInv'
    BY <1>2, ReaderAnswers
  <1>3. CASE HangUp \/ Unstore \/ \E a \in Auths : Match(a)
    BY <1>3, OutsideAnswers DEF HangUp, Unstore, Match, historyVars
  <1>4. CASE \E k \in Closers : CloseSession(k)
    BY <1>4, CloseSessionAnswers
  <1>5. CASE UNCHANGED codexVars
    BY <1>5, OutsideAnswers DEF codexVars, historyVars
  <1> QED
    BY <1>1, <1>2, <1>3, <1>4, <1>5 DEF CodexNext

\* A request is given the events of its own response only, unless an earlier one
\* was let go in the middle of its response and left the rest on the connection:
\* nothing else hands an event to the channel of another.
THEOREM OwnAnswers == CodexSpec => []OwnAnswer
  <1>1. CodexInit => CodexInv /\ AnswerInv
    BY CodexInitInv, AnswerInitInv
  <1>2. CodexInv /\ AnswerInv /\ [CodexNext]_codexVars => (CodexInv /\ AnswerInv)'
    BY CodexNextInv, AnswerNextInv
  <1>3. AnswerInv => OwnAnswer
    BY DEF AnswerInv, ForeignOK, Left, Broke, OwnAnswer
  <1> QED
    BY <1>1, <1>2, <1>3, PTL DEF CodexSpec

=============================================================================
