------------------------------ MODULE WsRelay ------------------------------
(***************************************************************************)
(* The relay of requests over websockets: connections come and replace one *)
(* another under a name, are lost or stopped; requests wait in a map of    *)
(* their session, each with a channel of bounded size, for messages the    *)
(* session's reader passes on without ever blocking.  A channel is closed  *)
(* by the reader, by the cleanup of the session or when the request's      *)
(* context is done.  The service is told who is connected and announces    *)
(* credentials accordingly.                                                *)
(***************************************************************************)
EXTENDS Integers, Sequences, SequencesExt, FiniteSets

CONSTANTS Sessions,   \* connections, each used once
          Names,      \* providers
          NameOf,     \* the provider of each connection
          Requests,
          Whole,      \* the requests made by NonStream; the others by Stream
          Losable,    \* connections that may be lost
          Cancelable, \* requests whose context may be done before they end
          Capacity,   \* of a request's channel
          MaxChunks,  \* bound: messages of an answer before its last one
          Nobody

ASSUME RelayAssumption ==
    /\ NameOf \in [Sessions -> Names]
    /\ Whole \subseteq Requests /\ Cancelable \subseteq Requests /\ Losable \subseteq Sessions
    /\ Capacity \in Nat \ {0} /\ MaxChunks \in Nat
    /\ Nobody \notin Sessions \cup Requests

VARIABLES pool,       \* Manager.sessions
          session,    \* each session with the goroutines that serve it
          stopping,   \* the sessions Stop has still to clean up
          stopped,    \* whether Stop was called
          req,        \* each request with its channel and goroutines
          dropped,    \* history: requests that lost a message to a full channel
          announced,  \* the last update of the credential the service emitted
          applied,    \* the credential the manager has
          raced,      \* history: names announced beside a connection's end
          crashed     \* a goroutine sent to a closed channel

tellVars == <<announced, applied, raced>>
relayVars == <<pool, session, stopping, stopped, req, dropped, tellVars, crashed>>

\* The parts of an answer are numbered from 1; these come last.
EndMessage == 0
ErrorMessage == -1
Terminal == {EndMessage, ErrorMessage}

Open == [handler |-> "new", old |-> Nobody, closing |-> "no", cause |-> "none",
         left |-> {}, at |-> Nobody, pending |-> {}, reader |-> "idle",
         held |-> Nobody, msg |-> EndMessage]

Asking == [pc |-> "idle", to |-> Nobody, buf |-> <<>>, shut |-> FALSE, done |-> FALSE,
           watched |-> FALSE, sent |-> 0, over |-> FALSE, got |-> <<>>, outcome |-> "none"]

Closed(s) == session[s].closing # "no"

-----------------------------------------------------------------------------
(* Channels of requests. *)

\* A message that finds the channel full is dropped.
Pushed(r, m) == IF Len(r.buf) < Capacity THEN [r EXCEPT !.buf = Append(@, m)] ELSE r

Lost(q) == IF Len(req[q].buf) < Capacity THEN dropped ELSE dropped \cup {q}

Shut(r) == [r EXCEPT !.shut = TRUE]

\* LoadAndDelete and close.
Withdrawn(ss, s, q) == [ss EXCEPT ![s].pending = @ \ {q}]
ShutIfPending(r, s, q) == IF q \in session[s].pending THEN Shut(r) ELSE r

-----------------------------------------------------------------------------
(* cleanup: once; a second caller waits for the end of the first. *)

Closing(s, why) ==
    session' = [session EXCEPT ![s].closing = "range", ![s].cause = why,
                               ![s].left = session[s].pending]

\* Range comes to an entry that is still there ...
Visit(s, q) ==
    /\ session[s].closing = "range" /\ session[s].at = Nobody /\ q \in session[s].left
    /\ session' = [session EXCEPT ![s].left = @ \ {q},
                                  ![s].at = IF q \in session[s].pending THEN q ELSE Nobody]
    /\ UNCHANGED <<pool, stopping, stopped, req, dropped, tellVars, crashed>>

\* Mutant: closed without an error.
MutantFail(s) ==
    /\ session[s].at # Nobody
    /\ LET q == session[s].at IN
       /\ crashed' = req[q].shut
       /\ req' = [req EXCEPT ![q] = Shut(@)]
       /\ dropped' = dropped
    /\ session' = [session EXCEPT ![s].at = Nobody]
    /\ UNCHANGED <<pool, stopping, stopped, tellVars>>

\* ... sends it an error, if its channel has room, and closes the channel; a
\* channel that was closed meanwhile is fatal.
Fail(s) ==
    /\ session[s].at # Nobody
    /\ LET q == session[s].at IN
       /\ crashed' = req[q].shut
       /\ req' = [req EXCEPT ![q] = Shut(Pushed(@, ErrorMessage))]
       /\ dropped' = Lost(q)
    /\ session' = [session EXCEPT ![s].at = Nobody]
    /\ UNCHANGED <<pool, stopping, stopped, tellVars>>

\* Mutant: the map is emptied first.
MutantEmptyMap(s) ==
    /\ session[s].closing = "range" /\ session[s].at = Nobody
    /\ session' = [session EXCEPT ![s].pending = {}, ![s].closing = "leave", ![s].left = {}]
    /\ UNCHANGED <<pool, stopping, stopped, req, dropped, tellVars, crashed>>

\* A new map; the connection is closed.
EmptyMap(s) ==
    /\ session[s].closing = "range" /\ session[s].at = Nobody /\ session[s].left = {}
    /\ session' = [session EXCEPT ![s].pending = {}, ![s].closing = "leave"]
    /\ UNCHANGED <<pool, stopping, stopped, req, dropped, tellVars, crashed>>

\* Mutant: whoever has the name.
MutantLeave(s) ==
    /\ session[s].closing = "leave"
    /\ pool' = [pool EXCEPT ![NameOf[s]] = Nobody]
    /\ session' = [session EXCEPT ![s].closing = "notify"]
    /\ UNCHANGED <<stopping, stopped, req, dropped, tellVars, crashed>>

\* handleSessionClosed: out of the pool, unless another has the name by now.
Leave(s) ==
    /\ session[s].closing = "leave"
    /\ pool' = [pool EXCEPT ![NameOf[s]] = IF @ = s THEN Nobody ELSE @]
    /\ session' = [session EXCEPT ![s].closing = "notify"]
    /\ UNCHANGED <<stopping, stopped, req, dropped, tellVars, crashed>>

\* Mutant: nor is a stopped one.
MutantDisconnected(s) ==
    /\ session[s].closing = "notify"
    /\ announced' = IF session[s].cause # "lost" THEN announced
                    ELSE [announced EXCEPT ![NameOf[s]] = FALSE]
    /\ session' = [session EXCEPT ![s].closing = "done"]
    /\ UNCHANGED <<pool, stopping, stopped, req, dropped, applied, raced, crashed>>

\* wsOnDisconnected: a replaced connection is no news.
Disconnected(s) ==
    /\ session[s].closing = "notify"
    /\ announced' = IF session[s].cause = "replaced" THEN announced
                    ELSE [announced EXCEPT ![NameOf[s]] = FALSE]
    /\ session' = [session EXCEPT ![s].closing = "done"]
    /\ UNCHANGED <<pool, stopping, stopped, req, dropped, applied, raced, crashed>>

-----------------------------------------------------------------------------
(* Connections. *)

\* handleWebsocket: into the pool ...
Register(s) ==
    /\ session[s].handler = "new"
    /\ pool' = [pool EXCEPT ![NameOf[s]] = s]
    /\ session' = [session EXCEPT ![s].handler = "replace", ![s].old = pool[NameOf[s]]]
    /\ UNCHANGED <<stopping, stopped, req, dropped, tellVars, crashed>>

\* ... cleans up the one it replaced ...
Replace(s) ==
    /\ session[s].handler = "replace" /\ session[s].old # Nobody
    /\ ~Closed(session[s].old)
    /\ Closing(session[s].old, "replaced")
    /\ UNCHANGED <<pool, stopping, stopped, req, dropped, tellVars, crashed>>

Replaced(s) ==
    /\ session[s].handler = "replace"
    /\ \A t \in Sessions : session[s].old = t => session[t].closing = "done"
    /\ session' = [session EXCEPT ![s].handler = "announce"]
    /\ UNCHANGED <<pool, stopping, stopped, req, dropped, tellVars, crashed>>

\* ... tells the service, wsOnConnected: nothing to do if the manager has the
\* credential ... and then reads.
Connected(s) ==
    /\ session[s].handler = "announce"
    /\ LET n == NameOf[s] IN
       /\ announced' = [announced EXCEPT ![n] = IF applied[n] THEN @ ELSE TRUE]
       /\ raced' = IF \/ announced[n] # applied[n]
                      \/ \E t \in Sessions :
                            /\ NameOf[t] = n
                            /\ t \in stopping \/ session[t].closing \notin {"no", "done"}
                      \/ Closed(s)
                     THEN raced \cup {n} ELSE raced
    /\ session' = [session EXCEPT ![s].handler = "run"]
    /\ UNCHANGED <<pool, stopping, stopped, req, dropped, applied, crashed>>

\* The watcher's queue hands the update over, the service applies it.
Apply(n) ==
    /\ applied[n] # announced[n]
    /\ applied' = [applied EXCEPT ![n] = announced[n]]
    /\ UNCHANGED <<pool, session, stopping, stopped, req, dropped, announced, raced, crashed>>

\* A read or a heartbeat fails.
Lose(s) ==
    /\ s \in Losable /\ session[s].handler # "new" /\ ~Closed(s)
    /\ Closing(s, "lost")
    /\ UNCHANGED <<pool, stopping, stopped, req, dropped, tellVars, crashed>>

\* Stop empties the pool, then cleans up.
Stop ==
    /\ ~stopped /\ stopped' = TRUE
    /\ stopping' = {pool[n] : n \in Names} \ {Nobody}
    /\ pool' = [n \in Names |-> Nobody]
    /\ UNCHANGED <<session, req, dropped, tellVars, crashed>>

StopCloses(s) ==
    /\ s \in stopping
    /\ stopping' = stopping \ {s}
    /\ IF Closed(s) THEN UNCHANGED session ELSE Closing(s, "stopped")
    /\ UNCHANGED <<pool, stopped, req, dropped, tellVars, crashed>>

-----------------------------------------------------------------------------
(* Requests: Manager.Send, NonStream, Stream. *)

Find(q, n) ==
    /\ req[q].pc = "idle"
    /\ req' = [req EXCEPT ![q].to = pool[n],
                          ![q].pc = IF pool[n] = Nobody THEN "refused" ELSE "store"]
    /\ UNCHANGED <<pool, session, stopping, stopped, dropped, tellVars, crashed>>

\* A Range that is under way may come to the entry or not.
Store(q) ==
    /\ req[q].pc = "store"
    /\ LET s == req[q].to IN
       \E seen \in IF session[s].closing = "range" THEN {{}, {q}} ELSE {{}} :
          session' = [session EXCEPT ![s].pending = @ \cup {q}, ![s].left = @ \cup seen]
    /\ req' = [req EXCEPT ![q].pc = "load"]
    /\ UNCHANGED <<pool, stopping, stopped, dropped, tellVars, crashed>>

\* The entry is loaded again: if the map is a new one, the request panics.
Load(q) ==
    /\ req[q].pc = "load"
    /\ req' = [req EXCEPT ![q].pc = IF q \in session[req[q].to].pending THEN "send"
                                                                        ELSE "panicked"]
    /\ UNCHANGED <<pool, session, stopping, stopped, dropped, tellVars, crashed>>

\* Written, and a goroutine waits for the context or the session to end ...
Send(q) ==
    /\ req[q].pc = "send" /\ ~Closed(req[q].to)
    /\ req' = [req EXCEPT ![q].pc = "await", ![q].watched = TRUE]
    /\ UNCHANGED <<pool, session, stopping, stopped, dropped, tellVars, crashed>>

\* ... or not: the session is closed or the write fails.
SendFails(q) ==
    /\ req[q].pc = "send" /\ (Closed(req[q].to) \/ req[q].to \in Losable)
    /\ req' = [req EXCEPT ![q] = [ShutIfPending(@, @.to, q) EXCEPT !.pc = "refused"]]
    /\ session' = Withdrawn(session, req[q].to, q)
    /\ UNCHANGED <<pool, stopping, stopped, dropped, tellVars, crashed>>

\* The client leaves, or the request was answered.
ContextDone(q) ==
    /\ ~req[q].done
    /\ req[q].pc = "ended" \/ (req[q].pc = "await" /\ q \in Cancelable)
    /\ req' = [req EXCEPT ![q].done = TRUE]
    /\ UNCHANGED <<pool, session, stopping, stopped, dropped, tellVars, crashed>>

WatchEnds(q) ==
    /\ req[q].watched
    /\ \/ /\ req[q].done
          /\ req' = [req EXCEPT ![q] = [ShutIfPending(@, @.to, q) EXCEPT !.watched = FALSE]]
          /\ session' = Withdrawn(session, req[q].to, q)
       \/ /\ Closed(req[q].to)
          /\ req' = [req EXCEPT ![q].watched = FALSE]
          /\ UNCHANGED session
    /\ UNCHANGED <<pool, stopping, stopped, dropped, tellVars, crashed>>

End(q, outcome) == req' = [req EXCEPT ![q].pc = "ended", ![q].outcome = outcome]

\* The loops of NonStream and Stream.  When the channel is closed, NonStream takes
\* what it has for the answer, if it has anything.
Consume(q) ==
    /\ req[q].pc = "await"
    /\ \/ req[q].done /\ End(q, "canceled")
       \/ /\ req[q].buf # <<>>
          /\ LET m == Head(req[q].buf)
                 r == [req[q] EXCEPT !.buf = Tail(@)]
             IN  req' = [req EXCEPT ![q] =
                    CASE m = EndMessage   -> [r EXCEPT !.pc = "ended", !.outcome = "answer"]
                      [] m = ErrorMessage -> [r EXCEPT !.pc = "ended", !.outcome = "error"]
                      [] OTHER            -> [r EXCEPT !.got = Append(@, m)]]
       \/ /\ req[q].buf = <<>> /\ req[q].shut
          /\ End(q, IF q \in Whole /\ req[q].got # <<>> THEN "answer" ELSE "error")
    /\ UNCHANGED <<pool, session, stopping, stopped, dropped, tellVars, crashed>>

-----------------------------------------------------------------------------
(* The reader of a session, run and dispatch.  The other side sends the parts *)
(* of an answer and then an end or an error; an http_response is an end with *)
(* all there is.                                                            *)

\* A message of an unknown request is ignored.
Read(s, q, m) ==
    /\ session[s].handler = "run" /\ session[s].reader = "idle"
    /\ session[s].closing \in {"no", "range"}
    /\ req[q].to = s /\ req[q].pc \in {"await", "ended"} /\ ~req[q].over
    /\ m \in Terminal \/ m = req[q].sent + 1
    /\ req' = IF m \in Terminal THEN [req EXCEPT ![q].over = TRUE]
                                       ELSE [req EXCEPT ![q].sent = m]
    /\ session' = IF q \in session[s].pending
                    THEN [session EXCEPT ![s].reader = "deliver", ![s].held = q, ![s].msg = m]
                    ELSE session
    /\ UNCHANGED <<pool, stopping, stopped, dropped, tellVars, crashed>>

\* Passed on if there is room; a channel closed since the entry was found is fatal.
Deliver(s) ==
    /\ session[s].reader = "deliver"
    /\ LET q == session[s].held
           m == session[s].msg
       IN  /\ crashed' = req[q].shut
           /\ req' = IF req[q].shut THEN req ELSE [req EXCEPT ![q] = Pushed(@, m)]
           /\ dropped' = Lost(q)
           /\ session' = [session EXCEPT ![s].reader =
                             IF m \in Terminal THEN "finish" ELSE "idle"]
    /\ UNCHANGED <<pool, stopping, stopped, tellVars>>

\* After the last message.
Finish(s) ==
    /\ session[s].reader = "finish"
    /\ LET q == session[s].held IN
       /\ req' = [req EXCEPT ![q] = ShutIfPending(@, s, q)]
       /\ session' = [Withdrawn(session, s, q) EXCEPT ![s].reader = "idle"]
    /\ UNCHANGED <<pool, stopping, stopped, dropped, tellVars, crashed>>

-----------------------------------------------------------------------------
(* The specification. *)

RelayInit ==
    /\ pool = [n \in Names |-> Nobody]
    /\ session = [s \in Sessions |-> Open]
    /\ stopping = {} /\ stopped = FALSE
    /\ req = [q \in Requests |-> Asking]
    /\ dropped = {}
    /\ announced = [n \in Names |-> FALSE] /\ applied = [n \in Names |-> FALSE]
    /\ raced = {}
    /\ crashed = FALSE

\* What goroutines do once they are under way.
RelayStep ==
    \/ \E s \in Sessions :
          \/ \E q \in Requests : Visit(s, q)
          \/ Fail(s) \/ EmptyMap(s) \/ Leave(s) \/ Disconnected(s)
          \/ Replace(s) \/ Replaced(s) \/ Connected(s)
          \/ StopCloses(s) \/ Deliver(s) \/ Finish(s)
    \/ \E n \in Names : Apply(n)
    \/ \E q \in Requests :
          \/ Store(q) \/ Load(q) \/ Send(q) \/ SendFails(q) \/ WatchEnds(q) \/ Consume(q)

\* What others decide.
RelayEvent ==
    \/ Stop
    \/ \E s \in Sessions : Register(s) \/ Lose(s)
    \/ \E q \in Requests :
          \/ ContextDone(q)
          \/ \E n \in Names : Find(q, n)
          \/ \E s \in Sessions, m \in Terminal \cup 1 .. MaxChunks : Read(s, q, m)

\* A send to a closed channel ends the process.
RelayNext == ~crashed /\ (RelayStep \/ RelayEvent)

\* The scheduler lets every goroutine go on.
RelayFairness == WF_relayVars(RelayStep /\ ~crashed)

RelaySpec == RelayInit /\ [][RelayNext]_relayVars /\ RelayFairness

-----------------------------------------------------------------------------
(* Properties. *)

Chunks == 1 .. MaxChunks

\* A request is answered with all the other side sent up to its end, in order,
\* unless a message was dropped for want of room or the client had left:
\* whenever the session is lost, replaced or stopped.
WholeUnlessDropped ==
    \A q \in Requests :
        req[q].outcome = "answer" =>
            \/ req[q].over /\ req[q].got = [i \in 1 .. req[q].sent |-> i]
            \/ q \in dropped \/ req[q].done

\* A request whose answer is over, whose client has left or whose session is
\* closed does not wait for ever.
NobodyWaitsForever ==
    \A q \in Requests :
        (req[q].pc = "await" /\ (req[q].over \/ req[q].done \/ Closed(req[q].to)))
           ~> (req[q].pc # "await" \/ crashed)

\* A connection that is served, and was neither replaced nor stopped, is found
\* under its name, whatever becomes of those that had the name before.
ServedIsFound ==
    \A s \in Sessions :
        session[s].handler # "new" /\ ~Closed(s) =>
            \/ pool[NameOf[s]] = s
            \/ s \in stopping
            \/ \E t \in Sessions : session[t].handler = "replace" /\ session[t].old = s

AtRest(n) ==
    /\ announced[n] = applied[n] /\ stopping = {}
    /\ \A s \in Sessions : NameOf[s] = n =>
          session[s].handler \in {"new", "run"} /\ session[s].closing \in {"no", "done"}

\* When all is at rest, the manager has a credential exactly for a name that has a
\* connection, unless that was announced beside the end of another or before an
\* earlier update was applied.
CredentialFollowsConnection ==
    \A n \in Names \ raced : AtRest(n) => (applied[n] <=> pool[n] # Nobody)
=============================================================================
