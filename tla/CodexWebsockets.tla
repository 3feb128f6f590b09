-------------------------- MODULE CodexWebsockets --------------------------
(***************************************************************************)
(* The websocket executor: the requests of one downstream websocket, one   *)
(* after the other, share an upstream connection that a reader goroutine   *)
(* reads.  The reader hands what it reads to the channel that is active at *)
(* that time.  A session may be closed when the downstream ends, or when   *)
(* its credential is removed.  Every mutex is held for one step only, but  *)
(* for reqMu, which a request keeps to its end.                            *)
(***************************************************************************)
EXTENDS Integers, Sequences, FiniteSets

CONSTANTS MaxRequests, MaxConns, MaxSessions,  \* bounds: numbered as they come
          Auths,
          Capacity,                            \* of the channel of a request
          MaxEvents                            \* bound: events of a response, one on its way

ASSUME CodexAssumption ==
    /\ MaxRequests \in Nat \ {0} /\ MaxConns \in Nat /\ MaxSessions \in Nat \ {0}
    /\ Capacity \in Nat \ {0} /\ MaxEvents \in Nat \ {0}

Requests == 1 .. MaxRequests
Conns == 1 .. MaxConns
Sessions == 1 .. MaxSessions
Closers == {"downstream", "removal"}

VARIABLES store,     \* the session of the downstream in the store, or 0
          sessions,  \* conn, authID, activeCh (its request), and who holds reqMu
          conns,     \* upstream connections, what is on their way, and their readers
          requests,
          closers,
          crashed,   \* a panic on a closed channel
          hungUp     \* the downstream has ended

VARIABLES foreign,   \* history: requests given an event of another
          shadowed,  \* history: requests active beside the reader of a dead connection
          unheard,   \* history: requests sent when the reader had looked and found nobody
          late       \* history: sessions that got a connection after they were closed

historyVars == <<foreign, shadowed, unheard, late>>
codexVars == <<store, sessions, conns, requests, closers, crashed, hungUp, historyVars>>

Used(T) == {t \in DOMAIN T : T[t].used}
Next1(T) == IF Used(T) = DOMAIN T THEN 0 ELSE Cardinality(Used(T)) + 1

Nothing == [kind |-> "none", of |-> 0]

InGoroutine(q) == requests[q].pc \in {"read", "giveUp", "leave", "ended"}
Ended(q) == requests[q].pc = "ended"
Running(c) == conns[c].reader # "off"
Dead(c) == conns[c].state \in {"broken", "closed"}

-----------------------------------------------------------------------------
(* Pieces that run under a mutex of the session. *)

\* What is on the way of a connection is lost when this side closes it.
Closed(c) == [conns EXCEPT ![c].state = "closed", ![c].wire = <<>>, ![c].asked = <<>>, ![c].sent = 0]

Cleared(s, q) == IF s.active = q THEN [s EXCEPT !.active = 0] ELSE s

\* Mutant: the connection is forgotten, but not closed.
MutantInvalidate(s, c) ==
    /\ sessions' = IF sessions[s].conn = c THEN [sessions EXCEPT ![s].conn = 0] ELSE sessions
    /\ conns' = conns

\* invalidateUpstreamConn: only the one in use is dropped, and closed.
Invalidate(s, c) ==
    IF sessions[s].conn = c
    THEN /\ sessions' = [sessions EXCEPT ![s].conn = 0]
         /\ conns' = Closed(c)
    ELSE UNCHANGED <<sessions, conns>>

\* Requests whose activeDone is closed once the active one is p.
DoneBut(s, p) == [q \in Requests |->
    IF requests[q].session = s /\ sessions[s].active = q /\ q # p
    THEN [requests[q] EXCEPT !.done = TRUE] ELSE requests[q]]

\* Readers of dead connections that have not left yet.
Shadows(s, c) == {d \in Conns : conns[d].session = s /\ d # c /\ Running(d) /\ Dead(d)}

\* The reader of the connection has looked for a channel to tell, and found another.
Deaf(c, q) ==
    /\ conns[c].reader \in {"tell", "shut", "leave", "off"} /\ conns[c].to # q
    /\ requests[q].shutBy = 0

-----------------------------------------------------------------------------
(* A request: ExecuteStream. *)

\* The next attempt of the downstream: when the one before is over for it.
\* After one that worked the credential is pinned.
Enter(q, a) ==
    LET s == IF store # 0 THEN store ELSE Next1(sessions)
    IN  /\ ~hungUp /\ q = Next1(requests) /\ s # 0
        /\ \A p \in Used(requests) : Ended(p) \/ (InGoroutine(p) /\ requests[p].gone)
                                  \/ requests[p].pc = "leave"
        /\ \A p \in Used(requests) : requests[p].outcome \in {"ok", "canceled"} => a = requests[p].auth
        /\ store' = s
        /\ sessions' = [sessions EXCEPT ![s].used = TRUE]
        /\ requests' = [requests EXCEPT ![q].used = TRUE, ![q].pc = "lock", ![q].auth = a,
                                        ![q].session = s]
        /\ UNCHANGED <<conns, closers, crashed, hungUp, historyVars>>

Lock(q) ==
    LET s == requests[q].session
    IN  /\ requests[q].pc = "lock" /\ sessions[s].lock = 0
        /\ sessions' = [sessions EXCEPT ![s].lock = q]
        /\ requests' = [requests EXCEPT ![q].pc = "ensure"]
        /\ UNCHANGED <<store, conns, closers, crashed, hungUp, historyVars>>

\* ensureUpstreamConn: the connection there is, whoever's it is ...
Ensure(q) ==
    LET s == requests[q].session
        c == sessions[s].conn
    IN  /\ requests[q].pc = "ensure"
        /\ requests' = [requests EXCEPT ![q].conn = c,
               ![q].pc = IF c = 0 THEN "dial" ELSE IF requests[q].retry THEN "send" ELSE "activate"]
        /\ UNCHANGED <<store, sessions, conns, closers, crashed, hungUp, historyVars>>

\* ... or a new one.  Who holds reqMu is alone to dial.
DialSucceeds(q) ==
    LET s == requests[q].session
        c == Next1(conns)
    IN  /\ requests[q].pc = "dial" /\ c # 0
        /\ conns' = [conns EXCEPT ![c].used = TRUE, ![c].state = "open", ![c].session = s,
                                  ![c].reader = "read"]
        /\ sessions' = [sessions EXCEPT ![s].conn = c, ![s].auth = requests[q].auth]
        /\ requests' = [requests EXCEPT ![q].conn = c,
               ![q].pc = IF requests[q].retry THEN "send" ELSE "activate"]
        /\ late' = IF store # s THEN late \cup {s} ELSE late
        /\ UNCHANGED <<store, closers, crashed, hungUp, foreign, shadowed, unheard>>

\* Mutant: reqMu stays locked.
MutantDialFails(q) ==
    LET s == requests[q].session
    IN  /\ requests[q].pc = "dial"
        /\ sessions' = [sessions EXCEPT ![s] = Cleared(@, q)]
        /\ requests' = [DoneBut(s, 0) EXCEPT ![q].pc = "ended", ![q].outcome = "error"]
        /\ UNCHANGED <<store, conns, closers, crashed, hungUp, historyVars>>

\* No answer to the handshake: reqMu is unlocked.
DialFails(q) ==
    LET s == requests[q].session
    IN  /\ requests[q].pc = "dial"
        /\ sessions' = [sessions EXCEPT ![s] = Cleared([@ EXCEPT !.lock = 0], q)]
        /\ requests' = [DoneBut(s, 0) EXCEPT ![q].pc = "ended", ![q].outcome = "error"]
        /\ UNCHANGED <<store, conns, closers, crashed, hungUp, historyVars>>

\* An answer that is no upgrade: reqMu is not unlocked, but after a retry.
DialRefused(q) ==
    /\ requests[q].pc = "dial" /\ ~requests[q].retry
    /\ requests' = [requests EXCEPT ![q].pc = "ended", ![q].outcome = "refused"]
    /\ UNCHANGED <<store, sessions, conns, closers, crashed, hungUp, historyVars>>

\* setActive.
Activate(q) ==
    LET s == requests[q].session
    IN  /\ requests[q].pc = "activate"
        /\ sessions' = [sessions EXCEPT ![s].active = q]
        /\ requests' = [DoneBut(s, q) EXCEPT ![q].pc = "send"]
        /\ shadowed' = IF Shadows(s, requests[q].conn) # {} THEN shadowed \cup {q} ELSE shadowed
        /\ UNCHANGED <<store, conns, closers, crashed, hungUp, foreign, unheard, late>>

\* A write to a connection the upstream has closed may still succeed.
Send(q) ==
    LET c == requests[q].conn
    IN  /\ requests[q].pc = "send"
        /\ \/ /\ conns[c].state # "closed"
              /\ conns' = [conns EXCEPT ![c].asked = Append(@, q)]
              /\ requests' = [requests EXCEPT ![q].pc = "read"]
              /\ unheard' = IF Deaf(c, q) THEN unheard \cup {q} ELSE unheard
           \/ /\ Dead(c)
              /\ requests' = [requests EXCEPT ![q].pc =
                                 IF requests[q].retry THEN "giveUp" ELSE "again",
                                 ![q].outcome = IF requests[q].retry THEN "error" ELSE @]
              /\ UNCHANGED <<conns, unheard>>
        /\ UNCHANGED <<store, sessions, closers, crashed, hungUp, foreign, shadowed, late>>

\* A send that failed is tried once more, on a new connection.
SendAgain(q) ==
    /\ requests[q].pc = "again"
    /\ Invalidate(requests[q].session, requests[q].conn)
    /\ requests' = [requests EXCEPT ![q].pc = "ensure", ![q].retry = TRUE]
    /\ shadowed' = IF Running(requests[q].conn) \/ requests[q].shutBy # 0
                   THEN shadowed \cup {q} ELSE shadowed
    /\ UNCHANGED <<store, closers, crashed, hungUp, foreign, unheard, late>>

\* readCodexWebsocketMessage, and what becomes of the message.
Read(q) ==
    LET r == requests[q]
        m == Head(r.buf)
        Outcome(o, pc) == requests' = [requests EXCEPT ![q].buf = Tail(@), ![q].outcome = o, ![q].pc = pc]
    IN  /\ r.pc = "read" /\ r.buf # <<>>
        /\ IF m.conn # r.conn THEN Outcome("none", "read")
           ELSE IF m.kind = "lost" THEN Outcome("error", "leave")
           ELSE IF m.kind = "fail" THEN Outcome("error", "giveUp")
           ELSE IF m.kind = "end" THEN Outcome("ok", "leave")
           ELSE Outcome("none", "read")
        /\ foreign' = IF m.conn = r.conn /\ m.of \notin {0, q} THEN foreign \cup {q} ELSE foreign
        /\ UNCHANGED <<store, sessions, conns, closers, crashed, hungUp, shadowed, unheard, late>>

ReadClosed(q) ==
    /\ requests[q].pc = "read" /\ requests[q].buf = <<>> /\ requests[q].shutBy # 0
    /\ requests' = [requests EXCEPT ![q].pc = "leave", ![q].outcome = "closed"]
    /\ UNCHANGED <<store, sessions, conns, closers, crashed, hungUp, historyVars>>

ReadCanceled(q) ==
    /\ requests[q].pc = "read" /\ requests[q].gone
    /\ requests' = [requests EXCEPT ![q].pc = "leave", ![q].outcome = "canceled"]
    /\ UNCHANGED <<store, sessions, conns, closers, crashed, hungUp, historyVars>>

\* Mutant: an error event leaves the connection in use.
MutantGiveUp(q) ==
    /\ requests[q].pc = "giveUp"
    /\ requests' = [requests EXCEPT ![q].pc = "leave"]
    /\ UNCHANGED <<store, sessions, conns, closers, crashed, hungUp, historyVars>>

\* A send that failed twice, or an error event: the connection is given up.
GiveUp(q) ==
    /\ requests[q].pc = "giveUp"
    /\ Invalidate(requests[q].session, requests[q].conn)
    /\ requests' = [requests EXCEPT ![q].pc = "leave"]
    /\ UNCHANGED <<store, closers, crashed, hungUp, historyVars>>

\* clearActive, and reqMu is unlocked.
Leave(q) ==
    LET s == requests[q].session
    IN  /\ requests[q].pc = "leave"
        /\ sessions' = [sessions EXCEPT ![s] = Cleared([@ EXCEPT !.lock = 0], q)]
        /\ requests' = [requests EXCEPT ![q].pc = "ended", ![q].done = TRUE, ![q].buf = <<>>]
        /\ UNCHANGED <<store, conns, closers, crashed, hungUp, historyVars>>

-----------------------------------------------------------------------------
(* The reader of a connection: readUpstreamLoop. *)

\* A message goes to the channel that is active now; without one it is dropped.
ReadMessage(c) ==
    LET q == sessions[conns[c].session].active
    IN  /\ conns[c].reader = "read" /\ conns[c].state # "closed" /\ conns[c].wire # <<>>
        /\ conns' = [conns EXCEPT ![c].wire = Tail(@), ![c].held = Head(conns[c].wire), ![c].to = q,
                                  ![c].reader = IF q = 0 THEN "read" ELSE "deliver"]
        /\ UNCHANGED <<store, sessions, requests, closers, crashed, hungUp, historyVars>>

\* The send and activeDone are both waited for; a closed channel panics.
Deliver(c) ==
    LET q == conns[c].to
        r == requests[q]
        m == [conn |-> c, kind |-> conns[c].held.kind, of |-> conns[c].held.of]
    IN  /\ conns[c].reader = "deliver"
        /\ \/ /\ r.shutBy = 0 /\ Len(r.buf) < Capacity /\ ~Ended(q)
              /\ requests' = [requests EXCEPT ![q].buf = Append(@, m)]
              /\ crashed' = crashed
           \/ r.done /\ UNCHANGED <<requests, crashed>>
           \/ r.shutBy # 0 /\ crashed' = TRUE /\ requests' = requests
        /\ conns' = [conns EXCEPT ![c].reader = "read", ![c].held = Nothing, ![c].to = 0]
        /\ UNCHANGED <<store, sessions, closers, hungUp, historyVars>>

\* The connection is gone, or what came is no text.
ReadFails(c) ==
    LET q == sessions[conns[c].session].active
    IN  /\ conns[c].reader = "read"
        /\ \/ conns[c].state = "closed"
           \/ conns[c].state = "broken" /\ conns[c].wire = <<>>
        /\ conns' = [conns EXCEPT ![c].to = q, ![c].reader = IF q = 0 THEN "leave" ELSE "tell"]
        /\ UNCHANGED <<store, sessions, requests, closers, crashed, hungUp, historyVars>>

\* The active channel is told if it has room, and is active no more ...
TellLost(c) ==
    LET q == conns[c].to
        r == requests[q]
        s == conns[c].session
        told == [requests EXCEPT ![q].buf = Append(@, [conn |-> c, kind |-> "lost", of |-> 0])]
        Over(rs) == IF sessions[s].active = q THEN [rs EXCEPT ![q].done = TRUE] ELSE rs
    IN  /\ conns[c].reader = "tell"
        /\ \/ r.shutBy = 0 /\ Len(r.buf) < Capacity /\ requests' = Over(told) /\ crashed' = crashed
           \/ /\ r.done \/ (r.shutBy = 0 /\ Len(r.buf) = Capacity)
              /\ requests' = Over(requests) /\ crashed' = crashed
           \/ r.shutBy # 0 /\ crashed' = TRUE /\ requests' = requests
        /\ sessions' = [sessions EXCEPT ![s] = Cleared(@, q)]
        /\ conns' = [conns EXCEPT ![c].reader = "shut"]
        /\ UNCHANGED <<store, closers, hungUp, historyVars>>

\* ... and closed.
ShutChannel(c) ==
    LET q == conns[c].to
    IN  /\ conns[c].reader = "shut"
        /\ crashed' = (requests[q].shutBy # 0)
        /\ requests' = IF requests[q].shutBy # 0 THEN requests
                       ELSE [requests EXCEPT ![q].shutBy = c]
        /\ conns' = [conns EXCEPT ![c].reader = "leave", ![c].to = 0]
        /\ UNCHANGED <<store, sessions, closers, hungUp, historyVars>>

ReaderLeaves(c) ==
    LET s == conns[c].session
    IN  /\ conns[c].reader = "leave"
        /\ sessions' = IF sessions[s].conn = c THEN [sessions EXCEPT ![s].conn = 0] ELSE sessions
        /\ conns' = [IF sessions[s].conn = c THEN Closed(c) ELSE conns EXCEPT ![c].reader = "off"]
        /\ UNCHANGED <<store, requests, closers, crashed, hungUp, historyVars>>

-----------------------------------------------------------------------------
(* The upstream, and the idle deadline of the reader. *)

\* Events of a request, the last but one of which may say that it failed.
Answers(c) ==
    /\ conns[c].state = "open" /\ conns[c].asked # <<>> /\ conns[c].wire = <<>>
    /\ LET q == Head(conns[c].asked)
           n == conns[c].sent + 1
       IN  \E kind \in IF n = MaxEvents THEN {"end"} ELSE {"data", "fail", "end"} :
              conns' = [conns EXCEPT ![c].wire = Append(@, [kind |-> kind, of |-> q]),
                            ![c].sent = IF kind = "end" THEN 0 ELSE n,
                            ![c].asked = IF kind = "end" THEN Tail(@) ELSE @]
    /\ UNCHANGED <<store, sessions, requests, closers, crashed, hungUp, historyVars>>

Breaks(c) ==
    /\ conns[c].state = "open"
    /\ conns' = [conns EXCEPT ![c].state = "broken"]
    /\ UNCHANGED <<store, sessions, requests, closers, crashed, hungUp, historyVars>>

IdleTimeout(c) == conns[c].reader = "read" /\ conns[c].wire = <<>> /\ Breaks(c)

-----------------------------------------------------------------------------
(* The downstream, the removal of a credential. *)

\* The handler gives up a request, because it cannot use or forward an event.
Cancel(q) ==
    /\ requests[q].pc = "read" /\ ~requests[q].gone
    /\ requests' = [requests EXCEPT ![q].gone = TRUE]
    /\ UNCHANGED <<store, sessions, conns, closers, crashed, hungUp, historyVars>>

\* CloseExecutionSession: out of the store.
HangUp ==
    /\ ~hungUp /\ hungUp' = TRUE
    /\ \A q \in Used(requests) : Ended(q) \/ (InGoroutine(q) /\ requests[q].gone)
    /\ store' = 0
    /\ closers' = [closers EXCEPT !["downstream"] = [pc |-> "close", session |-> store]]
    /\ UNCHANGED <<sessions, conns, requests, crashed, historyVars>>

\* CloseCodexWebsocketSessionsForAuthID: a session of the credential ...
Match(a) ==
    /\ closers["removal"].pc = "idle" /\ store # 0 /\ sessions[store].auth = a
    /\ closers' = [closers EXCEPT !["removal"] = [pc |-> "unstore", session |-> store]]
    /\ UNCHANGED <<store, sessions, conns, requests, crashed, hungUp, historyVars>>

\* ... is taken out of the store if it is still there ...
Unstore ==
    /\ closers["removal"].pc = "unstore"
    /\ store' = IF store = closers["removal"].session THEN 0 ELSE store
    /\ closers' = [closers EXCEPT !["removal"].pc =
                      IF store = closers["removal"].session THEN "close" ELSE "done"]
    /\ UNCHANGED <<sessions, conns, requests, crashed, hungUp, historyVars>>

\* Mutant: a connection that a request uses is left alone.
MutantCloseSession(k) ==
    LET s == closers[k].session
        c == IF s = 0 THEN 0 ELSE IF sessions[s].active # 0 THEN 0 ELSE sessions[s].conn
    IN  /\ closers[k].pc = "close"
        /\ closers' = [closers EXCEPT ![k].pc = "done"]
        /\ sessions' = IF c = 0 THEN sessions ELSE [sessions EXCEPT ![s].conn = 0]
        /\ conns' = IF c = 0 THEN conns ELSE Closed(c)
        /\ UNCHANGED <<store, requests, crashed, hungUp, historyVars>>

\* closeCodexWebsocketSession: ... and its connection closed.
CloseSession(k) ==
    LET s == closers[k].session
        c == IF s = 0 THEN 0 ELSE sessions[s].conn
    IN  /\ closers[k].pc = "close"
        /\ closers' = [closers EXCEPT ![k].pc = "done"]
        /\ sessions' = IF c = 0 THEN sessions ELSE [sessions EXCEPT ![s].conn = 0]
        /\ conns' = IF c = 0 THEN conns ELSE Closed(c)
        /\ UNCHANGED <<store, requests, crashed, hungUp, historyVars>>

-----------------------------------------------------------------------------
CodexInit ==
    /\ store = 0
    /\ sessions = [s \in Sessions |-> [used |-> FALSE, conn |-> 0, auth |-> "none", active |-> 0, lock |-> 0]]
    /\ conns = [c \in Conns |->
          [used |-> FALSE, state |-> "none", session |-> 0, asked |-> <<>>, sent |-> 0,
           wire |-> <<>>, reader |-> "off", held |-> Nothing, to |-> 0]]
    /\ requests = [q \in Requests |->
          [used |-> FALSE, pc |-> "idle", auth |-> "none", session |-> 0, conn |-> 0, retry |-> FALSE,
           buf |-> <<>>, shutBy |-> 0, done |-> FALSE, gone |-> FALSE, outcome |-> "none"]]
    /\ closers = [k \in Closers |-> [pc |-> "idle", session |-> 0]]
    /\ crashed = FALSE /\ hungUp = FALSE
    /\ foreign = {} /\ shadowed = {} /\ unheard = {} /\ late = {}

RequestStep(q) ==
    \/ Lock(q) \/ Ensure(q) \/ DialSucceeds(q) \/ DialFails(q) \/ DialRefused(q) \/ Activate(q)
    \/ Send(q) \/ SendAgain(q) \/ Read(q) \/ ReadClosed(q) \/ ReadCanceled(q) \/ GiveUp(q) \/ Leave(q)

ReaderStep(c) ==
    \/ ReadMessage(c) \/ Deliver(c) \/ ReadFails(c) \/ TellLost(c) \/ ShutChannel(c)
    \/ ReaderLeaves(c) \/ IdleTimeout(c)

CodexNext ==
    /\ ~crashed
    /\ \/ \E q \in Requests : RequestStep(q) \/ Cancel(q) \/ \E a \in Auths : Enter(q, a)
       \/ \E c \in Conns : ReaderStep(c) \/ Answers(c) \/ Breaks(c)
       \/ HangUp \/ Unstore \/ \E a \in Auths : Match(a)
       \/ \E k \in Closers : CloseSession(k)

\* Requests and readers go on; a reader does not wait longer than its deadline.
CodexFairness ==
    /\ \A q \in Requests : WF_codexVars(~crashed /\ RequestStep(q))
    /\ \A c \in Conns : WF_codexVars(~crashed /\ ReaderStep(c))

CodexSpec == CodexInit /\ [][CodexNext]_codexVars /\ CodexFairness

-----------------------------------------------------------------------------
(* Properties. *)

\* A second attempt on a new connection is not cut off by the reader of the one
\* it left.
SecondAttemptCounts ==
    \A q \in Requests : requests[q].retry /\ requests[q].outcome = "closed" => requests[q].shutBy = requests[q].conn

\* A request is given the events of its own response only, unless an earlier one
\* on the connection was left in the middle of its response.
OwnAnswer ==
    \A q \in foreign : \E p \in Requests :
        p < q /\ requests[p].conn = requests[q].conn /\ requests[p].outcome \in {"canceled", "closed"}

\* What ends a request, or brings the process down, is its own connection or the
\* reader of one that was dead before the request went out.
EndsByOwnConnection ==
    /\ \A q \in Requests \ shadowed : requests[q].shutBy \in {0, requests[q].conn}
    /\ crashed => shadowed # {}

\* No connection is left open that nothing will close: it is the one of a session
\* in the store, or of one that is about to be closed, unless it was dialled
\* after that.
NoOrphan ==
    \A c \in Conns : conns[c].state = "open" =>
        LET s == conns[c].session
        IN  /\ sessions[s].conn = c
            /\ s = store \/ s \in late \/ \E k \in Closers : closers[k] = [pc |-> "close", session |-> s]

Excused(q) ==
    LET s == requests[q].session
    IN  \E p \in Requests : requests[p].session = s /\ (requests[p].outcome = "refused" \/ p \in unheard)

\* Every request comes to an end, unless an earlier one kept the mutex after a
\* refused handshake, or the reader was leaving when the request went out.
EveryRequestEnds ==
    \A q \in Requests : requests[q].used ~> Ended(q) \/ Excused(q) \/ crashed
=============================================================================
