--------------------------- MODULE WsRelayProofs ---------------------------
(***************************************************************************)
(* The connections and requests of the relay, for any number of them: a    *)
(* connection that is served is found under its name, an answer is whole   *)
(* unless a message was dropped or the client had left, and the manager    *)
(* has a credential for the names that are connected.                      *)
(***************************************************************************)
EXTENDS WsRelay, TLAPS

-----------------------------------------------------------------------------
(* Types. *)

SessionRec ==
    [handler : {"new", "replace", "announce", "run"}, old : Sessions \cup {Nobody},
     closing : {"no", "range", "leave", "notify", "done"},
     cause : {"none", "lost", "replaced", "stopped"},
     left : SUBSET Requests, at : Requests \cup {Nobody}, pending : SUBSET Requests,
     reader : {"idle", "deliver", "finish"}, held : Requests \cup {Nobody}, msg : Int]

RequestRec ==
    [pc : {"idle", "store", "load", "send", "await", "ended", "refused", "panicked"},
     to : Sessions \cup {Nobody}, buf : Seq(Int), shut : BOOLEAN, done : BOOLEAN,
     watched : BOOLEAN, sent : Nat, over : BOOLEAN, got : Seq(Int),
     outcome : {"none", "answer", "error", "canceled"}]

\* A request that was sent anywhere knows where.
Placed(r) ==
    /\ r.pc \notin {"idle", "refused"} => r.to \in Sessions
    /\ r.watched => r.pc # "idle" /\ r.to \in Sessions

RelayTypeOK ==
    /\ pool \in [Names -> Sessions \cup {Nobody}]
    /\ session \in [Sessions -> SessionRec]
    /\ stopping \in SUBSET Sessions /\ stopped \in BOOLEAN
    /\ ~stopped => stopping = {}
    /\ req \in [Requests -> RequestRec]
    /\ \A q \in Requests : Placed(req[q])

\* One field of a session may be changed for another value of its type.
LEMMA SessionChanges ==
    ASSUME NEW x \in SessionRec
    PROVE  /\ \A v \in {"new", "replace", "announce", "run"} :
                  [x EXCEPT !.handler = v] \in SessionRec
           /\ \A v \in Sessions \cup {Nobody} : [x EXCEPT !.old = v] \in SessionRec
           /\ \A v \in {"no", "range", "leave", "notify", "done"} :
                  [x EXCEPT !.closing = v] \in SessionRec
           /\ \A v \in {"none", "lost", "replaced", "stopped"} :
                  [x EXCEPT !.cause = v] \in SessionRec
           /\ \A v \in SUBSET Requests : [x EXCEPT !.left = v] \in SessionRec
           /\ \A v \in SUBSET Requests : [x EXCEPT !.pending = v] \in SessionRec
           /\ \A v \in Requests \cup {Nobody} : [x EXCEPT !.at = v] \in SessionRec
           /\ \A v \in Requests \cup {Nobody} : [x EXCEPT !.held = v] \in SessionRec
           /\ \A v \in {"idle", "deliver", "finish"} :
                  [x EXCEPT !.reader = v] \in SessionRec
           /\ \A v \in Int : [x EXCEPT !.msg = v] \in SessionRec
  <1>1. ASSUME NEW v \in {"new", "replace", "announce", "run"}
        PROVE  [x EXCEPT !.handler = v] \in SessionRec
    BY DEF SessionRec
  <1>2. ASSUME NEW v \in Sessions \cup {Nobody} PROVE [x EXCEPT !.old = v] \in SessionRec
    BY DEF SessionRec
  <1>3. ASSUME NEW v \in {"no", "range", "leave", "notify", "done"}
        PROVE  [x EXCEPT !.closing = v] \in SessionRec
    BY DEF SessionRec
  <1>4. ASSUME NEW v \in {"none", "lost", "replaced", "stopped"}
        PROVE  [x EXCEPT !.cause = v] \in SessionRec
    BY DEF SessionRec
  <1>5. ASSUME NEW v \in SUBSET Requests PROVE [x EXCEPT !.left = v] \in SessionRec
    BY DEF SessionRec
  <1>6. ASSUME NEW v \in SUBSET Requests PROVE [x EXCEPT !.pending = v] \in SessionRec
    BY DEF SessionRec
  <1>7. ASSUME NEW v \in Requests \cup {Nobody} PROVE [x EXCEPT !.at = v] \in SessionRec
    BY DEF SessionRec
  <1>8. ASSUME NEW v \in Requests \cup {Nobody} PROVE [x EXCEPT !.held = v] \in SessionRec
    BY DEF SessionRec
  <1>9. ASSUME NEW v \in {"idle", "deliver", "finish"}
        PROVE  [x EXCEPT !.reader = v] \in SessionRec
    BY DEF SessionRec
  <1>10. ASSUME NEW v \in Int PROVE [x EXCEPT !.msg = v] \in SessionRec
    BY DEF SessionRec
  <1> QED
    BY <1>1, <1>2, <1>3, <1>4, <1>5, <1>6, <1>7, <1>8, <1>9, <1>10

\* The same for a request.
LEMMA RequestChanges ==
    ASSUME NEW r \in RequestRec
    PROVE  /\ \A v \in {"idle", "store", "load", "send", "await", "ended", "refused",
                        "panicked"} : [r EXCEPT !.pc = v] \in RequestRec
           /\ \A v \in Sessions \cup {Nobody} : [r EXCEPT !.to = v] \in RequestRec
           /\ \A v \in Seq(Int) : [r EXCEPT !.buf = v] \in RequestRec
           /\ \A v \in Seq(Int) : [r EXCEPT !.got = v] \in RequestRec
           /\ \A v \in BOOLEAN : [r EXCEPT !.shut = v] \in RequestRec
           /\ \A v \in BOOLEAN : [r EXCEPT !.done = v] \in RequestRec
           /\ \A v \in BOOLEAN : [r EXCEPT !.watched = v] \in RequestRec
           /\ \A v \in BOOLEAN : [r EXCEPT !.over = v] \in RequestRec
           /\ \A v \in Nat : [r EXCEPT !.sent = v] \in RequestRec
           /\ \A v \in {"none", "answer", "error", "canceled"} :
                  [r EXCEPT !.outcome = v] \in RequestRec
  <1>1. ASSUME NEW v \in {"idle", "store", "load", "send", "await", "ended", "refused",
                          "panicked"}
        PROVE  [r EXCEPT !.pc = v] \in RequestRec
    BY DEF RequestRec
  <1>2. ASSUME NEW v \in Sessions \cup {Nobody} PROVE [r EXCEPT !.to = v] \in RequestRec
    BY DEF RequestRec
  <1>3. ASSUME NEW v \in Seq(Int) PROVE [r EXCEPT !.buf = v] \in RequestRec
    BY DEF RequestRec
  <1>4. ASSUME NEW v \in Seq(Int) PROVE [r EXCEPT !.got = v] \in RequestRec
    BY DEF RequestRec
  <1>5. ASSUME NEW v \in BOOLEAN PROVE [r EXCEPT !.shut = v] \in RequestRec
    BY DEF RequestRec
  <1>6. ASSUME NEW v \in BOOLEAN PROVE [r EXCEPT !.done = v] \in RequestRec
    BY DEF RequestRec
  <1>7. ASSUME NEW v \in BOOLEAN PROVE [r EXCEPT !.watched = v] \in RequestRec
    BY DEF RequestRec
  <1>8. ASSUME NEW v \in BOOLEAN PROVE [r EXCEPT !.over = v] \in RequestRec
    BY DEF RequestRec
  <1>9. ASSUME NEW v \in Nat PROVE [r EXCEPT !.sent = v] \in RequestRec
    BY DEF RequestRec
  <1>10. ASSUME NEW v \in {"none", "answer", "error", "canceled"}
         PROVE  [r EXCEPT !.outcome = v] \in RequestRec
    BY DEF RequestRec
  <1> QED
    BY <1>1, <1>2, <1>3, <1>4, <1>5, <1>6, <1>7, <1>8, <1>9, <1>10

\* The cleanup of a session starts; it takes the entries it finds.
LEMMA ClosingMoves ==
    ASSUME RelayTypeOK, NEW s \in Sessions, NEW why \in {"lost", "replaced", "stopped"},
           Closing(s, why)
    PROVE  /\ session' \in [Sessions -> SessionRec]
           /\ session'[s].closing = "range" /\ session'[s].cause = why
           /\ \A t \in Sessions \ {s} : session'[t] = session[t]
           /\ session'[s].handler = session[s].handler /\ session'[s].old = session[s].old
           /\ session'[s].pending = session[s].pending
           /\ session'[s].reader = session[s].reader
           /\ session'[s].held = session[s].held /\ session'[s].msg = session[s].msg
  <1> DEFINE a == [session[s] EXCEPT !.closing = "range"]
             b == [a EXCEPT !.cause = why]
             c == [b EXCEPT !.left = session[s].pending]
  <1>1. session \in [Sessions -> SessionRec] /\ session[s] \in SessionRec
    BY DEF RelayTypeOK
  <1>2. session[s].pending \in SUBSET Requests
    BY <1>1 DEF SessionRec
  <1>3. c \in SessionRec
    <2>1. a \in SessionRec
      BY <1>1, SessionChanges
    <2> HIDE DEF a
    <2>2. b \in SessionRec
      BY <2>1, SessionChanges
    <2> HIDE DEF b
    <2> QED
      BY <1>2, <2>2, SessionChanges
  <1>4. session' = [session EXCEPT ![s] = c]
    BY <1>1 DEF Closing
  <1>5. /\ c.closing = "range" /\ c.cause = why
        /\ c.handler = session[s].handler /\ c.old = session[s].old
        /\ c.pending = session[s].pending /\ c.reader = session[s].reader
        /\ c.held = session[s].held /\ c.msg = session[s].msg
    BY <1>1 DEF SessionRec
  <1> HIDE DEF c
  <1> QED
    BY <1>1, <1>3, <1>4, <1>5

\* An entry taken out of the map of its session changes nothing else there.
LEMMA WithdrawnMoves ==
    ASSUME RelayTypeOK, NEW s \in Sessions, NEW q \in Requests
    PROVE  /\ Withdrawn(session, s, q) \in [Sessions -> SessionRec]
           /\ \A t \in Sessions \ {s} : Withdrawn(session, s, q)[t] = session[t]
           /\ Withdrawn(session, s, q)[s].pending = session[s].pending \ {q}
           /\ \A f \in {"handler", "old", "closing", "cause", "reader", "held", "msg"} :
                  Withdrawn(session, s, q)[s][f] = session[s][f]
  <1> DEFINE x == [session[s] EXCEPT !.pending = session[s].pending \ {q}]
  <1>1. session \in [Sessions -> SessionRec] /\ session[s] \in SessionRec
    BY DEF RelayTypeOK
  <1>2. session[s].pending \ {q} \in SUBSET Requests
    BY <1>1 DEF SessionRec
  <1>3. x \in SessionRec
    BY <1>1, <1>2, SessionChanges
  <1>4. Withdrawn(session, s, q) = [session EXCEPT ![s] = x]
    BY <1>1 DEF Withdrawn
  <1>5. /\ x.pending = session[s].pending \ {q}
        /\ x.handler = session[s].handler /\ x.old = session[s].old
        /\ x.closing = session[s].closing /\ x.cause = session[s].cause
        /\ x.reader = session[s].reader /\ x.held = session[s].held
        /\ x.msg = session[s].msg
    BY <1>1 DEF SessionRec
  <1> HIDE DEF x
  <1> QED
    BY <1>1, <1>3, <1>4, <1>5

\* A channel that is closed, or not, is otherwise the same.
LEMMA ShutMoves ==
    ASSUME NEW r \in RequestRec, NEW s, NEW q
    PROVE  /\ ShutIfPending(r, s, q) \in RequestRec /\ Shut(r) \in RequestRec
           /\ Shut(r) = [r EXCEPT !.shut = TRUE]
           /\ ShutIfPending(r, s, q) \in {r, Shut(r)}
           /\ q \in session[s].pending => ShutIfPending(r, s, q) = Shut(r)
           /\ q \notin session[s].pending => ShutIfPending(r, s, q) = r
  <1>1. Shut(r) \in RequestRec
    BY DEF Shut, RequestRec
  <1>2. Shut(r) = [r EXCEPT !.shut = TRUE]
    BY DEF Shut
  <1> QED
    BY <1>1, <1>2 DEF ShutIfPending

\* A message is at the end of the channel, if there was room.
LEMMA PushedMoves ==
    ASSUME NEW r \in RequestRec, NEW m \in Int
    PROVE  /\ Pushed(r, m) \in RequestRec
           /\ Len(r.buf) < Capacity => Pushed(r, m) = [r EXCEPT !.buf = Append(r.buf, m)]
           /\ ~(Len(r.buf) < Capacity) => Pushed(r, m) = r
  <1>1. r.buf \in Seq(Int)
    BY DEF RequestRec
  <1>2. Append(r.buf, m) \in Seq(Int)
    BY <1>1
  <1>3. [r EXCEPT !.buf = Append(r.buf, m)] \in RequestRec
    BY <1>2, RequestChanges
  <1>4. /\ Len(r.buf) < Capacity => Pushed(r, m) = [r EXCEPT !.buf = Append(r.buf, m)]
        /\ ~(Len(r.buf) < Capacity) => Pushed(r, m) = r
    BY DEF Pushed
  <1> QED
    BY <1>3, <1>4

-----------------------------------------------------------------------------
(* Connections come, go and are cleaned up: nothing of this touches a       *)
(* request.                                                                 *)

Quiet(s) ==
    \/ \E q \in Requests : Visit(s, q)
    \/ EmptyMap(s) \/ Leave(s) \/ Disconnected(s)
    \/ Replace(s) \/ Replaced(s) \/ Connected(s)
    \/ StopCloses(s) \/ Register(s) \/ Lose(s)

\* What a connection's own steps may do to a session: its cleanup goes on.
Goes(x, y) ==
    /\ y.reader = x.reader /\ y.held = x.held /\ y.msg = x.msg
    /\ x.closing # "no" => y.closing # "no"
    /\ y.closing \in {"no", "range"} =>
          x.closing \in {"no", "range"} /\ y.pending = x.pending

\* One session moves.
LEMMA SessionMoves ==
    ASSUME RelayTypeOK, NEW s \in Sessions, NEW x \in SessionRec,
           session' = [session EXCEPT ![s] = x], Goes(session[s], x)
    PROVE  /\ session' \in [Sessions -> SessionRec]
           /\ session'[s] = x /\ \A t \in Sessions \ {s} : session'[t] = session[t]
           /\ \A t \in Sessions : Goes(session[t], session'[t])
  <1>1. session \in [Sessions -> SessionRec]
    BY DEF RelayTypeOK
  <1> QED
    BY <1>1 DEF Goes

\* One that only starts its cleanup goes on.
LEMMA ClosingGoes ==
    ASSUME RelayTypeOK, NEW s \in Sessions, NEW why \in {"lost", "replaced", "stopped"},
           ~Closed(s), Closing(s, why)
    PROVE  /\ session' \in [Sessions -> SessionRec]
           /\ \A t \in Sessions : Goes(session[t], session'[t])
  BY ClosingMoves DEF Goes, Closed

\* The types are kept, and every session goes on.
LEMMA QuietMoves ==
    ASSUME RelayTypeOK, NEW s \in Sessions, Quiet(s)
    PROVE  /\ RelayTypeOK' /\ req' = req /\ dropped' = dropped
           /\ \A t \in Sessions : Goes(session[t], session'[t])
  <1>0. /\ session \in [Sessions -> SessionRec] /\ session[s] \in SessionRec
        /\ NameOf[s] \in Names
    BY RelayAssumption DEF RelayTypeOK
  <1>1. ASSUME NEW q \in Requests, Visit(s, q)
        PROVE  /\ session' \in [Sessions -> SessionRec]
               /\ \A t \in Sessions : Goes(session[t], session'[t])
    <2> DEFINE a == [session[s] EXCEPT !.left = session[s].left \ {q}]
               e == IF q \in session[s].pending THEN q ELSE Nobody
               b == [a EXCEPT !.at = e]
    <2>1. session[s].left \ {q} \in SUBSET Requests /\ e \in Requests \cup {Nobody}
      BY <1>0 DEF SessionRec
    <2>2. a \in SessionRec
      BY <1>0, <2>1, SessionChanges
    <2>3. b \in SessionRec
      <3> HIDE DEF a, e
      <3> QED
        BY <2>1, <2>2, SessionChanges
    <2>4. session' = [session EXCEPT ![s] = b]
      BY <1>0, <1>1 DEF Visit
    <2>5. Goes(session[s], b)
      BY <1>0 DEF Goes, SessionRec
    <2> HIDE DEF b
    <2> QED
      BY <2>3, <2>4, <2>5, SessionMoves
  <1>2. ASSUME EmptyMap(s)
        PROVE  /\ session' \in [Sessions -> SessionRec]
               /\ \A t \in Sessions : Goes(session[t], session'[t])
    <2> DEFINE a == [session[s] EXCEPT !.pending = {}]
               b == [a EXCEPT !.closing = "leave"]
    <2>1. a \in SessionRec
      BY <1>0, SessionChanges
    <2>2. b \in SessionRec
      <3> HIDE DEF a
      <3> QED
        BY <2>1, SessionChanges
    <2>3. session' = [session EXCEPT ![s] = b]
      BY <1>0, <1>2 DEF EmptyMap
    <2>4. Goes(session[s], b)
      BY <1>0 DEF Goes, SessionRec
    <2> HIDE DEF b
    <2> QED
      BY <2>2, <2>3, <2>4, SessionMoves
  <1>3. ASSUME NEW c \in {"notify", "done"}, session[s].closing \in {"leave", "notify"},
               session' = [session EXCEPT ![s].closing = c]
        PROVE  /\ session' \in [Sessions -> SessionRec]
               /\ \A t \in Sessions : Goes(session[t], session'[t])
    <2> DEFINE a == [session[s] EXCEPT !.closing = c]
    <2>1. a \in SessionRec
      BY <1>0, SessionChanges
    <2>2. session' = [session EXCEPT ![s] = a]
      BY <1>0, <1>3
    <2>3. Goes(session[s], a)
      BY <1>0, <1>3 DEF Goes, SessionRec
    <2> HIDE DEF a
    <2> QED
      BY <2>1, <2>2, <2>3, SessionMoves
  <1>4. ASSUME NEW h \in {"announce", "run"},
               session' = [session EXCEPT ![s].handler = h]
        PROVE  /\ session' \in [Sessions -> SessionRec]
               /\ \A t \in Sessions : Goes(session[t], session'[t])
    <2> DEFINE a == [session[s] EXCEPT !.handler = h]
    <2>1. a \in SessionRec
      BY <1>0, SessionChanges
    <2>2. session' = [session EXCEPT ![s] = a]
      BY <1>0, <1>4
    <2>3. Goes(session[s], a)
      BY <1>0, <1>4 DEF Goes, SessionRec
    <2> HIDE DEF a
    <2> QED
      BY <2>1, <2>2, <2>3, SessionMoves
  <1>5. ASSUME Register(s)
        PROVE  /\ session' \in [Sessions -> SessionRec]
               /\ \A t \in Sessions : Goes(session[t], session'[t])
    <2> DEFINE a == [session[s] EXCEPT !.handler = "replace"]
               b == [a EXCEPT !.old = pool[NameOf[s]]]
    <2>1. a \in SessionRec /\ pool[NameOf[s]] \in Sessions \cup {Nobody}
      BY <1>0, SessionChanges DEF RelayTypeOK
    <2>2. b \in SessionRec
      <3> HIDE DEF a
      <3> QED
        BY <2>1, SessionChanges
    <2>3. session' = [session EXCEPT ![s] = b]
      BY <1>0, <1>5 DEF Register
    <2>4. Goes(session[s], b)
      BY <1>0 DEF Goes, SessionRec
    <2> HIDE DEF b
    <2> QED
      BY <2>2, <2>3, <2>4, SessionMoves
  <1>6. ASSUME Replace(s)
        PROVE  /\ session' \in [Sessions -> SessionRec]
               /\ \A t \in Sessions : Goes(session[t], session'[t])
    <2>1. session[s].old \in Sessions
      BY <1>0, <1>6 DEF Replace, SessionRec
    <2> QED
      BY <1>6, <2>1, ClosingGoes DEF Replace
  <1>7. ASSUME Lose(s) \/ StopCloses(s)
        PROVE  /\ session' \in [Sessions -> SessionRec]
               /\ \A t \in Sessions : Goes(session[t], session'[t])
    <2>1. CASE UNCHANGED session
      BY <1>0, <2>1 DEF Goes
    <2> QED
      BY <1>7, <2>1, ClosingGoes DEF Lose, StopCloses
  <1>8. /\ session' \in [Sessions -> SessionRec]
        /\ \A t \in Sessions : Goes(session[t], session'[t])
    BY <1>1, <1>2, <1>3, <1>4, <1>5, <1>6, <1>7
    DEF Quiet, Leave, Disconnected, Replaced, Connected
  <1>9. req' = req /\ dropped' = dropped
    BY DEF Quiet, Visit, EmptyMap, Leave, Disconnected, Replace, Replaced, Connected,
           StopCloses, Register, Lose
  <1>10. /\ pool' \in [Names -> Sessions \cup {Nobody}]
         /\ stopping' \in SUBSET Sessions /\ stopped' \in BOOLEAN
         /\ ~stopped' => stopping' = {}
    BY <1>0 DEF RelayTypeOK, Quiet, Visit, EmptyMap, Leave, Disconnected, Replace, Replaced,
           Connected, StopCloses, Register, Lose
  <1> QED
    BY <1>8, <1>9, <1>10 DEF RelayTypeOK, Placed

-----------------------------------------------------------------------------
(* The steps of requests, of readers, and the cleanup's errors.             *)

Busy(q) ==
    \/ Store(q) \/ Load(q) \/ Send(q) \/ SendFails(q) \/ WatchEnds(q) \/ Consume(q)
    \/ ContextDone(q) \/ \E n \in Names : Find(q, n)
    \/ \E s \in Sessions, m \in Terminal \cup 1 .. MaxChunks : Read(s, q, m)

\* None of them starts or ends a session.
Stays(x, y) ==
    /\ y.handler = x.handler /\ y.old = x.old
    /\ y.closing = x.closing /\ y.cause = x.cause

\* One session of them moves.
LEMMA SessionStays ==
    ASSUME RelayTypeOK, NEW s \in Sessions, NEW x \in SessionRec,
           session' = [session EXCEPT ![s] = x], Stays(session[s], x)
    PROVE  /\ session' \in [Sessions -> SessionRec]
           /\ \A t \in Sessions : Stays(session[t], session'[t])
  <1>1. session \in [Sessions -> SessionRec]
    BY DEF RelayTypeOK
  <1> QED
    BY <1>1 DEF Stays

\* An entry is withdrawn.
LEMMA WithdrawnStays ==
    ASSUME RelayTypeOK, NEW s \in Sessions, NEW q \in Requests,
           session' = Withdrawn(session, s, q)
    PROVE  /\ session' \in [Sessions -> SessionRec]
           /\ \A t \in Sessions : Stays(session[t], session'[t])
  BY WithdrawnMoves DEF Stays

\* One request moves.
LEMMA RequestMoves ==
    ASSUME RelayTypeOK, NEW q \in Requests, NEW r \in RequestRec,
           req' = [req EXCEPT ![q] = r], Placed(r)
    PROVE  /\ req' \in [Requests -> RequestRec]
           /\ \A p \in Requests : Placed(req[p])'
  <1>1. req \in [Requests -> RequestRec]
    BY DEF RelayTypeOK
  <1>2. \A p \in Requests : req'[p] = IF p = q THEN r ELSE req[p]
    BY <1>1
  <1> QED
    BY <1>1, <1>2 DEF RelayTypeOK, Placed

\* A request keeps its place while none of its steps begins.
LEMMA PlaceKept ==
    ASSUME NEW r \in RequestRec, NEW v, Placed(r)
    PROVE  /\ Placed([r EXCEPT !.shut = v]) /\ Placed([r EXCEPT !.buf = v])
           /\ Placed([r EXCEPT !.got = v]) /\ Placed([r EXCEPT !.sent = v])
           /\ Placed([r EXCEPT !.over = v]) /\ Placed([r EXCEPT !.outcome = v])
           /\ Placed([r EXCEPT !.done = v]) /\ Placed([r EXCEPT !.watched = FALSE])
           /\ r.to \in Sessions /\ v # "idle" => Placed([r EXCEPT !.pc = v])
           /\ r.to \in Sessions /\ r.pc # "idle" => Placed([r EXCEPT !.watched = v])
  BY DEF Placed, RequestRec

\* Nor when its channel is closed.
LEMMA ShutKept ==
    ASSUME NEW r \in RequestRec, NEW s, NEW q, Placed(r)
    PROVE  /\ ShutIfPending(r, s, q) \in RequestRec /\ Placed(ShutIfPending(r, s, q))
           /\ \A a \in {r, Shut(r)} : a.to = r.to /\ a.pc = r.pc /\ a.watched = r.watched
  <1>1. /\ Shut(r) \in RequestRec /\ Placed(Shut(r))
        /\ Shut(r).to = r.to /\ Shut(r).pc = r.pc /\ Shut(r).watched = r.watched
    BY PlaceKept DEF Shut, RequestRec
  <1>2. ShutIfPending(r, s, q) \in {r, Shut(r)}
    BY DEF ShutIfPending
  <1> HIDE DEF Shut
  <1> QED
    BY <1>1, <1>2

\* Nor when a message is put into it.
LEMMA PushKept ==
    ASSUME NEW r \in RequestRec, NEW m \in Int, Placed(r)
    PROVE  Pushed(r, m) \in RequestRec /\ Placed(Pushed(r, m))
  <1>1. CASE Len(r.buf) < Capacity
    <2>1. Pushed(r, m) = [r EXCEPT !.buf = Append(r.buf, m)]
      BY <1>1, PushedMoves
    <2>2. Placed([r EXCEPT !.buf = Append(r.buf, m)])
      BY PlaceKept
    <2> QED
      BY <2>1, <2>2, PushedMoves
  <1>2. CASE ~(Len(r.buf) < Capacity)
    BY <1>2, PushedMoves
  <1> QED
    BY <1>1, <1>2

\* The types are kept, and no session starts or ends.
LEMMA BusyMoves ==
    ASSUME RelayTypeOK, NEW q \in Requests, Busy(q)
    PROVE  /\ RelayTypeOK' /\ pool' = pool /\ stopping' = stopping
           /\ \A t \in Sessions : Stays(session[t], session'[t])
  <1>0. /\ session \in [Sessions -> SessionRec]
        /\ req \in [Requests -> RequestRec] /\ req[q] \in RequestRec
        /\ Placed(req[q])
    BY DEF RelayTypeOK
  <1> DEFINE Good == /\ session' \in [Sessions -> SessionRec]
                     /\ req' \in [Requests -> RequestRec]
                     /\ \A p \in Requests : Placed(req[p])'
                     /\ \A t \in Sessions : Stays(session[t], session'[t])
  <1> SUFFICES Good
    <2>1. UNCHANGED <<pool, stopping, stopped>>
      BY DEF Busy, Store, Load, Send, SendFails, WatchEnds, Consume, ContextDone, Find, Read
    <2> QED
      BY <2>1 DEF RelayTypeOK
  <1>1. ASSUME NEW r \in RequestRec, req' = [req EXCEPT ![q] = r], Placed(r),
               session' = session
        PROVE  Good
    BY <1>0, <1>1, RequestMoves DEF Stays
  <1>2. CASE Store(q)
    <2> DEFINE s == req[q].to
               r == [req[q] EXCEPT !.pc = "load"]
    <2>1. s \in Sessions /\ r \in RequestRec /\ Placed(r)
      BY <1>0, <1>2, RequestChanges, PlaceKept DEF Store, Placed
    <2>2. PICK seen \in {{}, {q}} :
            session' = [session EXCEPT ![s].pending = @ \cup {q}, ![s].left = @ \cup seen]
      BY <1>2 DEF Store
    <2> DEFINE a == [session[s] EXCEPT !.pending = session[s].pending \cup {q}]
               b == [a EXCEPT !.left = session[s].left \cup seen]
    <2>3. /\ session[s].pending \cup {q} \in SUBSET Requests
          /\ session[s].left \cup seen \in SUBSET Requests
      BY <1>0, <2>1 DEF SessionRec
    <2>4. a \in SessionRec
      BY <1>0, <2>1, <2>3, SessionChanges
    <2>5. b \in SessionRec
      <3> HIDE DEF a
      <3> QED
        BY <2>3, <2>4, SessionChanges
    <2>6. session' = [session EXCEPT ![s] = b]
      BY <1>0, <2>1, <2>2
    <2>7. Stays(session[s], b)
      BY <1>0, <2>1 DEF Stays, SessionRec
    <2>8. req' = [req EXCEPT ![q] = r]
      BY <1>0, <1>2 DEF Store
    <2> HIDE DEF b, r
    <2> QED
      BY <2>1, <2>5, <2>6, <2>7, <2>8, SessionStays, RequestMoves
  <1>3. CASE Load(q)
    <2> DEFINE p == IF q \in session[req[q].to].pending THEN "send" ELSE "panicked"
               r == [req[q] EXCEPT !.pc = p]
    <2>1. req[q].to \in Sessions
      BY <1>0, <1>3 DEF Load, Placed
    <2>2. p \in {"send", "panicked"}
      OBVIOUS
    <2>3. r \in RequestRec /\ Placed(r)
      <3> HIDE DEF p
      <3> QED
        BY <1>0, <2>1, <2>2, RequestChanges, PlaceKept
    <2>4. req' = [req EXCEPT ![q] = r] /\ session' = session
      BY <1>0, <1>3 DEF Load
    <2> HIDE DEF r
    <2> QED
      BY <1>1, <2>3, <2>4
  <1>4. CASE Send(q)
    <2> DEFINE a == [req[q] EXCEPT !.pc = "await"]
               r == [a EXCEPT !.watched = TRUE]
    <2>1. req[q].to \in Sessions
      BY <1>0, <1>4 DEF Send, Placed
    <2>2. a \in RequestRec /\ a.to = req[q].to /\ a.pc = "await" /\ Placed(a)
      <3>1. a \in RequestRec /\ a.to = req[q].to /\ a.pc = "await"
        BY <1>0 DEF RequestRec
      <3> QED
        BY <1>0, <2>1, <3>1, PlaceKept
    <2>3. r \in RequestRec /\ Placed(r)
      <3> HIDE DEF a
      <3> QED
        BY <2>1, <2>2, RequestChanges, PlaceKept
    <2>4. req' = [req EXCEPT ![q] = r] /\ session' = session
      BY <1>0, <1>4 DEF Send
    <2> HIDE DEF r
    <2> QED
      BY <1>1, <2>3, <2>4
  <1>5. CASE SendFails(q)
    <2> DEFINE s == req[q].to
               a == ShutIfPending(req[q], s, q)
               r == [a EXCEPT !.pc = "refused"]
    <2>1. s \in Sessions
      BY <1>0, <1>5 DEF SendFails, Placed
    <2>2. a \in RequestRec /\ a.to = s /\ Placed(a)
      <3>1. a \in {req[q], Shut(req[q])}
        BY DEF ShutIfPending
      <3> QED
        BY <1>0, <3>1, ShutKept
    <2>3. r \in RequestRec /\ Placed(r)
      <3> HIDE DEF a
      <3> QED
        BY <2>1, <2>2, RequestChanges, PlaceKept
    <2>4. req' = [req EXCEPT ![q] = r] /\ session' = Withdrawn(session, s, q)
      BY <1>0, <1>5 DEF SendFails
    <2> HIDE DEF r
    <2> QED
      BY <2>1, <2>3, <2>4, WithdrawnStays, RequestMoves
  <1>6. CASE WatchEnds(q)
    <2> DEFINE s == req[q].to
               a == ShutIfPending(req[q], s, q)
               r == [a EXCEPT !.watched = FALSE]
               b == [req[q] EXCEPT !.watched = FALSE]
    <2>1. s \in Sessions
      BY <1>0, <1>6 DEF WatchEnds, Placed
    <2>2. a \in RequestRec /\ Placed(a) /\ b \in RequestRec /\ Placed(b)
      BY <1>0, ShutKept, RequestChanges, PlaceKept
    <2>3. r \in RequestRec /\ Placed(r)
      <3> HIDE DEF a
      <3> QED
        BY <2>2, RequestChanges, PlaceKept
    <2>4. \/ req' = [req EXCEPT ![q] = r] /\ session' = Withdrawn(session, s, q)
          \/ req' = [req EXCEPT ![q] = b] /\ session' = session
      BY <1>0, <1>6 DEF WatchEnds
    <2> HIDE DEF r, b
    <2>5. CASE req' = [req EXCEPT ![q] = r] /\ session' = Withdrawn(session, s, q)
      BY <2>1, <2>3, <2>5, WithdrawnStays, RequestMoves
    <2>6. CASE req' = [req EXCEPT ![q] = b] /\ session' = session
      BY <1>1, <2>2, <2>6
    <2> QED
      BY <2>4, <2>5, <2>6
  <1>7. CASE ContextDone(q)
    <2> DEFINE r == [req[q] EXCEPT !.done = TRUE]
    <2>1. r \in RequestRec /\ Placed(r)
      BY <1>0, RequestChanges, PlaceKept
    <2>2. req' = [req EXCEPT ![q] = r] /\ session' = session
      BY <1>0, <1>7 DEF ContextDone
    <2> HIDE DEF r
    <2> QED
      BY <1>1, <2>1, <2>2
  <1>8. ASSUME NEW n \in Names, Find(q, n)
        PROVE  Good
    <2> DEFINE p == IF pool[n] = Nobody THEN "refused" ELSE "store"
               a == [req[q] EXCEPT !.to = pool[n]]
               r == [a EXCEPT !.pc = p]
    <2>1. pool[n] \in Sessions \cup {Nobody} /\ p \in {"refused", "store"}
      BY DEF RelayTypeOK
    <2>2. a \in RequestRec
      BY <1>0, <2>1, RequestChanges
    <2>3. r \in RequestRec
      <3> HIDE DEF a, p
      <3> QED
        BY <2>1, <2>2, RequestChanges
    <2>4. r.pc = p /\ r.to = pool[n] /\ ~r.watched
      <3>1. ~req[q].watched
        BY <1>0, <1>8 DEF Find, Placed
      <3> HIDE DEF p
      <3> QED
        BY <1>0, <3>1 DEF RequestRec
    <2>5. req' = [req EXCEPT ![q] = r] /\ session' = session
      BY <1>0, <1>8 DEF Find
    <2>6. Placed(r)
      <3>1. p # "refused" => pool[n] \in Sessions
        BY <2>1
      <3> HIDE DEF r, p
      <3> QED
        BY <2>1, <2>4, <3>1 DEF Placed
    <2> HIDE DEF r
    <2> QED
      BY <1>1, <2>3, <2>5, <2>6
  <1>9. ASSUME NEW s \in Sessions, NEW m \in Terminal \cup 1 .. MaxChunks, Read(s, q, m)
        PROVE  Good
    <2> DEFINE u == IF m \in Terminal THEN [req[q] EXCEPT !.over = TRUE]
                                      ELSE [req[q] EXCEPT !.sent = m]
               a == [session[s] EXCEPT !.reader = "deliver"]
               b == [a EXCEPT !.held = q]
               c == [b EXCEPT !.msg = m]
    <2>1. m \in Int /\ (m \notin Terminal => m \in Nat)
      BY RelayAssumption DEF Terminal, EndMessage, ErrorMessage
    <2>2. u \in RequestRec /\ Placed(u)
      BY <1>0, <2>1, RequestChanges, PlaceKept
    <2>3. a \in SessionRec
      BY <1>0, SessionChanges
    <2>4. b \in SessionRec
      <3> HIDE DEF a
      <3> QED
        BY <2>3, SessionChanges
    <2>5. c \in SessionRec
      <3> HIDE DEF b
      <3> QED
        BY <2>1, <2>4, SessionChanges
    <2>6. Stays(session[s], c)
      BY <1>0 DEF Stays, SessionRec
    <2>7. req' = [req EXCEPT ![q] = u]
      BY <1>0, <1>9 DEF Read
    <2>8. session' = session \/ session' = [session EXCEPT ![s] = c]
      BY <1>0, <1>9 DEF Read
    <2> HIDE DEF c, u
    <2> QED
      BY <1>1, <2>2, <2>5, <2>6, <2>7, <2>8, SessionStays, RequestMoves
  <1>10. CASE Consume(q)
    <2> DEFINE r == req[q]
    <2>0. /\ r.pc = "await" /\ r.to \in Sessions /\ session' = session
          /\ r.buf \in Seq(Int) /\ r.got \in Seq(Int)
      BY <1>0, <1>10 DEF Consume, Placed, RequestRec
    <2>1. ASSUME NEW x \in RequestRec, x.to = r.to, x.watched = r.watched, x.pc = "await",
                 NEW o \in {"answer", "error", "canceled"},
                 req' = [req EXCEPT ![q] = [[x EXCEPT !.pc = "ended"] EXCEPT !.outcome = o]]
          PROVE  Good
      <3> DEFINE a == [x EXCEPT !.pc = "ended"]
                 b == [a EXCEPT !.outcome = o]
      <3>1. Placed(x)
        BY <2>0, <2>1 DEF Placed
      <3>2. a \in RequestRec /\ Placed(a)
        BY <2>0, <2>1, <3>1, RequestChanges, PlaceKept
      <3>3. b \in RequestRec /\ Placed(b)
        <4> HIDE DEF a
        <4> QED
          BY <3>2, RequestChanges, PlaceKept
      <3>4. req' = [req EXCEPT ![q] = b]
        BY <2>1
      <3> HIDE DEF b
      <3> QED
        BY <1>1, <2>0, <3>3, <3>4
    <2>2. ASSUME NEW o \in {"answer", "error", "canceled"}, End(q, o)
          PROVE  Good
      <3>1. req' = [req EXCEPT ![q] = [[r EXCEPT !.pc = "ended"] EXCEPT !.outcome = o]]
        BY <1>0, <2>2 DEF End
      <3> QED
        BY <1>0, <2>0, <2>1, <3>1
    <2>3. CASE r.buf # <<>>
      <3> DEFINE m == Head(r.buf)
                 x == [r EXCEPT !.buf = Tail(r.buf)]
                 y == [x EXCEPT !.got = Append(r.got, m)]
      <3>1. m \in Int /\ Tail(r.buf) \in Seq(Int) /\ Append(r.got, m) \in Seq(Int)
        BY <2>0, <2>3
      <3>2. x \in RequestRec
        BY <1>0, <3>1, RequestChanges
      <3>3. x.to = r.to /\ x.watched = r.watched /\ x.pc = "await" /\ x.got = r.got
        BY <1>0, <2>0 DEF RequestRec
      <3>4. \/ \E o \in {"answer", "error", "canceled"} :
                  req' = [req EXCEPT ![q] = [[x EXCEPT !.pc = "ended"] EXCEPT !.outcome = o]]
            \/ req' = [req EXCEPT ![q] = y]
            \/ \E o \in {"answer", "error", "canceled"} : End(q, o)
        <4>1. CASE m = EndMessage
          BY <1>0, <1>10, <4>1 DEF Consume
        <4>2. CASE m = ErrorMessage
          BY <1>0, <1>10, <4>2 DEF Consume, EndMessage, ErrorMessage
        <4>3. CASE m # EndMessage /\ m # ErrorMessage
          BY <1>0, <1>10, <4>3 DEF Consume
        <4> QED
          BY <4>1, <4>2, <4>3
      <3>5. y \in RequestRec /\ Placed(y)
        <4>1. Placed(x)
          BY <2>0, <3>3 DEF Placed
        <4> HIDE DEF x, m
        <4> QED
          BY <3>1, <3>2, <4>1, RequestChanges, PlaceKept
      <3> HIDE DEF x, y, m
      <3> QED
        BY <1>1, <2>0, <2>1, <2>2, <3>2, <3>3, <3>4, <3>5
    <2>4. CASE r.buf = <<>>
      <3>1. \E o \in {"answer", "error", "canceled"} : End(q, o)
        BY <1>10, <2>4 DEF Consume
      <3> QED
        BY <2>2, <3>1
    <2> QED
      BY <2>3, <2>4
  <1> QED
    BY <1>2, <1>3, <1>4, <1>5, <1>6, <1>7, <1>8, <1>9, <1>10 DEF Busy

\* The reader's steps and the errors of the cleanup do as little.
LEMMA ServeMoves ==
    ASSUME RelayTypeOK, NEW s \in Sessions, Fail(s) \/ Deliver(s) \/ Finish(s),
           session[s].reader = "idle" \/ session[s].held \in Requests
    PROVE  /\ RelayTypeOK' /\ pool' = pool /\ stopping' = stopping
           /\ \A t \in Sessions : Stays(session[t], session'[t])
  <1>0. /\ session \in [Sessions -> SessionRec] /\ session[s] \in SessionRec
        /\ req \in [Requests -> RequestRec]
        /\ UNCHANGED <<pool, stopping, stopped>>
    BY DEF RelayTypeOK, Fail, Deliver, Finish
  <1> DEFINE Good == /\ session' \in [Sessions -> SessionRec]
                     /\ req' \in [Requests -> RequestRec]
                     /\ \A p \in Requests : Placed(req[p])'
                     /\ \A t \in Sessions : Stays(session[t], session'[t])
  <1> SUFFICES Good
    BY <1>0 DEF RelayTypeOK
  <1>1. CASE Fail(s)
    <2> DEFINE q == session[s].at
               a == Pushed(req[q], ErrorMessage)
               r == Shut(a)
               x == [session[s] EXCEPT !.at = Nobody]
    <2>1. q \in Requests /\ req[q] \in RequestRec /\ Placed(req[q])
      BY <1>0, <1>1 DEF Fail, SessionRec, RelayTypeOK
    <2>2. a \in RequestRec /\ Placed(a)
      BY <2>1, PushKept DEF ErrorMessage
    <2>3. r \in RequestRec /\ Placed(r)
      <3>1. r = [a EXCEPT !.shut = TRUE]
        BY DEF Shut
      <3> HIDE DEF a, r
      <3> QED
        BY <2>2, <3>1, RequestChanges, PlaceKept
    <2>4. x \in SessionRec /\ Stays(session[s], x)
      <3>1. x \in SessionRec
        BY <1>0, SessionChanges
      <3>2. Stays(session[s], x)
        BY <1>0 DEF Stays, SessionRec
      <3> QED
        BY <3>1, <3>2
    <2>5. session' = [session EXCEPT ![s] = x]
      BY <1>0, <1>1 DEF Fail
    <2>6. req' = [req EXCEPT ![q] = r]
      BY <1>1 DEF Fail
    <2> HIDE DEF r, x, q
    <2> QED
      BY <2>1, <2>3, <2>4, <2>5, <2>6, SessionStays, RequestMoves
  <1>2. CASE Deliver(s)
    <2> DEFINE q == session[s].held
               m == session[s].msg
               r == IF req[q].shut THEN req[q] ELSE Pushed(req[q], m)
               e == IF m \in Terminal THEN "finish" ELSE "idle"
               x == [session[s] EXCEPT !.reader = e]
    <2>1. q \in Requests /\ req[q] \in RequestRec /\ Placed(req[q]) /\ m \in Int
      BY <1>0, <1>2 DEF Deliver, SessionRec, RelayTypeOK
    <2>2. r \in RequestRec /\ Placed(r)
      BY <2>1, PushKept
    <2>3. x \in SessionRec
      <3>1. e \in {"finish", "idle"}
        OBVIOUS
      <3> HIDE DEF e
      <3> QED
        BY <1>0, <3>1, SessionChanges
    <2>4. Stays(session[s], x)
      BY <1>0 DEF Stays, SessionRec
    <2>5. session' = [session EXCEPT ![s] = x]
      BY <1>0, <1>2 DEF Deliver
    <2>6. req' = [req EXCEPT ![q] = r]
      <3>1. CASE req[q].shut
        BY <1>0, <1>2, <2>1, <3>1 DEF Deliver
      <3>2. CASE ~req[q].shut
        BY <1>0, <1>2, <2>1, <3>2 DEF Deliver
      <3> QED
        BY <3>1, <3>2
    <2> HIDE DEF r, x, q
    <2> QED
      BY <2>1, <2>2, <2>3, <2>4, <2>5, <2>6, SessionStays, RequestMoves
  <1>3. CASE Finish(s)
    <2> DEFINE q == session[s].held
               r == ShutIfPending(req[q], s, q)
               w == Withdrawn(session, s, q)
               x == [w[s] EXCEPT !.reader = "idle"]
    <2>1. q \in Requests /\ req[q] \in RequestRec /\ Placed(req[q])
      BY <1>0, <1>3 DEF Finish, RelayTypeOK
    <2>2. r \in RequestRec /\ Placed(r)
      BY <2>1, ShutKept
    <2>3. /\ w \in [Sessions -> SessionRec] /\ \A t \in Sessions : Stays(session[t], w[t])
      BY <2>1, WithdrawnMoves DEF Stays
    <2>4. session' = [w EXCEPT ![s] = x]
      BY <2>3, <1>3 DEF Finish
    <2>5. req' = [req EXCEPT ![q] = r]
      BY <1>3 DEF Finish
    <2>6. x \in SessionRec /\ Stays(w[s], x)
      <3> HIDE DEF w
      <3>1. w[s] \in SessionRec
        BY <2>3
      <3>2. x \in SessionRec
        BY <3>1, SessionChanges
      <3>3. Stays(w[s], x)
        BY <3>1 DEF Stays, SessionRec
      <3> QED
        BY <3>2, <3>3
    <2>7. /\ session' \in [Sessions -> SessionRec]
          /\ \A t \in Sessions : Stays(session[t], session'[t])
      <3> HIDE DEF w, x
      <3> QED
        BY <2>3, <2>4, <2>6 DEF Stays
    <2> HIDE DEF r, q
    <2> QED
      BY <2>1, <2>2, <2>5, <2>7, RequestMoves
  <1> QED
    BY <1>1, <1>2, <1>3

-----------------------------------------------------------------------------
(* What is on its way to a request.                                         *)

\* The reader brings it a part of its answer, the last message, or has brought
\* that and will close its channel.
BringsPart(q) == \E s \in Sessions : /\ session[s].reader = "deliver" /\ session[s].held = q
                                     /\ session[s].msg \notin Terminal
Parts(q) == IF BringsPart(q) THEN 1 ELSE 0
BringsLast(q) == \E s \in Sessions : /\ session[s].reader = "deliver" /\ session[s].held = q
                                     /\ session[s].msg \in Terminal
WillShut(q) == \E s \in Sessions : session[s].reader = "finish" /\ session[s].held = q

\* c parts are in the channel, and after them only terminal messages: the end not
\* before all parts.  What has no terminal message is not closed and lacks at most
\* the part the reader has in hand.
Split(r, c, part) ==
    /\ \A i \in 1 .. c : r.buf[i] = Len(r.got) + i
    /\ \A i \in (c + 1) .. Len(r.buf) :
          /\ r.buf[i] \in Terminal
          /\ r.buf[i] = EndMessage => r.over /\ r.sent = Len(r.got) + c
    /\ c = Len(r.buf) => ~r.shut /\ r.sent = Len(r.got) + c + part
    /\ c < Len(r.buf) => r.over \/ r.shut

\* What was received and what is in the channel are what was sent so far.
Flows(r, part, last, shuts) ==
    /\ \A i \in 1 .. Len(r.got) : r.got[i] = i
    /\ \E c \in 0 .. Len(r.buf) :
          /\ Split(r, c, part)
          /\ last /\ ~r.shut => c = Len(r.buf)
          /\ shuts => c < Len(r.buf)

\* Two requests that differ in nothing that flows.
Alike(r, x) == /\ x.buf = r.buf /\ x.got = r.got /\ x.sent = r.sent
               /\ x.over = r.over /\ x.shut = r.shut

\* What flows to a client depends on nothing else of its request.
LEMMA AlikeFlows ==
    ASSUME NEW r, NEW x, Alike(r, x), NEW part \in Nat, NEW last, NEW shuts,
           Flows(r, part, last, shuts)
    PROVE  Flows(x, part, last, shuts)
  BY DEF Alike, Flows, Split

\* The reader puts the part it holds into the channel.
LEMMA PartPushed ==
    ASSUME NEW r \in RequestRec, NEW x \in RequestRec,
           Flows(r, 1, FALSE, FALSE), ~r.shut, ~r.over,
           x.buf = Append(r.buf, r.sent), x.got = r.got, x.sent = r.sent,
           x.over = r.over, x.shut = r.shut
    PROVE  Flows(x, 0, FALSE, FALSE)
  <1>1. /\ r.buf \in Seq(Int) /\ r.got \in Seq(Int) /\ r.sent \in Nat
    BY DEF RequestRec
  <1>2. /\ \A i \in 1 .. Len(r.got) : r.got[i] = i
        /\ \E c \in 0 .. Len(r.buf) : Split(r, c, 1)
    BY DEF Flows
  <1>3. PICK c \in 0 .. Len(r.buf) : Split(r, c, 1)
    BY <1>2
  <1> DEFINE g == Len(r.got)
             b == Len(r.buf)
  <1>4. g \in Nat /\ b \in Nat
    BY <1>1
  <1>5. c = b /\ r.sent = g + c + 1 /\ \A i \in 1 .. c : r.buf[i] = g + i
    BY <1>1, <1>3 DEF Split
  <1>6. /\ Len(x.buf) = b + 1 /\ x.buf[b + 1] = r.sent
        /\ \A i \in 1 .. b : x.buf[i] = r.buf[i]
    BY <1>1
  <1>7. Len(x.got) = g /\ x.sent = r.sent
    OBVIOUS
  <1> HIDE DEF g, b
  <1>8. /\ x.sent = g + (c + 1) + 0 /\ c + 1 = Len(x.buf)
        /\ c + 1 \in 0 .. Len(x.buf)
    BY <1>4, <1>5, <1>6, <1>7
  <1>9. ASSUME NEW i \in 1 .. c + 1
        PROVE  x.buf[i] = g + i
    <2>1. CASE i = c + 1
      <3>1. x.buf[i] = r.sent
        BY <1>5, <1>6, <2>1
      <3> QED
        BY <1>4, <1>5, <2>1, <3>1
    <2>2. CASE i # c + 1
      <3>1. i \in 1 .. c
        BY <1>4, <1>5, <2>2
      <3> QED
        BY <1>5, <1>6, <3>1
    <2> QED
      BY <2>1, <2>2
  <1>10. \A i \in (c + 1) + 1 .. Len(x.buf) : FALSE
    BY <1>4, <1>8
  <1>11. Split(x, c + 1, 0)
    BY <1>7, <1>8, <1>9, <1>10 DEF Split
  <1> QED
    BY <1>2, <1>8, <1>11 DEF Flows

\* The reader puts the end it holds into the channel.
LEMMA LastPushed ==
    ASSUME NEW r \in RequestRec, NEW x \in RequestRec, NEW m \in Terminal,
           Flows(r, 0, TRUE, FALSE), ~r.shut, r.over,
           x.buf = Append(r.buf, m), x.got = r.got, x.sent = r.sent,
           x.over = r.over, x.shut = r.shut
    PROVE  Flows(x, 0, FALSE, TRUE)
  <1>1. /\ r.buf \in Seq(Int) /\ r.got \in Seq(Int) /\ r.sent \in Nat
    BY DEF RequestRec
  <1>2. /\ \A i \in 1 .. Len(r.got) : r.got[i] = i
        /\ Split(r, Len(r.buf), 0)
    BY DEF Flows
  <1>3. /\ Len(x.buf) = Len(r.buf) + 1
        /\ \A i \in 1 .. Len(r.buf) : x.buf[i] = r.buf[i]
        /\ x.buf[Len(r.buf) + 1] = m
    BY <1>1 DEF Terminal, EndMessage, ErrorMessage
  <1>4. r.sent = Len(r.got) + Len(r.buf)
    <2>1. r.sent = Len(r.got) + Len(r.buf) + 0
      BY <1>2, Zenon DEF Split
    <2> QED
      BY <1>1, <2>1
  <1>5. \A i \in 1 .. Len(r.buf) : x.buf[i] = Len(x.got) + i
    BY <1>2, <1>3 DEF Split
  <1>6. Split(x, Len(r.buf), 0)
    BY <1>1, <1>3, <1>4, <1>5 DEF Split
  <1>7. Len(r.buf) \in 0 .. Len(x.buf) /\ Len(r.buf) < Len(x.buf)
    BY <1>1, <1>3
  <1> QED
    BY <1>2, <1>6, <1>7 DEF Flows

\* A closed channel takes nothing, and has a terminal message already.
LEMMA NotPushed ==
    ASSUME NEW r \in RequestRec, NEW part \in Nat, NEW last, r.shut,
           Flows(r, part, last, FALSE)
    PROVE  Flows(r, 0, FALSE, FALSE) /\ Flows(r, 0, FALSE, TRUE)
  <1>1. r.buf \in Seq(Int)
    BY DEF RequestRec
  <1>2. PICK c \in 0 .. Len(r.buf) : Split(r, c, part)
    BY DEF Flows
  <1>3. c < Len(r.buf) /\ Split(r, c, 0)
    BY <1>1, <1>2 DEF Split
  <1> QED
    BY <1>2, <1>3 DEF Flows

\* The cleanup's error.
LEMMA ErrorPushed ==
    ASSUME NEW r \in RequestRec, NEW x \in RequestRec, NEW part \in Nat, NEW last, NEW shuts,
           Flows(r, part, last, shuts), x.buf = Append(r.buf, ErrorMessage),
           x.got = r.got, x.sent = r.sent, x.over = r.over, x.shut
    PROVE  Flows(x, part, last, shuts)
  <1>1. /\ r.buf \in Seq(Int) /\ r.got \in Seq(Int) /\ r.sent \in Nat
    BY DEF RequestRec
  <1>2. PICK c \in 0 .. Len(r.buf) : Split(r, c, part)
    BY DEF Flows
  <1>3. /\ Len(x.buf) = Len(r.buf) + 1
        /\ \A i \in 1 .. Len(r.buf) : x.buf[i] = r.buf[i]
        /\ x.buf[Len(x.buf)] = ErrorMessage
    BY <1>1 DEF ErrorMessage
  <1>4. c \in 0 .. Len(x.buf) /\ c < Len(x.buf) /\ Split(x, c, part)
    BY <1>1, <1>2, <1>3 DEF Split, Terminal, EndMessage, ErrorMessage
  <1> QED
    BY <1>4 DEF Flows

\* Closed after its last message.
LEMMA ShutFlows ==
    ASSUME NEW r \in RequestRec, NEW x \in RequestRec,
           Flows(r, 0, FALSE, TRUE), x.buf = r.buf, x.got = r.got, x.sent = r.sent,
           x.over = r.over, x.shut = r.shut \/ x.shut
    PROVE  Flows(x, 0, FALSE, FALSE)
  <1>1. r.buf \in Seq(Int)
    BY DEF RequestRec
  <1>2. PICK c \in 0 .. Len(r.buf) : Split(r, c, 0) /\ c < Len(r.buf)
    BY DEF Flows
  <1>3. Split(x, c, 0)
    BY <1>1, <1>2 DEF Split
  <1> QED
    BY <1>2, <1>3 DEF Flows

\* The other side sends a part, or the last message.
LEMMA PartRead ==
    ASSUME NEW r \in RequestRec, NEW x \in RequestRec,
           Flows(r, 0, FALSE, FALSE), ~r.over, x.sent = r.sent + 1, x.buf = r.buf,
           x.got = r.got, x.over = r.over, x.shut = r.shut
    PROVE  Flows(x, 1, FALSE, FALSE)
  <1>1. /\ r.buf \in Seq(Int) /\ r.got \in Seq(Int) /\ r.sent \in Nat
    BY DEF RequestRec
  <1>2. PICK c \in 0 .. Len(r.buf) : Split(r, c, 0)
    BY DEF Flows
  <1>3. Split(x, c, 1)
    BY <1>1, <1>2 DEF Split
  <1> QED
    BY <1>2, <1>3 DEF Flows

\* The reader takes the end of an answer from its connection.
LEMMA LastRead ==
    ASSUME NEW r \in RequestRec, NEW x \in RequestRec,
           Flows(r, 0, FALSE, FALSE), ~r.over, x.over, x.sent = r.sent, x.buf = r.buf,
           x.got = r.got, x.shut = r.shut
    PROVE  Flows(x, 0, TRUE, FALSE)
  <1>1. /\ r.buf \in Seq(Int) /\ r.got \in Seq(Int) /\ r.sent \in Nat
    BY DEF RequestRec
  <1>2. PICK c \in 0 .. Len(r.buf) : Split(r, c, 0)
    BY DEF Flows
  <1>3. Split(x, c, 0) /\ (~x.shut => c = Len(x.buf))
    BY <1>1, <1>2 DEF Split
  <1> QED
    BY <1>2, <1>3 DEF Flows

\* A part is taken from the channel.
LEMMA PartTaken ==
    ASSUME NEW r \in RequestRec, NEW x \in RequestRec, NEW part \in Nat, NEW last, NEW shuts,
           Flows(r, part, last, shuts), r.buf # <<>>, Head(r.buf) \notin Terminal,
           x.buf = Tail(r.buf), x.got = Append(r.got, Head(r.buf)),
           x.sent = r.sent, x.over = r.over, x.shut = r.shut
    PROVE  Flows(x, part, last, shuts)
  <1>1. /\ r.buf \in Seq(Int) /\ r.got \in Seq(Int) /\ r.sent \in Nat
    BY DEF RequestRec
  <1>2. PICK c \in 0 .. Len(r.buf) : /\ Split(r, c, part)
                                     /\ last /\ ~r.shut => c = Len(r.buf)
                                     /\ shuts => c < Len(r.buf)
    BY DEF Flows
  <1>3. Head(r.buf) = r.buf[1] /\ Len(r.buf) >= 1 /\ Head(r.buf) \in Int
    BY <1>1
  <1>4. c >= 1
    BY <1>2, <1>3 DEF Split
  <1>5. /\ Len(x.buf) = Len(r.buf) - 1 /\ Len(x.got) = Len(r.got) + 1
        /\ \A i \in 1 .. Len(x.buf) : x.buf[i] = r.buf[i + 1]
        /\ \A i \in 1 .. Len(r.got) : x.got[i] = r.got[i]
        /\ x.got[Len(x.got)] = Len(r.got) + 1
    BY <1>1, <1>2, <1>3, <1>4 DEF Split
  <1>6. \A i \in 1 .. Len(x.got) : x.got[i] = i
    BY <1>1, <1>5 DEF Flows
  <1>7. Split(x, c - 1, part)
    <2>1. \A i \in 1 .. c - 1 : x.buf[i] = Len(x.got) + i
      BY <1>1, <1>2, <1>4, <1>5 DEF Split
    <2>2. \A i \in (c - 1) + 1 .. Len(x.buf) :
             /\ x.buf[i] \in Terminal
             /\ x.buf[i] = EndMessage => x.over /\ x.sent = Len(x.got) + (c - 1)
      BY <1>1, <1>2, <1>4, <1>5 DEF Split
    <2>3. c - 1 = Len(x.buf) =>
             ~x.shut /\ x.sent = Len(x.got) + (c - 1) + part
      <3>1. c - 1 = Len(x.buf) =>
               ~r.shut /\ r.sent = Len(r.got) + c + part
        BY <1>1, <1>2, <1>5 DEF Split
      <3> QED
        BY <1>1, <1>5, <3>1
    <2>4. c - 1 < Len(x.buf) => x.over \/ x.shut
      BY <1>1, <1>2, <1>5 DEF Split
    <2> QED
      BY <2>1, <2>2, <2>3, <2>4 DEF Split
  <1>8. c - 1 \in 0 .. Len(x.buf)
    BY <1>1, <1>2, <1>4, <1>5
  <1>9. /\ last /\ ~x.shut => c - 1 = Len(x.buf)
        /\ shuts => c - 1 < Len(x.buf)
    BY <1>1, <1>2, <1>5
  <1> QED
    BY <1>6, <1>7, <1>8, <1>9 DEF Flows

\* Its end is taken: all parts were.
LEMMA EndTaken ==
    ASSUME NEW r \in RequestRec, NEW part \in Nat, NEW last, NEW shuts,
           Flows(r, part, last, shuts), r.buf # <<>>, Head(r.buf) = EndMessage
    PROVE  r.over /\ r.got = [i \in 1 .. r.sent |-> i]
  <1>1. /\ r.buf \in Seq(Int) /\ r.got \in Seq(Int) /\ r.sent \in Nat
    BY DEF RequestRec
  <1>2. PICK c \in 0 .. Len(r.buf) : Split(r, c, part)
    BY DEF Flows
  <1>3. Head(r.buf) = r.buf[1] /\ Len(r.buf) >= 1
    BY <1>1
  <1>4. c = 0
    <2>1. c >= 1 => r.buf[1] = Len(r.got) + 1
      BY <1>2 DEF Split
    <2> QED
      BY <1>1, <1>3, <2>1 DEF EndMessage
  <1>5. r.over /\ r.sent = Len(r.got)
    BY <1>1, <1>2, <1>3, <1>4 DEF Split
  <1>6. \A i \in 1 .. Len(r.got) : r.got[i] = i
    BY DEF Flows
  <1>7. r.got = [i \in 1 .. Len(r.got) |-> r.got[i]]
    BY <1>1
  <1> QED
    BY <1>5, <1>6, <1>7

\* An empty channel is not closed.
LEMMA EmptyIsOpen ==
    ASSUME NEW r \in RequestRec, NEW part \in Nat, NEW last, NEW shuts,
           Flows(r, part, last, shuts), r.buf = <<>>
    PROVE  ~r.shut
  <1>1. PICK c \in 0 .. Len(r.buf) : Split(r, c, part)
    BY DEF Flows
  <1>2. Len(r.buf) = 0
    OBVIOUS
  <1> QED
    BY <1>1, <1>2 DEF Split

-----------------------------------------------------------------------------
(* The invariant.                                                           *)

\* A reader that is not idle serves a request sent to its session, whose answer is
\* over once its last message was read, and not before.
ReaderOK(s) ==
    LET x == session[s]
        r == req[x.held]
    IN  x.reader # "idle" =>
            /\ x.held \in Requests /\ r.to = s /\ r.pc \in {"await", "ended"}
            /\ x.reader = "deliver" /\ x.msg \notin Terminal => ~r.over /\ x.msg = r.sent
            /\ x.reader = "finish" \/ x.msg \in Terminal => r.over

\* The map of a session that is not closed has the request about to be sent, and a
\* session that still reads has the one that waits.
EntryOK(q) ==
    LET r == req[q]
        x == session[r.to]
    IN  /\ r.pc = "send" /\ x.closing = "no" => q \in x.pending \/ r.done
        /\ r.pc = "await" /\ x.closing \in {"no", "range"} =>
              q \in x.pending \/ r.over \/ r.done

AnswerOK(q) ==
    LET r == req[q]
    IN  \/ q \in dropped \/ r.done \/ r.pc \in {"refused", "panicked"}
        \/ /\ r.pc = "ended"
           /\ r.outcome = "answer" => r.over /\ r.got = [i \in 1 .. r.sent |-> i]
        \/ r.pc # "ended" /\ Flows(r, Parts(q), BringsLast(q), WillShut(q))

RequestOK(q) == /\ EntryOK(q) /\ AnswerOK(q)
                /\ req[q].pc # "ended" => req[q].outcome = "none"

RelayInv == /\ RelayTypeOK
            /\ \A s \in Sessions : ReaderOK(s)
            /\ \A q \in Requests : RequestOK(q)

\* It says of every answer that it is whole unless a message was dropped.
LEMMA InvIsWhole == RelayInv => WholeUnlessDropped
  BY DEF RelayInv, RequestOK, AnswerOK, WholeUnlessDropped

\* What is on its way to a request stays while no reader serves it otherwise.
Serves(x, p) == x.reader # "idle" /\ x.held = p

Sees(p, x, y) ==
    /\ Serves(x, p) <=> Serves(y, p)
    /\ Serves(x, p) => y.reader = x.reader /\ y.msg = x.msg

\* What the readers bring to a request depends only on those that serve it.
LEMMA FlagsRest ==
    ASSUME NEW p, \A t \in Sessions : Sees(p, session[t], session'[t]),
           \A t \in Sessions : session[t] \in SessionRec /\ session'[t] \in SessionRec
    PROVE  /\ BringsPart(p)' <=> BringsPart(p)
           /\ BringsLast(p)' <=> BringsLast(p)
           /\ WillShut(p)' <=> WillShut(p)
           /\ Parts(p)' = Parts(p)
  <1>1. ASSUME NEW t \in Sessions
        PROVE  /\ session'[t].reader = "deliver" /\ session'[t].held = p <=>
                     session[t].reader = "deliver" /\ session[t].held = p
               /\ session'[t].reader = "finish" /\ session'[t].held = p <=>
                     session[t].reader = "finish" /\ session[t].held = p
               /\ session[t].reader = "deliver" /\ session[t].held = p =>
                     session'[t].msg = session[t].msg
    BY DEF Sees, Serves
  <1>2. BringsPart(p)' <=> BringsPart(p)
    BY <1>1 DEF BringsPart
  <1>3. BringsLast(p)' <=> BringsLast(p)
    BY <1>1 DEF BringsLast
  <1>4. WillShut(p)' <=> WillShut(p)
    BY <1>1 DEF WillShut
  <1> QED
    BY <1>2, <1>3, <1>4 DEF Parts

\* The flow of a request stays with what is on its way.
LEMMA FlowRests ==
    ASSUME NEW p, NEW r, NEW x, Alike(r, x),
           Flows(r, Parts(p), BringsLast(p), WillShut(p)),
           BringsLast(p)' <=> BringsLast(p), WillShut(p)' <=> WillShut(p),
           Parts(p)' = Parts(p)
    PROVE  Flows(x, Parts(p)', BringsLast(p)', WillShut(p)')
  BY DEF Flows, Split, Alike

\* A connection's own steps leave all requests as they are.
LEMMA QuietKeeps ==
    ASSUME RelayInv, NEW s \in Sessions, Quiet(s)
    PROVE  RelayInv'
  <1>1. /\ RelayTypeOK' /\ req' = req /\ dropped' = dropped
        /\ \A t \in Sessions : Goes(session[t], session'[t])
    BY QuietMoves DEF RelayInv
  <1>2. \A t \in Sessions : session[t] \in SessionRec /\ session'[t] \in SessionRec
    BY <1>1 DEF RelayInv, RelayTypeOK
  <1>3. ASSUME NEW t \in Sessions PROVE ReaderOK(t)'
    BY <1>1 DEF RelayInv, ReaderOK, Goes
  <1>4. ASSUME NEW q \in Requests PROVE RequestOK(q)'
    <2>1. RequestOK(q)
      BY DEF RelayInv
    <2>2. EntryOK(q)'
      <3>1. req[q].pc \in {"send", "await"} => req[q].to \in Sessions
        BY DEF RelayInv, RelayTypeOK, Placed
      <3> QED
        BY <1>1, <2>1, <3>1 DEF RequestOK, EntryOK, Goes
    <2>3. \A t \in Sessions : Sees(q, session[t], session'[t])
      BY <1>1 DEF Goes, Sees, Serves
    <2>4. AnswerOK(q)'
      BY <1>1, <1>2, <2>1, <2>3, FlagsRest, FlowRests DEF RequestOK, AnswerOK, Alike
    <2> QED
      BY <1>1, <2>1, <2>2, <2>4 DEF RequestOK
  <1> QED
    BY <1>1, <1>3, <1>4 DEF RelayInv

\* A session in which only the entry of q may change.
Rests(q, x, y) ==
    /\ y.reader = x.reader /\ y.held = x.held /\ y.msg = x.msg /\ y.closing = x.closing
    /\ \A p \in Requests : p # q => (p \in y.pending <=> p \in x.pending)

\* A step that moves one request, and its entry, leaves the others as they are.
LEMMA OneRequestMoves ==
    ASSUME RelayInv, RelayTypeOK', NEW q \in Requests,
           \A p \in Requests : p # q => req'[p] = req[p],
           dropped \subseteq dropped',
           \A t \in Sessions : Rests(q, session[t], session'[t]),
           req[q].pc \in {"await", "ended"} =>
               /\ req'[q].pc \in {"await", "ended"} /\ req'[q].to = req[q].to
               /\ req'[q].over = req[q].over /\ req'[q].sent = req[q].sent,
           EntryOK(q)', AnswerOK(q)',
           req'[q].pc # "ended" => req'[q].outcome = "none"
    PROVE  RelayInv'
  <1>1. \A t \in Sessions : session[t] \in SessionRec /\ session'[t] \in SessionRec
    BY DEF RelayInv, RelayTypeOK
  <1>2. ASSUME NEW t \in Sessions PROVE ReaderOK(t)'
    BY DEF RelayInv, ReaderOK, Rests
  <1>3. ASSUME NEW p \in Requests, p # q PROVE RequestOK(p)'
    <2>1. RequestOK(p) /\ req'[p] = req[p]
      BY <1>3 DEF RelayInv
    <2>2. EntryOK(p)'
      <3>1. req[p].pc \in {"send", "await"} => req[p].to \in Sessions
        BY DEF RelayInv, RelayTypeOK, Placed
      <3> QED
        BY <1>3, <2>1, <3>1 DEF RequestOK, EntryOK, Rests
    <2>3. \A t \in Sessions : Sees(p, session[t], session'[t])
      BY DEF Rests, Sees, Serves
    <2>4. AnswerOK(p)'
      BY <1>1, <2>1, <2>3, FlagsRest, FlowRests DEF RequestOK, AnswerOK, Alike
    <2> QED
      BY <2>1, <2>2, <2>4 DEF RequestOK
  <1>4. RequestOK(q)'
    BY DEF RequestOK
  <1> QED
    BY <1>2, <1>3, <1>4 DEF RelayInv

\* What is on the way to the request that moves.
LEMMA MoverFlags ==
    ASSUME RelayInv, RelayTypeOK', NEW q \in Requests,
           \A t \in Sessions : Rests(q, session[t], session'[t])
    PROVE  /\ BringsLast(q)' <=> BringsLast(q)
           /\ WillShut(q)' <=> WillShut(q)
           /\ Parts(q)' = Parts(q)
  <1>1. \A t \in Sessions : session[t] \in SessionRec /\ session'[t] \in SessionRec
    BY DEF RelayInv, RelayTypeOK
  <1>2. \A t \in Sessions : Sees(q, session[t], session'[t])
    BY DEF Rests, Sees, Serves
  <1> QED
    BY <1>1, <1>2, FlagsRest

\* Before a request waits for its answer nothing but an error can come to it.
LEMMA SendingKeeps ==
    ASSUME RelayInv, NEW q \in Requests,
           Store(q) \/ Load(q) \/ Send(q) \/ \E n \in Names : Find(q, n)
    PROVE  RelayInv'
  <1>0. /\ session \in [Sessions -> SessionRec]
        /\ req \in [Requests -> RequestRec] /\ req[q] \in RequestRec
        /\ Placed(req[q]) /\ EntryOK(q) /\ AnswerOK(q)
        /\ req[q].pc \in {"idle", "store", "load", "send"} /\ req[q].outcome = "none"
    BY DEF RelayInv, RelayTypeOK, RequestOK, Store, Load, Send, Find
  <1>1. /\ RelayTypeOK' /\ dropped' = dropped
        /\ \A p \in Requests : p # q => req'[p] = req[p]
    <2>1. Busy(q)
      BY DEF Busy
    <2>2. RelayTypeOK'
      BY <2>1, BusyMoves DEF RelayInv
    <2> QED
      BY <1>0, <2>2 DEF Store, Load, Send, Find
  <1>2. ASSUME NEW t \in Sessions PROVE Rests(q, session[t], session'[t])
    <2>1. CASE session' = session
      BY <2>1 DEF Rests
    <2>2. CASE Store(q)
      BY <1>0, <2>2 DEF Store, Rests, SessionRec
    <2> QED
      BY <2>1, <2>2 DEF Load, Send, Find
  <1>3. /\ Alike(req[q], req'[q]) /\ req'[q].outcome = "none" /\ req'[q].done = req[q].done
        /\ req'[q].pc \in {"store", "load", "send", "await", "refused", "panicked"}
    <2>1. CASE Store(q)
      BY <1>0, <2>1 DEF Store, Alike, RequestRec
    <2>2. CASE Load(q)
      BY <1>0, <2>2 DEF Load, Alike, RequestRec
    <2>3. CASE Send(q)
      BY <1>0, <2>3 DEF Send, Alike, RequestRec
    <2>4. ASSUME NEW n \in Names, Find(q, n)
          PROVE  <1>3!:
      BY <1>0, <2>4 DEF Find, Alike, RequestRec
    <2> QED
      BY <2>1, <2>2, <2>3, <2>4
  <1>4. EntryOK(q)'
    <2>1. CASE Store(q)
      BY <1>0, <2>1 DEF Store, EntryOK, RequestRec
    <2>2. CASE Load(q)
      BY <1>0, <2>2 DEF Load, EntryOK, RequestRec
    <2>3. CASE Send(q)
      <3>1. req'[q].to = req[q].to /\ req'[q].pc = "await" /\ session' = session
        BY <1>0, <2>3 DEF Send, RequestRec
      <3> QED
        BY <1>0, <2>3, <3>1 DEF Send, EntryOK, Closed
    <2>4. ASSUME NEW n \in Names, Find(q, n)
          PROVE  EntryOK(q)'
      BY <1>0, <2>4 DEF Find, EntryOK, RequestRec
    <2> QED
      BY <2>1, <2>2, <2>3, <2>4
  <1>5. AnswerOK(q)'
    <2>1. /\ BringsLast(q)' <=> BringsLast(q)
          /\ WillShut(q)' <=> WillShut(q)
          /\ Parts(q)' = Parts(q)
      BY <1>1, <1>2, MoverFlags
    <2> QED
      BY <1>0, <1>1, <1>3, <2>1, FlowRests DEF AnswerOK
  <1> QED
    BY <1>0, <1>1, <1>2, <1>3, <1>4, <1>5, OneRequestMoves

\* A request that gives up, or whose client leaves, is of no interest any more.
LEMMA LeavingKeeps ==
    ASSUME RelayInv, NEW q \in Requests,
           SendFails(q) \/ WatchEnds(q) \/ ContextDone(q)
    PROVE  RelayInv'
  <1>0. /\ session \in [Sessions -> SessionRec]
        /\ req \in [Requests -> RequestRec] /\ req[q] \in RequestRec
        /\ Placed(req[q]) /\ EntryOK(q) /\ AnswerOK(q)
        /\ req[q].pc # "ended" => req[q].outcome = "none"
    BY DEF RelayInv, RelayTypeOK, RequestOK
  <1>1. /\ RelayTypeOK' /\ dropped' = dropped
        /\ \A p \in Requests : p # q => req'[p] = req[p]
    <2>1. Busy(q)
      BY DEF Busy
    <2>2. RelayTypeOK'
      BY <2>1, BusyMoves DEF RelayInv
    <2> QED
      BY <1>0, <2>2 DEF SendFails, WatchEnds, ContextDone
  <1> DEFINE s == req[q].to
             a == ShutIfPending(req[q], s, q)
  <1>2. /\ a \in RequestRec /\ a \in {req[q], Shut(req[q])}
        /\ a.to = s /\ a.pc = req[q].pc /\ a.over = req[q].over /\ a.sent = req[q].sent
        /\ a.done = req[q].done /\ a.outcome = req[q].outcome
    <2>1. a \in RequestRec /\ a \in {req[q], Shut(req[q])}
      BY <1>0, ShutKept DEF ShutIfPending
    <2>2. ASSUME NEW b \in {req[q], Shut(req[q])}
          PROVE  /\ b.to = s /\ b.pc = req[q].pc /\ b.over = req[q].over
                 /\ b.sent = req[q].sent
                 /\ b.done = req[q].done /\ b.outcome = req[q].outcome
      BY <1>0 DEF Shut, RequestRec
    <2> HIDE DEF a
    <2> QED
      BY <2>1, <2>2
  <1>3. \/ s \in Sessions /\ session' = Withdrawn(session, s, q)
        \/ session' = session
    BY <1>0 DEF SendFails, WatchEnds, ContextDone, Placed
  <1>4. ASSUME NEW t \in Sessions PROVE Rests(q, session[t], session'[t])
    <2>1. CASE session' = session
      BY <2>1 DEF Rests
    <2>2. CASE s \in Sessions /\ session' = Withdrawn(session, s, q)
      BY <2>2, WithdrawnMoves DEF Rests, RelayInv
    <2> QED
      BY <1>3, <2>1, <2>2
  <1> HIDE DEF a
  <1>5. /\ req'[q].to = s /\ req'[q].over = req[q].over /\ req'[q].sent = req[q].sent
        /\ req'[q].outcome = req[q].outcome
        /\ req[q].done => req'[q].done
    <2>1. CASE SendFails(q)
      BY <1>0, <1>2, <2>1 DEF SendFails, RequestRec, a
    <2>2. CASE WatchEnds(q)
      <3>1. \E b \in {a, req[q]} : req'[q] = [b EXCEPT !.watched = FALSE]
        BY <1>0, <2>2 DEF WatchEnds, a
      <3> QED
        BY <1>0, <1>2, <3>1 DEF RequestRec
    <2>3. CASE ContextDone(q)
      BY <1>0, <2>3 DEF ContextDone, RequestRec
    <2> QED
      BY <2>1, <2>2, <2>3
  <1>6. \/ req'[q].pc = "refused" /\ req[q].pc = "send"
        \/ req'[q].pc = req[q].pc /\ req'[q].done
        \/ req'[q].pc = req[q].pc /\ session' = session /\ Alike(req[q], req'[q])
             /\ req'[q].done = req[q].done
    <2>1. CASE SendFails(q)
      BY <1>0, <1>2, <2>1 DEF SendFails, RequestRec, a
    <2>2. CASE WatchEnds(q)
      BY <1>0, <1>2, <2>2 DEF WatchEnds, RequestRec, Alike, a
    <2>3. CASE ContextDone(q)
      BY <1>0, <2>3 DEF ContextDone, RequestRec
    <2> QED
      BY <2>1, <2>2, <2>3
  <1>7. EntryOK(q)' /\ AnswerOK(q)'
    <2>1. CASE req'[q].pc = "refused"
      BY <2>1 DEF EntryOK, AnswerOK
    <2>2. CASE req'[q].pc = req[q].pc /\ req'[q].done
      BY <2>2 DEF EntryOK, AnswerOK
    <2>3. CASE /\ req'[q].pc = req[q].pc /\ session' = session
               /\ Alike(req[q], req'[q]) /\ req'[q].done = req[q].done
      <3>1. /\ BringsLast(q)' <=> BringsLast(q)
            /\ WillShut(q)' <=> WillShut(q)
            /\ Parts(q)' = Parts(q)
        BY <1>1, <1>4, MoverFlags
      <3>2. AnswerOK(q)'
        BY <1>0, <1>1, <1>5, <2>3, <3>1, FlowRests DEF AnswerOK, Alike
      <3>3. EntryOK(q)'
        BY <1>0, <1>5, <2>3 DEF EntryOK
      <3> QED
        BY <3>2, <3>3
    <2> QED
      BY <1>6, <2>1, <2>2, <2>3
  <1> QED
    BY <1>0, <1>1, <1>4, <1>5, <1>6, <1>7, OneRequestMoves

\* A message taken from the channel goes on from what was received, and an answer
\* that ends is whole.
LEMMA ConsumeKeeps ==
    ASSUME RelayInv, NEW q \in Requests, Consume(q)
    PROVE  RelayInv'
  <1> DEFINE r == req[q]
             x == req'[q]
             m == Head(r.buf)
  <1>0. /\ session \in [Sessions -> SessionRec] /\ session' = session
        /\ req \in [Requests -> RequestRec] /\ r \in RequestRec
        /\ EntryOK(q) /\ AnswerOK(q)
        /\ r.pc = "await" /\ r.outcome = "none"
    BY DEF RelayInv, RelayTypeOK, RequestOK, Consume
  <1>1. /\ RelayTypeOK' /\ dropped' = dropped
        /\ \A p \in Requests : p # q => req'[p] = req[p]
    <2>1. Busy(q)
      BY DEF Busy
    <2>2. RelayTypeOK'
      BY <2>1, BusyMoves DEF RelayInv
    <2>3. dropped' = dropped
      BY DEF Consume
    <2>4. CASE r.buf # <<>> /\ m = EndMessage
      BY <1>0, <2>2, <2>3, <2>4 DEF Consume, End
    <2>5. CASE r.buf # <<>> /\ m = ErrorMessage
      BY <1>0, <2>2, <2>3, <2>5 DEF Consume, End, EndMessage, ErrorMessage
    <2>6. CASE r.buf # <<>> /\ m \notin Terminal
      BY <1>0, <2>2, <2>3, <2>6 DEF Consume, End, Terminal
    <2>7. CASE r.buf = <<>>
      BY <1>0, <2>2, <2>3, <2>7 DEF Consume, End
    <2> QED
      BY <2>4, <2>5, <2>6, <2>7 DEF Terminal
  <1>2. x \in RequestRec
    BY <1>1 DEF RelayTypeOK
  <1> DEFINE y == [r EXCEPT !.buf = Tail(r.buf)]
             Ended(z, o) == [[z EXCEPT !.pc = "ended"] EXCEPT !.outcome = o]
  <1>A. \/ r.done /\ x = Ended(r, "canceled")
        \/ r.buf # <<>> /\ m = EndMessage /\ x = Ended(y, "answer")
        \/ r.buf # <<>> /\ m = ErrorMessage /\ x = Ended(y, "error")
        \/ r.buf # <<>> /\ m \notin Terminal /\ x = [y EXCEPT !.got = Append(r.got, m)]
        \/ r.buf = <<>> /\ r.shut /\ \E o \in {"answer", "error"} : x = Ended(r, o)
    <2>1. ASSUME NEW o, End(q, o) PROVE x = Ended(r, o)
      BY <1>0, <2>1 DEF End
    <2>2. CASE End(q, "canceled") /\ r.done
      BY <2>1, <2>2
    <2>3. CASE r.buf # <<>> /\ ~(r.done /\ End(q, "canceled")) /\ m = EndMessage
      BY <1>0, <2>3 DEF Consume
    <2>4. CASE r.buf # <<>> /\ ~(r.done /\ End(q, "canceled")) /\ m = ErrorMessage
      BY <1>0, <2>4 DEF Consume, EndMessage, ErrorMessage
    <2>5. CASE r.buf # <<>> /\ ~(r.done /\ End(q, "canceled")) /\ m \notin Terminal
      <3>1. req' = [req EXCEPT ![q] = [y EXCEPT !.got = Append(y.got, m)]]
        BY <1>0, <2>5 DEF Consume, Terminal
      <3>2. y.got = r.got
        BY <1>0 DEF RequestRec
      <3> QED
        BY <1>0, <2>5, <3>1, <3>2
    <2>6. CASE r.buf = <<>> /\ ~(r.done /\ End(q, "canceled"))
      <3>1. r.shut /\ \E o \in {"answer", "error"} : End(q, o)
        BY <2>6 DEF Consume
      <3> QED
        BY <2>1, <2>6, <3>1
    <2> QED
      BY <2>2, <2>3, <2>4, <2>5, <2>6 DEF Consume, Terminal
  <1>B. /\ y.pc = "await" /\ y.outcome = "none" /\ y.buf = Tail(r.buf) /\ y.got = r.got
        /\ y.shut = r.shut /\ y.to = r.to /\ y.over = r.over /\ y.sent = r.sent
        /\ y.done = r.done
        /\ r.buf # <<>> => y \in RequestRec
    <2>1. r.buf # <<>> => Tail(r.buf) \in Seq(Int)
      BY <1>0 DEF RequestRec
    <2> QED
      BY <1>0, <2>1 DEF RequestRec
  <1>C. ASSUME NEW z \in RequestRec, NEW o
        PROVE  LET e == Ended(z, o) IN
               /\ e.pc = "ended" /\ e.outcome = o /\ e.got = z.got
               /\ e.to = z.to /\ e.over = z.over /\ e.sent = z.sent /\ e.done = z.done
    BY DEF RequestRec
  <1>D. ASSUME NEW z \in RequestRec
        PROVE  LET e == [z EXCEPT !.got = Append(r.got, m)] IN
               /\ e.pc = z.pc /\ e.outcome = z.outcome /\ e.got = Append(r.got, m)
               /\ e.buf = z.buf /\ e.shut = z.shut
               /\ e.to = z.to /\ e.over = z.over /\ e.sent = z.sent /\ e.done = z.done
    BY DEF RequestRec
  <1> HIDE DEF y, Ended, m
  <1>3. \/ /\ r.buf # <<>> /\ m \notin Terminal /\ x.pc = "await" /\ x.outcome = "none"
           /\ x.buf = Tail(r.buf) /\ x.got = Append(r.got, m) /\ x.shut = r.shut
        \/ /\ r.buf # <<>> /\ m = EndMessage /\ x.pc = "ended" /\ x.got = r.got
        \/ x.pc = "ended" /\ x.outcome # "answer"
        \/ r.buf = <<>> /\ r.shut /\ x.pc = "ended"
    <2>1. CASE r.done /\ x = Ended(r, "canceled")
      BY <1>0, <1>C, <2>1
    <2>2. CASE r.buf # <<>> /\ m = EndMessage /\ x = Ended(y, "answer")
      BY <1>B, <1>C, <2>2
    <2>3. CASE r.buf # <<>> /\ m = ErrorMessage /\ x = Ended(y, "error")
      BY <1>B, <1>C, <2>3
    <2>4. CASE r.buf # <<>> /\ m \notin Terminal /\ x = [y EXCEPT !.got = Append(r.got, m)]
      BY <1>B, <1>D, <2>4
    <2>5. CASE r.buf = <<>> /\ r.shut /\ \E o \in {"answer", "error"} : x = Ended(r, o)
      BY <1>0, <1>C, <2>5
    <2> QED
      BY <1>A, <2>1, <2>2, <2>3, <2>4, <2>5
  <1>4. x.to = r.to /\ x.over = r.over /\ x.sent = r.sent /\ x.done = r.done
    <2>1. CASE \E o : x = Ended(r, o)
      BY <1>0, <1>C, <2>1
    <2>2. CASE r.buf # <<>> /\ \E o : x = Ended(y, o)
      BY <1>B, <1>C, <2>2
    <2>3. CASE r.buf # <<>> /\ x = [y EXCEPT !.got = Append(r.got, m)]
      BY <1>B, <1>D, <2>3
    <2> QED
      BY <1>A, <2>1, <2>2, <2>3
  <1> USE DEF m
  <1>5. ASSUME NEW t \in Sessions PROVE Rests(q, session[t], session'[t])
    BY <1>0 DEF Rests
  <1>6. /\ BringsLast(q)' <=> BringsLast(q)
        /\ WillShut(q)' <=> WillShut(q)
        /\ Parts(q)' = Parts(q) /\ Parts(q) \in Nat
    BY <1>1, <1>5, MoverFlags DEF Parts
  <1> DEFINE part == Parts(q)
             last == BringsLast(q)
             shuts == WillShut(q)
  <1>7. q \in dropped \/ r.done \/ Flows(r, part, last, shuts)
    BY <1>0 DEF AnswerOK
  <1>8. EntryOK(q)'
    BY <1>0, <1>3, <1>4 DEF EntryOK
  <1>9. AnswerOK(q)'
    <2>1. CASE q \in dropped \/ r.done
      BY <1>1, <1>4, <2>1 DEF AnswerOK
    <2>2. CASE Flows(r, part, last, shuts)
      <3>1. CASE /\ r.buf # <<>> /\ m \notin Terminal /\ x.pc = "await"
                 /\ x.buf = Tail(r.buf) /\ x.got = Append(r.got, m) /\ x.shut = r.shut
        <4>1. Flows(x, part, last, shuts)
          <5> HIDE DEF x, part, last, shuts
          <5> QED
            BY <1>0, <1>2, <1>4, <1>6, <2>2, <3>1, PartTaken DEF part
        <4>2. Flows(x, Parts(q)', BringsLast(q)', WillShut(q)')
          <5>1. Alike(x, x)
            BY DEF Alike
          <5> QED
            BY <1>6, <4>1 DEF Flows, Split
        <4> QED
          BY <3>1, <4>2 DEF AnswerOK
      <3>2. CASE r.buf # <<>> /\ m = EndMessage /\ x.pc = "ended" /\ x.got = r.got
        <4>1. r.over /\ r.got = [i \in 1 .. r.sent |-> i]
          <5> HIDE DEF part, last, shuts
          <5> QED
            BY <1>0, <1>6, <2>2, <3>2, EndTaken DEF part
        <4> QED
          BY <1>4, <3>2, <4>1 DEF AnswerOK
      <3>3. CASE x.pc = "ended" /\ x.outcome # "answer"
        BY <3>3 DEF AnswerOK
      <3>4. CASE r.buf = <<>> /\ r.shut
        <4>1. ~r.shut
          <5> HIDE DEF part, last, shuts
          <5> QED
            BY <1>0, <1>6, <2>2, <3>4, EmptyIsOpen DEF part
        <4> QED
          BY <3>4, <4>1
      <3> QED
        BY <1>3, <3>1, <3>2, <3>3, <3>4
    <2> QED
      BY <1>7, <2>1, <2>2
  <1> QED
    BY <1>0, <1>1, <1>3, <1>4, <1>5, <1>8, <1>9, OneRequestMoves

\* No other session's reader serves a request.
LEMMA OnlyHere ==
    ASSUME RelayInv, NEW s \in Sessions, NEW q \in Requests, req[q].to = s
    PROVE  \A t \in Sessions : t # s => ~Serves(session[t], q)
  BY DEF RelayInv, ReaderOK, Serves

\* So what is on the way to it is what its own reader has, before and after.
LEMMA HereFlags ==
    ASSUME NEW s \in Sessions, NEW q,
           \A t \in Sessions : t # s => ~Serves(session[t], q) /\ session'[t] = session[t]
    PROVE  LET Brings(x) == x.reader = "deliver" /\ x.held = q
               x == session[s]
               y == session'[s]
           IN  /\ BringsPart(q) <=> Brings(x) /\ x.msg \notin Terminal
               /\ BringsLast(q) <=> Brings(x) /\ x.msg \in Terminal
               /\ WillShut(q) <=> x.reader = "finish" /\ x.held = q
               /\ BringsPart(q)' <=> Brings(y) /\ y.msg \notin Terminal
               /\ BringsLast(q)' <=> Brings(y) /\ y.msg \in Terminal
               /\ WillShut(q)' <=> y.reader = "finish" /\ y.held = q
  BY DEF BringsPart, BringsLast, WillShut, Serves

\* A step of a reader that serves one request leaves the others as they are.
LEMMA ReaderMoves ==
    ASSUME RelayInv, RelayTypeOK', NEW s \in Sessions, NEW q \in Requests, req[q].to = s,
           \A p \in Requests : p # q => req'[p] = req[p],
           dropped \subseteq dropped',
           \A t \in Sessions : t # s => session'[t] = session[t],
           session'[s].closing = session[s].closing,
           \A p \in Requests :
               p # q => (p \in session'[s].pending <=> p \in session[s].pending),
           session[s].reader = "idle" \/ session[s].held = q,
           session'[s].reader = "idle" \/ session'[s].held = q,
           ReaderOK(s)', RequestOK(q)'
    PROVE  RelayInv'
  <1>1. \A t \in Sessions : session[t] \in SessionRec /\ session'[t] \in SessionRec
    BY DEF RelayInv, RelayTypeOK
  <1>2. ASSUME NEW t \in Sessions, t # s PROVE ReaderOK(t)'
    <2>1. ~Serves(session[t], q) /\ session'[t] = session[t] /\ ReaderOK(t)
      BY <1>2, OnlyHere DEF RelayInv
    <2> QED
      BY <2>1 DEF ReaderOK, Serves
  <1>3. ASSUME NEW p \in Requests, p # q PROVE RequestOK(p)'
    <2>1. RequestOK(p) /\ req'[p] = req[p]
      BY <1>3 DEF RelayInv
    <2>2. EntryOK(p)'
      <3>1. req[p].pc \in {"send", "await"} => req[p].to \in Sessions
        BY DEF RelayInv, RelayTypeOK, Placed
      <3> QED
        BY <1>3, <2>1, <3>1 DEF RequestOK, EntryOK
    <2>3. \A t \in Sessions : Sees(p, session[t], session'[t])
      BY <1>3 DEF Sees, Serves
    <2>4. AnswerOK(p)'
      BY <1>1, <2>1, <2>3, FlagsRest, FlowRests DEF RequestOK, AnswerOK, Alike
    <2> QED
      BY <2>1, <2>2, <2>4 DEF RequestOK
  <1> QED
    BY <1>2, <1>3 DEF RelayInv

\* The reader takes a part, or the last message, from the connection.
LEMMA ReadKeeps ==
    ASSUME RelayInv, NEW q \in Requests, NEW s \in Sessions,
           NEW m \in Terminal \cup 1 .. MaxChunks, Read(s, q, m)
    PROVE  RelayInv'
  <1> DEFINE r == req[q]
             x == req'[q]
             found == q \in session[s].pending
  <1>0. /\ session \in [Sessions -> SessionRec]
        /\ req \in [Requests -> RequestRec] /\ r \in RequestRec
        /\ EntryOK(q) /\ AnswerOK(q)
        /\ r.pc # "ended" => r.outcome = "none"
        /\ session[s].reader = "idle" /\ session[s].closing \in {"no", "range"}
        /\ r.to = s /\ r.pc \in {"await", "ended"} /\ ~r.over
        /\ m \notin Terminal => m = r.sent + 1
        /\ dropped' = dropped
    BY DEF RelayInv, RelayTypeOK, RequestOK, Read
  <1>1. /\ RelayTypeOK'
        /\ \A p \in Requests : p # q => req'[p] = req[p]
    <2>1. Busy(q)
      BY DEF Busy
    <2>2. RelayTypeOK'
      BY <2>1, BusyMoves DEF RelayInv
    <2> QED
      BY <1>0, <2>2 DEF Read
  <1>2. x \in RequestRec /\ session' \in [Sessions -> SessionRec]
    BY <1>1 DEF RelayTypeOK
  <1>3. /\ x.pc = r.pc /\ x.to = s /\ x.done = r.done /\ x.outcome = r.outcome
        /\ x.buf = r.buf /\ x.got = r.got /\ x.shut = r.shut
        /\ m \in Terminal => x.over /\ x.sent = r.sent
        /\ m \notin Terminal => ~x.over /\ x.sent = m
    <2>1. CASE m \in Terminal
      <3>1. x = [r EXCEPT !.over = TRUE]
        BY <1>0, <2>1 DEF Read
      <3> QED
        BY <1>0, <2>1, <3>1 DEF RequestRec
    <2>2. CASE m \notin Terminal
      <3>1. x = [r EXCEPT !.sent = m]
        BY <1>0, <2>2 DEF Read
      <3> QED
        BY <1>0, <2>2, <3>1 DEF RequestRec
    <2> QED
      BY <2>1, <2>2
  <1>4. /\ \A t \in Sessions : t # s => session'[t] = session[t]
        /\ session'[s].closing = session[s].closing
        /\ session'[s].pending = session[s].pending
        /\ found => /\ session'[s].reader = "deliver" /\ session'[s].held = q
                    /\ session'[s].msg = m
        /\ ~found => session'[s].reader = "idle"
    BY <1>0 DEF Read, SessionRec
  <1> HIDE DEF x
  <1>5. ReaderOK(s)'
    BY <1>0, <1>3, <1>4 DEF ReaderOK, x
  <1>6. EntryOK(q)'
    <2>1. r.pc # "send"
      BY <1>0
    <2>2. r.pc = "await" => found \/ r.done
      BY <1>0 DEF EntryOK
    <2> QED
      BY <1>3, <1>4, <2>1, <2>2 DEF EntryOK, x
  <1>7. \A t \in Sessions : t # s => ~Serves(session[t], q) /\ session'[t] = session[t]
    BY <1>0, <1>4, OnlyHere
  <1>8. /\ ~BringsPart(q) /\ ~BringsLast(q) /\ ~WillShut(q)
        /\ BringsPart(q)' <=> found /\ m \notin Terminal
        /\ BringsLast(q)' <=> found /\ m \in Terminal
        /\ ~WillShut(q)'
    BY <1>0, <1>4, <1>7, HereFlags
  <1>9. AnswerOK(q)'
    <2>1. CASE q \in dropped \/ r.done
      BY <1>0, <1>3, <2>1 DEF AnswerOK, x
    <2>2. CASE ~(q \in dropped \/ r.done) /\ r.pc = "ended"
      <3>1. r.outcome # "answer"
        BY <1>0, <2>2 DEF AnswerOK
      <3> QED
        BY <1>3, <2>2, <3>1 DEF AnswerOK, x
    <2>3. CASE ~(q \in dropped \/ r.done) /\ r.pc = "await"
      <3>1. found /\ Flows(r, Parts(q), BringsLast(q), WillShut(q))
        BY <1>0, <2>3 DEF AnswerOK, EntryOK
      <3>2. Flows(r, 0, FALSE, FALSE)
        BY <1>8, <3>1 DEF Parts, Flows
      <3>3. CASE m \notin Terminal
        <4>0. x.sent = r.sent + 1 /\ x.over = r.over
          BY <1>0, <1>2, <1>3, <3>3 DEF RequestRec
        <4>1. Flows(x, 1, FALSE, FALSE)
          BY <1>0, <1>2, <1>3, <3>2, <3>3, <4>0, PartRead
        <4>2. Parts(q)' = 1 /\ ~BringsLast(q)' /\ ~WillShut(q)'
          BY <1>8, <3>1, <3>3 DEF Parts
        <4>3. Flows(x, Parts(q)', BringsLast(q)', WillShut(q)')
          BY <4>1, <4>2 DEF Flows
        <4> QED
          BY <1>3, <2>3, <4>3 DEF AnswerOK, x
      <3>4. CASE m \in Terminal
        <4>1. Flows(x, 0, TRUE, FALSE)
          BY <1>0, <1>2, <1>3, <3>2, <3>4, LastRead
        <4>2. Parts(q)' = 0 /\ ~WillShut(q)'
          BY <1>8, <3>4 DEF Parts
        <4>3. Flows(x, Parts(q)', BringsLast(q)', WillShut(q)')
          BY <4>1, <4>2 DEF Flows
        <4> QED
          BY <1>3, <2>3, <4>3 DEF AnswerOK, x
      <3> QED
        BY <3>3, <3>4
    <2> QED
      BY <1>0, <2>1, <2>2, <2>3
  <1>10. RequestOK(q)'
    BY <1>0, <1>3, <1>6, <1>9 DEF RequestOK, x
  <1> QED
    BY <1>0, <1>1, <1>4, <1>5, <1>10, ReaderMoves

\* The cleanup tells a request of the loss: what has arrived before stays in order.
LEMMA FailKeeps ==
    ASSUME RelayInv, NEW s \in Sessions, Fail(s)
    PROVE  RelayInv'
  <1>A. session \in [Sessions -> SessionRec]
    BY DEF RelayInv, RelayTypeOK
  <1>B. PICK q \in Requests : q = session[s].at
    BY <1>A DEF Fail, SessionRec
  <1> DEFINE r == req[q]
             x == req'[q]
             a == Pushed(r, ErrorMessage)
  <1>0. /\ session \in [Sessions -> SessionRec] /\ session[s].at = q
        /\ req \in [Requests -> RequestRec] /\ r \in RequestRec
        /\ EntryOK(q) /\ AnswerOK(q)
        /\ r.pc # "ended" => r.outcome = "none"
    BY <1>A, <1>B DEF RelayInv, RelayTypeOK, RequestOK
  <1>1. RelayTypeOK'
    BY ServeMoves DEF RelayInv, ReaderOK
  <1>2. /\ \A p \in Requests : p # q => req'[p] = req[p]
        /\ x = Shut(a) /\ dropped' = Lost(q)
    BY <1>0 DEF Fail
  <1>3. x \in RequestRec
    BY <1>0, <1>1 DEF RelayTypeOK
  <1>4. ASSUME NEW t \in Sessions PROVE Rests(q, session[t], session'[t])
    BY <1>0 DEF Fail, Rests, SessionRec
  <1>5. dropped \subseteq dropped' /\ (q \notin dropped' => Len(r.buf) < Capacity)
    BY <1>2 DEF Lost
  <1>6. /\ x.shut /\ x.pc = r.pc /\ x.to = r.to /\ x.over = r.over /\ x.sent = r.sent
        /\ x.got = r.got /\ x.done = r.done /\ x.outcome = r.outcome
        /\ Len(r.buf) < Capacity => x.buf = Append(r.buf, ErrorMessage)
    <2>1. ErrorMessage \in Int /\ Append(r.buf, ErrorMessage) \in Seq(Int)
      BY <1>0 DEF ErrorMessage, RequestRec
    <2>2. CASE Len(r.buf) < Capacity
      <3>1. a = [r EXCEPT !.buf = Append(r.buf, ErrorMessage)]
        BY <1>0, <2>1, <2>2, PushedMoves
      <3> QED
        BY <1>0, <1>2, <3>1 DEF Shut, RequestRec
    <2>3. CASE ~(Len(r.buf) < Capacity)
      <3>1. a = r
        BY <1>0, <2>1, <2>3, PushedMoves
      <3> QED
        BY <1>0, <1>2, <2>3, <3>1 DEF Shut, RequestRec
    <2> QED
      BY <2>2, <2>3
  <1> HIDE DEF x, a
  <1>7. EntryOK(q)'
    <2>1. r.pc \in {"send", "await"} => r.to \in Sessions
      BY <1>0 DEF RelayInv, RelayTypeOK, Placed
    <2>2. \A t \in Sessions : /\ session'[t].closing = session[t].closing
                              /\ session'[t].pending = session[t].pending
      BY <1>0 DEF Fail, SessionRec
    <2> QED
      BY <1>0, <1>6, <2>1, <2>2 DEF EntryOK, x
  <1>8. /\ BringsLast(q)' <=> BringsLast(q)
        /\ WillShut(q)' <=> WillShut(q)
        /\ Parts(q)' = Parts(q) /\ Parts(q) \in Nat
    BY <1>0, <1>1, <1>4, MoverFlags DEF Parts
  <1>9. AnswerOK(q)'
    <2>1. CASE q \in dropped' \/ r.done \/ r.pc \in {"refused", "panicked"}
      BY <1>6, <2>1 DEF AnswerOK, x
    <2>2. CASE ~(q \in dropped' \/ r.done) /\ r.pc = "ended"
      BY <1>0, <1>5, <1>6, <2>2 DEF AnswerOK, x
    <2>3. CASE /\ ~(q \in dropped' \/ r.done)
               /\ r.pc \notin {"ended", "refused", "panicked"}
      <3>1. Flows(r, Parts(q), BringsLast(q), WillShut(q)) /\ Len(r.buf) < Capacity
        BY <1>0, <1>5, <2>3 DEF AnswerOK
      <3>2. Flows(x, Parts(q), BringsLast(q), WillShut(q))
        BY <1>0, <1>3, <1>6, <1>8, <3>1, ErrorPushed
      <3>3. Flows(x, Parts(q)', BringsLast(q)', WillShut(q)')
        BY <1>8, <3>2 DEF Flows
      <3> QED
        BY <1>6, <2>3, <3>3 DEF AnswerOK, x
    <2> QED
      BY <2>1, <2>2, <2>3
  <1> QED
    BY <1>0, <1>1, <1>2, <1>4, <1>5, <1>6, <1>7, <1>9, OneRequestMoves DEF x

\* The reader passes a message on: it comes after those in the channel.
LEMMA DeliverKeeps ==
    ASSUME RelayInv, NEW s \in Sessions, Deliver(s)
    PROVE  RelayInv'
  <1>A. session \in [Sessions -> SessionRec] /\ session[s].reader = "deliver"
    BY DEF RelayInv, RelayTypeOK, Deliver
  <1>B. PICK q \in Requests : q = session[s].held
    BY <1>A DEF RelayInv, ReaderOK
  <1> DEFINE r == req[q]
             x == req'[q]
             m == session[s].msg
  <1>0. /\ req \in [Requests -> RequestRec] /\ r \in RequestRec
        /\ EntryOK(q) /\ AnswerOK(q)
        /\ r.pc # "ended" => r.outcome = "none"
        /\ r.to = s /\ r.pc \in {"await", "ended"} /\ m \in Int
        /\ m \notin Terminal => ~r.over /\ m = r.sent
        /\ m \in Terminal => r.over
    BY <1>A, <1>B DEF RelayInv, RelayTypeOK, RequestOK, ReaderOK, SessionRec
  <1>1. RelayTypeOK'
    BY <1>A, <1>B, ServeMoves DEF RelayInv
  <1>2. /\ \A p \in Requests : p # q => req'[p] = req[p]
        /\ dropped' = Lost(q)
        /\ r.shut => x = r
        /\ ~r.shut => x = Pushed(r, m)
    <2>1. CASE r.shut
      BY <1>0, <1>B, <2>1 DEF Deliver
    <2>2. CASE ~r.shut
      BY <1>0, <1>B, <2>2 DEF Deliver
    <2> QED
      BY <2>1, <2>2
  <1>3. x \in RequestRec
    BY <1>1 DEF RelayTypeOK
  <1>4. /\ \A t \in Sessions : t # s => session'[t] = session[t]
        /\ session'[s].closing = session[s].closing
        /\ session'[s].pending = session[s].pending
        /\ session'[s].held = q /\ session'[s].msg = m
        /\ session'[s].reader = IF m \in Terminal THEN "finish" ELSE "idle"
    BY <1>A, <1>B DEF Deliver, SessionRec
  <1>5. dropped \subseteq dropped' /\ (q \notin dropped' => Len(r.buf) < Capacity)
    BY <1>2 DEF Lost
  <1>6. /\ x.shut = r.shut /\ x.pc = r.pc /\ x.to = r.to /\ x.over = r.over
        /\ x.sent = r.sent /\ x.got = r.got /\ x.done = r.done /\ x.outcome = r.outcome
        /\ Len(r.buf) < Capacity /\ ~r.shut => x.buf = Append(r.buf, m)
    <2>1. Append(r.buf, m) \in Seq(Int)
      BY <1>0 DEF RequestRec
    <2>2. CASE Len(r.buf) < Capacity /\ ~r.shut
      <3>1. x = [r EXCEPT !.buf = Append(r.buf, m)]
        BY <1>0, <1>2, <2>1, <2>2, PushedMoves
      <3> QED
        BY <1>0, <2>1, <3>1 DEF RequestRec
    <2>3. CASE ~(Len(r.buf) < Capacity /\ ~r.shut)
      <3>1. x = r
        BY <1>0, <1>2, <2>1, <2>3, PushedMoves
      <3> QED
        BY <2>3, <3>1
    <2> QED
      BY <2>2, <2>3
  <1> HIDE DEF x
  <1>7. ReaderOK(s)'
    BY <1>0, <1>4, <1>6 DEF ReaderOK, x
  <1>8. EntryOK(q)'
    BY <1>0, <1>4, <1>6 DEF EntryOK, x
  <1>9. \A t \in Sessions : t # s => ~Serves(session[t], q) /\ session'[t] = session[t]
    BY <1>0, <1>4, OnlyHere
  <1>10. /\ BringsPart(q) <=> m \notin Terminal
         /\ BringsLast(q) <=> m \in Terminal
         /\ ~WillShut(q) /\ ~BringsPart(q)' /\ ~BringsLast(q)'
         /\ WillShut(q)' <=> m \in Terminal
    BY <1>A, <1>B, <1>4, <1>9, HereFlags
  <1>11. AnswerOK(q)'
    <2>1. CASE q \in dropped' \/ r.done
      BY <1>6, <2>1 DEF AnswerOK, x
    <2>2. CASE ~(q \in dropped' \/ r.done) /\ r.pc = "ended"
      BY <1>0, <1>5, <1>6, <2>2 DEF AnswerOK, x
    <2>3. CASE ~(q \in dropped' \/ r.done) /\ r.pc = "await"
      <3>1. Flows(r, Parts(q), BringsLast(q), WillShut(q)) /\ Len(r.buf) < Capacity
        BY <1>0, <1>5, <2>3 DEF AnswerOK
      <3>2. Parts(q) \in Nat /\ Parts(q)' = 0
        BY <1>10 DEF Parts
      <3>3. CASE r.shut
        <4>1. x = r
          BY <1>2, <3>3 DEF x
        <4>2. Flows(r, Parts(q), BringsLast(q), FALSE)
          BY <1>10, <3>1 DEF Flows
        <4>3. Flows(x, 0, FALSE, FALSE) /\ Flows(x, 0, FALSE, TRUE)
          BY <1>0, <3>2, <3>3, <4>1, <4>2, NotPushed
        <4>4. Flows(x, Parts(q)', BringsLast(q)', WillShut(q)')
          BY <1>10, <3>2, <4>3 DEF Flows
        <4> QED
          BY <1>6, <2>3, <4>4 DEF AnswerOK, x
      <3>4. CASE ~r.shut /\ m \notin Terminal
        <4>1. Parts(q) = 1
          BY <1>10, <3>4 DEF Parts
        <4>2. Flows(r, 1, FALSE, FALSE)
          BY <1>10, <3>1, <3>4, <4>1 DEF Flows
        <4>3. Flows(x, 0, FALSE, FALSE)
          BY <1>0, <1>3, <1>6, <3>1, <3>4, <4>2, PartPushed
        <4>4. Flows(x, Parts(q)', BringsLast(q)', WillShut(q)')
          BY <1>10, <3>2, <3>4, <4>3 DEF Flows
        <4> QED
          BY <1>6, <2>3, <4>4 DEF AnswerOK, x
      <3>5. CASE ~r.shut /\ m \in Terminal
        <4>1. Parts(q) = 0
          BY <1>10, <3>5 DEF Parts
        <4>2. Flows(r, 0, TRUE, FALSE)
          BY <1>10, <3>1, <3>5, <4>1 DEF Flows
        <4>3. Flows(x, 0, FALSE, TRUE)
          BY <1>0, <1>3, <1>6, <3>1, <3>5, <4>2, LastPushed
        <4>4. Flows(x, Parts(q)', BringsLast(q)', WillShut(q)')
          BY <1>10, <3>2, <3>5, <4>3 DEF Flows
        <4> QED
          BY <1>6, <2>3, <4>4 DEF AnswerOK, x
      <3> QED
        BY <3>3, <3>4, <3>5
    <2> QED
      BY <1>0, <2>1, <2>2, <2>3
  <1>12. RequestOK(q)'
    BY <1>0, <1>6, <1>8, <1>11 DEF RequestOK, x
  <1> QED
    BY <1>0, <1>1, <1>2, <1>4, <1>5, <1>7, <1>12, <1>A, <1>B, ReaderMoves

\* The channel is closed after the last message.
LEMMA FinishKeeps ==
    ASSUME RelayInv, NEW s \in Sessions, Finish(s)
    PROVE  RelayInv'
  <1>A. session \in [Sessions -> SessionRec] /\ session[s].reader = "finish"
    BY DEF RelayInv, RelayTypeOK, Finish
  <1>B. PICK q \in Requests : q = session[s].held
    BY <1>A DEF RelayInv, ReaderOK
  <1> DEFINE r == req[q]
             x == req'[q]
  <1>0. /\ req \in [Requests -> RequestRec] /\ r \in RequestRec
        /\ EntryOK(q) /\ AnswerOK(q)
        /\ r.pc # "ended" => r.outcome = "none"
        /\ r.to = s /\ r.pc \in {"await", "ended"} /\ r.over
        /\ dropped' = dropped
    BY <1>A, <1>B DEF RelayInv, RelayTypeOK, RequestOK, ReaderOK, Finish
  <1>1. RelayTypeOK'
    BY <1>A, <1>B, ServeMoves DEF RelayInv
  <1>2. /\ \A p \in Requests : p # q => req'[p] = req[p]
        /\ x \in {r, Shut(r)}
    <2>1. req' = [req EXCEPT ![q] = ShutIfPending(r, s, q)]
      BY <1>B DEF Finish
    <2> QED
      BY <1>0, <2>1 DEF ShutIfPending
  <1>3. x \in RequestRec
    BY <1>1 DEF RelayTypeOK
  <1>4. /\ \A t \in Sessions : t # s => session'[t] = session[t]
        /\ session'[s].closing = session[s].closing
        /\ session'[s].pending = session[s].pending \ {q}
        /\ session'[s].reader = "idle"
    <2> DEFINE w == Withdrawn(session, s, q)
    <2>1. /\ w \in [Sessions -> SessionRec]
          /\ \A t \in Sessions : t # s => w[t] = session[t]
          /\ w[s].closing = session[s].closing /\ w[s].pending = session[s].pending \ {q}
      BY WithdrawnMoves DEF RelayInv
    <2>2. session' = [w EXCEPT ![s].reader = "idle"]
      BY <1>B DEF Finish
    <2> HIDE DEF w
    <2> QED
      BY <2>1, <2>2 DEF SessionRec
  <1>5. /\ x.pc = r.pc /\ x.to = r.to /\ x.over = r.over /\ x.sent = r.sent
        /\ x.buf = r.buf /\ x.got = r.got /\ x.done = r.done /\ x.outcome = r.outcome
        /\ x.shut = r.shut \/ x.shut
    <2>1. CASE x = r
      BY <2>1
    <2>2. CASE x = Shut(r)
      <3>1. x = [r EXCEPT !.shut = TRUE]
        BY <2>2 DEF Shut
      <3> HIDE DEF x
      <3> QED
        BY <1>0, <3>1 DEF RequestRec
    <2> QED
      BY <1>2, <2>1, <2>2
  <1> HIDE DEF x
  <1>6. ReaderOK(s)'
    BY <1>4 DEF ReaderOK
  <1>7. EntryOK(q)'
    BY <1>0, <1>4, <1>5 DEF EntryOK, x
  <1>8. \A t \in Sessions : t # s => ~Serves(session[t], q) /\ session'[t] = session[t]
    BY <1>0, <1>4, OnlyHere
  <1>9. /\ ~BringsPart(q) /\ ~BringsLast(q) /\ WillShut(q)
        /\ ~BringsPart(q)' /\ ~BringsLast(q)' /\ ~WillShut(q)'
    BY <1>A, <1>B, <1>4, <1>8, HereFlags
  <1>10. AnswerOK(q)'
    <2>1. CASE q \in dropped \/ r.done
      BY <1>0, <1>5, <2>1 DEF AnswerOK, x
    <2>2. CASE ~(q \in dropped \/ r.done) /\ r.pc = "ended"
      BY <1>0, <1>5, <2>2 DEF AnswerOK, x
    <2>3. CASE ~(q \in dropped \/ r.done) /\ r.pc = "await"
      <3>1. Flows(r, Parts(q), BringsLast(q), WillShut(q))
        BY <1>0, <2>3 DEF AnswerOK
      <3>2. Flows(r, 0, FALSE, TRUE)
        BY <1>9, <3>1 DEF Flows, Parts
      <3>3. Flows(x, 0, FALSE, FALSE)
        BY <1>0, <1>3, <1>5, <3>2, ShutFlows
      <3>4. Flows(x, Parts(q)', BringsLast(q)', WillShut(q)')
        BY <1>9, <3>3 DEF Flows, Parts
      <3> QED
        BY <1>5, <2>3, <3>4 DEF AnswerOK, x
    <2> QED
      BY <1>0, <2>1, <2>2, <2>3
  <1>11. RequestOK(q)'
    BY <1>0, <1>5, <1>7, <1>10 DEF RequestOK, x
  <1> QED
    BY <1>0, <1>1, <1>2, <1>4, <1>6, <1>11, <1>A, <1>B, ReaderMoves

-----------------------------------------------------------------------------
(* Theorems.                                                                *)

\* Nothing was asked yet, and nobody is connected.
LEMMA InitKeeps == RelayInit => RelayInv
  <1> SUFFICES ASSUME RelayInit PROVE RelayInv
    OBVIOUS
  <1>1. Open \in SessionRec /\ Asking \in RequestRec
    BY DEF Open, Asking, SessionRec, RequestRec, EndMessage
  <1>2. /\ \A s \in Sessions : session[s] = Open
        /\ \A q \in Requests : req[q] = Asking
    BY DEF RelayInit
  <1>3. RelayTypeOK
    BY <1>1, <1>2 DEF RelayInit, RelayTypeOK, Placed, Asking
  <1>4. ASSUME NEW s \in Sessions PROVE ReaderOK(s)
    BY <1>2 DEF ReaderOK, Open
  <1>5. ASSUME NEW q \in Requests PROVE RequestOK(q)
    <2>1. ~BringsPart(q) /\ ~BringsLast(q) /\ ~WillShut(q)
      BY <1>2 DEF BringsPart, BringsLast, WillShut, Open
    <2>2. /\ Asking.pc = "idle" /\ Asking.outcome = "none" /\ ~Asking.shut
          /\ Asking.sent = 0 /\ Len(Asking.got) = 0 /\ Len(Asking.buf) = 0
      BY DEF Asking
    <2>3. Split(Asking, 0, 0)
      BY <2>2 DEF Split
    <2>4. Flows(Asking, 0, FALSE, FALSE)
      BY <2>2, <2>3 DEF Flows
    <2>5. Flows(req[q], Parts(q), BringsLast(q), WillShut(q))
      BY <1>2, <2>1, <2>4 DEF Flows, Parts
    <2> QED
      BY <1>2, <2>2, <2>5 DEF RequestOK, EntryOK, AnswerOK
  <1> QED
    BY <1>3, <1>4, <1>5 DEF RelayInv

\* What Stop and the service change is no part of it.
LEMMA OutsideKeeps ==
    ASSUME RelayInv, Stop \/ (\E n \in Names : Apply(n)) \/ UNCHANGED relayVars
    PROVE  RelayInv'
  <1>1. UNCHANGED <<session, req, dropped>>
    BY DEF Stop, Apply, relayVars, tellVars
  <1>2. RelayTypeOK'
    <2>1. /\ pool' \in [Names -> Sessions \cup {Nobody}]
          /\ stopping' \in SUBSET Sessions /\ stopped' \in BOOLEAN
          /\ ~stopped' => stopping' = {}
      BY DEF RelayInv, RelayTypeOK, Stop, Apply, relayVars
    <2> QED
      BY <1>1, <2>1 DEF RelayInv, RelayTypeOK, Placed
  <1>3. ASSUME NEW s \in Sessions PROVE ReaderOK(s)'
    BY <1>1 DEF RelayInv, ReaderOK
  <1>4. ASSUME NEW q \in Requests PROVE RequestOK(q)'
    <2>1. RequestOK(q)
      BY DEF RelayInv
    <2>2. EntryOK(q)'
      BY <1>1, <2>1 DEF RequestOK, EntryOK
    <2>3. \A t \in Sessions : Sees(q, session[t], session'[t])
      BY <1>1 DEF Sees, Serves
    <2>4. \A t \in Sessions : session[t] \in SessionRec /\ session'[t] \in SessionRec
      BY <1>2 DEF RelayInv, RelayTypeOK
    <2>5. AnswerOK(q)'
      BY <1>1, <2>1, <2>3, <2>4, FlagsRest, FlowRests DEF RequestOK, AnswerOK, Alike
    <2> QED
      BY <1>1, <2>1, <2>2, <2>5 DEF RequestOK
  <1> QED
    BY <1>2, <1>3, <1>4 DEF RelayInv

\* The steps of the relay by kind.
LEMMA StepKinds ==
    ASSUME RelayNext
    PROVE  \/ \E s \in Sessions : Quiet(s)
           \/ \E q \in Requests : Store(q) \/ Load(q) \/ Send(q)
                                  \/ \E n \in Names : Find(q, n)
           \/ \E q \in Requests : SendFails(q) \/ WatchEnds(q) \/ ContextDone(q)
           \/ \E q \in Requests : Consume(q)
           \/ \E q \in Requests, s \in Sessions, m \in Terminal \cup 1 .. MaxChunks :
                 Read(s, q, m)
           \/ \E s \in Sessions : Fail(s)
           \/ \E s \in Sessions : Deliver(s)
           \/ \E s \in Sessions : Finish(s)
           \/ Stop \/ \E n \in Names : Apply(n)
  BY Zenon DEF RelayNext, RelayStep, RelayEvent, Quiet

\* Every step keeps the invariant.
LEMMA RelayKeeps == RelayInv /\ [RelayNext]_relayVars => RelayInv'
  <1> SUFFICES ASSUME RelayInv, [RelayNext]_relayVars PROVE RelayInv'
    OBVIOUS
  <1>1. CASE UNCHANGED relayVars
    BY <1>1, OutsideKeeps
  <1>2. CASE RelayNext
    BY <1>2, StepKinds, QuietKeeps, SendingKeeps, LeavingKeeps, ConsumeKeeps, ReadKeeps,
       FailKeeps, DeliverKeeps, FinishKeeps, OutsideKeeps
  <1> QED
    BY <1>1, <1>2

\* The invariant of the relay holds in every reachable state.
LEMMA RelayInvariant == RelaySpec => []RelayInv
  BY InitKeeps, RelayKeeps, PTL DEF RelaySpec

\* An answer is all that was sent, in order and up to its end, unless a message found
\* the channel full or the client had left: for any number of connections and
\* requests, any capacity, and whatever becomes of the connections meanwhile.
THEOREM RelayWhole == RelaySpec => []WholeUnlessDropped
  BY RelayInvariant, InvIsWhole, PTL

\* No step of a request or of a reader loses a connection.
LEMMA StaysFound ==
    ASSUME ServedIsFound, RelayTypeOK, RelayTypeOK', UNCHANGED <<pool, stopping>>,
           \A t \in Sessions : Stays(session[t], session'[t])
    PROVE  ServedIsFound'
  BY DEF ServedIsFound, Stays, Closed

\* Nor does a step of a connection: who takes the name of another still has to close
\* it, and who leaves the pool is closed.
LEMMA QuietFound ==
    ASSUME ServedIsFound, RelayTypeOK, RelayTypeOK', NEW s \in Sessions, Quiet(s)
    PROVE  ServedIsFound'
  <1>0. /\ session \in [Sessions -> SessionRec] /\ session' \in [Sessions -> SessionRec]
        /\ pool \in [Names -> Sessions \cup {Nobody}]
        /\ NameOf \in [Sessions -> Names] /\ Nobody \notin Sessions
    BY RelayAssumption DEF RelayTypeOK
  <1>1. CASE \E q \in Requests : Visit(s, q)
    <2>1. \A t \in Sessions : Stays(session[t], session'[t])
      BY <1>0, <1>1 DEF Visit, Stays, SessionRec
    <2> QED
      BY <1>1, <2>1, StaysFound DEF Visit
  <1>2. CASE EmptyMap(s) \/ Disconnected(s)
    <2>1. /\ \A t \in Sessions : t # s => session'[t] = session[t]
          /\ session[s].closing # "no" /\ session'[s].closing # "no"
          /\ session'[s].handler = session[s].handler /\ session'[s].old = session[s].old
          /\ UNCHANGED <<pool, stopping>>
      BY <1>0, <1>2 DEF EmptyMap, Disconnected, SessionRec
    <2> QED
      BY <2>1 DEF ServedIsFound, Closed
  <1>3. CASE Leave(s)
    <2>1. /\ \A t \in Sessions : t # s => session'[t] = session[t]
          /\ session[s].closing # "no" /\ session'[s].closing # "no"
          /\ session'[s].handler = session[s].handler /\ session'[s].old = session[s].old
          /\ stopping' = stopping
          /\ \A t \in Sessions : t # s /\ pool[NameOf[t]] = t => pool'[NameOf[t]] = t
      BY <1>0, <1>3 DEF Leave, SessionRec
    <2> QED
      BY <2>1 DEF ServedIsFound, Closed
  <1>4. CASE Register(s)
    <2>1. /\ \A t \in Sessions : t # s => session'[t] = session[t]
          /\ session[s].handler = "new" /\ session'[s].handler = "replace"
          /\ session'[s].old = pool[NameOf[s]]
          /\ stopping' = stopping
          /\ pool'[NameOf[s]] = s
          /\ \A n \in Names : n # NameOf[s] => pool'[n] = pool[n]
      BY <1>0, <1>4 DEF Register, SessionRec
    <2>2. ASSUME NEW t \in Sessions, t # s, session'[t].handler # "new", ~Closed(t)'
          PROVE  \/ pool'[NameOf[t]] = t \/ t \in stopping'
                 \/ \E u \in Sessions : session'[u].handler = "replace"
                                          /\ session'[u].old = t
      <3>1. session[t].handler # "new" /\ ~Closed(t) /\ NameOf[t] \in Names
        BY <1>0, <2>1, <2>2 DEF Closed
      <3>2. CASE pool[NameOf[t]] = t
        BY <2>1, <3>1, <3>2
      <3>3. CASE t \in stopping
        BY <2>1, <3>3
      <3>4. CASE \E u \in Sessions : session[u].handler = "replace" /\ session[u].old = t
        BY <2>1, <3>4
      <3> QED
        BY <3>1, <3>2, <3>3, <3>4 DEF ServedIsFound
    <2> QED
      BY <2>1, <2>2 DEF ServedIsFound
  <1>5. ASSUME NEW t \in Sessions, NEW why \in {"lost", "replaced", "stopped"},
               Closing(t, why), pool' = pool, stopping \subseteq stopping' \cup {t}
        PROVE  ServedIsFound'
    <2>1. /\ \A u \in Sessions : u # t => session'[u] = session[u]
          /\ session'[t].closing = "range"
          /\ session'[t].handler = session[t].handler /\ session'[t].old = session[t].old
      BY <1>5, ClosingMoves
    <2> QED
      BY <1>5, <2>1 DEF ServedIsFound, Closed
  <1>6. CASE Replace(s) \/ Lose(s)
    <2>1. CASE Replace(s)
      <3>1. session[s].old \in Sessions
        BY <1>0, <2>1 DEF Replace, SessionRec
      <3> QED
        BY <1>5, <2>1, <3>1 DEF Replace
    <2>2. CASE Lose(s)
      BY <1>5, <2>2 DEF Lose
    <2> QED
      BY <1>6, <2>1, <2>2
  <1>7. CASE StopCloses(s)
    <2>1. CASE Closed(s)
      <3>1. session' = session /\ pool' = pool /\ stopping' = stopping \ {s}
        BY <1>7, <2>1 DEF StopCloses
      <3> QED
        BY <2>1, <3>1 DEF ServedIsFound, Closed
    <2>2. CASE ~Closed(s)
      BY <1>5, <1>7, <2>2 DEF StopCloses
    <2> QED
      BY <2>1, <2>2
  <1>8. CASE Replaced(s)
    <2>1. /\ \A t \in Sessions : t # s => session'[t] = session[t]
          /\ session'[s].handler = "announce" /\ session[s].handler = "replace"
          /\ session'[s].closing = session[s].closing
          /\ \A t \in Sessions : session[s].old = t => session[t].closing = "done"
          /\ UNCHANGED <<pool, stopping>>
      BY <1>0, <1>8 DEF Replaced, SessionRec
    <2>2. \A t \in Sessions : session'[t].closing = session[t].closing
      BY <2>1
    <2> QED
      BY <2>1, <2>2 DEF ServedIsFound, Closed
  <1>9. CASE Connected(s)
    <2>1. /\ \A t \in Sessions : t # s => session'[t] = session[t]
          /\ session'[s].handler = "run" /\ session[s].handler = "announce"
          /\ session'[s].closing = session[s].closing
          /\ UNCHANGED <<pool, stopping>>
      BY <1>0, <1>9 DEF Connected, SessionRec
    <2> QED
      BY <2>1 DEF ServedIsFound, Closed
  <1> QED
    BY <1>1, <1>2, <1>3, <1>4, <1>6, <1>7, <1>8, <1>9 DEF Quiet

\* A connection that is served is found under its name, or is about to be closed by the
\* one that took the name or by Stop: for any number of connections.
THEOREM RelayServed == RelaySpec => []ServedIsFound
  <1>1. RelayInit => ServedIsFound
    BY DEF RelayInit, ServedIsFound, Open
  <1>2. ASSUME RelayInv, RelayInv', ServedIsFound, [RelayNext]_relayVars
        PROVE  ServedIsFound'
    <2>0. RelayTypeOK /\ RelayTypeOK'
      BY <1>2 DEF RelayInv
    <2>1. ASSUME NEW s \in Sessions, Quiet(s) PROVE ServedIsFound'
      BY <1>2, <2>0, <2>1, QuietFound
    <2>2. ASSUME NEW q \in Requests, Busy(q) PROVE ServedIsFound'
      BY <1>2, <2>0, <2>2, BusyMoves, StaysFound
    <2>3. ASSUME NEW s \in Sessions, Fail(s) \/ Deliver(s) \/ Finish(s)
          PROVE  ServedIsFound'
      <3>1. session[s].reader = "idle" \/ session[s].held \in Requests
        BY <1>2 DEF RelayInv, ReaderOK
      <3> QED
        BY <1>2, <2>0, <2>3, <3>1, ServeMoves, StaysFound
    <2>4. CASE Stop
      <3>1. \A n \in Names : pool[n] \in Sessions => pool[n] \in stopping'
        BY <2>4, RelayAssumption DEF Stop
      <3>2. stopping = {} /\ session' = session
        BY <2>0, <2>4 DEF Stop, RelayTypeOK
      <3>3. \A s \in Sessions : NameOf[s] \in Names
        BY RelayAssumption
      <3> QED
        BY <1>2, <3>1, <3>2, <3>3 DEF ServedIsFound, Closed
    <2>5. CASE (\E n \in Names : Apply(n)) \/ UNCHANGED relayVars
      BY <1>2, <2>5 DEF Apply, relayVars, ServedIsFound, Closed
    <2> QED
      BY <1>2, <2>1, <2>2, <2>3, <2>4, <2>5, StepKinds DEF Busy
  <1> QED
    BY <1>1, <1>2, RelayInvariant, PTL DEF RelaySpec

-----------------------------------------------------------------------------
(* The credential follows the connections.                                  *)

\* On its way from the pool to its announcement.
Entering(s) == session[s].handler \in {"replace", "announce"}

\* Nothing was announced beside an end, nor is anything about to be.
Undoubted(n) ==
    /\ n \notin raced
    /\ \A u \in Sessions : NameOf[u] = n /\ Entering(u) => ~Closed(u) /\ u \notin stopping

\* The order in which connections came: the pool has the last, and a connection
\* replaces the one just before it.
Came(rank, last) ==
    /\ rank \in [Sessions -> Nat] /\ last \in Nat
    /\ \A s \in Sessions : rank[s] <= last
    /\ \A s, t \in Sessions :
          session[s].handler # "new" /\ session[t].handler # "new" /\ rank[s] = rank[t] => s = t
    /\ \A s, t \in Sessions :
          session[s].handler # "new" /\ pool[NameOf[s]] = t => rank[s] <= rank[t]
    /\ \A u, v, t \in Sessions :
          session[v].handler = "replace" /\ session[v].old = t
          /\ session[u].handler # "new" /\ NameOf[u] = NameOf[v] /\ rank[u] < rank[v]
             => rank[u] <= rank[t]

\* A connection is announced after all those that came before it: they enter one
\* after the other, up to the one in the pool.
InOrder(rank) ==
    \A u \in Sessions :
        Undoubted(NameOf[u]) /\ Entering(u) =>
            /\ \E t \in Sessions : pool[NameOf[u]] = t /\ Entering(t)
            /\ \A v \in Sessions :
                  NameOf[v] = NameOf[u] /\ rank[u] < rank[v] =>
                      /\ session[v].handler # "announce"
                      /\ session[v].handler = "replace" =>
                            \E t \in Sessions : session[v].old = t /\ Entering(t)

\* What is new was never in the pool; what was replaced is not in it again.
Linked ==
    \A s \in Sessions :
        /\ session[s].handler = "new" =>
              session[s].closing = "no" /\ session[s].cause = "none" /\ s \notin stopping
        /\ \A n \in Names : pool[n] = s =>
              /\ NameOf[s] = n /\ session[s].handler # "new"
              /\ session[s].closing \in {"no", "range", "leave"}
              /\ session[s].cause # "replaced"
        /\ \A t \in Sessions : session[s].old = t =>
              /\ session[t].handler # "new" /\ NameOf[t] = NameOf[s] /\ pool[NameOf[t]] # t

\* A connection that is served has its credential, and all that came before it are gone.
ServedOK ==
    \A s \in Sessions :
        Undoubted(NameOf[s]) /\ pool[NameOf[s]] = s /\ session[s].handler = "run"
        /\ ~Closed(s) /\ s \notin stopping =>
            /\ announced[NameOf[s]]
            /\ \A t \in Sessions \ {s} : NameOf[t] = NameOf[s] =>
                  session[t].handler = "new" \/ session[t].closing = "done"

\* The end of a connection that the service will be told of.
Ends(t) ==
    \/ t \in stopping /\ ~Closed(t)
    \/ session[t].closing \in {"range", "leave", "notify"} /\ session[t].cause # "replaced"

\* A credential without a connection is about to go.
LeftOK ==
    \A n \in Names :
        Undoubted(n) /\ pool[n] = Nobody /\ announced[n] =>
            \E t \in Sessions : NameOf[t] = n /\ Ends(t)

CredentialInv ==
    /\ announced \in [Names -> BOOLEAN]
    /\ Linked /\ ServedOK /\ LeftOK
    /\ \E rank, last : Came(rank, last) /\ InOrder(rank)

\* What the proofs use of the sessions.
LEMMA SessionTypes ==
    ASSUME RelayTypeOK
    PROVE  /\ session \in [Sessions -> SessionRec] /\ pool \in [Names -> Sessions \cup {Nobody}]
           /\ NameOf \in [Sessions -> Names] /\ Nobody \notin Sessions
  BY RelayAssumption DEF RelayTypeOK

LEMMA CredentialInvInit == RelayInit => CredentialInv
  <1> SUFFICES ASSUME RelayInit PROVE CredentialInv
    OBVIOUS
  <1>1. /\ \A s \in Sessions : session[s] = Open
        /\ \A n \in Names : pool[n] = Nobody /\ announced[n] = FALSE
        /\ stopping = {} /\ Nobody \notin Sessions /\ NameOf \in [Sessions -> Names]
        /\ announced \in [Names -> BOOLEAN]
    BY RelayAssumption DEF RelayInit
  <1>2. /\ Open.handler = "new" /\ Open.old = Nobody /\ Open.closing = "no"
        /\ Open.cause = "none"
    BY DEF Open
  <1>3. Linked
    BY <1>1, <1>2 DEF Linked
  <1>4. ServedOK /\ LeftOK
    BY <1>1, <1>2 DEF ServedOK, LeftOK
  <1> DEFINE rank == [s \in Sessions |-> 0]
  <1>5. rank \in [Sessions -> Nat] /\ \A s \in Sessions : rank[s] <= 0
    OBVIOUS
  <1> HIDE DEF rank
  <1>6. Came(rank, 0)
    BY <1>1, <1>2, <1>5 DEF Came
  <1>7. InOrder(rank)
    BY <1>1, <1>2 DEF InOrder, Entering
  <1> QED
    BY <1>1, <1>3, <1>4, <1>6, <1>7 DEF CredentialInv

\* A step that starts or ends no session, and of which the service is not told.
LEMMA StaysCredited ==
    ASSUME CredentialInv, UNCHANGED <<pool, stopping, announced, raced>>,
           \A t \in Sessions : Stays(session[t], session'[t])
    PROVE  CredentialInv'
  <1>1. \A t \in Sessions :
           /\ session'[t].handler = session[t].handler /\ session'[t].old = session[t].old
           /\ session'[t].closing = session[t].closing /\ session'[t].cause = session[t].cause
    BY DEF Stays
  <1>2. \A t \in Sessions : (Entering(t)' <=> Entering(t)) /\ (Closed(t)' <=> Closed(t))
    BY <1>1 DEF Entering, Closed
  <1>3. \A n : Undoubted(n)' => Undoubted(n)
    BY <1>2 DEF Undoubted
  <1>4. Linked'
    BY <1>1 DEF CredentialInv, Linked
  <1>5. ServedOK'
    BY <1>1, <1>2, <1>3 DEF CredentialInv, ServedOK
  <1>6. LeftOK'
    BY <1>1, <1>2, <1>3 DEF CredentialInv, LeftOK, Ends
  <1>7. PICK rank, last : Came(rank, last) /\ InOrder(rank)
    BY DEF CredentialInv
  <1>8. Came(rank, last)'
    BY <1>1, <1>7 DEF Came
  <1>9. InOrder(rank)'
    BY <1>1, <1>2, <1>3, <1>7 DEF InOrder
  <1> QED
    BY <1>4, <1>5, <1>6, <1>8, <1>9 DEF CredentialInv

\* The cleanup of a session starts.
LEMMA ClosingCredited ==
    ASSUME CredentialInv, RelayTypeOK, NEW t \in Sessions, NEW why,
           session[t].handler # "new", ~Closed(t), Closing(t, why),
           why \in {"lost", "replaced", "stopped"},
           why = "replaced" =>
              \E v \in Sessions : session[v].handler = "replace" /\ session[v].old = t,
           UNCHANGED <<pool, announced, raced>>,
           stopping' \subseteq stopping, stopping \subseteq stopping' \cup {t}
    PROVE  CredentialInv'
  <1>0. /\ NameOf \in [Sessions -> Names] /\ Nobody \notin Sessions
        /\ session \in [Sessions -> SessionRec]
    BY SessionTypes
  <1>1. /\ \A u \in Sessions \ {t} : session'[u] = session[u]
        /\ session'[t].handler = session[t].handler /\ session'[t].old = session[t].old
        /\ session'[t].closing = "range" /\ session'[t].cause = why
    BY ClosingMoves
  <1>2. /\ \A u \in Sessions : Entering(u)' <=> Entering(u)
        /\ \A u \in Sessions \ {t} : Closed(u)' <=> Closed(u)
        /\ Closed(t)' /\ session[t].closing = "no"
    BY <1>1 DEF Entering, Closed
  <1>3. \A n : Undoubted(n)' => Undoubted(n)
    BY <1>2 DEF Undoubted
  <1>4. ASSUME why = "replaced"
        PROVE  /\ pool[NameOf[t]] # t
               /\ Undoubted(NameOf[t]) => pool[NameOf[t]] # Nobody
    <2>1. PICK v \in Sessions : session[v].handler = "replace" /\ session[v].old = t
      BY <1>4
    <2>2. NameOf[v] = NameOf[t] /\ pool[NameOf[t]] # t /\ Entering(v)
      BY <2>1 DEF CredentialInv, Linked, Entering
    <2> QED
      BY <1>0, <2>2 DEF CredentialInv, InOrder
  <1>5. Linked'
    <2>1. \A n \in Names : pool[n] = t => why # "replaced"
      BY <1>4 DEF CredentialInv, Linked
    <2> QED
      BY <1>0, <1>1, <2>1 DEF CredentialInv, Linked
  <1>6. ServedOK'
    <2> SUFFICES ASSUME NEW s \in Sessions, Undoubted(NameOf[s])', pool'[NameOf[s]] = s,
                        session'[s].handler = "run", ~Closed(s)', s \notin stopping'
                 PROVE  /\ announced'[NameOf[s]]
                        /\ \A u \in Sessions \ {s} : NameOf[u] = NameOf[s] =>
                              session'[u].handler = "new" \/ session'[u].closing = "done"
      BY DEF ServedOK
    <2>1. s # t
      BY <1>2
    <2>2. /\ announced[NameOf[s]]
          /\ \A u \in Sessions \ {s} : NameOf[u] = NameOf[s] =>
                session[u].handler = "new" \/ session[u].closing = "done"
      BY <1>1, <1>2, <1>3, <2>1 DEF CredentialInv, ServedOK
    <2> QED
      BY <1>1, <1>2, <2>1, <2>2
  <1>7. LeftOK'
    <2> SUFFICES ASSUME NEW n \in Names, Undoubted(n)', pool[n] = Nobody, announced[n]
                 PROVE  \E x \in Sessions : NameOf[x] = n /\ Ends(x)'
      BY DEF LeftOK
    <2>1. PICK x \in Sessions : NameOf[x] = n /\ Ends(x)
      BY <1>3 DEF CredentialInv, LeftOK
    <2>2. CASE x # t
      BY <1>1, <1>2, <2>1, <2>2 DEF Ends
    <2>3. CASE x = t
      <3>1. why # "replaced"
        BY <1>3, <1>4, <2>1, <2>3
      <3> QED
        BY <1>1, <2>1, <2>3, <3>1 DEF Ends
    <2> QED
      BY <2>2, <2>3
  <1>8. PICK rank, last : Came(rank, last) /\ InOrder(rank)
    BY DEF CredentialInv
  <1>9. \A u \in Sessions :
           session'[u].handler = session[u].handler /\ session'[u].old = session[u].old
    BY <1>1
  <1>10. Came(rank, last)'
    BY <1>8, <1>9 DEF Came
  <1>11. InOrder(rank)'
    BY <1>2, <1>3, <1>8, <1>9 DEF InOrder
  <1> QED
    BY <1>5, <1>6, <1>7, <1>10, <1>11 DEF CredentialInv

\* One session moves on in its cleanup.
LEMMA EmptyMapCredited ==
    ASSUME CredentialInv, RelayTypeOK, NEW s \in Sessions, EmptyMap(s)
    PROVE  CredentialInv'
  <1>0. session \in [Sessions -> SessionRec]
    BY SessionTypes
  <1>1. /\ \A u \in Sessions \ {s} : session'[u] = session[u]
        /\ session'[s].handler = session[s].handler /\ session'[s].old = session[s].old
        /\ session[s].closing = "range" /\ session'[s].closing = "leave"
        /\ session'[s].cause = session[s].cause
        /\ UNCHANGED <<pool, stopping, announced, raced>>
    BY <1>0 DEF EmptyMap, SessionRec, tellVars
  <1>2. \A u \in Sessions : (Entering(u)' <=> Entering(u)) /\ (Closed(u)' <=> Closed(u))
    BY <1>1 DEF Entering, Closed
  <1>3. \A n : Undoubted(n)' => Undoubted(n)
    BY <1>1, <1>2 DEF Undoubted
  <1>4. \A u \in Sessions :
           /\ session'[u].handler = session[u].handler /\ session'[u].old = session[u].old
           /\ session'[u].cause = session[u].cause
    BY <1>1
  <1>5. Linked'
    BY <1>1, <1>4 DEF CredentialInv, Linked
  <1>6. ServedOK'
    BY <1>1, <1>2, <1>3, <1>4 DEF CredentialInv, ServedOK
  <1>7. LeftOK'
    BY <1>1, <1>2, <1>3 DEF CredentialInv, LeftOK, Ends
  <1>8. PICK rank, last : Came(rank, last) /\ InOrder(rank)
    BY DEF CredentialInv
  <1>9. Came(rank, last)'
    BY <1>1, <1>4, <1>8 DEF Came
  <1>10. InOrder(rank)'
    BY <1>1, <1>2, <1>3, <1>4, <1>8 DEF InOrder
  <1> QED
    BY <1>1, <1>5, <1>6, <1>7, <1>9, <1>10 DEF CredentialInv

LEMMA LeaveCredited ==
    ASSUME CredentialInv, RelayTypeOK, NEW s \in Sessions, Leave(s)
    PROVE  CredentialInv'
  <1>0. /\ session \in [Sessions -> SessionRec] /\ pool \in [Names -> Sessions \cup {Nobody}]
        /\ NameOf \in [Sessions -> Names] /\ Nobody \notin Sessions
    BY SessionTypes
  <1>1. /\ \A u \in Sessions \ {s} : session'[u] = session[u]
        /\ session'[s].handler = session[s].handler /\ session'[s].old = session[s].old
        /\ session[s].closing = "leave" /\ session'[s].closing = "notify"
        /\ session'[s].cause = session[s].cause
        /\ UNCHANGED <<stopping, announced, raced>>
    BY <1>0 DEF Leave, SessionRec, tellVars
  <1>2. \A n \in Names : pool'[n] = IF pool[n] = s THEN Nobody ELSE pool[n]
    <2>1. \A n \in Names : pool[n] = s => n = NameOf[s]
      BY DEF CredentialInv, Linked
    <2> QED
      BY <1>0, <2>1 DEF Leave
  <1>3. \A u \in Sessions : (Entering(u)' <=> Entering(u)) /\ (Closed(u)' <=> Closed(u))
    BY <1>1 DEF Entering, Closed
  <1>4. \A n : Undoubted(n)' => Undoubted(n)
    BY <1>1, <1>3 DEF Undoubted
  <1>5. \A u \in Sessions :
           /\ session'[u].handler = session[u].handler /\ session'[u].old = session[u].old
           /\ session'[u].cause = session[u].cause
    BY <1>1
  <1>6. \A n \in Names : \A u \in Sessions : pool'[n] = u => pool[n] = u /\ u # s
    BY <1>0, <1>2
  <1>7. Linked'
    BY <1>0, <1>1, <1>5, <1>6 DEF CredentialInv, Linked
  <1>8. ServedOK'
    BY <1>0, <1>1, <1>3, <1>4, <1>5, <1>6 DEF CredentialInv, ServedOK
  <1>9. LeftOK'
    <2> SUFFICES ASSUME NEW n \in Names, Undoubted(n)', pool'[n] = Nobody, announced[n]
                 PROVE  \E x \in Sessions : NameOf[x] = n /\ Ends(x)'
      BY <1>1 DEF LeftOK
    <2>1. CASE pool[n] = s
      <3>1. NameOf[s] = n /\ session[s].cause # "replaced"
        BY <2>1 DEF CredentialInv, Linked
      <3> QED
        BY <1>1, <3>1 DEF Ends
    <2>2. CASE pool[n] # s
      <3>1. PICK x \in Sessions : NameOf[x] = n /\ Ends(x)
        BY <1>2, <1>4, <2>2 DEF CredentialInv, LeftOK
      <3> QED
        BY <1>1, <1>3, <3>1 DEF Ends
    <2> QED
      BY <2>1, <2>2
  <1>10. PICK rank, last : Came(rank, last) /\ InOrder(rank)
    BY DEF CredentialInv
  <1>11. Came(rank, last)'
    BY <1>0, <1>5, <1>6, <1>10 DEF Came
  <1>12. InOrder(rank)'
    <2> SUFFICES ASSUME NEW u \in Sessions, Undoubted(NameOf[u])', Entering(u)'
                 PROVE  /\ \E t \in Sessions : pool'[NameOf[u]] = t /\ Entering(t)'
                        /\ \A v \in Sessions :
                              NameOf[v] = NameOf[u] /\ rank[u] < rank[v] =>
                                  /\ session'[v].handler # "announce"
                                  /\ session'[v].handler = "replace" =>
                                        \E t \in Sessions : session'[v].old = t /\ Entering(t)'
      BY DEF InOrder
    <2>1. /\ \E t \in Sessions : pool[NameOf[u]] = t /\ Entering(t)
          /\ \A v \in Sessions :
                NameOf[v] = NameOf[u] /\ rank[u] < rank[v] =>
                    /\ session[v].handler # "announce"
                    /\ session[v].handler = "replace" =>
                          \E t \in Sessions : session[v].old = t /\ Entering(t)
      BY <1>3, <1>4, <1>10 DEF InOrder
    <2>2. PICK t \in Sessions : pool[NameOf[u]] = t /\ Entering(t)
      BY <2>1
    <2>3. t # s
      <3>1. NameOf[t] = NameOf[u]
        BY <1>0, <2>2 DEF CredentialInv, Linked
      <3> QED
        BY <1>1, <1>4, <2>2, <3>1 DEF Undoubted, Closed
    <2>4. pool'[NameOf[u]] = t
      BY <1>0, <1>2, <2>2, <2>3
    <2> QED
      BY <1>3, <1>5, <2>1, <2>2, <2>4
  <1> QED
    BY <1>1, <1>7, <1>8, <1>9, <1>11, <1>12 DEF CredentialInv

LEMMA DisconnectedCredited ==
    ASSUME CredentialInv, RelayTypeOK, NEW s \in Sessions, Disconnected(s)
    PROVE  CredentialInv'
  <1>0. /\ session \in [Sessions -> SessionRec] /\ NameOf \in [Sessions -> Names]
        /\ announced \in [Names -> BOOLEAN]
    BY SessionTypes DEF CredentialInv
  <1>1. /\ \A u \in Sessions \ {s} : session'[u] = session[u]
        /\ session'[s].handler = session[s].handler /\ session'[s].old = session[s].old
        /\ session[s].closing = "notify" /\ session'[s].closing = "done"
        /\ session'[s].cause = session[s].cause
        /\ UNCHANGED <<pool, stopping, raced>>
    BY <1>0 DEF Disconnected, SessionRec
  <1>2. /\ announced' \in [Names -> BOOLEAN]
        /\ \A n \in Names : n # NameOf[s] => announced'[n] = announced[n]
        /\ session[s].cause = "replaced" => announced' = announced
        /\ session[s].cause # "replaced" => ~announced'[NameOf[s]]
    BY <1>0 DEF Disconnected
  <1>3. \A u \in Sessions : (Entering(u)' <=> Entering(u)) /\ (Closed(u)' <=> Closed(u))
    BY <1>1 DEF Entering, Closed
  <1>4. \A n : Undoubted(n)' => Undoubted(n)
    BY <1>1, <1>3 DEF Undoubted
  <1>5. \A u \in Sessions :
           /\ session'[u].handler = session[u].handler /\ session'[u].old = session[u].old
           /\ session'[u].cause = session[u].cause
    BY <1>1
  <1>6. Linked'
    BY <1>1, <1>5 DEF CredentialInv, Linked
  <1>7. ServedOK'
    <2> SUFFICES ASSUME NEW x \in Sessions, Undoubted(NameOf[x])', pool[NameOf[x]] = x,
                        session'[x].handler = "run", ~Closed(x)', x \notin stopping
                 PROVE  /\ announced'[NameOf[x]]
                        /\ \A u \in Sessions \ {x} : NameOf[u] = NameOf[x] =>
                              session'[u].handler = "new" \/ session'[u].closing = "done"
      BY <1>1 DEF ServedOK
    <2>1. /\ announced[NameOf[x]]
          /\ \A u \in Sessions \ {x} : NameOf[u] = NameOf[x] =>
                session[u].handler = "new" \/ session[u].closing = "done"
      BY <1>3, <1>4, <1>5 DEF CredentialInv, ServedOK
    <2>2. NameOf[s] # NameOf[x]
      <3>1. s # x
        BY <1>1, <1>3 DEF Closed
      <3>2. session[s].handler # "new"
        BY <1>1 DEF CredentialInv, Linked
      <3> QED
        BY <1>1, <2>1, <3>1, <3>2
    <2> QED
      BY <1>0, <1>1, <1>2, <1>5, <2>1, <2>2
  <1>8. LeftOK'
    <2> SUFFICES ASSUME NEW n \in Names, Undoubted(n)', pool[n] = Nobody, announced'[n]
                 PROVE  \E x \in Sessions : NameOf[x] = n /\ Ends(x)'
      BY <1>1 DEF LeftOK
    <2>1. announced[n] /\ (n = NameOf[s] => session[s].cause = "replaced")
      BY <1>2
    <2>2. PICK x \in Sessions : NameOf[x] = n /\ Ends(x)
      BY <1>4, <2>1 DEF CredentialInv, LeftOK
    <2>3. x # s
      BY <1>1, <2>1, <2>2 DEF Ends, Closed
    <2> QED
      BY <1>1, <1>3, <2>2, <2>3 DEF Ends
  <1>9. PICK rank, last : Came(rank, last) /\ InOrder(rank)
    BY DEF CredentialInv
  <1>10. Came(rank, last)'
    BY <1>1, <1>5, <1>9 DEF Came
  <1>11. InOrder(rank)'
    BY <1>1, <1>3, <1>4, <1>5, <1>9 DEF InOrder
  <1> QED
    BY <1>2, <1>6, <1>7, <1>8, <1>10, <1>11 DEF CredentialInv

LEMMA RegisterCredited ==
    ASSUME CredentialInv, RelayTypeOK, NEW s \in Sessions, Register(s)
    PROVE  CredentialInv'
  <1> DEFINE n == NameOf[s]
  <1>0. /\ session \in [Sessions -> SessionRec] /\ pool \in [Names -> Sessions \cup {Nobody}]
        /\ NameOf \in [Sessions -> Names] /\ Nobody \notin Sessions /\ n \in Names
    BY SessionTypes
  <1>1. /\ \A u \in Sessions \ {s} : session'[u] = session[u]
        /\ session[s].handler = "new" /\ session'[s].handler = "replace"
        /\ session'[s].old = pool[n]
        /\ session'[s].closing = session[s].closing /\ session'[s].cause = session[s].cause
        /\ pool'[n] = s /\ \A k \in Names \ {n} : pool'[k] = pool[k]
        /\ UNCHANGED <<stopping, announced, raced>>
    BY <1>0 DEF Register, SessionRec, tellVars
  <1> HIDE DEF n
  <1>2. n = NameOf[s]
    BY DEF n
  <1>3. /\ Entering(s)' /\ ~Entering(s)
        /\ \A u \in Sessions \ {s} : Entering(u)' <=> Entering(u)
        /\ \A u \in Sessions : Closed(u)' <=> Closed(u)
    BY <1>1 DEF Entering, Closed
  <1>4. \A k : Undoubted(k)' => Undoubted(k)
    BY <1>1, <1>3 DEF Undoubted
  <1>5. ASSUME NEW t \in Sessions, pool[n] = t
        PROVE  NameOf[t] = n /\ session[t].handler # "new" /\ t # s
    BY <1>0, <1>1, <1>5 DEF CredentialInv, Linked
  <1>6. Linked'
    <2> SUFFICES ASSUME NEW x \in Sessions
                 PROVE  /\ session'[x].handler = "new" =>
                              session'[x].closing = "no" /\ session'[x].cause = "none" /\ x \notin stopping
                        /\ \A k \in Names : pool'[k] = x =>
                              /\ NameOf[x] = k /\ session'[x].handler # "new"
                              /\ session'[x].closing \in {"no", "range", "leave"}
                              /\ session'[x].cause # "replaced"
                        /\ \A t \in Sessions : session'[x].old = t =>
                              /\ session'[t].handler # "new" /\ NameOf[t] = NameOf[x]
                              /\ pool'[NameOf[t]] # t
      BY <1>1 DEF Linked
    <2>1. session'[x].handler = "new" =>
             session'[x].closing = "no" /\ session'[x].cause = "none" /\ x \notin stopping
      BY <1>1 DEF CredentialInv, Linked
    <2>2. ASSUME NEW k \in Names, pool'[k] = x
          PROVE  /\ NameOf[x] = k /\ session'[x].handler # "new"
                 /\ session'[x].closing \in {"no", "range", "leave"}
                 /\ session'[x].cause # "replaced"
      <3>1. CASE k = n
        <4>1. session[s].closing = "no" /\ session[s].cause = "none"
          BY <1>1 DEF CredentialInv, Linked
        <4> QED
          BY <1>1, <1>2, <2>2, <3>1, <4>1
      <3>2. CASE k # n
        <4>1. pool[k] = x
          BY <1>1, <2>2, <3>2
        <4> QED
          BY <1>1, <4>1 DEF CredentialInv, Linked
      <3> QED
        BY <3>1, <3>2
    <2>3. ASSUME NEW t \in Sessions, session'[x].old = t
          PROVE  /\ session'[t].handler # "new" /\ NameOf[t] = NameOf[x]
                 /\ pool'[NameOf[t]] # t
      <3>1. CASE x = s
        BY <1>1, <1>2, <1>5, <2>3, <3>1
      <3>2. CASE x # s
        <4>1. session[t].handler # "new" /\ NameOf[t] = NameOf[x] /\ pool[NameOf[t]] # t
          BY <1>1, <2>3, <3>2 DEF CredentialInv, Linked
        <4>2. NameOf[t] \in Names
          BY <1>0
        <4> QED
          BY <1>1, <4>1, <4>2
      <3> QED
        BY <3>1, <3>2
    <2> QED
      BY <2>1, <2>2, <2>3
  <1>7. ServedOK'
    <2> SUFFICES ASSUME NEW x \in Sessions, Undoubted(NameOf[x])', pool'[NameOf[x]] = x,
                        session'[x].handler = "run", ~Closed(x)', x \notin stopping
                 PROVE  /\ announced[NameOf[x]]
                        /\ \A u \in Sessions \ {x} : NameOf[u] = NameOf[x] =>
                              session'[u].handler = "new" \/ session'[u].closing = "done"
      BY <1>1 DEF ServedOK
    <2>1. x # s /\ NameOf[x] \in Names
      BY <1>0, <1>1
    <2>2. NameOf[x] # n
      BY <1>1, <2>1
    <2>3. /\ announced[NameOf[x]]
          /\ \A u \in Sessions \ {x} : NameOf[u] = NameOf[x] =>
                session[u].handler = "new" \/ session[u].closing = "done"
      BY <1>1, <1>3, <1>4, <2>1, <2>2 DEF CredentialInv, ServedOK
    <2> QED
      BY <1>1, <1>2, <2>2, <2>3
  <1>8. LeftOK'
    <2> SUFFICES ASSUME NEW k \in Names, Undoubted(k)', pool'[k] = Nobody, announced[k]
                 PROVE  \E x \in Sessions : NameOf[x] = k /\ Ends(x)'
      BY <1>1 DEF LeftOK
    <2>1. k # n
      BY <1>0, <1>1
    <2>2. PICK x \in Sessions : NameOf[x] = k /\ Ends(x)
      BY <1>1, <1>4, <2>1 DEF CredentialInv, LeftOK
    <2>3. x # s
      BY <1>2, <2>1, <2>2
    <2> QED
      BY <1>1, <1>3, <2>2, <2>3 DEF Ends
  <1>9. PICK rank, last : Came(rank, last) /\ InOrder(rank)
    BY DEF CredentialInv
  <1> DEFINE place == [rank EXCEPT ![s] = last + 1]
  <1>10. /\ rank \in [Sessions -> Nat] /\ last \in Nat /\ \A u \in Sessions : rank[u] <= last
    BY <1>9 DEF Came
  <1>11. /\ place \in [Sessions -> Nat] /\ last + 1 \in Nat
         /\ \A u \in Sessions \ {s} : place[u] = rank[u] /\ ~(place[s] <= place[u])
         /\ \A u \in Sessions : place[u] <= place[s] /\ place[u] <= last + 1
    BY <1>10
  <1> HIDE DEF place
  <1>12. \A u \in Sessions : u = s \/ (u # s /\ session'[u] = session[u] /\ place[u] = rank[u])
    BY <1>1, <1>11
  <1>13. Came(place, last + 1)'
    <2>1. ASSUME NEW x \in Sessions, NEW y \in Sessions,
                 session'[x].handler # "new", session'[y].handler # "new", place[x] = place[y]
          PROVE  x = y
      <3>1. CASE x = s \/ y = s
        BY <1>10, <1>11, <2>1, <3>1
      <3>2. CASE x # s /\ y # s
        BY <1>9, <1>12, <2>1, <3>2 DEF Came
      <3> QED
        BY <3>1, <3>2
    <2>2. ASSUME NEW x \in Sessions, NEW y \in Sessions,
                 session'[x].handler # "new", pool'[NameOf[x]] = y
          PROVE  place[x] <= place[y]
      <3>1. CASE NameOf[x] = n
        BY <1>1, <1>11, <2>2, <3>1
      <3>2. CASE NameOf[x] # n
        <4>1. x # s /\ NameOf[x] \in Names /\ pool[NameOf[x]] = y
          BY <1>0, <1>1, <1>2, <2>2, <3>2
        <4>2. y # s
          BY <1>2, <3>2, <4>1 DEF CredentialInv, Linked
        <4> QED
          BY <1>9, <1>12, <2>2, <4>1, <4>2 DEF Came
      <3> QED
        BY <3>1, <3>2
    <2>3. ASSUME NEW u \in Sessions, NEW v \in Sessions, NEW t \in Sessions,
                 session'[v].handler = "replace", session'[v].old = t,
                 session'[u].handler # "new", NameOf[u] = NameOf[v], place[u] < place[v]
          PROVE  place[u] <= place[t]
      <3>1. u # s
        BY <1>10, <1>11, <2>3
      <3>2. CASE v = s
        <4>1. pool[n] = t /\ t # s /\ NameOf[u] = n
          BY <1>1, <1>2, <1>5, <2>3, <3>2
        <4> QED
          BY <1>9, <1>12, <2>3, <3>1, <4>1 DEF Came
      <3>3. CASE v # s
        <4>1. session[v].old = t /\ session[v].handler = "replace"
          BY <1>12, <2>3, <3>3
        <4>2. t # s
          BY <1>1, <4>1 DEF CredentialInv, Linked
        <4> QED
          BY <1>9, <1>12, <2>3, <3>1, <3>3, <4>1, <4>2 DEF Came
      <3> QED
        BY <3>2, <3>3
    <2> QED
      BY <1>11, <2>1, <2>2, <2>3 DEF Came
  <1>14. InOrder(place)'
    <2> SUFFICES ASSUME NEW u \in Sessions, Undoubted(NameOf[u])', Entering(u)'
                 PROVE  /\ \E t \in Sessions : pool'[NameOf[u]] = t /\ Entering(t)'
                        /\ \A v \in Sessions :
                              NameOf[v] = NameOf[u] /\ place[u] < place[v] =>
                                  /\ session'[v].handler # "announce"
                                  /\ session'[v].handler = "replace" =>
                                        \E t \in Sessions : session'[v].old = t /\ Entering(t)'
      BY DEF InOrder
    <2>1. \E t \in Sessions : pool'[NameOf[u]] = t /\ Entering(t)'
      <3>1. CASE NameOf[u] = n
        BY <1>1, <1>3, <3>1
      <3>2. CASE NameOf[u] # n
        <4>1. PICK t \in Sessions : pool[NameOf[u]] = t /\ Entering(t)
          BY <1>2, <1>3, <1>4, <1>9, <3>2 DEF InOrder
        <4>2. NameOf[u] \in Names
          BY <1>0
        <4> QED
          BY <1>1, <1>3, <3>2, <4>1, <4>2
      <3> QED
        BY <3>1, <3>2
    <2>2. ASSUME NEW v \in Sessions, NameOf[v] = NameOf[u], place[u] < place[v]
          PROVE  /\ session'[v].handler # "announce"
                 /\ session'[v].handler = "replace" =>
                       \E t \in Sessions : session'[v].old = t /\ Entering(t)'
      <3>1. u # s /\ Entering(u)
        BY <1>3, <1>10, <1>11, <2>2
      <3>2. CASE v = s
        <4>1. PICK t \in Sessions : pool[n] = t /\ Entering(t)
          BY <1>2, <1>4, <1>9, <2>2, <3>1, <3>2 DEF InOrder
        <4> QED
          BY <1>1, <1>3, <1>5, <3>2, <4>1
      <3>3. CASE v # s
        <4>1. /\ session[v].handler # "announce"
              /\ session[v].handler = "replace" =>
                    \E t \in Sessions : session[v].old = t /\ Entering(t)
          BY <1>4, <1>9, <1>12, <2>2, <3>1, <3>3 DEF InOrder
        <4> QED
          BY <1>3, <1>12, <3>3, <4>1
      <3> QED
        BY <3>2, <3>3
    <2> QED
      BY <2>1, <2>2
  <1> QED
    BY <1>1, <1>6, <1>7, <1>8, <1>13, <1>14 DEF CredentialInv

LEMMA ReplacedCredited ==
    ASSUME CredentialInv, RelayTypeOK, NEW s \in Sessions, Replaced(s)
    PROVE  CredentialInv'
  <1>0. session \in [Sessions -> SessionRec]
    BY SessionTypes
  <1>1. /\ \A u \in Sessions \ {s} : session'[u] = session[u]
        /\ session[s].handler = "replace" /\ session'[s].handler = "announce"
        /\ session'[s].old = session[s].old /\ session'[s].closing = session[s].closing
        /\ session'[s].cause = session[s].cause
        /\ \A t \in Sessions : session[s].old = t => session[t].closing = "done"
        /\ UNCHANGED <<pool, stopping, announced, raced>>
    BY <1>0 DEF Replaced, SessionRec, tellVars
  <1>2. \A u \in Sessions : (Entering(u)' <=> Entering(u)) /\ (Closed(u)' <=> Closed(u))
    BY <1>1 DEF Entering, Closed
  <1>3. \A n : Undoubted(n)' => Undoubted(n)
    BY <1>1, <1>2 DEF Undoubted
  <1>4. \A u \in Sessions :
           /\ session'[u].handler = "new" <=> session[u].handler = "new"
           /\ session'[u].old = session[u].old /\ session'[u].closing = session[u].closing
           /\ session'[u].cause = session[u].cause
           /\ session'[u].handler \in {"replace", "run"} =>
                 session'[u].handler = session[u].handler
           /\ session'[u].handler = "announce" => u = s \/ session[u].handler = "announce"
    BY <1>1
  <1>5. Linked'
    BY <1>1, <1>4 DEF CredentialInv, Linked
  <1>6. ServedOK'
    BY <1>1, <1>2, <1>3, <1>4 DEF CredentialInv, ServedOK
  <1>7. LeftOK'
    BY <1>1, <1>2, <1>3, <1>4 DEF CredentialInv, LeftOK, Ends
  <1>8. PICK rank, last : Came(rank, last) /\ InOrder(rank)
    BY DEF CredentialInv
  <1>9. Came(rank, last)'
    BY <1>1, <1>4, <1>8 DEF Came
  <1>10. InOrder(rank)'
    <2> SUFFICES ASSUME NEW u \in Sessions, Undoubted(NameOf[u])', Entering(u)'
                 PROVE  /\ \E t \in Sessions : pool'[NameOf[u]] = t /\ Entering(t)'
                        /\ \A v \in Sessions :
                              NameOf[v] = NameOf[u] /\ rank[u] < rank[v] =>
                                  /\ session'[v].handler # "announce"
                                  /\ session'[v].handler = "replace" =>
                                        \E t \in Sessions : session'[v].old = t /\ Entering(t)'
      BY DEF InOrder
    <2>1. /\ \E t \in Sessions : pool[NameOf[u]] = t /\ Entering(t)
          /\ \A v \in Sessions :
                NameOf[v] = NameOf[u] /\ rank[u] < rank[v] =>
                    /\ session[v].handler # "announce"
                    /\ session[v].handler = "replace" =>
                          \E t \in Sessions : session[v].old = t /\ Entering(t)
      BY <1>2, <1>3, <1>8 DEF InOrder
    <2>2. ~(NameOf[s] = NameOf[u] /\ rank[u] < rank[s])
      <3> SUFFICES ASSUME NameOf[s] = NameOf[u], rank[u] < rank[s] PROVE FALSE
        OBVIOUS
      <3>1. PICK t \in Sessions : session[s].old = t /\ Entering(t)
        BY <1>1, <2>1
      <3>2. NameOf[t] = NameOf[u] /\ session[t].closing = "done"
        BY <1>1, <3>1 DEF CredentialInv, Linked
      <3> QED
        BY <1>3, <3>1, <3>2 DEF Undoubted, Closed
    <2> QED
      BY <1>1, <1>2, <1>4, <2>1, <2>2
  <1> QED
    BY <1>1, <1>5, <1>6, <1>7, <1>9, <1>10 DEF CredentialInv

\* The one that is announced came after all that enter, so the pool has it or one that
\* came later and has yet to enter; and all that came before it are gone.
LEMMA ConnectedCredited ==
    ASSUME CredentialInv, ServedIsFound, RelayTypeOK, NEW s \in Sessions, Connected(s)
    PROVE  CredentialInv'
  <1> DEFINE n == NameOf[s]
  <1>0. /\ session \in [Sessions -> SessionRec] /\ pool \in [Names -> Sessions \cup {Nobody}]
        /\ NameOf \in [Sessions -> Names] /\ Nobody \notin Sessions /\ n \in Names
        /\ announced \in [Names -> BOOLEAN]
    BY SessionTypes DEF CredentialInv
  <1>1. /\ \A u \in Sessions \ {s} : session'[u] = session[u]
        /\ session[s].handler = "announce" /\ session'[s].handler = "run"
        /\ session'[s].old = session[s].old /\ session'[s].closing = session[s].closing
        /\ session'[s].cause = session[s].cause
        /\ UNCHANGED <<pool, stopping>>
    BY <1>0 DEF Connected, SessionRec
  <1>2. /\ announced' = [announced EXCEPT ![n] = IF applied[n] THEN @ ELSE TRUE]
        /\ raced \subseteq raced'
        /\ n \notin raced' =>
              /\ announced[n] = applied[n] /\ ~Closed(s)
              /\ \A t \in Sessions : NameOf[t] = n =>
                    t \notin stopping /\ session[t].closing \in {"no", "done"}
    BY DEF Connected
  <1> HIDE DEF n
  <1>3. /\ announced' \in [Names -> BOOLEAN]
        /\ \A k \in Names \ {n} : announced'[k] = announced[k]
        /\ announced[n] => announced'[n]
        /\ n \notin raced' => announced'[n]
    BY <1>0, <1>2
  <1>4. n = NameOf[s]
    BY DEF n
  <1>5. /\ Entering(s) /\ ~Entering(s)'
        /\ \A u \in Sessions \ {s} : Entering(u)' <=> Entering(u)
        /\ \A u \in Sessions : Closed(u)' <=> Closed(u)
    BY <1>1 DEF Entering, Closed
  <1>6. \A k : Undoubted(k)' => Undoubted(k)
    <2> SUFFICES ASSUME NEW k, Undoubted(k)' PROVE Undoubted(k)
      OBVIOUS
    <2>1. k \notin raced'
      BY DEF Undoubted
    <2>2. ASSUME NEW u \in Sessions, NameOf[u] = k, Entering(u)
          PROVE  ~Closed(u) /\ u \notin stopping
      <3>1. CASE u = s
        BY <1>2, <1>4, <2>1, <2>2, <3>1
      <3>2. CASE u # s
        BY <1>1, <1>5, <2>2, <3>2 DEF Undoubted
      <3> QED
        BY <3>1, <3>2
    <2> QED
      BY <1>2, <2>1, <2>2 DEF Undoubted
  <1>7. \A u \in Sessions :
           /\ session'[u].handler = "new" <=> session[u].handler = "new"
           /\ session'[u].old = session[u].old /\ session'[u].closing = session[u].closing
           /\ session'[u].cause = session[u].cause
           /\ session'[u].handler \in {"replace", "announce"} =>
                 u # s /\ session'[u].handler = session[u].handler
           /\ session'[u].handler = "run" => u = s \/ session[u].handler = "run"
    BY <1>1
  <1>8. PICK rank, last : Came(rank, last) /\ InOrder(rank)
    BY DEF CredentialInv
  <1>9. rank \in [Sessions -> Nat]
    BY <1>8 DEF Came
  <1>10. ASSUME NEW u \in Sessions, u # s, NameOf[u] = n, Undoubted(n), Entering(u)
         PROVE  ~(rank[u] <= rank[s])
    <2>1. rank[u] # rank[s]
      BY <1>1, <1>8, <1>10 DEF Came, Entering
    <2>2. ~(rank[u] < rank[s])
      BY <1>1, <1>4, <1>8, <1>10 DEF InOrder
    <2> QED
      BY <1>9, <2>1, <2>2
  <1>11. ASSUME NEW u \in Sessions, u # s, NameOf[u] = n, Undoubted(n), Entering(u)
         PROVE  pool[n] # s
    <2>1. session[u].handler # "new"
      BY <1>11 DEF Entering
    <2> QED
      BY <1>8, <1>10, <1>11, <2>1 DEF Came
  <1>12. Linked'
    BY <1>1, <1>7 DEF CredentialInv, Linked
  <1>13. ServedOK'
    <2> SUFFICES ASSUME NEW x \in Sessions, Undoubted(NameOf[x])', pool[NameOf[x]] = x,
                        session'[x].handler = "run", ~Closed(x)', x \notin stopping
                 PROVE  /\ announced'[NameOf[x]]
                        /\ \A u \in Sessions \ {x} : NameOf[u] = NameOf[x] =>
                              session'[u].handler = "new" \/ session'[u].closing = "done"
      BY <1>1 DEF ServedOK
    <2>1. CASE x = s
      <3>1. n \notin raced' /\ Undoubted(n)
        BY <1>4, <1>6, <2>1 DEF Undoubted
      <3>2. ASSUME NEW u \in Sessions \ {s}, NameOf[u] = n
            PROVE  session[u].handler = "new" \/ session[u].closing = "done"
        <4> SUFFICES ASSUME session[u].handler # "new", session[u].closing # "done" PROVE FALSE
          OBVIOUS
        <4>1. ~Closed(u) /\ u \notin stopping /\ pool[NameOf[u]] # u
          BY <1>2, <1>4, <2>1, <3>1, <3>2 DEF Closed
        <4>2. PICK v \in Sessions : session[v].handler = "replace" /\ session[v].old = u
          BY <4>1 DEF ServedIsFound
        <4>3. NameOf[v] = n /\ Entering(v) /\ v # s
          BY <1>1, <3>2, <4>2 DEF CredentialInv, Linked, Entering
        <4> QED
          BY <1>4, <1>11, <2>1, <3>1, <4>3
      <3> QED
        BY <1>3, <1>4, <1>7, <2>1, <3>1, <3>2
    <2>2. CASE x # s
      <3>1. /\ announced[NameOf[x]]
            /\ \A u \in Sessions \ {x} : NameOf[u] = NameOf[x] =>
                  session[u].handler = "new" \/ session[u].closing = "done"
        BY <1>5, <1>6, <1>7, <2>2 DEF CredentialInv, ServedOK
      <3>2. NameOf[x] \in Names
        BY <1>0
      <3> QED
        BY <1>3, <1>7, <3>1, <3>2
    <2> QED
      BY <2>1, <2>2
  <1>14. LeftOK'
    <2> SUFFICES ASSUME NEW k \in Names, Undoubted(k)', pool[k] = Nobody, announced'[k]
                 PROVE  \E x \in Sessions : NameOf[x] = k /\ Ends(x)'
      BY <1>1 DEF LeftOK
    <2>1. k # n
      BY <1>0, <1>4, <1>5, <1>6, <1>8 DEF InOrder
    <2>2. PICK x \in Sessions : NameOf[x] = k /\ Ends(x)
      BY <1>3, <1>6, <2>1 DEF CredentialInv, LeftOK
    <2> QED
      BY <1>1, <1>5, <1>7, <2>2 DEF Ends
  <1>15. Came(rank, last)'
    BY <1>1, <1>7, <1>8 DEF Came
  <1>16. InOrder(rank)'
    <2> SUFFICES ASSUME NEW u \in Sessions, Undoubted(NameOf[u])', Entering(u)'
                 PROVE  /\ \E t \in Sessions : pool[NameOf[u]] = t /\ Entering(t)'
                        /\ \A v \in Sessions :
                              NameOf[v] = NameOf[u] /\ rank[u] < rank[v] =>
                                  /\ session'[v].handler # "announce"
                                  /\ session'[v].handler = "replace" =>
                                        \E t \in Sessions : session'[v].old = t /\ Entering(t)'
      BY <1>1 DEF InOrder
    <2>1. u # s /\ Entering(u) /\ session[u].handler # "new" /\ Undoubted(NameOf[u])
      BY <1>5, <1>6 DEF Entering
    <2>2. /\ \E t \in Sessions : pool[NameOf[u]] = t /\ Entering(t)
          /\ \A v \in Sessions :
                NameOf[v] = NameOf[u] /\ rank[u] < rank[v] =>
                    /\ session[v].handler # "announce"
                    /\ session[v].handler = "replace" =>
                          \E t \in Sessions : session[v].old = t /\ Entering(t)
      BY <1>8, <2>1 DEF InOrder
    <2>3. \E t \in Sessions : pool[NameOf[u]] = t /\ Entering(t)'
      <3>1. PICK t \in Sessions : pool[NameOf[u]] = t /\ Entering(t)
        BY <2>2
      <3>2. NameOf[t] = NameOf[u]
        BY <1>0, <3>1 DEF CredentialInv, Linked
      <3>3. t # s
        BY <1>4, <1>11, <2>1, <3>1, <3>2
      <3> QED
        BY <1>5, <3>1, <3>3
    <2>4. ASSUME NEW v \in Sessions, NameOf[v] = NameOf[u], rank[u] < rank[v]
          PROVE  /\ session'[v].handler # "announce"
                 /\ session'[v].handler = "replace" =>
                       \E t \in Sessions : session'[v].old = t /\ Entering(t)'
      <3>1. session'[v].handler # "announce"
        BY <1>7, <2>2, <2>4
      <3>2. ASSUME session'[v].handler = "replace"
            PROVE  \E t \in Sessions : session'[v].old = t /\ Entering(t)'
        <4>1. session[v].handler = "replace"
          BY <1>7, <3>2
        <4>2. PICK t \in Sessions : session[v].old = t /\ Entering(t)
          BY <2>2, <2>4, <4>1
        <4>3. NameOf[t] = NameOf[v] /\ rank[u] <= rank[t]
          BY <1>8, <2>1, <2>4, <4>1, <4>2 DEF CredentialInv, Linked, Came
        <4>4. t # s
          BY <1>4, <1>10, <2>1, <2>4, <4>3
        <4> QED
          BY <1>5, <1>7, <4>2, <4>4
      <3> QED
        BY <3>1, <3>2
    <2> QED
      BY <2>3, <2>4
  <1> QED
    BY <1>3, <1>12, <1>13, <1>14, <1>15, <1>16 DEF CredentialInv

LEMMA StopCredited ==
    ASSUME CredentialInv, RelayTypeOK, Stop
    PROVE  CredentialInv'
  <1>0. /\ session \in [Sessions -> SessionRec] /\ pool \in [Names -> Sessions \cup {Nobody}]
        /\ NameOf \in [Sessions -> Names] /\ Nobody \notin Sessions
    BY SessionTypes
  <1>1. /\ UNCHANGED <<session, announced, raced>> /\ stopping = {}
        /\ stopping' = {pool[n] : n \in Names} \ {Nobody}
        /\ \A n \in Names : pool'[n] = Nobody
    BY DEF Stop, RelayTypeOK, tellVars
  <1>2. \A u \in Sessions : (Entering(u)' <=> Entering(u)) /\ (Closed(u)' <=> Closed(u))
    BY <1>1 DEF Entering, Closed
  <1>3. \A k : Undoubted(k)' => Undoubted(k)
    BY <1>1, <1>2 DEF Undoubted
  <1>4. \A x \in Sessions : x \in stopping' =>
           pool[NameOf[x]] = x /\ session[x].handler # "new"
    BY <1>1 DEF CredentialInv, Linked
  <1>5. Linked'
    BY <1>0, <1>1, <1>4 DEF CredentialInv, Linked
  <1>6. ServedOK'
    BY <1>0, <1>1 DEF ServedOK
  <1>7. LeftOK'
    <2> SUFFICES ASSUME NEW n \in Names, Undoubted(n)', announced[n]
                 PROVE  \E x \in Sessions : NameOf[x] = n /\ Ends(x)'
      BY <1>1 DEF LeftOK
    <2>1. CASE pool[n] = Nobody
      <3>1. PICK x \in Sessions : NameOf[x] = n /\ Ends(x)
        BY <1>3, <2>1 DEF CredentialInv, LeftOK
      <3> QED
        BY <1>1, <3>1 DEF Ends
    <2>2. CASE pool[n] # Nobody
      <3>1. PICK x \in Sessions : pool[n] = x
        BY <1>0, <2>2
      <3>2. /\ NameOf[x] = n /\ session[x].closing \in {"no", "range", "leave"}
            /\ session[x].cause # "replaced" /\ x \in stopping'
        BY <1>0, <1>1, <3>1 DEF CredentialInv, Linked
      <3> QED
        BY <1>1, <3>2 DEF Ends, Closed
    <2> QED
      BY <2>1, <2>2
  <1>8. PICK rank, last : Came(rank, last) /\ InOrder(rank)
    BY DEF CredentialInv
  <1>9. Came(rank, last)'
    BY <1>0, <1>1, <1>8 DEF Came
  <1>10. InOrder(rank)'
    <2> SUFFICES ASSUME NEW u \in Sessions, Undoubted(NameOf[u])', Entering(u)'
                 PROVE  FALSE
      BY DEF InOrder
    <2>1. PICK t \in Sessions : pool[NameOf[u]] = t /\ Entering(t)
      BY <1>2, <1>3, <1>8 DEF InOrder
    <2>2. NameOf[t] = NameOf[u] /\ t \in stopping'
      BY <1>0, <1>1, <2>1 DEF CredentialInv, Linked
    <2> QED
      BY <1>2, <2>1, <2>2 DEF Undoubted
  <1> QED
    BY <1>1, <1>5, <1>6, <1>7, <1>9, <1>10 DEF CredentialInv

LEMMA StopClosesCredited ==
    ASSUME CredentialInv, RelayTypeOK, NEW s \in Sessions, StopCloses(s)
    PROVE  CredentialInv'
  <1>1. UNCHANGED <<pool, announced, raced>> /\ s \in stopping /\ stopping' = stopping \ {s}
    BY DEF StopCloses, tellVars
  <1>2. CASE ~Closed(s)
    <2>1. session[s].handler # "new"
      BY <1>1 DEF CredentialInv, Linked
    <2>2. Closing(s, "stopped")
      BY <1>2 DEF StopCloses
    <2> QED
      BY <1>1, <1>2, <2>1, <2>2, ClosingCredited
  <1>3. CASE Closed(s)
    <2>1. session' = session
      BY <1>3 DEF StopCloses
    <2>2. \A u \in Sessions : (Entering(u)' <=> Entering(u)) /\ (Closed(u)' <=> Closed(u))
      BY <2>1 DEF Entering, Closed
    <2>3. \A k : Undoubted(k)' => Undoubted(k)
      BY <1>1, <1>3, <2>2 DEF Undoubted
    <2>4. Linked'
      BY <1>1, <2>1 DEF CredentialInv, Linked
    <2>5. ServedOK'
      BY <1>1, <1>3, <2>1, <2>2, <2>3 DEF CredentialInv, ServedOK
    <2>6. LeftOK'
      <3> SUFFICES ASSUME NEW n \in Names, Undoubted(n)', pool[n] = Nobody, announced[n]
                   PROVE  \E x \in Sessions : NameOf[x] = n /\ Ends(x)'
        BY <1>1 DEF LeftOK
      <3>1. PICK x \in Sessions : NameOf[x] = n /\ Ends(x)
        BY <2>3 DEF CredentialInv, LeftOK
      <3> QED
        BY <1>1, <1>3, <2>1, <2>2, <3>1 DEF Ends
    <2>7. PICK rank, last : Came(rank, last) /\ InOrder(rank)
      BY DEF CredentialInv
    <2>8. Came(rank, last)'
      BY <1>1, <2>1, <2>7 DEF Came
    <2>9. InOrder(rank)'
      BY <1>1, <2>1, <2>2, <2>3, <2>7 DEF InOrder
    <2> QED
      BY <1>1, <2>4, <2>5, <2>6, <2>8, <2>9 DEF CredentialInv
  <1> QED
    BY <1>2, <1>3

\* Every step of a connection keeps it.
LEMMA QuietCredited ==
    ASSUME CredentialInv, ServedIsFound, RelayTypeOK, NEW s \in Sessions, Quiet(s)
    PROVE  CredentialInv'
  <1>0. session \in [Sessions -> SessionRec]
    BY SessionTypes
  <1>1. ASSUME NEW q \in Requests, Visit(s, q)
        PROVE  CredentialInv'
    <2>1. \A t \in Sessions : Stays(session[t], session'[t])
      BY <1>0, <1>1 DEF Visit, Stays, SessionRec
    <2> QED
      BY <1>1, <2>1, StaysCredited DEF Visit, tellVars
  <1>2. CASE Replace(s)
    <2>1. session[s].old \in Sessions /\ session[s].handler = "replace"
      BY <1>0, <1>2 DEF Replace, SessionRec
    <2>2. session[session[s].old].handler # "new"
      BY <2>1 DEF CredentialInv, Linked
    <2> QED
      BY <1>2, <2>1, <2>2, ClosingCredited DEF Replace, tellVars
  <1>3. CASE Lose(s)
    BY <1>3, ClosingCredited DEF Lose, tellVars
  <1> QED
    BY <1>1, <1>2, <1>3, EmptyMapCredited, LeaveCredited, DisconnectedCredited,
       ReplacedCredited, ConnectedCredited, StopClosesCredited, RegisterCredited DEF Quiet

LEMMA RelayCredited ==
    ASSUME RelayInv, ServedIsFound, CredentialInv, [RelayNext]_relayVars
    PROVE  CredentialInv'
  <1>0. RelayTypeOK
    BY DEF RelayInv
  <1>1. ASSUME NEW q \in Requests, Busy(q) PROVE CredentialInv'
    <2>1. UNCHANGED <<announced, raced>>
      BY <1>1 DEF Busy, Store, Load, Send, SendFails, WatchEnds, Consume, ContextDone, Find,
                  Read, tellVars
    <2> QED
      BY <1>0, <1>1, <2>1, BusyMoves, StaysCredited
  <1>2. ASSUME NEW s \in Sessions, Fail(s) \/ Deliver(s) \/ Finish(s) PROVE CredentialInv'
    <2>1. session[s].reader = "idle" \/ session[s].held \in Requests
      BY DEF RelayInv, ReaderOK
    <2>2. UNCHANGED <<announced, raced>>
      BY <1>2 DEF Fail, Deliver, Finish, tellVars
    <2> QED
      BY <1>0, <1>2, <2>1, <2>2, ServeMoves, StaysCredited
  <1>3. CASE (\E n \in Names : Apply(n)) \/ UNCHANGED relayVars
    <2>1. UNCHANGED <<pool, stopping, announced, raced, session>>
      BY <1>3 DEF Apply, relayVars, tellVars
    <2> QED
      BY <2>1, StaysCredited DEF Stays
  <1> QED
    BY <1>0, <1>1, <1>2, <1>3, QuietCredited, StopCredited, StepKinds DEF Busy

\* When all is at rest, the manager has a credential exactly for the names that have a
\* connection, but those announced beside an end: for any number of connections and
\* names, and any order in which they come, are replaced, lost and stopped.
THEOREM RelayCredentials == RelaySpec => []CredentialFollowsConnection
  <1>1. ASSUME RelayTypeOK, CredentialInv PROVE CredentialFollowsConnection
    <2> SUFFICES ASSUME NEW n \in Names, n \notin raced, AtRest(n)
                 PROVE  applied[n] <=> pool[n] # Nobody
      BY DEF CredentialFollowsConnection
    <2>0. /\ pool[n] \in Sessions \cup {Nobody} /\ applied[n] = announced[n]
          /\ announced[n] \in BOOLEAN
      BY <1>1, SessionTypes DEF AtRest, CredentialInv
    <2>1. Undoubted(n)
      BY DEF AtRest, Undoubted, Entering
    <2>2. ASSUME pool[n] = Nobody PROVE ~announced[n]
      <3>1. \A x \in Sessions : NameOf[x] = n => ~Ends(x)
        BY DEF AtRest, Ends
      <3> QED
        BY <1>1, <2>1, <2>2, <3>1 DEF CredentialInv, LeftOK
    <2>3. ASSUME pool[n] # Nobody PROVE announced[n]
      <3>1. PICK s \in Sessions : pool[n] = s
        BY <2>0, <2>3
      <3>2. NameOf[s] = n /\ session[s].handler = "run" /\ ~Closed(s) /\ s \notin stopping
        BY <1>1, <3>1 DEF CredentialInv, Linked, AtRest, Closed
      <3> QED
        BY <1>1, <2>1, <3>1, <3>2 DEF CredentialInv, ServedOK
    <2> QED
      BY <2>0, <2>2, <2>3
  <1>2. RelayInv => RelayTypeOK
    BY DEF RelayInv
  <1> QED
    BY <1>1, <1>2, CredentialInvInit, RelayCredited, RelayInvariant, RelayServed, PTL
       DEF RelaySpec
=============================================================================
