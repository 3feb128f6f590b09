--------------------------- MODULE AccountProofs ---------------------------
(***************************************************************************)
(* Accounts at their providers, as they are logged in, called, and kept    *)
(* for a session: for any number of logins and callbacks, of calls,        *)
(* accounts, base URLs and attempts, of sessions and picks, and for any    *)
(* times.                                                                  *)
(***************************************************************************)
EXTENDS LoginSessions, AntigravityCalls, SessionAffinity, FiniteSetTheorems, WellFoundedInduction,
        TLAPS

-----------------------------------------------------------------------------
(* Logins. *)

FlowPcs ==
    {"idle", "evict", "stop", "listen", "enter", "wait", "look", "remove", "exchange",
     "complete", "fail", "clear", "release", "shut", "ended"}
Outcomes == {"none", "refused", "canceled", "failed", "saved"}

FlowRec ==
    [pc : FlowPcs, webui : BOOLEAN, prev : Logins \cup {Nobody}, deadline : Nat,
     got : Contents \cup {"none", "void"}, outcome : Outcomes]

SessionRec == [status : {"none", "pending", "error"}, until : Nat]

LoginTypeOK ==
    /\ session \in [Logins -> SessionRec] /\ flow \in [Logins -> FlowRec]
    /\ port \in Logins \cup {Nobody} /\ forwarder \in Logins \cup {Nobody}
    /\ file \in [Logins -> Contents \cup {"none", "void"}]
    /\ minute \in Nat /\ ranOut \subseteq Logins

\* A login that has not looked for a forwarder holds none; one that has, or was
\* evicted, is past the table.
TableOK ==
    \A l \in Logins :
       /\ In(l, {"idle", "evict"}) => flow[l].prev = Nobody
       /\ In(l, {"idle"}) => ~flow[l].webui
       /\ In(l, {"enter"}) => port = l
       /\ forwarder = l => ~In(l, {"idle"} \cup Starting)
       /\ \A k \in Logins : flow[k].prev = l => ~In(l, {"idle"} \cup Starting)

\* A session lasts longer than its login waits, and a token that was saved ends it.
SessionOK ==
    \A l \in Logins :
       /\ In(l, Starting) /\ session[l] # NoSession => session[l].until >= minute + SessionTTL
       /\ In(l, Waiting) /\ session[l] # NoSession => session[l].until > flow[l].deadline
       /\ In(l, {"complete", "clear"}) => Saved(l)
       /\ Saved(l) => In(l, {"complete", "clear", "release", "shut", "ended"})

\* What a callback will write.
CallbacksOK ==
    /\ callback \in [Callbacks -> [pc : {"due", "open", "write", "done"},
                                   login : Logins \cup {Nobody}, content : Contents \cup {"none"}]]
    /\ \A w \in Callbacks : callback[w].pc \in {"open", "write"} => callback[w].content \in Contents

LoginInv == LoginTypeOK /\ TableOK /\ SessionOK /\ ForwarderOwnsPort /\ OkIsExplained

\* Wherever a login goes, its record keeps its form.
LEMMA FlowMoves ==
    ASSUME NEW f \in FlowRec, NEW pc \in FlowPcs
    PROVE  /\ [f EXCEPT !.pc = pc] \in FlowRec
           /\ \A o \in Outcomes : [f EXCEPT !.pc = pc, !.outcome = o] \in FlowRec
           /\ \A p \in Logins \cup {Nobody} : [f EXCEPT !.prev = p, !.pc = pc] \in FlowRec
           /\ \A d \in Nat : [f EXCEPT !.pc = pc, !.deadline = d] \in FlowRec
           /\ \A g \in Contents \cup {"none", "void"} : [f EXCEPT !.pc = pc, !.got = g] \in FlowRec
  BY DEF FlowRec

LEMMA FlowTyped ==
    ASSUME LoginTypeOK,
           NEW l \in Logins, NEW b \in BOOLEAN, LoginStep(l) \/ BeginLogin(l, b) \/ Exchange(l, b)
    PROVE  flow' \in [Logins -> FlowRec]
  <1>0. /\ flow \in [Logins -> FlowRec] /\ flow[l] \in FlowRec
        /\ \A f \in FlowRec : [flow EXCEPT ![l] = f] \in [Logins -> FlowRec]
    BY DEF LoginTypeOK
  <1>a. minute \in Nat /\ minute + Patience \in Nat
    BY LoginAssumption DEF LoginTypeOK
  <1>b. \A pc \in FlowPcs : [flow[l] EXCEPT !.pc = pc] \in FlowRec
    BY <1>0, FlowMoves
  <1>c. \A o \in Outcomes : Ending(flow[l], o) \in FlowRec
    BY <1>0, FlowMoves DEF Ending, FlowPcs
  <1>d. Waits(flow[l]) \in FlowRec
    BY <1>0, <1>a, FlowMoves DEF Waits, FlowPcs
  <1>1. CASE Evict(l)
    <2>1. \A pc \in FlowPcs : [flow[l] EXCEPT !.prev = forwarder, !.pc = pc] \in FlowRec
      BY <1>0, FlowMoves DEF LoginTypeOK
    <2> QED
      BY <1>0, <1>1, <2>1 DEF Evict, FlowPcs
  <1>2. CASE ListenFails(l)
    <2>1. [flow[l] EXCEPT !.pc = "ended", !.outcome = "refused"] \in FlowRec
      BY <1>0, FlowMoves DEF FlowPcs, Outcomes
    <2> QED
      BY <1>0, <1>2, <2>1 DEF ListenFails
  <1>3. CASE Look(l)
    <2>1. [flow[l] EXCEPT !.pc = "remove", !.got = file[l]] \in FlowRec
      BY <1>0, FlowMoves DEF LoginTypeOK, FlowPcs
    <2> QED
      BY <1>0, <1>b, <1>3, <2>1 DEF Look, FlowPcs
  <1>4. CASE Enter(l)
    BY <1>0, <1>d, <1>4 DEF Enter
  <1>5. CASE CheckPending(l) \/ Fail(l) \/ CompleteProvider(l)
    BY <1>0, <1>b, <1>c, <1>5 DEF CheckPending, Fail, CompleteProvider, FlowPcs, Outcomes
  <1>6. CASE \/ StopPrevious(l) \/ Listen(l) \/ RemoveFile(l)
             \/ Complete(l) \/ LeaveTable(l) \/ Shut(l)
    BY <1>0, <1>b, <1>6
       DEF StopPrevious, Listen, RemoveFile, Complete, LeaveTable, Shut, FlowPcs
  <1>7. CASE BeginLogin(l, b)
    <2>1. [flow[l] EXCEPT !.pc = "evict", !.webui = TRUE] \in FlowRec
      BY <1>0 DEF FlowRec, FlowPcs
    <2> QED
      BY <1>0, <1>b, <1>d, <1>7, <2>1 DEF BeginLogin, FlowPcs
  <1>8. CASE Exchange(l, b)
    <2>1. [flow[l] EXCEPT !.pc = "complete", !.outcome = "saved"] \in FlowRec
      BY <1>0, FlowMoves DEF FlowPcs, Outcomes
    <2> QED
      BY <1>0, <1>b, <1>8, <2>1 DEF Exchange, FlowPcs
  <1> QED
    BY <1>1, <1>2, <1>3, <1>4, <1>5, <1>6, <1>7, <1>8 DEF LoginStep

LEMMA LoginTyped ==
    ASSUME LoginTypeOK,
           NEW l \in Logins, NEW b \in BOOLEAN, LoginStep(l) \/ BeginLogin(l, b) \/ Exchange(l, b)
    PROVE  LoginTypeOK'
  <1>0. /\ flow' \in [Logins -> FlowRec] /\ session \in [Logins -> SessionRec]
        /\ minute \in Nat /\ minute + SessionTTL \in Nat
    BY FlowTyped, LoginAssumption DEF LoginTypeOK
  <1>1. CASE \/ Evict(l) \/ StopPrevious(l) \/ Listen(l) \/ ListenFails(l) \/ Enter(l)
             \/ CheckPending(l) \/ Look(l) \/ RemoveFile(l) \/ Exchange(l, b)
             \/ LeaveTable(l) \/ Shut(l)
    BY <1>0, <1>1
       DEF LoginTypeOK, Evict, StopPrevious, Listen, ListenFails, Enter, CheckPending, Look,
           RemoveFile, Exchange, LeaveTable, Shut, portVars, fileVars
  <1>2. CASE Fail(l) \/ Complete(l) \/ CompleteProvider(l) \/ BeginLogin(l, b)
    <2>1. session' \in [Logins -> SessionRec]
      BY <1>0, <1>2
         DEF Fail, Complete, CompleteProvider, BeginLogin, Registered, SessionRec, NoSession
    <2> QED
      BY <1>0, <1>2, <2>1
         DEF LoginTypeOK, Fail, Complete, CompleteProvider, BeginLogin, portVars, fileVars
  <1> QED
    BY <1>1, <1>2 DEF LoginStep

\* Who leaves the table or the port, and who enters them.
LEMMA LoginTable ==
    ASSUME LoginTypeOK, LoginTypeOK', TableOK,
           NEW l \in Logins, NEW b \in BOOLEAN, LoginStep(l) \/ BeginLogin(l, b) \/ Exchange(l, b)
    PROVE  TableOK'
  <1> USE DEF LoginTypeOK, FlowRec, TableOK, In, Starting, portVars
  <1>1. CASE Evict(l)
    BY <1>1 DEF Evict
  <1>2. CASE StopPrevious(l)
    BY <1>2 DEF StopPrevious
  <1>3. CASE Listen(l)
    BY <1>3, LoginAssumption DEF Listen
  <1>4. CASE ListenFails(l)
    BY <1>4 DEF ListenFails
  <1>5. CASE Enter(l)
    BY <1>5 DEF Enter, Waits
  <1>6. CASE CheckPending(l)
    BY <1>6 DEF CheckPending, Ending
  <1>7. CASE Look(l)
    BY <1>7 DEF Look
  <1>8. CASE RemoveFile(l)
    BY <1>8 DEF RemoveFile
  <1>9. CASE Fail(l)
    BY <1>9 DEF Fail, Ending
  <1>10. CASE Complete(l)
    BY <1>10 DEF Complete
  <1>11. CASE CompleteProvider(l)
    BY <1>11 DEF CompleteProvider, Ending
  <1>12. CASE LeaveTable(l)
    BY <1>12, LoginAssumption DEF LeaveTable
  <1>13. CASE Shut(l)
    BY <1>13 DEF Shut
  <1>14. CASE BeginLogin(l, b)
    BY <1>14 DEF BeginLogin, Registered, Waits
  <1>15. CASE Exchange(l, b)
    BY <1>15 DEF Exchange
  <1> QED
    BY <1>1, <1>2, <1>3, <1>4, <1>5, <1>6, <1>7, <1>8, <1>9, <1>10, <1>11, <1>12, <1>13,
       <1>14, <1>15
       DEF LoginStep

\* A forwarder comes to the port before the table, and goes from the table before the port.
LEMMA LoginOwns ==
    ASSUME LoginTypeOK, LoginTypeOK', TableOK, ForwarderOwnsPort,
           NEW l \in Logins, NEW b \in BOOLEAN, LoginStep(l) \/ BeginLogin(l, b) \/ Exchange(l, b)
    PROVE  ForwarderOwnsPort'
  <1> USE DEF LoginTypeOK, FlowRec, TableOK, ForwarderOwnsPort, In, Starting, Waiting, portVars
  <1>1. CASE Evict(l)
    BY <1>1, LoginAssumption DEF Evict
  <1>2. CASE StopPrevious(l)
    BY <1>2 DEF StopPrevious
  <1>3. CASE Listen(l)
    BY <1>3, LoginAssumption DEF Listen
  <1>4. CASE ListenFails(l)
    BY <1>4 DEF ListenFails
  <1>5. CASE Enter(l)
    BY <1>5 DEF Enter, Waits
  <1>6. CASE CheckPending(l)
    BY <1>6 DEF CheckPending, Ending
  <1>7. CASE Look(l)
    BY <1>7 DEF Look
  <1>8. CASE RemoveFile(l)
    BY <1>8 DEF RemoveFile
  <1>9. CASE Fail(l)
    BY <1>9 DEF Fail, Ending
  <1>10. CASE Complete(l)
    BY <1>10 DEF Complete
  <1>11. CASE CompleteProvider(l)
    BY <1>11 DEF CompleteProvider, Ending
  <1>12. CASE LeaveTable(l)
    BY <1>12 DEF LeaveTable
  <1>13. CASE Shut(l)
    BY <1>13 DEF Shut
  <1>14. CASE BeginLogin(l, b)
    BY <1>14 DEF BeginLogin, Registered, Waits
  <1>15. CASE Exchange(l, b)
    BY <1>15 DEF Exchange
  <1> QED
    BY <1>1, <1>2, <1>3, <1>4, <1>5, <1>6, <1>7, <1>8, <1>9, <1>10, <1>11, <1>12, <1>13,
       <1>14, <1>15
       DEF LoginStep

\* A login waits for less time than its session lasts.
LEMMA LoginLasts ==
    ASSUME LoginTypeOK, LoginTypeOK', SessionOK,
           NEW l \in Logins, NEW b \in BOOLEAN, LoginStep(l) \/ BeginLogin(l, b) \/ Exchange(l, b)
    PROVE  SessionOK'
  <1> USE DEF LoginTypeOK, FlowRec, SessionRec, NoSession, SessionOK, Saved, In, Starting, Waiting
  <1>1. CASE Evict(l)
    BY <1>1 DEF Evict
  <1>2. CASE StopPrevious(l)
    BY <1>2 DEF StopPrevious
  <1>3. CASE Listen(l)
    BY <1>3 DEF Listen
  <1>4. CASE ListenFails(l)
    BY <1>4 DEF ListenFails
  <1>5. CASE Enter(l)
    BY <1>5, LoginAssumption DEF Enter, Waits
  <1>6. CASE CheckPending(l)
    BY <1>6 DEF CheckPending, Ending
  <1>7. CASE Look(l)
    BY <1>7 DEF Look
  <1>8. CASE RemoveFile(l)
    BY <1>8 DEF RemoveFile
  <1>9. CASE Fail(l)
    BY <1>9 DEF Fail, Ending
  <1>10. CASE Complete(l)
    BY <1>10 DEF Complete
  <1>11. CASE CompleteProvider(l)
    BY <1>11 DEF CompleteProvider, Ending
  <1>12. CASE LeaveTable(l)
    BY <1>12 DEF LeaveTable
  <1>13. CASE Shut(l)
    BY <1>13 DEF Shut
  <1>14. CASE BeginLogin(l, b)
    BY <1>14, LoginAssumption DEF BeginLogin, Registered, Waits
  <1>15. CASE Exchange(l, b)
    BY <1>15 DEF Exchange
  <1> QED
    BY <1>1, <1>2, <1>3, <1>4, <1>5, <1>6, <1>7, <1>8, <1>9, <1>10, <1>11, <1>12, <1>13,
       <1>14, <1>15
       DEF LoginStep

\* Sessions are ended by a token that was saved.
LEMMA LoginExplained ==
    ASSUME LoginTypeOK, LoginTypeOK', SessionOK, OkIsExplained,
           NEW l \in Logins, NEW b \in BOOLEAN, LoginStep(l) \/ BeginLogin(l, b) \/ Exchange(l, b)
    PROVE  OkIsExplained'
  <1> USE DEF LoginTypeOK, FlowRec, SessionRec, NoSession, SessionOK, OkIsExplained, Begun, Saved,
              Rivals, In, Starting, Waiting
  <1>1. CASE Evict(l)
    BY <1>1 DEF Evict
  <1>2. CASE StopPrevious(l)
    BY <1>2 DEF StopPrevious
  <1>3. CASE Listen(l)
    BY <1>3 DEF Listen
  <1>4. CASE ListenFails(l)
    BY <1>4 DEF ListenFails
  <1>5. CASE Enter(l)
    BY <1>5 DEF Enter, Waits
  <1>6. CASE CheckPending(l)
    BY <1>6 DEF CheckPending, Ending
  <1>7. CASE Look(l)
    BY <1>7 DEF Look
  <1>8. CASE RemoveFile(l)
    BY <1>8 DEF RemoveFile
  <1>9. CASE Fail(l)
    BY <1>9 DEF Fail, Ending
  <1>10. CASE Complete(l)
    BY <1>10 DEF Complete
  <1>11. CASE CompleteProvider(l)
    BY <1>11 DEF CompleteProvider, Ending
  <1>12. CASE LeaveTable(l)
    BY <1>12 DEF LeaveTable
  <1>13. CASE Shut(l)
    BY <1>13 DEF Shut
  <1>14. CASE BeginLogin(l, b)
    BY <1>14 DEF BeginLogin, Registered, Waits
  <1>15. CASE Exchange(l, b)
    BY <1>15 DEF Exchange
  <1> QED
    BY <1>1, <1>2, <1>3, <1>4, <1>5, <1>6, <1>7, <1>8, <1>9, <1>10, <1>11, <1>12, <1>13,
       <1>14, <1>15
       DEF LoginStep

\* Callbacks touch nothing but files; files hold nothing but what callbacks carry.
LEMMA CallbackKeeps ==
    ASSUME LoginInv, CallbacksOK, NEW w \in Callbacks,
           \/ \E l \in Logins, c \in Contents : Accept(w, l, c)
           \/ OpenFile(w) \/ WriteFile(w)
    PROVE  LoginInv' /\ CallbacksOK'
  <1>1. CallbacksOK'
    <2>1. CASE \E l \in Logins, c \in Contents : Accept(w, l, c)
      BY <2>1 DEF Accept, CallbacksOK
    <2>2. CASE OpenFile(w)
      BY <2>2 DEF OpenFile, CallbacksOK
    <2>3. CASE WriteFile(w)
      BY <2>3 DEF WriteFile, CallbacksOK, NotCome
    <2> QED
      BY <2>1, <2>2, <2>3
  <1>2. file' \in [Logins -> Contents \cup {"none", "void"}]
    <2>1. CASE \E l \in Logins, c \in Contents : Accept(w, l, c)
      BY <2>1 DEF Accept, LoginInv, LoginTypeOK
    <2>2. CASE OpenFile(w)
      BY <2>2 DEF OpenFile, LoginInv, LoginTypeOK
    <2>3. CASE WriteFile(w)
      <3>1. callback[w].content \in Contents
        BY <2>3 DEF WriteFile, CallbacksOK
      <3> QED
        BY <2>3, <3>1 DEF WriteFile, LoginInv, LoginTypeOK
    <2> QED
      BY <2>1, <2>2, <2>3
  <1>3. UNCHANGED <<session, flow, port, forwarder, minute, ranOut>>
    BY DEF Accept, OpenFile, WriteFile, portVars
  <1> QED
    BY <1>1, <1>2, <1>3
       DEF LoginInv, LoginTypeOK, TableOK, SessionOK, ForwarderOwnsPort, OkIsExplained,
           In, Saved, Begun

\* No session runs out while its login starts or waits.
LEMMA MinuteKeeps ==
    ASSUME LoginInv, CallbacksOK, MinutePasses
    PROVE  LoginInv' /\ CallbacksOK'
  <1>1. /\ UNCHANGED <<flow, port, forwarder, file, callback>>
        /\ minute \in Nat /\ minute' = minute + 1
    BY DEF MinutePasses, portVars, fileVars, LoginInv, LoginTypeOK
  <1>2. /\ session' = [l \in Logins |-> IF session[l].until < minute' THEN NoSession ELSE session[l]]
        /\ ranOut' = ranOut \cup {l \in Logins : session[l] # session'[l]}
    BY DEF MinutePasses
  <1>3. LoginTypeOK'
    BY <1>1, <1>2 DEF LoginInv, LoginTypeOK, SessionRec, NoSession
  <1>4. ASSUME NEW l \in Logins
        PROVE  /\ ~In(l, Starting)
               /\ In(l, Waiting) => session'[l] = session[l] \/ session[l] = NoSession
    <2>1. flow[l].deadline \in Nat /\ session[l].until \in Nat
      BY DEF LoginInv, LoginTypeOK, FlowRec, SessionRec
    <2>2. ~In(l, Starting) /\ (In(l, Waiting) => minute <= flow[l].deadline)
      BY DEF MinutePasses
    <2>3. In(l, Waiting) /\ session[l] # NoSession => session[l].until > flow[l].deadline
      BY DEF LoginInv, SessionOK
    <2> QED
      BY <1>1, <1>2, <2>1, <2>2, <2>3
  <1>5. \A l \in Logins : session'[l] = session[l] \/ (session'[l] = NoSession /\ l \in ranOut')
    BY <1>2
  <1>6. SessionOK'
    BY <1>1, <1>2, <1>4, <1>5 DEF LoginInv, SessionOK, In, Saved
  <1>7. OkIsExplained'
    BY <1>1, <1>2, <1>4, <1>5 DEF LoginInv, OkIsExplained, In, Saved, Begun
  <1> QED
    BY <1>1, <1>3, <1>6, <1>7
       DEF LoginInv, TableOK, ForwarderOwnsPort, CallbacksOK, In

LEMMA LoginInvInit == LoginInit => LoginInv /\ CallbacksOK
  <1> SUFFICES ASSUME LoginInit PROVE LoginInv /\ CallbacksOK
    OBVIOUS
  <1> USE LoginAssumption DEF LoginInit, Idle, NoSession
  <1>1. LoginTypeOK
    BY DEF LoginTypeOK, FlowRec, FlowPcs, Outcomes, SessionRec
  <1>2. TableOK /\ SessionOK
    BY DEF TableOK, SessionOK, In, Saved, Starting, Waiting
  <1>3. ForwarderOwnsPort /\ OkIsExplained
    BY DEF ForwarderOwnsPort, OkIsExplained, In, Begun
  <1> QED
    BY <1>1, <1>2, <1>3 DEF LoginInv, CallbacksOK, NotCome

LEMMA LoginInvStep == LoginInv /\ CallbacksOK /\ [LoginNext]_loginVars => LoginInv' /\ CallbacksOK'
  <1> SUFFICES ASSUME LoginInv, CallbacksOK, [LoginNext]_loginVars PROVE LoginInv' /\ CallbacksOK'
    OBVIOUS
  <1>1. ASSUME NEW l \in Logins, NEW b \in BOOLEAN,
               LoginStep(l) \/ BeginLogin(l, b) \/ Exchange(l, b)
        PROVE  LoginInv' /\ CallbacksOK'
    <2>1. LoginTypeOK'
      BY <1>1, LoginTyped DEF LoginInv
    <2>2. TableOK' /\ ForwarderOwnsPort' /\ SessionOK' /\ OkIsExplained'
      BY <1>1, <2>1, LoginTable, LoginOwns, LoginLasts, LoginExplained DEF LoginInv
    <2>3. UNCHANGED callback
      BY <1>1
         DEF LoginStep, BeginLogin, Exchange, Evict, StopPrevious, Listen, ListenFails, Enter,
             CheckPending, Look, RemoveFile, Fail, Complete, CompleteProvider, LeaveTable, Shut,
             fileVars
    <2> QED
      BY <2>1, <2>2, <2>3 DEF LoginInv, CallbacksOK
  <1>2. CASE \E w \in Callbacks : \/ \E l \in Logins, c \in Contents : Accept(w, l, c)
                                  \/ OpenFile(w) \/ WriteFile(w)
    BY <1>2, CallbackKeeps
  <1>3. CASE MinutePasses
    BY <1>3, MinuteKeeps
  <1>4. CASE UNCHANGED loginVars
    BY <1>4
       DEF loginVars, portVars, fileVars, LoginInv, LoginTypeOK, TableOK, SessionOK,
           ForwarderOwnsPort, OkIsExplained, CallbacksOK, In, Saved, Begun
  <1> QED
    BY <1>1, <1>2, <1>3, <1>4 DEF LoginNext

\* Whoever polls is told "ok" for a reason: a token was saved for it or for another
\* login of the provider, or its session ran out, and not while it was needed.
THEOREM LoginsExplained == LoginSpec => []OkIsExplained
  <1>1. LoginInit => LoginInv /\ CallbacksOK
    BY LoginInvInit
  <1>2. LoginInv /\ CallbacksOK /\ [LoginNext]_loginVars => LoginInv' /\ CallbacksOK'
    BY LoginInvStep
  <1>3. LoginInv => OkIsExplained
    BY DEF LoginInv
  <1> QED
    BY <1>1, <1>2, <1>3, PTL DEF LoginSpec

\* A forwarder that listens can be told to stop, and a login keeps its own until a
\* later one takes its place.
THEOREM ForwarderOwned == LoginSpec => []ForwarderOwnsPort
  <1>1. LoginInit => LoginInv /\ CallbacksOK
    BY LoginInvInit
  <1>2. LoginInv /\ CallbacksOK /\ [LoginNext]_loginVars => LoginInv' /\ CallbacksOK'
    BY LoginInvStep
  <1>3. LoginInv => ForwarderOwnsPort
    BY DEF LoginInv
  <1> QED
    BY <1>1, <1>2, <1>3, PTL DEF LoginSpec

-----------------------------------------------------------------------------
(* Calls on Antigravity accounts. *)

CallPcs ==
    {"idle", "check", "drop", "token", "refresh", "balance", "store", "send", "wait", "read",
     "ended"}
Readings == {"unknown", "yes", "no"}

CallRec ==
    [pc : CallPcs, account : Accounts \cup {NoCall.account}, kind : Kinds, credits : BOOLEAN,
     gone : BOOLEAN, checks : 0..2, seen : Nat, attempt : Nat, url : Nat, heard : Readings,
     metered : BOOLEAN, told : {<<>>, <<"ok">>, <<"failed">>},
     outcome : {"none", "held", "done", "error", "cut"}]

\* A call publishes as it ends, unless its stream told the usage before.
PublishesOnce(r) ==
    /\ r.pc # "ended" => r.told = IF r.metered THEN <<"ok">> ELSE <<>>
    /\ r.metered => r.pc \in {"read", "ended"}
    /\ r.pc = "read" => r.kind # "count"
    /\ r.pc = "ended" =>
          r.told = IF r.kind = "count" \/ r.outcome = "held" THEN <<>>
                   ELSE IF r.outcome = "done" \/ r.metered THEN <<"ok">> ELSE <<"failed">>

CallOK(r) ==
    /\ r \in CallRec /\ PublishesOnce(r)
    /\ r.pc # "idle" => r.account \in Accounts
    /\ r.pc \in {"check", "drop"} => r.checks # 0
    /\ r.pc = "drop" => r.seen <= instant

CallsInv ==
    /\ instant \in Nat \ {0} /\ cooldown \in [Accounts -> Nat]
    /\ call \in [Calls -> CallRec]
    /\ \A c \in Calls : CallOK(call[c])

CreditsInv ==
    /\ hint \in [Accounts -> Readings] /\ funds \in [Accounts -> Readings]
    /\ balance \in [Sources -> [Accounts -> Readings \cup {"off", "asked"}]]
    /\ spent \subseteq Accounts /\ outdated \subseteq Accounts
    /\ SpentIsKnown

LEMMA NoCallTyped ==
    /\ NoCall \in CallRec /\ NoCall.pc = "idle"
    /\ NoCall.told = <<>> /\ NoCall.metered = FALSE
  <1> DEFINE a == CHOOSE a \in Accounts : TRUE
  <1>1. NoCall.account = a
    BY DEF NoCall
  <1> HIDE DEF a
  <1> QED
    BY <1>1 DEF NoCall, CallRec, CallPcs, Kinds, Readings, a

\* Wherever a call goes, its record keeps its form.
LEMMA CallTyped ==
    ASSUME NEW r \in CallRec, NEW pc \in CallPcs
    PROVE  /\ [r EXCEPT !.pc = pc] \in CallRec
           /\ \A n \in Nat : [r EXCEPT !.pc = pc, !.seen = n] \in CallRec
           /\ \A n \in Nat, k \in 0..2 : [r EXCEPT !.pc = pc, !.seen = n, !.checks = k] \in CallRec
           /\ \A h \in Readings : [r EXCEPT !.pc = pc, !.heard = h] \in CallRec
           /\ \A n \in Nat : [r EXCEPT !.pc = pc, !.attempt = n, !.url = 1] \in CallRec
           /\ \A n \in Nat : [r EXCEPT !.url = n] \in CallRec
  BY DEF CallRec

\* A call that ends publishes what it came to.
LEMMA EndsPublished ==
    ASSUME NEW r \in CallRec, PublishesOnce(r), r.pc # "ended",
           NEW record \in {"ok", "failed"}, NEW outcome \in {"done", "error", "cut"},
           record = "ok" <=> outcome = "done"
    PROVE  LET q == Finished(Published(r, record), outcome) IN
           q \in CallRec /\ PublishesOnce(q) /\ q.account = r.account /\ q.pc = "ended"
  <1> DEFINE p == Published(r, record)
             q == Finished(p, outcome)
  <1>1. /\ p \in CallRec /\ p.kind = r.kind /\ p.metered = r.metered /\ p.account = r.account
        /\ p.told = IF r.kind = "count" \/ r.told # <<>> THEN r.told ELSE <<record>>
    BY DEF Published, CallRec
  <1>2. /\ q \in CallRec /\ q.kind = p.kind /\ q.metered = p.metered /\ q.account = p.account
        /\ q.told = p.told /\ q.pc = "ended" /\ q.outcome = outcome
    <2> HIDE DEF p
    <2> QED
      BY <1>1 DEF Finished, CallRec, CallPcs
  <1>3. r.told = (IF r.metered THEN <<"ok">> ELSE <<>>) /\ (r.metered => r.kind # "count")
    BY DEF PublishesOnce
  <1>4. <<"ok">> # <<>> /\ r.metered \in BOOLEAN
    BY DEF CallRec
  <1>5. q.told = IF q.kind = "count" THEN <<>>
                 ELSE IF q.outcome = "done" \/ q.metered THEN <<"ok">> ELSE <<"failed">>
    <2> HIDE DEF p, q
    <2>1. CASE r.metered
      BY <2>1, <1>1, <1>2, <1>3, <1>4
    <2>2. CASE ~r.metered
      BY <2>2, <1>1, <1>2, <1>3, <1>4
    <2> QED
      BY <2>1, <2>2
  <1>6. PublishesOnce(q)
    <2> HIDE DEF p, q
    <2> QED
      BY <1>2, <1>5 DEF PublishesOnce
  <1> QED
    BY <1>1, <1>2, <1>6

\* A call that is held back has published nothing.
LEMMA HeldPublished ==
    ASSUME NEW r \in CallRec, PublishesOnce(r), r.pc = "check"
    PROVE  Finished(r, "held") \in CallRec /\ PublishesOnce(Finished(r, "held"))
  <1>1. /\ Finished(r, "held") \in CallRec /\ Finished(r, "held").told = r.told
        /\ Finished(r, "held").pc = "ended" /\ Finished(r, "held").outcome = "held"
        /\ Finished(r, "held").metered = r.metered
    BY DEF Finished, CallRec, CallPcs
  <1>2. r.told = <<>> /\ ~r.metered
    BY DEF PublishesOnce
  <1> QED
    BY <1>1, <1>2 DEF PublishesOnce

\* Until then it has published nothing, wherever it goes.
LEMMA MovesUnpublished ==
    ASSUME NEW r \in CallRec, PublishesOnce(r), r.pc \notin {"read", "ended"},
           NEW q \in CallRec, q.pc # "ended", q.pc = "read" => q.kind # "count",
           q.told = r.told, q.metered = r.metered
    PROVE  PublishesOnce(q)
  BY DEF PublishesOnce

\* One call at a time.
LEMMA CallChanges ==
    ASSUME CallsInv, NEW c \in Calls, NEW r, CallOK(r), call' = [call EXCEPT ![c] = r],
           instant' = instant, cooldown' \in [Accounts -> Nat]
    PROVE  CallsInv'
  <1>1. call' \in [Calls -> CallRec]
    BY DEF CallsInv, CallOK
  <1>2. \A d \in Calls : call'[d] = IF d = c THEN r ELSE call[d]
    BY DEF CallsInv
  <1>3. \A d \in Calls : CallOK(call[d])'
    BY <1>2 DEF CallsInv, CallOK
  <1> QED
    BY <1>1, <1>3 DEF CallsInv

\* Its short cooldown.
LEMMA CallChecked ==
    ASSUME CallsInv, NEW c \in Calls, Begin(c) \/ LookUp(c) \/ DropEntry(c)
    PROVE  CallsInv'
  <1> DEFINE r == call[c]
  <1>0. /\ r \in CallRec /\ CallOK(r) /\ PublishesOnce(r)
        /\ instant \in Nat /\ cooldown \in [Accounts -> Nat] /\ call \in [Calls -> CallRec]
    BY DEF CallsInv, CallOK
  <1>1. ASSUME r.pc \in {"check", "drop"}
        PROVE  /\ CallOK(Cleared(r)) /\ r.account \in Accounts
    <2>1. r.checks \in {1, 2} /\ r.account \in Accounts
      BY <1>0, <1>1 DEF CallOK, CallRec
    <2>2. Cleared(r) \in CallRec
      <3>1. /\ [r EXCEPT !.pc = "token", !.seen = 0] \in CallRec
            /\ \A k \in 0..2 : [r EXCEPT !.pc = "check", !.seen = 0, !.checks = k] \in CallRec
        BY <1>0, CallTyped DEF CallPcs
      <3>2. r.checks # 1 => r.checks - 1 \in 0..2
        BY <2>1
      <3> QED
        BY <3>1, <3>2 DEF Cleared
    <2>3. /\ Cleared(r).pc \in {"token", "check"} /\ Cleared(r).account = r.account
          /\ Cleared(r).told = r.told /\ Cleared(r).metered = r.metered
          /\ Cleared(r).pc = "check" => Cleared(r).checks = 1
      BY <1>0, <2>1 DEF Cleared, CallRec
    <2>4. PublishesOnce(Cleared(r))
      BY <1>0, <1>1, <2>2, <2>3, MovesUnpublished
    <2> QED
      BY <2>1, <2>2, <2>3, <2>4 DEF CallOK
  <1>2. CASE Begin(c)
    <2>1. PICK a \in Accounts, k \in Kinds, w \in BOOLEAN :
             call' = [call EXCEPT ![c] = [NoCall EXCEPT
                        !.pc = IF k = "count" THEN "token" ELSE "check", !.account = a,
                        !.kind = k, !.credits = w, !.checks = IF k = "gathered" THEN 2 ELSE 1]]
      BY <1>2 DEF Begin
    <2> DEFINE q == [NoCall EXCEPT
                       !.pc = IF k = "count" THEN "token" ELSE "check", !.account = a,
                       !.kind = k, !.credits = w, !.checks = IF k = "gathered" THEN 2 ELSE 1]
    <2>2. q \in CallRec
      <3>1. ASSUME NEW x \in {"token", "check"}, NEW n \in {1, 2}, NEW z \in CallRec
            PROVE  [z EXCEPT !.pc = x, !.account = a, !.kind = k, !.credits = w, !.checks = n]
                      \in CallRec
        <4>1. [z EXCEPT !.pc = x, !.account = a] \in CallRec
          BY DEF CallRec, CallPcs
        <4>2. ASSUME NEW y \in CallRec
              PROVE  [y EXCEPT !.kind = k, !.credits = w, !.checks = n] \in CallRec
          <5>1. n \in 0..2
            OBVIOUS
          <5> QED
            BY <5>1 DEF CallRec
        <4> QED
          BY <4>1, <4>2
      <3> QED
        BY <3>1, NoCallTyped
    <2>3. /\ q.pc \in {"token", "check"} /\ q.account = a /\ q.checks # 0
          /\ q.told = <<>> /\ q.metered = FALSE
      BY DEF NoCall
    <2>4. CallOK(q)
      <3> HIDE DEF q
      <3> QED
        BY <2>2, <2>3 DEF CallOK, PublishesOnce
    <2> HIDE DEF q
    <2> QED
      BY <1>0, <1>2, <2>1, <2>4, CallChanges DEF Begin, q
  <1>3. CASE LookUp(c)
    <2>1. r.pc = "check" /\ CallOK(Cleared(r)) /\ r.account \in Accounts
      BY <1>1, <1>3 DEF LookUp, Of
    <2>2. CallOK(Finished(r, "held"))
      <3>1. Finished(r, "held").account = r.account /\ Finished(r, "held").pc = "ended"
        BY <1>0 DEF Finished, CallRec
      <3> QED
        BY <1>0, <2>1, <3>1, HeldPublished DEF CallOK
    <2>3. \A n \in Nat : n <= instant => CallOK([r EXCEPT !.pc = "drop", !.seen = n])
      <3> SUFFICES ASSUME NEW n \in Nat, n <= instant
                   PROVE  CallOK([r EXCEPT !.pc = "drop", !.seen = n])
        OBVIOUS
      <3> DEFINE q == [r EXCEPT !.pc = "drop", !.seen = n]
      <3>1. q \in CallRec
        BY <1>0, CallTyped DEF CallPcs
      <3>2. /\ q.pc = "drop" /\ q.seen = n /\ q.account = r.account /\ q.checks = r.checks
            /\ q.told = r.told /\ q.metered = r.metered
        BY <1>0 DEF CallRec
      <3>3. r.checks # 0
        BY <1>0, <2>1 DEF CallOK
      <3> HIDE DEF q
      <3>4. PublishesOnce(q)
        BY <1>0, <2>1, <3>1, <3>2, MovesUnpublished
      <3>5. CallOK(q)
        BY <2>1, <3>1, <3>2, <3>3, <3>4 DEF CallOK
      <3> QED
        BY <3>5 DEF q
    <2>4. PICK q : CallOK(q) /\ call' = [call EXCEPT ![c] = q]
      <3> DEFINE until == cooldown[Account(c)]
      <3>1. until \in Nat
        BY <1>0, <2>1 DEF Account
      <3>2. call' = [call EXCEPT ![c] =
                      IF until = 0 \/ (until > instant /\ UsesCredits(c)) THEN Cleared(r)
                      ELSE IF until > instant THEN Finished(r, "held")
                      ELSE [r EXCEPT !.pc = "drop", !.seen = until]]
        BY <1>0, <1>3 DEF LookUp
      <3> HIDE DEF until
      <3>3. ~(until > instant) => CallOK([r EXCEPT !.pc = "drop", !.seen = until])
        <4>1. ~(until > instant) => until <= instant
          BY <1>0, <3>1
        <4> HIDE DEF r
        <4> QED
          BY <2>3, <3>1, <4>1, Zenon
      <3> HIDE DEF r
      <3> QED
        BY <2>1, <2>2, <3>2, <3>3
    <2> QED
      BY <1>0, <1>3, <2>4, CallChanges DEF LookUp
  <1>4. CASE DropEntry(c)
    <2>1. cooldown' \in [Accounts -> Nat]
      BY <1>0, <1>4 DEF DropEntry
    <2> QED
      BY <1>1, <1>4, <2>1, CallChanges DEF DropEntry, Of
  <1> QED
    BY <1>2, <1>3, <1>4

LEMMA CallGoesOn ==
    ASSUME CallsInv, NEW c \in Calls, call[c].pc \notin {"idle", "read", "ended"},
           NEW q \in CallRec, q.pc \notin {"ended", "check", "drop", "read"},
           q.account = call[c].account, q.told = call[c].told, q.metered = call[c].metered
    PROVE  CallOK(q)
  BY MovesUnpublished DEF CallsInv, CallOK

LEMMA CallEnds ==
    ASSUME CallsInv, NEW c \in Calls, call[c].pc \notin {"idle", "ended"}
    PROVE  /\ CallOK(Failed(call[c]))
           /\ CallOK(Finished(Published(call[c], "ok"), "done"))
           /\ CallOK(Finished(Published(call[c], "failed"), "cut"))
  <1> DEFINE r == call[c]
  <1>1. r \in CallRec /\ PublishesOnce(r) /\ r.account \in Accounts /\ r.pc # "ended"
    BY DEF CallsInv, CallOK
  <1> HIDE DEF r
  <1>2. CallOK(Finished(Published(r, "failed"), "error"))
    BY <1>1, EndsPublished DEF CallOK
  <1>3. CallOK(Finished(Published(r, "ok"), "done"))
    BY <1>1, EndsPublished DEF CallOK
  <1>4. CallOK(Finished(Published(r, "failed"), "cut"))
    BY <1>1, EndsPublished DEF CallOK
  <1> QED
    BY <1>2, <1>3, <1>4 DEF Failed, r

\* Its token and the balance read with it.
LEMMA CallConnects ==
    ASSUME CallsInv, CreditsInv, NEW c \in Calls,
           EnsureToken(c) \/ TokenAnswers(c) \/ BalanceAnswers(c) \/ StoreBalance(c)
    PROVE  CallsInv'
  <1> DEFINE r == call[c]
  <1>0. /\ r \in CallRec /\ instant' = instant /\ cooldown' = cooldown
        /\ cooldown \in [Accounts -> Nat] /\ r.pc \in {"token", "refresh", "balance", "store"}
        /\ r.account \in Accounts
    BY
       DEF CallsInv, CallOK, EnsureToken, TokenAnswers, BalanceAnswers, StoreBalance, CallMoves,
           Of
  <1>1. ASSUME NEW pc \in {"send", "refresh", "balance"}
        PROVE  CallOK([r EXCEPT !.pc = pc])
    <2>1. [r EXCEPT !.pc = pc] \in CallRec
      BY <1>0, CallTyped DEF CallPcs
    <2>2. /\ [r EXCEPT !.pc = pc].pc = pc /\ [r EXCEPT !.pc = pc].account = r.account
          /\ [r EXCEPT !.pc = pc].told = r.told /\ [r EXCEPT !.pc = pc].metered = r.metered
      BY <1>0 DEF CallRec
    <2> QED
      BY <1>0, <2>1, <2>2, CallGoesOn
  <1>2. ASSUME NEW pc \in {"send", "store"}, NEW h \in Readings
        PROVE  CallOK([r EXCEPT !.pc = pc, !.heard = h])
    <2> DEFINE q == [r EXCEPT !.pc = pc, !.heard = h]
    <2>1. q \in CallRec
      BY <1>0, CallTyped DEF CallPcs
    <2>2. q.pc = pc /\ q.account = r.account /\ q.told = r.told /\ q.metered = r.metered
      BY <1>0 DEF CallRec
    <2> HIDE DEF q
    <2>3. CallOK(q)
      BY <1>0, <2>1, <2>2, CallGoesOn
    <2> QED
      BY <2>3 DEF q
  <1>3. CASE EnsureToken(c)
    BY <1>0, <1>1, <1>3, CallChanges DEF EnsureToken
  <1>4. CASE TokenAnswers(c)
    BY <1>0, <1>1, <1>4, CallChanges, CallEnds DEF TokenAnswers, CallMoves
  <1>5. CASE BalanceAnswers(c)
    <2>1. Hears(Account(c)) \subseteq Readings
      BY <1>0 DEF Hears, Account, CreditsInv, Readings
    <2>2. PICK h \in Readings : CallMoves(c, [r EXCEPT !.pc = "store", !.heard = h])
      BY <1>5, <2>1 DEF BalanceAnswers
    <2> QED
      BY <1>0, <1>2, <2>2, CallChanges DEF CallMoves
  <1>6. CASE StoreBalance(c)
    <2>1. CallOK([r EXCEPT !.pc = "send", !.heard = "unknown"])
      BY <1>2 DEF Readings
    <2> QED
      BY <1>0, <1>6, <2>1, CallChanges DEF StoreBalance
  <1> QED
    BY <1>3, <1>4, <1>5, <1>6

\* Its requests.
LEMMA CallAsks ==
    ASSUME CallsInv, NEW c \in Calls,
           \/ \E f \in Refusals : Refused(c, f)
           \/ Succeeds(c) \/ FailsHere(c) \/ SendCanceled(c) \/ WaitCanceled(c) \/ Waited(c)
    PROVE  CallsInv'
  <1> USE AntigravityAssumption
  <1> DEFINE r == call[c]
  <1>0. /\ r \in CallRec /\ instant' = instant /\ instant \in Nat
        /\ cooldown \in [Accounts -> Nat] /\ r.pc \in {"token", "send", "wait"}
        /\ r.account \in Accounts /\ r.url \in Nat /\ r.attempt \in Nat
    BY DEF CallsInv, CallOK, CallRec, Refused, Succeeds, FailsHere, SendCanceled, WaitCanceled,
           Waited, CallMoves, Of
  <1>1. CASE FailsHere(c) \/ SendCanceled(c) \/ WaitCanceled(c)
    BY <1>0, <1>1, CallChanges, CallEnds
       DEF FailsHere, SendCanceled, WaitCanceled, CallMoves
  <1>2. ASSUME NEW pc \in {"send", "read"}, pc = "read" => r.kind # "count"
        PROVE  CallOK([r EXCEPT !.pc = pc])
    <2> DEFINE q == [r EXCEPT !.pc = pc]
    <2>1. q \in CallRec
      BY <1>0, CallTyped DEF CallPcs
    <2>2. /\ q.pc = pc /\ q.account = r.account /\ q.told = r.told /\ q.metered = r.metered
          /\ q.kind = r.kind
      BY <1>0 DEF CallRec
    <2>3. PublishesOnce(r)
      BY DEF CallsInv, CallOK
    <2> HIDE DEF q
    <2>4. PublishesOnce(q)
      <3> HIDE DEF r
      <3> QED
        BY <1>0, <1>2, <2>1, <2>2, <2>3, MovesUnpublished
    <2>5. CallOK(q)
      BY <1>0, <2>1, <2>2, <2>4 DEF CallOK
    <2> QED
      BY <2>5 DEF q
  <1>3. CASE Waited(c)
    BY <1>0, <1>2, <1>3, CallChanges DEF Waited, CallMoves
  <1>4. CASE Succeeds(c)
    BY <1>0, <1>2, <1>4, CallChanges, CallEnds DEF Succeeds
  <1>5. ASSUME NEW f \in Refusals, Refused(c, f) PROVE CallsInv'
    <2>1. cooldown' \in [Accounts -> Nat]
      BY <1>0, <1>5 DEF Refused, MarksCooldown
    <2>2. CallOK([r EXCEPT !.url = r.url + 1])
      <3> DEFINE q == [r EXCEPT !.url = r.url + 1]
      <3>1. r.url + 1 \in Nat
        BY <1>0
      <3>2. q \in CallRec
        BY <1>0, <3>1, CallTyped DEF CallPcs
      <3>3. q.pc = r.pc /\ q.account = r.account /\ q.told = r.told /\ q.metered = r.metered
        BY <1>0 DEF CallRec
      <3> HIDE DEF q
      <3>4. CallOK(q)
        BY <1>0, <3>2, <3>3, CallGoesOn
      <3> QED
        BY <3>4 DEF q
    <2>3. CallOK([r EXCEPT !.pc = "wait", !.attempt = r.attempt + 1, !.url = 1])
      <3> DEFINE q == [r EXCEPT !.pc = "wait", !.attempt = r.attempt + 1, !.url = 1]
      <3>1. r.attempt + 1 \in Nat
        BY <1>0
      <3>2. q \in CallRec
        BY <1>0, <3>1, CallTyped DEF CallPcs
      <3>3. q.pc = "wait" /\ q.account = r.account /\ q.told = r.told /\ q.metered = r.metered
        BY <1>0 DEF CallRec
      <3> HIDE DEF q
      <3>4. CallOK(q)
        BY <1>0, <3>2, <3>3, CallGoesOn
      <3> QED
        BY <3>4 DEF q
    <2>4. CallOK(AfterRefusal(c, f))
      BY <1>0, <2>2, <2>3, CallEnds DEF AfterRefusal
    <2> QED
      BY <1>0, <1>5, <2>1, <2>4, CallChanges DEF Refused
  <1> QED
    BY <1>1, <1>3, <1>4, <1>5

\* Its stream, and its client.
LEMMA CallReads ==
    ASSUME CallsInv, NEW c \in Calls,
           ReadsUsage(c) \/ StreamEnds(c) \/ StreamBreaks(c) \/ LeaveCall(c)
    PROVE  CallsInv'
  <1> DEFINE r == call[c]
  <1>0. /\ r \in CallRec /\ PublishesOnce(r) /\ r.account \in Accounts /\ CallOK(r)
        /\ instant' = instant /\ cooldown' \in [Accounts -> Nat] /\ r.pc \notin {"idle", "ended"}
    BY DEF CallsInv, CallOK, ReadsUsage, StreamEnds, StreamBreaks, LeaveCall, CallMoves, Of
  <1>1. CASE ReadsUsage(c)
    <2> DEFINE q == [Published(r, "ok") EXCEPT !.metered = TRUE]
    <2>1. r.pc = "read" /\ r.kind # "count" /\ r.told = <<>>
      BY <1>0, <1>1 DEF ReadsUsage, Of, PublishesOnce
    <2>2. q \in CallRec /\ q.pc = "read" /\ q.kind = r.kind /\ q.told = <<"ok">>
      BY <1>0, <2>1 DEF Published, CallRec
    <2>3. q.metered /\ q.account = r.account
      BY <1>0, <2>1 DEF Published, CallRec
    <2> HIDE DEF q
    <2>4. CallOK(q)
      BY <1>0, <2>1, <2>2, <2>3 DEF CallOK, PublishesOnce
    <2> QED
      BY <1>0, <1>1, <2>4, CallChanges DEF ReadsUsage, CallMoves, q
  <1>2. CASE StreamEnds(c) \/ StreamBreaks(c)
    BY <1>0, <1>2, CallChanges, CallEnds DEF StreamEnds, StreamBreaks, CallMoves
  <1>3. CASE LeaveCall(c)
    <2> DEFINE q == [r EXCEPT !.gone = TRUE]
    <2>1. /\ q \in CallRec /\ q.pc = r.pc /\ q.kind = r.kind /\ q.told = r.told
          /\ q.metered = r.metered
      BY <1>0 DEF CallRec
    <2>2. q.outcome = r.outcome /\ q.account = r.account /\ q.checks = r.checks /\ q.seen = r.seen
      BY <1>0 DEF CallRec
    <2> HIDE DEF q
    <2>3. CallOK(q)
      BY <1>0, <2>1, <2>2 DEF CallOK, PublishesOnce
    <2> QED
      BY <1>0, <1>3, <2>3, CallChanges DEF LeaveCall, CallMoves, q
  <1> QED
    BY <1>1, <1>2, <1>3

\* What happens to accounts, and what the manager and the hint's goroutine do, is not
\* of the calls.
AccountStep ==
    \/ \E a \in Accounts : ManagerRefreshes(a) \/ TokenAges(a) \/ TopUp(a) \/ UseUp(a)
    \/ \E s \in Sources, a \in Accounts : ReadingAnswers(s, a) \/ ReadingStored(s, a)
    \/ Passes

LEMMA CallsUntouched ==
    ASSUME CallsInv, AccountStep \/ UNCHANGED antigravityVars
    PROVE  CallsInv'
  <1>1. call' = call /\ cooldown' = cooldown /\ (instant' = instant \/ instant' = instant + 1)
    BY
       DEF AccountStep, ManagerRefreshes, TokenAges, TopUp, UseUp, ReadingAnswers,
           ReadingStored,
           Passes, antigravityVars
  <1>2. instant \in Nat /\ instant' \in Nat \ {0} /\ instant <= instant'
    BY <1>1 DEF CallsInv
  <1>3. \A c \in Calls : call[c].seen \in Nat
    BY DEF CallsInv, CallRec
  <1> QED
    BY <1>1, <1>2, <1>3 DEF CallsInv, CallOK

\* What is stored of an account's credits came from the upstream, or is marked.
LEMMA CreditsStep ==
    ASSUME CallsInv, CreditsInv, [AntigravityNext]_antigravityVars
    PROVE  CreditsInv'
  <1>0. \A c \in Calls : /\ call[c].pc # "idle" => Account(c) \in Accounts
                         /\ call[c].heard \in Readings
    BY DEF CallsInv, CallOK, CallRec, Account
  <1>a. ASSUME NEW a \in Accounts, NEW h \in Readings, Stores(a, h)
        PROVE  /\ hint' \in [Accounts -> Readings] /\ outdated' \subseteq Accounts
               /\ spent' = spent => SpentIsKnown'
    BY <1>a DEF Stores, CreditsInv, SpentIsKnown
  <1>1. ASSUME NEW c \in Calls, EnsureToken(c) PROVE CreditsInv'
    <2>1. balance' \in [Sources -> [Accounts -> Readings \cup {"off", "asked"}]]
      BY <1>1 DEF EnsureToken, AskHint, CreditsInv, Sources
    <2> QED
      BY <1>1, <2>1 DEF EnsureToken, CreditsInv, SpentIsKnown
  <1>2. ASSUME NEW c \in Calls, StoreBalance(c) PROVE CreditsInv'
    <2>1. Account(c) \in Accounts /\ call[c].heard \in Readings
      BY <1>0, <1>2 DEF StoreBalance, Of
    <2> QED
      BY <1>2, <1>a, <2>1 DEF StoreBalance, CreditsInv
  <1>3. ASSUME NEW c \in Calls, NEW f \in Refusals, Refused(c, f) PROVE CreditsInv'
    <2>1. Account(c) \in Accounts
      BY <1>0, <1>3 DEF Refused, Of
    <2> QED
      BY <1>3, <2>1 DEF Refused, MarksSpent, CreditsInv, SpentIsKnown, Readings
  <1>4. ASSUME NEW c \in Calls,
               \/ Begin(c) \/ LeaveCall(c) \/ LookUp(c) \/ DropEntry(c) \/ SendCanceled(c)
               \/ WaitCanceled(c) \/ Waited(c) \/ TokenAnswers(c) \/ BalanceAnswers(c)
               \/ FailsHere(c) \/ Succeeds(c) \/ ReadsUsage(c) \/ StreamEnds(c) \/ StreamBreaks(c)
        PROVE CreditsInv'
    <2>1. UNCHANGED creditVars
      BY <1>4
         DEF Begin, LeaveCall, LookUp, DropEntry, SendCanceled, WaitCanceled, Waited, TokenAnswers,
             BalanceAnswers, FailsHere, Succeeds, ReadsUsage, StreamEnds, StreamBreaks, CallMoves
    <2> QED
      BY <2>1 DEF creditVars, CreditsInv, SpentIsKnown
  <1>5. ASSUME NEW a \in Accounts, ManagerRefreshes(a) \/ TokenAges(a) \/ TopUp(a) \/ UseUp(a)
        PROVE  CreditsInv'
    <2>1. CASE ManagerRefreshes(a)
      BY <2>1 DEF ManagerRefreshes, CreditsInv, SpentIsKnown, Sources
    <2>2. CASE TokenAges(a)
      BY <2>2 DEF TokenAges, creditVars, CreditsInv, SpentIsKnown
    <2>3. CASE TopUp(a) \/ UseUp(a)
      BY <2>3 DEF TopUp, UseUp, CreditsInv, SpentIsKnown, Readings
    <2> QED
      BY <1>5, <2>1, <2>2, <2>3
  <1>6. ASSUME NEW s \in Sources, NEW a \in Accounts, ReadingAnswers(s, a) \/ ReadingStored(s, a)
        PROVE  CreditsInv'
    <2>1. CASE ReadingAnswers(s, a)
      <3>1. Hears(a) \subseteq Readings
        BY DEF Hears, CreditsInv, Readings
      <3> QED
        BY <2>1, <3>1 DEF ReadingAnswers, CreditsInv, SpentIsKnown
    <2>2. CASE ReadingStored(s, a)
      <3>1. balance[s][a] \in Readings
        BY <2>2 DEF ReadingStored, CreditsInv
      <3>2. balance' \in [Sources -> [Accounts -> Readings \cup {"off", "asked"}]]
        BY <2>2 DEF ReadingStored, CreditsInv
      <3> QED
        BY <2>2, <1>a, <3>1, <3>2 DEF ReadingStored, CreditsInv
    <2> QED
      BY <1>6, <2>1, <2>2
  <1>7. CASE Passes \/ UNCHANGED antigravityVars
    BY <1>7 DEF Passes, antigravityVars, creditVars, CreditsInv, SpentIsKnown
  <1> QED
    BY <1>1, <1>2, <1>3, <1>4, <1>5, <1>6, <1>7 DEF AntigravityNext, CallStep, UpstreamStep

LEMMA CallsInvInit == AntigravityInit => CallsInv /\ CreditsInv
  <1> SUFFICES ASSUME AntigravityInit PROVE CallsInv /\ CreditsInv
    OBVIOUS
  <1>1. CallsInv
    BY NoCallTyped DEF AntigravityInit, CallsInv, CallOK, PublishesOnce
  <1>2. CreditsInv
    BY DEF AntigravityInit, CreditsInv, SpentIsKnown, Readings
  <1> QED
    BY <1>1, <1>2

LEMMA CallsInvStep ==
    CallsInv /\ CreditsInv /\ [AntigravityNext]_antigravityVars => CallsInv' /\ CreditsInv'
  <1> SUFFICES ASSUME CallsInv, CreditsInv, [AntigravityNext]_antigravityVars
               PROVE  CallsInv' /\ CreditsInv'
    OBVIOUS
  <1>1. ASSUME NEW c \in Calls, Begin(c) \/ LeaveCall(c) \/ CallStep(c) \/ UpstreamStep(c)
        PROVE  CallsInv'
    BY <1>1, CallChecked, CallConnects, CallAsks, CallReads DEF CallStep, UpstreamStep
  <1>2. ASSUME AccountStep \/ UNCHANGED antigravityVars PROVE CallsInv'
    BY <1>2, CallsUntouched
  <1>3. CallsInv'
    BY <1>1, <1>2 DEF AntigravityNext, AccountStep
  <1> QED
    BY <1>3, CreditsStep

\* A call that has ended left one usage record that says what became of it.
THEOREM CallsToldOnce == AntigravitySpec => []UsageToldOnce
  <1>1. AntigravityInit => CallsInv /\ CreditsInv
    BY CallsInvInit
  <1>2. CallsInv /\ CreditsInv /\ [AntigravityNext]_antigravityVars => CallsInv' /\ CreditsInv'
    BY CallsInvStep
  <1>3. CallsInv => UsageToldOnce
    BY DEF CallsInv, CallOK, PublishesOnce, UsageToldOnce
  <1> QED
    BY <1>1, <1>2, <1>3, PTL DEF AntigravitySpec

\* Credits known to be spent are not thought to be there.
THEOREM CreditsKnown == AntigravitySpec => []SpentIsKnown
  <1>1. AntigravityInit => CallsInv /\ CreditsInv
    BY CallsInvInit
  <1>2. CallsInv /\ CreditsInv /\ [AntigravityNext]_antigravityVars => CallsInv' /\ CreditsInv'
    BY CallsInvStep
  <1>3. CreditsInv => SpentIsKnown
    BY DEF CreditsInv
  <1> QED
    BY <1>1, <1>2, <1>3, PTL DEF AntigravitySpec

\* The step that loses a cooldown which still runs is that of a call which found an
\* earlier one run out.
CooldownStep ==
    \A a \in Accounts : cooldown[a] > instant /\ cooldown'[a] = 0 =>
       \E c \in Calls : /\ call[c].pc = "drop" /\ call'[c].pc # "drop"
                        /\ call[c].account = a /\ call[c].seen < cooldown[a]

LEMMA CooldownKept ==
    ASSUME CallsInv, [AntigravityNext]_antigravityVars
    PROVE  CooldownStep
  <1>0. instant \in Nat /\ cooldown \in [Accounts -> Nat]
    BY DEF CallsInv
  <1>1. ASSUME NEW c \in Calls, DropEntry(c) PROVE CooldownStep
    <2> DEFINE r == call[c]
    <2>1. /\ r \in CallRec /\ r.pc = "drop" /\ r.seen \in Nat /\ r.seen <= instant
          /\ call' = [call EXCEPT ![c] = Cleared(r)] /\ call \in [Calls -> CallRec]
          /\ cooldown' = [cooldown EXCEPT ![r.account] = 0]
      BY <1>1 DEF DropEntry, Of, Account, CallsInv, CallOK, CallRec
    <2>2. Cleared(r).pc # "drop"
      BY <2>1 DEF Cleared, CallRec
    <2>3. call'[c].pc # "drop"
      <3> HIDE DEF r
      <3> QED
        BY <2>1, <2>2
    <2> QED
      BY <1>0, <2>1, <2>3 DEF CooldownStep
  <1>2. ASSUME NEW c \in Calls, NEW f \in Refusals, Refused(c, f) PROVE CooldownStep
    <2>1. CASE cooldown' = cooldown
      BY <1>0, <2>1 DEF CooldownStep
    <2>2. ASSUME NEW h \in HoldTimes, cooldown' = [cooldown EXCEPT ![Account(c)] = instant + h]
          PROVE  CooldownStep
      BY <1>0, <2>2, AntigravityAssumption DEF CooldownStep
    <2> QED
      BY <1>2, <2>1, <2>2 DEF Refused, MarksCooldown
  <1>3. CASE cooldown' = cooldown
    BY <1>0, <1>3 DEF CooldownStep
  <1>4. ASSUME NEW c \in Calls,
               \/ Begin(c) \/ LeaveCall(c) \/ LookUp(c) \/ EnsureToken(c) \/ StoreBalance(c)
               \/ SendCanceled(c) \/ WaitCanceled(c) \/ Waited(c) \/ TokenAnswers(c)
               \/ BalanceAnswers(c) \/ FailsHere(c) \/ Succeeds(c) \/ ReadsUsage(c)
               \/ StreamEnds(c) \/ StreamBreaks(c)
        PROVE  cooldown' = cooldown
    BY <1>4
       DEF Begin, LeaveCall, LookUp, EnsureToken, StoreBalance, SendCanceled, WaitCanceled, Waited,
           TokenAnswers, BalanceAnswers, FailsHere, Succeeds, ReadsUsage, StreamEnds, StreamBreaks,
           CallMoves
  <1>5. CASE AccountStep \/ UNCHANGED antigravityVars
    BY <1>3, <1>5
       DEF AccountStep, ManagerRefreshes, TokenAges, TopUp, UseUp, ReadingAnswers, ReadingStored,
           Passes, antigravityVars
  <1> QED
    BY <1>1, <1>2, <1>3, <1>4, <1>5 DEF AntigravityNext, CallStep, UpstreamStep, AccountStep

\* A cooldown that still runs is lost in one way only.
THEOREM CooldownsKept == AntigravitySpec => CooldownLostOnlyByRace
  <1>1. AntigravityInit => CallsInv /\ CreditsInv
    BY CallsInvInit
  <1>2. CallsInv /\ CreditsInv /\ [AntigravityNext]_antigravityVars => CallsInv' /\ CreditsInv'
    BY CallsInvStep
  <1>3. CallsInv /\ [AntigravityNext]_antigravityVars => CooldownStep
    BY CooldownKept
  <1> QED
    BY <1>1, <1>2, <1>3, PTL DEF AntigravitySpec, CooldownLostOnlyByRace, CooldownStep

-----------------------------------------------------------------------------
(* The credential of a session. *)

AffinityPcs == {"idle", "lookup", "prior", "drop", "choose", "bind"}

PickTyped(r, t) ==
    /\ r \in [pc : AffinityPcs, session : Sessions \cup {Sessionless}, auths : SUBSET Auths,
             list : SUBSET Auths, at : Nat, auth : Auths \cup {0}, expected : SUBSET Auths]
    /\ r.at <= t
    /\ r.pc \in {"lookup", "prior", "drop", "bind"} => r.session \in Sessions

\* What the cache and a pick hold; a pick without a session looks nothing up.
AffinityTypes ==
    /\ now \in Nat
    /\ DOMAIN entries \subseteq Sessions
    /\ entries = [k \in DOMAIN entries |-> entries[k]]
    /\ \A k \in DOMAIN entries : entries[k].until \in Nat /\ entries[k].auth \in Auths \cup {0}
    /\ DOMAIN bound \subseteq Sessions
    /\ bound = [k \in DOMAIN bound |-> bound[k]]
    /\ \A k \in DOMAIN bound : bound[k].at \in Nat /\ bound[k].at <= now
    /\ pick = [p \in Pickers |-> pick[p]]
    /\ \A p \in Pickers : PickTyped(pick[p], now)

\* Whoever served a session lately is in the cache, for at least as long.
ServedIsCached ==
    \A k \in DOMAIN bound : now <= bound[k].at + TTL =>
        /\ k \in DOMAIN entries
        /\ entries[k].auth = bound[k].auth
        /\ bound[k].at + TTL <= entries[k].until

\* The credential a pick has to answer, while it has not looked yet, is the one
\* that served the session; later, it is the one found.
Expects(r) ==
    /\ r.pc = "lookup" => r.expected \subseteq r.list \cap Owner(r.session, now)
    /\ r.pc = "bind" => r.expected \subseteq {r.auth}
    /\ r.pc \in {"idle", "prior", "drop", "choose"} => r.expected = {}

ExpectedIsFound == \A p \in Pickers : Expects(pick[p])

AffinityInv == AffinityTypes /\ ServedIsCached /\ ExpectedIsFound /\ SessionStays

LEMMA Unexpected ==
    ASSUME NEW r, NEW t, NEW x, PickTyped(r, t), x = [r EXCEPT !.expected = {}]
    PROVE  PickTyped(x, t) /\ x.expected = {}
<1>1. x = [pc |-> r.pc, session |-> r.session, auths |-> r.auths, list |-> r.list,
           at |-> r.at, auth |-> r.auth, expected |-> {}]
  BY DEF PickTyped
<1>2. QED  BY <1>1 DEF PickTyped

Moved(r, pc, auth, e) == [r EXCEPT !.pc = pc, !.auth = auth, !.expected = e]

LEMMA Changed ==
    ASSUME NEW r, NEW t, NEW pc \in AffinityPcs, NEW auth \in Auths \cup {0},
           NEW e \in SUBSET Auths, PickTyped(r, t),
           pc \in {"lookup", "prior", "drop", "bind"} => r.session \in Sessions
    PROVE  /\ PickTyped(Moved(r, pc, auth, e), t)
           /\ Moved(r, pc, auth, e).pc = pc
           /\ Moved(r, pc, auth, e).auth = auth
           /\ Moved(r, pc, auth, e).expected = e
<1> DEFINE x == Moved(r, pc, auth, e)
<1>1. x = [pc |-> pc, session |-> r.session, auths |-> r.auths, list |-> r.list,
           at |-> r.at, auth |-> auth, expected |-> e]
  <2>1. ASSUME NEW y, y = [r EXCEPT !.pc = pc, !.auth = auth, !.expected = e]
        PROVE  y = [pc |-> pc, session |-> r.session, auths |-> r.auths, list |-> r.list,
                    at |-> r.at, auth |-> auth, expected |-> e]
    BY <2>1 DEF PickTyped
  <2>2. QED  BY <2>1 DEF Moved
<1> HIDE DEF x
<1>2. PickTyped(x, t) /\ x.pc = pc /\ x.auth = auth /\ x.expected = e
  BY <1>1 DEF PickTyped
<1>3. QED  BY <1>2 DEF x

\* A pick that moves on by itself.
LEMMA OwnStep ==
    ASSUME AffinityInv, NEW p \in Pickers, NEW r,
           pick' = [pick EXCEPT ![p] = r], PickTyped(r, now), Expects(r),
           entries' = entries, bound' = bound, now' = now, moved' = moved
    PROVE  AffinityInv'
<1>1. /\ pick' = [q \in Pickers |-> pick'[q]]
      /\ pick'[p] = r
      /\ \A q \in Pickers \ {p} : pick'[q] = pick[q]
  BY DEF AffinityInv, AffinityTypes
<1>2. AffinityTypes'
  <2>1. \A q \in Pickers : PickTyped(pick'[q], now)
    BY <1>1 DEF AffinityInv, AffinityTypes
  <2>2. \A q \in Pickers : PickTyped(pick'[q], now')
    BY <2>1
  <2>3. QED  BY <1>1, <2>2 DEF AffinityInv, AffinityTypes
<1>3. ServedIsCached'
  BY DEF AffinityInv, ServedIsCached
<1>4. ExpectedIsFound'
  <2>1. ASSUME NEW q \in Pickers
        PROVE  Expects(pick[q])'
    <3>1. CASE q = p
      BY <1>1, <3>1 DEF Expects, Owner
    <3>2. CASE q # p
      <4>1. Expects(pick[q]) /\ pick'[q] = pick[q]
        BY <1>1, <3>2 DEF AffinityInv, ExpectedIsFound
      <4>2. QED  BY <4>1 DEF Expects, Owner
    <3>3. QED  BY <3>1, <3>2
  <2>2. QED  BY <2>1 DEF ExpectedIsFound
<1>5. QED  BY <1>2, <1>3, <1>4 DEF AffinityInv, SessionStays

LEMMA BeginStays ==
    ASSUME AffinityInv, NEW p \in Pickers, NEW k \in Sessions \cup {Sessionless},
           NEW auths \in SUBSET Auths, StartPick(p, k, auths)
    PROVE  AffinityInv'
<1> DEFINE r == [pc |-> IF k = Sessionless THEN "choose" ELSE "lookup", session |-> k, auths |-> auths,
                 list |-> Available(auths), at |-> now, auth |-> 0,
                 expected |-> Owner(k, now) \cap Available(auths)]
<1>1. /\ pick' = [pick EXCEPT ![p] = r]
      /\ entries' = entries /\ bound' = bound /\ now' = now /\ moved' = moved
  BY DEF StartPick, historyVars
<1>2. PickTyped(r, now)
  <2>1. Available(auths) \in SUBSET Auths
    BY DEF Available
  <2>2. now \in Nat
    BY DEF AffinityInv, AffinityTypes
  <2> HIDE DEF Available
  <2>3. QED  BY <2>1, <2>2 DEF PickTyped, AffinityPcs
<1>3. Expects(r)
  <2>1. k = Sessionless => Owner(k, now) = {}
    BY AffinityAssumption DEF Owner, AffinityInv, AffinityTypes
  <2>2. QED  BY <2>1 DEF Expects
<1>4. QED
  <2> HIDE DEF r
  <2>1. QED  BY <1>1, <1>2, <1>3, OwnStep

LEMMA InheritStays ==
    ASSUME AffinityInv, NEW p \in Pickers, Inherit(p)
    PROVE  AffinityInv'
<1> DEFINE k == pick[p].session
           prior == Prior[k]
           owner == IF k \in DOMAIN bound THEN {} ELSE Owner(prior, now)
           found == prior \in DOMAIN entries
           pc == IF found /\ ~Live(prior, now) THEN "drop"
                 ELSE IF found /\ entries[prior].auth \in pick[p].list THEN "bind"
                 ELSE "choose"
           r == [pick[p] EXCEPT !.pc = pc, !.auth = IF found THEN entries[prior].auth ELSE 0,
                                !.expected = @ \cup (owner \cap pick[p].list)]
<1>0. PickTyped(pick[p], now) /\ Expects(pick[p]) /\ pick[p].pc = "prior"
  BY DEF AffinityInv, AffinityTypes, ExpectedIsFound, Inherit
<1>1. /\ pick' = [pick EXCEPT ![p] = r]
      /\ entries' = entries /\ bound' = bound /\ now' = now /\ moved' = moved
  <2>1. pick = [q \in Pickers |-> pick[q]]
    BY DEF AffinityInv, AffinityTypes
  <2>2. pick' = [pick EXCEPT ![p].pc = pc,
                 ![p].auth = IF found THEN entries[prior].auth ELSE 0,
                 ![p].expected = @ \cup (owner \cap pick[p].list)]
    BY DEF Inherit
  <2>3. QED  BY <2>1, <2>2, <1>0 DEF Inherit, historyVars, PickTyped
<1>2. PickTyped(r, now) /\ r.pc = pc /\ r.expected = owner \cap pick[p].list
      /\ r.auth = IF found THEN entries[prior].auth ELSE 0
  <2>1. pc \in {"drop", "bind", "choose"}
    OBVIOUS
  <2>2. (IF found THEN entries[prior].auth ELSE 0) \in Auths \cup {0}
    BY DEF AffinityInv, AffinityTypes
  <2>3. pick[p].expected \cup (owner \cap pick[p].list) \in SUBSET Auths
    BY <1>0 DEF PickTyped
  <2>4. pick[p].expected = {} /\ pick[p].session \in Sessions
    BY <1>0 DEF PickTyped, Expects
  <2> HIDE DEF pc, owner, found, prior
  <2>5. r = Moved(pick[p], pc, IF found THEN entries[prior].auth ELSE 0,
                  pick[p].expected \cup (owner \cap pick[p].list))
    BY DEF Moved
  <2> HIDE DEF r
  <2>6. QED  BY <1>0, <2>1, <2>2, <2>3, <2>4, <2>5, Changed DEF AffinityPcs
<1>3. PickTyped(r, now)
  BY <1>2
<1>4. Expects(r)
  <2>1. owner # {} => /\ found /\ Live(prior, now)
                      /\ owner = {entries[prior].auth}
    BY AffinityAssumption DEF Owner, Live, AffinityInv, ServedIsCached, AffinityTypes
  <2>2. pc = "bind" => found
    OBVIOUS
  <2>3. pc \in {"drop", "choose"} => owner \cap pick[p].list = {}
    BY <2>1
  <2>4. pc \in {"drop", "bind", "choose"}
    OBVIOUS
  <2> HIDE DEF r, pc, owner, found
  <2>5. QED  BY <1>2, <2>1, <2>2, <2>3, <2>4 DEF Expects
<1>5. QED
  <2> HIDE DEF r
  <2>1. QED  BY <1>1, <1>3, <1>4, OwnStep

LEMMA ChooseStays ==
    ASSUME AffinityInv, NEW p \in Pickers, Choose(p)
    PROVE  AffinityInv'
<1>0. /\ PickTyped(pick[p], now) /\ Expects(pick[p]) /\ pick[p].pc = "choose"
      /\ pick = [q \in Pickers |-> pick[q]]
      /\ entries' = entries /\ bound' = bound /\ now' = now /\ moved' = moved
  BY DEF AffinityInv, AffinityTypes, ExpectedIsFound, Choose
<1>1. PICK a \in Auths : pick' = [pick EXCEPT ![p] = IF @.session = Sessionless THEN NoPick
                                          ELSE [@ EXCEPT !.pc = "bind", !.auth = a]]
  BY DEF Choose
<1>2. CASE pick[p].session = Sessionless
  <2>1. pick' = [pick EXCEPT ![p] = NoPick]
    BY <1>0, <1>1, <1>2
  <2>2. PickTyped(NoPick, now) /\ Expects(NoPick)
    BY <1>0 DEF NoPick, PickTyped, AffinityPcs, Expects, AffinityInv, AffinityTypes
  <2>3. QED  BY <1>0, <2>1, <2>2, OwnStep
<1>3. CASE pick[p].session # Sessionless
  <2> DEFINE r == [pick[p] EXCEPT !.pc = "bind", !.auth = a]
  <2>1. pick' = [pick EXCEPT ![p] = r]
    BY <1>0, <1>1, <1>3
  <2>2. r = Moved(pick[p], "bind", a, pick[p].expected)
    <3>1. ASSUME NEW x, x = [pick[p] EXCEPT !.pc = "bind", !.auth = a, !.expected = pick[p].expected],
                 NEW y, y = [pick[p] EXCEPT !.pc = "bind", !.auth = a]
          PROVE  x = y
      BY <1>0, <3>1 DEF PickTyped
    <3>2. QED  BY <3>1 DEF Moved
  <2>3. pick[p].expected \in SUBSET Auths /\ pick[p].expected = {} /\ pick[p].session \in Sessions
    BY <1>0, <1>3 DEF PickTyped, Expects
  <2> HIDE DEF r
  <2>4. PickTyped(r, now) /\ Expects(r)
    BY <1>0, <2>2, <2>3, Changed DEF AffinityPcs, Expects
  <2>5. QED  BY <1>0, <2>1, <2>4, OwnStep
<1>4. QED  BY <1>2, <1>3

\* A pick is answered, and the session is the credential's from now on.
LEMMA AnswerStays ==
    ASSUME AffinityInv, NEW p \in Pickers, NEW a, pick[p].session \in Sessions,
           pick[p].expected \subseteq {a}, Answer(p, a), a \in Auths \cup {0},
           entries' = Bound(pick[p].session, a, now + TTL), now' = now
    PROVE  AffinityInv'
<1> DEFINE k == pick[p].session
<1>0. /\ PickTyped(pick[p], now) /\ now \in Nat /\ TTL \in Nat
      /\ pick[p].at \in Nat /\ pick[p].at <= now
  BY AffinityAssumption DEF AffinityInv, AffinityTypes, PickTyped
<1>1. /\ DOMAIN entries' = DOMAIN entries \cup {k}
      /\ entries' = [j \in DOMAIN entries' |-> entries'[j]]
      /\ entries'[k] = [auth |-> a, until |-> now + TTL]
      /\ \A j \in DOMAIN entries : j # k => entries'[j] = entries[j]
  BY DEF Bound, With
<1>2. /\ DOMAIN bound' = DOMAIN bound \cup {k}
      /\ bound' = [j \in DOMAIN bound' |-> bound'[j]]
      /\ bound'[k] = [auth |-> a, at |-> pick[p].at]
      /\ \A j \in DOMAIN bound : j # k => bound'[j] = bound[j]
  BY DEF Answer, With
<1>3. /\ pick' = [q \in Pickers |-> pick'[q]]
      /\ pick'[p] = NoPick
      /\ \A q \in Pickers \ {p} :
            pick'[q] = IF pick[q].session = k THEN [pick[q] EXCEPT !.expected = {}] ELSE pick[q]
  BY DEF Answer
<1>4. ASSUME NEW q \in Pickers, q # p, pick[q].session = k
      PROVE  PickTyped(pick'[q], now) /\ pick'[q].expected = {}
  <2>1. PickTyped(pick[q], now)
    BY DEF AffinityInv, AffinityTypes
  <2>2. pick'[q] = [pick[q] EXCEPT !.expected = {}]
    BY <1>3, <1>4
  <2>3. QED  BY <2>1, <2>2, Unexpected
<1>5. AffinityTypes'
  <2>1. \A j \in DOMAIN entries' : entries'[j].until \in Nat
    BY <1>0, <1>1 DEF AffinityInv, AffinityTypes
  <2>0. \A j \in DOMAIN entries' : entries'[j].auth \in Auths \cup {0}
    BY <1>1 DEF AffinityInv, AffinityTypes
  <2>2. \A j \in DOMAIN bound' : bound'[j].at \in Nat /\ bound'[j].at <= now
    BY <1>0, <1>2 DEF AffinityInv, AffinityTypes
  <2>3. PickTyped(NoPick, now)
    BY <1>0 DEF PickTyped, NoPick, AffinityPcs
  <2>4. ASSUME NEW q \in Pickers
        PROVE  PickTyped(pick'[q], now)
    <3>1. PickTyped(pick[q], now)
      BY DEF AffinityInv, AffinityTypes
    <3>2. CASE q = p
      BY <1>3, <2>3, <3>2
    <3>3. CASE q # p /\ pick[q].session = k
      BY <1>4, <3>3
    <3>4. CASE q # p /\ pick[q].session # k
      BY <1>3, <3>1, <3>4
    <3>5. QED  BY <3>2, <3>3, <3>4
  <2>5. QED  BY <1>0, <1>1, <1>2, <1>3, <2>0, <2>1, <2>2, <2>4 DEF AffinityInv, AffinityTypes
<1>6. ServedIsCached'
  <2>1. ASSUME NEW j \in DOMAIN bound', now' <= bound'[j].at + TTL
        PROVE  /\ j \in DOMAIN entries'
               /\ entries'[j].auth = bound'[j].auth
               /\ bound'[j].at + TTL <= entries'[j].until
    <3>1. CASE j = k
      BY <1>0, <1>1, <1>2, <3>1
    <3>2. CASE j # k
      BY <1>1, <1>2, <2>1, <3>2 DEF AffinityInv, ServedIsCached
    <3>3. QED  BY <3>1, <3>2
  <2>2. QED  BY <2>1 DEF ServedIsCached
<1>7. ExpectedIsFound'
  <2>1. ASSUME NEW q \in Pickers
        PROVE  Expects(pick[q])'
    <3>1. CASE q = p
      <4>1. pick'[q].pc = "idle" /\ pick'[q].expected = {}
        BY <1>3, <3>1 DEF NoPick
      <4>2. QED  BY <4>1 DEF Expects
    <3>2. CASE q # p /\ pick[q].session = k
      <4>1. pick'[q].expected = {}
        BY <1>4, <3>2
      <4>2. QED  BY <4>1 DEF Expects
    <3>3. CASE q # p /\ pick[q].session # k
      <4>1. pick'[q] = pick[q] /\ Expects(pick[q])
        BY <1>3, <3>3 DEF AffinityInv, ExpectedIsFound
      <4>2. Owner(pick[q].session, now) = Owner(pick[q].session, now)'
        BY <1>2, <3>3, <4>1 DEF Owner
      <4>3. QED  BY <4>1, <4>2 DEF Expects
    <3>4. QED  BY <3>1, <3>2, <3>3
  <2>2. QED  BY <2>1 DEF ExpectedIsFound
<1>8. SessionStays'
  BY DEF Answer, AffinityInv, SessionStays
<1>9. QED  BY <1>5, <1>6, <1>7, <1>8 DEF AffinityInv

LEMMA BindStays ==
    ASSUME AffinityInv, NEW p \in Pickers, Bind(p)
    PROVE  AffinityInv'
<1>1. /\ pick[p].session \in Sessions /\ pick[p].expected \subseteq {pick[p].auth}
      /\ Answer(p, pick[p].auth) /\ now' = now /\ pick[p].auth \in Auths \cup {0}
      /\ entries' = Bound(pick[p].session, pick[p].auth, now + TTL)
  BY DEF Bind, AffinityInv, AffinityTypes, PickTyped, ExpectedIsFound, Expects
<1>2. QED  BY <1>1, AnswerStays

LEMMA LookupStays ==
    ASSUME AffinityInv, NEW p \in Pickers, Lookup(p)
    PROVE  AffinityInv'
<1> DEFINE k == pick[p].session
<1>0. /\ PickTyped(pick[p], now) /\ Expects(pick[p]) /\ pick[p].pc = "lookup" /\ k \in Sessions
      /\ now' = now /\ now \in Nat /\ TTL \in Nat
      /\ pick[p].expected \subseteq pick[p].list \cap Owner(k, now)
  BY AffinityAssumption
  DEF Lookup, AffinityInv, AffinityTypes, PickTyped, ExpectedIsFound, Expects
<1>1. Owner(k, now) # {} => Live(k, now) /\ Owner(k, now) = {entries[k].auth}
  BY <1>0 DEF Owner, Live, AffinityInv, ServedIsCached, AffinityTypes
<1>2. CASE Live(k, now) /\ entries[k].auth \in pick[p].list
  <2>1. /\ Answer(p, entries[k].auth)
        /\ entries' = Bound(k, entries[k].auth, now + TTL)
    BY <1>2 DEF Lookup
  <2>2. pick[p].expected \subseteq {entries[k].auth} /\ entries[k].auth \in Auths \cup {0}
    BY <1>0, <1>1, <1>2 DEF Live, AffinityInv, AffinityTypes
  <2>3. QED  BY <1>0, <2>1, <2>2, AnswerStays
<1>3. CASE ~(Live(k, now) /\ entries[k].auth \in pick[p].list)
  <2> DEFINE pc == IF Live(k, now) \/ Prior[k] = Sessionless THEN "choose" ELSE "prior"
  <2>1. /\ pick' = [pick EXCEPT ![p].pc = pc] /\ bound' = bound /\ moved' = moved
        /\ entries' = IF Live(k, now) THEN Bound(k, entries[k].auth, now + TTL)
                      ELSE Without(k)
    BY <1>3 DEF Lookup
  <2>2. pick[p].expected = {}
    BY <1>0, <1>1, <1>3
  <2>3. DOMAIN entries' \subseteq DOMAIN entries
        /\ entries' = [j \in DOMAIN entries' |-> entries'[j]]
    BY <2>1 DEF Bound, With, Without, Restrict, Live
  <2>4. \A j \in DOMAIN entries : j # k => j \in DOMAIN entries' /\ entries'[j] = entries[j]
    BY <2>1 DEF Bound, With, Without, Restrict, Live
  <2>5. k \in DOMAIN entries' => /\ Live(k, now)
                                 /\ entries'[k] = [auth |-> entries[k].auth, until |-> now + TTL]
    BY <2>1 DEF Bound, With, Without, Restrict
  <2>6. Live(k, now) => k \in DOMAIN entries'
    BY <2>1 DEF Bound, With
  <2>7. /\ pick' = [q \in Pickers |-> pick'[q]]
        /\ \A q \in Pickers \ {p} : pick'[q] = pick[q]
        /\ pick'[p] = [pc |-> pc, session |-> k, auths |-> pick[p].auths, list |-> pick[p].list,
                       at |-> pick[p].at, auth |-> pick[p].auth, expected |-> {}]
    BY <1>0, <2>1, <2>2 DEF PickTyped, AffinityInv, AffinityTypes
  <2>8. AffinityTypes'
    <3>1. \A j \in DOMAIN entries' : entries'[j].until \in Nat /\ entries'[j].auth \in Auths \cup {0}
      BY <1>0, <2>3, <2>4, <2>5 DEF AffinityInv, AffinityTypes
    <3>2. PickTyped(pick'[p], now)
      BY <1>0, <2>7 DEF PickTyped, AffinityPcs
    <3>3. \A q \in Pickers : PickTyped(pick'[q], now)
      BY <2>7, <3>2 DEF AffinityInv, AffinityTypes
    <3>4. bound' = bound
      BY <2>1
    <3>5. QED  BY <1>0, <2>3, <2>7, <3>1, <3>3, <3>4 DEF AffinityInv, AffinityTypes
  <2>9. ServedIsCached'
    <3>1. ASSUME NEW j \in DOMAIN bound, now <= bound[j].at + TTL
          PROVE  /\ j \in DOMAIN entries'
                 /\ entries'[j].auth = bound[j].auth
                 /\ bound[j].at + TTL <= entries'[j].until
      <4>1. j \in DOMAIN entries /\ entries[j].auth = bound[j].auth
            /\ bound[j].at + TTL <= entries[j].until
        BY <3>1 DEF AffinityInv, ServedIsCached
      <4>2. CASE j # k
        BY <2>4, <4>1, <4>2
      <4>3. CASE j = k
        <5>1. entries[k].until \in Nat /\ bound[k].at \in Nat /\ now <= entries[k].until
          BY <1>0, <3>1, <4>1, <4>3 DEF AffinityInv, AffinityTypes
        <5>2. Live(k, now)
          BY <4>1, <4>3, <5>1 DEF Live
        <5>3. bound[k].at <= now
          BY <3>1, <4>3 DEF AffinityInv, AffinityTypes
        <5>4. QED  BY <1>0, <2>5, <2>6, <4>1, <4>3, <5>1, <5>2, <5>3
      <4>4. QED  BY <4>2, <4>3
    <3>2. QED  BY <1>0, <2>1, <3>1 DEF ServedIsCached
  <2>10. ExpectedIsFound'
    <3>1. ASSUME NEW q \in Pickers
          PROVE  Expects(pick[q])'
      <4>1. CASE q = p
        <5>1. pick'[q].expected = {}
          BY <2>7, <4>1
        <5>2. QED  BY <5>1 DEF Expects
      <4>2. CASE q # p
        <5>1. pick'[q] = pick[q] /\ Expects(pick[q])
          BY <2>7, <4>2 DEF AffinityInv, ExpectedIsFound
        <5>2. QED  BY <1>0, <2>1, <5>1 DEF Expects, Owner
      <4>3. QED  BY <4>1, <4>2
    <3>2. QED  BY <3>1 DEF ExpectedIsFound
  <2>11. QED  BY <2>1, <2>8, <2>9, <2>10 DEF AffinityInv, SessionStays
<1>4. QED  BY <1>2, <1>3

LEMMA DropStays ==
    ASSUME AffinityInv, NEW p \in Pickers, Drop(p)
    PROVE  AffinityInv'
<1> DEFINE prior == Prior[pick[p].session]
<1>0. /\ now' = now /\ moved' = moved
      /\ PickTyped(pick[p], now) /\ pick[p].pc = "drop" /\ pick[p].session \in Sessions
      /\ pick[p].expected = {}
  BY DEF Drop, AffinityInv, AffinityTypes, PickTyped, ExpectedIsFound, Expects
<1>1. /\ DOMAIN entries' = DOMAIN entries \ {prior}
      /\ entries' = [j \in DOMAIN entries' |-> entries'[j]]
      /\ \A j \in DOMAIN entries : j # prior => entries'[j] = entries[j]
  BY DEF Drop, Without, Restrict
<1>2. /\ DOMAIN bound' = DOMAIN bound \ {prior}
      /\ bound' = [j \in DOMAIN bound' |-> bound'[j]]
      /\ \A j \in DOMAIN bound : j # prior => bound'[j] = bound[j]
  BY DEF Drop, Restrict
<1>3. /\ pick' = [q \in Pickers |-> pick'[q]]
      /\ pick'[p] = [pick[p] EXCEPT !.pc = "choose"]
      /\ \A q \in Pickers \ {p} : pick'[q] =
            IF pick[q].session = prior THEN [pick[q] EXCEPT !.expected = {}] ELSE pick[q]
  BY DEF Drop
<1>4. pick'[p] = [pc |-> "choose", session |-> pick[p].session, auths |-> pick[p].auths,
                  list |-> pick[p].list, at |-> pick[p].at, auth |-> pick[p].auth, expected |-> {}]
  BY <1>0, <1>3 DEF PickTyped
<1>5. ASSUME NEW q \in Pickers, q # p, pick[q].session = prior
      PROVE  PickTyped(pick'[q], now) /\ pick'[q].expected = {}
  <2>1. PickTyped(pick[q], now)
    BY DEF AffinityInv, AffinityTypes
  <2>2. pick'[q] = [pick[q] EXCEPT !.expected = {}]
    BY <1>3, <1>5
  <2>3. QED  BY <2>1, <2>2, Unexpected
<1>6. AffinityTypes'
  <2>1. ASSUME NEW q \in Pickers
        PROVE  PickTyped(pick'[q], now)
    <3>1. PickTyped(pick[q], now)
      BY DEF AffinityInv, AffinityTypes
    <3>2. CASE q = p
      BY <1>0, <1>4, <3>2 DEF PickTyped, AffinityPcs
    <3>3. CASE q # p /\ pick[q].session = prior
      BY <1>5, <3>3
    <3>4. CASE q # p /\ pick[q].session # prior
      BY <1>3, <3>1, <3>4
    <3>5. QED  BY <3>2, <3>3, <3>4
  <2>2. QED  BY <1>0, <1>1, <1>2, <1>3, <2>1 DEF AffinityInv, AffinityTypes
<1>7. ServedIsCached'
  <2>1. ASSUME NEW j \in DOMAIN bound', now <= bound'[j].at + TTL
        PROVE  /\ j \in DOMAIN entries'
               /\ entries'[j].auth = bound'[j].auth
               /\ bound'[j].at + TTL <= entries'[j].until
    BY <1>1, <1>2, <2>1 DEF AffinityInv, ServedIsCached
  <2>2. QED  BY <1>0, <2>1 DEF ServedIsCached
<1>8. ExpectedIsFound'
  <2>1. ASSUME NEW q \in Pickers
        PROVE  Expects(pick[q])'
    <3>1. CASE q = p \/ pick[q].session = prior
      <4>1. pick'[q].expected = {}
        <5>1. CASE q = p
          BY <1>4, <5>1
        <5>2. CASE q # p
          BY <1>5, <3>1, <5>2
        <5>3. QED  BY <5>1, <5>2
      <4>2. QED  BY <4>1 DEF Expects
    <3>2. CASE q # p /\ pick[q].session # prior
      <4>1. pick'[q] = pick[q] /\ Expects(pick[q])
        BY <1>3, <3>2 DEF AffinityInv, ExpectedIsFound
      <4>2. Owner(pick[q].session, now) = Owner(pick[q].session, now)'
        BY <1>0, <1>2, <3>2, <4>1 DEF Owner
      <4>3. QED  BY <4>1, <4>2 DEF Expects
    <3>3. QED  BY <3>1, <3>2
  <2>2. QED  BY <2>1 DEF ExpectedIsFound
<1>9. QED  BY <1>0, <1>6, <1>7, <1>8 DEF AffinityInv, SessionStays

LEMMA CleanupStays ==
    ASSUME AffinityInv, Cleanup
    PROVE  AffinityInv'
<1>0. /\ pick' = pick /\ bound' = bound /\ now' = now /\ moved' = moved
      /\ DOMAIN entries' = {k \in DOMAIN entries : Live(k, now)}
      /\ entries' = [j \in DOMAIN entries' |-> entries'[j]]
      /\ \A j \in DOMAIN entries' : entries'[j] = entries[j]
  BY DEF Cleanup, Restrict, historyVars
<1>1. AffinityTypes'
  BY <1>0 DEF AffinityInv, AffinityTypes
<1>2. ServedIsCached'
  <2>1. ASSUME NEW j \in DOMAIN bound, now <= bound[j].at + TTL
        PROVE  /\ j \in DOMAIN entries'
               /\ entries'[j].auth = bound[j].auth
               /\ bound[j].at + TTL <= entries'[j].until
    <3>1. j \in DOMAIN entries /\ entries[j].auth = bound[j].auth
          /\ bound[j].at + TTL <= entries[j].until
      BY <2>1 DEF AffinityInv, ServedIsCached
    <3>2. Live(j, now)
      BY AffinityAssumption, <2>1, <3>1 DEF Live, AffinityInv, AffinityTypes
    <3>3. QED  BY <1>0, <3>1, <3>2
  <2>2. QED  BY <1>0, <2>1 DEF ServedIsCached
<1>3. ExpectedIsFound'
  BY <1>0 DEF AffinityInv, ExpectedIsFound, Expects, Owner
<1>4. QED  BY <1>0, <1>1, <1>2, <1>3 DEF AffinityInv, SessionStays

LEMMA TickStays ==
    ASSUME AffinityInv, Tick
    PROVE  AffinityInv'
<1>0. /\ bound' = bound /\ entries' = entries /\ moved' = moved /\ now' = now + 1 /\ now \in Nat
      /\ pick' = [p \in Pickers |-> pick'[p]]
      /\ \A p \in Pickers : pick'[p] =
            IF pick[p].pc = "lookup" /\ Owner(pick[p].session, now + 1) = {}
            THEN [pick[p] EXCEPT !.expected = {}] ELSE pick[p]
  BY DEF Tick, historyVars, AffinityInv, AffinityTypes
<1>1. ASSUME NEW p \in Pickers
      PROVE  PickTyped(pick'[p], now + 1)
  <2>1. PickTyped(pick[p], now)
    BY DEF AffinityInv, AffinityTypes
  <2>2. PickTyped(pick[p], now + 1)
    BY <1>0, <2>1 DEF PickTyped
  <2>3. CASE pick'[p] = pick[p]
    BY <2>2, <2>3
  <2>4. CASE pick'[p] = [pick[p] EXCEPT !.expected = {}]
    BY <2>2, <2>4, Unexpected
  <2>5. QED  BY <1>0, <2>3, <2>4
<1>2. AffinityTypes'
  BY <1>0, <1>1 DEF AffinityInv, AffinityTypes
<1>3. ServedIsCached'
  <2>1. ASSUME NEW j \in DOMAIN bound, now + 1 <= bound[j].at + TTL
        PROVE  /\ j \in DOMAIN entries
               /\ entries[j].auth = bound[j].auth
               /\ bound[j].at + TTL <= entries[j].until
    BY AffinityAssumption, <1>0, <2>1 DEF AffinityInv, ServedIsCached, AffinityTypes
  <2>2. QED  BY <1>0, <2>1 DEF ServedIsCached
<1>4. ExpectedIsFound'
  <2>1. ASSUME NEW p \in Pickers
        PROVE  Expects(pick[p])'
    <3>0. PickTyped(pick[p], now) /\ Expects(pick[p])
      BY DEF AffinityInv, AffinityTypes, ExpectedIsFound
    <3>1. CASE pick[p].pc = "lookup" /\ Owner(pick[p].session, now + 1) = {}
      <4>1. pick'[p].expected = {}
        BY <1>0, <3>0, <3>1 DEF PickTyped
      <4>2. QED  BY <4>1 DEF Expects
    <3>2. CASE pick[p].pc = "lookup" /\ Owner(pick[p].session, now + 1) # {}
      <4>1. pick'[p] = pick[p]
        BY <1>0, <3>2
      <4>2. Owner(pick[p].session, now) = Owner(pick[p].session, now)'
        BY AffinityAssumption, <1>0, <3>2, <4>1 DEF Owner, AffinityInv, AffinityTypes
      <4>3. QED  BY <3>0, <4>1, <4>2 DEF Expects
    <3>3. CASE pick[p].pc # "lookup"
      BY <1>0, <3>0, <3>3 DEF Expects
    <3>4. QED  BY <3>1, <3>2, <3>3
  <2>2. QED  BY <2>1 DEF ExpectedIsFound
<1>5. QED  BY <1>0, <1>2, <1>3, <1>4 DEF AffinityInv, SessionStays

LEMMA OthersStay ==
    ASSUME AffinityInv, UNCHANGED <<entries, pick, now, bound, moved>>
    PROVE  AffinityInv'
BY DEF AffinityInv, AffinityTypes, ServedIsCached, ExpectedIsFound, Expects, Owner, SessionStays

LEMMA AffinityHolds == AffinitySpec => []AffinityInv
<1>1. AffinityInit => AffinityInv
  <2> SUFFICES ASSUME AffinityInit PROVE AffinityInv
    OBVIOUS
  <2>1. PickTyped(NoPick, 0)
    BY DEF PickTyped, NoPick, AffinityPcs
  <2>2. AffinityTypes
    BY <2>1 DEF AffinityInit, AffinityTypes
  <2>3. QED
    BY <2>2
       DEF AffinityInit, AffinityInv, ServedIsCached, ExpectedIsFound, Expects, NoPick,
           SessionStays
<1>2. AffinityInv /\ [AffinityNext]_affinityVars => AffinityInv'
  <2> SUFFICES ASSUME AffinityInv, [AffinityNext]_affinityVars PROVE AffinityInv'
    OBVIOUS
  <2>1. CASE \E p \in Pickers :
                \E k \in Sessions \cup {Sessionless}, auths \in SUBSET Auths : StartPick(p, k, auths)
    BY <2>1, BeginStays
  <2>2. CASE \E p \in Pickers : Lookup(p) \/ Inherit(p) \/ Drop(p) \/ Choose(p) \/ Bind(p)
    BY <2>2, LookupStays, InheritStays, DropStays, ChooseStays, BindStays
  <2>3. CASE \E a \in Auths : Block(a) \/ Unblock(a)
    BY <2>3, OthersStay DEF Block, Unblock, historyVars
  <2>4. CASE Cleanup \/ Tick
    BY <2>4, CleanupStays, TickStays
  <2>5. CASE UNCHANGED affinityVars
    BY <2>5, OthersStay DEF affinityVars, historyVars
  <2>6. QED  BY <2>1, <2>2, <2>3, <2>4, <2>5 DEF AffinityNext
<1>3. QED  BY <1>1, <1>2, PTL DEF AffinitySpec

\* A session is moved to another credential for a reason only: nobody has to be
\* told that the cache lost it, since the cache keeps it as long as it was served.
THEOREM SessionsStay == AffinitySpec => []SessionStays
<1>1. AffinityInv => SessionStays
  BY DEF AffinityInv
<1>2. QED  BY AffinityHolds, <1>1, PTL

-----------------------------------------------------------------------------
(* The turns of the round-robin selector: least numbers, places and rounds. *)

\* Every nonempty set of naturals has a least.
LEMMA LeastNat ==
    ASSUME NEW T, T \subseteq Nat, T # {}
    PROVE  \E x \in T : \A y \in T : x <= y
  <1> DEFINE R == {ss \in Nat \X Nat : ss[1] < ss[2]}
  <1>1. IsWellFoundedOn(R, Nat)
    BY NatLessThanWellFounded DEF OpToRel
  <1>2. PICK x \in T : \A y \in T : ~(<<y, x>> \in R)
    <2> HIDE DEF R
    <2> QED
      BY <1>1, WFMin
  <1>3. \A y \in T : ~(y < x)
    BY <1>2
  <1> QED
    BY <1>3

\* The next place, going round.
LEMMA NextPlace ==
    ASSUME NEW n \in Nat \ {0}, NEW t \in Nat
    PROVE  /\ t % n \in 0 .. n - 1
           /\ (t + 1) % n = IF t % n = n - 1 THEN 0 ELSE (t % n) + 1
  <1> DEFINE r == t % n
             d == t \div n
  <1>1. r \in 0 .. n - 1 /\ d \in Nat /\ t = n * d + r
    OBVIOUS
  <1>2. ASSUME NEW q \in Nat, NEW i \in 0 .. n - 1 PROVE (n * q + i) % n = i
    OBVIOUS
  <1> HIDE DEF r, d
  <1>3. CASE r = n - 1
    <2>1. n * (d + 1) = n * d + n /\ n * d \in Nat /\ n * (d + 1) \in Nat
      BY <1>1
    <2>2. t + 1 = n * (d + 1) + 0
      BY <1>1, <1>3, <2>1
    <2>3. (n * (d + 1) + 0) % n = 0
      BY <1>1, <1>2
    <2> QED  BY <1>1, <1>3, <2>2, <2>3 DEF r
  <1>4. CASE r # n - 1
    <2>1. r + 1 \in 0 .. n - 1 /\ n * d \in Nat
      BY <1>1, <1>4
    <2>2. t + 1 = n * d + (r + 1)
      BY <1>1, <2>1
    <2>3. (n * d + (r + 1)) % n = r + 1
      BY <1>1, <1>2, <2>1
    <2> QED  BY <1>1, <1>4, <2>2, <2>3 DEF r
  <1> QED
    BY <1>3, <1>4

\* The place of an element: how many there are before it.
PlaceOf(S, x) == Cardinality({y \in S : y < x})

LEMMA PlacesDiffer ==
    ASSUME NEW S, S \subseteq Nat, IsFiniteSet(S)
    PROVE  /\ Cardinality(S) \in Nat
           /\ \A x \in S : PlaceOf(S, x) \in 0 .. Cardinality(S) - 1
           /\ \A x, y \in S : PlaceOf(S, x) = PlaceOf(S, y) => x = y
  <1> DEFINE B(x) == {y \in S : y < x}
  <1>1. ASSUME NEW x
        PROVE  IsFiniteSet(B(x)) /\ Cardinality(B(x)) \in Nat
    <2>1. B(x) \in SUBSET S
      OBVIOUS
    <2> HIDE DEF B
    <2> QED  BY <2>1, FS_Subset, FS_CardinalityType
  <1>2. Cardinality(S) \in Nat
    BY FS_CardinalityType
  <1>3. ASSUME NEW x \in S PROVE Cardinality(B(x)) < Cardinality(S)
    <2>1. B(x) \in SUBSET S /\ x \notin B(x)
      OBVIOUS
    <2> HIDE DEF B
    <2>2. Cardinality(B(x)) <= Cardinality(S) /\ Cardinality(B(x)) # Cardinality(S)
      BY <2>1, FS_Subset
    <2> QED  BY <1>1, <1>2, <2>2
  <1>4. ASSUME NEW x \in S, NEW y \in S, x < y PROVE Cardinality(B(x)) < Cardinality(B(y))
    <2>1. B(x) \in SUBSET B(y) /\ x \notin B(x) /\ x \in B(y)
      <3>1. x \in Nat /\ y \in Nat /\ \A z \in S : z \in Nat
        OBVIOUS
      <3>2. \A z \in S : z < x => z < y
        BY <1>4, <3>1
      <3>3. ~(x < x)
        BY <3>1
      <3> QED  BY <1>4, <3>2, <3>3
    <2> HIDE DEF B
    <2>2. Cardinality(B(x)) <= Cardinality(B(y)) /\ Cardinality(B(x)) # Cardinality(B(y))
      BY <1>1, <2>1, FS_Subset
    <2> QED  BY <1>1, <2>2
  <1>5. \A x : PlaceOf(S, x) = Cardinality(B(x))
    BY DEF PlaceOf
  <1> HIDE DEF B
  <1>6. \A x \in S : PlaceOf(S, x) \in 0 .. Cardinality(S) - 1
    BY <1>1, <1>2, <1>3, <1>5
  <1>7. ASSUME NEW x \in S, NEW y \in S, PlaceOf(S, x) = PlaceOf(S, y) PROVE x = y
    <2>1. x \in Nat /\ y \in Nat
      OBVIOUS
    <2>2. CASE x < y
      BY <1>1, <1>4, <1>5, <1>7, <2>2
    <2>3. CASE y < x
      BY <1>1, <1>4, <1>5, <1>7, <2>3
    <2> QED  BY <2>1, <2>2, <2>3
  <1> QED
    BY <1>2, <1>6, <1>7

\* Every place is taken: the places of n elements are n.
LEMMA NthIsAtPlace ==
    ASSUME NEW S, S \subseteq Nat, IsFiniteSet(S), NEW i \in 0 .. Cardinality(S) - 1
    PROVE  Nth(S, i) \in S /\ PlaceOf(S, Nth(S, i)) = i
  <1> DEFINE n == Cardinality(S)
             f == [x \in S |-> PlaceOf(S, x)]
  <1>1. n \in Nat
    BY PlacesDiffer
  <1>2. f \in Injection(S, 0 .. n - 1)
    <2>1. f \in [S -> 0 .. n - 1]
      BY PlacesDiffer
    <2>2. \A x, y \in S : f[x] = f[y] => x = y
      BY PlacesDiffer
    <2> HIDE DEF f
    <2> QED  BY <2>1, <2>2 DEF Injection, IsInjective
  <1>3. IsFiniteSet(0 .. n - 1) /\ Cardinality(0 .. n - 1) = n
    <2> HIDE DEF n
    <2>1. 0 \in Int /\ n - 1 \in Int
      BY <1>1
    <2>2. Cardinality(0 .. n - 1) = IF 0 > n - 1 THEN 0 ELSE n - 1 - 0 + 1
      BY <2>1, FS_Interval
    <2> QED  BY <1>1, <2>1, <2>2, FS_Interval
  <1>4. f \in Surjection(S, 0 .. n - 1)
    <2> HIDE DEF f, n
    <2> QED  BY <1>2, <1>3, FS_Injection DEF n
  <1>5. PICK x \in S : f[x] = i
    <2> HIDE DEF f, n
    <2> QED  BY <1>4 DEF Surjection, n
  <1>6. x \in S /\ Cardinality({y \in S : y < x}) = i
    BY <1>5 DEF PlaceOf
  <1>7. Nth(S, i) \in S /\ Cardinality({y \in S : y < Nth(S, i)}) = i
    BY <1>6 DEF Nth
  <1> QED
    BY <1>7 DEF PlaceOf

\* From place s on, going round, before place r.
Passed(s, r, i) == IF s <= r THEN s <= i /\ i < r ELSE s <= i \/ i < r

\* Turns were taken one after the other, of which the next is the one at t:
\* everybody had as many, but those since the last start at s one more.
Evenly(S, c, t) ==
    \E rounds \in Nat, s \in 0 .. Cardinality(S) - 1 :
        \A x \in S : c[x] = rounds + (IF Passed(s, t % Cardinality(S), PlaceOf(S, x)) THEN 1 ELSE 0)

LEMMA EvenAtFirst ==
    ASSUME NEW S, S \subseteq Nat, IsFiniteSet(S), S # {}, NEW c, \A x \in S : c[x] = 0,
           NEW t \in Nat
    PROVE  Evenly(S, c, t)
  <1> DEFINE n == Cardinality(S)
             r == t % n
  <1>1. n \in Nat \ {0}
    BY FS_EmptySet, FS_CardinalityType
  <1>2. r \in 0 .. n - 1
    <2> HIDE DEF n
    <2> QED  BY <1>1, NextPlace
  <1>3. \A x \in S : c[x] = 0 + (IF Passed(r, r, PlaceOf(S, x)) THEN 1 ELSE 0)
    <2>1. \A x \in S : PlaceOf(S, x) \in 0 .. n - 1
      BY PlacesDiffer
    <2> HIDE DEF n, r
    <2> QED  BY <1>1, <1>2, <2>1 DEF Passed
  <1> QED
    BY <1>2, <1>3 DEF Evenly

LEMMA EvenAfter ==
    ASSUME NEW S, S \subseteq Nat, IsFiniteSet(S), S # {}, NEW t \in Nat,
           NEW c, Evenly(S, c, t), NEW d,
           \A x \in S : d[x] = IF x = Nth(S, t % Cardinality(S)) THEN c[x] + 1 ELSE c[x]
    PROVE  Evenly(S, d, t + 1)
  <1> DEFINE n == Cardinality(S)
             r == t % n
             u == (t + 1) % n
             top == Nth(S, r)
             at(x) == PlaceOf(S, x)
  <1>1. n \in Nat \ {0}
    BY FS_EmptySet, FS_CardinalityType
  <1>2. r \in 0 .. n - 1 /\ u = IF r = n - 1 THEN 0 ELSE r + 1
    <2> HIDE DEF n
    <2> QED  BY <1>1, NextPlace
  <1>3. top \in S /\ at(top) = r
    <2> HIDE DEF r
    <2> QED  BY <1>2, NthIsAtPlace
  <1>4. /\ \A x \in S : at(x) \in 0 .. n - 1
        /\ \A x \in S : x # top => at(x) # r
    BY <1>3, PlacesDiffer
  <1>5. PICK rounds \in Nat, s \in 0 .. n - 1 :
           \A x \in S : c[x] = rounds + (IF Passed(s, r, at(x)) THEN 1 ELSE 0)
    BY DEF Evenly
  <1>6. \A x \in S : d[x] = IF x = top THEN c[x] + 1 ELSE c[x]
    OBVIOUS
  <1> HIDE DEF n, r, u, top, at
  <1>7. CASE u = s
    <2>1. \A x \in S : d[x] = (rounds + 1) + (IF Passed(s, u, at(x)) THEN 1 ELSE 0)
      <3> SUFFICES ASSUME NEW x \in S
                   PROVE  d[x] = (rounds + 1) + (IF Passed(s, u, at(x)) THEN 1 ELSE 0)
        OBVIOUS
      <3>1. at(x) \in 0 .. n - 1 /\ (x = top => at(x) = r) /\ (x # top => at(x) # r)
        BY <1>3, <1>4
      <3>2. Passed(s, r, at(x)) <=> x # top
        BY <1>1, <1>2, <1>7, <3>1 DEF Passed
      <3>3. ~Passed(s, u, at(x))
        BY <1>1, <1>7, <3>1 DEF Passed
      <3>4. CASE x = top
        BY <1>5, <1>6, <3>2, <3>3, <3>4
      <3>5. CASE x # top
        BY <1>5, <1>6, <3>2, <3>3, <3>5
      <3> QED  BY <3>4, <3>5
    <2> DEFINE more == rounds + 1
    <2>2. more \in Nat /\ \A x \in S : d[x] = more + (IF Passed(s, u, at(x)) THEN 1 ELSE 0)
      BY <2>1
    <2> HIDE DEF more
    <2> QED  BY <2>2 DEF Evenly, n, u, at
  <1>8. CASE u # s
    <2>1. \A x \in S : d[x] = rounds + (IF Passed(s, u, at(x)) THEN 1 ELSE 0)
      <3> SUFFICES ASSUME NEW x \in S
                   PROVE  d[x] = rounds + (IF Passed(s, u, at(x)) THEN 1 ELSE 0)
        OBVIOUS
      <3>1. at(x) \in 0 .. n - 1 /\ (x = top => at(x) = r) /\ (x # top => at(x) # r)
        BY <1>3, <1>4
      <3>2. Passed(s, u, at(x)) <=> (x = top \/ Passed(s, r, at(x)))
        BY <1>1, <1>2, <1>8, <3>1 DEF Passed
      <3>3. x = top => ~Passed(s, r, at(x))
        BY <1>1, <1>2, <3>1 DEF Passed
      <3> QED  BY <1>5, <1>6, <3>2, <3>3
    <2> QED  BY <2>1 DEF Evenly, n, u, at
  <1> QED
    BY <1>7, <1>8

LEMMA EvenSame ==
    ASSUME NEW S, NEW c, NEW d, NEW t, Evenly(S, c, t), \A x \in S : d[x] = c[x]
    PROVE  Evenly(S, d, t)
  BY DEF Evenly

LEMMA EvenDiffers ==
    ASSUME NEW S, NEW c, NEW t, Evenly(S, c, t), NEW x \in S, NEW y \in S
    PROVE  c[x] - c[y] \in -1 .. 1
  <1>1. PICK rounds \in Nat : \A z \in S : c[z] = rounds \/ c[z] = rounds + 1
    <2>1. PICK rounds \in Nat, s \in 0 .. Cardinality(S) - 1 :
        \A z \in S : c[z] = rounds + (IF Passed(s, t % Cardinality(S), PlaceOf(S, z)) THEN 1 ELSE 0)
      BY DEF Evenly
    <2> QED  BY <2>1
  <1> QED
    BY <1>1

-----------------------------------------------------------------------------
(* The turns of a group. *)

TurnsAsPairs(c, S) == UNION {{a} \X (1 .. c[a]) : a \in S}
TurnsOf(c, S) == Cardinality(TurnsAsPairs(c, S))

LEMMA PairsAre ==
    ASSUME NEW S, NEW c, NEW t
    PROVE  t \in TurnsAsPairs(c, S) <=> \E a \in S : \E i \in 1 .. c[a] : t = <<a, i>>
  BY DEF TurnsAsPairs

LEMMA PairsFinite ==
    ASSUME NEW S, IsFiniteSet(S), NEW c, \A a \in S : c[a] \in Nat
    PROVE  IsFiniteSet(TurnsAsPairs(c, S)) /\ TurnsOf(c, S) \in Nat
  <1> DEFINE P(a) == {a} \X (1 .. c[a])
             f == [a \in S |-> P(a)]
             T == {P(a) : a \in S}
  <1>1. \A a \in S : IsFiniteSet(P(a))
    <2> SUFFICES ASSUME NEW a \in S PROVE IsFiniteSet({a} \X (1 .. c[a]))
      OBVIOUS
    <2>1. IsFiniteSet(1 .. c[a])
      BY FS_Interval
    <2> QED  BY <2>1, FS_Singleton, FS_Product
  <1> HIDE DEF P
  <1>2. f \in Surjection(S, T)
    BY DEF Surjection
  <1>3. IsFiniteSet(T)
    <2> HIDE DEF f, T
    <2> QED  BY <1>2, FS_Surjection
  <1>4. IsFiniteSet(UNION T)
    <2>1. \A t \in T : IsFiniteSet(t)
      BY <1>1
    <2> HIDE DEF T
    <2> QED  BY <1>3, <2>1, FS_UNION
  <1>5. TurnsAsPairs(c, S) = UNION T
    BY DEF TurnsAsPairs, P
  <1> QED
    BY <1>4, <1>5, FS_CardinalityType DEF TurnsOf

LEMMA TurnsNone ==
    ASSUME NEW S, NEW c, \A a \in S : c[a] = 0
    PROVE  TurnsOf(c, S) = 0
  <1>1. \A t : t \notin TurnsAsPairs(c, S)
    <2> SUFFICES ASSUME NEW t, t \in TurnsAsPairs(c, S) PROVE FALSE
      OBVIOUS
    <2>1. PICK a \in S : \E i \in 1 .. c[a] : t = <<a, i>>
      BY PairsAre
    <2>2. c[a] = 0
      OBVIOUS
    <2> QED  BY <2>1, <2>2
  <1>2. TurnsAsPairs(c, S) = {}
    BY <1>1
  <1> QED
    BY <1>2, FS_EmptySet DEF TurnsOf

LEMMA TurnsSame ==
    ASSUME NEW S, NEW c, NEW d, \A a \in S : c[a] = d[a]
    PROVE  TurnsOf(c, S) = TurnsOf(d, S)
  <1>1. \A t : t \in TurnsAsPairs(c, S) <=> t \in TurnsAsPairs(d, S)
    BY PairsAre
  <1>2. TurnsAsPairs(c, S) = TurnsAsPairs(d, S)
    BY <1>1
  <1> QED
    BY <1>2 DEF TurnsOf

LEMMA TurnsMore ==
    ASSUME NEW S, IsFiniteSet(S), NEW c, \A a \in S : c[a] \in Nat, NEW x \in S, NEW d,
           d[x] = c[x] + 1, \A a \in S \ {x} : d[a] = c[a]
    PROVE  TurnsOf(d, S) = TurnsOf(c, S) + 1
  <1> DEFINE new == <<x, c[x] + 1>>
             C == TurnsAsPairs(c, S)
             D == TurnsAsPairs(d, S)
  <1>1. c[x] \in Nat
    OBVIOUS
  <1>2. new \notin C
    <2>1. ASSUME NEW a \in S, NEW i \in 1 .. c[a], new = <<a, i>> PROVE FALSE
      <3>1. a = x /\ i = c[x] + 1
        BY <2>1
      <3> QED  BY <1>1, <3>1
    <2> HIDE DEF new
    <2> QED  BY <2>1, PairsAre
  <1>3. D = C \cup {new}
    <2>1. ASSUME NEW t, t \in D PROVE t \in C \cup {new}
      <3>0. PICK a \in S : \E i \in 1 .. d[a] : t = <<a, i>>
        BY <2>1, PairsAre
      <3>1. PICK i \in 1 .. d[a] : t = <<a, i>>
        BY <3>0
      <3>2. CASE a = x /\ i = c[x] + 1
        BY <3>1, <3>2
      <3>3. CASE ~(a = x /\ i = c[x] + 1)
        <4>1. i \in 1 .. c[a]
          BY <1>1, <3>1, <3>3
        <4> HIDE DEF C
        <4> QED  BY <3>1, <4>1, PairsAre DEF C
      <3> QED  BY <3>2, <3>3
    <2>2. ASSUME NEW t, t \in C PROVE t \in D
      <3>0. PICK a \in S : \E i \in 1 .. c[a] : t = <<a, i>>
        BY <2>2, PairsAre
      <3>1. PICK i \in 1 .. c[a] : t = <<a, i>>
        BY <3>0
      <3>2. i \in 1 .. d[a]
        <4>1. c[a] \in Nat /\ (d[a] = c[a] \/ d[a] = c[a] + 1)
          OBVIOUS
        <4> QED  BY <3>1, <4>1
      <3> QED  BY <3>1, <3>2, PairsAre
    <2>3. new \in D
      <3>1. c[x] + 1 \in 1 .. d[x]
        BY <1>1
      <3> QED  BY <3>1, PairsAre
    <2> HIDE DEF C, D, new
    <2> QED  BY <2>1, <2>2, <2>3
  <1>4. IsFiniteSet(C) /\ Cardinality(C) \in Nat
    BY PairsFinite DEF TurnsOf
  <1>5. Cardinality(C \cup {new}) = Cardinality(C) + 1
    <2> HIDE DEF C, new
    <2> QED  BY <1>2, <1>4, FS_AddElement
  <1> QED
    BY <1>3, <1>5 DEF TurnsOf

-----------------------------------------------------------------------------
(* The turns of the credentials. *)

\* The credentials of the highest priority: there is one if any is free.
LEMMA SomeAvailable ==
    ASSUME layout \in Layouts, NEW auths \in SUBSET Auths, auths \ blocked # {}
    PROVE  Available(auths) # {}
  <1> DEFINE free == auths \ blocked
             Above(a) == {b \in free : layout.priority[a] < layout.priority[b]}
             Counts == {Cardinality(Above(a)) : a \in free}
  <1>1. \A a \in Auths : layout.priority[a] \in Nat
    BY AffinityAssumption
  <1>2. IsFiniteSet(free)
    <2>1. free \in SUBSET Auths
      OBVIOUS
    <2> HIDE DEF free
    <2> QED  BY <2>1, AffinityAssumption, FS_Subset
  <1>3. ASSUME NEW a \in free
        PROVE  IsFiniteSet(Above(a)) /\ Cardinality(Above(a)) \in Nat
    <2>1. Above(a) \in SUBSET free
      OBVIOUS
    <2> HIDE DEF free, Above
    <2> QED  BY <1>2, <2>1, FS_Subset, FS_CardinalityType
  <1>4. Counts \subseteq Nat /\ Counts # {}
    <2> HIDE DEF Above
    <2> QED  BY <1>3
  <1>5. PICK a \in free : \A b \in free : Cardinality(Above(a)) <= Cardinality(Above(b))
    <2>1. PICK c \in Counts : \A d \in Counts : c <= d
      <3> HIDE DEF Counts
      <3> QED  BY <1>4, LeastNat
    <2> HIDE DEF Above, free
    <2> QED  BY <2>1
  <1>6. ASSUME NEW b \in free, layout.priority[a] < layout.priority[b] PROVE FALSE
    <2>1. a \in Auths /\ b \in Auths
      OBVIOUS
    <2>2. Above(b) \in SUBSET Above(a) /\ b \in Above(a) /\ b \notin Above(b)
      BY <1>1, <1>6, <2>1
    <2> HIDE DEF Above, free
    <2>3. Cardinality(Above(b)) <= Cardinality(Above(a))
          /\ Cardinality(Above(b)) # Cardinality(Above(a))
      BY <1>3, <2>2, FS_Subset
    <2> QED  BY <1>3, <1>5, <2>3
  <1>7. \A b \in free : layout.priority[b] <= layout.priority[a]
    BY <1>1, <1>6
  <1> QED
    BY <1>7 DEF Available

Group(list, g) == {a \in list : layout.parent[a] = g}

LEMMA GroupsAre ==
    ASSUME layout \in Layouts, NEW list \in SUBSET Auths
    PROVE  /\ IsFiniteSet(list) /\ list \subseteq Nat
           /\ IsFiniteSet(ParentsOf(list)) /\ ParentsOf(list) \subseteq Nat
           /\ \A g \in ParentsOf(list) :
                 /\ Group(list, g) # {} /\ Group(list, g) \in SUBSET Auths
                 /\ IsFiniteSet(Group(list, g)) /\ Group(list, g) \subseteq Nat
                 /\ g # 0 /\ \E a \in Auths : layout.parent[a] = g
           /\ ParentsOf(list) # {} =>
                 \A a \in list : layout.parent[a] \in ParentsOf(list)
  <1>1. \A a \in Auths : layout.parent[a] \in Nat
    BY AffinityAssumption
  <1>2. IsFiniteSet(list) /\ list \subseteq Nat
    BY AffinityAssumption, FS_Subset
  <1> DEFINE f == [a \in list |-> layout.parent[a]]
             T == {layout.parent[a] : a \in list}
  <1>3. IsFiniteSet(T)
    <2>1. f \in Surjection(list, T)
      BY DEF Surjection
    <2> HIDE DEF f, T
    <2> QED  BY <1>2, <2>1, FS_Surjection
  <1>4. IsFiniteSet(ParentsOf(list)) /\ ParentsOf(list) \subseteq Nat
    BY <1>1, <1>3, FS_EmptySet DEF ParentsOf
  <1>5. ASSUME NEW g \in ParentsOf(list)
        PROVE  /\ Group(list, g) # {} /\ Group(list, g) \in SUBSET Auths
               /\ IsFiniteSet(Group(list, g)) /\ Group(list, g) \subseteq Nat
               /\ g # 0 /\ \E a \in Auths : layout.parent[a] = g
    <2>1. PICK a \in list : g = layout.parent[a] /\ layout.parent[a] # 0
      BY DEF ParentsOf
    <2>2. Group(list, g) \in SUBSET list /\ a \in Group(list, g)
      BY <2>1 DEF Group
    <2>3. IsFiniteSet(Group(list, g))
      BY <1>2, <2>2, FS_Subset
    <2> QED  BY <1>2, <2>1, <2>2, <2>3
  <1>6. ParentsOf(list) # {} => \A a \in list : layout.parent[a] \in ParentsOf(list)
    BY DEF ParentsOf
  <1> QED
    BY <1>2, <1>4, <1>5, <1>6

LEMMA KeysDiffer ==
    ASSUME layout \in Layouts, NEW list \in SUBSET Auths
    PROVE  /\ \A g \in ParentsOf(list) : CredKey[g] # "group"
           /\ \A g, h \in ParentsOf(list) : CredKey[g] = CredKey[h] => g = h
  BY GroupsAre, AffinityAssumption

\* The turns of each group.
ByGroup(list, count) == [g \in ParentsOf(list) |-> TurnsOf(count, Group(list, g))]

\* The group's turn is the group cursor's, and in each group it is its own
\* cursor's.
GroupsEven(list, count, curs) ==
    /\ "group" \in DOMAIN curs
    /\ Evenly(ParentsOf(list), ByGroup(list, count), curs["group"])
    /\ \A g \in ParentsOf(list) :
          IF CredKey[g] \in DOMAIN curs
          THEN Evenly(Group(list, g), count, curs[CredKey[g]])
          ELSE \A a \in Group(list, g) : count[a] = 0

EvenSoFar(list, count, curs) ==
    IF Cardinality(ParentsOf(list)) > 1
    THEN GroupsEven(list, count, curs)
    ELSE "flat" \in DOMAIN curs /\ Evenly(list, count, curs["flat"])

CursorsMoved == \A k \in DOMAIN cursors : cursors[k] \in Nat \ {0}
TurnsEven ==
    /\ turns.list \in SUBSET Auths
    /\ turns = [list |-> turns.list, count |-> turns.count]
    /\ turns.count = [a \in turns.list |-> turns.count[a]]
    /\ \A a \in turns.list : turns.count[a] \in Nat
    /\ turns.list # {} => EvenSoFar(turns.list, turns.count, cursors)
\* Whoever picks has something to pick from: nothing is blocked meanwhile.
SomethingToPick ==
    \A p \in Pickers : pick[p].pc # "idle" => pick[p].auths \ blocked # {}
EvenInv == layout \in Layouts /\ SomethingToPick /\ CursorsMoved /\ TurnsEven

LEMMA CursorIs ==
    ASSUME CursorsMoved, NEW k
    PROVE  /\ Cursor(k) \in Nat
           /\ (Cursor(k) # 0 \/ k \notin DOMAIN cursors) =>
                 IF k \in DOMAIN cursors THEN Cursor(k) = cursors[k] ELSE Cursor(k) = 0
  BY DEF CursorsMoved, Cursor

\* What was counted before a credential is given, and the turns counted.
Counted(list, used) ==
    IF turns.list = list /\ \A k \in DOMAIN used : used[k] # 0 \/ k \notin DOMAIN cursors
    THEN turns.count ELSE [b \in list |-> 0]

Given(list, a, used) ==
    /\ CursorsMoved'
    /\ DOMAIN cursors' = DOMAIN used \cup DOMAIN cursors
    /\ \A k \in DOMAIN used : cursors'[k] = used[k] + 1
    /\ \A k \in DOMAIN cursors \ DOMAIN used : cursors'[k] = cursors[k]
    /\ \A b \in list : Counted(list, used)[b] \in Nat
    /\ turns'.list = list
    /\ \A b \in list :
          turns'.count[b] = IF b = a THEN Counted(list, used)[b] + 1
                            ELSE Counted(list, used)[b]
    /\ turns' = [list |-> turns'.list, count |-> turns'.count]
    /\ turns'.count = [b \in turns'.list |-> turns'.count[b]]
    /\ \A b \in turns'.list : turns'.count[b] \in Nat

LEMMA GivesIs ==
    ASSUME CursorsMoved, TurnsEven, NEW list \in SUBSET Auths, NEW a \in list,
           NEW used, \A k \in DOMAIN used : used[k] \in Nat, Gives(list, a, used)
    PROVE  Given(list, a, used)
  <1> DEFINE c == Counted(list, used)
  <1>1. DOMAIN c = list /\ \A b \in list : c[b] \in Nat
    BY DEF Counted, TurnsEven
  <1>2. /\ cursors' = [k \in DOMAIN used \cup DOMAIN cursors |->
                          IF k \in DOMAIN used THEN used[k] + 1 ELSE cursors[k]]
        /\ turns' = [list |-> list, count |-> [c EXCEPT ![a] = @ + 1]]
    BY DEF Gives, Counted
  <1> HIDE DEF c
  <1>3. /\ DOMAIN cursors' = DOMAIN used \cup DOMAIN cursors
        /\ \A k \in DOMAIN used : cursors'[k] = used[k] + 1
        /\ \A k \in DOMAIN cursors \ DOMAIN used : cursors'[k] = cursors[k]
    BY <1>2
  <1>4. CursorsMoved'
    <2>1. \A k \in DOMAIN used : used[k] + 1 \in Nat \ {0}
      OBVIOUS
    <2> QED  BY <1>3, <2>1 DEF CursorsMoved
  <1>5. [c EXCEPT ![a] = @ + 1] = [b \in list |-> IF b = a THEN c[b] + 1 ELSE c[b]]
    BY <1>1
  <1>6. /\ turns'.list = list
        /\ \A b \in list : turns'.count[b] = IF b = a THEN c[b] + 1 ELSE c[b]
        /\ turns' = [list |-> turns'.list, count |-> turns'.count]
        /\ turns'.count = [b \in list |-> turns'.count[b]]
    BY <1>2, <1>5
  <1>7. \A b \in list : turns'.count[b] \in Nat
    BY <1>1, <1>6
  <1> QED
    BY <1>1, <1>3, <1>4, <1>6, <1>7 DEF c, Given

LEMMA InTurnEven ==
    ASSUME layout \in Layouts, layout' = layout, CursorsMoved, TurnsEven,
           NEW list \in SUBSET Auths, list # {}, Cardinality(ParentsOf(list)) <= 1,
           NEW a, InTurn(list, a)
    PROVE  CursorsMoved' /\ TurnsEven'
  <1> DEFINE i == Cursor("flat")
             used == [k \in {"flat"} |-> i]
             c == Counted(list, used)
  <1>1. i \in Nat /\ DOMAIN used = {"flat"} /\ used["flat"] = i
    BY CursorIs
  <1>2. list \subseteq Nat /\ IsFiniteSet(list) /\ Cardinality(ParentsOf(list)) \in Nat
    BY GroupsAre, FS_CardinalityType
  <1>3. a = Nth(list, i % Cardinality(list)) /\ Gives(list, a, used)
    BY DEF InTurn
  <1> HIDE DEF i, used, c
  <1>4. a \in list
    <2>1. Cardinality(list) \in Nat \ {0}
      BY <1>2, FS_EmptySet, FS_CardinalityType
    <2>2. i % Cardinality(list) \in 0 .. Cardinality(list) - 1
      BY <1>1, <2>1, NextPlace
    <2> QED  BY <1>2, <1>3, <2>2, NthIsAtPlace
  <1>5. /\ CursorsMoved'
        /\ "flat" \in DOMAIN cursors' /\ cursors'["flat"] = i + 1
        /\ turns'.list = list
        /\ \A b \in list : turns'.count[b] = IF b = a THEN c[b] + 1 ELSE c[b]
        /\ turns' = [list |-> turns'.list, count |-> turns'.count]
        /\ turns'.count = [b \in turns'.list |-> turns'.count[b]]
        /\ \A b \in turns'.list : turns'.count[b] \in Nat
    <2>1. \A k \in DOMAIN used : used[k] \in Nat
      BY <1>1
    <2>2. /\ CursorsMoved'
          /\ DOMAIN cursors' = DOMAIN used \cup DOMAIN cursors
          /\ \A k \in DOMAIN used : cursors'[k] = used[k] + 1
          /\ turns'.list = list
          /\ \A b \in list : turns'.count[b] = IF b = a THEN c[b] + 1 ELSE c[b]
          /\ turns' = [list |-> turns'.list, count |-> turns'.count]
          /\ turns'.count = [b \in turns'.list |-> turns'.count[b]]
          /\ \A b \in turns'.list : turns'.count[b] \in Nat
      <3>1. Given(list, a, used)
        BY <1>3, <1>4, <2>1, GivesIs
      <3> QED  BY <3>1 DEF Given, c
    <2> QED  BY <1>1, <2>2
  <1>6. Evenly(list, c, i)
    <2>1. CASE turns.list = list /\ (i # 0 \/ "flat" \notin DOMAIN cursors)
      <3>1. c = turns.count
        BY <1>1, <2>1 DEF Counted, c
      <3>2. "flat" \in DOMAIN cursors /\ Evenly(list, turns.count, cursors["flat"])
        BY <1>2, <2>1 DEF TurnsEven, EvenSoFar
      <3>3. i = cursors["flat"]
        BY <2>1, <3>2, CursorIs DEF i
      <3> QED  BY <3>1, <3>2, <3>3
    <2>2. CASE ~(turns.list = list /\ (i # 0 \/ "flat" \notin DOMAIN cursors))
      <3>1. c = [b \in list |-> 0]
        BY <1>1, <2>2 DEF Counted, c
      <3> QED  BY <1>1, <1>2, <3>1, EvenAtFirst
    <2> QED  BY <2>1, <2>2
  <1>7. Evenly(list, turns'.count, i + 1)
    BY <1>1, <1>2, <1>3, <1>5, <1>6, EvenAfter
  <1> QED
    BY <1>2, <1>5, <1>7 DEF TurnsEven, EvenSoFar, ParentsOf

LEMMA GroupInTurnEven ==
    ASSUME layout \in Layouts, layout' = layout, CursorsMoved, TurnsEven,
           NEW list \in SUBSET Auths, list # {}, Cardinality(ParentsOf(list)) > 1,
           NEW a, GroupInTurn(list, a)
    PROVE  CursorsMoved' /\ TurnsEven'
  <1> DEFINE parents == ParentsOf(list)
             n == Cardinality(parents)
             starts == IF "group" \in DOMAIN cursors THEN {Cursor("group")} ELSE 0 .. n - 1
             Parent(g) == Nth(parents, g % n)
             Inner(g) == CredKey[Parent(g)]
             Used(g) == [k \in {"group", Inner(g)} |->
                            IF k = "group" THEN g ELSE Cursor(Inner(g))]
  <1>1. /\ n \in Nat \ {0} /\ parents \subseteq Nat /\ IsFiniteSet(parents) /\ parents # {}
        /\ list \subseteq Nat /\ IsFiniteSet(list)
    <2>1. parents \subseteq Nat /\ IsFiniteSet(parents) /\ list \subseteq Nat /\ IsFiniteSet(list)
      BY GroupsAre
    <2>2. n \in Nat
      BY <2>1, FS_CardinalityType
    <2> QED  BY <2>1, <2>2, FS_EmptySet
  <1>2. PICK g \in starts :
           /\ a = Nth(Group(list, Parent(g)),
                      Cursor(Inner(g)) % Cardinality(Group(list, Parent(g))))
           /\ Gives(list, a, Used(g))
    BY DEF GroupInTurn, Group
  <1> DEFINE parent == Parent(g)
             key == Inner(g)
             i == Cursor(key)
             used == Used(g)
             group == Group(list, parent)
             c == Counted(list, used)
  <1>3. g \in Nat
    BY <1>1, CursorIs
  <1>4. parent \in parents /\ parent = Nth(parents, g % n)
    <2>1. g % n \in 0 .. n - 1
      <3> HIDE DEF n
      <3> QED  BY <1>1, <1>3, NextPlace
    <2> QED  BY <1>1, <2>1, NthIsAtPlace
  <1>5. /\ key # "group" /\ i \in Nat
        /\ \A h \in parents : (CredKey[h] = key <=> h = parent) /\ CredKey[h] # "group"
    <2>1. key = CredKey[parent]
      OBVIOUS
    <2> HIDE DEF parent, key
    <2> QED  BY <1>4, <2>1, KeysDiffer, CursorIs
  <1>6. DOMAIN used = {"group", key} /\ used["group"] = g /\ used[key] = i
    <2> HIDE DEF key
    <2> QED  BY <1>5 DEF key
  <1>7. /\ group \subseteq list /\ group \subseteq Nat /\ IsFiniteSet(group) /\ group # {}
        /\ \A b \in list : b \in group <=> layout.parent[b] = parent
        /\ \A h \in parents : Group(list, h) \subseteq list /\ IsFiniteSet(Group(list, h))
        /\ \A b \in list : layout.parent[b] \in parents
        /\ \A h \in parents : \A b \in Group(list, h) : layout.parent[b] = h
    <2> HIDE DEF parent
    <2> QED  BY <1>1, <1>4, GroupsAre DEF Group
  <1>8. a = Nth(group, i % Cardinality(group)) /\ Gives(list, a, used)
    BY <1>2
  <1>9. starts = IF "group" \in DOMAIN cursors THEN {Cursor("group")} ELSE 0 .. n - 1
    OBVIOUS
  <1> HIDE DEF parents, n, starts, Parent, Inner, Used, parent, key, i, used, group, c
  <1>10. a \in group /\ a \in list
    <2>1. Cardinality(group) \in Nat \ {0}
      BY <1>7, FS_EmptySet, FS_CardinalityType
    <2>2. i % Cardinality(group) \in 0 .. Cardinality(group) - 1
      BY <1>5, <2>1, NextPlace
    <2> QED  BY <1>7, <1>8, <2>2, NthIsAtPlace
  <1>11. /\ CursorsMoved'
         /\ "group" \in DOMAIN cursors' /\ cursors'["group"] = g + 1
         /\ key \in DOMAIN cursors' /\ cursors'[key] = i + 1
         /\ \A k : k # "group" /\ k # key =>
               /\ k \in DOMAIN cursors' <=> k \in DOMAIN cursors
               /\ k \in DOMAIN cursors => cursors'[k] = cursors[k]
         /\ turns'.list = list
         /\ \A b \in list : c[b] \in Nat
         /\ \A b \in list : turns'.count[b] = IF b = a THEN c[b] + 1 ELSE c[b]
         /\ turns' = [list |-> turns'.list, count |-> turns'.count]
         /\ turns'.count = [b \in turns'.list |-> turns'.count[b]]
         /\ \A b \in turns'.list : turns'.count[b] \in Nat
    <2>1. \A k \in DOMAIN used : used[k] \in Nat
      BY <1>3, <1>5, <1>6
    <2>2. /\ CursorsMoved'
          /\ DOMAIN cursors' = DOMAIN used \cup DOMAIN cursors
          /\ \A k \in DOMAIN used : cursors'[k] = used[k] + 1
          /\ \A k \in DOMAIN cursors \ DOMAIN used : cursors'[k] = cursors[k]
          /\ turns'.list = list
          /\ \A b \in list : c[b] \in Nat
          /\ \A b \in list : turns'.count[b] = IF b = a THEN c[b] + 1 ELSE c[b]
          /\ turns' = [list |-> turns'.list, count |-> turns'.count]
          /\ turns'.count = [b \in turns'.list |-> turns'.count[b]]
          /\ \A b \in turns'.list : turns'.count[b] \in Nat
      <3>1. Given(list, a, used)
        BY <1>8, <1>10, <2>1, GivesIs
      <3> QED  BY <3>1 DEF Given, c
    <2> QED  BY <1>6, <2>2
  <1>12. /\ Evenly(parents, ByGroup(list, c), g)
         /\ Evenly(group, c, i)
         /\ \A h \in parents \ {parent} :
               IF CredKey[h] \in DOMAIN cursors
               THEN Evenly(Group(list, h), c, cursors[CredKey[h]])
               ELSE \A b \in Group(list, h) : c[b] = 0
    <2>1. CASE turns.list = list /\ \A k \in DOMAIN used : used[k] # 0 \/ k \notin DOMAIN cursors
      <3>1. c = turns.count
        BY <2>1 DEF Counted, c
      <3>2. GroupsEven(list, c, cursors)
        BY <2>1, <3>1 DEF TurnsEven, EvenSoFar
      <3>3. "group" \in DOMAIN cursors /\ g # 0 /\ g = cursors["group"]
        <4>1. "group" \in DOMAIN cursors
          BY <3>2 DEF GroupsEven
        <4>2. g = Cursor("group") /\ g # 0
          BY <1>6, <1>9, <2>1, <4>1
        <4> QED  BY <4>1, <4>2, CursorIs
      <3>4. key \in DOMAIN cursors => i = cursors[key]
        <4> SUFFICES ASSUME key \in DOMAIN cursors PROVE i = cursors[key]
          OBVIOUS
        <4>1. i # 0
          BY <1>6, <2>1
        <4> QED  BY <4>1, CursorIs DEF i
      <3>5. Evenly(group, c, i)
        <4>1. CASE key \in DOMAIN cursors
          BY <1>4, <1>5, <3>2, <3>4, <4>1 DEF GroupsEven, group, parents
        <4>2. CASE key \notin DOMAIN cursors
          <5>1. \A b \in group : c[b] = 0
            BY <1>4, <1>5, <3>2, <4>2 DEF GroupsEven, group, parents
          <5> QED  BY <1>5, <1>7, <5>1, EvenAtFirst
        <4> QED  BY <4>1, <4>2
      <3> QED  BY <3>2, <3>3, <3>5 DEF GroupsEven, parents
    <2>2. CASE ~(turns.list = list /\ \A k \in DOMAIN used : used[k] # 0 \/ k \notin DOMAIN cursors)
      <3>1. c = [b \in list |-> 0]
        BY <2>2 DEF Counted, c
      <3>2. \A b \in list : c[b] = 0
        BY <3>1
      <3>3. \A h \in parents : ByGroup(list, c)[h] = 0
        BY <1>7, <3>2, TurnsNone DEF ByGroup, parents
      <3>4. Evenly(parents, ByGroup(list, c), g)
        BY <1>1, <1>3, <3>3, EvenAtFirst
      <3>5. Evenly(group, c, i)
        BY <1>5, <1>7, <3>2, EvenAtFirst
      <3>6. ASSUME NEW h \in parents
            PROVE  IF CredKey[h] \in DOMAIN cursors
                   THEN Evenly(Group(list, h), c, cursors[CredKey[h]])
                   ELSE \A b \in Group(list, h) : c[b] = 0
        <4>1. Group(list, h) # {} /\ Group(list, h) \subseteq Nat /\ IsFiniteSet(Group(list, h))
          BY GroupsAre DEF parents
        <4>2. \A b \in Group(list, h) : c[b] = 0
          BY <1>7, <3>2
        <4>3. CredKey[h] \in DOMAIN cursors => cursors[CredKey[h]] \in Nat
          BY DEF CursorsMoved
        <4> QED  BY <4>1, <4>2, <4>3, EvenAtFirst
      <3> QED  BY <3>4, <3>5, <3>6
    <2> QED  BY <2>1, <2>2
  <1> DEFINE d == turns'.count
  <1>13. Evenly(parents, ByGroup(list, d), g + 1)
    <2>1. ASSUME NEW h \in parents, h # parent
          PROVE  ByGroup(list, d)[h] = ByGroup(list, c)[h]
      <3>1. \A b \in Group(list, h) : c[b] = d[b]
        BY <1>7, <1>10, <1>11, <2>1
      <3> QED  BY <3>1, TurnsSame DEF ByGroup, parents
    <2>2. ByGroup(list, d)[parent] = ByGroup(list, c)[parent] + 1
      <3>1. /\ \A b \in group : c[b] \in Nat
            /\ d[a] = c[a] + 1
            /\ \A b \in group \ {a} : d[b] = c[b]
        BY <1>7, <1>10, <1>11
      <3>2. TurnsOf(d, group) = TurnsOf(c, group) + 1
        <4> HIDE DEF d
        <4> QED  BY <1>7, <1>10, <3>1, TurnsMore
      <3> QED  BY <1>4, <3>2 DEF ByGroup, parents, group
    <2> HIDE DEF d
    <2>3. \A h \in parents :
             ByGroup(list, d)[h] = IF h = Nth(parents, g % Cardinality(parents))
                                   THEN ByGroup(list, c)[h] + 1 ELSE ByGroup(list, c)[h]
      BY <1>4, <2>1, <2>2 DEF n
    <2> QED  BY <1>1, <1>3, <1>12, <2>3, EvenAfter
  <1>14. Evenly(group, d, i + 1)
    <2>1. \A b \in group : d[b] = IF b = Nth(group, i % Cardinality(group))
                                  THEN c[b] + 1 ELSE c[b]
      BY <1>7, <1>8, <1>11
    <2> HIDE DEF d
    <2> QED  BY <1>5, <1>7, <1>12, <2>1, EvenAfter
  <1>15. ASSUME NEW h \in parents
         PROVE  IF CredKey[h] \in DOMAIN cursors'
                THEN Evenly(Group(list, h), d, cursors'[CredKey[h]])
                ELSE \A b \in Group(list, h) : d[b] = 0
    <2>1. CASE h = parent
      BY <1>5, <1>11, <1>14, <2>1 DEF group
    <2>2. CASE h # parent
      <3>1. \A b \in Group(list, h) : d[b] = c[b]
        BY <1>7, <1>10, <1>11, <2>2
      <3>2. CredKey[h] # "group" /\ CredKey[h] # key
        BY <1>5, <2>2
      <3> HIDE DEF d
      <3> QED  BY <1>11, <1>12, <2>2, <3>1, <3>2, EvenSame
    <2> QED  BY <2>1, <2>2
  <1>16. GroupsEven(list, d, cursors')
    BY <1>11, <1>13, <1>15 DEF GroupsEven, parents
  <1>17. GroupsEven(turns.list, turns.count, cursors)'
    <2>1. ParentsOf(turns.list)' = parents
      BY <1>11 DEF ParentsOf, parents
    <2>2. \A h : Group(turns.list, h)' = Group(list, h)
      BY <1>11 DEF Group
    <2>3. ByGroup(turns.list, turns.count)' = ByGroup(list, d)
      BY <2>1, <2>2 DEF ByGroup, TurnsOf, TurnsAsPairs, d, parents
    <2> QED  BY <1>16, <2>1, <2>2, <2>3 DEF GroupsEven, parents, d
  <1> QED
    BY <1>11, <1>17 DEF TurnsEven, EvenSoFar, ParentsOf

\* Who goes on picking has what it was given, and nothing more is blocked.
LEMMA PickersKeep ==
    ASSUME SomethingToPick, blocked' \subseteq blocked,
           \A q \in Pickers : \/ pick'[q].pc = "idle"
                              \/ pick[q].pc # "idle" /\ pick'[q].auths = pick[q].auths
    PROVE  SomethingToPick'
  BY DEF SomethingToPick

LEMMA TurnsStay ==
    ASSUME CursorsMoved, TurnsEven, layout' = layout, cursors' = cursors, turns' = turns
    PROVE  CursorsMoved' /\ TurnsEven'
  <1>1. CursorsMoved'
    BY DEF CursorsMoved
  <1>2. /\ ParentsOf(turns.list)' = ParentsOf(turns.list)
        /\ \A g : Group(turns.list, g)' = Group(turns.list, g)
    BY DEF ParentsOf, Group
  <1>3. ByGroup(turns.list, turns.count)' = ByGroup(turns.list, turns.count)
    BY <1>2 DEF ByGroup, TurnsOf, TurnsAsPairs
  <1>4. GroupsEven(turns.list, turns.count, cursors)' = GroupsEven(turns.list, turns.count, cursors)
    BY <1>2, <1>3 DEF GroupsEven
  <1> QED
    BY <1>1, <1>2, <1>4 DEF TurnsEven, EvenSoFar

\* The answer to p ends its pick and leaves the others what they have.
LEMMA AnswerKeeps ==
    ASSUME AffinityInv, SomethingToPick, blocked' = blocked, NEW p \in Pickers, NEW a, Answer(p, a)
    PROVE  SomethingToPick'
  <1>1. ASSUME NEW q \in Pickers
        PROVE  \/ pick'[q].pc = "idle"
               \/ pick'[q].pc = pick[q].pc /\ pick'[q].auths = pick[q].auths
    <2>1. PickTyped(pick[q], now)
      BY DEF AffinityInv, AffinityTypes
    <2>2. \/ pick'[q] = NoPick \/ pick'[q] = pick[q]
          \/ pick'[q] = [pick[q] EXCEPT !.expected = {}]
      BY DEF Answer
    <2> QED  BY <2>1, <2>2 DEF PickTyped, NoPick
  <1>2. \A q \in Pickers : \/ pick'[q].pc = "idle"
                           \/ pick[q].pc # "idle" /\ pick'[q].auths = pick[q].auths
    BY <1>1
  <1> QED
    BY <1>2, PickersKeep

LEMMA EvenStep == AffinityInv /\ EvenInv /\ [AffinityNext]_affinityVars => EvenInv'
  <1> SUFFICES ASSUME AffinityInv, EvenInv, [AffinityNext]_affinityVars PROVE EvenInv'
    OBVIOUS
  <1>0. /\ layout \in Layouts /\ SomethingToPick /\ CursorsMoved /\ TurnsEven
        /\ \A p \in Pickers : PickTyped(pick[p], now)
        /\ pick = [p \in Pickers |-> pick[p]]
    BY DEF EvenInv, AffinityInv, AffinityTypes
  <1>1. ASSUME NEW p \in Pickers, NEW k, NEW auths \in SUBSET Auths, StartPick(p, k, auths)
        PROVE  EvenInv'
    <2>1. layout' = layout /\ cursors' = cursors /\ turns' = turns /\ blocked' = blocked
      BY <1>1 DEF StartPick, historyVars
    <2>2. auths \ blocked # {}
      BY <1>1 DEF StartPick, Available
    <2>3. pick'[p].auths = auths /\ \A q \in Pickers \ {p} : pick'[q] = pick[q]
      BY <1>0, <1>1 DEF StartPick
    <2>4. SomethingToPick'
      BY <1>0, <2>1, <2>2, <2>3 DEF SomethingToPick
    <2> QED  BY <1>0, <2>1, <2>4, TurnsStay DEF EvenInv
  <1>2. ASSUME NEW p \in Pickers, Lookup(p)
        PROVE  EvenInv'
    <2>1. layout' = layout /\ cursors' = cursors /\ turns' = turns /\ blocked' = blocked
      BY <1>2 DEF Lookup
    <2>2. SomethingToPick'
      <3>1. CASE Answer(p, entries[pick[p].session].auth)
        BY <1>0, <2>1, <3>1, AnswerKeeps
      <3>2. CASE \E pc : pick' = [pick EXCEPT ![p].pc = pc]
        <4>1. PICK pc : pick' = [pick EXCEPT ![p].pc = pc]
          BY <3>2
        <4>2. \A q \in Pickers : pick'[q].auths = pick[q].auths /\ (q # p => pick'[q] = pick[q])
          BY <1>0, <4>1 DEF PickTyped
        <4>3. pick[p].pc = "lookup"
          BY <1>2 DEF Lookup
        <4> QED  BY <1>0, <2>1, <4>2, <4>3, PickersKeep
      <3> QED  BY <1>2, <3>1, <3>2 DEF Lookup
    <2> QED  BY <1>0, <2>1, <2>2, TurnsStay DEF EvenInv
  <1>3. ASSUME NEW p \in Pickers, Inherit(p)
        PROVE  EvenInv'
    <2>1. layout' = layout /\ cursors' = cursors /\ turns' = turns /\ blocked' = blocked
      BY <1>3 DEF Inherit, historyVars
    <2>2. \A q \in Pickers : pick'[q].auths = pick[q].auths /\ (q # p => pick'[q] = pick[q])
      BY <1>0, <1>3 DEF Inherit, PickTyped
    <2>3. pick[p].pc = "prior"
      BY <1>3 DEF Inherit
    <2>4. SomethingToPick'
      BY <1>0, <2>1, <2>2, <2>3, PickersKeep
    <2> QED  BY <1>0, <2>1, <2>4, TurnsStay DEF EvenInv
  <1>4. ASSUME NEW p \in Pickers, Drop(p)
        PROVE  EvenInv'
    <2>1. layout' = layout /\ cursors' = cursors /\ turns' = turns /\ blocked' = blocked
      BY <1>4 DEF Drop
    <2>2. ASSUME NEW q \in Pickers
          PROVE  pick'[q].auths = pick[q].auths /\ (q # p => pick'[q].pc = pick[q].pc)
      BY <1>0, <1>4 DEF Drop, PickTyped
    <2>3. pick[p].pc = "drop"
      BY <1>4 DEF Drop
    <2>4. SomethingToPick'
      BY <1>0, <2>1, <2>2, <2>3, PickersKeep
    <2> QED  BY <1>0, <2>1, <2>4, TurnsStay DEF EvenInv
  <1>5. ASSUME NEW p \in Pickers, Choose(p)
        PROVE  EvenInv'
    <2>1. /\ pick[p].pc = "choose" /\ layout' = layout /\ blocked' = blocked
      BY <1>5 DEF Choose
    <2>2. PICK a \in Auths :
             /\ RoundRobin(Available(pick[p].auths), a)
             /\ pick' = [pick EXCEPT ![p] = IF @.session = Sessionless THEN NoPick
                                            ELSE [@ EXCEPT !.pc = "bind", !.auth = a]]
      BY <1>5 DEF Choose
    <2>3. pick[p].auths \in SUBSET Auths /\ pick[p].auths \ blocked # {}
      BY <1>0, <2>1 DEF SomethingToPick, PickTyped
    <2>4. PICK list \in SUBSET Auths : list = Available(pick[p].auths) /\ list # {}
      <3>1. Available(pick[p].auths) # {}
        BY <1>0, <2>3, SomeAvailable
      <3>2. Available(pick[p].auths) \in SUBSET Auths
        BY <2>3 DEF Available
      <3> QED  BY <3>1, <3>2
    <2>5. CursorsMoved' /\ TurnsEven'
      <3>1. CASE Cardinality(ParentsOf(list)) > 1
        <4>1. GroupInTurn(list, a)
          BY <2>2, <2>4, <3>1 DEF RoundRobin
        <4> QED  BY <1>0, <2>1, <2>4, <3>1, <4>1, GroupInTurnEven
      <3>2. CASE ~(Cardinality(ParentsOf(list)) > 1)
        <4>1. InTurn(list, a)
          BY <2>2, <2>4, <3>2 DEF RoundRobin
        <4>2. Cardinality(ParentsOf(list)) <= 1
          BY <1>0, <3>2, GroupsAre, FS_CardinalityType
        <4> QED  BY <1>0, <2>1, <2>4, <4>1, <4>2, InTurnEven
      <3> QED  BY <3>1, <3>2
    <2>6. SomethingToPick'
      <3>1. \/ pick'[p].pc = "idle" \/ pick'[p].auths = pick[p].auths
        BY <1>0, <2>2 DEF PickTyped, NoPick
      <3>2. \A q \in Pickers : q # p => pick'[q] = pick[q]
        BY <1>0, <2>2
      <3> QED  BY <2>1, <3>1, <3>2, <1>0, PickersKeep
    <2> QED  BY <1>0, <2>1, <2>5, <2>6 DEF EvenInv
  <1>6. ASSUME NEW p \in Pickers, Bind(p)
        PROVE  EvenInv'
    <2>1. layout' = layout /\ cursors' = cursors /\ turns' = turns /\ blocked' = blocked
      BY <1>6 DEF Bind
    <2>2. Answer(p, pick[p].auth)
      BY <1>6 DEF Bind
    <2> QED  BY <1>0, <2>1, <2>2, AnswerKeeps, TurnsStay DEF EvenInv
  <1>7. ASSUME NEW a \in Auths, Block(a) \/ Unblock(a)
        PROVE  EvenInv'
    <2>1. layout' = layout /\ cursors' = cursors /\ turns' = turns /\ pick' = pick
      BY <1>7 DEF Block, Unblock, historyVars
    <2>2. SomethingToPick'
      <3>1. CASE Block(a)
        BY <2>1, <3>1 DEF Block, SomethingToPick
      <3>2. CASE Unblock(a)
        BY <1>0, <2>1, <3>2 DEF Unblock, SomethingToPick
      <3> QED  BY <1>7, <3>1, <3>2
    <2> QED  BY <1>0, <2>1, <2>2, TurnsStay DEF EvenInv
  <1>8. ASSUME Cleanup \/ UNCHANGED affinityVars
        PROVE  EvenInv'
    <2>1. /\ layout' = layout /\ cursors' = cursors /\ turns' = turns
          /\ pick' = pick /\ blocked' = blocked
      BY <1>8 DEF Cleanup, affinityVars, historyVars
    <2>2. SomethingToPick'
      BY <1>0, <2>1 DEF SomethingToPick
    <2> QED  BY <1>0, <2>1, <2>2, TurnsStay DEF EvenInv
  <1>9. ASSUME Tick
        PROVE  EvenInv'
    <2>1. layout' = layout /\ cursors' = cursors /\ turns' = turns /\ blocked' = blocked
      BY <1>9 DEF Tick, historyVars
    <2>2. ASSUME NEW q \in Pickers
          PROVE  pick'[q].auths = pick[q].auths /\ pick'[q].pc = pick[q].pc
      BY <1>0, <1>9 DEF Tick, PickTyped
    <2>3. SomethingToPick'
      BY <1>0, <2>1, <2>2, PickersKeep DEF SomethingToPick
    <2> QED  BY <1>0, <2>1, <2>3, TurnsStay DEF EvenInv
  <1> QED
    BY <1>1, <1>2, <1>3, <1>4, <1>5, <1>6, <1>7, <1>8, <1>9 DEF AffinityNext

\* As long as the list does not change, round-robin gives every credential its
\* turn before any has another, and so among the groups and in each of them,
\* whatever picks run side by side and wherever the cursors start
\* (selector.go 270-324).
THEOREM TurnsAreEven == AffinitySpec => []EvenFallback
  <1>1. AffinityInit => EvenInv
    <2> SUFFICES ASSUME AffinityInit PROVE EvenInv
      OBVIOUS
    <2>1. layout \in Layouts /\ CursorsMoved /\ SomethingToPick
      BY DEF AffinityInit, CursorsMoved, SomethingToPick, NoPick
    <2>2. TurnsEven
      <3>1. turns = [list |-> {}, count |-> <<>>]
        BY DEF AffinityInit
      <3> QED  BY <3>1 DEF TurnsEven
    <2> QED  BY <2>1, <2>2 DEF EvenInv
  <1>2. EvenInv => EvenFallback
    <2> SUFFICES ASSUME EvenInv PROVE EvenFallback
      OBVIOUS
    <2> DEFINE list == turns.list
               parents == ParentsOf(list)
               c == turns.count
    <2>1. list \in SUBSET Auths /\ layout \in Layouts
      BY DEF EvenInv, TurnsEven
    <2>2. CASE Cardinality(parents) > 1
      <3>1. list # {}
        <4>1. Cardinality({}) = 0
          BY FS_EmptySet
        <4>2. parents = {} => list = {}
          BY <2>2, <4>1
        <4> QED  BY <2>2, <4>1, <4>2 DEF ParentsOf
      <3>2. GroupsEven(list, c, cursors)
        BY <2>2, <3>1 DEF EvenInv, TurnsEven, EvenSoFar
      <3>3. ASSUME NEW g \in parents, NEW h \in parents
            PROVE  TurnsOf(c, Group(list, g)) - TurnsOf(c, Group(list, h)) \in -1 .. 1
        <4>1. ByGroup(list, c)[g] - ByGroup(list, c)[h] \in -1 .. 1
          BY <3>2, EvenDiffers DEF GroupsEven
        <4> QED  BY <4>1 DEF ByGroup
      <3>4. ASSUME NEW g \in parents, NEW a \in Group(list, g), NEW b \in Group(list, g)
            PROVE  c[a] - c[b] \in -1 .. 1
        <4>1. CASE CredKey[g] \in DOMAIN cursors
          BY <3>2, <4>1, EvenDiffers DEF GroupsEven
        <4>2. CASE CredKey[g] \notin DOMAIN cursors
          <5>1. c[a] = 0 /\ c[b] = 0
            BY <3>2, <4>2 DEF GroupsEven
          <5> QED  BY <5>1
        <4> QED  BY <4>1, <4>2
      <3> QED  BY <2>2, <3>3, <3>4 DEF EvenFallback, TurnsOf, TurnsAsPairs, Group
    <2>3. CASE ~(Cardinality(parents) > 1)
      <3>1. ASSUME NEW a \in list, NEW b \in list PROVE c[a] - c[b] \in -1 .. 1
        <4>1. Evenly(list, c, cursors["flat"])
          BY <2>3 DEF EvenInv, TurnsEven, EvenSoFar
        <4> QED  BY <4>1, EvenDiffers
      <3> QED  BY <2>3, <3>1 DEF EvenFallback
    <2> QED  BY <2>2, <2>3
  <1> QED
    BY <1>1, <1>2, AffinityHolds, EvenStep, PTL DEF AffinitySpec
=============================================================================
