--------------------------- MODULE LoginSessions ---------------------------
(***************************************************************************)
(* Logins begun from the management API: a session that a client polls, a  *)
(* goroutine that polls for a file with the callback and exchanges its     *)
(* code, for web clients a forwarder on the one port the provider          *)
(* redirects to, and callbacks that find the session pending and then      *)
(* write the file.  Logins with a browser are of one provider here, those  *)
(* with a device of another.  The providers' answers are external.         *)
(***************************************************************************)
EXTENDS Naturals, FiniteSets

CONSTANTS Logins,      \* the states, each begun once
          Devices,     \* the logins with a device
          Callbacks,   \* each arrives once
          Patience,    \* how long a goroutine waits for the file
          SessionTTL,  \* oauthSessionTTL
          LastMinute,  \* bound: the last instant
          Nobody

ASSUME LoginAssumption ==
    /\ Devices \subseteq Logins /\ Nobody \notin Logins
    /\ {Patience, SessionTTL} \subseteq Nat \ {0} /\ LastMinute \in Nat
    /\ Patience < SessionTTL  \* five minutes and ten

VARIABLES session,     \* of each login; one that has run out is none
          flow,        \* handler and goroutine of each login
          port,        \* whose forwarder listens
          forwarder,   \* callbackForwarders[port]
          file,        \* what a login's callback file holds
          writers,     \* callbacks that have the present file of a login open
          callback,
          minute,
          ranOut       \* history: logins whose session ran out

portVars == <<port, forwarder>>
fileVars == <<file, writers, callback>>
loginVars == <<session, flow, portVars, fileVars, minute, ranOut>>

\* "void" is a file that does not parse: still empty, or two callbacks in one.
Contents == {"code", "error"}

Idle == [pc |-> "idle", webui |-> FALSE, prev |-> Nobody, deadline |-> 0, got |-> "none",
         outcome |-> "none"]
NoSession == [status |-> "none", until |-> 0]
NotCome == [pc |-> "due", login |-> Nobody, content |-> "none"]

Pending(l) == session[l].status = "pending"
In(l, pcs) == flow[l].pc \in pcs
Rivals(l) == IF l \in Devices THEN Devices ELSE Logins \ Devices

-----------------------------------------------------------------------------
(* A login begins. *)

Registered == [status |-> "pending", until |-> minute + SessionTTL]
Waits(f) == [f EXCEPT !.pc = "wait", !.deadline = minute + Patience]

\* Bound: early enough for its deadline to come.
BeginLogin(l, webui) ==
    /\ In(l, {"idle"}) /\ minute + Patience < LastMinute
    /\ webui => l \notin Devices
    /\ session' = [session EXCEPT ![l] = Registered]
    /\ flow' = [flow EXCEPT ![l] = IF l \in Devices THEN [@ EXCEPT !.pc = "exchange"]
                                   ELSE IF webui THEN [@ EXCEPT !.pc = "evict", !.webui = TRUE]
                                   ELSE Waits(@)]
    /\ UNCHANGED <<portVars, fileVars, minute, ranOut>>

\* startCallbackForwarder: the forwarder there is leaves the table, then its port.
Evict(l) ==
    /\ In(l, {"evict"})
    /\ flow' = [flow EXCEPT ![l] = [@ EXCEPT !.prev = forwarder,
                                            !.pc = IF forwarder = Nobody THEN "listen" ELSE "stop"]]
    /\ forwarder' = Nobody
    /\ UNCHANGED <<session, port, fileVars, minute, ranOut>>

StopPrevious(l) ==
    /\ In(l, {"stop"})
    /\ port' = IF port = flow[l].prev THEN Nobody ELSE port
    /\ flow' = [flow EXCEPT ![l].pc = "listen"]
    /\ UNCHANGED <<session, forwarder, fileVars, minute, ranOut>>

Listen(l) ==
    /\ In(l, {"listen"}) /\ port = Nobody
    /\ port' = l
    /\ flow' = [flow EXCEPT ![l].pc = "enter"]
    /\ UNCHANGED <<session, forwarder, fileVars, minute, ranOut>>

\* The port is taken, by a forwarder or by another program: the handler gives up,
\* and the session stays as it is.
ListenFails(l) ==
    /\ In(l, {"listen"})
    /\ flow' = [flow EXCEPT ![l] = [@ EXCEPT !.pc = "ended", !.outcome = "refused"]]
    /\ UNCHANGED <<session, portVars, fileVars, minute, ranOut>>

Enter(l) ==
    /\ In(l, {"enter"})
    /\ forwarder' = l
    /\ flow' = [flow EXCEPT ![l] = Waits(@)]
    /\ UNCHANGED <<session, port, fileVars, minute, ranOut>>

-----------------------------------------------------------------------------
(* The goroutine of a login. *)

Ending(f, outcome) == [f EXCEPT !.pc = IF f.webui THEN "release" ELSE "ended", !.outcome = outcome]

\* IsPending
CheckPending(l) ==
    /\ In(l, {"wait"})
    /\ flow' = [flow EXCEPT ![l] = IF Pending(l) THEN [@ EXCEPT !.pc = "look"]
                                   ELSE Ending(@, "canceled")]
    /\ UNCHANGED <<session, portVars, fileVars, minute, ranOut>>

Look(l) ==
    /\ In(l, {"look"})
    /\ flow' = [flow EXCEPT ![l] =
                  IF minute > @.deadline THEN [@ EXCEPT !.pc = "fail"]
                  ELSE IF file[l] # "none" THEN [@ EXCEPT !.pc = "remove", !.got = file[l]]
                  ELSE [@ EXCEPT !.pc = "wait"]]
    /\ UNCHANGED <<session, portVars, fileVars, minute, ranOut>>

\* Whatever file is there by now goes.
RemoveFile(l) ==
    /\ In(l, {"remove"})
    /\ file' = [file EXCEPT ![l] = "none"] /\ writers' = [writers EXCEPT ![l] = {}]
    /\ flow' = [flow EXCEPT ![l].pc = IF flow[l].got = "code" THEN "exchange" ELSE "fail"]
    /\ UNCHANGED <<session, portVars, callback, minute, ranOut>>

\* The provider takes the code, or the device was confirmed, and the token is saved.
Exchange(l, saved) ==
    /\ In(l, {"exchange"})
    /\ flow' = [flow EXCEPT ![l] = IF saved THEN [@ EXCEPT !.pc = "complete", !.outcome = "saved"]
                                   ELSE [@ EXCEPT !.pc = "fail"]]
    /\ UNCHANGED <<session, portVars, fileVars, minute, ranOut>>

\* Mutant: a login that failed is completed.
MutantFail(l) ==
    /\ In(l, {"fail"})
    /\ session' = [session EXCEPT ![l] = NoSession]
    /\ flow' = [flow EXCEPT ![l] = Ending(@, "failed")]
    /\ UNCHANGED <<portVars, fileVars, minute, ranOut>>

\* SetError, which says nothing of a session that is no more there.
Fail(l) ==
    /\ In(l, {"fail"})
    /\ session' = IF session[l] = NoSession THEN session
                  ELSE [session EXCEPT ![l] = [status |-> "error", until |-> minute + SessionTTL]]
    /\ flow' = [flow EXCEPT ![l] = Ending(@, "failed")]
    /\ UNCHANGED <<portVars, fileVars, minute, ranOut>>

\* Complete
Complete(l) ==
    /\ In(l, {"complete"})
    /\ session' = [session EXCEPT ![l] = NoSession]
    /\ flow' = [flow EXCEPT ![l].pc = "clear"]
    /\ UNCHANGED <<portVars, fileVars, minute, ranOut>>

\* CompleteProvider: older and newer logins of the provider alike.
CompleteProvider(l) ==
    /\ In(l, {"clear"})
    /\ session' = [k \in Logins |-> IF k \in Rivals(l) THEN NoSession ELSE session[k]]
    /\ flow' = [flow EXCEPT ![l] = Ending(@, "saved")]
    /\ UNCHANGED <<portVars, fileVars, minute, ranOut>>

\* Mutant: whichever forwarder is in the table goes.
MutantLeaveTable(l) ==
    /\ In(l, {"release"})
    /\ forwarder' = Nobody
    /\ flow' = [flow EXCEPT ![l].pc = "shut"]
    /\ UNCHANGED <<session, port, fileVars, minute, ranOut>>

\* stopCallbackForwarderInstance: its own forwarder, in the table and on the port.
LeaveTable(l) ==
    /\ In(l, {"release"})
    /\ forwarder' = IF forwarder = l THEN Nobody ELSE forwarder
    /\ flow' = [flow EXCEPT ![l].pc = "shut"]
    /\ UNCHANGED <<session, port, fileVars, minute, ranOut>>

Shut(l) ==
    /\ In(l, {"shut"})
    /\ port' = IF port = l THEN Nobody ELSE port
    /\ flow' = [flow EXCEPT ![l].pc = "ended"]
    /\ UNCHANGED <<session, forwarder, fileVars, minute, ranOut>>

-----------------------------------------------------------------------------
(* A callback: WriteOAuthCallbackFileForPendingSession. *)

Accept(w, l, content) ==
    /\ callback[w].pc = "due" /\ Pending(l) /\ l \notin Devices
    /\ callback' = [callback EXCEPT ![w] = [pc |-> "open", login |-> l, content |-> content]]
    /\ UNCHANGED <<session, flow, portVars, file, writers, minute, ranOut>>

\* os.WriteFile: the file is made, or emptied, and then written.
OpenFile(w) ==
    /\ callback[w].pc = "open"
    /\ file' = [file EXCEPT ![callback[w].login] = "void"]
    /\ writers' = [writers EXCEPT ![callback[w].login] = @ \cup {w}]
    /\ callback' = [callback EXCEPT ![w].pc = "write"]
    /\ UNCHANGED <<session, flow, portVars, minute, ranOut>>

\* What is written to a file that was removed meanwhile is lost.
WriteFile(w) ==
    LET l == callback[w].login IN
    /\ callback[w].pc = "write"
    /\ IF w \in writers[l]
         THEN \E content \in {callback[w].content} \cup (IF file[l] = "void" THEN {} ELSE {"void"}) :
                 file' = [file EXCEPT ![l] = content]
         ELSE UNCHANGED file
    /\ writers' = [writers EXCEPT ![l] = @ \ {w}]
    /\ callback' = [callback EXCEPT ![w] = [NotCome EXCEPT !.pc = "done"]]
    /\ UNCHANGED <<session, flow, portVars, minute, ranOut>>

-----------------------------------------------------------------------------
(* The specification. *)

Starting == {"evict", "stop", "listen", "enter"}
Waiting == {"wait", "look", "remove"}

\* Minutes pass: handlers and polls take far less, so none is overtaken by two.
MinutePasses ==
    /\ minute < LastMinute
    /\ \A l \in Logins : ~In(l, Starting) /\ (In(l, Waiting) => minute <= flow[l].deadline)
    /\ minute' = minute + 1
    /\ session' = [l \in Logins |-> IF session[l].until < minute' THEN NoSession ELSE session[l]]
    /\ ranOut' = ranOut \cup {l \in Logins : session[l] # session'[l]}
    /\ UNCHANGED <<flow, portVars, fileVars>>

LoginInit ==
    /\ session = [l \in Logins |-> NoSession] /\ flow = [l \in Logins |-> Idle]
    /\ port = Nobody /\ forwarder = Nobody
    /\ file = [l \in Logins |-> "none"] /\ writers = [l \in Logins |-> {}]
    /\ callback = [w \in Callbacks |-> NotCome]
    /\ minute = 0 /\ ranOut = {}

LoginStep(l) ==
    \/ Evict(l) \/ StopPrevious(l) \/ Listen(l) \/ ListenFails(l) \/ Enter(l)
    \/ CheckPending(l) \/ Look(l) \/ RemoveFile(l) \/ Fail(l)
    \/ Complete(l) \/ CompleteProvider(l) \/ LeaveTable(l) \/ Shut(l)

LoginNext ==
    \/ \E l \in Logins : \/ LoginStep(l)
                         \/ \E b \in BOOLEAN : BeginLogin(l, b) \/ Exchange(l, b)
                         \/ \E w \in Callbacks, c \in Contents : Accept(w, l, c)
    \/ \E w \in Callbacks : OpenFile(w) \/ WriteFile(w)
    \/ MinutePasses

LoginSpec == LoginInit /\ [][LoginNext]_loginVars

-----------------------------------------------------------------------------
(* Properties. *)

Begun(l) == ~In(l, {"idle"})
Saved(l) == flow[l].outcome = "saved"

\* A client that polls is told "ok" of a login of which no token was saved only if
\* one of another login of the provider was, or the session ran out; and it never
\* runs out while the callback is still awaited.
OkIsExplained ==
    \A l \in Logins : Begun(l) /\ session[l] = NoSession /\ ~Saved(l) =>
        \/ \E k \in Rivals(l) : Saved(k)
        \/ l \in ranOut /\ ~In(l, Starting \cup Waiting)

\* A forwarder that listens can be told to stop by the next login, or is about to be
\* stopped; and a web login keeps its own for as long as it awaits the callback,
\* unless a later one took its place.
ForwarderOwnsPort ==
    /\ port # Nobody =>
          \/ forwarder = port \/ In(port, {"enter", "shut"})
          \/ \E k \in Logins : In(k, {"stop"}) /\ flow[k].prev = port
    /\ \A l \in Logins : flow[l].webui /\ In(l, Waiting) =>
          \/ forwarder = l /\ port = l
          \/ \E k \in Logins : flow[k].prev = l
=============================================================================
