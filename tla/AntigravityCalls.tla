-------------------------- MODULE AntigravityCalls --------------------------
(***************************************************************************)
(* The calls of the Antigravity executor for one model: base URLs tried    *)
(* one after the other, attempts repeated after a wait, cooldowns shared   *)
(* by all calls on an account, a hint of its credits that calls, token     *)
(* refreshes and a goroutine of its own write, and the usage record of a   *)
(* call, which its goroutine and that of its stream may both publish.      *)
(* The upstream, what it knows of the credits of an account, and the       *)
(* refreshes of the manager are external.                                  *)
(***************************************************************************)
EXTENDS Integers, Sequences, FiniteSets

CONSTANTS Calls, Accounts,
          Attempts,      \* antigravityRetryAttempts
          Urls,          \* how many base URLs an account has
          HoldTimes,     \* how long a short cooldown may be
          HintInterval,  \* antigravityCreditsHintRefreshInterval
          LastInstant    \* bound: the last instant

ASSUME AntigravityAssumption ==
    /\ {Attempts, Urls, HintInterval} \subseteq Nat \ {0} /\ LastInstant \in Nat
    /\ HoldTimes \subseteq Nat \ {0}

Kinds == {"whole", "gathered", "stream", "count"}
Sources == {"hint", "refresh"}

VARIABLES instant,
          creditsOn,  \* QuotaExceeded.AntigravityCredits
          cooldown,   \* antigravityShortCooldownByAuth: the end, or 0
          hint,       \* antigravityCreditsHintByAuth
          asked,      \* antigravityCreditsHintRefreshState.lastAttempt, or 0
          balance,    \* a reading of the balance by the hint's goroutine or a refresh
          fresh,      \* accounts whose token in the manager is not about to expire
          call,
          funds,      \* what the upstream knows of the credits of an account
          spent,      \* accounts of which a call was told that they have no credits left
          outdated    \* history: of these, the ones with a reading stored that came before

creditVars == <<hint, asked, balance, funds, spent, outdated>>
antigravityVars == <<instant, creditsOn, cooldown, fresh, call, creditVars>>

Account(c) == call[c].account
Of(c, pcs) == call[c].pc \in pcs

NoCall == [pc |-> "idle", account |-> CHOOSE a \in Accounts : TRUE, kind |-> "count",
           credits |-> FALSE, gone |-> FALSE, checks |-> 0, seen |-> 0, attempt |-> 1,
           url |-> 1, heard |-> "unknown", metered |-> FALSE, told |-> <<>>,
           outcome |-> "none"]

\* Mutant: a record for every publication.
MutantPublished(r, record) ==
    IF r.kind = "count" THEN r ELSE [r EXCEPT !.told = Append(@, record)]

\* UsageReporter: the first publication counts; CountTokens has no reporter.
Published(r, record) ==
    IF r.kind = "count" \/ r.told # <<>> THEN r ELSE [r EXCEPT !.told = <<record>>]

Finished(r, outcome) == [r EXCEPT !.pc = "ended", !.outcome = outcome]

\* A call that returns an error: TrackFailure.
Failed(r) == Finished(Published(r, "failed"), "error")

-----------------------------------------------------------------------------
(* The short cooldown. *)

Begin(c) ==
    /\ Of(c, {"idle"})
    /\ \E a \in Accounts, k \in Kinds, w \in BOOLEAN :
          /\ k = "count" => ~w
          /\ call' = [call EXCEPT ![c] = [NoCall EXCEPT
                        !.pc = IF k = "count" THEN "token" ELSE "check", !.account = a,
                        !.kind = k, !.credits = w, !.checks = IF k = "gathered" THEN 2 ELSE 1]]
    /\ UNCHANGED <<instant, creditsOn, cooldown, fresh, creditVars>>

\* Calls for Claude models look twice.
Cleared(r) == IF r.checks = 1 THEN [r EXCEPT !.pc = "token", !.seen = 0]
              ELSE [r EXCEPT !.pc = "check", !.seen = 0, !.checks = @ - 1]

UsesCredits(c) == call[c].credits /\ creditsOn

\* Mutant: an entry is let go an instant early.
MutantLookUp(c) ==
    /\ Of(c, {"check"})
    /\ LET until == cooldown[Account(c)] IN
       call' = [call EXCEPT ![c] =
                  IF until = 0 \/ (until > instant + 1 /\ UsesCredits(c)) THEN Cleared(@)
                  ELSE IF until > instant + 1 THEN Finished(@, "held")
                  ELSE [@ EXCEPT !.pc = "drop", !.seen = until]]
    /\ UNCHANGED <<instant, creditsOn, cooldown, fresh, creditVars>>

\* Load; an entry that has run out is deleted by a step of its own.
LookUp(c) ==
    /\ Of(c, {"check"})
    /\ LET until == cooldown[Account(c)] IN
       call' = [call EXCEPT ![c] =
                  IF until = 0 \/ (until > instant /\ UsesCredits(c)) THEN Cleared(@)
                  ELSE IF until > instant THEN Finished(@, "held")
                  ELSE [@ EXCEPT !.pc = "drop", !.seen = until]]
    /\ UNCHANGED <<instant, creditsOn, cooldown, fresh, creditVars>>

DropEntry(c) ==
    /\ Of(c, {"drop"})
    /\ cooldown' = [cooldown EXCEPT ![Account(c)] = 0]
    /\ call' = [call EXCEPT ![c] = Cleared(@)]
    /\ UNCHANGED <<instant, creditsOn, fresh, creditVars>>

-----------------------------------------------------------------------------
(* The access token, and the balance that is read with it. *)

\* updateAntigravityCreditsBalance stores what it heard, if it heard anything.
Hears(a) == {funds[a], "unknown"}
Stores(a, heard) ==
    /\ hint' = IF heard = "unknown" THEN hint ELSE [hint EXCEPT ![a] = heard]
    /\ outdated' = IF a \in spent /\ heard = "yes" THEN outdated \cup {a} ELSE outdated

\* maybeRefreshAntigravityCreditsHint: one goroutine for an account, now and then.
AskHint(c, a) ==
    IF /\ creditsOn /\ ~call[c].gone /\ hint[a] = "unknown" /\ balance["hint"][a] = "off"
       /\ asked[a] = 0 \/ instant - asked[a] >= HintInterval
      THEN /\ balance' = [balance EXCEPT !["hint"][a] = "asked"]
           /\ asked' = [asked EXCEPT ![a] = instant]
      ELSE UNCHANGED <<balance, asked>>

\* ensureAccessToken
EnsureToken(c) ==
    /\ Of(c, {"token"})
    /\ IF Account(c) \in fresh
         THEN /\ call' = [call EXCEPT ![c].pc = "send"]
              /\ AskHint(c, Account(c))
         ELSE /\ call' = [call EXCEPT ![c].pc = "refresh"]
              /\ UNCHANGED <<balance, asked>>
    /\ UNCHANGED <<instant, creditsOn, cooldown, fresh, hint, funds, spent, outdated>>

CallMoves(c, r) ==
    /\ call' = [call EXCEPT ![c] = r]
    /\ UNCHANGED <<instant, creditsOn, cooldown, fresh, creditVars>>

\* refreshToken for this call only: the manager keeps its record.  The client's
\* leaving does not reach it.
TokenAnswers(c) ==
    /\ Of(c, {"refresh"})
    /\ \/ CallMoves(c, [call[c] EXCEPT !.pc = "balance"])
       \/ CallMoves(c, Failed(call[c]))

BalanceAnswers(c) ==
    /\ Of(c, {"balance"})
    /\ \E h \in Hears(Account(c)) : CallMoves(c, [call[c] EXCEPT !.pc = "store", !.heard = h])

StoreBalance(c) ==
    /\ Of(c, {"store"})
    /\ call' = [call EXCEPT ![c] = [@ EXCEPT !.pc = "send", !.heard = "unknown"]]
    /\ Stores(Account(c), call[c].heard)
    /\ UNCHANGED <<instant, creditsOn, cooldown, fresh, asked, balance, funds, spent>>

\* The manager refreshes a token it holds, on its own.
ManagerRefreshes(a) ==
    /\ balance["refresh"][a] = "off"
    /\ balance' = [balance EXCEPT !["refresh"][a] = "asked"]
    /\ UNCHANGED <<instant, creditsOn, cooldown, fresh, call, hint, asked, funds, spent, outdated>>

ReadingAnswers(s, a) ==
    /\ balance[s][a] = "asked"
    /\ \E h \in Hears(a) : balance' = [balance EXCEPT ![s][a] = h]
    /\ UNCHANGED <<instant, creditsOn, cooldown, fresh, call, hint, asked, funds, spent, outdated>>

ReadingStored(s, a) ==
    /\ balance[s][a] \notin {"off", "asked"}
    /\ Stores(a, balance[s][a])
    /\ balance' = [balance EXCEPT ![s][a] = "off"]
    /\ fresh' = IF s = "refresh" THEN fresh \cup {a} ELSE fresh
    /\ UNCHANGED <<instant, creditsOn, cooldown, call, asked, funds, spent>>

-----------------------------------------------------------------------------
(* One request to one base URL. *)

\* Answers of status 429, by decideAntigravity429.
Limits == {"instant", "short", "quota", "spent", "soft"}

\* "unreachable": no response; "unread": the body of an error could not be read.
Refusals == Limits \cup {"noCapacity", "unreachable", "unread", "other"}

\* The upstream tells of spent credits only who asks for them.
May(c, f) ==
    /\ f = "spent" => UsesCredits(c) /\ funds[Account(c)] = "no"
    /\ f = "unread" => call[c].kind \in {"gathered", "stream"}

MoreUrls(c) == call[c].url < Urls
MoreAttempts(c) == call[c].kind # "count" /\ call[c].attempt < Attempts

\* What is answered by another attempt at once, by the next base URL if there is
\* one, by another attempt when there is none.
RetriesAtOnce(c, f) == f = "instant" /\ MoreAttempts(c)
GoesToNextUrl(c, f) ==
    /\ MoreUrls(c) /\ ~RetriesAtOnce(c, f)
    /\ f \in Limits \cup {"unreachable", "unread"} \/ (f = "noCapacity" /\ call[c].kind # "count")
Retries(c, f) ==
    \/ RetriesAtOnce(c, f)
    \/ ~MoreUrls(c) /\ MoreAttempts(c) /\ f \in {"soft", "noCapacity"}

AfterRefusal(c, f) ==
    IF GoesToNextUrl(c, f) THEN [call[c] EXCEPT !.url = @ + 1]
    ELSE IF Retries(c, f) THEN [call[c] EXCEPT !.pc = "wait", !.attempt = @ + 1, !.url = 1]
    ELSE Failed(call[c])

\* markAntigravityShortCooldown
MarksCooldown(c, f) ==
    IF f = "short" /\ call[c].kind # "count"
      THEN \E h \in HoldTimes : cooldown' = [cooldown EXCEPT ![Account(c)] = instant + h]
      ELSE UNCHANGED cooldown

\* Mutant: what is known of the credits is left as it is.
MutantMarksSpent(c, f) ==
    /\ spent' = IF f = "spent" THEN spent \cup {Account(c)} ELSE spent
    /\ UNCHANGED hint

\* markAntigravityCreditsPermanentlyDisabled
MarksSpent(c, f) ==
    /\ hint' = IF f = "spent" THEN [hint EXCEPT ![Account(c)] = "no"] ELSE hint
    /\ spent' = IF f = "spent" THEN spent \cup {Account(c)} ELSE spent

Refused(c, f) ==
    /\ Of(c, {"send"}) /\ May(c, f)
    /\ call' = [call EXCEPT ![c] = AfterRefusal(c, f)]
    /\ MarksCooldown(c, f) /\ MarksSpent(c, f)
    /\ UNCHANGED <<instant, creditsOn, fresh, asked, balance, funds, outdated>>

\* The response is whole, or a stream begins.
Succeeds(c) ==
    /\ Of(c, {"send"})
    /\ call' = [call EXCEPT ![c] =
                  IF @.kind \in {"gathered", "stream"} THEN [@ EXCEPT !.pc = "read"]
                  ELSE Finished(Published(@, "ok"), "done")]
    /\ UNCHANGED <<instant, creditsOn, cooldown, fresh, creditVars>>

\* A request that is not valid, or cannot be built.
FailsHere(c) == Of(c, {"token", "send"}) /\ CallMoves(c, Failed(call[c]))

\* Mutant: the request does not carry the client's context.
MutantSendCanceled(c) == FALSE /\ Of(c, {"send"}) /\ CallMoves(c, Failed(call[c]))

\* The client has left while the response was awaited, or during a wait.
SendCanceled(c) == Of(c, {"send"}) /\ call[c].gone /\ CallMoves(c, Failed(call[c]))
WaitCanceled(c) == Of(c, {"wait"}) /\ call[c].gone /\ CallMoves(c, Failed(call[c]))
Waited(c) == Of(c, {"wait"}) /\ CallMoves(c, [call[c] EXCEPT !.pc = "send"])

-----------------------------------------------------------------------------
(* The goroutine that reads a stream. *)

ReadsUsage(c) ==
    /\ Of(c, {"read"}) /\ ~call[c].metered
    /\ CallMoves(c, [Published(call[c], "ok") EXCEPT !.metered = TRUE])

\* EnsurePublished
StreamEnds(c) == Of(c, {"read"}) /\ CallMoves(c, Finished(Published(call[c], "ok"), "done"))

\* PublishFailure; a call that gathers the stream fails with it.
StreamBreaks(c) == Of(c, {"read"}) /\ CallMoves(c, Finished(Published(call[c], "failed"), "cut"))

-----------------------------------------------------------------------------
(* The specification. *)

LeaveCall(c) ==
    /\ ~Of(c, {"idle", "ended"}) /\ ~call[c].gone /\ CallMoves(c, [call[c] EXCEPT !.gone = TRUE])

Passes ==
    /\ instant < LastInstant /\ instant' = instant + 1
    /\ UNCHANGED <<creditsOn, cooldown, fresh, call, creditVars>>

TokenAges(a) ==
    /\ a \in fresh /\ fresh' = fresh \ {a}
    /\ UNCHANGED <<instant, creditsOn, cooldown, call, creditVars>>

\* Credits are bought; calls are told of spent ones no more.
TopUp(a) ==
    /\ funds' = [funds EXCEPT ![a] = "yes"]
    /\ spent' = spent \ {a} /\ outdated' = outdated \ {a}
    /\ UNCHANGED <<instant, creditsOn, cooldown, fresh, call, hint, asked, balance>>

\* Credits are used up, by these calls or by others of the account's owner.
UseUp(a) ==
    /\ funds' = [funds EXCEPT ![a] = "no"]
    /\ UNCHANGED <<instant, creditsOn, cooldown, fresh, call, hint, asked, balance, spent, outdated>>

AntigravityInit ==
    /\ instant = 1 /\ creditsOn \in BOOLEAN
    /\ cooldown = [a \in Accounts |-> 0]
    /\ hint = [a \in Accounts |-> "unknown"] /\ asked = [a \in Accounts |-> 0]
    /\ balance = [s \in Sources |-> [a \in Accounts |-> "off"]]
    /\ fresh \in SUBSET Accounts
    /\ call = [c \in Calls |-> NoCall]
    /\ funds \in [Accounts -> {"yes", "no"}]
    /\ spent = {} /\ outdated = {}

\* What a call does by itself.
CallStep(c) ==
    \/ LookUp(c) \/ DropEntry(c) \/ EnsureToken(c) \/ StoreBalance(c)
    \/ SendCanceled(c) \/ WaitCanceled(c) \/ Waited(c)
    \/ call[c].gone /\ StreamBreaks(c)

\* What depends on the upstream and its token endpoint.
UpstreamStep(c) ==
    \/ TokenAnswers(c) \/ BalanceAnswers(c)
    \/ FailsHere(c) \/ Succeeds(c) \/ ReadsUsage(c) \/ StreamEnds(c) \/ StreamBreaks(c)
    \/ \E f \in Refusals : Refused(c, f)

AntigravityNext ==
    \/ \E c \in Calls : Begin(c) \/ LeaveCall(c) \/ CallStep(c) \/ UpstreamStep(c)
    \/ \E a \in Accounts : ManagerRefreshes(a) \/ TokenAges(a) \/ TopUp(a) \/ UseUp(a)
    \/ \E s \in Sources, a \in Accounts : ReadingAnswers(s, a) \/ ReadingStored(s, a)
    \/ Passes

\* Goroutines go on and timers fire; of the upstream nothing is assumed, except that
\* its connection ends when this side cancels.
AntigravityFairness == \A c \in Calls : WF_antigravityVars(CallStep(c))

AntigravitySpec == AntigravityInit /\ [][AntigravityNext]_antigravityVars /\ AntigravityFairness

-----------------------------------------------------------------------------
(* Properties. *)

\* A cooldown that still runs is given up only to a call that had found an earlier
\* one run out and deletes it after the new one came: there is no other way for a
\* call to reach an account the upstream wants left alone.
CooldownLostOnlyByRace ==
    [][\A a \in Accounts : cooldown[a] > instant /\ cooldown'[a] = 0 =>
          \E c \in Calls : /\ call[c].pc = "drop" /\ call'[c].pc # "drop"
                           /\ call[c].account = a /\ call[c].seen < cooldown[a]]_antigravityVars

\* A call that has ended left one usage record, whichever goroutine published first:
\* a failure if it failed, but the usage a stream told before it was cut.  There is
\* none for a call that was held back or counts tokens.
UsageToldOnce ==
    \A c \in Calls : call[c].pc = "ended" =>
        call[c].told =
            IF call[c].kind = "count" \/ call[c].outcome = "held" THEN <<>>
            ELSE IF call[c].outcome = "done" \/ call[c].metered THEN <<"ok">> ELSE <<"failed">>

\* An account whose credits are known to be spent is not thought to have some, until
\* it has: the exception is a reading of the balance that was answered before.
SpentIsKnown == \A a \in spent \ outdated : hint[a] # "yes"

\* A call whose client has left ends, whatever the upstream does, wherever it is
\* among its base URLs, attempts, waits and its stream; only a refresh of its token,
\* which has no deadline and does not hear of the client, holds it up.
LeftCallsEnd ==
    \A c \in Calls : call[c].gone /\ ~Of(c, {"refresh", "balance"}) ~>
                         Of(c, {"ended", "refresh", "balance"})
=============================================================================
