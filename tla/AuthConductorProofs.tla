------------------------ MODULE AuthConductorProofs ------------------------
(***************************************************************************)
(* What the scheduler knows of a credential is what the manager has on     *)
(* record, unless two operations told of it at a time; and what a result   *)
(* leaves of a credential: for any number of goroutines, credentials and   *)
(* models, and any durations.                                              *)
(***************************************************************************)
EXTENDS AuthConductor, TLAPS

Fields == {"disabled", "states", "unavailable", "retryAt", "exceeded", "recoverAt", "level"}

\* What a goroutine does with a record r of all credentials: what it tells of those
\* it tells of alone is what is on record.
JobOK(j, r) ==
    /\ j.pc = "tell" =>
          /\ j = [pc |-> "tell", told |-> j.told, live |-> j.live, next |-> j.next,
                  alone |-> j.alone]
          /\ j.next.pc \in {"registry", "again", "idle", "register", "entry"}
          /\ j.alone \subseteq DOMAIN j.told
          /\ \A a \in j.alone \cap Auths : j.told[a] = r[a]
    /\ j.pc = "clone" => j = [pc |-> "clone", auth |-> j.auth, live |-> j.live]
    /\ j.pc \in {"operator", "service", "refresh"} => DOMAIN j.avail = Fields

JobsOK ==
    /\ job = [w \in Workers |-> job[w]]
    /\ \A w \in Workers : JobOK(job[w], auths)

RecordsOK ==
    /\ auths = [a \in Auths |-> auths[a]] /\ known = [a \in Auths |-> known[a]]
    /\ \A a \in Auths : DOMAIN auths[a] = Fields
    /\ now \in Nat

ConductorInv == JobsOK /\ RecordsOK /\ StaleOnlyByRace

Tells(j, a) == j.pc = "tell" /\ a \in DOMAIN j.told

-----------------------------------------------------------------------------
(* Records. *)

\* A result leaves a record, and what it says follows from its models' states.
LEMMA RecordForm ==
    ASSUME NEW a, DOMAIN a = Fields, NEW m, NEW o, NEW t \in Nat, NEW c
    PROVE  DOMAIN Record(a, m, o, t, c) = Fields
  <1>1. \A b : DOMAIN Aggregate(b, t) = Fields
    BY DEF Aggregate, Fields
  <1> QED
    BY <1>1 DEF Record

LEMMA OtherForms ==
    ASSUME NEW a, DOMAIN a = Fields, NEW t
    PROVE  /\ DOMAIN RefreshFailed(a, t) = Fields
           /\ DOMAIN Refreshed(a) = Fields
           /\ \A off : DOMAIN [a EXCEPT !.disabled = off] = Fields
           /\ \A s : DOMAIN [a EXCEPT !.states = s] = Fields
           /\ \A models : DOMAIN Reconciled(a, models, t) = Fields
           /\ \A b : DOMAIN b = Fields => DOMAIN Replaced(b, a) = Fields
           /\ \A off, s : DOMAIN [Fresh EXCEPT !.disabled = off, !.states = s] = Fields
  <1>1. \A b : DOMAIN Aggregate(b, t) = Fields
    BY DEF Aggregate, Fields
  <1>2. \A models : DOMAIN Reconciled(a, models, t) = Fields
    BY <1>1 DEF Reconciled
  <1>3. DOMAIN RefreshFailed(a, t) = Fields /\ DOMAIN Refreshed(a) = Fields
    BY DEF RefreshFailed, Refreshed
  <1>4. \A off, s : DOMAIN [Fresh EXCEPT !.disabled = off, !.states = s] = Fields
    BY DEF Fresh, Fields
  <1>5. \A b : DOMAIN b = Fields => DOMAIN Replaced(b, a) = Fields
    BY DEF Replaced
  <1> QED
    BY <1>2, <1>3, <1>4, <1>5

-----------------------------------------------------------------------------
(* Goroutines. *)

\* Whoever begins to tell of what is on record tells the truth.
LEMMA TellingOK ==
    ASSUME NEW S, NEW r, NEW live, NEW next,
           next.pc \in {"registry", "again", "idle", "register", "entry"}
    PROVE  /\ JobOK(Telling(S, r, live, next), r)
           /\ \A a \in S : Tells(Telling(S, r, live, next), a)
           /\ Telling(S, r, live, next).pc = "tell"
           /\ Telling(S, r, live, next).next = next
  BY DEF JobOK, Telling, Tells

\* A change of the credentials in S under the mutex leaves the others as they were,
\* but for those who told of them alone.
LEMMA GoesKeepsJobs ==
    ASSUME JobsOK, NEW w \in Workers, NEW j, NEW S, NEW R, R \subseteq S,
           Goes(w, j, S, R), JobOK(j, auths'),
           \A a \in Auths \ S : auths'[a] = auths[a]
    PROVE  /\ JobsOK' /\ job'[w] = j
           /\ \A v \in Workers \ {w}, a \in Auths : Tells(job'[v], a) <=> Tells(job[v], a)
           /\ \A v \in Workers \ {w} : job[v] = Idle => job'[v] = Idle
  <1>1. job' = [v \in Workers |-> job'[v]] /\ job'[w] = j
    BY DEF Goes
  <1>2. ASSUME NEW v \in Workers \ {w}
        PROVE  /\ JobOK(job'[v], auths')
               /\ \A a \in Auths : Tells(job'[v], a) <=> Tells(job[v], a)
               /\ job[v] = Idle => job'[v] = Idle
    <2>0. JobOK(job[v], auths)
      BY DEF JobsOK
    <2>1. CASE job[v].pc = "tell"
      <3> DEFINE told == [a \in DOMAIN job[v].told |->
                            IF a \in R \cap job[v].live THEN auths[a] ELSE job[v].told[a]]
      <3>1. job'[v] = [job[v] EXCEPT !.alone = @ \ S, !.live = @ \ R, !.told = told]
        BY <2>1 DEF Goes
      <3>2. job[v] = [pc |-> "tell", told |-> job[v].told, live |-> job[v].live,
                      next |-> job[v].next, alone |-> job[v].alone]
        BY <2>0, <2>1 DEF JobOK
      <3> HIDE DEF told
      <3>3. job'[v] = [pc |-> "tell", told |-> told, live |-> job[v].live \ R,
                       next |-> job[v].next, alone |-> job[v].alone \ S]
        <4>1. ASSUME NEW t, NEW l, NEW n, NEW x, NEW y
              PROVE  /\ [[pc |-> "tell", told |-> t, live |-> l, next |-> n, alone |-> x]
                            EXCEPT !.alone = y]
                        = [pc |-> "tell", told |-> t, live |-> l, next |-> n, alone |-> y]
                     /\ [[pc |-> "tell", told |-> t, live |-> l, next |-> n, alone |-> x]
                            EXCEPT !.live = y]
                        = [pc |-> "tell", told |-> t, live |-> y, next |-> n, alone |-> x]
                     /\ [[pc |-> "tell", told |-> t, live |-> l, next |-> n, alone |-> x]
                            EXCEPT !.told = y]
                        = [pc |-> "tell", told |-> y, live |-> l, next |-> n, alone |-> x]
          OBVIOUS
        <4>2. PICK t, l, n, x : job[v] = [pc |-> "tell", told |-> t, live |-> l, next |-> n,
                                          alone |-> x]
          BY <3>2
        <4>3. job[v].live = l /\ job[v].next = n /\ job[v].alone = x
          BY <4>2
        <4>4. job'[v] = [[pc |-> "tell", told |-> t, live |-> l, next |-> n, alone |-> x]
                            EXCEPT !.alone = x \ S, !.live = l \ R, !.told = told]
          BY <3>1, <4>2, <4>3
        <4> QED
          BY <4>1, <4>3, <4>4
      <3>4. DOMAIN told = DOMAIN job[v].told
        BY DEF told
      <3>5. \A a \in (job[v].alone \ S) \cap Auths : told[a] = auths'[a]
        BY <2>0, <2>1 DEF JobOK, told
      <3> QED
        BY <2>0, <2>1, <3>3, <3>4, <3>5 DEF JobOK, Tells, Idle
    <2>2. CASE job[v].pc = "clone"
      <3>1. \E l : job'[v] = [job[v] EXCEPT !.live = l]
        BY <2>2 DEF Goes
      <3>2. job[v] = [pc |-> "clone", auth |-> job[v].auth, live |-> job[v].live]
        BY <2>0, <2>2 DEF JobOK
      <3>3. \E l : job'[v] = [pc |-> "clone", auth |-> job[v].auth, live |-> l]
        BY <3>1, <3>2
      <3> QED
        BY <2>2, <3>3 DEF JobOK, Tells, Idle
    <2>3. CASE job[v].pc \notin {"tell", "clone"}
      <3>1. job'[v] = job[v]
        BY <2>3 DEF Goes
      <3> QED
        BY <2>0, <2>3, <3>1 DEF JobOK, Tells
    <2> QED
      BY <2>1, <2>2, <2>3
  <1> QED
    BY <1>1, <1>2 DEF JobsOK

\* A goroutine that changes credentials goes on to tell of them.
LEMMA GoesKeepsInv ==
    ASSUME ConductorInv, NEW w \in Workers, NEW j, NEW S, NEW R, R \subseteq S,
           Goes(w, j, S, R), JobOK(j, auths'), job[w].pc # "tell",
           auths' = [a \in Auths |-> auths'[a]], \A a \in Auths : DOMAIN auths'[a] = Fields,
           \A a \in Auths \ S : auths'[a] = auths[a],
           \A a \in Auths \cap S : Tells(j, a),
           known' = known, raced' = raced, now' = now
    PROVE  ConductorInv'
  <1>1. /\ JobsOK' /\ job'[w] = j
        /\ \A v \in Workers \ {w}, a \in Auths : Tells(job'[v], a) <=> Tells(job[v], a)
    BY GoesKeepsJobs DEF ConductorInv
  <1>2. RecordsOK'
    BY DEF ConductorInv, RecordsOK
  <1>3. ASSUME NEW a \in Auths, Settled(a)', a \notin raced'
        PROVE  known'[a] = Told(Snap(a, auths'[a]))
    <2>1. \A v \in Workers : ~Tells(job'[v], a)
      BY <1>3 DEF Settled, Tells
    <2>2. a \notin S
      BY <1>1, <2>1
    <2>3. \A v \in Workers : ~Tells(job[v], a)
      BY <1>1, <2>1 DEF Tells
    <2>4. Settled(a)
      BY <2>3 DEF Settled, Tells
    <2> QED
      BY <1>3, <2>2, <2>4 DEF ConductorInv, StaleOnlyByRace
  <1> QED
    BY <1>1, <1>2, <1>3 DEF ConductorInv, StaleOnlyByRace

LEMMA MoveKeepsInv ==
    ASSUME ConductorInv, NEW w \in Workers, NEW j, job' = [job EXCEPT ![w] = j],
           JobOK(j, auths), job[w].pc # "tell",
           auths' = auths, known' = known, raced' = raced, now' = now
    PROVE  ConductorInv'
  <1>1. /\ job' = [v \in Workers |-> job'[v]]
        /\ \A v \in Workers : job'[v] = IF v = w THEN j ELSE job[v]
    BY DEF ConductorInv, JobsOK
  <1>2. JobsOK' /\ RecordsOK'
    BY <1>1 DEF ConductorInv, JobsOK, RecordsOK
  <1>3. \A a \in Auths : Settled(a)' => Settled(a)
    BY <1>1 DEF Settled
  <1> QED
    BY <1>2, <1>3 DEF ConductorInv, StaleOnlyByRace

-----------------------------------------------------------------------------
(* The actions. *)

LEMMA MarkResultKeeps ==
    ASSUME ConductorInv, NEW w \in Workers, NEW a \in Auths, NEW m, NEW o, NEW c,
           MarkResult(w, a, m, o, c)
    PROVE  ConductorInv'
  <1> DEFINE next == [pc |-> "registry", auth |-> a, model |-> m, outcome |-> o, cooling |-> c]
             j == Telling({a}, auths', {}, next)
  <1>1. /\ job[w].pc # "tell" /\ Goes(w, j, {a}, {}) /\ known' = known /\ raced' = raced
        /\ now' = now /\ auths' = [auths EXCEPT ![a] = Record(@, m, o, now, c)]
    BY DEF MarkResult, Idle, poolVars
  <1>2. /\ auths' = [b \in Auths |-> auths'[b]] /\ \A b \in Auths : DOMAIN auths'[b] = Fields
        /\ \A b \in Auths \ {a} : auths'[b] = auths[b]
    BY <1>1, RecordForm DEF ConductorInv, RecordsOK
  <1>3. JobOK(j, auths') /\ \A b \in Auths \cap {a} : Tells(j, b)
    <2>1. next.pc \in {"registry", "again", "idle", "register", "entry"}
      OBVIOUS
    <2> HIDE DEF next
    <2> QED
      BY <2>1, TellingOK
  <1> HIDE DEF j
  <1>4. PICK R : Goes(w, j, {a}, R) /\ R \subseteq {a}
    BY <1>1
  <1> QED
    BY <1>1, <1>2, <1>3, <1>4, GoesKeepsInv

LEMMA UpdateKeeps ==
    ASSUME ConductorInv, NEW w \in Workers, NEW a, NEW new, NEW next,
           Update(w, a, new, next), DOMAIN new = Fields, job[w].pc # "tell",
           next.pc \in {"idle", "register"}
    PROVE  ConductorInv'
  <1> DEFINE j == Telling({a}, auths', {a}, next)
  <1>1. /\ Goes(w, j, {a}, {a}) /\ known' = known /\ raced' = raced
        /\ now' = now /\ auths' = [auths EXCEPT ![a] = Replaced(@, new)]
    BY DEF Update, poolVars
  <1>2. /\ auths' = [b \in Auths |-> auths'[b]] /\ \A b \in Auths : DOMAIN auths'[b] = Fields
        /\ \A b \in Auths \ {a} : auths'[b] = auths[b]
    BY <1>1, OtherForms DEF ConductorInv, RecordsOK
  <1>3. JobOK(j, auths') /\ \A b \in Auths \cap {a} : Tells(j, b)
    BY TellingOK
  <1> HIDE DEF j
  <1>4. PICK R : Goes(w, j, {a}, R) /\ R \subseteq {a}
    BY <1>1
  <1> QED
    BY <1>1, <1>2, <1>3, <1>4, GoesKeepsInv

\* The operator, the service and a refresh write back what they read.
LEMMA WritersKeep ==
    ASSUME ConductorInv, NEW w \in Workers,
           \/ \E off \in BOOLEAN : Toggle(w, off) \/ Reload(w, off)
           \/ RefreshSucceeds(w)
    PROVE  ConductorInv'
  <1>0. JobOK(job[w], auths)
    BY DEF ConductorInv, JobsOK
  <1>1. ASSUME NEW off \in BOOLEAN, Toggle(w, off) PROVE ConductorInv'
    <2>1. DOMAIN job[w].avail = Fields /\ job[w].pc # "tell"
      BY <1>0, <1>1 DEF Toggle, JobOK
    <2>2. DOMAIN [job[w].avail EXCEPT !.disabled = off] = Fields
      BY <2>1, OtherForms
    <2> QED
      BY <1>1, <2>1, <2>2, UpdateKeeps DEF Toggle, Idle
  <1>2. ASSUME NEW off \in BOOLEAN, Reload(w, off) PROVE ConductorInv'
    <2> DEFINE a == job[w].auth
               old == job[w].avail
               kept == IF old.disabled \/ off THEN <<>> ELSE old.states
               new == [Fresh EXCEPT !.disabled = off, !.states = kept]
               next == [pc |-> "register", auth |-> a]
    <2>1. job[w].pc # "tell" /\ Update(w, a, new, next)
      BY <1>2 DEF Reload
    <2>2. DOMAIN new = Fields
      BY DEF Fresh, Fields
    <2>3. next.pc = "register"
      OBVIOUS
    <2> HIDE DEF new, next, a
    <2> QED
      BY <2>1, <2>2, <2>3, UpdateKeeps
  <1>3. CASE RefreshSucceeds(w)
    <2>1. DOMAIN job[w].avail = Fields /\ job[w].pc # "tell"
      BY <1>0, <1>3 DEF RefreshSucceeds, JobOK
    <2>2. DOMAIN Refreshed(job[w].avail) = Fields
      BY <2>1, OtherForms
    <2> QED
      BY <1>3, <2>1, <2>2, UpdateKeeps DEF RefreshSucceeds, Idle
  <1> QED
    BY <1>1, <1>2, <1>3

\* Those who look again at what is on record.
LEMMA ReconcileKeeps ==
    ASSUME ConductorInv, NEW w \in Workers, Reconcile(w)
    PROVE  ConductorInv'
  <1> DEFINE a == job[w].auth
             new == Reconciled(auths[a], Profile[a].models, now)
             entry == [pc |-> "entry", auth |-> a]
             j == Telling({a}, auths', {}, entry)
  <1>1. /\ job[w].pc # "tell" /\ known' = known /\ raced' = raced /\ now' = now
        /\ auths' = [auths EXCEPT ![a] = new]
        /\ IF new = auths[a] THEN Goes(w, entry, {}, {}) ELSE Goes(w, j, {a}, {})
    BY DEF Reconcile, poolVars
  <1>2. /\ auths' = [b \in Auths |-> auths'[b]] /\ \A b \in Auths : DOMAIN auths'[b] = Fields
        /\ \A b \in Auths \ {a} : auths'[b] = auths[b]
        /\ new = auths[a] => auths' = auths
    <2>1. a \in Auths => DOMAIN new = Fields
      BY OtherForms DEF ConductorInv, RecordsOK
    <2> HIDE DEF new, a
    <2> QED
      BY <1>1, <2>1 DEF ConductorInv, RecordsOK
  <1>3. JobOK(j, auths') /\ \A b \in Auths \cap {a} : Tells(j, b)
    <2>1. entry.pc = "entry"
      OBVIOUS
    <2> HIDE DEF entry, a
    <2> QED
      BY <2>1, TellingOK
  <1>4. JobOK(entry, auths')
    BY DEF JobOK
  <1> HIDE DEF j, new, entry, a
  <1>5. CASE new = auths[a]
    BY <1>1, <1>2, <1>4, <1>5, GoesKeepsInv DEF ConductorInv, RecordsOK
  <1>6. CASE new # auths[a]
    <2>1. PICK R : Goes(w, j, {a}, R) /\ R \subseteq {a}
      BY <1>1, <1>6
    <2> QED
      BY <1>1, <1>2, <1>3, <2>1, GoesKeepsInv
  <1> QED
    BY <1>5, <1>6

LEMMA SnapshotsKeep ==
    ASSUME ConductorInv, NEW w \in Workers, SnapshotAuths(w) \/ RefreshEntry(w)
    PROVE  ConductorInv'
  <1> DEFINE again == [pc |-> "again", query |-> job[w].query]
  <1>1. /\ job[w].pc # "tell" /\ auths' = auths /\ known' = known /\ raced' = raced
        /\ now' = now
        /\ \/ Goes(w, Telling(Auths, auths, {}, again), {}, {})
           \/ Goes(w, Telling({job[w].auth}, auths, {}, Idle), {}, {})
    BY DEF SnapshotAuths, RefreshEntry, poolVars, condVars
  <1>2. again.pc = "again" /\ Idle.pc = "idle"
    BY DEF Idle
  <1> HIDE DEF again
  <1>3. PICK j : Goes(w, j, {}, {}) /\ JobOK(j, auths)
    BY <1>1, <1>2, TellingOK
  <1> QED
    BY <1>1, <1>3, GoesKeepsInv DEF ConductorInv, RecordsOK

\* A goroutine goes on, and nothing else.
MovesOn(w) ==
    \E j : /\ job' = [job EXCEPT ![w] = j] /\ JobOK(j, auths) /\ job[w].pc # "tell"
           /\ UNCHANGED <<auths, known, raced, now>>

LEMMA MovesKeep ==
    ASSUME ConductorInv, NEW w \in Workers,
           \/ TellRegistry(w) \/ Cloned(w) \/ PickAgain(w) \/ RegisterModels(w)
           \/ \E q \in Queries : Pick(w, q) \/ PickRefused(w, q)
           \/ \E a \in Auths, by \in {"operator", "service"} : Fetch(w, a, by)
           \/ \E a \in Auths : BeginRefresh(w, a)
           \/ RefreshCanceled(w)
    PROVE  ConductorInv'
  <1>1. MovesOn(w)
    <2>1. CASE TellRegistry(w) \/ Cloned(w) \/ RefreshCanceled(w)
      BY <2>1 DEF MovesOn, TellRegistry, Cloned, RefreshCanceled, Idle, JobOK, poolVars, condVars
    <2>2. CASE RegisterModels(w)
      BY <2>2 DEF MovesOn, RegisterModels, JobOK, poolVars
    <2>3. \A a, l : JobOK([pc |-> "clone", auth |-> a, live |-> l], auths)
      BY DEF JobOK
    <2>4. ASSUME NEW q, Pick(w, q) PROVE MovesOn(w)
      <3>1. job' = [job EXCEPT ![w] = [pc |-> "clone", auth |-> answer'.auth,
                                       live |-> answer'.auth \in aliased]]
        BY <2>4 DEF Pick
      <3>2. job[w].pc # "tell" /\ UNCHANGED <<auths, known, raced, now>>
        BY <2>4 DEF Pick, Offer, Idle, condVars
      <3> QED
        BY <2>3, <3>1, <3>2 DEF MovesOn
    <2>5. ASSUME NEW q, PickRefused(w, q) PROVE MovesOn(w)
      <3>1. /\ job' = [job EXCEPT ![w] = [pc |-> "sync", query |-> q]] /\ job[w].pc # "tell"
            /\ UNCHANGED <<auths, known, raced, now>>
        BY <2>5 DEF PickRefused, Refuse, Idle, condVars
      <3>2. JobOK([pc |-> "sync", query |-> q], auths)
        BY DEF JobOK
      <3> QED
        BY <3>1, <3>2 DEF MovesOn
    <2>6. CASE PickAgain(w)
      <3>1. job[w].pc # "tell" /\ UNCHANGED <<auths, known, raced, now>>
        BY <2>6 DEF PickAgain, Offer, Refuse, condVars
      <3>2. \/ job' = [job EXCEPT ![w] = [pc |-> "clone", auth |-> answer'.auth,
                                          live |-> answer'.auth \in aliased]]
            \/ job' = [job EXCEPT ![w] = Idle]
        BY <2>6 DEF PickAgain
      <3>3. JobOK(Idle, auths)
        BY DEF JobOK, Idle
      <3> QED
        BY <2>3, <3>1, <3>2, <3>3 DEF MovesOn
    <2>7. ASSUME NEW a \in Auths, NEW pc \in {"operator", "service", "refresh"},
                 job' = [job EXCEPT ![w] = [pc |-> pc, auth |-> a, avail |-> auths[a]]],
                 job[w] = Idle, UNCHANGED <<poolVars, condVars>>
          PROVE  MovesOn(w)
      <3> DEFINE j == [pc |-> pc, auth |-> a, avail |-> auths[a]]
      <3>1. JobOK(j, auths)
        BY DEF JobOK, ConductorInv, RecordsOK
      <3>2. job[w].pc # "tell" /\ UNCHANGED <<auths, known, raced, now>>
        BY <2>7 DEF Idle, poolVars, condVars
      <3>3. job' = [job EXCEPT ![w] = j]
        BY <2>7
      <3> HIDE DEF j
      <3> QED
        BY <3>1, <3>2, <3>3 DEF MovesOn
    <2>8. ASSUME NEW a \in Auths, \/ \E by \in {"operator", "service"} : Fetch(w, a, by)
                                  \/ BeginRefresh(w, a)
          PROVE  MovesOn(w)
      BY <2>7, <2>8 DEF Fetch, BeginRefresh
    <2> QED
      BY <2>1, <2>2, <2>4, <2>5, <2>6, <2>8
  <1> QED
    BY <1>1, MoveKeepsInv DEF MovesOn

\* The scheduler is told of one credential ...
LEMMA UpsertKeeps ==
    ASSUME ConductorInv, NEW w \in Workers, Upsert(w)
    PROVE  ConductorInv'
  <1> DEFINE j == job[w]
  <1>1. PICK a \in Auths :
           /\ DOMAIN j.told = {a}
           /\ known' = [known EXCEPT ![a] = Told(Snap(a, IF a \in j.live THEN auths[a]
                                                         ELSE j.told[a]))]
           /\ raced' = IF a \in j.alone THEN raced \ {a} ELSE raced \cup {a}
           /\ job' = [job EXCEPT ![w] = j.next] /\ auths' = auths /\ now' = now
    BY DEF Upsert, Tell
  <1>2. JobOK(j, auths) /\ j.pc = "tell" /\ j.next.pc # "again"
    BY DEF ConductorInv, JobsOK, Upsert
  <1>3. j.next.pc \in {"registry", "idle", "register", "entry"} /\ JobOK(j.next, auths)
    BY <1>2 DEF JobOK
  <1>4. /\ job' = [v \in Workers |-> job'[v]]
        /\ \A v \in Workers : job'[v] = IF v = w THEN j.next ELSE job[v]
    BY <1>1 DEF ConductorInv, JobsOK
  <1>5. JobsOK' /\ RecordsOK'
    BY <1>1, <1>3, <1>4 DEF ConductorInv, JobsOK, RecordsOK
  <1>6. ASSUME NEW b \in Auths, Settled(b)', b \notin raced'
        PROVE  known'[b] = Told(Snap(b, auths'[b]))
    <2>1. CASE b = a
      <3>1. a \in j.alone
        BY <1>1, <1>6, <2>1
      <3>2. j.told[a] = auths[a]
        BY <1>2, <3>1 DEF JobOK
      <3> QED
        BY <1>1, <2>1, <3>2 DEF ConductorInv, RecordsOK
    <2>2. CASE b # a
      <3>1. \A v \in Workers : ~Tells(job[v], b)
        BY <1>1, <1>4, <1>6, <2>2 DEF Settled, Tells
      <3>2. Settled(b) /\ b \notin raced
        BY <1>1, <1>6, <2>2, <3>1 DEF Settled, Tells
      <3> QED
        BY <1>1, <2>2, <3>2 DEF ConductorInv, StaleOnlyByRace
    <2> QED
      BY <2>1, <2>2
  <1> QED
    BY <1>5, <1>6 DEF ConductorInv, StaleOnlyByRace

\* ... or of all of them.
LEMMA RebuildKeeps ==
    ASSUME ConductorInv, NEW w \in Workers, Rebuild(w)
    PROVE  ConductorInv'
  <1> DEFINE j == job[w]
  <1>1. /\ known' = [a \in Auths |-> Told(Snap(a, j.told[a]))]
        /\ raced' = Auths \ j.alone /\ job' = [job EXCEPT ![w] = j.next]
        /\ auths' = auths /\ now' = now
    BY DEF Rebuild, TellAll
  <1>2. JobOK(j, auths) /\ j.pc = "tell" /\ j.next.pc = "again"
    BY DEF ConductorInv, JobsOK, Rebuild
  <1>3. JobOK(j.next, auths)
    BY <1>2 DEF JobOK
  <1>4. /\ job' = [v \in Workers |-> job'[v]]
        /\ \A v \in Workers : job'[v] = IF v = w THEN j.next ELSE job[v]
    BY <1>1 DEF ConductorInv, JobsOK
  <1>5. JobsOK' /\ RecordsOK'
    BY <1>1, <1>3, <1>4 DEF ConductorInv, JobsOK, RecordsOK
  <1>6. \A b \in Auths \ raced' : known'[b] = Told(Snap(b, auths'[b]))
    BY <1>1, <1>2 DEF JobOK
  <1> QED
    BY <1>5, <1>6 DEF ConductorInv, StaleOnlyByRace

\* A refresh that failed tells under the mutex.
LEMMA RefreshFailsKeeps ==
    ASSUME ConductorInv, NEW w \in Workers, RefreshFails(w)
    PROVE  ConductorInv'
  <1> DEFINE a == job[w].auth
  <1>1. /\ auths' = [auths EXCEPT ![a] = RefreshFailed(@, now)]
        /\ known' = [known EXCEPT ![a] = Told(Snap(a, auths'[a]))]
        /\ raced' = raced \ {a} /\ now' = now /\ job[w].pc = "refresh"
    BY DEF RefreshFails, Tell
  <1>2. PICK R : Goes(w, Idle, {a}, R) /\ R \subseteq {a}
    BY DEF RefreshFails
  <1> HIDE DEF a
  <1>3. JobOK(Idle, auths')
    BY DEF JobOK, Idle
  <1>4. /\ auths' = [b \in Auths |-> auths'[b]] /\ \A b \in Auths : DOMAIN auths'[b] = Fields
        /\ \A b \in Auths \ {a} : auths'[b] = auths[b]
    BY <1>1, OtherForms DEF ConductorInv, RecordsOK
  <1>5. /\ JobsOK' /\ job'[w] = Idle
        /\ \A v \in Workers \ {w}, b \in Auths : Tells(job'[v], b) <=> Tells(job[v], b)
    BY <1>2, <1>3, <1>4, GoesKeepsJobs DEF ConductorInv
  <1>6. RecordsOK'
    BY <1>1, <1>4 DEF ConductorInv, RecordsOK
  <1>7. ASSUME NEW b \in Auths, Settled(b)', b \notin raced'
        PROVE  known'[b] = Told(Snap(b, auths'[b]))
    <2>1. CASE b = a
      BY <1>1, <2>1 DEF ConductorInv, RecordsOK
    <2>2. CASE b # a
      <3>1. \A v \in Workers : ~Tells(job'[v], b)
        BY <1>7 DEF Settled, Tells
      <3>2. \A v \in Workers : ~Tells(job[v], b)
        BY <1>1, <1>5, <3>1 DEF Tells
      <3>3. Settled(b) /\ b \notin raced
        BY <1>1, <1>7, <2>2, <3>2 DEF Settled, Tells
      <3> QED
        BY <1>1, <1>4, <2>2, <3>3 DEF ConductorInv, StaleOnlyByRace
    <2> QED
      BY <2>1, <2>2
  <1> QED
    BY <1>5, <1>6, <1>7 DEF ConductorInv, StaleOnlyByRace

LEMMA ConductorInvInit == Init => ConductorInv
  <1> SUFFICES ASSUME Init PROVE ConductorInv
    OBVIOUS
  <1>1. JobsOK
    BY DEF Init, JobsOK, JobOK, Idle
  <1>2. RecordsOK
    BY ConductorAssumption DEF Init, RecordsOK, Fresh, Fields
  <1>3. ASSUME NEW a \in Auths PROVE Told(Snap(a, Fresh)) = Profile[a]
    <2>1. PICK p, n, x, ms : Profile[a] = [provider |-> p, priority |-> n, ws |-> x,
                                           models |-> ms, avail |-> Fresh]
      BY ConductorAssumption
    <2>2. Snap(a, Fresh) = Profile[a] /\ Profile[a].avail = Fresh
      BY <2>1 DEF Snap
    <2>3. ~Profile[a].avail.disabled
      BY <2>2 DEF Fresh
    <2> QED
      BY <2>2, <2>3 DEF Told
  <1>4. StaleOnlyByRace
    BY <1>3 DEF Init, StaleOnlyByRace
  <1> QED
    BY <1>1, <1>2, <1>4 DEF ConductorInv

LEMMA ConductorInvStep == ConductorInv /\ [Next]_vars => ConductorInv'
  <1> SUFFICES ASSUME ConductorInv, [Next]_vars PROVE ConductorInv'
    OBVIOUS
  <1>1. ASSUME NEW w \in Workers, Step(w) PROVE ConductorInv'
    BY <1>1, MarkResultKeeps, WritersKeep, ReconcileKeeps, SnapshotsKeep, MovesKeep, UpsertKeeps,
       RebuildKeeps, RefreshFailsKeeps
       DEF Step, Answered, Work
  <1>2. CASE Time
    BY <1>2
       DEF Time, Tick, condVars, ConductorInv, JobsOK, RecordsOK, StaleOnlyByRace, Settled
  <1>3. CASE UNCHANGED vars
    BY <1>3
       DEF vars, poolVars, condVars, ConductorInv, JobsOK, RecordsOK, StaleOnlyByRace, Settled
  <1> QED
    BY <1>1, <1>2, <1>3 DEF Next

\* However results, picks, edits, reloads and refreshes fall, the scheduler goes by
\* what the manager has on record, except for a credential of which two operations
\* told at a time.
THEOREM ToldWhatIsOnRecord == Spec => []StaleOnlyByRace
  <1>1. ConductorInv => StaleOnlyByRace
    BY DEF ConductorInv
  <1> QED
    BY <1>1, ConductorInvInit, ConductorInvStep, PTL DEF Spec

-----------------------------------------------------------------------------
(* What a result leaves of a credential. *)

\* A credential whose model succeeded holds nothing of that model back.
LEMMA SuccessFrees ==
    ASSUME NEW a, DOMAIN a = Fields, NEW m, NEW t \in Nat, NEW c,
           ~Record(a, m, "ok", t, c).disabled
    PROVE  Callable(Record(a, m, "ok", t, c), m, t)
  <1> DEFINE b == WithState(a, m, Clean)
             r == Aggregate(b, t)
             states == [n \in DOMAIN b.states |-> Swept(b.states[n], t)]
             held == {n \in DOMAIN states : Holds(states[n], t)}
  <1>1. b.states = [n \in DOMAIN a.states \cup {m} |-> IF n = m THEN Clean ELSE a.states[n]]
    BY DEF WithState, Fields
  <1> HIDE DEF b
  <1>2. m \in DOMAIN states /\ states[m] = Clean
    <2>1. m \in DOMAIN b.states /\ b.states[m] = Clean
      BY <1>1
    <2>2. Swept(Clean, t) = Clean
      BY DEF Swept, Clean
    <2> QED
      BY <2>1, <2>2
  <1>3. ~Holds(states[m], t)
    BY <1>2 DEF Holds, Clean
  <1>4. r.states = states /\ r.unavailable = (states # <<>> /\ held = DOMAIN states)
    BY DEF Aggregate
  <1> HIDE DEF states, r
  <1>5. ~r.unavailable
    BY <1>2, <1>3, <1>4
  <1>6. r = Record(a, m, "ok", t, c)
    BY DEF Record, r, b
  <1> QED
    BY <1>3, <1>4, <1>5, <1>6 DEF Callable, Verdict, Holds

\* A credential that is held back is because each of its models is, until the first
\* of them is free.
LEMMA HeldByItsModels ==
    ASSUME NEW b, NEW t \in Nat, NEW r, r = Aggregate(b, t), Holds(r, t)
    PROVE  /\ \A m \in DOMAIN r.states : Holds(r.states[m], t)
           /\ r.retryAt = Min({r.states[m].retryAt : m \in DOMAIN r.states})
  <1> DEFINE states == [n \in DOMAIN b.states |-> Swept(b.states[n], t)]
             held == {n \in DOMAIN states : Holds(states[n], t)}
             all == states # <<>> /\ held = DOMAIN states
             times == {states[n].retryAt : n \in held}
  <1>1. /\ r.states = states /\ r.unavailable = all
        /\ r.retryAt = IF all THEN Earliest(times) ELSE 0
    BY DEF Aggregate
  <1>2. all /\ r.retryAt = Earliest(times) /\ r.retryAt > t
    BY <1>1 DEF Holds
  <1>3. \A n \in DOMAIN states : Holds(states[n], t)
    BY <1>2
  <1>4. \A x \in times : x > t
    BY DEF Holds
  <1>5. times \ {0} = times
    BY <1>4
  <1>6. Earliest(times) = Min(times)
    <2> HIDE DEF times, all, states, held
    <2>1. ~(times \subseteq {0})
      <3>1. Earliest(times) > t
        BY <1>2
      <3> QED
        BY <3>1 DEF Earliest
    <2> QED
      BY <1>5, <2>1 DEF Earliest
  <1>7. times = {states[n].retryAt : n \in DOMAIN states}
    BY <1>2
  <1> HIDE DEF states, times, held
  <1> QED
    BY <1>1, <1>2, <1>3, <1>6, <1>7

\* A goroutine at rest stays so while others work.
LEMMA IdleStays ==
    ASSUME ConductorInv, NEW w \in Workers, NEW v \in Workers \ {w}, job[w] = Idle, Step(v)
    PROVE  job'[w] = Idle
  <1>1. ASSUME NEW j, NEW S, NEW R, Goes(v, j, S, R) PROVE job'[w] = Idle
    <2>1. job[w].pc = "idle"
      BY DEF Idle
    <2> QED
      BY <1>1, <2>1 DEF Goes
  <1>2. \A j : job' = [job EXCEPT ![v] = j] => job'[w] = Idle
    BY DEF ConductorInv, JobsOK
  <1>3. CASE Upsert(v) \/ TellRegistry(v) \/ Cloned(v) \/ SnapshotAuths(v) \/ Rebuild(v)
    BY <1>1, <1>2, <1>3 DEF Upsert, TellRegistry, Cloned, SnapshotAuths, Rebuild
  <1>4. CASE PickAgain(v) \/ \E q \in Queries : Pick(v, q) \/ PickRefused(v, q)
    BY <1>2, <1>4 DEF PickAgain, Pick, PickRefused
  <1>5. CASE \/ \E a \in Auths, by \in {"operator", "service"} : Fetch(v, a, by)
             \/ \E a \in Auths : BeginRefresh(v, a)
             \/ RefreshCanceled(v) \/ RegisterModels(v)
    BY <1>2, <1>5 DEF Fetch, BeginRefresh, RefreshCanceled, RegisterModels
  <1>6. CASE \/ \E off \in BOOLEAN : Toggle(v, off) \/ Reload(v, off)
             \/ RefreshSucceeds(v)
    BY <1>1, <1>6 DEF Toggle, Reload, RefreshSucceeds, Update
  <1>7. CASE Reconcile(v) \/ RefreshEntry(v) \/ RefreshFails(v)
    BY <1>1, <1>7 DEF Reconcile, RefreshEntry, RefreshFails
  <1>8. CASE Answered(v, Models, Results, Cooling)
    BY <1>1, <1>8 DEF Answered, MarkResult
  <1> QED
    BY <1>3, <1>4, <1>5, <1>6, <1>7, <1>8 DEF Step, Work

\* So a goroutine that has recorded something has recorded a result.
LEMMA OnlyResultsAreRecorded ==
    ASSUME ConductorInv, NEW w \in Workers, [Next]_vars, Recorded(w)
    PROVE  \E a \in Auths, m \in Models, o \in Results, c \in Cooling : MarkResult(w, a, m, o, c)
  <1>1. job[w] = Idle /\ job'[w].pc = "tell"
    BY DEF Recorded
  <1>2. job' # job /\ job'[w] # Idle
    BY <1>1 DEF Idle
  <1>3. PICK v \in Workers : Step(v)
    BY <1>2 DEF Next, Time, vars
  <1>4. Step(w)
    BY <1>1, <1>2, <1>3, IdleStays
  <1>5. \A j : job' = [job EXCEPT ![w] = j] => job'[w] = j
    BY DEF ConductorInv, JobsOK
  <1>6. ~\E q \in Queries : Pick(w, q) \/ PickRefused(w, q)
    BY <1>1, <1>5 DEF Pick, PickRefused
  <1>7. ~\E a \in Auths, by \in {"operator", "service"} : Fetch(w, a, by)
    BY <1>1, <1>5 DEF Fetch
  <1>8. ~\E a \in Auths : BeginRefresh(w, a)
    BY <1>1, <1>5 DEF BeginRefresh
  <1>9. job[w].pc = "idle"
    BY <1>1 DEF Idle
  <1>10. Answered(w, Models, Results, Cooling)
    BY <1>4, <1>6, <1>7, <1>8, <1>9
       DEF Step, Work, Upsert, TellRegistry, Cloned, SnapshotAuths, Rebuild, PickAgain, Toggle,
           Reload, RegisterModels, Reconcile, RefreshEntry, RefreshCanceled, RefreshFails,
           RefreshSucceeds
  <1> QED
    BY <1>10 DEF Answered

LEMMA ResultSettles ==
    ASSUME ConductorInv, NEW w \in Workers, NEW a \in Auths, NEW m, NEW o, NEW c,
           MarkResult(w, a, m, o, c)
    PROVE  LET next == job'[w].next
               r    == auths'[next.auth]
           IN  /\ next.outcome = "ok" /\ ~r.disabled => Callable(r, next.model, now)
               /\ next.outcome # "requestMissing" /\ Holds(r, now) =>
                     /\ \A n \in DOMAIN r.states : Holds(r.states[n], now)
                     /\ r.retryAt = Min({r.states[n].retryAt : n \in DOMAIN r.states})
  <1> DEFINE next == [pc |-> "registry", auth |-> a, model |-> m, outcome |-> o, cooling |-> c]
             r == Record(auths[a], m, o, now, c)
  <1>1. job'[w].next = next
    BY DEF MarkResult, Goes, Telling
  <1>2. next.auth = a /\ next.outcome = o /\ next.model = m
    OBVIOUS
  <1>3. auths'[a] = r
    BY DEF MarkResult, ConductorInv, RecordsOK
  <1>4. DOMAIN auths[a] = Fields /\ now \in Nat
    BY DEF ConductorInv, RecordsOK
  <1>5. o = "ok" /\ ~r.disabled => Callable(r, m, now)
    BY <1>4, SuccessFrees
  <1>6. o # "requestMissing" => \E b : r = Aggregate(b, now)
    BY DEF Record
  <1>7. o # "requestMissing" /\ Holds(r, now) =>
           /\ \A n \in DOMAIN r.states : Holds(r.states[n], now)
           /\ r.retryAt = Min({r.states[n].retryAt : n \in DOMAIN r.states})
    BY <1>4, <1>6, HeldByItsModels
  <1> HIDE DEF next, r
  <1> QED
    BY <1>1, <1>2, <1>3, <1>5, <1>7

\* A result settles the credential: after a success its model may be called at once,
\* and the credential as a whole is held back only if every model it has a state for
\* is, and no longer than the first of them.
THEOREM ResultsAreSettled == Spec => ResultsSettle
  <1> DEFINE Settles(w) ==
        LET next == job'[w].next
            r    == auths'[next.auth]
        IN  /\ next.outcome = "ok" /\ ~r.disabled => Callable(r, next.model, now)
            /\ next.outcome # "requestMissing" /\ Holds(r, now) =>
                  /\ \A m \in DOMAIN r.states : Holds(r.states[m], now)
                  /\ r.retryAt = Min({r.states[m].retryAt : m \in DOMAIN r.states})
  <1>1. ConductorInv /\ [Next]_vars => [\A w \in Workers : Recorded(w) => Settles(w)]_vars
    <2> SUFFICES ASSUME ConductorInv, [Next]_vars, NEW w \in Workers, Recorded(w)
                 PROVE  Settles(w)
      OBVIOUS
    <2>1. PICK a \in Auths, m \in Models, o \in Results, c \in Cooling : MarkResult(w, a, m, o, c)
      BY OnlyResultsAreRecorded
    <2> QED
      BY <2>1, ResultSettles
  <1> QED
    BY <1>1, ConductorInvInit, ConductorInvStep, PTL DEF Spec, ResultsSettle
=============================================================================
