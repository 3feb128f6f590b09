---------------------------- MODULE AutoRefresh ----------------------------
(***************************************************************************)
(* The loop that refreshes credentials before they expire: a heap of the   *)
(* times at which each must be looked at, the set of credentials whose     *)
(* record changed (dirty), a bounded channel of jobs and the workers that  *)
(* call the provider.  The records are Manager's, behind its own mutex;    *)
(* editors (the service, the management API) change them meanwhile.        *)
(* Every step of the loop that another goroutine can come between is an    *)
(* action.  Time is a clock of units; 0 stands for Go's zero time.         *)
(***************************************************************************)
EXTENDS Integers, Sequences, FiniteSets, FiniteSetsExt

CONSTANTS Creds,
          RefreshWorkers,
          Editors,          \* bound: each edits one record once
          FirstRecords,     \* the records each credential may start with
          Lifetimes,        \* how long a refreshed token lives; 0: as long as before
          JobBuffer,        \* capacity of the channel of jobs
          Interval,         \* how often an evaluator is asked
          Pending,          \* refreshPendingBackoff
          Failure,          \* refreshFailureBackoff
          Ineffective,      \* refreshIneffectiveBackoff
          Horizon           \* bound: the last instant of the clock

Records ==
    [disabled : BOOLEAN, apiKey : BOOLEAN, executor : BOOLEAN, evaluator : BOOLEAN,
     pref : Nat, lead : Nat, expiry : Nat, last : Nat, after : Nat,
     mark : {"none", "pending", "backoff"}]

ASSUME RefreshAssumption ==
    /\ {JobBuffer, Interval, Pending, Failure, Ineffective, Horizon} \subseteq Nat \ {0}
    /\ Lifetimes \subseteq Nat
    /\ \A c \in Creds : FirstRecords[c] # {} /\ FirstRecords[c] \subseteq Records

VARIABLES record,     \* Manager.auths
          clock,
          running,    \* the loop's context has not been cancelled
          loop,       \* what the loop is doing, and the instant it works with
          index,      \* the heap: when to look at a credential; 0: not in it
          dirty,
          wake,       \* wakeCh, of capacity 1
          timer,      \* when the timer fires; 0: no timer
          jobs,       \* the channel of jobs
          worker,
          editor,
          lapsed      \* history: credentials whose pending mark ran out, or was
                      \* written over, before the refresh it stands for ended

refreshVars == <<record, clock, running, loop, index, dirty, wake, timer, jobs,
                 worker, editor, lapsed>>

Asleep == [pc |-> "select"]
Free == [pc |-> "idle"]

-----------------------------------------------------------------------------
(* When a credential is due. *)

\* Its expiry and its last refresh, each moved by the interval of the record,
\* or else the lead of the provider.
DueTimes(r) ==
    IF r.pref > 0
      THEN {IF r.last = 0 THEN 0 ELSE r.last + r.pref}
             \cup {e - r.pref : e \in {r.expiry} \ {0}}
      ELSE {IF r.expiry # 0 THEN r.expiry - r.lead
            ELSE IF r.last # 0 THEN r.last + r.lead ELSE 0}

\* nextRefreshCheckAt; 0: never.
NextCheck(r, t) ==
    IF r.disabled \/ r.apiKey THEN 0
    ELSE IF t < r.after THEN r.after
    ELSE IF r.evaluator THEN t + Interval
    ELSE IF r.pref = 0 /\ r.lead = 0 THEN 0
    ELSE Max({t, Min(DueTimes(r))})

\* shouldRefresh; an evaluator may answer either way.
ShouldRefresh(r, t) ==
    IF r.disabled \/ t < r.after THEN {FALSE}
    ELSE IF r.evaluator THEN BOOLEAN
    ELSE {(r.pref > 0 \/ r.lead > 0) /\ \E d \in DueTimes(r) : d <= t}

-----------------------------------------------------------------------------
(* Marks.  queueReschedule puts the credential among the dirty ones and      *)
(* wakes the loop unless a wake-up is waiting already.                       *)

QueueReschedule(c) ==
    /\ dirty' = dirty \cup {c}
    /\ wake' = TRUE

\* upsert, or remove when there is no time to put in (t = 0).
PutOrDrop(c, t) == index' = [index EXCEPT ![c] = t]

-----------------------------------------------------------------------------
(* The loop. *)

\* StartAutoRefresh has published the loop: rebuild reads all records and fills
\* the heap, which only this goroutine touches; then run begins.
Rebuild ==
    /\ loop.pc = "start"
    /\ index' = [c \in Creds |-> NextCheck(record[c], clock)]
    /\ loop' = [pc |-> "run"]
    /\ UNCHANGED <<record, clock, running, dirty, wake, timer, jobs, worker, editor>>

\* The loop waits for a wake-up, its timer, or the end of its context; when
\* several are there, Go takes any.
Woken ==
    /\ loop.pc = "select"
    /\ wake
    /\ wake' = FALSE /\ timer' = 0
    /\ loop' = [pc |-> "woken", at |-> clock]
    /\ UNCHANGED <<record, clock, running, index, dirty, jobs, worker, editor>>

\* popDue.
TimerFires ==
    /\ loop.pc = "select"
    /\ timer # 0 /\ timer <= clock
    /\ timer' = 0
    /\ LET due == {c \in Creds : index[c] # 0 /\ index[c] <= clock} IN
         /\ index' = [c \in Creds |-> IF c \in due THEN 0 ELSE index[c]]
         /\ loop' = [pc |-> "due", at |-> clock, due |-> [c \in due |-> index[c]]]
    /\ UNCHANGED <<record, clock, running, dirty, wake, jobs, worker, editor>>

\* On with the batch, without c.
Rest(c) ==
    [pc |-> "due", at |-> loop.at, due |-> [d \in DOMAIN loop.due \ {c} |-> loop.due[d]]]

\* handleDueAuth, for the earliest of the batch: it goes to the mark, or back to
\* the heap, or out of it.
HandleDue(c) ==
    /\ loop.pc = "due" /\ c \in DOMAIN loop.due
    /\ \A d \in DOMAIN loop.due : loop.due[c] <= loop.due[d]
    /\ LET r == record[c]
           next == NextCheck(r, loop.at)
       IN \E should \in ShouldRefresh(r, loop.at) :
            IF next # 0 /\ should /\ r.executor
              THEN /\ loop' = [pc |-> "mark", at |-> loop.at, due |-> loop.due, cred |-> c]
                   /\ UNCHANGED index
              ELSE /\ PutOrDrop(c, IF next # 0 /\ should THEN loop.at + Interval ELSE next)
                   /\ loop' = Rest(c)
    /\ UNCHANGED <<record, clock, running, dirty, wake, timer, jobs, worker, editor>>

\* Mutant: the credential is not marked.
MutantMarkRefreshPending ==
    /\ loop.pc = "mark"
    /\ loop' = [loop EXCEPT !.pc = IF record[loop.cred].disabled THEN "refused" ELSE "tell"]
    /\ UNCHANGED <<record, clock, running, index, dirty, wake, timer, jobs, worker, editor>>

\* markRefreshPending: refused when the record changed since.
MarkRefreshPending ==
    /\ loop.pc = "mark"
    /\ LET c == loop.cred
           r == record[c]
       IN IF r.disabled \/ loop.at < r.after
            THEN /\ loop' = [loop EXCEPT !.pc = "refused"]
                 /\ UNCHANGED record
            ELSE /\ record' = [record EXCEPT ![c] =
                                  [@ EXCEPT !.after = loop.at + Pending, !.mark = "pending"]]
                 /\ loop' = [loop EXCEPT !.pc = "tell"]
    /\ UNCHANGED <<clock, running, index, dirty, wake, timer, jobs, worker, editor>>

LookAgain ==
    /\ loop.pc = "refused"
    /\ PutOrDrop(loop.cred, NextCheck(record[loop.cred], loop.at))
    /\ loop' = Rest(loop.cred)
    /\ UNCHANGED <<record, clock, running, dirty, wake, timer, jobs, worker, editor>>

\* Mutant: the pending credential is not put back.
MutantTellPending ==
    /\ loop.pc = "tell"
    /\ loop' = [loop EXCEPT !.pc = "send"]
    /\ UNCHANGED <<record, clock, running, index, dirty, wake, timer, jobs, worker, editor>>

TellPending ==
    /\ loop.pc = "tell"
    /\ QueueReschedule(loop.cred)
    /\ loop' = [loop EXCEPT !.pc = "send"]
    /\ UNCHANGED <<record, clock, running, index, timer, jobs, worker, editor>>

\* The send blocks while the channel is full, unless the loop is stopped.
SendJob ==
    /\ loop.pc = "send"
    /\ \/ Len(jobs) < JobBuffer /\ jobs' = Append(jobs, loop.cred)
       \/ ~running /\ UNCHANGED jobs
    /\ loop' = Rest(loop.cred)
    /\ UNCHANGED <<record, clock, running, index, dirty, wake, timer, worker, editor>>

\* After a wake-up, or when the batch is done, applyDirty drains the dirty
\* set ...
DrainDirty ==
    /\ loop.pc = "woken" \/ (loop.pc = "due" /\ DOMAIN loop.due = {})
    /\ dirty' = {}
    /\ loop' = [pc |-> "dirty", at |-> loop.at, left |-> dirty]
    /\ UNCHANGED <<record, clock, running, index, wake, timer, jobs, worker, editor>>

\* ... and moves each of them in the heap by its record of now.
ApplyDirty(c) ==
    /\ loop.pc = "dirty" /\ c \in loop.left
    /\ PutOrDrop(c, NextCheck(record[c], loop.at))
    /\ loop' = [loop EXCEPT !.left = @ \ {c}]
    /\ UNCHANGED <<record, clock, running, dirty, wake, timer, jobs, worker, editor>>

\* Mutant: what is due already gets no timer.
MutantResetTimer ==
    /\ loop.pc = "run" \/ (loop.pc = "dirty" /\ loop.left = {})
    /\ LET heap == {index[c] : c \in Creds} \ {0}
       IN timer' = IF heap = {} \/ Min(heap) <= clock THEN 0
                   ELSE Min({Min(heap), Horizon})
    /\ loop' = Asleep
    /\ UNCHANGED <<record, clock, running, index, dirty, wake, jobs, worker, editor>>

\* resetTimer, at the end of a round: the wait is counted from the instant the
\* round began, the timer from now.  A timer for a time within the horizon fires
\* within it.
ResetTimer ==
    /\ loop.pc = "run" \/ (loop.pc = "dirty" /\ loop.left = {})
    /\ LET heap == {index[c] : c \in Creds} \ {0}
           from == IF loop.pc = "run" THEN clock ELSE loop.at
           at == clock + Max({0, Min(heap) - from})
       IN timer' = IF heap = {} THEN 0
                   ELSE IF Min(heap) <= Horizon THEN Min({at, Horizon}) ELSE at
    /\ loop' = Asleep
    /\ UNCHANGED <<record, clock, running, index, dirty, wake, jobs, worker, editor>>

StopLoop ==
    /\ loop.pc = "select" /\ ~running
    /\ loop' = [pc |-> "stopped"]
    /\ UNCHANGED <<record, clock, running, index, dirty, wake, timer, jobs, worker, editor>>

\* StopAutoRefresh.
StopAutoRefresh ==
    /\ running
    /\ running' = FALSE
    /\ UNCHANGED <<record, clock, loop, index, dirty, wake, timer, jobs, worker, editor>>

-----------------------------------------------------------------------------
(* The workers. *)

\* A job is taken and the record copied; without an executor nothing is done.
TakeJob(w) ==
    /\ worker[w] = Free /\ jobs # <<>>
    /\ jobs' = Tail(jobs)
    /\ LET c == Head(jobs) IN
       worker' = [worker EXCEPT ![w] =
                    IF record[c].executor THEN [pc |-> "refresh", cred |-> c, copy |-> record[c]]
                    ELSE [pc |-> "requeue", cred |-> c, told |-> 1]]
    /\ UNCHANGED <<record, clock, running, loop, index, dirty, wake, timer, editor>>

StopWorker(w) ==
    /\ worker[w] = Free /\ ~running
    /\ worker' = [worker EXCEPT ![w] = [pc |-> "stopped"]]
    /\ UNCHANGED <<record, clock, running, loop, index, dirty, wake, timer, jobs, editor>>

\* The worker still tells the loop of its credential so many times.
Requeues(w, times) ==
    worker' = [worker EXCEPT ![w] = [pc |-> "requeue", cred |-> worker[w].cred, told |-> times]]

\* The call ends with the loop's context: the pending mark stays.
RefreshCanceled(w) ==
    /\ ~running
    /\ worker[w].pc = "refresh"
    /\ Requeues(w, 1)
    /\ UNCHANGED <<record, clock, running, loop, index, dirty, wake, timer, jobs, editor>>

RefreshFails(w) ==
    /\ worker[w].pc = "refresh"
    /\ record' = [record EXCEPT ![worker[w].cred] =
                     [@ EXCEPT !.after = clock + Failure, !.mark = "backoff"]]
    /\ Requeues(w, 2)
    /\ UNCHANGED <<clock, running, loop, index, dirty, wake, timer, jobs, editor>>

\* The refreshed copy replaces the record; if it is still due, the next refresh
\* waits.
Refreshed(w, life) ==
    /\ worker[w].pc = "refresh"
    /\ LET r == [worker[w].copy EXCEPT !.last = clock, !.after = 0, !.mark = "none",
                                       !.expiry = IF life = 0 THEN @ ELSE clock + life]
       IN \E again \in ShouldRefresh(r, clock) :
            record' = [record EXCEPT ![worker[w].cred] =
                         IF again THEN [r EXCEPT !.after = clock + Ineffective,
                                                 !.mark = "backoff"]
                                  ELSE r]
    /\ Requeues(w, 2)
    /\ UNCHANGED <<clock, running, loop, index, dirty, wake, timer, jobs, editor>>

\* The manager tells the loop, while it knows one, and then the worker does.
Requeue(w) ==
    /\ worker[w].pc = "requeue"
    /\ IF worker[w].told = 2
         THEN /\ Requeues(w, 1)
              /\ IF running THEN QueueReschedule(worker[w].cred) ELSE UNCHANGED <<dirty, wake>>
         ELSE /\ worker' = [worker EXCEPT ![w] = Free]
              /\ QueueReschedule(worker[w].cred)
    /\ UNCHANGED <<record, clock, running, loop, index, timer, jobs, editor>>

-----------------------------------------------------------------------------
(* Others change the record: they read it, write theirs, tell the loop.      *)
(* Bound: once the loop is told to stop, no edit begins and the clock stands. *)

\* The service applies a credential loaded from its file: what it knows of
\* refreshes is kept when both are enabled.
Load(e, c, loaded) ==
    /\ running /\ editor[e] = Free
    /\ editor' = [editor EXCEPT ![e] =
         [pc |-> "write", cred |-> c,
          new |-> IF record[c].disabled \/ loaded.disabled THEN loaded
                  ELSE [loaded EXCEPT !.last = record[c].last, !.after = record[c].after,
                                      !.mark = record[c].mark]]]
    /\ UNCHANGED <<record, clock, running, loop, index, dirty, wake, timer, jobs, worker>>

\* The operator disables or enables it, or the service finds its file gone.
Toggle(e, c) ==
    /\ running /\ editor[e] = Free
    /\ editor' = [editor EXCEPT ![e] =
         [pc |-> "write", cred |-> c, new |-> [record[c] EXCEPT !.disabled = ~@]]]
    /\ UNCHANGED <<record, clock, running, loop, index, dirty, wake, timer, jobs, worker>>

Write(e) ==
    /\ editor[e].pc = "write"
    /\ record' = [record EXCEPT ![editor[e].cred] = editor[e].new]
    /\ editor' = [editor EXCEPT ![e] = [pc |-> "tell", cred |-> @.cred]]
    /\ UNCHANGED <<clock, running, loop, index, dirty, wake, timer, jobs, worker>>

TellLoop(e) ==
    /\ editor[e].pc = "tell"
    /\ IF running THEN QueueReschedule(editor[e].cred) ELSE UNCHANGED <<dirty, wake>>
    /\ editor' = [editor EXCEPT ![e] = [pc |-> "done"]]
    /\ UNCHANGED <<record, clock, running, loop, index, timer, jobs, worker>>

Tick ==
    /\ running /\ clock < Horizon
    /\ clock' = clock + 1
    /\ UNCHANGED <<record, running, loop, index, dirty, wake, timer, jobs, worker, editor>>

-----------------------------------------------------------------------------
(* The specification. *)

\* Refreshes of c that are queued or under way.
Queued(c) == {i \in DOMAIN jobs : jobs[i] = c}
Refreshing(c) == {w \in RefreshWorkers : worker[w].pc = "refresh" /\ worker[w].cred = c}
InFlight(c) == Cardinality(Queued(c)) + Cardinality(Refreshing(c))
OnTheWay(c) == Queued(c) # {} \/ (loop.pc \in {"tell", "send"} /\ loop.cred = c)

RefreshInit ==
    /\ record \in {f \in [Creds -> UNION {FirstRecords[c] : c \in Creds}] :
                     \A c \in Creds : f[c] \in FirstRecords[c]}
    /\ clock = 1
    /\ running = TRUE
    /\ loop = [pc |-> "start"]
    /\ index = [c \in Creds |-> 0]
    /\ dirty = {} /\ wake = FALSE /\ timer = 0
    /\ jobs = <<>>
    /\ worker = [w \in RefreshWorkers |-> Free]
    /\ editor = [e \in Editors |-> Free]
    /\ lapsed = {}

LoopStep ==
    \/ Rebuild \/ Woken \/ MarkRefreshPending \/ LookAgain \/ TellPending \/ SendJob
    \/ DrainDirty \/ ResetTimer \/ StopLoop
    \/ \E c \in Creds : HandleDue(c) \/ ApplyDirty(c)

RefreshEnds(w) ==
    RefreshCanceled(w) \/ RefreshFails(w) \/ \E life \in Lifetimes : Refreshed(w, life)

WorkerStep(w) == TakeJob(w) \/ StopWorker(w) \/ RefreshEnds(w) \/ Requeue(w)

EditorStep(e) ==
    \/ \E c \in Creds : Toggle(e, c) \/ \E r \in FirstRecords[c] : Load(e, c, r)
    \/ Write(e) \/ TellLoop(e)

RefreshStep ==
    \/ LoopStep \/ TimerFires \/ StopAutoRefresh \/ Tick
    \/ \E w \in RefreshWorkers : WorkerStep(w)
    \/ \E e \in Editors : EditorStep(e)

\* The pending mark of c runs out or is written over.
MarkLost(c) ==
    record[c].mark = "pending" /\ (record'[c].mark # "pending" \/ record'[c].after <= clock')

RefreshNext ==
    /\ RefreshStep
    /\ lapsed' = {c \in Creds : /\ OnTheWay(c)' \/ Refreshing(c)' # {}
                                /\ c \in lapsed \/ MarkLost(c)}

\* Goroutines go on, time passes, every Refresh call returns.  Go's select takes
\* any of the channels that are ready, so neither the timer nor a wake-up is
\* passed over for ever.
RefreshFairness ==
    /\ WF_loop(LoopStep)
    /\ SF_loop(TimerFires)
    /\ WF_clock(Tick)
    /\ \A w \in RefreshWorkers : WF_worker(WorkerStep(w))
    /\ \A e \in Editors : WF_editor(Write(e) \/ TellLoop(e))

RefreshSpec == RefreshInit /\ [][RefreshNext]_refreshVars /\ RefreshFairness

-----------------------------------------------------------------------------
(* Properties. *)

Begun == loop.pc \notin {"start", "stopped"}

\* The credentials the loop has taken from the heap or the dirty set and not yet
\* put back.
InHand ==
    CASE loop.pc \in {"due", "mark", "refused", "tell"} -> DOMAIN loop.due
      [] loop.pc = "send" -> DOMAIN loop.due \ {loop.cred}
      [] loop.pc = "dirty" -> loop.left
      [] OTHER -> {}

\* Changed, and somebody is about to say so.
ToBeTold ==
    {worker[w].cred : w \in {v \in RefreshWorkers : worker[v].pc = "requeue"}}
      \cup {editor[e].cred : e \in {d \in Editors : editor[d].pc = "tell"}}

\* No credential is forgotten by the loop: whatever changes its record, and
\* wherever a job of it goes, a credential that may need refreshes is in the
\* heap or dirty or in the loop's hands or about to be reported, and a loop that
\* sleeps has a wake-up for what is dirty and a timer for what is in the heap.
NothingForgotten ==
    Begun /\ running =>
      /\ \A c \in Creds : NextCheck(record[c], clock) # 0 =>
            index[c] # 0 \/ c \in dirty \cup InHand \cup ToBeTold
      /\ loop.pc = "select" =>
            /\ dirty # {} => wake
            /\ (\E c \in Creds : index[c] # 0) => timer # 0

\* Two refreshes of one credential are queued or under way together only when
\* the pending mark of the first ran out or was written over before it ended.
OverlapExplained == \A c \in Creds : InFlight(c) > 1 => c \in lapsed

Due(c) == ShouldRefresh(record[c], clock) = {TRUE} /\ record[c].executor /\ ~record[c].apiKey

\* While the loop runs, a credential that is due is refreshed, unless an editor
\* or another refresh makes it no longer due: slow providers, a full channel of
\* jobs and changes meanwhile delay it but never lose it.
DueIsRefreshed ==
    \A c \in Creds :
        Due(c) ~> (Refreshing(c) # {} \/ ~running \/ ~(Due(c) \/ OnTheWay(c)))
=============================================================================
