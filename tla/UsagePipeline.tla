--------------------------- MODULE UsagePipeline ---------------------------
(***************************************************************************)
(* Usage records on their way out: any goroutine publishes to the usage    *)
(* manager, whose one dispatcher hands each record to the plugins; the     *)
(* queue plugin passes it to the subscribers there are, or else keeps it   *)
(* for those who pop, for as long as the retention says.  The queue can be *)
(* switched off and on, which empties it and ends the subscriptions.       *)
(***************************************************************************)
EXTENDS Integers, Sequences, SequencesExt, FiniteSets

CONSTANTS MaxRecords,    \* bound: records published
          Subscribers,   \* each subscribes once
          Capacity,      \* usageSubscriberBuffer
          CompactAt,     \* head index from which the items are copied
          Retention, LastTime,
          MaxPop         \* bound: items asked for at once

ASSUME UsageAssumption ==
    /\ MaxRecords \in Nat \ {0} /\ MaxPop \in Nat \ {0} /\ LastTime \in Nat
    /\ Capacity \in Nat \ {0} /\ CompactAt \in Nat /\ Retention \in Nat

VARIABLES published,  \* how many records were published; they are numbered
          pending,    \* Manager.queue
          closed,     \* Manager.closed
          worker,     \* the dispatcher: what it does, and to which record
          enabled,    \* whether the queue is, and statistics are, switched on
          clearing,   \* a switch was turned off and the queue is not cleared yet
          closings,   \* subscribers a clear took out and has not closed yet
          items, head, \* the queue: items from index head + 1 on are kept
          state,      \* of each subscriber
          chan,       \* its channel
          clock

keptVars == <<items, head>>
subVars == <<state, chan>>
managerVars == <<published, pending, closed>>
switchVars == <<enabled, clearing, closings>>

VARIABLES arrived,    \* history: what was kept since the last clear, with the times
          popped,     \* history: what was popped, with its age
          seen,       \* history: what each subscriber took
          log,        \* history: what came to be offered, whoever was there
          joined,     \* history: where in it each subscription began
          handled     \* history: records the plugin is done with

historyVars == <<arrived, popped, seen, log, joined, handled>>
usageVars == <<managerVars, worker, switchVars, keptVars, subVars, clock, historyVars>>

Waiting == [pc |-> "wait", record |-> 0, at |-> 0]

-----------------------------------------------------------------------------
(* The manager. *)

Publish ==
    /\ published < MaxRecords /\ ~closed
    /\ published' = published + 1
    /\ pending' = Append(pending, published + 1)
    /\ UNCHANGED <<closed, worker, switchVars, keptVars, subVars, clock, historyVars>>

Stop ==
    /\ ~closed /\ closed' = TRUE
    /\ UNCHANGED <<published, pending, worker, switchVars, keptVars, subVars, clock, historyVars>>

\* Mutant: a dispatcher that finds the manager closed leaves.
MutantDispatch ==
    /\ worker.pc = "wait" /\ pending # <<>> /\ ~closed
    /\ worker' = [pc |-> "check", record |-> Head(pending), at |-> 0]
    /\ pending' = Tail(pending)
    /\ UNCHANGED <<published, closed, switchVars, keptVars, subVars, clock, historyVars>>

\* run: what is there when the manager is closed is still dispatched.
Dispatch ==
    /\ worker.pc = "wait" /\ pending # <<>>
    /\ worker' = [pc |-> "check", record |-> Head(pending), at |-> 0]
    /\ pending' = Tail(pending)
    /\ UNCHANGED <<published, closed, switchVars, keptVars, subVars, clock, historyVars>>

-----------------------------------------------------------------------------
(* The plugin: HandleUsage and Enqueue. *)

\* The switches are read first, and not again.
CheckEnabled ==
    /\ worker.pc = "check"
    /\ worker' = IF enabled THEN [worker EXCEPT !.pc = "offer"] ELSE Waiting
    /\ handled' = IF enabled THEN handled ELSE handled \cup {worker.record}
    /\ UNCHANGED <<managerVars, switchVars, keptVars, subVars, clock, arrived, popped, seen, log,
                   joined>>

Subscribed == {s \in Subscribers : state[s] = "on"}
HasRoom(s) == Len(chan[s]) < Capacity

\* Mutant: a subscriber without room misses the record and stays.
MutantPublishToSubscribers ==
    /\ worker.pc = "offer"
    /\ chan' = [s \in Subscribers |-> IF s \in Subscribed /\ HasRoom(s)
                                       THEN Append(chan[s], worker.record) ELSE chan[s]]
    /\ log' = Append(log, worker.record)
    /\ handled' = IF Subscribed = {} THEN handled ELSE handled \cup {worker.record}
    /\ worker' = IF Subscribed = {} THEN [worker EXCEPT !.pc = "stamp"] ELSE Waiting
    /\ UNCHANGED <<managerVars, switchVars, keptVars, state, clock, arrived, popped, seen, joined>>

\* publishToSubscribers: one without room is closed.
PublishToSubscribers ==
    /\ worker.pc = "offer"
    /\ chan' = [s \in Subscribers |-> IF s \in Subscribed /\ HasRoom(s)
                                       THEN Append(chan[s], worker.record) ELSE chan[s]]
    /\ state' = [s \in Subscribers |-> IF s \in Subscribed /\ ~HasRoom(s)
                                        THEN "closed" ELSE state[s]]
    /\ log' = Append(log, worker.record)
    /\ handled' = IF Subscribed = {} THEN handled ELSE handled \cup {worker.record}
    /\ worker' = IF Subscribed = {} THEN [worker EXCEPT !.pc = "stamp"] ELSE Waiting
    /\ UNCHANGED <<managerVars, switchVars, keptVars, clock, arrived, popped, seen, joined>>

Stamp ==
    /\ worker.pc = "stamp"
    /\ worker' = [worker EXCEPT !.pc = "keep", !.at = clock]
    /\ UNCHANGED <<managerVars, switchVars, keptVars, subVars, clock, historyVars>>

-----------------------------------------------------------------------------
(* The queue. *)

None == [items |-> <<>>, head |-> 0]

\* pruneLocked: past the items that are too old, from the front.
Pruned(q, now) ==
    IF q.head >= Len(q.items) THEN None
    ELSE LET kept == {i \in q.head + 1 .. Len(q.items) : q.items[i].at >= now - Retention}
         IN  [q EXCEPT !.head = IF kept = {} THEN Len(q.items)
                                 ELSE (CHOOSE i \in kept : \A j \in kept : i <= j) - 1]

\* Mutant: the first item kept goes with those before it.
MutantCompacted(q) ==
    IF q.head = 0 THEN q
    ELSE IF q.head >= Len(q.items) THEN None
    ELSE IF q.head < CompactAt /\ q.head * 2 < Len(q.items) THEN q
    ELSE [items |-> SubSeq(q.items, q.head + 2, Len(q.items)), head |-> 0]

\* maybeCompactLocked.
Compacted(q) ==
    IF q.head = 0 THEN q
    ELSE IF q.head >= Len(q.items) THEN None
    ELSE IF q.head < CompactAt /\ q.head * 2 < Len(q.items) THEN q
    ELSE [items |-> SubSeq(q.items, q.head + 1, Len(q.items)), head |-> 0]

Becomes(q) == items' = q.items /\ head' = q.head

\* enqueue.
Keep ==
    /\ worker.pc = "keep"
    /\ LET q == Pruned([items |-> items, head |-> head], worker.at)
       IN  Becomes(Compacted([q EXCEPT
               !.items = Append(@, [record |-> worker.record, at |-> worker.at])]))
    /\ arrived' = arrived \cup {[record |-> worker.record, at |-> worker.at]}
    /\ handled' = handled \cup {worker.record}
    /\ worker' = Waiting
    /\ UNCHANGED <<managerVars, switchVars, subVars, clock, popped, seen, log, joined>>

\* PopOldest; now may be a moment ago.
PopOldest(n, now) ==
    /\ enabled
    /\ LET q     == Pruned([items |-> items, head |-> head], now)
           count == IF n < Len(q.items) - q.head THEN n ELSE Len(q.items) - q.head
       IN  IF count <= 0 THEN Becomes(None) /\ popped' = popped
           ELSE /\ Becomes(Compacted([q EXCEPT !.head = @ + count]))
                /\ popped' = popped \o [i \in 1 .. count |->
                      [record |-> q.items[q.head + i].record,
                       age    |-> now - q.items[q.head + i].at]]
    /\ UNCHANGED <<managerVars, worker, switchVars, subVars, clock, arrived, seen, log, joined,
                   handled>>

-----------------------------------------------------------------------------
(* Subscriptions. *)

Subscribe(s) ==
    /\ state[s] = "new"
    /\ state' = [state EXCEPT ![s] = "on"]
    /\ joined' = [joined EXCEPT ![s] = Len(log)]
    /\ UNCHANGED <<managerVars, worker, switchVars, keptVars, chan, clock, arrived, popped, seen, log,
                   handled>>

\* A closed channel is read to its end.
Take(s) ==
    /\ chan[s] # <<>>
    /\ seen' = [seen EXCEPT ![s] = Append(@, Head(chan[s]))]
    /\ chan' = [chan EXCEPT ![s] = Tail(@)]
    /\ UNCHANGED <<managerVars, worker, switchVars, keptVars, state, clock, arrived, popped, log,
                   joined, handled>>

\* Nobody reads any more.
Unsubscribe(s) ==
    /\ state[s] \in {"on", "cleared"}
    /\ state' = [state EXCEPT ![s] = IF @ = "on" THEN "closed" ELSE @]
    /\ UNCHANGED <<managerVars, worker, switchVars, keptVars, chan, clock, historyVars>>

-----------------------------------------------------------------------------
(* The switches: SetEnabled, SetUsageStatisticsEnabled. *)

SwitchOn ==
    /\ ~enabled /\ ~clearing /\ closings = {}
    /\ enabled' = TRUE
    /\ UNCHANGED <<managerVars, worker, clearing, closings, keptVars, subVars, clock, historyVars>>

SwitchOff ==
    /\ enabled /\ enabled' = FALSE
    /\ clearing' = TRUE
    /\ UNCHANGED <<managerVars, worker, closings, keptVars, subVars, clock, historyVars>>

\* clear: under the mutex the queue is emptied ...
Clear ==
    /\ clearing /\ clearing' = FALSE
    /\ Becomes(None) /\ arrived' = {}
    /\ closings' = Subscribed
    /\ state' = [s \in Subscribers |-> IF s \in Subscribed THEN "cleared" ELSE state[s]]
    /\ UNCHANGED <<managerVars, worker, enabled, chan, clock, popped, seen, log, joined, handled>>

\* ... and without it the channels are closed.
CloseCleared(s) ==
    /\ s \in closings
    /\ closings' = closings \ {s}
    /\ state' = [state EXCEPT ![s] = "closed"]
    /\ UNCHANGED <<managerVars, worker, enabled, clearing, keptVars, chan, clock, historyVars>>

Tick ==
    /\ clock < LastTime
    /\ clock' = clock + 1
    /\ UNCHANGED <<managerVars, worker, switchVars, keptVars, subVars, historyVars>>

-----------------------------------------------------------------------------
(* The specification. *)

UsageInit ==
    /\ published = 0 /\ pending = <<>> /\ closed = FALSE
    /\ worker = Waiting
    /\ enabled \in BOOLEAN /\ clearing = FALSE /\ closings = {}
    /\ items = <<>> /\ head = 0
    /\ state = [s \in Subscribers |-> "new"] /\ chan = [s \in Subscribers |-> <<>>]
    /\ clock = 0
    /\ arrived = {} /\ popped = <<>> /\ handled = {}
    /\ seen = [s \in Subscribers |-> <<>>]
    /\ log = <<>> /\ joined = [s \in Subscribers |-> 0]

WorkerStep == Dispatch \/ CheckEnabled \/ PublishToSubscribers \/ Stamp \/ Keep

UsageNext ==
    \/ Publish \/ Stop \/ WorkerStep
    \/ \E n \in 1 .. MaxPop, now \in {clock - 1, clock} : PopOldest(n, now)
    \/ \E s \in Subscribers : Subscribe(s) \/ Take(s) \/ Unsubscribe(s) \/ CloseCleared(s)
    \/ SwitchOn \/ SwitchOff \/ Clear
    \/ Tick

UsageSpec == UsageInit /\ [][UsageNext]_usageVars /\ WF_usageVars(WorkerStep)

-----------------------------------------------------------------------------
(* Properties. *)

Increasing(s) == \A i, j \in DOMAIN s : i < j => s[i] < s[j]
RecordsOf(s) == [i \in DOMAIN s |-> s[i].record]

\* What each subscriber was given: what it took, and what its channel still holds.
Received == [s \in Subscribers |-> seen[s] \o chan[s]]

\* Whatever is kept is popped once, in the order it was published and no later
\* than the retention allows, nothing is lost before, and what a subscriber was
\* given is never kept as well.
PoppedOnceInOrder ==
    LET kept == RecordsOf(SubSeq(items, head + 1, Len(items)))
        out  == RecordsOf(popped) \o kept
    IN  /\ Increasing(out)
        /\ \A i \in DOMAIN popped : popped[i].age <= Retention
        /\ \A a \in arrived : a.at >= clock - Retention => a.record \in ToSet(out)
        /\ \A s \in Subscribers : ToSet(out) \cap ToSet(Received[s]) = {}

\* A subscription has no gaps: a subscriber is given what came to be offered since it
\* subscribed, each record of it in order and, for as long as it is subscribed, all of
\* it; one that had to miss a record is subscribed no longer and gets nothing after it.
SubscriptionHasNoGap ==
    /\ Increasing(log)
    /\ \A s \in Subscribers :
        /\ joined[s] + Len(Received[s]) <= Len(log)
        /\ \A i \in 1 .. Len(Received[s]) : Received[s][i] = log[joined[s] + i]
        /\ state[s] = "on" => joined[s] + Len(Received[s]) = Len(log)

\* Every record that was published is dealt with, also after Stop.
PublishedIsHandled ==
    \A r \in 1 .. MaxRecords : published >= r ~> r \in handled
=============================================================================
