------------------------------ MODULE Watcher ------------------------------
(***************************************************************************)
(* How a change of a credential file reaches the service: one goroutine    *)
(* follows file events, others reload everything when the configuration    *)
(* changes, websocket sessions announce credentials of their own; each     *)
(* compares with what the watcher knows under one mutex and hands updates  *)
(* over after it, under another.  Pending updates are coalesced by         *)
(* credential, a loop sends them in batches through a bounded channel, the *)
(* service applies them.  A file stands for the one credential in it.      *)
(***************************************************************************)
EXTENDS Integers, Sequences, FiniteSets, SequencesExt

CONSTANTS Files,
          Channels,      \* websocket sessions, with credentials of their own
          Contents,      \* what a file may hold
          Partial,       \* a file that is being written: no credential can be read
          Gone,
          Reloaders,     \* goroutines of configuration timers
          QueueSize,     \* capacity of the service's channel
          Edits,         \* bound: changes of files and sessions
          Reloads        \* bound: reloads after the first

ASSUME WatcherAssumption ==
    /\ QueueSize \in Nat \ {0} /\ Edits \in Nat /\ Reloads \in Nat
    /\ Contents # {} /\ Partial \notin Contents /\ Gone \notin Contents /\ Partial # Gone
    /\ IsFiniteSet(Files) /\ IsFiniteSet(Channels) /\ Files \cap Channels = {}

Ids == Files \cup Channels

VARIABLES disk, edits,
          fileEvents,   \* of the operating system, in order
          follower,     \* the goroutine of processEvents
          reloader, reloads,
          session,      \* goroutines of websocket sessions
          current,      \* currentAuths
          runtime,      \* runtimeAuths
          hashes,       \* lastAuthHashes
          known,        \* files with credentials in fileAuthsByPath
          recent,       \* files whose last removal is less than a second ago
          order,        \* pendingOrder
          pending,      \* pendingUpdates
          batch,        \* what the dispatch loop still has to send
          queue,        \* the channel of the service
          view,         \* the service's credentials
          told,         \* history: the last update handed over for each credential
          disturbed     \* history: credentials whose change a reload met halfway

worldVars == <<disk, edits, fileEvents>>
tableVars == <<current, runtime, hashes, known>>
busVars == <<order, pending, batch, queue, view, told>>
watcherVars == <<worldVars, follower, reloader, reloads, session, tableVars, recent, busVars,
                 disturbed>>

Resting == [pc |-> "idle"]

-----------------------------------------------------------------------------
(* The files. *)

Event(kind, f) == fileEvents' = Append(fileEvents, [kind |-> kind, file |-> f])

\* A file is saved, at once or after it was truncated, or deleted.
ChangeFile(f, content) ==
    /\ edits > 0 /\ edits' = edits - 1
    /\ disk[f] # content /\ disk' = [disk EXCEPT ![f] = content]
    /\ Event(IF content = Gone THEN "remove" ELSE "write", f)
    /\ UNCHANGED <<follower, reloader, reloads, session, tableVars, recent, busVars>>

Readable(content) == IF content \in Contents THEN content ELSE Gone

-----------------------------------------------------------------------------
(* dispatchAuthUpdates: updates of credentials that are pending already take *)
(* the place of the older ones.                                             *)

HandOver(ups) ==
    /\ order' = order \o SetToSeq(DOMAIN ups \ DOMAIN pending)
    /\ pending' = [i \in DOMAIN ups \cup DOMAIN pending |->
                     IF i \in DOMAIN ups THEN ups[i] ELSE pending[i]]
    /\ told' = [i \in Ids |-> IF i \in DOMAIN ups THEN ups[i] ELSE told[i]]

\* Nothing to hand over ends the work of a goroutine.
Dispatching(ups) == IF DOMAIN ups = {} THEN Resting ELSE [pc |-> "dispatch", ups |-> ups]

One(i, auth) == [x \in {i} |-> auth]

-----------------------------------------------------------------------------
(* The goroutine of file events. *)

\* authFileUnchanged and the reading part of addOrUpdateClient, which takes what
\* is in the file now.
ReadFile(f) ==
    follower' = IF Readable(disk[f]) = Gone \/ disk[f] = hashes[f] THEN Resting
                ELSE [pc |-> "update", file |-> f, data |-> disk[f]]

\* A removal soon after another is dropped; else the file is given time to come
\* back.
TakeEvent ==
    /\ follower = Resting /\ fileEvents # <<>>
    /\ fileEvents' = Tail(fileEvents)
    /\ LET e == Head(fileEvents) IN
       CASE e.kind = "write" -> ReadFile(e.file) /\ UNCHANGED recent
         [] e.kind = "remove" /\ e.file \in recent -> UNCHANGED <<follower, recent>>
         [] OTHER -> /\ follower' = [pc |-> "settle", file |-> e.file]
                     /\ recent' = recent \cup {e.file}
    /\ UNCHANGED <<disk, edits, reloader, reloads, session, tableVars, busVars>>

\* After replaceCheckDelay.
Settle ==
    /\ follower.pc = "settle"
    /\ LET f == follower.file IN
       IF disk[f] # Gone THEN ReadFile(f)
       ELSE follower' = IF hashes[f] # Gone THEN [pc |-> "remove", file |-> f] ELSE Resting
    /\ UNCHANGED <<worldVars, reloader, reloads, session, tableVars, recent, busVars>>

\* authRemoveDebounceWindow ends.
Forget(f) ==
    /\ f \in recent /\ follower.pc # "settle"
    /\ recent' = recent \ {f}
    /\ UNCHANGED <<worldVars, follower, reloader, reloads, session, tableVars, busVars>>

\* addOrUpdateClient, under the mutex.
AddOrUpdateClient ==
    /\ follower.pc = "update"
    /\ LET f == follower.file
           new == follower.data
       IN IF hashes[f] = new THEN follower' = Resting /\ UNCHANGED tableVars
          ELSE /\ hashes' = [hashes EXCEPT ![f] = new]
               /\ known' = known \cup {f}
               /\ current' = [current EXCEPT ![f] = new]
               /\ follower' = IF current[f] = new THEN Resting ELSE Dispatching(One(f, new))
               /\ UNCHANGED runtime
    /\ UNCHANGED <<worldVars, reloader, reloads, session, recent, busVars>>

\* removeClient, under the mutex.
RemoveClient ==
    /\ follower.pc = "remove"
    /\ LET f == follower.file IN
       /\ hashes' = [hashes EXCEPT ![f] = Gone]
       /\ known' = known \ {f}
       /\ IF f \in known THEN /\ current' = [current EXCEPT ![f] = Gone]
                              /\ follower' = Dispatching(One(f, Gone))
                         ELSE follower' = Resting /\ UNCHANGED current
    /\ UNCHANGED <<worldVars, reloader, reloads, session, runtime, recent, busVars>>

FollowerDispatches ==
    /\ follower.pc = "dispatch"
    /\ HandOver(follower.ups)
    /\ follower' = Resting
    /\ UNCHANGED <<worldVars, reloader, reloads, session, tableVars, recent, batch, queue, view>>

-----------------------------------------------------------------------------
(* reloadClients, at the start and when the configuration has changed. *)

\* At the start the files are scanned first.
Rescan(r) ==
    /\ reloader[r].pc = "rescan"
    /\ hashes' = disk
    /\ known' = {f \in Files : disk[f] \in Contents}
    /\ reloader' = [reloader EXCEPT ![r] = [pc |-> "snapshot", force |-> FALSE]]
    /\ UNCHANGED <<worldVars, follower, reloads, session, current, runtime, recent, busVars>>

\* Later, a change may force an update of every credential, or take those of some
\* providers out first.
ReloadConfig(r, force, affected) ==
    /\ reloader[r] = Resting
    /\ reloads > 0 /\ reloads' = reloads - 1
    /\ current' = [i \in Ids |-> IF i \in affected THEN Gone ELSE current[i]]
    /\ reloader' = [reloader EXCEPT ![r] = [pc |-> "snapshot", force |-> force]]
    /\ UNCHANGED <<worldVars, follower, session, runtime, hashes, known, recent, busVars>>

\* refreshAuthState: the files are read with no mutex held ...
Snapshot(r) ==
    /\ reloader[r].pc = "snapshot"
    /\ reloader' = [reloader EXCEPT ![r] =
         [pc |-> "apply", force |-> @.force, files |-> [f \in Files |-> Readable(disk[f])]]]
    /\ UNCHANGED <<worldVars, follower, reloads, session, tableVars, recent, busVars>>

\* Mutant: the websocket sessions are forgotten.
MutantApplySnapshot(r) ==
    /\ reloader[r].pc = "apply"
    /\ LET new == [i \in Ids |-> IF i \in Files THEN reloader[r].files[i] ELSE Gone]
           changed == {i \in Ids : \/ new[i] # current[i]
                                   \/ reloader[r].force /\ new[i] # Gone}
       IN /\ current' = new
          /\ reloader' = [reloader EXCEPT ![r] = Dispatching([i \in changed |-> new[i]])]
    /\ UNCHANGED <<worldVars, follower, reloads, session, runtime, hashes, known, recent, busVars>>

\* ... and with the mutex compared (prepareAuthUpdatesLocked); what is known of
\* the files, their hashes, stays.
ApplySnapshot(r) ==
    /\ reloader[r].pc = "apply"
    /\ LET new == [i \in Ids |-> IF i \in Files THEN reloader[r].files[i] ELSE runtime[i]]
           changed == {i \in Ids : \/ new[i] # current[i]
                                   \/ reloader[r].force /\ new[i] # Gone}
       IN /\ current' = new
          /\ reloader' = [reloader EXCEPT ![r] = Dispatching([i \in changed |-> new[i]])]
    /\ UNCHANGED <<worldVars, follower, reloads, session, runtime, hashes, known, recent, busVars>>

ReloaderDispatches(r) ==
    /\ reloader[r].pc = "dispatch"
    /\ HandOver(reloader[r].ups)
    /\ reloader' = [reloader EXCEPT ![r] = Resting]
    /\ UNCHANGED <<worldVars, follower, reloads, session, tableVars, recent, batch, queue, view>>

-----------------------------------------------------------------------------
(* dispatchRuntimeAuthUpdate: a session comes, with the credential the service  *)
(* makes for it, or goes.                                                    *)

SessionAuth == CHOOSE auth \in Contents : TRUE

Announce(c, auth) ==
    /\ edits > 0 /\ edits' = edits - 1
    /\ session[c] = Resting /\ runtime[c] # auth
    /\ runtime' = [runtime EXCEPT ![c] = auth]
    /\ current' = [current EXCEPT ![c] = auth]
    /\ session' = [session EXCEPT ![c] = Dispatching(One(c, auth))]
    /\ UNCHANGED <<disk, fileEvents, follower, reloader, reloads, hashes, known, recent, busVars>>

SessionDispatches(c) ==
    /\ session[c].pc = "dispatch"
    /\ HandOver(session[c].ups)
    /\ session' = [session EXCEPT ![c] = Resting]
    /\ UNCHANGED <<worldVars, follower, reloader, reloads, tableVars, recent, batch, queue, view>>

-----------------------------------------------------------------------------
(* dispatchLoop and consumeAuthUpdates. *)

NextPendingBatch ==
    /\ batch = <<>> /\ order # <<>>
    /\ batch' = [n \in DOMAIN order |-> [id |-> order[n], auth |-> pending[order[n]]]]
    /\ order' = <<>>
    /\ pending' = <<>>
    /\ UNCHANGED <<worldVars, follower, reloader, reloads, session, tableVars, recent, queue,
                   view, told>>

\* Mutant: what finds the channel full is dropped.
MutantSend ==
    /\ batch # <<>>
    /\ queue' = IF Len(queue) < QueueSize THEN Append(queue, Head(batch)) ELSE queue
    /\ batch' = Tail(batch)
    /\ UNCHANGED <<worldVars, follower, reloader, reloads, session, tableVars, recent, order,
                   pending, view, told>>

Send ==
    /\ batch # <<>> /\ Len(queue) < QueueSize
    /\ queue' = Append(queue, Head(batch))
    /\ batch' = Tail(batch)
    /\ UNCHANGED <<worldVars, follower, reloader, reloads, session, tableVars, recent, order,
                   pending, view, told>>

\* handleAuthUpdate: the manager has the new record, or disables the old one.
HandleAuthUpdate ==
    /\ queue # <<>>
    /\ view' = [view EXCEPT ![Head(queue).id] = Head(queue).auth]
    /\ queue' = Tail(queue)
    /\ UNCHANGED <<worldVars, follower, reloader, reloads, session, tableVars, recent, order,
                   pending, batch, told>>

-----------------------------------------------------------------------------
(* The specification. *)

WatcherInit ==
    /\ disk \in [Files -> Contents \cup {Gone}]
    /\ edits = Edits /\ reloads = Reloads
    /\ fileEvents = <<>>
    /\ follower = Resting
    /\ \E first \in Reloaders :
          reloader = [r \in Reloaders |-> IF r = first THEN [pc |-> "rescan"] ELSE Resting]
    /\ session = [c \in Channels |-> Resting]
    /\ current = [i \in Ids |-> Gone]
    /\ runtime = [c \in Channels |-> Gone]
    /\ hashes = [f \in Files |-> Gone]
    /\ known = {} /\ recent = {}
    /\ order = <<>> /\ pending = <<>> /\ batch = <<>> /\ queue = <<>>
    /\ view = [i \in Ids |-> Gone]
    /\ told = [i \in Ids |-> Gone]
    /\ disturbed = {}

FollowerStep ==
    TakeEvent \/ Settle \/ AddOrUpdateClient \/ RemoveClient \/ FollowerDispatches

ReloaderStep(r) == Rescan(r) \/ Snapshot(r) \/ ApplySnapshot(r) \/ ReloaderDispatches(r)

WatcherStep ==
    \/ \E f \in Files : Forget(f) \/ \E c \in Contents \cup {Partial, Gone} : ChangeFile(f, c)
    \/ FollowerStep
    \/ \E r \in Reloaders :
          \/ ReloaderStep(r)
          \/ \E force \in BOOLEAN, affected \in {{}, Files} : ReloadConfig(r, force, affected)
    \/ \E c \in Channels :
          SessionDispatches(c) \/ \E auth \in {SessionAuth, Gone} : Announce(c, auth)
    \/ NextPendingBatch \/ Send \/ HandleAuthUpdate

\* A change of credential i is waiting for its goroutine, or in its hands.
Underway(i) ==
    \/ \E n \in DOMAIN fileEvents : fileEvents[n].file = i
    \/ follower.pc \in {"settle", "update", "remove"} /\ follower.file = i
    \/ follower.pc = "dispatch" /\ i \in DOMAIN follower.ups
    \/ i \in Channels /\ session[i] # Resting

\* Reloaders with a snapshot of the files, or updates from it.
Halfway == {r \in Reloaders : reloader[r].pc \in {"apply", "dispatch"}}

WatcherNext ==
    /\ WatcherStep
    /\ disturbed' = disturbed
         \cup {i \in Ids : Halfway' # {} /\ Underway(i)'}
         \cup {f \in Files : \E r \in Reloaders :
                   reloader'[r].pc = "apply" /\ reloader'[r].files[f] # hashes'[f]}
         \cup {f \in Files : \E r, s \in Reloaders :
                   r # s /\ reloader'[r] # Resting /\ reloader'[s] # Resting}
         \cup {f \in recent : /\ fileEvents # <<>> /\ fileEvents' = Tail(fileEvents)
                              /\ Head(fileEvents) = [kind |-> "remove", file |-> f]}

\* Goroutines go on, the service takes its updates.
WatcherFairness ==
    /\ WF_<<follower, fileEvents>>(FollowerStep)
    /\ \A r \in Reloaders : WF_reloader(ReloaderStep(r))
    /\ \A c \in Channels : WF_session(SessionDispatches(c))
    /\ WF_batch(NextPendingBatch) /\ WF_batch(Send)
    /\ WF_queue(HandleAuthUpdate)

WatcherSpec == WatcherInit /\ [][WatcherNext]_watcherVars /\ WatcherFairness

-----------------------------------------------------------------------------
(* Properties. *)

\* The service comes to have the last update handed over for each credential,
\* whatever was coalesced, sent in batches or waited for a place in the channel: the
\* changes there are come to an end.
Delivered == []<>(view = told)

Quiet ==
    /\ fileEvents = <<>> /\ follower = Resting
    /\ \A r \in Reloaders : reloader[r] = Resting
    /\ \A c \in Channels : session[c] = Resting
    /\ order = <<>> /\ batch = <<>> /\ queue = <<>>

\* A file that can be read, or a session, and the credential it stands for.
Settled(i) == i \in Channels \/ disk[i] # Partial
Wanted(i) == IF i \in Channels THEN runtime[i] ELSE disk[i]

\* It has, unless a reload met the change halfway, two reloads met, or a removal
\* was taken for the echo of another.
StaleOnlyByReload ==
    Quiet => \A i \in Ids \ disturbed : Settled(i) => view[i] = Wanted(i)
=============================================================================
