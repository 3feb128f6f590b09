------------------------ MODULE MCCredentialUpkeep ------------------------
(***************************************************************************)
(* Small instances of what keeps credentials current in the background,    *)
(* one behaviour in one of them.  Of AutoRefresh: two credentials in one   *)
(* batch, two workers on one credential, an editor beside a worker.  Of    *)
(* Watcher: a file that changes while reloads go on, a websocket session   *)
(* beside a reload.                                                        *)
(***************************************************************************)
EXTENDS AutoRefresh, Watcher, TLC

CONSTANTS c1, c2, r1, r2, e1, f1, ch, v1, v2, rl1, rl2

VARIABLE instance

mcUpkeepVars == <<refreshVars, watcherVars, instance>>

OfRefresh == instance \in {"batch", "workers", "edits"}
OfWatcher == instance \in {"files", "sessions"}

\* A token with an expiry, refreshed ahead of it.
OAuth ==
    [disabled |-> FALSE, apiKey |-> FALSE, executor |-> TRUE, evaluator |-> FALSE,
     pref |-> 0, lead |-> 1, expiry |-> 2, last |-> 0, after |-> 0, mark |-> "none"]

\* The second credential has an interval of its own, or is not to be refreshed
\* by anybody, or is not in use; with the watcher, neither is in use.
Tokens == (c1 :> {OAuth, [OAuth EXCEPT !.disabled = TRUE]}) @@
          (c2 :> {[OAuth EXCEPT !.expiry = 0, !.lead = 0, !.pref = 2],
                  [OAuth EXCEPT !.evaluator = TRUE, !.executor = FALSE],
                  [OAuth EXCEPT !.disabled = TRUE]})

\* What the instance leaves idle.
Idle ==
    /\ instance # "batch" => record[c2].disabled
    /\ instance = "batch" => ~record[c2].disabled /\ running
    /\ instance # "workers" => worker[r2] = Free
    /\ editor[e1] = Free \/ (instance = "edits" /\ (editor[e1].pc # "done" => editor[e1].cred = c1))
    /\ instance # "sessions" => session[ch] = Resting
    /\ instance = "sessions" => fileEvents = <<>>

MCInit ==
    /\ RefreshInit /\ WatcherInit
    /\ instance \in {"batch", "workers", "edits", "files", "sessions"}
    /\ disk[f1] \in IF OfWatcher THEN {v1, Gone} ELSE {Gone}
    /\ reloader[rl1] # Resting
    /\ record[c1].disabled <=> OfWatcher
    /\ Idle

MCNext ==
    /\ UNCHANGED instance
    /\ \/ OfRefresh /\ RefreshNext /\ UNCHANGED watcherVars
       \/ OfWatcher /\ WatcherNext /\ UNCHANGED refreshVars
    /\ Idle'

\* Fairness as in RefreshSpec and WatcherSpec, for what the instance does not leave
\* idle.
MCSpec ==
    /\ MCInit /\ [][MCNext]_mcUpkeepVars
    /\ WF_loop(OfRefresh /\ LoopStep)
    /\ SF_loop(OfRefresh /\ TimerFires)
    /\ WF_clock(OfRefresh /\ Tick)
    /\ WF_worker(OfRefresh /\ WorkerStep(r1))
    /\ WF_worker(instance = "workers" /\ WorkerStep(r2))
    /\ WF_editor(OfRefresh /\ (Write(e1) \/ TellLoop(e1)))
    /\ WF_<<follower, fileEvents>>(OfWatcher /\ FollowerStep)
    /\ WF_reloader(OfWatcher /\ ReloaderStep(rl1))
    /\ WF_reloader(OfWatcher /\ ReloaderStep(rl2))
    /\ WF_session(OfWatcher /\ SessionDispatches(ch))
    /\ WF_batch(OfWatcher /\ NextPendingBatch) /\ WF_batch(OfWatcher /\ Send)
    /\ WF_queue(OfWatcher /\ HandleAuthUpdate)
=============================================================================
