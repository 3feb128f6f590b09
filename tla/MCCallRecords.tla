--------------------------- MODULE MCCallRecords ---------------------------
(***************************************************************************)
(* Small instances of calls of the Antigravity executor and of the usage   *)
(* records of any calls on their way out, one behaviour in one of them:    *)
(* two calls that share a cooldown, a call beside readings of the credits  *)
(* of its account, a call of any kind with a client that leaves; the usage *)
(* pipeline with one subscriber while time passes, or with two at once.    *)
(***************************************************************************)
EXTENDS UsagePipeline, AntigravityCalls

CONSTANTS b1, b2, k1, k2, a1

VARIABLE instance

mcRecordsVars == <<usageVars, antigravityVars, instance>>

OfUsage == instance \in {"usage", "subscribers"}

\* What the instance leaves idle of the usage pipeline.
UsageIdle ==
    /\ instance = "usage" => state[b2] = "new"
    /\ instance = "subscribers" => clock = 0

\* What the instance leaves idle of the executor.
AntigravityIdle ==
    /\ instance # "cooldown" => instant = 1 /\ call[k2].pc = "idle"
    /\ instance # "client" => \A c \in Calls : ~call[c].gone
    /\ instance # "credits" =>
          /\ ~creditsOn
          /\ \A a \in Accounts : balance["refresh"][a] = "off" /\ funds[a] = "no"
    /\ instance = "credits" => creditsOn /\ call[k1].kind \in {"count", "whole"}
    /\ instance = "cooldown" =>
          /\ fresh = Accounts
          /\ \A c \in Calls : call[c].kind # "stream" /\ ~call[c].credits
    /\ OfUsage => fresh = Accounts

MCInit ==
    /\ UsageInit /\ AntigravityInit
    /\ instance \in {"cooldown", "credits", "client", "usage", "subscribers"}
    /\ AntigravityIdle
    /\ OfUsage \/ enabled

MCNext ==
    /\ UNCHANGED instance
    /\ \/ OfUsage /\ UsageNext /\ UNCHANGED antigravityVars
       \/ ~OfUsage /\ AntigravityNext /\ UNCHANGED usageVars
    /\ AntigravityIdle' /\ UsageIdle'

\* Fairness as in UsageSpec and AntigravitySpec.
MCSpec ==
    /\ MCInit /\ [][MCNext]_mcRecordsVars
    /\ WF_usageVars(OfUsage /\ WorkerStep)
    /\ \A c \in Calls : WF_antigravityVars(~OfUsage /\ CallStep(c))
=============================================================================
