------------------------------- MODULE MCEnds -------------------------------
(***************************************************************************)
(* Instances of three parts whose work has to come to an end: the browsers *)
(* and the job queue of Auto, and the proxy of the manager.  They share no *)
(* state that their ends depend on, so one of them is started and the      *)
(* others stay as they were before their first call: their states add up   *)
(* instead of multiplying.                                                 *)
(***************************************************************************)
EXTENDS BrowserSession, TLC

VARIABLES
    part,   \* the part that is started
    account, limit, call, job, status, jobPhase, result, attempt, snapshot,
    queue, slots, running, pumping, cap, jobRestarts,
    row, settings, cool, inflight, older, refreshing, picks, phase, seen,
    tried, at, reply, pause, task, prev, restarts

queueVars == <<account, limit, call, job, status, jobPhase, result, attempt,
               snapshot, queue, slots, running, pumping, cap, jobRestarts>>
proxyVars == <<row, settings, cool, inflight, older, refreshing, picks, phase,
               seen, tried, at, reply, pause, task, prev, restarts>>
endsVars == <<part, browserVars, queueVars, proxyVars>>

(* Two cookie renewals that compete for the one place of their pool.       *)
J == INSTANCE JobManager WITH
        Accounts <- {"a1", "a2"}, Jobs <- {"j1", "j2"}, None <- "none",
        Kinds <- {"cookie"}, MaxLimit <- 1, AuthkitRetries <- 0,
        MaxRestarts <- 0, phase <- jobPhase, restarts <- jobRestarts

(* Two requests whose 429s refresh the one account there is.               *)
F == INSTANCE Forwarder WITH
        Accounts <- {"a1"}, Requests <- {"r1", "r2"}, None <- "none",
        Replies <- {"ok", "timeout", "broken", "limited", "monthly"}, HoldTimes <- {1},
        AuthHold <- 1, BlindHold <- 1, Longest <- 1, Window <- 1,
        RetryChoices <- {1}, RPMChoices <- {2}, MaxRestarts <- 0

(* A part that is not started has one initial state.                       *)
BrowserInit ==
    /\ InitBrowser
    /\ part # "browser" => licensed /\ public

(* Rows that admit a renewal.                                              *)
QueueInit ==
    /\ J!Init
    /\ \A a \in {"a1", "a2"} : account[a].credentials = "full" /\ ~account[a].paid

ProxyInit ==
    /\ F!Init
    /\ part # "proxy" => ~row["a1"].stale

EndsInit ==
    /\ part \in {"browser", "queue", "proxy"}
    /\ BrowserInit /\ QueueInit /\ ProxyInit

(* Nobody edits, deletes or restarts while the queue or the proxy works.   *)
EndsNext ==
    /\ UNCHANGED part
    /\ \/ part = "browser" /\ NextBrowser /\ UNCHANGED <<queueVars, proxyVars>>
       \/ part = "queue" /\ J!QueueNext /\ UNCHANGED <<browserVars, proxyVars>>
       \/ part = "proxy" /\ F!ProxyNext /\ UNCHANGED <<browserVars, queueVars>>

(* Before the first call nothing is enabled that fairness speaks of.       *)
EndsSpec ==
    /\ EndsInit /\ [][EndsNext]_endsVars
    /\ FairBrowser /\ J!Fairness /\ F!Fairness

(* Every job that was accepted ends and gives its place back.              *)
EveryJobEnds == J!EveryJobEnds

(* Every request is answered, also when its refreshes wait for each other. *)
EveryRequestIsAnswered == F!EveryRequestIsAnswered

(* An account that is kept out for a refresh comes back.                   *)
HeldAccountReturns == F!HeldAccountReturns
=============================================================================
