---------------------------- MODULE MCJobManager ----------------------------
(***************************************************************************)
(* Instances of JobManager.  The full environment is checked with two      *)
(* calls; the interplay of two calls with edits of the limits, and of up   *)
(* to four calls, is checked in a quiet environment: rows that admit every *)
(* kind of job.                                                            *)
(***************************************************************************)
EXTENDS JobManager, TLC

CONSTANTS InitialLimits   \* the settings a quiet instance starts with

QuietInit ==
    /\ Init
    /\ \A a \in Accounts : account[a].credentials = "full" /\ ~account[a].paid
    /\ limit \in InitialLimits

QuietSpec == QuietInit /\ [][QueueNext]_vars

Entered == {j \in Jobs : call[j] # "idle"}

(* Quiet rows, but the two limits are edited at any time.                  *)
EditSpec == QuietInit /\ [][QueueNext \/ SaveLimits]_vars

Ones == {[p \in Pools |-> 1]}
AllLimits == [Pools -> 1..MaxLimit]

(* No job pays: keeps the instance with two pools small.                   *)
NobodyPays == \A j \in Jobs : ~job[j].autoPay /\ result[j] # "paid"

(* Two calls of any kind, for the same account or for two, one of the two  *)
(* limits above one; or a crowd: up to four accounts, at most one of them  *)
(* to log in, pools of one place, renewals that are accepted one after the *)
(* other, jobs that all go well.  In a crowd a renewal runs, a second      *)
(* waits for its place, the login behind it is taken out of the middle of  *)
(* the queue, and a third renewal stands behind that.                      *)
Pair == CHOOSE few \in SUBSET Accounts : Cardinality(few) = 2

InPair ==
    /\ \E p \in Pools : limit[p] = 1
    /\ \A j \in Entered : call[j] # "refused" => AccountOf(j) \in Pair

Renewals == {j \in Entered : job[j].kind = "cookie"}

InCrowd ==
    /\ \A p \in Pools : limit[p] = 1
    /\ Cardinality(Entered \ Renewals) <= 1
    /\ Cardinality({j \in Renewals : call[j] # "returned"}) <= 1
    /\ \A j, k \in Entered : j # k => AccountOf(j) # AccountOf(k)
    /\ \A j \in Jobs : call[j] # "refused" /\ result[j] # "error" /\ phase[j] # "failing"

PairOrCrowd ==
    /\ NobodyPays
    /\ IF Cardinality(Entered) <= 2 THEN InPair ELSE InCrowd

(* A goroutine marks its row as running only when its caller has marked it *)
(* as queued (in the code nothing orders the two writes), and the process  *)
(* does not restart.                                                       *)
MarksInTurn ==
    /\ \A j \in Jobs : phase[j] = "entering" /\ phase'[j] = "loading" => call[j] # "added"
    /\ ~Restart

InTurnSpec == Init /\ [][Next /\ MarksInTurn]_vars

(* No row becomes paid in the window of enqueue, between its check and the *)
(* append, and none from outside while a job of the account waits for its  *)
(* browser.                                                                *)
LoginKind(j) == job[j].kind # "cookie"
Waiting == {"queued", "started", "entering", "loading"}

NotPaidInBetween ==
    /\ \A j \in Jobs : call[j] = "checked" /\ LoginKind(j) => ~account'[AccountOf(j)].paid
    /\ \A j \in Jobs : phase[j] \in Waiting /\ LoginKind(j)
                        => ~SyncPaid(AccountOf(j)) /\ ~ReceiveUpload(AccountOf(j))

UnpaidSpec == Init /\ [][Next /\ NotPaidInBetween]_vars

JobSymmetry == Permutations(Jobs)
=============================================================================
