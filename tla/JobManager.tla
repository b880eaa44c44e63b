----------------------------- MODULE JobManager -----------------------------
(***************************************************************************)
(* The job queue of the Auto process (auto/internal/job/manager.go).       *)
(*                                                                         *)
(* HTTP handlers and the daily cookie task call enqueue, which reads the   *)
(* account row, then takes the mutex to append the job, then writes the    *)
(* row's status after the mutex is released, and finally pumps the queue.  *)
(* pump starts one goroutine per job it can place in one of two pools      *)
(* (browser logins, cookie renewals); run drives one job to its end and    *)
(* pumps again.  A job identifier names one call of enqueue: `call' is the *)
(* position of that call, `phase' the position of the job it created.      *)
(***************************************************************************)
EXTENDS Integers, Sequences, FiniteSets

CONSTANTS Accounts,        \* the accounts of the Auto store
          Jobs,            \* the identifiers newID may return: one per call
          None,            \* no job (an absent entry of m.running)
          Kinds,           \* the job kinds that callers ask for
          MaxLimit,        \* bound on both configured concurrencies
          AuthkitRetries,  \* authkitAccountRetries
          MaxRestarts      \* bound on the restarts of the process

ASSUME JobManagerAssumption ==
    /\ Accounts # {}
    /\ None \notin Jobs
    /\ Kinds \subseteq {"login", "refresh", "cookie"}
    /\ MaxLimit \in Nat \ {0}
    /\ AuthkitRetries \in Nat
    /\ MaxRestarts \in Nat

VARIABLES account,   \* rows of the accounts table
          limit,     \* max_concurrent and cookie_keep_concurrency (settings)
          call,      \* position of each enqueue call
          job,       \* what the job of each call is for
          status,    \* job.Status, read by the API
          phase,     \* position of each job's goroutine
          result,    \* what login returned to run (res, err)
          attempt,   \* attempts made by runLoginWithAuthkitRetry
          snapshot,  \* credentials run read from the row before the browser
          queue,     \* m.queue
          slots,     \* m.active and m.activeCookie
          running,   \* m.running: the job each account is busy with
          pumping,   \* m.mu is held by the loop of pump
          cap,       \* loginMax and cookieMax of that loop
          restarts   \* restarts so far

store   == <<account, limit>>
request == <<call, job>>
local   == <<phase, result, attempt, snapshot>>
manager == <<status, queue, slots, running, pumping, cap>>
vars    == <<account, limit, call, job, status, phase, result, attempt,
             snapshot, queue, slots, running, pumping, cap, restarts>>

-----------------------------------------------------------------------------
Pools == {"login", "cookie"}

(* What a row keeps of cookies_json, cookie_header and workspace_id: none  *)
(* of them, cookies only, or cookies and a workspace.                      *)
Credentials == {"none", "cookie", "full"}

AccountStatus == {"pending", "queued", "running", "ready", "failed"}

Row == [exists : BOOLEAN, status : AccountStatus, paid : BOOLEAN,
        credentials : Credentials]

Request == [account : Accounts, kind : {"login", "refresh", "cookie"},
            autoPay : BOOLEAN]

JobStatus == {"none", "queued", "running", "success", "failed"}

Calls  == {"idle", "checked", "added", "marked", "returned", "refused", "lost"}

(* started: the goroutine exists; entering, loading: setStatus and         *)
(* UpdateStatus "running" are behind it; exiting: the deferred function is *)
(* about to give the slot back; repumping: it is about to pump.            *)
Phases == {"none", "queued", "started", "entering", "loading", "browser",
           "saving", "confirming", "unpaid", "rejecting", "finishing",
           "failing", "marking", "restoring", "exiting", "repumping", "done",
           "lost"}

Results == {"none", "error", "cookie", "paid", "unpaid"}

(* The goroutine of the job exists and holds a slot.                       *)
Holding == {"started", "entering", "loading", "browser", "saving",
            "confirming", "unpaid", "rejecting", "finishing", "failing",
            "marking", "restoring", "exiting"}

PoolOf(j) == IF job[j].kind = "cookie" THEN "cookie" ELSE "login"
AccountOf(j) == job[j].account

TypeOK ==
    /\ account \in [Accounts -> Row]
    /\ limit \in [Pools -> 1..MaxLimit]
    /\ call \in [Jobs -> Calls]
    /\ job \in [Jobs -> Request]
    /\ status \in [Jobs -> JobStatus]
    /\ phase \in [Jobs -> Phases]
    /\ result \in [Jobs -> Results]
    /\ attempt \in [Jobs -> 0..AuthkitRetries]
    /\ snapshot \in [Jobs -> Credentials]
    /\ queue \in Seq(Jobs)
    /\ slots \in [Pools -> Int]
    /\ running \in [Accounts -> Jobs \cup {None}]
    /\ pumping \in BOOLEAN
    /\ cap \in [Pools -> 1..MaxLimit]
    /\ restarts \in 0..MaxRestarts

Blank == [account |-> CHOOSE a \in Accounts : TRUE, kind |-> "login",
          autoPay |-> FALSE]

Init ==
    /\ account \in [Accounts -> [exists : {TRUE}, status : {"pending"},
                                 paid : BOOLEAN, credentials : Credentials]]
    /\ limit \in [Pools -> 1..MaxLimit]
    /\ call = [j \in Jobs |-> "idle"]
    /\ job = [j \in Jobs |-> Blank]
    /\ status = [j \in Jobs |-> "none"]
    /\ phase = [j \in Jobs |-> "none"]
    /\ result = [j \in Jobs |-> "none"]
    /\ attempt = [j \in Jobs |-> 0]
    /\ snapshot = [j \in Jobs |-> "none"]
    /\ queue = <<>>
    /\ slots = [p \in Pools |-> 0]
    /\ running = [a \in Accounts |-> None]
    /\ pumping = FALSE
    /\ cap = limit
    /\ restarts = 0

-----------------------------------------------------------------------------
(* An UPDATE of row a; a statement that matches no row changes nothing and *)
(* is not an error.                                                        *)
UpdateRow(a, row) ==
    account' = IF account[a].exists THEN [account EXCEPT ![a] = row] ELSE account

SetRowStatus(a, s) == UpdateRow(a, [account[a] EXCEPT !.status = s])

(* Mutant: only the queue is searched, a running job is overlooked.        *)
MutAccountBusy(a) == \E i \in DOMAIN queue : AccountOf(queue[i]) = a

AccountBusy(a) ==
    \/ running[a] # None
    \/ \E i \in DOMAIN queue :
          /\ AccountOf(queue[i]) = a
          /\ status[queue[i]] \in {"queued", "running"}

(* What enqueue (and EnqueueRefresh before it) requires of the row.        *)
Admissible(r) ==
    /\ account[r.account].exists
    /\ r.kind = "cookie" => account[r.account].credentials # "none"
    /\ r.kind = "refresh" => account[r.account].credentials = "full"
    /\ r.kind # "cookie" => ~account[r.account].paid

(* enqueue reads the row without the mutex.                                *)
EnqueueCheck(j) ==
    /\ call[j] = "idle"
    /\ \E r \in Request :
          /\ r.kind \in Kinds
          /\ r.kind = "cookie" => ~r.autoPay
          /\ \/ /\ Admissible(r)
                /\ call' = [call EXCEPT ![j] = "checked"]
                /\ job' = [job EXCEPT ![j] = r]
             \/ /\ ~Admissible(r)
                /\ call' = [call EXCEPT ![j] = "refused"]
                /\ UNCHANGED job
    /\ UNCHANGED <<store, local, manager, restarts>>

(* The critical section of enqueue: one job per account, appended last.    *)
EnqueueAdd(j) ==
    /\ call[j] = "checked"
    /\ ~pumping
    /\ ~AccountBusy(AccountOf(j))
    /\ call' = [call EXCEPT ![j] = "added"]
    /\ status' = [status EXCEPT ![j] = "queued"]
    /\ phase' = [phase EXCEPT ![j] = "queued"]
    /\ queue' = Append(queue, j)
    /\ UNCHANGED <<store, job, result, attempt, snapshot, slots, running, pumping,
                   cap, restarts>>

EnqueueRefuse(j) ==
    /\ call[j] = "checked"
    /\ ~pumping
    /\ AccountBusy(AccountOf(j))
    /\ call' = [call EXCEPT ![j] = "refused"]
    /\ UNCHANGED <<store, job, local, manager, restarts>>

(* The mutex is released: UpdateStatus "queued" may land after the job has *)
(* been started by another pump, and after it has ended.                   *)
EnqueueMark(j) ==
    /\ call[j] = "added"
    /\ call' = [call EXCEPT ![j] = "marked"]
    /\ IF job[j].kind = "cookie"
       THEN UNCHANGED account
       ELSE SetRowStatus(AccountOf(j), "queued")
    /\ UNCHANGED <<limit, job, local, manager, restarts>>

-----------------------------------------------------------------------------
(* pump: takes the mutex, reads both limits, and starts every job it can.  *)
BeginPump ==
    /\ ~pumping
    /\ pumping' = TRUE
    /\ cap' = limit
    /\ UNCHANGED <<store, job, status, result, attempt, snapshot, queue, slots,
                   running, restarts>>

EnqueuePump(j) ==
    /\ call[j] = "marked"
    /\ call' = [call EXCEPT ![j] = "returned"]
    /\ UNCHANGED phase
    /\ BeginPump

(* Mutant: a job that ends does not look for the next one.                 *)
MutExitPump(j) ==
    /\ phase[j] = "repumping"
    /\ phase' = [phase EXCEPT ![j] = "done"]
    /\ UNCHANGED <<store, request, result, attempt, snapshot, manager, restarts>>

ExitPump(j) ==
    /\ phase[j] = "repumping"
    /\ phase' = [phase EXCEPT ![j] = "done"]
    /\ UNCHANGED call
    /\ BeginPump

(* reloadSettings, after every save of the settings and once a minute.     *)
ReloadPump ==
    /\ UNCHANGED <<call, phase>>
    /\ BeginPump

(* Mutant: the limit is off by one.                                        *)
MutFits(i) == slots[PoolOf(queue[i])] <= cap[PoolOf(queue[i])]

Fits(i) == slots[PoolOf(queue[i])] < cap[PoolOf(queue[i])]

(* Mutant: any queued job that fits, not the first.                        *)
MutFirstFit(i) == Fits(i)

FirstFit(i) == Fits(i) /\ \A k \in 1..(i - 1) : ~Fits(k)

RemoveIndex(s, i) == SubSeq(s, 1, i - 1) \o SubSeq(s, i + 1, Len(s))

(* Mutant: the account is not entered in m.running.                        *)
MutTakeSlot(j) ==
    /\ slots' = [slots EXCEPT ![PoolOf(j)] = @ + 1]
    /\ UNCHANGED running

TakeSlot(j) ==
    /\ slots' = [slots EXCEPT ![PoolOf(j)] = @ + 1]
    /\ running' = [running EXCEPT ![AccountOf(j)] = j]

(* One turn of the loop: the first queued job whose pool has room.         *)
PumpStart ==
    /\ pumping
    /\ \E i \in DOMAIN queue :
          /\ FirstFit(i)
          /\ TakeSlot(queue[i])
          /\ phase' = [phase EXCEPT ![queue[i]] = "started"]
          /\ queue' = RemoveIndex(queue, i)
    /\ UNCHANGED <<store, request, status, result, attempt, snapshot, pumping,
                   cap, restarts>>

PumpEnd ==
    /\ pumping
    /\ \A i \in DOMAIN queue : ~Fits(i)
    /\ pumping' = FALSE
    /\ UNCHANGED <<store, request, local, status, queue, slots, running, cap, restarts>>

-----------------------------------------------------------------------------
(* The goroutine of a job, one statement that others can observe per step. *)
Goto(j, from, to) == phase[j] = from /\ phase' = [phase EXCEPT ![j] = to]

RunEnter(j) ==
    /\ Goto(j, "started", "entering")
    /\ ~pumping
    /\ status' = [status EXCEPT ![j] = "running"]
    /\ UNCHANGED <<store, request, result, attempt, snapshot, queue, slots,
                   running, pumping, cap, restarts>>

RunMark(j) ==
    /\ Goto(j, "entering", "loading")
    /\ IF job[j].kind = "cookie"
       THEN UNCHANGED account
       ELSE SetRowStatus(AccountOf(j), "running")
    /\ UNCHANGED <<limit, request, result, attempt, snapshot, manager, restarts>>

RunLoad(j) ==
    /\ \/ /\ account[AccountOf(j)].exists
          /\ Goto(j, "loading", "browser")
          /\ snapshot' = [snapshot EXCEPT ![j] = account[AccountOf(j)].credentials]
       \/ /\ ~account[AccountOf(j)].exists
          /\ Goto(j, "loading", "failing")
          /\ UNCHANGED snapshot
    /\ UNCHANGED <<store, request, result, attempt, manager, restarts>>

(* Mutant: one retry too many.                                             *)
MutRetriesLeft(j) == attempt[j] <= AuthkitRetries

RetriesLeft(j) == attempt[j] < AuthkitRetries

(* login.Run failed on the AuthKit page: same account, once more.          *)
RunRetry(j) ==
    /\ phase[j] = "browser"
    /\ job[j].kind = "login"
    /\ RetriesLeft(j)
    /\ attempt' = [attempt EXCEPT ![j] = @ + 1]
    /\ UNCHANGED <<store, request, phase, result, snapshot, manager, restarts>>

(* The browser session ends: with an error, with renewed cookies, or with  *)
(* a login that was paid for or not.                                       *)
RunReturn(j) ==
    /\ \E r \in Results \ {"none"} :
          /\ r = "cookie" => job[j].kind = "cookie"
          /\ r \in {"paid", "unpaid"} => job[j].kind # "cookie"
          /\ result' = [result EXCEPT ![j] = r]
          /\ Goto(j, "browser", IF r = "error" THEN "failing" ELSE "saving")
    /\ UNCHANGED <<store, request, attempt, snapshot, manager, restarts>>

(* Mutant: a payment that did not happen is not an error.                  *)
MutAfterSave(j) == IF result[j] = "paid" THEN "confirming" ELSE "finishing"

AfterSave(j) ==
    CASE result[j] = "paid" -> "confirming"
      [] result[j] = "unpaid" /\ job[j].autoPay -> "unpaid"
      [] OTHER -> "finishing"

(* SaveCookies, or SaveLoginResult with the fields login returned.         *)
RunSave(j) ==
    LET a == AccountOf(j)
        row == account[a]
    IN /\ Goto(j, "saving", AfterSave(j))
       /\ UpdateRow(a, IF job[j].kind = "cookie"
                       THEN [row EXCEPT !.credentials = IF @ = "none" THEN "cookie" ELSE @]
                       ELSE [row EXCEPT !.status = "ready", !.credentials = "full"])
       /\ UNCHANGED <<limit, request, result, attempt, snapshot, manager, restarts>>

RunConfirm(j) ==
    /\ Goto(j, "confirming", "finishing")
    /\ UpdateRow(AccountOf(j), [account[AccountOf(j)] EXCEPT !.paid = TRUE])
    /\ UNCHANGED <<limit, request, result, attempt, snapshot, manager, restarts>>

(* The store refuses one of the two writes above: fail.                    *)
RunStoreError(j) ==
    /\ phase[j] \in {"saving", "confirming"}
    /\ phase' = [phase EXCEPT ![j] = "failing"]
    /\ UNCHANGED <<store, request, result, attempt, snapshot, manager, restarts>>

(* Automatic payment did not go through: the row stays "ready" and carries *)
(* the message, the job fails.                                             *)
RunUnpaid(j) ==
    /\ Goto(j, "unpaid", "rejecting")
    /\ SetRowStatus(AccountOf(j), "ready")
    /\ UNCHANGED <<limit, request, result, attempt, snapshot, manager, restarts>>

(* Mutant: no return after the failure, the job goes on to "success".      *)
MutRunReject(j) ==
    /\ Goto(j, "rejecting", "finishing")
    /\ ~pumping
    /\ status' = [status EXCEPT ![j] = "failed"]
    /\ UNCHANGED <<store, request, result, attempt, snapshot, queue, slots,
                   running, pumping, cap, restarts>>

RunReject(j) ==
    /\ Goto(j, "rejecting", "exiting")
    /\ ~pumping
    /\ status' = [status EXCEPT ![j] = "failed"]
    /\ UNCHANGED <<store, request, result, attempt, snapshot, queue, slots,
                   running, pumping, cap, restarts>>

RunFinish(j) ==
    /\ Goto(j, "finishing", "exiting")
    /\ ~pumping
    /\ status' = [status EXCEPT ![j] = "success"]
    /\ UNCHANGED <<store, request, result, attempt, snapshot, queue, slots,
                   running, pumping, cap, restarts>>

(* fail: the job's status under the mutex, then the row's.                 *)
FailStatus(j) ==
    /\ Goto(j, "failing", "marking")
    /\ ~pumping
    /\ status' = [status EXCEPT ![j] = "failed"]
    /\ UNCHANGED <<store, request, result, attempt, snapshot, queue, slots,
                   running, pumping, cap, restarts>>

FailMark(j) ==
    /\ Goto(j, "marking", IF result[j] = "error" THEN "restoring" ELSE "exiting")
    /\ IF job[j].kind = "cookie"
       THEN UNCHANGED account
       ELSE SetRowStatus(AccountOf(j), "failed")
    /\ UNCHANGED <<limit, request, result, attempt, snapshot, manager, restarts>>

(* After a browser error the login kinds also save the whole row as it was *)
(* read before the session; a cookie job only records the message.         *)
FailRestore(j) ==
    /\ Goto(j, "restoring", "exiting")
    /\ IF job[j].kind = "cookie"
       THEN UNCHANGED account
       ELSE UpdateRow(AccountOf(j), [account[AccountOf(j)] EXCEPT
                         !.status = "failed", !.credentials = snapshot[j]])
    /\ UNCHANGED <<limit, request, result, attempt, snapshot, manager, restarts>>

(* Mutant: m.active is decremented for every kind of job.                  *)
MutGiveBack(j) ==
    /\ slots' = [slots EXCEPT !["login"] = @ - 1]
    /\ running' = [running EXCEPT ![AccountOf(j)] = None]

GiveBack(j) ==
    /\ slots' = [slots EXCEPT ![PoolOf(j)] = @ - 1]
    /\ running' = [running EXCEPT ![AccountOf(j)] = None]

(* The deferred function gives the slot and the account back; what run     *)
(* kept in its own variables is gone with it.                              *)
RunExit(j) ==
    /\ Goto(j, "exiting", "repumping")
    /\ ~pumping
    /\ GiveBack(j)
    /\ result' = [result EXCEPT ![j] = "none"]
    /\ attempt' = [attempt EXCEPT ![j] = 0]
    /\ snapshot' = [snapshot EXCEPT ![j] = "none"]
    /\ UNCHANGED <<store, request, status, queue, pumping, cap, restarts>>

RunStep(j) ==
    \/ RunEnter(j) \/ RunMark(j) \/ RunLoad(j) \/ RunReturn(j)
    \/ RunSave(j) \/ RunConfirm(j) \/ RunUnpaid(j) \/ RunReject(j) \/ RunFinish(j)
    \/ FailStatus(j) \/ FailMark(j) \/ FailRestore(j)
    \/ RunExit(j) \/ ExitPump(j)

-----------------------------------------------------------------------------
(* What the rest of the Auto process does to the rows and the settings.    *)
DeleteAccount(a) ==
    /\ account[a].exists
    /\ account' = [account EXCEPT ![a].exists = FALSE]
    /\ UNCHANGED <<limit, request, local, manager, restarts>>

(* The usage syncer (SetAccountPaid) after the upstream answered.          *)
SyncPaid(a) ==
    /\ account[a].exists
    /\ \E subscribed \in BOOLEAN \ {account[a].paid} :
          account' = [account EXCEPT ![a].paid = subscribed]
    /\ UNCHANGED <<limit, request, local, manager, restarts>>

(* The manager uploads a paid account it holds newer cookies of.           *)
ReceiveUpload(a) ==
    /\ account[a].exists
    /\ \E c \in {"cookie", "full"} :
          account' = [account EXCEPT ![a].status = "ready", ![a].paid = TRUE,
                                     ![a].credentials = IF @ = "full" THEN @ ELSE c]
    /\ UNCHANGED <<limit, request, local, manager, restarts>>

SaveLimits ==
    /\ limit' \in [Pools -> 1..MaxLimit]
    /\ limit' # limit
    /\ UNCHANGED <<account, request, local, manager, restarts>>

(* Jobs, queue and goroutines live in memory; the rows stay as they are.   *)
Restart ==
    /\ restarts < MaxRestarts
    /\ restarts' = restarts + 1
    /\ call' = [j \in Jobs |-> IF call[j] = "idle" THEN "idle" ELSE "lost"]
    /\ phase' = [j \in Jobs |-> IF call[j] = "idle" THEN "none" ELSE "lost"]
    /\ status' = [j \in Jobs |-> "none"]
    /\ queue' = <<>>
    /\ slots' = [p \in Pools |-> 0]
    /\ running' = [a \in Accounts |-> None]
    /\ pumping' = FALSE
    /\ result' = [j \in Jobs |-> "none"]
    /\ attempt' = [j \in Jobs |-> 0]
    /\ snapshot' = [j \in Jobs |-> "none"]
    /\ UNCHANGED <<store, job, cap>>

(* The queue and its callers, while nobody else touches rows or settings.  *)
QueueNext ==
    \/ \E j \in Jobs :
          \/ EnqueueCheck(j) \/ EnqueueAdd(j) \/ EnqueueRefuse(j)
          \/ EnqueueMark(j) \/ EnqueuePump(j)
          \/ RunStep(j) \/ RunRetry(j) \/ RunStoreError(j)
    \/ PumpStart \/ PumpEnd \/ ReloadPump

OutsideNext ==
    \/ \E a \in Accounts : DeleteAccount(a) \/ SyncPaid(a) \/ ReceiveUpload(a)
    \/ SaveLimits
    \/ Restart

Next == QueueNext \/ OutsideNext

Spec == Init /\ [][Next]_vars

(* A call that entered enqueue returns and a goroutine keeps running; every *)
(* browser session ends, by its own time limits. Nobody has to call, retry, *)
(* save settings, delete or restart.                                        *)
Fairness ==
    /\ \A j \in Jobs :
          /\ SF_vars(EnqueueAdd(j) \/ EnqueueRefuse(j))
          /\ WF_vars(EnqueueMark(j))
          /\ SF_vars(EnqueuePump(j))
          /\ SF_vars(RunStep(j))
    /\ WF_vars(PumpStart)
    /\ WF_vars(PumpEnd)

FairSpec == Spec /\ Fairness

-----------------------------------------------------------------------------
Holders(p) == {j \in Jobs : phase[j] \in Holding /\ PoolOf(j) = p}

(* An account is never in two jobs at once, queued or in a browser: two    *)
(* sessions would share its profile directory (accountBusy under the same  *)
(* lock as the append, running kept until the deferred function).          *)
OneJobPerAccount ==
    \A j, k \in Jobs :
        /\ phase[j] \in Holding \cup {"queued"}
        /\ phase[k] \in Holding \cup {"queued"}
        /\ AccountOf(j) = AccountOf(k)
        => j = k

(* The counters and m.running say exactly which goroutines exist, whatever *)
(* path each of them leaves by: no slot leaks and none is given back twice.*)
SlotsMatchGoroutines ==
    /\ \A p \in Pools : slots[p] = Cardinality(Holders(p))
    /\ \A a \in Accounts, j \in Jobs :
          running[a] = j <=> phase[j] \in Holding /\ AccountOf(j) = a

(* A queued job that fits is never forgotten: some pump is running or owed *)
(* by a call or an ending job, or the limit was raised after the last one. *)
NoLostWakeup ==
    \A i \in DOMAIN queue :
        LET p == PoolOf(queue[i])
        IN slots[p] < limit[p]
           => \/ pumping
              \/ cap[p] < limit[p]
              \/ \E j \in Jobs : call[j] \in {"added", "marked"} \/ phase[j] = "repumping"

(* A job asked to pay ends in "success" only if the payment was confirmed  *)
(* by the login result.                                                    *)
AutoPaySuccessIsPaid ==
    \A j \in Jobs :
        status[j] = "success" /\ phase[j] = "exiting" /\ job[j].autoPay
        => result[j] = "paid"

(* Jobs of one pool start in the order in which they were accepted, also   *)
(* when a full pool makes pump skip over them.                             *)
StartsInOrder ==
    [][\A m, n \in DOMAIN queue :
          m < n /\ PoolOf(queue[m]) = PoolOf(queue[n]) /\ phase'[queue[m]] = "queued"
          => /\ phase'[queue[n]] # "started"
             /\ \E x, y \in DOMAIN queue' :
                   x < y /\ queue'[x] = queue[m] /\ queue'[y] = queue[n]]_vars

(* A goroutine is started only if the sessions that really exist in its    *)
(* pool are fewer than the limit its pump read.                            *)
StartsWithinLimit ==
    [][\A j \in Jobs :
          phase[j] = "queued" /\ phase'[j] = "started"
          => Cardinality(Holders(PoolOf(j))) < cap[PoolOf(j)]]_vars

(* Once a job has ended the API never reports another verdict for it.      *)
VerdictIsFinal ==
    [][\A j \in Jobs :
          status[j] \in {"success", "failed"} => status'[j] \in {status[j], "none"}]_vars

(* Every accepted job comes to its end and gives its slot back.            *)
EveryJobEnds ==
    \A j \in Jobs : call[j] = "added" ~> phase[j] \in {"done", "lost"}

(* "paid login should skip" (keep_test.go): no browser session starts for  *)
(* an account that is recorded as paid.                                    *)
PaidAccountIsSkipped ==
    [][\A j \in Jobs :
          phase[j] = "loading" /\ phase'[j] = "browser" /\ job[j].kind # "cookie"
          => ~account[AccountOf(j)].paid]_vars

(* A row says "queued" (the label of status.ts: waiting in the queue to be *)
(* logged in) only while a job of the account is queued or running.        *)
QueuedRowHasJob ==
    \A a \in Accounts :
        account[a].exists /\ account[a].status = "queued"
        => \E j \in Jobs : /\ AccountOf(j) = a
                           /\ phase[j] \in Holding \cup {"queued"}

(* The account leases of AccountLease, read off the goroutines themselves. *)
Lease == [a \in Accounts |->
             IF \E j \in Jobs : phase[j] \in Holding /\ AccountOf(j) = a
             THEN CHOOSE j \in Jobs : phase[j] \in Holding /\ AccountOf(j) = a
             ELSE None]

AL == INSTANCE AccountLease
        WITH lease <- Lease,
             used <- {j \in Jobs : phase[j] \notin {"none", "queued"}}

LeaseSpec == AL!Spec
=============================================================================
