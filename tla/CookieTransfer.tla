--------------------------- MODULE CookieTransfer ---------------------------
(***************************************************************************)
(* One account on its way between Manager and Auto: uploads for a renewal, *)
(* the poller that brings the result back (internal/api/auto_transfer.go,  *)
(* internal/store/auto_receive.go) and imports of results                  *)
(* (internal/store/auto_import.go).                                        *)
(*                                                                         *)
(* A cookie is told apart by who made it, when (at) and since when (from), *)
(* which no code reads.  What the code compares is last_login_at of the    *)
(* row (login): it is the time the cookie was made until a scan or a login *)
(* that failed writes back the row it read and moves it to its own end.    *)
(* Requests between the two may be lost, and so may answers of requests    *)
(* that were carried out; the manager may die between any two steps, Auto  *)
(* may lose its jobs, and the administrator edits, deletes and imports at  *)
(* any time.                                                               *)
(***************************************************************************)
EXTENDS Integers, FiniteSets

CONSTANTS
    MaxImports,  \* imports by hand that have read different results
    LastSecond,  \* the clock both machines share stops here
    NoOne

ASSUME TransferAssumption == MaxImports \in Nat /\ LastSecond \in Nat

VARIABLES
    clock,
    ours,      \* the row in the pool of the manager, or NoOne
    remote,    \* the row at Auto, NoOne while it has no cookie
    linked,    \* auto_account_links
    imported,  \* auto_imports: the result and the watermark, or NoOne
    record,    \* auto_cookie_jobs has the job
    job,       \* the renewal at Auto: its state and, while it runs, when it began
    keep,      \* keepPoolCookiesRemote and the row it uploads
    sync,      \* syncAutoCookies and the result it has read
    import,    \* the results that imports have read and not applied
    scanned,   \* the cookie of the row a scan of the manager has read, or NoOne
    restore,   \* the cookie of the row a scan or a login at Auto has read
    emptied    \* a login that failed took a cookie away; no code reads this

transferVars == <<clock, ours, remote, linked, imported, record, job, keep, sync, import,
                  scanned, restore, emptied>>
hostVars == <<clock, remote, job, restore, emptied>>
tableVars == <<linked, imported, record>>
managerVars == <<ours, tableVars, keep, sync, import, scanned>>

Seconds == 0..LastSecond
Cookie == [by : {"edit", "renewal"}, from : Seconds, at : Seconds]
Made(who, start) == [by |-> who, from |-> start, at |-> clock]
Entry == [cookie : Cookie, login : Seconds]
Result == [cookie : Cookie, login : Seconds, updated : Seconds]
EntryOf(r) == [cookie |-> r.cookie, login |-> r.login]
ResultOf(r) == [cookie |-> r.cookie, login |-> r.login, updated |-> clock]
ASSUME NoOneAssumption == NoOne \notin Cookie \cup Entry \cup Result

Job(state) == [state |-> state, from |-> 0]
NoRestore == [at |-> "idle", cookie |-> NoOne, from |-> 0]

(* SaveCookies and SaveLoginResult: a cookie is written with this second   *)
(* as the time of its login, whether it is a new one or not.               *)
Saved(cookie) == [cookie |-> cookie, login |-> clock, updated |-> clock]
Touch == remote' = IF remote = NoOne THEN NoOne ELSE [remote EXCEPT !.updated = clock]

InitTransfer ==
    /\ clock = 0
    /\ ours \in {NoOne, [cookie |-> Made("edit", 0), login |-> 0]}
    /\ remote \in {NoOne, Saved(Made("renewal", 0))}
    /\ linked = FALSE /\ imported = NoOne /\ record = FALSE
    /\ job = Job("over")
    /\ keep = [at |-> "idle", row |-> NoOne]
    /\ sync = [at |-> "idle", result |-> NoOne]
    /\ import = {} /\ scanned = NoOne /\ restore = NoRestore /\ emptied = FALSE

TypeOKTransfer ==
    /\ clock \in Seconds
    /\ ours \in Entry \cup {NoOne} /\ remote \in Result \cup {NoOne}
    /\ linked \in BOOLEAN /\ imported \in Result \cup {NoOne} /\ record \in BOOLEAN
    /\ job \in [state : {"over", "running", "success"}, from : Seconds]
    /\ keep \in [at : {"idle", "upload", "link", "start", "save"}, row : Entry \cup {NoOne}]
    /\ sync \in [at : {"idle", "apply", "forget", "pull", "pulled"},
                 result : Result \cup {NoOne}]
    /\ import \subseteq Result /\ Cardinality(import) <= MaxImports
    /\ scanned \in Cookie \cup {NoOne} /\ emptied \in BOOLEAN
    /\ restore \in [at : {"idle", "scan", "login"}, cookie : Cookie \cup {NoOne},
                    from : Seconds]

ClockTick ==
    /\ clock < LastSecond /\ clock' = clock + 1
    /\ UNCHANGED <<ours, remote, tableVars, job, keep, sync, import, scanned, restore, emptied>>

-----------------------------------------------------------------------------
(* Auto: renewals, as a job of the manager or of Auto's own schedule; its  *)
(* logins and its scans, which write the row back.                         *)

(* EnqueueCookie: a row with a cookie and without a job.                   *)
StartRenewal ==
    /\ remote # NoOne /\ job.state # "running" /\ restore.at # "login"
    /\ job' = [state |-> "running", from |-> clock]

(* One job is told apart: the schedule starts none while the manager waits *)
(* for the one it has recorded.                                            *)
DailyRenewal ==
    /\ ~record /\ StartRenewal
    /\ UNCHANGED <<clock, remote, restore, emptied, managerVars>>

(* A renewal takes longer than a second.                                   *)
RenewalEnds ==
    /\ job.state = "running"
    /\ \/ /\ job.from < clock
          /\ remote' = Saved(Made("renewal", job.from)) /\ job' = Job("success")
       \/ Touch /\ job' = Job("over")
    /\ UNCHANGED <<clock, restore, emptied, managerVars>>

(* Whether the row counts as paid, which a login asks for, is up to the    *)
(* last scan (SetAccountPaid) and not kept.                                *)
LoginBegins ==
    /\ restore.at = "idle" /\ job.state # "running" /\ Touch
    /\ restore' = [at |-> "login", from |-> clock,
                   cookie |-> IF remote = NoOne THEN NoOne ELSE remote.cookie]
    /\ UNCHANGED <<clock, job, emptied, managerVars>>

(* A login that failed saves the credentials it read before, which undoes  *)
(* an upload that came in meanwhile.                                       *)
LoginEnds ==
    /\ restore.at = "login" /\ restore' = NoRestore
    /\ \/ /\ restore.from < clock
          /\ remote' = Saved(Made("renewal", restore.from)) /\ UNCHANGED emptied
       \/ /\ restore.cookie # NoOne
          /\ remote' = Saved(restore.cookie) /\ UNCHANGED emptied
       \/ /\ restore.cookie = NoOne
          /\ remote' = NoOne /\ emptied' = (emptied \/ remote # NoOne)
    /\ UNCHANGED <<clock, job, managerVars>>

(* syncOne on Auto's rows, which asks for no job: it saves the row it has  *)
(* read if the user or the key was missing.                                *)
AutoScanReads ==
    /\ restore.at = "idle" /\ remote # NoOne
    /\ restore' = [at |-> "scan", cookie |-> remote.cookie, from |-> 0]
    /\ UNCHANGED <<clock, remote, job, emptied, managerVars>>

AutoScanEnds ==
    /\ restore.at = "scan" /\ restore' = NoRestore
    /\ UNCHANGED remote \/ Touch \/ remote' = Saved(restore.cookie)
    /\ UNCHANGED <<clock, job, emptied, managerVars>>

(* Auto restarts and has forgotten its jobs: to the manager that is as much *)
(* as a job that failed.                                                   *)
AutoRestart ==
    /\ job' = Job("over") /\ restore' = NoRestore
    /\ UNCHANGED <<clock, remote, emptied, managerVars>>

AutoWork == LoginBegins \/ LoginEnds \/ AutoScanReads \/ AutoScanEnds

-----------------------------------------------------------------------------
(* keepPoolCookiesRemote: upload, link, start the job, remember it.        *)

KeepList ==
    /\ keep.at = "idle" /\ ours # NoOne
    /\ keep' = [at |-> "upload", row |-> ours]
    /\ UNCHANGED <<hostVars, ours, tableVars, sync, import, scanned>>

(* ReceiveAutoCookieAccount: of two rows the one of the later login, of    *)
(* two of the same second the one Auto has.                                *)
(* Mutant: an upload always replaces the cookie.                           *)
MutReceives == TRUE
Receives == remote = NoOne \/ keep.row.login > remote.login
Deliver ==
    IF Receives THEN remote' = ResultOf(keep.row)
                ELSE UNCHANGED remote

KeepGoes(label) == keep' = [at |-> label, row |-> NoOne]
Give == KeepGoes("idle")

(* Each request is answered, lost, or carried out without an answer.       *)
KeepUpload ==
    /\ keep.at = "upload"
    /\ \/ Deliver /\ (KeepGoes("link") \/ Give)
       \/ UNCHANGED remote /\ Give
    /\ UNCHANGED <<clock, job, restore, emptied, ours, tableVars, sync, import, scanned>>

Link == linked' = (linked \/ ours # NoOne)

KeepLink ==
    /\ keep.at = "link" /\ Link
    /\ IF ours = NoOne THEN Give ELSE KeepGoes("start")
    /\ UNCHANGED <<hostVars, ours, imported, record, sync, import, scanned>>

(* EnqueueCookie refuses while the account has a job.  The row of a job    *)
(* that a newer one replaces is not told apart from the newer one's: what  *)
(* its answer would still bring, SyncPull brings as well.                  *)
KeepStart ==
    /\ keep.at = "start"
    /\ \/ StartRenewal /\ (KeepGoes("save") \/ Give)
       \/ UNCHANGED job /\ Give
    /\ UNCHANGED <<clock, remote, restore, emptied, ours, tableVars, sync, import, scanned>>

KeepSave ==
    /\ keep.at = "save" /\ record' = (ours # NoOne) /\ Give
    /\ UNCHANGED <<hostVars, ours, linked, imported, sync, import, scanned>>

-----------------------------------------------------------------------------
(* syncAutoCookies, one at a time.                                         *)

SyncGoes(label) == sync' = [sync EXCEPT !.at = label]
SyncStops == sync' = [at |-> "idle", result |-> NoOne]

(* The state of the job, and the account when it was a success.            *)
SyncPoll ==
    /\ sync.at = "idle"
    /\ \/ SyncStops /\ UNCHANGED record   \* no answer
       \/ ~record /\ SyncGoes("pull") /\ UNCHANGED record
       \/ /\ record /\ job.state = "over"
          /\ record' = FALSE /\ SyncGoes("pull")
       \/ record /\ job.state = "running" /\ SyncGoes("pull") /\ UNCHANGED record
       \/ /\ record /\ job.state = "success"
          /\ \/ SyncGoes("pull")
             \/ remote # NoOne /\ sync' = [at |-> "apply", result |-> remote]
          /\ UNCHANGED record
    /\ UNCHANGED <<hostVars, ours, linked, imported, keep, import, scanned>>

(* SyncAutoAccountCredentials: a linked account whose login is older.      *)
(* Mutant: a result that was linked is always taken.                       *)
MutTakes(r) == ours # NoOne
Takes(r) == IF ours = NoOne THEN FALSE ELSE r.login > ours.login
Take(r) == ours' = IF Takes(r) THEN EntryOf(r) ELSE ours

SyncApply ==
    /\ sync.at = "apply"
    /\ Link /\ Take(sync.result) /\ SyncGoes("forget")
    /\ UNCHANGED <<hostVars, imported, record, keep, import, scanned>>

SyncForget ==
    /\ sync.at = "forget" /\ record' = FALSE
    /\ sync' = [at |-> "pull", result |-> NoOne]
    /\ UNCHANGED <<hostVars, ours, linked, imported, keep, import, scanned>>

(* syncAutoLinkedCredentials: all results of linked accounts.              *)
SyncPull ==
    /\ sync.at = "pull"
    /\ \/ SyncStops
       \/ linked /\ remote # NoOne /\ sync' = [at |-> "pulled", result |-> remote]
    /\ UNCHANGED <<hostVars, ours, tableVars, keep, import, scanned>>

SyncPulled ==
    /\ sync.at = "pulled" /\ SyncStops
    /\ IF linked THEN Take(sync.result) ELSE UNCHANGED ours
    /\ UNCHANGED <<hostVars, tableVars, keep, import, scanned>>

-----------------------------------------------------------------------------
(* importAutoResults.                                                      *)

ImportRead ==
    /\ remote # NoOne /\ Cardinality(import \cup {remote}) <= MaxImports
    /\ import' = import \cup {remote}
    /\ UNCHANGED <<hostVars, ours, tableVars, keep, sync, scanned>>

(* ImportAutoAccount: an older result is skipped, and so is one with the   *)
(* fingerprint of the one imported, which still moves the watermark.       *)
(* Mutant: results older than the watermark are not skipped.               *)
Same(r) == EntryOf(r) = EntryOf(imported)
MutImports(r) == IF imported = NoOne THEN TRUE ELSE ~Same(r)
Imports(r) == IF imported = NoOne THEN TRUE ELSE r.updated >= imported.updated /\ ~Same(r)

(* Another import may have read the same.                                  *)
ImportApply ==
    \E r \in import :
       /\ import' \in {import, import \ {r}}
       /\ IF Imports(r) THEN ours' = EntryOf(r) /\ imported' = r /\ linked' = TRUE
          ELSE /\ imported' = IF Same(r) /\ r.updated > imported.updated THEN r ELSE imported
               /\ UNCHANGED <<ours, linked>>
       /\ UNCHANGED <<hostVars, record, keep, sync, scanned>>

-----------------------------------------------------------------------------
(* The administrator of the manager, and its process.                      *)

Edit ==
    /\ ours' = [cookie |-> Made("edit", clock), login |-> clock]
    /\ UNCHANGED <<hostVars, tableVars, keep, sync, import, scanned>>

(* syncOne, with the row as it was when the scan began: it saves that row, *)
(* cookie included, if the user or the key was missing.                    *)
ScanReads ==
    /\ ours # NoOne /\ scanned' = ours.cookie
    /\ UNCHANGED <<hostVars, ours, tableVars, keep, sync, import>>

ScanEnds ==
    /\ scanned # NoOne /\ scanned' = NoOne
    /\ UNCHANGED ours \/ ours' = [cookie |-> scanned, login |-> clock]
    /\ UNCHANGED <<hostVars, tableVars, keep, sync, import>>

(* The other tables go with the account, and a scan finds no row to save.  *)
RemoveAccount ==
    /\ ours # NoOne /\ ours' = NoOne /\ scanned' = NoOne
    /\ linked' = FALSE /\ imported' = NoOne /\ record' = FALSE
    /\ UNCHANGED <<hostVars, keep, sync, import>>

ManagerRestart ==
    /\ Give /\ SyncStops /\ import' = {} /\ scanned' = NoOne
    /\ UNCHANGED <<hostVars, ours, tableVars>>

Sync == SyncPoll \/ SyncApply \/ SyncForget \/ SyncPull \/ SyncPulled
Keep == KeepList \/ KeepUpload \/ KeepLink \/ KeepStart \/ KeepSave
Scan == ScanReads \/ ScanEnds

NextTransfer ==
    \/ ClockTick \/ DailyRenewal \/ RenewalEnds \/ AutoWork \/ AutoRestart
    \/ Keep \/ Sync \/ ImportRead \/ ImportApply
    \/ Edit \/ Scan \/ RemoveAccount \/ ManagerRestart

SpecTransfer == InitTransfer /\ [][NextTransfer]_transferVars

-----------------------------------------------------------------------------
(* A row that replaces another: of a later login, and with an older cookie *)
(* only if a scan or a failed login has moved the time of that login.      *)
Moved(row) == row.login > row.cookie.at
Follows(new, old) ==
    new.login >= old.login /\ (new.cookie.at >= old.cookie.at \/ Moved(new))

(* Uploads, renewals and the poller never put an older cookie in the place *)
(* of a newer one, on either side, unless its time was moved before: not   *)
(* when an upload arrives after the renewal it was meant for, nor when a   *)
(* result is applied twice, late, or after an edit (auto_receive.go:15     *)
(* "Equal or unknown login times prefer Auto's existing cookie",           *)
(* auto_import.go:193 "A local credential edit after the remote login      *)
(* wins").  Nor does a scan or a login at either side bring the time of    *)
(* the login back that the next comparison goes by.                        *)
CookieNeverOlder ==
    [][/\ remote # NoOne /\ remote' # NoOne => Follows(remote', remote)
       /\ (Sync \/ Scan \/ Edit) /\ ours # NoOne => Follows(ours', ours)
       /\ Sync /\ ours # NoOne => ours' = ours \/ ours'.login > ours.login]_transferVars

(* Of two imports the older result is never applied after the newer one,   *)
(* in whatever order they read and save (auto_import.go:67 "an unchanged   *)
(* result proves that older versions are stale"), unless Auto wrote both   *)
(* within one second, which the watermark cannot tell apart, or a failed   *)
(* login emptied the row and an older upload filled it again.              *)
ImportedNeverOlder ==
    [][imported # NoOne /\ imported' # NoOne =>
          /\ imported'.updated >= imported.updated
          /\ ~emptied /\ imported'.updated > imported.updated =>
                 Follows(imported', imported)]_transferVars

(* A renewal that completes late never overwrites a cookie edited while it *)
(* ran (auto_transfer.go:300 "so a delayed completed task never overwrites *)
(* a cookie edited locally while that task was running").                  *)
EditedCookieStays ==
    [][/\ SyncApply /\ ours # NoOne /\ ours.cookie.by = "edit"
       /\ sync.result.cookie.from < ours.cookie.at
       => ours' = ours]_transferVars

(* The behaviours in which nobody edits a cookie while a renewal or a login *)
(* at Auto is under way, and no row is written back with its old cookie.   *)
Begun == (IF job.state = "running" THEN {job.from} ELSE {})
         \cup (IF restore.at = "login" THEN {restore.from} ELSE {})
NextUnedited ==
    /\ NextTransfer /\ (Edit => Begun = {})
    /\ ScanEnds => UNCHANGED ours
    /\ AutoScanEnds => UNCHANGED remote
    /\ LoginEnds => remote' = Saved(Made("renewal", restore.from))

SpecUnedited == InitTransfer /\ [][NextUnedited]_transferVars
=============================================================================
