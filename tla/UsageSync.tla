------------------------------ MODULE UsageSync ------------------------------
(***************************************************************************)
(* The usage scan of the manager (internal/usage/sync.go): a loop and the  *)
(* administrator start scans of lists of accounts, a scan syncs some       *)
(* accounts at a time.  Each sync works on the row it read before it asked *)
(* Cline; meanwhile single syncs, uploads, 429s and the administrator      *)
(* write and delete rows.                                                  *)
(***************************************************************************)
EXTENDS Integers, FiniteSets

CONSTANTS
    ScanAccounts,   \* accounts of the pool
    ScanLimit,      \* usage_refresh_concurrency
    Nothing

ASSUME ScanAssumption ==
    IsFiniteSet(ScanAccounts) /\ ScanLimit \in Nat \ {0}

VARIABLES
    urow,    \* the row of each account with its usage, Nothing when deleted
    loop,    \* where StartLoop is
    batch,   \* a list somebody read and filtered, Nothing without
    status,  \* Syncer.st
    todo,    \* accounts of the scan that have no goroutine yet
    slots,   \* places taken in the channel of the scan
    asking   \* syncs under way: the row each has read, {} without

scanVars == <<urow, loop, batch, status, todo, slots, asking>>

(* stale: the cookie is known to have expired; spent: the month is used    *)
(* up.                                                                     *)
UsageRow == [paid : BOOLEAN, stale : BOOLEAN, spent : BOOLEAN]
There == {a \in ScanAccounts : urow[a] # Nothing}
Busy == {a \in ScanAccounts : asking[a] # {}}

InitScan ==
    /\ urow \in [ScanAccounts -> {r \in UsageRow : r.paid /\ ~r.spent}]
    /\ loop = "off" /\ batch = Nothing
    /\ status = [running |-> FALSE, total |-> 0, done |-> 0, fail |-> 0,
                 paid |-> 0, unpaid |-> 0]
    /\ todo = {} /\ slots = 0
    /\ asking = [a \in ScanAccounts |-> {}]

Tally == 0..Cardinality(ScanAccounts)
TypeOKScan ==
    /\ urow \in [ScanAccounts -> UsageRow \cup {Nothing}]
    /\ loop \in {"off", "start", "claim", "idle", "sleep"}
    /\ batch = Nothing \/ batch \subseteq ScanAccounts
    /\ status \in [running : BOOLEAN, total : Tally, done : Tally,
                   fail : Tally, paid : Tally, unpaid : Tally]
    /\ todo \subseteq ScanAccounts /\ slots \in 0..ScanLimit
    /\ \A a \in ScanAccounts : \A r \in asking[a] :
          asking[a] = {r} /\ r \in UsageRow \cup {Nothing}

-----------------------------------------------------------------------------
(* StartAll, StartAllForced and StartBatch.                                *)

(* DeleteExpiredAccounts; a batch is listed without.                       *)
Kept == [a \in ScanAccounts |->
           IF urow[a] # Nothing /\ urow[a].paid /\ urow[a].spent THEN Nothing ELSE urow[a]]
Listed(rows) == {a \in ScanAccounts : rows[a] # Nothing /\ rows[a].paid /\ ~rows[a].stale}

(* start claims the scan under the lock, for a list filtered before it.    *)
(* Mutant: a scan that runs is not looked for.                             *)
MutFree == TRUE
Free == ~status.running
Claim(list) ==
    IF Free
       THEN /\ status' = [running |-> TRUE, total |-> Cardinality(list), done |-> 0,
                          fail |-> 0, paid |-> 0, unpaid |-> 0]
            /\ todo' = list
       ELSE UNCHANGED <<status, todo>>

StartLoop ==
    /\ loop = "off" /\ loop' = "start"
    /\ UNCHANGED <<urow, batch, status, todo, slots, asking>>

LoopList ==
    /\ loop = "start" /\ loop' = "claim"
    /\ urow' = Kept
    /\ UNCHANGED <<batch, status, todo, slots, asking>>

LoopStart ==
    /\ loop = "claim" /\ loop' = "idle"
    /\ Claim(Listed(urow))
    /\ UNCHANGED <<urow, batch, slots, asking>>

(* waitIdle, and the pause until the next scan.                            *)
LoopIdle ==
    /\ \/ loop = "idle" /\ ~status.running /\ loop' = "sleep"
       \/ loop = "sleep" /\ loop' = "start"
    /\ UNCHANGED <<urow, batch, status, todo, slots, asking>>

ByHandList ==
    /\ batch = Nothing
    /\ \/ urow' = Kept /\ batch' = Listed(Kept)
       \/ \E list \in SUBSET There :
             batch' = {a \in list : ~urow[a].stale} /\ UNCHANGED urow
    /\ UNCHANGED <<loop, status, todo, slots, asking>>

ByHandStart ==
    /\ batch # Nothing /\ batch' = Nothing
    /\ Claim(batch)
    /\ UNCHANGED <<urow, loop, slots, asking>>

-----------------------------------------------------------------------------
(* run.                                                                    *)

RunNext(a) ==
    /\ a \in todo /\ slots < ScanLimit
    /\ todo' = todo \ {a} /\ slots' = slots + 1
    /\ asking' = [asking EXCEPT ![a] = {urow[a]}]
    /\ UNCHANGED <<urow, loop, batch, status>>

RunEnds ==
    /\ status.running /\ todo = {} /\ Busy = {}
    /\ status' = [status EXCEPT !.running = FALSE]
    /\ UNCHANGED <<urow, loop, batch, todo, slots, asking>>

(* A goroutine counts its result and leaves.                               *)
(* Mutant: a sync that failed is also counted as unpaid.                   *)
MutCount(result) ==
    status' = [status EXCEPT !.done = @ + 1,
                             !.fail = IF result = "fail" THEN @ + 1 ELSE @,
                             !.paid = IF result = "paid" THEN @ + 1 ELSE @,
                             !.unpaid = IF result # "paid" THEN @ + 1 ELSE @]
Count(result) ==
    status' = [status EXCEPT !.done = @ + 1,
                             !.fail = IF result = "fail" THEN @ + 1 ELSE @,
                             !.paid = IF result = "paid" THEN @ + 1 ELSE @,
                             !.unpaid = IF result = "unpaid" THEN @ + 1 ELSE @]
(* Mutant: a sync that failed keeps its place in the channel.              *)
MutLeaveSlot(result) == slots' = IF result = "fail" THEN slots ELSE slots - 1
LeaveSlot(result) == slots' = slots - 1
Leave(a, result) ==
    /\ asking' = [asking EXCEPT ![a] = {}]
    /\ Count(result) /\ LeaveSlot(result)
    /\ UNCHANGED <<loop, batch, todo>>

-----------------------------------------------------------------------------
(* syncOne: prev is the row it has read, Nothing when it was gone.         *)

Save(a, row) == urow' = [urow EXCEPT ![a] = IF @ = Nothing THEN Nothing ELSE row]

SyncSpent(a) ==
    /\ \E prev \in asking[a] \ {Nothing} :
          prev.spent /\ urow' = [urow EXCEPT ![a] = Nothing]
    /\ Leave(a, "fail")

SyncStale(a) ==
    /\ \E prev \in asking[a] \ {Nothing} : prev.stale /\ ~prev.spent
    /\ UNCHANGED urow
    /\ Leave(a, "paid")

Asks(prev) == IF prev = Nothing THEN TRUE ELSE ~prev.spent /\ ~prev.stale

(* Hydrate or the fetch failed: the usage that was read is written back    *)
(* with the error; whether the account is paid for stays.                  *)
SyncFails(a) ==
    /\ \E prev \in asking[a], stale \in BOOLEAN :
          /\ Asks(prev)
          /\ IF prev = Nothing \/ urow[a] = Nothing THEN UNCHANGED urow
             ELSE Save(a, [prev EXCEPT !.stale = stale, !.paid = urow[a].paid])
    /\ Leave(a, "fail")

(* The fetch came back; saving for an account that is gone is refused by   *)
(* the foreign key.                                                        *)
SyncDone(a) ==
    \E prev \in asking[a], subscribed, spent \in BOOLEAN :
       /\ Asks(prev)
       /\ Save(a, [paid |-> subscribed, stale |-> FALSE, spent |-> subscribed /\ spent])
       /\ Leave(a, IF urow[a] = Nothing THEN "fail"
                   ELSE IF subscribed THEN "paid" ELSE "unpaid")

SyncStep(a) == SyncSpent(a) \/ SyncStale(a) \/ SyncFails(a) \/ SyncDone(a)

-----------------------------------------------------------------------------
(* Meanwhile single syncs (One, Refresh) write their results, a 429 parks  *)
(* the account, a cookie is uploaded or marked as expired, the account is  *)
(* deleted.                                                                *)
EditRow(a) ==
    /\ a \in There
    /\ \/ \E field \in {"paid", "stale", "spent"} : urow' = [urow EXCEPT ![a][field] = ~@]
       \/ urow' = [urow EXCEPT ![a] = Nothing]
    /\ UNCHANGED <<loop, batch, status, todo, slots, asking>>

LoopStep == LoopList \/ LoopStart \/ LoopIdle

NextScan ==
    \/ StartLoop \/ LoopStep \/ ByHandList \/ ByHandStart
    \/ RunEnds \/ \E a \in ScanAccounts : RunNext(a) \/ SyncStep(a) \/ EditRow(a)

SpecScan == InitScan /\ [][NextScan]_scanVars

(* The loop is a goroutine, a scan takes the next account when there is a  *)
(* place, and a call to Cline has a time limit.  Nobody has to start       *)
(* anything by hand.                                                       *)
FairScan ==
    /\ WF_scanVars(LoopStep) /\ WF_scanVars(RunEnds)
    /\ WF_scanVars(\E a \in ScanAccounts : RunNext(a))
    /\ \A a \in ScanAccounts : WF_scanVars(SyncStep(a))

-----------------------------------------------------------------------------
(* The figures of a scan add up at every moment: each account of its list  *)
(* is waiting, being synced or counted once under one result, also when it *)
(* was deleted under the scan, and another scan never starts over them     *)
(* (sync.go:213-225, :252-261).                                            *)
ScanAddsUp ==
    /\ status.done = status.fail + status.paid + status.unpaid
    /\ status.total = status.done + Cardinality(todo) + Cardinality(Busy)
    /\ slots = Cardinality(Busy)

(* A scan that was started comes to its end, whatever is edited or deleted *)
(* under it and whoever tries to start another one: the next one, by hand  *)
(* or by the loop, is refused until then (sync.go:231-237, :250 the place  *)
(* given back on every way out, :264).                                     *)
ScanEnds == []<>(~status.running)
=============================================================================
