------------------------ MODULE CookieTransferProofs ------------------------
(***************************************************************************)
(* What TLAPS proves of CookieTransfer, for any number of seconds and of   *)
(* imports: neither side ever replaces a cookie by an older one whose      *)
(* login is the time it was made, and no import undoes a later one.  And   *)
(* of MCProxyTransfer, where the proxy runs beside it, that each keeps     *)
(* what its specification guarantees.  EditedCookieStays, which is         *)
(* violated, holds where nobody edits a cookie while a renewal runs and no *)
(* login is moved.                                                         *)
(***************************************************************************)
EXTENDS MCProxyTransfer, ForwarderProofs

(* The results somebody holds: read by an import, or applied by one.       *)
Known == import \cup ({imported} \ {NoOne})

(* No cookie and no login is from the future, a login is never older than  *)
(* its cookie, and results were known in the order in which Auto wrote     *)
(* them: what was written later has the later login.                       *)
ShapeInv ==
    /\ clock \in Seconds
    /\ ours \in Entry \cup {NoOne} /\ remote \in Result \cup {NoOne}
    /\ imported \in Result \cup {NoOne} /\ import \subseteq Result
    /\ job \in [state : {"over", "running", "success"}, from : Seconds]
    /\ keep \in [at : {"idle", "upload", "link", "start", "save"}, row : Entry \cup {NoOne}]
    /\ keep.at = "upload" => keep.row # NoOne
    /\ sync \in [at : {"idle", "apply", "forget", "pull", "pulled"},
                 result : Result \cup {NoOne}]
    /\ sync.at \in {"apply", "pulled"} => sync.result # NoOne
    /\ scanned \in Cookie \cup {NoOne} /\ emptied \in BOOLEAN
    /\ restore \in [at : {"idle", "scan", "login"}, cookie : Cookie \cup {NoOne},
                    from : Seconds]
    /\ restore.at = "scan" => restore.cookie # NoOne
    /\ job.state = "running" => remote # NoOne /\ restore.at # "login"
Past(r) == r.cookie.at <= r.login /\ r.login <= clock
PastInv ==
    /\ remote # NoOne => Past(remote) /\ remote.updated <= clock
    /\ ours # NoOne => Past(ours)
    /\ keep.row # NoOne => Past(keep.row)
    /\ sync.result # NoOne => Past(sync.result)
    /\ \A r \in Known : Past(r)
    /\ scanned # NoOne => scanned.at <= clock
    /\ restore.cookie # NoOne => restore.cookie.at <= clock
OrderInv ==
    ~emptied =>
       /\ \A r \in Known : remote # NoOne /\ r.updated <= remote.updated
                             /\ r.login <= remote.login
       /\ \A r, s \in Known : r.updated < s.updated => r.login <= s.login
TransferInv == ShapeInv /\ PastInv /\ OrderInv

-----------------------------------------------------------------------------
LEMMA CookieFields ==
    /\ \A c \in Cookie : c.at \in Int /\ c # NoOne
    /\ \A e \in Entry : e.login \in Int /\ e.cookie \in Cookie /\ e # NoOne
    /\ \A r \in Result : r.updated \in Int /\ r.login \in Int /\ r.cookie \in Cookie /\ r # NoOne
    /\ Seconds \subseteq Int
    /\ \A r \in Result : /\ EntryOf(r) \in Entry
                         /\ EntryOf(r).login = r.login /\ EntryOf(r).cookie = r.cookie
<1> USE TransferAssumption, NoOneAssumption DEF Cookie, Entry, Result, Seconds
<1>1. \A c \in Cookie : c.at \in Int /\ c # NoOne
  OBVIOUS
<1>2. \A e \in Entry : e.login \in Int /\ e.cookie \in Cookie /\ e # NoOne
  OBVIOUS
<1>3. \A r \in Result : r.updated \in Int /\ r.login \in Int /\ r.cookie \in Cookie /\ r # NoOne
  OBVIOUS
<1>4. \A r \in Result : /\ EntryOf(r) \in Entry
                        /\ EntryOf(r).login = r.login /\ EntryOf(r).cookie = r.cookie
  BY DEF EntryOf
<1> QED
  BY <1>1, <1>2, <1>3, <1>4

(* What is written at this second.                                         *)
LEMMA WrittenFields ==
    ASSUME clock \in Seconds
    PROVE  /\ \A who \in {"edit", "renewal"}, start \in Seconds :
                 /\ Made(who, start) \in Cookie /\ Made(who, start).at = clock
                 /\ Made(who, start).by = who /\ Made(who, start).from = start
           /\ \A c \in Cookie :
                 /\ Saved(c) \in Result /\ Saved(c).cookie = c
                 /\ Saved(c).login = clock /\ Saved(c).updated = clock
                 /\ [cookie |-> c, login |-> clock] \in Entry
           /\ \A e \in Entry :
                 /\ ResultOf(e) \in Result /\ ResultOf(e).cookie = e.cookie
                 /\ ResultOf(e).login = e.login /\ ResultOf(e).updated = clock
           /\ \A r \in Result :
                 /\ [r EXCEPT !.updated = clock] \in Result
                 /\ [r EXCEPT !.updated = clock].cookie = r.cookie
                 /\ [r EXCEPT !.updated = clock].login = r.login
                 /\ [r EXCEPT !.updated = clock].updated = clock
BY DEF Cookie, Entry, Result, Made, Saved, ResultOf

LEMMA InitOK == InitTransfer => TransferInv
<1> SUFFICES ASSUME InitTransfer PROVE TransferInv
  OBVIOUS
<1> USE DEF InitTransfer
<1>1. 0 \in Seconds /\ clock \in Seconds /\ clock = 0
  BY TransferAssumption DEF Seconds
<1>2. /\ Made("edit", 0) \in Cookie /\ Made("edit", 0).at = 0
      /\ Made("renewal", 0) \in Cookie /\ Made("renewal", 0).at = 0
  BY <1>1, WrittenFields
<1>3. /\ ours # NoOne => ours \in Entry /\ ours.cookie.at = 0 /\ ours.login = 0
      /\ remote # NoOne => remote \in Result /\ remote.cookie.at = 0 /\ remote.login = 0
                             /\ remote.updated = 0
  <2>1. [cookie |-> Made("edit", 0), login |-> 0] \in Entry
    BY <1>1, <1>2 DEF Entry
  <2>2. ours # NoOne => ours = [cookie |-> Made("edit", 0), login |-> 0]
    OBVIOUS
  <2>3. LET r == Saved(Made("renewal", 0))
        IN  r \in Result /\ r.cookie.at = 0 /\ r.login = 0 /\ r.updated = 0
    BY <1>1, <1>2, WrittenFields
  <2>4. remote # NoOne => remote = Saved(Made("renewal", 0))
    OBVIOUS
  <2>5. remote # NoOne => remote \in Result /\ remote.cookie.at = 0 /\ remote.login = 0
                            /\ remote.updated = 0
    BY <2>3, <2>4
  <2>6. ours # NoOne => ours \in Entry /\ ours.cookie.at = 0 /\ ours.login = 0
    BY <1>2, <2>1, <2>2
  <2> QED
    BY <2>5, <2>6
<1>4. ShapeInv
  BY <1>1, <1>3 DEF ShapeInv, Job, NoRestore
<1>5. PastInv
  BY <1>1, <1>3 DEF PastInv, Past, Known, NoRestore
<1>6. OrderInv
  BY DEF OrderInv, Known
<1> QED
  BY <1>4, <1>5, <1>6 DEF TransferInv

-----------------------------------------------------------------------------
(* Auto's row after a step of Auto: as it was, with a new time of writing, *)
(* or with some cookie and this second as the time of its login.           *)
Written ==
    UNCHANGED remote \/ Touch \/ \E c \in Cookie : c.at <= clock /\ remote' = Saved(c)

LEMMA RowWritten ==
    ASSUME TransferInv, Written
    PROVE  /\ remote' \in Result \cup {NoOne}
           /\ remote # NoOne => remote' # NoOne /\ remote'.login >= remote.login
           /\ remote' # NoOne => /\ remote'.cookie.at <= remote'.login
                                 /\ remote'.login <= clock /\ remote'.updated <= clock
           /\ remote' = remote \/ (remote' # NoOne /\ remote'.updated = clock)
<1>1. /\ clock \in Seconds /\ clock \in Int /\ remote \in Result \cup {NoOne}
      /\ remote # NoOne => /\ remote.cookie.at \in Int /\ remote.login \in Int
                           /\ remote.updated \in Int /\ remote.updated <= clock
                           /\ remote.cookie.at <= remote.login /\ remote.login <= clock
  BY CookieFields DEF TransferInv, ShapeInv, PastInv, Past
<1>2. CASE UNCHANGED remote
  BY <1>1, <1>2
<1>3. CASE Touch
  <2>1. CASE remote = NoOne
    BY <1>2, <1>3, <2>1 DEF Touch
  <2>2. CASE remote # NoOne
    <3>1. remote \in Result /\ remote' = [remote EXCEPT !.updated = clock]
      BY <1>1, <1>3, <2>2 DEF Touch
    <3>2. /\ remote' \in Result /\ remote'.cookie = remote.cookie
          /\ remote'.login = remote.login /\ remote'.updated = clock
      BY <1>1, <3>1, WrittenFields
    <3>3. remote' # NoOne
      BY <3>2, CookieFields
    <3> QED
      BY <1>1, <2>2, <3>2, <3>3
  <2> QED
    BY <2>1, <2>2
<1>4. ASSUME NEW c \in Cookie, c.at <= clock, remote' = Saved(c)
      PROVE  /\ remote' \in Result /\ remote' # NoOne /\ remote'.cookie.at <= remote'.login
             /\ remote'.login = clock /\ remote'.updated = clock
  <2>1. /\ remote' \in Result /\ remote'.cookie = c
        /\ remote'.login = clock /\ remote'.updated = clock
    BY <1>1, <1>4, WrittenFields
  <2>2. remote' # NoOne
    BY <2>1, CookieFields
  <2> QED
    BY <1>4, <2>1, <2>2
<1>5. CASE \E c \in Cookie : c.at <= clock /\ remote' = Saved(c)
  BY <1>1, <1>4, <1>5
<1> QED
  BY <1>2, <1>3, <1>5 DEF Written

(* Auto writes its row: the result is the latest one, of no older login.   *)
LEMMA RemoteMoves ==
    ASSUME TransferInv, remote' \in Result, remote'.updated = clock,
           remote # NoOne => remote'.login >= remote.login,
           UNCHANGED <<imported, import, emptied>>
    PROVE  OrderInv'
<1> SUFFICES ASSUME ~emptied
             PROVE  /\ \A r \in Known : remote' # NoOne /\ r.updated <= remote'.updated
                                          /\ r.login <= remote'.login
                    /\ \A r, s \in Known : r.updated < s.updated => r.login <= s.login
  BY DEF OrderInv, Known
<1> USE CookieFields DEF TransferInv, ShapeInv, PastInv, OrderInv
<1>1. Known \subseteq Result
  BY DEF Known
<1>2. remote' # NoOne
  OBVIOUS
<1>3. \A r \in Known : r.updated <= remote'.updated /\ r.login <= remote'.login
  <2> SUFFICES ASSUME NEW r \in Known
               PROVE  r.updated <= remote'.updated /\ r.login <= remote'.login
    OBVIOUS
  <2>1. /\ remote \in Result /\ r.updated <= remote.updated /\ r.login <= remote.login
        /\ remote.updated <= clock /\ remote'.login >= remote.login
    OBVIOUS
  <2> QED
    BY <1>1, <2>1
<1> QED
  BY <1>2, <1>3

(* A step that reads and applies no import and leaves Auto's row alone.    *)
LEMMA OrderStays ==
    ASSUME TransferInv, UNCHANGED <<remote, imported, import, emptied>>
    PROVE  OrderInv'
BY DEF TransferInv, OrderInv, Known

LEMMA AutoWrites ==
    ASSUME TransferInv, Written, UNCHANGED <<clock, emptied, managerVars>>,
           job' \in [state : {"over", "running", "success"}, from : Seconds],
           restore' \in [at : {"idle", "scan", "login"}, cookie : Cookie \cup {NoOne},
                         from : Seconds],
           restore'.at = "scan" => restore'.cookie # NoOne,
           restore'.cookie # NoOne => restore'.cookie.at <= clock,
           job'.state = "running" => remote' # NoOne /\ restore'.at # "login"
    PROVE  TransferInv'
<1>1. UNCHANGED <<ours, linked, imported, record, keep, sync, import, scanned>>
  BY DEF managerVars, tableVars
<1>2. ShapeInv'
  BY <1>1, RowWritten DEF TransferInv, ShapeInv
<1>3. PastInv'
  BY <1>1, RowWritten DEF TransferInv, PastInv, Past, Known
<1>4. OrderInv'
  <2>1. CASE remote' = remote
    BY <1>1, <2>1, OrderStays
  <2>2. CASE remote' # NoOne /\ remote'.updated = clock
    BY <1>1, <2>2, RowWritten, RemoteMoves
  <2> QED
    BY <2>1, <2>2, RowWritten
<1> QED
  BY <1>2, <1>3, <1>4 DEF TransferInv

(* What the steps of Auto leave for AutoWrites.                            *)
LEMMA AutoShapes ==
    ASSUME TransferInv
    PROVE  /\ Job("success") \in [state : {"over", "running", "success"}, from : Seconds]
           /\ Job("over") \in [state : {"over", "running", "success"}, from : Seconds]
           /\ Job("success").state # "running" /\ Job("over").state # "running"
           /\ NoRestore \in [at : {"idle", "scan", "login"}, cookie : Cookie \cup {NoOne},
                             from : Seconds]
           /\ NoRestore.at = "idle" /\ NoRestore.cookie = NoOne
<1>1. 0 \in Seconds
  BY TransferAssumption DEF Seconds
<1> QED
  BY <1>1 DEF Job, NoRestore

LEMMA RenewalStarts ==
    ASSUME TransferInv, StartRenewal
    PROVE  /\ remote # NoOne /\ restore.at # "login"
           /\ job' \in [state : {"over", "running", "success"}, from : Seconds]
BY DEF TransferInv, ShapeInv, StartRenewal

-----------------------------------------------------------------------------
(* The steps of Auto.                                                      *)
LEMMA AutoStep ==
    ASSUME TransferInv,
           DailyRenewal \/ RenewalEnds \/ AutoWork \/ AutoRestart
    PROVE  TransferInv'
<1> USE CookieFields, AutoShapes
<1>1. /\ clock \in Seconds /\ clock \in Int /\ remote \in Result \cup {NoOne}
      /\ job \in [state : {"over", "running", "success"}, from : Seconds]
      /\ restore \in [at : {"idle", "scan", "login"}, cookie : Cookie \cup {NoOne},
                      from : Seconds]
      /\ restore.at = "scan" => restore.cookie # NoOne
      /\ job.state = "running" => remote # NoOne /\ restore.at # "login"
      /\ restore.cookie # NoOne => restore.cookie.at <= clock
      /\ remote # NoOne => remote.cookie \in Cookie /\ remote.cookie.at <= clock
  BY DEF TransferInv, ShapeInv, PastInv, Past
<1>2. \A start \in Seconds : Made("renewal", start) \in Cookie /\ Made("renewal", start).at <= clock
  BY <1>1, WrittenFields
<1>3. CASE DailyRenewal
  <2>1. Written /\ UNCHANGED <<clock, emptied, managerVars, restore, remote>>
    BY <1>3 DEF DailyRenewal, Written
  <2> QED
    BY <1>1, <1>3, <2>1, RenewalStarts, AutoWrites DEF DailyRenewal
<1>4. CASE RenewalEnds
  <2>1. job.from \in Seconds /\ job.state = "running" /\ remote # NoOne
    BY <1>1, <1>4 DEF RenewalEnds
  <2>2. Written /\ UNCHANGED <<clock, emptied, managerVars, restore>>
    BY <1>2, <1>4, <2>1 DEF RenewalEnds, Written
  <2>3. job' \in {Job("success"), Job("over")}
    BY <1>4 DEF RenewalEnds
  <2>4. restore' = restore
    BY <2>2
  <2> QED
    BY <1>1, <2>2, <2>3, <2>4, AutoWrites
<1>5. CASE LoginBegins
  <2>1. Written /\ UNCHANGED <<clock, emptied, managerVars, job>> /\ job.state # "running"
    BY <1>5 DEF LoginBegins, Written
  <2>2. /\ restore' \in [at : {"idle", "scan", "login"}, cookie : Cookie \cup {NoOne},
                         from : Seconds]
        /\ restore'.at = "login"
        /\ restore'.cookie # NoOne => restore'.cookie.at <= clock
    BY <1>1, <1>5 DEF LoginBegins
  <2> QED
    BY <1>1, <2>1, <2>2, AutoWrites
<1>6. CASE LoginEnds
  <2>1. restore' = NoRestore /\ UNCHANGED <<clock, managerVars, job>>
        /\ restore.at = "login" /\ job.state # "running"
    BY <1>1, <1>6 DEF LoginEnds
  <2>2. CASE remote' = Saved(Made("renewal", restore.from)) /\ UNCHANGED emptied
    <3>1. Written
      BY <1>1, <1>2, <2>2 DEF Written
    <3> QED
      BY <1>1, <2>1, <2>2, <3>1, AutoWrites
  <2>3. CASE restore.cookie # NoOne /\ remote' = Saved(restore.cookie) /\ UNCHANGED emptied
    <3>1. Written
      BY <1>1, <2>3 DEF Written
    <3> QED
      BY <1>1, <2>1, <2>3, <3>1, AutoWrites
  <2>4. CASE remote' = NoOne /\ emptied' = (emptied \/ remote # NoOne)
    <3>1. CASE remote = NoOne
      <4>1. Written /\ UNCHANGED emptied
        BY <2>4, <3>1 DEF Written, TransferInv, ShapeInv
      <4> QED
        BY <1>1, <2>1, <4>1, AutoWrites
    <3>2. CASE remote # NoOne
      <4>1. emptied' = TRUE
        BY <2>4, <3>2
      <4>2. UNCHANGED <<ours, linked, imported, record, keep, sync, import, scanned>>
        BY <2>1 DEF managerVars, tableVars
      <4>3. ShapeInv'
        BY <1>1, <2>1, <2>4, <4>1, <4>2 DEF TransferInv, ShapeInv
      <4>4. PastInv'
        BY <2>1, <2>4, <4>2 DEF TransferInv, PastInv, Past, Known
      <4> QED
        BY <4>1, <4>3, <4>4 DEF TransferInv, OrderInv
    <3> QED
      BY <3>1, <3>2
  <2> QED
    BY <1>6, <2>2, <2>3, <2>4 DEF LoginEnds
<1>7. CASE AutoScanReads
  <2>1. Written /\ UNCHANGED <<clock, emptied, managerVars, job, remote>> /\ remote # NoOne
    BY <1>7 DEF AutoScanReads, Written
  <2>2. /\ restore' \in [at : {"idle", "scan", "login"}, cookie : Cookie \cup {NoOne},
                         from : Seconds]
        /\ restore'.at = "scan" /\ restore'.cookie = remote.cookie
    BY <1>1, <1>7, TransferAssumption DEF AutoScanReads, Seconds
  <2> QED
    BY <1>1, <2>1, <2>2, AutoWrites
<1>8. CASE AutoScanEnds
  <2>1. /\ restore' = NoRestore /\ UNCHANGED <<clock, emptied, managerVars, job>>
        /\ restore.cookie \in Cookie
    BY <1>1, <1>8 DEF AutoScanEnds
  <2>2. Written
    BY <1>1, <1>8, <2>1 DEF AutoScanEnds, Written
  <2>3. job.state = "running" => remote' # NoOne
    BY <1>1, <2>2, RowWritten
  <2> QED
    BY <1>1, <2>1, <2>2, <2>3, AutoWrites
<1>9. CASE AutoRestart
  <2>1. Written
    BY <1>9 DEF AutoRestart, Written
  <2> QED
    BY <1>1, <1>9, <2>1, AutoWrites DEF AutoRestart
<1> QED
  BY <1>3, <1>4, <1>5, <1>6, <1>7, <1>8, <1>9 DEF AutoWork

LEMMA TickOK ==
    ASSUME TransferInv, ClockTick
    PROVE  TransferInv'
<1>1. clock' = clock + 1 /\ clock' \in Seconds /\ clock \in Int
  BY TransferAssumption DEF ClockTick, TransferInv, ShapeInv, Seconds
<1>2. UNCHANGED <<ours, remote, tableVars, job, keep, sync, import, scanned, restore, emptied>>
  BY DEF ClockTick
<1>3. ShapeInv'
  BY <1>1, <1>2 DEF TransferInv, ShapeInv, tableVars
<1>4. \A t \in Int : t <= clock => t <= clock'
  BY <1>1
<1>5. PastInv'
  <2>1. \A r \in Entry \cup Result : Past(r) => Past(r)'
    BY <1>4, CookieFields DEF Past
  <2>2. Known \subseteq Result /\ Known' = Known
    BY <1>2 DEF TransferInv, ShapeInv, Known, tableVars
  <2> QED
    BY <1>2, <1>4, <2>1, <2>2, CookieFields DEF TransferInv, ShapeInv, PastInv
<1>6. OrderInv'
  BY <1>2, OrderStays DEF tableVars
<1> QED
  BY <1>3, <1>5, <1>6 DEF TransferInv

LEMMA KeepOK ==
    ASSUME TransferInv, Keep
    PROVE  TransferInv'
<1> USE CookieFields DEF TransferInv, KeepGoes, Give, hostVars, tableVars
<1>1. CASE KeepList
  <2>1. ShapeInv'
    BY <1>1 DEF KeepList, ShapeInv
  <2>2. PastInv'
    BY <1>1 DEF KeepList, ShapeInv, PastInv, Past, Known
  <2> QED
    BY <1>1, <2>1, <2>2, OrderStays DEF KeepList
<1>2. CASE KeepUpload
  <2>1. clock \in Seconds /\ keep.row \in Entry /\ Past(keep.row)
    BY <1>2 DEF KeepUpload, ShapeInv, PastInv
  <2>2. CASE UNCHANGED remote
    <3>1. ShapeInv'
      BY <1>2, <2>2 DEF KeepUpload, ShapeInv
    <3>2. PastInv'
      BY <1>2, <2>2 DEF KeepUpload, PastInv, Past, Known
    <3> QED
      BY <1>2, <2>2, <3>1, <3>2, OrderStays DEF KeepUpload
  <2>3. CASE Receives /\ remote' = ResultOf(keep.row)
    <3>1. /\ remote' \in Result /\ remote'.updated = clock
          /\ remote'.cookie = keep.row.cookie /\ remote'.login = keep.row.login
      BY <2>1, <2>3, WrittenFields
    <3>2. remote # NoOne => remote'.login >= remote.login
      BY <2>1, <2>3, <3>1 DEF Receives, ShapeInv
    <3>3. ShapeInv'
      BY <1>2, <3>1 DEF KeepUpload, ShapeInv
    <3>4. PastInv'
      BY <1>2, <2>1, <3>1 DEF KeepUpload, PastInv, Past, Known, ShapeInv
    <3>5. OrderInv'
      BY <1>2, <3>1, <3>2, RemoteMoves DEF KeepUpload
    <3> QED
      BY <3>3, <3>4, <3>5
  <2> QED
    BY <1>2, <2>2, <2>3 DEF KeepUpload, Deliver
<1>3. CASE KeepLink
  <2>1. ShapeInv'
    BY <1>3 DEF KeepLink, Link, ShapeInv
  <2>2. PastInv'
    BY <1>3 DEF KeepLink, PastInv, Past, Known
  <2> QED
    BY <1>3, <2>1, <2>2, OrderStays DEF KeepLink
<1>4. CASE KeepStart
  <2>1. ShapeInv'
    BY <1>4, RenewalStarts DEF KeepStart, ShapeInv
  <2>2. PastInv'
    BY <1>4 DEF KeepStart, PastInv, Past, Known
  <2> QED
    BY <1>4, <2>1, <2>2, OrderStays DEF KeepStart
<1>5. CASE KeepSave
  <2>1. ShapeInv'
    BY <1>5 DEF KeepSave, ShapeInv
  <2>2. PastInv'
    BY <1>5 DEF KeepSave, PastInv, Past, Known
  <2> QED
    BY <1>5, <2>1, <2>2, OrderStays DEF KeepSave
<1> QED
  BY <1>1, <1>2, <1>3, <1>4, <1>5 DEF Keep

LEMMA SyncOK ==
    ASSUME TransferInv, Sync
    PROVE  TransferInv'
<1> USE CookieFields DEF TransferInv, hostVars, tableVars, SyncGoes, SyncStops
<1>1. OrderInv'
  BY OrderStays DEF Sync, SyncPoll, SyncApply, SyncForget, SyncPull, SyncPulled
<1>2. CASE SyncPoll
  <2>1. sync' \in [at : {"idle", "apply", "forget", "pull", "pulled"},
                   result : Result \cup {NoOne}]
        /\ (sync'.at \in {"apply", "pulled"} => sync'.result # NoOne)
        /\ (sync'.result = sync.result \/ sync'.result = NoOne \/ sync'.result = remote)
    BY <1>2 DEF SyncPoll, ShapeInv
  <2>2. ShapeInv'
    BY <1>2, <2>1 DEF SyncPoll, ShapeInv
  <2>3. PastInv'
    BY <1>2, <2>1 DEF SyncPoll, PastInv, Past, Known
  <2> QED
    BY <1>1, <2>2, <2>3
<1>3. ASSUME sync.result # NoOne, Take(sync.result), UNCHANGED clock
      PROVE  /\ ours' \in Entry \cup {NoOne}
             /\ ours' # NoOne => ours'.cookie.at <= ours'.login /\ ours'.login <= clock
  BY <1>3 DEF Take, Takes, ShapeInv, PastInv, Past
<1>4. CASE SyncApply
  <2>1. sync.result # NoOne
    BY <1>4 DEF SyncApply, ShapeInv
  <2>2. ShapeInv'
    BY <1>3, <1>4, <2>1 DEF SyncApply, Link, ShapeInv
  <2>3. PastInv'
    BY <1>3, <1>4, <2>1 DEF SyncApply, PastInv, Past, Known, ShapeInv
  <2> QED
    BY <1>1, <2>2, <2>3
<1>5. CASE SyncForget
  <2>1. ShapeInv'
    BY <1>5 DEF SyncForget, ShapeInv
  <2>2. PastInv'
    BY <1>5 DEF SyncForget, PastInv, Past, Known
  <2> QED
    BY <1>1, <2>1, <2>2
<1>6. CASE SyncPull
  <2>1. ShapeInv'
    BY <1>6 DEF SyncPull, ShapeInv
  <2>2. PastInv'
    BY <1>6 DEF SyncPull, PastInv, Past, Known
  <2> QED
    BY <1>1, <2>1, <2>2
<1>7. CASE SyncPulled
  <2>1. sync.result # NoOne
    BY <1>7 DEF SyncPulled, ShapeInv
  <2>2. /\ ours' \in Entry \cup {NoOne}
        /\ ours' # NoOne => ours'.cookie.at <= ours'.login /\ ours'.login <= clock
    <3>1. CASE linked
      BY <1>3, <1>7, <2>1, <3>1 DEF SyncPulled
    <3>2. CASE ~linked
      BY <1>7, <3>2 DEF SyncPulled, ShapeInv, PastInv, Past
    <3> QED
      BY <3>1, <3>2
  <2>3. ShapeInv'
    BY <1>7, <2>2 DEF SyncPulled, ShapeInv
  <2>4. PastInv'
    BY <1>7, <2>2 DEF SyncPulled, PastInv, Past, Known
  <2> QED
    BY <1>1, <2>3, <2>4
<1> QED
  BY <1>2, <1>4, <1>5, <1>6, <1>7 DEF Sync

LEMMA ImportOK ==
    ASSUME TransferInv, ImportRead \/ ImportApply
    PROVE  TransferInv'
<1> USE CookieFields DEF TransferInv, hostVars, tableVars
<1>1. CASE ImportRead
  <2>1. Known' = Known \cup {remote} /\ remote' = remote /\ remote \in Result
    BY <1>1 DEF ImportRead, Known, ShapeInv
  <2>2. Known \subseteq Result
    BY DEF Known, ShapeInv
  <2>3. ShapeInv'
    BY <1>1 DEF ImportRead, ShapeInv
  <2>4. PastInv'
    BY <1>1, <2>1 DEF ImportRead, PastInv, Past
  <2>5. OrderInv'
    BY <1>1, <2>1, <2>2 DEF ImportRead, OrderInv
  <2> QED
    BY <2>3, <2>4, <2>5
<1>2. CASE ImportApply
  <2>1. PICK r \in import :
           /\ import' \in {import, import \ {r}}
           /\ IF Imports(r) THEN ours' = EntryOf(r) /\ imported' = r /\ linked' = TRUE
              ELSE /\ imported' = IF Same(r) /\ r.updated > imported.updated THEN r ELSE imported
                   /\ UNCHANGED <<ours, linked>>
           /\ UNCHANGED <<hostVars, record, keep, sync, scanned>>
    BY <1>2 DEF ImportApply
  <2>2. /\ r \in Result /\ r \in Known /\ Past(r)
        /\ import' \subseteq import /\ imported' \in {r, imported}
        /\ ours' \in {EntryOf(r), ours}
    BY <2>1 DEF ShapeInv, PastInv, Known
  <2>3. Known' \subseteq Known /\ remote' = remote /\ emptied' = emptied /\ clock' = clock
    BY <2>1, <2>2 DEF Known
  <2>4. ShapeInv'
    BY <2>1, <2>2 DEF ShapeInv
  <2>5. PastInv'
    <3>1. /\ ours' # NoOne => ours'.cookie.at <= ours'.login /\ ours'.login <= clock
      BY <2>2 DEF PastInv, Past
    <3>2. UNCHANGED <<clock, remote, keep, sync, scanned, restore>>
      BY <2>1
    <3> QED
      BY <2>3, <3>1, <3>2 DEF PastInv, Past
  <2>6. OrderInv'
    BY <2>3 DEF OrderInv
  <2> QED
    BY <2>4, <2>5, <2>6
<1> QED
  BY <1>1, <1>2

LEMMA AdministratorOK ==
    ASSUME TransferInv, Edit \/ Scan \/ RemoveAccount \/ ManagerRestart
    PROVE  TransferInv'
<1> USE CookieFields DEF TransferInv, hostVars, tableVars
<1>1. /\ clock \in Seconds /\ clock' = clock /\ emptied' = emptied /\ remote' = remote
      /\ UNCHANGED <<job, restore>>
  BY DEF ShapeInv, Edit, Scan, ScanReads, ScanEnds, RemoveAccount, ManagerRestart
<1>2. /\ ours' \in Entry \cup {NoOne}
      /\ ours' # NoOne => ours'.cookie.at <= ours'.login /\ ours'.login <= clock
  <2>1. CASE UNCHANGED ours
    BY <2>1 DEF ShapeInv, PastInv, Past
  <2>2. CASE Edit
    BY <1>1, <2>2, WrittenFields DEF Edit
  <2>3. CASE scanned # NoOne /\ ours' = [cookie |-> scanned, login |-> clock]
    BY <1>1, <2>3, WrittenFields DEF ShapeInv, PastInv
  <2>4. CASE ours' = NoOne
    BY <2>4
  <2> QED
    BY <2>1, <2>2, <2>3, <2>4 DEF Scan, ScanReads, ScanEnds, RemoveAccount, ManagerRestart
<1>3. scanned' \in Cookie \cup {NoOne} /\ (scanned' # NoOne => scanned'.at <= clock)
  BY DEF ShapeInv, PastInv, Past, Edit, Scan, ScanReads, ScanEnds, RemoveAccount, ManagerRestart
<1>4. Known' \subseteq Known
  BY DEF Edit, Scan, ScanReads, ScanEnds, RemoveAccount, ManagerRestart, Known
<1>5. /\ keep' = keep \/ keep' = [at |-> "idle", row |-> NoOne]
      /\ sync' = sync \/ sync' = [at |-> "idle", result |-> NoOne]
      /\ import' \subseteq import /\ imported' \in {imported, NoOne}
  BY DEF Edit, Scan, ScanReads, ScanEnds, RemoveAccount, ManagerRestart, Give, KeepGoes,
     SyncStops
<1>6. ShapeInv'
  BY <1>1, <1>2, <1>3, <1>5 DEF ShapeInv
<1>7. PastInv'
  BY <1>1, <1>2, <1>3, <1>4, <1>5 DEF PastInv, Past
<1>8. OrderInv'
  BY <1>1, <1>4 DEF OrderInv
<1> QED
  BY <1>6, <1>7, <1>8

LEMMA StepOK == TransferInv /\ [NextTransfer]_transferVars => TransferInv'
<1> SUFFICES ASSUME TransferInv, [NextTransfer]_transferVars
             PROVE  TransferInv'
  OBVIOUS
<1>1. CASE NextTransfer
  BY <1>1, TickOK, AutoStep, KeepOK, SyncOK, ImportOK, AdministratorOK DEF NextTransfer
<1>2. CASE UNCHANGED transferVars
  BY <1>2 DEF transferVars, tableVars, TransferInv, ShapeInv, PastInv, Past, OrderInv, Known
<1> QED
  BY <1>1, <1>2

-----------------------------------------------------------------------------
(* In every reachable state no cookie is from the future and the results   *)
(* that imports hold are in the order in which Auto wrote them             *)
(* (auto_import.go:67, auto_receive.go:15).                                *)
THEOREM ResultsInOrder == SpecTransfer => []TransferInv
BY InitOK, StepOK, PTL DEF SpecTransfer

(* A row of a later login has the later cookie, unless its login was moved.*)
LEMMA LaterFollows ==
    ASSUME NEW new, NEW old, new.login \in Int, new.cookie.at \in Int,
           old.login \in Int, old.cookie.at \in Int,
           new.login >= old.login, new.cookie.at <= new.login, old.cookie.at <= old.login
    PROVE  Follows(new, old)
BY DEF Follows, Moved

(* Which steps write Auto's row, and that its login is never an older one. *)
LEMMA NoStepBack ==
    ASSUME TransferInv, NextTransfer, remote # NoOne, remote' # NoOne
    PROVE  remote'.login >= remote.login
<1> USE CookieFields DEF TransferInv, hostVars, tableVars
<1>1. /\ remote \in Result /\ remote.login \in Int /\ clock \in Int /\ remote.login <= clock
      /\ clock \in Seconds
  BY DEF ShapeInv, PastInv, Past
<1>2. CASE KeepUpload
  <2>1. keep.row \in Entry
    BY <1>2 DEF KeepUpload, ShapeInv
  <2> QED
    BY <1>1, <1>2, <2>1, WrittenFields DEF KeepUpload, Deliver, Receives
<1>3. CASE LoginEnds
  BY <1>1, <1>3 DEF LoginEnds, Saved
<1>4. CASE RenewalEnds \/ LoginBegins \/ AutoScanEnds
  <2>1. CASE UNCHANGED remote
    BY <1>1, <2>1
  <2>2. CASE Touch
    BY <1>1, <2>2, WrittenFields DEF Touch
  <2>3. ASSUME NEW c, remote' = Saved(c) PROVE remote'.login >= remote.login
    BY <1>1, <2>3 DEF Saved
  <2> QED
    BY <1>4, <2>1, <2>2, <2>3 DEF RenewalEnds, LoginBegins, AutoScanEnds
<1>5. CASE UNCHANGED remote
  BY <1>1, <1>5
<1> QED
  BY <1>2, <1>3, <1>4, <1>5 DEF NextTransfer, Keep, Sync, Scan, AutoWork, ClockTick,
     DailyRenewal, AutoScanReads, AutoRestart, KeepList, KeepLink, KeepStart, KeepSave,
     SyncPoll, SyncApply, SyncForget, SyncPull, SyncPulled, ImportRead, ImportApply, Edit,
     ScanReads, ScanEnds, RemoveAccount, ManagerRestart

(* Neither the poller nor a scan nor an edit goes back in the pool.        *)
LEMMA NoPoolStepBack ==
    ASSUME TransferInv, Sync \/ Scan \/ Edit, ours # NoOne
    PROVE  /\ ours' # NoOne /\ ours'.login >= ours.login
           /\ Sync => ours' = ours \/ ours'.login > ours.login
<1> USE CookieFields DEF TransferInv
<1>1. ours \in Entry /\ ours.login \in Int /\ clock \in Int /\ ours.login <= clock
      /\ clock \in Seconds
  BY DEF ShapeInv, PastInv, Past
<1>2. CASE Sync
  <2>1. ours' = ours \/ (sync.result # NoOne /\ Takes(sync.result) /\ ours' = EntryOf(sync.result))
    BY <1>2 DEF Sync, SyncPoll, SyncApply, SyncForget, SyncPull, SyncPulled, Take, ShapeInv
  <2>2. CASE ours' = ours
    BY <1>1, <2>2
  <2>3. CASE sync.result # NoOne /\ Takes(sync.result) /\ ours' = EntryOf(sync.result)
    <3>1. sync.result \in Result
      BY <2>3 DEF ShapeInv
    <3>2. ours' \in Entry /\ ours'.login > ours.login /\ ours'.login \in Int
      BY <2>3, <3>1 DEF Takes
    <3> QED
      BY <1>1, <3>2
  <2> QED
    BY <2>1, <2>2, <2>3
<1>3. CASE Scan \/ Edit
  <2>1. ~Sync \/ ours' = ours \/ ours'.login > ours.login
    BY <1>2
  <2>2. CASE ours' = ours
    BY <1>1, <2>2
  <2>3. ASSUME NEW c \in Cookie, ours' = [cookie |-> c, login |-> clock]
        PROVE  ours' # NoOne /\ ours'.login >= ours.login
    <3>1. ours' \in Entry
      BY <1>1, <2>3, WrittenFields
    <3> QED
      BY <1>1, <2>3, <3>1
  <2>4. clock \in Seconds /\ (scanned # NoOne => scanned \in Cookie)
        /\ Made("edit", clock) \in Cookie
    BY WrittenFields DEF ShapeInv
  <2>5. ours' = ours \/ \E c \in Cookie : ours' = [cookie |-> c, login |-> clock]
    BY <1>3, <2>4 DEF Scan, ScanReads, ScanEnds, Edit
  <2>6. ours' # NoOne /\ ours'.login >= ours.login
    BY <2>2, <2>3, <2>5
  <2> QED
    BY <2>1, <2>6
<1> QED
  BY <1>2, <1>3

(* Uploads, renewals and the poller never put an older cookie in the place *)
(* of a newer one, on either side, unless a scan or a failed login moved   *)
(* the time of its login (auto_receive.go:15, auto_import.go:193).         *)
THEOREM NoOlderCookie == SpecTransfer => CookieNeverOlder
<1> DEFINE A == /\ remote # NoOne /\ remote' # NoOne => Follows(remote', remote)
                /\ (Sync \/ Scan \/ Edit) /\ ours # NoOne => Follows(ours', ours)
                /\ Sync /\ ours # NoOne => ours' = ours \/ ours'.login > ours.login
<1>1. ASSUME TransferInv, TransferInv', NextTransfer PROVE A
  <2> USE CookieFields
  <2>1. ASSUME remote # NoOne, remote' # NoOne PROVE Follows(remote', remote)
    <3>1. remote'.login >= remote.login
      BY <1>1, <2>1, NoStepBack
    <3>2. /\ remote.login \in Int /\ remote.cookie.at \in Int /\ remote.cookie.at <= remote.login
          /\ remote'.login \in Int /\ remote'.cookie.at \in Int
          /\ remote'.cookie.at <= remote'.login
      BY <1>1, <2>1 DEF TransferInv, ShapeInv, PastInv, Past
    <3> QED
      BY <3>1, <3>2, LaterFollows
  <2>2. ASSUME Sync \/ Scan \/ Edit, ours # NoOne PROVE Follows(ours', ours)
    <3>1. ours' # NoOne /\ ours'.login >= ours.login
      BY <1>1, <2>2, NoPoolStepBack
    <3>2. /\ ours.login \in Int /\ ours.cookie.at \in Int /\ ours.cookie.at <= ours.login
          /\ ours'.login \in Int /\ ours'.cookie.at \in Int /\ ours'.cookie.at <= ours'.login
      BY <1>1, <2>2, <3>1 DEF TransferInv, ShapeInv, PastInv, Past
    <3> QED
      BY <3>1, <3>2, LaterFollows
  <2>3. Sync /\ ours # NoOne => ours' = ours \/ ours'.login > ours.login
    BY <1>1, NoPoolStepBack
  <2> QED
    BY <2>1, <2>2, <2>3
<1>2. TransferInv /\ TransferInv' /\ [NextTransfer]_transferVars => [A]_transferVars
  BY <1>1
<1> QED
  BY <1>2, ResultsInOrder, PTL DEF SpecTransfer, CookieNeverOlder

(* Of two imports the older result is never applied after the newer one,   *)
(* unless Auto wrote both within one second (auto_import.go:67) or a login *)
(* that failed emptied Auto's row.                                         *)
THEOREM NoOlderImport == SpecTransfer => ImportedNeverOlder
<1> DEFINE A == imported # NoOne /\ imported' # NoOne =>
                   /\ imported'.updated >= imported.updated
                   /\ ~emptied /\ imported'.updated > imported.updated =>
                         Follows(imported', imported)
<1>1. ASSUME TransferInv, NextTransfer PROVE A
  <2> SUFFICES ASSUME imported # NoOne, imported' # NoOne
               PROVE  /\ imported'.updated >= imported.updated
                      /\ ~emptied /\ imported'.updated > imported.updated =>
                            Follows(imported', imported)
    OBVIOUS
  <2> USE CookieFields
  <2>1. /\ imported \in Result /\ imported.updated \in Int /\ imported.login \in Int
        /\ imported.cookie.at \in Int /\ Past(imported) /\ imported \in Known
    BY <1>1 DEF TransferInv, ShapeInv, PastInv, Known
  <2>2. CASE UNCHANGED imported
    BY <2>1, <2>2
  <2>3. CASE ImportApply
    <3>1. PICK r \in import :
            IF Imports(r) THEN imported' = r
            ELSE imported' = IF Same(r) /\ r.updated > imported.updated THEN r ELSE imported
      BY <2>3 DEF ImportApply
    <3>2. r \in Result /\ r \in Known /\ Past(r)
      BY <1>1 DEF TransferInv, ShapeInv, PastInv, Known
    <3>3. imported' = imported \/ (imported' = r /\ r.updated >= imported.updated)
      BY <2>1, <3>1, <3>2 DEF Imports
    <3>4. CASE imported' = imported
      BY <2>1, <3>4
    <3>5. CASE imported' = r /\ r.updated >= imported.updated
      <4>1. ASSUME ~emptied, r.updated > imported.updated PROVE Follows(r, imported)
        <5>1. imported.login <= r.login
          BY <1>1, <2>1, <3>2, <4>1 DEF TransferInv, OrderInv
        <5> QED
          BY <2>1, <3>2, <5>1, LaterFollows DEF Past
      <4> QED
        BY <3>5, <4>1
    <3> QED
      BY <3>3, <3>4, <3>5
  <2>4. CASE RemoveAccount
    BY <2>4 DEF RemoveAccount
  <2> QED
    BY <1>1, <2>2, <2>3, <2>4 DEF NextTransfer, Keep, Sync, Scan, AutoWork, ClockTick,
       DailyRenewal, RenewalEnds, LoginBegins, LoginEnds, AutoScanReads, AutoScanEnds,
       AutoRestart, KeepList, KeepUpload, KeepLink, KeepStart, KeepSave, SyncPoll, SyncApply,
       SyncForget, SyncPull, SyncPulled, ImportRead, Edit, ScanReads, ScanEnds,
       ManagerRestart, tableVars, managerVars
<1>2. TransferInv /\ [NextTransfer]_transferVars => [A]_transferVars
  BY <1>1
<1> QED
  BY <1>2, ResultsInOrder, PTL DEF SpecTransfer, ImportedNeverOlder

-----------------------------------------------------------------------------
(* The finding of cookie_edit: which edits a renewal overwrites.           *)

(* The rows stored or on their way somewhere, and their cookies.           *)
Copies == ({ours, remote, imported, keep.row, sync.result} \cup import) \ {NoOne}
Holds(c) == \E r \in Copies : c = r.cookie

(* The time of a login is that of its cookie; no edit lies within a        *)
(* renewal, whoever holds the two cookies, and none has been made since    *)
(* the renewal or the login that is under way began.                       *)
Outside(e, r) ==
    e.by = "edit" /\ r.by = "renewal" => e.at <= r.from \/ r.at <= e.at
UneditedInv ==
    /\ \A r \in Copies : r.login = r.cookie.at
    /\ \A c \in Cookie : Holds(c) => c.at <= clock /\ (c.by = "edit" => c.from = c.at)
    /\ \A c \in Cookie, b \in Begun : Holds(c) /\ c.by = "edit" => c.at <= b
    /\ \A e, r \in Cookie : Holds(e) /\ Holds(r) => Outside(e, r)

(* Nobody makes a cookie but the administrator and a renewal that ends.    *)
Makes(c) ==
    \/ Edit /\ c = Made("edit", clock)
    \/ \E b \in Begun : ~Edit /\ c = Made("renewal", b)

LEMMA MadeFields ==
    ASSUME NEW c, Makes(c)
    PROVE  /\ c.at = clock
           /\ \/ Edit /\ c.by = "edit" /\ c.from = clock
              \/ ~Edit /\ c.by = "renewal" /\ c.from \in Begun
BY DEF Makes, Made

(* Row r is a copy of one that was there, or has a new cookie.             *)
Comes(r) ==
    \/ \E s \in Copies : r.cookie = s.cookie /\ r.login = s.login
    \/ Makes(r.cookie) /\ r.login = clock

(* The row of Auto ...                                                     *)
LEMMA AutoRowComes ==
    ASSUME TransferInv, NextUnedited, remote' # NoOne
    PROVE  Comes(remote')
<1> USE DEF Comes
<1>1. /\ clock \in Seconds /\ remote \in Result \cup {NoOne} /\ NextTransfer
      /\ job.from \in Seconds /\ restore.from \in Seconds
  BY DEF TransferInv, ShapeInv, NextUnedited
<1>2. remote # NoOne => remote \in Copies
  BY DEF Copies
<1>3. CASE UNCHANGED remote
  BY <1>2, <1>3
<1>4. CASE Touch
  <2>1. remote # NoOne /\ remote \in Result /\ remote' = [remote EXCEPT !.updated = clock]
    BY <1>1, <1>4 DEF Touch
  <2>2. remote'.cookie = remote.cookie /\ remote'.login = remote.login
    BY <1>1, <2>1, WrittenFields
  <2> QED
    BY <1>2, <2>1, <2>2
<1>5. ASSUME NEW b \in Begun, ~Edit, remote' = Saved(Made("renewal", b)) PROVE Comes(remote')
  <2>1. remote'.cookie = Made("renewal", b) /\ remote'.login = clock
    BY <1>5 DEF Saved
  <2> QED
    BY <1>5, <2>1 DEF Makes
<1>6. Edit => UNCHANGED remote
  BY DEF Edit, hostVars
<1>7. CASE RenewalEnds
  <2>1. job.from \in Begun
    BY <1>7 DEF RenewalEnds, Begun
  <2> QED
    BY <1>3, <1>4, <1>5, <1>6, <1>7, <2>1 DEF RenewalEnds
<1>8. CASE LoginEnds
  <2>1. restore.from \in Begun /\ remote' = Saved(Made("renewal", restore.from))
    BY <1>8 DEF LoginEnds, Begun, NextUnedited
  <2> QED
    BY <1>3, <1>5, <1>6, <2>1
<1>9. CASE KeepUpload
  <2>1. keep.row \in Entry /\ keep.row # NoOne
    BY <1>9, CookieFields DEF KeepUpload, TransferInv, ShapeInv
  <2>2. CASE remote' = ResultOf(keep.row)
    <3>1. remote'.cookie = keep.row.cookie /\ remote'.login = keep.row.login
      BY <1>1, <2>1, <2>2, WrittenFields
    <3> QED
      BY <2>1, <3>1 DEF Copies
  <2> QED
    BY <1>3, <1>9, <2>2 DEF KeepUpload, Deliver
<1>10. CASE LoginBegins \/ AutoScanEnds
  BY <1>3, <1>4, <1>10 DEF LoginBegins, AutoScanEnds, NextUnedited
<1> QED
  BY <1>1, <1>3, <1>7, <1>8, <1>9, <1>10 DEF NextTransfer, Keep, Sync, Scan, AutoWork,
     ClockTick, DailyRenewal, AutoScanReads, AutoRestart, KeepList, KeepLink, KeepStart,
     KeepSave, SyncPoll, SyncApply, SyncForget, SyncPull, SyncPulled, ImportRead,
     ImportApply, Edit, ScanReads, ScanEnds, RemoveAccount, ManagerRestart, hostVars

(* ... that of the pool ...                                                *)
LEMMA PoolRowComes ==
    ASSUME TransferInv, NextUnedited, ours' # NoOne
    PROVE  Comes(ours')
<1> USE DEF Comes
<1>1. NextTransfer
  BY DEF NextUnedited
<1>2. CASE UNCHANGED ours
  BY <1>2 DEF Copies
<1>3. CASE Edit
  <2>1. ours'.cookie = Made("edit", clock) /\ ours'.login = clock
    BY <1>3 DEF Edit
  <2> QED
    BY <1>3, <2>1 DEF Makes
<1>4. ASSUME NEW r \in Copies, ours' = EntryOf(r) PROVE Comes(ours')
  <2>1. ours'.cookie = r.cookie /\ ours'.login = r.login
    BY <1>4 DEF EntryOf
  <2> QED
    BY <2>1
<1>5. CASE SyncApply \/ SyncPulled
  <2>1. sync.result \in Copies
    BY <1>5 DEF SyncApply, SyncPulled, TransferInv, ShapeInv, Copies
  <2> QED
    BY <1>2, <1>4, <1>5, <2>1 DEF SyncApply, SyncPulled, Take
<1>6. CASE ImportApply
  <2>1. PICK r \in import : ours' = EntryOf(r) \/ UNCHANGED ours
    BY <1>6 DEF ImportApply
  <2>2. r \in Copies
    BY CookieFields DEF TransferInv, ShapeInv, Copies
  <2> QED
    BY <1>2, <1>4, <2>1, <2>2
<1> QED
  BY <1>1, <1>2, <1>3, <1>5, <1>6 DEF NextTransfer, NextUnedited, Keep, Sync, Scan, AutoWork,
     ClockTick, DailyRenewal, RenewalEnds, LoginBegins, LoginEnds, AutoScanReads,
     AutoScanEnds, AutoRestart, KeepList, KeepUpload, KeepLink, KeepStart, KeepSave, SyncPoll,
     SyncForget, SyncPull, ImportRead, ScanReads, ScanEnds, RemoveAccount,
     ManagerRestart, managerVars

(* ... and those on their way, which are copies of rows that were there.   *)
LEMMA OthersCome ==
    ASSUME TransferInv, NextTransfer
    PROVE  /\ keep'.row \in {keep.row, ours, NoOne}
           /\ sync'.result \in {sync.result, remote, NoOne}
           /\ import' \subseteq import \cup {remote}
           /\ imported' \in {imported, NoOne} \cup import
<1> USE DEF managerVars, tableVars, KeepGoes, Give, SyncGoes, SyncStops
<1>1. CASE ClockTick \/ DailyRenewal \/ RenewalEnds \/ AutoWork \/ AutoRestart
  BY <1>1 DEF ClockTick, DailyRenewal, RenewalEnds, AutoWork, LoginBegins, LoginEnds,
     AutoScanReads, AutoScanEnds, AutoRestart
<1>2. CASE Keep
  BY <1>2 DEF Keep, KeepList, KeepUpload, KeepLink, KeepStart, KeepSave
<1>3. CASE Sync
  BY <1>3 DEF Sync, SyncPoll, SyncApply, SyncForget, SyncPull, SyncPulled, TransferInv,
     ShapeInv
<1>4. CASE ImportRead \/ ImportApply
  BY <1>4 DEF ImportRead, ImportApply
<1>5. CASE Edit \/ Scan \/ RemoveAccount \/ ManagerRestart
  BY <1>5 DEF Edit, Scan, ScanReads, ScanEnds, RemoveAccount, ManagerRestart
<1> QED
  BY <1>1, <1>2, <1>3, <1>4, <1>5 DEF NextTransfer

LEMMA NothingFromNowhere ==
    ASSUME TransferInv, NextUnedited, NEW r, r \in Copies'
    PROVE  Comes(r)
<1>1. r # NoOne /\ r \in {ours', remote', imported', keep'.row, sync'.result} \cup import'
  BY DEF Copies
<1>2. CASE r = remote'
  BY <1>1, <1>2, AutoRowComes
<1>3. CASE r = ours'
  BY <1>1, <1>3, PoolRowComes
<1>4. CASE r \in {imported', keep'.row, sync'.result} \cup import'
  <2>1. r \in Copies
    BY <1>1, <1>4, OthersCome DEF NextUnedited, Copies
  <2> QED
    BY <2>1 DEF Comes
<1> QED
  BY <1>1, <1>2, <1>3, <1>4

(* The clock, and what is under way.                                       *)
LEMMA RenewalRuns ==
    ASSUME TransferInv, NextTransfer
    PROVE  /\ clock \in Int /\ clock' \in Int /\ clock <= clock'
           /\ \A b \in Begun' : b \in Begun \/ b = clock
           /\ Edit => Begun' = Begun
<1>1. clock \in Int
  BY CookieFields DEF TransferInv, ShapeInv
<1>2. clock' = clock \/ clock' = clock + 1
  BY DEF NextTransfer, Keep, Sync, Scan, AutoWork, ClockTick, DailyRenewal, RenewalEnds,
     LoginBegins, LoginEnds, AutoScanReads, AutoScanEnds, AutoRestart, KeepList, KeepUpload,
     KeepLink, KeepStart, KeepSave, SyncPoll, SyncApply, SyncForget, SyncPull, SyncPulled,
     ImportRead, ImportApply, Edit, ScanReads, ScanEnds, RemoveAccount, ManagerRestart,
     hostVars
<1>3. \/ job' = job \/ job'.state # "running"
      \/ job' = [state |-> "running", from |-> clock]
  BY DEF NextTransfer, Keep, Sync, Scan, AutoWork, ClockTick, DailyRenewal, RenewalEnds,
     LoginBegins, LoginEnds, AutoScanReads, AutoScanEnds, AutoRestart, KeepList, KeepUpload,
     KeepLink, KeepStart, KeepSave, SyncPoll, SyncApply, SyncForget, SyncPull, SyncPulled,
     ImportRead, ImportApply, Edit, ScanReads, ScanEnds, RemoveAccount, ManagerRestart,
     hostVars, StartRenewal, Job
<1>4. \/ restore' = restore \/ restore'.at # "login"
      \/ restore'.at = "login" /\ restore'.from = clock
  BY DEF NextTransfer, Keep, Sync, Scan, AutoWork, ClockTick, DailyRenewal, RenewalEnds,
     LoginBegins, LoginEnds, AutoScanReads, AutoScanEnds, AutoRestart, KeepList, KeepUpload,
     KeepLink, KeepStart, KeepSave, SyncPoll, SyncApply, SyncForget, SyncPull, SyncPulled,
     ImportRead, ImportApply, Edit, ScanReads, ScanEnds, RemoveAccount, ManagerRestart,
     hostVars, NoRestore
<1>5. \A b \in Begun' : b \in Begun \/ b = clock
  BY <1>3, <1>4 DEF Begun
<1>6. Edit => Begun' = Begun
  BY DEF Edit, hostVars, Begun
<1> QED
  BY <1>1, <1>2, <1>5, <1>6

LEMMA UneditedStep ==
    ASSUME TransferInv, UneditedInv, [NextUnedited]_transferVars
    PROVE  UneditedInv'
<1>1. CASE UNCHANGED transferVars
  BY <1>1 DEF transferVars, tableVars, UneditedInv, Holds, Copies, Begun
<1>2. CASE NextUnedited
  <2>1. NextTransfer /\ (Edit => Begun = {})
    BY <1>2 DEF NextUnedited
  <2>2. \A r : r \in Copies' => Comes(r)
    BY <1>2, NothingFromNowhere
  <2>3. \A c \in Cookie : Holds(c)' => Holds(c) \/ Makes(c)
    BY <2>2 DEF Holds, Comes
  <2>4. /\ clock \in Int /\ clock' \in Int /\ clock <= clock'
        /\ \A b \in Begun' : b \in Begun \/ b = clock
        /\ Edit => Begun' = Begun
    BY <2>1, RenewalRuns
  <2>5. \A c \in Cookie : c.at \in Int /\ c.from \in Int
    BY TransferAssumption DEF Cookie, Seconds
  <2>6. ASSUME NEW r, r \in Copies' PROVE r.login = r.cookie.at
    <3>1. CASE \E s \in Copies : r.cookie = s.cookie /\ r.login = s.login
      BY <3>1 DEF UneditedInv
    <3>2. CASE Makes(r.cookie) /\ r.login = clock
      BY <3>2, MadeFields
    <3> QED
      BY <2>2, <2>6, <3>1, <3>2 DEF Comes
  <2>7. ASSUME NEW c \in Cookie, Holds(c)'
        PROVE  c.at <= clock' /\ (c.by = "edit" => c.from = c.at)
    <3>1. c.at <= clock /\ (c.by = "edit" => c.from = c.at)
      <4>1. CASE Holds(c)
        BY <4>1 DEF UneditedInv
      <4>2. CASE Makes(c)
        BY <2>4, <4>2, MadeFields
      <4> QED
        BY <2>3, <2>7, <4>1, <4>2
    <3> QED
      BY <2>4, <2>5, <3>1
  <2>8. ASSUME NEW c \in Cookie, Holds(c)', c.by = "edit", NEW b, b \in Begun'
        PROVE  c.at <= b
    <3>1. CASE Holds(c)
      <4>1. c.at <= clock /\ (b \in Begun => c.at <= b)
        BY <2>8, <3>1 DEF UneditedInv
      <4> QED
        BY <2>4, <2>8, <4>1
    <3>2. CASE Makes(c)
      BY <2>1, <2>4, <2>8, <3>2, MadeFields
    <3> QED
      BY <2>3, <2>8, <3>1, <3>2
  <2>9. ASSUME NEW e \in Cookie, NEW r \in Cookie, Holds(e)', Holds(r)'
        PROVE  Outside(e, r)
    <3> SUFFICES ASSUME e.by = "edit", r.by = "renewal"
                 PROVE  e.at <= r.from \/ r.at <= e.at
      BY DEF Outside
    <3>1. CASE Holds(e) /\ Holds(r)
      BY <3>1 DEF UneditedInv, Outside
    <3>2. CASE Makes(e)
      <4>1. e.at = clock
        BY <3>2, MadeFields
      <4>2. r.at <= clock
        <5>1. CASE Holds(r)
          BY <5>1 DEF UneditedInv
        <5>2. CASE Makes(r)
          BY <2>4, <5>2, MadeFields
        <5> QED
          BY <2>3, <2>9, <5>1, <5>2
      <4> QED
        BY <4>1, <4>2
    <3>3. CASE Holds(e) /\ Makes(r)
      <4>1. r.from \in Begun
        BY <3>3, MadeFields
      <4>2. e.at <= r.from
        BY <3>3, <4>1 DEF UneditedInv
      <4> QED
        BY <4>2
    <3> QED
      BY <2>3, <2>9, <3>1, <3>2, <3>3
  <2> QED
    BY <2>6, <2>7, <2>8, <2>9 DEF UneditedInv, Outside
<1> QED
  BY <1>1, <1>2

(* A renewal that completes late never overwrites a cookie edited before   *)
(* its end, whatever is lost, repeated or restarted, if no edit happens    *)
(* while a renewal or a login at Auto runs and no scan or failed login     *)
(* moves the time of a login: the remote timestamp the comparison goes by  *)
(* (auto_import.go:213) misleads it about those edits only.                *)
THEOREM EditedCookieStaysUnlessEditedInBetween == SpecUnedited => EditedCookieStays
<1>1. SpecUnedited => SpecTransfer
  <2>1. [NextUnedited]_transferVars => [NextTransfer]_transferVars
    BY DEF NextUnedited
  <2> QED
    BY <2>1, PTL DEF SpecUnedited, SpecTransfer
<1>2. InitTransfer => UneditedInv
  <2> SUFFICES ASSUME InitTransfer PROVE UneditedInv
    OBVIOUS
  <2>1. clock = 0 /\ Begun = {}
    BY DEF InitTransfer, Job, NoRestore, Begun
  <2>2. \A r \in Copies : \E who \in {"edit", "renewal"} :
           /\ r.cookie = [by |-> who, from |-> 0, at |-> 0] /\ r.login = 0
    BY DEF InitTransfer, Copies, Made, Saved
  <2>3. \A c \in Cookie : Holds(c) => c.at = 0 /\ c.from = 0
    BY <2>2 DEF Holds
  <2>4. \A r \in Copies : r.login = r.cookie.at
    BY <2>2
  <2> QED
    BY <2>1, <2>3, <2>4 DEF UneditedInv, Outside
<1>3. ASSUME TransferInv, UneditedInv, SyncApply, ours # NoOne, ours.cookie.by = "edit",
             sync.result.cookie.from < ours.cookie.at
      PROVE  ours' = ours
  <2> DEFINE e == ours.cookie
             r == sync.result.cookie
  <2>1. /\ ours \in Entry /\ sync.result \in Result /\ sync.result # NoOne
        /\ e \in Cookie /\ r \in Cookie
    BY <1>3, CookieFields DEF SyncApply, TransferInv, ShapeInv
  <2>2. ours \in Copies /\ sync.result \in Copies
    BY <1>3, <2>1 DEF Copies
  <2>3. Holds(e) /\ Holds(r) /\ ours.login = e.at /\ sync.result.login = r.at
    BY <1>3, <2>2 DEF Holds, UneditedInv
  <2>4. e.at \in Int /\ r.at \in Int /\ r.from \in Int /\ r.by \in {"edit", "renewal"}
    BY <2>1, TransferAssumption DEF Cookie, Seconds
  <2>5. r.by = "edit" => r.from = r.at
    BY <1>3, <2>1, <2>3 DEF UneditedInv
  <2>6. r.by = "renewal" => e.at <= r.from \/ r.at <= e.at
    BY <1>3, <2>1, <2>3 DEF UneditedInv, Outside
  <2>7. r.from < e.at
    BY <1>3
  <2> HIDE DEF e, r
  <2>8. ~(sync.result.login > ours.login)
    BY <2>3, <2>4, <2>5, <2>6, <2>7
  <2> QED
    BY <1>3, <2>8 DEF SyncApply, Take, Takes
<1>4. TransferInv /\ UneditedInv /\ [NextTransfer]_transferVars
      => [/\ SyncApply /\ ours # NoOne /\ ours.cookie.by = "edit"
          /\ sync.result.cookie.from < ours.cookie.at
          => ours' = ours]_transferVars
  BY <1>3
<1> QED
  BY <1>1, <1>2, <1>4, UneditedStep, ResultsInOrder, PTL
     DEF SpecUnedited, SpecTransfer, EditedCookieStays

-----------------------------------------------------------------------------
(* The transfer and the proxy beside each other.                           *)

(* What TypeOKTransfer says and the order of results does not need.        *)
TablesInv ==
    /\ linked \in BOOLEAN /\ record \in BOOLEAN
    /\ IsFiniteSet(import) /\ Cardinality(import) <= MaxImports

BothInv == part \in {"proxy", "transfer"} /\ TypeOK /\ TransferInv /\ TablesInv

(* The tables keep their types, and imports stay few.                      *)
LEMMA TablesStep == TransferInv /\ TablesInv /\ [NextTransfer]_transferVars => TablesInv'
<1> SUFFICES ASSUME TransferInv, TablesInv, [NextTransfer]_transferVars PROVE TablesInv'
  OBVIOUS
<1> USE DEF TablesInv, tableVars, hostVars
<1>1. CASE UNCHANGED tableVars /\ UNCHANGED import
  BY <1>1
<1>2. CASE ClockTick \/ DailyRenewal \/ RenewalEnds \/ AutoWork \/ AutoRestart
  BY <1>1, <1>2 DEF ClockTick, DailyRenewal, RenewalEnds, AutoWork, LoginBegins, LoginEnds,
     AutoScanReads, AutoScanEnds, AutoRestart, managerVars
<1>3. CASE Keep
  BY <1>1, <1>3 DEF Keep, KeepList, KeepUpload, KeepLink, KeepStart, KeepSave, Link
<1>4. CASE Sync
  BY <1>1, <1>4 DEF Sync, SyncPoll, SyncApply, SyncForget, SyncPull, SyncPulled, Link
<1>5. CASE ImportRead
  <2>1. IsFiniteSet(import \cup {remote})
    BY FS_AddElement
  <2> QED
    BY <1>5, <2>1 DEF ImportRead
<1>6. CASE ImportApply
  <2>1. PICK r \in import : import' \in {import, import \ {r}}
    BY <1>6 DEF ImportApply
  <2>2. import' \subseteq import
    BY <2>1
  <2>3. /\ IsFiniteSet(import') /\ Cardinality(import') <= Cardinality(import)
        /\ Cardinality(import) \in Nat /\ Cardinality(import') \in Nat
    BY <2>2, FS_Subset, FS_CardinalityType
  <2>4. linked' \in BOOLEAN /\ record' \in BOOLEAN
    BY <1>6 DEF ImportApply
  <2> QED
    BY <2>3, <2>4, TransferAssumption
<1>7. CASE Edit \/ Scan
  BY <1>1, <1>7 DEF Edit, Scan, ScanReads, ScanEnds
<1>8. CASE RemoveAccount
  BY <1>8 DEF RemoveAccount
<1>9. CASE ManagerRestart
  BY <1>9, FS_EmptySet, TransferAssumption DEF ManagerRestart
<1>10. CASE UNCHANGED transferVars
  BY <1>1, <1>10 DEF transferVars
<1> QED
  BY <1>2, <1>3, <1>4, <1>5, <1>6, <1>7, <1>8, <1>9, <1>10 DEF NextTransfer

(* Both invariants hold at the start ...                                   *)
LEMMA BothStart == PartsInit => BothInv
<1> SUFFICES ASSUME PartsInit PROVE BothInv
  OBVIOUS
<1>1. TablesInv
  <2>1. linked = FALSE /\ record = FALSE /\ import = {}
    BY DEF PartsInit, InitTransfer
  <2> QED
    <3>1. IsFiniteSet({}) /\ Cardinality({}) = 0
      BY FS_EmptySet
    <3>2. IsFiniteSet(import) /\ Cardinality(import) = 0
      BY <2>1, <3>1, Zenon
    <3>3. Cardinality(import) <= MaxImports
      BY <3>2, TransferAssumption
    <3>4. linked \in BOOLEAN /\ record \in BOOLEAN
      BY <2>1, Zenon
    <3> QED
      BY <3>2, <3>3, <3>4, Zenon DEF TablesInv
<1> QED
  BY <1>1, InitTypeOK, InitOK DEF PartsInit, BothInv

(* ... and after every step, of whichever part.                            *)
LEMMA BothStep == BothInv /\ [PartsNext]_<<part, vars, transferVars>> => BothInv'
<1> SUFFICES ASSUME BothInv, [PartsNext]_<<part, vars, transferVars>> PROVE BothInv'
  OBVIOUS
<1>1. UNCHANGED part /\ [Next]_vars /\ [NextTransfer]_transferVars
  BY DEF PartsNext
<1> QED
  BY <1>1, NextTypeOK, StepOK, TablesStep DEF BothInv

(* The variables of the proxy and of the transfer keep their types.        *)
THEOREM TypeCorrectParts == PartsSpec => []TypeOKParts
<1>1. BothInv => TypeOKParts
  BY DEF BothInv, TypeOKParts, TransferInv, ShapeInv, TablesInv, TypeOKTransfer
<1> QED
  BY <1>1, BothStart, BothStep, PTL DEF PartsSpec

(* Beside each other the proxy and the transfer keep what they guarantee.  *)
THEOREM PartsKeep ==
    PartsSpec => /\ []InflightIsExact /\ []HoldIsExact /\ RefreshKeepsOut
                 /\ CookieNeverOlder /\ ImportedNeverOlder
<1>1. PartsInit => Init /\ InitTransfer
  BY DEF PartsInit
<1>2. [PartsNext]_<<part, vars, transferVars>> => [Next]_vars /\ [NextTransfer]_transferVars
  BY DEF PartsNext
<1>3. PartsSpec => Spec /\ SpecTransfer
  BY <1>1, <1>2, PTL DEF PartsSpec, Spec, SpecTransfer
<1> QED
  BY <1>3, InflightCounts, HoldCounts, NoPickDuringRefresh, NoOlderCookie, NoOlderImport, PTL
=============================================================================
