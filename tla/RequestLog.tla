----------------------------- MODULE RequestLog -----------------------------
(***************************************************************************)
(* The request log of the manager and the history counted from it          *)
(* (internal/store/logs.go, dashboard_history.go, dashboard.go).           *)
(*                                                                         *)
(* A forwarded request inserts its row when it arrives and rewrites it     *)
(* when it ends, by the id the insert returned.  Two triggers of the table *)
(* add what was written to dashboard_hours, an hour and a model at a time. *)
(* Rows are deleted by hand and by a janitor, one SQL statement after the  *)
(* other, while requests are under way; the history is never deleted.      *)
(***************************************************************************)
EXTENDS Integers, FiniteSets, FiniteSetsExt, Functions

CONSTANTS
    Posts,      \* the requests that are logged
    Models,     \* what they ask for
    MaxLogs,    \* rows the janitor leaves (50,000)
    ClearBatch  \* rows one DELETE of ClearRequestLogs takes (2,000)

ASSUME RequestLogAssumption ==
    /\ IsFiniteSet(Posts) /\ IsFiniteSet(Models)
    /\ MaxLogs \in Nat /\ ClearBatch \in Nat \ {0}

VARIABLES
    logs,      \* request_logs: the row of each id that is there
    seq,       \* sqlite_sequence: the greatest id ever, 0 when forgotten
    post,      \* where each request is
    want,      \* its model
    own,       \* the id its insert returned, 0 when there was none
    history,   \* dashboard_hours
    earlier,   \* the rows there were when the history was first counted
    clearing,  \* what ClearRequestLogs does next
    surplus    \* the rows PruneRequestLogs has found to be too many

logVars == <<logs, seq, post, want, own, history, earlier, clearing, surplus>>

LogStates == {"processing", "completed", "error"}
LogRow == [model : Models, state : LogStates]
Metrics == {"requests", "processing", "ended"}
Ids == 1..(Cardinality(Posts) + 1)

-----------------------------------------------------------------------------
(* dashboardMetrics: what a row adds to its bucket.                        *)
Metric(row) == [k \in Metrics |->
    CASE k = "requests" -> 1
      [] k = "processing" -> IF row.state = "processing" THEN 1 ELSE 0
      [] k = "ended" -> IF row.state = "processing" THEN 0 ELSE 1]

(* dashboardDelta, with a sign.                                            *)
Delta(h, row, sign) ==
    [h EXCEPT ![row.model] = [k \in Metrics |-> @[k] + sign * Metric(row)[k]]]

(* The two triggers.                                                       *)
OnInsert(row) == history' = Delta(history, row, 1)
(* Mutant: an update only adds.                                            *)
MutOnUpdate(old, row) == history' = Delta(history, row, 1)
OnUpdate(old, row) == history' = Delta(Delta(history, old, -1), row, 1)

(* ensureDashboard: the first start counts the rows that are there.        *)
Backfill(rows) ==
    [m \in Models |-> [k \in Metrics |->
        SumFunction([i \in DOMAIN rows |->
                        IF rows[i].model = m THEN Metric(rows[i])[k] ELSE 0])]]

(* Dashboard: the sum over the buckets that have requests.                 *)
Dashboard(k) ==
    SumFunction([m \in Models |-> IF history[m].requests > 0 THEN history[m][k] ELSE 0])

InitLog ==
    /\ logs \in {<<>>} \cup {[i \in {1} |-> r] : r \in [model : Models, state : {"completed"}]}
    /\ seq = Cardinality(DOMAIN logs)
    /\ history = Backfill(logs) /\ earlier = Cardinality(DOMAIN logs)
    /\ post = [c \in Posts |-> "new"]
    /\ want \in [Posts -> Models]
    /\ own = [c \in Posts |-> 0]
    /\ clearing = "no" /\ surplus = 0

TypeOKLog ==
    /\ DOMAIN logs \subseteq Ids /\ \A i \in DOMAIN logs : logs[i] \in LogRow
    /\ seq \in 0..(Cardinality(Posts) + 1) /\ earlier \in {0, 1}
    /\ post \in [Posts -> {"new", "asked", "done", "lost"}]
    /\ want \in [Posts -> Models]
    /\ own \in [Posts -> {0} \cup Ids]
    /\ history \in [Models -> [Metrics -> Int]]
    /\ clearing \in {"no", "rows", "sequence"}
    /\ surplus \in Nat

-----------------------------------------------------------------------------
(* InsertRequestLog; a request whose row cannot be written goes on without.*)
NextId == Max({seq} \cup DOMAIN logs) + 1

InsertRequestLog(c) ==
    /\ post[c] = "new" /\ post' = [post EXCEPT ![c] = "asked"]
    /\ LET row == [model |-> want[c], state |-> "processing"]
       IN \/ /\ logs' = [i \in DOMAIN logs \cup {NextId} |->
                            IF i = NextId THEN row ELSE logs[i]]
             /\ seq' = NextId
             /\ own' = [own EXCEPT ![c] = NextId]
             /\ OnInsert(row)
          \/ UNCHANGED <<logs, seq, own, history>>
    /\ UNCHANGED <<want, earlier, clearing, surplus>>

(* finishLog and UpdateRequestLog: the row of that id, if there is one.    *)
UpdateRequestLog(c) ==
    /\ post[c] = "asked" /\ post' = [post EXCEPT ![c] = "done"]
    /\ IF own[c] \in DOMAIN logs
          THEN \E s \in LogStates \ {"processing"} :
                  LET row == [model |-> want[c], state |-> s]
                  IN /\ logs' = [logs EXCEPT ![own[c]] = row]
                     /\ OnUpdate(logs[own[c]], row)
          ELSE UNCHANGED <<logs, history>>
    /\ UNCHANGED <<seq, want, own, earlier, clearing, surplus>>

-----------------------------------------------------------------------------
(* ClearRequestLogs: the rows, a batch at a time, until there are none, and*)
(* then the counter of the ids.                                            *)
Delete(ids) == logs' = Restrict(logs, DOMAIN logs \ ids)

ClearCall ==
    /\ clearing = "no" /\ clearing' = "rows"
    /\ UNCHANGED <<logs, seq, post, want, own, history, earlier, surplus>>

ClearRows ==
    /\ clearing = "rows"
    /\ IF DOMAIN logs = {}
          THEN clearing' = "sequence" /\ UNCHANGED logs
          ELSE /\ \E ids \in SUBSET DOMAIN logs :
                     /\ Cardinality(ids) = Min({ClearBatch, Cardinality(DOMAIN logs)})
                     /\ Delete(ids)
               /\ UNCHANGED clearing
    /\ UNCHANGED <<seq, post, want, own, history, earlier, surplus>>

ClearSequence ==
    /\ clearing = "sequence" /\ clearing' = "no"
    /\ seq' = 0
    /\ UNCHANGED <<logs, post, want, own, history, earlier, surplus>>

(* PruneRequestLogs, once a minute: rows of two weeks ago, which belong to *)
(* no request that is under way, and the lowest ids of a table that is too *)
(* long, as many as were counted.                                          *)
PruneOld ==
    /\ \E i \in DOMAIN logs :
          /\ \A c \in Posts : post[c] = "asked" => own[c] # i
          /\ Delete({j \in DOMAIN logs : j = i})
    /\ UNCHANGED <<seq, post, want, own, history, earlier, clearing, surplus>>

(* Mutant: a table that is short enough is not left alone.                 *)
MutPruneCount ==
    /\ surplus = 0
    /\ surplus' = Cardinality(DOMAIN logs) - MaxLogs
    /\ UNCHANGED <<logs, seq, post, want, own, history, earlier, clearing>>
PruneCount ==
    /\ surplus = 0 /\ Cardinality(DOMAIN logs) > MaxLogs
    /\ surplus' = Cardinality(DOMAIN logs) - MaxLogs
    /\ UNCHANGED <<logs, seq, post, want, own, history, earlier, clearing>>

PruneSurplus ==
    /\ surplus > 0 /\ surplus' = 0
    /\ Delete({i \in DOMAIN logs : Cardinality({j \in DOMAIN logs : j <= i}) <= surplus})
    /\ UNCHANGED <<seq, post, want, own, history, earlier, clearing>>

(* The process restarts: rows of the requests under way stay as they are.  *)
RestartLog ==
    /\ \E c \in Posts : post[c] = "asked"
    /\ post' = [c \in Posts |-> IF post[c] = "asked" THEN "lost" ELSE post[c]]
    /\ clearing' = "no" /\ surplus' = 0
    /\ UNCHANGED <<logs, seq, want, own, history, earlier>>

NextLog ==
    \/ \E c \in Posts : InsertRequestLog(c) \/ UpdateRequestLog(c)
    \/ ClearCall \/ ClearRows \/ ClearSequence
    \/ PruneOld \/ PruneCount \/ PruneSurplus
    \/ RestartLog

SpecLog == InitLog /\ [][NextLog]_logVars

-----------------------------------------------------------------------------
(* The rows ever inserted.                                                 *)
Inserted == earlier + Cardinality({c \in Posts : own[c] # 0})

(* The dashboard counts every request that was logged once, as under way   *)
(* or as ended, whatever is cleared, pruned or rewritten and whichever row *)
(* a late update lands on (dashboard_history.go:15-17).                    *)
HistoryCountsOnce ==
    /\ Dashboard("requests") = Inserted
    /\ Dashboard("processing") + Dashboard("ended") = Inserted
=============================================================================
