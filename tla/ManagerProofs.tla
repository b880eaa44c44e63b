---------------------------- MODULE ManagerProofs ----------------------------
(***************************************************************************)
(* What TLAPS proves of the manager's parts in MCManager, for every value  *)
(* of the constants: the dashboard counts every logged request once; the   *)
(* reader of documents finds what the definition of a document's sections  *)
(* says; the list of models is whole, never goes back to an older version  *)
(* and is refreshed once at a time; and the manager, whichever part runs,  *)
(* keeps what the specifications of its parts guarantee.                   *)
(***************************************************************************)
EXTENDS MCManager, ForwarderProofs

-----------------------------------------------------------------------------
(* The request log.                                                        *)

(* The rows of a model, and all requests the history counts.               *)
RowsOf(m) == {i \in DOMAIN logs : logs[i].model = m}
Counted == SumFunction([m \in Models |-> history[m].requests])

(* A bucket adds up and counts at least the rows that are there (an update *)
(* may take one of them away from it); together they count every insert.   *)
CountInv ==
    /\ \A m \in Models : /\ history[m].requests = history[m].processing + history[m].ended
                         /\ Cardinality(RowsOf(m)) <= history[m].requests
    /\ Counted = Inserted

(* No id is greater than the number of rows ever inserted.                 *)
IdInv ==
    /\ \A c \in Posts : post[c] = "new" => own[c] = 0
    /\ seq <= Inserted /\ \A i \in DOMAIN logs : i <= Inserted

LogInv == TypeOKLog /\ IdInv /\ CountInv

(* How many rows there can have been.                                      *)
LEMMA InsertedType ==
    ASSUME TypeOKLog
    PROVE  /\ Inserted \in Nat /\ Inserted <= Cardinality(Posts) + 1
           /\ Cardinality(Posts) \in Nat
           /\ \A c \in Posts : own[c] = 0 => Inserted <= Cardinality(Posts)
<1> DEFINE P == {c \in Posts : own[c] # 0}
<1>1. /\ IsFiniteSet(P) /\ Cardinality(P) \in Nat /\ Cardinality(P) <= Cardinality(Posts)
      /\ Cardinality(Posts) \in Nat /\ (P # Posts => Cardinality(P) < Cardinality(Posts))
  <2>1. P \subseteq Posts /\ IsFiniteSet(Posts)
    BY RequestLogAssumption
  <2> HIDE DEF P
  <2> QED
    BY <2>1, FS_Subset, FS_CardinalityType
<1>2. \A c \in Posts : own[c] = 0 => P # Posts
  OBVIOUS
<1>3. earlier \in {0, 1} /\ Inserted = earlier + Cardinality(P)
  BY DEF TypeOKLog, Inserted
<1> HIDE DEF P
<1> QED
  BY <1>1, <1>2, <1>3

(* The table is finite.                                                    *)
LEMMA RowsFinite ==
    ASSUME TypeOKLog
    PROVE  /\ IsFiniteSet(DOMAIN logs) /\ Cardinality(DOMAIN logs) \in Nat
           /\ \A m : IsFiniteSet(RowsOf(m)) /\ Cardinality(RowsOf(m)) \in Nat
<1>1. IsFiniteSet(Ids)
  <2>1. Cardinality(Posts) + 1 \in Int
    BY InsertedType
  <2> QED
    BY <2>1, FS_Interval DEF Ids
<1>2. IsFiniteSet(DOMAIN logs)
  BY <1>1, FS_Subset DEF TypeOKLog
<1>3. \A m : RowsOf(m) \subseteq DOMAIN logs
  BY DEF RowsOf
<1> QED
  BY <1>2, <1>3, FS_Subset, FS_CardinalityType

(* The history holds integers.                                             *)
LEMMA HistoryType ==
    ASSUME NEW h \in [Models -> [Metrics -> Int]]
    PROVE  \A m \in Models : h[m].requests \in Int /\ h[m].processing \in Int
                             /\ h[m].ended \in Int
<1>1. \A m \in Models, k \in Metrics : h[m][k] \in Int
  OBVIOUS
<1>2. "requests" \in Metrics /\ "processing" \in Metrics /\ "ended" \in Metrics
  BY DEF Metrics
<1> QED
  BY <1>1, <1>2

(* What one row adds or takes.                                             *)
LEMMA DeltaIs ==
    ASSUME NEW h \in [Models -> [Metrics -> Int]], NEW entry \in LogRow, NEW sign \in {1, -1}
    PROVE  /\ Delta(h, entry, sign) \in [Models -> [Metrics -> Int]]
           /\ Delta(h, entry, sign)[entry.model].requests = h[entry.model].requests + sign
           /\ h[entry.model].requests = h[entry.model].processing + h[entry.model].ended =>
                Delta(h, entry, sign)[entry.model].requests =
                    Delta(h, entry, sign)[entry.model].processing + Delta(h, entry, sign)[entry.model].ended
           /\ \A m \in Models : m # entry.model => Delta(h, entry, sign)[m] = h[m]
<1> DEFINE d == Delta(h, entry, sign)
           r == entry.model
           b == [k \in Metrics |-> h[r][k] + sign * Metric(entry)[k]]
<1>1. r \in Models /\ entry.state \in LogStates
  BY DEF LogRow
<1>2. /\ Metric(entry).requests = 1
      /\ Metric(entry).processing = IF entry.state = "processing" THEN 1 ELSE 0
      /\ Metric(entry).ended = IF entry.state = "processing" THEN 0 ELSE 1
      /\ \A k \in Metrics : Metric(entry)[k] \in {0, 1}
  BY DEF Metric, Metrics
<1>3. d = [h EXCEPT ![r] = b]
  BY Zenon DEF Delta
<1>4. \A k \in Metrics : h[r][k] + sign * Metric(entry)[k] \in Int
  <2> SUFFICES ASSUME NEW k \in Metrics PROVE h[r][k] + sign * Metric(entry)[k] \in Int
    OBVIOUS
  <2>1. h[r][k] \in Int
    BY <1>1
  <2>2. Metric(entry)[k] \in {0, 1}
    BY <1>2
  <2> QED
    BY <2>1, <2>2
<1>5. b \in [Metrics -> Int]
  BY <1>4
<1>6. /\ d \in [Models -> [Metrics -> Int]] /\ d[r] = b
      /\ \A m \in Models : m # r => d[m] = h[m]
  <2> HIDE DEF b, d, r
  <2> QED
    BY <1>1, <1>3, <1>5
<1>7. /\ b.requests = h[r].requests + sign * 1
      /\ b.processing = h[r].processing + sign * Metric(entry).processing
      /\ b.ended = h[r].ended + sign * Metric(entry).ended
  BY <1>2 DEF Metrics
<1>8. h[r].requests \in Int /\ h[r].processing \in Int /\ h[r].ended \in Int
  BY <1>1, HistoryType
<1>9. h[r].requests = h[r].processing + h[r].ended => b.requests = b.processing + b.ended
  <2> HIDE DEF b, r
  <2> QED
    BY <1>2, <1>7, <1>8
<1> QED
  <2>1. b.requests = h[r].requests + sign
    <3> HIDE DEF b, r
    <3> QED
      BY <1>7, <1>8
  <2> HIDE DEF b, d
  <2> QED
    BY <1>6, <1>9, <2>1 DEF d

(* Counting what one request adds or takes.                                *)
LEMMA CountedChange ==
    ASSUME NEW h \in [Models -> [Metrics -> Int]], NEW j \in [Models -> [Metrics -> Int]],
           NEW a \in Models, \A m \in Models : m # a => j[m].requests = h[m].requests
    PROVE  SumFunction([m \in Models |-> j[m].requests])
               = SumFunction([m \in Models |-> h[m].requests])
                   + (j[a].requests - h[a].requests)
<1> DEFINE f == [m \in Models |-> h[m].requests]
           g == [m \in Models |-> j[m].requests]
<1>1. f \in [Models -> Int] /\ g \in [Models -> Int]
  BY HistoryType
<1>2. /\ \A m \in Models : m # a => g[m] = f[m]
      /\ g[a] - f[a] = j[a].requests - h[a].requests
  OBVIOUS
<1> HIDE DEF f, g
<1>3. OnlyAt(a, f, g, Models)
  BY <1>2 DEF OnlyAt
<1>5. IsFiniteSet(Models) /\ f \in [Models -> Int] /\ g \in [Models -> Int]
  BY <1>1, RequestLogAssumption
<1>4. SumFunction(g) = SumFunction(f) + (g[a] - f[a])
  BY <1>3, <1>5, SumChange
<1> QED
  BY <1>2, <1>4 DEF f, g

(* The invariant says what the dashboard shows.                            *)
LEMMA CountsOnce ==
    ASSUME LogInv
    PROVE  HistoryCountsOnce
<1> DEFINE q == [m \in Models |-> history[m].requests]
           d(k) == [m \in Models |-> IF history[m].requests > 0 THEN history[m][k] ELSE 0]
<1>1. IsFiniteSet(Models) /\ history \in [Models -> [Metrics -> Int]]
  BY RequestLogAssumption DEF LogInv, TypeOKLog
<1>2. \A m \in Models : /\ history[m].requests \in Int /\ history[m].processing \in Int
                        /\ history[m].ended \in Int
  BY <1>1, HistoryType
<1>3. \A m \in Models : /\ history[m].requests >= 0
                        /\ history[m].requests = history[m].processing + history[m].ended
  <2> SUFFICES ASSUME NEW m \in Models PROVE history[m].requests >= 0
    BY DEF LogInv, CountInv
  <2>1. Cardinality(RowsOf(m)) \in Nat /\ Cardinality(RowsOf(m)) <= history[m].requests
    BY RowsFinite DEF LogInv, CountInv
  <2> QED
    BY <1>2, <2>1
<1>4. q \in [Models -> Int] /\ d("requests") = q
  BY <1>2, <1>3
<1>5. /\ d("processing") \in [Models -> Int] /\ d("ended") \in [Models -> Int]
      /\ \A m \in Models : q[m] = d("processing")[m] + d("ended")[m]
  BY <1>2, <1>3
<1>6. SumFunction(q) = Inserted
  BY DEF LogInv, CountInv, Counted
<1>7. /\ Dashboard("requests") = SumFunction(d("requests"))
      /\ Dashboard("processing") = SumFunction(d("processing"))
      /\ Dashboard("ended") = SumFunction(d("ended"))
  BY DEF Dashboard
<1>8. SumFunction(q) = SumFunction(d("processing")) + SumFunction(d("ended"))
  <2> DEFINE f == d("processing")
             g == d("ended")
  <2>1. f \in [Models -> Int] /\ g \in [Models -> Int] /\ \A m \in Models : q[m] = f[m] + g[m]
    BY <1>5
  <2>2. q \in [Models -> Int] /\ IsFiniteSet(Models)
    BY <1>1, <1>4
  <2> HIDE DEF f, g, q
  <2> QED
    BY <2>1, <2>2, SumPlus DEF f, g
<1> HIDE DEF q, d
<1> QED
  BY <1>4, <1>6, <1>7, <1>8 DEF HistoryCountsOnce

(* The first start: no row, or the one there is.                           *)
LEMMA InitLogOK == InitLog => LogInv
<1> SUFFICES ASSUME InitLog PROVE LogInv
  OBVIOUS
<1>1. own = [c \in Posts |-> 0] /\ {c \in Posts : own[c] # 0} = {} /\ Inserted = earlier + 0
  <2>1. own = [c \in Posts |-> 0] /\ {c \in Posts : own[c] # 0} = {}
    BY DEF InitLog
  <2>2. Cardinality({}) = 0
    BY FS_EmptySet
  <2> QED
    BY <2>1, <2>2 DEF Inserted
<1>2. \A m \in Models, k \in Metrics : history[m][k] =
         SumFunction([i \in DOMAIN logs |-> IF logs[i].model = m THEN Metric(logs[i])[k] ELSE 0])
  BY DEF InitLog, Backfill
<1>3. history = [m \in Models |-> [k \in Metrics |-> history[m][k]]]
  BY DEF InitLog, Backfill
<1>4. Cardinality(Posts) \in Nat
  BY RequestLogAssumption, FS_CardinalityType
<1>5. /\ post \in [Posts -> {"new", "asked", "done", "lost"}]
      /\ want \in [Posts -> Models] /\ own \in [Posts -> {0} \cup Ids]
      /\ clearing \in {"no", "rows", "sequence"} /\ surplus \in Nat
  BY <1>1 DEF InitLog
<1>6. \A entry \in LogRow : /\ Metric(entry).requests = 1
                            /\ Metric(entry).requests = Metric(entry).processing + Metric(entry).ended
                            /\ \A k \in Metrics : Metric(entry)[k] \in {0, 1}
  BY DEF Metric, Metrics
<1>7. {"requests", "processing", "ended"} = Metrics
  BY DEF Metrics
<1>8. CASE logs = <<>>
  <2>1. DOMAIN logs = {} /\ earlier = 0 /\ seq = 0
    BY <1>8, FS_EmptySet DEF InitLog
  <2>2. \A m \in Models, k \in Metrics : history[m][k] = 0
    <3> SUFFICES ASSUME NEW m \in Models, NEW k \in Metrics PROVE history[m][k] = 0
      OBVIOUS
    <3> DEFINE b == [i \in DOMAIN logs |-> IF logs[i].model = m THEN Metric(logs[i])[k] ELSE 0]
    <3>1. history[m][k] = SumFunction(b)
      BY <1>2
    <3>2. b \in [{} -> Int] /\ \A i \in {} : b[i] = 0
      BY <2>1
    <3>3. IsFiniteSet({})
      BY FS_EmptySet
    <3> HIDE DEF b
    <3>4. SumFunction(b) = 0
      BY <3>2, <3>3, SumZero
    <3> QED
      BY <3>1, <3>4
  <2>3. history \in [Models -> [Metrics -> Int]]
    BY <1>3, <2>2
  <2>4. TypeOKLog
    BY <1>4, <1>5, <2>1, <2>3 DEF TypeOKLog
  <2>5. IdInv
    BY <1>1, <2>1 DEF IdInv, InitLog
  <2>6. \A m \in Models : /\ history[m].requests = 0 /\ history[m].processing = 0
                          /\ history[m].ended = 0
    BY <1>7, <2>2
  <2>7. Counted = 0
    <3> DEFINE q == [m \in Models |-> history[m].requests]
    <3>1. q \in [Models -> Int] /\ \A m \in Models : q[m] = 0
      BY <2>6
    <3> HIDE DEF q
    <3>2. SumFunction(q) = 0
      BY <3>1, SumZero, RequestLogAssumption
    <3> QED
      BY <3>2 DEF q, Counted
  <2>8. \A m \in Models : RowsOf(m) = {} /\ Cardinality(RowsOf(m)) = 0
    BY <2>1, FS_EmptySet DEF RowsOf
  <2> QED
    BY <1>1, <2>1, <2>4, <2>5, <2>6, <2>7, <2>8 DEF LogInv, CountInv
<1>9. CASE logs # <<>>
  <2>1. PICK entry \in [model : Models, state : {"completed"}] : logs = [i \in {1} |-> entry]
    BY <1>9 DEF InitLog
  <2>2. DOMAIN logs = {1} /\ logs[1] = entry /\ entry \in LogRow
    BY <2>1 DEF LogRow, LogStates
  <2>3. earlier = 1 /\ seq = 1
    <3>1. Cardinality({1}) = 1
      BY FS_Singleton
    <3> QED
      BY <2>2, <3>1 DEF InitLog
  <2>4. \A m \in Models, k \in Metrics :
           history[m][k] = IF entry.model = m THEN Metric(entry)[k] ELSE 0
    <3> SUFFICES ASSUME NEW m \in Models, NEW k \in Metrics
                 PROVE  history[m][k] = IF entry.model = m THEN Metric(entry)[k] ELSE 0
      OBVIOUS
    <3> DEFINE b == [i \in DOMAIN logs |-> IF logs[i].model = m THEN Metric(logs[i])[k] ELSE 0]
    <3>1. history[m][k] = SumFunction(b)
      BY <1>2
    <3>2. b[1] = IF entry.model = m THEN Metric(entry)[k] ELSE 0
      BY <2>2
    <3>3. b \in [{1} -> Int]
      <4>1. Metric(entry)[k] \in {0, 1}
        BY <1>6, <2>2
      <4>2. b = [i \in {1} |-> IF entry.model = m THEN Metric(entry)[k] ELSE 0]
        BY <2>2
      <4> QED
        BY <4>1, <4>2
    <3>4. IsFiniteSet({1}) /\ 1 \in {1} /\ \A i \in {1} : i # 1 => b[i] = 0
      BY FS_Singleton
    <3> HIDE DEF b
    <3>5. SumFunction(b) = b[1]
      BY <3>3, <3>4, SumOne
    <3> QED
      BY <3>1, <3>2, <3>5
  <2>5. history \in [Models -> [Metrics -> Int]]
    <3>1. \A m \in Models, k \in Metrics : history[m][k] \in Int
      BY <1>6, <2>2, <2>4
    <3> QED
      BY <1>3, <3>1
  <2>6. TypeOKLog
    BY <1>4, <1>5, <2>2, <2>3, <2>5 DEF TypeOKLog, Ids
  <2>7. IdInv
    BY <1>1, <2>2, <2>3 DEF IdInv, InitLog
  <2>8. \A m \in Models :
           /\ history[m].requests = (IF entry.model = m THEN 1 ELSE 0)
           /\ history[m].requests = history[m].processing + history[m].ended
    <3> SUFFICES ASSUME NEW m \in Models
                 PROVE  /\ history[m].requests = (IF entry.model = m THEN 1 ELSE 0)
                        /\ history[m].requests = history[m].processing + history[m].ended
      OBVIOUS
    <3>1. \A k \in {"requests", "processing", "ended"} :
             history[m][k] = IF entry.model = m THEN Metric(entry)[k] ELSE 0
      BY <1>7, <2>4
    <3> QED
      BY <1>6, <2>2, <3>1
  <2>9. Counted = 1
    <3> DEFINE q == [m \in Models |-> history[m].requests]
    <3>1. /\ q \in [Models -> Int] /\ \A m \in Models : m # entry.model => q[m] = 0
          /\ q[entry.model] = 1 /\ entry.model \in Models
      BY <2>2, <2>8 DEF LogRow
    <3>2. \A m \in Models : m # entry.model => q[m] = 0
      BY <3>1
    <3> HIDE DEF q
    <3>3. SumFunction(q) = q[entry.model]
      BY <3>1, <3>2, SumOne, RequestLogAssumption
    <3> QED
      BY <3>1, <3>3 DEF q, Counted
  <2>10. \A m \in Models : Cardinality(RowsOf(m)) = IF entry.model = m THEN 1 ELSE 0
    <3>1. \A m \in Models : RowsOf(m) = IF entry.model = m THEN {1} ELSE {}
      BY <2>2 DEF RowsOf
    <3>2. Cardinality({1}) = 1 /\ Cardinality({}) = 0
      BY FS_Singleton, FS_EmptySet
    <3> QED
      BY <3>1, <3>2
  <2> QED
    BY <1>1, <2>3, <2>6, <2>7, <2>8, <2>9, <2>10 DEF LogInv, CountInv
<1> QED
  BY <1>8, <1>9

(* Rows are deleted, or none is touched: the history counts no less.       *)
LEMMA FewerRows ==
    ASSUME LogInv, UNCHANGED <<own, history, earlier>>, seq' \in {0, seq},
           DOMAIN logs' \subseteq DOMAIN logs, \A i \in DOMAIN logs' : logs'[i] = logs[i],
           \A c \in Posts : post'[c] = "new" => post[c] = "new"
    PROVE  /\ IdInv' /\ CountInv'
           /\ DOMAIN logs' \subseteq Ids /\ \A i \in DOMAIN logs' : logs'[i] \in LogRow
           /\ seq' \in 0..(Cardinality(Posts) + 1)
<1>1. TypeOKLog /\ IdInv /\ CountInv
  BY DEF LogInv
<1>2. Inserted' = Inserted /\ Inserted \in Nat /\ Cardinality(Posts) \in Nat
  BY <1>1, InsertedType DEF Inserted
<1>3. IdInv'
  BY <1>1, <1>2 DEF IdInv
<1>4. ASSUME NEW m \in Models PROVE Cardinality(RowsOf(m)') <= history[m].requests
  <2>1. RowsOf(m)' \subseteq RowsOf(m) /\ IsFiniteSet(RowsOf(m))
    BY <1>1, RowsFinite DEF RowsOf
  <2>2. /\ Cardinality(RowsOf(m)') <= Cardinality(RowsOf(m))
        /\ Cardinality(RowsOf(m)') \in Nat /\ Cardinality(RowsOf(m)) \in Nat
    BY <2>1, FS_Subset, FS_CardinalityType
  <2>3. Cardinality(RowsOf(m)) <= history[m].requests /\ history[m].requests \in Int
    BY <1>1, HistoryType DEF CountInv, TypeOKLog
  <2> QED
    BY <2>2, <2>3
<1>5. CountInv'
  BY <1>1, <1>2, <1>4 DEF CountInv, Counted
<1>6. /\ DOMAIN logs' \subseteq Ids /\ \A i \in DOMAIN logs' : logs'[i] \in LogRow
      /\ seq' \in 0..(Cardinality(Posts) + 1)
  BY <1>1, <1>2 DEF TypeOKLog
<1> QED
  BY <1>3, <1>5, <1>6

(* Restrict keeps the rows that are not deleted.                           *)
LEMMA DeleteIs ==
    ASSUME NEW ids, Delete(ids)
    PROVE  DOMAIN logs' \subseteq DOMAIN logs /\ \A i \in DOMAIN logs' : logs'[i] = logs[i]
BY DEF Delete, Restrict

(* The id of the next row is new, and not greater than the rows there were.*)
LEMMA NextIdIs ==
    ASSUME LogInv
    PROVE  /\ NextId \in 1..(Inserted + 1) /\ NextId \notin DOMAIN logs
           /\ Inserted \in Nat
<1> DEFINE T == {seq} \cup DOMAIN logs
<1>1. Inserted \in Nat
  BY InsertedType DEF LogInv
<1>2. T \in SUBSET (0..Inserted) /\ T # {}
  <2>1. seq \in Nat /\ \A i \in DOMAIN logs : i \in Nat
    <3>1. Cardinality(Posts) \in Nat
      BY InsertedType DEF LogInv
    <3> QED
      BY <3>1 DEF LogInv, TypeOKLog, Ids
  <2>2. seq <= Inserted /\ \A i \in DOMAIN logs : i <= Inserted
    BY DEF LogInv, IdInv
  <2> QED
    BY <1>1, <2>1, <2>2
<1>3. \A i \in DOMAIN logs : i \in T
  OBVIOUS
<1>4. NextId = Max(T) + 1
  BY DEF NextId
<1> HIDE DEF T
<1>5. Max(T) \in T /\ \A i \in T : i <= Max(T)
  BY <1>1, <1>2, Greatest
<1>6. Max(T) \in 0..Inserted
  BY <1>2, <1>5
<1>7. \A i \in DOMAIN logs : i # NextId
  <2> SUFFICES ASSUME NEW i \in DOMAIN logs PROVE i # NextId
    OBVIOUS
  <2>1. i \in T /\ i <= Max(T)
    BY <1>3, <1>5, Zenon
  <2>2. i \in Int
    <3>1. i \in 0..Inserted
      BY <1>2, <2>1
    <3> QED
      BY <1>1, <3>1
  <2>3. Max(T) \in Int
    BY <1>1, <1>6
  <2> HIDE DEF NextId
  <2> QED
    BY <1>4, <2>1, <2>2, <2>3
<1> QED
  BY <1>1, <1>4, <1>6, <1>7

(* A row is inserted: its bucket and the count of inserts grow by one.     *)
LEMMA InsertOK ==
    ASSUME LogInv, NEW c \in Posts, InsertRequestLog(c)
    PROVE  LogInv'
<1>1. TypeOKLog /\ IdInv /\ CountInv
  BY DEF LogInv
<1>2. /\ post[c] = "new" /\ post' = [post EXCEPT ![c] = "asked"]
      /\ UNCHANGED <<want, earlier, clearing, surplus>>
  BY DEF InsertRequestLog
<1>3. post' \in [Posts -> {"new", "asked", "done", "lost"}]
      /\ \A d \in Posts : post'[d] = "new" => post[d] = "new" /\ d # c
  BY <1>1, <1>2 DEF TypeOKLog
<1>4. CASE UNCHANGED <<logs, seq, own, history>>
  <2>1. IdInv' /\ CountInv'
    BY <1>2, <1>3, <1>4, FewerRows
  <2>2. TypeOKLog'
    BY <1>1, <1>2, <1>3, <1>4 DEF TypeOKLog
  <2> QED
    BY <2>1, <2>2 DEF LogInv
<1> DEFINE rec == [model |-> want[c], state |-> "processing"]
<1>5. CASE /\ logs' = [i \in DOMAIN logs \cup {NextId} |-> IF i = NextId THEN rec ELSE logs[i]]
           /\ seq' = NextId
           /\ own' = [own EXCEPT ![c] = NextId]
           /\ history' = Delta(history, rec, 1)
  <2>1. own[c] = 0 /\ own \in [Posts -> {0} \cup Ids]
    BY <1>1, <1>2 DEF IdInv, TypeOKLog
  <2>2. /\ Inserted \in Nat /\ Inserted <= Cardinality(Posts) /\ Cardinality(Posts) \in Nat
        /\ NextId \in 1..(Inserted + 1) /\ NextId \notin DOMAIN logs
    BY <1>1, <2>1, InsertedType, NextIdIs
  <2>3. NextId \in Ids /\ NextId # 0
    BY <2>2 DEF Ids
  <2>4. own' \in [Posts -> {0} \cup Ids]
    BY <1>5, <2>1, <2>3
  <2>5. Inserted' = Inserted + 1
    <3> DEFINE P == {d \in Posts : own[d] # 0}
    <3>1. {d \in Posts : own'[d] # 0} = P \cup {c} /\ c \notin P
      BY <1>5, <2>1, <2>3
    <3>2. IsFiniteSet(P)
      <4>1. P \subseteq Posts
        OBVIOUS
      <4> HIDE DEF P
      <4> QED
        BY <4>1, RequestLogAssumption, FS_Subset
    <3> HIDE DEF P
    <3>3. Cardinality(P \cup {c}) = Cardinality(P) + 1 /\ Cardinality(P) \in Nat
      BY <3>1, <3>2, FS_AddElement, FS_CardinalityType
    <3>4. Inserted = earlier + Cardinality(P) /\ Inserted' = earlier + Cardinality(P \cup {c})
      BY <1>2, <3>1 DEF Inserted, P
    <3> QED
      BY <1>1, <3>3, <3>4 DEF TypeOKLog
  <2>6. rec \in LogRow /\ rec.model = want[c] /\ want[c] \in Models
    BY <1>1 DEF TypeOKLog, LogRow, LogStates
  <2>7. /\ DOMAIN logs' = DOMAIN logs \cup {NextId} /\ logs'[NextId] = rec
        /\ \A i \in DOMAIN logs : logs'[i] = logs[i]
    BY <1>5, <2>2
  <2>8. /\ history' \in [Models -> [Metrics -> Int]]
        /\ history'[want[c]].requests = history[want[c]].requests + 1
        /\ history[want[c]].requests = history[want[c]].processing + history[want[c]].ended =>
             history'[want[c]].requests = history'[want[c]].processing + history'[want[c]].ended
        /\ \A m \in Models : m # want[c] => history'[m] = history[m]
    <3>1. history \in [Models -> [Metrics -> Int]] /\ 1 \in {1, -1}
      BY <1>1 DEF TypeOKLog
    <3> HIDE DEF rec
    <3> QED
      BY <1>5, <2>6, <3>1, DeltaIs
  <2>9. TypeOKLog'
    <3>1. DOMAIN logs' \subseteq Ids /\ \A i \in DOMAIN logs' : logs'[i] \in LogRow
      BY <1>1, <2>3, <2>6, <2>7 DEF TypeOKLog
    <3>2. seq' \in 0..(Cardinality(Posts) + 1)
      BY <1>5, <2>2
    <3> QED
      BY <1>1, <1>2, <1>3, <2>4, <2>8, <3>1, <3>2 DEF TypeOKLog
  <2>10. IdInv'
    <3>1. \A d \in Posts : post'[d] = "new" => own'[d] = 0
      BY <1>1, <1>3, <1>5, <2>1 DEF IdInv
    <3>2. seq' <= Inserted'
      BY <1>5, <2>2, <2>5
    <3>3. \A i \in DOMAIN logs' : i <= Inserted'
      <4>1. \A i \in DOMAIN logs : i \in Nat /\ i <= Inserted
        BY <1>1, <2>2 DEF IdInv, TypeOKLog, Ids
      <4> QED
        BY <2>2, <2>5, <2>7, <4>1
    <3> QED
      BY <3>1, <3>2, <3>3 DEF IdInv
  <2>11. Counted' = Counted + 1
    <3>1. history \in [Models -> [Metrics -> Int]]
      BY <1>1 DEF TypeOKLog
    <3>2. \A m \in Models : m # want[c] => history'[m].requests = history[m].requests
      BY <2>8
    <3>3. Counted' = Counted + (history'[want[c]].requests - history[want[c]].requests)
      BY <2>6, <2>8, <3>1, <3>2, CountedChange DEF Counted
    <3>4. history[want[c]].requests \in Int
      BY <2>6, <3>1, HistoryType
    <3>5. Counted \in Int
      BY <1>1, <2>2 DEF CountInv
    <3> QED
      BY <2>8, <3>3, <3>4, <3>5
  <2>12. ASSUME NEW m \in Models
         PROVE  /\ history'[m].requests = history'[m].processing + history'[m].ended
                /\ Cardinality(RowsOf(m)') <= history'[m].requests
    <3>1. /\ history[m].requests = history[m].processing + history[m].ended
          /\ Cardinality(RowsOf(m)) <= history[m].requests
          /\ IsFiniteSet(RowsOf(m)) /\ Cardinality(RowsOf(m)) \in Nat
          /\ history[m].requests \in Int
      BY <1>1, RowsFinite, HistoryType DEF CountInv, TypeOKLog
    <3>2. CASE m = want[c]
      <4>1. RowsOf(m)' = RowsOf(m) \cup {NextId} /\ NextId \notin RowsOf(m)
        BY <2>2, <2>6, <2>7, <3>2 DEF RowsOf
      <4>2. Cardinality(RowsOf(m)') = Cardinality(RowsOf(m)) + 1
        BY <3>1, <4>1, FS_AddElement
      <4> QED
        BY <2>8, <3>1, <3>2, <4>2
    <3>3. CASE m # want[c]
      <4>1. RowsOf(m)' = RowsOf(m)
        BY <2>2, <2>6, <2>7, <3>3 DEF RowsOf
      <4> QED
        BY <2>8, <3>1, <3>3, <4>1
    <3> QED
      BY <3>2, <3>3
  <2>13. CountInv'
    <3>1. Counted' = Inserted'
      BY <1>1, <2>5, <2>11 DEF CountInv
    <3> QED
      BY <2>12, <3>1 DEF CountInv
  <2> QED
    BY <2>9, <2>10, <2>13 DEF LogInv
<1> QED
  BY <1>4, <1>5 DEF InsertRequestLog, OnInsert

(* A row is rewritten, perhaps that of another request whose id it has: one*)
(* is taken from the old bucket and added to the new one.                  *)
LEMMA UpdateOK ==
    ASSUME LogInv, NEW c \in Posts, UpdateRequestLog(c)
    PROVE  LogInv'
<1>1. TypeOKLog /\ IdInv /\ CountInv
  BY DEF LogInv
<1>2. /\ post[c] = "asked" /\ post' = [post EXCEPT ![c] = "done"]
      /\ UNCHANGED <<seq, want, own, earlier, clearing, surplus>>
  BY DEF UpdateRequestLog
<1>3. post' \in [Posts -> {"new", "asked", "done", "lost"}]
      /\ \A d \in Posts : post'[d] = "new" => post[d] = "new"
  BY <1>1, <1>2 DEF TypeOKLog
<1>4. CASE UNCHANGED <<logs, history>>
  <2>1. IdInv' /\ CountInv'
    BY <1>2, <1>3, <1>4, FewerRows
  <2>2. TypeOKLog'
    BY <1>1, <1>2, <1>3, <1>4 DEF TypeOKLog
  <2> QED
    BY <2>1, <2>2 DEF LogInv
<1>5. CASE own[c] \in DOMAIN logs
  <2> DEFINE i == own[c]
             old == logs[i]
  <2>1. PICK s \in LogStates \ {"processing"} :
           /\ logs' = [logs EXCEPT ![i] = [model |-> want[c], state |-> s]]
           /\ history' = Delta(Delta(history, old, -1), [model |-> want[c], state |-> s], 1)
    BY <1>5 DEF UpdateRequestLog, OnUpdate
  <2> DEFINE rec == [model |-> want[c], state |-> s]
             h == Delta(history, old, -1)
  <2>2. rec \in LogRow /\ rec.model \in Models /\ old \in LogRow /\ old.model \in Models
    BY <1>1, <1>5 DEF TypeOKLog, LogRow
  <2>3. history \in [Models -> [Metrics -> Int]]
    BY <1>1 DEF TypeOKLog
  <2>4. /\ DOMAIN logs' = DOMAIN logs /\ logs'[i] = rec
        /\ \A j \in DOMAIN logs : j # i => logs'[j] = logs[j]
    BY <1>5, <2>1
  <2> HIDE DEF i, old, rec
  <2>5. /\ h \in [Models -> [Metrics -> Int]]
        /\ h[old.model].requests = history[old.model].requests + (-1)
        /\ history[old.model].requests = history[old.model].processing + history[old.model].ended
             => h[old.model].requests = h[old.model].processing + h[old.model].ended
        /\ \A m \in Models : m # old.model => h[m] = history[m]
    <3>1. -1 \in {1, -1}
      OBVIOUS
    <3> QED
      BY <2>2, <2>3, <3>1, DeltaIs
  <2>6. history' = Delta(h, rec, 1)
    BY <2>1 DEF old, rec
  <2> HIDE DEF h
  <2>7. /\ history' \in [Models -> [Metrics -> Int]]
        /\ history'[rec.model].requests = h[rec.model].requests + 1
        /\ h[rec.model].requests = h[rec.model].processing + h[rec.model].ended
             => history'[rec.model].requests
                  = history'[rec.model].processing + history'[rec.model].ended
        /\ \A m \in Models : m # rec.model => history'[m] = h[m]
    <3>1. 1 \in {1, -1}
      OBVIOUS
    <3> QED
      BY <2>2, <2>5, <2>6, <3>1, DeltaIs
  <2>8. /\ \A m \in Models : h[m].requests \in Int /\ history[m].requests \in Int
        /\ \A m \in Models : h[m].requests = h[m].processing + h[m].ended
        /\ \A m \in Models :
              h[m].requests = history[m].requests - (IF m = old.model THEN 1 ELSE 0)
    <3>1. \A m \in Models : h[m].requests \in Int /\ history[m].requests \in Int
      BY <2>3, <2>5, HistoryType
    <3>2. \A m \in Models : history[m].requests = history[m].processing + history[m].ended
      BY <1>1 DEF CountInv
    <3> QED
      BY <2>2, <2>5, <3>1, <3>2
  <2>9. /\ \A m \in Models : history'[m].requests = history'[m].processing + history'[m].ended
        /\ \A m \in Models :
              history'[m].requests = h[m].requests + (IF m = rec.model THEN 1 ELSE 0)
    BY <2>2, <2>7, <2>8
  <2>10. Counted' = Counted
    <3>1. \A m \in Models : m # old.model => h[m].requests = history[m].requests
      BY <2>5
    <3>2. SumFunction([m \in Models |-> h[m].requests])
            = Counted + (h[old.model].requests - history[old.model].requests)
      BY <2>2, <2>3, <2>5, <3>1, CountedChange DEF Counted
    <3>3. \A m \in Models : m # rec.model => history'[m].requests = h[m].requests
      BY <2>7
    <3>4. Counted' = SumFunction([m \in Models |-> h[m].requests])
                       + (history'[rec.model].requests - h[rec.model].requests)
      BY <2>2, <2>5, <2>7, <3>3, CountedChange DEF Counted
    <3>5. Counted \in Int
      BY <1>1, InsertedType DEF CountInv
    <3>6. h[old.model].requests - history[old.model].requests = -1
      BY <2>2, <2>5, <2>8
    <3>7. history'[rec.model].requests - h[rec.model].requests = 1
      BY <2>2, <2>7, <2>8
    <3> QED
      BY <3>2, <3>4, <3>5, <3>6, <3>7
  <2>11. ASSUME NEW m \in Models
         PROVE  Cardinality(RowsOf(m)') <= history'[m].requests
    <3>1. /\ Cardinality(RowsOf(m)) <= history[m].requests
          /\ IsFiniteSet(RowsOf(m)) /\ Cardinality(RowsOf(m)) \in Nat
      BY <1>1, RowsFinite DEF CountInv
    <3>2. i \in DOMAIN logs /\ logs[i] = old
      BY <1>5 DEF i, old
    <3>3. i \in RowsOf(m) <=> m = old.model
      BY <3>2 DEF RowsOf
    <3>4. RowsOf(m)' = (RowsOf(m) \ {i}) \cup (IF m = rec.model THEN {i} ELSE {})
      BY <2>4, <3>2 DEF RowsOf
    <3>5. IsFiniteSet(RowsOf(m) \ {i}) /\ Cardinality(RowsOf(m) \ {i}) =
             Cardinality(RowsOf(m)) - (IF m = old.model THEN 1 ELSE 0)
      <4> DEFINE R == RowsOf(m)
      <4>1. IsFiniteSet(R) /\ Cardinality(R) \in Nat
        BY <3>1
      <4> HIDE DEF R
      <4>2. IsFiniteSet(R \ {i})
        BY <4>1, FS_RemoveElement
      <4>3. Cardinality(R \ {i}) = IF i \in R THEN Cardinality(R) - 1 ELSE Cardinality(R)
        BY <4>1, FS_RemoveElement
      <4>4. i \in R <=> m = old.model
        BY <3>3 DEF R
      <4>5. Cardinality(R \ {i}) = Cardinality(R) - (IF m = old.model THEN 1 ELSE 0)
        BY <4>1, <4>3, <4>4
      <4> QED
        BY <4>2, <4>5 DEF R
    <3>6. Cardinality(RowsOf(m)') =
             Cardinality(RowsOf(m) \ {i}) + (IF m = rec.model THEN 1 ELSE 0)
      <4>1. CASE m = rec.model
        <5>1. RowsOf(m)' = (RowsOf(m) \ {i}) \cup {i} /\ i \notin RowsOf(m) \ {i}
          BY <3>4, <4>1
        <5>2. Cardinality((RowsOf(m) \ {i}) \cup {i}) = Cardinality(RowsOf(m) \ {i}) + 1
          <6> DEFINE R == RowsOf(m) \ {i}
          <6>1. IsFiniteSet(R) /\ i \notin R
            BY <3>5
          <6> HIDE DEF R
          <6>2. Cardinality(R \cup {i}) = Cardinality(R) + 1
            BY <6>1, FS_AddElement
          <6> QED
            BY <6>2 DEF R
        <5> QED
          BY <4>1, <5>1, <5>2
      <4>2. CASE m # rec.model
        <5>1. RowsOf(m)' = RowsOf(m) \ {i}
          BY <3>4, <4>2
        <5>2. Cardinality(RowsOf(m) \ {i}) \in Nat
          BY <3>5, FS_CardinalityType
        <5> QED
          BY <4>2, <5>1, <5>2
      <4> QED
        BY <4>1, <4>2
    <3> QED
      BY <2>8, <2>9, <3>1, <3>5, <3>6
  <2>12. Inserted' = Inserted
    BY <1>2 DEF Inserted
  <2>13. CountInv'
    BY <1>1, <2>9, <2>10, <2>11, <2>12 DEF CountInv
  <2>14. IdInv'
    BY <1>1, <1>2, <1>3, <2>4, <2>12 DEF IdInv
  <2>15. TypeOKLog'
    <3>1. DOMAIN logs' \subseteq Ids /\ \A j \in DOMAIN logs' : logs'[j] \in LogRow
      BY <1>1, <2>2, <2>4 DEF TypeOKLog
    <3> QED
      BY <1>1, <1>2, <1>3, <2>7, <3>1 DEF TypeOKLog
  <2> QED
    BY <2>13, <2>14, <2>15 DEF LogInv
<1> QED
  BY <1>4, <1>5 DEF UpdateRequestLog

(* Rows are deleted or nothing of the table changes.                       *)
LEMMA TableStepOK ==
    ASSUME LogInv, UNCHANGED <<want, own, history, earlier>>, seq' \in {0, seq},
           UNCHANGED logs \/ \E ids : Delete(ids),
           post' \in [Posts -> {"new", "asked", "done", "lost"}],
           \A c \in Posts : post'[c] = "new" => post[c] = "new",
           clearing' \in {"no", "rows", "sequence"}, surplus' \in Nat
    PROVE  LogInv'
<1>1. DOMAIN logs' \subseteq DOMAIN logs /\ \A i \in DOMAIN logs' : logs'[i] = logs[i]
  BY DeleteIs
<1>2. /\ IdInv' /\ CountInv'
      /\ DOMAIN logs' \subseteq Ids /\ \A i \in DOMAIN logs' : logs'[i] \in LogRow
      /\ seq' \in 0..(Cardinality(Posts) + 1)
  BY <1>1, FewerRows
<1>3. TypeOKLog'
  BY <1>2 DEF LogInv, TypeOKLog
<1> QED
  BY <1>2, <1>3 DEF LogInv

(* The invariant is kept by every step.                                    *)
LEMMA LogStep == LogInv /\ [NextLog]_logVars => LogInv'
<1> SUFFICES ASSUME LogInv, [NextLog]_logVars PROVE LogInv'
  OBVIOUS
<1>1. ASSUME NEW c \in Posts, InsertRequestLog(c) \/ UpdateRequestLog(c) PROVE LogInv'
  BY <1>1, InsertOK, UpdateOK
<1>2. /\ post \in [Posts -> {"new", "asked", "done", "lost"}]
      /\ clearing \in {"no", "rows", "sequence"} /\ surplus \in Nat
  BY DEF LogInv, TypeOKLog
<1>3. ASSUME UNCHANGED <<want, own, history, earlier, post>>, seq' \in {0, seq},
             UNCHANGED logs \/ \E ids : Delete(ids),
             clearing' \in {"no", "rows", "sequence"}, surplus' \in Nat
      PROVE  LogInv'
  BY <1>2, <1>3, TableStepOK
<1>4. CASE ClearCall \/ ClearSequence \/ UNCHANGED logVars
  BY <1>2, <1>3, <1>4 DEF ClearCall, ClearSequence, logVars
<1>5. CASE ClearRows
  <2>1. (UNCHANGED logs \/ \E ids : Delete(ids)) /\ clearing' \in {"no", "rows", "sequence"}
    BY <1>2, <1>5, Zenon DEF ClearRows
  <2> QED
    BY <1>2, <1>3, <1>5, <2>1 DEF ClearRows
<1>6. CASE PruneOld
  <2>1. \E ids : Delete(ids)
    BY <1>6, Zenon DEF PruneOld
  <2> QED
    BY <1>2, <1>3, <1>6, <2>1 DEF PruneOld
<1>7. CASE PruneCount
  <2>1. surplus' \in Nat
    <3>1. Cardinality(DOMAIN logs) \in Nat /\ MaxLogs \in Nat
      BY RowsFinite, RequestLogAssumption DEF LogInv
    <3> QED
      BY <1>7, <3>1 DEF PruneCount
  <2> QED
    BY <1>2, <1>3, <1>7, <2>1 DEF PruneCount
<1>8. CASE PruneSurplus
  <2>1. \E ids : Delete(ids)
    BY <1>8, Zenon DEF PruneSurplus
  <2> QED
    BY <1>2, <1>3, <1>8, <2>1 DEF PruneSurplus
<1>9. CASE RestartLog
  <2>1. /\ post' \in [Posts -> {"new", "asked", "done", "lost"}]
        /\ \A c \in Posts : post'[c] = "new" => post[c] = "new"
    BY <1>2, <1>9 DEF RestartLog
  <2> QED
    BY <1>9, <2>1, TableStepOK DEF RestartLog
<1> QED
  BY <1>1, <1>4, <1>5, <1>6, <1>7, <1>8, <1>9 DEF NextLog

(* The history adds up in every reachable state.                           *)
THEOREM LogCounts == SpecLog => []LogInv
BY InitLogOK, LogStep, PTL DEF SpecLog

(* The dashboard counts every request that was logged once, as under way or*)
(* as ended, whatever is cleared, pruned or rewritten in between and       *)
(* whichever row a late update lands on.                                   *)
THEOREM DashboardCountsOnce == SpecLog => []HistoryCountsOnce
BY LogCounts, CountsOnce, PTL

-----------------------------------------------------------------------------
(* The catalog of models: its states, and the order of its versions.       *)
Ats == {"idle", "fetch", "save", "publish"}

(* Every list is that of some version; a refresh holds two.                *)
ShapeInv ==
    /\ document \in [1..LastVersion -> Documents] /\ version \in 1..LastVersion
    /\ published \in Snapshots /\ cached \in Snapshots \cup {Nil}
    /\ refresh \in [Callers -> [at : Ats, previous : Snapshots, next : Snapshots]]

(* One refresh at a time, and it began with the list that is published.    *)
OneInv ==
    /\ \A c \in Callers : refresh[c].at # "idle" => syncing /\ refresh[c].previous = published
    /\ \A c, d \in Callers : refresh[c].at # "idle" /\ refresh[d].at # "idle" => c = d

(* Versions only grow, from the published list over the cached one to the  *)
(* one that a refresh brings, up to the version the site serves.  Until a  *)
(* refresh has saved the next one, the published list is the cached one or *)
(* the one built in, with which a restart may have replaced it.            *)
OrderInv ==
    /\ published.of <= version
    /\ \A c \in Callers : refresh[c].at \in {"save", "publish"} =>
          /\ published.of <= refresh[c].next.of /\ refresh[c].next.of <= version
          /\ cached # Nil => cached.of <= refresh[c].next.of
    /\ (\A c \in Callers : refresh[c].at # "publish") => published \in {Builtin, cached}
    /\ \A c \in Callers : refresh[c].at = "publish" => cached = refresh[c].next
    /\ cached = Nil => published = Builtin
    /\ cached # Nil => published.of <= cached.of /\ cached.of <= version

CatalogInv == ShapeInv /\ OneInv /\ OrderInv

-----------------------------------------------------------------------------
LEMMA SnapshotFields ==
    /\ Builtin \in Snapshots /\ Builtin.of = 0 /\ Nil \notin Snapshots
    /\ \A s \in Snapshots : s.of \in 0..LastVersion /\ s.of \in Nat
    /\ \A v \in 1..LastVersion : v \in Nat
<1>1. Builtin \in Snapshots /\ Builtin.of = 0
  BY VersionsAssumption DEF Builtin, Snapshots
<1>2. \A s \in Snapshots : s.of \in 0..LastVersion
  BY DEF Snapshots
<1> QED
  BY <1>1, <1>2, NilAssumption, VersionsAssumption

LEMMA CatalogInitOK == InitCatalog => CatalogInv
<1> SUFFICES ASSUME InitCatalog PROVE CatalogInv
  OBVIOUS
<1> USE SnapshotFields DEF InitCatalog, Idle, Ats
<1>1. ShapeInv
  BY VersionsAssumption DEF ShapeInv
<1>2. OneInv
  BY DEF OneInv
<1>3. OrderInv
  BY DEF OrderInv
<1> QED
  BY <1>1, <1>2, <1>3 DEF CatalogInv

LEMMA AskOK ==
    ASSUME CatalogInv, NEW c \in Callers, AskSite(c)
    PROVE  CatalogInv'
<1> USE SnapshotFields DEF CatalogInv, Ats
<1>1. \A d \in Callers : refresh[d].at = "idle"
  BY DEF AskSite, OneInv
<1>2. ShapeInv'
  BY DEF AskSite, ShapeInv
<1>3. refresh'[c] = [at |-> "fetch", previous |-> published, next |-> Builtin]
      /\ \A d \in Callers \ {c} : refresh'[d] = refresh[d]
  BY DEF AskSite, ShapeInv
<1>4. OneInv'
  BY <1>1, <1>3 DEF AskSite, OneInv
<1>5. OrderInv'
  BY <1>1, <1>3 DEF AskSite, OrderInv
<1> QED
  BY <1>2, <1>4, <1>5

(* A refresh that is over, with or without a list.                         *)
LEMMA OverOK ==
    ASSUME CatalogInv, NEW c \in Callers, refresh[c].at # "idle",
           refresh' = [refresh EXCEPT ![c] = Idle]
    PROVE  /\ refresh' \in [Callers -> [at : Ats, previous : Snapshots, next : Snapshots]]
           /\ \A d \in Callers : refresh'[d].at = "idle"
<1> USE SnapshotFields DEF CatalogInv, Ats, Idle
<1>1. refresh' \in [Callers -> [at : Ats, previous : Snapshots, next : Snapshots]]
  BY DEF ShapeInv
<1>2. \A d \in Callers : refresh'[d].at = "idle"
  BY DEF ShapeInv, OneInv
<1> QED
  BY <1>1, <1>2

LEMMA EndOK ==
    ASSUME CatalogInv, NEW c \in Callers, RefreshFails(c) \/ Publish(c)
    PROVE  CatalogInv'
<1> USE SnapshotFields DEF CatalogInv
<1>1. refresh[c].at # "idle" /\ refresh' = [refresh EXCEPT ![c] = Idle]
  BY DEF RefreshFails, Publish
<1>2. /\ refresh' \in [Callers -> [at : Ats, previous : Snapshots, next : Snapshots]]
      /\ \A d \in Callers : refresh'[d].at = "idle"
  BY <1>1, OverOK
<1>3. CASE RefreshFails(c)
  <2>1. ShapeInv'
    BY <1>2, <1>3 DEF RefreshFails, ShapeInv
  <2>2. OneInv'
    BY <1>2 DEF OneInv
  <2>3. OrderInv'
    BY <1>2, <1>3 DEF RefreshFails, OrderInv
  <2> QED
    BY <2>1, <2>2, <2>3
<1>4. CASE Publish(c)
  <2>1. published' = refresh[c].next /\ published' \in Snapshots /\ cached = refresh[c].next
        /\ refresh[c].next.of <= version
    BY <1>4 DEF Publish, ShapeInv, OrderInv
  <2>2. ShapeInv'
    BY <1>2, <1>4, <2>1 DEF Publish, ShapeInv
  <2>3. OneInv'
    BY <1>2 DEF OneInv
  <2>4. OrderInv'
    BY <1>2, <1>4, <2>1 DEF Publish, OrderInv
  <2> QED
    BY <2>2, <2>3, <2>4
<1> QED
  BY <1>3, <1>4

(* A refresh that has got a list no older than the published one.          *)
LEMMA BringsOK ==
    ASSUME CatalogInv, NEW c \in Callers, refresh[c].at \in {"fetch", "save"},
           NEW where \in {"save", "publish"}, NEW next \in Snapshots,
           refresh' = [refresh EXCEPT ![c].at = where, ![c].next = next],
           published.of <= next.of, next.of <= version,
           cached # Nil => cached.of <= next.of,
           where = "save" => cached' = cached, where = "publish" => cached' = next,
           UNCHANGED <<document, version, published, syncing>>
    PROVE  CatalogInv'
<1> USE SnapshotFields DEF CatalogInv, Ats
<1>1. /\ refresh'[c].at = where /\ refresh'[c].next = next
      /\ refresh'[c].previous = refresh[c].previous
      /\ \A d \in Callers \ {c} : refresh'[d] = refresh[d] /\ refresh[d].at = "idle"
  BY DEF ShapeInv, OneInv
<1>2. refresh' \in [Callers -> [at : Ats, previous : Snapshots, next : Snapshots]]
  BY DEF ShapeInv
<1>3. ShapeInv'
  BY <1>2 DEF ShapeInv
<1>4. OneInv'
  <2>1. syncing' /\ refresh[c].previous = published /\ published' = published
    BY DEF OneInv
  <2>2. \A d \in Callers : refresh'[d].at # "idle" => d = c
    BY <1>1
  <2> QED
    BY <1>1, <2>1, <2>2 DEF OneInv
<1>5. OrderInv'
  <2>1. \A d \in Callers : refresh[d].at # "publish"
    BY <1>1
  <2>2. published \in {Builtin, cached}
    BY <2>1 DEF OrderInv
  <2>3. CASE where = "save"
    BY <1>1, <2>2, <2>3 DEF OrderInv, ShapeInv
  <2>4. CASE where = "publish"
    BY <1>1, <2>4 DEF OrderInv, ShapeInv
  <2> QED
    BY <2>3, <2>4
<1> QED
  BY <1>3, <1>4, <1>5

LEMMA NotModifiedOK ==
    ASSUME CatalogInv, NEW c \in Callers, NotModified(c)
    PROVE  CatalogInv'
<1> USE SnapshotFields DEF CatalogInv
<1> DEFINE p == refresh[c].previous
<1>1. p = published /\ p \in Snapshots /\ refresh[c].at = "fetch"
  BY DEF NotModified, ShapeInv, OneInv
<1>2. PICK v \in Validators :
         refresh' = [refresh EXCEPT ![c].at = "save",
            ![c].next = [p EXCEPT !.etag = Names(v[1], @), !.modified = Names(v[2], @)]]
  BY DEF NotModified
<1> DEFINE e == Names(v[1], p.etag)
           m == Names(v[2], p.modified)
           next == [p EXCEPT !.etag = e, !.modified = m]
<1>3. e \in 1..LastVersion \cup {Nil} /\ m \in 1..LastVersion \cup {Nil}
  BY <1>1 DEF Validators, Names, Snapshots, ShapeInv
<1>4. refresh' = [refresh EXCEPT ![c].at = "save", ![c].next = next]
  BY <1>2
<1> HIDE DEF e, m, p
<1>5. next \in Snapshots /\ next.of = published.of
  <2>1. next \in Snapshots
    BY <1>1, <1>3, Zenon DEF Snapshots
  <2>2. next.of = p.of
    BY <1>1 DEF Snapshots
  <2> QED
    BY <1>1, <2>1, <2>2
<1>6. published.of <= next.of /\ next.of <= version
  BY <1>5 DEF OrderInv, ShapeInv
<1>7. cached # Nil => cached.of <= next.of
  <2>1. published # Builtin
    BY <1>1, VersionsAssumption DEF NotModified, Builtin, p, ShapeInv
  <2>2. \A d \in Callers : refresh[d].at # "publish"
    BY <1>1 DEF OneInv
  <2>3. cached = published
    BY <2>1, <2>2 DEF OrderInv
  <2> QED
    BY <1>5, <2>3 DEF ShapeInv
<1> HIDE DEF next
<1> QED
  BY <1>1, <1>4, <1>5, <1>6, <1>7, BringsOK DEF NotModified

LEMMA BodyOK ==
    ASSUME CatalogInv, NEW c \in Callers, BodyArrives(c)
    PROVE  CatalogInv'
<1> USE SnapshotFields DEF CatalogInv
<1>1. PICK body \in Arrives(document[version]), v \in Validators :
         refresh' = [refresh EXCEPT ![c].at = "save",
                 ![c].next = [models |-> ParseDocument(body),
                              etag |-> Tagged(v[1], refresh[c].previous.etag),
                              modified |-> Tagged(v[2], refresh[c].previous.modified),
                              of |-> version]]
  BY DEF BodyArrives
<1> DEFINE next == [models |-> ParseDocument(body),
                    etag |-> Tagged(v[1], refresh[c].previous.etag),
                    modified |-> Tagged(v[2], refresh[c].previous.modified),
                    of |-> version]
<1>2. body \in Bodies /\ version \in 1..LastVersion
  BY DEF Bodies, ShapeInv
<1>3. v[1] \in 1..LastVersion \cup {Nil} /\ v[2] \in 1..LastVersion \cup {Nil}
  BY <1>2 DEF Validators
<1>4. next \in Snapshots /\ next.of = version
  BY <1>2, <1>3, VersionsAssumption DEF Snapshots, Tagged
<1>5. published.of <= next.of /\ next.of <= version
  BY <1>2, <1>4 DEF OrderInv
<1>6. refresh' = [refresh EXCEPT ![c].at = "save", ![c].next = next]
  BY <1>1
<1>7. cached # Nil => cached.of <= next.of
  BY <1>4 DEF OrderInv
<1> HIDE DEF next
<1> QED
  BY <1>4, <1>5, <1>6, <1>7, BringsOK DEF BodyArrives

LEMMA SaveOK ==
    ASSUME CatalogInv, NEW c \in Callers, SaveCatalog(c)
    PROVE  CatalogInv'
<1> USE SnapshotFields DEF CatalogInv
<1> DEFINE next == refresh[c].next
<1>1. /\ next \in Snapshots /\ published.of <= next.of /\ next.of <= version
      /\ refresh[c].at = "save" /\ (cached # Nil => cached.of <= next.of)
  BY DEF SaveCatalog, ShapeInv, OrderInv
<1>2. refresh' = [refresh EXCEPT ![c].at = "publish", ![c].next = next]
  BY DEF SaveCatalog, Moves, ShapeInv
<1> QED
  BY <1>1, <1>2, BringsOK DEF SaveCatalog

LEMMA RestartOK ==
    ASSUME CatalogInv, RestartCatalog
    PROVE  CatalogInv'
<1> USE SnapshotFields DEF CatalogInv, Ats, Idle
<1>1. ShapeInv'
  BY DEF RestartCatalog, ShapeInv
<1>2. \A c \in Callers : refresh'[c].at = "idle"
  BY DEF RestartCatalog
<1>3. OneInv'
  BY <1>2 DEF OneInv
<1>4. OrderInv'
  BY <1>2 DEF RestartCatalog, OrderInv, ShapeInv
<1> QED
  BY <1>1, <1>3, <1>4

LEMMA CatalogStep == CatalogInv /\ [NextCatalog]_catalogVars => CatalogInv'
<1> SUFFICES ASSUME CatalogInv, [NextCatalog]_catalogVars PROVE CatalogInv'
  OBVIOUS
<1>1. CASE NewVersion
  <2>1. version \in Nat /\ version' = version + 1 /\ version' \in 1..LastVersion
    BY <1>1, VersionsAssumption DEF NewVersion, CatalogInv, ShapeInv
  <2>2. ShapeInv'
    BY <1>1, <2>1 DEF NewVersion, CatalogInv, ShapeInv
  <2>3. OneInv'
    BY <1>1 DEF NewVersion, CatalogInv, OneInv
  <2>4. OrderInv'
    BY <1>1, <2>1, SnapshotFields DEF NewVersion, CatalogInv, ShapeInv, OrderInv
  <2> QED
    BY <2>2, <2>3, <2>4 DEF CatalogInv
<1>2. CASE UNCHANGED catalogVars
  BY <1>2 DEF catalogVars, CatalogInv, ShapeInv, OneInv, OrderInv
<1> QED
  BY <1>1, <1>2, AskOK, EndOK, NotModifiedOK, BodyOK, SaveOK, RestartOK DEF NextCatalog

(* One refresh runs at a time, from the published list, and no version is  *)
(* ahead on the way from the site over answer and cache to the published   *)
(* list, also when a restart published the list that is built in           *)
(* (sync.go:85-93, :113, :198).                                            *)
THEOREM OneRefresh == SpecCatalog => []CatalogInv
BY CatalogInitOK, CatalogStep, PTL DEF SpecCatalog

(* No refresh replaces the published or the cached list by one of an older *)
(* version, and a restart no other way than by the list that is built in   *)
(* (sync.go:85-93, :113, :198).                                            *)
THEOREM NoOlderList == SpecCatalog => NeverOlder
<1> DEFINE Step ==
       /\ published'.of >= published.of \/ (RestartCatalog /\ published' = Builtin)
       /\ cached # Nil => cached' # Nil /\ cached'.of >= cached.of
<1>1. ASSUME CatalogInv, NextCatalog
      PROVE  Step
  <2> USE SnapshotFields DEF CatalogInv
  <2>1. published.of \in Nat /\ (cached # Nil => cached.of \in Nat)
    BY <1>1 DEF ShapeInv
  <2>2. CASE UNCHANGED <<published, cached>>
    BY <2>1, <2>2
  <2>3. ASSUME NEW c \in Callers, Publish(c)
        PROVE  Step
    <3>1. published' = refresh[c].next /\ refresh[c].next \in Snapshots
          /\ published.of <= refresh[c].next.of
      BY <1>1, <2>3 DEF Publish, ShapeInv, OrderInv
    <3>2. cached' = cached
      BY <2>3 DEF Publish
    <3> QED
      BY <2>1, <3>1, <3>2
  <2>4. ASSUME NEW c \in Callers, SaveCatalog(c)
        PROVE  Step
    <3>1. cached' = refresh[c].next /\ refresh[c].next \in Snapshots
          /\ (cached # Nil => cached.of <= refresh[c].next.of)
      BY <1>1, <2>4 DEF SaveCatalog, ShapeInv, OrderInv
    <3>2. published' = published
      BY <2>4 DEF SaveCatalog
    <3> QED
      BY <2>1, <3>1, <3>2
  <2>5. CASE RestartCatalog
    <3>1. cached' = cached /\ (published' = Builtin \/ (published' = cached /\ cached # Nil))
      BY <2>5 DEF RestartCatalog
    <3>2. cached # Nil => published.of <= cached.of
      BY <1>1 DEF OrderInv
    <3> QED
      BY <1>1, <2>1, <2>5, <3>1, <3>2 DEF ShapeInv
  <2> QED
    BY <1>1, <2>2, <2>3, <2>4, <2>5 DEF NextCatalog, AskSite, RefreshFails, NotModified,
       BodyArrives, NewVersion
<1>2. CatalogInv /\ [NextCatalog]_catalogVars => [Step]_catalogVars
  BY <1>1
<1> QED
  BY <1>2, OneRefresh, PTL DEF SpecCatalog, NeverOlder

-----------------------------------------------------------------------------
(* The reader of documents: ParseDocument, a fold over the elements, is    *)
(* what Reference says of the whole document.                              *)

Elems == Headings \cup Tables
ReadStates == [ok : BOOLEAN, found : BOOLEAN, section : 0..6, has : BOOLEAN,
               rows : SUBSET Rows]

(* The recursion FoldLeft is defined by: the last element is read last.    *)
Reads(h, doc) ==
    h = [s \in SUBSET DOMAIN doc |->
            IF s = {} THEN Unread ELSE Read(h[s \ {Max(s)}], doc[Max(s)])]

(* What has been read after each element of the document.                  *)
Along(st, doc) ==
    /\ st \in [0..Len(doc) -> ReadStates]
    /\ st[0] = Unread
    /\ \A j \in 1..Len(doc) : st[j] = Read(st[j - 1], doc[j])
    /\ FoldLeft(Read, Unread, doc) = st[Len(doc)]

(* The fold is what any function says that satisfies its recursion.        *)
LEMMA FoldIs ==
    ASSUME NEW doc, NEW g, Reads(g, doc)
    PROVE  \E h : Reads(h, doc) /\ FoldLeft(Read, Unread, doc) = h[DOMAIN doc]
BY Zenon DEF Reads, FoldLeft, MapThenFoldSet

(* What an element of a document is.                                       *)
LEMMA ElementType ==
    ASSUME NEW e \in Elems
    PROVE  \/ /\ e.heading = TRUE /\ e.level \in 1..6 /\ e.models \in BOOLEAN
           \/ /\ e.heading = FALSE /\ e.state \in {"list", "wrong", "other", "cut"}
              /\ e.rows \in SUBSET Rows /\ (e.state = "list" => e.rows # {})
<1>1. CASE e \in Headings
  BY <1>1, Zenon DEF Headings
<1>2. ASSUME NEW rows \in (SUBSET Rows) \ {{}}, e = Table("list", rows)
      PROVE  /\ e.heading = FALSE /\ e.state = "list" /\ e.rows \in SUBSET Rows /\ e.rows # {}
  BY <1>2 DEF Table
<1>3. CASE e \in [heading : {FALSE}, state : {"wrong", "other", "cut"}, rows : SUBSET Rows]
  BY <1>3
<1> QED
  BY <1>1, <1>2, <1>3, Zenon DEF Elems, Tables

(* Reading an element of a document gives a state of the reader.           *)
LEMMA ReadType ==
    /\ Unread \in ReadStates
    /\ \A s \in ReadStates, e \in Elems : Read(s, e) \in ReadStates
<1>1. Unread \in ReadStates
  BY DEF Unread, ReadStates
<1> SUFFICES ASSUME NEW s \in ReadStates, NEW e \in Elems
             PROVE  Read(s, e) \in ReadStates
  BY <1>1
<1>2. Failed(s) \in ReadStates
  BY DEF Failed, ReadStates
<1>3. CASE e.heading = TRUE /\ e.level \in 1..6 /\ e.models \in BOOLEAN
  <2>1. e.heading = TRUE /\ e.level \in 0..6 /\ e.models \in BOOLEAN
    BY <1>3
  <2>2. [s EXCEPT !.section = 0] \in ReadStates
    BY DEF ReadStates
  <2>3. \A t \in ReadStates :
           [t EXCEPT !.found = TRUE, !.section = e.level, !.has = FALSE] \in ReadStates
    BY <2>1 DEF ReadStates
  <2>4. ReadHeading(s, e) \in ReadStates
    BY <1>2, <2>2, <2>3, Zenon DEF ReadHeading
  <2> QED
    BY <2>1, <2>4, Zenon DEF Read
<1>4. CASE e.heading = FALSE /\ e.rows \in SUBSET Rows
  <2>1. e.heading = FALSE /\ e.rows \in SUBSET Rows
    BY <1>4
  <2>2. [s EXCEPT !.has = TRUE, !.rows = e.rows] \in ReadStates
    BY <2>1 DEF ReadStates
  <2>3. [s EXCEPT !.has = TRUE] \in ReadStates
    BY DEF ReadStates
  <2>4. ReadTable(s, e) \in ReadStates
    BY <1>2, <2>2, <2>3, Zenon DEF ReadTable
  <2> QED
    BY <2>1, <2>4, Zenon DEF Read
<1> QED
  BY <1>3, <1>4, ElementType

(* A document is read one element after the other.                         *)
LEMMA ReadSteps ==
    ASSUME NEW doc \in Seq(Elems)
    PROVE  \E st : Along(st, doc)
<1> DEFINE S == 1..Len(doc)
           step == [p \in S \X ReadStates |-> Read(p[2], doc[p[1]])]
           pick == [s \in SUBSET S |-> Max(s)]
<1>1. Len(doc) \in Nat /\ DOMAIN doc = S /\ IsFiniteSet(S) /\ \A i \in S : doc[i] \in Elems
  BY FS_Interval
<1>2. \A s \in SUBSET S : s # {} => Max(s) \in s /\ \A x \in s : x <= Max(s)
  <2>1. \A s \in SUBSET S : s \in SUBSET (0..Len(doc))
    BY <1>1
  <2> QED
    BY <1>1, <2>1, Greatest
<1>3. PICK g \in [SUBSET S -> ReadStates] : Recurs(g, S, Unread, step, pick)
  <2>1. Unread \in ReadStates /\ \A s \in SUBSET S : s # {} => pick[s] \in s
    BY <1>2, ReadType
  <2>2. \A p \in S \X ReadStates : Read(p[2], doc[p[1]]) \in ReadStates
    BY <1>1, ReadType
  <2>3. step \in [S \X ReadStates -> ReadStates]
    BY <2>2
  <2> HIDE DEF S, step, pick
  <2> QED
    BY <1>1, <2>1, <2>3, FixedPoint
<1>4. \A s \in SUBSET S : g[s] = IF s = {} THEN Unread ELSE Read(g[s \ {Max(s)}], doc[Max(s)])
  <2> SUFFICES ASSUME NEW s \in SUBSET S, s # {}
               PROVE  g[s] = Read(g[s \ {Max(s)}], doc[Max(s)])
    BY <1>3, Zenon DEF Recurs
  <2>1. g[s] = step[<<pick[s], g[s \ {pick[s]}]>>] /\ pick[s] = Max(s)
    BY <1>3, Zenon DEF Recurs
  <2>2. <<Max(s), g[s \ {Max(s)}]>> \in S \X ReadStates
    BY <1>2, <1>3
  <2> HIDE DEF pick, S
  <2>3. step[<<Max(s), g[s \ {Max(s)}]>>] = Read(g[s \ {Max(s)}], doc[Max(s)])
    BY <2>2
  <2> QED
    BY <2>1, <2>3
<1>5. Reads(g, doc)
  <2>1. g = [s \in SUBSET S |-> g[s]]
    BY <1>3
  <2> QED
    BY <1>1, <1>4, <2>1, Zenon DEF Reads
<1>6. PICK h : Reads(h, doc) /\ FoldLeft(Read, Unread, doc) = h[DOMAIN doc]
  BY <1>5, FoldIs
<1>7. \A s \in SUBSET S : h[s] = IF s = {} THEN Unread ELSE Read(h[s \ {Max(s)}], doc[Max(s)])
  BY <1>1, <1>6, Zenon DEF Reads
<1>8. \A s \in SUBSET S : h[s] \in ReadStates
  <2> DEFINE T == {s \in SUBSET S : h[s] \in ReadStates}
  <2>1. ASSUME NEW s \in SUBSET S, \A x \in s : s \ {x} \in T PROVE s \in T
    <3>1. CASE s = {}
      BY <1>7, <3>1, ReadType
    <3>2. CASE s # {}
      <4>1. h[s \ {Max(s)}] \in ReadStates /\ doc[Max(s)] \in Elems
        BY <1>1, <1>2, <2>1, <3>2
      <4> QED
        BY <1>7, <3>2, <4>1, ReadType
    <3> QED
      BY <3>1, <3>2
  <2>2. T \in SUBSET SUBSET S
    OBVIOUS
  <2>3. IsFiniteSet(S) /\ \A s \in SUBSET S : (\A x \in s : s \ {x} \in T) => s \in T
    BY <1>1, <2>1
  <2> HIDE DEF T, S
  <2>4. T = SUBSET S
    BY <2>2, <2>3, SubsetInduction
  <2> QED
    BY <2>4 DEF T
<1> DEFINE st == [j \in 0..Len(doc) |-> h[1..j]]
<1>9. \A j \in 0..Len(doc) : 1..j \in SUBSET S
  BY <1>1
<1>10. st \in [0..Len(doc) -> ReadStates]
  BY <1>8, <1>9
<1>11. st[0] = Unread
  <2>1. 1..0 = {} /\ 0 \in 0..Len(doc) /\ {} \in SUBSET S
    BY <1>1
  <2>2. h[{}] = Unread
    BY <1>7, <2>1, Zenon
  <2> QED
    BY <2>1, <2>2
<1>12. ASSUME NEW j \in 1..Len(doc) PROVE st[j] = Read(st[j - 1], doc[j])
  <2>1. j \in Nat /\ j - 1 \in 0..Len(doc) /\ j \in 0..Len(doc)
    BY <1>1
  <2>2. 1..j # {} /\ 1..j \in SUBSET S
    <3>1. j \in 1..j
      BY <2>1
    <3> QED
      BY <1>9, <2>1, <3>1, Zenon
  <2>3. Max(1..j) = j
    <3>1. Max(1..j) \in 1..j /\ \A x \in 1..j : x <= Max(1..j)
      BY <1>2, <2>2
    <3> QED
      BY <2>1, <3>1
  <2>4. (1..j) \ {j} = 1..(j - 1)
    BY <2>1
  <2>5. h[1..j] = Read(h[1..(j - 1)], doc[j])
    BY <1>7, <2>2, <2>3, <2>4
  <2> QED
    BY <2>1, <2>5
<1>13. FoldLeft(Read, Unread, doc) = st[Len(doc)]
  BY <1>1, <1>6
<1> QED
  BY <1>10, <1>11, <1>12, <1>13 DEF Along

(* A Models heading, the heading that ends its section, the section that   *)
(* is open after j elements, and a table k that section i lists.           *)
Start(doc, i) == doc[i].heading /\ doc[i].models
Closes(doc, i, m) == doc[m].heading /\ (doc[m].level <= doc[i].level \/ doc[m].models)
Opens(doc, i, j) == Start(doc, i) /\ i <= j /\ \A m \in (i + 1)..j : ~Closes(doc, i, m)
Lists(doc, i, k) == Opens(doc, i, k) /\ ~doc[k].heading /\ doc[k].state # "other"

(* A section without a table, a table that is wrong, two that differ.      *)
Bare(doc) == \E i \in DOMAIN doc : Start(doc, i) /\ \A k \in DOMAIN doc : ~Lists(doc, i, k)
Wrong(doc) == \E i, k \in DOMAIN doc : Lists(doc, i, k) /\ doc[k].state # "list"
Differ(doc) == \E i, k, g, n \in DOMAIN doc :
                  Lists(doc, i, k) /\ Lists(doc, g, n) /\ doc[k].rows # doc[n].rows
Bad(doc) == Bare(doc) \/ Wrong(doc) \/ Differ(doc)

(* The section at hand after j elements, and the sections before it.       *)
SectionInv(doc, j, s) ==
    /\ s.found = \E i \in 1..j : Start(doc, i)
    /\ s.section = 0 => \A i \in 1..j : ~Opens(doc, i, j)
    /\ s.section # 0 => \E i \in 1..j :
          /\ Opens(doc, i, j) /\ s.section = doc[i].level
          /\ s.has = \E k \in 1..j : Lists(doc, i, k)
    /\ \A i \in 1..j : Start(doc, i) /\ ~Opens(doc, i, j) => \E k \in 1..j : Lists(doc, i, k)

(* The rows found so far are those of every table that is listed.          *)
RowsInv(doc, j, s) ==
    /\ \A i, k \in 1..j : Lists(doc, i, k) =>
          doc[k].state = "list" /\ doc[k].rows = s.rows /\ s.rows # {}
    /\ s.rows # {} => \E i, k \in 1..j : Lists(doc, i, k)

ReadInv(doc, j, s) == IF s.ok THEN SectionInv(doc, j, s) /\ RowsInv(doc, j, s) ELSE Bad(doc)

(* One element more: it opens a section, or leaves the open one open.      *)
LEMMA OneMore ==
    ASSUME NEW doc \in Seq(Elems), NEW j \in 1..Len(doc)
    PROVE  /\ \A i \in 1..(j - 1) : Opens(doc, i, j) <=> Opens(doc, i, j - 1) /\ ~Closes(doc, i, j)
           /\ Opens(doc, j, j) <=> Start(doc, j)
           /\ \A i, m \in 1..(j - 1) : Opens(doc, i, j - 1) /\ Opens(doc, m, j - 1) => i = m
           /\ \A i \in 1..(j - 1) : \A k \in DOMAIN doc :
                 k >= j /\ Opens(doc, i, k) => Opens(doc, i, j)
           /\ \A i \in DOMAIN doc : \A k \in 1..(j - 1) : Lists(doc, i, k) => i \in 1..(j - 1)
<1>1. Len(doc) \in Nat /\ DOMAIN doc = 1..Len(doc) /\ j \in Nat /\ j >= 1 /\ j <= Len(doc)
  OBVIOUS
<1>2. ASSUME NEW i \in 1..(j - 1)
      PROVE  Opens(doc, i, j) <=> Opens(doc, i, j - 1) /\ ~Closes(doc, i, j)
  <2>1. (i + 1)..j = ((i + 1)..(j - 1)) \cup {j} /\ i <= j /\ i <= j - 1
    BY <1>1
  <2> QED
    BY <2>1, Zenon DEF Opens
<1>3. Opens(doc, j, j) <=> Start(doc, j)
  <2>1. (j + 1)..j = {} /\ j <= j
    BY <1>1
  <2> QED
    BY <2>1, Zenon DEF Opens
<1>4. ASSUME NEW i \in 1..(j - 1), NEW m \in 1..(j - 1),
             Opens(doc, i, j - 1), Opens(doc, m, j - 1)
      PROVE  i = m
  <2>1. CASE i < m
    <3>1. m \in (i + 1)..(j - 1) /\ Closes(doc, i, m)
      BY <1>1, <1>4, <2>1 DEF Opens, Start, Closes
    <3> QED
      BY <1>4, <3>1 DEF Opens
  <2>2. CASE m < i
    <3>1. i \in (m + 1)..(j - 1) /\ Closes(doc, m, i)
      BY <1>1, <1>4, <2>2 DEF Opens, Start, Closes
    <3> QED
      BY <1>4, <3>1 DEF Opens
  <2> QED
    BY <1>1, <2>1, <2>2
<1>5. ASSUME NEW i \in 1..(j - 1), NEW k \in DOMAIN doc, k >= j, Opens(doc, i, k)
      PROVE  Opens(doc, i, j)
  <2>1. i <= j /\ \A m \in (i + 1)..j : m \in (i + 1)..k
    BY <1>1, <1>5
  <2> QED
    BY <1>5, <2>1 DEF Opens
<1>6. ASSUME NEW i \in DOMAIN doc, NEW k \in 1..(j - 1), Lists(doc, i, k)
      PROVE  i \in 1..(j - 1)
  BY <1>1, <1>6 DEF Lists, Opens
<1> QED
  BY <1>2, <1>3, <1>4, <1>5, <1>6

(* One section is open at the end of a document, at most.                  *)
LEMMA LastOpen ==
    ASSUME NEW doc \in Seq(Elems), NEW i \in DOMAIN doc, NEW m \in DOMAIN doc,
           Opens(doc, i, Len(doc)), Opens(doc, m, Len(doc))
    PROVE  i = m
<1>1. Len(doc) \in Nat /\ DOMAIN doc = 1..Len(doc)
  OBVIOUS
<1>2. CASE i < m
  <2>1. m \in (i + 1)..Len(doc) /\ Closes(doc, i, m)
    BY <1>1, <1>2 DEF Opens, Start, Closes
  <2> QED
    BY <2>1 DEF Opens
<1>3. CASE m < i
  <2>1. i \in (m + 1)..Len(doc) /\ Closes(doc, m, i)
    BY <1>1, <1>3 DEF Opens, Start, Closes
  <2> QED
    BY <2>1 DEF Opens
<1> QED
  BY <1>1, <1>2, <1>3

(* What the definition of a document's models comes to.                    *)
LEMMA ReferenceIs ==
    ASSUME NEW doc \in Seq(Elems)
    PROVE  /\ ~Complete(doc) \/ Bad(doc) => Reference(doc) = {}
           /\ (\A i, k \in DOMAIN doc : ~Lists(doc, i, k)) => Reference(doc) = {}
           /\ \A i, k \in DOMAIN doc :
                 Complete(doc) /\ ~Bad(doc) /\ Lists(doc, i, k) => Reference(doc) = doc[k].rows
<1> DEFINE starts == {i \in DOMAIN doc : doc[i].heading /\ doc[i].models}
           within(i) == {j \in (i + 1)..Len(doc) :
              ~\E k \in (i + 1)..j : doc[k].heading /\ (doc[k].level <= doc[i].level \/ doc[k].models)}
           tables(i) == {doc[j] : j \in {k \in within(i) : ~doc[k].heading /\ doc[k].state # "other"}}
           all == UNION {tables(i) : i \in starts}
           whole == /\ Complete(doc)
                    /\ \A i \in starts : tables(i) # {}
                    /\ \E rows \in {t.rows : t \in all} :
                          \A t \in all : t.state = "list" /\ t.rows = rows
<1>1. Len(doc) \in Nat /\ DOMAIN doc = 1..Len(doc)
  OBVIOUS
<1>2. \A i \in DOMAIN doc : i \in starts <=> Start(doc, i)
  BY DEF Start
<1>3. ASSUME NEW i \in starts, NEW t
      PROVE  t \in tables(i) <=> \E k \in DOMAIN doc : Lists(doc, i, k) /\ t = doc[k]
  <2>1. ASSUME NEW k \in DOMAIN doc, ~doc[k].heading
        PROVE  k \in within(i) <=> Opens(doc, i, k)
    <3>1. i # k
      BY <2>1
    <3>2. k \in (i + 1)..Len(doc) <=> i <= k
      BY <1>1, <3>1
    <3>3. Start(doc, i)
      BY <1>2
    <3> QED
      BY <3>2, <3>3, Zenon DEF Opens, Closes
  <2>2. \A k \in within(i) : k \in DOMAIN doc
    BY <1>1
  <2> HIDE DEF within
  <2> QED
    BY <2>1, <2>2, Zenon DEF Lists
<1>4. ASSUME NEW t
      PROVE  t \in all <=> \E i, k \in DOMAIN doc : Lists(doc, i, k) /\ t = doc[k]
  <2>1. t \in all <=> \E i \in starts : t \in tables(i)
    <3> HIDE DEF starts, tables
    <3> QED
      BY Zenon
  <2>2. \A i, k \in DOMAIN doc : Lists(doc, i, k) => i \in starts
    BY <1>2 DEF Lists, Opens
  <2>3. \A i \in starts : i \in DOMAIN doc
    OBVIOUS
  <2> HIDE DEF starts, tables, all
  <2> QED
    BY <1>3, <2>1, <2>2, <2>3, Zenon
<1>5. Reference(doc) = IF whole THEN UNION {t.rows : t \in all} ELSE {}
  BY Zenon DEF Reference
<1>6. ASSUME NEW i \in starts PROVE tables(i) # {} <=> \E k \in DOMAIN doc : Lists(doc, i, k)
  <2> HIDE DEF starts, tables
  <2> QED
    BY <1>3, Zenon
<1>7. (\A i \in starts : tables(i) # {}) <=> ~Bare(doc)
  <2>1. \A i \in starts : i \in DOMAIN doc
    OBVIOUS
  <2> HIDE DEF starts, tables
  <2> QED
    BY <1>2, <1>6, <2>1, Zenon DEF Bare
<1> HIDE DEF starts, tables, all
<1>8. whole => ~Bad(doc)
  <2> SUFFICES ASSUME whole PROVE ~Bad(doc)
    OBVIOUS
  <2>1. ~Bare(doc)
    BY <1>7, Zenon
  <2>2. PICK rows : \A t \in all : t.state = "list" /\ t.rows = rows
    BY Zenon
  <2>3. \A i, k \in DOMAIN doc : Lists(doc, i, k) => doc[k].state = "list" /\ doc[k].rows = rows
    BY <1>4, <2>2, Zenon
  <2>4. ~Wrong(doc) /\ ~Differ(doc)
    BY <2>3, Zenon DEF Wrong, Differ
  <2> QED
    BY <2>1, <2>4 DEF Bad
<1>9. ASSUME \A i, k \in DOMAIN doc : ~Lists(doc, i, k) PROVE ~whole
  <2>1. \A t : t \notin all
    BY <1>4, <1>9, Zenon
  <2> QED
    BY <2>1, Zenon
<1>10. ASSUME NEW i \in DOMAIN doc, NEW k \in DOMAIN doc, Complete(doc), ~Bad(doc),
             Lists(doc, i, k)
       PROVE  Reference(doc) = doc[k].rows
  <2>1. \A t \in all : t.state = "list" /\ t.rows = doc[k].rows
    <3> SUFFICES ASSUME NEW t \in all PROVE t.state = "list" /\ t.rows = doc[k].rows
      OBVIOUS
    <3>1. PICK g, n \in DOMAIN doc : Lists(doc, g, n) /\ t = doc[n]
      BY <1>4, Zenon
    <3>2. doc[n].state = "list"
      BY <1>10, <3>1, Zenon DEF Bad, Wrong
    <3>3. doc[n].rows = doc[k].rows
      BY <1>10, <3>1 DEF Bad, Differ
    <3> QED
      BY <3>1, <3>2, <3>3
  <2>2. doc[k] \in all
    BY <1>4, <1>10, Zenon
  <2>3. whole
    BY <1>7, <1>10, <2>1, <2>2, Zenon DEF Bad
  <2>4. {t.rows : t \in all} = {doc[k].rows}
    BY <2>1, <2>2, Zenon
  <2>5. UNION {t.rows : t \in all} = doc[k].rows
    BY <2>4
  <2> HIDE DEF whole
  <2> QED
    BY <1>5, <2>3, <2>5
<1> QED
  <2>1. whole => Complete(doc)
    OBVIOUS
  <2> HIDE DEF whole
  <2> QED
    BY <1>5, <1>8, <1>9, <1>10, <2>1, Zenon

(* A heading: the section at hand ends or stays open, or another begins.   *)
LEMMA HeadingOK ==
    ASSUME NEW doc \in Seq(Elems), NEW j \in 1..Len(doc), NEW s \in ReadStates, s.ok,
           doc[j].heading, ReadInv(doc, j - 1, s)
    PROVE  ReadInv(doc, j, Read(s, doc[j]))
<1> DEFINE e == doc[j]
           t == Read(s, e)
           closed == IF ~Ends(s, e) THEN s
                     ELSE IF ~s.has THEN Failed(s) ELSE [s EXCEPT !.section = 0]
<1>1. /\ Len(doc) \in Nat /\ DOMAIN doc = 1..Len(doc) /\ j \in Nat /\ j - 1 \in Nat
      /\ 1..j = 1..(j - 1) \cup {j} /\ j \notin 1..(j - 1) /\ 1..j \subseteq DOMAIN doc
  OBVIOUS
<1>2. e.heading = TRUE /\ e.level \in 1..6 /\ e.models \in BOOLEAN
  <2>1. e \in Elems
    BY <1>1
  <2> HIDE DEF e
  <2>2. e.heading
    BY DEF e
  <2> QED
    BY <2>1, <2>2, ElementType
<1>3. SectionInv(doc, j - 1, s) /\ RowsInv(doc, j - 1, s)
  BY DEF ReadInv
<1>4. t = IF e.models THEN [closed EXCEPT !.found = TRUE, !.section = e.level, !.has = FALSE]
          ELSE closed
  BY <1>2, Zenon DEF Read, ReadHeading
<1>5. \A i \in 1..j : ~Lists(doc, i, j)
  BY <1>2 DEF Lists
<1>6. \A i, k \in 1..j : Lists(doc, i, k) <=> i \in 1..(j - 1) /\ k \in 1..(j - 1) /\ Lists(doc, i, k)
  <2> SUFFICES ASSUME NEW i \in 1..j, NEW k \in 1..j, Lists(doc, i, k)
               PROVE  i \in 1..(j - 1) /\ k \in 1..(j - 1)
    OBVIOUS
  <2>1. k # j
    BY <1>5
  <2>2. k \in 1..(j - 1) /\ i \in DOMAIN doc
    BY <1>1, <2>1
  <2> QED
    BY <2>2, OneMore, Zenon
<1>7. ASSUME NEW u, u.rows = s.rows PROVE RowsInv(doc, j, u)
  BY <1>1, <1>3, <1>6, <1>7, Zenon DEF RowsInv
<1>8. CASE s.section = 0
  <2>1. closed = s
    BY <1>8 DEF Ends
  <2>2. \A i \in 1..(j - 1) : ~Opens(doc, i, j - 1) /\ ~Opens(doc, i, j)
    BY <1>3, <1>8, OneMore, Zenon DEF SectionInv
  <2>3. CASE e.models
    <3>1. /\ t.ok = s.ok /\ t.rows = s.rows /\ t.found = TRUE /\ t.section = e.level /\ t.has = FALSE
          /\ t.section # 0
      <4>1. t = [s EXCEPT !.found = TRUE, !.section = e.level, !.has = FALSE]
        BY <1>4, <2>1, <2>3
      <4>2. e.level # 0
        BY <1>2
      <4> HIDE DEF t, e
      <4>3. /\ t.found = TRUE /\ t.section = e.level /\ t.has = FALSE
            /\ t.ok = s.ok /\ t.rows = s.rows
        BY <4>1 DEF ReadStates
      <4> QED
        BY <4>2, <4>3
    <3>2. Start(doc, j) /\ Opens(doc, j, j)
      BY <1>2, <2>3, OneMore DEF Start
    <3>3. \A k \in 1..j : ~Lists(doc, j, k)
      BY <1>1, <1>6, Zenon
    <3>4. SectionInv(doc, j, t)
      <4> HIDE DEF t, e
      <4>1. t.found = \E i \in 1..j : Start(doc, i)
        BY <1>1, <3>1, <3>2, Zenon
      <4>2. /\ j \in 1..j /\ t.section = doc[j].level
            /\ t.has = \E k \in 1..j : Lists(doc, j, k)
        BY <1>1, <3>1, <3>3, Zenon DEF e
      <4>3. \A i \in 1..j : Start(doc, i) /\ ~Opens(doc, i, j) => \E k \in 1..j : Lists(doc, i, k)
        BY <1>1, <1>3, <2>2, <3>2, Zenon DEF SectionInv
      <4> QED
        BY <3>1, <3>2, <4>1, <4>2, <4>3, Zenon DEF SectionInv
    <3> QED
      BY <1>7, <3>1, <3>4, Zenon DEF ReadInv
  <2>4. CASE ~e.models
    <3>1. t = s
      BY <1>4, <2>1, <2>4
    <3>2. ~Start(doc, j) /\ ~Opens(doc, j, j)
      BY <2>4, OneMore DEF Start
    <3>3. SectionInv(doc, j, s)
      <4>1. s.found = \E i \in 1..j : Start(doc, i)
        BY <1>1, <1>3, <3>2, Zenon DEF SectionInv
      <4>2. \A i \in 1..j : ~Opens(doc, i, j)
        BY <1>1, <2>2, <3>2, Zenon
      <4>3. \A i \in 1..j : Start(doc, i) /\ ~Opens(doc, i, j) => \E k \in 1..j : Lists(doc, i, k)
        BY <1>1, <1>3, <2>2, <3>2, Zenon DEF SectionInv
      <4> QED
        BY <1>8, <4>1, <4>2, <4>3, Zenon DEF SectionInv
    <3> QED
      BY <1>7, <3>1, <3>3, Zenon DEF ReadInv
  <2> QED
    BY <2>3, <2>4
<1>9. CASE s.section # 0
  <2>1. PICK i \in 1..(j - 1) :
           /\ Opens(doc, i, j - 1) /\ s.section = doc[i].level
           /\ s.has = \E k \in 1..(j - 1) : Lists(doc, i, k)
    BY <1>3, <1>9, Zenon DEF SectionInv
  <2>2. Ends(s, e) <=> Closes(doc, i, j)
    <3>1. Ends(s, e) <=> (e.level <= s.section \/ e.models)
      BY <1>9 DEF Ends
    <3>2. Closes(doc, i, j) <=> (e.level <= doc[i].level \/ e.models)
      BY <1>2 DEF Closes
    <3>3. s.section = doc[i].level
      BY <2>1
    <3> HIDE DEF e
    <3> QED
      BY <3>1, <3>2, <3>3, Zenon
  <2>3. \A m \in 1..(j - 1) : Opens(doc, m, j) <=> m = i /\ ~Closes(doc, i, j)
    <3> SUFFICES ASSUME NEW m \in 1..(j - 1)
                 PROVE  Opens(doc, m, j) <=> m = i /\ ~Closes(doc, i, j)
      OBVIOUS
    <3>1. Opens(doc, m, j) <=> Opens(doc, m, j - 1) /\ ~Closes(doc, m, j)
      BY OneMore, Zenon
    <3>2. Opens(doc, m, j - 1) => m = i
      BY <2>1, OneMore, Zenon
    <3> QED
      BY <2>1, <3>1, <3>2, Zenon
  <2>4. CASE Ends(s, e) /\ ~s.has
    <3>1. \A k \in DOMAIN doc : ~Lists(doc, i, k)
      <4>1. \A k \in DOMAIN doc : k \in 1..(j - 1) \/ k >= j
        BY <1>1
      <4>2. \A k \in 1..(j - 1) : ~Lists(doc, i, k)
        BY <2>1, <2>4, Zenon
      <4>3. \A k \in DOMAIN doc : k >= j => ~Opens(doc, i, k)
        BY <2>2, <2>3, <2>4, OneMore, Zenon
      <4> QED
        BY <4>1, <4>2, <4>3, Zenon DEF Lists
    <3>2. i \in DOMAIN doc /\ Start(doc, i)
      BY <1>1, <2>1 DEF Opens
    <3>3. Bad(doc)
      BY <3>1, <3>2, Zenon DEF Bad, Bare
    <3>4. t.ok = FALSE
      BY <1>4, <2>4 DEF Failed, ReadStates
    <3> QED
      BY <3>3, <3>4 DEF ReadInv
  <2>5. CASE Ends(s, e) /\ s.has
    <3>1. closed = [s EXCEPT !.section = 0]
      BY <2>5
    <3>2. \A m \in 1..(j - 1) : ~Opens(doc, m, j)
      BY <2>2, <2>3, <2>5, Zenon
    <3>3. \A m \in 1..(j - 1) : Start(doc, m) => \E k \in 1..j : Lists(doc, m, k)
      <4>1. ASSUME NEW m \in 1..(j - 1), Start(doc, m), m # i
            PROVE  \E k \in 1..(j - 1) : Lists(doc, m, k)
        BY <1>3, <2>1, <4>1, OneMore, Zenon DEF SectionInv
      <4>2. \E k \in 1..(j - 1) : Lists(doc, i, k)
        BY <2>1, <2>5, Zenon
      <4> QED
        BY <1>1, <4>1, <4>2, Zenon
    <3>4. CASE e.models
      <4>1. /\ t.ok = s.ok /\ t.rows = s.rows /\ t.found = TRUE /\ t.section = e.level
            /\ t.has = FALSE /\ t.section # 0
        <5>1. t = [[s EXCEPT !.section = 0] EXCEPT !.found = TRUE, !.section = e.level, !.has = FALSE]
          BY <1>4, <3>1, <3>4
        <5>2. e.level # 0
          BY <1>2
        <5> HIDE DEF t, e
        <5>3. /\ t.found = TRUE /\ t.section = e.level /\ t.has = FALSE
              /\ t.ok = s.ok /\ t.rows = s.rows
          BY <5>1 DEF ReadStates
        <5> QED
          BY <5>2, <5>3
      <4>2. Start(doc, j) /\ Opens(doc, j, j)
        BY <1>2, <3>4, OneMore DEF Start
      <4>3. \A k \in 1..j : ~Lists(doc, j, k)
        BY <1>1, <1>6, Zenon
      <4>4. SectionInv(doc, j, t)
        <5> HIDE DEF t, e
        <5>1. t.found = \E m \in 1..j : Start(doc, m)
          BY <1>1, <4>1, <4>2, Zenon
        <5>2. /\ j \in 1..j /\ t.section = doc[j].level
              /\ t.has = \E k \in 1..j : Lists(doc, j, k)
          BY <1>1, <4>1, <4>3, Zenon DEF e
        <5>3. \A m \in 1..j : Start(doc, m) /\ ~Opens(doc, m, j) => \E k \in 1..j : Lists(doc, m, k)
          BY <1>1, <3>3, <4>2, Zenon
        <5> QED
          BY <4>1, <4>2, <5>1, <5>2, <5>3, Zenon DEF SectionInv
      <4> QED
        BY <1>7, <4>1, <4>4, Zenon DEF ReadInv
    <3>5. CASE ~e.models
      <4>1. t.ok = s.ok /\ t.rows = s.rows /\ t.found = s.found /\ t.section = 0
        BY <1>4, <3>1, <3>5 DEF ReadStates
      <4>2. ~Start(doc, j) /\ ~Opens(doc, j, j)
        BY <3>5, OneMore DEF Start
      <4>3. SectionInv(doc, j, t)
        <5> HIDE DEF t, e
        <5>1. t.found = \E m \in 1..j : Start(doc, m)
          BY <1>1, <1>3, <4>1, <4>2, Zenon DEF SectionInv
        <5>2. \A m \in 1..j : ~Opens(doc, m, j)
          BY <1>1, <3>2, <4>2, Zenon
        <5>3. \A m \in 1..j : Start(doc, m) /\ ~Opens(doc, m, j) => \E k \in 1..j : Lists(doc, m, k)
          BY <1>1, <3>3, <4>2, Zenon
        <5> QED
          BY <4>1, <5>1, <5>2, <5>3, Zenon DEF SectionInv
      <4> QED
        BY <1>7, <4>1, <4>3, Zenon DEF ReadInv
    <3> QED
      BY <3>4, <3>5
  <2>6. CASE ~Ends(s, e)
    <3>1. closed = s /\ ~e.models
      BY <1>9, <2>6 DEF Ends
    <3>2. t = s
      BY <1>4, <3>1
    <3>3. ~Start(doc, j) /\ ~Opens(doc, j, j)
      BY <3>1, OneMore DEF Start
    <3>4. \A m \in 1..(j - 1) : Opens(doc, m, j) <=> Opens(doc, m, j - 1)
      BY <2>1, <2>2, <2>3, <2>6, OneMore, Zenon
    <3>5. SectionInv(doc, j, s)
      <4>1. s.found = \E m \in 1..j : Start(doc, m)
        BY <1>1, <1>3, <3>3, Zenon DEF SectionInv
      <4>2. i \in 1..j /\ Opens(doc, i, j) /\ s.has = \E k \in 1..j : Lists(doc, i, k)
        BY <1>1, <1>6, <2>1, <3>4, Zenon
      <4>3. \A m \in 1..j : Start(doc, m) /\ ~Opens(doc, m, j) => \E k \in 1..j : Lists(doc, m, k)
        BY <1>1, <1>3, <3>3, <3>4, Zenon DEF SectionInv
      <4> QED
        BY <1>9, <2>1, <4>1, <4>2, <4>3, Zenon DEF SectionInv
    <3> QED
      BY <1>7, <3>2, <3>5, Zenon DEF ReadInv
  <2> QED
    BY <2>4, <2>5, <2>6
<1> QED
  BY <1>8, <1>9

(* A table: it is listed by the section at hand, if there is one.          *)
LEMMA TableOK ==
    ASSUME NEW doc \in Seq(Elems), Complete(doc), NEW j \in 1..Len(doc),
           NEW s \in ReadStates, s.ok, ~doc[j].heading, ReadInv(doc, j - 1, s)
    PROVE  ReadInv(doc, j, Read(s, doc[j]))
<1> DEFINE e == doc[j]
           t == Read(s, e)
<1>1. /\ Len(doc) \in Nat /\ DOMAIN doc = 1..Len(doc) /\ j \in Nat /\ j - 1 \in Nat
      /\ 1..j = 1..(j - 1) \cup {j} /\ j \notin 1..(j - 1) /\ 1..j \subseteq DOMAIN doc
  OBVIOUS
<1>2. /\ e.heading = FALSE /\ e.state \in {"list", "wrong", "other"} /\ e.rows \in SUBSET Rows
      /\ (e.state = "list" => e.rows # {})
  <2>1. e \in Elems
    BY <1>1
  <2>2. e.heading \/ e.state # "cut"
    BY <1>1 DEF Complete
  <2> HIDE DEF e
  <2>3. ~e.heading
    BY DEF e
  <2> QED
    BY <2>1, <2>2, <2>3, ElementType
<1>3. SectionInv(doc, j - 1, s) /\ RowsInv(doc, j - 1, s)
  BY DEF ReadInv
<1>4. t = ReadTable(s, e)
  BY <1>2 DEF Read
<1>5. ~Start(doc, j) /\ ~Opens(doc, j, j) /\ \A i \in 1..(j - 1) : Opens(doc, i, j) <=> Opens(doc, i, j - 1)
  BY <1>2, OneMore DEF Start, Closes
<1>6. (\E i \in 1..j : Start(doc, i)) <=> \E i \in 1..(j - 1) : Start(doc, i)
  BY <1>1, <1>5, Zenon
<1>7. \A i, k \in 1..j : Lists(doc, i, k) =>
        i \in 1..(j - 1) /\ (k \in 1..(j - 1) \/ (k = j /\ Opens(doc, i, j) /\ e.state # "other"))
  <2> SUFFICES ASSUME NEW i \in 1..j, NEW k \in 1..j, Lists(doc, i, k)
               PROVE  i \in 1..(j - 1) /\ (k \in 1..(j - 1) \/ (k = j /\ Opens(doc, i, j) /\ e.state # "other"))
    OBVIOUS
  <2>1. CASE k = j
    <3>1. Opens(doc, i, j) /\ e.state # "other"
      BY <2>1 DEF Lists
    <3>2. i # j
      BY <1>5, <3>1
    <3> QED
      BY <1>1, <2>1, <3>1, <3>2
  <2>2. CASE k # j
    <3>1. k \in 1..(j - 1) /\ i \in DOMAIN doc
      BY <1>1, <2>2
    <3>2. i \in 1..(j - 1)
      BY <3>1, OneMore, Zenon
    <3> QED
      BY <3>1, <3>2
  <2> QED
    BY <2>1, <2>2
<1>8. \A i \in 1..j : Start(doc, i) /\ ~Opens(doc, i, j) => \E k \in 1..j : Lists(doc, i, k)
  BY <1>1, <1>3, <1>5, Zenon DEF SectionInv
<1>9. CASE s.section = 0 \/ e.state = "other"
  <2>1. t = s
    BY <1>4, <1>9 DEF ReadTable
  <2>2. \A i, k \in 1..j : Lists(doc, i, k) => i \in 1..(j - 1) /\ k \in 1..(j - 1)
    BY <1>3, <1>5, <1>7, <1>9, Zenon DEF SectionInv
  <2>3. SectionInv(doc, j, s)
    <3>1. s.section = 0 => \A i \in 1..j : ~Opens(doc, i, j)
      BY <1>1, <1>3, <1>5, Zenon DEF SectionInv
    <3>2. ASSUME s.section # 0
          PROVE  \E i \in 1..j : /\ Opens(doc, i, j) /\ s.section = doc[i].level
                                 /\ s.has = \E k \in 1..j : Lists(doc, i, k)
      <4>1. PICK i \in 1..(j - 1) :
               /\ Opens(doc, i, j - 1) /\ s.section = doc[i].level
               /\ s.has = \E k \in 1..(j - 1) : Lists(doc, i, k)
        BY <1>3, <3>2, Zenon DEF SectionInv
      <4>2. i \in 1..j /\ ((\E k \in 1..(j - 1) : Lists(doc, i, k)) <=> \E k \in 1..j : Lists(doc, i, k))
        BY <1>1, <2>2, Zenon
      <4> QED
        BY <1>5, <4>1, <4>2, Zenon
    <3>3. s.found = \E i \in 1..j : Start(doc, i)
      BY <1>3, <1>6, Zenon DEF SectionInv
    <3> QED
      BY <1>8, <3>1, <3>2, <3>3, Zenon DEF SectionInv
  <2>4. RowsInv(doc, j, s)
    BY <1>1, <1>3, <2>2, Zenon DEF RowsInv
  <2> QED
    BY <2>1, <2>3, <2>4, Zenon DEF ReadInv
<1>10. CASE s.section # 0 /\ e.state # "other"
  <2>1. PICK i \in 1..(j - 1) :
           /\ Opens(doc, i, j - 1) /\ s.section = doc[i].level
           /\ s.has = \E k \in 1..(j - 1) : Lists(doc, i, k)
    BY <1>3, <1>10, Zenon DEF SectionInv
  <2>2. Opens(doc, i, j) /\ Lists(doc, i, j) /\ i \in 1..j /\ j \in 1..j
        /\ i \in DOMAIN doc /\ j \in DOMAIN doc
    BY <1>1, <1>2, <1>5, <1>10, <2>1 DEF Lists
  <2>3. CASE e.state = "wrong"
    <3>1. t.ok = FALSE
      BY <1>4, <1>10, <2>3 DEF ReadTable, Failed, ReadStates
    <3>2. Bad(doc)
      BY <2>2, <2>3 DEF Bad, Wrong
    <3> QED
      BY <3>1, <3>2, Zenon DEF ReadInv
  <2>4. CASE e.state = "list" /\ s.rows # {} /\ s.rows # e.rows
    <3>1. t.ok = FALSE
      BY <1>4, <1>10, <2>4 DEF ReadTable, Failed, ReadStates
    <3>2. PICK g, k \in 1..(j - 1) : Lists(doc, g, k)
      BY <1>3, <2>4, Zenon DEF RowsInv
    <3>3. doc[k].rows # e.rows
      BY <1>3, <2>4, <3>2, Zenon DEF RowsInv
    <3>4. g \in DOMAIN doc /\ k \in DOMAIN doc
      BY <1>1
    <3>5. Bad(doc)
      BY <2>2, <3>2, <3>3, <3>4 DEF Bad, Differ
    <3> QED
      BY <3>1, <3>5, Zenon DEF ReadInv
  <2>5. CASE e.state = "list" /\ (s.rows = {} \/ s.rows = e.rows)
    <3>1. /\ t.ok = s.ok /\ t.found = s.found /\ t.section = s.section /\ t.has = TRUE
          /\ t.rows = e.rows
      <4>1. CASE s.rows = {}
        <5>1. t = [s EXCEPT !.has = TRUE, !.rows = e.rows]
          BY <1>4, <1>10, <2>5, <4>1 DEF ReadTable
        <5> HIDE DEF t, e
        <5> QED
          BY <5>1 DEF ReadStates
      <4>2. CASE s.rows # {}
        <5>1. t = [s EXCEPT !.has = TRUE] /\ s.rows = e.rows
          BY <1>4, <1>10, <2>5, <4>2 DEF ReadTable
        <5> HIDE DEF t, e
        <5> QED
          BY <5>1 DEF ReadStates
      <4> QED
        BY <4>1, <4>2
    <3>2. \A g, k \in 1..(j - 1) : Lists(doc, g, k) =>
            doc[k].state = "list" /\ doc[k].rows = e.rows
      BY <1>3, <2>5, Zenon DEF RowsInv
    <3>3. RowsInv(doc, j, t)
      <4>1. \A g, k \in 1..j : Lists(doc, g, k) =>
               doc[k].state = "list" /\ doc[k].rows = e.rows
        BY <1>7, <2>5, <3>2, Zenon
      <4> HIDE DEF t
      <4> QED
        BY <1>2, <2>2, <2>5, <3>1, <4>1 DEF RowsInv
    <3>4. SectionInv(doc, j, t)
      <4> HIDE DEF t, e
      <4>1. t.found = \E m \in 1..j : Start(doc, m)
        BY <1>3, <1>6, <3>1, Zenon DEF SectionInv
      <4>2. t.section = doc[i].level /\ t.has = \E k \in 1..j : Lists(doc, i, k)
        BY <2>1, <2>2, <3>1, Zenon
      <4>3. t.section # 0
        BY <1>10, <3>1
      <4> QED
        BY <1>8, <2>2, <4>1, <4>2, <4>3, Zenon DEF SectionInv
    <3> QED
      BY <3>1, <3>3, <3>4, Zenon DEF ReadInv
  <2> QED
    BY <1>2, <1>10, <2>3, <2>4, <2>5
<1> QED
  BY <1>9, <1>10

(* The reader, whatever it has read so far, knows what it read.            *)
LEMMA ReadOK ==
    ASSUME NEW doc \in Seq(Elems), Complete(doc), NEW st, Along(st, doc)
    PROVE  ReadInv(doc, Len(doc), st[Len(doc)])
<1> DEFINE N == Len(doc)
           T == {j \in 0..N : ReadInv(doc, j, st[j])}
<1>1. N \in Nat /\ T \in SUBSET (0..N)
  OBVIOUS
<1>2. 0 \in T
  <2>1. ReadInv(doc, 0, Unread)
    <3>1. 1..0 = {}
      OBVIOUS
    <3>2. \A i \in 1..0 : FALSE
      BY <3>1
    <3>3. /\ Unread.ok = TRUE /\ Unread.found = FALSE /\ Unread.section = 0
          /\ Unread.rows = {}
      BY DEF Unread
    <3> QED
      BY <3>2, <3>3, Zenon DEF ReadInv, SectionInv, RowsInv
  <2> QED
    BY <1>1, <2>1 DEF Along
<1>3. ASSUME NEW j \in 1..N, j - 1 \in T PROVE j \in T
  <2>1. st[j - 1] \in ReadStates /\ st[j] = Read(st[j - 1], doc[j]) /\ j \in 0..N
    BY <1>1 DEF Along
  <2>2. ReadInv(doc, j - 1, st[j - 1])
    BY <1>3
  <2>3. CASE ~st[j - 1].ok
    BY <2>1, <2>2, <2>3 DEF Read, ReadInv
  <2>4. CASE st[j - 1].ok
    <3>1. CASE doc[j].heading
      BY <2>1, <2>2, <2>4, <3>1, HeadingOK
    <3>2. CASE ~doc[j].heading
      BY <2>1, <2>2, <2>4, <3>2, TableOK
    <3> QED
      BY <3>1, <3>2
  <2> QED
    BY <2>3, <2>4
<1> HIDE DEF T
<1>4. N \in T
  BY <1>1, <1>2, <1>3, UpTo
<1> QED
  BY <1>4 DEF T

(* The reader, which goes once from top to bottom with a level and a flag, *)
(* finds what the document lists by the definition of its sections, and    *)
(* nothing in a document that is cut short, contradicts itself or has a    *)
(* section without a table, for documents of any length and depth          *)
(* (document.go:22-100).                                                   *)
THEOREM ReaderIsRight ==
    ASSUME NEW doc \in Seq(Elems)
    PROVE  ParseDocument(doc) = Reference(doc)
<1>1. PICK st : Along(st, doc)
  BY ReadSteps
<1> DEFINE s == st[Len(doc)]
<1>2. /\ s \in ReadStates /\ Len(doc) \in Nat /\ DOMAIN doc = 1..Len(doc)
      /\ FoldLeft(Read, Unread, doc) = s
  BY <1>1 DEF Along
<1>3. ParseDocument(doc) =
         IF Complete(doc) /\ s.ok /\ s.found /\ s.rows # {} /\ (s.section # 0 => s.has)
         THEN s.rows ELSE {}
  BY <1>2, Zenon DEF ParseDocument
<1>4. CASE ~Complete(doc)
  BY <1>3, <1>4, ReferenceIs
<1>5. CASE Complete(doc)
  <2>1. ReadInv(doc, Len(doc), s)
    BY <1>1, <1>5, ReadOK
  <2> HIDE DEF s
  <2>2. CASE ~s.ok
    <3>1. Bad(doc)
      BY <2>1, <2>2 DEF ReadInv
    <3> QED
      BY <1>3, <2>2, <3>1, ReferenceIs
  <2>3. CASE s.ok /\ s.rows = {}
    <3>1. \A i, k \in DOMAIN doc : ~Lists(doc, i, k)
      BY <1>2, <2>1, <2>3, Zenon DEF ReadInv, RowsInv
    <3>2. Reference(doc) = {}
      BY <3>1, ReferenceIs
    <3> QED
      BY <1>3, <2>3, <3>2
  <2>4. CASE s.ok /\ s.rows # {}
    <3>1. PICK i, k \in DOMAIN doc : Lists(doc, i, k) /\ doc[k].rows = s.rows
      BY <1>2, <2>1, <2>4, Zenon DEF ReadInv, RowsInv
    <3>2. s.found
      BY <1>2, <2>1, <2>4, <3>1, Zenon DEF ReadInv, SectionInv, Lists, Opens
    <3>3. ~Wrong(doc) /\ ~Differ(doc)
      BY <1>2, <2>1, <2>4, Zenon DEF ReadInv, RowsInv, Wrong, Differ
    <3>4. (s.section # 0 => s.has) <=> ~Bare(doc)
      <4>1. \A m \in DOMAIN doc : Start(doc, m) /\ ~Opens(doc, m, Len(doc)) =>
               \E n \in DOMAIN doc : Lists(doc, m, n)
        BY <1>2, <2>1, <2>4, Zenon DEF ReadInv, SectionInv
      <4>2. CASE s.section = 0
        BY <1>2, <2>1, <2>4, <4>1, <4>2, Zenon DEF ReadInv, SectionInv, Bare
      <4>3. CASE s.section # 0
        <5>1. PICK g \in DOMAIN doc :
                 Opens(doc, g, Len(doc)) /\ s.has = \E n \in DOMAIN doc : Lists(doc, g, n)
          BY <1>2, <2>1, <2>4, <4>3, Zenon DEF ReadInv, SectionInv
        <5>2. \A m \in DOMAIN doc : Opens(doc, m, Len(doc)) => m = g
          BY <5>1, LastOpen, Zenon
        <5>3. Start(doc, g)
          BY <5>1 DEF Opens
        <5>4. ASSUME s.has PROVE ~Bare(doc)
          <6>1. \A m \in DOMAIN doc : Start(doc, m) => \E n \in DOMAIN doc : Lists(doc, m, n)
            <7> SUFFICES ASSUME NEW m \in DOMAIN doc, Start(doc, m)
                         PROVE  \E n \in DOMAIN doc : Lists(doc, m, n)
              OBVIOUS
            <7>1. CASE Opens(doc, m, Len(doc))
              <8>1. m = g
                BY <5>2, <7>1
              <8>2. \E n \in DOMAIN doc : Lists(doc, g, n)
                BY <5>1, <5>4
              <8> QED
                BY <8>1, <8>2
            <7>2. CASE ~Opens(doc, m, Len(doc))
              BY <4>1, <7>2
            <7> QED
              BY <7>1, <7>2
          <6> QED
            BY <6>1, Zenon DEF Bare
        <5>5. ASSUME ~s.has PROVE Bare(doc)
          <6>1. \A n \in DOMAIN doc : ~Lists(doc, g, n)
            BY <5>1, <5>5, Zenon
          <6> QED
            BY <5>3, <6>1, Zenon DEF Bare
        <5> QED
          BY <4>3, <5>4, <5>5, Zenon
      <4> QED
        BY <4>2, <4>3
    <3>5. CASE Bare(doc)
      <4>1. Reference(doc) = {}
        BY <3>5, ReferenceIs DEF Bad
      <4> QED
        BY <1>3, <3>4, <3>5, <4>1
    <3>6. CASE ~Bare(doc)
      <4>1. Reference(doc) = s.rows
        BY <1>5, <3>1, <3>3, <3>6, ReferenceIs DEF Bad
      <4> QED
        BY <1>3, <1>5, <2>4, <3>2, <3>4, <3>6, <4>1
    <3> QED
      BY <3>5, <3>6
  <2> QED
    BY <2>2, <2>3, <2>4
<1> QED
  BY <1>4, <1>5

-----------------------------------------------------------------------------
(* The lists of the catalog.  s says what document docs[s.of] lists, and   *)
(* every validator it carries names a version that lists the same.         *)
SaysOf(docs, s, v) == Reference(docs[v]) # {} => s.models = Reference(docs[v])
Whole(docs, s) ==
    s # Builtin => SaysOf(docs, s, s.of) /\ \A v \in {s.etag, s.modified} \ {Nil} : SaysOf(docs, s, v)

WholeInv ==
    /\ CatalogInv
    /\ Whole(document, published)
    /\ cached # Nil => Whole(document, cached)
    /\ \A c \in Callers : refresh[c].at \in {"save", "publish"} => Whole(document, refresh[c].next)

(* The start of a document lists nothing but what the document lists.      *)
LEMMA StartIsWhole ==
    ASSUME NEW doc \in Seq(Elems), NEW n \in DOMAIN doc,
           Reference(doc) # {}, Reference(SubSeq(doc, 1, n - 1)) # {}
    PROVE  Reference(SubSeq(doc, 1, n - 1)) = Reference(doc)
<1> DEFINE b == SubSeq(doc, 1, n - 1)
<1>1. Len(doc) \in Nat /\ DOMAIN doc = 1..Len(doc) /\ n \in Nat /\ n - 1 \in Nat /\ n - 1 <= Len(doc)
  OBVIOUS
<1>2. b \in Seq(Elems) /\ DOMAIN b = 1..(n - 1) /\ \A k \in 1..(n - 1) : b[k] = doc[k]
  BY <1>1
<1> HIDE DEF b
<1>3. PICK i, k \in DOMAIN b : Lists(b, i, k)
  BY <1>2, ReferenceIs, Zenon DEF b
<1>4. Complete(b) /\ ~Bad(b) /\ Complete(doc) /\ ~Bad(doc)
  BY <1>2, ReferenceIs, Zenon DEF b
<1>5. i \in 1..(n - 1) /\ k \in 1..(n - 1) /\ i \in DOMAIN doc /\ k \in DOMAIN doc
  BY <1>1, <1>2
<1>6. \A m \in (i + 1)..k : m \in 1..(n - 1)
  BY <1>5
<1>7. Lists(doc, i, k)
  BY <1>2, <1>3, <1>5, <1>6, Zenon DEF Lists, Opens, Start, Closes
<1>8. Reference(b) = b[k].rows /\ Reference(doc) = doc[k].rows
  BY <1>2, <1>3, <1>4, <1>5, <1>7, ReferenceIs, Zenon
<1> QED
  BY <1>2, <1>5, <1>8 DEF b

(* What arrives of a document is refused or read as the whole of it.       *)
LEMMA ArrivesWhole ==
    ASSUME NEW doc \in Seq(Elems), NEW body \in Arrives(doc),
           ParseDocument(body) # {}, Reference(doc) # {}
    PROVE  ParseDocument(body) = Reference(doc)
<1>1. CASE body = doc
  BY <1>1, ReaderIsRight
<1>2. ASSUME NEW n \in DOMAIN doc, body = SubSeq(doc, 1, n - 1)
      PROVE  ParseDocument(body) = Reference(doc)
  <2>1. body \in Seq(Elems)
    BY <1>2
  <2>2. ParseDocument(body) = Reference(body)
    BY <2>1, ReaderIsRight
  <2> QED
    BY <1>2, <2>2, StartIsWhole
<1>3. ASSUME NEW n \in DOMAIN doc, ~doc[n].heading, NEW e \in Cut(doc[n]),
             body = Append(SubSeq(doc, 1, n - 1), e)
      PROVE  FALSE
  <2>1. doc[n] \in Elems /\ doc[n].heading = FALSE
    <3>1. doc[n] \in Elems
      OBVIOUS
    <3> QED
      BY <1>3, <3>1, ElementType
  <2>2. PICK rows \in SUBSET doc[n].rows : e = [doc[n] EXCEPT !.state = "cut", !.rows = rows]
    BY <1>3, Zenon DEF Cut
  <2>3. e \in Tables /\ e.heading = FALSE /\ e.state = "cut"
    <3>1. doc[n].rows \in SUBSET Rows
      BY <2>1, ElementType
    <3>2. doc[n] \in [heading : {FALSE}, state : {"list", "wrong", "other", "cut"}, rows : SUBSET Rows]
      <4>1. CASE doc[n] \in Headings
        BY <2>1, <4>1 DEF Headings
      <4>2. ASSUME NEW x \in (SUBSET Rows) \ {{}}, doc[n] = Table("list", x)
            PROVE  doc[n] \in [heading : {FALSE}, state : {"list", "wrong", "other", "cut"},
                                rows : SUBSET Rows]
        BY <4>2 DEF Table
      <4> QED
        BY <2>1, <4>1, <4>2 DEF Elems, Tables
    <3> DEFINE d == doc[n]
    <3> HIDE DEF d
    <3>3. d \in [heading : {FALSE}, state : {"list", "wrong", "other", "cut"}, rows : SUBSET Rows]
          /\ e = [d EXCEPT !.state = "cut", !.rows = rows] /\ rows \in SUBSET Rows
      BY <2>2, <3>1, <3>2 DEF d
    <3>4. e \in [heading : {FALSE}, state : {"wrong", "other", "cut"}, rows : SUBSET Rows]
      BY <3>3
    <3>5. e.heading = FALSE /\ e.state = "cut"
      BY <3>3
    <3> QED
      BY <3>4, <3>5 DEF Tables
  <2>4. SubSeq(doc, 1, n - 1) \in Seq(Elems)
    OBVIOUS
  <2>5. body \in Seq(Elems) /\ Len(body) \in DOMAIN body /\ body[Len(body)] = e
    BY <1>3, <2>3, <2>4 DEF Elems
  <2>6. ~Complete(body)
    BY <2>3, <2>5 DEF Complete
  <2> QED
    BY <2>5, <2>6, ReaderIsRight, ReferenceIs
<1>4. \/ body = doc
      \/ \E n \in DOMAIN doc :
            \/ body = SubSeq(doc, 1, n - 1)
            \/ \E e \in IF doc[n].heading THEN {} ELSE Cut(doc[n]) :
                  body = Append(SubSeq(doc, 1, n - 1), e)
  BY Zenon DEF Arrives
<1> QED
  BY <1>1, <1>2, <1>3, <1>4

(* A refresh that has got a whole list.                                    *)
LEMMA BringsWhole ==
    ASSUME WholeInv, NEW c \in Callers, NEW next,
           refresh' = [refresh EXCEPT ![c].at = "save", ![c].next = next],
           Whole(document, next), CatalogInv', UNCHANGED <<document, published, cached>>
    PROVE  WholeInv'
<1>1. /\ refresh'[c].next = next
      /\ \A d \in Callers \ {c} : refresh'[d] = refresh[d]
  BY DEF WholeInv, CatalogInv, ShapeInv
<1>2. \A d \in Callers : refresh'[d].at \in {"save", "publish"} => Whole(document', refresh'[d].next)
  BY <1>1 DEF WholeInv
<1>3. Whole(document', published') /\ (cached' # Nil => Whole(document', cached'))
  BY DEF WholeInv
<1> QED
  BY <1>2, <1>3 DEF WholeInv

(* A 304 keeps a list that the version it names lists.                     *)
LEMMA NotModifiedWhole ==
    ASSUME WholeInv, NEW c \in Callers, NotModified(c), CatalogInv'
    PROVE  WholeInv'
<1> DEFINE p == refresh[c].previous
<1>1. p = published /\ p \in Snapshots /\ version \in 1..LastVersion
      /\ version = IF p.etag # Nil THEN p.etag ELSE p.modified
  BY DEF NotModified, WholeInv, CatalogInv, ShapeInv, OneInv
<1>2. PICK v \in Validators :
         refresh' = [refresh EXCEPT ![c].at = "save",
            ![c].next = [p EXCEPT !.etag = Names(v[1], @), !.modified = Names(v[2], @)]]
  BY DEF NotModified
<1> DEFINE e == Names(v[1], p.etag)
           m == Names(v[2], p.modified)
           next == [p EXCEPT !.etag = e, !.modified = m]
<1>3. e \in {p.etag, version} /\ m \in {p.modified, version}
  BY DEF Validators, Names
<1>4. refresh' = [refresh EXCEPT ![c].at = "save", ![c].next = next]
  BY <1>2
<1> HIDE DEF e, m, p
<1>5. next.models = p.models /\ next.of = p.of /\ next.etag = e /\ next.modified = m
  BY <1>1 DEF Snapshots
<1>6. version # Nil /\ p # Builtin
  <2>1. version # Nil
    BY <1>1, VersionsAssumption
  <2>2. Builtin.etag = Nil /\ Builtin.modified = Nil
    BY DEF Builtin
  <2> QED
    BY <1>1, <2>1, <2>2
<1>7. SaysOf(document, p, p.of) /\ \A u \in {p.etag, p.modified} \ {Nil} : SaysOf(document, p, u)
  BY <1>1, <1>6, Zenon DEF WholeInv, Whole
<1>8. SaysOf(document, p, version)
  BY <1>1, <1>6, <1>7
<1> HIDE DEF next
<1>9. \A u : SaysOf(document, p, u) => SaysOf(document, next, u)
  BY <1>5 DEF SaysOf
<1>10. Whole(document, next)
  BY <1>3, <1>5, <1>7, <1>8, <1>9 DEF Whole
<1> QED
  BY <1>4, <1>10, BringsWhole DEF NotModified

(* An answer brings the whole list of its version or none.                 *)
LEMMA BodyWhole ==
    ASSUME WholeInv, NEW c \in Callers, BodyArrives(c), CatalogInv'
    PROVE  WholeInv'
<1>1. PICK body \in Arrives(document[version]), v \in Validators :
         /\ ParseDocument(body) # {}
         /\ refresh' = [refresh EXCEPT ![c].at = "save",
                 ![c].next = [models |-> ParseDocument(body),
                              etag |-> Tagged(v[1], refresh[c].previous.etag),
                              modified |-> Tagged(v[2], refresh[c].previous.modified),
                              of |-> version]]
  BY DEF BodyArrives
<1> DEFINE next == [models |-> ParseDocument(body),
                    etag |-> Tagged(v[1], refresh[c].previous.etag),
                    modified |-> Tagged(v[2], refresh[c].previous.modified),
                    of |-> version]
<1>2. document[version] \in Seq(Elems)
  <2>1. document[version] \in Documents
    BY DEF WholeInv, CatalogInv, ShapeInv
  <2> QED
    BY <2>1, DocumentsAssumption DEF Elems
<1>3. Reference(document[version]) # {} => ParseDocument(body) = Reference(document[version])
  BY <1>1, <1>2, ArrivesWhole
<1>4. /\ next.models = ParseDocument(body) /\ next.of = version
      /\ next.etag \in {Nil, version} /\ next.modified \in {Nil, version}
  BY DEF Validators, Tagged
<1>5. refresh' = [refresh EXCEPT ![c].at = "save", ![c].next = next]
  BY <1>1
<1> HIDE DEF next
<1>6. SaysOf(document, next, version)
  BY <1>3, <1>4 DEF SaysOf
<1>7. Whole(document, next)
  BY <1>4, <1>6 DEF Whole
<1> QED
  BY <1>5, <1>7, BringsWhole DEF BodyArrives

(* No step of a refresh, of the site or of the process spoils a list.      *)
LEMMA WholeStep == WholeInv /\ [NextCatalog]_catalogVars => WholeInv'
<1> SUFFICES ASSUME WholeInv, [NextCatalog]_catalogVars PROVE WholeInv'
  OBVIOUS
<1>1. CatalogInv'
  BY CatalogStep DEF WholeInv
<1> USE DEF WholeInv
<1>2. ASSUME NEW c \in Callers, AskSite(c) PROVE WholeInv'
  <2>1. \A d \in Callers : refresh'[d].at \in {"save", "publish"} => refresh'[d] = refresh[d]
    BY <1>2 DEF AskSite, CatalogInv, ShapeInv
  <2> QED
    BY <1>1, <1>2, <2>1 DEF AskSite
<1>3. ASSUME NEW c \in Callers, RefreshFails(c) PROVE WholeInv'
  <2>1. \A d \in Callers : refresh'[d].at \in {"save", "publish"} => refresh'[d] = refresh[d]
    BY <1>3 DEF RefreshFails, CatalogInv, ShapeInv, Idle
  <2> QED
    BY <1>1, <1>3, <2>1 DEF RefreshFails
<1>4. ASSUME NEW c \in Callers, SaveCatalog(c) PROVE WholeInv'
  <2>1. \A d \in Callers : refresh'[d].at \in {"save", "publish"} =>
           refresh'[d].next = refresh[d].next /\ refresh[d].at \in {"save", "publish"}
    BY <1>4 DEF SaveCatalog, Moves, CatalogInv, ShapeInv
  <2>2. Whole(document, refresh[c].next) /\ cached' = refresh[c].next
    BY <1>4 DEF SaveCatalog
  <2> QED
    BY <1>1, <1>4, <2>1, <2>2 DEF SaveCatalog
<1>5. ASSUME NEW c \in Callers, Publish(c) PROVE WholeInv'
  <2>1. \A d \in Callers : refresh'[d].at \in {"save", "publish"} => refresh'[d] = refresh[d]
    BY <1>5 DEF Publish, CatalogInv, ShapeInv, Idle
  <2>2. Whole(document, refresh[c].next) /\ published' = refresh[c].next
    BY <1>5 DEF Publish
  <2> QED
    BY <1>1, <1>5, <2>1, <2>2 DEF Publish
<1>6. CASE NewVersion
  BY <1>1, <1>6 DEF NewVersion
<1>7. CASE RestartCatalog
  <2>1. \A d \in Callers : refresh'[d].at = "idle"
    BY <1>7 DEF RestartCatalog, Idle
  <2>2. Whole(document, Builtin)
    BY DEF Whole
  <2> QED
    BY <1>1, <1>7, <2>1, <2>2 DEF RestartCatalog
<1>8. CASE UNCHANGED catalogVars
  BY <1>1, <1>8 DEF catalogVars
<1> QED
  BY <1>1, <1>2, <1>3, <1>4, <1>5, <1>6, <1>7, <1>8, NotModifiedWhole, BodyWhole DEF NextCatalog

(* A list that is published or cached is the whole list of its version and *)
(* of every version its validators name, however little of an answer       *)
(* arrived and whatever the site brought out since (document.go:20,        *)
(* sync.go:149-189).                                                       *)
THEOREM WholeList == SpecCatalog => []ListIsWhole
<1>1. InitCatalog => WholeInv
  <2> SUFFICES ASSUME InitCatalog PROVE WholeInv
    OBVIOUS
  <2>1. CatalogInv
    BY CatalogInitOK
  <2> QED
    BY <2>1 DEF WholeInv, Whole, InitCatalog, Idle
<1>2. WholeInv => ListIsWhole
  BY Zenon DEF WholeInv, Whole, SaysOf, ListIsWhole
<1> QED
  BY <1>1, <1>2, WholeStep, PTL DEF SpecCatalog

-----------------------------------------------------------------------------
(* The manager as it is checked: the parts run beside each other, so each  *)
(* keeps what its own specification guarantees.                            *)

(* The reader is given documents, the proxy's invariant, the log's and the *)
(* catalog's hold whichever part is started.                               *)
PartsInv ==
    /\ TypeOK /\ LogInv /\ CatalogInv /\ syncing \in BOOLEAN
    /\ part \in {"proxy", "log", "catalog", "document"}
    /\ text \in Seq(Elements)

(* What the run reads is a document.                                       *)
LEMMA TextsAreDocuments ==
    /\ Elements \subseteq Elems
    /\ \A t \in Texts : t \in Seq(Elements)
<1>1. ASSUME NEW level \in 1..6, NEW models \in BOOLEAN PROVE Heading(level, models) \in Elems
  BY DEF Heading, Headings, Elems
<1>2. ASSUME NEW rows \in (SUBSET Rows) \ {{}} PROVE Table("list", rows) \in Elems
  BY DEF Tables, Elems
<1>3. ASSUME NEW state \in {"wrong", "other", "cut"}, NEW rows \in SUBSET Rows
      PROVE  Table(state, rows) \in Elems
  BY DEF Table, Tables, Elems
<1>4. {"a"} \in (SUBSET Rows) \ {{}} /\ {"a", "b"} \in (SUBSET Rows) \ {{}} /\ {} \in SUBSET Rows
  BY ElementsAssumption
<1>5. Models2 \in Elems /\ Heading(1, TRUE) \in Elems /\ Heading(1, FALSE) \in Elems
      /\ Heading(2, FALSE) \in Elems /\ Heading(3, FALSE) \in Elems
  <2>1. 1 \in 1..6 /\ 2 \in 1..6 /\ 3 \in 1..6
    OBVIOUS
  <2> QED
    BY <1>1, <2>1, Zenon DEF Models2
<1>6. TableA \in Elems /\ TableAB \in Elems
  BY <1>2, <1>4 DEF TableA, TableAB
<1>7. Table("wrong", {}) \in Elems /\ Table("other", {}) \in Elems /\ Table("cut", {"a"}) \in Elems
  BY <1>3, <1>4
<1>8. Elements \subseteq Elems
  BY <1>5, <1>6, <1>7 DEF Elements
<1>9. ASSUME NEW t \in Texts PROVE t \in Seq(Elements)
  <2>1. PICK n \in 0..4 : t \in [1..n -> Elements]
    BY DEF Texts, SeqOf
  <2> QED
    BY <2>1
<1> QED
  BY <1>8, <1>9

(* Each part's steps are steps of its specification or leave it alone.     *)
LEMMA PartSteps ==
    ASSUME [ManagerNext]_managerVars
    PROVE  /\ [WatchNext]_watched /\ [NextLog]_logVars /\ [NextCatalog]_catalogVars
           /\ UNCHANGED <<part, text>>
BY DEF ManagerNext, managerVars

(* A step of the proxy with its observers is a step of the proxy.          *)
LEMMA WatchIsNext == [WatchNext]_watched => [Next]_vars
BY DEF WatchNext, WatchRequest, WatchTick, watched, Next, ProxyNext, OutsideNext

(* The specifications of the parts beside each other.                      *)
LEMMA PartsRun == ManagerSpec => Spec /\ WatchSpec /\ SpecLog /\ SpecCatalog
<1>1. ManagerInit => WatchInit /\ InitLog /\ InitCatalog
  BY DEF ManagerInit, ProxyInit, LogInit, CatalogInit
<1>2. [ManagerNext]_managerVars => [WatchNext]_watched /\ [NextLog]_logVars /\ [NextCatalog]_catalogVars
  BY PartSteps
<1>3. WatchInit => Init
  BY DEF WatchInit
<1> QED
  BY <1>1, <1>2, <1>3, WatchIsNext, PTL DEF ManagerSpec, Spec, WatchSpec, SpecLog, SpecCatalog

(* The invariants of the parts hold at the start ...                       *)
LEMMA PartsStart == ManagerInit => PartsInv
<1> SUFFICES ASSUME ManagerInit PROVE PartsInv
  OBVIOUS
<1>1. TypeOK
  BY InitTypeOK DEF ManagerInit, ProxyInit, WatchInit
<1>2. LogInv
  BY InitLogOK DEF ManagerInit, LogInit
<1>3. CatalogInv /\ syncing \in BOOLEAN
  BY CatalogInitOK DEF ManagerInit, CatalogInit, InitCatalog
<1>4. text \in Seq(Elements)
  <2>1. <<>> \in Seq(Elements)
    OBVIOUS
  <2> QED
    BY <2>1, TextsAreDocuments DEF ManagerInit
<1> QED
  BY <1>1, <1>2, <1>3, <1>4 DEF PartsInv, ManagerInit

(* ... and every step of the manager keeps them.                           *)
LEMMA PartsStep == PartsInv /\ [ManagerNext]_managerVars => PartsInv'
<1> SUFFICES ASSUME PartsInv, [ManagerNext]_managerVars PROVE PartsInv'
  OBVIOUS
<1> USE DEF PartsInv
<1>1. TypeOK'
  BY PartSteps, WatchIsNext, NextTypeOK
<1>2. LogInv'
  BY PartSteps, LogStep
<1>3. CatalogInv'
  BY PartSteps, CatalogStep
<1>4. syncing' \in BOOLEAN
  BY PartSteps DEF NextCatalog, AskSite, RefreshFails, NotModified, BodyArrives, SaveCatalog,
     Publish, NewVersion, RestartCatalog, catalogVars
<1> QED
  BY <1>1, <1>2, <1>3, <1>4, PartSteps

(* The variables of every part keep their types.                           *)
THEOREM TypeCorrectManager == ManagerSpec => []TypeOKManager
<1>1. PartsInv => TypeOKManager
  BY DEF PartsInv, LogInv, TypeOKManager, CatalogInv, ShapeInv, TypeOKCatalog, Ats
<1> QED
  BY <1>1, PartsStart, PartsStep, PTL DEF ManagerSpec

(* Whatever document the run reads, the reader is right about it.          *)
THEOREM TextIsReadRight == ManagerSpec => []ParseAgrees
<1>1. PartsInv => ParseAgrees
  <2> SUFFICES ASSUME PartsInv PROVE ParseAgrees
    OBVIOUS
  <2>1. text \in Seq(Elems)
    <3>1. Seq(Elements) \subseteq Seq(Elems)
      BY TextsAreDocuments
    <3> QED
      BY <3>1 DEF PartsInv
  <2> QED
    BY <2>1, ReaderIsRight DEF ParseAgrees
<1> QED
  BY <1>1, PartsStart, PartsStep, PTL DEF ManagerSpec

(* What the proxy, the log and the catalog promise holds in the manager.   *)
THEOREM ManagerKeeps ==
    ManagerSpec => /\ []HistoryCountsOnce /\ []ListIsWhole
                   /\ RpmIsKept /\ LeastBusyFirst /\ NeverOlder
BY PartsRun, DashboardCountsOnce, WholeList, RateIsKept, LeastBusyIsPicked, NoOlderList, PTL
=============================================================================
