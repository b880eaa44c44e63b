--------------------------- MODULE ForwarderProofs ---------------------------
(***************************************************************************)
(* What TLAPS proves of Forwarder, for any set of accounts and requests:   *)
(* the two counters of the balancer are exact on every path, the least     *)
(* busy account is picked, and, with the observer of MCForwarderWatch, the *)
(* window of picks is exact, the limit per minute holds, and an account    *)
(* rests as announced unless cooldown itself shortens the rest.            *)
(***************************************************************************)
EXTENDS MCForwarderWatch, FoldTheorems, FiniteSetTheorems, SequenceTheorems, TLAPS

-----------------------------------------------------------------------------
(* Pruning and ageing keep the entries of a window well formed.            *)
LEMMA PruneType ==
    ASSUME NEW s \in Seq(0..Window)
    PROVE  Prune(s) \in Seq(0..Window)
<1> DEFINE D == {i \in DOMAIN s : s[i] >= Window}
<1>1. Len(s) \in Nat /\ DOMAIN s = 1..Len(s) /\ \A i \in 1..Len(s) : s[i] \in 0..Window
  BY LenProperties, ElementOfSeq
<1>2. Cardinality(D) \in Nat
  <2>1. IsFiniteSet(1..Len(s))
    BY <1>1, FS_Interval
  <2>2. IsFiniteSet(D)
    BY <1>1, <2>1, FS_Subset
  <2> QED
    BY <2>2, FS_CardinalityType
<1> HIDE DEF D
<1>3. \A i \in (Cardinality(D) + 1)..Len(s) : s[i] \in 0..Window
  BY <1>1, <1>2
<1>4. SubSeq(s, Cardinality(D) + 1, Len(s)) \in Seq(0..Window)
  BY <1>1, <1>2, <1>3, SubSeqProperties
<1> QED
  BY <1>4 DEF Prune, D

LEMMA AgeType ==
    ASSUME NEW s \in Seq(0..Window)
    PROVE  [i \in DOMAIN s |-> Older(s[i])] \in Seq(0..Window)
<1>1. Len(s) \in Nat /\ DOMAIN s = 1..Len(s) /\ \A i \in 1..Len(s) : s[i] \in 0..Window
  BY LenProperties, ElementOfSeq
<1>2. \A i \in 1..Len(s) : Older(s[i]) \in 0..Window
  BY <1>1, ForwarderAssumption DEF Older
<1> QED
  BY <1>1, <1>2, IsASeq

(* A row stays a row when one of its columns is written.                   *)
LEMMA RowUpdate ==
    ASSUME NEW x \in Row
    PROVE  /\ \A s \in {"paid", "unpaid", "gone"} : [x EXCEPT !.state = s] \in Row
           /\ \A m \in BOOLEAN : [x EXCEPT !.spent = m] \in Row
           /\ \A h \in 0..Longest : [x EXCEPT !.hold = h] \in Row
           /\ \A e \in BOOLEAN : [x EXCEPT !.stale = e] \in Row
<1>1. ASSUME NEW s \in {"paid", "unpaid", "gone"} PROVE [x EXCEPT !.state = s] \in Row
  BY Zenon DEF Row
<1>2. ASSUME NEW m \in BOOLEAN PROVE [x EXCEPT !.spent = m] \in Row
  BY Zenon DEF Row
<1>3. ASSUME NEW h \in 0..Longest PROVE [x EXCEPT !.hold = h] \in Row
  BY Zenon DEF Row
<1>4. ASSUME NEW e \in BOOLEAN PROVE [x EXCEPT !.stale = e] \in Row
  BY Zenon DEF Row
<1> QED
  BY <1>1, <1>2, <1>3, <1>4

(* The same for one account in a table of rows.                            *)
LEMMA RowsUpdate ==
    ASSUME NEW rows \in [Accounts -> Row], NEW a
    PROVE  /\ \A s \in {"paid", "unpaid", "gone"} :
                 [rows EXCEPT ![a].state = s] \in [Accounts -> Row]
           /\ [rows EXCEPT ![a].spent = TRUE] \in [Accounts -> Row]
           /\ \A h \in 0..Longest : [rows EXCEPT ![a].hold = h] \in [Accounts -> Row]
           /\ \A e \in BOOLEAN : [rows EXCEPT ![a].stale = e] \in [Accounts -> Row]
<1>1. CASE a \in Accounts
  <2>1. rows[a] \in Row
    BY <1>1
  <2>2. \A x \in Row : [rows EXCEPT ![a] = x] \in [Accounts -> Row]
    OBVIOUS
  <2> QED
    BY <2>1, <2>2, RowUpdate
<1>2. CASE a \notin Accounts
  BY <1>2
<1> QED
  BY <1>1, <1>2

LEMMA RowsType ==
    ASSUME NEW rows \in [Accounts -> Row]
    PROVE  Later(rows) \in [Accounts -> Row]
<1>1. ASSUME NEW a \in Accounts
      PROVE  [rows[a] EXCEPT !.hold = Less(@)] \in Row
  <2>1. rows[a].hold \in 0..Longest
    BY DEF Row
  <2>2. Less(rows[a].hold) \in 0..Longest
    BY <2>1, ForwarderAssumption DEF Less
  <2> QED
    BY <2>2, RowUpdate
<1> QED
  BY <1>1 DEF Later

LEMMA NoRowsType == NoRow \in Row /\ NoRows \in [Accounts -> Row]
BY ForwarderAssumption DEF NoRow, NoRows, Row

LEMMA GotoType ==
    ASSUME TypeOK, NEW r \in Requests, NEW from, NEW to \in Phases, Goto(r, from, to)
    PROVE  phase' \in [Requests -> Phases]
BY DEF Goto, TypeOK

LEMMA ReturnType ==
    ASSUME TypeOK, NEW r \in Requests, Return(r)
    PROVE  /\ phase' \in [Requests -> Phases]
           /\ seen' \in [Requests -> [Accounts -> Row]]
           /\ tried' \in [Requests -> SUBSET Accounts]
           /\ at' \in [Requests -> Accounts \cup {None}]
           /\ reply' \in [Requests -> AllReplies \cup {"none"}]
           /\ pause' \in [Requests -> 0..Longest]
<1>1. phase' \in [Requests -> Phases] /\ reply' \in [Requests -> AllReplies \cup {"none"}]
  BY DEF Return, TypeOK, Phases
<1>2. seen' \in [Requests -> [Accounts -> Row]]
  BY NoRowsType DEF Return, TypeOK
<1>3. tried' \in [Requests -> SUBSET Accounts] /\ at' \in [Requests -> Accounts \cup {None}]
  BY DEF Return, TypeOK
<1>4. pause' \in [Requests -> 0..Longest]
  BY ForwarderAssumption DEF Return, TypeOK
<1> QED
  BY <1>1, <1>2, <1>3, <1>4

LEMMA ReleaseType ==
    ASSUME TypeOK, NEW r \in Requests, NEW v, Release(r, v)
    PROVE  inflight' \in [Accounts -> Nat]
<1>1. CASE at[r] \in Accounts
  <2> DEFINE n == IF inflight[at[r]] > 0 THEN inflight[at[r]] - 1 ELSE 0
  <2>1. n \in Nat
    BY <1>1 DEF TypeOK
  <2> QED
    BY <2>1 DEF Release, TypeOK
<1>2. CASE at[r] \notin Accounts
  BY <1>2 DEF Release, TypeOK
<1> QED
  BY <1>1, <1>2

-----------------------------------------------------------------------------
LEMMA InitTypeOK == Init => TypeOK
<1> SUFFICES ASSUME Init PROVE TypeOK
  OBVIOUS
<1>1. row \in [Accounts -> Row]
  <2>1. [state : {"paid"}, spent : {FALSE}, hold : {0}, stale : BOOLEAN] \subseteq Row
    <3>1. 0 \in 0..Longest
      BY ForwarderAssumption
    <3> QED
      BY <3>1, Zenon DEF Row
  <2> QED
    BY <2>1 DEF Init
<1>2. /\ cool \in [Accounts -> 0..Longest] /\ pause \in [Requests -> 0..Longest]
      /\ restarts \in 0..MaxRestarts
  BY ForwarderAssumption DEF Init
<1>3. inflight \in [Accounts -> Nat] /\ refreshing \in [Accounts -> Nat]
  BY DEF Init
<1>4. older \in SUBSET (Accounts \X Accounts) /\ settings \in [retries : RetryChoices, rpm : RPMChoices]
  BY DEF Init
<1>5. picks \in [Accounts -> Seq(0..Window)]
  BY EmptySeq DEF Init
<1>6. phase \in [Requests -> Phases] /\ reply \in [Requests -> AllReplies \cup {"none"}]
  BY DEF Init, Phases
<1>7. seen \in [Requests -> [Accounts -> Row]] /\ prev \in [Requests -> [Accounts -> Row]]
  BY NoRowsType DEF Init
<1>8. tried \in [Requests -> SUBSET Accounts] /\ at \in [Requests -> Accounts \cup {None}]
  BY DEF Init
<1>9. task \in [Requests -> [Accounts -> Tasks]]
  BY DEF Init, Tasks
<1> QED
  BY <1>1, <1>2, <1>3, <1>4, <1>5, <1>6, <1>7, <1>8, <1>9 DEF TypeOK

LEMMA NextTypeOK == TypeOK /\ [Next]_vars => TypeOK'
<1> SUFFICES ASSUME TypeOK, [Next]_vars PROVE TypeOK'
  OBVIOUS
<1> USE DEF balancer, local, tasks
<1>1. ASSUME NEW r \in Requests, Receive(r) PROVE TypeOK'
  <2>1. phase' \in [Requests -> Phases]
    BY <1>1, GotoType DEF Receive, Phases
  <2> QED
    BY <1>1, <2>1 DEF Receive, TypeOK
<1>2. ASSUME NEW r \in Requests, ReadPool(r) PROVE TypeOK'
  <2>1. phase' \in [Requests -> Phases]
    BY <1>2, GotoType DEF ReadPool, Phases
  <2>2. row' \in [Accounts -> Row]
    <3>1. \A a \in Accounts : row[a] \in Row /\ [row[a] EXCEPT !.state = "gone"] \in Row
      BY RowUpdate DEF TypeOK
    <3> QED
      BY <1>2, <3>1 DEF ReadPool
  <2>3. seen' \in [Requests -> [Accounts -> Row]]
    BY <1>2, <2>2 DEF ReadPool, TypeOK
  <2> QED
    BY <1>2, <2>1, <2>2, <2>3 DEF ReadPool, TypeOK
<1>3. ASSUME NEW r \in Requests, ReadPoolError(r) \/ GiveUp(r) PROVE TypeOK'
  BY <1>3, ReturnType DEF ReadPoolError, GiveUp, TypeOK
<1>4. ASSUME NEW r \in Requests, Reserve(r) PROVE TypeOK'
  <2>1. phase' \in [Requests -> Phases]
    BY <1>4, GotoType DEF Reserve, Phases
  <2>2. PICK a \in Accounts :
           /\ inflight' = [inflight EXCEPT ![a] = @ + 1]
           /\ older' = {p \in older : a \notin {p[1], p[2]}} \cup ((Accounts \ {a}) \X {a})
           /\ picks' = [picks EXCEPT ![a] = Append(Prune(@), 0)]
           /\ tried' = [tried EXCEPT ![r] = @ \cup {a}]
           /\ at' = [at EXCEPT ![r] = a]
    BY <1>4 DEF Reserve, Eligible
  <2>3. inflight' \in [Accounts -> Nat]
    BY <2>2 DEF TypeOK
  <2>4. older' \in SUBSET (Accounts \X Accounts)
    BY <2>2 DEF TypeOK
  <2>5. picks' \in [Accounts -> Seq(0..Window)]
    <3>1. Prune(picks[a]) \in Seq(0..Window)
      BY PruneType DEF TypeOK
    <3>2. Append(Prune(picks[a]), 0) \in Seq(0..Window)
      BY <3>1, AppendProperties, ForwarderAssumption
    <3> QED
      BY <2>2, <3>2 DEF TypeOK
  <2>6. tried' \in [Requests -> SUBSET Accounts] /\ at' \in [Requests -> Accounts \cup {None}]
    BY <2>2 DEF TypeOK
  <2> QED
    BY <1>4, <2>1, <2>3, <2>4, <2>5, <2>6 DEF Reserve, TypeOK
<1>5. ASSUME NEW r \in Requests, AskAgain(r) \/ AnswerOK(r) PROVE TypeOK'
  <2>1. phase' \in [Requests -> Phases]
    BY <1>5 DEF AskAgain, AnswerOK, Goto, TypeOK, Phases
  <2> QED
    BY <1>5, <2>1 DEF AskAgain, AnswerOK, TypeOK
<1>6. ASSUME NEW r \in Requests, EndCopy(r) \/ AnswerFinal(r) PROVE TypeOK'
  <2>1. inflight' \in [Accounts -> Nat] /\ Return(r)
    BY <1>6, ReleaseType DEF EndCopy, AnswerFinal
  <2>2. UNCHANGED <<row, settings, cool, older, refreshing, picks, tasks, restarts>>
    BY <1>6 DEF EndCopy, AnswerFinal
  <2> QED
    BY <2>1, <2>2, ReturnType DEF TypeOK
<1>7. ASSUME NEW r \in Requests, AnswerRetry(r) PROVE TypeOK'
  <2> DEFINE stale == seen[r][at[r]].stale
  <2>1. PICK v \in Replies \ {"ok", "timeout", "fatal", "html"} :
           /\ Release(r, v)
           /\ reply' = [reply EXCEPT ![r] = v]
           /\ \E d \in CooldownFor(v, stale) : pause' = [pause EXCEPT ![r] = d]
           /\ phase' = [phase EXCEPT ![r] = AfterAnswer(v, stale)]
    BY <1>7 DEF AnswerRetry
  <2>2. v \in {"broken", "retryable", "auth", "monthly", "quota", "limited"}
    BY <2>1, ForwarderAssumption DEF AllReplies
  <2> HIDE DEF stale
  <2>3. AfterAnswer(v, stale) \in Phases
    BY <2>2 DEF AfterAnswer, Phases
  <2>4. phase' \in [Requests -> Phases]
    BY <2>1, <2>3 DEF TypeOK
  <2>5. CooldownFor(v, stale) \subseteq 0..Longest
    BY <2>2, ForwarderAssumption DEF CooldownFor
  <2>6. pause' \in [Requests -> 0..Longest]
    BY <2>1, <2>5 DEF TypeOK
  <2>7. reply' \in [Requests -> AllReplies \cup {"none"}]
    BY <2>1, <2>2 DEF TypeOK, AllReplies
  <2>8. inflight' \in [Accounts -> Nat]
    BY <2>1, ReleaseType
  <2> QED
    BY <1>7, <2>4, <2>6, <2>7, <2>8 DEF AnswerRetry, TypeOK
<1>8. ASSUME NEW r \in Requests, SaveHold(r) PROVE TypeOK'
  <2>1. phase' \in [Requests -> Phases]
    BY <1>8 DEF SaveHold, Goto, TypeOK, Phases
  <2>2. row' \in [Accounts -> Row]
    <3>1. row \in [Accounts -> Row] /\ pause[r] \in 0..Longest
      BY DEF TypeOK
    <3>2. /\ [row EXCEPT ![at[r]].state = "gone"] \in [Accounts -> Row]
          /\ [row EXCEPT ![at[r]].hold = pause[r]] \in [Accounts -> Row]
      BY <3>1, RowsUpdate
    <3> QED
      BY <1>8, <3>1, <3>2 DEF SaveHold
  <2> QED
    BY <1>8, <2>1, <2>2 DEF SaveHold, TypeOK
<1>9. ASSUME NEW r \in Requests, Cooldown(r) PROVE TypeOK'
  <2>1. phase' \in [Requests -> Phases]
    BY <1>9 DEF Cooldown, Goto, TypeOK, Phases
  <2>2. cool' \in [Accounts -> 0..Longest]
    BY <1>9 DEF Cooldown, TypeOK
  <2> QED
    BY <1>9, <2>1, <2>2 DEF Cooldown, TypeOK
<1>10. ASSUME NEW r \in Requests, RefreshAfter429(r) PROVE TypeOK'
  <2>1. phase' \in [Requests -> Phases]
    BY <1>10 DEF RefreshAfter429, Goto, TypeOK, Phases
  <2>2. refreshing' \in [Accounts -> Nat]
    <3>1. CASE at[r] \in Accounts
      <4>1. refreshing[at[r]] + 1 \in Nat
        BY <3>1 DEF TypeOK
      <4> QED
        BY <1>10, <4>1 DEF RefreshAfter429, TypeOK
    <3>2. CASE at[r] \notin Accounts
      BY <1>10, <3>2 DEF RefreshAfter429, TypeOK
    <3> QED
      BY <3>1, <3>2
  <2>3. task' \in [Requests -> [Accounts -> Tasks]]
    <3>1. [task[r] EXCEPT ![at[r]] = "called"] \in [Accounts -> Tasks]
      BY DEF TypeOK, Tasks
    <3> QED
      BY <1>10, <3>1 DEF RefreshAfter429, TypeOK
  <2> QED
    BY <1>10, <2>1, <2>2, <2>3 DEF RefreshAfter429, TypeOK
<1>11. ASSUME NEW r \in Requests, NEW a \in Accounts, RefreshWait(r, a) PROVE TypeOK'
  <2>1. task' \in [Requests -> [Accounts -> Tasks]]
    BY <1>11 DEF RefreshWait, TypeOK, Tasks
  <2> QED
    BY <1>11, <2>1 DEF RefreshWait, TypeOK
<1>12. ASSUME NEW r \in Requests, NEW a \in Accounts, RefreshBegin(r, a) PROVE TypeOK'
  <2>1. task' \in [Requests -> [Accounts -> Tasks]]
    <3>1. /\ [task[r] EXCEPT ![a] = "fetching"] \in [Accounts -> Tasks]
          /\ [task[r] EXCEPT ![a] = "leaving"] \in [Accounts -> Tasks]
      BY DEF TypeOK, Tasks
    <3> QED
      BY <1>12, <3>1 DEF RefreshBegin, TypeOK
  <2>2. row' \in [Accounts -> Row]
    <3>1. row \in [Accounts -> Row]
      BY DEF TypeOK
    <3>2. [row EXCEPT ![a].state = "gone"] \in [Accounts -> Row]
      BY <3>1, RowsUpdate
    <3> QED
      BY <1>12, <3>1, <3>2 DEF RefreshBegin
  <2>3. prev' \in [Requests -> [Accounts -> Row]]
    <3>1. [prev[r] EXCEPT ![a] = row[a]] \in [Accounts -> Row]
      BY DEF TypeOK
    <3> QED
      BY <1>12, <3>1 DEF RefreshBegin, TypeOK
  <2> QED
    BY <1>12, <2>1, <2>2, <2>3 DEF RefreshBegin, TypeOK
<1>13. ASSUME NEW r \in Requests, NEW a \in Accounts, RefreshEnd(r, a) PROVE TypeOK'
  <2>1. task' \in [Requests -> [Accounts -> Tasks]]
    <3>1. ASSUME NEW t \in [Accounts -> Tasks] PROVE Wake(a, t) \in [Accounts -> Tasks]
      BY DEF Wake, Tasks
    <3>2. [task[r] EXCEPT ![a] = "leaving"] \in [Accounts -> Tasks]
      BY DEF TypeOK, Tasks
    <3> QED
      BY <1>13, <3>1, <3>2 DEF RefreshEnd, TypeOK
  <2>2. Fetched(prev[r][a]) \cup FetchFailed(a, prev[r][a]) \subseteq Row
    <3>1. prev[r][a] \in Row /\ row[a] \in Row
      BY DEF TypeOK
    <3>2. ASSUME NEW x \in Row, NEW s \in {"paid", "unpaid", "gone"}, NEW e \in BOOLEAN
          PROVE  [x EXCEPT !.state = s, !.stale = e] \in Row
      BY Zenon DEF Row
    <3>3. Fetched(prev[r][a]) \subseteq Row
      BY DEF Fetched
    <3>4. FetchFailed(a, prev[r][a]) \subseteq Row
      <4>1. row[a].state \in {"paid", "unpaid", "gone"}
        BY <3>1 DEF Row
      <4>2. \A s \in {"paid", "unpaid", "gone"}, e \in BOOLEAN :
               [prev[r][a] EXCEPT !.state = s, !.stale = e] \in Row
        BY <3>1, <3>2
      <4>3. \A e \in BOOLEAN :
               [prev[r][a] EXCEPT !.state = row[a].state, !.stale = e] \in Row
        BY <4>1, <4>2, Zenon
      <4> QED
        BY <4>3, Zenon DEF FetchFailed
    <3> QED
      BY <3>3, <3>4
  <2>3. row' \in [Accounts -> Row]
    BY <1>13, <2>2 DEF RefreshEnd, TypeOK
  <2>4. prev' \in [Requests -> [Accounts -> Row]]
    BY <1>13, NoRowsType DEF RefreshEnd, TypeOK
  <2> QED
    BY <1>13, <2>1, <2>3, <2>4 DEF RefreshEnd, TypeOK
<1>14. ASSUME NEW r \in Requests, NEW a \in Accounts, RefreshLeave(r, a) PROVE TypeOK'
  <2>1. task' \in [Requests -> [Accounts -> Tasks]]
    BY <1>14 DEF RefreshLeave, TypeOK, Tasks
  <2>2. refreshing' \in [Accounts -> Nat]
    BY <1>14 DEF RefreshLeave, Unhold, TypeOK
  <2> QED
    BY <1>14, <2>1, <2>2 DEF RefreshLeave, TypeOK
<1>15. CASE Tick
  <2>1. row' \in [Accounts -> Row]
    BY <1>15, RowsType DEF Tick, TypeOK
  <2>2. seen' \in [Requests -> [Accounts -> Row]] /\ prev' \in [Requests -> [Accounts -> Row]]
    BY <1>15, RowsType DEF Tick, TypeOK
  <2>3. cool' \in [Accounts -> 0..Longest]
    BY <1>15, ForwarderAssumption DEF Tick, Less, TypeOK
  <2>4. picks' \in [Accounts -> Seq(0..Window)]
    BY <1>15, AgeType DEF Tick, TypeOK
  <2> QED
    BY <1>15, <2>1, <2>2, <2>3, <2>4 DEF Tick, TypeOK
<1>16. ASSUME NEW a \in Accounts, MonthEnds(a) PROVE TypeOK'
  <2>1. ASSUME NEW rows \in [Accounts -> Row]
        PROVE  [rows EXCEPT ![a].spent = TRUE] \in [Accounts -> Row]
    BY <2>1, RowsUpdate
  <2>2. row' \in [Accounts -> Row]
    BY <1>16, <2>1 DEF MonthEnds, TypeOK
  <2>3. seen' \in [Requests -> [Accounts -> Row]]
    BY <1>16, <2>1 DEF MonthEnds, TypeOK
  <2> QED
    BY <1>16, <2>2, <2>3 DEF MonthEnds, TypeOK
<1>17. ASSUME NEW a \in Accounts, EditAccount(a) PROVE TypeOK'
  <2>1. row \in [Accounts -> Row] /\ (~row[a].stale) \in BOOLEAN
    BY DEF TypeOK
  <2>2. [row EXCEPT ![a].state = "gone"] \in [Accounts -> Row]
    BY <2>1, RowsUpdate
  <2>3. [row EXCEPT ![a].stale = ~@] \in [Accounts -> Row]
    BY <2>1, RowsUpdate
  <2>4. row' \in [Accounts -> Row]
    BY <1>17, <2>2, <2>3 DEF EditAccount
  <2> QED
    BY <1>17, <2>4 DEF EditAccount, TypeOK
<1>18. CASE SaveSettings
  BY <1>18 DEF SaveSettings, TypeOK
<1>19. CASE Restart
  <2>1. phase' \in [Requests -> Phases] /\ reply' \in [Requests -> AllReplies \cup {"none"}]
    BY <1>19 DEF Restart, TypeOK, Phases
  <2>2. seen' \in [Requests -> [Accounts -> Row]] /\ prev' \in [Requests -> [Accounts -> Row]]
    BY <1>19, NoRowsType DEF Restart
  <2>3. tried' \in [Requests -> SUBSET Accounts] /\ at' \in [Requests -> Accounts \cup {None}]
    BY <1>19 DEF Restart
  <2>4. cool' \in [Accounts -> 0..Longest] /\ pause' \in [Requests -> 0..Longest]
    BY <1>19, ForwarderAssumption DEF Restart, ResetBalancer
  <2>5. inflight' \in [Accounts -> Nat] /\ refreshing' \in [Accounts -> Nat]
    BY <1>19 DEF Restart, ResetBalancer
  <2>6. older' \in SUBSET (Accounts \X Accounts) /\ picks' \in [Accounts -> Seq(0..Window)]
    BY <1>19, EmptySeq DEF Restart, ResetBalancer
  <2>7. task' \in [Requests -> [Accounts -> Tasks]]
    BY <1>19 DEF Restart, Tasks
  <2>8. restarts' \in 0..MaxRestarts
    <3>1. restarts \in 0..MaxRestarts
      BY DEF TypeOK
    <3> QED
      BY <1>19, <3>1, ForwarderAssumption DEF Restart
  <2> QED
    BY <1>19, <2>1, <2>2, <2>3, <2>4, <2>5, <2>6, <2>7, <2>8 DEF Restart, TypeOK
<1>20. CASE UNCHANGED vars
  BY <1>20 DEF vars, TypeOK
<1> QED
  BY <1>1, <1>2, <1>3, <1>4, <1>5, <1>6, <1>7, <1>8, <1>9, <1>10, <1>11, <1>12,
     <1>13, <1>14, <1>15, <1>16, <1>17, <1>18, <1>19, <1>20
     DEF Next, ProxyNext, OutsideNext, RequestStep, TaskStep

(* Type correctness of the forwarding proxy.                               *)
THEOREM TypeCorrect == Spec => []TypeOK
BY InitTypeOK, NextTypeOK, PTL DEF Spec

-----------------------------------------------------------------------------
(* The inductive invariant.  The two counters alone are not inductive: end *)
(* never goes below zero, and a second goroutine of the same request for   *)
(* the same account would be counted twice and seen once.                  *)

UsersMatch ==
    \A a \in Accounts : IsFiniteSet(Users(a)) /\ inflight[a] = Cardinality(Users(a))

RefreshersMatch ==
    \A a \in Accounts :
        IsFiniteSet(Refreshers(a)) /\ refreshing[a] = Cardinality(Refreshers(a))

(* The request has asked at[r] and has not moved on from the answer.       *)
Chosen == Asking \cup {"ended", "cooling", "holding"}

AtMatches ==
    \A r \in Requests :
        phase[r] \in Chosen =>
            at[r] \in Accounts /\ at[r] \in tried[r] /\ task[r][at[r]] = "none"

TaskMatches ==
    \A r \in Requests, a \in Accounts :
        task[r][a] # "none" => a \in tried[r] \/ phase[r] = "done"

IInv == TypeOK /\ UsersMatch /\ RefreshersMatch /\ AtMatches /\ TaskMatches

LEMMA InitIInv == Init => IInv
<1> SUFFICES ASSUME Init PROVE IInv
  OBVIOUS
<1>1. TypeOK
  BY InitTypeOK
<1>2. UsersMatch
  <2>1. \A a \in Accounts : Users(a) = {}
    BY DEF Init, Users, Asking
  <2> QED
    BY <2>1, FS_EmptySet DEF Init, UsersMatch
<1>3. RefreshersMatch
  <2>1. \A a \in Accounts : Refreshers(a) = {}
    BY DEF Init, Refreshers
  <2> QED
    BY <2>1, FS_EmptySet DEF Init, RefreshersMatch
<1>4. AtMatches /\ TaskMatches
  BY DEF Init, AtMatches, TaskMatches, Chosen, Asking
<1> QED
  BY <1>1, <1>2, <1>3, <1>4 DEF IInv

(* How a step may change who uses an account.                              *)
LEMMA SameUsers ==
    ASSUME UsersMatch, inflight' = inflight,
           \A q \in Requests : /\ phase'[q] \in Asking <=> phase[q] \in Asking
                               /\ phase[q] \in Asking => at'[q] = at[q]
    PROVE  UsersMatch'
<1>1. \A a \in Accounts : Users(a)' = Users(a)
  BY DEF Users
<1> QED
  BY <1>1 DEF UsersMatch

LEMMA OneMoreUser ==
    ASSUME TypeOK, UsersMatch, NEW r \in Requests, NEW a \in Accounts,
           phase[r] \notin Asking, phase'[r] \in Asking, at'[r] = a,
           \A q \in Requests \ {r} : phase'[q] = phase[q] /\ at'[q] = at[q],
           inflight' = [inflight EXCEPT ![a] = @ + 1]
    PROVE  UsersMatch'
<1>1. Users(a)' = Users(a) \cup {r} /\ r \notin Users(a)
  BY DEF Users
<1>2. \A b \in Accounts \ {a} : Users(b)' = Users(b)
  BY DEF Users
<1>3. IsFiniteSet(Users(a)') /\ Cardinality(Users(a)') = inflight[a] + 1
  BY <1>1, FS_AddElement DEF UsersMatch
<1>4. inflight'[a] = inflight[a] + 1 /\ \A b \in Accounts \ {a} : inflight'[b] = inflight[b]
  BY DEF TypeOK
<1> QED
  BY <1>2, <1>3, <1>4 DEF UsersMatch

LEMMA OneUserLess ==
    ASSUME TypeOK, UsersMatch, NEW r \in Requests, NEW a \in Accounts, at[r] = a,
           phase[r] \in Asking, phase'[r] \notin Asking,
           \A q \in Requests \ {r} : phase'[q] = phase[q] /\ at'[q] = at[q],
           NEW v, Release(r, v)
    PROVE  UsersMatch'
<1>1. Users(a)' = Users(a) \ {r} /\ r \in Users(a)
  BY DEF Users
<1>2. \A b \in Accounts \ {a} : Users(b)' = Users(b)
  BY DEF Users
<1>3. IsFiniteSet(Users(a)') /\ Cardinality(Users(a)') = Cardinality(Users(a)) - 1
  BY <1>1, FS_RemoveElement DEF UsersMatch
<1>4. inflight[a] = Cardinality(Users(a)) /\ inflight[a] \in Nat /\ Cardinality(Users(a)') \in Nat
  BY <1>3, FS_CardinalityType DEF UsersMatch, TypeOK
<1>5. inflight'[a] = inflight[a] - 1 /\ \A b \in Accounts \ {a} : inflight'[b] = inflight[b]
  BY <1>3, <1>4 DEF Release, TypeOK
<1> QED
  BY <1>2, <1>3, <1>4, <1>5 DEF UsersMatch

(* How a step may change who refreshes an account.                         *)
LEMMA SameRefreshers ==
    ASSUME RefreshersMatch, refreshing' = refreshing,
           \A q \in Requests, b \in Accounts : task'[q][b] = "none" <=> task[q][b] = "none"
    PROVE  RefreshersMatch'
<1>1. \A a \in Accounts : Refreshers(a)' = Refreshers(a)
  BY DEF Refreshers
<1> QED
  BY <1>1 DEF RefreshersMatch

LEMMA OneMoreRefresher ==
    ASSUME TypeOK, RefreshersMatch, NEW r \in Requests, NEW a \in Accounts,
           task[r][a] = "none", task' = [task EXCEPT ![r][a] = "called"],
           refreshing' = [refreshing EXCEPT ![a] = @ + 1]
    PROVE  RefreshersMatch'
<1>1. /\ task'[r][a] = "called"
      /\ \A q \in Requests, b \in Accounts : q # r \/ b # a => task'[q][b] = task[q][b]
  BY DEF TypeOK
<1>2. Refreshers(a)' = Refreshers(a) \cup {r} /\ r \notin Refreshers(a)
  BY <1>1 DEF Refreshers
<1>3. \A b \in Accounts \ {a} : Refreshers(b)' = Refreshers(b)
  BY <1>1 DEF Refreshers
<1>4. IsFiniteSet(Refreshers(a)') /\ Cardinality(Refreshers(a)') = refreshing[a] + 1
  BY <1>2, FS_AddElement DEF RefreshersMatch
<1>5. /\ refreshing'[a] = refreshing[a] + 1
      /\ \A b \in Accounts \ {a} : refreshing'[b] = refreshing[b]
  BY DEF TypeOK
<1> QED
  BY <1>3, <1>4, <1>5 DEF RefreshersMatch

LEMMA OneRefresherLess ==
    ASSUME TypeOK, RefreshersMatch, NEW r \in Requests, NEW a \in Accounts,
           task[r][a] # "none", task' = [task EXCEPT ![r][a] = "none"], Unhold(a)
    PROVE  RefreshersMatch'
<1>1. /\ task'[r][a] = "none"
      /\ \A q \in Requests, b \in Accounts : q # r \/ b # a => task'[q][b] = task[q][b]
  BY DEF TypeOK
<1>2. Refreshers(a)' = Refreshers(a) \ {r} /\ r \in Refreshers(a)
  BY <1>1 DEF Refreshers
<1>3. \A b \in Accounts \ {a} : Refreshers(b)' = Refreshers(b)
  BY <1>1 DEF Refreshers
<1>4. IsFiniteSet(Refreshers(a)') /\ Cardinality(Refreshers(a)') = Cardinality(Refreshers(a)) - 1
  BY <1>2, FS_RemoveElement DEF RefreshersMatch
<1>5. /\ refreshing[a] = Cardinality(Refreshers(a)) /\ refreshing[a] \in Nat
      /\ Cardinality(Refreshers(a)') \in Nat
  BY <1>4, FS_CardinalityType DEF RefreshersMatch, TypeOK
<1>6. /\ refreshing'[a] = refreshing[a] - 1
      /\ \A b \in Accounts \ {a} : refreshing'[b] = refreshing[b]
  BY <1>4, <1>5 DEF Unhold, TypeOK
<1> QED
  BY <1>3, <1>4, <1>5, <1>6 DEF RefreshersMatch

(* A request that moves between two phases outside reserve and end.        *)
LEMMA MovePreserves ==
    ASSUME IInv, TypeOK', NEW r \in Requests,
           UNCHANGED <<inflight, refreshing, at, tried, task>>,
           \A q \in Requests \ {r} : phase'[q] = phase[q],
           phase[r] # "done",
           phase'[r] \in Asking <=> phase[r] \in Asking,
           phase'[r] \in Chosen => phase[r] \in Chosen
    PROVE  IInv'
<1>1. UsersMatch'
  BY SameUsers DEF IInv
<1>2. RefreshersMatch'
  BY SameRefreshers DEF IInv
<1>3. AtMatches' /\ TaskMatches'
  BY DEF IInv, AtMatches, TaskMatches
<1> QED
  BY <1>1, <1>2, <1>3 DEF IInv

(* A request that returns from ServeHTTP keeps its goroutines.             *)
LEMMA ReturnMatches ==
    ASSUME IInv, NEW r \in Requests, Return(r), UNCHANGED task
    PROVE  AtMatches' /\ TaskMatches'
<1>1. /\ phase'[r] = "done"
      /\ \A q \in Requests \ {r} :
            phase'[q] = phase[q] /\ at'[q] = at[q] /\ tried'[q] = tried[q]
  BY DEF Return, IInv, TypeOK
<1> QED
  BY <1>1 DEF IInv, AtMatches, TaskMatches, Chosen, Asking

(* A step that leaves the requests and their accounts alone.               *)
LEMMA TaskPreserves ==
    ASSUME IInv, TypeOK', RefreshersMatch',
           UNCHANGED <<phase, at, tried, inflight>>,
           \A q \in Requests, b \in Accounts : task[q][b] = "none" => task'[q][b] = "none"
    PROVE  IInv'
<1>1. UsersMatch'
  BY SameUsers DEF IInv
<1>2. AtMatches' /\ TaskMatches'
  BY DEF IInv, AtMatches, TaskMatches
<1> QED
  BY <1>1, <1>2 DEF IInv

LEMMA NextIInv == IInv /\ [Next]_vars => IInv'
<1> SUFFICES ASSUME IInv, [Next]_vars PROVE IInv'
  OBVIOUS
<1>0. TypeOK /\ TypeOK'
  BY NextTypeOK DEF IInv
<1> USE DEF balancer, local, tasks
<1>1. ASSUME NEW r \in Requests,
             Receive(r) \/ ReadPool(r) \/ AskAgain(r) \/ AnswerOK(r) \/ SaveHold(r) \/ Cooldown(r)
      PROVE  IInv'
  <2>1. UNCHANGED <<inflight, refreshing, at, tried, task>>
    BY <1>1 DEF Receive, ReadPool, AskAgain, AnswerOK, SaveHold, Cooldown
  <2>2. /\ phase[r] # "done" /\ \A q \in Requests \ {r} : phase'[q] = phase[q]
        /\ phase'[r] \in Asking <=> phase[r] \in Asking
        /\ phase'[r] \in Chosen => phase[r] \in Chosen
    BY <1>0, <1>1 DEF Receive, ReadPool, AskAgain, AnswerOK, SaveHold, Cooldown, Goto,
                      TypeOK, Asking, Chosen
  <2> QED
    BY <1>0, <2>1, <2>2, MovePreserves
<1>2. ASSUME NEW r \in Requests, ReadPoolError(r) \/ GiveUp(r)
      PROVE  IInv'
  <2>1. Return(r) /\ UNCHANGED <<inflight, refreshing, task>> /\ phase[r] \notin Asking
    BY <1>2 DEF ReadPoolError, GiveUp, Asking
  <2>2. UsersMatch'
    <3>1. \A q \in Requests : /\ phase'[q] \in Asking <=> phase[q] \in Asking
                              /\ phase[q] \in Asking => at'[q] = at[q]
      BY <1>0, <2>1 DEF Return, TypeOK, Asking
    <3> QED
      BY <2>1, <3>1, SameUsers DEF IInv
  <2>3. RefreshersMatch'
    BY <2>1, SameRefreshers DEF IInv
  <2> QED
    BY <1>0, <2>1, <2>2, <2>3, ReturnMatches DEF IInv
<1>3. ASSUME NEW r \in Requests, Reserve(r)
      PROVE  IInv'
  <2>1. PICK a \in Accounts :
           /\ a \notin tried[r]
           /\ inflight' = [inflight EXCEPT ![a] = @ + 1]
           /\ tried' = [tried EXCEPT ![r] = @ \cup {a}]
           /\ at' = [at EXCEPT ![r] = a]
    BY <1>3 DEF Reserve, Eligible
  <2>2. /\ phase[r] = "picking" /\ phase'[r] = "upstream" /\ at'[r] = a
        /\ tried'[r] = tried[r] \cup {a}
        /\ \A q \in Requests \ {r} :
              phase'[q] = phase[q] /\ at'[q] = at[q] /\ tried'[q] = tried[q]
        /\ UNCHANGED <<refreshing, task>>
    BY <1>0, <1>3, <2>1 DEF Reserve, Goto, TypeOK
  <2>3. UsersMatch'
    BY <1>0, <2>1, <2>2, OneMoreUser DEF IInv, Asking
  <2>4. RefreshersMatch'
    BY <2>2, SameRefreshers DEF IInv
  <2>5. task[r][a] = "none"
    BY <2>1, <2>2 DEF IInv, TaskMatches
  <2>6. AtMatches' /\ TaskMatches'
    BY <2>2, <2>5 DEF IInv, AtMatches, TaskMatches
  <2> QED
    BY <1>0, <2>3, <2>4, <2>6 DEF IInv
<1>4. ASSUME NEW r \in Requests, EndCopy(r) \/ AnswerFinal(r)
      PROVE  IInv'
  <2>1. PICK v : Release(r, v)
    BY <1>4 DEF EndCopy, AnswerFinal
  <2>2. Return(r) /\ UNCHANGED <<refreshing, task>> /\ phase[r] \in Asking
    BY <1>4 DEF EndCopy, AnswerFinal, Asking
  <2>3. PICK a \in Accounts : at[r] = a
    BY <2>2 DEF IInv, AtMatches, Chosen
  <2>4. UsersMatch'
    <3>1. /\ phase'[r] \notin Asking
          /\ \A q \in Requests \ {r} : phase'[q] = phase[q] /\ at'[q] = at[q]
      BY <1>0, <2>2 DEF Return, TypeOK, Asking
    <3> QED
      BY <1>0, <2>1, <2>2, <2>3, <3>1, OneUserLess DEF IInv
  <2>5. RefreshersMatch'
    BY <2>2, SameRefreshers DEF IInv
  <2> QED
    BY <1>0, <2>2, <2>4, <2>5, ReturnMatches DEF IInv
<1>5. ASSUME NEW r \in Requests, AnswerRetry(r)
      PROVE  IInv'
  <2> DEFINE stale == seen[r][at[r]].stale
  <2>1. PICK v \in Replies \ {"ok", "timeout", "fatal", "html"} :
           Release(r, v) /\ phase' = [phase EXCEPT ![r] = AfterAnswer(v, stale)]
    BY <1>5 DEF AnswerRetry
  <2>2. v \in {"broken", "retryable", "auth", "monthly", "quota", "limited"}
    BY <2>1, ForwarderAssumption DEF AllReplies
  <2> HIDE DEF stale
  <2>3. AfterAnswer(v, stale) \in {"picking", "ended", "cooling", "holding"}
    BY <2>2 DEF AfterAnswer
  <2>4. /\ phase[r] \in Asking /\ phase'[r] \in {"picking", "ended", "cooling", "holding"}
        /\ \A q \in Requests \ {r} : phase'[q] = phase[q]
        /\ UNCHANGED <<refreshing, at, tried, task>>
    BY <1>0, <1>5, <2>1, <2>3 DEF AnswerRetry, TypeOK, Asking
  <2>5. PICK a \in Accounts : at[r] = a
    BY <2>4 DEF IInv, AtMatches, Chosen
  <2>6. UsersMatch'
    BY <1>0, <2>1, <2>4, <2>5, OneUserLess DEF IInv, Asking
  <2>7. RefreshersMatch'
    BY <2>4, SameRefreshers DEF IInv
  <2>8. AtMatches' /\ TaskMatches'
    BY <2>4 DEF IInv, AtMatches, TaskMatches, Chosen, Asking
  <2> QED
    BY <1>0, <2>6, <2>7, <2>8 DEF IInv
<1>6. ASSUME NEW r \in Requests, RefreshAfter429(r)
      PROVE  IInv'
  <2>1. /\ phase[r] = "holding" /\ phase'[r] = "picking"
        /\ \A q \in Requests \ {r} : phase'[q] = phase[q]
        /\ UNCHANGED <<inflight, at, tried>>
    BY <1>0, <1>6 DEF RefreshAfter429, Goto, TypeOK
  <2>2. PICK a \in Accounts : at[r] = a /\ task[r][a] = "none"
    BY <2>1 DEF IInv, AtMatches, Chosen
  <2>3. /\ task' = [task EXCEPT ![r][a] = "called"]
        /\ refreshing' = [refreshing EXCEPT ![a] = @ + 1]
    BY <1>6, <2>2 DEF RefreshAfter429
  <2>4. RefreshersMatch'
    BY <1>0, <2>2, <2>3, OneMoreRefresher DEF IInv
  <2>5. UsersMatch'
    BY <2>1, SameUsers DEF IInv, Asking
  <2>6. a \in tried[r]
    BY <2>1, <2>2 DEF IInv, AtMatches, Chosen
  <2>7. \A q \in Requests, b \in Accounts :
           (q = r /\ b = a) \/ task'[q][b] = task[q][b]
    BY <1>0, <2>3 DEF TypeOK
  <2>8. \A q \in Requests \ {r} : at[q] \in Accounts => task'[q][at[q]] = task[q][at[q]]
    BY <2>7
  <2>9. AtMatches' /\ TaskMatches'
    BY <2>1, <2>6, <2>7, <2>8 DEF IInv, AtMatches, TaskMatches, Chosen, Asking
  <2> QED
    BY <1>0, <2>4, <2>5, <2>9 DEF IInv
<1>7. ASSUME NEW r \in Requests, NEW a \in Accounts,
             RefreshWait(r, a) \/ RefreshBegin(r, a) \/ RefreshEnd(r, a)
      PROVE  IInv'
  <2>1. UNCHANGED <<phase, at, tried, inflight, refreshing>>
    BY <1>7 DEF RefreshWait, RefreshBegin, RefreshEnd
  <2>2. \A q \in Requests, b \in Accounts : task'[q][b] = "none" <=> task[q][b] = "none"
    <3>1. CASE RefreshWait(r, a) \/ RefreshBegin(r, a)
      <4>1. PICK t \in {"waiting", "fetching", "leaving"} :
               task' = [task EXCEPT ![r][a] = t]
        <5>1. RefreshWait(r, a) => task' = [task EXCEPT ![r][a] = "waiting"]
          BY Zenon DEF RefreshWait
        <5>2. RefreshBegin(r, a) => \/ task' = [task EXCEPT ![r][a] = "fetching"]
                                   \/ task' = [task EXCEPT ![r][a] = "leaving"]
          BY Zenon DEF RefreshBegin
        <5> QED
          BY <3>1, <5>1, <5>2, Zenon
      <4>2. task[r][a] = "called"
        BY <3>1 DEF RefreshWait, RefreshBegin
      <4>3. \A q \in Requests, b \in Accounts :
               task'[q][b] = IF q = r /\ b = a THEN t ELSE task[q][b]
        <5>1. task \in [Requests -> [Accounts -> Tasks]]
          BY <1>0 DEF TypeOK
        <5>2. \A q \in Requests : task[q] \in [Accounts -> Tasks]
          BY <5>1
        <5>3. \A q \in Requests :
                 task'[q] = IF q = r THEN [task[r] EXCEPT ![a] = t] ELSE task[q]
          BY <4>1, <5>1
        <5> QED
          BY <5>2, <5>3
      <4>4. t # "none"
        OBVIOUS
      <4> QED
        BY <4>2, <4>3, <4>4
    <3>2. CASE RefreshEnd(r, a)
      <4>1. ASSUME NEW t \in [Accounts -> Tasks], NEW b \in Accounts
            PROVE  Wake(a, t)[b] = "none" <=> t[b] = "none"
        BY DEF Wake
      <4>2. ASSUME NEW q \in Requests
            PROVE  task'[q] = Wake(a, IF q = r THEN [task[r] EXCEPT ![a] = "leaving"] ELSE task[q])
        BY <3>2 DEF RefreshEnd
      <4>3. /\ task[r][a] = "fetching" /\ \A q \in Requests : task[q] \in [Accounts -> Tasks]
            /\ [task[r] EXCEPT ![a] = "leaving"] \in [Accounts -> Tasks]
        BY <1>0, <3>2 DEF RefreshEnd, TypeOK, Tasks
      <4> QED
        BY <4>1, <4>2, <4>3
    <3> QED
      BY <1>7, <3>1, <3>2
  <2>3. RefreshersMatch'
    BY <2>1, <2>2, SameRefreshers DEF IInv
  <2> QED
    BY <1>0, <2>1, <2>2, <2>3, TaskPreserves
<1>8. ASSUME NEW r \in Requests, NEW a \in Accounts, RefreshLeave(r, a)
      PROVE  IInv'
  <2>1. UNCHANGED <<phase, at, tried, inflight>>
    BY <1>8 DEF RefreshLeave
  <2>2. RefreshersMatch'
    BY <1>0, <1>8, OneRefresherLess DEF RefreshLeave, IInv
  <2>3. \A q \in Requests, b \in Accounts : task[q][b] = "none" => task'[q][b] = "none"
    BY <1>0, <1>8 DEF RefreshLeave, TypeOK
  <2> QED
    BY <1>0, <2>1, <2>2, <2>3, TaskPreserves
<1>9. ASSUME UNCHANGED <<phase, at, tried, inflight, refreshing, task>>
      PROVE  IInv'
  <2>1. RefreshersMatch'
    BY <1>9, SameRefreshers DEF IInv
  <2> QED
    BY <1>0, <1>9, <2>1, TaskPreserves
<1>10. ASSUME NEW a \in Accounts, MonthEnds(a) \/ EditAccount(a)
       PROVE  IInv'
  BY <1>9, <1>10 DEF MonthEnds, EditAccount
<1>11. CASE Tick \/ SaveSettings \/ UNCHANGED vars
  BY <1>9, <1>11 DEF Tick, SaveSettings, vars
<1>12. CASE Restart
  <2>1. UsersMatch'
    <3>1. \A a \in Accounts : Users(a)' = {} /\ inflight'[a] = 0
      BY <1>12 DEF Restart, ResetBalancer, Users, Asking
    <3> QED
      BY <3>1, FS_EmptySet DEF UsersMatch
  <2>2. RefreshersMatch'
    <3>1. \A a \in Accounts : Refreshers(a)' = {} /\ refreshing'[a] = 0
      BY <1>12 DEF Restart, ResetBalancer, Refreshers
    <3> QED
      BY <3>1, FS_EmptySet DEF RefreshersMatch
  <2>3. AtMatches' /\ TaskMatches'
    BY <1>12 DEF Restart, AtMatches, TaskMatches, Chosen, Asking
  <2> QED
    BY <1>0, <2>1, <2>2, <2>3 DEF IInv
<1> QED
  BY <1>1, <1>2, <1>3, <1>4, <1>5, <1>6, <1>7, <1>8, <1>10, <1>11, <1>12
     DEF Next, ProxyNext, OutsideNext, RequestStep, TaskStep

(* The inductive invariant holds in every reachable state.                 *)
THEOREM RecordsAgree == Spec => []IInv
BY InitIInv, NextIInv, PTL DEF Spec

(* inflight is the number of requests that use the account, on every path. *)
THEOREM InflightCounts == Spec => []InflightIsExact
<1>1. IInv => InflightIsExact
  BY DEF IInv, UsersMatch, InflightIsExact
<1> QED
  BY <1>1, RecordsAgree, PTL

(* The hold lasts as long as one refresh goroutine of the account exists.  *)
THEOREM HoldCounts == Spec => []HoldIsExact
<1>1. IInv => HoldIsExact
  BY DEF IInv, RefreshersMatch, HoldIsExact
<1> QED
  BY <1>1, RecordsAgree, PTL

(* Only reserve sends a request to an account, and only to an eligible one *)
(* that ranks first.                                                       *)
LEMMA PickedIsEligible ==
    ASSUME TypeOK, Next, NEW r \in Requests, NEW a \in Accounts, Picked(r, a)
    PROVE  a \in Eligible(r) /\ RanksFirst(a, Eligible(r))
<1> DEFINE First == a \in Eligible(r) /\ RanksFirst(a, Eligible(r))
<1> USE DEF balancer, local, tasks
<1>1. ASSUME NEW q \in Requests, Reserve(q)
      PROVE  First
  <2>1. PICK b \in Eligible(q) : /\ RanksFirst(b, Eligible(q))
                                /\ tried' = [tried EXCEPT ![q] = @ \cup {b}]
    BY <1>1 DEF Reserve
  <2>2. q = r /\ b = a
    BY <2>1 DEF TypeOK, Picked
  <2> QED
    BY <2>1, <2>2
<1>2. ASSUME tried'[r] \in {{}, tried[r]}
      PROVE  First
  BY <1>2 DEF Picked
<1>3. ASSUME NEW q \in Requests, Return(q)
      PROVE  First
  BY <1>2, <1>3 DEF Return, TypeOK
<1>4. ASSUME NEW q \in Requests, Receive(q) \/ RequestStep(q)
      PROVE  First
  <2>1. \/ Reserve(q) \/ Return(q) \/ tried' = tried
    BY <1>4 DEF Receive, RequestStep, ReadPool, ReadPoolError, GiveUp, AskAgain, AnswerOK,
                EndCopy, AnswerFinal, AnswerRetry, SaveHold, Cooldown, RefreshAfter429
  <2> QED
    BY <1>1, <1>2, <1>3, <2>1
<1>5. ASSUME NEW q \in Requests, NEW b \in Accounts, TaskStep(q, b)
      PROVE  First
  BY <1>2, <1>5 DEF TaskStep, RefreshWait, RefreshBegin, RefreshEnd, RefreshLeave
<1>6. ASSUME NEW b \in Accounts, MonthEnds(b) \/ EditAccount(b)
      PROVE  First
  BY <1>2, <1>6 DEF MonthEnds, EditAccount
<1>7. CASE Tick \/ SaveSettings \/ Restart
  BY <1>2, <1>7 DEF Tick, SaveSettings, Restart
<1> QED
  BY <1>4, <1>5, <1>6, <1>7 DEF Next, ProxyNext, OutsideNext

(* A request that is sent to an account finds no refresh of it running.    *)
THEOREM NoPickDuringRefresh == Spec => RefreshKeepsOut
<1> DEFINE Kept == \A r \in Requests, a \in Accounts :
                      Picked(r, a) => \A q \in Requests : task[q][a] = "none"
<1>1. IInv /\ [Next]_vars => [Kept]_vars
  <2> SUFFICES ASSUME IInv, Next, NEW r \in Requests, NEW a \in Accounts, Picked(r, a)
               PROVE  \A q \in Requests : task[q][a] = "none"
    BY Zenon
  <2>1. a \in Eligible(r)
    BY PickedIsEligible DEF IInv
  <2>2. refreshing[a] = 0
    BY <2>1 DEF Eligible
  <2>3. Cardinality(Refreshers(a)) = 0 /\ IsFiniteSet(Refreshers(a))
    BY <2>2 DEF IInv, RefreshersMatch
  <2>4. Refreshers(a) = {}
    BY <2>3, FS_EmptySet
  <2> QED
    BY <2>4 DEF Refreshers
<1> QED
  BY <1>1, RecordsAgree, PTL DEF Spec, RefreshKeepsOut

(* A request shares an account only when every account it could use is in  *)
(* use by at least as many requests: the counter the accounts are ranked   *)
(* by is exact when it is read.                                            *)
THEOREM LeastBusyIsPicked == Spec => LeastBusyFirst
<1> DEFINE LeastBusy == \A r \in Requests, a \in Accounts :
                           Picked(r, a) => \A b \in Eligible(r) :
                                              Cardinality(Users(a)) <= Cardinality(Users(b))
<1>1. IInv /\ [Next]_vars => [LeastBusy]_vars
  <2> SUFFICES ASSUME IInv, Next, NEW r \in Requests, NEW a \in Accounts, Picked(r, a),
                      NEW b \in Eligible(r)
               PROVE  Cardinality(Users(a)) <= Cardinality(Users(b))
    BY Zenon
  <2>1. RanksFirst(a, Eligible(r))
    BY PickedIsEligible DEF IInv
  <2>2. inflight[a] <= inflight[b]
    <3>1. inflight[a] \in Nat /\ inflight[b] \in Nat
      BY DEF Eligible, IInv, TypeOK
    <3>2. inflight[a] < inflight[b] \/ inflight[a] = inflight[b]
      BY <2>1, Zenon DEF RanksFirst
    <3> QED
      BY <3>1, <3>2
  <2>3. inflight[a] = Cardinality(Users(a)) /\ inflight[b] = Cardinality(Users(b))
    BY DEF IInv, UsersMatch, Eligible
  <2> QED
    BY <2>2, <2>3
<1> QED
  BY <1>1, RecordsAgree, PTL DEF Spec, LeastBusyFirst

-----------------------------------------------------------------------------
(* The window of an account, oldest entry first.                           *)
Sorted(s) == \A i, j \in DOMAIN s : i < j => s[j] <= s[i]

Young(s, t) == {i \in DOMAIN s : s[i] < t}

(* The requests that asked the account less than t ticks ago.              *)
Recent(a, t) == {q \in Requests : asked[a][q] < t}

(* The sizes of the two parts of an interval.                              *)
LEMMA TailSize ==
    ASSUME NEW a \in Nat, NEW b \in Nat, a <= b
    PROVE  Cardinality((a + 1)..b) = b - a /\ Cardinality(1..a) = a
<1>1. a + 1 \in Int /\ b \in Int /\ 1 \in Int /\ a \in Int
  OBVIOUS
<1>2. Cardinality((a + 1)..b) = IF a + 1 > b THEN 0 ELSE b - (a + 1) + 1
  BY <1>1, FS_Interval
<1>3. Cardinality(1..a) = IF 1 > a THEN 0 ELSE a - 1 + 1
  BY <1>1, FS_Interval
<1> QED
  BY <1>2, <1>3

(* The young entries of a sorted window are its tail.                      *)
LEMMA YoungIsTail ==
    ASSUME NEW s \in Seq(0..Window), Sorted(s), NEW t \in Nat
    PROVE  \E m \in 0..Len(s) : /\ Young(s, t) = (m + 1)..Len(s)
                                /\ {i \in DOMAIN s : s[i] >= t} = 1..m
<1> DEFINE n == Len(s)
           D == {i \in DOMAIN s : s[i] >= t}
<1>1. n \in Nat /\ DOMAIN s = 1..n /\ \A i \in 1..n : s[i] \in 0..Window
  BY LenProperties, ElementOfSeq
<1>2. CASE D = {}
  <2>1. Young(s, t) = (0 + 1)..n
    BY <1>1, <1>2 DEF Young
  <2> QED
    BY <1>1, <1>2, <2>1
<1>3. CASE D # {}
  <2>1. D \in SUBSET (0..n)
    BY <1>1
  <2>2. PICK m \in D : \A i \in D : i <= m
    <3> HIDE DEF D, n
    <3> QED
      BY <1>1, <1>3, <2>1, Greatest
  <2>3. m \in 1..n /\ s[m] >= t
    BY <1>1, <2>2
  <2>4. ASSUME NEW i \in 1..n PROVE i \in D <=> i <= m
    <3>1. i <= m => s[m] <= s[i]
      BY <1>1, <2>3 DEF Sorted
    <3>2. i <= m => s[i] >= t
      BY <1>1, <2>3, <3>1, ForwarderAssumption
    <3> QED
      BY <1>1, <2>2, <3>2
  <2>5. D = 1..m
    BY <1>1, <2>3, <2>4
  <2>6. Young(s, t) = (m + 1)..n
    <3>1. \A i \in 1..n : s[i] < t <=> i \notin D
      BY <1>1, ForwarderAssumption
    <3> QED
      BY <1>1, <2>3, <2>5, <3>1 DEF Young
  <2> QED
    BY <1>1, <2>3, <2>5, <2>6
<1> QED
  BY <1>2, <1>3

(* Pruning drops the entries that have left the window, and no other.      *)
LEMMA PruneKeeps ==
    ASSUME NEW s \in Seq(0..Window), Sorted(s)
    PROVE  /\ Sorted(Prune(s))
           /\ Len(Prune(s)) = Cardinality(Young(s, Window))
           /\ \A t \in 0..Window :
                 Cardinality(Young(Prune(s), t)) = Cardinality(Young(s, t))
<1> DEFINE n == Len(s)
           p == Prune(s)
<1>0. Window \in Nat
  BY ForwarderAssumption
<1>1. n \in Nat /\ DOMAIN s = 1..n /\ \A i \in 1..n : s[i] \in 0..Window
  BY LenProperties, ElementOfSeq
<1>2. PICK k \in 0..n : /\ Young(s, Window) = (k + 1)..n
                        /\ {i \in DOMAIN s : s[i] >= Window} = 1..k
  BY <1>0, YoungIsTail
<1>3. Cardinality(1..k) = k /\ Cardinality((k + 1)..n) = n - k
  <2>1. k \in Nat /\ n \in Nat /\ k <= n
    BY <1>1
  <2> HIDE DEF n
  <2> QED
    BY <2>1, TailSize
<1>4. p = SubSeq(s, k + 1, n)
  BY <1>2, <1>3 DEF Prune
<1>5. /\ Len(p) = n - k /\ DOMAIN p = 1..(n - k)
      /\ \A i \in 1..(n - k) : p[i] = s[i + k]
  <2>1. k + 1 \in 1..(n + 1) /\ n \in k..n /\ n - (k + 1) + 1 = n - k /\ k \in Int
    BY <1>1
  <2>2. \A i \in k + 1..n : s[i] \in 0..Window
    BY <1>1
  <2>3. /\ p \in Seq(0..Window)
        /\ Len(p) = n - k
        /\ \A i \in 1..(n - k) : p[i] = s[k + 1 + i - 1]
    <3>1. k + 1 \in Int /\ n \in Int
      BY <1>1
    <3> HIDE DEF n
    <3>2. /\ SubSeq(s, k + 1, n) \in Seq(0..Window)
          /\ Len(SubSeq(s, k + 1, n)) = IF k + 1 <= n THEN n - (k + 1) + 1 ELSE 0
          /\ \A i \in 1..(n - (k + 1) + 1) : SubSeq(s, k + 1, n)[i] = s[k + 1 + i - 1]
      BY <2>2, <3>1, SubSeqProperties
    <3> HIDE DEF p
    <3> QED
      BY <1>1, <1>4, <2>1, <3>2
  <2>4. \A i \in 1..(n - k) : k + 1 + i - 1 = i + k
    BY <1>1
  <2> QED
    BY <2>3, <2>4, LenProperties
<1>6. Sorted(p)
  <2> SUFFICES ASSUME NEW i \in 1..(n - k), NEW j \in 1..(n - k), i < j
               PROVE  p[j] <= p[i]
    BY <1>5 DEF Sorted
  <2>1. i + k \in 1..n /\ j + k \in 1..n /\ i + k < j + k
    BY <1>1, <1>2
  <2> QED
    BY <1>1, <1>5, <2>1 DEF Sorted
<1>7. ASSUME NEW t \in 0..Window
      PROVE  Cardinality(Young(p, t)) = Cardinality(Young(s, t))
  <2>1. PICK m \in 0..n : /\ Young(s, t) = (m + 1)..n
                          /\ {i \in DOMAIN s : s[i] >= t} = 1..m
    <3>1. t \in Nat
      BY <1>0
    <3> QED
      BY <3>1, YoungIsTail
  <2>2. k <= m
    <3>1. CASE k = 0
      BY <2>1, <3>1
    <3>2. CASE k # 0
      <4>1. k \in DOMAIN s /\ s[k] >= Window /\ s[k] >= t
        BY <1>0, <1>1, <1>2, <3>2
      <4> QED
        BY <1>2, <2>1, <4>1
    <3> QED
      BY <3>1, <3>2
  <2>3. ASSUME NEW i \in 1..(n - k)
        PROVE  p[i] < t <=> i \in (m - k + 1)..(n - k)
    <3>1. i + k \in 1..n /\ p[i] = s[i + k]
      BY <1>1, <1>2, <1>5
    <3>2. s[i + k] < t <=> i + k \in (m + 1)..n
      BY <1>1, <2>1, <3>1 DEF Young
    <3> QED
      BY <1>1, <1>2, <2>1, <3>1, <3>2
  <2>4. Young(p, t) = (m - k + 1)..(n - k)
    <3>1. \A i \in (m - k + 1)..(n - k) : i \in 1..(n - k)
      BY <1>1, <2>2
    <3>2. Young(p, t) = {i \in 1..(n - k) : p[i] < t}
      BY <1>5, Zenon DEF Young
    <3> HIDE DEF p, n
    <3> QED
      BY <2>3, <3>1, <3>2
  <2>5. Cardinality((m - k + 1)..(n - k)) = n - m /\ Cardinality((m + 1)..n) = n - m
    <3>1. /\ m - k \in Nat /\ n - k \in Nat /\ m - k <= n - k
          /\ m \in Nat /\ n \in Nat /\ m <= n
      BY <1>1, <2>2
    <3>2. (n - k) - (m - k) = n - m
      BY <1>1
    <3> HIDE DEF n
    <3> QED
      BY <3>1, <3>2, TailSize
  <2> QED
    BY <2>1, <2>4, <2>5
<1> QED
  BY <1>2, <1>3, <1>5, <1>6, <1>7

(* A window with one more entry, made now.                                 *)
LEMMA OneMoreEntry ==
    ASSUME NEW s \in Seq(0..Window), Sorted(s)
    PROVE  /\ Sorted(Append(s, 0))
           /\ Young(Append(s, 0), 0) = {}
           /\ \A t \in 1..Window :
                 Cardinality(Young(Append(s, 0), t)) = Cardinality(Young(s, t)) + 1
<1> DEFINE n == Len(s)
           p == Append(s, 0)
<1>1. n \in Nat /\ DOMAIN s = 1..n /\ \A i \in 1..n : s[i] \in 0..Window
  BY LenProperties, ElementOfSeq
<1>2. DOMAIN p = 1..(n + 1) /\ p[n + 1] = 0 /\ \A i \in 1..n : p[i] = s[i]
  BY <1>1
<1>3. Sorted(p)
  <2> SUFFICES ASSUME NEW i \in 1..(n + 1), NEW j \in 1..(n + 1), i < j
               PROVE  p[j] <= p[i]
    BY <1>2 DEF Sorted
  <2>1. i \in 1..n /\ p[i] = s[i] /\ s[i] >= 0
    BY <1>1, <1>2
  <2>2. CASE j = n + 1
    BY <1>1, <1>2, <2>1, <2>2
  <2>3. CASE j \in 1..n
    BY <1>1, <1>2, <2>1, <2>3 DEF Sorted
  <2> QED
    BY <1>1, <2>2, <2>3
<1>4. Young(p, 0) = {}
  <2>1. \A i \in 1..(n + 1) : ~(p[i] < 0)
    BY <1>1, <1>2
  <2> HIDE DEF p
  <2> QED
    BY <1>2, <2>1, Zenon DEF Young
<1>5. ASSUME NEW t \in 1..Window
      PROVE  Cardinality(Young(p, t)) = Cardinality(Young(s, t)) + 1
  <2>1. Young(p, t) = Young(s, t) \cup {n + 1} /\ n + 1 \notin Young(s, t)
    BY <1>1, <1>2 DEF Young
  <2>2. IsFiniteSet(Young(s, t))
    <3>1. IsFiniteSet(1..n)
      BY <1>1, FS_Interval
    <3>2. Young(s, t) \subseteq 1..n
      BY <1>1 DEF Young
    <3> QED
      BY <3>1, <3>2, FS_Subset
  <2> QED
    BY <2>1, <2>2, FS_AddElement
<1> QED
  BY <1>3, <1>4, <1>5

(* A tick makes every entry older, the order stays.                        *)
LEMMA AllOlder ==
    ASSUME NEW s \in Seq(0..Window), Sorted(s)
    PROVE  LET p == [i \in DOMAIN s |-> Older(s[i])]
           IN /\ Sorted(p)
              /\ Young(p, 0) = {}
              /\ \A t \in 1..Window : Young(p, t) = Young(s, t - 1)
<1> DEFINE p == [i \in DOMAIN s |-> Older(s[i])]
<1>0. Window \in Nat
  BY ForwarderAssumption
<1>1. \A i \in DOMAIN s : s[i] \in 0..Window
  BY LenProperties, ElementOfSeq
<1>2. DOMAIN p = DOMAIN s /\ \A i \in DOMAIN s : p[i] = Older(s[i])
  OBVIOUS
<1>3. \A x, y \in 0..Window : x <= y => Older(x) <= Older(y)
  BY <1>0 DEF Older
<1>4. \A x \in 0..Window : Older(x) >= 0 /\ \A t \in 1..Window : Older(x) < t <=> x < t - 1
  BY <1>0 DEF Older
<1> HIDE DEF p
<1>5. Sorted(p)
  BY <1>1, <1>2, <1>3 DEF Sorted
<1>6. Young(p, 0) = {}
  <2>1. \A i \in DOMAIN s : ~(p[i] < 0)
    <3> SUFFICES ASSUME NEW i \in DOMAIN s PROVE ~(p[i] < 0)
      OBVIOUS
    <3>1. p[i] \in Int /\ p[i] >= 0
      BY <1>0, <1>1, <1>2, <1>4 DEF Older
    <3> QED
      BY <3>1
  <2> QED
    BY <1>2, <2>1 DEF Young
<1>7. ASSUME NEW t \in 1..Window PROVE Young(p, t) = Young(s, t - 1)
  BY <1>1, <1>2, <1>4 DEF Young
<1> QED
  BY <1>5, <1>6, <1>7 DEF p

-----------------------------------------------------------------------------
(* The observer asked tells the same as the window: for every bound t the  *)
(* account has as many entries younger than t as there are requests that   *)
(* asked it less than t ticks ago; and a request that may still ask an     *)
(* account has not asked it.                                               *)
AskedType == asked \in [Accounts -> [Requests -> 0..Window]]

NotAsked ==
    \A r \in Requests, a \in Accounts :
        a \notin tried[r] /\ phase[r] # "done" => asked[a][r] = Window

WindowMatches(a) ==
    /\ Sorted(picks[a])
    /\ \A t \in 0..Window : /\ IsFiniteSet(Recent(a, t))
                            /\ Cardinality(Recent(a, t)) = Cardinality(Young(picks[a], t))

WindowsMatch == \A a \in Accounts : WindowMatches(a)

NoneLost == \A r \in Requests : phase[r] # "lost"

WatchInv == TypeOK /\ AskedType /\ NotAsked /\ WindowsMatch /\ NoneLost

(* Before the first request every window is empty.                         *)
LEMMA InitWatch == WatchInit => WatchInv
<1> SUFFICES ASSUME WatchInit PROVE WatchInv
  OBVIOUS
<1>1. TypeOK
  BY InitTypeOK DEF WatchInit
<1>2. AskedType /\ NotAsked
  BY ForwarderAssumption DEF WatchInit, AskedType, NotAsked
<1>3. ASSUME NEW a \in Accounts PROVE WindowMatches(a)
  <2>1. picks[a] = <<>>
    BY DEF WatchInit, Init
  <2>2. Sorted(<<>>) /\ \A t : Young(<<>>, t) = {}
    BY DEF Sorted, Young
  <2>3. ASSUME NEW t \in 0..Window PROVE Recent(a, t) = {}
    <3>1. \A q \in Requests : asked[a][q] = Window
      BY DEF WatchInit
    <3> QED
      BY <3>1, ForwarderAssumption DEF Recent
  <2> QED
    BY <2>1, <2>2, <2>3, FS_EmptySet DEF WindowMatches
<1>4. NoneLost
  BY DEF WatchInit, Init, NoneLost
<1> QED
  BY <1>1, <1>2, <1>3, <1>4 DEF WatchInv, WindowsMatch

(* A step that asks nobody and lets no time pass.                          *)
LEMMA SameWindows ==
    ASSUME WindowsMatch, UNCHANGED <<picks, asked>>
    PROVE  WindowsMatch'
BY DEF WindowsMatch, WindowMatches, Recent

(* What a step of a request does to what the invariant speaks of: it takes *)
(* an account into its window, ends, or leaves all as it is.               *)
LEMMA RequestMoves ==
    ASSUME TypeOK, NEW r \in Requests, Receive(r) \/ RequestStep(r)
    PROVE  /\ phase[r] # "done" /\ phase'[r] # "lost"
           /\ \A q \in Requests : q # r => phase'[q] = phase[q] /\ tried'[q] = tried[q]
           /\ \/ Reserve(r)
              \/ /\ UNCHANGED picks
                 /\ \/ phase'[r] = "done" /\ tried'[r] = {}
                    \/ tried' = tried
<1> USE DEF balancer, tasks
<1>1. CASE Reserve(r)
  BY <1>1 DEF Reserve, Goto, TypeOK
<1>2. ASSUME Return(r), UNCHANGED picks, phase[r] # "done"
      PROVE  /\ phase[r] # "done" /\ phase'[r] # "lost"
             /\ \A q \in Requests : q # r => phase'[q] = phase[q] /\ tried'[q] = tried[q]
             /\ UNCHANGED picks /\ phase'[r] = "done" /\ tried'[r] = {}
  BY <1>2 DEF Return, TypeOK
<1>3. CASE ReadPoolError(r) \/ GiveUp(r) \/ EndCopy(r) \/ AnswerFinal(r)
  <2>1. Return(r) /\ UNCHANGED picks /\ phase[r] # "done"
    BY <1>3 DEF ReadPoolError, GiveUp, EndCopy, AnswerFinal
  <2> QED
    BY <1>2, <2>1
<1>4. ASSUME NEW from \in Phases \ {"done"}, NEW to \in Phases \ {"lost"}, Goto(r, from, to),
             UNCHANGED <<picks, tried>>
      PROVE  /\ phase[r] # "done" /\ phase'[r] # "lost"
             /\ \A q \in Requests : q # r => phase'[q] = phase[q] /\ tried'[q] = tried[q]
             /\ UNCHANGED picks /\ tried' = tried
  BY <1>4 DEF Goto, TypeOK
<1>5. CASE Receive(r) \/ ReadPool(r) \/ AskAgain(r) \/ SaveHold(r) \/ Cooldown(r)
           \/ RefreshAfter429(r)
  <2>1. \E from \in Phases \ {"done"}, to \in Phases \ {"lost"} :
           Goto(r, from, to) /\ UNCHANGED <<picks, tried>>
    BY <1>5 DEF Receive, ReadPool, AskAgain, SaveHold, Cooldown, RefreshAfter429, Phases
  <2> QED
    BY <1>4, <2>1
<1>6. CASE AnswerOK(r)
  BY <1>6 DEF AnswerOK, TypeOK
<1>7. CASE AnswerRetry(r)
  <2>1. PICK v \in Replies \ {"ok", "timeout", "fatal", "html"} :
           phase' = [phase EXCEPT ![r] = AfterAnswer(v, seen[r][at[r]].stale)]
    BY <1>7 DEF AnswerRetry
  <2>2. v \in {"auth", "monthly", "quota", "limited", "broken", "retryable"}
    BY <2>1, ForwarderAssumption DEF AllReplies
  <2>3. AfterAnswer(v, seen[r][at[r]].stale) # "lost"
    BY <2>2 DEF AfterAnswer
  <2> QED
    BY <1>7, <2>1, <2>3 DEF AnswerRetry, TypeOK
<1> QED
  BY <1>1, <1>3, <1>5, <1>6, <1>7 DEF RequestStep

(* The observer asked after a step of a request.                           *)
LEMMA AskedAfter ==
    ASSUME AskedType, NEW r \in Requests, WatchRequest(r)
    PROVE  /\ AskedType'
           /\ \A a \in Accounts, q \in Requests :
                 asked'[a][q] = IF q = r /\ Picked(r, a) THEN 0 ELSE asked[a][q]
<1>1. asked' = [a \in Accounts |-> IF Picked(r, a) THEN [asked[a] EXCEPT ![r] = 0] ELSE asked[a]]
  BY DEF WatchRequest
<1>2. \A a \in Accounts : asked[a] \in [Requests -> 0..Window]
  BY DEF AskedType
<1>3. \A a \in Accounts, q \in Requests :
         asked'[a][q] = IF q = r /\ Picked(r, a) THEN 0 ELSE asked[a][q]
  BY <1>1, <1>2
<1>4. \A a \in Accounts : [asked[a] EXCEPT ![r] = 0] \in [Requests -> 0..Window]
  BY <1>2, ForwarderAssumption
<1>5. AskedType'
  BY <1>1, <1>2, <1>4 DEF AskedType
<1> QED
  BY <1>3, <1>5

(* reserve: the account that is picked has one entry and one asker more.   *)
LEMMA ReserveMatches ==
    ASSUME WatchInv, NEW r \in Requests, WatchRequest(r), Reserve(r)
    PROVE  WindowsMatch'
<1>1. PICK a \in Eligible(r) :
         /\ picks' = [picks EXCEPT ![a] = Append(Prune(picks[a]), 0)]
         /\ tried' = [tried EXCEPT ![r] = @ \cup {a}]
  BY DEF Reserve
<1>2. a \in Accounts /\ a \notin tried[r] /\ phase[r] = "picking"
  BY DEF Eligible, Reserve, Goto
<1>3. Picked(r, a) /\ \A b \in Accounts : b # a => ~Picked(r, b)
  BY <1>1, <1>2 DEF Picked, WatchInv, TypeOK
<1>4. /\ picks'[a] = Append(Prune(picks[a]), 0)
      /\ \A b \in Accounts : b # a => picks'[b] = picks[b]
      /\ picks[a] \in Seq(0..Window)
  BY <1>1, <1>2 DEF WatchInv, TypeOK
<1>5. \A b \in Accounts, q \in Requests :
         asked'[b][q] = IF q = r /\ b = a THEN 0 ELSE asked[b][q]
  BY <1>3, AskedAfter DEF WatchInv
<1>6. ASSUME NEW b \in Accounts, b # a
      PROVE  WindowMatches(b)'
  <2>1. \A t : Recent(b, t)' = Recent(b, t)
    BY <1>5, <1>6 DEF Recent
  <2>2. WindowMatches(b)
    BY DEF WatchInv, WindowsMatch
  <2> QED
    BY <1>4, <1>6, <2>1, <2>2 DEF WindowMatches
<1>7. WindowMatches(a)'
  <2> DEFINE p == Prune(picks[a])
  <2>1. WindowMatches(a)
    BY <1>2 DEF WatchInv, WindowsMatch
  <2>2. /\ p \in Seq(0..Window) /\ Sorted(p)
        /\ \A t \in 0..Window : Cardinality(Young(p, t)) = Cardinality(Young(picks[a], t))
    BY <1>4, <2>1, PruneType, PruneKeeps DEF WindowMatches
  <2>3. /\ Sorted(picks'[a]) /\ Young(picks'[a], 0) = {}
        /\ \A t \in 1..Window : Cardinality(Young(picks'[a], t)) = Cardinality(Young(p, t)) + 1
    <3> HIDE DEF p
    <3>1. /\ Sorted(Append(p, 0)) /\ Young(Append(p, 0), 0) = {}
          /\ \A t \in 1..Window :
                Cardinality(Young(Append(p, 0), t)) = Cardinality(Young(p, t)) + 1
      BY <2>2, OneMoreEntry
    <3> QED
      BY <1>4, <3>1 DEF p
  <2>4. asked[a][r] = Window
    BY <1>2 DEF WatchInv, NotAsked
  <2>5. Recent(a, 0)' = {}
    <3>1. \A q \in Requests : ~(asked'[a][q] < 0)
      <4>1. \A q \in Requests : asked'[a][q] \in 0..Window
        BY <1>2, AskedAfter DEF WatchInv, AskedType
      <4> QED
        BY <4>1, ForwarderAssumption
    <3> QED
      BY <3>1 DEF Recent
  <2>6. ASSUME NEW t \in 1..Window
        PROVE  /\ IsFiniteSet(Recent(a, t)')
               /\ Cardinality(Recent(a, t)') = Cardinality(Young(picks'[a], t))
    <3>1. Recent(a, t)' = Recent(a, t) \cup {r} /\ r \notin Recent(a, t)
      BY <1>2, <1>5, <2>4, ForwarderAssumption DEF Recent
    <3>2. t \in 0..Window
      BY ForwarderAssumption
    <3>3. IsFiniteSet(Recent(a, t)) /\ Cardinality(Recent(a, t)) = Cardinality(Young(picks[a], t))
      BY <2>1, <3>2 DEF WindowMatches
    <3>4. IsFiniteSet(Recent(a, t)') /\ Cardinality(Recent(a, t)') = Cardinality(Recent(a, t)) + 1
      BY <3>1, <3>3, FS_AddElement
    <3>5. Cardinality(Young(picks'[a], t)) = Cardinality(Young(picks[a], t)) + 1
      BY <2>2, <2>3, <3>2
    <3> QED
      BY <3>3, <3>4, <3>5
  <2>7. \A t \in 0..Window : t = 0 \/ t \in 1..Window
    BY ForwarderAssumption
  <2> QED
    BY <2>3, <2>5, <2>6, <2>7, FS_EmptySet DEF WindowMatches
<1> QED
  BY <1>6, <1>7 DEF WindowsMatch

(* Time passes for the entries and for the observer alike.                 *)
LEMMA TickMatches ==
    ASSUME WatchInv, WatchTick
    PROVE  AskedType' /\ NotAsked' /\ WindowsMatch' /\ NoneLost'
<1>0. Window \in Nat \ {0} /\ Older(Window) = Window
      /\ \A n \in 0..Window : /\ Older(n) \in 0..Window
                              /\ \A t \in 1..Window : Older(n) < t <=> n < t - 1
  BY ForwarderAssumption DEF Older
<1>1. asked' = [a \in Accounts |-> [r \in Requests |-> Older(asked[a][r])]]
  BY DEF WatchTick
<1>2. \A a \in Accounts, q \in Requests : asked[a][q] \in 0..Window
  BY DEF WatchInv, AskedType
<1>3. AskedType'
  BY <1>0, <1>1, <1>2 DEF AskedType
<1>4. UNCHANGED <<tried, phase>>
  BY DEF WatchTick, Tick
<1>5. NotAsked'
  BY <1>0, <1>1, <1>4 DEF WatchInv, NotAsked
<1>6. NoneLost'
  BY <1>4 DEF WatchInv, NoneLost
<1>7. ASSUME NEW a \in Accounts PROVE WindowMatches(a)'
  <2>1. picks'[a] = [i \in DOMAIN picks[a] |-> Older(picks[a][i])]
    BY DEF WatchTick, Tick
  <2>2. picks[a] \in Seq(0..Window) /\ WindowMatches(a)
    BY DEF WatchInv, TypeOK, WindowsMatch
  <2>3. /\ Sorted(picks'[a]) /\ Young(picks'[a], 0) = {}
        /\ \A t \in 1..Window : Young(picks'[a], t) = Young(picks[a], t - 1)
    BY <2>1, <2>2, AllOlder DEF WindowMatches
  <2>4. Recent(a, 0)' = {}
    <3>1. \A q \in Requests : ~(asked'[a][q] < 0)
      BY <1>0, <1>1, <1>2
    <3> QED
      BY <3>1 DEF Recent
  <2>5. \A t \in 1..Window : Recent(a, t)' = Recent(a, t - 1)
    BY <1>0, <1>1, <1>2 DEF Recent
  <2>6. \A t \in 0..Window : t = 0 \/ (t \in 1..Window /\ t - 1 \in 0..Window)
    BY ForwarderAssumption
  <2>7. ASSUME NEW t \in 0..Window
        PROVE  /\ IsFiniteSet(Recent(a, t)')
               /\ Cardinality(Recent(a, t)') = Cardinality(Young(picks'[a], t))
    <3>1. CASE t = 0
      BY <2>3, <2>4, <3>1, FS_EmptySet
    <3>2. CASE t \in 1..Window /\ t - 1 \in 0..Window
      <4>1. Recent(a, t)' = Recent(a, t - 1) /\ Young(picks'[a], t) = Young(picks[a], t - 1)
        BY <2>3, <2>5, <3>2
      <4> QED
        BY <2>2, <3>2, <4>1 DEF WindowMatches
    <3> QED
      BY <2>6, <3>1, <3>2
  <2> QED
    BY <2>3, <2>7 DEF WindowMatches
<1> QED
  BY <1>3, <1>5, <1>6, <1>7 DEF WindowsMatch

(* Every step of the watched proxy is a step of the proxy.                 *)
LEMMA WatchedStep == [WatchNext]_watched => [Next]_vars
<1>1. WatchNext => Next
  BY DEF WatchNext, WatchRequest, WatchTick, Next, ProxyNext, OutsideNext
<1> QED
  BY <1>1 DEF watched

(* The invariant is kept by every step.                                    *)
LEMMA NextWatch == WatchInv /\ [WatchNext]_watched => WatchInv'
<1> SUFFICES ASSUME WatchInv, [WatchNext]_watched PROVE WatchInv'
  OBVIOUS
<1>1. TypeOK'
  BY WatchedStep, NextTypeOK DEF WatchInv
<1>2. ASSUME NEW r \in Requests, WatchRequest(r)
      PROVE  AskedType' /\ NotAsked' /\ WindowsMatch' /\ NoneLost'
  <2>1. Receive(r) \/ RequestStep(r)
    BY <1>2 DEF WatchRequest
  <2>2. /\ phase[r] # "done" /\ phase'[r] # "lost"
        /\ \A q \in Requests : q # r => phase'[q] = phase[q] /\ tried'[q] = tried[q]
        /\ \/ Reserve(r)
           \/ /\ UNCHANGED picks
              /\ \/ phase'[r] = "done" /\ tried'[r] = {}
                 \/ tried' = tried
    BY <2>1, RequestMoves DEF WatchInv
  <2>3. /\ AskedType'
        /\ \A a \in Accounts, q \in Requests :
              asked'[a][q] = IF q = r /\ Picked(r, a) THEN 0 ELSE asked[a][q]
    BY <1>2, AskedAfter DEF WatchInv
  <2>4. NoneLost'
    BY <2>2 DEF WatchInv, NoneLost
  <2>5. NotAsked'
    <3> SUFFICES ASSUME NEW q \in Requests, NEW a \in Accounts,
                        a \notin tried'[q], phase'[q] # "done"
                 PROVE  asked'[a][q] = Window
      BY DEF NotAsked
    <3>1. ~Picked(q, a)
      BY DEF Picked
    <3>2. a \notin tried[q] /\ phase[q] # "done"
      <4>1. CASE q # r
        BY <2>2, <4>1
      <4>2. CASE q = r /\ tried' = tried
        BY <2>2, <4>2
      <4>3. CASE q = r /\ Reserve(r)
        BY <2>2, <4>3 DEF Reserve, WatchInv, TypeOK
      <4> QED
        BY <2>2, <4>1, <4>2, <4>3
    <3> QED
      BY <2>3, <3>1, <3>2 DEF WatchInv, NotAsked
  <2>6. WindowsMatch'
    <3>1. CASE Reserve(r)
      BY <1>2, <3>1, ReserveMatches
    <3>2. CASE UNCHANGED picks /\ \A a \in Accounts : ~Picked(r, a)
      <4>1. UNCHANGED asked
        <5>1. asked' = [a \in Accounts |->
                           IF Picked(r, a) THEN [asked[a] EXCEPT ![r] = 0] ELSE asked[a]]
          BY <1>2 DEF WatchRequest
        <5>2. asked = [a \in Accounts |-> asked[a]]
          BY DEF WatchInv, AskedType
        <5> QED
          BY <3>2, <5>1, <5>2
      <4> QED
        BY <3>2, <4>1, SameWindows DEF WatchInv
    <3> QED
      BY <2>2, <3>1, <3>2 DEF Picked
  <2> QED
    BY <2>3, <2>4, <2>5, <2>6
<1>3. CASE WatchTick
  BY <1>1, <1>3, TickMatches DEF WatchInv
<1>4. ASSUME UNCHANGED <<asked, picks, phase, tried>>
      PROVE  AskedType' /\ NotAsked' /\ WindowsMatch' /\ NoneLost'
  <2>1. WindowsMatch'
    BY <1>4, SameWindows DEF WatchInv
  <2> QED
    BY <1>4, <2>1 DEF WatchInv, AskedType, NotAsked, NoneLost
<1>5. ASSUME NEW r \in Requests, NEW a \in Accounts, TaskStep(r, a)
      PROVE  UNCHANGED <<picks, phase, tried>>
  BY <1>5 DEF TaskStep, RefreshWait, RefreshBegin, RefreshEnd, RefreshLeave, balancer, local
<1>6. SaveSettings => UNCHANGED <<picks, phase, tried>>
  BY DEF SaveSettings, balancer, local
<1>7. CASE UNCHANGED watched
  BY <1>1, <1>4, <1>7 DEF watched, vars, WatchInv
<1> QED
  BY <1>1, <1>2, <1>3, <1>4, <1>5, <1>6, <1>7 DEF WatchNext, WatchInv

(* The watched proxy keeps it.                                             *)
THEOREM WindowsAreExact == WatchSpec => []WatchInv
BY InitWatch, NextWatch, PTL DEF WatchSpec

(* account_rpm: in any window of a minute an account is asked at most as   *)
(* often as the setting in force at the last pick allows, whatever other   *)
(* requests, ticks and prunings come between two picks.                    *)
THEOREM RateIsKept == WatchSpec => RpmIsKept
<1> DEFINE Kept == \A r \in Requests, a \in Accounts :
               Picked(r, a) => Cardinality({q \in Requests : asked[a][q] < Window}) < settings.rpm
<1>1. WatchInv /\ [WatchNext]_watched => [Kept]_watched
  <2> SUFFICES ASSUME WatchInv, WatchNext, NEW r \in Requests, NEW a \in Accounts, Picked(r, a)
               PROVE  Cardinality({q \in Requests : asked[a][q] < Window}) < settings.rpm
    BY Zenon
  <2>1. Next
    BY DEF WatchNext, WatchRequest, WatchTick, Next, ProxyNext, OutsideNext
  <2>2. ~RpmFull(a)
    BY <2>1, PickedIsEligible DEF WatchInv, Eligible
  <2>3. picks[a] \in Seq(0..Window) /\ WindowMatches(a)
    BY DEF WatchInv, TypeOK, WindowsMatch
  <2>4. Len(Prune(picks[a])) = Cardinality(Young(picks[a], Window))
    BY <2>3, PruneKeeps DEF WindowMatches
  <2>5. Cardinality(Recent(a, Window)) = Cardinality(Young(picks[a], Window))
    BY <2>3, ForwarderAssumption DEF WindowMatches
  <2>6. Len(Prune(picks[a])) \in Nat /\ settings.rpm \in Nat
    <3>1. Len(Prune(picks[a])) \in Nat
      BY <2>3, PruneType, LenProperties
    <3>2. settings.rpm \in RPMChoices
      BY DEF WatchInv, TypeOK
    <3> QED
      BY <3>1, <3>2, ForwarderAssumption
  <2> QED
    BY <2>2, <2>4, <2>5, <2>6 DEF RpmFull, Recent
<1> QED
  BY <1>1, WindowsAreExact, PTL DEF WatchSpec, RpmIsKept

-----------------------------------------------------------------------------
(* A tick takes the same from the rest and from what keeps the account out.*)
LEMMA TickRest ==
    ASSUME NEW m \in Nat, NEW n \in Nat, m <= n
    PROVE  Less(m) \in Nat /\ Less(m) <= Less(n)
BY DEF Less

(* The answer that is put on record counts for both.                       *)
LEMMA CooldownRest ==
    ASSUME TypeOK, RestIsKept, NEW r \in Requests, at[r] \in Accounts, Cooldown(r),
           cool[at[r]] <= pause[r],
           announced' = [announced EXCEPT ![at[r]] = Elder(announced[at[r]], pause[r])]
    PROVE  RestIsKept'
<1>1. announced[at[r]] \in Nat /\ announced[at[r]] <= cool[at[r]]
  BY DEF RestIsKept
<1>2. cool[at[r]] \in Nat /\ pause[r] \in Nat
  <2>1. cool[at[r]] \in 0..Longest /\ pause[r] \in 0..Longest
    BY DEF TypeOK
  <2> QED
    BY <2>1, ForwarderAssumption
<1>3. Elder(announced[at[r]], pause[r]) = pause[r]
  BY <1>1, <1>2 DEF Elder
<1>4. announced' = [announced EXCEPT ![at[r]] = pause[r]]
  BY <1>3
<1>5. cool' = [cool EXCEPT ![at[r]] = pause[r]]
  BY DEF Cooldown
<1>6. announced' \in [Accounts -> Nat]
  BY <1>2, <1>4 DEF RestIsKept
<1>7. ASSUME NEW a \in Accounts PROVE announced'[a] <= cool'[a]
  <2>1. CASE a = at[r]
    BY <1>2, <1>4, <1>5, <2>1 DEF RestIsKept, TypeOK
  <2>2. CASE a # at[r]
    BY <1>4, <1>5, <2>2 DEF RestIsKept, TypeOK
  <2> QED
    BY <2>1, <2>2
<1> QED
  BY <1>6, <1>7 DEF RestIsKept

(* As long as no rest is shortened, an account is kept out for the whole   *)
(* of the longest one.                                                     *)
LEMMA NextRest ==
    ASSUME IInv, RestIsKept, [WatchNext /\ NothingShortened]_watched
    PROVE  RestIsKept'
<1> USE DEF balancer, local
<1>1. ASSUME UNCHANGED <<announced, cool>> PROVE RestIsKept'
  BY <1>1 DEF RestIsKept
<1>2. ASSUME NEW r \in Requests, WatchRequest(r), NothingShortened PROVE RestIsKept'
  <2>1. Receive(r) \/ RequestStep(r)
    BY <1>2 DEF WatchRequest
  <2>2. CASE phase[r] = "cooling"
    <3>1. Cooldown(r)
      BY <2>1, <2>2 DEF Receive, RequestStep, ReadPool, ReadPoolError, Reserve, GiveUp, AskAgain,
         AnswerOK, EndCopy, AnswerFinal, AnswerRetry, SaveHold, RefreshAfter429, Goto
    <3>2. phase'[r] # "cooling"
      BY <3>1 DEF Cooldown, Goto, IInv, TypeOK
    <3>3. cool[at[r]] <= pause[r]
      BY <1>2, <2>2, <3>2 DEF NothingShortened
    <3>4. announced' = [announced EXCEPT ![at[r]] = Elder(announced[at[r]], pause[r])]
      BY <1>2, <2>2 DEF WatchRequest
    <3>5. at[r] \in Accounts
      BY <2>2 DEF IInv, AtMatches, Chosen
    <3> QED
      BY <3>1, <3>3, <3>4, <3>5, CooldownRest DEF IInv
  <2>3. CASE phase[r] # "cooling"
    <3>1. UNCHANGED cool
      BY <2>1, <2>3 DEF Receive, RequestStep, ReadPool, ReadPoolError, Reserve, GiveUp, AskAgain,
         AnswerOK, EndCopy, AnswerFinal, AnswerRetry, SaveHold, Cooldown, RefreshAfter429, Goto
    <3>2. UNCHANGED announced
      BY <1>2, <2>3 DEF WatchRequest
    <3> QED
      BY <1>1, <3>1, <3>2
  <2> QED
    BY <2>2, <2>3
<1>3. CASE WatchTick
  <2>1. /\ announced' = [a \in Accounts |-> Less(announced[a])]
        /\ cool' = [a \in Accounts |-> Less(cool[a])]
    BY <1>3 DEF WatchTick, Tick
  <2>2. ASSUME NEW a \in Accounts
        PROVE  Less(announced[a]) \in Nat /\ Less(announced[a]) <= Less(cool[a])
    <3>1. announced[a] \in Nat /\ announced[a] <= cool[a]
      BY DEF RestIsKept
    <3>2. cool[a] \in 0..Longest
      BY DEF IInv, TypeOK
    <3>3. cool[a] \in Nat
      BY <3>2, ForwarderAssumption
    <3> QED
      BY <3>1, <3>3, TickRest
  <2> QED
    BY <2>1, <2>2 DEF RestIsKept
<1>4. ASSUME SaveSettings \/ \E r \in Requests, a \in Accounts : TaskStep(r, a), UNCHANGED announced
      PROVE  RestIsKept'
  <2>1. UNCHANGED cool
    BY <1>4 DEF SaveSettings, TaskStep, RefreshWait, RefreshBegin, RefreshEnd, RefreshLeave
  <2> QED
    BY <1>1, <1>4, <2>1
<1>5. CASE UNCHANGED watched
  BY <1>1, <1>5 DEF watched, vars
<1> QED
  BY <1>2, <1>3, <1>4, <1>5 DEF WatchNext

(* An account that announced a rest is not asked before the rest is over,  *)
(* as long as cooldown overwrites no rest with a shorter one: whatever     *)
(* order requests, refreshes and ticks come in, nothing else in the proxy  *)
(* cuts a rest short.                                                      *)
THEOREM RestIsKeptUnlessShortened == LongestSpec => AnnouncedRest
<1> DEFINE Rested == \A r \in Requests, a \in Accounts : Picked(r, a) => announced[a] = 0
<1>1. WatchInit => IInv /\ RestIsKept
  <2> SUFFICES ASSUME WatchInit PROVE IInv /\ RestIsKept
    OBVIOUS
  <2>1. IInv
    BY InitIInv DEF WatchInit
  <2>2. RestIsKept
    BY DEF WatchInit, Init, RestIsKept
  <2> QED
    BY <2>1, <2>2
<1>2. IInv /\ RestIsKept /\ [WatchNext /\ NothingShortened]_watched => (IInv /\ RestIsKept)'
  BY WatchedStep, NextIInv, NextRest
<1>3. IInv /\ RestIsKept /\ [WatchNext /\ NothingShortened]_watched => [Rested]_watched
  <2> SUFFICES ASSUME IInv, RestIsKept, WatchNext, NEW r \in Requests, NEW a \in Accounts,
                      Picked(r, a)
               PROVE  announced[a] = 0
    BY Zenon
  <2>1. Next
    BY DEF WatchNext, WatchRequest, WatchTick, Next, ProxyNext, OutsideNext
  <2>2. cool[a] = 0
    BY <2>1, PickedIsEligible DEF IInv, Eligible
  <2> QED
    BY <2>2 DEF RestIsKept
<1> QED
  BY <1>1, <1>2, <1>3, PTL DEF LongestSpec, AnnouncedRest
=============================================================================
