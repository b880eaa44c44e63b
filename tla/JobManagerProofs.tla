-------------------------- MODULE JobManagerProofs --------------------------
(***************************************************************************)
(* What TLAPS proves of JobManager, for any set of accounts, any set of    *)
(* calls and any limits.                                                   *)
(*                                                                         *)
(* The steps of a running job that neither take nor give back a slot are   *)
(* treated once: each of them is a Frame.  The inductive invariant         *)
(* IInv ties the four records the manager keeps of a job (the queue,       *)
(* m.running, the counters, the goroutine itself) to each other.           *)
(* At the end: where QueuedRowHasJob and PaidAccountIsSkipped, which TLC   *)
(* finds violated, do hold.                                                *)
(***************************************************************************)
EXTENDS MCJobManager, FiniteSetTheorems, SequenceTheorems, TLAPS

-----------------------------------------------------------------------------
(* Removing the i-th element of a sequence: length, elements before and    *)
(* after the gap (m.queue = append(m.queue[:idx], m.queue[idx+1:]...)).    *)
LEMMA RemoveIndexProperties ==
    ASSUME NEW S, NEW s \in Seq(S), NEW i \in 1..Len(s)
    PROVE  /\ RemoveIndex(s, i) \in Seq(S)
           /\ Len(RemoveIndex(s, i)) = Len(s) - 1
           /\ \A k \in 1..(Len(s) - 1) :
                 RemoveIndex(s, i)[k] = IF k < i THEN s[k] ELSE s[k + 1]
<1> DEFINE front == SubSeq(s, 1, i - 1)
           back  == SubSeq(s, i + 1, Len(s))
<1>0. Len(s) \in Nat /\ \A n \in 1..Len(s) : s[n] \in S
  BY ElementOfSeq, LenProperties
<1>1. /\ front \in Seq(S)
      /\ Len(front) = i - 1
      /\ \A k \in 1..(i - 1) : front[k] = s[k]
  <2>1. \A k \in 1..(i - 1) : s[k] \in S
    BY <1>0
  <2>2. /\ front \in Seq(S)
        /\ Len(front) = IF 1 <= i - 1 THEN (i - 1) - 1 + 1 ELSE 0
        /\ \A k \in 1..((i - 1) - 1 + 1) : front[k] = s[1 + k - 1]
    BY <2>1, SubSeqProperties
  <2> QED
    BY <2>2
<1>2. /\ back \in Seq(S)
      /\ Len(back) = Len(s) - i
      /\ \A k \in 1..(Len(s) - i) : back[k] = s[i + k]
  <2>1. \A k \in (i + 1)..Len(s) : s[k] \in S
    BY <1>0
  <2>2. /\ back \in Seq(S)
        /\ Len(back) = IF i + 1 <= Len(s) THEN Len(s) - (i + 1) + 1 ELSE 0
        /\ \A k \in 1..(Len(s) - (i + 1) + 1) : back[k] = s[(i + 1) + k - 1]
    BY <1>0, <2>1, SubSeqProperties
  <2> QED
    BY <1>0, <2>2
<1>3. RemoveIndex(s, i) = front \o back
  BY DEF RemoveIndex
<1> HIDE DEF front, back
<1>4. /\ front \o back \in Seq(S)
      /\ Len(front \o back) = (i - 1) + (Len(s) - i)
      /\ \A k \in 1..((i - 1) + (Len(s) - i)) :
            (front \o back)[k] = IF k <= i - 1 THEN front[k] ELSE back[k - (i - 1)]
  <2>1. front \in Seq(S) /\ back \in Seq(S)
    BY <1>1, <1>2
  <2>2. /\ front \o back \in Seq(S)
        /\ Len(front \o back) = Len(front) + Len(back)
        /\ \A k \in 1..(Len(front) + Len(back)) :
              (front \o back)[k] = IF k <= Len(front) THEN front[k]
                                  ELSE back[k - Len(front)]
    BY <2>1, ConcatProperties
  <2>3. Len(front) = i - 1 /\ Len(back) = Len(s) - i
    BY <1>1, <1>2
  <2>4. front \o back \in Seq(S)
    BY <2>2
  <2>5. Len(front \o back) = (i - 1) + (Len(s) - i)
    BY <2>2, <2>3
  <2>6. \A k \in 1..((i - 1) + (Len(s) - i)) :
           (front \o back)[k] = IF k <= i - 1 THEN front[k] ELSE back[k - (i - 1)]
    BY <2>2, <2>3
  <2> QED
    BY <2>4, <2>5, <2>6
<1>5. ASSUME NEW k \in 1..(Len(s) - 1)
      PROVE  (front \o back)[k] = IF k < i THEN s[k] ELSE s[k + 1]
  <2>0. k \in 1..((i - 1) + (Len(s) - i))
    BY <1>0
  <2>1. (front \o back)[k] = IF k <= i - 1 THEN front[k] ELSE back[k - (i - 1)]
    BY <1>4, <2>0, Zenon
  <2>2. CASE k < i
    BY <1>0, <1>1, <2>1, <2>2
  <2>3. CASE ~(k < i)
    <3>1. k - (i - 1) \in 1..(Len(s) - i)
      BY <1>0, <2>3
    <3>2. back[k - (i - 1)] = s[i + (k - (i - 1))]
      BY <1>2, <3>1
    <3>3. i + (k - (i - 1)) = k + 1
      BY <1>0
    <3> QED
      BY <2>1, <2>3, <3>2, <3>3, <1>0
  <2> QED
    BY <2>2, <2>3
<1> QED
  BY <1>0, <1>3, <1>4, <1>5

-----------------------------------------------------------------------------
LEMMA GotoType ==
    ASSUME TypeOK, NEW j \in Jobs, NEW from, NEW to \in Phases, Goto(j, from, to)
    PROVE  phase' \in [Jobs -> Phases]
BY DEF Goto, TypeOK

LEMMA UpdateRowType ==
    ASSUME TypeOK, NEW a \in Accounts, NEW row \in Row, UpdateRow(a, row)
    PROVE  account' \in [Accounts -> Row]
BY DEF UpdateRow, TypeOK

LEMMA SetRowStatusType ==
    ASSUME TypeOK, NEW a \in Accounts, NEW s \in AccountStatus, SetRowStatus(a, s)
    PROVE  account' \in [Accounts -> Row]
<1>1. [account[a] EXCEPT !.status = s] \in Row
  BY DEF TypeOK, Row
<1> QED
  BY <1>1, UpdateRowType DEF SetRowStatus

(* What every action needs of the state to be typed.                       *)
LEMMA StateType ==
    ASSUME TypeOK, NEW j \in Jobs
    PROVE  /\ AccountOf(j) \in Accounts
           /\ PoolOf(j) \in Pools
           /\ account[AccountOf(j)] \in Row
BY DEF TypeOK, AccountOf, PoolOf, Pools, Request

LEMMA InitTypeOK == Init => TypeOK
<1> SUFFICES ASSUME Init PROVE TypeOK
  OBVIOUS
<1>1. account \in [Accounts -> Row]
  BY DEF Init, Row, AccountStatus
<1>2. Blank \in Request
  BY JobManagerAssumption DEF Blank, Request
<1>3. queue \in Seq(Jobs)
  BY EmptySeq DEF Init
<1>4. cap \in [Pools -> 1..MaxLimit] /\ limit \in [Pools -> 1..MaxLimit]
  BY DEF Init
<1>5. attempt \in [Jobs -> 0..AuthkitRetries] /\ restarts \in 0..MaxRestarts
  BY JobManagerAssumption DEF Init
<1>6. /\ call \in [Jobs -> Calls] /\ job \in [Jobs -> Request]
      /\ status \in [Jobs -> JobStatus] /\ phase \in [Jobs -> Phases]
      /\ result \in [Jobs -> Results] /\ snapshot \in [Jobs -> Credentials]
  BY <1>2 DEF Init, Calls, JobStatus, Phases, Results, Credentials
<1>7. slots \in [Pools -> Int] /\ running \in [Accounts -> Jobs \cup {None}]
  BY DEF Init
<1> QED
  BY <1>1, <1>3, <1>4, <1>5, <1>6, <1>7 DEF TypeOK, Init

LEMMA NextTypeOK == TypeOK /\ [Next]_vars => TypeOK'
<1> SUFFICES ASSUME TypeOK, [Next]_vars PROVE TypeOK'
  OBVIOUS
<1> USE DEF store, request, local, manager
<1>1. ASSUME NEW j \in Jobs, EnqueueCheck(j) PROVE TypeOK'
  <2>1. \E c \in Calls : call' = [call EXCEPT ![j] = c]
    BY <1>1 DEF EnqueueCheck, Calls
  <2>2. job' = job \/ \E r \in Request : job' = [job EXCEPT ![j] = r]
    BY <1>1 DEF EnqueueCheck
  <2>3. call' \in [Jobs -> Calls] /\ job' \in [Jobs -> Request]
    BY <2>1, <2>2 DEF TypeOK
  <2> QED
    BY <1>1, <2>3 DEF EnqueueCheck, TypeOK
<1>2. ASSUME NEW j \in Jobs, EnqueueAdd(j) PROVE TypeOK'
  <2>1. queue' \in Seq(Jobs)
    BY <1>2, AppendProperties DEF EnqueueAdd, TypeOK
  <2> QED
    BY <1>2, <2>1 DEF EnqueueAdd, TypeOK, Calls, JobStatus, Phases
<1>3. ASSUME NEW j \in Jobs, EnqueueRefuse(j) PROVE TypeOK'
  BY <1>3 DEF EnqueueRefuse, TypeOK, Calls
<1>4. ASSUME NEW j \in Jobs, EnqueueMark(j) PROVE TypeOK'
  <2>1. account' \in [Accounts -> Row]
    BY <1>4, StateType, SetRowStatusType DEF EnqueueMark, AccountStatus, TypeOK
  <2> QED
    BY <1>4, <2>1 DEF EnqueueMark, TypeOK, Calls
<1>5. ASSUME NEW j \in Jobs, EnqueuePump(j) PROVE TypeOK'
  BY <1>5 DEF EnqueuePump, BeginPump, TypeOK, Calls
<1>6. ASSUME NEW j \in Jobs, RunEnter(j) PROVE TypeOK'
  BY <1>6, GotoType DEF RunEnter, TypeOK, Phases, JobStatus
<1>7. ASSUME NEW j \in Jobs, RunMark(j) PROVE TypeOK'
  <2>1. account' \in [Accounts -> Row]
    BY <1>7, StateType, SetRowStatusType DEF RunMark, AccountStatus, TypeOK
  <2>2. phase' \in [Jobs -> Phases]
    BY <1>7, GotoType DEF RunMark, Phases
  <2> QED
    BY <1>7, <2>1, <2>2 DEF RunMark, TypeOK
<1>8. ASSUME NEW j \in Jobs, RunLoad(j) PROVE TypeOK'
  <2>1. phase' \in [Jobs -> Phases]
    BY <1>8, GotoType DEF RunLoad, Phases
  <2>2. snapshot' \in [Jobs -> Credentials]
    BY <1>8, StateType DEF RunLoad, TypeOK, Row
  <2> QED
    BY <1>8, <2>1, <2>2 DEF RunLoad, TypeOK
<1>9. ASSUME NEW j \in Jobs, RunRetry(j) PROVE TypeOK'
  BY <1>9, JobManagerAssumption DEF RunRetry, RetriesLeft, TypeOK
<1>10. ASSUME NEW j \in Jobs, RunReturn(j) PROVE TypeOK'
  BY <1>10 DEF RunReturn, Goto, TypeOK, Phases, Results
<1>11. ASSUME NEW j \in Jobs, RunSave(j) PROVE TypeOK'
  <2>1. account' \in [Accounts -> Row]
    <3> DEFINE a == AccountOf(j)
    <3>1. a \in Accounts /\ account[a] \in Row
      BY StateType
    <3>2. [account[a] EXCEPT !.status = "ready", !.credentials = "full"] \in Row
      BY <3>1 DEF Row, AccountStatus, Credentials
    <3>3. [account[a] EXCEPT !.credentials = IF @ = "none" THEN "cookie" ELSE @] \in Row
      BY <3>1 DEF Row, Credentials
    <3> QED
      BY <1>11, <3>1, <3>2, <3>3, UpdateRowType DEF RunSave
  <2>2. AfterSave(j) \in Phases
    BY DEF AfterSave, Phases
  <2>3. phase' \in [Jobs -> Phases]
    BY <1>11, <2>2, GotoType DEF RunSave
  <2> QED
    BY <1>11, <2>1, <2>3 DEF RunSave, TypeOK
<1>12. ASSUME NEW j \in Jobs, RunConfirm(j) PROVE TypeOK'
  <2>1. account' \in [Accounts -> Row]
    <3>1. [account[AccountOf(j)] EXCEPT !.paid = TRUE] \in Row
      BY StateType DEF Row
    <3> QED
      BY <1>12, <3>1, StateType, UpdateRowType DEF RunConfirm
  <2>2. phase' \in [Jobs -> Phases]
    BY <1>12, GotoType DEF RunConfirm, Phases
  <2> QED
    BY <1>12, <2>1, <2>2 DEF RunConfirm, TypeOK
<1>13. ASSUME NEW j \in Jobs, RunStoreError(j) PROVE TypeOK'
  BY <1>13 DEF RunStoreError, TypeOK, Phases
<1>14. ASSUME NEW j \in Jobs, RunUnpaid(j) PROVE TypeOK'
  <2>1. account' \in [Accounts -> Row]
    BY <1>14, StateType, SetRowStatusType DEF RunUnpaid, AccountStatus
  <2>2. phase' \in [Jobs -> Phases]
    BY <1>14, GotoType DEF RunUnpaid, Phases
  <2> QED
    BY <1>14, <2>1, <2>2 DEF RunUnpaid, TypeOK
<1>15. ASSUME NEW j \in Jobs, RunReject(j) PROVE TypeOK'
  BY <1>15, GotoType DEF RunReject, TypeOK, Phases, JobStatus
<1>16. ASSUME NEW j \in Jobs, RunFinish(j) PROVE TypeOK'
  BY <1>16, GotoType DEF RunFinish, TypeOK, Phases, JobStatus
<1>17. ASSUME NEW j \in Jobs, FailStatus(j) PROVE TypeOK'
  BY <1>17, GotoType DEF FailStatus, TypeOK, Phases, JobStatus
<1>18. ASSUME NEW j \in Jobs, FailMark(j) PROVE TypeOK'
  <2>1. account' \in [Accounts -> Row]
    BY <1>18, StateType, SetRowStatusType DEF FailMark, AccountStatus, TypeOK
  <2>2. phase' \in [Jobs -> Phases]
    BY <1>18, GotoType DEF FailMark, Phases
  <2> QED
    BY <1>18, <2>1, <2>2 DEF FailMark, TypeOK
<1>19. ASSUME NEW j \in Jobs, FailRestore(j) PROVE TypeOK'
  <2>1. account' \in [Accounts -> Row]
    <3>1. [account[AccountOf(j)] EXCEPT !.status = "failed",
                                        !.credentials = snapshot[j]] \in Row
      BY StateType DEF Row, AccountStatus, TypeOK
    <3> QED
      BY <1>19, <3>1, StateType, UpdateRowType DEF FailRestore, TypeOK
  <2>2. phase' \in [Jobs -> Phases]
    BY <1>19, GotoType DEF FailRestore, Phases
  <2> QED
    BY <1>19, <2>1, <2>2 DEF FailRestore, TypeOK
<1>20. ASSUME NEW j \in Jobs, RunExit(j) PROVE TypeOK'
  <2>1. phase' \in [Jobs -> Phases]
    BY <1>20, GotoType DEF RunExit, Phases
  <2>2. slots' \in [Pools -> Int] /\ running' \in [Accounts -> Jobs \cup {None}]
    BY <1>20, StateType DEF RunExit, GiveBack, TypeOK
  <2> QED
    <3>1. result' \in [Jobs -> Results] /\ snapshot' \in [Jobs -> Credentials]
      BY <1>20 DEF RunExit, TypeOK, Results, Credentials
    <3>2. attempt' \in [Jobs -> 0..AuthkitRetries]
      BY <1>20, JobManagerAssumption DEF RunExit, TypeOK
    <3> QED
      BY <1>20, <2>1, <2>2, <3>1, <3>2 DEF RunExit, TypeOK
<1>21. ASSUME NEW j \in Jobs, ExitPump(j) PROVE TypeOK'
  BY <1>21 DEF ExitPump, BeginPump, TypeOK, Phases
<1>22. CASE ReloadPump
  BY <1>22 DEF ReloadPump, BeginPump, TypeOK
<1>23. CASE PumpStart
  <2>1. PICK i \in DOMAIN queue :
           /\ TakeSlot(queue[i])
           /\ phase' = [phase EXCEPT ![queue[i]] = "started"]
           /\ queue' = RemoveIndex(queue, i)
    BY <1>23 DEF PumpStart
  <2>2. queue \in Seq(Jobs) /\ i \in 1..Len(queue) /\ queue[i] \in Jobs
    BY LenProperties, ElementOfSeq DEF TypeOK
  <2>3. queue' \in Seq(Jobs)
    <3>1. RemoveIndex(queue, i) \in Seq(Jobs)
      BY <2>2, RemoveIndexProperties
    <3> QED
      BY <2>1, <3>1
  <2>4. slots' \in [Pools -> Int] /\ running' \in [Accounts -> Jobs \cup {None}]
    <3>1. /\ slots' = [slots EXCEPT ![PoolOf(queue[i])] = @ + 1]
          /\ running' = [running EXCEPT ![AccountOf(queue[i])] = queue[i]]
      BY <2>1 DEF TakeSlot
    <3>2. slots \in [Pools -> Int] /\ running \in [Accounts -> Jobs \cup {None}]
      BY DEF TypeOK
    <3>3. PoolOf(queue[i]) \in Pools /\ AccountOf(queue[i]) \in Accounts
      BY <2>2, StateType
    <3> DEFINE p == PoolOf(queue[i])
               a == AccountOf(queue[i])
               j == queue[i]
    <3>4. /\ p \in Pools /\ a \in Accounts /\ j \in Jobs
          /\ slots' = [slots EXCEPT ![p] = @ + 1] /\ running' = [running EXCEPT ![a] = j]
      BY <2>2, <3>1, <3>3
    <3> HIDE DEF p, a, j, TypeOK
    <3>5. slots' \in [Pools -> Int]
      BY <3>2, <3>4
    <3>6. running' \in [Accounts -> Jobs \cup {None}]
      BY <3>2, <3>4
    <3> QED
      BY <3>5, <3>6
  <2>5. phase' \in [Jobs -> Phases]
    <3>1. phase \in [Jobs -> Phases] /\ "started" \in Phases
      BY DEF TypeOK, Phases
    <3>2. phase' = [phase EXCEPT ![queue[i]] = "started"]
      BY <2>1
    <3> HIDE DEF TypeOK
    <3> QED
      BY <3>1, <3>2
  <2> QED
    BY <1>23, <2>3, <2>4, <2>5 DEF PumpStart, TypeOK
<1>24. CASE PumpEnd
  BY <1>24 DEF PumpEnd, TypeOK
<1>25. ASSUME NEW a \in Accounts, DeleteAccount(a) PROVE TypeOK'
  BY <1>25 DEF DeleteAccount, TypeOK, Row
<1>26. ASSUME NEW a \in Accounts, SyncPaid(a) PROVE TypeOK'
  <2>1. PICK subscribed \in BOOLEAN : account' = [account EXCEPT ![a].paid = subscribed]
    BY <1>26 DEF SyncPaid
  <2>2. [account[a] EXCEPT !.paid = subscribed] \in Row
    BY DEF TypeOK, Row
  <2>3. account' \in [Accounts -> Row]
    BY <2>1, <2>2 DEF TypeOK
  <2> QED
    BY <1>26, <2>3 DEF SyncPaid, TypeOK
<1>27. ASSUME NEW a \in Accounts, ReceiveUpload(a) PROVE TypeOK'
  <2> DEFINE r == account[a]
             New(c) == [r EXCEPT !.status = "ready", !.paid = TRUE,
                                 !.credentials = IF @ = "full" THEN @ ELSE c]
  <2>1. PICK c \in {"cookie", "full"} : account' = [account EXCEPT ![a] = New(c)]
    BY <1>27 DEF ReceiveUpload
  <2>2. r \in Row
    BY DEF TypeOK
  <2>3. New(c) \in Row
    BY <2>2 DEF Row, AccountStatus, Credentials
  <2>4. account' \in [Accounts -> Row]
    BY <2>1, <2>3 DEF TypeOK
  <2> QED
    BY <1>27, <2>4 DEF ReceiveUpload, TypeOK
<1>28. CASE SaveLimits
  BY <1>28 DEF SaveLimits, TypeOK
<1>29. CASE Restart
  <2>1. queue' \in Seq(Jobs)
    BY <1>29, EmptySeq DEF Restart
  <2>2. /\ call' \in [Jobs -> Calls] /\ phase' \in [Jobs -> Phases]
        /\ status' \in [Jobs -> JobStatus] /\ result' \in [Jobs -> Results]
    BY <1>29 DEF Restart, Calls, Phases, JobStatus, Results
  <2>3. /\ snapshot' \in [Jobs -> Credentials]
        /\ attempt' \in [Jobs -> 0..AuthkitRetries]
    BY <1>29, JobManagerAssumption DEF Restart, Credentials
  <2>4. slots' \in [Pools -> Int] /\ running' \in [Accounts -> Jobs \cup {None}]
    BY <1>29 DEF Restart
  <2>5. restarts' \in 0..MaxRestarts
    <3>1. restarts \in 0..MaxRestarts
      BY DEF TypeOK
    <3>2. restarts < MaxRestarts /\ restarts' = restarts + 1
      BY <1>29 DEF Restart
    <3> QED
      BY <3>1, <3>2, JobManagerAssumption
  <2>6. pumping' \in BOOLEAN
    BY <1>29 DEF Restart
  <2> QED
    BY <1>29, <2>1, <2>2, <2>3, <2>4, <2>5, <2>6 DEF Restart, TypeOK
<1>30. CASE UNCHANGED vars
  BY <1>30 DEF vars, TypeOK
<1> QED
  BY <1>1, <1>2, <1>3, <1>4, <1>5, <1>6, <1>7, <1>8, <1>9, <1>10, <1>11, <1>12,
     <1>13, <1>14, <1>15, <1>16, <1>17, <1>18, <1>19, <1>20, <1>21, <1>22, <1>23,
     <1>24, <1>25, <1>26, <1>27, <1>28, <1>29, <1>30
     DEF Next, QueueNext, OutsideNext, RunStep

(* Type correctness of the whole job queue.                                *)
THEOREM TypeCorrect == Spec => []TypeOK
BY InitTypeOK, NextTypeOK, PTL DEF Spec

-----------------------------------------------------------------------------
(* The inductive invariant.                                                *)

(* m.queue lists the jobs whose goroutine does not exist yet, each once.   *)
QueueMatches ==
    /\ \A i \in 1..Len(queue) : phase[queue[i]] = "queued"
    /\ \A i, k \in 1..Len(queue) : queue[i] = queue[k] => i = k
    /\ \A j \in Jobs : phase[j] = "queued" => \E i \in 1..Len(queue) : queue[i] = j

NoJobYet == {"idle", "checked", "refused"}

(* The API shows such a job as queued; a call has a job once it appended it.*)
CallsMatch ==
    \A j \in Jobs :
        /\ phase[j] = "queued" => status[j] = "queued"
        /\ phase[j] = "none" <=> call[j] \in NoJobYet

RunningMatches ==
    \A a \in Accounts, j \in Jobs :
        running[a] = j <=> phase[j] \in Holding /\ AccountOf(j) = a

SlotsMatch ==
    \A p \in Pools : IsFiniteSet(Holders(p)) /\ slots[p] = Cardinality(Holders(p))

IInv ==
    /\ TypeOK
    /\ QueueMatches
    /\ CallsMatch
    /\ OneJobPerAccount
    /\ RunningMatches
    /\ SlotsMatch

(* A step that neither appends, starts, ends nor loses a job.              *)
Frame ==
    /\ UNCHANGED <<queue, slots, running>>
    /\ \A k \in Jobs :
          /\ job'[k] = job[k] \/ phase[k] = "none"
          /\ \/ phase'[k] = phase[k]
             \/ phase[k] \in Holding /\ phase'[k] \in Holding
             \/ phase[k] = "repumping" /\ phase'[k] = "done"
          /\ status'[k] = status[k] \/ phase[k] # "queued"
          /\ call'[k] \in NoJobYet <=> call[k] \in NoJobYet

LEMMA InitIInv == Init => IInv
<1> SUFFICES ASSUME Init PROVE IInv
  OBVIOUS
<1>1. TypeOK
  BY InitTypeOK
<1>2. QueueMatches /\ CallsMatch /\ OneJobPerAccount
  BY EmptySeq, LenProperties DEF Init, QueueMatches, CallsMatch, NoJobYet,
                                 OneJobPerAccount, Holding
<1>3. RunningMatches
  BY JobManagerAssumption DEF Init, RunningMatches, Holding
<1>4. SlotsMatch
  <2>1. \A p \in Pools : Holders(p) = {}
    BY DEF Init, Holders, Holding
  <2> QED
    BY <2>1, FS_EmptySet DEF Init, SlotsMatch
<1> QED
  BY <1>1, <1>2, <1>3, <1>4 DEF IInv

LEMMA FramePreserves ==
    ASSUME IInv, TypeOK', Frame
    PROVE  IInv'
<1>1. \A k \in Jobs :
         /\ phase'[k] \in Holding <=> phase[k] \in Holding
         /\ phase'[k] = "queued" <=> phase[k] = "queued"
         /\ phase'[k] = "none" <=> phase[k] = "none"
         /\ phase[k] # "none" => AccountOf(k)' = AccountOf(k) /\ PoolOf(k)' = PoolOf(k)
  BY DEF Frame, Holding, AccountOf, PoolOf
<1>2. \A i \in 1..Len(queue) : queue[i] \in Jobs
  BY ElementOfSeq DEF IInv, TypeOK
<1>3. QueueMatches'
  BY <1>1, <1>2 DEF IInv, QueueMatches, Frame
<1>4. CallsMatch'
  BY <1>1 DEF IInv, CallsMatch, Frame
<1>5. OneJobPerAccount'
  BY <1>1 DEF IInv, OneJobPerAccount, Holding
<1>6. RunningMatches'
  BY <1>1 DEF IInv, RunningMatches, Holding, Frame
<1>7. \A p \in Pools : Holders(p)' = Holders(p)
  BY <1>1 DEF Holders, Holding
<1>8. SlotsMatch'
  BY <1>7 DEF IInv, SlotsMatch, Frame
<1> QED
  BY <1>3, <1>4, <1>5, <1>6, <1>8 DEF IInv

(* The steps of Next that are frames: all but four kinds of step.          *)
LEMMA FrameSteps ==
    ASSUME IInv, [Next]_vars
    PROVE  \/ Frame
           \/ \E j \in Jobs : EnqueueAdd(j) \/ RunExit(j)
           \/ PumpStart
           \/ Restart
<1> USE DEF store, request, local, manager
<1>0. TypeOK /\ CallsMatch
  BY DEF IInv
<1>1. ASSUME NEW j \in Jobs,
             EnqueueCheck(j) \/ EnqueueRefuse(j) \/ EnqueueMark(j) \/ EnqueuePump(j)
      PROVE  Frame
  BY <1>0, <1>1 DEF EnqueueCheck, EnqueueRefuse, EnqueueMark, EnqueuePump, BeginPump,
                    Frame, CallsMatch, NoJobYet, TypeOK
<1>3. ASSUME NEW j \in Jobs,
             RunEnter(j) \/ RunReject(j) \/ RunFinish(j) \/ FailStatus(j)
      PROVE  Frame
  BY <1>0, <1>3 DEF RunEnter, RunReject, RunFinish, FailStatus, Goto, Frame, Holding, TypeOK
<1>4. ASSUME NEW j \in Jobs,
             \/ RunMark(j) \/ RunLoad(j) \/ RunRetry(j)
             \/ RunConfirm(j) \/ RunStoreError(j) \/ RunUnpaid(j)
      PROVE  Frame
  BY <1>0, <1>4 DEF RunMark, RunLoad, RunRetry, RunConfirm, RunStoreError,
              RunUnpaid, Goto, Frame, Holding, TypeOK
<1>5. ASSUME NEW j \in Jobs,
             RunReturn(j) \/ RunSave(j) \/ FailMark(j) \/ FailRestore(j)
      PROVE  Frame
  BY <1>0, <1>5 DEF RunReturn, RunSave, AfterSave, FailMark, FailRestore, Goto, Frame,
              Holding, TypeOK
<1>6. ASSUME NEW j \in Jobs, ExitPump(j) PROVE Frame
  BY <1>0, <1>6 DEF ExitPump, BeginPump, Frame, TypeOK
<1>7. ReloadPump \/ PumpEnd \/ SaveLimits => Frame
  BY DEF ReloadPump, BeginPump, PumpEnd, SaveLimits, Frame
<1>8. ASSUME NEW a \in Accounts, DeleteAccount(a) \/ SyncPaid(a) \/ ReceiveUpload(a)
      PROVE  Frame
  BY <1>8 DEF DeleteAccount, SyncPaid, ReceiveUpload, Frame
<1>9. UNCHANGED vars => Frame
  BY DEF vars, Frame
<1> QED
  BY <1>1, <1>3, <1>4, <1>5, <1>6, <1>7, <1>8, <1>9
     DEF Next, QueueNext, OutsideNext, RunStep

LEMMA EnqueueAddIInv ==
    ASSUME IInv, TypeOK', NEW j \in Jobs, EnqueueAdd(j)
    PROVE  IInv'
<1> USE DEF store, request, local, manager
<1>1. /\ phase[j] = "none"
      /\ running[AccountOf(j)] = None
      /\ \A i \in 1..Len(queue) : queue[i] \in Jobs /\ queue[i] # j
      /\ Len(queue) \in Nat
  <2>1. phase[j] = "none" /\ running[AccountOf(j)] = None
    BY DEF EnqueueAdd, AccountBusy, IInv, CallsMatch, NoJobYet
  <2>2. Len(queue) \in Nat /\ \A i \in 1..Len(queue) : queue[i] \in Jobs
    BY ElementOfSeq, LenProperties DEF IInv, TypeOK
  <2> QED
    BY <2>1, <2>2 DEF IInv, QueueMatches
<1>2. \A k \in Jobs : AccountOf(k)' = AccountOf(k) /\ PoolOf(k)' = PoolOf(k)
  BY DEF EnqueueAdd, AccountOf, PoolOf
<1>3. /\ phase'[j] = "queued" /\ status'[j] = "queued" /\ call'[j] = "added"
      /\ \A k \in Jobs \ {j} : /\ phase'[k] = phase[k] /\ status'[k] = status[k]
                              /\ call'[k] = call[k]
  BY DEF EnqueueAdd, IInv, TypeOK
<1>4. /\ Len(queue') = Len(queue) + 1
      /\ \A i \in 1..Len(queue) : queue'[i] = queue[i]
      /\ queue'[Len(queue) + 1] = j
  BY AppendProperties DEF EnqueueAdd, IInv, TypeOK
<1>5. QueueMatches'
  <2>1. \A i \in 1..Len(queue') : i \in 1..Len(queue) \/ i = Len(queue) + 1
    BY <1>1, <1>4
  <2>2. \A i \in 1..Len(queue') : phase'[queue'[i]] = "queued"
    BY <1>1, <1>3, <1>4, <2>1 DEF IInv, QueueMatches
  <2>3. \A i, k \in 1..Len(queue') : queue'[i] = queue'[k] => i = k
    BY <1>1, <1>4, <2>1 DEF IInv, QueueMatches
  <2>4. \A k \in Jobs : phase'[k] = "queued" => \E i \in 1..Len(queue') : queue'[i] = k
    <3>1. ASSUME NEW k \in Jobs \ {j}, phase'[k] = "queued"
          PROVE  \E i \in 1..Len(queue') : queue'[i] = k
      <4>1. PICK i \in 1..Len(queue) : queue[i] = k
        BY <1>3, <3>1 DEF IInv, QueueMatches
      <4> QED
        BY <1>1, <1>4, <4>1
    <3>2. \E i \in 1..Len(queue') : queue'[i] = j
      BY <1>1, <1>4
    <3> QED
      BY <3>1, <3>2
  <2> QED
    BY <2>2, <2>3, <2>4 DEF QueueMatches
<1>6. CallsMatch'
  BY <1>3 DEF IInv, CallsMatch, NoJobYet
<1>7. \A k \in Jobs : phase[k] \in Holding \cup {"queued"} => AccountOf(k) # AccountOf(j)
  <2> SUFFICES ASSUME NEW k \in Jobs, phase[k] \in Holding \cup {"queued"},
                      AccountOf(k) = AccountOf(j)
               PROVE  FALSE
    OBVIOUS
  <2>1. CASE phase[k] \in Holding
    <3>1. running[AccountOf(j)] = k
      BY <2>1, StateType DEF IInv, RunningMatches
    <3> QED
      BY <1>1, <3>1, JobManagerAssumption
  <2>2. CASE phase[k] = "queued"
    <3>1. PICK i \in 1..Len(queue) : queue[i] = k
      BY <2>2 DEF IInv, QueueMatches
    <3>2. status[k] = "queued"
      BY <2>2 DEF IInv, CallsMatch
    <3>3. i \in DOMAIN queue
      BY LenProperties, <3>1 DEF IInv, TypeOK
    <3> QED
      BY <3>1, <3>2, <3>3 DEF EnqueueAdd, AccountBusy
  <2> QED
    BY <2>1, <2>2
<1>8. OneJobPerAccount'
  BY <1>2, <1>3, <1>7 DEF IInv, OneJobPerAccount
<1>9. \A k \in Jobs : phase'[k] \in Holding <=> phase[k] \in Holding
  BY <1>1, <1>3 DEF Holding
<1>10. RunningMatches'
  BY <1>2, <1>9 DEF IInv, RunningMatches, EnqueueAdd
<1>11. \A p \in Pools : Holders(p)' = Holders(p)
  BY <1>2, <1>9 DEF Holders
<1>12. SlotsMatch'
  BY <1>11 DEF IInv, SlotsMatch, EnqueueAdd
<1> QED
  BY <1>5, <1>6, <1>8, <1>10, <1>12 DEF IInv

(* What a turn of pump's loop does: one queued job gets its goroutine.     *)
LEMMA PumpStartProperties ==
    ASSUME IInv, PumpStart
    PROVE  \E i \in 1..Len(queue) :
              /\ queue[i] \in Jobs
              /\ phase[queue[i]] = "queued"
              /\ phase' = [phase EXCEPT ![queue[i]] = "started"]
              /\ slots[PoolOf(queue[i])] < cap[PoolOf(queue[i])]
              /\ TakeSlot(queue[i])
              /\ queue' = RemoveIndex(queue, i)
              /\ UNCHANGED <<call, job, status, cap, limit, pumping>>
<1>1. PICK i \in DOMAIN queue :
         /\ FirstFit(i)
         /\ TakeSlot(queue[i])
         /\ phase' = [phase EXCEPT ![queue[i]] = "started"]
         /\ queue' = RemoveIndex(queue, i)
  BY DEF PumpStart
<1>2. i \in 1..Len(queue) /\ queue[i] \in Jobs
  BY LenProperties, ElementOfSeq DEF IInv, TypeOK
<1>3. UNCHANGED <<call, job, status, cap, limit, pumping>>
  BY DEF PumpStart, store, request
<1>4. phase[queue[i]] = "queued"
  BY <1>2 DEF IInv, QueueMatches
<1>5. slots[PoolOf(queue[i])] < cap[PoolOf(queue[i])]
  BY <1>1 DEF FirstFit, Fits
<1> QED
  BY <1>1, <1>2, <1>3, <1>4, <1>5

LEMMA PumpStartIInv ==
    ASSUME IInv, TypeOK', PumpStart
    PROVE  IInv'
<1>1. PICK i \in 1..Len(queue) :
         /\ queue[i] \in Jobs
         /\ phase[queue[i]] = "queued"
         /\ phase' = [phase EXCEPT ![queue[i]] = "started"]
         /\ slots[PoolOf(queue[i])] < cap[PoolOf(queue[i])]
         /\ TakeSlot(queue[i])
         /\ queue' = RemoveIndex(queue, i)
         /\ UNCHANGED <<call, job, status, cap, limit, pumping>>
  BY PumpStartProperties
<1> DEFINE j == queue[i]
<1>2. \A k \in Jobs : AccountOf(k)' = AccountOf(k) /\ PoolOf(k)' = PoolOf(k)
  BY <1>1 DEF AccountOf, PoolOf
<1>3. phase'[j] = "started" /\ \A k \in Jobs \ {j} : phase'[k] = phase[k]
  BY <1>1 DEF IInv, TypeOK
<1>4. /\ Len(queue) \in Nat
      /\ Len(queue') = Len(queue) - 1
      /\ \A k \in 1..(Len(queue) - 1) :
            queue'[k] = IF k < i THEN queue[k] ELSE queue[k + 1]
  <2>1. queue \in Seq(Jobs) /\ queue' = RemoveIndex(queue, i)
    BY <1>1 DEF IInv, TypeOK
  <2>2. /\ Len(RemoveIndex(queue, i)) = Len(queue) - 1
        /\ \A k \in 1..(Len(queue) - 1) :
              RemoveIndex(queue, i)[k] = IF k < i THEN queue[k] ELSE queue[k + 1]
    BY <2>1, RemoveIndexProperties
  <2>3. Len(queue) \in Nat
    BY <2>1, LenProperties
  <2> QED
    BY <2>1, <2>2, <2>3
<1>5. /\ \A m \in 1..Len(queue) : queue[m] \in Jobs
      /\ \A m \in 1..Len(queue) : m # i => queue[m] # j
      /\ \A m \in 1..Len(queue) : phase[queue[m]] = "queued"
  BY ElementOfSeq DEF IInv, TypeOK, QueueMatches
<1>6. QueueMatches'
  <2>1. ASSUME NEW m \in 1..Len(queue')
        PROVE  phase'[queue'[m]] = "queued"
    <3>1. PICK n \in 1..Len(queue) : n # i /\ queue'[m] = queue[n]
      BY <1>4, <2>1
    <3> QED
      BY <1>3, <1>5, <3>1
  <2>2. ASSUME NEW m \in 1..Len(queue'), NEW n \in 1..Len(queue'), queue'[m] = queue'[n]
        PROVE  m = n
    BY <1>4, <2>2 DEF IInv, QueueMatches
  <2>3. ASSUME NEW k \in Jobs, phase'[k] = "queued"
        PROVE  \E m \in 1..Len(queue') : queue'[m] = k
    <3>1. k # j /\ phase[k] = "queued"
      BY <1>3, <2>3
    <3>2. PICK n \in 1..Len(queue) : queue[n] = k
      BY <3>1 DEF IInv, QueueMatches
    <3>3. CASE n < i
      BY <1>4, <3>2, <3>3
    <3>4. CASE n > i
      <4>1. n - 1 \in 1..(Len(queue) - 1) /\ ~(n - 1 < i) /\ (n - 1) + 1 = n
        BY <1>4, <3>4
      <4> QED
        BY <1>4, <3>2, <4>1
    <3> QED
      BY <3>1, <3>2, <3>3, <3>4
  <2> QED
    BY <2>1, <2>2, <2>3 DEF QueueMatches
<1>7. CallsMatch'
  BY <1>1, <1>3 DEF IInv, CallsMatch
<1>8. OneJobPerAccount'
  BY <1>1, <1>2, <1>3 DEF IInv, OneJobPerAccount, Holding
<1>9. \A k \in Jobs : phase'[k] \in Holding <=> (phase[k] \in Holding \/ k = j)
  BY <1>1, <1>3 DEF Holding
<1>10. RunningMatches'
  <2>1. AccountOf(j) \in Accounts
    BY <1>1, StateType DEF IInv
  <2>2. /\ running'[AccountOf(j)] = j
        /\ \A a \in Accounts \ {AccountOf(j)} : running'[a] = running[a]
    BY <1>1, <2>1 DEF TakeSlot, IInv, TypeOK
  <2>3. \A k \in Jobs : phase[k] \in Holding => AccountOf(k) # AccountOf(j)
    BY <1>1 DEF IInv, OneJobPerAccount, Holding
  <2> QED
    BY <1>1, <1>2, <1>9, <2>1, <2>2, <2>3 DEF IInv, RunningMatches
<1>11. SlotsMatch'
  <2> SUFFICES ASSUME NEW p \in Pools
               PROVE  /\ IsFiniteSet(Holders(p)')
                      /\ slots'[p] = Cardinality(Holders(p)')
    BY DEF SlotsMatch
  <2>1. IsFiniteSet(Holders(p)) /\ slots[p] = Cardinality(Holders(p))
    BY DEF IInv, SlotsMatch
  <2>2. slots' = [slots EXCEPT ![PoolOf(j)] = @ + 1]
    BY <1>1 DEF TakeSlot
  <2>3. CASE p = PoolOf(j)
    <3>1. Holders(p)' = Holders(p) \cup {j} /\ j \notin Holders(p)
      BY <1>1, <1>2, <1>9, <2>3 DEF Holders, Holding
    <3>2. slots'[p] = slots[p] + 1
      BY <2>2, <2>3 DEF IInv, TypeOK
    <3> QED
      BY <2>1, <3>1, <3>2, FS_AddElement
  <2>4. CASE p # PoolOf(j)
    <3>1. Holders(p)' = Holders(p)
      BY <1>1, <1>2, <1>9, <2>4 DEF Holders
    <3>2. slots'[p] = slots[p]
      BY <2>2, <2>4 DEF IInv, TypeOK
    <3> QED
      BY <2>1, <3>1, <3>2
  <2> QED
    BY <2>3, <2>4
<1> QED
  BY <1>6, <1>7, <1>8, <1>10, <1>11 DEF IInv

LEMMA RunExitIInv ==
    ASSUME IInv, TypeOK', NEW j \in Jobs, RunExit(j)
    PROVE  IInv'
<1>1. /\ UNCHANGED <<call, job, status, queue>>
      /\ phase[j] = "exiting"
      /\ slots' = [slots EXCEPT ![PoolOf(j)] = @ - 1]
      /\ running' = [running EXCEPT ![AccountOf(j)] = None]
  BY DEF RunExit, GiveBack, Goto, request
<1>2. phase'[j] = "repumping" /\ \A k \in Jobs \ {j} : phase'[k] = phase[k]
  BY DEF RunExit, Goto, IInv, TypeOK
<1>3. \A k \in Jobs : AccountOf(k)' = AccountOf(k) /\ PoolOf(k)' = PoolOf(k)
  BY <1>1 DEF AccountOf, PoolOf
<1>4. \A k \in Jobs : phase'[k] \in Holding <=> (phase[k] \in Holding /\ k # j)
  BY <1>1, <1>2 DEF Holding
<1>5. QueueMatches'
  <2>1. \A m \in 1..Len(queue) : queue[m] \in Jobs /\ queue[m] # j
    BY <1>1, ElementOfSeq DEF IInv, TypeOK, QueueMatches
  <2> QED
    BY <1>1, <1>2, <2>1 DEF IInv, QueueMatches
<1>6. CallsMatch'
  BY <1>1, <1>2 DEF IInv, CallsMatch
<1>7. OneJobPerAccount'
  BY <1>2, <1>3, <1>4 DEF IInv, OneJobPerAccount
<1>8. RunningMatches'
  <2>1. AccountOf(j) \in Accounts
    BY StateType DEF IInv
  <2>2. /\ running'[AccountOf(j)] = None
        /\ \A a \in Accounts \ {AccountOf(j)} : running'[a] = running[a]
    BY <1>1, <2>1 DEF IInv, TypeOK
  <2>3. \A k \in Jobs \ {j} : phase[k] \in Holding => AccountOf(k) # AccountOf(j)
    BY <1>1 DEF IInv, OneJobPerAccount, Holding
  <2> QED
    BY <1>3, <1>4, <2>1, <2>2, <2>3, JobManagerAssumption DEF IInv, RunningMatches
<1>9. SlotsMatch'
  <2> SUFFICES ASSUME NEW p \in Pools
               PROVE  /\ IsFiniteSet(Holders(p)')
                      /\ slots'[p] = Cardinality(Holders(p)')
    BY DEF SlotsMatch
  <2>1. IsFiniteSet(Holders(p)) /\ slots[p] = Cardinality(Holders(p))
    BY DEF IInv, SlotsMatch
  <2>2. CASE p = PoolOf(j)
    <3>1. Holders(p)' = Holders(p) \ {j} /\ j \in Holders(p)
      BY <1>1, <1>3, <1>4, <2>2 DEF Holders, Holding
    <3>2. slots'[p] = slots[p] - 1
      BY <1>1, <2>2 DEF IInv, TypeOK
    <3> QED
      BY <2>1, <3>1, <3>2, FS_RemoveElement
  <2>3. CASE p # PoolOf(j)
    <3>1. Holders(p)' = Holders(p)
      BY <1>3, <1>4, <2>3 DEF Holders
    <3>2. slots'[p] = slots[p]
      BY <1>1, <2>3 DEF IInv, TypeOK
    <3> QED
      BY <2>1, <3>1, <3>2
  <2> QED
    BY <2>2, <2>3
<1> QED
  BY <1>5, <1>6, <1>7, <1>8, <1>9 DEF IInv

LEMMA RestartIInv ==
    ASSUME IInv, TypeOK', Restart
    PROVE  IInv'
<1>1. \A k \in Jobs : /\ phase'[k] \in {"none", "lost"}
                      /\ phase'[k] = "none" <=> call'[k] = "idle"
                      /\ call'[k] \in {"idle", "lost"}
  BY DEF Restart, IInv, TypeOK
<1>2. Len(queue') = 0
  BY EmptySeq DEF Restart
<1>3. QueueMatches' /\ CallsMatch' /\ OneJobPerAccount'
  BY <1>1, <1>2 DEF QueueMatches, CallsMatch, NoJobYet, OneJobPerAccount, Holding
<1>4. RunningMatches'
  BY <1>1, JobManagerAssumption DEF Restart, RunningMatches, Holding
<1>5. SlotsMatch'
  <2>1. \A p \in Pools : Holders(p)' = {}
    BY <1>1 DEF Holders, Holding
  <2> QED
    BY <2>1, FS_EmptySet DEF Restart, SlotsMatch
<1> QED
  BY <1>3, <1>4, <1>5 DEF IInv

LEMMA NextIInv == IInv /\ [Next]_vars => IInv'
<1> SUFFICES ASSUME IInv, [Next]_vars PROVE IInv'
  OBVIOUS
<1>1. TypeOK'
  BY NextTypeOK DEF IInv
<1> QED
  BY <1>1, FrameSteps, FramePreserves, EnqueueAddIInv, RunExitIInv, PumpStartIInv,
     RestartIInv

(* The four records of a job agree in every reachable state.               *)
THEOREM RecordsAgree == Spec => []IInv
BY InitIInv, NextIInv, PTL DEF Spec

(* No account is ever in two jobs, queued or running (accountBusy is       *)
(* evaluated under the lock that appends; running is cleared only by the   *)
(* deferred function of run).                                              *)
THEOREM NoSharedAccount == Spec => []OneJobPerAccount
<1>1. IInv => OneJobPerAccount
  BY DEF IInv
<1> QED
  BY <1>1, RecordsAgree, PTL

(* m.active, m.activeCookie and m.running always describe the goroutines.  *)
THEOREM SlotsAreExact == Spec => []SlotsMatchGoroutines
<1>1. IInv => SlotsMatchGoroutines
  BY DEF IInv, SlotsMatch, RunningMatches, SlotsMatchGoroutines
<1> QED
  BY <1>1, RecordsAgree, PTL

-----------------------------------------------------------------------------
(* A pump is running, or some call or ending job has still to pump.        *)
PumpOwed ==
    pumping \/ \E j \in Jobs : call[j] \in {"added", "marked"} \/ phase[j] = "repumping"

(* The inductive form of NoLostWakeup: against the limits the last pump    *)
(* read, which SaveLimits does not touch.                                  *)
Wakeup ==
    \A i \in 1..Len(queue) :
        slots[PoolOf(queue[i])] < cap[PoolOf(queue[i])] => PumpOwed

LEMMA WakeupSteps ==
    ASSUME IInv, Wakeup, [Next]_vars
    PROVE  PumpOwed' \/ (~PumpOwed /\ UNCHANGED <<queue, slots, cap>>) \/ Wakeup'
<1> USE DEF store, request, local, manager
<1>0. TypeOK
  BY DEF IInv
<1>1. ASSUME NEW j \in Jobs, EnqueueAdd(j) \/ EnqueueMark(j) \/ EnqueuePump(j) \/ ExitPump(j)
      PROVE  PumpOwed'
  BY <1>0, <1>1 DEF EnqueueAdd, EnqueueMark, EnqueuePump, ExitPump, BeginPump, PumpOwed,
                    TypeOK
<1>2. ASSUME NEW j \in Jobs, RunExit(j) PROVE PumpOwed'
  BY <1>0, <1>2 DEF RunExit, Goto, PumpOwed, TypeOK
<1>3. ReloadPump \/ PumpStart => PumpOwed'
  BY DEF ReloadPump, BeginPump, PumpStart, PumpOwed
<1>4. CASE PumpEnd
  <2>1. \A i \in 1..Len(queue) : ~(slots[PoolOf(queue[i])] < cap[PoolOf(queue[i])])
    BY <1>0, <1>4, LenProperties DEF PumpEnd, Fits, TypeOK
  <2>2. UNCHANGED <<queue, slots, cap, job>>
    BY <1>4 DEF PumpEnd
  <2> QED
    BY <2>1, <2>2 DEF Wakeup, PoolOf
<1>5. CASE Restart
  BY <1>5, EmptySeq DEF Restart, Wakeup
<1>6. ASSUME UNCHANGED <<queue, slots, cap, pumping>>,
             \A k \in Jobs : call[k] \in {"added", "marked"} => call'[k] = call[k],
             \A k \in Jobs : phase[k] = "repumping" => phase'[k] = phase[k]
      PROVE  PumpOwed' \/ (~PumpOwed /\ UNCHANGED <<queue, slots, cap>>)
  <2>1. CASE pumping
    BY <1>6, <2>1, Zenon DEF PumpOwed
  <2>2. ASSUME NEW j \in Jobs, call[j] \in {"added", "marked"} PROVE PumpOwed'
    <3>1. call'[j] \in {"added", "marked"}
      BY <1>6, <2>2, Zenon
    <3> QED
      BY <3>1 DEF PumpOwed
  <2>3. ASSUME NEW j \in Jobs, phase[j] = "repumping" PROVE PumpOwed'
    <3>1. phase'[j] = "repumping"
      BY <1>6, <2>3, Zenon
    <3> QED
      BY <3>1 DEF PumpOwed
  <2>4. CASE ~PumpOwed
    BY <1>6, <2>4
  <2> QED
    BY <2>1, <2>2, <2>3, <2>4 DEF PumpOwed
<1>7. ASSUME NEW j \in Jobs, EnqueueCheck(j) \/ EnqueueRefuse(j)
      PROVE  PumpOwed' \/ (~PumpOwed /\ UNCHANGED <<queue, slots, cap>>)
  <2>1. UNCHANGED <<queue, slots, cap, pumping, phase>>
    BY <1>7 DEF EnqueueCheck, EnqueueRefuse
  <2>2. \A k \in Jobs : call[k] \in {"added", "marked"} => call'[k] = call[k]
    BY <1>0, <1>7 DEF EnqueueCheck, EnqueueRefuse, TypeOK
  <2> QED
    BY <1>6, <2>1, <2>2
<1>8. ASSUME NEW j \in Jobs,
             \/ RunEnter(j) \/ RunMark(j) \/ RunLoad(j) \/ RunReturn(j) \/ RunSave(j)
             \/ RunConfirm(j) \/ RunUnpaid(j) \/ RunReject(j) \/ RunFinish(j)
             \/ FailStatus(j) \/ FailMark(j) \/ FailRestore(j)
             \/ RunRetry(j) \/ RunStoreError(j)
      PROVE  PumpOwed' \/ (~PumpOwed /\ UNCHANGED <<queue, slots, cap>>)
  <2>1. UNCHANGED <<queue, slots, cap, pumping, call>>
    BY <1>8 DEF RunEnter, RunMark, RunLoad, RunReturn, RunSave, RunConfirm, RunUnpaid,
                RunReject, RunFinish, FailStatus, FailMark, FailRestore, RunRetry,
                RunStoreError
  <2>2. phase[j] # "repumping" /\ \A k \in Jobs \ {j} : phase'[k] = phase[k]
    BY <1>0, <1>8
       DEF RunEnter, RunMark, RunLoad, RunReturn, RunSave, RunConfirm, RunUnpaid,
           RunReject, RunFinish, FailStatus, FailMark, FailRestore, RunRetry,
           RunStoreError, Goto, TypeOK
  <2> QED
    BY <1>6, <2>1, <2>2
<1>9. ASSUME \/ \E a \in Accounts : DeleteAccount(a) \/ SyncPaid(a) \/ ReceiveUpload(a)
             \/ SaveLimits \/ UNCHANGED vars
      PROVE  PumpOwed' \/ (~PumpOwed /\ UNCHANGED <<queue, slots, cap>>)
  <2>1. UNCHANGED <<queue, slots, cap, pumping, phase, call>>
    BY <1>9 DEF DeleteAccount, SyncPaid, ReceiveUpload, SaveLimits, vars
  <2> QED
    BY <1>6, <2>1
<1> QED
  BY <1>1, <1>2, <1>3, <1>4, <1>5, <1>7, <1>8, <1>9
     DEF Next, QueueNext, OutsideNext, RunStep

LEMMA NextWakeup == IInv /\ Wakeup /\ [Next]_vars => Wakeup'
<1> SUFFICES ASSUME IInv, Wakeup, [Next]_vars PROVE Wakeup'
  OBVIOUS
<1>1. CASE PumpOwed'
  BY <1>1 DEF Wakeup
<1>2. CASE Wakeup'
  BY <1>2
<1>3. CASE Restart
  BY <1>3, EmptySeq DEF Restart, Wakeup
<1>4. CASE ~PumpOwed /\ UNCHANGED <<queue, slots, cap>> /\ ~PumpOwed' /\ ~Restart
  <2>1. Frame
    <3>1. ~(\E j \in Jobs : EnqueueAdd(j))
      BY <1>4 DEF EnqueueAdd, PumpOwed, IInv, TypeOK
    <3>2. ~(\E j \in Jobs : RunExit(j))
      BY <1>4 DEF RunExit, Goto, PumpOwed, IInv, TypeOK
    <3>3. ~PumpStart
      BY <1>4 DEF PumpStart, PumpOwed
    <3> QED
      BY <1>4, <3>1, <3>2, <3>3, FrameSteps
  <2>2. \A i \in 1..Len(queue) : PoolOf(queue[i])' = PoolOf(queue[i])
    <3>1. \A i \in 1..Len(queue) : queue[i] \in Jobs /\ phase[queue[i]] = "queued"
      BY ElementOfSeq DEF IInv, TypeOK, QueueMatches
    <3> QED
      BY <2>1, <3>1 DEF Frame, PoolOf
  <2> QED
    BY <1>4, <2>2 DEF Wakeup
<1> QED
  BY <1>1, <1>2, <1>3, <1>4, WakeupSteps

(* A queued job that fits is never forgotten: whoever makes room or adds a *)
(* job still has to pump, or is pumping.                                   *)
THEOREM NoJobIsForgotten == Spec => []NoLostWakeup
<1>1. Init => Wakeup
  BY EmptySeq DEF Init, Wakeup
<1>2. IInv /\ Wakeup => NoLostWakeup
  <2> SUFFICES ASSUME IInv, Wakeup, NEW i \in DOMAIN queue,
                      slots[PoolOf(queue[i])] < limit[PoolOf(queue[i])]
               PROVE  \/ pumping
                      \/ cap[PoolOf(queue[i])] < limit[PoolOf(queue[i])]
                      \/ \E j \in Jobs : call[j] \in {"added", "marked"}
                                        \/ phase[j] = "repumping"
    BY DEF NoLostWakeup
  <2>1. i \in 1..Len(queue) /\ PoolOf(queue[i]) \in Pools
    BY LenProperties DEF IInv, TypeOK, PoolOf, Pools
  <2>2. CASE PumpOwed
    BY <2>2 DEF PumpOwed
  <2>3. CASE ~(slots[PoolOf(queue[i])] < cap[PoolOf(queue[i])])
    <3> DEFINE p == PoolOf(queue[i])
    <3>1. slots[p] \in Int /\ cap[p] \in Int /\ limit[p] \in Int
      BY <2>1 DEF IInv, TypeOK
    <3> QED
      BY <2>3, <3>1
  <2> QED
    BY <2>1, <2>2, <2>3 DEF Wakeup
<1> QED
  BY <1>1, <1>2, NextWakeup, RecordsAgree, PTL DEF Spec

(* pump never starts a session when its pool already has as many as the    *)
(* limit it read: the counter it compares is the number of sessions.       *)
THEOREM LimitIsKept == Spec => StartsWithinLimit
<1>1. IInv /\ [Next]_vars
      => [\A j \in Jobs : phase[j] = "queued" /\ phase'[j] = "started"
            => Cardinality(Holders(PoolOf(j))) < cap[PoolOf(j)]]_vars
  <2> SUFFICES ASSUME IInv, [Next]_vars,
                      NEW j \in Jobs, phase[j] = "queued", phase'[j] = "started"
               PROVE  Cardinality(Holders(PoolOf(j))) < cap[PoolOf(j)]
    OBVIOUS
  <2>1. ~Frame
    BY DEF Frame, Holding
  <2>2. ASSUME NEW k \in Jobs, EnqueueAdd(k) \/ RunExit(k) PROVE FALSE
    BY <2>2 DEF EnqueueAdd, RunExit, Goto, IInv, TypeOK
  <2>3. ~Restart
    BY DEF Restart, IInv, TypeOK
  <2>4. PICK i \in 1..Len(queue) :
           /\ queue[i] \in Jobs
           /\ phase' = [phase EXCEPT ![queue[i]] = "started"]
           /\ slots[PoolOf(queue[i])] < cap[PoolOf(queue[i])]
    BY <2>1, <2>2, <2>3, FrameSteps, PumpStartProperties
  <2>5. queue[i] = j
    BY <2>4 DEF IInv, TypeOK
  <2> QED
    BY <2>4, <2>5, StateType DEF IInv, SlotsMatch
<1> QED
  BY <1>1, RecordsAgree, PTL DEF Spec, StartsWithinLimit

(* What StartsInOrder asks of two places of the queue.                     *)
InOrder(m, n) ==
    /\ phase'[queue[n]] # "started"
    /\ \E x, y \in DOMAIN queue' : x < y /\ queue'[x] = queue[m] /\ queue'[y] = queue[n]

(* A turn of pump's loop takes the first job of a pool that has room, and  *)
(* closes the gap.                                                         *)
LEMMA PumpInOrder ==
    ASSUME IInv, PumpStart, NEW m \in DOMAIN queue, NEW n \in DOMAIN queue, m < n,
           PoolOf(queue[m]) = PoolOf(queue[n]), phase'[queue[m]] = "queued"
    PROVE  InOrder(m, n)
<1>1. PICK i \in DOMAIN queue :
         /\ FirstFit(i)
         /\ phase' = [phase EXCEPT ![queue[i]] = "started"]
         /\ queue' = RemoveIndex(queue, i)
  BY DEF PumpStart
<1>2. /\ queue \in Seq(Jobs) /\ Len(queue) \in Nat /\ DOMAIN queue = 1..Len(queue)
      /\ \A k \in 1..Len(queue) : queue[k] \in Jobs /\ phase[queue[k]] = "queued"
  BY LenProperties, ElementOfSeq DEF IInv, TypeOK, QueueMatches
<1>3. phase'[queue[i]] = "started" /\ \A k \in Jobs \ {queue[i]} : phase'[k] = phase[k]
  BY <1>1, <1>2 DEF IInv, TypeOK
<1>4. m # i
  BY <1>3
<1>5. n # i
  <2>1. Fits(n) <=> Fits(m)
    BY DEF Fits
  <2>2. m \in 1..(n - 1)
    BY <1>2
  <2> QED
    BY <1>1, <2>1, <2>2 DEF FirstFit
<1>6. phase'[queue[n]] # "started"
  <2>1. queue[n] # queue[i]
    BY <1>2, <1>5 DEF IInv, QueueMatches
  <2> QED
    BY <1>2, <1>3, <2>1
<1>7. /\ queue' \in Seq(Jobs) /\ Len(queue') = Len(queue) - 1
      /\ \A k \in 1..(Len(queue) - 1) : queue'[k] = IF k < i THEN queue[k] ELSE queue[k + 1]
  <2>1. queue \in Seq(Jobs) /\ i \in 1..Len(queue)
    BY <1>2
  <2>2. /\ RemoveIndex(queue, i) \in Seq(Jobs)
        /\ Len(RemoveIndex(queue, i)) = Len(queue) - 1
        /\ \A k \in 1..(Len(queue) - 1) :
              RemoveIndex(queue, i)[k] = IF k < i THEN queue[k] ELSE queue[k + 1]
    BY <2>1, RemoveIndexProperties
  <2>3. queue' = RemoveIndex(queue, i)
    BY <1>1
  <2> QED
    BY <2>2, <2>3, Zenon
<1> DEFINE Place(k) == IF k < i THEN k ELSE k - 1
<1>8. ASSUME NEW k \in {m, n}
      PROVE  Place(k) \in 1..(Len(queue) - 1) /\ queue'[Place(k)] = queue[k]
  <2>1. k \in Nat /\ i \in Nat /\ k # i /\ 1 <= k /\ k <= Len(queue) /\ 1 <= i /\ i <= Len(queue)
    BY <1>2, <1>4, <1>5
  <2>2. CASE k < i
    BY <1>2, <1>7, <2>1, <2>2
  <2>3. CASE k > i
    <3>1. k - 1 \in 1..(Len(queue) - 1) /\ ~(k - 1 < i) /\ (k - 1) + 1 = k
      BY <1>2, <2>1, <2>3
    <3> QED
      BY <1>7, <2>1, <2>3, <3>1
  <2> QED
    BY <2>1, <2>2, <2>3
<1>9. Place(m) < Place(n)
  BY <1>2, <1>4, <1>5
<1>10. DOMAIN queue' = 1..(Len(queue) - 1)
  BY <1>7, LenProperties
<1> HIDE DEF Place
<1> QED
  BY <1>6, <1>8, <1>9, <1>10, Zenon DEF InOrder

(* pump may skip a job whose pool is full, and start a later one of the    *)
(* other pool, but no job overtakes another of its own pool.               *)
THEOREM NoOvertaking == Spec => StartsInOrder
<1> DEFINE Kept == \A m, n \in DOMAIN queue :
             m < n /\ PoolOf(queue[m]) = PoolOf(queue[n]) /\ phase'[queue[m]] = "queued"
             => InOrder(m, n)
<1>1. IInv /\ [Next]_vars => [Kept]_vars
  <2> SUFFICES ASSUME IInv, [Next]_vars, NEW m \in DOMAIN queue, NEW n \in DOMAIN queue, m < n,
                      PoolOf(queue[m]) = PoolOf(queue[n]), phase'[queue[m]] = "queued"
               PROVE  InOrder(m, n)
    OBVIOUS
  <2>1. /\ queue \in Seq(Jobs) /\ Len(queue) \in Nat /\ DOMAIN queue = 1..Len(queue)
        /\ \A k \in 1..Len(queue) : queue[k] \in Jobs /\ phase[queue[k]] = "queued"
    BY LenProperties, ElementOfSeq DEF IInv, TypeOK, QueueMatches
  <2>2. CASE queue' = queue /\ phase'[queue[n]] # "started"
    BY <2>2 DEF InOrder
  <2>3. CASE Frame
    <3>1. phase'[queue[n]] = phase[queue[n]]
      BY <2>1, <2>3 DEF Frame, Holding
    <3> QED
      BY <2>1, <2>2, <2>3, <3>1 DEF Frame
  <2>4. ASSUME NEW j \in Jobs, EnqueueAdd(j) PROVE InOrder(m, n)
    <3>1. queue' = Append(queue, j) /\ phase' = [phase EXCEPT ![j] = "queued"]
      BY <2>4 DEF EnqueueAdd
    <3>2. DOMAIN queue' = 1..(Len(queue) + 1) /\ \A k \in 1..Len(queue) : queue'[k] = queue[k]
      BY <2>1, <3>1
    <3>3. phase'[queue[n]] = "queued"
      BY <2>1, <3>1 DEF IInv, TypeOK
    <3>4. m \in DOMAIN queue' /\ n \in DOMAIN queue' /\ queue'[m] = queue[m] /\ queue'[n] = queue[n]
      BY <2>1, <3>2
    <3> QED
      BY <3>3, <3>4 DEF InOrder
  <2>5. ASSUME NEW j \in Jobs, RunExit(j) PROVE InOrder(m, n)
    <3>1. queue' = queue /\ phase[j] = "exiting" /\ phase' = [phase EXCEPT ![j] = "repumping"]
      BY <2>5 DEF RunExit, Goto
    <3>2. phase'[queue[n]] = phase[queue[n]]
      BY <2>1, <3>1 DEF IInv, TypeOK
    <3> QED
      BY <2>1, <2>2, <3>1, <3>2
  <2>6. ~Restart
    BY <2>1 DEF Restart
  <2>7. PumpStart => InOrder(m, n)
    BY PumpInOrder
  <2> QED
    BY <2>3, <2>4, <2>5, <2>6, <2>7, FrameSteps
<1>2. [][Kept]_vars => StartsInOrder
  <2>1. [Kept]_vars => [\A m, n \in DOMAIN queue :
          m < n /\ PoolOf(queue[m]) = PoolOf(queue[n]) /\ phase'[queue[m]] = "queued"
          => /\ phase'[queue[n]] # "started"
             /\ \E x, y \in DOMAIN queue' :
                   x < y /\ queue'[x] = queue[m] /\ queue'[y] = queue[n]]_vars
    BY Zenon DEF InOrder
  <2> QED
    BY <2>1, PTL DEF StartsInOrder
<1> HIDE DEF Kept
<1> QED
  BY <1>1, <1>2, RecordsAgree, PTL DEF Spec

-----------------------------------------------------------------------------
(* The verdict of a job.                                                   *)

(* From setStatus "running" until a verdict is given.                      *)
Undecided == {"entering", "loading", "browser", "saving", "confirming", "unpaid",
              "rejecting", "finishing", "failing"}

(* Where a goroutine stands tells what the API says of its job, and what   *)
(* login has told run of the payment.                                      *)
VerdictOf(k) ==
    /\ phase[k] \in {"none", "lost"} => status[k] = "none"
    /\ phase[k] \in {"queued", "started"} => status[k] = "queued"
    /\ phase[k] \in Undecided => status[k] = "running"
    /\ phase[k] \in {"marking", "restoring"} => status[k] = "failed"
    /\ job[k].autoPay => job[k].kind # "cookie"
    /\ phase[k] = "saving" /\ job[k].autoPay => result[k] \in {"paid", "unpaid"}
    /\ phase[k] = "confirming" => result[k] = "paid"
    /\ phase[k] = "finishing" /\ job[k].autoPay => result[k] = "paid"
    /\ phase[k] = "exiting" /\ status[k] = "success" /\ job[k].autoPay => result[k] = "paid"
Verdict == \A k \in Jobs : VerdictOf(k)

LEMMA VerdictCalls ==
    ASSUME IInv, Verdict, NEW j \in Jobs,
           \/ EnqueueCheck(j) \/ EnqueueAdd(j) \/ EnqueueRefuse(j) \/ EnqueueMark(j)
           \/ EnqueuePump(j) \/ ExitPump(j)
    PROVE  Verdict'
<1> USE DEF IInv, TypeOK, Verdict, VerdictOf, Undecided, store, request, local, manager
<1>1. CASE EnqueueCheck(j)
  <2>1. phase[j] = "none"
    BY <1>1 DEF EnqueueCheck, CallsMatch, NoJobYet
  <2>2. /\ \A k \in Jobs \ {j} : job'[k] = job[k]
        /\ job'[j].autoPay => job'[j].kind # "cookie"
        /\ UNCHANGED <<phase, status, result>>
    BY <1>1 DEF EnqueueCheck
  <2> QED
    BY <2>1, <2>2
<1>2. CASE EnqueueAdd(j)
  <2>1. /\ \A k \in Jobs \ {j} : phase'[k] = phase[k] /\ status'[k] = status[k]
        /\ phase'[j] = "queued" /\ status'[j] = "queued"
        /\ UNCHANGED <<job, result>>
    BY <1>2 DEF EnqueueAdd
  <2>2. ASSUME NEW k \in Jobs \ {j} PROVE VerdictOf(k)'
    BY <2>1, <2>2
  <2>3. VerdictOf(j)'
    BY <2>1
  <2> HIDE DEF VerdictOf
  <2> QED
    BY <2>2, <2>3
<1>3. CASE EnqueueRefuse(j) \/ EnqueueMark(j) \/ EnqueuePump(j)
  BY <1>3 DEF EnqueueRefuse, EnqueueMark, EnqueuePump, BeginPump
<1>4. CASE ExitPump(j)
  BY <1>4 DEF ExitPump, BeginPump
<1> QED
  BY <1>1, <1>2, <1>3, <1>4

LEMMA VerdictRun ==
    ASSUME IInv, Verdict, NEW j \in Jobs,
           \/ RunEnter(j) \/ RunMark(j) \/ RunLoad(j) \/ RunRetry(j) \/ RunReturn(j)
           \/ RunSave(j) \/ RunConfirm(j) \/ RunStoreError(j) \/ RunUnpaid(j)
    PROVE  Verdict'
<1> USE DEF IInv, TypeOK, Verdict, VerdictOf, Undecided, Goto, store, request, local, manager
<1>1. CASE RunEnter(j)
  BY <1>1 DEF RunEnter
<1>2. CASE RunMark(j) \/ RunLoad(j) \/ RunRetry(j)
  BY <1>2 DEF RunMark, RunLoad, RunRetry
<1>3. CASE RunReturn(j)
  BY <1>3 DEF RunReturn, Results
<1>4. CASE RunSave(j)
  <2>1. phase[j] = "saving" /\ phase' = [phase EXCEPT ![j] = AfterSave(j)]
        /\ UNCHANGED <<status, job, result>>
    BY <1>4 DEF RunSave
  <2>2. /\ AfterSave(j) \in {"confirming", "unpaid", "finishing"}
        /\ AfterSave(j) = "confirming" => result[j] = "paid"
        /\ AfterSave(j) = "finishing" /\ job[j].autoPay => result[j] \notin {"paid", "unpaid"}
    BY DEF AfterSave
  <2> QED
    BY <2>1, <2>2
<1>5. CASE RunConfirm(j) \/ RunStoreError(j) \/ RunUnpaid(j)
  BY <1>5 DEF RunConfirm, RunStoreError, RunUnpaid
<1> QED
  BY <1>1, <1>2, <1>3, <1>4, <1>5

LEMMA VerdictEnd ==
    ASSUME IInv, Verdict, NEW j \in Jobs,
           \/ RunReject(j) \/ RunFinish(j) \/ FailStatus(j) \/ FailMark(j)
           \/ FailRestore(j) \/ RunExit(j)
    PROVE  Verdict'
<1> USE DEF IInv, TypeOK, Verdict, VerdictOf, Undecided, Goto, store, request, local, manager
<1>1. CASE RunReject(j)
  BY <1>1 DEF RunReject
<1>2. CASE RunFinish(j)
  BY <1>2 DEF RunFinish
<1>3. CASE FailStatus(j)
  BY <1>3 DEF FailStatus
<1>4. CASE FailMark(j) \/ FailRestore(j)
  BY <1>4 DEF FailMark, FailRestore
<1>5. CASE RunExit(j)
  BY <1>5 DEF RunExit
<1> QED
  BY <1>1, <1>2, <1>3, <1>4, <1>5

LEMMA NextVerdict == IInv /\ Verdict /\ [Next]_vars => Verdict'
<1> SUFFICES ASSUME IInv, Verdict, [Next]_vars PROVE Verdict'
  OBVIOUS
<1>1. CASE PumpStart
  <2>1. PICK i \in 1..Len(queue) :
           /\ queue[i] \in Jobs /\ phase[queue[i]] = "queued"
           /\ phase' = [phase EXCEPT ![queue[i]] = "started"]
           /\ UNCHANGED <<job, status>>
    BY <1>1, PumpStartProperties
  <2>2. UNCHANGED result
    BY <1>1 DEF PumpStart
  <2> QED
    BY <2>1, <2>2 DEF IInv, TypeOK, Verdict, VerdictOf, Undecided
<1>2. CASE Restart
  BY <1>2 DEF Restart, IInv, TypeOK, Verdict, VerdictOf, Undecided
<1>3. CASE UNCHANGED <<status, phase, job, result>>
  BY <1>3 DEF Verdict, VerdictOf
<1>4. PumpEnd \/ ReloadPump \/ SaveLimits \/ UNCHANGED vars
      => UNCHANGED <<status, phase, job, result>>
  BY DEF PumpEnd, ReloadPump, BeginPump, SaveLimits, vars, request, local, manager
<1>5. ASSUME NEW a \in Accounts, DeleteAccount(a) \/ SyncPaid(a) \/ ReceiveUpload(a)
      PROVE  UNCHANGED <<status, phase, job, result>>
  BY <1>5 DEF DeleteAccount, SyncPaid, ReceiveUpload, request, local, manager
<1> QED
  BY <1>1, <1>2, <1>3, <1>4, <1>5, VerdictCalls, VerdictRun, VerdictEnd
     DEF Next, QueueNext, OutsideNext, RunStep

LEMMA VerdictHolds == Spec => []Verdict
<1>1. Init => Verdict
  BY DEF Init, Blank, Verdict, VerdictOf, Undecided
<1> QED
  BY <1>1, NextVerdict, RecordsAgree, PTL DEF Spec

(* A job asked to pay ends in "success" only if the payment was confirmed  *)
(* (manager.go:404-419).                               *)
THEOREM NoUnpaidSuccess == Spec => []AutoPaySuccessIsPaid
<1>1. Verdict => AutoPaySuccessIsPaid
  BY DEF Verdict, VerdictOf, AutoPaySuccessIsPaid
<1> QED
  BY <1>1, VerdictHolds, PTL

(* A job that has ended keeps its verdict until the process restarts.      *)
THEOREM OneVerdict == Spec => VerdictIsFinal
<1>1. ASSUME IInv, Verdict, Next, NEW j \in Jobs, status[j] \in {"success", "failed"}
      PROVE  status'[j] \in {status[j], "none"}
  <2> USE DEF store, request, local, manager
  <2>1. phase[j] \notin {"none", "queued", "started"} \cup Undecided
    BY <1>1 DEF Verdict, VerdictOf
  <2>2. ASSUME NEW k \in Jobs,
               \/ RunEnter(k) \/ RunReject(k) \/ RunFinish(k) \/ FailStatus(k)
               \/ EnqueueAdd(k)
        PROVE  status'[j] = status[j]
    <3>1. phase[k] \in {"none", "started"} \cup Undecided
      BY <1>1, <2>2 DEF RunEnter, RunReject, RunFinish, FailStatus, Goto, EnqueueAdd,
         IInv, CallsMatch, NoJobYet, Undecided
    <3>2. \E s : status' = [status EXCEPT ![k] = s]
      BY <2>2 DEF RunEnter, RunReject, RunFinish, FailStatus, EnqueueAdd
    <3> QED
      BY <1>1, <2>1, <3>1, <3>2 DEF IInv, TypeOK
  <2>3. CASE Restart
    BY <2>3 DEF Restart
  <2>4. CASE UNCHANGED status
    BY <2>4
  <2>5. ASSUME NEW k \in Jobs,
               \/ EnqueueCheck(k) \/ EnqueueRefuse(k) \/ EnqueueMark(k) \/ EnqueuePump(k)
               \/ RunMark(k) \/ RunLoad(k) \/ RunRetry(k) \/ RunReturn(k) \/ RunSave(k)
               \/ RunConfirm(k) \/ RunStoreError(k) \/ RunUnpaid(k) \/ FailMark(k)
               \/ FailRestore(k) \/ RunExit(k) \/ ExitPump(k)
        PROVE  UNCHANGED status
    BY <2>5 DEF EnqueueCheck, EnqueueRefuse, EnqueueMark, EnqueuePump, BeginPump, RunMark,
       RunLoad, RunRetry, RunReturn, RunSave, RunConfirm, RunStoreError, RunUnpaid,
       FailMark, FailRestore, RunExit, ExitPump
  <2>6. ASSUME NEW a \in Accounts, DeleteAccount(a) \/ SyncPaid(a) \/ ReceiveUpload(a)
        PROVE  UNCHANGED status
    BY <2>6 DEF DeleteAccount, SyncPaid, ReceiveUpload
  <2>7. PumpStart \/ PumpEnd \/ ReloadPump \/ SaveLimits => UNCHANGED status
    BY DEF PumpStart, PumpEnd, ReloadPump, BeginPump, SaveLimits
  <2> QED
    BY <1>1, <2>2, <2>3, <2>4, <2>5, <2>6, <2>7 DEF Next, QueueNext, OutsideNext, RunStep
<1>2. IInv /\ Verdict /\ [Next]_vars
      => [\A j \in Jobs : status[j] \in {"success", "failed"}
            => status'[j] \in {status[j], "none"}]_vars
  BY <1>1
<1> QED
  BY <1>2, RecordsAgree, VerdictHolds, PTL DEF Spec, VerdictIsFinal

-----------------------------------------------------------------------------
(* The refinement of AccountLease: m.running is the table of leases.       *)
LeaseIsRunning == Lease = running

LEMMA LeaseMatches == IInv => LeaseIsRunning
<1> SUFFICES ASSUME IInv PROVE Lease = running
  BY DEF LeaseIsRunning
<1>1. running \in [Accounts -> Jobs \cup {None}]
  BY DEF IInv, TypeOK
<1>2. ASSUME NEW a \in Accounts
      PROVE  Lease[a] = running[a]
  <2>1. CASE running[a] = None
    <3>1. ~\E j \in Jobs : phase[j] \in Holding /\ AccountOf(j) = a
      BY <2>1, JobManagerAssumption DEF IInv, RunningMatches
    <3> QED
      BY <2>1, <3>1 DEF Lease
  <2>2. CASE running[a] # None
    <3>1. running[a] \in Jobs
      BY <1>1, <2>2
    <3>2. \A j \in Jobs : phase[j] \in Holding /\ AccountOf(j) = a <=> j = running[a]
      BY <3>1 DEF IInv, RunningMatches
    <3>3. (CHOOSE j \in Jobs : phase[j] \in Holding /\ AccountOf(j) = a) = running[a]
      BY <3>1, <3>2
    <3> QED
      BY <3>1, <3>2, <3>3 DEF Lease
  <2> QED
    BY <2>1, <2>2
<1> QED
  BY <1>1, <1>2 DEF Lease

Used == {j \in Jobs : phase[j] \notin {"none", "queued"}}

LEMMA LeaseStep ==
    ASSUME IInv, IInv', [Next]_vars
    PROVE  \/ UNCHANGED <<running, Used>>
           \/ \E a \in Accounts, j \in Jobs :
                 /\ running[a] = None /\ j \notin Used
                 /\ running' = [running EXCEPT ![a] = j]
                 /\ Used' = Used \cup {j}
           \/ \E a \in Accounts :
                 /\ running[a] # None
                 /\ running' = [running EXCEPT ![a] = None]
                 /\ UNCHANGED Used
           \/ /\ running' = [a \in Accounts |-> None]
              /\ Used' \in SUBSET Jobs /\ Used \subseteq Used'
<1>1. CASE Frame
  BY <1>1 DEF Frame, Used, Holding
<1>2. ASSUME NEW j \in Jobs, EnqueueAdd(j)
      PROVE  UNCHANGED <<running, Used>>
  <2>1. phase[j] = "none" /\ phase' = [phase EXCEPT ![j] = "queued"]
    BY <1>2 DEF EnqueueAdd, IInv, CallsMatch, NoJobYet
  <2> QED
    BY <1>2, <2>1 DEF EnqueueAdd, IInv, TypeOK, Used
<1>3. CASE PumpStart
  <2>1. PICK i \in 1..Len(queue) :
           /\ queue[i] \in Jobs
           /\ phase[queue[i]] = "queued"
           /\ phase' = [phase EXCEPT ![queue[i]] = "started"]
           /\ TakeSlot(queue[i])
    BY <1>3, PumpStartProperties
  <2> DEFINE j == queue[i]
             a == AccountOf(j)
  <2>2. a \in Accounts /\ running' = [running EXCEPT ![a] = j]
    BY <2>1, StateType DEF IInv, TakeSlot
  <2>3. running[a] = None
    <3>1. running[a] \in Jobs \cup {None}
      BY <2>2 DEF IInv, TypeOK
    <3>2. ASSUME running[a] \in Jobs PROVE FALSE
      <4>1. phase[running[a]] \in Holding /\ AccountOf(running[a]) = a
        BY <2>2, <3>2 DEF IInv, RunningMatches
      <4> QED
        BY <2>1, <3>2, <4>1 DEF IInv, OneJobPerAccount, Holding
    <3> QED
      BY <3>1, <3>2
  <2>4. j \notin Used /\ Used' = Used \cup {j}
    BY <2>1 DEF Used, IInv, TypeOK
  <2> QED
    BY <2>1, <2>2, <2>3, <2>4
<1>4. ASSUME NEW j \in Jobs, RunExit(j)
      PROVE  \E a \in Accounts :
                /\ running[a] # None
                /\ running' = [running EXCEPT ![a] = None]
                /\ UNCHANGED Used
  <2>1. /\ phase[j] = "exiting" /\ phase' = [phase EXCEPT ![j] = "repumping"]
        /\ running' = [running EXCEPT ![AccountOf(j)] = None]
    BY <1>4 DEF RunExit, Goto, GiveBack
  <2>2. AccountOf(j) \in Accounts /\ running[AccountOf(j)] = j
    BY <2>1, StateType DEF IInv, RunningMatches, Holding
  <2>3. UNCHANGED Used
    BY <2>1 DEF Used, IInv, TypeOK
  <2> QED
    BY <2>1, <2>2, <2>3, JobManagerAssumption
<1>5. CASE Restart
  <2>1. \A k \in Jobs : phase[k] \notin {"none", "queued"}
                        => phase'[k] \notin {"none", "queued"}
    BY <1>5 DEF Restart, IInv, TypeOK, CallsMatch, NoJobYet
  <2> QED
    BY <1>5, <2>1 DEF Restart, Used
<1> QED
  BY <1>1, <1>2, <1>3, <1>4, <1>5, FrameSteps

(* The job queue implements AccountLease: every account is leased to one   *)
(* job for one uninterrupted session, and no job has a second session.     *)
THEOREM ImplementsAccountLease == Spec => LeaseSpec
<1>1. Init => AL!Init
  <2> SUFFICES ASSUME Init PROVE AL!Init
    OBVIOUS
  <2>1. Lease = [a \in Accounts |-> None]
    BY InitIInv, LeaseMatches DEF Init, LeaseIsRunning
  <2>2. {j \in Jobs : phase[j] \notin {"none", "queued"}} = {}
    BY DEF Init
  <2> QED
    BY <2>1, <2>2 DEF AL!Init
<1>2. IInv /\ IInv' /\ [Next]_vars
      => [AL!Next]_<<Lease, {j \in Jobs : phase[j] \notin {"none", "queued"}}>>
  <2> SUFFICES ASSUME IInv, IInv', [Next]_vars
               PROVE  [AL!Next]_<<Lease, Used>>
    BY DEF Used
  <2>1. LeaseIsRunning /\ LeaseIsRunning'
    BY LeaseMatches, PTL
  <2>2. Lease = running /\ Lease' = running'
    BY <2>1 DEF LeaseIsRunning
  <2> QED
    BY <2>2, LeaseStep DEF AL!Next, AL!Acquire, AL!Release, AL!LoseAll, Used
<1> QED
  BY <1>1, <1>2, RecordsAgree, PTL DEF Spec, LeaseSpec, AL!Spec

-----------------------------------------------------------------------------
(* What a step does to a row: who makes it paid, who marks it as queued.   *)
LEMMA UpdateRowIs ==
    ASSUME TypeOK, NEW b \in Accounts, NEW row, UpdateRow(b, row), NEW a \in Accounts
    PROVE  account'[a] = account[a] \/ (a = b /\ account'[a] = row)
<1>1. account' = account \/ account' = [account EXCEPT ![b] = row]
  BY DEF UpdateRow
<1>2. account \in [Accounts -> Row]
  BY DEF TypeOK
<1> QED
  BY <1>1, <1>2

LEMMA SetRowStatusIs ==
    ASSUME TypeOK, NEW b \in Accounts, NEW s, SetRowStatus(b, s), NEW a \in Accounts
    PROVE  \/ account'[a] = account[a]
           \/ a = b /\ account'[a].status = s /\ account'[a].paid = account[a].paid
              /\ account'[a].exists = account[a].exists
<1> DEFINE row == [account[b] EXCEPT !.status = s]
<1>1. UpdateRow(b, row)
  BY DEF SetRowStatus
<1>2. account[b] \in Row
  BY DEF TypeOK
<1>3. row.status = s /\ row.paid = account[b].paid /\ row.exists = account[b].exists
  BY <1>2 DEF Row
<1> HIDE DEF row
<1>4. account'[a] = account[a] \/ (a = b /\ account'[a] = row)
  BY <1>1, UpdateRowIs
<1> QED
  BY <1>3, <1>4

Marks(a) == \E k \in Jobs : EnqueueMark(k) /\ LoginKind(k) /\ AccountOf(k) = a
Confirms(a) == \E k \in Jobs : RunConfirm(k) /\ AccountOf(k) = a

RowKept(a) ==
    /\ account'[a].exists => account[a].exists
    /\ account'[a].paid => account[a].paid \/ Confirms(a) \/ SyncPaid(a) \/ ReceiveUpload(a)
    /\ account'[a].status = "queued" => account[a].status = "queued" \/ Marks(a)

(* Writes of the columns that a job fills in.                              *)
LEMMA SavedRowIs ==
    ASSUME TypeOK, NEW b \in Accounts, NEW row, UpdateRow(b, row), NEW a \in Accounts,
           row.exists = account[b].exists, row.paid = account[b].paid,
           row.status = account[b].status \/ row.status # "queued"
    PROVE  RowKept(a)
<1>1. account'[a] = account[a] \/ (a = b /\ account'[a] = row)
  BY UpdateRowIs
<1> QED
  BY <1>1 DEF RowKept

LEMMA RowSteps ==
    ASSUME TypeOK, [Next]_vars, NEW a \in Accounts
    PROVE  RowKept(a)
<1> USE DEF store
<1>1. CASE UNCHANGED account
  BY <1>1 DEF RowKept
<1>2. ASSUME NEW j \in Jobs, EnqueueMark(j) PROVE RowKept(a)
  <2>1. CASE job[j].kind = "cookie"
    BY <1>1, <1>2, <2>1 DEF EnqueueMark
  <2>2. CASE job[j].kind # "cookie"
    <3>1. SetRowStatus(AccountOf(j), "queued") /\ AccountOf(j) \in Accounts
      BY <1>2, <2>2, StateType DEF EnqueueMark
    <3>2. \/ account'[a] = account[a]
          \/ a = AccountOf(j) /\ account'[a].paid = account[a].paid
             /\ account'[a].exists = account[a].exists
      BY <3>1, SetRowStatusIs
    <3>3. a = AccountOf(j) => Marks(a)
      BY <1>2, <2>2 DEF Marks, LoginKind
    <3> QED
      BY <3>2, <3>3 DEF RowKept
  <2> QED
    BY <2>1, <2>2
<1>3. ASSUME NEW j \in Jobs, RunMark(j) \/ RunUnpaid(j) \/ FailMark(j) PROVE RowKept(a)
  <2>1. \/ UNCHANGED account
        \/ \E s \in {"running", "ready", "failed"} : SetRowStatus(AccountOf(j), s)
    BY <1>3 DEF RunMark, RunUnpaid, FailMark
  <2>2. ASSUME NEW s \in {"running", "ready", "failed"}, SetRowStatus(AccountOf(j), s)
        PROVE  RowKept(a)
    <3>1. AccountOf(j) \in Accounts /\ s # "queued"
      BY StateType
    <3>2. \/ account'[a] = account[a]
          \/ account'[a].status = s /\ account'[a].paid = account[a].paid
             /\ account'[a].exists = account[a].exists
      BY <2>2, <3>1, SetRowStatusIs
    <3> QED
      BY <3>1, <3>2 DEF RowKept
  <2> QED
    BY <1>1, <2>1, <2>2
<1>4. ASSUME NEW j \in Jobs, RunSave(j) PROVE RowKept(a)
  <2> DEFINE b == AccountOf(j)
             cookies == [account[b] EXCEPT !.credentials = IF @ = "none" THEN "cookie" ELSE @]
             full == [account[b] EXCEPT !.status = "ready", !.credentials = "full"]
  <2>1. b \in Accounts /\ account[b] \in Row
    BY StateType
  <2>2. UpdateRow(b, cookies) \/ UpdateRow(b, full)
    BY <1>4, Zenon DEF RunSave
  <2>3. /\ cookies.exists = account[b].exists /\ cookies.paid = account[b].paid
        /\ cookies.status = account[b].status
    BY <2>1 DEF Row
  <2>4. /\ full.exists = account[b].exists /\ full.paid = account[b].paid
        /\ full.status = "ready"
    BY <2>1 DEF Row
  <2> HIDE DEF cookies, full, b
  <2> QED
    BY <2>1, <2>2, <2>3, <2>4, SavedRowIs
<1>5. ASSUME NEW j \in Jobs, RunConfirm(j) PROVE RowKept(a)
  <2> DEFINE b == AccountOf(j)
             row == [account[b] EXCEPT !.paid = TRUE]
  <2>1. b \in Accounts /\ account[b] \in Row
    BY StateType
  <2>2. UpdateRow(b, row)
    BY <1>5 DEF RunConfirm
  <2>3. row.exists = account[b].exists /\ row.status = account[b].status
    BY <2>1 DEF Row
  <2>4. a = b => Confirms(a)
    BY <1>5 DEF Confirms
  <2> HIDE DEF row, b
  <2>5. account'[a] = account[a] \/ (a = b /\ account'[a] = row)
    BY <2>1, <2>2, UpdateRowIs
  <2> QED
    BY <2>3, <2>4, <2>5 DEF RowKept
<1>6. ASSUME NEW j \in Jobs, FailRestore(j) PROVE RowKept(a)
  <2> DEFINE b == AccountOf(j)
             row == [account[b] EXCEPT !.status = "failed", !.credentials = snapshot[j]]
  <2>1. b \in Accounts /\ account[b] \in Row
    BY StateType
  <2>2. UNCHANGED account \/ UpdateRow(b, row)
    BY <1>6 DEF FailRestore
  <2>3. /\ row.exists = account[b].exists /\ row.paid = account[b].paid
        /\ row.status = "failed"
    BY <2>1 DEF Row
  <2> HIDE DEF row, b
  <2> QED
    BY <1>1, <2>1, <2>2, <2>3, SavedRowIs
<1>7. ASSUME NEW b \in Accounts, DeleteAccount(b) \/ SyncPaid(b) \/ ReceiveUpload(b)
      PROVE  RowKept(a)
  <2>1. account \in [Accounts -> Row] /\ account[a] \in Row
    BY DEF TypeOK
  <2>2. a # b => account'[a] = account[a]
    BY <1>7, <2>1 DEF DeleteAccount, SyncPaid, ReceiveUpload
  <2>3. CASE DeleteAccount(b)
    <3>1. a = b => /\ account'[a].exists = FALSE /\ account'[a].paid = account[a].paid
                   /\ account'[a].status = account[a].status
      BY <2>1, <2>3 DEF DeleteAccount, Row
    <3> QED
      BY <2>2, <3>1 DEF RowKept
  <2>4. CASE SyncPaid(b)
    <3>1. a = b => /\ account'[a].exists = account[a].exists
                   /\ account'[a].status = account[a].status
      BY <2>1, <2>4 DEF SyncPaid, Row
    <3> QED
      BY <2>2, <2>4, <3>1 DEF RowKept
  <2>5. CASE ReceiveUpload(b)
    <3>1. a = b => /\ account'[a].exists = account[a].exists
                   /\ account'[a].status = "ready"
      BY <2>1, <2>5 DEF ReceiveUpload, Row
    <3> QED
      BY <2>2, <2>5, <3>1 DEF RowKept
  <2> QED
    BY <1>7, <2>3, <2>4, <2>5
<1>8. ASSUME NEW j \in Jobs,
             \/ EnqueueCheck(j) \/ EnqueueAdd(j) \/ EnqueueRefuse(j) \/ EnqueuePump(j)
             \/ RunEnter(j) \/ RunLoad(j) \/ RunRetry(j) \/ RunReturn(j)
             \/ RunStoreError(j) \/ RunReject(j) \/ RunFinish(j) \/ FailStatus(j)
             \/ RunExit(j) \/ ExitPump(j)
      PROVE  UNCHANGED account
  BY <1>8 DEF EnqueueCheck, EnqueueAdd, EnqueueRefuse, EnqueuePump, BeginPump, RunEnter,
     RunLoad, RunRetry, RunReturn, RunStoreError, RunReject, RunFinish, FailStatus, RunExit,
     ExitPump
<1>9. PumpStart \/ PumpEnd \/ ReloadPump \/ SaveLimits \/ Restart \/ UNCHANGED vars
      => UNCHANGED account
  BY DEF PumpStart, PumpEnd, ReloadPump, BeginPump, SaveLimits, Restart, vars
<1> QED
  BY <1>1, <1>2, <1>3, <1>4, <1>5, <1>6, <1>7, <1>8, <1>9
     DEF Next, QueueNext, OutsideNext, RunStep

-----------------------------------------------------------------------------
(* What a step does to a call and to the job it created.                   *)
CallKept(j) ==
    /\ \/ job'[j] = job[j] /\ (call'[j] = "checked" => call[j] = "checked")
       \/ EnqueueCheck(j)
    /\ \/ call[j] = "added" \/ call'[j] # "added"
       \/ EnqueueAdd(j)
    /\ \/ phase'[j] = phase[j] \/ phase'[j] \notin Waiting
       \/ EnqueueAdd(j)
       \/ phase[j] = "queued" /\ phase'[j] = "started"
       \/ phase[j] = "started" /\ phase'[j] = "entering"
       \/ phase[j] = "entering" /\ phase'[j] = "loading"
    /\ \/ phase'[j] = phase[j] \/ phase[j] \notin Waiting \/ Restart
       \/ phase[j] = "queued" /\ phase'[j] = "started"
       \/ phase[j] = "started" /\ phase'[j] = "entering"
       \/ RunMark(j)
       \/ phase[j] = "loading"

LEMMA CallSteps ==
    ASSUME IInv, [Next]_vars, NEW j \in Jobs
    PROVE  CallKept(j)
<1> USE DEF CallKept, IInv, TypeOK, Waiting, store, request, local, manager
<1>1. ASSUME NEW k \in Jobs, EnqueueCheck(k) PROVE CallKept(j)
  <2>1. /\ UNCHANGED phase
        /\ k # j => job'[j] = job[j] /\ call'[j] = call[j]
        /\ call'[k] # "added"
    BY <1>1 DEF EnqueueCheck
  <2> QED
    BY <1>1, <2>1
<1>2. ASSUME NEW k \in Jobs, EnqueueAdd(k) PROVE CallKept(j)
  <2>1. phase[k] = "none"
    BY <1>2 DEF EnqueueAdd, CallsMatch, NoJobYet
  <2>2. k # j => phase'[j] = phase[j] /\ call'[j] = call[j]
    BY <1>2 DEF EnqueueAdd
  <2>3. job'[j] = job[j] /\ call'[j] \in {call[j], "added"}
    BY <1>2 DEF EnqueueAdd
  <2> QED
    BY <1>2, <2>1, <2>2, <2>3
<1>3. ASSUME NEW k \in Jobs, EnqueueRefuse(k) \/ EnqueueMark(k) \/ EnqueuePump(k)
      PROVE  CallKept(j)
  BY <1>3 DEF EnqueueRefuse, EnqueueMark, EnqueuePump, BeginPump
<1>4. CASE PumpStart
  <2>1. PICK i \in 1..Len(queue) :
           /\ queue[i] \in Jobs /\ phase[queue[i]] = "queued"
           /\ phase' = [phase EXCEPT ![queue[i]] = "started"]
           /\ UNCHANGED <<call, job>>
    BY <1>4, PumpStartProperties
  <2> QED
    BY <2>1
<1>5. ASSUME NEW k \in Jobs, RunEnter(k) \/ RunMark(k) PROVE CallKept(j)
  BY <1>5 DEF RunEnter, RunMark, Goto
<1>6. ASSUME NEW k \in Jobs,
             \/ RunLoad(k) \/ RunRetry(k) \/ RunReturn(k) \/ RunConfirm(k)
             \/ RunStoreError(k) \/ RunUnpaid(k) \/ RunReject(k) \/ RunFinish(k)
             \/ FailStatus(k) \/ FailMark(k) \/ FailRestore(k) \/ RunExit(k) \/ ExitPump(k)
      PROVE  CallKept(j)
  <2>1. /\ UNCHANGED <<call, job>>
        /\ phase' = phase \/ \E to \in Phases \ Waiting :
              phase[k] \notin Waiting \ {"loading"} /\ phase' = [phase EXCEPT ![k] = to]
    BY <1>6 DEF RunLoad, RunRetry, RunReturn, RunConfirm, RunStoreError, RunUnpaid,
       RunReject, RunFinish, FailStatus, FailMark, FailRestore, RunExit, ExitPump,
       BeginPump, Goto, Phases
  <2> QED
    BY <2>1
<1>7. ASSUME NEW k \in Jobs, RunSave(k) PROVE CallKept(j)
  <2>1. AfterSave(k) \in {"confirming", "unpaid", "finishing"}
    BY DEF AfterSave
  <2>2. /\ UNCHANGED <<call, job>> /\ phase[k] = "saving"
        /\ phase' = [phase EXCEPT ![k] = AfterSave(k)]
    BY <1>7 DEF RunSave, Goto
  <2> QED
    BY <2>1, <2>2
<1>8. CASE Restart
  <2>1. /\ job' = job /\ call'[j] \in {"idle", "lost"} /\ phase'[j] \in {"none", "lost"}
    BY <1>8 DEF Restart
  <2> QED
    BY <1>8, <2>1
<1>9. CASE UNCHANGED <<call, job, phase>>
  BY <1>9
<1>10. PumpEnd \/ ReloadPump \/ SaveLimits \/ UNCHANGED vars => UNCHANGED <<call, job, phase>>
  BY DEF PumpEnd, ReloadPump, BeginPump, SaveLimits, vars
<1>11. ASSUME NEW a \in Accounts, DeleteAccount(a) \/ SyncPaid(a) \/ ReceiveUpload(a)
       PROVE  UNCHANGED <<call, job, phase>>
  BY <1>11 DEF DeleteAccount, SyncPaid, ReceiveUpload
<1> QED
  BY <1>1, <1>2, <1>3, <1>4, <1>5, <1>6, <1>7, <1>8, <1>9, <1>10, <1>11
     DEF Next, QueueNext, OutsideNext, RunStep

-----------------------------------------------------------------------------
(* The finding of jobs_queued_row: what makes a row say "queued" for ever. *)

(* A call that has not marked its row yet finds its job before its own     *)
(* mark, and behind every queued row there is such a job.                  *)
Unmarked == {"queued", "started", "entering"}
MarkComes == \A j \in Jobs : call[j] = "added" => phase[j] \in Unmarked
RowHasJob ==
    \A a \in Accounts :
        account[a].exists /\ account[a].status = "queued"
        => \E j \in Jobs : AccountOf(j) = a /\ LoginKind(j) /\ phase[j] \in Unmarked
InTurnInv == MarkComes /\ RowHasJob

LEMMA MarkComesStep ==
    ASSUME IInv, InTurnInv, [Next /\ MarksInTurn]_vars
    PROVE  MarkComes'
<1> SUFFICES ASSUME NEW j \in Jobs, call'[j] = "added" PROVE phase'[j] \in Unmarked
  BY DEF MarkComes
<1>1. CallKept(j)
  BY CallSteps
<1>2. CASE EnqueueAdd(j)
  BY <1>2 DEF EnqueueAdd, IInv, TypeOK, Unmarked
<1>3. CASE call[j] = "added"
  <2>1. phase[j] \in Unmarked
    BY <1>3 DEF InTurnInv, MarkComes
  <2>2. ~Restart
    <3>1. Restart => call'[j] # "added"
      BY DEF Restart
    <3> QED
      BY <3>1
  <2>3. ~RunMark(j)
    <3> SUFFICES ASSUME RunMark(j) PROVE FALSE
      OBVIOUS
    <3>1. phase[j] = "entering" /\ phase'[j] = "loading"
      BY DEF RunMark, Goto, IInv, TypeOK
    <3>2. MarksInTurn
      BY <3>1 DEF vars
    <3> QED
      BY <1>3, <3>1, <3>2 DEF MarksInTurn
  <2> QED
    BY <1>1, <2>1, <2>2, <2>3 DEF CallKept, Unmarked, Waiting
<1> QED
  BY <1>1, <1>2, <1>3 DEF CallKept

LEMMA RowHasJobStep ==
    ASSUME IInv, InTurnInv, [Next /\ MarksInTurn]_vars
    PROVE  RowHasJob'
<1> SUFFICES ASSUME NEW a \in Accounts, account'[a].exists, account'[a].status = "queued"
             PROVE  \E j \in Jobs : /\ AccountOf(j)' = a /\ LoginKind(j)'
                                    /\ phase'[j] \in Unmarked
  BY DEF RowHasJob
<1>1. RowKept(a)
  BY RowSteps DEF IInv
<1>2. ASSUME NEW j \in Jobs, EnqueueMark(j), LoginKind(j), AccountOf(j) = a
      PROVE  AccountOf(j)' = a /\ LoginKind(j)' /\ phase'[j] \in Unmarked
  <2>1. UNCHANGED <<job, phase>> /\ call[j] = "added"
    BY <1>2 DEF EnqueueMark, local
  <2> QED
    BY <1>2, <2>1 DEF InTurnInv, MarkComes, AccountOf, LoginKind
<1>3. CASE ~Marks(a)
  <2>1. account[a].exists /\ account[a].status = "queued"
    BY <1>1, <1>3 DEF RowKept
  <2>2. PICK j \in Jobs : AccountOf(j) = a /\ LoginKind(j) /\ phase[j] \in Unmarked
    BY <2>1 DEF InTurnInv, RowHasJob
  <2>3. CallKept(j)
    BY CallSteps
  <2>4. call[j] # "idle"
    BY <2>2 DEF IInv, CallsMatch, NoJobYet, Unmarked
  <2>5. job'[j] = job[j]
    BY <2>3, <2>4 DEF CallKept, EnqueueCheck
  <2>6. ~RunMark(j)
    <3> SUFFICES ASSUME RunMark(j) PROVE FALSE
      OBVIOUS
    <3>1. SetRowStatus(a, "running")
      BY <2>2 DEF RunMark, LoginKind
    <3>2. account'[a] = account[a] \/ account'[a].status = "running"
      BY <3>1, SetRowStatusIs DEF IInv
    <3>3. account' = [account EXCEPT ![a] = [account[a] EXCEPT !.status = "running"]]
      BY <2>1, <3>1 DEF SetRowStatus, UpdateRow
    <3>4. account'[a] = [account[a] EXCEPT !.status = "running"] /\ account[a] \in Row
      BY <3>3 DEF IInv, TypeOK
    <3>5. account'[a].status = "running"
      BY <3>4 DEF Row
    <3> QED
      BY <3>5
  <2>7. ~Restart
    <3> SUFFICES ASSUME Restart PROVE FALSE
      OBVIOUS
    <3>1. MarksInTurn \/ UNCHANGED vars
      OBVIOUS
    <3>2. restarts' # restarts
      BY DEF Restart, IInv, TypeOK
    <3> QED
      BY <3>1, <3>2 DEF MarksInTurn, vars
  <2>8. phase'[j] \in Unmarked
    BY <2>2, <2>3, <2>6, <2>7 DEF CallKept, Unmarked, Waiting
  <2> QED
    BY <2>2, <2>5, <2>8 DEF AccountOf, LoginKind
<1>4. CASE Marks(a)
  BY <1>2, <1>4 DEF Marks
<1> QED
  BY <1>3, <1>4

(* A row never says "queued" without a job of its account, for any number  *)
(* of accounts and calls, when every goroutine marks its row after its     *)
(* caller did and the process does not restart: that enqueue marks the row *)
(* outside the mutex (manager.go:194), and that a restart forgets the jobs *)
(* (manager.go:33), are the only causes; deleting accounts, uploads, usage *)
(* syncs, retries, store errors and edited limits are not among them.      *)
THEOREM QueuedRowHasJobInTurn == InTurnSpec => []QueuedRowHasJob
<1>1. InTurnSpec => Spec
  <2>1. [Next /\ MarksInTurn]_vars => [Next]_vars
    OBVIOUS
  <2> QED
    BY <2>1, PTL DEF InTurnSpec, Spec
<1>2. Init => InTurnInv
  BY DEF Init, InTurnInv, MarkComes, RowHasJob
<1>3. IInv /\ InTurnInv /\ [Next /\ MarksInTurn]_vars => InTurnInv'
  BY MarkComesStep, RowHasJobStep DEF InTurnInv
<1>4. InTurnInv => QueuedRowHasJob
  BY DEF InTurnInv, RowHasJob, QueuedRowHasJob, Unmarked, Holding
<1> QED
  BY <1>1, <1>2, <1>3, <1>4, RecordsAgree, PTL DEF InTurnSpec

-----------------------------------------------------------------------------
(* The finding of jobs_paid: how a paid account comes to a browser.        *)

(* From the check of enqueue to the browser the row says "not paid".       *)
UnpaidUntilBrowser ==
    \A j \in Jobs :
        LoginKind(j) /\ (call[j] = "checked" \/ phase[j] \in Waiting)
        => ~account[AccountOf(j)].paid

LEMMA UnpaidStep ==
    ASSUME IInv, UnpaidUntilBrowser, [Next /\ NotPaidInBetween]_vars
    PROVE  UnpaidUntilBrowser'
<1> SUFFICES ASSUME NEW j \in Jobs, LoginKind(j)', call'[j] = "checked" \/ phase'[j] \in Waiting
             PROVE  ~account'[AccountOf(j)'].paid
  BY DEF UnpaidUntilBrowser
<1>1. CallKept(j)
  BY CallSteps
<1>2. CASE EnqueueCheck(j)
  <2>1. UNCHANGED account /\ UNCHANGED phase /\ phase[j] \notin Waiting
    BY <1>2 DEF EnqueueCheck, store, local, IInv, CallsMatch, NoJobYet, Waiting
  <2>2. PICK r \in Request :
           \/ Admissible(r) /\ job' = [job EXCEPT ![j] = r]
           \/ call' = [call EXCEPT ![j] = "refused"]
    BY <1>2 DEF EnqueueCheck
  <2>3. Admissible(r) /\ job'[j] = r
    BY <2>1, <2>2 DEF IInv, TypeOK
  <2> QED
    BY <2>1, <2>3 DEF Admissible, LoginKind, AccountOf
<1>3. CASE ~EnqueueCheck(j)
  <2>1. job'[j] = job[j] /\ (call'[j] = "checked" => call[j] = "checked")
    BY <1>1, <1>3 DEF CallKept
  <2>2. EnqueueAdd(j) => call[j] = "checked"
    BY DEF EnqueueAdd
  <2>3. call[j] = "checked" \/ phase[j] \in Waiting
    BY <1>1, <2>1, <2>2 DEF CallKept, Waiting
  <2> DEFINE a == AccountOf(j)
  <2>4. LoginKind(j) /\ AccountOf(j)' = a /\ a \in Accounts /\ ~account[a].paid
    BY <2>1, <2>3, StateType DEF UnpaidUntilBrowser, LoginKind, AccountOf, IInv
  <2>5. CASE UNCHANGED vars
    BY <2>4, <2>5 DEF vars
  <2>6. CASE NotPaidInBetween /\ call[j] = "checked"
    BY <2>4, <2>6 DEF NotPaidInBetween
  <2>7. CASE NotPaidInBetween /\ phase[j] \in Waiting
    <3>1. ~SyncPaid(a) /\ ~ReceiveUpload(a)
      BY <2>4, <2>7 DEF NotPaidInBetween
    <3>2. ASSUME NEW k \in Jobs, RunConfirm(k), AccountOf(k) = a PROVE FALSE
      <4>1. phase[k] = "confirming"
        BY <3>2 DEF RunConfirm, Goto
      <4>2. /\ phase[k] \in Holding \cup {"queued"} /\ phase[j] \in Holding \cup {"queued"}
            /\ k # j
        BY <2>7, <4>1 DEF Holding, Waiting
      <4> QED
        BY <3>2, <4>2 DEF IInv, OneJobPerAccount
    <3>3. RowKept(a)
      BY <2>4, RowSteps DEF IInv
    <3> HIDE DEF a
    <3>4. ~account'[a].paid
      BY <2>4, <3>1, <3>2, <3>3 DEF RowKept, Confirms
    <3> QED
      BY <2>4, <3>4
  <2> QED
    BY <2>3, <2>5, <2>6, <2>7
<1> QED
  BY <1>2, <1>3

(* No browser session starts for an account that is recorded as paid, for  *)
(* any number of accounts, calls and restarts, when nobody records the     *)
(* payment while the job waits and nobody does so between the check of     *)
(* enqueue and its append: the two windows in which run relies on what     *)
(* enqueue read (manager.go:172, :320).  A payment by another job can fall *)
(* into the second only.                                                   *)
THEOREM PaidAccountIsSkippedUnlessPaidInBetween == UnpaidSpec => PaidAccountIsSkipped
<1>1. UnpaidSpec => Spec
  <2>1. [Next /\ NotPaidInBetween]_vars => [Next]_vars
    OBVIOUS
  <2> QED
    BY <2>1, PTL DEF UnpaidSpec, Spec
<1>2. Init => UnpaidUntilBrowser
  BY DEF Init, UnpaidUntilBrowser, Waiting
<1>3. UnpaidUntilBrowser
      => \A j \in Jobs :
            phase[j] = "loading" /\ phase'[j] = "browser" /\ job[j].kind # "cookie"
            => ~account[AccountOf(j)].paid
  BY DEF UnpaidUntilBrowser, LoginKind, Waiting
<1> QED
  BY <1>1, <1>2, <1>3, UnpaidStep, RecordsAgree, PTL DEF UnpaidSpec, PaidAccountIsSkipped
=============================================================================
