-------------------------- MODULE LoginScanProofs --------------------------
(***************************************************************************)
(* What TLAPS proves of a login session, for any number of phone numbers,  *)
(* rounds and ticks: every number is settled, no card is submitted twice,  *)
(* a refusal is final, and a result is whole; of the usage scan, for any   *)
(* number of accounts and any concurrency: the figures of a scan add up;   *)
(* and of the two as they run: every variable stays in its type, with the  *)
(* attempts, the clocks and the places within their limits.                *)
(***************************************************************************)
EXTENDS MCLoginScan, FiniteSetTheorems, TLAPS

(* Numbers: one is open exactly while it is held, and none is reported as  *)
(* used before handleRadar has returned with success.                      *)
NumbersInv ==
    /\ vpc \in VerifyPcs /\ verdict \in Verdicts
    /\ open = IF vpc \in Holding THEN 1 ELSE 0
    /\ finished \in {0, 1}
    /\ finished = 1 => vpc = "off" /\ verdict = "ok"

(* Cards: the button of a card is pressed after it was claimed.            *)
CardsInv ==
    /\ clicks \in [Cards -> {0, 1}] /\ submitted \subseteq Cards
    /\ \A c \in Cards : clicks[c] = 1 => c \in submitted
    /\ mpc = "submit" => held \in submitted /\ clicks[held] = 0

(* The session: a refusal ends it, and what a step needs was read before.  *)
FlowInv ==
    /\ kind \in Kinds
    /\ kind = "cookie" => pc \in {"new", "dispatch", "worker", "done"}
    /\ refused \in BOOLEAN
    /\ refused => pc = "done" /\ outcome = "denied"
    /\ pc \in {"key", "workerKey"} => "cookies" \in got
    /\ pc = "plan" /\ kind = "login" => {"cookies", "key"} \subseteq got
    /\ ResultIsWhole

(* handleAuthkitWait is called by the loops.                               *)
CallerInv == caller \in Loops \cup {"none"}

LoginInv == NumbersInv /\ CardsInv /\ FlowInv /\ CallerInv

-----------------------------------------------------------------------------
(* A step of the phone verification.                                       *)
LEMMA NumbersStep ==
    ASSUME NumbersInv, VerifyStep
    PROVE  NumbersInv'
<1> USE DEF NumbersInv, VerifyPcs, Verdicts, Holding, Return, NextNumber, GiveBack, phoneVars
<1>1. CASE VerifyForm
  BY <1>1 DEF VerifyForm
<1>2. CASE VerifySend
  BY <1>2 DEF VerifySend
<1>3. CASE AttemptForm
  BY <1>3 DEF AttemptForm
<1>4. CASE GetAway
  BY <1>4 DEF GetAway
<1>5. CASE GetFails
  BY <1>5 DEF GetFails
<1>6. CASE GetNumber
  BY <1>6 DEF GetNumber
<1>7. CASE Fill
  BY <1>7 DEF Fill
<1>8. CASE Submit
  BY <1>8 DEF Submit
<1>9. CASE NoCode \/ CodeRefused \/ CodeComes
  BY <1>9 DEF NoCode, CodeRefused, CodeComes
<1>10. CASE FillOTP
  BY <1>10 DEF FillOTP
<1>11. CASE AcceptCode
  BY <1>11 DEF AcceptCode
<1> QED
  BY <1>1, <1>2, <1>3, <1>4, <1>5, <1>6, <1>7, <1>8, <1>9, <1>10, <1>11 DEF VerifyStep

(* A step of the Microsoft login.                                          *)
LEMMA CardsStep ==
    ASSUME CardsInv, MsStep
    PROVE  CardsInv'
<1> USE DEF CardsInv, MsReturn, NoClicks
<1>1. CASE MsLookEnds
  BY <1>1 DEF MsLookEnds
<1>2. CASE MsLookCallback
  BY <1>2 DEF MsLookCallback, Observe
<1>3. CASE MsLookCard
  <2>1. PICK s : /\ held' = s
                 /\ IF Claims(s) THEN mpc' = "submit" /\ submitted' = submitted \cup {s}
                    ELSE UNCHANGED <<mpc, submitted>>
    BY <1>3 DEF MsLookCard, Observe
  <2>2. mpc = "look" /\ UNCHANGED clicks
    BY <1>3 DEF MsLookCard
  <2>3. CASE Claims(s)
    BY <2>1, <2>2, <2>3 DEF Claims
  <2>4. CASE ~Claims(s)
    BY <2>1, <2>2, <2>4
  <2> QED
    BY <2>3, <2>4
<1>4. CASE MsSubmit
  <2>1. held \in Cards /\ held \in submitted /\ clicks[held] = 0
    BY <1>4 DEF MsSubmit
  <2>2. CASE MsClicked /\ clicks' = [clicks EXCEPT ![held] = @ + 1]
    BY <2>1, <2>2 DEF MsClicked
  <2>3. CASE MsClicked /\ UNCHANGED clicks
    BY <2>3 DEF MsClicked
  <2>4. CASE \E r : MsReturn(r)
    BY <2>4
  <2> QED
    BY <1>4, <2>2, <2>3, <2>4 DEF MsSubmit
<1> QED
  BY <1>1, <1>2, <1>3, <1>4 DEF MsStep

LEMMA Judged ==
    /\ \A e, p : Wrapped(e, p) # "ok"
    /\ \A p : Wrapped("denied", p) = "denied"
    /\ \A p : Named(p) # "ok"
BY DEF Wrapped, Named

-----------------------------------------------------------------------------
(* A call that fails has no refusal but the one it read.                   *)
LEMMA Fails ==
    ASSUME FlowInv, NEW o, o # "ok", Finish(o), UNCHANGED <<kind, got>>,
           refused' \in BOOLEAN, refused' => o = "denied"
    PROVE  FlowInv'
BY DEF FlowInv, Finish, ResultIsWhole

(* Where a session may go without having read anything more.               *)
LEMMA Goes ==
    ASSUME FlowInv, kind # "cookie", pc # "done", NEW label,
           label \notin {"key", "workerKey", "plan", "done"},
           Goto(label), UNCHANGED <<kind, refused, got>>
    PROVE  FlowInv'
BY DEF FlowInv, Goto, ResultIsWhole

(* A step that only the page or a clock takes.                             *)
LEMMA Waits ==
    ASSUME FlowInv, UNCHANGED <<kind, pc, refused, browser, outcome, got>>
    PROVE  FlowInv'
BY DEF FlowInv, ResultIsWhole

LEMMA FlowStart ==
    ASSUME FlowInv, Run \/ Dispatch \/ Launch \/ Open \/ StartIdentity \/ AwaitProvider
    PROVE  FlowInv'
<1> USE Judged DEF Quiet, Idle, callVars
<1>1. CASE Run
  BY <1>1 DEF Run, Goto, FlowInv, ResultIsWhole
<1>2. CASE Dispatch
  <2>1. /\ pc = "dispatch" /\ UNCHANGED <<kind, refused, got>>
        /\ refused = FALSE /\ kind \in Kinds
    BY <1>2 DEF Dispatch, FlowInv
  <2>2. CASE Finish("other")
    BY <2>1, <2>2, Fails
  <2>3. CASE Goto("worker")
    BY <2>1, <2>3 DEF Goto, FlowInv, ResultIsWhole
  <2>4. CASE kind # "cookie" /\ Goto("launch")
    BY <2>1, <2>4, Goes
  <2> QED
    BY <1>2, <2>1, <2>2, <2>3, <2>4 DEF Dispatch, Kinds
<1>3. CASE Launch
  <2>1. kind # "cookie" /\ refused = FALSE
    BY <1>3 DEF Launch, FlowInv
  <2>2. CASE Finish("other")
    BY <1>3, <2>1, <2>2, Fails DEF Launch
  <2>3. CASE /\ pc' = IF kind = "login" THEN "open" ELSE "plan"
             /\ UNCHANGED outcome
    BY <1>3, <2>1, <2>3 DEF Launch, FlowInv, ResultIsWhole
  <2> QED
    BY <1>3, <2>2, <2>3 DEF Launch
<1>4. CASE Open
  <2>1. kind # "cookie" /\ refused = FALSE
    BY <1>4 DEF Open, FlowInv
  <2> QED
    BY <1>4, <2>1, Fails, Goes DEF Open
<1>5. CASE StartIdentity
  <2>1. kind # "cookie" /\ refused = FALSE
    BY <1>5 DEF StartIdentity, FlowInv
  <2> QED
    BY <1>5, <2>1, Fails, Goes DEF StartIdentity
<1>6. CASE AwaitProvider
  <2>1. kind # "cookie" /\ refused = FALSE
    BY <1>6 DEF AwaitProvider, FlowInv
  <2> QED
    BY <1>6, <2>1, Goes DEF AwaitProvider, Enter
<1> QED
  BY <1>1, <1>2, <1>3, <1>4, <1>5, <1>6

LEMMA FlowGoogle ==
    ASSUME FlowInv,
           GoogleLeft \/ GoogleDeadline \/ GoogleAuthkit \/ GoogleCard
             \/ GoogleCardFails \/ GoogleEmail \/ GooglePassword
    PROVE  FlowInv'
<1> USE Judged DEF Quiet, Idle, callVars
<1>1. pc = "google" /\ kind # "cookie" /\ refused = FALSE
  BY DEF GoogleLeft, GoogleDeadline, GoogleAuthkit, GoogleCard, GoogleCardFails,
     GoogleEmail, GooglePassword, GoogleTurn, FlowInv
<1>2. CASE GoogleLeft
  BY <1>1, <1>2, Goes DEF GoogleLeft, Enter
<1>3. CASE GoogleDeadline
  BY <1>1, <1>3, Goes, Fails DEF GoogleDeadline, Enter
<1>4. CASE GoogleAuthkit
  BY <1>1, <1>4, Goes DEF GoogleAuthkit
<1>5. CASE GoogleCardFails
  BY <1>1, <1>5, Goes, Fails DEF GoogleCardFails, Enter
<1>6. CASE GoogleCard \/ GoogleEmail \/ GooglePassword
  BY <1>6, Waits DEF GoogleCard, GoogleEmail, GooglePassword
<1> QED
  BY <1>2, <1>3, <1>4, <1>5, <1>6

LEMMA FlowAuthkit ==
    ASSUME FlowInv, CallerInv,
           AuthkitLook \/ AuthkitWait \/ MicrosoftTurn \/ MicrosoftReturns \/ AwaitCline
    PROVE  FlowInv'
<1> USE Judged DEF Quiet, Idle, callVars
<1>1. pc # "done" /\ kind # "cookie" /\ refused = FALSE
  BY DEF AuthkitLook, AuthkitWait, MicrosoftTurn, MicrosoftReturns, AwaitCline, WaitCline,
     FlowInv
<1>2. ASSUME NEW done \in BOOLEAN, Back(done), UNCHANGED <<kind, refused, got>>
      PROVE  FlowInv'
  BY <1>1, <1>2, Goes DEF Back, Enter, CallerInv, Loops
<1>3. ASSUME CallbackFails, UNCHANGED <<kind, got>>
      PROVE  FlowInv'
  BY <1>1, <1>3, Fails DEF CallbackFails
<1>4. CASE AuthkitLook
  <2>1. UNCHANGED <<kind, got>>
    BY <1>4 DEF AuthkitLook
  <2>2. CASE OnRadarFlow(page) \/ OnCline(page)
    BY <1>2, <1>4, <2>1, <2>2 DEF AuthkitLook
  <2>3. CASE ~(OnRadarFlow(page) \/ OnCline(page)) /\ CallbackError(page) # "none"
    BY <1>3, <1>4, <2>1, <2>3 DEF AuthkitLook
  <2>4. CASE ~(OnRadarFlow(page) \/ OnCline(page)) /\ CallbackError(page) = "none"
    BY <1>1, <1>4, <2>1, <2>4, Goes DEF AuthkitLook
  <2> QED
    BY <2>2, <2>3, <2>4
<1>5. CASE AuthkitWait
  <2>1. UNCHANGED <<kind, got>>
    BY <1>5 DEF AuthkitWait
  <2>2. CASE OnCline(page) \/ OnRadarFlow(page) \/ page \notin AuthkitHost
    BY <1>2, <1>5, <2>1, <2>2 DEF AuthkitWait
  <2>3. CASE ~(OnCline(page) \/ OnRadarFlow(page) \/ page \notin AuthkitHost)
    <3>1. CASE CallbackError(page) # "none"
      BY <1>3, <1>5, <2>1, <2>3, <3>1 DEF AuthkitWait
    <3>2. CASE CallbackError(page) = "none" /\ GivesUp
      BY <1>1, <1>5, <2>1, <2>3, <3>2, Fails DEF AuthkitWait
    <3>3. CASE CallbackError(page) = "none" /\ ~GivesUp
      BY <1>2, <1>5, <2>1, <2>3, <3>3 DEF AuthkitWait
    <3> QED
      BY <3>1, <3>2, <3>3
  <2> QED
    BY <2>2, <2>3
<1>6. CASE MicrosoftTurn
  BY <1>6, Waits DEF MicrosoftTurn, flowVars
<1>7. CASE MicrosoftReturns
  BY <1>1, <1>7, Goes, Fails DEF MicrosoftReturns, Enter
<1>8. CASE AwaitCline
  <2>1. \E lap \in {"cline1", "cline2"}, next \in {"radar", "dashboard"} :
           WaitCline(lap, next)
    BY <1>8 DEF AwaitCline
  <2> QED
    BY <1>1, <2>1, Goes, Fails DEF WaitCline
<1> QED
  BY <1>4, <1>5, <1>6, <1>7, <1>8

LEMMA FlowRadar ==
    ASSUME FlowInv, NumbersInv, RadarStarts \/ RadarTurn \/ RadarReturns \/ Terms \/ Dashboard
    PROVE  FlowInv'
<1> USE Judged DEF Quiet, Idle, callVars
<1>1. pc # "done" /\ kind # "cookie" /\ refused = FALSE
  BY DEF RadarStarts, RadarTurn, RadarReturns, Terms, Dashboard, FlowInv
<1>2. CASE RadarStarts
  BY <1>1, <1>2, Goes, Waits DEF RadarStarts
<1>3. CASE RadarTurn
  BY <1>3, Waits DEF RadarTurn, flowVars
<1>4. CASE RadarReturns
  <2>1. UNCHANGED <<kind, got, refused>>
    BY <1>4 DEF RadarReturns
  <2>2. CASE Goto("terms")
    BY <1>1, <2>1, <2>2, Goes
  <2>3. CASE EndRound
    <3>1. CASE Finish("phone")
      BY <1>1, <2>1, <3>1, Fails
    <3>2. CASE pc' = "dispatch" /\ UNCHANGED outcome
      BY <1>1, <2>1, <3>2 DEF FlowInv, ResultIsWhole
    <3> QED
      BY <2>3, <3>1, <3>2 DEF EndRound
  <2>4. CASE Finish(Named(page)) \/ Finish("other")
    BY <1>1, <2>1, <2>4, Fails
  <2>5. verdict \in {"ok", "relogin", "lost", "other"}
    BY <1>4 DEF RadarReturns, NumbersInv, Verdicts
  <2> QED
    BY <1>4, <2>2, <2>3, <2>4, <2>5 DEF RadarReturns
<1>5. CASE Terms
  BY <1>1, <1>5, Goes, Fails DEF Terms, Enter
<1>6. CASE Dashboard
  BY <1>1, <1>6, Goes, Fails DEF Dashboard
<1> QED
  BY <1>2, <1>3, <1>4, <1>5, <1>6

LEMMA FlowResult ==
    ASSUME FlowInv,
           ReadCookies \/ CreateKey \/ CapturePayment \/ Worker \/ WorkerKey
    PROVE  FlowInv'
<1> USE Judged DEF Quiet, Idle, callVars
<1>1. pc # "done" /\ refused = FALSE
  BY DEF ReadCookies, CreateKey, CapturePayment, Worker, WorkerKey, FlowInv
<1>2. CASE ReadCookies
  BY <1>1, <1>2, Fails DEF ReadCookies, Goto, FlowInv, ResultIsWhole
<1>3. CASE CreateKey
  BY <1>1, <1>3, Fails DEF CreateKey, MakeKey, Goto, FlowInv, ResultIsWhole
<1>4. CASE CapturePayment
  <2>1. kind \in {"login", "refresh"} /\ UNCHANGED <<kind, refused>>
    BY <1>4 DEF CapturePayment, FlowInv, Kinds
  <2>2. CASE NoPayment
    BY <1>1, <1>4, <2>1, <2>2 DEF CapturePayment, NoPayment, Finish, FlowInv, ResultIsWhole
  <2>3. CASE PaymentFound
    BY <1>1, <1>4, <2>1, <2>3 DEF CapturePayment, PaymentFound, Finish, FlowInv,
       ResultIsWhole
  <2> QED
    BY <1>4, <2>2, <2>3 DEF CapturePayment
<1>5. CASE Worker
  <2>1. UNCHANGED <<kind, refused>> /\ pc = "worker"
    BY <1>5 DEF Worker
  <2>2. CASE /\ IF kind = "login" THEN Goto("workerKey") ELSE Finish("ok")
             /\ got' = got \cup {"cookies"}
    BY <1>1, <2>1, <2>2 DEF Goto, Finish, FlowInv, ResultIsWhole
  <2>3. CASE kind = "login" /\ EndRound /\ UNCHANGED got
    <3>1. CASE Finish("phone")
      BY <1>1, <2>1, <2>3, <3>1, Fails
    <3>2. CASE pc' = "dispatch" /\ UNCHANGED outcome
      BY <1>1, <2>1, <2>3, <3>2 DEF FlowInv, ResultIsWhole
    <3> QED
      BY <2>3, <3>1, <3>2 DEF EndRound
  <2>4. CASE \E o \in Outcomes \ {"none", "ok"} : Finish(o) /\ UNCHANGED got
    BY <1>1, <2>1, <2>4, Fails
  <2> QED
    BY <1>5, <2>2, <2>3, <2>4 DEF Worker
<1>6. CASE WorkerKey
  <2>1. CASE Finish("ok") /\ got' = got \cup {"key"}
    BY <1>1, <1>6, <2>1 DEF WorkerKey, Finish, FlowInv, ResultIsWhole
  <2>2. CASE Finish("other") /\ UNCHANGED got
    BY <1>1, <1>6, <2>2, Fails DEF WorkerKey
  <2> QED
    BY <1>6, <2>1, <2>2 DEF WorkerKey, MakeKey
<1> QED
  BY <1>2, <1>3, <1>4, <1>5, <1>6

LEMMA FlowStep ==
    ASSUME LoginInv, Next
    PROVE  FlowInv'
<1> USE DEF LoginInv
<1>1. CASE Deadline \/ Ticks \/ Moves
  BY <1>1, Waits DEF Deadline, Ticks, Moves, Quiet, Idle, callVars, flowVars
<1> QED
  BY <1>1, FlowStart, FlowGoogle, FlowAuthkit, FlowRadar, FlowResult DEF Next, Step

(* Only the loops call handleAuthkitWait.                                  *)
LEMMA CallerStep ==
    ASSUME CallerInv, Next
    PROVE  CallerInv'
<1> USE DEF CallerInv, Loops, Quiet, Idle, callVars
<1>1. CASE GoogleAuthkit \/ AwaitCline
  BY <1>1 DEF GoogleAuthkit, AwaitCline, WaitCline
<1>2. CASE AuthkitLook
  BY <1>2 DEF AuthkitLook, Back, CallbackFails
<1>3. CASE AuthkitWait
  BY <1>3 DEF AuthkitWait, Back, CallbackFails
<1>4. CASE UNCHANGED caller
  BY <1>4
<1> QED
  BY <1>1, <1>2, <1>3, <1>4 DEF Next, Step, Run, Dispatch, Launch, Open, StartIdentity,
     AwaitProvider, GoogleLeft, GoogleDeadline, GoogleCard, GoogleCardFails, GoogleEmail,
     GooglePassword, MicrosoftTurn, MicrosoftReturns, RadarStarts, RadarTurn,
     RadarReturns, Terms, Dashboard, ReadCookies, CreateKey, CapturePayment, Worker,
     WorkerKey, Deadline, Ticks, Moves, flowVars

(* The numbers change with the phone verification, and the verdict is      *)
(* taken back only when a new round begins.                                *)
LEMMA NumbersKept ==
    ASSUME NumbersInv, Next
    PROVE  NumbersInv'
<1> USE DEF NumbersInv, VerifyPcs, Verdicts, phoneVars, Quiet
<1>1. CASE RadarStarts
  <2>1. CASE EnterVerify
    BY <1>1, <2>1 DEF RadarStarts, EnterVerify, Holding
  <2>2. CASE UNCHANGED verifyVars
    BY <2>2 DEF verifyVars
  <2> QED
    BY <1>1, <2>1, <2>2 DEF RadarStarts
<1>2. CASE RadarTurn
  BY <1>2, NumbersStep DEF RadarTurn
<1>3. CASE RadarReturns
  <2>1. UNCHANGED <<vpc, open, finished>>
    BY <1>3 DEF RadarReturns
  <2>2. CASE verdict = "relogin" /\ verdict' = "none"
    BY <2>1, <2>2
  <2>3. CASE UNCHANGED verdict
    BY <2>1, <2>3
  <2>4. verdict \in {"ok", "relogin", "lost", "other"}
    BY <1>3 DEF RadarReturns
  <2> QED
    BY <1>3, <2>2, <2>3, <2>4 DEF RadarReturns
<1>4. CASE UNCHANGED verifyVars
  BY <1>4 DEF verifyVars
<1> QED
  BY <1>1, <1>2, <1>3, <1>4 DEF Next, Step, Run, Dispatch, Launch, Open, StartIdentity,
     AwaitProvider, GoogleLeft, GoogleDeadline, GoogleAuthkit, GoogleCard,
     GoogleCardFails, GoogleEmail, GooglePassword, AuthkitLook, AuthkitWait,
     MicrosoftTurn, MicrosoftReturns, AwaitCline, WaitCline, Terms, Dashboard,
     ReadCookies, CreateKey, CapturePayment, Worker, WorkerKey, Deadline, Ticks, Moves

(* The cards change with the Microsoft login.                              *)
LEMMA CardsKept ==
    ASSUME CardsInv, Next
    PROVE  CardsInv'
<1> USE DEF Quiet
<1>1. CASE AwaitProvider
  BY <1>1 DEF AwaitProvider, EnterMicrosoft, msVars, CardsInv
<1>2. CASE MicrosoftTurn
  BY <1>2, CardsStep DEF MicrosoftTurn
<1>3. CASE Ticks
  BY <1>3 DEF Ticks, MsTick, CardsInv
<1>4. CASE UNCHANGED msVars
  BY <1>4 DEF msVars, CardsInv
<1> QED
  BY <1>1, <1>2, <1>3, <1>4 DEF Next, Step, Run, Dispatch, Launch, Open, StartIdentity,
     GoogleLeft, GoogleDeadline, GoogleAuthkit, GoogleCard, GoogleCardFails,
     GoogleEmail, GooglePassword, AuthkitLook, AuthkitWait, MicrosoftReturns,
     AwaitCline, WaitCline, RadarStarts, RadarTurn, RadarReturns, Terms, Dashboard,
     ReadCookies, CreateKey, CapturePayment, Worker, WorkerKey, Deadline, Moves

LEMMA StepOK == LoginInv /\ [Next]_vars => LoginInv'
<1> SUFFICES ASSUME LoginInv, [Next]_vars PROVE LoginInv'
  OBVIOUS
<1>1. CASE Next
  BY <1>1, FlowStep, CallerStep, NumbersKept, CardsKept DEF LoginInv
<1>2. CASE UNCHANGED vars
  <2>1. UNCHANGED <<flowVars, verifyVars, msVars>>
    BY <1>2 DEF vars
  <2>2. FlowInv' /\ CallerInv'
    BY <2>1 DEF flowVars, LoginInv, FlowInv, CallerInv, ResultIsWhole
  <2>3. NumbersInv' /\ CardsInv'
    BY <2>1 DEF verifyVars, phoneVars, msVars, LoginInv, NumbersInv, CardsInv
  <2> QED
    BY <2>2, <2>3 DEF LoginInv
<1> QED
  BY <1>1, <1>2

LEMMA InitOK == Init => LoginInv
<1> SUFFICES ASSUME Init PROVE LoginInv
  OBVIOUS
<1>1. NumbersInv
  BY DEF Init, InitVerify, NumbersInv, VerifyPcs, Verdicts, Holding
<1>2. CardsInv
  BY DEF Init, InitMicrosoft, NoClicks, CardsInv
<1>3. FlowInv /\ CallerInv
  BY DEF Init, FlowInv, CallerInv, ResultIsWhole
<1> QED
  BY <1>1, <1>2, <1>3 DEF LoginInv

-----------------------------------------------------------------------------
(* In every reachable state of a session the numbers, the cards, the       *)
(* refusal and the result agree with where the session stands              *)
(* (flow.go:44, radar.go:20, microsoft.go:95).                             *)
THEOREM SessionAgrees == Spec => []LoginInv
BY InitOK, StepOK, PTL DEF Spec

(* Every number GetNumber returned is settled once, by the time its        *)
(* attempt is over (radar.go:73-78, :121-124).                             *)
THEOREM EveryNumberIsSettled == Spec => []NumbersAreSettled
<1>1. LoginInv => NumbersAreSettled
  BY DEF LoginInv, NumbersInv, NumbersAreSettled
<1> QED
  BY <1>1, SessionAgrees, PTL

(* A card is submitted at most once in a login (microsoft.go:218).         *)
THEOREM NoSecondClick == Spec => []CardsSubmittedOnce
<1>1. LoginInv => CardsSubmittedOnce
  BY DEF LoginInv, CardsInv, CardsSubmittedOnce
<1> QED
  BY <1>1, SessionAgrees, PTL

(* A login that read policy_denied ends as denied (error.go:17).           *)
THEOREM RefusedForGood == Spec => []RefusalIsFinal
<1>1. LoginInv => RefusalIsFinal
  BY DEF LoginInv, FlowInv, RefusalIsFinal
<1> QED
  BY <1>1, SessionAgrees, PTL

(* What a session that succeeded returns is complete, and its browser is   *)
(* closed (flow.go:44-135).                                                *)
THEOREM WholeResult == Spec => []ResultIsWhole
<1>1. LoginInv => ResultIsWhole
  BY DEF LoginInv, FlowInv
<1> QED
  BY <1>1, SessionAgrees, PTL

-----------------------------------------------------------------------------
(* An account is never waiting and being synced at once, and a scan that   *)
(* does not run has neither: so the next one starts from nothing.          *)
Figures == [running : BOOLEAN, total : Nat, done : Nat, fail : Nat, paid : Nat,
            unpaid : Nat]
ScanShape ==
    /\ asking = [a \in ScanAccounts |-> asking[a]]
    /\ todo \subseteq ScanAccounts /\ todo \cap Busy = {}
    /\ batch = Nothing \/ batch \subseteq ScanAccounts
    /\ status \in Figures /\ status.total <= Cardinality(ScanAccounts)
    /\ slots \in Int
    /\ ~status.running => todo = {} /\ Busy = {}
ScanInv == ScanShape /\ ScanAddsUp

-----------------------------------------------------------------------------
LEMMA Sets ==
    /\ IsFiniteSet({}) /\ Cardinality({}) = 0
    /\ \A S \in SUBSET ScanAccounts :
          /\ IsFiniteSet(S) /\ Cardinality(S) \in Nat
          /\ Cardinality(S) <= Cardinality(ScanAccounts)
          /\ \A a \in ScanAccounts \ S : Cardinality(S \cup {a}) = Cardinality(S) + 1
          /\ \A a \in S : Cardinality(S \ {a}) = Cardinality(S) - 1
<1>1. ASSUME NEW S \in SUBSET ScanAccounts
      PROVE  /\ IsFiniteSet(S) /\ Cardinality(S) \in Nat
             /\ Cardinality(S) <= Cardinality(ScanAccounts)
  BY ScanAssumption, FS_Subset, FS_CardinalityType
<1>2. ASSUME NEW S \in SUBSET ScanAccounts, NEW a \in ScanAccounts \ S
      PROVE  Cardinality(S \cup {a}) = Cardinality(S) + 1
  BY <1>1, FS_AddElement
<1>3. ASSUME NEW S \in SUBSET ScanAccounts, NEW a \in S
      PROVE  Cardinality(S \ {a}) = Cardinality(S) - 1
  BY <1>1, FS_RemoveElement
<1> QED
  BY <1>1, <1>2, <1>3, FS_EmptySet

LEMMA ScanInitOK == InitScan => ScanInv
<1> SUFFICES ASSUME InitScan PROVE ScanInv
  OBVIOUS
<1>1. Busy = {}
  BY DEF InitScan, Busy
<1> QED
  BY <1>1, Sets DEF InitScan, ScanInv, ScanShape, ScanAddsUp, Figures

(* Nothing the figures are made of changes.                                *)
LEMMA Elsewhere ==
    ASSUME ScanInv, UNCHANGED <<status, todo, slots, asking>>,
           batch' = Nothing \/ batch' \subseteq ScanAccounts
    PROVE  ScanInv'
BY DEF ScanInv, ScanShape, ScanAddsUp, Busy

(* A scan is claimed, or the claim is refused.                             *)
LEMMA ClaimOK ==
    ASSUME ScanInv, NEW list \in SUBSET ScanAccounts, Claim(list),
           UNCHANGED <<slots, asking>>,
           batch' = Nothing \/ batch' \subseteq ScanAccounts
    PROVE  ScanInv'
<1>1. Busy' = Busy
  BY DEF Busy
<1>2. CASE Free
  <2>1. todo = {} /\ Busy = {}
    BY <1>2 DEF Free, ScanInv, ScanShape
  <2>2. /\ status' = [running |-> TRUE, total |-> Cardinality(list), done |-> 0,
                      fail |-> 0, paid |-> 0, unpaid |-> 0]
        /\ todo' = list
    BY <1>2 DEF Claim
  <2>3. /\ Cardinality(list) \in Nat /\ Cardinality(list) <= Cardinality(ScanAccounts)
        /\ Cardinality({}) = 0
    BY Sets
  <2>4. ScanShape'
    BY <1>1, <2>1, <2>2, <2>3 DEF ScanInv, ScanShape, Figures
  <2>5. ScanAddsUp'
    BY <1>1, <2>1, <2>2, <2>3 DEF ScanInv, ScanAddsUp
  <2> QED
    BY <2>4, <2>5 DEF ScanInv
<1>3. CASE ~Free
  BY <1>3, Elsewhere DEF Claim
<1> QED
  BY <1>2, <1>3

LEMMA RunNextOK ==
    ASSUME ScanInv, NEW a \in ScanAccounts, RunNext(a)
    PROVE  ScanInv'
<1>1. a \in todo /\ a \notin Busy /\ todo \subseteq ScanAccounts /\ Busy \subseteq ScanAccounts
  BY DEF RunNext, ScanInv, ScanShape, Busy
<1>2. asking' = [b \in ScanAccounts |-> asking'[b]]
  BY DEF RunNext, ScanInv, ScanShape
<1>3. Busy' = Busy \cup {a} /\ todo' = todo \ {a}
  BY DEF RunNext, ScanInv, ScanShape, Busy
<1>4. /\ Cardinality(Busy \cup {a}) = Cardinality(Busy) + 1
      /\ Cardinality(todo \ {a}) = Cardinality(todo) - 1
      /\ Cardinality(Busy) \in Nat /\ Cardinality(todo) \in Nat
  BY <1>1, Sets
<1>5. ScanShape'
  BY <1>1, <1>2, <1>3 DEF RunNext, ScanInv, ScanShape
<1>6. ScanAddsUp'
  BY <1>3, <1>4 DEF RunNext, ScanInv, ScanShape, ScanAddsUp, Figures
<1> QED
  BY <1>5, <1>6 DEF ScanInv

(* A goroutine counts its result once and leaves with its place.           *)
LEMMA LeaveOK ==
    ASSUME ScanInv, NEW a \in ScanAccounts, asking[a] # {},
           NEW result \in {"fail", "paid", "unpaid"}, Leave(a, result)
    PROVE  ScanInv'
<1>1. a \in Busy /\ a \notin todo /\ Busy \subseteq ScanAccounts /\ todo \subseteq ScanAccounts
  BY DEF Busy, ScanInv, ScanShape
<1>2. asking' = [b \in ScanAccounts |-> asking'[b]]
  BY DEF Leave, ScanInv, ScanShape
<1>3. Busy' = Busy \ {a} /\ todo' = todo
  BY DEF Leave, ScanInv, ScanShape, Busy
<1>4. /\ Cardinality(Busy \ {a}) = Cardinality(Busy) - 1
      /\ Cardinality(Busy) \in Nat /\ Cardinality(todo) \in Nat
  BY <1>1, Sets
<1>5. /\ status' \in Figures
      /\ status'.running = status.running /\ status'.total = status.total
      /\ status'.done = status.done + 1
      /\ status'.fail + status'.paid + status'.unpaid =
            status.fail + status.paid + status.unpaid + 1
  <2>1. status \in Figures
    BY DEF ScanInv, ScanShape
  <2>2. status' = [status EXCEPT
           !.done = status.done + 1,
           !.fail = IF result = "fail" THEN status.fail + 1 ELSE status.fail,
           !.paid = IF result = "paid" THEN status.paid + 1 ELSE status.paid,
           !.unpaid = IF result = "unpaid" THEN status.unpaid + 1 ELSE status.unpaid]
    BY DEF Leave, Count
  <2>3. /\ status'.running = status.running /\ status'.total = status.total
        /\ status'.done = status.done + 1
        /\ status'.fail = IF result = "fail" THEN status.fail + 1 ELSE status.fail
        /\ status'.paid = IF result = "paid" THEN status.paid + 1 ELSE status.paid
        /\ status'.unpaid = IF result = "unpaid" THEN status.unpaid + 1 ELSE status.unpaid
    BY <2>1, <2>2 DEF Figures
  <2>4. status' \in Figures
    <3>1. /\ status.done + 1 \in Nat
          /\ (IF result = "fail" THEN status.fail + 1 ELSE status.fail) \in Nat
          /\ (IF result = "paid" THEN status.paid + 1 ELSE status.paid) \in Nat
          /\ (IF result = "unpaid" THEN status.unpaid + 1 ELSE status.unpaid) \in Nat
      BY <2>1 DEF Figures
    <3>2. ASSUME NEW d \in Nat, NEW f \in Nat, NEW p \in Nat, NEW u \in Nat,
                 d = status.done + 1,
                 f = IF result = "fail" THEN status.fail + 1 ELSE status.fail,
                 p = IF result = "paid" THEN status.paid + 1 ELSE status.paid,
                 u = IF result = "unpaid" THEN status.unpaid + 1 ELSE status.unpaid
          PROVE  status' \in Figures
      <4>1. status' = [status EXCEPT !.done = d, !.fail = f, !.paid = p, !.unpaid = u]
        BY <2>2, <3>2
      <4>2. [status EXCEPT !.done = d, !.fail = f, !.paid = p, !.unpaid = u]
               \in Figures
        BY <2>1, Zenon DEF Figures
      <4> QED
        BY <4>1, <4>2
    <3> QED
      BY <3>1, <3>2
  <2>5. status'.fail + status'.paid + status'.unpaid =
           status.fail + status.paid + status.unpaid + 1
    BY <2>1, <2>3 DEF Figures
  <2> QED
    BY <2>3, <2>4, <2>5
<1>6. slots' = slots - 1 /\ slots' \in Int /\ batch' = batch
  BY DEF Leave, LeaveSlot, ScanInv, ScanShape
<1>7. status.running
  BY <1>1 DEF ScanInv, ScanShape
<1>8. ScanShape'
  BY <1>1, <1>2, <1>3, <1>5, <1>6, <1>7 DEF ScanInv, ScanShape
<1>9. status.done \in Nat /\ status'.done \in Nat /\ status.total \in Nat /\ slots \in Int
  BY <1>5 DEF ScanInv, ScanShape, Figures
<1>10. ScanAddsUp'
  BY <1>3, <1>4, <1>5, <1>6, <1>9 DEF ScanInv, ScanAddsUp
<1> QED
  BY <1>8, <1>10 DEF ScanInv

-----------------------------------------------------------------------------
(* A sync ends as one of the three, whichever way it takes.                *)
LEMMA SyncStepOK ==
    ASSUME ScanInv, NEW a \in ScanAccounts, SyncStep(a)
    PROVE  ScanInv'
<1>1. asking[a] # {}
  BY DEF SyncStep, SyncSpent, SyncStale, SyncFails, SyncDone
<1>2. \E result \in {"fail", "paid", "unpaid"} : Leave(a, result)
  BY DEF SyncStep, SyncSpent, SyncStale, SyncFails, SyncDone
<1> QED
  BY <1>1, <1>2, LeaveOK

LEMMA ScanStep == ScanInv /\ [NextScan]_scanVars => ScanInv'
<1> SUFFICES ASSUME ScanInv, [NextScan]_scanVars PROVE ScanInv'
  OBVIOUS
<1>1. batch = Nothing \/ batch \subseteq ScanAccounts
  BY DEF ScanInv, ScanShape
<1>2. CASE StartLoop \/ LoopList \/ LoopIdle
  BY <1>1, <1>2, Elsewhere DEF StartLoop, LoopList, LoopIdle
<1>3. CASE LoopStart
  <2>1. Listed(urow) \in SUBSET ScanAccounts
    BY DEF Listed
  <2> QED
    BY <1>1, <1>3, <2>1, ClaimOK DEF LoopStart
<1>4. CASE ByHandList
  <2>1. batch' \subseteq ScanAccounts
    BY <1>4 DEF ByHandList, Listed, There
  <2> QED
    BY <1>4, <2>1, Elsewhere DEF ByHandList
<1>5. CASE ByHandStart
  BY <1>1, <1>5, ClaimOK DEF ByHandStart
<1>6. CASE RunEnds
  <2>1. Busy' = Busy /\ todo' = todo /\ slots' = slots
    BY <1>6 DEF RunEnds, Busy
  <2>2. status' = [status EXCEPT !.running = FALSE] /\ todo = {} /\ Busy = {}
    BY <1>6 DEF RunEnds
  <2>3. ScanShape'
    BY <1>6, <2>1, <2>2 DEF RunEnds, ScanInv, ScanShape, Figures
  <2>4. ScanAddsUp'
    BY <2>1, <2>2 DEF ScanInv, ScanShape, ScanAddsUp
  <2> QED
    BY <2>3, <2>4 DEF ScanInv
<1>7. CASE \E a \in ScanAccounts : RunNext(a)
  BY <1>7, RunNextOK
<1>8. CASE \E a \in ScanAccounts : SyncStep(a)
  BY <1>8, SyncStepOK
<1>9. CASE \E a \in ScanAccounts : EditRow(a)
  BY <1>1, <1>9, Elsewhere DEF EditRow
<1>10. CASE UNCHANGED scanVars
  BY <1>1, <1>10, Elsewhere DEF scanVars
<1> QED
  BY <1>2, <1>3, <1>4, <1>5, <1>6, <1>7, <1>8, <1>9, <1>10 DEF NextScan, LoopStep

(* The waiting accounts, those being synced and the figures agree in every *)
(* reachable state (sync.go:213-225, :252-261).                            *)
THEOREM ScanAgrees == SpecScan => []ScanInv
BY ScanInitOK, ScanStep, PTL DEF SpecScan

(* The figures of a scan add up, whatever is deleted under it and whoever  *)
(* tries to start another one (sync.go:213-225).                           *)
THEOREM FiguresAddUp == SpecScan => []ScanAddsUp
<1>1. ScanInv => ScanAddsUp
  BY DEF ScanInv
<1> QED
  BY <1>1, ScanAgrees, PTL

-----------------------------------------------------------------------------
(* Rows and places: a row is read whole, and a sync under way has read one.*)
RowsInv ==
    /\ urow \in [ScanAccounts -> UsageRow \cup {Nothing}]
    /\ loop \in {"off", "start", "claim", "idle", "sleep"}
    /\ slots <= ScanLimit
    /\ \A a \in ScanAccounts : \A r \in asking[a] :
          asking[a] = {r} /\ r \in UsageRow \cup {Nothing}

LEMMA RowsInit == InitScan => RowsInv
<1> SUFFICES ASSUME InitScan PROVE RowsInv
  OBVIOUS
<1>1. ScanLimit \in Nat
  BY ScanAssumption
<1>2. urow \in [ScanAccounts -> UsageRow \cup {Nothing}]
  BY DEF InitScan
<1> QED
  BY <1>1, <1>2 DEF InitScan, RowsInv

(* A row is written by a sync that works on what it read, or edited.       *)
LEMMA RowWritten ==
    ASSUME RowsInv, NEW a \in ScanAccounts, SyncStep(a) \/ EditRow(a)
    PROVE  urow' \in [ScanAccounts -> UsageRow \cup {Nothing}]
<1>1. urow \in [ScanAccounts -> UsageRow \cup {Nothing}]
  BY DEF RowsInv
<1>2. ASSUME NEW row \in UsageRow \cup {Nothing}, urow' = [urow EXCEPT ![a] = row]
      PROVE  urow' \in [ScanAccounts -> UsageRow \cup {Nothing}]
  BY <1>1, <1>2
<1>3. ASSUME NEW row \in UsageRow, Save(a, row)
      PROVE  urow' \in [ScanAccounts -> UsageRow \cup {Nothing}]
  BY <1>1, <1>2, <1>3 DEF Save
<1>4. CASE SyncSpent(a)
  BY <1>2, <1>4 DEF SyncSpent
<1>5. CASE SyncStale(a)
  BY <1>1, <1>5 DEF SyncStale
<1>6. CASE SyncFails(a)
  <2>1. PICK prev \in asking[a], stale \in BOOLEAN :
           IF prev = Nothing \/ urow[a] = Nothing THEN UNCHANGED urow
           ELSE Save(a, [prev EXCEPT !.stale = stale, !.paid = urow[a].paid])
    BY <1>6 DEF SyncFails
  <2>2. CASE prev = Nothing \/ urow[a] = Nothing
    BY <1>1, <2>1, <2>2
  <2>3. CASE ~(prev = Nothing \/ urow[a] = Nothing)
    <3>1. prev \in UsageRow /\ urow[a] \in UsageRow
      BY <1>1, <2>3 DEF RowsInv
    <3>2. [prev EXCEPT !.stale = stale, !.paid = urow[a].paid] \in UsageRow
      BY <3>1 DEF UsageRow
    <3> QED
      BY <1>3, <2>1, <2>3, <3>2
  <2> QED
    BY <2>2, <2>3
<1>7. CASE SyncDone(a)
  <2>1. PICK subscribed \in BOOLEAN, spent \in BOOLEAN :
           Save(a, [paid |-> subscribed, stale |-> FALSE, spent |-> subscribed /\ spent])
    BY <1>7 DEF SyncDone
  <2>2. [paid |-> subscribed, stale |-> FALSE, spent |-> subscribed /\ spent] \in UsageRow
    BY DEF UsageRow
  <2> QED
    BY <1>3, <2>1, <2>2
<1>8. CASE EditRow(a)
  <2>1. urow[a] \in UsageRow
    BY <1>1, <1>8 DEF EditRow, There
  <2>2. CASE urow' = [urow EXCEPT ![a] = Nothing]
    BY <1>2, <2>2
  <2>3. ASSUME NEW field \in {"paid", "stale", "spent"},
               urow' = [urow EXCEPT ![a][field] = ~@]
        PROVE  urow' \in [ScanAccounts -> UsageRow \cup {Nothing}]
    <3>1. [urow[a] EXCEPT ![field] = ~@] \in UsageRow
      BY <2>1 DEF UsageRow
    <3>2. urow' = [urow EXCEPT ![a] = [urow[a] EXCEPT ![field] = ~@]]
      BY <2>3
    <3> QED
      BY <1>2, <3>1, <3>2
  <2> QED
    BY <1>8, <2>2, <2>3 DEF EditRow
<1> QED
  BY <1>4, <1>5, <1>6, <1>7, <1>8 DEF SyncStep

LEMMA RowsStep == ScanInv /\ RowsInv /\ [NextScan]_scanVars => RowsInv'
<1> SUFFICES ASSUME ScanInv, RowsInv, [NextScan]_scanVars PROVE RowsInv'
  OBVIOUS
<1>1. ScanLimit \in Nat /\ slots \in Int
  BY ScanAssumption DEF ScanInv, ScanShape
<1>2. asking = [a \in ScanAccounts |-> asking[a]]
  BY DEF ScanInv, ScanShape
<1>3. CASE StartLoop \/ LoopStart \/ LoopIdle \/ ByHandStart \/ RunEnds
  BY <1>3 DEF StartLoop, LoopStart, LoopIdle, ByHandStart, RunEnds, RowsInv
<1>4. CASE LoopList \/ ByHandList
  <2>1. Kept \in [ScanAccounts -> UsageRow \cup {Nothing}]
    BY DEF Kept, RowsInv
  <2> QED
    BY <1>4, <2>1 DEF LoopList, ByHandList, RowsInv
<1>5. CASE \E a \in ScanAccounts : RunNext(a)
  <2>1. PICK a \in ScanAccounts : RunNext(a)
    BY <1>5
  <2>2. slots' <= ScanLimit
    BY <1>1, <2>1 DEF RunNext
  <2>3. urow[a] \in UsageRow \cup {Nothing} /\ asking' = [asking EXCEPT ![a] = {urow[a]}]
    BY <2>1 DEF RunNext, RowsInv
  <2>4. \A b \in ScanAccounts : asking'[b] = IF b = a THEN {urow[a]} ELSE asking[b]
    BY <1>2, <2>3
  <2> QED
    BY <2>1, <2>2, <2>3, <2>4 DEF RunNext, RowsInv
<1>6. CASE \E a \in ScanAccounts : SyncStep(a)
  <2>1. PICK a \in ScanAccounts : SyncStep(a)
    BY <1>6
  <2>2. \E result : Leave(a, result)
    BY <2>1 DEF SyncStep, SyncSpent, SyncStale, SyncFails, SyncDone
  <2>3. slots' <= ScanLimit
    BY <1>1, <2>2 DEF Leave, LeaveSlot, RowsInv
  <2>4. \A b \in ScanAccounts : asking'[b] = IF b = a THEN {} ELSE asking[b]
    BY <1>2, <2>2 DEF Leave
  <2>5. UNCHANGED loop
    BY <2>2 DEF Leave
  <2> QED
    BY <2>1, <2>3, <2>4, <2>5, RowWritten DEF RowsInv
<1>7. CASE \E a \in ScanAccounts : EditRow(a)
  <2>1. UNCHANGED <<loop, slots, asking>>
    BY <1>7 DEF EditRow
  <2>2. urow' \in [ScanAccounts -> UsageRow \cup {Nothing}]
    BY <1>7, RowWritten
  <2> QED
    BY <2>1, <2>2 DEF RowsInv
<1>8. CASE UNCHANGED scanVars
  BY <1>8 DEF scanVars, RowsInv
<1> QED
  BY <1>3, <1>4, <1>5, <1>6, <1>7, <1>8 DEF NextScan, LoopStep

(* The two invariants of a scan bound its figures by the accounts and its  *)
(* places by the channel.                                                  *)
LEMMA ScanTypes == ScanInv /\ RowsInv => TypeOKScan
<1> SUFFICES ASSUME ScanInv, RowsInv PROVE TypeOKScan
  OBVIOUS
<1>1. Busy \in SUBSET ScanAccounts /\ todo \in SUBSET ScanAccounts
  BY DEF Busy, ScanInv, ScanShape
<1>2. /\ Cardinality(Busy) \in Nat /\ Cardinality(todo) \in Nat
      /\ ScanAccounts \in SUBSET ScanAccounts
  BY <1>1, Sets
<1>3. Cardinality(ScanAccounts) \in Nat
  BY <1>2, Sets
<1>4. /\ status \in Figures /\ status.total <= Cardinality(ScanAccounts)
      /\ status.done = status.fail + status.paid + status.unpaid
      /\ status.total = status.done + Cardinality(todo) + Cardinality(Busy)
      /\ slots = Cardinality(Busy) /\ slots <= ScanLimit
  BY DEF ScanInv, ScanShape, ScanAddsUp, RowsInv
<1>5. /\ status.total \in Tally /\ status.done \in Tally /\ status.fail \in Tally
      /\ status.paid \in Tally /\ status.unpaid \in Tally
  BY <1>2, <1>3, <1>4 DEF Figures, Tally
<1>6. status \in [running : BOOLEAN, total : Tally, done : Tally, fail : Tally,
                  paid : Tally, unpaid : Tally]
  BY <1>4, <1>5 DEF Figures
<1>7. slots \in 0..ScanLimit
  BY <1>2, <1>4, ScanAssumption
<1> QED
  BY <1>6, <1>7 DEF TypeOKScan, RowsInv, ScanInv, ScanShape

-----------------------------------------------------------------------------
(* A session in its types.  Attempts: the next number is only gone for     *)
(* when there is one left, and a request only sent when there is a try.    *)
AttemptsInv ==
    /\ smsReady \in BOOLEAN /\ asked \in Nat
    /\ attempt \in 0..RadarPhoneAttempts /\ tries \in 0..GetNumberTries
    /\ vpc = "form" => attempt = 0
    /\ vpc = "send" => attempt < RadarPhoneAttempts
    /\ vpc = "get" => tries < GetNumberTries

(* Clocks: they stop at their limits.                                      *)
ClocksInv ==
    /\ mpc \in {"off", "look", "submit"}
    /\ mresult \in {"none", "ok", "denied", "other"}
    /\ elapsed \in 0..LoginTicks /\ idle \in 0..NoProgressTicks
    /\ held \in States /\ settled \in BOOLEAN /\ accepted \in BOOLEAN
    /\ seen \subseteq States

(* Where the session stands and what it returned.                          *)
PlaceInv ==
    /\ pc \in Pcs /\ round \in 1..MaxRounds
    /\ browser \in BOOLEAN /\ outcome \in Outcomes

(* What it knows; handleAuthkitWait goes back to a loop.                   *)
KnownInv ==
    /\ kind \in Kinds /\ python \in BOOLEAN /\ hasCookies \in BOOLEAN
    /\ provider \in {"google", "microsoft"}
    /\ late \in BOOLEAN /\ emailDone \in BOOLEAN /\ session \in BOOLEAN
    /\ got \subseteq {"cookies", "key", "payment"}
    /\ page \in Pages
    /\ pc \in {"authkit", "authkitWait"} => caller \in Loops

SessionInv == LoginInv /\ AttemptsInv /\ ClocksInv /\ PlaceInv /\ KnownInv

LEMMA SessionTypes == SessionInv => TypeOK
<1> SUFFICES ASSUME SessionInv PROVE TypeOK
  OBVIOUS
<1> USE DEF SessionInv, LoginInv
<1>1. TypeOKVerify
  <2>1. open \in Int /\ finished \in Nat
    BY DEF NumbersInv
  <2> QED
    BY <2>1 DEF TypeOKVerify, NumbersInv, AttemptsInv
<1>2. TypeOKMicrosoft
  <2>1. clicks \in [Cards -> Nat]
    BY DEF CardsInv
  <2> QED
    BY <2>1 DEF TypeOKMicrosoft, CardsInv, ClocksInv
<1> QED
  BY <1>1, <1>2 DEF TypeOK, PlaceInv, KnownInv, CallerInv, FlowInv

(* The clocks start within their limits.                                   *)
LEMMA Zero ==
    /\ 0 \in 0..LoginTicks /\ 0 \in 0..NoProgressTicks
    /\ "other" \in States /\ {} \subseteq States
    /\ FALSE \in BOOLEAN
<1>1. 0 \in 0..LoginTicks /\ 0 \in 0..NoProgressTicks
  BY TicksAssumption
<1>2. "other" \in States /\ {} \subseteq States
  BY DEF States
<1> QED
  BY <1>1, <1>2

LEMMA SessionInit == Init => SessionInv
<1> SUFFICES ASSUME Init PROVE SessionInv
  OBVIOUS
<1>1. LoginInv
  BY InitOK
<1>2. AttemptsInv
  BY LimitsAssumption DEF Init, InitVerify, AttemptsInv
<1>3. ClocksInv
  BY Zero DEF Init, InitMicrosoft, ClocksInv
<1>4. PlaceInv
  <2>1. browser \in BOOLEAN
    BY Zenon DEF Init
  <2>2. 1 \in 1..MaxRounds
    BY RoundsAssumption
  <2> QED
    BY <2>1, <2>2 DEF Init, PlaceInv, Pcs, Outcomes
<1>5. KnownInv
  BY DEF Init, KnownInv, Pages, Kinds
<1> QED
  BY <1>1, <1>2, <1>3, <1>4, <1>5 DEF SessionInv

-----------------------------------------------------------------------------
(* A step of the phone verification leaves an attempt for the next one.    *)
LEMMA VerifyTypes ==
    ASSUME AttemptsInv, VerifyStep
    PROVE  AttemptsInv'
<1> USE LimitsAssumption DEF AttemptsInv, Return, NextNumber, phoneVars
<1>1. CASE VerifyForm
  BY <1>1 DEF VerifyForm
<1>2. CASE VerifySend
  BY <1>2 DEF VerifySend
<1>3. CASE AttemptForm
  BY <1>3 DEF AttemptForm
<1>4. CASE GetAway
  BY <1>4 DEF GetAway
<1>5. CASE GetFails \/ GetNumber
  BY <1>5 DEF GetFails, GetNumber
<1>6. CASE Fill \/ Submit
  BY <1>6 DEF Fill, Submit
<1>7. CASE NoCode \/ CodeRefused \/ CodeComes
  BY <1>7 DEF NoCode, CodeRefused, CodeComes
<1>8. CASE FillOTP \/ AcceptCode
  BY <1>8 DEF FillOTP, AcceptCode
<1> QED
  BY <1>1, <1>2, <1>3, <1>4, <1>5, <1>6, <1>7, <1>8 DEF VerifyStep

(* The attempts change with the phone verification only.                   *)
LEMMA AttemptsKept ==
    ASSUME AttemptsInv, Next
    PROVE  AttemptsInv'
<1>1. CASE RadarStarts
  <2>1. CASE EnterVerify
    BY <2>1, LimitsAssumption DEF EnterVerify, AttemptsInv, phoneVars
  <2>2. CASE UNCHANGED verifyVars
    BY <2>2 DEF verifyVars, AttemptsInv
  <2> QED
    BY <1>1, <2>1, <2>2 DEF RadarStarts
<1>2. CASE RadarTurn
  BY <1>2, VerifyTypes DEF RadarTurn
<1>3. CASE RadarReturns
  BY <1>3 DEF RadarReturns, AttemptsInv, phoneVars
<1>4. CASE UNCHANGED verifyVars
  BY <1>4 DEF verifyVars, AttemptsInv
<1> QED
  BY <1>1, <1>2, <1>3, <1>4 DEF Next, Step, Run, Dispatch, Launch, Open, StartIdentity,
     AwaitProvider, GoogleLeft, GoogleDeadline, GoogleAuthkit, GoogleCard,
     GoogleCardFails, GoogleEmail, GooglePassword, AuthkitLook, AuthkitWait,
     MicrosoftTurn, MicrosoftReturns, AwaitCline, WaitCline, Terms, Dashboard,
     ReadCookies, CreateKey, CapturePayment, Worker, WorkerKey, Deadline, Ticks, Moves,
     Quiet

(* A look at the page moves no clock but the one of the progress.          *)
LEMMA Looked ==
    ASSUME ClocksInv, NEW s \in States, Observe(s), elapsed' = elapsed,
           mpc' \in {"look", "submit"}, mresult' = mresult, accepted' \in BOOLEAN
    PROVE  ClocksInv'
<1>1. idle' \in 0..NoProgressTicks
  BY TicksAssumption DEF ClocksInv, Observe
<1>2. settled' \in BOOLEAN
  BY Zenon DEF Observe, ClocksInv
<1>3. seen' \subseteq States /\ held' \in States
  BY DEF Observe, ClocksInv
<1> QED
  BY <1>1, <1>2, <1>3 DEF ClocksInv

(* The end of a Microsoft login sets everything back.                      *)
LEMMA Returned ==
    ASSUME NEW r \in {"none", "ok", "denied", "other"}, MsReturn(r)
    PROVE  ClocksInv'
BY Zero DEF MsReturn, ClocksInv

LEMMA MsTypes ==
    ASSUME ClocksInv, MsStep
    PROVE  ClocksInv'
<1>1. CASE MsLookEnds
  BY <1>1, Returned DEF MsLookEnds
<1>2. CASE MsLookCallback
  <2>1. "callback" \in States
    BY DEF States
  <2> QED
    BY <1>2, <2>1, Looked DEF MsLookCallback, ClocksInv
<1>3. CASE MsLookCard
  <2>1. PICK emailField \in BOOLEAN, passField \in BOOLEAN :
           LET done == accepted \/ ("email" \in submitted /\ ~emailField)
           IN /\ accepted' = done
              /\ \E s \in CardsShown(emailField, passField, done) :
                    /\ Observe(s)
                    /\ IF Claims(s)
                          THEN mpc' = "submit" /\ submitted' = submitted \cup {s}
                          ELSE UNCHANGED <<mpc, submitted>>
    BY <1>3 DEF MsLookCard
  <2>2. accepted' \in BOOLEAN
    BY <2>1, Zenon
  <2>3. PICK s \in States : Observe(s) /\ mpc' \in {mpc, "submit"}
    BY <2>1 DEF CardsShown, States, Cards
  <2>4. mpc = "look" /\ elapsed' = elapsed /\ mresult' = mresult
    BY <1>3 DEF MsLookCard
  <2> QED
    BY <2>2, <2>3, <2>4, Looked
<1>4. CASE MsSubmit
  <2>1. CASE MsClicked
    BY <2>1, TicksAssumption DEF MsClicked, ClocksInv
  <2>2. CASE MsReturn("other") \/ MsReturn("ok")
    BY <2>2, Returned
  <2> QED
    BY <1>4, <2>1, <2>2 DEF MsSubmit
<1> QED
  BY <1>1, <1>2, <1>3, <1>4 DEF MsStep

(* The clocks change with the Microsoft login only.                        *)
LEMMA ClocksKept ==
    ASSUME ClocksInv, Next
    PROVE  ClocksInv'
<1> USE DEF Quiet
<1>1. CASE AwaitProvider
  BY <1>1 DEF AwaitProvider, EnterMicrosoft, msVars, ClocksInv
<1>2. CASE MicrosoftTurn
  BY <1>2, MsTypes DEF MicrosoftTurn
<1>3. CASE Ticks
  <2>1. /\ elapsed' \in 0..LoginTicks /\ idle' \in 0..NoProgressTicks
        /\ settled' = TRUE
        /\ UNCHANGED <<mpc, mresult, held, accepted, seen>>
    BY <1>3, TicksAssumption DEF Ticks, MsTick, ClocksInv
  <2> QED
    BY <2>1 DEF ClocksInv
<1>4. CASE UNCHANGED msVars
  BY <1>4 DEF msVars, ClocksInv
<1> QED
  BY <1>1, <1>2, <1>3, <1>4 DEF Next, Step, Run, Dispatch, Launch, Open, StartIdentity,
     GoogleLeft, GoogleDeadline, GoogleAuthkit, GoogleCard, GoogleCardFails,
     GoogleEmail, GooglePassword, AuthkitLook, AuthkitWait, MicrosoftReturns,
     AwaitCline, WaitCline, RadarStarts, RadarTurn, RadarReturns, Terms, Dashboard,
     ReadCookies, CreateKey, CapturePayment, Worker, WorkerKey, Deadline, Moves

-----------------------------------------------------------------------------
(* The ways a step ends: with the session elsewhere, over, or in the next  *)
(* round.                                                                  *)
Proceeds ==
    \/ \E label \in Pcs \ {"authkit", "authkitWait"} : Goto(label)
    \/ \E o \in Outcomes : Finish(o)
    \/ EndRound
    \/ UNCHANGED <<pc, round, browser, outcome>>
(* handleAuthkitWait is entered with a caller, and waits with the same one.*)
Authkit ==
    \/ Goto("authkit") /\ caller' \in Loops
    \/ pc = "authkit" /\ Goto("authkitWait") /\ UNCHANGED caller

LEMMA Places ==
    ASSUME PlaceInv, Proceeds \/ Authkit
    PROVE  PlaceInv'
<1>1. {"done", "dispatch", "authkit", "authkitWait"} \subseteq Pcs /\ "phone" \in Outcomes
  BY DEF Pcs, Outcomes
<1>2. ASSUME NEW label \in Pcs, Goto(label)
      PROVE  PlaceInv'
  BY <1>2 DEF Goto, PlaceInv
<1>3. ASSUME NEW o \in Outcomes, Finish(o)
      PROVE  PlaceInv'
  <2>1. browser' \in BOOLEAN
    BY <1>3, Zenon DEF Finish
  <2> QED
    BY <1>1, <1>3, <2>1 DEF Finish, PlaceInv
<1>4. CASE EndRound
  <2>1. CASE round < MaxRounds
    <3>1. round' \in 1..MaxRounds
      BY <1>4, <2>1, RoundsAssumption DEF EndRound, PlaceInv
    <3>2. browser' \in BOOLEAN
      BY <1>4, <2>1, Zenon DEF EndRound
    <3> QED
      BY <1>1, <1>4, <2>1, <3>1, <3>2 DEF EndRound, PlaceInv
  <2>2. CASE ~(round < MaxRounds)
    BY <1>1, <1>3, <1>4, <2>2 DEF EndRound
  <2> QED
    BY <2>1, <2>2
<1>5. CASE UNCHANGED <<pc, round, browser, outcome>>
  BY <1>5 DEF PlaceInv
<1> QED
  BY <1>1, <1>2, <1>3, <1>4, <1>5 DEF Proceeds, Authkit

LEMMA JudgedTypes ==
    /\ \A e, q : Wrapped(e, q) \in Outcomes
    /\ \A q : Named(q) \in Outcomes
    /\ {"ok", "other", "phone"} \subseteq Outcomes
BY DEF Wrapped, Named, Outcomes

(* What a session knows stays in its type when the session proceeds.       *)
LEMMA Knows ==
    ASSUME KnownInv, UNCHANGED <<kind, python, provider, hasCookies>>,
           late' \in BOOLEAN, emailDone' \in BOOLEAN, session' \in BOOLEAN,
           got' \subseteq {"cookies", "key", "payment"}, page' \in Pages,
           \/ Proceeds /\ UNCHANGED caller
           \/ Authkit
           \/ pc' \notin {"authkit", "authkitWait"}
    PROVE  KnownInv'
<1>1. pc' \in {"authkit", "authkitWait"} => caller' \in Loops
  BY DEF KnownInv, Proceeds, Authkit, Goto, Finish, EndRound
<1> QED
  BY <1>1 DEF KnownInv

(* A step that learns nothing, wherever the session goes.                  *)
LEMMA Steady ==
    ASSUME PlaceInv, KnownInv, UNCHANGED callVars, Idle, late' \in {late, FALSE, TRUE},
           page' \in Pages, Proceeds
    PROVE  PlaceInv' /\ KnownInv'
<1>1. late' \in BOOLEAN
  BY DEF KnownInv
<1>2. UNCHANGED <<kind, python, provider, hasCookies>>
  BY DEF callVars
<1> QED
  BY <1>1, <1>2, Places, Knows DEF KnownInv, Idle

LEMMA TypesStart ==
    ASSUME PlaceInv, KnownInv, Run \/ Dispatch \/ Launch \/ Open \/ StartIdentity
    PROVE  PlaceInv' /\ KnownInv'
<1>1. page \in Pages /\ "blank" \in Pages
  BY DEF KnownInv, Pages
<1>2. {"dispatch", "worker", "launch", "open", "plan", "dashboard", "start", "await"}
         \subseteq Pcs \ {"authkit", "authkitWait"}
  BY DEF Pcs
<1>3. Run \/ Dispatch \/ StartIdentity \/ Open => Proceeds
  <2>1. CASE Run \/ StartIdentity
    BY <1>2, <2>1, JudgedTypes DEF Run, StartIdentity, Proceeds
  <2>2. CASE Dispatch
    <3>1. kind \in Kinds
      BY DEF KnownInv
    <3>2. Goto("worker") \/ Goto("launch") \/ Finish("other")
      BY <2>2, <3>1 DEF Dispatch, Kinds
    <3> QED
      BY <1>2, <3>2, JudgedTypes DEF Proceeds
  <2>3. CASE Open
    <3>1. Goto("dashboard") \/ Goto("start") \/ Finish("other")
      BY <2>3 DEF Open
    <3> QED
      BY <1>2, <3>1, JudgedTypes DEF Proceeds
  <2> QED
    BY <2>1, <2>2, <2>3
<1>4. CASE Run \/ Dispatch \/ StartIdentity \/ Open
  <2>1. UNCHANGED callVars /\ Idle /\ late' = late /\ page' \in Pages
    BY <1>1, <1>4 DEF Run, Dispatch, StartIdentity, Open, Quiet
  <2> QED
    BY <1>3, <1>4, <2>1, Steady
<1>5. CASE Launch
  <2>1. UNCHANGED callVars /\ Idle /\ late' = late /\ page' \in Pages
    BY <1>1, <1>5 DEF Launch, Quiet
  <2>2. CASE Finish("other")
    BY <2>1, <2>2, Steady, JudgedTypes DEF Proceeds
  <2>3. CASE /\ pc' = IF kind = "login" THEN "open" ELSE "plan"
             /\ browser' = TRUE
             /\ UNCHANGED <<round, outcome>>
    <3>1. browser' \in BOOLEAN /\ pc' \in Pcs /\ pc' \notin {"authkit", "authkitWait"}
      BY <1>2, <2>3
    <3> QED
      BY <2>1, <2>3, <3>1, Knows DEF PlaceInv, KnownInv, Idle, callVars
  <2> QED
    BY <1>5, <2>2, <2>3 DEF Launch
<1> QED
  BY <1>4, <1>5

LEMMA TypesGoogle ==
    ASSUME PlaceInv, KnownInv,
           AwaitProvider \/ GoogleLeft \/ GoogleDeadline \/ GoogleAuthkit \/ GoogleCard
             \/ GoogleCardFails \/ GoogleEmail \/ GooglePassword
    PROVE  PlaceInv' /\ KnownInv'
<1>1. page \in Pages /\ emailDone \in BOOLEAN
  BY DEF KnownInv
<1>2. {"cline1", "google", "microsoft"} \subseteq Pcs \ {"authkit", "authkitWait"}
  BY DEF Pcs, Loops
<1>3. CASE GoogleLeft \/ GoogleDeadline \/ GoogleCard \/ GoogleCardFails
  <2>1. UNCHANGED callVars /\ Idle /\ page' \in Pages
    BY <1>1, <1>3 DEF GoogleLeft, GoogleDeadline, GoogleCard, GoogleCardFails, Quiet
  <2>2. Proceeds /\ late' \in {late, FALSE}
    BY <1>2, <1>3, JudgedTypes DEF GoogleLeft, GoogleDeadline, GoogleCard,
       GoogleCardFails, Enter, Proceeds
  <2> QED
    BY <2>1, <2>2, Steady
<1>4. CASE AwaitProvider
  <2>1. /\ UNCHANGED <<callVars, page, caller, session, got>>
        /\ emailDone' \in {emailDone, FALSE} /\ late' \in {late, FALSE} /\ Proceeds
    BY <1>2, <1>4 DEF AwaitProvider, Enter, Proceeds
  <2> QED
    BY <2>1, Places, Knows DEF KnownInv, callVars
<1>5. CASE GoogleAuthkit
  <2>1. /\ UNCHANGED <<callVars, late, page, emailDone, session, got>> /\ Authkit
    BY <1>5 DEF GoogleAuthkit, Quiet, Authkit, Loops
  <2> QED
    BY <2>1, Places, Knows DEF KnownInv, callVars
<1>6. CASE GoogleEmail \/ GooglePassword
  <2>1. /\ UNCHANGED <<callVars, page, caller, late, session, got>>
        /\ emailDone' \in {TRUE, FALSE} /\ Proceeds
    BY <1>6 DEF GoogleEmail, GooglePassword, Quiet, Proceeds
  <2> QED
    BY <2>1, Places, Knows DEF KnownInv, callVars
<1> QED
  BY <1>3, <1>4, <1>5, <1>6

LEMMA TypesAuthkit ==
    ASSUME PlaceInv, KnownInv, AuthkitLook \/ AuthkitWait
    PROVE  PlaceInv' /\ KnownInv'
<1>1. UNCHANGED <<callVars, emailDone, got, page>>
  BY DEF AuthkitLook, AuthkitWait, Quiet
<1>2. caller \in Loops /\ page \in Pages /\ late \in BOOLEAN /\ session \in BOOLEAN
  BY DEF AuthkitLook, AuthkitWait, KnownInv
<1>3. Loops \cup {"radar", "dashboard"} \subseteq Pcs \ {"authkit", "authkitWait"}
  BY DEF Pcs, Loops
<1>4. ASSUME NEW done, Back(done)
      PROVE  PlaceInv' /\ KnownInv'
  <2>1. late' \in {late, FALSE} /\ session' = FALSE
    BY <1>4 DEF Back, Enter
  <2>2. late' \in BOOLEAN /\ session' \in BOOLEAN
    BY <1>2, <2>1
  <2>3. \E label \in Pcs \ {"authkit", "authkitWait"} : Goto(label)
    BY <1>2, <1>3, <1>4 DEF Back, Enter, Loops
  <2>4. pc' \notin {"authkit", "authkitWait"}
    BY <2>3 DEF Goto
  <2> QED
    BY <1>1, <2>2, <2>3, <2>4, Places, Knows DEF Proceeds, KnownInv, callVars
<1>5. ASSUME NEW o \in Outcomes, Finish(o), UNCHANGED <<late, caller, session>>
      PROVE  PlaceInv' /\ KnownInv'
  BY <1>1, <1>5, Places, Knows DEF Proceeds, KnownInv, callVars
<1>6. ASSUME pc = "authkit", Goto("authkitWait"), session' = SessionId(page),
             UNCHANGED <<late, caller>>
      PROVE  PlaceInv' /\ KnownInv'
  <2>1. session' \in BOOLEAN
    BY <1>6, Zenon DEF SessionId
  <2> QED
    BY <1>1, <1>6, <2>1, Places, Knows DEF Authkit, KnownInv, callVars
<1>7. CASE AuthkitLook
  BY <1>4, <1>5, <1>6, <1>7, JudgedTypes DEF AuthkitLook, CallbackFails
<1>8. CASE AuthkitWait
  BY <1>4, <1>5, <1>8, JudgedTypes DEF AuthkitWait, CallbackFails
<1> QED
  BY <1>7, <1>8

LEMMA TypesCline ==
    ASSUME PlaceInv, KnownInv,
           MicrosoftTurn \/ MicrosoftReturns \/ AwaitCline \/ Deadline \/ Ticks \/ Moves
    PROVE  PlaceInv' /\ KnownInv'
<1>1. page \in Pages
  BY DEF KnownInv
<1>2. {"cline1", "radar", "dashboard"} \subseteq Pcs \ {"authkit", "authkitWait"}
  BY DEF Pcs, Loops
<1>3. CASE MicrosoftTurn \/ Ticks \/ Moves
  <2>1. page' \in Pages
    BY <1>1, <1>3 DEF MicrosoftTurn, MsStep, MsLookEnds, MsLookCallback, MsLookCard,
       MsSubmit, Ticks, MsTick, Moves, PageMoves
  <2>2. UNCHANGED flowVars
    BY <1>3 DEF MicrosoftTurn, Ticks, Moves
  <2> QED
    BY <2>1, <2>2 DEF flowVars, PlaceInv, KnownInv
<1>4. CASE MicrosoftReturns
  <2>1. /\ UNCHANGED <<callVars, emailDone, caller, session, got, page>>
        /\ late' \in {late, FALSE} /\ Proceeds
    BY <1>2, <1>4, JudgedTypes DEF MicrosoftReturns, Quiet, Enter, Proceeds
  <2> QED
    BY <2>1, Places, Knows DEF KnownInv, callVars
<1>5. CASE AwaitCline
  <2>1. PICK lap \in {"cline1", "cline2"}, next \in {"radar", "dashboard"} :
           WaitCline(lap, next)
    BY <1>5 DEF AwaitCline
  <2>2. UNCHANGED <<callVars, emailDone, session, got, late>>
    BY <2>1 DEF WaitCline, Quiet
  <2>3. page' \in Pages
    BY <1>1, <2>1 DEF WaitCline, Followed, Pages
  <2>4. (Proceeds /\ UNCHANGED caller) \/ Authkit
    BY <1>2, <2>1, JudgedTypes DEF WaitCline, Proceeds, Authkit, Loops
  <2> QED
    BY <2>2, <2>3, <2>4, Places, Knows DEF KnownInv, callVars
<1>6. CASE Deadline
  BY <1>1, <1>6, Steady DEF Deadline, Quiet, Proceeds
<1> QED
  BY <1>3, <1>4, <1>5, <1>6

LEMMA TypesResult ==
    ASSUME PlaceInv, KnownInv, NumbersInv,
           RadarStarts \/ RadarTurn \/ RadarReturns \/ Terms \/ Dashboard \/ ReadCookies
             \/ CreateKey \/ CapturePayment \/ Worker \/ WorkerKey
    PROVE  PlaceInv' /\ KnownInv'
<1>1. page \in Pages
  BY DEF KnownInv
<1>2. {"terms", "cline2", "cookies", "key", "plan", "workerKey"}
         \subseteq Pcs \ {"authkit", "authkitWait"}
  BY DEF Pcs, Loops
<1>3. CASE RadarTurn
  <2>1. page' \in Pages
    BY <1>1, <1>3 DEF RadarTurn, VerifyStep, VerifyForm, VerifySend, AttemptForm, GetAway,
       GetFails, GetNumber, Fill, Submit, NoCode, CodeRefused, CodeComes, FillOTP,
       AcceptCode
  <2> QED
    BY <1>3, <2>1 DEF RadarTurn, flowVars, PlaceInv, KnownInv
<1>4. CASE RadarStarts \/ RadarReturns \/ Terms \/ Dashboard
  <2>1. UNCHANGED callVars /\ Idle /\ page' \in Pages /\ late' \in {late, FALSE}
    BY <1>1, <1>4 DEF RadarStarts, RadarReturns, Terms, Dashboard, Quiet, Enter
  <2>2. verdict \in Verdicts
    BY DEF NumbersInv
  <2>3. Proceeds
    BY <1>2, <1>4, <2>2, JudgedTypes DEF RadarStarts, RadarReturns, Terms, Dashboard,
       Enter, Proceeds, Verdicts
  <2> QED
    BY <2>1, <2>3, Steady
<1>5. CASE ReadCookies \/ CreateKey \/ CapturePayment \/ Worker \/ WorkerKey
  <2>1. UNCHANGED <<callVars, late, emailDone, caller, session>> /\ page' \in Pages
    BY <1>1, <1>5 DEF ReadCookies, CreateKey, CapturePayment, Worker, WorkerKey, Quiet
  <2>2. got' \subseteq {"cookies", "key", "payment"}
    BY <1>5 DEF ReadCookies, CreateKey, CapturePayment, Worker, WorkerKey, MakeKey,
       NoPayment, PaymentFound, KnownInv
  <2>3. Proceeds
    BY <1>2, <1>5, JudgedTypes DEF ReadCookies, CreateKey, CapturePayment, Worker,
       WorkerKey, MakeKey, NoPayment, PaymentFound, Proceeds
  <2> QED
    BY <2>1, <2>2, <2>3, Places, Knows DEF KnownInv, callVars
<1> QED
  BY <1>3, <1>4, <1>5

LEMMA SessionStep == SessionInv /\ [Next]_vars => SessionInv'
<1> SUFFICES ASSUME SessionInv, [Next]_vars PROVE SessionInv'
  OBVIOUS
<1>1. LoginInv'
  BY StepOK DEF SessionInv
<1>2. CASE Next
  <2>1. AttemptsInv' /\ ClocksInv'
    BY <1>2, AttemptsKept, ClocksKept DEF SessionInv
  <2>2. PlaceInv' /\ KnownInv'
    BY <1>2, TypesStart, TypesGoogle, TypesAuthkit, TypesCline, TypesResult
       DEF Next, Step, SessionInv, LoginInv
  <2> QED
    BY <1>1, <2>1, <2>2 DEF SessionInv
<1>3. CASE UNCHANGED vars
  <2>1. UNCHANGED <<flowVars, verifyVars, msVars, page>>
    BY <1>3 DEF vars
  <2>2. PlaceInv' /\ KnownInv'
    BY <2>1 DEF flowVars, SessionInv, PlaceInv, KnownInv
  <2>3. AttemptsInv' /\ ClocksInv'
    BY <2>1 DEF verifyVars, msVars, SessionInv, AttemptsInv, ClocksInv
  <2> QED
    BY <1>1, <2>2, <2>3 DEF SessionInv
<1> QED
  BY <1>2, <1>3

-----------------------------------------------------------------------------
(* The two parts as they run: while one of them takes its steps, the other *)
(* stays as it was.                                                        *)
PartsInv == SessionInv /\ ScanInv /\ RowsInv

LEMMA PartsStart == PartsInit => PartsInv
<1> SUFFICES ASSUME PartsInit PROVE PartsInv
  OBVIOUS
<1>1. Init /\ InitScan
  BY DEF PartsInit, LoginInit, ScanInit
<1> QED
  BY <1>1, SessionInit, ScanInitOK, RowsInit DEF PartsInv

LEMMA PartsStep == PartsInv /\ [PartsNext]_<<part, vars, scanVars>> => PartsInv'
<1> SUFFICES ASSUME PartsInv, [PartsNext]_<<part, vars, scanVars>> PROVE PartsInv'
  OBVIOUS
<1>1. [Next]_vars /\ [NextScan]_scanVars
  BY DEF PartsNext
<1> QED
  BY <1>1, SessionStep, ScanStep, RowsStep DEF PartsInv

(* Every variable of the session and of the scan stays in its type: no     *)
(* number is tried beyond the limit of attempts, no request beyond its     *)
(* tries, no round beyond the last, a clock stops at its limit, the waits  *)
(* of handleAuthkitWait go back to a loop, and a scan never counts more    *)
(* accounts than there are nor takes more places than it has               *)
(* (radar.go:20, microsoft.go:133, flow.go:44, sync.go:213).               *)
THEOREM TypeCorrectParts == PartsSpec => []TypeOKParts
<1>1. PartsInv => TypeOKParts
  BY SessionTypes, ScanTypes DEF PartsInv, TypeOKParts
<1> QED
  BY <1>1, PartsStart, PartsStep, PTL DEF PartsSpec

(* The safety properties hold of the two parts as they are run together    *)
(* (flow.go:44, radar.go:73, microsoft.go:218, error.go:17, sync.go:213).  *)
THEOREM PartsKeep ==
    PartsSpec => [](/\ NumbersAreSettled /\ CardsSubmittedOnce
                    /\ RefusalIsFinal /\ ResultIsWhole /\ ScanAddsUp)
<1>1. PartsInv => /\ NumbersAreSettled /\ CardsSubmittedOnce
                  /\ RefusalIsFinal /\ ResultIsWhole /\ ScanAddsUp
  BY DEF PartsInv, SessionInv, LoginInv, NumbersInv, NumbersAreSettled, CardsInv,
     CardsSubmittedOnce, FlowInv, RefusalIsFinal, ScanInv
<1> QED
  BY <1>1, PartsStart, PartsStep, PTL DEF PartsSpec

=============================================================================
