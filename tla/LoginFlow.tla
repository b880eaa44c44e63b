----------------------------- MODULE LoginFlow -----------------------------
(***************************************************************************)
(* One login session of Auto: Run, RefreshPayment and RefreshCookies of    *)
(* auto/internal/login/flow.go, with the Python worker of python.go and    *)
(* the classes of errors of error.go.                                      *)
(*                                                                         *)
(* The Go engine drives a browser through the identity provider, AuthKit,  *)
(* the phone verification (PhoneVerify) and Cline, reading the URL again   *)
(* at every step; the page moves by itself in between.  A step stands for  *)
(* one turn of a loop or one call with its waits, whose end is a choice:   *)
(* the element showed up or it did not.                                    *)
(***************************************************************************)
EXTENDS PhoneVerify, MicrosoftLogin

CONSTANTS MaxRounds   \* logins tried when no code comes

ASSUME RoundsAssumption == MaxRounds \in Nat \ {0}

VARIABLES
    kind,        \* "login", "refresh" (payment link) or "cookie"
    python,      \* LOGIN_ENGINE is not "go", or the login also pays
    provider,    \* the identity provider of the account
    hasCookies,  \* the account has cookies to start from
    pc, round,
    late,        \* the deadline of the loop at hand has passed
    emailDone,   \* the address was typed at Google
    caller, session,      \* handleAuthkitWait: its caller, a session id seen
    refused,     \* the code has read policy_denied from a URL
    browser,     \* a browser is running
    got,         \* what the result holds: "cookies", "key", "payment"
    outcome      \* what the call returned

flowVars == <<kind, python, provider, hasCookies, pc, round, late, emailDone,
              caller, session, refused, browser, got, outcome>>
vars == <<flowVars, verifyVars, msVars, page>>
callVars == <<kind, python, provider, hasCookies>>

Kinds == {"login", "refresh", "cookie"}
GoEngine == ~python /\ kind # "cookie"
Loops == {"google", "cline1", "cline2"}
Pcs == Loops \cup {"new", "dispatch", "launch", "open", "start", "await", "authkit",
    "authkitWait", "microsoft", "radar", "terms", "dashboard", "cookies",
    "key", "plan", "worker", "workerKey", "done"}
(* "relogin" ends a round, "stuck" is an AuthKit failure the queue retries.*)
Outcomes == {"none", "ok", "stuck", "denied", "pending", "banned", "phone",
             "other"}

Init ==
    /\ kind \in Kinds /\ python \in BOOLEAN /\ hasCookies \in BOOLEAN
    /\ provider \in {"google", "microsoft"}
    /\ pc = "new" /\ round = 1 /\ late = FALSE
    /\ emailDone = FALSE
    /\ caller = "none" /\ session = FALSE /\ refused = FALSE
    /\ browser = FALSE /\ got = {} /\ outcome = "none"
    /\ page = "blank"
    /\ InitVerify /\ InitMicrosoft

TypeOK ==
    /\ kind \in Kinds /\ python \in BOOLEAN /\ hasCookies \in BOOLEAN
    /\ provider \in {"google", "microsoft"}
    /\ pc \in Pcs /\ round \in 1..MaxRounds /\ late \in BOOLEAN
    /\ emailDone \in BOOLEAN
    /\ caller \in Loops \cup {"none"} /\ session \in BOOLEAN /\ refused \in BOOLEAN
    /\ browser \in BOOLEAN /\ got \subseteq {"cookies", "key", "payment"}
    /\ outcome \in Outcomes
    /\ page \in Pages
    /\ TypeOKVerify /\ TypeOKMicrosoft

-----------------------------------------------------------------------------
(* Ends of a call.                                                         *)

(* IsAuthkitFailure: a message that names a page of AuthKit outside of the *)
(* Radar, or of a failed load, is taken for an AuthKit failure.            *)
Named(p) == IF AuthkitProblem(p) THEN "stuck" ELSE "other"

(* wrapIfAuthkit: the class of an error, by the page the session is on.    *)
(* Mutant: the page is judged before the callback's refusal is read.       *)
MutWrapped(e, p) == IF e \in {"denied", "pending"} /\ ~AuthkitProblem(p) THEN e
                    ELSE Named(p)
Wrapped(e, p) == IF e \in {"denied", "pending"} THEN e
                 ELSE IF CallbackError(p) = "denied" THEN "denied"
                 ELSE Named(p)

(* The call returns; the deferred Close ends the browser.                  *)
(* Mutant: the browser of a session that failed is left running.           *)
MutFinish(o) ==
    /\ pc' = "done" /\ outcome' = o
    /\ browser' = (browser /\ o # "ok")
    /\ UNCHANGED round
Finish(o) ==
    /\ pc' = "done" /\ outcome' = o
    /\ browser' = FALSE
    /\ UNCHANGED round

(* Run: no code in a whole round is worth another login, then the phone    *)
(* timed out.                                                              *)
EndRound ==
    IF round < MaxRounds
       THEN /\ round' = round + 1 /\ pc' = "dispatch" /\ browser' = FALSE
            /\ UNCHANGED outcome
       ELSE Finish("phone")

Goto(label) == pc' = label /\ UNCHANGED <<round, browser, outcome>>
(* Every loop starts with a deadline of its own.                           *)
Enter(loop) == Goto(loop) /\ late' = FALSE

(* What most steps leave alone.                                            *)
Quiet == UNCHANGED <<callVars, verifyVars, msVars>>
Idle == UNCHANGED <<emailDone, caller, session, refused, got>>

-----------------------------------------------------------------------------
(* Which engine, and the browser.                                          *)

(* The queue calls Run, RefreshPayment or RefreshCookies.                  *)
Run ==
    /\ pc = "new" /\ Goto("dispatch")
    /\ UNCHANGED <<late, page>> /\ Quiet /\ Idle

(* runOnceDispatch, and the checks RefreshCookies and RefreshPayment start *)
(* with.                                                                   *)
Dispatch ==
    /\ pc = "dispatch"
    /\ CASE kind = "cookie" -> IF hasCookies THEN Goto("worker") ELSE Finish("other")
         [] kind = "login" -> Goto(IF python THEN "worker" ELSE "launch")
         [] kind = "refresh" ->
              IF python THEN Goto("worker")
              ELSE IF hasCookies THEN Goto("launch") \/ Finish("other")
              ELSE Finish("other")
    /\ UNCHANGED <<late, page>> /\ Quiet /\ Idle

(* browser.Launch; a refresh puts the stored cookies in and goes straight  *)
(* to the plan.                                                            *)
Launch ==
    /\ pc = "launch"
    /\ \/ Finish("other")
       \/ /\ pc' = IF kind = "login" THEN "open" ELSE "plan"
          /\ browser' = TRUE
          /\ UNCHANGED <<round, outcome>>
    /\ page' = "blank"
    /\ UNCHANGED late /\ Quiet /\ Idle

(* The invitation opens; who is already in Cline needs no login.           *)
Open ==
    /\ pc = "open"
    /\ page' \in Pages
    /\ IF page' \in App THEN Goto("dashboard") \/ Finish("other")
                        ELSE Goto("start") \/ Finish("other")
    /\ UNCHANGED late /\ Quiet /\ Idle

(* startIdentityLogin: the button of the provider; an error only when the  *)
(* page is neither the provider's nor Cline's.                             *)
AtProvider == page \in IF provider = "google" THEN Google ELSE Microsoft
StartIdentity ==
    /\ pc = "start"
    /\ \/ Goto("await")
       \/ /\ ~AtProvider /\ ~OnCline(page)
          /\ Finish(Wrapped("plain", page))
    /\ UNCHANGED <<late, page>> /\ Quiet /\ Idle

(* The provider's page has come, or the wait for it is over and the login  *)
(* is tried with what there is.                                            *)
AwaitProvider ==
    /\ pc = "await"
    /\ IF ~AtProvider
          THEN Enter("cline1") /\ UNCHANGED <<emailDone, msVars>>
          ELSE IF provider = "google"
                  THEN /\ Enter("google")
                       /\ emailDone' = FALSE /\ UNCHANGED msVars
                  ELSE /\ Goto("microsoft") /\ EnterMicrosoft
                       /\ UNCHANGED <<late, emailDone>>
    /\ UNCHANGED <<callVars, verifyVars, page, caller, session, refused, got>>

-----------------------------------------------------------------------------
(* googleLogin: one turn of the loop, by the first case that applies.      *)

GoogleTurn ==
    /\ pc = "google" /\ ~late
    /\ ~LoggedIn(page) /\ page \notin AuthkitHost

(* This page or another tab has left Google.                               *)
GoogleLeft ==
    /\ pc = "google" /\ ~late
    /\ Enter("cline1")
    /\ UNCHANGED page /\ Quiet /\ Idle

GoogleDeadline ==
    /\ pc = "google" /\ late
    /\ IF LeftGoogle(page) THEN Enter("cline1")
       ELSE Finish(Wrapped("plain", page)) /\ UNCHANGED late
    /\ UNCHANGED page /\ Quiet /\ Idle

GoogleAuthkit ==
    /\ pc = "google" /\ ~late
    /\ ~LoggedIn(page) /\ page \in AuthkitHost
    /\ Goto("authkit") /\ caller' = "google"
    /\ UNCHANGED <<late, page, emailDone, session, refused, got>>
    /\ Quiet

(* Terms, errors, consent and the other cards: clicked, or not up yet.     *)
GoogleCard ==
    /\ GoogleTurn
    /\ GoogleStep(page) \in {"card", "chooser", ""}
    /\ UNCHANGED <<pc, round, browser, outcome, late, page>>
    /\ Quiet /\ Idle

(* A click or a field that failed ends the login, unless the session is    *)
(* through by then.                                                        *)
GoogleCardFails ==
    /\ GoogleTurn
    /\ GoogleStep(page) # "chooser"
    /\ page' \in Pages
    /\ IF LoggedIn(page') THEN Enter("cline1")
       ELSE Finish(Wrapped("plain", page')) /\ UNCHANGED late
    /\ Quiet /\ Idle

(* The address is typed, and typed again when its page is still there      *)
(* eight seconds later.                                                    *)
GoogleEmail ==
    /\ GoogleTurn
    /\ GoogleStep(page) \in {"email", ""}
    /\ \/ ~emailDone /\ emailDone' = TRUE
       \/ emailDone /\ GoogleStep(page) = "email" /\ emailDone' = FALSE
    /\ UNCHANGED <<pc, round, browser, outcome, late, caller,
                   session, refused, got, page>>
    /\ Quiet

(* The password is typed on its page or, after the address, wherever its   *)
(* field shows; again after eight seconds.                                 *)
GooglePassword ==
    /\ GoogleTurn
    /\ GoogleStep(page) \in {"password"} \cup (IF emailDone THEN {"email", ""}
                                                           ELSE {})
    /\ emailDone' = TRUE
    /\ UNCHANGED <<pc, round, browser, outcome, late, caller, session,
                   refused, got, page>>
    /\ Quiet

-----------------------------------------------------------------------------
(* handleAuthkitWait, called by both loops.                                *)

(* Mutant: the loop that goes on gets a new deadline.                      *)
MutBack(done) ==
    /\ caller' = "none" /\ session' = FALSE
    /\ IF done /\ caller # "google"
          THEN /\ Goto(IF caller = "cline1" THEN "radar" ELSE "dashboard")
               /\ UNCHANGED late
          ELSE Enter(IF done THEN "cline1" ELSE caller)
Back(done) ==
    /\ caller' = "none" /\ session' = FALSE
    /\ IF done THEN IF caller = "google" THEN Enter("cline1")
                    ELSE /\ Goto(IF caller = "cline1" THEN "radar"
                                                      ELSE "dashboard")
                         /\ UNCHANGED late
               ELSE Goto(caller) /\ UNCHANGED late

(* A callback that carries an error ends the login.                        *)
CallbackFails ==
    /\ refused' = (CallbackError(page) = "denied")
    /\ Finish(Wrapped(CallbackError(page), page))
    /\ UNCHANGED <<late, caller, session>>

AuthkitLook ==
    /\ pc = "authkit"
    /\ IF OnRadarFlow(page) \/ OnCline(page)
          THEN Back(TRUE) /\ UNCHANGED refused
       ELSE IF CallbackError(page) # "none" THEN CallbackFails
       ELSE /\ Goto("authkitWait") /\ session' = SessionId(page)
            /\ UNCHANGED <<late, caller, refused>>
    /\ UNCHANGED <<emailDone, got, page>> /\ Quiet

(* waitAuthkitAdvance has ended: with another page, with an error, or with *)
(* the time over (30 s for a returned session, 1.5 s for a login page).    *)
GivesUp == SessionId(page) /\ session

AuthkitWait ==
    /\ pc = "authkitWait"
    /\ IF OnCline(page) \/ OnRadarFlow(page) \/ page \notin AuthkitHost
          THEN Back(OnRadarFlow(page) \/ OnCline(page)) /\ UNCHANGED refused
       ELSE IF CallbackError(page) # "none" THEN CallbackFails
       ELSE IF GivesUp
          THEN /\ Finish(Wrapped("pending", page))
               /\ UNCHANGED <<late, caller, session, refused>>
       ELSE Back(FALSE) /\ UNCHANGED refused
    /\ UNCHANGED <<emailDone, got, page>> /\ Quiet

-----------------------------------------------------------------------------
(* Microsoft, and the wait for Cline.                                      *)

MicrosoftTurn ==
    /\ pc = "microsoft" /\ mpc # "off" /\ MsStep
    /\ UNCHANGED <<flowVars, verifyVars>>

MicrosoftReturns ==
    /\ pc = "microsoft" /\ mpc = "off"
    /\ IF mresult = "ok" THEN Enter("cline1") /\ UNCHANGED refused
       ELSE /\ refused' = (mresult = "denied")
            /\ Finish(Wrapped(mresult, page)) /\ UNCHANGED late
    /\ UNCHANGED <<emailDone, caller, session, got, page>>
    /\ Quiet

(* waitCline: one turn.                                                    *)
WaitCline(loop, next) ==
    /\ pc = loop
    /\ IF late THEN Finish(Wrapped("plain", page)) /\ UNCHANGED <<caller, page>>
       ELSE /\ page' \in Followed
            /\ IF IdentityDone(page') \/ OnRadarFlow(page')
                  THEN Goto(next) /\ UNCHANGED caller
               ELSE /\ page \in AuthkitHost
                    /\ Goto("authkit") /\ caller' = loop
    /\ UNCHANGED <<late, emailDone, session, refused, got>>
    /\ Quiet

AwaitCline == WaitCline("cline1", "radar") \/ WaitCline("cline2", "dashboard")

(* The deadline of the loop passes.                                        *)
Deadline ==
    /\ pc \in Loops \cup {"authkit", "authkitWait"} /\ ~late
    /\ late' = TRUE
    /\ UNCHANGED <<pc, round, browser, outcome, page>> /\ Quiet /\ Idle

-----------------------------------------------------------------------------
(* The phone verification, the terms, and what the login is for.           *)

RadarStarts ==
    /\ pc = "radar" /\ vpc = "off" /\ verdict = "none"
    /\ IF OnRadarURL(page)
          THEN EnterVerify /\ UNCHANGED <<pc, round, browser, outcome>>
          ELSE Goto("terms") /\ UNCHANGED verifyVars
    /\ UNCHANGED <<callVars, late, msVars, page>> /\ Idle

RadarTurn ==
    /\ pc = "radar" /\ vpc # "off" /\ VerifyStep
    /\ UNCHANGED <<flowVars, msVars>>

RadarReturns ==
    /\ pc = "radar" /\ vpc = "off" /\ verdict # "none"
    /\ CASE verdict = "ok" -> Goto("terms") /\ UNCHANGED verdict
         [] verdict = "relogin" -> EndRound /\ verdict' = "none"
         [] verdict = "lost" -> Finish(Named(page)) /\ UNCHANGED verdict
         [] verdict = "other" -> Finish("other") /\ UNCHANGED verdict
    /\ UNCHANGED <<smsReady, vpc, attempt, tries, phoneVars, callVars, late,
                   msVars, page>>
    /\ Idle

Terms ==
    /\ pc = "terms"
    /\ \/ Enter("cline2")
       \/ Finish("other") /\ UNCHANGED late
    /\ UNCHANGED page /\ Quiet /\ Idle

(* The dashboard is opened; a page that is not Cline's after all has no    *)
(* valid cookies.                                                          *)
Dashboard ==
    /\ pc = "dashboard"
    /\ page' \in Pages
    /\ IF CookieExpired(page') THEN Finish(Wrapped("plain", page'))
                               ELSE Goto("cookies")
    /\ UNCHANGED late /\ Quiet /\ Idle

ReadCookies ==
    /\ pc = "cookies"
    /\ \/ Goto("key") /\ got' = got \cup {"cookies"}
       \/ Finish("other") /\ UNCHANGED got
    /\ UNCHANGED <<late, emailDone, caller, session, refused, page>>
    /\ Quiet

(* createClineKey, with the cookies just read and no key to fall back on.  *)
(* Mutant: a login whose key cannot be made goes on without one.           *)
MutMakeKey(next) ==
    \/ next /\ got' = got \cup {"key"}
    \/ next /\ UNCHANGED got
MakeKey(next) ==
    \/ next /\ got' = got \cup {"key"}
    \/ Finish("other") /\ UNCHANGED got
CreateKey ==
    /\ pc = "key"
    /\ MakeKey(Goto("plan"))
    /\ UNCHANGED <<late, emailDone, caller, session, refused, page>>
    /\ Quiet

(* captureClinePayment: a login does without the link, a refresh does not; *)
(* a refresh then takes the browser's cookies or keeps the old ones.       *)
NoPayment == Finish(IF kind = "login" THEN "ok" ELSE "other") /\ UNCHANGED got
PaymentFound ==
    /\ Finish("ok")
    /\ got' = got \cup {"payment"} \cup (IF kind = "refresh" THEN {"cookies"} ELSE {})
CapturePayment ==
    /\ pc = "plan"
    /\ page' \in Pages
    /\ PaymentFound \/ NoPayment
    /\ UNCHANGED <<late, emailDone, caller, session, refused>>
    /\ Quiet

-----------------------------------------------------------------------------
(* runPythonOnce: the worker answers with a result or a code (mapWorker-   *)
(* Code), or ends without either.  Nothing bounds the time it takes.       *)
Worker ==
    /\ pc = "worker"
    /\ \/ /\ IF kind = "login" THEN Goto("workerKey") ELSE Finish("ok")
          /\ got' = got \cup {"cookies"}
       \/ /\ kind = "login" /\ EndRound /\ UNCHANGED got
       \/ \E o \in Outcomes \ {"none", "ok"} : Finish(o) /\ UNCHANGED got
    /\ UNCHANGED <<late, emailDone, caller, session, refused, page>>
    /\ Quiet

WorkerKey ==
    /\ pc = "workerKey"
    /\ MakeKey(Finish("ok"))
    /\ UNCHANGED <<late, emailDone, caller, session, refused, page>>
    /\ Quiet

(* The page moves; only a running browser has one.                         *)
Moves == browser /\ PageMoves /\ UNCHANGED <<flowVars, verifyVars, msVars>>

(* The clocks of Microsoft's loop.                                         *)
Ticks == pc = "microsoft" /\ MsTick /\ UNCHANGED <<flowVars, verifyVars>>

Step ==
    \/ Dispatch \/ Launch \/ Open \/ StartIdentity \/ AwaitProvider
    \/ GoogleLeft \/ GoogleDeadline \/ GoogleAuthkit \/ GoogleCard
    \/ GoogleCardFails \/ GoogleEmail \/ GooglePassword
    \/ AuthkitLook \/ AuthkitWait
    \/ MicrosoftTurn \/ MicrosoftReturns \/ AwaitCline
    \/ RadarStarts \/ RadarTurn \/ RadarReturns
    \/ Terms \/ Dashboard \/ ReadCookies \/ CreateKey \/ CapturePayment
    \/ WorkerKey

Next == Run \/ Step \/ Worker \/ Deadline \/ Ticks \/ Moves

Spec == Init /\ [][Next]_vars

(* The session takes its next step and time passes; nothing is assumed of  *)
(* the page, of the services or of the worker.                             *)
Fairness == WF_vars(Step) /\ WF_vars(Deadline) /\ WF_vars(Ticks)
FairSpec == Spec /\ Fairness

-----------------------------------------------------------------------------
(* A login that read policy_denied from a callback ends as denied and no   *)
(* other way: the queue does not try it again, although the page it was    *)
(* read from is one whose errors are retried (error.go:17, flow.go:970).   *)
RefusalIsFinal == refused => pc = "done" /\ outcome = "denied"

(* What a session that succeeded returns is complete: a login has cookies  *)
(* and the key made with them, a renewal has cookies; and however the      *)
(* session ends, its browser is closed.                                    *)
ResultIsWhole ==
    pc = "done" =>
        /\ ~browser
        /\ outcome = "ok" => "cookies" \in got
        /\ outcome = "ok" /\ kind = "login" => "key" \in got

(* A session of the Go engine returns, however the page moves between the  *)
(* identity provider, AuthKit and the Radar: each of the loops hands over  *)
(* to another one or meets a deadline (flow.go:241, :582, :818,            *)
(* microsoft.go:133, radar.go:20).                                         *)
SessionReturns == pc = "dispatch" ~> pc \in {"worker", "done"}
=============================================================================
