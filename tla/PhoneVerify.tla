---------------------------- MODULE PhoneVerify ----------------------------
(***************************************************************************)
(* The phone verification of a login (auto/internal/login/radar.go) and    *)
(* the numbers it buys for it (auto/internal/herosms/client.go).           *)
(*                                                                         *)
(* The Radar asks for a phone number and for the code sent to it.  A       *)
(* number is bought from Hero SMS, typed in, its code is waited for and    *)
(* typed in; a number without a code is given back and another one is      *)
(* tried, RadarPhoneAttempts in all, before the login is told to start     *)
(* over.  The service and the page decide what every request and every     *)
(* wait comes to.                                                          *)
(***************************************************************************)
EXTENDS Integers, LoginPage

CONSTANTS
    RadarPhoneAttempts,   \* numbers tried in one login
    GetNumberTries        \* requests for one number while the service is away

ASSUME LimitsAssumption ==
    /\ RadarPhoneAttempts \in Nat \ {0}
    /\ GetNumberTries \in Nat \ {0}

VARIABLES
    smsReady,    \* the settings name a key and a country
    vpc,         \* where handleRadar stands, "off" outside of it
    attempt,     \* the number tried last, counted from 1
    tries,       \* requests sent for it
    asked,       \* numbers asked for, over all rounds of the login
    open,        \* numbers GetNumber returned and nobody settled yet
    finished,    \* numbers reported as used (setStatus 6)
    verdict      \* what handleRadar returned

verifyVars == <<smsReady, vpc, attempt, tries, asked, open, finished,
                verdict>>
phoneVars == <<asked, open, finished>>

(* A number is held from the answer that brought it to the deferred Cancel.*)
Holding == {"fill", "submit", "code", "otp", "leave"}
VerifyPcs == {"off", "form", "send", "attempt", "get"} \cup Holding
(* "lost" is an error that names the page it was raised on.                *)
Verdicts == {"none", "ok", "relogin", "lost", "other"}

InitVerify ==
    /\ smsReady \in BOOLEAN
    /\ vpc = "off" /\ verdict = "none"
    /\ attempt = 0 /\ tries = 0
    /\ asked = 0 /\ open = 0 /\ finished = 0

TypeOKVerify ==
    /\ smsReady \in BOOLEAN
    /\ vpc \in VerifyPcs /\ verdict \in Verdicts
    /\ attempt \in 0..RadarPhoneAttempts /\ tries \in 0..GetNumberTries
    /\ asked \in Nat /\ open \in Int /\ finished \in Nat

-----------------------------------------------------------------------------
(* handleRadar is called, and returns.                                     *)

EnterVerify ==
    /\ vpc = "off"
    /\ vpc' = "form" /\ verdict' = "none"
    /\ attempt' = 0 /\ tries' = 0
    /\ UNCHANGED <<smsReady, phoneVars>>

Return(v) == vpc' = "off" /\ verdict' = v

(* The first form must show, and the settings must be complete.            *)
VerifyForm ==
    /\ vpc = "form"
    /\ \/ Return("lost") /\ UNCHANGED <<smsReady, attempt, tries>>
       \/ /\ IF smsReady THEN vpc' = "send" /\ UNCHANGED verdict
                         ELSE Return("other")
          /\ UNCHANGED <<smsReady, attempt, tries>>
    /\ UNCHANGED <<phoneVars, page>>

(* gotoRadarSend: back to the page that asks for the number, wherever the  *)
(* browser then really is.                                                 *)
VerifySend ==
    /\ vpc = "send"
    /\ page' \in Pages
    /\ IF page' \in {"radar_send", "ak_phone"}
          THEN /\ vpc' = "attempt" /\ attempt' = attempt + 1 /\ UNCHANGED verdict
          ELSE /\ Return("lost") /\ UNCHANGED attempt
    /\ UNCHANGED <<smsReady, tries, phoneVars>>

-----------------------------------------------------------------------------
(* requestRadarCode: one number.                                           *)

(* The end of an attempt whose error another number may mend: the next one *)
(* or, after the last, a new login.                                        *)
(* Mutant: one attempt too many.                                           *)
MutNextNumber == IF attempt <= RadarPhoneAttempts
                    THEN vpc' = "send" /\ UNCHANGED verdict
                    ELSE Return("relogin")
NextNumber == IF attempt < RadarPhoneAttempts
                 THEN vpc' = "send" /\ UNCHANGED verdict
                 ELSE Return("relogin")

(* The deferred Cancel runs on every way out but the one that finished.    *)
(* Mutant: the number is not given back when its code does not come.       *)
MutGiveBack == UNCHANGED <<open, finished>>
GiveBack == open' = open - 1 /\ UNCHANGED finished

AttemptForm ==
    /\ vpc = "attempt"
    /\ \/ /\ Return("lost") /\ UNCHANGED <<tries, asked>>
       \/ /\ vpc' = "get" /\ tries' = 0 /\ asked' = asked + 1
          /\ UNCHANGED verdict
    /\ UNCHANGED <<smsReady, attempt, open, finished, page>>

(* GetNumber: tried again only while the service is away.                  *)
GetAway ==
    /\ vpc = "get"
    /\ tries' = tries + 1
    /\ IF tries + 1 < GetNumberTries
          THEN UNCHANGED <<vpc, verdict>>
          ELSE NextNumber
    /\ UNCHANGED <<smsReady, attempt, phoneVars, page>>

(* Any other refusal ends the login.  It may be an answer that was lost or *)
(* a number whose country code cannot be told: sold, and in no one's hands.*)
GetFails ==
    /\ vpc = "get"
    /\ Return("other")
    /\ UNCHANGED <<smsReady, attempt, tries, phoneVars, page>>

GetNumber ==
    /\ vpc = "get"
    /\ vpc' = "fill" /\ open' = open + 1
    /\ UNCHANGED <<smsReady, attempt, tries, asked, finished, verdict, page>>

(* The number is typed into the two fields.                                *)
Fill ==
    /\ vpc = "fill"
    /\ \/ vpc' = "submit" /\ UNCHANGED <<verdict, open, finished>>
       \/ Return("other") /\ GiveBack
    /\ UNCHANGED <<smsReady, attempt, tries, asked, page>>

(* The form is sent and the page that asks for the code is waited for; a   *)
(* page that still asks for the number blames the number.                  *)
Submit ==
    /\ vpc = "submit"
    /\ \/ /\ page = "radar_verify"
          /\ vpc' = "code" /\ UNCHANGED <<verdict, open, finished>>
       \/ /\ page \in {"radar_send", "ak_phone"}
          /\ NextNumber /\ GiveBack
       \/ Return("other") /\ GiveBack
    /\ UNCHANGED <<smsReady, attempt, tries, asked, page>>

(* WaitCode polls while the service has no code yet or is away.  Time over,*)
(* or the number given up by the service: another number.                  *)
NoCode ==
    /\ vpc = "code"
    /\ NextNumber /\ GiveBack
    /\ UNCHANGED <<smsReady, attempt, tries, asked, page>>

CodeRefused ==
    /\ vpc = "code"
    /\ Return("other") /\ GiveBack
    /\ UNCHANGED <<smsReady, attempt, tries, asked, page>>

CodeComes ==
    /\ vpc = "code"
    /\ vpc' = "otp"
    /\ UNCHANGED <<smsReady, attempt, tries, phoneVars, verdict,
                   page>>

(* fillOTP: a code of fewer than four digits is an error.                  *)
FillOTP ==
    /\ vpc = "otp"
    /\ \/ vpc' = "leave" /\ UNCHANGED <<verdict, open, finished>>
       \/ Return("other") /\ GiveBack
    /\ UNCHANGED <<smsReady, attempt, tries, asked, page>>

(* The page that leaves the challenge accepts the code.                    *)
AcceptCode ==
    /\ vpc = "leave"
    /\ \/ /\ page \notin Radar
          /\ Return("ok") /\ finished' = finished + 1 /\ open' = open - 1
       \/ Return("other") /\ GiveBack
    /\ UNCHANGED <<smsReady, attempt, tries, asked, page>>

VerifyStep ==
    \/ VerifyForm \/ VerifySend \/ AttemptForm
    \/ GetAway \/ GetFails \/ GetNumber
    \/ Fill \/ Submit
    \/ NoCode \/ CodeRefused \/ CodeComes
    \/ FillOTP \/ AcceptCode

-----------------------------------------------------------------------------
(* Every number GetNumber returned is reported as used or given back, once,*)
(* by the time its attempt is over, on each of the ways out of             *)
(* requestRadarCode: a number left open is paid for, one settled twice was *)
(* given back although its code was used; and only the number whose code   *)
(* let the page through is reported as used (radar.go:73-78, :121-124).    *)
NumbersAreSettled ==
    /\ open = IF vpc \in Holding THEN 1 ELSE 0
    /\ finished > 0 => verdict = "ok" /\ finished = 1
=============================================================================
