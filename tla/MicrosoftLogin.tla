--------------------------- MODULE MicrosoftLogin ---------------------------
(***************************************************************************)
(* The Microsoft side of a login (auto/internal/login/microsoft.go).       *)
(*                                                                         *)
(* The pages are cards shown one after the other: the loop looks which one *)
(* is up, waits until it has stood still for a moment, and submits it.     *)
(* Two clocks bound it: the time of the whole login, and the time since    *)
(* the last card that was new or submitted.  Time is in ticks of the       *)
(* settling time; what the page shows is free at every look.               *)
(***************************************************************************)
EXTENDS Naturals, LoginPage

CONSTANTS
    NoProgressTicks,   \* microsoftNoProgressTimeout
    LoginTicks         \* microsoftLoginTimeout

ASSUME TicksAssumption ==
    /\ NoProgressTicks \in Nat \ {0}
    /\ LoginTicks \in Nat \ {0}
    /\ NoProgressTicks <= LoginTicks

Cards == {"email", "password", "stay_signed_in", "consent"}
States == Cards \cup {"other", "callback"}

VARIABLES
    mpc,        \* "off", "look", "submit" (the card claimed last)
    elapsed,    \* ticks since the login began
    idle,       \* ticks since the last progress
    held,       \* what was on the page at the last look
    settled,    \* it has been there for a tick
    seen,       \* what was ever on the page
    submitted,  \* the cards claimed
    clicks,     \* how often each card's button was pressed
    accepted,   \* the e-mail card went away after it was submitted
    mresult     \* what microsoftLogin returned

msVars == <<mpc, elapsed, idle, held, settled, seen, submitted, clicks,
            accepted, mresult>>

NoClicks == [c \in Cards |-> 0]

InitMicrosoft ==
    /\ mpc = "off" /\ mresult = "none"
    /\ elapsed = 0 /\ idle = 0 /\ held = "other" /\ settled = FALSE
    /\ seen = {} /\ submitted = {} /\ clicks = NoClicks /\ accepted = FALSE

TypeOKMicrosoft ==
    /\ mpc \in {"off", "look", "submit"}
    /\ mresult \in {"none", "ok", "denied", "other"}
    /\ elapsed \in 0..LoginTicks /\ idle \in 0..NoProgressTicks
    /\ held \in States /\ settled \in BOOLEAN /\ accepted \in BOOLEAN
    /\ seen \subseteq States /\ submitted \subseteq Cards
    /\ clicks \in [Cards -> Nat]

-----------------------------------------------------------------------------
(* microsoftLogin is called, and returns; its progress is its own.         *)
EnterMicrosoft ==
    /\ mpc = "off"
    /\ mpc' = "look" /\ mresult' = "none"
    /\ UNCHANGED <<elapsed, idle, held, settled, seen, submitted, clicks,
                   accepted>>

MsReturn(r) ==
    /\ mpc' = "off" /\ mresult' = r
    /\ elapsed' = 0 /\ idle' = 0 /\ held' = "other" /\ settled' = FALSE
    /\ seen' = {} /\ submitted' = {} /\ clicks' = NoClicks /\ accepted' = FALSE

(* Time passes: the clocks stop at their limits, where the next look ends. *)
MsTick ==
    /\ mpc # "off"
    /\ elapsed < LoginTicks
    /\ elapsed' = elapsed + 1
    /\ idle' = IF idle < NoProgressTicks THEN idle + 1 ELSE idle
    /\ settled' = TRUE
    /\ UNCHANGED <<mpc, held, seen, submitted, clicks, accepted, mresult,
                   page>>

MsTimeout == elapsed = LoginTicks \/ idle = NoProgressTicks

(* observe: only a state never seen before is progress.                    *)
Observe(s) ==
    /\ held' = s
    /\ settled' = (s = held /\ settled)
    /\ seen' = seen \cup ({s} \ {"other"})
    /\ idle' = IF s # "other" /\ s \notin seen THEN 0 ELSE idle

(* microsoftStep and microsoftConfirmation: the card a look finds, when    *)
(* the two input fields show or not and the text may ask to confirm.       *)
CardsShown(emailField, passField, emailDone) ==
    IF emailField /\ ~emailDone THEN {"email"}
    ELSE IF passField /\ (emailDone \/ ~emailField) THEN {"password"}
    ELSE IF page \in Microsoft THEN {"other", "stay_signed_in", "consent"}
    ELSE {"other"}

(* The checks at the head of the loop that end it.                         *)
MsLookEnds ==
    /\ mpc = "look"
    /\ IF LoggedIn(page) THEN MsReturn("ok")
       ELSE IF MsTimeout THEN MsReturn("other")
       ELSE IF page \in AuthkitHost
          THEN /\ CallbackError(page) # "none"
               /\ MsReturn(IF CallbackError(page) = "denied" THEN "denied"
                                                            ELSE "other")
          ELSE MsReturn("other")   \* locked, unknown, wrong or challenged
    /\ UNCHANGED page

(* Back at AuthKit: nothing to do but wait.                                *)
MsLookCallback ==
    /\ mpc = "look" /\ ~LoggedIn(page) /\ ~MsTimeout
    /\ page \in AuthkitHost /\ CallbackError(page) = "none"
    /\ Observe("callback")
    /\ UNCHANGED <<mpc, elapsed, submitted, clicks, accepted, mresult, page>>

(* A look at a card: one that has stood still and was not claimed before   *)
(* is claimed and will be submitted.                                       *)
(* Mutant: a card that stands is submitted again.                          *)
MutClaims(s) == s \in Cards /\ s = held /\ settled
Claims(s) ==
    /\ s \in Cards \ submitted
    /\ s \in {"email", "password"} => s = held /\ settled

MsLookCard ==
    /\ mpc = "look" /\ ~LoggedIn(page) /\ ~MsTimeout
    /\ page \notin AuthkitHost
    /\ \E emailField, passField \in BOOLEAN :
          LET done == accepted \/ ("email" \in submitted /\ ~emailField)
          IN /\ accepted' = done
             /\ \E s \in CardsShown(emailField, passField, done) :
                   /\ Observe(s)
                   /\ IF Claims(s)
                         THEN mpc' = "submit" /\ submitted' = submitted \cup {s}
                         ELSE UNCHANGED <<mpc, submitted>>
    /\ UNCHANGED <<elapsed, clicks, mresult, page>>

(* fillMicrosoftField and clickMicrosoftOnce: a click that was dispatched  *)
(* is never repeated, whatever it came to.  A field that turns out to be   *)
(* gone because the login is over is no error.                             *)
MsClicked ==
    /\ mpc' = "look" /\ idle' = 0
    /\ UNCHANGED <<elapsed, held, settled, seen, submitted, accepted, mresult>>
MsSubmit ==
    /\ mpc = "submit"
    /\ \/ MsClicked /\ clicks' = [clicks EXCEPT ![held] = @ + 1]
       \/ LoggedIn(page) /\ MsClicked /\ UNCHANGED clicks
       \/ ~LoggedIn(page) /\ MsReturn("other")
       \/ LoggedIn(page) /\ held \in {"email", "password"} /\ MsReturn("ok")
    /\ UNCHANGED page

MsStep == MsLookEnds \/ MsLookCallback \/ MsLookCard \/ MsSubmit

-----------------------------------------------------------------------------
(* A card is submitted at most once in a login, whatever the page shows    *)
(* and in whatever order the cards come back: a second click on a button   *)
(* whose first one timed out may answer the next card                      *)
(* (microsoft.go:218 "A dispatched click is never retried").               *)
CardsSubmittedOnce == \A c \in Cards : clicks[c] <= 1
=============================================================================
