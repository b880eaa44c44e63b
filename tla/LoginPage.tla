----------------------------- MODULE LoginPage -----------------------------
(***************************************************************************)
(* The page a login session looks at (auto/internal/login/flow.go, Go      *)
(* engine).  A page is the kind of its URL, with the one thing the code    *)
(* reads from the DOM to decide where it is (the phone or code field); the *)
(* code never sees a page move, it only reads the URL again, so the page   *)
(* moves by itself between two steps.                                      *)
(***************************************************************************)

VARIABLES page    \* the page of the session, as page.URL() would say

(* The terms, the consent and the error page are one kind: each is a card  *)
(* with a button the code presses.                                         *)
Google == {"g_email", "g_password", "g_card", "g_chooser", "g_other"}
Microsoft == {"ms"}
(* authkit.cline.bot outside of the Radar: the login page, a callback with *)
(* a session id, with an error, refused by policy, a page that shows the   *)
(* phone form under another path, and the paths under /api/.               *)
AuthkitHost == {"ak_login", "ak_session", "ak_error", "ak_denied",
                "ak_phone", "ak_api"}
Radar == {"radar_send", "radar_verify"}
App == {"app"}
Pages == Google \cup Microsoft \cup AuthkitHost \cup Radar \cup App
            \cup {"api", "chrome_error", "blank"}

-----------------------------------------------------------------------------
(* The predicates the code reads URLs with.                                *)

OnIdentityProvider(p) == p \in Google \cup Microsoft
OnRadarURL(p) == p \in Radar
OnRadarFlow(p) == OnRadarURL(p) \/ p = "ak_phone"
OnCline(p) == p \in App \cup Radar
IdentityDone(p) == OnCline(p)
OnAuthkitLogin(p) == p \in AuthkitHost \ {"ak_api"}

(* leftGoogle: neither at an identity provider, nor nowhere, nor at the    *)
(* login page of AuthKit.                                                  *)
LeftGoogle(p) == OnCline(p) \/ p = "api"
LoggedIn(p) == LeftGoogle(p) \/ (OnRadarFlow(p) /\ ~OnIdentityProvider(p))

(* What "error" says in the query of a callback.                           *)
CallbackError(p) == CASE p = "ak_denied" -> "denied"
                      [] p = "ak_error"  -> "callback"
                      [] OTHER -> "none"
SessionId(p) == p = "ak_session"
CallbackPending(p) == SessionId(p) /\ ~OnCline(p)

CookieExpired(p) == OnIdentityProvider(p) \/ p \in AuthkitHost
AuthkitProblem(p) == p \in AuthkitHost \cup {"chrome_error"}

(* classifyGoogle, by the path of the URL.                                 *)
GoogleStep(p) == CASE p = "g_card" -> "card"
                   [] p = "g_password" -> "password"
                   [] p = "g_email" -> "email"
                   [] p = "g_chooser" -> "chooser"
                   [] OTHER -> ""

(* followDonePage: a tab that has arrived, or else the one at hand.        *)
Followed == {page} \cup App \cup Radar

PageMoves == page' \in Pages
=============================================================================
