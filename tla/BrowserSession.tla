--------------------------- MODULE BrowserSession ---------------------------
(***************************************************************************)
(* Browser sessions of Auto (auto/internal/browser): Launch and Close of   *)
(* session.go, the unpacked browser they share (cloak.go, extract.go) and  *)
(* the relay of a session behind a SOCKS proxy with a password (relay.go). *)
(*                                                                         *)
(* Every job may call Launch at any time.  The calls share one directory   *)
(* of unpacked browsers, which only the holder of ensureMu fills; what a   *)
(* session acquires after that is its own, and is given back in Close or   *)
(* on the way out of a Launch that fails.  The process may die at any      *)
(* moment; the directory stays.                                            *)
(***************************************************************************)
EXTENDS Naturals

CONSTANTS
    Launches,   \* calls of Launch, each for one session
    Nobody

ASSUME NobodyAssumption == Nobody \notin Launches

VARIABLES
    licensed,   \* a license key is set
    public,     \* the version in the settings has a free package
    cache,      \* the chrome file of each edition: absent, cut short, whole
    mutex,      \* who holds ensureMu
    lpc,        \* where each call is
    edition,    \* the edition it unpacks or runs, "own" for a configured path
    holds,      \* what it has acquired and not given back
    tunnel      \* a connection of its browser through its relay

browserVars == <<licensed, public, cache, mutex, lpc, edition, holds, tunnel>>

Editions == {"pro", "free"}
Unpacking == {"fetch", "unpack"}
Launching == {"ensure", "driver", "relay", "profile", "context", "page"}
                \cup Unpacking
Resources == {"archive", "driver", "relay", "profile", "context"}

InitBrowser ==
    /\ licensed \in BOOLEAN /\ public \in BOOLEAN
    /\ cache = [e \in Editions |-> "none"]
    /\ mutex = Nobody
    /\ lpc = [s \in Launches |-> "new"]
    /\ edition = [s \in Launches |-> "none"]
    /\ holds = [s \in Launches |-> {}]
    /\ tunnel = [s \in Launches |-> "none"]

TypeOKBrowser ==
    /\ licensed \in BOOLEAN /\ public \in BOOLEAN
    /\ cache \in [Editions -> {"none", "part", "whole"}]
    /\ mutex \in Launches \cup {Nobody}
    /\ lpc \in [Launches -> Launching \cup {"new", "open", "done", "gone"}]
    /\ edition \in [Launches -> Editions \cup {"none", "own"}]
    /\ holds \in [Launches -> SUBSET Resources]
    /\ tunnel \in [Launches -> {"none", "head", "dial", "open"}]

-----------------------------------------------------------------------------
(* Steps of a call.                                                        *)

GoTo(s, label) == lpc' = [lpc EXCEPT ![s] = label]
Acquire(s, r) == holds' = [holds EXCEPT ![s] = @ \cup {r}]
Runs(s, e) == edition' = [edition EXCEPT ![s] = e]
Settings == UNCHANGED <<licensed, public>>
Shared == UNCHANGED <<cache, mutex>> /\ Settings

(* A call that fails gives back all it has acquired.                       *)
(* Mutant: the profile of a browser that did not start is forgotten.       *)
MutFail(s) ==
    /\ GoTo(s, "done")
    /\ holds' = [holds EXCEPT ![s] = @ \cap {"profile"}]
Fail(s) ==
    /\ GoTo(s, "done")
    /\ holds' = [holds EXCEPT ![s] = {}]

Call(s) ==
    /\ lpc[s] = "new" /\ GoTo(s, "ensure")
    /\ UNCHANGED <<edition, holds, tunnel>> /\ Shared

-----------------------------------------------------------------------------
(* EnsureBinary.                                                           *)

(* cachedBinaryPath: any chrome file that is there will do, the paid one   *)
(* first.                                                                  *)
Cached == {e \in Editions : cache[e] # "none"}
Chosen == IF "pro" \in Cached THEN {"pro"} ELSE Cached

(* The lock is free: a configured path, a cached file, or a download,      *)
(* which keeps the lock.                                                   *)
EnsureOwn(s) ==
    /\ lpc[s] = "ensure" /\ mutex = Nobody
    /\ \/ GoTo(s, "driver") /\ Runs(s, "own") /\ UNCHANGED holds
       \/ Fail(s) /\ UNCHANGED edition
    /\ UNCHANGED tunnel /\ Shared

EnsureCached(s) ==
    /\ lpc[s] = "ensure" /\ mutex = Nobody
    /\ \E e \in Chosen : Runs(s, e)
    /\ GoTo(s, "driver")
    /\ UNCHANGED <<holds, tunnel>> /\ Shared

(* Mutant: the lock is not held during the download.                       *)
MutEnsureDownload(s) ==
    /\ lpc[s] = "ensure" /\ Chosen = {}
    /\ IF licensed \/ public
          THEN /\ UNCHANGED mutex /\ GoTo(s, "fetch") /\ Acquire(s, "archive")
               /\ Runs(s, IF licensed THEN "pro" ELSE "free")
          ELSE Fail(s) /\ UNCHANGED <<mutex, edition>>
    /\ UNCHANGED <<cache, tunnel>> /\ Settings
EnsureDownload(s) ==
    /\ lpc[s] = "ensure" /\ mutex = Nobody /\ Chosen = {}
    /\ IF licensed \/ public
          THEN /\ mutex' = s /\ GoTo(s, "fetch") /\ Acquire(s, "archive")
               /\ Runs(s, IF licensed THEN "pro" ELSE "free")
          ELSE Fail(s) /\ UNCHANGED <<mutex, edition>>
    /\ UNCHANGED <<cache, tunnel>> /\ Settings

(* The deferred unlock and the removal of the archive.                     *)
(* Mutant: a download that fails keeps the lock.                           *)
MutUnlock(s, ok) == mutex' = IF ok THEN Nobody ELSE mutex
Unlock(s, ok) == mutex' = Nobody

(* downloadFile and verifyArchive, at one address or, of a free package,   *)
(* two: the archive is the signed one, or nothing is unpacked.             *)
Fetch(s) ==
    /\ lpc[s] = "fetch"
    /\ \/ /\ GoTo(s, "unpack")
          /\ cache' = [cache EXCEPT ![edition[s]] = "none"]
          /\ UNCHANGED <<mutex, holds>>
       \/ Fail(s) /\ Unlock(s, FALSE) /\ UNCHANGED cache
    /\ UNCHANGED <<edition, tunnel>> /\ Settings

(* extractArchive writes the files where they will be looked for.          *)
UnpackChrome(s) ==
    /\ lpc[s] = "unpack" /\ cache[edition[s]] = "none"
    /\ cache' = [cache EXCEPT ![edition[s]] = "part"]
    /\ UNCHANGED <<lpc, mutex, edition, holds, tunnel>> /\ Settings

Unpacked(s) ==
    /\ lpc[s] = "unpack" /\ cache[edition[s]] = "part"
    /\ cache' = [cache EXCEPT ![edition[s]] = "whole"]
    /\ GoTo(s, "driver") /\ Unlock(s, TRUE)
    /\ holds' = [holds EXCEPT ![s] = @ \ {"archive"}]
    /\ UNCHANGED <<edition, tunnel>> /\ Settings

(* An archive that breaks off, a full disk, no chrome in it: what was      *)
(* written stays.                                                          *)
UnpackFails(s) ==
    /\ lpc[s] = "unpack"
    /\ Fail(s) /\ Unlock(s, FALSE)
    /\ UNCHANGED <<cache, edition, tunnel>> /\ Settings

-----------------------------------------------------------------------------
(* The session.                                                            *)

(* One acquisition after the other; a session without such a proxy has no  *)
(* relay.                                                                  *)
Take(s, at, r, next) ==
    /\ lpc[s] = at
    /\ \/ GoTo(s, next) /\ Acquire(s, r)
       \/ Fail(s)
    /\ UNCHANGED <<edition, tunnel>> /\ Shared

StartDriver(s) == Take(s, "driver", "driver", "relay")
StartRelay(s) == Take(s, "relay", "relay", "profile")
NoRelay(s) ==
    /\ lpc[s] = "relay" /\ GoTo(s, "profile")
    /\ UNCHANGED <<edition, holds, tunnel>> /\ Shared
MakeProfile(s) == Take(s, "profile", "profile", "context")
StartContext(s) == Take(s, "context", "context", "page")
OpenPage(s) ==
    /\ lpc[s] = "page"
    /\ \/ GoTo(s, "open") /\ UNCHANGED holds
       \/ Fail(s)
    /\ UNCHANGED <<edition, tunnel>> /\ Shared

Close(s) ==
    /\ lpc[s] = "open"
    /\ Fail(s)
    /\ UNCHANGED <<edition, tunnel>> /\ Shared

-----------------------------------------------------------------------------
(* Relay.serve, handle and tunnel: one connection at a time is enough, as  *)
(* they share nothing.                                                     *)

Connect(s) ==
    /\ {"relay", "context"} \subseteq holds[s] /\ tunnel[s] = "none"
    /\ tunnel' = [tunnel EXCEPT ![s] = "head"]
    /\ UNCHANGED <<lpc, edition, holds>> /\ Shared

(* A request that does not come within 20 s, or an address that cannot be  *)
(* reached, ends the connection.                                           *)
Relay(s) ==
    /\ \/ tunnel[s] = "head" /\ tunnel' = [tunnel EXCEPT ![s] = "dial"]
       \/ tunnel[s] = "dial" /\ tunnel' = [tunnel EXCEPT ![s] = "open"]
       \/ tunnel[s] \in {"head", "dial"} /\ tunnel' = [tunnel EXCEPT ![s] = "none"]
    /\ UNCHANGED <<lpc, edition, holds>> /\ Shared

(* One direction ends, and both connections are closed.                    *)
Hangup(s) ==
    /\ tunnel[s] = "open"
    /\ tunnel' = [tunnel EXCEPT ![s] = "none"]
    /\ UNCHANGED <<lpc, edition, holds>> /\ Shared
(* The browser's end is closed with the browser.                           *)
(* Mutant: only the proxy's end is waited for.                             *)
MutHangupAfterClose(s) == FALSE
HangupAfterClose(s) == "context" \notin holds[s] /\ Hangup(s)

-----------------------------------------------------------------------------
(* The settings are edited; the process dies and is started again.         *)

EditLicense ==
    /\ licensed' = ~licensed
    /\ UNCHANGED <<public, cache, mutex, lpc, edition, holds, tunnel>>

Crash ==
    /\ \E s \in Launches : lpc[s] \in Launching \cup {"open"}
    /\ mutex' = Nobody
    /\ lpc' = [s \in Launches |->
                  IF lpc[s] \in {"new", "done"} THEN lpc[s] ELSE "gone"]
    /\ tunnel' = [s \in Launches |-> "none"]
    /\ UNCHANGED <<cache, edition, holds>> /\ Settings

Ensure(s) == EnsureOwn(s) \/ EnsureCached(s) \/ EnsureDownload(s)
Unpack(s) == Fetch(s) \/ UnpackChrome(s) \/ Unpacked(s) \/ UnpackFails(s)
Acquisition(s) == StartDriver(s) \/ StartRelay(s) \/ NoRelay(s)
                    \/ MakeProfile(s) \/ StartContext(s) \/ OpenPage(s)
LaunchStep(s) == Ensure(s) \/ Unpack(s) \/ Acquisition(s)

NextBrowser ==
    \/ \E s \in Launches :
          \/ Call(s) \/ LaunchStep(s) \/ Close(s)
          \/ Connect(s) \/ Relay(s) \/ Hangup(s)
    \/ EditLicense \/ Crash

SpecBrowser == InitBrowser /\ [][NextBrowser]_browserVars

(* Every wait of Launch has a limit, and so have the head of a request and *)
(* the dial; a closed browser hangs up.                                    *)
FairBrowser ==
    \A s \in Launches :
        /\ WF_browserVars(LaunchStep(s))
        /\ WF_browserVars(Relay(s)) /\ WF_browserVars(HangupAfterClose(s))

-----------------------------------------------------------------------------
(* A call that returned without a session, or a session that was closed,   *)
(* has given back the archive, the driver, the relay, the profile and the  *)
(* browser, whichever of the acquisitions it was that failed               *)
(* (session.go:98-152, :157-173, cloak.go:177).                            *)
NothingLeaks == \A s \in Launches : lpc[s] = "done" => holds[s] = {}

(* The browser under a session is never removed: a download begins by      *)
(* deleting its directory, and only a call that finds no browser at all    *)
(* may begin one, also when the license was edited in between              *)
(* (cloak.go:155, extract.go:15).                                          *)
RunningBinaryStays ==
    \A s \in Launches :
        lpc[s] \in (Launching \ {"ensure", "fetch", "unpack"}) \cup {"open"} =>
            edition[s] = "own" \/ cache[edition[s]] # "none"

(* Every call of Launch ends, also when it waits behind the download of    *)
(* another one (cloak.go:138), and a closed session leaves no connection   *)
(* in its relay (relay.go:175): as long as no more calls come, a moment    *)
(* without either always comes again.                                      *)
LaunchEnds ==
    []<>(\A s \in Launches :
            lpc[s] \notin Launching /\ (lpc[s] = "done" => tunnel[s] = "none"))
=============================================================================
