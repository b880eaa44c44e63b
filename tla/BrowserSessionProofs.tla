------------------------ MODULE BrowserSessionProofs ------------------------
(***************************************************************************)
(* What TLAPS proves of BrowserSession, for any number of launches: every  *)
(* way out of Launch gives back what it acquired, and the browser under a  *)
(* session is never removed.                                               *)
(***************************************************************************)
EXTENDS MCEnds, TLAPS

(* Past the lock a call knows what it runs.                                *)
Running == (Launching \ {"ensure", "fetch", "unpack"}) \cup {"open"}

(* Only the holder of the lock downloads, and it began when there was no   *)
(* browser at all: nothing can have been started from one since.           *)
LockInv ==
    /\ \A s \in Launches : lpc[s] \in Unpacking => mutex = s /\ edition[s] \in Editions
    /\ \A s \in Launches : lpc[s] = "fetch" => \A e \in Editions : cache[e] = "none"
    /\ \A s \in Launches : lpc[s] \in Running => edition[s] \in Editions \cup {"own"}

BrowserInv == TypeOKBrowser /\ LockInv /\ NothingLeaks /\ RunningBinaryStays

-----------------------------------------------------------------------------
(* The state is what it is said to be after every step.                    *)
LEMMA TypeStep ==
    ASSUME TypeOKBrowser, LockInv, NextBrowser
    PROVE  TypeOKBrowser'
<1> USE NobodyAssumption DEF TypeOKBrowser, Shared, Settings
<1> DEFINE Labels == Launching \cup {"new", "open", "done", "gone"}
<1>a. ASSUME NEW s \in Launches, NEW label \in Labels, GoTo(s, label)
      PROVE  lpc' \in [Launches -> Labels]
  BY <1>a DEF GoTo
<1>b. ASSUME NEW s \in Launches, NEW r \in Resources, Acquire(s, r)
      PROVE  holds' \in [Launches -> SUBSET Resources]
  BY <1>b DEF Acquire
<1>c. ASSUME NEW s \in Launches, NEW e \in Editions \cup {"none", "own"}, Runs(s, e)
      PROVE  edition' \in [Launches -> Editions \cup {"none", "own"}]
  BY <1>c DEF Runs
<1>d. ASSUME NEW s \in Launches, Fail(s)
      PROVE  lpc' \in [Launches -> Labels] /\ holds' \in [Launches -> SUBSET Resources]
  BY <1>d DEF Fail, GoTo
<1>1. \A s \in Launches :
         /\ \A label \in Labels : GoTo(s, label) => lpc' \in [Launches -> Labels]
         /\ \A r \in Resources : Acquire(s, r) => holds' \in [Launches -> SUBSET Resources]
         /\ \A e \in Editions \cup {"none", "own"} :
               Runs(s, e) => edition' \in [Launches -> Editions \cup {"none", "own"}]
         /\ Fail(s) => /\ lpc' \in [Launches -> Labels]
                       /\ holds' \in [Launches -> SUBSET Resources]
  BY <1>a, <1>b, <1>c, <1>d
<1>2. ASSUME NEW s \in Launches, Call(s)
      PROVE  TypeOKBrowser'
  BY <1>1, <1>2 DEF Call, Launching
<1>3. ASSUME NEW s \in Launches, EnsureOwn(s)
      PROVE  TypeOKBrowser'
  BY <1>1, <1>3 DEF EnsureOwn, Launching
<1>4. ASSUME NEW s \in Launches, EnsureCached(s)
      PROVE  TypeOKBrowser'
  BY <1>1, <1>4 DEF EnsureCached, Chosen, Cached, Launching, Editions
<1>5. ASSUME NEW s \in Launches, EnsureDownload(s)
      PROVE  TypeOKBrowser'
  BY <1>1, <1>5 DEF EnsureDownload, Launching, Unpacking, Editions, Resources
<1>6. ASSUME NEW s \in Launches, Unpack(s)
      PROVE  TypeOKBrowser'
  <2>1. lpc[s] \in Unpacking => edition[s] \in Editions
    BY DEF LockInv
  <2>2. CASE Fetch(s)
    BY <1>1, <2>1, <2>2 DEF Fetch, Unlock, Launching, Unpacking
  <2>3. CASE UnpackChrome(s)
    BY <2>1, <2>3 DEF UnpackChrome, Unpacking
  <2>4. CASE Unpacked(s)
    <3>1. holds' \in [Launches -> SUBSET Resources]
      BY <2>4 DEF Unpacked
    <3> QED
      BY <1>1, <2>1, <2>4, <3>1 DEF Unpacked, Unlock, Launching, Unpacking
  <2>5. CASE UnpackFails(s)
    BY <1>1, <2>5 DEF UnpackFails, Unlock
  <2> QED
    BY <1>6, <2>2, <2>3, <2>4, <2>5 DEF Unpack
<1>7. ASSUME NEW s \in Launches, Acquisition(s) \/ Close(s)
      PROVE  TypeOKBrowser'
  BY <1>1, <1>7 DEF Acquisition, StartDriver, StartRelay, NoRelay, MakeProfile,
     StartContext, OpenPage, Close, Take, Launching, Resources
<1>8. ASSUME NEW s \in Launches, Connect(s) \/ Relay(s) \/ Hangup(s)
      PROVE  TypeOKBrowser'
  BY <1>8 DEF Connect, Relay, Hangup
<1>9. CASE EditLicense
  BY <1>9 DEF EditLicense
<1>10. CASE Crash
  <2>1. lpc' \in [Launches -> Labels] /\ tunnel' \in [Launches -> {"none", "head", "dial", "open"}]
    BY <1>10 DEF Crash
  <2> QED
    BY <1>10, <2>1 DEF Crash
<1> QED
  BY <1>2, <1>3, <1>4, <1>5, <1>6, <1>7, <1>8, <1>9, <1>10
     DEF NextBrowser, LaunchStep, Ensure

-----------------------------------------------------------------------------
(* A step that keeps the browsers, or begins from none.                    *)
LEMMA LockStep ==
    ASSUME BrowserInv, NextBrowser
    PROVE  LockInv'
<1> USE NobodyAssumption
    DEF BrowserInv, TypeOKBrowser, LockInv, Shared, Settings, GoTo, Fail, Running,
        Launching, Unpacking, Editions
<1>1. ASSUME NEW s \in Launches, Call(s)
      PROVE  LockInv'
  BY <1>1 DEF Call
<1>2. ASSUME NEW s \in Launches, EnsureOwn(s)
      PROVE  LockInv'
  BY <1>2 DEF EnsureOwn, Runs
<1>3. ASSUME NEW s \in Launches, EnsureCached(s)
      PROVE  LockInv'
  BY <1>3 DEF EnsureCached, Runs, Chosen, Cached
<1>4. ASSUME NEW s \in Launches, EnsureDownload(s)
      PROVE  LockInv'
  <2>1. \A e \in Editions : cache[e] = "none"
    BY <1>4 DEF EnsureDownload, Chosen, Cached
  <2>2. \A t \in Launches : lpc[t] \notin {"fetch", "unpack"}
    BY <1>4 DEF EnsureDownload
  <2>3. CASE licensed \/ public
    <3>1. /\ mutex' = s /\ lpc' = [lpc EXCEPT ![s] = "fetch"] /\ cache' = cache
          /\ edition' = [edition EXCEPT ![s] = IF licensed THEN "pro" ELSE "free"]
      BY <1>4, <2>3 DEF EnsureDownload, Runs
    <3> QED
      BY <2>1, <2>2, <3>1
  <2>4. CASE ~(licensed \/ public)
    BY <1>4, <2>4 DEF EnsureDownload
  <2> QED
    BY <2>3, <2>4
<1>5. ASSUME NEW s \in Launches, Fetch(s)
      PROVE  LockInv'
  <2>1. \A t \in Launches \ {s} : lpc[t] \notin {"fetch", "unpack"}
    BY <1>5 DEF Fetch
  <2> QED
    BY <1>5, <2>1 DEF Fetch, Unlock
<1>6. ASSUME NEW s \in Launches, UnpackChrome(s) \/ Unpacked(s) \/ UnpackFails(s)
      PROVE  LockInv'
  <2>1. \A t \in Launches \ {s} : lpc[t] \notin {"fetch", "unpack"}
    BY <1>6 DEF UnpackChrome, Unpacked, UnpackFails
  <2> QED
    BY <1>6, <2>1 DEF UnpackChrome, Unpacked, UnpackFails, Unlock
<1>7. ASSUME NEW s \in Launches, Acquisition(s) \/ Close(s)
      PROVE  LockInv'
  BY <1>7 DEF Acquisition, StartDriver, StartRelay, NoRelay, MakeProfile,
     StartContext, OpenPage, Close, Take
<1>8. ASSUME NEW s \in Launches, Connect(s) \/ Relay(s) \/ Hangup(s)
      PROVE  LockInv'
  BY <1>8 DEF Connect, Relay, Hangup
<1>9. CASE EditLicense
  BY <1>9 DEF EditLicense
<1>10. CASE Crash
  BY <1>10 DEF Crash
<1> QED
  BY <1>1, <1>2, <1>3, <1>4, <1>5, <1>6, <1>7, <1>8, <1>9, <1>10
     DEF NextBrowser, LaunchStep, Ensure, Unpack

(* No step leaves a call that is over with something it acquired.          *)
LEMMA LeakStep ==
    ASSUME BrowserInv, NextBrowser
    PROVE  NothingLeaks'
<1> USE DEF BrowserInv, TypeOKBrowser, NothingLeaks, Shared, Settings, GoTo, Fail, Acquire
<1>1. ASSUME NEW s \in Launches, Call(s)
      PROVE  NothingLeaks'
  BY <1>1 DEF Call
<1>2. ASSUME NEW s \in Launches, Ensure(s)
      PROVE  NothingLeaks'
  <2>1. CASE EnsureOwn(s)
    BY <2>1 DEF EnsureOwn
  <2>2. CASE EnsureCached(s)
    BY <2>2 DEF EnsureCached
  <2>3. CASE EnsureDownload(s)
    BY <2>3 DEF EnsureDownload
  <2> QED
    BY <1>2, <2>1, <2>2, <2>3 DEF Ensure
<1>3. ASSUME NEW s \in Launches, Unpack(s)
      PROVE  NothingLeaks'
  <2>1. CASE Fetch(s)
    BY <2>1 DEF Fetch
  <2>2. CASE UnpackChrome(s)
    BY <2>2 DEF UnpackChrome
  <2>3. CASE Unpacked(s)
    BY <2>3 DEF Unpacked
  <2>4. CASE UnpackFails(s)
    BY <2>4 DEF UnpackFails
  <2> QED
    BY <1>3, <2>1, <2>2, <2>3, <2>4 DEF Unpack
<1>4. ASSUME NEW s \in Launches, Acquisition(s) \/ Close(s)
      PROVE  NothingLeaks'
  BY <1>4 DEF Acquisition, StartDriver, StartRelay, NoRelay, MakeProfile,
     StartContext, OpenPage, Close, Take
<1>5. ASSUME NEW s \in Launches, Connect(s) \/ Relay(s) \/ Hangup(s)
      PROVE  NothingLeaks'
  BY <1>5 DEF Connect, Relay, Hangup
<1>6. CASE EditLicense
  BY <1>6 DEF EditLicense
<1>7. CASE Crash
  BY <1>7 DEF Crash
<1> QED
  BY <1>1, <1>2, <1>3, <1>4, <1>5, <1>6, <1>7 DEF NextBrowser, LaunchStep

(* A browser is only removed while none is there for a session to run.     *)
LEMMA BinaryStep ==
    ASSUME BrowserInv, NextBrowser
    PROVE  RunningBinaryStays'
<1> USE DEF BrowserInv, TypeOKBrowser, RunningBinaryStays, Shared, Settings, GoTo, Fail,
            Launching, Unpacking
<1>1. ASSUME NEW s \in Launches, Call(s)
      PROVE  RunningBinaryStays'
  BY <1>1 DEF Call
<1>2. ASSUME NEW s \in Launches, Ensure(s)
      PROVE  RunningBinaryStays'
  <2>1. CASE EnsureOwn(s)
    BY <2>1 DEF EnsureOwn, Runs
  <2>2. CASE EnsureCached(s)
    <3>1. PICK e \in Chosen : edition' = [edition EXCEPT ![s] = e]
      BY <2>2 DEF EnsureCached, Runs
    <3>2. e \in Editions /\ cache[e] # "none"
      BY <3>1 DEF Chosen, Cached
    <3> QED
      BY <2>2, <3>1, <3>2 DEF EnsureCached
  <2>3. CASE EnsureDownload(s)
    BY <2>3 DEF EnsureDownload, Runs
  <2> QED
    BY <1>2, <2>1, <2>2, <2>3 DEF Ensure
<1>3. ASSUME NEW s \in Launches, Unpack(s)
      PROVE  RunningBinaryStays'
  <2>0. edition[s] \in Editions
    BY <1>3 DEF Unpack, Fetch, UnpackChrome, Unpacked, UnpackFails, LockInv
  <2>1. CASE Fetch(s)
    <3>1. \A e \in Editions : cache[e] = "none"
      BY <2>1 DEF Fetch, LockInv
    <3>2. \A t \in Launches : lpc[t] \in Running => edition[t] = "own"
      BY <3>1 DEF Running, LockInv
    <3>3. edition' = edition /\ \A t \in Launches : lpc'[t] \in Running => lpc[t] \in Running
      BY <2>1 DEF Fetch, Running
    <3> QED
      BY <3>2, <3>3 DEF Running
  <2>2. CASE UnpackChrome(s)
    BY <2>0, <2>2 DEF UnpackChrome, LockInv, Running, Editions
  <2>3. CASE Unpacked(s)
    BY <2>0, <2>3 DEF Unpacked, LockInv, Running, Editions
  <2>4. CASE UnpackFails(s)
    BY <2>4 DEF UnpackFails
  <2> QED
    BY <1>3, <2>1, <2>2, <2>3, <2>4 DEF Unpack
<1>4. ASSUME NEW s \in Launches, Acquisition(s) \/ Close(s)
      PROVE  RunningBinaryStays'
  BY <1>4 DEF Acquisition, StartDriver, StartRelay, NoRelay, MakeProfile,
     StartContext, OpenPage, Close, Take
<1>5. ASSUME NEW s \in Launches, Connect(s) \/ Relay(s) \/ Hangup(s)
      PROVE  RunningBinaryStays'
  BY <1>5 DEF Connect, Relay, Hangup
<1>6. CASE EditLicense
  BY <1>6 DEF EditLicense
<1>7. CASE Crash
  BY <1>7 DEF Crash
<1> QED
  BY <1>1, <1>2, <1>3, <1>4, <1>5, <1>6, <1>7 DEF NextBrowser, LaunchStep

-----------------------------------------------------------------------------
LEMMA InitOK == InitBrowser => BrowserInv
<1> SUFFICES ASSUME InitBrowser PROVE BrowserInv
  OBVIOUS
<1>1. TypeOKBrowser
  BY DEF InitBrowser, TypeOKBrowser
<1> QED
  BY <1>1 DEF InitBrowser, BrowserInv, LockInv, NothingLeaks, RunningBinaryStays,
     Running, Launching, Unpacking

LEMMA StepOK == BrowserInv /\ [NextBrowser]_browserVars => BrowserInv'
<1> SUFFICES ASSUME BrowserInv, [NextBrowser]_browserVars PROVE BrowserInv'
  OBVIOUS
<1>1. CASE NextBrowser
  BY <1>1, TypeStep, LockStep, LeakStep, BinaryStep DEF BrowserInv
<1>2. CASE UNCHANGED browserVars
  BY <1>2 DEF browserVars, BrowserInv, TypeOKBrowser, LockInv, NothingLeaks,
     RunningBinaryStays
<1> QED
  BY <1>1, <1>2

(* The state is typed, and only the holder of ensureMu downloads, which it *)
(* began when there was no browser (cloak.go:138, :155).                   *)
THEOREM OneDownload == SpecBrowser => []BrowserInv
BY InitOK, StepOK, PTL DEF SpecBrowser

(* A call that is over has given back all it acquired (session.go:98-173). *)
THEOREM EveryLaunchGivesBack == SpecBrowser => []NothingLeaks
<1>1. BrowserInv => NothingLeaks
  BY DEF BrowserInv
<1> QED
  BY <1>1, OneDownload, PTL

(* The browser under a session is never removed (extract.go:15).           *)
THEOREM BrowserStays == SpecBrowser => []RunningBinaryStays
<1>1. BrowserInv => RunningBinaryStays
  BY DEF BrowserInv
<1> QED
  BY <1>1, OneDownload, PTL

(* Beside the queue and the proxy the launches keep what they guarantee.   *)
THEOREM PartsKeep == EndsSpec => [](NothingLeaks /\ RunningBinaryStays)
<1>1. EndsInit => InitBrowser
  BY DEF EndsInit, BrowserInit
<1>2. [EndsNext]_endsVars => [NextBrowser]_browserVars
  BY DEF EndsNext, endsVars
<1>3. EndsSpec => SpecBrowser
  BY <1>1, <1>2, PTL DEF EndsSpec, SpecBrowser
<1> QED
  BY <1>3, EveryLaunchGivesBack, BrowserStays, PTL

=============================================================================
