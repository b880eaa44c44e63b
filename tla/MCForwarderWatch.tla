-------------------------- MODULE MCForwarderWatch --------------------------
(***************************************************************************)
(* Forwarder with two observers that no code reads: how long ago each      *)
(* request asked each account (asked), and how long each account has still *)
(* to rest by the answers it gave (announced).                             *)
(***************************************************************************)
EXTENDS Forwarder, TLC

VARIABLES asked, announced

watched == <<vars, asked, announced>>

WatchInit ==
    /\ Init
    /\ asked = [a \in Accounts |-> [r \in Requests |-> Window]]
    /\ announced = [a \in Accounts |-> 0]

Elder(m, n) == IF m > n THEN m ELSE n

WatchRequest(r) ==
    /\ Receive(r) \/ RequestStep(r)
    /\ asked' = [a \in Accounts |-> IF Picked(r, a) THEN [asked[a] EXCEPT ![r] = 0] ELSE asked[a]]
    /\ announced' = IF phase[r] = "cooling"
                    THEN [announced EXCEPT ![at[r]] = Elder(@, pause[r])]
                    ELSE announced

WatchTick ==
    /\ Tick
    /\ asked' = [a \in Accounts |-> [r \in Requests |-> Older(asked[a][r])]]
    /\ announced' = [a \in Accounts |-> Less(announced[a])]

(* Requests, goroutines, time and settings.                                *)
WatchNext ==
    \/ \E r \in Requests : WatchRequest(r)
    \/ WatchTick
    \/ /\ SaveSettings \/ \E r \in Requests, a \in Accounts : TaskStep(r, a)
       /\ UNCHANGED <<asked, announced>>

WatchSpec == WatchInit /\ [][WatchNext]_watched

(* account_rpm: whatever window of a minute is looked at, an account is    *)
(* asked at most as often as the setting in force at the last time allows. *)
RpmIsKept ==
    [][\A r \in Requests, a \in Accounts :
          Picked(r, a)
          => Cardinality({q \in Requests : asked[a][q] < Window}) < settings.rpm]_watched

(* An account rests as long as the answers it gave announced (accounts.tsx *)
(* "按 429 正文里的剩余时间停车": parked for the time left in the 429 body). *)
AnnouncedRest ==
    [][\A r \in Requests, a \in Accounts : Picked(r, a) => announced[a] = 0]_watched

(* The runs in which no answer announces less than the account has still   *)
(* to rest: cooldown (pick.go:106) then never shortens a rest.             *)
NothingShortened ==
    \A r \in Requests : phase[r] = "cooling" /\ phase'[r] # "cooling" => cool[at[r]] <= pause[r]

LongestSpec == WatchInit /\ [][WatchNext /\ NothingShortened]_watched

(* An account is kept out at least as long as it has to rest.              *)
RestIsKept ==
    /\ announced \in [Accounts -> Nat]
    /\ \A a \in Accounts : announced[a] <= cool[a]

RequestSymmetry == Permutations(Requests)
=============================================================================
