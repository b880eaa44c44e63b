--------------------------- MODULE MCCardPoolPaid ---------------------------
(***************************************************************************)
(* CardPool with an observer that no code reads: how many accounts each    *)
(* card has paid for (counted to one more than it may pay for).            *)
(***************************************************************************)
EXTENDS CardPool, TLC

VARIABLE paid

WatchInit == Init /\ paid = [c \in Cards |-> 0]

More(n) == IF n > MaxPays THEN n ELSE n + 1

(* A payment in a browser takes longer than the waiters of one task take   *)
(* to see that it is done (taskPollInterval is 5 seconds): no session      *)
(* settles while somebody still waits for a card that is in the store.     *)
Prompt ==
    (\E w \in Sessions, result \in Results : Settle(w, result))
    => ~\E p \in Processes, s \in {cur, next} :
          at[p].pc = "waiting" /\ s.state = "ready" /\ s.card = at[p].card

(* A payment counts for the card of the session that settles it; a task    *)
(* number that is taken again is another card.                             *)
CountPaid ==
    paid' = [c \in Cards |->
               IF c \notin Known THEN 0
               ELSE IF \E w \in Sessions : at[w].card = c /\ Settle(w, "paid")
               THEN More(paid[c]) ELSE paid[c]]

(* The sessions, the goroutines and time; nobody clears the pool and the   *)
(* process does not restart.                                               *)
WatchNext ==
    /\ PoolNext
    /\ Prompt
    /\ CountPaid

WatchSpec == WatchInit /\ [][WatchNext]_<<vars, paid>>

(* A card pays for at most MaxPays accounts (pays.go:7 "MaxPaysPerCard =   *)
(* 3", settings.tsx:1272 shows the payments as a part of that number).     *)
PaidWithinLimit == \A c \in Cards : paid[c] <= MaxPays

(* The slot an answer goes to still holds the order it answers.            *)
(* finishAmzKeysCreate asks for that when a wait fails (amzkeys.go:347,    *)
(* :351), and not when it brings a card (amzkeys.go:383, :394).            *)
Found(p) ==
    LET s == IF at[p].asNext THEN next ELSE cur
    IN  s.state \in {"ordered", "stale"} /\ s.card = at[p].card

(* The behaviours of the pool, with clearing and restarts and whatever the *)
(* delays, in which an answer that misses its order changes no slot.       *)
FoundNext ==
    /\ Next
    /\ \A p \in Processes : CreateDone(p) => Found(p) \/ UNCHANGED <<cur, next>>
    /\ CountPaid

FoundSpec == WatchInit /\ [][FoundNext]_<<vars, paid>>

(* The ledger of CardLedger, read off the sessions themselves.             *)
HeldCard == [w \in Sessions |-> IF at[w].pc = "paying" THEN at[w].card ELSE NoCard]

CL == INSTANCE CardLedger WITH holds <- HeldCard, spent <- paid

LedgerSpec == CL!Spec

SessionSymmetry == Permutations(Sessions)
=============================================================================
