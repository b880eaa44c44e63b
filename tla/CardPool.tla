------------------------------ MODULE CardPool ------------------------------
(***************************************************************************)
(* The virtual cards of the Auto process (auto/internal/api/amzkeys.go).   *)
(* The store holds one card and, behind it, a next one; payment sessions   *)
(* (autopay in auto/worker/stripe_pay.py) check a card out, pay and give   *)
(* it back; warming goroutines order cards ahead of need.                  *)
(*                                                                         *)
(* Every critical section of amzCardMu is one action (it includes the      *)
(* order, which SubmitCreate sends while the lock is held).  Waiting for   *)
(* the card service (WaitTask) is outside the lock: whatever the store     *)
(* held before, it may hold something else afterwards.                     *)
(*                                                                         *)
(* A card and the task that orders it are the same thing here: the service *)
(* gives every waiter of a task the same card.                             *)
(***************************************************************************)
EXTENDS Integers, FiniteSets

CONSTANTS Sessions,   \* payment sessions, one per running login job
          Warmers,    \* goroutines of WarmAmzKeysCard; bounds how many overlap
          Cards,      \* cards, by the task that orders them
          NoCard,     \* an empty slot
          MaxPays     \* MaxPays(Amount): how many accounts one card pays for

ASSUME CardPoolAssumption ==
    /\ NoCard \notin Cards
    /\ Sessions \cap Warmers = {}
    /\ MaxPays \in Nat \ {0}

VARIABLES cur,       \* the stored card
          next,      \* its Next
          recent,    \* LastError is set and LastErrorAt is not 5 minutes old
          at         \* where each session and each goroutine is

store == <<cur, next, recent>>
vars  == <<cur, next, recent, at>>

-----------------------------------------------------------------------------
(* A slot of the store.  ordered: Pending and not TaskStale; stale: Pending *)
(* and TaskStale; ready: Ready, with PayCount and InUse.                    *)
Empty      == [state |-> "empty", card |-> NoCard, pays |-> 0, inUse |-> 0]
Ordered(c) == [state |-> "ordered", card |-> c, pays |-> 0, inUse |-> 0]
Opened(c)  == [state |-> "ready", card |-> c, pays |-> 0, inUse |-> 0]

Slot ==
    {s \in [state : {"empty", "ordered", "stale", "ready"}, card : Cards \cup {NoCard},
            pays : 0..MaxPays, inUse : 0..MaxPays] :
        /\ s.state = "empty" <=> s.card = NoCard
        /\ s.state # "ready" => s.pays = 0
        /\ s.inUse <= s.pays}

(* waiting: in WaitTask for card, ordered into next if asNext, by itself if *)
(* own; ready: before the second reservation of a checkout; paying: with    *)
(* card, the second one if again; rejected: about to replace its card;      *)
(* failed: a goroutine that has to remember why it could not order.         *)
Idle == [pc |-> "idle", card |-> NoCard, asNext |-> FALSE, own |-> FALSE, again |-> FALSE]
Place == [pc : {"idle", "waiting", "ready", "paying", "rejected", "failed"},
          card : Cards \cup {NoCard}, asNext : BOOLEAN, own : BOOLEAN, again : BOOLEAN]

Processes == Sessions \cup Warmers

TypeOK ==
    /\ cur \in Slot
    /\ next \in Slot
    /\ recent \in BOOLEAN
    /\ at \in [Processes -> Place]
    /\ \A p \in Processes : at[p].pc \in {"waiting", "paying"} => at[p].card \in Cards

Init ==
    /\ cur = Empty
    /\ next = Empty
    /\ recent = FALSE
    /\ at = [p \in Processes |-> Idle]

-----------------------------------------------------------------------------
(* Mutant: the limit is off by one.                                        *)
MutExhausted(s) == s.state = "ready" /\ s.pays > MaxPays

(* cardExhausted, cardUsable, cardPendingFresh, amzHasStock.               *)
Exhausted(s) == s.state = "ready" /\ s.pays >= MaxPays
Usable(s)    == s.state = "ready" /\ ~Exhausted(s)
Fresh(s)     == s.state = "ordered"
InStock(s)   == Usable(s) \/ Fresh(s)
HasStock     == InStock(cur) \/ InStock(next)

(* amzShouldWarmNext.                                                      *)
ShouldWarmNext ==
    \/ ~Usable(cur) /\ ~HasStock
    \/ Usable(cur) /\ cur.pays + 1 >= MaxPays /\ ~InStock(next)

(* tryReserveReadyLocked, on the slot it takes.                            *)
Reserved(s) == [s EXCEPT !.pays = @ + 1, !.inUse = @ + 1]

(* A number for the next task.  The service never gives one twice; here    *)
(* one is taken again when nothing refers to it any more (Cards bounds     *)
(* what is referred to at once).                                           *)
Known == {cur.card, next.card} \cup {at[p].card : p \in Processes}
NewTask == CHOOSE c \in Cards : c \notin Known

-----------------------------------------------------------------------------
(* The reservation inside checkoutAmzKeysCard: session w, whose attempt is *)
(* the second one if again, takes a card from slots c and n.               *)
ReserveFrom(w, c, n, again) ==
    LET paying(s) == [Idle EXCEPT !.pc = "paying", !.card = s.card, !.again = again]
    IN  \/ /\ Usable(c)
           /\ cur' = Reserved(c) /\ next' = n
           /\ at' = [at EXCEPT ![w] = paying(c)]
        \/ /\ ~Usable(c) /\ Usable(n)
           /\ cur' = c /\ next' = Reserved(n)
           /\ at' = [at EXCEPT ![w] = paying(n)]

(* Mutant: an order for the next card is overlooked.                       *)
MutOnItsWay(c, n) == Fresh(c)

OnItsWay(c, n) == Fresh(c) \/ Fresh(n)

Wait(c, asNext, own, again) ==
    [pc |-> "waiting", card |-> c, asNext |-> asNext, own |-> own, again |-> again]

(* Wait for the order that is on its way.                                  *)
Join(p, c, n, e, again) ==
    /\ OnItsWay(c, n)
    /\ at' = [at EXCEPT ![p] = IF Fresh(c) THEN Wait(c.card, FALSE, FALSE, again)
                                           ELSE Wait(n.card, TRUE, FALSE, again)]
    /\ cur' = c /\ next' = n /\ recent' = e

(* The exhausted card that nobody uses is dropped before the order.        *)
Dropped(c) == Exhausted(c) /\ c.inUse = 0

(* Send an order: for next while cur is in use, else for cur.              *)
Order(p, c, n, e, again) ==
    LET asNext == c.state = "ready" /\ ~Dropped(c)
    IN  /\ ~OnItsWay(c, n)
        /\ ~(Cards \subseteq Known)
        /\ at' = [at EXCEPT ![p] = Wait(NewTask, asNext, TRUE, again)]
        /\ cur' = IF asNext THEN c ELSE Ordered(NewTask)
        /\ next' = IF asNext THEN Ordered(NewTask) ELSE n
        /\ recent' = (asNext /\ e)

(* SubmitCreate, or the client, fails.                                     *)
OrderFails(p, c, n, e, then) ==
    /\ ~OnItsWay(c, n)
    /\ at' = [at EXCEPT ![p] = then]
    /\ cur' = IF Dropped(c) THEN Empty ELSE c
    /\ next' = n
    /\ recent' = (e /\ ~Dropped(c))

(* beginAmzKeysCreateLocked for process p on slots c and n, with e for     *)
(* recent; when one of them is usable it does nothing.                     *)
Begin(p, c, n, e, again, failed) ==
    /\ ~Usable(c) /\ ~Usable(n)
    /\ \/ Join(p, c, n, e, again)
       \/ Order(p, c, n, e, again)
       \/ OrderFails(p, c, n, e, failed)

-----------------------------------------------------------------------------
(* The first critical section of checkoutAmzKeysCard.                      *)
CheckoutFrom(w, c, n, e, again) ==
    \/ ReserveFrom(w, c, n, again) /\ recent' = e
    \/ Begin(w, c, n, e, again, Idle)

Checkout(w) ==
    /\ at[w].pc = "idle"
    /\ CheckoutFrom(w, cur, next, recent, FALSE)

(* checkout with replace: discardCurrentLocked first, whoever uses cur.    *)
Replace(w) ==
    /\ at[w].pc = "rejected"
    /\ CheckoutFrom(w, next, Empty, FALSE, TRUE)

(* The reservation after finishAmzKeysCreate.                              *)
CheckoutReady(w) ==
    /\ at[w].pc = "ready"
    /\ \/ ReserveFrom(w, cur, next, at[w].again)
       \/ /\ ~Usable(cur) /\ ~Usable(next)
          /\ at' = [at EXCEPT ![w] = Idle]
          /\ UNCHANGED <<cur, next>>
    /\ UNCHANGED recent

(* WaitTask has a card: the rest of finishAmzKeysCreate.                   *)
Other(s, c) == s.state = "ready" /\ s.card # c

Finished(p) == IF p \in Sessions THEN [Idle EXCEPT !.pc = "ready", !.again = at[p].again]
                                 ELSE Idle

CreateDone(p) ==
    LET c == at[p].card
    IN  /\ at[p].pc = "waiting"
        /\ at' = [at EXCEPT ![p] = Finished(p)]
        /\ \/ /\ at[p].asNext
              /\ next' = IF Other(next, c) THEN next ELSE Opened(c)
              /\ UNCHANGED <<cur, recent>>
           \/ /\ ~at[p].asNext /\ Other(cur, c)
              /\ UNCHANGED store
           \/ /\ ~at[p].asNext /\ ~Other(cur, c)
              /\ cur' = [Opened(c) EXCEPT !.pays = cur.pays, !.inUse = cur.inUse]
              /\ recent' = FALSE
              /\ UNCHANGED next

(* WaitTask fails or gives up: the order is taken out of its slot.         *)
CreateFails(p) ==
    LET c == at[p].card
        lost(s) == s.state \in {"ordered", "stale"} /\ s.card = c
    IN  /\ at[p].pc = "waiting"
        /\ at' = [at EXCEPT ![p] = Idle]
        /\ \/ /\ at[p].asNext /\ lost(next)
              /\ next' = Empty
              /\ recent' = TRUE
              /\ UNCHANGED cur
           \/ /\ ~at[p].asNext /\ lost(cur)
              /\ cur' = Empty
              /\ recent' = TRUE
              /\ UNCHANGED next
           \/ /\ ~lost(IF at[p].asNext THEN next ELSE cur)
              /\ UNCHANGED store

(* No client any more, or a card without a number or CVV: the order stays. *)
CreateUseless(p) ==
    /\ at[p].pc = "waiting"
    /\ at' = [at EXCEPT ![p] = Idle]
    /\ UNCHANGED store

-----------------------------------------------------------------------------
(* releaseAmzKeysCard: the card is counted down where it is found first,   *)
(* then recycleCardLocked drops what is used up and unused.                *)
Applied(s, result) ==
    [s EXCEPT !.inUse = IF @ > 0 THEN @ - 1 ELSE @,
              !.pays = IF result = "unpaid" /\ @ > 0 THEN @ - 1 ELSE @]

(* Mutant: a used up card is dropped while sessions use it.                *)
MutRecyclable(s) == Exhausted(s)

Recyclable(s) == Exhausted(s) /\ s.inUse = 0

Recycle(c, n) ==
    LET m == IF Recyclable(n) THEN Empty ELSE n
    IN  /\ cur' = IF Recyclable(c) THEN m ELSE c
        /\ next' = IF Recyclable(c) THEN Empty ELSE m
        /\ recent' = (recent /\ ~Recyclable(c))

ReleaseCard(c, result) ==
    \/ cur.card = c /\ cur.state = "ready" /\ Recycle(Applied(cur, result), next)
    \/ /\ ~(cur.card = c /\ cur.state = "ready")
       /\ next.card = c /\ next.state = "ready"
       /\ Recycle(cur, Applied(next, result))
    \/ /\ \A s \in {cur, next} : ~(s.card = c /\ s.state = "ready")
       /\ UNCHANGED store

(* The session has its answer and tells the pool: paid, unpaid or rejected. *)
(* A rejected first card is replaced; the second result ends the session.   *)
Settle(w, result) ==
    /\ at[w].pc = "paying"
    /\ ReleaseCard(at[w].card, result)
    /\ at' = [at EXCEPT ![w] = IF result = "rejected" /\ ~at[w].again
                               THEN [Idle EXCEPT !.pc = "rejected"] ELSE Idle]

(* The worker dies, or its release does not arrive (it is only logged).    *)
Vanish(w) ==
    /\ at[w].pc \in {"paying", "rejected"}
    /\ at' = [at EXCEPT ![w] = Idle]
    /\ UNCHANGED store

-----------------------------------------------------------------------------
(* warmAmzKeysCard: at the start, every minute, for a job with automatic   *)
(* payment, after a checkout, a release or a clear.  By hand (force) it     *)
(* does not look at recent: that is ErrorAges before it.                   *)
(* With a usable cur, begin finds nothing to do.                           *)
Warm(x) ==
    /\ at[x].pc = "idle"
    /\ ~HasStock \/ ShouldWarmNext
    /\ ~recent
    /\ Begin(x, cur, next, recent, FALSE, [Idle EXCEPT !.pc = "failed"])

(* rememberCardError.                                                      *)
RememberError(x) ==
    /\ at[x].pc = "failed"
    /\ at' = [at EXCEPT ![x] = Idle]
    /\ recent' = (recent \/ (cur.state = "empty" /\ next.state = "empty"))
    /\ UNCHANGED <<cur, next>>

(* amzKeysClearCard.                                                       *)
Clear ==
    /\ cur' = Empty /\ next' = Empty /\ recent' = FALSE
    /\ UNCHANGED at

(* Mutant: an order never gets stale.                                      *)
MutStale(s) == s

(* TaskStale: 7 minutes after the order, when the 6 minutes of the process *)
(* that sent it are over; who joined later may still wait.                 *)
Stale(s) == IF Fresh(s) THEN [s EXCEPT !.state = "stale"] ELSE s

GrowStale ==
    /\ \E s \in {cur, next} :
        Fresh(s) /\ \A p \in Processes : at[p].card = s.card => ~at[p].own
    /\ cur' = Stale(cur) /\ next' = Stale(next)
    /\ UNCHANGED <<recent, at>>

(* The goroutine that failed remembers its error before any error ages.    *)
ErrorAges ==
    /\ recent
    /\ \A x \in Warmers : at[x].pc # "failed"
    /\ recent' = FALSE
    /\ UNCHANGED <<cur, next, at>>

(* The Auto process starts anew; the cards are in the store.               *)
Restart ==
    /\ at' = [p \in Processes |-> Idle]
    /\ UNCHANGED store

Results == {"paid", "unpaid", "rejected"}

SessionNext(w) ==
    \/ Checkout(w) \/ Replace(w) \/ CheckoutReady(w) \/ Vanish(w)
    \/ \E result \in Results : Settle(w, result)

WarmerNext(x) == Warm(x) \/ RememberError(x)

CreateNext(p) == CreateDone(p) \/ CreateFails(p) \/ CreateUseless(p)

PoolNext ==
    \/ \E w \in Sessions : SessionNext(w)
    \/ \E x \in Warmers : WarmerNext(x)
    \/ \E p \in Processes : CreateNext(p)
    \/ GrowStale
    \/ ErrorAges

Next == PoolNext \/ Clear \/ Restart

Spec == Init /\ [][Next]_vars

-----------------------------------------------------------------------------
(* No card is ordered while another can still be used or is on its way,    *)
(* except to replace one that was rejected: sessions, goroutines and a     *)
(* restart between them must not buy two cards for one need                *)
(* (checkoutAmzKeysCard, warmAmzKeysCard, beginAmzKeysCreateLocked).       *)
Orders == {s.card : s \in {t \in {cur, next} : t.state \in {"ordered", "stale"}}}

NoSecondCard ==
    [][(Orders' \ {cur.card, next.card} # {})
        => ~HasStock \/ \E w \in Sessions : at[w].pc = "rejected" /\ at'[w].pc = "waiting"]_vars

(* A ready card that is in use, the use that just ends not counted, leaves *)
(* the store only when a session replaces it, when the user clears the     *)
(* pool, or, used up, when an order takes its place as next: no release,   *)
(* promotion or late answer of the service drops it (recycleCardLocked,    *)
(* finishAmzKeysCreate).                                                   *)
Ending(c) == {w \in Sessions : at[w].pc = "paying" /\ at[w].card = c /\ at'[w].pc # "paying"}

UsedCardStays ==
    [][\A s \in {cur, next} :
        /\ s.state = "ready" /\ s.inUse > Cardinality(Ending(s.card))
        /\ s.card \notin {cur.card, next.card}'
        => \/ \E w \in Sessions : at[w].pc = "rejected" /\ at'[w].pc # "rejected"
           \/ at' = at
           \/ Exhausted(s) /\ next = s /\ next.state' = "ordered"]_vars

(* The ticker of Server.Run and the deadlines are kept, and the card       *)
(* service works now and then: an order that is possible again and again   *)
(* is accepted at last, and so is the card it brings.                      *)
WarmOrders(x) == Warm(x) /\ at'[x].pc = "waiting"

Fairness ==
    /\ \A x \in Warmers : SF_vars(WarmOrders(x)) /\ WF_vars(RememberError(x))
    /\ \A p \in Processes : SF_vars(CreateDone(p))
    /\ WF_vars(GrowStale)
    /\ WF_vars(ErrorAges)

FairSpec == Spec /\ Fairness

(* However sessions vanish, orders fail and the process restarts, the pool *)
(* comes to have a usable card again and again: no abandoned order and no  *)
(* leaked use blocks it for good (TaskStale, amzShouldWarmNext).           *)
CardReturns == []<>(Usable(cur) \/ Usable(next))

-----------------------------------------------------------------------------
=============================================================================
