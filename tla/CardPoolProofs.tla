--------------------------- MODULE CardPoolProofs ---------------------------
(***************************************************************************)
(* What TLAPS proves of CardPool, for any sets of sessions, goroutines and *)
(* cards and any number of payments per card.  In the behaviours of        *)
(* MCCardPoolPaid in which an answer is stored only where its order is     *)
(* found, no card pays too often and the pool implements CardLedger.       *)
(***************************************************************************)
EXTENDS MCCardPoolPaid, FiniteSetTheorems, TLAPS

-----------------------------------------------------------------------------
(* What the helpers make of a slot is a slot.                              *)
LEMMA EmptyIsSlot == Empty \in Slot
BY CardPoolAssumption DEF Empty, Slot

LEMMA NewSlots ==
    ASSUME NEW c \in Cards
    PROVE  Ordered(c) \in Slot /\ Opened(c) \in Slot
BY CardPoolAssumption DEF Ordered, Opened, Slot

LEMMA SlotFields ==
    ASSUME NEW s \in Slot
    PROVE  /\ s.card \in Cards \cup {NoCard}
           /\ s.state # "empty" => s.card \in Cards
           /\ s.pays \in 0..MaxPays /\ s.inUse \in 0..MaxPays /\ s.inUse <= s.pays
           /\ s.state # "ready" => s.pays = 0
BY DEF Slot

(* Counting a slot up or down leaves its card alone.                       *)
LEMMA Recount ==
    ASSUME NEW s \in Slot, s.state = "ready",
           NEW m \in 0..MaxPays, NEW n \in 0..MaxPays, n <= m,
           NEW t, t = [s EXCEPT !.pays = m, !.inUse = n]
    PROVE  t \in Slot
<1> DEFINE R == [state : {"empty", "ordered", "stale", "ready"}, card : Cards \cup {NoCard},
                 pays : 0..MaxPays, inUse : 0..MaxPays]
<1>1. s \in R /\ (s.state = "empty" <=> s.card = NoCard)
  BY DEF Slot
<1>2. t \in R
  BY <1>1, Zenon
<1>3. t.state = s.state /\ t.card = s.card /\ t.pays = m /\ t.inUse = n
  BY <1>1
<1> QED
  BY <1>1, <1>2, <1>3 DEF Slot

LEMMA ReservedIsSlot ==
    ASSUME NEW s \in Slot, Usable(s)
    PROVE  /\ Reserved(s) \in Slot
           /\ Reserved(s).card = s.card /\ Reserved(s).state = "ready"
<1>1. /\ s.state = "ready" /\ s.pays < MaxPays
      /\ s.pays \in 0..MaxPays /\ s.inUse \in 0..MaxPays /\ s.inUse <= s.pays
  BY SlotFields, CardPoolAssumption DEF Usable, Exhausted
<1>2. Reserved(s) = [s EXCEPT !.pays = s.pays + 1, !.inUse = s.inUse + 1]
  BY DEF Reserved
<1>3. s.pays + 1 \in 0..MaxPays /\ s.inUse + 1 \in 0..MaxPays /\ s.inUse + 1 <= s.pays + 1
  BY <1>1, CardPoolAssumption
<1>4. Reserved(s) \in Slot
  <2> DEFINE m == s.pays + 1
             n == s.inUse + 1
  <2>1. Reserved(s) = [s EXCEPT !.pays = m, !.inUse = n]
    BY <1>2
  <2>2. m \in 0..MaxPays /\ n \in 0..MaxPays /\ n <= m
    BY <1>3
  <2> HIDE DEF m, n
  <2> QED
    BY <1>1, <2>1, <2>2, Recount
<1>5. Reserved(s).card = s.card /\ Reserved(s).state = s.state
  BY DEF Reserved, Slot
<1> QED
  BY <1>1, <1>4, <1>5

LEMMA AppliedIsSlot ==
    ASSUME NEW s \in Slot, s.state = "ready", NEW result
    PROVE  /\ Applied(s, result) \in Slot
           /\ Applied(s, result).card = s.card /\ Applied(s, result).state = "ready"
           /\ Applied(s, result).inUse >= s.inUse - 1
<1> DEFINE n == IF s.inUse > 0 THEN s.inUse - 1 ELSE s.inUse
           m == IF result = "unpaid" /\ s.pays > 0 THEN s.pays - 1 ELSE s.pays
<1>1. s.pays \in 0..MaxPays /\ s.inUse \in 0..MaxPays /\ s.inUse <= s.pays
  BY SlotFields
<1>2. Applied(s, result) = [s EXCEPT !.inUse = n, !.pays = m]
  BY DEF Applied
<1>3. m \in 0..MaxPays /\ n \in 0..MaxPays /\ n <= m /\ n >= s.inUse - 1
  BY <1>1, CardPoolAssumption
<1>4. Applied(s, result) = [s EXCEPT !.pays = m, !.inUse = n]
  BY <1>2 DEF Slot
<1> HIDE DEF m, n
<1>5. Applied(s, result) \in Slot
  BY <1>3, <1>4, Recount
<1>6. /\ Applied(s, result).card = s.card /\ Applied(s, result).state = s.state
      /\ Applied(s, result).inUse = n
  BY <1>4 DEF Slot
<1> QED
  BY <1>3, <1>5, <1>6

LEMMA StaleIsSlot ==
    ASSUME NEW s \in Slot
    PROVE  /\ Stale(s) \in Slot
           /\ Stale(s).card = s.card /\ Stale(s).inUse = s.inUse
<1>1. CASE ~Fresh(s)
  BY <1>1 DEF Stale
<1>2. CASE Fresh(s)
  <2>1. Stale(s) = [s EXCEPT !.state = "stale"]
    BY <1>2 DEF Stale
  <2>2. s.card \in Cards /\ s.pays = 0
    BY <1>2, SlotFields DEF Fresh
  <2>3. /\ Stale(s).card = s.card /\ Stale(s).inUse = s.inUse
        /\ Stale(s).pays = s.pays /\ Stale(s).state = "stale"
    BY <2>1 DEF Slot
  <2>4. Stale(s) \in [state : {"empty", "ordered", "stale", "ready"}, card : Cards \cup {NoCard},
                      pays : 0..MaxPays, inUse : 0..MaxPays]
    BY <2>1 DEF Slot
  <2>5. s.inUse <= s.pays
    BY SlotFields
  <2> QED
    BY <2>2, <2>3, <2>4, <2>5, CardPoolAssumption DEF Slot
<1> QED
  BY <1>1, <1>2

LEMMA NewTaskType ==
    ASSUME ~(Cards \subseteq Known)
    PROVE  NewTask \in Cards /\ NewTask \notin Known
BY DEF NewTask

(* The places a process can be put.                                        *)
LEMMA IdleIsPlace == Idle \in Place
BY DEF Idle, Place

LEMMA WaitIsPlace ==
    ASSUME NEW c \in Cards, NEW n \in BOOLEAN, NEW o \in BOOLEAN, NEW r \in BOOLEAN
    PROVE  /\ Wait(c, n, o, r) \in Place
           /\ Wait(c, n, o, r).pc = "waiting" /\ Wait(c, n, o, r).card = c
BY DEF Wait, Place

(* One process moves.                                                      *)
Places(f) ==
    /\ f \in [Processes -> Place]
    /\ \A p \in Processes : f[p].pc \in {"waiting", "paying"} => f[p].card \in Cards

LEMMA Move ==
    ASSUME NEW f, Places(f), NEW p \in Processes, NEW q \in Place,
           q.pc \in {"waiting", "paying"} => q.card \in Cards
    PROVE  Places([f EXCEPT ![p] = q])
BY DEF Places

LEMMA MoveToWait ==
    ASSUME Places(at), NEW p \in Processes,
           NEW c \in Cards, NEW n \in BOOLEAN, NEW o \in BOOLEAN, NEW r \in BOOLEAN
    PROVE  Places([at EXCEPT ![p] = Wait(c, n, o, r)])
<1> DEFINE q == Wait(c, n, o, r)
<1>1. q \in Place /\ q.card \in Cards
  BY WaitIsPlace
<1> HIDE DEF q
<1>2. Places([at EXCEPT ![p] = q])
  BY <1>1, Move
<1> QED
  BY <1>2 DEF q

LEMMA TypeParts ==
    TypeOK <=> cur \in Slot /\ next \in Slot /\ recent \in BOOLEAN /\ Places(at)
BY DEF TypeOK, Places

LEMMA TypePartsNext ==
    TypeOK' <=> cur' \in Slot /\ next' \in Slot /\ recent' \in BOOLEAN /\ Places(at')
BY DEF TypeOK, Places

-----------------------------------------------------------------------------
(* The two halves of a checkout keep the types.                            *)
LEMMA ReserveType ==
    ASSUME TypeOK, NEW w \in Processes, NEW c \in Slot, NEW n \in Slot,
           NEW again \in BOOLEAN, ReserveFrom(w, c, n, again)
    PROVE  cur' \in Slot /\ next' \in Slot /\ Places(at')
<1> DEFINE q(s) == [Idle EXCEPT !.pc = "paying", !.card = s.card, !.again = again]
<1>1. ASSUME NEW s \in Slot, Usable(s)
      PROVE  Reserved(s) \in Slot /\ q(s) \in Place /\ q(s).card \in Cards
  <2>1. s.card \in Cards
    BY <1>1, SlotFields DEF Usable
  <2> QED
    BY <1>1, <2>1, ReservedIsSlot DEF Idle, Place
<1>2. Places(at)
  BY TypeParts
<1>3. \A s \in Slot : Usable(s) => Places([at EXCEPT ![w] = q(s)])
  BY <1>1, <1>2, Move
<1>4. CASE Usable(c)
  BY <1>1, <1>3, <1>4 DEF ReserveFrom
<1>5. CASE ~Usable(c)
  BY <1>1, <1>3, <1>5 DEF ReserveFrom
<1> QED
  BY <1>4, <1>5

LEMMA BeginType ==
    ASSUME TypeOK, NEW p \in Processes, NEW c \in Slot, NEW n \in Slot,
           NEW e \in BOOLEAN, NEW again \in BOOLEAN,
           NEW failed \in Place, failed.pc \notin {"waiting", "paying"},
           Begin(p, c, n, e, again, failed)
    PROVE  TypeOK'
<1>1. Places(at)
  BY TypeParts
<1>2. CASE Join(p, c, n, e, again)
  <2>1. Fresh(c) => c.card \in Cards
    BY SlotFields DEF Fresh
  <2>2. Fresh(n) => n.card \in Cards
    BY SlotFields DEF Fresh
  <2>3. \A x \in Cards, b \in BOOLEAN : Places([at EXCEPT ![p] = Wait(x, b, FALSE, again)])
    BY <1>1, MoveToWait, Zenon
  <2>4. Places(at')
    BY <1>2, <2>1, <2>2, <2>3 DEF Join, OnItsWay
  <2> QED
    BY <1>2, <2>4, TypePartsNext DEF Join
<1>3. CASE Order(p, c, n, e, again)
  <2>1. NewTask \in Cards
    BY <1>3, NewTaskType DEF Order
  <2>2. Ordered(NewTask) \in Slot
    BY <2>1, NewSlots
  <2>3. \A b \in BOOLEAN : Places([at EXCEPT ![p] = Wait(NewTask, b, TRUE, again)])
    BY <1>1, <2>1, MoveToWait, Zenon
  <2> DEFINE b == c.state = "ready" /\ ~Dropped(c)
  <2>4. b \in BOOLEAN
    OBVIOUS
  <2>5. /\ at' = [at EXCEPT ![p] = Wait(NewTask, b, TRUE, again)]
        /\ cur' = IF b THEN c ELSE Ordered(NewTask)
        /\ next' = IF b THEN Ordered(NewTask) ELSE n
        /\ recent' = (b /\ e)
    BY <1>3 DEF Order
  <2> HIDE DEF b
  <2>6. Places(at')
    BY <2>3, <2>4, <2>5
  <2>7. cur' \in Slot /\ next' \in Slot
    BY <2>2, <2>4, <2>5
  <2>8. recent' \in BOOLEAN
    BY <2>5
  <2> QED
    BY <2>6, <2>7, <2>8, TypePartsNext
<1>4. CASE OrderFails(p, c, n, e, failed)
  <2>1. Places(at')
    BY <1>1, <1>4, Move DEF OrderFails
  <2>2. cur' \in Slot /\ next' \in Slot /\ recent' \in BOOLEAN
    BY <1>4, EmptyIsSlot DEF OrderFails
  <2> QED
    BY <2>1, <2>2, TypePartsNext
<1> QED
  BY <1>2, <1>3, <1>4 DEF Begin

LEMMA CheckoutType ==
    ASSUME TypeOK, NEW w \in Processes, NEW c \in Slot, NEW n \in Slot,
           NEW e \in BOOLEAN, NEW again \in BOOLEAN, CheckoutFrom(w, c, n, e, again)
    PROVE  TypeOK'
<1>1. CASE ReserveFrom(w, c, n, again) /\ recent' = e
  BY <1>1, ReserveType, TypePartsNext
<1>2. CASE Begin(w, c, n, e, again, Idle)
  <2>1. Idle.pc = "idle"
    BY DEF Idle
  <2> QED
    BY <1>2, <2>1, IdleIsPlace, BeginType
<1> QED
  BY <1>1, <1>2 DEF CheckoutFrom

(* The end of a wait, and a release.                                       *)
LEMMA CreateDoneType ==
    ASSUME TypeOK, NEW p \in Processes, CreateDone(p)
    PROVE  TypeOK'
<1> DEFINE c == at[p].card
<1>1. /\ Places(at) /\ cur \in Slot /\ next \in Slot /\ recent \in BOOLEAN
      /\ c \in Cards /\ at[p] \in Place
  BY TypeParts DEF Places, CreateDone
<1>2. Finished(p) \in Place /\ Finished(p).pc \in {"idle", "ready"}
  BY <1>1 DEF Finished, Idle, Place
<1>3. Places(at')
  <2>1. at' = [at EXCEPT ![p] = Finished(p)]
    BY DEF CreateDone
  <2> QED
    BY <1>1, <1>2, <2>1, Move
<1>4. Opened(c) \in Slot
  BY <1>1, NewSlots
<1>5. [Opened(c) EXCEPT !.pays = cur.pays, !.inUse = cur.inUse] \in Slot
  <2>1. Opened(c).state = "ready"
    BY DEF Opened
  <2>2. cur.pays \in 0..MaxPays /\ cur.inUse \in 0..MaxPays /\ cur.inUse <= cur.pays
    BY <1>1, SlotFields
  <2> QED
    BY <1>4, <2>1, <2>2, Recount
<1>6. cur' \in Slot /\ next' \in Slot /\ recent' \in BOOLEAN
  <2>1. CASE at[p].asNext
    BY <1>1, <1>4, <2>1 DEF CreateDone
  <2>2. CASE ~at[p].asNext /\ Other(cur, c)
    BY <1>1, <2>2 DEF CreateDone, store
  <2>3. CASE ~at[p].asNext /\ ~Other(cur, c)
    BY <1>1, <1>5, <2>3 DEF CreateDone
  <2> QED
    BY <2>1, <2>2, <2>3
<1> QED
  BY <1>3, <1>6, TypePartsNext

LEMMA RecycleType ==
    ASSUME NEW c \in Slot, NEW n \in Slot, recent \in BOOLEAN, Recycle(c, n)
    PROVE  cur' \in Slot /\ next' \in Slot /\ recent' \in BOOLEAN
BY EmptyIsSlot DEF Recycle

LEMMA ReleaseType ==
    ASSUME TypeOK, NEW c, NEW result, ReleaseCard(c, result)
    PROVE  cur' \in Slot /\ next' \in Slot /\ recent' \in BOOLEAN
<1>1. cur \in Slot /\ next \in Slot /\ recent \in BOOLEAN
  BY TypeParts
<1>2. CASE cur.state = "ready" /\ Recycle(Applied(cur, result), next)
  <2>1. Applied(cur, result) \in Slot
    BY <1>1, <1>2, AppliedIsSlot
  <2> QED
    BY <1>1, <1>2, <2>1, RecycleType
<1>3. CASE next.state = "ready" /\ Recycle(cur, Applied(next, result))
  <2>1. Applied(next, result) \in Slot
    BY <1>1, <1>3, AppliedIsSlot
  <2> QED
    BY <1>1, <1>3, <2>1, RecycleType
<1>4. CASE UNCHANGED store
  BY <1>1, <1>4 DEF store
<1> QED
  BY <1>2, <1>3, <1>4 DEF ReleaseCard

-----------------------------------------------------------------------------
(* Every action keeps the types: they are inductive as they stand.         *)
LEMMA TypeStep ==
    TypeOK /\ [Next]_vars => TypeOK'
<1> SUFFICES ASSUME TypeOK, [Next]_vars PROVE TypeOK'
  OBVIOUS
<1>1. cur \in Slot /\ next \in Slot /\ recent \in BOOLEAN /\ Places(at)
  BY TypeParts
<1>2. \A p \in Processes : Places([at EXCEPT ![p] = Idle])
  <2>1. Idle.pc = "idle"
    BY DEF Idle
  <2> QED
    BY <1>1, <2>1, IdleIsPlace, Move
<1>3. ASSUME NEW w \in Sessions, Checkout(w) PROVE TypeOK'
  BY <1>1, <1>3, CheckoutType DEF Checkout, Processes
<1>4. ASSUME NEW w \in Sessions, Replace(w) PROVE TypeOK'
  BY <1>1, <1>4, EmptyIsSlot, CheckoutType DEF Replace, Processes
<1>5. ASSUME NEW w \in Sessions, CheckoutReady(w) PROVE TypeOK'
  <2>1. recent' = recent
    BY <1>5 DEF CheckoutReady
  <2>2. CASE ReserveFrom(w, cur, next, at[w].again)
    <3>1. at[w].again \in BOOLEAN
      BY <1>1 DEF Places, Place, Processes
    <3>2. cur' \in Slot /\ next' \in Slot /\ Places(at')
      BY <1>1, <2>2, <3>1, ReserveType DEF Processes
    <3> QED
      BY <1>1, <2>1, <3>2, TypePartsNext
  <2>3. CASE at' = [at EXCEPT ![w] = Idle] /\ UNCHANGED <<cur, next>>
    BY <1>1, <1>2, <2>1, <2>3, TypePartsNext DEF Processes
  <2> QED
    BY <1>5, <2>2, <2>3 DEF CheckoutReady
<1>6. ASSUME NEW w \in Sessions, Vanish(w) PROVE TypeOK'
  BY <1>1, <1>2, <1>6, TypePartsNext DEF Vanish, store, Processes
<1>7. ASSUME NEW w \in Sessions, NEW result \in Results, Settle(w, result) PROVE TypeOK'
  <2>1. cur' \in Slot /\ next' \in Slot /\ recent' \in BOOLEAN
    BY <1>7, ReleaseType DEF Settle
  <2> DEFINE q == [Idle EXCEPT !.pc = "rejected"]
  <2>2. q \in Place /\ q.pc = "rejected"
    BY DEF Idle, Place
  <2>3. at' = [at EXCEPT ![w] = q] \/ at' = [at EXCEPT ![w] = Idle]
    BY <1>7, Zenon DEF Settle
  <2> HIDE DEF q
  <2>4. Places([at EXCEPT ![w] = q])
    BY <1>1, <2>2, Move DEF Processes
  <2>5. Places(at')
    BY <1>2, <2>3, <2>4 DEF Processes
  <2> QED
    BY <2>1, <2>5, TypePartsNext
<1>8. ASSUME NEW x \in Warmers, Warm(x) PROVE TypeOK'
  <2> DEFINE q == [Idle EXCEPT !.pc = "failed"]
  <2>1. q \in Place /\ q.pc \notin {"waiting", "paying"}
    BY DEF Idle, Place
  <2>2. Begin(x, cur, next, recent, FALSE, q)
    BY <1>8, Zenon DEF Warm
  <2> HIDE DEF q
  <2> QED
    BY <1>1, <2>1, <2>2, BeginType DEF Processes
<1>9. ASSUME NEW x \in Warmers, RememberError(x) PROVE TypeOK'
  BY <1>1, <1>2, <1>9, TypePartsNext DEF RememberError, Processes
<1>10. ASSUME NEW p \in Processes, CreateFails(p) PROVE TypeOK'
  <2>1. cur' \in Slot /\ next' \in Slot /\ recent' \in BOOLEAN
    BY <1>1, <1>10, EmptyIsSlot DEF CreateFails, store
  <2>2. Places(at')
    BY <1>2, <1>10 DEF CreateFails
  <2> QED
    BY <2>1, <2>2, TypePartsNext
<1>11. ASSUME NEW p \in Processes, CreateUseless(p) PROVE TypeOK'
  BY <1>1, <1>2, <1>11, TypePartsNext DEF CreateUseless, store
<1>12. CASE GrowStale
  BY <1>1, <1>12, StaleIsSlot, TypePartsNext DEF GrowStale
<1>13. CASE ErrorAges
  BY <1>1, <1>13, TypePartsNext DEF ErrorAges
<1>14. CASE Clear
  BY <1>1, <1>14, EmptyIsSlot, TypePartsNext DEF Clear
<1>15. CASE Restart
  <2>1. Idle.pc = "idle"
    BY DEF Idle
  <2>2. Places(at')
    BY <1>15, <2>1, IdleIsPlace DEF Restart, Places
  <2> QED
    BY <1>1, <1>15, <2>2, TypePartsNext DEF Restart, store
<1>16. CASE UNCHANGED vars
  BY <1>1, <1>16, TypePartsNext DEF vars
<1> QED
  BY <1>3, <1>4, <1>5, <1>6, <1>7, <1>8, <1>9, <1>10, <1>11, <1>12, <1>13, <1>14, <1>15,
     <1>16, CreateDoneType
  DEF Next, PoolNext, SessionNext, WarmerNext, CreateNext

(* No card, prepared or in use, is counted for more payments or uses than  *)
(* it may have, and no pending one is counted at all, for any number of    *)
(* sessions and goroutines (tryReserveReadyLocked, releaseAmzKeysCard,     *)
(* finishAmzKeysCreate).                                                   *)
THEOREM TypeCorrect == Spec => []TypeOK
<1>1. Init => TypeOK
  <2>1. Idle.pc = "idle"
    BY DEF Idle
  <2> QED
    BY <2>1, EmptyIsSlot, IdleIsPlace DEF Init, TypeOK
<1> QED
  BY <1>1, TypeStep, PTL DEF Spec

-----------------------------------------------------------------------------
(* Orders: only Order makes one that was not there before.                 *)
Kept(s) == s.state \in {"ordered", "stale"} => s.card \in {cur.card, next.card}

OrderIsNeeded ==
    (Orders' \ {cur.card, next.card} # {})
    => ~HasStock \/ \E w \in Sessions : at[w].pc = "rejected" /\ at'[w].pc = "waiting"

LEMMA AllKept ==
    ASSUME NEW c, NEW n, cur' = c, next' = n, Kept(c), Kept(n)
    PROVE  OrderIsNeeded
BY DEF Orders, Kept, OrderIsNeeded

LEMMA KnownSlots == Kept(cur) /\ Kept(next) /\ Kept(Empty)
BY DEF Kept, Empty

LEMMA ReadyIsKept == \A s : s.state = "ready" => Kept(s)
BY DEF Kept

LEMMA StockLeft ==
    ASSUME ~Usable(cur), ~Usable(next), ~OnItsWay(cur, next)
    PROVE  ~HasStock
BY DEF HasStock, InStock, OnItsWay

LEMMA ReserveKeeps ==
    ASSUME NEW w, NEW c \in Slot, NEW n \in Slot, NEW again, Kept(c), Kept(n),
           ReserveFrom(w, c, n, again)
    PROVE  OrderIsNeeded
<1>1. CASE Usable(c)
  <2>1. Kept(Reserved(c))
    BY <1>1, ReservedIsSlot, ReadyIsKept
  <2> QED
    BY <1>1, <2>1, AllKept DEF ReserveFrom
<1>2. CASE ~Usable(c) /\ Usable(n)
  <2>1. Kept(Reserved(n))
    BY <1>2, ReservedIsSlot, ReadyIsKept
  <2> QED
    BY <1>2, <2>1, AllKept DEF ReserveFrom
<1> QED
  BY <1>1, <1>2 DEF ReserveFrom

LEMMA BeginKeeps ==
    ASSUME NEW p, NEW c, NEW n, NEW e, NEW again, NEW failed, Kept(c), Kept(n),
           Begin(p, c, n, e, again, failed), ~Order(p, c, n, e, again)
    PROVE  OrderIsNeeded
<1>1. CASE Join(p, c, n, e, again)
  BY <1>1, AllKept DEF Join
<1>2. CASE OrderFails(p, c, n, e, failed)
  <2>1. cur' \in {c, Empty} /\ next' = n
    BY <1>2 DEF OrderFails
  <2> QED
    BY <2>1, KnownSlots, AllKept
<1> QED
  BY <1>1, <1>2 DEF Begin

LEMMA BeginIsNeeded ==
    ASSUME NEW p, NEW e, NEW again, NEW failed, Begin(p, cur, next, e, again, failed)
    PROVE  OrderIsNeeded
<1>1. CASE Order(p, cur, next, e, again)
  <2>1. ~HasStock
    BY <1>1, StockLeft DEF Begin, Order
  <2> QED
    BY <2>1 DEF OrderIsNeeded
<1>2. CASE ~Order(p, cur, next, e, again)
  BY <1>2, KnownSlots, BeginKeeps
<1> QED
  BY <1>1, <1>2

LEMMA ReleaseKeeps ==
    ASSUME TypeOK, NEW c, NEW result, ReleaseCard(c, result)
    PROVE  OrderIsNeeded
<1>1. cur \in Slot /\ next \in Slot
  BY TypeParts
<1>2. ASSUME NEW x, NEW y, Kept(x), Kept(y), Recycle(x, y) PROVE OrderIsNeeded
  <2>1. cur' \in {x, y, Empty} /\ next' \in {y, Empty}
    BY <1>2 DEF Recycle
  <2> QED
    BY <1>2, <2>1, KnownSlots, AllKept
<1>3. CASE cur.state = "ready" /\ Recycle(Applied(cur, result), next)
  BY <1>1, <1>2, <1>3, AppliedIsSlot, KnownSlots, ReadyIsKept
<1>4. CASE next.state = "ready" /\ Recycle(cur, Applied(next, result))
  BY <1>1, <1>2, <1>4, AppliedIsSlot, KnownSlots, ReadyIsKept
<1>5. CASE UNCHANGED store
  BY <1>5, KnownSlots, AllKept DEF store
<1> QED
  BY <1>3, <1>4, <1>5 DEF ReleaseCard

LEMMA CreateDoneKeeps ==
    ASSUME NEW p, CreateDone(p)
    PROVE  OrderIsNeeded
<1> DEFINE c == at[p].card
           k == [Opened(c) EXCEPT !.pays = cur.pays, !.inUse = cur.inUse]
<1>1. Opened(c).state = "ready" /\ k.state = "ready"
  BY DEF Opened
<1>2. \/ cur' = cur /\ next' \in {next, Opened(c)}
      \/ cur' = k /\ next' = next
  BY Zenon DEF CreateDone, store
<1> HIDE DEF c, k
<1> QED
  BY <1>1, <1>2, KnownSlots, ReadyIsKept, AllKept

LEMMA OrderStep ==
    TypeOK /\ [Next]_vars => OrderIsNeeded
<1> SUFFICES ASSUME TypeOK, [Next]_vars PROVE OrderIsNeeded
  OBVIOUS
<1>1. cur \in Slot /\ next \in Slot /\ Empty \in Slot /\ Places(at)
  BY TypeParts, EmptyIsSlot
<1>2. UNCHANGED <<cur, next>> => OrderIsNeeded
  BY KnownSlots, AllKept
<1>3. ASSUME NEW w \in Sessions, Checkout(w) PROVE OrderIsNeeded
  BY <1>1, <1>3, KnownSlots, ReserveKeeps, BeginIsNeeded DEF Checkout, CheckoutFrom
<1>4. ASSUME NEW w \in Sessions, Replace(w) PROVE OrderIsNeeded
  <2>1. CASE ReserveFrom(w, next, Empty, TRUE)
    BY <1>1, <2>1, KnownSlots, ReserveKeeps
  <2>2. CASE Begin(w, next, Empty, FALSE, TRUE, Idle)
    <3>1. CASE Order(w, next, Empty, FALSE, TRUE)
      <4> DEFINE b == next.state = "ready" /\ ~Dropped(next)
      <4>1. at' = [at EXCEPT ![w] = Wait(NewTask, b, TRUE, TRUE)]
        BY <3>1 DEF Order
      <4>2. at'[w].pc = "waiting"
        BY <1>1, <4>1 DEF Places, Processes, Wait
      <4> QED
        BY <1>4, <4>2 DEF Replace, OrderIsNeeded
    <3>2. CASE ~Order(w, next, Empty, FALSE, TRUE)
      BY <2>2, <3>2, KnownSlots, BeginKeeps
    <3> QED
      BY <3>1, <3>2
  <2> QED
    BY <1>4, <2>1, <2>2 DEF Replace, CheckoutFrom
<1>5. ASSUME NEW w \in Sessions, CheckoutReady(w) PROVE OrderIsNeeded
  BY <1>1, <1>2, <1>5, KnownSlots, ReserveKeeps DEF CheckoutReady
<1>6. ASSUME NEW w \in Sessions, NEW result \in Results, Settle(w, result) PROVE OrderIsNeeded
  BY <1>6, ReleaseKeeps DEF Settle
<1>7. ASSUME NEW x \in Warmers, Warm(x) PROVE OrderIsNeeded
  <2> DEFINE q == [Idle EXCEPT !.pc = "failed"]
  <2>1. Begin(x, cur, next, recent, FALSE, q)
    BY <1>7, Zenon DEF Warm
  <2> HIDE DEF q
  <2> QED
    BY <2>1, BeginIsNeeded
<1>8. ASSUME NEW p \in Processes, CreateFails(p) PROVE OrderIsNeeded
  <2>1. cur' \in {cur, Empty} /\ next' \in {next, Empty}
    BY <1>8 DEF CreateFails, store
  <2> QED
    BY <2>1, KnownSlots, AllKept
<1>9. CASE GrowStale
  <2>1. Kept(Stale(cur)) /\ Kept(Stale(next))
    BY <1>1, StaleIsSlot DEF Kept
  <2> QED
    BY <1>9, <2>1, AllKept DEF GrowStale
<1>10. CASE Clear
  BY <1>10, KnownSlots, AllKept DEF Clear
<1>11. ASSUME NEW w \in Sessions, Vanish(w) PROVE OrderIsNeeded
  BY <1>2, <1>11 DEF Vanish, store
<1>12. ASSUME NEW x \in Warmers, RememberError(x) PROVE OrderIsNeeded
  BY <1>2, <1>12 DEF RememberError
<1>13. ASSUME NEW p \in Processes, CreateUseless(p) PROVE OrderIsNeeded
  BY <1>2, <1>13 DEF CreateUseless, store
<1>14. CASE ErrorAges \/ Restart \/ UNCHANGED vars
  BY <1>2, <1>14 DEF ErrorAges, Restart, store, vars
<1> QED
  BY <1>3, <1>4, <1>5, <1>6, <1>7, <1>8, <1>9, <1>10, <1>11, <1>12, <1>13, <1>14,
     CreateDoneKeeps
  DEF Next, PoolNext, SessionNext, WarmerNext, CreateNext

(* No card is ordered while another can still be used or is on its way,    *)
(* except to replace a rejected one, for any number of sessions and        *)
(* goroutines (beginAmzKeysCreateLocked and its callers).                  *)
THEOREM OneOrderAtATime == Spec => NoSecondCard
<1>1. TypeOK /\ [Next]_vars
      => [(Orders' \ {cur.card, next.card} # {})
          => ~HasStock \/ \E w \in Sessions : at[w].pc = "rejected" /\ at'[w].pc = "waiting"]_vars
  BY OrderStep DEF OrderIsNeeded
<1> QED
  BY <1>1, TypeCorrect, PTL DEF Spec, NoSecondCard

-----------------------------------------------------------------------------
(* Used cards: what a step may do to a ready card that is in use.          *)
UseIsKept ==
    \A s \in {cur, next} :
        /\ s.state = "ready" /\ s.inUse > Cardinality(Ending(s.card))
        /\ s.card \notin {cur.card, next.card}'
        => \/ \E w \in Sessions : at[w].pc = "rejected" /\ at'[w].pc # "rejected"
           \/ at' = at
           \/ Exhausted(s) /\ next = s /\ next.state' = "ordered"

(* A step of one process ends at most one use.                             *)
LEMMA EndingOfOne ==
    ASSUME Places(at), NEW p \in Processes, NEW q, at' = [at EXCEPT ![p] = q], NEW c
    PROVE  /\ Cardinality(Ending(c)) \in {0, 1}
           /\ p \in Sessions /\ at[p].pc = "paying" /\ at[p].card = c /\ q.pc # "paying"
              => Cardinality(Ending(c)) = 1
<1>1. \A w \in Processes : w # p => at'[w] = at[w]
  BY DEF Places
<1>2. at'[p] = q
  BY DEF Places
<1>3. Ending(c) \subseteq {p}
  BY <1>1 DEF Ending, Processes
<1>4. Ending(c) = {} \/ Ending(c) = {p}
  BY <1>3
<1>5. Cardinality({}) = 0 /\ Cardinality({p}) = 1
  BY FS_EmptySet, FS_Singleton
<1>6. p \in Sessions /\ at[p].pc = "paying" /\ at[p].card = c /\ q.pc # "paying"
      => p \in Ending(c)
  BY <1>2 DEF Ending
<1> QED
  BY <1>4, <1>5, <1>6

(* A slot that is dropped unused, or keeps its card, loses no use.         *)
LEMMA NotLost ==
    ASSUME NEW c \in Slot, NEW n \in Slot, cur = c, next = n,
           \A x : Cardinality(Ending(x)) \in {0, 1},
           \A s \in {cur, next} : \/ s.card \in {cur.card, next.card}'
                                   \/ s.state # "ready"
                                   \/ s.inUse = 0
                                   \/ s.inUse <= Cardinality(Ending(s.card))
    PROVE  UseIsKept
<1> SUFFICES ASSUME NEW s \in {cur, next}, s.state = "ready",
                    s.inUse > Cardinality(Ending(s.card)),
                    s.card \notin {cur.card, next.card}'
             PROVE  FALSE
  BY DEF UseIsKept
<1>1. s.inUse \in Nat
  BY SlotFields
<1>2. Cardinality(Ending(s.card)) \in {0, 1}
  OBVIOUS
<1> HIDE DEF Ending
<1> QED
  BY <1>1, <1>2

LEMMA UseReserve ==
    ASSUME TypeOK, NEW w \in Processes, NEW again, ReserveFrom(w, cur, next, again)
    PROVE  UseIsKept
<1>1. cur \in Slot /\ next \in Slot
  BY TypeParts
<1>2. CASE Usable(cur)
  BY <1>1, <1>2, ReservedIsSlot DEF ReserveFrom, UseIsKept
<1>3. CASE ~Usable(cur) /\ Usable(next)
  BY <1>1, <1>3, ReservedIsSlot DEF ReserveFrom, UseIsKept
<1> QED
  BY <1>2, <1>3 DEF ReserveFrom

LEMMA UseBegin ==
    ASSUME TypeOK, NEW p \in Processes, NEW e, NEW again, NEW failed,
           Begin(p, cur, next, e, again, failed)
    PROVE  UseIsKept
<1>1. cur \in Slot /\ next \in Slot /\ Places(at)
  BY TypeParts
<1>2. PICK q : at' = [at EXCEPT ![p] = q]
  BY Zenon DEF Begin, Join, Order, OrderFails
<1>3. \A x : Cardinality(Ending(x)) \in {0, 1}
  BY <1>1, <1>2, EndingOfOne
<1>4. CASE Join(p, cur, next, e, again)
  BY <1>4 DEF Join, UseIsKept
<1>5. CASE Order(p, cur, next, e, again)
  <2>1. CASE cur.state = "ready" /\ ~Dropped(cur)
    <3>1. cur' = cur /\ next' = Ordered(NewTask)
      BY <1>5, <2>1 DEF Order
    <3>2. next.state' = "ordered"
      BY <3>1 DEF Ordered
    <3>3. next.state = "ready" => Exhausted(next)
      BY DEF Begin, Usable
    <3> QED
      BY <3>1, <3>2, <3>3 DEF UseIsKept
  <2>2. CASE ~(cur.state = "ready" /\ ~Dropped(cur))
    <3>1. next' = next
      BY <1>5, <2>2 DEF Order
    <3>2. cur.state # "ready" \/ cur.inUse = 0
      BY <2>2 DEF Dropped
    <3> QED
      BY <1>1, <1>3, <3>1, <3>2, NotLost
  <2> QED
    BY <2>1, <2>2
<1>6. CASE OrderFails(p, cur, next, e, failed)
  <2>1. next' = next /\ (cur' = cur \/ cur.inUse = 0)
    BY <1>6 DEF OrderFails, Dropped
  <2> QED
    BY <1>1, <1>3, <2>1, NotLost
<1> QED
  BY <1>4, <1>5, <1>6 DEF Begin

LEMMA UseReplace ==
    ASSUME TypeOK, NEW w \in Sessions, Replace(w)
    PROVE  UseIsKept
<1>1. Places(at)
  BY TypeParts
<1>2. PICK q : at' = [at EXCEPT ![w] = q] /\ q.pc \in {"paying", "waiting", "idle"}
  <2>1. CASE ReserveFrom(w, next, Empty, TRUE)
    <3> DEFINE r(s) == [Idle EXCEPT !.pc = "paying", !.card = s.card, !.again = TRUE]
    <3>1. at' = [at EXCEPT ![w] = r(next)] \/ at' = [at EXCEPT ![w] = r(Empty)]
      BY <2>1, Zenon DEF ReserveFrom
    <3>2. \A s : r(s).pc = "paying"
      BY DEF Idle
    <3> HIDE DEF r
    <3> QED
      BY <3>1, <3>2
  <2>2. CASE Begin(w, next, Empty, FALSE, TRUE, Idle)
    <3>1. \A x, a, b : Wait(x, a, b, TRUE).pc = "waiting"
      BY DEF Wait
    <3>2. Idle.pc = "idle"
      BY DEF Idle
    <3>3. CASE Join(w, next, Empty, FALSE, TRUE)
      <4>1. \/ at' = [at EXCEPT ![w] = Wait(next.card, FALSE, FALSE, TRUE)]
            \/ at' = [at EXCEPT ![w] = Wait(Empty.card, TRUE, FALSE, TRUE)]
        BY <3>3, Zenon DEF Join
      <4> QED
        BY <3>1, <4>1
    <3>4. CASE Order(w, next, Empty, FALSE, TRUE)
      <4> DEFINE b == next.state = "ready" /\ ~Dropped(next)
      <4>1. at' = [at EXCEPT ![w] = Wait(NewTask, b, TRUE, TRUE)]
        BY <3>4 DEF Order
      <4> HIDE DEF b
      <4> QED
        BY <3>1, <4>1
    <3>5. CASE OrderFails(w, next, Empty, FALSE, Idle)
      BY <3>2, <3>5 DEF OrderFails
    <3> QED
      BY <2>2, <3>3, <3>4, <3>5 DEF Begin
  <2> QED
    BY <2>1, <2>2 DEF Replace, CheckoutFrom
<1>3. at'[w].pc # "rejected"
  BY <1>1, <1>2 DEF Places, Processes
<1> QED
  BY <1>3 DEF Replace, UseIsKept

LEMMA UseSettle ==
    ASSUME TypeOK, NEW w \in Sessions, NEW result, Settle(w, result)
    PROVE  UseIsKept
<1> DEFINE c == at[w].card
           r == [Idle EXCEPT !.pc = "rejected"]
<1>1. cur \in Slot /\ next \in Slot /\ Places(at) /\ w \in Processes
  BY TypeParts DEF Processes
<1>2. Idle.pc = "idle" /\ r.pc = "rejected"
  BY DEF Idle
<1>3. at' = [at EXCEPT ![w] = r] \/ at' = [at EXCEPT ![w] = Idle]
  BY Zenon DEF Settle
<1>4. PICK q : at' = [at EXCEPT ![w] = q] /\ q.pc # "paying"
  <2> HIDE DEF r
  <2> QED
    BY <1>2, <1>3
<1>5. /\ \A x : Cardinality(Ending(x)) \in {0, 1}
      /\ Cardinality(Ending(c)) = 1
  BY <1>1, <1>4, EndingOfOne DEF Settle
<1>6. ReleaseCard(c, result)
  BY DEF Settle
<1> HIDE DEF c, r
<1>7. CASE cur.card = c /\ cur.state = "ready" /\ Recycle(Applied(cur, result), next)
  <2> DEFINE m == Applied(cur, result)
  <2>1. m.card = cur.card /\ m.inUse >= cur.inUse - 1
    BY <1>1, <1>7, AppliedIsSlot
  <2> HIDE DEF m
  <2>2. /\ cur' = m \/ Recyclable(m)
        /\ \/ Recyclable(next)
           \/ next' = next \/ cur' = next
    BY <1>7 DEF Recycle, m
  <2>3. Recyclable(m) => cur.inUse <= 1
    BY <1>1, <2>1, SlotFields DEF Recyclable
  <2>4. cur.card \in {cur.card, next.card}' \/ cur.inUse <= Cardinality(Ending(cur.card))
    BY <1>5, <1>7, <2>1, <2>2, <2>3
  <2>5. next.card \in {cur.card, next.card}' \/ next.inUse = 0
    BY <2>2 DEF Recyclable
  <2> QED
    BY <1>1, <1>5, <2>4, <2>5, NotLost
<1>8. CASE next.card = c /\ next.state = "ready" /\ Recycle(cur, Applied(next, result))
  <2> DEFINE m == Applied(next, result)
  <2>1. m.card = next.card /\ m.inUse >= next.inUse - 1
    BY <1>1, <1>8, AppliedIsSlot
  <2> HIDE DEF m
  <2>2. /\ cur' = cur \/ Recyclable(cur)
        /\ \/ Recyclable(m)
           \/ next' = m \/ cur' = m
    BY <1>8 DEF Recycle, m
  <2>3. Recyclable(m) => next.inUse <= 1
    BY <1>1, <2>1, SlotFields DEF Recyclable
  <2>4. next.card \in {cur.card, next.card}' \/ next.inUse <= Cardinality(Ending(next.card))
    BY <1>5, <1>8, <2>1, <2>2, <2>3
  <2>5. cur.card \in {cur.card, next.card}' \/ cur.inUse = 0
    BY <2>2 DEF Recyclable
  <2> QED
    BY <1>1, <1>5, <2>4, <2>5, NotLost
<1>9. CASE UNCHANGED store
  BY <1>9 DEF store, UseIsKept
<1> QED
  BY <1>6, <1>7, <1>8, <1>9 DEF ReleaseCard

LEMMA UseCreateDone ==
    ASSUME NEW p, CreateDone(p)
    PROVE  UseIsKept
<1> DEFINE c == at[p].card
           k == [Opened(c) EXCEPT !.pays = cur.pays, !.inUse = cur.inUse]
<1>1. Opened(c).card = c /\ k.card = c
  BY DEF Opened
<1>2. \/ cur' = cur /\ next' = next
      \/ cur' = cur /\ next' = Opened(c) /\ ~Other(next, c)
      \/ cur' = k /\ next' = next /\ ~Other(cur, c)
  BY Zenon DEF CreateDone, store
<1> HIDE DEF c, k
<1> QED
  BY <1>1, <1>2 DEF Other, UseIsKept

LEMMA UseStep ==
    TypeOK /\ [Next]_vars => UseIsKept
<1> SUFFICES ASSUME TypeOK, [Next]_vars PROVE UseIsKept
  OBVIOUS
<1>1. cur \in Slot /\ next \in Slot /\ Places(at)
  BY TypeParts
<1>2. UNCHANGED <<cur, next>> => UseIsKept
  BY DEF UseIsKept
<1>3. ASSUME NEW w \in Sessions, Checkout(w) PROVE UseIsKept
  BY <1>3, UseReserve, UseBegin DEF Checkout, CheckoutFrom, Processes
<1>4. ASSUME NEW w \in Sessions, CheckoutReady(w) PROVE UseIsKept
  BY <1>2, <1>4, UseReserve DEF CheckoutReady, Processes
<1>5. ASSUME NEW x \in Warmers, Warm(x) PROVE UseIsKept
  <2> DEFINE q == [Idle EXCEPT !.pc = "failed"]
  <2>1. Begin(x, cur, next, recent, FALSE, q)
    BY <1>5, Zenon DEF Warm
  <2> HIDE DEF q
  <2> QED
    BY <2>1, UseBegin DEF Processes
<1>6. ASSUME NEW p \in Processes, CreateFails(p) PROVE UseIsKept
  <2>1. /\ cur' = cur \/ cur.state # "ready"
        /\ next' = next \/ next.state # "ready"
    BY <1>6 DEF CreateFails, store
  <2> QED
    BY <2>1 DEF UseIsKept
<1>7. CASE GrowStale
  BY <1>1, <1>7, StaleIsSlot DEF GrowStale, UseIsKept
<1>8. CASE Clear
  BY <1>8 DEF Clear, UseIsKept
<1>9. ASSUME NEW w \in Sessions, Vanish(w) PROVE UseIsKept
  BY <1>2, <1>9 DEF Vanish, store
<1>10. ASSUME NEW x \in Warmers, RememberError(x) PROVE UseIsKept
  BY <1>2, <1>10 DEF RememberError
<1>11. ASSUME NEW p \in Processes, CreateUseless(p) PROVE UseIsKept
  BY <1>2, <1>11 DEF CreateUseless, store
<1>12. CASE ErrorAges \/ Restart \/ UNCHANGED vars
  BY <1>2, <1>12 DEF ErrorAges, Restart, store, vars
<1> QED
  BY <1>3, <1>4, <1>5, <1>6, <1>7, <1>8, <1>9, <1>10, <1>11, <1>12,
     UseReplace, UseSettle, UseCreateDone
  DEF Next, PoolNext, SessionNext, WarmerNext, CreateNext

(* A ready card in use leaves the store only when it is replaced, cleared  *)
(* or, used up, overwritten as next, for any number of sessions, payments  *)
(* and goroutines (recycleCardLocked, finishAmzKeysCreate).                *)
THEOREM NoUseIsDropped == Spec => UsedCardStays
<1>1. TypeOK /\ [Next]_vars
      => [\A s \in {cur, next} :
            /\ s.state = "ready" /\ s.inUse > Cardinality(Ending(s.card))
            /\ s.card \notin {cur.card, next.card}'
            => \/ \E w \in Sessions : at[w].pc = "rejected" /\ at'[w].pc # "rejected"
               \/ at' = at
               \/ Exhausted(s) /\ next = s /\ next.state' = "ordered"]_vars
  BY UseStep DEF UseIsKept
<1> QED
  BY <1>1, TypeCorrect, PTL DEF Spec, UsedCardStays

-----------------------------------------------------------------------------
(* What each card has paid for (MCCardPoolPaid), when no answer is         *)
(* recorded where its order is not found.  A session that pays with a card *)
(* counts as if it had: what a card owes.                                  *)
Paying(f, c) == {w \in Sessions : f[w].pc = "paying" /\ f[w].card = c}
Owed(k, f, c) == k[c] + Cardinality(Paying(f, c))
Covered(k, f, s) == s.card \in Cards => Owed(k, f, s.card) <= s.pays
Apart(c, n) == c.card # n.card \/ c.card = NoCard

Bounded(k, f) ==
    /\ k \in [Cards -> Nat]
    /\ \A c \in Cards : Owed(k, f, c) <= MaxPays

(* The inductive invariant: a stored card has counted at least what it     *)
(* owes, no card owes more than it may pay, and the slots hold two cards.  *)
OwedInv ==
    /\ Bounded(paid, at)
    /\ Covered(paid, at, cur) /\ Covered(paid, at, next)
    /\ Apart(cur, next)

LEMMA PayingType ==
    ASSUME IsFiniteSet(Sessions), NEW f, NEW c
    PROVE  IsFiniteSet(Paying(f, c)) /\ Cardinality(Paying(f, c)) \in Nat
<1>1. Paying(f, c) \subseteq Sessions
  BY DEF Paying
<1> QED
  BY <1>1, FS_Subset, FS_CardinalityType

LEMMA OwedType ==
    ASSUME IsFiniteSet(Sessions), NEW k, k \in [Cards -> Nat], NEW f, NEW c \in Cards
    PROVE  Owed(k, f, c) \in Nat /\ k[c] \in Nat /\ k[c] <= Owed(k, f, c)
<1>1. Cardinality(Paying(f, c)) \in Nat
  BY PayingType
<1> QED
  BY <1>1 DEF Owed

(* A set that loses an element, or has not got it, does not grow.          *)
LEMMA OneLess ==
    ASSUME NEW S, IsFiniteSet(S), NEW x
    PROVE  Cardinality(S \ {x}) <= Cardinality(S)
<1> DEFINE m == Cardinality(S)
           n == Cardinality(S \ {x})
<1>1. m \in Nat
  BY FS_CardinalityType
<1>2. n = m \/ n = m - 1
  BY FS_RemoveElement
<1> HIDE DEF m, n
<1>3. n <= m
  BY <1>1, <1>2
<1> QED
  BY <1>3 DEF m, n

(* A process that stops paying, or does not start, adds to no card; one    *)
(* that stops takes one from its card.                                     *)
LEMMA StopsPaying ==
    ASSUME IsFiniteSet(Sessions), NEW f, Places(f), NEW p \in Processes, NEW q,
           q.pc # "paying", NEW g, g = [f EXCEPT ![p] = q], NEW c
    PROVE  /\ Paying(g, c) = Paying(f, c) \ {p}
           /\ Cardinality(Paying(g, c)) <= Cardinality(Paying(f, c))
<1>1. IsFiniteSet(Paying(f, c)) /\ Cardinality(Paying(f, c)) \in Nat
  BY PayingType
<1>2. \A w \in Processes : w # p => g[w] = f[w]
  BY DEF Places
<1>3. g[p] = q
  BY DEF Places
<1>4. Paying(g, c) = Paying(f, c) \ {p}
  BY <1>2, <1>3 DEF Paying, Processes
<1>5. Cardinality(Paying(f, c) \ {p}) <= Cardinality(Paying(f, c))
  <2> HIDE DEF Paying
  <2> QED
    BY <1>1, OneLess
<1> QED
  BY <1>4, <1>5

LEMMA OneStopsPaying ==
    ASSUME IsFiniteSet(Sessions), NEW f, NEW c, NEW w \in Sessions,
           f[w].pc = "paying", f[w].card = c,
           NEW g, Paying(g, c) = Paying(f, c) \ {w}
    PROVE  Cardinality(Paying(g, c)) = Cardinality(Paying(f, c)) - 1
<1>1. IsFiniteSet(Paying(f, c))
  BY PayingType
<1>2. w \in Paying(f, c)
  BY DEF Paying
<1> HIDE DEF Paying
<1>3. Cardinality(Paying(f, c) \ {w}) = Cardinality(Paying(f, c)) - 1
  BY <1>1, <1>2, FS_RemoveElement
<1> QED
  BY <1>3

(* A session that starts to pay adds one to its card.                      *)
LEMMA StartsPaying ==
    ASSUME IsFiniteSet(Sessions), NEW f, Places(f), NEW w \in Sessions, NEW q,
           f[w].pc # "paying", NEW g, g = [f EXCEPT ![w] = q], NEW c
    PROVE  /\ Cardinality(Paying(g, c)) <= Cardinality(Paying(f, c)) + 1
           /\ q.card # c => Cardinality(Paying(g, c)) <= Cardinality(Paying(f, c))
<1>1. IsFiniteSet(Paying(f, c)) /\ Cardinality(Paying(f, c)) \in Nat
  BY PayingType
<1>2. \A x \in Processes : x # w => g[x] = f[x]
  BY DEF Places
<1>3. g[w] = q
  BY DEF Places, Processes
<1>4. Paying(g, c) = Paying(f, c) \/ (q.card = c /\ Paying(g, c) = Paying(f, c) \cup {w})
  BY <1>2, <1>3 DEF Paying, Processes
<1>5. w \notin Paying(f, c)
  BY DEF Paying
<1>6. Cardinality(Paying(f, c) \cup {w}) = Cardinality(Paying(f, c)) + 1
  BY <1>1, <1>5, FS_AddElement
<1> DEFINE m == Cardinality(Paying(f, c))
           n == Cardinality(Paying(g, c))
<1>7. n = m \/ (q.card = c /\ n = m + 1)
  BY <1>4, <1>6, Zenon
<1>8. m \in Nat
  BY <1>1
<1>9. n <= m + 1 /\ (q.card # c => n <= m)
  <2> HIDE DEF m, n
  <2> QED
    BY <1>7, <1>8
<1> QED
  BY <1>9

-----------------------------------------------------------------------------
(* A step that makes no card owe more, and one that is new owe nothing.    *)
NoMore ==
    /\ paid' \in [Cards -> Nat]
    /\ \A c \in Cards : Owed(paid', at', c) <= Owed(paid, at, c)
    /\ \A c \in Cards \ Known : Owed(paid', at', c) <= 0

LEMMA BoundedStays ==
    ASSUME IsFiniteSet(Sessions), OwedInv, NoMore
    PROVE  Bounded(paid', at')
<1>1. \A c \in Cards : /\ Owed(paid, at, c) \in Nat /\ Owed(paid', at', c) \in Nat
                       /\ Owed(paid, at, c) <= MaxPays
  BY OwedType DEF OwedInv, Bounded, NoMore
<1> QED
  BY <1>1, CardPoolAssumption DEF Bounded, NoMore

(* A slot stays covered with its count, an empty or a new one is.          *)
LEMMA CoveredStays ==
    ASSUME IsFiniteSet(Sessions), OwedInv, NoMore, NEW s, Covered(paid, at, s),
           s.pays \in Nat, NEW t, t.card = s.card, t.pays \in Nat, s.pays <= t.pays
    PROVE  Covered(paid', at', t)
<1> SUFFICES ASSUME t.card \in Cards PROVE Owed(paid', at', t.card) <= t.pays
  BY DEF Covered
<1>1. Owed(paid, at, t.card) \in Nat /\ Owed(paid', at', t.card) \in Nat
  BY OwedType DEF OwedInv, Bounded, NoMore
<1>2. Owed(paid, at, t.card) <= s.pays
  BY DEF Covered
<1>3. Owed(paid', at', t.card) <= Owed(paid, at, t.card)
  BY DEF NoMore
<1> QED
  BY <1>1, <1>2, <1>3

LEMMA EmptyIsCovered ==
    ASSUME NEW k, NEW f
    PROVE  Covered(k, f, Empty)
BY CardPoolAssumption DEF Covered, Empty

LEMMA EmptyIsApart ==
    ASSUME NEW s
    PROVE  Apart(s, Empty) /\ Apart(Empty, s)
BY DEF Apart, Empty

LEMMA ApartBack ==
    ASSUME NEW c \in Slot, NEW n \in Slot, Apart(c, n)
    PROVE  Apart(n, c)
BY DEF Apart

LEMMA StoreIsCovered ==
    ASSUME IsFiniteSet(Sessions), TypeOK, OwedInv, NoMore
    PROVE  /\ Covered(paid', at', cur) /\ Covered(paid', at', next)
           /\ Covered(paid', at', Empty)
<1>1. cur.pays \in Nat /\ next.pays \in Nat
  BY CardPoolAssumption, TypeParts, SlotFields
<1> QED
  BY <1>1, CoveredStays, EmptyIsCovered DEF OwedInv

(* Counting: without a payment no count grows.                             *)
LEMMA CountStays ==
    ASSUME OwedInv, CountPaid, ~\E w \in Sessions : Settle(w, "paid")
    PROVE  /\ paid' \in [Cards -> Nat]
           /\ \A c \in Cards : paid'[c] <= paid[c]
           /\ \A c \in Cards \ Known : paid'[c] = 0
<1>1. paid \in [Cards -> Nat]
  BY DEF OwedInv, Bounded
<1>2. paid' = [c \in Cards |-> IF c \notin Known THEN 0 ELSE paid[c]]
  BY DEF CountPaid
<1> HIDE DEF Known
<1> QED
  BY <1>1, <1>2

LEMMA NobodyStarts ==
    ASSUME IsFiniteSet(Sessions), TypeOK, OwedInv, CountPaid,
           ~\E w \in Sessions : Settle(w, "paid"),
           \A c \in Cards : Cardinality(Paying(at', c)) <= Cardinality(Paying(at, c))
    PROVE  NoMore
<1>1. /\ paid' \in [Cards -> Nat]
      /\ \A c \in Cards : paid'[c] <= paid[c]
      /\ \A c \in Cards \ Known : paid'[c] = 0
  BY CountStays
<1>2. paid \in [Cards -> Nat]
  BY DEF OwedInv, Bounded
<1>3. \A c \in Cards : /\ Cardinality(Paying(at', c)) \in Nat
                       /\ Cardinality(Paying(at, c)) \in Nat
  BY PayingType
<1>4. ASSUME NEW c \in Cards \ Known PROVE Cardinality(Paying(at, c)) = 0
  <2>1. Paying(at, c) = {}
    BY DEF Paying, Known, Processes
  <2> QED
    BY <2>1, FS_EmptySet
<1> HIDE DEF Known
<1>5. \A c \in Cards : Owed(paid', at', c) <= Owed(paid, at, c)
  BY <1>1, <1>2, <1>3 DEF Owed
<1>6. \A c \in Cards \ Known : Owed(paid', at', c) <= 0
  BY <1>1, <1>3, <1>4 DEF Owed
<1> QED
  BY <1>1, <1>5, <1>6 DEF NoMore

LEMMA OneStops ==
    ASSUME IsFiniteSet(Sessions), TypeOK, OwedInv, CountPaid,
           ~\E w \in Sessions : Settle(w, "paid"),
           NEW p \in Processes, NEW q, q.pc # "paying", at' = [at EXCEPT ![p] = q]
    PROVE  NoMore
<1>1. Places(at)
  BY TypeParts
<1>2. \A c \in Cards : Cardinality(Paying(at', c)) <= Cardinality(Paying(at, c))
  BY <1>1, StopsPaying
<1> QED
  BY <1>2, NobodyStarts

-----------------------------------------------------------------------------
Moves(p, q) == at' = [at EXCEPT ![p] = q]

LEMMA PaymentStarts ==
    ASSUME IsFiniteSet(Sessions), Places(at), NEW w \in Sessions, at[w].pc # "paying",
           NEW q, Moves(w, q), NEW c
    PROVE  /\ Cardinality(Paying(at', c)) <= Cardinality(Paying(at, c)) + 1
           /\ q.card # c => Cardinality(Paying(at', c)) <= Cardinality(Paying(at, c))
<1> DEFINE g == at'
<1>1. g = [at EXCEPT ![w] = q]
  BY DEF Moves
<1> HIDE DEF g
<1>2. /\ Cardinality(Paying(g, c)) <= Cardinality(Paying(at, c)) + 1
      /\ q.card # c => Cardinality(Paying(g, c)) <= Cardinality(Paying(at, c))
  BY <1>1, StartsPaying
<1> QED
  BY <1>2 DEF g

LEMMA PaymentEnds ==
    ASSUME IsFiniteSet(Sessions), Places(at), NEW w \in Sessions, at[w].pc = "paying",
           NEW q, q.pc # "paying", Moves(w, q)
    PROVE  Cardinality(Paying(at', at[w].card)) = Cardinality(Paying(at, at[w].card)) - 1
<1>1. \A v \in Processes : v # w => at'[v] = at[v]
  BY DEF Places, Moves
<1>2. at'[w] = q
  BY DEF Places, Moves, Processes
<1>3. \A c : Paying(at', c) = Paying(at, c) \ {w}
  BY <1>1, <1>2 DEF Paying, Processes
<1> QED
  BY <1>3, OneStopsPaying

(* A session takes a card: it owes one more, and has counted one more.     *)
LEMMA ReserveOne ==
    ASSUME IsFiniteSet(Sessions), TypeOK, OwedInv, CountPaid,
           ~\E v \in Sessions : Settle(v, "paid"),
           NEW w \in Sessions, at[w].pc # "paying",
           NEW s \in Slot, Usable(s), Covered(paid, at, s),
           NEW t \in Slot, t.card # s.card, Covered(paid, at, t),
           NEW q, q.card = s.card, Moves(w, q)
    PROVE  /\ Bounded(paid', at')
           /\ Covered(paid', at', Reserved(s)) /\ Covered(paid', at', t)
<1>1. /\ paid' \in [Cards -> Nat] /\ paid \in [Cards -> Nat]
      /\ \A c \in Cards : paid'[c] <= paid[c]
  BY CountStays DEF OwedInv, Bounded
<1>2. \A c \in Cards : /\ paid[c] \in Nat /\ paid'[c] \in Nat
                       /\ Cardinality(Paying(at, c)) \in Nat
                       /\ Cardinality(Paying(at', c)) \in Nat
  BY <1>1, PayingType
<1>3. Places(at)
  BY TypeParts
<1>4. \A c \in Cards : Cardinality(Paying(at', c)) <= Cardinality(Paying(at, c)) + 1
  BY <1>3, PaymentStarts
<1>5. \A c \in Cards : c # s.card
                       => Cardinality(Paying(at', c)) <= Cardinality(Paying(at, c))
  BY <1>3, PaymentStarts
<1>6. /\ \A c \in Cards : Owed(paid', at', c) <= Owed(paid, at, c) + 1
      /\ \A c \in Cards : c # s.card => Owed(paid', at', c) <= Owed(paid, at, c)
      /\ \A c \in Cards : Owed(paid', at', c) \in Nat /\ Owed(paid, at, c) \in Nat
  BY <1>1, <1>2, <1>4, <1>5 DEF Owed
<1>7. /\ s.card \in Cards /\ s.pays \in Nat /\ s.pays < MaxPays
      /\ t.pays \in Nat
  BY SlotFields, CardPoolAssumption DEF Usable, Exhausted
<1>8. Reserved(s).card = s.card /\ Reserved(s).pays = s.pays + 1
  BY DEF Reserved, Slot
<1>9. Owed(paid, at, s.card) <= s.pays
  BY <1>7 DEF Covered
<1>10. Owed(paid', at', s.card) <= s.pays + 1
  BY <1>6, <1>7, <1>9
<1>11. \A c \in Cards : Owed(paid', at', c) <= MaxPays
  <2> TAKE c \in Cards
  <2>1. CASE c = s.card
    BY <2>1, <1>6, <1>7, <1>10, CardPoolAssumption
  <2>2. CASE c # s.card
    <3>1. Owed(paid, at, c) <= MaxPays
      BY DEF OwedInv, Bounded
    <3> QED
      BY <2>2, <3>1, <1>6, CardPoolAssumption
  <2> QED
    BY <2>1, <2>2
<1>12. t.card \in Cards => Owed(paid', at', t.card) <= t.pays
  <2> SUFFICES ASSUME t.card \in Cards PROVE Owed(paid', at', t.card) <= t.pays
    OBVIOUS
  <2>1. Owed(paid, at, t.card) <= t.pays
    BY DEF Covered
  <2> QED
    BY <2>1, <1>6, <1>7
<1> QED
  BY <1>1, <1>8, <1>10, <1>11, <1>12 DEF Bounded, Covered

LEMMA ReserveOwes ==
    ASSUME IsFiniteSet(Sessions), TypeOK, OwedInv, CountPaid,
           ~\E v \in Sessions : Settle(v, "paid"),
           NEW w \in Sessions, at[w].pc # "paying", NEW again,
           NEW c \in Slot, NEW n \in Slot, Apart(c, n),
           Covered(paid, at, c), Covered(paid, at, n),
           ReserveFrom(w, c, n, again)
    PROVE  OwedInv'
<1> DEFINE q(s) == [Idle EXCEPT !.pc = "paying", !.card = s.card, !.again = again]
<1>1. \A s : q(s).card = s.card
  BY DEF Idle
<1>2. CASE Usable(c)
  <2>1. cur' = Reserved(c) /\ next' = n /\ at' = [at EXCEPT ![w] = q(c)]
    BY <1>2 DEF ReserveFrom
  <2>2. c.card \in Cards /\ n.card # c.card
    BY <1>2, SlotFields, CardPoolAssumption DEF Usable, Apart
  <2> DEFINE r == q(c)
  <2>3. r.card = c.card /\ Moves(w, r)
    BY <1>1, <2>1 DEF Moves
  <2> HIDE DEF r, q
  <2>4. /\ Bounded(paid', at')
        /\ Covered(paid', at', Reserved(c)) /\ Covered(paid', at', n)
    BY <1>2, <2>2, <2>3, ReserveOne
  <2>5. Apart(Reserved(c), n)
    BY <1>2, <2>2, ReservedIsSlot DEF Apart
  <2> QED
    BY <2>1, <2>4, <2>5 DEF OwedInv
<1>3. CASE ~Usable(c) /\ Usable(n)
  <2>1. cur' = c /\ next' = Reserved(n) /\ at' = [at EXCEPT ![w] = q(n)]
    BY <1>3 DEF ReserveFrom
  <2>2. n.card \in Cards /\ c.card # n.card
    BY <1>3, SlotFields, CardPoolAssumption DEF Usable, Apart
  <2> DEFINE r == q(n)
  <2>3. r.card = n.card /\ Moves(w, r)
    BY <1>1, <2>1 DEF Moves
  <2> HIDE DEF r, q
  <2>4. /\ Bounded(paid', at')
        /\ Covered(paid', at', Reserved(n)) /\ Covered(paid', at', c)
    BY <1>3, <2>2, <2>3, ReserveOne
  <2>5. Apart(c, Reserved(n))
    BY <1>3, <2>2, ReservedIsSlot DEF Apart
  <2> QED
    BY <2>1, <2>4, <2>5 DEF OwedInv
<1> QED
  BY <1>2, <1>3 DEF ReserveFrom

(* An order is for a new card, which owes nothing.                         *)
LEMMA BeginMoves ==
    ASSUME NEW p, NEW c, NEW n, NEW e, NEW again, NEW failed, failed.pc # "paying",
           Begin(p, c, n, e, again, failed)
    PROVE  \E q : q.pc # "paying" /\ at' = [at EXCEPT ![p] = q]
<1>1. \A x, a, b : Wait(x, a, b, again).pc # "paying"
  BY DEF Wait
<1>2. CASE Join(p, c, n, e, again)
  <2> DEFINE q == IF Fresh(c) THEN Wait(c.card, FALSE, FALSE, again)
                              ELSE Wait(n.card, TRUE, FALSE, again)
  <2>1. at' = [at EXCEPT ![p] = q]
    BY <1>2 DEF Join
  <2>2. q.pc # "paying"
    BY <1>1
  <2> QED
    BY <2>1, <2>2
<1>3. CASE Order(p, c, n, e, again)
  <2> DEFINE b == c.state = "ready" /\ ~Dropped(c)
             q == Wait(NewTask, b, TRUE, again)
  <2>1. at' = [at EXCEPT ![p] = q]
    BY <1>3 DEF Order
  <2>2. q.pc # "paying"
    BY <1>1
  <2> QED
    BY <2>1, <2>2
<1>4. CASE OrderFails(p, c, n, e, failed)
  BY <1>4 DEF OrderFails
<1> QED
  BY <1>2, <1>3, <1>4 DEF Begin

LEMMA BeginOwes ==
    ASSUME IsFiniteSet(Sessions), TypeOK, OwedInv, CountPaid,
           ~\E v \in Sessions : Settle(v, "paid"),
           NEW p \in Processes, NEW c \in {cur, next}, NEW n \in {next, Empty}, Apart(c, n),
           NEW e, NEW again, NEW failed, failed.pc # "paying",
           Begin(p, c, n, e, again, failed)
    PROVE  OwedInv'
<1>1. NoMore
  BY BeginMoves, OneStops
<1>2. Bounded(paid', at') /\ Covered(paid', at', c) /\ Covered(paid', at', n)
  BY <1>1, BoundedStays, StoreIsCovered
<1>3. CASE Order(p, c, n, e, again)
  <2>1. NewTask \in Cards /\ NewTask \notin Known
    BY <1>3, NewTaskType DEF Order
  <2>2. NewTask # c.card /\ NewTask # n.card
    BY <2>1, CardPoolAssumption DEF Known, Empty
  <2>3. Ordered(NewTask).card = NewTask /\ Ordered(NewTask).pays = 0
    BY DEF Ordered
  <2>4. Covered(paid', at', Ordered(NewTask))
    BY <1>1, <2>1, <2>3 DEF NoMore, Covered
  <2>5. Apart(c, Ordered(NewTask)) /\ Apart(Ordered(NewTask), n)
    BY <2>2, <2>3 DEF Apart
  <2> DEFINE b == c.state = "ready" /\ ~Dropped(c)
  <2>6. \/ cur' = c /\ next' = Ordered(NewTask)
        \/ cur' = Ordered(NewTask) /\ next' = n
    BY <1>3 DEF Order
  <2> QED
    BY <1>2, <2>4, <2>5, <2>6 DEF OwedInv
<1>4. CASE Join(p, c, n, e, again)
  BY <1>2, <1>4 DEF Join, OwedInv
<1>5. CASE OrderFails(p, c, n, e, failed)
  <2>1. cur' \in {c, Empty} /\ next' = n
    BY <1>5 DEF OrderFails
  <2> QED
    BY <1>2, <2>1, EmptyIsCovered, EmptyIsApart DEF OwedInv
<1> QED
  BY <1>3, <1>4, <1>5 DEF Begin

-----------------------------------------------------------------------------
(* A release: what it counts down is owed no longer.                       *)
LEMMA RecycleOwes ==
    ASSUME NEW c, NEW n, Bounded(paid', at'), Covered(paid', at', c), Covered(paid', at', n),
           Apart(c, n), Recycle(c, n)
    PROVE  OwedInv'
<1>1. \/ cur' = c /\ next' \in {n, Empty}
      \/ cur' \in {n, Empty} /\ next' = Empty
  BY DEF Recycle
<1> QED
  BY <1>1, EmptyIsCovered, EmptyIsApart DEF OwedInv

LEMMA AppliedPays ==
    ASSUME NEW s \in Slot, NEW result
    PROVE  /\ Applied(s, result).pays
                = IF result = "unpaid" /\ s.pays > 0 THEN s.pays - 1 ELSE s.pays
           /\ Applied(s, result).card = s.card
BY DEF Applied, Slot

LEMMA AppliedIsCovered ==
    ASSUME IsFiniteSet(Sessions), TypeOK, OwedInv, NoMore,
           NEW s \in {cur, next}, s.state = "ready", NEW result,
           result = "unpaid" => Owed(paid', at', s.card) <= Owed(paid, at, s.card) - 1
    PROVE  Covered(paid', at', Applied(s, result))
<1>1. s \in Slot /\ Covered(paid, at, s)
  BY TypeParts DEF OwedInv
<1>2. s.card \in Cards /\ s.pays \in Nat
  BY <1>1, SlotFields, CardPoolAssumption
<1>3. Owed(paid, at, s.card) \in Nat /\ Owed(paid', at', s.card) \in Nat
  BY <1>2, OwedType DEF OwedInv, Bounded, NoMore
<1>4. Owed(paid, at, s.card) <= s.pays
  BY <1>1, <1>2 DEF Covered
<1>5. Owed(paid', at', s.card) <= Owed(paid, at, s.card)
  BY <1>2 DEF NoMore
<1> DEFINE m == Applied(s, result).pays
<1>6. m = IF result = "unpaid" /\ s.pays > 0 THEN s.pays - 1 ELSE s.pays
  BY <1>1, AppliedPays
<1>7. Owed(paid', at', s.card) <= m
  <2> HIDE DEF m
  <2>1. CASE result = "unpaid"
    BY <1>2, <1>3, <1>4, <1>6, <2>1
  <2>2. CASE result # "unpaid"
    BY <1>2, <1>3, <1>4, <1>5, <1>6, <2>2
  <2> QED
    BY <2>1, <2>2
<1>8. Applied(s, result).card = s.card
  BY <1>1, AppliedPays
<1> QED
  BY <1>7, <1>8 DEF Covered

LEMMA ReleaseOwes ==
    ASSUME IsFiniteSet(Sessions), TypeOK, OwedInv, NoMore, NEW c \in Cards, NEW result,
           result = "unpaid" => Owed(paid', at', c) <= Owed(paid, at, c) - 1,
           ReleaseCard(c, result)
    PROVE  OwedInv'
<1>1. cur \in Slot /\ next \in Slot
  BY TypeParts
<1>2. /\ Bounded(paid', at')
      /\ Covered(paid', at', cur) /\ Covered(paid', at', next) /\ Apart(cur, next)
  BY BoundedStays, StoreIsCovered DEF OwedInv
<1>3. CASE cur.card = c /\ cur.state = "ready" /\ Recycle(Applied(cur, result), next)
  <2>1. Covered(paid', at', Applied(cur, result))
    BY <1>3, AppliedIsCovered
  <2>2. Apart(Applied(cur, result), next)
    BY <1>1, <1>2, AppliedPays DEF Apart
  <2> QED
    BY <1>2, <1>3, <2>1, <2>2, RecycleOwes
<1>4. CASE next.card = c /\ next.state = "ready" /\ Recycle(cur, Applied(next, result))
  <2>1. Covered(paid', at', Applied(next, result))
    BY <1>4, AppliedIsCovered
  <2>2. Apart(cur, Applied(next, result))
    BY <1>1, <1>2, AppliedPays DEF Apart
  <2> QED
    BY <1>2, <1>4, <2>1, <2>2, RecycleOwes
<1>5. CASE UNCHANGED store
  BY <1>2, <1>5 DEF store, OwedInv
<1> QED
  BY <1>3, <1>4, <1>5 DEF ReleaseCard

(* A payment: the session owes it no longer, the card has it.              *)
LEMMA PaidOwes ==
    ASSUME IsFiniteSet(Sessions), TypeOK, OwedInv, CountPaid,
           NEW w \in Sessions, Settle(w, "paid")
    PROVE  OwedInv'
<1> DEFINE d == at[w].card
<1>1. /\ at[w].pc = "paying" /\ ReleaseCard(d, "paid")
      /\ at' = [at EXCEPT ![w] = Idle]
  BY DEF Settle
<1>2. Places(at) /\ Idle.pc = "idle" /\ w \in Processes /\ at \in [Processes -> Place]
  BY TypeParts DEF Places, Idle, Processes
<1>3. d \in Cards
  BY <1>1, <1>2 DEF Places
<1>4. ASSUME NEW v \in Sessions, Settle(v, "paid") PROVE v = w
  <2>1. at[v].pc = "paying" /\ at' = [at EXCEPT ![v] = Idle] /\ v \in Processes
    BY <1>4 DEF Settle, Processes
  <2>2. at'[v] = Idle
    BY <1>2, <2>1
  <2>3. v # w => at'[v] = at[v]
    BY <1>1, <1>2, <2>1
  <2> QED
    BY <1>2, <2>1, <2>2, <2>3
<1>5. paid \in [Cards -> Nat] /\ \A c \in Cards : Owed(paid, at, c) <= MaxPays
  BY DEF OwedInv, Bounded
<1>6. paid' = [c \in Cards |-> IF c \notin Known THEN 0
                               ELSE IF c = d THEN More(paid[c]) ELSE paid[c]]
  <2>1. \A c \in Cards : (\E v \in Sessions : at[v].card = c /\ Settle(v, "paid")) <=> c = d
    BY <1>4
  <2> HIDE DEF d, Known, Settle
  <2> QED
    BY <2>1, Zenon DEF CountPaid
<1>7. \A n \in Nat : More(n) \in Nat /\ More(n) <= n + 1
  BY CardPoolAssumption DEF More
<1>8. /\ paid' \in [Cards -> Nat]
      /\ \A c \in Cards : paid'[c] <= paid[c] + 1 /\ (c # d => paid'[c] <= paid[c])
      /\ \A c \in Cards \ Known : paid'[c] = 0
  <2> HIDE DEF d, Known, More
  <2> QED
    BY <1>5, <1>6, <1>7
<1>9. \A c \in Cards : /\ Cardinality(Paying(at', c)) \in Nat
                       /\ Cardinality(Paying(at, c)) \in Nat
                       /\ Cardinality(Paying(at', c)) <= Cardinality(Paying(at, c))
  BY <1>1, <1>2, PayingType, StopsPaying
<1>10. Cardinality(Paying(at', d)) = Cardinality(Paying(at, d)) - 1
  <2>1. Moves(w, Idle) /\ Idle.pc # "paying"
    BY <1>1, <1>2 DEF Moves
  <2> QED
    BY <1>1, <1>2, <2>1, PaymentEnds
<1>11. ASSUME NEW c \in Cards \ Known PROVE Cardinality(Paying(at, c)) = 0
  <2>1. Paying(at, c) = {}
    BY DEF Paying, Known, Processes
  <2> QED
    BY <2>1, FS_EmptySet
<1>12. NoMore
  <2> HIDE DEF d, Known
  <2>1. \A c \in Cards : Owed(paid', at', c) <= Owed(paid, at, c)
    BY <1>3, <1>5, <1>8, <1>9, <1>10 DEF Owed
  <2>2. \A c \in Cards \ Known : Owed(paid', at', c) <= 0
    BY <1>8, <1>9, <1>11 DEF Owed
  <2> QED
    BY <1>8, <2>1, <2>2 DEF NoMore
<1> HIDE DEF d
<1> QED
  BY <1>1, <1>3, <1>12, ReleaseOwes

LEMMA SettleOwes ==
    ASSUME IsFiniteSet(Sessions), TypeOK, OwedInv, CountPaid,
           ~\E v \in Sessions : Settle(v, "paid"),
           NEW w \in Sessions, NEW result \in Results, Settle(w, result)
    PROVE  OwedInv'
<1> DEFINE d == at[w].card
           r == [Idle EXCEPT !.pc = "rejected"]
<1>1. at[w].pc = "paying" /\ ReleaseCard(d, result)
  BY DEF Settle
<1>2. Places(at) /\ w \in Processes
  BY TypeParts DEF Processes
<1>3. d \in Cards
  BY <1>1, <1>2 DEF Places
<1>4. \E q : q.pc # "paying" /\ at' = [at EXCEPT ![w] = q]
  <2>1. r.pc # "paying" /\ Idle.pc # "paying"
    BY DEF Idle
  <2>2. at' = [at EXCEPT ![w] = r] \/ at' = [at EXCEPT ![w] = Idle]
    BY Zenon DEF Settle
  <2> HIDE DEF r
  <2> QED
    BY <2>1, <2>2
<1>5. NoMore
  BY <1>2, <1>4, OneStops
<1>6. Cardinality(Paying(at', d)) = Cardinality(Paying(at, d)) - 1
  <2>1. PICK q : q.pc # "paying" /\ Moves(w, q)
    BY <1>4 DEF Moves
  <2> QED
    BY <1>1, <1>2, <2>1, PaymentEnds
<1>7. paid' \in [Cards -> Nat] /\ paid \in [Cards -> Nat] /\ \A c \in Cards : paid'[c] <= paid[c]
  BY CountStays DEF OwedInv, Bounded
<1>8. Cardinality(Paying(at, d)) \in Nat
  BY PayingType
<1> HIDE DEF d
<1>9. Owed(paid', at', d) <= Owed(paid, at, d) - 1
  BY <1>3, <1>6, <1>7, <1>8 DEF Owed
<1> QED
  BY <1>1, <1>3, <1>5, <1>9, ReleaseOwes

-----------------------------------------------------------------------------
(* Steps in which nobody starts to pay and no slot is counted.             *)
LEMMA StoreKeptOwes ==
    ASSUME IsFiniteSet(Sessions), TypeOK, OwedInv, NoMore, UNCHANGED <<cur, next>>
    PROVE  OwedInv'
<1>1. Bounded(paid', at')
  BY BoundedStays
<1>2. Covered(paid', at', cur) /\ Covered(paid', at', next)
  BY StoreIsCovered
<1> QED
  BY <1>1, <1>2 DEF OwedInv

LEMMA SlotsFreedOwes ==
    ASSUME IsFiniteSet(Sessions), TypeOK, OwedInv, NoMore,
           cur' \in {cur, Empty}, next' \in {next, Empty}
    PROVE  OwedInv'
<1>1. Bounded(paid', at')
  BY BoundedStays
<1>2. Covered(paid', at', cur) /\ Covered(paid', at', next) /\ Covered(paid', at', Empty)
  BY StoreIsCovered
<1>3. Apart(cur', next')
  BY EmptyIsApart DEF OwedInv
<1> QED
  BY <1>1, <1>2, <1>3 DEF OwedInv

(* An answer that finds its order opens the card the slot already names.   *)
LEMMA CreateDoneOwes ==
    ASSUME IsFiniteSet(Sessions), TypeOK, OwedInv, NoMore, NEW p \in Processes,
           CreateDone(p), Found(p) \/ UNCHANGED <<cur, next>>
    PROVE  OwedInv'
<1> DEFINE c == at[p].card
           k == [Opened(c) EXCEPT !.pays = cur.pays, !.inUse = cur.inUse]
<1>1. /\ Bounded(paid', at')
      /\ Covered(paid', at', cur) /\ Covered(paid', at', next)
      /\ Covered(paid, at, cur) /\ Covered(paid, at, next) /\ Apart(cur, next)
  BY BoundedStays, StoreIsCovered DEF OwedInv
<1>2. cur \in Slot /\ next \in Slot
  BY TypeParts
<1>3. /\ cur.pays \in Nat /\ next.pays \in Nat
      /\ next.state # "ready" => next.pays = 0
  BY <1>2, SlotFields, CardPoolAssumption
<1>4. CASE UNCHANGED <<cur, next>>
  BY <1>4, StoreKeptOwes
<1>5. CASE Found(p) /\ at[p].asNext
  <2>1. next.state # "ready" /\ next.card = c
    BY <1>5 DEF Found
  <2>2. next' = Opened(c) /\ cur' = cur
    BY <1>5, <2>1 DEF CreateDone, Other
  <2>3. Opened(c).card = next.card /\ Opened(c).pays = 0
    BY <2>1 DEF Opened
  <2>4. Covered(paid', at', Opened(c))
    BY <1>1, <1>3, <2>1, <2>3, CoveredStays
  <2>5. Apart(cur, Opened(c))
    BY <1>1, <2>3 DEF Apart
  <2> QED
    BY <1>1, <2>2, <2>4, <2>5 DEF OwedInv
<1>6. CASE Found(p) /\ ~at[p].asNext
  <2>1. cur.state # "ready" /\ cur.card = c
    BY <1>6 DEF Found
  <2>2. cur' = k /\ next' = next
    BY <1>6, <2>1 DEF CreateDone, Other
  <2>3. k.card = cur.card /\ k.pays = cur.pays
    BY <2>1 DEF Opened
  <2> HIDE DEF k
  <2>4. Covered(paid', at', k)
    BY <1>1, <1>3, <2>3, CoveredStays
  <2>5. Apart(k, next)
    BY <1>1, <2>3 DEF Apart
  <2> QED
    BY <1>1, <2>2, <2>4, <2>5 DEF OwedInv
<1> QED
  BY <1>4, <1>5, <1>6

LEMMA FoundStep ==
    IsFiniteSet(Sessions) /\ TypeOK /\ OwedInv /\ [FoundNext]_<<vars, paid>> => OwedInv'
<1> SUFFICES ASSUME IsFiniteSet(Sessions), TypeOK, OwedInv, [FoundNext]_<<vars, paid>>
             PROVE  OwedInv'
  OBVIOUS
<1>1. CASE UNCHANGED <<vars, paid>>
  BY <1>1 DEF vars, OwedInv
<1>2. CASE FoundNext /\ \E w \in Sessions : Settle(w, "paid")
  BY <1>2, PaidOwes DEF FoundNext
<1>3. CASE FoundNext /\ ~\E w \in Sessions : Settle(w, "paid")
  <2> USE <1>3
  <2>1. CountPaid
    BY DEF FoundNext
  <2>2. /\ cur \in Slot /\ next \in Slot /\ Empty \in Slot
        /\ Apart(cur, next) /\ Apart(next, Empty)
        /\ Covered(paid, at, cur) /\ Covered(paid, at, next) /\ Covered(paid, at, Empty)
    BY TypeParts, EmptyIsSlot, EmptyIsApart, EmptyIsCovered DEF OwedInv
  <2>3. Idle.pc = "idle"
    BY DEF Idle
  <2>4. ASSUME NEW p \in Processes, at' = [at EXCEPT ![p] = Idle] PROVE NoMore
    BY <2>1, <2>3, <2>4, OneStops
  <2>5. at' = at => NoMore
    <3> SUFFICES ASSUME at' = at PROVE NoMore
      OBVIOUS
    <3>1. \A c \in Cards : Cardinality(Paying(at', c)) <= Cardinality(Paying(at, c))
      <4> TAKE c \in Cards
      <4>1. Cardinality(Paying(at, c)) \in Nat
        BY PayingType
      <4>2. Cardinality(Paying(at', c)) = Cardinality(Paying(at, c))
        BY Zenon
      <4> QED
        BY <4>1, <4>2
    <3> QED
      BY <2>1, <3>1, NobodyStarts
  <2>6. ASSUME NEW w \in Sessions, Checkout(w) PROVE OwedInv'
    <3>1. at[w].pc # "paying" /\ w \in Processes
      BY <2>6 DEF Checkout, Processes
    <3>2. CASE ReserveFrom(w, cur, next, FALSE)
      BY <2>1, <2>2, <3>1, <3>2, ReserveOwes
    <3>3. CASE Begin(w, cur, next, recent, FALSE, Idle)
      BY <2>1, <2>2, <2>3, <3>1, <3>3, BeginOwes
    <3> QED
      BY <2>6, <3>2, <3>3 DEF Checkout, CheckoutFrom
  <2>7. ASSUME NEW w \in Sessions, Replace(w) PROVE OwedInv'
    <3>1. at[w].pc # "paying" /\ w \in Processes
      BY <2>7 DEF Replace, Processes
    <3>2. CASE ReserveFrom(w, next, Empty, TRUE)
      BY <2>1, <2>2, <3>1, <3>2, ReserveOwes
    <3>3. CASE Begin(w, next, Empty, FALSE, TRUE, Idle)
      BY <2>1, <2>2, <2>3, <3>1, <3>3, BeginOwes
    <3> QED
      BY <2>7, <3>2, <3>3 DEF Replace, CheckoutFrom
  <2>8. ASSUME NEW w \in Sessions, CheckoutReady(w) PROVE OwedInv'
    <3>1. at[w].pc # "paying" /\ w \in Processes
      BY <2>8 DEF CheckoutReady, Processes
    <3>2. CASE ReserveFrom(w, cur, next, at[w].again)
      BY <2>1, <2>2, <3>1, <3>2, ReserveOwes
    <3>3. CASE at' = [at EXCEPT ![w] = Idle] /\ UNCHANGED <<cur, next>>
      BY <2>4, <3>1, <3>3, StoreKeptOwes
    <3> QED
      BY <2>8, <3>2, <3>3 DEF CheckoutReady
  <2>9. ASSUME NEW w \in Sessions, Vanish(w) PROVE OwedInv'
    BY <2>4, <2>9, StoreKeptOwes DEF Vanish, store, Processes
  <2>10. ASSUME NEW w \in Sessions, NEW result \in Results, Settle(w, result) PROVE OwedInv'
    BY <2>1, <2>10, SettleOwes
  <2>11. ASSUME NEW x \in Warmers, Warm(x) PROVE OwedInv'
    <3> DEFINE q == [Idle EXCEPT !.pc = "failed"]
    <3>1. q.pc # "paying" /\ x \in Processes
      BY DEF Idle, Processes
    <3>2. Begin(x, cur, next, recent, FALSE, q)
      BY <2>11, Zenon DEF Warm
    <3> HIDE DEF q
    <3> QED
      BY <2>1, <2>2, <3>1, <3>2, BeginOwes
  <2>12. ASSUME NEW x \in Warmers, RememberError(x) PROVE OwedInv'
    BY <2>4, <2>12, StoreKeptOwes DEF RememberError, Processes
  <2>13. ASSUME NEW p \in Processes, CreateDone(p) PROVE OwedInv'
    <3>1. Finished(p).pc # "paying" /\ at' = [at EXCEPT ![p] = Finished(p)]
      BY <2>13 DEF CreateDone, Finished, Idle
    <3>2. Found(p) \/ UNCHANGED <<cur, next>>
      BY <2>13 DEF FoundNext
    <3>3. NoMore
      BY <2>1, <3>1, OneStops
    <3> QED
      BY <2>13, <3>2, <3>3, CreateDoneOwes
  <2>14. ASSUME NEW p \in Processes, CreateFails(p) PROVE OwedInv'
    <3>1. cur' \in {cur, Empty} /\ next' \in {next, Empty} /\ at' = [at EXCEPT ![p] = Idle]
      BY <2>14 DEF CreateFails, store
    <3> QED
      BY <2>4, <3>1, SlotsFreedOwes
  <2>15. ASSUME NEW p \in Processes, CreateUseless(p) PROVE OwedInv'
    BY <2>4, <2>15, StoreKeptOwes DEF CreateUseless, store
  <2>16. CASE GrowStale
    <3>1. NoMore /\ cur' = Stale(cur) /\ next' = Stale(next)
      BY <2>5, <2>16 DEF GrowStale
    <3>2. /\ Stale(cur).card = cur.card /\ Stale(cur).pays = cur.pays
          /\ Stale(next).card = next.card /\ Stale(next).pays = next.pays
      BY <2>2 DEF Stale, Slot
    <3>3. cur.pays \in Nat /\ next.pays \in Nat
      BY <2>2, SlotFields, CardPoolAssumption
    <3>4. Covered(paid', at', Stale(cur)) /\ Covered(paid', at', Stale(next))
      BY <2>2, <3>1, <3>2, <3>3, CoveredStays
    <3>5. Bounded(paid', at') /\ Apart(Stale(cur), Stale(next))
      BY <2>2, <3>1, <3>2, BoundedStays DEF Apart
    <3> QED
      BY <3>1, <3>4, <3>5 DEF OwedInv
  <2>17. CASE ErrorAges
    BY <2>5, <2>17, StoreKeptOwes DEF ErrorAges
  <2>18. CASE Clear
    BY <2>5, <2>18, SlotsFreedOwes DEF Clear
  <2>19. CASE Restart
    <3>1. at' = [p \in Processes |-> Idle] /\ UNCHANGED <<cur, next>>
      BY <2>19 DEF Restart, store
    <3>2. \A c \in Cards : Paying(at', c) = {}
      BY <2>3, <3>1 DEF Paying, Processes
    <3>3. \A c \in Cards : Cardinality(Paying(at, c)) \in Nat
      BY PayingType
    <3>4. \A c \in Cards : Cardinality(Paying(at', c)) <= Cardinality(Paying(at, c))
      BY <3>2, <3>3, FS_EmptySet
    <3>5. NoMore
      BY <2>1, <3>4, NobodyStarts
    <3> QED
      BY <3>1, <3>5, StoreKeptOwes
  <2> QED
    BY <2>6, <2>7, <2>8, <2>9, <2>10, <2>11, <2>12, <2>13, <2>14, <2>15, <2>16, <2>17, <2>18,
       <2>19
    DEF FoundNext, Next, PoolNext, SessionNext, WarmerNext, CreateNext
<1> QED
  BY <1>1, <1>2, <1>3

LEMMA OwedInit ==
    ASSUME IsFiniteSet(Sessions), WatchInit
    PROVE  OwedInv
<1>1. cur = Empty /\ next = Empty /\ paid = [c \in Cards |-> 0]
  BY DEF WatchInit, Init
<1>2. \A c \in Cards : Paying(at, c) = {}
  BY DEF WatchInit, Init, Idle, Paying, Processes
<1>3. \A c \in Cards : Owed(paid, at, c) = 0
  BY <1>1, <1>2, FS_EmptySet DEF Owed
<1>4. Bounded(paid, at)
  BY <1>1, <1>3, CardPoolAssumption DEF Bounded
<1> QED
  BY <1>1, <1>4, EmptyIsCovered, EmptyIsApart DEF OwedInv

(* What the cards owe stays covered.                                       *)
LEMMA OwedAlways ==
    IsFiniteSet(Sessions) => (FoundSpec => [](TypeOK /\ OwedInv))
<1> SUFFICES ASSUME IsFiniteSet(Sessions) PROVE FoundSpec => [](TypeOK /\ OwedInv)
  OBVIOUS
<1>1. WatchInit => TypeOK /\ OwedInv
  <2>1. Idle.pc = "idle"
    BY DEF Idle
  <2>2. WatchInit => TypeOK
    BY <2>1, EmptyIsSlot, IdleIsPlace DEF WatchInit, Init, TypeOK
  <2> QED
    BY <2>2, OwedInit
<1>2. TypeOK /\ OwedInv /\ [FoundNext]_<<vars, paid>> => TypeOK' /\ OwedInv'
  <2>1. [FoundNext]_<<vars, paid>> => [Next]_vars
    BY DEF FoundNext
  <2> QED
    BY <2>1, TypeStep, FoundStep
<1> QED
  BY <1>1, <1>2, PTL DEF FoundSpec

(* No card ever pays for more accounts than it may, for any sessions,      *)
(* goroutines, cards, clearing and restarts, when an answer of the card    *)
(* service takes effect only where its order is found: that                *)
(* finishAmzKeysCreate does not ask for this is all that stands between    *)
(* the code and its limit (the run cards_paid shows it broken).            *)
THEOREM PaidWithinLimitWhenFound ==
    IsFiniteSet(Sessions) => (FoundSpec => []PaidWithinLimit)
<1> SUFFICES ASSUME IsFiniteSet(Sessions) PROVE FoundSpec => []PaidWithinLimit
  OBVIOUS
<1>1. OwedInv => PaidWithinLimit
  <2> SUFFICES ASSUME OwedInv, NEW c \in Cards PROVE paid[c] <= MaxPays
    BY DEF PaidWithinLimit
  <2>1. /\ Owed(paid, at, c) \in Nat /\ paid[c] \in Nat /\ paid[c] <= Owed(paid, at, c)
        /\ Owed(paid, at, c) <= MaxPays
    BY OwedType DEF OwedInv, Bounded
  <2> QED
    BY <2>1, CardPoolAssumption
<1> QED
  BY <1>1, OwedAlways, PTL

-----------------------------------------------------------------------------
(* The refinement of CardLedger: a session holds the card it pays with, a  *)
(* number that nothing refers to stands for a new card.                    *)
Fresher == Cards \ Known

(* CardLedger counts as this module does.                                  *)
LEMMA SameCount == \A S : CL!Cardinality(S) = Cardinality(S)
BY DEF CL!Cardinality, Cardinality

LEMMA HoldersPay ==
    ASSUME NEW c \in Cards
    PROVE  CL!Holders(c) = Paying(at, c)
BY CardPoolAssumption DEF CL!Holders, HeldCard, Paying

LEMMA FresherIsUnheld == Fresher \in SUBSET {c \in Cards : CL!Holders(c) = {}}
<1> SUFFICES ASSUME NEW c \in Cards, c \notin Known
             PROVE  CL!Holders(c) = {}
  BY DEF Fresher
<1>1. Paying(at, c) = {}
  BY DEF Paying, Known, Processes
<1> QED
  BY <1>1, HoldersPay

LEMMA BookUnpaid ==
    ASSUME CountPaid, ~\E w \in Sessions : Settle(w, "paid")
    PROVE  CL!Book(Fresher, paid)
<1>1. paid' = [c \in Cards |-> IF c \notin Known THEN 0 ELSE paid[c]]
  BY DEF CountPaid
<1> HIDE DEF Known
<1> QED
  BY <1>1 DEF CL!Book, Fresher

(* What a session holds after one process moved.                           *)
LEMMA HeldAfter ==
    ASSUME Places(at), NEW p \in Processes, NEW q, Moves(p, q)
    PROVE  /\ \A w \in Sessions : w # p => HeldCard'[w] = HeldCard[w]
           /\ p \in Sessions => HeldCard'[p] = (IF q.pc = "paying" THEN q.card ELSE NoCard)
<1>1. \A w \in Processes : w # p => at'[w] = at[w]
  BY DEF Places, Moves
<1>2. at'[p] = q
  BY DEF Places, Moves
<1> QED
  BY <1>1, <1>2 DEF HeldCard, Processes

LEMMA HeldIsFunction ==
    /\ HeldCard = [w \in Sessions |-> HeldCard[w]]
    /\ HeldCard' = [w \in Sessions |-> HeldCard'[w]]
BY DEF HeldCard

(* Nobody starts to pay.                                                   *)
LEMMA QuietStep ==
    ASSUME Places(at), CountPaid, ~\E w \in Sessions : Settle(w, "paid"),
           NEW p \in Processes, NEW q, q.pc # "paying", Moves(p, q)
    PROVE  CL!Next
<1>1. CL!Book(Fresher, paid) /\ Fresher \in SUBSET {c \in Cards : CL!Holders(c) = {}}
  BY BookUnpaid, FresherIsUnheld
<1>2. /\ \A w \in Sessions : w # p => HeldCard'[w] = HeldCard[w]
      /\ p \in Sessions => HeldCard'[p] = NoCard
  BY HeldAfter
<1>3. CASE p \in Sessions /\ HeldCard[p] # NoCard
  <2>1. HeldCard' = [HeldCard EXCEPT ![p] = NoCard]
    BY <1>2, <1>3, HeldIsFunction
  <2>2. CL!GiveBack(p, Fresher)
    BY <1>1, <1>3, <2>1 DEF CL!GiveBack
  <2> QED
    BY <1>1, <1>3, <2>2 DEF CL!Next
<1>4. CASE ~(p \in Sessions /\ HeldCard[p] # NoCard)
  <2>1. HeldCard' = HeldCard
    BY <1>2, <1>4, HeldIsFunction
  <2>2. CL!Renew(Fresher)
    BY <1>1, <2>1 DEF CL!Renew
  <2> QED
    BY <1>1, <2>2 DEF CL!Next
<1> QED
  BY <1>3, <1>4

(* Nobody moves, or all stop.                                              *)
LEMMA StillStep ==
    ASSUME CountPaid, ~\E w \in Sessions : Settle(w, "paid"),
           at' = at \/ Restart
    PROVE  CL!Next
<1>1. CL!Book(Fresher, paid) /\ Fresher \in SUBSET {c \in Cards : CL!Holders(c) = {}}
  BY BookUnpaid, FresherIsUnheld
<1>2. CASE at' = at
  <2>1. CL!Renew(Fresher)
    BY <1>1, <1>2 DEF CL!Renew, HeldCard
  <2> QED
    BY <1>1, <2>1 DEF CL!Next
<1>3. CASE Restart
  <2>1. HeldCard' = [w \in Sessions |-> NoCard]
    BY <1>3 DEF Restart, HeldCard, Idle, Processes
  <2>2. CL!LoseAll(Fresher)
    BY <1>1, <2>1 DEF CL!LoseAll
  <2> QED
    BY <1>1, <2>2 DEF CL!Next
<1> QED
  BY <1>2, <1>3

(* A session takes a card of which the store says that a payment is left.  *)
LEMMA TakeStep ==
    ASSUME IsFiniteSet(Sessions), Places(at), OwedInv, CountPaid,
           ~\E v \in Sessions : Settle(v, "paid"),
           NEW w \in Sessions, at[w].pc # "paying",
           NEW s \in Slot, s.card \in Known, Usable(s), Covered(paid, at, s),
           NEW q, q.pc = "paying", q.card = s.card, Moves(w, q)
    PROVE  CL!Next
<1>1. CL!Book(Fresher, paid) /\ Fresher \in SUBSET {c \in Cards : CL!Holders(c) = {}}
  BY BookUnpaid, FresherIsUnheld
<1>2. s.card \in Cards /\ s.pays \in Nat /\ s.pays < MaxPays
  BY SlotFields, CardPoolAssumption DEF Usable, Exhausted
<1>3. Owed(paid, at, s.card) <= s.pays /\ Owed(paid, at, s.card) \in Nat
  BY <1>2, OwedType DEF Covered, OwedInv, Bounded
<1>4. paid[s.card] + Cardinality(CL!Holders(s.card)) < MaxPays
  <2>1. Owed(paid, at, s.card) < MaxPays
    BY <1>2, <1>3, CardPoolAssumption
  <2> QED
    BY <1>2, <2>1, HoldersPay DEF Owed
<1>5. HeldCard[w] = NoCard /\ s.card \notin Fresher
  BY DEF HeldCard, Fresher
<1>6. HeldCard' = [HeldCard EXCEPT ![w] = s.card]
  <2>1. w \in Processes
    BY DEF Processes
  <2>2. /\ \A v \in Sessions : v # w => HeldCard'[v] = HeldCard[v]
        /\ HeldCard'[w] = s.card
    BY <2>1, HeldAfter
  <2> QED
    BY <2>2, HeldIsFunction
<1>7. CL!Take(w, s.card, Fresher)
  BY <1>1, <1>4, <1>5, <1>6, SameCount DEF CL!Take
<1> QED
  BY <1>1, <1>2, <1>7 DEF CL!Next

LEMMA ReserveTakes ==
    ASSUME IsFiniteSet(Sessions), Places(at), OwedInv, CountPaid,
           ~\E v \in Sessions : Settle(v, "paid"),
           NEW w \in Sessions, at[w].pc # "paying", NEW again,
           NEW c \in Slot, NEW n \in Slot,
           Usable(c) => c.card \in Known, Usable(n) => n.card \in Known,
           Covered(paid, at, c), Covered(paid, at, n),
           ReserveFrom(w, c, n, again)
    PROVE  CL!Next
<1>1. PICK s \in {c, n} : Usable(s) /\ Moves(w, [Idle EXCEPT !.pc = "paying", !.card = s.card,
                                                              !.again = again])
  BY DEF ReserveFrom, Moves
<1> DEFINE q == [Idle EXCEPT !.pc = "paying", !.card = s.card, !.again = again]
<1>2. q.pc = "paying" /\ q.card = s.card
  BY DEF Idle
<1>3. Moves(w, q)
  BY <1>1
<1> HIDE DEF q
<1>4. s \in Slot /\ s.card \in Known /\ Covered(paid, at, s)
  BY <1>1
<1> QED
  BY <1>1, <1>2, <1>3, <1>4, TakeStep

(* A payment is booked for the card the session held.                      *)
LEMMA PayStep ==
    ASSUME IsFiniteSet(Sessions), TypeOK, OwedInv, CountPaid,
           NEW w \in Sessions, Settle(w, "paid")
    PROVE  CL!Next
<1> DEFINE d == at[w].card
<1>1. at[w].pc = "paying" /\ Moves(w, Idle)
  BY DEF Settle, Moves
<1>2. Places(at) /\ Idle.pc = "idle" /\ w \in Processes
  BY TypeParts DEF Idle, Processes
<1>3. d \in Cards
  BY <1>1, <1>2 DEF Places
<1>4. ASSUME NEW v \in Sessions, Settle(v, "paid") PROVE v = w
  <2>1. at[v].pc = "paying" /\ at' = [at EXCEPT ![v] = Idle] /\ v \in Processes
    BY <1>4 DEF Settle, Processes
  <2>2. at'[v] = Idle
    BY <1>2, <2>1 DEF Places
  <2>3. v # w => at'[v] = at[v]
    BY <1>1, <1>2, <2>1 DEF Moves, Places
  <2> QED
    BY <1>2, <2>1, <2>2, <2>3
<1>5. paid' = [c \in Cards |-> IF c \notin Known THEN 0
                               ELSE IF c = d THEN More(paid[c]) ELSE paid[c]]
  <2>1. \A c \in Cards : (\E v \in Sessions : at[v].card = c /\ Settle(v, "paid")) <=> c = d
    BY <1>4
  <2> HIDE DEF d, Known, Settle
  <2> QED
    BY <2>1, Zenon DEF CountPaid
<1>6. More(paid[d]) = paid[d] + 1
  <2>1. /\ paid[d] \in Nat /\ Owed(paid, at, d) \in Nat
        /\ paid[d] <= Owed(paid, at, d) /\ Owed(paid, at, d) <= MaxPays
    BY <1>3, OwedType DEF OwedInv, Bounded
  <2>2. paid[d] <= MaxPays
    BY <2>1, CardPoolAssumption
  <2> QED
    BY <2>1, <2>2, CardPoolAssumption DEF More
<1>7. CL!Book(Fresher, [paid EXCEPT ![d] = paid[d] + 1])
  <2> DEFINE k == [paid EXCEPT ![d] = paid[d] + 1]
  <2>1. paid \in [Cards -> Nat]
    BY DEF OwedInv, Bounded
  <2> HIDE DEF d
  <2>2. \A c \in Cards : k[c] = IF c = d THEN More(paid[c]) ELSE paid[c]
    BY <1>6, <2>1
  <2> HIDE DEF k, Known, More
  <2>3. paid' = [c \in Cards |-> IF c \in Fresher THEN 0 ELSE k[c]]
    BY <1>5, <2>2 DEF Fresher
  <2> QED
    BY <2>3 DEF CL!Book, k
<1>8. HeldCard[w] = d /\ HeldCard[w] # NoCard
  BY <1>1, <1>3, CardPoolAssumption DEF HeldCard
<1>9. HeldCard' = [HeldCard EXCEPT ![w] = NoCard]
  <2>1. /\ \A v \in Sessions : v # w => HeldCard'[v] = HeldCard[v]
        /\ HeldCard'[w] = NoCard
    BY <1>1, <1>2, HeldAfter
  <2> QED
    BY <2>1, HeldIsFunction
<1>10. CL!GiveBack(w, Fresher)
  BY <1>7, <1>8, <1>9 DEF CL!GiveBack
<1> QED
  BY <1>10, FresherIsUnheld DEF CL!Next

(* Every step of the pool that keeps the rule of FoundNext is a step of    *)
(* the ledger.                                                             *)
LEMMA LedgerStep ==
    ASSUME IsFiniteSet(Sessions), TypeOK, OwedInv, FoundNext
    PROVE  CL!Next
<1>1. CASE \E w \in Sessions : Settle(w, "paid")
  BY <1>1, PayStep DEF FoundNext
<1>2. CASE ~\E w \in Sessions : Settle(w, "paid")
  <2> USE <1>2
  <2>1. CountPaid /\ Places(at) /\ Idle.pc = "idle"
    BY TypeParts DEF FoundNext, Idle
  <2>2. /\ cur \in Slot /\ next \in Slot /\ Empty \in Slot
        /\ cur.card \in Known /\ next.card \in Known /\ ~Usable(Empty)
        /\ Covered(paid, at, cur) /\ Covered(paid, at, next) /\ Covered(paid, at, Empty)
    BY TypeParts, EmptyIsSlot, EmptyIsCovered DEF OwedInv, Known, Usable, Empty
  <2>3. ASSUME NEW p \in Processes, NEW q, q.pc # "paying", at' = [at EXCEPT ![p] = q]
        PROVE  CL!Next
    BY <2>1, <2>3, QuietStep DEF Moves
  <2>4. ASSUME NEW p \in Processes, NEW c, NEW n, NEW e, NEW again,
               NEW failed, failed.pc # "paying", Begin(p, c, n, e, again, failed)
        PROVE  CL!Next
    BY <2>3, <2>4, BeginMoves
  <2>5. ASSUME NEW w \in Sessions, Checkout(w) PROVE CL!Next
    <3>1. at[w].pc # "paying" /\ w \in Processes
      BY <2>5 DEF Checkout, Processes
    <3>2. CASE ReserveFrom(w, cur, next, FALSE)
      BY <2>1, <2>2, <3>1, <3>2, ReserveTakes
    <3>3. CASE Begin(w, cur, next, recent, FALSE, Idle)
      BY <2>1, <2>4, <3>1, <3>3
    <3> QED
      BY <2>5, <3>2, <3>3 DEF Checkout, CheckoutFrom
  <2>6. ASSUME NEW w \in Sessions, Replace(w) PROVE CL!Next
    <3>1. at[w].pc # "paying" /\ w \in Processes
      BY <2>6 DEF Replace, Processes
    <3>2. CASE ReserveFrom(w, next, Empty, TRUE)
      BY <2>1, <2>2, <3>1, <3>2, ReserveTakes
    <3>3. CASE Begin(w, next, Empty, FALSE, TRUE, Idle)
      BY <2>1, <2>4, <3>1, <3>3
    <3> QED
      BY <2>6, <3>2, <3>3 DEF Replace, CheckoutFrom
  <2>7. ASSUME NEW w \in Sessions, CheckoutReady(w) PROVE CL!Next
    <3>1. at[w].pc # "paying" /\ w \in Processes
      BY <2>7 DEF CheckoutReady, Processes
    <3>2. CASE ReserveFrom(w, cur, next, at[w].again)
      BY <2>1, <2>2, <3>1, <3>2, ReserveTakes
    <3>3. CASE at' = [at EXCEPT ![w] = Idle]
      BY <2>1, <2>3, <3>1, <3>3
    <3> QED
      BY <2>7, <3>2, <3>3 DEF CheckoutReady
  <2>8. ASSUME NEW w \in Sessions, Vanish(w) PROVE CL!Next
    BY <2>1, <2>3, <2>8 DEF Vanish, Processes
  <2>9. ASSUME NEW w \in Sessions, NEW result \in Results, Settle(w, result) PROVE CL!Next
    <3> DEFINE r == [Idle EXCEPT !.pc = "rejected"]
    <3>1. r.pc # "paying" /\ w \in Processes
      BY DEF Idle, Processes
    <3>2. at' = [at EXCEPT ![w] = r] \/ at' = [at EXCEPT ![w] = Idle]
      BY <2>9, Zenon DEF Settle
    <3> HIDE DEF r
    <3> QED
      BY <2>1, <2>3, <3>1, <3>2
  <2>10. ASSUME NEW x \in Warmers, Warm(x) PROVE CL!Next
    <3> DEFINE q == [Idle EXCEPT !.pc = "failed"]
    <3>1. q.pc # "paying" /\ x \in Processes
      BY DEF Idle, Processes
    <3>2. Begin(x, cur, next, recent, FALSE, q)
      BY <2>10, Zenon DEF Warm
    <3> HIDE DEF q
    <3> QED
      BY <2>4, <3>1, <3>2
  <2>11. ASSUME NEW x \in Warmers, RememberError(x) PROVE CL!Next
    BY <2>1, <2>3, <2>11 DEF RememberError, Processes
  <2>12. ASSUME NEW p \in Processes, CreateNext(p) PROVE CL!Next
    <3>1. Finished(p).pc # "paying"
      BY DEF Finished, Idle
    <3>2. at' = [at EXCEPT ![p] = Finished(p)] \/ at' = [at EXCEPT ![p] = Idle]
      BY <2>12 DEF CreateNext, CreateDone, CreateFails, CreateUseless
    <3> QED
      BY <2>1, <2>3, <3>1, <3>2
  <2>13. CASE GrowStale \/ ErrorAges \/ Clear \/ Restart
    <3>1. at' = at \/ Restart
      BY <2>13 DEF GrowStale, ErrorAges, Clear
    <3> QED
      BY <2>1, <3>1, StillStep
  <2> QED
    BY <2>5, <2>6, <2>7, <2>8, <2>9, <2>10, <2>11, <2>12, <2>13
    DEF FoundNext, Next, PoolNext, SessionNext, WarmerNext
<1> QED
  BY <1>1, <1>2

(* The pool implements CardLedger under the same rule: whatever sessions,  *)
(* goroutines, late answers, clearing and restarts do, a session is given  *)
(* a card only while the payments made and the payments under way leave    *)
(* one to make, and a payment is booked once, for the card that was held.  *)
THEOREM ImplementsCardLedger == IsFiniteSet(Sessions) => (FoundSpec => LedgerSpec)
<1> SUFFICES ASSUME IsFiniteSet(Sessions) PROVE FoundSpec => LedgerSpec
  OBVIOUS
<1>1. WatchInit => CL!Init
  BY DEF WatchInit, Init, CL!Init, HeldCard, Idle, Processes
<1>2. TypeOK /\ OwedInv /\ [FoundNext]_<<vars, paid>> => [CL!Next]_<<HeldCard, paid>>
  <2> SUFFICES ASSUME TypeOK, OwedInv, [FoundNext]_<<vars, paid>>
               PROVE  [CL!Next]_<<HeldCard, paid>>
    OBVIOUS
  <2>1. CASE FoundNext
    BY <2>1, LedgerStep
  <2>2. CASE UNCHANGED <<vars, paid>>
    BY <2>2 DEF vars, HeldCard
  <2> QED
    BY <2>1, <2>2
<1> QED
  BY <1>1, <1>2, OwedAlways, PTL DEF FoundSpec, LedgerSpec, CL!Spec
=============================================================================
