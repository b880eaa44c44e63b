----------------------------- MODULE CardLedger -----------------------------
(***************************************************************************)
(* What the card pool promises about payments (auto/internal/api/          *)
(* amzkeys.go): a session holds one card at a time, it is given a card     *)
(* only while payments made and payments under way leave one to make, and  *)
(* only a session that holds a card can spend a payment of it.             *)
(***************************************************************************)
EXTENDS Naturals, FiniteSets

CONSTANTS Sessions, Cards, NoCard, MaxPays

VARIABLES holds,   \* the card each session pays with, or NoCard
          spent    \* the accounts each card has paid for

Holders(c) == {w \in Sessions : holds[w] = c}

Init ==
    /\ holds = [w \in Sessions |-> NoCard]
    /\ spent = [c \in Cards |-> 0]

(* The numbers new, which nobody holds, stand for new cards from now on.   *)
Book(new, count) == spent' = [c \in Cards |-> IF c \in new THEN 0 ELSE count[c]]

Take(w, c, new) ==
    /\ holds[w] = NoCard
    /\ c \notin new
    /\ spent[c] + Cardinality(Holders(c)) < MaxPays
    /\ holds' = [holds EXCEPT ![w] = c]
    /\ Book(new, spent)

GiveBack(w, new) ==
    /\ holds[w] # NoCard
    /\ holds' = [holds EXCEPT ![w] = NoCard]
    /\ Book(new, spent) \/ Book(new, [spent EXCEPT ![holds[w]] = @ + 1])

(* The process ends, or nobody takes and nobody gives back.                *)
LoseAll(new) == holds' = [w \in Sessions |-> NoCard] /\ Book(new, spent)

Renew(new) == UNCHANGED holds /\ Book(new, spent)

Next ==
    \E new \in SUBSET {c \in Cards : Holders(c) = {}} :
        \/ \E w \in Sessions, c \in Cards : Take(w, c, new)
        \/ \E w \in Sessions : GiveBack(w, new)
        \/ LoseAll(new)
        \/ Renew(new)

Spec == Init /\ [][Next]_<<holds, spent>>
=============================================================================
