-------------------------- MODULE MCProxyTransfer --------------------------
(***************************************************************************)
(* Instances of the proxy with everything that may happen around it, and   *)
(* of the transfer of an account's cookie.  The two share no state that    *)
(* their properties speak of, so one of them is started and the other      *)
(* stays in one initial state: their states add up instead of multiplying. *)
(***************************************************************************)
EXTENDS Forwarder, CookieTransfer, TLC

VARIABLES part   \* the part that is started

PartsInit ==
    /\ part \in {"proxy", "transfer"}
    /\ Init
    /\ part # "proxy" => settings.rpm = 1 /\ \A a \in Accounts : ~row[a].stale
    /\ InitTransfer
    /\ part # "transfer" => ours = NoOne /\ remote = NoOne

PartsNext ==
    /\ UNCHANGED part
    /\ \/ part = "proxy" /\ Next /\ UNCHANGED transferVars
       \/ part = "transfer" /\ NextTransfer /\ UNCHANGED vars

PartsSpec == PartsInit /\ [][PartsNext]_<<part, vars, transferVars>>

(* A part that is not started does not change.                             *)
TypeOKParts == IF part = "proxy" THEN TypeOK ELSE TypeOKTransfer

SymmetricRequests == Permutations(Requests)

(* The copies of a row that somebody has read and may still write: one at  *)
(* most, or any of the imports, or, where nothing has been imported, an    *)
(* upload beside a scan or a login of Auto, or a result that the poller    *)
(* has read beside a scan of the manager.                                  *)
Some(held) == IF held THEN 1 ELSE 0
HeldForAuto == Some(keep.row # NoOne) + Some(restore # NoRestore)
HeldForPool == Some(sync.result # NoOne) + Some(scanned # NoOne)
Held == Cardinality(import) + HeldForAuto + HeldForPool
FewHeld ==
    \/ Held <= 1 \/ Held = Cardinality(import)
    \/ import = {} /\ imported = NoOne /\ Held \in {HeldForAuto, HeldForPool}
=============================================================================
