---------------------------- MODULE MCLoginScan ----------------------------
(***************************************************************************)
(* Instances of a login session of Auto and of the usage scan of the       *)
(* manager, two parts that run on their own until they end: one of them is *)
(* started and the other stays as it was before its first call.            *)
(***************************************************************************)
EXTENDS LoginFlow, UsageSync

VARIABLES part   \* the part that is started

(* A renewal of cookies only runs the worker, a refresh of the Go engine   *)
(* sees the identity provider no more, and the phone verification does not *)
(* depend on the provider: choices that make no difference are made once.  *)
LoginInit ==
    /\ Init
    /\ kind = "login" => hasCookies
    /\ kind # "login" => provider = "google"
    /\ smsReady <=> provider = "google"
    /\ part # "login" => kind = "login" /\ python /\ provider = "google"

ScanInit ==
    /\ InitScan
    /\ part # "scan" => \A a \in ScanAccounts : ~urow[a].stale

PartsInit == part \in {"login", "scan"} /\ LoginInit /\ ScanInit

PartsNext ==
    /\ UNCHANGED part
    /\ \/ part = "login" /\ Next /\ UNCHANGED scanVars
       \/ part = "scan" /\ NextScan /\ UNCHANGED vars

(* Before the first call nothing is enabled that fairness speaks of.       *)
PartsSpec ==
    /\ PartsInit /\ [][PartsNext]_<<part, vars, scanVars>>
    /\ Fairness /\ FairScan

TypeOKParts == TypeOK /\ TypeOKScan
=============================================================================
