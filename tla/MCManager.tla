----------------------------- MODULE MCManager -----------------------------
(***************************************************************************)
(* Instances of parts of the manager that must keep something right at     *)
(* every moment: the proxy with the observers of MCForwarderWatch, the     *)
(* request log, and the catalog of models with a document to read.  They   *)
(* share no state that these properties speak of, so one of them is        *)
(* started and the others stay in one initial state: their states add up   *)
(* instead of multiplying.                                                 *)
(***************************************************************************)
EXTENDS MCForwarderWatch, RequestLog, ModelCatalog

VARIABLES
    part,   \* the part that is started
    text    \* a document that is only read

managerVars == <<part, text, watched, logVars, catalogVars>>

(* Documents: the versions the site brings out, and the short documents    *)
(* of every shape a document may have to the reader.                       *)
Models2 == Heading(2, TRUE)
TableA == Table("list", {"a"})
TableAB == Table("list", {"a", "b"})
Versions == {<<Models2, TableA>>,
             <<Models2, TableAB, Heading(2, FALSE), TableA>>,
             <<Models2, TableAB, Heading(1, TRUE), TableAB>>}
Elements == {Models2, Heading(1, TRUE), Heading(1, FALSE), Heading(2, FALSE),
             Heading(3, FALSE), TableA, TableAB, Table("wrong", {}),
             Table("other", {}), Table("cut", {"a"})}
ASSUME ElementsAssumption == {"a", "b"} \subseteq Rows
Texts == SeqOf(Elements, 4)

ProxyInit ==
    /\ WatchInit
    /\ part # "proxy" => settings.rpm = 1 /\ \A a \in Accounts : ~row[a].stale

LogInit ==
    /\ InitLog
    /\ part # "log" => logs = <<>> /\ \A c, d \in Posts : want[c] = want[d]

CatalogInit ==
    /\ InitCatalog
    /\ part # "catalog" => \A v \in DOMAIN document : document[v] = <<Models2, TableA>>

ManagerInit ==
    /\ part \in {"proxy", "log", "catalog", "document"}
    /\ text \in IF part = "document" THEN Texts ELSE {<<>>}
    /\ ProxyInit /\ LogInit /\ CatalogInit

ManagerNext ==
    /\ UNCHANGED <<part, text>>
    /\ \/ part = "proxy" /\ WatchNext /\ UNCHANGED <<logVars, catalogVars>>
       \/ part = "log" /\ NextLog /\ UNCHANGED <<watched, catalogVars>>
       \/ part = "catalog" /\ NextCatalog /\ UNCHANGED <<watched, logVars>>

ManagerSpec == ManagerInit /\ [][ManagerNext]_managerVars

(* A part that is not started does not change.                             *)
TypeOKManager ==
    CASE part = "proxy"    -> TypeOK
      [] part = "log"      -> TypeOKLog
      [] part = "catalog"  -> TypeOKCatalog
      [] part = "document" -> text \in Seq(Elements)

(* ParseDocument, which reads a document once from top to bottom, finds    *)
(* what it lists by the definition of its sections (document.go:60), and   *)
(* refuses it when two tables disagree, a section has none or the end is   *)
(* missing.                                                                *)
ParseAgrees == ParseDocument(text) = Reference(text)
=============================================================================
