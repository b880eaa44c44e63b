---------------------------- MODULE ModelCatalog ----------------------------
(***************************************************************************)
(* The catalog of models of the manager (internal/gomodel): the document   *)
(* it is read from (document.go), and the refreshes that replace the cached*)
(* and the published list (sync.go, catalog.go, store/model_catalog.go).   *)
(*                                                                         *)
(* A refresh is started by the hourly loop or by hand; it asks for the     *)
(* document unless it is the one it has, reads it, saves the list and      *)
(* publishes it.  The site changes its document at any time, and answers   *)
(* may be late, cut short or without validators; the process may die       *)
(* between any two steps.                                                  *)
(***************************************************************************)
EXTENDS Integers, Sequences, SequencesExt

CONSTANTS
    Rows,         \* rows that a table of models may have
    Documents,    \* what the site may publish
    LastVersion,  \* versions of its document, one after the other
    Callers,   \* callers of Refresh: the loop, the administrator
    Nil

ASSUME VersionsAssumption == LastVersion \in Nat \ {0} /\ Nil \notin 1..LastVersion

VARIABLES
    document,   \* the document of each version
    version,    \* the one the site serves now
    published,  \* Syncer.snapshot and the catalog
    cached,     \* the row of model_catalog
    syncing,    \* status.Syncing
    refresh     \* what each caller has got so far

catalogVars == <<document, version, published, cached, syncing, refresh>>

-----------------------------------------------------------------------------
(* Documents.  An element is a heading or a table; a table lists models    *)
(* (one that lists none counts as wrong), has a wrong row, is about other  *)
(* things or is cut short.                                                 *)

Heading(level, models) == [heading |-> TRUE, level |-> level, models |-> models]
Table(state, rows) == [heading |-> FALSE, state |-> state, rows |-> rows]

Headings == [heading : {TRUE}, level : 1..6, models : BOOLEAN]
Tables == {Table("list", rows) : rows \in (SUBSET Rows) \ {{}}} \cup
          [heading : {FALSE}, state : {"wrong", "other", "cut"}, rows : SUBSET Rows]
ASSUME DocumentsAssumption == Documents \subseteq Seq(Headings \cup Tables)

(* documentTablesComplete: a table that is cut short has no closing tag.   *)
(* Mutant: a table that is cut short counts as read.                       *)
MutComplete(doc) == TRUE
Complete(doc) == \A i \in DOMAIN doc : doc[i].heading \/ doc[i].state # "cut"

(* ParseDocument: one element after the other; section is the level of the *)
(* Models section at hand or 0, has whether it had a table.                *)
Failed(s) == [s EXCEPT !.ok = FALSE]

(* Mutant: only a heading above the section's own level ends it.           *)
MutEnds(s, e) == s.section # 0 /\ (e.level < s.section \/ e.models)
Ends(s, e) == s.section # 0 /\ (e.level <= s.section \/ e.models)

ReadHeading(s, e) ==
    LET closed == IF ~Ends(s, e) THEN s
                  ELSE IF ~s.has THEN Failed(s) ELSE [s EXCEPT !.section = 0]
    IN IF e.models THEN [closed EXCEPT !.found = TRUE, !.section = e.level, !.has = FALSE]
       ELSE closed

(* parseDocumentTable and sameDocumentModels.                              *)
ReadTable(s, e) ==
    IF s.section = 0 \/ e.state = "other" THEN s
    ELSE IF e.state = "wrong" THEN Failed(s)
    ELSE IF s.rows = {} THEN [s EXCEPT !.has = TRUE, !.rows = e.rows]
    ELSE IF s.rows = e.rows THEN [s EXCEPT !.has = TRUE]
    ELSE Failed(s)

Read(s, e) == IF ~s.ok THEN s
              ELSE IF e.heading THEN ReadHeading(s, e) ELSE ReadTable(s, e)

(* The models, or nothing when the document is refused.                    *)
Unread == [ok |-> TRUE, found |-> FALSE, section |-> 0, has |-> FALSE, rows |-> {}]
ParseDocument(doc) ==
    LET s == FoldLeft(Read, Unread, doc)
    IN IF Complete(doc) /\ s.ok /\ s.found /\ s.rows # {} /\ (s.section # 0 => s.has)
       THEN s.rows ELSE {}

(* What of a document may arrive: all of it, or as far as some element,    *)
(* of a table that lists models the first rows.                            *)
Cut(table) == {[table EXCEPT !.state = "cut", !.rows = rows] : rows \in SUBSET table.rows}
Arrives(doc) ==
    {doc} \cup UNION {
        {SubSeq(doc, 1, n - 1)} \cup
        {Append(SubSeq(doc, 1, n - 1), e) : e \in IF doc[n].heading THEN {} ELSE Cut(doc[n])}
            : n \in DOMAIN doc}

-----------------------------------------------------------------------------
(* Refreshes.  A snapshot has its models, the two validators (the version  *)
(* each names) and, which no code reads, the version it came from.         *)

Bodies == UNION {Arrives(d) : d \in Documents}
Snapshots == [models : {ParseDocument(body) : body \in Bodies} \cup {{"builtin"}},
              etag : 1..LastVersion \cup {Nil}, modified : 1..LastVersion \cup {Nil},
              of : 0..LastVersion]
Builtin == [models |-> {"builtin"}, etag |-> Nil, modified |-> Nil, of |-> 0]
ASSUME NilAssumption == Nil \notin Snapshots
Idle == [at |-> "idle", previous |-> Builtin, next |-> Builtin]

InitCatalog ==
    /\ document \in [1..LastVersion -> Documents]
    /\ version = 1
    /\ published = Builtin /\ cached = Nil
    /\ syncing = FALSE
    /\ refresh = [c \in Callers |-> Idle]

TypeOKCatalog ==
    /\ document \in [1..LastVersion -> Documents] /\ version \in 1..LastVersion
    /\ published \in Snapshots /\ cached \in Snapshots \cup {Nil}
    /\ syncing \in BOOLEAN
    /\ \A c \in Callers :
          /\ refresh[c].at \in {"idle", "fetch", "save", "publish"}
          /\ refresh[c].previous \in Snapshots /\ refresh[c].next \in Snapshots

Moves(c, at) == refresh' = [refresh EXCEPT ![c].at = at]

(* Mutant: a refresh that is under way is not looked for.                  *)
MutAskSite(c) ==
    /\ refresh[c].at = "idle"
    /\ syncing' = TRUE
    /\ refresh' = [refresh EXCEPT ![c] = [at |-> "fetch", previous |-> published,
                                          next |-> Builtin]]
    /\ UNCHANGED <<document, version, published, cached>>
AskSite(c) ==
    /\ refresh[c].at = "idle" /\ ~syncing
    /\ syncing' = TRUE
    /\ refresh' = [refresh EXCEPT ![c] = [at |-> "fetch", previous |-> published,
                                          next |-> Builtin]]
    /\ UNCHANGED <<document, version, published, cached>>

(* Any error leaves the list and its validators as they are.               *)
RefreshFails(c) ==
    /\ refresh[c].at \in {"fetch", "save"}
    /\ refresh' = [refresh EXCEPT ![c] = Idle] /\ syncing' = FALSE
    /\ UNCHANGED <<document, version, published, cached>>

(* The validators an answer carries, of the version that is served.        *)
Validators == {Nil, version} \X {Nil, version}
Names(seen, before) == IF seen = Nil THEN before ELSE seen

(* 304: the site takes the ETag for the better validator.                  *)
NotModified(c) ==
    LET p == refresh[c].previous
    IN /\ refresh[c].at = "fetch"
       /\ version = IF p.etag # Nil THEN p.etag ELSE p.modified
       /\ \E v \in Validators :
             refresh' = [refresh EXCEPT ![c].at = "save",
                 ![c].next = [p EXCEPT !.etag = Names(v[1], @), !.modified = Names(v[2], @)]]
       /\ UNCHANGED <<document, version, published, cached, syncing>>

(* 200: the validators are those of this answer or none.                   *)
(* Mutant: validators the answer does not carry are kept.                  *)
MutTagged(seen, before) == IF seen = Nil THEN before ELSE seen
Tagged(seen, before) == seen
BodyArrives(c) ==
    /\ refresh[c].at = "fetch"
    /\ \E body \in Arrives(document[version]), v \in Validators :
          /\ ParseDocument(body) # {}
          /\ refresh' = [refresh EXCEPT ![c].at = "save",
                 ![c].next = [models |-> ParseDocument(body),
                              etag |-> Tagged(v[1], refresh[c].previous.etag),
                              modified |-> Tagged(v[2], refresh[c].previous.modified),
                              of |-> version]]
    /\ UNCHANGED <<document, version, published, cached, syncing>>

SaveCatalog(c) ==
    /\ refresh[c].at = "save" /\ Moves(c, "publish")
    /\ cached' = refresh[c].next
    /\ UNCHANGED <<document, version, published, syncing>>

Publish(c) ==
    /\ refresh[c].at = "publish"
    /\ published' = refresh[c].next
    /\ refresh' = [refresh EXCEPT ![c] = Idle] /\ syncing' = FALSE
    /\ UNCHANGED <<document, version, cached>>

(* The site brings out the next version.                                   *)
NewVersion ==
    /\ version < LastVersion /\ version' = version + 1
    /\ UNCHANGED <<document, published, cached, syncing, refresh>>

(* NewSyncer: the cached list, or the one that is built in when there is   *)
(* none, when it cannot be loaded or when it is refused; the row stays.    *)
RestartCatalog ==
    /\ published' \in {Builtin} \cup ({cached} \ {Nil})
    /\ syncing' = FALSE
    /\ refresh' = [c \in Callers |-> Idle]
    /\ UNCHANGED <<document, version, cached>>

NextCatalog ==
    \/ \E c \in Callers :
          \/ AskSite(c) \/ RefreshFails(c) \/ NotModified(c)
          \/ BodyArrives(c) \/ SaveCatalog(c) \/ Publish(c)
    \/ NewVersion \/ RestartCatalog

SpecCatalog == InitCatalog /\ [][NextCatalog]_catalogVars

-----------------------------------------------------------------------------
(* What a document lists, without reading it from top to bottom: a section *)
(* runs from a Models heading to the next heading that is not below it or  *)
(* is one itself; there is one, each has a table of models, and all tables *)
(* in them say the same.                                                   *)
Reference(doc) ==
    LET starts == {i \in DOMAIN doc : doc[i].heading /\ doc[i].models}
        within(i) == {j \in (i + 1)..Len(doc) :
            ~\E k \in (i + 1)..j : doc[k].heading /\ (doc[k].level <= doc[i].level \/ doc[k].models)}
        tables(i) == {doc[j] : j \in {k \in within(i) : ~doc[k].heading /\ doc[k].state # "other"}}
        all == UNION {tables(i) : i \in starts}
    IN IF /\ Complete(doc)
          /\ \A i \in starts : tables(i) # {}
          /\ \E rows \in {t.rows : t \in all} : \A t \in all : t.state = "list" /\ t.rows = rows
       THEN UNION {t.rows : t \in all} ELSE {}

(* A list that is published or cached is the whole list of the version it  *)
(* came from, however little of the answer arrived (document.go:20 "a      *)
(* partial document cannot silently remove models"), and a validator sent  *)
(* with the next request never names a version that lists something else:  *)
(* a 304 would then keep the wrong list for good (sync.go:155-189).        *)
ListIsWhole ==
    \A s \in {published, cached} \ {Nil, Builtin} :
        /\ Reference(document[s.of]) # {} => s.models = Reference(document[s.of])
        /\ \A v \in {s.etag, s.modified} \ {Nil} :
              Reference(document[v]) # {} => s.models = Reference(document[v])

(* No refresh replaces the list by one of an older version, not even when  *)
(* its answer was slow (sync.go:113); a restart does only where it falls   *)
(* back to the list that is built in (sync.go:85-93), and the cached list  *)
(* never becomes older, not even by the first refresh after a fallback,    *)
(* which compares with nothing (sync.go:152, :198).                        *)
NeverOlder ==
    [][/\ published'.of >= published.of \/ (RestartCatalog /\ published' = Builtin)
       /\ cached # Nil => cached' # Nil /\ cached'.of >= cached.of]_catalogVars
=============================================================================
