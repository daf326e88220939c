-------------------------- MODULE EducationDirectory --------------------------
(***************************************************************************)
(* The directory of educational organisations and the partners made from   *)
(* it: handlers/directory_review.go, directory_sync.go,                    *)
(* directory_enrichment.go, directory_programs_enrichment.go,              *)
(* directories.go, imports.go and partners.go.                             *)
(*                                                                         *)
(* Six writers share the rows: an administrator who edits and confirms, a  *)
(* moderator who proposes, an administrator who loads a file, the timed    *)
(* synchronisation with the register, the search of the tax service that   *)
(* fills identifiers (EnrichEducationDirectory) and the collector of       *)
(* programme codes (EnrichDirectoryPrograms).  The last three hold an      *)
(* advisory lock of their own, not the rows: they read what to do, go to   *)
(* the network, and write later.                                           *)
(*                                                                         *)
(* The INN and OGRN of a row are one value, "facts".  The two dates of 35  *)
(* days are one flag, "fresh": every write that confirms a row sets both.  *)
(* programs_checked_at is kept as its place before or after the start of   *)
(* the collector's last run, which is all that the collector asks of it.   *)
(***************************************************************************)
EXTENDS Companies

CONSTANTS
    Orgs,           \* the organisations: a name, a region, a register record
    Facts,          \* the identifiers an organisation may be given
    Forms,          \* the requests of the administrator and the moderator
    DirectoryFiles, \* the files that pass validateDirectoryRows
    Partners        \* the rows of partners

Kinds == {"vuz", "kolledj", "school"}
Codes == {"none", "match", "other"}     \* "match": a code of Order 27 is there

Form == [kind: Kinds, facts: Facts \cup {"none"}, licence: BOOLEAN,
         institution: BOOLEAN, source: {"none", "ministry", "registry"},
         fresh: BOOLEAN, codes: Codes \cup {"keep"}, confirm: BOOLEAN]

FileRow == [kind: Kinds, facts: Facts, licence: BOOLEAN,
            institution: BOOLEAN, codes: Codes \cup {"keep"}]

ASSUME DirectoryAssumption ==
    /\ "none" \notin Facts
    /\ Forms \subseteq Form
    /\ \A f \in DirectoryFiles : DOMAIN f \subseteq Orgs /\ f \in [DOMAIN f -> FileRow]

VARIABLES
    directory,      \* education_directory
    partners,       \* partners: the organisation and the kind copied from it
    edit,           \* the open transaction of UpdateDirectory
    joining,        \* the open transaction of PartnerHandlers.Create
    syncing,        \* the advisory lock of the synchronisation
    syncRun,        \* the status of its last directory_sync_runs row
    search,         \* the run of EnrichEducationDirectory
    collector,      \* the run of EnrichDirectoryPrograms
    confirmed,      \* observer: what a person last confirmed of the row
    author,         \* observer: who saved the codes of the row
    retyped         \* observer: rows whose kind a file changed

directoryVars == <<directory, partners, edit, joining, syncing, syncRun,
                   search, collector, confirmed, author, retyped>>

NoOrg == [kind |-> "none", facts |-> "none", licence |-> FALSE, institution |-> FALSE,
          source |-> "none", fresh |-> FALSE, status |-> "pending", codes |-> "none",
          checked |-> "never", proposed |-> FALSE, listed |-> FALSE]
NoPartner == [org |-> "none", kind |-> "none"]
NoEdit == [org |-> "none"]
NoJoin == [org |-> "none"]
Idle == [on |-> FALSE, left |-> {}, at |-> "none"]

Known == {o \in Orgs : directory[o].kind # "none"}
Joined == {p \in Partners : partners[p] # NoPartner}

OrgRecord ==
    [kind: Kinds \cup {"none"}, facts: Facts \cup {"none"}, licence: BOOLEAN,
     institution: BOOLEAN, source: {"none", "ministry", "registry"}, fresh: BOOLEAN,
     status: {"pending", "verified", "rejected"}, codes: Codes,
     checked: {"never", "stale", "before", "after"}, proposed: BOOLEAN, listed: BOOLEAN]

DirectoryTypeOK ==
    /\ directory \in [Orgs -> OrgRecord]
    /\ partners \in [Partners -> [org: Orgs, kind: Kinds] \cup {NoPartner}]
    /\ edit = NoEdit \/ edit \in [org: Known, form: Forms, late: BOOLEAN]
    /\ joining = NoJoin \/ joining \in [org: Known, partner: Partners, kind: Kinds]
    /\ syncing \in BOOLEAN
    /\ syncRun \in {"none", "started", "completed", "failed"}
    /\ search \in [on: BOOLEAN, left: SUBSET Orgs, at: Orgs \cup {"none"}]
    /\ collector \in [on: BOOLEAN, left: SUBSET Orgs, at: {"none"}]
    /\ author \in [Orgs -> {"earlier", "reviewer", "collector"}]
    /\ retyped \subseteq Orgs

------------------------------------------------------------------------------
(* education_matches_order. *)
MatchesOrder(kind, codes) == kind # "vuz" \/ codes = "match"

(* Directory and PartnerHandlers.Create: a row that a partner is made from. *)
Selectable(d) ==
    /\ d.status = "verified" /\ d.licence /\ d.institution /\ d.fresh
    /\ MatchesOrder(d.kind, d.codes)
    /\ d.kind = "vuz" => d.listed

(* normalizeDirectoryWrite: what a confirmation needs. *)
Complete(r) == r.facts # "none" /\ r.source # "none" /\ r.fresh

Identity(r) == [facts |-> r.facts, licence |-> r.licence, institution |-> r.institution]

(* Mutant: the row is read without FOR SHARE. *)
SharedByNobody(o) == FALSE

(* The row is locked: FOR UPDATE of the edit, FOR SHARE of the new partner. *)
Edited(o) == edit.org = o
Shared(o) == joining.org = o
Free(o) == ~ Edited(o) /\ ~ Shared(o)

(* Mutant: codes that were not given are written too. *)
CodesGiven(old, given) == given

(* programs_checked_at = now() of a transaction that begins and ends here. *)
CodesAfter(old, given) == IF given = "keep" THEN old.codes ELSE given
CheckedAfter(old, given) == IF given = "keep" THEN old.checked ELSE "after"

------------------------------------------------------------------------------
(* UpdateDirectory, to its locks and checks.  now() is the beginning of the *)
(* transaction: "late" is whether the collector's run began before it.      *)
OpenUpdate(o, f) ==
    /\ Counted("reviewer")
    /\ edit = NoEdit
    /\ o \in Known /\ Free(o)
    /\ f.confirm => Complete(f) /\ MatchesOrder(f.kind, CodesAfter(directory[o], f.codes))
    /\ edit' = [org |-> o, form |-> f, late |-> TRUE]
    /\ UNCHANGED <<directory, partners, joining, syncing, syncRun, search, collector,
                   confirmed, author, retyped>>

FormChecked(old, e) ==
    CASE e.form.codes = "keep" -> old.checked
      [] e.late -> "after"
      [] OTHER -> "before"

CommitUpdate ==
    LET o == edit.org
        f == edit.form
        old == directory[o]
    IN  /\ edit # NoEdit
        /\ directory' = [directory EXCEPT ![o] =
              [kind |-> f.kind, facts |-> f.facts, licence |-> f.licence,
               institution |-> f.institution, source |-> f.source, fresh |-> f.fresh,
               status |-> IF f.confirm THEN "verified" ELSE "pending",
               codes |-> CodesAfter(old, f.codes), checked |-> FormChecked(old, edit),
               proposed |-> old.proposed, listed |-> old.listed]]
        /\ partners' = [p \in Partners |->
              IF partners[p].org = o THEN [partners[p] EXCEPT !.kind = f.kind] ELSE partners[p]]
        /\ confirmed' = IF f.confirm THEN [confirmed EXCEPT ![o] = Identity(f)] ELSE confirmed
        /\ author' = IF f.codes = "keep" THEN author ELSE [author EXCEPT ![o] = "reviewer"]
        /\ retyped' = retyped \ {o}
        /\ edit' = NoEdit
        /\ UNCHANGED <<joining, syncing, syncRun, search, collector>>

(* The transaction fails: a duplicate name, an error of the journal. *)
AbandonUpdate ==
    /\ edit # NoEdit
    /\ edit' = NoEdit
    /\ UNCHANGED <<directory, partners, joining, syncing, syncRun, search, collector,
                   confirmed, author, retyped>>

(* CreateDirectory: a moderator only proposes; an administrator's row that  *)
(* is not confirmed joins the proposals too.                                *)
CreateDirectory(o, f, moderator) ==
    LET confirm == f.confirm /\ ~ moderator
        codes == IF f.codes = "keep" THEN "none" ELSE f.codes
    IN  /\ Counted(IF moderator THEN "moderator" ELSE "reviewer")
        /\ o \notin Known
        /\ f.source # "none"
        /\ f.kind = "vuz" => codes # "none"
        /\ confirm => /\ Complete(f) /\ f.licence /\ f.institution
                      /\ MatchesOrder(f.kind, codes)
        /\ directory' = [directory EXCEPT ![o] =
              [kind |-> f.kind, facts |-> f.facts, licence |-> f.licence,
               institution |-> f.institution, source |-> f.source, fresh |-> f.fresh,
               status |-> IF confirm THEN "verified" ELSE "pending", codes |-> codes,
               checked |-> IF codes = "none" THEN "never" ELSE "after",
               proposed |-> ~ confirm,
               listed |-> f.kind = "vuz" /\ f.source = "ministry"]]
        /\ confirmed' = IF confirm THEN [confirmed EXCEPT ![o] = Identity(f)] ELSE confirmed
        /\ author' = [author EXCEPT ![o] = "reviewer"]
        /\ UNCHANGED <<partners, edit, joining, syncing, syncRun, search, collector, retyped>>

(* DecideDirectoryProposal: under the row lock, of a pending proposal. *)
Undecided(o) == o \in Known /\ directory[o].proposed /\ directory[o].status = "pending"

Approve(o) ==
    LET d == directory[o]
    IN  /\ Counted("reviewer")
        /\ Undecided(o) /\ Free(o)
        /\ Complete(d) /\ d.licence /\ d.institution
        /\ MatchesOrder(d.kind, d.codes)
        /\ directory' = [directory EXCEPT ![o].status = "verified",
              ![o].listed = @ \/ (d.kind = "vuz" /\ d.source = "ministry")]
        /\ confirmed' = [confirmed EXCEPT ![o] = Identity(d)]
        /\ UNCHANGED <<partners, edit, joining, syncing, syncRun, search, collector,
                       author, retyped>>

Reject(o) ==
    /\ Counted("reviewer")
    /\ Undecided(o) /\ Free(o)
    /\ directory' = [directory EXCEPT ![o].status = "rejected"]
    /\ UNCHANGED <<partners, edit, joining, syncing, syncRun, search, collector,
                   confirmed, author, retyped>>

------------------------------------------------------------------------------
(* upsertDirectoryRows: one row of a file over the stored one.  A partner   *)
(* made from the row is not touched.                                        *)
Upserted(old, row, status) ==
    [old EXCEPT !.kind = row.kind, !.facts = row.facts, !.licence = row.licence,
                !.institution = row.institution, !.source = "registry", !.fresh = TRUE,
                !.status = status, !.codes = CodesAfter(old, row.codes),
                !.checked = CheckedAfter(old, row.codes)]

UpsertRows(f, status) ==
    /\ \A o \in DOMAIN f : Free(o)
    /\ directory' = [o \in Orgs |->
          IF o \in DOMAIN f THEN Upserted(directory[o], f[o], status) ELSE directory[o]]
    /\ retyped' = retyped \cup {o \in DOMAIN f \cap Known : f[o].kind # directory[o].kind}

(* ImportDirectory with commit: an administrator's file confirms its rows. *)
ImportDirectory(f) ==
    /\ Counted("reviewer")
    /\ UpsertRows(f, "verified")
    /\ confirmed' = [o \in Orgs |-> IF o \in DOMAIN f THEN Identity(f[o]) ELSE confirmed[o]]
    /\ author' = [o \in Orgs |-> IF o \in DOMAIN f /\ f[o].codes # "keep"
                                 THEN "reviewer" ELSE author[o]]
    /\ UNCHANGED <<partners, edit, joining, syncing, syncRun, search, collector>>

(* syncDirectoryOnce: the lock and the row of the run, ... *)
SyncStart ==
    /\ Counted("sync")
    /\ ~ syncing
    /\ syncing' = TRUE
    /\ syncRun' = "started"
    /\ UNCHANGED <<directory, partners, edit, joining, search, collector,
                   confirmed, author, retyped>>

(* ... one transaction with the whole file and the end of the run, ... *)
SyncApply(f) ==
    /\ syncing
    /\ UpsertRows(f, "pending")
    /\ author' = [o \in Orgs |-> IF o \in DOMAIN f /\ f[o].codes # "keep"
                                 THEN "earlier" ELSE author[o]]
    /\ syncing' = FALSE
    /\ syncRun' = "completed"
    /\ UNCHANGED <<partners, edit, joining, search, collector, confirmed>>

(* ... or nothing but the failure: a download, a row that does not pass.  A *)
(* replica that dies leaves the run as started and loses the lock.          *)
SyncFail(died) ==
    /\ syncing
    /\ syncing' = FALSE
    /\ syncRun' = IF died THEN syncRun ELSE "failed"
    /\ UNCHANGED <<directory, partners, edit, joining, search, collector,
                   confirmed, author, retyped>>

------------------------------------------------------------------------------
(* EnrichEducationDirectory: the candidates are read once, without locks. *)
SearchStart ==
    /\ Counted("search")
    /\ ~ search.on
    /\ search' = [on |-> TRUE, at |-> "none",
                  left |-> {o \in Known : directory[o].status = "pending" /\ directory[o].facts = "none"}]
    /\ UNCHANGED <<directory, partners, edit, joining, syncing, syncRun, collector,
                   confirmed, author, retyped>>

(* Before its search a candidate is made pending, whatever it is by now. *)
SearchReset(o) ==
    /\ search.at = "none" /\ o \in search.left
    /\ Free(o)
    /\ directory' = [directory EXCEPT ![o].status = "pending"]
    /\ search' = [search EXCEPT !.at = o, !.left = @ \ {o}]
    /\ UNCHANGED <<partners, edit, joining, syncing, syncRun, collector,
                   confirmed, author, retyped>>

(* Mutant: the row has been made pending before the search; that will do. *)
SearchWriteOnly(facts, alive) ==
    LET o == search.at
    IN  /\ o # "none" /\ Free(o)
        /\ directory' = [directory EXCEPT ![o].facts = facts, ![o].institution = alive,
              ![o].source = "registry", ![o].fresh = TRUE]
        /\ search' = [search EXCEPT !.at = "none"]
        /\ UNCHANGED <<partners, edit, joining, syncing, syncRun, collector,
                       confirmed, author, retyped>>

(* A match is written over the row as it is after the search. *)
SearchWrite(facts, alive) ==
    LET o == search.at
    IN  /\ o # "none" /\ Free(o)
        /\ directory' = [directory EXCEPT ![o].facts = facts, ![o].institution = alive,
              ![o].source = "registry", ![o].fresh = TRUE, ![o].status = "pending"]
        /\ search' = [search EXCEPT !.at = "none"]
        /\ UNCHANGED <<partners, edit, joining, syncing, syncRun, collector,
                       confirmed, author, retyped>>

SearchMiss ==
    /\ search.at # "none"
    /\ search' = [search EXCEPT !.at = "none"]
    /\ UNCHANGED <<directory, partners, edit, joining, syncing, syncRun, collector,
                   confirmed, author, retyped>>

(* The list is done, or an error or a stop ends the run where it stands. *)
SearchEnd ==
    /\ search.on
    /\ search' = Idle
    /\ UNCHANGED <<directory, partners, edit, joining, syncing, syncRun, collector,
                   confirmed, author, retyped>>

------------------------------------------------------------------------------
(* EnrichDirectoryPrograms: startedAt is taken and the candidates are read. *)
CollectStart ==
    /\ Counted("collector")
    /\ ~ collector.on
    /\ collector' = [on |-> TRUE, at |-> "none",
                     left |-> {o \in Known : /\ directory[o].kind = "vuz"
                                             /\ directory[o].checked \in {"never", "stale"}}]
    /\ directory' = [o \in Orgs |->
          [directory[o] EXCEPT !.checked = IF @ = "after" THEN "before" ELSE @]]
    /\ edit' = IF edit = NoEdit THEN edit ELSE [edit EXCEPT !.late = FALSE]
    /\ author' = [o \in Orgs |-> IF author[o] = "collector" THEN "collector" ELSE "earlier"]
    /\ UNCHANGED <<partners, joining, syncing, syncRun, search, confirmed, retyped>>

(* A worker has found codes: it leaves a row checked since the run began. *)
CollectSave(o, codes) ==
    /\ o \in collector.left /\ Free(o)
    /\ directory[o].checked # "after"
    /\ directory' = [directory EXCEPT ![o].codes = codes, ![o].checked = "after"]
    /\ author' = [author EXCEPT ![o] = "collector"]
    /\ collector' = [collector EXCEPT !.left = @ \ {o}]
    /\ UNCHANGED <<partners, edit, joining, syncing, syncRun, search, confirmed, retyped>>

(* No codes were found, or the row was checked meanwhile. *)
CollectLeave(o) ==
    /\ o \in collector.left
    /\ collector' = [collector EXCEPT !.left = @ \ {o}]
    /\ UNCHANGED <<directory, partners, edit, joining, syncing, syncRun, search,
                   confirmed, author, retyped>>

CollectEnd ==
    /\ collector.on
    /\ collector' = Idle
    /\ UNCHANGED <<directory, partners, edit, joining, syncing, syncRun, search,
                   confirmed, author, retyped>>

------------------------------------------------------------------------------
(* PartnerHandlers.Create: the row is read FOR SHARE and must be            *)
(* selectable; the partner, its first agreement and its academic periods    *)
(* are one transaction.                                                     *)
OpenPartner(p, o) ==
    /\ Counted("staff")
    /\ joining = NoJoin
    /\ p \notin Joined
    /\ o \in Known /\ ~ Edited(o)
    /\ Selectable(directory[o])
    /\ \A q \in Joined : partners[q].org # o
    /\ joining' = [org |-> o, partner |-> p, kind |-> directory[o].kind]
    /\ UNCHANGED <<directory, partners, edit, syncing, syncRun, search, collector,
                   confirmed, author, retyped>>

ClosePartner(committed) ==
    /\ joining # NoJoin
    /\ partners' = IF committed
                   THEN [partners EXCEPT ![joining.partner] =
                            [org |-> joining.org, kind |-> joining.kind]]
                   ELSE partners
    /\ joining' = NoJoin
    /\ UNCHANGED <<directory, edit, syncing, syncRun, search, collector,
                   confirmed, author, retyped>>

(* More than 35 days pass with no run and no transaction open. *)
Month ==
    /\ Counted("month")
    /\ edit = NoEdit /\ joining = NoJoin /\ ~ syncing
    /\ ~ search.on /\ ~ collector.on
    /\ directory' = [o \in Orgs |-> [directory[o] EXCEPT !.fresh = FALSE,
                        !.checked = IF @ = "never" THEN @ ELSE "stale"]]
    /\ UNCHANGED <<partners, edit, joining, syncing, syncRun, search, collector,
                   confirmed, author, retyped>>

DirectoryNext ==
    \/ \E o \in Orgs, f \in Forms : OpenUpdate(o, f)
    \/ (CommitUpdate \/ AbandonUpdate) /\ UNCHANGED <<busy, writes>>
    \/ \E o \in Orgs, f \in Forms, m \in BOOLEAN : CreateDirectory(o, f, m)
    \/ \E o \in Orgs : Approve(o) \/ Reject(o)
    \/ \E f \in DirectoryFiles : ImportDirectory(f)
    \/ SyncStart
    \/ /\ \/ \E f \in DirectoryFiles : SyncApply(f)
          \/ \E died \in BOOLEAN : SyncFail(died)
       /\ UNCHANGED <<busy, writes>>
    \/ SearchStart
    \/ /\ \/ \E o \in Orgs : SearchReset(o)
          \/ \E f \in Facts, alive \in BOOLEAN : SearchWrite(f, alive)
          \/ SearchMiss \/ SearchEnd
       /\ UNCHANGED <<busy, writes>>
    \/ CollectStart
    \/ /\ \/ \E o \in Orgs, c \in {"match", "other"} : CollectSave(o, c)
          \/ \E o \in Orgs : CollectLeave(o)
          \/ CollectEnd
       /\ UNCHANGED <<busy, writes>>
    \/ \E p \in Partners, o \in Orgs : OpenPartner(p, o)
    \/ \E c \in BOOLEAN : ClosePartner(c) /\ UNCHANGED <<busy, writes>>
    \/ Month

------------------------------------------------------------------------------
(* Nothing automatic is trusted: the identifiers, the licence and the state *)
(* of a verified organisation are those that a person confirmed, in a form, *)
(* a decision or a file, though the search and the synchronisation write    *)
(* over rows they read earlier (EnrichEducationDirectory).                  *)
VerifiedIsAsConfirmed ==
    \A o \in Known : directory[o].status = "verified" => Identity(directory[o]) = confirmed[o]

(* A partner has the kind of its organisation, also when the organisation   *)
(* is edited while the partner is being made; only a file that changes the  *)
(* kind leaves the partner behind (PartnerHandlers.Create, UpdateDirectory, *)
(* upsertDirectoryRows).                                                    *)
PartnersFollowTheirRecord ==
    \A p \in Joined : \/ partners[p].kind = directory[partners[p].org].kind
                      \/ partners[p].org \in retyped

(* Of the collector: "it protects the changes a reviewer saved after the    *)
(* run began" (docs/DIRECTORY_AND_AGREEMENTS.md).                           *)
ReviewersCodesStay ==
    [][\A o \in Orgs : author[o] = "reviewer" => author'[o] # "collector"]_directoryVars
==============================================================================
