------------------------------ MODULE Evidence ------------------------------
(***************************************************************************)
(* The evidence of an entry of the plan or of the fact: its documents with *)
(* their review and their signature, the legal disputes, the components of *)
(* a TOP-IT program, and what is read from them: the readiness of the      *)
(* entry, its admission to the count and its risk.  Nothing of the verdict *)
(* is stored; every reader computes it anew (compliance, risk, the view    *)
(* entry_eligibility).                                                     *)
(*                                                                         *)
(* The texts of a card are abstracted to one fact, `card', that says       *)
(* whether the fields the matrix asks of the category hold, and one,       *)
(* `refs`, that says whether it names its documents by reference; the      *)
(* documents the matrix asks for keep their logic.                         *)
(***************************************************************************)
EXTENDS FiniteSetsExt, Sequences, Integers

CONSTANTS
    Ids,            \* entries
    CardOf,         \* entry -> partner, category, audience, year, period, semester, units
    Amounts,        \* sums an entry may have
    Docs,           \* attachments
    EntryOf,        \* attachment -> entry
    TypeOf,         \* attachment -> type of document
    Details,        \* versions of the details of a document (number, date, signer)
    SignedDetails,  \* the versions that describe a signature
    Matrix,         \* category -> requirements of documents
    TopCategory,    \* the category with components (top_it)
    Items,          \* components of TOP programs
    Reviewers,      \* open forms of a document
    Starts,         \* stocks of entries, documents and reports to begin with
    MaxWrites       \* bound: changes of the source in a behaviour

ASSUME EvidenceAssumption ==
    /\ EntryOf \in [Docs -> Ids] /\ SignedDetails \subseteq Details
    /\ DOMAIN CardOf = Ids /\ DOMAIN TypeOf = Docs
    /\ \A i \in Ids : /\ CardOf[i].period \in {"plan", "fact"}
                      /\ CardOf[i].category \in DOMAIN Matrix
    /\ 0 \in Details /\ 0 \notin SignedDetails /\ MaxWrites \in Nat /\ IsFiniteSet(Ids) /\ Amounts \subseteq Nat

VARIABLES
    entries,    \* entry -> its row, or NoEntry
    docs,       \* attachment -> its row, or NoDoc
    disputes,   \* entry -> sequence of disputes
    items,      \* component -> its row, or NoItem
    report,     \* <<year, period>> -> the report of the agreement
    reviews,    \* form -> the review under way
    writes      \* changes of the source so far, counted from the start's own number

evidenceVars == <<entries, docs, disputes, items, report, reviews, writes>>

Category(i) == CardOf[i].category
Types == {TypeOf[d] : d \in Docs}
Kinds == {"support", "scholarship", "case", "rid"}
NoEntry == [at |-> "absent"]
NoDoc == [at |-> "absent"]
NoItem == [at |-> "absent"]
Idle == [at |-> "idle"]
Away == [at |-> "away"]     \* takes no part in this behaviour
Presence(S, start) == [x \in S |-> IF x \in start.busy THEN Idle ELSE Away]

Entry == {NoEntry} \cup [at : {"kept"}, amount : Amounts, card : BOOLEAN, refs : BOOLEAN]
Document == {NoDoc} \cup
    [at : {"kept", "expired"}, status : {"pending", "approved", "rejected"}, details : Details,
     verified : BOOLEAN, sum : BOOLEAN]
Item == {NoItem} \cup [at : {"kept"}, kind : Kinds, entry : Ids, docs : SUBSET Docs]
Review == {Idle, Away} \cup
    [at : {"open", "checked"}, doc : Docs, seen : Details, status : {"approved", "rejected"}, verify : BOOLEAN]

Report == [status : {"draft", "approved"}, conditions : BOOLEAN]

Kept(i) == entries[i].at = "kept"
Present(d) == docs[d].at = "kept"
SliceOf(i) == <<CardOf[i].year, CardOf[i].period>>
Periods == {SliceOf(i) : i \in Ids}
Described(d) == docs[d] # NoDoc /\ docs[d].details \in SignedDetails

-----------------------------------------------------------------------------
(* Readiness: compliance.Evaluate on the rows given.                       *)

DocsOf(i, rows) == {d \in Docs : EntryOf[d] = i /\ rows[d].at = "kept"}

(* A type is usable with a document that was not rejected; the reference   *)
(* of a card replaces the document, but never a rejected one.              *)
Held(i, rows) == {TypeOf[d] : d \in {x \in DocsOf(i, rows) : rows[x].status # "rejected"}}
Rejected(i, rows) == {TypeOf[d] : d \in {x \in DocsOf(i, rows) : rows[x].status = "rejected"}}
Usable(i, row, rows) == Held(i, rows) \cup (IF row.refs THEN Types \ Rejected(i, rows) ELSE {})
Complete(r, i, row, rows) == \E option \in r.options : option \subseteq Usable(i, row, rows)
Missing(i, row, rows) == {r \in Matrix[Category(i)] : ~Complete(r, i, row, rows)}
Blocks(r, i) == r.blocking /\ CardOf[i].period = "fact"
PendingReview(i, rows) == \E d \in DocsOf(i, rows) : rows[d].status = "pending"

Readiness(i, row, rows) ==
    IF ~row.card \/ \E r \in Missing(i, row, rows) : Blocks(r, i) THEN "red"
    ELSE IF Missing(i, row, rows) # {} \/ PendingReview(i, rows) THEN "yellow"
    ELSE "green"

(* The boundary of the count, view entry_eligibility: the report of the    *)
(* period is approved with its confirmations, the other conditions of the  *)
(* agreement hold, and no dispute is open.                                 *)
Disputed(i) == \E k \in DOMAIN disputes[i] : ~disputes[i][k].lifted
Approved(i) == report[SliceOf(i)].status = "approved"
Eligible(i) == Approved(i) /\ report[SliceOf(i)].conditions /\ ~Disputed(i)

-----------------------------------------------------------------------------
(* Risk: the heaviest of the rules that fire.                              *)

HighRules(i) == Readiness(i, entries[i], docs) = "red" \/ Disputed(i)
MediumRules(i) == Readiness(i, entries[i], docs) = "yellow" \/ ~Eligible(i) \/ (Eligible(i) /\ ~Approved(i))

Risk(i) == IF HighRules(i) THEN "red" ELSE IF MediumRules(i) THEN "yellow" ELSE "green"

-----------------------------------------------------------------------------
(* Changes of the source.  Any change of an entry returns the report of    *)
(* its period to draft (trigger entries_reset_report_workflow).            *)

Draft == [status |-> "draft", conditions |-> FALSE]
\* A fault: the report is returned instead of being reset.
Returned(i) == report' = [report EXCEPT ![SliceOf(i)] = [Draft EXCEPT !.status = "returned"]]
Changed(i) == report' = [report EXCEPT ![SliceOf(i)] = Draft]
\* A fault: the change of a component does not touch the entry.
Untouched(i) == UNCHANGED report
Touch(i) == Changed(i)

Writes == writes < MaxWrites /\ writes' = writes + 1

WriteEntry(i) ==
    /\ Writes
    /\ \E amount \in Amounts, card, refs \in BOOLEAN :
        entries' = [entries EXCEPT ![i] = [at |-> "kept", amount |-> amount, card |-> card, refs |-> refs]]
    /\ Changed(i)
    /\ UNCHANGED <<docs, disputes, items, reviews>>

(* The report is reviewed elsewhere; here it is approved, with or without  *)
(* the other conditions of the count, or returned.                         *)
SetReport(p) ==
    /\ Writes
    /\ \E new \in {Draft} \cup [status : {"approved"}, conditions : BOOLEAN] :
        /\ new # report[p]
        /\ report' = [report EXCEPT ![p] = new]
    /\ UNCHANGED <<entries, docs, disputes, items, reviews>>

(* An upload is a file without details, to be reviewed; a legacy row has   *)
(* no checksum.                                                            *)
UploadDocument(d) ==
    /\ Writes /\ Kept(EntryOf[d]) /\ docs[d] = NoDoc
    /\ \E sum \in BOOLEAN :
        docs' = [docs EXCEPT ![d] = [at |-> "kept", status |-> "pending", details |-> 0,
                                     verified |-> FALSE, sum |-> sum]]
    /\ UNCHANGED <<entries, disputes, items, report, reviews>>

(* The retention of a document ends: nobody sees it any more; then the row *)
(* is deleted and the references to it with it.                            *)
ExpireDocument(d) ==
    /\ Writes /\ Present(d)
    /\ docs' = [docs EXCEPT ![d].at = "expired"]
    /\ UNCHANGED <<entries, disputes, items, report, reviews>>

Forgotten(d) == [k \in Items |-> IF items[k] = NoItem THEN NoItem
                                 ELSE [items[k] EXCEPT !.docs = @ \ {d}]]

PurgeDocument(d) ==
    /\ docs[d].at = "expired"
    /\ docs' = [docs EXCEPT ![d] = NoDoc]
    /\ items' = Forgotten(d)
    /\ disputes' = [disputes EXCEPT ![EntryOf[d]] =
                       [k \in DOMAIN @ |-> IF @[k].doc = {d} THEN [@[k] EXCEPT !.doc = {}] ELSE @[k]]]
    /\ UNCHANGED <<entries, report, reviews, writes>>

-----------------------------------------------------------------------------
(* The details of a document (UpdateMetadata): under the lock of its row a *)
(* real change sends the document back to review.                          *)

UpdateMetadata(d) ==
    /\ Writes /\ Present(d)
    /\ \E details \in Details :
        docs' = [docs EXCEPT ![d] =
            IF details = @.details THEN @
            ELSE [@ EXCEPT !.details = details, !.status = "pending", !.verified = FALSE]]
    /\ UNCHANGED <<entries, disputes, items, report, reviews>>

(* The review (Review): the form shows the document; the handler reads     *)
(* whether a signature is described; the row is written whatever has       *)
(* become of it, and the constraint of the row has the last word.          *)
OpenReview(r, d) ==
    /\ reviews[r] = Idle /\ Present(d)
    /\ \E status \in {"approved", "rejected"}, verify \in BOOLEAN :
        /\ verify => status = "approved"
        /\ reviews' = [reviews EXCEPT ![r] = [at |-> "open", doc |-> d, seen |-> docs[d].details,
                                              status |-> status, verify |-> verify]]
    /\ UNCHANGED <<entries, docs, disputes, items, report, writes>>

StartReview(r) ==
    LET f == reviews[r] IN
    /\ f.at = "open" /\ Present(f.doc)
    /\ f.verify => Described(f.doc)
    /\ reviews' = [reviews EXCEPT ![r].at = "checked"]
    /\ UNCHANGED <<entries, docs, disputes, items, report, writes>>

RefuseReview(r) ==
    LET f == reviews[r] IN
    /\ f.at = "open"
    /\ ~Present(f.doc) \/ (f.verify /\ ~Described(f.doc))
    /\ reviews' = [reviews EXCEPT ![r] = Idle]
    /\ UNCHANGED <<entries, docs, disputes, items, report, writes>>

\* A fault: no constraint keeps the verification of what is not described.
AnythingMayBeVerified(f) == TRUE
MayBeVerified(f) == f.verify => Described(f.doc)

WriteReview(r) ==
    LET f == reviews[r] IN
    /\ f.at = "checked"
    /\ IF docs[f.doc] # NoDoc /\ MayBeVerified(f) /\ writes < MaxWrites
       THEN /\ docs' = [docs EXCEPT ![f.doc].status = f.status, ![f.doc].verified = f.verify]
            /\ writes' = writes + 1
       ELSE UNCHANGED <<docs, writes>>
    /\ reviews' = [reviews EXCEPT ![r] = Idle]
    /\ UNCHANGED <<entries, disputes, items, report>>

-----------------------------------------------------------------------------
(* Legal disputes (ChangeLegalDispute): one open at a time, by the index.  *)

Raise(i) ==
    /\ Writes /\ Kept(i) /\ ~Disputed(i)
    /\ \E doc \in {{}} \cup {{d} : d \in {x \in Docs : EntryOf[x] = i /\ docs[x] # NoDoc}} :
        disputes' = [disputes EXCEPT ![i] = Append(@, [doc |-> doc, lifted |-> FALSE])]
    /\ UNCHANGED <<entries, docs, items, report, reviews>>

Lift(i) ==
    /\ Writes /\ Disputed(i)
    /\ disputes' = [disputes EXCEPT ![i] = [k \in DOMAIN @ |-> [@[k] EXCEPT !.lifted = TRUE]]]
    /\ UNCHANGED <<entries, docs, items, report, reviews>>

-----------------------------------------------------------------------------
(* Components of a TOP program: a row that holds for its kind (Normalize)  *)
(* with documents of its own entry; every change touches the entry.        *)

Mine(i) == {d \in Docs : EntryOf[d] = i /\ Present(d)}

CreateItem(k) ==
    /\ Writes /\ items[k] = NoItem
    /\ \E i \in Ids, kind \in Kinds : \E ds \in SUBSET Mine(i) :
        /\ Kept(i) /\ Category(i) = TopCategory
        /\ items' = [items EXCEPT ![k] = [at |-> "kept", kind |-> kind, entry |-> i, docs |-> ds]]
        /\ Touch(i)
    /\ UNCHANGED <<entries, docs, disputes, reviews>>

UpdateItem(k) ==
    /\ Writes /\ items[k] # NoItem
    /\ \E ds \in SUBSET Mine(items[k].entry) : items' = [items EXCEPT ![k].docs = ds]
    /\ Touch(items[k].entry)
    /\ UNCHANGED <<entries, docs, disputes, reviews>>

DeleteItem(k) ==
    /\ Writes /\ items[k] # NoItem
    /\ items' = [items EXCEPT ![k] = NoItem]
    /\ Touch(items[k].entry)
    /\ UNCHANGED <<entries, docs, disputes, reviews>>

-----------------------------------------------------------------------------
(* What is in stock is what the tables can hold: their types, and the       *)
(* constraint of a signature that is confirmed.                            *)
ASSUME StocksAssumption ==
    \A start \in Starts :
        /\ start.entries \in [Ids -> Entry] /\ start.docs \in [Docs -> Document]
        /\ start.items \in [Items -> Item] /\ start.report \in [Periods -> Report]
        /\ start.writes \in 0..MaxWrites
        /\ \A d \in Docs : start.docs[d] # NoDoc /\ start.docs[d].verified =>
               start.docs[d].status = "approved" /\ start.docs[d].details \in SignedDetails

EvidenceInit(start) ==
    /\ entries = start.entries /\ docs = start.docs /\ report = start.report
    /\ disputes = [i \in Ids |-> <<>>]
    /\ items = start.items
    /\ reviews = Presence(Reviewers, start)
    /\ writes = start.writes

ReviewDocument(r) ==
    (\E d \in Docs : OpenReview(r, d)) \/ StartReview(r) \/ RefuseReview(r) \/ WriteReview(r)

EvidenceNext ==
    \/ \E i \in Ids : WriteEntry(i) \/ Raise(i) \/ Lift(i)
    \/ \E p \in Periods : SetReport(p)
    \/ \E d \in Docs : UploadDocument(d) \/ ExpireDocument(d) \/ PurgeDocument(d) \/ UpdateMetadata(d)
    \/ \E r \in Reviewers : ReviewDocument(r)
    \/ \E k \in Items : CreateItem(k) \/ UpdateItem(k) \/ DeleteItem(k)

EvidenceTypeOK ==
    /\ entries \in [Ids -> Entry] /\ docs \in [Docs -> Document]
    /\ \A i \in Ids : disputes[i] \in Seq([doc : SUBSET Docs, lifted : BOOLEAN])
    /\ items \in [Items -> Item]
    /\ report \in [Periods -> Report]
    /\ reviews \in [Reviewers -> Review] /\ writes \in 0..MaxWrites
=============================================================================
