---------------------------- MODULE Agreements ----------------------------
(***************************************************************************)
(* Agreements of an IT company with educational organizations              *)
(* (handlers/agreements.go, agreement_history.go, regional_authorities.go, *)
(* migrations/0012, 0019, 0112).  Every write locks the row of the         *)
(* agreement first, so a write is one action; the deferred triggers that   *)
(* keep the revisions run in it, at COMMIT.  All organizations belong to   *)
(* the one company; names, dates of signature and people are left out.     *)
(***************************************************************************)
EXTENDS Integers, Sequences, FiniteSets

CONSTANTS AgreementIds,
          Partners, KindOf,          \* partner -> "vuz", "kolledj" or "school"
          Categories, Audiences,     \* category -> the kinds it is meant for
          Statuses,                  \* statuses of an agreement, "active" among them
          Terms,                     \* sets of report years an agreement may overlap
          Curators, Nobody,          \* curators of this company; NULL
          Edits,                     \* what the requests in play may ask to write
          MaxRevisions               \* bound on the edits of one agreement

ASSUME AgreementsAssumption ==
  /\ KindOf \in [Partners -> {"vuz", "kolledj", "school"}]
  /\ Audiences \in [Categories -> SUBSET {"vuz", "kolledj", "school"}]
  /\ "active" \in Statuses
  /\ Nobody \notin Curators
  /\ Edits \subseteq [partners : SUBSET Partners, scope : SUBSET Categories,
                      status : Statuses, term : Terms, signed : BOOLEAN]
  /\ MaxRevisions \in Nat

VARIABLES agreements,     \* the agreements there are: id -> row with its lists
          revisions,      \* id -> the snapshots, first to last
          authority       \* is the regional authority of the schools active

agreementVars == <<agreements, revisions, authority>>

Agreement ==
  [partners : SUBSET Partners, scope : SUBSET Categories, status : Statuses,
   term : Terms, curator : Curators \cup {Nobody}]

Schools(ps) == {p \in ps : KindOf[p] = "school"}

(* The categories that are meant for an organization of the list.          *)
Available(ps) == {c \in Categories : \E p \in ps : KindOf[p] \in Audiences[c]}

(* An empty list of categories means every category there is for them.     *)
Scope(e) == IF e.scope = {} THEN Available(e.partners) ELSE e.scope

(* normalizeAgreement: an agreement names organizations, one in force is   *)
(* signed and has people on both sides.                                    *)
Normalized(e) == e.partners # {} /\ (e.status = "active" => e.signed)

(* Schools go together, through the regional authority; a university needs *)
(* teaching and programmes, or the top programme instead of both.          *)
MayBeWritten(e) ==
  /\ Normalized(e)
  /\ Scope(e) # {} /\ Scope(e) \subseteq Available(e.partners)
  /\ (\E p \in e.partners : KindOf[p] = "vuz") =>
        "top_it" \in Scope(e) \/ {"teachers", "ood_rpd"} \subseteq Scope(e)
  /\ Schools(e.partners) # {} => Schools(e.partners) = e.partners /\ authority

RecordedAlways(a, row) == [revisions EXCEPT ![a] = Append(@, row)]

(* A revision is kept when the snapshot differs from the last one.         *)
Recorded(a, row) ==
  IF revisions[a] # <<>> /\ revisions[a][Len(revisions[a])] = row
  THEN revisions
  ELSE [revisions EXCEPT ![a] = Append(@, row)]

Put(a, row) ==
  /\ agreements' = [b \in DOMAIN agreements \cup {a} |->
                      IF b = a THEN row ELSE agreements[b]]
  /\ revisions' = Recorded(a, row)
  /\ UNCHANGED authority

Written(e, c) ==
  [partners |-> e.partners, scope |-> Scope(e), status |-> e.status, term |-> e.term, curator |-> c]

CreateAgreement(a, e) ==
  /\ a \notin DOMAIN agreements
  /\ MayBeWritten(e)
  /\ Put(a, Written(e, Nobody))

(* used: the pairs of organization and category the entries of the         *)
(* agreement have, read under the lock of its row.  The composite foreign  *)
(* key keeps the organizations, a count keeps the categories.              *)
UpdateAgreement(a, e, used) ==
  /\ a \in DOMAIN agreements
  /\ Len(revisions[a]) < MaxRevisions
  /\ MayBeWritten(e)
  /\ \A u \in used : u[1] \in e.partners /\ u[2] \in Scope(e)
  /\ Put(a, Written(e, agreements[a].curator))

SetCurator(a, c) ==
  /\ a \in DOMAIN agreements
  /\ Len(revisions[a]) < MaxRevisions
  /\ c \in Curators \cup {Nobody}
  /\ Put(a, [agreements[a] EXCEPT !.curator = c])

ChangeAuthority ==
  /\ authority' = ~authority
  /\ UNCHANGED <<agreements, revisions>>

(* What a record of activity needs of its agreement, as it is now.         *)
Carries(a, p, c, y) ==
  /\ KindOf[p] \in Audiences[c]
  /\ a \in DOMAIN agreements
  /\ p \in agreements[a].partners
  /\ agreements[a].status = "active"
  /\ KindOf[p] = "school" => authority
  /\ y \in agreements[a].term
  /\ c \in agreements[a].scope
=============================================================================
