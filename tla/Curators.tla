------------------------------ MODULE Curators ------------------------------
(***************************************************************************)
(* Curators and the partners they look after (internal/curators, DATA-09). *)
(* user_partner_assignments is the source: a period, which may be cut, and *)
(* a revocation, which takes it out of every day.  users.partner_id is     *)
(* derived from it, by a trigger on every change of an assignment and by a *)
(* job when a day begins or ends a period; a direct write of               *)
(* users.partner_id becomes an assignment, by another trigger              *)
(* (0109_curator_assignments.sql).                                         *)
(*                                                                         *)
(* Accounts extends this module: the edit of a user writes both.           *)
(***************************************************************************)
EXTENDS Integers, FiniteSets, Sequences

CONSTANTS
  Users,
  Partners,
  CompanyOf,       \* the IT company a partner belongs to
  Calls,           \* calls of End and Revoke, each is made once
  LastDay,         \* bound: days 0 .. LastDay
  MaxAssignments   \* bound: rows of user_partner_assignments

Day == 0 .. LastDay
Forever == LastDay + 1        \* valid_until IS NULL
Companies == {CompanyOf[p] : p \in Partners}
NoPartner == "no partner"
NoCompany == "no company"
Roles == {"super_admin", "curator", "auditor_viewer"}

\* A user that does not exist yet has no role.
Profile == [role : Roles \cup {"none"}, entity : {"organization", "edu_institution"},
            company : Companies \cup {NoCompany}, partner : Partners \cup {NoPartner}, active : BOOLEAN]

ASSUME CuratorsAssumption ==
  /\ LastDay \in Nat /\ MaxAssignments \in Nat
  /\ NoPartner \notin Partners /\ NoCompany \notin Companies

\* why is a ghost: who asked for the assignment, or that it was given, written or kept
\* beside the profile, of one who is no curator of an organization.
Assignment == [user : Users, partner : Partners, from : Day, until : 0 .. Forever,
               revoked : BOOLEAN, why : {"assign", "beside", "edit", "stale"}]

CallState == [at : {"idle", "ending", "revoking", "over"}, id : 0 .. MaxAssignments, until : 0 .. Forever]
Over == [at |-> "over", id |-> 0, until |-> 0]

VARIABLES
  profile,      \* users: role, entity_type, it_company_id, partner_id, is_active
  assignments,  \* user_partner_assignments; an id is a place in the sequence
  today,        \* moscow_today()
  synced,       \* the day of the last pass of Sync
  call          \* End and Revoke under way
curatorVars == <<profile, assignments, today, synced, call>>

CuratorsTypeOK ==
  /\ profile \in [Users -> Profile]
  /\ assignments \in Seq(Assignment) /\ Len(assignments) <= MaxAssignments
  /\ today \in Day /\ synced \in Day
  /\ call \in [Calls -> CallState]

-----------------------------------------------------------------------------
IsCurator(p) == p.role = "curator" /\ p.entity = "organization"

InForce(a, d) == ~a.revoked /\ a.from <= d /\ d <= a.until

\* Mutant: the company of the assignment for its partner.
CurrentCompany(as, u, d) ==
  LET found == {i \in DOMAIN as : as[i].user = u /\ InForce(as[i], d)} IN
  IF found = {} THEN NoPartner ELSE CompanyOf[as[CHOOSE i \in found : \A j \in found : as[j].from <= as[i].from].partner]

\* current_partner_of(u, d): the constraint leaves at most one.
CurrentPartner(as, u, d) ==
  LET found == {i \in DOMAIN as : as[i].user = u /\ InForce(as[i], d)} IN
  IF found = {} THEN NoPartner ELSE as[CHOOSE i \in found : \A j \in found : as[j].from <= as[i].from].partner

\* EXCLUDE: the unrevoked periods of one user share no day.
Overlap(a, b) == a.user = b.user /\ ~a.revoked /\ ~b.revoked /\ a.from <= b.until /\ b.from <= a.until
PeriodsAreApart(as) == \A i, j \in DOMAIN as : i # j => ~Overlap(as[i], as[j])

\* Mutant: the profile is left to the job.
LeaveProfile(ps, as, u) == ps

\* refresh_curator_partner, fired by every insert and update of an assignment.
Refresh(ps, as, u) ==
  IF IsCurator(ps[u]) THEN [ps EXCEPT ![u].partner = CurrentPartner(as, u, today)] ELSE ps

\* The guard of an insert: an organization's profile is a curator of the
\* partner's own company.
MayBeAssigned(p, partner) ==
  p.entity = "organization" => p.role = "curator" /\ p.company = CompanyOf[partner]

Period(u, p, from, until, why) ==
  [user |-> u, partner |-> p, from |-> from, until |-> until, revoked |-> FALSE, why |-> why]

HeldBeside(as, which) == [i \in DOMAIN as |-> IF i \in which THEN [as[i] EXCEPT !.why = "beside"] ELSE as[i]]
Revoked(as, which) == [i \in DOMAIN as |-> [as[i] EXCEPT !.revoked = @ \/ i \in which]]
NotOver(as, u) == {i \in DOMAIN as : as[i].user = u /\ ~as[i].revoked /\ as[i].until >= today}

\* users_curator_partner_sync, fired by a direct write of the profile of u that
\* makes old into new: what becomes of the assignments.  named is a ghost: the
\* write was asked to change the partner.
Follow(as, u, old, new, named) ==
  IF ~IsCurator(new) THEN as
  ELSE IF new.partner = NoPartner
  THEN IF old.partner = NoPartner THEN as
       ELSE Revoked(as, {i \in NotOver(as, u) : as[i].from <= today})
  ELSE IF CurrentPartner(as, u, today) = new.partner THEN as
  ELSE Append(Revoked(as, NotOver(as, u)),
              Period(u, new.partner, today, Forever, IF named THEN "edit" ELSE "stale"))

\* The write and what its triggers do.  The insert may be refused, and with it the write.
Writable(as, u, old, new) ==
  LET next == Follow(as, u, old, new, TRUE) IN
  /\ Len(next) <= MaxAssignments
  /\ Len(next) > Len(as) => MayBeAssigned(new, new.partner)
WriteProfile(u, new, named) ==
  /\ Writable(assignments, u, profile[u], new)
  /\ assignments' = Follow(assignments, u, profile[u], new, named)
  /\ profile' = [profile EXCEPT ![u] = new]

-----------------------------------------------------------------------------
\* Create: one insert.  The handler has checked the tenant and the dates; a
\* period may begin on any day.
Assign(u, p, from, until) ==
  /\ from <= until
  /\ Len(assignments) < MaxAssignments
  /\ profile[u].role # "none" /\ MayBeAssigned(profile[u], p)
  /\ LET next == Append(assignments, Period(u, p, from, until, IF IsCurator(profile[u]) THEN "assign" ELSE "beside")) IN
     /\ PeriodsAreApart(next)
     /\ assignments' = next
     /\ profile' = Refresh(profile, next, u)
  /\ UNCHANGED <<today, synced, call>>

\* End reads the row, without a lock, and checks the day against what it has read.
EndRead(c, i, until) ==
  /\ call[c].at = "idle"
  /\ LET a == assignments[i] IN
     call' = [call EXCEPT ![c] =
       IF ~a.revoked /\ a.from <= until /\ until < a.until
       THEN [at |-> "ending", id |-> i, until |-> until] ELSE Over]
  /\ UNCHANGED <<profile, assignments, today, synced>>

\* ... and updates it: the trigger refuses a revoked row, the constraint an overlap.
EndWrite(c) ==
  /\ call[c].at = "ending"
  /\ LET i == call[c].id
         cut  == [assignments EXCEPT ![i].until = call[c].until]
         next == IF IsCurator(profile[assignments[i].user]) THEN cut ELSE HeldBeside(cut, {i}) IN
     IF ~assignments[i].revoked /\ PeriodsAreApart(next)
     THEN /\ assignments' = next
          /\ profile' = Refresh(profile, next, assignments[i].user)
     ELSE UNCHANGED <<profile, assignments>>
  /\ call' = [call EXCEPT ![c] = Over]
  /\ UNCHANGED <<today, synced>>

\* Revoke reads in the same way, and gives a reason.
RevokeRead(c, i) ==
  /\ call[c].at = "idle"
  /\ call' = [call EXCEPT ![c] = IF assignments[i].revoked THEN Over
                                 ELSE [at |-> "revoking", id |-> i, until |-> 0]]
  /\ UNCHANGED <<profile, assignments, today, synced>>

RevokeWrite(c) ==
  /\ call[c].at = "revoking"
  /\ LET i == call[c].id
         next == Revoked(assignments, {i}) IN
     IF assignments[i].revoked THEN UNCHANGED <<profile, assignments>>
     ELSE /\ assignments' = next
          /\ profile' = Refresh(profile, next, assignments[i].user)
  /\ call' = [call EXCEPT ![c] = Over]
  /\ UNCHANGED <<today, synced>>

\* The job: every curator's profile as of today, marked so that no trigger takes it
\* for a direct write.
Sync ==
  /\ profile' = [u \in Users |->
       IF IsCurator(profile[u]) THEN [profile[u] EXCEPT !.partner = CurrentPartner(assignments, u, today)]
       ELSE profile[u]]
  /\ synced' = today
  /\ UNCHANGED <<assignments, today, call>>

NextDay ==
  /\ today < LastDay
  /\ today' = today + 1
  /\ UNCHANGED <<profile, assignments, synced, call>>

Idle == [at |-> "idle", id |-> 0, until |-> 0]
CuratorsInit(users, as, day, calls) ==
  /\ profile = users /\ assignments = as
  /\ today = day /\ synced = day
  /\ call = calls

CuratorsNext ==
  \/ \E u \in Users, p \in Partners, from \in Day, until \in Day \cup {Forever} : Assign(u, p, from, until)
  \/ \E c \in Calls, i \in DOMAIN assignments :
        \/ \E until \in Day : EndRead(c, i, until)
        \/ RevokeRead(c, i)
  \/ \E c \in Calls : EndWrite(c) \/ RevokeWrite(c)
  \/ Sync
  \/ NextDay

-----------------------------------------------------------------------------
\* The partner written in a curator's profile is the partner of some day since the
\* last pass of the job: nothing but the passing of days puts it behind.  Unless he
\* has brought an assignment from a time when his profile followed none: he spoke for
\* an educational organization, or a restoration made him an administrator.
ProfileIsBehindByDays(u) == \E d \in synced .. today : profile[u].partner = CurrentPartner(assignments, u, d)
Brought(u) == \E i \in DOMAIN assignments : LET a == assignments[i] IN a.user = u /\ a.why = "beside" /\ ~a.revoked
ProfileFollowsAssignments == \A u \in Users : IsCurator(profile[u]) => ProfileIsBehindByDays(u) \/ Brought(u)

\* A curator works for one partner on any day, whatever calls overlap and whatever is
\* written past the module.
OnePartnerADay == PeriodsAreApart(assignments)

\* Periods and profiles agree, whoever writes which of them first (migration 0109).
AssignmentsHold == ProfileFollowsAssignments /\ OnePartnerADay

\* reconcile.go:71: the partner of a curator's profile is that of the assignment in force
\* (the job has a quarter of an hour to notice a new day).
ProfileShowsAssignment == \A u \in Users : IsCurator(profile[u]) => ProfileIsBehindByDays(u)

\* curators.go:131-133: a period may only be cut, to prolong it is a new assignment.
PeriodsOnlyShrink ==
  [][\A i \in DOMAIN assignments : assignments'[i].until <= assignments[i].until]_assignments
=============================================================================
