----------------------------- MODULE MCAccounts -----------------------------
(* Small instances of Accounts: each start says which part of the module it is
   about and makes the rest stand still. *)
EXTENDS Accounts

CONSTANTS root, ann, p, q, r1, r2, r3, c1, c2
MCUsers == {root, ann}
MCPartners == {p, q}
MCCompanyOf == p :> "A" @@ q :> "B"
MCRequests == {r1, r2, r3}
MCCalls == {c1, c2}

User(role, entity, company, partner, active) ==
  [role |-> role, entity |-> entity, company |-> company, partner |-> partner, active |-> active]
Super == User("super_admin", "organization", NoCompany, NoPartner, TRUE)
CuratorOf(partner) == User("curator", "organization", "A", partner, TRUE)
Nobody == User("none", "organization", NoCompany, NoPartner, FALSE)

Knows(password, cheap, secret, codes) ==
  [hash |-> [password |-> password, cheap |-> cheap], secret |-> secret, pending |-> NoSecret,
   pendingFor |-> "old", counter |-> IF secret = NoSecret THEN -1 ELSE 0, codes |-> codes]
Plain == Knows("old", TRUE, NoSecret, {})
Guarded == Knows("old", FALSE, ann, {<<ann, "recovery", 0>>})
SessionFor(u, c) == [user |-> u, made |-> 0, idle |-> FALSE, password |-> "old", secret |-> c.secret]

Job(kind, by, user, set) == [kind |-> kind, by |-> by, user |-> user, password |-> "old", set |-> set]
Nothing == [role |-> "curator"]
Login(u) == Job("login", u, u, Nothing)
Own(kind, u) == Job(kind, u, u, Nothing)
Edit(by, u, set) == Job("update", by, u, set)
NoJob == Job("none", root, root, Nothing)

\* Periods that are over, so that no more can be assigned.
Used == [i \in 1 .. MaxAssignments |->
           [Period(ann, p, 0, 0, "assign") EXCEPT !.revoked = TRUE]]
Still == [c \in MCCalls |-> Over]
Start(profiles, as, day, calls, cred, jobs) ==
  [profile |-> profiles, assignments |-> as, today |-> day, call |-> calls, credential |-> cred,
   sessions |-> {SessionFor(u, cred[u]) : u \in {x \in MCUsers : profiles[x].active}}, job |-> jobs]
Both(x, y) == root :> x @@ ann :> y
Three(x, y, z) == r1 :> x @@ r2 :> y @@ r3 :> z

\* Two logins of one account, or one and a change, beside a third request.
OfAnn == {Own("password", ann), Own("enroll", ann), Own("confirm", ann), Own("logout", ann),
          Job("reset", root, ann, Nothing), Edit(root, ann, [active |-> FALSE]), Login(ann)}
SignIn(c) == {Start(Both(Super, CuratorOf(NoPartner)), Used, LastDay, Still, Both(Plain, c), Three(Login(ann), x, y)) :
                x \in OfAnn, y \in OfAnn}
\* An enrolment and what may come between.
Enrol == {Start(Both(Super, CuratorOf(NoPartner)), Used, LastDay, Still, Both(Plain, Plain),
            Three(Own("enroll", ann), Own("confirm", ann), x)) : x \in OfAnn}
\* Administrators that demote each other.
Demote == {Start(Both(Super, Super), Used, LastDay, Still, Both(Plain, Plain),
             Three(Edit(root, ann, x), Edit(ann, root, y), NoJob)) :
             x \in {[active |-> FALSE], [role |-> "auditor_viewer", company |-> "A"]}, y \in {[active |-> FALSE]}}
\* A start without an administrator.
Restore == {Start(Both(x, CuratorOf(NoPartner)), Used, LastDay, Still, Both(Plain, Plain), Three(Login(root), NoJob, NoJob)) :
             x \in {CuratorOf(NoPartner), [Super EXCEPT !.active = FALSE], Nobody}}
\* Assignments, the passing of days, calls and an edit of the curator's profile.
Curate(x, day, calls) == [Start(Both(Super, CuratorOf(NoPartner)), <<>>, day, calls, Both(Plain, Plain),
                           Three(Edit(root, ann, x), NoJob, NoJob)) EXCEPT !.sessions = {SessionFor(root, Plain)}]
\* A user that is made, moved and moved again.
Move == {Start(Both(Super, Nobody), <<>>, 0, Still, Both(Plain, Plain),
           Three(Job("create", root, ann, x), Edit(root, ann, y), Edit(root, ann, z))) :
             x \in {CuratorOf(p), User("auditor_viewer", "edu_institution", NoCompany, p, TRUE)},
             y \in {[role |-> "auditor_viewer", entity |-> "organization", company |-> "A"], [active |-> TRUE]},
             z \in {[role |-> "curator"], [company |-> "B"], [company |-> "B", partner |-> q]}}
\* An administrator who sets his profile and is made a curator meanwhile.
Setup == {Start(Both(Super, Super), <<>>, 0, Still, Both(Plain, Plain),
           Three(Own("entity", root), Edit(ann, root, [role |-> "curator", company |-> "A", partner |-> p]), NoJob))}

BothCalls == [c \in MCCalls |-> Idle]
OneCall == [BothCalls EXCEPT ![c2] = Over]

MCPeriods == {Curate([active |-> TRUE], 1, BothCalls)}
MCMoves == Move
MCRestores == Restore
MCStarts == SignIn(Plain) \cup SignIn(Guarded) \cup Enrol \cup Demote \cup Restore \cup Move \cup Setup
            \cup {Curate([active |-> TRUE], 0, OneCall), Curate([company |-> "B", partner |-> q], 1, BothCalls)}
\* A request is told from another by its job alone, a call by nothing.
MCSymmetry == Permutations(MCRequests) \cup Permutations(MCCalls)
MCJobs == UNION {{s.job[r] : r \in MCRequests} : s \in MCStarts}
=============================================================================
