------------------------------ MODULE Accounts ------------------------------
(***************************************************************************)
(* Login, sessions, the second factor (auth, auth_handlers.go, mfa.go),    *)
(* the edit of users (admin.go, mfa_policy.go) and the administrator made  *)
(* at start (bootstrap).                                                   *)
(*                                                                         *)
(* A password is verified for a long time outside any transaction; what is *)
(* done for it must be done for the account as it is then.  The row of     *)
(* users is the lock of an account, 270004 that of its administration.     *)
(***************************************************************************)
EXTENDS Curators, TLC

CONSTANTS
  Requests,
  Jobs,           \* bound: what each request may ask for
  Starts,         \* bound: the users, credentials and sessions a run begins with, its jobs
  Root,           \* the account named by the configuration
  Kept,           \* sessions that stay beside a new one (4)
  Limit,          \* attempts of one account in 15 minutes (12, 8)
  Steps,          \* bound: time steps of the authenticator
  MaxCrashes      \* bound: crashes of a start

NoSecret == "no secret"
\* One per enrolment: the request that made it, or whose it was when the run began.
Secrets == Requests \cup Users
Passwords == {"old", "new", "boot"}
Hash == [password : Passwords, cheap : BOOLEAN]
Code == Secrets \X {"totp", "recovery"} \X (0 .. Steps)
NoCode == <<NoSecret, "none", 0>>

\* pendingFor is a ghost: the password that began the enrolment.
Credential == [hash : Hash, secret : Secrets \cup {NoSecret}, pending : Secrets \cup {NoSecret},
               pendingFor : Passwords, counter : -1 .. Steps, codes : SUBSET Code]

\* What is granted is a ghost: the password and the secret the session was made for.
Session == [user : Users, made : Int, idle : BOOLEAN, password : Passwords, secret : Secrets \cup {NoSecret}]

Phase == {"idle", "allowed", "read", "begun", "checked", "over"}
Request == [at : Phase, hash : Hash, secret : Secrets \cup {NoSecret}, made : Nat, code : Code \cup {NoCode}]
AnyHash == [password |-> "old", cheap |-> FALSE]
Fresh == [at |-> "idle", hash |-> AnyHash, secret |-> NoSecret, made |-> 0, code |-> NoCode]

\* What assignments a run begins with: no user has two on a day, a curator's profile
\* shows his, and no call is under way.
Settled(s) ==
  /\ \A c \in Calls : s.call[c].at \in {"idle", "over"}
  /\ PeriodsAreApart(s.assignments)
  /\ \A u \in Users : IsCurator(s.profile[u]) => s.profile[u].partner = CurrentPartner(s.assignments, u, s.today)
  /\ \A i \in DOMAIN s.assignments : LET a == s.assignments[i] IN
       ~a.revoked => s.profile[a.user].role # "none" /\ (IsCurator(s.profile[a.user]) \/ a.why = "beside")

\* What accounts a run begins with: each has its own second factor, the sessions fit,
\* are older than those of the run, and few.
Answered(s) ==
  /\ \A u \in Users : LET c == s.credential[u] IN
       /\ {c.secret, c.pending} \subseteq {NoSecret, u} /\ NoSecret \in {c.secret, c.pending}
       /\ \A code \in c.codes : code[1] = c.secret /\ code[2] = "recovery"
       /\ c.pending # NoSecret => c.pendingFor = c.hash.password
       /\ s.profile[u].role = "none" => ~s.profile[u].active
       /\ Cardinality({x \in s.sessions : x.user = u}) <= Kept + 1
  /\ IsFiniteSet(s.sessions)
  /\ \A x \in s.sessions : LET c == s.credential[x.user] IN
       /\ s.profile[x.user].active /\ x.password = c.hash.password /\ x.secret = c.secret
       /\ x.made <= 0 /\ \A y \in s.sessions : x.user = y.user /\ x.made = y.made => x = y

ASSUME AccountsAssumption ==
  /\ Kept \in Nat /\ Limit \in Nat /\ Steps \in Nat /\ MaxCrashes \in Nat
  /\ Root \in Users /\ Users \cap Requests = {} /\ NoSecret \notin Secrets
  /\ \A s \in Starts : /\ s.profile \in [Users -> Profile] /\ s.credential \in [Users -> Credential]
                       /\ s.sessions \subseteq Session /\ s.job \in [Requests -> Jobs]
                       /\ s.assignments \in Seq(Assignment) /\ s.today \in Day /\ s.call \in [Calls -> CallState]
                       /\ Len(s.assignments) <= MaxAssignments
                       /\ Settled(s) /\ Answered(s)

\* A request names users and fields of a profile, all of them to create a user.
ASSUME JobsAssumption ==
  /\ "none" \notin Requests
  /\ \A j \in Jobs : /\ j.by \in Users /\ j.user \in Users
                     /\ \E p \in Profile : /\ p.role # "none"
                                          /\ \A f \in DOMAIN j.set : f \in DOMAIN p /\ j.set[f] = p[f]
                     /\ j.kind = "create" => j.set \in Profile

VARIABLES
  credential,  \* users: password_hash, mfa_*; mfa_recovery_codes
  sessions,
  hits,        \* auth_rate_limits
  job,         \* what each request asks for
  request,
  rowLock,     \* who holds the row of a user
  adminLock,   \* who holds 270004
  clock,       \* starts of transactions that made a session
  boot,        \* EnsureAdmin
  crashes,
  interrupted  \* ghost: a restoration did not come to its end

accountVars == <<credential, sessions, hits, job, request, rowLock, adminLock, clock, boot, crashes, interrupted>>
vars == <<curatorVars, accountVars>>

None == "none"
Limited == {"login", "password", "enroll", "confirm"}
Buckets == Users \X Limited
Active(u) == profile[u].active
SuperAdmins == {u \in Users : profile[u].role = "super_admin" /\ Active(u)}

TypeOK ==
  /\ CuratorsTypeOK
  /\ credential \in [Users -> Credential] /\ sessions \subseteq Session
  /\ hits \in [Buckets -> Nat] /\ job \in [Requests -> Jobs] /\ request \in [Requests -> Request]
  /\ rowLock \in [Users -> Requests \cup {None}] /\ adminLock \in Requests \cup {None}
  /\ clock \in Nat /\ boot \in {"down", "restored", "up"} /\ crashes \in 0 .. MaxCrashes
  /\ interrupted \in BOOLEAN

-----------------------------------------------------------------------------
NobodyAdministers == TRUE

SessionsOf(u) == {s \in sessions : s.user = u}
WithoutSessions(u) == sessions \ SessionsOf(u)

\* InsertSession deletes the idle ones and all but the latest by the start of their
\* transactions.  (Idle stands for both the absolute and the idle timeout.)
Outlived(u, s) ==
  LET others == SessionsOf(u) IN
  {o \in others : o.idle \/ Cardinality({x \in others : x.made > o.made}) >= Kept}

RowIsFree(u) == rowLock[u] = None
AdminIsFree == adminLock = None

\* AllowAttempt: one statement counts the attempt and answers.
Allowed(u, kind) == hits[<<u, kind>>] < Limit
Attempt(u, kind) == [hits EXCEPT ![<<u, kind>>] = @ + 1]

\* The transaction of r ends.
Release(r, u) == rowLock' = [rowLock EXCEPT ![u] = None]
Finish(r) == request' = [request EXCEPT ![r] = [Fresh EXCEPT !.at = "over", !.code = request[r].code]]
Goes(r, at) == request[r].at = at /\ boot = "up"

-----------------------------------------------------------------------------
\* A request of a signed-in user: UserIDFromRequest touches a session that is not idle
\* and deletes one that is, RequireAuth reads the user.  AllowAttempt counts.
Authorize(r) ==
  /\ Goes(r, "idle") /\ job[r].kind \notin {"login", "logout"}
  /\ \E s \in SessionsOf(job[r].by) :
       /\ sessions' = IF s.idle THEN sessions \ {s} ELSE sessions
       /\ LET u == job[r].by
              allowed == /\ ~s.idle /\ Active(u)
                         /\ job[r].kind \in Limited => Allowed(u, job[r].kind)
                         /\ job[r].kind \in {"update", "reset", "entity", "create"} => profile[u].role = "super_admin" IN
          /\ request' = [request EXCEPT ![r].at = IF allowed THEN "allowed" ELSE "over"]
          /\ hits' = IF job[r].kind \in Limited THEN Attempt(u, job[r].kind) ELSE hits
  /\ UNCHANGED <<curatorVars, credential, job, rowLock, adminLock, clock, boot, crashes, interrupted>>

GoIdle(s) ==
  /\ ~s.idle
  /\ sessions' = (sessions \ {s}) \cup {[s EXCEPT !.idle = TRUE]}
  /\ UNCHANGED <<curatorVars, credential, hits, job, request, rowLock, adminLock, clock, boot, crashes, interrupted>>

Logout(r) ==
  /\ Goes(r, "idle") /\ job[r].kind = "logout"
  /\ \E s \in SessionsOf(job[r].by) : sessions' = sessions \ {s}
  /\ Finish(r)
  /\ UNCHANGED <<curatorVars, credential, hits, job, rowLock, adminLock, clock, boot, crashes, interrupted>>

\* Login: the attempt is counted, the row read without a lock, the password verified.
LoginRead(r) ==
  /\ Goes(r, "idle") /\ job[r].kind = "login"
  /\ LET u == job[r].user IN
     /\ hits' = Attempt(u, "login")
     /\ request' = [request EXCEPT ![r] =
          IF Allowed(u, "login") /\ credential[u].hash.password = job[r].password /\ Active(u)
          THEN [Fresh EXCEPT !.at = "read", !.hash = credential[u].hash, !.secret = credential[u].secret]
          ELSE [Fresh EXCEPT !.at = "over"]]
  /\ UNCHANGED <<curatorVars, credential, sessions, job, rowLock, adminLock, clock, boot, crashes, interrupted>>

\* BEGIN: a session's created_at is the start of the transaction, before the row is locked.
LoginBegin(r) ==
  /\ Goes(r, "read") /\ job[r].kind = "login"
  /\ clock' = clock + 1
  /\ request' = [request EXCEPT ![r].at = "begun", ![r].made = clock + 1]
  /\ UNCHANGED <<curatorVars, credential, sessions, hits, job, rowLock, adminLock, boot, crashes, interrupted>>

\* Mutant: what was read is not read again.
TrustsTheRead(r) ==
  /\ Goes(r, "begun") /\ job[r].kind = "login" /\ RowIsFree(job[r].user)
  /\ request' = [request EXCEPT ![r].at = "checked"]
  /\ rowLock' = [rowLock EXCEPT ![job[r].user] = r]
  /\ UNCHANGED <<curatorVars, credential, sessions, hits, job, adminLock, clock, boot, crashes, interrupted>>

\* SELECT ... FOR UPDATE and the comparison with what was read.
LoginCheck(r) ==
  /\ Goes(r, "begun") /\ job[r].kind = "login" /\ RowIsFree(job[r].user)
  /\ LET u == job[r].user
         c == credential[u] IN
     IF c.hash = request[r].hash /\ c.secret = request[r].secret /\ Active(u)
     THEN /\ request' = [request EXCEPT ![r].at = "checked"]
          /\ rowLock' = [rowLock EXCEPT ![u] = r]
     ELSE Finish(r) /\ UNCHANGED rowLock
  /\ UNCHANGED <<curatorVars, credential, sessions, hits, job, adminLock, clock, boot, crashes, interrupted>>

\* Mutant: a code of the authenticator is good for as long as it is shown.
SecondFactorAnyTime(c, code) == IF code \in c.codes THEN {[c EXCEPT !.codes = @ \ {code}]}
                                ELSE IF code[1] = c.secret /\ code[2] = "totp" THEN {c} ELSE {}

\* verifySecondFactor: a recovery code is deleted, a code of the authenticator must be
\* later than the last one.  The credential after it, or none.
SecondFactor(c, code) ==
  IF code \in c.codes THEN {[c EXCEPT !.codes = @ \ {code}]}
  ELSE IF code[1] = c.secret /\ code[2] = "totp" /\ c.counter < code[3] THEN {[c EXCEPT !.counter = code[3]]}
  ELSE {}

\* The rest of the transaction: a cheap hash is renewed, the second factor used, the
\* session made.
LoginMint(r) ==
  /\ Goes(r, "checked") /\ job[r].kind = "login"
  /\ LET u == job[r].user IN
     /\ Release(r, u)
     /\ \E code \in Code \cup {NoCode} :
        LET c == credential[u]
            next == IF c.secret = NoSecret THEN {c} ELSE SecondFactor(c, code) IN
        IF next = {} THEN Finish(r) /\ UNCHANGED <<credential, sessions>>
        ELSE /\ \E n \in next : credential' = [credential EXCEPT ![u] = [n EXCEPT !.hash.cheap = FALSE]]
             /\ LET s == [user |-> u, made |-> request[r].made, idle |-> FALSE,
                          password |-> c.hash.password, secret |-> c.secret] IN
                sessions' = (sessions \ Outlived(u, s)) \cup {s}
             /\ request' = [request EXCEPT ![r] = [Fresh EXCEPT !.at = "over",
                              !.code = IF c.secret = NoSecret THEN NoCode ELSE code]]
  /\ UNCHANGED <<curatorVars, hits, job, adminLock, clock, boot, crashes, interrupted>>

-----------------------------------------------------------------------------
\* ChangePassword locks the row, verifies and hashes, and ends an enrolment and all
\* sessions.
PasswordLock(r) ==
  /\ Goes(r, "allowed") /\ job[r].kind = "password" /\ RowIsFree(job[r].by)
  /\ IF credential[job[r].by].hash.password = job[r].password
     THEN /\ request' = [request EXCEPT ![r].at = "checked"]
          /\ rowLock' = [rowLock EXCEPT ![job[r].by] = r]
     ELSE Finish(r) /\ UNCHANGED rowLock
  /\ UNCHANGED <<curatorVars, credential, sessions, hits, job, adminLock, clock, boot, crashes, interrupted>>

PasswordWrite(r) ==
  /\ Goes(r, "checked") /\ job[r].kind = "password"
  /\ LET u == job[r].by IN
     /\ credential' = [credential EXCEPT ![u].hash = [password |-> "new", cheap |-> FALSE], ![u].pending = NoSecret]
     /\ sessions' = WithoutSessions(u)
     /\ Release(r, u)
  /\ Finish(r)
  /\ UNCHANGED <<curatorVars, hits, job, adminLock, clock, boot, crashes, interrupted>>

\* MFAEnroll reads without a lock, verifies the password ...
EnrollRead(r) ==
  /\ Goes(r, "allowed") /\ job[r].kind = "enroll"
  /\ LET c == credential[job[r].by] IN
     IF c.secret = NoSecret /\ c.hash.password = job[r].password
     THEN request' = [request EXCEPT ![r].at = "read", ![r].hash = c.hash]
     ELSE Finish(r)
  /\ UNCHANGED <<curatorVars, credential, sessions, hits, job, rowLock, adminLock, clock, boot, crashes, interrupted>>

\* ... and offers a secret, by an update on the condition that nothing has changed.
EnrollWrite(r) ==
  /\ Goes(r, "read") /\ job[r].kind = "enroll" /\ RowIsFree(job[r].by)
  /\ LET u == job[r].by IN
     credential' = IF credential[u].secret = NoSecret /\ Active(u) /\ credential[u].hash = request[r].hash
                   THEN [credential EXCEPT ![u].pending = r, ![u].pendingFor = request[r].hash.password]
                   ELSE credential
  /\ Finish(r)
  /\ UNCHANGED <<curatorVars, sessions, hits, job, rowLock, adminLock, clock, boot, crashes, interrupted>>

\* MFAConfirm: SELECT ... FOR UPDATE of an offer that has not expired.
ConfirmLock(r) ==
  /\ Goes(r, "allowed") /\ job[r].kind = "confirm" /\ RowIsFree(job[r].by)
  /\ LET u == job[r].by IN
     IF Active(u) /\ credential[u].secret = NoSecret /\ credential[u].pending # NoSecret
     THEN /\ request' = [request EXCEPT ![r].at = "checked"]
          /\ rowLock' = [rowLock EXCEPT ![u] = r]
     ELSE Finish(r) /\ UNCHANGED rowLock
  /\ UNCHANGED <<curatorVars, credential, sessions, hits, job, adminLock, clock, boot, crashes, interrupted>>

\* The code it was confirmed with counts as used; recovery codes are issued (8).
ConfirmWrite(r) ==
  /\ Goes(r, "checked") /\ job[r].kind = "confirm"
  /\ LET u == job[r].by
         c == credential[u] IN
     /\ \E n \in 1 .. Steps :
          credential' = [credential EXCEPT ![u] = [c EXCEPT !.secret = c.pending, !.pending = NoSecret,
                           !.counter = n, !.codes = @ \cup {<<c.pending, "recovery", 0>>}]]
     /\ sessions' = WithoutSessions(u)
     /\ Release(r, u)
  /\ Finish(r)
  /\ UNCHANGED <<curatorVars, hits, job, adminLock, clock, boot, crashes, interrupted>>

PendingExpires(u) ==
  /\ credential[u].pending # NoSecret /\ RowIsFree(u)
  /\ credential' = [credential EXCEPT ![u].pending = NoSecret]
  /\ UNCHANGED <<curatorVars, sessions, hits, job, request, rowLock, adminLock, clock, boot, crashes, interrupted>>

WithoutSecondFactor(c) == [c EXCEPT !.secret = NoSecret, !.pending = NoSecret, !.counter = -1, !.codes = {}]

\* ResetMFA of an administrator.
ResetMFA(r) ==
  /\ Goes(r, "allowed") /\ job[r].kind = "reset" /\ RowIsFree(job[r].user)
  /\ credential' = [credential EXCEPT ![job[r].user] = WithoutSecondFactor(@)]
  /\ sessions' = WithoutSessions(job[r].user)
  /\ Finish(r)
  /\ UNCHANGED <<curatorVars, hits, job, rowLock, adminLock, clock, boot, crashes, interrupted>>

-----------------------------------------------------------------------------
\* UpdateUser takes 270004, then the row, and puts what it was asked for over what
\* the row says.
Asked(r) ==
  LET old == profile[job[r].user]
      put == [f \in DOMAIN old |-> IF f \in DOMAIN job[r].set THEN job[r].set[f] ELSE old[f]]
      edu == put.entity = "edu_institution" IN
  [put EXCEPT !.company = IF edu THEN NoCompany ELSE @,
              !.partner = IF ~edu /\ put.role # "curator" THEN NoPartner ELSE @]

Acceptable(p) ==
  /\ p.entity = "edu_institution" => p.partner # NoPartner
  /\ p.role # "super_admin" /\ p.entity = "organization" => p.company # NoCompany
  /\ IsCurator(p) /\ p.partner # NoPartner => CompanyOf[p.partner] = p.company

UpdateLock(r) ==
  /\ Goes(r, "allowed") /\ job[r].kind = "update" /\ AdminIsFree
  /\ adminLock' = r
  /\ request' = [request EXCEPT ![r].at = "begun"]
  /\ UNCHANGED <<curatorVars, credential, sessions, hits, job, rowLock, clock, boot, crashes, interrupted>>

\* The row is locked, the result checked, and the other active administrators counted.
UpdateCheck(r) ==
  /\ Goes(r, "begun") /\ job[r].kind = "update" /\ RowIsFree(job[r].user)
  /\ LET u == job[r].user
         wanted == Asked(r) IN
     IF /\ profile[u].role # "none" /\ Acceptable(wanted)
        /\ (~wanted.active \/ wanted.role # "super_admin") => SuperAdmins \ {u} # {}
     THEN /\ request' = [request EXCEPT ![r].at = "checked"]
          /\ rowLock' = [rowLock EXCEPT ![u] = r]
          /\ UNCHANGED adminLock
     ELSE Finish(r) /\ adminLock' = None /\ UNCHANGED rowLock
  /\ UNCHANGED <<curatorVars, credential, sessions, hits, job, clock, boot, crashes, interrupted>>

\* The write with its triggers, the end of a curator's assignments, the end of sessions.
UpdateWrite(r) ==
  /\ Goes(r, "checked") /\ job[r].kind = "update"
  /\ LET u == job[r].user
         old == profile[u]
         wanted == Asked(r)
         written == Follow(assignments, u, old, wanted, "partner" \in DOMAIN job[r].set) IN
     /\ IF Writable(assignments, u, old, wanted)
        THEN /\ profile' = [profile EXCEPT ![u] = wanted]
             /\ assignments' = IF ~IsCurator(wanted) /\ old.role = "curator" THEN Revoked(written, NotOver(written, u)) ELSE written
             /\ sessions' = WithoutSessions(u)
        ELSE UNCHANGED <<profile, assignments, sessions>>
     /\ Release(r, u)
  /\ adminLock' = None
  /\ Finish(r)
  /\ UNCHANGED <<today, synced, call, credential, hits, job, clock, boot, crashes, interrupted>>

\* CreateUser: the profile without the partner, then the assignment of a curator or of
\* the representative of an educational organization.
CreateUser(r) ==
  /\ Goes(r, "allowed") /\ job[r].kind = "create" /\ profile[job[r].user].role = "none"
  /\ LET u == job[r].user
         wanted == job[r].set
         next == IF wanted.partner = NoPartner THEN assignments
                 ELSE Append(assignments, Period(u, wanted.partner, today, Forever, IF IsCurator(wanted) THEN "assign" ELSE "beside")) IN
     IF Acceptable(wanted) /\ Len(next) <= MaxAssignments
     THEN profile' = [profile EXCEPT ![u] = wanted] /\ assignments' = next
     ELSE UNCHANGED <<profile, assignments>>
  /\ Finish(r)
  /\ UNCHANGED <<today, synced, call, credential, sessions, hits, job, rowLock, adminLock, clock, boot, crashes, interrupted>>

\* SetEntityType: one update, of the administrator who asks, by the role he had.
SetEntityType(r) ==
  /\ Goes(r, "allowed") /\ job[r].kind = "entity" /\ RowIsFree(job[r].by)
  /\ WriteProfile(job[r].by, [profile[job[r].by] EXCEPT !.entity = "organization", !.partner = NoPartner], TRUE)
  /\ Finish(r)
  /\ UNCHANGED <<today, synced, call, credential, sessions, hits, job, rowLock, adminLock, clock, boot, crashes, interrupted>>

-----------------------------------------------------------------------------
\* A start of the server.  EnsureAdmin runs statements of its own, in no transaction:
\* it leaves an active administrator alone, or restores the configured account ...
BootUnchanged ==
  /\ boot = "down" /\ SuperAdmins # {}
  /\ boot' = "up"
  /\ UNCHANGED <<curatorVars, credential, sessions, hits, job, request, rowLock, adminLock, clock, crashes, interrupted>>

BootRestore ==
  /\ boot = "down" /\ SuperAdmins = {}
  /\ profile' = [profile EXCEPT ![Root].role = "super_admin", ![Root].entity = "organization", ![Root].active = TRUE]
  /\ credential' = [credential EXCEPT ![Root].hash = [password |-> "boot", cheap |-> FALSE]]
  /\ boot' = IF profile[Root].role = "none" THEN "up" ELSE "restored"
  /\ assignments' = HeldBeside(assignments, {i \in DOMAIN assignments : assignments[i].user = Root})
  /\ UNCHANGED <<today, synced, call, sessions, hits, job, request, rowLock, adminLock, clock, crashes, interrupted>>

\* ... and ends its sessions.
BootClose ==
  /\ boot = "restored"
  /\ boot' = "up"
  /\ sessions' = WithoutSessions(Root)
  /\ UNCHANGED <<curatorVars, credential, hits, job, request, rowLock, adminLock, clock, crashes, interrupted>>

BootCrash ==
  /\ boot = "restored" /\ crashes < MaxCrashes
  /\ boot' = "down" /\ crashes' = crashes + 1 /\ interrupted' = TRUE
  /\ UNCHANGED <<curatorVars, credential, sessions, hits, job, request, rowLock, adminLock, clock>>

-----------------------------------------------------------------------------
Init ==
  /\ hits = [b \in Buckets |-> 0] /\ request = [r \in Requests |-> Fresh]
  /\ rowLock = [u \in Users |-> None] /\ adminLock = None
  /\ clock = 0 /\ boot = "down" /\ crashes = 0 /\ interrupted = FALSE
  /\ \E s \in Starts : /\ CuratorsInit(s.profile, s.assignments, s.today, s.call)
                       /\ credential = s.credential /\ sessions = s.sessions /\ job = s.job

\* A call of the curators' module writes the row of the user, so it waits for its lock.
Curating ==
  /\ boot = "up" /\ \A u \in Users : RowIsFree(u)
  /\ CuratorsNext
  /\ UNCHANGED accountVars

Serve(r) ==
  \/ Authorize(r) \/ Logout(r)
  \/ LoginRead(r) \/ LoginBegin(r) \/ LoginCheck(r) \/ LoginMint(r)
  \/ PasswordLock(r) \/ PasswordWrite(r)
  \/ EnrollRead(r) \/ EnrollWrite(r) \/ ConfirmLock(r) \/ ConfirmWrite(r) \/ ResetMFA(r)
  \/ UpdateLock(r) \/ UpdateCheck(r) \/ UpdateWrite(r) \/ CreateUser(r) \/ SetEntityType(r)

Next ==
  \/ \E r \in Requests : Serve(r)
  \/ Curating
  \/ \E s \in sessions : GoIdle(s)
  \/ \E u \in Users : PendingExpires(u)
  \/ BootUnchanged \/ BootRestore \/ BootClose \/ BootCrash

Spec == Init /\ [][Next]_vars

-----------------------------------------------------------------------------
\* A session is of an active account with the password and the second factor it was
\* made for: whatever a slow login, a change of the password, an enrolment, a reset or
\* an administrator did in whatever order (auth_handlers.go:85-98).  A restoration that
\* was cut short leaves the account its old sessions.
Fits(s) ==
  /\ Active(s.user)
  /\ s.password = credential[s.user].hash.password
  /\ s.secret = credential[s.user].secret
SessionsFitTheAccount ==
  \A s \in sessions : Fits(s) \/ (s.user = Root /\ (boot # "up" \/ interrupted))

\* No more sessions of a user than the latest one and those kept beside it.
SessionsAreFew == \A u \in Users : Cardinality(SessionsOf(u)) <= Kept + 1

\* What RequireAuth finds is a session the account still answers for, one of a few.
SessionsAreSound == SessionsFitTheAccount /\ SessionsAreFew

\* No code of the second factor, recovery or of the authenticator, opens two sessions.
CodesWorkOnce ==
  \A r, q \in Requests : r # q /\ request[r].code # NoCode => request[r].code # request[q].code

\* Recovery codes are those of the present secret, and an enrolment in progress was
\* begun with the present password (unless the account was restored from outside).
SecondFactorIsWhole ==
  \A u \in Users : LET c == credential[u] IN
    /\ \A code \in c.codes : code[1] = c.secret
    /\ c.pending # NoSecret => c.pendingFor = c.hash.password \/ c.hash.password = "boot"

\* The second factor is one secret with its codes, each good for one session
\* (mfa.go:20-146), however enrolments, logins and resets overlap.
SecondFactorIsSound == CodesWorkOnce /\ SecondFactorIsWhole

\* Once there is one, there is an active administrator, whoever demotes whom.
AnAdministratorStays == boot # "down" => SuperAdmins # {}

\* bootstrap/admin.go:84-86: a restoration leaves nobody signed in from before.
RestorationEndsSessions ==
  boot = "up" => \A s \in sessions : s.user = Root => s.password = credential[Root].hash.password
=============================================================================
