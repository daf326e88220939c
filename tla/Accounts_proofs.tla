--------------------------- MODULE Accounts_proofs ---------------------------
(***************************************************************************)
(* Proofs about Accounts, for any number of users, requests, partners and  *)
(* days: once the server has started there is an active administrator, and *)
(* the partner a curator's profile shows is one of his assignments.        *)
(***************************************************************************)
EXTENDS Accounts, FiniteSetTheorems, TLAPS

\* As much of the types as the proofs need.
Shape ==
  /\ DOMAIN profile = Users /\ \A u \in Users : {"role", "active"} \subseteq DOMAIN profile[u]
  /\ DOMAIN request = Requests /\ \A r \in Requests : "at" \in DOMAIN request[r]
  /\ DOMAIN rowLock = Users
  /\ job \in [Requests -> Jobs]
  /\ boot \in {"down", "restored", "up"}

\* The row a request locks before its last step.
Row(r) == IF job[r].kind \in {"login", "update"} THEN job[r].user ELSE job[r].by

NobodyIsServedYet == boot # "up" => \A r \in Requests : request[r].at = "idle"

HoldsItsRow == \A r \in Requests : request[r].at = "checked" => rowLock[Row(r)] = r

HoldsAdministration ==
  \A r \in Requests : job[r].kind = "update" /\ request[r].at \in {"begun", "checked"} => adminLock = r

StaysAdministrator(p) == p.active /\ p.role = "super_admin"

\* What an edit was allowed for is still so when it is written.
EditIsAllowed ==
  \A r \in Requests : job[r].kind = "update" /\ request[r].at = "checked" =>
    /\ profile[job[r].user].role # "none"
    /\ StaysAdministrator(Asked(r)) \/ SuperAdmins \ {job[r].user} # {}

AdminInv == /\ Shape
            /\ NobodyIsServedYet
            /\ HoldsItsRow
            /\ HoldsAdministration
            /\ EditIsAllowed
            /\ AnAdministratorStays

-----------------------------------------------------------------------------
LEMMA RowIsUser ==
  ASSUME Shape, NEW r \in Requests
  PROVE  Row(r) \in Users /\ job[r].by \in Users /\ job[r].user \in Users
BY JobsAssumption DEF Shape, Row

LEMMA FinishIs ==
  ASSUME Shape, NEW r \in Requests, Finish(r)
  PROVE  /\ DOMAIN request' = Requests
         /\ "at" \in DOMAIN request'[r] /\ request'[r].at = "over"
         /\ \A q \in Requests : q # r => request'[q] = request[q]
BY DEF Shape, Finish, Fresh

\* What is asked for and who administers depends on the profiles alone.
LEMMA SameProfiles ==
  ASSUME UNCHANGED <<profile, job>>
  PROVE  SuperAdmins' = SuperAdmins /\ \A r \in Requests : Asked(r)' = Asked(r)
BY DEF SuperAdmins, Active, Asked

\* r has gone on, without a lock, or not at all.
GoesOn(r) ==
  /\ DOMAIN request' = Requests
  /\ "at" \in DOMAIN request'[r]
  /\ \A q \in Requests : q # r => request'[q] = request[q]
  /\ request'[r].at # "checked"
  /\ job[r].kind = "update" => request'[r].at # "begun"

LEMMA WithoutLock ==
  ASSUME AdminInv, NEW r \in Requests, boot = "up", GoesOn(r),
         UNCHANGED <<profile, job, rowLock, adminLock, boot>>
  PROVE  AdminInv'
<1>1. Shape'
  BY DEF AdminInv, Shape, GoesOn
<1>2. NobodyIsServedYet'
  BY DEF NobodyIsServedYet
<1>3. HoldsItsRow'
  BY DEF AdminInv, HoldsItsRow, GoesOn, Row
<1>4. HoldsAdministration'
  BY DEF AdminInv, HoldsAdministration, GoesOn
<1>5. EditIsAllowed'
  BY SameProfiles DEF AdminInv, EditIsAllowed, GoesOn, StaysAdministrator
<1>6. AnAdministratorStays'
  BY DEF AdminInv, AnAdministratorStays, SuperAdmins, Active
<1> QED BY <1>1, <1>2, <1>3, <1>4, <1>5, <1>6 DEF AdminInv

\* A free row is taken by a request that is no edit.
LEMMA TakesRow ==
  ASSUME AdminInv, NEW r \in Requests, boot = "up", job[r].kind # "update",
         RowIsFree(Row(r)), rowLock' = [rowLock EXCEPT ![Row(r)] = r],
         request' = [request EXCEPT ![r].at = "checked"],
         UNCHANGED <<profile, job, adminLock, boot>>
  PROVE  AdminInv'
<1>1. Row(r) \in Users
  BY RowIsUser DEF AdminInv
<1>2. /\ rowLock'[Row(r)] = r /\ DOMAIN rowLock' = Users
      /\ \A u \in Users : u # Row(r) => rowLock'[u] = rowLock[u]
  BY <1>1 DEF AdminInv, Shape
<1>3. /\ DOMAIN request' = Requests /\ "at" \in DOMAIN request'[r]
      /\ \A q \in Requests : q # r => request'[q] = request[q]
  BY DEF AdminInv, Shape
<1>4. Shape'
  BY <1>2, <1>3 DEF AdminInv, Shape
<1>5. NobodyIsServedYet'
  BY DEF NobodyIsServedYet
<1>6. \A q \in Requests : Row(q)' = Row(q)
  BY DEF Row
<1>7. HoldsItsRow'
  <2> SUFFICES ASSUME NEW q \in Requests, request'[q].at = "checked"
               PROVE  rowLock'[Row(q)] = q
    BY <1>6 DEF HoldsItsRow
  <2>1. CASE q = r
    BY <2>1, <1>2
  <2>2. CASE q # r
    <3>1. rowLock[Row(q)] = q /\ Row(q) \in Users
      BY <2>2, <1>3, RowIsUser DEF AdminInv, HoldsItsRow
    <3>2. Row(q) # Row(r)
      BY <3>1, JobsAssumption DEF RowIsFree, None
    <3> QED BY <3>1, <3>2, <1>2
  <2> QED BY <2>1, <2>2
<1>8. HoldsAdministration'
  BY <1>3 DEF AdminInv, HoldsAdministration
<1>9. EditIsAllowed'
  BY <1>3, SameProfiles DEF AdminInv, EditIsAllowed, StaysAdministrator
<1>10. AnAdministratorStays'
  BY DEF AdminInv, AnAdministratorStays, SuperAdmins, Active
<1> QED BY <1>4, <1>5, <1>7, <1>8, <1>9, <1>10 DEF AdminInv

\* The release of a row disturbs nobody else's.
LEMMA OthersKeepTheirRows ==
  ASSUME AdminInv, NEW r \in Requests, request[r].at = "checked", Release(r, Row(r)),
         NEW q \in Requests, q # r, request[q].at = "checked"
  PROVE  rowLock'[Row(q)] = q
<1>1. Row(r) \in Users /\ Row(q) \in Users /\ rowLock[Row(r)] = r /\ rowLock[Row(q)] = q
  BY RowIsUser DEF AdminInv, HoldsItsRow
<1> QED BY <1>1 DEF Release, AdminInv, Shape

\* A request that is no edit ends and releases its row.
LEMMA ReleasesRow ==
  ASSUME AdminInv, NEW r \in Requests, boot = "up", job[r].kind # "update",
         request[r].at = "checked", Release(r, Row(r)), GoesOn(r),
         UNCHANGED <<profile, job, adminLock, boot>>
  PROVE  AdminInv'
<1>1. Shape'
  BY DEF AdminInv, Shape, GoesOn, Release
<1>2. NobodyIsServedYet'
  BY DEF NobodyIsServedYet
<1>3. \A q \in Requests : Row(q)' = Row(q)
  BY DEF Row
<1>4. HoldsItsRow'
  BY <1>3, OthersKeepTheirRows DEF HoldsItsRow, GoesOn
<1>5. HoldsAdministration'
  BY DEF AdminInv, HoldsAdministration, GoesOn
<1>6. EditIsAllowed'
  BY SameProfiles DEF AdminInv, EditIsAllowed, GoesOn, StaysAdministrator
<1>7. AnAdministratorStays'
  BY DEF AdminInv, AnAdministratorStays, SuperAdmins, Active
<1> QED BY <1>1, <1>2, <1>4, <1>5, <1>6, <1>7 DEF AdminInv

-----------------------------------------------------------------------------
\* Logins, sessions, passwords and the second factor.
LEMMA OutsideAdministration ==
  ASSUME AdminInv, NEW r \in Requests,
         \/ Authorize(r) \/ Logout(r)
         \/ LoginRead(r) \/ LoginBegin(r) \/ EnrollRead(r) \/ EnrollWrite(r) \/ ResetMFA(r)
  PROVE  AdminInv'
<1>1. CASE Authorize(r)
  <2>1. GoesOn(r)
    BY <1>1 DEF Authorize, GoesOn, AdminInv, Shape
  <2> QED BY <1>1, <2>1, WithoutLock DEF Authorize, Goes, curatorVars
<1>2. CASE Logout(r)
  <2>1. GoesOn(r)
    BY <1>2, FinishIs DEF Logout, GoesOn, AdminInv
  <2> QED BY <1>2, <2>1, WithoutLock DEF Logout, Goes, curatorVars
<1>3. CASE LoginRead(r)
  <2>1. GoesOn(r)
    BY <1>3 DEF LoginRead, GoesOn, AdminInv, Shape, Fresh
  <2> QED BY <1>3, <2>1, WithoutLock DEF LoginRead, Goes, curatorVars
<1>4. CASE LoginBegin(r)
  <2>1. GoesOn(r)
    BY <1>4 DEF LoginBegin, GoesOn, AdminInv, Shape
  <2> QED BY <1>4, <2>1, WithoutLock DEF LoginBegin, Goes, curatorVars
<1>5. CASE EnrollRead(r)
  <2>1. GoesOn(r)
    <3>1. CASE request' = [request EXCEPT ![r].at = "read", ![r].hash = credential[job[r].by].hash]
      BY <3>1, <1>5 DEF EnrollRead, GoesOn, AdminInv, Shape
    <3>2. CASE Finish(r)
      BY <3>2, <1>5, FinishIs DEF GoesOn, AdminInv
    <3> QED BY <1>5, <3>1, <3>2 DEF EnrollRead
  <2> QED BY <1>5, <2>1, WithoutLock DEF EnrollRead, Goes, curatorVars
<1>6. CASE EnrollWrite(r)
  <2>1. GoesOn(r)
    BY <1>6, FinishIs DEF EnrollWrite, GoesOn, AdminInv
  <2> QED BY <1>6, <2>1, WithoutLock DEF EnrollWrite, Goes, curatorVars
<1>7. CASE ResetMFA(r)
  <2>1. GoesOn(r)
    BY <1>7, FinishIs DEF ResetMFA, GoesOn, AdminInv
  <2> QED BY <1>7, <2>1, WithoutLock DEF ResetMFA, Goes, curatorVars
<1> QED BY <1>1, <1>2, <1>3, <1>4, <1>5, <1>6, <1>7

LEMMA RowsTaken ==
  ASSUME AdminInv, NEW r \in Requests, LoginCheck(r) \/ PasswordLock(r) \/ ConfirmLock(r)
  PROVE  AdminInv'
<1>1. boot = "up" /\ UNCHANGED <<profile, job, adminLock, boot>>
  BY DEF LoginCheck, PasswordLock, ConfirmLock, Goes, curatorVars
<1>2. CASE Finish(r) /\ UNCHANGED rowLock
  <2>1. GoesOn(r)
    BY <1>2, FinishIs DEF GoesOn, AdminInv
  <2> QED BY <1>1, <1>2, <2>1, WithoutLock
<1>3. CASE LoginCheck(r) /\ ~ (Finish(r) /\ UNCHANGED rowLock)
  <2>1. Row(r) = job[r].user /\ job[r].kind # "update"
    BY <1>3 DEF Row, LoginCheck
  <2>2. /\ RowIsFree(Row(r)) /\ rowLock' = [rowLock EXCEPT ![Row(r)] = r]
        /\ request' = [request EXCEPT ![r].at = "checked"]
    BY <1>3, <2>1 DEF LoginCheck
  <2> QED BY <1>1, <2>1, <2>2, TakesRow
<1>4. CASE PasswordLock(r) /\ ~ (Finish(r) /\ UNCHANGED rowLock)
  <2>1. Row(r) = job[r].by /\ job[r].kind # "update"
    BY <1>4 DEF Row, PasswordLock
  <2>2. /\ RowIsFree(Row(r)) /\ rowLock' = [rowLock EXCEPT ![Row(r)] = r]
        /\ request' = [request EXCEPT ![r].at = "checked"]
    BY <1>4, <2>1 DEF PasswordLock
  <2> QED BY <1>1, <2>1, <2>2, TakesRow
<1>5. CASE ConfirmLock(r) /\ ~ (Finish(r) /\ UNCHANGED rowLock)
  <2>1. Row(r) = job[r].by /\ job[r].kind # "update"
    BY <1>5 DEF Row, ConfirmLock
  <2>2. /\ RowIsFree(Row(r)) /\ rowLock' = [rowLock EXCEPT ![Row(r)] = r]
        /\ request' = [request EXCEPT ![r].at = "checked"]
    BY <1>5, <2>1 DEF ConfirmLock
  <2> QED BY <1>1, <2>1, <2>2, TakesRow
<1> QED BY <1>2, <1>3, <1>4, <1>5

LEMMA RowsReleased ==
  ASSUME AdminInv, NEW r \in Requests, LoginMint(r) \/ PasswordWrite(r) \/ ConfirmWrite(r)
  PROVE  AdminInv'
<1>1. boot = "up" /\ UNCHANGED <<profile, job, adminLock, boot>> /\ request[r].at = "checked"
  BY DEF LoginMint, PasswordWrite, ConfirmWrite, Goes, curatorVars
<1>2. job[r].kind # "update" /\ Release(r, Row(r))
  BY DEF LoginMint, PasswordWrite, ConfirmWrite, Row
<1>3. CASE Finish(r)
  <2>1. GoesOn(r)
    BY <1>3, FinishIs DEF GoesOn, AdminInv
  <2> QED BY <1>1, <1>2, <2>1, ReleasesRow
<1>4. CASE LoginMint(r) /\ ~ Finish(r)
  <2>1. PICK code \in Code \cup {NoCode} :
          request' = [request EXCEPT ![r] = [Fresh EXCEPT !.at = "over",
            !.code = IF credential[job[r].user].secret = NoSecret THEN NoCode ELSE code]]
    BY <1>4 DEF LoginMint
  <2>2. GoesOn(r)
    BY <2>1 DEF GoesOn, AdminInv, Shape, Fresh
  <2> QED BY <1>1, <1>2, <2>2, ReleasesRow
<1> QED BY <1>3, <1>4 DEF PasswordWrite, ConfirmWrite

-----------------------------------------------------------------------------
\* The edit of a user.
LEMMA UpdateLockKeeps ==
  ASSUME AdminInv, NEW r \in Requests, UpdateLock(r)
  PROVE  AdminInv'
<1>1. /\ boot = "up" /\ adminLock = None /\ adminLock' = r
      /\ UNCHANGED <<profile, job, rowLock, boot>>
  BY DEF UpdateLock, Goes, AdminIsFree, curatorVars
<1>2. /\ DOMAIN request' = Requests
      /\ "at" \in DOMAIN request'[r] /\ request'[r].at = "begun"
      /\ \A q \in Requests : q # r => request'[q] = request[q]
  BY DEF UpdateLock, AdminInv, Shape
<1>3. Shape'
  BY <1>1, <1>2 DEF AdminInv, Shape
<1>4. NobodyIsServedYet'
  BY <1>1 DEF NobodyIsServedYet
<1>5. HoldsItsRow'
  BY <1>1, <1>2 DEF AdminInv, HoldsItsRow, Row
<1>6. HoldsAdministration'
  BY <1>1, <1>2, JobsAssumption DEF AdminInv, HoldsAdministration, None
<1>7. EditIsAllowed'
  BY <1>1, <1>2, SameProfiles DEF AdminInv, EditIsAllowed, StaysAdministrator
<1>8. AnAdministratorStays'
  BY <1>1, SameProfiles DEF AdminInv, AnAdministratorStays
<1> QED BY <1>3, <1>4, <1>5, <1>6, <1>7, <1>8 DEF AdminInv

LEMMA UpdateCheckKeeps ==
  ASSUME AdminInv, NEW r \in Requests, UpdateCheck(r)
  PROVE  AdminInv'
<1> DEFINE u == job[r].user
<1>1. /\ boot = "up" /\ job[r].kind = "update" /\ request[r].at = "begun" /\ rowLock[u] = None
      /\ UNCHANGED <<profile, job, boot>>
  BY DEF UpdateCheck, Goes, RowIsFree, curatorVars
<1>2. Row(r) = u /\ u \in Users /\ adminLock = r
  BY <1>1, RowIsUser DEF Row, AdminInv, HoldsAdministration
<1>3. \A q \in Requests : job[q].kind = "update" /\ request[q].at \in {"begun", "checked"} => q = r
  BY <1>2 DEF AdminInv, HoldsAdministration
<1>4. /\ DOMAIN request' = Requests /\ "at" \in DOMAIN request'[r]
      /\ request'[r].at \in {"checked", "over"}
      /\ \A q \in Requests : q # r => request'[q] = request[q]
  <2>1. CASE Finish(r)
    BY <2>1, FinishIs DEF AdminInv
  <2>2. CASE request' = [request EXCEPT ![r].at = "checked"]
    BY <2>2 DEF AdminInv, Shape
  <2> QED BY <2>1, <2>2 DEF UpdateCheck
<1>5. request'[r].at = "checked" =>
        /\ rowLock' = [rowLock EXCEPT ![u] = r] /\ adminLock' = r
        /\ profile[u].role # "none"
        /\ StaysAdministrator(Asked(r)) \/ SuperAdmins \ {u} # {}
  <2> SUFFICES ASSUME request'[r].at = "checked"
               PROVE  /\ rowLock' = [rowLock EXCEPT ![u] = r] /\ adminLock' = r
                      /\ profile[u].role # "none"
                      /\ StaysAdministrator(Asked(r)) \/ SuperAdmins \ {u} # {}
    OBVIOUS
  <2>1. ~ Finish(r)
    BY FinishIs DEF AdminInv
  <2>2. /\ rowLock' = [rowLock EXCEPT ![u] = r] /\ adminLock' = adminLock
        /\ profile[u].role # "none"
        /\ (~ Asked(r).active \/ Asked(r).role # "super_admin") => SuperAdmins \ {u} # {}
    BY <2>1 DEF UpdateCheck
  <2> QED BY <2>2, <1>2 DEF StaysAdministrator
<1>6. rowLock' = rowLock \/ rowLock' = [rowLock EXCEPT ![u] = r]
  BY DEF UpdateCheck
<1>7. DOMAIN rowLock' = Users /\ \A x \in Users : x # u => rowLock'[x] = rowLock[x]
  BY <1>6 DEF AdminInv, Shape
<1>8. Shape'
  BY <1>1, <1>4, <1>7 DEF AdminInv, Shape
<1>9. NobodyIsServedYet'
  BY <1>1 DEF NobodyIsServedYet
<1>10. HoldsItsRow'
  <2> SUFFICES ASSUME NEW q \in Requests, request'[q].at = "checked"
               PROVE  rowLock'[Row(q)] = q
    BY <1>1 DEF HoldsItsRow, Row
  <2>1. CASE q = r
    BY <2>1, <1>2, <1>5 DEF AdminInv, Shape
  <2>2. CASE q # r
    <3>1. rowLock[Row(q)] = q /\ Row(q) \in Users
      BY <2>2, <1>4, RowIsUser DEF AdminInv, HoldsItsRow
    <3>2. Row(q) # u
      BY <3>1, <1>1, JobsAssumption DEF None
    <3> QED BY <3>1, <3>2, <1>7
  <2> QED BY <2>1, <2>2
<1>11. HoldsAdministration'
  BY <1>1, <1>3, <1>4, <1>5 DEF HoldsAdministration
<1>12. EditIsAllowed'
  BY <1>1, <1>3, <1>4, <1>5, SameProfiles DEF EditIsAllowed, StaysAdministrator
<1>13. AnAdministratorStays'
  BY <1>1, SameProfiles DEF AdminInv, AnAdministratorStays
<1> QED BY <1>8, <1>9, <1>10, <1>11, <1>12, <1>13 DEF AdminInv

LEMMA UpdateWriteKeeps ==
  ASSUME AdminInv, NEW r \in Requests, UpdateWrite(r)
  PROVE  AdminInv'
<1> DEFINE u == job[r].user
<1>1. /\ boot = "up" /\ boot' = boot /\ job[r].kind = "update" /\ request[r].at = "checked"
      /\ job' = job /\ Release(r, u) /\ Finish(r)
  BY DEF UpdateWrite, Goes
<1>2. u \in Users /\ Row(r) = u /\ adminLock = r
  BY <1>1, RowIsUser DEF Row, AdminInv, HoldsAdministration
<1>3. /\ DOMAIN request' = Requests /\ "at" \in DOMAIN request'[r] /\ request'[r].at = "over"
      /\ \A q \in Requests : q # r => request'[q] = request[q]
  BY <1>1, FinishIs DEF AdminInv
<1>4. profile' = profile \/ profile' = [profile EXCEPT ![u] = Asked(r)]
  BY DEF UpdateWrite
<1>5. DOMAIN Asked(r) = DOMAIN profile[u]
  BY DEF Asked
<1>6. /\ DOMAIN profile' = Users
      /\ \A x \in Users : {"role", "active"} \subseteq DOMAIN profile'[x]
      /\ \A x \in Users : x # u => profile'[x] = profile[x]
      /\ profile'[u] = profile[u] \/ profile'[u] = Asked(r)
  BY <1>2, <1>4, <1>5 DEF AdminInv, Shape
<1>7. Shape'
  BY <1>1, <1>3, <1>6 DEF AdminInv, Shape, Release
<1>8. NobodyIsServedYet'
  BY <1>1 DEF NobodyIsServedYet
<1>9. HoldsItsRow'
  BY <1>1, <1>2, <1>3, OthersKeepTheirRows DEF HoldsItsRow, Row
<1>10. \A q \in Requests : job[q].kind = "update" /\ request'[q].at \in {"begun", "checked"} => FALSE
  BY <1>2, <1>3 DEF AdminInv, HoldsAdministration
<1>11. HoldsAdministration' /\ EditIsAllowed'
  BY <1>1, <1>10 DEF HoldsAdministration, EditIsAllowed
<1>12. SuperAdmins' # {}
  <2>1. CASE profile'[u] = profile[u]
    <3>1. \A x \in Users : profile'[x] = profile[x]
      BY <2>1, <1>6
    <3> QED BY <3>1, <1>1 DEF AdminInv, AnAdministratorStays, SuperAdmins, Active
  <2>2. CASE profile'[u] = Asked(r)
    <3>1. CASE StaysAdministrator(Asked(r))
      BY <3>1, <2>2, <1>2 DEF StaysAdministrator, SuperAdmins, Active
    <3>2. CASE SuperAdmins \ {u} # {}
      BY <3>2, <1>6 DEF SuperAdmins, Active
    <3> QED BY <3>1, <3>2, <1>1 DEF AdminInv, EditIsAllowed
  <2> QED BY <2>1, <2>2, <1>6
<1> QED BY <1>7, <1>8, <1>9, <1>11, <1>12 DEF AdminInv, AnAdministratorStays

-----------------------------------------------------------------------------
\* A step that leaves roles and locks alone, and the profiles of the users who are edited.
LEMMA RolesStay ==
  ASSUME AdminInv, boot = "up", UNCHANGED <<job, rowLock, adminLock, boot>>,
         DOMAIN request' = Requests,
         \A q \in Requests : \/ request'[q] = request[q]
                             \/ "at" \in DOMAIN request'[q] /\ request'[q].at = "over",
         DOMAIN profile' = Users,
         \A u \in Users : {"role", "active"} \subseteq DOMAIN profile'[u],
         SuperAdmins \subseteq SuperAdmins',
         \A q \in Requests : job[q].kind = "update" /\ request[q].at = "checked"
                               => profile'[job[q].user] = profile[job[q].user]
  PROVE  AdminInv'
<1>1. Shape'
  BY DEF AdminInv, Shape
<1>2. NobodyIsServedYet'
  BY DEF NobodyIsServedYet
<1>3. HoldsItsRow'
  BY DEF AdminInv, HoldsItsRow, Row
<1>4. HoldsAdministration'
  BY DEF AdminInv, HoldsAdministration
<1>5. EditIsAllowed'
  <2> SUFFICES ASSUME NEW q \in Requests, job[q].kind = "update", request'[q].at = "checked"
               PROVE  /\ profile'[job[q].user].role # "none"
                      /\ StaysAdministrator(Asked(q)') \/ SuperAdmins' \ {job[q].user} # {}
    BY DEF EditIsAllowed, StaysAdministrator
  <2>1. request[q].at = "checked"
    OBVIOUS
  <2>2. profile'[job[q].user] = profile[job[q].user]
    BY <2>1
  <2>3. Asked(q)' = Asked(q)
    BY <2>2 DEF Asked
  <2> QED BY <2>1, <2>2, <2>3 DEF AdminInv, EditIsAllowed
<1>6. AnAdministratorStays'
  BY DEF AdminInv, AnAdministratorStays
<1> QED BY <1>1, <1>2, <1>3, <1>4, <1>5, <1>6 DEF AdminInv

LEMMA CreateUserKeeps ==
  ASSUME AdminInv, NEW r \in Requests, CreateUser(r)
  PROVE  AdminInv'
<1> DEFINE u == job[r].user
<1>1. /\ boot = "up" /\ job[r].kind = "create" /\ profile[u].role = "none" /\ Finish(r)
      /\ UNCHANGED <<job, rowLock, adminLock, boot>>
  BY DEF CreateUser, Goes
<1>2. u \in Users /\ job[r].set \in Profile
  BY <1>1, RowIsUser, JobsAssumption DEF AdminInv, Shape
<1>3. {"role", "active"} \subseteq DOMAIN job[r].set
  BY <1>2 DEF Profile
<1>4. profile' = profile \/ profile' = [profile EXCEPT ![u] = job[r].set]
  BY DEF CreateUser
<1>5. /\ DOMAIN profile' = Users
      /\ \A x \in Users : {"role", "active"} \subseteq DOMAIN profile'[x]
      /\ \A x \in Users : x # u => profile'[x] = profile[x]
  BY <1>2, <1>3, <1>4 DEF AdminInv, Shape
<1>6. SuperAdmins \subseteq SuperAdmins'
  BY <1>1, <1>5 DEF SuperAdmins, Active
<1>7. \A q \in Requests : job[q].kind = "update" /\ request[q].at = "checked"
                             => profile'[job[q].user] = profile[job[q].user]
  BY <1>1, <1>5, RowIsUser DEF AdminInv, EditIsAllowed
<1> QED BY <1>1, <1>5, <1>6, <1>7, FinishIs, RolesStay DEF AdminInv

LEMMA SetEntityTypeKeeps ==
  ASSUME AdminInv, NEW r \in Requests, SetEntityType(r)
  PROVE  AdminInv'
<1> DEFINE u == job[r].by
           new == [profile[u] EXCEPT !.entity = "organization", !.partner = NoPartner]
<1>1. /\ boot = "up" /\ rowLock[u] = None /\ Finish(r) /\ profile' = [profile EXCEPT ![u] = new]
      /\ UNCHANGED <<job, rowLock, adminLock, boot>>
  BY DEF SetEntityType, Goes, RowIsFree, WriteProfile
<1>2. u \in Users
  BY RowIsUser DEF AdminInv
<1>3. DOMAIN new = DOMAIN profile[u] /\ new.role = profile[u].role /\ new.active = profile[u].active
  BY <1>2 DEF AdminInv, Shape
<1>4. /\ DOMAIN profile' = Users
      /\ \A x \in Users : {"role", "active"} \subseteq DOMAIN profile'[x]
      /\ \A x \in Users : x # u => profile'[x] = profile[x]
      /\ profile'[u] = new
  BY <1>1, <1>2, <1>3 DEF AdminInv, Shape
<1>5. SuperAdmins \subseteq SuperAdmins'
  BY <1>3, <1>4 DEF SuperAdmins, Active
<1>6. \A q \in Requests : job[q].kind = "update" /\ request[q].at = "checked"
                             => profile'[job[q].user] = profile[job[q].user]
  <2> SUFFICES ASSUME NEW q \in Requests, job[q].kind = "update", request[q].at = "checked"
               PROVE  profile'[job[q].user] = profile[job[q].user]
    OBVIOUS
  <2>1. rowLock[job[q].user] = q /\ job[q].user \in Users
    BY RowIsUser DEF AdminInv, HoldsItsRow, Row
  <2> QED BY <2>1, <1>1, <1>4, JobsAssumption DEF None
<1> QED BY <1>1, <1>4, <1>5, <1>6, FinishIs, RolesStay DEF AdminInv

\* Assignments write the partner of a profile and nothing else of it.
LEMMA CuratorsLeaveRoles ==
  ASSUME Shape, CuratorsNext
  PROVE  /\ DOMAIN profile' = Users
         /\ \A u \in Users : /\ {"role", "active"} \subseteq DOMAIN profile'[u]
                             /\ profile'[u].role = profile[u].role
                             /\ profile'[u].active = profile[u].active
<1> DEFINE Same == /\ DOMAIN profile' = Users
                   /\ \A u \in Users : /\ {"role", "active"} \subseteq DOMAIN profile'[u]
                                       /\ profile'[u].role = profile[u].role
                                       /\ profile'[u].active = profile[u].active
<1>1. ASSUME profile' = profile PROVE Same
  BY <1>1 DEF Shape
<1>2. ASSUME NEW as, NEW x, profile' = Refresh(profile, as, x) PROVE Same
  <2>1. PICK partner : \/ profile' = profile
                       \/ profile' = [profile EXCEPT ![x].partner = partner]
    BY <1>2 DEF Refresh
  <2>2. CASE profile' = [profile EXCEPT ![x].partner = partner]
    BY <2>2 DEF Shape
  <2> QED BY <2>1, <2>2, <1>1
<1>3. ASSUME Sync PROVE Same
  BY <1>3 DEF Sync, Shape
<1>4. ASSUME NEW u \in Users, NEW p \in Partners, NEW from \in Day, NEW until \in Day \cup {Forever},
             Assign(u, p, from, until)
      PROVE  Same
  BY <1>4, <1>2 DEF Assign
<1>5. ASSUME NEW c \in Calls, EndWrite(c) \/ RevokeWrite(c) PROVE Same
  BY <1>5, <1>1, <1>2 DEF EndWrite, RevokeWrite
<1>6. ASSUME NEW c \in Calls, NEW i \in DOMAIN assignments,
             RevokeRead(c, i) \/ (\E until \in Day : EndRead(c, i, until))
      PROVE  Same
  BY <1>6, <1>1 DEF RevokeRead, EndRead
<1>7. ASSUME NextDay PROVE Same
  BY <1>7, <1>1 DEF NextDay
<1> QED BY <1>3, <1>4, <1>5, <1>6, <1>7 DEF CuratorsNext

LEMMA CuratingKeeps ==
  ASSUME AdminInv, Curating
  PROVE  AdminInv'
<1>1. /\ boot = "up" /\ UNCHANGED <<request, job, rowLock, adminLock, boot>>
      /\ \A u \in Users : rowLock[u] = None
  BY DEF Curating, RowIsFree, accountVars
<1>2. /\ DOMAIN profile' = Users
      /\ \A u \in Users : /\ {"role", "active"} \subseteq DOMAIN profile'[u]
                          /\ profile'[u].role = profile[u].role
                          /\ profile'[u].active = profile[u].active
  BY CuratorsLeaveRoles DEF Curating, AdminInv
<1>3. SuperAdmins \subseteq SuperAdmins'
  BY <1>2 DEF SuperAdmins, Active
<1>4. \A q \in Requests : request[q].at # "checked"
  BY <1>1, RowIsUser, JobsAssumption DEF AdminInv, HoldsItsRow, None
<1> QED BY <1>1, <1>2, <1>3, <1>4, RolesStay DEF AdminInv, Shape

\* A start, which nobody is served before.
LEMMA BootKeeps ==
  ASSUME AdminInv, BootUnchanged \/ BootRestore \/ BootClose \/ BootCrash
  PROVE  AdminInv'
<1>1. UNCHANGED <<request, job, rowLock, adminLock>>
  BY DEF BootUnchanged, BootRestore, BootClose, BootCrash
<1>2. \A r \in Requests : request[r].at = "idle"
  BY DEF AdminInv, NobodyIsServedYet, BootUnchanged, BootRestore, BootClose, BootCrash
<1>3. (NobodyIsServedYet /\ HoldsItsRow /\ HoldsAdministration /\ EditIsAllowed)'
  BY <1>1, <1>2 DEF NobodyIsServedYet, HoldsItsRow, HoldsAdministration, EditIsAllowed
<1>4. CASE BootRestore
  <2>1. Root \in Users /\ DOMAIN profile = Users /\ \A u \in Users : {"role", "active"} \subseteq DOMAIN profile[u]
    BY AccountsAssumption DEF AdminInv, Shape
  <2>2. /\ DOMAIN profile' = Users
        /\ \A u \in Users : {"role", "active"} \subseteq DOMAIN profile'[u]
        /\ profile'[Root].role = "super_admin" /\ profile'[Root].active
    BY <1>4, <2>1 DEF BootRestore
  <2>3. boot' \in {"restored", "up"}
    BY <1>4 DEF BootRestore
  <2>4. Shape'
    BY <1>1, <2>2, <2>3 DEF AdminInv, Shape
  <2>5. AnAdministratorStays'
    BY <2>1, <2>2 DEF AnAdministratorStays, SuperAdmins, Active
  <2> QED BY <1>3, <2>4, <2>5 DEF AdminInv
<1>5. CASE BootUnchanged \/ BootClose \/ BootCrash
  <2>1. profile' = profile /\ boot' \in {"up", "down"}
    BY <1>5 DEF BootUnchanged, BootClose, BootCrash, curatorVars
  <2>2. Shape'
    BY <1>1, <2>1 DEF AdminInv, Shape
  <2>3. SuperAdmins' = SuperAdmins
    BY <2>1 DEF SuperAdmins, Active
  <2>4. AnAdministratorStays'
    BY <1>5, <2>3 DEF AdminInv, AnAdministratorStays, BootUnchanged, BootClose, BootCrash
  <2> QED BY <1>3, <2>2, <2>4 DEF AdminInv
<1> QED BY <1>4, <1>5

LEMMA AdminUntouched ==
  ASSUME AdminInv, UNCHANGED <<profile, job, request, rowLock, adminLock, boot>>
  PROVE  AdminInv'
<1>1. Shape' /\ NobodyIsServedYet' /\ HoldsAdministration'
  BY DEF AdminInv, Shape, NobodyIsServedYet, HoldsAdministration
<1>2. HoldsItsRow'
  BY DEF AdminInv, HoldsItsRow, Row
<1>3. EditIsAllowed' /\ AnAdministratorStays'
  BY SameProfiles DEF AdminInv, EditIsAllowed, StaysAdministrator, AnAdministratorStays
<1> QED BY <1>1, <1>2, <1>3 DEF AdminInv

LEMMA AdminInitially ==
  ASSUME Init
  PROVE  AdminInv
<1>1. PICK s \in Starts : profile = s.profile /\ job = s.job
  BY DEF Init, CuratorsInit
<1>2. profile \in [Users -> Profile] /\ job \in [Requests -> Jobs]
  BY <1>1, AccountsAssumption
<1>3. \A u \in Users : {"role", "active"} \subseteq DOMAIN profile[u]
  BY <1>2 DEF Profile
<1>4. boot = "down" /\ request = [r \in Requests |-> Fresh] /\ rowLock = [u \in Users |-> None]
  BY DEF Init
<1>5. Shape
  BY <1>2, <1>3, <1>4 DEF Shape, Fresh
<1>6. \A r \in Requests : request[r].at = "idle"
  BY <1>4 DEF Fresh
<1> QED BY <1>4, <1>5, <1>6
        DEF AdminInv, NobodyIsServedYet, HoldsItsRow, HoldsAdministration, EditIsAllowed,
            AnAdministratorStays

LEMMA AdminStep ==
  ASSUME AdminInv, [Next]_vars
  PROVE  AdminInv'
<1>1. ASSUME NEW r \in Requests, Serve(r)
      PROVE  AdminInv'
  BY <1>1, OutsideAdministration, RowsTaken, RowsReleased, UpdateLockKeeps, UpdateCheckKeeps,
     UpdateWriteKeeps, CreateUserKeeps, SetEntityTypeKeeps DEF Serve
<1>2. ASSUME NEW s \in sessions, GoIdle(s)
      PROVE  AdminInv'
  BY <1>2, AdminUntouched DEF GoIdle, curatorVars
<1>3. ASSUME NEW u \in Users, PendingExpires(u)
      PROVE  AdminInv'
  BY <1>3, AdminUntouched DEF PendingExpires, curatorVars
<1>4. CASE UNCHANGED vars
  BY <1>4, AdminUntouched DEF vars, curatorVars, accountVars
<1> QED BY <1>1, <1>2, <1>3, <1>4, CuratingKeeps, BootKeeps DEF Next

(* Whatever administrators do to each other, and whoever else writes the    *)
(* same rows meanwhile, one of them stays active: the count under 270004    *)
(* is still right when the edit it allowed is written (UpdateUser,          *)
(* EnsureAdmin).                                                            *)
THEOREM SomebodyAdministers == Spec => []AnAdministratorStays
<1>1. Init => AdminInv
  BY AdminInitially
<1>2. AdminInv /\ [Next]_vars => AdminInv'
  BY AdminStep
<1>3. AdminInv => AnAdministratorStays
  BY DEF AdminInv
<1> QED BY <1>1, <1>2, <1>3, PTL DEF Spec

-----------------------------------------------------------------------------
\* Curators.  What holds of a user with profile p who holds assignments of a list.
Shows(u, p, list) ==
  IsCurator(p) => \/ \E d \in synced .. today : p.partner = CurrentPartner(list, u, d)
                  \/ \E i \in DOMAIN list : list[i].user = u /\ list[i].why = "beside" /\ ~list[i].revoked

\* Who follows no assignment holds his beside the profile; nobody holds none.
HoldsBeside(u, p, list) ==
  /\ ~IsCurator(p) => \A i \in DOMAIN list :
       list[i].user = u /\ ~list[i].revoked /\ list[i].until >= today => list[i].why = "beside"
  /\ p.role = "none" => \A i \in DOMAIN list : list[i].user = u => list[i].revoked

CallsKnowTheirRows ==
  /\ DOMAIN call = Calls
  /\ \A c \in Calls : call[c].at \in {"ending", "revoking"} =>
       call[c].id \in DOMAIN assignments /\ call[c].until \in 0 .. Forever

PeriodInv ==
  /\ profile \in [Users -> Profile] /\ assignments \in Seq(Assignment)
  /\ today \in Day /\ synced \in Day /\ synced <= today
  /\ CallsKnowTheirRows
  /\ PeriodsAreApart(assignments)
  /\ \A u \in Users : Shows(u, profile[u], assignments) /\ HoldsBeside(u, profile[u], assignments)

LEMMA RowOfAssignments ==
  ASSUME NEW list \in Seq(Assignment), NEW i \in DOMAIN list
  PROVE  /\ list[i] \in Assignment /\ list[i].from \in Int /\ list[i].until \in Int
         /\ list[i].user \in Users /\ list[i].partner \in Partners
         /\ DOMAIN list = 1 .. Len(list) /\ Len(list) \in Nat /\ i \in Nat
<1>1. list[i] \in Assignment /\ DOMAIN list = 1 .. Len(list) /\ Len(list) \in Nat
  OBVIOUS
<1>2. 0 .. Forever \subseteq Int /\ Day \subseteq Int
  BY CuratorsAssumption DEF CuratorsAssumption, Forever, Day
<1>3. /\ list[i].user \in Users /\ list[i].partner \in Partners
      /\ list[i].from \in Day /\ list[i].until \in 0 .. Forever
  BY <1>1 DEF Assignment
<1>4. list[i].from \in Int /\ list[i].until \in Int
  BY <1>2, <1>3
<1>5. i \in Nat
  BY <1>1
<1> QED BY <1>1, <1>3, <1>4, <1>5

\* A list with the length of another and rows of its own.
LEMMA MadeOfRows ==
  ASSUME NEW list \in Seq(Assignment), NEW f, f = [i \in DOMAIN list |-> f[i]],
         \A i \in DOMAIN list : f[i] \in Assignment
  PROVE  f \in Seq(Assignment) /\ Len(f) = Len(list) /\ DOMAIN f = DOMAIN list
<1>1. DOMAIN list = 1 .. Len(list) /\ Len(list) \in Nat
  OBVIOUS
<1>2. f \in [1 .. Len(list) -> Assignment]
  BY <1>1
<1> QED BY <1>1, <1>2

\* Of periods that are apart one at most is in force on a day: his that day.
LEMMA OneInForce ==
  ASSUME NEW list \in Seq(Assignment), PeriodsAreApart(list), NEW u, NEW d \in Int,
         NEW i \in DOMAIN list, list[i].user = u, InForce(list[i], d)
  PROVE  CurrentPartner(list, u, d) = list[i].partner
<1> DEFINE found == {j \in DOMAIN list : list[j].user = u /\ InForce(list[j], d)}
<1>1. \A j \in found : j = i
  <2> SUFFICES ASSUME NEW j \in DOMAIN list, list[j].user = u, InForce(list[j], d), j # i
               PROVE  FALSE
    OBVIOUS
  <2>1. /\ list[i].from \in Int /\ list[i].until \in Int /\ list[j].from \in Int /\ list[j].until \in Int
    BY RowOfAssignments
  <2>2. list[i].from <= list[j].until /\ list[j].from <= list[i].until /\ ~list[i].revoked /\ ~list[j].revoked
    BY <2>1 DEF InForce
  <2> QED BY <2>2 DEF PeriodsAreApart, Overlap
<1>2. i \in found /\ list[i].from <= list[i].from
  BY RowOfAssignments
<1>3. \E k \in found : \A j \in found : list[j].from <= list[k].from
  BY <1>1, <1>2
<1>4. (CHOOSE k \in found : \A j \in found : list[j].from <= list[k].from) \in found
  BY <1>3
<1>5. (CHOOSE k \in found : \A j \in found : list[j].from <= list[k].from) = i
  BY <1>1, <1>4
<1> QED BY <1>2, <1>5 DEF CurrentPartner

LEMMA NoneInForce ==
  ASSUME NEW list, NEW u, NEW d, \A i \in DOMAIN list : list[i].user = u => ~InForce(list[i], d)
  PROVE  CurrentPartner(list, u, d) = NoPartner
BY DEF CurrentPartner

LEMMA CurrentIsPartner ==
  ASSUME NEW list \in Seq(Assignment), PeriodsAreApart(list), NEW u, NEW d \in Int
  PROVE  CurrentPartner(list, u, d) \in Partners \cup {NoPartner}
<1>1. CASE \E i \in DOMAIN list : list[i].user = u /\ InForce(list[i], d)
  BY <1>1, OneInForce, RowOfAssignments
<1>2. CASE \A i \in DOMAIN list : list[i].user = u => ~InForce(list[i], d)
  BY <1>2, NoneInForce
<1> QED BY <1>1, <1>2

\* The rows of a user are the same in two lists.
SameFor(u, list, other) ==
  \A i : /\ i \in DOMAIN list /\ list[i].user = u <=> i \in DOMAIN other /\ other[i].user = u
         /\ i \in DOMAIN list /\ list[i].user = u => list[i] = other[i]

LEMMA CurrentIsTheSame ==
  ASSUME NEW list \in Seq(Assignment), NEW other \in Seq(Assignment), PeriodsAreApart(list), PeriodsAreApart(other),
         NEW u, NEW d \in Int, SameFor(u, list, other)
  PROVE  CurrentPartner(list, u, d) = CurrentPartner(other, u, d)
<1>1. CASE \E i \in DOMAIN list : list[i].user = u /\ InForce(list[i], d)
  <2>1. PICK i \in DOMAIN list : list[i].user = u /\ InForce(list[i], d)
    BY <1>1
  <2>2. i \in DOMAIN other /\ other[i].user = u /\ list[i] = other[i]
    BY <2>1 DEF SameFor
  <2> QED BY <2>1, <2>2, OneInForce
<1>2. CASE \A i \in DOMAIN list : list[i].user = u => ~InForce(list[i], d)
  <2>1. \A i \in DOMAIN other : other[i].user = u => ~InForce(other[i], d)
    BY <1>2 DEF SameFor
  <2> QED BY <1>2, <2>1, NoneInForce
<1> QED BY <1>1, <1>2

\* A step that concerns one user, his profile and his assignments.
LEMMA OneUserChanges ==
  ASSUME PeriodInv, NEW u \in Users, NEW p \in Profile, NEW list \in Seq(Assignment), PeriodsAreApart(list),
         \A v \in Users : v # u => SameFor(v, assignments, list),
         Shows(u, p, list), HoldsBeside(u, p, list), DOMAIN assignments \subseteq DOMAIN list,
         profile' = [profile EXCEPT ![u] = p], assignments' = list, UNCHANGED <<today, synced>>,
         DOMAIN call' = Calls, \A c \in Calls : call'[c] = call[c] \/ call'[c].at = "over"
  PROVE  PeriodInv'
<1>1. profile' \in [Users -> Profile] /\ profile'[u] = p /\ \A v \in Users : v # u => profile'[v] = profile[v]
  BY DEF PeriodInv
<1>2. CallsKnowTheirRows'
  BY DEF PeriodInv, CallsKnowTheirRows
<1>3. PeriodsAreApart(assignments)'
  BY DEF PeriodsAreApart, Overlap
<1>4. synced .. today \subseteq Int
  OBVIOUS
<1>5. ASSUME NEW v \in Users, v # u
      PROVE  Shows(v, profile[v], list) /\ HoldsBeside(v, profile[v], list)
  <2>1. Shows(v, profile[v], assignments) /\ HoldsBeside(v, profile[v], assignments) /\ SameFor(v, assignments, list)
    BY <1>5 DEF PeriodInv
  <2>2. \A d \in synced .. today : CurrentPartner(assignments, v, d) = CurrentPartner(list, v, d)
    BY <1>4, <2>1, CurrentIsTheSame DEF PeriodInv
  <2>3. Shows(v, profile[v], list)
    BY <2>1, <2>2 DEF Shows, SameFor
  <2>4. HoldsBeside(v, profile[v], list)
    BY <2>1 DEF HoldsBeside, SameFor
  <2> QED BY <2>3, <2>4
<1>6. \A v \in Users : Shows(v, profile'[v], list) /\ HoldsBeside(v, profile'[v], list)
  BY <1>1, <1>5
<1>7. (\A v \in Users : Shows(v, profile[v], assignments) /\ HoldsBeside(v, profile[v], assignments))'
  BY <1>6 DEF Shows, HoldsBeside, IsCurator
<1> QED BY <1>1, <1>2, <1>3, <1>7 DEF PeriodInv

\* What the operators on assignments return.
LEMMA RevokedRows ==
  ASSUME NEW list \in Seq(Assignment), NEW W
  PROVE  /\ Revoked(list, W) \in Seq(Assignment) /\ DOMAIN Revoked(list, W) = DOMAIN list
         /\ \A i \in DOMAIN list : LET row == Revoked(list, W)[i] IN
              /\ row.user = list[i].user /\ row.partner = list[i].partner /\ row.why = list[i].why
              /\ row.from = list[i].from /\ row.until = list[i].until
              /\ row.revoked <=> list[i].revoked \/ i \in W
              /\ i \notin W => row = list[i]
<1> DEFINE After(i) == [list[i] EXCEPT !.revoked = list[i].revoked \/ i \in W]
<1>1. Revoked(list, W) = [i \in DOMAIN list |-> After(i)]
  BY DEF Revoked
<1>2. ASSUME NEW i \in DOMAIN list
      PROVE  /\ After(i) \in Assignment
             /\ After(i).user = list[i].user /\ After(i).partner = list[i].partner /\ After(i).why = list[i].why
             /\ After(i).from = list[i].from /\ After(i).until = list[i].until
             /\ After(i).revoked <=> list[i].revoked \/ i \in W
             /\ i \notin W => After(i) = list[i]
  <2>1. list[i] \in Assignment
    BY RowOfAssignments
  <2> QED BY <2>1 DEF Assignment
<1> HIDE DEF After
<1>3. \A i \in DOMAIN list : Revoked(list, W)[i] = After(i)
  BY <1>1
<1>4. Revoked(list, W) = [i \in DOMAIN list |-> Revoked(list, W)[i]]
  BY <1>1
<1>5. Revoked(list, W) \in Seq(Assignment) /\ DOMAIN Revoked(list, W) = DOMAIN list
  BY <1>2, <1>3, <1>4, MadeOfRows
<1> QED BY <1>2, <1>3, <1>5

LEMMA RevokedStayApart ==
  ASSUME NEW list \in Seq(Assignment), PeriodsAreApart(list), NEW W
  PROVE  PeriodsAreApart(Revoked(list, W))
<1> SUFFICES ASSUME NEW i \in DOMAIN Revoked(list, W), NEW j \in DOMAIN Revoked(list, W), i # j
             PROVE  ~Overlap(Revoked(list, W)[i], Revoked(list, W)[j])
  BY DEF PeriodsAreApart
<1>1. i \in DOMAIN list /\ j \in DOMAIN list
  BY RevokedRows
<1>2. ~Overlap(list[i], list[j])
  BY <1>1 DEF PeriodsAreApart
<1> QED BY <1>1, <1>2, RevokedRows DEF Overlap

LEMMA RevokedForOthers ==
  ASSUME NEW list \in Seq(Assignment), NEW W, NEW v, \A i \in DOMAIN list : i \in W => list[i].user # v
  PROVE  SameFor(v, list, Revoked(list, W))
BY RevokedRows DEF SameFor

LEMMA AppendedRow ==
  ASSUME NEW list \in Seq(Assignment), NEW a \in Assignment
  PROVE  /\ Append(list, a) \in Seq(Assignment)
         /\ DOMAIN list = 1 .. Len(list) /\ Len(list) \in Nat
         /\ DOMAIN Append(list, a) = 1 .. Len(list) + 1
         /\ Append(list, a)[Len(list) + 1] = a
         /\ \A i \in DOMAIN list : i \in DOMAIN Append(list, a) /\ Append(list, a)[i] = list[i]
         /\ \A i \in DOMAIN Append(list, a) : i \in DOMAIN list \/ i = Len(list) + 1
         /\ \A v : v # a.user => SameFor(v, list, Append(list, a))
<1>1. /\ Append(list, a) \in Seq(Assignment)
      /\ DOMAIN list = 1 .. Len(list) /\ Len(list) \in Nat
      /\ DOMAIN Append(list, a) = 1 .. Len(list) + 1
      /\ Append(list, a)[Len(list) + 1] = a
      /\ \A i \in 1 .. Len(list) : Append(list, a)[i] = list[i]
  OBVIOUS
<1>2. \A i \in 1 .. Len(list) : i \in 1 .. Len(list) + 1
  BY <1>1
<1>3. \A i \in 1 .. Len(list) + 1 : i \in 1 .. Len(list) \/ i = Len(list) + 1
  BY <1>1
<1>4. \A v : v # a.user => SameFor(v, list, Append(list, a))
  BY <1>1, <1>2, <1>3 DEF SameFor
<1> QED BY <1>1, <1>2, <1>3, <1>4

LEMMA ReplacedRow ==
  ASSUME NEW list \in Seq(Assignment), NEW i \in DOMAIN list, NEW a \in Assignment, a.user = list[i].user
  PROVE  LET next == [list EXCEPT ![i] = a] IN
         /\ next \in Seq(Assignment) /\ DOMAIN next = DOMAIN list /\ next[i] = a
         /\ \A j \in DOMAIN list : j # i => next[j] = list[j]
         /\ \A v : v # a.user => SameFor(v, list, next)
<1> DEFINE next == [list EXCEPT ![i] = a]
<1>1. /\ DOMAIN next = DOMAIN list /\ next[i] = a
      /\ \A j \in DOMAIN list : j # i => next[j] = list[j]
  OBVIOUS
<1>2. next \in Seq(Assignment)
  OBVIOUS
<1>3. \A v : v # a.user => SameFor(v, list, next)
  BY <1>1 DEF SameFor
<1> QED BY <1>1, <1>2, <1>3

\* The trigger of an assignment sets the partner of the one in force.
LEMMA RefreshShows ==
  ASSUME PeriodInv, NEW u \in Users, NEW list \in Seq(Assignment), PeriodsAreApart(list)
  PROVE  \E p \in Profile : /\ Refresh(profile, list, u) = [profile EXCEPT ![u] = p]
                            /\ Shows(u, p, list)
                            /\ IsCurator(p) <=> IsCurator(profile[u])
                            /\ p.role = profile[u].role
<1>1. profile \in [Users -> Profile] /\ profile[u] \in Profile
  BY DEF PeriodInv
<1>2. today \in Int /\ today \in synced .. today
  BY CuratorsAssumption DEF PeriodInv, Day, CuratorsAssumption
<1>3. CASE IsCurator(profile[u])
  <2> DEFINE now == CurrentPartner(list, u, today)
             p == [profile[u] EXCEPT !.partner = now]
  <2>1. now \in Partners \cup {NoPartner}
    BY <1>2, CurrentIsPartner
  <2> HIDE DEF now
  <2>2. p \in Profile /\ p.partner = now /\ p.role = profile[u].role /\ p.entity = profile[u].entity
    BY <1>1, <2>1 DEF Profile
  <2>3. Refresh(profile, list, u) = [profile EXCEPT ![u] = p]
    BY <1>1, <1>3 DEF Refresh, now
  <2> HIDE DEF p
  <2>4. Shows(u, p, list)
    BY <1>2, <2>2 DEF Shows, now
  <2> QED BY <2>2, <2>3, <2>4 DEF IsCurator
<1>4. CASE ~IsCurator(profile[u])
  <2>1. Refresh(profile, list, u) = [profile EXCEPT ![u] = profile[u]]
    BY <1>1, <1>4 DEF Refresh
  <2> QED BY <1>1, <1>4, <2>1 DEF Shows
<1> QED BY <1>3, <1>4

\* Days are numbers.
LEMMA DaysAreNumbers ==
  ASSUME PeriodInv
  PROVE  /\ today \in Int /\ synced \in Int /\ synced <= today /\ today \in synced .. today /\ LastDay \in Int
         /\ Day \subseteq Int /\ Forever \in Int /\ Day \subseteq 0 .. Forever /\ today < Forever
BY CuratorsAssumption DEF PeriodInv, Day, CuratorsAssumption, Forever

LEMMA AssignKeeps ==
  ASSUME PeriodInv, NEW u \in Users, NEW p \in Partners, NEW from \in Day, NEW until \in Day \cup {Forever},
         Assign(u, p, from, until)
  PROVE  PeriodInv'
<1> DEFINE a == Period(u, p, from, until, IF IsCurator(profile[u]) THEN "assign" ELSE "beside")
           list == Append(assignments, a)
<1>1. /\ profile[u].role # "none" /\ PeriodsAreApart(list) /\ assignments' = list
      /\ profile' = Refresh(profile, list, u) /\ UNCHANGED <<today, synced, call>>
  BY DEF Assign
<1>2. /\ a \in Assignment /\ a.user = u /\ (~IsCurator(profile[u]) => a.why = "beside")
  <2>1. until \in 0 .. Forever
    BY DaysAreNumbers, CuratorsAssumption DEF CuratorsAssumption, Forever
  <2> QED BY <2>1 DEF Period, Assignment
<1> HIDE DEF a
<1>3. assignments \in Seq(Assignment)
  BY DEF PeriodInv
<1>4. /\ list \in Seq(Assignment)
      /\ \A i \in DOMAIN list : (i \in DOMAIN assignments /\ list[i] = assignments[i]) \/ list[i] = a
      /\ \A v : v # u => SameFor(v, assignments, list)
      /\ DOMAIN assignments \subseteq DOMAIN list
  BY <1>2, <1>3, AppendedRow
<1> HIDE DEF list
<1>5. PICK q \in Profile : /\ profile' = [profile EXCEPT ![u] = q] /\ Shows(u, q, list)
                           /\ IsCurator(q) <=> IsCurator(profile[u])
                           /\ q.role = profile[u].role
  BY <1>1, <1>4, RefreshShows
<1>6. HoldsBeside(u, q, list)
  BY <1>1, <1>2, <1>4, <1>5 DEF PeriodInv, HoldsBeside
<1>7. DOMAIN call' = Calls /\ \A c \in Calls : call'[c] = call[c]
  BY <1>1 DEF PeriodInv, CallsKnowTheirRows
<1> QED BY <1>1, <1>4, <1>5, <1>6, <1>7, OneUserChanges

\* A call that reads, or is refused.
LEMMA OnlyTheCall ==
  ASSUME PeriodInv, CallsKnowTheirRows', UNCHANGED <<profile, assignments, today, synced>>
  PROVE  PeriodInv'
<1>1. (\A u \in Users : Shows(u, profile[u], assignments) /\ HoldsBeside(u, profile[u], assignments))'
  BY DEF PeriodInv, Shows, HoldsBeside
<1>2. PeriodsAreApart(assignments)'
  BY DEF PeriodInv
<1> QED BY <1>1, <1>2 DEF PeriodInv

LEMMA ReadsKeep ==
  ASSUME PeriodInv, NEW c \in Calls, NEW i \in DOMAIN assignments,
         (\E until \in Day : EndRead(c, i, until)) \/ RevokeRead(c, i)
  PROVE  PeriodInv'
<1>1. PICK k : /\ call' = [call EXCEPT ![c] = k]
               /\ k.at \in {"ending", "revoking"} => k.id \in DOMAIN assignments /\ k.until \in 0 .. Forever
  <2>1. CASE RevokeRead(c, i)
    <3>1. 0 \in 0 .. Forever
      BY CuratorsAssumption DEF CuratorsAssumption, Forever
    <3> QED BY <2>1, <3>1 DEF RevokeRead, Over
  <2>2. ASSUME NEW until \in Day, EndRead(c, i, until)
        PROVE  \E k : /\ call' = [call EXCEPT ![c] = k]
                      /\ k.at \in {"ending", "revoking"} => k.id \in DOMAIN assignments /\ k.until \in 0 .. Forever
    <3> DEFINE k == IF ~assignments[i].revoked /\ assignments[i].from <= until /\ until < assignments[i].until
                    THEN [at |-> "ending", id |-> i, until |-> until] ELSE Over
    <3>1. call' = [call EXCEPT ![c] = k]
      BY <2>2 DEF EndRead
    <3>2. k.at \in {"ending", "revoking"} => k.id \in DOMAIN assignments /\ k.until \in 0 .. Forever
      BY DaysAreNumbers DEF Over
    <3> QED BY <3>1, <3>2
  <2> QED BY <2>1, <2>2
<1>2. UNCHANGED <<profile, assignments, today, synced>>
  BY DEF EndRead, RevokeRead
<1>3. CallsKnowTheirRows'
  BY <1>1, <1>2 DEF PeriodInv, CallsKnowTheirRows
<1> QED BY <1>2, <1>3, OnlyTheCall

LEMMA CallIsOver ==
  ASSUME PeriodInv, NEW c \in Calls, call' = [call EXCEPT ![c] = Over]
  PROVE  DOMAIN call' = Calls /\ \A k \in Calls : call'[k] = call[k] \/ call'[k].at = "over"
BY DEF PeriodInv, CallsKnowTheirRows, Over

LEMMA RefusedCall ==
  ASSUME PeriodInv, NEW c \in Calls, call' = [call EXCEPT ![c] = Over],
         UNCHANGED <<profile, assignments, today, synced>>
  PROVE  PeriodInv'
<1>1. CallsKnowTheirRows'
  BY CallIsOver DEF PeriodInv, CallsKnowTheirRows
<1> QED BY <1>1, OnlyTheCall

LEMMA EndWriteKeeps ==
  ASSUME PeriodInv, NEW c \in Calls, EndWrite(c)
  PROVE  PeriodInv'
<1> DEFINE i == call[c].id
           row == assignments[i]
           u == row.user
           shorter == [row EXCEPT !.until = call[c].until]
           a == IF IsCurator(profile[u]) THEN shorter ELSE [shorter EXCEPT !.why = "beside"]
           list == [assignments EXCEPT ![i] = a]
           cut == [assignments EXCEPT ![i].until = call[c].until]
           next == IF IsCurator(profile[u]) THEN cut ELSE HeldBeside(cut, {i})
<1>1. /\ call[c].at = "ending" /\ call' = [call EXCEPT ![c] = Over] /\ UNCHANGED <<today, synced>>
  BY DEF EndWrite
<1>2. /\ i \in DOMAIN assignments /\ call[c].until \in 0 .. Forever /\ assignments \in Seq(Assignment)
      /\ profile \in [Users -> Profile]
  BY <1>1 DEF PeriodInv, CallsKnowTheirRows
<1>3. row \in Assignment /\ u \in Users
  BY <1>2, RowOfAssignments
<1>4. /\ shorter \in Assignment /\ shorter.user = u /\ shorter.revoked = row.revoked
  BY <1>2, <1>3 DEF Assignment
<1>5. /\ a \in Assignment /\ a.user = u /\ a.revoked = row.revoked
      /\ ~IsCurator(profile[u]) => a.why = "beside"
  <2> HIDE DEF shorter
  <2> QED BY <1>4 DEF Assignment
<1>6. next = list
  <2>1. cut = [assignments EXCEPT ![i] = shorter]
    BY <1>2
  <2> HIDE DEF shorter, cut
  <2>2. DOMAIN cut = DOMAIN assignments /\ cut[i] = shorter /\ \A j \in DOMAIN assignments : j # i => cut[j] = assignments[j]
    BY <2>1, <1>2
  <2>3. HeldBeside(cut, {i}) = [assignments EXCEPT ![i] = [shorter EXCEPT !.why = "beside"]]
    BY <2>2, <1>2 DEF HeldBeside
  <2> QED BY <2>1, <2>3
<1>7. \/ UNCHANGED <<profile, assignments>>
      \/ ~row.revoked /\ PeriodsAreApart(list) /\ assignments' = list /\ profile' = Refresh(profile, list, u)
  BY <1>6 DEF EndWrite
<1> HIDE DEF next, cut, a, shorter
<1>8. /\ list \in Seq(Assignment) /\ DOMAIN list = DOMAIN assignments /\ list[i] = a
      /\ \A j \in DOMAIN assignments : j # i => list[j] = assignments[j]
      /\ \A v : v # u => SameFor(v, assignments, list)
  BY <1>2, <1>5, ReplacedRow
<1> HIDE DEF list
<1>9. CASE UNCHANGED <<profile, assignments>>
  BY <1>1, <1>9, RefusedCall
<1>10. CASE ~row.revoked /\ PeriodsAreApart(list) /\ assignments' = list /\ profile' = Refresh(profile, list, u)
  <2>1. PICK q \in Profile : /\ profile' = [profile EXCEPT ![u] = q] /\ Shows(u, q, list)
                             /\ IsCurator(q) <=> IsCurator(profile[u])
                             /\ q.role = profile[u].role
    BY <1>3, <1>8, <1>10, RefreshShows
  <2>2. profile[u].role # "none"
    BY <1>2, <1>3, <1>10 DEF PeriodInv, HoldsBeside
  <2>3. HoldsBeside(u, q, list)
    BY <1>3, <1>5, <1>8, <2>1, <2>2 DEF PeriodInv, HoldsBeside
  <2> QED BY <1>1, <1>3, <1>8, <1>10, <2>1, <2>3, CallIsOver, OneUserChanges
<1> QED BY <1>7, <1>9, <1>10

LEMMA RevokeWriteKeeps ==
  ASSUME PeriodInv, NEW c \in Calls, RevokeWrite(c)
  PROVE  PeriodInv'
<1> DEFINE i == call[c].id
           u == assignments[i].user
           list == Revoked(assignments, {i})
<1>1. /\ call[c].at = "revoking" /\ call' = [call EXCEPT ![c] = Over] /\ UNCHANGED <<today, synced>>
      /\ \/ UNCHANGED <<profile, assignments>>
         \/ assignments' = list /\ profile' = Refresh(profile, list, u)
  BY DEF RevokeWrite
<1>2. i \in DOMAIN assignments /\ assignments \in Seq(Assignment) /\ PeriodsAreApart(assignments)
  BY <1>1 DEF PeriodInv, CallsKnowTheirRows
<1>3. u \in Users
  BY <1>2, RowOfAssignments
<1>4. list \in Seq(Assignment) /\ DOMAIN list = DOMAIN assignments /\ PeriodsAreApart(list)
  BY <1>2, RevokedRows, RevokedStayApart
<1>5. \A v \in Users : v # u => SameFor(v, assignments, list)
  BY <1>2, RevokedForOthers
<1>6. CASE UNCHANGED <<profile, assignments>>
  BY <1>1, <1>6, RefusedCall
<1>7. CASE assignments' = list /\ profile' = Refresh(profile, list, u)
  <2>1. PICK q \in Profile : /\ profile' = [profile EXCEPT ![u] = q] /\ Shows(u, q, list)
                             /\ IsCurator(q) <=> IsCurator(profile[u])
                             /\ q.role = profile[u].role
    BY <1>3, <1>4, <1>7, RefreshShows
  <2>2. HoldsBeside(u, q, list)
    BY <1>2, <1>3, <2>1, RevokedRows DEF PeriodInv, HoldsBeside
  <2> HIDE DEF list
  <2> QED BY <1>1, <1>3, <1>4, <1>5, <1>7, <2>1, <2>2, CallIsOver, OneUserChanges
<1> QED BY <1>1, <1>6, <1>7


LEMMA SyncKeeps ==
  ASSUME PeriodInv, Sync
  PROVE  PeriodInv'
<1>1. synced' = today /\ today' = today /\ assignments' = assignments /\ call' = call
  BY DEF Sync
<1>2. profile' = [u \in Users |->
        IF IsCurator(profile[u]) THEN [profile[u] EXCEPT !.partner = CurrentPartner(assignments, u, today)]
        ELSE profile[u]]
  BY DEF Sync
<1>3. ASSUME NEW u \in Users
      PROVE  /\ profile'[u] \in Profile /\ profile'[u].role = profile[u].role
             /\ IsCurator(profile'[u]) <=> IsCurator(profile[u])
             /\ IsCurator(profile[u]) => profile'[u].partner = CurrentPartner(assignments, u, today)
  <2> DEFINE now == CurrentPartner(assignments, u, today)
  <2>1. profile[u] \in Profile
    BY DEF PeriodInv
  <2>2. now \in Partners \cup {NoPartner}
    BY CurrentIsPartner, DaysAreNumbers DEF PeriodInv
  <2> HIDE DEF now
  <2>3. profile'[u] = IF IsCurator(profile[u]) THEN [profile[u] EXCEPT !.partner = now] ELSE profile[u]
    BY <1>2 DEF now
  <2>4. /\ profile'[u] \in Profile /\ profile'[u].role = profile[u].role /\ profile'[u].entity = profile[u].entity
        /\ IsCurator(profile[u]) => profile'[u].partner = now
    BY <2>1, <2>2, <2>3 DEF Profile
  <2> QED BY <2>4 DEF IsCurator, now
<1>4. profile' \in [Users -> Profile]
  BY <1>2, <1>3
<1>5. today \in Day /\ today \in Int /\ today \in today .. today
  BY DaysAreNumbers DEF PeriodInv
<1>6. ASSUME NEW u \in Users
      PROVE  Shows(u, profile[u], assignments)'
  BY <1>1, <1>3, <1>5 DEF Shows, IsCurator
<1>7. ASSUME NEW u \in Users
      PROVE  HoldsBeside(u, profile[u], assignments)'
  BY <1>1, <1>3 DEF PeriodInv, HoldsBeside, IsCurator
<1>8. CallsKnowTheirRows' /\ PeriodsAreApart(assignments)' /\ (assignments \in Seq(Assignment))'
  BY <1>1 DEF PeriodInv, CallsKnowTheirRows
<1> QED BY <1>1, <1>4, <1>5, <1>6, <1>7, <1>8 DEF PeriodInv

LEMMA NextDayKeeps ==
  ASSUME PeriodInv, NextDay
  PROVE  PeriodInv'
<1>1. today < LastDay /\ today' = today + 1 /\ UNCHANGED <<profile, assignments, synced, call>>
  BY DEF NextDay
<1>2. today' \in Day /\ synced' <= today' /\ synced .. today \subseteq synced .. today'
  BY <1>1, CuratorsAssumption DEF PeriodInv, Day, CuratorsAssumption
<1>3. ASSUME NEW u \in Users
      PROVE  Shows(u, profile[u], assignments)'
  BY <1>1, <1>2 DEF PeriodInv, Shows
<1>4. ASSUME NEW u \in Users
      PROVE  HoldsBeside(u, profile[u], assignments)'
  <2>1. \A i \in DOMAIN assignments : assignments[i].until >= today + 1 => assignments[i].until >= today
    BY RowOfAssignments, DaysAreNumbers DEF PeriodInv
  <2>2. HoldsBeside(u, profile[u], assignments)
    BY DEF PeriodInv
  <2> QED BY <1>1, <2>1, <2>2 DEF HoldsBeside
<1>5. CallsKnowTheirRows' /\ PeriodsAreApart(assignments)'
  BY <1>1 DEF PeriodInv, CallsKnowTheirRows
<1> QED BY <1>1, <1>2, <1>3, <1>4, <1>5 DEF PeriodInv

LEMMA CuratorsKeep ==
  ASSUME PeriodInv, CuratorsNext
  PROVE  PeriodInv'
BY AssignKeeps, ReadsKeep, EndWriteKeeps, RevokeWriteKeeps, SyncKeeps, NextDayKeeps DEF CuratorsNext

-----------------------------------------------------------------------------
\* A new open period goes after all that are over.
LEMMA OpenPeriod ==
  ASSUME PeriodInv, NEW u \in Users, NEW p \in Partners, NEW why \in {"assign", "beside", "edit", "stale"},
         NEW list \in Seq(Assignment), PeriodsAreApart(list),
         \A i \in DOMAIN list : list[i].user = u /\ ~list[i].revoked => list[i].until < today
  PROVE  LET a == Period(u, p, today, Forever, why) IN
         /\ a \in Assignment /\ a.user = u /\ a.why = why
         /\ Append(list, a) \in Seq(Assignment) /\ PeriodsAreApart(Append(list, a))
         /\ CurrentPartner(Append(list, a), u, today) = p
<1> DEFINE a == Period(u, p, today, Forever, why)
           next == Append(list, a)
<1>1. /\ a \in Assignment /\ a.user = u /\ a.why = why /\ a.from = today /\ a.until = Forever /\ ~a.revoked
      /\ a.partner = p
  <2>1. Forever \in 0 .. Forever /\ today \in Day
    BY CuratorsAssumption DEF CuratorsAssumption, Forever, PeriodInv
  <2> QED BY <2>1 DEF Period, Assignment
<1> HIDE DEF a
<1>2. /\ next \in Seq(Assignment) /\ DOMAIN next = 1 .. Len(list) + 1 /\ Len(list) \in Nat
      /\ next[Len(list) + 1] = a
      /\ \A i \in DOMAIN next : (i \in DOMAIN list /\ next[i] = list[i]) \/ next[i] = a
      /\ \A i \in DOMAIN next : i \in DOMAIN list \/ i = Len(list) + 1
      /\ \A i \in DOMAIN list : next[i] = list[i]
  BY <1>1, AppendedRow
<1> HIDE DEF next
<1>3. ASSUME NEW i \in DOMAIN list
      PROVE  ~Overlap(list[i], a) /\ ~Overlap(a, list[i])
  <2>1. list[i].until \in Int /\ today \in Int
    BY RowOfAssignments, DaysAreNumbers
  <2>2. list[i].user = u /\ ~list[i].revoked => ~(today <= list[i].until)
    BY <2>1
  <2> QED BY <1>1, <2>2 DEF Overlap
<1>4. PeriodsAreApart(next)
  <2> SUFFICES ASSUME NEW i \in DOMAIN next, NEW j \in DOMAIN next, i # j
               PROVE  ~Overlap(next[i], next[j])
    BY DEF PeriodsAreApart
  <2>1. CASE i \in DOMAIN list /\ next[i] = list[i] /\ j \in DOMAIN list /\ next[j] = list[j]
    BY <2>1 DEF PeriodsAreApart
  <2> QED BY <2>1, <1>2, <1>3
<1>5. Len(list) + 1 \in DOMAIN next
  BY <1>2
<1>6. InForce(a, today)
  BY <1>1, DaysAreNumbers DEF InForce
<1>7. CurrentPartner(next, u, today) = p
  BY <1>1, <1>2, <1>4, <1>5, <1>6, DaysAreNumbers, OneInForce
<1> QED BY <1>1, <1>2, <1>4, <1>7 DEF next, a

\* What a direct write leaves of the assignments, if its triggers let it.
LEMMA FollowKeeps ==
  ASSUME PeriodInv, NEW u \in Users, NEW new \in Profile, NEW named
  PROVE  LET list == Follow(assignments, u, profile[u], new, named) IN
         /\ list \in Seq(Assignment) /\ PeriodsAreApart(list) /\ DOMAIN assignments \subseteq DOMAIN list
         /\ \A v \in Users : v # u => SameFor(v, assignments, list)
         /\ Shows(u, new, list)
<1> DEFINE list == Follow(assignments, u, profile[u], new, named)
           inForce == {i \in NotOver(assignments, u) : assignments[i].from <= today}
           why == IF named THEN "edit" ELSE "stale"
           past == Revoked(assignments, NotOver(assignments, u))
           IsKept(l) == /\ l \in Seq(Assignment) /\ PeriodsAreApart(l) /\ DOMAIN assignments \subseteq DOMAIN l
                      /\ \A v \in Users : v # u => SameFor(v, assignments, l)
<1>1. assignments \in Seq(Assignment) /\ PeriodsAreApart(assignments)
  BY DEF PeriodInv
<1>2. today \in Int /\ today \in synced .. today
  BY DaysAreNumbers
<1>3. IsKept(assignments)
  BY <1>1 DEF SameFor
<1>4. \A W : W \subseteq NotOver(assignments, u) => IsKept(Revoked(assignments, W))
  BY <1>1, RevokedRows, RevokedStayApart, RevokedForOthers DEF NotOver
<1>5. CASE ~IsCurator(new)
  BY <1>3, <1>5 DEF Follow, Shows
<1>6. CASE IsCurator(new) /\ new.partner = NoPartner /\ profile[u].partner = NoPartner
  <2>1. list = assignments
    BY <1>6 DEF Follow
  <2>2. Shows(u, profile[u], assignments) /\ HoldsBeside(u, profile[u], assignments)
    BY DEF PeriodInv
  <2>3. Shows(u, new, assignments)
    <3>1. CASE IsCurator(profile[u])
      BY <2>2, <3>1, <1>6 DEF Shows
    <3>2. CASE ~IsCurator(profile[u]) /\ \E i \in DOMAIN assignments : assignments[i].user = u /\ InForce(assignments[i], today)
      <4>1. PICK i \in DOMAIN assignments : assignments[i].user = u /\ InForce(assignments[i], today)
        BY <3>2
      <4>2. assignments[i].until \in Int
        BY <1>1, RowOfAssignments
      <4>3. ~assignments[i].revoked /\ assignments[i].until >= today
        BY <1>2, <4>1, <4>2 DEF InForce
      <4> QED BY <2>2, <3>2, <4>1, <4>3 DEF Shows, HoldsBeside
    <3>3. CASE \A i \in DOMAIN assignments : assignments[i].user = u => ~InForce(assignments[i], today)
      BY <3>3, <1>2, <1>6, NoneInForce DEF Shows
    <3> QED BY <3>1, <3>2, <3>3
  <2> QED BY <1>3, <2>1, <2>3
<1>7. CASE IsCurator(new) /\ new.partner = NoPartner /\ profile[u].partner # NoPartner
  <2>1. list = Revoked(assignments, inForce)
    BY <1>7 DEF Follow
  <2>2. \A i \in DOMAIN list : list[i].user = u => ~InForce(list[i], today)
    BY <1>1, <1>2, <2>1, RevokedRows, RowOfAssignments DEF InForce, NotOver
  <2>3. Shows(u, new, list)
    BY <1>2, <1>7, <2>2, NoneInForce DEF Shows
  <2> QED BY <1>4, <2>1, <2>3
<1>8. CASE IsCurator(new) /\ new.partner # NoPartner /\ CurrentPartner(assignments, u, today) = new.partner
  <2>1. list = assignments
    BY <1>8 DEF Follow
  <2>2. Shows(u, new, assignments)
    BY <1>2, <1>8 DEF Shows
  <2> QED BY <1>3, <2>1, <2>2
<1>9. CASE IsCurator(new) /\ new.partner # NoPartner /\ CurrentPartner(assignments, u, today) # new.partner
  <2> DEFINE a == Period(u, new.partner, today, Forever, why)
  <2>1. list = Append(past, a)
    BY <1>9 DEF Follow
  <2>2. new.partner \in Partners /\ why \in {"assign", "beside", "edit", "stale"}
    BY <1>9 DEF Profile
  <2>3. IsKept(past)
    BY <1>4
  <2>4. \A i \in DOMAIN past : past[i].user = u /\ ~past[i].revoked => past[i].until < today
    BY <1>1, <1>2, RevokedRows, RowOfAssignments DEF NotOver
  <2> HIDE DEF past, why
  <2>5. /\ a \in Assignment /\ a.user = u /\ list \in Seq(Assignment) /\ PeriodsAreApart(list)
        /\ CurrentPartner(list, u, today) = new.partner
    BY <2>1, <2>2, <2>3, <2>4, OpenPeriod
  <2> HIDE DEF a
  <2>6. DOMAIN past \subseteq DOMAIN list /\ \A v : v # u => SameFor(v, past, list)
    BY <2>1, <2>3, <2>5, AppendedRow
  <2>7. \A v \in Users : v # u => SameFor(v, assignments, list)
    BY <2>3, <2>6 DEF SameFor
  <2>8. Shows(u, new, list)
    BY <1>2, <2>5 DEF Shows
  <2> QED BY <2>3, <2>5, <2>6, <2>7, <2>8
<1> QED BY <1>5, <1>6, <1>7, <1>8, <1>9

LEMMA PeriodsUntouched ==
  ASSUME PeriodInv, UNCHANGED curatorVars
  PROVE  PeriodInv'
<1>1. CallsKnowTheirRows'
  BY DEF PeriodInv, CallsKnowTheirRows, curatorVars
<1> QED BY <1>1, OnlyTheCall DEF curatorVars

\* A request puts some fields of a user that exists over those of the row.
LEMMA AskedIsProfile ==
  ASSUME PeriodInv, NEW r \in Requests, job[r] \in Jobs
  PROVE  /\ job[r].user \in Users /\ Asked(r) \in Profile
         /\ profile[job[r].user].role # "none" => Asked(r).role # "none"
<1> DEFINE u == job[r].user
           old == profile[u]
           put == [f \in DOMAIN old |-> IF f \in DOMAIN job[r].set THEN job[r].set[f] ELSE old[f]]
           edu == put.entity = "edu_institution"
<1>1. PICK p \in Profile : p.role # "none" /\ \A f \in DOMAIN job[r].set : f \in DOMAIN p /\ job[r].set[f] = p[f]
  BY JobsAssumption
<1>2. u \in Users /\ old \in Profile
  BY JobsAssumption DEF PeriodInv
<1> HIDE DEF old
<1>3. DOMAIN old = {"role", "entity", "company", "partner", "active"}
  BY <1>2 DEF Profile
<1>4. \A f \in DOMAIN old : put[f] = old[f] \/ put[f] = p[f]
  BY <1>1
<1>5. put = [role |-> put.role, entity |-> put.entity, company |-> put.company, partner |-> put.partner,
             active |-> put.active]
  BY <1>3
<1>6. /\ put.role = old.role \/ put.role = p.role
      /\ put.entity = old.entity \/ put.entity = p.entity
      /\ put.company = old.company \/ put.company = p.company
      /\ put.partner = old.partner \/ put.partner = p.partner
      /\ put.active = old.active \/ put.active = p.active
  BY <1>3, <1>4
<1> HIDE DEF put
<1>7. put \in Profile
  BY <1>1, <1>2, <1>5, <1>6 DEF Profile
<1>8. Asked(r) = [put EXCEPT !.company = IF edu THEN NoCompany ELSE @,
                             !.partner = IF ~edu /\ put.role # "curator" THEN NoPartner ELSE @]
  BY DEF Asked, put, old
<1>9. Asked(r) \in Profile /\ Asked(r).role = put.role
  BY <1>7, <1>8 DEF Profile
<1> QED BY <1>1, <1>2, <1>6, <1>9 DEF old

LEMMA UpdateWriteKeepsPeriods ==
  ASSUME AdminInv, PeriodInv, NEW r \in Requests, UpdateWrite(r)
  PROVE  PeriodInv'
<1> DEFINE u == job[r].user
           wanted == Asked(r)
           written == Follow(assignments, u, profile[u], wanted, "partner" \in DOMAIN job[r].set)
           list == IF ~IsCurator(wanted) /\ profile[u].role = "curator" THEN Revoked(written, NotOver(written, u)) ELSE written
<1>1. /\ UNCHANGED <<today, synced, call>>
      /\ \/ profile' = [profile EXCEPT ![u] = wanted] /\ assignments' = list
         \/ UNCHANGED <<profile, assignments>>
  BY DEF UpdateWrite
<1>2. job[r] \in Jobs /\ profile[u].role # "none"
  BY DEF UpdateWrite, Goes, AdminInv, Shape, EditIsAllowed
<1>3. u \in Users /\ wanted \in Profile /\ wanted.role # "none"
  BY <1>2, AskedIsProfile
<1> HIDE DEF wanted
<1>4. /\ written \in Seq(Assignment) /\ PeriodsAreApart(written) /\ DOMAIN assignments \subseteq DOMAIN written
      /\ \A v \in Users : v # u => SameFor(v, assignments, written)
      /\ Shows(u, wanted, written)
  BY <1>3, FollowKeeps
<1>5. today \in Int
  BY DaysAreNumbers
<1>6. CASE ~IsCurator(wanted) /\ profile[u].role = "curator"
  <2>1. list = Revoked(written, NotOver(written, u))
    BY <1>6
  <2> HIDE DEF written
  <2>2. list \in Seq(Assignment) /\ PeriodsAreApart(list) /\ DOMAIN list = DOMAIN written
    BY <1>4, <2>1, RevokedRows, RevokedStayApart
  <2>3. \A v \in Users : v # u => SameFor(v, assignments, list)
    <3> SUFFICES ASSUME NEW v \in Users, v # u
                 PROVE  SameFor(v, assignments, list)
      OBVIOUS
    <3>1. SameFor(v, written, list)
      BY <1>4, <2>1, RevokedForOthers DEF NotOver
    <3> QED BY <1>4, <3>1 DEF SameFor
  <2>4. Shows(u, wanted, list)
    BY <1>6 DEF Shows
  <2>5. HoldsBeside(u, wanted, list)
    BY <1>3, <1>4, <2>1, <2>2, RevokedRows DEF HoldsBeside, NotOver
  <2> HIDE DEF list
  <2>6. CASE profile' = [profile EXCEPT ![u] = wanted] /\ assignments' = list
    BY <1>1, <1>3, <1>4, <2>2, <2>3, <2>4, <2>5, <2>6, OneUserChanges DEF PeriodInv, CallsKnowTheirRows
  <2> QED BY <1>1, <2>6, PeriodsUntouched DEF curatorVars
<1>7. CASE ~ (~IsCurator(wanted) /\ profile[u].role = "curator")
  <2>1. list = written
    BY <1>7
  <2>2. HoldsBeside(u, wanted, list)
    <3>1. CASE IsCurator(wanted)
      BY <1>3, <3>1 DEF HoldsBeside
    <3>2. CASE ~IsCurator(wanted)
      <4>1. list = assignments /\ ~IsCurator(profile[u])
        BY <1>7, <2>1, <3>2 DEF Follow, IsCurator
      <4> QED BY <1>3, <4>1 DEF PeriodInv, HoldsBeside
    <3> QED BY <3>1, <3>2
  <2> HIDE DEF list, written
  <2>3. CASE profile' = [profile EXCEPT ![u] = wanted] /\ assignments' = list
    BY <1>1, <1>3, <1>4, <2>1, <2>2, <2>3, OneUserChanges DEF PeriodInv, CallsKnowTheirRows
  <2> QED BY <1>1, <2>3, PeriodsUntouched DEF curatorVars
<1> QED BY <1>6, <1>7

LEMMA SetEntityTypeKeepsPeriods ==
  ASSUME AdminInv, PeriodInv, NEW r \in Requests, SetEntityType(r)
  PROVE  PeriodInv'
<1> DEFINE u == job[r].by
           new == [profile[u] EXCEPT !.entity = "organization", !.partner = NoPartner]
           list == Follow(assignments, u, profile[u], new, TRUE)
<1>1. /\ UNCHANGED <<today, synced, call>>
      /\ profile' = [profile EXCEPT ![u] = new] /\ assignments' = list
  BY DEF SetEntityType, WriteProfile
<1>2. u \in Users /\ profile[u] \in Profile
  BY RowIsUser DEF AdminInv, PeriodInv
<1>3. new \in Profile /\ new.role = profile[u].role /\ new.entity = "organization"
  BY <1>2 DEF Profile
<1> HIDE DEF new
<1>4. /\ list \in Seq(Assignment) /\ PeriodsAreApart(list) /\ DOMAIN assignments \subseteq DOMAIN list
      /\ \A v \in Users : v # u => SameFor(v, assignments, list)
      /\ Shows(u, new, list)
  BY <1>2, <1>3, FollowKeeps
<1>5. HoldsBeside(u, new, list)
  <2>1. CASE IsCurator(new)
    BY <2>1 DEF HoldsBeside, IsCurator
  <2>2. CASE ~IsCurator(new)
    <3>1. list = assignments /\ ~IsCurator(profile[u])
      BY <1>3, <2>2 DEF Follow, IsCurator
    <3> QED BY <1>2, <1>3, <3>1 DEF PeriodInv, HoldsBeside
  <2> QED BY <2>1, <2>2
<1> HIDE DEF list
<1> QED BY <1>1, <1>2, <1>3, <1>4, <1>5, OneUserChanges DEF PeriodInv, CallsKnowTheirRows

LEMMA CreateUserKeepsPeriods ==
  ASSUME AdminInv, PeriodInv, NEW r \in Requests, CreateUser(r)
  PROVE  PeriodInv'
<1> DEFINE u == job[r].user
           new == job[r].set
           why == IF IsCurator(new) THEN "assign" ELSE "beside"
           a == Period(u, new.partner, today, Forever, why)
           list == IF new.partner = NoPartner THEN assignments ELSE Append(assignments, a)
<1>1. /\ UNCHANGED <<today, synced, call>> /\ profile[u].role = "none" /\ job[r].kind = "create"
      /\ \/ profile' = [profile EXCEPT ![u] = new] /\ assignments' = list
         \/ UNCHANGED <<profile, assignments>>
  BY DEF CreateUser
<1>2. job[r] \in Jobs
  BY DEF AdminInv, Shape
<1>3. u \in Users /\ new \in Profile
  BY <1>1, <1>2, JobsAssumption
<1>4. new.role # "none"
  <2>1. PICK p \in Profile : p.role # "none" /\ \A f \in DOMAIN new : new[f] = p[f]
    BY <1>2, JobsAssumption
  <2> QED BY <1>3, <2>1 DEF Profile
<1>5. \A i \in DOMAIN assignments : assignments[i].user = u => assignments[i].revoked
  BY <1>1, <1>3 DEF PeriodInv, HoldsBeside
<1>6. assignments \in Seq(Assignment) /\ PeriodsAreApart(assignments) /\ today \in synced .. today
  BY DaysAreNumbers DEF PeriodInv
<1>7. /\ list \in Seq(Assignment) /\ PeriodsAreApart(list) /\ DOMAIN assignments \subseteq DOMAIN list
      /\ \A v \in Users : v # u => SameFor(v, assignments, list)
      /\ Shows(u, new, list) /\ HoldsBeside(u, new, list)
  <2>1. CASE new.partner = NoPartner
    <3>1. CurrentPartner(assignments, u, today) = NoPartner
      BY <1>5, NoneInForce DEF InForce
    <3>2. Shows(u, new, assignments)
      BY <1>6, <2>1, <3>1 DEF Shows
    <3> QED BY <1>4, <1>5, <1>6, <2>1, <3>2 DEF HoldsBeside, SameFor
  <2>2. CASE new.partner # NoPartner
    <3>1. new.partner \in Partners /\ why \in {"assign", "beside", "edit", "stale"}
      BY <1>3, <2>2 DEF Profile
    <3>2. ~IsCurator(new) => why = "beside"
      OBVIOUS
    <3> HIDE DEF why
    <3>3. /\ a \in Assignment /\ a.user = u /\ a.why = why
          /\ Append(assignments, a) \in Seq(Assignment) /\ PeriodsAreApart(Append(assignments, a))
          /\ CurrentPartner(Append(assignments, a), u, today) = new.partner
      BY <1>3, <1>5, <1>6, <3>1, OpenPeriod
    <3>4. list = Append(assignments, a)
      BY <2>2
    <3> HIDE DEF a, list
    <3>5. /\ DOMAIN assignments \subseteq DOMAIN list
          /\ \A i \in DOMAIN list : (i \in DOMAIN assignments /\ list[i] = assignments[i]) \/ list[i] = a
          /\ \A v : v # u => SameFor(v, assignments, list)
      BY <1>6, <3>3, <3>4, AppendedRow
    <3>6. Shows(u, new, list)
      BY <1>6, <3>3, <3>4 DEF Shows
    <3>7. HoldsBeside(u, new, list)
      BY <1>4, <1>5, <3>2, <3>3, <3>5 DEF HoldsBeside
    <3> QED BY <3>3, <3>4, <3>5, <3>6, <3>7
  <2> QED BY <2>1, <2>2
<1> HIDE DEF list
<1>8. CASE profile' = [profile EXCEPT ![u] = new] /\ assignments' = list
  BY <1>1, <1>3, <1>7, <1>8, OneUserChanges DEF PeriodInv, CallsKnowTheirRows
<1> QED BY <1>1, <1>8, PeriodsUntouched DEF curatorVars

LEMMA BootRestoreKeepsPeriods ==
  ASSUME PeriodInv, BootRestore
  PROVE  PeriodInv'
<1> DEFINE held == {i \in DOMAIN assignments : assignments[i].user = Root}
           After(i) == IF i \in held THEN [assignments[i] EXCEPT !.why = "beside"] ELSE assignments[i]
           list == HeldBeside(assignments, held)
           p == [profile[Root] EXCEPT !.role = "super_admin", !.entity = "organization", !.active = TRUE]
<1>1. Root \in Users /\ profile[Root] \in Profile /\ assignments \in Seq(Assignment) /\ PeriodsAreApart(assignments)
  BY AccountsAssumption DEF PeriodInv
<1>2. p \in Profile /\ p.role = "super_admin"
  BY <1>1 DEF Profile, Roles
<1>3. profile' = [profile EXCEPT ![Root] = p] /\ assignments' = list /\ UNCHANGED <<today, synced, call>>
  BY <1>1 DEF BootRestore, PeriodInv
<1> HIDE DEF p
<1>4. list = [i \in DOMAIN assignments |-> After(i)]
  BY DEF HeldBeside
<1>5. ASSUME NEW i \in DOMAIN assignments
      PROVE  /\ After(i) \in Assignment /\ After(i).user = assignments[i].user
             /\ After(i).revoked = assignments[i].revoked
             /\ After(i).from = assignments[i].from /\ After(i).until = assignments[i].until
             /\ assignments[i].user = Root => After(i).why = "beside"
             /\ assignments[i].user # Root => After(i) = assignments[i]
  <2>1. assignments[i] \in Assignment
    BY <1>1, RowOfAssignments
  <2> QED BY <2>1 DEF Assignment
<1> HIDE DEF After
<1>6. \A i \in DOMAIN assignments : list[i] = After(i)
  BY <1>4
<1>7. list = [i \in DOMAIN assignments |-> list[i]]
  BY <1>4
<1> HIDE DEF list
<1>8. list \in Seq(Assignment) /\ DOMAIN list = DOMAIN assignments
  BY <1>1, <1>5, <1>6, <1>7, MadeOfRows
<1>9. PeriodsAreApart(list)
  BY <1>1, <1>5, <1>6, <1>8 DEF PeriodsAreApart, Overlap
<1>10. \A v \in Users : v # Root => SameFor(v, assignments, list)
  BY <1>5, <1>6, <1>8 DEF SameFor
<1>11. Shows(Root, p, list) /\ HoldsBeside(Root, p, list)
  BY <1>2, <1>5, <1>6, <1>8 DEF Shows, HoldsBeside, IsCurator
<1> QED BY <1>1, <1>2, <1>3, <1>8, <1>9, <1>10, <1>11, OneUserChanges DEF PeriodInv, CallsKnowTheirRows

-----------------------------------------------------------------------------
LEMMA PeriodsInitially ==
  ASSUME Init
  PROVE  PeriodInv
<1>1. PICK s \in Starts : CuratorsInit(s.profile, s.assignments, s.today, s.call)
  BY DEF Init
<1>2. /\ s.profile \in [Users -> Profile] /\ s.assignments \in Seq(Assignment)
      /\ s.today \in Day /\ s.call \in [Calls -> CallState] /\ Settled(s)
  BY AccountsAssumption
<1>3. profile = s.profile /\ assignments = s.assignments /\ today = s.today /\ synced = s.today /\ call = s.call
  BY <1>1 DEF CuratorsInit
<1>4. today \in Int
  BY <1>2, <1>3, CuratorsAssumption DEF Day, CuratorsAssumption
<1>5. CallsKnowTheirRows
  BY <1>2, <1>3 DEF Settled, CallsKnowTheirRows
<1>6. ASSUME NEW u \in Users
      PROVE  Shows(u, profile[u], assignments) /\ HoldsBeside(u, profile[u], assignments)
  <2>1. Shows(u, profile[u], assignments)
    <3>1. today \in synced .. today
      BY <1>3, <1>4
    <3> QED BY <1>2, <1>3, <3>1 DEF Settled, Shows
  <2>2. HoldsBeside(u, profile[u], assignments)
    BY <1>2, <1>3 DEF Settled, HoldsBeside
  <2> QED BY <2>1, <2>2
<1> QED BY <1>2, <1>3, <1>4, <1>5, <1>6 DEF PeriodInv, Settled

LEMMA PeriodsStep ==
  ASSUME AdminInv, PeriodInv, [Next]_vars
  PROVE  PeriodInv'
<1>1. ASSUME NEW r \in Requests, Serve(r)
      PROVE  PeriodInv'
  <2>1. CASE UpdateWrite(r) \/ CreateUser(r) \/ SetEntityType(r)
    BY <2>1, UpdateWriteKeepsPeriods, CreateUserKeepsPeriods, SetEntityTypeKeepsPeriods
  <2>2. CASE Authorize(r) \/ Logout(r) \/ LoginRead(r) \/ LoginBegin(r) \/ LoginCheck(r) \/ LoginMint(r)
    BY <2>2, PeriodsUntouched DEF Authorize, Logout, LoginRead, LoginBegin, LoginCheck, LoginMint
  <2>3. CASE \/ PasswordLock(r) \/ PasswordWrite(r) \/ EnrollRead(r) \/ EnrollWrite(r) \/ ConfirmLock(r)
             \/ ConfirmWrite(r) \/ ResetMFA(r) \/ UpdateLock(r) \/ UpdateCheck(r)
    BY <2>3, PeriodsUntouched
       DEF PasswordLock, PasswordWrite, EnrollRead, EnrollWrite, ConfirmLock, ConfirmWrite, ResetMFA,
           UpdateLock, UpdateCheck
  <2> QED BY <1>1, <2>1, <2>2, <2>3 DEF Serve
<1>2. CASE Curating
  BY <1>2, CuratorsKeep DEF Curating
<1>3. CASE (\E s \in sessions : GoIdle(s)) \/ \E u \in Users : PendingExpires(u)
  BY <1>3, PeriodsUntouched DEF GoIdle, PendingExpires
<1>4. CASE BootUnchanged \/ BootClose \/ BootCrash
  BY <1>4, PeriodsUntouched DEF BootUnchanged, BootClose, BootCrash
<1>5. CASE UNCHANGED vars
  BY <1>5, PeriodsUntouched DEF vars
<1> QED BY <1>1, <1>2, <1>3, <1>4, <1>5, BootRestoreKeepsPeriods DEF Next

(* A curator works for one partner on any day, and the partner his profile  *)
(* shows is one he worked for since the last pass of the job, whether the   *)
(* assignment, the profile or the calendar moved first, and whatever calls  *)
(* overlap (curators.go, UpdateUser, the triggers of migration 0109).       *)
THEOREM PeriodsAndProfilesAgree == Spec => []AssignmentsHold
<1>1. Init => AdminInv /\ PeriodInv
  BY AdminInitially, PeriodsInitially
<1>2. AdminInv /\ PeriodInv /\ [Next]_vars => AdminInv' /\ PeriodInv'
  BY AdminStep, PeriodsStep
<1>3. PeriodInv => AssignmentsHold
  BY DEF PeriodInv, Shows, AssignmentsHold, ProfileFollowsAssignments, ProfileIsBehindByDays, Brought, OnePartnerADay
<1> QED BY <1>1, <1>2, <1>3, PTL DEF Spec

-----------------------------------------------------------------------------
\* The types of what Accounts adds to the curators.
AccountTyped ==
  /\ credential \in [Users -> Credential] /\ sessions \subseteq Session
  /\ hits \in [Buckets -> Nat] /\ request \in [Requests -> Request]
  /\ rowLock \in [Users -> Requests \cup {None}] /\ adminLock \in Requests \cup {None}
  /\ clock \in Nat /\ crashes \in 0 .. MaxCrashes /\ interrupted \in BOOLEAN

\* What a confirmation has locked is an offer, until it is written.
OffersStay ==
  \A r \in Requests : job[r].kind = "confirm" /\ request[r].at = "checked" =>
    credential[job[r].by].pending # NoSecret

AccountInv == AccountTyped /\ OffersStay

LEMMA FinishTyped ==
  ASSUME AccountTyped, NEW r \in Requests, Finish(r)
  PROVE  request' \in [Requests -> Request] /\ request'[r].code = request[r].code
<1>1. request[r].code \in Code \cup {NoCode}
  BY DEF AccountTyped, Request
<1>2. AnyHash \in Hash /\ "over" \in Phase
  BY DEF AnyHash, Hash, Passwords, Phase
<1>3. \A x \in Code \cup {NoCode} : [Fresh EXCEPT !.at = "over", !.code = x] \in Request
  BY <1>2 DEF Fresh, Request
<1>4. \A x : [Fresh EXCEPT !.at = "over", !.code = x].code = x
  BY DEF Fresh
<1> QED BY <1>1, <1>3, <1>4 DEF Finish, AccountTyped

\* A request goes on and keeps all but its phase.
LEMMA PhaseTyped ==
  ASSUME AccountTyped, NEW r \in Requests, NEW at \in Phase, request' = [request EXCEPT ![r].at = at]
  PROVE  request' \in [Requests -> Request] /\ request'[r].code = request[r].code
BY DEF AccountTyped, Request

\* The credential of one account is replaced.
LEMMA CredentialTyped ==
  ASSUME AccountTyped, NEW u \in Users, NEW n \in Credential, credential' = [credential EXCEPT ![u] = n]
  PROVE  /\ credential' \in [Users -> Credential] /\ credential'[u] = n
         /\ \A v \in Users : v # u => credential'[v] = credential[v]
BY DEF AccountTyped

LEMMA LocksTyped ==
  ASSUME AccountTyped, NEW u \in Users, NEW r \in Requests \cup {None}, rowLock' = [rowLock EXCEPT ![u] = r]
  PROVE  rowLock' \in [Users -> Requests \cup {None}]
BY DEF AccountTyped

LEMMA FewerTyped ==
  ASSUME AccountTyped
  PROVE  /\ \A u : WithoutSessions(u) \subseteq Session
         /\ \A s : sessions \ {s} \subseteq Session
         /\ \A u \in Users, kind \in Limited : Attempt(u, kind) \in [Buckets -> Nat]
<1>1. \A u \in Users, kind \in Limited : Attempt(u, kind) \in [Buckets -> Nat]
  BY DEF AccountTyped, Attempt, Buckets
<1> QED BY <1>1 DEF AccountTyped, WithoutSessions

\* The second factor leaves everything but the codes and the counter alone.
LEMMA FactorTyped ==
  ASSUME NEW c \in Credential, NEW code \in Code \cup {NoCode}, c.codes \subseteq Code,
         NEW n \in SecondFactor(c, code), c.secret # NoSecret
  PROVE  /\ n \in Credential /\ n.secret = c.secret /\ n.pending = c.pending /\ n.hash = c.hash
         /\ n.pendingFor = c.pendingFor
         /\ code \in Code /\ code[1] \in Secrets /\ code[2] \in {"totp", "recovery"} /\ code[3] \in 0 .. Steps
         /\ \/ code \in c.codes /\ n.codes = c.codes \ {code} /\ n.counter = c.counter
            \/ /\ code \notin c.codes /\ code[1] = c.secret /\ code[2] = "totp" /\ c.counter < code[3]
               /\ n.codes = c.codes /\ n.counter = code[3]
<1>1. CASE code \in c.codes
  <2>1. n = [c EXCEPT !.codes = @ \ {code}]
    BY <1>1 DEF SecondFactor
  <2>2. code \in Code
    BY <1>1
  <2>3. code[1] \in Secrets /\ code[2] \in {"totp", "recovery"} /\ code[3] \in 0 .. Steps
    BY <2>2 DEF Code
  <2>4. /\ n.secret = c.secret /\ n.pending = c.pending /\ n.hash = c.hash /\ n.pendingFor = c.pendingFor
        /\ n.codes = c.codes \ {code} /\ n.counter = c.counter
    BY <2>1 DEF Credential
  <2>5. n \in Credential
    BY <2>1 DEF Credential
  <2> QED BY <1>1, <2>2, <2>3, <2>4, <2>5
<1>2. CASE code \notin c.codes
  <2>1. code[1] = c.secret /\ code[2] = "totp" /\ c.counter < code[3] /\ n = [c EXCEPT !.counter = code[3]]
    BY <1>2 DEF SecondFactor
  <2>2. code \in Code
    BY <2>1 DEF NoCode
  <2>3. code[1] \in Secrets /\ code[2] \in {"totp", "recovery"} /\ code[3] \in 0 .. Steps
    BY <2>2 DEF Code
  <2>4. /\ n.secret = c.secret /\ n.pending = c.pending /\ n.hash = c.hash /\ n.pendingFor = c.pendingFor
        /\ n.codes = c.codes /\ n.counter = code[3]
    BY <2>1 DEF Credential
  <2>5. code[3] \in -1 .. Steps
    BY <2>3, AccountsAssumption
  <2>6. n \in Credential
    BY <2>1, <2>5 DEF Credential
  <2> QED BY <1>2, <2>1, <2>2, <2>3, <2>4, <2>6
<1> QED BY <1>1, <1>2

\* Logins.
LEMMA LoginTyped ==
  ASSUME Shape, AccountTyped, NEW r \in Requests,
         LoginRead(r) \/ LoginBegin(r) \/ LoginCheck(r) \/ LoginMint(r)
  PROVE  AccountTyped'
<1> DEFINE u == job[r].user
           c == credential[u]
<1>1. u \in Users /\ c \in Credential /\ job' = job /\ crashes' = crashes /\ interrupted' = interrupted
      /\ adminLock' = adminLock
  BY RowIsUser DEF AccountTyped, LoginRead, LoginBegin, LoginCheck, LoginMint
<1>2. CASE LoginRead(r)
  <2>1. request'[r] \in Request /\ request' \in [Requests -> Request]
    <3>1. "over" \in Phase /\ "read" \in Phase /\ AnyHash \in Hash /\ NoCode \in Code \cup {NoCode}
      BY DEF Phase, AnyHash, Hash, Passwords
    <3>2. c.hash \in Hash /\ c.secret \in Secrets \cup {NoSecret}
      BY <1>1 DEF Credential
    <3>3. /\ [Fresh EXCEPT !.at = "over"] \in Request
          /\ [Fresh EXCEPT !.at = "read", !.hash = c.hash, !.secret = c.secret] \in Request
      BY <3>1, <3>2 DEF Fresh, Request
    <3> QED BY <1>2, <3>3 DEF LoginRead, AccountTyped
  <2>2. hits' \in [Buckets -> Nat]
    BY <1>1, <1>2, FewerTyped DEF LoginRead, Limited
  <2> QED BY <1>1, <1>2, <2>1, <2>2 DEF LoginRead, AccountTyped
<1>3. CASE LoginBegin(r)
  <2>1. request' \in [Requests -> Request]
    <3> DEFINE n == [request[r] EXCEPT !.at = "begun", !.made = clock + 1]
    <3>1. n \in Request
      <4>1. request[r] \in Request /\ clock + 1 \in Nat /\ "begun" \in Phase
        BY DEF AccountTyped, Phase
      <4> DEFINE k == clock + 1
      <4> HIDE DEF k
      <4>2. [request[r] EXCEPT !.at = "begun", !.made = k] \in Request
        BY <4>1 DEF Request, k
      <4> QED BY <4>2 DEF k
    <3>2. request' = [request EXCEPT ![r] = n]
      BY <1>3 DEF LoginBegin, AccountTyped
    <3> HIDE DEF n
    <3> QED BY <3>1, <3>2 DEF AccountTyped
  <2> QED BY <1>1, <1>3, <2>1 DEF LoginBegin, AccountTyped
<1>4. CASE LoginCheck(r)
  <2>1. request' \in [Requests -> Request]
    BY <1>4, FinishTyped, PhaseTyped DEF LoginCheck, Phase
  <2>2. rowLock' \in [Users -> Requests \cup {None}]
    BY <1>1, <1>4, LocksTyped DEF LoginCheck, AccountTyped
  <2> QED BY <1>1, <1>4, <2>1, <2>2 DEF LoginCheck, AccountTyped
<1>5. CASE LoginMint(r)
  <2>1. rowLock' \in [Users -> Requests \cup {None}]
    BY <1>1, <1>5, LocksTyped DEF LoginMint, Release
  <2>2. CASE Finish(r) /\ UNCHANGED <<credential, sessions>>
    BY <1>1, <1>5, <2>1, <2>2, FinishTyped DEF LoginMint, AccountTyped
  <2>3. CASE ~ (Finish(r) /\ UNCHANGED <<credential, sessions>>)
    <3>0. PICK code \in Code \cup {NoCode} :
            \E n \in (IF c.secret = NoSecret THEN {c} ELSE SecondFactor(c, code)) :
            /\ credential' = [credential EXCEPT ![u] = [n EXCEPT !.hash.cheap = FALSE]]
            /\ LET s == [user |-> u, made |-> request[r].made, idle |-> FALSE,
                         password |-> c.hash.password, secret |-> c.secret] IN
               sessions' = (sessions \ Outlived(u, s)) \cup {s}
            /\ request' = [request EXCEPT ![r] = [Fresh EXCEPT !.at = "over",
                             !.code = IF c.secret = NoSecret THEN NoCode ELSE code]]
      BY <1>5, <2>3 DEF LoginMint
    <3>1. PICK n \in (IF c.secret = NoSecret THEN {c} ELSE SecondFactor(c, code)) :
            /\ credential' = [credential EXCEPT ![u] = [n EXCEPT !.hash.cheap = FALSE]]
            /\ LET s == [user |-> u, made |-> request[r].made, idle |-> FALSE,
                         password |-> c.hash.password, secret |-> c.secret] IN
               sessions' = (sessions \ Outlived(u, s)) \cup {s}
            /\ request' = [request EXCEPT ![r] = [Fresh EXCEPT !.at = "over",
                             !.code = IF c.secret = NoSecret THEN NoCode ELSE code]]
      BY <3>0
    <3>2. n \in Credential
      <4>1. c.codes \subseteq Code
        BY <1>1 DEF Credential
      <4> QED BY <1>1, <3>1, <4>1, FactorTyped
    <3>3. [n EXCEPT !.hash.cheap = FALSE] \in Credential
      BY <3>2 DEF Credential, Hash
    <3>4. request[r].made \in Nat /\ c.hash.password \in Passwords /\ c.secret \in Secrets \cup {NoSecret}
      BY <1>1 DEF AccountTyped, Request, Credential, Hash
    <3>5. sessions' \subseteq Session
      <4> DEFINE s == [user |-> u, made |-> request[r].made, idle |-> FALSE,
                       password |-> c.hash.password, secret |-> c.secret]
      <4>1. s \in Session
        BY <1>1, <3>4 DEF Session
      <4>2. sessions' \subseteq sessions \cup {s}
        BY <3>1
      <4> HIDE DEF s
      <4> QED BY <4>1, <4>2 DEF AccountTyped
    <3>6. request' \in [Requests -> Request]
      <4> DEFINE used == IF c.secret = NoSecret THEN NoCode ELSE code
      <4>1. used \in Code \cup {NoCode} /\ AnyHash \in Hash /\ "over" \in Phase
        BY DEF Phase, AnyHash, Hash, Passwords
      <4> HIDE DEF used
      <4>2. [Fresh EXCEPT !.at = "over", !.code = used] \in Request
        BY <4>1 DEF Fresh, Request
      <4> QED BY <3>1, <4>2 DEF AccountTyped, used
    <3>7. credential' \in [Users -> Credential]
      BY <1>1, <3>1, <3>3, CredentialTyped
    <3> QED BY <1>1, <1>5, <2>1, <3>5, <3>6, <3>7 DEF LoginMint, AccountTyped
  <2> QED BY <2>2, <2>3
<1> QED BY <1>2, <1>3, <1>4, <1>5

\* Requests of those who are signed in.
LEMMA SignedInTyped ==
  ASSUME Shape, AccountTyped, NEW r \in Requests,
         Authorize(r) \/ Logout(r) \/ PasswordLock(r) \/ EnrollRead(r) \/ ConfirmLock(r) \/ ResetMFA(r)
  PROVE  AccountTyped'
<1>1. job[r].by \in Users /\ job[r].user \in Users /\ UNCHANGED <<adminLock, clock, crashes, interrupted>>
  BY RowIsUser DEF Authorize, Logout, PasswordLock, EnrollRead, ConfirmLock, ResetMFA
<1>2. CASE Authorize(r)
  <2>1. request' \in [Requests -> Request]
    BY <1>2, PhaseTyped DEF Authorize, Phase
  <2>2. hits' \in [Buckets -> Nat]
    BY <1>1, <1>2, FewerTyped DEF Authorize, AccountTyped
  <2>3. sessions' \subseteq Session
    BY <1>2 DEF Authorize, AccountTyped
  <2> QED BY <1>1, <1>2, <2>1, <2>2, <2>3 DEF Authorize, AccountTyped
<1>3. CASE Logout(r)
  <2>1. sessions' \subseteq Session
    BY <1>3 DEF Logout, AccountTyped
  <2> QED BY <1>1, <1>3, <2>1, FinishTyped DEF Logout, AccountTyped
<1>4. CASE PasswordLock(r) \/ ConfirmLock(r)
  <2>1. request' \in [Requests -> Request]
    BY <1>4, FinishTyped, PhaseTyped DEF PasswordLock, ConfirmLock, Phase
  <2>2. rowLock' \in [Users -> Requests \cup {None}]
    BY <1>1, <1>4, LocksTyped DEF PasswordLock, ConfirmLock, AccountTyped
  <2> QED BY <1>1, <1>4, <2>1, <2>2 DEF PasswordLock, ConfirmLock, AccountTyped
<1>5. CASE EnrollRead(r)
  <2>1. request' \in [Requests -> Request]
    <3>1. CASE Finish(r)
      BY <3>1, FinishTyped
    <3>2. CASE request' = [request EXCEPT ![r].at = "read", ![r].hash = credential[job[r].by].hash]
      <4>1. credential[job[r].by].hash \in Hash
        BY <1>1 DEF AccountTyped, Credential
      <4> QED BY <3>2, <4>1 DEF AccountTyped, Request, Phase
    <3> QED BY <1>5, <3>1, <3>2 DEF EnrollRead
  <2> QED BY <1>1, <1>5, <2>1 DEF EnrollRead, AccountTyped
<1>6. CASE ResetMFA(r)
  <2> DEFINE u == job[r].user
             n == WithoutSecondFactor(credential[u])
  <2>1. n \in Credential
    <3>1. credential[u] \in Credential /\ -1 \in -1 .. Steps
      BY <1>1, AccountsAssumption DEF AccountTyped
    <3> QED BY <3>1 DEF WithoutSecondFactor, Credential
  <2>2. credential' = [credential EXCEPT ![u] = n]
    BY <1>6 DEF ResetMFA, AccountTyped
  <2> HIDE DEF n
  <2>3. credential' \in [Users -> Credential]
    BY <1>1, <2>1, <2>2, CredentialTyped
  <2> QED BY <1>1, <1>6, <2>3, FinishTyped, FewerTyped DEF ResetMFA, AccountTyped
<1> QED BY <1>2, <1>3, <1>4, <1>5, <1>6

\* Changes of the password and of the second factor.
LEMMA ChangesTyped ==
  ASSUME Shape, AccountInv, NEW r \in Requests, PasswordWrite(r) \/ EnrollWrite(r) \/ ConfirmWrite(r)
  PROVE  AccountTyped'
<1> USE DEF AccountInv
<1> DEFINE u == job[r].by
           c == credential[u]
<1>1. u \in Users /\ c \in Credential /\ UNCHANGED <<adminLock, clock, crashes, interrupted, hits>>
  BY RowIsUser DEF AccountTyped, PasswordWrite, EnrollWrite, ConfirmWrite
<1>2. request' \in [Requests -> Request]
  BY FinishTyped DEF PasswordWrite, EnrollWrite, ConfirmWrite
<1>3. CASE PasswordWrite(r)
  <2> DEFINE n == [c EXCEPT !.hash = [password |-> "new", cheap |-> FALSE], !.pending = NoSecret]
  <2>1. n \in Credential
    BY <1>1 DEF Credential, Hash, Passwords
  <2>2. credential' = [credential EXCEPT ![u] = n]
    <3>1. credential' = [credential EXCEPT ![u].hash = [password |-> "new", cheap |-> FALSE],
                                           ![u].pending = NoSecret]
      BY <1>3 DEF PasswordWrite
    <3> QED BY <1>1, <3>1, Zenon DEF AccountTyped
  <2> HIDE DEF n
  <2>3. credential' \in [Users -> Credential]
    BY <1>1, <2>1, <2>2, CredentialTyped
  <2>4. rowLock' \in [Users -> Requests \cup {None}] /\ sessions' \subseteq Session
    BY <1>1, <1>3, LocksTyped, FewerTyped DEF PasswordWrite, Release
  <2> QED BY <1>1, <1>2, <2>3, <2>4 DEF AccountTyped
<1>4. CASE EnrollWrite(r)
  <2> DEFINE n == [c EXCEPT !.pending = r, !.pendingFor = request[r].hash.password]
  <2>1. n \in Credential
    <3>1. request[r].hash.password \in Passwords
      BY DEF AccountTyped, Request, Hash
    <3> QED BY <1>1, <3>1 DEF Credential, Secrets
  <2>2. credential' = credential \/ credential' = [credential EXCEPT ![u] = n]
    BY <1>4 DEF EnrollWrite, AccountTyped
  <2> HIDE DEF n
  <2>3. credential' \in [Users -> Credential]
    BY <1>1, <2>1, <2>2, CredentialTyped DEF AccountTyped
  <2> QED BY <1>1, <1>2, <1>4, <2>3 DEF EnrollWrite, AccountTyped
<1>5. CASE ConfirmWrite(r)
  <2>1. c.pending \in Secrets
    BY <1>1, <1>5 DEF ConfirmWrite, Goes, OffersStay, Credential
  <2> DEFINE added == {<<c.pending, "recovery", 0>>}
  <2>2. PICK k \in 1 .. Steps :
          credential' = [credential EXCEPT ![u] = [c EXCEPT !.secret = c.pending, !.pending = NoSecret,
                           !.counter = k, !.codes = @ \cup added]]
    BY <1>5 DEF ConfirmWrite
  <2> DEFINE n == [c EXCEPT !.secret = c.pending, !.pending = NoSecret, !.counter = k, !.codes = @ \cup added]
  <2>7. added \subseteq Code
    BY <2>1, AccountsAssumption DEF Code
  <2> HIDE DEF added
  <2>3. n \in Credential
    <3>1. k \in -1 .. Steps
      BY AccountsAssumption
    <3>3. c.codes \cup added \subseteq Code
      BY <1>1, <2>7 DEF Credential
    <3> QED BY <1>1, <2>1, <3>1, <3>3 DEF Credential
  <2>4. credential' = [credential EXCEPT ![u] = n]
    BY <2>2
  <2> HIDE DEF n
  <2>5. credential' \in [Users -> Credential]
    BY <1>1, <2>3, <2>4, CredentialTyped
  <2>6. rowLock' \in [Users -> Requests \cup {None}] /\ sessions' \subseteq Session
    BY <1>1, <1>5, LocksTyped, FewerTyped DEF ConfirmWrite, Release
  <2> QED BY <1>1, <1>2, <2>5, <2>6 DEF AccountTyped
<1> QED BY <1>3, <1>4, <1>5

\* The administration of users.
LEMMA AdministrationTyped ==
  ASSUME Shape, AccountTyped, NEW r \in Requests,
         UpdateLock(r) \/ UpdateCheck(r) \/ UpdateWrite(r) \/ CreateUser(r) \/ SetEntityType(r)
  PROVE  AccountTyped'
<1>1. job[r].user \in Users /\ UNCHANGED <<credential, hits, clock, crashes, interrupted>>
  BY RowIsUser DEF UpdateLock, UpdateCheck, UpdateWrite, CreateUser, SetEntityType
<1>2. request' \in [Requests -> Request]
  BY FinishTyped, PhaseTyped DEF UpdateLock, UpdateCheck, UpdateWrite, CreateUser, SetEntityType, Phase
<1>3. rowLock' \in [Users -> Requests \cup {None}]
  BY <1>1, LocksTyped DEF UpdateLock, UpdateCheck, UpdateWrite, CreateUser, SetEntityType, Release, AccountTyped
<1>4. adminLock' \in Requests \cup {None}
  BY DEF UpdateLock, UpdateCheck, UpdateWrite, CreateUser, SetEntityType, AccountTyped
<1>5. sessions' \subseteq Session
  BY FewerTyped DEF UpdateLock, UpdateCheck, UpdateWrite, CreateUser, SetEntityType, AccountTyped
<1> QED BY <1>1, <1>2, <1>3, <1>4, <1>5 DEF AccountTyped

\* What happens without a request.
LEMMA OutsideTyped ==
  ASSUME Shape, AccountTyped,
         \/ Curating \/ (\E s \in sessions : GoIdle(s)) \/ (\E u \in Users : PendingExpires(u))
         \/ BootUnchanged \/ BootRestore \/ BootClose \/ BootCrash \/ UNCHANGED vars
  PROVE  AccountTyped'
<1>1. UNCHANGED <<hits, request, rowLock, adminLock, clock>>
  BY DEF Curating, GoIdle, PendingExpires, BootUnchanged, BootRestore, BootClose, BootCrash, vars, accountVars
<1>2. crashes' \in 0 .. MaxCrashes /\ interrupted' \in BOOLEAN
  <2>1. CASE BootCrash
    BY <2>1, AccountsAssumption DEF BootCrash, AccountTyped
  <2> QED BY <2>1 DEF Curating, GoIdle, PendingExpires, BootUnchanged, BootRestore, BootClose, vars, accountVars, AccountTyped
<1>3. sessions' \subseteq Session
  <2>1. ASSUME NEW s \in sessions, GoIdle(s) PROVE sessions' \subseteq Session
    <3>1. [s EXCEPT !.idle = TRUE] \in Session
      BY DEF AccountTyped, Session
    <3> QED BY <2>1, <3>1 DEF GoIdle, AccountTyped
  <2> QED BY <2>1, FewerTyped DEF Curating, PendingExpires, BootUnchanged, BootRestore, BootClose, BootCrash,
                                  vars, accountVars, AccountTyped
<1>4. credential' \in [Users -> Credential]
  <2>1. ASSUME NEW u \in Users, PendingExpires(u) PROVE credential' \in [Users -> Credential]
    BY <2>1 DEF PendingExpires, AccountTyped, Credential
  <2>2. ASSUME BootRestore PROVE credential' \in [Users -> Credential]
    <3> DEFINE n == [credential[Root] EXCEPT !.hash = [password |-> "boot", cheap |-> FALSE]]
    <3>1. Root \in Users /\ credential[Root] \in Credential
      BY AccountsAssumption DEF AccountTyped
    <3>2. n \in Credential
      BY <3>1 DEF Credential, Hash, Passwords
    <3>3. credential' = [credential EXCEPT ![Root] = n]
      BY <2>2, <3>1 DEF BootRestore, AccountTyped
    <3> HIDE DEF n
    <3> QED BY <3>1, <3>2, <3>3, CredentialTyped
  <2> QED BY <2>1, <2>2 DEF Curating, GoIdle, BootUnchanged, BootClose, BootCrash, vars, accountVars, AccountTyped
<1> QED BY <1>1, <1>2, <1>3, <1>4 DEF AccountTyped

\* A step of a request moves that request alone, and never one that is over.
LocksARow(r) == LoginCheck(r) \/ PasswordLock(r) \/ ConfirmLock(r) \/ UpdateCheck(r)

LEMMA RequestMoves ==
  ASSUME Shape, AccountTyped, NEW r \in Requests, Serve(r)
  PROVE  /\ job' = job /\ boot' = boot /\ boot = "up" /\ request[r].at # "over"
         /\ \A q \in Requests : q # r => request'[q] = request[q]
         /\ request'[r].at = "checked" => LocksARow(r) /\ request[r].at # "checked"
         /\ ~LoginMint(r) => request'[r].code = request[r].code \/ request'[r].code = NoCode
<1>1. Finish(r) => /\ \A q \in Requests : q # r => request'[q] = request[q]
                   /\ request'[r].at = "over" /\ request'[r].code = request[r].code
  BY FinishTyped, FinishIs
<1>2. ASSUME NEW at, request' = [request EXCEPT ![r].at = at]
      PROVE  /\ \A q \in Requests : q # r => request'[q] = request[q]
             /\ request'[r].at = at /\ request'[r].code = request[r].code
  BY <1>2 DEF AccountTyped, Request
<1>3. ASSUME NEW n, request' = [request EXCEPT ![r] = n]
      PROVE  /\ \A q \in Requests : q # r => request'[q] = request[q]
             /\ request'[r] = n
  BY <1>3 DEF AccountTyped
<1>4. CASE Authorize(r)
  BY <1>2, <1>4 DEF Authorize, Goes
<1>5. CASE Logout(r) \/ PasswordWrite(r) \/ EnrollWrite(r) \/ ConfirmWrite(r) \/ ResetMFA(r)
  BY <1>1, <1>5 DEF Logout, PasswordWrite, EnrollWrite, ConfirmWrite, ResetMFA, Goes
<1>6. CASE LoginRead(r)
  <2>1. /\ \A h, s : /\ [Fresh EXCEPT !.at = "read", !.hash = h, !.secret = s].at = "read"
                     /\ [Fresh EXCEPT !.at = "read", !.hash = h, !.secret = s].code = NoCode
        /\ [Fresh EXCEPT !.at = "over"].at = "over" /\ [Fresh EXCEPT !.at = "over"].code = NoCode
    BY DEF Fresh
  <2>2. \/ \E h, s : request' = [request EXCEPT ![r] = [Fresh EXCEPT !.at = "read", !.hash = h, !.secret = s]]
        \/ request' = [request EXCEPT ![r] = [Fresh EXCEPT !.at = "over"]]
    BY <1>6 DEF LoginRead
  <2>3. /\ \A q \in Requests : q # r => request'[q] = request[q]
        /\ request'[r].at \in {"read", "over"} /\ request'[r].code = NoCode
    <3>1. CASE request' = [request EXCEPT ![r] = [Fresh EXCEPT !.at = "over"]]
      BY <1>3, <2>1, <3>1
    <3>2. ASSUME NEW h, NEW s,
                 request' = [request EXCEPT ![r] = [Fresh EXCEPT !.at = "read", !.hash = h, !.secret = s]]
          PROVE  /\ \A q \in Requests : q # r => request'[q] = request[q]
                 /\ request'[r].at \in {"read", "over"} /\ request'[r].code = NoCode
      <4>1. request'[r] = [Fresh EXCEPT !.at = "read", !.hash = h, !.secret = s]
        BY <1>3, <3>2
      <4>2. request'[r].at = "read" /\ request'[r].code = NoCode
        BY <2>1, <4>1
      <4> QED BY <1>3, <3>2, <4>2
    <3> QED BY <2>2, <3>1, <3>2
  <2>4. job' = job /\ boot' = boot /\ boot = "up" /\ request[r].at = "idle"
    BY <1>6 DEF LoginRead, Goes
  <2> QED BY <2>3, <2>4
<1>7. CASE LoginBegin(r)
  <2>1. request' = [request EXCEPT ![r].at = "begun", ![r].made = clock + 1]
    BY <1>7 DEF LoginBegin
  <2>2. /\ \A q \in Requests : q # r => request'[q] = request[q]
        /\ request'[r].at = "begun" /\ request'[r].code = request[r].code
    BY <2>1 DEF AccountTyped, Request
  <2> QED BY <1>7, <2>2 DEF LoginBegin, Goes
<1>8. CASE LoginMint(r)
  <2>1. Finish(r) \/ \E code : request' = [request EXCEPT ![r] = [Fresh EXCEPT !.at = "over", !.code = code]]
    BY <1>8 DEF LoginMint
  <2>2. \A code : [Fresh EXCEPT !.at = "over", !.code = code].at = "over"
    BY DEF Fresh
  <2>3. /\ \A q \in Requests : q # r => request'[q] = request[q]
        /\ request'[r].at = "over"
    <3>1. ASSUME NEW code, request' = [request EXCEPT ![r] = [Fresh EXCEPT !.at = "over", !.code = code]]
          PROVE  /\ \A q \in Requests : q # r => request'[q] = request[q]
                 /\ request'[r].at = "over"
      <4>1. request'[r] = [Fresh EXCEPT !.at = "over", !.code = code]
        BY <1>3, <3>1
      <4> QED BY <1>3, <2>2, <3>1, <4>1
    <3> QED BY <1>1, <2>1, <3>1
  <2>4. job' = job /\ boot' = boot /\ boot = "up" /\ request[r].at = "checked"
    BY <1>8 DEF LoginMint, Goes
  <2> QED BY <1>8, <2>3, <2>4
<1>9. CASE EnrollRead(r)
  <2>1. CASE request' = [request EXCEPT ![r].at = "read", ![r].hash = credential[job[r].by].hash]
    <3>1. /\ \A q \in Requests : q # r => request'[q] = request[q]
          /\ request'[r].at = "read" /\ request'[r].code = request[r].code
      BY <2>1 DEF AccountTyped, Request
    <3> QED BY <1>9, <3>1 DEF EnrollRead, Goes
  <2> QED BY <1>1, <1>9, <2>1 DEF EnrollRead, Goes
<1>10. CASE LocksARow(r)
  BY <1>1, <1>2, <1>10 DEF LocksARow, LoginCheck, PasswordLock, ConfirmLock, UpdateCheck, Goes
<1>11. CASE UpdateLock(r) \/ UpdateWrite(r) \/ CreateUser(r) \/ SetEntityType(r)
  BY <1>1, <1>2, <1>11 DEF UpdateLock, UpdateWrite, CreateUser, SetEntityType, Goes, curatorVars
<1> QED BY <1>4, <1>5, <1>6, <1>7, <1>8, <1>9, <1>10, <1>11 DEF Serve, LocksARow

\* What a step writes of a credential is written by the holder of its row, or nobody
\* holds the row.
LEMMA OffersUntouched ==
  ASSUME Shape, OffersStay, job' = job,
         \A q \in Requests : job[q].kind = "confirm" /\ request'[q].at = "checked" =>
           /\ request[q].at = "checked"
           /\ credential'[job[q].by].pending = credential[job[q].by].pending
  PROVE  OffersStay'
BY DEF OffersStay

LEMMA OffersStep ==
  ASSUME AdminInv, AccountInv, [Next]_vars
  PROVE  OffersStay'
<1> USE DEF AdminInv, AccountInv
<1>1. \A q \in Requests : request[q].at = "checked" => rowLock[Row(q)] = q /\ Row(q) \in Users
  BY RowIsUser DEF HoldsItsRow
<1>2. \A q \in Requests : job[q].kind = "confirm" => Row(q) = job[q].by
  BY DEF Row
<1>3. None \notin Requests
  BY JobsAssumption DEF None
<1>4. ASSUME UNCHANGED <<request, job>>,
             \A q \in Requests : request[q].at = "checked" =>
               credential'[job[q].by].pending = credential[job[q].by].pending
      PROVE  OffersStay'
  BY <1>4, OffersUntouched
<1>5. ASSUME NEW r \in Requests, Serve(r) PROVE OffersStay'
  <2> DEFINE u == job[r].by
  <2>1. /\ job' = job /\ \A q \in Requests : q # r => request'[q] = request[q]
        /\ request'[r].at = "checked" => LocksARow(r)
    BY <1>5, RequestMoves
  <2>2. ASSUME NEW q \in Requests, job[q].kind = "confirm", request'[q].at = "checked", q # r
        PROVE  /\ request[q].at = "checked"
               /\ credential'[job[q].by].pending = credential[job[q].by].pending
    <3>1. request[q].at = "checked" /\ rowLock[job[q].by] = q /\ job[q].by \in Users
      BY <1>1, <1>2, <2>1, <2>2
    <3>2. ASSUME NEW v \in Users, rowLock[v] = None \/ (request[r].at = "checked" /\ v = Row(r)),
                 NEW n, credential' = [credential EXCEPT ![v] = n]
          PROVE  credential'[job[q].by].pending = credential[job[q].by].pending
      <4>1. job[q].by # v
        BY <1>1, <1>3, <2>2, <3>1, <3>2
      <4> QED BY <3>1, <3>2, <4>1 DEF AccountTyped
    <3>3. CASE credential' = credential
      BY <3>1, <3>3
    <3>4. CASE LoginMint(r)
      <4>1. \/ credential' = credential
            \/ \E n : credential' = [credential EXCEPT ![job[r].user] = n]
        BY <3>4 DEF LoginMint
      <4>2. Row(r) = job[r].user /\ request[r].at = "checked" /\ job[r].user \in Users
        BY <3>4, RowIsUser DEF LoginMint, Goes, Row
      <4> QED BY <3>1, <3>2, <4>1, <4>2
    <3>5. CASE PasswordWrite(r) \/ ConfirmWrite(r)
      <4>1. \E n : credential' = [credential EXCEPT ![u] = n]
        <5>1. CASE PasswordWrite(r)
          <6>1. credential' = [credential EXCEPT ![u].hash = [password |-> "new", cheap |-> FALSE],
                                                 ![u].pending = NoSecret]
            BY <5>1 DEF PasswordWrite
          <6>2. credential' = [credential EXCEPT ![u] = [credential[u] EXCEPT
                                 !.hash = [password |-> "new", cheap |-> FALSE], !.pending = NoSecret]]
            BY <6>1, RowIsUser, Zenon DEF AccountTyped
          <6> QED BY <6>2
        <5>2. CASE ConfirmWrite(r)
          BY <5>2 DEF ConfirmWrite
        <5> QED BY <3>5, <5>1, <5>2
      <4>2. Row(r) = u /\ request[r].at = "checked" /\ u \in Users
        BY <3>5, RowIsUser DEF PasswordWrite, ConfirmWrite, Goes, Row
      <4> QED BY <3>1, <3>2, <4>1, <4>2
    <3>6. CASE EnrollWrite(r)
      <4>1. \/ credential' = credential
            \/ \E n : credential' = [credential EXCEPT ![u] = n]
        <5>1. credential' = credential \/
              credential' = [credential EXCEPT ![u].pending = r, ![u].pendingFor = request[r].hash.password]
          BY <3>6 DEF EnrollWrite
        <5>2. u \in Users
          BY RowIsUser
        <5> QED BY <5>1, <5>2 DEF AccountTyped
      <4>2. u \in Users /\ rowLock[u] = None
        BY <3>6, RowIsUser DEF EnrollWrite, RowIsFree
      <4>3. ASSUME NEW n, credential' = [credential EXCEPT ![u] = n]
            PROVE  credential'[job[q].by].pending = credential[job[q].by].pending
        BY <3>2, <4>2, <4>3
      <4> QED BY <3>1, <3>3, <4>1, <4>3
    <3>7. CASE ResetMFA(r)
      <4>1. credential' = [credential EXCEPT ![job[r].user] = WithoutSecondFactor(credential[job[r].user])]
        BY <3>7 DEF ResetMFA
      <4> QED BY <3>1, <3>2, <3>7, <4>1, RowIsUser DEF ResetMFA, RowIsFree
    <3>8. CASE \/ Authorize(r) \/ Logout(r) \/ LoginRead(r) \/ LoginBegin(r) \/ LoginCheck(r) \/ PasswordLock(r)
               \/ EnrollRead(r) \/ ConfirmLock(r) \/ UpdateLock(r) \/ UpdateCheck(r) \/ UpdateWrite(r)
               \/ CreateUser(r) \/ SetEntityType(r)
      <4>1. credential' = credential
        BY <3>8 DEF Authorize, Logout, LoginRead, LoginBegin, LoginCheck, PasswordLock, EnrollRead,
                    ConfirmLock, UpdateLock, UpdateCheck, UpdateWrite, CreateUser, SetEntityType
      <4> QED BY <3>3, <4>1
    <3> QED BY <1>5, <3>4, <3>5, <3>6, <3>7, <3>8 DEF Serve
  <2>3. CASE job[r].kind = "confirm" /\ request'[r].at = "checked"
    <3>1. ConfirmLock(r)
      BY <2>1, <2>3 DEF LocksARow, LoginCheck, PasswordLock, UpdateCheck
    <3>2. credential' = credential /\ credential[u].pending # NoSecret
      <4>1. ~ Finish(r)
        BY <2>3, FinishIs
      <4> QED BY <3>1, <4>1 DEF ConfirmLock
    <3> QED BY <2>1, <2>2, <3>2 DEF OffersStay
  <2>4. CASE ~ (job[r].kind = "confirm" /\ request'[r].at = "checked")
    BY <2>1, <2>2, <2>4, OffersUntouched
  <2> QED BY <2>3, <2>4
<1>6. ASSUME NEW u \in Users, PendingExpires(u) PROVE OffersStay'
  <2>1. \A v \in Users : v # u => credential'[v] = credential[v]
    BY <1>6 DEF PendingExpires, AccountTyped
  <2>2. \A q \in Requests : request[q].at = "checked" /\ job[q].kind = "confirm" => job[q].by \in Users /\ job[q].by # u
    BY <1>1, <1>2, <1>3, <1>6 DEF PendingExpires, RowIsFree
  <2> QED BY <1>6, <2>1, <2>2, OffersUntouched DEF PendingExpires
<1>7. CASE BootRestore
  <2>1. \A q \in Requests : request[q].at = "idle"
    BY <1>7 DEF NobodyIsServedYet, BootRestore
  <2> QED BY <1>4, <1>7, <2>1 DEF BootRestore
<1>8. CASE Curating \/ (\E s \in sessions : GoIdle(s)) \/ BootUnchanged \/ BootClose \/ BootCrash \/ UNCHANGED vars
  <2>1. UNCHANGED <<request, job, credential>>
    BY <1>8 DEF Curating, GoIdle, BootUnchanged, BootClose, BootCrash, vars, accountVars
  <2> QED BY <1>4, <2>1
<1> QED BY <1>5, <1>6, <1>7, <1>8 DEF Next

LEMMA AccountStep ==
  ASSUME AdminInv, AccountInv, [Next]_vars
  PROVE  AccountInv'
<1>1. Shape /\ AccountTyped
  BY DEF AdminInv, AccountInv
<1>2. ASSUME NEW r \in Requests, Serve(r) PROVE AccountTyped'
  BY <1>1, <1>2, LoginTyped, SignedInTyped, ChangesTyped, AdministrationTyped DEF Serve
<1>3. AccountTyped'
  BY <1>1, <1>2, OutsideTyped DEF Next
<1> QED BY <1>3, OffersStep DEF AccountInv

LEMMA AccountsInitially ==
  ASSUME Init
  PROVE  AccountInv
<1>1. PICK s \in Starts : credential = s.credential /\ sessions = s.sessions /\ job = s.job
  BY DEF Init
<1>2. credential \in [Users -> Credential] /\ sessions \subseteq Session
  BY <1>1, AccountsAssumption
<1>3. Fresh \in Request /\ Fresh.at = "idle"
  BY DEF Fresh, Request, Phase, AnyHash, Hash, Passwords
<1>4. request \in [Requests -> Request] /\ \A r \in Requests : request[r].at = "idle"
  BY <1>3 DEF Init
<1>5. crashes \in 0 .. MaxCrashes
  BY AccountsAssumption DEF Init
<1>6. AccountTyped
  BY <1>2, <1>4, <1>5 DEF Init, AccountTyped
<1> QED BY <1>4, <1>6 DEF AccountInv, OffersStay

-----------------------------------------------------------------------------
\* No more assignments than the bound, and what the calls remember of them.
ListsAreBounded == Len(assignments) <= MaxAssignments /\ call \in [Calls -> CallState]

LEMMA LengthOfMade ==
  ASSUME NEW list \in Seq(Assignment), NEW f, f = [i \in DOMAIN list |-> f[i]]
  PROVE  Len(f) = Len(list)
<1>1. DOMAIN list = 1 .. Len(list) /\ Len(list) \in Nat
  OBVIOUS
<1> QED BY <1>1

LEMMA LengthsStay ==
  ASSUME NEW list \in Seq(Assignment), NEW W
  PROVE  Len(Revoked(list, W)) = Len(list) /\ Len(HeldBeside(list, W)) = Len(list)
<1>1. DOMAIN list = 1 .. Len(list) /\ Len(list) \in Nat
  OBVIOUS
<1>2. ASSUME NEW f(_) PROVE Len([i \in DOMAIN list |-> f(i)]) = Len(list)
  BY <1>1
<1>3. Len(Revoked(list, W)) = Len(list)
  BY <1>2 DEF Revoked
<1>4. Len(HeldBeside(list, W)) = Len(list)
  BY <1>2 DEF HeldBeside
<1> QED BY <1>3, <1>4

\* Whether it was asked for the partner is not a matter of length.
LEMMA FollowsAlike ==
  ASSUME NEW list \in Seq(Assignment), NEW u, NEW old, NEW new, NEW named,
         Writable(list, u, old, new)
  PROVE  Len(Follow(list, u, old, new, named)) <= MaxAssignments
<1> DEFINE past == Revoked(list, NotOver(list, u))
<1>1. \A a : Len(Append(past, a)) = Len(past) + 1
  <2>1. DOMAIN past = 1 .. Len(past) /\ Len(past) \in Nat
    BY LengthsStay DEF Revoked
  <2>2. past \in Seq({past[i] : i \in DOMAIN past})
    BY <2>1, RevokedRows
  <2> QED BY <2>2
<1>2. Len(Follow(list, u, old, new, TRUE)) <= MaxAssignments
  BY DEF Writable
<1> HIDE DEF past
<1>3. Len(Follow(list, u, old, new, named)) = Len(Follow(list, u, old, new, TRUE))
  BY <1>1 DEF Follow, past
<1> QED BY <1>2, <1>3

LEMMA ListsStep ==
  ASSUME AdminInv, PeriodInv, ListsAreBounded, [Next]_vars
  PROVE  ListsAreBounded'
<1>1. assignments \in Seq(Assignment) /\ Len(assignments) \in Nat /\ DOMAIN assignments = 1 .. Len(assignments)
  BY DEF PeriodInv
<1>2. MaxAssignments \in Nat /\ 0 \in 0 .. Forever /\ Day \subseteq 0 .. Forever
  BY DaysAreNumbers, CuratorsAssumption DEF CuratorsAssumption, Forever
<1>3. Over \in CallState
  BY <1>2 DEF Over, CallState
<1>4. ASSUME NEW c \in Calls, NEW k \in CallState, call' = [call EXCEPT ![c] = k]
      PROVE  call' \in [Calls -> CallState]
  BY <1>4 DEF ListsAreBounded
<1>5. CASE Curating
  <2>1. ASSUME NEW u \in Users, NEW p \in Partners, NEW from \in Day, NEW until \in Day \cup {Forever},
               Assign(u, p, from, until)
        PROVE  ListsAreBounded'
    <3> DEFINE a == Period(u, p, from, until, IF IsCurator(profile[u]) THEN "assign" ELSE "beside")
    <3>1. Len(assignments) < MaxAssignments /\ call' = call /\ assignments' = Append(assignments, a)
      BY <2>1 DEF Assign
    <3>2. from \in Day /\ until \in 0 .. Forever
      BY DaysAreNumbers, CuratorsAssumption DEF CuratorsAssumption, Day, Forever
    <3>3. a \in Assignment
      BY <3>2 DEF Period, Assignment
    <3> HIDE DEF a
    <3>4. Len(Append(assignments, a)) = Len(assignments) + 1
      BY <1>1, <3>3
    <3> QED BY <1>1, <1>2, <3>1, <3>4 DEF ListsAreBounded
  <2>2. ASSUME NEW c \in Calls, NEW i \in DOMAIN assignments,
               (\E until \in Day : EndRead(c, i, until)) \/ RevokeRead(c, i)
        PROVE  ListsAreBounded'
    <3>1. i \in 0 .. MaxAssignments
      BY <1>1, <1>2 DEF ListsAreBounded
    <3>2. \A until \in 0 .. Forever, at \in {"ending", "revoking"} : [at |-> at, id |-> i, until |-> until] \in CallState
      BY <3>1 DEF CallState
    <3>3. \E k \in CallState : call' = [call EXCEPT ![c] = k]
      BY <1>2, <1>3, <2>2, <3>2 DEF EndRead, RevokeRead
    <3>4. assignments' = assignments
      BY <2>2 DEF EndRead, RevokeRead
    <3> QED BY <1>4, <3>3, <3>4 DEF ListsAreBounded
  <2>3. ASSUME NEW c \in Calls, EndWrite(c) PROVE ListsAreBounded'
    <3>1. call' \in [Calls -> CallState]
      BY <1>3, <1>4, <2>3 DEF EndWrite
    <3> DEFINE i == call[c].id
               cut == [assignments EXCEPT ![i].until = call[c].until]
    <3>2. assignments' \in {assignments, cut, HeldBeside(cut, {i})}
      BY <2>3 DEF EndWrite
    <3>3. DOMAIN cut = DOMAIN assignments /\ cut = [j \in DOMAIN assignments |-> cut[j]]
      OBVIOUS
    <3> HIDE DEF cut, i
    <3>4. DOMAIN HeldBeside(cut, {i}) = DOMAIN assignments
          /\ HeldBeside(cut, {i}) = [j \in DOMAIN assignments |-> HeldBeside(cut, {i})[j]]
      BY <3>3 DEF HeldBeside
    <3>5. Len(assignments') = Len(assignments)
      BY <1>1, <3>2, <3>3, <3>4, LengthOfMade
    <3> QED BY <3>1, <3>5 DEF ListsAreBounded
  <2>4. ASSUME NEW c \in Calls, RevokeWrite(c) PROVE ListsAreBounded'
    <3>1. call' \in [Calls -> CallState]
      BY <1>3, <1>4, <2>4 DEF RevokeWrite
    <3>2. Len(assignments') = Len(assignments)
      BY <1>1, <2>4, LengthsStay DEF RevokeWrite
    <3> QED BY <3>1, <3>2 DEF ListsAreBounded
  <2>5. CASE Sync \/ NextDay
    BY <2>5 DEF Sync, NextDay, ListsAreBounded
  <2> QED BY <1>5, <2>1, <2>2, <2>3, <2>4, <2>5 DEF Curating, CuratorsNext
<1>6. ASSUME NEW r \in Requests, UpdateWrite(r) PROVE ListsAreBounded'
  <2> DEFINE u == job[r].user
             old == profile[u]
             wanted == Asked(r)
             written == Follow(assignments, u, old, wanted, "partner" \in DOMAIN job[r].set)
  <2>1. call' = call
    BY <1>6 DEF UpdateWrite
  <2>2. job[r] \in Jobs
    BY DEF AdminInv, Shape
  <2>3. u \in Users /\ wanted \in Profile
    BY <2>2, AskedIsProfile
  <2>4. written \in Seq(Assignment)
    BY <2>3, FollowKeeps
  <2>5. CASE Writable(assignments, u, old, wanted)
    <3>1. Len(written) <= MaxAssignments
      BY <1>1, <2>5, FollowsAlike
    <3>2. assignments' \in {written, Revoked(written, NotOver(written, u))}
      BY <1>6, <2>5 DEF UpdateWrite
    <3> HIDE DEF written
    <3>3. Len(assignments') = Len(written)
      BY <2>4, <3>2, LengthsStay
    <3> QED BY <2>1, <3>1, <3>3 DEF ListsAreBounded
  <2>6. CASE ~Writable(assignments, u, old, wanted)
    BY <1>6, <2>1, <2>6 DEF UpdateWrite, ListsAreBounded
  <2> QED BY <2>5, <2>6
<1>7. ASSUME NEW r \in Requests, CreateUser(r) \/ SetEntityType(r) PROVE ListsAreBounded'
  <2>1. call' = call
    BY <1>7 DEF CreateUser, SetEntityType
  <2>2. Len(assignments') <= MaxAssignments
    <3>1. CASE CreateUser(r)
      BY <3>1 DEF CreateUser, ListsAreBounded
    <3>2. CASE SetEntityType(r)
      BY <1>1, <3>2, FollowsAlike DEF SetEntityType, WriteProfile
    <3> QED BY <1>7, <3>1, <3>2
  <2> QED BY <2>1, <2>2 DEF ListsAreBounded
<1>8. CASE BootRestore
  BY <1>1, <1>8, LengthsStay DEF BootRestore, ListsAreBounded
<1>9. ASSUME UNCHANGED curatorVars PROVE ListsAreBounded'
  BY <1>9 DEF curatorVars, ListsAreBounded
<1>10. ASSUME NEW r \in Requests, Serve(r) PROVE ListsAreBounded'
  <2>1. CASE Authorize(r) \/ Logout(r) \/ LoginRead(r) \/ LoginBegin(r) \/ LoginCheck(r) \/ LoginMint(r)
    BY <1>9, <2>1 DEF Authorize, Logout, LoginRead, LoginBegin, LoginCheck, LoginMint
  <2>2. CASE \/ PasswordLock(r) \/ PasswordWrite(r) \/ EnrollRead(r) \/ EnrollWrite(r) \/ ConfirmLock(r)
             \/ ConfirmWrite(r) \/ ResetMFA(r) \/ UpdateLock(r) \/ UpdateCheck(r)
    BY <1>9, <2>2
       DEF PasswordLock, PasswordWrite, EnrollRead, EnrollWrite, ConfirmLock, ConfirmWrite, ResetMFA,
           UpdateLock, UpdateCheck
  <2> QED BY <1>6, <1>7, <1>10, <2>1, <2>2 DEF Serve
<1>11. CASE \/ (\E s \in sessions : GoIdle(s)) \/ (\E u \in Users : PendingExpires(u))
            \/ BootUnchanged \/ BootClose \/ BootCrash \/ UNCHANGED vars
  BY <1>9, <1>11 DEF GoIdle, PendingExpires, BootUnchanged, BootClose, BootCrash, vars
<1> QED BY <1>5, <1>8, <1>10, <1>11 DEF Next

LEMMA ListsInitially ==
  ASSUME Init
  PROVE  ListsAreBounded
BY AccountsAssumption DEF Init, CuratorsInit, ListsAreBounded

BootIsKnown == boot \in {"down", "restored", "up"}

LEMMA BootStep ==
  ASSUME AdminInv, BootIsKnown, [Next]_vars
  PROVE  BootIsKnown'
<1>1. ASSUME NEW r \in Requests, Serve(r) PROVE boot' = boot
  <2>1. CASE Authorize(r) \/ Logout(r) \/ LoginRead(r) \/ LoginBegin(r) \/ LoginCheck(r) \/ LoginMint(r)
    BY <2>1 DEF Authorize, Logout, LoginRead, LoginBegin, LoginCheck, LoginMint
  <2>2. CASE \/ PasswordLock(r) \/ PasswordWrite(r) \/ EnrollRead(r) \/ EnrollWrite(r) \/ ConfirmLock(r)
             \/ ConfirmWrite(r) \/ ResetMFA(r)
    BY <2>2 DEF PasswordLock, PasswordWrite, EnrollRead, EnrollWrite, ConfirmLock, ConfirmWrite, ResetMFA
  <2>3. CASE UpdateLock(r) \/ UpdateCheck(r) \/ UpdateWrite(r) \/ CreateUser(r) \/ SetEntityType(r)
    BY <2>3 DEF UpdateLock, UpdateCheck, UpdateWrite, CreateUser, SetEntityType
  <2> QED BY <1>1, <2>1, <2>2, <2>3 DEF Serve
<1> QED BY <1>1 DEF Next, BootIsKnown, Curating, GoIdle, PendingExpires, BootUnchanged, BootRestore, BootClose,
             BootCrash, vars, accountVars

(* Credentials, sessions, locks, calls and assignments keep their types: an  *)
(* offer that was locked is there to be confirmed, and no row is made past   *)
(* the bound, whatever is written beside.                                    *)
THEOREM AccountsTyped == Spec => []TypeOK
<1>1. Init => AdminInv /\ PeriodInv /\ AccountInv /\ ListsAreBounded
  BY AdminInitially, PeriodsInitially, AccountsInitially, ListsInitially
<1>2. AdminInv /\ PeriodInv /\ AccountInv /\ ListsAreBounded /\ [Next]_vars
        => AdminInv' /\ PeriodInv' /\ AccountInv' /\ ListsAreBounded'
  BY AdminStep, PeriodsStep, AccountStep, ListsStep
<1>3. AdminInv /\ PeriodInv /\ AccountInv /\ ListsAreBounded /\ BootIsKnown => TypeOK
  BY DEF AdminInv, Shape, PeriodInv, AccountInv, AccountTyped, ListsAreBounded, BootIsKnown, TypeOK, CuratorsTypeOK
<1>4. Init => BootIsKnown
  BY DEF Init, BootIsKnown
<1>5. AdminInv /\ BootIsKnown /\ [Next]_vars => BootIsKnown'
  BY BootStep
<1> QED BY <1>1, <1>2, <1>3, <1>4, <1>5, PTL DEF Spec

-----------------------------------------------------------------------------
\* The second factor.  Whose enrolment a secret is of.
Owner(x) == IF x \in Users THEN x ELSE job[x].by
SecretsOf(u) == {credential[u].secret, credential[u].pending} \ {NoSecret}

\* What verifies nothing any more, and never will.
IsSpent(c, code) ==
  /\ code[1] # c.pending /\ code \notin c.codes
  /\ code[1] = c.secret /\ code[2] = "totp" => code[3] <= c.counter

IsWhole(c) ==
  /\ \A code \in c.codes : code[1] = c.secret /\ code[2] = "recovery"
  /\ c.pending # NoSecret => /\ c.secret = NoSecret
                             /\ c.pendingFor = c.hash.password \/ c.hash.password = "boot"

CredentialsAreWhole == \A u \in Users : IsWhole(credential[u])

SecretsAreOwn == \A u \in Users : \A x \in SecretsOf(u) : Owner(x) = u

\* A request that is not over has made no secret yet.
SecretsAreFresh ==
  \A r \in Requests : request[r].at # "over" =>
    /\ \A u \in Users : r \notin SecretsOf(u)
    /\ \A x \in Requests : request[x].code[1] # r

CodesAreSpent ==
  \A x \in Requests : request[x].code # NoCode =>
    /\ request[x].at = "over" /\ job[x].kind = "login"
    /\ Owner(request[x].code[1]) = job[x].user
    /\ IsSpent(credential[job[x].user], request[x].code)

CodeInv == CredentialsAreWhole /\ SecretsAreOwn /\ SecretsAreFresh /\ CodesAreSpent /\ CodesWorkOnce

LEMMA CodesAreTyped ==
  ASSUME AccountTyped, NEW x \in Requests, request[x].code # NoCode
  PROVE  request[x].code \in Code /\ request[x].code[1] \in Secrets /\ request[x].code[1] # NoSecret
<1>1. request[x].code \in Code
  BY DEF AccountTyped, Request
<1> QED BY <1>1, AccountsAssumption DEF Code

\* A code that opens a session as x ends, by the credential n of u.
IsNewlySpent(x, u, n) ==
  /\ request'[x].at = "over" /\ job[x].kind = "login" /\ job[x].user = u
  /\ request'[x].code[1] \in SecretsOf(u) /\ IsSpent(n, request'[x].code)
  /\ \A q \in Requests : q # x => request[q].code # request'[x].code

\* One account's credential changes: what it still accepts, it has not accepted before.
LEMMA OneAccountChanges ==
  ASSUME Shape, AccountTyped, CodeInv, NEW u \in Users, NEW n \in Credential,
         credential' = [credential EXCEPT ![u] = n], job' = job, IsWhole(n),
         \A x \in Requests : request[x].at = "over" => request'[x].at = "over",
         \A x \in {n.secret, n.pending} \ {NoSecret} :
           \/ x \in SecretsOf(u)
           \/ x \in Requests /\ job[x].by = u /\ request'[x].at = "over",
         \A x \in Requests : request[x].code # NoCode /\ IsSpent(credential[u], request[x].code)
           => IsSpent(n, request[x].code),
         NEW minted,
         \A x \in Requests : request'[x].code # NoCode =>
           \/ request'[x].code = request[x].code /\ request[x].at = "over"
           \/ x = minted /\ IsNewlySpent(x, u, n)
  PROVE  CodeInv'
<1>1. /\ credential'[u] = n /\ \A v \in Users : v # u => credential'[v] = credential[v]
      /\ \A x \in Requests : job[x].by \in Users /\ job[x].user \in Users
  BY CredentialTyped, RowIsUser
<1>2. CredentialsAreWhole'
  BY <1>1 DEF CodeInv, CredentialsAreWhole
<1>3. \A v \in Users : v # u => SecretsOf(v)' = SecretsOf(v)
  BY <1>1 DEF SecretsOf
<1>4. SecretsOf(u)' = {n.secret, n.pending} \ {NoSecret}
  BY <1>1 DEF SecretsOf
<1>5. \A x : Owner(x)' = Owner(x)
  BY DEF Owner
<1>6. \A x \in Requests : Owner(x) = job[x].by
  BY AccountsAssumption DEF Owner
<1>7. SecretsAreOwn'
  BY <1>3, <1>4, <1>5, <1>6 DEF CodeInv, SecretsAreOwn
<1>8. NoCode[1] = NoSecret /\ NoSecret \notin Requests
  BY AccountsAssumption DEF NoCode, Secrets
<1>9. ASSUME NEW x \in Requests, request'[x].code # NoCode
      PROVE  /\ request'[x].at = "over" /\ job[x].kind = "login"
             /\ Owner(request'[x].code[1]) = job[x].user
             /\ IsSpent(credential'[job[x].user], request'[x].code)
             /\ \A r \in Requests : request'[r].at # "over" => request'[x].code[1] # r
  <2>1. CASE request'[x].code = request[x].code /\ request[x].at = "over"
    <3>1. /\ job[x].kind = "login" /\ Owner(request[x].code[1]) = job[x].user
          /\ IsSpent(credential[job[x].user], request[x].code)
      BY <1>9, <2>1 DEF CodeInv, CodesAreSpent
    <3>2. IsSpent(credential'[job[x].user], request[x].code)
      BY <1>1, <1>9, <2>1, <3>1
    <3>3. \A r \in Requests : request'[r].at # "over" => request[x].code[1] # r
      BY DEF CodeInv, SecretsAreFresh
    <3> QED BY <2>1, <3>1, <3>2, <3>3
  <2>2. CASE IsNewlySpent(x, u, n)
    <3>1. Owner(request'[x].code[1]) = u
      BY <2>2 DEF IsNewlySpent, CodeInv, SecretsAreOwn
    <3>2. \A r \in Requests : request'[r].at # "over" => request'[x].code[1] # r
      BY <2>2 DEF IsNewlySpent, CodeInv, SecretsAreFresh
    <3> QED BY <1>1, <2>2, <3>1, <3>2 DEF IsNewlySpent
  <2> QED BY <1>9, <2>1, <2>2
<1>10. CodesAreSpent'
  BY <1>5, <1>9 DEF CodesAreSpent, IsSpent
<1>11. SecretsAreFresh'
  <2>1. ASSUME NEW r \in Requests, request'[r].at # "over"
        PROVE  /\ \A v \in Users : r \notin SecretsOf(v)'
               /\ \A x \in Requests : request'[x].code[1] # r
    <3>1. request[r].at # "over"
      BY <2>1
    <3>2. \A v \in Users : r \notin SecretsOf(v)
      BY <3>1 DEF CodeInv, SecretsAreFresh
    <3>3. \A v \in Users : r \notin SecretsOf(v)'
      BY <1>3, <1>4, <2>1, <3>2
    <3> QED BY <1>8, <1>9, <2>1, <3>3
  <2> QED BY <2>1 DEF SecretsAreFresh
<1>12. CodesWorkOnce'
  <2>1. ASSUME NEW x \in Requests, NEW y \in Requests, x # y, request'[x].code # NoCode,
               request'[x].code = request'[y].code
        PROVE  FALSE
    <3>1. CASE request'[x].code = request[x].code /\ request'[y].code = request[y].code
      BY <2>1, <3>1 DEF CodeInv, CodesWorkOnce
    <3>2. CASE request'[x].code # request[x].code
      <4>1. request'[y].code = request[y].code /\ IsNewlySpent(x, u, n)
        BY <2>1, <3>2
      <4> QED BY <2>1, <4>1 DEF IsNewlySpent
    <3>3. CASE request'[y].code # request[y].code
      <4>1. request'[x].code = request[x].code /\ IsNewlySpent(y, u, n)
        BY <2>1, <3>3
      <4> QED BY <2>1, <4>1 DEF IsNewlySpent
    <3> QED BY <3>1, <3>2, <3>3
  <2> QED BY <2>1 DEF CodesWorkOnce
<1> QED BY <1>2, <1>7, <1>10, <1>11, <1>12 DEF CodeInv

\* No code opens a session in a step that leaves every request its code, or takes it.
NothingMinted ==
  \A x \in Requests : /\ request[x].at = "over" => request'[x].at = "over"
                      /\ request'[x].code # NoCode => request'[x].code = request[x].code /\ request[x].at = "over"

LEMMA NobodyMints ==
  ASSUME Shape, AccountTyped, CodeInv, NEW r \in Requests, Serve(r), ~LoginMint(r)
  PROVE  NothingMinted /\ job' = job /\ request[r].at # "over"
<1>1. /\ request[r].at # "over" /\ job' = job
      /\ \A q \in Requests : q # r => request'[q] = request[q]
      /\ request'[r].code = request[r].code \/ request'[r].code = NoCode
  BY RequestMoves
<1>2. request[r].code = NoCode
  BY <1>1 DEF CodeInv, CodesAreSpent
<1> QED BY <1>1, <1>2 DEF NothingMinted, CodeInv, CodesAreSpent

LEMMA CredentialsStay ==
  ASSUME Shape, AccountTyped, CodeInv, NothingMinted, UNCHANGED <<credential, job>>
  PROVE  CodeInv'
<1>1. Root \in Users /\ credential[Root] \in Credential
  BY AccountsAssumption DEF AccountTyped
<1>2. credential' = [credential EXCEPT ![Root] = credential[Root]]
  BY <1>1 DEF AccountTyped
<1>3. IsWhole(credential[Root])
  BY <1>1 DEF CodeInv, CredentialsAreWhole
<1> QED BY <1>1, <1>2, <1>3, OneAccountChanges DEF NothingMinted, SecretsOf

LEMMA PasswordWriteSpends ==
  ASSUME Shape, AccountTyped, CodeInv, NEW r \in Requests, PasswordWrite(r)
  PROVE  CodeInv'
<1> DEFINE u == job[r].by
           c == credential[u]
           n == [c EXCEPT !.hash = [password |-> "new", cheap |-> FALSE], !.pending = NoSecret]
<1>1. u \in Users /\ c \in Credential /\ IsWhole(c)
  BY RowIsUser DEF AccountTyped, CodeInv, CredentialsAreWhole
<1>2. NothingMinted /\ job' = job
  BY NobodyMints DEF Serve, PasswordWrite, LoginMint
<1>3. n \in Credential
  BY <1>1 DEF Credential, Hash, Passwords
<1>4. credential' = [credential EXCEPT ![u] = n]
  <2>1. credential' = [credential EXCEPT ![u].hash = [password |-> "new", cheap |-> FALSE],
                                         ![u].pending = NoSecret]
    BY DEF PasswordWrite
  <2> QED BY <1>1, <2>1, Zenon DEF AccountTyped
<1>5. n.secret = c.secret /\ n.pending = NoSecret /\ n.codes = c.codes /\ n.counter = c.counter
  BY <1>1 DEF Credential
<1> HIDE DEF n
<1>6. IsWhole(n)
  BY <1>1, <1>5 DEF IsWhole
<1>7. \A x \in Requests : request[x].code # NoCode /\ IsSpent(c, request[x].code) => IsSpent(n, request[x].code)
  BY <1>5, CodesAreTyped DEF IsSpent
<1> QED BY <1>1, <1>2, <1>3, <1>4, <1>5, <1>6, <1>7, OneAccountChanges DEF NothingMinted, SecretsOf

LEMMA PendingExpiresSpends ==
  ASSUME Shape, AccountTyped, CodeInv, NEW u \in Users, PendingExpires(u)
  PROVE  CodeInv'
<1> DEFINE c == credential[u]
           n == [c EXCEPT !.pending = NoSecret]
<1>1. c \in Credential /\ IsWhole(c)
  BY DEF AccountTyped, CodeInv, CredentialsAreWhole
<1>2. NothingMinted /\ job' = job
  BY DEF PendingExpires, NothingMinted, CodeInv, CodesAreSpent
<1>3. n \in Credential
  BY <1>1 DEF Credential
<1>4. credential' = [credential EXCEPT ![u] = n]
  BY DEF PendingExpires, AccountTyped
<1>5. n.secret = c.secret /\ n.pending = NoSecret /\ n.codes = c.codes /\ n.counter = c.counter
  BY <1>1 DEF Credential
<1> HIDE DEF n
<1>6. IsWhole(n)
  BY <1>1, <1>5 DEF IsWhole
<1>7. \A x \in Requests : request[x].code # NoCode /\ IsSpent(c, request[x].code) => IsSpent(n, request[x].code)
  BY <1>5, CodesAreTyped DEF IsSpent
<1> QED BY <1>1, <1>2, <1>3, <1>4, <1>5, <1>6, <1>7, OneAccountChanges DEF NothingMinted, SecretsOf

LEMMA ResetSpends ==
  ASSUME Shape, AccountTyped, CodeInv, NEW r \in Requests, ResetMFA(r)
  PROVE  CodeInv'
<1> DEFINE u == job[r].user
           c == credential[u]
           n == WithoutSecondFactor(c)
<1>1. u \in Users /\ c \in Credential
  BY RowIsUser DEF AccountTyped
<1>2. NothingMinted /\ job' = job
  BY NobodyMints DEF Serve, ResetMFA, LoginMint, Goes
<1>3. n \in Credential
  <2>1. -1 \in -1 .. Steps
    BY AccountsAssumption
  <2> QED BY <1>1, <2>1 DEF WithoutSecondFactor, Credential
<1>4. credential' = [credential EXCEPT ![u] = n]
  BY DEF ResetMFA, AccountTyped
<1>5. n.secret = NoSecret /\ n.pending = NoSecret /\ n.codes = {}
  BY <1>1 DEF Credential, WithoutSecondFactor
<1> HIDE DEF n
<1>6. IsWhole(n)
  BY <1>5 DEF IsWhole
<1>7. \A x \in Requests : request[x].code # NoCode => IsSpent(n, request[x].code)
  BY <1>5, CodesAreTyped DEF IsSpent
<1> QED BY <1>1, <1>2, <1>3, <1>4, <1>5, <1>6, <1>7, OneAccountChanges DEF NothingMinted, SecretsOf

LEMMA BootRestoreSpends ==
  ASSUME Shape, AccountTyped, CodeInv, BootRestore
  PROVE  CodeInv'
<1> DEFINE c == credential[Root]
           n == [c EXCEPT !.hash = [password |-> "boot", cheap |-> FALSE]]
<1>1. Root \in Users /\ c \in Credential
  BY AccountsAssumption DEF AccountTyped
<1>2. NothingMinted /\ job' = job
  BY DEF BootRestore, NothingMinted, CodeInv, CodesAreSpent
<1>3. n \in Credential
  BY <1>1 DEF Credential, Hash, Passwords
<1>4. credential' = [credential EXCEPT ![Root] = n]
  BY <1>1 DEF BootRestore, AccountTyped
<1>5. /\ n.secret = c.secret /\ n.pending = c.pending /\ n.codes = c.codes /\ n.counter = c.counter
      /\ n.hash.password = "boot"
  BY <1>1 DEF Credential
<1> HIDE DEF n
<1>6. IsWhole(n)
  BY <1>1, <1>5 DEF IsWhole, CodeInv, CredentialsAreWhole
<1>7. \A x \in Requests : IsSpent(c, request[x].code) => IsSpent(n, request[x].code)
  BY <1>5 DEF IsSpent
<1> QED BY <1>1, <1>2, <1>3, <1>4, <1>5, <1>6, <1>7, OneAccountChanges DEF NothingMinted, SecretsOf

\* The secret offered is the request's own, so no code of it has been used.
LEMMA EnrollWriteSpends ==
  ASSUME Shape, AccountTyped, CodeInv, NEW r \in Requests, EnrollWrite(r)
  PROVE  CodeInv'
<1> DEFINE u == job[r].by
           c == credential[u]
           n == [c EXCEPT !.pending = r, !.pendingFor = request[r].hash.password]
<1>1. u \in Users /\ c \in Credential /\ IsWhole(c)
  BY RowIsUser DEF AccountTyped, CodeInv, CredentialsAreWhole
<1>2. NothingMinted /\ job' = job /\ request[r].at # "over"
  BY NobodyMints DEF Serve, EnrollWrite, LoginMint, Goes
<1>3. request'[r].at = "over"
  BY FinishIs DEF EnrollWrite
<1>4. CASE credential' = credential
  BY <1>2, <1>4, CredentialsStay
<1>5. CASE c.secret = NoSecret /\ c.hash = request[r].hash
           /\ credential' = [credential EXCEPT ![u].pending = r, ![u].pendingFor = request[r].hash.password]
  <2>1. n \in Credential
    <3>1. request[r].hash.password \in Passwords
      BY DEF AccountTyped, Request, Hash
    <3> QED BY <1>1, <3>1 DEF Credential, Secrets
  <2>2. credential' = [credential EXCEPT ![u] = n]
    BY <1>1, <1>5 DEF AccountTyped
  <2>3. /\ n.secret = c.secret /\ n.pending = r /\ n.codes = c.codes /\ n.counter = c.counter
        /\ n.hash = c.hash /\ n.pendingFor = c.hash.password
    BY <1>1, <1>5 DEF Credential
  <2> HIDE DEF n
  <2>4. IsWhole(n)
    BY <1>1, <1>5, <2>3 DEF IsWhole
  <2>5. \A x \in Requests : request[x].code[1] # r
    BY <1>2 DEF CodeInv, SecretsAreFresh
  <2>6. \A x \in Requests : IsSpent(c, request[x].code) => IsSpent(n, request[x].code)
    BY <2>3, <2>5 DEF IsSpent
  <2> QED BY <1>1, <1>2, <1>3, <2>1, <2>2, <2>3, <2>4, <2>6, OneAccountChanges DEF NothingMinted, SecretsOf
<1> QED BY <1>4, <1>5 DEF EnrollWrite

\* What is confirmed is the offer that was locked; the code shown is behind the counter.
LEMMA ConfirmWriteSpends ==
  ASSUME Shape, AccountInv, CodeInv, NEW r \in Requests, ConfirmWrite(r)
  PROVE  CodeInv'
<1> USE DEF AccountInv
<1> DEFINE u == job[r].by
           c == credential[u]
           added == <<c.pending, "recovery", 0>>
<1>1. u \in Users /\ c \in Credential /\ IsWhole(c)
  BY RowIsUser DEF AccountTyped, CodeInv, CredentialsAreWhole
<1>2. NothingMinted /\ job' = job
  BY NobodyMints DEF Serve, ConfirmWrite, LoginMint, Goes
<1>3. c.pending # NoSecret /\ c.pending \in Secrets /\ c.secret = NoSecret
  BY <1>1 DEF ConfirmWrite, Goes, OffersStay, Credential, IsWhole
<1>4. c.codes = {}
  BY <1>1, <1>3, AccountsAssumption DEF IsWhole, Credential, Code
<1>5. PICK k \in 1 .. Steps :
        credential' = [credential EXCEPT ![u] = [c EXCEPT !.secret = c.pending, !.pending = NoSecret,
                         !.counter = k, !.codes = @ \cup {added}]]
  BY DEF ConfirmWrite
<1> DEFINE n == [c EXCEPT !.secret = c.pending, !.pending = NoSecret, !.counter = k, !.codes = @ \cup {added}]
<1>6. added \in Code /\ added[1] = c.pending /\ added[2] = "recovery"
  BY <1>3, AccountsAssumption DEF Code
<1> HIDE DEF added
<1>7. n \in Credential
  <2>1. k \in -1 .. Steps
    BY AccountsAssumption
  <2>2. c.codes \cup {added} \subseteq Code
    BY <1>1, <1>6 DEF Credential
  <2> QED BY <1>1, <1>3, <2>1, <2>2 DEF Credential
<1>8. n.secret = c.pending /\ n.pending = NoSecret /\ n.codes = {added}
  BY <1>1, <1>4 DEF Credential
<1>9. credential' = [credential EXCEPT ![u] = n]
  BY <1>5
<1> HIDE DEF n
<1>10. IsWhole(n)
  BY <1>6, <1>8 DEF IsWhole
<1>11. \A x \in Requests : request[x].code # NoCode /\ IsSpent(c, request[x].code) => IsSpent(n, request[x].code)
  BY <1>6, <1>8, CodesAreTyped DEF IsSpent
<1> QED BY <1>1, <1>2, <1>3, <1>7, <1>8, <1>9, <1>10, <1>11, OneAccountChanges DEF NothingMinted, SecretsOf

\* The code that opens a session was good, and is not any more.
LEMMA LoginMintSpends ==
  ASSUME Shape, AccountTyped, CodeInv, NEW r \in Requests, LoginMint(r)
  PROVE  CodeInv'
<1> DEFINE u == job[r].user
           c == credential[u]
<1>1. u \in Users /\ c \in Credential /\ IsWhole(c)
  BY RowIsUser DEF AccountTyped, CodeInv, CredentialsAreWhole
<1>2. /\ job[r].kind = "login" /\ job' = job /\ request[r].at # "over"
      /\ \A x \in Requests : x # r => request'[x] = request[x]
  BY RequestMoves DEF Serve, LoginMint, Goes
<1>3. request[r].code = NoCode
  BY <1>2 DEF CodeInv, CodesAreSpent
<1>4. ASSUME request'[r].code = NoCode PROVE NothingMinted
  BY <1>2, <1>4 DEF NothingMinted, CodeInv, CodesAreSpent
<1>5. CASE Finish(r) /\ UNCHANGED <<credential, sessions>>
  <2>1. request'[r].code = NoCode
    BY <1>3, <1>5, FinishTyped
  <2> QED BY <1>2, <1>4, <1>5, <2>1, CredentialsStay
<1>6. CASE ~ (Finish(r) /\ UNCHANGED <<credential, sessions>>)
  <2>1. PICK code \in Code \cup {NoCode} :
          \E m \in (IF c.secret = NoSecret THEN {c} ELSE SecondFactor(c, code)) :
            /\ credential' = [credential EXCEPT ![u] = [m EXCEPT !.hash.cheap = FALSE]]
            /\ request' = [request EXCEPT ![r] = [Fresh EXCEPT !.at = "over",
                             !.code = IF c.secret = NoSecret THEN NoCode ELSE code]]
    BY <1>6 DEF LoginMint
  <2>2. PICK m \in (IF c.secret = NoSecret THEN {c} ELSE SecondFactor(c, code)) :
            /\ credential' = [credential EXCEPT ![u] = [m EXCEPT !.hash.cheap = FALSE]]
            /\ request' = [request EXCEPT ![r] = [Fresh EXCEPT !.at = "over",
                             !.code = IF c.secret = NoSecret THEN NoCode ELSE code]]
    BY <2>1
  <2> DEFINE n == [m EXCEPT !.hash.cheap = FALSE]
             used == IF c.secret = NoSecret THEN NoCode ELSE code
  <2>3. request'[r].at = "over" /\ request'[r].code = used
    <3>1. \A x : [Fresh EXCEPT !.at = "over", !.code = x].at = "over" /\ [Fresh EXCEPT !.at = "over", !.code = x].code = x
      BY DEF Fresh
    <3>2. request'[r] = [Fresh EXCEPT !.at = "over", !.code = used]
      BY <2>2 DEF AccountTyped
    <3> QED BY <3>1, <3>2
  <2>4. /\ m \in Credential /\ m.secret = c.secret /\ m.pending = c.pending /\ m.hash = c.hash
        /\ m.pendingFor = c.pendingFor
    <3>1. c.codes \subseteq Code
      BY <1>1 DEF Credential
    <3> QED BY <1>1, <2>2, <3>1, FactorTyped
  <2>5. /\ n \in Credential /\ n.secret = c.secret /\ n.pending = c.pending /\ n.hash.password = c.hash.password
        /\ n.pendingFor = c.pendingFor /\ n.codes = m.codes /\ n.counter = m.counter
    BY <2>4 DEF Credential, Hash
  <2>6. credential' = [credential EXCEPT ![u] = n]
    BY <2>2
  <2> HIDE DEF n, used
  <2>7. CASE c.secret = NoSecret
    <3>1. m = c
      BY <2>2, <2>7
    <3>2. NothingMinted
      BY <1>4, <2>3, <2>7 DEF used
    <3>3. IsWhole(n)
      BY <1>1, <2>5, <3>1 DEF IsWhole
    <3>4. \A x \in Requests : IsSpent(c, request[x].code) => IsSpent(n, request[x].code)
      BY <2>5, <3>1 DEF IsSpent
    <3> QED BY <1>1, <1>2, <2>5, <2>6, <3>2, <3>3, <3>4, OneAccountChanges DEF NothingMinted, SecretsOf
  <2>8. CASE c.secret # NoSecret
    <3>0. c.codes \subseteq Code /\ c.counter \in Int
      BY <1>1, AccountsAssumption DEF Credential
    <3>1. /\ code \in Code /\ code[1] \in Secrets /\ code[2] \in {"totp", "recovery"} /\ code[3] \in 0 .. Steps
          /\ \/ code \in c.codes /\ m.codes = c.codes \ {code} /\ m.counter = c.counter
             \/ /\ code \notin c.codes /\ code[1] = c.secret /\ code[2] = "totp" /\ c.counter < code[3]
                /\ m.codes = c.codes /\ m.counter = code[3]
      BY <1>1, <2>2, <2>8, <3>0, FactorTyped
    <3>2. c.pending = NoSecret /\ code[1] = c.secret
      BY <1>1, <2>8, <3>1 DEF IsWhole
    <3>3. IsWhole(n)
      BY <1>1, <2>5, <3>1, <3>2 DEF IsWhole
    <3>4. ASSUME NEW x \in Requests, request[x].code # NoCode, IsSpent(c, request[x].code)
          PROVE  IsSpent(n, request[x].code) /\ request[x].code # code
      <4> DEFINE old == request[x].code
      <4>1. old[3] \in Int
        BY <3>4, CodesAreTyped, AccountsAssumption DEF Code
      <4>2. code[3] \in Int
        BY <3>1, AccountsAssumption
      <4> HIDE DEF old
      <4>3. IsSpent(n, old)
        BY <2>5, <3>0, <3>1, <3>2, <3>4, <4>1, <4>2 DEF IsSpent, old
      <4>4. old # code
        BY <3>0, <3>1, <3>4, <4>1, <4>2 DEF IsSpent, old
      <4> QED BY <4>3, <4>4 DEF old
    <3>5. code # NoCode
      BY <3>1, AccountsAssumption DEF NoCode
    <3>6. code[1] \in SecretsOf(u)
      BY <2>8, <3>2 DEF SecretsOf
    <3>7. ASSUME NEW x \in Requests PROVE request[x].code # code
      <4>1. CASE request[x].code = NoCode
        BY <3>5, <4>1
      <4>2. CASE request[x].code # NoCode /\ job[x].user = u
        BY <3>4, <4>2 DEF CodeInv, CodesAreSpent
      <4>3. CASE request[x].code # NoCode /\ job[x].user # u
        <5>1. Owner(request[x].code[1]) # u
          BY <4>3 DEF CodeInv, CodesAreSpent
        <5>2. Owner(code[1]) = u
          BY <1>1, <3>6 DEF CodeInv, SecretsAreOwn
        <5> QED BY <5>1, <5>2
      <4> QED BY <4>1, <4>2, <4>3
    <3>8. IsSpent(n, code)
      <4>1. code[3] \in Int
        BY <3>1, AccountsAssumption
      <4>2. code[1] # n.pending
        BY <2>5, <2>8, <3>2
      <4>3. code \in c.codes => code[2] = "recovery"
        BY <1>1 DEF IsWhole
      <4> QED BY <2>5, <3>1, <4>1, <4>2, <4>3 DEF IsSpent
    <3>9. used = code
      BY <2>8 DEF used
    <3>10. IsNewlySpent(r, u, n)
      BY <1>2, <2>3, <3>6, <3>7, <3>8, <3>9 DEF IsNewlySpent
    <3>11. \A x \in Requests : request'[x].code # NoCode =>
             \/ request'[x].code = request[x].code /\ request[x].at = "over"
             \/ x = r /\ IsNewlySpent(x, u, n)
      BY <1>2, <3>10 DEF CodeInv, CodesAreSpent
    <3>12. \A x \in Requests : request[x].at = "over" => request'[x].at = "over"
      BY <1>2
    <3>13. \A x \in {n.secret, n.pending} \ {NoSecret} : x \in SecretsOf(u)
      BY <2>5 DEF SecretsOf
    <3>14. \A x \in Requests : request[x].code # NoCode /\ IsSpent(credential[u], request[x].code)
             => IsSpent(n, request[x].code)
      BY <3>4
    <3>15. n \in Credential /\ job' = job
      BY <1>2, <2>5
    <3> QED BY <1>1, <2>6, <3>3, <3>11, <3>12, <3>13, <3>14, <3>15, OneAccountChanges
  <2> QED BY <2>7, <2>8
<1> QED BY <1>5, <1>6

LEMMA CodesInitially ==
  ASSUME Init
  PROVE  CodeInv
<1>1. PICK s \in Starts : credential = s.credential
  BY DEF Init
<1>2. /\ credential \in [Users -> Credential] /\ Users \cap Requests = {}
      /\ \A u \in Users : LET c == credential[u] IN
           /\ {c.secret, c.pending} \subseteq {NoSecret, u} /\ NoSecret \in {c.secret, c.pending}
           /\ \A code \in c.codes : code[1] = c.secret /\ code[2] = "recovery"
           /\ c.pending # NoSecret => c.pendingFor = c.hash.password
  <2>1. s.credential \in [Users -> Credential] /\ Users \cap Requests = {}
    BY AccountsAssumption
  <2>2. Answered(s)
    BY AccountsAssumption
  <2>3. \A u \in Users : LET c == s.credential[u] IN
           /\ {c.secret, c.pending} \subseteq {NoSecret, u} /\ NoSecret \in {c.secret, c.pending}
           /\ \A code \in c.codes : code[1] = c.secret /\ code[2] = "recovery"
           /\ c.pending # NoSecret => c.pendingFor = c.hash.password
    BY <2>2 DEF Answered
  <2> QED BY <1>1, <2>1, <2>3
<1>3. CredentialsAreWhole
  BY <1>2 DEF CredentialsAreWhole, IsWhole
<1>4. \A u \in Users : SecretsOf(u) \subseteq {u}
  BY <1>2 DEF SecretsOf
<1>5. SecretsAreOwn
  BY <1>4 DEF SecretsAreOwn, Owner
<1>6. \A x \in Requests : request[x].code = NoCode
  BY DEF Init, Fresh
<1>7. SecretsAreFresh
  BY <1>2, <1>4, <1>6, AccountsAssumption DEF SecretsAreFresh, NoCode, Secrets
<1> QED BY <1>3, <1>5, <1>6, <1>7 DEF CodeInv, CodesAreSpent, CodesWorkOnce

LEMMA CodesStep ==
  ASSUME AdminInv, AccountInv, CodeInv, [Next]_vars
  PROVE  CodeInv'
<1>1. Shape /\ AccountTyped
  BY DEF AdminInv, AccountInv
<1>2. ASSUME NEW r \in Requests, Serve(r) PROVE CodeInv'
  <2>1. CASE PasswordWrite(r) \/ EnrollWrite(r) \/ ConfirmWrite(r) \/ ResetMFA(r) \/ LoginMint(r)
    BY <1>1, <2>1, PasswordWriteSpends, EnrollWriteSpends, ConfirmWriteSpends, ResetSpends, LoginMintSpends
  <2>2. CASE /\ ~ (PasswordWrite(r) \/ EnrollWrite(r) \/ ConfirmWrite(r) \/ ResetMFA(r) \/ LoginMint(r))
             /\ credential' = credential
    BY <1>1, <1>2, <2>2, NobodyMints, CredentialsStay
  <2>3. CASE Authorize(r) \/ Logout(r) \/ LoginRead(r) \/ LoginBegin(r) \/ LoginCheck(r) \/ PasswordLock(r)
             \/ EnrollRead(r) \/ ConfirmLock(r)
    <3>1. credential' = credential
      BY <2>3 DEF Authorize, Logout, LoginRead, LoginBegin, LoginCheck, PasswordLock, EnrollRead, ConfirmLock
    <3> QED BY <2>1, <2>2, <3>1
  <2>4. CASE UpdateLock(r) \/ UpdateCheck(r) \/ UpdateWrite(r) \/ CreateUser(r) \/ SetEntityType(r)
    <3>1. credential' = credential
      BY <2>4 DEF UpdateLock, UpdateCheck, UpdateWrite, CreateUser, SetEntityType
    <3> QED BY <2>1, <2>2, <3>1
  <2> QED BY <1>2, <2>1, <2>3, <2>4 DEF Serve
<1>3. CASE Curating \/ (\E s \in sessions : GoIdle(s)) \/ BootUnchanged \/ BootClose \/ BootCrash \/ UNCHANGED vars
  <2>1. UNCHANGED <<request, job, credential>>
    BY <1>3 DEF Curating, GoIdle, BootUnchanged, BootClose, BootCrash, vars, accountVars
  <2>2. NothingMinted
    BY <2>1 DEF NothingMinted, CodeInv, CodesAreSpent
  <2> QED BY <1>1, <2>1, <2>2, CredentialsStay
<1> QED BY <1>1, <1>2, <1>3, PendingExpiresSpends, BootRestoreSpends DEF Next

(* No code, of the authenticator or of recovery, opens two sessions, and the  *)
(* codes an account has are those of its present secret: however logins,     *)
(* enrolments, resets and restorations overlap, a code that was used once is *)
(* of a secret that has gone, or is behind the counter (mfa.go:20-146).      *)
THEOREM SecondFactorHolds == Spec => []SecondFactorIsSound
<1>1. Init => AdminInv /\ AccountInv /\ CodeInv
  BY AdminInitially, AccountsInitially, CodesInitially
<1>2. AdminInv /\ AccountInv /\ CodeInv /\ [Next]_vars => AdminInv' /\ AccountInv' /\ CodeInv'
  BY AdminStep, AccountStep, CodesStep
<1>3. CodeInv => SecondFactorIsSound
  BY DEF CodeInv, CredentialsAreWhole, IsWhole, SecondFactorIsSound, SecondFactorIsWhole
<1> QED BY <1>1, <1>2, <1>3, PTL DEF Spec

-----------------------------------------------------------------------------
\* Sessions.  Who does not exist is not active and not signed in.
NobodyIsSignedIn ==
  /\ \A u \in Users : profile[u].role = "none" => ~Active(u)
  /\ \A s \in sessions : profile[s.user].role # "none"

\* What a restoration leaves behind is only its own account's.
SessionsFit == \A s \in sessions : Fits(s) \/ (s.user = Root /\ (boot = "restored" \/ interrupted))

SigningIn(r) == job[r].kind = "login" /\ request[r].at \in {"begun", "checked"}

\* No two sessions of a user, made or being made, began at the same time.
StartsAreApart ==
  /\ \A s \in sessions : s.made <= clock
  /\ \A s, t \in sessions : s.user = t.user /\ s.made = t.made => s = t
  /\ \A r \in Requests : SigningIn(r) =>
       /\ request[r].made \in 1 .. clock
       /\ \A s \in sessions : s.made # request[r].made
       /\ \A x \in Requests : x # r /\ SigningIn(x) => request[x].made # request[r].made

LoginsAreCurrent ==
  \A r \in Requests : job[r].kind = "login" /\ request[r].at = "checked" => Active(job[r].user)

SessionInv == /\ NobodyIsSignedIn
              /\ SessionsFit
              /\ StartsAreApart
              /\ LoginsAreCurrent
              /\ IsFiniteSet(sessions) /\ SessionsAreFew

\* The session r makes.
Made(r) == LET u == job[r].user IN
  [user |-> u, made |-> request[r].made, idle |-> FALSE,
   password |-> credential[u].hash.password, secret |-> credential[u].secret]

Mints(r) == LoginMint(r) /\ sessions' = (sessions \ Outlived(job[r].user, Made(r))) \cup {Made(r)}

\* A step ends sessions, lets one go idle, or makes one.
LEMMA SessionsMove ==
  ASSUME [Next]_vars
  PROVE  \/ sessions' \subseteq sessions
         \/ \E s \in sessions : GoIdle(s)
         \/ \E r \in Requests : Mints(r)
<1>1. ASSUME NEW r \in Requests, Serve(r) PROVE sessions' \subseteq sessions \/ Mints(r)
  <2>1. CASE LoginMint(r)
    BY <2>1 DEF LoginMint, Mints, Made
  <2>2. CASE Authorize(r) \/ Logout(r) \/ LoginRead(r) \/ LoginBegin(r) \/ LoginCheck(r)
    BY <2>2 DEF Authorize, Logout, LoginRead, LoginBegin, LoginCheck
  <2>3. CASE \/ PasswordLock(r) \/ PasswordWrite(r) \/ EnrollRead(r) \/ EnrollWrite(r) \/ ConfirmLock(r)
             \/ ConfirmWrite(r) \/ ResetMFA(r)
    BY <2>3 DEF PasswordLock, PasswordWrite, EnrollRead, EnrollWrite, ConfirmLock, ConfirmWrite, ResetMFA, WithoutSessions
  <2>4. CASE UpdateLock(r) \/ UpdateCheck(r) \/ UpdateWrite(r) \/ CreateUser(r) \/ SetEntityType(r)
    BY <2>4 DEF UpdateLock, UpdateCheck, UpdateWrite, CreateUser, SetEntityType, WithoutSessions
  <2> QED BY <1>1, <2>1, <2>2, <2>3, <2>4 DEF Serve
<1>2. CASE Curating \/ BootUnchanged \/ BootRestore \/ BootClose \/ BootCrash \/ UNCHANGED vars
           \/ \E u \in Users : PendingExpires(u)
  BY <1>2 DEF Curating, BootUnchanged, BootRestore, BootClose, BootCrash, PendingExpires, vars, accountVars, WithoutSessions
<1> QED BY <1>1, <1>2 DEF Next

\* A session of after a step was one before it, or is made.
LEMMA WhereSessionsAreFrom ==
  ASSUME AccountTyped, [Next]_vars, NEW s \in sessions'
  PROVE  \/ \E t \in sessions : t.user = s.user /\ t.made = s.made /\ t.password = s.password /\ t.secret = s.secret
         \/ \E r \in Requests : Mints(r) /\ s = Made(r)
<1>1. CASE \E t \in sessions : GoIdle(t)
  <2>1. PICK t \in sessions : GoIdle(t)
    BY <1>1
  <2>2. s \in sessions \/ s = [t EXCEPT !.idle = TRUE]
    BY <2>1 DEF GoIdle
  <2>3. t \in Session
    BY DEF AccountTyped
  <2> QED BY <2>2, <2>3 DEF Session
<1> QED BY <1>1, SessionsMove DEF Mints

\* What a step does to whether the user v exists and is active.
Remains(v) == profile'[v].role = profile[v].role /\ profile'[v].active = profile[v].active
IsEdited(v) ==
  /\ \E r \in Requests : job[r].kind = "update" /\ request[r].at = "checked" /\ job[r].user = v /\ UpdateWrite(r)
  /\ profile'[v].role # "none" /\ sessions' = WithoutSessions(v)
IsCreated(v) ==
  /\ \E r \in Requests : CreateUser(r)
  /\ profile[v].role = "none" /\ profile'[v].role # "none" /\ sessions' = sessions
IsRestored(v) == BootRestore /\ v = Root /\ profile'[v].role # "none"

LEMMA RolesMove ==
  ASSUME AdminInv, PeriodInv, [Next]_vars, NEW v \in Users
  PROVE  Remains(v) \/ IsEdited(v) \/ IsCreated(v) \/ IsRestored(v)
<1> USE DEF AdminInv
<1>1. profile \in [Users -> Profile] /\ \A u \in Users : profile[u] \in Profile
  BY DEF PeriodInv
<1>2. ASSUME profile' = profile PROVE Remains(v)
  BY <1>2 DEF Remains
<1>3. ASSUME NEW r \in Requests, UpdateWrite(r) PROVE Remains(v) \/ IsEdited(v)
  <2> DEFINE u == job[r].user
             wanted == Asked(r)
  <2>1. job[r].kind = "update" /\ request[r].at = "checked" /\ u \in Users
    BY <1>3, RowIsUser DEF UpdateWrite, Goes
  <2>2. wanted \in Profile /\ wanted.role # "none"
    BY <2>1, AskedIsProfile DEF EditIsAllowed, Shape
  <2>3. profile' = profile \/ (profile' = [profile EXCEPT ![u] = wanted] /\ sessions' = WithoutSessions(u))
    BY <1>3 DEF UpdateWrite
  <2> HIDE DEF wanted
  <2>4. CASE v = u
    BY <1>1, <1>2, <1>3, <2>1, <2>2, <2>3, <2>4 DEF IsEdited
  <2>5. CASE v # u
    BY <1>1, <1>2, <2>3, <2>5 DEF Remains
  <2> QED BY <2>4, <2>5
<1>4. ASSUME NEW r \in Requests, CreateUser(r) PROVE Remains(v) \/ IsCreated(v)
  <2> DEFINE u == job[r].user
             new == job[r].set
  <2>1. u \in Users /\ profile[u].role = "none" /\ sessions' = sessions
    BY <1>4, RowIsUser DEF CreateUser
  <2>2. new.role # "none"
    <3>1. job[r] \in Jobs /\ job[r].kind = "create"
      BY <1>4 DEF Shape, CreateUser
    <3>2. new \in Profile
      BY <3>1, JobsAssumption
    <3>3. PICK p \in Profile : p.role # "none" /\ \A f \in DOMAIN new : new[f] = p[f]
      BY <3>1, JobsAssumption
    <3> QED BY <3>2, <3>3 DEF Profile
  <2>3. profile' = profile \/ profile' = [profile EXCEPT ![u] = new]
    BY <1>4 DEF CreateUser
  <2>4. CASE v = u
    BY <1>1, <1>2, <1>4, <2>1, <2>2, <2>3, <2>4 DEF IsCreated
  <2>5. CASE v # u
    BY <1>1, <1>2, <2>3, <2>5 DEF Remains
  <2> QED BY <2>4, <2>5
<1>5. ASSUME NEW r \in Requests, SetEntityType(r) PROVE Remains(v)
  <2> DEFINE u == job[r].by
             new == [profile[u] EXCEPT !.entity = "organization", !.partner = NoPartner]
  <2>1. u \in Users /\ profile' = [profile EXCEPT ![u] = new]
    BY <1>5, RowIsUser DEF SetEntityType, WriteProfile
  <2>2. new.role = profile[u].role /\ new.active = profile[u].active
    BY <1>1, <2>1 DEF Profile
  <2> HIDE DEF new
  <2> QED BY <1>1, <2>1, <2>2 DEF Remains
<1>6. ASSUME NEW r \in Requests, Serve(r) PROVE Remains(v) \/ IsEdited(v) \/ IsCreated(v)
  <2>1. CASE Authorize(r) \/ Logout(r) \/ LoginRead(r) \/ LoginBegin(r) \/ LoginCheck(r) \/ LoginMint(r)
    BY <1>2, <2>1 DEF Authorize, Logout, LoginRead, LoginBegin, LoginCheck, LoginMint, curatorVars
  <2>2. CASE \/ PasswordLock(r) \/ PasswordWrite(r) \/ EnrollRead(r) \/ EnrollWrite(r) \/ ConfirmLock(r)
             \/ ConfirmWrite(r) \/ ResetMFA(r) \/ UpdateLock(r) \/ UpdateCheck(r)
    BY <1>2, <2>2
       DEF PasswordLock, PasswordWrite, EnrollRead, EnrollWrite, ConfirmLock, ConfirmWrite, ResetMFA,
           UpdateLock, UpdateCheck, curatorVars
  <2> QED BY <1>3, <1>4, <1>5, <1>6, <2>1, <2>2 DEF Serve
<1>7. CASE Curating
  BY <1>7, CuratorsLeaveRoles DEF Curating, Remains
<1>8. CASE BootRestore
  <2> DEFINE p == [profile[Root] EXCEPT !.role = "super_admin", !.entity = "organization", !.active = TRUE]
  <2>1. Root \in Users
    BY AccountsAssumption
  <2>2. p.role = "super_admin"
    BY <1>1, <2>1 DEF Profile
  <2>3. profile' = [profile EXCEPT ![Root] = p]
    BY <1>1, <1>8, <2>1 DEF BootRestore
  <2> HIDE DEF p
  <2> QED BY <1>1, <1>8, <2>1, <2>2, <2>3 DEF Remains, IsRestored
<1>9. CASE \/ (\E s \in sessions : GoIdle(s)) \/ (\E u \in Users : PendingExpires(u))
           \/ BootUnchanged \/ BootClose \/ BootCrash \/ UNCHANGED vars
  BY <1>2, <1>9 DEF GoIdle, PendingExpires, BootUnchanged, BootClose, BootCrash, vars, curatorVars
<1> QED BY <1>6, <1>7, <1>8, <1>9 DEF Next

\* What the sessions of v are compared with.
Answers(v) == /\ credential'[v].hash.password = credential[v].hash.password
              /\ credential'[v].secret = credential[v].secret
IsSignedOut(v) == \A s \in sessions' : s.user # v

LEMMA SignsOut ==
  ASSUME NEW u, sessions' = WithoutSessions(u)
  PROVE  IsSignedOut(u)
BY DEF IsSignedOut, WithoutSessions, SessionsOf

LEMMA CredentialsMove ==
  ASSUME AdminInv, AccountInv, [Next]_vars, NEW v \in Users
  PROVE  Answers(v) \/ IsSignedOut(v) \/ (BootRestore /\ v = Root)
<1> USE DEF AdminInv, AccountInv
<1>1. \A u \in Users : credential[u] \in Credential
  BY DEF AccountTyped
<1>2. ASSUME credential' = credential PROVE Answers(v)
  BY <1>2 DEF Answers
<1>3. ASSUME NEW u \in Users, NEW n, credential' = [credential EXCEPT ![u] = n],
             n.hash.password = credential[u].hash.password, n.secret = credential[u].secret
      PROVE  Answers(v)
  BY <1>3 DEF Answers, AccountTyped
<1>4. ASSUME NEW u \in Users, NEW n, credential' = [credential EXCEPT ![u] = n], sessions' = WithoutSessions(u)
      PROVE  Answers(v) \/ IsSignedOut(v)
  BY <1>4, SignsOut DEF Answers, AccountTyped
<1>5. ASSUME NEW r \in Requests, Serve(r) PROVE Answers(v) \/ IsSignedOut(v)
  <2>1. job[r].by \in Users /\ job[r].user \in Users
    BY RowIsUser
  <2>2. CASE PasswordWrite(r)
    <3> DEFINE u == job[r].by
    <3>1. credential' = [credential EXCEPT ![u].hash = [password |-> "new", cheap |-> FALSE],
                                           ![u].pending = NoSecret]
      BY <2>2 DEF PasswordWrite
    <3>2. \E n : credential' = [credential EXCEPT ![u] = n]
      <4>1. credential' = [credential EXCEPT ![u] = [credential[u] EXCEPT
                             !.hash = [password |-> "new", cheap |-> FALSE], !.pending = NoSecret]]
        BY <2>1, <3>1, Zenon DEF AccountTyped
      <4> QED BY <4>1
    <3> QED BY <1>4, <2>1, <2>2, <3>2 DEF PasswordWrite
  <2>3. CASE ConfirmWrite(r)
    <3>1. \E n : credential' = [credential EXCEPT ![job[r].by] = n]
      BY <2>3 DEF ConfirmWrite
    <3> QED BY <1>4, <2>1, <2>3, <3>1 DEF ConfirmWrite
  <2>4. CASE ResetMFA(r)
    <3>1. \E n : credential' = [credential EXCEPT ![job[r].user] = n]
      BY <2>4 DEF ResetMFA
    <3> QED BY <1>4, <2>1, <2>4, <3>1 DEF ResetMFA
  <2>5. CASE EnrollWrite(r)
    <3> DEFINE u == job[r].by
               n == [credential[u] EXCEPT !.pending = r, !.pendingFor = request[r].hash.password]
    <3>1. credential' = credential \/ credential' = [credential EXCEPT ![u] = n]
      BY <2>1, <2>5 DEF EnrollWrite, AccountTyped
    <3>2. n.hash = credential[u].hash /\ n.secret = credential[u].secret
      BY <1>1, <2>1 DEF Credential
    <3> HIDE DEF n
    <3>3. CASE credential' = [credential EXCEPT ![u] = n]
      BY <1>3, <2>1, <3>2, <3>3
    <3> QED BY <1>2, <3>1, <3>3
  <2>6. CASE LoginMint(r)
    <3> DEFINE u == job[r].user
               c == credential[u]
    <3>1. CASE credential' = credential
      BY <1>2, <3>1
    <3>2. CASE credential' # credential
      <4>1. PICK code \in Code \cup {NoCode} :
              \E m \in (IF c.secret = NoSecret THEN {c} ELSE SecondFactor(c, code)) :
                credential' = [credential EXCEPT ![u] = [m EXCEPT !.hash.cheap = FALSE]]
        BY <2>6, <3>2 DEF LoginMint
      <4>2. PICK m \in (IF c.secret = NoSecret THEN {c} ELSE SecondFactor(c, code)) :
                credential' = [credential EXCEPT ![u] = [m EXCEPT !.hash.cheap = FALSE]]
        BY <4>1
      <4> DEFINE n == [m EXCEPT !.hash.cheap = FALSE]
      <4>3. m \in Credential /\ m.secret = c.secret /\ m.hash = c.hash
        <5>1. c \in Credential /\ c.codes \subseteq Code
          BY <1>1, <2>1 DEF Credential
        <5> QED BY <4>2, <5>1, FactorTyped
      <4>4. n.hash.password = c.hash.password /\ n.secret = c.secret
        BY <4>3 DEF Credential, Hash
      <4>5. credential' = [credential EXCEPT ![u] = n]
        BY <4>2
      <4> HIDE DEF n
      <4> QED BY <1>3, <2>1, <4>4, <4>5
    <3> QED BY <3>1, <3>2
  <2>7. CASE \/ Authorize(r) \/ Logout(r) \/ LoginRead(r) \/ LoginBegin(r) \/ LoginCheck(r) \/ PasswordLock(r)
             \/ EnrollRead(r) \/ ConfirmLock(r) \/ UpdateLock(r) \/ UpdateCheck(r) \/ UpdateWrite(r)
             \/ CreateUser(r) \/ SetEntityType(r)
    BY <1>2, <2>7 DEF Authorize, Logout, LoginRead, LoginBegin, LoginCheck, PasswordLock, EnrollRead,
                      ConfirmLock, UpdateLock, UpdateCheck, UpdateWrite, CreateUser, SetEntityType
  <2> QED BY <1>5, <2>2, <2>3, <2>4, <2>5, <2>6, <2>7 DEF Serve
<1>6. ASSUME NEW u \in Users, PendingExpires(u) PROVE Answers(v)
  <2> DEFINE n == [credential[u] EXCEPT !.pending = NoSecret]
  <2>1. credential' = [credential EXCEPT ![u] = n]
    BY <1>6 DEF PendingExpires, AccountTyped
  <2>2. n.hash = credential[u].hash /\ n.secret = credential[u].secret
    BY <1>1 DEF Credential
  <2> HIDE DEF n
  <2> QED BY <1>3, <2>1, <2>2
<1>7. CASE BootRestore
  <2> DEFINE n == [credential[Root] EXCEPT !.hash = [password |-> "boot", cheap |-> FALSE]]
  <2>1. Root \in Users
    BY AccountsAssumption
  <2>2. credential' = [credential EXCEPT ![Root] = n]
    BY <1>7, <2>1 DEF BootRestore, AccountTyped
  <2> HIDE DEF n
  <2>3. v # Root => credential'[v] = credential[v]
    BY <2>2 DEF AccountTyped
  <2> QED BY <1>7, <2>3 DEF Answers
<1>8. CASE Curating \/ (\E s \in sessions : GoIdle(s)) \/ BootUnchanged \/ BootClose \/ BootCrash \/ UNCHANGED vars
  BY <1>2, <1>8 DEF Curating, GoIdle, BootUnchanged, BootClose, BootCrash, vars, accountVars
<1> QED BY <1>5, <1>6, <1>7, <1>8 DEF Next

\* A restoration comes to its end, or leaves the mark that it did not.
LEMMA BootMoves ==
  ASSUME Shape, AccountTyped, [Next]_vars
  PROVE  /\ interrupted => interrupted'
         /\ boot = "restored" => boot' = "restored" \/ interrupted' \/ BootClose
<1>1. ASSUME NEW r \in Requests, Serve(r) PROVE UNCHANGED <<boot, interrupted>>
  <2>1. CASE Authorize(r) \/ Logout(r) \/ LoginRead(r) \/ LoginBegin(r) \/ LoginCheck(r) \/ LoginMint(r)
    BY <2>1 DEF Authorize, Logout, LoginRead, LoginBegin, LoginCheck, LoginMint
  <2>2. CASE \/ PasswordLock(r) \/ PasswordWrite(r) \/ EnrollRead(r) \/ EnrollWrite(r) \/ ConfirmLock(r)
             \/ ConfirmWrite(r) \/ ResetMFA(r)
    BY <2>2 DEF PasswordLock, PasswordWrite, EnrollRead, EnrollWrite, ConfirmLock, ConfirmWrite, ResetMFA
  <2>3. CASE UpdateLock(r) \/ UpdateCheck(r) \/ UpdateWrite(r) \/ CreateUser(r) \/ SetEntityType(r)
    BY <2>3 DEF UpdateLock, UpdateCheck, UpdateWrite, CreateUser, SetEntityType
  <2> QED BY <1>1, <2>1, <2>2, <2>3 DEF Serve
<1>2. CASE BootUnchanged \/ BootRestore \/ BootClose \/ BootCrash
  BY <1>2 DEF BootUnchanged, BootRestore, BootClose, BootCrash
<1>3. CASE Curating \/ (\E s \in sessions : GoIdle(s)) \/ (\E u \in Users : PendingExpires(u)) \/ UNCHANGED vars
  BY <1>3 DEF Curating, GoIdle, PendingExpires, vars, accountVars
<1> QED BY <1>1, <1>2, <1>3 DEF Next

\* Who is minted a session was active, and is.
LEMMA WhoMints ==
  ASSUME AdminInv, PeriodInv, AccountInv, SessionInv, [Next]_vars, NEW r \in Requests, Mints(r)
  PROVE  /\ job[r].user \in Users /\ Active(job[r].user) /\ profile[job[r].user].role # "none"
         /\ profile'[job[r].user].active /\ profile'[job[r].user].role # "none"
         /\ Made(r).user = job[r].user /\ Made(r).made = request[r].made
         /\ Answers(job[r].user)
<1> DEFINE u == job[r].user
<1>1. u \in Users /\ Shape
  BY RowIsUser DEF AdminInv
<1>2. boot = "up" /\ job[r].kind = "login" /\ request[r].at = "checked"
  BY DEF Mints, LoginMint, Goes
<1>3. Active(u) /\ profile[u].role # "none"
  BY <1>1, <1>2 DEF SessionInv, LoginsAreCurrent, NobodyIsSignedIn
<1>4. Made(r).user = u /\ Made(r).made = request[r].made /\ Made(r) \in sessions'
  BY DEF Made, Mints
<1>5. ~ IsSignedOut(u)
  BY <1>4 DEF IsSignedOut
<1>6. ~ BootRestore
  BY <1>2 DEF BootRestore
<1>7. Remains(u)
  BY <1>1, <1>3, <1>5, <1>6, RolesMove, SignsOut DEF IsEdited, IsCreated, IsRestored
<1>8. Answers(u)
  BY <1>1, <1>5, <1>6, CredentialsMove
<1> QED BY <1>1, <1>3, <1>4, <1>7, <1>8 DEF Remains, Active

LEMMA SignedInStep ==
  ASSUME AdminInv, PeriodInv, AccountInv, SessionInv, [Next]_vars
  PROVE  NobodyIsSignedIn'
<1>1. \A v \in Users : Remains(v) \/ IsEdited(v) \/ IsCreated(v) \/ IsRestored(v)
  BY RolesMove
<1>2. \A v \in Users : profile[v].role # "none" => profile'[v].role # "none"
  BY <1>1 DEF Remains, IsEdited, IsCreated, IsRestored
<1>3. \A v \in Users : profile'[v].role = "none" => ~profile'[v].active
  BY <1>1 DEF SessionInv, NobodyIsSignedIn, Active, Remains, IsEdited, IsCreated, IsRestored
<1>4. ASSUME NEW s \in sessions' PROVE profile'[s.user].role # "none"
  <2>1. CASE \E t \in sessions : t.user = s.user
    <3>1. s.user \in Users /\ profile[s.user].role # "none"
      BY <2>1 DEF AccountInv, AccountTyped, Session, SessionInv, NobodyIsSignedIn
    <3> QED BY <1>2, <3>1
  <2>2. CASE \E r \in Requests : Mints(r) /\ s = Made(r)
    BY <2>2, WhoMints
  <2> QED BY <2>1, <2>2, WhereSessionsAreFrom DEF AccountInv
<1> QED BY <1>3, <1>4 DEF NobodyIsSignedIn, Active

LEMMA FitStep ==
  ASSUME AdminInv, PeriodInv, AccountInv, SessionInv, [Next]_vars
  PROVE  SessionsFit'
<1> SUFFICES ASSUME NEW s \in sessions'
             PROVE  Fits(s)' \/ (s.user = Root /\ (boot' = "restored" \/ interrupted'))
  BY DEF SessionsFit
<1> DEFINE v == s.user
<1>1. ~ IsSignedOut(v)
  BY DEF IsSignedOut
<1>2. CASE \E r \in Requests : Mints(r) /\ s = Made(r)
  <2>1. PICK r \in Requests : Mints(r) /\ s = Made(r)
    BY <1>2
  <2>2. v = job[r].user /\ profile'[v].active /\ Answers(v)
    BY <2>1, WhoMints
  <2>3. s.password = credential[v].hash.password /\ s.secret = credential[v].secret
    BY <2>1 DEF Made
  <2> QED BY <2>2, <2>3 DEF Fits, Active, Answers
<1>3. CASE \E t \in sessions : t.user = s.user /\ t.made = s.made /\ t.password = s.password /\ t.secret = s.secret
  <2>1. PICK t \in sessions : t.user = v /\ t.password = s.password /\ t.secret = s.secret
    BY <1>3
  <2>2. v \in Users /\ profile[v].role # "none"
    BY <2>1 DEF AccountInv, AccountTyped, Session, SessionInv, NobodyIsSignedIn
  <2>3. CASE BootRestore /\ v = Root
    BY <2>2, <2>3 DEF BootRestore
  <2>4. CASE ~(BootRestore /\ v = Root) /\ Fits(t)
    <3>1. Remains(v)
      BY <1>1, <2>2, <2>4, RolesMove, SignsOut DEF IsEdited, IsCreated, IsRestored
    <3>2. Answers(v)
      BY <1>1, <2>2, <2>4, CredentialsMove
    <3> QED BY <2>1, <2>4, <3>1, <3>2 DEF Fits, Active, Remains, Answers
  <2>5. CASE v = Root /\ (boot = "restored" \/ interrupted)
    <3>1. ~ BootClose
      BY <1>1, <2>5, SignsOut DEF BootClose
    <3> QED BY <2>5, <3>1, BootMoves DEF AdminInv, AccountInv
  <2> QED BY <2>1, <2>3, <2>4, <2>5 DEF SessionInv, SessionsFit
<1> QED BY <1>2, <1>3, WhereSessionsAreFrom DEF AccountInv

\* Who is being signed in goes on, has just begun, or his row is held by another.
LEMMA LoginsStep ==
  ASSUME AdminInv, PeriodInv, AccountInv, SessionInv, [Next]_vars
  PROVE  LoginsAreCurrent'
<1>1. ASSUME NEW r \in Requests, job'[r].kind = "login", request'[r].at = "checked"
      PROVE  profile'[job'[r].user].active
  <2> DEFINE v == job[r].user
  <2>1. Shape /\ AccountTyped /\ v \in Users
    BY RowIsUser DEF AdminInv, AccountInv
  <2>2. CASE LoginCheck(r)
    <3>1. ~ Finish(r)
      BY <1>1, <2>1, FinishIs
    <3> QED BY <2>2, <3>1 DEF LoginCheck, Active, curatorVars
  <2>3. CASE ~LoginCheck(r)
    <3>1. job' = job /\ request[r].at = "checked"
      <4>1. ASSUME NEW x \in Requests, Serve(x) PROVE job' = job /\ request[r].at = "checked"
        <5>1. job' = job /\ (r # x => request'[r] = request[r]) /\ (request'[x].at = "checked" => LocksARow(x))
          BY <2>1, <4>1, RequestMoves
        <5>2. CASE r # x
          BY <1>1, <5>1, <5>2
        <5>3. CASE r = x
          <6>1. PasswordLock(r) \/ ConfirmLock(r) \/ UpdateCheck(r)
            BY <1>1, <2>3, <5>1, <5>3 DEF LocksARow
          <6> QED BY <1>1, <5>1, <6>1 DEF PasswordLock, ConfirmLock, UpdateCheck
        <5> QED BY <5>2, <5>3
      <4>2. CASE \/ Curating \/ (\E s \in sessions : GoIdle(s)) \/ (\E u \in Users : PendingExpires(u))
                 \/ BootUnchanged \/ BootRestore \/ BootClose \/ BootCrash \/ UNCHANGED vars
        BY <1>1, <4>2 DEF Curating, GoIdle, PendingExpires, BootUnchanged, BootRestore, BootClose, BootCrash, vars, accountVars
      <4> QED BY <4>1, <4>2 DEF Next
    <3>2. Active(v) /\ profile[v].role # "none" /\ rowLock[v] = r
      BY <1>1, <2>1, <3>1 DEF SessionInv, LoginsAreCurrent, NobodyIsSignedIn, AdminInv, HoldsItsRow, Row
    <3>3. ~ BootRestore
      BY <3>1 DEF BootRestore, AdminInv, NobodyIsServedYet
    <3>4. ~ IsEdited(v)
      <4>1. ASSUME NEW x \in Requests, job[x].kind = "update", request[x].at = "checked", job[x].user = v PROVE FALSE
        BY <1>1, <3>1, <3>2, <4>1 DEF AdminInv, HoldsItsRow, Row
      <4> QED BY <4>1 DEF IsEdited
    <3>5. Remains(v)
      BY <2>1, <3>2, <3>3, <3>4, RolesMove DEF IsCreated, IsRestored
    <3> QED BY <3>1, <3>2, <3>5 DEF Remains, Active
  <2> QED BY <2>2, <2>3
<1> QED BY <1>1 DEF LoginsAreCurrent, Active

\* When sessions begin.
LEMMA MintIsOver ==
  ASSUME Shape, AccountTyped, NEW r \in Requests, LoginMint(r)
  PROVE  request'[r].at = "over"
<1>1. Finish(r) \/ \E code : request' = [request EXCEPT ![r] = [Fresh EXCEPT !.at = "over", !.code = code]]
  BY DEF LoginMint
<1>2. \A code : [Fresh EXCEPT !.at = "over", !.code = code].at = "over"
  BY DEF Fresh
<1>3. ASSUME NEW n, request' = [request EXCEPT ![r] = n] PROVE request'[r] = n
  BY <1>3 DEF AccountTyped
<1>4. ASSUME NEW code, request' = [request EXCEPT ![r] = [Fresh EXCEPT !.at = "over", !.code = code]]
      PROVE  request'[r].at = "over"
  <2>1. request'[r] = [Fresh EXCEPT !.at = "over", !.code = code]
    BY <1>3, <1>4
  <2> QED BY <1>2, <2>1
<1>5. CASE Finish(r)
  BY <1>5, FinishIs
<1> QED BY <1>1, <1>4, <1>5

LEMMA SigningMoves ==
  ASSUME Shape, AccountTyped, [Next]_vars
  PROVE  /\ job' = job
         /\ \/ \E r \in Requests : LoginBegin(r)
            \/ clock' = clock /\ \A x \in Requests : SigningIn(x)' => SigningIn(x) /\ request'[x].made = request[x].made
<1>1. ASSUME NEW r \in Requests, Serve(r), ~LoginBegin(r)
      PROVE  clock' = clock /\ (SigningIn(r)' => SigningIn(r) /\ request'[r].made = request[r].made)
  <2>0. job' = job /\ (request'[r].at = "checked" => LocksARow(r))
    BY <1>1, RequestMoves
  <2>1. ASSUME Finish(r) PROVE ~SigningIn(r)'
    BY <2>1, FinishIs DEF SigningIn
  <2>2. CASE LoginCheck(r)
    <3>1. CASE request' = [request EXCEPT ![r].at = "checked"]
      <4>1. request'[r].made = request[r].made
        BY <3>1 DEF AccountTyped, Request
      <4> QED BY <2>0, <2>2, <4>1 DEF LoginCheck, SigningIn, Goes
    <3> QED BY <2>1, <2>2, <3>1 DEF LoginCheck
  <2>3. CASE LoginRead(r)
    <3>1. \E h, s : request' = [request EXCEPT ![r] = [Fresh EXCEPT !.at = "read", !.hash = h, !.secret = s]]
          \/ request' = [request EXCEPT ![r] = [Fresh EXCEPT !.at = "over"]]
      BY <2>3 DEF LoginRead
    <3>2. \A h, s : [Fresh EXCEPT !.at = "read", !.hash = h, !.secret = s].at = "read" /\ [Fresh EXCEPT !.at = "over"].at = "over"
      BY DEF Fresh
    <3>3. request'[r].at \in {"read", "over"}
      <4>1. ASSUME NEW n, request' = [request EXCEPT ![r] = n], n.at \in {"read", "over"}
            PROVE  request'[r].at \in {"read", "over"}
        BY <4>1 DEF AccountTyped
      <4>2. ASSUME NEW h, NEW s,
                   request' = [request EXCEPT ![r] = [Fresh EXCEPT !.at = "read", !.hash = h, !.secret = s]]
            PROVE  request'[r].at \in {"read", "over"}
        BY <3>2, <4>1, <4>2
      <4> QED BY <3>1, <3>2, <4>1, <4>2
    <3> QED BY <2>3, <3>3 DEF LoginRead, SigningIn
  <2>4. CASE LoginMint(r)
    BY <2>4, MintIsOver DEF LoginMint, SigningIn
  <2>5. CASE Authorize(r) \/ Logout(r) \/ PasswordLock(r) \/ PasswordWrite(r) \/ EnrollRead(r) \/ EnrollWrite(r)
    BY <2>0, <2>1, <2>5 DEF Authorize, Logout, PasswordLock, PasswordWrite, EnrollRead, EnrollWrite, SigningIn
  <2>6. CASE ConfirmLock(r) \/ ConfirmWrite(r) \/ ResetMFA(r)
    BY <2>0, <2>1, <2>6 DEF ConfirmLock, ConfirmWrite, ResetMFA, SigningIn
  <2>7. CASE UpdateLock(r) \/ UpdateCheck(r) \/ UpdateWrite(r) \/ CreateUser(r) \/ SetEntityType(r)
    BY <2>0, <2>1, <2>7 DEF UpdateLock, UpdateCheck, UpdateWrite, CreateUser, SetEntityType, SigningIn
  <2> QED BY <1>1, <2>2, <2>3, <2>4, <2>5, <2>6, <2>7 DEF Serve
<1>2. ASSUME NEW r \in Requests, Serve(r), ~LoginBegin(r)
      PROVE  \A x \in Requests : SigningIn(x)' => SigningIn(x) /\ request'[x].made = request[x].made
  <2>1. job' = job /\ \A x \in Requests : x # r => request'[x] = request[x]
    BY <1>2, RequestMoves
  <2> QED BY <1>1, <1>2, <2>1 DEF SigningIn
<1>3. CASE \/ Curating \/ (\E s \in sessions : GoIdle(s)) \/ (\E u \in Users : PendingExpires(u))
           \/ BootUnchanged \/ BootRestore \/ BootClose \/ BootCrash \/ UNCHANGED vars
  <2>1. UNCHANGED <<job, request, clock>>
    BY <1>3 DEF Curating, GoIdle, PendingExpires, BootUnchanged, BootRestore, BootClose, BootCrash, vars, accountVars
  <2> QED BY <2>1 DEF SigningIn
<1>4. ASSUME NEW r \in Requests, Serve(r) PROVE job' = job
  BY <1>4, RequestMoves
<1> QED BY <1>1, <1>2, <1>3, <1>4 DEF Next

LEMMA StartsStep ==
  ASSUME AdminInv, AccountInv, StartsAreApart, [Next]_vars
  PROVE  StartsAreApart'
<1>1. Shape /\ AccountTyped /\ clock \in Nat /\ sessions \subseteq Session
  BY DEF AdminInv, AccountInv, AccountTyped
<1>2. \A s \in sessions : s.made \in Int /\ s.user \in Users
  BY <1>1 DEF Session
<1>3. CASE \E r \in Requests : LoginBegin(r)
  <2>1. PICK r \in Requests : LoginBegin(r)
    BY <1>3
  <2>2. /\ sessions' = sessions /\ clock' = clock + 1 /\ job' = job /\ request'[r].made = clock + 1
        /\ \A x \in Requests : x # r => request'[x] = request[x]
    <3>1. request' = [request EXCEPT ![r].at = "begun", ![r].made = clock + 1]
      BY <2>1 DEF LoginBegin
    <3>2. /\ request'[r].made = clock + 1
          /\ \A x \in Requests : x # r => request'[x] = request[x]
      BY <1>1, <3>1 DEF AccountTyped, Request
    <3> QED BY <2>1, <3>2 DEF LoginBegin
  <2>3. \A s \in sessions : s.made <= clock /\ s.made # clock + 1
    BY <1>1, <1>2 DEF StartsAreApart
  <2>4. \A x \in Requests : x # r /\ SigningIn(x)' => SigningIn(x) /\ request'[x].made = request[x].made
    BY <2>2 DEF SigningIn
  <2>5. ASSUME NEW x \in Requests, SigningIn(x)'
        PROVE  /\ request'[x].made \in 1 .. clock'
               /\ \A s \in sessions' : s.made # request'[x].made
               /\ \A y \in Requests : y # x /\ SigningIn(y)' => request'[y].made # request'[x].made
    <3>1. CASE x = r
      <4>1. \A y \in Requests : y # x /\ SigningIn(y)' => request[y].made \in 1 .. clock /\ request'[y].made = request[y].made
        BY <2>4, <3>1 DEF StartsAreApart
      <4> QED BY <1>1, <2>2, <2>3, <3>1, <4>1
    <3>2. CASE x # r
      <4>1. request[x].made \in 1 .. clock /\ request'[x].made = request[x].made
        BY <2>4, <2>5, <3>2 DEF StartsAreApart
      <4>2. \A s \in sessions : s.made # request[x].made
        BY <2>4, <2>5, <3>2 DEF StartsAreApart
      <4>3. \A y \in Requests : y # x /\ y # r /\ SigningIn(y)' => request'[y].made # request'[x].made
        BY <2>4, <2>5, <3>2 DEF StartsAreApart
      <4> QED BY <1>1, <2>2, <3>2, <4>1, <4>2, <4>3
    <3> QED BY <3>1, <3>2
  <2>6. \A s \in sessions' : s.made <= clock'
    BY <1>1, <1>2, <2>2, <2>3
  <2> QED BY <2>2, <2>5, <2>6 DEF StartsAreApart
<1>4. CASE clock' = clock /\ \A x \in Requests : SigningIn(x)' => SigningIn(x) /\ request'[x].made = request[x].made
  <2>1. \A x \in Requests : SigningIn(x)' =>
          /\ request'[x].made \in 1 .. clock'
          /\ \A s \in sessions : s.made # request'[x].made
          /\ \A y \in Requests : y # x /\ SigningIn(y)' => request'[y].made # request'[x].made
    BY <1>4 DEF StartsAreApart
  <2>2. ASSUME \A s \in sessions' : \E t \in sessions : t.user = s.user /\ t.made = s.made
        PROVE  \A x \in Requests : SigningIn(x)' => \A s \in sessions' : s.made # request'[x].made
    BY <2>1, <2>2
  <2>3. CASE sessions' \subseteq sessions
    <3>1. \A s \in sessions' : s.made <= clock'
      BY <1>4, <2>3 DEF StartsAreApart
    <3>2. \A s, t \in sessions' : s.user = t.user /\ s.made = t.made => s = t
      BY <2>3 DEF StartsAreApart
    <3> QED BY <2>1, <2>3, <3>1, <3>2 DEF StartsAreApart
  <2>4. CASE \E s \in sessions : GoIdle(s)
    <3>1. PICK s \in sessions : GoIdle(s)
      BY <2>4
    <3> DEFINE k == [s EXCEPT !.idle = TRUE]
    <3>2. sessions' = (sessions \ {s}) \cup {k} /\ k.user = s.user /\ k.made = s.made
      BY <1>1, <3>1 DEF GoIdle, Session
    <3> HIDE DEF k
    <3>3. \A x \in sessions' : x.made <= clock'
      BY <1>4, <3>2 DEF StartsAreApart
    <3>4. \A x, y \in sessions' : x.user = y.user /\ x.made = y.made => x = y
      BY <3>2 DEF StartsAreApart
    <3>5. \A x \in sessions' : \E t \in sessions : t.user = x.user /\ t.made = x.made
      BY <3>2
    <3> QED BY <2>1, <2>2, <3>3, <3>4, <3>5 DEF StartsAreApart
  <2>5. CASE \E r \in Requests : Mints(r)
    <3>1. PICK r \in Requests : Mints(r)
      BY <2>5
    <3> DEFINE k == Made(r)
    <3>2. k.made = request[r].made /\ sessions' \subseteq sessions \cup {k}
      BY <3>1 DEF Mints, Made
    <3>3. SigningIn(r) /\ request'[r].at = "over" /\ \A x \in Requests : x # r => request'[x] = request[x]
      <4>1. SigningIn(r) /\ Serve(r)
        BY <3>1 DEF Mints, LoginMint, SigningIn, Goes, Serve
      <4>2. request'[r].at = "over"
        BY <1>1, <3>1, MintIsOver DEF Mints
      <4> QED BY <1>1, <4>1, <4>2, RequestMoves
    <3>4. /\ request[r].made \in 1 .. clock /\ \A s \in sessions : s.made # request[r].made
          /\ \A x \in Requests : x # r /\ SigningIn(x) => request[x].made # request[r].made
      BY <3>3 DEF StartsAreApart
    <3> HIDE DEF k
    <3>5. \A x \in Requests : SigningIn(x)' => x # r /\ request'[x].made # k.made
      BY <1>4, <3>2, <3>3, <3>4 DEF SigningIn
    <3>6. k.made <= clock
      BY <1>1, <3>2, <3>4
    <3>7. \A x \in sessions' : x.made <= clock'
      BY <1>4, <3>2, <3>6 DEF StartsAreApart
    <3>8. \A x, y \in sessions' : x.user = y.user /\ x.made = y.made => x = y
      BY <3>2, <3>4 DEF StartsAreApart
    <3>9. \A x \in Requests : SigningIn(x)' => \A s \in sessions' : s.made # request'[x].made
      BY <2>1, <3>2, <3>5
    <3> QED BY <2>1, <3>7, <3>8, <3>9 DEF StartsAreApart
  <2> QED BY <2>3, <2>4, <2>5, SessionsMove
<1> QED BY <1>1, <1>3, <1>4, SigningMoves

\* Of sessions apart in time, those with fewer than K later ones are no more than K.
LEMMA TheLatestAreFew ==
  ASSUME NEW S, IsFiniteSet(S), \A x \in S : x.made \in Int,
         \A x, y \in S : x.made = y.made => x = y,
         NEW K \in Nat, NEW T \in SUBSET S,
         \A o \in T : Cardinality({x \in S : x.made > o.made}) < K
  PROVE  IsFiniteSet(T) /\ Cardinality(T) <= K
<1> DEFINE Later(o) == {x \in S : x.made > o.made}
           rank == [o \in T |-> Cardinality(Later(o))]
           Ranks == 0 .. K - 1
<1>1. IsFiniteSet(T) /\ Cardinality(T) \in Nat
  BY FS_Subset, FS_CardinalityType
<1>2. \A o \in T : IsFiniteSet(Later(o)) /\ Cardinality(Later(o)) \in Nat
  BY FS_Subset, FS_CardinalityType
<1>3. IsFiniteSet(Ranks) /\ Cardinality(Ranks) = K
  <2>1. 0 \in Int /\ K - 1 \in Int
    OBVIOUS
  <2>2. IsFiniteSet(Ranks) /\ Cardinality(Ranks) = IF 0 > K - 1 THEN 0 ELSE (K - 1) - 0 + 1
    BY <2>1, FS_Interval
  <2> QED BY <2>2
<1>4. ASSUME NEW o \in T, NEW p \in T, o.made < p.made
      PROVE  rank[o] # rank[p]
  <2>1. Later(p) \subseteq Later(o) /\ p \in Later(o) /\ p \notin Later(p)
    BY <1>4
  <2>2. Cardinality(Later(p)) # Cardinality(Later(o))
    BY <1>2, <2>1, FS_Subset
  <2> QED BY <2>2
<1>5. rank \in [T -> Ranks]
  <2>1. \A o \in T : Cardinality(Later(o)) \in 0 .. K - 1
    BY <1>2
  <2> QED BY <2>1
<1>6. \A o, p \in T : o # p => rank[o] # rank[p]
  BY <1>4
<1> HIDE DEF rank, Ranks
<1>7. ~ Cardinality(Ranks) < Cardinality(T)
  BY <1>1, <1>3, <1>5, <1>6, FS_PigeonHole
<1> QED BY <1>1, <1>3, <1>7

LEMMA FewStep ==
  ASSUME AdminInv, AccountInv, SessionInv, [Next]_vars
  PROVE  IsFiniteSet(sessions') /\ SessionsAreFew'
<1>1. Shape /\ sessions \subseteq Session /\ IsFiniteSet(sessions)
  BY DEF AdminInv, AccountInv, AccountTyped, SessionInv
<1>2. \A s \in sessions : s.made \in Int /\ s.user \in Users
  BY <1>1 DEF Session
<1>3. \A u \in Users : /\ IsFiniteSet(SessionsOf(u)) /\ Cardinality(SessionsOf(u)) \in Nat
                       /\ Cardinality(SessionsOf(u)) <= Kept + 1
  BY <1>1, FS_Subset, FS_CardinalityType DEF SessionsOf, SessionInv, SessionsAreFew
<1>4. Kept \in Nat
  BY AccountsAssumption
<1>5. CASE sessions' \subseteq sessions
  <2>1. IsFiniteSet(sessions')
    BY <1>1, <1>5, FS_Subset
  <2>2. ASSUME NEW u \in Users PROVE Cardinality(SessionsOf(u)') <= Kept + 1
    <3>1. SessionsOf(u)' \subseteq SessionsOf(u)
      BY <1>5 DEF SessionsOf
    <3>2. Cardinality(SessionsOf(u)') <= Cardinality(SessionsOf(u)) /\ Cardinality(SessionsOf(u)') \in Nat
      BY <1>3, <3>1, FS_Subset, FS_CardinalityType
    <3> QED BY <1>3, <1>4, <3>2
  <2> QED BY <2>1, <2>2 DEF SessionsAreFew
<1>6. CASE \E s \in sessions : GoIdle(s)
  <2>1. PICK s \in sessions : GoIdle(s)
    BY <1>6
  <2> DEFINE k == [s EXCEPT !.idle = TRUE]
  <2>2. sessions' = (sessions \ {s}) \cup {k} /\ k.user = s.user
    BY <1>1, <2>1 DEF GoIdle, Session
  <2> HIDE DEF k
  <2>3. IsFiniteSet(sessions')
    BY <1>1, <2>2, FS_RemoveElement, FS_AddElement
  <2>4. ASSUME NEW u \in Users PROVE Cardinality(SessionsOf(u)') <= Kept + 1
    <3>1. CASE s.user = u
      <4>1. SessionsOf(u)' = (SessionsOf(u) \ {s}) \cup {k} /\ s \in SessionsOf(u)
        BY <2>2, <3>1 DEF SessionsOf
      <4>2. IsFiniteSet(SessionsOf(u) \ {s}) /\ Cardinality(SessionsOf(u) \ {s}) = Cardinality(SessionsOf(u)) - 1
        BY <1>3, <4>1, FS_RemoveElement
      <4>3. /\ Cardinality(SessionsOf(u)') <= Cardinality(SessionsOf(u) \ {s}) + 1
            /\ Cardinality(SessionsOf(u)') \in Nat
        <5>1. Cardinality((SessionsOf(u) \ {s}) \cup {k}) =
                IF k \in SessionsOf(u) \ {s} THEN Cardinality(SessionsOf(u) \ {s}) ELSE Cardinality(SessionsOf(u) \ {s}) + 1
          BY <4>2, FS_AddElement
        <5>2. Cardinality(SessionsOf(u) \ {s}) \in Nat
          BY <4>2, FS_CardinalityType
        <5> HIDE DEF k
        <5> QED BY <4>1, <5>1, <5>2
      <4> QED BY <1>3, <1>4, <4>2, <4>3
    <3>2. CASE s.user # u
      <4>1. SessionsOf(u)' = SessionsOf(u)
        BY <2>2, <3>2 DEF SessionsOf
      <4> QED BY <1>3, <4>1
    <3> QED BY <3>1, <3>2
  <2> QED BY <2>3, <2>4 DEF SessionsAreFew
<1>7. CASE \E r \in Requests : Mints(r)
  <2>1. PICK r \in Requests : Mints(r)
    BY <1>7
  <2>0. PICK v \in Users : v = job[r].user
    BY <1>1, RowIsUser
  <2> DEFINE k == Made(r)
             left == {o \in SessionsOf(v) : ~(o.idle \/ Cardinality({x \in SessionsOf(v) : x.made > o.made}) >= Kept)}
  <2>2. k.user = v
    BY <2>0 DEF Made
  <2>3. /\ sessions' \subseteq sessions \cup {k}
        /\ SessionsOf(v)' = left \cup {k}
        /\ \A u : u # v => SessionsOf(u)' = SessionsOf(u)
    <3>1. sessions' = (sessions \ Outlived(v, k)) \cup {k}
      BY <2>1, <2>0 DEF Mints
    <3>2. \A o : o \in Outlived(v, k) <=> o \in SessionsOf(v) /\ o \notin left
      BY DEF Outlived
    <3> HIDE DEF k, left
    <3>3. \A o : o \in left => o \in SessionsOf(v)
      BY DEF left
    <3>4. \A o : o \in SessionsOf(v) <=> o \in sessions /\ o.user = v
      BY DEF SessionsOf
    <3>5. SessionsOf(v)' = {o \in sessions' : o.user = v}
      BY DEF SessionsOf
    <3>6. SessionsOf(v)' = left \cup {k}
      BY <2>2, <3>1, <3>2, <3>3, <3>4, <3>5
    <3>7. \A u : u # v => {o \in sessions' : o.user = u} = {o \in sessions : o.user = u}
      BY <2>2, <3>1, <3>2, <3>4
    <3> QED BY <3>1, <3>6, <3>7 DEF SessionsOf
  <2>4. IsFiniteSet(sessions')
    <3>1. IsFiniteSet(sessions \cup {k})
      BY <1>1, FS_AddElement
    <3> QED BY <2>3, <3>1, FS_Subset
  <2>5. Cardinality(SessionsOf(v)') <= Kept + 1
    <3>1. \A x, y \in SessionsOf(v) : x.made = y.made => x = y
      BY DEF SessionsOf, SessionInv, StartsAreApart
    <3>2. \A x \in SessionsOf(v) : x.made \in Int
      BY <1>2 DEF SessionsOf
    <3>3. left \in SUBSET SessionsOf(v)
      OBVIOUS
    <3>4. ASSUME NEW o \in left PROVE Cardinality({x \in SessionsOf(v) : x.made > o.made}) < Kept
      <4>1. Cardinality({x \in SessionsOf(v) : x.made > o.made}) \in Nat
        BY <1>3, <2>2, FS_Subset, FS_CardinalityType
      <4> QED BY <1>4, <4>1
    <3> HIDE DEF left, k
    <3>5. IsFiniteSet(left) /\ Cardinality(left) <= Kept
      BY <1>3, <1>4, <2>2, <3>1, <3>2, <3>3, <3>4, TheLatestAreFew
    <3>6. Cardinality(left) \in Nat
      BY <3>5, FS_CardinalityType
    <3>7. Cardinality(left \cup {k}) = IF k \in left THEN Cardinality(left) ELSE Cardinality(left) + 1
      BY <3>5, FS_AddElement
    <3> QED BY <1>4, <2>3, <3>5, <3>6, <3>7
  <2>6. ASSUME NEW u \in Users PROVE Cardinality(SessionsOf(u)') <= Kept + 1
    <3>1. CASE u = v
      BY <2>5, <3>1
    <3>2. CASE u # v
      <4> HIDE DEF left, k
      <4>1. SessionsOf(u)' = SessionsOf(u)
        BY <2>3, <3>2
      <4> QED BY <1>3, <4>1
    <3> QED BY <3>1, <3>2
  <2> QED BY <2>4, <2>6 DEF SessionsAreFew
<1> QED BY <1>5, <1>6, <1>7, SessionsMove

LEMMA SessionsInitially ==
  ASSUME Init
  PROVE  SessionInv
<1>1. PICK s \in Starts : profile = s.profile /\ credential = s.credential /\ sessions = s.sessions
  BY DEF Init, CuratorsInit
<1>2. s.profile \in [Users -> Profile] /\ s.sessions \subseteq Session /\ Answered(s)
  BY AccountsAssumption
<1>3. /\ \A u \in Users : /\ profile[u].role = "none" => ~profile[u].active
                          /\ Cardinality({x \in sessions : x.user = u}) <= Kept + 1
      /\ IsFiniteSet(sessions)
      /\ \A x \in sessions :
           /\ profile[x.user].active /\ x.password = credential[x.user].hash.password
           /\ x.secret = credential[x.user].secret
           /\ x.made <= 0 /\ \A y \in sessions : x.user = y.user /\ x.made = y.made => x = y
  BY <1>1, <1>2 DEF Answered
<1>4. \A r \in Requests : request[r].at = "idle"
  BY DEF Init, Fresh
<1>5. clock = 0
  BY DEF Init
<1>6. \A x \in sessions : x.user \in Users
  BY <1>1, <1>2 DEF Session
<1>7. NobodyIsSignedIn
  BY <1>3, <1>6 DEF NobodyIsSignedIn, Active
<1>8. SessionsFit
  BY <1>3 DEF SessionsFit, Fits, Active
<1>9. StartsAreApart /\ LoginsAreCurrent
  BY <1>3, <1>4, <1>5 DEF StartsAreApart, LoginsAreCurrent, SigningIn
<1> QED BY <1>3, <1>7, <1>8, <1>9 DEF SessionInv, SessionsAreFew, SessionsOf

LEMMA SessionsStep ==
  ASSUME AdminInv, PeriodInv, AccountInv, SessionInv, [Next]_vars
  PROVE  SessionInv'
<1>1. StartsAreApart'
  BY StartsStep DEF SessionInv
<1> QED BY <1>1, SignedInStep, FitStep, LoginsStep, FewStep DEF SessionInv

(* Every session is of an active account, with the password and the second   *)
(* factor it was made for, but for those of a restoration that was cut       *)
(* short; and no user has more than the kept ones and the latest.  A login   *)
(* that was slow to verify, a change of the password, an enrolment, a reset  *)
(* and an edit of the user may come in any order (auth_handlers.go:85-98,    *)
(* auth.InsertSession).                                                      *)
THEOREM SessionsAnswerToTheAccount == Spec => []SessionsAreSound
<1>1. Init => AdminInv /\ PeriodInv /\ AccountInv /\ SessionInv
  BY AdminInitially, PeriodsInitially, AccountsInitially, SessionsInitially
<1>2. AdminInv /\ PeriodInv /\ AccountInv /\ SessionInv /\ [Next]_vars
        => AdminInv' /\ PeriodInv' /\ AccountInv' /\ SessionInv'
  BY AdminStep, PeriodsStep, AccountStep, SessionsStep
<1>3. SessionInv => SessionsAreSound
  BY DEF SessionInv, SessionsFit, SessionsAreSound, SessionsFitTheAccount
<1> QED BY <1>1, <1>2, <1>3, PTL DEF Spec

==============================================================================
