-------------------------- MODULE MCWorkflowTasks --------------------------
(* Small instances of WorkflowTasks: the users, the rows of rbac.Roles and the
   tasks that a run needs.  Users are numbered as their ids are ordered. *)
EXTENDS WorkflowTasks, TLC

MCPermissions == {"dispatch", "edit_internship", "prepare_reports", "approve_directory"}
MCAllowed ==
     "hr_specialist"  :> {"edit_internship"}
  @@ "curator"        :> {"edit_internship", "prepare_reports"}
  @@ "org_admin"      :> {"dispatch", "edit_internship", "prepare_reports"}
  @@ "super_admin"    :> MCPermissions
  @@ "auditor_viewer" :> {}
MCDelegated == [role \in Roles |-> IF role = "curator" THEN {"edit_internship"} ELSE {}]

Need3(role, permission, partner) == [role |-> role, permission |-> permission, partner |-> partner]
\* The tasks of the curators' route, of the report to verify, and of a
\* directory only SUPER_ADMIN may approve.
MCNeedOf == [s \in Subjects |->
  CASE s = "internship" -> Need3("hr_specialist", "edit_internship", TRUE)
    [] s = "program"    -> Need3("hr_specialist", "edit_internship", TRUE)
    [] s = "report"     -> Need3("curator", "prepare_reports", TRUE)
    [] s = "directory"  -> Need3("hr_specialist", "approve_directory", TRUE)]

\* One user of every role; each may be switched off, the specialist may also
\* become an auditor.
MCFirstRole == 1 :> "hr_specialist" @@ 2 :> "curator" @@ 3 :> "org_admin" @@ 4 :> "super_admin"
MCRolesOf == [u \in Users |-> IF u = 1 THEN {"hr_specialist", "auditor_viewer"} ELSE {MCFirstRole[u]}]
=============================================================================
