--------------------------- MODULE ReportWorkflow ---------------------------
(***************************************************************************)
(* The report of an agreement for one year and period: it is prepared      *)
(* (draft), submitted (ready), reviewed by the counterparty (verified) and *)
(* approved (handlers/report_workflow.go); whatever changes under it must  *)
(* send it back to draft, which triggers of the database do                *)
(* (migrations 0013, 0014, 0019).                                          *)
(*                                                                         *)
(* A transition locks the row of the report, reads everything the report   *)
(* rests on and commits.  A change of what it rests on is a transaction of *)
(* its own: its triggers look for the report, wait for its row if they     *)
(* find one to reset, and commit with the change.  READ COMMITTED: neither *)
(* sees what the other has not committed, not even that the row exists.    *)
(* An edit of the agreement keeps its row FOR UPDATE, which the foreign    *)
(* keys of the report and of its history wait for; two transactions that   *)
(* wait for each other are told apart by PostgreSQL, which fails one.      *)
(***************************************************************************)
EXTENDS Integers, FiniteSets, Sequences

CONSTANTS
  Users,
  Prepares,     \* users for whom canPrepareReports holds
  Reviews,      \* ... canReviewReport of this period
  Approves,     \* ... canApproveReports
  Represents,   \* ... isEducationRepresentative
  Fact,         \* the period is fact, not plan
  OnePartner,   \* the agreement has a single organization
  Opened,       \* the report exists from the start (a draft left by a request)
  Kinds,        \* what may change under the report
  Calls,        \* HTTP requests, each served once
  Writers       \* transactions that change entries, the agreement, ...

\* Entries, an edit of the whole agreement with its scope, a change of its
\* curator, a change of the status of the regional authority.
AllKinds == {"entries", "agreement", "curator", "authority"}

ASSUME AccessOfReports ==
  /\ Prepares \subseteq Users /\ Reviews \subseteq Users
  /\ Approves \subseteq Users /\ Represents \subseteq Users
  /\ Fact \in BOOLEAN /\ OnePartner \in BOOLEAN /\ Opened \in BOOLEAN

ASSUME NobodyIsNoUser == "nobody" \notin Users

ASSUME KindsOfChange == Kinds \subseteq AllKinds

VARIABLES
  report,   \* the row of agreement_reports
  facts,    \* what buildWorkflow reads: revision and completeness of each kind
  history,  \* agreement_report_history, in the order of the commits
  open,     \* the open workflow tasks of the report
  calls,    \* the transitions being served
  writes    \* the changes being made

vars == <<report, facts, history, open, calls, writes>>

Statuses == {"draft", "ready", "verified", "approved"}
Somebody == Users \cup {"nobody"}

\* confirmed: what the preparer confirms (scope, conditions, evidence and, for
\* actual costs, the audit report).  read is a ghost: the revisions the request
\* that made the report ready has read.
Report == [exists : BOOLEAN, status : Statuses, confirmed : BOOLEAN, counterparty : BOOLEAN,
           readyBy : Somebody, verifiedBy : Somebody, approvedBy : Somebody,
           read : [AllKinds -> Nat]]

Facts == [revision : [AllKinds -> Nat], complete : [AllKinds -> BOOLEAN]]

HistoryRow == [from : Statuses, to : Statuses, by : Somebody]

\* from is the local variable current of Transition.
Call == [at : {"idle", "locked", "checked", "served"}, user : Somebody,
         target : Statuses, confirm : BOOLEAN, from : Statuses, read : [AllKinds -> Nat]]

Write == [at : {"idle", "matching", "noting", "rematching", "waiting", "committing",
                 "done"}, kind : AllKinds, complete : BOOLEAN, holds : BOOLEAN,
          note : Statuses]

Unread == [k \in AllKinds |-> 0]
NewCall(place) == [at |-> place, user |-> "nobody", target |-> "draft", confirm |-> FALSE,
                   from |-> "draft", read |-> Unread]
NewWrite(place) == [at |-> place, kind |-> "entries", complete |-> FALSE, holds |-> FALSE,
                    note |-> "draft"]

-----------------------------------------------------------------------------
\* Nobody has the row of the report: neither FOR UPDATE, nor inserted and not
\* committed, nor updated by a trigger.
Free ==
  /\ \A c \in Calls : calls[c].at \notin {"locked", "checked"}
  /\ \A w \in Writers : ~writes[w].holds

\* Somebody else has the agreement FOR UPDATE ...
Editing(kind) == kind \in {"agreement", "curator"}
InProgress(w) == writes[w].at \notin {"idle", "done"}
AgreementHeld == \E w \in Writers : InProgress(w) /\ Editing(writes[w].kind)

\* ... or FOR KEY SHARE: a row that refers to it is inserted and not committed.
AgreementShared ==
  \/ ~report.exists /\ \E c \in Calls : calls[c].at \in {"locked", "checked"}
  \/ \E w \in Writers : writes[w].kind = "authority" /\ writes[w].note # "draft"

\* The switch over the requested status.
Allowed(u, from, target) ==
  CASE target = "ready"    -> from = "draft" /\ u \in Prepares
    [] target = "verified" -> from = "ready" /\ u \in Reviews
    [] target = "approved" -> from = "verified" /\ u \in Approves
    [] target = "draft"    -> from # "draft" /\ \/ u \in Prepares
                                                \/ Fact /\ from = "ready" /\ u \in Represents

\* The automatic checks of buildWorkflow.
AutomaticComplete == \A k \in AllKinds : facts.complete[k]

\* CanMarkReady, or nothing Missing and manualOK.
Passes(call) ==
  CASE call.target = "draft" -> TRUE
    [] call.target = "ready" -> AutomaticComplete /\ call.confirm
    [] call.target = "verified" -> AutomaticComplete /\ report.confirmed
    [] call.target = "approved" ->
         AutomaticComplete /\ report.confirmed /\ (Fact => report.counterparty)

\* The row after the UPDATEs of Transition.
Stamped(call) ==
  LET u == call.user IN
  CASE call.target = "ready" ->
         [report EXCEPT !.exists = TRUE, !.status = "ready", !.confirmed = call.confirm,
                        !.counterparty = FALSE, !.readyBy = u, !.verifiedBy = "nobody",
                        !.approvedBy = "nobody", !.read = call.read]
    [] call.target = "verified" ->
         [report EXCEPT !.status = "verified", !.counterparty = @ \/ Fact,
                        !.verifiedBy = u, !.approvedBy = "nobody"]
    [] call.target = "approved" -> [report EXCEPT !.status = "approved", !.approvedBy = u]
    [] call.target = "draft" ->
         [report EXCEPT !.status = "draft", !.confirmed = FALSE, !.counterparty = FALSE,
                        !.readyBy = "nobody", !.verifiedBy = "nobody", !.approvedBy = "nobody"]

\* Mutant: a task is named by the status and not by the step it asks for.
TasksByStatus(target) == IF target = "draft" THEN {} ELSE open \cup {target}

\* Mutant: verification leaves its own task open.
TasksAfterDispatchOnly(target) ==
  CASE target = "ready"    -> open \cup {"verify"}
    [] target = "verified" -> open \cup {"approve"}
    [] target = "approved" -> open \ {"approve"}
    [] target = "draft"    -> {}

\* syncReportTasks
TasksAfter(target) ==
  CASE target = "ready"    -> open \cup {"verify"}
    [] target = "verified" -> (open \ {"verify"}) \cup {"approve"}
    [] target = "approved" -> {}
    [] target = "draft"    -> {}

\* Mutant: a reset clears the approval only.
AfterResetOfApproval ==
  [report EXCEPT !.status = "draft", !.approvedBy = "nobody"]

\* The row after the UPDATE of a trigger.
AfterReset ==
  [report EXCEPT !.status = "draft", !.confirmed = FALSE, !.counterparty = FALSE,
                 !.readyBy = "nobody", !.verifiedBy = "nobody", !.approvedBy = "nobody"]

-----------------------------------------------------------------------------
\* Transition

\* INSERT ... ON CONFLICT DO NOTHING, then SELECT status FOR UPDATE and the
\* switch; what the switch answers with 409 leaves nothing behind.  Nothing that
\* changes here is read before the lock.  A representative answers for one
\* organization only.
Lock(c, u, target, confirm) ==
  /\ calls[c].at = "idle" /\ Free
  /\ ~report.exists => ~AgreementHeld
  /\ u \in Represents => OnePartner
  /\ Allowed(u, report.status, target)
  /\ calls' = [calls EXCEPT ![c] =
       [at |-> "locked", user |-> u, target |-> target, from |-> report.status,
        confirm |-> confirm /\ target = "ready", read |-> Unread]]
  /\ UNCHANGED <<report, facts, history, open, writes>>

\* buildWorkflow reads inside the transaction what others have committed.
Check(c) ==
  /\ calls[c].at = "locked" /\ Passes(calls[c])
  /\ calls' = [calls EXCEPT ![c].at = "checked", ![c].read = facts.revision]
  /\ UNCHANGED <<report, facts, history, open, writes>>

\* The UPDATEs, the history, the tasks and the audit journal, and COMMIT.
Commit(c) ==
  /\ calls[c].at = "checked" /\ ~AgreementHeld
  /\ report' = Stamped(calls[c])
  /\ history' = Append(history, [from |-> calls[c].from, to |-> calls[c].target,
                                 by |-> calls[c].user])
  /\ open' = TasksAfter(calls[c].target)
  /\ calls' = [calls EXCEPT ![c] = NewCall("served")]
  /\ UNCHANGED <<facts, writes>>

\* 422, an error, a deadlock or a client that went away: everything is undone,
\* the row the request had inserted included.
Refuse(c) ==
  /\ calls[c].at \in {"locked", "checked"}
  /\ calls' = [calls EXCEPT ![c] = NewCall("served")]
  /\ UNCHANGED <<report, facts, history, open, writes>>

\* The assignee closes a task by hand.
CompleteTask(kind) ==
  /\ kind \in open
  /\ open' = open \ {kind}
  /\ UNCHANGED <<report, facts, history, calls, writes>>

-----------------------------------------------------------------------------
\* Changes of what the report rests on, with their triggers.

\* The change itself; an edit of the agreement locks it first.  (An entry that is
\* updated does not touch the key of its agreement; one that is inserted also
\* waits for an edit in progress, which is one of the orders here.)
WriteBegin(w, kind, complete) ==
  /\ writes[w].at = "idle"
  /\ kind = "curator" => complete
  /\ Editing(kind) => ~AgreementHeld /\ ~AgreementShared
  /\ writes' = [writes EXCEPT ![w] =
       [NewWrite(IF kind = "authority" THEN "noting" ELSE "matching")
          EXCEPT !.kind = kind, !.complete = complete]]
  /\ UNCHANGED <<report, facts, history, open, calls>>

\* Mutant: there is no trigger that clears the audit report of a draft.
MatchesUnderReview(kind) == report.status # "draft"

\* The WHERE of the first UPDATE finds the report: entries clear the audit
\* report of any row, everything else looks for a report under review.
Matches(kind) == IF kind = "entries" THEN report.exists ELSE report.status # "draft"

WriteMatch(w) ==
  /\ writes[w].at \in {"matching", "rematching"}
  /\ writes' = [writes EXCEPT ![w].at =
       IF Matches(writes[w].kind) THEN "waiting"
       ELSE IF writes[w].kind = "agreement" /\ @ = "matching" THEN "noting" ELSE "committing"]
  /\ UNCHANGED <<report, facts, history, open, calls>>

\* The triggers of the authority and of the scope, which an edit of the agreement
\* fires next, write the history of a report they see under review, and only
\* then look for it to reset it.
WriteNote(w) ==
  /\ writes[w].at = "noting"
  /\ report.status # "draft" => \/ Editing(writes[w].kind)
                                \/ ~AgreementHeld
  /\ writes' = [writes EXCEPT ![w].at = "rematching", ![w].note = report.status]
  /\ UNCHANGED <<report, facts, history, open, calls>>

\* The UPDATE gets the row and evaluates its WHERE again; the trigger of entries
\* writes its history only now.
WriteLock(w) ==
  /\ writes[w].at = "waiting" /\ Free
  /\ writes' = [writes EXCEPT ![w].at = "committing", ![w].holds = TRUE,
                              ![w].note = IF writes[w].kind = "entries" THEN report.status ELSE @]
  /\ UNCHANGED <<report, facts, history, open, calls>>

WriteCommit(w) ==
  LET kind == writes[w].kind IN
  /\ writes[w].at = "committing"
  /\ writes[w].kind = "entries" /\ writes[w].note # "draft" => ~AgreementHeld
  /\ facts' = [revision |-> [facts.revision EXCEPT ![kind] = @ + 1],
               complete |-> [facts.complete EXCEPT ![kind] = writes[w].complete]]
  /\ report' = IF writes[w].holds /\ report.status # "draft" THEN AfterReset ELSE report
  /\ history' = IF writes[w].note = "draft" THEN history
                ELSE Append(history, [from |-> writes[w].note, to |-> "draft", by |-> "nobody"])
  /\ writes' = [writes EXCEPT ![w] = NewWrite("done")]
  /\ UNCHANGED <<open, calls>>

\* An error, a deadlock or a client that went away.
WriteFails(w) ==
  /\ writes[w].at \in {"matching", "noting", "rematching", "waiting", "committing"}
  /\ writes' = [writes EXCEPT ![w] = NewWrite("done")]
  /\ UNCHANGED <<report, facts, history, open, calls>>

-----------------------------------------------------------------------------
Init ==
  /\ report = [exists |-> Opened, status |-> "draft", confirmed |-> FALSE,
               counterparty |-> FALSE, readyBy |-> "nobody", verifiedBy |-> "nobody",
               approvedBy |-> "nobody", read |-> Unread]
  /\ facts = [revision |-> Unread, complete |-> [k \in AllKinds |-> TRUE]]
  /\ history = <<>> /\ open = {}
  /\ calls = [c \in Calls |-> NewCall("idle")]
  /\ writes = [w \in Writers |-> NewWrite("idle")]

Transition(c) ==
  \/ \E u \in Users, target \in Statuses, confirm \in BOOLEAN : Lock(c, u, target, confirm)
  \/ Check(c) \/ Commit(c) \/ Refuse(c)

Change(w) ==
  \/ \E kind \in Kinds, complete \in BOOLEAN : WriteBegin(w, kind, complete)
  \/ WriteMatch(w) \/ WriteNote(w) \/ WriteLock(w) \/ WriteCommit(w) \/ WriteFails(w)

Next ==
  \/ \E c \in Calls : Transition(c)
  \/ \E kind \in {"verify", "approve"} : CompleteTask(kind)
  \/ \E w \in Writers : Change(w)

Spec == Init /\ [][Next]_vars

-----------------------------------------------------------------------------
\* Properties

\* Rows, requests and changes keep their types.
TypeOK ==
  /\ report \in Report /\ facts \in Facts
  /\ history \in Seq(HistoryRow) /\ open \subseteq {"verify", "approve"}
  /\ calls \in [Calls -> Call] /\ writes \in [Writers -> Write]

\* The row lock of the report has one holder, who finds the status as it was
\* when the lock was taken.
Holds(c) == calls[c].at \in {"locked", "checked"}

OneHolder ==
  /\ \A c, d \in Calls : Holds(c) /\ Holds(d) => c = d
  /\ \A w, v \in Writers : writes[w].holds /\ writes[v].holds => w = v
  /\ \A c \in Calls, w \in Writers : ~(Holds(c) /\ writes[w].holds)
  /\ \A c \in Calls : Holds(c) => /\ calls[c].from = report.status
                                  /\ Allowed(calls[c].user, calls[c].from, calls[c].target)

\* What the view entry_eligibility asks of an approved report holds of the row at
\* every status: each step is stamped by somebody who may take it, the preparer
\* has confirmed, the counterparty of a fact report has answered, and a draft
\* keeps nothing of an earlier round.
StampsTellStatus ==
  /\ report.confirmed = (report.status # "draft")
  /\ report.counterparty = (Fact /\ report.status \in {"verified", "approved"})
  /\ IF report.status = "draft" THEN report.readyBy = "nobody" ELSE report.readyBy \in Prepares
  /\ IF report.status \in {"verified", "approved"}
     THEN report.verifiedBy \in Reviews ELSE report.verifiedBy = "nobody"
  /\ IF report.status = "approved"
     THEN report.approvedBy \in Approves ELSE report.approvedBy = "nobody"

\* Nobody skips a step: whatever triggers and other requests do between a
\* request's check and its commit, a status is reached from the one before it.
StepsUpOne ==
  [][report'.status # report.status /\ report'.status # "draft" =>
       <<report.status, report'.status>> \in
         {<<"draft", "ready">>, <<"ready", "verified">>, <<"verified", "approved">>}]_vars

\* Migration 0013: any change of entries invalidates the review; a report under
\* review rests on the entries that were read when it was made ready.
ChangeInvalidatesReview ==
  report.status # "draft" => report.read["entries"] = facts.revision["entries"]

\* The same of a report whose row existed before the requests and the changes:
\* the trigger that clears the audit report waits for any row, so no entry
\* slips in between the check and the commit.
EntriesUnderReviewAreCurrent == Opened => ChangeInvalidatesReview

\* ... and therefore what is verified or approved has complete entries.
ReviewedEntriesAreComplete ==
  Opened /\ report.status # "draft" => facts.complete["entries"]

\* syncReportTasks: nobody is asked to verify what is verified, or to do
\* anything about what is approved, also after resets that left tasks open.
NoTaskBehindTheReport ==
  /\ report.status \in {"verified", "approved"} => "verify" \notin open
  /\ report.status = "approved" => open = {}

\* syncReportTasks: a draft has no open tasks.
DraftHasNoTasks == report.status = "draft" => open = {}
=============================================================================
