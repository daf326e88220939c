------------------------ MODULE ReportWorkflow_proofs ------------------------
(***************************************************************************)
(* Proofs about ReportWorkflow, for every set of users, requests and       *)
(* changes, both periods and every assignment of rights.                   *)
(***************************************************************************)
EXTENDS ReportWorkflow, TLAPS

\* What a request that has passed its checks carries to its commit.
ChecksPassed ==
  \A c \in Calls : calls[c].at = "checked" /\ calls[c].target = "ready" => calls[c].confirm

\* Why entries cannot slip in: a change of entries is committed under the lock of
\* the row, and what a request has read stays current as long as it holds it.
EntriesAreGuarded ==
  /\ report.exists
  /\ ChangeInvalidatesReview
  /\ \A c \in Calls : calls[c].at = "checked" =>
       calls[c].read["entries"] = facts.revision["entries"]
  /\ \A w \in Writers : writes[w].at = "committing" /\ writes[w].kind = "entries" =>
       writes[w].holds
  /\ report.status # "draft" => facts.complete["entries"]
  /\ \A c \in Calls : calls[c].at = "checked" /\ calls[c].target # "draft" =>
       facts.complete["entries"]

IInv == /\ TypeOK
        /\ OneHolder
        /\ ChecksPassed
        /\ StampsTellStatus
        /\ Opened => EntriesAreGuarded

-----------------------------------------------------------------------------
\* Types.

LEMMA StampedType ==
  ASSUME report \in Report, NEW call \in Call
  PROVE  Stamped(call) \in Report
<1>1. call.user \in Somebody /\ call.read \in [AllKinds -> Nat] /\ call.confirm \in BOOLEAN
      /\ call.target \in Statuses
  BY DEF Call
<1>2. (report.counterparty \/ Fact) \in BOOLEAN
  OBVIOUS
<1>3. CASE call.target = "ready"
  BY <1>1, <1>3 DEF Stamped, Report, Statuses, Somebody
<1>4. CASE call.target = "verified"
  BY <1>1, <1>2, <1>4 DEF Stamped, Report, Statuses, Somebody
<1>5. CASE call.target = "approved"
  BY <1>1, <1>5 DEF Stamped, Report, Statuses, Somebody
<1>6. CASE call.target = "draft"
  BY <1>1, <1>6 DEF Stamped, Report, Statuses, Somebody
<1> QED BY <1>1, <1>3, <1>4, <1>5, <1>6 DEF Statuses

LEMMA ResetType ==
  ASSUME report \in Report
  PROVE  AfterReset \in Report
BY DEF AfterReset, Report, Statuses, Somebody

LEMMA TypeStep ==
  ASSUME TypeOK, [Next]_vars
  PROVE  TypeOK'
<1> USE DEF TypeOK
<1>1. ASSUME NEW c \in Calls, NEW u \in Users, NEW target \in Statuses, NEW confirm \in BOOLEAN,
             Lock(c, u, target, confirm)
      PROVE  TypeOK'
  <2> DEFINE new == [at |-> "locked", user |-> u, target |-> target, from |-> report.status,
                     confirm |-> confirm /\ target = "ready", read |-> Unread]
  <2>1. new \in Call
    <3>1. Unread \in [AllKinds -> Nat] /\ report.status \in Statuses /\ u \in Somebody
      BY DEF Unread, Report, Somebody
    <3>2. (confirm /\ target = "ready") \in BOOLEAN
      OBVIOUS
    <3> QED BY <3>1, <3>2 DEF Call
  <2>2. calls' = [calls EXCEPT ![c] = new]
    BY <1>1 DEF Lock
  <2> HIDE DEF new
  <2> QED BY <1>1, <2>1, <2>2 DEF Lock
<1>2. ASSUME NEW c \in Calls, Check(c)
      PROVE  TypeOK'
  <2>1. calls[c] \in Call /\ facts.revision \in [AllKinds -> Nat]
    BY DEF Facts
  <2>2. [calls[c] EXCEPT !.at = "checked", !.read = facts.revision] \in Call
    BY <2>1, ZenonT(20) DEF Call
  <2>3. calls' = [calls EXCEPT ![c] = [calls[c] EXCEPT !.at = "checked", !.read = facts.revision]]
    BY <1>2 DEF Check
  <2> QED BY <1>2, <2>2, <2>3 DEF Check
<1>3. ASSUME NEW c \in Calls, Commit(c) \/ Refuse(c)
      PROVE  TypeOK'
  <2>1. NewCall("served") \in Call
    BY DEF NewCall, Call, Unread, Somebody, Statuses
  <2>2. calls' \in [Calls -> Call]
    BY <1>3, <2>1 DEF Commit, Refuse
  <2>3. CASE Refuse(c)
    BY <2>2, <2>3 DEF Refuse
  <2>4. CASE Commit(c)
    <3>1. report' \in Report
      BY <2>4, StampedType DEF Commit
    <3>2. calls[c].from \in Statuses /\ calls[c].target \in Statuses /\ calls[c].user \in Somebody
      BY DEF Call
    <3>3. history' \in Seq(HistoryRow)
      BY <2>4, <3>2 DEF Commit, HistoryRow
    <3>4. open' \subseteq {"verify", "approve"}
      BY <2>4, <3>2 DEF Commit, TasksAfter, Statuses
    <3> QED BY <2>2, <2>4, <3>1, <3>3, <3>4 DEF Commit
  <2> QED BY <1>3, <2>3, <2>4
<1>4. ASSUME NEW kind, CompleteTask(kind)
      PROVE  TypeOK'
  BY <1>4 DEF CompleteTask
<1>5. ASSUME NEW w \in Writers, NEW kind \in Kinds, NEW complete \in BOOLEAN,
             WriteBegin(w, kind, complete)
      PROVE  TypeOK'
  <2>1. kind \in AllKinds
    BY KindsOfChange
  <2>2. writes' \in [Writers -> Write]
    BY <1>5, <2>1 DEF WriteBegin, NewWrite, Write, Statuses
  <2> QED BY <1>5, <2>2 DEF WriteBegin
<1>6. ASSUME NEW w \in Writers, WriteMatch(w) \/ WriteNote(w) \/ WriteLock(w)
      PROVE  TypeOK'
  <2>1. writes[w] \in Write /\ report.status \in Statuses
    BY DEF Report
  <2>2. writes' \in [Writers -> Write]
    <3>1. CASE WriteMatch(w)
      BY <2>1, <3>1 DEF WriteMatch, Write
    <3>2. CASE WriteNote(w)
      BY <2>1, <3>2 DEF WriteNote, Write
    <3>3. CASE WriteLock(w)
      BY <2>1, <3>3 DEF WriteLock, Write
    <3> QED BY <1>6, <3>1, <3>2, <3>3
  <2> QED BY <1>6, <2>2 DEF WriteMatch, WriteNote, WriteLock
<1>7. ASSUME NEW w \in Writers, WriteCommit(w) \/ WriteFails(w)
      PROVE  TypeOK'
  <2>1. writes' \in [Writers -> Write]
    <3>1. NewWrite("done") \in Write
      BY DEF NewWrite, Write, AllKinds, Statuses
    <3> QED BY <1>7, <3>1 DEF WriteCommit, WriteFails
  <2>2. CASE WriteFails(w)
    BY <2>1, <2>2 DEF WriteFails
  <2>3. CASE WriteCommit(w)
    <3>1. writes[w].kind \in AllKinds /\ writes[w].complete \in BOOLEAN
          /\ writes[w].note \in Statuses
      BY DEF Write
    <3>2. facts.revision \in [AllKinds -> Nat] /\ facts.complete \in [AllKinds -> BOOLEAN]
      BY DEF Facts
    <3>3. facts' \in Facts
      BY <2>3, <3>1, <3>2 DEF WriteCommit, Facts
    <3>4. report' \in Report
      BY <2>3, ResetType DEF WriteCommit
    <3>5. history' \in Seq(HistoryRow)
      <4> DEFINE row == [from |-> writes[w].note, to |-> "draft", by |-> "nobody"]
      <4>1. row \in HistoryRow
        BY <3>1 DEF HistoryRow, Statuses, Somebody
      <4>2. history' = history \/ history' = Append(history, row)
        BY <2>3 DEF WriteCommit
      <4> HIDE DEF row
      <4> QED BY <4>1, <4>2
    <3> QED BY <2>1, <2>3, <3>3, <3>4, <3>5 DEF WriteCommit
  <2> QED BY <1>7, <2>2, <2>3
<1>8. CASE UNCHANGED vars
  BY <1>8 DEF vars
<1> QED BY <1>1, <1>2, <1>3, <1>4, <1>5, <1>6, <1>7, <1>8 DEF Next, Transition, Change

-----------------------------------------------------------------------------
\* What a commit does to the row.

LEMMA CommitFits ==
  ASSUME TypeOK, OneHolder, NEW c \in Calls, Commit(c)
  PROVE  /\ calls[c].from = report.status
         /\ Allowed(calls[c].user, report.status, calls[c].target)
         /\ calls[c].target \in Statuses
         /\ report' = Stamped(calls[c])
         /\ report'.status = calls[c].target
         /\ report'.exists = (report.exists \/ calls[c].target = "ready")
         /\ \A d \in Calls : calls'[d].at \notin {"locked", "checked"}
         /\ \A w \in Writers : ~writes'[w].holds
<1>1. Holds(c) /\ calls[c].target \in Statuses /\ report \in Report
  BY DEF Commit, Holds, TypeOK, Call
<1>2. calls[c].from = report.status /\ Allowed(calls[c].user, report.status, calls[c].target)
  BY <1>1 DEF OneHolder
<1>3. report' = Stamped(calls[c]) /\ calls' = [calls EXCEPT ![c] = NewCall("served")]
      /\ writes' = writes
  BY DEF Commit
<1>4. report'.status = calls[c].target
      /\ report'.exists = (report.exists \/ calls[c].target = "ready")
  BY <1>1, <1>3 DEF Stamped, Report, Statuses
<1>5. \A d \in Calls : calls'[d].at \notin {"locked", "checked"}
  BY <1>1, <1>3 DEF OneHolder, Holds, NewCall, TypeOK
<1>6. \A w \in Writers : ~writes'[w].holds
  BY <1>1, <1>3 DEF OneHolder
<1> QED BY <1>1, <1>2, <1>3, <1>4, <1>5, <1>6

\* ... and a change that resets it, or leaves it alone.
LEMMA ChangeFits ==
  ASSUME TypeOK, OneHolder, NEW w \in Writers, WriteCommit(w)
  PROVE  /\ report' = report \/ (report' = AfterReset /\ report'.status = "draft"
                                 /\ writes[w].holds)
         /\ report'.exists = report.exists /\ report'.read = report.read
         /\ writes[w].holds => \A c \in Calls : calls[c].at \notin {"locked", "checked"}
         /\ writes[w].holds => report'.status = "draft"
<1>1. report \in Report
  BY DEF TypeOK
<1>2. report' = IF writes[w].holds /\ report.status # "draft" THEN AfterReset ELSE report
  BY DEF WriteCommit
<1>3. AfterReset.status = "draft" /\ AfterReset.exists = report.exists
      /\ AfterReset.read = report.read
  BY <1>1 DEF AfterReset, Report
<1>4. writes[w].holds => \A c \in Calls : calls[c].at \notin {"locked", "checked"}
  BY DEF OneHolder, Holds
<1> QED BY <1>2, <1>3, <1>4

-----------------------------------------------------------------------------
\* The row lock.

LEMMA HolderStep ==
  ASSUME TypeOK, OneHolder, [Next]_vars
  PROVE  OneHolder'
<1>1. ASSUME NEW c \in Calls, NEW u \in Users, NEW target \in Statuses, NEW confirm \in BOOLEAN,
             Lock(c, u, target, confirm)
      PROVE  OneHolder'
  <2>1. Free /\ report' = report /\ writes' = writes /\ Allowed(u, report.status, target)
    BY <1>1 DEF Lock
  <2>2. calls'[c].from = report.status /\ calls'[c].user = u /\ calls'[c].target = target
    BY <1>1 DEF Lock, TypeOK
  <2>3. \A d \in Calls \ {c} : calls'[d] = calls[d]
    BY <1>1 DEF Lock, TypeOK
  <2> QED BY <2>1, <2>2, <2>3 DEF OneHolder, Holds, Free, Allowed
<1>2. ASSUME NEW c \in Calls, Check(c)
      PROVE  OneHolder'
  <2>1. Holds(c) /\ report' = report /\ writes' = writes
    BY <1>2 DEF Check, Holds
  <2>2. calls'[c].from = calls[c].from /\ calls'[c].user = calls[c].user
        /\ calls'[c].target = calls[c].target /\ calls[c] \in Call
    BY <1>2 DEF Check, TypeOK, Call
  <2>3. \A d \in Calls \ {c} : calls'[d] = calls[d]
    BY <1>2 DEF Check, TypeOK
  <2> QED BY <2>1, <2>2, <2>3 DEF OneHolder, Holds, Allowed
<1>3. ASSUME NEW c \in Calls, Commit(c)
      PROVE  OneHolder'
  BY <1>3, CommitFits DEF OneHolder, Holds
<1>4. ASSUME NEW c \in Calls, Refuse(c)
      PROVE  OneHolder'
  <2>1. calls'[c].at = "served" /\ \A d \in Calls \ {c} : calls'[d] = calls[d]
    BY <1>4 DEF Refuse, NewCall, TypeOK
  <2>2. report' = report /\ writes' = writes
    BY <1>4 DEF Refuse
  <2> QED BY <2>1, <2>2 DEF OneHolder, Holds, Allowed
<1>5. ASSUME NEW w \in Writers, WriteLock(w)
      PROVE  OneHolder'
  <2>1. Free /\ calls' = calls /\ report' = report
    BY <1>5 DEF WriteLock
  <2>2. \A v \in Writers \ {w} : writes'[v] = writes[v]
    BY <1>5 DEF WriteLock, TypeOK
  <2> QED BY <2>1, <2>2 DEF OneHolder, Holds, Free
<1>6. ASSUME NEW w \in Writers, writes'[w].holds => writes[w].holds,
             \A v \in Writers \ {w} : writes'[v] = writes[v], calls' = calls,
             report' = report \/ \A c \in Calls : calls[c].at \notin {"locked", "checked"}
      PROVE  OneHolder'
  <2>1. \A c \in Calls : Holds(c)' = Holds(c)
    BY <1>6 DEF Holds
  <2>2. \A v \in Writers : writes'[v].holds => writes[v].holds
    BY <1>6
  <2>3. \A c \in Calls : Holds(c) => report' = report
    BY <1>6 DEF Holds
  <2>4. \A c \in Calls : calls'[c] = calls[c]
    BY <1>6
  <2> QED BY <2>1, <2>2, <2>3, <2>4 DEF OneHolder, Allowed
<1>7. ASSUME NEW w \in Writers, NEW kind \in Kinds, NEW complete \in BOOLEAN,
             WriteBegin(w, kind, complete)
      PROVE  OneHolder'
  <2>1. ~writes'[w].holds /\ \A v \in Writers \ {w} : writes'[v] = writes[v]
    BY <1>7 DEF WriteBegin, NewWrite, TypeOK
  <2> QED BY <1>6, <1>7, <2>1 DEF WriteBegin
<1>8. ASSUME NEW w \in Writers, WriteMatch(w) \/ WriteNote(w)
      PROVE  OneHolder'
  <2>1. writes'[w].holds = writes[w].holds /\ \A v \in Writers \ {w} : writes'[v] = writes[v]
    BY <1>8 DEF WriteMatch, WriteNote, TypeOK, Write
  <2> QED BY <1>6, <1>8, <2>1 DEF WriteMatch, WriteNote
<1>9. ASSUME NEW w \in Writers, WriteCommit(w) \/ WriteFails(w)
      PROVE  OneHolder'
  <2>1. ~writes'[w].holds /\ \A v \in Writers \ {w} : writes'[v] = writes[v]
    BY <1>9 DEF WriteCommit, WriteFails, NewWrite, TypeOK
  <2>2. report' = report \/ \A c \in Calls : calls[c].at \notin {"locked", "checked"}
    BY <1>9, ChangeFits DEF WriteFails
  <2> QED BY <1>6, <1>9, <2>1, <2>2 DEF WriteCommit, WriteFails
<1>10. ASSUME UNCHANGED <<report, calls, writes>>
       PROVE  OneHolder'
  BY <1>10 DEF OneHolder, Holds, Allowed
<1> QED
  BY <1>1, <1>2, <1>3, <1>4, <1>5, <1>7, <1>8, <1>9, <1>10
  DEF Next, Transition, Change, CompleteTask, vars

-----------------------------------------------------------------------------
\* The row and its stamps.

LEMMA ChecksPassedStep ==
  ASSUME TypeOK, ChecksPassed, [Next]_vars
  PROVE  ChecksPassed'
<1>1. ASSUME NEW c \in Calls, NEW u \in Users, NEW target \in Statuses, NEW confirm \in BOOLEAN,
             Lock(c, u, target, confirm)
      PROVE  ChecksPassed'
  BY <1>1 DEF Lock, ChecksPassed, TypeOK
<1>2. ASSUME NEW c \in Calls, Check(c)
      PROVE  ChecksPassed'
  <2>1. calls'[c].target = calls[c].target /\ calls'[c].confirm = calls[c].confirm
    BY <1>2 DEF Check, TypeOK, Call
  <2>2. \A d \in Calls \ {c} : calls'[d] = calls[d]
    BY <1>2 DEF Check, TypeOK
  <2>3. calls[c].target = "ready" => calls[c].confirm
    BY <1>2 DEF Check, Passes
  <2> QED BY <2>1, <2>2, <2>3 DEF ChecksPassed
<1>3. ASSUME NEW c \in Calls, Commit(c) \/ Refuse(c)
      PROVE  ChecksPassed'
  BY <1>3 DEF Commit, Refuse, NewCall, ChecksPassed, TypeOK
<1>4. ASSUME calls' = calls
      PROVE  ChecksPassed'
  BY <1>4 DEF ChecksPassed
<1> QED
  BY <1>1, <1>2, <1>3, <1>4
  DEF Next, Transition, Change, CompleteTask, WriteBegin, WriteMatch, WriteNote, WriteLock,
      WriteCommit, WriteFails, vars

\* The steps that leave the row alone.
LEMMA RowMovers ==
  ASSUME [Next]_vars
  PROVE  \/ UNCHANGED <<report, open>>
         \/ \E c \in Calls : Commit(c)
         \/ \E w \in Writers : WriteCommit(w)
         \/ \E kind \in {"verify", "approve"} : CompleteTask(kind)
BY DEF Next, Transition, Change, Lock, Check, Refuse, WriteBegin, WriteMatch, WriteNote,
       WriteLock, WriteFails, vars

LEMMA StampsStep ==
  ASSUME TypeOK, OneHolder, ChecksPassed, StampsTellStatus, [Next]_vars
  PROVE  StampsTellStatus'
<1>1. ASSUME NEW c \in Calls, Commit(c)
      PROVE  StampsTellStatus'
  <2> DEFINE call == calls[c]
  <2>1. /\ report' = Stamped(call) /\ report'.status = call.target
        /\ Allowed(call.user, report.status, call.target) /\ call.target \in Statuses
    BY <1>1, CommitFits
  <2>2. report \in Report
    BY DEF TypeOK
  <2>3. CASE call.target = "ready"
    <3>1. call.confirm = TRUE
      BY <1>1, <2>3 DEF ChecksPassed, Commit, TypeOK, Call
    <3> QED BY <2>1, <2>2, <2>3, <3>1 DEF Stamped, Allowed, StampsTellStatus, Report
  <2>4. CASE call.target = "verified"
    BY <2>1, <2>2, <2>4, AccessOfReports DEF Stamped, Allowed, StampsTellStatus, Report
  <2>5. CASE call.target = "approved"
    BY <2>1, <2>2, <2>5 DEF Stamped, Allowed, StampsTellStatus, Report
  <2>6. CASE call.target = "draft"
    BY <2>1, <2>2, <2>6 DEF Stamped, StampsTellStatus, Report
  <2> QED BY <2>1, <2>3, <2>4, <2>5, <2>6 DEF Statuses
<1>2. ASSUME report' = report
      PROVE  StampsTellStatus'
  BY <1>2 DEF StampsTellStatus
<1>3. ASSUME NEW w \in Writers, WriteCommit(w)
      PROVE  StampsTellStatus'
  <2>1. report' = report \/ report' = AfterReset
    BY <1>3, ChangeFits
  <2>2. report \in Report
    BY DEF TypeOK
  <2>3. CASE report' = AfterReset
    BY <2>2, <2>3 DEF AfterReset, StampsTellStatus, Report
  <2> QED BY <1>2, <2>1, <2>3
<1> QED BY <1>1, <1>2, <1>3, RowMovers DEF CompleteTask

\* No status is skipped.
LEMMA StepUp ==
  ASSUME TypeOK, OneHolder, [Next]_vars,
         report'.status # report.status, report'.status # "draft"
  PROVE  <<report.status, report'.status>> \in
           {<<"draft", "ready">>, <<"ready", "verified">>, <<"verified", "approved">>}
<1>1. PICK c \in Calls : Commit(c)
  BY RowMovers, ChangeFits DEF CompleteTask
<1>2. Allowed(calls[c].user, report.status, report'.status) /\ report'.status \in Statuses
  BY <1>1, CommitFits
<1> QED BY <1>2 DEF Allowed, Statuses

-----------------------------------------------------------------------------
\* Tasks.

LEMMA TasksStep ==
  ASSUME TypeOK, OneHolder, NoTaskBehindTheReport, [Next]_vars
  PROVE  NoTaskBehindTheReport'
<1>1. ASSUME NEW c \in Calls, Commit(c)
      PROVE  NoTaskBehindTheReport'
  <2>1. report'.status = calls[c].target /\ calls[c].target \in Statuses
    BY <1>1, CommitFits
  <2>2. open' = TasksAfter(calls[c].target)
    BY <1>1 DEF Commit
  <2> QED BY <2>1, <2>2 DEF TasksAfter, Statuses, NoTaskBehindTheReport
<1>2. ASSUME report' = report, open' \subseteq open
      PROVE  NoTaskBehindTheReport'
  BY <1>2 DEF NoTaskBehindTheReport
<1>3. ASSUME NEW w \in Writers, WriteCommit(w)
      PROVE  NoTaskBehindTheReport'
  <2>1. open' = open /\ (report' = report \/ report'.status = "draft")
    BY <1>3, ChangeFits DEF WriteCommit
  <2> QED BY <2>1 DEF NoTaskBehindTheReport
<1> QED BY <1>1, <1>2, <1>3, RowMovers DEF CompleteTask

-----------------------------------------------------------------------------
\* Entries.

LEMMA EntriesStep ==
  ASSUME TypeOK, OneHolder, EntriesAreGuarded, [Next]_vars
  PROVE  EntriesAreGuarded'
<1> USE DEF EntriesAreGuarded, ChangeInvalidatesReview
<1>1. ASSUME NEW c \in Calls, NEW u \in Users, NEW target \in Statuses, NEW confirm \in BOOLEAN,
             Lock(c, u, target, confirm)
      PROVE  EntriesAreGuarded'
  <2>1. calls'[c].at = "locked" /\ \A d \in Calls \ {c} : calls'[d] = calls[d]
    BY <1>1 DEF Lock, TypeOK
  <2>2. UNCHANGED <<report, facts, writes>>
    BY <1>1 DEF Lock
  <2> QED BY <2>1, <2>2
<1>2. ASSUME NEW c \in Calls, Check(c)
      PROVE  EntriesAreGuarded'
  <2>1. calls'[c].read = facts.revision /\ calls'[c].target = calls[c].target
    BY <1>2 DEF Check, TypeOK, Call
  <2>2. \A d \in Calls \ {c} : calls'[d] = calls[d]
    BY <1>2 DEF Check, TypeOK
  <2>3. calls[c].target # "draft" => facts.complete["entries"]
    BY <1>2 DEF Check, Passes, AutomaticComplete, AllKinds, TypeOK, Call, Statuses
  <2>4. UNCHANGED <<report, facts, writes>>
    BY <1>2 DEF Check
  <2> QED BY <2>1, <2>2, <2>3, <2>4
<1>3. ASSUME NEW c \in Calls, Commit(c)
      PROVE  EntriesAreGuarded'
  <2>1. /\ report' = Stamped(calls[c]) /\ report'.status = calls[c].target
        /\ Allowed(calls[c].user, report.status, calls[c].target)
        /\ calls[c].target \in Statuses
        /\ report'.exists = (report.exists \/ calls[c].target = "ready")
        /\ \A d \in Calls : calls'[d].at \notin {"locked", "checked"}
    BY <1>3, CommitFits
  <2>2. facts' = facts /\ writes' = writes /\ calls[c].at = "checked"
    BY <1>3 DEF Commit
  <2>3. report'.read = IF calls[c].target = "ready" THEN calls[c].read ELSE report.read
    BY <2>1 DEF Stamped, Statuses, TypeOK, Report
  <2>4. calls[c].target \in {"verified", "approved"} => report.status # "draft"
    BY <2>1 DEF Allowed
  <2> QED BY <2>1, <2>2, <2>3, <2>4 DEF Statuses
<1>4. ASSUME NEW c \in Calls, Refuse(c)
      PROVE  EntriesAreGuarded'
  <2>1. calls'[c].at = "served" /\ \A d \in Calls \ {c} : calls'[d] = calls[d]
    BY <1>4 DEF Refuse, NewCall, TypeOK
  <2>2. UNCHANGED <<report, facts, writes>>
    BY <1>4 DEF Refuse
  <2> QED BY <2>1, <2>2
<1>5. ASSUME UNCHANGED <<report, facts, calls>>, NEW w \in Writers,
             writes'[w].at = "committing" /\ writes'[w].kind = "entries" => writes'[w].holds,
             \A v \in Writers \ {w} : writes'[v] = writes[v]
      PROVE  EntriesAreGuarded'
  BY <1>5
<1>6. ASSUME NEW w \in Writers, NEW kind \in Kinds, NEW complete \in BOOLEAN,
             WriteBegin(w, kind, complete)
      PROVE  EntriesAreGuarded'
  <2>1. writes'[w].at # "committing" /\ \A v \in Writers \ {w} : writes'[v] = writes[v]
    BY <1>6 DEF WriteBegin, NewWrite, TypeOK
  <2> QED BY <1>5, <1>6, <2>1 DEF WriteBegin
<1>7. ASSUME NEW w \in Writers, WriteMatch(w)
      PROVE  EntriesAreGuarded'
  <2>1. writes'[w].kind = writes[w].kind /\ \A v \in Writers \ {w} : writes'[v] = writes[v]
    BY <1>7 DEF WriteMatch, TypeOK, Write
  <2>2. writes[w].kind = "entries" => writes'[w].at = "waiting"
    BY <1>7 DEF WriteMatch, Matches, TypeOK, Write
  <2> QED BY <1>5, <1>7, <2>1, <2>2 DEF WriteMatch
<1>8. ASSUME NEW w \in Writers, WriteNote(w)
      PROVE  EntriesAreGuarded'
  <2>1. writes'[w].at = "rematching" /\ \A v \in Writers \ {w} : writes'[v] = writes[v]
    BY <1>8 DEF WriteNote, TypeOK, Write
  <2> QED BY <1>5, <1>8, <2>1 DEF WriteNote
<1>9. ASSUME NEW w \in Writers, WriteLock(w)
      PROVE  EntriesAreGuarded'
  <2>1. writes'[w].holds /\ \A v \in Writers \ {w} : writes'[v] = writes[v]
    BY <1>9 DEF WriteLock, TypeOK, Write
  <2> QED BY <1>5, <1>9, <2>1 DEF WriteLock
<1>10. ASSUME NEW w \in Writers, WriteFails(w)
       PROVE  EntriesAreGuarded'
  <2>1. writes'[w].at = "done" /\ \A v \in Writers \ {w} : writes'[v] = writes[v]
    BY <1>10 DEF WriteFails, NewWrite, TypeOK
  <2> QED BY <1>5, <1>10, <2>1 DEF WriteFails
<1>11. ASSUME NEW w \in Writers, WriteCommit(w)
       PROVE  EntriesAreGuarded'
  <2>1. writes'[w].at = "done" /\ \A v \in Writers \ {w} : writes'[v] = writes[v]
    BY <1>11 DEF WriteCommit, NewWrite, TypeOK
  <2>2. calls' = calls /\ writes[w].at = "committing"
    BY <1>11 DEF WriteCommit
  <2>3. /\ report' = report \/ report'.status = "draft"
        /\ report'.exists = report.exists /\ report'.read = report.read
        /\ writes[w].holds => \A c \in Calls : calls[c].at \notin {"locked", "checked"}
        /\ writes[w].holds => report'.status = "draft"
    BY <1>11, ChangeFits
  <2>4. CASE writes[w].kind = "entries"
    <3>1. writes[w].holds
      BY <2>2, <2>4
    <3> QED BY <2>1, <2>2, <2>3, <3>1
  <2>5. CASE writes[w].kind # "entries"
    <3>1. facts'.revision["entries"] = facts.revision["entries"]
          /\ facts'.complete["entries"] = facts.complete["entries"]
      BY <1>11, <2>5 DEF WriteCommit, TypeOK, Facts, AllKinds
    <3> QED BY <2>1, <2>2, <2>3, <3>1
  <2> QED BY <2>4, <2>5
<1>12. ASSUME UNCHANGED <<report, facts, calls, writes>>
       PROVE  EntriesAreGuarded'
  BY <1>12
<1> QED
  BY <1>1, <1>2, <1>3, <1>4, <1>6, <1>7, <1>8, <1>9, <1>10, <1>11, <1>12
  DEF Next, Transition, Change, CompleteTask, vars

-----------------------------------------------------------------------------
\* Theorems.

LEMMA InitHolds == Init => IInv /\ NoTaskBehindTheReport
<1> SUFFICES ASSUME Init PROVE IInv /\ NoTaskBehindTheReport
  OBVIOUS
<1>1. TypeOK
  <2>1. report \in Report /\ facts \in Facts
    BY AccessOfReports DEF Init, Report, Facts, Unread, Somebody, Statuses
  <2>2. calls \in [Calls -> Call] /\ writes \in [Writers -> Write]
    BY DEF Init, NewCall, NewWrite, Call, Write, Unread, Somebody, Statuses, AllKinds
  <2> QED BY <2>1, <2>2 DEF Init, TypeOK
<1>2. OneHolder /\ ChecksPassed
  BY DEF Init, OneHolder, Holds, ChecksPassed, NewCall, NewWrite
<1>3. StampsTellStatus /\ NoTaskBehindTheReport
  BY DEF Init, StampsTellStatus, NoTaskBehindTheReport
<1>4. Opened => EntriesAreGuarded
  BY DEF Init, EntriesAreGuarded, ChangeInvalidatesReview, NewCall, NewWrite, AllKinds
<1> QED BY <1>1, <1>2, <1>3, <1>4 DEF IInv

LEMMA InvariantStep == IInv /\ [Next]_vars => IInv'
<1> SUFFICES ASSUME IInv, [Next]_vars PROVE IInv'
  OBVIOUS
<1>1. TypeOK' /\ OneHolder' /\ ChecksPassed' /\ StampsTellStatus'
  BY TypeStep, HolderStep, ChecksPassedStep, StampsStep DEF IInv
<1>2. Opened => EntriesAreGuarded'
  BY EntriesStep DEF IInv
<1> QED BY <1>1, <1>2 DEF IInv

LEMMA InvariantHolds == Spec => []IInv
BY InitHolds, InvariantStep, PTL DEF Spec

\* The row, the history, the requests and the changes keep their types.
THEOREM ReportTypeInvariant == Spec => []TypeOK
<1>1. IInv => TypeOK
  BY DEF IInv
<1> QED BY InvariantHolds, <1>1, PTL

\* Between SELECT ... FOR UPDATE and COMMIT nobody else has the row, so the
\* status Transition has decided on is still the status it replaces.
THEOREM RowLockOfReport == Spec => []OneHolder
<1>1. IInv => OneHolder
  BY DEF IInv
<1> QED BY InvariantHolds, <1>1, PTL

\* The stamps, the confirmation and the answer of the counterparty always tell
\* the status, whichever way transitions and resets have reached it.
THEOREM StampsFollowStatus == Spec => []StampsTellStatus
<1>1. IInv => StampsTellStatus
  BY DEF IInv
<1> QED BY InvariantHolds, <1>1, PTL

\* No request and no trigger brings a report to a status past the next one.
THEOREM NobodySkipsReview == Spec => StepsUpOne
<1>1. IInv /\ [Next]_vars =>
        [report'.status # report.status /\ report'.status # "draft" =>
           <<report.status, report'.status>> \in
             {<<"draft", "ready">>, <<"ready", "verified">>, <<"verified", "approved">>}]_vars
  BY StepUp DEF IInv
<1> QED BY InvariantHolds, <1>1, PTL DEF Spec, StepsUpOne

\* Once its row exists, a report is under review only with the entries that were
\* read when it was made ready.
THEOREM EntriesStayCurrent == Spec => []EntriesUnderReviewAreCurrent
<1>1. IInv => EntriesUnderReviewAreCurrent
  BY DEF IInv, EntriesAreGuarded, EntriesUnderReviewAreCurrent
<1> QED BY InvariantHolds, <1>1, PTL

\* ... and with complete entries.
THEOREM EntriesStayComplete == Spec => []ReviewedEntriesAreComplete
<1>1. IInv => ReviewedEntriesAreComplete
  BY DEF IInv, EntriesAreGuarded, ReviewedEntriesAreComplete
<1> QED BY InvariantHolds, <1>1, PTL

\* Nobody is asked for a step the report has left behind.
THEOREM TasksFollowReport == Spec => []NoTaskBehindTheReport
<1>1. IInv /\ NoTaskBehindTheReport /\ [Next]_vars => NoTaskBehindTheReport'
  BY TasksStep DEF IInv
<1> QED BY InitHolds, InvariantHolds, <1>1, PTL DEF Spec
=============================================================================
