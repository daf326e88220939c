------------------------ MODULE WorkflowTasks_proofs ------------------------
(***************************************************************************)
(* Proofs about WorkflowTasks, for every set of users, requests, workers   *)
(* and subjects and every permission table.                                *)
(***************************************************************************)
EXTENDS WorkflowTasks, SequenceTheorems, TLAPS

Needs == [role : Roles, permission : Permissions, partner : BOOLEAN]

\* Sequences of one element.
LEMMA OneEvent ==
  ASSUME NEW S, NEW e \in S
  PROVE  <<e>> \in Seq(S)
OBVIOUS

-----------------------------------------------------------------------------
\* The chain.

\* Somebody is a candidate at some step: the last one takes "nobody".
LEMMA RouteExists ==
  ASSUME NEW need
  PROVE  /\ RouteOf(need) \in Routes
         /\ Candidates(need, RouteOf(need)) # {}
<1> DEFINE Some(i) == Candidates(need, Chain[i]) # {}
<1> DEFINE First(i) == Some(i) /\ \A j \in 1..(i - 1) : ~Some(j)
<1>1. Some(5)
  BY DEF Candidates, Chain
<1>2. \E i \in 1..5 : First(i)
  <2> HIDE DEF Some
  <2>1. CASE Some(1)
    BY <2>1
  <2>2. CASE ~Some(1) /\ Some(2)
    BY <2>2
  <2>3. CASE ~Some(1) /\ ~Some(2) /\ Some(3)
    BY <2>3
  <2>4. CASE ~Some(1) /\ ~Some(2) /\ ~Some(3) /\ Some(4)
    BY <2>4
  <2>5. CASE ~Some(1) /\ ~Some(2) /\ ~Some(3) /\ ~Some(4)
    <3>1. \A j \in 1..(5 - 1) : j = 1 \/ j = 2 \/ j = 3 \/ j = 4
      OBVIOUS
    <3> QED BY <1>1, <2>5, <3>1
  <2> QED BY <2>1, <2>2, <2>3, <2>4, <2>5
<1> DEFINE k == CHOOSE i \in 1..5 : First(i)
<1>3. k \in 1..5 /\ First(k)
  <2> HIDE DEF First
  <2> QED BY <1>2
<1>4. RouteOf(need) = Chain[k]
  BY DEF RouteOf
<1>5. \A i \in 1..5 : Chain[i] \in Routes
  BY DEF Chain, Routes
<1> HIDE DEF k
<1>6. Candidates(need, Chain[k]) # {}
  BY <1>3
<1> QED BY <1>3, <1>4, <1>5, <1>6

\* Candidates of a step are users, save on the last one.
LEMMA CandidatesAreUsers ==
  ASSUME NEW need, NEW route \in Routes
  PROVE  IF route = "unassigned" THEN Candidates(need, route) = {NoUser}
         ELSE Candidates(need, route) \subseteq Users
<1>1. ForPartner \subseteq Users /\ \A role : ActiveIn(role) \subseteq Users
  BY DEF ForPartner, ActiveIn
<1>2. Specialists(need) \subseteq Users
  BY <1>1 DEF Specialists
<1> QED BY <1>1, <1>2 DEF Candidates, Routes

\* A candidate at a step of the fallback stands for somebody with the right.
LEMMA CandidatesHaveTheRight ==
  ASSUME NEW need, NEW route \in Routes, Candidates(need, route) # {}
  PROVE  /\ route = "curator" => need.partner /\ Delegates("curator", need.permission)
         /\ route \in {"org_admin", "super_admin"} => Allows(route, need.permission)
BY DEF Candidates, Routes

\* What Resolve returns is a decision, and it fits the task.
LEMMA ResolveFits ==
  ASSUME NEW need, NEW d \in Resolve(need)
  PROVE  d \in Decision /\ Fits(need, d)
<1> DEFINE route == RouteOf(need)
<1>1. route \in Routes /\ Candidates(need, route) # {}
  BY RouteExists
<1>2. PICK u \in Preferred(need, route) : d = [assignee |-> u, route |-> route]
  BY DEF Resolve
<1>3. Preferred(need, route) \subseteq Candidates(need, route)
  BY DEF Preferred, LongestAssigned, Lightest, Candidates
<1> HIDE DEF route
<1>4. IF route = "unassigned" THEN u = NoUser ELSE u \in Users
  BY <1>1, <1>2, <1>3, CandidatesAreUsers
<1>5. u \in Users => u # NoUser
  BY UsersAssumption
<1>6. d.assignee = u /\ d.route = route
  BY <1>2
<1>7. d \in Decision
  BY <1>1, <1>2, <1>4 DEF Decision
<1>8. Fits(need, d)
  BY <1>1, <1>4, <1>5, <1>6, CandidatesHaveTheRight DEF Fits
<1> QED BY <1>7, <1>8

-----------------------------------------------------------------------------
\* What the three writes do to the tables.

RowsAreTyped ==
  /\ tasks \in Seq(Task)
  /\ history \in Seq(Seq(Event))
  /\ Len(history) = Len(tasks)

\* A row of the table, and its task.
LEMMA RowType ==
  ASSUME RowsAreTyped, NEW t \in DOMAIN tasks
  PROVE  /\ tasks[t] \in Task /\ history[t] \in Seq(Event)
         /\ t \in Nat \ {0} /\ t \in DOMAIN history
         /\ Need(t) \in Needs
<1>1. t \in 1..Len(tasks) /\ Len(tasks) \in Nat
  BY DEF RowsAreTyped
<1>2. tasks[t] \in Task /\ history[t] \in Seq(Event) /\ t \in DOMAIN history
  BY <1>1 DEF RowsAreTyped
<1>3. Need(t) \in Needs
  BY <1>2, RbacAssumption DEF Need, Needs, Task
<1> QED BY <1>1, <1>2, <1>3

\* Every event written has the type of an event.
LEMMA EventType ==
  ASSUME NEW action \in {"created", "reassigned", "reassign_attempt", "completed", "cancelled"},
         NEW from \in Users \cup {NoUser}, NEW to \in Users \cup {NoUser}, NEW route \in Routes,
         NEW actor \in Users \cup {NoUser}, NEW byWorkflow \in BOOLEAN
  PROVE  Happened(action, from, to, route, actor, byWorkflow) \in Event
BY DEF Happened, Event

\* insertEvent adds one event to one history.
LEMMA RecordAppends ==
  ASSUME RowsAreTyped, NEW t \in DOMAIN tasks, NEW event \in Event, Record(t, event)
  PROVE  /\ history' \in Seq(Seq(Event)) /\ Len(history') = Len(history)
         /\ \A u \in DOMAIN history : u # t => history'[u] = history[u]
         /\ history'[t] = Append(history[t], event)
<1>1. history[t] \in Seq(Event) /\ t \in DOMAIN history
  BY RowType
<1>2. Append(history[t], event) \in Seq(Event)
  BY <1>1
<1>3. history' = [history EXCEPT ![t] = Append(history[t], event)]
  BY DEF Record
<1> DEFINE longer == Append(history[t], event)
<1> HIDE DEF longer
<1>4. history' = [history EXCEPT ![t] = longer] /\ longer \in Seq(Event)
  BY <1>2, <1>3 DEF longer
<1>5. history' \in Seq(Seq(Event)) /\ Len(history') = Len(history)
  BY <1>1, <1>4, ExceptSeq DEF RowsAreTyped
<1> QED BY <1>1, <1>4, <1>5 DEF longer

\* What every step keeps of the rows there are: their place and their subject,
\* and with it what they need; and a closed row with its history altogether.
RowsStay ==
  /\ \A t \in DOMAIN tasks :
       t \in DOMAIN tasks' /\ tasks'[t].subject = tasks[t].subject
  /\ \A t \in DOMAIN tasks : ~IsOpen(t) => tasks'[t] = tasks[t] /\ history'[t] = history[t]
  /\ \A t \in DOMAIN tasks : \A i \in DOMAIN history[t] :
       i \in DOMAIN history'[t] /\ history'[t][i] = history[t][i]

RowInvariants == RowsAreTyped /\ FallbackGrantsNoRights /\ DoneBySomebody /\ OneOpenTask

\* Appending an event keeps the events there are.
LEMMA AppendKeeps ==
  ASSUME NEW S, NEW h \in Seq(S), NEW e \in S
  PROVE  \A i \in DOMAIN h : i \in DOMAIN Append(h, e) /\ Append(h, e)[i] = h[i]
OBVIOUS

LEMMA EventsKept ==
  ASSUME NEW t \in DOMAIN tasks, NEW event \in Event,
         \A u \in DOMAIN tasks : history[u] \in Seq(Event) /\ u \in DOMAIN history,
         \A u \in DOMAIN history : u # t => history'[u] = history[u],
         history'[t] = Append(history[t], event)
  PROVE  \A u \in DOMAIN tasks : \A i \in DOMAIN history[u] :
           i \in DOMAIN history'[u] /\ history'[u][i] = history[u][i]
<1>1. \A i \in DOMAIN history[t] :
        i \in DOMAIN history'[t] /\ history'[t][i] = history[t][i]
  <2>1. history[t] \in Seq(Event)
    OBVIOUS
  <2> QED BY <2>1, AppendKeeps
<1> QED BY <1>1

\* No statement writes the tables.
LEMMA RowsUntouched ==
  ASSUME RowInvariants, UNCHANGED <<tasks, history>>
  PROVE  RowInvariants' /\ RowsStay /\ \A t \in DOMAIN tasks : tasks'[t] = tasks[t]
<1>1. RowInvariants'
  BY DEF RowInvariants, RowsAreTyped, FallbackGrantsNoRights, DoneBySomebody, OneOpenTask,
         Fits, Need, IsOpen
<1>2. RowsStay
  BY DEF RowsStay
<1> QED BY <1>1, <1>2

\* An event on an open row, and no change of the row.
LEMMA RowAttempted ==
  ASSUME RowInvariants, NEW t \in DOMAIN tasks, IsOpen(t),
         NEW event \in Event, Record(t, event), UNCHANGED tasks
  PROVE  RowInvariants' /\ RowsStay /\ \A u \in DOMAIN tasks : tasks'[u] = tasks[u]
<1>1. RowsAreTyped
  BY DEF RowInvariants
<1>2. /\ history' \in Seq(Seq(Event)) /\ Len(history') = Len(history)
      /\ \A u \in DOMAIN history : u # t => history'[u] = history[u]
      /\ history'[t] = Append(history[t], event)
  BY <1>1, RecordAppends
<1>3. RowInvariants'
  BY <1>2 DEF RowInvariants, RowsAreTyped, FallbackGrantsNoRights, DoneBySomebody, OneOpenTask,
         Fits, Need, IsOpen
<1>4. \A u \in DOMAIN tasks : history[u] \in Seq(Event) /\ u \in DOMAIN history
  BY <1>1, RowType
<1>5. \A u \in DOMAIN tasks : \A i \in DOMAIN history[u] :
        i \in DOMAIN history'[u] /\ history'[u][i] = history[u][i]
  BY <1>2, <1>4, EventsKept
<1>6. RowsStay
  BY <1>2, <1>4, <1>5 DEF RowsStay
<1> QED BY <1>3, <1>6

\* INSERT INTO workflow_tasks.
LEMMA RowInserted ==
  ASSUME RowInvariants, NEW s \in Subjects, NEW d \in Decision, Fits(NeedOf[s], d),
         NoOpenTask(s), NEW user \in Users,
         tasks' = Append(tasks, [subject |-> s, status |-> "open", assignee |-> d.assignee,
                                 route |-> d.route, completedBy |-> NoUser]),
         history' = Append(history,
                      <<Happened("created", NoUser, d.assignee, d.route, user, FALSE)>>)
  PROVE  RowInvariants' /\ RowsStay /\ \A u \in DOMAIN tasks : tasks'[u] = tasks[u]
<1> DEFINE row == [subject |-> s, status |-> "open", assignee |-> d.assignee,
                   route |-> d.route, completedBy |-> NoUser]
<1> DEFINE first == <<Happened("created", NoUser, d.assignee, d.route, user, FALSE)>>
<1>1. RowsAreTyped
  BY DEF RowInvariants
<1>n. PICK n \in Nat : n = Len(tasks) + 1
  BY <1>1 DEF RowsAreTyped
<1>2. row \in Task
  BY DEF Task, Decision
<1>3. first \in Seq(Event)
  <2>1. Happened("created", NoUser, d.assignee, d.route, user, FALSE) \in Event
    BY EventType DEF Decision
  <2> QED BY <2>1, OneEvent
<1>4. /\ row.subject = s /\ row.status = "open" /\ row.completedBy = NoUser
      /\ row.route = d.route /\ row.assignee = d.assignee
  OBVIOUS
<1> HIDE DEF row, first
<1>5. tasks' = Append(tasks, row) /\ history' = Append(history, first)
  BY DEF row, first
<1>6. RowsAreTyped'
  <2>1. tasks' \in Seq(Task) /\ Len(tasks') = Len(tasks) + 1
    BY <1>1, <1>2, <1>5 DEF RowsAreTyped
  <2>2. history' \in Seq(Seq(Event)) /\ Len(history') = Len(history) + 1
    <3>1. history \in Seq(Seq(Event)) /\ first \in Seq(Event)
      BY <1>1, <1>3 DEF RowsAreTyped
    <3>2. Append(history, first) \in Seq(Seq(Event)) /\ Len(Append(history, first)) = Len(history) + 1
      BY ONLY <3>1, AppendProperties, Zenon
    <3> QED BY <1>5, <3>2
  <2> QED BY <1>1, <2>1, <2>2 DEF RowsAreTyped
<1>7. /\ DOMAIN tasks' = DOMAIN tasks \cup {n} /\ n \notin DOMAIN tasks
      /\ \A u \in DOMAIN tasks : tasks'[u] = tasks[u]
      /\ tasks'[n] = row
  BY <1>1, <1>2, <1>5, <1>n DEF RowsAreTyped
<1>8. \A u \in DOMAIN tasks : history'[u] = history[u]
  BY <1>1, <1>3, <1>5 DEF RowsAreTyped
<1>9. FallbackGrantsNoRights'
  <2>1. \A u \in DOMAIN tasks : Fits(Need(u), tasks[u])
    BY DEF RowInvariants, FallbackGrantsNoRights
  <2>2. \A u \in DOMAIN tasks : Need(u)' = Need(u)
    BY <1>7 DEF Need
  <2>3. Need(n)' = NeedOf[s] /\ Fits(NeedOf[s], row)
    BY <1>4, <1>7 DEF Need, Fits
  <2>4. \A u \in DOMAIN tasks' : Fits(Need(u)', tasks'[u])
    BY <1>7, <2>1, <2>2, <2>3
  <2> QED BY <2>4 DEF FallbackGrantsNoRights, Fits
<1>10. DoneBySomebody'
  BY <1>4, <1>7 DEF RowInvariants, DoneBySomebody
<1>11. OneOpenTask'
  BY <1>4, <1>7 DEF RowInvariants, OneOpenTask, NoOpenTask, IsOpen
<1>12. RowsStay
  BY <1>7, <1>8 DEF RowsStay
<1> QED BY <1>6, <1>7, <1>9, <1>10, <1>11, <1>12 DEF RowInvariants

\* The UPDATE of Reassign on an open row.
LEMMA RowMoved ==
  ASSUME RowInvariants, NEW t \in DOMAIN tasks, IsOpen(t), NEW d \in Decision,
         Fits(Need(t), d), NEW actor \in Users \cup {NoUser}, Move(t, d, actor)
  PROVE  /\ RowInvariants' /\ RowsStay
         /\ \A u \in DOMAIN tasks : tasks'[u].status = tasks[u].status
<1>1. RowsAreTyped /\ tasks[t] \in Task
  BY RowType DEF RowInvariants
<1> DEFINE event == Happened("reassigned", tasks[t].assignee, d.assignee, d.route, actor, FALSE)
<1>2. event \in Event
  BY <1>1, EventType DEF Task, Decision
<1>3. Record(t, event)
  BY DEF Move
<1> HIDE DEF event
<1>4. /\ history' \in Seq(Seq(Event)) /\ Len(history') = Len(history)
      /\ \A u \in DOMAIN history : u # t => history'[u] = history[u]
      /\ history'[t] = Append(history[t], event)
  BY <1>1, <1>2, <1>3, RecordAppends
<1> DEFINE row == [tasks[t] EXCEPT !.assignee = d.assignee, !.route = d.route]
<1>5. row \in Task
  BY <1>1 DEF Task, Decision
<1>6. /\ row.subject = tasks[t].subject /\ row.status = tasks[t].status
      /\ row.completedBy = tasks[t].completedBy
      /\ row.assignee = d.assignee /\ row.route = d.route
  BY <1>1 DEF Task
<1>7. tasks' = [tasks EXCEPT ![t] = row]
  BY DEF Move
<1> HIDE DEF row
<1>8. t \in 1..Len(tasks) /\ tasks \in Seq(Task)
  BY <1>1 DEF RowsAreTyped
<1>9. /\ tasks' \in Seq(Task) /\ Len(tasks') = Len(tasks) /\ DOMAIN tasks' = DOMAIN tasks
      /\ \A u \in DOMAIN tasks : u # t => tasks'[u] = tasks[u]
      /\ tasks'[t] = row
  BY <1>5, <1>7, <1>8, ExceptSeq
<1>10. RowsAreTyped'
  BY <1>1, <1>4, <1>9 DEF RowsAreTyped
<1>11. FallbackGrantsNoRights'
  <2>1. \A u \in DOMAIN tasks : Fits(Need(u), tasks[u])
    BY DEF RowInvariants, FallbackGrantsNoRights
  <2>2. \A u \in DOMAIN tasks : Need(u)' = Need(u)
    BY <1>6, <1>9 DEF Need
  <2>3. Fits(Need(t), row)
    BY <1>6 DEF Fits
  <2>4. \A u \in DOMAIN tasks' : Fits(Need(u)', tasks'[u])
    BY <1>9, <2>1, <2>2, <2>3
  <2> QED BY <2>4 DEF FallbackGrantsNoRights, Fits
<1>12. DoneBySomebody'
  BY <1>6, <1>9 DEF RowInvariants, DoneBySomebody
<1>13. OneOpenTask'
  BY <1>6, <1>9 DEF RowInvariants, OneOpenTask, IsOpen
<1>14. \A u \in DOMAIN tasks : history[u] \in Seq(Event) /\ u \in DOMAIN history
  BY <1>1, RowType
<1>15. \A u \in DOMAIN tasks : \A i \in DOMAIN history[u] :
         i \in DOMAIN history'[u] /\ history'[u][i] = history[u][i]
  BY <1>2, <1>4, <1>14, EventsKept
<1>16. RowsStay
  BY <1>4, <1>6, <1>9, <1>14, <1>15 DEF RowsStay
<1> QED BY <1>6, <1>9, <1>10, <1>11, <1>12, <1>13, <1>16 DEF RowInvariants

\* The UPDATE of Complete and of CloseBySubject on an open row.
LEMMA RowFinished ==
  ASSUME RowInvariants, NEW t \in DOMAIN tasks, IsOpen(t), NEW status \in {"done", "cancelled"},
         NEW actor \in Users, NEW byWorkflow \in BOOLEAN, Finish(t, status, actor, byWorkflow)
  PROVE  /\ RowInvariants' /\ RowsStay
         /\ \A u \in DOMAIN tasks : u # t => tasks'[u].status = tasks[u].status
<1>1. RowsAreTyped /\ tasks[t] \in Task
  BY RowType DEF RowInvariants
<1> DEFINE event == Happened(IF status = "done" THEN "completed" ELSE "cancelled",
                             tasks[t].assignee, tasks[t].assignee, tasks[t].route, actor, byWorkflow)
<1>2. event \in Event
  BY <1>1, EventType DEF Task
<1>3. Record(t, event)
  BY DEF Finish
<1> HIDE DEF event
<1>4. /\ history' \in Seq(Seq(Event)) /\ Len(history') = Len(history)
      /\ \A u \in DOMAIN history : u # t => history'[u] = history[u]
      /\ history'[t] = Append(history[t], event)
  BY <1>1, <1>2, <1>3, RecordAppends
<1> DEFINE author == IF status = "done" THEN actor ELSE NoUser
<1> DEFINE row == [tasks[t] EXCEPT !.status = status, !.completedBy = author]
<1>5. row \in Task
  BY <1>1 DEF Task
<1>6. /\ row.subject = tasks[t].subject /\ row.assignee = tasks[t].assignee
      /\ row.route = tasks[t].route /\ row.status = status /\ row.completedBy = author
  BY <1>1 DEF Task
<1>7. tasks' = [tasks EXCEPT ![t] = row]
  BY DEF Finish
<1>8. (status = "done") = (author # NoUser)
  BY UsersAssumption
<1> HIDE DEF row, author
<1>9. t \in 1..Len(tasks) /\ tasks \in Seq(Task)
  BY <1>1 DEF RowsAreTyped
<1>10. /\ tasks' \in Seq(Task) /\ Len(tasks') = Len(tasks) /\ DOMAIN tasks' = DOMAIN tasks
       /\ \A u \in DOMAIN tasks : u # t => tasks'[u] = tasks[u]
       /\ tasks'[t] = row
  BY <1>5, <1>7, <1>9, ExceptSeq
<1>11. RowsAreTyped'
  BY <1>1, <1>4, <1>10 DEF RowsAreTyped
<1>12. FallbackGrantsNoRights'
  <2>1. \A u \in DOMAIN tasks : Fits(Need(u), tasks[u])
    BY DEF RowInvariants, FallbackGrantsNoRights
  <2>2. \A u \in DOMAIN tasks : Need(u)' = Need(u)
    BY <1>6, <1>10 DEF Need
  <2>3. Fits(Need(t), row)
    BY <1>6, <2>1 DEF Fits
  <2>4. \A u \in DOMAIN tasks' : Fits(Need(u)', tasks'[u])
    BY <1>10, <2>1, <2>2, <2>3
  <2> QED BY <2>4 DEF FallbackGrantsNoRights, Fits
<1>13. DoneBySomebody'
  BY <1>6, <1>8, <1>10 DEF RowInvariants, DoneBySomebody
<1>14. OneOpenTask'
  BY <1>6, <1>10 DEF RowInvariants, OneOpenTask, IsOpen
<1>15. \A u \in DOMAIN tasks : history[u] \in Seq(Event) /\ u \in DOMAIN history
  BY <1>1, RowType
<1>16. \A u \in DOMAIN tasks : \A i \in DOMAIN history[u] :
         i \in DOMAIN history'[u] /\ history'[u][i] = history[u][i]
  BY <1>2, <1>4, <1>15, EventsKept
<1>17. RowsStay
  BY <1>4, <1>6, <1>10, <1>15, <1>16 DEF RowsStay
<1> QED BY <1>10, <1>11, <1>12, <1>13, <1>14, <1>17 DEF RowInvariants

-----------------------------------------------------------------------------
\* Requests and passes.

Places == {"idle", "insert", "existing", "reassign", "complete", "served", "no_rows"}

LEMMA CallForms ==
  ASSUME NEW at \in Places, NEW u \in Users, NEW s \in Subjects, NEW t \in Nat,
         NEW d \in Decision, NEW kept \in BOOLEAN
  PROVE  /\ At(at) \in Call
         /\ [At(at) EXCEPT !.subject = s] \in Call
         /\ [At(at) EXCEPT !.user = u, !.task = t] \in Call
         /\ [At(at) EXCEPT !.user = u, !.subject = s, !.decision = d] \in Call
         /\ [At(at) EXCEPT !.user = u, !.task = t, !.decision = d, !.kept = kept] \in Call
<1>1. Nobody \in Decision
  BY DEF Nobody, Decision, Routes
<1>2. At(at) \in Call
  BY <1>1 DEF At, Call, Places
<1>3. /\ [At(at) EXCEPT !.subject = s] \in Call
      /\ [At(at) EXCEPT !.user = u, !.task = t] \in Call
      /\ [At(at) EXCEPT !.user = u, !.subject = s, !.decision = d] \in Call
  BY <1>2 DEF Call
<1>4. [At(at) EXCEPT !.user = u, !.task = t, !.decision = d] \in Call
  BY <1>2 DEF Call
<1>5. \A call \in Call : [call EXCEPT !.kept = kept] \in Call
  BY ZenonT(20) DEF Call
<1>6. [At(at) EXCEPT !.user = u, !.task = t, !.decision = d, !.kept = kept] =
      [[At(at) EXCEPT !.user = u, !.task = t, !.decision = d] EXCEPT !.kept = kept]
  BY DEF At
<1> QED BY <1>2, <1>3, <1>4, <1>5, <1>6

LEMMA SweepForms ==
  ASSUME NEW queue \in SUBSET Nat, NEW t \in Nat, NEW d \in Decision, NEW kept \in BOOLEAN
  PROVE  /\ Waiting(queue) \in Sweep
         /\ [queue |-> queue, task |-> t, decision |-> d, kept |-> kept] \in Sweep
<1>1. Nobody \in Decision
  BY DEF Nobody, Decision, Routes
<1> QED BY <1>1 DEF Waiting, Sweep

LEMMA KeptIsBoolean ==
  ASSUME NEW t, NEW d
  PROVE  StillValid(t, d) \in BOOLEAN
BY DEF StillValid

\* A request or a pass that reads nothing new keeps what it has read.
LEMMA CallStays ==
  ASSUME RowsStay, NEW c \in Calls, CallFits(c), calls'[c] = calls[c]
  PROVE  CallFits(c)'
<1>1. \A t \in DOMAIN tasks : t \in DOMAIN tasks' /\ Need(t)' = Need(t)
  BY DEF RowsStay, Need
<1> QED BY <1>1 DEF CallFits, Fits

LEMMA SweepStays ==
  ASSUME RowsStay, NEW w \in Workers, SweepFits(w), sweeps'[w] = sweeps[w]
  PROVE  SweepFits(w)'
<1>1. \A t \in DOMAIN tasks : t \in DOMAIN tasks' /\ Need(t)' = Need(t)
  BY DEF RowsStay, Need
<1> QED BY <1>1 DEF SweepFits, Fits

\* A request that holds no decision any more has nothing to fit.
LEMMA CallEnds ==
  ASSUME NEW c \in Calls, calls'[c].at \in {"existing", "served", "no_rows"}
  PROVE  CallFits(c)'
BY DEF CallFits

\* While nobody takes a lock and no locked row changes its status, the locks hold.
LEMMA LocksStay ==
  ASSUME RowsAreTyped, LocksHold, DecisionsFit,
         \A c \in Calls : calls'[c].at = "reassign" => calls'[c] = calls[c],
         \A w \in Workers : sweeps'[w].task # 0 => sweeps'[w].task = sweeps[w].task,
         \A t \in DOMAIN tasks : Locked(t) => tasks'[t].status = tasks[t].status
  PROVE  LocksHold'
<1>1. \A c \in Calls : calls[c].at = "reassign" =>
        calls[c].task \in DOMAIN tasks /\ Locked(calls[c].task)
  BY DEF DecisionsFit, CallFits, Locked
<1>2. \A w \in Workers : sweeps[w].task # 0 =>
        sweeps[w].task \in DOMAIN tasks /\ Locked(sweeps[w].task)
  BY DEF DecisionsFit, SweepFits, Locked
<1>3. ASSUME NEW c \in Calls, calls'[c].at = "reassign"
      PROVE  /\ IsOpen(calls[c].task)'
             /\ \A other \in Calls \ {c} :
                  ~(calls'[other].at = "reassign" /\ calls'[other].task = calls'[c].task)
             /\ \A w \in Workers : sweeps'[w].task # calls'[c].task
  <2>1. calls'[c] = calls[c] /\ calls[c].at = "reassign"
    BY <1>3
  <2>2. IsOpen(calls[c].task)'
    BY <1>1, <2>1 DEF LocksHold, IsOpen
  <2>3. \A other \in Calls \ {c} :
          ~(calls'[other].at = "reassign" /\ calls'[other].task = calls'[c].task)
    BY <2>1 DEF LocksHold
  <2>4. calls[c].task # 0
    BY <1>1, <2>1, RowType
  <2>5. \A w \in Workers : sweeps'[w].task # calls'[c].task
    BY <2>1, <2>4 DEF LocksHold
  <2> QED BY <2>2, <2>3, <2>5
<1>4. ASSUME NEW w \in Workers, sweeps'[w].task # 0
      PROVE  /\ IsOpen(sweeps[w].task)'
             /\ \A other \in Workers \ {w} : sweeps'[other].task # sweeps'[w].task
  <2>1. sweeps'[w].task = sweeps[w].task /\ sweeps[w].task # 0
    BY <1>4
  <2>2. IsOpen(sweeps[w].task)'
    BY <1>2, <2>1 DEF LocksHold, IsOpen
  <2>3. \A other \in Workers \ {w} : sweeps'[other].task # sweeps'[w].task
    BY <2>1 DEF LocksHold
  <2> QED BY <2>2, <2>3
<1> QED BY <1>3, <1>4 DEF LocksHold, IsOpen

-----------------------------------------------------------------------------
\* The inductive invariant, and what a step keeps.

ControlIsTyped ==
  /\ users \in [Users -> [active : BOOLEAN, role : Roles]]
  /\ since \in [Users -> Nat]
  /\ calls \in [Calls -> Call]
  /\ sweeps \in [Workers -> Sweep]
  /\ changes \in 0..MaxChanges /\ failures \in 0..MaxFailures

IInv == ControlIsTyped /\ RowInvariants /\ DecisionsFit /\ LocksHold

LEMMA Initial == Init => IInv
<1> SUFFICES ASSUME Init PROVE IInv
  OBVIOUS
<1> USE DEF Init
<1>1. ControlIsTyped
  <2>1. users \in [Users -> [active : BOOLEAN, role : Roles]]
    BY UsersAssumption
  <2>2. \A c \in Calls : At("idle") \in Call
    <3>1. Nobody \in Decision
      BY DEF Nobody, Decision, Routes
    <3> QED BY <3>1 DEF At, Call
  <2>3. NoSweep \in Sweep
    <3>1. Nobody \in Decision
      BY DEF Nobody, Decision, Routes
    <3> QED BY <3>1 DEF NoSweep, Waiting, Sweep
  <2> QED BY <2>1, <2>2, <2>3, TaskBoundsAssumption DEF ControlIsTyped
<1>2. RowInvariants
  <2>1. DOMAIN tasks = {}
    OBVIOUS
  <2>2. RowsAreTyped
    BY DEF RowsAreTyped
  <2> QED BY <2>1, <2>2 DEF RowInvariants, FallbackGrantsNoRights, DoneBySomebody, OneOpenTask
<1>3. DecisionsFit /\ LocksHold
  BY DEF DecisionsFit, LocksHold, CallFits, SweepFits, At, NoSweep, Waiting
<1> QED BY <1>1, <1>2, <1>3 DEF IInv

\* A call goes on, having taken no lock.
LEMMA CallGoesOn ==
  ASSUME IInv, NEW c \in Calls, NEW call \in Call, Goto(c, call), call.at # "reassign",
         UNCHANGED <<users, since, sweeps, changes, failures>>,
         RowInvariants', RowsStay, CallFits(c)',
         \A t \in DOMAIN tasks : Locked(t) => tasks'[t].status = tasks[t].status
  PROVE  IInv'
<1>1. /\ calls' \in [Calls -> Call] /\ calls'[c] = call
      /\ \A other \in Calls : other # c => calls'[other] = calls[other]
  BY DEF IInv, ControlIsTyped, Goto
<1>2. ControlIsTyped'
  BY <1>1 DEF IInv, ControlIsTyped
<1>3. DecisionsFit'
  <2>1. \A other \in Calls : CallFits(other)'
    BY <1>1, CallStays DEF IInv, DecisionsFit
  <2>2. \A w \in Workers : SweepFits(w)'
    BY SweepStays DEF IInv, DecisionsFit
  <2> QED BY <2>1, <2>2 DEF DecisionsFit
<1>4. LocksHold'
  <2>1. \A d \in Calls : calls'[d].at = "reassign" => calls'[d] = calls[d]
    BY <1>1
  <2>2. RowsAreTyped /\ LocksHold /\ DecisionsFit
    BY DEF IInv, RowInvariants
  <2> QED BY <2>1, <2>2, LocksStay
<1> QED BY <1>2, <1>3, <1>4 DEF IInv

\* A pass goes on, having taken no lock.
LEMMA SweepGoesOn ==
  ASSUME IInv, NEW w \in Workers, NEW sweep \in Sweep, sweeps' = [sweeps EXCEPT ![w] = sweep],
         sweep.task = 0, sweep.queue \subseteq DOMAIN tasks,
         UNCHANGED <<users, since, calls, changes>>, failures' \in 0..MaxFailures,
         RowInvariants', RowsStay,
         \A t \in DOMAIN tasks : Locked(t) => tasks'[t].status = tasks[t].status
  PROVE  IInv'
<1>1. /\ sweeps' \in [Workers -> Sweep] /\ sweeps'[w] = sweep
      /\ \A other \in Workers : other # w => sweeps'[other] = sweeps[other]
  BY DEF IInv, ControlIsTyped
<1>2. ControlIsTyped'
  BY <1>1 DEF IInv, ControlIsTyped
<1>3. DecisionsFit'
  <2>1. \A c \in Calls : CallFits(c)'
    BY CallStays DEF IInv, DecisionsFit
  <2>2. SweepFits(w)'
    BY <1>1 DEF SweepFits, RowsStay
  <2>3. \A other \in Workers : SweepFits(other)'
    BY <1>1, <2>2, SweepStays DEF IInv, DecisionsFit
  <2> QED BY <2>1, <2>3 DEF DecisionsFit
<1>4. LocksHold'
  <2>1. \A v \in Workers : sweeps'[v].task # 0 => sweeps'[v].task = sweeps[v].task
    BY <1>1
  <2>2. RowsAreTyped /\ LocksHold /\ DecisionsFit
    BY DEF IInv, RowInvariants
  <2> QED BY <2>1, <2>2, LocksStay
<1> QED BY <1>2, <1>3, <1>4 DEF IInv

-----------------------------------------------------------------------------
\* The actions.

LEMMA GotoResult ==
  ASSUME IInv, NEW c \in Calls, NEW call, Goto(c, call)
  PROVE  calls'[c] = call
BY DEF IInv, ControlIsTyped, Goto

\* Steps that write no row.
LEMMA NoRowWritten ==
  ASSUME IInv, UNCHANGED <<tasks, history>>
  PROVE  /\ RowInvariants' /\ RowsStay
         /\ \A t \in DOMAIN tasks : Locked(t) => tasks'[t].status = tasks[t].status
BY RowsUntouched DEF IInv

LEMMA CreateReadKeeps ==
  ASSUME IInv, NEW c \in Calls, NEW u \in Users, NEW s \in Subjects, CreateRead(c, u, s)
  PROVE  IInv' /\ RowsStay
<1>1. PICK d \in Resolve(NeedOf[s]) :
        Goto(c, [At("insert") EXCEPT !.user = u, !.subject = s, !.decision = d])
  BY DEF CreateRead
<1>2. d \in Decision /\ Fits(NeedOf[s], d)
  BY ResolveFits
<1> DEFINE call == [At("insert") EXCEPT !.user = u, !.subject = s, !.decision = d]
<1>3. call \in Call
  BY <1>2, CallForms DEF Places
<1>4. call.at = "insert" /\ call.user = u /\ call.subject = s /\ call.decision = d
  BY DEF At
<1>5. Goto(c, call)
  BY <1>1
<1> HIDE DEF call
<1>6. calls'[c] = call
  BY <1>5, GotoResult
<1>7. CallFits(c)'
  BY <1>2, <1>4, <1>6 DEF CallFits, Fits
<1>8. UNCHANGED <<users, since, tasks, history, sweeps, changes, failures>>
  BY DEF CreateRead, Tables, Bounds
<1> QED BY <1>3, <1>4, <1>5, <1>7, <1>8, NoRowWritten, CallGoesOn

LEMMA CreateInsertKeeps ==
  ASSUME IInv, NEW c \in Calls, CreateInsert(c)
  PROVE  IInv' /\ RowsStay
<1> DEFINE d == calls[c].decision
<1> DEFINE s == calls[c].subject
<1>1. /\ calls[c].at = "insert" /\ NoOpenTask(s) /\ Goto(c, At("served"))
      /\ tasks' = Append(tasks, [subject |-> s, status |-> "open", assignee |-> d.assignee,
                                 route |-> d.route, completedBy |-> NoUser])
      /\ history' = Append(history,
                      <<Happened("created", NoUser, d.assignee, d.route, calls[c].user, FALSE)>>)
      /\ UNCHANGED <<users, since, sweeps, changes, failures>>
  BY DEF CreateInsert, Tables, Bounds
<1>2. calls[c] \in Call /\ CallFits(c) /\ RowInvariants
  BY DEF IInv, ControlIsTyped, DecisionsFit
<1>3. s \in Subjects /\ d \in Decision /\ Fits(NeedOf[s], d) /\ calls[c].user \in Users
  BY <1>1, <1>2 DEF CallFits, Call
<1> HIDE DEF d, s
<1>4. RowInvariants' /\ RowsStay /\ \A t \in DOMAIN tasks : tasks'[t] = tasks[t]
  BY <1>1, <1>2, <1>3, RowInserted
<1>5. At("served") \in Call /\ At("served").at = "served"
  <2>1. Nobody \in Decision
    BY DEF Nobody, Decision, Routes
  <2> QED BY <2>1 DEF At, Call
<1>6. calls'[c] = At("served")
  BY <1>1, GotoResult
<1>7. CallFits(c)'
  BY <1>5, <1>6, CallEnds
<1> QED BY <1>1, <1>4, <1>5, <1>7, CallGoesOn

LEMMA ServedCall == At("served") \in Call /\ At("served").at = "served"
<1>1. Nobody \in Decision
  BY DEF Nobody, Decision, Routes
<1> QED BY <1>1 DEF At, Call

\* A request that ends, in whatever way, without writing a row.
LEMMA CallEndsQuietly ==
  ASSUME IInv, NEW c \in Calls, NEW call \in Call, Goto(c, call),
         call.at \in {"existing", "served", "no_rows"},
         UNCHANGED <<users, since, tasks, history, sweeps, changes, failures>>
  PROVE  IInv' /\ RowsStay
<1>1. calls'[c] = call
  BY GotoResult
<1>2. CallFits(c)'
  BY <1>1, CallEnds
<1> QED BY <1>2, NoRowWritten, CallGoesOn

LEMMA CreateConflictKeeps ==
  ASSUME IInv, NEW c \in Calls, CreateConflict(c)
  PROVE  IInv' /\ RowsStay
<1> DEFINE call == [At("existing") EXCEPT !.subject = calls[c].subject]
<1>1. calls[c] \in Call /\ calls[c].at = "insert" /\ CallFits(c) /\ Goto(c, call)
  BY DEF IInv, ControlIsTyped, DecisionsFit, CreateConflict
<1>2. calls[c].subject \in Subjects
  BY <1>1 DEF CallFits
<1>3. Nobody \in Decision
  BY DEF Nobody, Decision, Routes
<1>4. call \in Call /\ call.at = "existing"
  BY <1>2, <1>3 DEF At, Call
<1> HIDE DEF call
<1>5. UNCHANGED <<users, since, tasks, history, sweeps, changes, failures>>
  BY DEF CreateConflict, Tables, Bounds
<1> QED BY <1>1, <1>4, <1>5, CallEndsQuietly

LEMMA CreateExistingKeeps ==
  ASSUME IInv, NEW c \in Calls, CreateExisting(c)
  PROVE  IInv' /\ RowsStay
<1> DEFINE call == At(IF NoOpenTask(calls[c].subject) THEN "no_rows" ELSE "served")
<1>1. Goto(c, call)
  BY DEF CreateExisting
<1>2. Nobody \in Decision
  BY DEF Nobody, Decision, Routes
<1>3. call \in Call /\ call.at \in {"served", "no_rows"}
  BY <1>2 DEF At, Call
<1> HIDE DEF call
<1>4. UNCHANGED <<users, since, tasks, history, sweeps, changes, failures>>
  BY DEF CreateExisting, Tables, Bounds
<1> QED BY <1>1, <1>3, <1>4, CallEndsQuietly

LEMMA RollbackKeeps ==
  ASSUME IInv, NEW c \in Calls, Rollback(c)
  PROVE  IInv' /\ RowsStay
<1>1. Goto(c, At("served"))
  BY DEF Rollback
<1>2. UNCHANGED <<users, since, tasks, history, sweeps, changes, failures>>
  BY DEF Rollback, Tables, Bounds
<1> QED BY <1>1, <1>2, ServedCall, CallEndsQuietly

LEMMA CompleteReadKeeps ==
  ASSUME IInv, NEW c \in Calls, NEW u \in Users, NEW t \in DOMAIN tasks, CompleteRead(c, u, t)
  PROVE  IInv' /\ RowsStay
<1> DEFINE call == [At("complete") EXCEPT !.user = u, !.task = t]
<1>1. t \in Nat
  BY RowType DEF IInv, RowInvariants
<1>2. Nobody \in Decision
  BY DEF Nobody, Decision, Routes
<1>3. call \in Call
  BY <1>1, <1>2 DEF At, Call
<1>4. call.at = "complete" /\ call.user = u /\ call.task = t
  BY DEF At
<1>5. Goto(c, call)
  BY DEF CompleteRead
<1> HIDE DEF call
<1>6. calls'[c] = call
  BY <1>5, GotoResult
<1>7. UNCHANGED <<users, since, tasks, history, sweeps, changes, failures>>
  BY DEF CompleteRead, Tables, Bounds
<1>8. CallFits(c)'
  BY <1>4, <1>6, <1>7 DEF CallFits
<1> QED BY <1>3, <1>4, <1>5, <1>7, <1>8, NoRowWritten, CallGoesOn

LEMMA CompleteApplyKeeps ==
  ASSUME IInv, NEW c \in Calls, CompleteApply(c)
  PROVE  IInv' /\ RowsStay
<1> DEFINE t == calls[c].task
<1>1. /\ calls[c].at = "complete" /\ ~Locked(t) /\ Goto(c, At("served"))
      /\ UNCHANGED <<users, since, sweeps, changes, failures>>
  BY DEF CompleteApply, Tables, Bounds
<1>2. t \in DOMAIN tasks /\ calls[c].user \in Users /\ RowInvariants
  BY <1>1 DEF IInv, DecisionsFit, CallFits
<1>3. CASE IsOpen(t)
  <2>1. Finish(t, "done", calls[c].user, FALSE)
    BY <1>3 DEF CompleteApply
  <2> HIDE DEF t
  <2>2. /\ RowInvariants' /\ RowsStay
        /\ \A u \in DOMAIN tasks : u # t => tasks'[u].status = tasks[u].status
    BY <1>2, <1>3, <2>1, RowFinished
  <2>3. calls'[c] = At("served")
    BY <1>1, GotoResult
  <2>4. CallFits(c)'
    BY <2>3, ServedCall, CallEnds
  <2>5. \A u \in DOMAIN tasks : Locked(u) => tasks'[u].status = tasks[u].status
    BY <1>1, <2>2
  <2> QED BY <1>1, <2>2, <2>4, <2>5, ServedCall, CallGoesOn
<1>4. CASE ~IsOpen(t)
  <2>1. UNCHANGED <<tasks, history>>
    BY <1>4 DEF CompleteApply
  <2> QED BY <1>1, <2>1, ServedCall, CallEndsQuietly
<1> QED BY <1>3, <1>4

LEMMA CloseBySubjectKeeps ==
  ASSUME IInv, NEW c \in Calls, NEW s \in Subjects, NEW status \in {"done", "cancelled"},
         NEW actor \in Users, CloseBySubject(c, s, status, actor)
  PROVE  IInv' /\ RowsStay
<1>1. PICK t \in DOMAIN tasks : IsOpen(t) /\ ~Locked(t) /\ Finish(t, status, actor, TRUE)
  BY DEF CloseBySubject
<1>2. /\ Goto(c, At("served"))
      /\ UNCHANGED <<users, since, sweeps, changes, failures>>
  BY DEF CloseBySubject, Tables, Bounds
<1>3. /\ RowInvariants' /\ RowsStay
      /\ \A u \in DOMAIN tasks : u # t => tasks'[u].status = tasks[u].status
  BY <1>1, RowFinished DEF IInv
<1>4. calls'[c] = At("served")
  BY <1>2, GotoResult
<1>5. CallFits(c)'
  BY <1>4, ServedCall, CallEnds
<1>6. \A u \in DOMAIN tasks : Locked(u) => tasks'[u].status = tasks[u].status
  BY <1>1, <1>3
<1> QED BY <1>2, <1>3, <1>5, <1>6, ServedCall, CallGoesOn

\* A lock is taken on a row nobody holds.
LEMMA ReassignLockKeeps ==
  ASSUME IInv, NEW c \in Calls, NEW u \in Users, NEW t \in DOMAIN tasks, ReassignLock(c, u, t)
  PROVE  IInv' /\ RowsStay
<1>1. PICK d \in Resolve(Need(t)) :
        Goto(c, [At("reassign") EXCEPT !.user = u, !.task = t, !.decision = d,
                                       !.kept = StillValid(t, d)])
  BY DEF ReassignLock
<1>2. d \in Decision /\ Fits(Need(t), d)
  BY ResolveFits
<1> DEFINE kept == StillValid(t, d)
<1>3. kept \in BOOLEAN
  BY KeptIsBoolean
<1>4. t \in Nat /\ t # 0
  BY RowType DEF IInv, RowInvariants
<1> DEFINE call == [At("reassign") EXCEPT !.user = u, !.task = t, !.decision = d, !.kept = kept]
<1>5. Goto(c, call)
  BY <1>1
<1> HIDE DEF kept
<1>6. call \in Call
  <2>1. \E s : s \in Subjects
    <3>1. tasks[t] \in Task
      BY RowType DEF IInv, RowInvariants
    <3> QED BY <3>1 DEF Task
  <2>2. PICK s \in Subjects : TRUE
    BY <2>1
  <2> QED BY <1>2, <1>3, <1>4, <2>2, CallForms DEF Places
<1>7. call.at = "reassign" /\ call.user = u /\ call.task = t /\ call.decision = d
  BY DEF At
<1> HIDE DEF call
<1>8. /\ calls' \in [Calls -> Call] /\ calls'[c] = call
      /\ \A other \in Calls : other # c => calls'[other] = calls[other]
  BY <1>5, <1>6 DEF IInv, ControlIsTyped, Goto
<1>9. /\ UNCHANGED <<users, since, tasks, history, sweeps, changes, failures>>
      /\ ~Locked(t) /\ IsOpen(t)
  BY DEF ReassignLock, Tables, Bounds
<1>10. RowInvariants' /\ RowsStay
  BY <1>9, NoRowWritten
<1>11. ControlIsTyped'
  BY <1>8, <1>9 DEF IInv, ControlIsTyped
<1>12. DecisionsFit'
  <2>1. CallFits(c)'
    BY <1>2, <1>7, <1>8, <1>9 DEF CallFits, Fits, Need
  <2>2. \A other \in Calls : CallFits(other)'
    BY <1>8, <1>10, <2>1, CallStays DEF IInv, DecisionsFit
  <2>3. \A w \in Workers : SweepFits(w)'
    BY <1>9, <1>10, SweepStays DEF IInv, DecisionsFit
  <2> QED BY <2>2, <2>3 DEF DecisionsFit
<1>13. LocksHold'
  BY <1>4, <1>7, <1>8, <1>9 DEF IInv, LocksHold, Locked, IsOpen
<1> QED BY <1>10, <1>11, <1>12, <1>13 DEF IInv

LEMMA ReassignApplyKeeps ==
  ASSUME IInv, NEW c \in Calls, ReassignApply(c)
  PROVE  IInv' /\ RowsStay
<1> DEFINE t == calls[c].task
<1> DEFINE d == calls[c].decision
<1>1. /\ calls[c].at = "reassign" /\ Goto(c, At("served"))
      /\ UNCHANGED <<users, since, sweeps, changes, failures>>
  BY DEF ReassignApply, Tables, Bounds
<1>2. /\ t \in DOMAIN tasks /\ calls[c].user \in Users /\ RowInvariants
      /\ d \in Decision /\ Fits(Need(t), d) /\ IsOpen(t)
  BY <1>1 DEF IInv, ControlIsTyped, DecisionsFit, CallFits, LocksHold, Call
<1>3. calls'[c] = At("served")
  BY <1>1, GotoResult
<1>4. CallFits(c)'
  BY <1>3, ServedCall, CallEnds
<1>5. CASE calls[c].kept
  <2>1. /\ Record(t, Happened("reassign_attempt", tasks[t].assignee, tasks[t].assignee,
                              tasks[t].route, calls[c].user, FALSE))
        /\ UNCHANGED tasks
    BY <1>5 DEF ReassignApply
  <2>2. tasks[t] \in Task
    BY <1>2, RowType DEF RowInvariants
  <2> HIDE DEF t, d
  <2>3. Happened("reassign_attempt", tasks[t].assignee, tasks[t].assignee,
                 tasks[t].route, calls[c].user, FALSE) \in Event
    BY <1>2, <2>2, EventType DEF Task
  <2>4. RowInvariants' /\ RowsStay
    BY <1>2, <2>1, <2>3, RowAttempted
  <2> QED BY <1>1, <1>4, <2>1, <2>4, ServedCall, CallGoesOn
<1>6. CASE ~calls[c].kept
  <2>1. Move(t, d, calls[c].user)
    BY <1>6 DEF ReassignApply
  <2> HIDE DEF t, d
  <2>2. /\ RowInvariants' /\ RowsStay
        /\ \A u \in DOMAIN tasks : tasks'[u].status = tasks[u].status
    BY <1>2, <2>1, RowMoved
  <2> QED BY <1>1, <1>4, <2>2, ServedCall, CallGoesOn
<1> QED BY <1>5, <1>6

LEMMA SweepTyped ==
  ASSUME IInv, NEW w \in Workers
  PROVE  /\ sweeps[w] \in Sweep /\ sweeps[w].queue \subseteq DOMAIN tasks
         /\ sweeps[w].queue \in SUBSET Nat /\ failures \in 0..MaxFailures
         /\ sweeps[w].task # 0 => /\ sweeps[w].task \in DOMAIN tasks /\ IsOpen(sweeps[w].task)
                                  /\ Fits(Need(sweeps[w].task), sweeps[w].decision)
BY DEF IInv, ControlIsTyped, DecisionsFit, SweepFits, LocksHold, Sweep

\* A pass that waits again, for any of the rows there are.
LEMMA WaitingSweep ==
  ASSUME IInv, NEW queue \in SUBSET (DOMAIN tasks)
  PROVE  /\ Waiting(queue) \in Sweep /\ Waiting(queue).task = 0
         /\ Waiting(queue).queue = queue
<1>1. DOMAIN tasks \subseteq Nat
  BY RowType DEF IInv, RowInvariants
<1>2. Nobody \in Decision
  BY DEF Nobody, Decision, Routes
<1> QED BY <1>1, <1>2 DEF Waiting, Sweep

LEMMA SweepSelectKeeps ==
  ASSUME IInv, NEW w \in Workers, SweepSelect(w)
  PROVE  IInv' /\ RowsStay
<1>1. Selected \in SUBSET (DOMAIN tasks)
  BY DEF Selected
<1>2. /\ sweeps' = [sweeps EXCEPT ![w] = Waiting(Selected)]
      /\ UNCHANGED <<users, since, tasks, history, calls, changes, failures>>
  BY DEF SweepSelect, Tables, Bounds
<1>3. failures' \in 0..MaxFailures
  BY <1>2, SweepTyped
<1> QED BY <1>1, <1>2, <1>3, WaitingSweep, NoRowWritten, SweepGoesOn

LEMMA SweepSkipKeeps ==
  ASSUME IInv, NEW w \in Workers, SweepSkip(w)
  PROVE  IInv' /\ RowsStay
<1>1. PICK t \in sweeps[w].queue :
        /\ sweeps' = [sweeps EXCEPT ![w] = Waiting(sweeps[w].queue \ {t})]
        /\ UNCHANGED <<users, since, tasks, history, calls, changes, failures>>
  BY DEF SweepSkip, Tables, Bounds
<1> DEFINE rest == sweeps[w].queue \ {t}
<1>2. rest \in SUBSET (DOMAIN tasks) /\ failures' \in 0..MaxFailures
  BY <1>1, SweepTyped
<1> QED BY <1>1, <1>2, WaitingSweep, NoRowWritten, SweepGoesOn

LEMMA SweepFailKeeps ==
  ASSUME IInv, NEW w \in Workers, SweepFail(w)
  PROVE  IInv' /\ RowsStay
<1>1. /\ sweeps' = [sweeps EXCEPT ![w] = Waiting({})]
      /\ UNCHANGED <<users, since, tasks, history, calls, changes>>
      /\ failures < MaxFailures /\ failures' = failures + 1
  BY DEF SweepFail, Tables, NoSweep
<1>2. failures' \in 0..MaxFailures
  BY <1>1, SweepTyped, TaskBoundsAssumption
<1> QED BY <1>1, <1>2, WaitingSweep, NoRowWritten, SweepGoesOn

LEMMA SweepLockKeeps ==
  ASSUME IInv, NEW w \in Workers, SweepLock(w)
  PROVE  IInv' /\ RowsStay
<1>1. PICK t \in sweeps[w].queue :
        /\ ~Locked(t) /\ IsOpen(t)
        /\ \E d \in Resolve(Need(t)) :
             sweeps' = [sweeps EXCEPT ![w] = [queue |-> sweeps[w].queue, task |-> t,
                                              decision |-> d, kept |-> StillValid(t, d)]]
        /\ UNCHANGED <<users, since, tasks, history, calls, changes, failures>>
  BY DEF SweepLock, Tables, Bounds
<1>2. PICK d \in Resolve(Need(t)) :
        sweeps' = [sweeps EXCEPT ![w] = [queue |-> sweeps[w].queue, task |-> t,
                                         decision |-> d, kept |-> StillValid(t, d)]]
  BY <1>1
<1>3. d \in Decision /\ Fits(Need(t), d)
  BY ResolveFits
<1>4. t \in DOMAIN tasks /\ sweeps[w].queue \in SUBSET Nat /\ sweeps[w].queue \subseteq DOMAIN tasks
  BY SweepTyped
<1>5. t \in Nat /\ t # 0
  BY <1>4, RowType DEF IInv, RowInvariants
<1> DEFINE kept == StillValid(t, d)
<1>6. kept \in BOOLEAN
  BY KeptIsBoolean
<1> DEFINE sweep == [queue |-> sweeps[w].queue, task |-> t, decision |-> d, kept |-> kept]
<1>7. sweeps' = [sweeps EXCEPT ![w] = sweep]
  BY <1>2
<1> HIDE DEF kept
<1>8. sweep \in Sweep
  BY <1>3, <1>4, <1>5, <1>6, SweepForms
<1>9. sweep.queue = sweeps[w].queue /\ sweep.task = t /\ sweep.decision = d
  OBVIOUS
<1> HIDE DEF sweep
<1>10. /\ sweeps' \in [Workers -> Sweep] /\ sweeps'[w] = sweep
       /\ \A other \in Workers : other # w => sweeps'[other] = sweeps[other]
  BY <1>7, <1>8 DEF IInv, ControlIsTyped
<1>11. RowInvariants' /\ RowsStay
  BY <1>1, NoRowWritten
<1>12. ControlIsTyped'
  BY <1>1, <1>10 DEF IInv, ControlIsTyped
<1>13. DecisionsFit'
  <2>1. SweepFits(w)'
    BY <1>1, <1>3, <1>4, <1>9, <1>10 DEF SweepFits, Fits, Need
  <2>2. \A other \in Workers : SweepFits(other)'
    BY <1>10, <1>11, <2>1, SweepStays DEF IInv, DecisionsFit
  <2>3. \A c \in Calls : CallFits(c)'
    BY <1>1, <1>11, CallStays DEF IInv, DecisionsFit
  <2> QED BY <2>2, <2>3 DEF DecisionsFit
<1>14. LocksHold'
  BY <1>1, <1>4, <1>5, <1>9, <1>10 DEF IInv, LocksHold, Locked, IsOpen
<1> QED BY <1>11, <1>12, <1>13, <1>14 DEF IInv

LEMMA SweepApplyKeeps ==
  ASSUME IInv, NEW w \in Workers, SweepApply(w)
  PROVE  IInv' /\ RowsStay
<1> DEFINE t == sweeps[w].task
<1> DEFINE d == sweeps[w].decision
<1> DEFINE rest == sweeps[w].queue \ {t}
<1>1. /\ t # 0 /\ sweeps' = [sweeps EXCEPT ![w] = Waiting(rest)]
      /\ UNCHANGED <<users, since, calls, changes, failures>>
  BY DEF SweepApply, Tables, Bounds
<1>2. t \in DOMAIN tasks /\ IsOpen(t) /\ Fits(Need(t), d) /\ d \in Decision
  BY <1>1, SweepTyped DEF Sweep
<1>3. rest \in SUBSET (DOMAIN tasks) /\ failures' \in 0..MaxFailures
  BY <1>1, SweepTyped
<1>4. /\ Waiting(rest) \in Sweep /\ Waiting(rest).task = 0 /\ Waiting(rest).queue \subseteq DOMAIN tasks
  BY <1>3, WaitingSweep
<1> HIDE DEF rest
<1>5. CASE sweeps[w].kept
  <2>1. UNCHANGED <<tasks, history>>
    BY <1>5 DEF SweepApply
  <2> QED BY <1>1, <1>3, <1>4, <2>1, NoRowWritten, SweepGoesOn
<1>6. CASE ~sweeps[w].kept
  <2>1. Move(t, d, NoUser)
    BY <1>6 DEF SweepApply
  <2> HIDE DEF t, d
  <2>2. /\ RowInvariants' /\ RowsStay
        /\ \A u \in DOMAIN tasks : tasks'[u].status = tasks[u].status
    BY <1>2, <2>1, RowMoved DEF IInv
  <2> QED BY <1>1, <1>3, <1>4, <2>2, SweepGoesOn
<1> QED BY <1>5, <1>6

\* Administration touches users and assignments only.
LEMMA AdministrationKeeps ==
  ASSUME IInv, Administration
  PROVE  IInv' /\ RowsStay
<1>1. UNCHANGED <<tasks, history, calls, sweeps, failures>>
  BY DEF Administration, UpdateUser, Assign, EndAssignment
<1>2. changes' \in 0..MaxChanges
  BY TaskBoundsAssumption
     DEF Administration, UpdateUser, Assign, EndAssignment, Change, IInv, ControlIsTyped
<1>3. users' \in [Users -> [active : BOOLEAN, role : Roles]] /\ since' \in [Users -> Nat]
  <2>1. ASSUME NEW u \in Users, NEW active \in BOOLEAN, NEW role \in RolesOf[u],
               NEW partner \in BOOLEAN, NEW today \in 1..LastDay,
               UpdateUser(u, active, role, partner, today)
        PROVE  users' \in [Users -> [active : BOOLEAN, role : Roles]] /\ since' \in [Users -> Nat]
    <3>1. role \in Roles /\ today \in Nat
      BY UsersAssumption, TaskBoundsAssumption
    <3>2. users' \in [Users -> [active : BOOLEAN, role : Roles]]
      <4> DEFINE row == [active |-> active, role |-> role]
      <4>1. row \in [active : BOOLEAN, role : Roles]
        BY <3>1, Zenon
      <4>2. users' = [users EXCEPT ![u] = row]
        BY <2>1 DEF UpdateUser
      <4> HIDE DEF row
      <4> QED BY <4>1, <4>2 DEF IInv, ControlIsTyped
    <3>3. since' \in [Users -> Nat]
      BY <2>1, <3>1 DEF UpdateUser, IInv, ControlIsTyped
    <3> QED BY <3>2, <3>3
  <2>2. ASSUME NEW u \in Users, NEW day \in 1..LastDay, Assign(u, day)
        PROVE  users' \in [Users -> [active : BOOLEAN, role : Roles]] /\ since' \in [Users -> Nat]
    BY <2>2, TaskBoundsAssumption DEF Assign, IInv, ControlIsTyped
  <2>3. ASSUME NEW u \in Users, EndAssignment(u)
        PROVE  users' \in [Users -> [active : BOOLEAN, role : Roles]] /\ since' \in [Users -> Nat]
    BY <2>3 DEF EndAssignment, IInv, ControlIsTyped
  <2> QED BY <2>1, <2>2, <2>3 DEF Administration
<1>4. RowInvariants' /\ RowsStay
  BY <1>1, NoRowWritten
<1>5. ControlIsTyped'
  BY <1>1, <1>2, <1>3 DEF IInv, ControlIsTyped
<1>6. DecisionsFit'
  BY <1>1, <1>4, CallStays, SweepStays DEF IInv, DecisionsFit
<1>7. LocksHold'
  BY <1>1 DEF IInv, LocksHold, IsOpen
<1> QED BY <1>4, <1>5, <1>6, <1>7 DEF IInv

-----------------------------------------------------------------------------
\* Every step keeps the inductive invariant, and what RowsStay says of the rows.
LEMMA StepKeeps ==
  ASSUME IInv, [Next]_vars
  PROVE  IInv' /\ RowsStay
<1>1. ASSUME NEW c \in Calls, Request(c)
      PROVE  IInv' /\ RowsStay
  <2> PICK u \in Users :
        \/ \E s \in Subjects : CreateRead(c, u, s)
        \/ \E t \in DOMAIN tasks : ReassignLock(c, u, t) \/ CompleteRead(c, u, t)
        \/ \E s \in Subjects, status \in {"done", "cancelled"} : CloseBySubject(c, s, status, u)
    BY <1>1 DEF Request
  <2> QED BY CreateReadKeeps, ReassignLockKeeps, CompleteReadKeeps, CloseBySubjectKeeps
<1>2. ASSUME NEW c \in Calls, Serve(c)
      PROVE  IInv' /\ RowsStay
  BY <1>2, CreateInsertKeeps, CreateConflictKeeps, CreateExistingKeeps, ReassignApplyKeeps,
     CompleteApplyKeeps, RollbackKeeps DEF Serve
<1>3. ASSUME NEW w \in Workers, Work(w) \/ SweepFail(w)
      PROVE  IInv' /\ RowsStay
  BY <1>3, SweepSelectKeeps, SweepSkipKeeps, SweepLockKeeps, SweepApplyKeeps, SweepFailKeeps
     DEF Work
<1>4. CASE UNCHANGED vars
  <2>1. UNCHANGED <<users, since, tasks, history, calls, sweeps, changes, failures>>
    BY <1>4 DEF vars
  <2>2. RowInvariants' /\ RowsStay
    BY <2>1, NoRowWritten
  <2>3. ControlIsTyped'
    BY <2>1 DEF IInv, ControlIsTyped
  <2>4. DecisionsFit'
    BY <2>1, <2>2, CallStays, SweepStays DEF IInv, DecisionsFit
  <2>5. LocksHold'
    BY <2>1 DEF IInv, LocksHold, IsOpen
  <2> QED BY <2>2, <2>3, <2>4, <2>5 DEF IInv
<1> QED BY <1>1, <1>2, <1>3, <1>4, AdministrationKeeps DEF Next

LEMMA Inductive == Spec => []IInv
<1>1. IInv /\ [Next]_vars => IInv'
  BY StepKeeps
<1> QED BY Initial, <1>1, PTL DEF Spec

\* Type correctness: the rows, their history, the requests and the passes of the
\* dispatcher (tasks/store.go) keep the shape of their tables.
THEOREM TasksTypeInvariant == Spec => []TypeOK
<1>1. IInv => TypeOK
  BY DEF IInv, ControlIsTyped, RowInvariants, RowsAreTyped, TypeOK
<1> QED BY Inductive, <1>1, PTL

\* No CHECK of workflow_tasks and not its unique index ever stops a transaction:
\* whoever is chosen, and whatever interleaves with the choice.
THEOREM TasksSchemaInvariant == Spec => []SchemaChecksHold
<1>1. IInv => SchemaChecksHold
  <2> SUFFICES ASSUME IInv PROVE SchemaChecksHold
    OBVIOUS
  <2>1. FallbackGrantsNoRights /\ DoneBySomebody /\ OneOpenTask
    BY DEF IInv, RowInvariants
  <2>2. \A t \in DOMAIN tasks : (tasks[t].route = "unassigned") = (tasks[t].assignee = NoUser)
    BY <2>1 DEF FallbackGrantsNoRights, Fits
  <2> QED BY <2>1, <2>2 DEF SchemaChecksHold
<1> QED BY Inductive, <1>1, PTL

\* ADR-22: the fallback changes who does the task and never what he may do.
THEOREM FallbackNeverWidensRights == Spec => [](FallbackGrantsNoRights /\ DecisionsFit)
<1>1. IInv => FallbackGrantsNoRights /\ DecisionsFit
  BY DEF IInv, RowInvariants
<1> QED BY Inductive, <1>1, PTL

\* FOR UPDATE in Reassign: one holder of a row, and the row stays open under it.
THEOREM RowLocksHold == Spec => []LocksHold
<1>1. IInv => LocksHold
  BY DEF IInv
<1> QED BY Inductive, <1>1, PTL

\* A task that is done or cancelled is never touched again, nor is an event.
THEOREM ClosedTasksAreFinal == Spec => ClosedTaskIsFinal
<1>1. IInv /\ [Next]_vars =>
        [\A t \in DOMAIN tasks :
           /\ ~IsOpen(t) => tasks'[t] = tasks[t] /\ history'[t] = history[t]
           /\ \A i \in DOMAIN history[t] :
                i \in DOMAIN history'[t] /\ history'[t][i] = history[t][i]]_vars
  BY StepKeeps DEF RowsStay
<1> QED BY Inductive, <1>1, PTL DEF Spec, ClosedTaskIsFinal
=============================================================================
