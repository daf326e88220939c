--------------------------- MODULE WorkflowTasks ---------------------------
(***************************************************************************)
(* The dispatcher of workflow tasks (internal/tasks, ADR-22).  A task asks *)
(* for a role; it goes to an active user of that role, else to the curator *)
(* of the partner, else to ORG_ADMIN, else to SUPER_ADMIN, else to nobody. *)
(* A job goes over the open tasks again every 15 minutes.                  *)
(*                                                                         *)
(* Handlers and the job share the tables under READ COMMITTED: a statement *)
(* sees what was committed before it, and only SELECT ... FOR UPDATE keeps *)
(* a row until COMMIT.  A transaction is therefore one step per statement  *)
(* whose result it carries into a later one.                               *)
(*                                                                         *)
(* One tenant and one partner: what belongs to another tenant is filtered  *)
(* out of every query, and a curator assigned elsewhere is one who is not  *)
(* assigned.                                                               *)
(***************************************************************************)
EXTENDS Integers, FiniteSets, Sequences

CONSTANTS
  Users,        \* numbers, in the order of the users' ids
  RolesOf,      \* [Users -> roles the administrator may give the user]
  FirstRole,    \* [Users -> role of the user at the start]
  Permissions,
  Allowed,      \* [Roles -> SUBSET Permissions], rbac.Roles[...].Permissions
  Delegated,    \* [Roles -> SUBSET Permissions], rbac.Roles[...].Delegated
  Subjects,     \* (kind, subject_type, subject_id) of the tasks
  NeedOf,       \* [Subjects -> [role, permission, partner : BOOLEAN]]
  Calls,        \* HTTP requests, each served once
  Workers,      \* running copies of RunRedispatch
  LastDay,      \* bound of the model: days an assignment may start on, 1..LastDay
  SweepLimit,   \* LIMIT of the selection in RedispatchOpen (500 in the code)
  MaxChanges,   \* bound of the model: changes of users and of assignments
  MaxFailures   \* bound of the model: failed passes of the job

NoUser == 0
Roles  == {"hr_specialist", "curator", "org_admin", "super_admin", "auditor_viewer"}
Routes == {"specialist", "curator", "org_admin", "super_admin", "unassigned"}

ASSUME UsersAssumption ==
  /\ Users \subseteq Nat \ {NoUser} /\ IsFiniteSet(Users)
  /\ RolesOf \in [Users -> SUBSET Roles]
  /\ FirstRole \in [Users -> Roles]

ASSUME RbacAssumption ==
  /\ "dispatch" \in Permissions
  /\ Allowed \in [Roles -> SUBSET Permissions]
  /\ Delegated \in [Roles -> SUBSET Permissions]
  /\ NeedOf \in [Subjects -> [role : Roles, permission : Permissions, partner : BOOLEAN]]

ASSUME TaskBoundsAssumption ==
  LastDay \in Nat /\ SweepLimit \in Nat \ {0} /\ MaxChanges \in Nat /\ MaxFailures \in Nat

VARIABLES
  users,    \* users: role and is_active
  since,    \* user_partner_assignments: valid_from of the one in force, 0 for none
  tasks,    \* workflow_tasks in the order of created_at
  history,  \* workflow_task_events of each task
  calls,    \* the requests being served
  sweeps,   \* the pass each worker is in
  changes,  \* changes made so far (bound)
  failures  \* passes failed so far (bound)

vars == <<users, since, tasks, history, calls, sweeps, changes, failures>>

Decision == [assignee : Users \cup {NoUser}, route : Routes]
Nobody   == [assignee |-> NoUser, route |-> "unassigned"]

Task == [subject : Subjects, status : {"open", "done", "cancelled"},
         assignee : Users \cup {NoUser}, route : Routes, completedBy : Users \cup {NoUser}]

\* byWorkflow: the event carries the reason CloseBySubject writes.
Event == [action : {"created", "reassigned", "reassign_attempt", "completed", "cancelled"},
          from : Users \cup {NoUser}, to : Users \cup {NoUser}, route : Routes,
          actor : Users \cup {NoUser}, byWorkflow : BOOLEAN]

\* A request: what it has read so far, and the statement it is at.
Call == [at : {"idle", "insert", "existing", "reassign", "complete", "served", "no_rows"},
         user : Users \cup {NoUser}, task : Nat, subject : Subjects \cup {"none"},
         decision : Decision, kept : BOOLEAN]

At(place) == [at |-> place, user |-> NoUser, task |-> 0, subject |-> "none",
              decision |-> Nobody, kept |-> FALSE]

\* A pass: the tasks still to do, done in the order of their creation; the one
\* that is locked (0 for none), and what was decided about it.
Sweep == [queue : SUBSET Nat, task : Nat, decision : Decision, kept : BOOLEAN]

Waiting(queue) == [queue |-> queue, task |-> 0, decision |-> Nobody, kept |-> FALSE]
NoSweep == Waiting({})

-----------------------------------------------------------------------------
\* Candidates and Resolve.

Allows(role, permission)    == permission \in Allowed[role]
Delegates(role, permission) == permission \in Delegated[role]

ActiveIn(role) == {u \in Users : users[u].active /\ users[u].role = role}

\* curators.ForPartner
ForPartner == {u \in ActiveIn("curator") : since[u] # 0}

Specialists(need) ==
  IF need.role # "curator" THEN ActiveIn(need.role)
  ELSE IF need.partner THEN ForPartner ELSE {}

\* Mutant: the curator gets the task whatever it requires.
CandidatesUndelegated(need, route) ==
  CASE route = "specialist"  -> Specialists(need)
    [] route = "curator"     -> IF need.partner THEN ForPartner ELSE {}
    [] route = "org_admin"   -> IF Allows("org_admin", need.permission)
                                THEN ActiveIn("org_admin") ELSE {}
    [] route = "super_admin" -> IF Allows("super_admin", need.permission)
                                THEN ActiveIn("super_admin") ELSE {}
    [] route = "unassigned"  -> {NoUser}

\* Those who may take the task at one step of the chain.
Candidates(need, route) ==
  CASE route = "specialist"  -> Specialists(need)
    [] route = "curator"     -> IF need.partner /\ Delegates("curator", need.permission)
                                THEN ForPartner ELSE {}
    [] route = "org_admin"   -> IF Allows("org_admin", need.permission)
                                THEN ActiveIn("org_admin") ELSE {}
    [] route = "super_admin" -> IF Allows("super_admin", need.permission)
                                THEN ActiveIn("super_admin") ELSE {}
    [] route = "unassigned"  -> {NoUser}

Chain == <<"specialist", "curator", "org_admin", "super_admin", "unassigned">>

\* The first step of the chain at which there is somebody.
RouteOf(need) ==
  Chain[CHOOSE i \in 1..5 : /\ Candidates(need, Chain[i]) # {}
                            /\ \A j \in 1..(i - 1) : Candidates(need, Chain[j]) = {}]

IsOpen(t) == tasks[t].status = "open"

Load(u) == Cardinality({t \in DOMAIN tasks : IsOpen(t) /\ tasks[t].assignee = u})

Lightest(S) ==
  {u \in S : \A v \in S : Load(u) < Load(v) \/ (Load(u) = Load(v) /\ u <= v)}

LongestAssigned(S) ==
  {u \in S : \A v \in S : since[u] < since[v] \/ (since[u] = since[v] /\ u <= v)}

\* The head of the list at the step taken: curators come in the order of their
\* assignments, everybody else in the order of their load.
Preferred(need, route) ==
  IF route = "unassigned" THEN {NoUser}
  ELSE IF route = "curator" \/ (route = "specialist" /\ need.role = "curator")
       THEN LongestAssigned(Candidates(need, route))
       ELSE Lightest(Candidates(need, route))

\* Resolve: a set, with one element because ids are distinct.
Resolve(need) ==
  {[assignee |-> u, route |-> RouteOf(need)] : u \in Preferred(need, RouteOf(need))}

CanExecute(role, route, permission) ==
  IF route = "curator" THEN Delegates(role, permission) ELSE Allows(role, permission)

-----------------------------------------------------------------------------
\* The tables.

Need(t) == NeedOf[tasks[t].subject]

Happened(action, from, to, route, actor, byWorkflow) ==
  [action |-> action, from |-> from, to |-> to, route |-> route,
   actor |-> actor, byWorkflow |-> byWorkflow]

\* insertEvent
Record(t, event) == history' = [history EXCEPT ![t] = Append(@, event)]

\* Somebody holds the row FOR UPDATE.
Locked(t) ==
  \/ \E c \in Calls : calls[c].at = "reassign" /\ calls[c].task = t
  \/ \E w \in Workers : sweeps[w].task = t

\* Mutant: there is no unique index.
NoUniqueIndex(s) == TRUE

\* The unique index workflow_tasks_one_open_idx lets the subject in.
NoOpenTask(s) == \A t \in DOMAIN tasks : ~(tasks[t].subject = s /\ IsOpen(t))

\* The assignee stays: the step is the same and he is still a candidate of it.
StillValid(t, decision) ==
  decision.route = tasks[t].route /\ tasks[t].assignee \in Candidates(Need(t), decision.route)

\* The UPDATE of Reassign and its event.
Move(t, decision, actor) ==
  /\ tasks' = [tasks EXCEPT ![t].assignee = decision.assignee, ![t].route = decision.route]
  /\ Record(t, Happened("reassigned", tasks[t].assignee, decision.assignee,
                        decision.route, actor, FALSE))

\* Mutant: the status is written as the name of the event.
FinishAsEvent(t, status, actor, byWorkflow) ==
  /\ tasks' = [tasks EXCEPT ![t].status = IF status = "done" THEN "completed" ELSE status,
                            ![t].completedBy = IF status = "done" THEN actor ELSE NoUser]
  /\ Record(t, Happened(IF status = "done" THEN "completed" ELSE "cancelled",
                        tasks[t].assignee, tasks[t].assignee, tasks[t].route, actor, byWorkflow))

\* The UPDATE of Complete and of CloseBySubject, and their event.
Finish(t, status, actor, byWorkflow) ==
  /\ tasks' = [tasks EXCEPT ![t].status = status,
                            ![t].completedBy = IF status = "done" THEN actor ELSE NoUser]
  /\ Record(t, Happened(IF status = "done" THEN "completed" ELSE "cancelled",
                        tasks[t].assignee, tasks[t].assignee, tasks[t].route, actor, byWorkflow))

Goto(c, call) == calls' = [calls EXCEPT ![c] = call]

Tables == <<users, since>>
Bounds == <<changes, failures>>

-----------------------------------------------------------------------------
\* Handlers.

CanDispatch(u) == users[u].active /\ Allows(users[u].role, "dispatch")

\* Create and Dispatch: the candidates are read ...
CreateRead(c, u, s) ==
  /\ calls[c].at = "idle" /\ CanDispatch(u)
  /\ \E d \in Resolve(NeedOf[s]) :
       Goto(c, [At("insert") EXCEPT !.user = u, !.subject = s, !.decision = d])
  /\ UNCHANGED <<Tables, tasks, history, sweeps, Bounds>>

\* ... the task is inserted with the assignee found ...
CreateInsert(c) ==
  LET d == calls[c].decision  s == calls[c].subject IN
  /\ calls[c].at = "insert" /\ NoOpenTask(s)
  /\ tasks' = Append(tasks, [subject |-> s, status |-> "open", assignee |-> d.assignee,
                             route |-> d.route, completedBy |-> NoUser])
  /\ history' = Append(history,
                  <<Happened("created", NoUser, d.assignee, d.route, calls[c].user, FALSE)>>)
  /\ Goto(c, At("served"))
  /\ UNCHANGED <<Tables, sweeps, Bounds>>

\* ... or ON CONFLICT DO NOTHING inserts no row ...
CreateConflict(c) ==
  /\ calls[c].at = "insert" /\ ~NoOpenTask(calls[c].subject)
  /\ Goto(c, [At("existing") EXCEPT !.subject = calls[c].subject])
  /\ UNCHANGED <<Tables, tasks, history, sweeps, Bounds>>

\* ... and the open task is read by a statement of its own: sql.ErrNoRows if it
\* is open no more.
CreateExisting(c) ==
  /\ calls[c].at = "existing"
  /\ Goto(c, At(IF NoOpenTask(calls[c].subject) THEN "no_rows" ELSE "served"))
  /\ UNCHANGED <<Tables, tasks, history, sweeps, Bounds>>

\* Reassign: the row is locked, the candidates are read ...
ReassignLock(c, u, t) ==
  /\ calls[c].at = "idle" /\ CanDispatch(u) /\ ~Locked(t) /\ IsOpen(t)
  /\ \E d \in Resolve(Need(t)) :
       Goto(c, [At("reassign") EXCEPT !.user = u, !.task = t, !.decision = d,
                                      !.kept = StillValid(t, d)])
  /\ UNCHANGED <<Tables, tasks, history, sweeps, Bounds>>

\* ... and the task is moved, or the attempt recorded.
ReassignApply(c) ==
  LET t == calls[c].task  d == calls[c].decision IN
  /\ calls[c].at = "reassign"
  /\ IF calls[c].kept
     THEN /\ Record(t, Happened("reassign_attempt", tasks[t].assignee, tasks[t].assignee,
                                tasks[t].route, calls[c].user, FALSE))
          /\ UNCHANGED tasks
     ELSE Move(t, d, calls[c].user)
  /\ Goto(c, At("served"))
  /\ UNCHANGED <<Tables, sweeps, Bounds>>

\* Complete: the task is read without a lock and the rights are checked ...
CompleteRead(c, u, t) ==
  /\ calls[c].at = "idle" /\ users[u].active
  /\ tasks[t].assignee = u
  /\ CanExecute(users[u].role, tasks[t].route, Need(t).permission)
  /\ Goto(c, [At("complete") EXCEPT !.user = u, !.task = t])
  /\ UNCHANGED <<Tables, tasks, history, sweeps, Bounds>>

\* ... and tasks.Complete locks the row and looks at its status only.
CompleteApply(c) ==
  LET t == calls[c].task IN
  /\ calls[c].at = "complete" /\ ~Locked(t)
  /\ IF IsOpen(t)
     THEN Finish(t, "done", calls[c].user, FALSE) /\ Goto(c, At("served"))
     ELSE Goto(c, At("served")) /\ UNCHANGED <<tasks, history>>
  /\ UNCHANGED <<Tables, sweeps, Bounds>>

\* A workflow event makes the task needless; one statement finds, locks and
\* closes what is open, on behalf of the user who caused the event.
CloseBySubject(c, s, status, actor) ==
  /\ calls[c].at = "idle"
  /\ \E t \in DOMAIN tasks :
       /\ tasks[t].subject = s /\ IsOpen(t) /\ ~Locked(t)
       /\ Finish(t, status, actor, TRUE)
  /\ Goto(c, At("served"))
  /\ UNCHANGED <<Tables, sweeps, Bounds>>

\* The client goes away or a statement fails: the transaction is rolled back.
Rollback(c) ==
  /\ calls[c].at \in {"insert", "existing", "reassign", "complete"}
  /\ Goto(c, At("served"))
  /\ UNCHANGED <<Tables, tasks, history, sweeps, Bounds>>

-----------------------------------------------------------------------------
\* The job.

\* Mutant: only the tasks of the fallback are selected.
NeedsRedispatchFallback(t) == IsOpen(t) /\ tasks[t].route # "specialist"

\* The WHERE of RedispatchOpen.
NeedsRedispatch(t) ==
  /\ IsOpen(t)
  /\ \/ tasks[t].route # "specialist"
     \/ tasks[t].assignee = NoUser
     \/ ~users[tasks[t].assignee].active

\* ... ORDER BY created_at LIMIT ...
Selected ==
  LET due == {t \in DOMAIN tasks : NeedsRedispatch(t)}
  IN  {t \in due : Cardinality({u \in due : u < t}) < SweepLimit}

SweepSelect(w) ==
  /\ sweeps[w] = NoSweep /\ Selected # {}
  /\ sweeps' = [sweeps EXCEPT ![w] = Waiting(Selected)]
  /\ UNCHANGED <<Tables, tasks, history, calls, Bounds>>

\* Reassign by the system, which passes over what is open no more ...
SweepSkip(w) ==
  \E t \in sweeps[w].queue :
    /\ sweeps[w].task = 0 /\ \A u \in sweeps[w].queue : t <= u
    /\ ~Locked(t) /\ ~IsOpen(t)
    /\ sweeps' = [sweeps EXCEPT ![w] = Waiting(sweeps[w].queue \ {t})]
    /\ UNCHANGED <<Tables, tasks, history, calls, Bounds>>

\* ... locks the row and reads the candidates ...
SweepLock(w) ==
  \E t \in sweeps[w].queue :
    /\ sweeps[w].task = 0 /\ \A u \in sweeps[w].queue : t <= u
    /\ ~Locked(t) /\ IsOpen(t)
    /\ \E d \in Resolve(Need(t)) :
         sweeps' = [sweeps EXCEPT ![w] = [queue |-> sweeps[w].queue, task |-> t,
                                          decision |-> d, kept |-> StillValid(t, d)]]
    /\ UNCHANGED <<Tables, tasks, history, calls, Bounds>>

\* ... and moves the task; an assignee who stays leaves no event.
SweepApply(w) ==
  LET t == sweeps[w].task IN
  /\ t # 0
  /\ IF sweeps[w].kept THEN UNCHANGED <<tasks, history>> ELSE Move(t, sweeps[w].decision, NoUser)
  /\ sweeps' = [sweeps EXCEPT ![w] = Waiting(sweeps[w].queue \ {t})]
  /\ UNCHANGED <<Tables, calls, Bounds>>

\* Any error, the minute of the context or a restart ends the pass; the task at
\* hand is rolled back, the ones before it stay done.
SweepFail(w) ==
  /\ sweeps[w] # NoSweep /\ failures < MaxFailures
  /\ failures' = failures + 1
  /\ sweeps' = [sweeps EXCEPT ![w] = NoSweep]
  /\ UNCHANGED <<Tables, tasks, history, calls, changes>>

-----------------------------------------------------------------------------
\* Administration of users and of curators.

Change == changes < MaxChanges /\ changes' = changes + 1

AnotherAdministrator(u) == \E v \in Users \ {u} : users[v].active /\ users[v].role = "super_admin"

\* UpdateUser, with the triggers of the users table: a curator given the partner
\* is assigned from today on, one taken away from it or from the role no longer.
UpdateUser(u, active, role, partner, today) ==
  /\ Change /\ [active |-> active, role |-> role] # users[u]
  /\ (active /\ role = "super_admin") \/ AnotherAdministrator(u)
  /\ users' = [users EXCEPT ![u] = [active |-> active, role |-> role]]
  /\ since' = [since EXCEPT ![u] = IF role # "curator" \/ ~partner THEN 0
                                   ELSE IF @ = 0 THEN today ELSE @]
  /\ UNCHANGED <<tasks, history, calls, sweeps, failures>>

\* curators.Assign, once the first day has come.
Assign(u, day) ==
  /\ Change /\ users[u].role = "curator" /\ since[u] = 0
  /\ since' = [since EXCEPT ![u] = day]
  /\ UNCHANGED <<users, tasks, history, calls, sweeps, failures>>

\* curators.Revoke, or the day after the one given to curators.End.
EndAssignment(u) ==
  /\ Change /\ since[u] # 0
  /\ since' = [since EXCEPT ![u] = 0]
  /\ UNCHANGED <<users, tasks, history, calls, sweeps, failures>>

-----------------------------------------------------------------------------
Init ==
  /\ users = [u \in Users |-> [active |-> TRUE, role |-> FirstRole[u]]]
  /\ since = [u \in Users |-> IF FirstRole[u] = "curator" THEN 1 ELSE 0]
  /\ tasks = <<>> /\ history = <<>>
  /\ calls = [c \in Calls |-> At("idle")]
  /\ sweeps = [w \in Workers |-> NoSweep]
  /\ changes = 0 /\ failures = 0

Administration ==
  \E u \in Users :
    \/ \E active \in BOOLEAN, role \in RolesOf[u], partner \in BOOLEAN, today \in 1..LastDay :
         UpdateUser(u, active, role, partner, today)
    \/ \E day \in 1..LastDay : Assign(u, day)
    \/ EndAssignment(u)

Request(c) ==
  \E u \in Users :
    \/ \E s \in Subjects : CreateRead(c, u, s)
    \/ \E t \in DOMAIN tasks : ReassignLock(c, u, t) \/ CompleteRead(c, u, t)
    \/ \E s \in Subjects, status \in {"done", "cancelled"} : CloseBySubject(c, s, status, u)

Serve(c) ==
  \/ CreateInsert(c) \/ CreateConflict(c) \/ CreateExisting(c)
  \/ ReassignApply(c) \/ CompleteApply(c) \/ Rollback(c)

Work(w) == SweepSelect(w) \/ SweepSkip(w) \/ SweepLock(w) \/ SweepApply(w)

Next ==
  \/ Administration
  \/ \E c \in Calls : Request(c) \/ Serve(c)
  \/ \E w \in Workers : Work(w) \/ SweepFail(w)

Spec == Init /\ [][Next]_vars

\* The job runs again and again, and a request that was begun is finished (or
\* its context is cancelled).  Nobody has to send a request or change a user.
Fairness == /\ \A c \in Calls : WF_vars(Serve(c))
            /\ \A w \in Workers : WF_vars(Work(w))

FairSpec == Spec /\ Fairness

-----------------------------------------------------------------------------
\* Properties.

\* Every variable has the shape of its table or of its control state.
TypeOK ==
  /\ users \in [Users -> [active : BOOLEAN, role : Roles]]
  /\ since \in [Users -> Nat]
  /\ tasks \in Seq(Task)
  /\ history \in Seq(Seq(Event)) /\ Len(history) = Len(tasks)
  /\ calls \in [Calls -> Call]
  /\ sweeps \in [Workers -> Sweep]
  /\ changes \in 0..MaxChanges /\ failures \in 0..MaxFailures

\* Nobody is assigned exactly on the last route, and rights are not widened: the
\* curator and the administrators get what their role may do.  A decision that
\* has been read and not yet written fits the task it is for.
Fits(need, d) ==
  /\ (d.route = "unassigned") = (d.assignee = NoUser)
  /\ d.route = "curator" => need.partner /\ Delegates("curator", need.permission)
  /\ d.route \in {"org_admin", "super_admin"} => Allows(d.route, need.permission)

CallFits(c) ==
  /\ calls[c].at = "insert" => calls[c].subject \in Subjects
                              /\ Fits(NeedOf[calls[c].subject], calls[c].decision)
  /\ calls[c].at = "reassign" => calls[c].task \in DOMAIN tasks
                                /\ Fits(Need(calls[c].task), calls[c].decision)
  /\ calls[c].at = "complete" => calls[c].task \in DOMAIN tasks
  /\ calls[c].at \in {"insert", "reassign", "complete"} => calls[c].user \in Users

SweepFits(w) ==
  /\ sweeps[w].queue \subseteq DOMAIN tasks
  /\ sweeps[w].task # 0 => sweeps[w].task \in DOMAIN tasks
                         /\ Fits(Need(sweeps[w].task), sweeps[w].decision)

DecisionsFit == (\A c \in Calls : CallFits(c)) /\ (\A w \in Workers : SweepFits(w))

\* FOR UPDATE: a locked row has one holder, and stays open until he lets it go.
LocksHold ==
  /\ \A c \in Calls : calls[c].at = "reassign" =>
       /\ IsOpen(calls[c].task)
       /\ \A other \in Calls \ {c} : ~(calls[other].at = "reassign" /\ calls[other].task = calls[c].task)
       /\ \A w \in Workers : sweeps[w].task # calls[c].task
  /\ \A w \in Workers : sweeps[w].task # 0 =>
       /\ IsOpen(sweeps[w].task)
       /\ \A other \in Workers \ {w} : sweeps[other].task # sweeps[w].task

\* What the CHECKs of workflow_tasks and its unique index demand never stops a
\* transaction of this code: nobody is assigned exactly on the last route, a
\* task is done exactly when somebody did it, one task of a subject is open.
DoneBySomebody ==
  \A t \in DOMAIN tasks : (tasks[t].status = "done") = (tasks[t].completedBy # NoUser)

OneOpenTask ==
  \A t1, t2 \in DOMAIN tasks :
    IsOpen(t1) /\ IsOpen(t2) /\ tasks[t1].subject = tasks[t2].subject => t1 = t2

SchemaChecksHold ==
  /\ \A t \in DOMAIN tasks : (tasks[t].route = "unassigned") = (tasks[t].assignee = NoUser)
  /\ DoneBySomebody
  /\ OneOpenTask

\* A fallback never widens rights: on the route of the curator or of an
\* administrator a task asks for nothing their role may not do, whatever
\* happened to users between the choice and the write.
FallbackGrantsNoRights == \A t \in DOMAIN tasks : Fits(Need(t), tasks[t])

\* CanExecute: who is not the assignee does not close the task.
CompletedByAssignee ==
  \A t \in DOMAIN tasks : \A i \in DOMAIN history[t] :
    history[t][i].action = "completed" /\ ~history[t][i].byWorkflow =>
      history[t][i].actor = history[t][i].from

\* A closed task never changes, and its history never grows; an event once
\* written stays (the trigger workflow_task_events_append_only).
ClosedTaskIsFinal ==
  [][\A t \in DOMAIN tasks :
       /\ ~IsOpen(t) => tasks'[t] = tasks[t] /\ history'[t] = history[t]
       /\ \A i \in DOMAIN history[t] : i \in DOMAIN history'[t] /\ history'[t][i] = history[t][i]]_vars

\* A specialist who is switched off loses the open task (or it is closed, or
\* he comes back).
InactiveAssigneeReplaced ==
  \A t \in 1..Cardinality(Calls) :
    LET stuck == /\ t \in DOMAIN tasks /\ IsOpen(t) /\ tasks[t].route = "specialist"
                 /\ ~users[tasks[t].assignee].active
    IN  stuck ~> ~stuck

\* A task of the fallback goes back to a specialist when there is one, and
\* goes up when the one who has it may have it no longer.
FallbackIsRevisited ==
  \A t \in 1..Cardinality(Calls) :
    LET stale == /\ t \in DOMAIN tasks /\ IsOpen(t) /\ tasks[t].route # "specialist"
                 /\ \/ RouteOf(Need(t)) # tasks[t].route
                    \/ tasks[t].assignee \notin Candidates(Need(t), tasks[t].route)
    IN  stale ~> ~stale

\* The job brings every open task to somebody who may do it, as near to the
\* specialist as the users allow (RedispatchOpen, store.go:434-439).
StaleTasksMove == InactiveAssigneeReplaced /\ FallbackIsRevisited

\* RedispatchOpen: a task whose assignee may have it no longer is given to
\* somebody else, on every route.
StaleAssigneeReplaced ==
  \A t \in 1..Cardinality(Calls) :
    LET stale == /\ t \in DOMAIN tasks /\ IsOpen(t)
                 /\ tasks[t].assignee \notin Candidates(Need(t), tasks[t].route)
    IN  stale ~> ~stale

=============================================================================
