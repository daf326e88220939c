------------------------- MODULE RegulatoryProcess -------------------------
(***************************************************************************)
(* The regulatory process of Order 270 (internal/regulatory): a list is    *)
(* sent, reviewed, possibly returned for rework once, and ends approved,   *)
(* disputed, or approved by silence when a review window runs out.         *)
(*                                                                         *)
(* HTTP requests (handlers/regulatory_processes.go) and the expiry job     *)
(* (regulatory/worker.go) work on the same rows.  Act and expireOne each   *)
(* take the row FOR UPDATE and run to COMMIT under that lock, so each is   *)
(* one step here; what is NOT atomic is that both read the wall clock      *)
(* BEFORE they wait for the lock, and carry that instant into the step.    *)
(***************************************************************************)
EXTENDS Integers, FiniteSets, Sequences

CONSTANTS
  Procs,        \* rows of regulatory_processes (kind, agreement, year)
  Kinds,        \* agreement, preliminary, final
  KindOf,       \* [Procs -> Kinds]
  Chains,       \* [Kinds -> lengths of the three windows in calendar days]
  Milestones,   \* [Kinds -> cut-off day and last day to send, if any]
  Users,        \* callers
  Access,       \* [Users -> [author, reviewer, onBehalf : BOOLEAN]]
  Requests,     \* concurrent calls of Act (identifiers of HTTP requests)
  Workers,      \* running copies of RunExpiry
  TicksPerDay,  \* resolution of the clock inside a calendar day
  SweepLimit,   \* LIMIT of the selection in ExpireDue (500 in the code)
  MaxClock,     \* bound of the model: last instant of the clock
  MaxFailures,  \* bound of the model: failed transactions and passes
  MaxEvents     \* bound of the model: requests stop when a history is this long

NoProc == "no process"

ASSUME KindsAssumption ==
  /\ KindOf \in [Procs -> Kinds]
  /\ Chains \in [Kinds -> [review : Nat \ {0}, rework : Nat \ {0}, rereview : Nat \ {0}]]
  /\ Milestones \in [Kinds -> [has : BOOLEAN, cutoff : Nat, sendDue : Nat]]

ASSUME AccessAssumption ==
  Access \in [Users -> [author : BOOLEAN, reviewer : BOOLEAN, onBehalf : BOOLEAN]]

ASSUME BoundsAssumption ==
  /\ TicksPerDay \in Nat \ {0} /\ SweepLimit \in Nat \ {0}
  /\ MaxClock \in Nat /\ MaxFailures \in Nat /\ MaxEvents \in Nat

-----------------------------------------------------------------------------
\* Calendar: an instant is a number of ticks, a date a number of days.

\* Today: the date of an instant in the business time zone.
Today(now) == now \div TicksPerDay

\* CalendarDeadline: the day of receipt is not counted, ...
LastDay(receivedAt, days) == Today(receivedAt) + days


\* ... and the window expires when its last day is over.
ExpiryOf(lastDay) == (lastDay + 1) * TicksPerDay


DeadlineExpired(expiresAt, now) == now >= expiresAt

-----------------------------------------------------------------------------
\* The state of one process (type State), and its actions.  Who acted and the
\* text of the reason are left out of the events: a system event is one whose
\* action is in SystemActions, the others carry their caller.

Statuses == {"absent", "draft", "sent", "in_review", "rework", "resubmitted",
             "approved", "default_approved", "disputed"}
Windows  == {"", "review", "rework", "rereview"}
Actions  == {"send", "start_review", "approve", "request_rework", "resubmit", "dispute"}
SystemActions == {"default_approve", "rework_lapsed"}

State == [status : Statuses, window : Windows, dueDate : Nat, expiresAt : Nat,
          round : 0..2, sentLate : BOOLEAN, lapsed : BOOLEAN]

\* "absent" stands for the row that does not exist yet.
Absent == [status |-> "absent", window |-> "", dueDate |-> 0, expiresAt |-> 0,
           round |-> 0, sentLate |-> FALSE, lapsed |-> FALSE]
Draft  == [Absent EXCEPT !.status = "draft"]

Terminal(s) == s.status \in {"approved", "default_approved", "disputed"}

\* The local closures open and closeWindow of Apply.
Open(s, window, lastDay) ==
  [s EXCEPT !.window = window, !.dueDate = lastDay, !.expiresAt = ExpiryOf(lastDay)]

\* Mutant: a closed window gets a name that is not WindowNone.
CloseWindowNamed(s) == [s EXCEPT !.window = "closed", !.dueDate = 0, !.expiresAt = 0]

CloseWindow(s) == [s EXCEPT !.window = "", !.dueDate = 0, !.expiresAt = 0]


\* The statuses an action starts from.
From(action) ==
  CASE action = "send"           -> {"draft"}
    [] action = "start_review"   -> {"sent", "resubmitted"}
    [] action = "approve"        -> {"sent", "in_review", "resubmitted"}
    [] action = "request_rework" -> {"sent", "in_review"}
    [] action = "resubmit"       -> {"rework"}
    [] action = "dispute"        -> {"resubmitted", "in_review"}


\* Mutant: the number of the round is not looked at.
AcceptsAnyRound(p, s, action, reason, now) ==
  LET milestone == Milestones[KindOf[p]] IN
  /\ ~Terminal(s) /\ s.status \in From(action)
  /\ action = "send" /\ milestone.has => Today(now) >= milestone.cutoff
  /\ action \in {"request_rework", "dispute"} => reason
  /\ action = "resubmit" => ~DeadlineExpired(s.expiresAt, now)

\* Apply returns no error.
Accepts(p, s, action, reason, now) ==
  LET milestone == Milestones[KindOf[p]] IN
  /\ ~Terminal(s) /\ s.status \in From(action)
  /\ action = "send" /\ milestone.has => Today(now) >= milestone.cutoff
  /\ action = "request_rework" => s.round = 1
  /\ action = "dispute" => s.round = 2
  /\ action \in {"request_rework", "dispute"} => reason
  /\ action = "resubmit" => ~DeadlineExpired(s.expiresAt, now)

\* The state Apply returns when it returns no error.
Apply(p, s, action, now) ==
  LET chain     == Chains[KindOf[p]]
      milestone == Milestones[KindOf[p]]
  IN CASE action = "send" ->
            Open([s EXCEPT !.status = "sent", !.round = 1,
                           !.sentLate = milestone.has /\ Today(now) > milestone.sendDue],
                 "review", LastDay(now, chain.review))
       [] action = "start_review" -> [s EXCEPT !.status = "in_review"]
       [] action = "approve" -> CloseWindow([s EXCEPT !.status = "approved"])
       [] action = "request_rework" ->
            Open([s EXCEPT !.status = "rework"], "rework", LastDay(now, chain.rework))
       [] action = "resubmit" ->
            Open([s EXCEPT !.status = "resubmitted", !.round = 2],
                 "rereview", LastDay(now, chain.rereview))
       [] action = "dispute" -> CloseWindow([s EXCEPT !.status = "disputed"])


\* ExpireIfDue records something: a review window ran out, or a rework
\* window ran out and the lapse is not recorded yet.
Due(s, now) ==
  /\ ~Terminal(s) /\ s.window # "" /\ DeadlineExpired(s.expiresAt, now)
  /\ s.window = "rework" => ~s.lapsed

\* ExpireIfDue: the state afterwards.
ExpireIfDue(s, now) ==
  IF ~Due(s, now) THEN s
  ELSE IF s.window = "rework" THEN [s EXCEPT !.lapsed = TRUE]
  ELSE CloseWindow([s EXCEPT !.status = "default_approved"])

-----------------------------------------------------------------------------
VARIABLES
  clock,     \* the wall clock
  process,   \* [Procs -> State]: the rows of regulatory_processes
  events,    \* [Procs -> Seq(Event)]: the rows of regulatory_process_events
  audit,     \* [Procs -> Seq(action)]: what logAudit wrote about the process
  request,   \* [Requests -> the call between time.Now() and the row lock]
  sweep,     \* [Workers -> the pass of ExpireDue in progress]
  failures   \* failed transactions and passes so far (bound of the model)

vars == <<clock, process, events, audit, request, sweep, failures>>

Event == [action : Actions \cup SystemActions, from : Statuses, to : Statuses,
          at : Nat, due : Nat]

Request == [proc : Procs, action : Actions, reason : BOOLEAN, at : Nat]
Idle == [proc |-> NoProc, action |-> "", reason |-> FALSE, at |-> 0]

Sweep == [running : BOOLEAN, now : Nat, ids : SUBSET Procs]
NoPass == [running |-> FALSE, now |-> 0, ids |-> {}]

TypeOK ==
  /\ clock \in Nat
  /\ process \in [Procs -> State]
  /\ events \in [Procs -> Seq(Event)]
  /\ audit \in [Procs -> Seq(Actions \cup SystemActions)]
  /\ request \in [Requests -> Request \cup {Idle}]
  /\ sweep \in [Workers -> Sweep]
  /\ failures \in Nat

Init ==
  /\ clock = 0
  /\ process = [p \in Procs |-> Absent]
  /\ events = [p \in Procs |-> <<>>]
  /\ audit = [p \in Procs |-> <<>>]
  /\ request = [r \in Requests |-> Idle]
  /\ sweep = [w \in Workers |-> NoPass]
  /\ failures = 0

\* The event ExpireIfDue returns, as a sequence: none when nothing is due.
ExpiryEvents(s, now) ==
  IF ~Due(s, now) THEN <<>>
  ELSE << [action |-> IF s.window = "rework" THEN "rework_lapsed" ELSE "default_approve",
           from |-> s.status, to |-> ExpireIfDue(s, now).status,
           at |-> now, due |-> s.dueDate] >>

\* Only a transition that opens a window carries its due date.
ActEvent(s, next, req) ==
  [action |-> req.action, from |-> s.status, to |-> next.status, at |-> req.at,
   due |-> IF next.window # s.window THEN next.dueDate ELSE 0]

ActionsOf(evs) == [i \in DOMAIN evs |-> evs[i].action]

-----------------------------------------------------------------------------
\* Handlers

\* Create: idempotent, so a second call changes nothing and is left out.
Create(u, p) ==
  /\ Access[u].author
  /\ process[p].status = "absent"
  /\ process' = [process EXCEPT ![p] = Draft]
  /\ UNCHANGED <<clock, events, audit, request, sweep, failures>>

\* Act, up to regulatory.Act: the role checks, then now := time.Now().
RequestAct(r, u, p, action, reason) ==
  LET author == action \in {"send", "resubmit"} IN
  /\ request[r] = Idle
  /\ process[p].status # "absent" /\ Len(events[p]) < MaxEvents
  /\ author => Access[u].author
  /\ ~author => Access[u].reviewer \/ Access[u].onBehalf
  /\ ~author /\ ~Access[u].reviewer => reason
  /\ request' = [request EXCEPT ![r] = [proc |-> p, action |-> action,
                                        reason |-> reason, at |-> clock]]
  /\ UNCHANGED <<clock, process, events, audit, sweep, failures>>


\* Mutant: the deadline is not applied before the action.
ActCommitsUnexpired(r) ==
  LET req  == request[r]
      s    == process[req.proc]
      next == Apply(req.proc, s, req.action, req.at)
  IN /\ req # Idle
     /\ Accepts(req.proc, s, req.action, req.reason, req.at)
     /\ process' = [process EXCEPT ![req.proc] = next]
     /\ events' = [events EXCEPT ![req.proc] = Append(@, ActEvent(s, next, req))]
     /\ audit' = [audit EXCEPT ![req.proc] = Append(@, req.action)]
     /\ request' = [request EXCEPT ![r] = Idle]
     /\ UNCHANGED <<clock, sweep, failures>>

\* regulatory.Act commits: what expired on its own, then the action, both
\* persisted, and the hook audits every event of the transaction.
ActCommits(r) ==
  LET req     == request[r]
      s       == process[req.proc]
      expired == ExpireIfDue(s, req.at)
      next    == Apply(req.proc, expired, req.action, req.at)
      applied == Append(ExpiryEvents(s, req.at), ActEvent(expired, next, req))
  IN /\ req # Idle
     /\ Accepts(req.proc, expired, req.action, req.reason, req.at)
     /\ process' = [process EXCEPT ![req.proc] = next]
     /\ events' = [events EXCEPT ![req.proc] = @ \o applied]
     /\ audit' = [audit EXCEPT ![req.proc] = @ \o ActionsOf(applied)]
     /\ request' = [request EXCEPT ![r] = Idle]
     /\ UNCHANGED <<clock, sweep, failures>>


\* Mutant: the expiry found on the way is saved without its event.
ActRefusedSilently(r) ==
  LET req     == request[r]
      expired == ExpireIfDue(process[req.proc], req.at)
  IN /\ req # Idle
     /\ ~Accepts(req.proc, expired, req.action, req.reason, req.at)
     /\ process' = [process EXCEPT ![req.proc] = expired]
     /\ request' = [request EXCEPT ![r] = Idle]
     /\ UNCHANGED <<clock, events, audit, sweep, failures>>

\* Apply refuses: an expiry found on the way is committed all the same, and
\* the hook is not called.
ActRefused(r) ==
  LET req     == request[r]
      s       == process[req.proc]
      expired == ExpireIfDue(s, req.at)
  IN /\ req # Idle
     /\ ~Accepts(req.proc, expired, req.action, req.reason, req.at)
     /\ process' = [process EXCEPT ![req.proc] = expired]
     /\ events' = [events EXCEPT ![req.proc] = @ \o ExpiryEvents(s, req.at)]
     /\ request' = [request EXCEPT ![r] = Idle]
     /\ UNCHANGED <<clock, audit, sweep, failures>>

\* Any error before COMMIT (the hook's included), or a crash, rolls back.
ActFails(r) ==
  /\ request[r] # Idle /\ failures < MaxFailures
  /\ request' = [request EXCEPT ![r] = Idle]
  /\ failures' = failures + 1
  /\ UNCHANGED <<clock, process, events, audit, sweep>>

-----------------------------------------------------------------------------
\* The expiry job


\* Mutant: the repeated review is not looked for.
SelectedFirstReview ==
  {p \in Procs : /\ process[p].window \in {"review", "rework"} /\ process[p].expiresAt <= clock
                 /\ ~(process[p].window = "rework" /\ process[p].lapsed)}

\* The WHERE clause of ExpireDue.
Selected == {p \in Procs : /\ process[p].window # "" /\ process[p].expiresAt <= clock
                           /\ ~(process[p].window = "rework" /\ process[p].lapsed)}

\* A pass reads the clock and selects the longest overdue rows, LIMIT of them.
SweepStart(w) ==
  /\ ~sweep[w].running /\ Selected # {}
  /\ \E ids \in SUBSET Selected :
       /\ Cardinality(ids) = SweepLimit \/ (ids = Selected /\ Cardinality(ids) < SweepLimit)
       /\ \A p \in ids, q \in Selected \ ids : process[p].expiresAt <= process[q].expiresAt
       /\ sweep' = [sweep EXCEPT ![w] = [running |-> TRUE, now |-> clock, ids |-> ids]]
  /\ UNCHANGED <<clock, process, events, audit, request, failures>>


\* expireOne: its own transaction; the row may have changed since selection.
ExpireOne(w, p) ==
  /\ sweep[w].running /\ p \in sweep[w].ids
  /\ process' = [process EXCEPT ![p] = ExpireIfDue(@, sweep[w].now)]
  /\ events' = [events EXCEPT ![p] = @ \o ExpiryEvents(process[p], sweep[w].now)]
  /\ sweep' = [sweep EXCEPT ![w].ids = @ \ {p}]
  /\ UNCHANGED <<clock, audit, request, failures>>

SweepEnd(w) ==
  /\ sweep[w].running /\ sweep[w].ids = {}
  /\ sweep' = [sweep EXCEPT ![w] = NoPass]
  /\ UNCHANGED <<clock, process, events, audit, request, failures>>

\* The first error, the one-minute timeout or a crash ends the pass; the rest
\* of the selection waits for the next one.
SweepFails(w) ==
  /\ sweep[w].running /\ failures < MaxFailures
  /\ sweep' = [sweep EXCEPT ![w] = NoPass]
  /\ failures' = failures + 1
  /\ UNCHANGED <<clock, process, events, audit, request>>

-----------------------------------------------------------------------------
Tick ==
  /\ clock < MaxClock
  /\ clock' = clock + 1
  /\ UNCHANGED <<process, events, audit, request, sweep, failures>>

Next ==
  \/ Tick
  \/ \E u \in Users, p \in Procs : Create(u, p)
  \/ \E r \in Requests, u \in Users, p \in Procs, action \in Actions, reason \in BOOLEAN :
       RequestAct(r, u, p, action, reason)
  \/ \E r \in Requests : ActCommits(r) \/ ActRefused(r) \/ ActFails(r)
  \/ \E w \in Workers : SweepStart(w) \/ SweepEnd(w) \/ SweepFails(w)
  \/ \E w \in Workers, p \in Procs : ExpireOne(w, p)

Spec == Init /\ [][Next]_vars

\* The job's ticker keeps starting passes and a pass goes on to its end.
\* Nothing is assumed of the clock or of the callers.
WorkerStep(w) == SweepStart(w) \/ SweepEnd(w) \/ \E p \in Procs : ExpireOne(w, p)
Fairness == \A w \in Workers : WF_vars(WorkerStep(w))
FairSpec == Spec /\ Fairness

-----------------------------------------------------------------------------
\* Properties

\* The CHECK constraints of migration 0807 and what the machine relies on
\* beyond them: the window and the round follow from the status.  If a step
\* could break one, its UPDATE would fail, and in the expiry job it would fail
\* again on every pass.
Shape(s) ==
  /\ s.window = "" <=> s.expiresAt = 0
  /\ s.status \in {"absent", "draft"} <=> s.round = 0
  /\ s.window = "review" <=> (s.round = 1 /\ s.status \in {"sent", "in_review"})
  /\ s.window = "rereview" <=> (s.round = 2 /\ s.status \in {"resubmitted", "in_review"})
  /\ s.window = "rework" <=> s.status = "rework"
  /\ s.status \in {"sent", "rework"} => s.round = 1
  /\ s.status \in {"resubmitted", "disputed"} => s.round = 2
  /\ s.window # "" => s.expiresAt = ExpiryOf(s.dueDate)
SchemaChecksHold == \A p \in Procs : Shape(process[p])

\* The history explains the row: events chain from draft to the current
\* status, whatever mix of requests and passes wrote them.
HistoryExplainsRow ==
  \A p \in Procs : LET evs == events[p] IN
    /\ evs # <<>> => /\ evs[1].from = "draft"
                     /\ evs[Len(evs)].to = process[p].status
    /\ evs = <<>> => process[p].status \in {"absent", "draft"}
    /\ \A i \in 1..(Len(evs) - 1) : evs[i].to = evs[i + 1].from

\* Nothing is done twice however requests and passes race: no transition
\* other than start_review (once per round) is recorded more than once, and
\* nothing follows a decision.
EachTransitionOnce ==
  \A p \in Procs : \A i, j \in DOMAIN events[p] :
    i < j => /\ events[p][i].to \notin {"approved", "default_approved", "disputed"}
             /\ events[p][i].action = events[p][j].action =>
                  events[p][i].action = "start_review" /\ events[p][i].from # events[p][j].from

\* ADR-02: silence approves only after the last calendar day is over, counted
\* from the day AFTER the one on which the list was sent or resubmitted.
Opens(p, action) ==
  IF action = "send" THEN Chains[KindOf[p]].review ELSE Chains[KindOf[p]].rereview
NoEarlySilence ==
  \A p \in Procs : \A i \in DOMAIN events[p] :
    events[p][i].action = "default_approve" =>
      \E j \in 1..(i - 1) :
        /\ events[p][j].action \in {"send", "resubmit"}
        /\ \A k \in (j + 1)..(i - 1) : events[p][k].action = "start_review"
        /\ Today(clock) > Today(events[p][j].at) + Opens(p, events[p][j].action)

\* Whoever closes a window, and however often it is noticed, the history that
\* decides a dispute between the parties tells it once, in order and in time.
HistoryIsSound == HistoryExplainsRow /\ EachTransitionOnce /\ NoEarlySilence

\* The three final states are final, and the history is append-only.
DecisionIsFinal ==
  [][\A p \in Procs : Terminal(process[p]) =>
       process'[p] = process[p] /\ events'[p] = events[p]]_vars

\* Silence is noticed: a review window that has run out does not stay open,
\* though passes and transactions fail a bounded number of times.  It ends in
\* a decision or, when a request read the clock just before the deadline and
\* got the row first, in rework.
OverdueReviewIsClosed ==
  \A p \in Procs :
    (process[p].window \in {"review", "rereview"} /\ process[p].expiresAt <= clock)
      ~> (Terminal(process[p]) \/ process[p].window = "rework")

\* Requests, passes, histories and the audit journal hidden, the rows behave
\* as SilentConsent says: accepting a list for review and recording a lapsed
\* rework are invisible, and whoever closes a window does so by its rules.
PhaseOf(s) ==
  CASE s.status \in {"sent", "in_review", "resubmitted"} -> "review"
    [] s.status = "default_approved" -> "silent"
    [] OTHER -> s.status

Consent == INSTANCE SilentConsent WITH
  Length <- [p \in Procs |-> Chains[KindOf[p]]],
  list <- [p \in Procs |-> [phase |-> PhaseOf(process[p]), round |-> process[p].round,
                            expires |-> process[p].expiresAt]]

ImplementsConsent == Consent!Spec

\* store.go:129-130: the audit journal is written atomically with the
\* transition, so every recorded transition is in it.
EveryTransitionAudited ==
  \A p \in Procs : audit[p] = ActionsOf(events[p])
=============================================================================
