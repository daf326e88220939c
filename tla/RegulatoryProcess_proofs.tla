---------------------- MODULE RegulatoryProcess_proofs ----------------------
(***************************************************************************)
(* Proofs about RegulatoryProcess, for every set of processes, chains,     *)
(* milestones, callers, requests and workers.                              *)
(***************************************************************************)
EXTENDS RegulatoryProcess, SequenceTheorems, TLAPS

\* The calendar: dates and expiry instants are natural numbers, and an
\* expiry instant is never the zero that stands for "no window".
LEMMA CalendarType ==
  ASSUME NEW now \in Nat, NEW days \in Nat
  PROVE  /\ Today(now) \in Nat
         /\ LastDay(now, days) \in Nat
  BY BoundsAssumption DEF Today, LastDay

LEMMA ExpiryPositive ==
  ASSUME NEW day \in Nat
  PROVE  ExpiryOf(day) \in Nat /\ ExpiryOf(day) > 0
<1>1. \A a, b \in Nat \ {0} : a * b \in Nat /\ a * b > 0
  BY SMT
<1>2. day + 1 \in Nat \ {0} /\ TicksPerDay \in Nat \ {0}
  BY BoundsAssumption
<1> QED BY <1>1, <1>2 DEF ExpiryOf

\* Changing the status, the round and the mark of a late list keeps the
\* record a State.
LEMMA WithStatus ==
  ASSUME NEW s \in State, NEW status \in Statuses, NEW round \in 0..2, NEW late \in BOOLEAN
  PROVE  /\ [s EXCEPT !.status = status, !.round = round, !.sentLate = late] \in State
         /\ [s EXCEPT !.status = status, !.round = round] \in State
         /\ [s EXCEPT !.status = status] \in State
<1>1. [s EXCEPT !.status = status, !.round = round, !.sentLate = late] \in State
  BY ZenonT(20) DEF State
<1>2. [s EXCEPT !.status = status, !.round = round] \in State
  BY DEF State
<1>3. [s EXCEPT !.status = status] \in State
  BY DEF State
<1> QED BY <1>1, <1>2, <1>3

\* Sequences of one element.
LEMMA SingletonSeq ==
  ASSUME NEW S, NEW e \in S
  PROVE  <<e>> \in Seq(S)
OBVIOUS

\* The actions of a sequence of events.
LEMMA ActionsOfType ==
  ASSUME NEW evs \in Seq(Event)
  PROVE  ActionsOf(evs) \in Seq(Actions \cup SystemActions)
<1>1. \A e \in Event : e.action \in Actions \cup SystemActions
  BY DEF Event
<1>2. DOMAIN evs = 1..Len(evs) /\ Len(evs) \in Nat
  OBVIOUS
<1>3. \A i \in 1..Len(evs) : evs[i].action \in Actions \cup SystemActions
  <2> TAKE i \in 1..Len(evs)
  <2>1. evs[i] \in Event
    BY <1>2
  <2> QED BY <2>1, <1>1
<1>4. [i \in 1..Len(evs) |-> evs[i].action] \in Seq(Actions \cup SystemActions)
  BY <1>2, <1>3, IsASeq
<1> QED BY <1>2, <1>4 DEF ActionsOf

\* Opening a window keeps the record a State.
LEMMA OpenType ==
  ASSUME NEW s \in State, NEW window \in Windows, NEW day \in Nat
  PROVE  Open(s, window, day) \in State
<1>1. ExpiryOf(day) \in Nat
  BY ExpiryPositive
<1> QED BY <1>1 DEF Open, State

\* A row that does not exist yet, and one just created.
LEMMA AbsentType == Absent \in State /\ Draft \in State
<1>1. Absent \in State
  BY DEF State, Absent, Statuses, Windows
<1>2. "draft" \in Statuses
  BY DEF Statuses
<1>3. \A s \in State : [s EXCEPT !.status = "draft"] \in State
  BY <1>2 DEF State
<1> QED BY <1>1, <1>3 DEF Draft

\* Apply maps states to states.
LEMMA ApplyType ==
  ASSUME NEW p \in Procs, NEW s \in State, NEW action \in Actions, NEW now \in Nat
  PROVE  Apply(p, s, action, now) \in State
<1> DEFINE chain == Chains[KindOf[p]]
<1> DEFINE milestone == Milestones[KindOf[p]]
<1>1. chain \in [review : Nat \ {0}, rework : Nat \ {0}, rereview : Nat \ {0}]
  BY KindsAssumption
<1>2. /\ LastDay(now, chain.review) \in Nat
      /\ LastDay(now, chain.rework) \in Nat
      /\ LastDay(now, chain.rereview) \in Nat
  <2>1. chain.review \in Nat /\ chain.rework \in Nat /\ chain.rereview \in Nat
    BY <1>1
  <2> HIDE DEF chain
  <2> QED BY <2>1, CalendarType
<1>3. CASE action = "send"
  <2> DEFINE late == milestone.has /\ Today(now) > milestone.sendDue
  <2> DEFINE base == [s EXCEPT !.status = "sent", !.round = 1, !.sentLate = late]
  <2>1. milestone.has \in BOOLEAN
    BY KindsAssumption
  <2>2. late \in BOOLEAN
    BY <2>1
  <2>3. base \in State
    <3>1. "sent" \in Statuses /\ 1 \in 0..2
      BY DEF Statuses
    <3> HIDE DEF late
    <3> QED BY <2>2, <3>1, WithStatus
  <2>4. Open(base, "review", LastDay(now, chain.review)) \in State
    <3> HIDE DEF base, chain
    <3> QED BY <2>3, <1>2, OpenType DEF Windows
  <2> QED BY <1>3, <2>4 DEF Apply
<1>4. CASE action = "start_review"
  BY <1>4 DEF Apply, State, Statuses
<1>5. CASE action = "approve"
  BY <1>5 DEF Apply, CloseWindow, State, Statuses, Windows
<1>6. CASE action = "request_rework"
  <2>1. [s EXCEPT !.status = "rework"] \in State
    BY DEF State, Statuses
  <2>2. Open([s EXCEPT !.status = "rework"], "rework", LastDay(now, chain.rework)) \in State
    <3> HIDE DEF chain
    <3> QED BY <2>1, <1>2, OpenType DEF Windows
  <2> QED BY <1>6, <2>2 DEF Apply
<1>7. CASE action = "resubmit"
  <2>1. [s EXCEPT !.status = "resubmitted", !.round = 2] \in State
    <3>1. "resubmitted" \in Statuses /\ 2 \in 0..2
      BY DEF Statuses
    <3> QED BY <3>1, WithStatus
  <2>2. Open([s EXCEPT !.status = "resubmitted", !.round = 2],
             "rereview", LastDay(now, chain.rereview)) \in State
    <3> HIDE DEF chain
    <3> QED BY <2>1, <1>2, OpenType DEF Windows
  <2> QED BY <1>7, <2>2 DEF Apply
<1>8. CASE action = "dispute"
  BY <1>8 DEF Apply, CloseWindow, State, Statuses, Windows
<1> QED BY <1>3, <1>4, <1>5, <1>6, <1>7, <1>8 DEF Actions

\* So does ExpireIfDue, and what it records is a sequence of events.
LEMMA ExpireType ==
  ASSUME NEW s \in State, NEW now \in Nat
  PROVE  /\ ExpireIfDue(s, now) \in State
         /\ ExpiryEvents(s, now) \in Seq(Event)
<1>1. ExpireIfDue(s, now) \in State
  BY DEF ExpireIfDue, CloseWindow, State, Statuses, Windows
<1>2. ExpireIfDue(s, now).status \in Statuses /\ s.status \in Statuses /\ s.dueDate \in Nat
  BY <1>1 DEF State
<1>3. CASE ~Due(s, now)
  <2>1. ExpiryEvents(s, now) = <<>>
    BY <1>3 DEF ExpiryEvents
  <2> QED BY <2>1, <1>1
<1>4. CASE Due(s, now)
  <2> DEFINE e == [action |-> IF s.window = "rework" THEN "rework_lapsed" ELSE "default_approve",
                   from |-> s.status, to |-> ExpireIfDue(s, now).status,
                   at |-> now, due |-> s.dueDate]
  <2>1. e \in Event
    BY <1>2 DEF Event, SystemActions
  <2>2. ExpiryEvents(s, now) = <<e>>
    BY <1>4 DEF ExpiryEvents
  <2> HIDE DEF e
  <2> QED BY <2>1, <2>2, <1>1, SingletonSeq
<1> QED BY <1>1, <1>3, <1>4

-----------------------------------------------------------------------------
\* Type correctness.
THEOREM TypeInvariant == Spec => []TypeOK
<1>1. Init => TypeOK
  <2> SUFFICES ASSUME Init PROVE TypeOK
    OBVIOUS
  <2>1. Absent \in State /\ NoPass \in Sweep
    BY AbsentType DEF NoPass, Sweep
  <2> QED BY <2>1, EmptySeq DEF Init, TypeOK
<1>2. TypeOK /\ [Next]_vars => TypeOK'
  <2> SUFFICES ASSUME TypeOK, [Next]_vars PROVE TypeOK'
    OBVIOUS
  <2> USE DEF TypeOK
  <2>1. CASE Tick
    BY <2>1 DEF Tick
  <2>2. ASSUME NEW u \in Users, NEW p \in Procs, Create(u, p) PROVE TypeOK'
    BY <2>2, AbsentType DEF Create
  <2>3. ASSUME NEW r \in Requests, NEW u \in Users, NEW p \in Procs, NEW action \in Actions,
               NEW reason \in BOOLEAN, RequestAct(r, u, p, action, reason)
        PROVE  TypeOK'
    BY <2>3 DEF RequestAct, Request
  <2>4. ASSUME NEW r \in Requests, ActCommits(r) PROVE TypeOK'
    <3> DEFINE req     == request[r]
               s       == process[req.proc]
               expired == ExpireIfDue(s, req.at)
               next    == Apply(req.proc, expired, req.action, req.at)
               applied == Append(ExpiryEvents(s, req.at), ActEvent(expired, next, req))
    <3>1. req \in Request
      BY <2>4 DEF ActCommits
    <3>2. req.proc \in Procs /\ req.action \in Actions /\ req.at \in Nat
      BY <3>1 DEF Request
    <3>3. s \in State
      BY <3>2
    <3> HIDE DEF req, s
    <3>4. expired \in State /\ ExpiryEvents(s, req.at) \in Seq(Event)
      BY <3>2, <3>3, ExpireType
    <3> HIDE DEF expired
    <3>5. next \in State
      BY <3>2, <3>4, ApplyType
    <3> HIDE DEF next
    <3>6. ActEvent(expired, next, req) \in Event
      BY <3>2, <3>4, <3>5 DEF ActEvent, Event, State
    <3>7. applied \in Seq(Event)
      BY <3>4, <3>6
    <3> HIDE DEF applied
    <3>8. ActionsOf(applied) \in Seq(Actions \cup SystemActions)
      BY <3>7, ActionsOfType
    <3>9. process' \in [Procs -> State]
      BY <2>4, <3>5 DEF ActCommits, next, expired, s, req
    <3>10. events' \in [Procs -> Seq(Event)]
      <4>1. events' = [events EXCEPT ![req.proc] = @ \o applied]
        BY <2>4 DEF ActCommits, applied, next, expired, s, req
      <4>2. events[req.proc] \o applied \in Seq(Event)
        BY <3>2, <3>7
      <4> QED BY <4>1, <4>2, <3>2
    <3>11. audit' \in [Procs -> Seq(Actions \cup SystemActions)]
      <4>1. audit' = [audit EXCEPT ![req.proc] = @ \o ActionsOf(applied)]
        BY <2>4 DEF ActCommits, applied, next, expired, s, req
      <4>2. audit[req.proc] \o ActionsOf(applied) \in Seq(Actions \cup SystemActions)
        BY <3>2, <3>8
      <4> QED BY <4>1, <4>2, <3>2
    <3> QED BY <2>4, <3>9, <3>10, <3>11 DEF ActCommits
  <2>5. ASSUME NEW r \in Requests, ActRefused(r) PROVE TypeOK'
    <3> DEFINE req     == request[r]
               s       == process[req.proc]
               expired == ExpireIfDue(s, req.at)
    <3>1. req \in Request
      BY <2>5 DEF ActRefused
    <3>2. req.proc \in Procs /\ req.at \in Nat /\ s \in State
      BY <3>1 DEF Request
    <3>3. expired \in State /\ ExpiryEvents(s, req.at) \in Seq(Event)
      <4> HIDE DEF req, s
      <4> QED BY <3>2, ExpireType
    <3>4. process' \in [Procs -> State]
      BY <2>5, <3>3 DEF ActRefused
    <3>5. events' \in [Procs -> Seq(Event)]
      <4>1. events[req.proc] \o ExpiryEvents(s, req.at) \in Seq(Event)
        BY <3>2, <3>3
      <4> QED BY <2>5, <4>1 DEF ActRefused
    <3> QED BY <2>5, <3>4, <3>5 DEF ActRefused
  <2>6. ASSUME NEW r \in Requests, ActFails(r) PROVE TypeOK'
    BY <2>6 DEF ActFails
  <2>7. ASSUME NEW w \in Workers, SweepStart(w) PROVE TypeOK'
    <3>1. PICK ids \in SUBSET Selected :
            sweep' = [sweep EXCEPT ![w] = [running |-> TRUE, now |-> clock, ids |-> ids]]
      BY <2>7 DEF SweepStart
    <3>2. ids \in SUBSET Procs
      BY DEF Selected
    <3> QED BY <2>7, <3>1, <3>2 DEF SweepStart, Sweep
  <2>8. ASSUME NEW w \in Workers, SweepEnd(w) PROVE TypeOK'
    BY <2>8 DEF SweepEnd, NoPass, Sweep
  <2>9. ASSUME NEW w \in Workers, SweepFails(w) PROVE TypeOK'
    BY <2>9 DEF SweepFails, NoPass, Sweep
  <2>10. ASSUME NEW w \in Workers, NEW p \in Procs, ExpireOne(w, p) PROVE TypeOK'
    <3> DEFINE now == sweep[w].now
    <3>1. now \in Nat /\ process[p] \in State
      BY DEF Sweep
    <3>2. ExpireIfDue(process[p], now) \in State /\ ExpiryEvents(process[p], now) \in Seq(Event)
      <4> HIDE DEF now
      <4> QED BY <3>1, ExpireType
    <3>3. events[p] \o ExpiryEvents(process[p], now) \in Seq(Event)
      BY <3>2
    <3> QED BY <2>10, <3>2, <3>3 DEF ExpireOne, Sweep
  <2>11. CASE UNCHANGED vars
    BY <2>11 DEF vars
  <2> QED BY <2>1, <2>2, <2>3, <2>4, <2>5, <2>6, <2>7, <2>8, <2>9, <2>10, <2>11 DEF Next
<1> QED BY <1>1, <1>2, PTL DEF Spec

-----------------------------------------------------------------------------
\* The inductive invariant: the shape of every row, and that no request or
\* pass carries a clock reading from the future.  The second part is what
\* makes a silent approval found with a reading true of the clock as well.
ReadingsArePast ==
  /\ \A r \in Requests : request[r] # Idle => request[r].at <= clock
  /\ \A w \in Workers : sweep[w].now <= clock

IInv == TypeOK /\ SchemaChecksHold /\ ReadingsArePast

\* What a step can do to a row, whoever takes it.
Acted(p, action, reason, at) ==
  LET expired == ExpireIfDue(process[p], at) IN
  /\ Accepts(p, expired, action, reason, at)
  /\ process' = [process EXCEPT ![p] = Apply(p, expired, action, at)]

Expired(p, at) == process' = [process EXCEPT ![p] = ExpireIfDue(process[p], at)]

RowStep ==
  /\ clock' = clock
  /\ \E p \in Procs :
       \/ process[p].status = "absent" /\ process' = [process EXCEPT ![p] = Draft]
       \/ \E action \in Actions, reason \in BOOLEAN, at \in 0..clock : Acted(p, action, reason, at)
       \/ \E at \in 0..clock : Expired(p, at)

\* Every step changes one row in one of those ways, or no row at all.
LEMMA StepCases ==
  ASSUME TypeOK, ReadingsArePast, [Next]_vars
  PROVE  \/ process' = process /\ (clock' = clock \/ clock' = clock + 1)
         \/ RowStep
<1> USE DEF TypeOK, ReadingsArePast
<1>1. CASE Tick
  BY <1>1 DEF Tick
<1>2. ASSUME NEW u \in Users, NEW p \in Procs, Create(u, p) PROVE RowStep
  BY <1>2 DEF Create, RowStep
<1>3. ASSUME NEW r \in Requests, ActCommits(r) PROVE RowStep
  <2> DEFINE req == request[r]
  <2>1. req \in Request /\ req # Idle
    BY <1>3 DEF ActCommits
  <2>2. req.proc \in Procs /\ req.action \in Actions /\ req.reason \in BOOLEAN /\ req.at \in 0..clock
    BY <2>1 DEF Request
  <2>3. Acted(req.proc, req.action, req.reason, req.at) /\ clock' = clock
    BY <1>3 DEF ActCommits, Acted
  <2> HIDE DEF req
  <2> QED BY <2>2, <2>3 DEF RowStep
<1>4. ASSUME NEW r \in Requests, ActRefused(r) PROVE RowStep
  <2> DEFINE req == request[r]
  <2>1. req \in Request /\ req # Idle
    BY <1>4 DEF ActRefused
  <2>2. req.proc \in Procs /\ req.at \in 0..clock
    BY <2>1 DEF Request
  <2>3. Expired(req.proc, req.at) /\ clock' = clock
    BY <1>4 DEF ActRefused, Expired
  <2> HIDE DEF req
  <2> QED BY <2>2, <2>3 DEF RowStep
<1>5. ASSUME NEW w \in Workers, NEW p \in Procs, ExpireOne(w, p) PROVE RowStep
  <2>1. sweep[w].now \in 0..clock
    BY DEF Sweep
  <2>2. Expired(p, sweep[w].now) /\ clock' = clock
    BY <1>5 DEF ExpireOne, Expired
  <2> QED BY <2>1, <2>2 DEF RowStep
<1>6. ASSUME NEW r \in Requests, NEW u \in Users, NEW p \in Procs, NEW action \in Actions,
             NEW reason \in BOOLEAN, RequestAct(r, u, p, action, reason)
      PROVE  process' = process /\ clock' = clock
  BY <1>6 DEF RequestAct
<1>7. ASSUME NEW r \in Requests, ActFails(r) PROVE process' = process /\ clock' = clock
  BY <1>7 DEF ActFails
<1>8. ASSUME NEW w \in Workers, SweepStart(w) \/ SweepEnd(w) \/ SweepFails(w)
      PROVE  process' = process /\ clock' = clock
  BY <1>8 DEF SweepStart, SweepEnd, SweepFails
<1>9. CASE UNCHANGED vars
  BY <1>9 DEF vars
<1> QED BY <1>1, <1>2, <1>3, <1>4, <1>5, <1>6, <1>7, <1>8, <1>9 DEF Next

-----------------------------------------------------------------------------
\* The shape of a row survives the passing of a deadline ...
LEMMA ExpireShape ==
  ASSUME NEW s \in State, NEW at \in Nat, Shape(s)
  PROVE  Shape(ExpireIfDue(s, at))
<1>1. CASE ~Due(s, at)
  BY <1>1 DEF ExpireIfDue
<1>2. CASE Due(s, at) /\ s.window = "rework"
  <2> DEFINE next == ExpireIfDue(s, at)
  <2>1. /\ next.status = s.status /\ next.window = s.window /\ next.round = s.round
        /\ next.dueDate = s.dueDate /\ next.expiresAt = s.expiresAt
    BY <1>2 DEF ExpireIfDue, State
  <2> HIDE DEF next
  <2>9. Shape(next)
    BY <2>1 DEF Shape
  <2> QED BY <2>9 DEF next
<1>3. CASE Due(s, at) /\ s.window # "rework"
  <2> DEFINE next == ExpireIfDue(s, at)
  <2>1. /\ next.status = "default_approved" /\ next.window = ""
        /\ next.round = s.round /\ next.expiresAt = 0
    BY <1>3 DEF ExpireIfDue, CloseWindow, State
  <2>2. s.round # 0 /\ s.round \in {1, 2}
    BY <1>3 DEF Shape, State, Due, Windows
  <2> HIDE DEF next
  <2>9. Shape(next)
    BY <2>1, <2>2 DEF Shape
  <2> QED BY <2>9 DEF next
<1> QED BY <1>1, <1>2, <1>3

\* ... and every action that Apply accepts.
LEMMA ApplyShape ==
  ASSUME NEW p \in Procs, NEW s \in State, NEW action \in Actions, NEW reason \in BOOLEAN,
         NEW at \in Nat, Shape(s), Accepts(p, s, action, reason, at)
  PROVE  Shape(Apply(p, s, action, at))
<1> DEFINE chain == Chains[KindOf[p]]
<1>1. chain \in [review : Nat \ {0}, rework : Nat \ {0}, rereview : Nat \ {0}]
  BY KindsAssumption
<1>2. /\ LastDay(at, chain.review) \in Nat
      /\ LastDay(at, chain.rework) \in Nat
      /\ LastDay(at, chain.rereview) \in Nat
  <2>1. chain.review \in Nat /\ chain.rework \in Nat /\ chain.rereview \in Nat
    BY <1>1
  <2> HIDE DEF chain
  <2> QED BY <2>1, CalendarType
<1>3. \A day \in Nat : ExpiryOf(day) \in Nat /\ ExpiryOf(day) # 0
  BY ExpiryPositive
<1>4. s.status \in From(action) /\ s.status # "absent"
  BY DEF Accepts, From, Actions
<1> HIDE DEF chain
<1>5. CASE action = "send"
  <2> DEFINE next == Apply(p, s, action, at)
             last == LastDay(at, chain.review)
  <2>1. /\ next.status = "sent" /\ next.round = 1 /\ next.window = "review"
        /\ next.dueDate = last /\ next.expiresAt = ExpiryOf(last)
    BY <1>5 DEF Apply, Open, State, chain
  <2>2. ExpiryOf(last) # 0 /\ next.round # 0
    BY <1>2, <1>3, <2>1
  <2> HIDE DEF next, last
  <2>9. Shape(next)
    BY <2>1, <2>2 DEF Shape
  <2> QED BY <2>9 DEF next
<1>6. CASE action = "start_review"
  <2> DEFINE next == Apply(p, s, action, at)
  <2>1. /\ next.status = "in_review" /\ next.round = s.round /\ next.window = s.window
        /\ next.dueDate = s.dueDate /\ next.expiresAt = s.expiresAt
    BY <1>6 DEF Apply, State
  <2>2. s.status \in {"sent", "resubmitted"}
    BY <1>6, <1>4 DEF From
  <2>3. \/ s.round = 1 /\ s.round # 0 /\ s.round # 2 /\ s.window = "review"
        \/ s.round = 2 /\ s.round # 0 /\ s.round # 1 /\ s.window = "rereview"
    <3>1. CASE s.status = "sent"
      <4>1. s.round = 1
        BY <3>1 DEF Shape
      <4>2. s.window = "review"
        BY <3>1, <4>1 DEF Shape
      <4> QED BY <4>1, <4>2
    <3>2. CASE s.status = "resubmitted"
      <4>1. s.round = 2
        BY <3>2 DEF Shape
      <4>2. s.window = "rereview"
        BY <3>2, <4>1 DEF Shape
      <4> QED BY <4>1, <4>2
    <3> QED BY <2>2, <3>1, <3>2
  <2>4. s.expiresAt # 0 /\ s.expiresAt = ExpiryOf(s.dueDate)
    BY <2>3 DEF Shape
  <2> HIDE DEF next
  <2>9. Shape(next)
    BY <2>1, <2>3, <2>4 DEF Shape
  <2> QED BY <2>9 DEF next
<1>7. CASE action = "approve"
  BY <1>7, <1>4 DEF Apply, CloseWindow, Shape, State, From
<1>8. CASE action = "request_rework"
  <2>1. s.round = 1
    BY <1>8 DEF Accepts
  <2> QED BY <1>8, <2>1, <1>2, <1>3, <1>4 DEF Apply, Open, Shape, State, From, chain
<1>9. CASE action = "resubmit"
  <2> DEFINE next == Apply(p, s, action, at)
             last == LastDay(at, chain.rereview)
  <2>1. /\ next.status = "resubmitted" /\ next.round = 2 /\ next.window = "rereview"
        /\ next.dueDate = last /\ next.expiresAt = ExpiryOf(last)
    BY <1>9 DEF Apply, Open, State, chain
  <2>2. ExpiryOf(last) # 0 /\ next.round # 0
    BY <1>2, <1>3, <2>1
  <2> HIDE DEF next, last
  <2>9. Shape(next)
    BY <2>1, <2>2 DEF Shape
  <2> QED BY <2>9 DEF next
<1>10. CASE action = "dispute"
  <2>1. s.round = 2
    BY <1>10 DEF Accepts
  <2> QED BY <1>10, <2>1, <1>4 DEF Apply, CloseWindow, Shape, State, From
<1> QED BY <1>5, <1>6, <1>7, <1>8, <1>9, <1>10 DEF Actions

LEMMA ShapePreserved ==
  ASSUME IInv, RowStep
  PROVE  SchemaChecksHold'
<1> USE DEF IInv
<1>1. PICK p \in Procs :
       \/ process[p].status = "absent" /\ process' = [process EXCEPT ![p] = Draft]
       \/ \E action \in Actions, reason \in BOOLEAN, at \in 0..clock : Acted(p, action, reason, at)
       \/ \E at \in 0..clock : Expired(p, at)
  BY DEF RowStep
<1>2. process[p] \in State /\ Shape(process[p]) /\ clock \in Nat
  BY DEF TypeOK, SchemaChecksHold
<1>3. SUFFICES ASSUME NEW next, process' = [process EXCEPT ![p] = next], Shape(next)
               PROVE  SchemaChecksHold'
  <2>1. CASE process' = [process EXCEPT ![p] = Draft]
    <3>1. Shape(Draft)
      BY DEF Shape, Draft, Absent
    <3> QED BY <2>1, <3>1, <1>3
  <2>2. ASSUME NEW action \in Actions, NEW reason \in BOOLEAN, NEW at \in 0..clock,
               Acted(p, action, reason, at)
        PROVE  SchemaChecksHold'
    <3> DEFINE expired == ExpireIfDue(process[p], at)
    <3>1. at \in Nat
      BY <1>2
    <3>2. expired \in State /\ Shape(expired)
      BY <1>2, <3>1, ExpireType, ExpireShape
    <3>3. Accepts(p, expired, action, reason, at)
      BY <2>2 DEF Acted
    <3>4. process' = [process EXCEPT ![p] = Apply(p, expired, action, at)]
      BY <2>2 DEF Acted
    <3> HIDE DEF expired
    <3>5. Shape(Apply(p, expired, action, at))
      BY <3>1, <3>2, <3>3, ApplyShape
    <3> QED BY <3>4, <3>5, <1>3
  <2>3. ASSUME NEW at \in 0..clock, Expired(p, at) PROVE SchemaChecksHold'
    <3>1. at \in Nat
      BY <1>2
    <3>2. Shape(ExpireIfDue(process[p], at))
      BY <1>2, <3>1, ExpireShape
    <3> QED BY <2>3, <3>2, <1>3 DEF Expired
  <2> QED BY <1>1, <2>1, <2>2, <2>3
<1>4. \A q \in Procs : process'[q] = IF q = p THEN next ELSE process[q]
  BY <1>3 DEF TypeOK
<1> QED BY <1>3, <1>4 DEF SchemaChecksHold

LEMMA ReadingsStayPast ==
  ASSUME TypeOK, ReadingsArePast, [Next]_vars
  PROVE  ReadingsArePast'
<1> USE DEF TypeOK, ReadingsArePast
<1>1. CASE Tick
  BY <1>1 DEF Tick, Request, Sweep
<1>2. ASSUME NEW u \in Users, NEW p \in Procs, Create(u, p) PROVE ReadingsArePast'
  BY <1>2 DEF Create
<1>3. ASSUME NEW r \in Requests, NEW u \in Users, NEW p \in Procs, NEW action \in Actions,
             NEW reason \in BOOLEAN, RequestAct(r, u, p, action, reason)
      PROVE  ReadingsArePast'
  BY <1>3 DEF RequestAct
<1>4. ASSUME NEW r \in Requests, ActCommits(r) \/ ActRefused(r) \/ ActFails(r)
      PROVE  ReadingsArePast'
  BY <1>4 DEF ActCommits, ActRefused, ActFails
<1>5. ASSUME NEW w \in Workers, SweepStart(w) PROVE ReadingsArePast'
  <2>1. PICK ids \in SUBSET Selected :
          sweep' = [sweep EXCEPT ![w] = [running |-> TRUE, now |-> clock, ids |-> ids]]
    BY <1>5 DEF SweepStart
  <2>2. sweep'[w].now = clock /\ \A v \in Workers \ {w} : sweep'[v] = sweep[v]
    BY <2>1
  <2> QED BY <1>5, <2>2 DEF SweepStart
<1>6. ASSUME NEW w \in Workers, SweepEnd(w) \/ SweepFails(w) PROVE ReadingsArePast'
  <2>1. \A v \in Workers : sweep'[v] = IF v = w THEN NoPass ELSE sweep[v]
    BY <1>6 DEF SweepEnd, SweepFails
  <2>2. NoPass.now = 0 /\ 0 <= clock
    BY DEF NoPass
  <2>3. \A v \in Workers : sweep'[v].now <= clock
    BY <2>1, <2>2
  <2> QED BY <1>6, <2>3 DEF SweepEnd, SweepFails
<1>7. ASSUME NEW w \in Workers, NEW p \in Procs, ExpireOne(w, p) PROVE ReadingsArePast'
  BY <1>7 DEF ExpireOne, Sweep
<1>8. CASE UNCHANGED vars
  BY <1>8 DEF vars
<1> QED BY <1>1, <1>2, <1>3, <1>4, <1>5, <1>6, <1>7, <1>8 DEF Next

LEMMA InitReadings == Init => ReadingsArePast
<1> SUFFICES ASSUME Init PROVE ReadingsArePast
  OBVIOUS
<1>1. \A r \in Requests : request[r] = Idle
  BY DEF Init
<1>2. NoPass.now = 0
  BY DEF NoPass
<1>3. clock = 0 /\ \A w \in Workers : sweep[w].now = 0
  BY <1>2 DEF Init
<1> QED BY <1>1, <1>3 DEF ReadingsArePast

\* SchemaChecksHold is an invariant: no UPDATE of the machine is refused by
\* the CHECK constraints of the table, for any chains and milestones.
THEOREM SchemaInvariant == Spec => []SchemaChecksHold
<1>1. Init => SchemaChecksHold /\ ReadingsArePast
  <2> SUFFICES ASSUME Init PROVE SchemaChecksHold /\ ReadingsArePast
    OBVIOUS
  <2>1. Shape(Absent)
    BY DEF Shape, Absent
  <2>2. SchemaChecksHold
    BY <2>1 DEF Init, SchemaChecksHold
  <2> QED BY <2>2, InitReadings
<1>2. TypeOK /\ SchemaChecksHold /\ ReadingsArePast /\ [Next]_vars
        => (SchemaChecksHold /\ ReadingsArePast)'
  <2> SUFFICES ASSUME TypeOK, SchemaChecksHold, ReadingsArePast, [Next]_vars
               PROVE  (SchemaChecksHold /\ ReadingsArePast)'
    OBVIOUS
  <2>1. ReadingsArePast'
    BY ReadingsStayPast
  <2>2. CASE process' = process
    BY <2>1, <2>2 DEF SchemaChecksHold
  <2>3. CASE RowStep
    BY <2>1, <2>3, ShapePreserved DEF IInv
  <2> QED BY <2>1, <2>2, <2>3, StepCases
<1> QED BY <1>1, <1>2, TypeInvariant, PTL DEF Spec

THEOREM InductiveInvariant == Spec => []IInv
<1>1. Init => ReadingsArePast
  BY InitReadings
<1>2. TypeOK /\ ReadingsArePast /\ [Next]_vars => ReadingsArePast'
  BY ReadingsStayPast
<1> QED BY <1>1, <1>2, TypeInvariant, SchemaInvariant, PTL DEF Spec, IInv

-----------------------------------------------------------------------------
\* DecisionIsFinal: no request and no pass, whatever it read before, changes a
\* decided process or adds to its history.
THEOREM DecisionsAreFinal == Spec => DecisionIsFinal
<1> DEFINE Final == \A p \in Procs : Terminal(process[p]) =>
                      process'[p] = process[p] /\ events'[p] = events[p]
<1>1. TypeOK /\ [Next]_vars => Final
  <2> SUFFICES ASSUME TypeOK, [Next]_vars, NEW q \in Procs, Terminal(process[q])
               PROVE  process'[q] = process[q] /\ events'[q] = events[q]
    OBVIOUS
  <2> USE DEF TypeOK
  <2>0. \A at : /\ ~Due(process[q], at)
                /\ ExpireIfDue(process[q], at) = process[q]
                /\ ExpiryEvents(process[q], at) = <<>>
    BY DEF Due, ExpireIfDue, ExpiryEvents
  <2>00. events[q] \o <<>> = events[q]
    BY ConcatEmptySeq
  <2>1. CASE Tick
    BY <2>1 DEF Tick
  <2>2. ASSUME NEW u \in Users, NEW p \in Procs, Create(u, p)
        PROVE  process'[q] = process[q] /\ events'[q] = events[q]
    BY <2>2 DEF Create, Terminal
  <2>3. ASSUME NEW r \in Requests, NEW u \in Users, NEW p \in Procs, NEW action \in Actions,
               NEW reason \in BOOLEAN, RequestAct(r, u, p, action, reason)
        PROVE  process'[q] = process[q] /\ events'[q] = events[q]
    BY <2>3 DEF RequestAct
  <2>4. ASSUME NEW r \in Requests, ActCommits(r)
        PROVE  process'[q] = process[q] /\ events'[q] = events[q]
    <3>1. request[r].proc # q
      BY <2>4, <2>0 DEF ActCommits, Accepts
    <3> QED BY <2>4, <3>1 DEF ActCommits
  <2>5. ASSUME NEW r \in Requests, ActRefused(r)
        PROVE  process'[q] = process[q] /\ events'[q] = events[q]
    <3>1. CASE request[r].proc # q
      BY <2>5, <3>1 DEF ActRefused
    <3>2. CASE request[r].proc = q
      BY <2>5, <3>2, <2>0, <2>00 DEF ActRefused
    <3> QED BY <3>1, <3>2
  <2>6. ASSUME NEW r \in Requests, ActFails(r)
        PROVE  process'[q] = process[q] /\ events'[q] = events[q]
    BY <2>6 DEF ActFails
  <2>7. ASSUME NEW w \in Workers, SweepStart(w) \/ SweepEnd(w) \/ SweepFails(w)
        PROVE  process'[q] = process[q] /\ events'[q] = events[q]
    BY <2>7 DEF SweepStart, SweepEnd, SweepFails
  <2>8. ASSUME NEW w \in Workers, NEW p \in Procs, ExpireOne(w, p)
        PROVE  process'[q] = process[q] /\ events'[q] = events[q]
    <3>1. CASE p # q
      BY <2>8, <3>1 DEF ExpireOne
    <3>2. CASE p = q
      BY <2>8, <3>2, <2>0, <2>00 DEF ExpireOne
    <3> QED BY <3>1, <3>2
  <2>9. CASE UNCHANGED vars
    BY <2>9 DEF vars
  <2> QED BY <2>1, <2>2, <2>3, <2>4, <2>5, <2>6, <2>7, <2>8, <2>9 DEF Next
<1>2. TypeOK /\ [Next]_vars => [Final]_vars
  BY <1>1
<1> QED BY <1>2, TypeInvariant, PTL DEF Spec, DecisionIsFinal

-----------------------------------------------------------------------------
\* Refinement.  MapRow is what SilentConsent sees of a row.
MapRow(s) == [phase |-> PhaseOf(s), round |-> s.round, expires |-> s.expiresAt]
List == [p \in Procs |-> MapRow(process[p])]

\* Replacing one row replaces one entry of the abstract list.
LEMMA MapOne ==
  ASSUME NEW p \in Procs, NEW next, process \in [Procs -> State],
         process' = [process EXCEPT ![p] = next]
  PROVE  List' = [List EXCEPT ![p] = MapRow(next)]
<1>1. \A q \in Procs : process'[q] = IF q = p THEN next ELSE process[q]
  OBVIOUS
<1>2. List' = [q \in Procs |-> MapRow(process'[q])]
  BY DEF List
<1>3. \A q \in Procs : MapRow(process'[q]) = IF q = p THEN MapRow(next) ELSE MapRow(process[q])
  BY <1>1
<1> HIDE DEF MapRow
<1> QED BY <1>2, <1>3 DEF List

\* The phase of a row whose status is known.
LEMMA Phases ==
  ASSUME NEW s \in State
  PROVE  /\ s.status \in {"sent", "in_review", "resubmitted"} => PhaseOf(s) = "review"
         /\ s.status = "default_approved" => PhaseOf(s) = "silent"
         /\ s.status \in {"absent", "draft", "rework", "approved", "disputed"} => PhaseOf(s) = s.status
  BY DEF PhaseOf

\* The end of a window is the same instant on both levels.
LEMMA SameExpiry ==
  ASSUME NEW at \in Nat, NEW days \in Nat
  PROVE  ExpiryOf(LastDay(at, days)) = Consent!Expiry(at, days)
  BY DEF ExpiryOf, LastDay, Today, Consent!Expiry

\* A request acts on the row as it finds it: were something due at its
\* instant, the action would be refused.
LEMMA NothingDueWhenAccepted ==
  ASSUME NEW p \in Procs, NEW s \in State, NEW action \in Actions, NEW reason \in BOOLEAN,
         NEW at \in Nat, Shape(s), Accepts(p, ExpireIfDue(s, at), action, reason, at)
  PROVE  ~Due(s, at) /\ ExpireIfDue(s, at) = s
<1> SUFFICES ASSUME Due(s, at) PROVE FALSE
  BY DEF ExpireIfDue
<1>1. CASE s.window = "rework"
  <2> DEFINE expired == ExpireIfDue(s, at)
  <2>1. expired.status = s.status /\ expired.expiresAt = s.expiresAt
    BY <1>1 DEF ExpireIfDue, State
  <2>2. s.status = "rework"
    BY <1>1 DEF Shape
  <2>3. DeadlineExpired(expired.expiresAt, at)
    BY <2>1 DEF Due
  <2> HIDE DEF expired
  <2>4. expired.status \in From(action)
    BY DEF Accepts, expired
  <2>5. action = "resubmit"
    BY <2>1, <2>2, <2>4 DEF From, Actions
  <2> QED BY <2>3, <2>5 DEF Accepts, expired
<1>2. CASE s.window # "rework"
  <2>1. ExpireIfDue(s, at).status = "default_approved"
    BY <1>2 DEF ExpireIfDue, CloseWindow, State
  <2> QED BY <2>1 DEF Accepts, Terminal
<1> QED BY <1>1, <1>2

LEMMA ExpiredRefines ==
  ASSUME IInv, clock' = clock, NEW p \in Procs, NEW at \in 0..clock, Expired(p, at)
  PROVE  Consent!Silence(p) \/ List' = List
<1> DEFINE s == process[p]
           next == ExpireIfDue(s, at)
<1>1. s \in State /\ Shape(s) /\ clock \in Nat /\ process \in [Procs -> State]
  BY DEF IInv, TypeOK, SchemaChecksHold
<1>2. List' = [List EXCEPT ![p] = MapRow(next)]
  BY <1>1, MapOne DEF Expired
<1>3. List[p] = MapRow(s) /\ List = [q \in Procs |-> List[q]]
  BY DEF List
<1>4. CASE ~Due(s, at)
  <2>1. next = s
    BY <1>4 DEF ExpireIfDue
  <2> HIDE DEF next, s
  <2> QED BY <1>2, <1>3, <2>1
<1>5. CASE Due(s, at) /\ s.window = "rework"
  <2>1. next.status = s.status /\ next.round = s.round /\ next.expiresAt = s.expiresAt
    BY <1>1, <1>5 DEF ExpireIfDue, State
  <2>2. MapRow(next) = MapRow(s)
    BY <2>1 DEF MapRow, PhaseOf
  <2> HIDE DEF next, s
  <2> QED BY <1>2, <1>3, <2>2
<1>6. CASE Due(s, at) /\ s.window # "rework"
  <2>1. next.status = "default_approved" /\ next.round = s.round /\ next.expiresAt = 0
    BY <1>1, <1>6 DEF ExpireIfDue, CloseWindow, State
  <2>2. MapRow(next) = [phase |-> "silent", round |-> s.round, expires |-> 0]
    BY <2>1 DEF MapRow, PhaseOf
  <2>3. s.status \in {"sent", "in_review", "resubmitted"}
    BY <1>1, <1>6 DEF Due, Shape, State, Windows
  <2>4. List[p].phase = "review" /\ List[p].round = s.round /\ List[p].expires = s.expiresAt
    BY <1>1, <1>3, <2>3, Phases DEF MapRow
  <2>5. s.expiresAt <= clock /\ ~(s.expiresAt > clock)
    <3>1. s.expiresAt \in Nat
      BY <1>1 DEF State
    <3>2. at >= s.expiresAt
      BY <1>6 DEF Due, DeadlineExpired
    <3> HIDE DEF s
    <3> QED BY <1>1, <3>1, <3>2
  <2> HIDE DEF next, s
  <2>6. Consent!Become(p, "silent", List[p].round, 0)
    BY <1>2, <2>2, <2>4 DEF Consent!Become, List, MapRow
  <2>7. ~Consent!InTime(p, clock)
    BY <2>4, <2>5 DEF Consent!InTime, List, MapRow
  <2>8. Consent!Silence(p)
    BY <2>4, <2>6, <2>7 DEF Consent!Silence, List, MapRow
  <2> QED BY <2>8
<1> QED BY <1>4, <1>5, <1>6

\* A list that was sent and is not decided has a window.
LEMMA WindowIsOpen ==
  ASSUME NEW s \in State, Shape(s), ~Terminal(s), s.status \notin {"absent", "draft"}
  PROVE  s.window # ""
<1>1. s.status \in {"sent", "in_review", "rework", "resubmitted"}
  BY DEF State, Statuses, Terminal
<1>2. s.round \in {1, 2}
  <2>1. s.round \in 0..2
    BY DEF State
  <2>2. s.round # 0
    BY DEF Shape
  <2> QED BY <2>1, <2>2
<1>3. CASE s.status = "sent"
  BY <1>3 DEF Shape
<1>4. CASE s.status = "in_review"
  BY <1>2, <1>4 DEF Shape
<1>5. CASE s.status = "rework"
  BY <1>5 DEF Shape
<1>6. CASE s.status = "resubmitted"
  BY <1>6 DEF Shape
<1> QED BY <1>1, <1>3, <1>4, <1>5, <1>6

LEMMA ActedRefines ==
  ASSUME IInv, clock' = clock, NEW p \in Procs, NEW action \in Actions, NEW reason \in BOOLEAN,
         NEW at \in 0..clock, Acted(p, action, reason, at)
  PROVE  \/ Consent!Send(p, at) \/ Consent!Return(p, at) \/ Consent!Resubmit(p, at)
         \/ Consent!Approve(p, at) \/ Consent!Dispute(p, at)
         \/ List' = List
<1> DEFINE s == process[p]
           chain == Chains[KindOf[p]]
           next == Apply(p, s, action, at)
<1>1. s \in State /\ Shape(s) /\ clock \in Nat /\ process \in [Procs -> State] /\ at \in Nat
  BY DEF IInv, TypeOK, SchemaChecksHold
<1>2. Accepts(p, ExpireIfDue(s, at), action, reason, at)
  BY DEF Acted
<1>3. ~Due(s, at) /\ ExpireIfDue(s, at) = s
  <2> HIDE DEF s
  <2> QED BY <1>1, <1>2, NothingDueWhenAccepted
<1>4. Accepts(p, s, action, reason, at)
  BY <1>2, <1>3
<1>5. process' = [process EXCEPT ![p] = next]
  BY <1>3 DEF Acted
<1>6. List' = [List EXCEPT ![p] = MapRow(next)]
  <2> HIDE DEF next
  <2> QED BY <1>1, <1>5, MapOne
<1>7. List[p] = MapRow(s) /\ List = [q \in Procs |-> List[q]]
  BY DEF List
<1>8. s.status \in From(action) /\ ~Terminal(s)
  BY <1>4 DEF Accepts
<1>9. chain.review \in Nat /\ chain.rework \in Nat /\ chain.rereview \in Nat
  BY KindsAssumption
<1>10. s.status # "draft" => s.expiresAt > at
  <2>1. s.expiresAt \in Nat /\ s.status # "absent"
    BY <1>1, <1>8 DEF State, From, Actions
  <2>2. CASE s.window = "rework"
    <3>0. s.status = "rework"
      BY <1>1, <2>2 DEF Shape
    <3>1. action = "resubmit"
      <4>1. \A a \in Actions : "rework" \in From(a) => a = "resubmit"
        BY DEF From, Actions
      <4> QED BY <1>8, <3>0, <4>1
    <3>2. ~(at >= s.expiresAt)
      <4>1. ~DeadlineExpired(s.expiresAt, at)
        BY <3>1, <1>4 DEF Accepts
      <4> QED BY <4>1 DEF DeadlineExpired
    <3> HIDE DEF s
    <3> QED BY <2>1, <3>2, <1>1
  <2>3. CASE s.window # "rework" /\ s.status # "draft"
    <3>1. s.window # ""
      <4> HIDE DEF s
      <4> QED BY <1>1, <1>8, <2>1, <2>3, WindowIsOpen
    <3>2. ~(at >= s.expiresAt)
      BY <3>1, <2>3, <1>3, <1>8 DEF Due, DeadlineExpired
    <3> HIDE DEF s
    <3> QED BY <2>1, <3>2, <1>1
  <2> QED BY <2>2, <2>3
<1>11. /\ List[p].round = s.round /\ List[p].expires = s.expiresAt
       /\ s.status \in {"sent", "in_review", "resubmitted"} => List[p].phase = "review"
       /\ s.status \in {"draft", "rework"} => List[p].phase = s.status
  BY <1>1, <1>7, Phases DEF MapRow
<1>12. CASE action = "send"
  <2>1. /\ next.status = "sent" /\ next.round = 1
        /\ next.expiresAt = ExpiryOf(LastDay(at, chain.review))
    BY <1>1, <1>12 DEF Apply, Open, State
  <2>2. MapRow(next) = [phase |-> "review", round |-> 1, expires |-> Consent!Expiry(at, chain.review)]
    BY <2>1, <1>1, <1>9, SameExpiry DEF MapRow, PhaseOf
  <2>3. s.status = "draft"
    BY <1>8, <1>12 DEF From
  <2> HIDE DEF next
  <2> QED BY <1>6, <1>11, <2>2, <2>3 DEF Consent!Send, Consent!Become, List, MapRow
<1>13. CASE action = "start_review"
  <2>1. next.status = "in_review" /\ next.round = s.round /\ next.expiresAt = s.expiresAt
    BY <1>1, <1>13 DEF Apply, State
  <2>2. s.status \in {"sent", "resubmitted"}
    BY <1>8, <1>13 DEF From
  <2>3. MapRow(next) = MapRow(s)
    BY <2>1, <2>2 DEF MapRow, PhaseOf
  <2> HIDE DEF next, s
  <2> QED BY <1>6, <1>7, <2>3
<1>14. CASE action = "approve"
  <2>1. next.status = "approved" /\ next.round = s.round /\ next.expiresAt = 0
    BY <1>1, <1>14 DEF Apply, CloseWindow, State
  <2>2. MapRow(next) = [phase |-> "approved", round |-> s.round, expires |-> 0]
    BY <2>1 DEF MapRow, PhaseOf
  <2>3. s.status \in {"sent", "in_review", "resubmitted"} /\ s.status # "draft"
    BY <1>8, <1>14 DEF From
  <2> HIDE DEF next, s
  <2> QED BY <1>6, <1>10, <1>11, <2>2, <2>3
          DEF Consent!Approve, Consent!InTime, Consent!Become, List, MapRow
<1>15. CASE action = "request_rework"
  <2>1. /\ next.status = "rework" /\ next.round = s.round
        /\ next.expiresAt = ExpiryOf(LastDay(at, chain.rework))
    BY <1>1, <1>15 DEF Apply, Open, State
  <2>2. s.status \in {"sent", "in_review", "resubmitted"} /\ s.status # "draft" /\ s.round = 1
    BY <1>4, <1>8, <1>15 DEF From, Accepts
  <2>3. MapRow(next) = [phase |-> "rework", round |-> 1, expires |-> Consent!Expiry(at, chain.rework)]
    BY <2>1, <2>2, <1>1, <1>9, SameExpiry DEF MapRow, PhaseOf
  <2> HIDE DEF next, s
  <2> QED BY <1>6, <1>10, <1>11, <2>2, <2>3
          DEF Consent!Return, Consent!InTime, Consent!Become, List, MapRow
<1>16. CASE action = "resubmit"
  <2>1. /\ next.status = "resubmitted" /\ next.round = 2
        /\ next.expiresAt = ExpiryOf(LastDay(at, chain.rereview))
    BY <1>1, <1>16 DEF Apply, Open, State
  <2>2. MapRow(next) = [phase |-> "review", round |-> 2, expires |-> Consent!Expiry(at, chain.rereview)]
    BY <2>1, <1>1, <1>9, SameExpiry DEF MapRow, PhaseOf
  <2>3. s.status = "rework" /\ s.status # "draft"
    BY <1>8, <1>16 DEF From
  <2> HIDE DEF next, s
  <2> QED BY <1>6, <1>10, <1>11, <2>2, <2>3
          DEF Consent!Resubmit, Consent!InTime, Consent!Become, List, MapRow
<1>17. CASE action = "dispute"
  <2>1. next.status = "disputed" /\ next.round = s.round /\ next.expiresAt = 0
    BY <1>1, <1>17 DEF Apply, CloseWindow, State
  <2>2. s.status \in {"sent", "in_review", "resubmitted"} /\ s.status # "draft" /\ s.round = 2
    BY <1>4, <1>8, <1>17 DEF From, Accepts
  <2>3. MapRow(next) = [phase |-> "disputed", round |-> 2, expires |-> 0]
    BY <2>1, <2>2 DEF MapRow, PhaseOf
  <2> HIDE DEF next, s
  <2> QED BY <1>6, <1>10, <1>11, <2>2, <2>3
          DEF Consent!Dispute, Consent!InTime, Consent!Become, List, MapRow
<1> QED BY <1>12, <1>13, <1>14, <1>15, <1>16, <1>17 DEF Actions

\* Every step of the process is a step of SilentConsent or leaves it alone.
LEMMA StepRefines ==
  ASSUME IInv, [Next]_vars
  PROVE  [Consent!Next]_(Consent!vars)
<1>1. CASE process' = process /\ clock' = clock
  BY <1>1 DEF Consent!vars
<1>2. CASE process' = process /\ clock' = clock + 1
  BY <1>2 DEF Consent!Next, Consent!Tick
<1>3. CASE RowStep
  <2>1. clock' = clock
    BY <1>3 DEF RowStep
  <2>2. List' = List => [Consent!Next]_(Consent!vars)
    BY <2>1 DEF Consent!vars, List, MapRow
  <2>3. ASSUME NEW p \in Procs, process[p].status = "absent",
               process' = [process EXCEPT ![p] = Draft]
        PROVE  Consent!Next
    <3>1. process \in [Procs -> State] /\ Shape(process[p]) /\ process[p] \in State
      BY DEF IInv, TypeOK, SchemaChecksHold
    <3>2. List' = [List EXCEPT ![p] = MapRow(Draft)]
      BY <2>3, <3>1, MapOne
    <3>3. MapRow(Draft) = [phase |-> "draft", round |-> 0, expires |-> 0]
      BY DEF MapRow, PhaseOf, Draft, Absent
    <3>4. List[p].phase = "absent"
      BY <2>3, <3>1, Phases DEF List, MapRow
    <3>5. Consent!Create(p)
      BY <2>1, <3>2, <3>3, <3>4 DEF Consent!Create, Consent!Become, List, MapRow
    <3> QED BY <3>5 DEF Consent!Next
  <2>4. ASSUME NEW p \in Procs, NEW action \in Actions, NEW reason \in BOOLEAN,
               NEW at \in 0..clock, Acted(p, action, reason, at)
        PROVE  [Consent!Next]_(Consent!vars)
    BY <2>1, <2>2, <2>4, ActedRefines DEF Consent!Next
  <2>5. ASSUME NEW p \in Procs, NEW at \in 0..clock, Expired(p, at)
        PROVE  [Consent!Next]_(Consent!vars)
    BY <2>1, <2>2, <2>5, ExpiredRefines DEF Consent!Next
  <2> QED BY <1>3, <2>3, <2>4, <2>5 DEF RowStep
<1> QED BY <1>1, <1>2, <1>3, StepCases DEF IInv

\* The process implements SilentConsent: in particular silence approves only
\* a list whose window is over, and an answer counts only if it was given
\* before that, whatever requests and passes run at the same time.
THEOREM Refinement == Spec => ImplementsConsent
<1>1. Init => Consent!Init
  <2> SUFFICES ASSUME Init PROVE Consent!Init
    OBVIOUS
  <2>1. MapRow(Absent) = [phase |-> "absent", round |-> 0, expires |-> 0]
    BY DEF MapRow, PhaseOf, Absent
  <2>2. List = [p \in Procs |-> [phase |-> "absent", round |-> 0, expires |-> 0]]
    BY <2>1 DEF Init, List
  <2> QED BY <2>2 DEF Init, Consent!Init, List, MapRow
<1>2. IInv /\ [Next]_vars => [Consent!Next]_(Consent!vars)
  BY StepRefines
<1> QED BY <1>1, <1>2, InductiveInvariant, PTL DEF Spec, ImplementsConsent, Consent!Spec

-----------------------------------------------------------------------------
\* The history.  A process goes through its stages in one direction, and every
\* event takes it to a stage of its own.
EventStage(e) ==
  CASE e.action = "send" -> 1
    [] e.action = "start_review" -> IF e.from = "sent" THEN 2 ELSE 6
    [] e.action = "request_rework" -> 3
    [] e.action = "rework_lapsed" -> 4
    [] e.action = "resubmit" -> 5
    [] OTHER -> 7

Stage(s) ==
  CASE s.status \in {"absent", "draft"} -> 0
    [] s.status = "sent" -> 1
    [] s.status = "in_review" -> IF s.round = 1 THEN 2 ELSE 6
    [] s.status = "rework" -> IF s.lapsed THEN 4 ELSE 3
    [] s.status = "resubmitted" -> 5
    [] OTHER -> 7

Decisions == {"approved", "default_approved", "disputed"}

\* The lapse is recorded during rework and remembered after it.
LapseIsLate(s) == s.lapsed => s.status = "rework" \/ s.round = 2

\* Event j of a history opened the window of the row s, and the review has at
\* most been started since.
Opener(window) == IF window = "review" THEN "send" ELSE "resubmit"
OpenedBy(p, s, evs, j) ==
  /\ evs[j].action = Opener(s.window)
  /\ \A k \in (j + 1)..Len(evs) : evs[k].action = "start_review"
  /\ s.expiresAt = ExpiryOf(LastDay(evs[j].at, Opens(p, evs[j].action)))

StagesGrow(s, evs) ==
  /\ \A i \in DOMAIN evs : EventStage(evs[i]) <= Stage(s)
  /\ \A i, j \in DOMAIN evs : i < j => EventStage(evs[i]) < EventStage(evs[j])
  /\ \A i \in DOMAIN evs : evs[i].to \in Decisions => EventStage(evs[i]) = 7
WindowIsDated(p, s, evs) ==
  s.window \in {"review", "rereview"} => \E j \in DOMAIN evs : OpenedBy(p, s, evs, j)

\* The three parts of HistoryIsSound, of one process.
Explains(s, evs) ==
  /\ evs # <<>> => evs[1].from = "draft" /\ evs[Len(evs)].to = s.status
  /\ evs = <<>> => s.status \in {"absent", "draft"}
  /\ \A i \in 1..(Len(evs) - 1) : evs[i].to = evs[i + 1].from
SilenceIsLate(p, evs, now) ==
  \A i \in DOMAIN evs : evs[i].action = "default_approve" =>
    \E j \in 1..(i - 1) :
      /\ evs[j].action \in {"send", "resubmit"}
      /\ \A k \in (j + 1)..(i - 1) : evs[k].action = "start_review"
      /\ Today(now) > Today(evs[j].at) + Opens(p, evs[j].action)

HistoryOf(p, s, evs, now) ==
  LapseIsLate(s) /\ StagesGrow(s, evs) /\ WindowIsDated(p, s, evs) /\ Explains(s, evs) /\ SilenceIsLate(p, evs, now)
HistoryInv == \A p \in Procs : HistoryOf(p, process[p], events[p], clock)

\* What a step adds to a history, and to which row.
Moves(p, s, e, next) ==
  /\ e.from = s.status /\ e.to = next.status /\ e.at \in 0..clock
  /\ \/ /\ e.action \in Actions /\ ~Due(s, e.at) /\ next = Apply(p, s, e.action, e.at)
        /\ \E reason \in BOOLEAN : Accepts(p, s, e.action, reason, e.at)
     \/ /\ Due(s, e.at) /\ next = ExpireIfDue(s, e.at)
        /\ e.action = IF s.window = "rework" THEN "rework_lapsed" ELSE "default_approve"

\* Days: a window that is over by the clock was over by the calendar.
LEMMA DivisionIsMonotone ==
  ASSUME NEW a \in Nat, NEW b \in Nat, a <= b
  PROVE  Today(a) <= Today(b) /\ Today(a) \in Nat /\ Today(b) \in Nat
BY BoundsAssumption DEF Today

LEMMA OverByTheCalendar ==
  ASSUME NEW day \in Nat, NEW now \in Nat, ExpiryOf(day) <= now
  PROVE  Today(now) > day
BY BoundsAssumption DEF Today, ExpiryOf

\* An event added to a history.
LEMMA AddedEvent ==
  ASSUME NEW evs \in Seq(Event), NEW e \in Event
  PROVE  LET more == Append(evs, e) IN
         /\ more \in Seq(Event) /\ more # <<>> /\ Len(evs) \in Nat
         /\ Len(more) = Len(evs) + 1 /\ DOMAIN more = 1..(Len(evs) + 1) /\ DOMAIN evs = 1..Len(evs)
         /\ more[Len(evs) + 1] = e
         /\ \A i \in 1..Len(evs) : more[i] = evs[i]
OBVIOUS

LEMMA StagesAreNumbers ==
  /\ \A e \in Event : EventStage(e) \in 1..7
  /\ \A s \in State : Stage(s) \in 0..7
BY DEF EventStage, Stage, Event, State

\* What a move of a row does to its stage, its window and its mark of a lapse.
MoveIsSound(p, s, e, next) ==
  /\ s.status # "absent" /\ e.from = s.status /\ e.to = next.status
  /\ Stage(s) < Stage(next) /\ EventStage(e) = Stage(next)
  /\ next.status \in Decisions => Stage(next) = 7
  /\ LapseIsLate(next)
  /\ next.window \in {"review", "rereview"} =>
       \/ /\ e.action = "start_review"
          /\ next.window = s.window /\ next.expiresAt = s.expiresAt
       \/ /\ e.action = Opener(next.window)
          /\ next.expiresAt = ExpiryOf(LastDay(e.at, Opens(p, e.action)))
  /\ e.action = "default_approve" => s.window \in {"review", "rereview"} /\ s.expiresAt <= clock

LEMMA ExpiryMoves ==
  ASSUME NEW p \in Procs, NEW s \in State, NEW e \in Event, NEW next, Shape(s), LapseIsLate(s),
         clock \in Nat, e.from = s.status, e.to = next.status, e.at \in 0..clock,
         Due(s, e.at), next = ExpireIfDue(s, e.at),
         e.action = IF s.window = "rework" THEN "rework_lapsed" ELSE "default_approve"
  PROVE  MoveIsSound(p, s, e, next)
<1>1. s.expiresAt \in Nat /\ s.expiresAt <= e.at
  <2>1. s.expiresAt \in Nat
    BY DEF State
  <2>2. e.at >= s.expiresAt
    BY DEF Due, DeadlineExpired
  <2> QED BY <2>1, <2>2
<1>2. s.expiresAt <= clock
  BY <1>1
<1>3. s.window # "" /\ ~Terminal(s) /\ s.window \in Windows /\ s.status \in Statuses /\ s.round \in 0..2
  BY DEF Due, State
<1>4. CASE s.window = "rework"
  <2>1. s.status = "rework" /\ s.lapsed = FALSE
    BY <1>4 DEF Shape, Due, State
  <2>2. /\ next.status = "rework" /\ next.lapsed = TRUE /\ next.window = "rework"
    BY <1>4, <2>1 DEF ExpireIfDue, State
  <2>3. e.action = "rework_lapsed"
    BY <1>4
  <2>4. Stage(s) = 3 /\ Stage(next) = 4 /\ EventStage(e) = 4
    BY <2>1, <2>2, <2>3 DEF Stage, EventStage
  <2> QED BY <2>1, <2>2, <2>3, <2>4 DEF MoveIsSound, LapseIsLate, Decisions
<1>5. CASE s.window # "rework"
  <2>1. s.window \in {"review", "rereview"}
    BY <1>3, <1>5 DEF Windows
  <2>2. s.round \in {1, 2} /\ s.status \in {"sent", "in_review", "resubmitted"}
    BY <2>1 DEF Shape
  <2>3. next.status = "default_approved" /\ next.window = "" /\ next.round = s.round /\ next.lapsed = s.lapsed
    BY <1>5 DEF ExpireIfDue, CloseWindow, State
  <2>4. e.action = "default_approve"
    BY <1>5
  <2>5. Stage(s) < Stage(next) /\ EventStage(e) = Stage(next) /\ Stage(next) = 7
    <3>1. Stage(s) \in {1, 2, 5, 6}
      BY <2>2 DEF Stage
    <3>2. Stage(next) = 7
      BY <2>3 DEF Stage
    <3>3. EventStage(e) = 7
      BY <2>4 DEF EventStage
    <3> QED BY <3>1, <3>2, <3>3
  <2>6. LapseIsLate(next)
    BY <2>2, <2>3 DEF LapseIsLate
  <2> QED BY <1>2, <1>3, <2>1, <2>2, <2>4, <2>5, <2>6, <2>3 DEF MoveIsSound
<1> QED BY <1>4, <1>5

LEMMA ActionMoves ==
  ASSUME NEW p \in Procs, NEW s \in State, NEW e \in Event, NEW next, Shape(s), LapseIsLate(s),
         e.from = s.status, e.to = next.status, e.at \in Nat, e.action \in Actions,
         next = Apply(p, s, e.action, e.at), NEW reason \in BOOLEAN, Accepts(p, s, e.action, reason, e.at)
  PROVE  MoveIsSound(p, s, e, next)
<1>1. s.status \in From(e.action) /\ ~Terminal(s) /\ s.round \in 0..2
  BY DEF Accepts, State
<1>2. e.action # "default_approve"
  BY DEF Actions
<1>3. CASE e.action = "send"
  <2>1. s.status = "draft" /\ s.round = 0 /\ ~s.lapsed
    <3>1. s.status = "draft"
      BY <1>1, <1>3 DEF From
    <3>2. s.round = 0
      BY <3>1 DEF Shape
    <3> QED BY <3>1, <3>2 DEF LapseIsLate
  <2>2. /\ next.status = "sent" /\ next.window = "review" /\ next.lapsed = s.lapsed
        /\ next.expiresAt = ExpiryOf(LastDay(e.at, Chains[KindOf[p]].review))
    BY <1>3 DEF Apply, Open, State
  <2>3. Stage(s) = 0 /\ Stage(next) = 1 /\ EventStage(e) = 1
    BY <1>3, <2>1, <2>2 DEF Stage, EventStage
  <2> QED BY <1>3, <2>1, <2>2, <2>3 DEF MoveIsSound, LapseIsLate, Opener, Opens, Decisions
<1>4. CASE e.action = "start_review"
  <2>1. s.status \in {"sent", "resubmitted"}
    BY <1>1, <1>4 DEF From
  <2>2. /\ next.status = "in_review" /\ next.window = s.window /\ next.expiresAt = s.expiresAt
        /\ next.lapsed = s.lapsed /\ next.round = s.round
    BY <1>4 DEF Apply, State
  <2>3. (s.status = "sent" /\ s.round = 1) \/ (s.status = "resubmitted" /\ s.round = 2)
    BY <2>1 DEF Shape
  <2>4. Stage(s) < Stage(next) /\ EventStage(e) = Stage(next)
    BY <1>4, <2>2, <2>3 DEF Stage, EventStage
  <2>5. LapseIsLate(next)
    BY <2>2, <2>3 DEF LapseIsLate
  <2> QED BY <1>4, <2>2, <2>3, <2>4, <2>5 DEF MoveIsSound, Decisions
<1>5. CASE e.action = "request_rework"
  <2>1. s.round = 1 /\ s.status \in {"sent", "in_review"} /\ ~s.lapsed
    BY <1>1, <1>5 DEF Accepts, From, LapseIsLate
  <2>2. next.status = "rework" /\ next.window = "rework" /\ next.lapsed = s.lapsed
    BY <1>5 DEF Apply, Open, State
  <2>3. Stage(s) \in {1, 2} /\ Stage(next) = 3 /\ EventStage(e) = 3
    BY <1>5, <2>1, <2>2 DEF Stage, EventStage
  <2> QED BY <1>5, <2>1, <2>2, <2>3 DEF MoveIsSound, LapseIsLate, Decisions
<1>6. CASE e.action = "resubmit"
  <2>1. s.status = "rework"
    BY <1>1, <1>6 DEF From
  <2>2. /\ next.status = "resubmitted" /\ next.window = "rereview" /\ next.round = 2
        /\ next.expiresAt = ExpiryOf(LastDay(e.at, Chains[KindOf[p]].rereview))
    BY <1>6 DEF Apply, Open, State
  <2>3. Stage(s) \in {3, 4} /\ Stage(next) = 5 /\ EventStage(e) = 5
    BY <1>6, <2>1, <2>2 DEF Stage, EventStage
  <2> QED BY <1>6, <2>1, <2>2, <2>3 DEF MoveIsSound, LapseIsLate, Opener, Opens, Decisions
<1>7. CASE e.action \in {"approve", "dispute"}
  <2>1. s.status \in {"sent", "in_review", "resubmitted"}
    BY <1>1, <1>7 DEF From
  <2>2. /\ next.status \in Decisions /\ next.window = "" /\ next.round = s.round /\ next.lapsed = s.lapsed
    BY <1>7 DEF Apply, CloseWindow, State, Decisions
  <2>3. Stage(s) < Stage(next) /\ EventStage(e) = Stage(next) /\ Stage(next) = 7
    <3>1. Stage(s) \in {1, 2, 5, 6}
      BY <2>1 DEF Stage
    <3>2. Stage(next) = 7
      BY <2>2 DEF Stage, Decisions
    <3>3. EventStage(e) = 7
      BY <1>7 DEF EventStage
    <3> QED BY <3>1, <3>2, <3>3
  <2>4. LapseIsLate(next)
    BY <2>1, <2>2 DEF LapseIsLate
  <2> QED BY <1>2, <2>1, <2>2, <2>3, <2>4 DEF MoveIsSound
<1> QED BY <1>3, <1>4, <1>5, <1>6, <1>7 DEF Actions

\* A move keeps the history of its process sound.
LEMMA MoveIsTold ==
  ASSUME NEW p \in Procs, NEW s \in State, NEW evs \in Seq(Event), NEW e \in Event, NEW next \in State,
         clock \in Nat, e.at \in Nat, MoveIsSound(p, s, e, next),
         StagesGrow(s, evs), WindowIsDated(p, s, evs), Explains(s, evs), SilenceIsLate(p, evs, clock)
  PROVE  LET more == Append(evs, e) IN
         /\ StagesGrow(next, more) /\ WindowIsDated(p, next, more)
         /\ Explains(next, more) /\ SilenceIsLate(p, more, clock)
<1> DEFINE more == Append(evs, e)
           n == Len(evs)
<1>1. /\ more # <<>> /\ n \in Nat /\ Len(more) = n + 1
      /\ DOMAIN more = 1..(n + 1) /\ DOMAIN evs = 1..n /\ more[n + 1] = e
      /\ \A i \in 1..n : more[i] = evs[i]
      /\ \A i \in 1..n : evs[i] \in Event
      /\ more \in Seq(Event)
  BY AddedEvent
<1>2. \A i \in 1..(n + 1) : i \in 1..n \/ i = n + 1
  BY <1>1
<1>3. Stage(s) \in 0..7 /\ Stage(next) \in 0..7 /\ Stage(s) < Stage(next) /\ EventStage(e) = Stage(next)
  BY StagesAreNumbers DEF MoveIsSound
<1> HIDE DEF more, n
<1>4. StagesGrow(next, more)
  <2>1. \A i \in 1..n : EventStage(evs[i]) \in 1..7 /\ EventStage(evs[i]) < Stage(next)
    BY <1>1, <1>3, StagesAreNumbers DEF StagesGrow
  <2>2. \A i \in 1..(n + 1) : EventStage(more[i]) <= Stage(next)
    BY <1>1, <1>2, <1>3, <2>1
  <2>3. \A i, j \in 1..(n + 1) : i < j => EventStage(more[i]) < EventStage(more[j])
    <3> SUFFICES ASSUME NEW i \in 1..(n + 1), NEW j \in 1..(n + 1), i < j
                 PROVE  EventStage(more[i]) < EventStage(more[j])
      OBVIOUS
    <3>1. i \in 1..n
      BY <1>1
    <3>2. CASE j \in 1..n
      BY <1>1, <3>1, <3>2 DEF StagesGrow
    <3>3. CASE j = n + 1
      BY <1>1, <1>3, <2>1, <3>1, <3>3
    <3> QED BY <1>2, <3>2, <3>3
  <2>4. \A i \in 1..(n + 1) : more[i].to \in Decisions => EventStage(more[i]) = 7
    BY <1>1, <1>2, <1>3 DEF StagesGrow, MoveIsSound
  <2> QED BY <1>1, <2>2, <2>3, <2>4 DEF StagesGrow
<1>5. WindowIsDated(p, next, more)
  <2> SUFFICES ASSUME next.window \in {"review", "rereview"}
               PROVE  \E j \in DOMAIN more : OpenedBy(p, next, more, j)
    BY DEF WindowIsDated
  <2>1. CASE e.action = "start_review" /\ next.window = s.window /\ next.expiresAt = s.expiresAt
    <3>1. PICK j \in 1..n : OpenedBy(p, s, evs, j)
      BY <1>1, <2>1 DEF WindowIsDated
    <3>2. j \in 1..(n + 1) /\ more[j] = evs[j]
      BY <1>1
    <3>3. \A k \in (j + 1)..(n + 1) : more[k].action = "start_review"
      <4> SUFFICES ASSUME NEW k \in (j + 1)..(n + 1)
                   PROVE  more[k].action = "start_review"
        OBVIOUS
      <4>1. CASE k = n + 1
        BY <1>1, <2>1, <4>1
      <4>2. CASE k # n + 1
        <5>1. k \in (j + 1)..n /\ k \in 1..n
          BY <1>1, <4>2
        <5>2. evs[k].action = "start_review"
          BY <3>1, <5>1 DEF OpenedBy, n
        <5> QED BY <1>1, <5>1, <5>2
      <4> QED BY <4>1, <4>2
    <3>4. OpenedBy(p, next, more, j)
      BY <1>1, <2>1, <3>1, <3>2, <3>3 DEF OpenedBy
    <3> QED BY <1>1, <3>2, <3>4
  <2>2. CASE e.action = Opener(next.window) /\ next.expiresAt = ExpiryOf(LastDay(e.at, Opens(p, e.action)))
    <3>1. (n + 1 + 1)..(n + 1) = {}
      BY <1>1
    <3>2. OpenedBy(p, next, more, n + 1)
      BY <1>1, <2>2, <3>1 DEF OpenedBy
    <3>3. n + 1 \in DOMAIN more
      BY <1>1
    <3> QED BY <3>2, <3>3
  <2> QED BY <2>1, <2>2 DEF MoveIsSound
<1>6. Explains(next, more)
  <2>1. more[1].from = "draft"
    <3>1. CASE evs = <<>>
      <4>1. n = 0
        BY <3>1 DEF n
      <4> QED BY <1>1, <3>1, <4>1 DEF Explains, MoveIsSound
    <3>2. CASE evs # <<>>
      <4>1. 1 \in 1..n
        BY <1>1, <3>2 DEF n
      <4> QED BY <1>1, <3>2, <4>1 DEF Explains
    <3> QED BY <3>1, <3>2
  <2>2. more[n + 1].to = next.status
    BY <1>1 DEF MoveIsSound
  <2>3. \A i \in 1..n : more[i].to = more[i + 1].from
    <3> SUFFICES ASSUME NEW i \in 1..n
                 PROVE  more[i].to = more[i + 1].from
      OBVIOUS
    <3>1. CASE i = n
      <4>1. evs # <<>>
        BY <1>1, <3>1 DEF n
      <4> QED BY <1>1, <3>1, <4>1 DEF Explains, MoveIsSound, n
    <3>2. CASE i # n
      <4>1. i \in 1..(n - 1) /\ i + 1 \in 1..n
        BY <1>1, <3>2
      <4> QED BY <1>1, <4>1 DEF Explains, n
    <3> QED BY <3>1, <3>2
  <2>4. (n + 1) - 1 = n
    BY <1>1
  <2> QED BY <1>1, <2>1, <2>2, <2>3, <2>4 DEF Explains
<1>7. SilenceIsLate(p, more, clock)
  <2> DEFINE Justified(i, j, list) == /\ list[j].action \in {"send", "resubmit"}
                                      /\ \A k \in (j + 1)..(i - 1) : list[k].action = "start_review"
                                      /\ Today(clock) > Today(list[j].at) + Opens(p, list[j].action)
  <2> SUFFICES ASSUME NEW i \in 1..(n + 1), more[i].action = "default_approve"
               PROVE  \E j \in 1..(i - 1) : Justified(i, j, more)
    BY <1>1 DEF SilenceIsLate
  <2>1. CASE i \in 1..n
    <3>1. PICK j \in 1..(i - 1) : Justified(i, j, evs)
      BY <1>1, <2>1 DEF SilenceIsLate
    <3>2. j \in 1..n /\ \A k \in (j + 1)..(i - 1) : k \in 1..n
      BY <1>1, <2>1
    <3> QED BY <1>1, <3>1, <3>2
  <2>2. CASE i = n + 1
    <3>1. s.window \in {"review", "rereview"} /\ s.expiresAt <= clock
      BY <1>1, <2>2 DEF MoveIsSound
    <3>2. PICK j \in 1..n : OpenedBy(p, s, evs, j)
      BY <1>1, <3>1 DEF WindowIsDated
    <3>3. /\ j \in 1..(i - 1) /\ more[j] = evs[j] /\ evs[j] \in Event
      BY <1>1, <2>2
    <3>4. evs[j].action \in {"send", "resubmit"}
      BY <3>2 DEF OpenedBy, Opener
    <3>5. \A k \in (j + 1)..(i - 1) : more[k].action = "start_review"
      <4> SUFFICES ASSUME NEW k \in (j + 1)..(i - 1)
                   PROVE  more[k].action = "start_review"
        OBVIOUS
      <4>1. k \in (j + 1)..n /\ k \in 1..n
        BY <1>1, <2>2
      <4> QED BY <1>1, <3>2, <4>1 DEF OpenedBy, n
    <3>6. Today(clock) > Today(evs[j].at) + Opens(p, evs[j].action)
      <4> DEFINE days == Opens(p, evs[j].action)
      <4>1. days \in Nat /\ evs[j].at \in Nat
        BY <3>3, KindsAssumption DEF Opens, Event
      <4>2. LastDay(evs[j].at, days) \in Nat
        BY <4>1, CalendarType
      <4>3. ExpiryOf(LastDay(evs[j].at, days)) <= clock
        BY <3>1, <3>2 DEF OpenedBy
      <4> HIDE DEF days
      <4>4. Today(clock) > LastDay(evs[j].at, days)
        BY <4>2, <4>3, OverByTheCalendar
      <4> QED BY <4>4 DEF LastDay, days
    <3> QED BY <3>3, <3>4, <3>5, <3>6
  <2> QED BY <1>2, <2>1, <2>2
<1> QED BY <1>4, <1>5, <1>6, <1>7 DEF more

\* What a step does to the row and the history of one process.
RowTold(p) ==
  \/ process'[p] = process[p] /\ events'[p] = events[p]
  \/ process[p].status = "absent" /\ process'[p] = Draft /\ events'[p] = events[p]
  \/ \E e \in Event : /\ events'[p] = Append(events[p], e)
                      /\ Moves(p, process[p], e, process'[p])

\* A deadline that has passed is recorded with one event, and otherwise
\* nothing changes.
LEMMA ExpiryIsTold ==
  ASSUME IInv, NEW p \in Procs, NEW at \in 0..clock,
         process' = [process EXCEPT ![p] = ExpireIfDue(process[p], at)],
         events' = [events EXCEPT ![p] = @ \o ExpiryEvents(process[p], at)],
         NEW q \in Procs
  PROVE  RowTold(q)
<1>1. /\ process \in [Procs -> State] /\ events \in [Procs -> Seq(Event)] /\ clock \in Nat
      /\ process[p] \in State /\ events[p] \in Seq(Event) /\ at \in Nat
  BY DEF IInv, TypeOK
<1>2. CASE q # p
  BY <1>1, <1>2 DEF RowTold
<1> DEFINE s == process[p]
<1>3. CASE q = p /\ ~Due(s, at)
  <2>1. ExpiryEvents(s, at) = <<>> /\ ExpireIfDue(s, at) = s
    BY <1>3 DEF ExpiryEvents, ExpireIfDue
  <2>2. events[p] \o <<>> = events[p]
    BY <1>1
  <2> QED BY <1>1, <1>3, <2>1, <2>2 DEF RowTold
<1>4. CASE q = p /\ Due(s, at)
  <2> DEFINE next == ExpireIfDue(s, at)
             e == [action |-> IF s.window = "rework" THEN "rework_lapsed" ELSE "default_approve",
                   from |-> s.status, to |-> next.status, at |-> at, due |-> s.dueDate]
  <2>1. ExpiryEvents(s, at) = <<e>> /\ process'[p] = next
    BY <1>1, <1>4 DEF ExpiryEvents
  <2>2. e \in Event
    <3>1. next \in State
      BY <1>1, ExpireType
    <3>2. next.status \in Statuses /\ s.status \in Statuses /\ s.dueDate \in Nat
      BY <1>1, <3>1 DEF State
    <3> HIDE DEF next, s
    <3> QED BY <1>1, <3>2 DEF Event, SystemActions
  <2>3. events'[p] = events[p] \o <<e>>
    BY <1>1, <2>1
  <2>4. Moves(p, s, e, next)
    BY <1>4 DEF Moves
  <2> HIDE DEF e, next
  <2>5. events'[p] = Append(events[p], e)
    BY <1>1, <2>2, <2>3
  <2> QED BY <1>4, <2>1, <2>2, <2>4, <2>5 DEF RowTold
<1> QED BY <1>2, <1>3, <1>4

\* An accepted action finds nothing due, so it is recorded with one event too.
LEMMA ActionIsTold ==
  ASSUME IInv, NEW r \in Requests, ActCommits(r), NEW q \in Procs
  PROVE  RowTold(q)
<1> DEFINE req     == request[r]
           p       == req.proc
           s       == process[p]
           expired == ExpireIfDue(s, req.at)
           next    == Apply(p, expired, req.action, req.at)
           applied == Append(ExpiryEvents(s, req.at), ActEvent(expired, next, req))
           e       == ActEvent(s, Apply(p, s, req.action, req.at), req)
<1>1. req \in Request /\ req # Idle /\ req.at <= clock
  BY DEF ActCommits, IInv, TypeOK, ReadingsArePast
<1>2. /\ p \in Procs /\ req.action \in Actions /\ req.reason \in BOOLEAN
      /\ req.at \in Nat /\ req.at \in 0..clock
  BY <1>1 DEF Request, IInv, TypeOK
<1>3. /\ process \in [Procs -> State] /\ events \in [Procs -> Seq(Event)] /\ Shape(s)
  BY <1>2 DEF IInv, TypeOK, SchemaChecksHold
<1>4. /\ Accepts(p, expired, req.action, req.reason, req.at)
      /\ process' = [process EXCEPT ![p] = next]
      /\ events' = [events EXCEPT ![p] = @ \o applied]
  BY DEF ActCommits
<1>5. s \in State /\ events[p] \in Seq(Event)
  BY <1>2, <1>3
<1> HIDE DEF req, s, applied, next
<1>6. ~Due(s, req.at) /\ expired = s
  BY <1>2, <1>3, <1>4, <1>5, NothingDueWhenAccepted DEF p
<1>7. next = Apply(p, s, req.action, req.at) /\ Accepts(p, s, req.action, req.reason, req.at)
  BY <1>4, <1>6 DEF next
<1>8. ExpiryEvents(s, req.at) = <<>>
  BY <1>6 DEF ExpiryEvents
<1>9. next \in State
  BY <1>2, <1>5, <1>7, ApplyType
<1>10. /\ e.action = req.action /\ e.from = s.status /\ e.to = next.status /\ e.at = req.at
       /\ e \in Event
  <2>1. s.status \in Statuses /\ next.status \in Statuses /\ next.dueDate \in Nat
    BY <1>5, <1>9 DEF State
  <2> QED BY <1>2, <1>7, <2>1 DEF ActEvent, Event
<1>11. applied = Append(<<>>, e)
  BY <1>6, <1>7, <1>8 DEF applied, next
<1> HIDE DEF e, expired, p
<1>12. events[p] \o applied = Append(events[p], e)
  <2>1. applied = <<e>>
    BY <1>10, <1>11
  <2> QED BY <1>5, <1>10, <2>1
<1>13. Moves(p, s, e, next)
  BY <1>2, <1>6, <1>7, <1>10 DEF Moves
<1>14. CASE q = p
  <2>1. process'[p] = next /\ events'[p] = Append(events[p], e)
    BY <1>2, <1>3, <1>4, <1>12
  <2> QED BY <1>10, <1>13, <1>14, <2>1 DEF RowTold, s
<1>15. CASE q # p
  BY <1>2, <1>3, <1>4, <1>15 DEF RowTold
<1> QED BY <1>14, <1>15

\* Every step tells each process what happened to it, or leaves it alone.
LEMMA EventCases ==
  ASSUME IInv, [Next]_vars
  PROVE  /\ clock' = clock \/ clock' = clock + 1
         /\ clock' # clock => process' = process /\ events' = events
         /\ \A q \in Procs : RowTold(q)
<1>0. process' = process /\ events' = events => \A q \in Procs : RowTold(q)
  BY DEF RowTold
<1>1. CASE Tick
  BY <1>0, <1>1 DEF Tick
<1>2. ASSUME NEW u \in Users, NEW p \in Procs, Create(u, p)
      PROVE  clock' = clock /\ \A q \in Procs : RowTold(q)
  BY <1>2 DEF Create, RowTold, IInv, TypeOK
<1>3. ASSUME NEW r \in Requests, ActCommits(r)
      PROVE  clock' = clock /\ \A q \in Procs : RowTold(q)
  <2>1. clock' = clock
    BY <1>3 DEF ActCommits
  <2> QED BY <1>3, <2>1, ActionIsTold
<1>4. ASSUME NEW r \in Requests, ActRefused(r)
      PROVE  clock' = clock /\ \A q \in Procs : RowTold(q)
  <2> DEFINE req == request[r]
  <2>1. req \in Request /\ req # Idle /\ req.at <= clock
    BY <1>4 DEF ActRefused, IInv, TypeOK, ReadingsArePast
  <2>2. req.proc \in Procs /\ req.at \in 0..clock
    BY <2>1 DEF Request, IInv, TypeOK
  <2>3. /\ process' = [process EXCEPT ![req.proc] = ExpireIfDue(process[req.proc], req.at)]
        /\ events' = [events EXCEPT ![req.proc] = @ \o ExpiryEvents(process[req.proc], req.at)]
        /\ clock' = clock
    BY <1>4 DEF ActRefused
  <2> HIDE DEF req
  <2> QED BY <2>2, <2>3, ExpiryIsTold
<1>5. ASSUME NEW w \in Workers, NEW p \in Procs, ExpireOne(w, p)
      PROVE  clock' = clock /\ \A q \in Procs : RowTold(q)
  <2>1. sweep[w].now \in 0..clock
    BY DEF IInv, TypeOK, ReadingsArePast, Sweep
  <2>2. /\ process' = [process EXCEPT ![p] = ExpireIfDue(process[p], sweep[w].now)]
        /\ events' = [events EXCEPT ![p] = @ \o ExpiryEvents(process[p], sweep[w].now)]
        /\ clock' = clock
    BY <1>5 DEF ExpireOne, IInv, TypeOK
  <2> QED BY <2>1, <2>2, ExpiryIsTold
<1>6. ASSUME NEW r \in Requests, NEW u \in Users, NEW p \in Procs, NEW action \in Actions,
             NEW reason \in BOOLEAN, RequestAct(r, u, p, action, reason)
      PROVE  clock' = clock /\ process' = process /\ events' = events
  BY <1>6 DEF RequestAct
<1>7. ASSUME NEW r \in Requests, ActFails(r)
      PROVE  clock' = clock /\ process' = process /\ events' = events
  BY <1>7 DEF ActFails
<1>8. ASSUME NEW w \in Workers, SweepStart(w) \/ SweepEnd(w) \/ SweepFails(w)
      PROVE  clock' = clock /\ process' = process /\ events' = events
  BY <1>8 DEF SweepStart, SweepEnd, SweepFails
<1>9. CASE UNCHANGED vars
  BY <1>0, <1>9 DEF vars
<1> QED BY <1>0, <1>1, <1>2, <1>3, <1>4, <1>5, <1>6, <1>7, <1>8, <1>9 DEF Next

\* A silence that was late stays late.
LEMMA LateStaysLate ==
  ASSUME NEW p \in Procs, NEW evs \in Seq(Event), NEW now \in Nat, NEW later \in Nat,
         now <= later, SilenceIsLate(p, evs, now)
  PROVE  SilenceIsLate(p, evs, later)
<1>1. Today(now) <= Today(later) /\ Today(now) \in Nat /\ Today(later) \in Nat
  BY DivisionIsMonotone
<1> SUFFICES ASSUME NEW i \in DOMAIN evs, evs[i].action = "default_approve"
             PROVE  \E j \in 1..(i - 1) :
                      /\ evs[j].action \in {"send", "resubmit"}
                      /\ \A k \in (j + 1)..(i - 1) : evs[k].action = "start_review"
                      /\ Today(later) > Today(evs[j].at) + Opens(p, evs[j].action)
  BY DEF SilenceIsLate
<1>2. PICK j \in 1..(i - 1) :
        /\ evs[j].action \in {"send", "resubmit"}
        /\ \A k \in (j + 1)..(i - 1) : evs[k].action = "start_review"
        /\ Today(now) > Today(evs[j].at) + Opens(p, evs[j].action)
  BY DEF SilenceIsLate
<1>3. evs[j] \in Event
  <2>1. DOMAIN evs = 1..Len(evs) /\ Len(evs) \in Nat
    OBVIOUS
  <2>2. j \in 1..Len(evs)
    BY <2>1
  <2> QED BY <2>2
<1>4. Today(evs[j].at) \in Nat /\ Opens(p, evs[j].action) \in Nat
  <2>1. evs[j].at \in Nat
    BY <1>3 DEF Event
  <2>2. Today(evs[j].at) \in Nat
    BY <2>1, BoundsAssumption DEF Today
  <2>3. Opens(p, evs[j].action) \in Nat
    BY KindsAssumption DEF Opens
  <2> QED BY <2>2, <2>3
<1>5. Today(later) > Today(evs[j].at) + Opens(p, evs[j].action)
  BY <1>1, <1>2, <1>4
<1> QED BY <1>2, <1>5

\* Every step keeps the histories sound.
LEMMA HistoryPreserved ==
  ASSUME IInv, IInv', HistoryInv, [Next]_vars
  PROVE  HistoryInv'
<1> SUFFICES ASSUME NEW p \in Procs
             PROVE  HistoryOf(p, process'[p], events'[p], clock')
  BY DEF HistoryInv
<1>1. /\ clock \in Nat /\ process[p] \in State /\ events[p] \in Seq(Event) /\ Shape(process[p])
      /\ process'[p] \in State /\ events'[p] \in Seq(Event)
  BY DEF IInv, TypeOK, SchemaChecksHold
<1>2. HistoryOf(p, process[p], events[p], clock)
  BY DEF HistoryInv
<1>3. /\ clock' = clock \/ clock' = clock + 1
      /\ clock' # clock => process' = process /\ events' = events
      /\ RowTold(p)
  BY EventCases
<1>4. CASE process'[p] = process[p] /\ events'[p] = events[p]
  <2>1. clock' \in Nat /\ clock <= clock'
    BY <1>1, <1>3
  <2>2. SilenceIsLate(p, events[p], clock')
    BY <1>1, <1>2, <2>1, LateStaysLate DEF HistoryOf
  <2> QED BY <1>2, <1>4, <2>2 DEF HistoryOf
<1>5. CASE clock' = clock /\ process[p].status = "absent" /\ process'[p] = Draft /\ events'[p] = events[p]
  <2>1. /\ Draft.status = "draft" /\ Draft.window = "" /\ Draft.lapsed = FALSE
        /\ Stage(Draft) = 0 /\ Stage(process[p]) = 0
    BY <1>5 DEF Draft, Absent, Stage
  <2>2. events[p] = <<>>
    <3> SUFFICES ASSUME events[p] # <<>> PROVE FALSE
      OBVIOUS
    <3>1. 1 \in DOMAIN events[p] /\ events[p][1] \in Event
      BY <1>1
    <3>2. EventStage(events[p][1]) <= 0
      BY <1>2, <2>1, <3>1 DEF HistoryOf, StagesGrow
    <3>3. EventStage(events[p][1]) \in 1..7
      BY <3>1, StagesAreNumbers
    <3> QED BY <3>2, <3>3
  <2>3. DOMAIN events[p] = {}
    BY <2>2
  <2>4. StagesGrow(Draft, events[p]) /\ WindowIsDated(p, Draft, events[p]) /\ LapseIsLate(Draft)
    BY <2>1, <2>3 DEF StagesGrow, WindowIsDated, LapseIsLate
  <2>5. Explains(Draft, events[p])
    <3>1. Len(events[p]) = 0
      BY <2>2
    <3>2. 1..(Len(events[p]) - 1) = {}
      BY <3>1
    <3> QED BY <2>1, <2>2, <3>2 DEF Explains
  <2> QED BY <1>2, <1>5, <2>4, <2>5 DEF HistoryOf
<1>6. ASSUME clock' = clock,
             NEW e \in Event, events'[p] = Append(events[p], e), Moves(p, process[p], e, process'[p])
      PROVE  HistoryOf(p, process'[p], events'[p], clock')
  <2>1. LapseIsLate(process[p]) /\ e.at \in Nat
    BY <1>2, <1>1, <1>6 DEF HistoryOf, Moves
  <2>2. MoveIsSound(p, process[p], e, process'[p])
    <3>1. CASE Due(process[p], e.at)
      BY <1>1, <1>6, <2>1, <3>1, ExpiryMoves DEF Moves
    <3>2. CASE ~Due(process[p], e.at)
      BY <1>1, <1>6, <2>1, <3>2, ActionMoves DEF Moves
    <3> QED BY <3>1, <3>2
  <2>3. LapseIsLate(process'[p])
    BY <2>2 DEF MoveIsSound
  <2> QED BY <1>1, <1>2, <1>6, <2>1, <2>2, <2>3, MoveIsTold DEF HistoryOf
<1>7. CASE clock' # clock
  BY <1>3, <1>4, <1>7
<1> QED BY <1>3, <1>4, <1>5, <1>6, <1>7 DEF RowTold

\* What the invariant says of the history of one process.
LEMMA TransitionsDiffer ==
  ASSUME NEW s \in State, NEW evs \in Seq(Event), StagesGrow(s, evs),
         NEW i \in DOMAIN evs, NEW j \in DOMAIN evs, i < j
  PROVE  /\ evs[i].to \notin Decisions
         /\ evs[i].action = evs[j].action =>
              evs[i].action = "start_review" /\ evs[i].from # evs[j].from
<1>1. evs[i] \in Event /\ evs[j] \in Event
  OBVIOUS
<1>2. EventStage(evs[i]) \in 1..7 /\ EventStage(evs[j]) \in 1..7
  BY <1>1, StagesAreNumbers
<1>3. EventStage(evs[i]) < EventStage(evs[j])
  BY DEF StagesGrow
<1>4. evs[i].to \notin Decisions
  BY <1>2, <1>3 DEF StagesGrow
<1>5. EventStage(evs[i]) # EventStage(evs[j])
  BY <1>2, <1>3
<1>6. ASSUME evs[i].action = evs[j].action
      PROVE  evs[i].action = "start_review" /\ evs[i].from # evs[j].from
  BY <1>5, <1>6 DEF EventStage
<1> QED BY <1>4, <1>6

LEMMA HistoryImplies == IInv /\ HistoryInv => HistoryIsSound
<1> SUFFICES ASSUME IInv, HistoryInv PROVE HistoryIsSound
  OBVIOUS
<1>1. \A p \in Procs : HistoryOf(p, process[p], events[p], clock)
  BY DEF HistoryInv
<1>2. \A p \in Procs : process[p] \in State /\ events[p] \in Seq(Event)
  BY DEF IInv, TypeOK
<1>3. HistoryExplainsRow
  BY <1>1 DEF HistoryOf, Explains, HistoryExplainsRow
<1>4. EachTransitionOnce
  BY <1>1, <1>2, TransitionsDiffer DEF HistoryOf, EachTransitionOnce, Decisions
<1>5. NoEarlySilence
  BY <1>1 DEF HistoryOf, SilenceIsLate, NoEarlySilence
<1> QED BY <1>3, <1>4, <1>5 DEF HistoryIsSound

\* HistoryIsSound: the events chain from the draft to the present status, no
\* transition is recorded twice, nothing follows a decision, and silence has
\* approved only after the last calendar day of the window it answers for,
\* however requests, passes, failures and restarts interleave.
THEOREM HistoryTellsTheTruth == Spec => []HistoryIsSound
<1>1. Init => HistoryInv
  <2> SUFFICES ASSUME Init, NEW p \in Procs PROVE HistoryOf(p, Absent, <<>>, clock)
    BY DEF Init, HistoryInv
  <2>1. Absent.status = "absent" /\ Absent.window = "" /\ Absent.lapsed = FALSE
    BY DEF Absent
  <2>2. 1..(Len(<<>>) - 1) = {}
    OBVIOUS
  <2>3. Explains(Absent, <<>>)
    BY <2>1, <2>2 DEF Explains
  <2>4. StagesGrow(Absent, <<>>) /\ SilenceIsLate(p, <<>>, clock)
    <3>1. DOMAIN <<>> = {}
      OBVIOUS
    <3> QED BY <3>1 DEF StagesGrow, SilenceIsLate
  <2>5. LapseIsLate(Absent) /\ WindowIsDated(p, Absent, <<>>)
    BY <2>1 DEF LapseIsLate, WindowIsDated
  <2> QED BY <2>3, <2>4, <2>5 DEF HistoryOf
<1>2. IInv /\ IInv' /\ HistoryInv /\ [Next]_vars => HistoryInv'
  BY HistoryPreserved
<1> QED BY <1>1, <1>2, InductiveInvariant, HistoryImplies, PTL DEF Spec

=============================================================================
