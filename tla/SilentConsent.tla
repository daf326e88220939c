--------------------------- MODULE SilentConsent ---------------------------
(***************************************************************************)
(* What the regulatory process promises the two parties, without requests, *)
(* locks, passes or histories (ADR-02): a list that was sent is answered   *)
(* within its window or is approved by silence once the window is over;    *)
(* it goes back for rework at most once; a decision is final.              *)
(*                                                                         *)
(* An answer counts by the instant it was given, which is not later than   *)
(* the clock: it may be recorded a little after.                           *)
(***************************************************************************)
EXTENDS Integers

CONSTANTS Procs, Length, TicksPerDay
\* Length[p] : the days of the three windows of p

VARIABLES
  clock,
  list     \* [Procs -> [phase, round, expires]]

vars == <<clock, list>>

Phases == {"absent", "draft", "review", "rework", "approved", "silent", "disputed"}
Decided == {"approved", "silent", "disputed"}

TypeOK ==
  /\ clock \in Nat
  /\ list \in [Procs -> [phase : Phases, round : 0..2, expires : Nat]]

Init ==
  /\ clock = 0
  /\ list = [p \in Procs |-> [phase |-> "absent", round |-> 0, expires |-> 0]]

\* The start of the day after the last of so many full days after receipt.
Expiry(receivedAt, days) == (receivedAt \div TicksPerDay + days + 1) * TicksPerDay

InTime(p, at) == list[p].expires > at

Become(p, phase, round, expires) ==
  /\ list' = [list EXCEPT ![p] = [phase |-> phase, round |-> round, expires |-> expires]]
  /\ UNCHANGED clock

Create(p) == list[p].phase = "absent" /\ Become(p, "draft", 0, 0)

Send(p, at) ==
  /\ list[p].phase = "draft"
  /\ Become(p, "review", 1, Expiry(at, Length[p].review))

Return(p, at) ==
  /\ list[p].phase = "review" /\ list[p].round = 1 /\ InTime(p, at)
  /\ Become(p, "rework", 1, Expiry(at, Length[p].rework))

Resubmit(p, at) ==
  /\ list[p].phase = "rework" /\ InTime(p, at)
  /\ Become(p, "review", 2, Expiry(at, Length[p].rereview))

Approve(p, at) ==
  /\ list[p].phase = "review" /\ InTime(p, at)
  /\ Become(p, "approved", list[p].round, 0)

Dispute(p, at) ==
  /\ list[p].phase = "review" /\ list[p].round = 2 /\ InTime(p, at)
  /\ Become(p, "disputed", 2, 0)

Silence(p) ==
  /\ list[p].phase = "review" /\ ~InTime(p, clock)
  /\ Become(p, "silent", list[p].round, 0)

Tick == clock' = clock + 1 /\ UNCHANGED list

Next ==
  \/ Tick
  \/ \E p \in Procs : Create(p) \/ Silence(p)
  \/ \E p \in Procs : \E at \in 0..clock :
       Send(p, at) \/ Return(p, at) \/ Resubmit(p, at) \/ Approve(p, at) \/ Dispute(p, at)

Spec == Init /\ [][Next]_vars
=============================================================================
