------------------------------ MODULE Analytics ------------------------------
(***************************************************************************)
(* What is read from the entries of an IT company: the projection of an    *)
(* entry to its amounts (activity_projection.go), the groups and totals    *)
(* every reader shares (activityprojection), the dashboard with its slices *)
(* and the target of three per cent, the cache of totals that workers      *)
(* rebuild (aggregates), and the sealed picture of the fact on the first   *)
(* of May (snapshots.go).                                                  *)
(***************************************************************************)
EXTENDS Evidence

CONSTANTS
    Year,           \* the year it is now
    Workers,        \* replicas that rebuild the cache
    Sealers,        \* requests to seal a snapshot
    Bases,          \* kopecks: bases of the target
    Slices          \* slices a dashboard is asked for

VARIABLES
    cache,          \* year -> rows and the number of entries they were built from
    rebuilds,       \* worker -> the rebuild under way
    snapshots,      \* year -> the sealed picture, or NoPicture
    seals,          \* request -> the picture under way
    target          \* kopecks, or 0

vars == <<evidenceVars, cache, rebuilds, snapshots, seals, target>>

Years == {CardOf[i].year : i \in Ids}
ASSUME YearAssumption == Year \in Years /\ Bases \subseteq Nat
Total(S, f) == SumFunctionOnSet(f, S)
TotalOf(S, field) == Total(S, [x \in S |-> x[field]])

\* An entry is either of the plan or of the fact.
Amount(c) == c.plan + c.fact
AmountOf(S) == Total(S, [c \in S |-> Amount(c)])

-----------------------------------------------------------------------------
(* The projection of an entry (projectLegacyActivity).                     *)

Contribution(i) ==
    LET amount == entries[i].amount
        fact == CardOf[i].period = "fact"
        ready == Readiness(i, entries[i], docs) = "green"
    IN  [id |-> i, period |-> CardOf[i].period, units |-> CardOf[i].units,
         partner |-> CardOf[i].partner, category |-> Category(i), audience |-> CardOf[i].audience,
         plan |-> IF fact THEN 0 ELSE amount,
         fact |-> IF fact THEN amount ELSE 0,
         confirmed |-> IF fact /\ ready THEN amount ELSE 0,
         counted |-> IF fact /\ ready /\ Eligible(i) /\ Approved(i) /\ ~Disputed(i) THEN amount ELSE 0,
         eligible |-> Eligible(i), risk |-> Risk(i)]

NoSlice == [category |-> "", audience |-> "", semester |-> 0, term |-> "", light |-> ""]
Colours == {"green", "yellow", "red"}

Term(i) == IF CardOf[i].semester % 2 = 1 THEN "autumn" ELSE "spring"

(* List: an entry without a semester is in no slice by semester or term.   *)
InSlice(i, s) ==
    /\ s.category \in {"", Category(i)}
    /\ s.audience \in {"", CardOf[i].audience}
    /\ s.semester = 0 \/ s.semester = CardOf[i].semester
    /\ s.term = "" \/ (CardOf[i].semester # 0 /\ s.term = Term(i))

Contributions(year) == {Contribution(i) : i \in {x \in Ids : Kept(x) /\ CardOf[x].year = year}}
List(all, s) == {c \in all : InSlice(c.id, s)}
FilterByLight(cs, light) == {c \in cs : light \in {"", c.risk}}

-----------------------------------------------------------------------------
(* Groups and totals (AggregateContributions).                             *)

OfPeriod(cs, p) == {c \in cs : c.period = p}

Summary(cs) ==
    [planEntries |-> Cardinality(OfPeriod(cs, "plan")),
     factEntries |-> Cardinality(OfPeriod(cs, "fact")),
     plan |-> TotalOf(cs, "plan"),
     fact |-> TotalOf(cs, "fact"),
     confirmed |-> TotalOf(cs, "confirmed"),
     counted |-> TotalOf(cs, "counted"),
     eligible |-> AmountOf({c \in cs : c.eligible}),
     incomplete |-> Cardinality({c \in cs : ~c.eligible})]

KeyOf(c) == <<c.partner, c.category, c.audience>>
Aggregates(cs) == {[key |-> k, sums |-> Summary({c \in cs : KeyOf(c) = k})] : k \in {KeyOf(c) : c \in cs}}

-----------------------------------------------------------------------------
(* The dashboard (Get): every number of an answer comes from one reading   *)
(* of the projection, except the target, which is read for the company.    *)

Breakdown(cs, p) ==
    {[category |-> k[1], audience |-> k[2],
      units |-> TotalOf({c \in OfPeriod(cs, p) : <<c.category, c.audience>> = k}, "units"),
      amount |-> AmountOf({c \in OfPeriod(cs, p) : <<c.category, c.audience>> = k})]
     : k \in {<<c.category, c.audience>> : c \in OfPeriod(cs, p)}}

\* A fault: the plan falls into the buckets too.
BucketOfEverything(cs, colour) ==
    LET those == {c \in cs : c.risk = colour} IN
    [entries |-> Cardinality(those), amount |-> AmountOf(those)]

Bucket(cs, colour) ==
    LET those == {c \in OfPeriod(cs, "fact") : c.risk = colour} IN
    [entries |-> Cardinality(those), amount |-> TotalOf(those, "fact")]

(* The items of the company are read again only under a filter of category *)
(* or audience: otherwise the slice at hand is taken for the company.      *)
CompanyItems(all, s, cs) ==
    IF s.category # "" \/ s.audience # "" THEN all ELSE cs

Progress(confirmed) ==
    [confirmed |-> confirmed,
     deficit |-> IF confirmed < target THEN target - confirmed ELSE 0,
     surplus |-> IF confirmed < target THEN 0 ELSE confirmed - target]

Shown(all, s) == FilterByLight(List(all, s), s.light)

Target(all, s) ==
    Progress(IF target = 0 THEN 0 ELSE Summary(CompanyItems(all, s, Shown(all, s))).counted)

(* The chips of higher education look at every row, the table may hide the *)
(* rows that have neither an amount nor a volume.                          *)
Chips(rows) ==
    [c \in {"teachers", "ood_rpd", TopCategory} |->
        \E r \in rows : r.category = c /\ r.audience = "vuz" /\ r.amount > 0]

WithoutZero(rows) == {r \in rows : r.amount # 0 \/ r.units # 0}

Dashboard(all, s) ==
    LET cs == Shown(all, s) IN
    [totals |-> Summary(cs),
     planRows |-> WithoutZero(Breakdown(cs, "plan")), factRows |-> WithoutZero(Breakdown(cs, "fact")),
     chips |-> Chips(Breakdown(cs, "fact")),
     buckets |-> [colour \in Colours |-> Bucket(cs, colour)]]

(* SetBudgetTarget: the target is three per cent of the base, to a kopeck. *)
SetBudgetTarget ==
    /\ \E base \in Bases :
        /\ (base * 3 + 50) \div 100 > 0
        /\ target' = (base * 3 + 50) \div 100
        /\ target' # target
    /\ Writes
    /\ UNCHANGED <<entries, docs, disputes, items, report, reviews, cache, rebuilds, snapshots, seals>>

-----------------------------------------------------------------------------
(* The cache: a worker reads the projection, then, under the advisory lock *)
(* of the year and in one transaction, replaces the rows.                  *)

Fresh(y) == [rows |-> Aggregates(Contributions(y)), count |-> Cardinality(Contributions(y))]

RebuildRead(w, y) ==
    /\ rebuilds[w] = Idle
    /\ \E i \in Ids : Kept(i) /\ CardOf[i].year = y
    /\ UNCHANGED <<evidenceVars, cache, snapshots, seals, target>>
    /\ rebuilds' = [rebuilds EXCEPT ![w] = [at |-> "read", year |-> y, slice |-> Fresh(y)]]

\* A fault: what is there is kept (ON CONFLICT DO NOTHING).
KeptIfThere(old, new) == IF old = {} THEN new ELSE old
Replaced(old, new) == new

RebuildWrite(w) ==
    LET r == rebuilds[w] IN
    /\ r.at = "read"
    /\ cache' = [cache EXCEPT ![r.year] = [rows |-> Replaced(@.rows, r.slice.rows), count |-> r.slice.count]]
    /\ rebuilds' = [rebuilds EXCEPT ![w] = Idle]
    /\ UNCHANGED <<evidenceVars, snapshots, seals, target>>

(* Verify: a cached slice is exact when it is the fresh one.               *)
Exact(y) == cache[y].rows = Aggregates(Contributions(y))

-----------------------------------------------------------------------------
(* Sealing (Create), open on the first of May of the year: a serializable  *)
(* transaction sees one moment, takes the entries and then the documents,  *)
(* and inserts one row a year.                                             *)

NoPicture == [at |-> "absent"]
FactsOfYear == {i \in Ids : Kept(i) /\ SliceOf(i) = <<Year, "fact">>}

SealStart(q) ==
    /\ seals[q] = Idle
    /\ seals' = [seals EXCEPT ![q] =
        [at |-> "entries", entries |-> [i \in FactsOfYear |-> [row |-> entries[i], eligible |-> Eligible(i)]],
         moment |-> docs, docs |-> NoDoc]]
    /\ UNCHANGED <<evidenceVars, cache, rebuilds, snapshots, target>>

\* A fault: the transaction sees what is committed meanwhile.
AsCommitted(m) == docs
AtItsMoment(m) == m

SealDocuments(q) ==
    LET s == seals[q]
        rows == AtItsMoment(s.moment)
        shown == {d \in Docs : rows[d].at = "kept" /\ SliceOf(EntryOf[d]) = <<Year, "fact">>}
    IN  /\ s.at = "entries"
        /\ seals' = [seals EXCEPT ![q] =
               IF \E d \in shown : ~rows[d].sum THEN Idle
               ELSE [@ EXCEPT !.at = "docs", !.docs = [d \in shown |-> rows[d].status]]]
        /\ UNCHANGED <<evidenceVars, cache, rebuilds, snapshots, target>>

MaySeal(y) == snapshots[y] = NoPicture

Seal(q) ==
    LET s == seals[q] IN
    /\ s.at = "docs"
    /\ snapshots' = IF MaySeal(Year)
                    THEN [snapshots EXCEPT ![Year] = [at |-> "sealed", entries |-> s.entries, docs |-> s.docs]]
                    ELSE snapshots
    /\ seals' = [seals EXCEPT ![q] = Idle]
    /\ UNCHANGED <<evidenceVars, cache, rebuilds, target>>

(* A query fails, or the transaction cannot be serialized.                 *)
GiveUp(q) ==
    /\ seals[q].at \in {"entries", "docs"}
    /\ seals' = [seals EXCEPT ![q] = Idle]
    /\ UNCHANGED <<evidenceVars, cache, rebuilds, snapshots, target>>

-----------------------------------------------------------------------------
Init ==
    /\ \E start \in Starts :
        /\ EvidenceInit(start)
        /\ rebuilds = Presence(Workers, start) /\ seals = Presence(Sealers, start)
    /\ cache = [y \in Years |-> [rows |-> {}, count |-> 0]]
    /\ snapshots = [y \in Years |-> NoPicture]
    /\ target = 0

Rebuild(w) == (\E y \in Years : RebuildRead(w, y)) \/ RebuildWrite(w)

Next ==
    \/ EvidenceNext /\ UNCHANGED <<cache, rebuilds, snapshots, seals, target>>
    \/ \E w \in Workers : Rebuild(w)
    \/ \E q \in Sealers : SealStart(q) \/ SealDocuments(q) \/ Seal(q) \/ GiveUp(q)
    \/ SetBudgetTarget

(* RebuildAll runs every hour and goes through every year with entries.    *)
Fairness == \A w \in Workers :
    /\ \A y \in Years : SF_vars(RebuildRead(w, y))
    /\ WF_vars(RebuildWrite(w))

Spec == Init /\ [][Next]_vars /\ Fairness

-----------------------------------------------------------------------------
(* Properties.                                                             *)

(* Every variable keeps its type; the bookkeeping of the cache is counted. *)
TypeOK ==
    /\ EvidenceTypeOK
    /\ \A y \in Years : cache[y].count \in 0..Cardinality(Ids)
    /\ \A w \in Workers : rebuilds[w].at \in {"away", "idle", "read"}
    /\ \A q \in Sealers : seals[q].at \in {"away", "idle", "entries", "docs"}
    /\ target \in Nat

(* The numbers of one answer agree under every slice: the rows of plan and *)
(* fact by category and the buckets of risk, each gathered by a function   *)
(* of its own, sum to the same totals (dashboard.go, Get).                 *)
SlicesAddUp ==
    LET all == Contributions(Year) IN
    \A s \in Slices :
        LET d == Dashboard(all, s) IN
        /\ TotalOf(d.planRows, "amount") = d.totals.plan
        /\ TotalOf(d.factRows, "amount") = d.totals.fact
        /\ Total(Colours, [colour \in Colours |-> d.buckets[colour].amount]) = d.totals.fact

(* The guaranteed bucket, which the engine of risk decides, holds exactly  *)
(* what the projection counts, and what is counted is confirmed fact       *)
(* (risk.go, activity_projection.go).                                      *)
GuaranteedIsCounted ==
    LET all == Contributions(Year) IN
    \A s \in Slices :
        LET sums == Summary(Shown(all, s)) IN
        /\ Bucket(Shown(all, s), "green").amount = sums.counted
        /\ sums.counted <= sums.confirmed /\ sums.confirmed <= sums.fact

(* A signature is confirmed only where one is described and the document   *)
(* approved, however a review and a change of the details interleave       *)
(* (attachments.go, Review; document_metadata.go, UpdateMetadata).         *)
VerifiedIsDescribed ==
    \A d \in Docs : docs[d] # NoDoc /\ docs[d].verified => docs[d].status = "approved" /\ Described(d)

(* While a report stays approved its entries and their components do not   *)
(* change, but for documents whose retention is over (top_items.go,        *)
(* touchEntry).                                                            *)
SameComponent(k) ==
    \/ items'[k] = items[k]
    \/ /\ items[k] # NoItem /\ items'[k] # NoItem
       /\ items[k].docs \ items'[k].docs \subseteq {d \in Docs : docs'[d] = NoDoc}
       /\ items'[k].docs \subseteq items[k].docs

Regards(k, p) == \E it \in {items[k], items'[k]} : it # NoItem /\ SliceOf(it.entry) = p

ReportFollowsItsBasis ==
    [][\A p \in Periods : report[p].status = "approved" /\ report'[p].status = "approved" =>
        /\ \A i \in Ids : SliceOf(i) = p => entries'[i] = entries[i]
        /\ \A k \in Items : Regards(k, p) => SameComponent(k)]_vars

(* Once the source rests, the cache of every year becomes exact and stays  *)
(* so, whatever order the workers wrote in (aggregates.go, Run, Verify).   *)
CacheCatchesUp ==
    (\A w \in Workers : rebuilds[w] = Idle) =>
        <>[](\A y \in Years : (\E i \in Ids : Kept(i) /\ CardOf[i].year = y) => Exact(y))

(* docs/TEACHING_SEMESTERS.md, line 26: the target and its completion do   *)
(* not depend on the slice.                                                *)
TargetIgnoresTheSlice ==
    \A s \in Slices : Target(Contributions(Year), s) = Target(Contributions(Year), NoSlice)
=============================================================================
