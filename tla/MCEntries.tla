----------------------------- MODULE MCEntries -----------------------------
EXTENDS Entries, TLC

MCKindOf == [p \in Partners |-> IF p = "u" THEN "vuz" ELSE "school"]
MCAudiences == [c \in Categories |-> IF c = "clubs" THEN {"school"} ELSE {"vuz", "kolledj"}]
MCRateOf == [c \in Categories |-> IF c = "minc" THEN "none" ELSE "hour"]

All == {"teachers", "ood_rpd", "internship", "minc"}
MCEdits ==
  {[partners |-> {"u"}, scope |-> All, status |-> "active", term |-> {1, 2}, signed |-> TRUE],
   [partners |-> {"u"}, scope |-> All \ {"minc"}, status |-> "active", term |-> {2}, signed |-> TRUE],
   [partners |-> {"s"}, scope |-> {}, status |-> "active", term |-> {1, 2}, signed |-> TRUE],
   [partners |-> {"u"}, scope |-> {"teachers", "ood_rpd"}, status |-> "draft", term |-> {2}, signed |-> FALSE]}
MCTerms == {{1, 2}, {2}}
MCFounding == "a" :> [partners |-> {"u"}, scope |-> All, status |-> "active", term |-> {1, 2}, signed |-> TRUE]
MCHired == "m" :> [profile |-> "senior", status |-> "confirmed", archived |-> FALSE,
                   partners |-> {"u"}, by |-> "admin"]
MCEnrolled == "n" :> [partner |-> "u", name |-> "x", archived |-> FALSE]

Teach(slot, period, year) ==
  [category |-> "teachers", partner |-> "u", agreement |-> "a", year |-> year, period |-> period,
   slot |-> slot, units |-> 1, person |-> "m", method |-> "average", actual |-> 0,
   payout |-> "planned", origin |-> 0]
Guide(period) == [Teach("st", period, 2) EXCEPT !.category = "internship", !.person = "n"]
Decide(n) == [Teach("d", "fact", 2) EXCEPT !.category = "minc", !.person = "o", !.units = n]
Club == [Teach("c", "plan", 2) EXCEPT !.category = "clubs", !.person = "o", !.partner = "s", !.agreement = "b"]

Request(kind, target, rows) == [kind |-> kind, target |-> target, by |-> "w", rows |-> rows]
Create(d) == Request("create", 0, <<d>>)
Copy == Request("copy", 0, <<Teach("", "plan", 2)>>)
File == Request("import", 0, <<Teach("x", "fact", 2), Teach("y", "fact", 2)>>)
Pay == Request("finance", 1, <<[Teach("x", "fact", 2) EXCEPT !.payout = "paid"]>>)
Actual == Request("update", 1, <<[Teach("x", "fact", 2) EXCEPT !.method = "actual", !.actual = 7, !.person = "o"]>>)

Start(a, b, c, p, q, w) ==
  [asks |-> 1 :> a @@ 2 :> b @@ 3 :> c, publications |-> "p" :> p @@ "q" :> q, others |-> w]
New(y) == Publication("hour", y, 2)

MCStarts ==
  {Start(Create(Teach("x", "plan", 2)), Copy, Copy, New(2), Idle, {"people"}),
   Start(Create(Teach("x", "plan", 2)), Copy, Create(Teach("x", "fact", 2)), Idle, Idle, {"agreements"}),
   Start(File, File, Create(Teach("y", "fact", 2)), New(2), Idle, {"people"}),
   Start(Create(Decide(1)), Request("update", 1, <<Decide(2)>>), Request("update", 1, <<Decide(3)>>), Idle, Idle, {"agreements"}),
   Start(Create(Guide("plan")), Create(Guide("plan")), Copy, Idle, Idle, {"people"}),
   Start(Create(Teach("x", "fact", 2)), Pay, Actual, New(2), Idle, {"people"}),
   Start(Create(Teach("x", "fact", 2)), Actual, Actual, New(2), New(3), {}),
   Start(Create(Teach("x", "fact", 2)), Create(Teach("y", "fact", 2)), Request("update", 1, <<Teach("y", "fact", 2)>>),
         Idle, Idle, {"payouts"}),
   Start(Create(Teach("x", "fact", 1)), Pay, Pay, New(3), New(2), {}),
   Start(Create(Club), Request("import", 0, <<Guide("fact")>>), Request("update", 1, <<[Club EXCEPT !.units = 2]>>),
         Idle, Idle, {"agreements", "authority"})}
=============================================================================
