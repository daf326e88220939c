----------------------------- MODULE MCAnalytics -----------------------------
EXTENDS Forms, TLC

Card(partner, category, audience, period, semester) ==
    [partner |-> partner, category |-> category, audience |-> audience, year |-> 1,
     period |-> period, semester |-> semester, units |-> 1]

MCCardOf == "a" :> Card("u", "internship", "vuz", "fact", 1) @@ "b" :> Card("u", "top_it", "vuz", "fact", 0)
         @@ "c" :> Card("t", "internship", "kolledj", "plan", 2)
         @@ "d" :> Card("v", "internship", "vuz", "fact", 3)
MCProgramOf == [i \in Ids |-> "web"]
MCMentorOf == "a" :> "ivanov" @@ "b" :> "" @@ "c" :> "" @@ "d" :> "ivanov"
MCRankOf == "" :> 0 @@ "internship" :> 1 @@ "ivanov" :> 2 @@ "t" :> 3 @@ "top_it" :> 4 @@ "u" :> 5 @@ "v" :> 6
         @@ "web" :> 7
MCEntryOf == "contract" :> "a" @@ "letter" :> "b"
MCTypeOf == "contract" :> "internship_agreement" @@ "letter" :> "ano_letter"
MCMatrix == "internship" :> {[options |-> {{"internship_agreement"}}, blocking |-> TRUE]}
         @@ "top_it" :> {[options |-> {{"ano_letter"}}, blocking |-> FALSE]}

Row(amount) == [at |-> "kept", amount |-> amount, card |-> TRUE, refs |-> FALSE]
Doc(status, details) == [at |-> "kept", status |-> status, details |-> details, verified |-> FALSE, sum |-> TRUE]
Accepted == [status |-> "approved", conditions |-> TRUE]
Stock(es, ds, r, who, n) ==
    [entries |-> [i \in Ids |-> IF i \in DOMAIN es THEN es[i] ELSE NoEntry],
     docs |-> [d \in Docs |-> IF d \in DOMAIN ds THEN ds[d] ELSE NoDoc],
     report |-> [p \in Periods |-> IF p = <<1, "fact">> THEN r ELSE Draft],
     items |-> [k \in Items |-> IF "letter" \in DOMAIN ds /\ "b" \in DOMAIN es
                              THEN [at |-> "kept", kind |-> "case", entry |-> "b", docs |-> {"letter"}] ELSE NoItem],
     busy |-> who, writes |-> n]

MCSlices ==
    {NoSlice, [NoSlice EXCEPT !.light = "green"], [NoSlice EXCEPT !.term = "autumn"],
     [NoSlice EXCEPT !.category = "top_it"]}

(* A year with everything in order under the workers of the cache; a year  *)
(* half filled under the requests to seal; a document signed and reviewed. *)
(* The first two have one change of the source left, the last has two.     *)
Ready == "a" :> Row(2) @@ "b" :> Row(2) @@ "c" :> Row(2)
Papers == "contract" :> Doc("approved", 0) @@ "letter" :> Doc("approved", 1)
MCStarts ==
    {Stock(Ready, Papers, Accepted, {"v", "w"}, 1),
     Stock("a" :> Row(2) @@ "b" :> Row(2), "contract" :> Doc("approved", 0), Accepted, {"p", "q"}, 1),
     Stock("a" :> Row(2), "contract" :> Doc("pending", 1), Draft, {"r"}, 0)}
=============================================================================
