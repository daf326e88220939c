------------------------ MODULE MCRegulatoryProcess ------------------------
(* Small instances of RegulatoryProcess.  Windows last one calendar day after
   the day of receipt; a day is one or two ticks, and a request that reads the
   clock before the last tick may be served after it. *)
EXTENDS RegulatoryProcess, TLC

MCKinds == {"agreement", "preliminary"}
MCKindOf == [p \in Procs |-> "preliminary"]
MCKindOfAgreement == [p \in Procs |-> "agreement"]
MCChains == [k \in MCKinds |-> [review |-> 1, rework |-> 1, rereview |-> 1]]
MCMilestones == "agreement" :> [has |-> FALSE, cutoff |-> 0, sendDue |-> 0]
             @@ "preliminary" :> [has |-> TRUE, cutoff |-> 1, sendDue |-> 1]
MCAccess == "it" :> [author |-> TRUE, reviewer |-> FALSE, onBehalf |-> TRUE]
         @@ "edu" :> [author |-> FALSE, reviewer |-> TRUE, onBehalf |-> FALSE]
MCSymmetry == Permutations(Requests)
=============================================================================
