------------------------------ MODULE Tariffs ------------------------------
(***************************************************************************)
(* The rates of the Methodology (backend/internal/tariffs, handlers/       *)
(* tariffs.go, migrations/0107).  A rate has versions with periods; a      *)
(* version is never rewritten, only closed by the next one.  Publishing is *)
(* one transaction at READ COMMITTED with three statements whose snapshots *)
(* differ: it reads the latest start, its UPDATE sees the open versions,   *)
(* and the trigger of its INSERT looks for overlaps under an advisory lock.*)
(* The UPDATE waits for a transaction that has closed the same row and     *)
(* then tests again only the rows it had seen.  From the UPDATE to COMMIT  *)
(* the row lock keeps every other publication of the rate out, so they are *)
(* one action here.                                                        *)
(***************************************************************************)
EXTENDS Integers, Sequences, FiniteSets

CONSTANTS Rates,        \* codes of rates
          Years,        \* report years, without a gap; every version starts on
                        \* a 1 January
          Prices, Seed, \* amounts a version may have; that of the delivery
          Publishers    \* requests that publish a version, one each

ASSUME TariffsAssumption ==
  /\ Years \subseteq Int
  /\ \E first, last \in Years : Years = first .. last
  /\ Prices \subseteq Nat \ {0} /\ Seed \in Prices

VARIABLES versions,     \* rate -> its versions in the order of their ids
          publish       \* publisher -> its transaction

tariffVars == <<versions, publish>>

First == CHOOSE y \in Years : \A z \in Years : y <= z
Forever == 1 + CHOOSE y \in Years : \A z \in Years : z <= y

Version == [from : Years, until : Years \cup {Forever}, price : Prices]

Transaction ==
  [at : {"new", "read", "seen", "done"}, rate : Rates, from : Years,
   price : Prices, open : SUBSET Nat]

(* A version is in force for a report year when it is on its 1 January.    *)
InForce(r, y) ==
  {i \in DOMAIN versions[r] : versions[r][i].from <= y /\ y <= versions[r][i].until}

(* The version the card of a year takes: of those in force the latest.     *)
Effective(r, y) ==
  CHOOSE i \in InForce(r, y) :
    \A j \in InForce(r, y) : versions[r][j].from <= versions[r][i].from

(* A card without a rate is an error, never a zero.                        *)
CardIsWhole(y) == \A r \in Rates : InForce(r, y) # {}

Latest(r) ==
  CHOOSE y \in {versions[r][i].from : i \in DOMAIN versions[r]} :
    \A i \in DOMAIN versions[r] : versions[r][i].from <= y

OverlapsUnchecked(list, v) == FALSE

(* daterange && daterange, both ends included.                             *)
Overlaps(list, v) ==
  \E i \in DOMAIN list : list[i].from <= v.until /\ v.from <= list[i].until

Idle == [at |-> "done", rate |-> CHOOSE r \in Rates : TRUE, from |-> First, price |-> Seed, open |-> {}]
Publication(r, y, m) == [at |-> "new", rate |-> r, from |-> y, price |-> m, open |-> {}]

TariffsInit(asked) ==
  /\ versions = [r \in Rates |-> <<[from |-> First, until |-> Forever, price |-> Seed]>>]
  /\ publish = asked

(* The check against the latest start, read before anything is locked.     *)
PublishRead(p) ==
  /\ publish[p].at = "new"
  /\ publish' = [publish EXCEPT ![p].at =
       IF publish[p].from > Latest(publish[p].rate) THEN "read" ELSE "done"]
  /\ UNCHANGED versions

(* The UPDATE begins: it sees the versions that are open now.              *)
PublishSee(p) ==
  /\ publish[p].at = "read"
  /\ LET r == publish[p].rate
     IN  publish' = [publish EXCEPT
           ![p].at = "seen",
           ![p].open = {i \in DOMAIN versions[r] : versions[r][i].until = Forever}]
  /\ UNCHANGED versions

(* Of the rows it saw the UPDATE closes those that are open still; a       *)
(* period that would end before it begins or an overlap undoes everything. *)
PublishWrite(p) ==
  /\ publish[p].at = "seen"
  /\ LET t      == publish[p]
         old    == versions[t.rate]
         Closes(i) == i \in t.open /\ old[i].until = Forever
         closed == [i \in DOMAIN old |->
                      IF Closes(i) THEN [old[i] EXCEPT !.until = t.from - 1] ELSE old[i]]
         new    == [from |-> t.from, until |-> Forever, price |-> t.price]
     IN  versions' = IF (\E i \in DOMAIN old : Closes(i) /\ closed[i].until < closed[i].from)
                        \/ Overlaps(closed, new)
                     THEN versions
                     ELSE [versions EXCEPT ![t.rate] = Append(closed, new)]
  /\ publish' = [publish EXCEPT ![p].at = "done", ![p].open = {}]

TariffsNext == \E p \in Publishers : PublishRead(p) \/ PublishSee(p) \/ PublishWrite(p)
=============================================================================
