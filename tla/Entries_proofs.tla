--------------------------- MODULE Entries_proofs ---------------------------
(***************************************************************************)
(* Proofs about Entries, for every number of years, rates, publications,   *)
(* agreements, requests and entries.                                       *)
(*                                                                         *)
(* The versions of a rate tile the report years.  TariffsTile is not       *)
(* inductive as it stands, since it says nothing of the shape of a version:*)
(* the invariant adds it, and says of each year that one version is in     *)
(* force and that no other is, which is what a publication keeps.          *)
(*                                                                         *)
(* Every amount is explained.  The versions an entry or a request cites    *)
(* are never rewritten but for the end of their period; what an edit has   *)
(* read of its entry is still so when it writes, since it holds the row.   *)
(*                                                                         *)
(* Types and references: a person that is found is carried to the row that *)
(* cites him, and what an entry cites stays while others edit it.          *)
(***************************************************************************)
EXTENDS Entries, FiniteSetTheorems, TLAPS

(* A period starts in a report year; it may end a day before a year that   *)
(* is none.                                                                *)
Period == [from : Years, until : Int, price : Prices]

Covers(v, y) == v.from <= y /\ y <= v.until

OneCovers(list, y) ==
  \E i \in DOMAIN list : /\ Covers(list[i], y)
                         /\ \A j \in DOMAIN list : Covers(list[j], y) => j = i

VersionsAreLists == versions \in [Rates -> Seq(Period)]

PublicationsAreTyped == publish \in [Publishers -> Transaction]

EachYearOnce == \A r \in Rates : \A y \in Years : OneCovers(versions[r], y)

TilingInv == VersionsAreLists /\ PublicationsAreTyped /\ EachYearOnce

----------------------------------------------------------------------------

(* The first and the last report year bound the others.                    *)
LEMMA YearsAreBounded ==
  /\ First \in Years /\ \A y \in Years : First <= y
  /\ Forever \in Int /\ \A y \in Years : y < Forever
<1>1. PICK first \in Years, last \in Years : Years \subseteq first .. last
  BY TariffsAssumption DEF TariffsAssumption
<1>2. Years \subseteq Int
  BY TariffsAssumption DEF TariffsAssumption
<1>3. \A z \in Years : first <= z /\ z <= last
  BY <1>1, <1>2
<1>4. First \in Years /\ \A y \in Years : First <= y
  BY <1>1, <1>3 DEF First
<1>. DEFINE end == CHOOSE y \in Years : \A z \in Years : z <= y
<1>5. end \in Years /\ \A z \in Years : z <= end
  BY <1>1, <1>3
<1>6. Forever = 1 + end
  BY DEF Forever
<1>. HIDE DEF end
<1> QED
  BY <1>2, <1>4, <1>5, <1>6

(* One version in force means a set of one.                                *)
LEMMA OneIsInForce ==
  ASSUME NEW r \in Rates, NEW y \in Years, OneCovers(versions[r], y)
  PROVE  Cardinality(InForce(r, y)) = 1
<1>1. PICK i \in DOMAIN versions[r] :
        /\ Covers(versions[r][i], y)
        /\ \A j \in DOMAIN versions[r] : Covers(versions[r][j], y) => j = i
  BY DEF OneCovers
<1>2. InForce(r, y) = {i}
  BY <1>1 DEF InForce, Covers
<1> QED
  BY <1>2, FS_Singleton

----------------------------------------------------------------------------

(* A list of periods that leaves nothing open at or after the start of a   *)
(* new version tiles the years with it.                                    *)
LEMMA NewVersionTiles ==
  ASSUME NEW old \in Seq(Period), NEW closed \in Seq(Period), NEW from \in Years, NEW price \in Prices,
         Len(closed) = Len(old),
         \A i \in 1 .. Len(old) : /\ closed[i].from = old[i].from
                                  /\ closed[i].until = old[i].until \/ closed[i].until = from - 1
                                  /\ closed[i].until <= old[i].until,
         ~Overlaps(closed, [from |-> from, until |-> Forever, price |-> price]),
         \A y \in Years : OneCovers(old, y)
  PROVE  \A y \in Years : OneCovers(Append(closed, [from |-> from, until |-> Forever, price |-> price]), y)
<1>. DEFINE new  == [from |-> from, until |-> Forever, price |-> price]
            list == Append(closed, new)
            n    == Len(old)
<1>1. /\ n \in Nat /\ DOMAIN old = 1 .. n /\ DOMAIN closed = 1 .. n
      /\ \A i \in 1 .. n : old[i] \in Period /\ closed[i] \in Period
  OBVIOUS
<1>2. Years \subseteq Int /\ Forever \in Int /\ \A y \in Years : y < Forever
  BY YearsAreBounded, TariffsAssumption DEF TariffsAssumption
<1>3. new \in Period
  BY <1>2 DEF Period, TariffsAssumption
<1>4. /\ DOMAIN list = 1 .. n + 1 /\ list[n + 1] = new
      /\ \A i \in 1 .. n : list[i] = closed[i]
  BY <1>1, <1>3
<1>5. \A i \in 1 .. n : closed[i].until < from
  <2>1. SUFFICES ASSUME NEW i \in 1 .. n PROVE closed[i].until < from
    OBVIOUS
  <2>2. closed[i].from \in Years /\ closed[i].until \in Int
    BY <1>1, <2>1 DEF Period
  <2>3. closed[i].from <= Forever
    BY <1>2, <2>2
  <2>4. ~(closed[i].from <= new.until /\ new.from <= closed[i].until)
    BY <1>1, <2>1 DEF Overlaps
  <2> QED
    BY <1>2, <2>2, <2>3, <2>4
<1>6. SUFFICES ASSUME NEW y \in Years PROVE OneCovers(list, y)
  OBVIOUS
<1>. HIDE DEF list, new
<1>7. CASE y < from
  <2>1. PICK i \in 1 .. n : Covers(old[i], y) /\ \A j \in 1 .. n : Covers(old[j], y) => j = i
    BY <1>1, <1>6 DEF OneCovers
  <2>2. Covers(list[i], y)
    <3>1. closed[i].from = old[i].from /\ (closed[i].until = old[i].until \/ closed[i].until = from - 1)
      BY <2>1
    <3>2. old[i].from <= y /\ y <= old[i].until
      BY <2>1 DEF Covers
    <3>3. y <= from - 1
      BY <1>2, <1>6, <1>7
    <3> QED
      BY <1>4, <2>1, <3>1, <3>2, <3>3 DEF Covers
  <2>3. ASSUME NEW j \in 1 .. n + 1, Covers(list[j], y) PROVE j = i
    <3>1. CASE j = n + 1
      <4>1. list[j].from = from
        BY <3>1, <1>4 DEF new
      <4> QED
        BY <4>1, <1>2, <1>6, <1>7, <2>3 DEF Covers
    <3>2. CASE j \in 1 .. n
      <4>1. closed[j].from <= y /\ y <= closed[j].until
        BY <3>2, <1>4, <2>3 DEF Covers
      <4>2. closed[j].from = old[j].from /\ closed[j].until <= old[j].until
        BY <3>2
      <4>3. closed[j].until \in Int /\ old[j].until \in Int
        BY <3>2, <1>1 DEF Period
      <4>4. old[j].from <= y /\ y <= old[j].until
        BY <4>1, <4>2, <4>3, <1>2, <1>6
      <4> QED
        BY <4>4, <2>1, <3>2 DEF Covers
    <3>3. n \in Nat
      OBVIOUS
    <3>. HIDE DEF n
    <3>4. j = n + 1 \/ j \in 1 .. n
      BY <3>3, <2>3
    <3> QED
      BY <3>1, <3>2, <3>4
  <2>4. i \in 1 .. n + 1
    BY <1>1, <2>1
  <2> QED
    BY <1>4, <2>2, <2>3, <2>4 DEF OneCovers
<1>8. CASE ~(y < from)
  <2>1. Covers(list[n + 1], y)
    BY <1>2, <1>4, <1>6, <1>8 DEF Covers, new
  <2>2. ASSUME NEW j \in 1 .. n + 1, Covers(list[j], y) PROVE j = n + 1
    <3>1. CASE j \in 1 .. n
      <4>1. y <= closed[j].until
        BY <3>1, <1>4, <2>2 DEF Covers
      <4>2. closed[j].until < from /\ closed[j].until \in Int
        BY <3>1, <1>1, <1>5 DEF Period
      <4> QED
        BY <4>1, <4>2, <1>2, <1>6, <1>8
    <3> QED
      BY <3>1, <1>1, <2>2
  <2>3. n + 1 \in 1 .. n + 1
    BY <1>1
  <2> QED
    BY <1>4, <2>1, <2>2, <2>3 DEF OneCovers
<1> QED
  BY <1>7, <1>8 DEF list, new

(* The delivery brings one version for all years.                          *)
LEMMA DeliveryTiles == EntriesInit => TilingInv
<1>. SUFFICES ASSUME EntriesInit PROVE TilingInv
  OBVIOUS
<1>1. PICK start \in Starts : TariffsInit(start.publications)
  BY DEF EntriesInit
<1>. DEFINE seed == [from |-> First, until |-> Forever, price |-> Seed]
<1>2. seed \in Period
  BY YearsAreBounded, TariffsAssumption DEF Period, TariffsAssumption
<1>3. versions = [r \in Rates |-> <<seed>>]
  BY <1>1 DEF TariffsInit
<1>. HIDE DEF seed
<1>4. VersionsAreLists
  BY <1>2, <1>3 DEF VersionsAreLists
<1>5. PublicationsAreTyped
  BY <1>1, EntriesAssumption DEF EntriesAssumption, TariffsInit, PublicationsAreTyped
<1>6. EachYearOnce
  <2>1. SUFFICES ASSUME NEW r \in Rates, NEW y \in Years PROVE OneCovers(versions[r], y)
    BY DEF EachYearOnce
  <2>2. versions[r] = <<seed>>
    BY <1>3, <2>1
  <2>3. DOMAIN versions[r] = {1} /\ versions[r][1] = seed
    BY <2>2
  <2>4. Covers(seed, y)
    BY YearsAreBounded, TariffsAssumption DEF Covers, seed, TariffsAssumption
  <2> QED
    BY <2>3, <2>4 DEF OneCovers
<1> QED
  BY <1>4, <1>5, <1>6 DEF TilingInv

(* The read and the beginning of the UPDATE move a publication only.       *)
LEMMA ReadKeepsTiling ==
  ASSUME TilingInv, NEW p \in Publishers, PublishRead(p) \/ PublishSee(p)
  PROVE  TilingInv'
<1>1. UNCHANGED versions
  BY DEF PublishRead, PublishSee
<1>2. publish[p] \in Transaction
  BY DEF TilingInv, PublicationsAreTyped
<1>3. PublicationsAreTyped'
  <2>1. CASE PublishRead(p)
    BY <2>1, <1>2 DEF TilingInv, PublicationsAreTyped, PublishRead, Transaction
  <2>2. CASE PublishSee(p)
    <3>. DEFINE r == publish[p].rate
                seen == {i \in DOMAIN versions[r] : versions[r][i].until = Forever}
    <3>1. versions[r] \in Seq(Period)
      BY <1>2 DEF TilingInv, VersionsAreLists, Transaction
    <3>2. seen \in SUBSET Nat
      BY <3>1
    <3>3. publish' = [publish EXCEPT ![p].at = "seen", ![p].open = seen]
      BY <2>2 DEF PublishSee
    <3>. HIDE DEF seen
    <3> QED
      BY <3>2, <3>3, <1>2 DEF TilingInv, PublicationsAreTyped, Transaction
  <2> QED
    BY <2>1, <2>2
<1> QED
  BY <1>1, <1>3 DEF TilingInv, VersionsAreLists, EachYearOnce

(* The transaction that closes and inserts keeps the tiling, or undoes     *)
(* itself.                                                                 *)
LEMMA WriteKeepsTiling ==
  ASSUME TilingInv, NEW p \in Publishers, PublishWrite(p)
  PROVE  TilingInv'
<1>. DEFINE t         == publish[p]
            old       == versions[t.rate]
            Closes(i) == i \in t.open /\ old[i].until = Forever
            closed    == [i \in DOMAIN old |->
                           IF Closes(i) THEN [old[i] EXCEPT !.until = t.from - 1] ELSE old[i]]
            new       == [from |-> t.from, until |-> Forever, price |-> t.price]
<1>1. t \in Transaction /\ t.rate \in Rates /\ t.from \in Years /\ t.price \in Prices
  BY DEF TilingInv, PublicationsAreTyped, Transaction
<1>2. old \in Seq(Period)
  BY <1>1 DEF TilingInv, VersionsAreLists
<1>3. Years \subseteq Int /\ Forever \in Int /\ \A y \in Years : y < Forever
  BY YearsAreBounded, TariffsAssumption DEF TariffsAssumption
<1>. HIDE DEF t, old
<1>4. t.from - 1 \in Int /\ t.from - 1 <= Forever
  <2>1. t.from \in Int /\ Forever \in Int /\ t.from < Forever
    BY <1>1, <1>3
  <2> QED
    BY <2>1
<1>5. PublicationsAreTyped'
  BY <1>1 DEF t, TilingInv, PublicationsAreTyped, PublishWrite, Transaction
<1>6. CASE versions' = versions
  BY <1>5, <1>6 DEF TilingInv, VersionsAreLists, EachYearOnce
<1>7. CASE ~Overlaps(closed, new) /\ versions' = [versions EXCEPT ![t.rate] = Append(closed, new)]
  <2>0. DOMAIN old = 1 .. Len(old) /\ Len(old) \in Nat /\ \A i \in 1 .. Len(old) : old[i] \in Period
    BY <1>2
  <2>1. \A i \in 1 .. Len(old) :
          /\ closed[i] \in Period
          /\ closed[i].from = old[i].from
          /\ closed[i].until = old[i].until \/ closed[i].until = t.from - 1
          /\ closed[i].until <= old[i].until
    <3>1. SUFFICES ASSUME NEW i \in 1 .. Len(old)
                   PROVE  /\ closed[i] \in Period
                          /\ closed[i].from = old[i].from
                          /\ closed[i].until = old[i].until \/ closed[i].until = t.from - 1
                          /\ closed[i].until <= old[i].until
      OBVIOUS
    <3>2. old[i] \in Period
      BY <2>0, <3>1
    <3>3. CASE Closes(i)
      <4>1. closed[i] = [old[i] EXCEPT !.until = t.from - 1]
        BY <3>3, <2>0
      <4>2. old[i].until = Forever /\ t.from - 1 \in Int /\ t.from - 1 <= Forever
        BY <3>3, <1>4
      <4>. HIDE DEF closed
      <4>3. [old[i] EXCEPT !.until = t.from - 1] \in Period
        BY <4>2, <3>2 DEF Period
      <4>4. closed[i].from = old[i].from /\ closed[i].until = t.from - 1
        BY <4>1, <3>2 DEF Period
      <4> QED
        BY <4>1, <4>2, <4>3, <4>4
    <3>4. CASE ~Closes(i)
      <4>1. closed[i] = old[i]
        BY <3>4, <2>0
      <4> QED
        BY <4>1, <3>2 DEF Period
    <3> QED
      BY <3>3, <3>4
  <2>2. closed = [i \in 1 .. Len(old) |-> closed[i]]
    BY <2>0
  <2>. HIDE DEF closed
  <2>3. closed \in Seq(Period) /\ Len(closed) = Len(old)
    <3>1. closed \in [1 .. Len(old) -> Period]
      BY <2>1, <2>2
    <3>2. Len(old) \in Nat
      BY <2>0
    <3> QED
      BY <3>1, <3>2
  <2>4. \A y \in Years : OneCovers(old, y)
    BY <1>1 DEF old, TilingInv, EachYearOnce
  <2>5. \A y \in Years : OneCovers(Append(closed, new), y)
    BY <2>1, <2>3, <2>4, <1>1, <1>2, <1>7, NewVersionTiles
  <2>6. new \in Period
    BY <1>1, <1>3 DEF Period
  <2>7. Append(closed, new) \in Seq(Period)
    BY <2>3, <2>6
  <2>. HIDE DEF new
  <2>8. VersionsAreLists'
    BY <1>1, <1>7, <2>7 DEF TilingInv, VersionsAreLists
  <2>9. EachYearOnce'
    BY <1>1, <1>7, <2>5 DEF TilingInv, VersionsAreLists, EachYearOnce
  <2> QED
    BY <1>5, <2>8, <2>9 DEF TilingInv
<1> QED
  BY <1>6, <1>7 DEF PublishWrite, t, old

(* Nothing but a publication touches the rates.                            *)
LEMMA TilingIsKept ==
  ASSUME TilingInv, [Next]_vars
  PROVE  TilingInv'
<1>1. CASE tariffVars' = tariffVars
  BY <1>1 DEF tariffVars, TilingInv, VersionsAreLists, PublicationsAreTyped, EachYearOnce
<1>2. CASE TariffsNext
  BY <1>2, ReadKeepsTiling, WriteKeepsTiling DEF TariffsNext
<1>3. CASE UNCHANGED vars
  BY <1>1, <1>3 DEF vars
<1>4. CASE \E q \in Requests : Serve(q)
  <2>1. PICK q \in Requests : Serve(q)
    BY <1>4
  <2>2. tariffVars' = tariffVars
    BY <2>1 DEF Serve, Check, Resolve, LoadCard, Insert, Lock, Write, ReadPlans, NextPlan, CopyEnds, worldVars
  <2> QED
    BY <1>1, <2>2
<1>5. CASE Publish
  BY <1>2, <1>5 DEF Publish
<1>6. CASE \E a \in AgreementIds : EditAgreement(a)
  BY <1>1, <1>6 DEF EditAgreement
<1>7. CASE EditAuthority \/ EditPeople \/ EditPayouts
  BY <1>1, <1>7 DEF EditAuthority, EditPeople, EditPayouts
<1> QED
  BY <1>3, <1>4, <1>5, <1>6, <1>7 DEF Next

(* Whatever publications run together, each year has one version of a rate *)
(* in force: the card of tariffs.Load is whole and has one reading, and no *)
(* amount can be computed from two prices.                                 *)
THEOREM OnePriceAYear == Spec => []TariffsTile
<1>1. EntriesInit => TilingInv
  BY DeliveryTiles
<1>2. TilingInv /\ [Next]_vars => TilingInv'
  BY TilingIsKept
<1>3. TilingInv => TariffsTile
  BY OneIsInForce DEF TilingInv, EachYearOnce, TariffsTile
<1> QED
  BY <1>1, <1>2, <1>3, PTL DEF Spec

----------------------------------------------------------------------------
(* Lists, whatever their elements are.                                     *)

IsList(s) == Len(s) \in Nat /\ s = [i \in 1 .. Len(s) |-> s[i]]

LEMMA ListsAreSequences ==
  ASSUME NEW s, IsList(s), NEW S, \A i \in 1 .. Len(s) : s[i] \in S
  PROVE  s \in Seq(S)
<1>1. [i \in 1 .. Len(s) |-> s[i]] \in [1 .. Len(s) -> S]
  OBVIOUS
<1>2. s \in [1 .. Len(s) -> S]
  BY <1>1 DEF IsList
<1> QED
  BY <1>2 DEF IsList

LEMMA SequencesAreLists ==
  ASSUME NEW S, NEW s \in Seq(S)
  PROVE  IsList(s) /\ DOMAIN s = 1 .. Len(s)
BY DEF IsList

LEMMA Appended ==
  ASSUME NEW s, IsList(s), NEW x
  PROVE  /\ IsList(Append(s, x)) /\ Len(Append(s, x)) = Len(s) + 1
         /\ DOMAIN Append(s, x) = 1 .. Len(s) + 1
         /\ Append(s, x)[Len(s) + 1] = x
         /\ \A i \in 1 .. Len(s) : Append(s, x)[i] = s[i]
<1>. DEFINE S == {s[i] : i \in 1 .. Len(s)} \cup {x}
<1>1. \A i \in 1 .. Len(s) : s[i] \in S
  OBVIOUS
<1>2. x \in S
  OBVIOUS
<1>. HIDE DEF S
<1>3. s \in Seq(S)
  BY <1>1, ListsAreSequences
<1>4. Append(s, x) \in Seq(S)
  BY <1>2, <1>3
<1>5. IsList(Append(s, x))
  BY <1>4, SequencesAreLists
<1> QED
  BY <1>2, <1>3, <1>5

LEMMA Joined ==
  ASSUME NEW s, NEW t, IsList(s), IsList(t)
  PROVE  /\ IsList(s \o t) /\ Len(s \o t) = Len(s) + Len(t)
         /\ DOMAIN (s \o t) = 1 .. Len(s) + Len(t)
         /\ \A i \in 1 .. Len(s) : (s \o t)[i] = s[i]
         /\ \A i \in 1 .. Len(t) : (s \o t)[Len(s) + i] = t[i]
<1>. DEFINE S == {s[i] : i \in 1 .. Len(s)} \cup {t[i] : i \in 1 .. Len(t)}
<1>1. /\ \A i \in 1 .. Len(s) : s[i] \in S
      /\ \A i \in 1 .. Len(t) : t[i] \in S
  OBVIOUS
<1>. HIDE DEF S
<1>2. s \in Seq(S) /\ t \in Seq(S)
  BY <1>1, ListsAreSequences
<1>3. s \o t \in Seq(S)
  BY <1>2
<1>4. IsList(s \o t)
  BY <1>3, SequencesAreLists
<1>5. \A i \in 1 .. Len(t) : (s \o t)[Len(s) + i] = t[i]
  BY <1>2
<1> QED
  BY <1>2, <1>4, <1>5

----------------------------------------------------------------------------
(* Agreements.                                                             *)

HistoriesAreLists ==
  /\ DOMAIN revisions = AgreementIds /\ DOMAIN agreements \subseteq AgreementIds
  /\ \A a \in AgreementIds : IsList(revisions[a])

HistoryBegins == \A a \in AgreementIds \ DOMAIN agreements : revisions[a] = <<>>

HistoryInv == HistoriesAreLists /\ HistoryBegins /\ AgreementHistory

(* A write and the revision its deferred triggers keep at COMMIT.          *)
LEMMA PutKeepsHistory ==
  ASSUME HistoryInv, NEW a \in AgreementIds, NEW row, Put(a, row),
         a \in DOMAIN agreements \/ revisions[a] = <<>>
  PROVE  HistoryInv'
<1>1. /\ DOMAIN agreements' = DOMAIN agreements \cup {a} /\ agreements'[a] = row
      /\ \A b \in DOMAIN agreements : b # a => agreements'[b] = agreements[b]
  BY DEF Put
<1>2. IsList(revisions[a])
  BY DEF HistoryInv, HistoriesAreLists
<1>3. revisions[a] # <<>> => Len(revisions[a]) \in Nat \ {0}
  BY <1>2 DEF IsList
<1>4. /\ DOMAIN revisions' = AgreementIds
      /\ \A b \in AgreementIds : b # a => revisions'[b] = revisions[b]
  BY DEF Put, Recorded, HistoryInv, HistoriesAreLists
<1>5. /\ IsList(revisions'[a]) /\ revisions'[a] # <<>>
      /\ revisions'[a][Len(revisions'[a])] = row
      /\ \A k \in 2 .. Len(revisions'[a]) : revisions'[a][k] # revisions'[a][k - 1]
  <2>. DEFINE h == revisions[a]
              n == Len(h)
  <2>1. IsList(h) /\ n \in Nat
    BY <1>2 DEF IsList
  <2>2. h # <<>> => \A k \in 2 .. n : h[k] # h[k - 1]
    BY DEF HistoryInv, AgreementHistory
  <2>3. CASE h # <<>> /\ h[n] = row
    BY <2>1, <2>2, <2>3, <1>3 DEF Put, Recorded
  <2>4. CASE ~(h # <<>> /\ h[n] = row)
    <3>1. revisions'[a] = Append(h, row)
      BY <2>4 DEF Put, Recorded, HistoryInv, HistoriesAreLists
    <3>. DEFINE l == Append(h, row)
    <3>2. /\ IsList(l) /\ Len(l) = n + 1 /\ l[n + 1] = row
          /\ \A i \in 1 .. n : l[i] = h[i]
      BY <2>1, Appended
    <3>3. h = <<>> => n = 0
      OBVIOUS
    <3>. HIDE DEF l, n
    <3>4. ASSUME NEW k \in 2 .. n + 1 PROVE l[k] # l[k - 1]
      <4>1. CASE k \in 2 .. n
        <5>1. h # <<>>
          BY <4>1, <3>3, <2>1
        <5>2. l[k] = h[k] /\ l[k - 1] = h[k - 1]
          BY <4>1, <3>2, <2>1
        <5> QED
          BY <5>1, <5>2, <4>1, <2>2
      <4>2. CASE k = n + 1
        <5>1. n \in 1 .. n /\ h # <<>>
          BY <4>2, <3>3, <2>1, <3>4
        <5>2. l[k - 1] = h[n] /\ l[k] = row
          BY <5>1, <4>2, <3>2, <2>1
        <5> QED
          BY <5>1, <5>2, <2>4
      <4> QED
        BY <4>1, <4>2, <3>4, <2>1
    <3>5. l # <<>>
      BY <3>2, <2>1
    <3> QED
      BY <3>1, <3>2, <3>4, <3>5 DEF l
  <2> QED
    BY <2>3, <2>4
<1>6. HistoriesAreLists'
  BY <1>1, <1>4, <1>5 DEF HistoryInv, HistoriesAreLists
<1>7. HistoryBegins'
  BY <1>1, <1>4 DEF HistoryInv, HistoryBegins
<1>8. AgreementHistory'
  <2>1. SUFFICES ASSUME NEW b \in DOMAIN agreements'
                 PROVE  /\ revisions'[b] # <<>> /\ revisions'[b][Len(revisions'[b])] = agreements'[b]
                        /\ \A k \in 2 .. Len(revisions'[b]) : revisions'[b][k] # revisions'[b][k - 1]
    BY DEF AgreementHistory
  <2>2. CASE b = a
    BY <2>2, <1>1, <1>5
  <2>3. CASE b # a
    <3>1. b \in DOMAIN agreements /\ b \in AgreementIds
      BY <2>1, <2>3, <1>1 DEF HistoryInv, HistoriesAreLists
    <3>2. revisions'[b] = revisions[b] /\ agreements'[b] = agreements[b]
      BY <3>1, <2>3, <1>1, <1>4
    <3> QED
      BY <3>1, <3>2 DEF HistoryInv, AgreementHistory
  <2> QED
    BY <2>2, <2>3
<1> QED
  BY <1>6, <1>7, <1>8 DEF HistoryInv

LEMMA HistoryInitially == EntriesInit => HistoryInv
<1>. SUFFICES ASSUME EntriesInit PROVE HistoryInv
  OBVIOUS
<1>1. /\ agreements = [a \in DOMAIN Founding |-> Written(Founding[a], Nobody)]
      /\ revisions = [a \in AgreementIds |-> IF a \in DOMAIN Founding THEN <<agreements[a]>> ELSE <<>>]
  BY DEF EntriesInit
<1>2. DOMAIN Founding \subseteq AgreementIds
  BY EntriesAssumption DEF EntriesAssumption
<1>3. HistoriesAreLists
  BY <1>1, <1>2 DEF HistoriesAreLists, IsList
<1>4. HistoryBegins
  BY <1>1 DEF HistoryBegins
<1>5. AgreementHistory
  <2>1. SUFFICES ASSUME NEW a \in DOMAIN agreements
                 PROVE  /\ revisions[a] # <<>> /\ revisions[a][Len(revisions[a])] = agreements[a]
                        /\ \A k \in 2 .. Len(revisions[a]) : revisions[a][k] # revisions[a][k - 1]
    BY DEF AgreementHistory
  <2>2. revisions[a] = <<agreements[a]>>
    BY <2>1, <1>1, <1>2
  <2> QED
    BY <2>2
<1> QED
  BY <1>3, <1>4, <1>5 DEF HistoryInv

LEMMA HistoryIsKept ==
  ASSUME HistoryInv, [Next]_vars
  PROVE  HistoryInv'
<1>1. CASE UNCHANGED <<agreements, revisions>>
  BY <1>1 DEF HistoryInv, HistoriesAreLists, HistoryBegins, AgreementHistory, IsList
<1>2. CASE UNCHANGED vars
  BY <1>1, <1>2 DEF vars, agreementVars
<1>3. CASE \E q \in Requests : Serve(q)
  <2>1. PICK q \in Requests : Serve(q)
    BY <1>3
  <2>2. UNCHANGED worldVars
    BY <2>1 DEF Serve, Check, Resolve, LoadCard, Insert, Lock, Write, ReadPlans, NextPlan, CopyEnds, worldVars
  <2> QED
    BY <1>1, <2>2 DEF worldVars, agreementVars
<1>4. CASE \E a \in AgreementIds : EditAgreement(a)
  <2>1. PICK a \in AgreementIds : EditAgreement(a)
    BY <1>4
  <2>2. \/ \E e \in Edits : CreateAgreement(a, e) \/ UpdateAgreement(a, e, Pairs(a))
        \/ \E c \in Curators \cup {Nobody} : SetCurator(a, c)
    BY <2>1 DEF EditAgreement
  <2>3. ASSUME NEW e \in Edits, CreateAgreement(a, e) PROVE HistoryInv'
    BY <2>3, PutKeepsHistory DEF CreateAgreement, HistoryInv, HistoryBegins
  <2>4. ASSUME NEW e \in Edits, UpdateAgreement(a, e, Pairs(a)) PROVE HistoryInv'
    BY <2>4, PutKeepsHistory DEF UpdateAgreement
  <2>5. ASSUME NEW c \in Curators \cup {Nobody}, SetCurator(a, c) PROVE HistoryInv'
    BY <2>5, PutKeepsHistory DEF SetCurator
  <2> QED
    BY <2>2, <2>3, <2>4, <2>5
<1>5. CASE Publish \/ EditAuthority \/ EditPeople \/ EditPayouts
  BY <1>1, <1>5 DEF Publish, EditAuthority, ChangeAuthority, EditPeople, EditPayouts, agreementVars
<1> QED
  BY <1>2, <1>3, <1>4, <1>5 DEF Next

(* Whoever writes an agreement, an edit or the choice of a curator, its    *)
(* revisions end with the row and none repeats the one before              *)
(* (agreement_history.go and its deferred triggers).                       *)
THEOREM RevisionsFollowAgreements == Spec => []AgreementHistory
<1>1. HistoryInv => AgreementHistory
  BY DEF HistoryInv
<1> QED
  BY <1>1, HistoryInitially, HistoryIsKept, PTL DEF Spec

----------------------------------------------------------------------------
(* Amounts.  The invariant says what a request may carry from its reads to *)
(* its transaction.                                                        *)

ReqFields == {"at", "rows", "todo", "snap", "cites", "card", "target", "was"}

CardHolds(card) == \A r \in Rates : card[r] \in DOMAIN versions[r]

EditsAnEntry(q) == asked[q].kind \in {"update", "finance"}

KnowsItsEntry(r) ==
  /\ r.target \in DOMAIN entries
  /\ r.was = entries[r.target].amount
  /\ r.rows[1].category = entries[r.target].category

(* What is true of a request q that has come as far as r.                  *)
Sound(q, r) ==
  /\ DOMAIN r = ReqFields
  /\ r.rows \in Seq(Draft) \ {<<>>}
  /\ \A p \in r.todo : p.id \in Nat /\ Form(p.row) \in Draft
  /\ r.at \in {"priced", "ready"} =>
       CardHolds(r.card) /\ \A i \in DOMAIN r.rows : AmountIsValid(r.rows[i])
  /\ r.at \in {"copying", "item"} => asked[q].kind = "copy"
  /\ EditsAnEntry(q) => r.at \in {"new", "done"} \/ r.target # 0
  /\ ~EditsAnEntry(q) => r.target = 0
  /\ r.target # 0 => KnowsItsEntry(r)

RequestsAreSound ==
  /\ asked \in [Requests -> Ask]
  /\ DOMAIN req = Requests /\ \A q \in Requests : Sound(q, req[q])

OneHolder ==
  \A q, p \in Requests : req[q].target # 0 /\ req[q].target = req[p].target => q = p

(* An entry is a form with its amount.                                     *)
Explained(e) ==
  /\ Form(e) \in Draft
  /\ ~Minc(e.category) => e.basis \in DOMAIN versions[RateOf[e.category]]
  /\ e.formula = IF Minc(e.category) THEN e.units
                 ELSE e.units * versions[RateOf[e.category]][e.basis].price
  /\ e.amount = IF e.method = "actual" THEN e.actual ELSE e.formula
  /\ e.method = "actual" => e.period = "fact" /\ e.actual > 0

CostChain(h, amount) ==
  /\ h # <<>> /\ h[Len(h)].now = amount
  /\ \A k \in 2 .. Len(h) : h[k].before = h[k - 1].now /\ h[k].now # h[k].before

EntriesAreExplained ==
  /\ IsList(entries) /\ IsList(costs) /\ Len(costs) = Len(entries)
  /\ \A i \in 1 .. Len(entries) :
       /\ Explained(entries[i]) /\ IsList(costs[i])
       /\ Minc(entries[i].category) => CostChain(costs[i], entries[i].amount)

AmountInv == TilingInv /\ RequestsAreSound /\ OneHolder /\ EntriesAreExplained

(* The version a card takes exists.                                        *)
LEMMA EffectiveIsThere ==
  ASSUME TilingInv, NEW r \in Rates, NEW y \in Years
  PROVE  Effective(r, y) \in DOMAIN versions[r]
<1>1. PICK i \in DOMAIN versions[r] :
        /\ Covers(versions[r][i], y)
        /\ \A j \in DOMAIN versions[r] : Covers(versions[r][j], y) => j = i
  BY DEF TilingInv, EachYearOnce, OneCovers
<1>2. InForce(r, y) = {i}
  BY <1>1 DEF InForce, Covers
<1>3. versions[r][i].from <= versions[r][i].from
  <2>1. versions[r] \in Seq(Period)
    BY DEF TilingInv, VersionsAreLists
  <2>2. versions[r][i] \in Period
    BY <2>1, <1>1
  <2>3. versions[r][i].from \in Int
    BY <2>2, TariffsAssumption DEF Period, TariffsAssumption
  <2> QED
    BY <2>3
<1>4. \E k \in InForce(r, y) : \A j \in InForce(r, y) : versions[r][j].from <= versions[r][k].from
  BY <1>2, <1>3
<1>5. Effective(r, y) \in InForce(r, y)
  BY <1>4 DEF Effective
<1> QED
  BY <1>1, <1>2, <1>5

LEMMA RateIsThere ==
  ASSUME NEW c \in Categories, ~Minc(c)
  PROVE  RateOf[c] \in Rates
BY EntriesAssumption DEF EntriesAssumption, Minc

(* Every form has a category, a year and a method.                         *)
LEMMA FormOfDraft ==
  ASSUME NEW d \in Draft
  PROVE  /\ Form(d) = d /\ d.category \in Categories /\ d.year \in Years
         /\ d.method \in {"average", "actual"}
BY DEF Form, Draft

(* The row of a valid form is explained by the card it was given.          *)
LEMMA RowIsExplained ==
  ASSUME NEW d \in Draft, AmountIsValid(d), NEW card, CardHolds(card), NEW cites, NEW snap
  PROVE  /\ Explained(Row(d, cites, snap, card))
         /\ Row(d, cites, snap, card).category = d.category
<1>. DEFINE e == Row(d, cites, snap, card)
<1>1. /\ e.category = d.category /\ e.units = d.units /\ e.method = d.method
      /\ e.actual = d.actual /\ e.period = d.period
      /\ e.formula = Formula(d, card) /\ e.amount = Amount(d, card)
      /\ e.basis = IF Minc(d.category) THEN 0 ELSE card[RateOf[d.category]]
  BY DEF Row, RowOn
<1>2. Form(e) = d
  BY FormOfDraft DEF Form, Row, RowOn
<1>3. d.category \in Categories /\ d.method \in {"average", "actual"}
  BY FormOfDraft
<1>4. ~Minc(d.category) => card[RateOf[d.category]] \in DOMAIN versions[RateOf[d.category]]
  BY <1>3, RateIsThere DEF CardHolds
<1>5. e.formula = IF Minc(e.category) THEN e.units
                  ELSE e.units * versions[RateOf[e.category]][e.basis].price
  BY <1>1 DEF Formula
<1>6. e.amount = IF e.method = "actual" THEN e.actual ELSE e.formula
  BY <1>1 DEF Amount
<1>7. e.method = "actual" => e.period = "fact" /\ e.actual > 0
  BY <1>1 DEF AmountIsValid
<1> QED
  BY <1>1, <1>2, <1>4, <1>5, <1>6, <1>7 DEF Explained

----------------------------------------------------------------------------
(* Steps that read: a request goes on, and the rest is as it was.          *)

LEMMA RequestGoesOn ==
  ASSUME AmountInv, NEW q \in Requests, NEW r, Sound(q, r),
         \A p \in Requests : p # q /\ r.target # 0 => req[p].target # r.target,
         Go(q, r), UNCHANGED <<versions, publish, entries, costs, asked>>
  PROVE  AmountInv'
<1>1. DOMAIN req' = Requests /\ req'[q] = r /\ \A p \in Requests : p # q => req'[p] = req[p]
  BY DEF AmountInv, RequestsAreSound, Go
<1>2. TilingInv'
  BY DEF AmountInv, TilingInv, VersionsAreLists, PublicationsAreTyped, EachYearOnce
<1>3. \A p \in Requests : Sound(p, req'[p])
  BY <1>1 DEF AmountInv, RequestsAreSound
<1>4. \A p \in Requests : Sound(p, req[p])' = Sound(p, req'[p])
  BY DEF Sound, CardHolds, EditsAnEntry, KnowsItsEntry, AmountIsValid
<1>5. RequestsAreSound'
  BY <1>1, <1>3, <1>4 DEF AmountInv, RequestsAreSound
<1>6. OneHolder'
  BY <1>1 DEF AmountInv, OneHolder
<1>7. EntriesAreExplained'
  BY DEF AmountInv, EntriesAreExplained, Explained
<1> QED
  BY <1>2, <1>5, <1>6, <1>7 DEF AmountInv

LEMMA SoundOf ==
  ASSUME AmountInv, NEW q \in Requests
  PROVE  /\ Sound(q, req[q]) /\ asked[q] \in Ask /\ req[q].rows[1] \in Draft
         /\ DOMAIN req[q].rows = 1 .. Len(req[q].rows) /\ Len(req[q].rows) \in Nat \ {0}
         /\ \A i \in DOMAIN req[q].rows : req[q].rows[i] \in Draft
<1>1. Sound(q, req[q]) /\ asked[q] \in Ask
  BY DEF AmountInv, RequestsAreSound
<1>2. req[q].rows \in Seq(Draft) /\ req[q].rows # <<>>
  BY <1>1 DEF Sound
<1> QED
  BY <1>1, <1>2

LEMMA KindsAreKnown ==
  ASSUME AmountInv, NEW q \in Requests
  PROVE  asked[q].kind \in {"create", "import", "copy", "update", "finance"}
BY SoundOf DEF Ask

(* What does not concern the card, the form or the lock.                   *)
LEMMA Advanced ==
  ASSUME AmountInv, NEW q \in Requests, NEW r,
         DOMAIN r = ReqFields, r.rows = req[q].rows, r.todo = req[q].todo,
         r.target = req[q].target, r.was = req[q].was,
         r.at \in {"checked", "resolved", "done"} \/ (r.at = "copying" /\ asked[q].kind = "copy"),
         EditsAnEntry(q) => r.at = "done" \/ r.target # 0
  PROVE  Sound(q, r) /\ \A p \in Requests : p # q /\ r.target # 0 => req[p].target # r.target
<1>1. Sound(q, req[q])
  BY SoundOf
<1>2. Sound(q, r)
  BY <1>1 DEF Sound, KnowsItsEntry
<1> QED
  BY <1>2 DEF AmountInv, OneHolder

LEMMA EndIsSound ==
  ASSUME AmountInv, NEW q \in Requests
  PROVE  Sound(q, End(q)) /\ End(q).target = 0 /\ (EditsAnEntry(q) => End(q).at = "done")
<1>1. Sound(q, req[q])
  BY SoundOf
<1>2. /\ DOMAIN End(q) = ReqFields /\ End(q).rows = req[q].rows /\ End(q).todo = req[q].todo
      /\ End(q).target = 0 /\ End(q).at = IF asked[q].kind = "copy" THEN "copying" ELSE "done"
  BY <1>1 DEF End, Sound, ReqFields
<1> QED
  BY <1>1, <1>2 DEF Sound, EditsAnEntry

LEMMA EndGoesOn ==
  ASSUME AmountInv, NEW q \in Requests, Go(q, End(q)),
         UNCHANGED <<versions, publish, entries, costs, asked>>
  PROVE  AmountInv'
BY EndIsSound, RequestGoesOn

LEMMA CheckKeeps ==
  ASSUME AmountInv, NEW q \in Requests, Check(q)
  PROVE  AmountInv'
<1>. DEFINE r == [req[q] EXCEPT !.at = "checked"]
<1>1. UNCHANGED <<versions, publish, entries, costs, asked>>
  BY DEF Check, worldVars, tariffVars
<1>2. CASE Go(q, End(q))
  BY <1>1, <1>2, EndGoesOn
<1>3. CASE Go(q, r)
  <2>1. Sound(q, req[q])
    BY SoundOf
  <2>2. /\ DOMAIN r = ReqFields /\ r.rows = req[q].rows /\ r.todo = req[q].todo
        /\ r.target = req[q].target /\ r.was = req[q].was /\ r.at = "checked"
    BY <2>1 DEF Sound, ReqFields
  <2>3. EditsAnEntry(q) => r.target # 0
    BY <2>1, <2>2 DEF Check, Sound, EditsAnEntry
  <2>. HIDE DEF r
  <2> QED
    BY <1>1, <1>3, <2>2, <2>3, Advanced, RequestGoesOn
<1>4. Go(q, r) \/ Go(q, End(q))
  BY DEF Check
<1> QED
  BY <1>2, <1>3, <1>4

LEMMA ResolveKeeps ==
  ASSUME AmountInv, NEW q \in Requests, Resolve(q)
  PROVE  AmountInv'
<1>1. UNCHANGED <<versions, publish, entries, costs, asked>>
  BY DEF Resolve, worldVars, tariffVars
<1>2. PICK cites, snap :
        \/ Go(q, [req[q] EXCEPT !.at = IF asked[q].kind = "import" THEN "ready" ELSE "resolved",
                                !.cites = cites, !.snap = snap])
        \/ Go(q, End(q))
  BY DEF Resolve
<1>. DEFINE r == [req[q] EXCEPT !.at = IF asked[q].kind = "import" THEN "ready" ELSE "resolved",
                                !.cites = cites, !.snap = snap]
<1>3. Sound(q, req[q])
  BY SoundOf
<1>4. /\ DOMAIN r = ReqFields /\ r.rows = req[q].rows /\ r.todo = req[q].todo
      /\ r.target = req[q].target /\ r.was = req[q].was /\ r.card = req[q].card
      /\ r.at = IF asked[q].kind = "import" THEN "ready" ELSE "resolved"
  BY <1>3 DEF Sound, ReqFields
<1>5. Go(q, r) \/ Go(q, End(q))
  BY <1>2
<1>6. req[q].at = IF asked[q].kind = "import" THEN "priced" ELSE "checked"
  BY DEF Resolve
<1>. HIDE DEF r
<1>7. Sound(q, r)
  BY <1>3, <1>4, <1>6 DEF Sound, KnowsItsEntry, EditsAnEntry
<1>8. \A p \in Requests : p # q /\ r.target # 0 => req[p].target # r.target
  BY <1>4 DEF AmountInv, OneHolder
<1>9. CASE Go(q, r)
  BY <1>1, <1>7, <1>8, <1>9, RequestGoesOn
<1> QED
  BY <1>1, <1>5, <1>9, EndGoesOn

LEMMA LoadCardKeeps ==
  ASSUME AmountInv, NEW q \in Requests, LoadCard(q)
  PROVE  AmountInv'
<1>. DEFINE y == req[q].rows[1].year
            card == [r \in Rates |-> Effective(r, y)]
            r == [req[q] EXCEPT !.at = IF asked[q].kind = "import" THEN "priced" ELSE "ready",
                                !.card = card]
<1>1. UNCHANGED <<versions, publish, entries, costs, asked>>
  BY DEF LoadCard, worldVars, tariffVars
<1>2. Sound(q, req[q]) /\ req[q].rows[1] \in Draft
  BY SoundOf
<1>3. /\ DOMAIN r = ReqFields /\ r.rows = req[q].rows /\ r.todo = req[q].todo
      /\ r.target = req[q].target /\ r.was = req[q].was /\ r.card = card
      /\ r.at = IF asked[q].kind = "import" THEN "priced" ELSE "ready"
  BY <1>2 DEF Sound, ReqFields
<1>4. CardHolds(card)
  <2>1. y \in Years
    BY <1>2, FormOfDraft
  <2>2. TilingInv
    BY DEF AmountInv
  <2> QED
    BY <2>1, <2>2, EffectiveIsThere DEF CardHolds
<1>5. req[q].at = IF asked[q].kind = "import" THEN "checked" ELSE "resolved"
  BY DEF LoadCard
<1>6. \/ Go(q, r) /\ \A i \in DOMAIN req[q].rows : AmountIsValid(req[q].rows[i])
      \/ Go(q, End(q))
  BY DEF LoadCard
<1>. HIDE DEF r, card
<1>7. CASE Go(q, r) /\ \A i \in DOMAIN req[q].rows : AmountIsValid(req[q].rows[i])
  <2>1. Sound(q, r)
    BY <1>2, <1>3, <1>4, <1>5, <1>7 DEF Sound, KnowsItsEntry, EditsAnEntry
  <2>2. \A p \in Requests : p # q /\ r.target # 0 => req[p].target # r.target
    BY <1>3 DEF AmountInv, OneHolder
  <2> QED
    BY <1>1, <1>7, <2>1, <2>2, RequestGoesOn
<1> QED
  BY <1>1, <1>6, <1>7, EndGoesOn

(* What the entry of an edit says of the form that is written.             *)
LEMMA EntryIsExplained ==
  ASSUME AmountInv, NEW t \in DOMAIN entries
  PROVE  /\ t \in 1 .. Len(entries) /\ Len(entries) \in Nat /\ t # 0
         /\ Explained(entries[t]) /\ Form(entries[t]) \in Draft
<1>1. DOMAIN entries = 1 .. Len(entries) /\ Len(entries) \in Nat
  BY DEF AmountInv, EntriesAreExplained, IsList
<1> QED
  BY <1>1 DEF AmountInv, EntriesAreExplained, Explained

LEMMA LockKeeps ==
  ASSUME AmountInv, NEW q \in Requests, Lock(q)
  PROVE  AmountInv'
<1>. DEFINE t == asked[q].target
            e == entries[t]
            d == req[q].rows[1]
            paid == [Form(e) EXCEPT !.payout = d.payout]
            edited == [d EXCEPT !.category = e.category, !.year = e.year, !.period = e.period, !.origin = e.origin]
            Taken(x) == [req[q] EXCEPT !.at = "locked", !.target = t, !.was = e.amount, !.rows = <<x>>]
<1>1. UNCHANGED <<versions, publish, entries, costs, asked>>
  BY DEF Lock, worldVars, tariffVars
<1>2. Sound(q, req[q]) /\ d \in Draft
  BY SoundOf
<1>3. t \in DOMAIN entries /\ EditsAnEntry(q)
  BY DEF Lock, EditsAnEntry
<1>4. Form(e) \in Draft /\ t # 0
  BY <1>3, EntryIsExplained
<1>5. paid \in Draft /\ paid.category = e.category
  BY <1>2, <1>4 DEF Form, Draft
<1>6. edited \in Draft /\ edited.category = e.category
  BY <1>2, <1>4 DEF Form, Draft
<1>7. \A p \in Requests : req[p].target # t
  BY DEF Lock, Held
<1>8. ASSUME NEW x \in Draft, x.category = e.category, Go(q, Taken(x)) PROVE AmountInv'
  <2>. DEFINE r == Taken(x)
  <2>1. /\ DOMAIN r = ReqFields /\ r.rows = <<x>> /\ r.todo = req[q].todo
        /\ r.target = t /\ r.was = e.amount /\ r.at = "locked"
    BY <1>2 DEF Sound, ReqFields
  <2>2. <<x>> \in Seq(Draft) \ {<<>>} /\ <<x>>[1] = x
    BY <1>8
  <2>3. Go(q, r)
    BY <1>8
  <2>. HIDE DEF r
  <2>4. KnowsItsEntry(r)
    BY <1>3, <1>8, <2>1, <2>2 DEF KnowsItsEntry
  <2>5. Sound(q, r)
    BY <1>2, <1>3, <1>4, <2>1, <2>2, <2>4 DEF Sound, EditsAnEntry
  <2> QED
    BY <1>1, <1>7, <2>1, <2>3, <2>5, RequestGoesOn
<1>9. Go(q, Taken(paid)) \/ Go(q, Taken(edited)) \/ Go(q, End(q))
  BY DEF Lock
<1>. HIDE DEF Taken, paid, edited, e
<1> QED
  BY <1>1, <1>5, <1>6, <1>8, <1>9, EndGoesOn

LEMMA ReadPlansKeeps ==
  ASSUME AmountInv, NEW q \in Requests, ReadPlans(q)
  PROVE  AmountInv'
<1>1. UNCHANGED <<versions, publish, entries, costs, asked>>
  BY DEF ReadPlans, worldVars, tariffVars
<1>2. Sound(q, req[q])
  BY SoundOf
<1>. DEFINE Plan(i) == [id |-> i, row |-> entries[i], copied |-> \E j \in DOMAIN entries : entries[j].origin = i]
            plans == {Plan(i) : i \in {j \in DOMAIN entries :
                        /\ entries[j].period = "plan"
                        /\ entries[j].agreement = asked[q].rows[1].agreement
                        /\ entries[j].year = asked[q].rows[1].year}}
            r == [req[q] EXCEPT !.at = "copying", !.todo = plans]
<1>3. \A p \in plans : p.id \in Nat /\ Form(p.row) \in Draft
  BY EntryIsExplained
<1>4. Go(q, r) /\ asked[q].kind = "copy" /\ req[q].at = "new"
  BY DEF ReadPlans
<1>. HIDE DEF plans
<1>5. /\ DOMAIN r = ReqFields /\ r.rows = req[q].rows /\ r.todo = plans
      /\ r.target = req[q].target /\ r.was = req[q].was /\ r.at = "copying"
  BY <1>2 DEF Sound, ReqFields
<1>. HIDE DEF r
<1>6. ~EditsAnEntry(q) /\ r.target = 0
  BY <1>2, <1>4, <1>5 DEF EditsAnEntry, Sound
<1>7. Sound(q, r)
  BY <1>2, <1>3, <1>4, <1>5, <1>6 DEF Sound
<1> QED
  BY <1>1, <1>4, <1>6, <1>7, RequestGoesOn

LEMMA NextPlanKeeps ==
  ASSUME AmountInv, NEW q \in Requests, NextPlan(q)
  PROVE  AmountInv'
<1>1. UNCHANGED <<versions, publish, entries, costs, asked>>
  BY DEF NextPlan, worldVars, tariffVars
<1>2. Sound(q, req[q]) /\ req[q].at = "copying"
  BY SoundOf DEF NextPlan
<1>3. asked[q].kind = "copy" /\ ~EditsAnEntry(q) /\ req[q].target = 0
  BY <1>2 DEF Sound, EditsAnEntry
<1>4. PICK p \in req[q].todo :
        \/ Go(q, [req[q] EXCEPT !.todo = @ \ {p}])
        \/ Go(q, [req[q] EXCEPT !.todo = @ \ {p},
                    !.rows = <<[Form(p.row) EXCEPT !.period = "fact", !.method = "average",
                                                   !.actual = 0, !.origin = p.id]>>,
                    !.at = "item"])
  BY DEF NextPlan
<1>. DEFINE fact == [Form(p.row) EXCEPT !.period = "fact", !.method = "average", !.actual = 0, !.origin = p.id]
            skipped == [req[q] EXCEPT !.todo = @ \ {p}]
            copied == [req[q] EXCEPT !.todo = @ \ {p}, !.rows = <<fact>>, !.at = "item"]
<1>5. Form(p.row) \in Draft /\ p.id \in Nat
  BY <1>2, <1>4 DEF Sound
<1>6. fact \in Draft
  BY <1>5 DEF Draft
<1>7. Go(q, skipped) \/ Go(q, copied)
  BY <1>4
<1>. HIDE DEF fact
<1>8. /\ DOMAIN skipped = ReqFields /\ skipped.rows = req[q].rows /\ skipped.todo = req[q].todo \ {p}
      /\ skipped.target = 0 /\ skipped.at = "copying"
  BY <1>2, <1>3 DEF Sound, ReqFields
<1>9. /\ DOMAIN copied = ReqFields /\ copied.rows = <<fact>> /\ copied.todo = req[q].todo \ {p}
      /\ copied.target = 0 /\ copied.at = "item"
  BY <1>2, <1>3 DEF Sound, ReqFields
<1>10. <<fact>> \in Seq(Draft) \ {<<>>}
  BY <1>6
<1>. HIDE DEF skipped, copied
<1>11. Sound(q, skipped)
  BY <1>2, <1>3, <1>8 DEF Sound
<1>12. Sound(q, copied)
  BY <1>2, <1>3, <1>9, <1>10 DEF Sound
<1> QED
  BY <1>1, <1>7, <1>8, <1>9, <1>11, <1>12, RequestGoesOn

LEMMA CopyEndsKeeps ==
  ASSUME AmountInv, NEW q \in Requests, CopyEnds(q)
  PROVE  AmountInv'
<1>. DEFINE r == [req[q] EXCEPT !.at = "done"]
<1>1. UNCHANGED <<versions, publish, entries, costs, asked>>
  BY DEF CopyEnds, worldVars, tariffVars
<1>2. Sound(q, req[q]) /\ Go(q, r)
  BY SoundOf DEF CopyEnds
<1>3. /\ DOMAIN r = ReqFields /\ r.rows = req[q].rows /\ r.todo = req[q].todo
      /\ r.target = req[q].target /\ r.was = req[q].was /\ r.at = "done"
  BY <1>2 DEF Sound, ReqFields
<1>. HIDE DEF r
<1> QED
  BY <1>1, <1>2, <1>3, Advanced, RequestGoesOn

----------------------------------------------------------------------------
(* Steps that write.                                                       *)

(* A request that others overtake keeps what it knows, while the versions  *)
(* it cites stay and the entry it holds is as it was.                      *)
LEMMA OvertakenIsSound ==
  ASSUME NEW q \in Requests, Sound(q, req[q]), req'[q] = req[q], UNCHANGED asked,
         \A r \in Rates : DOMAIN versions[r] \subseteq DOMAIN versions'[r],
         req[q].target # 0 /\ req[q].target \in DOMAIN entries =>
           /\ req[q].target \in DOMAIN entries'
           /\ entries'[req[q].target].amount = entries[req[q].target].amount
           /\ entries'[req[q].target].category = entries[req[q].target].category
  PROVE  Sound(q, req[q])'
<1>1. KnowsItsEntry(req[q]) /\ req[q].target # 0 => KnowsItsEntry(req[q])'
  BY DEF KnowsItsEntry
<1>2. CardHolds(req[q].card) => CardHolds(req[q].card)'
  BY DEF CardHolds
<1> QED
  BY <1>1, <1>2 DEF Sound, EditsAnEntry, AmountIsValid

LEMMA EndedIsSound ==
  ASSUME AmountInv, NEW q \in Requests, Go(q, End(q)), UNCHANGED asked
  PROVE  /\ Sound(q, req[q])' /\ req'[q].target = 0 /\ DOMAIN req' = Requests
         /\ \A p \in Requests : p # q => req'[p] = req[p]
<1>1. /\ DOMAIN req' = Requests /\ req'[q] = End(q)
      /\ \A p \in Requests : p # q => req'[p] = req[p]
  BY DEF AmountInv, RequestsAreSound, Go
<1>2. Sound(q, End(q)) /\ End(q).target = 0
  BY EndIsSound
<1>3. End(q).at \in {"copying", "done"}
  BY SoundOf DEF End, Sound, ReqFields
<1> QED
  BY <1>1, <1>2, <1>3 DEF Sound, EditsAnEntry

LEMMA RowsAreExplained ==
  ASSUME AmountInv, NEW q \in Requests, req[q].at = "ready"
  PROVE  /\ IsList(Rows(q)) /\ Len(Rows(q)) = Len(req[q].rows) /\ Len(Rows(q)) >= 1
         /\ DOMAIN Rows(q) = 1 .. Len(Rows(q))
         /\ \A i \in 1 .. Len(Rows(q)) : /\ Explained(Rows(q)[i])
                                         /\ Rows(q)[i].category = req[q].rows[i].category
<1>1. /\ DOMAIN req[q].rows = 1 .. Len(req[q].rows) /\ Len(req[q].rows) \in Nat \ {0}
      /\ \A i \in DOMAIN req[q].rows : req[q].rows[i] \in Draft
  BY SoundOf
<1>2. CardHolds(req[q].card) /\ \A i \in DOMAIN req[q].rows : AmountIsValid(req[q].rows[i])
  BY SoundOf DEF Sound
<1>3. Rows(q) = [i \in 1 .. Len(req[q].rows) |-> Row(req[q].rows[i], req[q].cites, req[q].snap, req[q].card)]
  BY <1>1 DEF Rows
<1>4. Len(Rows(q)) = Len(req[q].rows)
  BY <1>1, <1>3
<1> QED
  BY <1>1, <1>2, <1>3, <1>4, RowIsExplained DEF IsList

LEMMA InsertKeeps ==
  ASSUME AmountInv, NEW q \in Requests, Insert(q)
  PROVE  AmountInv'
<1>. DEFINE new == Rows(q)
            first == [i \in DOMAIN new |-> FirstCost(new[i])]
            n == Len(entries)
<1>1. UNCHANGED <<versions, publish, asked>> /\ Go(q, End(q))
  BY DEF Insert, worldVars, tariffVars
<1>2. CASE UNCHANGED <<entries, costs>>
  BY <1>1, <1>2, EndGoesOn
<1>3. CASE entries' = entries \o new /\ costs' = costs \o first
  <2>1. /\ IsList(new) /\ Len(new) >= 1 /\ DOMAIN new = 1 .. Len(new)
        /\ \A i \in 1 .. Len(new) : Explained(new[i])
    BY RowsAreExplained DEF Insert
  <2>2. IsList(entries) /\ IsList(costs) /\ Len(costs) = n /\ n \in Nat /\ Len(new) \in Nat
    BY <2>1 DEF AmountInv, EntriesAreExplained, IsList
  <2>. HIDE DEF new
  <2>3. IsList(first) /\ Len(first) = Len(new) /\ \A i \in 1 .. Len(new) : first[i] = FirstCost(new[i])
    BY <2>1, <2>2 DEF IsList
  <2>. HIDE DEF first, n
  <2>4. /\ IsList(entries') /\ Len(entries') = n + Len(new)
        /\ DOMAIN entries' = 1 .. n + Len(new) /\ DOMAIN entries = 1 .. n
        /\ \A i \in 1 .. n : entries'[i] = entries[i]
        /\ \A i \in 1 .. Len(new) : entries'[n + i] = new[i]
    <3>1. DOMAIN entries = 1 .. n /\ Len(entries) = n
      BY <2>2 DEF IsList, n
    <3>2. /\ IsList(entries \o new) /\ Len(entries \o new) = Len(entries) + Len(new)
          /\ DOMAIN (entries \o new) = 1 .. Len(entries) + Len(new)
          /\ \A i \in 1 .. Len(entries) : (entries \o new)[i] = entries[i]
          /\ \A i \in 1 .. Len(new) : (entries \o new)[Len(entries) + i] = new[i]
      BY <2>1, <2>2, Joined
    <3> QED
      BY <1>3, <3>1, <3>2
  <2>5. /\ IsList(costs') /\ Len(costs') = n + Len(new)
        /\ \A i \in 1 .. n : costs'[i] = costs[i]
        /\ \A i \in 1 .. Len(new) : costs'[n + i] = FirstCost(new[i])
    <3>1. /\ IsList(costs \o first) /\ Len(costs \o first) = Len(costs) + Len(first)
          /\ \A i \in 1 .. Len(costs) : (costs \o first)[i] = costs[i]
          /\ \A i \in 1 .. Len(first) : (costs \o first)[Len(costs) + i] = first[i]
      BY <2>2, <2>3, Joined
    <3> QED
      BY <1>3, <2>2, <2>3, <3>1
  <2>6. EntriesAreExplained'
    <3>1. ASSUME NEW i \in 1 .. n + Len(new)
          PROVE  /\ Explained(entries'[i]) /\ IsList(costs'[i])
                 /\ Minc(entries'[i].category) => CostChain(costs'[i], entries'[i].amount)
      <4>1. CASE i \in 1 .. n
        BY <4>1, <2>4, <2>5 DEF AmountInv, EntriesAreExplained, n
      <4>2. CASE i \notin 1 .. n
        <5>1. PICK k \in 1 .. Len(new) : i = n + k
          <6>1. i - n \in 1 .. Len(new) /\ i = n + (i - n)
            BY <4>2, <2>2
          <6> QED
            BY <6>1
        <5>2. entries'[i] = new[k] /\ costs'[i] = FirstCost(new[k])
          BY <5>1, <2>4, <2>5
        <5>3. IsList(FirstCost(new[k]))
          BY DEF IsList, FirstCost
        <5>4. Minc(new[k].category) => CostChain(FirstCost(new[k]), new[k].amount)
          BY DEF CostChain, FirstCost
        <5> QED
          BY <5>1, <5>2, <5>3, <5>4, <2>1
      <4> QED
        BY <4>1, <4>2
    <3>2. \A e : Explained(e)' = Explained(e)
      BY <1>1 DEF Explained
    <3> QED
      BY <3>1, <1>1, <2>4, <2>5 DEF EntriesAreExplained, Explained
  <2>7. \A p \in Requests : Sound(p, req[p])'
    <3>1. SUFFICES ASSUME NEW p \in Requests PROVE Sound(p, req[p])'
      OBVIOUS
    <3>2. CASE p = q
      BY <3>2, <1>1, EndedIsSound
    <3>3. CASE p # q
      <4>1. req'[p] = req[p] /\ Sound(p, req[p])
        BY <3>3, <1>1, EndedIsSound, SoundOf
      <4>2. \A i \in DOMAIN entries : i \in DOMAIN entries' /\ entries'[i] = entries[i]
        BY <2>2, <2>4
      <4> QED
        BY <4>1, <4>2, <1>1, OvertakenIsSound
    <3> QED
      BY <3>2, <3>3
  <2>8. DOMAIN req' = Requests /\ OneHolder'
    BY <1>1, EndedIsSound DEF AmountInv, OneHolder
  <2>9. TilingInv'
    BY <1>1 DEF AmountInv, TilingInv, VersionsAreLists, PublicationsAreTyped, EachYearOnce
  <2> QED
    BY <1>1, <2>6, <2>7, <2>8, <2>9 DEF AmountInv, RequestsAreSound
<1> QED
  BY <1>2, <1>3 DEF Insert

(* The correction of an amount begins where the last one ended: the amount *)
(* read under the lock is still that of the row.                           *)
LEMMA CorrectionGoesOn ==
  ASSUME NEW h, IsList(h), NEW was, CostChain(h, was), NEW now, now # was
  PROVE  LET l == Append(h, [before |-> was, now |-> now])
         IN  IsList(l) /\ CostChain(l, now)
<1>. DEFINE new == [before |-> was, now |-> now]
            l == Append(h, new)
            n == Len(h)
<1>1. /\ n \in Nat /\ IsList(l) /\ Len(l) = n + 1 /\ l[n + 1] = new
      /\ \A i \in 1 .. n : l[i] = h[i]
  BY Appended DEF IsList
<1>2. n # 0
  BY DEF CostChain, IsList
<1>3. new.before = was /\ new.now = now
  OBVIOUS
<1>. HIDE DEF l, n, new
<1>4. l # <<>>
  BY <1>1
<1>5. ASSUME NEW k \in 2 .. n + 1
      PROVE  l[k].before = l[k - 1].now /\ l[k].now # l[k].before
  <2>1. CASE k \in 2 .. n
    <3>1. l[k] = h[k] /\ l[k - 1] = h[k - 1]
      BY <1>1, <2>1
    <3> QED
      BY <3>1, <2>1 DEF CostChain, n
  <2>2. CASE k = n + 1
    <3>1. l[k] = new /\ l[k - 1] = h[n]
      BY <1>1, <1>2, <2>2
    <3> QED
      BY <3>1, <1>3 DEF CostChain, n
  <2> QED
    BY <1>1, <1>5, <2>1, <2>2
<1> QED
  BY <1>1, <1>3, <1>4, <1>5 DEF l, n, new, CostChain

LEMMA WriteKeeps ==
  ASSUME AmountInv, NEW q \in Requests, Write(q)
  PROVE  AmountInv'
<1>. DEFINE t == req[q].target
            old == entries[t]
            new == [Rows(q)[1] EXCEPT !.cites = IF @ = NoOne THEN old.cites ELSE @]
            n == Len(entries)
            corrected == Append(costs[t], [before |-> req[q].was, now |-> new.amount])
<1>1. UNCHANGED <<versions, publish, asked>> /\ Go(q, End(q))
  BY DEF Write, worldVars, tariffVars
<1>2. CASE UNCHANGED <<entries, costs>>
  BY <1>1, <1>2, EndGoesOn
<1>3. CASE /\ entries' = [entries EXCEPT ![t] = new]
           /\ costs' = IF Minc(new.category) /\ new.amount # req[q].was
                       THEN [costs EXCEPT ![t] = corrected] ELSE costs
  <2>1. t # 0 /\ KnowsItsEntry(req[q])
    BY SoundOf DEF Write, Sound, EditsAnEntry
  <2>2. /\ DOMAIN entries = 1 .. n /\ n \in Nat /\ t \in 1 .. n
        /\ IsList(entries) /\ IsList(costs) /\ Len(costs) = n /\ DOMAIN costs = 1 .. n
    BY <2>1 DEF AmountInv, EntriesAreExplained, IsList, KnowsItsEntry
  <2>3. Explained(new) /\ new.category = old.category
    <3>1. Explained(Rows(q)[1]) /\ Rows(q)[1].category = req[q].rows[1].category
      BY RowsAreExplained DEF Write, IsList
    <3>2. /\ new.category = Rows(q)[1].category /\ new.basis = Rows(q)[1].basis
          /\ new.formula = Rows(q)[1].formula /\ new.units = Rows(q)[1].units
          /\ new.amount = Rows(q)[1].amount /\ new.method = Rows(q)[1].method
          /\ new.actual = Rows(q)[1].actual /\ new.period = Rows(q)[1].period
          /\ Form(new) = Form(Rows(q)[1])
      <4>1. /\ Rows(q)[1] = Row(req[q].rows[1], req[q].cites, req[q].snap, req[q].card)
        BY SoundOf DEF Rows
      <4> QED
        BY <4>1 DEF Row, RowOn, Form
    <3>. HIDE DEF new
    <3> QED
      BY <3>1, <3>2, <2>1 DEF Explained, KnowsItsEntry
  <2>. HIDE DEF new
  <2>4. /\ IsList(entries') /\ Len(entries') = n /\ DOMAIN entries' = 1 .. n
        /\ entries'[t] = new /\ \A i \in 1 .. n : i # t => entries'[i] = entries[i]
    <3>1. entries' = [i \in 1 .. n |-> IF i = t THEN new ELSE entries[i]]
      BY <1>3, <2>2
    <3>2. Len(entries') = n
      BY <3>1, <2>2
    <3> QED
      BY <3>1, <3>2, <2>2 DEF IsList
  <2>5. /\ IsList(costs') /\ Len(costs') = n
        /\ costs'[t] = IF Minc(new.category) /\ new.amount # req[q].was THEN corrected ELSE costs[t]
        /\ \A i \in 1 .. n : i # t => costs'[i] = costs[i]
    <3>. DEFINE c == IF Minc(new.category) /\ new.amount # req[q].was THEN corrected ELSE costs[t]
    <3>. HIDE DEF corrected
    <3>1. costs' = [i \in 1 .. n |-> IF i = t THEN c ELSE costs[i]]
      BY <1>3, <2>2 DEF IsList
    <3>. HIDE DEF c
    <3>2. Len(costs') = n
      BY <3>1, <2>2
    <3>3. IsList(costs') /\ costs'[t] = c /\ \A i \in 1 .. n : i # t => costs'[i] = costs[i]
      BY <3>1, <3>2, <2>2 DEF IsList
    <3> QED
      BY <3>2, <3>3 DEF c
  <2>6. IsList(costs'[t]) /\ (Minc(new.category) => CostChain(costs'[t], new.amount))
    <3>1. IsList(costs[t]) /\ (Minc(old.category) => CostChain(costs[t], old.amount))
      BY <2>2 DEF AmountInv, EntriesAreExplained
    <3>2. req[q].was = old.amount
      BY <2>1 DEF KnowsItsEntry
    <3>3. CASE Minc(new.category) /\ new.amount # req[q].was
      BY <3>1, <3>2, <3>3, <2>3, <2>5, CorrectionGoesOn
    <3>4. CASE ~(Minc(new.category) /\ new.amount # req[q].was)
      BY <3>1, <3>2, <3>4, <2>3, <2>5
    <3> QED
      BY <3>3, <3>4
  <2>7. EntriesAreExplained'
    <3>1. ASSUME NEW i \in 1 .. n
          PROVE  /\ Explained(entries'[i]) /\ IsList(costs'[i])
                 /\ Minc(entries'[i].category) => CostChain(costs'[i], entries'[i].amount)
      <4>1. CASE i = t
        BY <4>1, <2>3, <2>4, <2>6
      <4>2. CASE i # t
        BY <4>2, <2>4, <2>5 DEF AmountInv, EntriesAreExplained
      <4> QED
        BY <4>1, <4>2
    <3> QED
      BY <3>1, <1>1, <2>4, <2>5 DEF EntriesAreExplained, Explained
  <2>8. \A p \in Requests : Sound(p, req[p])'
    <3>1. SUFFICES ASSUME NEW p \in Requests PROVE Sound(p, req[p])'
      OBVIOUS
    <3>2. CASE p = q
      BY <3>2, <1>1, EndedIsSound
    <3>3. CASE p # q
      <4>1. req'[p] = req[p] /\ Sound(p, req[p])
        BY <3>3, <1>1, EndedIsSound, SoundOf
      <4>2. req[p].target # t
        BY <3>3, <2>1 DEF AmountInv, OneHolder
      <4> QED
        BY <4>1, <4>2, <2>2, <2>4, <1>1, OvertakenIsSound
    <3> QED
      BY <3>2, <3>3
  <2>9. DOMAIN req' = Requests /\ OneHolder'
    BY <1>1, EndedIsSound DEF AmountInv, OneHolder
  <2>10. TilingInv'
    BY <1>1 DEF AmountInv, TilingInv, VersionsAreLists, PublicationsAreTyped, EachYearOnce
  <2> QED
    BY <1>1, <2>7, <2>8, <2>9, <2>10 DEF AmountInv, RequestsAreSound
<1> QED
  BY <1>2, <1>3 DEF Write

----------------------------------------------------------------------------
(* Steps of others.                                                        *)

PricesStay ==
  \A r \in Rates : \A i \in DOMAIN versions[r] :
    i \in DOMAIN versions'[r] /\ versions'[r][i].price = versions[r][i].price

(* A publication closes versions and appends one; it never moves a price.  *)
LEMMA PublicationsKeepPrices ==
  ASSUME TilingInv, TariffsNext
  PROVE  PricesStay
<1>1. PICK p \in Publishers : PublishRead(p) \/ PublishSee(p) \/ PublishWrite(p)
  BY DEF TariffsNext
<1>2. CASE versions' = versions
  BY <1>2 DEF PricesStay
<1>3. CASE PublishWrite(p) /\ versions' # versions
  <2>. DEFINE t == publish[p]
              old == versions[t.rate]
              Closes(i) == i \in t.open /\ old[i].until = Forever
              closed == [i \in DOMAIN old |->
                           IF Closes(i) THEN [old[i] EXCEPT !.until = t.from - 1] ELSE old[i]]
              new == [from |-> t.from, until |-> Forever, price |-> t.price]
              n == Len(old)
  <2>1. t.rate \in Rates /\ old \in Seq(Period)
    BY <1>1 DEF TilingInv, VersionsAreLists, PublicationsAreTyped, Transaction
  <2>2. versions' = [versions EXCEPT ![t.rate] = Append(closed, new)]
    BY <1>3 DEF PublishWrite
  <2>3. DOMAIN old = 1 .. n /\ n \in Nat /\ \A i \in 1 .. n : old[i] \in Period
    BY <2>1
  <2>4. IsList(closed) /\ Len(closed) = n
    <3>1. closed = [i \in 1 .. n |-> closed[i]]
      BY <2>3
    <3>. HIDE DEF closed
    <3>2. Len(closed) = n
      BY <3>1, <2>3
    <3> QED
      BY <3>1, <3>2, <2>3 DEF IsList
  <2>5. \A i \in 1 .. n : closed[i].price = old[i].price
    <3>1. SUFFICES ASSUME NEW i \in 1 .. n PROVE closed[i].price = old[i].price
      OBVIOUS
    <3>2. old[i] \in Period
      BY <2>3
    <3>3. [old[i] EXCEPT !.until = t.from - 1].price = old[i].price
      BY <3>2 DEF Period
    <3>4. closed[i] = IF Closes(i) THEN [old[i] EXCEPT !.until = t.from - 1] ELSE old[i]
      BY <2>3
    <3>. HIDE DEF closed, Closes
    <3> QED
      BY <3>3, <3>4
  <2>. HIDE DEF closed, new
  <2>6. /\ DOMAIN Append(closed, new) = 1 .. n + 1
        /\ \A i \in 1 .. n : Append(closed, new)[i] = closed[i]
    BY <2>4, Appended
  <2>7. ASSUME NEW r \in Rates, NEW i \in DOMAIN versions[r]
        PROVE  i \in DOMAIN versions'[r] /\ versions'[r][i].price = versions[r][i].price
    <3>1. DOMAIN versions = Rates
      BY DEF TilingInv, VersionsAreLists
    <3>2. CASE r = t.rate
      <4>1. versions'[r] = Append(closed, new)
        BY <2>1, <2>2, <3>1, <3>2
      <4>2. i \in 1 .. n /\ i \in 1 .. n + 1
        BY <2>3, <2>7, <3>2
      <4> QED
        BY <4>1, <4>2, <2>5, <2>6, <3>2
    <3>3. CASE r # t.rate
      BY <3>3, <2>2, <3>1, <2>7
    <3> QED
      BY <3>2, <3>3
  <2> QED
    BY <2>7 DEF PricesStay
<1> QED
  BY <1>1, <1>2, <1>3 DEF PublishRead, PublishSee

LEMMA PublishKeeps ==
  ASSUME AmountInv, Publish
  PROVE  AmountInv'
<1>1. TilingInv' /\ PricesStay
  <2>1. TilingInv /\ TariffsNext
    BY DEF AmountInv, Publish
  <2> QED
    BY <2>1, PublicationsKeepPrices, ReadKeepsTiling, WriteKeepsTiling DEF TariffsNext
<1>2. UNCHANGED <<entries, costs, asked, req>>
  BY DEF Publish
<1>3. \A r \in Rates : DOMAIN versions[r] \subseteq DOMAIN versions'[r]
  BY <1>1 DEF PricesStay
<1>4. ASSUME NEW q \in Requests PROVE Sound(q, req[q])'
  <2>1. Sound(q, req[q]) /\ req'[q] = req[q]
    BY <1>2, SoundOf
  <2> QED
    BY <2>1, <1>2, <1>3, OvertakenIsSound
<1>5. EntriesAreExplained'
  <2>1. ASSUME NEW e, Explained(e) PROVE Explained(e)'
    <3>1. Form(e) \in Draft /\ e.category \in Categories
      <4>1. Form(e) \in Draft
        BY <2>1 DEF Explained
      <4>2. Form(e).category = e.category
        BY DEF Form
      <4> QED
        BY <4>1, <4>2, FormOfDraft
    <3>2. ~Minc(e.category) => /\ e.basis \in DOMAIN versions'[RateOf[e.category]]
                               /\ versions'[RateOf[e.category]][e.basis].price
                                    = versions[RateOf[e.category]][e.basis].price
      BY <1>1, <2>1, <3>1, RateIsThere DEF PricesStay, Explained
    <3> QED
      BY <2>1, <3>2 DEF Explained
  <2> QED
    BY <2>1, <1>2 DEF AmountInv, EntriesAreExplained
<1> QED
  BY <1>1, <1>2, <1>4, <1>5 DEF AmountInv, RequestsAreSound, OneHolder

LEMMA AmountsInitially == EntriesInit => AmountInv
<1>. SUFFICES ASSUME EntriesInit PROVE AmountInv
  OBVIOUS
<1>1. asked \in [Requests -> Ask]
  BY EntriesAssumption DEF EntriesInit, EntriesAssumption
<1>2. req = [q \in Requests |->
       [at |-> "new", rows |-> asked[q].rows, todo |-> {}, snap |-> "", cites |-> NoOne,
        card |-> NoCard, target |-> 0, was |-> 0]]
  BY DEF EntriesInit
<1>3. RequestsAreSound
  <2>1. SUFFICES ASSUME NEW q \in Requests PROVE Sound(q, req[q])
    BY <1>1, <1>2 DEF RequestsAreSound
  <2>2. asked[q].rows \in Seq(Draft) \ {<<>>}
    BY <1>1 DEF Ask
  <2> QED
    BY <1>2, <2>2 DEF Sound, ReqFields
<1>4. OneHolder
  BY <1>2 DEF OneHolder
<1>5. EntriesAreExplained
  <2>1. entries = <<>> /\ costs = <<>>
    BY DEF EntriesInit
  <2>2. IsList(<<>>) /\ Len(<<>>) = 0
    BY DEF IsList
  <2> QED
    BY <2>1, <2>2 DEF EntriesAreExplained
<1> QED
  BY <1>3, <1>4, <1>5, DeliveryTiles DEF AmountInv

LEMMA AmountsAreKept ==
  ASSUME AmountInv, [Next]_vars
  PROVE  AmountInv'
<1>1. CASE UNCHANGED <<versions, publish, entries, costs, asked, req>>
  BY <1>1 DEF AmountInv, TilingInv, VersionsAreLists, PublicationsAreTyped, EachYearOnce, OneHolder,
              RequestsAreSound, Sound, EditsAnEntry, KnowsItsEntry, CardHolds, AmountIsValid,
              EntriesAreExplained, Explained
<1>2. CASE UNCHANGED vars
  BY <1>1, <1>2 DEF vars, tariffVars
<1>3. CASE \E q \in Requests : Serve(q)
  BY <1>3, CheckKeeps, ResolveKeeps, LoadCardKeeps, InsertKeeps, LockKeeps, WriteKeeps,
     ReadPlansKeeps, NextPlanKeeps, CopyEndsKeeps DEF Serve
<1>4. CASE \E a \in AgreementIds : EditAgreement(a)
  BY <1>1, <1>4 DEF EditAgreement, tariffVars
<1>5. CASE EditAuthority \/ EditPeople \/ EditPayouts
  BY <1>1, <1>5 DEF EditAuthority, EditPeople, EditPayouts, tariffVars
<1> QED
  BY <1>2, <1>3, <1>4, <1>5, PublishKeeps DEF Next

(* Whatever is published and however many requests write at once, an       *)
(* amount follows from the quantity and the version its row cites, or from *)
(* the actual sum; and the revisions of a confirmed cost lead from the     *)
(* first amount to that of the row without a gap (entries.go, 0701).       *)
THEOREM EveryAmountIsExplained == Spec => []AmountsAreExplained
<1>1. AmountInv => AmountsAreExplained
  <2>1. SUFFICES ASSUME AmountInv PROVE AmountsAreExplained
    OBVIOUS
  <2>2. DOMAIN entries = 1 .. Len(entries)
    BY <2>1 DEF AmountInv, EntriesAreExplained, IsList
  <2>3. AmountsHaveABasis
    <3>1. \A i \in DOMAIN entries : Explained(entries[i])
      BY <2>1, <2>2 DEF AmountInv, EntriesAreExplained
    <3> QED
      BY <3>1 DEF Explained, AmountsHaveABasis
  <2>4. CostHistoryIsWhole
    <3>1. \A i \in DOMAIN entries : Minc(entries[i].category) => CostChain(costs[i], entries[i].amount)
      BY <2>1, <2>2 DEF AmountInv, EntriesAreExplained
    <3> QED
      BY <3>1 DEF CostChain, CostHistoryIsWhole
  <2> QED
    BY <2>3, <2>4 DEF AmountsAreExplained
<1> QED
  BY <1>1, AmountsInitially, AmountsAreKept, PTL DEF Spec

(* Forms, a copy and a file that are served at once never count one load,  *)
(* one assignment or one plan twice: the keys of the database hold for the *)
(* whole list, which only Insert and Write replace.                        *)
THEOREM NothingIsCountedTwice == Spec => []NothingTwice
<1>1. EntriesInit => NothingTwice
  <2>1. entries = <<>> => DOMAIN entries = {}
    OBVIOUS
  <2> QED
    BY <2>1 DEF EntriesInit, NothingTwice
<1>2. ASSUME NothingTwice, [Next]_vars PROVE NothingTwice'
  <2>1. CASE entries' = entries
    BY <2>1, <1>2 DEF NothingTwice, Clash, SameLoad, SameAssignment
  <2>2. CASE Accepted(entries')
    BY <2>2 DEF Accepted, NothingTwice, Clash, SameLoad, SameAssignment
  <2>3. CASE \E q \in Requests : Serve(q)
    <3>1. PICK q \in Requests : Serve(q)
      BY <2>3
    <3>2. CASE Insert(q)
      BY <3>2, <2>1, <2>2 DEF Insert
    <3>3. CASE Write(q)
      BY <3>3, <2>1, <2>2 DEF Write
    <3>4. CASE ~(Insert(q) \/ Write(q))
      BY <3>1, <3>4, <2>1 DEF Serve, Check, Resolve, LoadCard, Lock, ReadPlans, NextPlan, CopyEnds
    <3> QED
      BY <3>2, <3>3, <3>4
  <2>4. CASE UNCHANGED vars
    BY <2>1, <2>4 DEF vars
  <2>5. CASE ~(\E q \in Requests : Serve(q)) /\ Next
    BY <2>1, <2>5 DEF Next, Publish, EditAgreement, EditAuthority, EditPeople, EditPayouts
  <2> QED
    BY <1>2, <2>3, <2>4, <2>5
<1> QED
  BY <1>1, <1>2, PTL DEF Spec

----------------------------------------------------------------------------
(* Types.  What stands between the steps and their types is what a request *)
(* carries of the person it has found, and that a year before the start of *)
(* a period that has begun is a report year.                               *)

Persons == Members \cup Mentors \cup {NoOne}
Snaps == Status \cup Names \cup {""}

VersionsAreTyped == versions \in [Rates -> Seq(Version)]

AgreementsAreTyped ==
  /\ \A a \in DOMAIN agreements : a \in AgreementIds /\ agreements[a] \in Agreement
  /\ authority \in BOOLEAN

PeopleAreTyped ==
  /\ DOMAIN staff \subseteq Members /\ \A m \in DOMAIN staff : staff[m] \in Employee
  /\ DOMAIN mentors \subseteq Mentors /\ \A m \in DOMAIN mentors : mentors[m] \in MentorCard

PersonIsCarried == \A q \in Requests : req[q].snap \in Snaps /\ req[q].cites \in Persons

RowsHold == \A i \in DOMAIN entries : entries[i] \in RowType /\ ReferencesHold(entries[i])

PayoutsHaveEntries ==
  IsList(payouts) /\ \A k \in DOMAIN payouts : payouts[k].entry \in DOMAIN entries

RegistryInv ==
  /\ AmountInv /\ VersionsAreTyped /\ AgreementsAreTyped /\ PeopleAreTyped
  /\ PersonIsCarried /\ RowsHold /\ PayoutsHaveEntries

(* Which parts of the state a step can move.                               *)
LEMMA WhoMovesWhat ==
  ASSUME [Next]_vars
  PROVE  \/ \E q \in Requests : Serve(q) /\ UNCHANGED worldVars
         \/ /\ UNCHANGED <<entries, req>>
            /\ UNCHANGED tariffVars \/ TariffsNext
            /\ \/ UNCHANGED agreementVars
               \/ \E a \in AgreementIds : EditAgreement(a)
               \/ EditAuthority
            /\ UNCHANGED <<staff, mentors>> \/ EditPeople
            /\ UNCHANGED payouts \/ EditPayouts
<1>1. CASE UNCHANGED vars
  BY <1>1 DEF vars, peopleVars
<1>2. CASE \E q \in Requests : Serve(q)
  <2>1. PICK q \in Requests : Serve(q)
    BY <1>2
  <2>2. UNCHANGED worldVars
    BY <2>1 DEF Serve, Check, Resolve, LoadCard, Insert, Lock, Write, ReadPlans, NextPlan, CopyEnds, worldVars
  <2> QED
    BY <2>1, <2>2
<1>3. CASE Publish
  BY <1>3 DEF Publish, peopleVars
<1>4. CASE \E a \in AgreementIds : EditAgreement(a)
  BY <1>4 DEF EditAgreement, peopleVars
<1>5. CASE EditAuthority
  BY <1>5 DEF EditAuthority
<1>6. CASE EditPeople
  BY <1>6 DEF EditPeople
<1>7. CASE EditPayouts
  BY <1>7 DEF EditPayouts
<1> QED
  BY <1>1, <1>2, <1>3, <1>4, <1>5, <1>6, <1>7 DEF Next

LEMMA YearBefore ==
  ASSUME NEW from \in Years, NEW until \in Years, from <= until - 1
  PROVE  until - 1 \in Years
<1>1. PICK first \in Years, last \in Years : Years = first .. last
  BY TariffsAssumption DEF TariffsAssumption
<1>2. Years \subseteq Int
  BY TariffsAssumption DEF TariffsAssumption
<1> QED
  BY <1>1, <1>2

(* A period that is closed ends in a report year, or the publication is    *)
(* undone.                                                                 *)
LEMMA VersionsStayTyped ==
  ASSUME TilingInv, VersionsAreTyped, TariffsNext
  PROVE  VersionsAreTyped'
<1>1. PICK p \in Publishers : PublishRead(p) \/ PublishSee(p) \/ PublishWrite(p)
  BY DEF TariffsNext
<1>2. CASE versions' = versions
  BY <1>2 DEF VersionsAreTyped
<1>3. CASE PublishWrite(p) /\ versions' # versions
  <2>. DEFINE t == publish[p]
              old == versions[t.rate]
              Closes(i) == i \in t.open /\ old[i].until = Forever
              closed == [i \in DOMAIN old |->
                           IF Closes(i) THEN [old[i] EXCEPT !.until = t.from - 1] ELSE old[i]]
              new == [from |-> t.from, until |-> Forever, price |-> t.price]
  <2>1. t.rate \in Rates /\ t.from \in Years /\ t.price \in Prices /\ old \in Seq(Version)
    BY <1>1 DEF TilingInv, VersionsAreTyped, PublicationsAreTyped, Transaction
  <2>2. /\ versions' = [versions EXCEPT ![t.rate] = Append(closed, new)]
        /\ \A i \in DOMAIN old : Closes(i) => ~(closed[i].until < closed[i].from)
    BY <1>3 DEF PublishWrite
  <2>3. DOMAIN old = 1 .. Len(old) /\ Len(old) \in Nat /\ \A i \in 1 .. Len(old) : old[i] \in Version
    BY <2>1
  <2>4. Years \subseteq Int
    BY TariffsAssumption DEF TariffsAssumption
  <2>. HIDE DEF t, old
  <2>5. ASSUME NEW i \in 1 .. Len(old) PROVE closed[i] \in Version
    <3>1. old[i] \in Version
      BY <2>3
    <3>2. CASE Closes(i)
      <4>1. closed[i] = [old[i] EXCEPT !.until = t.from - 1] /\ ~(closed[i].until < closed[i].from)
        BY <2>2, <2>3, <3>2
      <4>2. closed[i].until = t.from - 1 /\ closed[i].from = old[i].from /\ old[i].from \in Years
        BY <4>1, <3>1 DEF Version
      <4>. HIDE DEF closed
      <4>3. ~(t.from - 1 < old[i].from)
        BY <4>1, <4>2
      <4>4. old[i].from <= t.from - 1
        <5>1. t.from \in Int /\ old[i].from \in Int
          BY <4>2, <2>1, <2>4
        <5> QED
          BY <4>3, <5>1
      <4>5. t.from - 1 \in Years
        BY <4>2, <4>4, <2>1, YearBefore
      <4>6. [old[i] EXCEPT !.until = t.from - 1] \in Version
        BY <4>5, <3>1 DEF Version
      <4> QED
        BY <4>1, <4>6
    <3>3. CASE ~Closes(i)
      BY <3>1, <3>3, <2>3
    <3> QED
      BY <3>2, <3>3
  <2>6. closed = [i \in 1 .. Len(old) |-> closed[i]]
    BY <2>3
  <2>. HIDE DEF closed
  <2>7. closed \in Seq(Version)
    <3>1. closed \in [1 .. Len(old) -> Version]
      BY <2>5, <2>6
    <3> QED
      BY <3>1, <2>3
  <2>8. new \in Version
    BY <2>1 DEF Version
  <2>9. Append(closed, new) \in Seq(Version)
    BY <2>7, <2>8
  <2>. HIDE DEF new
  <2> QED
    BY <2>1, <2>2, <2>9 DEF VersionsAreTyped
<1> QED
  BY <1>1, <1>2, <1>3 DEF PublishRead, PublishSee

----------------------------------------------------------------------------
(* Agreements and people.                                                  *)

LEMMA WrittenIsTyped ==
  ASSUME NEW e \in Edits, NEW c \in Curators \cup {Nobody}
  PROVE  Written(e, c) \in Agreement /\ Written(e, c).partners = e.partners
<1>1. /\ e.partners \in SUBSET Partners /\ e.scope \in SUBSET Categories
      /\ e.status \in Statuses /\ e.term \in Terms
  BY AgreementsAssumption DEF AgreementsAssumption
<1>2. Scope(e) \in SUBSET Categories
  BY <1>1 DEF Scope, Available
<1> QED
  BY <1>1, <1>2 DEF Written, Agreement

(* A row that is put there keeps what the entries need of it.              *)
LEMMA PutKeepsTypes ==
  ASSUME AgreementsAreTyped, RowsHold, NEW a \in AgreementIds, NEW row \in Agreement, Put(a, row),
         UNCHANGED <<entries, staff, mentors>>,
         a \in DOMAIN agreements =>
           \A i \in DOMAIN entries : entries[i].agreement = a => entries[i].partner \in row.partners
  PROVE  AgreementsAreTyped' /\ RowsHold'
<1>1. /\ DOMAIN agreements' = DOMAIN agreements \cup {a} /\ agreements'[a] = row
      /\ \A b \in DOMAIN agreements : b # a => agreements'[b] = agreements[b]
      /\ authority' = authority
  BY DEF Put
<1>2. AgreementsAreTyped'
  BY <1>1 DEF AgreementsAreTyped
<1>3. RowsHold'
  BY <1>1 DEF RowsHold, ReferencesHold
<1> QED
  BY <1>2, <1>3

LEMMA AgreementsStayTyped ==
  ASSUME AgreementsAreTyped, RowsHold, NEW a \in AgreementIds, EditAgreement(a)
  PROVE  AgreementsAreTyped' /\ RowsHold'
<1>1. UNCHANGED <<entries, staff, mentors>>
  BY DEF EditAgreement, peopleVars
<1>2. \/ \E e \in Edits : CreateAgreement(a, e) \/ UpdateAgreement(a, e, Pairs(a))
      \/ \E c \in Curators \cup {Nobody} : SetCurator(a, c)
  BY DEF EditAgreement
<1>3. ASSUME NEW e \in Edits, CreateAgreement(a, e) PROVE AgreementsAreTyped' /\ RowsHold'
  <2>1. Put(a, Written(e, Nobody)) /\ a \notin DOMAIN agreements
    BY <1>3 DEF CreateAgreement
  <2> QED
    BY <1>1, <2>1, WrittenIsTyped, PutKeepsTypes
<1>4. ASSUME NEW e \in Edits, UpdateAgreement(a, e, Pairs(a)) PROVE AgreementsAreTyped' /\ RowsHold'
  <2>1. /\ Put(a, Written(e, agreements[a].curator)) /\ a \in DOMAIN agreements
        /\ \A u \in Pairs(a) : u[1] \in e.partners
    BY <1>4 DEF UpdateAgreement
  <2>2. agreements[a].curator \in Curators \cup {Nobody}
    BY <2>1 DEF AgreementsAreTyped, Agreement
  <2>3. Written(e, agreements[a].curator) \in Agreement /\ Written(e, agreements[a].curator).partners = e.partners
    BY <2>2, WrittenIsTyped
  <2>4. \A i \in DOMAIN entries : entries[i].agreement = a => entries[i].partner \in e.partners
    <3>1. ASSUME NEW i \in DOMAIN entries, entries[i].agreement = a PROVE entries[i].partner \in e.partners
      <4>1. <<entries[i].partner, entries[i].category>> \in Pairs(a)
        BY <3>1 DEF Pairs
      <4>2. <<entries[i].partner, entries[i].category>>[1] \in e.partners
        BY <4>1, <2>1
      <4> QED
        BY <4>2
    <3> QED
      BY <3>1
  <2> QED
    BY <1>1, <2>1, <2>3, <2>4, PutKeepsTypes
<1>5. ASSUME NEW c \in Curators \cup {Nobody}, SetCurator(a, c) PROVE AgreementsAreTyped' /\ RowsHold'
  <2>1. Put(a, [agreements[a] EXCEPT !.curator = c]) /\ a \in DOMAIN agreements /\ agreements[a] \in Agreement
    BY <1>5 DEF SetCurator, AgreementsAreTyped
  <2>2. /\ [agreements[a] EXCEPT !.curator = c] \in Agreement
        /\ [agreements[a] EXCEPT !.curator = c].partners = agreements[a].partners
    BY <2>1 DEF Agreement
  <2>3. \A i \in DOMAIN entries : entries[i].agreement = a => entries[i].partner \in agreements[a].partners
    BY DEF RowsHold, ReferencesHold
  <2> QED
    BY <1>1, <2>1, <2>2, <2>3, PutKeepsTypes
<1> QED
  BY <1>2, <1>3, <1>4, <1>5

(* Who is on file stays, unless no entry cites him.                        *)
LEMMA WithIsTyped ==
  ASSUME NEW f, NEW S, NEW T, DOMAIN f \subseteq S, \A x \in DOMAIN f : f[x] \in T,
         NEW m \in S, NEW v \in T
  PROVE  /\ DOMAIN With(f, m, v) \subseteq S /\ DOMAIN f \subseteq DOMAIN With(f, m, v)
         /\ \A x \in DOMAIN With(f, m, v) : With(f, m, v)[x] \in T
BY DEF With

LEMMA WithoutIsTyped ==
  ASSUME NEW f, NEW S, NEW T, DOMAIN f \subseteq S, \A x \in DOMAIN f : f[x] \in T, NEW m
  PROVE  /\ DOMAIN Without(f, m) \subseteq S /\ DOMAIN f \subseteq DOMAIN Without(f, m) \cup {m}
         /\ \A x \in DOMAIN Without(f, m) : Without(f, m)[x] \in T
BY DEF Without

LEMMA StaffStaysTyped ==
  ASSUME PeopleAreTyped, NEW m \in Members,
         \/ \E by \in {"admin", "hr"}, f \in Profiles, s \in Status, ps \in SUBSET Partners :
              CreateStaffMember(m, by, f, s, ps) \/ UpdateStaffMember(m, by, f, s, ps)
         \/ DeleteStaffMember(m, Cited(m))
  PROVE  /\ PeopleAreTyped' /\ UNCHANGED mentors
         /\ DOMAIN staff \subseteq DOMAIN staff' \/ (~Cited(m) /\ DOMAIN staff \subseteq DOMAIN staff' \cup {m})
<1>1. UNCHANGED mentors
  BY DEF CreateStaffMember, UpdateStaffMember, DeleteStaffMember
<1>2. DOMAIN staff \subseteq Members /\ \A x \in DOMAIN staff : staff[x] \in Employee
  BY DEF PeopleAreTyped
<1>3. CASE \E by \in {"admin", "hr"}, f \in Profiles, s \in Status, ps \in SUBSET Partners :
             CreateStaffMember(m, by, f, s, ps) \/ UpdateStaffMember(m, by, f, s, ps)
  <2>1. PICK by \in {"admin", "hr"}, f \in Profiles, s \in Status, ps \in SUBSET Partners :
          CreateStaffMember(m, by, f, s, ps) \/ UpdateStaffMember(m, by, f, s, ps)
    BY <1>3
  <2>. DEFINE card == [profile |-> f, status |-> s, archived |-> FALSE, partners |-> ps, by |-> by]
  <2>2. card \in Employee
    BY DEF Employee
  <2>3. staff' = With(staff, m, card)
    BY <2>1 DEF CreateStaffMember, UpdateStaffMember
  <2>. HIDE DEF card
  <2>4. /\ DOMAIN staff' \subseteq Members /\ DOMAIN staff \subseteq DOMAIN staff'
        /\ \A x \in DOMAIN staff' : staff'[x] \in Employee
    BY <1>2, <2>2, <2>3, WithIsTyped
  <2> QED
    BY <1>1, <2>4 DEF PeopleAreTyped
<1>4. CASE DeleteStaffMember(m, Cited(m))
  <2>1. CASE Cited(m)
    <3>1. m \in DOMAIN staff /\ staff' = [staff EXCEPT ![m].archived = TRUE]
      BY <1>4, <2>1 DEF DeleteStaffMember
    <3>2. DOMAIN staff' = DOMAIN staff /\ \A x \in DOMAIN staff' : staff'[x] \in Employee
      BY <1>2, <3>1 DEF Employee
    <3> QED
      BY <1>1, <1>2, <3>2 DEF PeopleAreTyped
  <2>2. CASE ~Cited(m)
    <3>1. staff' = Without(staff, m)
      BY <1>4, <2>2 DEF DeleteStaffMember
    <3>2. /\ DOMAIN staff' \subseteq Members /\ DOMAIN staff \subseteq DOMAIN staff' \cup {m}
          /\ \A x \in DOMAIN staff' : staff'[x] \in Employee
      BY <1>2, <3>1, WithoutIsTyped
    <3> QED
      BY <1>1, <2>2, <3>2 DEF PeopleAreTyped
  <2> QED
    BY <2>1, <2>2
<1> QED
  BY <1>3, <1>4

LEMMA MentorsStayTyped ==
  ASSUME PeopleAreTyped, NEW m \in Mentors,
         \/ \E n \in Names : UpdateMentor(m, n) \/ \E p \in Partners : CreateMentor(m, p, n)
         \/ DeleteMentor(m, MentorIsUsed(m))
  PROVE  /\ PeopleAreTyped' /\ UNCHANGED staff
         /\ \/ DOMAIN mentors \subseteq DOMAIN mentors'
            \/ ~MentorIsUsed(m) /\ DOMAIN mentors \subseteq DOMAIN mentors' \cup {m}
<1>1. UNCHANGED staff
  BY DEF UpdateMentor, CreateMentor, DeleteMentor
<1>2. DOMAIN mentors \subseteq Mentors /\ \A x \in DOMAIN mentors : mentors[x] \in MentorCard
  BY DEF PeopleAreTyped
<1>3. ASSUME NEW n \in Names, UpdateMentor(m, n)
      PROVE  PeopleAreTyped' /\ DOMAIN mentors \subseteq DOMAIN mentors'
  <2>1. m \in DOMAIN mentors /\ mentors' = [mentors EXCEPT ![m].name = n]
    BY <1>3 DEF UpdateMentor
  <2>2. DOMAIN mentors' = DOMAIN mentors /\ \A x \in DOMAIN mentors' : mentors'[x] \in MentorCard
    BY <1>2, <2>1 DEF MentorCard
  <2> QED
    BY <1>1, <1>2, <2>2 DEF PeopleAreTyped
<1>4. ASSUME NEW n \in Names, NEW p \in Partners, CreateMentor(m, p, n)
      PROVE  PeopleAreTyped' /\ DOMAIN mentors \subseteq DOMAIN mentors'
  <2>. DEFINE card == [partner |-> p, name |-> n, archived |-> FALSE]
  <2>1. mentors' = With(mentors, m, card)
    BY <1>4 DEF CreateMentor
  <2>2. card \in MentorCard
    BY DEF MentorCard
  <2>. HIDE DEF card
  <2>3. /\ DOMAIN mentors' \subseteq Mentors /\ DOMAIN mentors \subseteq DOMAIN mentors'
        /\ \A x \in DOMAIN mentors' : mentors'[x] \in MentorCard
    BY <1>2, <2>1, <2>2, WithIsTyped
  <2> QED
    BY <1>1, <2>3 DEF PeopleAreTyped
<1>5. CASE DeleteMentor(m, MentorIsUsed(m))
  <2>1. CASE MentorIsUsed(m)
    <3>1. m \in DOMAIN mentors /\ mentors' = [mentors EXCEPT ![m].archived = TRUE]
      BY <1>5, <2>1 DEF DeleteMentor
    <3>2. DOMAIN mentors' = DOMAIN mentors /\ \A x \in DOMAIN mentors' : mentors'[x] \in MentorCard
      BY <1>2, <3>1 DEF MentorCard
    <3> QED
      BY <1>1, <1>2, <3>2 DEF PeopleAreTyped
  <2>2. CASE ~MentorIsUsed(m)
    <3>1. mentors' = Without(mentors, m)
      BY <1>5, <2>2 DEF DeleteMentor
    <3>2. /\ DOMAIN mentors' \subseteq Mentors /\ DOMAIN mentors \subseteq DOMAIN mentors' \cup {m}
          /\ \A x \in DOMAIN mentors' : mentors'[x] \in MentorCard
      BY <1>2, <3>1, WithoutIsTyped
    <3> QED
      BY <1>1, <2>2, <3>2 DEF PeopleAreTyped
  <2> QED
    BY <2>1, <2>2
<1> QED
  BY <1>1, <1>3, <1>4, <1>5

LEMMA PeopleStayTyped ==
  ASSUME PeopleAreTyped, RowsHold, EditPeople
  PROVE  PeopleAreTyped' /\ RowsHold'
<1>1. UNCHANGED <<entries, agreements>>
  BY DEF EditPeople, agreementVars
<1>2. \/ \E m \in Members :
           \/ \E by \in {"admin", "hr"}, f \in Profiles, s \in Status, ps \in SUBSET Partners :
                CreateStaffMember(m, by, f, s, ps) \/ UpdateStaffMember(m, by, f, s, ps)
           \/ DeleteStaffMember(m, Cited(m))
      \/ \E m \in Mentors :
           \/ \E n \in Names : UpdateMentor(m, n) \/ \E p \in Partners : CreateMentor(m, p, n)
           \/ DeleteMentor(m, MentorIsUsed(m))
  BY DEF EditPeople
<1>3. /\ PeopleAreTyped'
      /\ \/ /\ UNCHANGED mentors
            /\ DOMAIN staff \subseteq DOMAIN staff'
                 \/ \E m \in Members : ~Cited(m) /\ DOMAIN staff \subseteq DOMAIN staff' \cup {m}
         \/ /\ UNCHANGED staff
            /\ DOMAIN mentors \subseteq DOMAIN mentors'
                 \/ \E m \in Mentors : ~MentorIsUsed(m) /\ DOMAIN mentors \subseteq DOMAIN mentors' \cup {m}
  BY <1>2, StaffStaysTyped, MentorsStayTyped
<1>4. \A i \in DOMAIN entries : entries[i].cites \in DOMAIN staff \cup DOMAIN mentors
                                  => entries[i].cites \in DOMAIN staff' \cup DOMAIN mentors'
  BY <1>3 DEF Cited, MentorIsUsed
<1>5. RowsHold'
  BY <1>1, <1>4 DEF RowsHold, ReferencesHold
<1> QED
  BY <1>3, <1>5

----------------------------------------------------------------------------
(* Requests and the rows they write.                                       *)

LEMMA EndCarriesNobody ==
  ASSUME AmountInv, NEW q \in Requests
  PROVE  End(q).snap = "" /\ End(q).cites = NoOne
<1>1. DOMAIN req[q] = ReqFields
  BY SoundOf DEF Sound
<1> QED
  BY <1>1 DEF End, ReqFields

(* A request that finds a person carries the card of that person.          *)
LEMMA PersonStaysCarried ==
  ASSUME AmountInv, PeopleAreTyped, PersonIsCarried, NEW q \in Requests, Serve(q)
  PROVE  PersonIsCarried'
<1>1. DOMAIN req = Requests /\ DOMAIN req[q] = ReqFields
  BY SoundOf DEF AmountInv, RequestsAreSound, Sound
<1>2. ASSUME NEW r, Go(q, r), r.snap \in Snaps, r.cites \in Persons PROVE PersonIsCarried'
  <2>1. req'[q] = r /\ \A p \in Requests : p # q => req'[p] = req[p]
    BY <1>1, <1>2 DEF Go
  <2> QED
    BY <1>2, <2>1 DEF PersonIsCarried
<1>3. CASE Go(q, End(q))
  BY <1>2, <1>3, EndCarriesNobody DEF Persons, Snaps
<1>4. req[q].snap \in Snaps /\ req[q].cites \in Persons
  BY DEF PersonIsCarried
<1>5. ASSUME NEW r, Go(q, r), r.snap = req[q].snap, r.cites = req[q].cites PROVE PersonIsCarried'
  BY <1>2, <1>4, <1>5
<1>6. CASE Check(q)
  <2>. DEFINE r == [req[q] EXCEPT !.at = "checked"]
  <2>1. Go(q, r) \/ Go(q, End(q))
    BY <1>6 DEF Check
  <2>2. r.snap = req[q].snap /\ r.cites = req[q].cites
    BY <1>1 DEF ReqFields
  <2>. HIDE DEF r
  <2> QED
    BY <1>3, <1>5, <2>1, <2>2
<1>7. CASE Resolve(q)
  <2>. DEFINE d == req[q].rows[1]
              import == asked[q].kind = "import"
              teacher == d.category \in Teaching /\ ~import /\ d.person # NoOne
              cites == IF teacher \/ d.category \in Mentored THEN d.person ELSE NoOne
              snap == CASE teacher -> staff[d.person].status
                        [] d.category \in Mentored -> mentors[d.person].name
                        [] OTHER -> ""
              r == [req[q] EXCEPT !.at = IF import THEN "ready" ELSE "resolved", !.cites = cites, !.snap = snap]
  <2>1. \/ Go(q, End(q))
        \/ /\ Go(q, r)
           /\ \A i \in DOMAIN req[q].rows :
                (import /\ req[q].rows[i].category \in Teaching) \/ PersonIsFit(req[q].rows[i], req[q].target)
    BY <1>7 DEF Resolve
  <2>2. d \in Draft /\ 1 \in DOMAIN req[q].rows
    BY SoundOf
  <2>3. CASE Go(q, r) /\ ((import /\ d.category \in Teaching) \/ PersonIsFit(d, req[q].target))
    <3>1. teacher => d.person \in DOMAIN staff
      <4>1. SUFFICES ASSUME teacher PROVE d.person \in DOMAIN staff
        OBVIOUS
      <4>2. PersonIsFit(d, req[q].target)
        BY <2>3, <4>1
      <4>3. d.category \in Teaching /\ d.person # NoOne
        BY <4>1
      <4>4. d.category \notin Mentored
        BY <4>3, EntriesAssumption DEF EntriesAssumption
      <4> QED
        BY <4>2, <4>3, <4>4 DEF PersonIsFit
    <3>2. d.category \in Mentored => d.category \notin Teaching /\ d.person \in DOMAIN mentors
      <4>1. Teaching \cap Mentored = {}
        BY EntriesAssumption DEF EntriesAssumption
      <4> QED
        BY <2>3, <4>1 DEF PersonIsFit
    <3>3. d.person \in Persons
      BY <2>2 DEF Draft, Persons
    <3>4. cites \in Persons
      BY <3>3 DEF Persons
    <3>5. snap \in Snaps
      <4>1. CASE teacher
        <5>1. staff[d.person] \in Employee
          BY <3>1, <4>1 DEF PeopleAreTyped
        <5>2. staff[d.person].status \in Status
          BY <5>1 DEF Employee
        <5>3. d.category \notin Mentored
          BY <3>2, <4>1
        <5>4. snap = staff[d.person].status
          BY <4>1, <5>3
        <5> QED
          BY <5>2, <5>4 DEF Snaps
      <4>2. CASE d.category \in Mentored
        <5>1. mentors[d.person].name \in Names /\ snap = mentors[d.person].name
          BY <3>2, <4>2 DEF PeopleAreTyped, MentorCard
        <5> QED
          BY <5>1 DEF Snaps
      <4>3. CASE ~teacher /\ d.category \notin Mentored
        BY <4>3 DEF Snaps
      <4> QED
        BY <4>1, <4>2, <4>3
    <3>. HIDE DEF cites, snap
    <3>6. r.snap = snap /\ r.cites = cites
      BY <1>1 DEF ReqFields
    <3>. HIDE DEF r
    <3> QED
      BY <1>2, <2>3, <3>4, <3>5, <3>6
  <2> QED
    BY <1>3, <2>1, <2>2, <2>3
<1>8. CASE LoadCard(q)
  <2>1. PICK at, card : Go(q, [req[q] EXCEPT !.at = at, !.card = card]) \/ Go(q, End(q))
    BY <1>8 DEF LoadCard
  <2>. DEFINE r == [req[q] EXCEPT !.at = at, !.card = card]
  <2>2. r.snap = req[q].snap /\ r.cites = req[q].cites
    BY <1>1 DEF ReqFields
  <2>3. Go(q, r) \/ Go(q, End(q))
    BY <2>1
  <2>. HIDE DEF r
  <2> QED
    BY <1>3, <1>5, <2>2, <2>3
<1>9. CASE Insert(q) \/ Write(q)
  BY <1>3, <1>9 DEF Insert, Write
<1>10. CASE Lock(q)
  <2>1. PICK target, was, rows :
          \/ Go(q, [req[q] EXCEPT !.at = "locked", !.target = target, !.was = was, !.rows = rows])
          \/ Go(q, End(q))
    BY <1>10 DEF Lock
  <2>. DEFINE r == [req[q] EXCEPT !.at = "locked", !.target = target, !.was = was, !.rows = rows]
  <2>2. r.snap = req[q].snap /\ r.cites = req[q].cites
    BY <1>1 DEF ReqFields
  <2>3. Go(q, r) \/ Go(q, End(q))
    BY <2>1
  <2>. HIDE DEF r
  <2> QED
    BY <1>3, <1>5, <2>2, <2>3
<1>11. CASE ReadPlans(q)
  <2>1. PICK plans : Go(q, [req[q] EXCEPT !.at = "copying", !.todo = plans])
    BY <1>11 DEF ReadPlans
  <2>2. /\ [req[q] EXCEPT !.at = "copying", !.todo = plans].snap = req[q].snap
        /\ [req[q] EXCEPT !.at = "copying", !.todo = plans].cites = req[q].cites
    BY <1>1 DEF ReqFields
  <2> QED
    BY <1>5, <2>1, <2>2
<1>12. CASE NextPlan(q)
  <2>1. PICK p, rows :
          \/ Go(q, [req[q] EXCEPT !.todo = @ \ {p}])
          \/ Go(q, [req[q] EXCEPT !.todo = @ \ {p}, !.rows = rows, !.at = "item"])
    BY <1>12 DEF NextPlan
  <2>. DEFINE left == req[q].todo \ {p}
              skipped == [req[q] EXCEPT !.todo = left]
              copied == [req[q] EXCEPT !.todo = left, !.rows = rows, !.at = "item"]
  <2>2. Go(q, skipped) \/ Go(q, copied)
    BY <2>1
  <2>. HIDE DEF left
  <2>3. /\ skipped.snap = req[q].snap /\ skipped.cites = req[q].cites
        /\ copied.snap = req[q].snap /\ copied.cites = req[q].cites
    BY <1>1 DEF ReqFields
  <2>. HIDE DEF skipped, copied
  <2> QED
    BY <1>5, <2>2, <2>3
<1>13. CASE CopyEnds(q)
  <2>. DEFINE r == [req[q] EXCEPT !.at = "done"]
  <2>1. Go(q, r)
    BY <1>13 DEF CopyEnds
  <2>2. r.snap = req[q].snap /\ r.cites = req[q].cites
    BY <1>1 DEF ReqFields
  <2>. HIDE DEF r
  <2> QED
    BY <1>5, <2>1, <2>2
<1> QED
  BY <1>6, <1>7, <1>8, <1>9, <1>10, <1>11, <1>12, <1>13 DEF Serve

LEMMA ProductIsNatural ==
  ASSUME NEW a \in Nat, NEW b \in Nat
  PROVE  a * b \in Nat
OBVIOUS

LEMMA RowIsTyped ==
  ASSUME VersionsAreTyped, NEW d \in Draft, NEW card, CardHolds(card),
         NEW cites \in Persons, NEW snap \in Snaps
  PROVE  Row(d, cites, snap, card) \in RowType
<1>1. d.category \in Categories /\ d.units \in Nat /\ d.actual \in Nat
  BY DEF Draft
<1>2. /\ Formula(d, card) \in Nat
      /\ ~Minc(d.category) => card[RateOf[d.category]] \in Nat
  <2>1. CASE Minc(d.category)
    BY <2>1, <1>1 DEF Formula
  <2>2. CASE ~Minc(d.category)
    <3>1. RateOf[d.category] \in Rates
      BY <1>1, <2>2, RateIsThere
    <3>2. PICK r \in Rates : \E k \in DOMAIN versions[r] : r = RateOf[d.category] /\ k = card[r]
      BY <3>1 DEF CardHolds
    <3>8. PICK k \in DOMAIN versions[r] : r = RateOf[d.category] /\ k = card[r]
      BY <3>2
    <3>3. versions[r] \in Seq(Version)
      BY DEF VersionsAreTyped
    <3>4. k \in Nat /\ versions[r][k] \in Version
      BY <3>8, <3>3
    <3>5. versions[r][k].price \in Nat
      BY <3>4, TariffsAssumption DEF Version, TariffsAssumption
    <3>6. d.units * versions[r][k].price \in Nat
      BY <1>1, <3>5, ProductIsNatural
    <3>7. Formula(d, card) = d.units * versions[r][k].price
      BY <2>2, <3>8 DEF Formula
    <3> QED
      BY <3>4, <3>6, <3>7, <3>8
  <2> QED
    BY <2>1, <2>2
<1>3. Amount(d, card) \in Nat
  BY <1>1, <1>2 DEF Amount
<1>. DEFINE formula == Formula(d, card)
            amount == Amount(d, card)
            basis == IF Minc(d.category) THEN 0 ELSE card[RateOf[d.category]]
<1>4. formula \in Nat /\ amount \in Nat /\ basis \in Nat
  BY <1>2, <1>3
<1>5. Row(d, cites, snap, card) =
        [category |-> d.category, partner |-> d.partner, agreement |-> d.agreement, year |-> d.year,
         period |-> d.period, slot |-> d.slot, units |-> d.units, person |-> d.person,
         method |-> d.method, actual |-> d.actual, payout |-> d.payout, origin |-> d.origin,
         cites |-> cites, snap |-> snap, formula |-> formula, amount |-> amount, basis |-> basis]
  BY DEF Row, RowOn
<1>. HIDE DEF formula, amount, basis
<1>. DEFINE category == d.category
            partner == d.partner
            agreement == d.agreement
            year == d.year
            period == d.period
            slot == d.slot
            n == d.units
            person == d.person
            method == d.method
            actual == d.actual
            payout == d.payout
            origin == d.origin
<1>6. /\ category \in Categories /\ partner \in Partners /\ agreement \in AgreementIds
      /\ year \in Years /\ period \in {"plan", "fact"} /\ slot \in STRING
      /\ n \in Nat \ {0} /\ person \in Members \cup Mentors \cup {NoOne}
      /\ method \in {"average", "actual"} /\ actual \in Nat /\ payout \in STRING /\ origin \in Nat
  BY DEF Draft
<1>7. cites \in Members \cup Mentors \cup {NoOne} /\ snap \in Status \cup Names \cup {""}
  BY DEF Persons, Snaps
<1>. HIDE DEF category, partner, agreement, year, period, slot, n, person, method, actual, payout, origin
<1>8. [category |-> category, partner |-> partner, agreement |-> agreement, year |-> year,
       period |-> period, slot |-> slot, units |-> n, person |-> person,
       method |-> method, actual |-> actual, payout |-> payout, origin |-> origin,
       cites |-> cites, snap |-> snap, formula |-> formula, amount |-> amount, basis |-> basis] \in RowType
  BY <1>4, <1>6, <1>7 DEF RowType
<1> QED
  BY <1>5, <1>8 DEF category, partner, agreement, year, period, slot, n, person, method, actual, payout, origin

(* What is written is typed, and the keys of the database hold for it.     *)
LEMMA RowsStayTyped ==
  ASSUME AmountInv, VersionsAreTyped, PersonIsCarried, RowsHold, NEW q \in Requests,
         Serve(q), UNCHANGED worldVars
  PROVE  RowsHold' /\ DOMAIN entries \subseteq DOMAIN entries'
<1>1. UNCHANGED <<agreements, staff, mentors>>
  BY DEF worldVars, agreementVars, peopleVars
<1>2. CASE entries' = entries
  BY <1>1, <1>2 DEF RowsHold, ReferencesHold
<1>3. IsList(entries) /\ DOMAIN entries = 1 .. Len(entries) /\ Len(entries) \in Nat
  BY DEF AmountInv, EntriesAreExplained, IsList
<1>4. ASSUME req[q].at = "ready"
      PROVE  /\ IsList(Rows(q)) /\ 1 \in 1 .. Len(Rows(q))
             /\ \A i \in 1 .. Len(Rows(q)) : Rows(q)[i] \in RowType
  <2>1. /\ IsList(Rows(q)) /\ Len(Rows(q)) = Len(req[q].rows) /\ Len(Rows(q)) >= 1
        /\ DOMAIN req[q].rows = 1 .. Len(Rows(q))
        /\ \A i \in DOMAIN req[q].rows : req[q].rows[i] \in Draft
    BY <1>4, RowsAreExplained, SoundOf
  <2>2. CardHolds(req[q].card) /\ req[q].snap \in Snaps /\ req[q].cites \in Persons
    BY <1>4, SoundOf DEF Sound, PersonIsCarried
  <2>3. \A i \in 1 .. Len(Rows(q)) : Rows(q)[i] = Row(req[q].rows[i], req[q].cites, req[q].snap, req[q].card)
    BY <2>1 DEF Rows
  <2>4. 1 \in 1 .. Len(Rows(q))
    BY <2>1 DEF IsList
  <2> QED
    BY <2>1, <2>2, <2>3, <2>4, RowIsTyped
<1>5. CASE Insert(q) /\ entries' # entries
  <2>. DEFINE new == Rows(q)
  <2>1. entries' = entries \o new /\ Accepted(entries \o new) /\ req[q].at = "ready"
    BY <1>5 DEF Insert
  <2>2. IsList(new) /\ \A i \in 1 .. Len(new) : new[i] \in RowType
    BY <1>4, <2>1
  <2>. HIDE DEF new
  <2>3. /\ DOMAIN entries' = 1 .. Len(entries) + Len(new)
        /\ \A i \in 1 .. Len(entries) : entries'[i] = entries[i]
        /\ \A i \in 1 .. Len(new) : entries'[Len(entries) + i] = new[i]
    BY <1>3, <2>1, <2>2, Joined
  <2>4. Len(new) \in Nat
    BY <2>2 DEF IsList
  <2>5. \A i \in DOMAIN entries' : ReferencesHold(entries'[i])
    BY <2>1 DEF Accepted
  <2>6. ASSUME NEW i \in DOMAIN entries' PROVE entries'[i] \in RowType
    <3>1. CASE i \in 1 .. Len(entries)
      BY <3>1, <1>3, <2>3 DEF RowsHold
    <3>2. CASE i \notin 1 .. Len(entries)
      <4>1. i - Len(entries) \in 1 .. Len(new) /\ i = Len(entries) + (i - Len(entries))
        BY <3>2, <2>3, <2>4, <2>6, <1>3
      <4>2. PICK k \in 1 .. Len(new) : i = Len(entries) + k
        BY <4>1
      <4> QED
        BY <4>2, <2>2, <2>3
    <3> QED
      BY <3>1, <3>2
  <2>7. DOMAIN entries \subseteq DOMAIN entries'
    BY <1>3, <2>3, <2>4
  <2> QED
    BY <1>1, <2>5, <2>6, <2>7 DEF RowsHold, ReferencesHold
<1>6. CASE Write(q) /\ entries' # entries
  <2>. DEFINE t == req[q].target
              x == Rows(q)[1]
              cited == IF x.cites = NoOne THEN entries[t].cites ELSE x.cites
              new == [x EXCEPT !.cites = cited]
  <2>1. /\ entries' = [entries EXCEPT ![t] = new] /\ Accepted(entries') /\ req[q].at = "ready"
        /\ EditsAnEntry(q)
    BY <1>6 DEF Write, EditsAnEntry
  <2>2. t \in DOMAIN entries
    BY <2>1, SoundOf DEF Sound, KnowsItsEntry
  <2>3. x \in RowType /\ entries[t] \in RowType
    BY <1>4, <2>1, <2>2 DEF RowsHold
  <2>4. cited \in Persons
    BY <2>3 DEF RowType, Persons
  <2>. HIDE DEF cited, x
  <2>5. new \in RowType
    BY <2>3, <2>4 DEF RowType, Persons
  <2>. HIDE DEF new
  <2>6. DOMAIN entries' = DOMAIN entries /\ \A i \in DOMAIN entries : entries'[i] \in RowType
    BY <2>1, <2>5 DEF RowsHold
  <2>7. \A i \in DOMAIN entries' : ReferencesHold(entries'[i])
    BY <2>1 DEF Accepted
  <2> QED
    BY <1>1, <2>6, <2>7 DEF RowsHold, ReferencesHold
<1> QED
  BY <1>2, <1>5, <1>6 DEF Serve, Check, Resolve, LoadCard, Lock, ReadPlans, NextPlan, CopyEnds

LEMMA PayoutsStay ==
  ASSUME PayoutsHaveEntries, EditPayouts
  PROVE  PayoutsHaveEntries'
<1>1. UNCHANGED entries
  BY DEF EditPayouts
<1>2. DOMAIN payouts = 1 .. Len(payouts) /\ Len(payouts) \in Nat
  BY DEF PayoutsHaveEntries, IsList
<1>3. PICK i \in DOMAIN entries, quarter \in {"Q1", "Q2"}, paid \in BOOLEAN :
        \/ payouts' = Append(payouts, Payout(i, quarter, paid))
        \/ \E k \in DOMAIN payouts : payouts' = [payouts EXCEPT ![k] = Payout(i, quarter, paid)]
  BY DEF EditPayouts
<1>. DEFINE row == Payout(i, quarter, paid)
<1>4. row.entry = i
  BY DEF Payout
<1>. HIDE DEF row
<1>5. CASE payouts' = Append(payouts, row)
  <2>1. /\ IsList(payouts') /\ DOMAIN payouts' = 1 .. Len(payouts) + 1
        /\ payouts'[Len(payouts) + 1] = row
        /\ \A k \in 1 .. Len(payouts) : payouts'[k] = payouts[k]
    BY <1>5, Appended DEF PayoutsHaveEntries
  <2> QED
    BY <1>1, <1>2, <1>4, <2>1 DEF PayoutsHaveEntries
<1>6. ASSUME NEW k \in DOMAIN payouts, payouts' = [payouts EXCEPT ![k] = row] PROVE PayoutsHaveEntries'
  <2>1. payouts' = [j \in 1 .. Len(payouts) |-> IF j = k THEN row ELSE payouts[j]]
    BY <1>2, <1>6 DEF PayoutsHaveEntries, IsList
  <2>2. Len(payouts') = Len(payouts)
    BY <1>2, <2>1
  <2>3. IsList(payouts')
    BY <1>2, <2>1, <2>2 DEF IsList
  <2> QED
    BY <1>1, <1>2, <1>4, <2>1, <2>3 DEF PayoutsHaveEntries
<1> QED
  BY <1>3, <1>5, <1>6 DEF row

LEMMA RegistryInitially == EntriesInit => RegistryInv
<1>. SUFFICES ASSUME EntriesInit PROVE RegistryInv
  OBVIOUS
<1>1. AmountInv
  BY AmountsInitially
<1>2. VersionsAreTyped
  <2>1. versions = [r \in Rates |-> <<[from |-> First, until |-> Forever, price |-> Seed]>>]
    BY DEF EntriesInit, TariffsInit
  <2>2. [from |-> First, until |-> Forever, price |-> Seed] \in Version
    BY YearsAreBounded, TariffsAssumption DEF Version, TariffsAssumption
  <2> QED
    BY <2>1, <2>2 DEF VersionsAreTyped
<1>3. AgreementsAreTyped
  <2>1. agreements = [a \in DOMAIN Founding |-> Written(Founding[a], Nobody)] /\ authority = TRUE
    BY DEF EntriesInit
  <2>2. DOMAIN Founding \subseteq AgreementIds /\ \A a \in DOMAIN Founding : Founding[a] \in Edits
    BY EntriesAssumption DEF EntriesAssumption
  <2>3. \A a \in DOMAIN Founding : Written(Founding[a], Nobody) \in Agreement
    BY <2>2, WrittenIsTyped
  <2> QED
    BY <2>1, <2>2, <2>3 DEF AgreementsAreTyped
<1>4. PeopleAreTyped
  BY EntriesAssumption DEF EntriesAssumption, EntriesInit, PeopleAreTyped
<1>5. PersonIsCarried
  BY DEF EntriesInit, PersonIsCarried, Persons, Snaps
<1>6. RowsHold /\ PayoutsHaveEntries
  <2>1. entries = <<>> /\ payouts = <<>>
    BY DEF EntriesInit
  <2>2. IsList(<<>>) /\ DOMAIN <<>> = {}
    BY DEF IsList
  <2> QED
    BY <2>1, <2>2 DEF RowsHold, PayoutsHaveEntries
<1> QED
  BY <1>1, <1>2, <1>3, <1>4, <1>5, <1>6 DEF RegistryInv

LEMMA RegistryIsKept ==
  ASSUME RegistryInv, [Next]_vars
  PROVE  RegistryInv'
<1>1. AmountInv'
  BY AmountsAreKept DEF RegistryInv
<1>2. CASE \E q \in Requests : Serve(q) /\ UNCHANGED worldVars
  <2>1. PICK q \in Requests : Serve(q) /\ UNCHANGED worldVars
    BY <1>2
  <2>2. UNCHANGED <<versions, agreements, authority, staff, mentors, payouts>>
    BY <2>1 DEF worldVars, tariffVars, agreementVars, peopleVars
  <2>3. VersionsAreTyped' /\ AgreementsAreTyped' /\ PeopleAreTyped'
    BY <2>2 DEF RegistryInv, VersionsAreTyped, AgreementsAreTyped, PeopleAreTyped
  <2>4. PersonIsCarried' /\ RowsHold' /\ DOMAIN entries \subseteq DOMAIN entries'
    BY <2>1, PersonStaysCarried, RowsStayTyped DEF RegistryInv
  <2>5. PayoutsHaveEntries'
    BY <2>2, <2>4 DEF RegistryInv, PayoutsHaveEntries, IsList
  <2> QED
    BY <1>1, <2>3, <2>4, <2>5 DEF RegistryInv
<1>3. CASE /\ UNCHANGED <<entries, req>>
           /\ UNCHANGED tariffVars \/ TariffsNext
           /\ \/ UNCHANGED agreementVars
              \/ \E a \in AgreementIds : EditAgreement(a)
              \/ EditAuthority
           /\ UNCHANGED <<staff, mentors>> \/ EditPeople
           /\ UNCHANGED payouts \/ EditPayouts
  <2>1. VersionsAreTyped'
    <3>1. CASE UNCHANGED tariffVars
      BY <3>1 DEF RegistryInv, VersionsAreTyped, tariffVars
    <3>2. CASE TariffsNext
      BY <3>2, VersionsStayTyped DEF RegistryInv, AmountInv
    <3> QED
      BY <1>3, <3>1, <3>2
  <2>2. PersonIsCarried'
    BY <1>3 DEF RegistryInv, PersonIsCarried
  <2>3. PayoutsHaveEntries'
    <3>1. CASE UNCHANGED payouts
      BY <1>3, <3>1 DEF RegistryInv, PayoutsHaveEntries, IsList
    <3> QED
      BY <1>3, <3>1, PayoutsStay DEF RegistryInv
  <2>4. AgreementsAreTyped' /\ PeopleAreTyped' /\ RowsHold'
    <3>1. CASE \E a \in AgreementIds : EditAgreement(a)
      <4>1. AgreementsAreTyped' /\ RowsHold'
        BY <3>1, AgreementsStayTyped DEF RegistryInv
      <4>2. UNCHANGED <<staff, mentors>>
        BY <3>1 DEF EditAgreement, peopleVars
      <4> QED
        BY <4>1, <4>2 DEF RegistryInv, PeopleAreTyped
    <3>2. CASE EditPeople
      <4>1. PeopleAreTyped' /\ RowsHold'
        BY <3>2, PeopleStayTyped DEF RegistryInv
      <4>2. UNCHANGED <<agreements, authority>>
        BY <3>2 DEF EditPeople, agreementVars
      <4> QED
        BY <4>1, <4>2 DEF RegistryInv, AgreementsAreTyped
    <3>3. CASE UNCHANGED <<staff, mentors>> /\ (UNCHANGED agreementVars \/ EditAuthority)
      <4>1. UNCHANGED agreements /\ authority' \in BOOLEAN
        BY <3>3 DEF EditAuthority, ChangeAuthority, agreementVars, RegistryInv, AgreementsAreTyped
      <4> QED
        BY <1>3, <3>3, <4>1 DEF RegistryInv, AgreementsAreTyped, PeopleAreTyped, RowsHold, ReferencesHold
    <3> QED
      BY <1>3, <3>1, <3>2, <3>3
  <2> QED
    BY <1>1, <2>1, <2>2, <2>3, <2>4 DEF RegistryInv
<1> QED
  BY <1>2, <1>3, WhoMovesWhat

(* Rows, histories and requests have their types, every entry has its      *)
(* agreement with its partner and the person it cites, every payout its    *)
(* entry, and no two edits hold one row, whoever edits the agreements and  *)
(* the directories meanwhile (the keys of 0012 and 0301).                  *)
THEOREM RegistryTyped == Spec => []TypeOK
<1>1. RegistryInv => TypeOK
  <2>1. SUFFICES ASSUME RegistryInv PROVE TypeOK
    OBVIOUS
  <2>2. IsList(entries) /\ Len(costs) = Len(entries) /\ DOMAIN entries = 1 .. Len(entries)
    BY <2>1 DEF RegistryInv, AmountInv, EntriesAreExplained, IsList
  <2>3. entries \in Seq(RowType)
    BY <2>1, <2>2, ListsAreSequences DEF RegistryInv, RowsHold
  <2>4. \A q, p \in Requests : req[q].target # 0 /\ req[q].target = req[p].target => q = p
    BY <2>1 DEF RegistryInv, AmountInv, OneHolder
  <2>5. publish \in [Publishers -> Transaction]
    BY <2>1 DEF RegistryInv, AmountInv, TilingInv, PublicationsAreTyped
  <2> QED
    BY <2>1, <2>2, <2>3, <2>4, <2>5
    DEF RegistryInv, TypeOK, VersionsAreTyped, AgreementsAreTyped, PeopleAreTyped, RowsHold, PayoutsHaveEntries
<1> QED
  BY <1>1, RegistryInitially, RegistryIsKept, PTL DEF Spec
=============================================================================
