--------------------------- MODULE Evidence_proofs ---------------------------
(***************************************************************************)
(* Proofs about what the system keeps as evidence: the journal and its     *)
(* chain (AuditChain), for any number of transactions, entries and purges  *)
(* and any of the transactions serializable; the documents with their      *)
(* reviews, the report they support and its readers (Evidence, Analytics), *)
(* for any entries, documents, components and requests; and the sums of    *)
(* the dashboard and of the printed forms (Analytics, Forms), for any      *)
(* amounts, slices and order of texts.                                     *)
(***************************************************************************)
EXTENDS AuditChain, Forms, WellFoundedInduction, FiniteSetTheorems, TLAPS

\* Every entry there is, committed or not.
Written == {r \in JournalEntry : r \in Entries \/ \E t \in Transactions : r \in tx[t].own}

\* ChainTypeOK without the claim that the archive has nothing the journal has.
Typed ==
  /\ clock \in 0..MaxClock /\ sequence \in 0..MaxNumber
  /\ journal \subseteq JournalEntry /\ archive \subseteq JournalEntry
  /\ tx \in [Transactions -> Transaction]
  /\ causes \subseteq {"overtaken", "stale", "ahead", "lost"}

\* A transaction that is not running has nothing; one at a time has written.
OneWriter ==
  /\ \A t \in Transactions : tx[t].at # "open" => tx[t].number = 0 /\ tx[t].own = {}
  /\ \A t, u \in Transactions : tx[t].own # {} /\ tx[u].own # {} => t = u

\* No number is given twice, and what has one stays apart.
NumbersAreUnique ==
  /\ \A r \in Written : r.seq <= sequence
  /\ \A r, s \in Written : r.seq = s.seq => r = s
  /\ \A t \in Transactions : /\ tx[t].number <= sequence
                             /\ tx[t].number # 0 => \A r \in Written : r.seq # tx[t].number
  /\ \A t, u \in Transactions : t # u /\ tx[t].number # 0 => tx[u].number # tx[t].number
  /\ \A t \in Transactions : tx[t].own \cap Entries = {}
  /\ journal \cap archive = {}

\* A snapshot shows what is there; a link made leads somewhere, also before COMMIT.
LinksHold ==
  /\ \A t \in Transactions : tx[t].seen \cup tx[t].seenArchive \subseteq Entries
  /\ \A t \in Transactions : \A r \in tx[t].own :
       r.prev = 0 \/ \E p \in Entries \cup tx[t].own : p.seq = r.prev
  /\ LinksLeadSomewhere

OneStart == "stale" \notin causes => \A r, s \in Written : r.prev = 0 /\ s.prev = 0 => r = s

\* As long as nothing unusual has happened the numbers are linked one by one,
\* and what is not committed comes after everything that is.
InOrder ==
  causes = {} =>
    /\ \A r \in Written : r.prev = r.seq - 1
    /\ \A n \in 1..sequence :
         (\E r \in Written : r.seq = n) \/ (\E t \in Transactions : tx[t].number = n)
    /\ \A r \in Written : \A n \in 1..r.seq : \E s \in Written : s.seq = n
    /\ \A t \in Transactions : \A r \in tx[t].own : \A e \in Entries : e.seq < r.seq

IInv == Typed /\ OneWriter /\ NumbersAreUnique /\ LinksHold /\ OneStart /\ InOrder

-----------------------------------------------------------------------------
\* The least and the greatest of a set of numbers.

LEMMA LeastExists ==
  ASSUME NEW S \in SUBSET Nat, S # {}
  PROVE  \E x \in S : \A y \in S : x <= y
<1>1. PICK x \in S : \A y \in S : ~(<<y, x>> \in OpToRel(<, Nat))
  BY NatLessThanWellFounded, WFMin
<1>2. ASSUME NEW y \in S PROVE x <= y
  <2>1. CASE y < x
    <3>1. <<y, x>> \in Nat \X Nat /\ <<y, x>>[1] < <<y, x>>[2]
      BY <2>1
    <3> QED
      BY <3>1, <1>1 DEF OpToRel
  <2> QED
    BY <2>1
<1> QED
  BY <1>2

LEMMA GreatestExists ==
  ASSUME NEW n \in Nat, NEW S \in SUBSET (0..n), S # {}
  PROVE  /\ Max(S) \in S
         /\ \A y \in S : y <= Max(S)
<1> DEFINE T == {n - x : x \in S}
<1>1. T \in SUBSET Nat /\ T # {}
  <2>1. \A x \in S : n - x \in Nat
    OBVIOUS
  <2>2. PICK x \in S : TRUE
    OBVIOUS
  <2>3. n - x \in T
    OBVIOUS
  <2> QED
    BY <2>1, <2>3
<1>2. PICK x \in T : \A y \in T : x <= y
  BY <1>1, LeastExists
<1>3. PICK z \in S : x = n - z
  BY <1>2
<1>4. \A y \in S : z >= y
  <2> SUFFICES ASSUME NEW y \in S PROVE z >= y
    OBVIOUS
  <2>1. x <= n - y
    BY <1>2
  <2> QED
    BY <1>3, <2>1
<1>5. \E m \in S : \A y \in S : m >= y
  BY <1>4
<1> QED
  BY <1>5 DEF Max

\* Newest finds the greatest number of a set of entries, 0 if there is none.
LEMMA NewestFinds ==
  ASSUME NEW rows \in SUBSET JournalEntry
  PROVE  /\ Newest(rows) \in 0..MaxNumber
         /\ \A r \in rows : r.seq <= Newest(rows)
         /\ Newest(rows) # 0 => \E r \in rows : r.seq = Newest(rows)
         /\ Newest(rows) = 0 => rows = {}
<1> DEFINE S == {0} \cup {r.seq : r \in rows}
<1>1. MaxNumber \in Nat
  BY ChainAssumption
<1>2. S \in SUBSET (0..MaxNumber) /\ S # {}
  BY <1>1 DEF JournalEntry
<1>3. Max(S) \in S /\ \A y \in S : y <= Max(S)
  BY <1>1, <1>2, GreatestExists
<1>4. Newest(rows) = Max(S)
  BY DEF Newest
<1>5. \A r \in rows : r.seq \in S /\ r.seq \in 1..MaxNumber
  BY DEF JournalEntry
<1>6. \A x \in S : x = 0 \/ \E r \in rows : r.seq = x
  OBVIOUS
<1> HIDE DEF S
<1>7. Newest(rows) = 0 => rows = {}
  BY <1>1, <1>3, <1>4, <1>5
<1> QED
  BY <1>1, <1>2, <1>3, <1>4, <1>5, <1>6, <1>7

-----------------------------------------------------------------------------
\* What the steps do, as the invariant sees them.

Others(t) == \A u \in Transactions \ {t} : tx'[u] = tx[u]

\* Begin, Purge and Tick.
Quiet ==
  /\ Entries' = Entries /\ UNCHANGED <<sequence, causes>>
  /\ journal \cap archive = {} => journal' \cap archive' = {}
  /\ \A u \in Transactions :
       /\ tx'[u].own = tx[u].own /\ tx'[u].number = tx[u].number
       /\ tx[u].at = "open" => tx'[u].at = "open"
       /\ tx'[u].seen \cup tx'[u].seenArchive
            \subseteq tx[u].seen \cup tx[u].seenArchive \cup Entries

Taken(t) ==
  /\ UNCHANGED <<journal, archive, causes>> /\ Others(t)
  /\ sequence' = sequence + 1 /\ tx'[t].number = sequence + 1
  /\ tx[t].at = "open" /\ tx'[t].at = "open" /\ tx[t].number = 0
  /\ tx'[t].own = tx[t].own
  /\ tx'[t].seen = tx[t].seen /\ tx'[t].seenArchive = tx[t].seenArchive

New(t) == [seq |-> tx[t].number, created |-> tx[t].started,
           prev |-> EndOfChain(Visible(t), VisibleArchive(t))]

Linked(t) ==
  /\ UNCHANGED <<journal, archive, sequence>> /\ Others(t)
  /\ tx[t].number # 0 /\ LockIsFree(t) /\ New(t) \in JournalEntry
  /\ tx'[t].number = 0 /\ tx'[t].own = tx[t].own \cup {New(t)}
  /\ tx'[t].at = tx[t].at
  /\ tx'[t].seen = tx[t].seen /\ tx'[t].seenArchive = tx[t].seenArchive
  /\ causes' = causes \cup Unusual(t)

\* Commit, and Rollback.
Over(t) ==
  /\ Others(t) /\ UNCHANGED <<archive, sequence>>
  /\ tx'[t].number = 0 /\ tx'[t].own = {}
  /\ tx'[t].seen = {} /\ tx'[t].seenArchive = {}

Committed(t) ==
  /\ Over(t) /\ tx[t].number = 0 /\ causes' = causes
  /\ journal' = journal \cup tx[t].own

RolledBack(t) ==
  /\ Over(t) /\ journal' = journal
  /\ causes \subseteq causes'
  /\ tx[t].number # 0 \/ tx[t].own # {} => causes' # {}

Form == \/ Quiet
        \/ \E t \in Transactions : Taken(t) \/ Linked(t) \/ Committed(t) \/ RolledBack(t)

LEMMA BoundsAreNumbers == MaxNumber \in Nat /\ MaxClock \in Nat
BY ChainAssumption

\* What the trigger sees is there, or its own.
LEMMA VisibleIsThere ==
  ASSUME Typed, LinksHold, NEW t \in Transactions
  PROVE  /\ Visible(t) \in SUBSET JournalEntry /\ VisibleArchive(t) \in SUBSET JournalEntry
         /\ Visible(t) \subseteq Entries \cup tx[t].own /\ VisibleArchive(t) \subseteq Entries
         /\ tx[t].own \subseteq Visible(t)
<1>1. tx[t] \in Transaction
  BY DEF Typed
<1>2. tx[t].own \in SUBSET JournalEntry /\ tx[t].seen \in SUBSET JournalEntry /\ tx[t].seenArchive \in SUBSET JournalEntry
  BY <1>1 DEF Transaction
<1>3. tx[t].seen \subseteq Entries /\ tx[t].seenArchive \subseteq Entries
  BY DEF LinksHold
<1> QED
  BY <1>2, <1>3 DEF Visible, VisibleArchive, Entries, Typed

LEMMA NewIsEntry ==
  ASSUME Typed, LinksHold, NEW t \in Transactions, tx[t].number # 0
  PROVE  New(t) \in JournalEntry
<1>1. tx[t] \in Transaction
  BY DEF Typed
<1>2. tx[t].number \in 1..MaxNumber /\ tx[t].started \in 0..MaxClock
  BY <1>1, BoundsAreNumbers DEF Transaction
<1>3. EndOfChain(Visible(t), VisibleArchive(t)) \in 0..MaxNumber
  BY VisibleIsThere, NewestFinds DEF EndOfChain
<1> QED
  BY <1>2, <1>3 DEF New, JournalEntry

LEMMA StepForms ==
  ASSUME Typed, OneWriter, LinksHold, [ChainNext]_chainVars
  PROVE  Typed' /\ Form
<1> USE DEF Form
<1>0. /\ NotRunning("over") \in Transaction /\ NotRunning("open") \in Transaction
      /\ \A place \in {"open", "over"} :
           /\ NotRunning(place).at = place /\ NotRunning(place).number = 0
           /\ NotRunning(place).own = {} /\ NotRunning(place).seen = {}
           /\ NotRunning(place).seenArchive = {}
  BY BoundsAreNumbers DEF NotRunning, Transaction
<1>1. ASSUME NEW t \in Transactions, Begin(t) PROVE Typed' /\ Quiet
  <2> DEFINE began == [NotRunning("open") EXCEPT !.started = clock,
              !.seen = IF t \in Serializable THEN journal ELSE {},
              !.seenArchive = IF t \in Serializable THEN archive ELSE {}]
  <2>1. tx' = [tx EXCEPT ![t] = began]
    BY <1>1 DEF Begin
  <2>2. /\ began \in Transaction /\ began.at = "open" /\ began.number = 0 /\ began.own = {}
        /\ began.seen \subseteq journal /\ began.seenArchive \subseteq archive
    BY <1>0 DEF Transaction, NotRunning, Typed
  <2> HIDE DEF began
  <2>3. tx[t].number = 0 /\ tx[t].own = {}
    BY <1>1 DEF Begin, OneWriter
  <2>4. Typed'
    BY <1>1, <2>1, <2>2 DEF Typed, Begin
  <2>5. \A u \in Transactions :
          /\ tx'[u].own = tx[u].own /\ tx'[u].number = tx[u].number
          /\ tx[u].at = "open" => tx'[u].at = "open"
          /\ tx'[u].seen \cup tx'[u].seenArchive
               \subseteq tx[u].seen \cup tx[u].seenArchive \cup Entries
    BY <2>1, <2>2, <2>3 DEF Typed, Entries
  <2> QED
    BY <1>1, <2>4, <2>5 DEF Quiet, Begin, Entries
<1>2. ASSUME NEW t \in Transactions, TakeNumber(t) PROVE Typed' /\ Taken(t)
  <2> DEFINE took == [tx[t] EXCEPT !.number = sequence + 1]
  <2>1. tx' = [tx EXCEPT ![t] = took]
    BY <1>2 DEF TakeNumber
  <2>2. tx[t] \in Transaction /\ sequence + 1 \in 0..MaxNumber
    BY <1>2, BoundsAreNumbers DEF TakeNumber, Typed
  <2>3. /\ took \in Transaction /\ took.number = sequence + 1 /\ took.at = tx[t].at
        /\ took.own = tx[t].own /\ took.seen = tx[t].seen /\ took.seenArchive = tx[t].seenArchive
    BY <2>2 DEF Transaction
  <2> HIDE DEF took
  <2>4. Typed'
    BY <1>2, <2>1, <2>2, <2>3 DEF Typed, TakeNumber
  <2> QED
    BY <1>2, <2>1, <2>3, <2>4 DEF Taken, Others, TakeNumber, Typed
<1>3. ASSUME NEW t \in Transactions, Link(t) PROVE Typed' /\ Linked(t)
  <2> DEFINE did == [tx[t] EXCEPT !.number = 0, !.own = tx[t].own \cup {New(t)}]
  <2>1. tx' = [tx EXCEPT ![t] = did]
    BY <1>3 DEF Link, New, Typed
  <2>2. tx[t] \in Transaction /\ New(t) \in JournalEntry /\ 0 \in 0..MaxNumber
    BY <1>3, NewIsEntry, BoundsAreNumbers DEF Link, Typed
  <2>3. /\ did \in Transaction /\ did.number = 0 /\ did.at = tx[t].at
        /\ did.own = tx[t].own \cup {New(t)}
        /\ did.seen = tx[t].seen /\ did.seenArchive = tx[t].seenArchive
    BY <2>2 DEF Transaction
  <2> HIDE DEF did
  <2>4. causes' \subseteq {"overtaken", "stale", "ahead", "lost"}
    BY <1>3 DEF Link, Unusual, Typed
  <2>5. Typed'
    BY <1>3, <2>1, <2>3, <2>4 DEF Typed, Link
  <2> QED
    BY <1>3, <2>1, <2>2, <2>3, <2>5 DEF Linked, Others, Link, Typed
<1>4. ASSUME NEW t \in Transactions, Commit(t) PROVE Typed' /\ Committed(t)
  <2>1. tx[t].own \subseteq JournalEntry
    BY DEF Typed, Transaction
  <2> QED
    BY <1>0, <1>4, <2>1 DEF Commit, Committed, Over, Others, Typed
<1>5. ASSUME NEW t \in Transactions, Rollback(t) PROVE Typed' /\ RolledBack(t)
  BY <1>0, <1>5 DEF Rollback, RolledBack, Over, Others, Typed
<1>6. ASSUME Purge PROVE Typed' /\ Quiet
  <2>1. Expired \subseteq journal
    BY DEF Expired
  <2>2. Entries' = Entries /\ (journal \cap archive = {} => journal' \cap archive' = {})
    BY <1>6, <2>1 DEF Purge, Entries
  <2> QED
    BY <1>6, <2>1, <2>2 DEF Purge, Quiet, Typed
<1>7. ASSUME Tick PROVE Typed' /\ Quiet
  BY <1>7, BoundsAreNumbers DEF Tick, Quiet, Typed, Entries
<1>8. ASSUME UNCHANGED chainVars PROVE Typed' /\ Quiet
  BY <1>8 DEF chainVars, Quiet, Typed, Entries
<1> QED
  BY <1>1, <1>2, <1>3, <1>4, <1>5, <1>6, <1>7, <1>8 DEF ChainNext, Run

-----------------------------------------------------------------------------
\* What the steps do to the entries.

LEMMA WrittenAfter ==
  ASSUME Typed, Typed', OneWriter, Form
  PROVE  /\ Quiet => Written' = Written
         /\ \A t \in Transactions :
              /\ Taken(t) => Written' = Written /\ Entries' = Entries
              /\ Linked(t) => Written' = Written \cup {New(t)} /\ Entries' = Entries
              /\ Committed(t) => Written' = Written /\ Entries' = Entries \cup tx[t].own
              /\ RolledBack(t) => /\ Written' \subseteq Written /\ Entries' = Entries
                                  /\ tx[t].own = {} => Written' = Written
<1>1. \A t \in Transactions : tx[t].own \subseteq JournalEntry
  BY DEF Typed, Transaction
<1>2. Entries \subseteq JournalEntry
  BY DEF Typed, Entries
<1>3. Quiet => Written' = Written
  BY DEF Quiet, Written
<1>4. ASSUME NEW t \in Transactions, Taken(t) PROVE Written' = Written /\ Entries' = Entries
  <2>1. Entries' = Entries
    BY <1>4 DEF Taken, Entries
  <2> QED
    BY <1>4, <2>1 DEF Taken, Others, Written
<1>5. ASSUME NEW t \in Transactions, Linked(t)
      PROVE  Written' = Written \cup {New(t)} /\ Entries' = Entries
  <2>1. Entries' = Entries
    BY <1>5 DEF Linked, Entries
  <2>2. \A u \in Transactions : tx'[u].own = IF u = t THEN tx[t].own \cup {New(t)} ELSE tx[u].own
    BY <1>5 DEF Linked, Others
  <2>3. New(t) \in JournalEntry
    BY <1>5 DEF Linked
  <2> QED
    BY <2>1, <2>2, <2>3 DEF Written
<1>6. ASSUME NEW t \in Transactions, Over(t), journal' \in {journal, journal \cup tx[t].own}
      PROVE  /\ \A u \in Transactions : tx'[u].own = IF u = t THEN {} ELSE tx[u].own
             /\ Entries' = IF journal' = journal THEN Entries ELSE Entries \cup tx[t].own
  BY <1>6 DEF Over, Others, Entries
<1>7. ASSUME NEW t \in Transactions, Committed(t)
      PROVE  Written' = Written /\ Entries' = Entries \cup tx[t].own
  <2>1. Entries' = Entries \cup tx[t].own
    BY <1>7 DEF Committed, Over, Entries
  <2>2. \A u \in Transactions : tx'[u].own = IF u = t THEN {} ELSE tx[u].own
    BY <1>6, <1>7 DEF Committed
  <2> QED
    BY <1>1, <2>1, <2>2 DEF Written
<1>8. ASSUME NEW t \in Transactions, RolledBack(t)
      PROVE  /\ Written' \subseteq Written /\ Entries' = Entries
             /\ tx[t].own = {} => Written' = Written
  <2>1. Entries' = Entries
    BY <1>8 DEF RolledBack, Over, Entries
  <2>2. \A u \in Transactions : tx'[u].own = IF u = t THEN {} ELSE tx[u].own
    BY <1>6, <1>8 DEF RolledBack
  <2> QED
    BY <2>1, <2>2 DEF Written
<1> QED
  BY <1>3, <1>4, <1>5, <1>7, <1>8

LEMMA OneWriterStep ==
  ASSUME OneWriter, Form
  PROVE  OneWriter'
<1>1. CASE Quiet
  BY <1>1 DEF Quiet, OneWriter
<1>2. ASSUME NEW t \in Transactions, Taken(t) PROVE OneWriter'
  BY <1>2 DEF Taken, Others, OneWriter
<1>3. ASSUME NEW t \in Transactions, Linked(t) PROVE OneWriter'
  <2>1. tx'[t].at = "open"
    BY <1>3 DEF Linked, OneWriter
  <2> QED
    BY <1>3, <2>1 DEF Linked, LockIsFree, Others, OneWriter
<1>4. ASSUME NEW t \in Transactions, Over(t) PROVE OneWriter'
  BY <1>4 DEF Over, Others, OneWriter
<1> QED
  BY <1>1, <1>2, <1>3, <1>4 DEF Form, Committed, RolledBack

LEMMA NumbersStep ==
  ASSUME Typed, Typed', OneWriter, NumbersAreUnique, Form
  PROVE  NumbersAreUnique'
<1>0. /\ sequence \in Nat /\ \A t \in Transactions : tx[t].number \in Nat
      /\ \A r \in Written : r.seq \in Nat
  BY BoundsAreNumbers DEF Typed, Transaction, Written, JournalEntry
<1>1. CASE Quiet
  <2>1. Written' = Written
    BY <1>1, WrittenAfter
  <2> QED
    BY <1>1, <2>1 DEF Quiet, NumbersAreUnique
<1>2. ASSUME NEW t \in Transactions, Taken(t) PROVE NumbersAreUnique'
  <2>1. Written' = Written /\ Entries' = Entries
    BY <1>2, WrittenAfter
  <2>2. \A u \in Transactions :
          /\ tx'[u].own = tx[u].own
          /\ tx'[u].number = IF u = t THEN sequence + 1 ELSE tx[u].number
    BY <1>2 DEF Taken, Others
  <2>3. sequence' = sequence + 1 /\ journal' = journal /\ archive' = archive
    BY <1>2 DEF Taken
  <2> QED
    BY <1>0, <2>1, <2>2, <2>3 DEF NumbersAreUnique
<1>3. ASSUME NEW t \in Transactions, Linked(t) PROVE NumbersAreUnique'
  <2>1. Written' = Written \cup {New(t)} /\ Entries' = Entries
    BY <1>3, WrittenAfter
  <2>2. \A u \in Transactions :
          /\ tx'[u].own = IF u = t THEN tx[t].own \cup {New(t)} ELSE tx[u].own
          /\ tx'[u].number = IF u = t THEN 0 ELSE tx[u].number
    BY <1>3 DEF Linked, Others
  <2>3. sequence' = sequence /\ journal' = journal /\ archive' = archive
    BY <1>3 DEF Linked
  <2>4. New(t).seq = tx[t].number /\ tx[t].number # 0
    BY <1>3 DEF Linked, New
  <2>5. Entries \subseteq Written
    BY DEF Written, Entries, Typed
  <2>6. New(t) \notin Entries
    BY <2>4, <2>5 DEF NumbersAreUnique
  <2> HIDE DEF New
  <2> QED
    BY <1>0, <2>1, <2>2, <2>3, <2>4, <2>6 DEF NumbersAreUnique
<1>4. ASSUME NEW t \in Transactions, Over(t), Written' \subseteq Written,
             Entries' \in {Entries, Entries \cup tx[t].own},
             journal' \in {journal, journal \cup tx[t].own}
      PROVE  NumbersAreUnique'
  <2>1. \A u \in Transactions :
          /\ tx'[u].own = IF u = t THEN {} ELSE tx[u].own
          /\ tx'[u].number = IF u = t THEN 0 ELSE tx[u].number
    BY <1>4 DEF Over, Others
  <2>2. \A u \in Transactions \ {t} : tx[u].own \cap tx[t].own = {}
    BY DEF OneWriter
  <2>3. \A u \in Transactions : tx'[u].own \cap Entries' = {}
    BY <1>4, <2>1, <2>2 DEF NumbersAreUnique
  <2>4. journal' \cap archive' = {}
    BY <1>4 DEF Over, NumbersAreUnique, Entries
  <2> QED
    BY <1>0, <1>4, <2>1, <2>3, <2>4 DEF NumbersAreUnique, Over
<1> QED
  BY <1>1, <1>2, <1>3, <1>4, WrittenAfter DEF Form, Committed, RolledBack

LEMMA LinksStep ==
  ASSUME Typed, Typed', OneWriter, LinksHold, Form
  PROVE  LinksHold'
<1>1. CASE Quiet
  <2>1. Entries' = Entries
    BY <1>1 DEF Quiet
  <2> QED
    BY <1>1, <2>1 DEF Quiet, LinksHold, LinksLeadSomewhere
<1>2. ASSUME NEW t \in Transactions, Taken(t) PROVE LinksHold'
  <2>1. Entries' = Entries
    BY <1>2 DEF Taken, Entries
  <2> QED
    BY <1>2, <2>1 DEF Taken, Others, LinksHold, LinksLeadSomewhere
<1>3. ASSUME NEW t \in Transactions, Linked(t) PROVE LinksHold'
  <2>1. Entries' = Entries
    BY <1>3 DEF Linked, Entries
  <2>2. New(t).prev = EndOfChain(Visible(t), VisibleArchive(t))
    BY DEF New
  <2>3. New(t).prev = 0 \/ \E p \in Visible(t) \cup VisibleArchive(t) : p.seq = New(t).prev
    BY <2>2, VisibleIsThere, NewestFinds DEF EndOfChain
  <2>4. New(t).prev = 0 \/ \E p \in Entries \cup tx[t].own : p.seq = New(t).prev
    BY <2>3, VisibleIsThere
  <2>5. \A u \in Transactions :
          /\ tx'[u].own = IF u = t THEN tx[t].own \cup {New(t)} ELSE tx[u].own
          /\ tx'[u].seen = tx[u].seen /\ tx'[u].seenArchive = tx[u].seenArchive
    BY <1>3 DEF Linked, Others
  <2> HIDE DEF New
  <2> QED
    BY <2>1, <2>4, <2>5 DEF LinksHold, LinksLeadSomewhere
<1>4. ASSUME NEW t \in Transactions, Over(t), Entries' \in {Entries, Entries \cup tx[t].own}
      PROVE  LinksHold'
  <2>1. \A u \in Transactions :
          /\ tx'[u].own = IF u = t THEN {} ELSE tx[u].own
          /\ tx'[u].seen = IF u = t THEN {} ELSE tx[u].seen
          /\ tx'[u].seenArchive = IF u = t THEN {} ELSE tx[u].seenArchive
    BY <1>4 DEF Over, Others
  <2> QED
    BY <1>4, <2>1 DEF LinksHold, LinksLeadSomewhere
<1> QED
  BY <1>1, <1>2, <1>3, <1>4, WrittenAfter DEF Form, Committed, RolledBack

-----------------------------------------------------------------------------
\* A link that is not made from an old snapshot is made by somebody who sees
\* everything that is written.
LEMMA SeesEverything ==
  ASSUME Typed, LinksHold, NEW t \in Transactions, LockIsFree(t), "stale" \notin Unusual(t)
  PROVE  /\ Visible(t) \cup VisibleArchive(t) = Written
         /\ Entries \cup tx[t].own = Written
<1>1. tx[t].own \subseteq JournalEntry /\ Entries \subseteq JournalEntry
  BY DEF Typed, Transaction, Entries
<1>2. Written = Entries \cup tx[t].own
  BY <1>1 DEF Written, LockIsFree
<1>3. t \in Serializable => tx[t].seen \cup tx[t].seenArchive = Entries
  BY DEF Unusual, Entries
<1> QED
  BY <1>2, <1>3 DEF Visible, VisibleArchive, Entries

LEMMA OneStartStep ==
  ASSUME Typed, Typed', OneWriter, LinksHold, OneStart, Form
  PROVE  OneStart'
<1>1. ASSUME Written' \subseteq Written, causes \subseteq causes' PROVE OneStart'
  BY <1>1 DEF OneStart
<1>2. ASSUME NEW t \in Transactions, Linked(t) PROVE OneStart'
  <2> SUFFICES ASSUME "stale" \notin causes' PROVE OneStart'
    BY DEF OneStart
  <2>1. causes' = causes \cup Unusual(t) /\ LockIsFree(t)
    BY <1>2 DEF Linked
  <2>2. Visible(t) \cup VisibleArchive(t) = Written
    BY <2>1, SeesEverything
  <2>3. New(t).prev = EndOfChain(Visible(t), VisibleArchive(t))
    BY DEF New
  <2>4. New(t).prev = 0 => Written = {}
    BY <2>2, <2>3, VisibleIsThere, NewestFinds DEF EndOfChain
  <2>5. Written' = Written \cup {New(t)}
    BY <1>2, WrittenAfter
  <2> HIDE DEF New
  <2> QED
    BY <2>1, <2>4, <2>5 DEF OneStart
<1> QED
  BY <1>1, <1>2, WrittenAfter DEF Form, Quiet, Taken, Committed, RolledBack

\* If nothing unusual happens at a link, what is written has the numbers before
\* the new one, and the end of the chain is the last of them.
LEMMA UsualLink ==
  ASSUME Typed, OneWriter, NumbersAreUnique, LinksHold, InOrder,
         NEW t \in Transactions, Linked(t), causes = {}, Unusual(t) = {}
  PROVE  /\ New(t).seq \in Nat /\ New(t).prev = New(t).seq - 1
         /\ \A r \in Written : r.seq < New(t).seq
         /\ \A n \in 1..(New(t).seq - 1) : \E r \in Written : r.seq = n
<1> DEFINE number == tx[t].number
           end == EndOfChain(Visible(t), VisibleArchive(t))
<1>1. /\ sequence \in Nat /\ number \in Nat /\ number # 0 /\ number <= sequence
      /\ \A u \in Transactions : tx[u].number \in Nat
      /\ \A r \in Written : r.seq \in Nat \ {0}
  BY BoundsAreNumbers DEF Typed, Transaction, Written, JournalEntry, Linked, NumbersAreUnique
<1>2. New(t).seq = number /\ New(t).prev = end
  BY DEF New
<1>3. /\ Visible(t) \cup VisibleArchive(t) = Written
      /\ journal \cup archive \cup tx[t].own = Written
  BY SeesEverything DEF Linked, Entries
<1>4. Written \in SUBSET JournalEntry
  BY DEF Written
<1>5. ~(number < Newest(journal \cup archive \cup tx[t].own))
  BY DEF Unusual
<1> HIDE DEF number, end
<1>6. \A r \in Written : r.seq < number
  <2>1. \A r \in Written : r.seq <= Newest(Written) /\ r.seq # number
    BY <1>1, <1>4, NewestFinds DEF NumbersAreUnique, number
  <2>2. Newest(Written) \in Nat
    BY <1>4, NewestFinds, BoundsAreNumbers
  <2>3. Newest(journal \cup archive \cup tx[t].own) = Newest(Written)
    BY <1>3
  <2>4. Newest(Written) <= number
    BY <1>1, <1>5, <2>2, <2>3
  <2> QED
    BY <1>1, <2>1, <2>2, <2>4
<1>7. \A u \in Transactions : tx[u].number \notin 1..(number - 1)
  BY DEF Unusual, number
<1>8. \A n \in 1..(number - 1) : \E r \in Written : r.seq = n
  BY <1>1, <1>7 DEF InOrder
<1>9. end = number - 1
  <2>1. /\ Visible(t) \in SUBSET JournalEntry /\ VisibleArchive(t) \in SUBSET JournalEntry
    BY VisibleIsThere
  <2>2. ~(Newest(VisibleArchive(t)) > Newest(Visible(t)) /\ Visible(t) # {})
    BY DEF Unusual
  <2>3. /\ Newest(Visible(t)) \in Nat /\ Newest(VisibleArchive(t)) \in Nat
        /\ \A r \in Visible(t) : r.seq <= Newest(Visible(t))
        /\ \A r \in VisibleArchive(t) : r.seq <= Newest(VisibleArchive(t))
        /\ Newest(Visible(t)) # 0 => \E r \in Visible(t) : r.seq = Newest(Visible(t))
        /\ Newest(VisibleArchive(t)) # 0 =>
             \E r \in VisibleArchive(t) : r.seq = Newest(VisibleArchive(t))
    BY <2>1, NewestFinds, BoundsAreNumbers
  <2>4. end \in Nat /\ (\A r \in Written : r.seq <= end)
    <3>1. CASE Visible(t) = {}
      BY <3>1, <1>3, <2>3 DEF EndOfChain, end
    <3>2. CASE Visible(t) # {}
      <4>1. end = Newest(Visible(t)) /\ Newest(VisibleArchive(t)) <= end
        BY <3>2, <2>2, <2>3 DEF EndOfChain, end
      <4>2. ASSUME NEW r \in Written PROVE r.seq <= end
        BY <4>1, <1>1, <1>3, <2>3
      <4> QED
        BY <4>1, <4>2, <2>3
    <3> QED
      BY <3>1, <3>2
  <2>5. end # 0 => \E r \in Written : r.seq = end
    BY <2>3, <1>3 DEF EndOfChain, end
  <2>6. end < number
    BY <2>4, <2>5, <1>1, <1>6
  <2>7. number - 1 # 0 => number - 1 <= end
    BY <1>1, <1>8, <2>4
  <2> QED
    BY <1>1, <2>4, <2>6, <2>7
<1> HIDE DEF New
<1> QED
  BY <1>1, <1>2, <1>6, <1>8, <1>9

LEMMA InOrderStep ==
  ASSUME Typed, Typed', OneWriter, NumbersAreUnique, LinksHold, InOrder, Form
  PROVE  InOrder'
<1> SUFFICES ASSUME causes' = {} PROVE InOrder'
  BY DEF InOrder
<1>0. /\ sequence \in Nat
      /\ \A t \in Transactions : tx[t].number \in Nat /\ tx[t].own \subseteq JournalEntry
      /\ \A r \in Written : r.seq \in Nat
      /\ Entries \subseteq Written
  BY BoundsAreNumbers DEF Typed, Transaction, Written, JournalEntry, Entries
<1>1. CASE Quiet
  <2>1. Written' = Written
    BY <1>1, WrittenAfter
  <2> QED
    BY <1>1, <2>1 DEF Quiet, InOrder
<1>2. ASSUME NEW t \in Transactions, Taken(t) PROVE InOrder'
  <2>1. Written' = Written /\ Entries' = Entries /\ causes = {} /\ sequence' = sequence + 1
    BY <1>2, WrittenAfter DEF Taken
  <2>2. \A u \in Transactions :
          /\ tx'[u].own = tx[u].own
          /\ tx'[u].number = IF u = t THEN sequence + 1 ELSE tx[u].number
    BY <1>2 DEF Taken, Others
  <2>3. ASSUME NEW n \in 1..sequence'
        PROVE  (\E r \in Written' : r.seq = n) \/ (\E u \in Transactions : tx'[u].number = n)
    <3>1. CASE n = sequence + 1
      BY <3>1, <2>2
    <3>2. CASE n \in 1..sequence
      <4>1. (\E r \in Written : r.seq = n) \/ (\E u \in Transactions : tx[u].number = n)
        BY <3>2, <2>1 DEF InOrder
      <4>2. tx[t].number = 0
        BY <1>2 DEF Taken
      <4> QED
        BY <4>1, <4>2, <2>1, <2>2
    <3> QED
      BY <3>1, <3>2, <1>0, <2>1
  <2> QED
    BY <2>1, <2>2, <2>3 DEF InOrder
<1>3. ASSUME NEW t \in Transactions, Linked(t) PROVE InOrder'
  <2>1. /\ causes = {} /\ Unusual(t) = {} /\ LockIsFree(t) /\ tx[t].number # 0
        /\ sequence' = sequence
    BY <1>3 DEF Linked
  <2>2. Written' = Written \cup {New(t)} /\ Entries' = Entries
    BY <1>3, WrittenAfter
  <2>3. /\ New(t).seq \in Nat /\ New(t).prev = New(t).seq - 1
        /\ \A r \in Written : r.seq < New(t).seq
        /\ \A n \in 1..(New(t).seq - 1) : \E r \in Written : r.seq = n
    BY <1>3, <2>1, UsualLink
  <2>4. New(t).seq = tx[t].number
    BY DEF New
  <2>5. \A u \in Transactions :
          /\ tx'[u].own = IF u = t THEN tx[t].own \cup {New(t)} ELSE tx[u].own
          /\ tx'[u].number = IF u = t THEN 0 ELSE tx[u].number
    BY <1>3 DEF Linked, Others
  <2> HIDE DEF New
  <2>6. \A r \in Written' : r.prev = r.seq - 1
    BY <2>1, <2>2, <2>3 DEF InOrder
  <2>7. ASSUME NEW n \in 1..sequence'
        PROVE  (\E r \in Written' : r.seq = n) \/ (\E u \in Transactions : tx'[u].number = n)
    BY <2>1, <2>2, <2>4, <2>5 DEF InOrder
  <2>8. ASSUME NEW r \in Written', NEW n \in 1..r.seq PROVE \E s \in Written' : s.seq = n
    <3>1. CASE r \in Written
      BY <3>1, <2>1, <2>2 DEF InOrder
    <3>2. CASE r = New(t)
      <4>1. n = New(t).seq \/ n \in 1..(New(t).seq - 1)
        BY <3>2, <2>3
      <4> QED
        BY <4>1, <2>2, <2>3
    <3> QED
      BY <3>1, <3>2, <2>2
  <2>9. \A u \in Transactions : \A r \in tx'[u].own : \A e \in Entries' : e.seq < r.seq
    BY <1>0, <2>1, <2>2, <2>3, <2>5 DEF InOrder
  <2> QED
    BY <2>6, <2>7, <2>8, <2>9 DEF InOrder
<1>4. ASSUME NEW t \in Transactions, Over(t), causes = {}, tx[t].number = 0, Written' = Written,
             Entries' = Entries \cup tx[t].own
      PROVE  InOrder'
  <2>1. \A u \in Transactions :
          /\ tx'[u].own = IF u = t THEN {} ELSE tx[u].own
          /\ tx'[u].number = IF u = t THEN 0 ELSE tx[u].number
    BY <1>4 DEF Over, Others
  <2>2. \A u \in Transactions : \A r \in tx'[u].own : \A e \in Entries' : e.seq < r.seq
    BY <1>4, <2>1 DEF InOrder, OneWriter
  <2>3. \A u \in Transactions : tx'[u].number = tx[u].number
    BY <1>4, <2>1
  <2> QED
    BY <1>4, <2>2, <2>3 DEF InOrder, Over
<1>5. ASSUME NEW t \in Transactions, RolledBack(t)
      PROVE  /\ causes = {} /\ tx[t].number = 0 /\ Written' = Written
             /\ Entries' = Entries \cup tx[t].own
  BY <1>5, WrittenAfter DEF RolledBack
<1>6. ASSUME NEW t \in Transactions, Committed(t)
      PROVE  /\ causes = {} /\ tx[t].number = 0 /\ Written' = Written
             /\ Entries' = Entries \cup tx[t].own
  BY <1>6, WrittenAfter DEF Committed
<1> QED
  BY <1>1, <1>2, <1>3, <1>4, <1>5, <1>6 DEF Form, Committed, RolledBack

LEMMA IInvInit == ChainInit => IInv
<1> SUFFICES ASSUME ChainInit PROVE IInv
  OBVIOUS
<1>1. \A t \in Transactions :
        /\ tx[t].at = "idle" /\ tx[t].number = 0 /\ tx[t].own = {}
        /\ tx[t].seen = {} /\ tx[t].seenArchive = {}
  BY DEF ChainInit, NotRunning
<1>2. Entries = {} /\ Written = {}
  BY <1>1 DEF ChainInit, Entries, Written
<1>3. Typed
  BY BoundsAreNumbers DEF ChainInit, Typed, NotRunning, Transaction
<1>4. OneWriter /\ NumbersAreUnique
  BY <1>1, <1>2 DEF ChainInit, OneWriter, NumbersAreUnique
<1>5. LinksHold /\ OneStart /\ InOrder
  BY <1>1, <1>2 DEF ChainInit, LinksHold, LinksLeadSomewhere, OneStart, InOrder
<1> QED
  BY <1>3, <1>4, <1>5 DEF IInv

LEMMA IInvStep == IInv /\ [ChainNext]_chainVars => IInv'
<1> SUFFICES ASSUME IInv, [ChainNext]_chainVars PROVE IInv'
  OBVIOUS
<1>1. Typed' /\ Form
  BY StepForms DEF IInv
<1>2. OneWriter' /\ NumbersAreUnique' /\ LinksHold'
  BY <1>1, OneWriterStep, NumbersStep, LinksStep DEF IInv
<1>3. OneStart' /\ InOrder'
  BY <1>1, OneStartStep, InOrderStep DEF IInv
<1> QED
  BY <1>1, <1>2, <1>3 DEF IInv

LEMMA IInvAlways == ChainSpec => []IInv
BY IInvInit, IInvStep, PTL DEF ChainSpec

-----------------------------------------------------------------------------
\* Entries and transactions are always well formed, and no entry is in the
\* journal and in the archive (purge_expired_audit moves it in one statement).
THEOREM ChainTypeInvariant == ChainSpec => []ChainTypeOK
<1>1. IInv => ChainTypeOK
  BY DEF IInv, Typed, NumbersAreUnique, ChainTypeOK
<1> QED
  BY <1>1, IInvAlways, PTL

\* The predecessor audit_chain_link finds is never lost: neither the rollback of
\* another transaction nor a purge leaves a link that leads nowhere.
THEOREM LinksAlwaysLead == ChainSpec => []LinksLeadSomewhere
<1>1. IInv => LinksLeadSomewhere
  BY DEF IInv, LinksHold
<1> QED
  BY <1>1, IInvAlways, PTL

\* No step of a writer or of purge_expired_audit takes a committed entry away.
THEOREM EntriesNeverGo == ChainSpec => EntriesStay
<1>1. IInv /\ [ChainNext]_chainVars => [Entries \subseteq Entries']_chainVars
  <2> SUFFICES ASSUME IInv, [ChainNext]_chainVars PROVE Entries \subseteq Entries'
    OBVIOUS
  <2>1. Typed /\ Typed' /\ OneWriter /\ Form
    BY StepForms DEF IInv
  <2>2. Quiet => Entries' = Entries
    BY DEF Quiet
  <2> QED
    BY <2>1, <2>2, WrittenAfter DEF Form
<1> QED
  BY <1>1, IInvAlways, PTL DEF ChainSpec, EntriesStay

\* Without links made from an old snapshot one entry begins the chain, however
\* much of the journal purge_expired_audit has moved (0902 looks in the archive).
THEOREM OnlyOneBeginning == ChainSpec => []OneBeginning
<1>1. IInv => OneBeginning
  <2>1. Typed => Entries \subseteq Written
    BY DEF Typed, Entries, Written
  <2> QED
    BY <2>1 DEF IInv, OneStart, OneBeginning
<1> QED
  BY <1>1, IInvAlways, PTL

\* If none of the four things has happened, verify_audit_chain is silent: the
\* advisory lock and the archive are enough for numbers taken in the order of
\* the links.
THEOREM AlarmsHaveACause == ChainSpec => []FalseAlarmsHaveACause
<1>1. ASSUME IInv, causes = {}, NEW r \in Entries
      PROVE  r \notin Broken(Entries)
  <2> DEFINE before == {p \in Entries : p.seq < r.seq}
  <2>1. Entries \in SUBSET JournalEntry /\ Entries \subseteq Written
    BY <1>1 DEF IInv, Typed, Entries, Written
  <2>2. \A p \in Written : p.seq \in Nat \ {0}
    BY BoundsAreNumbers DEF Written, JournalEntry
  <2>3. ASSUME NEW n \in 1..(r.seq - 1) PROVE \E p \in Entries : p.seq = n
    <3>1. PICK p \in Written : p.seq = n
      BY <1>1, <2>1, <2>2 DEF IInv, InOrder
    <3>2. \A t \in Transactions : p \notin tx[t].own
      BY <1>1, <2>1, <2>2, <3>1 DEF IInv, InOrder
    <3> QED
      BY <3>1, <3>2 DEF Written
  <2>4. /\ Newest(before) \in Nat
        /\ \A p \in before : p.seq <= Newest(before)
        /\ Newest(before) # 0 => \E p \in before : p.seq = Newest(before)
    BY <2>1, NewestFinds, BoundsAreNumbers
  <2>5. r.seq - 1 # 0 => r.seq - 1 <= Newest(before)
    <3>1. ASSUME r.seq - 1 # 0 PROVE \E p \in before : p.seq = r.seq - 1
      BY <3>1, <2>1, <2>2, <2>3
    <3> QED
      BY <3>1, <2>4
  <2>6. \A p \in before : p.seq < r.seq
    OBVIOUS
  <2> HIDE DEF before
  <2>7. r.seq \in Nat \ {0}
    BY <2>1, <2>2
  <2>8. Newest(before) = r.seq - 1
    BY <2>4, <2>5, <2>6, <2>7
  <2>9. r.prev = r.seq - 1
    BY <1>1, <2>1 DEF IInv, InOrder
  <2> QED
    BY <2>7, <2>8, <2>9 DEF Broken, before
<1>2. Broken(Entries) \subseteq Entries
  BY DEF Broken
<1>3. IInv => FalseAlarmsHaveACause
  BY <1>1, <1>2 DEF FalseAlarmsHaveACause
<1> QED
  BY <1>3, IInvAlways, PTL

\* Whenever verify_audit_chain is silent, it would not be silent about the same
\* entries without any one of them but the last.
THEOREM LossesAreSeen == ChainSpec => []AnyLossIsSeen
<1>1. ASSUME IInv, Broken(Entries) = {}, NEW r \in Entries, r.seq < Newest(Entries)
      PROVE  Broken(Entries \ {r}) # {}
  <2> DEFINE later == {s.seq : s \in {e \in Entries : e.seq > r.seq}}
             left == Entries \ {r}
  <2>1. Entries \in SUBSET JournalEntry /\ Entries \subseteq Written
    BY <1>1 DEF IInv, Typed, Entries, Written
  <2>2. \A p \in Entries : p.seq \in Nat \ {0}
    BY <2>1, BoundsAreNumbers DEF JournalEntry
  <2>3. \A p, q \in Entries : p.seq = q.seq => p = q
    BY <1>1, <2>1 DEF IInv, NumbersAreUnique
  <2>4. PICK s \in Entries : s.seq > r.seq /\ \A p \in Entries : p.seq > r.seq => s.seq <= p.seq
    <3>1. \E p \in Entries : p.seq > r.seq
      <4>1. /\ Newest(Entries) \in Nat
            /\ Newest(Entries) # 0 => \E p \in Entries : p.seq = Newest(Entries)
        BY <2>1, NewestFinds, BoundsAreNumbers
      <4> QED
        BY <1>1, <2>2, <4>1
    <3>2. later \in SUBSET Nat /\ later # {}
      BY <2>2, <3>1
    <3>3. PICK m \in later : \A y \in later : m <= y
      BY <3>2, LeastExists
    <3> QED
      BY <3>3
  <2> DEFINE before == {p \in Entries : p.seq < s.seq}
             before2 == {p \in left : p.seq < s.seq}
  <2>5. Newest(before) = r.seq
    <3>1. /\ Newest(before) \in Nat
          /\ \A p \in before : p.seq <= Newest(before)
          /\ Newest(before) # 0 => \E p \in before : p.seq = Newest(before)
      BY <2>1, NewestFinds, BoundsAreNumbers
    <3>2. r \in before /\ \A p \in before : p.seq <= r.seq
      BY <2>2, <2>4
    <3> HIDE DEF before
    <3>3. r.seq <= Newest(before) /\ Newest(before) <= r.seq
      BY <2>2, <3>1, <3>2
    <3> QED
      BY <2>2, <3>1, <3>3
  <2>6. Newest(before2) # r.seq
    <3>1. Newest(before2) # 0 => \E p \in before2 : p.seq = Newest(before2)
      BY <2>1, NewestFinds
    <3>2. \A p \in before2 : p.seq # r.seq
      BY <2>3
    <3> HIDE DEF before2
    <3> QED
      BY <2>2, <3>1, <3>2
  <2>7. s.prev = r.seq
    BY <1>1, <2>5 DEF Broken
  <2>8. s \in left
    BY <2>2, <2>4
  <2>9. s \in Broken(left)
    BY <2>6, <2>7, <2>8 DEF Broken
  <2> QED
    BY <2>9
<1>2. IInv => AnyLossIsSeen
  BY <1>1 DEF AnyLossIsSeen
<1> QED
  BY <1>2, IInvAlways, PTL

-----------------------------------------------------------------------------
\* Documents, their reviews and the report (Evidence, Analytics).

\* Whoever confirms a signature approves the document.
ReviewsAreApprovals ==
    \A r \in Reviewers : reviews[r] \notin {Idle, Away} /\ reviews[r].verify => reviews[r].status = "approved"

EvidenceInv == EvidenceTypeOK /\ ReviewsAreApprovals /\ VerifiedIsDescribed

\* What ReportFollowsItsBasis says of a step.
ReportRests ==
    \A p \in Periods : report[p].status = "approved" /\ report'[p].status = "approved" =>
        /\ \A i \in Ids : SliceOf(i) = p => entries'[i] = entries[i]
        /\ \A k \in Items : Regards(k, p) => SameComponent(k)

LEMMA NothingIsAbsent ==
  /\ \A x \in Entry : x = NoEntry \/ x.at = "kept"
  /\ \A x \in Document : x = NoDoc \/ x.at \in {"kept", "expired"}
  /\ \A x \in Item : x = NoItem \/ (x.at = "kept" /\ x.kind \in Kinds /\ x.entry \in Ids /\ x.docs \in SUBSET Docs)
  /\ \A x \in Review : x = Idle \/ x = Away \/ x.at \in {"open", "checked"}
  /\ NoEntry.at = "absent" /\ NoDoc.at = "absent" /\ NoItem.at = "absent" /\ Idle.at = "idle" /\ Away.at = "away"
BY DEF Entry, Document, Item, Review, NoEntry, NoDoc, NoItem, Idle, Away

LEMMA PeriodOfEntry ==
  ASSUME NEW i \in Ids
  PROVE  SliceOf(i) \in Periods
BY DEF Periods

LEMMA DraftIsReport == Draft \in Report /\ Draft.status = "draft"
BY DEF Draft, Report

\* Where neither entries nor components change the report has nothing to follow.
LEMMA RestIsKept ==
  ASSUME UNCHANGED <<entries, items>>
  PROVE  ReportRests
BY DEF ReportRests, SameComponent

\* A change of an entry or of a component takes the approval of its period.
LEMMA ChangeTakesApproval ==
  ASSUME EvidenceTypeOK, NEW i \in Ids, Changed(i),
         \A j \in Ids : j # i => entries'[j] = entries[j],
         \A k \in Items : items'[k] = items[k]
                            \/ \A it \in {items[k], items'[k]} : it # NoItem => it.entry = i
  PROVE  ReportRests /\ report' \in [Periods -> Report]
<1>1. report \in [Periods -> Report] /\ SliceOf(i) \in Periods
  BY PeriodOfEntry DEF EvidenceTypeOK
<1>2. report' = [report EXCEPT ![SliceOf(i)] = Draft]
  BY DEF Changed
<1>3. report' \in [Periods -> Report] /\ report'[SliceOf(i)].status # "approved"
  BY <1>1, <1>2, DraftIsReport
<1>4. ASSUME NEW p \in Periods, report'[p].status = "approved"
      PROVE  /\ \A j \in Ids : SliceOf(j) = p => entries'[j] = entries[j]
             /\ \A k \in Items : Regards(k, p) => SameComponent(k)
  <2>1. p # SliceOf(i)
    BY <1>3, <1>4
  <2>2. \A k \in Items : Regards(k, p) => items'[k] = items[k]
    BY <2>1 DEF Regards
  <2> QED
    BY <2>1, <2>2 DEF SameComponent
<1> QED
  BY <1>3, <1>4 DEF ReportRests

LEMMA WritesAreCounted ==
  ASSUME writes \in 0..MaxWrites, Writes
  PROVE  writes' \in 0..MaxWrites
<1>1. MaxWrites \in Nat
  BY EvidenceAssumption DEF EvidenceAssumption
<1> QED
  BY <1>1 DEF Writes

-----------------------------------------------------------------------------
\* One lemma for each kind of step.

\* What a step that leaves the documents and the reviews alone must show.
LEMMA DocumentsStay ==
  ASSUME EvidenceInv, UNCHANGED <<docs, reviews>>
  PROVE  ReviewsAreApprovals' /\ VerifiedIsDescribed' /\ docs' \in [Docs -> Document] /\ reviews' \in [Reviewers -> Review]
BY DEF EvidenceInv, EvidenceTypeOK, ReviewsAreApprovals, VerifiedIsDescribed, Described

LEMMA EntryIsWritten ==
  ASSUME EvidenceInv, NEW i \in Ids, WriteEntry(i)
  PROVE  EvidenceInv' /\ ReportRests
<1>1. PICK amount \in Amounts, card \in BOOLEAN, refs \in BOOLEAN :
        entries' = [entries EXCEPT ![i] = [at |-> "kept", amount |-> amount, card |-> card, refs |-> refs]]
  BY DEF WriteEntry
<1>. DEFINE row == [at |-> "kept", amount |-> amount, card |-> card, refs |-> refs]
<1>2. row \in Entry
  BY DEF Entry
<1>. HIDE DEF row
<1>3. entries' \in [Ids -> Entry] /\ \A j \in Ids : j # i => entries'[j] = entries[j]
  BY <1>1, <1>2 DEF EvidenceInv, EvidenceTypeOK, row
<1>4. Changed(i) /\ Writes /\ UNCHANGED <<docs, disputes, items, reviews>>
  BY DEF WriteEntry
<1>5. ReportRests /\ report' \in [Periods -> Report]
  BY <1>3, <1>4, ChangeTakesApproval DEF EvidenceInv
<1> QED
  BY <1>3, <1>4, <1>5, DocumentsStay, WritesAreCounted DEF EvidenceInv, EvidenceTypeOK

LEMMA ReportIsSet ==
  ASSUME EvidenceInv, NEW p \in Periods, SetReport(p)
  PROVE  EvidenceInv' /\ ReportRests
<1>1. PICK new \in {Draft} \cup [status : {"approved"}, conditions : BOOLEAN] :
        report' = [report EXCEPT ![p] = new]
  BY DEF SetReport
<1>2. new \in Report
  BY DraftIsReport DEF Report
<1>3. report' \in [Periods -> Report]
  BY <1>1, <1>2 DEF EvidenceInv, EvidenceTypeOK
<1>4. Writes /\ UNCHANGED <<entries, docs, disputes, items, reviews>>
  BY DEF SetReport
<1> QED
  BY <1>3, <1>4, RestIsKept, DocumentsStay, WritesAreCounted DEF EvidenceInv, EvidenceTypeOK

\* A step that writes one document at most.
LEMMA DocumentIsWritten ==
  ASSUME EvidenceInv, NEW d \in Docs, NEW row \in Document, docs' = [docs EXCEPT ![d] = row],
         row = NoDoc \/ (row.verified => row.status = "approved" /\ row.details \in SignedDetails)
  PROVE  VerifiedIsDescribed' /\ docs' \in [Docs -> Document]
<1>1. docs \in [Docs -> Document]
  BY DEF EvidenceInv, EvidenceTypeOK
<1>2. docs' \in [Docs -> Document] /\ docs'[d] = row /\ \A x \in Docs : x # d => docs'[x] = docs[x]
  BY <1>1
<1> QED
  BY <1>2 DEF EvidenceInv, VerifiedIsDescribed, Described

LEMMA DocumentIsUploaded ==
  ASSUME EvidenceInv, NEW d \in Docs, UploadDocument(d)
  PROVE  EvidenceInv' /\ ReportRests
<1>1. PICK sum \in BOOLEAN :
        docs' = [docs EXCEPT ![d] = [at |-> "kept", status |-> "pending", details |-> 0, verified |-> FALSE, sum |-> sum]]
  BY DEF UploadDocument
<1>. DEFINE row == [at |-> "kept", status |-> "pending", details |-> 0, verified |-> FALSE, sum |-> sum]
<1>2. row \in Document /\ ~row.verified
  BY EvidenceAssumption DEF Document, EvidenceAssumption
<1>3. docs' = [docs EXCEPT ![d] = row]
  BY <1>1
<1>. HIDE DEF row
<1>4. VerifiedIsDescribed' /\ docs' \in [Docs -> Document]
  BY <1>2, <1>3, DocumentIsWritten
<1>5. Writes /\ UNCHANGED <<entries, disputes, items, report, reviews>>
  BY DEF UploadDocument
<1> QED
  BY <1>4, <1>5, RestIsKept, WritesAreCounted DEF EvidenceInv, EvidenceTypeOK, ReviewsAreApprovals

\* The row of a document that is there.
LEMMA DocumentRow ==
  ASSUME EvidenceInv, NEW d \in Docs, docs[d] # NoDoc
  PROVE  /\ docs[d] \in [at : {"kept", "expired"}, status : {"pending", "approved", "rejected"}, details : Details,
                         verified : BOOLEAN, sum : BOOLEAN]
         /\ docs[d].verified => docs[d].status = "approved" /\ docs[d].details \in SignedDetails
BY DEF EvidenceInv, EvidenceTypeOK, Document, VerifiedIsDescribed, Described

LEMMA RowIsDocument ==
  ASSUME NEW x \in [at : {"kept", "expired"}, status : {"pending", "approved", "rejected"}, details : Details,
                    verified : BOOLEAN, sum : BOOLEAN]
  PROVE  x \in Document
BY DEF Document

LEMMA DocumentExpires ==
  ASSUME EvidenceInv, NEW d \in Docs, ExpireDocument(d)
  PROVE  EvidenceInv' /\ ReportRests
<1>. DEFINE row == [docs[d] EXCEPT !.at = "expired"]
<1>1. docs[d] # NoDoc
  BY NothingIsAbsent DEF ExpireDocument, Present
<1>2. row \in Document /\ (row.verified => row.status = "approved" /\ row.details \in SignedDetails)
  BY <1>1, DocumentRow DEF Document
<1>3. docs' = [docs EXCEPT ![d] = row]
  BY DEF ExpireDocument
<1>. HIDE DEF row
<1>4. VerifiedIsDescribed' /\ docs' \in [Docs -> Document]
  BY <1>2, <1>3, DocumentIsWritten
<1>5. Writes /\ UNCHANGED <<entries, disputes, items, report, reviews>>
  BY DEF ExpireDocument
<1> QED
  BY <1>4, <1>5, RestIsKept, WritesAreCounted DEF EvidenceInv, EvidenceTypeOK, ReviewsAreApprovals

LEMMA DocumentIsDescribed ==
  ASSUME EvidenceInv, NEW d \in Docs, UpdateMetadata(d)
  PROVE  EvidenceInv' /\ ReportRests
<1>1. docs[d] # NoDoc
  BY NothingIsAbsent DEF UpdateMetadata, Present
<1>2. PICK details \in Details :
        docs' = [docs EXCEPT ![d] = IF details = @.details THEN @
                                    ELSE [@ EXCEPT !.details = details, !.status = "pending", !.verified = FALSE]]
  BY DEF UpdateMetadata
<1>. DEFINE changed == [docs[d] EXCEPT !.details = details, !.status = "pending", !.verified = FALSE]
            row == IF details = docs[d].details THEN docs[d] ELSE changed
<1>3. changed \in Document /\ ~changed.verified
  BY <1>1, DocumentRow DEF Document
<1>4. docs[d] \in Document
  BY DEF EvidenceInv, EvidenceTypeOK
<1>5. docs' = [docs EXCEPT ![d] = row]
  BY <1>2
<1>. HIDE DEF changed
<1>6. row \in Document /\ (row.verified => row.status = "approved" /\ row.details \in SignedDetails)
  BY <1>1, <1>3, <1>4, DocumentRow
<1>. HIDE DEF row
<1>7. VerifiedIsDescribed' /\ docs' \in [Docs -> Document]
  BY <1>5, <1>6, DocumentIsWritten
<1>8. Writes /\ UNCHANGED <<entries, disputes, items, report, reviews>>
  BY DEF UpdateMetadata
<1> QED
  BY <1>7, <1>8, RestIsKept, WritesAreCounted DEF EvidenceInv, EvidenceTypeOK, ReviewsAreApprovals

Dispute == [doc : SUBSET Docs, lifted : BOOLEAN]

\* A change of each element keeps a list a list.
LEMMA EachIsChanged ==
  ASSUME NEW S, NEW s \in Seq(S), NEW t, t = [k \in DOMAIN s |-> t[k]], \A k \in DOMAIN s : t[k] \in S
  PROVE  t \in Seq(S)
<1>1. DOMAIN s = 1 .. Len(s) /\ Len(s) \in Nat
  OBVIOUS
<1>2. t \in [1 .. Len(s) -> S]
  BY <1>1
<1> QED
  BY <1>1, <1>2

\* A document that is purged goes from its components and disputes with it.
LEMMA DocumentIsPurged ==
  ASSUME EvidenceInv, NEW d \in Docs, PurgeDocument(d)
  PROVE  EvidenceInv' /\ ReportRests
<1>1. docs' = [docs EXCEPT ![d] = NoDoc] /\ items' = Forgotten(d) /\ UNCHANGED <<entries, report, reviews, writes>>
  BY DEF PurgeDocument
<1>2. VerifiedIsDescribed' /\ docs' \in [Docs -> Document] /\ docs'[d] = NoDoc
  <2>1. NoDoc \in Document /\ docs \in [Docs -> Document]
    BY DEF Document, EvidenceInv, EvidenceTypeOK
  <2> QED
    BY <1>1, <2>1, DocumentIsWritten
<1>3. ASSUME NEW k \in Items
      PROVE  items'[k] \in Item /\ SameComponent(k)
  <2>1. items[k] \in Item
    BY DEF EvidenceInv, EvidenceTypeOK
  <2>2. CASE items[k] = NoItem
    BY <1>1, <2>1, <2>2 DEF Forgotten, SameComponent
  <2>3. CASE items[k] # NoItem
    <3>1. items[k] \in [at : {"kept"}, kind : Kinds, entry : Ids, docs : SUBSET Docs]
      BY <2>1, <2>3 DEF Item
    <3>. DEFINE left == items[k].docs \ {d}
    <3>2. items'[k] = [items[k] EXCEPT !.docs = left]
      BY <1>1, <2>3 DEF Forgotten
    <3>3. left \in SUBSET Docs
      BY <3>1
    <3>4. items[k].docs \ left \subseteq {d} /\ left \subseteq items[k].docs
      OBVIOUS
    <3>. HIDE DEF left
    <3>5. items'[k] \in [at : {"kept"}, kind : Kinds, entry : Ids, docs : SUBSET Docs] /\ items'[k].docs = left
      BY <3>1, <3>2, <3>3
    <3>6. items'[k] # NoItem
      BY <3>5 DEF NoItem
    <3> QED
      BY <1>2, <2>3, <3>4, <3>5, <3>6 DEF Item, SameComponent
  <2> QED
    BY <2>2, <2>3
<1>4. items' \in [Items -> Item]
  <2>1. items' = [k \in Items |-> items'[k]]
    BY <1>1 DEF Forgotten
  <2> QED
    BY <1>3, <2>1
<1>5. ReportRests
  BY <1>1, <1>3 DEF ReportRests
<1>6. ASSUME NEW i \in Ids PROVE disputes'[i] \in Seq(Dispute)
  <2>. DEFINE e == EntryOf[d]
              mine == disputes[e]
              after == [k \in DOMAIN mine |-> IF mine[k].doc = {d} THEN [mine[k] EXCEPT !.doc = {}] ELSE mine[k]]
  <2>1. disputes[i] \in Seq(Dispute) /\ e \in Ids /\ mine \in Seq(Dispute)
    BY EvidenceAssumption DEF EvidenceAssumption, EvidenceInv, EvidenceTypeOK, Dispute
  <2>2. disputes' = [disputes EXCEPT ![e] = after]
    BY DEF PurgeDocument
  <2>3. ASSUME NEW k \in DOMAIN mine PROVE after[k] \in Dispute
    <3>1. mine[k] \in Dispute
      BY <2>1
    <3>2. after[k] = IF mine[k].doc = {d} THEN [mine[k] EXCEPT !.doc = {}] ELSE mine[k]
      OBVIOUS
    <3>. HIDE DEF mine, after
    <3>3. mine[k] \in [doc : SUBSET Docs, lifted : BOOLEAN]
      BY <3>1 DEF Dispute
    <3>4. [mine[k] EXCEPT !.doc = {}] \in [doc : SUBSET Docs, lifted : BOOLEAN]
      BY <3>3
    <3> QED
      BY <3>1, <3>2, <3>4 DEF Dispute
  <2>4. after = [k \in DOMAIN mine |-> after[k]]
    OBVIOUS
  <2>. HIDE DEF after
  <2>5. after \in Seq(Dispute)
    BY <2>1, <2>3, <2>4, EachIsChanged
  <2>. HIDE DEF e
  <2> QED
    BY <2>1, <2>2, <2>5
<1> QED
  BY <1>1, <1>2, <1>4, <1>5, <1>6 DEF EvidenceInv, EvidenceTypeOK, ReviewsAreApprovals, Dispute

-----------------------------------------------------------------------------
\* Reviews.

LEMMA FormIsFilled ==
  ASSUME EvidenceInv, NEW r \in Reviewers, reviews[r].at \in {"open", "checked"}
  PROVE  /\ reviews[r] \in [at : {"open", "checked"}, doc : Docs, seen : Details, status : {"approved", "rejected"},
                            verify : BOOLEAN]
         /\ reviews[r].verify => reviews[r].status = "approved"
<1>1. reviews[r] \in Review /\ reviews[r] # Idle /\ reviews[r] # Away
  BY NothingIsAbsent DEF EvidenceInv, EvidenceTypeOK
<1> QED
  BY <1>1 DEF Review, EvidenceInv, ReviewsAreApprovals

\* A step that moves one form.
LEMMA FormMoves ==
  ASSUME EvidenceInv, NEW r \in Reviewers, NEW form, reviews' = [reviews EXCEPT ![r] = form],
         form \in Review, form \notin {Idle, Away} /\ form.verify => form.status = "approved"
  PROVE  reviews' \in [Reviewers -> Review] /\ ReviewsAreApprovals'
<1>1. reviews \in [Reviewers -> Review]
  BY DEF EvidenceInv, EvidenceTypeOK
<1>2. reviews' \in [Reviewers -> Review] /\ reviews'[r] = form /\ \A x \in Reviewers : x # r => reviews'[x] = reviews[x]
  BY <1>1
<1> QED
  BY <1>2 DEF EvidenceInv, ReviewsAreApprovals

LEMMA IdleForm == Idle \in Review
BY DEF Review

LEMMA ReviewIsKept ==
  ASSUME EvidenceInv, NEW r \in Reviewers, ReviewDocument(r)
  PROVE  EvidenceInv' /\ ReportRests
<1>1. ASSUME NEW d \in Docs, OpenReview(r, d) PROVE EvidenceInv' /\ ReportRests
  <2>1. PICK status \in {"approved", "rejected"}, verify \in BOOLEAN :
          /\ verify => status = "approved"
          /\ reviews' = [reviews EXCEPT ![r] = [at |-> "open", doc |-> d, seen |-> docs[d].details,
                                                status |-> status, verify |-> verify]]
    BY <1>1 DEF OpenReview
  <2>2. docs[d].details \in Details
    <3>1. docs[d] # NoDoc
      BY <1>1, NothingIsAbsent DEF OpenReview, Present
    <3> QED
      BY <3>1, DocumentRow
  <2>. DEFINE form == [at |-> "open", doc |-> d, seen |-> docs[d].details, status |-> status, verify |-> verify]
  <2>3. form \in Review /\ (form.verify => form.status = "approved")
    BY <2>1, <2>2 DEF Review
  <2>4. reviews' = [reviews EXCEPT ![r] = form]
    BY <2>1
  <2>. HIDE DEF form
  <2>5. reviews' \in [Reviewers -> Review] /\ ReviewsAreApprovals'
    BY <2>3, <2>4, FormMoves
  <2>6. UNCHANGED <<entries, docs, disputes, items, report, writes>>
    BY <1>1 DEF OpenReview
  <2> QED
    BY <2>5, <2>6, RestIsKept DEF EvidenceInv, EvidenceTypeOK, VerifiedIsDescribed, Described
<1>2. CASE StartReview(r)
  <2>. DEFINE form == [reviews[r] EXCEPT !.at = "checked"]
  <2>1. form \in Review /\ (form.verify => form.status = "approved")
    BY <1>2, FormIsFilled DEF StartReview, Review
  <2>2. reviews' = [reviews EXCEPT ![r] = form] /\ UNCHANGED <<entries, docs, disputes, items, report, writes>>
    BY <1>2 DEF StartReview
  <2>. HIDE DEF form
  <2>3. reviews' \in [Reviewers -> Review] /\ ReviewsAreApprovals'
    BY <2>1, <2>2, FormMoves
  <2> QED
    BY <2>2, <2>3, RestIsKept DEF EvidenceInv, EvidenceTypeOK, VerifiedIsDescribed, Described
<1>3. CASE RefuseReview(r)
  <2>1. reviews' = [reviews EXCEPT ![r] = Idle] /\ UNCHANGED <<entries, docs, disputes, items, report, writes>>
    BY <1>3 DEF RefuseReview
  <2>2. reviews' \in [Reviewers -> Review] /\ ReviewsAreApprovals'
    BY <2>1, IdleForm, FormMoves
  <2> QED
    BY <2>1, <2>2, RestIsKept DEF EvidenceInv, EvidenceTypeOK, VerifiedIsDescribed, Described
<1>4. CASE WriteReview(r)
  <2>. DEFINE f == reviews[r]
              row == [docs[f.doc] EXCEPT !.status = f.status, !.verified = f.verify]
  <2>1. /\ f \in [at : {"open", "checked"}, doc : Docs, seen : Details, status : {"approved", "rejected"},
                  verify : BOOLEAN]
        /\ f.verify => f.status = "approved"
    BY <1>4, FormIsFilled DEF WriteReview
  <2>2. reviews' = [reviews EXCEPT ![r] = Idle] /\ UNCHANGED <<entries, disputes, items, report>>
    BY <1>4 DEF WriteReview
  <2>3. reviews' \in [Reviewers -> Review] /\ ReviewsAreApprovals'
    BY <2>2, IdleForm, FormMoves
  <2>4. CASE UNCHANGED <<docs, writes>>
    BY <2>2, <2>3, <2>4, RestIsKept DEF EvidenceInv, EvidenceTypeOK, VerifiedIsDescribed, Described
  <2>5. CASE /\ docs[f.doc] # NoDoc /\ MayBeVerified(f) /\ writes < MaxWrites
             /\ docs' = [docs EXCEPT ![f.doc].status = f.status, ![f.doc].verified = f.verify]
             /\ writes' = writes + 1
    <3>1. docs' = [docs EXCEPT ![f.doc] = row]
      BY <2>1, <2>5 DEF EvidenceInv, EvidenceTypeOK
    <3>2. docs[f.doc] \in [at : {"kept", "expired"}, status : {"pending", "approved", "rejected"}, details : Details,
                           verified : BOOLEAN, sum : BOOLEAN]
      BY <2>1, <2>5, DocumentRow
    <3>3. row \in Document /\ row.verified = f.verify /\ row.status = f.status /\ row.details = docs[f.doc].details
      BY <2>1, <3>2 DEF Document
    <3>4. f.verify => docs[f.doc].details \in SignedDetails
      BY <2>5 DEF MayBeVerified, Described
    <3>5. f.doc \in Docs
      BY <2>1
    <3>. HIDE DEF row
    <3>6. VerifiedIsDescribed' /\ docs' \in [Docs -> Document]
      BY <2>1, <3>1, <3>3, <3>4, <3>5, DocumentIsWritten
    <3>7. writes' \in 0..MaxWrites
      BY <2>5, WritesAreCounted DEF Writes, EvidenceInv, EvidenceTypeOK
    <3> QED
      BY <2>2, <2>3, <3>6, <3>7, RestIsKept DEF EvidenceInv, EvidenceTypeOK
  <2> QED
    BY <1>4, <2>4, <2>5 DEF WriteReview
<1> QED
  BY <1>1, <1>2, <1>3, <1>4 DEF ReviewDocument

-----------------------------------------------------------------------------
\* Disputes and components.

LEMMA DisputeIsKept ==
  ASSUME EvidenceInv, NEW i \in Ids, Raise(i) \/ Lift(i)
  PROVE  EvidenceInv' /\ ReportRests
<1>1. Writes /\ UNCHANGED <<entries, docs, items, report, reviews>>
  BY DEF Raise, Lift
<1>2. \A j \in Ids : disputes[j] \in Seq(Dispute)
  BY DEF EvidenceInv, EvidenceTypeOK, Dispute
<1>3. ASSUME NEW list \in Seq(Dispute), disputes' = [disputes EXCEPT ![i] = list] PROVE EvidenceInv' /\ ReportRests
  <2>1. \A j \in Ids : disputes'[j] \in Seq(Dispute)
    BY <1>2, <1>3
  <2> QED
    BY <1>1, <2>1, RestIsKept, DocumentsStay, WritesAreCounted DEF EvidenceInv, EvidenceTypeOK, Dispute
<1>4. CASE Raise(i)
  <2>1. PICK doc \in {{}} \cup {{d} : d \in {x \in Docs : EntryOf[x] = i /\ docs[x] # NoDoc}} :
          disputes' = [disputes EXCEPT ![i] = Append(@, [doc |-> doc, lifted |-> FALSE])]
    BY <1>4 DEF Raise
  <2>2. doc \in SUBSET Docs
    OBVIOUS
  <2>. DEFINE new == [doc |-> doc, lifted |-> FALSE]
  <2>3. new \in Dispute
    BY <2>2 DEF Dispute
  <2>4. disputes' = [disputes EXCEPT ![i] = Append(disputes[i], new)]
    BY <2>1
  <2>. HIDE DEF new
  <2>5. Append(disputes[i], new) \in Seq(Dispute)
    BY <1>2, <2>3
  <2> QED
    BY <1>3, <2>4, <2>5
<1>5. CASE Lift(i)
  <2>. DEFINE mine == disputes[i]
              after == [k \in DOMAIN mine |-> [mine[k] EXCEPT !.lifted = TRUE]]
  <2>1. disputes' = [disputes EXCEPT ![i] = after]
    BY <1>5 DEF Lift
  <2>2. mine \in Seq(Dispute)
    BY <1>2
  <2>3. ASSUME NEW k \in DOMAIN mine PROVE after[k] \in Dispute
    <3>1. mine[k] \in Dispute
      BY <2>2
    <3>2. after[k] = [mine[k] EXCEPT !.lifted = TRUE]
      OBVIOUS
    <3>. HIDE DEF mine, after
    <3>3. mine[k] \in [doc : SUBSET Docs, lifted : BOOLEAN]
      BY <3>1 DEF Dispute
    <3>4. [mine[k] EXCEPT !.lifted = TRUE] \in [doc : SUBSET Docs, lifted : BOOLEAN]
      BY <3>3
    <3> QED
      BY <3>2, <3>4 DEF Dispute
  <2>4. after = [k \in DOMAIN mine |-> after[k]]
    OBVIOUS
  <2>. HIDE DEF after
  <2>5. after \in Seq(Dispute)
    BY <2>2, <2>3, <2>4, EachIsChanged
  <2> QED
    BY <1>3, <2>1, <2>5
<1> QED
  BY <1>4, <1>5

\* A component is written together with the touch of its entry.
LEMMA ComponentIsWritten ==
  ASSUME EvidenceInv, NEW k \in Items, NEW i \in Ids, NEW row \in Item, items' = [items EXCEPT ![k] = row],
         Writes, Changed(i), UNCHANGED <<entries, docs, disputes, reviews>>,
         items[k] # NoItem => items[k].entry = i, row # NoItem => row.entry = i
  PROVE  EvidenceInv' /\ ReportRests
<1>1. items' \in [Items -> Item] /\ items'[k] = row /\ \A x \in Items : x # k => items'[x] = items[x]
  BY DEF EvidenceInv, EvidenceTypeOK
<1>2. ReportRests /\ report' \in [Periods -> Report]
  BY <1>1, ChangeTakesApproval DEF EvidenceInv
<1> QED
  BY <1>1, <1>2, DocumentsStay, WritesAreCounted DEF EvidenceInv, EvidenceTypeOK

LEMMA ComponentIsKept ==
  ASSUME EvidenceInv, NEW k \in Items, CreateItem(k) \/ UpdateItem(k) \/ DeleteItem(k)
  PROVE  EvidenceInv' /\ ReportRests
<1>1. Writes /\ UNCHANGED <<entries, docs, disputes, reviews>>
  BY DEF CreateItem, UpdateItem, DeleteItem
<1>2. CASE CreateItem(k)
  <2>1. PICK i \in Ids, kind \in Kinds : \E ds \in SUBSET Mine(i) :
          /\ items' = [items EXCEPT ![k] = [at |-> "kept", kind |-> kind, entry |-> i, docs |-> ds]]
          /\ Touch(i)
    BY <1>2 DEF CreateItem
  <2>2. PICK ds \in SUBSET Mine(i) :
          items' = [items EXCEPT ![k] = [at |-> "kept", kind |-> kind, entry |-> i, docs |-> ds]] /\ Touch(i)
    BY <2>1
  <2>3. ds \in SUBSET Docs
    BY DEF Mine
  <2>. DEFINE row == [at |-> "kept", kind |-> kind, entry |-> i, docs |-> ds]
  <2>4. row \in Item /\ row.entry = i
    BY <2>3 DEF Item
  <2>5. items' = [items EXCEPT ![k] = row]
    BY <2>2
  <2>6. Changed(i) /\ items[k] = NoItem
    BY <1>2, <2>2 DEF Touch, CreateItem
  <2>. HIDE DEF row
  <2> QED
    BY <1>1, <2>4, <2>5, <2>6, ComponentIsWritten
<1>3. ASSUME items[k] # NoItem
      PROVE  items[k] \in [at : {"kept"}, kind : Kinds, entry : Ids, docs : SUBSET Docs]
  BY <1>3 DEF EvidenceInv, EvidenceTypeOK, Item
<1>4. CASE UpdateItem(k)
  <2>1. PICK ds \in SUBSET Mine(items[k].entry) : items' = [items EXCEPT ![k].docs = ds]
    BY <1>4 DEF UpdateItem
  <2>2. ds \in SUBSET Docs /\ items[k] # NoItem /\ Changed(items[k].entry)
    BY <1>4 DEF Mine, UpdateItem, Touch
  <2>. DEFINE row == [items[k] EXCEPT !.docs = ds]
  <2>3. row \in Item /\ row.entry = items[k].entry /\ items[k].entry \in Ids
    BY <1>3, <2>2 DEF Item
  <2>4. items' = [items EXCEPT ![k] = row]
    BY <2>1
  <2>. HIDE DEF row
  <2> QED
    BY <1>1, <2>2, <2>3, <2>4, ComponentIsWritten
<1>5. CASE DeleteItem(k)
  <2>1. items' = [items EXCEPT ![k] = NoItem] /\ items[k] # NoItem /\ Changed(items[k].entry)
    BY <1>5 DEF DeleteItem, Touch
  <2>2. NoItem \in Item /\ items[k].entry \in Ids
    BY <1>3, <2>1 DEF Item
  <2> QED
    BY <1>1, <2>1, <2>2, ComponentIsWritten
<1> QED
  BY <1>2, <1>4, <1>5

LEMMA EvidenceIsKept ==
  ASSUME EvidenceInv, [Next]_vars
  PROVE  EvidenceInv' /\ ReportRests
<1>1. CASE UNCHANGED evidenceVars
  <2>1. UNCHANGED <<entries, docs, disputes, items, report, reviews, writes>>
    BY <1>1 DEF evidenceVars
  <2> QED
    BY <2>1, RestIsKept, DocumentsStay DEF EvidenceInv, EvidenceTypeOK
<1>2. CASE EvidenceNext
  BY <1>2, EntryIsWritten, ReportIsSet, DocumentIsUploaded, DocumentExpires, DocumentIsPurged, DocumentIsDescribed,
     ReviewIsKept, DisputeIsKept, ComponentIsKept DEF EvidenceNext
<1>3. CASE SetBudgetTarget
  <2>1. Writes /\ UNCHANGED <<entries, docs, disputes, items, report, reviews>>
    BY <1>3 DEF SetBudgetTarget
  <2> QED
    BY <2>1, RestIsKept, DocumentsStay, WritesAreCounted DEF EvidenceInv, EvidenceTypeOK
<1>4. CASE \E w \in Workers : Rebuild(w)
  BY <1>1, <1>4 DEF Rebuild, RebuildRead, RebuildWrite
<1>5. CASE \E q \in Sealers : SealStart(q) \/ SealDocuments(q) \/ Seal(q) \/ GiveUp(q)
  BY <1>1, <1>5 DEF SealStart, SealDocuments, Seal, GiveUp
<1>6. CASE UNCHANGED vars
  BY <1>1, <1>6 DEF vars
<1> QED
  BY <1>2, <1>3, <1>4, <1>5, <1>6 DEF Next

LEMMA EvidenceInitially == Init => EvidenceInv
<1>. SUFFICES ASSUME Init PROVE EvidenceInv
  OBVIOUS
<1>1. PICK start \in Starts : EvidenceInit(start)
  BY DEF Init
<1>2. /\ start.entries \in [Ids -> Entry] /\ start.docs \in [Docs -> Document]
      /\ start.items \in [Items -> Item] /\ start.report \in [Periods -> Report]
      /\ start.writes \in 0..MaxWrites
      /\ \A d \in Docs : start.docs[d] # NoDoc /\ start.docs[d].verified =>
             start.docs[d].status = "approved" /\ start.docs[d].details \in SignedDetails
  BY StocksAssumption DEF StocksAssumption
<1>3. reviews = [r \in Reviewers |-> IF r \in start.busy THEN Idle ELSE Away]
  BY <1>1 DEF EvidenceInit, Presence
<1>4. \A r \in Reviewers : reviews[r] \in {Idle, Away}
  BY <1>3
<1>5. reviews \in [Reviewers -> Review]
  BY <1>3, <1>4 DEF Review
<1>6. \A i \in Ids : disputes[i] = <<>>
  BY <1>1 DEF EvidenceInit
<1> QED
  BY <1>1, <1>2, <1>4, <1>5, <1>6 DEF EvidenceInit, EvidenceInv, EvidenceTypeOK, ReviewsAreApprovals, VerifiedIsDescribed, Described

\* A signature is confirmed only where one is described and the document is
\* approved, however reviews and changes of the details interleave: the constraint
\* of the row has the last word (0808:39).
THEOREM SignaturesAreDescribed == Spec => []VerifiedIsDescribed
<1>1. EvidenceInv => VerifiedIsDescribed
  BY DEF EvidenceInv
<1>2. EvidenceInv /\ [Next]_vars => EvidenceInv'
  BY EvidenceIsKept
<1> QED
  BY <1>1, <1>2, EvidenceInitially, PTL DEF Spec

\* While a report stays approved, no step changes an entry of its period or a
\* component of one, but for documents that are purged (top_items.go, touchEntry).
THEOREM ReportsFollow == Spec => ReportFollowsItsBasis
<1>1. EvidenceInv /\ [Next]_vars => EvidenceInv'
  BY EvidenceIsKept
<1>2. EvidenceInv /\ [Next]_vars =>
        [\A p \in Periods : report[p].status = "approved" /\ report'[p].status = "approved" =>
           /\ \A i \in Ids : SliceOf(i) = p => entries'[i] = entries[i]
           /\ \A k \in Items : Regards(k, p) => SameComponent(k)]_vars
  BY EvidenceIsKept DEF ReportRests
<1> QED
  BY <1>1, <1>2, EvidenceInitially, PTL DEF Spec, ReportFollowsItsBasis

-----------------------------------------------------------------------------
\* The cache and the sealed pictures.

Counts == 0..Cardinality(Ids)

\* What a rebuild brings is counted before it is written.
CacheTyped ==
    /\ DOMAIN cache = Years /\ \A y \in Years : cache[y].count \in Counts
    /\ DOMAIN rebuilds = Workers
    /\ \A w \in Workers : \/ rebuilds[w] \in {Idle, Away}
                          \/ rebuilds[w].at = "read" /\ rebuilds[w].slice.count \in Counts

SealsTyped ==
    /\ DOMAIN seals = Sealers
    /\ \A q \in Sealers : "at" \in DOMAIN seals[q] /\ seals[q].at \in {"away", "idle", "entries", "docs"}

ReadersInv == EvidenceInv /\ CacheTyped /\ SealsTyped /\ target \in Nat

LEMMA EntriesAreCounted ==
  ASSUME NEW y
  PROVE  Cardinality(Contributions(y)) \in Counts
<1>. DEFINE S == {x \in Ids : Kept(x) /\ CardOf[x].year = y}
            f == [i \in S |-> Contribution(i)]
<1>1. IsFiniteSet(Ids)
  BY EvidenceAssumption DEF EvidenceAssumption
<1>2. IsFiniteSet(S) /\ Cardinality(S) <= Cardinality(Ids)
  BY <1>1, FS_Subset
<1>3. Contributions(y) = {Contribution(i) : i \in S}
  BY DEF Contributions
<1>. HIDE DEF S
<1>4. f \in Surjection(S, Contributions(y))
  <2>1. f \in [S -> Contributions(y)]
    BY <1>3
  <2>2. \A c \in Contributions(y) : \E i \in S : f[i] = c
    BY <1>3
  <2> QED
    BY <2>1, <2>2 DEF Surjection
<1>5. IsFiniteSet(Contributions(y)) /\ Cardinality(Contributions(y)) <= Cardinality(S)
  BY <1>2, <1>4, FS_Surjection
<1>6. Cardinality(Contributions(y)) \in Nat /\ Cardinality(S) \in Nat /\ Cardinality(Ids) \in Nat
  BY <1>1, <1>2, <1>5, FS_CardinalityType
<1> QED
  BY <1>2, <1>5, <1>6 DEF Counts

LEMMA RebuildIsTyped ==
  ASSUME CacheTyped, NEW w \in Workers, Rebuild(w)
  PROVE  CacheTyped' /\ UNCHANGED <<seals, target>>
<1>1. ASSUME NEW y \in Years, RebuildRead(w, y) PROVE CacheTyped' /\ UNCHANGED <<seals, target>>
  <2>. DEFINE row == [at |-> "read", year |-> y, slice |-> Fresh(y)]
  <2>1. row.at = "read" /\ row.slice.count \in Counts
    BY EntriesAreCounted DEF Fresh
  <2>2. rebuilds' = [rebuilds EXCEPT ![w] = row] /\ UNCHANGED <<cache, seals, target>>
    BY <1>1 DEF RebuildRead
  <2>. HIDE DEF row
  <2> QED
    BY <2>1, <2>2 DEF CacheTyped, Counts
<1>2. CASE RebuildWrite(w)
  <2>. DEFINE r == rebuilds[w]
              row == [rows |-> Replaced(cache[r.year].rows, r.slice.rows), count |-> r.slice.count]
  <2>1. r.at = "read" /\ r.slice.count \in Counts
    BY <1>2, NothingIsAbsent DEF CacheTyped, RebuildWrite
  <2>2. /\ cache' = [cache EXCEPT ![r.year] = row] /\ rebuilds' = [rebuilds EXCEPT ![w] = Idle]
        /\ UNCHANGED <<seals, target>>
    BY <1>2 DEF RebuildWrite
  <2>3. row.count \in Counts
    BY <2>1
  <2>. HIDE DEF row, r
  <2>4. DOMAIN cache' = Years /\ \A y \in Years : cache'[y].count \in Counts
    BY <2>2, <2>3 DEF CacheTyped
  <2>5. /\ DOMAIN rebuilds' = Workers /\ rebuilds'[w] = Idle
        /\ \A x \in Workers : x # w => rebuilds'[x] = rebuilds[x]
    BY <2>2 DEF CacheTyped
  <2> QED
    BY <2>2, <2>4, <2>5 DEF CacheTyped, Counts
<1> QED
  BY <1>1, <1>2 DEF Rebuild

LEMMA SealIsTyped ==
  ASSUME SealsTyped, NEW q \in Sealers, SealStart(q) \/ SealDocuments(q) \/ Seal(q) \/ GiveUp(q)
  PROVE  SealsTyped' /\ UNCHANGED <<cache, rebuilds, target>>
<1>1. UNCHANGED <<cache, rebuilds, target>>
  BY DEF SealStart, SealDocuments, Seal, GiveUp
<1>2. ASSUME NEW s, "at" \in DOMAIN s, s.at \in {"away", "idle", "entries", "docs"}, seals' = [seals EXCEPT ![q] = s]
      PROVE  SealsTyped'
  BY <1>2 DEF SealsTyped
<1>3. "at" \in DOMAIN Idle /\ Idle.at = "idle"
  BY DEF Idle
<1>4. CASE SealStart(q)
  <2>1. PICK es, moment : seals' = [seals EXCEPT ![q] = [at |-> "entries", entries |-> es, moment |-> moment, docs |-> NoDoc]]
    BY <1>4 DEF SealStart
  <2>. DEFINE s == [at |-> "entries", entries |-> es, moment |-> moment, docs |-> NoDoc]
  <2>2. "at" \in DOMAIN s /\ s.at = "entries"
    OBVIOUS
  <2>3. seals' = [seals EXCEPT ![q] = s]
    BY <2>1
  <2>. HIDE DEF s
  <2>4. SealsTyped'
    BY <1>2, <2>2, <2>3
  <2> QED
    BY <1>1, <2>4
<1>5. CASE SealDocuments(q)
  <2>1. PICK shown : \/ seals' = [seals EXCEPT ![q] = Idle]
                     \/ seals' = [seals EXCEPT ![q] = [@ EXCEPT !.at = "docs", !.docs = shown]]
    BY <1>5 DEF SealDocuments
  <2>. DEFINE s == [seals[q] EXCEPT !.at = "docs", !.docs = shown]
  <2>2. "at" \in DOMAIN s /\ s.at = "docs"
    BY DEF SealsTyped
  <2>3. seals' = [seals EXCEPT ![q] = Idle] \/ seals' = [seals EXCEPT ![q] = s]
    BY <2>1 DEF SealsTyped
  <2>. HIDE DEF s
  <2>4. CASE seals' = [seals EXCEPT ![q] = Idle]
    BY <1>1, <1>2, <1>3, <2>4
  <2>5. CASE seals' = [seals EXCEPT ![q] = s]
    <3>1. SealsTyped'
      BY <1>2, <2>2, <2>5
    <3> QED
      BY <1>1, <3>1
  <2> QED
    BY <2>3, <2>4, <2>5
<1>6. CASE Seal(q) \/ GiveUp(q)
  BY <1>2, <1>3, <1>6 DEF Seal, GiveUp
<1> QED
  BY <1>1, <1>4, <1>5, <1>6

LEMMA TargetIsAmount ==
  ASSUME SetBudgetTarget
  PROVE  target' \in Nat
<1>1. PICK base \in Bases : (base * 3 + 50) \div 100 > 0 /\ target' = (base * 3 + 50) \div 100
  BY DEF SetBudgetTarget
<1>2. base \in Nat
  BY YearAssumption DEF YearAssumption
<1> QED
  BY <1>1, <1>2

LEMMA ReadersAreKept ==
  ASSUME ReadersInv, [Next]_vars
  PROVE  ReadersInv'
<1>1. EvidenceInv'
  BY EvidenceIsKept DEF ReadersInv
<1>2. CASE UNCHANGED <<cache, rebuilds, seals, target>>
  BY <1>1, <1>2 DEF ReadersInv, CacheTyped, SealsTyped, Counts
<1>3. CASE \E w \in Workers : Rebuild(w)
  BY <1>1, <1>3, RebuildIsTyped DEF ReadersInv, SealsTyped
<1>4. CASE \E q \in Sealers : SealStart(q) \/ SealDocuments(q) \/ Seal(q) \/ GiveUp(q)
  BY <1>1, <1>4, SealIsTyped DEF ReadersInv, CacheTyped, Counts
<1>5. CASE SetBudgetTarget
  BY <1>1, <1>5, TargetIsAmount DEF ReadersInv, CacheTyped, SealsTyped, SetBudgetTarget, Counts
<1> QED
  BY <1>2, <1>3, <1>4, <1>5 DEF Next, vars

LEMMA ReadersInitially == Init => ReadersInv
<1>. SUFFICES ASSUME Init PROVE ReadersInv
  OBVIOUS
<1>1. PICK start \in Starts : rebuilds = Presence(Workers, start) /\ seals = Presence(Sealers, start)
  BY DEF Init
<1>2. /\ DOMAIN rebuilds = Workers /\ \A w \in Workers : rebuilds[w] \in {Idle, Away}
      /\ DOMAIN seals = Sealers /\ \A q \in Sealers : seals[q] \in {Idle, Away}
  BY <1>1 DEF Presence
<1>3. 0 \in Counts
  <2>1. Cardinality(Ids) \in Nat
    BY FS_CardinalityType, EvidenceAssumption DEF EvidenceAssumption
  <2> QED
    BY <2>1 DEF Counts
<1>4. cache = [y \in Years |-> [rows |-> {}, count |-> 0]] /\ target = 0
  BY DEF Init
<1>5. CacheTyped
  BY <1>2, <1>3, <1>4 DEF CacheTyped
<1>6. SealsTyped
  BY <1>2 DEF SealsTyped, Idle, Away
<1> QED
  BY <1>4, <1>5, <1>6, EvidenceInitially DEF ReadersInv

\* Entries, documents, components and the reviews under way keep their types, and
\* so do the cache, the pictures being sealed and the target, whatever steps of
\* readers and writers come between each other.
THEOREM EvidenceTyped == Spec => []TypeOK
<1>1. ReadersInv => TypeOK
  BY NothingIsAbsent DEF ReadersInv, EvidenceInv, CacheTyped, SealsTyped, TypeOK, Counts
<1>2. ReadersInv /\ [Next]_vars => ReadersInv'
  BY ReadersAreKept
<1> QED
  BY <1>1, <1>2, ReadersInitially, PTL DEF Spec
-----------------------------------------------------------------------------
\* Induction over finite sets, as a least set that is wrong.
LEMMA SmallestExists ==
  ASSUME NEW S, IsFiniteSet(S), NEW B \in SUBSET SUBSET S, B # {}
  PROVE  \E U \in B : \A V \in B : V \subseteq U => V = U
<1>1. IsWellFoundedOn(StrictSubsetOrdering(S), FiniteSubsetsOf(S))
  BY FS_StrictSubsetOrderingWellFounded
<1>2. B \subseteq FiniteSubsetsOf(S)
  BY FS_Subset DEF FiniteSubsetsOf
<1>3. PICK U \in B : \A V \in B : <<V, U>> \notin StrictSubsetOrdering(S)
  BY <1>1, <1>2, WFMin
<1>4. ASSUME NEW V \in B, V \subseteq U, V # U PROVE FALSE
  <2>1. <<V, U>> \in (SUBSET S) \X (SUBSET S) /\ <<V, U>>[1] \subseteq <<V, U>>[2] /\ <<V, U>>[1] # <<V, U>>[2]
    BY <1>4
  <2> QED
    BY <1>3, <1>4, <2>1 DEF StrictSubsetOrdering
<1> QED
  BY <1>3, <1>4

\* The element a fold takes first, and a table of the sums of f over the subsets of S.
First(s) == CHOOSE x \in s : TRUE
Row(f, t, s) == IF s = {} THEN 0 ELSE f[First(s)] + t[s \ {First(s)}]
Sums(S, f, t) == t = [s \in SUBSET S |-> Row(f, t, s)]

LEMMA FirstIsIn == ASSUME NEW s, s # {} PROVE First(s) \in s
BY DEF First

LEMMA TotalIsRead ==
  ASSUME NEW S, NEW f, NEW t, Sums(S, f, t)
  PROVE  \E u : Sums(S, f, u) /\ Total(S, f) = u[S]
<1>. DEFINE u == CHOOSE u : Sums(S, f, u)
<1>1. Sums(S, f, u)
  OBVIOUS
<1>2. Total(S, f) = u[S]
  BY DEF Total, SumFunctionOnSet, FoldFunctionOnSet, MapThenFoldSet, Sums, Row, First
<1> QED
  BY <1>1, <1>2

LEMMA RowsOfTable ==
  ASSUME NEW S, NEW f, NEW t, Sums(S, f, t), NEW s \in SUBSET S
  PROVE  t[s] = Row(f, t, s)
BY DEF Sums

LEMMA TablesAgree ==
  ASSUME NEW S, IsFiniteSet(S), NEW f, NEW t, NEW u, Sums(S, f, t), NEW T \in SUBSET S, Sums(T, f, u)
  PROVE  \A s \in SUBSET T : t[s] = u[s]
<1>. DEFINE B == {s \in SUBSET T : t[s] # u[s]}
<1>1. ASSUME B # {} PROVE FALSE
  <2>1. PICK s \in B : \A v \in B : v \subseteq s => v = s
    <3>1. B \in SUBSET SUBSET S
      OBVIOUS
    <3>. HIDE DEF B
    <3> QED
      BY <1>1, <3>1, SmallestExists
  <2>2. t[s] = Row(f, t, s) /\ u[s] = Row(f, u, s)
    BY RowsOfTable
  <2>3. s # {}
    BY <2>2 DEF Row
  <2>4. First(s) \in s
    BY <2>3, FirstIsIn
  <2>5. s \ {First(s)} \notin B
    BY <2>1, <2>4
  <2>6. t[s \ {First(s)}] = u[s \ {First(s)}]
    BY <2>5
  <2> QED
    BY <2>1, <2>2, <2>3, <2>6 DEF Row
<1> QED
  BY <1>1

LEMMA TablesRestrict ==
  ASSUME NEW S, NEW f, NEW t, Sums(S, f, t), NEW T \in SUBSET S
  PROVE  Sums(T, f, [s \in SUBSET T |-> t[s]])
<1>. DEFINE u == [s \in SUBSET T |-> t[s]]
<1>1. ASSUME NEW s \in SUBSET T PROVE u[s] = Row(f, u, s)
  <2>1. t[s] = Row(f, t, s)
    BY RowsOfTable
  <2>2. s # {} => u[s \ {First(s)}] = t[s \ {First(s)}]
    OBVIOUS
  <2> QED
    BY <2>1, <2>2 DEF Row
<1>2. u = [s \in SUBSET T |-> u[s]]
  OBVIOUS
<1>. HIDE DEF u
<1> QED
  BY <1>1, <1>2 DEF Sums, u

\* What the table of S says of its subsets is their total.
LEMMA TableTellsTotals ==
  ASSUME NEW S, IsFiniteSet(S), NEW f, NEW t, Sums(S, f, t), NEW T \in SUBSET S
  PROVE  Total(T, f) = t[T]
<1>1. PICK u : Sums(T, f, u) /\ Total(T, f) = u[T]
  BY TablesRestrict, TotalIsRead
<1> QED
  BY <1>1, TablesAgree

LEMMA TableExists ==
  ASSUME NEW S, IsFiniteSet(S), NEW f
  PROVE  \E t : Sums(S, f, t)
<1>. DEFINE B == {s \in SUBSET S : ~ \E t : Sums(s, f, t)}
<1>1. ASSUME B # {} PROVE FALSE
  <2>1. PICK U \in B : \A V \in B : V \subseteq U => V = U
    <3>1. B \in SUBSET SUBSET S
      OBVIOUS
    <3>. HIDE DEF B
    <3> QED
      BY <1>1, <3>1, SmallestExists
  <2>2. \A V \in SUBSET U : V # U => \E t : Sums(V, f, t)
    BY <2>1
  <2>. DEFINE t == [s \in SUBSET U |-> IF s = U THEN IF U = {} THEN 0 ELSE f[First(U)] + Total(U \ {First(U)}, f)
                                                ELSE Total(s, f)]
  <2>3. ASSUME NEW s \in SUBSET U PROVE t[s] = Row(f, t, s)
    <3>1. CASE s = {}
      <4>1. CASE U = {}
        BY <3>1, <4>1 DEF Row
      <4>2. CASE U # {}
        <5>1. PICK u : Sums({}, f, u)
          BY <2>2, <4>2
        <5>2. Total({}, f) = u[{}] /\ u[{}] = 0
          BY <5>1, TableTellsTotals, RowsOfTable, FS_EmptySet DEF Row
        <5> QED
          BY <3>1, <4>2, <5>2 DEF Row
      <4> QED
        BY <4>1, <4>2
    <3>2. CASE s # {}
      <4>. DEFINE w == s \ {First(s)}
      <4>1. First(s) \in s /\ w \in SUBSET U /\ w # U
        BY <3>2, FirstIsIn
      <4>2. t[w] = Total(w, f)
        BY <4>1
      <4>3. CASE s = U
        BY <3>2, <4>2, <4>3 DEF Row
      <4>4. CASE s # U
        <5>1. PICK u : Sums(s, f, u)
          BY <2>2, <4>4
        <5>2. IsFiniteSet(s)
          BY FS_Subset
        <5>3. Total(s, f) = u[s] /\ Total(w, f) = u[w] /\ u[s] = Row(f, u, s)
          BY <5>1, <5>2, TableTellsTotals, RowsOfTable
        <5> QED
          BY <3>2, <4>2, <4>4, <5>3 DEF Row
      <4> QED
        BY <4>3, <4>4
    <3> QED
      BY <3>1, <3>2
  <2>4. t = [s \in SUBSET U |-> t[s]]
    OBVIOUS
  <2>. HIDE DEF t
  <2>5. Sums(U, f, t)
    BY <2>3, <2>4 DEF Sums
  <2> QED
    BY <2>1, <2>5
<1> QED
  BY <1>1

LEMMA TotalUnfolds ==
  ASSUME NEW S, IsFiniteSet(S), NEW f
  PROVE  /\ S = {} => Total(S, f) = 0
         /\ S # {} => First(S) \in S /\ Total(S, f) = f[First(S)] + Total(S \ {First(S)}, f)
<1>1. PICK t : Sums(S, f, t)
  BY TableExists
<1>2. \A T \in SUBSET S : Total(T, f) = t[T]
  BY <1>1, TableTellsTotals
<1>3. t[S] = Row(f, t, S)
  BY <1>1, RowsOfTable
<1> QED
  BY <1>2, <1>3, FirstIsIn DEF Row

LEMMA TotalIsInt ==
  ASSUME NEW S, IsFiniteSet(S), NEW f, \A x \in S : f[x] \in Int
  PROVE  Total(S, f) \in Int
<1>. DEFINE B == {s \in SUBSET S : Total(s, f) \notin Int}
<1>1. ASSUME B # {} PROVE FALSE
  <2>1. PICK U \in B : \A V \in B : V \subseteq U => V = U
    <3>1. B \in SUBSET SUBSET S
      OBVIOUS
    <3>. HIDE DEF B
    <3> QED
      BY <1>1, <3>1, SmallestExists
  <2>2. IsFiniteSet(U)
    BY FS_Subset
  <2>3. U # {}
    <3>1. U = {} => Total(U, f) = 0
      BY <2>2, TotalUnfolds
    <3> QED
      BY <2>1, <3>1
  <2>4. First(U) \in U /\ Total(U, f) = f[First(U)] + Total(U \ {First(U)}, f)
    BY <2>2, <2>3, TotalUnfolds
  <2>5. Total(U \ {First(U)}, f) \in Int
    BY <2>1, <2>4
  <2>6. f[First(U)] \in Int
    BY <2>4
  <2> QED
    BY <2>1, <2>4, <2>5, <2>6
<1> QED
  BY <1>1

\* A sum does not depend on the order: any element may be taken out first.
LEMMA TakenOut ==
  ASSUME NEW S, IsFiniteSet(S), NEW f, \A x \in S : f[x] \in Int, NEW x \in S
  PROVE  Total(S, f) = f[x] + Total(S \ {x}, f)
<1>. DEFINE B == {s \in SUBSET S : \E y \in s : Total(s, f) # f[y] + Total(s \ {y}, f)}
<1>1. ASSUME B # {} PROVE FALSE
  <2>1. PICK U \in B : \A V \in B : V \subseteq U => V = U
    <3>1. B \in SUBSET SUBSET S
      OBVIOUS
    <3>. HIDE DEF B
    <3> QED
      BY <1>1, <3>1, SmallestExists
  <2>2. PICK y \in U : Total(U, f) # f[y] + Total(U \ {y}, f)
    BY <2>1
  <2>. DEFINE z == First(U)
              W == (U \ {y}) \ {z}
  <2>3. IsFiniteSet(U) /\ IsFiniteSet(W) /\ W \in SUBSET S
    BY FS_Subset
  <2>4. z \in U /\ Total(U, f) = f[z] + Total(U \ {z}, f)
    BY <2>3, TotalUnfolds
  <2>. HIDE DEF z
  <2>5. z # y
    BY <2>2, <2>4
  <2>6. Total(U \ {z}, f) = f[y] + Total((U \ {z}) \ {y}, f)
    <3>1. U \ {z} \notin B /\ y \in U \ {z}
      BY <2>1, <2>4, <2>5
    <3> QED
      BY <3>1
  <2>7. Total(U \ {y}, f) = f[z] + Total((U \ {y}) \ {z}, f)
    <3>1. U \ {y} \notin B /\ z \in U \ {y}
      BY <2>1, <2>4, <2>5
    <3> QED
      BY <3>1
  <2>8. (U \ {z}) \ {y} = W
    OBVIOUS
  <2>9. Total(W, f) \in Int /\ f[y] \in Int /\ f[z] \in Int
    <3>1. \A v \in W : f[v] \in Int
      OBVIOUS
    <3> QED
      BY <2>3, <2>4, <3>1, TotalIsInt
  <2>. HIDE DEF W
  <2>10. Total(U, f) = f[z] + (f[y] + Total(W, f)) /\ Total(U \ {y}, f) = f[z] + Total(W, f)
    BY <2>4, <2>6, <2>7, <2>8 DEF W
  <2>11. f[z] + (f[y] + Total(W, f)) = f[y] + (f[z] + Total(W, f))
    BY <2>9
  <2> QED
    BY <2>2, <2>10, <2>11
<1> QED
  BY <1>1

LEMMA EmptyTotal == ASSUME NEW f PROVE Total({}, f) = 0
BY TotalUnfolds, FS_EmptySet

\* Only what f says of the set matters.
LEMMA SameTotal ==
  ASSUME NEW S, IsFiniteSet(S), NEW f, NEW g, \A x \in S : f[x] = g[x]
  PROVE  Total(S, f) = Total(S, g)
<1>. DEFINE B == {s \in SUBSET S : Total(s, f) # Total(s, g)}
<1>1. ASSUME B # {} PROVE FALSE
  <2>1. PICK U \in B : \A V \in B : V \subseteq U => V = U
    <3>1. B \in SUBSET SUBSET S
      OBVIOUS
    <3>. HIDE DEF B
    <3> QED
      BY <1>1, <3>1, SmallestExists
  <2>2. IsFiniteSet(U) /\ U \subseteq S
    BY FS_Subset
  <2>3. U # {}
    BY <2>1, EmptyTotal
  <2>4. /\ First(U) \in U
        /\ Total(U, f) = f[First(U)] + Total(U \ {First(U)}, f)
        /\ Total(U, g) = g[First(U)] + Total(U \ {First(U)}, g)
    BY <2>2, <2>3, TotalUnfolds
  <2>5. Total(U \ {First(U)}, f) = Total(U \ {First(U)}, g)
    BY <2>1, <2>4
  <2>6. f[First(U)] = g[First(U)]
    BY <2>2, <2>4
  <2> QED
    BY <2>1, <2>4, <2>5, <2>6
<1> QED
  BY <1>1

LEMMA NothingTotals ==
  ASSUME NEW S, IsFiniteSet(S), NEW f, \A x \in S : f[x] = 0
  PROVE  Total(S, f) = 0
<1>. DEFINE B == {s \in SUBSET S : Total(s, f) # 0}
<1>1. ASSUME B # {} PROVE FALSE
  <2>1. PICK U \in B : \A V \in B : V \subseteq U => V = U
    <3>1. B \in SUBSET SUBSET S
      OBVIOUS
    <3>. HIDE DEF B
    <3> QED
      BY <1>1, <3>1, SmallestExists
  <2>2. IsFiniteSet(U) /\ U \subseteq S
    BY FS_Subset
  <2>3. U # {}
    BY <2>1, EmptyTotal
  <2>4. First(U) \in U /\ Total(U, f) = f[First(U)] + Total(U \ {First(U)}, f)
    BY <2>2, <2>3, TotalUnfolds
  <2>5. Total(U \ {First(U)}, f) = 0
    BY <2>1, <2>4
  <2>6. f[First(U)] = 0
    BY <2>2, <2>4
  <2> QED
    BY <2>1, <2>4, <2>5, <2>6
<1> QED
  BY <1>1

LEMMA TotalsJoin ==
  ASSUME NEW S, NEW T, IsFiniteSet(S), IsFiniteSet(T), S \cap T = {}, NEW f, \A x \in S \cup T : f[x] \in Int
  PROVE  Total(S \cup T, f) = Total(S, f) + Total(T, f)
<1>. DEFINE B == {s \in SUBSET S : Total(s \cup T, f) # Total(s, f) + Total(T, f)}
<1>1. ASSUME B # {} PROVE FALSE
  <2>1. PICK U \in B : \A V \in B : V \subseteq U => V = U
    <3>1. B \in SUBSET SUBSET S
      OBVIOUS
    <3>. HIDE DEF B
    <3> QED
      BY <1>1, <3>1, SmallestExists
  <2>2. IsFiniteSet(U) /\ U \subseteq S /\ Total(U \cup T, f) # Total(U, f) + Total(T, f)
    BY <2>1, FS_Subset
  <2>3. Total(T, f) \in Int
    BY TotalIsInt
  <2>4. U # {}
    <3>1. ASSUME U = {} PROVE FALSE
      <4>1. U \cup T = T /\ Total(U, f) = 0
        BY <3>1, EmptyTotal
      <4>2. Total(U \cup T, f) = Total(T, f)
        BY <4>1
      <4>3. 0 + Total(T, f) = Total(T, f)
        BY <2>3
      <4>. HIDE DEF B
      <4> QED
        BY <2>2, <4>1, <4>2, <4>3
    <3> QED
      BY <3>1
  <2>5. PICK x \in U : TRUE
    BY <2>4
  <2>. DEFINE W == U \ {x}
  <2>6. IsFiniteSet(U \cup T) /\ \A y \in U \cup T : f[y] \in Int
    BY <2>2, FS_Union
  <2>7. Total(U \cup T, f) = f[x] + Total((U \cup T) \ {x}, f)
    BY <2>5, <2>6, TakenOut
  <2>8. Total(U, f) = f[x] + Total(W, f)
    BY <2>2, <2>5, <2>6, TakenOut
  <2>9. (U \cup T) \ {x} = W \cup T
    BY <2>2, <2>5
  <2>10. Total(W \cup T, f) = Total(W, f) + Total(T, f)
    BY <2>1, <2>5
  <2>11. Total(W, f) \in Int /\ f[x] \in Int
    <3>1. IsFiniteSet(W) /\ \A y \in W : f[y] \in Int
      BY <2>2, <2>6, FS_Subset
    <3>. HIDE DEF W
    <3> QED
      BY <2>5, <2>6, <3>1, TotalIsInt
  <2>. HIDE DEF W, B
  <2>12. f[x] + (Total(W, f) + Total(T, f)) = (f[x] + Total(W, f)) + Total(T, f)
    BY <2>3, <2>11
  <2> QED
    BY <2>2, <2>7, <2>8, <2>9, <2>10, <2>12
<1>2. S \notin B
  BY <1>1
<1> QED
  BY <1>2

\* What contributes nothing may be left out.
LEMMA LeftOut ==
  ASSUME NEW S, IsFiniteSet(S), NEW T \in SUBSET S, NEW f,
         \A x \in S : f[x] \in Int, \A x \in S \ T : f[x] = 0
  PROVE  Total(S, f) = Total(T, f)
<1>. DEFINE R == S \ T
<1>1. IsFiniteSet(T) /\ IsFiniteSet(R) /\ T \cap R = {} /\ T \cup R = S
  BY FS_Subset
<1>2. \A x \in R : f[x] = 0
  OBVIOUS
<1>3. \A x \in T \cup R : f[x] \in Int
  BY <1>1
<1>. HIDE DEF R
<1>4. Total(T \cup R, f) = Total(T, f) + Total(R, f)
  BY <1>1, <1>3, TotalsJoin
<1>5. Total(R, f) = 0 /\ Total(T, f) \in Int
  BY <1>1, <1>2, <1>3, NothingTotals, TotalIsInt
<1>6. Total(T, f) + Total(R, f) = Total(T, f)
  BY <1>5
<1> QED
  BY <1>1, <1>4, <1>6

LEMMA TotalsAdd ==
  ASSUME NEW S, IsFiniteSet(S), NEW f, NEW g, NEW h,
         \A x \in S : f[x] \in Int /\ g[x] \in Int /\ h[x] = f[x] + g[x]
  PROVE  Total(S, h) = Total(S, f) + Total(S, g)
<1>. DEFINE B == {s \in SUBSET S : Total(s, h) # Total(s, f) + Total(s, g)}
<1>1. ASSUME B # {} PROVE FALSE
  <2>1. PICK U \in B : \A V \in B : V \subseteq U => V = U
    <3>1. B \in SUBSET SUBSET S
      OBVIOUS
    <3>. HIDE DEF B
    <3> QED
      BY <1>1, <3>1, SmallestExists
  <2>2. IsFiniteSet(U) /\ U \subseteq S
    BY FS_Subset
  <2>3. U # {}
    <3>1. Total({}, h) = 0 /\ Total({}, f) = 0 /\ Total({}, g) = 0
      BY EmptyTotal
    <3>2. {} \notin B
      BY <3>1
    <3> QED
      BY <2>1, <3>2
  <2>. DEFINE x == First(U)
              W == U \ {x}
  <2>4. /\ x \in U
        /\ Total(U, f) = f[x] + Total(W, f) /\ Total(U, g) = g[x] + Total(W, g) /\ Total(U, h) = h[x] + Total(W, h)
    BY <2>2, <2>3, TotalUnfolds
  <2>5. Total(W, h) = Total(W, f) + Total(W, g)
    BY <2>1, <2>4
  <2>6. IsFiniteSet(W) /\ \A y \in W : f[y] \in Int /\ g[y] \in Int
    BY <2>2, FS_Subset
  <2>7. h[x] = f[x] + g[x] /\ f[x] \in Int /\ g[x] \in Int
    BY <2>2, <2>4
  <2>8. Total(U, h) # Total(U, f) + Total(U, g)
    BY <2>1
  <2>. HIDE DEF x, W, B
  <2>9. Total(W, f) \in Int /\ Total(W, g) \in Int
    BY <2>6, TotalIsInt
  <2> QED
    BY <2>4, <2>5, <2>7, <2>8, <2>9
<1>2. S \notin B
  BY <1>1
<1> QED
  BY <1>2

LEMMA TotalsCompare ==
  ASSUME NEW S, IsFiniteSet(S), NEW f, NEW g, \A x \in S : f[x] \in Int /\ g[x] \in Int /\ f[x] <= g[x]
  PROVE  Total(S, f) <= Total(S, g)
<1>. DEFINE B == {s \in SUBSET S : ~(Total(s, f) <= Total(s, g))}
<1>1. ASSUME B # {} PROVE FALSE
  <2>1. PICK U \in B : \A V \in B : V \subseteq U => V = U
    <3>1. B \in SUBSET SUBSET S
      OBVIOUS
    <3>. HIDE DEF B
    <3> QED
      BY <1>1, <3>1, SmallestExists
  <2>2. IsFiniteSet(U) /\ U \subseteq S
    BY FS_Subset
  <2>3. U # {}
    <3>1. Total({}, f) = 0 /\ Total({}, g) = 0
      BY EmptyTotal
    <3>2. {} \notin B
      BY <3>1
    <3> QED
      BY <2>1, <3>2
  <2>. DEFINE x == First(U)
              W == U \ {x}
  <2>4. x \in U /\ Total(U, f) = f[x] + Total(W, f) /\ Total(U, g) = g[x] + Total(W, g)
    BY <2>2, <2>3, TotalUnfolds
  <2>5. Total(W, f) <= Total(W, g)
    BY <2>1, <2>4
  <2>6. IsFiniteSet(W) /\ \A y \in W : f[y] \in Int /\ g[y] \in Int
    BY <2>2, FS_Subset
  <2>7. f[x] \in Int /\ g[x] \in Int /\ f[x] <= g[x]
    BY <2>2, <2>4
  <2>8. ~(Total(U, f) <= Total(U, g))
    BY <2>1
  <2>. HIDE DEF x, W, B
  <2>9. Total(W, f) \in Int /\ Total(W, g) \in Int
    BY <2>6, TotalIsInt
  <2> QED
    BY <2>4, <2>5, <2>7, <2>8, <2>9
<1>2. S \notin B
  BY <1>1
<1> QED
  BY <1>2

\* The sum over the images of a set under something that tells its elements apart.
LEMMA TotalOfImages ==
  ASSUME NEW S, IsFiniteSet(S), NEW g, \A x, y \in S : g[x] = g[y] => x = y,
         NEW f, \A x \in S : f[g[x]] \in Int
  PROVE  IsFiniteSet({g[x] : x \in S}) /\ Total({g[x] : x \in S}, f) = Total(S, [x \in S |-> f[g[x]]])
<1>. DEFINE h == [x \in S |-> f[g[x]]]
            im(s) == {g[x] : x \in s}
            B == {s \in SUBSET S : Total(im(s), f) # Total(s, h)}
<1>0. ASSUME NEW s \in SUBSET S PROVE IsFiniteSet(im(s))
  <2>1. IsFiniteSet(s)
    BY FS_Subset
  <2>2. [x \in s |-> g[x]] \in Surjection(s, im(s))
    BY DEF Surjection
  <2> QED
    BY <2>1, <2>2, FS_Surjection
<1>1. ASSUME B # {} PROVE FALSE
  <2>1. PICK U \in B : \A V \in B : V \subseteq U => V = U
    <3>1. B \in SUBSET SUBSET S
      OBVIOUS
    <3>. HIDE DEF B
    <3> QED
      BY <1>1, <3>1, SmallestExists
  <2>2. IsFiniteSet(U) /\ U \subseteq S /\ Total(im(U), f) # Total(U, h)
    BY <2>1, FS_Subset
  <2>3. U # {}
    <3>1. ASSUME U = {} PROVE FALSE
      <4>1. im(U) = {}
        BY <3>1
      <4> QED
        BY <2>2, <3>1, <4>1, EmptyTotal
    <3> QED
      BY <3>1
  <2>. DEFINE x == First(U)
              W == U \ {x}
  <2>4. x \in U /\ Total(U, h) = h[x] + Total(W, h)
    BY <2>2, <2>3, TotalUnfolds
  <2>5. Total(im(W), f) = Total(W, h)
    BY <2>1, <2>4
  <2>6. im(U) \ {g[x]} = im(W) /\ g[x] \in im(U) /\ \A y \in im(U) : f[y] \in Int
    BY <2>2, <2>4
  <2>7. Total(im(U), f) = f[g[x]] + Total(im(U) \ {g[x]}, f)
    <3>1. IsFiniteSet(im(U))
      BY <2>2, <1>0
    <3>. HIDE DEF im
    <3> QED
      BY <2>6, <3>1, TakenOut
  <2>8. h[x] = f[g[x]]
    BY <2>2, <2>4
  <2>. HIDE DEF im, h, x, W, B
  <2> QED
    BY <2>2, <2>4, <2>5, <2>6, <2>7, <2>8
<1>2. S \notin B
  BY <1>1
<1> QED
  BY <1>0, <1>2

\* The sum of a set is that of the sums of its groups, some of which may be empty.
LEMMA TotalByGroups ==
  ASSUME NEW S, IsFiniteSet(S), NEW K, IsFiniteSet(K), NEW key, \A x \in S : key[x] \in K,
         NEW f, \A x \in S : f[x] \in Int
  PROVE  Total(S, f) = Total(K, [k \in K |-> Total({x \in S : key[x] = k}, f)])
<1>. DEFINE h == [k \in K |-> Total({x \in S : key[x] = k}, f)]
            of(ks) == {x \in S : key[x] \in ks}
            B == {ks \in SUBSET K : Total(of(ks), f) # Total(ks, h)}
<1>1. ASSUME B # {} PROVE FALSE
  <2>1. PICK U \in B : \A V \in B : V \subseteq U => V = U
    <3>1. B \in SUBSET SUBSET K
      OBVIOUS
    <3>. HIDE DEF B
    <3> QED
      BY <1>1, <3>1, SmallestExists
  <2>2. IsFiniteSet(U) /\ U \subseteq K /\ Total(of(U), f) # Total(U, h)
    BY <2>1, FS_Subset
  <2>3. U # {}
    <3>1. ASSUME U = {} PROVE FALSE
      <4>1. of(U) = {}
        BY <3>1
      <4> QED
        BY <2>2, <3>1, <4>1, EmptyTotal
    <3> QED
      BY <3>1
  <2>. DEFINE k == First(U)
              W == U \ {k}
              G == {x \in S : key[x] = k}
  <2>4. k \in U /\ Total(U, h) = h[k] + Total(W, h)
    BY <2>2, <2>3, TotalUnfolds
  <2>5. Total(of(W), f) = Total(W, h)
    BY <2>1, <2>4
  <2>6. of(U) = G \cup of(W) /\ G \cap of(W) = {} /\ IsFiniteSet(G) /\ IsFiniteSet(of(W))
    <3>1. of(U) = G \cup of(W) /\ G \cap of(W) = {} /\ G \in SUBSET S /\ of(W) \in SUBSET S
      BY <2>4
    <3>. HIDE DEF of, G
    <3> QED
      BY <3>1, FS_Subset
  <2>7. \A x \in G \cup of(W) : f[x] \in Int
    OBVIOUS
  <2>8. h[k] = Total(G, f)
    BY <2>2, <2>4
  <2>. HIDE DEF of, h, k, W, G, B
  <2>9. Total(G \cup of(W), f) = Total(G, f) + Total(of(W), f)
    BY <2>6, <2>7, TotalsJoin
  <2> QED
    BY <2>2, <2>4, <2>5, <2>6, <2>8, <2>9
<1>2. K \notin B
  BY <1>1
<1>3. of(K) = S
  OBVIOUS
<1> QED
  BY <1>2, <1>3
-----------------------------------------------------------------------------
\* What an entry contributes.

\* What every reader relies on: an entry is of the plan or of the fact, and the
\* colour of its risk says whether it is counted.
Tells(c) ==
    /\ c.id \in Ids /\ c = Contribution(c.id) /\ c.period \in {"plan", "fact"} /\ c.risk \in Colours
    /\ c.plan \in Nat /\ c.fact \in Nat /\ c.confirmed \in Nat /\ c.counted \in Nat
    /\ c.period = "plan" => c.fact = 0
    /\ c.period = "fact" => c.plan = 0
    /\ c.counted <= c.confirmed /\ c.confirmed <= c.fact
    /\ c.counted = IF c.period = "fact" /\ c.risk = "green" THEN c.fact ELSE 0

LEMMA ContributionTells ==
  ASSUME EvidenceTypeOK, NEW i \in Ids, Kept(i)
  PROVE  Tells(Contribution(i))
<1>. DEFINE c == Contribution(i)
            fact == CardOf[i].period = "fact"
            ready == Readiness(i, entries[i], docs)
            amount == entries[i].amount
            green == fact /\ ready = "green" /\ Eligible(i) /\ Approved(i) /\ ~Disputed(i)
<1>1. amount \in Nat
  <2>1. entries[i] \in Entry /\ entries[i].at = "kept"
    BY DEF EvidenceTypeOK, Kept
  <2>2. entries[i].amount \in Amounts
    BY <2>1 DEF Entry, NoEntry
  <2> QED
    BY <2>2, EvidenceAssumption DEF EvidenceAssumption
<1>2. ready \in Colours /\ Risk(i) \in Colours
  BY DEF Readiness, Risk, Colours
<1>3. CardOf[i].period \in {"plan", "fact"}
  BY EvidenceAssumption DEF EvidenceAssumption
<1>4. /\ c.id = i /\ c.period = CardOf[i].period /\ c.risk = Risk(i)
      /\ c.plan = (IF fact THEN 0 ELSE amount) /\ c.fact = (IF fact THEN amount ELSE 0)
      /\ c.confirmed = (IF fact /\ ready = "green" THEN amount ELSE 0)
      /\ c.counted = (IF green THEN amount ELSE 0)
  BY DEF Contribution
<1>5. (fact /\ Risk(i) = "green") <=> green
  BY <1>2 DEF Risk, HighRules, MediumRules, Eligible, Colours
<1>. HIDE DEF c, ready, amount, fact, green
<1>6. c.counted = IF c.period = "fact" /\ c.risk = "green" THEN c.fact ELSE 0
  BY <1>4, <1>5 DEF fact, green
<1>7. c.counted <= c.confirmed /\ c.confirmed <= c.fact
  BY <1>1, <1>4 DEF green
<1> QED
  BY <1>1, <1>2, <1>3, <1>4, <1>6, <1>7 DEF Tells, fact, c

LEMMA ImagesAreFinite ==
  ASSUME NEW S, IsFiniteSet(S), NEW g
  PROVE  IsFiniteSet({g[x] : x \in S})
<1>. DEFINE h == [x \in S |-> g[x]]
<1>1. h \in Surjection(S, {g[x] : x \in S})
  BY DEF Surjection
<1> QED
  BY <1>1, FS_Surjection

LEMMA PartTells ==
  ASSUME EvidenceTypeOK, NEW y, NEW S \in SUBSET Contributions(y)
  PROVE  IsFiniteSet(S) /\ \A c \in S : Tells(c)
<1>. DEFINE g == [i \in Ids |-> Contribution(i)]
<1>1. IsFiniteSet({g[i] : i \in Ids})
  <2>. HIDE DEF g
  <2>1. IsFiniteSet(Ids)
    BY EvidenceAssumption DEF EvidenceAssumption
  <2> QED
    BY <2>1, ImagesAreFinite
<1>2. S \subseteq {g[i] : i \in Ids}
  BY DEF Contributions
<1>3. \A c \in S : Tells(c)
  BY ContributionTells DEF Contributions
<1> QED
  BY <1>1, <1>2, <1>3, FS_Subset

-----------------------------------------------------------------------------
\* The totals of a field.

LEMMA TotalOfIsInt ==
  ASSUME NEW S, IsFiniteSet(S), NEW field, \A x \in S : x[field] \in Int
  PROVE  TotalOf(S, field) \in Int
<1>. DEFINE f == [x \in S |-> x[field]]
<1>1. \A x \in S : f[x] \in Int
  OBVIOUS
<1> QED
  BY <1>1, TotalIsInt DEF TotalOf

LEMMA OthersLeftOut ==
  ASSUME NEW S, IsFiniteSet(S), NEW T \in SUBSET S, NEW field,
         \A x \in S : x[field] \in Int, \A x \in S \ T : x[field] = 0
  PROVE  TotalOf(S, field) = TotalOf(T, field)
<1>. DEFINE f == [x \in S |-> x[field]]
            g == [x \in T |-> x[field]]
<1>1. (\A x \in S : f[x] \in Int) /\ (\A x \in S \ T : f[x] = 0) /\ (\A x \in T : f[x] = g[x]) /\ IsFiniteSet(T)
  BY FS_Subset
<1>2. TotalOf(S, field) = Total(S, f) /\ TotalOf(T, field) = Total(T, g)
  BY DEF TotalOf
<1>. HIDE DEF f, g
<1>3. Total(S, f) = Total(T, f) /\ Total(T, f) = Total(T, g)
  BY <1>1, LeftOut, SameTotal
<1> QED
  BY <1>2, <1>3

LEMMA FieldsCompare ==
  ASSUME NEW S, IsFiniteSet(S), NEW low, NEW high,
         \A x \in S : x[low] \in Int /\ x[high] \in Int /\ x[low] <= x[high]
  PROVE  TotalOf(S, low) <= TotalOf(S, high)
<1>. DEFINE f == [x \in S |-> x[low]]
            g == [x \in S |-> x[high]]
<1>1. \A x \in S : f[x] \in Int /\ g[x] \in Int /\ f[x] <= g[x]
  OBVIOUS
<1>2. TotalOf(S, low) = Total(S, f) /\ TotalOf(S, high) = Total(S, g)
  BY DEF TotalOf
<1>. HIDE DEF f, g
<1> QED
  BY <1>1, <1>2, TotalsCompare

\* Two fields that say the same.
LEMMA FieldsAgree ==
  ASSUME NEW S, IsFiniteSet(S), NEW one, NEW other, \A x \in S : x[one] = x[other]
  PROVE  TotalOf(S, one) = TotalOf(S, other)
<1>. DEFINE f == [x \in S |-> x[one]]
            g == [x \in S |-> x[other]]
<1>1. \A x \in S : f[x] = g[x]
  OBVIOUS
<1>. HIDE DEF f, g
<1> QED
  BY <1>1, SameTotal DEF TotalOf, f, g

LEMMA FieldByGroups ==
  ASSUME NEW S, IsFiniteSet(S), NEW K, IsFiniteSet(K), NEW key, \A x \in S : key[x] \in K,
         NEW field, \A x \in S : x[field] \in Int
  PROVE  TotalOf(S, field) = Total(K, [k \in K |-> TotalOf({x \in S : key[x] = k}, field)])
<1>. DEFINE f == [x \in S |-> x[field]]
            of(k) == {x \in S : key[x] = k}
            h == [k \in K |-> Total(of(k), f)]
            g == [k \in K |-> TotalOf(of(k), field)]
<1>1. \A x \in S : f[x] \in Int
  OBVIOUS
<1>2. ASSUME NEW k \in K PROVE h[k] = g[k]
  <2>. DEFINE e == [x \in of(k) |-> x[field]]
  <2>1. \A x \in of(k) : f[x] = e[x]
    OBVIOUS
  <2>2. IsFiniteSet(of(k))
    BY FS_Subset
  <2>3. h[k] = Total(of(k), f) /\ g[k] = Total(of(k), e)
    BY DEF TotalOf
  <2>. HIDE DEF of, f, e
  <2> QED
    BY <2>1, <2>2, <2>3, SameTotal
<1>3. Total(S, f) = Total(K, h)
  <2>. HIDE DEF f
  <2> QED
    BY <1>1, TotalByGroups
<1>4. TotalOf(S, field) = Total(S, f)
  BY DEF TotalOf
<1>. HIDE DEF f, h, g, of
<1>5. Total(K, h) = Total(K, g)
  BY <1>2, SameTotal
<1> QED
  BY <1>3, <1>4, <1>5 DEF g, of
-----------------------------------------------------------------------------
\* One answer of the dashboard.

LEMMA ShownIsPart ==
  ASSUME NEW y, NEW s
  PROVE  Shown(Contributions(y), s) \in SUBSET Contributions(y)
BY DEF Shown, FilterByLight, List

LEMMA PeriodsApart ==
  ASSUME NEW S, IsFiniteSet(S), \A c \in S : Tells(c), NEW p \in {"plan", "fact"}
  PROVE  /\ TotalOf(S, p) = TotalOf(OfPeriod(S, p), p)
         /\ AmountOf(OfPeriod(S, p)) = TotalOf(S, p)
         /\ \A T \in SUBSET OfPeriod(S, p) : AmountOf(T) = TotalOf(T, p)
<1>. DEFINE P == OfPeriod(S, p)
<1>1. /\ \A c \in S : c[p] \in Int
      /\ \A c \in S \ P : c[p] = 0
      /\ \A c \in P : Amount(c) = c[p]
      /\ P \in SUBSET S
  <2>1. CASE p = "plan"
    BY <2>1 DEF Tells, OfPeriod, Amount
  <2>2. CASE p = "fact"
    BY <2>2 DEF Tells, OfPeriod, Amount
  <2> QED
    BY <2>1, <2>2
<1>. HIDE DEF P
<1>2. TotalOf(S, p) = TotalOf(P, p)
  BY <1>1, OthersLeftOut
<1>3. ASSUME NEW T \in SUBSET P PROVE AmountOf(T) = TotalOf(T, p)
  <2>. DEFINE f == [c \in T |-> Amount(c)]
              g == [c \in T |-> c[p]]
  <2>1. IsFiniteSet(T) /\ \A c \in T : f[c] = g[c]
    BY <1>1, FS_Subset
  <2>. HIDE DEF f, g
  <2> QED
    BY <2>1, SameTotal DEF AmountOf, TotalOf, f, g
<1> QED
  BY <1>2, <1>3 DEF P

\* The bucket that the engine of risk calls guaranteed is what is counted.
LEMMA GuaranteedCounts ==
  ASSUME EvidenceTypeOK
  PROVE  GuaranteedIsCounted
<1>. SUFFICES ASSUME NEW s \in Slices
              PROVE  /\ Bucket(Shown(Contributions(Year), s), "green").amount
                          = Summary(Shown(Contributions(Year), s)).counted
                     /\ Summary(Shown(Contributions(Year), s)).counted
                          <= Summary(Shown(Contributions(Year), s)).confirmed
                     /\ Summary(Shown(Contributions(Year), s)).confirmed
                          <= Summary(Shown(Contributions(Year), s)).fact
  BY DEF GuaranteedIsCounted
<1>. DEFINE S == Shown(Contributions(Year), s)
            green == {c \in OfPeriod(S, "fact") : c.risk = "green"}
<1>1. IsFiniteSet(S) /\ \A c \in S : Tells(c)
  BY ShownIsPart, PartTells
<1>2. /\ Bucket(S, "green").amount = TotalOf(green, "fact")
      /\ Summary(S).counted = TotalOf(S, "counted") /\ Summary(S).confirmed = TotalOf(S, "confirmed")
      /\ Summary(S).fact = TotalOf(S, "fact")
  BY DEF Bucket, Summary
<1>3. /\ \A c \in S : c["counted"] \in Int /\ c["confirmed"] \in Int /\ c["fact"] \in Int
      /\ \A c \in S : c["counted"] <= c["confirmed"] /\ c["confirmed"] <= c["fact"]
      /\ \A c \in S \ green : c["counted"] = 0
      /\ \A c \in green : c["counted"] = c["fact"]
      /\ green \in SUBSET S
  BY <1>1 DEF Tells, OfPeriod
<1>. HIDE DEF S, green
<1>4. TotalOf(S, "counted") = TotalOf(green, "counted")
  BY <1>1, <1>3, OthersLeftOut
<1>5. TotalOf(green, "counted") = TotalOf(green, "fact")
  BY <1>1, <1>3, FieldsAgree, FS_Subset
<1>6. TotalOf(S, "counted") <= TotalOf(S, "confirmed") /\ TotalOf(S, "confirmed") <= TotalOf(S, "fact")
  BY <1>1, <1>3, FieldsCompare
<1> QED
  BY <1>2, <1>4, <1>5, <1>6 DEF S

\* The rows of a period by category and audience, with or without those of no sum.
LEMMA RowsAddUp ==
  ASSUME NEW S, IsFiniteSet(S), \A c \in S : Tells(c), NEW p \in {"plan", "fact"}
  PROVE  TotalOf(WithoutZero(Breakdown(S, p)), "amount") = TotalOf(S, p)
<1>. DEFINE P == OfPeriod(S, p)
            key == [c \in P |-> <<c.category, c.audience>>]
            K == {key[c] : c \in P}
            of(k) == {c \in P : key[c] = k}
            row == [k \in K |-> [category |-> k[1], audience |-> k[2],
                                 units |-> TotalOf(of(k), "units"), amount |-> AmountOf(of(k))]]
            R == {row[k] : k \in K}
            amount == [r \in R |-> r["amount"]]
<1>1. IsFiniteSet(P)
  BY FS_Subset DEF OfPeriod
<1>2. IsFiniteSet(K)
  BY <1>1, ImagesAreFinite
<1>3. Breakdown(S, p) = R
  BY DEF Breakdown
<1>4. \A k, l \in K : row[k] = row[l] => k = l
  <2>. SUFFICES ASSUME NEW c \in P, NEW d \in P, row[key[c]] = row[key[d]]
                PROVE  key[c] = key[d]
    OBVIOUS
  <2>1. /\ row[key[c]].category = c.category /\ row[key[c]].audience = c.audience
        /\ row[key[d]].category = d.category /\ row[key[d]].audience = d.audience
    OBVIOUS
  <2> QED
    BY <2>1
<1>5. ASSUME NEW k \in K PROVE amount[row[k]] = TotalOf(of(k), p) /\ amount[row[k]] \in Int
  <2>1. amount[row[k]] = AmountOf(of(k)) /\ of(k) \in SUBSET P
    OBVIOUS
  <2>2. IsFiniteSet(of(k)) /\ \A c \in of(k) : c[p] \in Int
    <3>1. \A c \in P : c["plan"] \in Int /\ c["fact"] \in Int
      BY DEF Tells, OfPeriod
    <3>2. \A c \in of(k) : c[p] \in Int
      BY <2>1, <3>1
    <3> QED
      BY <1>1, <2>1, <3>2, FS_Subset
  <2>. HIDE DEF of, amount, row, K
  <2> QED
    BY <2>1, <2>2, PeriodsApart, TotalOfIsInt
<1>. DEFINE h == [k \in K |-> amount[row[k]]]
            g == [k \in K |-> TotalOf(of(k), p)]
<1>6. IsFiniteSet(R) /\ Total(R, amount) = Total(K, h)
  <2>1. \A k \in K : amount[row[k]] \in Int
    BY <1>5
  <2>. HIDE DEF K, row, amount, of, P, key
  <2>2. IsFiniteSet({row[x] : x \in K}) /\ Total({row[x] : x \in K}, amount) = Total(K, [x \in K |-> amount[row[x]]])
    BY <1>2, <1>4, <2>1, TotalOfImages
  <2> QED
    BY <2>2
<1>7. Total(K, h) = Total(K, g)
  <2>1. \A k \in K : h[k] = g[k]
    BY <1>5
  <2>. HIDE DEF K, h, g
  <2> QED
    BY <1>2, <2>1, SameTotal
<1>8. Total(K, g) = TotalOf(P, p)
  <2>1. \A c \in P : key[c] \in K
    OBVIOUS
  <2>2. \A c \in P : c[p] \in Int
    <3>1. \A c \in P : c["plan"] \in Int /\ c["fact"] \in Int
      BY DEF Tells, OfPeriod
    <3> QED
      BY <3>1
  <2>. HIDE DEF K, P, key
  <2> QED
    BY <1>1, <1>2, <2>1, <2>2, FieldByGroups
<1>9. TotalOf(P, p) = TotalOf(S, p)
  BY PeriodsApart
<1>10. TotalOf(R, "amount") = TotalOf(WithoutZero(R), "amount")
  <2>1. /\ WithoutZero(R) \in SUBSET R
        /\ \A r \in R \ WithoutZero(R) : r["amount"] = 0
    BY DEF WithoutZero
  <2>2. \A r \in R : r["amount"] \in Int
    BY <1>5
  <2>. HIDE DEF R
  <2> QED
    BY <1>6, <2>1, <2>2, OthersLeftOut
<1>11. TotalOf(R, "amount") = Total(R, amount)
  BY DEF TotalOf
<1>. HIDE DEF R, amount, K, h, g, P
<1> QED
  BY <1>3, <1>6, <1>7, <1>8, <1>9, <1>10, <1>11

LEMMA SlicesAdd ==
  ASSUME EvidenceTypeOK
  PROVE  SlicesAddUp
<1>. SUFFICES ASSUME NEW s \in Slices
              PROVE  LET d == Dashboard(Contributions(Year), s) IN
                     /\ TotalOf(d.planRows, "amount") = d.totals.plan
                     /\ TotalOf(d.factRows, "amount") = d.totals.fact
                     /\ Total(Colours, [colour \in Colours |-> d.buckets[colour].amount]) = d.totals.fact
  BY DEF SlicesAddUp
<1>. DEFINE S == Shown(Contributions(Year), s)
            d == Dashboard(Contributions(Year), s)
            P == OfPeriod(S, "fact")
            risk == [c \in P |-> c.risk]
            of(colour) == {c \in P : risk[c] = colour}
            g == [colour \in Colours |-> TotalOf(of(colour), "fact")]
<1>1. IsFiniteSet(S) /\ \A c \in S : Tells(c)
  BY ShownIsPart, PartTells
<1>2. /\ d.planRows = WithoutZero(Breakdown(S, "plan")) /\ d.factRows = WithoutZero(Breakdown(S, "fact"))
      /\ d.totals.plan = TotalOf(S, "plan") /\ d.totals.fact = TotalOf(S, "fact")
      /\ d.buckets = [colour \in Colours |-> Bucket(S, colour)]
  BY DEF Dashboard, Summary
<1>3. [colour \in Colours |-> d.buckets[colour].amount] = g
  <2>1. ASSUME NEW colour \in Colours PROVE d.buckets[colour].amount = g[colour]
    <3>1. {c \in P : c.risk = colour} = of(colour)
      OBVIOUS
    <3>2. Bucket(S, colour).amount = TotalOf({c \in P : c.risk = colour}, "fact")
      BY DEF Bucket
    <3>3. d.buckets[colour] = Bucket(S, colour)
      BY <1>2
    <3> QED
      BY <3>1, <3>2, <3>3
  <2> QED
    BY <2>1
<1>4. TotalOf(P, "fact") = Total(Colours, g)
  <2>1. IsFiniteSet(P) /\ (\A c \in P : risk[c] \in Colours) /\ \A c \in P : c["fact"] \in Int
    BY <1>1, FS_Subset DEF OfPeriod, Tells
  <2>2. IsFiniteSet(Colours)
    <3>1. Colours = ({"green"} \cup {"yellow"}) \cup {"red"}
      BY DEF Colours
    <3> QED
      BY <3>1, FS_Singleton, FS_Union
  <2>. HIDE DEF P, risk
  <2> QED
    BY <2>1, <2>2, FieldByGroups
<1>5. TotalOf(P, "fact") = TotalOf(S, "fact")
  BY <1>1, PeriodsApart
<1>. HIDE DEF S, d, g, P
<1>6. /\ TotalOf(WithoutZero(Breakdown(S, "plan")), "amount") = TotalOf(S, "plan")
      /\ TotalOf(WithoutZero(Breakdown(S, "fact")), "amount") = TotalOf(S, "fact")
  BY <1>1, RowsAddUp
<1>7. /\ TotalOf(d.planRows, "amount") = d.totals.plan
      /\ TotalOf(d.factRows, "amount") = d.totals.fact
      /\ Total(Colours, [colour \in Colours |-> d.buckets[colour].amount]) = d.totals.fact
  BY <1>2, <1>3, <1>4, <1>5, <1>6
<1> QED
  BY <1>7 DEF d
-----------------------------------------------------------------------------
\* The order of the groups of a form.

Keys == (DOMAIN RankOf) \X (DOMAIN RankOf)
UpTo(S, k) == {l \in S : l = k \/ Precedes(l, k)}

LEMMA KeysAreOrdered ==
  ASSUME NEW k \in Keys, NEW l \in Keys, NEW m \in Keys
  PROVE  /\ ~Precedes(k, k)
         /\ Precedes(k, l) /\ Precedes(l, m) => Precedes(k, m)
         /\ k # l => Precedes(k, l) \/ Precedes(l, k)
<1>1. /\ RankOf[k[1]] \in Nat /\ RankOf[k[2]] \in Nat /\ RankOf[l[1]] \in Nat /\ RankOf[l[2]] \in Nat
      /\ RankOf[m[1]] \in Nat /\ RankOf[m[2]] \in Nat
  BY FormsAssumption DEF FormsAssumption, Keys
<1>2. k # l => RankOf[k[1]] # RankOf[l[1]] \/ RankOf[k[2]] # RankOf[l[2]]
  <2>1. k = <<k[1], k[2]>> /\ l = <<l[1], l[2]>>
    BY DEF Keys
  <2>2. k[1] \in DOMAIN RankOf /\ k[2] \in DOMAIN RankOf /\ l[1] \in DOMAIN RankOf /\ l[2] \in DOMAIN RankOf
    BY DEF Keys
  <2>3. (RankOf[k[1]] = RankOf[l[1]] => k[1] = l[1]) /\ (RankOf[k[2]] = RankOf[l[2]] => k[2] = l[2])
    BY <2>2, FormsAssumption DEF FormsAssumption
  <2> QED
    BY <2>1, <2>3
<1> QED
  BY <1>1, <1>2 DEF Precedes

\* The place of a key among others: those up to it are counted.
LEMMA PlacesIncrease ==
  ASSUME NEW S \in SUBSET Keys, IsFiniteSet(S), NEW k \in S, NEW l \in S, Precedes(k, l)
  PROVE  Cardinality(UpTo(S, k)) < Cardinality(UpTo(S, l))
<1>1. UpTo(S, k) \subseteq UpTo(S, l)
  BY KeysAreOrdered DEF UpTo
<1>2. l \in UpTo(S, l) /\ l \notin UpTo(S, k)
  BY KeysAreOrdered DEF UpTo
<1>3. IsFiniteSet(UpTo(S, l)) /\ IsFiniteSet(UpTo(S, k))
  BY FS_Subset DEF UpTo
<1>4. /\ Cardinality(UpTo(S, k)) <= Cardinality(UpTo(S, l))
      /\ Cardinality(UpTo(S, k)) # Cardinality(UpTo(S, l))
  BY <1>1, <1>2, <1>3, FS_Subset
<1>5. Cardinality(UpTo(S, k)) \in Nat /\ Cardinality(UpTo(S, l)) \in Nat
  BY <1>3, FS_CardinalityType
<1> QED
  BY <1>4, <1>5

LEMMA PlacesAreTaken ==
  ASSUME NEW S \in SUBSET Keys, IsFiniteSet(S)
  PROVE  LET place == [k \in S |-> Cardinality(UpTo(S, k))]
             n == Cardinality(S)
         IN  /\ n \in Nat /\ place \in [S -> 1..n]
             /\ \A k, l \in S : place[k] = place[l] => k = l
             /\ \A m \in 1..n : \E k \in S : place[k] = m
<1>. DEFINE place == [k \in S |-> Cardinality(UpTo(S, k))]
            n == Cardinality(S)
<1>1. n \in Nat
  BY FS_CardinalityType
<1>2. ASSUME NEW k \in S PROVE Cardinality(UpTo(S, k)) \in 1..n
  <2>1. UpTo(S, k) \in SUBSET S /\ k \in UpTo(S, k)
    BY DEF UpTo
  <2>2. IsFiniteSet(UpTo(S, k)) /\ Cardinality(UpTo(S, k)) <= n
    BY <2>1, FS_Subset
  <2>3. Cardinality(UpTo(S, k)) \in Nat /\ Cardinality(UpTo(S, k)) # 0
    BY <2>1, <2>2, FS_CardinalityType, FS_EmptySet
  <2>. HIDE DEF n
  <2> QED
    BY <1>1, <2>2, <2>3
<1>3. place \in [S -> 1..n]
  BY <1>2
<1>4. ASSUME NEW k \in S, NEW l \in S, place[k] = place[l], k # l PROVE FALSE
  <2>1. Precedes(k, l) \/ Precedes(l, k)
    BY <1>4, KeysAreOrdered
  <2>2. Cardinality(UpTo(S, k)) < Cardinality(UpTo(S, l)) \/ Cardinality(UpTo(S, l)) < Cardinality(UpTo(S, k))
    BY <2>1, PlacesIncrease
  <2>3. Cardinality(UpTo(S, k)) \in 1..n /\ Cardinality(UpTo(S, l)) \in 1..n
    BY <1>2
  <2>4. Cardinality(UpTo(S, k)) = Cardinality(UpTo(S, l))
    BY <1>4
  <2>. HIDE DEF n
  <2> QED
    BY <1>1, <2>2, <2>3, <2>4
<1>5. place \in Injection(S, 1..n)
  BY <1>3, <1>4 DEF Injection, IsInjective
<1>6. IsFiniteSet(1..n) /\ Cardinality(1..n) = n
  <2>. HIDE DEF n
  <2>1. IsFiniteSet(1..n) /\ Cardinality(1..n) = IF 1 > n THEN 0 ELSE n - 1 + 1
    BY <1>1, FS_Interval
  <2> QED
    BY <1>1, <2>1
<1>7. place \in Surjection(S, 1..n)
  <2>. HIDE DEF place
  <2> QED
    BY <1>5, <1>6, FS_Injection
<1>8. \A m \in 1..n : \E k \in S : place[k] = m
  <2>. HIDE DEF place
  <2> QED
    BY <1>7 DEF Surjection
<1> QED
  BY <1>1, <1>3, <1>4, <1>8

\* A table of keys by their places is in order.
LEMMA OrderExists ==
  ASSUME NEW S \in SUBSET Keys, IsFiniteSet(S)
  PROVE  \E order \in [1..Cardinality(S) -> S] :
            \A m, n \in DOMAIN order : m < n => Precedes(order[m], order[n])
<1>. DEFINE size == Cardinality(S)
            place == [k \in S |-> Cardinality(UpTo(S, k))]
            order == [m \in 1..size |-> CHOOSE k \in S : place[k] = m]
<1>1. size \in Nat /\ \A m \in 1..size : \E k \in S : place[k] = m
  BY PlacesAreTaken
<1>2. \A m \in 1..size : order[m] \in S /\ place[order[m]] = m
  <2>. HIDE DEF place
  <2> QED
    BY <1>1
<1>3. order \in [1..size -> S]
  BY <1>2
<1>4. ASSUME NEW m \in 1..size, NEW n \in 1..size, m < n PROVE Precedes(order[m], order[n])
  <2>. DEFINE k == order[m]
              l == order[n]
  <2>1. k \in S /\ l \in S /\ Cardinality(UpTo(S, k)) = m /\ Cardinality(UpTo(S, l)) = n
    BY <1>2
  <2>. HIDE DEF k, l, size
  <2>2. m \in Nat /\ n \in Nat
    BY <1>1
  <2>3. k # l /\ ~Precedes(l, k)
    <3>1. Precedes(l, k) => Cardinality(UpTo(S, l)) < Cardinality(UpTo(S, k))
      BY <2>1, PlacesIncrease
    <3>2. ~(n < m) /\ m # n
      BY <1>4, <2>2
    <3> QED
      BY <2>1, <3>1, <3>2
  <2>4. Precedes(k, l)
    BY <2>1, <2>3, KeysAreOrdered
  <2> QED
    BY <2>4 DEF k, l
<1> QED
  BY <1>3, <1>4

\* The n-th row of the builder is the group that has the number n.
LEMMA SortedByPlace ==
  ASSUME NEW S \in SUBSET Keys, IsFiniteSet(S)
  PROVE  LET order == Sorted(S)
             size == Cardinality(S)
         IN  /\ size \in Nat /\ order \in [1..size -> S]
             /\ \A m, n \in 1..size : order[m] = order[n] => m = n
             /\ \A k \in S : \E n \in 1..size : order[n] = k
             /\ \A n \in 1..size : Cardinality(UpTo(S, order[n])) = n
<1>. DEFINE order == Sorted(S)
            size == Cardinality(S)
<1>1. order \in [1..size -> S] /\ \A m, n \in DOMAIN order : m < n => Precedes(order[m], order[n])
  BY OrderExists DEF Sorted
<1>2. size \in Nat
  BY FS_CardinalityType
<1>. HIDE DEF order
<1>3. ASSUME NEW m \in 1..size, NEW n \in 1..size, order[m] = order[n], m # n PROVE FALSE
  <2>1. m < n \/ n < m
    BY <1>2, <1>3
  <2>2. Precedes(order[m], order[n]) \/ Precedes(order[n], order[m])
    BY <1>1, <2>1
  <2>3. order[m] \in Keys /\ order[n] \in Keys
    BY <1>1
  <2> QED
    BY <1>3, <2>2, <2>3, KeysAreOrdered
<1>4. order \in Injection(1..size, S)
  BY <1>1, <1>3 DEF Injection, IsInjective
<1>5. Cardinality(1..size) = size
  <2>. HIDE DEF size
  <2>1. Cardinality(1..size) = IF 1 > size THEN 0 ELSE size - 1 + 1
    BY <1>2, FS_Interval
  <2> QED
    BY <1>2, <2>1
<1>6. order \in Surjection(1..size, S)
  BY <1>4, <1>5, FS_Injection
<1>7. \A k \in S : \E n \in 1..size : order[n] = k
  BY <1>6 DEF Surjection
<1>8. ASSUME NEW n \in 1..size PROVE Cardinality(UpTo(S, order[n])) = n
  <2>. DEFINE U == UpTo(S, order[n])
              f == [m \in 1..n |-> order[m]]
  <2>1. 1..n \subseteq 1..size /\ n \in Nat
    <3>. HIDE DEF size
    <3> QED
      BY <1>2
  <2>2. ASSUME NEW m \in 1..n PROVE order[m] \in U
    <3>1. m = n \/ m < n
      BY <2>1
    <3>2. order[m] \in S /\ (m < n => Precedes(order[m], order[n]))
      BY <1>1, <2>1
    <3> QED
      BY <3>1, <3>2 DEF UpTo
  <2>3. ASSUME NEW k \in U PROVE \E m \in 1..n : order[m] = k
    <3>1. k \in S /\ (k = order[n] \/ Precedes(k, order[n]))
      BY DEF UpTo
    <3>2. PICK m \in 1..size : order[m] = k
      BY <1>7, <3>1
    <3>3. n < m => Precedes(order[n], order[m])
      BY <1>1
    <3>4. ~(n < m)
      <4>1. order[n] \in Keys /\ k \in Keys
        BY <1>1, <3>1
      <4> QED
        BY <3>1, <3>2, <3>3, <4>1, KeysAreOrdered
    <3>5. m \in 1..n
      <4>. HIDE DEF size
      <4> QED
        BY <1>2, <2>1, <3>4
    <3> QED
      BY <3>2, <3>5
  <2>4. f \in Surjection(1..n, U) /\ f \in Injection(1..n, U)
    <3>1. f \in [1..n -> U]
      BY <2>2
    <3>2. \A k \in U : \E m \in 1..n : f[m] = k
      BY <2>3
    <3>3. \A m, l \in 1..n : f[m] = f[l] => m = l
      BY <1>3, <2>1
    <3>. HIDE DEF f, U
    <3> QED
      BY <3>1, <3>2, <3>3 DEF Surjection, Injection, IsInjective
  <2>5. IsFiniteSet(1..n) /\ Cardinality(1..n) = n
    <3>1. IsFiniteSet(1..n) /\ Cardinality(1..n) = IF 1 > n THEN 0 ELSE n - 1 + 1
      BY <2>1, FS_Interval
    <3> QED
      BY <2>1, <3>1
  <2>. HIDE DEF f, U
  <2>6. Cardinality(U) = Cardinality(1..n)
    BY <2>4, <2>5, FS_Surjection
  <2> QED
    BY <2>5, <2>6 DEF U
<1> QED
  BY <1>1, <1>2, <1>3, <1>7, <1>8 DEF order
-----------------------------------------------------------------------------
\* The rows of the builder and the formulas of the formulizer.

\* A form of entries, grouped by keys that have an order.
Sound(form) ==
    /\ IsFiniteSet(DOMAIN form.groups) /\ DOMAIN form.groups \in SUBSET Keys
    /\ form.shown \in SUBSET DOMAIN form.groups
    /\ \A k \in DOMAIN form.groups : IsFiniteSet(form.groups[k]) /\ \A c \in form.groups[k] : Tells(c)

LEMMA NumbersFollow ==
  ASSUME NEW form, Sound(form), NEW k \in DOMAIN form.groups
  PROVE  LET size == Cardinality(form.shown)
             number == Numbers(form)[k]
         IN  /\ size \in Nat /\ number \in 0..size
             /\ \A n \in 1..size : number = n <=> k = Sorted(form.shown)[n]
<1>. DEFINE S == form.shown
            size == Cardinality(S)
            order == Sorted(S)
            number == Numbers(form)[k]
            place == [l \in S |-> Cardinality(UpTo(S, l))]
<1>1. S \in SUBSET Keys /\ IsFiniteSet(S)
  <2>1. S \in SUBSET DOMAIN form.groups /\ IsFiniteSet(DOMAIN form.groups) /\ DOMAIN form.groups \in SUBSET Keys
    BY DEF Sound
  <2> QED
    BY <2>1, FS_Subset
<1>2. number = IF k \in S THEN Cardinality(UpTo(S, k)) ELSE 0
  BY DEF Numbers, UpTo
<1>. HIDE DEF S, number
<1>3. /\ size \in Nat /\ place \in [S -> 1..size]
      /\ \A l, m \in S : place[l] = place[m] => l = m
  BY <1>1, PlacesAreTaken
<1>4. order \in [1..size -> S] /\ \A n \in 1..size : Cardinality(UpTo(S, order[n])) = n
  BY <1>1, SortedByPlace
<1>5. \A l \in S : place[l] = Cardinality(UpTo(S, l)) /\ place[l] \in 1..size
  BY <1>3
<1>. HIDE DEF place, order, size
<1>6. number \in 0..size
  BY <1>2, <1>3, <1>5
<1>7. ASSUME NEW n \in 1..size PROVE number = n <=> k = order[n]
  <2>1. order[n] \in S /\ place[order[n]] = n
    BY <1>4, <1>5
  <2>2. n # 0
    BY <1>3
  <2>3. CASE k \in S
    BY <1>2, <1>3, <1>5, <2>1, <2>3
  <2>4. CASE k \notin S
    BY <1>2, <2>1, <2>2, <2>4
  <2> QED
    BY <2>3, <2>4
<1> QED
  BY <1>3, <1>6, <1>7 DEF size, order, number, S

\* The lines of the sheet of calculations that the n-th row sums.
LEMMA RowsOfBook ==
  ASSUME NEW form, Sound(form), NEW n \in 1..Cardinality(form.shown), NEW Q
  PROVE  {b \in Book(form) : b.row = n /\ b.entry.period \in Q}
           = {[entry |-> c, row |-> n] : c \in {x \in form.groups[Sorted(form.shown)[n]] : x.period \in Q}}
<1>. DEFINE order == Sorted(form.shown)
            number == Numbers(form)
            G == form.groups
            T == {x \in G[order[n]] : x.period \in Q}
            L == {b \in Book(form) : b.row = n /\ b.entry.period \in Q}
            R == {[entry |-> c, row |-> n] : c \in T}
<1>1. Book(form) = UNION {{[entry |-> c, row |-> number[k]] : c \in G[k]} : k \in DOMAIN G}
  BY DEF Book
<1>2. order[n] \in DOMAIN G
  <2>1. form.shown \in SUBSET Keys /\ IsFiniteSet(form.shown) /\ form.shown \in SUBSET DOMAIN G
    BY FS_Subset DEF Sound
  <2>2. order \in [1..Cardinality(form.shown) -> form.shown]
    BY <2>1, SortedByPlace
  <2> QED
    BY <2>1, <2>2
<1>3. \A k \in DOMAIN G : number[k] = n <=> k = order[n]
  BY NumbersFollow
<1>. HIDE DEF order, number, G
<1>4. ASSUME NEW b \in L PROVE b \in R
  <2>0. b \in Book(form) /\ b.row = n /\ b.entry.period \in Q
    OBVIOUS
  <2>1. PICK k \in DOMAIN G : b \in {[entry |-> c, row |-> number[k]] : c \in G[k]}
    <3>. HIDE DEF L, R, T
    <3> QED
      BY <1>1, <2>0
  <2>3. PICK c \in G[k] : b = [entry |-> c, row |-> number[k]]
    BY <2>1
  <2>2. number[k] = n /\ c.period \in Q
    BY <2>0, <2>3
  <2> QED
    BY <1>3, <2>2, <2>3
<1>5. ASSUME NEW b \in R PROVE b \in L
  <2>1. PICK c \in T : b = [entry |-> c, row |-> n]
    OBVIOUS
  <2>2. b = [entry |-> c, row |-> number[order[n]]] /\ c \in G[order[n]]
    BY <1>2, <1>3, <2>1
  <2>3. b \in Book(form)
    BY <1>1, <1>2, <2>2
  <2> QED
    BY <2>1, <2>3
<1> QED
  BY <1>4, <1>5 DEF order, G

\* Lines copied from entries sum to what the entries do.
LEMMA CopiesSum ==
  ASSUME NEW T, IsFiniteSet(T), \A c \in T : Tells(c), NEW r
  PROVE  /\ IsFiniteSet({[entry |-> c, row |-> r[c]] : c \in T})
         /\ Sum({[entry |-> c, row |-> r[c]] : c \in T}) = AmountOf(T)
<1>. DEFINE g == [c \in T |-> [entry |-> c, row |-> r[c]]]
            R == {g[c] : c \in T}
            f == [b \in R |-> Amount(b.entry)]
            amount == [c \in T |-> Amount(c)]
<1>1. \A c, d \in T : g[c] = g[d] => c = d
  <2>1. \A c \in T : g[c].entry = c
    OBVIOUS
  <2>. HIDE DEF g
  <2> QED
    BY <2>1
<1>2. \A c \in T : f[g[c]] = amount[c] /\ amount[c] \in Int
  <2>1. \A c \in T : f[g[c]] = Amount(c)
    OBVIOUS
  <2>2. \A c \in T : Amount(c) \in Int
    BY DEF Tells, Amount
  <2> QED
    BY <2>1, <2>2
<1>3. {[entry |-> c, row |-> r[c]] : c \in T} = R
  OBVIOUS
<1>4. Sum(R) = Total(R, f)
  BY DEF Sum
<1>5. AmountOf(T) = Total(T, amount)
  BY DEF AmountOf
<1>. HIDE DEF g, f, amount
<1>6. IsFiniteSet({g[x] : x \in T}) /\ Total({g[x] : x \in T}, f) = Total(T, [x \in T |-> f[g[x]]])
  BY <1>1, <1>2, TotalOfImages
<1>7. Total(T, [x \in T |-> f[g[x]]]) = Total(T, amount)
  <2>. DEFINE h == [x \in T |-> f[g[x]]]
  <2>1. \A c \in T : h[c] = amount[c]
    BY <1>2
  <2>. HIDE DEF h
  <2>2. Total(T, h) = Total(T, amount)
    BY <2>1, SameTotal
  <2> QED
    BY <2>2 DEF h
<1> QED
  BY <1>3, <1>4, <1>5, <1>6, <1>7

\* What one entry is worth is its plan or its fact.
LEMMA AmountsSplit ==
  ASSUME NEW T, IsFiniteSet(T), \A c \in T : Tells(c)
  PROVE  AmountOf(T) = TotalOf(T, "plan") + TotalOf(T, "fact")
<1>. DEFINE f == [c \in T |-> c["plan"]]
            g == [c \in T |-> c["fact"]]
            h == [c \in T |-> Amount(c)]
<1>1. \A c \in T : f[c] \in Int /\ g[c] \in Int /\ h[c] = f[c] + g[c]
  BY DEF Tells, Amount
<1>. HIDE DEF f, g, h
<1> QED
  BY <1>1, TotalsAdd DEF AmountOf, TotalOf, f, g, h

LEMMA PrintedRows ==
  ASSUME NEW form, Sound(form)
  PROVE  LET rows == Printed(form)
             order == Sorted(form.shown)
             size == Cardinality(form.shown)
         IN  /\ DOMAIN rows = 1..size /\ size \in Nat /\ IsFiniteSet(1..size) /\ IsFiniteSet(form.shown)
             /\ order \in [1..size -> form.shown]
             /\ \A m, n \in 1..size : order[m] = order[n] => m = n
             /\ \A k \in form.shown : \E n \in 1..size : order[n] = k
             /\ \A n \in 1..size :
                  LET g == form.groups[order[n]] IN
                  /\ rows[n].key = order[n] /\ rows[n].plan = TotalOf(g, "plan") /\ rows[n].fact = TotalOf(g, "fact")
                  /\ rows[n] = [key |-> order[n], plan |-> TotalOf(g, "plan"), fact |-> TotalOf(g, "fact")]
                  /\ IsFiniteSet(g) /\ \A c \in g : Tells(c)
<1>1. form.shown \in SUBSET Keys /\ IsFiniteSet(form.shown) /\ form.shown \in SUBSET DOMAIN form.groups
  BY FS_Subset DEF Sound
<1>. DEFINE order == Sorted(form.shown)
            size == Cardinality(form.shown)
<1>2. /\ size \in Nat /\ order \in [1..size -> form.shown]
      /\ \A m, n \in 1..size : order[m] = order[n] => m = n
      /\ \A k \in form.shown : \E n \in 1..size : order[n] = k
  BY <1>1, SortedByPlace
<1>3. Printed(form) = [n \in DOMAIN order |-> [key |-> order[n], plan |-> TotalOf(form.groups[order[n]], "plan"),
                                 fact |-> TotalOf(form.groups[order[n]], "fact")]]
  BY DEF Printed
<1>. HIDE DEF order, size
<1>4. IsFiniteSet(1..size)
  BY <1>2, FS_Interval
<1>5. \A n \in 1..size : order[n] \in DOMAIN form.groups
  BY <1>1, <1>2
<1>6. \A n \in 1..size : IsFiniteSet(form.groups[order[n]]) /\ \A c \in form.groups[order[n]] : Tells(c)
  BY <1>5 DEF Sound
<1> QED
  BY <1>1, <1>2, <1>3, <1>4, <1>6 DEF order, size
LEMMA ColumnIsTheirs ==
  ASSUME NEW form, Sound(form), NEW p \in {"plan", "fact"}
  PROVE  Column(Printed(form), p) = Total(form.shown, [k \in form.shown |-> TotalOf(form.groups[k], p)])
<1>. DEFINE rows == Printed(form)
            S == form.shown
            order == Sorted(S)
            size == Cardinality(S)
            f == [k \in S |-> TotalOf(form.groups[k], p)]
            cells == [n \in DOMAIN rows |-> rows[n][p]]
<1>1. /\ DOMAIN rows = 1..size /\ IsFiniteSet(1..size) /\ order \in [1..size -> S]
      /\ \A m, n \in 1..size : order[m] = order[n] => m = n
      /\ \A k \in S : \E n \in 1..size : order[n] = k
  BY PrintedRows
<1>2. ASSUME NEW n \in 1..size
      PROVE  cells[n] = f[order[n]] /\ f[order[n]] \in Int
  <2>. DEFINE g == form.groups[order[n]]
  <2>1. rows[n].plan = TotalOf(g, "plan") /\ rows[n].fact = TotalOf(g, "fact") /\ IsFiniteSet(g) /\ \A c \in g : Tells(c)
    BY PrintedRows
  <2>2. order[n] \in S
    BY <1>1
  <2>3. f[order[n]] = TotalOf(g, p)
    BY <2>2
  <2>4. cells[n] = rows[n][p]
    BY <1>1
  <2>5. \A c \in g : c["plan"] \in Int /\ c["fact"] \in Int
    BY <2>1 DEF Tells
  <2>. HIDE DEF g, f, cells, rows, order
  <2>6. rows[n][p] = TotalOf(g, p)
    BY <2>1
  <2>7. TotalOf(g, p) \in Int
    <3>1. \A c \in g : c[p] \in Int
      BY <2>5
    <3> QED
      BY <2>1, <3>1, TotalOfIsInt
  <2> QED
    BY <2>3, <2>4, <2>6, <2>7
<1>3. Column(rows, p) = Total(DOMAIN rows, cells)
  BY DEF Column
<1>. HIDE DEF rows, order, size, f, cells
<1>4. Total({order[n] : n \in 1..size}, f) = Total(1..size, [n \in 1..size |-> f[order[n]]])
  <2>. DEFINE N == 1..size
  <2>1. IsFiniteSet(N) /\ (\A m, n \in N : order[m] = order[n] => m = n) /\ \A n \in N : f[order[n]] \in Int
    BY <1>1, <1>2
  <2>. HIDE DEF N
  <2>2. Total({order[n] : n \in N}, f) = Total(N, [n \in N |-> f[order[n]]])
    BY <2>1, TotalOfImages
  <2> QED
    BY <2>2 DEF N
<1>5. {order[n] : n \in 1..size} = S
  BY <1>1
<1>6. Total(1..size, [n \in 1..size |-> f[order[n]]]) = Total(1..size, cells)
  <2>. DEFINE h == [n \in 1..size |-> f[order[n]]]
  <2>1. \A n \in 1..size : h[n] = cells[n]
    BY <1>2
  <2>. HIDE DEF h
  <2>2. Total(1..size, h) = Total(1..size, cells)
    BY <1>1, <2>1, SameTotal
  <2> QED
    BY <2>2 DEF h
<1>7. Column(rows, p) = Total(S, f)
  BY <1>1, <1>3, <1>4, <1>5, <1>6
<1> QED
  BY <1>7 DEF rows, f, S

\* A row and the formula in its cell.
LEMMA FormulaFits ==
  ASSUME NEW form, Sound(form), NEW n \in 1..Cardinality(form.shown)
  PROVE  LET book == Book(form)
             g == form.groups[Sorted(form.shown)[n]]
         IN  /\ SumForm(book, n, {"plan"}) = TotalOf(g, "plan")
             /\ SumForm(book, n, {"fact"}) = TotalOf(g, "fact")
             /\ Sum({b \in book : b.row = n}) = TotalOf(g, "plan") + TotalOf(g, "fact")
             /\ IsFiniteSet({b \in book : b.row = n}) /\ \A b \in book : b.row = n => Tells(b.entry)
<1>. DEFINE book == Book(form)
            g == form.groups[Sorted(form.shown)[n]]
            of(Q) == {x \in g : x.period \in Q}
            copies(Q) == {[entry |-> c, row |-> n] : c \in of(Q)}
<1>1. IsFiniteSet(g) /\ \A c \in g : Tells(c)
  BY PrintedRows
<1>2. ASSUME NEW Q
      PROVE  /\ {b \in book : b.row = n /\ b.entry.period \in Q} = copies(Q)
             /\ IsFiniteSet(copies(Q)) /\ Sum(copies(Q)) = AmountOf(of(Q))
  <2>1. {b \in book : b.row = n /\ b.entry.period \in Q} = copies(Q)
    BY RowsOfBook
  <2>2. IsFiniteSet(of(Q)) /\ \A c \in of(Q) : Tells(c)
    BY <1>1, FS_Subset
  <2>. DEFINE r == [c \in of(Q) |-> n]
  <2>3. copies(Q) = {[entry |-> c, row |-> r[c]] : c \in of(Q)}
    OBVIOUS
  <2>. HIDE DEF of, r, copies
  <2>4. /\ IsFiniteSet({[entry |-> c, row |-> r[c]] : c \in of(Q)})
        /\ Sum({[entry |-> c, row |-> r[c]] : c \in of(Q)}) = AmountOf(of(Q))
    BY <2>2, CopiesSum
  <2> QED
    BY <2>1, <2>3, <2>4
<1>3. ASSUME NEW p \in {"plan", "fact"} PROVE SumForm(book, n, {p}) = TotalOf(g, p)
  <2>1. of({p}) = OfPeriod(g, p)
    BY DEF OfPeriod
  <2>2. SumForm(book, n, {p}) = Sum(copies({p}))
    BY <1>2 DEF SumForm
  <2>3. Sum(copies({p})) = AmountOf(of({p}))
    BY <1>2
  <2>. HIDE DEF g, of, copies
  <2> QED
    BY <1>1, <2>1, <2>2, <2>3, PeriodsApart
<1>4. of({"plan", "fact"}) = g
  BY <1>1 DEF Tells
<1>5. {b \in book : b.row = n} = copies({"plan", "fact"})
  <2>1. \A b \in book : b.row = n => Tells(b.entry)
    <3>. SUFFICES ASSUME NEW b \in book PROVE Tells(b.entry)
      OBVIOUS
    <3>1. PICK k \in DOMAIN form.groups : b \in {[entry |-> c, row |-> Numbers(form)[k]] : c \in form.groups[k]}
      BY DEF Book
    <3>2. b.entry \in form.groups[k]
      BY <3>1
    <3> QED
      BY <3>2 DEF Sound
  <2>2. \A b \in book : b.row = n => b.entry.period \in {"plan", "fact"}
    BY <2>1 DEF Tells
  <2>3. {b \in book : b.row = n} = {b \in book : b.row = n /\ b.entry.period \in {"plan", "fact"}}
    BY <2>2
  <2>. HIDE DEF copies, of, book
  <2> QED
    BY <1>2, <2>3
<1>6. \A b \in book : b.row = n => Tells(b.entry)
  <2>. SUFFICES ASSUME NEW b \in book PROVE Tells(b.entry)
    OBVIOUS
  <2>1. PICK k \in DOMAIN form.groups : b \in {[entry |-> c, row |-> Numbers(form)[k]] : c \in form.groups[k]}
    BY DEF Book
  <2>2. b.entry \in form.groups[k]
    BY <2>1
  <2> QED
    BY <2>2 DEF Sound
<1>. HIDE DEF copies, of, book, g
<1>7. Sum({b \in book : b.row = n}) = TotalOf(g, "plan") + TotalOf(g, "fact")
  <2>1. Sum(copies({"plan", "fact"})) = AmountOf(g)
    BY <1>2, <1>4
  <2>2. AmountOf(g) = TotalOf(g, "plan") + TotalOf(g, "fact")
    BY <1>1, AmountsSplit
  <2> QED
    BY <1>5, <2>1, <2>2
<1>8. IsFiniteSet({b \in book : b.row = n})
  BY <1>2, <1>5
<1>9. SumForm(book, n, {"plan"}) = TotalOf(g, "plan") /\ SumForm(book, n, {"fact"}) = TotalOf(g, "fact")
  BY <1>3
<1> QED
  BY <1>6, <1>7, <1>8, <1>9 DEF book, g
LEMMA BookIsFinite ==
  ASSUME NEW form, Sound(form)
  PROVE  /\ IsFiniteSet(Book(form))
         /\ \A b \in Book(form) : Tells(b.entry) /\ b.row \in 0..Cardinality(form.shown)
<1>. DEFINE size == Cardinality(form.shown)
            D == Ids \X (0..size)
            g == [x \in D |-> [entry |-> Contribution(x[1]), row |-> x[2]]]
            book == Book(form)
<1>1. ASSUME NEW b \in book
      PROVE  Tells(b.entry) /\ b.row \in 0..size /\ b = [entry |-> b.entry, row |-> b.row]
  <2>1. PICK k \in DOMAIN form.groups : b \in {[entry |-> c, row |-> Numbers(form)[k]] : c \in form.groups[k]}
    BY DEF Book
  <2>2. PICK c \in form.groups[k] : b = [entry |-> c, row |-> Numbers(form)[k]]
    BY <2>1
  <2>3. Numbers(form)[k] \in 0..size
    BY NumbersFollow
  <2>4. Tells(c)
    BY DEF Sound
  <2> QED
    BY <2>2, <2>3, <2>4
<1>2. ASSUME NEW b \in book PROVE \E x \in D : b = g[x]
  <2>. DEFINE x == <<b.entry.id, b.row>>
  <2>1. x \in D
    BY <1>1 DEF Tells
  <2>2. g[x] = [entry |-> Contribution(b.entry.id), row |-> b.row]
    BY <2>1
  <2>3. b = g[x]
    BY <1>1, <2>2 DEF Tells
  <2> QED
    BY <2>1, <2>3
<1>3. IsFiniteSet(D)
  <2>1. size \in Nat
    <3>1. IsFiniteSet(form.shown)
      BY FS_Subset DEF Sound
    <3> QED
      BY <3>1, FS_CardinalityType
  <2>2. IsFiniteSet(Ids)
    BY EvidenceAssumption DEF EvidenceAssumption
  <2>3. IsFiniteSet(0..size)
    BY <2>1, FS_Interval
  <2> QED
    BY <2>2, <2>3, FS_Product
<1>. HIDE DEF D, g
<1>4. IsFiniteSet({g[x] : x \in D})
  BY <1>3, ImagesAreFinite
<1>5. book \subseteq {g[x] : x \in D}
  BY <1>2
<1>6. IsFiniteSet(book)
  BY <1>4, <1>5, FS_Subset
<1> QED
  BY <1>1, <1>6

LEMMA AllFormsSum ==
  ASSUME NEW form, Sound(form)
  PROVE  AllForms(Book(form)) = Column(Printed(form), "plan") + Column(Printed(form), "fact")
<1>. DEFINE size == Cardinality(form.shown)
            book == Book(form)
            rows == Printed(form)
            N == 1..size
            positive == {b \in book : b.row > 0}
            f == [b \in positive |-> Amount(b.entry)]
            key == [b \in positive |-> b.row]
            of(n) == {b \in positive : key[b] = n}
            h == [n \in N |-> Total(of(n), f)]
            plan == [n \in N |-> rows[n]["plan"]]
            fact == [n \in N |-> rows[n]["fact"]]
<1>1. IsFiniteSet(book) /\ \A b \in book : Tells(b.entry) /\ b.row \in 0..size
  BY BookIsFinite
<1>2. size \in Nat /\ IsFiniteSet(N) /\ DOMAIN rows = N
  BY PrintedRows
<1>3. IsFiniteSet(positive)
  <2>1. positive \in SUBSET book
    OBVIOUS
  <2>. HIDE DEF positive
  <2> QED
    BY <1>1, <2>1, FS_Subset
<1>4. \A b \in positive : key[b] \in N /\ f[b] \in Int
  <2>1. \A b \in positive : f[b] = Amount(b.entry) /\ key[b] = b.row
    OBVIOUS
  <2>2. \A b \in positive : Amount(b.entry) \in Int
    BY <1>1 DEF Tells, Amount
  <2>3. \A b \in positive : b.row \in N
    <3>. HIDE DEF size
    <3> QED
      BY <1>1, <1>2
  <2> QED
    BY <2>1, <2>2, <2>3
<1>5. ASSUME NEW n \in N
      PROVE  h[n] = plan[n] + fact[n] /\ plan[n] \in Int /\ fact[n] \in Int
  <2>. DEFINE B == {b \in book : b.row = n}
              e == [b \in B |-> Amount(b.entry)]
  <2>1. of(n) = B
    <3>1. n > 0
      <4>. HIDE DEF size
      <4> QED
        BY <1>2
    <3> QED
      BY <3>1
  <2>2. \A b \in B : f[b] = e[b]
    BY <2>1
  <2>3. h[n] = Total(B, f)
    BY <2>1
  <2>4. Sum(B) = Total(B, e)
    BY DEF Sum
  <2>. DEFINE G == form.groups[Sorted(form.shown)[n]]
  <2>5. /\ Sum(B) = TotalOf(G, "plan") + TotalOf(G, "fact") /\ IsFiniteSet(B)
    BY FormulaFits
  <2>6. /\ rows[n].plan = TotalOf(G, "plan") /\ rows[n].fact = TotalOf(G, "fact")
        /\ IsFiniteSet(G) /\ \A c \in G : Tells(c)
    BY PrintedRows
  <2>7. \A c \in G : c["plan"] \in Int /\ c["fact"] \in Int
    BY <2>6 DEF Tells
  <2>8. TotalOf(G, "plan") \in Int /\ TotalOf(G, "fact") \in Int
    <3>. HIDE DEF G
    <3> QED
      BY <2>6, <2>7, TotalOfIsInt
  <2>9. plan[n] = rows[n].plan /\ fact[n] = rows[n].fact
    OBVIOUS
  <2>. HIDE DEF B, e, f, h, G, rows, plan, fact
  <2>10. Total(B, f) = Total(B, e)
    BY <2>2, <2>5, SameTotal
  <2> QED
    BY <2>3, <2>4, <2>5, <2>6, <2>8, <2>9, <2>10
<1>6. AllForms(book) = Total(positive, f)
  BY DEF AllForms, Sum
<1>7. Total(positive, f) = Total(N, h)
  <2>. HIDE DEF positive, f, key, N
  <2> QED
    BY <1>2, <1>3, <1>4, TotalByGroups
<1>8. Column(rows, "plan") = Total(N, plan) /\ Column(rows, "fact") = Total(N, fact)
  BY <1>2 DEF Column
<1>. HIDE DEF N, h, plan, fact, f, positive, book, rows
<1>9. Total(N, h) = Total(N, plan) + Total(N, fact)
  BY <1>2, <1>5, TotalsAdd
<1>10. AllForms(book) = Column(rows, "plan") + Column(rows, "fact")
  BY <1>6, <1>7, <1>8, <1>9
<1> QED
  BY <1>10 DEF book, rows

LEMMA FormulasFitForms ==
  ASSUME NEW form, Sound(form)
  PROVE  FormulasFit(form)
<1>1. DOMAIN Printed(form) = 1..Cardinality(form.shown)
  BY PrintedRows
<1>2. ASSUME NEW n \in DOMAIN Printed(form)
      PROVE  /\ SumForm(Book(form), n, {"plan"}) = Printed(form)[n].plan
             /\ SumForm(Book(form), n, {"fact"}) = Printed(form)[n].fact
  <2>1. n \in 1..Cardinality(form.shown)
    BY <1>1
  <2>. DEFINE g == form.groups[Sorted(form.shown)[n]]
  <2>2. Printed(form)[n].plan = TotalOf(g, "plan") /\ Printed(form)[n].fact = TotalOf(g, "fact")
    BY <2>1, PrintedRows
  <2>3. /\ SumForm(Book(form), n, {"plan"}) = TotalOf(g, "plan")
        /\ SumForm(Book(form), n, {"fact"}) = TotalOf(g, "fact")
    BY <2>1, FormulaFits
  <2> QED
    BY <2>2, <2>3
<1> QED
  BY <1>2, AllFormsSum DEF FormulasFit
-----------------------------------------------------------------------------
\* The forms of a year.

LEMMA KeysOfEntries ==
  /\ ByPartner \in [Ids -> Keys] /\ ByCategory \in [Ids -> Keys]
  /\ ByProgram \in [Ids -> Keys] /\ ByMentor \in [Ids -> Keys]
<1>1. ASSUME NEW i \in Ids
      PROVE  {CardOf[i].partner, Category(i), ProgramOf[i], MentorOf[i], ""} \subseteq DOMAIN RankOf
  BY FormsAssumption DEF FormsAssumption
<1>2. \A i \in Ids : /\ CardOf[i].partner \in DOMAIN RankOf /\ Category(i) \in DOMAIN RankOf
                     /\ ProgramOf[i] \in DOMAIN RankOf /\ MentorOf[i] \in DOMAIN RankOf /\ "" \in DOMAIN RankOf
  BY <1>1
<1> QED
  BY <1>2 DEF ByPartner, ByCategory, ByProgram, ByMentor, Keys

\* The groups of some entries, of which a form prints some.
Grouped(cs, key, shown) == [groups |-> Groups(cs, key), shown |-> shown]

LEMMA GroupsAreSound ==
  ASSUME NEW cs, IsFiniteSet(cs), \A c \in cs : Tells(c), NEW key \in [Ids -> Keys],
         NEW shown \in SUBSET DOMAIN Groups(cs, key)
  PROVE  /\ Sound(Grouped(cs, key, shown))
         /\ DOMAIN Groups(cs, key) = {key[c.id] : c \in cs} /\ IsFiniteSet(DOMAIN Groups(cs, key))
         /\ DOMAIN Groups(cs, key) \in SUBSET Keys
         /\ \A k \in DOMAIN Groups(cs, key) : /\ Groups(cs, key)[k] = {c \in cs : key[c.id] = k}
                                              /\ IsFiniteSet(Groups(cs, key)[k])
<1>. DEFINE K == {key[c.id] : c \in cs}
            g == [c \in cs |-> key[c.id]]
            G == Groups(cs, key)
<1>1. DOMAIN G = K /\ \A k \in K : G[k] = {c \in cs : key[c.id] = k}
  BY DEF Groups
<1>2. IsFiniteSet(K)
  <2>1. IsFiniteSet({g[c] : c \in cs})
    <3>. HIDE DEF g
    <3> QED
      BY ImagesAreFinite
  <2>2. K = {g[c] : c \in cs}
    OBVIOUS
  <2> QED
    BY <2>1, <2>2
<1>3. K \in SUBSET Keys
  BY DEF Tells
<1>4. ASSUME NEW k \in K PROVE IsFiniteSet(G[k]) /\ \A c \in G[k] : Tells(c)
  <2>1. G[k] \in SUBSET cs
    BY <1>1
  <2>. HIDE DEF G, K
  <2> QED
    BY <2>1, FS_Subset
<1>. HIDE DEF K, G
<1>5. Grouped(cs, key, shown).groups = G /\ Grouped(cs, key, shown).shown = shown
  BY DEF Grouped, G
<1>6. Sound(Grouped(cs, key, shown))
  BY <1>1, <1>2, <1>3, <1>4, <1>5 DEF Sound, G
<1> QED
  BY <1>1, <1>2, <1>3, <1>4, <1>6 DEF G, K

LEMMA FormsAreGrouped ==
  ASSUME NEW cs, NEW key
  PROVE  LET G == Groups(cs, key) IN
         /\ Whole(G) = Grouped(cs, key, DOMAIN G)
         /\ WithFact(G) = Grouped(cs, key, {k \in DOMAIN G : HasFact(G[k])})
         /\ WithSum(G) = Grouped(cs, key, {k \in DOMAIN G : HasSum(G[k])})
BY DEF Whole, WithFact, WithSum, Grouped

\* The groups left out of a column have nothing in it.
LEMMA ColumnAddsUp ==
  ASSUME NEW cs, IsFiniteSet(cs), \A c \in cs : Tells(c), NEW key \in [Ids -> Keys],
         NEW shown \in SUBSET DOMAIN Groups(cs, key), NEW p \in {"plan", "fact"},
         \A k \in (DOMAIN Groups(cs, key)) \ shown : TotalOf(Groups(cs, key)[k], p) = 0
  PROVE  Column(Printed(Grouped(cs, key, shown)), p) = TotalOf(cs, p)
<1>. DEFINE G == Groups(cs, key)
            K == DOMAIN G
            f == [k \in K |-> TotalOf(G[k], p)]
            e == [k \in shown |-> TotalOf(G[k], p)]
            by == [c \in cs |-> key[c.id]]
            h == [k \in K |-> TotalOf({c \in cs : by[c] = k}, p)]
<1>1. /\ Sound(Grouped(cs, key, shown)) /\ IsFiniteSet(K)
      /\ \A k \in K : G[k] = {c \in cs : key[c.id] = k} /\ IsFiniteSet(G[k])
      /\ K = {key[c.id] : c \in cs}
  BY GroupsAreSound
<1>2. Grouped(cs, key, shown).groups = G /\ Grouped(cs, key, shown).shown = shown
  BY DEF Grouped
<1>3. Column(Printed(Grouped(cs, key, shown)), p) = Total(shown, e)
  <2>. DEFINE form == Grouped(cs, key, shown)
  <2>1. Sound(form) /\ form.groups = G /\ form.shown = shown
    BY <1>1, <1>2
  <2>. HIDE DEF form, G, K
  <2>2. Column(Printed(form), p) = Total(form.shown, [k \in form.shown |-> TotalOf(form.groups[k], p)])
    BY <2>1, ColumnIsTheirs
  <2>3. Column(Printed(form), p) = Total(shown, e)
    BY <2>1, <2>2
  <2> QED
    BY <2>3 DEF form
<1>4. \A c \in cs : c[p] \in Int
  <2>1. \A c \in cs : c["plan"] \in Int /\ c["fact"] \in Int
    BY DEF Tells
  <2> QED
    BY <2>1
<1>5. \A k \in K : f[k] = h[k] /\ f[k] \in Int
  <2>1. \A k \in K : {c \in cs : by[c] = k} = G[k]
    BY <1>1
  <2>2. ASSUME NEW k \in K PROVE TotalOf(G[k], p) \in Int
    <3>1. IsFiniteSet(G[k]) /\ \A c \in G[k] : c[p] \in Int
      BY <1>1, <1>4
    <3>. HIDE DEF G, K
    <3> QED
      BY <3>1, TotalOfIsInt
  <2>. HIDE DEF G, K, by
  <2> QED
    BY <2>1, <2>2
<1>6. TotalOf(cs, p) = Total(K, h)
  <2>1. \A c \in cs : by[c] \in K
    BY <1>1
  <2>2. IsFiniteSet(K)
    BY <1>1
  <2>. HIDE DEF K, by, G, f, e
  <2> QED
    BY <1>4, <2>1, <2>2, FieldByGroups
<1>7. (\A k \in K \ shown : f[k] = 0) /\ (\A k \in shown : f[k] = e[k]) /\ IsFiniteSet(shown)
  <2>1. IsFiniteSet(shown)
    BY <1>1, FS_Subset
  <2>2. shown \in SUBSET K
    OBVIOUS
  <2> QED
    BY <2>1, <2>2
<1>. HIDE DEF K, f, h, e, by, G
<1>8. shown \in SUBSET K
  BY DEF K, G
<1>9. Total(K, f) = Total(K, h) /\ Total(K, f) = Total(shown, f) /\ Total(shown, f) = Total(shown, e)
  BY <1>1, <1>5, <1>7, <1>8, SameTotal, LeftOut
<1> QED
  BY <1>3, <1>6, <1>9

\* The sheet of calculations has every entry once.
LEMMA PeriodOfBook ==
  ASSUME NEW cs, IsFiniteSet(cs), \A c \in cs : Tells(c), NEW key \in [Ids -> Keys],
         NEW shown \in SUBSET DOMAIN Groups(cs, key), NEW p \in {"plan", "fact"}
  PROVE  SumPeriod(Book(Grouped(cs, key, shown)), p) = TotalOf(cs, p)
<1>. DEFINE form == Grouped(cs, key, shown)
            G == Groups(cs, key)
            number == Numbers(form)
            P == OfPeriod(cs, p)
            r == [c \in P |-> number[key[c.id]]]
            L == {b \in Book(form) : b.entry.period = p}
            R == {[entry |-> c, row |-> r[c]] : c \in P}
<1>1. /\ DOMAIN G = {key[c.id] : c \in cs}
      /\ \A k \in DOMAIN G : G[k] = {c \in cs : key[c.id] = k}
  BY GroupsAreSound
<1>2. Book(form) = UNION {{[entry |-> c, row |-> number[k]] : c \in G[k]} : k \in DOMAIN G}
  BY DEF Book, Grouped
<1>. HIDE DEF G, number, form
<1>3. ASSUME NEW b \in L PROVE b \in R
  <2>0. b \in Book(form) /\ b.entry.period = p
    OBVIOUS
  <2>1. PICK k \in DOMAIN G : b \in {[entry |-> c, row |-> number[k]] : c \in G[k]}
    <3>. HIDE DEF L, R
    <3> QED
      BY <1>2, <2>0
  <2>2. PICK c \in G[k] : b = [entry |-> c, row |-> number[k]]
    BY <2>1
  <2>3. c \in P /\ key[c.id] = k
    BY <1>1, <2>0, <2>2 DEF OfPeriod
  <2> QED
    BY <2>2, <2>3
<1>4. ASSUME NEW b \in R PROVE b \in L
  <2>1. PICK c \in P : b = [entry |-> c, row |-> r[c]]
    OBVIOUS
  <2>. DEFINE k == key[c.id]
  <2>2. k \in DOMAIN G /\ c \in G[k] /\ c.period = p
    BY <1>1 DEF OfPeriod
  <2>3. b = [entry |-> c, row |-> number[k]]
    BY <2>1
  <2>. HIDE DEF k, R, P
  <2>4. b \in Book(form)
    BY <1>2, <2>2, <2>3
  <2> QED
    BY <2>2, <2>3, <2>4
<1>5. L = R
  BY <1>3, <1>4
<1>6. IsFiniteSet(P) /\ \A c \in P : Tells(c)
  BY FS_Subset DEF OfPeriod
<1>7. SumPeriod(Book(form), p) = Sum(R)
  BY <1>5 DEF SumPeriod
<1>. HIDE DEF P, r
<1>8. Sum(R) = AmountOf(P)
  BY <1>6, CopiesSum
<1>9. AmountOf(P) = TotalOf(cs, p)
  BY PeriodsApart DEF P
<1> QED
  BY <1>7, <1>8, <1>9 DEF form
\* A sealed picture has no entry that does not exist.
PicturesOfEntries == \A y \in Years : snapshots[y] = NoPicture \/ DOMAIN snapshots[y].entries \subseteq Ids

LEMMA SealedFactsAreEntries ==
  ASSUME PicturesOfEntries
  PROVE  SealedFacts(Year) \in SUBSET Ids
<1>1. Year \in Years
  BY YearAssumption DEF YearAssumption
<1>2. CASE snapshots[Year] = NoPicture
  BY <1>2 DEF SealedFacts
<1>3. CASE snapshots[Year] # NoPicture
  <2>1. DOMAIN snapshots[Year].entries \subseteq Ids
    BY <1>1, <1>3 DEF PicturesOfEntries
  <2> QED
    BY <1>3, <2>1 DEF SealedFacts
<1> QED
  BY <1>2, <1>3

\* The groups of the sealed fact that have no plan add nothing to it.
LEMMA Annex4AddsUp ==
  ASSUME EvidenceTypeOK, PicturesOfEntries
  PROVE  LET all == Contributions(Year) IN
         /\ Sound(Annex4(all))
         /\ Column(Printed(Annex4(all)), "plan") = Summary(OfPeriod(all, "plan")).eligible
<1>. DEFINE all == Contributions(Year)
            cs == {c \in OfPeriod(all, "plan") : c.eligible}
            plan == Groups(cs, ByCategory)
            D == DOMAIN plan
            sealed == {ByCategory[i] : i \in SealedFacts(Year)}
            K == D \cup sealed
            G == [k \in K |-> IF k \in D THEN plan[k] ELSE {}]
            form == Annex4(all)
            other == Grouped(cs, ByCategory, D)
            f == [k \in K |-> TotalOf(G[k], "plan")]
            e == [k \in D |-> TotalOf(plan[k], "plan")]
<1>1. IsFiniteSet(all) /\ \A c \in all : Tells(c)
  BY PartTells
<1>2. cs \in SUBSET all /\ cs \in SUBSET OfPeriod(all, "plan")
  BY DEF OfPeriod
<1>3. IsFiniteSet(cs) /\ \A c \in cs : Tells(c)
  <2>. HIDE DEF cs, all
  <2> QED
    BY <1>1, <1>2, FS_Subset
<1>4. form.groups = G /\ form.shown = K
  BY DEF Annex4, Whole
<1>5. other.groups = plan /\ other.shown = D
  BY DEF Grouped
<1>. HIDE DEF cs, form, other
<1>6. /\ Sound(other) /\ IsFiniteSet(D) /\ D \in SUBSET Keys
      /\ \A k \in D : IsFiniteSet(plan[k]) /\ \A c \in plan[k] : Tells(c)
  <2>1. /\ Sound(other) /\ IsFiniteSet(D) /\ D \in SUBSET Keys
        /\ \A k \in D : plan[k] = {c \in cs : ByCategory[c.id] = k} /\ IsFiniteSet(plan[k])
    BY <1>3, GroupsAreSound, KeysOfEntries DEF other
  <2> QED
    BY <1>3, <2>1
<1>7. IsFiniteSet(sealed) /\ sealed \in SUBSET Keys
  <2>1. SealedFacts(Year) \in SUBSET Ids
    BY SealedFactsAreEntries
  <2>2. IsFiniteSet(SealedFacts(Year))
    BY <2>1, FS_Subset, EvidenceAssumption DEF EvidenceAssumption
  <2> QED
    BY <2>1, <2>2, ImagesAreFinite, KeysOfEntries
<1>. HIDE DEF D, sealed, plan
<1>8. IsFiniteSet(K) /\ K \in SUBSET Keys
  BY <1>6, <1>7, FS_Union
<1>9. ASSUME NEW k \in K PROVE IsFiniteSet(G[k]) /\ \A c \in G[k] : Tells(c)
  <2>1. CASE k \in D
    BY <1>6, <2>1
  <2>2. CASE k \notin D
    BY <2>2, FS_EmptySet
  <2> QED
    BY <2>1, <2>2
<1>10. Sound(form)
  BY <1>4, <1>8, <1>9 DEF Sound
<1>11. Column(Printed(form), "plan") = Total(K, f) /\ Column(Printed(other), "plan") = Total(D, e)
  <2>1. Column(Printed(form), "plan")
           = Total(form.shown, [k \in form.shown |-> TotalOf(form.groups[k], "plan")])
    BY <1>10, ColumnIsTheirs
  <2>2. Column(Printed(other), "plan")
           = Total(other.shown, [k \in other.shown |-> TotalOf(other.groups[k], "plan")])
    BY <1>6, ColumnIsTheirs
  <2>. HIDE DEF G, K
  <2> QED
    BY <1>4, <1>5, <2>1, <2>2
<1>12. ASSUME NEW k \in K PROVE f[k] \in Int /\ (k \in D => f[k] = e[k]) /\ (k \notin D => f[k] = 0)
  <2>1. f[k] = TotalOf(G[k], "plan") /\ (k \in D => e[k] = TotalOf(G[k], "plan"))
    OBVIOUS
  <2>2. TotalOf(G[k], "plan") \in Int
    <3>. DEFINE g == G[k]
    <3>1. IsFiniteSet(g) /\ \A c \in g : Tells(c)
      BY <1>9
    <3>. HIDE DEF g
    <3>2. \A c \in g : c["plan"] \in Int
      BY <3>1 DEF Tells
    <3>3. TotalOf(g, "plan") \in Int
      BY <3>1, <3>2, TotalOfIsInt
    <3> QED
      BY <3>3 DEF g
  <2>3. k \notin D => TotalOf(G[k], "plan") = 0
    <3>1. k \notin D => G[k] = {}
      OBVIOUS
    <3>. HIDE DEF G
    <3> QED
      BY <3>1, EmptyTotal DEF TotalOf
  <2> QED
    BY <2>1, <2>2, <2>3
<1>13. Total(K, f) = Total(D, e)
  <2>1. D \in SUBSET K
    OBVIOUS
  <2>. HIDE DEF f, e, K
  <2> QED
    BY <1>6, <1>8, <1>12, <2>1, LeftOut, SameTotal
<1>14. Column(Printed(other), "plan") = TotalOf(cs, "plan")
  BY <1>3, ColumnAddsUp, KeysOfEntries DEF other, D, plan
<1>15. TotalOf(cs, "plan") = AmountOf(cs)
  BY <1>1, <1>2, PeriodsApart
<1>16. Summary(OfPeriod(all, "plan")).eligible = AmountOf(cs)
  BY DEF Summary, cs
<1> QED
  BY <1>10, <1>11, <1>13, <1>14, <1>15, <1>16 DEF form

LEMMA EverythingIsShown ==
  ASSUME NEW y
  PROVE  /\ Dashboard(Contributions(y), NoSlice).totals = Summary(Contributions(y))
         /\ Summary(Contributions(y)).plan = TotalOf(Contributions(y), "plan")
         /\ Summary(Contributions(y)).fact = TotalOf(Contributions(y), "fact")
<1>1. Shown(Contributions(y), NoSlice) = Contributions(y)
  <2>1. \A c \in Contributions(y) : InSlice(c.id, NoSlice)
    BY DEF InSlice, NoSlice
  <2>2. NoSlice.light = ""
    BY DEF NoSlice
  <2> QED
    BY <2>1, <2>2 DEF Shown, FilterByLight, List
<1> QED
  BY <1>1 DEF Dashboard, Summary
\* Entries without a sum add nothing.
LEMMA NonzeroAddsUp ==
  ASSUME NEW S, IsFiniteSet(S), \A c \in S : Tells(c)
  PROVE  TotalOf(Nonzero(OfPeriod(S, "fact")), "fact") = TotalOf(S, "fact")
<1>. DEFINE P == OfPeriod(S, "fact")
            N == Nonzero(P)
<1>1. P \in SUBSET S /\ N \in SUBSET P
  BY DEF OfPeriod, Nonzero
<1>2. \A c \in P : c["fact"] \in Int
  BY <1>1 DEF Tells
<1>3. \A c \in P \ N : c["fact"] = 0
  BY <1>1 DEF Nonzero, Amount, Tells, OfPeriod
<1>4. IsFiniteSet(P)
  BY <1>1, FS_Subset
<1>5. TotalOf(P, "fact") = TotalOf(S, "fact")
  BY PeriodsApart
<1>. HIDE DEF P, N
<1>6. TotalOf(P, "fact") = TotalOf(N, "fact")
  BY <1>1, <1>2, <1>3, <1>4, OthersLeftOut
<1> QED
  BY <1>5, <1>6 DEF P, N

\* A form with every group of some entries, and one with those of a sum.
LEMMA WholeAddsUp ==
  ASSUME NEW cs, IsFiniteSet(cs), \A c \in cs : Tells(c), NEW key \in [Ids -> Keys]
  PROVE  /\ FormulasFit(Whole(Groups(cs, key)))
         /\ \A p \in {"plan", "fact"} : Column(Printed(Whole(Groups(cs, key))), p) = TotalOf(cs, p)
<1>. DEFINE D == DOMAIN Groups(cs, key)
<1>1. Whole(Groups(cs, key)) = Grouped(cs, key, D)
  BY FormsAreGrouped
<1>. HIDE DEF D
<1>2. D \in SUBSET DOMAIN Groups(cs, key) /\ (DOMAIN Groups(cs, key)) \ D = {}
  BY DEF D
<1>3. FormulasFit(Grouped(cs, key, D))
  BY <1>2, GroupsAreSound, FormulasFitForms
<1>4. ASSUME NEW p \in {"plan", "fact"} PROVE Column(Printed(Grouped(cs, key, D)), p) = TotalOf(cs, p)
  BY <1>2, ColumnAddsUp
<1> QED
  BY <1>1, <1>3, <1>4

LEMMA WithFactAddsUp ==
  ASSUME NEW cs, IsFiniteSet(cs), \A c \in cs : Tells(c), NEW key \in [Ids -> Keys]
  PROVE  LET form == WithFact(Groups(cs, key)) IN
         /\ FormulasFit(form)
         /\ Column(Printed(form), "fact") = TotalOf(cs, "fact")
         /\ SumPeriod(Book(form), "fact") = TotalOf(cs, "fact")
<1>. DEFINE G == Groups(cs, key)
            shown == {k \in DOMAIN G : HasFact(G[k])}
<1>1. WithFact(G) = Grouped(cs, key, shown)
  BY FormsAreGrouped
<1>2. shown \in SUBSET DOMAIN G /\ \A k \in (DOMAIN G) \ shown : TotalOf(G[k], "fact") = 0
  BY DEF HasFact
<1>. HIDE DEF shown
<1>3. FormulasFit(Grouped(cs, key, shown))
  BY <1>2, GroupsAreSound, FormulasFitForms
<1>4. Column(Printed(Grouped(cs, key, shown)), "fact") = TotalOf(cs, "fact")
  BY <1>2, ColumnAddsUp
<1>5. SumPeriod(Book(Grouped(cs, key, shown)), "fact") = TotalOf(cs, "fact")
  BY <1>2, PeriodOfBook
<1> QED
  BY <1>1, <1>3, <1>4, <1>5

LEMMA WithSumAddsUp ==
  ASSUME NEW cs, IsFiniteSet(cs), \A c \in cs : Tells(c), NEW key \in [Ids -> Keys]
  PROVE  LET form == WithSum(Groups(cs, key)) IN
         /\ FormulasFit(form)
         /\ \A p \in {"plan", "fact"} : Column(Printed(form), p) = TotalOf(cs, p)
         /\ Sound(form)
<1>. DEFINE G == Groups(cs, key)
            shown == {k \in DOMAIN G : HasSum(G[k])}
<1>1. WithSum(G) = Grouped(cs, key, shown)
  BY FormsAreGrouped
<1>2. /\ shown \in SUBSET DOMAIN G
      /\ \A k \in (DOMAIN G) \ shown : TotalOf(G[k], "fact") = 0 /\ TotalOf(G[k], "plan") = 0
  BY DEF HasSum, HasFact
<1>. HIDE DEF shown
<1>3. Sound(Grouped(cs, key, shown)) /\ FormulasFit(Grouped(cs, key, shown))
  BY <1>2, GroupsAreSound, FormulasFitForms
<1>4. ASSUME NEW p \in {"plan", "fact"} PROVE Column(Printed(Grouped(cs, key, shown)), p) = TotalOf(cs, p)
  <2>1. \A k \in (DOMAIN G) \ shown : TotalOf(G[k], p) = 0
    BY <1>2
  <2> QED
    BY <1>2, <2>1, ColumnAddsUp
<1> QED
  BY <1>1, <1>3, <1>4

\* The plan and the fact by the projection are the same rows.
LEMMA ProjectionPrints ==
  ASSUME NEW all, IsFiniteSet(all), \A c \in all : Tells(c)
  PROVE  LET planFact == Printed(PlanFact(all)) IN
         {planFact[n] : n \in DOMAIN planFact} = PlanFactProjection(all)
<1>. DEFINE G == Groups(all, ByCategory)
            form == PlanFact(all)
            S == form.shown
            order == Sorted(S)
            size == Cardinality(S)
            rows == Printed(form)
            line(k) == [key |-> k, plan |-> TotalOf(G[k], "plan"), fact |-> TotalOf(G[k], "fact")]
<1>1. form.groups = G /\ S = {k \in DOMAIN G : HasSum(G[k])} /\ Sound(form)
  BY WithSumAddsUp, KeysOfEntries DEF PlanFact, WithSum
<1>2. /\ DOMAIN rows = 1..size /\ order \in [1..size -> S]
      /\ \A k \in S : \E n \in 1..size : order[n] = k
      /\ \A n \in 1..size : rows[n] = line(order[n])
  <2>. HIDE DEF form, G
  <2>1. /\ DOMAIN rows = 1..size /\ order \in [1..size -> S]
        /\ \A k \in S : \E n \in 1..size : order[n] = k
    BY <1>1, PrintedRows
  <2>2. ASSUME NEW n \in 1..size
        PROVE  rows[n] = [key |-> order[n], plan |-> TotalOf(form.groups[order[n]], "plan"),
                          fact |-> TotalOf(form.groups[order[n]], "fact")]
    BY <1>1, PrintedRows
  <2> QED
    BY <1>1, <2>1, <2>2
<1>. HIDE DEF S, order, size, rows, line
<1>3. {rows[n] : n \in DOMAIN rows} = {line(k) : k \in S}
  BY <1>2
<1>. DEFINE D == {ByCategory[c.id] : c \in all}
            sums == [k \in D |-> Summary({c \in all : ByCategory[c.id] = k})]
            T == {l \in DOMAIN sums : sums[l].plan # 0 \/ sums[l].fact # 0}
<1>4. PlanFactProjection(all) = {[key |-> k, plan |-> sums[k].plan, fact |-> sums[k].fact] : k \in T}
  BY DEF PlanFactProjection
<1>5. DOMAIN G = D /\ \A k \in D : G[k] = {c \in all : ByCategory[c.id] = k}
  BY DEF Groups
<1>6. \A k \in D : sums[k].plan = TotalOf(G[k], "plan") /\ sums[k].fact = TotalOf(G[k], "fact")
  <2>1. \A k \in D : sums[k] = Summary(G[k])
    BY <1>5
  <2>2. \A k \in D : Summary(G[k]).plan = TotalOf(G[k], "plan") /\ Summary(G[k]).fact = TotalOf(G[k], "fact")
    BY DEF Summary
  <2>. HIDE DEF G, D, sums
  <2> QED
    BY <2>1, <2>2
<1>7. DOMAIN sums = D
  OBVIOUS
<1>. HIDE DEF G, D, sums
<1>8. T = S
  BY <1>1, <1>5, <1>6, <1>7 DEF HasSum, HasFact
<1>9. S \subseteq D
  BY <1>1, <1>5
<1>. HIDE DEF T
<1>10. {line(k) : k \in S} = {[key |-> k, plan |-> sums[k].plan, fact |-> sums[k].fact] : k \in T}
  BY <1>6, <1>8, <1>9 DEF line
<1> QED
  BY <1>3, <1>4, <1>10 DEF rows, form

\* Who has a fact is not in the statement that there is none.
LEMMA NobodyIsAbsent ==
  ASSUME EvidenceTypeOK
  PROVE  LET all == Contributions(Year) IN
         {<<p, "">> : p \in AbsenceStatements(all)} \cap Annex1(all).shown = {}
<1>. DEFINE all == Contributions(Year)
<1>1. \A c \in all : Tells(c)
  BY PartTells
<1>2. \A c \in all : c.partner = CardOf[c.id].partner /\ c.id \in Ids
  <2>. SUFFICES ASSUME NEW c \in all PROVE c.partner = CardOf[c.id].partner /\ c.id \in Ids
    OBVIOUS
  <2>1. c = Contribution(c.id) /\ c.id \in Ids
    BY <1>1 DEF Tells
  <2>2. Contribution(c.id).partner = CardOf[c.id].partner
    BY DEF Contribution
  <2> QED
    BY <2>1, <2>2
<1>. HIDE DEF all
<1>3. ASSUME NEW p \in AbsenceStatements(all), <<p, "">> \in Annex1(all).shown PROVE FALSE
  <2>1. Annex1(all).shown = {ByPartner[c.id] : c \in Nonzero(OfPeriod(all, "fact"))}
    BY DEF Annex1, Whole, Groups
  <2>2. PICK c \in Nonzero(OfPeriod(all, "fact")) : <<p, "">> = ByPartner[c.id]
    BY <1>3, <2>1
  <2>3. c \in OfPeriod(all, "fact") /\ c \in all
    BY DEF Nonzero, OfPeriod
  <2>4. ByPartner[c.id] = <<c.partner, "">>
    BY <1>2, <2>3 DEF ByPartner
  <2>5. p = c.partner
    <3>1. <<p, "">>[1] = <<c.partner, "">>[1]
      BY <2>2, <2>4
    <3> QED
      BY <3>1
  <2> QED
    BY <2>3, <2>5 DEF AbsenceStatements
<1> QED
  BY <1>3 DEF all

LEMMA FormsAdd ==
  ASSUME EvidenceTypeOK, PicturesOfEntries
  PROVE  FormsAddUp
<1>. DEFINE all == Contributions(Year)
            totals == Dashboard(all, NoSlice).totals
            planFact == Printed(PlanFact(all))
<1>1. IsFiniteSet(all) /\ \A c \in all : Tells(c)
  BY PartTells
<1>2. totals = Summary(all) /\ totals.plan = TotalOf(all, "plan") /\ totals.fact = TotalOf(all, "fact")
  BY EverythingIsShown
<1>. HIDE DEF all, totals
<1>3. ASSUME NEW T \in SUBSET all PROVE IsFiniteSet(T) /\ \A c \in T : Tells(c)
  BY <1>1, FS_Subset
<1>4. FormulasFit(Annex1(all)) /\ Column(Printed(Annex1(all)), "fact") = totals.fact
  <2>. DEFINE T == Nonzero(OfPeriod(all, "fact"))
  <2>1. T \in SUBSET all
    BY DEF Nonzero, OfPeriod
  <2>2. TotalOf(T, "fact") = TotalOf(all, "fact")
    BY <1>1, NonzeroAddsUp
  <2>. HIDE DEF T
  <2>3. FormulasFit(Whole(Groups(T, ByPartner))) /\ Column(Printed(Whole(Groups(T, ByPartner))), "fact") = TotalOf(T, "fact")
    BY <1>3, <2>1, WholeAddsUp, KeysOfEntries
  <2> QED
    BY <1>2, <2>2, <2>3 DEF T, Annex1
<1>5. FormulasFit(Annex2(all)) /\ FormulasFit(Mentors(all))
  <2>. DEFINE T == {c \in all : c.category \in Internships}
              U == {c \in all : c.category \in Internships /\ MentorOf[c.id] # ""}
  <2>1. T \in SUBSET all /\ U \in SUBSET all
    OBVIOUS
  <2>2. Annex2(all) = Whole(Groups(Nonzero(T), ByProgram)) /\ Mentors(all) = Whole(Groups(U, ByMentor))
    BY DEF Annex2, Mentors
  <2>3. Nonzero(T) \in SUBSET all
    BY DEF Nonzero
  <2>. HIDE DEF T, U
  <2> QED
    BY <1>3, <2>1, <2>2, <2>3, WholeAddsUp, KeysOfEntries
<1>6. /\ FormulasFit(Annex5(all)) /\ Column(Printed(Annex5(all)), "fact") = totals.fact
      /\ SumPeriod(Book(Annex5(all)), "fact") = totals.fact
  BY <1>1, <1>2, WithFactAddsUp, KeysOfEntries DEF Annex5
<1>7. /\ FormulasFit(PlanFact(all))
      /\ Column(planFact, "plan") = totals.plan /\ Column(planFact, "fact") = totals.fact
  BY <1>1, <1>2, WithSumAddsUp, KeysOfEntries DEF PlanFact
<1>8. {planFact[n] : n \in DOMAIN planFact} = PlanFactProjection(all)
  BY <1>1, ProjectionPrints
<1>9. FormulasFit(Annex4(all)) /\ Column(Printed(Annex4(all)), "plan") = Summary(OfPeriod(all, "plan")).eligible
  BY Annex4AddsUp, FormulasFitForms DEF all
<1>10. /\ Column(Printed(Sheets(all, "plan")), "plan") = totals.plan
       /\ Column(Printed(Sheets(all, "fact")), "fact") = totals.fact
  <2>1. ASSUME NEW p \in {"plan", "fact"} PROVE Column(Printed(Sheets(all, p)), p) = TotalOf(all, p)
    <3>. DEFINE P == OfPeriod(all, p)
    <3>1. P \in SUBSET all
      BY DEF OfPeriod
    <3>2. TotalOf(P, p) = TotalOf(all, p)
      BY <1>1, PeriodsApart
    <3>. HIDE DEF P
    <3>3. Column(Printed(Whole(Groups(P, ByPartner))), p) = TotalOf(P, p)
      BY <1>3, <3>1, WholeAddsUp, KeysOfEntries
    <3> QED
      BY <3>2, <3>3 DEF P, Sheets
  <2> QED
    BY <1>2, <2>1
<1>11. ASSUME NEW p \in {"plan", "fact"}, ~Preliminary(OfPeriod(all, p))
       PROVE  Summary(OfPeriod(all, p)).eligible = totals[p]
  <2>. DEFINE P == OfPeriod(all, p)
  <2>1. {c \in P : c.eligible} = P
    BY <1>11 DEF Preliminary
  <2>2. Summary(P).eligible = AmountOf({c \in P : c.eligible})
    BY DEF Summary
  <2>3. AmountOf(P) = TotalOf(all, p)
    BY <1>1, PeriodsApart
  <2>4. totals[p] = TotalOf(all, p)
    BY <1>2
  <2>. HIDE DEF P
  <2> QED
    BY <2>1, <2>2, <2>3, <2>4 DEF P
<1>12. {<<p, "">> : p \in AbsenceStatements(all)} \cap Annex1(all).shown = {}
  BY NobodyIsAbsent DEF all
<1>. HIDE DEF planFact
<1> QED
  BY <1>4, <1>5, <1>6, <1>7, <1>8, <1>9, <1>10, <1>11, <1>12 DEF FormsAddUp, all, totals, planFact
-----------------------------------------------------------------------------
\* The pictures, sealed or under way, are of entries.

PicturesHold ==
    /\ DOMAIN snapshots = Years /\ PicturesOfEntries
    /\ \A q \in Sealers : seals[q].at \in {"entries", "docs"} =>
          "entries" \in DOMAIN seals[q] /\ DOMAIN seals[q].entries \subseteq Ids

LEMMA PicturesAreSealed ==
  ASSUME SealsTyped, PicturesHold, NEW q \in Sealers,
         SealStart(q) \/ SealDocuments(q) \/ Seal(q) \/ GiveUp(q)
  PROVE  PicturesHold'
<1>1. ASSUME NEW s, s.at \in {"entries", "docs"} => "entries" \in DOMAIN s /\ DOMAIN s.entries \subseteq Ids,
             seals' = [seals EXCEPT ![q] = s], UNCHANGED snapshots
      PROVE  PicturesHold'
  <2>1. \A r \in Sealers : seals'[r] = IF r = q THEN s ELSE seals[r]
    BY <1>1 DEF SealsTyped
  <2>2. DOMAIN snapshots' = Years /\ PicturesOfEntries'
    BY <1>1 DEF PicturesHold, PicturesOfEntries, Years
  <2> QED
    BY <1>1, <2>1, <2>2 DEF PicturesHold
<1>2. Idle.at \notin {"entries", "docs"}
  BY DEF Idle
<1>3. CASE SealStart(q)
  <2>. DEFINE es == [i \in FactsOfYear |-> [row |-> entries[i], eligible |-> Eligible(i)]]
              s == [at |-> "entries", entries |-> es, moment |-> docs, docs |-> NoDoc]
  <2>1. seals' = [seals EXCEPT ![q] = s] /\ UNCHANGED snapshots
    BY <1>3 DEF SealStart
  <2>2. DOMAIN es \subseteq Ids
    BY DEF FactsOfYear
  <2>. HIDE DEF es
  <2>3. "entries" \in DOMAIN s /\ s.entries = es
    OBVIOUS
  <2>. HIDE DEF s
  <2> QED
    BY <1>1, <2>1, <2>2, <2>3
<1>4. CASE SealDocuments(q)
  <2>1. PICK shown : \/ seals' = [seals EXCEPT ![q] = Idle]
                     \/ seals' = [seals EXCEPT ![q] = [@ EXCEPT !.at = "docs", !.docs = shown]]
    BY <1>4 DEF SealDocuments
  <2>. DEFINE s == [seals[q] EXCEPT !.at = "docs", !.docs = shown]
  <2>2. UNCHANGED snapshots /\ seals[q].at = "entries"
    BY <1>4 DEF SealDocuments
  <2>3. "entries" \in DOMAIN seals[q] /\ DOMAIN seals[q].entries \subseteq Ids
    BY <2>2 DEF PicturesHold
  <2>4. "entries" \in DOMAIN s /\ s.entries = seals[q].entries
    BY <2>3
  <2>5. seals' = [seals EXCEPT ![q] = Idle] \/ seals' = [seals EXCEPT ![q] = s]
    BY <2>1 DEF SealsTyped
  <2>. HIDE DEF s
  <2> QED
    BY <1>1, <1>2, <2>2, <2>3, <2>4, <2>5
<1>5. CASE Seal(q)
  <2>. DEFINE es == seals[q].entries
              picture == [at |-> "sealed", entries |-> es, docs |-> seals[q].docs]
  <2>1. DOMAIN es \subseteq Ids
    BY <1>5 DEF Seal, PicturesHold
  <2>2. seals' = [seals EXCEPT ![q] = Idle]
        /\ (snapshots' = snapshots \/ snapshots' = [snapshots EXCEPT ![Year] = picture])
    BY <1>5 DEF Seal
  <2>3. picture.entries = es
    OBVIOUS
  <2>. HIDE DEF picture, es
  <2>4. DOMAIN snapshots' = Years /\ \A y \in Years : snapshots'[y] \in {snapshots[y], picture}
    BY <2>2 DEF PicturesHold
  <2>5. PicturesOfEntries'
    BY <2>1, <2>3, <2>4 DEF PicturesHold, PicturesOfEntries, Years
  <2>6. \A r \in Sealers : seals'[r] = IF r = q THEN Idle ELSE seals[r]
    BY <2>2 DEF SealsTyped
  <2> QED
    BY <1>2, <2>4, <2>5, <2>6 DEF PicturesHold
<1>6. CASE GiveUp(q)
  BY <1>1, <1>2, <1>6 DEF GiveUp
<1> QED
  BY <1>3, <1>4, <1>5, <1>6

LEMMA PicturesAreKept ==
  ASSUME SealsTyped, PicturesHold, [Next]_vars
  PROVE  PicturesHold'
<1>1. CASE UNCHANGED <<snapshots, seals>>
  BY <1>1 DEF PicturesHold, PicturesOfEntries
<1>2. CASE \E w \in Workers : Rebuild(w)
  BY <1>1, <1>2 DEF Rebuild, RebuildRead, RebuildWrite
<1>3. CASE \E q \in Sealers : SealStart(q) \/ SealDocuments(q) \/ Seal(q) \/ GiveUp(q)
  BY <1>3, PicturesAreSealed
<1>4. CASE SetBudgetTarget
  BY <1>1, <1>4 DEF SetBudgetTarget
<1> QED
  BY <1>1, <1>2, <1>3, <1>4 DEF Next, vars

LEMMA PicturesInitially == Init => PicturesHold
<1>. SUFFICES ASSUME Init PROVE PicturesHold
  OBVIOUS
<1>1. PICK start \in Starts : seals = Presence(Sealers, start)
  BY DEF Init
<1>2. \A q \in Sealers : seals[q] \in {Idle, Away}
  BY <1>1 DEF Presence
<1>3. snapshots = [y \in Years |-> NoPicture]
  BY DEF Init
<1>4. Idle.at \notin {"entries", "docs"} /\ Away.at \notin {"entries", "docs"}
  BY DEF Idle, Away
<1> QED
  BY <1>2, <1>3, <1>4 DEF PicturesHold, PicturesOfEntries

\* One answer of the dashboard tells the same sums wherever they are gathered: the
\* rows of plan and fact, the buckets of risk and the totals agree under every slice,
\* the guaranteed bucket is what is counted, and the printed forms, the formulas in
\* their cells and the totals agree with each other and with the dashboard.
THEOREM FiguresAgree == Spec => []SumsAgree
<1>1. ReadersInv /\ PicturesHold => SumsAgree
  BY SlicesAdd, GuaranteedCounts, FormsAdd DEF ReadersInv, EvidenceInv, PicturesHold, SumsAgree
<1>2. ReadersInv /\ [Next]_vars => ReadersInv'
  BY ReadersAreKept
<1>3. ReadersInv /\ PicturesHold /\ [Next]_vars => PicturesHold'
  BY PicturesAreKept DEF ReadersInv
<1> QED
  BY <1>1, <1>2, <1>3, ReadersInitially, PicturesInitially, PTL DEF Spec
=============================================================================
