----------------------------- MODULE AuditChain -----------------------------
(***************************************************************************)
(* The chain of hashes of the audit journal (migration 0902).  A           *)
(* transaction writes any number of entries (platform/audit Write).  An    *)
(* INSERT takes its number from the sequence, then the trigger             *)
(* audit_chain_link waits for the advisory lock 270901, which is kept to   *)
(* the end of the transaction, looks for the end of the chain and closes   *)
(* it.  The numbers are therefore not taken under the lock, and a number   *)
(* whose transaction is rolled back is never used again.                   *)
(*                                                                         *)
(* The hash covers the number of the entry, so no two entries share one    *)
(* and it is represented by the number.  Nothing here alters the content   *)
(* of an entry: the trigger of migration 0901 does not let anybody.        *)
(***************************************************************************)
EXTENDS Integers, FiniteSets, FiniteSetsExt

CONSTANTS
  Transactions,   \* each runs once
  Serializable,   \* those that keep one snapshot: sealing a report (snapshots.go)
  Retention,      \* ticks an entry stays in the journal
  PurgeLimit,     \* LIMIT of purge_expired_audit
  MaxNumber,      \* bound: numbers taken
  MaxClock        \* bound: ticks

ASSUME ChainAssumption ==
  /\ Serializable \subseteq Transactions
  /\ Retention \in Nat /\ PurgeLimit \in Nat \ {0} /\ MaxNumber \in Nat /\ MaxClock \in Nat

VARIABLES
  clock,
  sequence,   \* the last number taken
  journal,    \* audit_log, as committed
  archive,    \* audit_log_archive, as committed
  tx,         \* the transactions and what they have not committed
  causes      \* ghost: what has happened that verification may complain of

chainVars == <<clock, sequence, journal, archive, tx, causes>>

\* prev = 0: prev_hash is null.
JournalEntry == [seq : 1..MaxNumber, prev : 0..MaxNumber, created : 0..MaxClock]

\* number = 0: no INSERT is under way.  seen and seenArchive are the snapshot
\* of a serializable transaction.
Transaction == [at : {"idle", "open", "over"}, started : 0..MaxClock, number : 0..MaxNumber,
                own : SUBSET JournalEntry, seen : SUBSET JournalEntry, seenArchive : SUBSET JournalEntry]

NotRunning(place) == [at |-> place, started |-> 0, number |-> 0,
                      own |-> {}, seen |-> {}, seenArchive |-> {}]

Newest(rows) == Max({0} \cup {r.seq : r \in rows})

-----------------------------------------------------------------------------
\* Mutant: the trigger does not wait for other writers.
NeverWaits(t) == TRUE

\* The advisory lock: whoever has written and not ended has it.
LockIsFree(t) == \A u \in Transactions \ {t} : tx[u].own = {}

\* The end of the chain, as the two SELECTs of the trigger find it.
EndOfChain(rows, archived) == IF rows # {} THEN Newest(rows) ELSE Newest(archived)

\* READ COMMITTED takes a snapshot for every statement of the trigger.
Visible(t) == (IF t \in Serializable THEN tx[t].seen ELSE journal) \cup tx[t].own
VisibleArchive(t) == IF t \in Serializable THEN tx[t].seenArchive ELSE archive

\* Mutant: only missing numbers are looked for.
MissingNumbers(rows) ==
  {r \in rows : LET before == {p \in rows : p.seq < r.seq} IN
     before # {} /\ r.seq # Newest(before) + 1}

\* The entries verify_audit_chain complains of (it stops at the first): one whose
\* number does not follow the number before it or that does not close that entry.
Broken(rows) ==
  {r \in rows : LET before == {p \in rows : p.seq < r.seq} IN
     \/ r.prev # Newest(before)
     \/ before # {} /\ r.seq # Newest(before) + 1}

-----------------------------------------------------------------------------
\* Of two serializable transactions that write the journal at the same time
\* PostgreSQL fails one; here they follow each other, and either may roll back.
Begin(t) ==
  /\ tx[t].at = "idle"
  /\ t \in Serializable => \A u \in Serializable : tx[u].at # "open"
  /\ tx' = [tx EXCEPT ![t] = [NotRunning("open") EXCEPT !.started = clock,
              !.seen = IF t \in Serializable THEN journal ELSE {},
              !.seenArchive = IF t \in Serializable THEN archive ELSE {}]]
  /\ UNCHANGED <<clock, sequence, journal, archive, causes>>

\* INSERT: the default of chain_seq is evaluated before the trigger runs.
TakeNumber(t) ==
  /\ tx[t].at = "open" /\ tx[t].number = 0 /\ sequence < MaxNumber
  /\ sequence' = sequence + 1
  /\ tx' = [tx EXCEPT ![t].number = sequence']
  /\ UNCHANGED <<clock, journal, archive, causes>>

\* What is unusual about the link that t is about to make: a smaller number is
\* still waiting or a larger one has passed, the snapshot misses committed
\* entries, or a later entry than the end of the journal is already archived.
Unusual(t) ==
  {cause \in {"overtaken", "stale", "ahead"} :
     \/ cause = "overtaken" /\ \/ \E u \in Transactions : tx[u].number \in 1..(tx[t].number - 1)
                               \/ tx[t].number < Newest(journal \cup archive \cup tx[t].own)
     \/ cause = "stale" /\ t \in Serializable
          /\ tx[t].seen \cup tx[t].seenArchive # journal \cup archive
     \/ cause = "ahead" /\ Newest(VisibleArchive(t)) > Newest(Visible(t)) /\ Visible(t) # {}}

\* audit_chain_link, once it has the lock; created_at is the start of the
\* transaction.
Link(t) ==
  /\ tx[t].number # 0 /\ LockIsFree(t)
  /\ tx' = [tx EXCEPT ![t].number = 0,
              ![t].own = @ \cup {[seq |-> tx[t].number, created |-> tx[t].started,
                                  prev |-> EndOfChain(Visible(t), VisibleArchive(t))]}]
  /\ causes' = causes \cup Unusual(t)
  /\ UNCHANGED <<clock, sequence, journal, archive>>

Commit(t) ==
  /\ tx[t].at = "open" /\ tx[t].number = 0
  /\ journal' = journal \cup tx[t].own
  /\ tx' = [tx EXCEPT ![t] = NotRunning("over")]
  /\ UNCHANGED <<clock, sequence, archive, causes>>

\* An error of the handler, a deadlock, a failed serialization or a lost client.
Rollback(t) ==
  /\ tx[t].at = "open"
  /\ tx' = [tx EXCEPT ![t] = NotRunning("over")]
  /\ causes' = IF tx[t].number # 0 \/ tx[t].own # {} THEN causes \cup {"lost"} ELSE causes
  /\ UNCHANGED <<clock, sequence, journal, archive>>

\* The oldest numbers first, at most PurgeLimit of them.
Expired ==
  LET expired == {r \in journal : r.created + Retention < clock} IN
  {r \in expired : Cardinality({p \in expired : p.seq < r.seq}) < PurgeLimit}

\* Mutant: entries are archived and stay.
PurgeCopies ==
  /\ Expired # {}
  /\ archive' = archive \cup Expired
  /\ UNCHANGED <<clock, sequence, journal, tx, causes>>

\* purge_expired_audit, one statement of the worker (retention.go); it does not
\* take the lock.
Purge ==
  /\ Expired # {}
  /\ archive' = archive \cup Expired
  /\ journal' = journal \ Expired
  /\ UNCHANGED <<clock, sequence, tx, causes>>

Tick ==
  /\ clock < MaxClock /\ clock' = clock + 1
  /\ UNCHANGED <<sequence, journal, archive, tx, causes>>

-----------------------------------------------------------------------------
ChainInit ==
  /\ clock = 0 /\ sequence = 0
  /\ journal = {} /\ archive = {}
  /\ tx = [t \in Transactions |-> NotRunning("idle")]
  /\ causes = {}

Run(t) == Begin(t) \/ TakeNumber(t) \/ Link(t) \/ Commit(t) \/ Rollback(t)

ChainNext == (\E t \in Transactions : Run(t)) \/ Purge \/ Tick

ChainSpec == ChainInit /\ [][ChainNext]_chainVars

-----------------------------------------------------------------------------
\* Properties

Entries == journal \cup archive

\* Entries and transactions keep their types; nothing is in the journal and in
\* the archive (verification would meet its number twice).
ChainTypeOK ==
  /\ clock \in 0..MaxClock /\ sequence \in 0..MaxNumber
  /\ journal \subseteq JournalEntry /\ archive \subseteq JournalEntry /\ journal \cap archive = {}
  /\ tx \in [Transactions -> Transaction]
  /\ causes \subseteq {"overtaken", "stale", "ahead", "lost"}

\* The lock and the archive do what migration 0902 wants of them, as far as
\* order and fate of the transactions let them: verification complains of a
\* journal nobody has touched only if a number was lost with its transaction, was
\* overtaken by a larger one, was linked from an old snapshot, or was archived
\* before a smaller one.
FalseAlarmsHaveACause == Broken(Entries) # {} => causes # {}

\* Every entry has a predecessor in the journal or in the archive but one, also
\* when all others have been archived.
OneBeginning ==
  "stale" \notin causes => \A r, s \in Entries : r.prev = 0 /\ s.prev = 0 => r = s

\* An entry closes one that was committed, or written by the same transaction:
\* whatever is rolled back later, no link leads nowhere.
LinksLeadSomewhere ==
  \A r \in Entries : r.prev = 0 \/ \E p \in Entries : p.seq = r.prev

\* What the chain is for (0902:1-5): if verification is silent, the loss of any
\* entry but the last would not be.
AnyLossIsSeen ==
  Broken(Entries) = {} =>
    \A r \in Entries : r.seq < Newest(Entries) => Broken(Entries \ {r}) # {}

\* Purging moves entries and loses none; nothing else takes an entry away.
EntriesStay == [][Entries \subseteq Entries']_chainVars

\* 0902:61-62: insertions are lined up so that no two of them read the same end
\* of the chain and fork it.
NoFork ==
  \A r, s \in Entries : r.prev = s.prev => r = s
=============================================================================
