----------------------------- MODULE Retention -----------------------------
(***************************************************************************)
(* Local retention: the lineage tags every stored row carries, the bounded *)
(* sweep that deletes or purges what has outlived its class                *)
(* (sweep_expired_records and its task in the daemon), and the erasure of  *)
(* one tenant (fornax-store, retention.rs; retention_sweep.rs).            *)
(*                                                                         *)
(* A record is a row of agent_events, claims, evidence,                    *)
(* evidence_consumption or findings; a row names rows of smaller number.   *)
(* The sweep pages through the tags in the order of (recorded_at,          *)
(* record_table, record_id), one transaction per page, while rows are      *)
(* inserted between two pages and time passes.  recorded_at is compared as *)
(* text; sweep_expired_records warns that texts of one tight window may    *)
(* sort out of chronological order.  The clock of the model ticks once per *)
(* such window, and the rows of one tick are in an order Rank that nothing *)
(* is assumed about: a row may come before or after the rows it names.     *)
(* From window to window the wall clock is taken not to step back.  A      *)
(* batch that fails or a cycle that panics changes nothing: the cursor     *)
(* stays where it was.  The tables without foreign keys (quarantine,       *)
(* corpus, adjudication, feedback) are swept as consumption records are.   *)
(***************************************************************************)
EXTENDS Naturals, FiniteSets

CONSTANTS
  Record,         \* record identities
  Table,          \* Table[r]: the table r belongs to
  Refs,           \* Refs[r]: the rows r names by foreign key
  Cites,          \* Cites[r]: the evidence a consumption record is about
  Rank,           \* Rank[r]: place among the records of one window
  Tenant,         \* Tenant[r]: the session the tag is filed under
  RawLocal,       \* retention of raw rows
  DerivedFinding, \* retention of findings
  BatchSize,      \* tags examined in one transaction
  MaxInsert,      \* bound: rows are inserted up to this time
  MaxTime,        \* bound on the clock
  MaxRestarts     \* bound on daemon restarts

Tables == {"agent_events", "claims", "evidence", "evidence_consumption", "findings"}
Tenants == {Tenant[r] : r \in Record}

ASSUME RecordType == Record \subseteq Nat \ {0}
ASSUME TableType == Table \in [Record -> Tables]
ASSUME RefsType == Refs \in [Record -> SUBSET Record]
ASSUME RefsEarlier == \A r \in Record : \A p \in Refs[r] :
         p < r /\ Table[p] \in {"agent_events", "claims"}
ASSUME CitesType == Cites \in [Record -> SUBSET Record]
ASSUME CitesEarlier == \A r \in Record : \A e \in Cites[r] :
         /\ e < r /\ Table[e] = "evidence"
         /\ Table[r] = "evidence_consumption" /\ Tenant[e] = Tenant[r]
ASSUME RankType == /\ Rank \in [Record -> Nat]
                   /\ \A r, s \in Record : Rank[r] = Rank[s] => r = s
ASSUME DurationType == RawLocal \in Nat \ {0} /\ DerivedFinding \in Nat \ {0}
ASSUME BatchSizeType == BatchSize \in Nat \ {0}
ASSUME BoundType == MaxInsert \in Nat /\ MaxTime \in Nat /\ MaxRestarts \in Nat

VARIABLES
  now,      \* the wall clock
  row,      \* each record: "absent", "raw", or "stub" (content overwritten)
  tag,      \* recorded_at of its lineage tag, 0 when it has none
  cursor,   \* the sweep task's position, in memory
  due,      \* history: the keys already expired when the pass began
  lapsed,   \* history: evidence that lost a consumption record to the sweep
  restarts  \* how often the daemon has been restarted

vars == <<now, row, tag, cursor, due, lapsed, restarts>>

Start == <<0, 0>>  \* no cursor: before every key

Init ==
  /\ now = 1
  /\ row = [r \in Record |-> "absent"]
  /\ tag = [r \in Record |-> 0]
  /\ cursor = Start
  /\ due = {}
  /\ lapsed = {}
  /\ restarts = 0

-----------------------------------------------------------------------------
(* Time and the insert paths. *)

Tick ==
  /\ now < MaxTime
  /\ now' = now + 1
  /\ UNCHANGED <<row, tag, cursor, due, lapsed, restarts>>

Present(r) == row[r] # "absent"

\* insert_event, insert_claim, insert_evidence, insert_finding and
\* record_consumption: the row and its tag in one transaction.  What a row
\* names must be there: by foreign key, or because the daemon has just read it.
\* A row that is still there, stub or not, is a duplicate or a collision.
Insert(r) ==
  /\ now <= MaxInsert
  /\ ~Present(r)
  /\ \A p \in Refs[r] \cup Cites[r] : Present(p)
  /\ row' = [row EXCEPT ![r] = "raw"]
  /\ tag' = [tag EXCEPT ![r] = now]
  /\ UNCHANGED <<now, cursor, due, lapsed, restarts>>

\* purge_evidence_payload: the tag stays.
PurgeEvidencePayload(r) ==
  /\ Table[r] = "evidence"
  /\ row[r] = "raw"
  /\ row' = [row EXCEPT ![r] = "stub"]
  /\ UNCHANGED <<now, tag, cursor, due, lapsed, restarts>>

-----------------------------------------------------------------------------
(* The sweep. *)

\* Mutant: consumption records get a shorter class than their evidence.
RetentionForShort(r) ==
  IF Table[r] = "findings" THEN DerivedFinding
  ELSE IF Table[r] = "evidence_consumption" THEN 0 ELSE RawLocal

\* retention_duration_for of retention_class_for_table
RetentionFor(r) == IF Table[r] = "findings" THEN DerivedFinding ELSE RawLocal

\* is_expired, for a record that has a tag
Expired(r) == now >= tag[r] + RetentionFor(r)

Tagged == {r \in Record : tag[r] # 0}

Key(r) == <<tag[r], r>>
Before(k, l) == k[1] < l[1] \/ (k[1] = l[1] /\ Rank[k[2]] < Rank[l[2]])

\* Mutant: the cursor compares recorded_at alone.
AheadByTime == {r \in Tagged : cursor[1] < tag[r]}

\* The tags after the cursor.
Ahead == {r \in Tagged : Before(cursor, Key(r))}

\* The rows of SELECT ... ORDER BY ... LIMIT: all that are left, or the first
\* BatchSize of them.
IsBatch(B) ==
  \/ B = Ahead /\ Cardinality(B) < BatchSize
  \/ /\ Cardinality(B) = BatchSize
     /\ \E last \in B : \A s \in Ahead : s \in B <=> ~Before(Key(last), Key(s))

\* Some row that is not gone names r by foreign key, so the DELETE fails.
Referenced(r, gone) == \E s \in Record \ gone : Present(s) /\ r \in Refs[s]

\* The rows of a page that are deleted, one after the other in the order of the
\* page: an expired row goes if the rows that name it have gone before it.
\* Evidence keeps its row.
AreDeleted(expired, D) ==
  \A r \in expired :
    r \in D <=> /\ Table[r] # "evidence"
               /\ ~Referenced(r, {s \in D : Before(Key(s), Key(r))})

\* Mutant: foreign keys are not enforced.
DisposedUnchecked(r, D) == IF Table[r] = "evidence" THEN "stub" ELSE "absent"

\* Mutant: consumption records fall through to the unknown-table arm.
DisposedUnknown(r, D) ==
  IF Table[r] = "evidence_consumption" THEN row[r]
  ELSE IF r \in D THEN "absent" ELSE "stub"

\* What an expired row becomes: deleted, or kept without its content.
Disposed(r, D) == IF r \in D THEN "absent" ELSE "stub"

\* Mutant: the cursor stays at the end of the table.
NextCursorStuck(B) ==
  IF B = {} THEN cursor
  ELSE CHOOSE k \in {Key(r) : r \in B} : \A s \in B : ~Before(k, Key(s))

\* next_cursor: the last key examined, or none when the page was not full.
NextCursor(B) ==
  IF Cardinality(B) = BatchSize
  THEN CHOOSE k \in {Key(r) : r \in B} : \A s \in B : ~Before(k, Key(s))
  ELSE Start

\* sweep_expired_records, and the cursor run_one_cycle keeps from it.
SweepBatch ==
  /\ \E B \in SUBSET Ahead :
       LET out == {r \in B : Expired(r)} IN
       /\ IsBatch(B)
       /\ \E D \in SUBSET out :
            /\ AreDeleted(out, D)
            /\ row' = [r \in Record |-> IF r \in out THEN Disposed(r, D) ELSE row[r]]
       /\ tag' = [r \in Record |-> IF r \in out THEN 0 ELSE tag[r]]
       /\ cursor' = NextCursor(B)
       /\ lapsed' = lapsed \cup UNION {Cites[r] : r \in out}
  /\ due' = IF cursor = Start THEN {Key(r) : r \in {s \in Tagged : Expired(s)}} ELSE due
  /\ UNCHANGED <<now, restarts>>

\* The daemon stops and starts again: the cursor was only in memory.
Restart ==
  /\ restarts < MaxRestarts
  /\ restarts' = restarts + 1
  /\ cursor' = Start
  /\ due' = {}
  /\ UNCHANGED <<now, row, tag, lapsed>>

-----------------------------------------------------------------------------
(* Tenant erasure. *)

OfTenant(t) == {r \in Tagged : Tenant[r] = t}

\* delete_records_for_tenant, one transaction that goes through the tenant's
\* tags in the order they were written.  A row that is still named by another,
\* which is always a later one, makes its DELETE fail and undoes everything.
DeleteTenant(t) ==
  /\ OfTenant(t) # {}
  /\ \A r \in OfTenant(t) : ~Referenced(r, {})
  /\ row' = [r \in Record |-> IF r \in OfTenant(t) THEN "absent" ELSE row[r]]
  /\ tag' = [r \in Record |-> IF r \in OfTenant(t) THEN 0 ELSE tag[r]]
  /\ lapsed' = lapsed \ OfTenant(t)
  /\ UNCHANGED <<now, cursor, due, restarts>>

-----------------------------------------------------------------------------
Next ==
  \/ Tick
  \/ \E r \in Record : Insert(r)
  \/ \E r \in Record : PurgeEvidencePayload(r)
  \/ SweepBatch
  \/ Restart
  \/ \E t \in Tenants : DeleteTenant(t)

\* Time passes, and the sweep task wakes up again after every interval.
Fairness == WF_vars(Tick) /\ WF_vars(SweepBatch)

Spec == Init /\ [][Next]_vars /\ Fairness

-----------------------------------------------------------------------------
(* Properties *)

TypeOK ==
  /\ now \in Nat \ {0}
  /\ row \in [Record -> {"absent", "raw", "stub"}]
  /\ tag \in [Record -> 0..now]
  /\ cursor \in Nat \X (Record \cup {0})
  /\ due \subseteq Nat \X Record
  /\ lapsed \subseteq Record
  /\ restarts \in 0..MaxRestarts

\* Raw content always has its lineage tag, so neither the sweep nor an erasure
\* can miss it; a tag never survives its row (the insert paths, the sweep's
\* match arms and delete_records_for_tenant).
RawContentTagged ==
  \A r \in Record : (row[r] = "raw" => tag[r] # 0) /\ (tag[r] # 0 => Present(r))

\* Whatever a stored row names is still stored, at least as a stub: a finding
\* keeps its claim and the claim its event through sweeps, purges and erasures
\* (the foreign-key fallback of sweep_expired_records), in whatever order a
\* page takes the rows of one window.
ReferencedRowsKept ==
  \A r \in Record : Present(r) => \A p \in Refs[r] : Present(p)

\* A tag that had expired when a pass began and is still there lies ahead of
\* the cursor: no pass ends, or moves on, leaving an expired row behind, however
\* many tags share one instant and whatever is inserted meanwhile (the keyset
\* pagination of sweep_expired_records).
NothingStranded ==
  \A r \in Tagged : Key(r) \in due => cursor # Start /\ Before(cursor, Key(r))

\* A readable evidence payload loses a consumption record, and with it the
\* replay guard, only when the payload itself is due to be purged: the record
\* is tagged no earlier than its evidence and has the same class.
GuardOutlivesPayload ==
  \A e \in lapsed : row[e] = "raw" => Expired(e)

\* Raw content does not stay for ever: every raw row is sooner or later
\* deleted, purged or erased, restarts and new inserts notwithstanding.
RawContentExpires ==
  \A r \in Record : row[r] = "raw" ~> row[r] # "raw"
=============================================================================
