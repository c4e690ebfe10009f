-------------------------- MODULE RetentionProofs --------------------------
(***************************************************************************)
(* Retention for every set of records, every order of the rows of one      *)
(* window, every page size and every retention period: raw content always  *)
(* has its tag, referenced rows stay, no pass leaves an expired row        *)
(* behind, and the replay guard of a readable payload outlives its         *)
(* retention period.                                                       *)
(***************************************************************************)
EXTENDS Retention, TLAPS

USE DEF Present, Tagged, Key, Before

-----------------------------------------------------------------------------
(* The strengthening. *)

\* A key kept in due had expired and still has.
DueExpired == \A k \in due : now >= k[1] + RetentionFor(k[2])

\* What a consumption record is about is there, and was tagged no later.
CitedFirst ==
  \A r \in Record : Present(r) =>
    \A e \in Cites[r] : Present(e) /\ tag[e] <= tag[r]

\* Consumption records are never kept as stubs.
ConsumptionsWhole ==
  \A r \in Record : Table[r] = "evidence_consumption" => row[r] # "stub"

\* Evidence that lost a consumption record is still stored.
LapsedStored == \A e \in lapsed : Table[e] = "evidence" /\ Present(e)

IInv ==
  /\ TypeOK
  /\ RawContentTagged
  /\ ReferencedRowsKept
  /\ DueExpired
  /\ NothingStranded
  /\ CitedFirst
  /\ ConsumptionsWhole
  /\ LapsedStored
  /\ GuardOutlivesPayload

-----------------------------------------------------------------------------
(* Facts about one page of the sweep. *)

LEMMA RetentionIsTime == \A r \in Record : RetentionFor(r) \in Nat \ {0}
  BY DurationType DEF RetentionFor

\* Every tag ahead of the cursor is in the page, or after the next cursor.
LEMMA PageCovers ==
  ASSUME TypeOK, NEW B \in SUBSET Ahead, IsBatch(B)
  PROVE  /\ NextCursor(B) \in Nat \X (Record \cup {0})
         /\ \A r \in Ahead \ B : NextCursor(B) # Start /\ Before(NextCursor(B), Key(r))
<1> USE DEF TypeOK
<1>1. CASE Cardinality(B) = BatchSize
  <2>1. PICK last \in B : \A s \in Ahead : s \in B <=> ~Before(Key(last), Key(s))
    BY <1>1, BatchSizeType DEF IsBatch
  <2> DEFINE K == {Key(r) : r \in B}
             Last(k) == \A s \in B : ~Before(k, Key(s))
  <2>2. Key(last) \in K /\ Last(Key(last))
    BY <2>1
  <2>3. NextCursor(B) = CHOOSE k \in K : Last(k)
    BY <1>1 DEF NextCursor
  <2>4. NextCursor(B) \in K
    BY <2>2, <2>3
  <2>5. PICK r0 \in B : NextCursor(B) = Key(r0)
    BY <2>4
  <2>6. r0 \in Record /\ last \in Record /\ tag[r0] \in Nat \ {0} /\ tag[last] \in Nat
    BY DEF Ahead
  <2>7. NextCursor(B) \in Nat \X (Record \cup {0}) /\ NextCursor(B) # Start
    BY <2>5, <2>6, RecordType DEF Start
  <2>8. ASSUME NEW r \in Ahead \ B PROVE Before(NextCursor(B), Key(r))
    <3>1. r \in Record /\ tag[r] \in Nat
      BY DEF Ahead
    <3>2. Before(Key(last), Key(r)) /\ ~Before(Key(last), Key(r0))
      BY <2>1
    <3> QED
      BY <2>5, <2>6, <3>1, <3>2, RankType
  <2> QED
    BY <2>7, <2>8
<1>2. CASE Cardinality(B) # BatchSize
  <2>1. B = Ahead /\ NextCursor(B) = Start
    BY <1>2 DEF IsBatch, NextCursor
  <2> QED
    BY <2>1 DEF Start
<1> QED
  BY <1>1, <1>2

-----------------------------------------------------------------------------
(* One lemma per kind of step. *)

LEMMA InitHolds == Init => IInv
<1> SUFFICES ASSUME Init PROVE IInv
  OBVIOUS
<1>1. TypeOK
  BY BoundType DEF Init, TypeOK, Start
<1>2. \A r \in Record : row[r] = "absent" /\ tag[r] = 0
  BY DEF Init
<1>3. RawContentTagged /\ ReferencedRowsKept /\ CitedFirst
      /\ ConsumptionsWhole
  BY <1>2 DEF RawContentTagged, ReferencedRowsKept, CitedFirst,
     ConsumptionsWhole
<1> QED
  BY <1>1, <1>3 DEF Init, IInv, DueExpired, NothingStranded, LapsedStored, GuardOutlivesPayload

\* Time alone only makes more rows expire.
LEMMA TickHolds == IInv /\ Tick => IInv'
<1> SUFFICES ASSUME IInv, Tick PROVE IInv'
  OBVIOUS
<1>1. TypeOK'
  BY DEF IInv, TypeOK, Tick
<1>2. DueExpired'
  <2> SUFFICES ASSUME NEW k \in due PROVE now + 1 >= k[1] + RetentionFor(k[2])
    BY DEF Tick, DueExpired, RetentionFor
  <2>1. k[1] \in Nat /\ k[2] \in Record /\ now \in Nat
    BY DEF IInv, TypeOK
  <2> QED
    BY <2>1, RetentionIsTime DEF IInv, DueExpired
<1>3. GuardOutlivesPayload'
  <2> SUFFICES ASSUME NEW e \in lapsed, row[e] = "raw"
               PROVE  now + 1 >= tag[e] + RetentionFor(e)
    BY DEF Tick, GuardOutlivesPayload, Expired, RetentionFor
  <2>1. e \in Record /\ tag[e] \in Nat /\ now \in Nat
    BY DEF IInv, TypeOK
  <2> QED
    BY <2>1, RetentionIsTime DEF IInv, GuardOutlivesPayload, Expired
<1> QED
  BY <1>1, <1>2, <1>3 DEF IInv, Tick, RawContentTagged, ReferencedRowsKept,
     NothingStranded, CitedFirst, ConsumptionsWhole, LapsedStored

\* A new row is tagged after everything it names, and not with a key in due.
LEMMA InsertHolds == \A r \in Record : IInv /\ Insert(r) => IInv'
<1> SUFFICES ASSUME NEW r \in Record, IInv, Insert(r) PROVE IInv'
  OBVIOUS
<1>1. /\ now \in Nat \ {0}
      /\ row \in [Record -> {"absent", "raw", "stub"}]
      /\ tag \in [Record -> 0..now]
      /\ row' = [row EXCEPT ![r] = "raw"]
      /\ tag' = [tag EXCEPT ![r] = now]
      /\ row[r] = "absent" /\ tag[r] = 0
      /\ UNCHANGED <<now, cursor, due, lapsed, restarts>>
  BY DEF IInv, TypeOK, Insert, RawContentTagged
<1>2. row'[r] = "raw" /\ tag'[r] = now
  BY <1>1
<1>3. \A s \in Record \ {r} : row'[s] = row[s] /\ tag'[s] = tag[s]
  BY <1>1
<1>4. TypeOK'
  BY <1>1 DEF IInv, TypeOK
<1>5. RawContentTagged'
  BY <1>1, <1>2, <1>3 DEF IInv, RawContentTagged
<1>6. ReferencedRowsKept'
  BY <1>2, <1>3, RefsType DEF IInv, ReferencedRowsKept, Insert
<1>8. DueExpired'
  BY <1>1 DEF IInv, DueExpired, RetentionFor
<1>9. <<now, r>> \notin due
  BY <1>1, RetentionIsTime DEF IInv, DueExpired
<1>10. NothingStranded'
  BY <1>1, <1>2, <1>3, <1>9 DEF IInv, NothingStranded
<1>11. CitedFirst'
  <2> SUFFICES ASSUME NEW s \in Record, row'[s] # "absent", NEW e \in Cites[s]
               PROVE  row'[e] # "absent" /\ tag'[e] <= tag'[s]
    BY DEF CitedFirst
  <2>1. e \in Record
    BY CitesType
  <2>2. CASE s = r
    <3>1. row[e] # "absent" /\ e # r
      BY <1>1, <2>2 DEF Insert
    <3> QED
      BY <1>1, <1>2, <1>3, <2>1, <2>2, <3>1
  <2>3. CASE s # r
    BY <1>1, <1>3, <2>1, <2>3 DEF IInv, CitedFirst
  <2> QED
    BY <2>2, <2>3
<1>12. ConsumptionsWhole'
  BY <1>2, <1>3 DEF IInv, ConsumptionsWhole
<1>13. LapsedStored' /\ GuardOutlivesPayload'
  <2>1. r \notin lapsed /\ lapsed \subseteq Record
    BY <1>1 DEF IInv, LapsedStored, TypeOK
  <2> QED
    BY <1>1, <1>3, <2>1 DEF IInv, LapsedStored, GuardOutlivesPayload, Expired, RetentionFor
<1> QED
  BY <1>4, <1>5, <1>6, <1>8, <1>10, <1>11, <1>12, <1>13 DEF IInv

LEMMA PurgeHolds == \A r \in Record : IInv /\ PurgeEvidencePayload(r) => IInv'
<1> SUFFICES ASSUME NEW r \in Record, IInv, PurgeEvidencePayload(r) PROVE IInv'
  OBVIOUS
<1>1. /\ row \in [Record -> {"absent", "raw", "stub"}]
      /\ row' = [row EXCEPT ![r] = "stub"]
      /\ row[r] = "raw" /\ Table[r] = "evidence"
      /\ UNCHANGED <<now, tag, cursor, due, lapsed, restarts>>
  BY DEF IInv, TypeOK, PurgeEvidencePayload
<1>2. \A s \in Record : /\ row'[s] = "raw" => row[s] = "raw"
                        /\ row'[s] = "absent" <=> row[s] = "absent"
                        /\ s # r => row'[s] = row[s]
  BY <1>1
<1>3. TypeOK'
  BY <1>1 DEF IInv, TypeOK
<1>4. RawContentTagged' /\ ReferencedRowsKept' /\ CitedFirst'
  BY <1>1, <1>2, RefsType, CitesType DEF IInv, RawContentTagged, ReferencedRowsKept, CitedFirst
<1>5. DueExpired' /\ NothingStranded'
  BY <1>1 DEF IInv, DueExpired, NothingStranded, RetentionFor
<1>6. ConsumptionsWhole'
  BY <1>1, <1>2 DEF IInv, ConsumptionsWhole
<1>7. LapsedStored' /\ GuardOutlivesPayload'
  BY <1>1, <1>2 DEF IInv, TypeOK, LapsedStored, GuardOutlivesPayload, Expired, RetentionFor
<1> QED
  BY <1>3, <1>4, <1>5, <1>6, <1>7 DEF IInv

LEMMA RestartHolds == IInv /\ Restart => IInv'
<1> SUFFICES ASSUME IInv, Restart PROVE IInv'
  OBVIOUS
<1>1. TypeOK'
  BY BoundType DEF IInv, TypeOK, Restart, Start
<1> QED
  BY <1>1 DEF IInv, Restart, RawContentTagged, ReferencedRowsKept, DueExpired, NothingStranded, CitedFirst, ConsumptionsWhole, LapsedStored,
     GuardOutlivesPayload, Expired, RetentionFor

\* An erasure removes rows and tags together, and no row another one names.
LEMMA DeleteTenantHolds == \A t \in Tenants : IInv /\ DeleteTenant(t) => IInv'
<1> SUFFICES ASSUME NEW t \in Tenants, IInv, DeleteTenant(t) PROVE IInv'
  OBVIOUS
<1> DEFINE D == OfTenant(t)
<1>1. /\ now \in Nat \ {0}
      /\ row \in [Record -> {"absent", "raw", "stub"}] /\ tag \in [Record -> 0..now]
      /\ D \subseteq Record
      /\ row' = [r \in Record |-> IF r \in D THEN "absent" ELSE row[r]]
      /\ tag' = [r \in Record |-> IF r \in D THEN 0 ELSE tag[r]]
      /\ lapsed' = lapsed \ D
      /\ UNCHANGED <<now, cursor, due, restarts>>
  BY DEF IInv, TypeOK, DeleteTenant, OfTenant
<1> HIDE DEF D
<1>2. \A s \in Record : /\ s \in D => row'[s] = "absent" /\ tag'[s] = 0
                        /\ s \notin D => row'[s] = row[s] /\ tag'[s] = tag[s]
  BY <1>1
<1>3. TypeOK'
  BY <1>1 DEF IInv, TypeOK
<1>4. RawContentTagged' /\ ConsumptionsWhole'
  BY <1>2 DEF IInv, RawContentTagged, ConsumptionsWhole
<1>5. ReferencedRowsKept'
  <2>1. \A r \in D : ~Referenced(r, {})
    BY DEF DeleteTenant, D
  <2> QED
    BY <1>2, <2>1, RefsType DEF IInv, ReferencedRowsKept, Referenced
<1>7. DueExpired' /\ NothingStranded'
  BY <1>1, <1>2 DEF IInv, DueExpired, NothingStranded, RetentionFor
<1>8. CitedFirst'
  <2> SUFFICES ASSUME NEW s \in Record, s \notin D, row[s] # "absent", NEW e \in Cites[s]
               PROVE  e \notin D
    BY <1>2, CitesType DEF IInv, CitedFirst
  <2>1. row[s] = "raw" /\ tag[s] # 0
    BY <1>1, CitesEarlier DEF IInv, ConsumptionsWhole, RawContentTagged
  <2> QED
    BY <2>1, CitesEarlier DEF D, OfTenant
<1>9. LapsedStored' /\ GuardOutlivesPayload'
  BY <1>1, <1>2 DEF IInv, TypeOK, LapsedStored, GuardOutlivesPayload, Expired, RetentionFor
<1> QED
  BY <1>3, <1>4, <1>5, <1>7, <1>8, <1>9 DEF IInv

\* One page of the sweep.
LEMMA SweepHolds == IInv /\ SweepBatch => IInv'
<1> SUFFICES ASSUME IInv, SweepBatch PROVE IInv'
  OBVIOUS
<1>1. PICK B \in SUBSET Ahead :
        LET out == {r \in B : Expired(r)} IN
        /\ IsBatch(B)
        /\ \E D \in SUBSET out :
             /\ AreDeleted(out, D)
             /\ row' = [r \in Record |-> IF r \in out THEN Disposed(r, D) ELSE row[r]]
        /\ tag' = [r \in Record |-> IF r \in out THEN 0 ELSE tag[r]]
        /\ cursor' = NextCursor(B)
        /\ lapsed' = lapsed \cup UNION {Cites[r] : r \in out}
  BY DEF SweepBatch
<1> DEFINE out == {r \in B : Expired(r)}
           began == {Key(r) : r \in {s \in Tagged : Expired(s)}}
<1>0. PICK D \in SUBSET out :
        /\ AreDeleted(out, D)
        /\ row' = [r \in Record |-> IF r \in out THEN Disposed(r, D) ELSE row[r]]
  BY <1>1
<1>2. /\ now \in Nat \ {0}
      /\ row \in [Record -> {"absent", "raw", "stub"}] /\ tag \in [Record -> 0..now]
      /\ out \subseteq Record /\ B \subseteq Record
      /\ row' = [r \in Record |-> IF r \in out THEN Disposed(r, D) ELSE row[r]]
      /\ tag' = [r \in Record |-> IF r \in out THEN 0 ELSE tag[r]]
      /\ cursor' = NextCursor(B)
      /\ lapsed' = lapsed \cup UNION {Cites[r] : r \in out}
      /\ due' = IF cursor = Start THEN began ELSE due
      /\ UNCHANGED <<now, restarts>>
  BY <1>0, <1>1 DEF IInv, TypeOK, SweepBatch, Ahead
<1>3. \A r \in out : tag[r] # 0 /\ row[r] # "absent" /\ Expired(r)
  BY <1>1 DEF IInv, RawContentTagged, Ahead
<1>4. \A r \in Ahead \ B : cursor' # Start /\ Before(cursor', Key(r))
  BY <1>1, PageCovers DEF IInv
<1>5. cursor' \in Nat \X (Record \cup {0})
  BY <1>1, PageCovers DEF IInv
<1>6. \A r \in B : Expired(r) => r \in out
  OBVIOUS
<1>7. began \subseteq Nat \X Record
  BY <1>2
<1> HIDE DEF out
<1>8. \A s \in Record :
        /\ s \in out => tag'[s] = 0 /\ row'[s] = Disposed(s, D)
        /\ s \notin out => tag'[s] = tag[s] /\ row'[s] = row[s]
  BY <1>2
<1>9. \A s \in Record : /\ row'[s] = "raw" => s \notin out /\ row[s] = "raw"
                        /\ row'[s] # "absent" => row[s] # "absent"
                        /\ row'[s] = "absent" /\ row[s] # "absent"
                             => s \in D
                        /\ s \in D => row'[s] = "absent"
  BY <1>3, <1>8 DEF Disposed
<1>9a. \A s \in D : /\ s \in out /\ Table[s] # "evidence"
                  /\ \A r \in Record : row[r] # "absent" /\ s \in Refs[r] => r \in D
  BY <1>0 DEF AreDeleted, Referenced
<1>9b. \A s \in out : Table[s] = "evidence_consumption" => s \in D
  <2> SUFFICES ASSUME NEW s \in out, Table[s] = "evidence_consumption" PROVE s \in D
    OBVIOUS
  <2>1. \A r \in Record : s \notin Refs[r]
    BY RefsEarlier
  <2> QED
    BY <1>0, <2>1 DEF AreDeleted, Referenced
<1>10. lapsed' \subseteq Record
  BY <1>2, CitesType DEF IInv, TypeOK
<1>11. row' \in [Record -> {"absent", "raw", "stub"}]
  BY <1>2 DEF Disposed
<1>12. TypeOK'
  BY <1>2, <1>5, <1>7, <1>10, <1>11 DEF IInv, TypeOK
<1>13. RawContentTagged'
  BY <1>8, <1>9 DEF IInv, RawContentTagged
<1>14. ReferencedRowsKept'
  <2> SUFFICES ASSUME NEW r \in Record, row'[r] # "absent", NEW p \in Refs[r]
               PROVE  row'[p] # "absent"
    BY DEF ReferencedRowsKept
  <2>1. row[r] # "absent" /\ p \in Record
    BY <1>9, RefsType
  <2>2. row[p] # "absent"
    BY <2>1 DEF IInv, ReferencedRowsKept
  <2> QED
    BY <1>9, <1>9a, <2>1, <2>2
<1>16. DueExpired'
  <2>1. \A k \in began : now >= k[1] + RetentionFor(k[2])
    BY DEF Expired
  <2> QED
    BY <1>2, <2>1 DEF IInv, DueExpired, RetentionFor
<1>17. NothingStranded'
  <2> SUFFICES ASSUME NEW r \in Record, tag'[r] # 0, <<tag'[r], r>> \in due'
               PROVE  cursor' # Start /\ Before(cursor', <<tag'[r], r>>)
    BY DEF NothingStranded
  <2>1. r \notin out /\ tag'[r] = tag[r] /\ tag[r] # 0
    BY <1>8
  <2>2. Expired(r)
    <3>1. now >= tag[r] + RetentionFor(r)
      BY <1>16, <1>2, <2>1 DEF DueExpired, RetentionFor
    <3> QED
      BY <3>1 DEF Expired
  <2>3. r \in Ahead
    <3>1. CASE cursor = Start
      BY <1>2, <2>1, <3>1 DEF Ahead, Start
    <3>2. CASE cursor # Start
      BY <1>2, <2>1, <3>2 DEF IInv, NothingStranded, Ahead
    <3> QED
      BY <3>1, <3>2
  <2> QED
    BY <1>4, <1>6, <2>1, <2>2, <2>3
<1>18. CitedFirst'
  <2> SUFFICES ASSUME NEW r \in Record, row'[r] # "absent", NEW e \in Cites[r]
               PROVE  row'[e] # "absent" /\ tag'[e] <= tag'[r]
    BY DEF CitedFirst
  <2>1. e \in Record /\ Table[e] = "evidence" /\ Table[r] = "evidence_consumption"
    BY CitesType, CitesEarlier
  <2>2. row[r] # "absent" /\ row[e] # "absent" /\ tag[e] <= tag[r]
    BY <1>9 DEF IInv, CitedFirst
  <2>3. r \notin out
    BY <1>9, <1>9b, <2>1
  <2> QED
    BY <1>2, <1>8, <1>9, <1>9a, <2>1, <2>2, <2>3
<1>19. ConsumptionsWhole'
  <2>1. \A r \in out : Table[r] = "evidence_consumption" => row'[r] = "absent"
    BY <1>2, <1>9, <1>9b
  <2> QED
    BY <1>8, <2>1 DEF IInv, ConsumptionsWhole
<1>20. \A e \in lapsed' \ lapsed :
         /\ e \in Record /\ Table[e] = "evidence" /\ row[e] # "absent"
         /\ now >= tag[e] + RetentionFor(e)
  <2> SUFFICES ASSUME NEW r \in out, NEW e \in Cites[r]
               PROVE  /\ e \in Record /\ Table[e] = "evidence" /\ row[e] # "absent"
                      /\ now >= tag[e] + RetentionFor(e)
    BY <1>2
  <2>1. e \in Record /\ Table[e] = "evidence" /\ Table[r] = "evidence_consumption"
    BY <1>2, CitesType, CitesEarlier
  <2>2. row[e] # "absent" /\ tag[e] <= tag[r]
    BY <1>2, <1>3 DEF IInv, CitedFirst
  <2>3. now >= tag[r] + RawLocal
    BY <1>3, <2>1 DEF Expired, RetentionFor
  <2>4. tag[r] \in Nat /\ tag[e] \in Nat
    BY <1>2, <2>1
  <2> QED
    BY <1>2, <2>1, <2>2, <2>3, <2>4, DurationType DEF RetentionFor
<1>21. LapsedStored'
  <2>1. \A e \in lapsed : e \in Record /\ row[e] # "absent" /\ Table[e] = "evidence"
    BY DEF IInv, LapsedStored, TypeOK
  <2> QED
    BY <1>9, <1>10, <1>20, <1>9a, <2>1 DEF LapsedStored
<1>22. GuardOutlivesPayload'
  <2> SUFFICES ASSUME NEW e \in lapsed', row'[e] = "raw"
               PROVE  now >= tag'[e] + RetentionFor(e)
    BY <1>2 DEF GuardOutlivesPayload, Expired, RetentionFor
  <2>1. e \in Record /\ row[e] = "raw" /\ tag'[e] = tag[e]
    BY <1>8, <1>9, <1>10
  <2> QED
    BY <1>20, <2>1 DEF IInv, GuardOutlivesPayload, Expired
<1> QED
  BY <1>12, <1>13, <1>14, <1>16, <1>17, <1>18, <1>19, <1>21, <1>22 DEF IInv

LEMMA StepHolds == IInv /\ [Next]_vars => IInv'
<1> SUFFICES ASSUME IInv, [Next]_vars PROVE IInv'
  OBVIOUS
<1>1. CASE UNCHANGED vars
  BY <1>1 DEF vars, IInv, TypeOK, RawContentTagged, ReferencedRowsKept, DueExpired, NothingStranded, CitedFirst, ConsumptionsWhole, LapsedStored,
     GuardOutlivesPayload, Expired, RetentionFor
<1> QED
  BY <1>1, TickHolds, InsertHolds, PurgeHolds, SweepHolds, RestartHolds, DeleteTenantHolds
     DEF Next

LEMMA IInvHolds == Spec => []IInv
  BY InitHolds, StepHolds, PTL DEF Spec

-----------------------------------------------------------------------------
(* The results. *)

\* The retention state is well typed; no tag is later than the clock.
THEOREM RetentionTypeCorrect == Spec => []TypeOK
  BY IInvHolds, PTL DEF IInv

\* No raw content is ever without its lineage tag, so the sweep and the
\* erasure of a tenant can find all of it.
THEOREM RawContentFindable == Spec => []RawContentTagged
  BY IInvHolds, PTL DEF IInv

\* No sweep, purge or erasure removes a row that a stored row names.
THEOREM ChainsKept == Spec => []ReferencedRowsKept
  BY IInvHolds, PTL DEF IInv

\* Whatever the page size, no pass of the sweep leaves behind a row that had
\* expired when the pass began.
THEOREM PassesAreComplete == Spec => []NothingStranded
  BY IInvHolds, PTL DEF IInv

\* The replay guard of a readable payload is never lost before the payload's
\* own retention period is over.
THEOREM GuardHolds == Spec => []GuardOutlivesPayload
  BY IInvHolds, PTL DEF IInv
=============================================================================
