---------------------------- MODULE UploadProofs ----------------------------
(***************************************************************************)
(* Upload for every number of runs, records, batches and consents: the     *)
(* outbox and the batches agree, an acknowledged batch was delivered, and  *)
(* only eligible records are staged, but for those a run judges by a       *)
(* profile log that has grown since it read it.                            *)
(***************************************************************************)
EXTENDS Upload, SequenceTheorems, WellFoundedInduction, TLAPS

-----------------------------------------------------------------------------
(* The strengthening. *)

\* The tables are within their bounds and a record names earlier rows only.
TablesSound ==
  /\ Len(log) <= MaxGeneration
  /\ Len(consents) <= MaxConsent
  /\ Len(records) <= MaxRecord
  /\ Len(batches) <= MaxBatch
  /\ \A k \in DOMAIN consents : consents[k].generation <= Len(log)
  /\ \A r \in DOMAIN records : /\ records[r].generation <= Len(log)
                               /\ records[r].granted <= Len(consents)
                               /\ records[r].parent < r

\* The event a record is about was captured under the same profile or an earlier one.
ParentsEarlier ==
  \A r \in DOMAIN records :
    HasParent(r) => records[records[r].parent].generation <= records[r].generation

\* What OnlyEligibleStaged says of the record of a row whose consent is of
\* generation g.
StagedSound(r, g) ==
  /\ r \in DOMAIN records
  /\ \A x \in Concerned(r) : /\ CapturedSince(x, g)
                             /\ r \notin overtaken => CapturedPersonal(x)

RowSound(r) ==
  /\ outbox[r].batch \in DOMAIN batches \cup {0}
  /\ outbox[r].state = "none" => outbox[r] = NoRow
  /\ outbox[r].state # "none" =>
       /\ outbox[r].consent \in DOMAIN consents
       /\ StagedSound(r, consents[outbox[r].consent].generation)

\* The locals of a run are consistent with the tables.
RunSound(x) ==
  /\ x \in Run
  /\ x.work \subseteq DOMAIN batches
  /\ x.pc = "retire" => x.work # {}
  /\ x.pc \in {"decide", "post", "wait", "ok", "rejected", "conflict"} => x.batch \in DOMAIN batches
  /\ x.pc = "ok" => x.batch \in delivered
  /\ x.live \subseteq DOMAIN consents
  /\ \A j, k \in x.live : consents[j].generation = consents[k].generation
  /\ x.pc \in {"renew", "history", "stage"} => x.live # {}
  /\ x.history <= Len(log)

IInv ==
  /\ TypeOK
  /\ TablesSound
  /\ ParentsEarlier
  /\ \A r \in Id : RowSound(r)
  /\ \A w \in Worker : RunSound(worker[w])
  /\ \A m \in net : m.batch \in DOMAIN batches
  /\ delivered \subseteq DOMAIN batches
  /\ LedgersAgree
  /\ AckedWasDelivered

-----------------------------------------------------------------------------
(* Least and greatest elements, and tables that only grow. *)

LEMMA MinIsLeast ==
  ASSUME NEW S \in SUBSET Nat, S # {}
  PROVE  Min(S) \in S /\ \A x \in S : Min(S) <= x
<1> DEFINE R == OpToRel(<, Nat)
<1>1. \E x \in S : \A y \in S : ~ (<<y, x>> \in R)
  <2>1. IsWellFoundedOn(R, Nat)
    BY NatLessThanWellFounded
  <2> HIDE DEF R
  <2> QED BY <2>1, WFMin
<1>2. \A x, y \in Nat : <<y, x>> \in R <=> y < x
  BY DEF OpToRel
<1>3. \E x \in S : \A y \in S : x <= y
  <2> HIDE DEF R
  <2>1. PICK x \in S : \A y \in S : ~ (<<y, x>> \in R)
    BY <1>1
  <2>2. \A y \in S : x \in Nat /\ y \in Nat /\ ~ (y < x)
    BY <1>2, <2>1
  <2> QED BY <2>2
<1> QED BY <1>3 DEF Min

LEMMA MaxIsElement ==
  ASSUME NEW n \in Nat, NEW S \in SUBSET (0 .. n), S # {}
  PROVE  Max(S) \in S
<1> DEFINE T == {n - x : x \in S}
<1>0. PICK z \in S : TRUE
  OBVIOUS
<1>1. T \in SUBSET Nat /\ n - z \in T
  <2>1. \A x \in S : x \in 0 .. n /\ n - x \in Nat
    OBVIOUS
  <2> QED BY <2>1
<1>2. Min(T) \in T /\ \A t \in T : Min(T) <= t
  <2> HIDE DEF T
  <2> QED BY <1>1, MinIsLeast
<1>3. PICK x \in S : Min(T) = n - x
  BY <1>2
<1>4. \A y \in S : x >= y
  <2> TAKE y \in S
  <2>1. n - x <= n - y
    BY <1>2, <1>3
  <2> QED BY <2>1
<1> QED BY <1>4 DEF Max

LEMMA SeqShape ==
  ASSUME NEW X, NEW s \in Seq(X)
  PROVE  Len(s) \in Nat /\ DOMAIN s = 1 .. Len(s) /\ \A i \in DOMAIN s : s[i] \in X
  OBVIOUS

\* What TypeOK says about the four tables that are sequences.
Shape ==
  /\ Len(log) \in Nat /\ DOMAIN log = 1 .. Len(log)
  /\ Len(consents) \in Nat /\ DOMAIN consents = 1 .. Len(consents)
  /\ Len(records) \in Nat /\ DOMAIN records = 1 .. Len(records)
  /\ \A r \in DOMAIN records : /\ records[r].parent \in Nat
                               /\ records[r].generation \in Nat
                               /\ records[r].granted \in Nat
  /\ Len(batches) \in Nat /\ DOMAIN batches = 1 .. Len(batches)

LEMMA ShapeNow ==
  ASSUME TypeOK
  PROVE  Shape
<1>1. /\ Len(log) \in Nat /\ DOMAIN log = 1 .. Len(log)
      /\ Len(consents) \in Nat /\ DOMAIN consents = 1 .. Len(consents)
      /\ Len(batches) \in Nat /\ DOMAIN batches = 1 .. Len(batches)
  BY SeqShape DEF TypeOK
<1>2. /\ Len(records) \in Nat /\ DOMAIN records = 1 .. Len(records)
      /\ \A r \in DOMAIN records : records[r] \in Record
  BY SeqShape DEF TypeOK
<1>3. \A r \in DOMAIN records : /\ records[r].parent \in Nat
                                 /\ records[r].generation \in Nat
                                 /\ records[r].granted \in Nat
  BY <1>2, LimitAssumption DEF Record
<1> QED BY <1>1, <1>2, <1>3 DEF Shape

LEMMA ShapeThen ==
  ASSUME TypeOK'
  PROVE  Shape'
<1>1. /\ Len(log') \in Nat /\ DOMAIN log' = 1 .. Len(log')
      /\ Len(consents') \in Nat /\ DOMAIN consents' = 1 .. Len(consents')
      /\ Len(batches') \in Nat /\ DOMAIN batches' = 1 .. Len(batches')
  BY SeqShape DEF TypeOK
<1>2. /\ Len(records') \in Nat /\ DOMAIN records' = 1 .. Len(records')
      /\ \A r \in DOMAIN records' : records'[r] \in Record
  BY SeqShape DEF TypeOK
<1>3. \A r \in DOMAIN records' : /\ records'[r].parent \in Nat
                                 /\ records'[r].generation \in Nat
                                 /\ records'[r].granted \in Nat
  BY <1>2, LimitAssumption DEF Record
<1> QED BY <1>1, <1>2, <1>3 DEF Shape

LEMMA BatchType ==
  ASSUME TypeOK, NEW b \in DOMAIN batches
  PROVE  batches[b] \in Batch /\ b \in Nat \ {0}
<1>1. batches \in Seq(Batch)
  BY DEF TypeOK
<1> QED BY <1>1, SeqShape

LEMMA ConsentType ==
  ASSUME TypeOK, NEW k \in DOMAIN consents
  PROVE  consents[k] \in Consent /\ k \in Nat \ {0}
<1>1. consents \in Seq(Consent)
  BY DEF TypeOK
<1> QED BY <1>1, SeqShape

\* No step takes back what a table says about the past.
Grown ==
  /\ DOMAIN batches \subseteq DOMAIN batches'
  /\ \A b \in DOMAIN batches : /\ batches'[b].members = batches[b].members
                               /\ batches'[b].consent = batches[b].consent
  /\ Len(log) <= Len(log')
  /\ \A i \in DOMAIN log : log'[i] = log[i]
  /\ Len(consents) <= Len(consents')
  /\ \A k \in DOMAIN consents : consents'[k].generation = consents[k].generation
  /\ DOMAIN records \subseteq DOMAIN records'
  /\ \A r \in DOMAIN records : records'[r] = records[r]
  /\ delivered \subseteq delivered'
  /\ overtaken \subseteq overtaken'

LEMMA ProfileKept ==
  ASSUME TypeOK, TypeOK', TablesSound, Grown, NEW g \in 0 .. Len(log)
  PROVE  ProfileAt(g)' = ProfileAt(g)
  BY DEF TypeOK, Grown, ProfileAt

LEMMA ConcernedRecords ==
  ASSUME TypeOK, TablesSound, NEW r \in DOMAIN records
  PROVE  Concerned(r) \subseteq DOMAIN records
  BY ShapeNow DEF Shape, TablesSound, Concerned

LEMMA CaptureKept ==
  ASSUME TypeOK, TypeOK', TablesSound, Grown, NEW x \in DOMAIN records
  PROVE  /\ \A g : CapturedSince(x, g) => CapturedSince(x, g)'
         /\ CapturedPersonal(x) => CapturedPersonal(x)'
<1>1. records'[x] = records[x] /\ records[x].generation \in 0 .. Len(log)
      /\ records[x].granted \in 0 .. Len(consents)
  BY ShapeNow DEF Shape, TablesSound, Grown
<1>2. ASSUME NEW g, CapturedSince(x, g) PROVE CapturedSince(x, g)'
  <2>1. PICK k \in 1 .. records[x].granted : consents[k].generation = g
    BY <1>2 DEF CapturedSince
  <2>2. k \in DOMAIN consents
    BY <1>1, ShapeNow DEF Shape
  <2>3. consents'[k].generation = g
    BY <2>1, <2>2 DEF Grown
  <2> QED BY <1>1, <2>1, <2>3 DEF CapturedSince
<1>3. CapturedPersonal(x) => CapturedPersonal(x)'
  BY <1>1, ProfileKept DEF CapturedPersonal
<1> QED BY <1>2, <1>3

LEMMA StagedKept ==
  ASSUME TypeOK, TypeOK', TablesSound, Grown, NEW g, NEW r, StagedSound(r, g)
  PROVE  StagedSound(r, g)'
<1>1. r \in DOMAIN records /\ r \in DOMAIN records' /\ records'[r] = records[r]
  BY DEF Grown, StagedSound
<1>2. Concerned(r)' = Concerned(r) /\ Concerned(r) \subseteq DOMAIN records
  BY <1>1, ConcernedRecords DEF Concerned
<1>3. \A x \in Concerned(r) : /\ CapturedSince(x, g)'
                              /\ r \notin overtaken' => CapturedPersonal(x)'
  BY <1>2, CaptureKept DEF StagedSound, Grown
<1>4. \A x \in Concerned(r)' : /\ CapturedSince(x, g)'
                               /\ r \notin overtaken' => CapturedPersonal(x)'
  BY <1>2, <1>3
<1> QED BY <1>1, <1>4 DEF StagedSound

LEMMA RunKept ==
  ASSUME TypeOK, TypeOK', TablesSound, Grown, NEW x, RunSound(x)
  PROVE  RunSound(x)'
<1>2. \A k \in x.live : k \in DOMAIN consents /\ k \in DOMAIN consents'
                        /\ consents'[k].generation = consents[k].generation
  BY DEF TypeOK, Grown, RunSound
<1>3. x.history <= Len(log')
  BY DEF TypeOK, Grown, RunSound, Run
<1> QED BY <1>2, <1>3 DEF Grown, RunSound

LEMMA RowKept ==
  ASSUME TypeOK, TypeOK', TablesSound, Grown, NEW r \in Id, RowSound(r),
         outbox'[r].consent = outbox[r].consent, outbox'[r].batch = outbox[r].batch,
         outbox[r].state = "none" => outbox'[r] = outbox[r],
         outbox[r].state # "none" => outbox'[r].state # "none"
  PROVE  RowSound(r)'
<1> SUFFICES ASSUME outbox[r].state # "none"
             PROVE  /\ outbox[r].consent \in DOMAIN consents'
                    /\ StagedSound(r, consents[outbox[r].consent].generation)'
  BY DEF RowSound, Grown
<1>1. /\ outbox[r].consent \in DOMAIN consents
      /\ StagedSound(r, consents[outbox[r].consent].generation)
  BY DEF RowSound
<1>2. /\ outbox[r].consent \in DOMAIN consents'
      /\ consents'[outbox[r].consent].generation = consents[outbox[r].consent].generation
  BY <1>1, ShapeNow, ShapeThen DEF Shape, Grown
<1>3. PICK g : g = consents[outbox[r].consent].generation
  OBVIOUS
<1>4. StagedSound(r, g)'
  BY <1>1, <1>3, StagedKept
<1> QED BY <1>2, <1>3, <1>4

\* What is left to show of a step: its new rows, batches, locals and requests.
LEMMA StepKeeps ==
  ASSUME IInv, TypeOK', Grown, TablesSound', ParentsEarlier', LedgersAgree', AckedWasDelivered',
         \A r \in Id : outbox'[r] = outbox[r] \/ RowSound(r)',
         \A w \in Worker : worker'[w] = worker[w] \/ RunSound(worker[w])',
         \A m \in net' \ net : m.batch \in DOMAIN batches',
         delivered' \ delivered \subseteq DOMAIN batches'
  PROVE  IInv'
<1> USE DEF IInv
<1>1. \A r \in Id : RowSound(r)'
  BY RowKept
<1>3. ASSUME NEW w \in Worker, worker'[w] = worker[w] PROVE RunSound(worker[w])'
  <2>1. PICK x : x = worker[w]
    OBVIOUS
  <2>2. RunSound(x)'
    BY <2>1, RunKept
  <2> QED BY <1>3, <2>1, <2>2 DEF RunSound
<1>4. (\A m \in net' : m.batch \in DOMAIN batches') /\ delivered' \subseteq DOMAIN batches'
  BY DEF Grown
<1> QED BY <1>1, <1>3, <1>4

\* A step that changes the locals of one run only.
LEMMA LocalKeeps ==
  ASSUME IInv, NEW w \in Worker, NEW x, RunSound(x), Local(w, x), started' \in 0 .. MaxRun,
         UNCHANGED <<egressVars, ledgerVars, remoteVars>>
  PROVE  IInv'
<1> USE DEF IInv, Local
<1>0. UNCHANGED <<log, consents, records, outbox, batches, net, delivered, overtaken>>
  BY DEF egressVars, ledgerVars, remoteVars
<1>1. TypeOK'
  <2>1. worker' \in [Worker -> Run]
    BY DEF TypeOK, RunSound
  <2> QED BY <1>0, <2>1 DEF TypeOK
<1>2. Grown
  BY <1>0, ShapeNow DEF Grown, Shape
<1>3. TablesSound' /\ ParentsEarlier'
  BY <1>0 DEF TablesSound, ParentsEarlier, HasParent
<1>4. LedgersAgree' /\ AckedWasDelivered'
  BY <1>0 DEF LedgersAgree, AckedWasDelivered, Rows
<1>5. worker'[w] = x /\ \A v \in Worker \ {w} : worker'[v] = worker[v]
  BY DEF TypeOK
<1>6. RunSound(x)'
  BY <1>1, <1>2, RunKept
<1> QED BY <1>0, <1>1, <1>2, <1>3, <1>4, <1>5, <1>6, StepKeeps

\* A step that changes the locals of a run and rows of the outbox in no batch.
LEMMA OutboxKeeps ==
  ASSUME IInv, NEW w \in Worker, NEW x, RunSound(x), Local(w, x), outbox' \in [Id -> Row],
         \A r \in Id : outbox'[r].batch = outbox[r].batch,
         \A r \in Id : outbox[r].batch # 0 => outbox'[r] = outbox[r],
         \A r \in Id : outbox'[r] = outbox[r] \/ RowSound(r)',
         overtaken \subseteq overtaken', overtaken' \subseteq Id,
         UNCHANGED <<started, egressVars, batches, remoteVars>>
  PROVE  IInv'
<1> USE DEF IInv, Local
<1>0. UNCHANGED <<log, consents, records, started, batches, net, delivered>>
  BY DEF egressVars, remoteVars
<1>1. TypeOK'
  <2>1. worker' \in [Worker -> Run]
    BY DEF TypeOK, RunSound
  <2> QED BY <1>0, <2>1 DEF TypeOK
<1>2. Grown
  BY <1>0, ShapeNow DEF Grown, Shape
<1>3. TablesSound' /\ ParentsEarlier' /\ AckedWasDelivered'
  BY <1>0 DEF TablesSound, ParentsEarlier, HasParent, AckedWasDelivered
<1>4. LedgersAgree'
  <2>1. \A b \in DOMAIN batches : \A r \in batches[b].members :
          r \in Id /\ outbox[r].batch = b /\ b # 0
    BY BatchType DEF LedgersAgree, Batch
  <2>2. \A b \in DOMAIN batches' : \A r \in batches'[b].members :
          outbox'[r].batch = b /\ outbox'[r].state = RowState(batches'[b].state)
    BY <1>0, <2>1 DEF LedgersAgree
  <2>3. \A r \in Id : outbox'[r].batch # 0 => r \in batches'[outbox'[r].batch].members
    BY <1>0 DEF LedgersAgree
  <2>4. \A r \in Id : outbox'[r].state \in {"pending", "expired", "none"} => outbox'[r].batch = 0
    BY DEF LedgersAgree, Rows
  <2> QED BY <2>2, <2>3, <2>4 DEF LedgersAgree, Rows
<1>5. worker'[w] = x /\ \A v \in Worker \ {w} : worker'[v] = worker[v]
  BY DEF TypeOK
<1>6. RunSound(x)'
  BY <1>1, <1>2, RunKept
<1> QED BY <1>0, <1>1, <1>2, <1>3, <1>4, <1>5, <1>6, StepKeeps

\* A batch is settled.
LEMMA SettleKeeps ==
  ASSUME IInv, NEW w \in Worker, NEW x, RunSound(x), Local(w, x),
         NEW b \in DOMAIN batches, NEW state \in {"acknowledged", "poison"},
         state = "acknowledged" => b \in delivered,
         Settle(b, state),
         UNCHANGED <<started, egressVars, remoteVars>>
  PROVE  IInv'
<1> USE DEF IInv, Local
<1>0. UNCHANGED <<log, consents, records, started, net, delivered, overtaken>>
  BY DEF egressVars, remoteVars, Settle
<1> DEFINE new == [batches[b] EXCEPT !.state = state]
<1>1. new \in Batch /\ new.state = state /\ batches' = [batches EXCEPT ![b] = new]
  BY BatchType DEF Batch, Settle
<1>2. /\ batches' \in Seq(Batch)
      /\ DOMAIN batches' = DOMAIN batches
      /\ Len(batches') = Len(batches)
      /\ batches'[b] = new
      /\ \A c \in DOMAIN batches \ {b} : batches'[c] = batches[c]
  BY <1>1, ExceptSeq, ShapeNow DEF Shape, TypeOK
<1>3. \A c \in DOMAIN batches : /\ batches'[c].members = batches[c].members
                                /\ batches'[c].consent = batches[c].consent
  BY <1>1, <1>2, BatchType DEF Batch
<1>4. \A r \in Id : /\ outbox[r] \in Row
                    /\ outbox'[r].consent = outbox[r].consent
                    /\ outbox'[r].batch = outbox[r].batch
                    /\ outbox'[r].state = IF outbox[r].batch = b THEN state ELSE outbox[r].state
  BY DEF Settle, TypeOK, Row
<1>5. outbox' \in [Id -> Row]
  BY DEF Settle, TypeOK, Row
<1>6. TypeOK'
  <2>1. worker' \in [Worker -> Run]
    BY DEF TypeOK, RunSound
  <2> QED BY <1>0, <1>2, <1>5, <2>1 DEF TypeOK
<1>7. Grown
  BY <1>0, <1>2, <1>3, ShapeNow DEF Grown, Shape
<1>8. TablesSound' /\ ParentsEarlier'
  BY <1>0, <1>2 DEF TablesSound, ParentsEarlier, HasParent
<1>9. AckedWasDelivered'
  BY <1>0, <1>1, <1>2 DEF AckedWasDelivered
<1>10. b # 0 /\ \A r \in Id : outbox[r].batch = b => outbox[r].state \notin {"pending", "expired", "none"}
  BY BatchType DEF LedgersAgree, Rows
<1>11. \A r \in Id : RowSound(r)'
  <2> TAKE r \in Id
  <2>1. outbox[r].batch # b => outbox'[r] = outbox[r]
    BY DEF Settle
  <2>2. /\ outbox[r].state = "none" => outbox'[r] = outbox[r]
        /\ outbox[r].state # "none" => outbox'[r].state # "none"
    BY <1>4, <1>10, <2>1
  <2> QED BY <1>4, <1>6, <1>7, <2>2, RowKept
<1>12. LedgersAgree'
  <2>1. \A c \in DOMAIN batches : \A r \in batches[c].members :
          r \in Id /\ outbox[r].batch = c
    BY BatchType DEF LedgersAgree, Batch
  <2>2. \A c \in DOMAIN batches' : \A r \in batches'[c].members :
          outbox'[r].batch = c /\ outbox'[r].state = RowState(batches'[c].state)
    BY <1>1, <1>2, <1>3, <1>4, <2>1 DEF LedgersAgree, RowState
  <2>3. \A r \in Id : outbox'[r].batch # 0 => r \in batches'[outbox'[r].batch].members
    <3>1. \A r \in Id : outbox[r].batch # 0 => r \in batches[outbox[r].batch].members
      BY DEF LedgersAgree
    <3>2. \A r \in Id : outbox[r].batch # 0 => outbox[r].batch \in DOMAIN batches
      BY DEF RowSound
    <3> QED BY <1>3, <1>4, <3>1, <3>2
  <2>4. \A r \in Id : outbox'[r].state \in {"pending", "expired", "none"} => outbox'[r].batch = 0
    BY <1>4 DEF LedgersAgree, Rows
  <2> QED BY <2>2, <2>3, <2>4 DEF LedgersAgree, Rows
<1>13. worker'[w] = x /\ \A v \in Worker \ {w} : worker'[v] = worker[v]
  BY DEF TypeOK
<1>14. RunSound(x)'
  BY <1>6, <1>7, RunKept
<1> QED BY <1>0, <1>2, <1>6, <1>7, <1>8, <1>9, <1>11, <1>12, <1>13, <1>14, StepKeeps

\* A step of the profile, the consents or the records.
LEMMA EgressKeeps ==
  ASSUME IInv, TypeOK', TablesSound', ParentsEarlier',
         Len(log) <= Len(log'), \A i \in DOMAIN log : log'[i] = log[i],
         Len(consents) <= Len(consents'),
         \A k \in DOMAIN consents : consents'[k].generation = consents[k].generation,
         DOMAIN records \subseteq DOMAIN records', \A r \in DOMAIN records : records'[r] = records[r],
         UNCHANGED <<ledgerVars, worker, remoteVars>>
  PROVE  IInv'
<1> USE DEF IInv
<1>0. UNCHANGED <<outbox, batches, worker, net, delivered, overtaken>>
  BY DEF ledgerVars, remoteVars
<1>1. Grown
  BY <1>0 DEF Grown
<1>2. LedgersAgree' /\ AckedWasDelivered'
  BY <1>0 DEF LedgersAgree, AckedWasDelivered, Rows
<1> QED BY <1>0, <1>1, <1>2, StepKeeps

\* A step of the network.
LEMMA RemoteKeeps ==
  ASSUME IInv, worker' \in [Worker -> Run],
         \A w \in Worker : worker'[w] = worker[w] \/ RunSound(worker[w])',
         net' \subseteq [from : Worker, batch : 1 .. MaxBatch],
         \A m \in net' \ net : m.batch \in DOMAIN batches,
         delivered \subseteq delivered', delivered' \subseteq 1 .. MaxBatch,
         delivered' \ delivered \subseteq DOMAIN batches,
         UNCHANGED <<started, egressVars, ledgerVars>>
  PROVE  IInv'
<1> USE DEF IInv
<1>0. UNCHANGED <<started, log, consents, records, outbox, batches, overtaken>>
  BY DEF ledgerVars, egressVars
<1>1. TypeOK'
  BY <1>0 DEF TypeOK
<1>2. Grown
  BY <1>0, ShapeNow DEF Grown, Shape
<1>3. TablesSound' /\ ParentsEarlier'
  BY <1>0 DEF TablesSound, ParentsEarlier, HasParent
<1>4. LedgersAgree' /\ AckedWasDelivered'
  BY <1>0 DEF LedgersAgree, AckedWasDelivered, Rows
<1> QED BY <1>0, <1>1, <1>2, <1>3, <1>4, StepKeeps

-----------------------------------------------------------------------------
(* The profile, the consents and the records. *)

LEMMA SetProfileKeeps ==
  ASSUME IInv, NEW p \in {"personal", "corporate"}, SetProfile(p)
  PROVE  IInv'
<1> USE DEF IInv
<1>0. UNCHANGED <<started, records, outbox, batches, worker, net, delivered, overtaken>>
  BY DEF SetProfile, ledgerVars, remoteVars
<1>1. /\ log' = Append(log, p)
      /\ log' \in Seq({"personal", "corporate"})
      /\ Len(log') = Len(log) + 1 /\ Len(log') <= MaxGeneration
      /\ \A i \in DOMAIN log : log'[i] = log[i]
      /\ log'[Len(log')] = p
  BY AppendProperties, ShapeNow, LimitAssumption DEF SetProfile, TypeOK, Shape
<1>2. /\ consents' \in Seq(Consent)
      /\ Len(consents') = Len(consents)
      /\ DOMAIN consents' = DOMAIN consents
      /\ \A k \in DOMAIN consents : consents'[k].generation = consents[k].generation
  <2>1. CASE p = "corporate"
    <3>1. consents' = [k \in 1 .. Len(consents) |-> [consents[k] EXCEPT !.revoked = TRUE]]
      BY <2>1, ShapeNow DEF SetProfile, Shape
    <3>2. \A k \in 1 .. Len(consents) :
            /\ [consents[k] EXCEPT !.revoked = TRUE] \in Consent
            /\ [consents[k] EXCEPT !.revoked = TRUE].generation = consents[k].generation
      BY ConsentType, ShapeNow DEF Consent, Shape
    <3> QED BY <3>1, <3>2, ShapeNow DEF Shape
  <2>2. CASE p # "corporate"
    BY <2>2 DEF SetProfile, TypeOK
  <2> QED BY <2>1, <2>2
<1>3. TypeOK'
  BY <1>0, <1>1, <1>2 DEF TypeOK
<1>4. TablesSound'
  BY <1>0, <1>1, <1>2, ShapeNow, ConsentType, LimitAssumption DEF TablesSound, Shape, Consent
<1>5. ParentsEarlier'
  BY <1>0 DEF ParentsEarlier, HasParent
<1> QED BY <1>0, <1>1, <1>2, <1>3, <1>4, <1>5, EgressKeeps, ShapeNow DEF Shape, ledgerVars, remoteVars

LEMMA GrantConsentKeeps ==
  ASSUME IInv, NEW g \in 1 .. Len(log), GrantConsent(g)
  PROVE  IInv'
<1> USE DEF IInv
<1>0. UNCHANGED <<started, log, records, outbox, batches, worker, net, delivered, overtaken>>
  BY DEF GrantConsent, ledgerVars, remoteVars
<1> DEFINE new == [generation |-> g, revoked |-> FALSE]
<1>1. new \in Consent
  BY ShapeNow, LimitAssumption DEF Consent, TablesSound, Shape
<1>2. /\ consents' = Append(consents, new)
      /\ consents' \in Seq(Consent)
      /\ Len(consents') = Len(consents) + 1 /\ Len(consents') <= MaxConsent
      /\ \A k \in DOMAIN consents : consents'[k] = consents[k]
      /\ consents'[Len(consents) + 1].generation = g
  BY <1>1, AppendProperties, ShapeNow, LimitAssumption DEF GrantConsent, TypeOK, Shape
<1>3. TypeOK'
  BY <1>0, <1>2 DEF TypeOK
<1>4. TablesSound'
  BY <1>0, <1>2, <1>3, ShapeNow, ShapeThen DEF TablesSound, Shape
<1>5. ParentsEarlier'
  BY <1>0 DEF ParentsEarlier, HasParent
<1> QED BY <1>0, <1>2, <1>3, <1>4, <1>5, EgressKeeps, ShapeNow DEF Shape, ledgerVars, remoteVars

LEMMA EndConsentKeeps ==
  ASSUME IInv, NEW k \in DOMAIN consents, EndConsent(k)
  PROVE  IInv'
<1> USE DEF IInv
<1>0. UNCHANGED <<started, log, records, outbox, batches, worker, net, delivered, overtaken>>
  BY DEF EndConsent, ledgerVars, remoteVars
<1> DEFINE new == [consents[k] EXCEPT !.revoked = TRUE]
<1>1. new \in Consent /\ new.generation = consents[k].generation
  BY ConsentType DEF Consent
<1>2. consents' = [consents EXCEPT ![k] = new]
  BY DEF EndConsent
<1>3. /\ consents' \in Seq(Consent)
      /\ Len(consents') = Len(consents)
      /\ DOMAIN consents' = DOMAIN consents
      /\ \A i \in DOMAIN consents : consents'[i].generation = consents[i].generation
  BY <1>1, <1>2, ExceptSeq, ShapeNow DEF Shape, TypeOK
<1>4. TypeOK'
  BY <1>0, <1>3 DEF TypeOK
<1>5. TablesSound' /\ ParentsEarlier'
  BY <1>0, <1>3 DEF TablesSound, ParentsEarlier, HasParent
<1> QED BY <1>0, <1>3, <1>4, <1>5, EgressKeeps, ShapeNow DEF Shape, ledgerVars, remoteVars

LEMMA CaptureKeeps ==
  ASSUME IInv, NEW parent \in {0} \cup DOMAIN records, Capture(parent)
  PROVE  IInv'
<1> USE DEF IInv
<1>0. UNCHANGED <<started, log, consents, outbox, batches, worker, net, delivered, overtaken>>
  BY DEF Capture, ledgerVars, remoteVars
<1> DEFINE new == [parent |-> parent, generation |-> Len(log), granted |-> Len(consents)]
<1>1. new \in Record
  BY ShapeNow, LimitAssumption DEF Record, TablesSound, Shape
<1>2. /\ records' = Append(records, new)
      /\ records' \in Seq(Record)
      /\ Len(records') = Len(records) + 1 /\ Len(records') <= MaxRecord
      /\ \A r \in DOMAIN records : records'[r] = records[r]
      /\ records'[Len(records) + 1] = new
  BY <1>1, AppendProperties, ShapeNow, LimitAssumption DEF Capture, TypeOK, Shape
<1>3. TypeOK'
  BY <1>0, <1>2 DEF TypeOK
<1>4. TablesSound'
  <2>1. \A r \in DOMAIN records' : /\ records'[r].generation <= Len(log)
                                   /\ records'[r].granted <= Len(consents)
                                   /\ records'[r].parent < r
    BY <1>2, <1>3, ShapeNow, ShapeThen DEF TablesSound, Shape
  <2> QED BY <1>0, <1>2, <2>1 DEF TablesSound
<1>5. ParentsEarlier'
  <2> SUFFICES ASSUME NEW r \in DOMAIN records', records'[r].parent # 0
               PROVE  records'[records'[r].parent].generation <= records'[r].generation
    BY DEF ParentsEarlier, HasParent
  <2>1. CASE r \in DOMAIN records
    <3>1. records[r].parent \in DOMAIN records
      BY <1>2, <2>1, ConcernedRecords DEF Concerned
    <3> QED BY <1>2, <2>1, <3>1 DEF ParentsEarlier, HasParent
  <2>2. CASE r = Len(records) + 1
    <3>1. parent \in DOMAIN records /\ records'[r] = new
      BY <1>2, <2>2
    <3> QED BY <1>2, <3>1 DEF TablesSound
  <2>3. r \in DOMAIN records \/ r = Len(records) + 1
    <3>1. DOMAIN records' = 1 .. Len(records') /\ DOMAIN records = 1 .. Len(records)
          /\ Len(records) \in Nat
      BY <1>3, ShapeNow, ShapeThen DEF Shape
    <3> QED BY <1>2, <3>1
  <2> QED BY <2>1, <2>2, <2>3
<1>6. DOMAIN records \subseteq DOMAIN records'
  BY <1>2, <1>3, ShapeNow, ShapeThen DEF Shape
<1> QED BY <1>0, <1>2, <1>3, <1>4, <1>5, <1>6, EgressKeeps, ShapeNow DEF Shape, ledgerVars, remoteVars

-----------------------------------------------------------------------------
(* The locals a step leaves. *)

LEMMA LiveSound ==
  ASSUME IInv
  PROVE  /\ Live \subseteq DOMAIN consents
         /\ Live \subseteq 0 .. MaxConsent
         /\ \A j, k \in Live : consents[j].generation = consents[k].generation
  BY ShapeNow, LimitAssumption DEF IInv, Live, Shape, TablesSound

LEMMA IdleSound ==
  ASSUME IInv
  PROVE  RunSound(Idle)
  BY ShapeNow, LimitAssumption DEF IInv, Idle, RunSound, Run, Shape

LEMMA SealedBatches == Sealed \subseteq DOMAIN batches
  BY DEF Sealed

LEMMA AfterStagingSound ==
  ASSUME IInv, NEW w \in Worker
  PROVE  RunSound([AfterStaging(w) EXCEPT !.work = {}])
<1>1. RunSound(worker[w])
  BY DEF IInv
<1>2. CASE worker[w].sends
  <2>1. [AfterStaging(w) EXCEPT !.work = {}]
          = [worker[w] EXCEPT !.pc = "unfinished", !.live = {}, !.work = {}]
    BY <1>1, <1>2 DEF AfterStaging, RunSound, Run
  <2> QED BY <1>1, <2>1 DEF RunSound, Run
<1>3. CASE ~ worker[w].sends
  <2>1. [AfterStaging(w) EXCEPT !.work = {}] = Idle
    BY <1>3 DEF AfterStaging, Idle
  <2> QED BY <2>1, IdleSound
<1> QED BY <1>2, <1>3

LEMMA RetiringSound ==
  ASSUME IInv, NEW w \in Worker, NEW S \in SUBSET DOMAIN batches
  PROVE  RunSound(Retiring(w, S))
<1>0. RunSound(worker[w]) /\ S \subseteq 1 .. MaxBatch
  BY ShapeNow, LimitAssumption DEF IInv, TablesSound, Shape
<1>1. CASE S # {}
  <2>1. Retiring(w, S) = [worker[w] EXCEPT !.pc = "retire", !.work = S]
    BY <1>1 DEF Retiring
  <2> QED BY <1>0, <1>1, <2>1 DEF RunSound, Run
<1>2. CASE S = {} /\ worker[w].live = {}
  <2>1. Retiring(w, S) = [AfterStaging(w) EXCEPT !.work = {}]
    BY <1>2 DEF Retiring
  <2> QED BY <2>1, AfterStagingSound
<1>3. CASE S = {} /\ worker[w].live # {}
  <2>1. PICK pc \in {"renew", "history"} :
          Retiring(w, S) = [worker[w] EXCEPT !.work = {}, !.pc = pc]
    BY <1>3 DEF Retiring
  <2> QED BY <1>0, <1>3, <2>1 DEF RunSound, Run
<1> QED BY <1>1, <1>2, <1>3

LEMMA ContinueSound ==
  ASSUME IInv, NEW w \in Worker, NEW S \in SUBSET DOMAIN batches
  PROVE  RunSound(Continue(w, S))
<1>0. RunSound(worker[w]) /\ S \subseteq 1 .. MaxBatch /\ S \subseteq 0 .. MaxBatch
  BY ShapeNow, LimitAssumption DEF IInv, TablesSound, Shape
<1>1. CASE S = {}
  <2>1. Continue(w, S) = [worker[w] EXCEPT !.pc = "next", !.batch = 0, !.work = {}]
    BY <1>1 DEF Continue
  <2>2. 0 \in 0 .. MaxBatch
    BY LimitAssumption
  <2>3. Continue(w, S) \in Run
    BY <1>0, <2>1, <2>2 DEF RunSound, Run
  <2> QED BY <1>0, <2>1, <2>3 DEF RunSound, Run
<1>2. CASE S # {}
  <2>1. Max(S) \in S
    BY <1>0, <1>2, MaxIsElement, LimitAssumption
  <2>2. Continue(w, S) = [worker[w] EXCEPT !.pc = "decide", !.batch = Max(S), !.work = S \ {Max(S)}]
    BY <1>2 DEF Continue
  <2> HIDE DEF Max
  <2> QED BY <1>0, <2>1, <2>2 DEF RunSound, Run
<1> QED BY <1>1, <1>2

-----------------------------------------------------------------------------
(* Staging. *)

LEMMA StartKeeps ==
  ASSUME IInv, NEW w \in Worker, NEW sends \in BOOLEAN, Start(w, sends)
  PROVE  IInv'
<1> DEFINE x == [Idle EXCEPT !.pc = IF sends THEN "consent" ELSE "live", !.sends = sends]
<1>1. RunSound(x)
  BY IdleSound DEF Idle, RunSound, Run
<1>2. started' \in 0 .. MaxRun
  BY LimitAssumption DEF IInv, TypeOK, Start
<1> QED BY <1>1, <1>2, LocalKeeps DEF Start

LEMMA ReadConsentKeeps ==
  ASSUME IInv, NEW w \in Worker, ReadConsent(w)
  PROVE  IInv'
<1>1. started' \in 0 .. MaxRun /\ UNCHANGED <<egressVars, ledgerVars, remoteVars>>
  BY DEF IInv, TypeOK, ReadConsent
<1>2. CASE Live = {}
  BY <1>1, <1>2, IdleSound, LocalKeeps DEF ReadConsent
<1>3. CASE Live # {}
  <2>1. Max(Live) \in 0 .. MaxConsent
    BY <1>3, LiveSound, MaxIsElement, LimitAssumption
  <2> DEFINE x == [worker[w] EXCEPT !.pc = "live", !.consent = Max(Live)]
  <2>2. RunSound(x)
    BY <2>1 DEF IInv, RunSound, Run
  <2> QED BY <1>1, <1>3, <2>2, LocalKeeps DEF ReadConsent
<1> QED BY <1>2, <1>3

LEMMA ReadLiveKeeps ==
  ASSUME IInv, NEW w \in Worker, ReadLive(w)
  PROVE  IInv'
<1> DEFINE x == [worker[w] EXCEPT !.pc = "pending", !.live = Live]
<1>1. started' \in 0 .. MaxRun /\ UNCHANGED <<egressVars, ledgerVars, remoteVars>>
  BY DEF IInv, TypeOK, ReadLive
<1>2. Live \subseteq 1 .. MaxConsent
  BY ShapeNow, LimitAssumption DEF IInv, TablesSound, Shape, Live
<1>3. RunSound(x)
  BY <1>2, LiveSound DEF IInv, RunSound, Run
<1> QED BY <1>1, <1>3, LocalKeeps DEF ReadLive

\* Rows that wait are in no batch.
LEMMA PendingFree ==
  ASSUME IInv, NEW r \in Rows("pending")
  PROVE  r \in Id /\ outbox[r] \in Row /\ outbox[r].state = "pending" /\ outbox[r].batch = 0
  BY DEF IInv, TypeOK, LedgersAgree, Rows

\* Rows in S, which were waiting, expire.
LEMMA ExpireKeeps ==
  ASSUME IInv, NEW w \in Worker, NEW x, RunSound(x), Local(w, x), NEW S \in SUBSET Rows("pending"),
         outbox' = [r \in Id |-> IF r \in S THEN [outbox[r] EXCEPT !.state = "expired"]
                                 ELSE outbox[r]],
         UNCHANGED <<started, egressVars, batches, overtaken, remoteVars>>
  PROVE  IInv'
<1>1. \A r \in Id : outbox[r] \in Row
  BY DEF IInv, TypeOK
<1>2. \A r \in Id : /\ outbox'[r] \in Row
                    /\ outbox'[r].batch = outbox[r].batch
                    /\ outbox'[r].consent = outbox[r].consent
  BY <1>1 DEF Row
<1>3. \A r \in Id : outbox[r].batch # 0 => outbox'[r] = outbox[r]
  BY PendingFree
<1>4. \A r \in S : RowSound(r)'
  <2> TAKE r \in S
  <2>1. RowSound(r) /\ outbox[r].state = "pending" /\ r \in Id
    BY PendingFree DEF IInv
  <2>2. UNCHANGED <<log, consents, records, batches, overtaken>>
    BY DEF egressVars
  <2>3. outbox'[r].state = "expired"
    BY <1>1, <2>1 DEF Row
  <2>4. PICK g : g = consents[outbox[r].consent].generation
    OBVIOUS
  <2>5. StagedSound(r, g)
    BY <2>1, <2>4 DEF RowSound
  <2>6. StagedSound(r, g)'
    BY <2>2, <2>5 DEF StagedSound, Concerned, CapturedSince, CapturedPersonal, ProfileAt
  <2>7. consents'[outbox'[r].consent].generation = g
    BY <1>2, <2>1, <2>2, <2>4
  <2> QED BY <1>2, <2>1, <2>2, <2>3, <2>6, <2>7 DEF RowSound
<1>5. \A r \in Id : outbox'[r] = outbox[r] \/ RowSound(r)'
  <2>1. \A r \in Id \ S : outbox'[r] = outbox[r]
    OBVIOUS
  <2> QED BY <1>4, <2>1
<1>6. overtaken \subseteq overtaken' /\ overtaken' \subseteq Id
  BY DEF IInv, TypeOK
<1> QED BY <1>2, <1>3, <1>5, <1>6, OutboxKeeps

LEMMA RetirePendingKeeps ==
  ASSUME IInv, NEW w \in Worker, RetirePending(w)
  PROVE  IInv'
<1> DEFINE x == [worker[w] EXCEPT !.pc = "sealed"]
           S == {r \in Rows("pending") : outbox[r].consent \notin worker[w].live}
<1>1. RunSound(x)
  BY DEF IInv, RunSound, Run
<1>2. outbox' = [r \in Id |-> IF r \in S THEN [outbox[r] EXCEPT !.state = "expired"]
                              ELSE outbox[r]]
  BY DEF RetirePending
<1> QED BY <1>1, <1>2, ExpireKeeps DEF RetirePending, Goto

LEMMA EnforceBoundKeeps ==
  ASSUME IInv, NEW w \in Worker, NEW S \in SUBSET Rows("pending"), EnforceBound(w, S)
  PROVE  IInv'
<1>1. RunSound(AfterStaging(w))
  <2>1. CASE worker[w].sends
    BY <2>1 DEF IInv, AfterStaging, RunSound, Run
  <2>2. CASE ~ worker[w].sends
    BY <2>2, IdleSound DEF AfterStaging
  <2> QED BY <2>1, <2>2
<1> QED BY <1>1, ExpireKeeps DEF EnforceBound

LEMMA ReadSealedKeeps ==
  ASSUME IInv, NEW w \in Worker, ReadSealed(w)
  PROVE  IInv'
<1> DEFINE S == {b \in Sealed : batches[b].consent \notin worker[w].live}
<1>1. started' \in 0 .. MaxRun /\ UNCHANGED <<egressVars, ledgerVars, remoteVars>>
  BY DEF IInv, TypeOK, ReadSealed
<1>2. RunSound(Retiring(w, S))
  BY SealedBatches, RetiringSound
<1> QED BY <1>1, <1>2, LocalKeeps DEF ReadSealed

LEMMA RetireBatchKeeps ==
  ASSUME IInv, NEW w \in Worker, RetireBatch(w)
  PROVE  IInv'
<1> DEFINE b == Min(worker[w].work)
<1>1. worker[w].work \in SUBSET Nat /\ worker[w].work # {} /\ worker[w].work \subseteq DOMAIN batches
  BY ShapeNow DEF RetireBatch, At, IInv, RunSound, Shape
<1>2. b \in DOMAIN batches
  BY <1>1, MinIsLeast
<1>3. RunSound(Retiring(w, worker[w].work \ {b}))
  BY <1>1, RetiringSound
<1> QED BY <1>2, <1>3, SettleKeeps DEF RetireBatch

LEMMA RenewKeeps ==
  ASSUME IInv, NEW w \in Worker, Renew(w)
  PROVE  IInv'
<1> DEFINE x == [worker[w] EXCEPT !.pc = "history"]
           L == worker[w].live
           S == {r \in Rows("pending") : outbox[r].consent \in L}
<1>0. RunSound(worker[w]) /\ L # {} /\ L \subseteq 0 .. MaxConsent
  BY DEF IInv, Renew, At, RunSound, Run
<1>1. RunSound(x)
  BY <1>0 DEF RunSound, Run
<1>2. Max(L) \in L
  BY <1>0, MaxIsElement, LimitAssumption
<1> HIDE DEF L
<1>3. outbox' = [r \in Id |-> IF r \in S THEN [outbox[r] EXCEPT !.consent = Max(L)] ELSE outbox[r]]
  BY DEF Renew, L
<1>4. \A r \in Id : outbox[r] \in Row
  BY DEF IInv, TypeOK
<1>5. \A r \in Id : /\ outbox'[r] \in Row
                    /\ outbox'[r].batch = outbox[r].batch
                    /\ outbox'[r].state = outbox[r].state
  BY <1>0, <1>2, <1>3, <1>4 DEF Row
<1>6. \A r \in Id : outbox[r].batch # 0 => outbox'[r] = outbox[r]
  BY <1>3, PendingFree
<1>7. \A r \in S : RowSound(r)'
  <2> TAKE r \in S
  <2>1. RowSound(r) /\ outbox[r] \in Row /\ outbox[r].state = "pending" /\ r \in Id
    BY PendingFree DEF IInv
  <2>2. UNCHANGED <<log, consents, records, batches, overtaken>>
    BY DEF Renew, egressVars
  <2>3. /\ outbox'[r].consent = Max(L)
        /\ Max(L) \in DOMAIN consents
        /\ consents[Max(L)].generation = consents[outbox[r].consent].generation
    BY <1>0, <1>2, <1>3, <2>1 DEF RunSound, L, Row
  <2>4. StagedSound(r, consents[Max(L)].generation)
    BY <2>1, <2>3 DEF RowSound
  <2>5. StagedSound(r, consents[outbox[r].consent].generation)'
    BY <2>2, <2>3, <2>4 DEF StagedSound, Concerned, CapturedSince, CapturedPersonal, ProfileAt
  <2> QED BY <1>5, <2>1, <2>2, <2>3, <2>5 DEF RowSound
<1>8. outbox' \in [Id -> Row] /\ \A r \in Id : outbox'[r] = outbox[r] \/ RowSound(r)'
  <2>1. \A r \in Id \ S : outbox'[r] = outbox[r]
    BY <1>3
  <2>2. outbox' \in [Id -> Row]
    BY <1>3, <1>5
  <2> HIDE DEF S
  <2> QED BY <1>7, <2>1, <2>2
<1>9. overtaken \subseteq overtaken' /\ overtaken' \subseteq Id
  BY DEF Renew, IInv, TypeOK
<1> QED BY <1>1, <1>5, <1>6, <1>8, <1>9, OutboxKeeps DEF Renew, Goto

LEMMA ReadHistoryKeeps ==
  ASSUME IInv, NEW w \in Worker, ReadHistory(w)
  PROVE  IInv'
<1> DEFINE x == [worker[w] EXCEPT !.pc = "stage", !.history = Len(log)]
<1>1. started' \in 0 .. MaxRun /\ UNCHANGED <<egressVars, ledgerVars, remoteVars>>
  BY DEF IInv, TypeOK, ReadHistory
<1>2. Len(log) \in 0 .. MaxGeneration
  BY ShapeNow, LimitAssumption DEF IInv, TablesSound, Shape
<1>3. RunSound(x)
  <2>1. RunSound(worker[w]) /\ worker[w].live # {}
    BY DEF IInv, RunSound, ReadHistory, At
  <2>2. x \in Run /\ x.history <= Len(log)
    <3>1. PICK h : h = Len(log)
      OBVIOUS
    <3>2. h \in 0 .. MaxGeneration /\ h <= Len(log)
      BY <1>2, <3>1, LimitAssumption
    <3>3. x = [worker[w] EXCEPT !.pc = "stage", !.history = h] /\ worker[w] \in Run
      BY <2>1, <3>1 DEF RunSound
    <3> HIDE DEF x
    <3> QED BY <3>2, <3>3 DEF Run
  <2> QED BY <2>1, <2>2 DEF RunSound, Run
<1> QED BY <1>1, <1>3, LocalKeeps DEF ReadHistory

\* What is eligible was captured since every consent that was read as live
\* and, unless the log has grown past what was read, under the personal profile.
LEMMA EligibleCaptured ==
  ASSUME IInv, NEW w \in Worker, worker[w].live # {}, NEW r \in DOMAIN records, Eligible(w, r),
         NEW k \in worker[w].live
  PROVE  /\ CapturedSince(r, consents[k].generation)
         /\ records[r].generation <= worker[w].history => CapturedPersonal(r)
<1> DEFINE L == worker[w].live
<1>0. RunSound(worker[w]) /\ L \in SUBSET Nat /\ L \subseteq DOMAIN consents
  BY ShapeNow DEF IInv, RunSound, Shape
<1>1. Min(L) \in L
  BY <1>0, MinIsLeast
<1>2. Min(L) \in 1 .. records[r].granted
  BY <1>0, <1>1, ShapeNow DEF IInv, Eligible, SinceConsent, Shape
<1>3. consents[Min(L)].generation = consents[k].generation
  BY <1>0, <1>1 DEF RunSound
<1>4. ASSUME records[r].generation <= worker[w].history PROVE CapturedPersonal(r)
  <2> DEFINE T == {records[r].generation, worker[w].history}
  <2>1. records[r].generation \in Nat /\ worker[w].history \in Nat
    BY <1>0, ShapeNow, LimitAssumption DEF IInv, RunSound, Run, Shape
  <2>2. Min(T) \in T /\ \A t \in T : Min(T) <= t
    <3>1. T \in SUBSET Nat /\ T # {}
      BY <2>1
    <3> HIDE DEF T
    <3> QED BY <3>1, MinIsLeast
  <2>3. Min(T) = records[r].generation
    <3> PICK m : m = Min(T)
      OBVIOUS
    <3>1. m \in {records[r].generation, worker[w].history} /\ m <= records[r].generation
      BY <2>2
    <3> QED BY <1>4, <2>1, <3>1
  <2> QED BY <2>3 DEF Eligible, CapturedPersonal
<1> QED BY <1>2, <1>3, <1>4 DEF CapturedSince

LEMMA StageKeeps ==
  ASSUME IInv, NEW w \in Worker, Stage(w)
  PROVE  IInv'
<1> DEFINE x == [worker[w] EXCEPT !.pc = "bound", !.live = {}, !.history = 0]
           L == worker[w].live
           S == Stageable(w)
           row == [NoRow EXCEPT !.state = "pending", !.consent = Max(L)]
<1>0. RunSound(worker[w]) /\ L # {} /\ L \subseteq 0 .. MaxConsent
  BY DEF IInv, Stage, At, RunSound, Run
<1>1. RunSound(x)
  <2>1. 0 \in 0 .. MaxGeneration /\ 0 <= Len(log)
    BY ShapeNow, LimitAssumption DEF IInv, Shape
  <2> QED BY <1>0, <2>1 DEF RunSound, Run
<1>2. Max(L) \in L
  BY <1>0, MaxIsElement, LimitAssumption
<1>3. /\ \A r \in S : r \in DOMAIN records /\ outbox[r] = NoRow /\ Eligible(w, r)
                      /\ (HasParent(r) => Eligible(w, records[r].parent))
      /\ S \subseteq Id
  BY ShapeNow, LimitAssumption DEF IInv, Stageable, Candidates, TablesSound, Shape, Id
<1>4. \A r \in S : \A y \in Concerned(r) :
        /\ CapturedSince(y, consents[Max(L)].generation)
        /\ records[r].generation <= worker[w].history => CapturedPersonal(y)
  <2> TAKE r \in S
  <2> TAKE y \in Concerned(r)
  <2>1. CASE y = r
    BY <1>0, <1>2, <1>3, <2>1, EligibleCaptured
  <2>2. CASE y # r
    <3>1. y = records[r].parent /\ HasParent(r)
      BY <2>2 DEF Concerned, HasParent
    <3>2. y \in DOMAIN records /\ Eligible(w, y)
      BY <1>3, <3>1, ConcernedRecords DEF IInv
    <3>3. records[y].generation <= records[r].generation
      BY <1>3, <3>1 DEF IInv, ParentsEarlier
    <3>4. /\ CapturedSince(y, consents[Max(L)].generation)
          /\ records[y].generation <= worker[w].history => CapturedPersonal(y)
      BY <1>0, <1>2, <3>2, EligibleCaptured
    <3>5. records[y].generation \in Nat /\ records[r].generation \in Nat /\ worker[w].history \in Nat
      BY <1>0, <1>3, <3>2, ShapeNow, LimitAssumption DEF IInv, RunSound, Run, Shape
    <3> QED BY <3>3, <3>4, <3>5
  <2> QED BY <2>1, <2>2
<1>5. row \in Row /\ row.state # "none" /\ row.batch = 0 /\ row.consent = Max(L) /\ Max(L) \in DOMAIN consents
  <2>1. Max(L) \in 0 .. MaxConsent /\ Max(L) \in DOMAIN consents
    <3>1. L \subseteq DOMAIN consents
      BY <1>0 DEF RunSound
    <3> HIDE DEF L
    <3> QED BY <1>0, <1>2, <3>1
  <2>2. NoRow \in Row /\ NoRow.batch = 0
    BY LimitAssumption DEF NoRow, Row
  <2> HIDE DEF L
  <2> QED BY <2>1, <2>2 DEF Row
<1> HIDE DEF L, S, row
<1>6. outbox' = [r \in Id |-> IF r \in S THEN row ELSE outbox[r]]
  BY DEF Stage, L, S, row
<1>7. /\ outbox' \in [Id -> Row]
      /\ \A r \in Id : outbox'[r].batch = outbox[r].batch
      /\ \A r \in Id : outbox[r].batch # 0 => outbox'[r] = outbox[r]
  <2>1. \A r \in Id : outbox[r] \in Row
    BY DEF IInv, TypeOK
  <2>2. NoRow.batch = 0
    BY DEF NoRow
  <2> QED BY <1>3, <1>5, <1>6, <2>1, <2>2
<1>8. overtaken \subseteq overtaken' /\ overtaken' \subseteq Id
  BY <1>3 DEF Stage, S, IInv, TypeOK
<1>9. \A r \in S : RowSound(r)'
  <2> TAKE r \in S
  <2>1. UNCHANGED <<log, consents, records, batches>>
    BY DEF Stage, egressVars
  <2>2. r \in Id /\ outbox'[r] = row
    BY <1>3, <1>6
  <2>3. r \notin overtaken' => records[r].generation <= worker[w].history
    <3>1. records[r].generation \in Nat /\ worker[w].history \in Nat
      BY <1>0, <1>3, ShapeNow, LimitAssumption DEF IInv, RunSound, Run, Shape
    <3>2. ~ (records[r].generation > worker[w].history) \/ r \in overtaken'
      BY DEF Stage, S
    <3> QED BY <3>1, <3>2
  <2>4. \A y \in Concerned(r) : /\ CapturedSince(y, consents[Max(L)].generation)
                                /\ r \notin overtaken' => CapturedPersonal(y)
    BY <1>4, <2>3
  <2>5. PICK g : g = consents[Max(L)].generation
    OBVIOUS
  <2>6. StagedSound(r, g)'
    BY <1>3, <2>1, <2>4, <2>5 DEF StagedSound, Concerned, CapturedSince, CapturedPersonal, ProfileAt
  <2>7. consents'[outbox'[r].consent].generation = g
    BY <1>5, <2>1, <2>2, <2>5
  <2> QED BY <1>5, <2>1, <2>2, <2>6, <2>7 DEF RowSound
<1>10. \A r \in Id : outbox'[r] = outbox[r] \/ RowSound(r)'
  BY <1>6, <1>9
<1> QED BY <1>1, <1>7, <1>8, <1>10, OutboxKeeps DEF Stage

-----------------------------------------------------------------------------
(* Sealing and sending. *)

LEMMA ReadUnfinishedKeeps ==
  ASSUME IInv, NEW w \in Worker, ReadUnfinished(w)
  PROVE  IInv'
<1>1. started' \in 0 .. MaxRun /\ UNCHANGED <<egressVars, ledgerVars, remoteVars>>
  BY DEF IInv, TypeOK, ReadUnfinished
<1>2. RunSound(Continue(w, Sealed))
  BY SealedBatches, ContinueSound
<1> QED BY <1>1, <1>2, LocalKeeps DEF ReadUnfinished

LEMMA LeaveKeeps ==
  ASSUME IInv, NEW w \in Worker, NothingToSend(w) \/ Stop(w)
  PROVE  IInv'
<1>1. started' \in 0 .. MaxRun /\ UNCHANGED <<egressVars, ledgerVars, remoteVars>>
  BY DEF IInv, TypeOK, NothingToSend, Stop
<1> QED BY <1>1, IdleSound, LocalKeeps DEF NothingToSend, Stop

LEMMA RetryKeeps ==
  ASSUME IInv, NEW w \in Worker, Retry(w)
  PROVE  IInv'
<1> DEFINE x == [worker[w] EXCEPT !.pc = "decide"]
<1>1. started' \in 0 .. MaxRun /\ UNCHANGED <<egressVars, ledgerVars, remoteVars>>
  BY DEF IInv, TypeOK, Retry
<1>2. RunSound(x)
  BY DEF IInv, RunSound, Run, Retry, At
<1> QED BY <1>1, <1>2, LocalKeeps DEF Retry, Goto

LEMMA DecideKeeps ==
  ASSUME IInv, NEW w \in Worker, Decide(w)
  PROVE  IInv'
<1> DEFINE x == [worker[w] EXCEPT !.pc = "post"]
<1>1. started' \in 0 .. MaxRun /\ UNCHANGED <<egressVars, ledgerVars, remoteVars>>
  BY DEF IInv, TypeOK, Decide
<1>2. CASE Live = {}
  BY <1>1, <1>2, IdleSound, LocalKeeps DEF Decide
<1>3. CASE Live # {}
  <2>1. RunSound(worker[w]) /\ worker[w].batch \in DOMAIN batches
    BY DEF IInv, RunSound, Decide, At
  <2>2. RunSound(x)
    BY <2>1 DEF RunSound, Run
  <2> QED BY <1>1, <1>3, <2>2, LocalKeeps DEF Decide, Goto
<1> QED BY <1>2, <1>3

LEMMA AcknowledgeKeeps ==
  ASSUME IInv, NEW w \in Worker, Acknowledge(w)
  PROVE  IInv'
<1>1. /\ worker[w].batch \in DOMAIN batches
      /\ worker[w].batch \in delivered
      /\ worker[w].work \subseteq DOMAIN batches
  BY DEF IInv, RunSound, Acknowledge, At
<1>2. RunSound(Continue(w, worker[w].work))
  BY <1>1, ContinueSound
<1> QED BY <1>1, <1>2, SettleKeeps DEF Acknowledge

LEMMA PoisonKeeps ==
  ASSUME IInv, NEW w \in Worker, Poison(w)
  PROVE  IInv'
<1>1. worker[w].batch \in DOMAIN batches
  BY DEF IInv, RunSound, Poison, At
<1> QED BY <1>1, IdleSound, SettleKeeps DEF Poison

LEMMA SealKeeps ==
  ASSUME IInv, NEW w \in Worker, Seal(w)
  PROVE  IInv'
<1> USE DEF IInv
<1> PICK n : n = Len(batches) + 1
  OBVIOUS
<1> PICK k : k = worker[w].consent
  OBVIOUS
<1> PICK x : x = [worker[w] EXCEPT !.pc = "decide", !.batch = n]
  OBVIOUS
<1> PICK M : M = Members(w)
  OBVIOUS
<1> DEFINE new == [consent |-> k, members |-> M, state |-> "sealed"]
<1>0. UNCHANGED <<log, consents, records, started, net, delivered, overtaken>>
  BY DEF Seal, egressVars, remoteVars
<1>1. /\ M # {}
      /\ \A r \in M : /\ r \in Id
                      /\ outbox[r] \in Row
                      /\ outbox[r].state = "pending"
                      /\ outbox[r].batch = 0
                      /\ outbox[r].consent = k
  BY PendingFree DEF Seal, Members
<1>2. k \in DOMAIN consents /\ \A r \in M : StagedSound(r, consents[k].generation)
  BY <1>1 DEF RowSound
<1>3. n \in 1 .. MaxBatch /\ n \in 0 .. MaxBatch /\ n \notin DOMAIN batches /\ k \in 1 .. MaxConsent
  <2>1. n \in Nat /\ 1 <= n /\ n <= MaxBatch /\ n \notin DOMAIN batches
    <3>1. Len(batches) < MaxBatch
      BY DEF Seal
    <3>2. Len(batches) \in Nat /\ DOMAIN batches = 1 .. Len(batches)
      BY ShapeNow DEF Shape
    <3> HIDE DEF IInv
    <3> QED BY <3>1, <3>2, LimitAssumption
  <2>2. k \in 1 .. MaxConsent
    BY <1>2, ShapeNow, LimitAssumption DEF TablesSound, Shape
  <2> QED BY <2>1, <2>2, LimitAssumption
<1>4. new \in Batch
  BY <1>1, <1>3 DEF Batch
<1>5. batches' = Append(batches, new)
  BY DEF Seal
<1>6. /\ batches' \in Seq(Batch)
      /\ Len(batches') = n
      /\ DOMAIN batches' = 1 .. n
      /\ \A b \in DOMAIN batches : batches'[b] = batches[b]
      /\ batches'[n] = new /\ new.state = "sealed"
  <2> HIDE DEF new
  <2>1. batches \in Seq(Batch)
    BY DEF TypeOK
  <2>2. /\ batches' \in Seq(Batch)
        /\ Len(batches') = n
        /\ \A b \in 1 .. Len(batches) : batches'[b] = batches[b]
        /\ batches'[n] = new
    BY <1>4, <1>5, <2>1, AppendProperties
  <2>3. new.state = "sealed"
    BY DEF new
  <2> QED BY <2>2, <2>3, SeqShape, ShapeNow DEF Shape
<1>7. outbox' = [r \in Id |-> IF r \in M THEN [outbox[r] EXCEPT !.state = "inflight", !.batch = n]
                              ELSE outbox[r]]
  BY DEF Seal
<1>8. /\ outbox' \in [Id -> Row]
      /\ \A r \in M : outbox'[r].state = "inflight" /\ outbox'[r].batch = n /\ outbox'[r].consent = k
      /\ \A r \in Id \ M : outbox'[r] = outbox[r]
  <2>1. \A r \in Id : outbox[r] \in Row
    BY DEF TypeOK
  <2>2. \A r \in M : /\ [outbox[r] EXCEPT !.state = "inflight", !.batch = n] \in Row
                     /\ [outbox[r] EXCEPT !.state = "inflight", !.batch = n].consent = k
                     /\ [outbox[r] EXCEPT !.state = "inflight", !.batch = n].batch = n
                     /\ [outbox[r] EXCEPT !.state = "inflight", !.batch = n].state = "inflight"
    BY <1>1, <1>3 DEF Row
  <2> QED BY <1>1, <1>7, <2>1, <2>2
<1>9. x \in Run /\ worker' = [worker EXCEPT ![w] = x]
  <2>1. worker[w] \in Run
    BY DEF TypeOK
  <2>2. x \in Run
    BY <1>3, <2>1 DEF Run
  <2> QED BY <2>2 DEF Seal, Local
<1>10. worker' \in [Worker -> Run] /\ worker'[w] = x /\ \A v \in Worker \ {w} : worker'[v] = worker[v]
  BY <1>9 DEF TypeOK
<1>11. TypeOK'
  BY <1>0, <1>6, <1>8, <1>10 DEF TypeOK
<1>12. DOMAIN batches \subseteq DOMAIN batches' /\ DOMAIN batches' = DOMAIN batches \cup {n}
  BY <1>6, ShapeNow DEF Shape
<1>13. Grown
  BY <1>0, <1>6, <1>12, ShapeNow DEF Grown, Shape
<1>14. TablesSound' /\ ParentsEarlier'
  BY <1>0, <1>3, <1>6 DEF TablesSound, ParentsEarlier, HasParent
<1>15. AckedWasDelivered'
  BY <1>0, <1>6, <1>12 DEF AckedWasDelivered
<1>17. \A r \in M : RowSound(r)'
  BY <1>0, <1>2, <1>6, <1>8, <1>12 DEF RowSound, StagedSound, Concerned, CapturedSince, CapturedPersonal, ProfileAt
<1>18. LedgersAgree'
  <2>1. \A b \in DOMAIN batches : \A r \in batches[b].members :
          r \in Id /\ outbox[r].batch = b /\ b # 0 /\ r \notin M
    BY <1>1, BatchType DEF LedgersAgree, Batch
  <2>2. \A b \in DOMAIN batches : \A r \in batches'[b].members :
          outbox'[r].batch = b /\ outbox'[r].state = RowState(batches'[b].state)
    BY <1>6, <1>8, <2>1 DEF LedgersAgree
  <2>3. \A r \in batches'[n].members :
          outbox'[r].batch = n /\ outbox'[r].state = RowState(batches'[n].state)
    BY <1>6, <1>8 DEF RowState
  <2>4. \A r \in Id : outbox'[r].batch # 0 => r \in batches'[outbox'[r].batch].members
    <3>1. \A r \in Id \ M : outbox[r].batch # 0 =>
            outbox[r].batch \in DOMAIN batches /\ r \in batches[outbox[r].batch].members
      BY DEF LedgersAgree, RowSound
    <3> QED BY <1>6, <1>8, <3>1
  <2>5. \A r \in Id : outbox'[r].state \in {"pending", "expired", "none"} => outbox'[r].batch = 0
    BY <1>8 DEF LedgersAgree, Rows
  <2> QED BY <1>12, <2>2, <2>3, <2>4, <2>5 DEF LedgersAgree, Rows
<1>19. RunSound(x)'
  <2>1. RunSound(worker[w])
    OBVIOUS
  <2>2. worker[w].live \subseteq DOMAIN consents
        /\ (\A i, j \in worker[w].live : consents[i].generation = consents[j].generation)
        /\ worker[w].work \subseteq DOMAIN batches /\ worker[w].history <= Len(log)
    BY <2>1 DEF RunSound
  <2>3. x.pc = "decide" /\ x.batch = n /\ x.live = worker[w].live /\ x.work = worker[w].work
        /\ x.history = worker[w].history
    BY <2>1 DEF RunSound, Run
  <2> QED BY <1>0, <1>9, <1>12, <2>2, <2>3 DEF RunSound
<1> QED BY <1>0, <1>8, <1>10, <1>11, <1>12, <1>13, <1>14, <1>15, <1>17, <1>18, <1>19, StepKeeps

LEMMA PostKeeps ==
  ASSUME IInv, NEW w \in Worker, Post(w)
  PROVE  IInv'
<1> DEFINE x == [worker[w] EXCEPT !.pc = "wait"]
           m == [from |-> w, batch |-> worker[w].batch]
<1>0. UNCHANGED <<started, log, consents, records, outbox, batches, delivered, overtaken>>
  BY DEF Post, egressVars, ledgerVars
<1>1. RunSound(worker[w]) /\ worker[w].batch \in DOMAIN batches /\ worker[w].batch \in 1 .. MaxBatch
  BY ShapeNow, LimitAssumption DEF IInv, RunSound, Post, At, TablesSound, Shape
<1>2. RunSound(x)
  BY <1>1 DEF RunSound, Run
<1>3. /\ worker' \in [Worker -> Run]
      /\ worker'[w] = x
      /\ \A v \in Worker \ {w} : worker'[v] = worker[v]
  BY <1>2 DEF Post, Goto, Local, IInv, TypeOK, RunSound
<1>4. RunSound(worker[w])'
  BY <1>0, <1>2, <1>3 DEF RunSound
<1>5. /\ net' = net \cup {m}
      /\ net' \subseteq [from : Worker, batch : 1 .. MaxBatch]
      /\ \A z \in net' \ net : z.batch \in DOMAIN batches
  BY <1>1 DEF Post, IInv, TypeOK
<1>6. delivered' \subseteq 1 .. MaxBatch
  BY <1>0 DEF IInv, TypeOK
<1> QED BY <1>0, <1>3, <1>4, <1>5, <1>6, RemoteKeeps DEF egressVars, ledgerVars

\* An answer moves the run that waits for it.
LEMMA AnswerKeeps ==
  ASSUME IInv, NEW m \in net, NEW pc \in {"ok", "rejected", "conflict"}, Answer(m, pc),
         net' = net \ {m}, delivered' = delivered \/ delivered' = delivered \cup {m.batch},
         pc = "ok" => m.batch \in delivered',
         UNCHANGED <<started, egressVars, ledgerVars>>
  PROVE  IInv'
<1> DEFINE w == m.from
           x == [worker[w] EXCEPT !.pc = pc]
<1>0. UNCHANGED <<started, log, consents, records, outbox, batches, overtaken>>
  BY DEF egressVars, ledgerVars
<1>1. w \in Worker /\ m.batch \in 1 .. MaxBatch /\ m.batch \in DOMAIN batches /\ RunSound(worker[w])
  BY DEF IInv, TypeOK
<1>2. /\ net' \subseteq [from : Worker, batch : 1 .. MaxBatch]
      /\ \A z \in net' \ net : z.batch \in DOMAIN batches
      /\ delivered \subseteq delivered' /\ delivered' \subseteq 1 .. MaxBatch
      /\ delivered' \ delivered \subseteq DOMAIN batches
  BY <1>1 DEF IInv, TypeOK
<1>3. CASE worker[w].pc = "wait" /\ worker[w].batch = m.batch
  <2>1. worker' = [worker EXCEPT ![w] = x]
    BY <1>3 DEF Answer
  <2>2. x \in Run
    BY <1>1 DEF RunSound, Run
  <2>3. /\ worker' \in [Worker -> Run]
        /\ worker'[w] = x
        /\ \A v \in Worker \ {w} : worker'[v] = worker[v]
    BY <1>1, <2>1, <2>2 DEF IInv, TypeOK
  <2>4. x.pc = pc /\ x.batch = m.batch /\ x.live = worker[w].live /\ x.work = worker[w].work
        /\ x.history = worker[w].history
    BY <1>1, <1>3 DEF RunSound, Run
  <2>5. /\ worker[w].live \subseteq DOMAIN consents
        /\ \A i, j \in worker[w].live : consents[i].generation = consents[j].generation
        /\ worker[w].work \subseteq DOMAIN batches
        /\ worker[w].history <= Len(log)
        /\ m.batch \in DOMAIN batches
    BY <1>1 DEF RunSound
  <2>6. RunSound(worker[w])'
    <3> HIDE DEF x
    <3> QED BY <1>0, <2>2, <2>3, <2>4, <2>5 DEF RunSound
  <2> QED BY <1>2, <2>3, <2>6, RemoteKeeps
<1>4. CASE ~ (worker[w].pc = "wait" /\ worker[w].batch = m.batch)
  <2>1. worker' = worker /\ worker \in [Worker -> Run]
    BY <1>4 DEF Answer, IInv, TypeOK
  <2> QED BY <1>2, <2>1, RemoteKeeps
<1> QED BY <1>3, <1>4

LEMMA LoseKeeps ==
  ASSUME IInv, NEW m \in net, Lose(m)
  PROVE  IInv'
  BY RemoteKeeps DEF Lose, IInv, TypeOK

-----------------------------------------------------------------------------
(* The theorems. *)

LEMMA InitSound ==
  ASSUME Init
  PROVE  IInv
<1> USE DEF Init
<1>1. /\ log \in Seq({"personal", "corporate"}) /\ Len(log) = 0 /\ DOMAIN log = {}
      /\ consents \in Seq(Consent) /\ Len(consents) = 0 /\ DOMAIN consents = {}
      /\ records \in Seq(Record) /\ Len(records) = 0 /\ DOMAIN records = {}
      /\ batches \in Seq(Batch) /\ Len(batches) = 0 /\ DOMAIN batches = {}
  OBVIOUS
<1>2. NoRow \in Row /\ Idle \in Run
  BY LimitAssumption DEF NoRow, Row, Idle, Run
<1>3. TypeOK
  BY <1>1, <1>2, LimitAssumption DEF TypeOK
<1>4. TablesSound /\ ParentsEarlier /\ AckedWasDelivered
  BY <1>1, LimitAssumption DEF TablesSound, ParentsEarlier, HasParent, AckedWasDelivered
<1>5. \A r \in Id : outbox[r] = NoRow /\ RowSound(r)
  BY DEF RowSound, NoRow
<1>6. \A w \in Worker : RunSound(worker[w])
  BY <1>1, <1>2 DEF RunSound, Idle
<1>7. LedgersAgree
  BY <1>1, <1>5 DEF LedgersAgree, NoRow, Rows
<1> QED BY <1>1, <1>3, <1>4, <1>5, <1>6, <1>7 DEF IInv

LEMMA NextKeeps ==
  ASSUME IInv, [Next]_vars
  PROVE  IInv'
<1>1. CASE Egress
  <2>1. CASE \E p \in {"personal", "corporate"} : SetProfile(p)
    BY <2>1, SetProfileKeeps
  <2>2. CASE \E g \in 1 .. Len(log) : GrantConsent(g)
    BY <2>2, GrantConsentKeeps
  <2>3. CASE \E k \in DOMAIN consents : EndConsent(k)
    BY <2>3, EndConsentKeeps
  <2>4. CASE \E parent \in {0} \cup {r \in DOMAIN records : ~ HasParent(r)} : Capture(parent)
    BY <2>4, CaptureKeeps
  <2> QED BY <1>1, <2>1, <2>2, <2>3, <2>4 DEF Egress
<1>2. ASSUME NEW w \in Worker, Staging(w) PROVE IInv'
  BY <1>2, StartKeeps, ReadConsentKeeps, ReadLiveKeeps, RetirePendingKeeps, ReadSealedKeeps,
     RetireBatchKeeps, RenewKeeps, ReadHistoryKeeps, StageKeeps, EnforceBoundKeeps DEF Staging
<1>3. ASSUME NEW w \in Worker, Sending(w) PROVE IInv'
  BY <1>3, ReadUnfinishedKeeps, SealKeeps, LeaveKeeps, DecideKeeps, PostKeeps, AcknowledgeKeeps,
     PoisonKeeps, RetryKeeps DEF Sending
<1>4. ASSUME NEW m \in net, Receive(m) PROVE IInv'
  BY <1>4, AnswerKeeps DEF Receive
<1>5. ASSUME NEW m \in net, NEW pc \in {"rejected", "conflict"}, Reject(m, pc) PROVE IInv'
  BY <1>5, AnswerKeeps DEF Reject
<1>6. CASE Receiver
  BY <1>4, <1>5, <1>6, LoseKeeps DEF Receiver
<1>7. CASE UNCHANGED vars
  <2>1. UNCHANGED <<started, egressVars, ledgerVars, worker, net, delivered>>
    BY <1>7 DEF vars, egressVars, ledgerVars
  <2> QED BY <2>1, RemoteKeeps DEF IInv, TypeOK
<1> QED BY <1>1, <1>2, <1>3, <1>6, <1>7 DEF Next

LEMMA Invariance == Spec => []IInv
  BY InitSound, NextKeeps, PTL DEF Spec

\* Tables, locals and requests keep their shape, and all references between
\* them lead somewhere.
THEOREM UploadTypeCorrect == Spec => []TypeOK
<1>1. IInv => TypeOK
  BY DEF IInv
<1> QED BY <1>1, Invariance, PTL

\* The outbox and the batches agree, beside late answers, retirements by
\* another run and runs that stop anywhere (acknowledge_upload_batch and
\* poison_upload_batch against stage_upload_records).
THEOREM LedgersAlwaysAgree == Spec => []LedgersAgree
<1>1. IInv => LedgersAgree
  BY DEF IInv
<1> QED BY <1>1, Invariance, PTL

\* What is marked acknowledged was delivered (send_batch).
THEOREM AcknowledgedIsDelivered == Spec => []AckedWasDelivered
<1>1. IInv => AckedWasDelivered
  BY DEF IInv
<1> QED BY <1>1, Invariance, PTL

\* Only eligible records are ever staged (the first guarantee of upload.rs),
\* whatever is granted, revoked or switched between the reads of a run, but
\* for the records of a profile the run has not read (stage_upload_records).
THEOREM StagedIsEligible == Spec => []OnlyEligibleStaged
<1>1. IInv => OnlyEligibleStaged
  <2> SUFFICES ASSUME IInv, NEW r \in Id, outbox[r] # NoRow
               PROVE  \A x \in Concerned(r) :
                        /\ CapturedSince(x, consents[outbox[r].consent].generation)
                        /\ r \notin overtaken => CapturedPersonal(x)
    BY DEF OnlyEligibleStaged
  <2> QED BY DEF IInv, RowSound, StagedSound
<1> QED BY <1>1, Invariance, PTL

=============================================================================
