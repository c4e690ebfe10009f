------------------------- MODULE VerdictPathProofs -------------------------
(***************************************************************************)
(* Proofs about VerdictPath, for every set of claims, evidence rows,       *)
(* providers and concurrent callers.                                       *)
(*                                                                         *)
(* That an evidence row has one owner holds without conditions.  That no   *)
(* row supports claims of two turns needs, besides, that every reference   *)
(* a run has already passed to record_consumption is owned by a claim of   *)
(* its own turn or could not be written (PassedAreOwned).  This fails when *)
(* a 'quarantined' row of the same claim swallows the insert; the theorem  *)
(* therefore assumes a session with one adapter, where the admission of a  *)
(* row never changes (AdmissionSettled).                                   *)
(***************************************************************************)
EXTENDS VerdictPath, TLAPS

\* The rows that admission_decision accepts whatever has been announced, and
\* the stored rows that it does not.
Admissible ==
    {e \in Evidence : \/ origin[e] \in {"DaemonAcquisition", "PrivilegedExecutor"}
                      \/ origin[e] = "UdsIngest" /\ e \in Authorized}
Refusable == {e \in Evidence : origin[e] # "Absent" /\ e \notin Admissible}

\* Runs read stored rows and cite admissible ones, and only others are ever
\* quarantined.
AdmissionSettled ==
    /\ \A e \in Evidence, c \in Claim : <<e, c>> \in quarantined => e \in Refusable
    /\ \A w \in Worker : pc[w] = "admitting" => pool[w] \subseteq Admissible \cup Refusable
    /\ \A w \in Worker :
         pc[w] \in {"recording", "concluded"}
           => pool[w] \subseteq Admissible /\ rejected[w] \subseteq Refusable

\* The finding in hand cites rows of the pool; without one nothing is cited.
CitesInHand ==
    \A w \in Worker : /\ todo[w] \subseteq cites[w]
                      /\ pc[w] = "concluded" => cites[w] \subseteq pool[w]
                      /\ pc[w] # "concluded" => cites[w] = {}

\* Some claim of the turn `anchor' owns e.
OwnedByTurn(e, anchor) ==
    \E c \in Claim : <<e, c>> \in consumed /\ AnchorOf[c] = anchor

\* Owned by the turn, unless the consumption record could not be written.
Accounted(e, anchor) == e \in unrecorded \/ OwnedByTurn(e, anchor)

\* Unless a replay was met, the rows already passed to record_consumption
\* belong to the turn of the claim.
PassedAreOwned ==
    \A w \in Worker :
        pc[w] = "concluded" /\ w \notin replayed
          => \A e \in cites[w] \ todo[w] : Accounted(e, AnchorOf[job[w]])

\* So do the rows that a stored Verified finding cites.
VerifiedAreOwned ==
    \A f \in findings :
        f.verdict = "Verified" => \A e \in f.cites : Accounted(e, AnchorOf[f.claim])

\* The evidence that claim ingest has admitted is still admissible.
IngestPoolAdmitted ==
    pc[Ingest] \in {"recording", "concluded"} => \A e \in pool[Ingest] : Admits(e)

OwnerInv == TypeOK /\ SingleOwner
TurnInv == OwnerInv /\ CitesInHand /\ AdmissionSettled /\ PassedAreOwned /\ VerifiedAreOwned
IngestInv == TypeOK /\ CitesInHand /\ IngestPoolAdmitted

-----------------------------------------------------------------------------
(* Type correctness *)

USE DEF Worker, InsertEvidence, InsertClaim, UpsertCapabilities, CacheCapabilities, Fault

\* The initial state has the declared types.
LEMMA InitType == Init => TypeOK
  BY MaxFaultsType DEF Init, TypeOK, Origin

\* A step of a run keeps the types of the state.
LEMMA RunStepType ==
  ASSUME TypeOK, NEW w \in Worker, RunStep(w)
  PROVE  TypeOK'
<1> USE MaxFaultsType DEF TypeOK, tables, history
<1>1. CASE ReadEvidence(w)
  BY <1>1 DEF ReadEvidence
<1>2. CASE ReadOwner(w)
  BY <1>2 DEF ReadOwner
<1>3. ASSUME NEW e \in Evidence, RecordAdmissionQuarantine(w, e)
      PROVE  TypeOK'
  BY <1>3 DEF RecordAdmissionQuarantine
<1>4. ASSUME NEW e \in Evidence, RecordQuarantineFails(w, e)
      PROVE  TypeOK'
  BY <1>4 DEF RecordQuarantineFails
<1>5. ASSUME NEW S \in SUBSET Evidence, Conclude(w, S)
      PROVE  TypeOK'
  BY <1>5 DEF Conclude
<1>6. ASSUME NEW e \in Evidence, RecordConsumption(w, e)
      PROVE  TypeOK'
  BY <1>6 DEF RecordConsumption, InsertConsumed
<1>7. ASSUME NEW e \in Evidence, RecordConsumptionFails(w, e)
      PROVE  TypeOK'
  BY <1>7 DEF RecordConsumptionFails
<1>8. CASE InsertFinding(w)
  <2>1. FinalVerdict(w) \in {"Verified", "NotVerified"}
    BY DEF FinalVerdict
  <2>2. job[w] \in Claim /\ left[w] > 0
    BY <1>8 DEF InsertFinding
  <2>3. NewFinding(w) \in Finding
    BY <2>1, <2>2 DEF Finding, NewFinding
  <2>4. findings' \subseteq Finding
    BY <1>8, <2>3 DEF InsertFinding
  <2>5. left' \in [Worker -> Nat]
    BY <1>8, <2>2 DEF InsertFinding
  <2> QED
    BY <1>8, <2>4, <2>5 DEF InsertFinding
<1>9. CASE EndRun(w)
  BY <1>9 DEF EndRun, Leave
<1>10. CASE Abort(w)
  BY <1>10 DEF Abort, Leave
<1> QED
  BY <1>1, <1>2, <1>3, <1>4, <1>5, <1>6, <1>7, <1>8, <1>9, <1>10 DEF RunStep

\* Every step keeps the types of the state.
LEMMA StepType == TypeOK /\ [Next]_vars => TypeOK'
<1> SUFFICES ASSUME TypeOK, [Next]_vars
             PROVE  TypeOK'
  OBVIOUS
<1> USE DEF TypeOK, history
<1>1. ASSUME NEW e \in Evidence, IngestEvidence(e) \/ ExecutorEvidence(e)
      PROVE  TypeOK'
  BY <1>1, OriginsType DEF IngestEvidence, ExecutorEvidence, locals, Origin
<1>2. ASSUME NEW p \in Adapters, Announce(p)
      PROVE  TypeOK'
  BY <1>2 DEF Announce, locals
<1>3. ASSUME NEW c \in Claim, IngestClaim(c)
      PROVE  TypeOK'
  BY <1>3, VerifiersType DEF IngestClaim, BeginRun
<1>4. ASSUME NEW h \in Caller, NEW c \in Claim, Reverify(h, c)
      PROVE  TypeOK'
  BY <1>4, VerifiersType DEF Reverify, BeginRun, tables
<1>5. ASSUME NEW h \in Caller, NEW c \in Claim, NEW e \in Evidence, AcquireEvidence(h, c, e)
      PROVE  TypeOK'
  BY <1>5, VerifiersType, OriginsType DEF AcquireEvidence, BeginRun, Origin
<1>6. ASSUME NEW w \in Worker, RunStep(w)
      PROVE  TypeOK'
  BY <1>6, RunStepType
<1>7. CASE Restart
  BY <1>7, MaxFaultsType DEF Restart, tables
<1>8. CASE UNCHANGED vars
  BY <1>8 DEF vars
<1> QED
  BY <1>1, <1>2, <1>3, <1>4, <1>5, <1>6, <1>7, <1>8 DEF Next

\* The tables and the runs always have their declared types; in particular the
\* verifier loop never runs past the verifiers that apply to the claim.
THEOREM TypeCorrect == Spec => []TypeOK
<1>1. Init => TypeOK
  BY InitType
<1>2. TypeOK /\ [Next]_vars => TypeOK'
  BY StepType
<1> QED
  BY <1>1, <1>2, PTL DEF Spec

-----------------------------------------------------------------------------
(* One owner per evidence row *)

\* Only these two actions write evidence_consumption.
LEMMA StepTables ==
  ASSUME TypeOK, Next,
         \A w \in Worker, e \in Evidence :
            ~RecordAdmissionQuarantine(w, e) /\ ~RecordConsumption(w, e)
  PROVE  UNCHANGED <<consumed, quarantined>>
<1>1. ASSUME NEW w \in Worker, RunStep(w)
      PROVE  UNCHANGED <<consumed, quarantined>>
  BY <1>1 DEF RunStep, ReadEvidence, ReadOwner, RecordQuarantineFails, Conclude,
     RecordConsumptionFails, InsertFinding, EndRun, Abort, Leave, tables
<1> QED
  BY <1>1 DEF Next, IngestEvidence, ExecutorEvidence, Announce, IngestClaim, Reverify,
     AcquireEvidence, Restart, tables

\* Every step leaves each evidence row with at most one owner.
LEMMA StepOwner == OwnerInv /\ [Next]_vars => SingleOwner'
<1> SUFFICES ASSUME OwnerInv, [Next]_vars
             PROVE  SingleOwner'
  OBVIOUS
<1> USE DEF OwnerInv, OwnersOf, SingleOwner
<1>1. ASSUME NEW w \in Worker, NEW e \in Evidence, RecordAdmissionQuarantine(w, e)
      PROVE  SingleOwner'
  BY <1>1 DEF RecordAdmissionQuarantine
<1>2. ASSUME NEW w \in Worker, NEW e \in Evidence, RecordConsumption(w, e)
      PROVE  SingleOwner'
  <2>1. CASE OwnersOf(e) = {} /\ <<e, job[w]>> \notin quarantined
    <3>1. consumed' = consumed \cup {<<e, job[w]>>} /\ quarantined' = quarantined
      BY <1>2, <2>1 DEF RecordConsumption, InsertConsumed
    <3>2. ASSUME NEW x \in Evidence, NEW c \in Claim, NEW d \in Claim,
                 <<x, c>> \in consumed', <<x, d>> \in consumed'
          PROVE  c = d
      BY <3>1, <3>2, <2>1
    <3> QED
      BY <2>1, <3>1, <3>2
  <2>2. CASE ~(OwnersOf(e) = {} /\ <<e, job[w]>> \notin quarantined)
    <3>1. consumed' = consumed /\ quarantined' = quarantined
      BY <1>2, <2>2 DEF RecordConsumption, InsertConsumed
    <3> QED
      BY <3>1
  <2> QED
    BY <2>1, <2>2
<1>3. CASE UNCHANGED <<consumed, quarantined>>
  BY <1>3
<1> QED
  BY <1>1, <1>2, <1>3, StepTables DEF vars

\* However the runs interleave, abort and fail to write, record_consumption
\* never gives an evidence row a second owner and never lets a row be owned and
\* quarantined for the same claim.
THEOREM OwnershipIsSingle == Spec => []SingleOwner
<1>1. Init => OwnerInv
  BY InitType DEF Init, OwnerInv, SingleOwner, OwnersOf
<1>2. OwnerInv /\ [Next]_vars => OwnerInv'
  BY StepType, StepOwner DEF OwnerInv
<1>3. OwnerInv => SingleOwner
  BY DEF OwnerInv
<1> QED
  BY <1>1, <1>2, <1>3, PTL DEF Spec

-----------------------------------------------------------------------------
(* What a run cites *)

\* Findings cite rows of the pool they were computed from.
LEMMA StepCites == TypeOK /\ CitesInHand /\ [Next]_vars => CitesInHand'
<1> SUFFICES ASSUME TypeOK, CitesInHand, [Next]_vars
             PROVE  CitesInHand'
  OBVIOUS
<1> USE DEF TypeOK, CitesInHand
<1>1. ASSUME NEW w \in Worker, RunStep(w)
      PROVE  CitesInHand'
  <2>1. CASE ReadEvidence(w)
    BY <2>1 DEF ReadEvidence
  <2>2. CASE ReadOwner(w)
    BY <2>2 DEF ReadOwner
  <2>3. ASSUME NEW e \in Evidence, RecordAdmissionQuarantine(w, e)
        PROVE  CitesInHand'
    BY <2>3 DEF RecordAdmissionQuarantine
  <2>4. ASSUME NEW e \in Evidence, RecordQuarantineFails(w, e)
        PROVE  CitesInHand'
    BY <2>4 DEF RecordQuarantineFails
  <2>5. ASSUME NEW S \in SUBSET Evidence, Conclude(w, S)
        PROVE  CitesInHand'
    BY <2>5 DEF Conclude
  <2>6. ASSUME NEW e \in Evidence, RecordConsumption(w, e)
        PROVE  CitesInHand'
    BY <2>6 DEF RecordConsumption
  <2>7. ASSUME NEW e \in Evidence, RecordConsumptionFails(w, e)
        PROVE  CitesInHand'
    BY <2>7 DEF RecordConsumptionFails
  <2>8. CASE InsertFinding(w)
    BY <2>8 DEF InsertFinding
  <2>9. CASE EndRun(w) \/ Abort(w)
    BY <2>9 DEF EndRun, Abort, Leave
  <2> QED
    BY <1>1, <2>1, <2>2, <2>3, <2>4, <2>5, <2>6, <2>7, <2>8, <2>9 DEF RunStep
<1>2. ASSUME NEW w \in Worker, NEW c \in Claim, pc[w] = "idle", BeginRun(w, c)
      PROVE  CitesInHand'
  BY <1>2 DEF BeginRun
<1>3. CASE UNCHANGED locals
  BY <1>3 DEF locals
<1>4. CASE Restart
  BY <1>4 DEF Restart
<1> QED
  BY <1>1, <1>2, <1>3, <1>4 DEF Next, vars, IngestEvidence, ExecutorEvidence, Announce,
     IngestClaim, Reverify, AcquireEvidence, LockFree, locals

-----------------------------------------------------------------------------
(* No evidence across turns *)

\* With one adapter the announcements do not matter to admission.
LEMMA AdmissionConstant ==
  ASSUME OneAdapter, TypeOK, NEW e \in Evidence
  PROVE  Admits(e) <=> e \in Admissible
<1>1. PICK p \in Provider : /\ Adapters = {p}
                            /\ \A x \in Evidence : SourceProvider[x] \in {p, NoProvider}
  BY DEF OneAdapter
<1>2. announced = {} \/ announced = {p}
  BY <1>1 DEF TypeOK
<1>3. OwnerAllows(e)
  BY <1>1, <1>2 DEF OwnerAllows
<1> QED
  BY <1>3 DEF Admits, Admissible

\* A stored row keeps its origin, and no other table says where it is from.
LEMMA OriginStays ==
  ASSUME TypeOK, [Next]_vars
  PROVE  /\ \A e \in Evidence : origin[e] # "Absent" => origin'[e] = origin[e]
         /\ Admissible \subseteq Admissible' /\ Refusable \subseteq Refusable'
<1>1. ASSUME NEW w \in Worker, RunStep(w)
      PROVE  origin' = origin
  BY <1>1 DEF RunStep, ReadEvidence, ReadOwner, RecordAdmissionQuarantine,
     RecordQuarantineFails, Conclude, RecordConsumption, RecordConsumptionFails,
     InsertFinding, EndRun, Abort, Leave, tables
<1>2. \A e \in Evidence : origin[e] # "Absent" => origin'[e] = origin[e]
  BY <1>1 DEF TypeOK, Next, vars, IngestEvidence, ExecutorEvidence, Announce, IngestClaim,
     Reverify, AcquireEvidence, Restart, tables
<1> QED
  BY <1>2 DEF Admissible, Refusable

\* With one adapter, what is admissible stays admissible.
LEMMA StepSettled ==
  ASSUME OneAdapter, TypeOK, AdmissionSettled, [Next]_vars
  PROVE  AdmissionSettled'
<1>0. Admissible \subseteq Admissible' /\ Refusable \subseteq Refusable'
  BY OriginStays
<1> USE <1>0 DEF TypeOK, AdmissionSettled
<1>1. ASSUME NEW w \in Worker, RunStep(w)
      PROVE  AdmissionSettled'
  <2>1. CASE ReadEvidence(w)
    <3>1. pool'[w] \subseteq Admissible \cup Refusable
      BY <2>1 DEF ReadEvidence, Refusable
    <3> QED
      BY <2>1, <3>1 DEF ReadEvidence, tables
  <2>2. CASE ReadOwner(w)
    <3>1. \A e \in Evidence : Admits(e) <=> e \in Admissible
      BY AdmissionConstant
    <3>2. /\ pool'[w] \subseteq Admissible
          /\ rejected'[w] \subseteq Refusable
      BY <2>2, <3>1 DEF ReadOwner
    <3>3. \A v \in Worker \ {w} : /\ pc'[v] = pc[v]
                                  /\ pool'[v] = pool[v]
                                  /\ rejected'[v] = rejected[v]
      BY <2>2 DEF ReadOwner
    <3>4. quarantined' = quarantined
      BY <2>2 DEF ReadOwner, tables
    <3> QED
      BY <3>2, <3>3, <3>4
  <2>3. ASSUME NEW e \in Evidence, RecordAdmissionQuarantine(w, e)
        PROVE  AdmissionSettled'
    BY <2>3 DEF RecordAdmissionQuarantine
  <2>4. ASSUME NEW e \in Evidence, RecordQuarantineFails(w, e)
        PROVE  AdmissionSettled'
    BY <2>4 DEF RecordQuarantineFails, tables
  <2>5. ASSUME NEW S \in SUBSET Evidence, Conclude(w, S)
        PROVE  AdmissionSettled'
    BY <2>5 DEF Conclude, tables
  <2>6. ASSUME NEW e \in Evidence, RecordConsumption(w, e)
        PROVE  AdmissionSettled'
    BY <2>6 DEF RecordConsumption
  <2>7. ASSUME NEW e \in Evidence, RecordConsumptionFails(w, e)
        PROVE  AdmissionSettled'
    BY <2>7 DEF RecordConsumptionFails, tables
  <2>8. CASE InsertFinding(w)
    BY <2>8 DEF InsertFinding
  <2>9. CASE EndRun(w) \/ Abort(w)
    BY <2>9 DEF EndRun, Abort, Leave, tables
  <2> QED
    BY <1>1, <2>1, <2>2, <2>3, <2>4, <2>5, <2>6, <2>7, <2>8, <2>9 DEF RunStep
<1>2. ASSUME NEW w \in Worker, NEW c \in Claim, BeginRun(w, c), quarantined' = quarantined
      PROVE  AdmissionSettled'
  BY <1>2 DEF BeginRun
<1>3. CASE UNCHANGED <<locals, quarantined>>
  BY <1>3 DEF locals
<1>4. CASE Restart
  BY <1>4 DEF Restart, tables
<1> QED
  BY <1>1, <1>2, <1>3, <1>4 DEF Next, vars, IngestEvidence, ExecutorEvidence, Announce,
     IngestClaim, Reverify, AcquireEvidence, locals, tables

\* Ownership is never taken away, and a failed record is not forgotten.
LEMMA OwnedStays ==
  ASSUME [Next]_vars
  PROVE  consumed \subseteq consumed' /\ unrecorded \subseteq unrecorded'
<1>1. ASSUME NEW w \in Worker, RunStep(w)
      PROVE  consumed \subseteq consumed' /\ unrecorded \subseteq unrecorded'
  BY <1>1 DEF RunStep, ReadEvidence, ReadOwner, RecordAdmissionQuarantine,
     RecordQuarantineFails, Conclude, RecordConsumption, InsertConsumed,
     RecordConsumptionFails, InsertFinding, EndRun, Abort, Leave, tables, history
<1> QED
  BY <1>1 DEF Next, vars, IngestEvidence, ExecutorEvidence, Announce, IngestClaim, Reverify,
     AcquireEvidence, Restart, tables, history

\* record_consumption either meets a replay or leaves the row to the claim's
\* own turn: nothing that is admissible was quarantined, so a fresh insert
\* always takes.
LEMMA ConsumptionOwns ==
  ASSUME TypeOK, AdmissionSettled, CitesInHand,
         NEW w \in Worker, NEW e \in Evidence, RecordConsumption(w, e), w \notin replayed'
  PROVE  OwnedByTurn(e, AnchorOf[job[w]])'
<1>1. e \in Admissible /\ job[w] \in Claim /\ job' = job
  BY DEF RecordConsumption, CitesInHand, AdmissionSettled, TypeOK
<1>2. ~IsReplay(e, job[w])
  BY DEF RecordConsumption
<1>3. CASE OwnersOf(e) = {}
  <2>1. <<e, job[w]>> \notin quarantined
    BY <1>1 DEF AdmissionSettled, Refusable
  <2>2. <<e, job[w]>> \in consumed'
    BY <1>3, <2>1 DEF RecordConsumption, InsertConsumed
  <2> QED
    BY <1>1, <2>2 DEF OwnedByTurn
<1>4. CASE OwnersOf(e) # {}
  <2>1. PICK d \in Claim : <<e, d>> \in consumed
    BY <1>4 DEF OwnersOf
  <2>2. AnchorOf[d] = AnchorOf[job[w]]
    BY <1>2, <2>1 DEF IsReplay, OwnersOf
  <2>3. <<e, d>> \in consumed'
    BY <2>1 DEF RecordConsumption, InsertConsumed
  <2> QED
    BY <1>1, <2>2, <2>3 DEF OwnedByTurn
<1> QED
  BY <1>3, <1>4

\* What a run has passed to record_consumption stays owned by its turn.
LEMMA StepPassed ==
  ASSUME TypeOK, CitesInHand, AdmissionSettled, PassedAreOwned, [Next]_vars
  PROVE  PassedAreOwned'
<1> SUFFICES ASSUME NEW v \in Worker, pc'[v] = "concluded", v \notin replayed',
                    NEW x \in cites'[v] \ todo'[v]
             PROVE  Accounted(x, AnchorOf[job[v]])'
  BY DEF PassedAreOwned
<1>1. ASSUME pc[v] = "concluded", v \notin replayed, x \in cites[v] \ todo[v], job'[v] = job[v]
      PROVE  Accounted(x, AnchorOf[job[v]])'
  <2>1. Accounted(x, AnchorOf[job[v]])
    BY <1>1 DEF PassedAreOwned
  <2>2. consumed \subseteq consumed' /\ unrecorded \subseteq unrecorded'
    BY OwnedStays
  <2> QED
    BY <1>1, <2>1, <2>2 DEF Accounted, OwnedByTurn
<1> USE DEF TypeOK
<1>2. ASSUME NEW w \in Worker, RunStep(w)
      PROVE  Accounted(x, AnchorOf[job[v]])'
  <2>1. ASSUME NEW S \in SUBSET Evidence, Conclude(w, S)
        PROVE  Accounted(x, AnchorOf[job[v]])'
    <3>1. v # w
      BY <2>1 DEF Conclude
    <3> QED
      BY <1>1, <2>1, <3>1 DEF Conclude
  <2>2. ASSUME NEW e \in Evidence, RecordConsumption(w, e)
        PROVE  Accounted(x, AnchorOf[job[v]])'
    <3>1. CASE v = w /\ x = e
      BY <2>2, <3>1, ConsumptionOwns DEF Accounted
    <3>2. CASE ~(v = w /\ x = e)
      BY <1>1, <2>2, <3>2 DEF RecordConsumption
    <3> QED
      BY <3>1, <3>2
  <2>3. CASE InsertFinding(w)
    BY <1>1, <2>3 DEF InsertFinding
  <2>4. CASE EndRun(w) \/ Abort(w)
    BY <1>1, <2>4 DEF EndRun, Abort, Leave
  <2>5. CASE ReadEvidence(w) \/ ReadOwner(w)
    BY <1>1, <2>5 DEF ReadEvidence, ReadOwner
  <2>6. ASSUME NEW e \in Evidence, RecordAdmissionQuarantine(w, e)
        PROVE  Accounted(x, AnchorOf[job[v]])'
    BY <1>1, <2>6 DEF RecordAdmissionQuarantine
  <2>7. ASSUME NEW e \in Evidence, RecordConsumptionFails(w, e)
        PROVE  Accounted(x, AnchorOf[job[v]])'
    <3>1. CASE v = w /\ x = e
      BY <2>7, <3>1 DEF RecordConsumptionFails, Accounted
    <3>2. CASE ~(v = w /\ x = e)
      BY <1>1, <2>7, <3>2 DEF RecordConsumptionFails
    <3> QED
      BY <3>1, <3>2
  <2>8. ASSUME NEW e \in Evidence, RecordQuarantineFails(w, e)
        PROVE  Accounted(x, AnchorOf[job[v]])'
    BY <1>1, <2>8 DEF RecordQuarantineFails
  <2> QED
    BY <1>2, <2>1, <2>2, <2>3, <2>4, <2>5, <2>6, <2>7, <2>8 DEF RunStep
<1>3. ASSUME NEW w \in Worker, NEW c \in Claim, pc[w] = "idle", BeginRun(w, c)
      PROVE  Accounted(x, AnchorOf[job[v]])'
  BY <1>1, <1>3 DEF BeginRun
<1>4. CASE UNCHANGED locals
  BY <1>1, <1>4 DEF locals
<1>5. CASE Restart
  BY <1>5 DEF Restart
<1> QED
  BY <1>2, <1>3, <1>4, <1>5 DEF Next, vars, IngestEvidence, ExecutorEvidence, Announce,
     IngestClaim, Reverify, AcquireEvidence, LockFree, locals

\* A finding is stored Verified only when all it cites belongs to its turn.
LEMMA StepVerified ==
  ASSUME TypeOK, CitesInHand, PassedAreOwned, VerifiedAreOwned, [Next]_vars
  PROVE  VerifiedAreOwned'
<1>1. ASSUME NEW f \in findings, f.verdict = "Verified", NEW e \in f.cites
      PROVE  Accounted(e, AnchorOf[f.claim])'
  BY <1>1, OwnedStays DEF VerifiedAreOwned, Accounted, OwnedByTurn
<1>2. ASSUME NEW w \in Worker, InsertFinding(w)
      PROVE  VerifiedAreOwned'
  <2> DEFINE g == NewFinding(w)
  <2>1. consumed' = consumed /\ unrecorded' = unrecorded /\ findings' = findings \cup {g}
    BY <1>2 DEF InsertFinding, history
  <2>2. ASSUME g.verdict = "Verified", NEW e \in g.cites
        PROVE  Accounted(e, AnchorOf[g.claim])
    <3>1. w \notin replayed /\ e \in cites[w] /\ g.claim = job[w]
      BY <2>2 DEF FinalVerdict, NewFinding
    <3>2. pc[w] = "concluded" /\ e \in cites[w] \ todo[w]
      BY <1>2, <3>1 DEF InsertFinding
    <3> QED
      BY <3>1, <3>2 DEF PassedAreOwned
  <2>3. \A f \in findings' : f.verdict = "Verified" =>
          \A e \in f.cites : Accounted(e, AnchorOf[f.claim])
    BY <2>1, <2>2 DEF VerifiedAreOwned
  <2> QED
    BY <2>1, <2>3 DEF VerifiedAreOwned, Accounted, OwnedByTurn
<1>3. ASSUME findings' = findings
      PROVE  VerifiedAreOwned'
  BY <1>1, <1>3 DEF VerifiedAreOwned
<1>4. ASSUME NEW w \in Worker, RunStep(w), ~InsertFinding(w)
      PROVE  findings' = findings
  BY <1>4 DEF RunStep, ReadEvidence, ReadOwner, RecordAdmissionQuarantine,
     RecordQuarantineFails, Conclude, RecordConsumption, RecordConsumptionFails,
     EndRun, Abort, Leave, tables
<1> QED
  BY <1>2, <1>3, <1>4 DEF Next, vars, IngestEvidence, ExecutorEvidence, Announce, IngestClaim,
     Reverify, AcquireEvidence, Restart, tables

\* In a session with one adapter no evidence row whose consumption was recorded
\* supports Verified findings of two turns, however many re-verifications,
\* acquisitions and ingested claims race, whichever other records cannot be
\* written and wherever a run stops half way.
THEOREM NoEvidenceAcrossTurns ==
  ASSUME OneAdapter
  PROVE  Spec => []NoCrossAnchorVerified
<1>1. Init => TurnInv
  BY InitType DEF Init, TurnInv, OwnerInv, SingleOwner, OwnersOf, CitesInHand,
     AdmissionSettled, PassedAreOwned, VerifiedAreOwned
<1>2. TurnInv /\ [Next]_vars => TurnInv'
  BY StepType, StepOwner, StepCites, StepSettled, StepPassed, StepVerified
     DEF TurnInv, OwnerInv
<1>3. TurnInv => NoCrossAnchorVerified
  <2> SUFFICES ASSUME TurnInv,
                      NEW f \in findings, NEW g \in findings,
                      f.verdict = "Verified", g.verdict = "Verified",
                      (f.cites \cap g.cites) \ unrecorded # {}
               PROVE  AnchorOf[f.claim] = AnchorOf[g.claim]
    BY DEF NoCrossAnchorVerified
  <2>1. PICK e \in f.cites : e \in g.cites /\ e \notin unrecorded
    OBVIOUS
  <2>2. e \in Evidence
    BY <2>1 DEF TurnInv, OwnerInv, TypeOK, Finding
  <2>3. PICK c \in Claim : <<e, c>> \in consumed /\ AnchorOf[c] = AnchorOf[f.claim]
    BY <2>1 DEF TurnInv, VerifiedAreOwned, Accounted, OwnedByTurn
  <2>4. PICK d \in Claim : <<e, d>> \in consumed /\ AnchorOf[d] = AnchorOf[g.claim]
    BY <2>1 DEF TurnInv, VerifiedAreOwned, Accounted, OwnedByTurn
  <2>5. c = d
    BY <2>2, <2>3, <2>4 DEF TurnInv, OwnerInv, SingleOwner, OwnersOf
  <2> QED
    BY <2>3, <2>4, <2>5
<1> QED
  BY <1>1, <1>2, <1>3, PTL DEF Spec

-----------------------------------------------------------------------------
(* Claim ingest and the announcements *)

\* Between the admission read of an ingested claim and the end of its run
\* nothing is announced.
LEMMA StepIngestPool ==
  ASSUME TypeOK, IngestPoolAdmitted, [Next]_vars
  PROVE  IngestPoolAdmitted'
<1>0. ASSUME UNCHANGED announced, NEW e \in Evidence, Admits(e)
      PROVE  Admits(e)'
  BY <1>0, OriginStays DEF Admits, OwnerAllows
<1> USE DEF TypeOK
<1>1. ASSUME UNCHANGED announced, pc[Ingest] \in {"recording", "concluded"},
             pool'[Ingest] = pool[Ingest]
      PROVE  IngestPoolAdmitted'
  BY <1>0, <1>1 DEF IngestPoolAdmitted
<1>2. ASSUME NEW w \in Worker, RunStep(w)
      PROVE  IngestPoolAdmitted'
  <2>1. UNCHANGED announced
    BY <1>2 DEF RunStep, ReadEvidence, ReadOwner, RecordAdmissionQuarantine,
       RecordQuarantineFails, Conclude, RecordConsumption, RecordConsumptionFails,
       InsertFinding, EndRun, Abort, Leave, tables
  <2>2. CASE ReadOwner(w)
    <3>1. CASE w = Ingest
      <4>1. \A e \in pool'[Ingest] : Admits(e)
        BY <2>2, <3>1 DEF ReadOwner
      <4> QED
        BY <1>0, <2>1, <2>2, <4>1 DEF IngestPoolAdmitted, ReadOwner
    <3>2. CASE w # Ingest
      <4>1. pool'[Ingest] = pool[Ingest] /\ pc'[Ingest] = pc[Ingest]
        BY <2>2, <3>2 DEF ReadOwner
      <4> QED
        BY <1>1, <2>1, <4>1 DEF IngestPoolAdmitted
    <3> QED
      BY <3>1, <3>2
  <2>3. CASE ~ReadOwner(w)
    <3>1. pc'[Ingest] \in {"recording", "concluded"}
            => pc[Ingest] \in {"recording", "concluded"} /\ pool'[Ingest] = pool[Ingest]
      BY <1>2, <2>3 DEF RunStep, ReadEvidence, RecordAdmissionQuarantine,
         RecordQuarantineFails, Conclude, RecordConsumption, RecordConsumptionFails,
         InsertFinding, EndRun, Abort, Leave
    <3> QED
      BY <1>1, <2>1, <3>1 DEF IngestPoolAdmitted
  <2> QED
    BY <2>2, <2>3
<1>3. ASSUME NEW p \in Adapters, Announce(p)
      PROVE  IngestPoolAdmitted'
  BY <1>3 DEF Announce, LockFree, IngestPoolAdmitted, locals
<1>4. ASSUME NEW w \in Worker, NEW c \in Claim, BeginRun(w, c), UNCHANGED announced
      PROVE  IngestPoolAdmitted'
  <2>1. pc'[Ingest] \in {"recording", "concluded"}
          => pc[Ingest] \in {"recording", "concluded"} /\ pool'[Ingest] = pool[Ingest]
    BY <1>4 DEF BeginRun
  <2> QED
    BY <1>1, <1>4, <2>1 DEF IngestPoolAdmitted
<1>5. CASE UNCHANGED <<locals, announced>>
  BY <1>1, <1>5 DEF IngestPoolAdmitted, locals
<1>6. CASE Restart
  BY <1>6 DEF Restart, IngestPoolAdmitted
<1> QED
  BY <1>2, <1>3, <1>4, <1>5, <1>6 DEF Next, vars, IngestEvidence, ExecutorEvidence, IngestClaim,
     Reverify, AcquireEvidence, locals, tables

\* A Verified finding of claim ingest cites only evidence that is admissible
\* when it is stored, for every set of racing callers: AppState::processing is
\* held from the admission read to the insert.
THEOREM IngestAdmissionHolds == Spec => IngestAdmissionStable
<1>1. Init => IngestInv
  BY InitType DEF Init, IngestInv, CitesInHand, IngestPoolAdmitted
<1>2. IngestInv /\ [Next]_vars => IngestInv'
  BY StepType, StepCites, StepIngestPool DEF IngestInv
<1>3. IngestInv /\ [Next]_vars
        => [\A f \in findings' \ findings :
              f.verdict = "Verified" /\ pc[Ingest] = "concluded" /\ pc'[Ingest] # "concluded"
                => \A e \in f.cites : Admits(e)]_vars
  <2> SUFFICES ASSUME IngestInv, Next,
                      NEW f \in findings' \ findings,
                      pc[Ingest] = "concluded", pc'[Ingest] # "concluded",
                      NEW e \in f.cites
               PROVE  Admits(e)
    OBVIOUS
  <2> USE DEF IngestInv, TypeOK
  <2>1. PICK w \in Worker : InsertFinding(w)
    BY DEF Next, RunStep, ReadEvidence, ReadOwner, RecordAdmissionQuarantine,
       RecordQuarantineFails, Conclude, RecordConsumption, RecordConsumptionFails,
       EndRun, Abort, Leave, IngestEvidence, ExecutorEvidence, Announce, IngestClaim, Reverify,
       AcquireEvidence, Restart, tables
  <2>2. w = Ingest
    BY <2>1 DEF InsertFinding
  <2>3. f.cites \subseteq cites[Ingest]
    BY <2>1, <2>2 DEF InsertFinding, NewFinding
  <2>4. e \in pool[Ingest]
    BY <2>3 DEF CitesInHand
  <2> QED
    BY <2>4 DEF IngestPoolAdmitted
<1> QED
  BY <1>1, <1>2, <1>3, PTL DEF Spec, IngestAdmissionStable
-----------------------------------------------------------------------------
(* Claim ingest and the verifiers *)

\* A stored claim is judged, or its own run still has a verifier to run.
JudgedOrUnderWay ==
    \A c \in claims \ aborted :
        Verifiers[c] > 0 =>
          \/ \E f \in findings : f.claim = c
          \/ pc[Ingest] # "idle" /\ job[Ingest] = c /\ left[Ingest] > 0

\* No step leaves a stored claim neither judged nor under way.
LEMMA StepJudged ==
  ASSUME TypeOK, JudgedOrUnderWay, [Next]_vars
  PROVE  JudgedOrUnderWay'
<1> USE DEF TypeOK, JudgedOrUnderWay
<1>1. ASSUME NEW w \in Worker, RunStep(w)
      PROVE  JudgedOrUnderWay'
  <2>1. CASE InsertFinding(w)
    <3>1. /\ claims' = claims /\ aborted' = aborted /\ findings' = findings \cup {NewFinding(w)}
          /\ job' = job
          /\ \A v \in Worker \ {w} : pc'[v] = pc[v] /\ left'[v] = left[v]
      BY <2>1 DEF InsertFinding, history
    <3>2. NewFinding(w).claim = job[w]
      BY DEF NewFinding
    <3> QED
      BY <3>1, <3>2
  <2>2. CASE EndRun(w)
    BY <2>2 DEF EndRun, Leave, tables, history
  <2>3. CASE Abort(w)
    BY <2>3 DEF Abort, Leave, tables, history
  <2>4. ASSUME claims' = claims, aborted' = aborted, findings' = findings,
               job' = job, left' = left,
               \A v \in Worker : pc[v] # "idle" => pc'[v] # "idle"
        PROVE  JudgedOrUnderWay'
    BY <2>4
  <2>5. CASE ReadEvidence(w) \/ ReadOwner(w)
    BY <2>4, <2>5 DEF ReadEvidence, ReadOwner, tables, history
  <2>6. ASSUME NEW e \in Evidence,
               \/ RecordAdmissionQuarantine(w, e) \/ RecordQuarantineFails(w, e)
               \/ RecordConsumption(w, e) \/ RecordConsumptionFails(w, e)
        PROVE  JudgedOrUnderWay'
    BY <2>4, <2>6 DEF RecordAdmissionQuarantine, RecordQuarantineFails, RecordConsumption,
       RecordConsumptionFails, tables, history
  <2>7. ASSUME NEW S \in SUBSET Evidence, Conclude(w, S)
        PROVE  JudgedOrUnderWay'
    BY <2>4, <2>7 DEF Conclude, tables, history
  <2> QED
    BY <1>1, <2>1, <2>2, <2>3, <2>5, <2>6, <2>7 DEF RunStep
<1>2. ASSUME NEW c \in Claim, IngestClaim(c)
      PROVE  JudgedOrUnderWay'
  BY <1>2, VerifiersType DEF IngestClaim, LockFree, BeginRun, history
<1>3. ASSUME NEW h \in Caller, NEW c \in Claim, NEW e \in Evidence,
             Reverify(h, c) \/ AcquireEvidence(h, c, e)
      PROVE  JudgedOrUnderWay'
  BY <1>3, IngestApart DEF Reverify, AcquireEvidence, BeginRun, tables, history
<1>4. ASSUME NEW h \in Caller, NEW c \in Claim, Reverify(h, c)
      PROVE  JudgedOrUnderWay'
  BY <1>4, IngestApart DEF Reverify, BeginRun, tables, history
<1>5. CASE \/ \E e \in Evidence : IngestEvidence(e) \/ ExecutorEvidence(e)
           \/ \E p \in Adapters : Announce(p)
  BY <1>5 DEF IngestEvidence, ExecutorEvidence, Announce, locals, history
<1>6. CASE Restart
  BY <1>6 DEF Restart, tables
<1>7. CASE UNCHANGED vars
  BY <1>7 DEF vars
<1> QED
  BY <1>1, <1>2, <1>3, <1>4, <1>5, <1>6, <1>7 DEF Next

\* While no claim is being ingested every stored claim with a verifier has a
\* finding, except one whose own ingest run stopped half way: the retry that
\* the Claim arm skips has nothing left to do.
THEOREM SkippedRetriesWereJudged == Spec => []StoredClaimsJudged
<1>1. Init => TypeOK /\ JudgedOrUnderWay
  BY InitType DEF Init, JudgedOrUnderWay
<1>2. TypeOK /\ JudgedOrUnderWay /\ [Next]_vars => (TypeOK /\ JudgedOrUnderWay)'
  BY StepType, StepJudged
<1>3. TypeOK /\ JudgedOrUnderWay => StoredClaimsJudged
  BY DEF JudgedOrUnderWay, StoredClaimsJudged, LockFree
<1> QED
  BY <1>1, <1>2, <1>3, PTL DEF Spec
=============================================================================
