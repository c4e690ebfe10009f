--------------------------- MODULE EvidenceFusion ---------------------------
(***************************************************************************)
(* How the findings on one claim become a fused verdict and a              *)
(* recommendation: compute_fusion and api_decision of fornax-daemon over   *)
(* fornax-verify's BaselineFusionPolicy, SourceFamilyMap and               *)
(* DefaultRiskPolicy.                                                      *)
(*                                                                         *)
(* Evidence rows arrive and leave the claim's admitted pool, verifiers     *)
(* leave findings, and the verdict is recomputed from both at every        *)
(* request, so it is an operator of the state.  A row is what the rules    *)
(* tell apart: whether it has a source, its correlation group, the agent   *)
(* turn it reports on, its age, and the rows it is derived from.  Row ids  *)
(* are random, so rows arrive in any order of their ids.  What a row is    *)
(* derived from is what its sender says: itself, rows that come later or   *)
(* never, and rows that name it in turn, are all possible.                 *)
(*                                                                         *)
(* The graph is always the projection of the findings: no code outside the *)
(* tests writes the graph tables that compute_fusion would prefer.         *)
(***************************************************************************)
EXTENDS Integers, FiniteSets, FiniteSetsExt

CONSTANTS
  Ids,          \* evidence ids, in the order of Uuid
  Kinds,        \* the rows sensors record, but for derived_from
  None,         \* no correlation group; not reported by the agent
  MaxWork,      \* FamilyBudget::max_work_units
  MaxFindings,  \* bound: findings on the claim
  MaxSize       \* bound on Size

ASSUME IdsAreOrdered == Ids \subseteq Nat
ASSUME KindsAreRows ==
  \A k \in Kinds : /\ DOMAIN k = {"sourced", "group", "turn", "age"}
                   /\ ~k.sourced => k.group = None /\ k.turn = None
                   /\ k.age \in {"fresh", "stale", "indeterminate"}

VARIABLES
  rows,       \* rows[e]: the recorded evidence
  pool,       \* the ids admitted_evidence_for_claim returns for the claim
  findings    \* the claim's findings, those of the same judgement numbered

vars == <<rows, pool, findings>>

\* A verdict on a row, or on none when there is nothing to judge.  An Unverified
\* finding projects to nothing and is left out.
Judgements == ({"Verified", "Contradicted", "Review"} \X Ids) \cup {<<"Unavailable", None>>}

Init ==
  /\ rows = <<>>
  /\ pool = {}
  /\ findings = {}

-----------------------------------------------------------------------------
(* What changes between two requests. *)

\* What MaxSize bounds: the findings, the parents that rows name and the rows
\* that have left, weighed by what they cost the model checker.
Size ==
  Cardinality(findings) + 4 * Cardinality(DOMAIN rows \ pool)
    + 2 * Cardinality(UNION {{e} \X rows[e].from : e \in DOMAIN rows})

\* insert_evidence stores derived_from as it comes.
RecordEvidence(e, k, from) ==
  /\ e \notin DOMAIN rows
  /\ ~k.sourced => from = {}
  /\ Size + 2 * Cardinality(from) <= MaxSize
  /\ rows' = [x \in DOMAIN rows \cup {e} |->
                IF x = e THEN [kind |-> k, from |-> from] ELSE rows[x]]
  /\ pool' = pool \cup {e}
  /\ UNCHANGED findings

\* The row is consumed by another claim, or deleted.
LeavePool(e) ==
  /\ e \in pool
  /\ Size + 4 <= MaxSize
  /\ pool' = pool \ {e}
  /\ UNCHANGED <<rows, findings>>

\* A verification appends a finding, also on a row it has judged before.
RecordFinding(j) ==
  /\ Cardinality(findings) < MaxFindings
  /\ Size < MaxSize
  /\ j[2] \in pool \cup {None}
  /\ LET again == Cardinality({f \in findings : f.judgement = j})
     IN  findings' = findings \cup {[judgement |-> j, nth |-> again + 1]}
  /\ UNCHANGED <<rows, pool>>

Next ==
  \/ \E e \in Ids, k \in Kinds, from \in SUBSET Ids : RecordEvidence(e, k, from)
  \/ \E e \in Ids : LeavePool(e)
  \/ \E j \in Judgements : RecordFinding(j)

Spec == Init /\ [][Next]_vars

-----------------------------------------------------------------------------
(* independence.rs *)

Parents(e) == rows[e].from \cap pool

\* Everything in the pool that Step leads to from S: no set that holds S and
\* follows every step of its members leaves it out.
Reachable(S, Step(_)) ==
  {x \in pool : ~\E T \in SUBSET (pool \ {x}) :
                   S \subseteq T /\ \A y \in T : Step(y) \subseteq T}

\* ancestors_of_indexed: parents outside the pool are not followed.
AncestorsOf(e) == Reachable(Parents(e), Parents) \ {e}

AncestryPairs == UNION {{e} \X AncestorsOf(e) : e \in pool}

\* The work units of the ancestry walks: edges visited and pairs recorded.
WorkUnits ==
  LET Visited(e) == UNION {{<<e, x>>} \X (Parents(x) \ {e}) : x \in AncestorsOf(e) \cup {e}}
  IN  Cardinality(UNION {Visited(e) : e \in pool}) + Cardinality(AncestryPairs)

BudgetExceeded == WorkUnits > MaxWork

\* union: the blocks of two rows become one.  Its least id is what find returns,
\* since the smaller root always wins.
Union(pair, blocks) ==
  LET joined == {B \in blocks : pair[1] \in B \/ pair[2] \in B}
  IN  (blocks \ joined) \cup {UNION joined}

\* Next member of the same set, as ids.windows(2) pairs them.
Windows(S) ==
  {p \in S \X S : p[1] < p[2] /\ ~\E c \in S : p[1] < c /\ c < p[2]}

GroupPairs ==
  UNION {Windows({e \in pool : rows[e].kind.group = g}) :
           g \in {rows[e].kind.group : e \in pool} \ {None}}

TurnPairs ==
  UNION {Windows({e \in pool : rows[e].kind.turn = t}) :
           t \in {rows[e].kind.turn : e \in pool} \ {None}}

Blocks(pairs) == FoldSet(Union, {{e} : e \in pool}, pairs)

\* The key of members_by_root for each row: its root, or itself when it has no
\* source.
Keys(blocks) ==
  [e \in pool |-> IF rows[e].kind.sourced
                  THEN Min(CHOOSE B \in blocks : e \in B) ELSE e]

\* Mutant: agent turns make no family.
FamilyKeysWithoutTurns == Keys(Blocks(GroupPairs \cup AncestryPairs))

\* SourceFamilyMap::try_build
FamilyKeys == Keys(Blocks(GroupPairs \cup AncestryPairs \cup TurnPairs))

\* family_of
FamilyOf(keys, e) == {x \in pool : keys[x] = keys[e]}

-----------------------------------------------------------------------------
(* fusion.rs *)

RelationOf(verdict) ==
  CASE verdict = "Verified" -> "supports"
    [] verdict = "Contradicted" -> "contradicts"
    [] verdict = "Review" -> "neutral"

\* project_graph: one link for each finding on a row.  A link id is a hash, so
\* the order of the links is any order.
Links(F) ==
  {[evidence |-> f.judgement[2], relation |-> RelationOf(f.judgement[1]), nth |-> f.nth] :
     f \in {x \in F : x.judgement[2] # None}}

\* An Unavailable finding projects to notes of missing, expected signals.
Missing(F) == \E f \in F : f.judgement[1] = "Unavailable"

Kind(l) == rows[l.evidence].kind

\* R1 and R2: links that resolve in the pool and vote.
Candidates(F) == {l \in Links(F) : l.evidence \in pool /\ l.relation # "neutral"}

\* Mutant: the row derived from goes as well.
UnderivedEitherEnd(S) ==
  {l \in S : \A m \in S : /\ m.evidence \notin AncestorsOf(l.evidence)
                          /\ l.evidence \notin AncestorsOf(m.evidence)}

\* R3: a row that descends from another candidate's row has no vote.
Underived(S) ==
  LET linked == {l.evidence : l \in S}
  IN  {l \in S : AncestorsOf(l.evidence) \cap linked = {}}

\* R4: a stale row cannot support; it can still contradict.
FreshEnough(S) == {l \in S : ~(Kind(l).age = "stale" /\ l.relation = "supports")}

\* One representative of each bucket, the others are discounted.
Collapse(S, Same(_, _)) ==
  {l \in S : l = CHOOSE m \in {k \in S : k = l \/ Same(k, l)} : TRUE}

\* R5: one vote for each relation and correlation group.
OnePerGroup(S) ==
  LET Same(k, l) == /\ k.relation = l.relation
                    /\ Kind(k).group # None
                    /\ Kind(k).group = Kind(l).group
  IN  Collapse(S, Same)

\* Mutant: a recorded group exempts a link from its family.
OnePerFamilyUngrouped(S, keys) ==
  LET Same(k, l) == /\ k.relation = l.relation
                    /\ Kind(k).group = None /\ Kind(l).group = None
                    /\ keys[k.evidence] = keys[l.evidence]
  IN  Collapse(S, Same)

\* R5b: one vote for each relation and source family of several rows.
OnePerFamily(S, keys) ==
  LET Same(k, l) == /\ k.relation = l.relation
                    /\ keys[k.evidence] = keys[l.evidence]
                    /\ Cardinality(FamilyOf(keys, l.evidence)) > 1
  IN  Collapse(S, Same)

Counted(F) ==
  OnePerFamily(OnePerGroup(FreshEnough(Underived(Candidates(F)))), FamilyKeys)

\* The caveats that qualify a verdict; the first three are noted for every link
\* R3 leaves, the last for the votes that count.
Caveats(F, counted) ==
  {l \in Underived(Candidates(F)) :
     \/ AncestorsOf(l.evidence) # {}
     \/ Kind(l).age = "stale" /\ l.relation = "contradicts"
     \/ Kind(l).age = "indeterminate"
     \/ l \in counted /\ Kind(l).group = None}

\* Mutant: a link that does not resolve is passed over in silence.
DiscountedResolved(F, counted) == Candidates(F) \ counted

Discounted(F, counted) ==
  {l \in Links(F) : l.evidence \notin pool} \cup (Candidates(F) \ counted)

\* R6 and the band: what /api/fusion answers.
Fuse(F) ==
  LET counted == Counted(F)
      for == \E l \in counted : l.relation = "supports"
      against == \E l \in counted : l.relation = "contradicts"
      clean == Caveats(F, counted) = {} /\ Discounted(F, counted) = {} /\ ~Missing(F)
      band == IF clean THEN "Corroborated" ELSE "Qualified"
  IN  IF BudgetExceeded THEN [verdict |-> "Review", band |-> "Undetermined"]
      ELSE CASE for /\ against -> [verdict |-> "Review", band |-> "Conflicted"]
             [] ~for /\ against -> [verdict |-> "Contradicted", band |-> band]
             [] for /\ ~against -> [verdict |-> "Verified", band |-> band]
             [] ~for /\ ~against ->
                  [verdict |-> IF Missing(F) THEN "Unavailable" ELSE "Unverified",
                   band |-> "Undetermined"]

-----------------------------------------------------------------------------
(* decision.rs *)

RiskClass == {"Strict", "Balanced", "Lenient"}
Calibration == {"NoActiveCalibration", "Valid", "Stale", "Suspect", "InsufficientSupport"}

\* The mapping table of DefaultRiskPolicy.
ActionFor(verdict, band, risk) ==
  CASE verdict = "Verified" -> IF band = "Corroborated" THEN "Proceed" ELSE "Review"
    [] verdict = "Contradicted" ->
         IF \/ band = "Corroborated" /\ risk = "Lenient"
            \/ band = "Qualified" /\ risk # "Strict"
         THEN "Review" ELSE "Block"
    [] verdict = "Unverified" -> IF risk = "Strict" THEN "Block" ELSE "Review"
    [] verdict = "Unavailable" -> IF risk = "Lenient" THEN "Review" ELSE "Block"
    [] verdict = "Review" -> "Block"

\* apply_calibration_floor
CalibrationFloor(action, calibration) ==
  IF action = "Proceed" /\ calibration \notin {"NoActiveCalibration", "Valid"}
  THEN "Review" ELSE action

\* What /api/decision answers.
Recommendation(fused, risk, calibration) ==
  CalibrationFloor(ActionFor(fused.verdict, fused.band, risk), calibration)

-----------------------------------------------------------------------------
(* Properties *)

\* Two rows are directly related: they share a group or an agent turn, or one
\* names the other as its parent.
Related(a, b) ==
  \/ rows[a].kind.group # None /\ rows[a].kind.group = rows[b].kind.group
  \/ rows[a].kind.turn # None /\ rows[a].kind.turn = rows[b].kind.turn
  \/ a \in rows[b].from
  \/ b \in rows[a].from

\* The reference for source families: a chain of related rows in the pool.
CommonOrigin(e) ==
  Reachable({e}, LAMBDA a : {b \in pool : Related(a, b)})

Sourced == {e \in pool : rows[e].kind.sourced}

\* The union-find of SourceFamilyMap::try_build finds the common origins: two
\* rows with a source are in one family exactly when a chain of shared groups,
\* shared agent turns and derivations joins them, through rows without a source
\* too, in whatever order ids and rows came.
FamiliesAreOrigins ==
  LET keys == FamilyKeys
  IN  \A a \in Sourced : FamilyOf(keys, a) \cap Sourced = CommonOrigin(a) \cap Sourced

\* Nothing is corroborated by itself: two votes fuse counts for the same side
\* are of one row, or of rows without a common origin, however the origin is
\* recorded.  (A row without a source has no recorded origin.)
VotesAreIndependent ==
  \A k, l \in {m \in Counted(findings) : m.evidence \in Sourced} :
    k.relation = l.relation /\ k.evidence # l.evidence =>
      l.evidence \notin CommonOrigin(k.evidence)

\* api_decision recommends to proceed, for any risk class and calibration, only
\* on support nobody can object to: every finding on a row of the claim is a
\* support, or abstains, on an admitted row; the supporting rows are fresh, derived
\* from no other row of the pool, each of a recorded group of its own; nothing expected is missing, the
\* family budget holds, and the calibration is not in doubt.
ProceedIsClean ==
  LET fused == Fuse(findings)
      links == Links(findings)
      support == {l.evidence : l \in {m \in links : m.relation = "supports"}}
  IN  \A risk \in RiskClass, calibration \in Calibration :
        Recommendation(fused, risk, calibration) = "Proceed" =>
          /\ support # {}
          /\ {l \in links : l.relation = "contradicts"} = {}
          /\ {l.evidence : l \in links} \subseteq pool
          /\ \A e \in support : /\ rows[e].kind.age = "fresh"
                                /\ rows[e].kind.group # None
                                /\ rows[e].from \cap pool \subseteq {e}
                                /\ support \cap CommonOrigin(e) = {e}
          /\ ~Missing(findings)
          /\ ~BudgetExceeded
          /\ calibration \in {"NoActiveCalibration", "Valid"}

\* Two rows that are derived from each other.
Mutual(a, b) == a \in AncestorsOf(b) /\ b \in AncestorsOf(a)

\* A contradiction never helps a claim: whatever its findings, one more that
\* contradicts it turns no other verdict of fuse into Verified, even when it
\* changes which rows count as derived.  The exception is a contradiction on a
\* row that is derived from another voting row and the other from it: R3 takes
\* the vote of both, so the first of two such contradictions opposes the claim
\* and the second silences it.
ContradictionNeverHelps ==
  Fuse(findings).verdict = "Verified" =>
    \A f \in findings :
      /\ f.judgement[1] = "Contradicted"
      /\ \A l \in Candidates(findings) : ~Mutual(l.evidence, f.judgement[2])
      => Fuse(findings \ {f}).verdict = "Verified"
=============================================================================
