---------------------------- MODULE PolicyProofs ----------------------------
(***************************************************************************)
(* Proofs about PolicyCache and about the daemon's snapshot over it,       *)
(* PolicyDaemon, for every set of bundles, issuers, policies, revocation   *)
(* lists and handlers.                                                     *)
(*                                                                         *)
(* LineageSound is inductive together with the types.  That members        *)
(* resolve to their own envelopes, and with it the refinement of           *)
(* PolicyLineage, rests on bundle_id being unique (DistinctIds), which     *)
(* neither verify_bundle nor the store checks.  That the snapshot at rest  *)
(* is what the tables give rests on one handler only submitting (Sole):    *)
(* the poller beside the UDS ingest breaks it.                             *)
(***************************************************************************)
EXTENDS PolicyDaemon, TLAPS

\* No two bundles carry the same bundle_id.
DistinctIds == \A b, c \in Bundle : IdOf[b] = IdOf[c] => b = c

\* A row holds the envelope of the bundle it is keyed by, or nothing.
EnvelopesOwn == \A b \in Bundle : envelope[b] \in {b, NoBundle}

\* A high-water row holds a bundle of the issuer and policy it is keyed by.
RowsKeyed ==
    \A i \in Issuer, p \in Policy :
        highWater[<<i, p>>] # NoBundle => /\ IssuerOf[highWater[<<i, p>>]] = i
                                          /\ PolicyOf[highWater[<<i, p>>]] = p

LineageInv == TypeOK /\ RowsKeyed /\ LineageSound
CacheInv == LineageInv /\ EnvelopesOwn /\ MembersResolve

-----------------------------------------------------------------------------
(* Type correctness *)

\* The members of a slot are bundles.
LEMMA MembersType ==
  ASSUME TypeOK, NEW g \in 0 .. Len(generations)
  PROVE  Members(g) \subseteq Bundle
<1>1. CASE g = 0
  BY <1>1 DEF Members
<1>2. CASE g # 0
  <2>1. g \in 1 .. Len(generations)
    BY <1>2 DEF TypeOK
  <2>2. generations[g] \in SUBSET Bundle
    BY <2>1 DEF TypeOK
  <2> QED
    BY <1>2, <2>2 DEF Members
<1> QED
  BY <1>1, <1>2

\* The next generation is a set of bundles.
LEMMA NewMembersType ==
  ASSUME TypeOK, NEW b \in Bundle
  PROVE  NewMembers(b) \subseteq Bundle
<1>1. Members(active) \subseteq Bundle
  BY MembersType DEF TypeOK
<1> QED
  BY <1>1 DEF NewMembers

\* The initial state has the declared types.
LEMMA InitType == Init => TypeOK
  BY DEF Init, TypeOK

\* An activation appends one generation and keeps the earlier ones.
LEMMA Appended ==
  ASSUME TypeOK, NEW b \in Bundle, Activate(b)
  PROVE  /\ generations' \in Seq(SUBSET Bundle)
         /\ Len(generations') = Len(generations) + 1
         /\ \A g \in 1 .. Len(generations) : generations'[g] = generations[g]
         /\ generations'[Len(generations) + 1] = NewMembers(b)
<1>1. NewMembers(b) \in SUBSET Bundle
  BY NewMembersType
<1>2. generations' = Append(generations, NewMembers(b))
  BY DEF Activate
<1> QED
  BY <1>1, <1>2 DEF TypeOK

\* Every step keeps the types of the state.
LEMMA StepType == TypeOK /\ [Next]_vars => TypeOK'
<1> SUFFICES ASSUME TypeOK, [Next]_vars
             PROVE  TypeOK'
  OBVIOUS
<1>1. ASSUME NEW b \in Bundle, Activate(b)
      PROVE  TypeOK'
  <2>1. envelope' \in [Bundle -> Bundle \cup {NoBundle}]
    BY <1>1 DEF Activate, StoreEnvelope, TypeOK
  <2>2. /\ generations' \in Seq(SUBSET Bundle)
        /\ active' \in 0 .. Len(generations')
        /\ lkg' \in 0 .. Len(generations')
    <3>1. /\ generations' \in Seq(SUBSET Bundle)
          /\ Len(generations') = Len(generations) + 1
          /\ Len(generations) \in Nat
      BY <1>1, Appended DEF TypeOK
    <3> QED
      BY <1>1, <3>1 DEF Activate, TypeOK
  <2>3. highWater' \in [Issuer \X Policy -> Bundle \cup {NoBundle}]
    BY <1>1 DEF Activate, TypeOK
  <2> QED
    BY <1>1, <2>1, <2>2, <2>3 DEF Activate, TypeOK
<1>2. ASSUME NEW l \in List, ApplyRevocation(l)
      PROVE  TypeOK'
  BY <1>2, ListType DEF ApplyRevocation, TypeOK
<1>3. CASE Rollback
  BY <1>3 DEF Rollback, TypeOK
<1>4. ASSUME NEW b \in Bundle, TrustChanges(b)
      PROVE  TypeOK'
  BY <1>4 DEF TrustChanges, TypeOK
<1>5. CASE UNCHANGED vars
  BY <1>5 DEF vars, TypeOK
<1> QED
  BY <1>1, <1>2, <1>3, <1>4, <1>5 DEF Next

\* The tables keep their types and the slots always name a generation that
\* exists.
THEOREM TypeCorrect == Spec => []TypeOK
<1>1. Init => TypeOK
  BY InitType
<1>2. TypeOK /\ [Next]_vars => TypeOK'
  BY StepType
<1> QED
  BY <1>1, <1>2, PTL DEF Spec

-----------------------------------------------------------------------------
(* Lineages *)

\* What LineageSound says of the members of a slot.
LEMMA SlotMembers ==
  ASSUME LineageInv, NEW g \in 0 .. Len(generations), NEW m \in Members(g)
  PROVE  /\ m \in Bundle
         /\ HighWaterOf(m) # NoBundle
         /\ SequenceOf[m] <= SequenceOf[HighWaterOf(m)]
         /\ \A n \in Members(g) : PolicyOf[m] = PolicyOf[n] => m = n
<1>1. g \in 1 .. Len(generations) /\ Members(g) = generations[g]
  BY DEF LineageInv, TypeOK, Members
<1> QED
  BY <1>1, MembersType DEF LineageInv, LineageSound

\* A bundle that continues a lineage lies beyond every member of its policy.
LEMMA BeyondMembers ==
  ASSUME LineageInv, NEW b \in Bundle, Activates(b),
         NEW m \in Bundle, PolicyOf[m] = PolicyOf[b],
         HighWaterOf(m) # NoBundle, SequenceOf[m] <= SequenceOf[HighWaterOf(m)]
  PROVE  IssuerOf[m] = IssuerOf[b] /\ SequenceOf[m] < SequenceOf[b]
<1> USE BundleType
<1>1. IssuerOf[m] = IssuerOf[b]
  BY DEF Activates, Acceptable, BoundElsewhere, HighWaterOf
<1>2. HighWaterOf(m) = HighWaterOf(b)
  BY <1>1 DEF HighWaterOf
<1>3. HighWaterOf(b) \in Bundle
  BY <1>2 DEF HighWaterOf, LineageInv, TypeOK
<1>4. SequenceOf[HighWaterOf(b)] < SequenceOf[b]
  BY <1>2 DEF Activates, Advances
<1> QED
  BY <1>1, <1>2, <1>3, <1>4

\* An activation keeps the lineages sound.
LEMMA ActivateLineage ==
  ASSUME LineageInv, NEW b \in Bundle, Activate(b)
  PROVE  LineageSound'
<1> USE BundleType DEF LineageInv
<1>0. Activates(b)
  BY DEF Activate
<1>1. /\ highWater' = [highWater EXCEPT ![<<IssuerOf[b], PolicyOf[b]>>] = b]
      /\ highWater \in [Issuer \X Policy -> Bundle \cup {NoBundle}]
      /\ <<IssuerOf[b], PolicyOf[b]>> \in Issuer \X Policy
  BY DEF Activate, TypeOK
<1>2. ASSUME NEW i \in Issuer, NEW j \in Issuer, NEW p \in Policy,
             highWater'[<<i, p>>] # NoBundle, highWater'[<<j, p>>] # NoBundle
      PROVE  i = j
  <2>1. CASE p # PolicyOf[b]
    BY <1>1, <1>2, <2>1 DEF LineageSound
  <2>2. CASE p = PolicyOf[b]
    BY <1>0, <1>1, <1>2, <2>2 DEF Activates, Acceptable, BoundElsewhere
  <2> QED
    BY <2>1, <2>2
<1>3. ASSUME NEW m \in Bundle,
             HighWaterOf(m) # NoBundle, SequenceOf[m] <= SequenceOf[HighWaterOf(m)]
      PROVE  HighWaterOf(m)' # NoBundle /\ SequenceOf[m] <= SequenceOf[HighWaterOf(m)']
  <2>1. CASE PolicyOf[m] # PolicyOf[b]
    BY <1>1, <1>3, <2>1 DEF HighWaterOf
  <2>2. CASE PolicyOf[m] = PolicyOf[b]
    <3>1. IssuerOf[m] = IssuerOf[b] /\ SequenceOf[m] < SequenceOf[b]
      BY <1>0, <1>3, <2>2, BeyondMembers
    <3>2. HighWaterOf(m)' = b
      BY <1>1, <2>2, <3>1 DEF HighWaterOf
    <3> QED
      BY <3>1, <3>2
  <2> QED
    BY <2>1, <2>2
<1>4. ASSUME NEW m \in NewMembers(b)
      PROVE  /\ \A n \in NewMembers(b) : PolicyOf[m] = PolicyOf[n] => m = n
             /\ HighWaterOf(m)' # NoBundle
             /\ SequenceOf[m] <= SequenceOf[HighWaterOf(m)']
  <2>1. active \in 0 .. Len(generations)
    BY DEF TypeOK
  <2>2. CASE m = b
    <3>1. HighWaterOf(b)' = b
      BY <1>1 DEF HighWaterOf
    <3> QED
      BY <2>2, <3>1 DEF NewMembers
  <2>3. CASE m # b
    <3>1. m \in Members(active) /\ PolicyOf[m] # PolicyOf[b]
      BY <2>3 DEF NewMembers
    <3>2. /\ m \in Bundle
          /\ HighWaterOf(m) # NoBundle
          /\ SequenceOf[m] <= SequenceOf[HighWaterOf(m)]
          /\ \A n \in Members(active) : PolicyOf[m] = PolicyOf[n] => m = n
      BY <2>1, <3>1, SlotMembers
    <3> QED
      BY <1>3, <3>1, <3>2 DEF NewMembers
  <2> QED
    BY <2>2, <2>3
<1>5. ASSUME NEW g \in 1 .. Len(generations'), NEW m \in generations'[g]
      PROVE  /\ \A n \in generations'[g] : PolicyOf[m] = PolicyOf[n] => m = n
             /\ HighWaterOf(m)' # NoBundle
             /\ SequenceOf[m] <= SequenceOf[HighWaterOf(m)']
  <2>1. CASE g = Len(generations) + 1
    BY <1>4, <1>5, <2>1, Appended
  <2>2. CASE g # Len(generations) + 1
    <3>1. g \in 1 .. Len(generations) /\ generations'[g] = generations[g]
      BY <2>2, Appended DEF TypeOK
    <3>2. generations[g] \in SUBSET Bundle
      BY <3>1 DEF TypeOK
    <3> QED
      BY <1>3, <1>5, <3>1, <3>2 DEF LineageSound
  <2> QED
    BY <2>1, <2>2
<1> QED
  BY <1>2, <1>5 DEF LineageSound, HighWaterOf

\* Every step keeps the lineages sound.
LEMMA StepLineage == LineageInv /\ [Next]_vars => LineageInv'
<1> SUFFICES ASSUME LineageInv, [Next]_vars
             PROVE  RowsKeyed' /\ LineageSound'
  BY StepType DEF LineageInv
<1>1. ASSUME NEW b \in Bundle, Activate(b)
      PROVE  RowsKeyed' /\ LineageSound'
  <2>1. RowsKeyed'
    BY <1>1, BundleType DEF Activate, RowsKeyed, LineageInv, TypeOK
  <2> QED
    BY <1>1, <2>1, ActivateLineage
<1>2. CASE UNCHANGED <<generations, highWater>>
  BY <1>2 DEF LineageInv, RowsKeyed, LineageSound, HighWaterOf
<1> QED
  BY <1>1, <1>2 DEF Next, ApplyRevocation, Rollback, TrustChanges, vars

\* A policy never changes its issuer, and whatever is submitted, revoked or
\* rolled back, no generation holds two bundles of a policy or a bundle beyond
\* the high-water row.
THEOREM LineagesAreSound == Spec => []LineageSound
<1>1. Init => LineageInv
  BY InitType DEF Init, LineageInv, RowsKeyed, LineageSound
<1>2. LineageInv /\ [Next]_vars => LineageInv'
  BY StepLineage
<1>3. LineageInv => LineageSound
  BY DEF LineageInv
<1> QED
  BY <1>1, <1>2, <1>3, PTL DEF Spec

\* The high-water rows only move forward.
THEOREM HighWaterHolds == Spec => HighWaterNeverLowered
<1>1. ASSUME TypeOK, [Next]_vars, NEW k \in Issuer \X Policy, highWater[k] # NoBundle
      PROVE  /\ highWater'[k] # NoBundle
             /\ SequenceOf[highWater[k]] <= SequenceOf[highWater'[k]]
  <2> USE BundleType
  <2>1. highWater[k] \in Bundle
    BY <1>1 DEF TypeOK
  <2>2. ASSUME NEW b \in Bundle, Activate(b)
        PROVE  /\ highWater'[k] # NoBundle
               /\ SequenceOf[highWater[k]] <= SequenceOf[highWater'[k]]
    <3>1. CASE k = <<IssuerOf[b], PolicyOf[b]>>
      <4>1. highWater'[k] = b
        BY <1>1, <2>2, <3>1 DEF Activate, TypeOK
      <4>2. SequenceOf[highWater[k]] < SequenceOf[b]
        BY <1>1, <2>2, <3>1 DEF Activate, Activates, Advances, HighWaterOf
      <4> QED
        BY <2>1, <4>1, <4>2
    <3>2. CASE k # <<IssuerOf[b], PolicyOf[b]>>
      <4>1. highWater'[k] = highWater[k]
        BY <1>1, <2>2, <3>2 DEF Activate, TypeOK
      <4> QED
        BY <1>1, <2>1, <4>1
    <3> QED
      BY <3>1, <3>2
  <2>3. CASE UNCHANGED highWater
    BY <1>1, <2>1, <2>3
  <2> QED
    BY <1>1, <2>2, <2>3 DEF Next, ApplyRevocation, Rollback, TrustChanges, vars
<1>2. TypeOK /\ [Next]_vars
        => [\A k \in Issuer \X Policy :
              highWater[k] # NoBundle =>
                /\ highWater'[k] # NoBundle
                /\ SequenceOf[highWater[k]] <= SequenceOf[highWater'[k]]]_vars
  BY <1>1
<1> QED
  BY <1>2, TypeCorrect, PTL DEF Spec, HighWaterNeverLowered

\* No submission replaces an active bundle by an older one of its policy.
THEOREM NoDowngradeHolds == Spec => NoDowngrade
<1>1. ASSUME LineageInv, Next, Len(generations') > Len(generations),
             NEW m \in Members(active), NEW n \in generations'[active'],
             PolicyOf[m] = PolicyOf[n]
      PROVE  SequenceOf[m] <= SequenceOf[n]
  <2> USE BundleType
  <2>1. ~UNCHANGED generations
    BY <1>1 DEF LineageInv, TypeOK
  <2>2. PICK b \in Bundle : Activate(b)
    BY <1>1, <2>1 DEF Next, ApplyRevocation, Rollback, TrustChanges
  <2>3. active \in 0 .. Len(generations) /\ TypeOK
    BY <1>1 DEF LineageInv, TypeOK
  <2>4. n \in NewMembers(b)
    BY <1>1, <2>2, <2>3, Appended DEF Activate
  <2>5. /\ m \in Bundle
        /\ HighWaterOf(m) # NoBundle
        /\ SequenceOf[m] <= SequenceOf[HighWaterOf(m)]
        /\ \A k \in Members(active) : PolicyOf[m] = PolicyOf[k] => m = k
    BY <1>1, <2>3, SlotMembers
  <2>6. CASE n = b
    <3>1. SequenceOf[m] < SequenceOf[b]
      BY <1>1, <2>2, <2>5, <2>6, BeyondMembers DEF Activate
    <3> QED
      BY <2>5, <2>6, <3>1
  <2>7. CASE n # b
    BY <1>1, <2>4, <2>5, <2>7 DEF NewMembers
  <2> QED
    BY <2>6, <2>7
<1>2. LineageInv /\ [Next]_vars
        => [Len(generations') > Len(generations) =>
              \A m \in Members(active), n \in generations'[active'] :
                 PolicyOf[m] = PolicyOf[n] => SequenceOf[m] <= SequenceOf[n]]_vars
  BY <1>1
<1>3. Init => LineageInv
  BY InitType DEF Init, LineageInv, RowsKeyed, LineageSound
<1> QED
  BY <1>2, <1>3, StepLineage, PTL DEF Spec, NoDowngrade

-----------------------------------------------------------------------------
(* Envelopes *)

\* With distinct bundle_ids the row written is the candidate's own.
LEMMA OwnRow ==
  ASSUME DistinctIds, TypeOK, NEW b \in Bundle
  PROVE  FirstWithId(NewMembers(b), IdOf[b]) = b
<1> DEFINE P(m) == /\ IdOf[m] = IdOf[b]
                   /\ \A n \in NewMembers(b) : IdOf[n] = IdOf[b] => PolicyOf[m] <= PolicyOf[n]
<1>1. b \in NewMembers(b) /\ NewMembers(b) \subseteq Bundle
  BY NewMembersType DEF NewMembers
<1>2. P(b)
  <2>1. PolicyOf[b] \in Nat
    BY BundleType
  <2> QED
    BY <1>1, <2>1 DEF DistinctIds
<1>3. FirstWithId(NewMembers(b), IdOf[b]) = CHOOSE m \in NewMembers(b) : P(m)
  BY DEF FirstWithId
<1>4. \A m \in NewMembers(b) : P(m) => m = b
  BY <1>1 DEF DistinctIds
<1> HIDE DEF P
<1> QED
  BY <1>1, <1>2, <1>3, <1>4

\* With distinct bundle_ids every step keeps the members resolvable.
LEMMA StepCache ==
  ASSUME DistinctIds, CacheInv, [Next]_vars
  PROVE  CacheInv'
<1>1. LineageInv'
  BY StepLineage DEF CacheInv
<1> USE DEF CacheInv, LineageInv
<1>2. ASSUME NEW b \in Bundle, Activate(b)
      PROVE  EnvelopesOwn' /\ MembersResolve'
  <2>1. envelope' = IF envelope[b] = NoBundle THEN [envelope EXCEPT ![b] = b] ELSE envelope
    BY <1>2, OwnRow DEF Activate, StoreEnvelope
  <2>2. \A m \in Bundle : envelope[m] = m => envelope'[m] = m
    BY <2>1 DEF TypeOK
  <2>3. envelope'[b] = b
    BY <2>1 DEF TypeOK, EnvelopesOwn
  <2>4. EnvelopesOwn'
    BY <2>1 DEF TypeOK, EnvelopesOwn
  <2>5. ASSUME NEW m \in NewMembers(b)
        PROVE  envelope'[m] = m
    <3>1. CASE m = b
      BY <2>3, <3>1
    <3>2. CASE m # b
      <4>1. m \in Members(active)
        BY <3>2 DEF NewMembers
      <4>2. m \in Bundle /\ envelope[m] = m
        BY <4>1, NewMembersType, <2>5 DEF Members, MembersResolve, TypeOK
      <4> QED
        BY <2>2, <4>2
    <3> QED
      BY <3>1, <3>2
  <2>6. ASSUME NEW g \in 1 .. Len(generations'), NEW m \in generations'[g]
        PROVE  envelope'[m] = m
    <3>1. CASE g = Len(generations) + 1
      BY <1>2, <2>5, <2>6, <3>1, Appended
    <3>2. CASE g # Len(generations) + 1
      <4>1. g \in 1 .. Len(generations) /\ generations'[g] = generations[g]
        BY <1>2, <3>2, Appended DEF TypeOK
      <4>2. generations[g] \in SUBSET Bundle
        BY <4>1 DEF TypeOK
      <4> QED
        BY <2>2, <2>6, <4>1, <4>2 DEF MembersResolve
    <3> QED
      BY <3>1, <3>2
  <2> QED
    BY <2>4, <2>6 DEF MembersResolve
<1>3. ASSUME UNCHANGED <<envelope, generations>>
      PROVE  EnvelopesOwn' /\ MembersResolve'
  BY <1>3 DEF EnvelopesOwn, MembersResolve
<1>4. EnvelopesOwn' /\ MembersResolve'
  BY <1>2, <1>3 DEF Next, ApplyRevocation, Rollback, TrustChanges, vars
<1> QED
  BY <1>1, <1>4

\* The initial cache is sound.
LEMMA InitCache == Init => CacheInv
<1> SUFFICES ASSUME Init
             PROVE  CacheInv
  OBVIOUS
<1>1. LineageInv
  BY InitType DEF Init, LineageInv, RowsKeyed, LineageSound
<1>2. generations = <<>> /\ Len(generations) = 0 /\ \A b \in Bundle : envelope[b] = NoBundle
  BY DEF Init
<1> QED
  BY <1>1, <1>2 DEF CacheInv, EnvelopesOwn, MembersResolve

\* When no two bundles share a bundle_id, every member of every generation is
\* re-verified from the envelope it was activated with.
THEOREM MembersAlwaysResolve ==
  ASSUME DistinctIds
  PROVE  Spec => []MembersResolve
<1>1. CacheInv /\ [Next]_vars => CacheInv'
  BY StepCache
<1>2. CacheInv => MembersResolve
  BY DEF CacheInv
<1> QED
  BY <1>1, <1>2, InitCache, PTL DEF Spec

-----------------------------------------------------------------------------
(* The refinement of PolicyLineage *)

\* A loaded generation is one of the slots, and all its members are usable.
LEMMA LoadedMembers ==
  ASSUME CacheInv, NEW m \in Members(Loaded(active, lkg, revoked, trusted))
  PROVE  /\ Loaded(active, lkg, revoked, trusted) \in 1 .. Len(generations)
         /\ m \in generations[Loaded(active, lkg, revoked, trusted)]
         /\ envelope[m] = m
         /\ ~IsRevoked(m)
<1> DEFINE g == Loaded(active, lkg, revoked, trusted)
<1>1. g # 0
  BY DEF Members
<1>2. g \in {active, lkg} /\ GenerationUsable(g, revoked, trusted)
  BY <1>1 DEF Loaded
<1>3. g \in 1 .. Len(generations)
  BY <1>1, <1>2 DEF CacheInv, LineageInv, TypeOK
<1>4. m \in generations[g]
  BY <1>1 DEF Members
<1>5. envelope[m] = m
  BY <1>3, <1>4 DEF CacheInv, MembersResolve
<1>6. ~IsRevoked(m)
  BY <1>2 DEF GenerationUsable, UsableUnder, IsRevoked
<1> QED
  BY <1>3, <1>4, <1>5, <1>6

\* With distinct bundle_ids nothing revoked is ever served, from either slot.
THEOREM RevokedIsNeverServed ==
  ASSUME DistinctIds
  PROVE  Spec => []RevokedNeverServed
<1>1. CacheInv /\ [Next]_vars => CacheInv'
  BY StepCache
<1>2. CacheInv => RevokedNeverServed
  BY LoadedMembers DEF RevokedNeverServed, Served, Content
<1> QED
  BY <1>1, <1>2, InitCache, PTL DEF Spec

\* The content served is sound in the sense of PolicyLineage.
LEMMA ServedIsSound == CacheInv => Lineage!ServedSound
<1> SUFFICES ASSUME CacheInv
             PROVE  Lineage!ServedSound
  OBVIOUS
<1> DEFINE g == Loaded(active, lkg, revoked, trusted)
<1>1. Served = Members(g)
  BY LoadedMembers DEF Served, Content
<1>2. \A b \in Served : /\ g \in 1 .. Len(generations)
                        /\ b \in generations[g]
                        /\ ~IsRevoked(b)
  BY <1>1, LoadedMembers
<1>3. Served \subseteq UNION {generations[k] : k \in 1 .. Len(generations)}
  BY <1>2
<1>4. \A b, c \in Served : PolicyOf[b] = PolicyOf[c] => b = c
  BY <1>2 DEF CacheInv, LineageInv, LineageSound
<1> QED
  BY <1>2, <1>3, <1>4 DEF Lineage!ServedSound, Lineage!IsRevoked, IsRevoked

\* The lineage's last bundle, as the refinement reads it from the rows.
LastOf(p) == IF RowsOf(p) = {} THEN NoBundle ELSE CHOOSE b \in RowsOf(p) : TRUE

\* A policy has at most one high-water row, and that is its last bundle.
LEMMA LastIsRow ==
  ASSUME LineageInv, NEW i \in Issuer, NEW p \in Policy, highWater[<<i, p>>] # NoBundle
  PROVE  LastOf(p) = highWater[<<i, p>>]
<1>1. highWater[<<i, p>>] \in Bundle
  BY DEF LineageInv, TypeOK
<1>2. RowsOf(p) = {highWater[<<i, p>>]}
  <2>1. ASSUME NEW b \in RowsOf(p)
        PROVE  b = highWater[<<i, p>>]
    <3>1. PICK j \in Issuer : highWater[<<j, p>>] = b
      BY <2>1 DEF RowsOf
    <3>2. b # NoBundle
      BY <2>1, BundleType DEF RowsOf
    <3>3. i = j
      BY <3>1, <3>2 DEF LineageInv, LineageSound
    <3> QED
      BY <3>1, <3>3
  <2> QED
    BY <1>1, <2>1 DEF RowsOf
<1> QED
  BY <1>2 DEF LastOf

\* Without a row there is no last bundle.
LEMMA LastIsNone ==
  ASSUME NEW p \in Policy, \A i \in Issuer : highWater[<<i, p>>] = NoBundle
  PROVE  LastOf(p) = NoBundle
  BY BundleType DEF LastOf, RowsOf

\* An activation accepts the bundle in the sense of PolicyLineage.
LEMMA ActivateAccepts ==
  ASSUME LineageInv, NEW b \in Bundle, Activate(b)
  PROVE  Lineage!Accept(b)
<1> DEFINE p == PolicyOf[b]
<1> USE BundleType
<1>1. Activates(b) /\ TypeOK
  BY DEF Activate, LineageInv
<1>2. ~Lineage!IsRevoked(b)
  BY <1>1 DEF Activates, Acceptable, IsRevoked, Lineage!IsRevoked
<1>3. highWater' = [highWater EXCEPT ![<<IssuerOf[b], p>>] = b]
  BY DEF Activate
<1>4. LastOf(p) # NoBundle => /\ IssuerOf[LastOf(p)] = IssuerOf[b]
                              /\ SequenceOf[LastOf(p)] < SequenceOf[b]
  <2> SUFFICES ASSUME LastOf(p) # NoBundle
               PROVE  /\ IssuerOf[LastOf(p)] = IssuerOf[b]
                      /\ SequenceOf[LastOf(p)] < SequenceOf[b]
    OBVIOUS
  <2>1. HighWaterOf(b) # NoBundle
    BY <1>1, LastIsNone DEF Activates, Acceptable, BoundElsewhere, HighWaterOf
  <2>2. LastOf(p) = HighWaterOf(b)
    BY <2>1, LastIsRow DEF HighWaterOf
  <2>3. SequenceOf[HighWaterOf(b)] < SequenceOf[b]
    BY <1>1, <2>1 DEF Activates, Advances
  <2>4. IssuerOf[HighWaterOf(b)] = IssuerOf[b]
    BY <2>1 DEF LineageInv, RowsKeyed, HighWaterOf
  <2> QED
    BY <2>2, <2>3, <2>4
<1>5. Lineage!Advances(b)
  BY <1>4 DEF Lineage!Advances, LastOf
<1>6. ASSUME NEW q \in Policy
      PROVE  LastOf(q)' = IF q = p THEN b ELSE LastOf(q)
  <2>1. CASE q = p
    <3>1. highWater'[<<IssuerOf[b], p>>] = b
      BY <1>1, <1>3 DEF TypeOK
    <3>2. RowsOf(p)' = {b}
      <4>1. ASSUME NEW i \in Issuer, NEW c \in Bundle, highWater'[<<i, p>>] = c
            PROVE  c = b
        <5>1. i = IssuerOf[b]
          BY <1>1, <1>3, <4>1 DEF Activates, Acceptable, BoundElsewhere, TypeOK
        <5> QED
          BY <3>1, <4>1, <5>1
      <4> QED
        BY <3>1, <4>1 DEF RowsOf
    <3> QED
      BY <2>1, <3>2 DEF LastOf
  <2>2. CASE q # p
    <3>1. \A i \in Issuer : highWater'[<<i, q>>] = highWater[<<i, q>>]
      BY <1>1, <1>3, <2>2 DEF TypeOK
    <3>2. RowsOf(q)' = RowsOf(q)
      BY <3>1 DEF RowsOf
    <3> QED
      BY <2>2, <3>2 DEF LastOf
  <2> QED
    BY <2>1, <2>2
<1>7. [q \in Policy |-> LastOf(q)]' = [[q \in Policy |-> LastOf(q)] EXCEPT ![p] = b]
  BY <1>6
<1>8. (UNION {generations[g] : g \in 1 .. Len(generations)})'
        = (UNION {generations[g] : g \in 1 .. Len(generations)}) \cup {b}
  <2> DEFINE H == UNION {generations[g] : g \in 1 .. Len(generations)}
  <2>1. /\ Len(generations') = Len(generations) + 1
        /\ Len(generations) \in Nat
        /\ \A g \in 1 .. Len(generations) : generations'[g] = generations[g]
        /\ generations'[Len(generations) + 1] = NewMembers(b)
    BY <1>1, Appended DEF TypeOK
  <2>2. Members(active) \subseteq H
    BY <1>1 DEF Members, TypeOK
  <2>3. b \in NewMembers(b) /\ NewMembers(b) \subseteq H \cup {b}
    BY <2>2 DEF NewMembers
  <2>4. H' \subseteq H \cup {b}
    <3> SUFFICES ASSUME NEW g \in 1 .. Len(generations'), NEW m \in generations'[g]
                 PROVE  m \in H \cup {b}
      OBVIOUS
    <3>1. CASE g = Len(generations) + 1
      BY <2>1, <2>3, <3>1
    <3>2. CASE g # Len(generations) + 1
      <4>1. g \in 1 .. Len(generations)
        BY <2>1, <3>2
      <4> QED
        BY <2>1, <4>1
    <3> QED
      BY <3>1, <3>2
  <2>5. H \cup {b} \subseteq H'
    <3>1. 1 .. Len(generations) \subseteq 1 .. Len(generations')
      BY <2>1
    <3>2. Len(generations) + 1 \in 1 .. Len(generations')
      BY <2>1
    <3>3. b \in H'
      BY <2>1, <2>3, <3>2
    <3>4. H \subseteq H'
      BY <2>1, <3>1
    <3> QED
      BY <3>3, <3>4
  <2> QED
    BY <2>4, <2>5
<1>9. UNCHANGED revoked
  BY DEF Activate
<1> QED
  BY <1>2, <1>5, <1>7, <1>8, <1>9 DEF Lineage!Accept, LastOf

\* With distinct bundle_ids the cache implements PolicyLineage: the high-water
\* table, the generations and the two slots, under every interleaving of
\* submissions, revocations, rollbacks and changes of trust, behave as one
\* forward-moving lineage per policy with revocation for ever.
THEOREM CacheImplementsLineage ==
  ASSUME DistinctIds
  PROVE  Spec => ImplementsLineage
<1>1. Init => Lineage!Init
  <2> SUFFICES ASSUME Init
               PROVE  Lineage!Init
    OBVIOUS
  <2>1. \A p \in Policy : LastOf(p) = NoBundle
    BY LastIsNone DEF Init
  <2>2. [p \in Policy |-> LastOf(p)] = [p \in Policy |-> NoBundle]
    BY <2>1
  <2>3. UNION {generations[g] : g \in 1 .. Len(generations)} = {}
    BY DEF Init
  <2>4. Served = {}
    BY DEF Init, Served, Content, Loaded, GenerationUsable, Members
  <2>5. revoked = {}
    BY DEF Init
  <2> QED
    BY <2>2, <2>3, <2>4, <2>5 DEF Lineage!Init, LastOf
<1>2. CacheInv /\ [Next]_vars => CacheInv'
  BY StepCache
<1>3. CacheInv' => Lineage!ServedSound'
  BY ServedIsSound, PTL
<1>4. CacheInv /\ CacheInv' /\ [Next]_vars => [Lineage!Next]_(Lineage!lineageVars)
  <2> SUFFICES ASSUME CacheInv, CacheInv', [Next]_vars
               PROVE  Lineage!Revoke \/ \E b \in Bundle : Lineage!Accept(b)
    BY <1>3 DEF Lineage!Next
  <2>1. ASSUME NEW b \in Bundle, Activate(b)
        PROVE  Lineage!Accept(b)
    BY <2>1, ActivateAccepts DEF CacheInv
  <2>2. ASSUME UNCHANGED <<generations, highWater>>, revoked \subseteq revoked'
        PROVE  Lineage!Revoke
    <3>1. [p \in Policy |-> LastOf(p)]' = [p \in Policy |-> LastOf(p)]
      BY <2>2 DEF LastOf, RowsOf
    <3> QED
      BY <2>2, <3>1 DEF Lineage!Revoke, LastOf
  <2> QED
    BY <2>1, <2>2 DEF Next, ApplyRevocation, Rollback, TrustChanges, vars
<1> QED
  BY <1>1, <1>2, <1>4, InitCache, PTL DEF Spec, ImplementsLineage, Lineage!Spec
-----------------------------------------------------------------------------
(* The daemon over the cache *)

\* Whatever the handlers do, the tables take steps of the cache or none.
LEMMA DaemonStepIsCacheStep == [DaemonNext]_daemonVars => [Next]_vars
<1> SUFFICES ASSUME [DaemonNext]_daemonVars
             PROVE  [Next]_vars
  OBVIOUS
<1>1. ASSUME NEW h \in Handler, NEW b \in Bundle, IngestBundle(h, b)
      PROVE  [Next]_vars
  BY <1>1 DEF IngestBundle, Next
<1>2. ASSUME NEW h \in Handler, NEW l \in List, IngestRevocation(h, l)
      PROVE  [Next]_vars
  BY <1>2 DEF IngestRevocation, Next
<1>3. ASSUME NEW h \in Handler, Reload(h)
      PROVE  [Next]_vars
  BY <1>3 DEF Reload, ReadSlots, ReadRevocations, Publish, LoadFails
<1>4. CASE Restart
  BY <1>4 DEF Restart
<1>5. ASSUME NEW b \in Lapsing, KeyWindow(b)
      PROVE  [Next]_vars
  BY <1>5, LapsingType DEF KeyWindow, Next
<1>6. CASE UNCHANGED daemonVars
  BY <1>6 DEF daemonVars
<1> QED
  BY <1>1, <1>2, <1>3, <1>4, <1>5, <1>6 DEF DaemonNext

\* The daemon, with any number of handlers and a restart at any point, uses
\* the cache as PolicyCache says: what is proved of the cache holds in it.
THEOREM DaemonUsesCache == DaemonSpec => Spec
<1>1. DaemonInit => Init
  BY DEF DaemonInit
<1> QED
  BY <1>1, DaemonStepIsCacheStep, PTL DEF DaemonSpec, Spec

\* No step of the daemon but an activation adds a generation, and none goes.
LEMMA GenerationsStay ==
  ASSUME TypeOK, [DaemonNext]_daemonVars
  PROVE  /\ Len(generations) \in Nat /\ Len(generations') \in Nat
         /\ Len(generations) <= Len(generations')
         /\ TypeOK'
<1>1. TypeOK'
  BY DaemonStepIsCacheStep, StepType
<1>2. Len(generations) \in Nat /\ Len(generations') \in Nat
  BY <1>1 DEF TypeOK
<1>3. ASSUME NEW b \in Bundle, Activate(b)
      PROVE  Len(generations) <= Len(generations')
  <2>1. Len(generations') = Len(generations) + 1
    BY <1>3, Appended
  <2> QED
    BY <1>2, <1>3, <2>1 DEF Activate
<1>4. ASSUME NEW l \in List, ApplyRevocation(l)
      PROVE  Len(generations) <= Len(generations')
  BY <1>2, <1>4 DEF ApplyRevocation
<1>5. ASSUME UNCHANGED generations
      PROVE  Len(generations) <= Len(generations')
  <2>1. Len(generations) <= Len(generations)
    BY <1>2
  <2> QED
    BY <1>5, <2>1
<1>6. \/ \E b \in Bundle : Activate(b)
      \/ \E l \in List : ApplyRevocation(l)
      \/ UNCHANGED generations
  BY DEF DaemonNext, daemonVars, IngestBundle, IngestRevocation, Reload, ReadSlots,
         ReadRevocations, Publish, LoadFails, Restart, KeyWindow, TrustChanges, vars
<1> QED
  BY <1>1, <1>2, <1>3, <1>4, <1>5, <1>6

\* A reload finds one of the slots it is given, or nothing.
LEMMA LoadedIsSlot ==
  ASSUME NEW n \in Nat, NEW a \in 0 .. n, NEW k \in 0 .. n, NEW R, NEW T
  PROVE  Loaded(a, k, R, T) \in 0 .. n
BY DEF Loaded

LEMMA DaemonStepType == DaemonTypeOK /\ [DaemonNext]_daemonVars => DaemonTypeOK'
<1> SUFFICES ASSUME DaemonTypeOK, [DaemonNext]_daemonVars
             PROVE  DaemonTypeOK'
  OBVIOUS
<1>0. /\ Len(generations) \in Nat /\ Len(generations') \in Nat
      /\ Len(generations) <= Len(generations')
      /\ TypeOK'
  BY GenerationsStay DEF DaemonTypeOK
<1>1. PICK N, M : N = 0 .. Len(generations) /\ M = 0 .. Len(generations')
  OBVIOUS
<1>2. N \subseteq M /\ 0 \in N
  BY <1>0, <1>1
<1> DEFINE Slots == [active : N, lkg : N]
           Local == /\ hpc \in [Handler -> {"idle", "reload", "slots_read", "loaded"}]
                    /\ slots \in [Handler -> Slots] /\ loaded \in [Handler -> N]
                    /\ shown \in N /\ failed \in BOOLEAN
                    /\ asOf \in [Handler -> SUBSET Bundle] /\ lastNow \subseteq Bundle
<1>3. active \in N /\ lkg \in N /\ trusted \subseteq Bundle /\ Local
  BY <1>1 DEF DaemonTypeOK, TypeOK
<1>4. \A h \in Handler : Loaded(slots[h].active, slots[h].lkg, revoked, asOf[h]) \in N
  <2> TAKE h \in Handler
  <2>1. slots[h].active \in N /\ slots[h].lkg \in N
    BY <1>3
  <2> QED
    BY <1>0, <1>1, <2>1, LoadedIsSlot
<1>5. Loaded(active, lkg, revoked, trusted) \in N
  BY <1>0, <1>1, <1>3, LoadedIsSlot
<1>6. NoSlots \in Slots /\ [active |-> active, lkg |-> lkg] \in Slots
  BY <1>2, <1>3 DEF NoSlots
<1>7. Local'
  <2> HIDE DEF Slots
  <2>1. ASSUME NEW h \in Handler, GoesOnToReload(h)
        PROVE  Local'
    BY <1>3, <2>1 DEF GoesOnToReload
  <2>2. ASSUME NEW h \in Handler, ReadSlots(h)
        PROVE  Local'
    BY <1>3, <1>6, <2>2 DEF ReadSlots
  <2>3. ASSUME NEW h \in Handler, ReadRevocations(h)
        PROVE  Local'
    BY <1>3, <1>4, <2>3 DEF ReadRevocations
  <2>4. ASSUME NEW h \in Handler, Publish(h) \/ LoadFails(h)
        PROVE  Local'
    <3>1. /\ hpc' = [hpc EXCEPT ![h] = "idle"]
          /\ slots' = [slots EXCEPT ![h] = NoSlots]
          /\ loaded' = [loaded EXCEPT ![h] = 0]
          /\ asOf' = [asOf EXCEPT ![h] = {}] /\ lastNow' = lastNow
      BY <2>4 DEF Publish, LoadFails, Forget
    <3>2. loaded[h] \in N
      BY <1>3
    <3>3. shown' = loaded[h] \/ shown' = shown
      BY <2>4 DEF Publish, LoadFails
    <3>4. failed' \in BOOLEAN
      BY <2>4 DEF Publish, LoadFails
    <3>5. shown' \in N
      BY <1>3, <3>2, <3>3
    <3> QED
      BY <1>2, <1>3, <1>6, <3>1, <3>4, <3>5
  <2>5. CASE Restart
    BY <1>2, <1>3, <1>5, <1>6, <2>5 DEF Restart
  <2>6. ASSUME NEW b \in Lapsing, KeyWindow(b)
        PROVE  Local'
    BY <1>3, <2>6 DEF KeyWindow
  <2>7. CASE UNCHANGED daemonVars
    BY <1>3, <2>7 DEF daemonVars
  <2> HIDE DEF Local
  <2> QED
    BY <2>1, <2>2, <2>3, <2>4, <2>5, <2>6, <2>7 DEF DaemonNext, IngestBundle, IngestRevocation, Reload
<1>8. slots' \in [Handler -> [active : M, lkg : M]] /\ loaded' \in [Handler -> M] /\ shown' \in M
  <2>1. Slots \subseteq [active : M, lkg : M]
    BY <1>2
  <2> HIDE DEF Slots
  <2> QED
    BY <1>2, <1>7, <2>1
<1> QED
  BY <1>0, <1>1, <1>7, <1>8 DEF DaemonTypeOK

\* The handlers' locals and the snapshot name generations that exist.
THEOREM DaemonTypeCorrect == DaemonSpec => []DaemonTypeOK
<1>1. DaemonInit => DaemonTypeOK
  <2> SUFFICES ASSUME DaemonInit
               PROVE  DaemonTypeOK
    OBVIOUS
  <2>1. TypeOK
    BY InitType DEF DaemonInit
  <2>2. 0 \in 0 .. Len(generations)
    BY <2>1 DEF TypeOK
  <2>3. NoSlots \in [active : 0 .. Len(generations), lkg : 0 .. Len(generations)]
    BY <2>2 DEF NoSlots
  <2>4. lastNow \subseteq Bundle
    BY <2>1 DEF DaemonInit, TypeOK
  <2> QED
    BY <2>1, <2>2, <2>3, <2>4 DEF DaemonInit, DaemonTypeOK
<1> QED
  BY <1>1, DaemonStepType, PTL DEF DaemonSpec

-----------------------------------------------------------------------------
(* One handler *)

\* One task submits: a daemon whose poller is not configured.
Sole == \A g, h \in Handler : g = h

\* What the one handler has read is still what the tables hold, and the
\* instant it verifies at is that of the last submission.
ReloadCurrent ==
    /\ SnapshotFreshAtRest
    /\ \A h \in Handler :
         /\ hpc[h] # "idle" => asOf[h] = lastNow
         /\ hpc[h] = "slots_read" => slots[h] = [active |-> active, lkg |-> lkg]
         /\ hpc[h] = "loaded" => loaded[h] = Loaded(active, lkg, revoked, lastNow)

LEMMA ReloadStaysCurrent ==
  ASSUME Sole, DaemonTypeOK, ReloadCurrent, [DaemonNext]_daemonVars
  PROVE  ReloadCurrent'
<1>1. ASSUME NEW h \in Handler, GoesOnToReload(h)
      PROVE  ReloadCurrent'
  <2>1. \A g \in Handler : hpc'[g] = "reload" /\ asOf'[g] = lastNow'
    BY <1>1 DEF Sole, GoesOnToReload, DaemonTypeOK
  <2> QED
    BY <2>1 DEF ReloadCurrent, SnapshotFreshAtRest, AtRest
<1>2. ASSUME NEW T, UNCHANGED <<envelope, generations, active, lkg, revoked>>
      PROVE  Loaded(active, lkg, revoked, T)' = Loaded(active, lkg, revoked, T)
  BY <1>2 DEF Loaded, GenerationUsable, Members, UsableUnder
<1>3. ASSUME NEW h \in Handler, ReadSlots(h)
      PROVE  ReloadCurrent'
  <2>1. /\ \A g \in Handler : hpc'[g] = "slots_read" /\ slots'[g] = [active |-> active, lkg |-> lkg]
        /\ active' = active /\ lkg' = lkg
        /\ asOf' = asOf /\ lastNow' = lastNow /\ hpc[h] = "reload"
    BY <1>3 DEF Sole, ReadSlots, DaemonTypeOK, vars
  <2>2. \A g \in Handler : asOf'[g] = lastNow'
    BY <2>1 DEF Sole, ReloadCurrent
  <2> QED
    BY <2>1, <2>2 DEF ReloadCurrent, SnapshotFreshAtRest, AtRest
<1>4. ASSUME NEW h \in Handler, ReadRevocations(h)
      PROVE  ReloadCurrent'
  <2>1. /\ \A g \in Handler :
             /\ hpc'[g] = "loaded"
             /\ loaded'[g] = Loaded(slots[h].active, slots[h].lkg, revoked, asOf[h])
        /\ asOf' = asOf /\ lastNow' = lastNow
    BY <1>4 DEF Sole, ReadRevocations, DaemonTypeOK
  <2>2. slots[h].active = active /\ slots[h].lkg = lkg /\ asOf[h] = lastNow
    BY <1>4 DEF ReadRevocations, ReloadCurrent
  <2>3. UNCHANGED <<envelope, generations, active, lkg, revoked>>
    BY <1>4 DEF ReadRevocations, vars
  <2>4. \A g \in Handler : asOf'[g] = lastNow'
    BY <2>1, <2>2 DEF Sole
  <2> QED
    BY <1>2, <2>1, <2>2, <2>3, <2>4 DEF ReloadCurrent, SnapshotFreshAtRest, AtRest
<1>5. ASSUME NEW h \in Handler, Publish(h)
      PROVE  ReloadCurrent'
  <2>1. /\ \A g \in Handler : hpc'[g] = "idle"
        /\ shown' = Loaded(active, lkg, revoked, lastNow) /\ lastNow' = lastNow
        /\ UNCHANGED <<envelope, generations, active, lkg, revoked>>
    BY <1>5 DEF Sole, Publish, Forget, DaemonTypeOK, ReloadCurrent, vars
  <2> QED
    BY <1>2, <2>1 DEF ReloadCurrent, SnapshotFreshAtRest
<1>6. ASSUME NEW h \in Handler, LoadFails(h)
      PROVE  ReloadCurrent'
  <2>1. (\A g \in Handler : hpc'[g] = "idle") /\ failed'
    BY <1>6 DEF Sole, LoadFails, Forget, DaemonTypeOK
  <2> QED
    BY <2>1 DEF ReloadCurrent, SnapshotFreshAtRest
<1>7. CASE Restart
  <2>1. /\ \A g \in Handler : hpc'[g] = "idle"
        /\ UNCHANGED <<envelope, generations, active, lkg, revoked>> /\ lastNow' = trusted
    BY <1>7 DEF Restart, vars
  <2>2. failed' \/ shown' = Loaded(active, lkg, revoked, trusted)
    BY <1>7 DEF Restart
  <2> QED
    BY <1>2, <2>1, <2>2 DEF ReloadCurrent, SnapshotFreshAtRest
<1>8. ASSUME UNCHANGED <<envelope, generations, active, lkg, revoked,
                         hpc, asOf, slots, loaded, shown, failed, lastNow>>
      PROVE  ReloadCurrent'
  <2>1. Loaded(active, lkg, revoked, lastNow)' = Loaded(active, lkg, revoked, lastNow)
    BY <1>2, <1>8
  <2> QED
    BY <1>8, <2>1 DEF ReloadCurrent, SnapshotFreshAtRest, AtRest
<1>9. ASSUME NEW b \in Lapsing, KeyWindow(b)
      PROVE  ReloadCurrent'
  BY <1>8, <1>9 DEF KeyWindow, TrustChanges
<1>10. CASE UNCHANGED daemonVars
  BY <1>8, <1>10 DEF daemonVars, vars
<1> QED
  BY <1>1, <1>3, <1>4, <1>5, <1>6, <1>7, <1>9, <1>10
  DEF DaemonNext, IngestBundle, IngestRevocation, Reload

\* With one handler, the snapshot at rest is what the tables give with the keys
\* of the last submission or restart, for every cache content, with restarts,
\* failed reloads and the beginning and end of key windows at any point.
THEOREM SnapshotIsFresh ==
  ASSUME Sole
  PROVE  DaemonSpec => []SnapshotFreshAtRest
<1>1. DaemonInit => ReloadCurrent
  BY DEF DaemonInit, Init, ReloadCurrent, SnapshotFreshAtRest, Loaded, GenerationUsable
<1>2. DaemonTypeOK /\ ReloadCurrent /\ [DaemonNext]_daemonVars => ReloadCurrent'
  BY ReloadStaysCurrent
<1>3. ReloadCurrent => SnapshotFreshAtRest
  BY DEF ReloadCurrent
<1> QED
  BY <1>1, <1>2, <1>3, DaemonTypeCorrect, PTL DEF DaemonSpec

\* With one handler, a snapshot at rest serves nothing revoked: what the race
\* of two handlers can break is not broken by restarts or failed reloads.
THEOREM RevokedIsNotShown ==
  ASSUME Sole
  PROVE  DaemonSpec => []RevokedNotShownAtRest
<1>1. SnapshotFreshAtRest => RevokedNotShownAtRest
  <2> SUFFICES ASSUME shown = Loaded(active, lkg, revoked, lastNow), NEW m \in Members(shown)
               PROVE  ~ IsRevoked(m)
    BY DEF SnapshotFreshAtRest, RevokedNotShownAtRest
  <2>1. shown # 0
    BY DEF Members
  <2>2. GenerationUsable(shown, revoked, lastNow)
    BY <2>1 DEF Loaded
  <2> QED
    BY <2>2 DEF GenerationUsable, UsableUnder, IsRevoked
<1> QED
  BY <1>1, SnapshotIsFresh, PTL
=============================================================================
