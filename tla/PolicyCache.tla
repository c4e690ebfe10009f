---------------------------- MODULE PolicyCache ----------------------------
(***************************************************************************)
(* The local policy cache of fornax-store (policy_cache.rs) with the       *)
(* decisions of fornax-types (policy/cache.rs).                            *)
(*                                                                         *)
(* A bundle stands for the pair of its bundle_id and its payload_digest.   *)
(* Every submission runs in one BEGIN IMMEDIATE transaction, so each is    *)
(* one action.  Expiry only turns submissions away, and a reload rewinds   *)
(* the clock for an expired member, so it is left out; timestamps are too, *)
(* which makes Confirm a step that changes nothing here.                   *)
(***************************************************************************)
EXTENDS Naturals, Sequences

CONSTANTS
    Bundle, BundleId, Policy, Issuer, Revision, List,
    IdOf,           \* bundle_id
    PolicyOf,       \* policy_id; members of a generation are sorted by it
    IssuerOf, SequenceOf,
    RevisionOf,     \* revision_digest
    ListIssuer, ListSequence,
    Targets,        \* Targets[l]: the bundles and revisions the list l revokes
    AllowRollback,  \* whether rollback_policy_to_last_known_good is called
    NoBundle, NoList

Target == Bundle \cup Revision

ASSUME BundleType ==
    /\ Policy \subseteq Nat
    /\ IdOf \in [Bundle -> BundleId]
    /\ PolicyOf \in [Bundle -> Policy]
    /\ IssuerOf \in [Bundle -> Issuer]
    /\ SequenceOf \in [Bundle -> Nat]
    /\ RevisionOf \in [Bundle -> Revision]
    /\ NoBundle \notin Bundle
ASSUME ListType ==
    /\ ListIssuer \in [List -> Issuer]
    /\ ListSequence \in [List -> Nat]
    /\ Targets \in [List -> SUBSET Target]
    /\ NoList \notin List
ASSUME RollbackType == AllowRollback \in BOOLEAN

VARIABLES
    envelope,       \* policy_cache_bundles: whose envelope bytes the row of b holds
    generations,    \* the member set of each generation, in order
    active, lkg,    \* policy_cache_slots: generation numbers, 0 for NULL
    highWater,      \* policy_sequence_high_water: the last bundle per issuer and policy
    revoked,        \* policy_revocations
    lastList,       \* policy_revocation_state: the last list per issuer
    trusted         \* bundles whose envelope verifies with today's trust store

vars == <<envelope, generations, active, lkg, highWater, revoked, lastList, trusted>>

Init ==
    /\ envelope = [b \in Bundle |-> NoBundle]
    /\ generations = <<>>
    /\ active = 0
    /\ lkg = 0
    /\ highWater = [k \in Issuer \X Policy |-> NoBundle]
    /\ revoked = {}
    /\ lastList = [i \in Issuer |-> NoList]
    /\ trusted = Bundle

\* load_generation
Members(g) == IF g = 0 THEN {} ELSE generations[g]

\* RevocationSet::hit
IsRevoked(b) == b \in revoked \/ RevisionOf[b] \in revoked

-----------------------------------------------------------------------------
(* evaluate_activation *)

\* Lineages are not bound to an issuer.
BoundNowhere(b) == FALSE

\* A high-water row of the policy exists under another issuer.
BoundElsewhere(b) ==
    \E i \in Issuer \ {IssuerOf[b]} : highWater[<<i, PolicyOf[b]>>] # NoBundle

HighWaterOf(b) == highWater[<<IssuerOf[b], PolicyOf[b]>>]

Acceptable(b) == b \in trusted /\ ~IsRevoked(b) /\ ~BoundElsewhere(b)

\* Any sequence but the recorded one passes for an advance.
AdvancesByDiffering(b) ==
    HighWaterOf(b) # NoBundle => SequenceOf[HighWaterOf(b)] # SequenceOf[b]

\* The sequence check: no row yet, or a sequence beyond it.
Advances(b) ==
    HighWaterOf(b) # NoBundle => SequenceOf[HighWaterOf(b)] < SequenceOf[b]

\* The same sequence with the same bundle_id and payload_digest.
Confirms(b) == Acceptable(b) /\ HighWaterOf(b) = b

Activates(b) == Acceptable(b) /\ Advances(b)

\* The members of the next generation.
NewMembers(b) == {m \in Members(active) : PolicyOf[m] # PolicyOf[b]} \cup {b}

-----------------------------------------------------------------------------
(* submit_policy_bundle *)

\* members.iter().find(|m| m.bundle_id == ...), in the order of policy_id.
FirstWithId(S, id) ==
    CHOOSE m \in S : /\ IdOf[m] = id
                     /\ \A n \in S : IdOf[n] = id => PolicyOf[m] <= PolicyOf[n]

\* INSERT OR IGNORE of the candidate's bytes, under the key of that member.
StoreEnvelope(b) ==
    LET row == FirstWithId(NewMembers(b), IdOf[b]) IN
        envelope' = IF envelope[row] = NoBundle
                    THEN [envelope EXCEPT ![row] = b]
                    ELSE envelope

\* persist_activation
Activate(b) ==
    /\ Activates(b)
    /\ StoreEnvelope(b)
    /\ generations' = Append(generations, NewMembers(b))
    /\ active' = Len(generations) + 1
    /\ lkg' = active
    /\ highWater' = [highWater EXCEPT ![<<IssuerOf[b], PolicyOf[b]>>] = b]
    /\ UNCHANGED <<revoked, lastList, trusted>>

-----------------------------------------------------------------------------
(* submit_policy_revocation *)

\* evaluate_revocation_ingest decides Apply; an equal sequence is AlreadyCurrent.
Applies(l) ==
    LET last == lastList[ListIssuer[l]] IN
        last # NoList => ListSequence[last] < ListSequence[l]

\* A newer list replaces what the older ones revoked.
ApplyReplacing(l) ==
    /\ Applies(l)
    /\ revoked' = Targets[l]
    /\ lastList' = [lastList EXCEPT ![ListIssuer[l]] = l]
    /\ UNCHANGED <<envelope, generations, active, lkg, highWater, trusted>>

\* persist_revocation_apply: union only.
ApplyRevocation(l) ==
    /\ Applies(l)
    /\ revoked' = revoked \cup Targets[l]
    /\ lastList' = [lastList EXCEPT ![ListIssuer[l]] = l]
    /\ UNCHANGED <<envelope, generations, active, lkg, highWater, trusted>>

-----------------------------------------------------------------------------
\* Rollback also takes the high-water rows back to the members it restores.
RollbackHighWater ==
    /\ AllowRollback
    /\ active # lkg
    /\ active' = lkg
    /\ highWater' = [k \in Issuer \X Policy |->
            IF \E m \in Members(lkg) : k = <<IssuerOf[m], PolicyOf[m]>>
            THEN CHOOSE m \in Members(lkg) : k = <<IssuerOf[m], PolicyOf[m]>>
            ELSE NoBundle]
    /\ UNCHANGED <<envelope, generations, lkg, revoked, lastList, trusted>>

\* rollback_policy_to_last_known_good
Rollback ==
    /\ AllowRollback
    /\ active # lkg
    /\ active' = lkg
    /\ UNCHANGED <<envelope, generations, lkg, highWater, revoked, lastList, trusted>>

\* Keys are retired as time passes; a restart reads a trust store that may
\* have lost or regained keys.
TrustChanges(b) ==
    /\ trusted' = IF b \in trusted THEN trusted \ {b} ELSE trusted \cup {b}
    /\ UNCHANGED <<envelope, generations, active, lkg, highWater, revoked, lastList>>

Next ==
    \/ \E b \in Bundle : Activate(b)
    \/ \E l \in List : ApplyRevocation(l)
    \/ Rollback
    \/ \E b \in Bundle : TrustChanges(b)

Spec == Init /\ [][Next]_vars

-----------------------------------------------------------------------------
(* load_policy_cache *)

\* One round of try_generation_usable, under the revocations R and with the
\* keys that verify the envelopes T at the `now' of the load.
UsableUnder(m, R, T) ==
    /\ m \notin R /\ RevisionOf[m] \notin R
    /\ envelope[m] \in T

\* try_generation_usable: every member, or nothing.
GenerationUsable(g, R, T) == g # 0 /\ \A m \in Members(g) : UsableUnder(m, R, T)

\* The fallback is trusted without a second look.
LoadedUnchecked(a, k, R, T) == IF GenerationUsable(a, R, T) THEN a ELSE k

\* The generation that is served, given the slots and the revocations read.
Loaded(a, k, R, T) ==
    IF GenerationUsable(a, R, T) THEN a
    ELSE IF GenerationUsable(k, R, T) THEN k ELSE 0

\* The bound revisions of the loaded generation, by the bundle they come from.
Content(g) == {envelope[m] : m \in Members(g)}

Served == Content(Loaded(active, lkg, revoked, trusted))

-----------------------------------------------------------------------------
(* Properties *)

TypeOK ==
    /\ envelope \in [Bundle -> Bundle \cup {NoBundle}]
    /\ generations \in Seq(SUBSET Bundle)
    /\ active \in 0 .. Len(generations)
    /\ lkg \in 0 .. Len(generations)
    /\ highWater \in [Issuer \X Policy -> Bundle \cup {NoBundle}]
    /\ revoked \subseteq Target
    /\ lastList \in [Issuer -> List \cup {NoList}]
    /\ trusted \subseteq Bundle

\* Every member of every generation resolves to its own stored envelope: what
\* the cache re-verifies is what was activated (the comment on RawMemberRow).
MembersResolve ==
    \A g \in 1 .. Len(generations) : \A m \in generations[g] : envelope[m] = m

\* A policy is bound to one issuer for ever; a generation holds one bundle of a
\* policy, and none beyond the high-water row of its issuer and policy.
LineageSound ==
    /\ \A i, j \in Issuer, p \in Policy :
         highWater[<<i, p>>] # NoBundle /\ highWater[<<j, p>>] # NoBundle => i = j
    /\ \A g \in 1 .. Len(generations) : \A m \in generations[g] :
         /\ \A n \in generations[g] : PolicyOf[m] = PolicyOf[n] => m = n
         /\ HighWaterOf(m) # NoBundle
         /\ SequenceOf[m] <= SequenceOf[HighWaterOf(m)]

\* The anti-rollback memory never moves back, not even by a rollback.
HighWaterNeverLowered ==
    [][\A k \in Issuer \X Policy :
         highWater[k] # NoBundle =>
           /\ highWater'[k] # NoBundle
           /\ SequenceOf[highWater[k]] <= SequenceOf[highWater'[k]]]_vars

\* A submission never replaces the active bundle of a policy by an older one,
\* also when a rollback has put an older one back before.
NoDowngrade ==
    [][Len(generations') > Len(generations) =>
         \A m \in Members(active), n \in generations'[active'] :
            PolicyOf[m] = PolicyOf[n] => SequenceOf[m] <= SequenceOf[n]]_vars

\* What is reloaded contains nothing revoked, from either slot.
RevokedNeverServed == \A b \in Served : ~IsRevoked(b)

-----------------------------------------------------------------------------
(* The cache implements PolicyLineage. *)

RowsOf(p) == {b \in Bundle : \E i \in Issuer : highWater[<<i, p>>] = b}

Lineage == INSTANCE PolicyLineage WITH
    accepted <- [p \in Policy |-> IF RowsOf(p) = {} THEN NoBundle
                                  ELSE CHOOSE b \in RowsOf(p) : TRUE],
    history <- UNION {generations[g] : g \in 1 .. Len(generations)},
    served <- Served

\* The tables, the generations and the two slots together keep the promise of
\* PolicyLineage.
ImplementsLineage == Lineage!Spec
=============================================================================
