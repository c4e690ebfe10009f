--------------------------- MODULE PolicyLineage ---------------------------
(***************************************************************************)
(* What the local policy cache promises (ADR-0008, ADR-0009), without its  *)
(* generations, slots and tables: each policy is a lineage of bundles of   *)
(* one issuer that only moves forward, revocation is for ever, and what    *)
(* is served has once been accepted, is not revoked, and holds at most one *)
(* bundle of each policy.                                                  *)
(***************************************************************************)
EXTENDS Naturals

CONSTANTS Bundle, Policy, PolicyOf, IssuerOf, SequenceOf, RevisionOf, NoBundle

VARIABLES
    accepted,   \* accepted[p]: the last bundle accepted for policy p
    history,    \* every bundle ever accepted
    revoked,    \* bundles and revisions that must not be trusted again
    served      \* the bundles in force

lineageVars == <<accepted, history, revoked, served>>

IsRevoked(b) == b \in revoked \/ RevisionOf[b] \in revoked

Init ==
    /\ accepted = [p \in Policy |-> NoBundle]
    /\ history = {}
    /\ revoked = {}
    /\ served = {}

\* b continues the lineage of its policy.
Advances(b) ==
    LET last == accepted[PolicyOf[b]] IN
        last # NoBundle => IssuerOf[last] = IssuerOf[b] /\ SequenceOf[last] < SequenceOf[b]

Accept(b) ==
    /\ ~IsRevoked(b)
    /\ Advances(b)
    /\ accepted' = [accepted EXCEPT ![PolicyOf[b]] = b]
    /\ history' = history \cup {b}
    /\ UNCHANGED revoked

Revoke ==
    /\ revoked \subseteq revoked'
    /\ UNCHANGED <<accepted, history>>

ServedSound ==
    /\ served \subseteq history
    /\ \A b \in served : ~IsRevoked(b)
    /\ \A b, c \in served : PolicyOf[b] = PolicyOf[c] => b = c

\* What is served may change at any step.
Next ==
    /\ Revoke \/ \E b \in Bundle : Accept(b)
    /\ ServedSound'

Spec == Init /\ [][Next]_lineageVars
=============================================================================
