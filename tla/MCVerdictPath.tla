-------------------------- MODULE MCVerdictPath --------------------------
(* Small instances of VerdictPath: claims c1 and c2 come from one turn,   *)
(* c3 from another.                                                        *)
EXTENDS VerdictPath, TLC

CONSTANTS h1, h2, h3, c1, c2, c3, e1, e2, p1, p2, t1, t2

Turns == [c \in Claim |-> IF c = c3 THEN t2 ELSE t1]
FromOutside == [e \in Evidence |-> IF e = e1 THEN {"UdsIngest"}
                                   ELSE {"DaemonAcquisition", "PrivilegedExecutor", "Unknown"}]
FromFirst == [e \in Evidence |-> p1]
OneVerifier == [c \in Claim |-> 1]
CallerSymmetry == Permutations(Caller)

\* Two claims of two turns: AnchorOf only ever tells them apart.
ClaimSymmetry == Permutations(Claim)
=============================================================================
