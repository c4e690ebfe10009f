-------------------------- MODULE MCEvidenceFusion --------------------------
(* Rows of two groups, one of them reported by the agent; a stale row of    *)
(* the same agent turn without a group; a row without any source, of        *)
(* unknown age.                                                             *)
EXTENDS EvidenceFusion

CONSTANTS g, h, t

Row(sourced, group, turn, age) ==
  [sourced |-> sourced, group |-> group, turn |-> turn, age |-> age]

ThreeIds == 1 .. 3
SensorRows ==
  { Row(TRUE, g, t, "fresh"), Row(TRUE, h, None, "fresh"),
    Row(TRUE, None, t, "stale"), Row(FALSE, None, None, "indeterminate") }
=============================================================================
