---------------------------- MODULE MCRetention ----------------------------
(* Retention of one session: an event with a claim, evidence, the          *)
(* consumption of that evidence and a finding (1, 3, 4, 5, 6), and of a    *)
(* second session with a single event (2).  Among the rows of one window   *)
(* the finding comes before its claim and the consumption before its       *)
(* evidence, the claim and the evidence after their event.                 *)
EXTENDS Retention

MCTable == <<"agent_events", "agent_events", "claims", "evidence",
             "evidence_consumption", "findings">>
MCRefs == <<{}, {}, {1}, {1}, {}, {3}>>
MCCites == <<{}, {}, {}, {}, {4}, {}>>
MCRank == <<2, 6, 3, 5, 4, 1>>
MCTenant == <<"s1", "s2", "s1", "s1", "s1", "s1">>
=============================================================================
