------------------------- MODULE MCIngestTurnstile -------------------------
(* Instances of IngestTurnstile for TLC. *)
EXTENDS IngestTurnstile, TLC

CONSTANTS c1, c2, c3, h1, s1, s2

\* The hooks of one session, each with a connection of its own.
OneSession == [c \in Conn |-> {s1}]

\* c1 is a bridge that carries every session of its host.
Bridge == (c1 :> {s1, s2}) @@ (c2 :> {s2})
=============================================================================
