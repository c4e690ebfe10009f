---------------------------- MODULE MCCodexTail ----------------------------
(* A small instance of the codex rollout watcher. *)
EXTENDS CodexTail
=============================================================================
