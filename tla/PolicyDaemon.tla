---------------------------- MODULE PolicyDaemon ----------------------------
(***************************************************************************)
(* The policy snapshot of fornax-daemon (AppState::policy) over the        *)
(* PolicyCache of fornax-store.                                            *)
(*                                                                         *)
(* Two tasks submit artifacts: the UDS ingest, one message at a time under *)
(* AppState::processing, and the policy poller, which does not take that   *)
(* lock.  After a submission that changed or confirmed something, the same *)
(* task reloads the cache and then overwrites the snapshot.  The reload is *)
(* not a transaction: it reads the slots, then the revocations.            *)
(* Generations and envelopes never change once written, so reading them    *)
(* is part of the second step.  The poller submits a revocation list       *)
(* before the bundles of the same answer; here either handler submits in   *)
(* any order.                                                              *)
(*                                                                         *)
(* The trust store is read once at startup, but the windows of its keys    *)
(* begin and end as time passes.  A handler takes `now' once, when it      *)
(* submits, and verifies the reload at that instant, however late the      *)
(* reload is; a restart verifies at its own.                               *)
(***************************************************************************)
EXTENDS PolicyCache

CONSTANTS
    Handler,        \* the tasks that submit policy artifacts
    Lapsing         \* bundles whose keys come and go while the daemon is observed

ASSUME LapsingType == Lapsing \subseteq Bundle

VARIABLES
    hpc,            \* where each handler is
    asOf,           \* asOf[h]: what verifies at the `now' of its submission
    slots,          \* slots[h]: the active and last-known-good generations it read
    loaded,         \* loaded[h]: the generation its reload found usable
    shown,          \* the generation behind AppState::policy, 0 for none
    failed,         \* the last reload ended in an error (history: it is logged)
    lastNow         \* history: what verified at the last submission or restart

daemonVars == <<vars, hpc, asOf, slots, loaded, shown, failed, lastNow>>

NoSlots == [active |-> 0, lkg |-> 0]

DaemonInit ==
    /\ Init
    /\ hpc = [h \in Handler |-> "idle"]
    /\ asOf = [h \in Handler |-> {}]
    /\ slots = [h \in Handler |-> NoSlots]
    /\ loaded = [h \in Handler |-> 0]
    /\ shown = 0
    /\ failed = FALSE
    /\ lastNow = trusted

-----------------------------------------------------------------------------
\* A rejected or already current artifact only touches last_rejection and logs.
GoesOnToReload(h) ==
    /\ hpc[h] = "idle"
    /\ hpc' = [hpc EXCEPT ![h] = "reload"]
    /\ asOf' = [asOf EXCEPT ![h] = trusted]
    /\ lastNow' = trusted
    /\ UNCHANGED <<slots, loaded, shown, failed>>

StaysIdle(h) ==
    /\ hpc[h] = "idle"
    /\ UNCHANGED <<hpc, asOf, slots, loaded, shown, failed, lastNow>>

\* handle_policy_bundle_ingest: Activated or Confirmed
IngestBundle(h, b) ==
    /\ Activate(b) \/ (Confirms(b) /\ UNCHANGED vars)
    /\ GoesOnToReload(h)

\* The revocation is stored and the snapshot is left for later.
IngestRevocationOnly(h, l) ==
    /\ ApplyRevocation(l)
    /\ StaysIdle(h)

\* handle_policy_revocation_ingest: Applied
IngestRevocation(h, l) ==
    /\ ApplyRevocation(l)
    /\ GoesOnToReload(h)

\* The first reads of load_state_from_conn.
ReadSlots(h) ==
    /\ hpc[h] = "reload"
    /\ slots' = [slots EXCEPT ![h] = [active |-> active, lkg |-> lkg]]
    /\ hpc' = [hpc EXCEPT ![h] = "slots_read"]
    /\ UNCHANGED <<vars, asOf, loaded, shown, failed, lastNow>>

\* load_revocations and the rest of load_policy_cache.
ReadRevocations(h) ==
    /\ hpc[h] = "slots_read"
    /\ loaded' = [loaded EXCEPT
         ![h] = Loaded(slots[h].active, slots[h].lkg, revoked, asOf[h])]
    /\ hpc' = [hpc EXCEPT ![h] = "loaded"]
    /\ UNCHANGED <<vars, asOf, slots, shown, failed, lastNow>>

\* The handler forgets what it read.
Forget(h) ==
    /\ hpc' = [hpc EXCEPT ![h] = "idle"]
    /\ asOf' = [asOf EXCEPT ![h] = {}]
    /\ slots' = [slots EXCEPT ![h] = NoSlots]
    /\ loaded' = [loaded EXCEPT ![h] = 0]

\* A result of nothing usable leaves the last snapshot in place.
PublishUnlessEmpty(h) ==
    /\ hpc[h] = "loaded"
    /\ shown' = IF loaded[h] = 0 THEN shown ELSE loaded[h]
    /\ failed' = FALSE
    /\ Forget(h)
    /\ UNCHANGED <<vars, lastNow>>

\* The assignments under the write lock of AppState::policy.
Publish(h) ==
    /\ hpc[h] = "loaded"
    /\ shown' = loaded[h]
    /\ failed' = FALSE
    /\ Forget(h)
    /\ UNCHANGED <<vars, lastNow>>

\* The error is logged and the old snapshot stays.
LoadFails(h) ==
    /\ hpc[h] \in {"reload", "slots_read"}
    /\ failed' = TRUE
    /\ Forget(h)
    /\ UNCHANGED <<vars, shown, lastNow>>

\* The daemon stops anywhere and loads the cache before it serves again; when
\* that fails it starts with an empty snapshot.
Restart ==
    /\ \/ shown' = Loaded(active, lkg, revoked, trusted) /\ failed' = FALSE
       \/ shown' = 0 /\ failed' = TRUE
    /\ lastNow' = trusted
    /\ hpc' = [h \in Handler |-> "idle"]
    /\ asOf' = [h \in Handler |-> {}]
    /\ slots' = [h \in Handler |-> NoSlots]
    /\ loaded' = [h \in Handler |-> 0]
    /\ UNCHANGED vars

\* The window of a key begins or ends.
KeyWindow(b) ==
    /\ TrustChanges(b)
    /\ UNCHANGED <<hpc, asOf, slots, loaded, shown, failed, lastNow>>

Reload(h) == ReadSlots(h) \/ ReadRevocations(h) \/ Publish(h) \/ LoadFails(h)

DaemonNext ==
    \/ \E h \in Handler, b \in Bundle : IngestBundle(h, b)
    \/ \E h \in Handler, l \in List : IngestRevocation(h, l)
    \/ \E h \in Handler : Reload(h)
    \/ \E b \in Lapsing : KeyWindow(b)
    \/ Restart

DaemonSpec == DaemonInit /\ [][DaemonNext]_daemonVars

\* A handler task that has submitted goes on to publish: it awaits only the
\* database and the snapshot's lock.
DaemonFairSpec ==
    DaemonSpec /\ \A h \in Handler : WF_daemonVars(Reload(h))

-----------------------------------------------------------------------------
(* Properties *)

DaemonTypeOK ==
    /\ TypeOK
    /\ hpc \in [Handler -> {"idle", "reload", "slots_read", "loaded"}]
    /\ slots \in [Handler -> [active : 0 .. Len(generations), lkg : 0 .. Len(generations)]]
    /\ loaded \in [Handler -> 0 .. Len(generations)]
    /\ shown \in 0 .. Len(generations)
    /\ failed \in BOOLEAN
    /\ asOf \in [Handler -> SUBSET Bundle]
    /\ lastNow \subseteq Bundle

AtRest == \A h \in Handler : hpc[h] = "idle"

\* When no submission is under way and the last reload succeeded, the snapshot
\* is what the slots and revocations of this moment give with the keys that
\* verified at the last submission or restart: every accepted change has taken
\* effect in AppState::policy, also across restarts at any point.  A key whose
\* window has ended since then has not: it acts at the next reload only.
SnapshotFreshAtRest ==
    AtRest /\ ~failed => shown = Loaded(active, lkg, revoked, lastNow)

\* When no submission is under way and the last reload succeeded, the snapshot
\* serves nothing revoked: revocation takes effect in a running daemon, not at
\* its next restart (the comment on handle_policy_revocation_ingest).
RevokedNotShownAtRest ==
    AtRest /\ ~failed => \A m \in Members(shown) : ~IsRevoked(m)

\* A revoked bundle leaves the snapshot, or a reload fails with an error.
RevocationTakesEffect ==
    \A m \in Bundle : IsRevoked(m) ~> (m \notin Members(shown) \/ failed)
=============================================================================
