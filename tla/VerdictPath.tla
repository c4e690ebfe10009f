---------------------------- MODULE VerdictPath ----------------------------
(***************************************************************************)
(* How a claim becomes a finding: run_verifiers_and_persist_findings of    *)
(* fornax-daemon (main.rs) over the tables claims, evidence,               *)
(* runtime_capabilities, evidence_consumption and findings of              *)
(* fornax-store, for one session.                                          *)
(*                                                                         *)
(* Three callers reach it.  Claim ingest runs under AppState::processing,  *)
(* as do the messages that store evidence and capabilities: the one        *)
(* holder of that lock is the worker Ingest.  POST /api/reverify and       *)
(* /api/acquire-evidence run it on an existing claim without the lock.     *)
(* A run is given the session's cached capabilities, reads the evidence,   *)
(* reads the session's owner, records what it refused, and then, verifier  *)
(* by verifier, claims every evidence row a Verified finding cites in      *)
(* evidence_consumption before it stores the finding.  Each of these steps *)
(* is a transaction of its own.                                            *)
(*                                                                         *)
(* A run that was given no announced capabilities verifies nothing; what   *)
(* any other run concludes from the admitted evidence is left open.  The   *)
(* downgrade during a handoff is the business of IngestTurnstile and is    *)
(* one of the ways to conclude less than Verified here.                    *)
(***************************************************************************)
EXTENDS Naturals

CONSTANTS
    Claim, Evidence, Provider,
    Adapters,       \* the providers that announce capabilities for this session
    Caller,         \* concurrent HTTP requests
    Ingest,         \* the task that holds AppState::processing
    AnchorOf,       \* AnchorOf[c]: anchor_of(claim), its session and source event
    Origins,        \* Origins[e]: the ways the row may reach the store
    Authorized,     \* evidence with a source that CollectorAuthority accepts
    SourceProvider, \* SourceProvider[e]: source.provider of the evidence
    Verifiers,      \* Verifiers[c]: how many verifiers apply to the claim
    MaxFaults,      \* bound on failed writes, stopped runs and restarts
    NoClaim, NoProvider

Worker == Caller \cup {Ingest}

ASSUME IngestApart == Ingest \notin Caller
ASSUME NoClaimApart == NoClaim \notin Claim
ASSUME NoProviderApart == NoProvider \notin Provider
ASSUME AdaptersType == Adapters \subseteq Provider
\* EvidenceOrigin; a row stored before origins were stamped is "Unknown".
Origin == {"UdsIngest", "DaemonAcquisition", "PrivilegedExecutor", "Unknown"}

ASSUME OriginsType == Origins \in [Evidence -> SUBSET Origin]
ASSUME SourceProviderType == SourceProvider \in [Evidence -> Provider \cup {NoProvider}]
ASSUME VerifiersType == Verifiers \in [Claim -> Nat]
ASSUME MaxFaultsType == MaxFaults \in Nat

VARIABLES
    claims,         \* rows of claims
    origin,         \* ingress_origin of the rows of evidence ("Absent": no row)
    announced,      \* providers in runtime_capabilities for the session
    consumed,       \* evidence_consumption rows <<e, c>> with outcome 'consumed'
    quarantined,    \* evidence_consumption rows <<e, c>> with outcome 'quarantined'
    findings,       \* rows of findings
    cached,         \* AppState::caps: the provider whose snapshot is cached
    pc,             \* where each worker is in the run
    job,            \* the claim it verifies
    pool,           \* the evidence rows it has read, then the admitted ones
    rejected,       \* refused rows it has still to record
    left,           \* verifiers still to run
    cites,          \* evidence_ids of the finding in hand ({}: not Verified)
    todo,           \* those not yet passed to record_consumption
    replayed,       \* workers whose finding in hand met a replay
    able,           \* workers whose run was given an announced snapshot
    unrecorded,     \* history: evidence whose consumption record failed once
    aborted,        \* history: claims whose ingest run stopped half way
    faults          \* how many faults there have been

tables == <<claims, origin, announced, consumed, quarantined, findings>>
locals == <<pc, job, pool, rejected, left, cites, todo, replayed, able>>
history == <<unrecorded, aborted, faults>>
vars == <<claims, origin, announced, consumed, quarantined, findings, cached,
          pc, job, pool, rejected, left, cites, todo, replayed, able, unrecorded, aborted,
          faults>>

Finding == [claim : Claim, verdict : {"Verified", "NotVerified"}, cites : SUBSET Evidence]

Init ==
    /\ claims = {}
    /\ origin \in [Evidence -> {"Absent", "Unknown"}]           \* legacy rows
    /\ \A e \in Evidence : origin[e] = "Unknown" => "Unknown" \in Origins[e]
    /\ announced = {}
    /\ consumed = {}
    /\ quarantined = {}
    /\ findings = {}
    /\ cached = NoProvider
    /\ pc = [w \in Worker |-> "idle"]
    /\ job = [w \in Worker |-> NoClaim]
    /\ pool = [w \in Worker |-> {}]
    /\ rejected = [w \in Worker |-> {}]
    /\ left = [w \in Worker |-> 0]
    /\ cites = [w \in Worker |-> {}]
    /\ todo = [w \in Worker |-> {}]
    /\ replayed = {}
    /\ able = {}
    /\ unrecorded = {}
    /\ aborted = {}
    /\ faults = 0

\* Something goes wrong once more.
Fault == faults < MaxFaults /\ faults' = faults + 1

-----------------------------------------------------------------------------
(* Messages that only store, each under the processing lock. *)

LockFree == pc[Ingest] = "idle"

\* insert_evidence_with_origin: a row that is already there keeps its origin.
InsertEvidence(e, o) ==
    /\ o \in Origins[e]
    /\ origin' = IF origin[e] = "Absent" THEN [origin EXCEPT ![e] = o] ELSE origin

\* upsert_capabilities: one row per announcing provider.
UpsertCapabilities(p) == announced' = announced \cup {p}

\* insert_claim_idempotent_checked, when it finds no such row.
InsertClaim(c) ==
    /\ c \notin claims
    /\ claims' = claims \cup {c}

\* An Evidence line; a repeated one is a Duplicate and changes nothing.
IngestEvidence(e) ==
    /\ LockFree
    /\ InsertEvidence(e, "UdsIngest")
    /\ UNCHANGED <<claims, announced, consumed, quarantined, findings, cached, locals, history>>

\* The privileged executor is a process of its own: it writes to the store
\* without any lock of the daemon.
ExecutorEvidence(e) ==
    /\ InsertEvidence(e, "PrivilegedExecutor")
    /\ UNCHANGED <<claims, announced, consumed, quarantined, findings, cached, locals, history>>

\* The cache has one slot: the first provider to announce keeps it, and the
\* announcement of another one only writes its row.
CacheCapabilities(p) == cached' = IF cached = NoProvider THEN p ELSE cached

\* The capabilities row is written without the processing lock.
AnnounceUnlocked(p) ==
    /\ UpsertCapabilities(p)
    /\ CacheCapabilities(p)
    /\ UNCHANGED <<claims, origin, consumed, quarantined, findings, locals, history>>

\* A Capabilities line: the row, then the cache.  Runs outside the lock read
\* them in the other order, so none can tell that this is two steps.
Announce(p) ==
    /\ LockFree
    /\ UpsertCapabilities(p)
    /\ CacheCapabilities(p)
    /\ UNCHANGED <<claims, origin, consumed, quarantined, findings, locals, history>>

-----------------------------------------------------------------------------
(* Starting a run. *)

\* The worker reads the session's cached capabilities and enters
\* run_verifiers_and_persist_findings for claim c.
BeginRun(w, c) ==
    /\ pc' = [pc EXCEPT ![w] = "reading"]
    /\ job' = [job EXCEPT ![w] = c]
    /\ left' = [left EXCEPT ![w] = Verifiers[c]]
    /\ able' = IF cached = NoProvider THEN able ELSE able \cup {w}
    /\ UNCHANGED <<cached, pool, rejected, cites, todo, replayed>>

\* A Claim line.  A claim that is already stored is a retry and is skipped.
IngestClaim(c) ==
    /\ LockFree
    /\ InsertClaim(c)
    /\ BeginRun(Ingest, c)
    /\ UNCHANGED <<origin, announced, consumed, quarantined, findings, history>>

\* api_reverify
Reverify(h, c) ==
    /\ pc[h] = "idle"
    /\ c \in claims
    /\ BeginRun(h, c)
    /\ UNCHANGED <<tables, history>>

\* api_acquire_evidence, once the acquisition has produced evidence e.
AcquireEvidence(h, c, e) ==
    /\ pc[h] = "idle"
    /\ c \in claims
    /\ origin[e] = "Absent"
    /\ InsertEvidence(e, "DaemonAcquisition")
    /\ BeginRun(h, c)
    /\ UNCHANGED <<claims, announced, consumed, quarantined, findings, history>>

-----------------------------------------------------------------------------
(* Admission: admitted_evidence_for_session. *)

ReadEvidence(w) ==
    /\ pc[w] = "reading"
    /\ pool' = [pool EXCEPT ![w] = {e \in Evidence : origin[e] # "Absent"}]
    /\ pc' = [pc EXCEPT ![w] = "admitting"]
    /\ UNCHANGED <<job, rejected, left, cites, todo, replayed, able, cached, tables, history>>

\* The provider check of admission_decision, with session_owner inlined: no
\* announcement is Unknown, one provider is Single, several are Ambiguous.
OwnerAllows(e) ==
    \/ announced = {}
    \/ \E p \in Provider : announced = {p} /\ SourceProvider[e] \in {p, NoProvider}

\* admission_decision
Admits(e) ==
    \/ origin[e] \in {"DaemonAcquisition", "PrivilegedExecutor"}
    \/ origin[e] = "UdsIngest" /\ e \in Authorized /\ OwnerAllows(e)

ReadOwner(w) ==
    /\ pc[w] = "admitting"
    /\ pool' = [pool EXCEPT ![w] = {e \in @ : Admits(e)}]
    /\ rejected' = [rejected EXCEPT ![w] = {e \in pool[w] : ~Admits(e)}]
    /\ pc' = [pc EXCEPT ![w] = "recording"]
    /\ UNCHANGED <<job, left, cites, todo, replayed, able, cached, tables, history>>

\* record_admission_quarantine: ON CONFLICT (evidence_id, claim_id) DO NOTHING.
RecordAdmissionQuarantine(w, e) ==
    /\ pc[w] = "recording"
    /\ e \in rejected[w]
    /\ rejected' = [rejected EXCEPT ![w] = @ \ {e}]
    /\ quarantined' = IF <<e, job[w]>> \in consumed
                      THEN quarantined
                      ELSE quarantined \cup {<<e, job[w]>>}
    /\ UNCHANGED <<claims, origin, announced, consumed, findings, cached,
                   pc, job, pool, left, cites, todo, replayed, able, history>>

\* It fails instead: the error is logged and the loop goes on.
RecordQuarantineFails(w, e) ==
    /\ Fault
    /\ pc[w] = "recording"
    /\ e \in rejected[w]
    /\ rejected' = [rejected EXCEPT ![w] = @ \ {e}]
    /\ UNCHANGED <<pc, job, pool, left, cites, todo, replayed, able, cached, tables,
                   unrecorded, aborted>>

-----------------------------------------------------------------------------
(* The verifier loop. *)

\* One verifier has run: Verified, citing S, or anything less when S is empty.
\* Under default_unknown_caps no signal is observable and every verifier answers
\* Unavailable (the gate at the head of each verify in fornax-verify/src/lib.rs).
Conclude(w, S) ==
    /\ pc[w] = "recording"
    /\ rejected[w] = {}
    /\ left[w] > 0
    /\ S \subseteq pool[w]
    /\ S # {} => w \in able
    /\ cites' = [cites EXCEPT ![w] = S]
    /\ todo' = [todo EXCEPT ![w] = S]
    /\ pc' = [pc EXCEPT ![w] = "concluded"]
    /\ UNCHANGED <<job, pool, rejected, left, replayed, able, cached, tables, history>>

\* The claims that hold a 'consumed' row for e.
OwnersOf(e) == {c \in Claim : <<e, c>> \in consumed}

\* classify_consumption_by_anchor returns ReplayedAcrossClaims.
IsReplay(e, c) ==
    \E d \in OwnersOf(e) : d # c /\ AnchorOf[d] # AnchorOf[c]

\* Any claim but the first one takes the row over.
InsertConsumedAlways(e, c) == consumed' = consumed \cup {<<e, c>>}

\* The insert of record_consumption: only a fresh consumption writes a row,
\* and not over a 'quarantined' row of the same claim.
InsertConsumed(e, c) ==
    consumed' = IF OwnersOf(e) = {} /\ <<e, c>> \notin quarantined
                THEN consumed \cup {<<e, c>>}
                ELSE consumed

\* record_consumption, one BEGIN IMMEDIATE transaction.
RecordConsumption(w, e) ==
    /\ pc[w] = "concluded"
    /\ e \in todo[w]
    /\ todo' = [todo EXCEPT ![w] = @ \ {e}]
    /\ replayed' = IF IsReplay(e, job[w]) THEN replayed \cup {w} ELSE replayed
    /\ InsertConsumed(e, job[w])
    /\ UNCHANGED <<claims, origin, announced, quarantined, findings, cached,
                   pc, job, pool, rejected, left, cites, able, history>>

\* It fails instead (busy, full disk): the error is logged and the loop goes on.
RecordConsumptionFails(w, e) ==
    /\ Fault
    /\ pc[w] = "concluded"
    /\ e \in todo[w]
    /\ todo' = [todo EXCEPT ![w] = @ \ {e}]
    /\ unrecorded' = unrecorded \cup {e}
    /\ UNCHANGED <<pc, job, pool, rejected, left, cites, replayed, able, aborted, cached, tables>>

\* The replay outcome is looked up and then ignored.
KeepVerified(w) == IF cites[w] # {} THEN "Verified" ELSE "NotVerified"

\* The verdict that is stored: a replay turns Verified into Review.
FinalVerdict(w) ==
    IF cites[w] # {} /\ w \notin replayed THEN "Verified" ELSE "NotVerified"

\* What a finding cites matters only when it is Verified.
NewFinding(w) ==
    [claim |-> job[w], verdict |-> FinalVerdict(w),
     cites |-> IF FinalVerdict(w) = "Verified" THEN cites[w] ELSE {}]

InsertFinding(w) ==
    /\ pc[w] = "concluded"
    /\ todo[w] = {}
    /\ findings' = findings \cup {NewFinding(w)}
    /\ pc' = [pc EXCEPT ![w] = "recording"]
    /\ left' = [left EXCEPT ![w] = @ - 1]
    /\ cites' = [cites EXCEPT ![w] = {}]
    /\ replayed' = replayed \ {w}
    /\ UNCHANGED <<claims, origin, announced, consumed, quarantined, cached,
                   job, pool, rejected, todo, able, history>>

\* The worker forgets its run; for Ingest this also frees the lock.
Leave(w) ==
    /\ pc' = [pc EXCEPT ![w] = "idle"]
    /\ job' = [job EXCEPT ![w] = NoClaim]
    /\ pool' = [pool EXCEPT ![w] = {}]
    /\ rejected' = [rejected EXCEPT ![w] = {}]
    /\ left' = [left EXCEPT ![w] = 0]
    /\ cites' = [cites EXCEPT ![w] = {}]
    /\ todo' = [todo EXCEPT ![w] = {}]
    /\ replayed' = replayed \ {w}
    /\ able' = able \ {w}
    /\ UNCHANGED <<tables, cached>>

\* The run returns right after the quarantine records.
EndAfterRecording(w) ==
    /\ pc[w] = "recording"
    /\ rejected[w] = {}
    /\ Leave(w)
    /\ UNCHANGED history

\* Every verifier that applies has run.
EndRun(w) ==
    /\ pc[w] = "recording"
    /\ rejected[w] = {}
    /\ left[w] = 0
    /\ Leave(w)
    /\ UNCHANGED history

\* The run stops half way: a store error returned with `?' or a panic.
Abort(w) ==
    /\ Fault
    /\ pc[w] # "idle"
    /\ Leave(w)
    /\ aborted' = IF w = Ingest THEN aborted \cup {job[w]} ELSE aborted
    /\ UNCHANGED unrecorded

\* The daemon dies and starts again: every run stops where it is, and the
\* cached capabilities are gone while the announced rows stay.
Restart ==
    /\ Fault
    /\ pc' = [w \in Worker |-> "idle"]
    /\ job' = [w \in Worker |-> NoClaim]
    /\ pool' = [w \in Worker |-> {}]
    /\ rejected' = [w \in Worker |-> {}]
    /\ left' = [w \in Worker |-> 0]
    /\ cites' = [w \in Worker |-> {}]
    /\ todo' = [w \in Worker |-> {}]
    /\ replayed' = {}
    /\ able' = {}
    /\ cached' = NoProvider
    /\ aborted' = aborted \cup {c \in Claim : job[Ingest] = c}
    /\ UNCHANGED <<tables, unrecorded>>

-----------------------------------------------------------------------------
RunStep(w) ==
    \/ ReadEvidence(w)
    \/ ReadOwner(w)
    \/ \E e \in Evidence : RecordAdmissionQuarantine(w, e)
    \/ \E e \in Evidence : RecordQuarantineFails(w, e)
    \/ \E S \in SUBSET Evidence : Conclude(w, S)
    \/ \E e \in Evidence : RecordConsumption(w, e)
    \/ \E e \in Evidence : RecordConsumptionFails(w, e)
    \/ InsertFinding(w)
    \/ EndRun(w)
    \/ Abort(w)

Next ==
    \/ \E e \in Evidence : IngestEvidence(e)
    \/ \E e \in Evidence : ExecutorEvidence(e)
    \/ \E p \in Adapters : Announce(p)
    \/ \E c \in Claim : IngestClaim(c)
    \/ \E h \in Caller, c \in Claim : Reverify(h, c)
    \/ \E h \in Caller, c \in Claim, e \in Evidence : AcquireEvidence(h, c, e)
    \/ \E w \in Worker : RunStep(w)
    \/ Restart

Spec == Init /\ [][Next]_vars

-----------------------------------------------------------------------------
(* Properties *)

TypeOK ==
    /\ claims \subseteq Claim
    /\ origin \in [Evidence -> Origin \cup {"Absent"}]
    /\ announced \subseteq Adapters
    /\ consumed \subseteq Evidence \X Claim
    /\ quarantined \subseteq Evidence \X Claim
    /\ findings \subseteq Finding
    /\ cached \in Adapters \cup {NoProvider}
    /\ pc \in [Worker -> {"idle", "reading", "admitting", "recording", "concluded"}]
    /\ job \in [Worker -> Claim \cup {NoClaim}]
    /\ \A w \in Worker : pc[w] # "idle" => job[w] \in Claim
    /\ pool \in [Worker -> SUBSET Evidence]
    /\ rejected \in [Worker -> SUBSET Evidence]
    /\ left \in [Worker -> Nat]
    /\ cites \in [Worker -> SUBSET Evidence]
    /\ todo \in [Worker -> SUBSET Evidence]
    /\ replayed \subseteq Worker
    /\ able \subseteq Worker
    /\ \A w \in Worker : pc[w] = "concluded" => left[w] > 0
    /\ unrecorded \subseteq Evidence
    /\ aborted \subseteq Claim
    /\ faults \in 0 .. MaxFaults

\* An evidence row is owned by at most one claim, and a row that owns it is
\* never also a quarantine record: the SELECT ... LIMIT 1 of record_consumption
\* finds the only owner there is, however many runs race on the row.
SingleOwner ==
    /\ \A e \in Evidence : \A c, d \in OwnersOf(e) : c = d
    /\ consumed \cap quarantined = {}

\* Two Verified findings that cite the same evidence come from claims of the
\* same turn: no evidence row supports claims of two different turns, whichever
\* runs on them are interleaved and wherever they stop (the replay guard of
\* FORNX-431).  Only rows whose consumption record once failed to be written
\* are exempt: the run logs that error and goes on.
NoCrossAnchorVerified ==
    \A f, g \in findings :
        /\ f.verdict = "Verified"
        /\ g.verdict = "Verified"
        /\ (f.cites \cap g.cites) \ unrecorded # {}
        => AnchorOf[f.claim] = AnchorOf[g.claim]

\* A Verified finding stored by claim ingest cites only evidence that is
\* admissible at that moment: no announcement can slip in between the admission
\* read and the insert, since both hold AppState::processing.
IngestAdmissionStable ==
    [][\A f \in findings' \ findings :
         f.verdict = "Verified" /\ pc[Ingest] = "concluded" /\ pc'[Ingest] # "concluded"
            => \A e \in f.cites : Admits(e)]_vars

\* Whenever a retry of a stored claim would be skipped, the claim has been
\* judged: skipping re-verification loses nothing (the Claim arm of
\* handle_message), except for a claim whose own first run stopped half way.
StoredClaimsJudged ==
    LockFree => \A c \in claims \ aborted :
        Verifiers[c] > 0 => \E f \in findings : f.claim = c

\* The announcements and the provider every evidence row names agree, as in a
\* session with one adapter; admission then never changes its mind.
OneAdapter ==
    \E p \in Provider : /\ Adapters = {p}
                        /\ \A e \in Evidence : SourceProvider[e] \in {p, NoProvider}
=============================================================================
