# A TLA+ verification of fornax-core

fornax-core watches coding agents. Adapters (hooks of Claude Code, Codex and
opencode) send what an agent did, the evidence for it and what the agent claims
over a Unix socket to `fornax-daemon`. The daemon stores it in SQLite
(`fornax-store`), lets verifiers judge each claim against the stored evidence,
persists findings, and fuses them on request into a verdict and a
recommendation. A signed policy, cached locally, says what findings may trigger.
Beside that the daemon follows Codex' own log files, sweeps expired rows, keeps
a hash-chained audit ledger with checkpoints a service signs, and uploads
metadata under the user's consent. This directory models the parts of that
program in which order, concurrency and failure decide whether a finding, a
policy, a ledger or a delivery can be trusted.

Paths below are relative to `src/crates/`.

## Inventory

| Part | State | Operations | Interacts with |
|---|---|---|---|
| Ingest turnstile, `fornax-daemon/src/main.rs` 521-1034 | `inflight` permits, `next_ticket`, `next_turn`, `pending_handoff`, `processing` | accept, wait for turn, drain, hand off, continue, unwind | calls the verdict path under `processing` |
| Verdict path, `main.rs` 1036-1206, 1849-1995, 2744-2996; `fornax-store/src/{evidence_consumption,admitted_evidence}.rs`; `fornax-types/src/provenance_guard.rs` | tables `claims`, `evidence`, `runtime_capabilities`, `evidence_consumption`, `findings` | store a line, admit evidence, quarantine, consume, judge | three callers: claim ingest, `/api/reverify`, `/api/acquire-evidence` |
| Fusion and decision, `fornax-verify/src/{fusion,independence,decision}.rs`, `main.rs` 2130-2345 | none of its own: recomputed from rows and findings | project, fuse, decide | reads what the verdict path stores |
| Policy cache, `fornax-store/src/policy_cache.rs`, `fornax-types/src/policy/cache.rs` | bundles, generations, slots, high-water rows, revocations | submit bundle, submit revocation, roll back, load | signature checks of `policy/bundle.rs`, `policy/revocation.rs` |
| Policy snapshot, `main.rs` 239-275, 370-397, 1236-1375; `policy_poll.rs` | `AppState::policy` | submit, reload, publish, restart | socket ingest and poller both write it |
| Retention, `fornax-store/src/retention.rs`, `retention_sweep.rs` | lineage tags, sweep cursor | insert with tag, sweep a page, purge, erase a tenant | deletes under running verdict paths |
| Audit ledger and checkpoints, `audit_ledger.rs`, `audit_checkpoint.rs`, `audit_checkpoint_submit.rs` | hash chain, high-water row, receipts | append, verify, submit, store a receipt, compare | a remote service |
| Upload and egress, `upload.rs`, `egress.rs`, `fornax-upload`, `upload_schedule.rs` | profile log, consents, outbox, batches | grant, revoke, stage, retire, seal, send, settle | a remote receiver; the sweep stages too |
| Codex watcher, `codex_watch.rs`, `fornax-adapter-codex/src/rollout_tail.rs` | tail cursors in memory and on disk | scan, read, forward, drop, save | feeds `process_line`, bypassing the turnstile |
| Policy poller, `policy_poll.rs` | back-off, last poll | one cycle: egress decision, fetch, submit | the policy handlers |
| Capability cache, `main.rs` 1049-1097 | `caps`, one snapshot per session | announce, read, lost at restart | gates the verdict path |
| Privileged executor, `../exec/fornax-acquire-exec` | none | store an evidence row, ask for re-verification | verdict path, from a process of its own |
| Adapter registry, `adapter_registry.rs` | registrations | register, rotate, revoke | command line |
| Verifiers, receipts, replay, redaction, CLI, protocol, adapters, other executors, benchmarks | none that outlives a call, or read-only | pure functions and front ends | |

What is hard: connections drain in parallel tasks although their order carries
meaning; HTTP handlers run the same verification without the lock; a run is a
sequence of separate transactions that others interleave with; writes fail and
processes stop half way; a policy reload is read in pieces and published by two
tasks; a sweep pages through rows that go on arriving; a consent ends between
the statements of an upload; a file grows while it is tailed; a request is
delivered although its sender saw a timeout. `PROJECT.json` lists these hazards
one by one, at their lines.

What makes each part correct:

* turnstile: turns follow accept order, a definite verdict is not bound while
  earlier evidence of its session is outstanding, neither a slow client nor a
  panic stops the queue, and no permit or registration leaks;
* verdict path: an evidence row supports claims of one turn only, verdicts rest
  on admissible evidence, and a stored claim is judged;
* fusion: votes are independent, and Proceed needs support nobody objects to;
* policy cache: a lineage never goes back or changes hands, and nothing revoked
  is served, through any sequence of submissions, rollbacks and key changes;
* policy snapshot: what the daemon shows is what the cache says;
* retention: raw content expires, and never before what still relies on it;
* audit ledger: what is changed by other means is found, and nothing else is;
* upload: only what the consent covers is delivered, and what is marked
  acknowledged was;
* codex watcher: no line is lost behind a cursor, none is read that was written
  while capture was off.

## Modules

| Module | Models | Extends |
|---|---|---|
| `IngestTurnstile` | accept loop, turns, handoffs, message lock, downgrade | |
| `VerdictPath` | evidence and claim ingest, admission, consumption, findings | |
| `EvidenceFusion` | source families, fusion rules, risk policy, calibration floor | |
| `PolicyLineage` | abstract promise of the policy cache | |
| `PolicyCache` | the cache, with its refinement of `PolicyLineage` | |
| `PolicyDaemon` | the snapshot over the cache | `PolicyCache` |
| `Retention` | lineage tags, sweep, purge, tenant erasure | |
| `AuditLedger` | hash chain, checkpoints, submission task, service | |
| `Upload` | egress profile and consents, outbox, batches, runs, receiver | |
| `CodexTail` | rollout watcher, its files and its cursor file | |
| `MC...` | instances for TLC | the module they check |
| `...Proofs` | theorems checked by TLAPS | the module they prove about |

Operators marked "Mutant:", or that stand just before the operator they vary
under a comment such as "the turn is taken out of ticket order", are seeded
faults: each shows that the property it is listed with in `PROJECT.json` notices
that mistake.

### IngestTurnstile

`pc[c]` follows the task of connection `c`: `backlog` (not accepted), `waiting`
(`wait_for_turn`), `draining` (`drain_in_order`), `registered` (the
`HandoffGuard` exists, the `TurnGuard` is not dropped), `handedoff`
(`continue_connection`), `done`. Every await at which another task may run
separates two actions: a line is read (`ReadLine`), then waits for `processing`,
then is handled. A line that starts no verification is `SessionLine`; a new claim
is `BeginClaim`, which takes the lock and reads the register, and `FinishClaim`,
which persists what `Downgrade` leaves of the verdict. `DrainBudgetExpires` may
happen at any moment of the drain, since the deadline is wall-clock time.
`Panic` unwinds a task in the middle of a claim. `Caller` are HTTP requests,
which evaluate claims without turn and lock. What a verifier concludes is a free
choice. `bound` is a history variable: who persisted a definite finding.

### VerdictPath

One session. The worker `Ingest` is whoever holds `processing`; each `Caller` is
an HTTP request. A run goes through `reading` (the evidence query), `admitting`
(the owner query and `admit_evidence_rows`), `recording` (quarantine rows; then
the head of the verifier loop) and `concluded` (one finding in hand, its cited
rows passed to `record_consumption` one by one). Each step is one statement or
one transaction of the code. `cites` is empty for any finding less than
Verified: only Verified findings consume evidence. `consumed` and `quarantined`
are the two outcomes in `evidence_consumption`; the unique key over both is why
`InsertConsumed` loses against a quarantine row of the same claim. Rows of
unknown origin exist only from before the column did, so they are in `Init`.
Rows reach `evidence` by four origins: the socket, an acquisition of the daemon,
the privileged executor, which writes from its own process without any lock, and
legacy rows. `cached` is the one capability snapshot `AppState::caps` keeps for
the session: the first provider to announce has it until the daemon restarts,
while the table has a row per provider. A run reads it at its start; without one
it gets `default_unknown_caps`, under which every verifier answers Unavailable
(`fornax-verify/src/lib.rs` 75-84, 273, 438, 804, 1147), so `Conclude` cites
nothing. `MaxFaults` bounds the writes to `evidence_consumption` that fail, the
runs that stop half way and the restarts; the history variables `aborted` and
`unrecorded` remember which claims and rows were hit, and `StoredClaimsJudged`
and `NoCrossAnchorVerified` except exactly those.

### EvidenceFusion

The claim's admitted rows, which come and go, and its findings; everything else
is computed from them, as `/api/fusion` and `/api/decision` do at each request.
A row is what the rules tell apart: source or none, correlation group, agent
turn, age, and the ids it names in `derived_from`: any ids, its own, later ones
and cycles too, since the store takes that list as it comes. `Reachable` states
what the breadth-first walks of `independence.rs` compute, the least set that
holds the start and follows every step, and not how. `FamilyKeys` is the
union-find of `try_build` with its three rules and its quirk that a row without
a source is keyed by itself; `WorkUnits` counts what the budget charges. `Fuse`
applies R1 to R6 in order, `Recommendation` the mapping table and the
calibration floor. The reference definition is `CommonOrigin`: a chain of
directly related rows. Only the projected graph is modelled, since nothing but
tests writes the graph tables `compute_fusion` would prefer.

### PolicyCache and PolicyLineage

A bundle stands for a (`bundle_id`, `payload_digest`) pair; policy, issuer,
sequence, revision and id are functions of it. Each submission is one
`BEGIN IMMEDIATE` transaction and hence one action, so a crash inside it is no
step at all. `generations` is the append-only table, `active` and `lkg` the
slots. `highWater` holds the last accepted bundle per issuer and policy, which
carries the sequence, id and digest of the row. `StoreEnvelope` follows
`persist_activation` closely, the look-up by `bundle_id` alone included.
`TrustChanges` lets keys be retired and regained between any two steps. `Loaded`
is `load_policy_cache`: the active generation if all of it is usable, else the
last known good one, else nothing. Expiry only turns submissions away and is
rewound at reload; together with freshness tiers it is left out.

`PolicyLineage` forgets tables, slots and generations: a lineage of accepted
bundles per policy that only advances within one issuer, revocation for ever,
and a served set that is accepted, not revoked and unambiguous. The refinement
mapping reads `accepted` off the high-water rows and `served` off `Loaded`.

### PolicyDaemon

A `Handler` is a task that submits: the socket ingest (one message at a time) or
the poller. A submission that was accepted is followed by `ReadSlots`,
`ReadRevocations` and `Publish`, or by `LoadFails`, which leaves the old
snapshot and is remembered in the history variable `failed`. `Restart` may
happen anywhere. The trust store is read once, but the windows of its keys begin
and end: `KeyWindow` changes what verifies today. A handler takes `now` when it
submits and verifies its later reload at that instant (`asOf`); nothing reloads
because a window ended, so key retirement, "a real revocation lever on reload"
(`policy_cache.rs` 465-470), acts at the next reload only. `SnapshotFreshAtRest`
therefore compares the snapshot with the present tables under the keys of the
last submission or restart (`lastNow`). A submission that was rejected, or a
list that was already current, changes nothing that is modelled.

### Retention

Records are rows of five tables, numbered in key order; `Refs` are the foreign
keys, `Cites` the evidence a consumption record is about. `tag` is `recorded_at`
of the lineage tag, 0 for none. `SweepBatch` is one transaction of
`sweep_expired_records`: the next `BatchSize` tags behind the cursor, each
expired one disposed of (deleted, or left as a stub where a foreign key forbids
it or the table is `evidence`), and the cursor moved or reset. Inserts, purges,
erasures, time and restarts, which lose the cursor, happen between two pages. A
batch that fails is rolled back and is no step. `recorded_at` is compared as text,
and `retention.rs` 615-624 warns that texts of one tight window may sort out of
chronological order. The clock ticks once per such window, and the records of one
tick are in an order `Rank` about which nothing is assumed but that it is one: in
the run a finding comes before its claim and a consumption before its evidence.
`AreDeleted` follows a page through that order, since a row goes only if the rows
that name it have gone before it. From window to window the wall clock is taken
not to step back. `due` remembers what had expired
when the pass began, `lapsed` which evidence has lost a consumption record.

### AuditLedger

A hash is the sequence it commits to, so equal hashes mean equal histories.
An entry is what `compute_entry_hash` covers (sequence number, predecessor,
payload): the columns `recorded_at`, `export_class` and `event_id` are outside the
hash, so an edit of them goes unnoticed, and "edited" below means hashed content.
`AppendEvent` continues from the high-water row. The submission task goes step by
step through `submit_one_cycle_with_gate`: head, verification (high-water row,
then rows), evaluation of the receipts (verification again, the list, each
anchor), the post, the answer. The service signs a head at most once per
`checkpoint_seq` and never backwards (ADR 0012); answers are lost, late,
refused or belong to another submission. `Restart` may change the device the
credential stands for. `Damage` are changes of the tables by other means, which
the ledger exists to notice: a row lost, edited or relinked, the chain computed
anew, an old copy put back.

### Upload

Time is the order of events: a record carries the profile generation and the
number of consents at its capture. A run is a sequence of statements, each an
action, from the consent it reads to the answer it settles; the sweep's staging
is a run that does not send. The upload lock is taken over when it looks old and
the sweep stages without it, so the model grants no exclusion. A request stays
on its way after its sender gave up. Every change of profile is possible,
leaving corporate too; `overtaken` remembers the records staged by a history
read before the profile they were captured under. There is one destination and
one record class, so the skip of a batch for another destination
(`fornax-upload/src/lib.rs` 212-215) does not occur, and `egress_state`, three
statements without a transaction (`egress.rs` 67-107), is one read. `Stop` ends
a run anywhere: a crash, a failed statement, used-up attempts, a status that
keeps the batch sealed.

### CodexTail

A file is its generation (which file it is), its identity (device and inode,
which a later file may be given again, and which is (0, 0) for all off unix),
its complete lines and whether half a line follows. `recent` are the files
`discover` lists: at most 32, modified within 24 hours; a file leaves and enters
that set at any time. A scan that finds no sessions directory touches nothing
(`ScanMissing`). One task alternates scans and passes; within a pass every read,
every forwarded line, every cursor update and the final save is a step, and
Codex writes, the user switches the marker and the daemon stops between any two.
`sent`, `hidden` and `from` are histories: lines handed to `process_line`, lines
a scan without the marker passed over, and where following began. Left out:
lines the reader drops, files cut short in place, and the fallback of
`start_for` on file systems without creation times.

## Runs

| Run | Checks | Instance |
|---|---|---|
| `ingest_turnstile` | `TurnExclusive`, `PermitsAccounted`, `RegisterMatchesHolders`, `DefiniteVerdictsFinal`, `NoDefiniteDuringHandoff`, `TurnReached` | 3 connections of one session, 2 permits, 1 HTTP caller, `FairSpec`; 371 thousand states |
| `ingest_bridge` | finds `DefiniteVerdictsFinal` violated | a bridge that carries two sessions and one more connection |
| `verdict_path` | `SingleOwner`, `StoredClaimsJudged`, `NoCrossAnchorVerified`, `IngestAdmissionStable` | claims of two turns, an ingested row and one of another origin, two adapters, an ingest and an HTTP run, one failed write, stopped run or restart; 1.3 million states |
| `verdict_path_race` | finds `NoCrossAnchorVerified` violated | three HTTP runs, two adapters that both announce, no fault |
| `policy_cache` | `LineageSound`, `RevokedNeverServed`, `HighWaterNeverLowered`, `NoDowngrade`, `ImplementsLineage` | six bundles of two policies and two issuers, three lists; 218 thousand states |
| `policy_daemon` | `SnapshotFreshAtRest`, `RevocationTakesEffect` | four bundles of two policies, two lists, one handler, two bundles whose keys come and go; 47 thousand states |
| `policy_daemon_race` | finds `RevokedNotShownAtRest` violated | the same with two handlers |
| `audit_ledger` | `ValidMeansUntouched`, `DamageNamed`, `DamageLocated`, `NoFalseAlarm`, `AnchoredPrefixIntact`, `ReceiptsWitnessed` | three events, two payloads, two devices, two cycles, one change by other means; 697 thousand states |
| `upload` | `OnlyEligibleStaged`, `LedgersAgree`, `AckedWasDelivered` | two runs, two records, two batches of one, up to four profile changes, grants and revocations; 2.0 million states |
| `retention` | `RawContentTagged`, `ReferencedRowsKept`, `NothingStranded`, `GuardOutlivesPayload`, `RawContentExpires` | six records of two sessions over five tables, in an order against their references, pages of two, one restart; 63 thousand states |
| `codex_tail` | `CursorsOnlyPassForwarded`, `OnlyCompleteLines`, `HistoryStaysHidden`, `LinesForwarded` | one file created twice with two lines each, with the same identity or another, listed by `discover` or not, three changes of marker and directory, one crash; 268 thousand states |
| `evidence_fusion` | `FamiliesAreOrigins`, `VotesAreIndependent`, `ProceedIsClean`, `ContradictionNeverHelps` | three rows of four kinds that name any rows, three findings, rows that leave; 753 thousand states |

Why the bounds are enough. Three connections are what an overtaking needs: one
handed off, one in its turn, one queued behind; they share a session so that the
register counts to two, and two permits make the accept loop wait. Two claims of
different turns and two concurrent runs are what a replay needs; the violation
needs a third run because the quarantine record comes from a second run of the
same claim, and both adapters, because a run verifies nothing before one has
announced and the row becomes inadmissible when the other does. For the cache
there is a bundle for every branch of `evaluate_activation`: a first one, a
successor, one that reuses a sequence, one of a foreign issuer, one revoked by
digest and one by revision. Three ledger events give a first, a middle and a
last slot, two cycles an anchor before and after a change, or a lost answer and
its repetition; a second device makes a misdirected answer possible. In `upload`
one run can retire, renew or seal what the other has in flight, a record can
name an event captured before the consent, and two batches let their answers
cross. In `retention` a whole chain of event, claim, evidence, consumption and
finding shares an instant or not, and a page of two always ends inside it. Two
generations of a file with two lines are a replacement with a line before and
after the cursor, by a file that looks like the old one or not. Three rows are a
chain whose ends are related only through the middle, in every order of ids; six
work units are what one such chain costs at most, and a denser graph exceeds
them. `MaxSize` limits findings, named rows and rows that left together, counted
one, two and four: three findings on two rows that name each other, one finding
on three rows with three derivations, a whole cycle, or three findings of which
one is on a row that left. The theorems remove these bounds for every safety and
action property the runs check. `CHECK_DEADLOCK FALSE` is given where clients
may all be gone or all bounds are reached.

### Fairness

`FairSpec` of the turnstile assumes of the daemon that a spawned task keeps
running: it takes its turn when it comes, its deadline passes, it finishes the
message it handles and performs the handoff (weak fairness), and that it gets
the message lock although others keep taking it (strong fairness: tokio's mutex
is a fair queue). Nothing is assumed of clients or of the accept loop: clients
may be silent or connected for ever. `DaemonFairSpec` assumes that a handler
that has submitted goes on to publish or to fail; it does not assume that
reloads succeed. `Retention` assumes that time passes and that the sweep task
wakes up again (weak fairness of `Tick` and `SweepBatch`): `supervisor_loop`
sleeps and repeats, and a failed cycle only logs. That includes that the pass is
reached: staging that fails makes a cycle skip its sweep (`retention_sweep.rs`
181-191), and staging that fails for ever is not modelled. `CodexTail` assumes
that the watcher loop keeps running (weak fairness of its steps) and that the
scan interval, which the tail interval divides many times, elapses again and
again (strong fairness of `Scan` and `ScanOff`). Nothing is assumed of Codex, of
the user or of a restart.

## What the runs show

Most of what the comments promise holds, under interleavings, panics, failures
and restarts. Three runs show where it does not; `PROJECT.json` quotes the lines.

* `ingest_bridge`. A handed-off connection is registered under one session. If
  it carries a second one, claims of that session are bound although evidence
  for it is still in the connection. `DefiniteVerdictsFinal` therefore needs
  `OneSessionPerConnection`.
* `verdict_path_race`. One adapter has announced, and two runs on claims of two
  turns have admitted its evidence row. A second adapter announces for the same
  session; a third run, of the first one's claim, finds the owner ambiguous and
  quarantines the row. The consumption insert of the first run is then a no-op:
  the row has no owner, both runs find it free, and two Verified findings of two
  turns cite it. `NoEvidenceAcrossTurns` therefore needs `OneAdapter`. In
  `verdict_path` there are too few callers for it; the silent drop of the insert
  matters in the race only.
* `policy_daemon_race`. Reload and publication are not serialized between the
  socket ingest and the poller, so a load from before a revocation may be
  published after it. The poller resubmits everything each cycle, and a bundle
  that is confirmed reloads again, so the state heals when the service still
  offers an accepted bundle.

More differences between comments and code showed up while modelling. They are
built into the models, or are named as assumptions or exceptions of a property,
and have no run of their own.

Turnstile and verdict path:

* `main.rs` 539-541 says processing time does not count against the drain
  budget; the deadline at 912 is wall-clock time, and 924-927 says so.
* `main.rs` 1854 says the register is checked under the caller's lock; the HTTP
  callers hold none, so `NoDefiniteDuringHandoff` speaks of connections only.
* An error of `record_consumption` is only logged (1976-1983) and the finding
  stays Verified: `NoCrossAnchorVerified` excepts rows in `unrecorded`. A run
  that stops after its claim was stored leaves it unjudged, and the retry is
  skipped (1184): `StoredClaimsJudged` excepts claims in `aborted`.

Policy cache:

* `persist_activation` finds its new member by `bundle_id` alone (927). Two
  policies whose bundles share an id leave a member without envelope, which the
  comment at `policy_cache.rs` 175 ascribes to tampering: `MembersAlwaysResolve`
  assumes `DistinctIds`, and the ids of the run are distinct.
* A key that is retired or expires while the daemon runs goes on being served
  until the next accepted submission or restart reloads the cache.

Retention:

* Migration 0019 says a consumption row never outlives its evidence row. The
  sweep purges evidence and deletes consumption; what the replay guard needs is
  the other direction. It holds only up to the page: with the evidence tag on one
  page, not yet expired, and the consumption tag on the next, expired by then, the
  guard goes while the payload stays readable until the next pass. The strict form
  (`lapsed` evidence is never raw) is violated in eight states;
  `GuardOutlivesPayload` states what holds.
* A tenant's erasure fails as a whole as long as one of its tagged events or
  claims is still named by a row, which is the normal case: the events are
  deleted first. A stub has lost its tag and is found by neither sweep nor erasure.

Audit ledger:

* `DivergedAfterAnchor` is documented as "attested prefix still intact"
  (`audit_checkpoint.rs` 83-85); the verdict looks at where the chain first
  diverges and not at the rows themselves, and says so only for a single change.
* ADR 0012 says fornax-core never allocates `checkpoint_seq`; it sends the latest
  receipt's plus one (`audit_checkpoint_submit.rs` 275-277). When the answer to a
  signed checkpoint is lost, every later submission asks for the same number, and
  a service that keeps to the ADR refuses it: no further receipt is stored. No
  liveness property is stated for that reason.

Upload:

* The first guarantee of `upload.rs` (6-13) is that nothing captured outside
  personal mode is ever sent, whatever the profile is switched to later. The code
  reads the profile history in one statement and the candidate rows in another: if
  the user enters corporate in between and a record is captured, the run places it
  under the personal profile and stages it. `OnlyEligibleStaged` excepts exactly
  these records (`overtaken`); without the exception the run's own instance
  violates it in eleven states. Usually the check before sending saves such a
  record, since a consent is live only under personal. With `MaxGeneration = 3`,
  `MaxChange = 6`, one worker and one record it is delivered in twenty states: the
  user leaves corporate again with `--confirm-leave-corporate` (`egress.rs`
  175-182) and grants a consent before the run seals and sends. Everything else
  that is staged was captured under personal and since its consent, through any
  profile changes.
* `upload.rs` 24-26 and 539 say a gap is recorded before rows stop being
  uploadable; it is recorded after. Migration 0022 says a batch is never
  re-targeted at a later consent; a run that read the new consent sends a batch
  of the revoked one unless it was retired before. An acknowledged batch can
  become poison, when a retirement read it as sealed. `Drop` of the lock removes
  whatever lock is there. Unfinished batches are sent newest first. `LIMIT
  STAGE_CHUNK` is applied before eligibility, so that many ineligible rows keep
  eligible ones out.

Codex watcher:

* A file that grows between its last read and the moment it is dropped as idle
  is remembered with the new length and not read before it grows again:
  `LinesForwarded` excepts it. So does a replacement of an idle file by one of the
  same length.
* `discover` lists at most 32 files of the last 24 hours. A followed file with
  unread lines that is not tracked, after a restart or an idle drop, and not listed
  is not read: `LinesForwarded` excepts it as long as it stays so.
* A file that replaces another with the same inode, or any file off unix, where
  all have the identity (0, 0), is taken for the old one if it is at least as long
  as the cursor: its first lines are skipped. `CursorsOnlyPassForwarded`,
  `ForwardedInOrder` and `LinesForwarded` except such files (`Reused`); without that
  the run violates the first.
* Removing the marker is noticed at the next scan only, and not at all if it is
  back by then, or if the daemon was down meanwhile. A crash before a new file's
  cursor was first saved makes the restarted watcher begin at its end.

Fusion:

* `derived_from` is whatever the client sends, cycles included (the tests of
  `independence.rs` have them). R3 discounts a vote on a row derived from another
  voting row (`fusion.rs` 397-443), so it takes both votes of a cycle. Let A and B
  name each other and X stand apart: Verified on X and Contradicted on A is
  Conflicted, and one more Contradicted, on B, silences both and leaves Verified.
  `ContradictionNeverHelps` excepts a contradiction on a row that is derived from
  a voting row and the other from it; without that TLC finds this trace in seven
  states.
* The documentation of R3 (`fusion.rs` 158-161) speaks of another counted link;
  the code compares with every candidate, so a contradiction derived from a stale
  support is discounted although that support does not count.
* `independence.rs` says a row without a source is always a family of its own;
  when it has the least id of a family, it is its key and a member.
* `decision.rs` 160-163 says Review only ever comes with Conflicted; an exceeded
  budget gives Review with Undetermined. R3 walks ancestors without a budget.
* Two findings on one row without a group count as two votes. That changes no
  verdict.

## Proofs

TLAPS checks these for every value of the constants.

`IngestTurnstileProofs`
: `TypeCorrect`. `TurnsAreExclusive`: tickets of accepted connections are
  distinct and below `next_ticket`, those past their turn are below `next_turn`,
  and the holder's equals it; that is the inductive strengthening.
  `RegisterIsExact` and `PermitsAreAccounted` count sets of connections, by the
  lemmas of `FiniteSetTheorems` on adding and removing one element.
  `NoDefiniteInHandoff` and `VerdictsAreFinal` assume `OneSessionPerConnection`
  and rest on `FlagStaysTrue`: a connection that evaluates a claim in its turn
  and read the register as clear still finds it clear at the end, because only
  the turn's holder can register and it is the one evaluating; a handed-off
  connection always reads its own registration and is downgraded. An earlier
  connection of the session is therefore closed when a definite verdict is
  bound: it has had its turn, and were it handed off it would be in the register
  under its session or as unknown.

`VerdictPathProofs`
: `TypeCorrect`. `OwnershipIsSingle` and `SkippedRetriesWereJudged` need no
  assumption on faults or adapters; the latter follows a stored claim through the
  run that stored it, which ends with a finding or is remembered as aborted.
  `NoEvidenceAcrossTurns` assumes `OneAdapter`: admission is then settled, so no
  row that is read as admissible is ever quarantined, every row passed to
  `record_consumption` is owned by a claim of the run's own turn unless the run
  has met a replay or a failed write, and Verified findings cite owned rows. Rows of
  every origin, failed writes, stopped runs and restarts are free in it.
  `IngestAdmissionHolds` is an action property: the pool of `Ingest` stays
  admissible while it holds the lock.

`PolicyProofs`
: Of the cache: `TypeCorrect`; `LineagesAreSound`; `HighWaterHolds`; `NoDowngradeHolds`, which
  needs that every generation lies below the high-water rows, also one that was
  rolled back to; `MembersAlwaysResolve`, `RevokedIsNeverServed` and
  `CacheImplementsLineage` (assuming `DistinctIds`): initial states map to
  initial states, an activation maps to `Accept`, a revocation to `Revoke`, a
  rollback or a change of trust to a change of what is served.

  Of the daemon over it: `DaemonUsesCache`, the daemon's specification implies
  the cache's, so all of the above holds in a running daemon with any number of
  handlers; `DaemonTypeCorrect`: a snapshot and what a handler has read name
  generations that exist, because none is ever removed. `SnapshotIsFresh` and
  `RevokedIsNotShown` assume `Sole`, one submitting task: that is the daemon
  without `FORNAX_POLICY_POLL_URL`, its default (`main.rs` 451-453). The
  strengthening `ReloadCurrent` says that what the task has read is still what
  the tables hold, which a second task would break; the run `policy_daemon_race`
  shows that it does. Restarts, failed reloads and key windows are free in both
  theorems: a handler verifies with what it noted when it submitted, and as it is
  the only one, that is what the last submission had.

`RetentionProofs`
: For any order of the records of one window. `RetentionTypeCorrect`;
  `RawContentFindable`; `ChainsKept`: a page deletes a row only after the rows that
  name it; `PassesAreComplete`: the keys due at the start of a pass lie beyond the
  cursor, new tags carry the present time and are not due, and a page takes every
  key up to the new cursor; `GuardHolds`: a consumption record is tagged in no
  earlier window than its evidence (`CitedFirst`), so when it has expired the
  evidence has.

`CodexTailProofs`
: `WatcherTypeCorrect`; `NoLineSkipped`, with the strengthening that the cursor in
  hand, the tracked, the remembered and the saved one are each covered by `sent`
  from `from` on if the file has an identity of its own (a cursor whose identity is
  the file's is then a cursor of this very file), and that within `forward` all
  lines before `next` are sent;
  `InOrder` from the same; `CompleteLines`; `OffMeansOff`: what is hidden lies
  before `from`, or in a file that is not tracked.

`UploadProofs`
: `UploadTypeCorrect`, `LedgersAlwaysAgree` and `AcknowledgedIsDelivered` assume
  nothing but finite bounds. The strengthening `IInv` says that the locals of a
  run lead somewhere (the batches it has still to retire or send exist, the
  consents it read as live are of one generation), that every row of the outbox is
  covered by a consent of the generation it was staged under (`StagedSound`), and
  that a request on its way is of a batch that exists.
  `StagedIsEligible` assumes nothing about profiles either: a record whose
  generation is in the history the run has read is judged by the profile of its
  capture, the event it is about was captured no later, and a record of a newer
  generation is overtaken.

`AuditLedgerProofs`
: For any ledger length, any devices and cycles and any number of changes by
  other means (the run has one). The invariant has five parts. `LedgerSound`: the
  rows present are some of those written, with the hash that was written, since
  a partial change leaves the hash alone. `TaskSound` and `RemoteSound`: the
  answer the task holds and the stored receipts are heads the service signed.
  `Pristine`: before any change all rows are good and every head the task or a
  receipt names is anchored, which is what appends beside a verification must
  not disturb. `StruckOnce`: after a single partial change everything before it
  is good and it is the first thing wrong; later appends continue from the
  high-water row and come after it. From these,
  `ValidChainIsUntouched` needs that a good row with the written hash is the
  written row (a hash determines what it commits to); `SingleDamageIsNamed` and
  `SingleDamageIsLocated` follow the detection order of
  `verify_audit_chain_conn`; `NoAlarmWithoutDamage` is part of `Pristine`;
  `ReceiptsAreSigned` part of `RemoteSound`. `ConsistentReceiptVouches` rests on
  `ChainHash`: in a run of good rows every hash commits to all rows up to its
  own, by the least row for which it does not. TLC checked the invariant on the
  run's instance and with two changes and one cycle.

`EvidenceFusionProofs`
: For any ids, rows and findings. `FamiliesHaveOneOrigin`: `BlocksFold` shows that
  the recursion behind the fold has a solution, `BlocksJoined` that the blocks
  partition the pool, hold both ends of every pair, and lie inside every set that
  does so; `WindowsConnect` that pairing neighbours by id joins a whole group, and
  `KeepsFollows` and `FollowsKeeps` that the sets which keep the pairs together
  are those closed under direct relation. A block is therefore a common origin,
  and two blocks have different least ids. `CountedVotesIndependent` follows, as
  R5b leaves one vote per side and family of several rows.
  `ContradictionsDoNotHelp`: a vote discounted because of the removed contradiction
  is also derived from whatever that contradiction's row was derived from
  (`AncestorsCompose`), and that other voting row is not the vote's own, or the two
  would be derived from each other, which is the excepted case. Nothing is assumed
  about derivations. `ProceedingIsClean` combines independence with what an empty
  list of caveats and discounts says of each link. `WorkUnits` is left
  unexpanded: the theorems hold for any cost of the walks.

Facts about all numbers or all finite sets (`ChainHash`, `BlocksFold`,
`BlocksJoined`, `WindowsConnect`, and `MinIsLeast` itself) are proved through a
least counterexample, taken from `NatLessThanWellFounded` and `WFMin`, because
the provers cannot instantiate the induction theorems of the library.

Only model-checked: liveness (`TurnReached`, `RevocationTakesEffect`,
`RawContentExpires`, `LinesForwarded`), since fairness and `ENABLED` are out of
the prover's reach. Every invariant and action property of a run that passes is
a theorem, some under an assumption named above. The three violations are TLC's:
the assumptions `OneSessionPerConnection`, `OneAdapter` and `Sole` of the
corresponding theorems exclude them.

## Not modelled

Text and document processing (verifiers, receipts, replay, redaction, policy
resolution, the adapters' translation): pure functions of data whose properties
are about text. Signatures and canonical JSON: the models only ask whether an
envelope verifies. The poller's back-off: one timer without a promise
across steps. Command line, the executors' process isolation, benchmarks and
release scripts. Single-row tables of feedback, adjudication,
calibration, adapter registration and reports: each operation is one statement.
Lines of tests inside the source files are not mapped.

## Plan

Done: all modules above, their runs and proofs. Left: the codex watcher as an
actor of the turnstile; what several handlers still guarantee of the policy
snapshot (that it was current at some moment of the last reload).
