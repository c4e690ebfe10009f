------------------------------- MODULE Upload -------------------------------
(***************************************************************************)
(* The personal metadata upload: the egress profile and the consents       *)
(* (egress.rs of fornax-store and fornax-types), the outbox and the sealed *)
(* batches (upload.rs of fornax-store) and the runs that stage, seal and   *)
(* send them (fornax-upload, upload_schedule.rs and retention_sweep.rs of  *)
(* fornax-daemon).                                                         *)
(*                                                                         *)
(* One destination, one data class and one closed window stand for all.    *)
(* Time is the order of events: a record is stamped with the generation    *)
(* of the profile and the number of consents granted when it is captured,  *)
(* a consent that expires is a consent that is revoked.  Sessions, events, *)
(* claims, evidence and findings are events and records about an event.     *)
(*                                                                         *)
(* Several runs may be under way at once: the sweep stages without the     *)
(* upload lock, and a lock that looks old is taken over although its       *)
(* holder may be alive, so the model grants no exclusion at all.           *)
(***************************************************************************)
EXTENDS Integers, Sequences, FiniteSets, FiniteSetsExt

CONSTANTS
  Worker,          \* runs that may be under way at the same time
  Chunk,           \* STAGE_CHUNK: records of one kind looked at per staging
  BatchSize,       \* MAX_BATCH_MEMBERS
  MaxChange,       \* bound on profile changes, grants and revocations together
  MaxGeneration,   \* bound on profile changes
  MaxConsent,      \* bound on grants
  MaxRecord,       \* bound on captured records
  MaxBatch,        \* bound on sealed batches
  MaxRun           \* bound on runs started

ASSUME SizeAssumption == Chunk \in Nat \ {0} /\ BatchSize \in Nat \ {0}
ASSUME LimitAssumption ==
  /\ MaxChange \in Nat
  /\ MaxGeneration \in Nat
  /\ MaxConsent \in Nat
  /\ MaxRecord \in Nat
  /\ MaxBatch \in Nat
  /\ MaxRun \in Nat

VARIABLES
  log,        \* egress_profile_log: the profile of every generation
  consents,   \* egress_consents in the order they were granted
  records,    \* captured records in order of their timestamps
  outbox,     \* upload_outbox: the row of every record, NoRow if there is none
  batches,    \* upload_batches in the order they were sealed
  worker,     \* the runs under way
  started,    \* how many runs have started
  net,        \* requests on their way to the receiver
  delivered,  \* the batches the receiver holds
  overtaken   \* history: records staged by a run that read the profile log
              \* before the profile they were captured under was set

egressVars == <<log, consents, records>>
ledgerVars == <<outbox, batches, overtaken>>
remoteVars == <<net, delivered>>
vars == <<log, consents, records, outbox, batches, worker, started, net, delivered, overtaken>>

Id == 1 .. MaxRecord
NoRow == [state |-> "none", consent |-> 0, batch |-> 0]
Idle == [pc |-> "idle", sends |-> FALSE, consent |-> 0, live |-> {}, history |-> 0,
         work |-> {}, batch |-> 0]

Init ==
  /\ log = <<>>
  /\ consents = <<>>
  /\ records = <<>>
  /\ outbox = [r \in Id |-> NoRow]
  /\ batches = <<>>
  /\ worker = [w \in Worker |-> Idle]
  /\ started = 0
  /\ net = {}
  /\ delivered = {}
  /\ overtaken = {}

-----------------------------------------------------------------------------
(***************************************************************************)
(* Profile, consents and records.                                          *)
(***************************************************************************)
ProfileAt(g) == IF g = 0 THEN "unconfigured" ELSE log[g]
Profile == ProfileAt(Len(log))

\* The consents live_upload_consents returns; the newest is the greatest.  The
\* profile, the consents and the allowlist are three reads; that a consent is
\* granted under the generation it names and that entering the corporate
\* profile revokes all in one transaction makes the set that three reads see
\* the set of some moment between them, so that one read stands for them.
Live ==
  {k \in DOMAIN consents : /\ Profile = "personal"
                           /\ ~ consents[k].revoked
                           /\ consents[k].generation = Len(log)}

Changes == Len(log) + Len(consents) + Cardinality({k \in DOMAIN consents : consents[k].revoked})
MayChange == Changes < MaxChange

\* set_egress_profile.  Leaving the corporate profile needs a flag to confirm
\* it; without the flag the call is an error and changes nothing.
SetProfile(p) ==
  /\ MayChange /\ Len(log) < MaxGeneration
  /\ log' = Append(log, p)
  /\ consents' = IF p = "corporate"
                 THEN [k \in DOMAIN consents |-> [consents[k] EXCEPT !.revoked = TRUE]]
                 ELSE consents
  /\ UNCHANGED <<started, records, ledgerVars, worker, remoteVars>>

\* The state is read before the row is inserted: the profile may have
\* changed since, g is the generation that was current then.
GrantConsent(g) ==
  /\ MayChange /\ Len(consents) < MaxConsent
  /\ ProfileAt(g) = "personal"
  /\ consents' = Append(consents, [generation |-> g, revoked |-> FALSE])
  /\ UNCHANGED <<started, log, records, ledgerVars, worker, remoteVars>>

\* revoke_egress_consent, or the consent's expires_at goes by.
EndConsent(k) ==
  /\ MayChange
  /\ ~ consents[k].revoked
  /\ consents' = [consents EXCEPT ![k].revoked = TRUE]
  /\ UNCHANGED <<started, log, records, ledgerVars, worker, remoteVars>>

\* The daemon stores an event, or a record about the event parent.
Capture(parent) ==
  /\ Len(records) < MaxRecord
  /\ records' = Append(records, [parent |-> parent, generation |-> Len(log),
                                 granted |-> Len(consents)])
  /\ UNCHANGED <<started, log, consents, ledgerVars, worker, remoteVars>>

-----------------------------------------------------------------------------
(***************************************************************************)
(* Staging: stage_upload_records.                                          *)
(***************************************************************************)
At(w, pc) == worker[w].pc = pc
Local(w, new) == worker' = [worker EXCEPT ![w] = new]
Goto(w, pc) == Local(w, [worker[w] EXCEPT !.pc = pc])

Rows(state) == {r \in Id : outbox[r].state = state}

\* The sweep stages only; a run stages and sends.
Start(w, sends) ==
  /\ At(w, "idle")
  /\ started < MaxRun
  /\ started' = started + 1
  /\ Local(w, [Idle EXCEPT !.pc = IF sends THEN "consent" ELSE "live", !.sends = sends])
  /\ UNCHANGED <<egressVars, ledgerVars, remoteVars>>

ReadConsent(w) ==
  /\ At(w, "consent")
  /\ Local(w, IF Live = {} THEN Idle
              ELSE [worker[w] EXCEPT !.pc = "live", !.consent = Max(Live)])
  /\ UNCHANGED <<started, egressVars, ledgerVars, remoteVars>>

ReadLive(w) ==
  /\ At(w, "live")
  /\ Local(w, [worker[w] EXCEPT !.pc = "pending", !.live = Live])
  /\ UNCHANGED <<started, egressVars, ledgerVars, remoteVars>>

RetirePending(w) ==
  /\ At(w, "pending")
  /\ outbox' = [r \in Id |-> IF r \in Rows("pending") /\ outbox[r].consent \notin worker[w].live
                             THEN [outbox[r] EXCEPT !.state = "expired"]
                             ELSE outbox[r]]
  /\ Goto(w, "sealed")
  /\ UNCHANGED <<started, egressVars, batches, overtaken, remoteVars>>

Sealed == {b \in DOMAIN batches : batches[b].state = "sealed"}

\* Without a live consent nothing is staged; a run still goes on to send.
AfterStaging(w) == IF worker[w].sends
                   THEN [worker[w] EXCEPT !.pc = "unfinished", !.live = {}]
                   ELSE Idle

\* The batches still to retire, then what follows them.
Retiring(w, work) ==
  CASE work # {} -> [worker[w] EXCEPT !.pc = "retire", !.work = work]
    [] work = {} /\ worker[w].live = {} -> [AfterStaging(w) EXCEPT !.work = {}]
    [] work = {} /\ worker[w].live # {} ->
         [worker[w] EXCEPT !.work = {},
                           !.pc = IF Cardinality(worker[w].live) > 1 THEN "renew" ELSE "history"]

ReadSealed(w) ==
  /\ At(w, "sealed")
  /\ Local(w, Retiring(w, {b \in Sealed : batches[b].consent \notin worker[w].live}))
  /\ UNCHANGED <<started, egressVars, ledgerVars, remoteVars>>

\* Mutant: only the batch is marked.
SettleBatchOnly(b, state) ==
  /\ batches' = [batches EXCEPT ![b].state = state]
  /\ UNCHANGED <<outbox, overtaken>>

\* acknowledge_upload_batch and poison_upload_batch: the batch and its rows,
\* in one transaction and whatever their state is by then.
Settle(b, state) ==
  /\ batches' = [batches EXCEPT ![b].state = state]
  /\ outbox' = [r \in Id |-> IF outbox[r].batch = b THEN [outbox[r] EXCEPT !.state = state]
                             ELSE outbox[r]]
  /\ UNCHANGED overtaken

RetireBatch(w) ==
  /\ At(w, "retire")
  /\ LET b == Min(worker[w].work)
     IN /\ Settle(b, "poison")
        /\ Local(w, Retiring(w, worker[w].work \ {b}))
  /\ UNCHANGED <<started, egressVars, remoteVars>>

\* Rows of earlier consents that are still live move to the newest one.
Renew(w) ==
  /\ At(w, "renew")
  /\ outbox' = [r \in Id |-> IF r \in Rows("pending") /\ outbox[r].consent \in worker[w].live
                             THEN [outbox[r] EXCEPT !.consent = Max(worker[w].live)]
                             ELSE outbox[r]]
  /\ Goto(w, "history")
  /\ UNCHANGED <<started, egressVars, batches, overtaken, remoteVars>>

ReadHistory(w) ==
  /\ At(w, "history")
  /\ Local(w, [worker[w] EXCEPT !.pc = "stage", !.history = Len(log)])
  /\ UNCHANGED <<started, egressVars, ledgerVars, remoteVars>>

SinceConsent(w, r) == records[r].granted >= Min(worker[w].live)

\* eligible: profile_at over the history that was read.
Eligible(w, r) ==
  /\ SinceConsent(w, r)
  /\ ProfileAt(Min({records[r].generation, worker[w].history})) = "personal"

HasParent(r) == records[r].parent # 0

\* The first rows of a kind that are not in the outbox, LIMIT STAGE_CHUNK.
Candidates(w, withParent) ==
  LET new == {r \in DOMAIN records : /\ outbox[r] = NoRow
                                     /\ HasParent(r) = withParent
                                     /\ SinceConsent(w, r)}
  IN {r \in new : Cardinality({s \in new : s < r}) < Chunk}

\* Mutant: the event a record is about need not be eligible.
StageableAlone(w) == {r \in Candidates(w, FALSE) \cup Candidates(w, TRUE) : Eligible(w, r)}

Stageable(w) ==
  {r \in Candidates(w, FALSE) \cup Candidates(w, TRUE) :
     Eligible(w, r) /\ (HasParent(r) => Eligible(w, records[r].parent))}

Stage(w) ==
  /\ At(w, "stage")
  /\ outbox' = [r \in Id |-> IF r \in Stageable(w)
                             THEN [NoRow EXCEPT !.state = "pending", !.consent = Max(worker[w].live)]
                             ELSE outbox[r]]
  /\ overtaken' = overtaken \cup {r \in Stageable(w) : records[r].generation > worker[w].history}
  /\ Local(w, [worker[w] EXCEPT !.pc = "bound", !.live = {}, !.history = 0])
  /\ UNCHANGED <<started, egressVars, batches, remoteVars>>

\* enforce_outbox_bound: rows S are too old or too many.
EnforceBound(w, S) ==
  /\ At(w, "bound")
  /\ outbox' = [r \in Id |-> IF r \in S THEN [outbox[r] EXCEPT !.state = "expired"] ELSE outbox[r]]
  /\ Local(w, AfterStaging(w))
  /\ UNCHANGED <<started, egressVars, batches, overtaken, remoteVars>>

-----------------------------------------------------------------------------
(***************************************************************************)
(* Sealing and sending: the loop of run_upload, and send_batch.            *)
(***************************************************************************)
\* The batches found unfinished are sent from the last to the first.
Continue(w, work) ==
  IF work = {} THEN [worker[w] EXCEPT !.pc = "next", !.batch = 0, !.work = {}]
               ELSE [worker[w] EXCEPT !.pc = "decide", !.batch = Max(work), !.work = work \ {Max(work)}]

ReadUnfinished(w) ==
  /\ At(w, "unfinished")
  /\ Local(w, Continue(w, Sealed))
  /\ UNCHANGED <<started, egressVars, ledgerVars, remoteVars>>

\* The members of the next batch: pending rows of the run's own consent.
Members(w) ==
  LET pending == {r \in Rows("pending") : outbox[r].consent = worker[w].consent}
  IN {r \in pending : Cardinality({s \in pending : s < r}) < BatchSize}

Seal(w) ==
  /\ At(w, "next")
  /\ Members(w) # {}
  /\ Len(batches) < MaxBatch
  /\ LET b == Len(batches) + 1
     IN /\ batches' = Append(batches, [consent |-> worker[w].consent, members |-> Members(w),
                                       state |-> "sealed"])
        /\ outbox' = [r \in Id |-> IF r \in Members(w)
                                   THEN [outbox[r] EXCEPT !.state = "inflight", !.batch = b]
                                   ELSE outbox[r]]
        /\ Local(w, [worker[w] EXCEPT !.pc = "decide", !.batch = b])
  /\ UNCHANGED <<started, egressVars, overtaken, remoteVars>>

NothingToSend(w) ==
  /\ At(w, "next")
  /\ Members(w) = {}
  /\ Local(w, Idle)
  /\ UNCHANGED <<started, egressVars, ledgerVars, remoteVars>>

\* decide_egress, asked again before every attempt.
Decide(w) ==
  /\ At(w, "decide")
  /\ IF Live = {} THEN Local(w, Idle) ELSE Goto(w, "post")
  /\ UNCHANGED <<started, egressVars, ledgerVars, remoteVars>>

Post(w) ==
  /\ At(w, "post")
  /\ net' = net \cup {[from |-> w, batch |-> worker[w].batch]}
  /\ Goto(w, "wait")
  /\ UNCHANGED <<started, egressVars, ledgerVars, delivered>>

\* Mutant: 409 is taken for an acknowledgement.
AcknowledgeConflict(w) ==
  /\ At(w, "ok") \/ At(w, "conflict")
  /\ Settle(worker[w].batch, "acknowledged")
  /\ Local(w, Continue(w, worker[w].work))
  /\ UNCHANGED <<started, egressVars, remoteVars>>

Acknowledge(w) ==
  /\ At(w, "ok")
  /\ Settle(worker[w].batch, "acknowledged")
  /\ Local(w, Continue(w, worker[w].work))
  /\ UNCHANGED <<started, egressVars, remoteVars>>

\* One permanent rejection stops the run.
Poison(w) ==
  /\ At(w, "rejected")
  /\ Settle(worker[w].batch, "poison")
  /\ Local(w, Idle)
  /\ UNCHANGED <<started, egressVars, remoteVars>>

\* A timeout, a transport error, 408, 429 or 5xx: the next attempt.
Retry(w) ==
  /\ At(w, "wait")
  /\ Goto(w, "decide")
  /\ UNCHANGED <<started, egressVars, ledgerVars, remoteVars>>

\* The process ends, a statement fails, attempts or the budget are used up,
\* a credential is missing, another denial, a redirect, 401, 403, 404, 405,
\* 409 or 413: everything local is gone and the batch stays sealed.
Stop(w) ==
  /\ ~ At(w, "idle")
  /\ Local(w, Idle)
  /\ UNCHANGED <<started, egressVars, ledgerVars, remoteVars>>

-----------------------------------------------------------------------------
(***************************************************************************)
(* The receiver, as send_batch expects it.  A request may arrive long      *)
(* after its sender has stopped waiting.                                   *)
(***************************************************************************)
Answer(m, pc) ==
  worker' = IF worker[m.from].pc = "wait" /\ worker[m.from].batch = m.batch
            THEN [worker EXCEPT ![m.from].pc = pc] ELSE worker

Receive(m) ==
  /\ delivered' = delivered \cup {m.batch}
  /\ net' = net \ {m}
  /\ Answer(m, "ok")
  /\ UNCHANGED <<started, egressVars, ledgerVars>>

Reject(m, pc) ==
  /\ net' = net \ {m}
  /\ Answer(m, pc)
  /\ UNCHANGED <<started, egressVars, ledgerVars, delivered>>

Lose(m) ==
  /\ net' = net \ {m}
  /\ UNCHANGED <<started, egressVars, ledgerVars, worker, delivered>>

-----------------------------------------------------------------------------
Egress ==
  \/ \E p \in {"personal", "corporate"} : SetProfile(p)
  \/ \E g \in 1 .. Len(log) : GrantConsent(g)
  \/ \E k \in DOMAIN consents : EndConsent(k)
  \/ \E parent \in {0} \cup {r \in DOMAIN records : ~ HasParent(r)} : Capture(parent)

Staging(w) ==
  \/ \E sends \in BOOLEAN : Start(w, sends)
  \/ ReadConsent(w) \/ ReadLive(w)
  \/ RetirePending(w) \/ ReadSealed(w) \/ RetireBatch(w)
  \/ Renew(w) \/ ReadHistory(w) \/ Stage(w)
  \/ \E S \in SUBSET Rows("pending") : EnforceBound(w, S)

Sending(w) ==
  \/ ReadUnfinished(w) \/ Seal(w) \/ NothingToSend(w)
  \/ Decide(w) \/ Post(w) \/ Acknowledge(w) \/ Poison(w) \/ Retry(w) \/ Stop(w)

Receiver ==
  \E m \in net :
    \/ Receive(m) \/ Lose(m)
    \/ \E pc \in {"rejected", "conflict"} : Reject(m, pc)

Next == Egress \/ (\E w \in Worker : Staging(w) \/ Sending(w)) \/ Receiver

Spec == Init /\ [][Next]_vars

-----------------------------------------------------------------------------
Row == [state : {"none", "pending", "inflight", "acknowledged", "poison", "expired"},
        consent : 0 .. MaxConsent, batch : 0 .. MaxBatch]
Consent == [generation : 1 .. MaxGeneration, revoked : BOOLEAN]
Record == [parent : 0 .. MaxRecord, generation : 0 .. MaxGeneration, granted : 0 .. MaxConsent]
Batch == [consent : 1 .. MaxConsent, members : SUBSET Id,
          state : {"sealed", "acknowledged", "poison"}]
Run == [pc : {"idle", "consent", "live", "pending", "sealed", "retire", "renew", "history",
              "stage", "bound", "unfinished", "next", "decide", "post", "wait", "ok",
              "rejected", "conflict"},
        sends : BOOLEAN, consent : 0 .. MaxConsent, live : SUBSET (1 .. MaxConsent),
        history : 0 .. MaxGeneration, work : SUBSET (1 .. MaxBatch), batch : 0 .. MaxBatch]

\* Every variable has the shape its table or local has.
TypeOK ==
  /\ log \in Seq({"personal", "corporate"})
  /\ consents \in Seq(Consent)
  /\ records \in Seq(Record)
  /\ outbox \in [Id -> Row]
  /\ batches \in Seq(Batch)
  /\ worker \in [Worker -> Run]
  /\ started \in 0 .. MaxRun
  /\ net \subseteq [from : Worker, batch : 1 .. MaxBatch]
  /\ delivered \subseteq 1 .. MaxBatch
  /\ overtaken \subseteq Id

\* The record and the event it is about.
Concerned(r) == {r} \cup ({records[r].parent} \ {0})

CapturedPersonal(r) == ProfileAt(records[r].generation) = "personal"
CapturedSince(r, g) == \E k \in 1 .. records[r].granted : consents[k].generation = g

\* A record in the outbox, in whatever state, and the event it is about were
\* captured after a consent of the generation of the row's own consent and,
\* but for one race, under the personal profile: grants, revocations and
\* profile changes between the reads of a run, renewals and the runs beside it
\* change nothing in that (the first guarantee of upload.rs).  The race: the
\* run has read the profile log, the profile changes, the record is captured,
\* and the run judges it by the profile before.
OnlyEligibleStaged ==
  \A r \in Id : outbox[r] # NoRow =>
    \A x \in Concerned(r) :
      /\ CapturedSince(x, consents[outbox[r].consent].generation)
      /\ r \notin overtaken => CapturedPersonal(x)

RowState(state) == IF state = "sealed" THEN "inflight" ELSE state

\* The two ledgers agree at every moment, beside late answers, retirements
\* and runs that stop anywhere: a row names the one batch that holds it and
\* is in the state of that batch, a row that waits or expired is in none.
LedgersAgree ==
  /\ \A b \in DOMAIN batches : \A r \in batches[b].members :
       outbox[r].batch = b /\ outbox[r].state = RowState(batches[b].state)
  /\ \A r \in Id : outbox[r].batch # 0 => r \in batches[outbox[r].batch].members
  /\ \A r \in Rows("pending") \cup Rows("expired") \cup Rows("none") : outbox[r].batch = 0

\* A batch is acknowledged only if the receiver holds it, although answers
\* arrive late, requests of two runs cross, and a conflict means the receiver
\* holds something else under that id.
AckedWasDelivered ==
  \A b \in DOMAIN batches : batches[b].state = "acknowledged" => b \in delivered

=============================================================================
