----------------------------- MODULE AuditLedger -----------------------------
(***************************************************************************)
(* The local audit ledger of fornax-store (audit_ledger.rs), the receipts  *)
(* it keeps of checkpoints a remote service has signed                     *)
(* (audit_checkpoint.rs) and the task of fornax-daemon that submits the    *)
(* ledger's head and compares the receipts with the ledger                 *)
(* (audit_checkpoint_submit.rs).                                           *)
(*                                                                         *)
(* The ledger is a hash chain.  A hash is modelled by what it commits to:  *)
(* the sequence of (seq, payload) pairs from the genesis marker, which is  *)
(* the empty sequence.  Two different inputs have two different hashes.    *)
(*                                                                         *)
(* The tables may also be changed by other means than this code: an edit   *)
(* of the file, a lost row, an old copy put back.  Those changes are the   *)
(* actions of Damage; noticing them is what the ledger is for.             *)
(***************************************************************************)
EXTENDS Integers, Sequences, FiniteSets, FiniteSetsExt

CONSTANTS
  Payload,      \* contents of audit events
  Device,       \* identities the service knows devices by
  Foreign,      \* the content of another device's ledger
  MaxSeq,       \* bound on the ledger's length
  MaxCycle,     \* bound on submission cycles
  MaxDamage     \* bound on changes by other means

ASSUME ForeignAssumption == Foreign \notin Payload
ASSUME BoundAssumption == MaxSeq \in Nat \ {0} /\ MaxCycle \in Nat /\ MaxDamage \in Nat

VARIABLES
  rows,      \* audit_events: a function from the seqs present to rows
  high,      \* audit_ledger_high_water; max 0 and the genesis hash if absent
  receipts,  \* audit_checkpoints: a function from checkpoint_seq to receipts
  enrolled,  \* the device the credential read at daemon start stands for
  task,      \* the submission task
  net,       \* requests on their way to the service
  cloud,     \* per device, the heads the service has signed, in order
  damage,    \* history: the changes made by other means
  written    \* history: the rows as the code, or a complete rewrite, left them

ledgerVars == <<rows, high, damage, written>>
remoteVars == <<net, cloud>>
vars == <<rows, high, receipts, enrolled, task, net, cloud, damage, written>>

Genesis == <<>>

EntryHash(seq, prev, payload) == Append(prev, <<seq, payload>>)

\* A row, as far as compute_entry_hash covers it.  The columns recorded_at,
\* export_class and event_id are outside the hash: nothing notices an edit of
\* them, and no property here speaks of it.
Entry(seq, prev, payload) ==
  [prev |-> prev, payload |-> payload, hash |-> EntryHash(seq, prev, payload)]

Last(rs) == Max(DOMAIN rs \cup {0})

With(f, x, y) == [z \in DOMAIN f \cup {x} |-> IF z = x THEN y ELSE f[z]]
Without(f, S) == [z \in DOMAIN f \ S |-> f[z]]

(***************************************************************************)
(* Verification.  Rows are scanned in order of seq; the first slot that is *)
(* empty, not linked to its predecessor, or whose hash does not match its  *)
(* contents is reported, then a tail shorter than the high-water mark.     *)
(***************************************************************************)
ExpectedPrev(rs, s) == IF s = 1 THEN Genesis ELSE rs[s - 1].hash

Missing(rs, s) == s \notin DOMAIN rs
Relinked(rs, s) == s \in DOMAIN rs /\ rs[s].prev # ExpectedPrev(rs, s)
Mismatch(rs, s) == s \in DOMAIN rs /\ rs[s].hash # EntryHash(s, rs[s].prev, rs[s].payload)

BadSlots(rs) ==
  {s \in 1 .. Last(rs) : \/ Missing(rs, s)
                         \/ s - 1 \in DOMAIN rs \cup {0} /\ Relinked(rs, s)
                         \/ Mismatch(rs, s)}

Valid == [bad |-> 0, kind |-> "Valid"]

\* Mutant: the contents are checked before the link.
KindContentsFirst(rs, s) ==
  CASE Missing(rs, s) -> "MissingSeq"
    [] Mismatch(rs, s) -> "HashMismatch"
    [] OTHER -> "RelinkedPrevHash"

KindAt(rs, s) ==
  CASE Missing(rs, s) -> "MissingSeq"
    [] Relinked(rs, s) -> "RelinkedPrevHash"
    [] OTHER -> "HashMismatch"

\* Mutant: a tail that is longer than the mark read before is an error too.
ChainStrict(rs, hw) ==
  CASE BadSlots(rs) # {} -> [bad |-> Min(BadSlots(rs)), kind |-> KindAt(rs, Min(BadSlots(rs)))]
    [] BadSlots(rs) = {} /\ Last(rs) # hw -> [bad |-> Last(rs) + 1, kind |-> "TruncatedTail"]
    [] OTHER -> Valid

\* verify_audit_chain over the rows rs and the high-water mark hw.
Chain(rs, hw) ==
  CASE BadSlots(rs) # {} -> [bad |-> Min(BadSlots(rs)), kind |-> KindAt(rs, Min(BadSlots(rs)))]
    [] BadSlots(rs) = {} /\ Last(rs) < hw -> [bad |-> Last(rs) + 1, kind |-> "TruncatedTail"]
    [] OTHER -> Valid

\* Mutant: a row at the attested seq is enough.
ConsistencyBySeq(chain, r, rs) ==
  CASE chain.bad # 0 /\ chain.bad <= r.head -> "AttestedPrefixCorrupted"
    [] chain.bad > r.head -> "DivergedAfterAnchor"
    [] chain.bad = 0 /\ r.head \notin DOMAIN rs -> "AnchorMissing"
    [] OTHER -> "Consistent"

\* Mutant: damage in the attested row itself counts as later damage.
ConsistencyExclusive(chain, r, rs) ==
  CASE chain.bad # 0 /\ chain.bad < r.head -> "AttestedPrefixCorrupted"
    [] chain.bad # 0 /\ chain.bad >= r.head -> "DivergedAfterAnchor"
    [] chain.bad = 0 /\ r.head \notin DOMAIN rs -> "AnchorMissing"
    [] chain.bad = 0 /\ r.head \in DOMAIN rs /\ rs[r.head].hash # r.hash -> "AnchorRewritten"
    [] OTHER -> "Consistent"

\* evaluate_checkpoint_consistency for the receipt r.
Consistency(chain, r, rs) ==
  CASE chain.bad # 0 /\ chain.bad <= r.head -> "AttestedPrefixCorrupted"
    [] chain.bad > r.head -> "DivergedAfterAnchor"
    [] chain.bad = 0 /\ r.head \notin DOMAIN rs -> "AnchorMissing"
    [] chain.bad = 0 /\ r.head \in DOMAIN rs /\ rs[r.head].hash # r.hash -> "AnchorRewritten"
    [] OTHER -> "Consistent"

NoTail == [head |-> 0, hash |-> Genesis]
NoReply == [ok |-> FALSE]

\* A fresh task: the receipts are evaluated before anything else.
Started == [pc |-> "high", then |-> "started", cycle |-> 0, tail |-> NoTail, hw |-> 0,
            chain |-> Valid, todo |-> {}, verdict |-> "Consistent", reply |-> NoReply]

Init ==
  /\ rows = [s \in {} |-> s]
  /\ high = [max |-> 0, last |-> Genesis]
  /\ receipts = [c \in {} |-> c]
  /\ enrolled \in Device
  /\ task = Started
  /\ net = {}
  /\ cloud = [d \in Device |-> IF d = enrolled THEN <<>>
                                ELSE <<[head |-> 1, hash |-> EntryHash(1, Genesis, Foreign)]>>]
  /\ damage = <<>>
  /\ written = rows

-----------------------------------------------------------------------------
(***************************************************************************)
(* Appending.  Callers hold the write lock, so an append is one step.      *)
(***************************************************************************)

\* The history keeps what was first written at a seq.
FirstWritten(seq, row) ==
  written' = IF seq \in DOMAIN written THEN written ELSE With(written, seq, row)

\* Mutant: the next seq and prev_hash come from the rows that are present.
AppendFromTail(p) ==
  LET seq == Last(rows) + 1
      prev == IF seq = 1 THEN Genesis ELSE rows[seq - 1].hash
      row == Entry(seq, prev, p)
  IN /\ seq <= MaxSeq
     /\ rows' = With(rows, seq, row)
     /\ FirstWritten(seq, row)
     /\ high' = IF seq > high.max THEN [max |-> seq, last |-> row.hash] ELSE high
     /\ UNCHANGED <<receipts, enrolled, task, net, cloud, damage>>

AppendEvent(p) ==
  LET seq == high.max + 1
      row == Entry(seq, high.last, p)
  IN /\ seq <= MaxSeq
     /\ seq \notin DOMAIN rows
     /\ rows' = With(rows, seq, row)
     /\ FirstWritten(seq, row)
     /\ high' = [max |-> seq, last |-> row.hash]
     /\ UNCHANGED <<receipts, enrolled, task, net, cloud, damage>>

-----------------------------------------------------------------------------
(***************************************************************************)
(* Changes by other means.                                                 *)
(***************************************************************************)
Damaged(what, s) ==
  /\ Len(damage) < MaxDamage
  /\ damage' = Append(damage, <<what, s>>)
  /\ UNCHANGED <<receipts, enrolled, task, net, cloud>>

LoseRow(s) ==
  /\ Damaged("lose", s)
  /\ rows' = Without(rows, {s})
  /\ UNCHANGED <<high, written>>

EditPayload(s, p) ==
  /\ p # rows[s].payload
  /\ Damaged("edit", s)
  /\ rows' = [rows EXCEPT ![s].payload = p]
  /\ UNCHANGED <<high, written>>

Relink(s, t) ==
  /\ rows[t].hash # rows[s].prev
  /\ Damaged("relink", s)
  /\ rows' = [rows EXCEPT ![s].prev = rows[t].hash]
  /\ UNCHANGED <<high, written>>

\* The payload of s is replaced and all hashes from s on are computed anew.
Rewrite(s, p) ==
  LET new == Append(rows[s].prev, <<s, p>>)
      hashAt(t) == new \o SubSeq(rows[t].hash, s + 1, t)
      row(t) == CASE t < s -> rows[t]
                  [] t = s -> Entry(s, rows[s].prev, p)
                  [] t > s -> [rows[t] EXCEPT !.prev = IF t = s + 1 THEN new ELSE hashAt(t - 1),
                                              !.hash = hashAt(t)]
  IN /\ Chain(rows, 0) = Valid
     /\ p # rows[s].payload
     /\ Damaged("rewrite", s)
     /\ rows' = [t \in DOMAIN rows |-> row(t)]
     /\ written' = [t \in DOMAIN written |-> IF t \in DOMAIN rows THEN rows'[t] ELSE written[t]]
     /\ high' \in {high, [high EXCEPT !.last = IF high.max \in DOMAIN rows
                                               THEN rows'[high.max].hash ELSE high.last]}

\* An old copy of both ledger tables, ending at s, is put back.
PutBack(s) ==
  /\ rows = written
  /\ Damaged("put back", s)
  /\ rows' = Without(rows, (s + 1) .. MaxSeq)
  /\ written' = rows'
  /\ high' = [max |-> s, last |-> rows[s].hash]

Damage ==
  \E s \in DOMAIN rows :
    \/ LoseRow(s)
    \/ \E p \in Payload : EditPayload(s, p) \/ Rewrite(s, p)
    \/ \E t \in DOMAIN rows : Relink(s, t)
    \/ PutBack(s)

-----------------------------------------------------------------------------
(***************************************************************************)
(* The submission task.  Each step is one statement or one wait of         *)
(* submit_one_cycle_with_gate and evaluate_all_checkpoint_receipts; a      *)
(* cycle that egress policy denies, or that finds the ledger empty or      *)
(* unreadable, is no step.  task.then is what follows the verification in  *)
(* progress: the status to report ("report"), the evaluation before a      *)
(* submission ("submit") or the one at daemon start ("started").           *)
(***************************************************************************)
Goto(pc) == task' = [task EXCEPT !.pc = pc]

\* The cycle is over: its local variables are gone.
Rest == task' = [Started EXCEPT !.pc = "idle", !.cycle = task.cycle]

BeginCycle ==
  /\ task.pc = "idle"
  /\ task.cycle < MaxCycle
  /\ DOMAIN rows # {}
  /\ task' = [task EXCEPT !.pc = "high", !.then = "report", !.cycle = task.cycle + 1,
                          !.tail = [head |-> Last(rows), hash |-> rows[Last(rows)].hash]]
  /\ UNCHANGED <<ledgerVars, receipts, enrolled, remoteVars>>

ReadHighWater ==
  /\ task.pc = "high"
  /\ task' = [task EXCEPT !.pc = "rows", !.hw = high.max]
  /\ UNCHANGED <<ledgerVars, receipts, enrolled, remoteVars>>

ReadRows ==
  /\ task.pc = "rows"
  /\ task' = [task EXCEPT !.chain = Chain(rows, task.hw),
                          !.pc = IF task.then = "report" THEN "high" ELSE "receipts",
                          !.then = IF task.then = "report" THEN "submit" ELSE task.then]
  /\ UNCHANGED <<ledgerVars, receipts, enrolled, remoteVars>>

ReadReceipts ==
  /\ task.pc = "receipts"
  /\ task' = [task EXCEPT !.pc = "anchors", !.todo = DOMAIN receipts]
  /\ UNCHANGED <<ledgerVars, receipts, enrolled, remoteVars>>

CompareAnchor ==
  /\ task.pc = "anchors"
  /\ task.todo # {}
  /\ LET c == Min(task.todo)
     IN task' = [task EXCEPT !.todo = task.todo \ {c},
                             !.verdict = Consistency(task.chain, receipts[c], rows)]
  /\ UNCHANGED <<ledgerVars, receipts, enrolled, remoteVars>>

EvaluationDone ==
  /\ task.pc = "anchors"
  /\ task.todo = {}
  /\ IF task.then = "submit"
     THEN task' = [task EXCEPT !.pc = "seq", !.hw = 0, !.chain = Valid, !.verdict = "Consistent"]
     ELSE Rest
  /\ UNCHANGED <<ledgerVars, receipts, enrolled, remoteVars>>

\* next_checkpoint_seq is one above the latest receipt.
Post ==
  /\ task.pc = "seq"
  /\ net' = net \cup {[cycle |-> task.cycle, device |-> enrolled,
                       cseq |-> Max(DOMAIN receipts \cup {0}) + 1, head |-> task.tail]}
  /\ Goto("posted")
  /\ UNCHANGED <<ledgerVars, receipts, enrolled, cloud>>

-----------------------------------------------------------------------------
(***************************************************************************)
(* The service, as ADR 0012 has it: one checkpoint per checkpoint_seq,     *)
(* without gaps, heads that never go back.  An answer reaches the task     *)
(* only while the task waits for it; requests outlive the task's timeout.  *)
(***************************************************************************)
Acceptable(r) ==
  LET signed == cloud[r.device] IN
  /\ r.cseq = Len(signed) + 1
  /\ signed # <<>> =>
       LET last == signed[Len(signed)] IN
       \/ r.head.head > last.head
       \/ r.head = last

Answer(r, reply) ==
  task' = IF task.pc = "posted" /\ r.cycle = task.cycle
          THEN [task EXCEPT !.pc = "answered", !.reply = reply]
          ELSE task

Sign(r) ==
  /\ r \in net
  /\ Acceptable(r)
  /\ cloud' = [cloud EXCEPT ![r.device] = Append(@, r.head)]
  /\ net' = net \ {r}
  /\ Answer(r, [ok |-> TRUE, device |-> r.device, cseq |-> r.cseq, head |-> r.head])
  /\ UNCHANGED <<ledgerVars, receipts, enrolled>>

Refuse(r) ==
  /\ r \in net
  /\ ~ Acceptable(r)
  /\ net' = net \ {r}
  /\ Answer(r, NoReply)
  /\ UNCHANGED <<ledgerVars, receipts, enrolled, cloud>>

\* Some other checkpoint with a good signature comes back.
Misdirect(r, d, c) ==
  /\ r \in net
  /\ c \in DOMAIN cloud[d]
  /\ net' = net \ {r}
  /\ Answer(r, [ok |-> TRUE, device |-> d, cseq |-> c, head |-> cloud[d][c]])
  /\ UNCHANGED <<ledgerVars, receipts, enrolled, cloud>>

Lose(r) ==
  /\ r \in net
  /\ net' = net \ {r}
  /\ UNCHANGED <<ledgerVars, receipts, enrolled, task, cloud>>

\* Mutant: the device_id of the response is not compared.
StorableAnyDevice(reply) == reply.ok /\ reply.head = task.tail

\* The response echoes the submitted head, and names the first receipt's device.
Storable(reply) ==
  /\ reply.ok
  /\ reply.head = task.tail
  /\ DOMAIN receipts # {} => receipts[Min(DOMAIN receipts)].device = reply.device

StoreReceipt ==
  /\ task.pc = "answered"
  /\ Storable(task.reply)
  /\ receipts' = With(receipts, task.reply.cseq,
                      [device |-> task.reply.device, head |-> task.reply.head.head,
                       hash |-> task.reply.head.hash])
  /\ Rest
  /\ UNCHANGED <<ledgerVars, enrolled, remoteVars>>

\* No answer in time, an error status, or a response that is not stored
\* (signature, trust store and body checks included).
GiveUp ==
  /\ task.pc \in {"posted", "answered"}
  /\ Rest
  /\ UNCHANGED <<ledgerVars, receipts, enrolled, remoteVars>>

\* The daemon starts again, with the credential found then.
Restart(d) ==
  /\ task' = [Started EXCEPT !.cycle = task.cycle]
  /\ enrolled' = d
  /\ UNCHANGED <<ledgerVars, receipts, remoteVars>>

Submission ==
  \/ BeginCycle \/ ReadHighWater \/ ReadRows \/ ReadReceipts
  \/ CompareAnchor \/ EvaluationDone \/ Post \/ StoreReceipt \/ GiveUp

Service ==
  \E r \in net :
    \/ Sign(r) \/ Refuse(r) \/ Lose(r)
    \/ \E d \in Device : \E c \in DOMAIN cloud[d] : Misdirect(r, d, c)

Next ==
  \/ \E p \in Payload : AppendEvent(p)
  \/ Damage
  \/ Submission
  \/ Service
  \/ \E d \in Device : Restart(d)

Spec == Init /\ [][Next]_vars

-----------------------------------------------------------------------------
Content == Payload \cup {Foreign}
Hash == Seq((1 .. MaxSeq) \X Content)
LedgerHead == [head : 0 .. MaxSeq, hash : Hash]
ChainResult == [bad : 0 .. MaxSeq + 1,
                kind : {"Valid", "MissingSeq", "RelinkedPrevHash", "HashMismatch", "TruncatedTail"}]
Verdict == {"Consistent", "AnchorMissing", "AnchorRewritten", "DivergedAfterAnchor",
            "AttestedPrefixCorrupted"}
Reply == {NoReply} \cup [ok : {TRUE}, device : Device, cseq : Nat, head : LedgerHead]

\* Every variable has the shape the tables and the task's locals have; in
\* particular no cycle is waiting to compare a receipt that is not stored.
TypeOK ==
  /\ DOMAIN rows \subseteq 1 .. MaxSeq
  /\ \A s \in DOMAIN rows : rows[s] \in [prev : Hash, payload : Payload, hash : Hash]
  /\ high \in [max : 0 .. MaxSeq, last : Hash]
  /\ DOMAIN receipts \subseteq Nat
  /\ \A c \in DOMAIN receipts : receipts[c] \in [device : Device, head : 0 .. MaxSeq, hash : Hash]
  /\ enrolled \in Device
  /\ task.pc \in {"idle", "high", "rows", "receipts", "anchors", "seq", "posted", "answered"}
  /\ task.then \in {"started", "report", "submit"}
  /\ task.cycle \in 0 .. MaxCycle
  /\ task.tail \in LedgerHead
  /\ task.hw \in 0 .. MaxSeq
  /\ task.chain \in ChainResult
  /\ task.todo \subseteq DOMAIN receipts
  /\ task.verdict \in Verdict
  /\ task.reply \in Reply
  /\ net \subseteq [cycle : 1 .. MaxCycle, device : Device, cseq : Nat, head : LedgerHead]
  /\ cloud \in [Device -> Seq(LedgerHead)]

\* A chain that verifies is the one that was written: a row that is lost,
\* edited or relinked by other means is noticed, and no later append makes
\* the ledger look whole again (append_audit_event_locked continues from the
\* high-water row, never from the rows present).
ValidMeansUntouched == Chain(rows, high.max) = Valid => rows = written

Partial == {"lose", "edit", "relink"}

\* A single change is reported at its slot and by its kind, however many
\* events have been appended since (the detection order of
\* verify_audit_chain_conn).
DamageNamed ==
  Len(damage) = 1 /\ damage[1][1] \in Partial =>
    LET what == damage[1][1]
        s == damage[1][2]
    IN Chain(rows, high.max) =
         [bad |-> s, kind |-> CASE what = "edit" -> "HashMismatch"
                                [] what = "relink" -> "RelinkedPrevHash"
                                [] what = "lose" -> IF s > Last(rows) THEN "TruncatedTail"
                                                    ELSE "MissingSeq"]

\* A single change is attributed to the right side of every checkpoint: a
\* receipt whose head lies at or after it is corrupted, an earlier one is not.
DamageLocated ==
  Len(damage) = 1 /\ damage[1][1] \in Partial =>
    \A c \in DOMAIN receipts :
      Consistency(Chain(rows, high.max), receipts[c], rows) =
        IF damage[1][2] <= receipts[c].head THEN "AttestedPrefixCorrupted"
                                            ELSE "DivergedAfterAnchor"

\* While nothing but this code touches the tables, no verification reports a
\* divergence and no receipt is judged inconsistent, although the high-water
\* row, the rows, the receipts and each anchor are read at different times
\* beside appends, and although the answers to requests are lost, late or
\* someone else's.
NoFalseAlarm == damage = <<>> => task.chain = Valid /\ task.verdict = "Consistent"

\* Whatever was done to both ledger tables, a receipt that is judged
\* Consistent vouches for every event up to its head: those are the events
\* the service signed for.
AnchoredPrefixIntact ==
  \A c \in DOMAIN receipts :
    Consistency(Chain(rows, high.max), receipts[c], rows) = "Consistent" =>
      \A s \in 1 .. receipts[c].head : receipts[c].hash[s] = <<s, rows[s].payload>>

\* All receipts are checkpoints the service signed for one device, under that
\* checkpoint_seq and for that head; a later answer never replaces one by
\* another (the upsert of store_audit_checkpoint_receipt).
ReceiptsWitnessed ==
  \E d \in Device : \A c \in DOMAIN receipts :
    /\ receipts[c].device = d
    /\ c \in DOMAIN cloud[d]
    /\ cloud[d][c] = [head |-> receipts[c].head, hash |-> receipts[c].hash]

=============================================================================
