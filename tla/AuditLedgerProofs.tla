------------------------- MODULE AuditLedgerProofs -------------------------
(***************************************************************************)
(* AuditLedger for every ledger length, every number of submission cycles  *)
(* and devices and every number of changes by other means: what a chain    *)
(* that verifies proves, how a single change is reported, and what the     *)
(* receipts vouch for.                                                     *)
(***************************************************************************)
EXTENDS AuditLedger, SequenceTheorems, WellFoundedInduction, TLAPS

-----------------------------------------------------------------------------
(* The strengthening. *)

Row == [prev : Hash, payload : Payload, hash : Hash]

ReceiptRow == [device : Device, head : 0 .. MaxSeq, hash : Hash]

Request == [cycle : 1 .. MaxCycle, device : Device, cseq : Nat, head : LedgerHead]

TaskState ==
  [pc : {"idle", "high", "rows", "receipts", "anchors", "seq", "posted", "answered"},
   then : {"started", "report", "submit"}, cycle : 0 .. MaxCycle, tail : LedgerHead,
   hw : 0 .. MaxSeq, chain : ChainResult, todo : SUBSET Nat, verdict : Verdict, reply : Reply]

DamageKind == {"lose", "edit", "relink", "rewrite", "put back"}

\* The rows are a part of what was written, up to the high-water mark, and
\* whatever became of a row its hash is the one that was written there.
LedgerSound ==
  /\ high \in [max : 0 .. MaxSeq, last : Hash]
  /\ rows \in [DOMAIN rows -> Row]
  /\ DOMAIN rows \subseteq 1 .. high.max
  /\ written \in [1 .. high.max -> Row]
  /\ \A s \in DOMAIN rows : rows[s].hash = written[s].hash
  /\ \A s \in 1 .. high.max :
       written[s].hash = EntryHash(s, written[s].prev, written[s].payload)
  /\ damage \in Seq(DamageKind \X (1 .. MaxSeq))

Witnessed(d, c, h) == c \in DOMAIN cloud[d] /\ cloud[d][c] = h

\* The locals of the task, and the answer it holds, which the service signed.
TaskSound ==
  /\ task \in TaskState
  /\ task.todo \subseteq DOMAIN receipts
  /\ task.then # "started" => task.cycle >= 1
  /\ task.pc \in {"seq", "posted", "answered"} => task.then = "submit"
  /\ task.reply.ok => Witnessed(task.reply.device, task.reply.cseq, task.reply.head)

RemoteSound ==
  /\ receipts \in [DOMAIN receipts -> ReceiptRow]
  /\ \E n \in Nat : DOMAIN receipts \subseteq 0 .. n
  /\ enrolled \in Device
  /\ net \subseteq Request
  /\ cloud \in [Device -> Seq(LedgerHead)]
  /\ ReceiptsWitnessed

\* The row s is there, linked to the one before it, and hashes to its hash.
Good(rs, s) == s \in DOMAIN rs /\ ~ Relinked(rs, s) /\ ~ Mismatch(rs, s)

Anchored(h) == h.head \in DOMAIN rows /\ rows[h.head].hash = h.hash

\* As long as nothing but the code has touched the tables.
Pristine ==
  damage = <<>> =>
    /\ \A s \in 1 .. high.max : Good(rows, s)
    /\ high.last = ExpectedPrev(rows, high.max + 1)
    /\ task.hw <= high.max
    /\ task.chain = Valid
    /\ task.verdict = "Consistent"
    /\ task.then # "started" => Anchored(task.tail)
    /\ \A c \in DOMAIN receipts :
         Anchored([head |-> receipts[c].head, hash |-> receipts[c].hash])

\* A change of kind what at s is the first thing wrong with the rows.
FirstBad(what, s) ==
  /\ s <= high.max
  /\ \A u \in 1 .. s - 1 : Good(rows, u)
  /\ what = "lose" => s \notin DOMAIN rows
  /\ what = "edit" => s \in DOMAIN rows /\ ~ Relinked(rows, s) /\ Mismatch(rows, s)
  /\ what = "relink" => Relinked(rows, s)

StruckOnce ==
  Len(damage) = 1 /\ damage[1][1] \in Partial => FirstBad(damage[1][1], damage[1][2])

IInv == LedgerSound /\ TaskSound /\ RemoteSound /\ Pristine /\ StruckOnce

-----------------------------------------------------------------------------
(* Least and greatest elements. *)

LEMMA MinIsLeast ==
  ASSUME NEW S \in SUBSET Nat, S # {}
  PROVE  Min(S) \in S /\ \A x \in S : Min(S) <= x
<1> DEFINE R == OpToRel(<, Nat)
<1>1. \E x \in S : \A y \in S : ~ (<<y, x>> \in R)
  <2>1. IsWellFoundedOn(R, Nat)
    BY NatLessThanWellFounded
  <2> HIDE DEF R
  <2> QED BY <2>1, WFMin
<1>2. \A x, y \in Nat : <<y, x>> \in R <=> y < x
  BY DEF OpToRel
<1>3. \E x \in S : \A y \in S : x <= y
  <2> HIDE DEF R
  <2>1. PICK x \in S : \A y \in S : ~ (<<y, x>> \in R)
    BY <1>1
  <2>2. \A y \in S : x \in Nat /\ y \in Nat /\ ~ (y < x)
    BY <1>2, <2>1
  <2> QED BY <2>2
<1> QED BY <1>3 DEF Min

LEMMA MaxIsGreatest ==
  ASSUME NEW n \in Nat, NEW S \in SUBSET (0 .. n), S # {}
  PROVE  Max(S) \in S /\ \A x \in S : x <= Max(S)
<1> DEFINE U == {m \in Nat : \A x \in S : x <= m}
<1>1. U # {} /\ U \in SUBSET Nat
  <2>1. n \in U
    OBVIOUS
  <2> QED BY <2>1
<1>2. PICK m \in U : \A k \in U : m <= k
  <2> HIDE DEF U
  <2> QED BY <1>1, MinIsLeast
<1>3. m \in S
  <2> SUFFICES ASSUME m \notin S PROVE FALSE
    OBVIOUS
  <2>1. \A x \in S : x \in Nat /\ x <= m /\ x # m
    BY <1>2
  <2>2. PICK x \in S : TRUE
    OBVIOUS
  <2>3. m \in Nat /\ m >= 1
    BY <1>2, <2>1, <2>2
  <2>4. m - 1 \in U
    BY <2>1, <2>3
  <2> QED BY <1>2, <2>3, <2>4
<1>4. \A x \in S : x <= m
  BY <1>2
<1>5. \E x \in S : \A y \in S : x >= y
  <2>1. \A y \in S : m >= y
    BY <1>4, <1>2
  <2> QED BY <1>3, <2>1
<1>6. Max(S) \in S /\ \A y \in S : Max(S) >= y
  BY <1>5 DEF Max
<1> QED BY <1>6

-----------------------------------------------------------------------------
(* Hashes and rows. *)

\* A hash determines what it was computed from.
LEMMA HashInjective ==
  ASSUME NEW s \in 1 .. MaxSeq, NEW a \in Hash, NEW b \in Hash, NEW p \in Content, NEW q \in Content
  PROVE  /\ EntryHash(s, a, p) \in Hash
         /\ EntryHash(s, a, p) = EntryHash(s, b, q) => a = b /\ p = q
<1>1. <<s, p>> \in (1 .. MaxSeq) \X Content /\ <<s, q>> \in (1 .. MaxSeq) \X Content
  OBVIOUS
<1> DEFINE E == (1 .. MaxSeq) \X Content
<1>2. a \in Seq(E) /\ b \in Seq(E) /\ <<s, p>> \in E /\ <<s, q>> \in E
  BY <1>1 DEF Hash
<1> HIDE DEF E
<1>3. Append(a, <<s, p>>) \in Seq(E)
  BY <1>2, AppendProperties
<1>4. Append(a, <<s, p>>) = Append(b, <<s, q>>) => a = b /\ <<s, p>> = <<s, q>>
  BY <1>2, AppendInjective
<1> QED BY <1>3, <1>4 DEF EntryHash, Hash, E

LEMMA RowShape ==
  ASSUME NEW x \in Row
  PROVE  /\ x.prev \in Hash /\ x.payload \in Payload /\ x.payload \in Content /\ x.hash \in Hash
         /\ DOMAIN x = {"prev", "payload", "hash"}
         /\ \A h \in Hash : [x EXCEPT !.prev = h] \in Row
         /\ \A p \in Payload : [x EXCEPT !.payload = p] \in Row
         /\ \A h, g \in Hash :
              /\ [x EXCEPT !.prev = h, !.hash = g] \in Row
              /\ [x EXCEPT !.prev = h, !.hash = g].prev = h
              /\ [x EXCEPT !.prev = h, !.hash = g].hash = g
              /\ [x EXCEPT !.prev = h, !.hash = g].payload = x.payload
BY DEF Row, Content

LEMMA EntryShape ==
  ASSUME NEW s \in 1 .. MaxSeq, NEW a \in Hash, NEW p \in Payload
  PROVE  /\ Entry(s, a, p) \in Row
         /\ Entry(s, a, p).prev = a
         /\ Entry(s, a, p).payload = p
         /\ Entry(s, a, p).hash = EntryHash(s, a, p)
         /\ Entry(s, a, p).hash \in Hash
<1>1. p \in Content
  BY DEF Content
<1>2. EntryHash(s, a, p) \in Hash
  BY <1>1, HashInjective
<1> QED BY <1>2 DEF Entry, Row

\* Two rows with the same hash that both hash to it are the same row.
LEMMA SameHashSameRow ==
  ASSUME NEW s \in 1 .. MaxSeq, NEW x \in Row, NEW y \in Row, x.hash = y.hash,
         x.hash = EntryHash(s, x.prev, x.payload), y.hash = EntryHash(s, y.prev, y.payload)
  PROVE  x = y
<1>1. /\ x.prev \in Hash /\ x.payload \in Content
      /\ y.prev \in Hash /\ y.payload \in Content
  BY RowShape
<1>2. EntryHash(s, x.prev, x.payload) = EntryHash(s, y.prev, y.payload)
  OBVIOUS
<1>3. x.prev = y.prev /\ x.payload = y.payload
  BY <1>1, <1>2, HashInjective
<1> QED BY <1>3 DEF Row

\* In a run of good rows every hash commits to all rows up to its own.
LEMMA ChainHash ==
  ASSUME NEW n \in 0 .. MaxSeq, NEW rs, \A s \in 1 .. n : Good(rs, s) /\ rs[s] \in Row
  PROVE  \A t \in 1 .. n : Len(rs[t].hash) = t /\ \A s \in 1 .. t : rs[t].hash[s] = <<s, rs[s].payload>>
<1> DEFINE P(t) == Len(rs[t].hash) = t /\ \A s \in 1 .. t : rs[t].hash[s] = <<s, rs[s].payload>>
           T == {t \in 1 .. n : ~ P(t)}
<1> SUFFICES ASSUME T # {} PROVE FALSE
  OBVIOUS
<1>0. MaxSeq \in Nat
  BY BoundAssumption
<1>1. PICK t \in T : \A u \in T : t <= u
  <2>1. T \in SUBSET Nat
    BY <1>0
  <2> HIDE DEF T
  <2> QED BY <2>1, MinIsLeast
<1>2. t \in 1 .. n /\ t \in 1 .. MaxSeq /\ ~ P(t) /\ n \in Nat
  BY <1>0
<1>3. /\ rs[t].prev = ExpectedPrev(rs, t)
      /\ rs[t].hash = Append(rs[t].prev, <<t, rs[t].payload>>)
  BY <1>2 DEF Good, Relinked, Mismatch, EntryHash
<1> DEFINE E == (1 .. MaxSeq) \X Content
<1>4. <<t, rs[t].payload>> \in E /\ rs[t].prev \in Seq(E)
  BY <1>2, RowShape DEF Hash
<1>5. /\ Len(rs[t].hash) = Len(rs[t].prev) + 1
      /\ \A s \in 1 .. Len(rs[t].prev) : rs[t].hash[s] = rs[t].prev[s]
      /\ rs[t].hash[Len(rs[t].prev) + 1] = <<t, rs[t].payload>>
  <2> HIDE DEF E
  <2> QED BY <1>3, <1>4, AppendProperties
<1>6. /\ Len(rs[t].prev) = t - 1
      /\ \A s \in 1 .. t - 1 : rs[t].prev[s] = <<s, rs[s].payload>>
  <2>1. CASE t = 1
    <3>1. rs[t].prev = <<>>
      BY <1>3, <2>1 DEF ExpectedPrev, Genesis
    <3> QED BY <3>1, <2>1
  <2>2. CASE t # 1
    <3>1. t - 1 \in 1 .. n /\ t - 1 \notin T
      BY <1>1, <1>2, <2>2
    <3>2. P(t - 1)
      BY <3>1
    <3>3. rs[t].prev = rs[t - 1].hash
      BY <1>3, <2>2 DEF ExpectedPrev
    <3> QED BY <3>2, <3>3
  <2> QED BY <2>1, <2>2
<1>7. P(t)
  <2>1. Len(rs[t].hash) = t
    BY <1>2, <1>5, <1>6
  <2>2. ASSUME NEW s \in 1 .. t PROVE rs[t].hash[s] = <<s, rs[s].payload>>
    <3>1. CASE s = t
      BY <1>2, <1>5, <1>6, <3>1
    <3>2. CASE s # t
      <4>1. s \in 1 .. t - 1
        BY <1>2, <3>2
      <4> QED BY <4>1, <1>5, <1>6
    <3> QED BY <3>1, <3>2
  <2> QED BY <2>1, <2>2
<1> QED BY <1>2, <1>7

-----------------------------------------------------------------------------
(* What verify_audit_chain answers. *)

LEMMA LastShape ==
  ASSUME NEW n \in Nat, NEW rs, DOMAIN rs \subseteq 1 .. n
  PROVE  /\ Last(rs) \in 0 .. n
         /\ Last(rs) \in DOMAIN rs \cup {0}
         /\ \A s \in DOMAIN rs : s \in 1 .. Last(rs)
         /\ DOMAIN rs # {} => Last(rs) \in DOMAIN rs
<1> DEFINE S == DOMAIN rs \cup {0}
<1>1. S \in SUBSET (0 .. n) /\ S # {}
  OBVIOUS
<1>2. Max(S) \in S /\ \A x \in S : x <= Max(S)
  <2> HIDE DEF S
  <2> QED BY <1>1, MaxIsGreatest
<1> QED BY <1>1, <1>2 DEF Last

LEMMA NoBadSlots ==
  ASSUME NEW n \in Nat, NEW rs, DOMAIN rs \subseteq 1 .. n
  PROVE  /\ BadSlots(rs) \in SUBSET (1 .. Last(rs))
         /\ BadSlots(rs) = {} <=> \A s \in 1 .. Last(rs) : Good(rs, s)
<1>1. Last(rs) \in Nat
  BY LastShape
<1>2. BadSlots(rs) \in SUBSET (1 .. Last(rs))
  BY DEF BadSlots
<1>3. ASSUME BadSlots(rs) = {}, NEW s \in 1 .. Last(rs)
      PROVE  Good(rs, s)
  <2>1. \A u \in 1 .. Last(rs) : u \in DOMAIN rs /\ ~ Mismatch(rs, u)
    BY <1>3 DEF BadSlots, Missing
  <2>2. s - 1 \in DOMAIN rs \cup {0}
    <3>1. s = 1 \/ s - 1 \in 1 .. Last(rs)
      BY <1>1
    <3> QED BY <2>1, <3>1
  <2> QED BY <1>3, <2>1, <2>2 DEF BadSlots, Good
<1>4. ASSUME \A s \in 1 .. Last(rs) : Good(rs, s)
      PROVE  BadSlots(rs) = {}
  BY <1>4 DEF BadSlots, Good, Missing
<1> QED BY <1>2, <1>3, <1>4

LEMMA ChainAnswers ==
  ASSUME NEW rs, DOMAIN rs \subseteq 1 .. MaxSeq, NEW hw \in Nat
  PROVE  /\ Chain(rs, hw) \in ChainResult
         /\ Chain(rs, hw).bad = 0 <=> Chain(rs, hw) = Valid
         /\ Chain(rs, hw) = Valid <=> Last(rs) >= hw /\ \A s \in 1 .. Last(rs) : Good(rs, s)
<1>0. MaxSeq \in Nat
  BY BoundAssumption
<1>1. Last(rs) \in 0 .. MaxSeq
  BY <1>0, LastShape
<1>2. /\ BadSlots(rs) \in SUBSET (1 .. Last(rs))
      /\ BadSlots(rs) = {} <=> \A s \in 1 .. Last(rs) : Good(rs, s)
  BY <1>0, NoBadSlots
<1>3. CASE BadSlots(rs) # {}
  <2>1. Chain(rs, hw) = [bad |-> Min(BadSlots(rs)), kind |-> KindAt(rs, Min(BadSlots(rs)))]
    BY <1>3 DEF Chain
  <2>2. BadSlots(rs) \in SUBSET Nat
    BY <1>1, <1>2
  <2>3. Min(BadSlots(rs)) \in 1 .. Last(rs)
    BY <1>2, <1>3, <2>2, MinIsLeast
  <2>4. KindAt(rs, Min(BadSlots(rs))) \in {"MissingSeq", "RelinkedPrevHash", "HashMismatch"}
    BY DEF KindAt
  <2> QED BY <1>0, <1>1, <1>2, <1>3, <2>1, <2>3, <2>4 DEF Valid, ChainResult
<1>4. CASE BadSlots(rs) = {} /\ Last(rs) < hw
  <2>1. Chain(rs, hw) = [bad |-> Last(rs) + 1, kind |-> "TruncatedTail"]
    BY <1>4 DEF Chain
  <2> QED BY <1>0, <1>1, <1>4, <2>1 DEF Valid, ChainResult
<1>5. CASE BadSlots(rs) = {} /\ Last(rs) >= hw
  <2>1. Chain(rs, hw) = Valid
    <3>1. ~ (BadSlots(rs) # {}) /\ ~ (BadSlots(rs) = {} /\ Last(rs) < hw)
      BY <1>1, <1>5
    <3> QED BY <3>1 DEF Chain
  <2> QED BY <1>0, <1>2, <1>5, <2>1 DEF Valid, ChainResult
<1> QED BY <1>1, <1>3, <1>4, <1>5

\* The first slot that is not good is reported.
LEMMA ChainReportsFirst ==
  ASSUME NEW rs, DOMAIN rs \subseteq 1 .. MaxSeq, NEW hw \in Nat, NEW s \in 1 .. Last(rs),
         \A u \in 1 .. s - 1 : Good(rs, u), ~ Good(rs, s)
  PROVE  Chain(rs, hw) = [bad |-> s, kind |-> KindAt(rs, s)]
<1>0. MaxSeq \in Nat
  BY BoundAssumption
<1>1. Last(rs) \in Nat /\ s \in Nat
  BY <1>0, LastShape
<1>2. \A u \in 1 .. s - 1 : u \notin BadSlots(rs)
  BY <1>1 DEF BadSlots, Good, Missing
<1>3. s \in BadSlots(rs)
  <2>1. s - 1 \in DOMAIN rs \cup {0}
    <3>1. s = 1 \/ s - 1 \in 1 .. s - 1
      BY <1>1
    <3> QED BY <1>1, <3>1 DEF Good
  <2> QED BY <2>1 DEF BadSlots, Good, Missing
<1>4. BadSlots(rs) \in SUBSET Nat /\ BadSlots(rs) \in SUBSET (1 .. Last(rs))
  BY <1>1 DEF BadSlots
<1>5. Min(BadSlots(rs)) = s
  <2>1. Min(BadSlots(rs)) \in BadSlots(rs) /\ Min(BadSlots(rs)) <= s
    BY <1>3, <1>4, MinIsLeast
  <2>2. Min(BadSlots(rs)) \in 1 .. Last(rs)
    BY <1>4, <2>1
  <2>3. ~ (Min(BadSlots(rs)) \in 1 .. s - 1)
    BY <1>2, <2>1
  <2> QED BY <1>1, <2>1, <2>2, <2>3
<1> QED BY <1>3, <1>5 DEF Chain

LEMMA ConsistencyAnswers ==
  ASSUME NEW chain, NEW r, NEW rs
  PROVE  Consistency(chain, r, rs) \in Verdict
BY DEF Consistency, Verdict

-----------------------------------------------------------------------------
(* What the invariant implies. *)

LEMMA RowsShape ==
  ASSUME LedgerSound
  PROVE  /\ MaxSeq \in Nat /\ high.max \in 0 .. MaxSeq /\ high.max \in Nat /\ high.last \in Hash
         /\ DOMAIN rows \subseteq 1 .. MaxSeq
         /\ \A s \in DOMAIN rows : s \in 1 .. high.max /\ rows[s] \in Row /\ written[s] \in Row
         /\ Last(rows) \in 0 .. high.max
         /\ \A s \in DOMAIN rows : s \in 1 .. Last(rows)
         /\ DOMAIN rows # {} => Last(rows) \in DOMAIN rows
<1>0. MaxSeq \in Nat
  BY BoundAssumption
<1>1. high.max \in 0 .. MaxSeq /\ high.last \in Hash
  BY DEF LedgerSound
<1>2. high.max \in Nat /\ DOMAIN rows \subseteq 1 .. high.max
  BY <1>0, <1>1 DEF LedgerSound
<1>3. \A s \in DOMAIN rows : s \in 1 .. high.max /\ rows[s] \in Row /\ written[s] \in Row
  BY <1>2 DEF LedgerSound
<1>4. /\ Last(rows) \in 0 .. high.max
      /\ \A s \in DOMAIN rows : s \in 1 .. Last(rows)
      /\ DOMAIN rows # {} => Last(rows) \in DOMAIN rows
  BY <1>2, LastShape
<1> QED BY <1>0, <1>1, <1>2, <1>3, <1>4

\* A good row is the one that was written.
LEMMA GoodIsWritten ==
  ASSUME LedgerSound, NEW s \in DOMAIN rows, Good(rows, s)
  PROVE  rows[s] = written[s]
<1>1. s \in 1 .. MaxSeq /\ rows[s] \in Row /\ written[s] \in Row
  BY RowsShape
<1>2. rows[s].hash = written[s].hash
  BY DEF LedgerSound
<1>3. rows[s].hash = EntryHash(s, rows[s].prev, rows[s].payload)
  BY DEF Good, Mismatch
<1>4. written[s].hash = EntryHash(s, written[s].prev, written[s].payload)
  BY RowsShape DEF LedgerSound
<1> QED BY <1>1, <1>2, <1>3, <1>4, SameHashSameRow

LEMMA ValidIsWritten ==
  ASSUME LedgerSound
  PROVE  ValidMeansUntouched
<1> SUFFICES ASSUME Chain(rows, high.max) = Valid
             PROVE  rows = written
  BY DEF ValidMeansUntouched
<1>1. Last(rows) >= high.max /\ \A s \in 1 .. Last(rows) : Good(rows, s)
  BY RowsShape, ChainAnswers
<1>2. \A s \in 1 .. high.max : Good(rows, s) /\ s \in DOMAIN rows
  BY <1>1, RowsShape DEF Good
<1>3. DOMAIN rows = 1 .. high.max
  BY <1>2 DEF LedgerSound
<1>4. \A s \in 1 .. high.max : rows[s] = written[s]
  BY <1>2, GoodIsWritten
<1>5. rows \in [1 .. high.max -> Row] /\ written \in [1 .. high.max -> Row]
  BY <1>3 DEF LedgerSound
<1>6. rows = [s \in 1 .. high.max |-> rows[s]] /\ written = [s \in 1 .. high.max |-> written[s]]
  BY <1>5
<1> QED BY <1>4, <1>6

\* The one change, and where.
LEMMA DamageShape ==
  ASSUME LedgerSound, Len(damage) = 1
  PROVE  damage[1] \in DamageKind \X (1 .. MaxSeq) /\ damage[1][2] \in 1 .. MaxSeq
<1> DEFINE D == DamageKind \X (1 .. MaxSeq)
<1>1. damage[1] \in D
  <2>1. damage \in Seq(D) /\ 1 \in 1 .. Len(damage)
    BY DEF LedgerSound
  <2> HIDE DEF D
  <2> QED BY <2>1, ElementOfSeq
<1> QED BY <1>1

LEMMA StruckIsNamed ==
  ASSUME LedgerSound, StruckOnce
  PROVE  DamageNamed
<1> SUFFICES ASSUME Len(damage) = 1, damage[1][1] \in Partial
             PROVE  Chain(rows, high.max) =
                      [bad |-> damage[1][2],
                       kind |-> CASE damage[1][1] = "edit" -> "HashMismatch"
                                  [] damage[1][1] = "relink" -> "RelinkedPrevHash"
                                  [] damage[1][1] = "lose" ->
                                       IF damage[1][2] > Last(rows) THEN "TruncatedTail"
                                                                    ELSE "MissingSeq"]
  BY DEF DamageNamed
<1>1. PICK what, s : what = damage[1][1] /\ s = damage[1][2]
  OBVIOUS
<1>2. what \in Partial /\ s \in 1 .. MaxSeq /\ FirstBad(what, s)
  BY <1>1, DamageShape DEF StruckOnce
<1>3. MaxSeq \in Nat /\ s \in Nat /\ high.max \in Nat /\ Last(rows) \in Nat /\ s <= high.max
  BY <1>2, RowsShape DEF FirstBad
<1>4. \A u \in 1 .. s - 1 : Good(rows, u)
  BY <1>2 DEF FirstBad
<1>5. CASE what = "edit"
  <2>1. s \in DOMAIN rows /\ ~ Relinked(rows, s) /\ Mismatch(rows, s)
    BY <1>2, <1>5 DEF FirstBad
  <2>2. Chain(rows, high.max) = [bad |-> s, kind |-> KindAt(rows, s)]
    BY <1>3, <1>4, <2>1, RowsShape, ChainReportsFirst DEF Good
  <2>3. KindAt(rows, s) = "HashMismatch"
    BY <2>1 DEF KindAt, Missing
  <2> QED BY <1>1, <1>5, <2>2, <2>3
<1>6. CASE what = "relink"
  <2>1. s \in DOMAIN rows /\ Relinked(rows, s)
    BY <1>2, <1>6 DEF FirstBad, Relinked
  <2>2. Chain(rows, high.max) = [bad |-> s, kind |-> KindAt(rows, s)]
    BY <1>3, <1>4, <2>1, RowsShape, ChainReportsFirst DEF Good
  <2>3. KindAt(rows, s) = "RelinkedPrevHash"
    BY <2>1 DEF KindAt, Missing
  <2> QED BY <1>1, <1>6, <2>2, <2>3
<1>7. CASE what = "lose"
  <2>1. s \notin DOMAIN rows
    BY <1>2, <1>7 DEF FirstBad
  <2>2. CASE s > Last(rows)
    <3>1. Last(rows) = s - 1
      <4>1. s - 1 = 0 \/ s - 1 \in DOMAIN rows
        BY <1>2, <1>3, <1>4 DEF Good
      <4> QED BY <1>2, <1>3, <2>2, <4>1, RowsShape
    <3>2. BadSlots(rows) = {}
      BY <1>3, <1>4, <3>1, RowsShape, NoBadSlots
    <3>3. Chain(rows, high.max) = [bad |-> s, kind |-> "TruncatedTail"]
      BY <1>3, <3>1, <3>2 DEF Chain
    <3> QED BY <1>1, <1>7, <2>2, <3>3
  <2>3. CASE ~ (s > Last(rows))
    <3>1. s \in 1 .. Last(rows)
      BY <1>2, <1>3, <2>3
    <3>2. Chain(rows, high.max) = [bad |-> s, kind |-> KindAt(rows, s)]
      BY <1>3, <1>4, <2>1, <3>1, RowsShape, ChainReportsFirst DEF Good
    <3>3. KindAt(rows, s) = "MissingSeq"
      BY <2>1 DEF KindAt, Missing, Relinked
    <3> QED BY <1>1, <1>7, <2>3, <3>2, <3>3
  <2> QED BY <2>2, <2>3
<1> QED BY <1>2, <1>5, <1>6, <1>7 DEF Partial

LEMMA NamedIsLocated ==
  ASSUME LedgerSound, RemoteSound, DamageNamed
  PROVE  DamageLocated
<1> SUFFICES ASSUME Len(damage) = 1, damage[1][1] \in Partial, NEW c \in DOMAIN receipts
             PROVE  Consistency(Chain(rows, high.max), receipts[c], rows) =
                      IF damage[1][2] <= receipts[c].head THEN "AttestedPrefixCorrupted"
                                                          ELSE "DivergedAfterAnchor"
  BY DEF DamageLocated
<1>2. MaxSeq \in Nat /\ damage[1][2] \in 1 .. MaxSeq
  BY DamageShape, RowsShape
<1>3. receipts[c].head \in 0 .. MaxSeq
  BY DEF RemoteSound, ReceiptRow
<1>4. Chain(rows, high.max).bad = damage[1][2]
  BY DEF DamageNamed
<1>5. CASE damage[1][2] <= receipts[c].head
  BY <1>2, <1>3, <1>4, <1>5 DEF Consistency
<1>6. CASE ~ (damage[1][2] <= receipts[c].head)
  BY <1>2, <1>3, <1>4, <1>6 DEF Consistency
<1> QED BY <1>5, <1>6

LEMMA ConsistentIsIntact ==
  ASSUME LedgerSound, RemoteSound
  PROVE  AnchoredPrefixIntact
<1> SUFFICES ASSUME NEW c \in DOMAIN receipts,
                    Consistency(Chain(rows, high.max), receipts[c], rows) = "Consistent"
             PROVE  \A s \in 1 .. receipts[c].head : receipts[c].hash[s] = <<s, rows[s].payload>>
  BY DEF AnchoredPrefixIntact
<1>1. receipts[c].head \in 0 .. MaxSeq /\ MaxSeq \in Nat
  BY RowsShape DEF RemoteSound, ReceiptRow
<1>2. PICK ch \in ChainResult : ch = Chain(rows, high.max)
  BY RowsShape, ChainAnswers
<1>3. ch.bad \in Nat
  BY <1>1, <1>2 DEF ChainResult
<1>4. /\ ch.bad = 0
      /\ receipts[c].head \in DOMAIN rows
      /\ rows[receipts[c].head].hash = receipts[c].hash
  <2>1. Consistency(ch, receipts[c], rows) = "Consistent"
    BY <1>2
  <2>2. ch.bad = 0
    BY <1>1, <1>3, <2>1 DEF Consistency
  <2> QED BY <1>1, <2>1, <2>2 DEF Consistency
<1>5. \A s \in 1 .. Last(rows) : Good(rows, s)
  BY <1>2, <1>4, RowsShape, ChainAnswers
<1>6. \A s \in 1 .. Last(rows) : Good(rows, s) /\ rows[s] \in Row
  BY <1>5, RowsShape DEF Good
<1>7. receipts[c].head \in 1 .. Last(rows) /\ Last(rows) \in 0 .. MaxSeq
  BY <1>1, <1>4, RowsShape
<1>8. \A s \in 1 .. receipts[c].head : rows[receipts[c].head].hash[s] = <<s, rows[s].payload>>
  BY <1>6, <1>7, ChainHash
<1> QED BY <1>4, <1>8

LEMMA SoundIsTyped ==
  ASSUME LedgerSound, TaskSound, RemoteSound
  PROVE  TypeOK
<1>1. /\ DOMAIN rows \subseteq 1 .. MaxSeq
      /\ \A s \in DOMAIN rows : rows[s] \in [prev : Hash, payload : Payload, hash : Hash]
      /\ high \in [max : 0 .. MaxSeq, last : Hash]
  BY RowsShape DEF LedgerSound, Row
<1>2. /\ DOMAIN receipts \subseteq Nat
      /\ \A c \in DOMAIN receipts : receipts[c] \in [device : Device, head : 0 .. MaxSeq, hash : Hash]
      /\ enrolled \in Device
      /\ net \subseteq [cycle : 1 .. MaxCycle, device : Device, cseq : Nat, head : LedgerHead]
      /\ cloud \in [Device -> Seq(LedgerHead)]
  BY DEF RemoteSound, ReceiptRow, Request
<1>3. /\ task.pc \in {"idle", "high", "rows", "receipts", "anchors", "seq", "posted", "answered"}
      /\ task.then \in {"started", "report", "submit"}
      /\ task.cycle \in 0 .. MaxCycle
      /\ task.tail \in LedgerHead
      /\ task.hw \in 0 .. MaxSeq
      /\ task.chain \in ChainResult
      /\ task.todo \subseteq DOMAIN receipts
      /\ task.verdict \in Verdict
      /\ task.reply \in Reply
  BY DEF TaskSound, TaskState
<1> QED BY <1>1, <1>2, <1>3 DEF TypeOK

-----------------------------------------------------------------------------
(* Rows that stay the same. *)

LEMMA GoodSame ==
  ASSUME NEW rs, NEW qs, NEW s \in Nat, s \in DOMAIN rs, s \in DOMAIN qs, qs[s] = rs[s],
         s # 1 => qs[s - 1].hash = rs[s - 1].hash
  PROVE  /\ Good(qs, s) <=> Good(rs, s)
         /\ Relinked(qs, s) <=> Relinked(rs, s)
         /\ Mismatch(qs, s) <=> Mismatch(rs, s)
<1>1. ExpectedPrev(qs, s) = ExpectedPrev(rs, s)
  BY DEF ExpectedPrev
<1>2. Relinked(qs, s) <=> Relinked(rs, s)
  BY <1>1 DEF Relinked
<1>3. Mismatch(qs, s) <=> Mismatch(rs, s)
  BY DEF Mismatch
<1> QED BY <1>2, <1>3 DEF Good

\* Rows that agree up to n are good up to n alike.
LEMMA GoodPrefix ==
  ASSUME NEW n \in Nat, NEW rs, NEW qs, \A s \in 1 .. n : Good(rs, s),
         \A s \in 1 .. n : s \in DOMAIN qs /\ qs[s] = rs[s]
  PROVE  \A s \in 1 .. n : Good(qs, s)
<1> TAKE s \in 1 .. n
<1>1. s \in Nat /\ s \in DOMAIN rs /\ s \in DOMAIN qs /\ qs[s] = rs[s] /\ Good(rs, s)
  BY DEF Good
<1>2. s # 1 => qs[s - 1].hash = rs[s - 1].hash
  <2>1. s # 1 => s - 1 \in 1 .. n
    OBVIOUS
  <2> QED BY <2>1
<1> QED BY <1>1, <1>2, GoodSame

-----------------------------------------------------------------------------
(* The steps that change the ledger leave the rest alone. *)

restVars == <<receipts, enrolled, task, net, cloud>>

LEMMA RestKept ==
  ASSUME TaskSound, RemoteSound, UNCHANGED restVars
  PROVE  TaskSound' /\ RemoteSound'
<1>1. TaskSound'
  BY DEF restVars, TaskSound, Witnessed
<1>2. RemoteSound'
  BY DEF restVars, RemoteSound, ReceiptsWitnessed
<1> QED BY <1>1, <1>2

LEMMA AppendGrows ==
  ASSUME LedgerSound, NEW p \in Payload, AppendEvent(p)
  PROVE  /\ UNCHANGED restVars /\ damage' = damage
         /\ high'.max = high.max + 1 /\ high'.max \in 1 .. MaxSeq
         /\ high.max + 1 \in DOMAIN rows'
         /\ DOMAIN rows' = DOMAIN rows \cup {high.max + 1}
         /\ \A s \in DOMAIN rows : rows'[s] = rows[s] /\ s # high.max + 1
         /\ rows'[high.max + 1] = Entry(high.max + 1, high.last, p)
         /\ high'.last = rows'[high.max + 1].hash
         /\ LedgerSound'
<1> DEFINE seq == high.max + 1
           row == Entry(seq, high.last, p)
<1>0. PICK n \in Nat, l \in Hash : n = high.max /\ l = high.last
  BY RowsShape
<1>1. /\ seq \in 1 .. MaxSeq /\ seq \notin 1 .. high.max
      /\ rows' = With(rows, seq, row)
      /\ high' = [max |-> seq, last |-> row.hash]
      /\ damage' = damage /\ UNCHANGED restVars
  BY RowsShape DEF AppendEvent, restVars
<1>2. row \in Row /\ row.hash \in Hash /\ row.hash = EntryHash(seq, row.prev, row.payload)
  BY <1>1, RowsShape, EntryShape
<1>3. written' = With(written, seq, row)
  BY <1>1 DEF AppendEvent, FirstWritten, LedgerSound
<1>4. /\ rows' \in [DOMAIN rows \cup {seq} -> Row]
      /\ DOMAIN rows' = DOMAIN rows \cup {seq}
      /\ rows'[seq] = row
      /\ \A s \in DOMAIN rows \ {seq} : rows'[s] = rows[s]
  <2>1. rows \in [DOMAIN rows -> Row]
    BY DEF LedgerSound
  <2> HIDE DEF seq, row
  <2> QED BY <1>1, <1>2, <2>1 DEF With
<1>5. /\ written' \in [(1 .. n) \cup {seq} -> Row]
      /\ written'[seq] = row
      /\ \A s \in 1 .. n : written'[s] = written[s]
  <2>1. written \in [1 .. n -> Row] /\ seq \notin 1 .. n
    BY <1>0, <1>1 DEF LedgerSound
  <2> HIDE DEF seq, row
  <2> QED BY <1>2, <1>3, <2>1 DEF With
<1>6. \A s \in DOMAIN rows : rows'[s] = rows[s] /\ s # seq
  BY <1>1, <1>4, RowsShape
<1>7. LedgerSound'
  <2>1. high' \in [max : 0 .. MaxSeq, last : Hash] /\ high'.max = seq
    BY <1>1, <1>2, RowsShape
  <2>2. (1 .. n) \cup {seq} = 1 .. high'.max
    BY <1>0, <2>1
  <2>3. rows' \in [DOMAIN rows' -> Row] /\ DOMAIN rows' \subseteq 1 .. high'.max
    BY <1>0, <1>4, <2>2, RowsShape
  <2>4. written' \in [1 .. high'.max -> Row]
    BY <1>5, <2>2
  <2>5. ASSUME NEW s \in DOMAIN rows' PROVE rows'[s].hash = written'[s].hash
    <3>1. CASE s = seq
      BY <1>4, <1>5, <3>1
    <3>2. CASE s # seq
      <4>1. s \in DOMAIN rows /\ s \in 1 .. n
        BY <1>0, <1>4, <3>2, RowsShape
      <4>2. rows[s].hash = written[s].hash
        BY <4>1 DEF LedgerSound
      <4> QED BY <1>5, <1>6, <4>1, <4>2
    <3> QED BY <3>1, <3>2
  <2>6. ASSUME NEW s \in 1 .. high'.max
        PROVE  written'[s].hash = EntryHash(s, written'[s].prev, written'[s].payload)
    <3>1. CASE s = seq
      BY <1>2, <1>5, <3>1
    <3>2. CASE s # seq
      <4>1. s \in 1 .. n
        BY <2>2, <3>2
      <4>2. written[s].hash = EntryHash(s, written[s].prev, written[s].payload)
        BY <1>0, <4>1 DEF LedgerSound
      <4> QED BY <1>5, <4>1, <4>2
    <3> QED BY <3>1, <3>2
  <2>7. damage' \in Seq(DamageKind \X (1 .. MaxSeq))
    BY <1>1 DEF LedgerSound
  <2> QED BY <2>1, <2>3, <2>4, <2>5, <2>6, <2>7 DEF LedgerSound
<1> QED BY <1>1, <1>4, <1>6, <1>7, <1>2

LEMMA AppendStep ==
  ASSUME IInv, NEW p \in Payload, AppendEvent(p)
  PROVE  IInv'
<1>0. LedgerSound /\ TaskSound /\ RemoteSound
  BY DEF IInv
<1>1. /\ UNCHANGED restVars /\ damage' = damage
      /\ high'.max = high.max + 1
      /\ high.max + 1 \in DOMAIN rows'
      /\ DOMAIN rows' = DOMAIN rows \cup {high.max + 1}
      /\ \A s \in DOMAIN rows : rows'[s] = rows[s] /\ s # high.max + 1
      /\ rows'[high.max + 1] = Entry(high.max + 1, high.last, p)
      /\ high'.last = rows'[high.max + 1].hash
      /\ LedgerSound'
  BY <1>0, AppendGrows
<1>2. TaskSound' /\ RemoteSound'
  BY <1>0, <1>1, RestKept
<1>3. PICK n \in Nat : n = high.max /\ n + 1 \in 1 .. MaxSeq
  BY <1>0, AppendGrows, RowsShape
<1>4. Pristine'
  <2> SUFFICES ASSUME damage = <<>>
               PROVE  /\ \A s \in 1 .. n + 1 : Good(rows', s)
                      /\ high'.last = ExpectedPrev(rows', high'.max + 1)
                      /\ task'.hw <= high'.max
                      /\ task'.chain = Valid
                      /\ task'.verdict = "Consistent"
                      /\ task'.then # "started" => Anchored(task.tail)'
                      /\ \A c \in DOMAIN receipts' :
                           Anchored([head |-> receipts[c].head, hash |-> receipts[c].hash])'
    BY <1>1, <1>3 DEF Pristine, restVars
  <2>1. /\ \A s \in 1 .. n : Good(rows, s)
        /\ high.last = ExpectedPrev(rows, n + 1)
        /\ task.hw <= n
        /\ task.chain = Valid
        /\ task.verdict = "Consistent"
        /\ task.then # "started" => Anchored(task.tail)
        /\ \A c \in DOMAIN receipts :
             Anchored([head |-> receipts[c].head, hash |-> receipts[c].hash])
    BY <1>3 DEF IInv, Pristine
  <2>2. \A s \in 1 .. n : s \in DOMAIN rows /\ s \in DOMAIN rows' /\ rows'[s] = rows[s]
    BY <1>1, <2>1 DEF Good
  <2>3. \A s \in 1 .. n : Good(rows', s)
    BY <2>1, <2>2, GoodPrefix
  <2>4. Good(rows', n + 1)
    <3>1. ExpectedPrev(rows', n + 1) = ExpectedPrev(rows, n + 1)
      <4>1. n # 0 => rows'[n] = rows[n]
        BY <2>2
      <4> QED BY <4>1 DEF ExpectedPrev
    <3>2. /\ rows'[n + 1].prev = high.last
          /\ rows'[n + 1].hash = EntryHash(n + 1, rows'[n + 1].prev, rows'[n + 1].payload)
      BY <1>0, <1>1, <1>3, RowsShape, EntryShape
    <3> QED BY <1>1, <1>3, <2>1, <3>1, <3>2 DEF Good, Relinked, Mismatch
  <2>5. \A s \in 1 .. n + 1 : Good(rows', s)
    <3>1. \A s \in 1 .. n + 1 : s \in 1 .. n \/ s = n + 1
      OBVIOUS
    <3> QED BY <2>3, <2>4, <3>1
  <2>6. high'.last = ExpectedPrev(rows', high'.max + 1)
    BY <1>1, <1>3 DEF ExpectedPrev
  <2>7. \A h : Anchored(h) => Anchored(h)'
    BY <1>1 DEF Anchored
  <2>8. task' = task /\ receipts' = receipts
    BY <1>1 DEF restVars
  <2>9. task.hw <= n + 1
    BY <1>0, <2>1 DEF TaskSound, TaskState
  <2> QED BY <1>1, <1>3, <2>1, <2>5, <2>6, <2>7, <2>8, <2>9
<1>5. StruckOnce'
  <2> SUFFICES ASSUME Len(damage) = 1, damage[1][1] \in Partial
               PROVE  FirstBad(damage[1][1], damage[1][2])'
    BY <1>1 DEF StruckOnce
  <2>1. PICK what, s : what = damage[1][1] /\ s = damage[1][2]
    OBVIOUS
  <2>2. FirstBad(what, s) /\ s \in Nat
    BY <1>0, <2>1, DamageShape, RowsShape DEF IInv, StruckOnce
  <2>3. s <= n /\ s - 1 \in Int
    BY <1>3, <2>2 DEF FirstBad
  <2>4. \A u \in 1 .. s - 1 : Good(rows', u)
    <3>1. CASE s = 0
      BY <3>1
    <3>2. CASE s # 0
      <4>1. s - 1 \in Nat /\ \A u \in 1 .. s - 1 : Good(rows, u)
        BY <2>2, <3>2 DEF FirstBad
      <4>2. \A u \in 1 .. s - 1 : u \in DOMAIN rows' /\ rows'[u] = rows[u]
        BY <1>1, <4>1 DEF Good
      <4> QED BY <4>1, <4>2, GoodPrefix
    <3> QED BY <3>1, <3>2
  <2>5. what = "lose" => s \notin DOMAIN rows'
    BY <1>1, <1>3, <2>2, <2>3 DEF FirstBad
  <2>6. ASSUME s \in DOMAIN rows, \A u \in 1 .. s - 1 : u \in DOMAIN rows
        PROVE  (Relinked(rows', s) <=> Relinked(rows, s)) /\ (Mismatch(rows', s) <=> Mismatch(rows, s))
    <3>1. s # 1 => s - 1 \in DOMAIN rows
      <4>1. s \in 1 .. high.max
        BY <1>0, <2>6, RowsShape
      <4>2. s # 1 => s - 1 \in 1 .. s - 1
        BY <2>2, <4>1
      <4> QED BY <2>6, <4>2
    <3>2. s # 1 => rows'[s - 1].hash = rows[s - 1].hash
      BY <1>1, <3>1
    <3>3. s \in DOMAIN rows' /\ rows'[s] = rows[s]
      BY <1>1, <2>6
    <3> QED BY <2>2, <2>6, <3>2, <3>3, GoodSame
  <2>7. \A u \in 1 .. s - 1 : u \in DOMAIN rows
    BY <2>2 DEF FirstBad, Good
  <2>8. what = "edit" => s \in DOMAIN rows' /\ ~ Relinked(rows', s) /\ Mismatch(rows', s)
    BY <1>1, <2>2, <2>6, <2>7 DEF FirstBad
  <2>9. what = "relink" => Relinked(rows', s)
    <3>1. what = "relink" => s \in DOMAIN rows /\ Relinked(rows, s)
      BY <2>2 DEF FirstBad, Relinked
    <3> QED BY <2>6, <2>7, <3>1
  <2>10. FirstBad(what, s)'
    BY <1>1, <1>3, <2>3, <2>2, <2>4, <2>5, <2>8, <2>9 DEF FirstBad
  <2> QED BY <1>1, <2>1, <2>10
<1> QED BY <1>1, <1>2, <1>4, <1>5 DEF IInv

\* A change by other means ends what holds as long as there is none.
LEMMA DamagedShape ==
  ASSUME LedgerSound, NEW what \in DamageKind, NEW s \in 1 .. MaxSeq, Damaged(what, s)
  PROVE  /\ UNCHANGED restVars
         /\ damage' \in Seq(DamageKind \X (1 .. MaxSeq))
         /\ Pristine'
         /\ Len(damage') = 1 => damage = <<>> /\ damage'[1] = <<what, s>>
<1> DEFINE D == DamageKind \X (1 .. MaxSeq)
<1>1. damage \in Seq(D) /\ <<what, s>> \in D /\ damage' = Append(damage, <<what, s>>)
  BY DEF LedgerSound, Damaged
<1>2. UNCHANGED restVars
  BY DEF Damaged, restVars
<1>3. /\ damage' \in Seq(D) /\ damage' # <<>> /\ Len(damage') = Len(damage) + 1
      /\ damage'[Len(damage) + 1] = <<what, s>>
  <2> HIDE DEF D
  <2> QED BY <1>1, AppendProperties
<1>4. Len(damage) = 0 => damage = <<>>
  <2> HIDE DEF D
  <2> QED BY <1>1, EmptySeq
<1>5. Len(damage) \in Nat
  <2> HIDE DEF D
  <2> QED BY <1>1, LenProperties
<1>6. Pristine'
  BY <1>3 DEF Pristine
<1> QED BY <1>2, <1>3, <1>4, <1>5, <1>6

\* What a change has to establish about the ledger.
LEMMA DamageStep ==
  ASSUME IInv, NEW what \in DamageKind, NEW s \in DOMAIN rows, Damaged(what, s),
         damage' \in Seq(DamageKind \X (1 .. MaxSeq)) => LedgerSound',
         what \in Partial /\ (\A u \in 1 .. high.max : Good(rows, u)) => FirstBad(what, s)'
  PROVE  IInv'
<1>0. LedgerSound /\ TaskSound /\ RemoteSound /\ s \in 1 .. MaxSeq
  BY RowsShape DEF IInv
<1>1. /\ UNCHANGED restVars
      /\ damage' \in Seq(DamageKind \X (1 .. MaxSeq))
      /\ Pristine'
      /\ Len(damage') = 1 => damage = <<>> /\ damage'[1] = <<what, s>>
  BY <1>0, DamagedShape
<1>2. TaskSound' /\ RemoteSound'
  BY <1>0, <1>1, RestKept
<1>3. StruckOnce'
  <2> SUFFICES ASSUME Len(damage') = 1, damage'[1][1] \in Partial
               PROVE  FirstBad(damage[1][1], damage[1][2])'
    BY DEF StruckOnce
  <2>1. damage = <<>> /\ damage'[1][1] = what /\ damage'[1][2] = s
    BY <1>1
  <2>2. \A u \in 1 .. high.max : Good(rows, u)
    BY <2>1 DEF IInv, Pristine
  <2>3. FirstBad(what, s)'
    BY <2>1, <2>2
  <2> QED BY <2>1, <2>3
<1> QED BY <1>1, <1>2, <1>3 DEF IInv

\* Rows that are lost or changed without their hashes are still sound.
LEMMA HashesKept ==
  ASSUME LedgerSound, UNCHANGED <<high, written>>,
         DOMAIN rows' \subseteq DOMAIN rows, rows' \in [DOMAIN rows' -> Row],
         \A s \in DOMAIN rows' : rows'[s].hash = rows[s].hash,
         damage' \in Seq(DamageKind \X (1 .. MaxSeq))
  PROVE  LedgerSound'
<1>1. /\ high' \in [max : 0 .. MaxSeq, last : Hash]
      /\ DOMAIN rows' \subseteq 1 .. high'.max
      /\ written' \in [1 .. high'.max -> Row]
  BY DEF LedgerSound
<1>2. \A s \in DOMAIN rows' : rows'[s].hash = written'[s].hash
  BY DEF LedgerSound
<1>3. \A s \in 1 .. high'.max :
        written'[s].hash = EntryHash(s, written'[s].prev, written'[s].payload)
  BY DEF LedgerSound
<1> QED BY <1>1, <1>2, <1>3 DEF LedgerSound

LEMMA LoseStep ==
  ASSUME IInv, NEW s \in DOMAIN rows, LoseRow(s)
  PROVE  IInv'
<1>0. LedgerSound /\ s \in 1 .. high.max /\ high.max \in Nat
  BY RowsShape DEF IInv
<1>1. Damaged("lose", s) /\ rows' = Without(rows, {s}) /\ UNCHANGED <<high, written>>
  BY DEF LoseRow
<1>2. /\ DOMAIN rows' = DOMAIN rows \ {s} /\ rows' \in [DOMAIN rows' -> Row]
      /\ \A u \in DOMAIN rows' : rows'[u] = rows[u]
  BY <1>0, <1>1 DEF LedgerSound, Without
<1>3. damage' \in Seq(DamageKind \X (1 .. MaxSeq)) => LedgerSound'
  BY <1>0, <1>1, <1>2, HashesKept
<1>4. ASSUME \A u \in 1 .. high.max : Good(rows, u) PROVE FirstBad("lose", s)'
  <2>1. \A u \in 1 .. s - 1 : Good(rows, u) /\ u \in DOMAIN rows' /\ rows'[u] = rows[u]
    BY <1>0, <1>2, <1>4 DEF Good
  <2>2. \A u \in 1 .. s - 1 : Good(rows', u)
    <3>1. s - 1 \in Nat
      BY <1>0
    <3> QED BY <2>1, <3>1, GoodPrefix
  <2>3. s <= high'.max /\ s \notin DOMAIN rows'
    BY <1>0, <1>1, <1>2
  <2> QED BY <2>2, <2>3 DEF FirstBad
<1>5. "lose" \in DamageKind
  BY DEF DamageKind
<1> QED BY <1>1, <1>3, <1>4, <1>5, DamageStep

LEMMA EditStep ==
  ASSUME IInv, NEW s \in DOMAIN rows, NEW p \in Payload, EditPayload(s, p)
  PROVE  IInv'
<1>0. LedgerSound /\ s \in 1 .. high.max /\ high.max \in Nat /\ rows[s] \in Row /\ s \in 1 .. MaxSeq
  BY RowsShape DEF IInv
<1>1. /\ p # rows[s].payload /\ Damaged("edit", s) /\ UNCHANGED <<high, written>>
      /\ rows' = [rows EXCEPT ![s].payload = p]
  BY DEF EditPayload
<1>2. /\ DOMAIN rows' = DOMAIN rows
      /\ rows'[s] = [rows[s] EXCEPT !.payload = p]
      /\ \A u \in DOMAIN rows : u # s => rows'[u] = rows[u]
  BY <1>1 DEF LedgerSound
<1>3. /\ rows'[s] \in Row /\ rows'[s].hash = rows[s].hash
      /\ rows'[s].prev = rows[s].prev /\ rows'[s].payload = p
  BY <1>0, <1>2 DEF Row
<1>4. rows' \in [DOMAIN rows' -> Row]
  <2>1. [rows[s] EXCEPT !.payload = p] \in Row
    BY <1>2, <1>3
  <2>2. rows \in [DOMAIN rows -> Row]
    BY <1>0 DEF LedgerSound
  <2> QED BY <1>1, <1>2, <2>1, <2>2
<1>5. \A u \in DOMAIN rows' : rows'[u].hash = rows[u].hash
  BY <1>2, <1>3
<1>6. damage' \in Seq(DamageKind \X (1 .. MaxSeq)) => LedgerSound'
  BY <1>0, <1>1, <1>2, <1>4, <1>5, HashesKept
<1>7. ASSUME \A u \in 1 .. high.max : Good(rows, u) PROVE FirstBad("edit", s)'
  <2>1. \A u \in 1 .. s - 1 : Good(rows, u) /\ u \in DOMAIN rows' /\ rows'[u] = rows[u]
    BY <1>0, <1>2, <1>7 DEF Good
  <2>2. \A u \in 1 .. s - 1 : Good(rows', u)
    <3>1. s - 1 \in Nat
      BY <1>0
    <3> QED BY <2>1, <3>1, GoodPrefix
  <2>3. ~ Relinked(rows', s)
    <3>1. ExpectedPrev(rows', s) = ExpectedPrev(rows, s)
      <4>1. s # 1 => s - 1 \in 1 .. s - 1
        BY <1>0
      <4>2. s # 1 => rows'[s - 1] = rows[s - 1]
        BY <2>1, <4>1
      <4> QED BY <4>2 DEF ExpectedPrev
    <3> QED BY <1>0, <1>2, <1>3, <1>7, <3>1 DEF Good, Relinked
  <2>4. Mismatch(rows', s)
    <3>1. rows[s].hash = EntryHash(s, rows[s].prev, rows[s].payload)
      BY <1>0, <1>7 DEF Good, Mismatch
    <3>2. rows[s].prev \in Hash /\ rows[s].payload \in Content /\ p \in Content
      BY <1>0, RowShape DEF Content
    <3>3. EntryHash(s, rows[s].prev, rows[s].payload) # EntryHash(s, rows[s].prev, p)
      BY <1>0, <1>1, <3>2, HashInjective
    <3> QED BY <1>2, <1>3, <3>1, <3>3 DEF Mismatch
  <2>5. s <= high'.max /\ s \in DOMAIN rows'
    BY <1>0, <1>1, <1>2
  <2> QED BY <2>2, <2>3, <2>4, <2>5 DEF FirstBad
<1>8. "edit" \in DamageKind
  BY DEF DamageKind
<1> QED BY <1>1, <1>6, <1>7, <1>8, DamageStep

LEMMA RelinkStep ==
  ASSUME IInv, NEW s \in DOMAIN rows, NEW t \in DOMAIN rows, Relink(s, t)
  PROVE  IInv'
<1>0. /\ LedgerSound /\ s \in 1 .. high.max /\ high.max \in Nat /\ s \in 1 .. MaxSeq
      /\ rows[s] \in Row /\ rows[t] \in Row /\ rows[t].hash \in Hash
  BY RowsShape, RowShape DEF IInv
<1>1. /\ rows[t].hash # rows[s].prev /\ Damaged("relink", s) /\ UNCHANGED <<high, written>>
      /\ rows' = [rows EXCEPT ![s].prev = rows[t].hash]
  BY DEF Relink
<1>2. /\ DOMAIN rows' = DOMAIN rows
      /\ rows'[s] = [rows[s] EXCEPT !.prev = rows[t].hash]
      /\ \A u \in DOMAIN rows : u # s => rows'[u] = rows[u]
  BY <1>1 DEF LedgerSound
<1>3. rows'[s] \in Row /\ rows'[s].hash = rows[s].hash /\ rows'[s].prev = rows[t].hash
  BY <1>0, <1>2 DEF Row
<1>4. rows' \in [DOMAIN rows' -> Row]
  <2>1. [rows[s] EXCEPT !.prev = rows[t].hash] \in Row
    BY <1>2, <1>3
  <2>2. rows \in [DOMAIN rows -> Row]
    BY <1>0 DEF LedgerSound
  <2> QED BY <1>1, <1>2, <2>1, <2>2
<1>5. \A u \in DOMAIN rows' : rows'[u].hash = rows[u].hash
  BY <1>2, <1>3
<1>6. damage' \in Seq(DamageKind \X (1 .. MaxSeq)) => LedgerSound'
  BY <1>0, <1>1, <1>2, <1>4, <1>5, HashesKept
<1>7. ASSUME \A u \in 1 .. high.max : Good(rows, u) PROVE FirstBad("relink", s)'
  <2>1. \A u \in 1 .. s - 1 : Good(rows, u) /\ u \in DOMAIN rows' /\ rows'[u] = rows[u]
    BY <1>0, <1>2, <1>7 DEF Good
  <2>2. \A u \in 1 .. s - 1 : Good(rows', u)
    <3>1. s - 1 \in Nat
      BY <1>0
    <3> QED BY <2>1, <3>1, GoodPrefix
  <2>3. Relinked(rows', s)
    <3>1. ExpectedPrev(rows', s) = ExpectedPrev(rows, s)
      <4>1. s # 1 => s - 1 \in 1 .. s - 1
        BY <1>0
      <4>2. s # 1 => rows'[s - 1] = rows[s - 1]
        BY <2>1, <4>1
      <4> QED BY <4>2 DEF ExpectedPrev
    <3>2. rows[s].prev = ExpectedPrev(rows, s)
      BY <1>0, <1>7 DEF Good, Relinked
    <3> QED BY <1>1, <1>2, <1>3, <3>1, <3>2 DEF Relinked
  <2>4. s <= high'.max
    BY <1>0, <1>1
  <2> QED BY <2>2, <2>3, <2>4 DEF FirstBad
<1>8. "relink" \in DamageKind
  BY DEF DamageKind
<1> QED BY <1>1, <1>6, <1>7, <1>8, DamageStep

\* The hash h at t commits to one row more than g.
Extends(g, h, t) == Len(g) = t - 1 /\ Len(h) = t /\ \A i \in 1 .. t - 1 : h[i] = g[i]

\* The hash of the row at t, once the hash at s is new.
Rehash(new, h, s, t) == new \o SubSeq(h, s + 1, t)

\* The hashes of a rewritten tail are those of the rows they belong to.
LEMMA RewrittenHash ==
  ASSUME NEW s \in 1 .. MaxSeq, NEW t \in 1 .. MaxSeq, s < t,
         NEW new \in Hash, Len(new) = s, NEW g \in Hash, NEW h \in Hash, Extends(g, h, t)
  PROVE  /\ Rehash(new, g, s, t - 1) \in Hash
         /\ Rehash(new, h, s, t) \in Hash
         /\ Rehash(new, h, s, t) = Append(Rehash(new, g, s, t - 1), h[t])
         /\ t = s + 1 => Rehash(new, g, s, t - 1) = new
<1>0. s \in Nat /\ t \in Nat /\ MaxSeq \in Nat
  BY BoundAssumption
<1>9. Len(g) = t - 1 /\ Len(h) = t /\ \A i \in 1 .. t - 1 : h[i] = g[i]
  BY DEF Extends
<1> DEFINE E == (1 .. MaxSeq) \X Content
           a == new \o SubSeq(g, s + 1, t - 1)
           b == new \o SubSeq(h, s + 1, t)
<1>1. new \in Seq(E) /\ g \in Seq(E) /\ h \in Seq(E)
  BY DEF Hash
<1> HIDE DEF E
<1>2. /\ \A i \in s + 1 .. t - 1 : g[i] \in E
      /\ \A i \in s + 1 .. t : h[i] \in E
      /\ h[t] \in E
  BY <1>0, <1>1, <1>9, ElementOfSeq
<1>3. /\ SubSeq(g, s + 1, t - 1) \in Seq(E)
      /\ Len(SubSeq(g, s + 1, t - 1)) = t - 1 - s
      /\ \A i \in 1 .. t - 1 - s : SubSeq(g, s + 1, t - 1)[i] = g[s + i]
  <2>1. s + 1 \in Int /\ t - 1 \in Int
    BY <1>0
  <2>2. /\ SubSeq(g, s + 1, t - 1) \in Seq(E)
        /\ Len(SubSeq(g, s + 1, t - 1)) =
             IF s + 1 <= t - 1 THEN (t - 1) - (s + 1) + 1 ELSE 0
        /\ \A i \in 1 .. (t - 1) - (s + 1) + 1 : SubSeq(g, s + 1, t - 1)[i] = g[(s + 1) + i - 1]
    BY <1>2, <2>1, SubSeqProperties
  <2>3. /\ (t - 1) - (s + 1) + 1 = t - 1 - s
        /\ s + 1 <= t - 1 \/ t - 1 - s = 0
        /\ \A i \in 1 .. t - 1 - s : (s + 1) + i - 1 = s + i
    BY <1>0
  <2> QED BY <2>2, <2>3
<1>4. /\ SubSeq(h, s + 1, t) \in Seq(E)
      /\ Len(SubSeq(h, s + 1, t)) = t - s
      /\ \A i \in 1 .. t - s : SubSeq(h, s + 1, t)[i] = h[s + i]
  <2>1. s + 1 \in Int /\ t \in Int
    BY <1>0
  <2>2. /\ SubSeq(h, s + 1, t) \in Seq(E)
        /\ Len(SubSeq(h, s + 1, t)) = IF s + 1 <= t THEN t - (s + 1) + 1 ELSE 0
        /\ \A i \in 1 .. t - (s + 1) + 1 : SubSeq(h, s + 1, t)[i] = h[(s + 1) + i - 1]
    BY <1>2, <2>1, SubSeqProperties
  <2>3. /\ t - (s + 1) + 1 = t - s
        /\ s + 1 <= t
        /\ \A i \in 1 .. t - s : (s + 1) + i - 1 = s + i
    BY <1>0
  <2> QED BY <2>2, <2>3
<1>5. /\ a \in Seq(E) /\ Len(a) = t - 1
      /\ \A i \in 1 .. t - 1 : a[i] = IF i <= s THEN new[i] ELSE g[i]
  <2>1. PICK G \in Seq(E) : G = SubSeq(g, s + 1, t - 1)
    BY <1>3
  <2>2. /\ new \o G \in Seq(E) /\ Len(new \o G) = Len(new) + Len(G)
        /\ \A i \in 1 .. Len(new) + Len(G) :
             (new \o G)[i] = IF i <= Len(new) THEN new[i] ELSE G[i - Len(new)]
    BY <1>1, ConcatProperties
  <2>3. Len(new) + Len(G) = t - 1
    BY <1>0, <1>3, <2>1
  <2>4. \A i \in 1 .. t - 1 : ~ (i <= s) => G[i - s] = g[i]
    <3> TAKE i \in 1 .. t - 1
    <3>1. ~ (i <= s) => i - s \in 1 .. t - 1 - s /\ s + (i - s) = i
      BY <1>0
    <3> QED BY <1>3, <2>1, <3>1
  <2> QED BY <2>1, <2>2, <2>3, <2>4
<1>6. /\ b \in Seq(E) /\ Len(b) = t
      /\ \A i \in 1 .. t : b[i] = IF i <= s THEN new[i] ELSE h[i]
  <2>1. PICK H \in Seq(E) : H = SubSeq(h, s + 1, t)
    BY <1>4
  <2>2. /\ new \o H \in Seq(E) /\ Len(new \o H) = Len(new) + Len(H)
        /\ \A i \in 1 .. Len(new) + Len(H) :
             (new \o H)[i] = IF i <= Len(new) THEN new[i] ELSE H[i - Len(new)]
    BY <1>1, ConcatProperties
  <2>3. Len(new) + Len(H) = t
    BY <1>0, <1>4, <2>1
  <2>4. \A i \in 1 .. t : ~ (i <= s) => H[i - s] = h[i]
    <3> TAKE i \in 1 .. t
    <3>1. ~ (i <= s) => i - s \in 1 .. t - s /\ s + (i - s) = i
      BY <1>0
    <3> QED BY <1>4, <2>1, <3>1
  <2> QED BY <2>1, <2>2, <2>3, <2>4
<1> HIDE DEF a, b
<1>7. b = Append(a, h[t])
  <2>1. /\ Append(a, h[t]) \in Seq(E) /\ Len(Append(a, h[t])) = t
        /\ \A i \in 1 .. t - 1 : Append(a, h[t])[i] = a[i]
        /\ Append(a, h[t])[t] = h[t]
    <3>1. /\ Append(a, h[t]) \in Seq(E) /\ Len(Append(a, h[t])) = (t - 1) + 1
          /\ \A i \in 1 .. t - 1 : Append(a, h[t])[i] = a[i]
          /\ Append(a, h[t])[(t - 1) + 1] = h[t]
      BY <1>2, <1>5, AppendProperties
    <3> QED BY <1>0, <3>1
  <2>2. \A i \in 1 .. t : b[i] = Append(a, h[t])[i]
    <3> TAKE i \in 1 .. t
    <3>1. CASE i = t
      BY <1>0, <1>6, <2>1, <3>1
    <3>2. CASE i # t
      <4>1. i \in 1 .. t - 1
        BY <1>0, <3>2
      <4> QED BY <1>5, <1>6, <1>9, <2>1, <4>1
    <3> QED BY <3>1, <3>2
  <2> QED BY <1>6, <2>1, <2>2, SeqEqual
<1>8. t = s + 1 => a = new
  <2> SUFFICES ASSUME t = s + 1 PROVE a = new
    OBVIOUS
  <2>1. Len(a) = Len(new) /\ \A i \in 1 .. Len(a) : a[i] = new[i]
    BY <1>0, <1>5
  <2> QED BY <1>1, <1>5, <2>1, SeqEqual
<1> QED BY <1>5, <1>6, <1>7, <1>8 DEF a, b, E, Hash, Rehash

\* A rewrite of a ledger whose rows verify leaves rows that hash to their
\* hashes again.
LEMMA RewrittenRows ==
  ASSUME LedgerSound, NEW s \in DOMAIN rows, NEW p \in Payload, Rewrite(s, p)
  PROVE  /\ DOMAIN rows' = DOMAIN rows
         /\ rows' \in [DOMAIN rows -> Row]
         /\ \A t \in DOMAIN rows :
              rows'[t] \in Row /\ rows'[t].hash = EntryHash(t, rows'[t].prev, rows'[t].payload)
<1>0. PICK n \in 0 .. MaxSeq : n = Last(rows)
  BY RowsShape
<1>1. /\ MaxSeq \in Nat /\ n \in Nat /\ s \in 1 .. n /\ s \in 1 .. MaxSeq /\ s \in Nat
      /\ rows[s] \in Row
  BY <1>0, RowsShape
<1>2. \A t \in 1 .. n : Good(rows, t)
  <2>1. Chain(rows, 0) = Valid
    BY DEF Rewrite
  <2> QED BY <1>0, <2>1, RowsShape, ChainAnswers
<1>3. \A t \in 1 .. n : Good(rows, t) /\ rows[t] \in Row /\ t \in DOMAIN rows
  BY <1>2, RowsShape DEF Good
<1>4. DOMAIN rows = 1 .. n
  BY <1>0, <1>3, RowsShape
<1>5. \A t \in 1 .. n :
        Len(rows[t].hash) = t /\ \A i \in 1 .. t : rows[t].hash[i] = <<i, rows[i].payload>>
  BY <1>3, ChainHash
<1> DEFINE new == Append(rows[s].prev, <<s, p>>)
           hashAt(t) == new \o SubSeq(rows[t].hash, s + 1, t)
           later(t) == [rows[t] EXCEPT !.prev = IF t = s + 1 THEN new ELSE hashAt(t - 1),
                                       !.hash = hashAt(t)]
           rowAt(t) == CASE t < s -> rows[t]
                         [] t = s -> Entry(s, rows[s].prev, p)
                         [] t > s -> later(t)
<1>6. rows' = [t \in DOMAIN rows |-> rowAt(t)]
  BY Zenon DEF Rewrite
<1>7. new \in Hash /\ Len(new) = s
  <2>1. rows[s].prev \in Hash /\ p \in Content /\ rows[s].payload \in Content
    BY <1>1, RowShape DEF Content
  <2>2. rows[s].hash = Append(rows[s].prev, <<s, rows[s].payload>>)
    BY <1>1, <1>2 DEF Good, Mismatch, EntryHash
  <2> DEFINE E == (1 .. MaxSeq) \X Content
  <2>3. rows[s].prev \in Seq(E) /\ <<s, p>> \in E /\ <<s, rows[s].payload>> \in E
    BY <1>1, <2>1 DEF Hash
  <2> HIDE DEF E
  <2>4. /\ new \in Seq(E) /\ Len(new) = Len(rows[s].prev) + 1
        /\ Len(rows[s].hash) = Len(rows[s].prev) + 1
    BY <2>2, <2>3, AppendProperties
  <2> QED BY <1>1, <1>5, <2>4 DEF E, Hash
<1> HIDE DEF new, hashAt, later, rowAt
<1>8. ASSUME NEW t \in DOMAIN rows
      PROVE  rows'[t] \in Row /\ rows'[t].hash = EntryHash(t, rows'[t].prev, rows'[t].payload)
  <2>0. t \in 1 .. n /\ t \in Nat /\ t \in 1 .. MaxSeq /\ rows[t] \in Row
    BY <1>1, <1>3, <1>4, <1>8
  <2>9. rows'[t] = rowAt(t)
    BY <1>6
  <2>1. CASE t < s
    <3>1. rows'[t] = rows[t]
      BY <1>1, <2>0, <2>1, <2>9 DEF rowAt
    <3> QED BY <1>2, <2>0, <3>1 DEF Good, Mismatch
  <2>2. CASE t = s
    <3>1. rows'[t] = Entry(s, rows[s].prev, p)
      BY <1>1, <2>0, <2>2, <2>9 DEF rowAt
    <3>2. rows[s].prev \in Hash
      BY <1>1, RowShape
    <3> QED BY <1>1, <2>2, <3>1, <3>2, EntryShape
  <2>3. CASE t > s
    <3>0. t - 1 \in 1 .. n
      BY <1>1, <2>0, <2>3
    <3>1. PICK g \in Hash, h \in Hash : g = rows[t - 1].hash /\ h = rows[t].hash
      BY <1>3, <2>0, <3>0, RowShape
    <3>2. /\ Len(g) = t - 1 /\ Len(h) = t
          /\ \A i \in 1 .. t - 1 : h[i] = g[i]
          /\ h[t] = <<t, rows[t].payload>>
      <4>1. Len(g) = t - 1 /\ \A i \in 1 .. t - 1 : g[i] = <<i, rows[i].payload>>
        BY <1>5, <3>0, <3>1
      <4>2. Len(h) = t /\ \A i \in 1 .. t : h[i] = <<i, rows[i].payload>>
        BY <1>5, <2>0, <3>1
      <4>3. t \in 1 .. t /\ \A i \in 1 .. t - 1 : i \in 1 .. t
        BY <2>0
      <4> QED BY <4>1, <4>2, <4>3
    <3>3. /\ Rehash(new, g, s, t - 1) \in Hash
          /\ Rehash(new, h, s, t) \in Hash
          /\ Rehash(new, h, s, t) = Append(Rehash(new, g, s, t - 1), h[t])
          /\ t = s + 1 => Rehash(new, g, s, t - 1) = new
      <4>1. s < t
        BY <1>1, <2>0, <2>3
      <4>2. PICK w \in Hash : w = new /\ Len(w) = s
        BY <1>7
      <4>3. s \in 1 .. MaxSeq /\ t \in 1 .. MaxSeq /\ Extends(g, h, t)
        BY <1>1, <2>0, <3>2 DEF Extends
      <4> QED BY <4>1, <4>2, <4>3, RewrittenHash
    <3>4. rows'[t] = later(t)
      BY <1>1, <2>0, <2>3, <2>9 DEF rowAt
    <3>5. /\ hashAt(t) \in Hash /\ hashAt(t - 1) \in Hash
          /\ hashAt(t) = Append(hashAt(t - 1), <<t, rows[t].payload>>)
          /\ t = s + 1 => hashAt(t - 1) = new
      <4>1. hashAt(t) = Rehash(new, h, s, t) /\ hashAt(t - 1) = Rehash(new, g, s, t - 1)
        BY <3>1 DEF hashAt, Rehash
      <4> QED BY <3>2, <3>3, <4>1
    <3>6. later(t) = [rows[t] EXCEPT !.prev = hashAt(t - 1), !.hash = hashAt(t)]
      <4>1. (IF t = s + 1 THEN new ELSE hashAt(t - 1)) = hashAt(t - 1)
        BY <3>5
      <4> QED BY <4>1, Zenon DEF later
    <3>7. /\ rows'[t] \in Row /\ rows'[t].prev = hashAt(t - 1)
          /\ rows'[t].hash = hashAt(t) /\ rows'[t].payload = rows[t].payload
      <4>1. PICK x \in Row, u \in Hash, v \in Hash : x = rows[t] /\ u = hashAt(t - 1) /\ v = hashAt(t)
        BY <2>0, <3>5
      <4>2. rows'[t] = [x EXCEPT !.prev = u, !.hash = v]
        BY <3>4, <3>6, <4>1
      <4>3. [x EXCEPT !.prev = u, !.hash = v] \in Row
        BY RowShape
      <4>4. /\ [x EXCEPT !.prev = u, !.hash = v].prev = u
            /\ [x EXCEPT !.prev = u, !.hash = v].hash = v
            /\ [x EXCEPT !.prev = u, !.hash = v].payload = x.payload
        BY RowShape
      <4> QED BY <4>1, <4>2, <4>3, <4>4
    <3> QED BY <3>5, <3>7 DEF EntryHash
  <2> QED BY <1>1, <2>0, <2>1, <2>2, <2>3
<1>9. DOMAIN rows' = DOMAIN rows /\ rows' = [t \in DOMAIN rows |-> rows'[t]]
  BY <1>6
<1> QED BY <1>8, <1>9

LEMMA RewriteStep ==
  ASSUME IInv, NEW s \in DOMAIN rows, NEW p \in Payload, Rewrite(s, p)
  PROVE  IInv'
<1>0. LedgerSound
  BY DEF IInv
<1>1. /\ DOMAIN rows' = DOMAIN rows
      /\ rows' \in [DOMAIN rows -> Row]
      /\ \A t \in DOMAIN rows :
           rows'[t] \in Row /\ rows'[t].hash = EntryHash(t, rows'[t].prev, rows'[t].payload)
  BY <1>0, RewrittenRows
<1>2. /\ Damaged("rewrite", s)
      /\ written' = [t \in DOMAIN written |-> IF t \in DOMAIN rows THEN rows'[t] ELSE written[t]]
      /\ high' \in {high, [high EXCEPT !.last = IF high.max \in DOMAIN rows
                                                THEN rows'[high.max].hash ELSE high.last]}
  BY DEF Rewrite
<1>3. high' \in [max : 0 .. MaxSeq, last : Hash] /\ high'.max = high.max
  <2>1. high \in [max : 0 .. MaxSeq, last : Hash]
    BY <1>0 DEF LedgerSound
  <2>2. \A t \in DOMAIN rows : rows'[t].hash \in Hash
    BY <1>1, RowShape
  <2> QED BY <1>2, <2>1, <2>2
<1>4. DOMAIN written = 1 .. high.max /\ \A t \in 1 .. high.max : written[t] \in Row
  BY <1>0 DEF LedgerSound
<1>5. written' \in [1 .. high'.max -> Row]
  BY <1>1, <1>2, <1>3, <1>4
<1>6. \A t \in DOMAIN rows' : rows'[t].hash = written'[t].hash
  BY <1>0, <1>1, <1>2, <1>4, RowsShape
<1>7. \A t \in 1 .. high'.max :
        written'[t].hash = EntryHash(t, written'[t].prev, written'[t].payload)
  <2> TAKE t \in 1 .. high'.max
  <2>1. CASE t \in DOMAIN rows
    BY <1>1, <1>2, <1>3, <1>4, <2>1
  <2>2. CASE t \notin DOMAIN rows
    <3>1. written'[t] = written[t] /\ t \in 1 .. high.max
      BY <1>2, <1>3, <1>4, <2>2
    <3> QED BY <1>0, <3>1 DEF LedgerSound
  <2> QED BY <2>1, <2>2
<1>8. DOMAIN rows' \subseteq 1 .. high'.max /\ rows' \in [DOMAIN rows' -> Row]
  BY <1>0, <1>1, <1>3, RowsShape
<1>9. damage' \in Seq(DamageKind \X (1 .. MaxSeq)) => LedgerSound'
  BY <1>3, <1>5, <1>6, <1>7, <1>8 DEF LedgerSound
<1>10. "rewrite" \in DamageKind /\ "rewrite" \notin Partial
  BY DEF DamageKind, Partial
<1> QED BY <1>2, <1>9, <1>10, DamageStep

LEMMA PutBackStep ==
  ASSUME IInv, NEW s \in DOMAIN rows, PutBack(s)
  PROVE  IInv'
<1>0. LedgerSound /\ MaxSeq \in Nat /\ high.max \in 0 .. MaxSeq /\ s \in 1 .. high.max /\ rows[s] \in Row
  BY RowsShape DEF IInv
<1>1. /\ rows = written /\ Damaged("put back", s)
      /\ rows' = Without(rows, (s + 1) .. MaxSeq)
      /\ written' = rows' /\ high' = [max |-> s, last |-> rows[s].hash]
  BY DEF PutBack
<1>2. DOMAIN rows = 1 .. high.max
  BY <1>0, <1>1 DEF LedgerSound
<1>3. DOMAIN rows' = 1 .. s /\ \A t \in 1 .. s : rows'[t] = rows[t] /\ t \in DOMAIN rows
  <2>1. DOMAIN rows \ ((s + 1) .. MaxSeq) = 1 .. s
    BY <1>0, <1>2
  <2> QED BY <1>1, <2>1 DEF Without
<1>4. high' \in [max : 0 .. MaxSeq, last : Hash] /\ high'.max = s
  <2>1. rows[s].hash \in Hash
    BY <1>0, RowShape
  <2>2. s \in 0 .. MaxSeq
    BY <1>0
  <2> QED BY <1>1, <2>1, <2>2
<1>5. rows' \in [1 .. s -> Row]
  <2>1. rows' = [t \in 1 .. s |-> rows[t]]
    BY <1>1, <1>3 DEF Without
  <2> QED BY <1>0, <1>3, <2>1, RowsShape
<1>6. \A t \in 1 .. s : rows'[t].hash = EntryHash(t, rows'[t].prev, rows'[t].payload)
  <2>1. \A t \in 1 .. s : t \in 1 .. high.max /\ rows'[t] = written[t]
    BY <1>1, <1>2, <1>3
  <2> QED BY <1>0, <2>1 DEF LedgerSound
<1>7. damage' \in Seq(DamageKind \X (1 .. MaxSeq)) => LedgerSound'
  <2>1. DOMAIN rows' \subseteq 1 .. high'.max /\ rows' \in [DOMAIN rows' -> Row]
    BY <1>3, <1>4, <1>5
  <2>2. written' \in [1 .. high'.max -> Row]
    BY <1>1, <1>4, <1>5
  <2> QED BY <1>1, <1>4, <1>6, <2>1, <2>2 DEF LedgerSound
<1>8. "put back" \in DamageKind /\ "put back" \notin Partial
  BY DEF DamageKind, Partial
<1> QED BY <1>1, <1>7, <1>8, DamageStep

-----------------------------------------------------------------------------
(* The steps of the task. *)

LEMMA TaskShape ==
  ASSUME TaskSound
  PROVE  /\ task \in TaskState
         /\ task.pc \in {"idle", "high", "rows", "receipts", "anchors", "seq", "posted", "answered"}
         /\ task.then \in {"started", "report", "submit"}
         /\ task.cycle \in 0 .. MaxCycle /\ task.tail \in LedgerHead /\ task.hw \in 0 .. MaxSeq
         /\ task.chain \in ChainResult /\ task.todo \subseteq Nat /\ task.todo \subseteq DOMAIN receipts
         /\ task.verdict \in Verdict /\ task.reply \in Reply
BY DEF TaskSound, TaskState

LEMMA Constants ==
  /\ MaxSeq \in Nat /\ MaxCycle \in Nat /\ Valid \in ChainResult /\ Valid.bad = 0
  /\ NoTail \in LedgerHead /\ NoReply \in Reply /\ NoReply.ok = FALSE
  /\ Genesis \in Hash
<1>1. MaxSeq \in Nat /\ MaxCycle \in Nat
  BY BoundAssumption
<1>2. Genesis \in Hash
  BY DEF Genesis, Hash
<1>3. Valid \in ChainResult /\ Valid.bad = 0
  BY <1>1 DEF Valid, ChainResult
<1>4. NoTail \in LedgerHead
  BY <1>1, <1>2 DEF NoTail, LedgerHead
<1>5. NoReply \in Reply /\ NoReply.ok = FALSE
  BY DEF NoReply, Reply
<1> QED BY <1>1, <1>2, <1>3, <1>4, <1>5

LEMMA StartedShape ==
  /\ Started \in TaskState /\ Started.pc = "high" /\ Started.then = "started" /\ Started.hw = 0
  /\ Started.chain = Valid /\ Started.todo = {} /\ Started.verdict = "Consistent"
  /\ Started.reply = NoReply
<1>1. "Consistent" \in Verdict
  BY DEF Verdict
<1> QED BY <1>1, Constants DEF Started, TaskState

\* What a fresh task and a task at rest have in common.
Fresh(t) ==
  /\ t \in TaskState /\ t.then = "started" /\ t.hw = 0 /\ t.chain = Valid /\ t.todo = {}
  /\ t.verdict = "Consistent" /\ t.reply.ok = FALSE
  /\ t.pc \in {"high", "idle"}

LEMMA FreshTask ==
  ASSUME NEW n \in 0 .. MaxCycle
  PROVE  /\ Fresh([Started EXCEPT !.cycle = n])
         /\ Fresh([Started EXCEPT !.pc = "idle", !.cycle = n])
<1>1. [Started EXCEPT !.cycle = n] \in TaskState
  BY StartedShape DEF TaskState
<1>2. [Started EXCEPT !.pc = "idle", !.cycle = n] \in TaskState
  BY StartedShape DEF TaskState
<1> QED BY <1>1, <1>2, StartedShape, Constants DEF Fresh, TaskState

\* Only the task moves.
taskOnly == <<ledgerVars, receipts, enrolled, remoteVars>>

LEMMA TaskStep ==
  ASSUME IInv, UNCHANGED taskOnly, TaskSound',
         damage = <<>> => /\ task'.hw <= high.max
                          /\ task'.chain = Valid
                          /\ task'.verdict = "Consistent"
                          /\ task'.then # "started" => Anchored(task'.tail)
  PROVE  IInv'
<1>1. LedgerSound'
  BY DEF IInv, LedgerSound, taskOnly, ledgerVars
<1>2. RemoteSound'
  BY DEF IInv, RemoteSound, ReceiptsWitnessed, taskOnly, remoteVars
<1>3. StruckOnce'
  BY DEF IInv, StruckOnce, FirstBad, taskOnly, ledgerVars
<1>4. Pristine'
  BY DEF IInv, Pristine, Anchored, taskOnly, ledgerVars
<1> QED BY <1>1, <1>2, <1>3, <1>4 DEF IInv

LEMMA FreshStep ==
  ASSUME IInv, UNCHANGED taskOnly, Fresh(task')
  PROVE  IInv'
<1>1. TaskSound'
  BY DEF Fresh, TaskSound
<1>2. 0 <= high.max
  BY RowsShape DEF IInv
<1> QED BY <1>1, <1>2, TaskStep DEF Fresh

LEMMA BeginCycleStep ==
  ASSUME IInv, BeginCycle
  PROVE  IInv'
<1>0. LedgerSound /\ TaskSound /\ MaxCycle \in Nat
  BY Constants DEF IInv
<1>1. UNCHANGED taskOnly /\ DOMAIN rows # {} /\ task.pc = "idle"
  BY DEF BeginCycle, taskOnly
<1>2. PICK tl \in LedgerHead : tl = [head |-> Last(rows), hash |-> rows[Last(rows)].hash]
  <2>1. Last(rows) \in 0 .. MaxSeq /\ rows[Last(rows)] \in Row
    BY <1>0, <1>1, RowsShape
  <2>2. rows[Last(rows)].hash \in Hash
    BY <2>1, RowShape
  <2> QED BY <2>1, <2>2 DEF LedgerHead
<1>3. Anchored(tl)
  BY <1>0, <1>1, <1>2, RowsShape DEF Anchored
<1>4. PICK n \in 1 .. MaxCycle : n = task.cycle + 1
  BY <1>0, TaskShape DEF BeginCycle
<1>5. task' = [task EXCEPT !.pc = "high", !.then = "report", !.cycle = n, !.tail = tl]
  BY <1>2, <1>4 DEF BeginCycle
<1>6. /\ task' \in TaskState
      /\ task'.pc = "high" /\ task'.then = "report" /\ task'.cycle = n /\ task'.tail = tl
      /\ task'.hw = task.hw /\ task'.chain = task.chain /\ task'.verdict = task.verdict
      /\ task'.todo = task.todo /\ task'.reply = task.reply
  <2>1. PICK t : t = [task EXCEPT !.pc = "high", !.then = "report"]
    OBVIOUS
  <2>2. /\ t \in TaskState /\ t.pc = "high" /\ t.then = "report"
        /\ t.hw = task.hw /\ t.chain = task.chain /\ t.verdict = task.verdict
        /\ t.todo = task.todo /\ t.reply = task.reply
    BY <1>0, <2>1, TaskShape DEF TaskState
  <2>3. task' = [t EXCEPT !.cycle = n, !.tail = tl]
    BY <1>5, <2>1
  <2>4. n \in 0 .. MaxCycle
    BY <1>0
  <2> QED BY <2>2, <2>3, <2>4 DEF TaskState
<1>7. TaskSound'
  BY <1>0, <1>1, <1>6 DEF TaskSound, Witnessed, taskOnly, remoteVars
<1> QED BY <1>1, <1>3, <1>6, <1>7, TaskStep DEF IInv, Pristine

LEMMA ReadHighWaterStep ==
  ASSUME IInv, ReadHighWater
  PROVE  IInv'
<1>0. LedgerSound /\ TaskSound
  BY DEF IInv
<1>1. UNCHANGED taskOnly
  BY DEF ReadHighWater, taskOnly
<1>2. PICK n \in 0 .. MaxSeq : n = high.max
  BY <1>0, RowsShape
<1>3. task' = [task EXCEPT !.pc = "rows", !.hw = n]
  BY <1>2 DEF ReadHighWater
<1>4. /\ task' \in TaskState
      /\ task'.pc = "rows" /\ task'.then = task.then /\ task'.cycle = task.cycle
      /\ task'.tail = task.tail /\ task'.hw = n /\ task'.chain = task.chain
      /\ task'.verdict = task.verdict /\ task'.todo = task.todo /\ task'.reply = task.reply
  BY <1>0, <1>3, TaskShape DEF TaskState
<1>5. TaskSound'
  BY <1>0, <1>1, <1>4 DEF TaskSound, Witnessed, taskOnly, remoteVars
<1>6. n <= high.max
  BY <1>2, Constants
<1> QED BY <1>1, <1>4, <1>5, <1>6, TaskStep DEF IInv, Pristine

LEMMA ReadRowsStep ==
  ASSUME IInv, ReadRows
  PROVE  IInv'
<1>0. LedgerSound /\ TaskSound
  BY DEF IInv
<1>1. UNCHANGED taskOnly /\ task.pc = "rows"
  BY DEF ReadRows, taskOnly
<1>2. PICK ch \in ChainResult : ch = Chain(rows, task.hw)
  BY <1>0, Constants, TaskShape, RowsShape, ChainAnswers
<1>3. PICK pc \in {"high", "receipts"}, then \in {"started", "submit", "report"} :
        /\ task' = [task EXCEPT !.chain = ch, !.pc = pc, !.then = then]
        /\ then # "started" => task.then # "started"
  BY <1>0, <1>2, TaskShape DEF ReadRows
<1>4. /\ task' \in TaskState
      /\ task'.pc = pc /\ task'.then = then /\ task'.cycle = task.cycle
      /\ task'.tail = task.tail /\ task'.hw = task.hw /\ task'.chain = ch
      /\ task'.verdict = task.verdict /\ task'.todo = task.todo /\ task'.reply = task.reply
  BY <1>0, <1>3, TaskShape DEF TaskState
<1>5. TaskSound'
  BY <1>0, <1>1, <1>3, <1>4 DEF TaskSound, Witnessed, taskOnly, remoteVars
<1>6. ASSUME damage = <<>> PROVE ch = Valid
  <2>1. (\A s \in 1 .. high.max : Good(rows, s)) /\ task.hw <= high.max
    BY <1>6 DEF IInv, Pristine
  <2>2. Last(rows) >= high.max
    <3>1. high.max = 0 \/ high.max \in DOMAIN rows
      BY <1>0, <2>1, RowsShape DEF Good
    <3> QED BY <1>0, <3>1, RowsShape
  <2>3. Last(rows) = high.max /\ task.hw \in Nat
    BY <1>0, <2>2, RowsShape, TaskShape, Constants
  <2>4. Last(rows) >= task.hw /\ \A s \in 1 .. Last(rows) : Good(rows, s)
    BY <1>0, <2>1, <2>3, RowsShape
  <2> QED BY <1>0, <1>2, <2>3, <2>4, RowsShape, ChainAnswers
<1> QED BY <1>1, <1>3, <1>4, <1>5, <1>6, TaskStep DEF IInv, Pristine

LEMMA ReadReceiptsStep ==
  ASSUME IInv, ReadReceipts
  PROVE  IInv'
<1>0. TaskSound /\ RemoteSound
  BY DEF IInv
<1>1. UNCHANGED taskOnly
  BY DEF ReadReceipts, taskOnly
<1>2. PICK td \in SUBSET Nat : td = DOMAIN receipts
  BY <1>0 DEF RemoteSound
<1>3. task' = [task EXCEPT !.pc = "anchors", !.todo = td]
  BY <1>2 DEF ReadReceipts
<1>4. /\ task' \in TaskState
      /\ task'.pc = "anchors" /\ task'.then = task.then /\ task'.cycle = task.cycle
      /\ task'.tail = task.tail /\ task'.hw = task.hw /\ task'.chain = task.chain
      /\ task'.verdict = task.verdict /\ task'.todo = td /\ task'.reply = task.reply
  BY <1>0, <1>3, TaskShape DEF TaskState
<1>5. TaskSound'
  BY <1>0, <1>1, <1>2, <1>4 DEF TaskSound, Witnessed, taskOnly, remoteVars
<1> QED BY <1>1, <1>4, <1>5, TaskStep DEF IInv, Pristine

LEMMA CompareAnchorStep ==
  ASSUME IInv, CompareAnchor
  PROVE  IInv'
<1>0. LedgerSound /\ TaskSound /\ RemoteSound
  BY DEF IInv
<1>1. UNCHANGED taskOnly /\ task.pc = "anchors" /\ task.todo # {}
  BY DEF CompareAnchor, taskOnly
<1>2. PICK c \in DOMAIN receipts : c = Min(task.todo) /\ c \in task.todo
  BY <1>0, <1>1, TaskShape, MinIsLeast
<1>3. PICK v \in Verdict, td \in SUBSET Nat :
        v = Consistency(task.chain, receipts[c], rows) /\ td = task.todo \ {c}
  BY <1>0, TaskShape, ConsistencyAnswers
<1>4. task' = [task EXCEPT !.todo = td, !.verdict = v]
  BY <1>2, <1>3 DEF CompareAnchor
<1>5. /\ task' \in TaskState
      /\ task'.pc = task.pc /\ task'.then = task.then /\ task'.cycle = task.cycle
      /\ task'.tail = task.tail /\ task'.hw = task.hw /\ task'.chain = task.chain
      /\ task'.verdict = v /\ task'.todo = td /\ task'.reply = task.reply
  BY <1>0, <1>3, <1>4, TaskShape DEF TaskState
<1>6. TaskSound'
  BY <1>0, <1>1, <1>3, <1>5 DEF TaskSound, Witnessed, taskOnly, remoteVars
<1>7. ASSUME damage = <<>> PROVE v = "Consistent"
  <2>1. task.chain = Valid /\ Anchored([head |-> receipts[c].head, hash |-> receipts[c].hash])
    BY <1>7 DEF IInv, Pristine
  <2>2. receipts[c].head \in DOMAIN rows /\ rows[receipts[c].head].hash = receipts[c].hash
    BY <2>1 DEF Anchored
  <2>3. receipts[c].head \in Nat /\ task.chain.bad = 0
    BY <1>0, <2>1, Constants DEF RemoteSound, ReceiptRow
  <2> QED BY <1>3, <2>2, <2>3 DEF Consistency
<1> QED BY <1>1, <1>5, <1>6, <1>7, TaskStep DEF IInv, Pristine

LEMMA EvaluationDoneStep ==
  ASSUME IInv, EvaluationDone
  PROVE  IInv'
<1>0. LedgerSound /\ TaskSound
  BY DEF IInv
<1>1. UNCHANGED taskOnly
  BY DEF EvaluationDone, taskOnly
<1>2. CASE task.then = "submit"
  <2>1. task' = [task EXCEPT !.pc = "seq", !.hw = 0, !.chain = Valid, !.verdict = "Consistent"]
    BY <1>2 DEF EvaluationDone
  <2>2. /\ task' \in TaskState
        /\ task'.pc = "seq" /\ task'.then = task.then /\ task'.cycle = task.cycle
        /\ task'.tail = task.tail /\ task'.hw = 0 /\ task'.chain = Valid
        /\ task'.verdict = "Consistent" /\ task'.todo = task.todo /\ task'.reply = task.reply
    <3>1. PICK t : t = [task EXCEPT !.pc = "seq", !.hw = 0]
      OBVIOUS
    <3>2. /\ t \in TaskState /\ t.pc = "seq" /\ t.then = task.then /\ t.cycle = task.cycle
          /\ t.tail = task.tail /\ t.hw = 0 /\ t.todo = task.todo /\ t.reply = task.reply
      <4>1. 0 \in 0 .. MaxSeq
        BY Constants
      <4>2. task \in TaskState
        BY <1>0, TaskShape
      <4> QED BY <3>1, <4>1, <4>2 DEF TaskState
    <3>3. task' = [t EXCEPT !.chain = Valid, !.verdict = "Consistent"]
      BY <2>1, <3>1
    <3>4. "Consistent" \in Verdict /\ Valid \in ChainResult
      BY Constants DEF Verdict
    <3> QED BY <3>2, <3>3, <3>4 DEF TaskState
  <2>3. TaskSound'
    BY <1>0, <1>1, <1>2, <2>2 DEF TaskSound, Witnessed, taskOnly, remoteVars
  <2>4. 0 <= high.max
    BY <1>0, RowsShape
  <2> QED BY <1>1, <2>2, <2>3, <2>4, TaskStep DEF IInv, Pristine
<1>3. CASE task.then # "submit"
  <2>1. task' = [Started EXCEPT !.pc = "idle", !.cycle = task.cycle]
    BY <1>3 DEF EvaluationDone, Rest
  <2>2. Fresh(task')
    BY <1>0, <2>1, TaskShape, FreshTask
  <2> QED BY <1>1, <2>2, FreshStep
<1> QED BY <1>2, <1>3

LEMMA GiveUpStep ==
  ASSUME IInv, GiveUp
  PROVE  IInv'
<1>1. UNCHANGED taskOnly /\ task' = [Started EXCEPT !.pc = "idle", !.cycle = task.cycle]
  BY DEF GiveUp, Rest, taskOnly
<1>2. Fresh(task')
  BY <1>1, TaskShape, FreshTask DEF IInv
<1> QED BY <1>1, <1>2, FreshStep

LEMMA PostStep ==
  ASSUME IInv, Post
  PROVE  IInv'
<1>0. LedgerSound /\ TaskSound /\ RemoteSound
  BY DEF IInv
<1>1. task.pc = "seq" /\ task.then = "submit" /\ task.cycle \in 1 .. MaxCycle /\ task.tail \in LedgerHead
  BY <1>0, TaskShape, Constants DEF Post, TaskSound
<1>2. UNCHANGED <<rows, high, damage, written, receipts, enrolled, cloud>>
  BY DEF Post, ledgerVars
<1>3. Max(DOMAIN receipts \cup {0}) \in Nat
  <2>1. PICK n \in Nat : DOMAIN receipts \subseteq 0 .. n
    BY <1>0 DEF RemoteSound
  <2> DEFINE S == DOMAIN receipts \cup {0}
  <2>2. S \in SUBSET (0 .. n) /\ S # {}
    BY <2>1
  <2>3. Max(S) \in S
    <3> HIDE DEF S
    <3> QED BY <2>2, MaxIsGreatest
  <2> QED BY <2>2, <2>3
<1>4. net' \subseteq Request
  <2>1. PICK c \in Nat : c = Max(DOMAIN receipts \cup {0}) + 1
    BY <1>3
  <2>2. net' = net \cup {[cycle |-> task.cycle, device |-> enrolled, cseq |-> c, head |-> task.tail]}
    BY <2>1 DEF Post
  <2> QED BY <1>0, <1>1, <2>2 DEF RemoteSound, Request
<1>5. RemoteSound'
  BY <1>0, <1>2, <1>4 DEF RemoteSound, ReceiptsWitnessed
<1>6. /\ task' \in TaskState
      /\ task'.pc = "posted" /\ task'.then = task.then /\ task'.cycle = task.cycle
      /\ task'.tail = task.tail /\ task'.hw = task.hw /\ task'.chain = task.chain
      /\ task'.verdict = task.verdict /\ task'.todo = task.todo /\ task'.reply = task.reply
  BY <1>0, TaskShape DEF Post, Goto, TaskState
<1>7. TaskSound'
  BY <1>0, <1>1, <1>2, <1>6 DEF TaskSound, Witnessed
<1>8. LedgerSound' /\ StruckOnce'
  BY <1>2 DEF IInv, LedgerSound, StruckOnce, FirstBad
<1>9. Pristine'
  BY <1>2, <1>6 DEF IInv, Pristine, Anchored
<1> QED BY <1>5, <1>7, <1>8, <1>9 DEF IInv

\* Every device's checkpoints only grow, and an answer the task takes was signed.
LEMMA AnswerStep ==
  ASSUME IInv, NEW r \in net, NEW reply \in Reply, Answer(r, reply),
         net' = net \ {r}, UNCHANGED <<ledgerVars, receipts, enrolled>>,
         cloud' \in [Device -> Seq(LedgerHead)],
         \A d \in Device : \A c \in DOMAIN cloud[d] : c \in DOMAIN cloud'[d] /\ cloud'[d][c] = cloud[d][c],
         reply.ok => reply.cseq \in DOMAIN cloud'[reply.device] /\
                     cloud'[reply.device][reply.cseq] = reply.head
  PROVE  IInv'
<1>0. LedgerSound /\ TaskSound /\ RemoteSound
  BY DEF IInv
<1>1. UNCHANGED <<rows, high, damage, written, receipts, enrolled>>
  BY DEF ledgerVars
<1>2. \A d \in Device : \A c, h : Witnessed(d, c, h) => Witnessed(d, c, h)'
  BY DEF Witnessed
<1>3. RemoteSound'
  <2>1. ReceiptsWitnessed'
    <3>1. PICK d \in Device : \A c \in DOMAIN receipts :
            /\ receipts[c].device = d
            /\ c \in DOMAIN cloud[d]
            /\ cloud[d][c] = [head |-> receipts[c].head, hash |-> receipts[c].hash]
      BY <1>0 DEF RemoteSound, ReceiptsWitnessed
    <3>2. \A c \in DOMAIN receipts' :
            /\ receipts'[c].device = d
            /\ c \in DOMAIN cloud'[d]
            /\ cloud'[d][c] = [head |-> receipts'[c].head, hash |-> receipts'[c].hash]
      BY <1>1, <3>1
    <3> QED BY <3>2 DEF ReceiptsWitnessed
  <2>2. net' \subseteq Request
    BY <1>0 DEF RemoteSound
  <2> QED BY <1>0, <1>1, <2>1, <2>2 DEF RemoteSound
<1>4. /\ task' \in TaskState
      /\ task'.then = task.then /\ task'.cycle = task.cycle
      /\ task'.tail = task.tail /\ task'.hw = task.hw /\ task'.chain = task.chain
      /\ task'.verdict = task.verdict /\ task'.todo = task.todo
      /\ task'.pc \in {"seq", "posted", "answered"} => task.pc \in {"seq", "posted", "answered"}
      /\ task'.reply \in {task.reply, reply}
  <2>1. CASE task' = task
    BY <1>0, <2>1, TaskShape
  <2>2. CASE task.pc = "posted" /\ task' = [task EXCEPT !.pc = "answered", !.reply = reply]
    BY <1>0, <2>2, TaskShape DEF TaskState
  <2> QED BY <2>1, <2>2 DEF Answer
<1>5. TaskSound'
  <2>1. task'.reply.ok => Witnessed(task.reply.device, task.reply.cseq, task.reply.head)'
    <3>1. CASE task'.reply = reply
      BY <3>1 DEF Witnessed
    <3>2. CASE task'.reply = task.reply
      <4> SUFFICES ASSUME task.reply.ok
                   PROVE  Witnessed(task.reply.device, task.reply.cseq, task.reply.head)'
        BY <3>2
      <4>1. task.reply.device \in Device
        <5>1. task.reply \in Reply /\ task.reply # NoReply
          BY <1>0, TaskShape, Constants
        <5> QED BY <5>1 DEF Reply
      <4>2. PICK d, c, h :
              d \in Device /\ d = task.reply.device /\ c = task.reply.cseq /\ h = task.reply.head
        BY <4>1
      <4>3. Witnessed(d, c, h)'
        BY <1>0, <1>2, <4>2 DEF TaskSound
      <4> QED BY <3>2, <4>2, <4>3
    <3> QED BY <1>4, <3>1, <3>2
  <2> QED BY <1>0, <1>1, <1>4, <2>1 DEF TaskSound
<1>6. LedgerSound' /\ StruckOnce'
  BY <1>1 DEF IInv, LedgerSound, StruckOnce, FirstBad
<1>7. Pristine'
  BY <1>1, <1>4 DEF IInv, Pristine, Anchored
<1> QED BY <1>3, <1>5, <1>6, <1>7 DEF IInv

LEMMA SignStep ==
  ASSUME IInv, NEW r \in net, Sign(r)
  PROVE  IInv'
<1>1. /\ cloud \in [Device -> Seq(LedgerHead)] /\ r \in Request
  BY DEF IInv, RemoteSound
<1>2. PICK d \in Device, h \in LedgerHead, c \in Nat : d = r.device /\ h = r.head /\ c = r.cseq
  BY <1>1 DEF Request
<1>3. PICK old \in Seq(LedgerHead) : old = cloud[d]
  BY <1>1
<1>4. c = Len(old) + 1 /\ cloud' = [cloud EXCEPT ![d] = Append(old, h)]
  BY <1>1, <1>2, <1>3 DEF Sign, Acceptable
<1>5. /\ Append(old, h) \in Seq(LedgerHead)
      /\ DOMAIN old = 1 .. Len(old) /\ Len(old) \in Nat
      /\ DOMAIN Append(old, h) = 1 .. Len(old) + 1
      /\ \A i \in 1 .. Len(old) : Append(old, h)[i] = old[i]
      /\ Append(old, h)[Len(old) + 1] = h
  BY AppendProperties, LenProperties
<1>6. /\ cloud' \in [Device -> Seq(LedgerHead)] /\ cloud'[d] = Append(old, h)
      /\ \A e \in Device : e # d => cloud'[e] = cloud[e]
  BY <1>1, <1>4, <1>5
<1>7. \A e \in Device : \A i \in DOMAIN cloud[e] : i \in DOMAIN cloud'[e] /\ cloud'[e][i] = cloud[e][i]
  <2> TAKE e \in Device
  <2>1. CASE e = d
    BY <1>3, <1>5, <1>6, <2>1
  <2>2. CASE e # d
    BY <1>6, <2>2
  <2> QED BY <2>1, <2>2
<1>8. PICK reply \in Reply : reply = [ok |-> TRUE, device |-> d, cseq |-> c, head |-> h]
  BY DEF Reply
<1>9. reply.cseq \in DOMAIN cloud'[reply.device] /\ cloud'[reply.device][reply.cseq] = reply.head
  BY <1>4, <1>5, <1>6, <1>8
<1>10. Answer(r, reply) /\ net' = net \ {r} /\ UNCHANGED <<ledgerVars, receipts, enrolled>>
  BY <1>2, <1>8 DEF Sign
<1> QED BY <1>6, <1>7, <1>9, <1>10, AnswerStep

LEMMA RefuseStep ==
  ASSUME IInv, NEW r \in net, Refuse(r)
  PROVE  IInv'
<1>1. /\ Answer(r, NoReply) /\ net' = net \ {r} /\ UNCHANGED <<ledgerVars, receipts, enrolled>>
      /\ cloud' = cloud
  BY DEF Refuse
<1>2. cloud' \in [Device -> Seq(LedgerHead)]
  BY <1>1 DEF IInv, RemoteSound
<1>3. \A d \in Device : \A c \in DOMAIN cloud[d] : c \in DOMAIN cloud'[d] /\ cloud'[d][c] = cloud[d][c]
  BY <1>1
<1>4. NoReply \in Reply /\ ~ NoReply.ok
  BY Constants
<1> QED BY <1>1, <1>2, <1>3, <1>4, AnswerStep

LEMMA MisdirectStep ==
  ASSUME IInv, NEW r \in net, NEW d \in Device, NEW c \in DOMAIN cloud[d], Misdirect(r, d, c)
  PROVE  IInv'
<1>1. cloud \in [Device -> Seq(LedgerHead)]
  BY DEF IInv, RemoteSound
<1>2. c \in Nat /\ cloud[d][c] \in LedgerHead
  <2>1. PICK s \in Seq(LedgerHead) : s = cloud[d]
    BY <1>1
  <2>2. DOMAIN s = 1 .. Len(s) /\ c \in 1 .. Len(s)
    BY <2>1, LenProperties
  <2> QED BY <2>1, <2>2, ElementOfSeq
<1>3. PICK reply \in Reply : reply = [ok |-> TRUE, device |-> d, cseq |-> c, head |-> cloud[d][c]]
  BY <1>2 DEF Reply
<1>4. /\ Answer(r, reply) /\ net' = net \ {r} /\ UNCHANGED <<ledgerVars, receipts, enrolled>>
      /\ cloud' = cloud
  BY <1>3 DEF Misdirect
<1>5. cloud' \in [Device -> Seq(LedgerHead)]
  BY <1>1, <1>4
<1>6. \A e \in Device : \A i \in DOMAIN cloud[e] : i \in DOMAIN cloud'[e] /\ cloud'[e][i] = cloud[e][i]
  BY <1>4
<1>7. reply.cseq \in DOMAIN cloud'[reply.device] /\ cloud'[reply.device][reply.cseq] = reply.head
  BY <1>3, <1>4
<1> QED BY <1>4, <1>5, <1>6, <1>7, AnswerStep

LEMMA LoseAnswerStep ==
  ASSUME IInv, NEW r \in net, Lose(r)
  PROVE  IInv'
<1>1. UNCHANGED <<rows, high, damage, written, receipts, enrolled, task, cloud>> /\ net' = net \ {r}
  BY DEF Lose, ledgerVars
<1>2. LedgerSound' /\ StruckOnce' /\ Pristine'
  BY <1>1 DEF IInv, LedgerSound, StruckOnce, FirstBad, Pristine, Anchored
<1>3. TaskSound'
  BY <1>1 DEF IInv, TaskSound, Witnessed
<1>4. RemoteSound'
  BY <1>1 DEF IInv, RemoteSound, ReceiptsWitnessed
<1> QED BY <1>2, <1>3, <1>4 DEF IInv

LEMMA RestartStep ==
  ASSUME IInv, NEW d \in Device, Restart(d)
  PROVE  IInv'
<1>1. /\ UNCHANGED <<rows, high, damage, written, receipts, net, cloud>>
      /\ enrolled' = d /\ task' = [Started EXCEPT !.cycle = task.cycle]
  BY DEF Restart, ledgerVars, remoteVars
<1>2. Fresh(task')
  BY <1>1, TaskShape, FreshTask DEF IInv
<1>3. TaskSound'
  BY <1>2 DEF Fresh, TaskSound
<1>4. RemoteSound'
  BY <1>1 DEF IInv, RemoteSound, ReceiptsWitnessed
<1>5. LedgerSound' /\ StruckOnce'
  BY <1>1 DEF IInv, LedgerSound, StruckOnce, FirstBad
<1>6. Pristine'
  <2>1. 0 <= high.max
    BY RowsShape DEF IInv
  <2> QED BY <1>1, <1>2, <2>1 DEF IInv, Pristine, Anchored, Fresh
<1> QED BY <1>3, <1>4, <1>5, <1>6 DEF IInv

LEMMA StoreReceiptStep ==
  ASSUME IInv, StoreReceipt
  PROVE  IInv'
<1>0. LedgerSound /\ TaskSound /\ RemoteSound
  BY DEF IInv
<1>1. /\ task.pc = "answered" /\ Storable(task.reply)
      /\ UNCHANGED <<rows, high, damage, written, enrolled, net, cloud>>
  BY DEF StoreReceipt, ledgerVars, remoteVars
<1>2. PICK d \in Device, c \in Nat, h \in LedgerHead :
        d = task.reply.device /\ c = task.reply.cseq /\ h = task.reply.head
  <2>1. task.reply \in Reply /\ task.reply # NoReply
    BY <1>0, <1>1, TaskShape, Constants DEF Storable
  <2> QED BY <2>1 DEF Reply
<1>3. h.head \in 0 .. MaxSeq /\ h.hash \in Hash /\ h = [head |-> h.head, hash |-> h.hash]
  BY DEF LedgerHead
<1>4. PICK row \in ReceiptRow : row = [device |-> d, head |-> h.head, hash |-> h.hash]
  BY <1>3 DEF ReceiptRow
<1>5. receipts' = With(receipts, c, row)
  BY <1>2, <1>4 DEF StoreReceipt
<1>6. /\ DOMAIN receipts' = DOMAIN receipts \cup {c}
      /\ receipts' \in [DOMAIN receipts' -> ReceiptRow]
      /\ receipts'[c] = row
      /\ \A k \in DOMAIN receipts \ {c} : receipts'[k] = receipts[k]
  <2>1. receipts \in [DOMAIN receipts -> ReceiptRow]
    BY <1>0 DEF RemoteSound
  <2> QED BY <1>5, <2>1 DEF With
<1>7. \E n \in Nat : DOMAIN receipts' \subseteq 0 .. n
  <2>1. PICK n \in Nat : DOMAIN receipts \subseteq 0 .. n
    BY <1>0 DEF RemoteSound
  <2>2. n + c \in Nat /\ DOMAIN receipts \cup {c} \subseteq 0 .. n + c
    BY <2>1
  <2> QED BY <1>6, <2>2
<1>8. c \in DOMAIN cloud[d] /\ cloud[d][c] = h
  BY <1>0, <1>1, <1>2 DEF TaskSound, Witnessed, Storable
<1>9. ReceiptsWitnessed'
  <2>1. \A k \in DOMAIN receipts :
          /\ receipts[k].device = d
          /\ k \in DOMAIN cloud[d]
          /\ cloud[d][k] = [head |-> receipts[k].head, hash |-> receipts[k].hash]
    <3>1. PICK e \in Device : \A k \in DOMAIN receipts :
            /\ receipts[k].device = e
            /\ k \in DOMAIN cloud[e]
            /\ cloud[e][k] = [head |-> receipts[k].head, hash |-> receipts[k].hash]
      BY <1>0 DEF RemoteSound, ReceiptsWitnessed
    <3>2. ASSUME DOMAIN receipts # {} PROVE e = d
      <4>1. DOMAIN receipts \in SUBSET Nat
        BY <1>0 DEF RemoteSound
      <4>2. Min(DOMAIN receipts) \in DOMAIN receipts
        BY <3>2, <4>1, MinIsLeast
      <4> QED BY <1>1, <1>2, <3>1, <3>2, <4>2 DEF Storable
    <3> QED BY <3>1, <3>2
  <2>2. row.device = d /\ [head |-> row.head, hash |-> row.hash] = h
    BY <1>3, <1>4
  <2>3. ASSUME NEW k \in DOMAIN receipts'
        PROVE  /\ receipts'[k].device = d
               /\ k \in DOMAIN cloud'[d]
               /\ cloud'[d][k] = [head |-> receipts'[k].head, hash |-> receipts'[k].hash]
    <3>1. CASE k = c
      BY <1>1, <1>6, <1>8, <2>2, <3>1
    <3>2. CASE k # c
      BY <1>1, <1>6, <2>1, <3>2
    <3> QED BY <3>1, <3>2
  <2> QED BY <2>3 DEF ReceiptsWitnessed
<1>10. RemoteSound'
  BY <1>0, <1>1, <1>6, <1>7, <1>9 DEF RemoteSound
<1>11. Fresh(task')
  BY <1>0, TaskShape, FreshTask DEF StoreReceipt, Rest
<1>12. TaskSound'
  BY <1>11 DEF Fresh, TaskSound
<1>13. LedgerSound' /\ StruckOnce'
  BY <1>1 DEF IInv, LedgerSound, StruckOnce, FirstBad
<1>14. Pristine'
  <2> SUFFICES ASSUME damage = <<>>
               PROVE  \A k \in DOMAIN receipts' :
                        Anchored([head |-> receipts'[k].head, hash |-> receipts'[k].hash])
    <3>1. 0 <= high.max
      BY <1>0, RowsShape
    <3> QED BY <1>1, <1>11, <3>1 DEF IInv, Pristine, Anchored, Fresh
  <2>1. Anchored(h)
    <3>1. task.then = "submit" /\ task.tail = h
      BY <1>0, <1>1, <1>2 DEF TaskSound, Storable
    <3> QED BY <3>1 DEF IInv, Pristine
  <2>2. [head |-> row.head, hash |-> row.hash] = h
    BY <1>3, <1>4
  <2>3. \A k \in DOMAIN receipts : Anchored([head |-> receipts[k].head, hash |-> receipts[k].hash])
    BY DEF IInv, Pristine
  <2> QED BY <1>6, <2>1, <2>2, <2>3
<1> QED BY <1>10, <1>12, <1>13, <1>14 DEF IInv

-----------------------------------------------------------------------------
(* The invariant. *)

LEMMA InitInv ==
  ASSUME Init
  PROVE  IInv
<1>1. /\ DOMAIN rows = {} /\ DOMAIN written = {} /\ DOMAIN receipts = {}
      /\ high = [max |-> 0, last |-> Genesis] /\ high.max = 0
      /\ enrolled \in Device /\ task = Started /\ net = {} /\ damage = <<>>
  BY DEF Init
<1>2. LedgerSound
  <2>1. high \in [max : 0 .. MaxSeq, last : Hash]
    BY <1>1, Constants
  <2>2. rows \in [DOMAIN rows -> Row] /\ written \in [1 .. high.max -> Row]
    <3>1. rows = [s \in {} |-> s] /\ written = [s \in {} |-> s] /\ 1 .. high.max = {}
      BY <1>1 DEF Init
    <3> QED BY <3>1
  <2>3. damage \in Seq(DamageKind \X (1 .. MaxSeq))
    BY <1>1, EmptySeq
  <2> QED BY <1>1, <2>1, <2>2, <2>3 DEF LedgerSound
<1>3. TaskSound
  BY <1>1, StartedShape, Constants DEF TaskSound
<1>4. RemoteSound
  <2>1. cloud \in [Device -> Seq(LedgerHead)]
    <3>1. PICK h : h = [head |-> 1, hash |-> EntryHash(1, Genesis, Foreign)]
      OBVIOUS
    <3>2. h \in LedgerHead
      <4>1. 1 \in 1 .. MaxSeq /\ 1 \in 0 .. MaxSeq
        BY BoundAssumption
      <4>2. Foreign \in Content
        BY DEF Content
      <4>3. EntryHash(1, Genesis, Foreign) \in Hash
        BY <4>1, <4>2, Constants, HashInjective
      <4> QED BY <3>1, <4>1, <4>3 DEF LedgerHead
    <3>3. cloud = [d \in Device |-> IF d = enrolled THEN <<>> ELSE <<h>>]
      BY <3>1 DEF Init
    <3>4. <<>> \in Seq(LedgerHead) /\ <<h>> \in Seq(LedgerHead)
      BY <3>2
    <3> QED BY <3>3, <3>4
  <2>2. receipts \in [DOMAIN receipts -> ReceiptRow]
    BY DEF Init
  <2>3. ReceiptsWitnessed
    BY <1>1 DEF ReceiptsWitnessed
  <2>4. \E n \in Nat : DOMAIN receipts \subseteq 0 .. n
    BY <1>1
  <2> QED BY <1>1, <2>1, <2>2, <2>3, <2>4 DEF RemoteSound
<1>5. Pristine
  <2>1. high.last = ExpectedPrev(rows, high.max + 1)
    BY <1>1 DEF ExpectedPrev
  <2> QED BY <1>1, <2>1, StartedShape DEF Pristine
<1>6. StruckOnce
  BY <1>1 DEF StruckOnce
<1> QED BY <1>2, <1>3, <1>4, <1>5, <1>6 DEF IInv

LEMMA StutterStep ==
  ASSUME IInv, UNCHANGED vars
  PROVE  IInv'
<1>1. LedgerSound' /\ StruckOnce' /\ Pristine'
  BY DEF vars, IInv, LedgerSound, StruckOnce, FirstBad, Pristine, Anchored
<1>2. TaskSound'
  BY DEF vars, IInv, TaskSound, Witnessed
<1>3. RemoteSound'
  BY DEF vars, IInv, RemoteSound, ReceiptsWitnessed
<1> QED BY <1>1, <1>2, <1>3 DEF IInv

LEMMA StepInv ==
  ASSUME IInv, [Next]_vars
  PROVE  IInv'
<1>1. ASSUME NEW p \in Payload, AppendEvent(p) PROVE IInv'
  BY <1>1, AppendStep
<1>2. ASSUME Damage PROVE IInv'
  <2>1. PICK s \in DOMAIN rows :
          \/ LoseRow(s)
          \/ \E p \in Payload : EditPayload(s, p) \/ Rewrite(s, p)
          \/ \E t \in DOMAIN rows : Relink(s, t)
          \/ PutBack(s)
    BY <1>2 DEF Damage
  <2> QED BY <2>1, LoseStep, EditStep, RewriteStep, RelinkStep, PutBackStep
<1>3. ASSUME Submission PROVE IInv'
  BY <1>3, BeginCycleStep, ReadHighWaterStep, ReadRowsStep, ReadReceiptsStep, CompareAnchorStep,
     EvaluationDoneStep, PostStep, StoreReceiptStep, GiveUpStep DEF Submission
<1>4. ASSUME Service PROVE IInv'
  <2>1. PICK r \in net :
          \/ Sign(r) \/ Refuse(r) \/ Lose(r)
          \/ \E d \in Device : \E c \in DOMAIN cloud[d] : Misdirect(r, d, c)
    BY <1>4 DEF Service
  <2> QED BY <2>1, SignStep, RefuseStep, LoseAnswerStep, MisdirectStep
<1>5. ASSUME NEW d \in Device, Restart(d) PROVE IInv'
  BY <1>5, RestartStep
<1> QED BY <1>1, <1>2, <1>3, <1>4, <1>5, StutterStep DEF Next

LEMMA InvHolds == Spec => []IInv
<1>1. Init => IInv
  BY InitInv
<1>2. IInv /\ [Next]_vars => IInv'
  BY StepInv
<1> QED BY <1>1, <1>2, PTL DEF Spec

\* Every variable keeps its type: the tables, the locals of the submission
\* task, the requests in flight and the service's records; a cycle never
\* waits to compare a receipt that is not stored.
THEOREM TypeCorrect == Spec => []TypeOK
<1>1. IInv => TypeOK
  BY SoundIsTyped DEF IInv
<1> QED BY <1>1, InvHolds, PTL

\* A chain that verify_audit_chain finds valid is the one that was written,
\* after any number of lost, edited, relinked and rewritten rows and old
\* copies put back, and of appends between them.
THEOREM ValidChainIsUntouched == Spec => []ValidMeansUntouched
<1>1. IInv => ValidMeansUntouched
  BY ValidIsWritten DEF IInv
<1> QED BY <1>1, InvHolds, PTL

\* A single lost, edited or relinked row is reported at its seq and by its
\* kind, whatever has been appended since.
THEOREM SingleDamageIsNamed == Spec => []DamageNamed
<1>1. IInv => DamageNamed
  BY StruckIsNamed DEF IInv
<1> QED BY <1>1, InvHolds, PTL

\* evaluate_checkpoint_consistency puts a single change on the right side of
\* every receipt.
THEOREM SingleDamageIsLocated == Spec => []DamageLocated
<1>1. IInv => DamageLocated
  BY StruckIsNamed, NamedIsLocated DEF IInv
<1> QED BY <1>1, InvHolds, PTL

\* Without a change by other means no verification and no comparison of a
\* receipt ever raises an alarm, in whatever order the task's reads, the
\* appends, the answers and the restarts come.
THEOREM NoAlarmWithoutDamage == Spec => []NoFalseAlarm
<1>1. IInv => NoFalseAlarm
  BY DEF IInv, Pristine, NoFalseAlarm
<1> QED BY <1>1, InvHolds, PTL

\* A receipt that is judged Consistent vouches for every event up to its
\* head, after any number of changes by other means, complete rewrites of the
\* ledger included.
THEOREM ConsistentReceiptVouches == Spec => []AnchoredPrefixIntact
<1>1. IInv => AnchoredPrefixIntact
  BY ConsistentIsIntact DEF IInv
<1> QED BY <1>1, InvHolds, PTL

\* Every stored receipt is a checkpoint the service signed for one and the
\* same device, whatever answers were lost, late or someone else's.
THEOREM ReceiptsAreSigned == Spec => []ReceiptsWitnessed
<1>1. IInv => ReceiptsWitnessed
  BY DEF IInv, RemoteSound
<1> QED BY <1>1, InvHolds, PTL

=============================================================================
