-------------------------- MODULE IngestTurnstile --------------------------
(***************************************************************************)
(* The ingest socket of fornax-daemon (crates/fornax-daemon/src/main.rs).  *)
(*                                                                         *)
(* The accept loop takes an in-flight permit, accepts a connection, gives  *)
(* it the next ticket and spawns its task.  A task waits until next_turn   *)
(* reaches its ticket and drains its lines in that turn.  A connection     *)
(* that is still open when its drain budget runs out is handed off: it     *)
(* registers itself in pending_handoff, gives up the turn and goes on      *)
(* reading without any order.  A claim is evaluated against the evidence   *)
(* stored so far; while a handoff for its session, or one whose session    *)
(* is not known, is registered, a definite verdict is downgraded to        *)
(* Review, since evidence may still be on its way.                         *)
(*                                                                         *)
(* A line for session s stands for any message that names a session (an    *)
(* event, evidence, a capability announcement, a claim seen before): the   *)
(* turnstile only learns the session from it.  Lines that name none (a     *)
(* malformed line, a policy envelope) leave this state alone and are       *)
(* stuttering steps.  What a verifier concludes is left open.              *)
(***************************************************************************)
EXTENDS Naturals, FiniteSets

CONSTANTS
    Conn,           \* connections clients open during the run
    Caller,         \* concurrent HTTP requests to /api/reverify
    Session,        \* session ids
    Sends,          \* Sends[c]: the sessions connection c carries lines for
    MaxInflight,    \* MAX_INFLIGHT_CONNECTIONS
    NoSession,      \* no session known (session_hint = None)
    Nobody          \* the processing mutex is free

ASSUME ConnFinite == IsFiniteSet(Conn)
ASSUME SendsType == Sends \in [Conn -> SUBSET Session]
ASSUME MaxInflightType == MaxInflight \in Nat \ {0}
ASSUME Sentinels == NoSession \notin Session /\ Nobody \notin Conn
ASSUME CallersApart == Conn \cap Caller = {}

VARIABLES
    pc,                 \* where the task of each connection is
    ticket,             \* the ticket the accept loop gave it
    next_ticket,        \* AppState::next_ticket
    next_turn,          \* AppState::next_turn
    permits,            \* permits left in AppState::inflight
    acceptor,           \* the accept loop: waiting for a permit, or in accept()
    expired,            \* the connection's drain deadline has passed
    line,               \* session named by the line it has read and not yet
                        \* processed
    hint,               \* session_hint of the connection's reader
    token,              \* HandoffToken of a handed-off connection
    pending_sessions,   \* PendingHandoff::sessions (0: no entry)
    pending_unknown,    \* PendingHandoff::unknown
    processing,         \* holder of AppState::processing
    evaluating,         \* session of the claim an actor is evaluating
    incomplete,         \* evidence_may_be_incomplete, as that actor read it
    bound               \* bound[s]: the actors that persisted a definite
                        \* finding for session s (history)

turnVars == <<pc, ticket, next_ticket, next_turn, permits, acceptor, expired>>
handoffVars == <<line, hint, token, pending_sessions, pending_unknown>>
claimVars == <<processing, evaluating, incomplete, bound>>
vars == <<pc, ticket, next_ticket, next_turn, permits, acceptor, expired,
          line, hint, token, pending_sessions, pending_unknown,
          processing, evaluating, incomplete, bound>>

Actor == Conn \cup Caller
SessionOrNone == Session \cup {NoSession}

\* "backlog": in the OS listen queue, not accepted yet.
\* "registered": handed off and registered, the turn not yet given up.
Phase == {"backlog", "waiting", "draining", "registered", "handedoff", "done"}

Definite == {"Verified", "Contradicted"}
Verdict == Definite \cup {"NonCommittal"}

Live(c) == pc[c] \notin {"backlog", "done"}
HoldsTurn(c) == pc[c] \in {"draining", "registered"}
HandedOff(c) == pc[c] \in {"registered", "handedoff"}

\* The connections that hold a HandoffGuard with token t.
Holders(t) == {c \in Conn : HandedOff(c) /\ token[c] = t}

Init ==
    /\ pc = [c \in Conn |-> "backlog"]
    /\ ticket = [c \in Conn |-> 0]
    /\ next_ticket = 0
    /\ next_turn = 0
    /\ permits = MaxInflight
    /\ acceptor = "acquiring"
    /\ expired = [c \in Conn |-> FALSE]
    /\ line = [c \in Conn |-> NoSession]
    /\ hint = [c \in Conn |-> NoSession]
    /\ token = [c \in Conn |-> NoSession]
    /\ pending_sessions = [s \in Session |-> 0]
    /\ pending_unknown = 0
    /\ processing = Nobody
    /\ evaluating = [a \in Actor |-> NoSession]
    /\ incomplete = [a \in Actor |-> FALSE]
    /\ bound = [s \in Session |-> {}]

-----------------------------------------------------------------------------
(* The accept loop. *)

AcquirePermit ==
    /\ acceptor = "acquiring"
    /\ permits > 0
    /\ permits' = permits - 1
    /\ acceptor' = "accepting"
    /\ UNCHANGED <<pc, ticket, next_ticket, next_turn, expired,
                   handoffVars, claimVars>>

Accept(c) ==
    /\ acceptor = "accepting"
    /\ pc[c] = "backlog"
    /\ pc' = [pc EXCEPT ![c] = "waiting"]
    /\ ticket' = [ticket EXCEPT ![c] = next_ticket]
    /\ next_ticket' = next_ticket + 1
    /\ acceptor' = "acquiring"
    /\ UNCHANGED <<next_turn, permits, expired, handoffVars, claimVars>>

-----------------------------------------------------------------------------
(* One connection: its turn, its lines, its handoff. *)

\* The turn is taken as soon as it is not yet past, out of ticket order.
TakeTurnAnyOrder(c) ==
    /\ pc[c] = "waiting"
    /\ next_turn <= ticket[c]
    /\ pc' = [pc EXCEPT ![c] = "draining"]
    /\ UNCHANGED <<ticket, next_ticket, next_turn, permits, acceptor, expired,
                   handoffVars, claimVars>>

TakeTurn(c) ==
    /\ pc[c] = "waiting"
    /\ next_turn = ticket[c]
    /\ pc' = [pc EXCEPT ![c] = "draining"]
    /\ UNCHANGED <<ticket, next_ticket, next_turn, permits, acceptor, expired,
                   handoffVars, claimVars>>

\* The wall clock passes the deadline set when the turn began, whatever the
\* task is doing at that moment.
DrainBudgetExpires(c) ==
    /\ pc[c] = "draining"
    /\ ~expired[c]
    /\ expired' = [expired EXCEPT ![c] = TRUE]
    /\ UNCHANGED <<pc, ticket, next_ticket, next_turn, permits, acceptor,
                   handoffVars, claimVars>>

\* The task is between two lines.
Idle(c) == line[c] = NoSession /\ evaluating[c] = NoSession

\* next_line returns a line that names session s.
ReadLine(c, s) ==
    /\ Idle(c)
    /\ \/ pc[c] = "draining" /\ ~expired[c]
       \/ pc[c] = "handedoff"
    /\ s \in Sends[c]
    /\ line' = [line EXCEPT ![c] = s]
    /\ UNCHANGED <<turnVars, hint, token, pending_sessions, pending_unknown, claimVars>>

\* process_line on a line that starts no verification.  It waits for the
\* message lock, and its deadline may pass meanwhile.
SessionLine(c) ==
    /\ line[c] # NoSession
    /\ processing = Nobody
    /\ line' = [line EXCEPT ![c] = NoSession]
    /\ hint' = [hint EXCEPT ![c] = line[c]]
    /\ UNCHANGED <<turnVars, token, pending_sessions, pending_unknown, claimVars>>

\* The unknown sessions are forgotten.
IncompleteBySessionOnly(s) == pending_sessions[s] > 0

\* evidence_may_be_incomplete_for
EvidenceMayBeIncompleteFor(s) ==
    pending_unknown > 0 \/ pending_sessions[s] > 0

\* The line is a new claim: the message lock is taken and held until the
\* findings are persisted, and the handoff register is read first.
BeginClaim(c) ==
    /\ line[c] # NoSession
    /\ processing = Nobody
    /\ processing' = c
    /\ line' = [line EXCEPT ![c] = NoSession]
    /\ hint' = [hint EXCEPT ![c] = line[c]]
    /\ evaluating' = [evaluating EXCEPT ![c] = line[c]]
    /\ incomplete' = [incomplete EXCEPT ![c] = EvidenceMayBeIncompleteFor(line[c])]
    /\ UNCHANGED <<turnVars, token, pending_sessions, pending_unknown, bound>>

\* Contradicted is taken for non-committal.
DowngradeVerifiedOnly(a, verdict) ==
    IF incomplete[a] /\ verdict = "Verified" THEN "NonCommittal" ELSE verdict

\* The verdict that is persisted when a verifier concludes `verdict'.
Downgrade(a, verdict) ==
    IF incomplete[a] /\ verdict \in Definite THEN "NonCommittal" ELSE verdict

\* run_verifiers_and_persist_findings from the evidence read to the insert.
PersistFinding(a, verdict) ==
    /\ evaluating[a] # NoSession
    /\ bound' = IF Downgrade(a, verdict) \in Definite
                THEN [bound EXCEPT ![evaluating[a]] = @ \cup {a}]
                ELSE bound
    /\ evaluating' = [evaluating EXCEPT ![a] = NoSession]
    /\ incomplete' = [incomplete EXCEPT ![a] = FALSE]

FinishClaim(c, verdict) ==
    /\ PersistFinding(c, verdict)
    /\ processing' = Nobody
    /\ UNCHANGED <<turnVars, handoffVars>>

\* The permit is forgotten when the task ends.
KeepPermit == permits' = permits

\* Drop of the connection's OwnedSemaphorePermit when its task ends.
ReturnPermit == permits' = permits + 1

\* EOF or a read error inside the drain budget: the turn and the permit go.
DrainEnds(c) ==
    /\ pc[c] = "draining"
    /\ ~expired[c]
    /\ Idle(c)
    /\ pc' = [pc EXCEPT ![c] = "done"]
    /\ next_turn' = next_turn + 1
    /\ ReturnPermit
    /\ UNCHANGED <<ticket, next_ticket, acceptor, expired,
                   handoffVars, claimVars>>

\* HandoffGuard::register
Register(t) ==
    IF t = NoSession
    THEN /\ pending_unknown' = pending_unknown + 1
         /\ UNCHANGED pending_sessions
    ELSE /\ pending_sessions' = [pending_sessions EXCEPT ![t] = @ + 1]
         /\ UNCHANGED pending_unknown

\* Removing the entry at the first drop, as a set of sessions would.
ReleaseAsSet(t) ==
    IF t = NoSession
    THEN /\ pending_unknown' = pending_unknown - 1
         /\ UNCHANGED pending_sessions
    ELSE /\ pending_sessions' = [pending_sessions EXCEPT ![t] = 0]
         /\ UNCHANGED pending_unknown

\* Drop of HandoffGuard (saturating_sub)
Release(t) ==
    IF t = NoSession
    THEN /\ pending_unknown' = IF pending_unknown > 0 THEN pending_unknown - 1 ELSE 0
         /\ UNCHANGED pending_sessions
    ELSE /\ pending_sessions' =
                [pending_sessions EXCEPT ![t] = IF @ > 0 THEN @ - 1 ELSE 0]
         /\ UNCHANGED pending_unknown

\* The loop finds no budget left: the handoff is registered, under the
\* session the lines read so far named, before the turn is given up.
RegisterHandoff(c) ==
    /\ pc[c] = "draining"
    /\ expired[c]
    /\ Idle(c)
    /\ pc' = [pc EXCEPT ![c] = "registered"]
    /\ token' = [token EXCEPT ![c] = hint[c]]
    /\ Register(hint[c])
    /\ UNCHANGED <<ticket, next_ticket, next_turn, permits, acceptor, expired,
                   line, hint, claimVars>>

\* drop(guard) in handle_connection_in_turn
ReleaseTurn(c) ==
    /\ pc[c] = "registered"
    /\ pc' = [pc EXCEPT ![c] = "handedoff"]
    /\ next_turn' = next_turn + 1
    /\ UNCHANGED <<ticket, next_ticket, permits, acceptor, expired,
                   handoffVars, claimVars>>

\* continue_connection returns: EOF or a read error.
HandedOffEnds(c) ==
    /\ pc[c] = "handedoff"
    /\ Idle(c)
    /\ pc' = [pc EXCEPT ![c] = "done"]
    /\ ReturnPermit
    /\ Release(token[c])
    /\ UNCHANGED <<ticket, next_ticket, next_turn, acceptor, expired,
                   line, hint, token, claimVars>>

\* Without TurnGuard nothing advances the turn when the holder unwinds.
UnwindKeepsTurn(c) ==
    /\ UNCHANGED next_turn
    /\ IF pc[c] = "handedoff" THEN Release(token[c])
                              ELSE UNCHANGED <<pending_sessions, pending_unknown>>

\* Drop of the TurnGuard or of the HandoffGuard, whichever the task holds.
UnwindGuards(c) ==
    IF pc[c] = "handedoff"
    THEN Release(token[c]) /\ UNCHANGED next_turn
    ELSE next_turn' = next_turn + 1 /\ UNCHANGED <<pending_sessions, pending_unknown>>

\* The task panics while it evaluates a claim: unwinding drops the message
\* lock, the turn or the handoff registration, and the permit.
Panic(c) ==
    /\ Live(c)
    /\ evaluating[c] # NoSession
    /\ pc' = [pc EXCEPT ![c] = "done"]
    /\ ReturnPermit
    /\ UnwindGuards(c)
    /\ processing' = Nobody
    /\ evaluating' = [evaluating EXCEPT ![c] = NoSession]
    /\ incomplete' = [incomplete EXCEPT ![c] = FALSE]
    /\ UNCHANGED <<ticket, next_ticket, acceptor, expired, line, hint, token, bound>>

-----------------------------------------------------------------------------
(* POST /api/reverify: the same verification, outside the turnstile and    *)
(* without the processing mutex.                                           *)

BeginReverify(h, s) ==
    /\ evaluating[h] = NoSession
    /\ evaluating' = [evaluating EXCEPT ![h] = s]
    /\ incomplete' = [incomplete EXCEPT ![h] = EvidenceMayBeIncompleteFor(s)]
    /\ UNCHANGED <<turnVars, handoffVars, processing, bound>>

FinishReverify(h, verdict) ==
    /\ PersistFinding(h, verdict)
    /\ UNCHANGED <<turnVars, handoffVars, processing>>

-----------------------------------------------------------------------------
ConnStep(c) ==
    \/ Accept(c)
    \/ TakeTurn(c)
    \/ DrainBudgetExpires(c)
    \/ \E s \in Session : ReadLine(c, s)
    \/ SessionLine(c)
    \/ BeginClaim(c)
    \/ \E verdict \in Verdict : FinishClaim(c, verdict)
    \/ DrainEnds(c)
    \/ RegisterHandoff(c)
    \/ ReleaseTurn(c)
    \/ HandedOffEnds(c)
    \/ Panic(c)

CallerStep(h) ==
    \/ \E s \in Session : BeginReverify(h, s)
    \/ \E verdict \in Verdict : FinishReverify(h, verdict)

Next ==
    \/ AcquirePermit
    \/ \E c \in Conn : ConnStep(c)
    \/ \E h \in Caller : CallerStep(h)

\* What the daemon itself keeps doing.  The message lock is a fair queue, so a
\* task that waits for it gets it although others keep taking it.  Nothing is
\* assumed of the clients: they may stay silent or stay connected for ever.
ConnFairness(c) ==
    /\ WF_vars(TakeTurn(c))
    /\ WF_vars(DrainBudgetExpires(c))
    /\ SF_vars(SessionLine(c) \/ BeginClaim(c))
    /\ WF_vars(\E verdict \in Verdict : FinishClaim(c, verdict))
    /\ WF_vars(RegisterHandoff(c))
    /\ WF_vars(ReleaseTurn(c))

Spec == Init /\ [][Next]_vars
FairSpec == Spec /\ \A c \in Conn : ConnFairness(c)

-----------------------------------------------------------------------------
(* Properties *)

TypeOK ==
    /\ pc \in [Conn -> Phase]
    /\ ticket \in [Conn -> Nat]
    /\ next_ticket \in Nat
    /\ next_turn \in Nat
    /\ permits \in Nat
    /\ acceptor \in {"acquiring", "accepting"}
    /\ expired \in [Conn -> BOOLEAN]
    /\ line \in [Conn -> SessionOrNone]
    /\ hint \in [Conn -> SessionOrNone]
    /\ token \in [Conn -> SessionOrNone]
    /\ pending_sessions \in [Session -> Nat]
    /\ pending_unknown \in Nat
    /\ processing \in Conn \cup {Nobody}
    /\ evaluating \in [Actor -> SessionOrNone]
    /\ incomplete \in [Actor -> BOOLEAN]
    /\ bound \in [Session -> SUBSET Actor]

\* At most one connection is in its turn, and it is the one whose ticket is
\* being served (AppState::next_turn, TurnGuard).
TurnExclusive ==
    /\ \A c \in Conn : HoldsTurn(c) => ticket[c] = next_turn
    /\ \A c, d \in Conn : HoldsTurn(c) /\ HoldsTurn(d) => c = d

\* Every permit is in the semaphore, in the accept loop or with exactly one
\* live connection: none is lost on EOF, handoff or panic, so the cap on open
\* connections neither leaks away nor is exceeded (AppState::inflight).
PermitsAccounted ==
    permits + Cardinality({c \in Conn : Live(c)}) + (IF acceptor = "accepting" THEN 1 ELSE 0)
        = MaxInflight

\* The register counts exactly the handed-off connections that are still
\* open, per session and for the unknown ones (PendingHandoff, HandoffGuard).
RegisterMatchesHolders ==
    /\ \A s \in Session : pending_sessions[s] = Cardinality(Holders(s))
    /\ pending_unknown = Cardinality(Holders(NoSession))

\* Once a connection has persisted a definite finding for session s, every
\* connection accepted before it that carries s has closed: no evidence for s
\* from an earlier connection can still arrive and contradict the verdict
\* (the race that next_turn and pending_handoff exist to close).
DefiniteVerdictsFinal ==
    \A s \in Session : \A d \in bound[s] \cap Conn : \A c \in Conn :
        /\ pc[c] # "backlog"
        /\ ticket[c] < ticket[d]
        /\ s \in Sends[c]
        => pc[c] = "done"

\* Every connection carries lines of one session only.
OneSessionPerConnection ==
    \A c \in Conn : \A s, t \in Sends[c] : s = t

\* A connection never persists a definite finding for s while a handoff of s,
\* or one of an unknown session, is registered.
NoDefiniteDuringHandoff ==
    [][\A s \in Session :
         (bound'[s] \ bound[s]) \cap Conn # {}
            => pending_unknown = 0 /\ pending_sessions[s] = 0]_vars

\* Every accepted connection gets its turn, whatever the connections before
\* it do: stay silent, trickle lines, stay open for ever or panic.
TurnReached == \A c \in Conn : pc[c] = "waiting" ~> pc[c] = "draining"
=============================================================================
