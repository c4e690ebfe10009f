----------------------- MODULE IngestTurnstileProofs -----------------------
(***************************************************************************)
(* Proofs about IngestTurnstile, for every set of connections, callers and *)
(* sessions and every cap on open connections.                             *)
(*                                                                         *)
(* DefiniteVerdictsFinal rests on three layers: the order of the tickets   *)
(* (TurnOrder), the exact count of the open handed-off connections         *)
(* (RegisterMatchesHolders), and the fact that the answer a turn holder    *)
(* read from the register stays true until it persists its finding         *)
(* (FlagStaysTrue), because only the turn holder can register a handoff.   *)
(***************************************************************************)
EXTENDS IngestTurnstile, FiniteSetTheorems, TLAPS

\* Tickets are distinct and issued in order; a connection waits while its
\* ticket lies ahead of next_turn and has left the turn once it lies behind.
TurnOrder ==
    /\ next_turn <= next_ticket
    /\ \A c \in Conn : pc[c] # "backlog" => ticket[c] < next_ticket
    /\ \A c, d \in Conn :
         pc[c] # "backlog" /\ pc[d] # "backlog" /\ ticket[c] = ticket[d] => c = d
    /\ \A c \in Conn : pc[c] = "waiting" => next_turn <= ticket[c]
    /\ \A c \in Conn : HoldsTurn(c) => ticket[c] = next_turn
    /\ \A c \in Conn : pc[c] \in {"handedoff", "done"} => ticket[c] < next_turn

\* A connection that evaluates a claim holds the message lock, has no other
\* line in hand and is in a phase that reads lines.
EvaluatorHoldsLock ==
    \A c \in Conn :
        evaluating[c] # NoSession
          => /\ processing = c
             /\ line[c] = NoSession
             /\ pc[c] \in {"draining", "handedoff"}

\* A line in hand waits in a phase that reads lines.
LineInHand ==
    \A c \in Conn : line[c] # NoSession => pc[c] \in {"draining", "handedoff"}

\* Hints, tokens and claims only name sessions the connection carries.
NamesOwnSession ==
    \A c \in Conn : /\ hint[c] \in Sends[c] \cup {NoSession}
                    /\ token[c] \in Sends[c] \cup {NoSession}
                    /\ line[c] \in Sends[c] \cup {NoSession}
                    /\ evaluating[c] \in Sends[c] \cup {NoSession}

\* What a turn holder read in the register still holds, and a handed-off
\* connection always reads its own registration.
FlagStaysTrue ==
    \A c \in Conn : evaluating[c] # NoSession =>
        /\ pc[c] = "draining" /\ ~incomplete[c]
             => ~EvidenceMayBeIncompleteFor(evaluating[c])
        /\ pc[c] = "handedoff" => incomplete[c]

BoundAccepted ==
    \A s \in Session : \A d \in bound[s] \cap Conn : pc[d] # "backlog"

TurnInv == TypeOK /\ TurnOrder /\ LineInHand /\ EvaluatorHoldsLock
RegisterInv == TurnInv /\ RegisterMatchesHolders
VerdictInv == /\ RegisterInv
              /\ NamesOwnSession
              /\ FlagStaysTrue
              /\ BoundAccepted
              /\ DefiniteVerdictsFinal

-----------------------------------------------------------------------------
(* Type correctness *)

USE DEF SessionOrNone, Actor, Phase, Definite, Verdict

\* The initial state has the declared types.
LEMMA InitType == Init => TypeOK
<1> SUFFICES ASSUME Init
             PROVE  TypeOK
  OBVIOUS
<1>1. permits \in Nat
  BY MaxInflightType DEF Init
<1>2. expired \in [Conn -> BOOLEAN] /\ incomplete \in [Actor -> BOOLEAN]
  BY DEF Init
<1> QED
  BY <1>1, <1>2 DEF Init, TypeOK

\* Every step keeps the types of the state.
LEMMA StepType == TypeOK /\ [Next]_vars => TypeOK'
<1> SUFFICES ASSUME TypeOK, [Next]_vars
             PROVE  TypeOK'
  OBVIOUS
<1> USE Sentinels, SendsType DEF TypeOK
<1>1. CASE AcquirePermit
  BY <1>1 DEF AcquirePermit, handoffVars, claimVars
<1>2. CASE \E c \in Conn : ConnStep(c)
  <2> SUFFICES ASSUME NEW c \in Conn, ConnStep(c)
               PROVE  TypeOK'
    BY <1>2
  <2>1. CASE Accept(c)
    BY <2>1 DEF Accept, handoffVars, claimVars
  <2>2. CASE TakeTurn(c)
    BY <2>2 DEF TakeTurn, handoffVars, claimVars
  <2>3. CASE DrainBudgetExpires(c)
    BY <2>3 DEF DrainBudgetExpires, handoffVars, claimVars
  <2>12. ASSUME NEW s \in Session, ReadLine(c, s)
         PROVE  TypeOK'
    BY <2>12 DEF ReadLine, Idle, turnVars, claimVars
  <2>4. CASE SessionLine(c)
    BY <2>4 DEF SessionLine, turnVars, claimVars
  <2>5. CASE BeginClaim(c)
    <3>1. EvidenceMayBeIncompleteFor(line[c]) \in BOOLEAN
      BY DEF EvidenceMayBeIncompleteFor
    <3> QED
      BY <2>5, <3>1 DEF BeginClaim, turnVars
  <2>6. ASSUME NEW verdict \in Verdict, FinishClaim(c, verdict)
        PROVE  TypeOK'
    BY <2>6 DEF FinishClaim, PersistFinding, turnVars, handoffVars
  <2>7. CASE DrainEnds(c)
    BY <2>7 DEF DrainEnds, Idle, ReturnPermit, handoffVars, claimVars
  <2>8. CASE RegisterHandoff(c)
    BY <2>8 DEF RegisterHandoff, Idle, Register, claimVars
  <2>9. CASE ReleaseTurn(c)
    BY <2>9 DEF ReleaseTurn, handoffVars, claimVars
  <2>10. CASE HandedOffEnds(c)
    BY <2>10 DEF HandedOffEnds, Idle, ReturnPermit, Release, claimVars
  <2>11. CASE Panic(c)
    BY <2>11 DEF Panic, ReturnPermit, UnwindGuards, Release
  <2> QED
    BY <2>1, <2>2, <2>3, <2>12, <2>4, <2>5, <2>6, <2>7, <2>8, <2>9, <2>10, <2>11
       DEF ConnStep
<1>3. CASE \E h \in Caller : CallerStep(h)
  <2> SUFFICES ASSUME NEW h \in Caller, CallerStep(h)
               PROVE  TypeOK'
    BY <1>3
  <2>1. ASSUME NEW s \in Session, BeginReverify(h, s)
        PROVE  TypeOK'
    <3>1. EvidenceMayBeIncompleteFor(s) \in BOOLEAN
      BY DEF EvidenceMayBeIncompleteFor
    <3> QED
      BY <2>1, <3>1 DEF BeginReverify, turnVars, handoffVars
  <2>2. ASSUME NEW verdict \in Verdict, FinishReverify(h, verdict)
        PROVE  TypeOK'
    BY <2>2 DEF FinishReverify, PersistFinding, turnVars, handoffVars
  <2> QED
    BY <2>1, <2>2 DEF CallerStep
<1>4. CASE UNCHANGED vars
  BY <1>4 DEF vars
<1> QED
  BY <1>1, <1>2, <1>3, <1>4 DEF Next

\* The state of the turnstile always has its declared types.
THEOREM TypeCorrect == Spec => []TypeOK
  BY InitType, StepType, PTL DEF Spec

-----------------------------------------------------------------------------
(* The order of the turns *)

\* Every step keeps the ticket order.
LEMMA StepTurnOrder == TurnInv /\ [Next]_vars => TurnOrder' /\ LineInHand' /\ EvaluatorHoldsLock'
<1> SUFFICES ASSUME TurnInv, [Next]_vars
             PROVE  TurnOrder' /\ LineInHand' /\ EvaluatorHoldsLock'
  OBVIOUS
<1> USE Sentinels, CallersApart DEF TurnInv, TypeOK, TurnOrder, HoldsTurn, LineInHand, EvaluatorHoldsLock
<1>1. CASE AcquirePermit
  BY <1>1 DEF AcquirePermit, handoffVars, claimVars
<1>2. CASE \E c \in Conn : ConnStep(c)
  <2> SUFFICES ASSUME NEW c \in Conn, ConnStep(c)
               PROVE  TurnOrder' /\ LineInHand' /\ EvaluatorHoldsLock'
    BY <1>2
  <2>1. CASE Accept(c)
    BY <2>1 DEF Accept, handoffVars, claimVars
  <2>2. CASE TakeTurn(c)
    BY <2>2 DEF TakeTurn, handoffVars, claimVars
  <2>3. CASE DrainBudgetExpires(c)
    BY <2>3 DEF DrainBudgetExpires, handoffVars, claimVars
  <2>12. ASSUME NEW s \in Session, ReadLine(c, s)
         PROVE  TurnOrder' /\ LineInHand' /\ EvaluatorHoldsLock'
    BY <2>12 DEF ReadLine, Idle, turnVars, claimVars
  <2>4. CASE SessionLine(c)
    BY <2>4 DEF SessionLine, turnVars, claimVars
  <2>5. CASE BeginClaim(c)
    BY <2>5 DEF BeginClaim, turnVars
  <2>6. ASSUME NEW verdict \in Verdict, FinishClaim(c, verdict)
        PROVE  TurnOrder' /\ LineInHand' /\ EvaluatorHoldsLock'
    BY <2>6 DEF FinishClaim, PersistFinding, turnVars, handoffVars
  <2>7. CASE DrainEnds(c)
    BY <2>7 DEF DrainEnds, Idle, ReturnPermit, handoffVars, claimVars
  <2>8. CASE RegisterHandoff(c)
    BY <2>8 DEF RegisterHandoff, Idle, Register, claimVars
  <2>9. CASE ReleaseTurn(c)
    BY <2>9 DEF ReleaseTurn, handoffVars, claimVars
  <2>10. CASE HandedOffEnds(c)
    BY <2>10 DEF HandedOffEnds, Idle, ReturnPermit, Release, claimVars
  <2>11. CASE Panic(c)
    BY <2>11 DEF Panic, ReturnPermit, UnwindGuards, Release
  <2> QED
    BY <2>1, <2>2, <2>3, <2>12, <2>4, <2>5, <2>6, <2>7, <2>8, <2>9, <2>10, <2>11
       DEF ConnStep
<1>3. CASE \E h \in Caller : CallerStep(h)
  <2> SUFFICES ASSUME NEW h \in Caller, CallerStep(h)
               PROVE  TurnOrder' /\ LineInHand' /\ EvaluatorHoldsLock'
    BY <1>3
  <2>1. ASSUME NEW s \in Session, BeginReverify(h, s)
        PROVE  TurnOrder' /\ LineInHand' /\ EvaluatorHoldsLock'
    BY <2>1 DEF BeginReverify, turnVars, handoffVars
  <2>2. ASSUME NEW verdict \in Verdict, FinishReverify(h, verdict)
        PROVE  TurnOrder' /\ LineInHand' /\ EvaluatorHoldsLock'
    BY <2>2 DEF FinishReverify, PersistFinding, turnVars, handoffVars
  <2> QED
    BY <2>1, <2>2 DEF CallerStep
<1>4. CASE UNCHANGED vars
  BY <1>4 DEF vars
<1> QED
  BY <1>1, <1>2, <1>3, <1>4 DEF Next

\* The order of the turns is an invariant.
LEMMA TurnInvariant == Spec => []TurnInv
<1>1. Init => TurnInv
  BY InitType DEF Init, TurnInv, TurnOrder, HoldsTurn, LineInHand, EvaluatorHoldsLock
<1>2. TurnInv /\ [Next]_vars => TurnInv'
  BY StepType, StepTurnOrder DEF TurnInv
<1> QED
  BY <1>1, <1>2, PTL DEF Spec

\* At any time at most one connection is in its turn, the one whose ticket
\* next_turn shows: lines enter handle_message in accept order.
THEOREM TurnsAreExclusive == Spec => []TurnExclusive
<1>1. TurnInv => TurnExclusive
  BY DEF TurnInv, TurnOrder, TurnExclusive, HoldsTurn
<1> QED
  BY <1>1, TurnInvariant, PTL

-----------------------------------------------------------------------------
(* The handoff register *)

\* The handed-off connections that carry a token form a finite set.
LEMMA HoldersFinite ==
  ASSUME NEW t
  PROVE  IsFiniteSet(Holders(t)) /\ Cardinality(Holders(t)) \in Nat
  BY ConnFinite, FS_Subset, FS_CardinalityType DEF Holders

\* A step that hands no connection off and ends no handed-off one leaves
\* every set of holders as it is.
LEMMA SameHolders ==
  ASSUME \A c \in Conn : HandedOff(c)' <=> HandedOff(c),
         token' = token
  PROVE  \A t : Holders(t)' = Holders(t)
  BY DEF Holders

\* One more holder adds one to the count.
LEMMA HolderJoins ==
  ASSUME TypeOK, NEW c \in Conn, NEW t, ~HandedOff(c),
         pc' = [pc EXCEPT ![c] = "registered"],
         token' = [token EXCEPT ![c] = t]
  PROVE  /\ Cardinality(Holders(t))' = Cardinality(Holders(t)) + 1
         /\ \A u \in SessionOrNone \ {t} : Holders(u)' = Holders(u)
<1>1. Holders(t)' = Holders(t) \cup {c} /\ c \notin Holders(t)
  BY DEF TypeOK, Holders, HandedOff
<1>2. \A u \in SessionOrNone \ {t} : Holders(u)' = Holders(u)
  BY DEF TypeOK, Holders, HandedOff
<1> QED
  BY <1>1, <1>2, HoldersFinite, FS_AddElement

\* One holder less takes one from the count.
LEMMA HolderLeaves ==
  ASSUME TypeOK, NEW c \in Conn, pc[c] = "handedoff",
         pc' = [pc EXCEPT ![c] = "done"],
         token' = token
  PROVE  /\ Cardinality(Holders(token[c]))' = Cardinality(Holders(token[c])) - 1
         /\ Cardinality(Holders(token[c])) > 0
         /\ \A u \in SessionOrNone \ {token[c]} : Holders(u)' = Holders(u)
<1>1. /\ Holders(token[c])' = Holders(token[c]) \ {c}
      /\ c \in Holders(token[c])
  BY DEF TypeOK, Holders, HandedOff
<1>2. \A u \in SessionOrNone \ {token[c]} : Holders(u)' = Holders(u)
  BY DEF TypeOK, Holders, HandedOff
<1>3. Cardinality(Holders(token[c])) # 0
  BY <1>1, HoldersFinite, FS_EmptySet
<1>4. Cardinality(Holders(token[c]) \ {c}) = Cardinality(Holders(token[c])) - 1
  BY <1>1, HoldersFinite, FS_RemoveElement
<1>5. Cardinality(Holders(token[c])) \in Nat
  BY HoldersFinite
<1> QED
  BY <1>1, <1>2, <1>3, <1>4, <1>5

\* Every step keeps the register equal to the open handed-off connections.
LEMMA StepRegister == RegisterInv /\ [Next]_vars => RegisterMatchesHolders'
<1> SUFFICES ASSUME RegisterInv, [Next]_vars
             PROVE  RegisterMatchesHolders'
  OBVIOUS
<1> USE Sentinels DEF RegisterInv, TurnInv, TypeOK, RegisterMatchesHolders
<1>1. CASE AcquirePermit
  BY <1>1, SameHolders DEF AcquirePermit, handoffVars, claimVars, HandedOff
<1>2. CASE \E c \in Conn : ConnStep(c)
  <2> SUFFICES ASSUME NEW c \in Conn, ConnStep(c)
               PROVE  RegisterMatchesHolders'
    BY <1>2
  <2>1. CASE Accept(c)
    BY <2>1, SameHolders DEF Accept, handoffVars, claimVars, HandedOff
  <2>2. CASE TakeTurn(c)
    BY <2>2, SameHolders DEF TakeTurn, handoffVars, claimVars, HandedOff
  <2>3. CASE DrainBudgetExpires(c)
    BY <2>3, SameHolders DEF DrainBudgetExpires, handoffVars, claimVars, HandedOff
  <2>12. ASSUME NEW s \in Session, ReadLine(c, s)
         PROVE  RegisterMatchesHolders'
    BY <2>12, SameHolders DEF ReadLine, Idle, turnVars, claimVars, HandedOff
  <2>4. CASE SessionLine(c)
    BY <2>4, SameHolders DEF SessionLine, turnVars, claimVars, HandedOff
  <2>5. CASE BeginClaim(c)
    BY <2>5, SameHolders DEF BeginClaim, turnVars, HandedOff
  <2>6. ASSUME NEW verdict \in Verdict, FinishClaim(c, verdict)
        PROVE  RegisterMatchesHolders'
    BY <2>6, SameHolders DEF FinishClaim, turnVars, handoffVars, HandedOff
  <2>7. CASE DrainEnds(c)
    BY <2>7, SameHolders DEF DrainEnds, Idle, ReturnPermit, handoffVars, claimVars, HandedOff
  <2>8. CASE RegisterHandoff(c)
    <3>1. /\ Cardinality(Holders(hint[c]))' = Cardinality(Holders(hint[c])) + 1
          /\ \A u \in SessionOrNone \ {hint[c]} : Holders(u)' = Holders(u)
      BY <2>8, HolderJoins DEF RegisterHandoff, Idle, HandedOff
    <3>2. hint[c] \in SessionOrNone
      OBVIOUS
    <3> QED
      BY <2>8, <3>1, <3>2 DEF RegisterHandoff, Idle, Register
  <2>9. CASE ReleaseTurn(c)
    BY <2>9, SameHolders DEF ReleaseTurn, handoffVars, claimVars, HandedOff
  <2>10. CASE HandedOffEnds(c)
    <3>1. /\ Cardinality(Holders(token[c]))' = Cardinality(Holders(token[c])) - 1
          /\ Cardinality(Holders(token[c])) > 0
          /\ \A u \in SessionOrNone \ {token[c]} : Holders(u)' = Holders(u)
      BY <2>10, HolderLeaves DEF HandedOffEnds, Idle, ReturnPermit
    <3>2. token[c] \in SessionOrNone
      OBVIOUS
    <3> QED
      BY <2>10, <3>1, <3>2 DEF HandedOffEnds, Idle, ReturnPermit, Release
  <2>11. CASE Panic(c)
    <3>1. CASE pc[c] = "handedoff"
      <4>1. /\ Cardinality(Holders(token[c]))' = Cardinality(Holders(token[c])) - 1
            /\ Cardinality(Holders(token[c])) > 0
            /\ \A u \in SessionOrNone \ {token[c]} : Holders(u)' = Holders(u)
        BY <2>11, <3>1, HolderLeaves DEF Panic, ReturnPermit, UnwindGuards
      <4>2. token[c] \in SessionOrNone
        OBVIOUS
      <4> QED
        BY <2>11, <3>1, <4>1, <4>2 DEF Panic, ReturnPermit, UnwindGuards, Release
    <3>2. CASE pc[c] = "draining"
      BY <2>11, <3>2, SameHolders DEF Panic, ReturnPermit, UnwindGuards, HandedOff
    <3> QED
      BY <2>11, <3>1, <3>2 DEF Panic, ReturnPermit, UnwindGuards, TurnInv, EvaluatorHoldsLock
  <2> QED
    BY <2>1, <2>2, <2>3, <2>12, <2>4, <2>5, <2>6, <2>7, <2>8, <2>9, <2>10, <2>11
       DEF ConnStep
<1>3. CASE \E h \in Caller : CallerStep(h)
  <2> SUFFICES ASSUME NEW h \in Caller, CallerStep(h)
               PROVE  RegisterMatchesHolders'
    BY <1>3
  <2>1. ASSUME NEW s \in Session, BeginReverify(h, s)
        PROVE  RegisterMatchesHolders'
    BY <2>1, SameHolders DEF BeginReverify, turnVars, handoffVars, HandedOff
  <2>2. ASSUME NEW verdict \in Verdict, FinishReverify(h, verdict)
        PROVE  RegisterMatchesHolders'
    BY <2>2, SameHolders DEF FinishReverify, turnVars, handoffVars, HandedOff
  <2> QED
    BY <2>1, <2>2 DEF CallerStep
<1>4. CASE UNCHANGED vars
  BY <1>4, SameHolders DEF vars, HandedOff
<1> QED
  BY <1>1, <1>2, <1>3, <1>4 DEF Next

\* The register is exact at the start.
LEMMA RegisterInit == Init => RegisterInv
<1>1. Init => RegisterMatchesHolders
  <2> SUFFICES ASSUME Init PROVE RegisterMatchesHolders
    OBVIOUS
  <2>1. \A t : Holders(t) = {}
    BY DEF Init, Holders, HandedOff
  <2> QED
    BY <2>1, FS_EmptySet DEF Init, RegisterMatchesHolders
<1> QED
  BY <1>1, InitType DEF Init, RegisterInv, TurnInv, TurnOrder, HoldsTurn, LineInHand, EvaluatorHoldsLock

\* The register is exact in every reachable state.
LEMMA RegisterInvariant == Spec => []RegisterInv
<1>1. RegisterInv /\ [Next]_vars => RegisterInv'
  BY StepType, StepTurnOrder, StepRegister DEF RegisterInv, TurnInv
<1> QED
  BY <1>1, RegisterInit, PTL DEF Spec

\* pending_handoff counts exactly the handed-off connections still open, per
\* session and for unknown sessions, across EOF, errors and panics: a count
\* is never dropped while another connection of the session is open.
THEOREM RegisterIsExact == Spec => []RegisterMatchesHolders
  BY RegisterInvariant, PTL DEF RegisterInv

-----------------------------------------------------------------------------
(* Definite verdicts are final *)

ClaimInv == RegisterInv /\ NamesOwnSession /\ FlagStaysTrue

\* An open handed-off connection that carries s keeps the register saying that
\* evidence for s may be incomplete.
LEMMA HolderCounts ==
  ASSUME OneSessionPerConnection, RegisterInv, NamesOwnSession,
         NEW c \in Conn, HandedOff(c), NEW s \in Sends[c]
  PROVE  EvidenceMayBeIncompleteFor(s)
<1>1. token[c] \in {s, NoSession} /\ s \in Session
  BY SendsType DEF OneSessionPerConnection, NamesOwnSession
<1>2. Holders(token[c]) # {}
  BY DEF Holders
<1>3. Cardinality(Holders(token[c])) # 0 /\ Cardinality(Holders(token[c])) \in Nat
  BY <1>2, HoldersFinite, FS_EmptySet
<1>4. CASE token[c] = NoSession
  BY <1>3, <1>4 DEF RegisterInv, RegisterMatchesHolders, EvidenceMayBeIncompleteFor
<1>5. CASE token[c] = s
  BY <1>1, <1>3, <1>5 DEF RegisterInv, RegisterMatchesHolders, EvidenceMayBeIncompleteFor
<1> QED
  BY <1>1, <1>4, <1>5

\* Every step keeps the names a connection uses to its own sessions.
LEMMA StepNames == ClaimInv /\ [Next]_vars => NamesOwnSession'
<1> SUFFICES ASSUME ClaimInv, [Next]_vars
             PROVE  NamesOwnSession'
  OBVIOUS
<1> USE Sentinels, CallersApart
    DEF ClaimInv, RegisterInv, TurnInv, TypeOK, NamesOwnSession
<1>1. CASE AcquirePermit
  BY <1>1 DEF AcquirePermit, handoffVars, claimVars
<1>2. CASE \E c \in Conn : ConnStep(c)
  <2> SUFFICES ASSUME NEW c \in Conn, ConnStep(c)
               PROVE  NamesOwnSession'
    BY <1>2
  <2>1. CASE Accept(c)
    BY <2>1 DEF Accept, handoffVars, claimVars
  <2>2. CASE TakeTurn(c)
    BY <2>2 DEF TakeTurn, handoffVars, claimVars
  <2>3. CASE DrainBudgetExpires(c)
    BY <2>3 DEF DrainBudgetExpires, handoffVars, claimVars
  <2>12. ASSUME NEW s \in Session, ReadLine(c, s)
         PROVE  NamesOwnSession'
    BY <2>12 DEF ReadLine, Idle, turnVars, claimVars
  <2>4. CASE SessionLine(c)
    BY <2>4 DEF SessionLine, turnVars, claimVars
  <2>5. CASE BeginClaim(c)
    BY <2>5 DEF BeginClaim, turnVars
  <2>6. ASSUME NEW verdict \in Verdict, FinishClaim(c, verdict)
        PROVE  NamesOwnSession'
    BY <2>6 DEF FinishClaim, PersistFinding, turnVars, handoffVars
  <2>7. CASE DrainEnds(c)
    BY <2>7 DEF DrainEnds, Idle, ReturnPermit, handoffVars, claimVars
  <2>8. CASE RegisterHandoff(c)
    BY <2>8 DEF RegisterHandoff, Idle, Register, claimVars
  <2>9. CASE ReleaseTurn(c)
    BY <2>9 DEF ReleaseTurn, handoffVars, claimVars
  <2>10. CASE HandedOffEnds(c)
    BY <2>10 DEF HandedOffEnds, Idle, ReturnPermit, Release, claimVars
  <2>11. CASE Panic(c)
    BY <2>11 DEF Panic, ReturnPermit, UnwindGuards, Release
  <2> QED
    BY <2>1, <2>2, <2>3, <2>12, <2>4, <2>5, <2>6, <2>7, <2>8, <2>9, <2>10, <2>11
       DEF ConnStep
<1>3. CASE \E h \in Caller : CallerStep(h)
  <2> SUFFICES ASSUME NEW h \in Caller, CallerStep(h)
               PROVE  NamesOwnSession'
    BY <1>3
  <2>1. ASSUME NEW s \in Session, BeginReverify(h, s)
        PROVE  NamesOwnSession'
    BY <2>1 DEF BeginReverify, turnVars, handoffVars
  <2>2. ASSUME NEW verdict \in Verdict, FinishReverify(h, verdict)
        PROVE  NamesOwnSession'
    BY <2>2 DEF FinishReverify, PersistFinding, turnVars, handoffVars
  <2> QED
    BY <2>1, <2>2 DEF CallerStep
<1>4. CASE UNCHANGED vars
  BY <1>4 DEF vars
<1> QED
  BY <1>1, <1>2, <1>3, <1>4 DEF Next

\* What a turn holder read in the register stays true until it persists its
\* finding, and a handed-off connection always finds itself there.
LEMMA StepFlag ==
  ASSUME OneSessionPerConnection
  PROVE  ClaimInv /\ [Next]_vars => FlagStaysTrue'
<1> SUFFICES ASSUME ClaimInv, [Next]_vars
             PROVE  FlagStaysTrue'
  OBVIOUS
<1> USE Sentinels, CallersApart
    DEF ClaimInv, RegisterInv, TurnInv, TypeOK, TurnOrder, HoldsTurn,
        LineInHand, EvaluatorHoldsLock, FlagStaysTrue
<1>1. CASE AcquirePermit
  BY <1>1 DEF AcquirePermit, handoffVars, claimVars, EvidenceMayBeIncompleteFor
<1>2. CASE \E c \in Conn : ConnStep(c)
  <2> SUFFICES ASSUME NEW c \in Conn, ConnStep(c)
               PROVE  FlagStaysTrue'
    BY <1>2
  <2>1. CASE Accept(c)
    BY <2>1 DEF Accept, handoffVars, claimVars, EvidenceMayBeIncompleteFor
  <2>2. CASE TakeTurn(c)
    BY <2>2 DEF TakeTurn, handoffVars, claimVars, EvidenceMayBeIncompleteFor
  <2>3. CASE DrainBudgetExpires(c)
    BY <2>3 DEF DrainBudgetExpires, handoffVars, claimVars, EvidenceMayBeIncompleteFor
  <2>12. ASSUME NEW s \in Session, ReadLine(c, s)
         PROVE  FlagStaysTrue'
    BY <2>12 DEF ReadLine, Idle, turnVars, claimVars, EvidenceMayBeIncompleteFor
  <2>4. CASE SessionLine(c)
    BY <2>4 DEF SessionLine, turnVars, claimVars, EvidenceMayBeIncompleteFor
  <2>5. CASE BeginClaim(c)
    <3>1. CASE pc[c] = "handedoff"
      <4>1. EvidenceMayBeIncompleteFor(line[c])
        BY <2>5, <3>1, HolderCounts DEF BeginClaim, HandedOff, NamesOwnSession
      <4> QED
        BY <2>5, <3>1, <4>1 DEF BeginClaim, turnVars
    <3>2. CASE pc[c] = "draining"
      BY <2>5, <3>2 DEF BeginClaim, turnVars, EvidenceMayBeIncompleteFor
    <3> QED
      BY <2>5, <3>1, <3>2 DEF BeginClaim
  <2>6. ASSUME NEW verdict \in Verdict, FinishClaim(c, verdict)
        PROVE  FlagStaysTrue'
    BY <2>6 DEF FinishClaim, PersistFinding, turnVars, handoffVars, EvidenceMayBeIncompleteFor
  <2>7. CASE DrainEnds(c)
    BY <2>7 DEF DrainEnds, Idle, ReturnPermit, handoffVars, claimVars, EvidenceMayBeIncompleteFor
  <2>8. CASE RegisterHandoff(c)
    BY <2>8 DEF RegisterHandoff, Idle, Register, claimVars, EvidenceMayBeIncompleteFor
  <2>9. CASE ReleaseTurn(c)
    BY <2>9 DEF ReleaseTurn, handoffVars, claimVars, EvidenceMayBeIncompleteFor
  <2>10. CASE HandedOffEnds(c)
    BY <2>10 DEF HandedOffEnds, Idle, ReturnPermit, Release, claimVars, EvidenceMayBeIncompleteFor
  <2>11. CASE Panic(c)
    BY <2>11 DEF Panic, ReturnPermit, UnwindGuards, Release, EvidenceMayBeIncompleteFor
  <2> QED
    BY <2>1, <2>2, <2>3, <2>12, <2>4, <2>5, <2>6, <2>7, <2>8, <2>9, <2>10, <2>11
       DEF ConnStep
<1>3. CASE \E h \in Caller : CallerStep(h)
  <2> SUFFICES ASSUME NEW h \in Caller, CallerStep(h)
               PROVE  FlagStaysTrue'
    BY <1>3
  <2>1. ASSUME NEW s \in Session, BeginReverify(h, s)
        PROVE  FlagStaysTrue'
    BY <2>1 DEF BeginReverify, turnVars, handoffVars, EvidenceMayBeIncompleteFor
  <2>2. ASSUME NEW verdict \in Verdict, FinishReverify(h, verdict)
        PROVE  FlagStaysTrue'
    BY <2>2 DEF FinishReverify, PersistFinding, turnVars, handoffVars, EvidenceMayBeIncompleteFor
  <2> QED
    BY <2>1, <2>2 DEF CallerStep
<1>4. CASE UNCHANGED vars
  BY <1>4 DEF vars, EvidenceMayBeIncompleteFor
<1> QED
  BY <1>1, <1>2, <1>3, <1>4 DEF Next

\* Every step keeps the stored verdicts and the read flags sound.
LEMMA StepVerdict ==
  ASSUME OneSessionPerConnection
  PROVE  VerdictInv /\ [Next]_vars => BoundAccepted' /\ DefiniteVerdictsFinal'
<1> SUFFICES ASSUME VerdictInv, [Next]_vars
             PROVE  BoundAccepted' /\ DefiniteVerdictsFinal'
  OBVIOUS
<1> USE Sentinels, CallersApart, SendsType
    DEF VerdictInv, ClaimInv, RegisterInv, TurnInv, TypeOK, BoundAccepted,
        DefiniteVerdictsFinal
<1>1. CASE AcquirePermit
  BY <1>1 DEF AcquirePermit, handoffVars, claimVars
<1>2. CASE \E c \in Conn : ConnStep(c)
  <2> SUFFICES ASSUME NEW c \in Conn, ConnStep(c)
               PROVE  BoundAccepted' /\ DefiniteVerdictsFinal'
    BY <1>2
  <2>1. CASE Accept(c)
    BY <2>1 DEF Accept, handoffVars, claimVars, TurnOrder
  <2>2. CASE TakeTurn(c)
    BY <2>2 DEF TakeTurn, handoffVars, claimVars
  <2>3. CASE DrainBudgetExpires(c)
    BY <2>3 DEF DrainBudgetExpires, handoffVars, claimVars
  <2>12. ASSUME NEW s \in Session, ReadLine(c, s)
         PROVE  BoundAccepted' /\ DefiniteVerdictsFinal'
    BY <2>12 DEF ReadLine, Idle, turnVars, claimVars
  <2>4. CASE SessionLine(c)
    BY <2>4 DEF SessionLine, turnVars, claimVars
  <2>5. CASE BeginClaim(c)
    BY <2>5 DEF BeginClaim, turnVars
  <2>6. ASSUME NEW verdict \in Verdict, FinishClaim(c, verdict)
        PROVE  BoundAccepted' /\ DefiniteVerdictsFinal'
    <3>1. CASE bound' = bound
      BY <2>6, <3>1 DEF FinishClaim, turnVars
    <3>2. CASE bound' # bound
      <4> DEFINE s == evaluating[c]
      <4>1. /\ s \in Session
            /\ bound' = [bound EXCEPT ![s] = bound[s] \cup {c}]
            /\ ~incomplete[c]
        BY <2>6, <3>2 DEF FinishClaim, PersistFinding, Downgrade
      <4>2. pc[c] = "draining" /\ ~EvidenceMayBeIncompleteFor(s)
        BY <4>1 DEF EvaluatorHoldsLock, FlagStaysTrue
      <4>3. ASSUME NEW d \in Conn, pc[d] # "backlog", ticket[d] < ticket[c],
                   s \in Sends[d]
            PROVE  pc[d] = "done"
        <5>1. pc[d] \in {"handedoff", "done"}
          BY <4>2, <4>3 DEF TurnOrder, HoldsTurn
        <5>2. pc[d] # "handedoff"
          BY <4>1, <4>2, <4>3, HolderCounts DEF HandedOff
        <5> QED
          BY <5>1, <5>2
      <4>4. pc' = pc /\ ticket' = ticket
        BY <2>6 DEF FinishClaim, turnVars
      <4> QED
        BY <4>1, <4>2, <4>3, <4>4
    <3> QED
      BY <3>1, <3>2
  <2>7. CASE DrainEnds(c)
    BY <2>7 DEF DrainEnds, Idle, ReturnPermit, handoffVars, claimVars
  <2>8. CASE RegisterHandoff(c)
    BY <2>8 DEF RegisterHandoff, Idle, Register, claimVars
  <2>9. CASE ReleaseTurn(c)
    BY <2>9 DEF ReleaseTurn, handoffVars, claimVars
  <2>10. CASE HandedOffEnds(c)
    BY <2>10 DEF HandedOffEnds, Idle, ReturnPermit, Release, claimVars
  <2>11. CASE Panic(c)
    BY <2>11 DEF Panic, ReturnPermit, UnwindGuards, Release
  <2> QED
    BY <2>1, <2>2, <2>3, <2>12, <2>4, <2>5, <2>6, <2>7, <2>8, <2>9, <2>10, <2>11
       DEF ConnStep
<1>3. CASE \E h \in Caller : CallerStep(h)
  <2> SUFFICES ASSUME NEW h \in Caller, CallerStep(h)
               PROVE  BoundAccepted' /\ DefiniteVerdictsFinal'
    BY <1>3
  <2>1. ASSUME NEW s \in Session, BeginReverify(h, s)
        PROVE  BoundAccepted' /\ DefiniteVerdictsFinal'
    BY <2>1 DEF BeginReverify, turnVars, handoffVars
  <2>2. ASSUME NEW verdict \in Verdict, FinishReverify(h, verdict)
        PROVE  BoundAccepted' /\ DefiniteVerdictsFinal'
    <3>1. /\ pc' = pc /\ ticket' = ticket
          /\ \A t \in Session : bound'[t] \cap Conn = bound[t] \cap Conn
      BY <2>2 DEF FinishReverify, PersistFinding, turnVars
    <3> QED
      BY <3>1
  <2> QED
    BY <2>1, <2>2 DEF CallerStep
<1>4. CASE UNCHANGED vars
  BY <1>4 DEF vars
<1> QED
  BY <1>1, <1>2, <1>3, <1>4 DEF Next

\* The layers below DefiniteVerdictsFinal are invariant together.
LEMMA VerdictInvariant ==
  ASSUME OneSessionPerConnection
  PROVE  Spec => []VerdictInv
<1>1. Init => VerdictInv
  <2> SUFFICES ASSUME Init PROVE VerdictInv
    OBVIOUS
  <2>1. RegisterInv
    BY RegisterInit
  <2> QED
    BY <2>1 DEF Init, VerdictInv, NamesOwnSession, FlagStaysTrue, BoundAccepted,
                DefiniteVerdictsFinal
<1>2. VerdictInv /\ [Next]_vars => VerdictInv'
  BY StepType, StepTurnOrder, StepRegister, StepNames, StepFlag, StepVerdict
     DEF VerdictInv, ClaimInv, RegisterInv, TurnInv
<1> QED
  BY <1>1, <1>2, PTL DEF Spec

\* When every connection carries one session, no evidence from an earlier
\* connection can arrive after a connection has persisted a definite finding
\* for its session.
THEOREM VerdictsAreFinal ==
  ASSUME OneSessionPerConnection
  PROVE  Spec => []DefiniteVerdictsFinal
  BY VerdictInvariant, PTL DEF VerdictInv

QuietHandoffs ==
    \A s \in Session :
        (bound'[s] \ bound[s]) \cap Conn # {}
            => pending_unknown = 0 /\ pending_sessions[s] = 0

\* When every connection carries one session, no connection persists a
\* definite finding while a handoff that could concern it is registered.
THEOREM NoDefiniteInHandoff ==
  ASSUME OneSessionPerConnection
  PROVE  Spec => NoDefiniteDuringHandoff
<1> SUFFICES ASSUME OneSessionPerConnection
             PROVE  Spec => [][QuietHandoffs]_vars
  BY DEF NoDefiniteDuringHandoff, QuietHandoffs
<1>0. VerdictInv /\ [Next]_vars => [QuietHandoffs]_vars
  <2> SUFFICES ASSUME VerdictInv, [Next]_vars
               PROVE  QuietHandoffs \/ UNCHANGED vars
    OBVIOUS
  <2> USE Sentinels, CallersApart
      DEF VerdictInv, RegisterInv, TurnInv, TypeOK, QuietHandoffs
  <2>1. CASE AcquirePermit
    BY <2>1 DEF AcquirePermit, handoffVars, claimVars
  <2>2. CASE \E c \in Conn : ConnStep(c)
    <3> SUFFICES ASSUME NEW c \in Conn, ConnStep(c)
                 PROVE  QuietHandoffs
      BY <2>2
    <3>1. CASE Accept(c)
      BY <3>1 DEF Accept, handoffVars, claimVars
    <3>2. CASE TakeTurn(c)
      BY <3>2 DEF TakeTurn, handoffVars, claimVars
    <3>3. CASE DrainBudgetExpires(c)
      BY <3>3 DEF DrainBudgetExpires, handoffVars, claimVars
    <3>12. ASSUME NEW s \in Session, ReadLine(c, s)
           PROVE  QuietHandoffs
      BY <3>12 DEF ReadLine, Idle, turnVars, claimVars
    <3>4. CASE SessionLine(c)
      BY <3>4 DEF SessionLine, turnVars, claimVars
    <3>5. CASE BeginClaim(c)
      BY <3>5 DEF BeginClaim, turnVars
    <3>6. ASSUME NEW verdict \in Verdict, FinishClaim(c, verdict)
          PROVE  QuietHandoffs
      <4> SUFFICES ASSUME NEW s \in Session, (bound'[s] \ bound[s]) \cap Conn # {}
                   PROVE  pending_unknown = 0 /\ pending_sessions[s] = 0
        OBVIOUS
      <4>1. s = evaluating[c] /\ ~incomplete[c] /\ evaluating[c] # NoSession
        BY <3>6 DEF FinishClaim, PersistFinding, Downgrade
      <4>2. ~EvidenceMayBeIncompleteFor(s)
        BY <4>1 DEF EvaluatorHoldsLock, FlagStaysTrue
      <4> QED
        BY <4>2 DEF EvidenceMayBeIncompleteFor
    <3>7. CASE DrainEnds(c)
      BY <3>7 DEF DrainEnds, Idle, ReturnPermit, handoffVars, claimVars
    <3>8. CASE RegisterHandoff(c)
      BY <3>8 DEF RegisterHandoff, Idle, Register, claimVars
    <3>9. CASE ReleaseTurn(c)
      BY <3>9 DEF ReleaseTurn, handoffVars, claimVars
    <3>10. CASE HandedOffEnds(c)
      BY <3>10 DEF HandedOffEnds, Idle, ReturnPermit, Release, claimVars
    <3>11. CASE Panic(c)
      BY <3>11 DEF Panic, ReturnPermit, UnwindGuards, Release
    <3> QED
      BY <3>1, <3>2, <3>3, <3>12, <3>4, <3>5, <3>6, <3>7, <3>8, <3>9, <3>10, <3>11
         DEF ConnStep
  <2>3. CASE \E h \in Caller : CallerStep(h)
    <3> SUFFICES ASSUME NEW h \in Caller, CallerStep(h)
                 PROVE  QuietHandoffs
      BY <2>3
    <3>1. ASSUME NEW s \in Session, BeginReverify(h, s)
          PROVE  QuietHandoffs
      BY <3>1 DEF BeginReverify, turnVars, handoffVars
    <3>2. ASSUME NEW verdict \in Verdict, FinishReverify(h, verdict)
          PROVE  QuietHandoffs
      BY <3>2 DEF FinishReverify, PersistFinding, turnVars, handoffVars
    <3> QED
      BY <3>1, <3>2 DEF CallerStep
  <2>4. CASE UNCHANGED vars
    BY <2>4
  <2> QED
    BY <2>1, <2>2, <2>3, <2>4 DEF Next
<1> QED
  BY <1>0, VerdictInvariant, PTL DEF Spec

-----------------------------------------------------------------------------
(* Permits *)

LiveConns == {c \in Conn : Live(c)}
PermitInv == TypeOK /\ PermitsAccounted

\* The live connections form a finite set.
LEMMA LiveFinite == IsFiniteSet(LiveConns) /\ Cardinality(LiveConns) \in Nat
  BY ConnFinite, FS_Subset, FS_CardinalityType DEF LiveConns

\* A step that keeps the live connections and the permits keeps the account.
LEMMA SameLive ==
  ASSUME \A c \in Conn : Live(c)' <=> Live(c)
  PROVE  LiveConns' = LiveConns
  BY DEF LiveConns

\* Every step keeps the permits accounted for.
LEMMA StepPermits ==
  PermitInv /\ [Next]_vars => PermitsAccounted'
<1>0. PermitsAccounted <=> permits + Cardinality(LiveConns)
                            + (IF acceptor = "accepting" THEN 1 ELSE 0) = MaxInflight
  BY DEF PermitsAccounted, LiveConns
<1>00. PermitsAccounted' <=> permits' + Cardinality(LiveConns')
                            + (IF acceptor' = "accepting" THEN 1 ELSE 0) = MaxInflight
  BY DEF PermitsAccounted, LiveConns
<1> SUFFICES ASSUME PermitInv, [Next]_vars
             PROVE  PermitsAccounted'
  OBVIOUS
<1> USE <1>0, <1>00, MaxInflightType DEF PermitInv, TypeOK
<1>1. CASE AcquirePermit
  BY <1>1, SameLive, LiveFinite DEF AcquirePermit, handoffVars, claimVars, Live
<1>2. CASE \E c \in Conn : ConnStep(c)
  <2> SUFFICES ASSUME NEW c \in Conn, ConnStep(c)
               PROVE  PermitsAccounted'
    BY <1>2
  <2>1. CASE Accept(c)
    <3>1. LiveConns' = LiveConns \cup {c} /\ c \notin LiveConns
      BY <2>1 DEF Accept, LiveConns, Live
    <3>2. Cardinality(LiveConns') = Cardinality(LiveConns) + 1
      BY <3>1, LiveFinite, FS_AddElement
    <3> QED
      BY <2>1, <3>2, LiveFinite DEF Accept
  <2>2. CASE TakeTurn(c)
    BY <2>2, SameLive DEF TakeTurn, handoffVars, claimVars, Live
  <2>3. CASE DrainBudgetExpires(c)
    BY <2>3, SameLive DEF DrainBudgetExpires, handoffVars, claimVars, Live
  <2>12. ASSUME NEW s \in Session, ReadLine(c, s)
         PROVE  PermitsAccounted'
    BY <2>12, SameLive DEF ReadLine, Idle, turnVars, claimVars, Live
  <2>4. CASE SessionLine(c)
    BY <2>4, SameLive DEF SessionLine, turnVars, claimVars, Live
  <2>5. CASE BeginClaim(c)
    BY <2>5, SameLive DEF BeginClaim, turnVars, Live
  <2>6. ASSUME NEW verdict \in Verdict, FinishClaim(c, verdict)
        PROVE  PermitsAccounted'
    BY <2>6, SameLive DEF FinishClaim, turnVars, handoffVars, Live
  <2>7. CASE DrainEnds(c)
    <3>1. LiveConns' = LiveConns \ {c} /\ c \in LiveConns
      BY <2>7 DEF DrainEnds, Idle, ReturnPermit, LiveConns, Live
    <3>2. Cardinality(LiveConns') = Cardinality(LiveConns) - 1
      BY <3>1, LiveFinite, FS_RemoveElement
    <3> QED
      BY <2>7, <3>2, LiveFinite DEF DrainEnds, Idle, ReturnPermit
  <2>8. CASE RegisterHandoff(c)
    BY <2>8, SameLive DEF RegisterHandoff, Idle, claimVars, Live
  <2>9. CASE ReleaseTurn(c)
    BY <2>9, SameLive DEF ReleaseTurn, handoffVars, claimVars, Live
  <2>10. CASE HandedOffEnds(c)
    <3>1. LiveConns' = LiveConns \ {c} /\ c \in LiveConns
      BY <2>10 DEF HandedOffEnds, Idle, ReturnPermit, LiveConns, Live
    <3>2. Cardinality(LiveConns') = Cardinality(LiveConns) - 1
      BY <3>1, LiveFinite, FS_RemoveElement
    <3> QED
      BY <2>10, <3>2, LiveFinite DEF HandedOffEnds, Idle, ReturnPermit
  <2>11. CASE Panic(c)
    <3>1. LiveConns' = LiveConns \ {c} /\ c \in LiveConns
      BY <2>11 DEF Panic, ReturnPermit, UnwindGuards, LiveConns, Live
    <3>2. Cardinality(LiveConns') = Cardinality(LiveConns) - 1
      BY <3>1, LiveFinite, FS_RemoveElement
    <3> QED
      BY <2>11, <3>2, LiveFinite DEF Panic, ReturnPermit, UnwindGuards
  <2> QED
    BY <2>1, <2>2, <2>3, <2>12, <2>4, <2>5, <2>6, <2>7, <2>8, <2>9, <2>10, <2>11
       DEF ConnStep
<1>3. CASE \E h \in Caller : CallerStep(h)
  <2> SUFFICES ASSUME NEW h \in Caller, CallerStep(h)
               PROVE  PermitsAccounted'
    BY <1>3
  <2>1. ASSUME NEW s \in Session, BeginReverify(h, s)
        PROVE  PermitsAccounted'
    BY <2>1, SameLive DEF BeginReverify, turnVars, handoffVars, Live
  <2>2. ASSUME NEW verdict \in Verdict, FinishReverify(h, verdict)
        PROVE  PermitsAccounted'
    BY <2>2, SameLive DEF FinishReverify, turnVars, handoffVars, Live
  <2> QED
    BY <2>1, <2>2 DEF CallerStep
<1>4. CASE UNCHANGED vars
  BY <1>4, SameLive DEF vars, Live
<1> QED
  BY <1>1, <1>2, <1>3, <1>4 DEF Next

\* No permit is lost or duplicated on any path, a panic included, so at most
\* MAX_INFLIGHT_CONNECTIONS connections are open and none leaks its slot.
THEOREM PermitsAreAccounted == Spec => []PermitsAccounted
<1>1. Init => PermitInv
  <2> SUFFICES ASSUME Init PROVE PermitInv
    OBVIOUS
  <2>1. {c \in Conn : Live(c)} = {}
    BY DEF Init, Live
  <2> QED
    BY <2>1, InitType, FS_EmptySet, MaxInflightType DEF Init, PermitInv, PermitsAccounted
<1>2. PermitInv /\ [Next]_vars => PermitInv'
  BY StepType, StepPermits DEF PermitInv
<1> QED
  BY <1>1, <1>2, PTL DEF Spec, PermitInv
=============================================================================
