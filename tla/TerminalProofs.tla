---------------------------- MODULE TerminalProofs ----------------------------
(***************************************************************************)
(* A terminal token is used once, for any number of WebSocket handlers and *)
(* any sizes of the buffers.  Consume alone does not give it: the record   *)
(* it looks at must not become ready a second time, which rests on the     *)
(* one way through CreateTerminalHandler.                                  *)
(***************************************************************************)
EXTENDS Terminal, TLAPS

Began(h) == handler[h] # "idle"

\* A token is issued when the creating handler is done; once a handler has
\* consumed it, the record is consumed or gone; and one handler only has.
TokenInv ==
    /\ handler \in [Handlers -> Attaching \cup {"idle"}]
    /\ token # "none" => create = "done"
    /\ \A h \in Handlers : Began(h) => create = "done" /\ rec \in {"consumed", "none"}
    /\ \A h, k \in Handlers : Began(h) /\ Began(k) => h = k

\* The invariant speaks of four variables of the control plane.
LEMMA TokenInvStutter ==
    ASSUME TokenInv, UNCHANGED <<rec, token, create, handler>>
    PROVE  TokenInv'
BY DEF TokenInv, Began

\* Cancel and pruning only ever remove the record.
LEMMA TokenInvRemove ==
    ASSUME TokenInv, rec' = "none", UNCHANGED <<token, create, handler>>
    PROVE  TokenInv'
BY DEF TokenInv, Began

\* A handler that has consumed the token moves on; no other one starts.
LEMMA TokenInvHandler ==
    ASSUME TokenInv, NEW h \in Handlers, Began(h), NEW st \in Attaching,
           handler' = [handler EXCEPT ![h] = st], rec' \in {rec, "none"}, UNCHANGED <<token, create>>
    PROVE  TokenInv'
<1>1. /\ handler' \in [Handlers -> Attaching \cup {"idle"}]
      /\ \A k \in Handlers : Began(k)' => Began(k)
  BY DEF TokenInv, Began
<1> QED
  BY <1>1 DEF TokenInv

\* Steps of the guest, of the session and of the worker's calls leave the
\* control plane's record, token and handlers alone.
LEMMA TokenInvWorker ==
    ASSUME TokenInv,
           \/ GuestStep
           \/ ExecStart \/ ExecReturns \/ PauseStart \/ PauseReturns \/ OpenLock \/ OpenReturns
           \/ \E c \in Callers : CloseLock(c) \/ CloseReturns(c)
           \/ \E h \in Handlers : AttachLock(h) \/ AttachDial(h) \/ Deliver(h) \/ StreamEnds(h)
    PROVE  TokenInv'
<1>1. UNCHANGED <<rec, token, create, handler>>
  BY DEF GuestStep, hostVars, ExecStart, ExecReturns, PauseStart, PauseReturns, Frozen, OpenLock, OpenReturns,
         CloseLock, CloseReturns, AttachLock, AttachDial, Deliver, StreamEnds
<1> QED
  BY <1>1, TokenInvStutter

\* CreateTerminalHandler and the manager: a token is issued once, before any
\* handler can have consumed one.
LEMMA TokenInvCreate ==
    ASSUME TokenInv,
           Reserve \/ Prune \/ TokenExpires \/ OpenAnswered \/ OpenTimesOut \/ Authorize \/ CleanupEnds
    PROVE  TokenInv'
<1>1. CASE Reserve \/ OpenAnswered \/ OpenTimesOut \/ Authorize \/ CleanupEnds
  <2>1. create # "done" /\ token' \in {token, "issued"} /\ handler' = handler
    BY <1>1 DEF Reserve, OpenAnswered, OpenTimesOut, Authorize, CleanupEnds
  <2>2. token' # "none" => create' = "done"
    BY <1>1, <2>1 DEF TokenInv, Reserve, OpenAnswered, OpenTimesOut, Authorize, CleanupEnds
  <2> QED
    BY <2>1, <2>2 DEF TokenInv, Began
<1>2. CASE Prune
  BY <1>2, TokenInvRemove DEF Prune
<1>3. CASE TokenExpires
  BY <1>3 DEF TokenExpires, TokenInv, Began
<1> QED
  BY <1>1, <1>2, <1>3

\* AttachTerminalHandler: Consume finds a ready record, so no handler has
\* begun; every other step is one of a handler that has.
LEMMA TokenInvAttach ==
    ASSUME TokenInv, NEW h \in Handlers,
           \/ Consume(h) \/ Place(h) \/ StreamReady(h) \/ AttachFails(h)
           \/ BridgeEnds(h) \/ HandlerReturns(h)
    PROVE  TokenInv'
<1>1. CASE Consume(h)
  <2>1. \A k \in Handlers : ~Began(k)
    BY <1>1 DEF TokenInv, Consume
  <2>2. \A k \in Handlers : Began(k)' => k = h
    BY <1>1, <2>1 DEF TokenInv, Consume, Began
  <2>3. /\ handler' \in [Handlers -> Attaching \cup {"idle"}]
        /\ create' = "done" /\ rec' = "consumed"
    BY <1>1 DEF TokenInv, Consume, Attaching
  <2> QED
    BY <2>2, <2>3 DEF TokenInv
<1>2. CASE Place(h) \/ StreamReady(h) \/ AttachFails(h) \/ BridgeEnds(h) \/ HandlerReturns(h)
  <2>1. /\ Began(h) /\ rec' \in {rec, "none"} /\ UNCHANGED <<token, create>>
        /\ \E st \in Attaching : handler' = [handler EXCEPT ![h] = st]
    BY <1>2 DEF Began, Place, StreamReady, AttachFails, BridgeEnds, HandlerReturns, Attaching
  <2> QED
    BY <2>1, TokenInvHandler
<1> QED
  BY <1>1, <1>2

\* Every step of the system keeps the invariant.
LEMMA TokenInvStep == TokenInv /\ [Next]_vars => TokenInv'
<1> SUFFICES ASSUME TokenInv, [Next]_vars PROVE TokenInv'
  OBVIOUS
<1>1. CASE Next
  <2>1. CASE Host
    <3>1. CASE ExecReturns \/ PauseReturns \/ OpenLock \/ OpenReturns
      BY <3>1, TokenInvWorker
    <3>2. CASE OpenAnswered \/ OpenTimesOut \/ Authorize \/ CleanupEnds
      BY <3>2, TokenInvCreate
    <3>3. CASE \E c \in Callers : CloseLock(c) \/ CloseReturns(c)
      BY <3>3, TokenInvWorker
    <3>4. CASE \E h \in Handlers : Place(h) \/ StreamReady(h) \/ HandlerReturns(h)
      BY <3>4, TokenInvAttach
    <3>5. CASE \E h \in Handlers : AttachLock(h) \/ AttachDial(h) \/ Cancelled(h)
      BY <3>5, TokenInvWorker DEF Cancelled
    <3> QED
      BY <2>1, <3>1, <3>2, <3>3, <3>4, <3>5 DEF Host
  <2>2. CASE GuestStep \/ ExecStart \/ PauseStart
    BY <2>2, TokenInvWorker
  <2>6. CASE Shell /\ UNCHANGED hostVars
    BY <2>6, TokenInvStutter DEF hostVars
  <2>3. CASE Reserve \/ Prune \/ TokenExpires
    BY <2>3, TokenInvCreate
  <2>4. CASE \E h \in Handlers : Consume(h) \/ AttachFails(h) \/ BridgeEnds(h)
    BY <2>4, TokenInvAttach
  <2>5. CASE \E h \in Handlers : Deliver(h) \/ StreamEnds(h)
    BY <2>5, TokenInvWorker
  <2> QED
    BY <1>1, <2>1, <2>2, <2>3, <2>4, <2>5, <2>6 DEF Next
<1>2. CASE UNCHANGED vars
  BY <1>2, TokenInvStutter DEF vars, hostVars
<1> QED
  BY <1>1, <1>2

\* Consume (terminal/manager.go) lets at most one WebSocket use a token, for any
\* number of browsers and any order of expiry, pruning and clean-up.
THEOREM TokenUsedOnceHolds == Spec => []TokenUsedOnce
<1>1. Init => TokenInv
  BY DEF Init, TokenInv, Began
<1>2. TokenInv => TokenUsedOnce
  BY DEF TokenInv, TokenUsedOnce, Attaching, Began
<1> QED
  BY <1>1, <1>2, TokenInvStep, PTL DEF Spec
=============================================================================
