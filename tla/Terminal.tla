------------------------------- MODULE Terminal -------------------------------
(***************************************************************************)
(* One interactive terminal of one sandbox, end to end: terminal.Manager   *)
(* (reservation and single-use token), CreateTerminalHandler and           *)
(* AttachTerminalHandler of the control plane, the worker's gRPC calls and *)
(* the session's OpenTerminal, CloseTerminal and AttachTerminal, composed  *)
(* with the guest agent of GuestTerminal.  Exec and the API's pause are    *)
(* the other users of the session's lock and of its persistent connection. *)
(*                                                                         *)
(* A call of the control plane ends for its handler when the worker        *)
(* answers or at the handler's time limit; the worker's goroutine goes on  *)
(* and sees the expired context only where the code looks at it.           *)
(***************************************************************************)
EXTENDS GuestTerminal, FiniteSets

CONSTANTS
    Create,         \* the call of CreateTerminalHandler
    Exec,           \* an Exec or Execute of the session
    Pause           \* a pause that the API asks for

Callers == Handlers \cup {Create}

VARIABLES
    rec,            \* the record of terminal.Manager
    token,          \* the attachment token
    create,         \* step of CreateTerminalHandler
    handler,        \* handler[h]: step of AttachTerminalHandler
    stream,         \* stream[h]: step of the worker's AttachTerminal
    rpc,            \* rpc[c]: the worker's OpenTerminal or CloseTerminal for c
    active,         \* sess.State = StateActive
    Terminals,      \* sess.Terminals has the terminal
    mu,             \* holder of sess.mu
    delivered,      \* delivered[h]: what the browser has received
    late,           \* a request on the persistent connection was given up
    confused        \* a caller took the answer of another request for its own

hostVars == <<rec, token, create, handler, stream, rpc, active, Terminals, mu, delivered, late, confused>>
vars == <<guestVars, hostVars>>

ASSUME CallerConstants ==
    Cardinality({Create, Exec, Pause, None}) = 4 /\ {Create, Exec, Pause, None} \cap Handlers = {}

TypeOK ==
    /\ GuestTypeOK
    /\ rec \in {"none", "creating", "ready", "consumed"} /\ token \in {"none", "issued", "expired"}
    /\ create \in {"idle", "open", "authorize", "close", "done"}
    /\ handler \in [Handlers -> {"idle", "place", "attach", "live", "closing", "failing", "done", "timedOut"}]
    /\ stream \in [Handlers -> {"none", "lock", "dial", "ready", "over"}]
    /\ rpc \in [Callers -> {"none", "openLock", "openWait", "closeLock", "closeWait", "ok", "error"}]
    /\ mu \in Callers \cup {Exec, Pause, None}
    /\ {active, Terminals, late, confused} \subseteq BOOLEAN

Init ==
    /\ GuestInit
    /\ rec = "none" /\ token = "none" /\ create = "idle"
    /\ handler = [h \in Handlers |-> "idle"] /\ stream = [h \in Handlers |-> "none"]
    /\ rpc = [c \in Callers |-> "none"]
    /\ active = TRUE /\ Terminals = FALSE /\ mu = None
    /\ delivered = [h \in Handlers |-> <<>>]
    /\ late = FALSE /\ confused = FALSE

-----------------------------------------------------------------------------
(* sess.mu and the persistent connection: the holder of the lock writes a  *)
(* request and reads the first answer on the connection, or gives up at    *)
(* the deadline and leaves the connection as it is.                        *)

ReadAnswer ==
    /\ replies # <<>>
    /\ replies' = Tail(replies)
    /\ confused' = (confused \/ Head(replies).no # sent)
    /\ mu' = None
    /\ UNCHANGED <<sent, reqs, serving, pty, attached, sub, late>>

Deadline ==
    /\ late' = TRUE /\ mu' = None
    /\ UNCHANGED <<guestVars, confused>>

Request(c, op) ==
    /\ Send(op) /\ mu' = c
    /\ UNCHANGED <<serving, replies, pty, attached, sub>>

ExecStartUnlocked ==
    /\ active
    /\ Request(Exec, "exec")
    /\ UNCHANGED <<rec, token, create, handler, stream, rpc, active, Terminals, delivered, late, confused>>

ExecStart ==
    /\ active /\ mu = None
    /\ Request(Exec, "exec")
    /\ UNCHANGED <<rec, token, create, handler, stream, rpc, active, Terminals, delivered, late, confused>>

\* Any answer decodes as an ExecuteResponse.
ExecReturns ==
    /\ mu = Exec
    /\ ReadAnswer \/ Deadline
    /\ UNCHANGED <<rec, token, create, handler, stream, rpc, active, Terminals, delivered>>

\* The teardown that follows CloseAll (or the lock, when there is no
\* terminal): the VM is gone, and with it every connection into it.
Frozen ==
    /\ active' = FALSE /\ Terminals' = FALSE /\ mu' = None
    /\ GuestGone
    /\ UNCHANGED <<rec, token, create, handler, stream, rpc, delivered, late, sent>>

PauseStart ==
    /\ active /\ mu = None
    /\ \/ /\ Terminals /\ Request(Pause, "closeAll")
          /\ UNCHANGED <<rec, token, create, handler, stream, rpc, active, Terminals, delivered, late, confused>>
       \/ ~Terminals /\ Frozen /\ UNCHANGED confused

\* An error, and an answer without success, fail the pause: the session
\* stays active with its terminals.
PauseReturns ==
    /\ mu = Pause
    /\ \/ /\ replies # <<>> /\ Head(replies).success
          /\ confused' = (confused \/ Head(replies).no # sent)
          /\ Frozen
       \/ /\ (replies # <<>> /\ ~Head(replies).success /\ ReadAnswer) \/ Deadline
          /\ UNCHANGED <<rec, token, create, handler, stream, rpc, active, Terminals, delivered>>

-----------------------------------------------------------------------------
(* Manager.OpenTerminal and Manager.CloseTerminal of the worker.           *)

\* The caller still waits for the call, that is, its context has not expired.
Waiting(c) == IF c = Create THEN create \in {"open", "close"} ELSE handler[c] \in {"closing", "failing"}

OpenLock ==
    /\ rpc[Create] = "openLock" /\ mu = None
    /\ IF active /\ ~Terminals /\ Waiting(Create)
       THEN Request(Create, "open") /\ rpc' = [rpc EXCEPT ![Create] = "openWait"]
       ELSE rpc' = [rpc EXCEPT ![Create] = "error"] /\ UNCHANGED <<guestVars, mu>>
    /\ UNCHANGED <<rec, token, create, handler, stream, active, Terminals, delivered, late, confused>>

OpenReturnsUnlisted ==
    /\ rpc[Create] = "openWait"
    /\ \/ ReadAnswer /\ rpc' = [rpc EXCEPT ![Create] = IF Head(replies).success THEN "ok" ELSE "error"]
       \/ Deadline /\ rpc' = [rpc EXCEPT ![Create] = "error"]
    /\ UNCHANGED <<rec, token, create, handler, stream, active, Terminals, delivered>>

OpenReturns ==
    /\ rpc[Create] = "openWait"
    /\ \/ /\ ReadAnswer
          /\ Terminals' = Head(replies).success
          /\ rpc' = [rpc EXCEPT ![Create] = IF Head(replies).success THEN "ok" ELSE "error"]
       \/ Deadline /\ rpc' = [rpc EXCEPT ![Create] = "error"] /\ UNCHANGED Terminals
    /\ UNCHANGED <<rec, token, create, handler, stream, active, delivered>>

CloseLock(c) ==
    /\ rpc[c] = "closeLock" /\ mu = None
    /\ IF active /\ Terminals /\ Waiting(c)
       THEN Request(c, "close") /\ rpc' = [rpc EXCEPT ![c] = "closeWait"]
       ELSE rpc' = [rpc EXCEPT ![c] = "error"] /\ UNCHANGED <<guestVars, mu>>
    /\ UNCHANGED <<rec, token, create, handler, stream, active, Terminals, delivered, late, confused>>

\* The entry goes whatever the guest answers.
CloseReturns(c) ==
    /\ rpc[c] = "closeWait"
    /\ \/ ReadAnswer /\ rpc' = [rpc EXCEPT ![c] = IF Head(replies).success THEN "ok" ELSE "error"]
       \/ Deadline /\ rpc' = [rpc EXCEPT ![c] = "error"]
    /\ Terminals' = FALSE
    /\ UNCHANGED <<rec, token, create, handler, stream, active, delivered>>

-----------------------------------------------------------------------------
(* terminal.Manager and CreateTerminalHandler.                             *)

Reserve ==
    /\ create = "idle"
    /\ rec' = "creating" /\ create' = "open"
    /\ rpc' = [rpc EXCEPT ![Create] = "openLock"]
    /\ UNCHANGED <<guestVars, token, handler, stream, active, Terminals, mu, delivered, late, confused>>

\* pruneExpiredLocked, in the Reserve of another terminal.
Prune ==
    /\ rec = "creating" \/ (rec = "ready" /\ token = "expired")
    /\ rec' = "none"
    /\ UNCHANGED <<guestVars, token, create, handler, stream, rpc, active, Terminals, mu, delivered, late, confused>>

\* Only the expiry of a token that can still be used makes a difference.
TokenExpires ==
    /\ token = "issued" /\ rec = "ready"
    /\ token' = "expired"
    /\ UNCHANGED <<guestVars, rec, create, handler, stream, rpc, active, Terminals, mu, delivered, late, confused>>

OpenAnsweredOrNot ==
    /\ create = "open" /\ rpc[Create] \in {"ok", "error"}
    /\ create' = "authorize"
    /\ UNCHANGED <<rec, guestVars, token, handler, stream, rpc, active, Terminals, mu, delivered, late, confused>>

\* OpenTerminal returns to the handler; an error cancels the reservation.
OpenAnswered ==
    /\ create = "open" /\ rpc[Create] \in {"ok", "error"}
    /\ \/ rpc[Create] = "ok" /\ create' = "authorize" /\ UNCHANGED rec
       \/ rpc[Create] = "error" /\ create' = "done" /\ rec' = "none"
    /\ UNCHANGED <<guestVars, token, handler, stream, rpc, active, Terminals, mu, delivered, late, confused>>

\* The handler's 15 seconds are over first: the same error to the handler.
OpenTimesOut ==
    /\ create = "open"
    /\ create' = "done" /\ rec' = "none"
    /\ UNCHANGED <<guestVars, token, handler, stream, rpc, active, Terminals, mu, delivered, late, confused>>

Authorize ==
    /\ create = "authorize"
    /\ IF rec = "creating"
       THEN rec' = "ready" /\ token' = "issued" /\ create' = "done" /\ UNCHANGED rpc
       ELSE create' = "close" /\ rpc' = [rpc EXCEPT ![Create] = "closeLock"] /\ UNCHANGED <<rec, token>>
    /\ UNCHANGED <<guestVars, handler, stream, active, Terminals, mu, delivered, late, confused>>

\* The cleanup of a failed Authorize returns, or its 5 seconds are over.
CleanupEnds ==
    /\ create = "close"
    /\ create' = "done" /\ rec' = "none"
    /\ UNCHANGED <<guestVars, token, handler, stream, rpc, active, Terminals, mu, delivered, late, confused>>

-----------------------------------------------------------------------------
(* AttachTerminalHandler and the worker's AttachTerminal.                  *)

ConsumeAgain(h) ==
    /\ handler[h] = "idle" /\ token = "issued" /\ rec \in {"ready", "consumed"}
    /\ rec' = "consumed" /\ handler' = [handler EXCEPT ![h] = "place"]
    /\ UNCHANGED <<guestVars, token, create, stream, rpc, active, Terminals, mu, delivered, late, confused>>

\* A handler whose Consume fails answers 401 and changes nothing.
Consume(h) ==
    /\ handler[h] = "idle" /\ token = "issued" /\ rec = "ready"
    /\ rec' = "consumed" /\ handler' = [handler EXCEPT ![h] = "place"]
    /\ UNCHANGED <<guestVars, token, create, stream, rpc, active, Terminals, mu, delivered, late, confused>>

\* The placement is read again: it fails or has moved, which only cancels
\* the record, or the worker is asked to attach.
Place(h) ==
    /\ handler[h] = "place"
    /\ \/ /\ handler' = [handler EXCEPT ![h] = "attach"] /\ stream' = [stream EXCEPT ![h] = "lock"]
          /\ UNCHANGED rec
       \/ handler' = [handler EXCEPT ![h] = "done"] /\ rec' = "none" /\ UNCHANGED stream
    /\ UNCHANGED <<guestVars, token, create, rpc, active, Terminals, mu, delivered, late, confused>>

\* Manager.AttachTerminal looks at the session under its lock.
AttachLock(h) ==
    /\ stream[h] = "lock" /\ mu = None
    /\ stream' = [stream EXCEPT ![h] = IF active /\ Terminals THEN "dial" ELSE "over"]
    /\ UNCHANGED <<guestVars, rec, token, create, handler, rpc, active, Terminals, mu, delivered, late, confused>>

\* VsockClient.AttachTerminal, outside the lock.
AttachDial(h) ==
    /\ stream[h] = "dial"
    /\ \/ active /\ Attach(h) /\ stream' = [stream EXCEPT ![h] = "ready"]
       \/ (~active \/ AttachRefused) /\ stream' = [stream EXCEPT ![h] = "over"] /\ UNCHANGED guestVars
    /\ UNCHANGED <<rec, token, create, handler, rpc, active, Terminals, mu, delivered, late, confused>>

StreamReady(h) ==
    /\ handler[h] = "attach" /\ stream[h] = "ready"
    /\ handler' = [handler EXCEPT ![h] = "live"]
    /\ UNCHANGED <<guestVars, rec, token, create, stream, rpc, active, Terminals, mu, delivered, late, confused>>

\* The attach fails or takes longer than the startup timer allows:
\* cancelStream, Cancel, and CloseTerminal.
AttachFails(h) ==
    /\ handler[h] = "attach"
    /\ handler' = [handler EXCEPT ![h] = "failing"] /\ rec' = "none"
    /\ rpc' = [rpc EXCEPT ![h] = "closeLock"]
    /\ UNCHANGED <<guestVars, token, create, stream, active, Terminals, mu, delivered, late, confused>>

\* bridgeTerminalWebSocket writes a frame to the browser.
Deliver(h) ==
    /\ handler[h] = "live" /\ sub[h].wire # <<>>
    /\ sub' = [sub EXCEPT ![h].wire = Tail(@)]
    /\ delivered' = [delivered EXCEPT ![h] = @ \o Head(sub[h].wire)]
    /\ UNCHANGED <<sent, reqs, serving, replies, pty, attached, rec, token, create, handler, stream, rpc,
                   active, Terminals, mu, late, confused>>

BridgeEndsOpen(h) ==
    /\ handler[h] = "live"
    /\ handler' = [handler EXCEPT ![h] = "closing"]
    /\ rpc' = [rpc EXCEPT ![h] = "ok"]
    /\ UNCHANGED <<guestVars, rec, token, create, stream, active, Terminals, mu, delivered, late, confused>>

\* The bridge ends: after the exit frame, because the browser left or sent
\* close, on an error.  The deferred CloseTerminal comes before cancelStream.
BridgeEnds(h) ==
    /\ handler[h] = "live"
    /\ handler' = [handler EXCEPT ![h] = "closing"]
    /\ rpc' = [rpc EXCEPT ![h] = "closeLock"]
    /\ UNCHANGED <<guestVars, rec, token, create, stream, active, Terminals, mu, delivered, late, confused>>

\* CloseTerminal returns, or its 5 seconds are over; Cancel and, by the
\* deferred cancelStream, the end of the stream's context.
HandlerReturns(h) ==
    /\ handler[h] \in {"closing", "failing"}
    /\ handler' = [handler EXCEPT ![h] = IF rpc[h] \in {"ok", "error"} THEN "done" ELSE "timedOut"]
    /\ rec' = "none"
    /\ UNCHANGED <<guestVars, token, create, stream, rpc, active, Terminals, mu, delivered, late, confused>>

\* The worker's loop ends: the stream's context is cancelled, the guest has
\* closed the connection, or the browser's close frame came through, which
\* the loop reads only when it is not blocked in Send.
StreamEnds(h) ==
    /\ stream[h] = "ready"
    /\ \/ handler[h] \in {"failing", "done", "timedOut"}
       \/ sub[h].conn = "closed"
       \/ handler[h] = "closing" /\ Len(sub[h].wire) < WireCap
    /\ stream' = [stream EXCEPT ![h] = "over"]
    /\ sub' = [sub EXCEPT ![h].conn = "closed"]
    /\ UNCHANGED <<sent, reqs, serving, replies, pty, attached, rec, token, create, handler, rpc, active,
                   Terminals, mu, delivered, late, confused>>

-----------------------------------------------------------------------------

GuestStep == Guest /\ UNCHANGED hostVars

Cancelled(h) == handler[h] \in {"failing", "done", "timedOut"} /\ StreamEnds(h)

\* What happens without a client: goroutines run, time limits pass.
Host ==
    \/ ExecReturns \/ PauseReturns
    \/ OpenLock \/ OpenReturns \/ OpenAnswered \/ OpenTimesOut \/ Authorize \/ CleanupEnds
    \/ \E c \in Callers : CloseLock(c) \/ CloseReturns(c)
    \/ \E h \in Handlers : \/ Place(h) \/ AttachLock(h) \/ AttachDial(h) \/ StreamReady(h)
                           \/ HandlerReturns(h) \/ Cancelled(h)

Next ==
    \/ GuestStep
    \/ Shell /\ UNCHANGED hostVars
    \/ Host
    \/ Reserve \/ Prune \/ TokenExpires \/ ExecStart \/ PauseStart
    \/ \E h \in Handlers : Consume(h) \/ AttachFails(h) \/ Deliver(h) \/ BridgeEnds(h) \/ StreamEnds(h)

\* Goroutines and timers of both ends run on.  Nothing makes a browser read,
\* leave or come, a shell print or end, or a client call.
Fairness == WF_vars(GuestStep) /\ WF_vars(Host)

Spec == Init /\ [][Next]_vars /\ Fairness

-----------------------------------------------------------------------------
(* Properties.                                                             *)

Attaching == {"place", "attach", "live", "closing", "failing", "done", "timedOut"}

\* Consume (terminal/manager.go) lets one WebSocket at most use a token, in
\* whatever order handlers, expiry, Cancel and pruning come, so a terminal
\* never has two clients, nor does a late one's cleanup close the first one's
\* shell.
TokenUsedOnce ==
    \A h, k \in Handlers : handler[h] \in Attaching /\ handler[k] \in Attaching => h = k

\* All a browser has received and what is still on its way to it.
Output(h) ==
    delivered[h] \o FlattenSeq(sub[h].wire) \o sub[h].output
        \o (IF pty.capture = "send" /\ pty.to = h THEN <<pty.seq>> ELSE <<>>)

\* subscribe, publish and Attach (guest-agent/terminal.go): the backlog of the
\* ring and the live chunks that follow it are one run of the shell's output,
\* without a gap or a repetition, whatever publishes around the attach; while
\* attached, nothing the shell printed is missing; the exit frame comes last,
\* after every chunk.
OutputContiguous ==
    \A h \in Handlers :
        LET out == Output(h)
        IN  /\ \A i \in 1..(Len(out) - 1) :
                   out[i + 1] = IF out[i + 1] = Exit /\ i + 1 = Len(out) THEN Exit ELSE out[i] + 1
            /\ sub[h].attach = "loop" => IF out = <<>> THEN pty.seq = 0 ELSE Last(out) = pty.seq
            /\ Exit \in Range(out) /\ Len(out) > 1 => out[Len(out) - 1] = pty.seq

\* CreateTerminalHandler: a token is issued only when the guest has started
\* the shell.  It relies on answers matching requests, so it ends with the
\* first request given up at its deadline.
TokenMeansPTY == token # "none" => pty.opened \/ late

\* Requests on the persistent connection (vsock_client.go) are told apart by
\* nothing but their order, which sess.mu keeps: until a deadline leaves an
\* answer behind, every caller reads the answer to its own request.
AnswersAreOwn == confused => late

\* A shell that the guest still lists is on the session's list, where
\* CloseTerminal and pause find it, or OpenTerminal is about to put it there;
\* a request that was given up breaks this.
ShellsAreKnown == pty.listed => Terminals \/ rpc[Create] = "openWait" \/ late

\* stopTerminal waits for capture, which waits for a reader of the
\* subscription, which waits for the browser.  When the bridge has ended the
\* wait is over in the end: cancelStream, at the latest after CloseTerminal's
\* 5 seconds, makes Attach detach.
StopTerminalEnds ==
    (serving # None /\ serving.op \in {"close", "closeAll"} /\ \E h \in Handlers : handler[h] = "closing")
        ~> (serving = None \/ serving.op \notin {"close", "closeAll"})

\* A terminal does not outlive its WebSocket: when the bridge has ended, the
\* shell is off the guest's list in the end, unless CloseTerminal timed out
\* before it got the session's lock or an answer was lost.
ShellEndsWithBridge ==
    \A h \in Handlers : handler[h] = "closing" ~> (~pty.listed \/ handler[h] = "timedOut" \/ late)
=============================================================================
