---------------------------- MODULE GuestTerminal ----------------------------
(***************************************************************************)
(* The guest agent (guest-agent/main.go, terminal.go) as the worker sees   *)
(* it: the persistent vsock connection, on which handleConnection serves   *)
(* one request after the other, and one terminal of its terminalManager    *)
(* with the connections that attach to it.                                 *)
(*                                                                         *)
(* The shell's output is numbered in the order capture reads it (nextSeq), *)
(* a chunk per read; the byte ring holds the last RingSize chunks.  A      *)
(* frame is a sequence of chunks, Exit stands for the exit frame.          *)
(*                                                                         *)
(* The worker's side of both connections is in Terminal: it writes reqs,   *)
(* reads replies and sub[h].wire and closes sub[h].conn.                   *)
(***************************************************************************)
EXTENDS Naturals, Sequences, SequencesExt

CONSTANTS
    Handlers,       \* WebSocket handlers, each with at most one attach connection
    None,
    RingSize,       \* chunks the byte ring holds
    OutputCap,      \* capacity of a subscription's channel
    WireCap,        \* frames between the guest's write and the browser
    MaxChunks,      \* bound: chunks the shell prints
    MaxRequests     \* bound: requests on the persistent connection

Exit == 0

ASSUME TerminalConstants ==
    /\ {RingSize, OutputCap, WireCap} \subseteq Nat \ {0}
    /\ {MaxChunks, MaxRequests} \subseteq Nat
    /\ None \notin Handlers

VARIABLES
    sent,           \* requests the worker has written
    reqs,           \* those that handleConnection has not read
    serving,        \* the one it works on
    replies,        \* answers the worker has not read
    pty,            \* the terminalSession and its capture goroutine
    attached,       \* terminalSession.attached
    sub             \* sub[h]: attach connection, Attach goroutine, subscription

guestVars == <<sent, reqs, serving, replies, pty, attached, sub>>

Ops == {"open", "close", "closeAll", "exec"}
Requests == [op : Ops, no : 1..MaxRequests]
Chunks == 1..MaxChunks
NoPTY == [opened |-> FALSE, listed |-> FALSE, capture |-> "none", to |-> None, eof |-> FALSE, seq |-> 0]
NoSub == [conn |-> "none", attach |-> "none", output |-> <<>>, closed |-> FALSE, done |-> FALSE, wire |-> <<>>]

GuestTypeOK ==
    /\ sent \in 0..MaxRequests
    /\ reqs \in BoundedSeq(Requests, MaxRequests)
    /\ serving \in Requests \cup {None}
    /\ replies \in BoundedSeq([no : 1..MaxRequests, success : BOOLEAN], MaxRequests)
    /\ pty \in [opened : BOOLEAN, listed : BOOLEAN, capture : {"none", "read", "send", "over"},
                to : Handlers \cup {None}, eof : BOOLEAN, seq : 0..MaxChunks]
    /\ attached \in Handlers \cup {None}
    /\ \A h \in Handlers :
           /\ DOMAIN sub[h] = DOMAIN NoSub
           /\ sub[h].conn \in {"none", "open", "closed"} /\ sub[h].attach \in {"none", "loop", "end"}
           /\ Len(sub[h].output) <= OutputCap /\ Range(sub[h].output) \subseteq Chunks
           /\ Len(sub[h].wire) <= WireCap

GuestInit ==
    /\ sent = 0 /\ reqs = <<>> /\ serving = None /\ replies = <<>>
    /\ pty = NoPTY /\ attached = None
    /\ sub = [h \in Handlers |-> NoSub]

-----------------------------------------------------------------------------
(* handleConnection on the persistent connection.                          *)

\* The caller of the worker that holds sess.mu writes a request.
Send(op) ==
    /\ sent < MaxRequests
    /\ sent' = sent + 1
    /\ reqs' = Append(reqs, [op |-> op, no |-> sent + 1])

Answer(no, success) == replies' = Append(replies, [no |-> no, success |-> success])

\* Open: the shell starts, or fails to.  The id is drawn once, so the
\* terminal is never there already.
ServeOpen ==
    /\ serving = None /\ reqs # <<>> /\ Head(reqs).op = "open"
    /\ reqs' = Tail(reqs)
    /\ \/ /\ pty' = [pty EXCEPT !.opened = TRUE, !.listed = TRUE, !.capture = "read"]
          /\ Answer(Head(reqs).no, TRUE)
       \/ Answer(Head(reqs).no, FALSE) /\ UNCHANGED pty
    /\ UNCHANGED <<sent, serving, attached, sub>>

\* Close and CloseAll take the terminal off the list; stopTerminal hangs the
\* shell up, closes the master and waits for done.
ServeClose ==
    /\ serving = None /\ reqs # <<>> /\ Head(reqs).op \in {"close", "closeAll"}
    /\ reqs' = Tail(reqs)
    /\ IF pty.listed
       THEN /\ pty' = [pty EXCEPT !.listed = FALSE, !.eof = TRUE]
            /\ serving' = Head(reqs)
            /\ UNCHANGED replies
       ELSE Answer(Head(reqs).no, Head(reqs).op = "closeAll") /\ UNCHANGED <<pty, serving>>
    /\ UNCHANGED <<sent, attached, sub>>

StopTerminal ==
    /\ serving # None /\ serving.op \in {"close", "closeAll"} /\ pty.capture = "over"
    /\ Answer(serving.no, TRUE)
    /\ serving' = None
    /\ UNCHANGED <<sent, reqs, pty, attached, sub>>

\* exec and execute: the shell, the kernel or the process answers or is
\* given up at its own time limit; the connection is busy until then.
ServeExec ==
    /\ serving = None /\ reqs # <<>> /\ Head(reqs).op = "exec"
    /\ reqs' = Tail(reqs) /\ serving' = Head(reqs)
    /\ UNCHANGED <<sent, replies, pty, attached, sub>>

\* An ExecutionResponse has no "success" field: false to a reader that wants one.
ExecEnds ==
    /\ serving # None /\ serving.op = "exec"
    /\ Answer(serving.no, FALSE)
    /\ serving' = None
    /\ UNCHANGED <<sent, reqs, pty, attached, sub>>

-----------------------------------------------------------------------------
(* capture, publish and finish.                                            *)

\* publish under the lock: the ring, the number and the subscription.
Publish ==
    /\ pty.capture = "read" /\ ~pty.eof /\ pty.seq < MaxChunks
    /\ pty' = [pty EXCEPT !.seq = @ + 1, !.to = attached,
                          !.capture = IF attached = None THEN "read" ELSE "send"]
    /\ UNCHANGED <<sent, reqs, serving, replies, attached, sub>>

PublishSendUnblocked ==
    /\ pty.capture = "send"
    /\ pty' = [pty EXCEPT !.capture = "read", !.to = None]
    /\ \/ Len(sub[pty.to].output) < OutputCap /\ sub' = [sub EXCEPT ![pty.to].output = Append(@, pty.seq)]
       \/ Len(sub[pty.to].output) = OutputCap /\ UNCHANGED sub
    /\ UNCHANGED <<sent, reqs, serving, replies, attached>>

PublishSendForever ==
    /\ pty.capture = "send" /\ Len(sub[pty.to].output) < OutputCap
    /\ pty' = [pty EXCEPT !.capture = "read", !.to = None]
    /\ sub' = [sub EXCEPT ![pty.to].output = Append(@, pty.seq)]
    /\ UNCHANGED <<sent, reqs, serving, replies, attached>>

PublishSendUncapped ==
    /\ pty.capture = "send"
    /\ pty' = [pty EXCEPT !.capture = "read", !.to = None]
    /\ sub' = [sub EXCEPT ![pty.to].output = Append(@, pty.seq)]
    /\ UNCHANGED <<sent, reqs, serving, replies, attached>>

\* publish outside the lock: it waits for room in the channel or for detach.
PublishSend ==
    /\ pty.capture = "send"
    /\ pty' = [pty EXCEPT !.capture = "read", !.to = None]
    /\ \/ Len(sub[pty.to].output) < OutputCap /\ sub' = [sub EXCEPT ![pty.to].output = Append(@, pty.seq)]
       \/ sub[pty.to].done /\ UNCHANGED sub
    /\ UNCHANGED <<sent, reqs, serving, replies, attached>>

ShellExits ==
    /\ pty.capture = "read" /\ ~pty.eof
    /\ pty' = [pty EXCEPT !.eof = TRUE]
    /\ UNCHANGED <<sent, reqs, serving, replies, attached, sub>>

\* capture leaves its loop: Wait, finish, and the entry of the list.
Finish ==
    /\ pty.capture = "read" /\ pty.eof
    /\ pty' = [pty EXCEPT !.capture = "over", !.listed = FALSE]
    /\ sub' = IF attached = None THEN sub ELSE [sub EXCEPT ![attached].closed = TRUE]
    /\ UNCHANGED <<sent, reqs, serving, replies, attached>>

-----------------------------------------------------------------------------
(* terminal_attach: Attach takes the connection over.                      *)

\* byteRing.Snapshot
Snapshot == SelectSeq([i \in 1..pty.seq |-> i], LAMBDA c : c + RingSize > pty.seq)

\* The lookup and subscribe; the response; the backlog.
Attach(h) ==
    /\ pty.listed /\ pty.capture # "over" /\ attached = None
    /\ attached' = h
    /\ sub' = [sub EXCEPT ![h].conn = "open", ![h].attach = "loop",
                          ![h].wire = IF pty.seq > 0 THEN <<Snapshot>> ELSE <<>>]
    /\ UNCHANGED <<sent, reqs, serving, replies, pty>>

AttachRefused == ~(pty.listed /\ pty.capture # "over" /\ attached = None)

Detached(h) == IF attached = h THEN None ELSE attached

\* A chunk from the channel to the connection, which takes it when there is room.
Forward(h) ==
    /\ sub[h].attach = "loop" /\ sub[h].conn = "open"
    /\ sub[h].output # <<>> /\ Len(sub[h].wire) < WireCap
    /\ sub' = [sub EXCEPT ![h].output = Tail(@), ![h].wire = Append(@, <<Head(sub[h].output)>>)]
    /\ UNCHANGED <<sent, reqs, serving, replies, pty, attached>>

\* The channel is closed and empty: the exit frame ends Attach, and the
\* worker's stream with it.
ForwardExit(h) ==
    /\ sub[h].attach = "loop" /\ sub[h].conn = "open"
    /\ sub[h].output = <<>> /\ sub[h].closed /\ Len(sub[h].wire) < WireCap
    /\ sub' = [sub EXCEPT ![h].wire = Append(@, <<Exit>>), ![h].attach = "end", ![h].done = TRUE,
                          ![h].conn = "closed"]
    /\ attached' = Detached(h)
    /\ UNCHANGED <<sent, reqs, serving, replies, pty>>

\* The worker has closed the connection: a read or a write of Attach fails.
Detach(h) ==
    /\ sub[h].attach = "loop" /\ sub[h].conn = "closed"
    /\ sub' = [sub EXCEPT ![h].attach = "end", ![h].done = TRUE]
    /\ attached' = Detached(h)
    /\ UNCHANGED <<sent, reqs, serving, replies, pty>>

\* The VM is frozen and torn down with everything in it.
GuestGone ==
    /\ reqs' = <<>> /\ serving' = None /\ replies' = <<>> /\ attached' = None
    /\ pty' = [pty EXCEPT !.listed = FALSE, !.capture = "over", !.to = None]
    /\ sub' = [h \in Handlers |-> IF sub[h].conn = "none" THEN sub[h]
                                  ELSE [sub[h] EXCEPT !.conn = "closed", !.attach = "end", !.output = <<>>]]

Guest ==
    \/ ServeOpen \/ ServeClose \/ StopTerminal \/ ServeExec \/ ExecEnds
    \/ PublishSend \/ Finish
    \/ \E h \in Handlers : Forward(h) \/ ForwardExit(h) \/ Detach(h)

Shell == Publish \/ ShellExits
=============================================================================
