------------------------------- MODULE Tunnel -------------------------------
(***************************************************************************)
(* One phone's tunnel after the handshake (internal/bridge/tunnel.go, and  *)
(* run, send and recv of internal/bridge/server.go): the dial of the       *)
(* gateway, the three goroutines that end each other through errc, the     *)
(* requests proxied on goroutines of their own, and the deadlines of       *)
(* every read and write.                                                   *)
(*                                                                         *)
(* The gateway is GatewayService, whose state changes are sent to the      *)
(* tunnel's Watch channel as they happen; Supervisor has the sends apart.  *)
(* Nothing is assumed of the gateway, the phone, the shells or the disk:   *)
(* none need read, write or answer.  A deadline is a step that may come at *)
(* any time while what it limits has not happened, and comes in the end.   *)
(* What a message does elsewhere (CtlName, CtlPush, the shells) is in      *)
(* Admission, PushWatcher and Terminals.  The lock and the sealing of send *)
(* are in SecureChannel: a send that waits has not been written yet.       *)
(***************************************************************************)
EXTENDS Naturals, Sequences

CONSTANTS
  MaxChild, \* bound: gateway children
  Cap,      \* capacity of a Watch channel (8)
  Request,  \* http requests, one each
  Kind      \* what else the phone sends

ASSUME TunnelAssumption ==
  /\ MaxChild \in Nat /\ Cap \in Nat \ {0}
  /\ Kind \subseteq {"ping", "text", "keys", "close"}
  /\ Request \cap (Kind \cup {"", "run", "gateway", "phone", "states"}) = {}

VARIABLES
  state, port, gen, alive, probed, \* GatewayService
  pc,       \* [Process -> Stage]
  base,     \* the port being dialled, then that of the socket; 0 without one
  link,     \* the phone's link is up
  ctx,      \* the tunnel's context is cancelled
  late,     \* gatewayWait is over
  errc,     \* errors in the channel
  watching, \* the Watch channel is registered
  queue,    \* its contents
  reading   \* requests whose goroutine is in ReadDir

serviceVars == <<state, port, gen, alive, probed>>
gwVars      == <<base, late>>
watchVars   == <<watching, queue>>
vars == <<serviceVars, pc, gwVars, link, ctx, errc, watchVars, reading>>

Gateway == INSTANCE GatewayService

\* run and tunnel; gateway to phone; phone to gateway; gateway states; proxyHTTP.
Goroutine == {"gateway", "phone", "states"}
Process == {"run"} \cup Goroutine \cup Request

ErrCap == 3

Stages == [run     |-> {"accepted", "dial", "dialling", "retry", "state", "sorry",
                        "ready", "up", "closing", "cancel", "close", "done"},
           gateway |-> {"none", "read", "forward", "err", "ended"},
           phone   |-> {"none", "recv", "write", "keys", "pong", "err", "ended"},
           states  |-> {"none", "watch", "select", "ping", "news", "bad", "err", "ended"}]

TypeOK ==
  /\ Gateway!TypeOK
  /\ DOMAIN pc = Process
  /\ \A g \in Goroutine \cup {"run"} : pc[g] \in Stages[g]
  /\ \A q \in Request : pc[q] \in {"none", "begin", "resolve", "list", "call", "reply", "ended"}
  /\ base \in 0..MaxChild
  /\ {link, ctx, late, watching} \subseteq BOOLEAN
  /\ errc \in 0..ErrCap
  /\ queue \in Seq({"starting", "ready", "down"}) /\ Len(queue) <= Cap
  /\ reading \in SUBSET Request

Init ==
  /\ Gateway!Init
  /\ pc = [x \in Process |-> IF x = "run" THEN "accepted" ELSE "none"]
  /\ base = 0 /\ link = TRUE /\ ctx = FALSE
  /\ late = FALSE /\ errc = 0 /\ watching = FALSE /\ queue = <<>>
  /\ reading = {}

Goto(x, stage) == pc' = [pc EXCEPT ![x] = stage]

\* There is no socket, or the child at its other end is no longer there.
GatewayGone == ~alive \/ gen # base

-----------------------------------------------------------------------------
(* send, with the deadline of sealAndWrite. *)

\* Where a process goes on when its write has been done, and when it has failed.
Written ==
  [accepted |-> "dial", state |-> "retry", sorry |-> "cancel", ready |-> "up",
   forward |-> "read", pong |-> "recv", ping |-> "select", news |-> "select",
   bad |-> "err", reply |-> "ended"]

NotWritten ==
  [Written EXCEPT !.accepted = "done", !.forward = "err", !.pong = "err",
                  !.ping = "err"]

Sending(x) == pc[x] \in DOMAIN Written

\* The goroutines start once the phone has been told that the gateway is ready.
Continue(x, stage) ==
  pc' = [y \in Process |->
          CASE y = x -> stage
            [] stage = "up" /\ y = "gateway" -> "read"
            [] stage = "up" /\ y = "phone" -> "recv"
            [] stage = "up" /\ y = "states" -> "watch"
            [] OTHER -> pc[y]]

\* The phone's end takes the frame.
Write(x) ==
  /\ Sending(x) /\ link
  /\ Continue(x, Written[pc[x]])
  /\ UNCHANGED <<serviceVars, gwVars, link, ctx, errc, watchVars, reading>>

\* The link has failed or the context has ended, or 30 s are over: a direct phone that
\* has not read for so long is closed; through the relay the time may have gone in the
\* wait for the socket that all phones share, and the link lives.
WriteFails(x) ==
  /\ Sending(x)
  /\ link' \in {FALSE, link}
  /\ Continue(x, NotWritten[pc[x]])
  /\ UNCHANGED <<serviceVars, gwVars, ctx, errc, watchVars, reading>>

-----------------------------------------------------------------------------
(* dialGateway. *)

ReadBase ==
  /\ pc["run"] = "dial"
  /\ base' = port
  /\ Goto("run", IF port # 0 THEN "dialling" ELSE "state")
  /\ UNCHANGED <<serviceVars, late, link, ctx, errc, watchVars, reading>>

Dialled ==
  /\ pc["run"] = "dialling" /\ alive /\ gen = base /\ ~ctx
  /\ late' = FALSE
  /\ Goto("run", "ready")
  /\ UNCHANGED <<serviceVars, base, link, ctx, errc, watchVars, reading>>

\* Refused, or 15 s are over.
DialFails ==
  /\ pc["run"] = "dialling"
  /\ base' = 0
  /\ Goto("run", "retry")
  /\ UNCHANGED <<serviceVars, late, link, ctx, errc, watchVars, reading>>

\* Variant: there is always another attempt.
RetryAlways ==
  /\ pc["run"] = "retry"
  /\ Goto("run", IF ctx THEN "sorry" ELSE "dial")
  /\ UNCHANGED <<serviceVars, gwVars, link, ctx, errc, watchVars, reading>>

\* The deadline is looked at between attempts, the context while waiting.
Retry ==
  /\ pc["run"] = "retry"
  /\ Goto("run", IF late \/ ctx THEN "sorry" ELSE "dial")
  /\ UNCHANGED <<serviceVars, gwVars, link, ctx, errc, watchVars, reading>>

Deadline ==
  /\ ~late /\ pc["run"] \in {"dial", "dialling", "state", "retry"}
  /\ late' = TRUE
  /\ UNCHANGED <<serviceVars, pc, base, link, ctx, errc, watchVars, reading>>

-----------------------------------------------------------------------------
(* The end of tunnel and run. *)

TakeError ==
  /\ pc["run"] = "up" /\ errc > 0
  /\ errc' = errc - 1
  /\ Goto("run", "closing")
  /\ UNCHANGED <<serviceVars, gwVars, link, ctx, watchVars, reading>>

\* closeAll ends the shells, then the gateway socket is closed.
CloseGateway ==
  /\ pc["run"] = "closing"
  /\ base' = 0
  /\ Goto("run", "cancel")
  /\ UNCHANGED <<serviceVars, late, link, ctx, errc, watchVars, reading>>

CancelContext ==
  /\ pc["run"] = "cancel"
  /\ ctx' = TRUE
  /\ Goto("run", "close")
  /\ UNCHANGED <<serviceVars, gwVars, link, errc, watchVars, reading>>

CloseLink ==
  /\ pc["run"] = "close"
  /\ link' = FALSE
  /\ Goto("run", "done")
  /\ UNCHANGED <<serviceVars, gwVars, ctx, errc, watchVars, reading>>

Unwatch == watching' = FALSE /\ queue' = <<>>


\* A goroutine leaves its error and ends; the deferred Unwatch of the third.
Report(g) ==
  /\ pc[g] = "err" /\ errc < ErrCap
  /\ errc' = errc + 1
  /\ IF g = "states" THEN Unwatch ELSE UNCHANGED watchVars
  /\ Goto(g, "ended")
  /\ UNCHANGED <<serviceVars, gwVars, link, ctx, reading>>

-----------------------------------------------------------------------------
(* Gateway to phone. *)

GatewaySpeaks ==
  /\ pc["gateway"] = "read" /\ ~GatewayGone /\ ~ctx
  /\ Goto("gateway", "forward")
  /\ UNCHANGED <<serviceVars, gwVars, link, ctx, errc, watchVars, reading>>

\* Variant: the goroutine ends without an error.
GatewayReadQuits ==
  /\ pc["gateway"] = "read"
  /\ Goto("gateway", "ended")
  /\ UNCHANGED <<serviceVars, gwVars, link, ctx, errc, watchVars, reading>>

\* The gateway is gone, has closed the socket, or sends more than the limit; or the
\* context has ended.
GatewayReadFails ==
  /\ pc["gateway"] = "read"
  /\ Goto("gateway", "err")
  /\ UNCHANGED <<serviceVars, gwVars, link, ctx, errc, watchVars, reading>>

-----------------------------------------------------------------------------
(* Phone to gateway: recv and dispatch. *)

\* The next message; "close" stands for each that dispatch answers with an error.
Dispatch ==
  /\ pc["phone"] = "recv" /\ link
  /\ \/ \E q \in Request : pc[q] = "none" /\ Goto(q, "begin")
     \/ "text" \in Kind /\ Goto("phone", "write")
     \/ "keys" \in Kind /\ Goto("phone", "keys")
     \/ "ping" \in Kind /\ Goto("phone", "pong")
     \/ "close" \in Kind /\ Goto("phone", "err")
  /\ UNCHANGED <<serviceVars, gwVars, link, ctx, errc, watchVars, reading>>

\* The phone is gone, or disconnected by a revocation; the context has ended; or
\* nothing has come for 100 s, which closes a direct link.
RecvFails ==
  /\ pc["phone"] = "recv"
  /\ link' \in {FALSE, link}
  /\ Goto("phone", "err")
  /\ UNCHANGED <<serviceVars, gwVars, ctx, errc, watchVars, reading>>

GatewayTakes ==
  /\ pc["phone"] = "write" /\ ~GatewayGone
  /\ Goto("phone", "recv")
  /\ UNCHANGED <<serviceVars, gwVars, link, ctx, errc, watchVars, reading>>

\* Variant: the write waits for the gateway.
GatewayWriteWaits ==
  /\ pc["phone"] = "write" /\ (GatewayGone \/ ctx)
  /\ Goto("phone", "err")
  /\ UNCHANGED <<serviceVars, gwVars, link, ctx, errc, watchVars, reading>>

\* The socket or the context has ended, or 30 s are over, which closes the socket.
GatewayWriteFails ==
  /\ pc["phone"] = "write"
  /\ base' = 0
  /\ Goto("phone", "err")
  /\ UNCHANGED <<serviceVars, late, link, ctx, errc, watchVars, reading>>

\* terminalManager.write: no deadline.  The shell reads its keys, or is gone.
KeysTaken ==
  /\ pc["phone"] = "keys"
  /\ Goto("phone", "recv")
  /\ UNCHANGED <<serviceVars, gwVars, link, ctx, errc, watchVars, reading>>

KeysReturn == pc["run"] \in {"cancel", "close", "done"} /\ KeysTaken

-----------------------------------------------------------------------------
(* Gateway states and pings. *)

Watch ==
  /\ pc["states"] = "watch"
  /\ watching' = TRUE
  /\ Goto("states", "select")
  /\ UNCHANGED <<serviceVars, gwVars, link, ctx, errc, queue, reading>>

Tick ==
  /\ pc["states"] = "select"
  /\ Goto("states", "ping")
  /\ UNCHANGED <<serviceVars, gwVars, link, ctx, errc, watchVars, reading>>

TakeState ==
  /\ pc["states"] = "select" /\ queue # <<>>
  /\ queue' = Tail(queue)
  /\ Goto("states", IF Head(queue) = "ready" THEN "news" ELSE "bad")
  /\ UNCHANGED <<serviceVars, gwVars, link, ctx, errc, watching, reading>>

StatesDone ==
  /\ pc["states"] = "select" /\ ctx
  /\ Unwatch
  /\ Goto("states", "ended")
  /\ UNCHANGED <<serviceVars, gwVars, link, ctx, errc, reading>>

-----------------------------------------------------------------------------
(* proxyHTTP. *)

\* A refused route, an unusable path or no gateway is answered at once; a directory
\* is listed here, anything else asked of the gateway.
Begin(q) ==
  /\ pc[q] = "begin"
  /\ \E stage \in {"reply", "resolve"} \cup (IF port # 0 THEN {"call"} ELSE {}) : Goto(q, stage)
  /\ UNCHANGED <<serviceVars, gwVars, link, ctx, errc, watchVars, reading>>

\* The folder's links have been followed, which has no deadline: a goroutine reads it.
Resolved(q) ==
  /\ pc[q] = "resolve"
  /\ Goto(q, "list")
  /\ reading' = reading \cup {q}
  /\ UNCHANGED <<serviceVars, gwVars, link, ctx, errc, watchVars>>

\* It leaves what it has read in a channel with room for it, and ends; the request goes
\* on, if it still waits.
ReadDirReturns(q) ==
  /\ q \in reading
  /\ reading' = reading \ {q}
  /\ pc' = [pc EXCEPT ![q] = IF @ = "list" THEN "reply" ELSE @]
  /\ UNCHANGED <<serviceVars, gwVars, link, ctx, errc, watchVars>>

\* The gateway answers.
Answered(q) ==
  /\ pc[q] = "call"
  /\ Goto(q, "reply")
  /\ UNCHANGED <<serviceVars, gwVars, link, ctx, errc, watchVars, reading>>

\* Variant: a listing waits for the folder.
ListWaits(q) ==
  /\ pc[q] = "call" \/ (pc[q] = "list" /\ ctx)
  /\ Goto(q, "reply")
  /\ UNCHANGED <<serviceVars, gwVars, link, ctx, errc, watchVars, reading>>

\* A listing that takes 10 s, or a call that takes 60 s, is answered with an error; the
\* goroutine that reads the folder stays behind.
TimesOut(q) ==
  /\ pc[q] \in {"list", "call"}
  /\ Goto(q, "reply")
  /\ UNCHANGED <<serviceVars, gwVars, link, ctx, errc, watchVars, reading>>

-----------------------------------------------------------------------------
(* The phone, its link, the gateway and the daemon. *)

\* The state changes, and the channel is sent the change if it has room.
ServiceStep ==
  /\ Gateway!Next
  /\ queue' = IF watching /\ state' # state /\ Len(queue) < Cap
              THEN Append(queue, state') ELSE queue
  /\ UNCHANGED <<pc, gwVars, link, ctx, errc, watching, reading>>

\* The relay's attachment is over (Relay mode only).
ParentCancelled ==
  /\ ~ctx
  /\ ctx' = TRUE
  /\ UNCHANGED <<serviceVars, pc, gwVars, link, errc, watchVars, reading>>

-----------------------------------------------------------------------------
Run ==
  \/ ReadBase \/ Dialled \/ DialFails \/ Retry
  \/ TakeError \/ CloseGateway \/ CancelContext \/ CloseLink

Environment ==
  \/ ServiceStep \/ GatewaySpeaks \/ GatewayTakes \/ KeysTaken
  \/ ParentCancelled \/ Tick
  \/ \E x \in Process : Write(x)
  \/ Dispatch
  \/ \E q \in Request : Resolved(q) \/ ReadDirReturns(q) \/ Answered(q)

Next ==
  \/ Run \/ Deadline
  \/ \E x \in Process : WriteFails(x)
  \/ \E g \in Goroutine : Report(g)
  \/ GatewayReadFails \/ RecvFails \/ GatewayWriteFails
  \/ Watch \/ TakeState \/ StatesDone
  \/ \E q \in Request : Begin(q) \/ TimesOut(q)
  \/ Environment

Spec == Init /\ [][Next]_vars

\* Each goroutine goes on, deadlines pass and the ticker ticks.  A folder need not answer:
\* there is no fairness for Resolved and ReadDirReturns.
GatewayStep ==
  \/ GatewayReadFails /\ (GatewayGone \/ ctx)
  \/ WriteFails("gateway") \/ Report("gateway")

PhoneStep ==
  \/ RecvFails /\ (~link \/ ctx)
  \/ GatewayWriteFails \/ KeysReturn \/ WriteFails("phone") \/ Report("phone")

StatesStep ==
  \/ Watch \/ Tick \/ TakeState \/ StatesDone
  \/ WriteFails("states") \/ Report("states")

Fairness ==
  /\ WF_vars(Run \/ WriteFails("run")) /\ WF_vars(Deadline)
  /\ WF_vars(GatewayStep)
  /\ WF_vars(PhoneStep)
  /\ WF_vars(StatesStep)
  /\ \A q \in Request : WF_vars(Begin(q) \/ TimesOut(q) \/ WriteFails(q))

FairSpec == Spec /\ Fairness

-----------------------------------------------------------------------------
(* What a tunnel promises. *)

\* "This connection's gateway socket is gone with the child" (tunnel.go:93-94): a
\* tunnel whose gateway is gone ends, even if the child was replaced between the
\* dial and the call of Watch, and neither the phone nor the new child moves.
TunnelEndsWithGateway == pc["run"] = "up" /\ GatewayGone ~> pc["run"] = "done"

\* The phone is told one way or the other: the dial of the gateway ends, within
\* gatewayWait (tunnel.go:107-131), however often the child is restarted.
DialEnds ==
  pc["run"] \in {"accepted", "dial"} ~> pc["run"] \in {"up", "done"}

\* A request whose folder never answers the first question, where it is.
Stuck(q) == [](pc[q] = "resolve")


\* Every request that has been dispatched is answered, whatever the gateway does and even
\* if the folder is never read (fs.go:62-71), unless its path is never resolved or the
\* tunnel ends.  An answer whose write fails is one too: on a living link its phone meets
\* the gap it leaves (SecureChannel).
RequestsAreAnswered ==
  \A q \in Request :
    pc[q] = "begin" ~> pc[q] = "ended" \/ pc["run"] = "done" \/ Stuck(q)

\* The read loop comes back to the phone, even when the gateway does not read and
\* the phone does not read its answers (tunnel.go:138-157, server.go:252-261),
\* unless the tunnel ends.
PhoneIsHeard ==
  pc["phone"] \in {"write", "pong"} ~> pc["phone"] = "recv" \/ pc["run"] = "done"

\* A phone that pings is ponged (tunnel.go:155-157), so every message must let the
\* read loop come back; but pty.go:158 writes to the shell in that loop, with no
\* deadline, and a shell that does not read its keys holds up everything else.
AlwaysHeard ==
  pc["phone"] \in {"write", "pong", "keys"} ~>
    pc["phone"] = "recv" \/ pc["run"] = "done"

\* fs.go:20: "a slow folder fails alone, in time".  But fs.go:52 resolves the path before
\* the deadline of fs.go:67 begins, and links are followed on the folder's own disk: the
\* request is never answered.
FolderFailsInTime ==
  \A q \in Request :
    pc[q] = "resolve" ~> pc[q] = "ended" \/ pc["run"] = "done"

=============================================================================
