----------------------------- MODULE Supervisor -----------------------------
(***************************************************************************)
(* The supervisor of the gateway child (internal/gateway/supervisor.go):   *)
(* Run starts a child, waits for its sentinel, probes it, serves it until  *)
(* it exits and starts the next one; a watchdog per ready child kills it   *)
(* after ProbeFailures misses in a row; Stop, which the daemon calls once  *)
(* its context is cancelled (cmd/hermes-remote/daemon.go:113-118); and the *)
(* watchers, one per tunnel, that are told of every change of state.       *)
(*                                                                         *)
(* Children are numbered in the order they are started, and a child's port *)
(* is its number.  Backoff times, logs and the child's output are left     *)
(* out.  SIGINT asks a child to exit, which it may do at any time and need *)
(* not do at all, so sending it changes nothing here.                      *)
(***************************************************************************)
EXTENDS Naturals, Sequences

CONSTANTS
  Watcher,       \* readers of the channels handed out by Watch
  Cap,           \* capacity of such a channel (8)
  ProbeFailures, \* misses in a row that end a child (3)
  MaxChild       \* bound: children started

ASSUME SupervisorAssumption ==
  Cap \in Nat \ {0} /\ ProbeFailures \in Nat \ {0} /\ MaxChild \in Nat

VARIABLES
  \* Supervisor.mu
  state,     \* "starting" | "ready" | "down"
  port,      \* the port of state, 0 for none
  watchers,  \* Supervisor.watchers
  cmd,       \* Supervisor.cmd: a child, 0 for none
  \* Run and runOnce
  run,       \* RunStage
  cur,       \* runOnce's child, 0 before the first
  sending,   \* watchers setState has still to send to
  \* the children
  child,     \* [Child -> "none" | "running" | "exited"]
  answers,   \* children that answer probes
  announced, \* children whose sentinel has been read
  killed,    \* children sent SIGKILL
  watchdog,  \* [Child -> "none" | "on" | "kill" | "off"]
  misses,    \* [Child -> 0..ProbeFailures]
  \* the daemon
  cancelled, \* its context
  stop,      \* Stop: "no" | "closed" | "grace" | "done"
  stopCmd,   \* the child Stop has in hand
  \* the readers of Watch
  queue,     \* [Watcher -> Seq(State)]
  since,     \* history: [Watcher -> port when it called Watch]
  heard      \* history: watchers sent a state that is not ready

stateVars == <<state, port, watchers, cmd>>
childVars == <<child, answers, announced, killed>>
dogVars   == <<watchdog, misses>>
stopVars  == <<cancelled, stop, stopCmd>>
readVars  == <<queue, since, heard>>
vars == <<stateVars, run, cur, sending, childVars, dogVars, stopVars, readVars>>

Child == 1..MaxChild
State == {"starting", "ready", "down"}
RunStage == {"top", "spawn", "assign", "select", "probe", "ready", "serve",
             "reap", "returned", "backoff", "done"}

TypeOK ==
  /\ state \in State /\ port \in 0..MaxChild
  /\ watchers \in SUBSET Watcher /\ cmd \in 0..MaxChild
  /\ run \in RunStage /\ cur \in 0..MaxChild
  /\ sending \in SUBSET Watcher
  /\ child \in [Child -> {"none", "running", "exited"}]
  /\ answers \in SUBSET Child /\ announced \in SUBSET Child
  /\ killed \in SUBSET Child
  /\ watchdog \in [Child -> {"none", "on", "kill", "off"}]
  /\ misses \in [Child -> 0..ProbeFailures]
  /\ cancelled \in BOOLEAN
  /\ stop \in {"no", "closed", "grace", "done"} /\ stopCmd \in 0..MaxChild
  /\ queue \in [Watcher -> Seq(State)] /\ \A w \in Watcher : Len(queue[w]) <= Cap
  /\ since \in [Watcher -> 0..MaxChild]
  /\ heard \in SUBSET Watcher

Init ==
  /\ state = "down" /\ port = 0 /\ watchers = {} /\ cmd = 0
  /\ run = "top" /\ cur = 0 /\ sending = {}
  /\ child = [c \in Child |-> "none"]
  /\ answers = {} /\ announced = {} /\ killed = {}
  /\ watchdog = [c \in Child |-> "none"] /\ misses = [c \in Child |-> 0]
  /\ cancelled = FALSE /\ stop = "no" /\ stopCmd = 0
  /\ queue = [w \in Watcher |-> <<>>]
  /\ since = [w \in Watcher |-> 0] /\ heard = {}

-----------------------------------------------------------------------------
(* setState and the watchers. *)

\* Variant: only a ready child is worth a message.
SetStateReadyOnly(st, p) ==
  /\ state' = st /\ port' = p
  /\ sending' = IF st = "ready" THEN watchers ELSE {}
  /\ UNCHANGED <<watchers, cmd>>

\* The state and a copy of the watchers, under the lock; the sends follow.
SetState(st, p) ==
  /\ state' = st /\ port' = p
  /\ sending' = watchers
  /\ UNCHANGED <<watchers, cmd>>

\* One send, which drops the state if the channel is full.
Notify(w) ==
  /\ w \in sending
  /\ sending' = sending \ {w}
  /\ IF Len(queue[w]) < Cap
     THEN /\ queue' = [queue EXCEPT ![w] = Append(@, state)]
          /\ heard' = IF state = "ready" THEN heard ELSE heard \cup {w}
     ELSE UNCHANGED <<queue, heard>>
  /\ UNCHANGED <<stateVars, run, cur, childVars, dogVars, stopVars, since>>

\* A watcher is a new channel each time: it is free for Watch again only when
\* no send to the old one is under way.
Watch(w) ==
  /\ w \notin watchers \cup sending
  /\ watchers' = watchers \cup {w}
  /\ since' = [since EXCEPT ![w] = IF state = "ready" THEN port ELSE 0]
  /\ heard' = heard \ {w}
  /\ queue' = [queue EXCEPT ![w] = <<>>]
  /\ UNCHANGED <<state, port, cmd, run, cur, sending, childVars, dogVars, stopVars>>

Unwatch(w) ==
  /\ w \in watchers
  /\ watchers' = watchers \ {w}
  /\ UNCHANGED <<state, port, cmd, run, cur, sending, childVars, dogVars,
                 stopVars, readVars>>

Receive(w) ==
  /\ w \in watchers /\ queue[w] # <<>>
  /\ queue' = [queue EXCEPT ![w] = Tail(@)]
  /\ UNCHANGED <<stateVars, run, cur, sending, childVars, dogVars, stopVars,
                 since, heard>>

-----------------------------------------------------------------------------
(* Run and runOnce.  Run goes on only when setState has sent to everyone. *)

At(stage) == run = stage /\ sending = {}

Goto(stage) == run' = stage /\ UNCHANGED cur

Stopped == stop # "no"

\* Process.Kill does nothing to a child that is gone.
Kill(c) == killed' = IF child[c] = "running" THEN killed \cup {c} ELSE killed

\* runOnce begins.
Top ==
  /\ At("top")
  /\ SetState("starting", 0)
  /\ Goto("spawn")
  /\ UNCHANGED <<childVars, dogVars, stopVars, readVars>>

\* cmd.Start, which fails once the context is cancelled.
Spawn ==
  /\ At("spawn") /\ ~cancelled /\ cur < MaxChild
  /\ cur' = cur + 1
  /\ run' = "assign"
  /\ child' = [child EXCEPT ![cur + 1] = "running"]
  /\ answers' = answers \cup {cur + 1}
  /\ UNCHANGED <<stateVars, sending, announced, killed, dogVars, stopVars, readVars>>

SpawnFails ==
  /\ At("spawn")
  /\ Goto("returned")
  /\ UNCHANGED <<stateVars, sending, childVars, dogVars, stopVars, readVars>>

Assign ==
  /\ At("assign")
  /\ cmd' = cur
  /\ Goto("select")
  /\ UNCHANGED <<state, port, watchers, sending, childVars, dogVars, stopVars, readVars>>

SelectPort ==
  /\ At("select") /\ cur \in announced
  /\ Goto("probe")
  /\ UNCHANGED <<stateVars, sending, childVars, dogVars, stopVars, readVars>>

SelectExit ==
  /\ At("select") /\ child[cur] = "exited"
  /\ Goto("returned")
  /\ UNCHANGED <<stateVars, sending, childVars, dogVars, stopVars, readVars>>

\* Variant: runOnce does not wait for the child it kills.
SelectTimeoutNoWait ==
  /\ At("select")
  /\ Kill(cur)
  /\ Goto("returned")
  /\ UNCHANGED <<stateVars, sending, child, answers, announced, dogVars,
                 stopVars, readVars>>

\* The sentinel is not seen in time.
SelectTimeout ==
  /\ At("select")
  /\ Kill(cur)
  /\ Goto("reap")
  /\ UNCHANGED <<stateVars, sending, child, answers, announced, dogVars,
                 stopVars, readVars>>

\* stop is closed: SIGINT.
SelectStop ==
  /\ At("select") /\ Stopped
  /\ Goto("reap")
  /\ UNCHANGED <<stateVars, sending, childVars, dogVars, stopVars, readVars>>

\* The probe is answered.
ProbeOK ==
  /\ At("probe") /\ child[cur] = "running" /\ cur \in answers /\ ~cancelled
  /\ Goto("ready")
  /\ UNCHANGED <<stateVars, sending, childVars, dogVars, stopVars, readVars>>

\* setState(StateReady, port), whatever has become of the child since it answered.
AnnounceReady ==
  /\ At("ready")
  /\ SetState("ready", cur)
  /\ Goto("serve")
  /\ UNCHANGED <<childVars, dogVars, stopVars, readVars>>

\* The child is slow, gated or gone, or the context is cancelled.
ProbeFails ==
  /\ At("probe")
  /\ Kill(cur)
  /\ Goto("reap")
  /\ UNCHANGED <<stateVars, sending, child, answers, announced, dogVars,
                 stopVars, readVars>>

\* The watchdog starts.
Serve ==
  /\ At("serve")
  /\ watchdog' = [watchdog EXCEPT ![cur] = "on"]
  /\ Goto("reap")
  /\ UNCHANGED <<stateVars, sending, childVars, misses, stopVars, readVars>>

\* cmd.Wait has returned.
Reap ==
  /\ At("reap") /\ child[cur] = "exited"
  /\ Goto("returned")
  /\ UNCHANGED <<stateVars, sending, childVars, dogVars, stopVars, readVars>>

\* Variant: the state stays what it was while Run backs off.
ReturnedQuietly ==
  /\ At("returned")
  /\ Goto(IF cancelled \/ Stopped THEN "done" ELSE "backoff")
  /\ announced' = announced \ {cur}
  /\ UNCHANGED <<stateVars, sending, child, answers, killed, dogVars, stopVars, readVars>>

\* runOnce has returned, and its portCh is gone: Run ends, or goes down and
\* backs off.
Returned ==
  /\ At("returned")
  /\ IF cancelled \/ Stopped
     THEN Goto("done") /\ UNCHANGED <<stateVars, sending>>
     ELSE Goto("backoff") /\ SetState("down", 0)
  /\ announced' = announced \ {cur}
  /\ UNCHANGED <<child, answers, killed, dogVars, stopVars, readVars>>

Backoff ==
  /\ At("backoff")
  /\ \/ Goto("top")
     \/ (cancelled \/ Stopped) /\ Goto("done")
  /\ UNCHANGED <<stateVars, sending, childVars, dogVars, stopVars, readVars>>

RunStep ==
  \/ Top \/ Spawn \/ SpawnFails \/ Assign
  \/ SelectPort \/ SelectExit \/ SelectTimeout \/ SelectStop
  \/ ProbeOK \/ AnnounceReady \/ ProbeFails \/ Serve \/ Reap \/ Returned \/ Backoff

-----------------------------------------------------------------------------
(* The watchdog of a ready child. *)

\* runOnce has closed exited, or the context or stop has ended.
WatchEnds(c) ==
  /\ watchdog[c] = "on"
  /\ cancelled \/ Stopped \/ ~(run = "reap" /\ cur = c)
  /\ watchdog' = [watchdog EXCEPT ![c] = "off"]
  /\ misses' = [misses EXCEPT ![c] = 0]
  /\ UNCHANGED <<stateVars, run, cur, sending, childVars, stopVars, readVars>>

ProbeHit(c) ==
  /\ watchdog[c] = "on" /\ child[c] = "running" /\ c \in answers
  /\ misses' = [misses EXCEPT ![c] = 0]
  /\ UNCHANGED <<stateVars, run, cur, sending, childVars, watchdog, stopVars, readVars>>

\* Variant: every miss counts as the first.
ProbeMissForgets(c) ==
  /\ watchdog[c] = "on"
  /\ misses' = [misses EXCEPT ![c] = 1]
  /\ UNCHANGED <<stateVars, run, cur, sending, childVars, watchdog, stopVars, readVars>>

\* A probe fails; even a child that answers may be too slow.
ProbeMiss(c) ==
  /\ watchdog[c] = "on"
  /\ misses' = [misses EXCEPT ![c] = @ + 1]
  /\ watchdog' = [watchdog EXCEPT ![c] = IF misses[c] + 1 >= ProbeFailures THEN "kill" ELSE @]
  /\ UNCHANGED <<stateVars, run, cur, sending, childVars, stopVars, readVars>>

WatchKills(c) ==
  /\ watchdog[c] = "kill"
  /\ watchdog' = [watchdog EXCEPT ![c] = "off"]
  /\ misses' = [misses EXCEPT ![c] = 0]
  /\ Kill(c)
  /\ UNCHANGED <<stateVars, run, cur, sending, child, answers, announced, stopVars, readVars>>

Watchdog(c) == WatchEnds(c) \/ ProbeHit(c) \/ ProbeMiss(c) \/ WatchKills(c)

-----------------------------------------------------------------------------
(* The children. *)

Announce(c) ==
  /\ child[c] = "running" /\ c \notin announced
  /\ announced' = announced \cup {c}
  /\ UNCHANGED <<stateVars, run, cur, sending, child, answers, killed, dogVars,
                 stopVars, readVars>>

\* The child's event loop stalls for good: the process lives, probes time out.
Hang(c) ==
  /\ child[c] = "running" /\ c \in answers
  /\ answers' = answers \ {c}
  /\ UNCHANGED <<stateVars, run, cur, sending, child, announced, killed, dogVars,
                 stopVars, readVars>>

Exit(c) ==
  /\ child[c] = "running"
  /\ child' = [child EXCEPT ![c] = "exited"]
  /\ answers' = answers \ {c} /\ killed' = killed \ {c}
  /\ UNCHANGED <<stateVars, run, cur, sending, announced, dogVars, stopVars, readVars>>

Killed(c) == c \in killed /\ Exit(c)

-----------------------------------------------------------------------------
(* The daemon shuts down. *)

Cancel ==
  /\ ~cancelled
  /\ cancelled' = TRUE
  /\ UNCHANGED <<stateVars, run, cur, sending, childVars, dogVars, stop, stopCmd, readVars>>

\* Variant: the command is not bound to the context.
ContextIgnored(c) == FALSE /\ c \in killed /\ UNCHANGED vars

\* exec.CommandContext kills the child when the context is cancelled.
ContextKills(c) ==
  /\ cancelled /\ child[c] = "running" /\ c \notin killed
  /\ Kill(c)
  /\ UNCHANGED <<stateVars, run, cur, sending, child, answers, announced, dogVars,
                 stopVars, readVars>>

StopCloses ==
  /\ cancelled /\ stop = "no"
  /\ stop' = "closed"
  /\ UNCHANGED <<stateVars, run, cur, sending, childVars, dogVars, cancelled,
                 stopCmd, readVars>>

StopReads ==
  /\ stop = "closed"
  /\ stop' = "grace"
  /\ stopCmd' = cmd
  /\ UNCHANGED <<stateVars, run, cur, sending, childVars, dogVars, cancelled, readVars>>

\* After StopGrace, the child Stop has in hand is killed.
StopKills ==
  /\ stop = "grace" /\ stopCmd # 0 /\ child[stopCmd] = "running"
  /\ Kill(stopCmd)
  /\ UNCHANGED <<stateVars, run, cur, sending, child, answers, announced, dogVars,
                 stopVars, readVars>>

StopReturns ==
  /\ stop = "grace" /\ run = "done"
  /\ stop' = "done"
  /\ UNCHANGED <<stateVars, run, cur, sending, childVars, dogVars, cancelled,
                 stopCmd, readVars>>

StopStep == StopCloses \/ StopReads \/ StopKills \/ StopReturns

-----------------------------------------------------------------------------
Next ==
  \/ RunStep \/ StopStep \/ Cancel
  \/ \E w \in Watcher : Notify(w) \/ Watch(w) \/ Unwatch(w) \/ Receive(w)
  \/ \E c \in Child :
       Watchdog(c) \/ Announce(c) \/ Hang(c) \/ Exit(c) \/ ContextKills(c)

Spec == Init /\ [][Next]_vars

\* The goroutines go on, SIGKILL arrives.  A child need not announce itself,
\* answer or exit, and nobody need stop the daemon.
Fairness ==
  /\ WF_vars(RunStep) /\ WF_vars(StopStep)
  /\ \A w \in Watcher : WF_vars(Notify(w))
  /\ \A c \in Child : /\ WF_vars(Watchdog(c)) /\ WF_vars(Killed(c))
                      /\ WF_vars(ContextKills(c))

FairSpec == Spec /\ Fairness

-----------------------------------------------------------------------------
(* What the supervisor promises. *)

\* No two children run at once, and none outlives Run: every way out of runOnce
\* waits for the child it started (supervisor.go:275-303).
OneChild ==
  /\ \A c \in Child : child[c] = "running" => c = cur
  /\ run \in {"top", "spawn", "returned", "backoff", "done"} =>
       \A c \in Child : child[c] # "running"

\* A tunnel that was bound to one child's port when it called Watch is told, by
\* a state that is not "ready", before the port is that of another child or none
\* (supervisor.go:156-167, tunnel.go:90-97).
ChangeIsHeard ==
  \A w \in watchers : since[w] # 0 /\ port # since[w] => w \in sending \cup heard

\* A ready child that has stopped answering is ended, and Run does not stay
\* "ready" for it (supervisor.go:43-47), unless the daemon shuts down.
HungChildIsEnded ==
  \A c \in Child :
    state = "ready" /\ port = c /\ c \notin answers
      ~> child[c] = "exited" /\ (state # "ready" \/ cancelled)

\* Once the daemon's context is cancelled Run ends and Stop returns, whatever
\* runOnce was doing and even if the child ignores SIGINT (supervisor.go:214-224).
StopReturnsEventually == cancelled ~> run = "done" /\ stop = "done"

\* What the other parts of the bridge rely on: the supervisor implements
\* GatewayService.  The port announced is that of the latest child, which has answered
\* a probe though it may have died since, and the state leaves a child only when that
\* child is gone (supervisor.go:109-130, 171-183, 275-283).
Service == INSTANCE GatewayService WITH
  gen    <- cur,
  alive  <- cur # 0 /\ child[cur] = "running",
  probed <- run = "ready"

IsAService == Service!Spec

-----------------------------------------------------------------------------
(* The inductive invariant. *)

\* What the state says of where Run is: a child is in hand from Spawn to Reap, and the
\* state is its own from AnnounceReady to Returned.
Phases ==
  /\ run \in {"assign", "select", "probe", "ready", "serve", "reap"} => cur # 0
  /\ run \in {"top", "backoff"} => state = "down" /\ port = 0
  /\ run \in {"spawn", "assign", "select", "probe", "ready"} => state = "starting" /\ port = 0
  /\ run = "serve" => state = "ready"
  /\ run \in {"reap", "returned"} => state # "down"
  /\ state = "ready" => port = cur /\ cur # 0

\* A watchdog that still counts has counted less than it takes, and there is none before
\* the child serves.
FewMisses ==
  \A c \in Child :
    /\ watchdog[c] # "kill" => misses[c] < ProbeFailures
    /\ c > cur \/ (c = cur /\ run \in {"assign", "select", "probe", "ready", "serve"}) =>
         watchdog[c] = "none"

\* A watcher of a ready child that has been told nothing: the port is still that child's,
\* or the news is about to be sent to it, and its channel has room.
NotYetHeard ==
  \A w \in watchers : since[w] # 0 /\ w \notin heard =>
    /\ queue[w] = <<>>
    /\ IF w \in sending THEN state # "ready" ELSE state = "ready" /\ port = since[w]

SupervisorInv == TypeOK /\ FewMisses /\ OneChild /\ Phases /\ NotYetHeard

=============================================================================
