------------------------------- MODULE Daemon -------------------------------
(***************************************************************************)
(* The life of the daemon and the commands that start and stop it:         *)
(* runDaemon (cmd/hermes-remote/daemon.go), its control socket             *)
(* (internal/control/control.go), the LaunchAgent                          *)
(* (internal/launchd/launchd.go), and the commands up, stop, restart,      *)
(* uninstall and devices revoke (cmd/hermes-remote/main.go).               *)
(*                                                                         *)
(* launchd and launchctl are external.  What is taken from their use: a    *)
(* loaded job has one instance at a time, which is started again when it   *)
(* ends (KeepAlive); bootout asks the instance to end and the job is       *)
(* unloaded when it has; kickstart -k ends the instance and returns once   *)
(* the next one has been started.  SIGKILL, a panic and a power cut are    *)
(* one step, Die, that may come at any time.  A configuration is the       *)
(* number of the `up` that saved it.  What the gateway, the relay and the  *)
(* push loops do is in Supervisor, RelayLink and PushWatcher.              *)
(***************************************************************************)
EXTENDS Naturals

CONSTANTS
  MaxProc, \* bound: daemon processes, numbered in the order of their starts
  ByHand,  \* those started with `hermes-remote daemon` in a terminal
  MaxUp    \* bound: runs of `hermes-remote up`

ASSUME DaemonAssumption == MaxProc \in Nat /\ MaxUp \in Nat /\ ByHand \subseteq 1..MaxProc

VARIABLES
  \* runDaemon
  stage,     \* [Proc -> where its main goroutine is]
  conf,      \* [Proc -> the configuration it has read]
  cancelled, \* processes whose context is cancelled
  loops,     \* [Proc -> the loops that have not returned]
  http,      \* [Proc -> the bridge's listener]
  \* control.Serve
  ctl,       \* [Proc -> where it is]
  closer,    \* [Proc -> the goroutine it leaves behind]
  \* the machine
  saved,     \* config.json
  path,      \* control.sock: the process whose socket it is, 0 for no file
  port,      \* the process that listens on the bridge port, 0 for none
  job,       \* the LaunchAgent: "unloaded" | "loaded" | "leaving"
  inst,      \* its last instance
  \* the commands
  up,        \* cmdUp
  old,       \* the instance that kickstart -k ends
  shown      \* the process that up has had an answer from

procVars == <<stage, conf, cancelled, loops>>
ctlVars  == <<ctl, closer, path>>
jobVars  == <<job, inst>>
upVars   == <<saved, up, old, shown>>
vars == <<procVars, http, port, ctlVars, jobVars, upVars>>

Proc == 1..MaxProc
Loop == {"gateway", "relay", "push"}

TypeOK ==
  /\ stage \in [Proc -> {"new", "boot", "run", "shutdown", "stop", "join", "gone"}]
  /\ conf \in [Proc -> 0..MaxUp]
  /\ cancelled \subseteq Proc
  /\ loops \in [Proc -> SUBSET Loop]
  /\ http \in [Proc -> {"none", "listen", "serve", "ended"}]
  /\ ctl \in [Proc -> {"none", "remove", "listen", "chmod", "serve", "ended"}]
  /\ closer \in [Proc -> {"none", "wait", "remove", "done"}]
  /\ saved \in 0..MaxUp
  /\ {path, port, inst, old, shown} \subseteq 0..MaxProc
  /\ job \in {"unloaded", "loaded", "leaving"}
  /\ up \in {"idle", "install", "unload", "bootstrap", "kick", "kicked", "wait",
             "pair", "done", "failed"}

Init ==
  /\ stage = [p \in Proc |-> "new"] /\ conf = [p \in Proc |-> 0]
  /\ cancelled = {} /\ loops = [p \in Proc |-> {}]
  /\ http = [p \in Proc |-> "none"]
  /\ ctl = [p \in Proc |-> "none"] /\ closer = [p \in Proc |-> "none"]
  /\ path = 0 /\ port = 0 /\ job = "unloaded" /\ inst = 0
  /\ saved = 0 /\ up = "idle" /\ old = 0 /\ shown = 0

Alive(p) == stage[p] \notin {"new", "gone"}

\* What a process that is no more leaves: its socket's file, and nothing else.
Exit(p) ==
  /\ stage' = [stage EXCEPT ![p] = "gone"]
  /\ cancelled' = cancelled \ {p}
  /\ loops' = [loops EXCEPT ![p] = {}]
  /\ http' = [http EXCEPT ![p] = "ended"]
  /\ port' = IF port = p THEN 0 ELSE port
  /\ ctl' = [ctl EXCEPT ![p] = "ended"]
  /\ closer' = [closer EXCEPT ![p] = "done"]
  /\ UNCHANGED <<conf, path>>

\* A signal before NotifyContext ends the process; later it cancels the context.
Terminate(p) ==
  IF stage[p] = "boot"
  THEN Exit(p)
  ELSE /\ cancelled' = cancelled \cup {p}
       /\ UNCHANGED <<stage, conf, loops, http, port, ctlVars>>

-----------------------------------------------------------------------------
(* runDaemon. *)

\* The configuration is read once, and what it starts runs side by side; the relay
\* dialer and the push watcher only if they are set up.
Boot(p) ==
  /\ stage[p] = "boot" /\ saved > 0
  /\ stage' = [stage EXCEPT ![p] = "run"]
  /\ conf' = [conf EXCEPT ![p] = saved]
  /\ \E more \in SUBSET {"relay", "push"} :
       loops' = [loops EXCEPT ![p] = {"gateway"} \cup more]
  /\ http' = [http EXCEPT ![p] = "listen"]
  /\ ctl' = [ctl EXCEPT ![p] = "remove"]
  /\ UNCHANGED <<cancelled, port, closer, path, jobVars, upVars>>

\* Not configured, or a file that cannot be read.
BootFails(p) ==
  /\ stage[p] = "boot" /\ Exit(p) /\ UNCHANGED <<jobVars, upVars>>

\* ListenAndServe: nothing is served once Shutdown has been called.
HttpListens(p) ==
  /\ http[p] = "listen" /\ stage[p] = "run" /\ port = 0
  /\ http' = [http EXCEPT ![p] = "serve"]
  /\ port' = p
  /\ UNCHANGED <<procVars, ctlVars, jobVars, upVars>>

HttpClosed(p) ==
  /\ http[p] = "listen" /\ stage[p] # "run"
  /\ http' = [http EXCEPT ![p] = "ended"]
  /\ UNCHANGED <<procVars, port, ctlVars, jobVars, upVars>>

\* The port is another program's, or another daemon's, or the listener fails later, and
\* is closed: the daemon stops.
HttpFails(p) ==
  /\ http[p] \in {"listen", "serve"}
  /\ http' = [http EXCEPT ![p] = "ended"]
  /\ port' = IF port = p THEN 0 ELSE port
  /\ cancelled' = cancelled \cup {p}
  /\ UNCHANGED <<stage, conf, loops, ctlVars, jobVars, upVars>>

\* sup.Run, relay.Run and watcher.Run return once the context is cancelled.
LoopReturns(p) ==
  /\ p \in cancelled
  /\ \E l \in loops[p] : loops' = [loops EXCEPT ![p] = @ \ {l}]
  /\ UNCHANGED <<stage, conf, cancelled, http, port, ctlVars, jobVars, upVars>>

\* <-ctx.Done, and httpSrv.Shutdown closes the listener.
Shutdown(p) ==
  /\ stage[p] = "run" /\ p \in cancelled
  /\ stage' = [stage EXCEPT ![p] = "shutdown"]
  /\ http' = [http EXCEPT ![p] = IF @ = "serve" THEN "ended" ELSE @]
  /\ port' = IF port = p THEN 0 ELSE port
  /\ UNCHANGED <<conf, cancelled, loops, ctlVars, jobVars, upVars>>

\* Shutdown returns within 5 s, and then sup.Stop.
StopGateway(p) ==
  /\ stage[p] \in {"shutdown", "stop"}
  /\ stage' = [stage EXCEPT ![p] = IF @ = "shutdown" THEN "stop" ELSE "join"]
  /\ UNCHANGED <<conf, cancelled, loops, http, port, ctlVars, jobVars, upVars>>

\* wg.Wait, which does not wait for the goroutine control.Serve leaves behind.
Return(p) ==
  /\ stage[p] = "join"
  /\ loops[p] = {} /\ http[p] = "ended" /\ ctl[p] = "ended"
  /\ Exit(p)
  /\ UNCHANGED <<jobVars, upVars>>

\* SIGKILL, a panic, a power cut.
Die(p) == Alive(p) /\ Exit(p) /\ UNCHANGED <<jobVars, upVars>>

-----------------------------------------------------------------------------
(* control.Serve. *)

\* Variant: the file is left to the listener, which removes it when it is closed.
SocketKept(p) ==
  /\ ctl[p] = "remove"
  /\ ctl' = [ctl EXCEPT ![p] = "listen"]
  /\ UNCHANGED <<procVars, http, port, closer, path, jobVars, upVars>>

\* Whatever is there is removed first.
SocketRemoved(p) ==
  /\ ctl[p] = "remove"
  /\ ctl' = [ctl EXCEPT ![p] = "listen"]
  /\ path' = 0
  /\ UNCHANGED <<procVars, http, port, closer, jobVars, upVars>>

SocketListens(p) ==
  /\ ctl[p] = "listen" /\ path = 0
  /\ ctl' = [ctl EXCEPT ![p] = "chmod"]
  /\ path' = p
  /\ UNCHANGED <<procVars, http, port, closer, jobVars, upVars>>

\* The socket cannot be made, a file being there or for another reason, or the file has
\* gone before its mode is set: the daemon stops.
SocketFails(p) ==
  /\ ctl[p] = "listen" \/ (ctl[p] = "chmod" /\ path = 0)
  /\ ctl' = [ctl EXCEPT ![p] = "ended"]
  /\ cancelled' = cancelled \cup {p}
  /\ UNCHANGED <<stage, conf, loops, http, port, closer, path, jobVars, upVars>>

SocketServes(p) ==
  /\ ctl[p] = "chmod" /\ path # 0
  /\ ctl' = [ctl EXCEPT ![p] = "serve"]
  /\ closer' = [closer EXCEPT ![p] = "wait"]
  /\ UNCHANGED <<procVars, http, port, path, jobVars, upVars>>

\* Variant: the error is logged and that is all.
SocketBreaksQuietly(p) ==
  /\ ctl[p] = "serve"
  /\ ctl' = [ctl EXCEPT ![p] = "ended"]
  /\ path' = 0
  /\ UNCHANGED <<procVars, http, port, closer, jobVars, upVars>>

\* A listener that fails while it serves is closed, and the daemon stops.
SocketBreaks(p) ==
  /\ ctl[p] = "serve"
  /\ ctl' = [ctl EXCEPT ![p] = "ended"]
  /\ cancelled' = cancelled \cup {p}
  /\ path' = 0
  /\ UNCHANGED <<stage, conf, loops, http, port, closer, jobVars, upVars>>

\* The listener is closed, which removes the file of its name whosever it is, and
\* Serve returns; Shutdown waits for what is being answered, at most 2 s.
SocketCloses(p) ==
  /\ closer[p] = "wait" /\ p \in cancelled
  /\ ctl' = [ctl EXCEPT ![p] = "ended"]
  /\ closer' = [closer EXCEPT ![p] = "remove"]
  /\ path' = IF ctl[p] = "serve" THEN 0 ELSE path
  /\ UNCHANGED <<procVars, http, port, jobVars, upVars>>

SocketRemovedAgain(p) ==
  /\ closer[p] = "remove"
  /\ closer' = [closer EXCEPT ![p] = "done"]
  /\ path' = 0
  /\ UNCHANGED <<procVars, http, port, ctl, jobVars, upVars>>

\* The client's connection: a new one goes by the file, one that is kept does not.
Answers(p) == ctl[p] = "serve" /\ (path = p \/ shown = p)

-----------------------------------------------------------------------------
(* launchd, and a daemon started by hand. *)

Unused == {p \in Proc \ ByHand : stage[p] = "new"}

\* RunAtLoad and KeepAlive.
Launch ==
  /\ job = "loaded" /\ (inst # 0 => stage[inst] = "gone")
  /\ inst' \in Unused /\ \A p \in Unused : inst' <= p
  /\ stage' = [stage EXCEPT ![inst'] = "boot"]
  /\ UNCHANGED <<conf, cancelled, loops, http, port, ctlVars, job, upVars>>

Unloaded ==
  /\ job = "leaving" /\ (inst # 0 => stage[inst] = "gone")
  /\ job' = "unloaded"
  /\ UNCHANGED <<procVars, http, port, ctlVars, inst, upVars>>

StartByHand ==
  /\ \E p \in ByHand : stage[p] = "new" /\ stage' = [stage EXCEPT ![p] = "boot"]
  /\ UNCHANGED <<conf, cancelled, loops, http, port, ctlVars, jobVars, upVars>>

\* Ctrl-C, or a signal from elsewhere.
Interrupt(p) == Alive(p) /\ Terminate(p) /\ UNCHANGED <<jobVars, upVars>>

EndInstance ==
  IF inst # 0 /\ Alive(inst)
  THEN Terminate(inst)
  ELSE UNCHANGED <<procVars, http, port, ctlVars>>

\* stop, and the bootout of uninstall.
Bootout ==
  /\ job = "loaded" /\ job' = "leaving"
  /\ EndInstance
  /\ UNCHANGED <<inst, upVars>>

-----------------------------------------------------------------------------
(* up. *)

UpAt(here, next) == up = here /\ up' = next

UpIdle == UNCHANGED <<procVars, http, port, ctlVars, jobVars>>

\* Everything up to SaveConfig; a refusal before it changes nothing.
Up ==
  /\ up \in {"idle", "done", "failed"} /\ saved < MaxUp
  /\ saved' = saved + 1 /\ up' = "install" /\ shown' = 0 /\ old' = 0
  /\ UpIdle

\* Variant: the same definition is loaded, so there is nothing to do.
InstallNothingToDo ==
  /\ IF job # "unloaded" THEN UpAt("install", "wait") ELSE UpAt("install", "bootstrap")
  /\ UpIdle /\ UNCHANGED <<saved, old, shown>>

\* Install: the same definition is loaded already.
InstallSame ==
  /\ job # "unloaded" /\ UpAt("install", "kick")
  /\ UpIdle /\ UNCHANGED <<saved, old, shown>>

\* Another definition: it is written, and the old one is booted out if it is loaded.
InstallNew ==
  /\ IF job = "unloaded"
     THEN UpAt("install", "bootstrap") /\ UpIdle
     ELSE /\ UpAt("install", "unload")
          /\ job' = "leaving"
          /\ IF job = "loaded" THEN EndInstance
                               ELSE UNCHANGED <<procVars, http, port, ctlVars>>
          /\ UNCHANGED inst
  /\ UNCHANGED <<saved, old, shown>>

\* Until launchd has let go of the job, or for 10 s.
UnloadWaited ==
  /\ UpAt("unload", "bootstrap") /\ UpIdle /\ UNCHANGED <<saved, old, shown>>

Bootstrap ==
  /\ job = "unloaded" /\ UpAt("bootstrap", "kick")
  /\ job' = "loaded" /\ inst' = 0
  /\ UNCHANGED <<procVars, http, port, ctlVars, saved, old, shown>>

\* kickstart -k.
Kick ==
  /\ job = "loaded" /\ UpAt("kick", "kicked")
  /\ old' = inst
  /\ EndInstance
  /\ UNCHANGED <<jobVars, saved, shown>>

KickReturns ==
  /\ inst # old /\ UpAt("kicked", "wait")
  /\ UpIdle /\ UNCHANGED <<saved, old, shown>>

\* waitForDaemon: the status of a daemon whose gateway is ready.
StatusReady(p) ==
  /\ Answers(p) /\ "gateway" \in loops[p] /\ UpAt("wait", "pair")
  /\ shown' = p
  /\ UpIdle /\ UNCHANGED <<saved, old>>

\* showPair: the code is issued by the daemon that answers now.
Paired(p) ==
  /\ Answers(p) /\ UpAt("pair", "done")
  /\ shown' = p
  /\ UpIdle /\ UNCHANGED <<saved, old>>

\* A command that fails, five bootstraps in vain, two minutes without a ready gateway,
\* no Tailscale mapping, no answer to the request for a code.
UpFails ==
  /\ up \notin {"idle", "done", "failed"} /\ up' = "failed"
  /\ UpIdle /\ UNCHANGED <<saved, old, shown>>

-----------------------------------------------------------------------------

\* What a process does by itself.
Steps(p) ==
  \/ Boot(p) \/ HttpListens(p) \/ HttpClosed(p) \/ LoopReturns(p) \/ Shutdown(p)
  \/ StopGateway(p) \/ Return(p)
  \/ SocketRemoved(p) \/ SocketListens(p) \/ SocketFails(p) \/ SocketServes(p)
  \/ SocketCloses(p)

Next ==
  \/ \E p \in Proc :
       \/ Steps(p) \/ BootFails(p) \/ HttpFails(p) \/ SocketBreaks(p)
       \/ SocketRemovedAgain(p)
       \/ Die(p) \/ Interrupt(p) \/ StatusReady(p) \/ Paired(p)
  \/ Launch \/ Unloaded \/ Bootout
  \/ Up \/ InstallSame \/ InstallNew \/ UnloadWaited \/ Bootstrap \/ Kick
  \/ KickReturns \/ UpFails

Spec == Init /\ [][Next]_vars

\* With daemons that are not launchd's.
SpecByHand == Init /\ [][Next \/ StartByHand]_vars

\* The goroutines run and the runtime schedules them; nothing is assumed of launchd,
\* of the user, or of the one goroutine that nobody waits for.
FairSpec == Spec /\ \A p \in Proc : WF_vars(Steps(p))

-----------------------------------------------------------------------------
(* Properties. *)

\* A daemon that is told to end, or that has lost its bridge listener or its control
\* socket, ends, so that launchd can start another, whether it lost it before anything was
\* up or while it served (daemon.go:84-120).  launchd's SIGKILL is not needed.
ShutdownCompletes ==
  \A p \in Proc :
    p \in cancelled \/ http[p] = "ended" \/ ctl[p] = "ended" ~> stage[p] = "gone"

\* No file a daemon was killed on keeps the next one from its socket (control.go:56-57).
BindFindsNoFile == \A p \in Proc : ctl[p] = "listen" => path = 0

\* The code that up prints was issued by a daemon that has read what up saved
\* (main.go:220-241 and launchd.go:87-91).
UpAnswersFromNewConfig == up = "done" => conf[shown] = saved

\* A daemon that answers requests and has not been told to end can be found by the
\* commands: what is at the path of its socket is its socket (control.go:55).
Reachable == \A p \in Proc : ctl[p] = "serve" /\ p \notin cancelled => path = p

\* "hermes-remote is not running" (control.go:122), on which devices revoke edits the file
\* itself (main.go:464-466), is said only when no daemon lets phones in.
NotRunningMeansDown ==
  \A p \in Proc : http[p] = "serve" => \E q \in Proc : Answers(q)

-----------------------------------------------------------------------------
(* The inductive invariant, without daemons that are started by hand. *)

\* launchd has one instance at a time, and none of a job it has let go of.
OneInstance ==
  /\ \A p \in Proc : Alive(p) => p = inst /\ job # "unloaded"
  /\ inst # 0 => stage[inst] # "new"
  /\ old # 0 => stage[old] # "new"

\* Only a process that has started has a control socket, and only one that has read
\* its configuration has got that far.
SocketOfLiving ==
  \A p \in Proc : ctl[p] \in {"remove", "listen", "chmod", "serve"} =>
    Alive(p) /\ stage[p] # "boot"

\* Once kickstart has started the next instance, whoever runs has read what was saved.
RunsOnSaved ==
  /\ up \in {"wait", "pair"} \/ (up = "kicked" /\ inst # old) =>
       \A p \in Proc : Alive(p) /\ stage[p] # "boot" => conf[p] = saved
  /\ up = "done" => shown \in Proc /\ stage[shown] \notin {"new", "boot"}

DaemonInv ==
  /\ TypeOK /\ OneInstance /\ SocketOfLiving /\ RunsOnSaved
  /\ BindFindsNoFile /\ UpAnswersFromNewConfig

=============================================================================
