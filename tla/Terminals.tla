----------------------------- MODULE Terminals -----------------------------
(***************************************************************************)
(* The shells one phone connection opens over its tunnel                   *)
(* (internal/bridge/pty.go) and what becomes of them when the tunnel ends  *)
(* (internal/bridge/tunnel.go).  Three kinds of goroutine act:             *)
(*   - the tunnel's dispatch loop, the only caller of handle: it opens,    *)
(*     resizes and closes terminals, one phone frame at a time;            *)
(*   - a pump per terminal, from the shell's output to its exit report;    *)
(*   - the tunnel itself, whose deferred calls run when any of its three   *)
(*     goroutines reports an error: closeAll, then cancel.                 *)
(*                                                                         *)
(* A frame's contents, the window size and the exit code are left out.     *)
(* The phone's input to a shell (m.write) changes nothing that is kept     *)
(* here; a shell may exit at any time.                                     *)
(***************************************************************************)
EXTENDS Naturals, FiniteSets, Sequences

CONSTANTS
  Id,            \* terminal ids the phone uses
  Term,          \* the terminals a run may start, one each
  NoTerm,        \* no terminal
  NoId,          \* the id of a terminal not started
  MaxTerminals,  \* maxTerminals: open terminals of one connection
  MaxOutput      \* bound: chunks of output a shell may write

ASSUME TerminalsAssumption ==
  /\ IsFiniteSet(Id)
  /\ NoTerm \notin Term /\ NoId \notin Id
  /\ MaxTerminals \in Nat \ {0} /\ MaxOutput \in Nat

VARIABLES
  open,      \* [Id -> Term or NoTerm]: terminalManager.open
  idOf,      \* [Term -> Id or NoId]: the id a terminal was opened with
  shell,     \* [Term -> "none" | "running" | "exited"]: the child process
  killed,    \* terminals closeTerminal has closed: SIGKILL is on its way
  ttyClosed, \* terminals whose tty is closed
  pump,      \* [Term -> PumpStage]
  output,    \* [Term -> 0..MaxOutput]: chunks the pump has read
  dispatch,  \* where the dispatch loop stands
  opening,   \* <<id, terminal>> of the open the dispatch loop is at
  failed,    \* some goroutine has put an error in errc
  tunnel,    \* "running" | "closing" (inside closeAll) | "ended"
  toClose,   \* closeAll's snapshot: ids still to close
  link,      \* "up" | "down": the phone's link
  seen       \* history: [Id -> Seq(<<Term, op>>)]: frames sent to the phone

phoneVars  == <<link, seen>>
tunnelVars == <<failed, tunnel, toClose>>
loopVars   == <<dispatch, opening>>
shellVars  == <<shell, killed, ttyClosed>>
vars == <<open, idOf, shellVars, pump, output, loopVars, tunnelVars, phoneVars>>

PumpStage == {"none", "read", "wait", "forget", "report", "done"}

TypeOK ==
  /\ open \in [Id -> Term \cup {NoTerm}]
  /\ idOf \in [Term -> Id \cup {NoId}]
  /\ shell \in [Term -> {"none", "running", "exited"}]
  /\ killed \in SUBSET Term
  /\ ttyClosed \in SUBSET Term
  /\ pump \in [Term -> PumpStage]
  /\ output \in [Term -> 0..MaxOutput]
  /\ dispatch \in {"recv", "start", "insert", "done"}
  /\ opening \in (Id \cup {NoId}) \X (Term \cup {NoTerm})
  /\ failed \in BOOLEAN
  /\ tunnel \in {"running", "closing", "ended"}
  /\ toClose \in SUBSET Id
  /\ link \in {"up", "down"}
  /\ seen \in [Id -> Seq(Term \X {"data", "exit"})]

Init ==
  /\ open = [i \in Id |-> NoTerm]
  /\ idOf = [t \in Term |-> NoId]
  /\ shell = [t \in Term |-> "none"]
  /\ killed = {} /\ ttyClosed = {}
  /\ pump = [t \in Term |-> "none"]
  /\ output = [t \in Term |-> 0]
  /\ dispatch = "recv" /\ opening = <<NoId, NoTerm>>
  /\ failed = FALSE /\ tunnel = "running" /\ toClose = {}
  /\ link = "up"
  /\ seen = [i \in Id |-> <<>>]

\* A send works while the link is up and the tunnel's context is not cancelled.
CanSend == link = "up" /\ tunnel # "ended"

OpenIds == {i \in Id : open[i] # NoTerm}

-----------------------------------------------------------------------------
(* The dispatch loop. *)

\* The loop returns with an error: recv failed, or handle did.
LoopEnds ==
  /\ dispatch' = "done" /\ opening' = <<NoId, NoTerm>>
  /\ failed' = TRUE
  /\ UNCHANGED <<open, idOf, shellVars, pump, output, tunnel, toClose, phoneVars>>

RecvFails ==
  /\ dispatch = "recv" /\ ~CanSend
  /\ LoopEnds

\* Variant: one terminal too many.
OpenOneMore(i) ==
  /\ dispatch = "recv"
  /\ IF open[i] # NoTerm \/ Cardinality(OpenIds) > MaxTerminals
     THEN ~CanSend /\ LoopEnds
     ELSE /\ dispatch' = "start" /\ opening' = <<i, NoTerm>>
          /\ UNCHANGED <<open, idOf, shellVars, pump, output, tunnelVars, phoneVars>>

\* The phone says goodbye, or sends a frame that dispatch rejects.
LastFrame ==
  /\ dispatch = "recv" /\ CanSend
  /\ LoopEnds

\* openTerminal's checks, under the lock.  A refusal that cannot be sent ends
\* the loop.
Open(i) ==
  /\ dispatch = "recv"
  /\ IF open[i] # NoTerm \/ Cardinality(OpenIds) >= MaxTerminals
     THEN ~CanSend /\ LoopEnds
     ELSE /\ dispatch' = "start" /\ opening' = <<i, NoTerm>>
          /\ UNCHANGED <<open, idOf, shellVars, pump, output, tunnelVars, phoneVars>>

\* The shell starts, with the lock released.
Start(t) ==
  /\ dispatch = "start" /\ shell[t] = "none"
  /\ shell' = [shell EXCEPT ![t] = "running"]
  /\ idOf' = [idOf EXCEPT ![t] = opening[1]]
  /\ dispatch' = "insert" /\ opening' = <<opening[1], t>>
  /\ UNCHANGED <<open, killed, ttyClosed, pump, output, tunnelVars, phoneVars>>

\* The shell cannot be started: the phone is told, if it can be.
StartFails ==
  /\ dispatch = "start"
  /\ IF CanSend
     THEN /\ dispatch' = "recv" /\ opening' = <<NoId, NoTerm>>
          /\ UNCHANGED <<open, idOf, shellVars, pump, output, tunnelVars, phoneVars>>
     ELSE LoopEnds

Insert ==
  /\ dispatch = "insert"
  /\ open' = [open EXCEPT ![opening[1]] = opening[2]]
  /\ pump' = [pump EXCEPT ![opening[2]] = "read"]
  /\ dispatch' = "recv" /\ opening' = <<NoId, NoTerm>>
  /\ UNCHANGED <<idOf, shellVars, output, tunnelVars, phoneVars>>

\* resize of a terminal whose tty is already closed is an error, and ends the loop.
Resize(i) ==
  /\ dispatch = "recv"
  /\ open[i] # NoTerm /\ open[i] \in ttyClosed
  /\ LoopEnds

\* Variant: the tty is closed and that is all.
HangUpNoKill(i) ==
  /\ killed' = killed
  /\ ttyClosed' = ttyClosed \cup ({open[i]} \ {NoTerm})

\* closeTerminal: close the tty and kill the shell, if the id is open.
HangUp(i) ==
  IF open[i] = NoTerm
  THEN UNCHANGED <<killed, ttyClosed>>
  ELSE /\ killed' = killed \cup {open[i]}
       /\ ttyClosed' = ttyClosed \cup {open[i]}

\* Variant: the id is forgotten at once, not by the pump.
CloseForgets(i) ==
  /\ dispatch = "recv" /\ open[i] # NoTerm
  /\ HangUp(i)
  /\ open' = [open EXCEPT ![i] = NoTerm]
  /\ UNCHANGED <<idOf, shell, pump, output, loopVars, tunnelVars, phoneVars>>

Close(i) ==
  /\ dispatch = "recv" /\ open[i] # NoTerm
  /\ HangUp(i)
  /\ UNCHANGED <<open, idOf, shell, pump, output, loopVars, tunnelVars, phoneVars>>

-----------------------------------------------------------------------------
(* A shell and its pump. *)

\* Variant: the exit is reported as it happens, while the pump still reads.
ExitReported(t) ==
  /\ shell[t] = "running" /\ pump[t] = "read" /\ CanSend
  /\ shell' = [shell EXCEPT ![t] = "exited"]
  /\ seen' = [seen EXCEPT ![idOf[t]] = Append(@, <<t, "exit">>)]
  /\ UNCHANGED <<open, idOf, killed, ttyClosed, pump, output, loopVars,
                 tunnelVars, link>>

Exit(t) ==
  /\ shell[t] = "running"
  /\ shell' = [shell EXCEPT ![t] = "exited"]
  /\ UNCHANGED <<open, idOf, killed, ttyClosed, pump, output, loopVars,
                 tunnelVars, phoneVars>>

\* The shell's signal arrives.
Killed(t) == t \in killed /\ Exit(t)

\* The pump reads a chunk and sends it; a failed send ends the reading.
PumpData(t) ==
  /\ pump[t] = "read" /\ t \notin ttyClosed /\ output[t] < MaxOutput
  /\ output' = [output EXCEPT ![t] = @ + 1]
  /\ IF CanSend
     THEN /\ seen' = [seen EXCEPT ![idOf[t]] = Append(@, <<t, "data">>)]
          /\ pump' = pump
     ELSE /\ pump' = [pump EXCEPT ![t] = "wait"]
          /\ seen' = seen
  /\ UNCHANGED <<open, idOf, shellVars, loopVars, tunnelVars, link>>

\* The read fails: the shell has exited or the tty is closed.
PumpEOF(t) ==
  /\ pump[t] = "read"
  /\ shell[t] = "exited" \/ t \in ttyClosed
  /\ pump' = [pump EXCEPT ![t] = "wait"]
  /\ UNCHANGED <<open, idOf, shellVars, output, loopVars, tunnelVars, phoneVars>>

\* cmd.Wait returns once the shell has exited; then the tty is closed.
PumpReap(t) ==
  /\ pump[t] = "wait" /\ shell[t] = "exited"
  /\ pump' = [pump EXCEPT ![t] = "forget"]
  /\ ttyClosed' = ttyClosed \cup {t}
  /\ UNCHANGED <<open, idOf, shell, killed, output, loopVars, tunnelVars, phoneVars>>

\* delete(m.open, id), whichever terminal is there.
PumpForget(t) ==
  /\ pump[t] = "forget"
  /\ open' = [open EXCEPT ![idOf[t]] = NoTerm]
  /\ pump' = [pump EXCEPT ![t] = "report"]
  /\ UNCHANGED <<idOf, shellVars, output, loopVars, tunnelVars, phoneVars>>

PumpReport(t) ==
  /\ pump[t] = "report"
  /\ seen' = IF CanSend THEN [seen EXCEPT ![idOf[t]] = Append(@, <<t, "exit">>)]
                        ELSE seen
  /\ pump' = [pump EXCEPT ![t] = "done"]
  /\ UNCHANGED <<open, idOf, shellVars, output, loopVars, tunnelVars, link>>

Pump(t) ==
  PumpData(t) \/ PumpEOF(t) \/ PumpReap(t) \/ PumpForget(t) \/ PumpReport(t)

-----------------------------------------------------------------------------
(* The tunnel. *)

PhoneGone ==
  /\ link = "up"
  /\ link' = "down"
  /\ UNCHANGED <<open, idOf, shellVars, pump, output, loopVars, tunnelVars, seen>>

\* The gateway's socket fails, the gateway restarts or a ping cannot be sent.
GatewayFails ==
  /\ ~failed
  /\ failed' = TRUE
  /\ UNCHANGED <<open, idOf, shellVars, pump, output, loopVars, tunnel, toClose,
                 phoneVars>>

\* Variant: nothing is closed.
TunnelJustReturns ==
  /\ failed /\ tunnel = "running"
  /\ tunnel' = "closing"
  /\ UNCHANGED <<open, idOf, shellVars, pump, output, loopVars, failed, toClose,
                 phoneVars>>

\* tunnel returns; its deferred closeAll copies the open ids.
TunnelReturns ==
  /\ failed /\ tunnel = "running"
  /\ tunnel' = "closing"
  /\ toClose' = OpenIds
  /\ UNCHANGED <<open, idOf, shellVars, pump, output, loopVars, failed, phoneVars>>

CloseOne(i) ==
  /\ i \in toClose
  /\ HangUp(i)
  /\ toClose' = toClose \ {i}
  /\ UNCHANGED <<open, idOf, shell, pump, output, loopVars, failed, tunnel, phoneVars>>

\* gw.Close and cancel, then run closes the link.
Cancel ==
  /\ tunnel = "closing" /\ toClose = {}
  /\ tunnel' = "ended"
  /\ link' = "down"
  /\ UNCHANGED <<open, idOf, shellVars, pump, output, loopVars, failed, toClose, seen>>

-----------------------------------------------------------------------------
\* The dispatch loop's own steps; it receives frames from the phone.
Loop == RecvFails \/ (\E t \in Term : Start(t)) \/ StartFails \/ Insert

Teardown == TunnelReturns \/ (\E i \in Id : CloseOne(i)) \/ Cancel

\* What the phone, the shells and the gateway do.
Environment ==
  \/ \E i \in Id : Open(i) \/ Resize(i) \/ Close(i)
  \/ \E t \in Term : Exit(t)
  \/ LastFrame \/ PhoneGone \/ GatewayFails

Next == Loop \/ Teardown \/ Environment \/ \E t \in Term : Pump(t)

Spec == Init /\ [][Next]_vars

\* The goroutines make progress; a killed shell dies.  A shell need not exit,
\* and the phone and the gateway need not do anything.
Fairness ==
  /\ WF_vars(Loop) /\ WF_vars(Teardown)
  /\ \A t \in Term : WF_vars(Pump(t)) /\ WF_vars(Killed(t))

FairSpec == Spec /\ Fairness

-----------------------------------------------------------------------------
(* What the terminals promise. *)

\* Each id is held by the terminal opened with it, from its insertion until its
\* own pump forgets it: the unconditional delete of pty.go:146 never takes
\* another terminal's place in the map.
OwnSlot ==
  /\ \A t \in Term : pump[t] \in {"read", "wait", "forget"} => open[idOf[t]] = t
  /\ \A i \in Id : open[i] # NoTerm =>
       idOf[open[i]] = i /\ pump[open[i]] \in {"read", "wait", "forget"}

\* What the dispatch loop holds between openTerminal's checks and its insertion:
\* only pumps change the map meanwhile, and they only take terminals out of it.
OpeningInv ==
  /\ dispatch \in {"start", "insert"} =>
       /\ opening[1] \in Id /\ open[opening[1]] = NoTerm
       /\ Cardinality(OpenIds) < MaxTerminals
  /\ dispatch = "insert" =>
       /\ opening[2] \in Term /\ idOf[opening[2]] = opening[1]
       /\ pump[opening[2]] = "none" /\ shell[opening[2]] # "none"
  /\ \A t \in Term :
       /\ pump[t] # "none" => idOf[t] \in Id
       /\ shell[t] = "none" => pump[t] = "none"
       /\ shell[t] = "running" =>
            \/ pump[t] \in {"read", "wait"}
            \/ dispatch = "insert" /\ opening[2] = t

\* The inductive invariant.
TerminalsInv ==
  TypeOK /\ OwnSlot /\ OpeningInv /\ Cardinality(OpenIds) <= MaxTerminals

\* No more than maxTerminals shells run at once, the one being started
\* included, although the check and the insertion take the lock separately
\* (pty.go:81-113) and pumps delete meanwhile.
ShellCap ==
  Cardinality({t \in Term : shell[t] = "running"}) <= MaxTerminals

\* For each terminal the phone sees data, then at most one exit, then nothing.
ExitIsLast ==
  \A i \in Id : \A m, n \in DOMAIN seen[i] :
    m < n /\ seen[i][m][1] = seen[i][n][1] => seen[i][m][2] = "data"

\* What makes it inductive: what the phone has seen on an id came from terminals of that
\* id whose pump was started, and an exit from one whose pump is done.
SeenInv ==
  \A i \in Id : \A m \in 1..Len(seen[i]) :
    LET t == seen[i][m][1] IN
    /\ t \in Term /\ pump[t] # "none" /\ idOf[t] = i
    /\ seen[i][m][2] # "data" => pump[t] = "done"

\* A terminal the phone or closeAll has closed does not linger: its shell dies
\* and is reaped, its id is freed and its pump ends, whatever the link does
\* meanwhile and whether or not the shell heeds the hangup (pty.go:118-149,176-187).
ClosedShellsEnd ==
  \A t \in Term : t \in ttyClosed ~> shell[t] = "exited" /\ pump[t] = "done"

\* A shell that is in the map when the connection fails is killed and reaped.
OpenShellsEndWithTunnel ==
  \A t \in Term :
    failed /\ tunnel = "running" /\ t \in {open[i] : i \in Id} ~> pump[t] = "done"

-----------------------------------------------------------------------------
(* What the comments promise and the interleavings break. *)

\* pty.go:19-20: the shells "die with the connection".
ShellsDieWithConnection ==
  \A t \in Term : tunnel = "ended" /\ shell[t] = "running" ~> shell[t] = "exited"

\* pty.go:118-119: the pump "reports the exit code and forgets the terminal":
\* when the phone gets a terminal's exit, it has had the exit of every other
\* terminal it has heard of on that id.
ExitBeforeReuse ==
  \A i \in Id : \A m, n \in DOMAIN seen[i] :
    m < n /\ seen[i][n][2] = "exit" =>
      \E l \in 1..n : seen[i][l] = <<seen[i][m][1], "exit">>

=============================================================================
