--------------------------- MODULE GatewayService ---------------------------
(***************************************************************************)
(* What the supervisor shows to the rest of the bridge                     *)
(* (internal/gateway/supervisor.go:109-130, BaseURL and State): gateway    *)
(* children one after the other, a state, and the port of the child that   *)
(* is ready.  Supervisor implements it; Tunnel is built on it.  A child's  *)
(* port is its number.  Nothing has to happen: Run may end at any time.    *)
(***************************************************************************)
EXTENDS Naturals

CONSTANT MaxChild \* bound: children started

VARIABLES
  state, \* "starting" | "ready" | "down"
  port,  \* the port of state, 0 for none
  gen,   \* the latest child, 0 before the first
  alive, \* that child runs
  probed \* it has answered its probe and is about to be announced

serviceVars == <<state, port, gen, alive, probed>>

TypeOK ==
  /\ state \in {"starting", "ready", "down"}
  /\ port \in 0..MaxChild /\ gen \in 0..MaxChild
  /\ alive \in BOOLEAN /\ probed \in BOOLEAN

Init == state = "down" /\ port = 0 /\ gen = 0 /\ alive = FALSE /\ probed = FALSE

Start ==
  /\ ~alive /\ state = "down"
  /\ state' = "starting"
  /\ UNCHANGED <<port, gen, alive, probed>>

Launch ==
  /\ ~alive /\ ~probed /\ state = "starting" /\ gen < MaxChild
  /\ gen' = gen + 1 /\ alive' = TRUE
  /\ UNCHANGED <<state, port, probed>>

Answer ==
  /\ alive /\ ~probed /\ state = "starting"
  /\ probed' = TRUE
  /\ UNCHANGED <<state, port, gen, alive>>

\* Only a child that has answered is announced, under its own port; it may be dead by now.
Ready ==
  /\ probed
  /\ state' = "ready" /\ port' = gen
  /\ probed' = FALSE
  /\ UNCHANGED <<gen, alive>>

Die ==
  /\ alive
  /\ alive' = FALSE
  /\ UNCHANGED <<state, port, gen, probed>>

\* The state follows the child, and never leaves one that runs.
Fall ==
  /\ ~alive /\ ~probed /\ state # "down"
  /\ state' = "down" /\ port' = 0
  /\ UNCHANGED <<gen, alive, probed>>

Next == Start \/ Launch \/ Answer \/ Ready \/ Die \/ Fall

Spec == Init /\ [][Next]_serviceVars

=============================================================================
