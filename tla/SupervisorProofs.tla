-------------------------- MODULE SupervisorProofs --------------------------
(* Proofs about Supervisor: its inductive invariant, what follows from it,  *)
(* and that it implements GatewayService.                                   *)
EXTENDS Supervisor, TLAPS

USE SupervisorAssumption

\* Every step keeps the types, and a watchdog's count below the one that kills.
LEMMA TypeStep == TypeOK /\ FewMisses /\ Phases /\ [Next]_vars => TypeOK' /\ FewMisses'
  <1> SUFFICES ASSUME TypeOK, FewMisses, Phases, [Next]_vars PROVE TypeOK' /\ FewMisses'
    OBVIOUS
  <1> USE DEF TypeOK, FewMisses, RunStage, State, stateVars, childVars, dogVars, stopVars, readVars
  <1>1. ASSUME Top PROVE TypeOK' /\ FewMisses'
    BY <1>1 DEF Top, SetState, Goto, At
  <1>2. ASSUME Spawn PROVE TypeOK' /\ FewMisses'
    <2>1. cur + 1 \in Child /\ cur' = cur + 1
      BY <1>2 DEF Spawn, At, Child
    <2>2. TypeOK'
      BY <1>2, <2>1 DEF Spawn, Child
    <2>3. FewMisses'
      BY <1>2, <2>1 DEF Spawn, Child
    <2> QED
      BY <2>2, <2>3
  <1>3. ASSUME SpawnFails PROVE TypeOK' /\ FewMisses'
    BY <1>3 DEF SpawnFails, Goto, At
  <1>4. ASSUME Assign PROVE TypeOK' /\ FewMisses'
    BY <1>4 DEF Assign, Goto, At
  <1>5. ASSUME SelectPort PROVE TypeOK' /\ FewMisses'
    BY <1>5 DEF SelectPort, Goto, At
  <1>6. ASSUME SelectExit PROVE TypeOK' /\ FewMisses'
    BY <1>6 DEF SelectExit, Goto, At
  <1>7. ASSUME SelectTimeout PROVE TypeOK' /\ FewMisses'
    <2>1. cur \in Child
      BY <1>7 DEF SelectTimeout, At, Phases, Child
    <2> QED
      BY <1>7, <2>1 DEF SelectTimeout, Goto, At, Kill
  <1>8. ASSUME SelectStop PROVE TypeOK' /\ FewMisses'
    BY <1>8 DEF SelectStop, Goto, At
  <1>9. ASSUME ProbeOK PROVE TypeOK' /\ FewMisses'
    BY <1>9 DEF ProbeOK, Goto, At
  <1>27. ASSUME AnnounceReady PROVE TypeOK' /\ FewMisses'
    BY <1>27 DEF AnnounceReady, Goto, At, SetState
  <1>10. ASSUME ProbeFails PROVE TypeOK' /\ FewMisses'
    <2>1. cur \in Child
      BY <1>10 DEF ProbeFails, At, Phases, Child
    <2> QED
      BY <1>10, <2>1 DEF ProbeFails, Goto, At, Kill
  <1>11. ASSUME Serve PROVE TypeOK' /\ FewMisses'
    <2>1. cur \in Child
      BY <1>11 DEF Serve, At, Phases, Child
    <2>2. misses[cur] < ProbeFailures
      BY <1>11, <2>1 DEF Serve, At
    <2>3. TypeOK'
      BY <1>11, <2>1 DEF Serve, Goto, At
    <2> QED
      BY <1>11, <2>1, <2>2, <2>3 DEF Serve, Goto, At
  <1>12. ASSUME Reap PROVE TypeOK' /\ FewMisses'
    BY <1>12 DEF Reap, Goto, At
  <1>13. ASSUME Returned PROVE TypeOK' /\ FewMisses'
    BY <1>13 DEF Returned, Goto, At, SetState
  <1>14. ASSUME Backoff PROVE TypeOK' /\ FewMisses'
    BY <1>14 DEF Backoff, Goto, At
  <1>15. ASSUME StopStep PROVE TypeOK' /\ FewMisses'
    <2>1. CASE StopCloses
      BY <2>1 DEF StopCloses
    <2>2. CASE StopReads
      BY <2>2 DEF StopReads
    <2>3. CASE StopKills
      BY <2>3 DEF StopKills, Kill, Child
    <2>4. CASE StopReturns
      BY <2>4 DEF StopReturns
    <2> QED
      BY <1>15, <2>1, <2>2, <2>3, <2>4 DEF StopStep
  <1>16. ASSUME Cancel PROVE TypeOK' /\ FewMisses'
    BY <1>16 DEF Cancel
  <1>17. ASSUME NEW w \in Watcher, Notify(w) PROVE TypeOK' /\ FewMisses'
    <2>1. CASE Len(queue[w]) < Cap
      <3>0. queue[w] \in Seq(State) /\ state \in State
        OBVIOUS
      <3>a. queue' = [queue EXCEPT ![w] = Append(queue[w], state)]
        BY <1>17, <2>1 DEF Notify
      <3> HIDE DEF State
      <3>b. /\ Append(queue[w], state) \in Seq(State)
            /\ Len(Append(queue[w], state)) = Len(queue[w]) + 1
        BY <3>0
      <3>1. queue' \in [Watcher -> Seq(State)] /\ queue'[w] = Append(queue[w], state)
        BY <3>a, <3>b
      <3>2. \A v \in Watcher : Len(queue'[v]) <= Cap
        BY <2>1, <3>a, <3>b
      <3> USE DEF State
      <3> QED
        BY <1>17, <2>1, <3>1, <3>2 DEF Notify
    <2>2. CASE ~(Len(queue[w]) < Cap)
      BY <1>17, <2>2 DEF Notify
    <2> QED
      BY <2>1, <2>2
  <1>18. ASSUME NEW w \in Watcher, Watch(w) PROVE TypeOK' /\ FewMisses'
    BY <1>18 DEF Watch
  <1>19. ASSUME NEW w \in Watcher, Unwatch(w) PROVE TypeOK' /\ FewMisses'
    BY <1>19 DEF Unwatch
  <1>20. ASSUME NEW w \in Watcher, Receive(w) PROVE TypeOK' /\ FewMisses'
    BY <1>20 DEF Receive
  <1>21. ASSUME NEW c \in Child, Watchdog(c) PROVE TypeOK' /\ FewMisses'
    <2>1. CASE WatchEnds(c)
      BY <2>1 DEF WatchEnds
    <2>2. CASE ProbeHit(c)
      BY <2>2 DEF ProbeHit
    <2>3. CASE ProbeMiss(c)
      BY <2>3 DEF ProbeMiss
    <2>4. CASE WatchKills(c)
      BY <2>4 DEF WatchKills, Kill
    <2> QED
      BY <1>21, <2>1, <2>2, <2>3, <2>4 DEF Watchdog
  <1>22. ASSUME NEW c \in Child, Announce(c) PROVE TypeOK' /\ FewMisses'
    BY <1>22 DEF Announce
  <1>23. ASSUME NEW c \in Child, Hang(c) PROVE TypeOK' /\ FewMisses'
    BY <1>23 DEF Hang
  <1>24. ASSUME NEW c \in Child, Exit(c) PROVE TypeOK' /\ FewMisses'
    BY <1>24 DEF Exit
  <1>25. ASSUME NEW c \in Child, ContextKills(c) PROVE TypeOK' /\ FewMisses'
    BY <1>25 DEF ContextKills, Kill
  <1>26. ASSUME UNCHANGED vars PROVE TypeOK' /\ FewMisses'
    BY <1>26 DEF vars
  <1> QED
    BY <1>1, <1>2, <1>3, <1>4, <1>5, <1>6, <1>7, <1>8, <1>9, <1>10, <1>11, <1>12, <1>13, <1>14,
       <1>15, <1>16, <1>17, <1>18, <1>19, <1>20, <1>21, <1>22, <1>23, <1>24, <1>25, <1>26,
       <1>27 DEF Next, RunStep

\* Every step keeps what the state says of where Run is, and the one child.
LEMMA PhaseStep == TypeOK /\ OneChild /\ Phases /\ [Next]_vars => OneChild' /\ Phases'
  <1> SUFFICES ASSUME TypeOK, OneChild, Phases, [Next]_vars PROVE OneChild' /\ Phases'
    OBVIOUS
  <1> USE DEF TypeOK, OneChild, Phases, RunStage, State, Child, stateVars, childVars, dogVars, stopVars, readVars
  <1>1. ASSUME Top PROVE OneChild' /\ Phases'
    BY <1>1 DEF Top, SetState, Goto, At
  <1>2. ASSUME Spawn PROVE OneChild' /\ Phases'
    BY <1>2 DEF Spawn, At, Child
  <1>3. ASSUME SpawnFails PROVE OneChild' /\ Phases'
    BY <1>3 DEF SpawnFails, Goto, At
  <1>4. ASSUME Assign PROVE OneChild' /\ Phases'
    BY <1>4 DEF Assign, Goto, At
  <1>5. ASSUME SelectPort PROVE OneChild' /\ Phases'
    BY <1>5 DEF SelectPort, Goto, At
  <1>6. ASSUME SelectExit PROVE OneChild' /\ Phases'
    BY <1>6 DEF SelectExit, Goto, At
  <1>7. ASSUME SelectTimeout PROVE OneChild' /\ Phases'
    BY <1>7 DEF SelectTimeout, Goto, At, Kill
  <1>8. ASSUME SelectStop PROVE OneChild' /\ Phases'
    BY <1>8 DEF SelectStop, Goto, At
  <1>9. ASSUME ProbeOK PROVE OneChild' /\ Phases'
    BY <1>9 DEF ProbeOK, Goto, At
  <1>27. ASSUME AnnounceReady PROVE OneChild' /\ Phases'
    BY <1>27 DEF AnnounceReady, Goto, At, SetState
  <1>10. ASSUME ProbeFails PROVE OneChild' /\ Phases'
    BY <1>10 DEF ProbeFails, Goto, At, Kill
  <1>11. ASSUME Serve PROVE OneChild' /\ Phases'
    BY <1>11 DEF Serve, Goto, At
  <1>12. ASSUME Reap PROVE OneChild' /\ Phases'
    BY <1>12 DEF Reap, Goto, At
  <1>13. ASSUME Returned PROVE OneChild' /\ Phases'
    BY <1>13 DEF Returned, Goto, At, SetState
  <1>14. ASSUME Backoff PROVE OneChild' /\ Phases'
    BY <1>14 DEF Backoff, Goto, At
  <1>15. ASSUME StopStep PROVE OneChild' /\ Phases'
    BY <1>15 DEF StopStep, StopCloses, StopReads, StopKills, StopReturns, Kill
  <1>16. ASSUME Cancel PROVE OneChild' /\ Phases'
    BY <1>16 DEF Cancel
  <1>17. ASSUME NEW w \in Watcher, Notify(w) PROVE OneChild' /\ Phases'
    BY <1>17 DEF Notify
  <1>18. ASSUME NEW w \in Watcher, Watch(w) PROVE OneChild' /\ Phases'
    BY <1>18 DEF Watch
  <1>19. ASSUME NEW w \in Watcher, Unwatch(w) PROVE OneChild' /\ Phases'
    BY <1>19 DEF Unwatch
  <1>20. ASSUME NEW w \in Watcher, Receive(w) PROVE OneChild' /\ Phases'
    BY <1>20 DEF Receive
  <1>21. ASSUME NEW c \in Child, Watchdog(c) PROVE OneChild' /\ Phases'
    BY <1>21 DEF Watchdog, WatchEnds, ProbeHit, ProbeMiss, WatchKills, Kill
  <1>22. ASSUME NEW c \in Child, Announce(c) PROVE OneChild' /\ Phases'
    BY <1>22 DEF Announce
  <1>23. ASSUME NEW c \in Child, Hang(c) PROVE OneChild' /\ Phases'
    BY <1>23 DEF Hang
  <1>24. ASSUME NEW c \in Child, Exit(c) PROVE OneChild' /\ Phases'
    BY <1>24 DEF Exit
  <1>25. ASSUME NEW c \in Child, ContextKills(c) PROVE OneChild' /\ Phases'
    BY <1>25 DEF ContextKills, Kill
  <1>26. ASSUME UNCHANGED vars PROVE OneChild' /\ Phases'
    BY <1>26 DEF vars
  <1> QED
    BY <1>1, <1>2, <1>3, <1>4, <1>5, <1>6, <1>7, <1>8, <1>9, <1>10, <1>11, <1>12, <1>13, <1>14,
       <1>15, <1>16, <1>17, <1>18, <1>19, <1>20, <1>21, <1>22, <1>23, <1>24, <1>25, <1>26,
       <1>27 DEF Next, RunStep

\* Every step keeps what is known of a watcher that has been told nothing.
LEMMA HeardStep == TypeOK /\ Phases /\ NotYetHeard /\ [Next]_vars => NotYetHeard'
  <1> SUFFICES ASSUME TypeOK, Phases, NotYetHeard, [Next]_vars PROVE NotYetHeard'
    OBVIOUS
  <1> USE DEF TypeOK, Phases, NotYetHeard, State, stateVars, childVars, dogVars, stopVars, readVars
  <1>1. ASSUME Top PROVE NotYetHeard'
    BY <1>1 DEF Top, SetState, Goto, At
  <1>2. ASSUME Spawn PROVE NotYetHeard'
    BY <1>2 DEF Spawn, At, Child
  <1>3. ASSUME SpawnFails PROVE NotYetHeard'
    BY <1>3 DEF SpawnFails, Goto, At
  <1>4. ASSUME Assign PROVE NotYetHeard'
    BY <1>4 DEF Assign, Goto, At
  <1>5. ASSUME SelectPort PROVE NotYetHeard'
    BY <1>5 DEF SelectPort, Goto, At
  <1>6. ASSUME SelectExit PROVE NotYetHeard'
    BY <1>6 DEF SelectExit, Goto, At
  <1>7. ASSUME SelectTimeout PROVE NotYetHeard'
    BY <1>7 DEF SelectTimeout, Goto, At, Kill
  <1>8. ASSUME SelectStop PROVE NotYetHeard'
    BY <1>8 DEF SelectStop, Goto, At
  <1>9. ASSUME ProbeOK PROVE NotYetHeard'
    BY <1>9 DEF ProbeOK, Goto, At
  <1>27. ASSUME AnnounceReady PROVE NotYetHeard'
    BY <1>27 DEF AnnounceReady, Goto, At, SetState
  <1>10. ASSUME ProbeFails PROVE NotYetHeard'
    BY <1>10 DEF ProbeFails, Goto, At, Kill
  <1>11. ASSUME Serve PROVE NotYetHeard'
    BY <1>11 DEF Serve, Goto, At
  <1>12. ASSUME Reap PROVE NotYetHeard'
    BY <1>12 DEF Reap, Goto, At
  <1>13. ASSUME Returned PROVE NotYetHeard'
    BY <1>13 DEF Returned, Goto, At, SetState
  <1>14. ASSUME Backoff PROVE NotYetHeard'
    BY <1>14 DEF Backoff, Goto, At
  <1>15. ASSUME StopStep PROVE NotYetHeard'
    BY <1>15 DEF StopStep, StopCloses, StopReads, StopKills, StopReturns, Kill
  <1>16. ASSUME Cancel PROVE NotYetHeard'
    BY <1>16 DEF Cancel
  <1>17. ASSUME NEW w \in Watcher, Notify(w) PROVE NotYetHeard'
    BY <1>17 DEF Notify
  <1>18. ASSUME NEW w \in Watcher, Watch(w) PROVE NotYetHeard'
    BY <1>18 DEF Watch
  <1>19. ASSUME NEW w \in Watcher, Unwatch(w) PROVE NotYetHeard'
    BY <1>19 DEF Unwatch
  <1>20. ASSUME NEW w \in Watcher, Receive(w) PROVE NotYetHeard'
    BY <1>20 DEF Receive
  <1>21. ASSUME NEW c \in Child, Watchdog(c) PROVE NotYetHeard'
    BY <1>21 DEF Watchdog, WatchEnds, ProbeHit, ProbeMiss, WatchKills, Kill
  <1>22. ASSUME NEW c \in Child, Announce(c) PROVE NotYetHeard'
    BY <1>22 DEF Announce
  <1>23. ASSUME NEW c \in Child, Hang(c) PROVE NotYetHeard'
    BY <1>23 DEF Hang
  <1>24. ASSUME NEW c \in Child, Exit(c) PROVE NotYetHeard'
    BY <1>24 DEF Exit
  <1>25. ASSUME NEW c \in Child, ContextKills(c) PROVE NotYetHeard'
    BY <1>25 DEF ContextKills, Kill
  <1>26. ASSUME UNCHANGED vars PROVE NotYetHeard'
    BY <1>26 DEF vars
  <1> QED
    BY <1>1, <1>2, <1>3, <1>4, <1>5, <1>6, <1>7, <1>8, <1>9, <1>10, <1>11, <1>12, <1>13, <1>14,
       <1>15, <1>16, <1>17, <1>18, <1>19, <1>20, <1>21, <1>22, <1>23, <1>24, <1>25, <1>26,
       <1>27 DEF Next, RunStep

\* The supervisor starts in the inductive invariant: down, with no child.
LEMMA InitSupervisor == Init => SupervisorInv
  <1> SUFFICES ASSUME Init PROVE SupervisorInv
    OBVIOUS
  <1>1. TypeOK
    <2>1. queue \in [Watcher -> Seq(State)] /\ \A w \in Watcher : Len(queue[w]) <= Cap
      <3>1. ASSUME NEW w \in Watcher PROVE queue[w] = <<>> /\ Len(queue[w]) <= Cap
        BY DEF Init
      <3>2. queue \in [Watcher -> {<<>>}]
        BY DEF Init
      <3>3. {<<>>} \subseteq Seq(State)
        OBVIOUS
      <3> QED
        BY <3>1, <3>2, <3>3
    <2>2. /\ {0} \subseteq 0..MaxChild /\ {0} \subseteq 0..ProbeFailures
          /\ misses \in [Child -> {0}] /\ since \in [Watcher -> {0}]
          /\ child \in [Child -> {"none"}] /\ watchdog \in [Child -> {"none"}]
      BY DEF Init
    <2>3. /\ misses \in [Child -> 0..ProbeFailures] /\ since \in [Watcher -> 0..MaxChild]
          /\ child \in [Child -> {"none", "running", "exited"}]
          /\ watchdog \in [Child -> {"none", "on", "kill", "off"}]
      BY <2>2
    <2> QED
      BY <2>1, <2>2, <2>3 DEF Init, TypeOK, RunStage, State
  <1>2. FewMisses /\ OneChild /\ Phases /\ NotYetHeard
    BY DEF Init, FewMisses, OneChild, Phases, NotYetHeard, Child
  <1> QED
    BY <1>1, <1>2 DEF SupervisorInv

\* Every reachable state is in the inductive invariant.
LEMMA Inductive == Spec => []SupervisorInv
  <1>1. SupervisorInv /\ [Next]_vars => SupervisorInv'
    BY TypeStep, PhaseStep, HeardStep DEF SupervisorInv
  <1> QED
    BY <1>1, InitSupervisor, PTL DEF Spec

\* The variables hold what the code can put into them: channels within their capacity,
\* misses within ProbeFailures.
THEOREM TypeCorrect == Spec => []TypeOK
  <1>1. SupervisorInv => TypeOK
    BY DEF SupervisorInv
  <1> QED
    BY <1>1, Inductive, PTL

\* However many children are started, no two run at once and none outlives Run.
THEOREM OneChildHolds == Spec => []OneChild
  <1>1. SupervisorInv => OneChild
    BY DEF SupervisorInv
  <1> QED
    BY <1>1, Inductive, PTL

\* A tunnel bound to one child's port hears of the change before the port is another's,
\* for every number of tunnels and every capacity of their channels.
THEOREM ChangeIsHeardHolds == Spec => []ChangeIsHeard
  <1>1. SupervisorInv => ChangeIsHeard
    BY DEF SupervisorInv, TypeOK, Phases, NotYetHeard, ChangeIsHeard
  <1> QED
    BY <1>1, Inductive, PTL

\* Every step of the supervisor is a step of the service, or one it does not show.
LEMMA ServiceStep == SupervisorInv /\ [Next]_vars => [Service!Next]_(Service!serviceVars)
  <1> SUFFICES ASSUME SupervisorInv, [Next]_vars
               PROVE  [Service!Next]_(Service!serviceVars)
    OBVIOUS
  <1> USE DEF SupervisorInv, TypeOK, OneChild, Phases, Child, Service!serviceVars, Service!Next
  <1>1. CASE Top
    <2>1. Service!Start
      BY <1>1 DEF Top, At, SetState, Goto, childVars, Service!Start
    <2> QED
      BY <2>1
  <1>2. CASE Spawn
    <2>1. cur + 1 \in Child /\ cur' = cur + 1 /\ child'[cur'] = "running"
      BY <1>2 DEF Spawn, At
    <2>2. Service!Launch
      BY <1>2, <2>1 DEF Spawn, At, stateVars, Service!Launch
    <2> QED
      BY <2>2
  <1>3. CASE ProbeOK
    <2>1. Service!Answer
      BY <1>3 DEF ProbeOK, At, Goto, stateVars, childVars, Service!Answer
    <2> QED
      BY <2>1
  <1>13. CASE AnnounceReady
    <2>1. Service!Ready
      BY <1>13 DEF AnnounceReady, At, SetState, Goto, childVars, Service!Ready
    <2> QED
      BY <2>1
  <1>4. CASE Returned
    <2>1. CASE cancelled \/ Stopped
      BY <1>4, <2>1 DEF Returned, At, Goto, stateVars
    <2>2. CASE ~(cancelled \/ Stopped)
      <3>1. Service!Fall
        BY <1>4, <2>2 DEF Returned, At, SetState, Goto, Service!Fall
      <3> QED
        BY <3>1
    <2> QED
      BY <2>1, <2>2
  <1>5. ASSUME NEW c \in Child, Exit(c) PROVE Service!Die
    <2>1. c = cur /\ cur # 0 /\ child'[cur] = "exited"
      BY <1>5 DEF Exit
    <2> QED
      BY <1>5, <2>1 DEF Exit, stateVars, Service!Die
  <1>6. ASSUME UNCHANGED <<state, port, cur, child>>, (run' = "ready") = (run = "ready")
        PROVE  UNCHANGED Service!serviceVars
    BY <1>6
  <1> HIDE DEF Service!Next, Service!serviceVars
  <1>7. CASE RunStep /\ ~(Top \/ Spawn \/ ProbeOK \/ AnnounceReady \/ Returned)
    BY <1>6, <1>7 DEF RunStep, At, SpawnFails, Assign, SelectPort, SelectExit, SelectTimeout,
         SelectStop, ProbeFails, Serve, Reap, Backoff, Goto, stateVars, childVars
  <1>8. CASE StopStep \/ Cancel
    BY <1>6, <1>8 DEF StopStep, StopCloses, StopReads, StopKills, StopReturns, Cancel,
         stateVars, childVars
  <1>9. ASSUME NEW w \in Watcher, Notify(w) \/ Watch(w) \/ Unwatch(w) \/ Receive(w)
        PROVE  UNCHANGED Service!serviceVars
    BY <1>6, <1>9 DEF Notify, Watch, Unwatch, Receive, stateVars, childVars
  <1>10. ASSUME NEW c \in Child, Watchdog(c) \/ Announce(c) \/ Hang(c) \/ ContextKills(c)
         PROVE  UNCHANGED Service!serviceVars
    BY <1>6, <1>10 DEF Watchdog, WatchEnds, ProbeHit, ProbeMiss, WatchKills, Announce, Hang,
         ContextKills, stateVars, childVars
  <1>11. CASE UNCHANGED vars
    BY <1>6, <1>11 DEF vars, stateVars, childVars
  <1>12. Service!Die => Service!Next
    BY DEF Service!Next
  <1> QED
    BY <1>1, <1>2, <1>3, <1>4, <1>5, <1>7, <1>8, <1>9, <1>10, <1>11, <1>12, <1>13 DEF Next

\* The supervisor implements the service that Tunnel is built on: the port announced is that
\* of the latest child, once it has answered its probe, and the state leaves a child only when that child is gone.
THEOREM IsAServiceHolds == Spec => IsAService
  <1>1. Init => Service!Init
    BY DEF Init, Service!Init
  <1> QED
    BY <1>1, ServiceStep, Inductive, PTL DEF Spec, IsAService, Service!Spec

=============================================================================
