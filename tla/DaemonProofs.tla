---------------------------- MODULE DaemonProofs ----------------------------
(***************************************************************************)
(* Proofs about the daemons that launchd runs (Spec): for every number of  *)
(* processes and of runs of up.  One lemma per part of DaemonInv, with one *)
(* step per action; the daemons started by hand are left to TLC, which     *)
(* finds that the properties fail with them.                               *)
(***************************************************************************)
EXTENDS Daemon, TLAPS

USE DaemonAssumption

-----------------------------------------------------------------------------
(* What a signal does to a process. *)

\* It goes on, or it ends with all it has except its file.
Ended(p) ==
  /\ \/ stage' = stage /\ ctl' = ctl
     \/ stage' = [stage EXCEPT ![p] = "gone"] /\ ctl' = [ctl EXCEPT ![p] = "ended"]
  /\ UNCHANGED <<conf, path>>
  /\ cancelled' \subseteq Proc
  /\ loops' \in [Proc -> SUBSET Loop]
  /\ http' \in [Proc -> {"none", "listen", "serve", "ended"}]
  /\ port' \in 0..MaxProc
  /\ closer' \in [Proc -> {"none", "wait", "remove", "done"}]

\* A process that exits is one that has ended.
LEMMA ExitEnds ==
  ASSUME TypeOK, NEW p \in Proc, Exit(p)
  PROVE  Ended(p)
  <1>1. port' \in 0..MaxProc
    BY DEF TypeOK, Exit
  <1>2. loops' \in [Proc -> SUBSET Loop]
    BY DEF TypeOK, Exit
  <1>3. /\ http' \in [Proc -> {"none", "listen", "serve", "ended"}]
        /\ closer' \in [Proc -> {"none", "wait", "remove", "done"}]
    BY DEF TypeOK, Exit
  <1>4. cancelled' \subseteq Proc
    BY DEF TypeOK, Exit
  <1> QED
    BY <1>1, <1>2, <1>3, <1>4 DEF Ended, Exit

LEMMA TerminateEnds ==
  ASSUME TypeOK, NEW p \in Proc, Terminate(p)
  PROVE  Ended(p)
  <1>1. CASE stage[p] = "boot"
    BY <1>1, ExitEnds DEF Terminate
  <1>2. CASE stage[p] # "boot"
    BY <1>2 DEF Ended, TypeOK, Terminate, ctlVars
  <1> QED
    BY <1>1, <1>2

LEMMA InstanceEnds ==
  ASSUME TypeOK, EndInstance
  PROVE  \/ UNCHANGED <<procVars, http, port, ctlVars>>
         \/ inst # 0 /\ inst \in Proc /\ Ended(inst)
  <1>1. inst # 0 => inst \in Proc
    BY DEF TypeOK, Proc
  <1> QED
    BY <1>1, TerminateEnds DEF EndInstance

\* A process is as it was, or gone with its control socket.
LEMMA EndedProcesses ==
  ASSUME TypeOK, NEW p \in Proc, Ended(p)
  PROVE  \A q \in Proc :
           \/ stage'[q] = stage[q] /\ ctl'[q] = ctl[q]
           \/ stage'[q] = "gone" /\ ctl'[q] = "ended"
  <1>1. CASE stage' = stage /\ ctl' = ctl
    BY <1>1
  <1>2. CASE stage' = [stage EXCEPT ![p] = "gone"] /\ ctl' = [ctl EXCEPT ![p] = "ended"]
    <2>1. DOMAIN stage = Proc /\ DOMAIN ctl = Proc
      BY DEF TypeOK
    <2> QED
      BY <1>2, <2>1
  <1> QED
    BY <1>1, <1>2 DEF Ended

LEMMA EndedTypes ==
  ASSUME TypeOK, NEW p \in Proc, Ended(p)
  PROVE  /\ stage' \in [Proc -> {"new", "boot", "run", "shutdown", "stop", "join", "gone"}]
         /\ ctl' \in [Proc -> {"none", "remove", "listen", "chmod", "serve", "ended"}]
         /\ conf' \in [Proc -> 0..MaxUp] /\ path' \in 0..MaxProc
  <1>1. /\ stage \in [Proc -> {"new", "boot", "run", "shutdown", "stop", "join", "gone"}]
        /\ ctl \in [Proc -> {"none", "remove", "listen", "chmod", "serve", "ended"}]
        /\ conf \in [Proc -> 0..MaxUp] /\ path \in 0..MaxProc
    BY DEF TypeOK
  <1>2. conf' = conf /\ path' = path
    BY DEF Ended
  <1>3. CASE stage' = stage /\ ctl' = ctl
    BY <1>1, <1>2, <1>3
  <1>4. CASE stage' = [stage EXCEPT ![p] = "gone"] /\ ctl' = [ctl EXCEPT ![p] = "ended"]
    <2>1. stage' \in [Proc -> {"new", "boot", "run", "shutdown", "stop", "join", "gone"}]
      BY <1>1, <1>4
    <2>2. ctl' \in [Proc -> {"none", "remove", "listen", "chmod", "serve", "ended"}]
      BY <1>1, <1>4
    <2> QED
      BY <1>1, <1>2, <2>1, <2>2
  <1> QED
    BY <1>3, <1>4 DEF Ended

\* With the types of the job and of the command, those are all.
LEMMA EndedKeepsTypes ==
  ASSUME TypeOK, NEW p \in Proc, Ended(p),
         saved' \in 0..MaxUp, {inst', old', shown'} \subseteq 0..MaxProc,
         job' \in {"unloaded", "loaded", "leaving"},
         up' \in {"idle", "install", "unload", "bootstrap", "kick", "kicked", "wait",
                  "pair", "done", "failed"}
  PROVE  TypeOK'
  <1>1. /\ cancelled' \subseteq Proc
        /\ loops' \in [Proc -> SUBSET Loop]
        /\ http' \in [Proc -> {"none", "listen", "serve", "ended"}]
        /\ port' \in 0..MaxProc
        /\ closer' \in [Proc -> {"none", "wait", "remove", "done"}]
    BY DEF Ended
  <1> QED
    BY <1>1, EndedTypes DEF TypeOK

-----------------------------------------------------------------------------
(* Every step keeps the invariant. *)

\* The types.
LEMMA TypeStep ==
  ASSUME TypeOK, [Next]_vars
  PROVE  TypeOK'
  <1> USE DEF TypeOK, Proc, Loop
  <1>0. CASE UNCHANGED vars
    BY <1>0 DEF vars, procVars, ctlVars, jobVars, upVars
  <1>1. ASSUME NEW p \in Proc, Boot(p) PROVE TypeOK'
    BY <1>1 DEF Boot, procVars, ctlVars, jobVars, upVars
  <1>2. ASSUME NEW p \in Proc, HttpListens(p) PROVE TypeOK'
    BY <1>2 DEF HttpListens, procVars, ctlVars, jobVars, upVars
  <1>3. ASSUME NEW p \in Proc, HttpClosed(p) PROVE TypeOK'
    BY <1>3 DEF HttpClosed, procVars, ctlVars, jobVars, upVars
  <1>4. ASSUME NEW p \in Proc, LoopReturns(p) PROVE TypeOK'
    BY <1>4 DEF LoopReturns, procVars, ctlVars, jobVars, upVars
  <1>5. ASSUME NEW p \in Proc, Shutdown(p) PROVE TypeOK'
    BY <1>5 DEF Shutdown, procVars, ctlVars, jobVars, upVars
  <1>6. ASSUME NEW p \in Proc, StopGateway(p) PROVE TypeOK'
    BY <1>6 DEF StopGateway, procVars, ctlVars, jobVars, upVars
  <1>7. ASSUME NEW p \in Proc, Return(p) PROVE TypeOK'
    <2>1. Exit(p) /\ UNCHANGED <<saved, inst, old, shown, job, up>>
      BY <1>7 DEF Return, jobVars, upVars
    <2>2. TypeOK
      OBVIOUS
    <2> HIDE DEF TypeOK
    <2>3. Ended(p)
      BY <2>1, <2>2, ExitEnds
    <2> USE DEF TypeOK
    <2>4. /\ saved' \in 0..MaxUp /\ {inst', old', shown'} \subseteq 0..MaxProc
          /\ job' \in {"unloaded", "loaded", "leaving"}
          /\ up' \in {"idle", "install", "unload", "bootstrap", "kick", "kicked", "wait",
                     "pair", "done", "failed"}
      BY <2>1
    <2> HIDE DEF TypeOK
    <2> QED
      BY <2>2, <2>3, <2>4, EndedKeepsTypes
  <1>8. ASSUME NEW p \in Proc, SocketRemoved(p) PROVE TypeOK'
    BY <1>8 DEF SocketRemoved, procVars, ctlVars, jobVars, upVars
  <1>9. ASSUME NEW p \in Proc, SocketListens(p) PROVE TypeOK'
    BY <1>9 DEF SocketListens, procVars, ctlVars, jobVars, upVars
  <1>10. ASSUME NEW p \in Proc, SocketFails(p) PROVE TypeOK'
    BY <1>10 DEF SocketFails, procVars, ctlVars, jobVars, upVars
  <1>11. ASSUME NEW p \in Proc, SocketServes(p) PROVE TypeOK'
    BY <1>11 DEF SocketServes, procVars, ctlVars, jobVars, upVars
  <1>12. ASSUME NEW p \in Proc, SocketCloses(p) PROVE TypeOK'
    BY <1>12 DEF SocketCloses, procVars, ctlVars, jobVars, upVars
  <1>13. ASSUME NEW p \in Proc, BootFails(p) PROVE TypeOK'
    <2>1. Exit(p) /\ UNCHANGED <<saved, inst, old, shown, job, up>>
      BY <1>13 DEF BootFails, jobVars, upVars
    <2>2. TypeOK
      OBVIOUS
    <2> HIDE DEF TypeOK
    <2>3. Ended(p)
      BY <2>1, <2>2, ExitEnds
    <2> USE DEF TypeOK
    <2>4. /\ saved' \in 0..MaxUp /\ {inst', old', shown'} \subseteq 0..MaxProc
          /\ job' \in {"unloaded", "loaded", "leaving"}
          /\ up' \in {"idle", "install", "unload", "bootstrap", "kick", "kicked", "wait",
                     "pair", "done", "failed"}
      BY <2>1
    <2> HIDE DEF TypeOK
    <2> QED
      BY <2>2, <2>3, <2>4, EndedKeepsTypes
  <1>14. ASSUME NEW p \in Proc, HttpFails(p) PROVE TypeOK'
    BY <1>14 DEF HttpFails, procVars, ctlVars, jobVars, upVars
  <1>15. ASSUME NEW p \in Proc, SocketRemovedAgain(p) PROVE TypeOK'
    BY <1>15 DEF SocketRemovedAgain, procVars, ctlVars, jobVars, upVars
  <1>16. ASSUME NEW p \in Proc, Die(p) PROVE TypeOK'
    <2>1. Exit(p) /\ UNCHANGED <<saved, inst, old, shown, job, up>>
      BY <1>16 DEF Die, jobVars, upVars
    <2>2. TypeOK
      OBVIOUS
    <2> HIDE DEF TypeOK
    <2>3. Ended(p)
      BY <2>1, <2>2, ExitEnds
    <2> USE DEF TypeOK
    <2>4. /\ saved' \in 0..MaxUp /\ {inst', old', shown'} \subseteq 0..MaxProc
          /\ job' \in {"unloaded", "loaded", "leaving"}
          /\ up' \in {"idle", "install", "unload", "bootstrap", "kick", "kicked", "wait",
                     "pair", "done", "failed"}
      BY <2>1
    <2> HIDE DEF TypeOK
    <2> QED
      BY <2>2, <2>3, <2>4, EndedKeepsTypes
  <1>17. ASSUME NEW p \in Proc, Interrupt(p) PROVE TypeOK'
    <2>1. /\ saved' \in 0..MaxUp /\ {inst', old', shown'} \subseteq 0..MaxProc
          /\ job' \in {"unloaded", "loaded", "leaving"}
          /\ up' \in {"idle", "install", "unload", "bootstrap", "kick", "kicked", "wait",
                     "pair", "done", "failed"}
      BY <1>17 DEF Interrupt, jobVars, upVars
    <2>2. Terminate(p) /\ TypeOK
      BY <1>17 DEF Interrupt
    <2> HIDE DEF TypeOK
    <2> QED
      BY <2>1, <2>2, TerminateEnds, EndedKeepsTypes
  <1>18. ASSUME NEW p \in Proc, StatusReady(p) PROVE TypeOK'
    <2>1. UNCHANGED <<procVars, http, port, ctlVars, jobVars, saved, old>>
      BY <1>18 DEF StatusReady, UpIdle
    <2>2. shown' = p /\ up' \in {"pair", "done"}
      BY <1>18 DEF StatusReady, UpAt
    <2> QED
      BY <2>1, <2>2 DEF procVars, ctlVars, jobVars
  <1>19. ASSUME NEW p \in Proc, Paired(p) PROVE TypeOK'
    <2>1. UNCHANGED <<procVars, http, port, ctlVars, jobVars, saved, old>>
      BY <1>19 DEF Paired, UpIdle
    <2>2. shown' = p /\ up' \in {"pair", "done"}
      BY <1>19 DEF Paired, UpAt
    <2> QED
      BY <2>1, <2>2 DEF procVars, ctlVars, jobVars
  <1>20. CASE Launch
    BY <1>20 DEF Launch, procVars, ctlVars, jobVars, upVars, Unused
  <1>21. CASE Unloaded
    BY <1>21 DEF Unloaded, procVars, ctlVars, jobVars, upVars
  <1>22. CASE Bootout
    <2>1. CASE UNCHANGED <<procVars, http, port, ctlVars>>
      BY <1>22, <2>1 DEF Bootout, procVars, ctlVars, jobVars, upVars
    <2>2. CASE inst \in Proc /\ Ended(inst)
      <3>1. /\ saved' \in 0..MaxUp /\ {inst', old', shown'} \subseteq 0..MaxProc
            /\ job' \in {"unloaded", "loaded", "leaving"}
            /\ up' \in {"idle", "install", "unload", "bootstrap", "kick", "kicked", "wait",
                       "pair", "done", "failed"}
        BY <1>22, <2>2 DEF Bootout, jobVars, upVars
      <3>2. TypeOK
        OBVIOUS
      <3> HIDE DEF TypeOK
      <3> QED
        BY <2>2, <3>1, <3>2, EndedKeepsTypes
    <2>3. TypeOK /\ (EndInstance \/ UNCHANGED <<procVars, http, port, ctlVars>>)
      BY <1>22 DEF Bootout, UpIdle
    <2> HIDE DEF TypeOK
    <2> QED
      BY <2>1, <2>2, <2>3, InstanceEnds
  <1>23. CASE Up
    BY <1>23 DEF Up, procVars, ctlVars, jobVars, upVars, UpIdle
  <1>24. CASE InstallSame
    BY <1>24 DEF InstallSame, procVars, ctlVars, jobVars, upVars, UpAt, UpIdle
  <1>25. CASE InstallNew
    <2>1. CASE UNCHANGED <<procVars, http, port, ctlVars>>
      BY <1>25, <2>1 DEF InstallNew, procVars, ctlVars, jobVars, upVars, UpAt, UpIdle
    <2>2. CASE inst \in Proc /\ Ended(inst)
      <3>1. /\ saved' \in 0..MaxUp /\ {inst', old', shown'} \subseteq 0..MaxProc
            /\ job' \in {"unloaded", "loaded", "leaving"}
            /\ up' \in {"idle", "install", "unload", "bootstrap", "kick", "kicked", "wait",
                       "pair", "done", "failed"}
        BY <1>25, <2>2 DEF InstallNew, jobVars, upVars, UpAt, UpIdle
      <3>2. TypeOK
        OBVIOUS
      <3> HIDE DEF TypeOK
      <3> QED
        BY <2>2, <3>1, <3>2, EndedKeepsTypes
    <2>3. TypeOK /\ (EndInstance \/ UNCHANGED <<procVars, http, port, ctlVars>>)
      BY <1>25 DEF InstallNew, UpIdle
    <2> HIDE DEF TypeOK
    <2> QED
      BY <2>1, <2>2, <2>3, InstanceEnds
  <1>26. CASE UnloadWaited
    BY <1>26 DEF UnloadWaited, procVars, ctlVars, jobVars, upVars, UpAt, UpIdle
  <1>27. CASE Bootstrap
    BY <1>27 DEF Bootstrap, procVars, ctlVars, jobVars, upVars, UpAt
  <1>28. CASE Kick
    <2>1. CASE UNCHANGED <<procVars, http, port, ctlVars>>
      BY <1>28, <2>1 DEF Kick, procVars, ctlVars, jobVars, upVars, UpAt
    <2>2. CASE inst \in Proc /\ Ended(inst)
      <3>1. /\ saved' \in 0..MaxUp /\ {inst', old', shown'} \subseteq 0..MaxProc
            /\ job' \in {"unloaded", "loaded", "leaving"}
            /\ up' \in {"idle", "install", "unload", "bootstrap", "kick", "kicked", "wait",
                       "pair", "done", "failed"}
        BY <1>28, <2>2 DEF Kick, jobVars, upVars, UpAt
      <3>2. TypeOK
        OBVIOUS
      <3> HIDE DEF TypeOK
      <3> QED
        BY <2>2, <3>1, <3>2, EndedKeepsTypes
    <2>3. TypeOK /\ (EndInstance \/ UNCHANGED <<procVars, http, port, ctlVars>>)
      BY <1>28 DEF Kick, UpIdle
    <2> HIDE DEF TypeOK
    <2> QED
      BY <2>1, <2>2, <2>3, InstanceEnds
  <1>29. CASE KickReturns
    BY <1>29 DEF KickReturns, procVars, ctlVars, jobVars, upVars, UpAt, UpIdle
  <1>30. CASE UpFails
    BY <1>30 DEF UpFails, procVars, ctlVars, jobVars, upVars, UpIdle
  <1>31. ASSUME NEW p \in Proc, SocketBreaks(p) PROVE TypeOK'
    BY <1>31 DEF SocketBreaks, procVars, ctlVars, jobVars, upVars
  <1> QED
    BY <1>0, <1>1, <1>2, <1>3, <1>4, <1>5, <1>6, <1>7, <1>8, <1>9, <1>10, <1>11, <1>12,
       <1>13, <1>14, <1>15, <1>16, <1>17, <1>18, <1>19, <1>20, <1>21, <1>22, <1>23, <1>24,
       <1>25, <1>26, <1>27, <1>28, <1>29, <1>30, <1>31
    DEF Next, Steps

\* What ends starts nothing, and leaves no control socket behind that is served.
LEMMA EndedStartsNone ==
  ASSUME TypeOK, OneInstance, SocketOfLiving, NEW p \in Proc, Ended(p),
         inst' = inst, old' \in {old, inst}, job # "unloaded" => job' # "unloaded"
  PROVE  OneInstance' /\ SocketOfLiving'
  <1>1. \A q \in Proc :
          \/ stage'[q] = stage[q] /\ ctl'[q] = ctl[q]
          \/ stage'[q] = "gone" /\ ctl'[q] = "ended"
    BY EndedProcesses
  <1>2. (inst # 0 => inst \in Proc) /\ (old # 0 => old \in Proc)
    BY DEF TypeOK, Proc
  <1>3. OneInstance'
    BY <1>1, <1>2 DEF OneInstance, Alive
  <1>4. SocketOfLiving'
    BY <1>1 DEF SocketOfLiving, Alive
  <1> QED
    BY <1>3, <1>4

\* Launch starts an instance only when the one before it is gone, and Bootstrap loads
\* the job only when launchd has let go of it; every other step starts nothing.
LEMMA OneStep ==
  ASSUME TypeOK, OneInstance, SocketOfLiving, [Next]_vars
  PROVE  (OneInstance' /\ SocketOfLiving')
  <1> USE DEF TypeOK, OneInstance, SocketOfLiving, Proc, Alive
  <1>0. CASE UNCHANGED vars
    BY <1>0 DEF vars, procVars, ctlVars, jobVars, upVars
  <1>1. ASSUME NEW p \in Proc, Boot(p) PROVE (OneInstance' /\ SocketOfLiving')
    <2>1. /\ stage[p] = "boot" /\ stage' = [stage EXCEPT ![p] = "run"]
          /\ ctl' = [ctl EXCEPT ![p] = "remove"] /\ UNCHANGED <<inst, old, job>>
      BY <1>1 DEF Boot, jobVars, upVars
    <2>2. OneInstance'
      BY <2>1
    <2>3. SocketOfLiving'
      BY <2>1
    <2> QED
      BY <2>2, <2>3
  <1>2. ASSUME NEW p \in Proc, HttpListens(p) PROVE (OneInstance' /\ SocketOfLiving')
    BY <1>2 DEF HttpListens, procVars, ctlVars, jobVars, upVars
  <1>3. ASSUME NEW p \in Proc, HttpClosed(p) PROVE (OneInstance' /\ SocketOfLiving')
    BY <1>3 DEF HttpClosed, procVars, ctlVars, jobVars, upVars
  <1>4. ASSUME NEW p \in Proc, LoopReturns(p) PROVE (OneInstance' /\ SocketOfLiving')
    BY <1>4 DEF LoopReturns, procVars, ctlVars, jobVars, upVars
  <1>5. ASSUME NEW p \in Proc, Shutdown(p) PROVE (OneInstance' /\ SocketOfLiving')
    BY <1>5 DEF Shutdown, procVars, ctlVars, jobVars, upVars
  <1>6. ASSUME NEW p \in Proc, StopGateway(p) PROVE (OneInstance' /\ SocketOfLiving')
    <2>1. OneInstance'
      <3>1. /\ \A q \in Proc : stage'[q] \notin {"new", "gone"} => stage[q] \notin {"new", "gone"}
            /\ \A q \in Proc : stage[q] # "new" => stage'[q] # "new"
        BY <1>6 DEF StopGateway
      <3>2. UNCHANGED <<inst, old, job>> /\ {inst, old} \subseteq 0..MaxProc
        BY <1>6 DEF StopGateway, jobVars, upVars
      <3> QED
        BY <3>1, <3>2
    <2>2. SocketOfLiving'
      BY <1>6 DEF StopGateway, procVars, ctlVars, jobVars, upVars
    <2> QED
      BY <2>1, <2>2
  <1>7. ASSUME NEW p \in Proc, Return(p) PROVE (OneInstance' /\ SocketOfLiving')
    BY <1>7 DEF Return, procVars, ctlVars, jobVars, upVars, Exit
  <1>8. ASSUME NEW p \in Proc, SocketRemoved(p) PROVE (OneInstance' /\ SocketOfLiving')
    BY <1>8 DEF SocketRemoved, procVars, ctlVars, jobVars, upVars
  <1>9. ASSUME NEW p \in Proc, SocketListens(p) PROVE (OneInstance' /\ SocketOfLiving')
    BY <1>9 DEF SocketListens, procVars, ctlVars, jobVars, upVars
  <1>10. ASSUME NEW p \in Proc, SocketFails(p) PROVE (OneInstance' /\ SocketOfLiving')
    BY <1>10 DEF SocketFails, procVars, ctlVars, jobVars, upVars
  <1>11. ASSUME NEW p \in Proc, SocketServes(p) PROVE (OneInstance' /\ SocketOfLiving')
    BY <1>11 DEF SocketServes, procVars, ctlVars, jobVars, upVars
  <1>12. ASSUME NEW p \in Proc, SocketCloses(p) PROVE (OneInstance' /\ SocketOfLiving')
    BY <1>12 DEF SocketCloses, procVars, ctlVars, jobVars, upVars
  <1>13. ASSUME NEW p \in Proc, BootFails(p) PROVE (OneInstance' /\ SocketOfLiving')
    BY <1>13 DEF BootFails, procVars, ctlVars, jobVars, upVars, Exit
  <1>14. ASSUME NEW p \in Proc, HttpFails(p) PROVE (OneInstance' /\ SocketOfLiving')
    BY <1>14 DEF HttpFails, procVars, ctlVars, jobVars, upVars
  <1>15. ASSUME NEW p \in Proc, SocketRemovedAgain(p) PROVE (OneInstance' /\ SocketOfLiving')
    BY <1>15 DEF SocketRemovedAgain, procVars, ctlVars, jobVars, upVars
  <1>16. ASSUME NEW p \in Proc, Die(p) PROVE (OneInstance' /\ SocketOfLiving')
    BY <1>16 DEF Die, procVars, ctlVars, jobVars, upVars, Exit, Alive
  <1>17. ASSUME NEW p \in Proc, Interrupt(p) PROVE (OneInstance' /\ SocketOfLiving')
    <2>1. UNCHANGED <<inst, old, job>> /\ Terminate(p)
      BY <1>17 DEF Interrupt, jobVars, upVars
    <2>2. TypeOK /\ OneInstance /\ SocketOfLiving
      OBVIOUS
    <2> HIDE DEF TypeOK, OneInstance, SocketOfLiving
    <2> QED
      BY <2>1, <2>2, TerminateEnds, EndedStartsNone
  <1>18. ASSUME NEW p \in Proc, StatusReady(p) PROVE (OneInstance' /\ SocketOfLiving')
    BY <1>18 DEF StatusReady, procVars, ctlVars, jobVars, upVars, Answers, UpAt, UpIdle
  <1>19. ASSUME NEW p \in Proc, Paired(p) PROVE (OneInstance' /\ SocketOfLiving')
    BY <1>19 DEF Paired, procVars, ctlVars, jobVars, upVars, Answers, UpAt, UpIdle
  <1>20. CASE Launch
    BY <1>20 DEF Launch, procVars, ctlVars, jobVars, upVars, Unused
  <1>21. CASE Unloaded
    BY <1>21 DEF Unloaded, procVars, ctlVars, jobVars, upVars
  <1>22. CASE Bootout
    <2>1. CASE UNCHANGED <<procVars, http, port, ctlVars>>
      BY <1>22, <2>1 DEF Bootout, procVars, ctlVars, jobVars, upVars
    <2>2. CASE inst \in Proc /\ Ended(inst)
      <3>1. inst' = inst /\ old' \in {old, inst} /\ (job # "unloaded" => job' # "unloaded")
        BY <1>22 DEF Bootout, jobVars, upVars
      <3>2. TypeOK /\ OneInstance /\ SocketOfLiving
        OBVIOUS
      <3> HIDE DEF TypeOK, OneInstance, SocketOfLiving
      <3> QED
        BY <2>2, <3>1, <3>2, EndedStartsNone
    <2>3. TypeOK /\ (EndInstance \/ UNCHANGED <<procVars, http, port, ctlVars>>)
      BY <1>22 DEF Bootout, UpIdle
    <2> HIDE DEF TypeOK, OneInstance, SocketOfLiving
    <2> QED
      BY <2>1, <2>2, <2>3, InstanceEnds
  <1>23. CASE Up
    BY <1>23 DEF Up, procVars, ctlVars, jobVars, upVars, UpIdle
  <1>24. CASE InstallSame
    BY <1>24 DEF InstallSame, procVars, ctlVars, jobVars, upVars, UpAt, UpIdle
  <1>25. CASE InstallNew
    <2>1. CASE UNCHANGED <<procVars, http, port, ctlVars>>
      BY <1>25, <2>1 DEF InstallNew, procVars, ctlVars, jobVars, upVars, UpAt, UpIdle
    <2>2. CASE inst \in Proc /\ Ended(inst)
      <3>1. inst' = inst /\ old' \in {old, inst} /\ (job # "unloaded" => job' # "unloaded")
        BY <1>25 DEF InstallNew, jobVars, upVars, UpAt, UpIdle
      <3>2. TypeOK /\ OneInstance /\ SocketOfLiving
        OBVIOUS
      <3> HIDE DEF TypeOK, OneInstance, SocketOfLiving
      <3> QED
        BY <2>2, <3>1, <3>2, EndedStartsNone
    <2>3. TypeOK /\ (EndInstance \/ UNCHANGED <<procVars, http, port, ctlVars>>)
      BY <1>25 DEF InstallNew, UpIdle
    <2> HIDE DEF TypeOK, OneInstance, SocketOfLiving
    <2> QED
      BY <2>1, <2>2, <2>3, InstanceEnds
  <1>26. CASE UnloadWaited
    BY <1>26 DEF UnloadWaited, procVars, ctlVars, jobVars, upVars, UpAt, UpIdle
  <1>27. CASE Bootstrap
    BY <1>27 DEF Bootstrap, procVars, ctlVars, jobVars, upVars, UpAt
  <1>28. CASE Kick
    <2>1. CASE UNCHANGED <<procVars, http, port, ctlVars>>
      BY <1>28, <2>1 DEF Kick, procVars, ctlVars, jobVars, upVars, UpAt
    <2>2. CASE inst \in Proc /\ Ended(inst)
      <3>1. inst' = inst /\ old' \in {old, inst} /\ (job # "unloaded" => job' # "unloaded")
        BY <1>28 DEF Kick, jobVars, upVars, UpAt
      <3>2. TypeOK /\ OneInstance /\ SocketOfLiving
        OBVIOUS
      <3> HIDE DEF TypeOK, OneInstance, SocketOfLiving
      <3> QED
        BY <2>2, <3>1, <3>2, EndedStartsNone
    <2>3. TypeOK /\ (EndInstance \/ UNCHANGED <<procVars, http, port, ctlVars>>)
      BY <1>28 DEF Kick, UpIdle
    <2> HIDE DEF TypeOK, OneInstance, SocketOfLiving
    <2> QED
      BY <2>1, <2>2, <2>3, InstanceEnds
  <1>29. CASE KickReturns
    BY <1>29 DEF KickReturns, procVars, ctlVars, jobVars, upVars, UpAt, UpIdle
  <1>30. CASE UpFails
    BY <1>30 DEF UpFails, procVars, ctlVars, jobVars, upVars, UpIdle
  <1>31. ASSUME NEW p \in Proc, SocketBreaks(p) PROVE (OneInstance' /\ SocketOfLiving')
    BY <1>31 DEF SocketBreaks, procVars, ctlVars, jobVars, upVars
  <1> QED
    BY <1>0, <1>1, <1>2, <1>3, <1>4, <1>5, <1>6, <1>7, <1>8, <1>9, <1>10, <1>11, <1>12,
       <1>13, <1>14, <1>15, <1>16, <1>17, <1>18, <1>19, <1>20, <1>21, <1>22, <1>23, <1>24,
       <1>25, <1>26, <1>27, <1>28, <1>29, <1>30, <1>31
    DEF Next, Steps

\* Between the removal of the file and the bind nobody else makes or has a socket: there
\* is one process, OneInstance, and the makers of files are alive, SocketOfLiving.
LEMMA BindStep ==
  ASSUME DaemonInv, [Next]_vars
  PROVE  BindFindsNoFile'
  <1> USE DEF DaemonInv, TypeOK, OneInstance, SocketOfLiving, BindFindsNoFile, Proc, Alive
  <1>0. CASE UNCHANGED vars
    BY <1>0 DEF vars, procVars, ctlVars, jobVars, upVars
  <1>1. ASSUME NEW p \in Proc, Boot(p) PROVE BindFindsNoFile'
    BY <1>1 DEF Boot, procVars, ctlVars, jobVars, upVars
  <1>2. ASSUME NEW p \in Proc, HttpListens(p) PROVE BindFindsNoFile'
    BY <1>2 DEF HttpListens, procVars, ctlVars, jobVars, upVars
  <1>3. ASSUME NEW p \in Proc, HttpClosed(p) PROVE BindFindsNoFile'
    BY <1>3 DEF HttpClosed, procVars, ctlVars, jobVars, upVars
  <1>4. ASSUME NEW p \in Proc, LoopReturns(p) PROVE BindFindsNoFile'
    BY <1>4 DEF LoopReturns, procVars, ctlVars, jobVars, upVars
  <1>5. ASSUME NEW p \in Proc, Shutdown(p) PROVE BindFindsNoFile'
    BY <1>5 DEF Shutdown, procVars, ctlVars, jobVars, upVars
  <1>6. ASSUME NEW p \in Proc, StopGateway(p) PROVE BindFindsNoFile'
    BY <1>6 DEF StopGateway, procVars, ctlVars, jobVars, upVars
  <1>7. ASSUME NEW p \in Proc, Return(p) PROVE BindFindsNoFile'
    BY <1>7 DEF Return, procVars, ctlVars, jobVars, upVars, Exit
  <1>8. ASSUME NEW p \in Proc, SocketRemoved(p) PROVE BindFindsNoFile'
    BY <1>8 DEF SocketRemoved, procVars, ctlVars, jobVars, upVars
  <1>9. ASSUME NEW p \in Proc, SocketListens(p) PROVE BindFindsNoFile'
    BY <1>9 DEF SocketListens, procVars, ctlVars, jobVars, upVars
  <1>10. ASSUME NEW p \in Proc, SocketFails(p) PROVE BindFindsNoFile'
    BY <1>10 DEF SocketFails, procVars, ctlVars, jobVars, upVars
  <1>11. ASSUME NEW p \in Proc, SocketServes(p) PROVE BindFindsNoFile'
    BY <1>11 DEF SocketServes, procVars, ctlVars, jobVars, upVars
  <1>12. ASSUME NEW p \in Proc, SocketCloses(p) PROVE BindFindsNoFile'
    BY <1>12 DEF SocketCloses, procVars, ctlVars, jobVars, upVars
  <1>13. ASSUME NEW p \in Proc, BootFails(p) PROVE BindFindsNoFile'
    BY <1>13 DEF BootFails, procVars, ctlVars, jobVars, upVars, Exit
  <1>14. ASSUME NEW p \in Proc, HttpFails(p) PROVE BindFindsNoFile'
    BY <1>14 DEF HttpFails, procVars, ctlVars, jobVars, upVars
  <1>15. ASSUME NEW p \in Proc, SocketRemovedAgain(p) PROVE BindFindsNoFile'
    BY <1>15 DEF SocketRemovedAgain, procVars, ctlVars, jobVars, upVars
  <1>16. ASSUME NEW p \in Proc, Die(p) PROVE BindFindsNoFile'
    BY <1>16 DEF Die, procVars, ctlVars, jobVars, upVars, Exit, Alive
  <1>17. ASSUME NEW p \in Proc, Interrupt(p) PROVE BindFindsNoFile'
    <2>1. p \in Proc /\ Ended(p) /\ UNCHANGED <<jobVars, upVars>>
      BY <1>17, TerminateEnds DEF Interrupt
    <2> QED
      BY <2>1 DEF Ended, procVars, ctlVars, jobVars, upVars
  <1>18. ASSUME NEW p \in Proc, StatusReady(p) PROVE BindFindsNoFile'
    BY <1>18 DEF StatusReady, procVars, ctlVars, jobVars, upVars, Answers, UpAt, UpIdle
  <1>19. ASSUME NEW p \in Proc, Paired(p) PROVE BindFindsNoFile'
    BY <1>19 DEF Paired, procVars, ctlVars, jobVars, upVars, Answers, UpAt, UpIdle
  <1>20. CASE Launch
    BY <1>20 DEF Launch, procVars, ctlVars, jobVars, upVars, Unused
  <1>21. CASE Unloaded
    BY <1>21 DEF Unloaded, procVars, ctlVars, jobVars, upVars
  <1>22. CASE Bootout
    <2>1. CASE UNCHANGED <<procVars, http, port, ctlVars>>
      BY <1>22, <2>1 DEF Bootout, procVars, ctlVars, jobVars, upVars
    <2>2. CASE inst # 0 /\ inst \in Proc /\ Ended(inst)
      BY <1>22, <2>2 DEF Bootout, Ended, procVars, ctlVars, jobVars, upVars
    <2> QED
      BY <1>22, <2>1, <2>2, InstanceEnds DEF Bootout
  <1>23. CASE Up
    BY <1>23 DEF Up, procVars, ctlVars, jobVars, upVars, UpIdle
  <1>24. CASE InstallSame
    BY <1>24 DEF InstallSame, procVars, ctlVars, jobVars, upVars, UpAt, UpIdle
  <1>25. CASE InstallNew
    <2>1. CASE UNCHANGED <<procVars, http, port, ctlVars>>
      BY <1>25, <2>1 DEF InstallNew, procVars, ctlVars, jobVars, upVars, UpAt, UpIdle
    <2>2. CASE job = "loaded" /\ inst # 0 /\ inst \in Proc /\ Ended(inst)
      BY <1>25, <2>2 DEF InstallNew, Ended, procVars, ctlVars, jobVars, upVars, UpAt, UpIdle
    <2> QED
      BY <1>25, <2>1, <2>2, InstanceEnds DEF InstallNew, UpIdle
  <1>26. CASE UnloadWaited
    BY <1>26 DEF UnloadWaited, procVars, ctlVars, jobVars, upVars, UpAt, UpIdle
  <1>27. CASE Bootstrap
    BY <1>27 DEF Bootstrap, procVars, ctlVars, jobVars, upVars, UpAt
  <1>28. CASE Kick
    <2>1. CASE UNCHANGED <<procVars, http, port, ctlVars>>
      BY <1>28, <2>1 DEF Kick, procVars, ctlVars, jobVars, upVars, UpAt
    <2>2. CASE inst # 0 /\ inst \in Proc /\ Ended(inst)
      BY <1>28, <2>2 DEF Kick, Ended, procVars, ctlVars, jobVars, upVars, UpAt
    <2> QED
      BY <1>28, <2>1, <2>2, InstanceEnds DEF Kick
  <1>29. CASE KickReturns
    BY <1>29 DEF KickReturns, procVars, ctlVars, jobVars, upVars, UpAt, UpIdle
  <1>30. CASE UpFails
    BY <1>30 DEF UpFails, procVars, ctlVars, jobVars, upVars, UpIdle
  <1>31. ASSUME NEW p \in Proc, SocketBreaks(p) PROVE BindFindsNoFile'
    BY <1>31 DEF SocketBreaks, procVars, ctlVars, jobVars, upVars
  <1> QED
    BY <1>0, <1>1, <1>2, <1>3, <1>4, <1>5, <1>6, <1>7, <1>8, <1>9, <1>10, <1>11, <1>12,
       <1>13, <1>14, <1>15, <1>16, <1>17, <1>18, <1>19, <1>20, <1>21, <1>22, <1>23, <1>24,
       <1>25, <1>26, <1>27, <1>28, <1>29, <1>30, <1>31
    DEF Next, Steps

\* What ends answers nobody, and what it has read stays as it was.
LEMMA EndedKeepsAnswers ==
  ASSUME TypeOK, RunsOnSaved, UpAnswersFromNewConfig, NEW p \in Proc, Ended(p),
         UNCHANGED <<inst, saved, up, old, shown>>
  PROVE  RunsOnSaved' /\ UpAnswersFromNewConfig'
  <1>1. \A q \in Proc : stage'[q] = stage[q] \/ stage'[q] = "gone"
    BY EndedProcesses
  <1>2. conf' = conf
    BY DEF Ended
  <1>3. RunsOnSaved'
    BY <1>1, <1>2 DEF RunsOnSaved, Alive
  <1>4. UpAnswersFromNewConfig'
    BY <1>2 DEF UpAnswersFromNewConfig
  <1> QED
    BY <1>3, <1>4

\* Kick ends the instance that may have read an older file; the instance after it is
\* started when the file has been saved, and nothing is saved until up ends.
LEMMA UpStep ==
  ASSUME DaemonInv, [Next]_vars
  PROVE  (RunsOnSaved' /\ UpAnswersFromNewConfig')
  <1> USE DEF DaemonInv, TypeOK, OneInstance, SocketOfLiving, RunsOnSaved, UpAnswersFromNewConfig, Proc, Alive
  <1>0. CASE UNCHANGED vars
    BY <1>0 DEF vars, procVars, ctlVars, jobVars, upVars
  <1>1. ASSUME NEW p \in Proc, Boot(p) PROVE (RunsOnSaved' /\ UpAnswersFromNewConfig')
    BY <1>1 DEF Boot, procVars, ctlVars, jobVars, upVars
  <1>2. ASSUME NEW p \in Proc, HttpListens(p) PROVE (RunsOnSaved' /\ UpAnswersFromNewConfig')
    BY <1>2 DEF HttpListens, procVars, ctlVars, jobVars, upVars
  <1>3. ASSUME NEW p \in Proc, HttpClosed(p) PROVE (RunsOnSaved' /\ UpAnswersFromNewConfig')
    BY <1>3 DEF HttpClosed, procVars, ctlVars, jobVars, upVars
  <1>4. ASSUME NEW p \in Proc, LoopReturns(p) PROVE (RunsOnSaved' /\ UpAnswersFromNewConfig')
    BY <1>4 DEF LoopReturns, procVars, ctlVars, jobVars, upVars
  <1>5. ASSUME NEW p \in Proc, Shutdown(p) PROVE (RunsOnSaved' /\ UpAnswersFromNewConfig')
    BY <1>5 DEF Shutdown, procVars, ctlVars, jobVars, upVars
  <1>6. ASSUME NEW p \in Proc, StopGateway(p) PROVE (RunsOnSaved' /\ UpAnswersFromNewConfig')
    BY <1>6 DEF StopGateway, procVars, ctlVars, jobVars, upVars
  <1>7. ASSUME NEW p \in Proc, Return(p) PROVE (RunsOnSaved' /\ UpAnswersFromNewConfig')
    BY <1>7 DEF Return, procVars, ctlVars, jobVars, upVars, Exit
  <1>8. ASSUME NEW p \in Proc, SocketRemoved(p) PROVE (RunsOnSaved' /\ UpAnswersFromNewConfig')
    BY <1>8 DEF SocketRemoved, procVars, ctlVars, jobVars, upVars
  <1>9. ASSUME NEW p \in Proc, SocketListens(p) PROVE (RunsOnSaved' /\ UpAnswersFromNewConfig')
    BY <1>9 DEF SocketListens, procVars, ctlVars, jobVars, upVars
  <1>10. ASSUME NEW p \in Proc, SocketFails(p) PROVE (RunsOnSaved' /\ UpAnswersFromNewConfig')
    BY <1>10 DEF SocketFails, procVars, ctlVars, jobVars, upVars
  <1>11. ASSUME NEW p \in Proc, SocketServes(p) PROVE (RunsOnSaved' /\ UpAnswersFromNewConfig')
    BY <1>11 DEF SocketServes, procVars, ctlVars, jobVars, upVars
  <1>12. ASSUME NEW p \in Proc, SocketCloses(p) PROVE (RunsOnSaved' /\ UpAnswersFromNewConfig')
    BY <1>12 DEF SocketCloses, procVars, ctlVars, jobVars, upVars
  <1>13. ASSUME NEW p \in Proc, BootFails(p) PROVE (RunsOnSaved' /\ UpAnswersFromNewConfig')
    BY <1>13 DEF BootFails, procVars, ctlVars, jobVars, upVars, Exit
  <1>14. ASSUME NEW p \in Proc, HttpFails(p) PROVE (RunsOnSaved' /\ UpAnswersFromNewConfig')
    BY <1>14 DEF HttpFails, procVars, ctlVars, jobVars, upVars
  <1>15. ASSUME NEW p \in Proc, SocketRemovedAgain(p) PROVE (RunsOnSaved' /\ UpAnswersFromNewConfig')
    BY <1>15 DEF SocketRemovedAgain, procVars, ctlVars, jobVars, upVars
  <1>16. ASSUME NEW p \in Proc, Die(p) PROVE (RunsOnSaved' /\ UpAnswersFromNewConfig')
    BY <1>16 DEF Die, procVars, ctlVars, jobVars, upVars, Exit, Alive
  <1>17. ASSUME NEW p \in Proc, Interrupt(p) PROVE (RunsOnSaved' /\ UpAnswersFromNewConfig')
    <2>1. UNCHANGED <<inst, saved, up, old, shown>> /\ Terminate(p)
      BY <1>17 DEF Interrupt, jobVars, upVars
    <2>2. TypeOK /\ RunsOnSaved /\ UpAnswersFromNewConfig
      OBVIOUS
    <2> HIDE DEF TypeOK, RunsOnSaved, UpAnswersFromNewConfig
    <2> QED
      BY <2>1, <2>2, TerminateEnds, EndedKeepsAnswers
  <1>18. ASSUME NEW p \in Proc, StatusReady(p) PROVE (RunsOnSaved' /\ UpAnswersFromNewConfig')
    BY <1>18 DEF StatusReady, procVars, ctlVars, jobVars, upVars, Answers, UpAt, UpIdle
  <1>19. ASSUME NEW p \in Proc, Paired(p) PROVE (RunsOnSaved' /\ UpAnswersFromNewConfig')
    BY <1>19 DEF Paired, procVars, ctlVars, jobVars, upVars, Answers, UpAt, UpIdle
  <1>20. CASE Launch
    BY <1>20 DEF Launch, procVars, ctlVars, jobVars, upVars, Unused
  <1>21. CASE Unloaded
    BY <1>21 DEF Unloaded, procVars, ctlVars, jobVars, upVars
  <1>22. CASE Bootout
    <2>1. CASE UNCHANGED <<procVars, http, port, ctlVars>>
      BY <1>22, <2>1 DEF Bootout, procVars, ctlVars, jobVars, upVars
    <2>2. UNCHANGED <<inst, saved, up, old, shown>> /\ EndInstance
      BY <1>22 DEF Bootout, upVars
    <2>3. TypeOK /\ RunsOnSaved /\ UpAnswersFromNewConfig
      OBVIOUS
    <2> HIDE DEF TypeOK, RunsOnSaved, UpAnswersFromNewConfig
    <2> QED
      BY <2>1, <2>2, <2>3, InstanceEnds, EndedKeepsAnswers
  <1>23. CASE Up
    BY <1>23 DEF Up, procVars, ctlVars, jobVars, upVars, UpIdle
  <1>24. CASE InstallSame
    BY <1>24 DEF InstallSame, procVars, ctlVars, jobVars, upVars, UpAt, UpIdle
  <1>25. CASE InstallNew
    <2>1. up' \in {"bootstrap", "unload"}
      BY <1>25 DEF InstallNew, UpAt
    <2> QED
      BY <2>1
  <1>26. CASE UnloadWaited
    BY <1>26 DEF UnloadWaited, procVars, ctlVars, jobVars, upVars, UpAt, UpIdle
  <1>27. CASE Bootstrap
    BY <1>27 DEF Bootstrap, procVars, ctlVars, jobVars, upVars, UpAt
  <1>28. CASE Kick
    <2>1. up' = "kicked" /\ inst' = inst /\ old' = inst
      BY <1>28 DEF Kick, UpAt, jobVars
    <2> QED
      BY <2>1
  <1>29. CASE KickReturns
    BY <1>29 DEF KickReturns, procVars, ctlVars, jobVars, upVars, UpAt, UpIdle
  <1>30. CASE UpFails
    BY <1>30 DEF UpFails, procVars, ctlVars, jobVars, upVars, UpIdle
  <1>31. ASSUME NEW p \in Proc, SocketBreaks(p) PROVE (RunsOnSaved' /\ UpAnswersFromNewConfig')
    BY <1>31 DEF SocketBreaks, procVars, ctlVars, jobVars, upVars
  <1> QED
    BY <1>0, <1>1, <1>2, <1>3, <1>4, <1>5, <1>6, <1>7, <1>8, <1>9, <1>10, <1>11, <1>12,
       <1>13, <1>14, <1>15, <1>16, <1>17, <1>18, <1>19, <1>20, <1>21, <1>22, <1>23, <1>24,
       <1>25, <1>26, <1>27, <1>28, <1>29, <1>30, <1>31
    DEF Next, Steps

-----------------------------------------------------------------------------
(* The theorems. *)

LEMMA InitDaemon == Init => DaemonInv
  BY DEF Init, DaemonInv, TypeOK, OneInstance, SocketOfLiving, RunsOnSaved,
     BindFindsNoFile, UpAnswersFromNewConfig, Alive, Proc, Loop

LEMMA Inductive == Spec => []DaemonInv
  <1>1. DaemonInv /\ [Next]_vars => DaemonInv'
    BY TypeStep, OneStep, BindStep, UpStep DEF DaemonInv
  <1> QED
    BY InitDaemon, <1>1, PTL DEF Spec

\* Every variable of the daemons, of launchd and of up keeps its type.
THEOREM TypeCorrect == Spec => []TypeOK
  <1>1. DaemonInv => TypeOK
    BY DEF DaemonInv
  <1> QED
    BY Inductive, <1>1, PTL

\* However often daemons are killed and started again, the file an earlier one was killed
\* on is gone when the next one binds its socket.
THEOREM BindFindsNoFileHolds == Spec => []BindFindsNoFile
  <1>1. DaemonInv => BindFindsNoFile
    BY DEF DaemonInv
  <1> QED
    BY Inductive, <1>1, PTL

\* However often up runs, and whatever ends meanwhile, the daemon that issued the code up
\* prints has read the configuration up saved.
THEOREM UpAnswersFromNewConfigHolds == Spec => []UpAnswersFromNewConfig
  <1>1. DaemonInv => UpAnswersFromNewConfig
    BY DEF DaemonInv
  <1> QED
    BY Inductive, <1>1, PTL

=============================================================================
