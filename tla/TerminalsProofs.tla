-------------------------- MODULE TerminalsProofs --------------------------
(* Proofs about Terminals: its inductive invariant and what follows from it. *)
EXTENDS Terminals, FiniteSetTheorems, TLAPS

USE TerminalsAssumption

\* The number of open ids is a number, and a part of them is no more.
LEMMA OpenIdsFinite ==
  /\ IsFiniteSet(OpenIds) /\ Cardinality(OpenIds) \in Nat
  /\ \A S \in SUBSET OpenIds : Cardinality(S) \in Nat
                              /\ Cardinality(S) <= Cardinality(OpenIds)
  <1>1. IsFiniteSet(OpenIds)
    BY FS_Subset DEF OpenIds
  <1>2. ASSUME NEW S \in SUBSET OpenIds
        PROVE  Cardinality(S) \in Nat /\ Cardinality(S) <= Cardinality(OpenIds)
    BY <1>1, FS_Subset, FS_CardinalityType
  <1> QED
    BY <1>1, <1>2, FS_CardinalityType

\* The dispatch loop with no open under way is well typed.
LEMMA NothingOpening == <<NoId, NoTerm>> \in (Id \cup {NoId}) \X (Term \cup {NoTerm})
  OBVIOUS

\* A connection starts in the inductive invariant: no terminal and no shell.
LEMMA InitTerminals == Init => TerminalsInv
  <1> SUFFICES ASSUME Init PROVE TerminalsInv
    OBVIOUS
  <1>1. OpenIds = {}
    BY DEF Init, OpenIds
  <1>2. Cardinality(OpenIds) <= MaxTerminals
    BY <1>1, FS_EmptySet
  <1>3. TypeOK
    <2>1. seen \in [Id -> Seq(Term \X {"data", "exit"})]
      BY DEF Init
    <2>2. opening \in (Id \cup {NoId}) \X (Term \cup {NoTerm})
      BY NothingOpening DEF Init
    <2>3. output \in [Term -> 0..MaxOutput]
      BY DEF Init
    <2> QED
      BY <2>1, <2>2, <2>3 DEF Init, TypeOK, PumpStage
  <1> QED
    BY <1>2, <1>3 DEF Init, TerminalsInv, OwnSlot, OpeningInv

\* Every step of the dispatch loop, a pump, a shell or the tunnel keeps it.
LEMMA NextTerminals == TerminalsInv /\ [Next]_vars => TerminalsInv'
  <1> SUFFICES ASSUME TerminalsInv, [Next]_vars
               PROVE  TerminalsInv'
    OBVIOUS
  <1> USE DEF TerminalsInv, shellVars, loopVars, tunnelVars, phoneVars
  <1>a. ASSUME UNCHANGED open PROVE OpenIds' = OpenIds
    BY <1>a DEF OpenIds
  <1>1. ASSUME RecvFails PROVE TerminalsInv'
    <2> USE <1>1 DEF RecvFails, LoopEnds
    <2>1. OpenIds' = OpenIds
      BY <1>a
    <2>2. Cardinality(OpenIds') <= MaxTerminals
      BY <2>1
    <2>3. TypeOK'
      BY NothingOpening DEF TypeOK, PumpStage
    <2>4. OwnSlot'
      BY DEF TypeOK, OwnSlot, OpeningInv
    <2>5. OpeningInv'
      BY <2>1, <2>2 DEF TypeOK, OwnSlot, OpeningInv
    <2> QED BY <2>2, <2>3, <2>4, <2>5
  <1>2. ASSUME NEW i \in Id, Open(i) PROVE TerminalsInv'
    <2> USE <1>2 DEF Open, LoopEnds
    <2>1. OpenIds' = OpenIds
      BY <1>a
    <2>2. Cardinality(OpenIds') <= MaxTerminals
      BY <2>1
    <2>3. TypeOK'
      <3>1. CASE open[i] # NoTerm \/ Cardinality(OpenIds) >= MaxTerminals
        BY <3>1, NothingOpening DEF TypeOK, PumpStage
      <3>2. CASE ~(open[i] # NoTerm \/ Cardinality(OpenIds) >= MaxTerminals)
        <4>1. opening' \in (Id \cup {NoId}) \X (Term \cup {NoTerm})
          BY <3>2
        <4> QED
          BY <3>2, <4>1 DEF TypeOK, PumpStage
      <3> QED
        BY <3>1, <3>2
    <2>4. OwnSlot'
      BY DEF TypeOK, OwnSlot, OpeningInv
    <2>5. OpeningInv'
      BY <2>1, <2>2, OpenIdsFinite DEF TypeOK, OwnSlot, OpeningInv
    <2> QED BY <2>2, <2>3, <2>4, <2>5
  <1>3. ASSUME NEW t \in Term, Start(t) PROVE TerminalsInv'
    <2> USE <1>3 DEF Start
    <2>1. OpenIds' = OpenIds
      BY <1>a
    <2>2. Cardinality(OpenIds') <= MaxTerminals
      BY <2>1
    <2>3. TypeOK'
      BY DEF TypeOK, PumpStage, OpeningInv
    <2>4. OwnSlot'
      BY DEF TypeOK, OwnSlot, OpeningInv
    <2>5. OpeningInv'
      BY <2>1, <2>2 DEF TypeOK, OwnSlot, OpeningInv
    <2> QED BY <2>2, <2>3, <2>4, <2>5
  <1>4. ASSUME StartFails PROVE TerminalsInv'
    <2> USE <1>4 DEF StartFails, LoopEnds
    <2>1. OpenIds' = OpenIds
      BY <1>a
    <2>2. Cardinality(OpenIds') <= MaxTerminals
      BY <2>1
    <2>3. TypeOK'
      BY NothingOpening DEF TypeOK, PumpStage
    <2>4. OwnSlot'
      BY DEF TypeOK, OwnSlot, OpeningInv
    <2>5. OpeningInv'
      BY <2>1, <2>2 DEF TypeOK, OwnSlot, OpeningInv
    <2> QED BY <2>2, <2>3, <2>4, <2>5
  <1>5. ASSUME Insert PROVE TerminalsInv'
    <2> USE <1>5 DEF Insert
    <2>0. /\ opening[1] \in Id /\ opening[2] \in Term
          /\ Cardinality(OpenIds) < MaxTerminals
      BY DEF OpeningInv
    <2>1. OpenIds' = OpenIds \cup {opening[1]}
      BY <2>0 DEF OpenIds, TypeOK
    <2>2. Cardinality(OpenIds') <= MaxTerminals
      <3>1. /\ Cardinality(OpenIds \cup {opening[1]}) <= Cardinality(OpenIds) + 1
            /\ Cardinality(OpenIds \cup {opening[1]}) \in Nat
        <4>1. /\ IsFiniteSet(OpenIds \cup {opening[1]})
              /\ \/ Cardinality(OpenIds \cup {opening[1]}) = Cardinality(OpenIds)
                 \/ Cardinality(OpenIds \cup {opening[1]}) = Cardinality(OpenIds) + 1
          BY OpenIdsFinite, FS_AddElement
        <4> QED
          BY <4>1, OpenIdsFinite
      <3> QED
        BY <2>0, <2>1, <3>1, OpenIdsFinite
    <2>3. TypeOK'
      BY <2>0, NothingOpening DEF TypeOK, PumpStage
    <2>4. OwnSlot'
      BY <2>0 DEF TypeOK, OwnSlot, OpeningInv
    <2>5. OpeningInv'
      <3>1. \A t \in Term : pump'[t] = IF t = opening[2] THEN "read" ELSE pump[t]
        BY <2>0 DEF TypeOK
      <3>2. \A t \in Term :
              /\ pump[t] # "none" => idOf[t] \in Id
              /\ shell[t] = "none" => pump[t] = "none"
              /\ shell[t] = "running" => pump[t] \in {"read", "wait"} \/ opening[2] = t
        BY DEF OpeningInv
      <3>3. shell[opening[2]] # "none" /\ idOf[opening[2]] = opening[1]
        BY DEF OpeningInv
      <3>4. dispatch' = "recv" /\ UNCHANGED <<idOf, shell>>
        OBVIOUS
      <3> QED
        BY <2>0, <3>1, <3>2, <3>3, <3>4 DEF OpeningInv
    <2> QED BY <2>2, <2>3, <2>4, <2>5
  <1>6. ASSUME NEW i \in Id, Resize(i) PROVE TerminalsInv'
    <2> USE <1>6 DEF Resize, LoopEnds
    <2>1. OpenIds' = OpenIds
      BY <1>a
    <2>2. Cardinality(OpenIds') <= MaxTerminals
      BY <2>1
    <2>3. TypeOK'
      BY NothingOpening DEF TypeOK, PumpStage
    <2>4. OwnSlot'
      BY DEF TypeOK, OwnSlot, OpeningInv
    <2>5. OpeningInv'
      BY <2>1, <2>2 DEF TypeOK, OwnSlot, OpeningInv
    <2> QED BY <2>2, <2>3, <2>4, <2>5
  <1>7. ASSUME NEW i \in Id, Close(i) PROVE TerminalsInv'
    <2> USE <1>7 DEF Close, HangUp
    <2>1. OpenIds' = OpenIds
      BY <1>a
    <2>2. Cardinality(OpenIds') <= MaxTerminals
      BY <2>1
    <2>3. TypeOK'
      BY DEF TypeOK, PumpStage
    <2>4. OwnSlot'
      BY DEF TypeOK, OwnSlot, OpeningInv
    <2>5. OpeningInv'
      BY <2>1, <2>2 DEF TypeOK, OwnSlot, OpeningInv
    <2> QED BY <2>2, <2>3, <2>4, <2>5
  <1>8. ASSUME NEW t \in Term, Exit(t) PROVE TerminalsInv'
    <2> USE <1>8 DEF Exit
    <2>1. OpenIds' = OpenIds
      BY <1>a
    <2>2. Cardinality(OpenIds') <= MaxTerminals
      BY <2>1
    <2>3. TypeOK'
      BY DEF TypeOK, PumpStage
    <2>4. OwnSlot'
      BY DEF TypeOK, OwnSlot, OpeningInv
    <2>5. OpeningInv'
      BY <2>1, <2>2 DEF TypeOK, OwnSlot, OpeningInv
    <2> QED BY <2>2, <2>3, <2>4, <2>5
  <1>9. ASSUME NEW t \in Term, PumpData(t) PROVE TerminalsInv'
    <2> USE <1>9 DEF PumpData
    <2>1. OpenIds' = OpenIds
      BY <1>a
    <2>2. Cardinality(OpenIds') <= MaxTerminals
      BY <2>1
    <2>a. idOf[t] \in Id /\ output[t] \in 0..MaxOutput
      BY DEF TypeOK, OpeningInv
    <2>b. output' \in [Term -> 0..MaxOutput]
      BY <2>a DEF TypeOK
    <2>c. ASSUME CanSend PROVE TypeOK' /\ OwnSlot'
      <3>1. Append(seen[idOf[t]], <<t, "data">>) \in Seq(Term \X {"data", "exit"})
        BY <2>a DEF TypeOK
      <3>a. /\ seen' = [seen EXCEPT ![idOf[t]] = Append(seen[idOf[t]], <<t, "data">>)]
            /\ pump' = pump
        BY <2>c
      <3>2. seen' \in [Id -> Seq(Term \X {"data", "exit"})]
        BY <2>a, <3>a, <3>1 DEF TypeOK
      <3> QED
        BY <2>b, <3>a, <3>2 DEF TypeOK, OwnSlot
    <2>d. ASSUME ~CanSend PROVE TypeOK' /\ OwnSlot'
      <3>1. pump' = [pump EXCEPT ![t] = "wait"] /\ seen' = seen
        BY <2>d
      <3>2. TypeOK'
        BY <2>b, <3>1 DEF TypeOK, PumpStage
      <3> QED
        BY <3>1, <3>2 DEF TypeOK, OwnSlot
    <2>3. TypeOK'
      BY <2>c, <2>d
    <2>4. OwnSlot'
      BY <2>c, <2>d
    <2>5. OpeningInv'
      BY <2>1, <2>2 DEF TypeOK, OwnSlot, OpeningInv
    <2> QED BY <2>2, <2>3, <2>4, <2>5
  <1>10. ASSUME NEW t \in Term, PumpEOF(t) PROVE TerminalsInv'
    <2> USE <1>10 DEF PumpEOF
    <2>1. OpenIds' = OpenIds
      BY <1>a
    <2>2. Cardinality(OpenIds') <= MaxTerminals
      BY <2>1
    <2>3. TypeOK'
      BY DEF TypeOK, PumpStage
    <2>4. OwnSlot'
      BY DEF TypeOK, OwnSlot, OpeningInv
    <2>5. OpeningInv'
      BY <2>1, <2>2 DEF TypeOK, OwnSlot, OpeningInv
    <2> QED BY <2>2, <2>3, <2>4, <2>5
  <1>11. ASSUME NEW t \in Term, PumpReap(t) PROVE TerminalsInv'
    <2> USE <1>11 DEF PumpReap
    <2>1. OpenIds' = OpenIds
      BY <1>a
    <2>2. Cardinality(OpenIds') <= MaxTerminals
      BY <2>1
    <2>3. TypeOK'
      BY DEF TypeOK, PumpStage
    <2>4. OwnSlot'
      BY DEF TypeOK, OwnSlot, OpeningInv
    <2>5. OpeningInv'
      BY <2>1, <2>2 DEF TypeOK, OwnSlot, OpeningInv
    <2> QED BY <2>2, <2>3, <2>4, <2>5
  <1>12. ASSUME NEW t \in Term, PumpForget(t) PROVE TerminalsInv'
    <2> USE <1>12 DEF PumpForget
    <2>0. idOf[t] \in Id
      BY DEF OpeningInv
    <2>1. OpenIds' \subseteq OpenIds
      BY <2>0 DEF OpenIds, TypeOK
    <2>2. /\ Cardinality(OpenIds') <= MaxTerminals
          /\ Cardinality(OpenIds) < MaxTerminals => Cardinality(OpenIds') < MaxTerminals
      BY <2>1, OpenIdsFinite
    <2>3. TypeOK'
      BY <2>0 DEF TypeOK, PumpStage
    <2>4. OwnSlot'
      BY <2>0 DEF TypeOK, OwnSlot, OpeningInv
    <2>5. OpeningInv'
      BY <2>1, <2>2, <2>0 DEF TypeOK, OwnSlot, OpeningInv
    <2> QED BY <2>2, <2>3, <2>4, <2>5
  <1>13. ASSUME NEW t \in Term, PumpReport(t) PROVE TerminalsInv'
    <2> USE <1>13 DEF PumpReport
    <2>1. OpenIds' = OpenIds
      BY <1>a
    <2>2. Cardinality(OpenIds') <= MaxTerminals
      BY <2>1
    <2>3. TypeOK'
      BY DEF TypeOK, PumpStage, OpeningInv
    <2>4. OwnSlot'
      BY DEF TypeOK, OwnSlot, OpeningInv
    <2>5. OpeningInv'
      BY <2>1, <2>2 DEF TypeOK, OwnSlot, OpeningInv
    <2> QED BY <2>2, <2>3, <2>4, <2>5
  <1>14. ASSUME PhoneGone PROVE TerminalsInv'
    <2> USE <1>14 DEF PhoneGone
    <2>1. OpenIds' = OpenIds
      BY <1>a
    <2>2. Cardinality(OpenIds') <= MaxTerminals
      BY <2>1
    <2>3. TypeOK'
      BY DEF TypeOK, PumpStage
    <2>4. OwnSlot'
      BY DEF TypeOK, OwnSlot, OpeningInv
    <2>5. OpeningInv'
      BY <2>1, <2>2 DEF TypeOK, OwnSlot, OpeningInv
    <2> QED BY <2>2, <2>3, <2>4, <2>5
  <1>15. ASSUME GatewayFails PROVE TerminalsInv'
    <2> USE <1>15 DEF GatewayFails
    <2>1. OpenIds' = OpenIds
      BY <1>a
    <2>2. Cardinality(OpenIds') <= MaxTerminals
      BY <2>1
    <2>3. TypeOK'
      BY DEF TypeOK, PumpStage
    <2>4. OwnSlot'
      BY DEF TypeOK, OwnSlot, OpeningInv
    <2>5. OpeningInv'
      BY <2>1, <2>2 DEF TypeOK, OwnSlot, OpeningInv
    <2> QED BY <2>2, <2>3, <2>4, <2>5
  <1>16. ASSUME TunnelReturns PROVE TerminalsInv'
    <2> USE <1>16 DEF TunnelReturns
    <2>1. OpenIds' = OpenIds
      BY <1>a
    <2>2. Cardinality(OpenIds') <= MaxTerminals
      BY <2>1
    <2>3. TypeOK'
      BY DEF TypeOK, PumpStage, OpenIds
    <2>4. OwnSlot'
      BY DEF TypeOK, OwnSlot, OpeningInv
    <2>5. OpeningInv'
      BY <2>1, <2>2 DEF TypeOK, OwnSlot, OpeningInv
    <2> QED BY <2>2, <2>3, <2>4, <2>5
  <1>17. ASSUME NEW i \in Id, CloseOne(i) PROVE TerminalsInv'
    <2> USE <1>17 DEF CloseOne, HangUp
    <2>1. OpenIds' = OpenIds
      BY <1>a
    <2>2. Cardinality(OpenIds') <= MaxTerminals
      BY <2>1
    <2>3. TypeOK'
      BY DEF TypeOK, PumpStage
    <2>4. OwnSlot'
      BY DEF TypeOK, OwnSlot, OpeningInv
    <2>5. OpeningInv'
      BY <2>1, <2>2 DEF TypeOK, OwnSlot, OpeningInv
    <2> QED BY <2>2, <2>3, <2>4, <2>5
  <1>18. ASSUME Cancel PROVE TerminalsInv'
    <2> USE <1>18 DEF Cancel
    <2>1. OpenIds' = OpenIds
      BY <1>a
    <2>2. Cardinality(OpenIds') <= MaxTerminals
      BY <2>1
    <2>3. TypeOK'
      BY DEF TypeOK, PumpStage
    <2>4. OwnSlot'
      BY DEF TypeOK, OwnSlot, OpeningInv
    <2>5. OpeningInv'
      BY <2>1, <2>2 DEF TypeOK, OwnSlot, OpeningInv
    <2> QED BY <2>2, <2>3, <2>4, <2>5
  <1>20. ASSUME LastFrame PROVE TerminalsInv'
    <2> USE <1>20 DEF LastFrame, LoopEnds
    <2>1. OpenIds' = OpenIds
      BY <1>a
    <2>2. Cardinality(OpenIds') <= MaxTerminals
      BY <2>1
    <2>3. TypeOK'
      BY NothingOpening DEF TypeOK, PumpStage
    <2>4. OwnSlot'
      BY DEF TypeOK, OwnSlot, OpeningInv
    <2>5. OpeningInv'
      BY <2>1, <2>2 DEF TypeOK, OwnSlot, OpeningInv
    <2> QED BY <2>2, <2>3, <2>4, <2>5
  <1>19. CASE UNCHANGED vars
    <2>1. OpenIds' = OpenIds
      BY <1>19, <1>a DEF vars
    <2> QED
      BY <1>19, <2>1 DEF vars, TypeOK, OwnSlot, OpeningInv
  <1> QED
    BY <1>1, <1>2, <1>3, <1>4, <1>5, <1>6, <1>7, <1>8, <1>9, <1>10, <1>11, <1>12, <1>13, <1>14, <1>15, <1>16, <1>17, <1>18, <1>19, <1>20
       DEF Next, Loop, Teardown, Environment, Pump

\* Types, and with them: a pump's id is the one its terminal was opened with.
THEOREM TerminalTypes == Spec => []TypeOK
  <1>1. TerminalsInv => TypeOK
    BY DEF TerminalsInv
  <1> QED
    BY InitTerminals, NextTerminals, <1>1, PTL DEF Spec

\* Each terminal keeps its place in the map until its own pump takes it out.
THEOREM TerminalsKeepSlots == Spec => []OwnSlot
  <1>1. TerminalsInv => OwnSlot
    BY DEF TerminalsInv
  <1> QED
    BY InitTerminals, NextTerminals, <1>1, PTL DEF Spec

\* The shells that run are those in the map and the one being inserted, each
\* under an id of its own.
LEMMA RunningShellsBounded == TerminalsInv => ShellCap
  <1> SUFFICES ASSUME TerminalsInv PROVE ShellCap
    OBVIOUS
  <1> USE DEF TerminalsInv
  <1> DEFINE Running == {t \in Term : shell[t] = "running"}
             Ids == OpenIds \cup (IF dispatch = "insert" THEN {opening[1]} ELSE {})
             f == [t \in Running |-> idOf[t]]
  <1>1. IsFiniteSet(Ids) /\ Cardinality(Ids) <= MaxTerminals
    <2>1. CASE dispatch = "insert"
      <3>1. /\ IsFiniteSet(OpenIds \cup {opening[1]})
            /\ Cardinality(OpenIds \cup {opening[1]}) <= Cardinality(OpenIds) + 1
        BY OpenIdsFinite, FS_AddElement
      <3>2. Cardinality(OpenIds) < MaxTerminals
        BY <2>1 DEF OpeningInv
      <3>3. Ids = OpenIds \cup {opening[1]}
        BY <2>1
      <3>4. IsFiniteSet(Ids) /\ Cardinality(Ids) \in Nat
        BY <3>1, <3>3, FS_CardinalityType
      <3> QED
        BY <3>1, <3>2, <3>3, <3>4, OpenIdsFinite
    <2>2. CASE dispatch # "insert"
      BY <2>2, OpenIdsFinite
    <2> QED
      BY <2>1, <2>2
  <1>2. \A t \in Running :
          \/ /\ idOf[t] \in OpenIds
             /\ open[idOf[t]] = t
          \/ /\ dispatch = "insert" /\ opening[2] = t
             /\ idOf[t] = opening[1] /\ open[idOf[t]] = NoTerm
    <2> SUFFICES ASSUME NEW t \in Term, shell[t] = "running"
                 PROVE  \/ /\ idOf[t] \in OpenIds
                           /\ open[idOf[t]] = t
                        \/ /\ dispatch = "insert" /\ opening[2] = t
                           /\ idOf[t] = opening[1] /\ open[idOf[t]] = NoTerm
      OBVIOUS
    <2>1. CASE pump[t] \in {"read", "wait"}
      <3>1. open[idOf[t]] = t /\ idOf[t] \in Id
        BY <2>1 DEF OwnSlot, OpeningInv
      <3> QED
        BY <3>1 DEF OpenIds
    <2>2. CASE dispatch = "insert" /\ opening[2] = t
      BY <2>2 DEF OpeningInv
    <2> QED
      BY <2>1, <2>2 DEF OpeningInv
  <1>3. f \in Injection(Running, Ids)
    BY <1>2 DEF Injection, IsInjective
  <1>4. IsFiniteSet(Running) /\ Cardinality(Running) <= Cardinality(Ids)
    BY <1>1, <1>3, FS_Injection
  <1> QED
    BY <1>1, <1>4, FS_CardinalityType DEF ShellCap

\* However opens, exits and closes interleave, no more shells run than allowed.
THEOREM ShellsWithinCap == Spec => []ShellCap
  BY InitTerminals, NextTerminals, RunningShellsBounded, PTL DEF Spec

\* A started pump keeps its id, and ends for good.
LEMMA PumpsStay ==
  ASSUME TerminalsInv, [Next]_vars, NEW t \in Term, pump[t] # "none"
  PROVE  idOf'[t] = idOf[t] /\ pump'[t] # "none" /\ (pump[t] = "done" => pump'[t] = "done")
  <1> USE DEF TerminalsInv, TypeOK, OpeningInv
  <1>1. CASE UNCHANGED <<idOf, pump>>
    BY <1>1
  <1>2. CASE \E u \in Term : Start(u)
    BY <1>2 DEF Start
  <1>3. CASE Insert
    BY <1>3 DEF Insert
  <1>4. CASE \E u \in Term : Pump(u)
    BY <1>4 DEF Pump, PumpData, PumpEOF, PumpReap, PumpForget, PumpReport
  <1> HIDE DEF TerminalsInv, TypeOK, OpeningInv
  <1> QED
    BY <1>1, <1>2, <1>3, <1>4
    DEF Next, Loop, Teardown, Environment, vars, LoopEnds, RecvFails, LastFrame, Open,
        StartFails, Resize, Close, Exit, PhoneGone, GatewayFails, TunnelReturns, CloseOne,
        Cancel

\* Only pumps send, and a pump sends the exit last.
LEMMA SeenGrows ==
  ASSUME TerminalsInv, [Next]_vars, seen' # seen
  PROVE  \E t \in Term, op \in {"data", "exit"} :
           /\ seen' = [seen EXCEPT ![idOf[t]] = Append(@, <<t, op>>)]
           /\ pump[t] \notin {"none", "done"} /\ idOf[t] \in Id
           /\ op = "exit" => pump'[t] = "done"
  <1>1. PICK t \in Term : PumpData(t) \/ PumpReport(t)
    BY DEF Next, Loop, Teardown, Environment, vars, LoopEnds, RecvFails, LastFrame, Open,
        Start, StartFails, Insert, Resize, Close, Exit, PhoneGone, GatewayFails,
        TunnelReturns, CloseOne, Cancel, Pump, PumpEOF, PumpReap, PumpForget, phoneVars
  <1>2. CASE PumpData(t)
    BY <1>2 DEF PumpData, TerminalsInv, OpeningInv
  <1>3. CASE PumpReport(t)
    BY <1>3 DEF PumpReport, TerminalsInv, OpeningInv, TypeOK
  <1> QED
    BY <1>1, <1>2, <1>3

LEMMA SeenStep ==
  ASSUME TerminalsInv, SeenInv, ExitIsLast, [Next]_vars
  PROVE  SeenInv' /\ ExitIsLast'
  <1>1. \A t \in Term : pump[t] # "none" =>
          idOf'[t] = idOf[t] /\ pump'[t] # "none" /\ (pump[t] = "done" => pump'[t] = "done")
    BY PumpsStay
  <1>2. CASE seen' = seen
    BY <1>1, <1>2 DEF SeenInv, ExitIsLast
  <1>3. CASE seen' # seen
    <2>1. PICK t \in Term, op \in {"data", "exit"} :
            /\ seen' = [seen EXCEPT ![idOf[t]] = Append(@, <<t, op>>)]
            /\ pump[t] \notin {"none", "done"} /\ idOf[t] \in Id
            /\ op = "exit" => pump'[t] = "done"
      BY <1>3, SeenGrows
    <2> DEFINE i == idOf[t]
               s == seen[i]
               e == <<t, op>>
    <2>2. s \in Seq(Term \X {"data", "exit"}) /\ e \in Term \X {"data", "exit"}
          /\ e[1] = t /\ e[2] = op
      BY <2>1 DEF TerminalsInv, TypeOK
    <2> HIDE DEF e
    <2>3. /\ seen'[i] = Append(s, e)
          /\ \A j \in Id : j # i => seen'[j] = seen[j]
      BY <2>1 DEF TerminalsInv, TypeOK, e
    <2>4. /\ DOMAIN Append(s, e) = 1..(Len(s) + 1) /\ Len(Append(s, e)) = Len(s) + 1
          /\ DOMAIN s = 1..Len(s) /\ Len(s) \in Nat
          /\ \A m \in 1..Len(s) : Append(s, e)[m] = s[m]
          /\ Append(s, e)[Len(s) + 1] = e
      BY <2>2
    <2>5. \A m \in 1..Len(s) : s[m][1] = t => s[m][2] = "data"
      BY <2>1 DEF SeenInv
    <2> HIDE DEF i, s
    <2>6. ASSUME NEW j \in Id, NEW m \in 1..Len(seen'[j])
          PROVE  LET u == seen'[j][m][1] IN
                 /\ u \in Term /\ pump'[u] # "none" /\ idOf'[u] = j
                 /\ seen'[j][m][2] # "data" => pump'[u] = "done"
      <3>1. CASE m \in 1..Len(seen[j]) /\ seen'[j][m] = seen[j][m]
        BY <1>1, <3>1 DEF SeenInv
      <3>2. CASE j = i /\ seen'[j][m] = e
        BY <1>1, <2>1, <2>2, <3>2 DEF i
      <3>3. CASE j # i
        BY <2>3, <2>6, <3>1, <3>3
      <3>4. CASE j = i
        <4>1. m \in 1..(Len(s) + 1)
          BY <2>3, <2>4, <2>6, <3>4
        <4> QED
          BY <2>3, <2>4, <3>1, <3>2, <3>4, <4>1 DEF s
      <3> QED
        BY <3>3, <3>4
    <2>7. ASSUME NEW j \in Id, NEW m \in DOMAIN seen'[j], NEW n \in DOMAIN seen'[j],
                 m < n, seen'[j][m][1] = seen'[j][n][1]
          PROVE  seen'[j][m][2] = "data"
      <3>1. CASE j # i
        BY <2>3, <2>7, <3>1 DEF ExitIsLast
      <3>2. CASE j = i
        <4>1. m \in 1..Len(s) /\ n \in 1..(Len(s) + 1) /\ seen'[j][m] = s[m]
          BY <2>3, <2>4, <2>7, <3>2
        <4>2. CASE n \in 1..Len(s)
          BY <2>3, <2>4, <2>7, <3>2, <4>1, <4>2 DEF ExitIsLast, s
        <4>3. CASE n = Len(s) + 1
          BY <2>2, <2>3, <2>4, <2>5, <2>7, <3>2, <4>1, <4>3
        <4> QED
          BY <2>4, <4>1, <4>2, <4>3
      <3> QED
        BY <3>1, <3>2
    <2> QED
      BY <2>6, <2>7 DEF SeenInv, ExitIsLast
  <1> QED
    BY <1>2, <1>3

\* Whatever the phone closes and reopens, a terminal's exit is the last it sends.
THEOREM ExitsComeLast == Spec => []ExitIsLast
  <1>1. Init => SeenInv /\ ExitIsLast
    BY DEF Init, SeenInv, ExitIsLast
  <1>2. TerminalsInv /\ SeenInv /\ ExitIsLast /\ [Next]_vars => SeenInv' /\ ExitIsLast'
    BY SeenStep
  <1> QED
    BY InitTerminals, NextTerminals, <1>1, <1>2, PTL DEF Spec

=============================================================================
