-------------------------- MODULE RelayLinkProofs --------------------------
(***************************************************************************)
(* Proofs about the relay transport, for any attachments, phones, channel  *)
(* numbers, cap and inboxes.                                               *)
(***************************************************************************)
EXTENDS RelayLink, TLAPS, FiniteSetTheorems, WellFoundedInduction

USE RelayLinkAssumption

-----------------------------------------------------------------------------
(* The channel number a phone is given. *)

\* A set of natural numbers that is not empty has a least one.
LEMMA Least ==
  ASSUME NEW S \in SUBSET Nat, S # {}
  PROVE  \E m \in S : \A k \in S : m <= k
  <1> DEFINE R == {r \in Nat \X Nat : r[1] < r[2]}
  <1>1. IsWellFoundedOn(R, Nat)
    BY NatLessThanWellFounded DEF OpToRel
  <1>2. PICK m \in S : \A k \in S : ~ (<<k, m>> \in R)
    BY <1>1, WFMin, Zenon
  <1>3. m \in Nat /\ \A k \in S : k \in Nat /\ ~ (k < m)
    BY <1>2
  <1> QED
    BY <1>2, <1>3

\* What the search tries is a channel number.
LEMMA TriedIsChannel ==
  ASSUME NEW n \in 0..MaxCh, NEW k \in Channel
  PROVE  Tried(n, k) \in Channel
  BY DEF Tried, Channel

\* The numbers tried after any number are all numbers.
LEMMA EveryChannelIsTried ==
  ASSUME NEW n \in 0..MaxCh, NEW c \in Channel
  PROVE  \E k \in Channel : Tried(n, k) = c
  <1>1. c \in Nat /\ c >= 1 /\ c <= MaxCh /\ MaxCh \in Nat \ {0}
    BY DEF Channel
  <1>2. CASE c > n
    <2>1. (c - 1) % MaxCh = c - 1
      BY <1>1
    <2>2. c - n \in Channel /\ n + (c - n) - 1 = c - 1
      BY <1>1, <1>2 DEF Channel
    <2> QED
      BY <1>1, <2>1, <2>2 DEF Tried
  <1>3. CASE c <= n
    <2>1. ((c - 1) + MaxCh) % MaxCh = c - 1
      BY <1>1
    <2>2. c + MaxCh - n \in Channel /\ n + (c + MaxCh - n) - 1 = (c - 1) + MaxCh
      BY <1>1, <1>3 DEF Channel
    <2> QED
      BY <1>1, <2>1, <2>2 DEF Tried
  <1> QED
    BY <1>1, <1>2, <1>3

\* Below the cap there is a free number, and the search finds one.
LEMMA FreeChannelIsFree ==
  ASSUME TypeOK, NEW a \in Att, Population(a) < MaxPhones
  PROVE  FreeChannel(a) \in Channel /\ phones[a][FreeChannel(a)] = NoPhone
  <1> DEFINE Free(k) == phones[a][Tried(nextCh[a], k)] = NoPhone
             K == {k \in Channel : Free(k)}
             Used == {c \in Channel : phones[a][c] # NoPhone}
  <1>1. nextCh[a] \in 0..MaxCh /\ K \in SUBSET Nat
    BY DEF TypeOK, RelayTypes, Channel
  <1>2. PICK c \in Channel : phones[a][c] = NoPhone
    <2>1. SUFFICES ASSUME \A c \in Channel : phones[a][c] # NoPhone PROVE FALSE
      OBVIOUS
    <2>2. Used = Channel
      BY <2>1
    <2>3. Cardinality(Channel) = MaxCh
      BY FS_Interval DEF Channel
    <2>4. Population(a) = MaxCh
      BY <2>2, <2>3 DEF Population
    <2> QED
      BY <2>4
  <1>3. K # {}
    BY <1>1, <1>2, EveryChannelIsTried
  <1>4. \E k \in Channel : Free(k) /\ \A j \in 1..(k - 1) : ~Free(j)
    <2>1. PICK m \in K : \A k \in K : m <= k
      BY <1>1, <1>3, Least
    <2>2. m \in Channel /\ Free(m)
      BY <2>1
    <2>3. \A j \in 1..(m - 1) : j \in Channel /\ j < m
      BY <2>2 DEF Channel
    <2>4. \A j \in 1..(m - 1) : ~Free(j)
      <3> SUFFICES ASSUME NEW j \in 1..(m - 1), Free(j) PROVE FALSE
        OBVIOUS
      <3>1. j \in K /\ j < m /\ m \in Nat /\ j \in Nat
        BY <2>2, <2>3 DEF Channel
      <3> HIDE DEF K
      <3> QED
        BY <2>1, <3>1
    <2> QED
      BY <2>2, <2>4
  <1> DEFINE first == CHOOSE k \in Channel : Free(k) /\ \A j \in 1..(k - 1) : ~Free(j)
  <1>5. first \in Channel /\ Free(first)
    BY <1>4
  <1>6. FreeChannel(a) = Tried(nextCh[a], first)
    BY DEF FreeChannel
  <1> HIDE DEF first
  <1> QED
    BY <1>1, <1>5, <1>6, TriedIsChannel

\* The phones of an attachment can be counted.
LEMMA PopulationIsNat ==
  ASSUME NEW a \in Att
  PROVE  Population(a) \in Nat
  <1>1. IsFiniteSet(Channel)
    BY FS_Interval DEF Channel
  <1> QED
    BY <1>1, FS_Subset, FS_CardinalityType DEF Population

-----------------------------------------------------------------------------
(* The queues of a socket. *)

\* Queues of frames that belong where they are.
BridgeFrames(q) ==
  /\ q \in [Att -> Seq(Frames)]
  /\ \A a \in Att : \A i \in 1..Len(q[a]) : Belongs(a, q[a][i])

RelayFrames(q) ==
  /\ q \in [Att -> Seq(Frames)]
  /\ \A a \in Att : \A i \in 1..Len(q[a]) : q[a][i].p \in Phone

\* Taking from a queue and appending to it leaves a queue of frames; on the way to the
\* bridge ...
LEMMA BridgeQueue ==
  ASSUME NEW q, BridgeFrames(q), NEW a \in Att
  PROVE  /\ BridgeFrames([q EXCEPT ![a] = <<>>])
         /\ q[a] # <<>> => /\ BridgeFrames([q EXCEPT ![a] = Tail(@)])
                           /\ Head(q[a]) \in Frames /\ Belongs(a, Head(q[a]))
         /\ \A f \in Frames : Belongs(a, f) => BridgeFrames([q EXCEPT ![a] = Append(@, f)])
  <1> USE DEF BridgeFrames
  <1>1. q[a] \in Seq(Frames)
    OBVIOUS
  <1>2. BridgeFrames([q EXCEPT ![a] = <<>>])
    OBVIOUS
  <1>3. ASSUME q[a] # <<>>
        PROVE  /\ BridgeFrames([q EXCEPT ![a] = Tail(@)])
               /\ Head(q[a]) \in Frames /\ Belongs(a, Head(q[a]))
    <2>1. /\ Tail(q[a]) \in Seq(Frames) /\ Head(q[a]) = q[a][1] /\ 1 \in 1..Len(q[a])
          /\ \A i \in 1..Len(Tail(q[a])) : i + 1 \in 1..Len(q[a]) /\ Tail(q[a])[i] = q[a][i + 1]
      BY <1>1, <1>3
    <2> QED
      BY <1>1, <2>1
  <1>4. ASSUME NEW f \in Frames, Belongs(a, f)
        PROVE  BridgeFrames([q EXCEPT ![a] = Append(@, f)])
    <2>1. /\ Append(q[a], f) \in Seq(Frames)
          /\ \A i \in 1..Len(Append(q[a], f)) :
               (i \in 1..Len(q[a]) /\ Append(q[a], f)[i] = q[a][i]) \/ Append(q[a], f)[i] = f
      BY <1>1
    <2> QED
      BY <1>4, <2>1
  <1> QED
    BY <1>2, <1>3, <1>4

\* ... and on the way to the relay.
LEMMA RelayQueue ==
  ASSUME NEW q, RelayFrames(q), NEW a
  PROVE  /\ RelayFrames([q EXCEPT ![a] = <<>>])
         /\ a \in Att /\ q[a] # <<>> => /\ RelayFrames([q EXCEPT ![a] = Tail(@)])
                                        /\ Head(q[a]) \in Frames /\ Head(q[a]).p \in Phone
         /\ \A f \in Frames : f.p \in Phone => RelayFrames([q EXCEPT ![a] = Append(@, f)])
  <1> USE DEF RelayFrames
  <1>0. CASE a \notin Att
    BY <1>0
  <1>1. CASE a \in Att
    <2>1. q[a] \in Seq(Frames)
      BY <1>1
    <2>2. RelayFrames([q EXCEPT ![a] = <<>>])
      <3> DEFINE e == [q EXCEPT ![a] = <<>>]
      <3>1. e \in [Att -> Seq(Frames)]
        BY <1>1
      <3>2. \A b \in Att : e[b] = q[b] \/ e[b] = <<>>
        BY <1>1
      <3> HIDE DEF e
      <3>3. \A b \in Att : \A i \in 1..Len(e[b]) : e[b][i].p \in Phone
        BY <3>2
      <3> QED
        BY <3>1, <3>3 DEF e
    <2>3. ASSUME q[a] # <<>>
          PROVE  /\ RelayFrames([q EXCEPT ![a] = Tail(@)])
                 /\ Head(q[a]) \in Frames /\ Head(q[a]).p \in Phone
      <3>1. /\ Tail(q[a]) \in Seq(Frames) /\ Head(q[a]) = q[a][1] /\ 1 \in 1..Len(q[a])
            /\ \A i \in 1..Len(Tail(q[a])) : i + 1 \in 1..Len(q[a]) /\ Tail(q[a])[i] = q[a][i + 1]
        BY <2>1, <2>3
      <3> QED
        BY <1>1, <2>1, <3>1
    <2>4. ASSUME NEW f \in Frames, f.p \in Phone
          PROVE  RelayFrames([q EXCEPT ![a] = Append(@, f)])
      <3>1. /\ Append(q[a], f) \in Seq(Frames)
            /\ \A i \in 1..Len(Append(q[a], f)) :
                 (i \in 1..Len(q[a]) /\ Append(q[a], f)[i] = q[a][i]) \/ Append(q[a], f)[i] = f
        BY <2>1
      <3> QED
        BY <1>1, <2>4, <3>1
    <2> QED
      BY <1>1, <2>2, <2>3, <2>4
  <1> QED
    BY <1>0, <1>1

\* What a frame is made of.
LEMMA FrameFields ==
  ASSUME NEW t \in {"attached", "open", "close", "data"}, NEW c \in 0..MaxCh,
         NEW p \in Phone \cup {NoPhone}, NEW n \in Nat
  PROVE  /\ Frame(t, c, p, n) \in Frames
         /\ Frame(t, c, p, n).t = t /\ Frame(t, c, p, n).c = c /\ Frame(t, c, p, n).p = p
  BY DEF Frame, Frames

-----------------------------------------------------------------------------
(* Every step keeps the invariant. *)

\* What a phone with a number keeps in every step.
NumbersKept ==
  \A q \in Phone : stage[q] \in Numbered =>
    stage'[q] \in Numbered /\ at'[q] = at[q] /\ chan'[q] = chan[q]

\* A phone keeps its session and its number.
LEMMA NumbersStay ==
  ASSUME PhoneTypes, [Next]_vars
  PROVE  NumbersKept
  <1> USE DEF PhoneTypes, Numbered, NumbersKept
  <1>0. CASE UNCHANGED vars
    BY <1>0 DEF vars, relayVars, phoneVars, sockVars, bridgeVars, dataVars
  <1>1. ASSUME NEW a \in Att,
               \/ Attach(a) \/ Acknowledge(a) \/ ReadAck(a) \/ ReadFails(a)
               \/ RelayCloses(a) \/ RelayForwards(a) \/ RelayReadFails(a)
               \/ Unregister(a) \/ Sweep(a) \/ DrainCloses(a) \/ MuxRead(a)
               \/ SocketFails(a) \/ Crash(a)
        PROVE  NumbersKept
    BY <1>1 DEF Attach, phoneVars, dataVars, Acknowledge, bridgeVars, ReadAck, MuxEnds,
      NoPhones, Arrived, relayVars, ReadFails, RelayCloses, ClosePhone,
      Incoming, RelayForwards, RelayReadFails, Unregister, sockVars, Sweep,
      ClosePhones, DrainCloses, MuxRead, MuxOpen, MuxRemoteClosed, MuxDeliver,
      SocketFails, Crash
  <1>2. ASSUME NEW p \in Phone, Connect(p) PROVE NumbersKept
    BY <1>2 DEF Connect, relayVars, sockVars, bridgeVars, dataVars
  <1>3. ASSUME NEW p \in Phone, Register(p) PROVE NumbersKept
    BY <1>3 DEF Register, sockVars, bridgeVars, dataVars
  <1>4. ASSUME NEW p \in Phone, Announce(p) PROVE NumbersKept
    BY <1>4 DEF Announce, relayVars, bridgeVars, dataVars
  <1>5. ASSUME NEW p \in Phone, PhoneRefused(p) PROVE NumbersKept
    BY <1>5 DEF PhoneRefused, relayVars, sockVars, bridgeVars, dataVars
  <1>6. ASSUME NEW p \in Phone, Leave(p) PROVE NumbersKept
    BY <1>6 DEF Leave, sockVars, bridgeVars, dataVars
  <1>7. ASSUME NEW p \in Phone, Tell(p) PROVE NumbersKept
    BY <1>7 DEF Tell, relayVars, bridgeVars, dataVars
  <1>8. ASSUME NEW p \in Phone,
               \/ PhoneData(p) \/ LinkRead(p) \/ LinkWrite(p) \/ LinkEnds(p) \/ LinkQuits(p)
               \/ SendClose(p) \/ PhoneGone(p)
        PROVE  NumbersKept
    BY <1>8 DEF PhoneData, relayVars, phoneVars, bridgeVars, LinkRead, sockVars, LinkWrite,
      LinkEnds, LinkQuits, dataVars, SendClose, PhoneGone
  <1>9. CASE DrainTakes
    BY <1>9 DEF DrainTakes, phoneVars, sockVars, bridgeVars, dataVars
  <1> QED
    BY <1>0, <1>1, <1>2, <1>3, <1>4, <1>5, <1>6, <1>7, <1>8, <1>9
    DEF Next, Handler, Mux, PhoneHandler, PhoneReadFails, Environment

\* The types, variable by variable.
LEMMA RelayTypesStep ==
  ASSUME TypeOK, Placed, [Next]_vars
  PROVE  RelayTypes'
  <1> USE DEF TypeOK, RelayTypes, PhoneTypes, HandlerStage
  <1>0. CASE UNCHANGED vars
    BY <1>0 DEF vars, relayVars, phoneVars, sockVars, bridgeVars, dataVars
  <1>1. ASSUME NEW a \in Att, Attach(a) PROVE RelayTypes'
    BY <1>1 DEF Attach, phoneVars, dataVars
  <1>2. ASSUME NEW a \in Att, Acknowledge(a) PROVE RelayTypes'
    BY <1>2 DEF Acknowledge, phoneVars, bridgeVars, dataVars
  <1>3. ASSUME NEW a \in Att, RelayCloses(a) PROVE RelayTypes'
    BY <1>3 DEF RelayCloses, ClosePhone, Incoming, bridgeVars, dataVars
  <1>4. ASSUME NEW a \in Att, RelayReadFails(a) PROVE RelayTypes'
    BY <1>4 DEF RelayReadFails, phoneVars, bridgeVars, dataVars
  <1>5. ASSUME NEW a \in Att, Unregister(a) PROVE RelayTypes'
    BY <1>5 DEF Unregister, phoneVars, sockVars, bridgeVars, dataVars
  <1>6. ASSUME NEW a \in Att, Sweep(a) PROVE RelayTypes'
    BY <1>6 DEF Sweep, ClosePhones, NoPhones, sockVars, bridgeVars, dataVars
  <1>7. ASSUME NEW a \in Att, DrainCloses(a) PROVE RelayTypes'
    BY <1>7 DEF DrainCloses, ClosePhones, NoPhones, bridgeVars, dataVars
  <1>8. ASSUME NEW a \in Att,
               \/ ReadAck(a) \/ ReadFails(a) \/ RelayForwards(a) \/ MuxRead(a)
               \/ SocketFails(a) \/ Crash(a)
        PROVE  RelayTypes'
    BY <1>8 DEF ReadAck, MuxEnds, NoPhones, Arrived, relayVars, phoneVars, dataVars, ReadFails,
      RelayForwards, Incoming, bridgeVars, MuxRead, MuxOpen, MuxRemoteClosed,
      MuxDeliver, SocketFails, Crash
  <1>9. ASSUME NEW p \in Phone, Register(p) PROVE RelayTypes'
    <2>1. at[p] \in Att /\ Population(at[p]) \in Nat
      BY <1>9, PopulationIsNat DEF Register, Placed
    <2>2. CASE Population(at[p]) >= MaxPhones
      BY <1>9, <2>2 DEF Register
    <2>3. CASE ~ (Population(at[p]) >= MaxPhones)
      <3> DEFINE c == FreeChannel(at[p])
      <3>1. c \in Channel
        BY <2>1, <2>3, FreeChannelIsFree
      <3>2. /\ stage' = [stage EXCEPT ![p] = "announce"] /\ ws' = ws
            /\ phones' = [phones EXCEPT ![at[p]][c] = p]
            /\ nextCh' = [nextCh EXCEPT ![at[p]] = c]
            /\ chan' = [chan EXCEPT ![p] = c]
            /\ UNCHANGED <<session, handler, cancelled, draining, at>>
        BY <1>9, <2>3 DEF Register
      <3> HIDE DEF c
      <3> QED
        BY <2>1, <3>1, <3>2 DEF Channel
    <2> QED
      BY <2>2, <2>3
  <1>10. ASSUME NEW p \in Phone, Leave(p) PROVE RelayTypes'
    BY <1>10 DEF Leave, sockVars, bridgeVars, dataVars
  <1>11. ASSUME NEW p \in Phone,
                \/ Connect(p) \/ Announce(p) \/ PhoneData(p) \/ PhoneRefused(p)
                \/ Tell(p) \/ LinkRead(p) \/ LinkWrite(p) \/ LinkEnds(p) \/ LinkQuits(p) \/ SendClose(p)
                \/ PhoneGone(p)
         PROVE  RelayTypes'
    BY <1>11 DEF Connect, relayVars, sockVars, bridgeVars, dataVars, Announce, PhoneData,
      phoneVars, PhoneRefused, Tell, LinkRead, LinkWrite, LinkEnds, LinkQuits, SendClose,
      PhoneGone
  <1>12. CASE DrainTakes
    BY <1>12 DEF DrainTakes, phoneVars, sockVars, bridgeVars, dataVars
  <1> QED
    BY <1>0, <1>1, <1>2, <1>3, <1>4, <1>5, <1>6, <1>7, <1>8, <1>9, <1>10, <1>11, <1>12
    DEF Next, Handler, Mux, PhoneHandler, PhoneReadFails, Environment

\* Every step keeps the types of the relay and of its phones.
LEMMA PhoneTypesStep ==
  ASSUME TypeOK, Placed, [Next]_vars
  PROVE  PhoneTypes'
  <1> USE DEF TypeOK, RelayTypes, PhoneTypes, PhoneStage
  <1>0. CASE UNCHANGED vars
    BY <1>0 DEF vars, relayVars, phoneVars, sockVars, bridgeVars, dataVars
  <1>1. ASSUME NEW a \in Att, RelayCloses(a) PROVE PhoneTypes'
    BY <1>1 DEF RelayCloses, ClosePhone, Incoming, bridgeVars, dataVars
  <1>2. ASSUME NEW a \in Att, Sweep(a) PROVE PhoneTypes'
    BY <1>2 DEF Sweep, ClosePhones, NoPhones, sockVars, bridgeVars, dataVars
  <1>3. ASSUME NEW a \in Att, DrainCloses(a) PROVE PhoneTypes'
    BY <1>3 DEF DrainCloses, ClosePhones, NoPhones, bridgeVars, dataVars
  <1>4. ASSUME NEW a \in Att,
               \/ Attach(a) \/ Acknowledge(a) \/ ReadAck(a) \/ ReadFails(a)
               \/ RelayForwards(a) \/ RelayReadFails(a) \/ Unregister(a) \/ MuxRead(a)
               \/ SocketFails(a) \/ Crash(a)
        PROVE  PhoneTypes'
    BY <1>4 DEF Attach, phoneVars, dataVars, Acknowledge, bridgeVars, ReadAck, MuxEnds,
      NoPhones, Arrived, relayVars, ReadFails, RelayForwards, Incoming,
      RelayReadFails, Unregister, sockVars, MuxRead, MuxOpen, MuxRemoteClosed,
      MuxDeliver, SocketFails, Crash
  <1>5. ASSUME NEW p \in Phone, Connect(p) PROVE PhoneTypes'
    BY <1>5 DEF Connect, relayVars, sockVars, bridgeVars, dataVars
  <1>6. ASSUME NEW p \in Phone, Register(p) PROVE PhoneTypes'
    <2>1. at[p] \in Att /\ Population(at[p]) \in Nat
      BY <1>6, PopulationIsNat DEF Register, Placed
    <2>2. CASE Population(at[p]) >= MaxPhones
      BY <1>6, <2>2 DEF Register
    <2>3. CASE ~ (Population(at[p]) >= MaxPhones)
      <3> DEFINE c == FreeChannel(at[p])
      <3>1. c \in Channel
        BY <2>1, <2>3, FreeChannelIsFree
      <3>2. /\ stage' = [stage EXCEPT ![p] = "announce"] /\ ws' = ws
            /\ phones' = [phones EXCEPT ![at[p]][c] = p]
            /\ nextCh' = [nextCh EXCEPT ![at[p]] = c]
            /\ chan' = [chan EXCEPT ![p] = c]
            /\ UNCHANGED <<session, handler, cancelled, draining, at>>
        BY <1>6, <2>3 DEF Register
      <3> HIDE DEF c
      <3> QED
        BY <2>1, <3>1, <3>2 DEF Channel
    <2> QED
      BY <2>2, <2>3
  <1>7. ASSUME NEW p \in Phone, Announce(p) PROVE PhoneTypes'
    BY <1>7 DEF Announce, relayVars, bridgeVars, dataVars
  <1>8. ASSUME NEW p \in Phone, PhoneRefused(p) PROVE PhoneTypes'
    BY <1>8 DEF PhoneRefused, relayVars, sockVars, bridgeVars, dataVars
  <1>9. ASSUME NEW p \in Phone, Leave(p) PROVE PhoneTypes'
    BY <1>9 DEF Leave, sockVars, bridgeVars, dataVars
  <1>10. ASSUME NEW p \in Phone, Tell(p) PROVE PhoneTypes'
    BY <1>10 DEF Tell, relayVars, bridgeVars, dataVars
  <1>11. ASSUME NEW p \in Phone, PhoneGone(p) PROVE PhoneTypes'
    BY <1>11 DEF PhoneGone, relayVars, sockVars, bridgeVars, dataVars
  <1>12. ASSUME NEW p \in Phone,
                \/ PhoneData(p) \/ LinkRead(p) \/ LinkWrite(p) \/ LinkEnds(p) \/ LinkQuits(p)
                \/ SendClose(p)
         PROVE  PhoneTypes'
    BY <1>12 DEF PhoneData, relayVars, phoneVars, bridgeVars, LinkRead, sockVars, LinkWrite,
      LinkEnds, LinkQuits, dataVars, SendClose
  <1>13. CASE DrainTakes
    BY <1>13 DEF DrainTakes, phoneVars, sockVars, bridgeVars, dataVars
  <1> QED
    BY <1>0, <1>1, <1>2, <1>3, <1>4, <1>5, <1>6, <1>7, <1>8, <1>9, <1>10, <1>11, <1>12,
       <1>13
    DEF Next, Handler, Mux, PhoneHandler, PhoneReadFails, Environment

\* Every frame sent belongs where it is sent.
LEMMA QueuesStep ==
  ASSUME TypeOK, Placed, BridgeFrames(toBridge), RelayFrames(toRelay), [Next]_vars
  PROVE  BridgeFrames(toBridge') /\ RelayFrames(toRelay')
  <1> USE DEF TypeOK
  <1>0. CASE UNCHANGED vars
    BY <1>0 DEF vars, relayVars, phoneVars, sockVars, bridgeVars, dataVars
  <1>1. ASSUME NEW a \in Att, Acknowledge(a)
        PROVE  BridgeFrames(toBridge') /\ RelayFrames(toRelay')
    <2> DEFINE f == Frame("attached", 0, NoPhone, 0)
    <2>1. f \in Frames /\ Belongs(a, f)
      BY FrameFields DEF Belongs
    <2>2. BridgeFrames([toBridge EXCEPT ![a] = Append(@, f)])
      BY <2>1, BridgeQueue
    <2> HIDE DEF f
    <2>3. toRelay' = toRelay /\ (SendToBridge(a, f) \/ toBridge' = toBridge)
      BY <1>1 DEF Acknowledge, f
    <2> QED
      BY <2>2, <2>3 DEF SendToBridge
  <1>2. ASSUME NEW a \in Att, ReadAck(a)
        PROVE  BridgeFrames(toBridge') /\ RelayFrames(toRelay')
    <2>1. /\ toBridge[a] # <<>> /\ toRelay' = toRelay
          /\ \/ toBridge' = [toBridge EXCEPT ![a] = Tail(@)]
             \/ toBridge' = [toBridge EXCEPT ![a] = <<>>]
      BY <1>2 DEF ReadAck, MuxEnds
    <2>2. /\ BridgeFrames([toBridge EXCEPT ![a] = Tail(@)])
          /\ BridgeFrames([toBridge EXCEPT ![a] = <<>>])
      BY <2>1, BridgeQueue
    <2> QED
      BY <2>1, <2>2
  <1>3. ASSUME NEW a \in Att, ReadFails(a)
        PROVE  BridgeFrames(toBridge') /\ RelayFrames(toRelay')
    BY <1>3, BridgeQueue DEF ReadFails, MuxEnds
  <1>4. ASSUME NEW a \in Att, RelayCloses(a)
        PROVE  BridgeFrames(toBridge') /\ RelayFrames(toRelay')
    BY <1>4, RelayQueue DEF RelayCloses
  <1>5. ASSUME NEW a \in Att, RelayForwards(a)
        PROVE  BridgeFrames(toBridge') /\ RelayFrames(toRelay')
    BY <1>5, RelayQueue DEF RelayForwards
  <1>6. ASSUME NEW a \in Att, RelayReadFails(a)
        PROVE  BridgeFrames(toBridge') /\ RelayFrames(toRelay')
    BY <1>6, RelayQueue DEF RelayReadFails
  <1>7. ASSUME NEW a \in Att, MuxRead(a)
        PROVE  BridgeFrames(toBridge') /\ RelayFrames(toRelay')
    BY <1>7, BridgeQueue DEF MuxRead
  <1>8. ASSUME NEW a \in Att, Crash(a)
        PROVE  BridgeFrames(toBridge') /\ RelayFrames(toRelay')
    BY <1>8, BridgeQueue DEF Crash
  <1>9. ASSUME NEW a \in Att,
               \/ Attach(a) \/ Unregister(a) \/ Sweep(a) \/ DrainCloses(a)
               \/ SocketFails(a)
        PROVE  BridgeFrames(toBridge') /\ RelayFrames(toRelay')
    BY <1>9 DEF Attach, phoneVars, dataVars, Unregister, sockVars, bridgeVars, Sweep,
      ClosePhones, NoPhones, DrainCloses, SocketFails, relayVars
  <1>10. ASSUME NEW p \in Phone, Announce(p)
         PROVE  BridgeFrames(toBridge') /\ RelayFrames(toRelay')
    <2> DEFINE f == Frame("open", chan[p], p, 0)
    <2>1. at[p] \in Att /\ chan[p] \in 0..MaxCh
      BY <1>10 DEF Announce, Placed, PhoneTypes
    <2>2. chan[p] \in Channel
      BY <1>10 DEF Announce, Placed
    <2>3. 0 \in Nat /\ stage[p] \in Numbered
      BY <1>10 DEF Announce, Numbered, DataTypes
    <2>4. /\ f \in Frames /\ f.p = p /\ f.c = chan[p]
      BY <2>1, <2>3, FrameFields
    <2> HIDE DEF f
    <2>5. Belongs(at[p], f)
      BY <2>2, <2>3, <2>4 DEF Belongs
    <2>6. BridgeFrames([toBridge EXCEPT ![at[p]] = Append(@, f)])
      BY <2>1, <2>4, <2>5, BridgeQueue
    <2>7. toRelay' = toRelay /\ (SendToBridge(at[p], f) \/ toBridge' = toBridge)
      BY <1>10 DEF Announce, f
    <2> QED
      BY <2>6, <2>7 DEF SendToBridge
  <1>11. ASSUME NEW p \in Phone, PhoneData(p)
         PROVE  BridgeFrames(toBridge') /\ RelayFrames(toRelay')
    <2> DEFINE f == Frame("data", chan[p], p, up[p] + 1)
    <2>1. at[p] \in Att /\ chan[p] \in 0..MaxCh
      BY <1>11 DEF PhoneData, Placed, PhoneTypes
    <2>2. chan[p] \in Channel
      BY <1>11 DEF PhoneData, Placed
    <2>3. up[p] + 1 \in Nat /\ stage[p] \in Numbered
      BY <1>11 DEF PhoneData, Numbered, DataTypes
    <2>4. /\ f \in Frames /\ f.p = p /\ f.c = chan[p]
      BY <2>1, <2>3, FrameFields
    <2> HIDE DEF f
    <2>5. Belongs(at[p], f)
      BY <2>2, <2>3, <2>4 DEF Belongs
    <2>6. BridgeFrames([toBridge EXCEPT ![at[p]] = Append(@, f)])
      BY <2>1, <2>4, <2>5, BridgeQueue
    <2>7. toRelay' = toRelay /\ (SendToBridge(at[p], f) \/ toBridge' = toBridge)
      BY <1>11 DEF PhoneData, f
    <2> QED
      BY <2>6, <2>7 DEF SendToBridge
  <1>12. ASSUME NEW p \in Phone, Tell(p)
         PROVE  BridgeFrames(toBridge') /\ RelayFrames(toRelay')
    <2> DEFINE f == Frame("close", chan[p], p, 0)
    <2>1. at[p] \in Att /\ chan[p] \in 0..MaxCh
      BY <1>12 DEF Tell, Placed, PhoneTypes
    <2>2. chan[p] \in Channel
      BY <1>12 DEF Tell, Placed
    <2>3. 0 \in Nat /\ stage[p] \in Numbered
      BY <1>12 DEF Tell, Numbered, DataTypes
    <2>4. /\ f \in Frames /\ f.p = p /\ f.c = chan[p]
      BY <2>1, <2>3, FrameFields
    <2> HIDE DEF f
    <2>5. Belongs(at[p], f)
      BY <2>2, <2>3, <2>4 DEF Belongs
    <2>6. BridgeFrames([toBridge EXCEPT ![at[p]] = Append(@, f)])
      BY <2>1, <2>4, <2>5, BridgeQueue
    <2>7. toRelay' = toRelay /\ (SendToBridge(at[p], f) \/ toBridge' = toBridge)
      BY <1>12 DEF Tell, f
    <2> QED
      BY <2>6, <2>7 DEF SendToBridge
  <1>13. ASSUME NEW p \in Phone, LinkWrite(p)
         PROVE  BridgeFrames(toBridge') /\ RelayFrames(toRelay')
    <2> DEFINE f == Frame("data", chan[p], p, down[p] + 1)
    <2>0. chan[p] \in 0..MaxCh /\ down[p] + 1 \in Nat
      BY DEF PhoneTypes, DataTypes
    <2>1. f \in Frames /\ f.p \in Phone
      BY <2>0, FrameFields
    <2> HIDE DEF f
    <2>2. RelayFrames([toRelay EXCEPT ![at[p]] = Append(@, f)])
      BY <2>1, RelayQueue
    <2>3. toBridge' = toBridge /\ (SendToRelay(at[p], f) \/ toRelay' = toRelay)
      BY <1>13 DEF LinkWrite, f
    <2> QED
      BY <2>2, <2>3 DEF SendToRelay
  <1>14. ASSUME NEW p \in Phone, SendClose(p)
         PROVE  BridgeFrames(toBridge') /\ RelayFrames(toRelay')
    <2> DEFINE f == Frame("close", chan[p], p, 0)
    <2>1. f \in Frames /\ f.p \in Phone
      BY FrameFields DEF PhoneTypes, DataTypes
    <2> HIDE DEF f
    <2>2. RelayFrames([toRelay EXCEPT ![at[p]] = Append(@, f)])
      BY <2>1, RelayQueue
    <2>3. toBridge' = toBridge /\ (SendToRelay(at[p], f) \/ toRelay' = toRelay)
      BY <1>14 DEF SendClose, f
    <2> QED
      BY <2>2, <2>3 DEF SendToRelay
  <1>15. ASSUME NEW p \in Phone,
                \/ Connect(p) \/ Register(p) \/ PhoneRefused(p) \/ Leave(p)
                \/ LinkRead(p) \/ LinkEnds(p) \/ LinkQuits(p) \/ PhoneGone(p)
         PROVE  BridgeFrames(toBridge') /\ RelayFrames(toRelay')
    BY <1>15 DEF Connect, relayVars, sockVars, bridgeVars, dataVars, Register, PhoneRefused,
      Leave, LinkRead, phoneVars, LinkEnds, LinkQuits, PhoneGone
  <1>16. CASE DrainTakes
    BY <1>16 DEF DrainTakes, phoneVars, sockVars, bridgeVars, dataVars
  <1> QED
    BY <1>0, <1>1, <1>2, <1>3, <1>4, <1>5, <1>6, <1>7, <1>8, <1>9, <1>10, <1>11, <1>12,
       <1>13, <1>14, <1>15, <1>16
    DEF Next, Handler, Mux, PhoneHandler, PhoneReadFails, Environment

\* Every step keeps the types of the sockets and their queues.
LEMMA SockTypesStep ==
  ASSUME BridgeFrames(toBridge'), RelayFrames(toRelay'), SockTypes, [Next]_vars
  PROVE  SockTypes'
  <1> USE DEF SockTypes, BridgeFrames, RelayFrames
  <1>0. CASE UNCHANGED vars
    BY <1>0 DEF vars, relayVars, phoneVars, sockVars, bridgeVars, dataVars
  <1>1. ASSUME NEW a \in Att,
               \/ Attach(a) \/ Acknowledge(a) \/ ReadAck(a) \/ ReadFails(a)
               \/ RelayCloses(a) \/ RelayForwards(a) \/ RelayReadFails(a)
               \/ Unregister(a) \/ Sweep(a) \/ DrainCloses(a) \/ MuxRead(a)
               \/ SocketFails(a) \/ Crash(a)
        PROVE  SockTypes'
    BY <1>1 DEF Attach, phoneVars, dataVars, Acknowledge, bridgeVars, ReadAck, MuxEnds,
      NoPhones, Arrived, relayVars, ReadFails, RelayCloses, ClosePhone,
      Incoming, RelayForwards, RelayReadFails, Unregister, sockVars, Sweep,
      ClosePhones, DrainCloses, MuxRead, MuxOpen, MuxRemoteClosed, MuxDeliver,
      SocketFails, Crash
  <1>2. ASSUME NEW p \in Phone,
               \/ Connect(p) \/ Register(p) \/ Announce(p) \/ PhoneData(p)
               \/ PhoneRefused(p) \/ Leave(p) \/ Tell(p) \/ LinkRead(p) \/ LinkWrite(p)
               \/ LinkEnds(p) \/ LinkQuits(p) \/ SendClose(p) \/ PhoneGone(p)
        PROVE  SockTypes'
    BY <1>2 DEF Connect, relayVars, sockVars, bridgeVars, dataVars, Register, Announce,
      PhoneData, phoneVars, PhoneRefused, Leave, Tell, LinkRead, LinkWrite,
      LinkEnds, LinkQuits, SendClose, PhoneGone
  <1>3. CASE DrainTakes
    BY <1>3 DEF DrainTakes, phoneVars, sockVars, bridgeVars, dataVars
  <1> QED
    BY <1>0, <1>1, <1>2, <1>3
    DEF Next, Handler, Mux, PhoneHandler, PhoneReadFails, Environment

\* Connect looks the session up before the phone is found.
LEMMA PlacedStep ==
  ASSUME TypeOK, Placed, [Next]_vars
  PROVE  Placed'
  <1> USE DEF TypeOK, RelayTypes, PhoneTypes, Placed
  <1>0. CASE UNCHANGED vars
    BY <1>0 DEF vars, relayVars, phoneVars, sockVars, bridgeVars, dataVars
  <1>1. ASSUME NEW a \in Att,
               \/ Attach(a) \/ Acknowledge(a) \/ ReadAck(a) \/ ReadFails(a)
               \/ RelayCloses(a) \/ RelayForwards(a) \/ RelayReadFails(a)
               \/ Unregister(a) \/ Sweep(a) \/ DrainCloses(a) \/ MuxRead(a)
               \/ SocketFails(a) \/ Crash(a)
        PROVE  Placed'
    BY <1>1 DEF Attach, phoneVars, dataVars, Acknowledge, bridgeVars, ReadAck, MuxEnds,
      NoPhones, Arrived, relayVars, ReadFails, RelayCloses, ClosePhone,
      Incoming, RelayForwards, RelayReadFails, Unregister, sockVars, Sweep,
      ClosePhones, DrainCloses, MuxRead, MuxOpen, MuxRemoteClosed, MuxDeliver,
      SocketFails, Crash
  <1>2. ASSUME NEW p \in Phone, Connect(p) PROVE Placed'
    BY <1>2 DEF Connect, relayVars, sockVars, bridgeVars, dataVars
  <1>3. ASSUME NEW p \in Phone, Register(p) PROVE Placed'
    <2>1. at[p] \in Att /\ Population(at[p]) \in Nat
      BY <1>3, PopulationIsNat DEF Register, Placed
    <2>2. CASE Population(at[p]) >= MaxPhones
      BY <1>3, <2>2 DEF Register
    <2>3. CASE ~ (Population(at[p]) >= MaxPhones)
      <3> DEFINE c == FreeChannel(at[p])
      <3>1. c \in Channel
        BY <2>1, <2>3, FreeChannelIsFree
      <3>2. /\ stage' = [stage EXCEPT ![p] = "announce"] /\ ws' = ws
            /\ phones' = [phones EXCEPT ![at[p]][c] = p]
            /\ nextCh' = [nextCh EXCEPT ![at[p]] = c]
            /\ chan' = [chan EXCEPT ![p] = c]
            /\ UNCHANGED <<session, handler, cancelled, draining, at>>
        BY <1>3, <2>3 DEF Register
      <3> HIDE DEF c
      <3> QED
        BY <2>1, <3>1, <3>2 DEF Channel
    <2> QED
      BY <2>2, <2>3
  <1>4. ASSUME NEW p \in Phone, Announce(p) PROVE Placed'
    BY <1>4 DEF Announce, relayVars, bridgeVars, dataVars
  <1>5. ASSUME NEW p \in Phone, PhoneRefused(p) PROVE Placed'
    BY <1>5 DEF PhoneRefused, relayVars, sockVars, bridgeVars, dataVars
  <1>6. ASSUME NEW p \in Phone, Leave(p) PROVE Placed'
    BY <1>6 DEF Leave, sockVars, bridgeVars, dataVars
  <1>7. ASSUME NEW p \in Phone, Tell(p) PROVE Placed'
    BY <1>7 DEF Tell, relayVars, bridgeVars, dataVars
  <1>8. ASSUME NEW p \in Phone,
               \/ PhoneData(p) \/ LinkRead(p) \/ LinkWrite(p) \/ LinkEnds(p) \/ LinkQuits(p)
               \/ SendClose(p) \/ PhoneGone(p)
        PROVE  Placed'
    BY <1>8 DEF PhoneData, relayVars, phoneVars, bridgeVars, LinkRead, sockVars, LinkWrite,
      LinkEnds, LinkQuits, dataVars, SendClose, PhoneGone
  <1>9. CASE DrainTakes
    BY <1>9 DEF DrainTakes, phoneVars, sockVars, bridgeVars, dataVars
  <1> QED
    BY <1>0, <1>1, <1>2, <1>3, <1>4, <1>5, <1>6, <1>7, <1>8, <1>9
    DEF Next, Handler, Mux, PhoneHandler, PhoneReadFails, Environment

\* Attach cancels the session it takes the place of, and Unregister leaves another one.
LEMMA SessionStep ==
  ASSUME TypeOK, LiveSessionRegistered, [Next]_vars
  PROVE  LiveSessionRegistered'
  <1> USE DEF TypeOK, RelayTypes, SockTypes, LiveSessionRegistered
  <1>0. CASE UNCHANGED vars
    BY <1>0 DEF vars, relayVars, phoneVars, sockVars, bridgeVars, dataVars
  <1>1. ASSUME NEW a \in Att, Attach(a) PROVE LiveSessionRegistered'
    BY <1>1 DEF Attach, phoneVars, dataVars
  <1>2. ASSUME NEW a \in Att, Acknowledge(a) PROVE LiveSessionRegistered'
    BY <1>2 DEF Acknowledge, phoneVars, bridgeVars, dataVars
  <1>3. ASSUME NEW a \in Att, ReadAck(a) PROVE LiveSessionRegistered'
    BY <1>3 DEF ReadAck, MuxEnds, NoPhones, Arrived, relayVars, phoneVars, dataVars
  <1>4. ASSUME NEW a \in Att, ReadFails(a) PROVE LiveSessionRegistered'
    BY <1>4 DEF ReadFails, MuxEnds, NoPhones, relayVars, phoneVars, dataVars
  <1>5. ASSUME NEW a \in Att, RelayReadFails(a) PROVE LiveSessionRegistered'
    BY <1>5 DEF RelayReadFails, phoneVars, bridgeVars, dataVars
  <1>6. ASSUME NEW a \in Att, Unregister(a) PROVE LiveSessionRegistered'
    BY <1>6 DEF Unregister, phoneVars, sockVars, bridgeVars, dataVars
  <1>7. ASSUME NEW a \in Att, Sweep(a) PROVE LiveSessionRegistered'
    BY <1>7 DEF Sweep, ClosePhones, NoPhones, sockVars, bridgeVars, dataVars
  <1>8. ASSUME NEW a \in Att, DrainCloses(a) PROVE LiveSessionRegistered'
    BY <1>8 DEF DrainCloses, ClosePhones, NoPhones, bridgeVars, dataVars
  <1>9. ASSUME NEW a \in Att, SocketFails(a) PROVE LiveSessionRegistered'
    BY <1>9 DEF SocketFails, relayVars, phoneVars, bridgeVars, dataVars
  <1>10. ASSUME NEW a \in Att,
                \/ RelayCloses(a) \/ RelayForwards(a) \/ MuxRead(a) \/ Crash(a)
         PROVE  LiveSessionRegistered'
    BY <1>10 DEF RelayCloses, ClosePhone, Incoming, bridgeVars, dataVars, RelayForwards,
      relayVars, phoneVars, MuxRead, MuxOpen, MuxRemoteClosed, MuxDeliver,
      Arrived, Crash, NoPhones
  <1>11. ASSUME NEW p \in Phone,
                \/ Connect(p) \/ Register(p) \/ Announce(p) \/ PhoneData(p)
                \/ PhoneRefused(p) \/ Leave(p) \/ Tell(p) \/ LinkRead(p) \/ LinkWrite(p)
                \/ LinkEnds(p) \/ LinkQuits(p) \/ SendClose(p) \/ PhoneGone(p)
         PROVE  LiveSessionRegistered'
    BY <1>11 DEF Connect, relayVars, sockVars, bridgeVars, dataVars, Register, Announce,
      PhoneData, phoneVars, PhoneRefused, Leave, Tell, LinkRead, LinkWrite,
      LinkEnds, LinkQuits, SendClose, PhoneGone
  <1>12. CASE DrainTakes
    BY <1>12 DEF DrainTakes, phoneVars, sockVars, bridgeVars, dataVars
  <1> QED
    BY <1>0, <1>1, <1>2, <1>3, <1>4, <1>5, <1>6, <1>7, <1>8, <1>9, <1>10, <1>11, <1>12
    DEF Next, Handler, Mux, PhoneHandler, PhoneReadFails, Environment

\* Every frame under way still belongs to whom it names after a step.
LEMMA FramesStep ==
  ASSUME TypeOK, Placed, FramesBelong, [Next]_vars
  PROVE  SockTypes' /\ FramesBelong'
  <1>1. BridgeFrames(toBridge) /\ RelayFrames(toRelay)
    BY DEF TypeOK, SockTypes, FramesBelong, BridgeFrames, RelayFrames
  <1>2. BridgeFrames(toBridge') /\ RelayFrames(toRelay')
    BY <1>1, QueuesStep
  <1>3. SockTypes'
    BY <1>2, SockTypesStep DEF TypeOK
  <1>4. ASSUME NEW a \in Att, NEW i \in 1..Len(toBridge'[a])
        PROVE  Belongs(a, toBridge[a][i])'
    <2>1. Belongs(a, toBridge'[a][i])
      BY <1>2, <1>4 DEF BridgeFrames
    <2>2. NumbersKept
      BY NumbersStay DEF TypeOK
    <2> QED
      BY <2>1, <2>2 DEF Belongs, NumbersKept
  <1> QED
    BY <1>2, <1>3, <1>4 DEF FramesBelong, RelayFrames

\* The next frame of a queue.
LEMMA ArrivedBelongs ==
  ASSUME TypeOK, FramesBelong, NEW a \in Att, toBridge[a] # <<>>
  PROVE  Arrived(a) \in Frames /\ Belongs(a, Arrived(a))
  <1>1. BridgeFrames(toBridge)
    BY DEF TypeOK, SockTypes, FramesBelong, BridgeFrames
  <1> QED
    BY <1>1, BridgeQueue DEF Arrived

\* What the relay reads next is about a phone.
LEMMA IncomingIsOfPhone ==
  ASSUME TypeOK, FramesBelong, NEW a \in Att, toRelay[a] # <<>>
  PROVE  Incoming(a) \in Frames /\ Incoming(a).p \in Phone
  <1>1. RelayFrames(toRelay)
    BY DEF TypeOK, SockTypes, FramesBelong, RelayFrames
  <1> QED
    BY <1>1, RelayQueue DEF Incoming

\* The end of a mux keeps the types of the bridge.
LEMMA MuxEndsTypes ==
  ASSUME BridgeTypes, NEW a \in Att, MuxEnds(a)
  PROVE  /\ mux' \in [Att -> {"none", "wait", "on", "gone"}]
         /\ channels' \in [Att -> [Channel -> Phone \cup {NoPhone}]]
         /\ rc' \in [Phone -> {"none", "open", "closing", "done"}]
  BY DEF BridgeTypes, MuxEnds, NoPhones

\* Every step keeps the types of the bridge.
LEMMA BridgeTypesStep ==
  ASSUME TypeOK, FramesBelong, [Next]_vars
  PROVE  BridgeTypes'
  <1> USE DEF TypeOK, BridgeTypes
  <1>0. CASE UNCHANGED vars
    BY <1>0 DEF vars, relayVars, phoneVars, sockVars, bridgeVars, dataVars
  <1>1. ASSUME NEW a \in Att, Attach(a) PROVE BridgeTypes'
    BY <1>1 DEF Attach, phoneVars, dataVars
  <1>2. ASSUME NEW a \in Att, ReadAck(a) PROVE BridgeTypes'
    <2>1. CASE MuxEnds(a)
      BY <1>2, <2>1, MuxEndsTypes DEF ReadAck
    <2>2. CASE mux' = [mux EXCEPT ![a] = "on"] /\ UNCHANGED <<rc, channels>>
      BY <1>2, <2>2 DEF ReadAck
    <2> QED
      BY <1>2, <2>1, <2>2 DEF ReadAck
  <1>3. ASSUME NEW a \in Att, ReadFails(a) PROVE BridgeTypes'
    BY <1>3, MuxEndsTypes DEF ReadFails
  <1>4. ASSUME NEW a \in Att, MuxRead(a) PROVE BridgeTypes'
    <2>1. /\ Arrived(a) \in Frames /\ Belongs(a, Arrived(a)) /\ mux' = mux
      BY <1>4, ArrivedBelongs DEF MuxRead
    <2>2. Arrived(a).t # "attached" =>
            Arrived(a).p \in Phone /\ Arrived(a).c \in Channel /\ Arrived(a).n \in Nat
      BY <2>1 DEF Belongs, Frames
    <2>3. CASE MuxOpen(a)
      BY <2>1, <2>2, <2>3 DEF MuxOpen
    <2>4. CASE MuxRemoteClosed(a)
      BY <2>1, <2>2, <2>4 DEF MuxRemoteClosed
    <2>5. CASE MuxDeliver(a)
      <3> DEFINE q == channels[a][Arrived(a).c]
      <3>1. /\ Arrived(a).t = "data" /\ q \in Phone \cup {NoPhone} /\ link' = link
            /\ <<Arrived(a).p, Arrived(a).n>> \in Message
        BY <2>2, <2>5 DEF MuxDeliver, Message
      <3>2. CASE UNCHANGED <<inbox, rc, channels>>
        BY <2>1, <3>1, <3>2
      <3>3. CASE /\ inbox' = [inbox EXCEPT ![q] = Append(@, <<Arrived(a).p, Arrived(a).n>>)]
                 /\ q # NoPhone /\ UNCHANGED <<rc, channels>>
        <4> DEFINE m == <<Arrived(a).p, Arrived(a).n>>
        <4>1. q \in Phone /\ inbox[q] \in Seq(Message) /\ m \in Message
          BY <3>1, <3>3
        <4> HIDE DEF m
        <4>2. Append(inbox[q], m) \in Seq(Message)
          BY <4>1
        <4>3. inbox' = [inbox EXCEPT ![q] = Append(inbox[q], m)]
          BY <3>3 DEF m
        <4>4. inbox' \in [Phone -> Seq(Message)]
          BY <4>1, <4>2, <4>3
        <4> QED
          BY <2>1, <3>1, <3>3, <4>4
      <3>4. CASE /\ rc' = [rc EXCEPT ![q] = "closing"] /\ inbox' = inbox
                 /\ channels' = [channels EXCEPT ![a][Arrived(a).c] = NoPhone]
        BY <2>1, <3>1, <3>4
      <3> QED
        BY <2>5, <3>2, <3>3, <3>4 DEF MuxDeliver
    <2> QED
      BY <1>4, <2>3, <2>4, <2>5 DEF MuxRead
  <1>5. ASSUME NEW a \in Att, Crash(a) PROVE BridgeTypes'
    BY <1>5 DEF Crash, NoPhones, relayVars, phoneVars, dataVars
  <1>6. ASSUME NEW a \in Att,
               \/ Acknowledge(a) \/ RelayCloses(a) \/ RelayForwards(a)
               \/ RelayReadFails(a) \/ Unregister(a) \/ Sweep(a) \/ DrainCloses(a)
               \/ SocketFails(a)
        PROVE  BridgeTypes'
    BY <1>6 DEF Acknowledge, phoneVars, bridgeVars, dataVars, RelayCloses, ClosePhone,
      Incoming, RelayForwards, relayVars, RelayReadFails, Unregister, sockVars,
      Sweep, ClosePhones, NoPhones, DrainCloses, SocketFails
  <1>7. ASSUME NEW p \in Phone, LinkRead(p) PROVE BridgeTypes'
    BY <1>7 DEF LinkRead, relayVars, phoneVars, sockVars
  <1>8. ASSUME NEW p \in Phone, LinkEnds(p) PROVE BridgeTypes'
    <2>1. /\ mux' = mux /\ link' = [link EXCEPT ![p] = "ended"]
          /\ inbox' = [inbox EXCEPT ![p] = <<>>]
      BY <1>8 DEF LinkEnds
    <2>2. rc' \in [Phone -> {"none", "open", "closing", "done"}]
      BY <1>8 DEF LinkEnds
    <2>3. channels' \in [Att -> [Channel -> Phone \cup {NoPhone}]]
      <3>1. CASE channels' = channels
        BY <3>1
      <3>2. CASE channels' = [channels EXCEPT ![at[p]] =
                               [c \in Channel |-> IF @[c] = p THEN NoPhone ELSE @[c]]]
        <4>1. CASE at[p] \in Att
          <5>1. channels[at[p]] \in [Channel -> Phone \cup {NoPhone}]
            BY <4>1
          <5>2. [c \in Channel |-> IF channels[at[p]][c] = p THEN NoPhone
                                   ELSE channels[at[p]][c]]
                  \in [Channel -> Phone \cup {NoPhone}]
            BY <5>1
          <5> QED
            BY <3>2, <4>1, <5>2
        <4>2. CASE at[p] \notin Att
          BY <3>2, <4>2
        <4> QED
          BY <4>1, <4>2
      <3> QED
        BY <1>8, <3>1, <3>2 DEF LinkEnds
    <2>4. inbox' \in [Phone -> Seq(Message)]
      <3>1. <<>> \in Seq(Message)
        OBVIOUS
      <3> QED
        BY <2>1, <3>1
    <2> QED
      BY <2>1, <2>2, <2>3, <2>4
  <1>9. ASSUME NEW p \in Phone, SendClose(p) PROVE BridgeTypes'
    BY <1>9 DEF SendClose, relayVars, phoneVars, dataVars
  <1>10. ASSUME NEW p \in Phone,
                \/ Connect(p) \/ Register(p) \/ Announce(p) \/ PhoneData(p)
                \/ PhoneRefused(p) \/ Leave(p) \/ Tell(p) \/ LinkWrite(p)
                \/ PhoneGone(p)
         PROVE  BridgeTypes'
    BY <1>10 DEF Connect, relayVars, sockVars, bridgeVars, dataVars, Register, Announce,
      PhoneData, phoneVars, PhoneRefused, Leave, Tell, LinkWrite, PhoneGone
  <1>11. CASE DrainTakes
    BY <1>11 DEF DrainTakes, phoneVars, sockVars, bridgeVars, dataVars
  <1>12. ASSUME NEW p \in Phone, LinkQuits(p) PROVE BridgeTypes'
    BY <1>12 DEF LinkQuits
  <1> QED
    BY <1>0, <1>1, <1>2, <1>3, <1>4, <1>5, <1>6, <1>7, <1>8, <1>9, <1>10, <1>11, <1>12
    DEF Next, Handler, Mux, PhoneHandler, PhoneReadFails, Environment

\* Every step keeps the types of the data.
LEMMA DataTypesStep ==
  ASSUME TypeOK, FramesBelong, [Next]_vars
  PROVE  DataTypes'
  <1> USE DEF TypeOK, BridgeTypes, DataTypes
  <1>0. CASE UNCHANGED vars
    BY <1>0 DEF vars, relayVars, phoneVars, sockVars, bridgeVars, dataVars
  <1>1. ASSUME NEW a \in Att, RelayForwards(a) PROVE DataTypes'
    <2>1. /\ Incoming(a).p \in Phone /\ Incoming(a).n \in Nat
      BY <1>1, IncomingIsOfPhone DEF RelayForwards, Frames
    <2>2. <<Incoming(a).p, Incoming(a).n>> \in Message
      BY <2>1 DEF Message
    <2> DEFINE m == <<Incoming(a).p, Incoming(a).n>>
               q == phones[a][Incoming(a).c]
    <2>3. m \in Message
      BY <2>2
    <2>4. gotDown' = [gotDown EXCEPT ![q] = Append(@, m)] /\ UNCHANGED <<up, gotUp, down>>
      BY <1>1 DEF RelayForwards
    <2> HIDE DEF m, q
    <2>5. \A r \in Phone : Append(gotDown[r], m) \in Seq(Message)
      BY <2>3
    <2>6. gotDown' \in [Phone -> Seq(Message)]
      BY <2>4, <2>5
    <2> QED
      BY <2>4, <2>6
  <1>2. ASSUME NEW a \in Att,
               \/ Attach(a) \/ Acknowledge(a) \/ ReadAck(a) \/ ReadFails(a)
               \/ RelayCloses(a) \/ RelayReadFails(a) \/ Unregister(a) \/ Sweep(a)
               \/ DrainCloses(a) \/ MuxRead(a) \/ SocketFails(a) \/ Crash(a)
        PROVE  DataTypes'
    BY <1>2 DEF Attach, phoneVars, dataVars, Acknowledge, bridgeVars, ReadAck, MuxEnds,
      NoPhones, Arrived, relayVars, ReadFails, RelayCloses, ClosePhone,
      Incoming, RelayReadFails, Unregister, sockVars, Sweep, ClosePhones,
      DrainCloses, MuxRead, MuxOpen, MuxRemoteClosed, MuxDeliver, SocketFails,
      Crash
  <1>3. ASSUME NEW p \in Phone, PhoneData(p) PROVE DataTypes'
    BY <1>3 DEF PhoneData, relayVars, phoneVars, bridgeVars
  <1>4. ASSUME NEW p \in Phone, LinkRead(p) PROVE DataTypes'
    BY <1>4 DEF LinkRead, relayVars, phoneVars, sockVars
  <1>5. ASSUME NEW p \in Phone, LinkWrite(p) PROVE DataTypes'
    BY <1>5 DEF LinkWrite, relayVars, phoneVars, bridgeVars
  <1>6. ASSUME NEW p \in Phone,
               \/ Connect(p) \/ Register(p) \/ Announce(p) \/ PhoneRefused(p)
               \/ Leave(p) \/ Tell(p) \/ LinkEnds(p) \/ LinkQuits(p) \/ SendClose(p) \/ PhoneGone(p)
        PROVE  DataTypes'
    BY <1>6 DEF Connect, relayVars, sockVars, bridgeVars, dataVars, Register, Announce,
      PhoneRefused, Leave, Tell, LinkEnds, LinkQuits, phoneVars, SendClose, PhoneGone
  <1>7. CASE DrainTakes
    BY <1>7 DEF DrainTakes, phoneVars, sockVars, bridgeVars, dataVars
  <1> QED
    BY <1>0, <1>1, <1>2, <1>3, <1>4, <1>5, <1>6, <1>7
    DEF Next, Handler, Mux, PhoneHandler, PhoneReadFails, Environment

\* Attach waits for the attachment before to end, and its end takes the channels along.
LEMMA OneMuxStep ==
  ASSUME BridgeTypes, OneMux, [Next]_vars
  PROVE  OneMux'
  <1> USE DEF BridgeTypes, OneMux
  <1>0. CASE UNCHANGED vars
    BY <1>0 DEF vars, relayVars, phoneVars, sockVars, bridgeVars, dataVars
  <1>1. ASSUME NEW a \in Att, Attach(a) PROVE OneMux'
    BY <1>1 DEF Attach, phoneVars, dataVars
  <1>2. ASSUME NEW a \in Att, ReadAck(a) PROVE OneMux'
    BY <1>2 DEF ReadAck, MuxEnds, NoPhones, Arrived, relayVars, phoneVars, dataVars
  <1>3. ASSUME NEW a \in Att, ReadFails(a) PROVE OneMux'
    BY <1>3 DEF ReadFails, MuxEnds, NoPhones, relayVars, phoneVars, dataVars
  <1>4. ASSUME NEW a \in Att, MuxRead(a) PROVE OneMux'
    BY <1>4 DEF MuxRead, MuxOpen, MuxRemoteClosed, MuxDeliver, Arrived, relayVars, phoneVars,
      dataVars
  <1>5. ASSUME NEW a \in Att, Crash(a) PROVE OneMux'
    BY <1>5 DEF Crash, NoPhones, relayVars, phoneVars, dataVars
  <1>6. ASSUME NEW a \in Att,
               \/ Acknowledge(a) \/ RelayCloses(a) \/ RelayForwards(a)
               \/ RelayReadFails(a) \/ Unregister(a) \/ Sweep(a) \/ DrainCloses(a)
               \/ SocketFails(a)
        PROVE  OneMux'
    BY <1>6 DEF Acknowledge, phoneVars, bridgeVars, dataVars, RelayCloses, ClosePhone,
      Incoming, RelayForwards, relayVars, RelayReadFails, Unregister, sockVars,
      Sweep, ClosePhones, NoPhones, DrainCloses, SocketFails
  <1>7. ASSUME NEW p \in Phone, LinkEnds(p) PROVE OneMux'
    <2>1. mux' = mux
      BY <1>7 DEF LinkEnds
    <2>2. ASSUME NEW a \in Att, mux[a] # "on" PROVE channels'[a] = NoPhones
      <3>1. channels[a] = NoPhones
        BY <2>2
      <3>2. CASE channels' = channels
        BY <3>1, <3>2
      <3>3. CASE channels' = [channels EXCEPT ![at[p]] =
                               [c \in Channel |-> IF @[c] = p THEN NoPhone ELSE @[c]]]
        <4>1. CASE a # at[p]
          BY <3>1, <3>3, <4>1
        <4>2. CASE a = at[p]
          <5>1. channels'[a] = [c \in Channel |-> IF channels[a][c] = p THEN NoPhone
                                                 ELSE channels[a][c]]
            BY <3>3, <4>2
          <5> QED
            BY <3>1, <5>1 DEF NoPhones
        <4> QED
          BY <4>1, <4>2
      <3> QED
        BY <1>7, <3>2, <3>3 DEF LinkEnds
    <2> QED
      BY <2>1, <2>2
  <1>8. ASSUME NEW p \in Phone,
               \/ Connect(p) \/ Register(p) \/ Announce(p) \/ PhoneData(p)
               \/ PhoneRefused(p) \/ Leave(p) \/ Tell(p) \/ LinkRead(p) \/ LinkWrite(p)
               \/ SendClose(p) \/ PhoneGone(p) \/ LinkQuits(p)
        PROVE  OneMux'
    BY <1>8 DEF Connect, relayVars, sockVars, bridgeVars, dataVars, Register, Announce,
      PhoneData, phoneVars, PhoneRefused, Leave, Tell, LinkRead, LinkWrite,
      SendClose, PhoneGone, LinkQuits
  <1>9. CASE DrainTakes
    BY <1>9 DEF DrainTakes, phoneVars, sockVars, bridgeVars, dataVars
  <1> QED
    BY <1>0, <1>1, <1>2, <1>3, <1>4, <1>5, <1>6, <1>7, <1>8, <1>9
    DEF Next, Handler, Mux, PhoneHandler, PhoneReadFails, Environment

\* What a channel of the bridge says of its phone.
Holds(a, c, q) == q \in Phone /\ stage[q] \in Numbered /\ at[q] = a /\ chan[q] = c

Held(chs, states) ==
  \A a \in Att, c \in Channel : chs[a][c] # NoPhone =>
    Holds(a, c, chs[a][c]) /\ states[chs[a][c]] = "open"

\* A channel is made for the phone and the number of an open frame, and is forgotten
\* whenever its phone's end of it is closed.
LEMMA ChannelsStep ==
  ASSUME TypeOK, FramesBelong, OneMux, Held(channels, rc), [Next]_vars
  PROVE  Held(channels', rc')
  <1> USE DEF TypeOK, BridgeTypes, Held
  <1>0. CASE UNCHANGED vars
    BY <1>0 DEF vars, relayVars, phoneVars, sockVars, bridgeVars, dataVars
  <1>1. ASSUME NEW a \in Att, ReadAck(a) PROVE Held(channels', rc')
    <2>1. \A b \in Att \ {a}, c \in Channel : channels[b][c] = NoPhone
      BY <1>1 DEF ReadAck, OneMux, NoPhones
    <2> QED
      BY <1>1, <2>1 DEF ReadAck, MuxEnds, NoPhones
  <1>2. ASSUME NEW a \in Att, ReadFails(a) PROVE Held(channels', rc')
    <2>1. \A b \in Att \ {a}, c \in Channel : channels[b][c] = NoPhone
      BY <1>2 DEF ReadFails, OneMux, NoPhones
    <2> QED
      BY <1>2, <2>1 DEF ReadFails, MuxEnds, NoPhones
  <1>3. ASSUME NEW a \in Att, MuxRead(a) PROVE Held(channels', rc')
    <2>1. Arrived(a) \in Frames /\ Belongs(a, Arrived(a))
      BY <1>3, ArrivedBelongs DEF MuxRead
    <2>2. \A b \in Att \ {a}, c \in Channel : channels[b][c] = NoPhone
      BY <1>3 DEF MuxRead, OneMux, NoPhones
    <2>3. CASE MuxOpen(a)
      <3> DEFINE q == Arrived(a).p
      <3>1. Holds(a, Arrived(a).c, q) /\ Arrived(a).c \in Channel
        BY <2>1, <2>3 DEF MuxOpen, Belongs, Holds
      <3>2. /\ channels' = [channels EXCEPT ![a][Arrived(a).c] = q] /\ rc'[q] = "open"
            /\ \A r \in Phone : r = q \/ r = channels[a][Arrived(a).c] \/ rc'[r] = rc[r]
        BY <2>3, <3>1 DEF MuxOpen, Holds
      <3>3. \A c \in Channel : c # Arrived(a).c /\ channels[a][c] # NoPhone =>
              channels[a][c] # q /\ channels[a][c] # channels[a][Arrived(a).c]
        BY <3>1 DEF Holds
      <3> QED
        BY <2>2, <3>1, <3>2, <3>3 DEF Holds
    <2>4. CASE MuxRemoteClosed(a)
      <3>1. Arrived(a).c \in Channel
        BY <2>1, <2>4 DEF MuxRemoteClosed, Belongs
      <3> QED
        BY <2>2, <2>4, <3>1 DEF MuxRemoteClosed, Holds
    <2>5. CASE MuxDeliver(a)
      <3> DEFINE q == channels[a][Arrived(a).c]
      <3>1. Arrived(a).c \in Channel
        BY <2>1, <2>5 DEF MuxDeliver, Belongs
      <3>2. CASE UNCHANGED <<rc, channels>>
        BY <3>2
      <3>3. CASE /\ rc' = [rc EXCEPT ![q] = "closing"] /\ q # NoPhone
                 /\ channels' = [channels EXCEPT ![a][Arrived(a).c] = NoPhone]
        BY <2>2, <3>1, <3>3 DEF Holds
      <3> QED
        BY <2>5, <3>2, <3>3 DEF MuxDeliver
    <2> QED
      BY <1>3, <2>3, <2>4, <2>5 DEF MuxRead
  <1>4. ASSUME NEW a \in Att, Crash(a) PROVE Held(channels', rc')
    <2>1. \A b \in Att \ {a}, c \in Channel : channels[b][c] = NoPhone
      BY <1>4 DEF Crash, OneMux, NoPhones
    <2> QED
      BY <1>4, <2>1 DEF Crash, MuxEnds, NoPhones
  <1>5. ASSUME NEW a \in Att,
               \/ Attach(a) \/ Acknowledge(a) \/ RelayCloses(a) \/ RelayForwards(a)
               \/ RelayReadFails(a) \/ Unregister(a) \/ Sweep(a) \/ DrainCloses(a)
               \/ SocketFails(a)
        PROVE  Held(channels', rc')
    <2>1. UNCHANGED <<channels, rc>>
      BY <1>5 DEF Attach, phoneVars, dataVars, Acknowledge, bridgeVars, RelayCloses, ClosePhone,
        Incoming, RelayForwards, relayVars, RelayReadFails, Unregister, sockVars,
        Sweep, ClosePhones, NoPhones, DrainCloses, SocketFails
    <2> QED
      BY <2>1
  <1>6. ASSUME NEW p \in Phone, LinkEnds(p) PROVE Held(channels', rc')
    <2>1. CASE UNCHANGED <<rc, channels>>
      BY <2>1
    <2>2. CASE /\ rc' = [rc EXCEPT ![p] = "closing"]
               /\ channels' = [channels EXCEPT ![at[p]] =
                                 [c \in Channel |-> IF @[c] = p THEN NoPhone ELSE @[c]]]
      BY <2>2 DEF Holds
    <2> QED
      BY <1>6, <2>1, <2>2 DEF LinkEnds
  <1>7. ASSUME NEW p \in Phone, SendClose(p) PROVE Held(channels', rc')
    BY <1>7 DEF SendClose, relayVars, phoneVars, dataVars
  <1>8. ASSUME NEW p \in Phone,
               \/ Connect(p) \/ Register(p) \/ Announce(p) \/ PhoneData(p)
               \/ PhoneRefused(p) \/ Leave(p) \/ Tell(p) \/ LinkRead(p) \/ LinkWrite(p)
               \/ PhoneGone(p) \/ LinkQuits(p)
        PROVE  Held(channels', rc')
    BY <1>8 DEF Connect, relayVars, sockVars, bridgeVars, dataVars, Register, Announce,
      PhoneData, phoneVars, PhoneRefused, Leave, Tell, LinkRead, LinkWrite,
      PhoneGone, LinkQuits
  <1>9. CASE DrainTakes
    BY <1>9 DEF DrainTakes, phoneVars, sockVars, bridgeVars, dataVars
  <1> QED
    BY <1>0, <1>1, <1>2, <1>3, <1>4, <1>5, <1>6, <1>7, <1>8, <1>9
    DEF Next, Handler, Mux, PhoneHandler, PhoneReadFails, Environment

\* A channel of the bridge is still its phone's after every step.
LEMMA AgreeStep ==
  ASSUME TypeOK, FramesBelong, OneMux, ChannelsNumbered, ChannelsAgree, [Next]_vars
  PROVE  ChannelsNumbered' /\ ChannelsAgree'
  <1>1. Held(channels, rc)
    BY DEF TypeOK, BridgeTypes, ChannelsNumbered, ChannelsAgree, Holds, Held
  <1>2. Held(channels', rc')
    BY <1>1, ChannelsStep
  <1>3. NumbersKept
    BY NumbersStay DEF TypeOK
  <1> QED
    BY <1>2, <1>3 DEF NumbersKept, Holds, Held, ChannelsNumbered, ChannelsAgree

\* The number given out is free, and the phone whose number is taken away is closed.
LEMMA OwnStep ==
  ASSUME TypeOK, Placed, ChannelsAreOwn, [Next]_vars
  PROVE  ChannelsAreOwn'
  <1> USE DEF TypeOK, RelayTypes, PhoneTypes, ChannelsAreOwn, PhoneCancelled
  <1>0. CASE UNCHANGED vars
    BY <1>0 DEF vars, relayVars, phoneVars, sockVars, bridgeVars, dataVars
  <1>1. ASSUME NEW a \in Att, Attach(a) PROVE ChannelsAreOwn'
    BY <1>1 DEF Attach, phoneVars, dataVars
  <1>2. ASSUME NEW a \in Att, RelayCloses(a) PROVE ChannelsAreOwn'
    BY <1>2 DEF RelayCloses, ClosePhone, Incoming, bridgeVars, dataVars
  <1>3. ASSUME NEW a \in Att, Sweep(a) PROVE ChannelsAreOwn'
    BY <1>3 DEF Sweep, ClosePhones, NoPhones, sockVars, bridgeVars, dataVars
  <1>4. ASSUME NEW a \in Att, DrainCloses(a) PROVE ChannelsAreOwn'
    BY <1>4 DEF DrainCloses, ClosePhones, NoPhones, bridgeVars, dataVars
  <1>5. ASSUME NEW a \in Att,
               \/ Acknowledge(a) \/ ReadAck(a) \/ ReadFails(a) \/ RelayForwards(a)
               \/ RelayReadFails(a) \/ Unregister(a) \/ MuxRead(a) \/ SocketFails(a)
               \/ Crash(a)
        PROVE  ChannelsAreOwn'
    BY <1>5 DEF Acknowledge, phoneVars, bridgeVars, dataVars, ReadAck, MuxEnds, NoPhones,
      Arrived, relayVars, ReadFails, RelayForwards, Incoming, RelayReadFails,
      Unregister, sockVars, MuxRead, MuxOpen, MuxRemoteClosed, MuxDeliver,
      SocketFails, Crash
  <1>6. ASSUME NEW p \in Phone, Connect(p) PROVE ChannelsAreOwn'
    BY <1>6 DEF Connect, relayVars, sockVars, bridgeVars, dataVars
  <1>7. ASSUME NEW p \in Phone, Register(p) PROVE ChannelsAreOwn'
    <2>1. at[p] \in Att /\ Population(at[p]) \in Nat
      BY <1>7, PopulationIsNat DEF Register, Placed
    <2>2. CASE Population(at[p]) >= MaxPhones
      BY <1>7, <2>2 DEF Register
    <2>3. CASE ~ (Population(at[p]) >= MaxPhones)
      <3> DEFINE c == FreeChannel(at[p])
      <3>1. c \in Channel /\ phones[at[p]][c] = NoPhone
        BY <2>1, <2>3, FreeChannelIsFree
      <3>2. /\ stage' = [stage EXCEPT ![p] = "announce"] /\ ws' = ws
            /\ phones' = [phones EXCEPT ![at[p]][c] = p]
            /\ chan' = [chan EXCEPT ![p] = c]
            /\ UNCHANGED <<cancelled, at>>
        BY <1>7, <2>3 DEF Register
      <3> HIDE DEF c
      <3> QED
        BY <2>1, <3>1, <3>2 DEF Placed
    <2> QED
      BY <2>2, <2>3
  <1>8. ASSUME NEW p \in Phone, Announce(p) PROVE ChannelsAreOwn'
    BY <1>8 DEF Announce, relayVars, bridgeVars, dataVars
  <1>9. ASSUME NEW p \in Phone, PhoneRefused(p) PROVE ChannelsAreOwn'
    BY <1>9 DEF PhoneRefused, relayVars, sockVars, bridgeVars, dataVars
  <1>10. ASSUME NEW p \in Phone, Leave(p) PROVE ChannelsAreOwn'
    BY <1>10 DEF Leave, sockVars, bridgeVars, dataVars
  <1>11. ASSUME NEW p \in Phone, Tell(p) PROVE ChannelsAreOwn'
    BY <1>11 DEF Tell, relayVars, bridgeVars, dataVars
  <1>12. ASSUME NEW p \in Phone, PhoneGone(p) PROVE ChannelsAreOwn'
    BY <1>12 DEF PhoneGone, relayVars, sockVars, bridgeVars, dataVars
  <1>13. ASSUME NEW p \in Phone,
                \/ PhoneData(p) \/ LinkRead(p) \/ LinkWrite(p) \/ LinkEnds(p) \/ LinkQuits(p)
                \/ SendClose(p)
         PROVE  ChannelsAreOwn'
    BY <1>13 DEF PhoneData, relayVars, phoneVars, bridgeVars, LinkRead, sockVars, LinkWrite,
      LinkEnds, LinkQuits, dataVars, SendClose
  <1>14. CASE DrainTakes
    BY <1>14 DEF DrainTakes, phoneVars, sockVars, bridgeVars, dataVars
  <1> QED
    BY <1>0, <1>1, <1>2, <1>3, <1>4, <1>5, <1>6, <1>7, <1>8, <1>9, <1>10, <1>11, <1>12,
       <1>13, <1>14
    DEF Next, Handler, Mux, PhoneHandler, PhoneReadFails, Environment

-----------------------------------------------------------------------------
(* The theorems. *)

\* The invariant holds at first ...
LEMMA InitLink == Init => LinkInv
  <1> SUFFICES ASSUME Init PROVE LinkInv
    OBVIOUS
  <1> USE DEF Init
  <1>1. RelayTypes /\ PhoneTypes
    BY DEF RelayTypes, PhoneTypes, NoPhones, HandlerStage, PhoneStage
  <1>2. SockTypes /\ FramesBelong
    <2>1. <<>> \in Seq(Frames) /\ Len(<<>>) = 0
      OBVIOUS
    <2> QED
      BY <2>1 DEF SockTypes, FramesBelong
  <1>3. BridgeTypes /\ DataTypes
    <2>1. <<>> \in Seq(Message)
      OBVIOUS
    <2> QED
      BY <2>1 DEF BridgeTypes, DataTypes, NoPhones
  <1>4. Placed /\ OneMux /\ ChannelsNumbered
    BY DEF Placed, OneMux, ChannelsNumbered, NoPhones
  <1>5. ChannelsAgree /\ ChannelsAreOwn /\ LiveSessionRegistered
    BY DEF ChannelsAgree, ChannelsAreOwn, LiveSessionRegistered, NoPhones
  <1> QED
    BY <1>1, <1>2, <1>3, <1>4, <1>5 DEF LinkInv, TypeOK

\* ... after every step ...
LEMMA LinkStep == LinkInv /\ [Next]_vars => LinkInv'
  <1> SUFFICES ASSUME LinkInv, [Next]_vars PROVE LinkInv'
    OBVIOUS
  <1>1. /\ TypeOK /\ Placed /\ FramesBelong /\ OneMux /\ ChannelsNumbered
        /\ ChannelsAgree /\ ChannelsAreOwn /\ LiveSessionRegistered
    BY DEF LinkInv
  <1>2. RelayTypes' /\ PhoneTypes' /\ Placed'
    BY <1>1, RelayTypesStep, PhoneTypesStep, PlacedStep
  <1>3. SockTypes' /\ FramesBelong'
    BY <1>1, FramesStep
  <1>4. BridgeTypes' /\ DataTypes'
    BY <1>1, BridgeTypesStep, DataTypesStep
  <1>5. OneMux'
    BY <1>1, OneMuxStep DEF TypeOK
  <1>6. ChannelsNumbered' /\ ChannelsAgree'
    BY <1>1, AgreeStep
  <1>7. ChannelsAreOwn' /\ LiveSessionRegistered'
    BY <1>1, OwnStep, SessionStep
  <1> QED
    BY <1>2, <1>3, <1>4, <1>5, <1>6, <1>7 DEF LinkInv, TypeOK

\* ... and so always.
LEMMA Inductive == Spec => []LinkInv
  BY InitLink, LinkStep, PTL DEF Spec

\* Every variable of relay, socket and bridge keeps its type.
THEOREM TypeCorrect == Spec => []TypeOK
  <1>1. LinkInv => TypeOK
    BY DEF LinkInv
  <1> QED
    BY Inductive, <1>1, PTL

\* Whatever is under way on the socket, and however often the counter wraps, a channel of
\* the bridge's mux belongs to the phone the relay has given that number on that
\* attachment.
THEOREM ChannelsAgreeHolds == Spec => []ChannelsAgree
  <1>1. LinkInv => ChannelsAgree
    BY DEF LinkInv
  <1> QED
    BY Inductive, <1>1, PTL

\* The counter, wrapping at its largest value, never hands out a number in use.
THEOREM ChannelsAreOwnHolds == Spec => []ChannelsAreOwn
  <1>1. LinkInv => ChannelsAreOwn
    BY DEF LinkInv
  <1> QED
    BY Inductive, <1>1, PTL

\* However late the handler of an older attachment cleans up, the session that phones
\* find is that of the attachment that works.
THEOREM LiveSessionRegisteredHolds == Spec => []LiveSessionRegistered
  <1>1. LinkInv => LiveSessionRegistered
    BY DEF LinkInv
  <1> QED
    BY Inductive, <1>1, PTL

-----------------------------------------------------------------------------
(* The pipes: data on a queue. *)

\* A queue without frames of the phone continues with nothing.
LEMMA ContinuesEmpty ==
  ASSUME NEW q \in Seq(Frames), NEW p, NEW n \in Nat,
         \A i \in 1..Len(q) : q[i].p # p
  PROVE  Continues(q, p, n, n)
  BY DEF Continues, IsData

\* One more frame at its end makes a queue continue further if it is the phone's next
\* data.
LEMMA ContinuesAppend ==
  ASSUME NEW q \in Seq(Frames), NEW p, NEW m \in Nat, NEW n \in Nat, Continues(q, p, m, n),
         NEW f \in Frames
  PROVE  /\ ~IsData(f, p) => Continues(Append(q, f), p, m, n)
         /\ IsData(f, p) /\ f.n = n + 1 => Continues(Append(q, f), p, m, n + 1)
  <1> DEFINE r == Append(q, f)
  <1>1. /\ Len(q) \in Nat /\ Len(r) = Len(q) + 1 /\ r[Len(q) + 1] = f
        /\ \A i \in 1..Len(q) : r[i] = q[i] /\ i \in 1..Len(r)
        /\ \A i \in 1..Len(r) : i \in 1..Len(q) \/ i = Len(q) + 1
    OBVIOUS
  <1> HIDE DEF r
  <1>2. /\ m <= n
        /\ \A i \in 1..Len(q) : IsData(q[i], p) => q[i].n \in (m + 1)..n
        /\ \A k \in (m + 1)..n : \E i \in 1..Len(q) : IsData(q[i], p) /\ q[i].n = k
        /\ \A i, j \in 1..Len(q) : i < j /\ IsData(q[i], p) /\ IsData(q[j], p) => q[i].n < q[j].n
    BY DEF Continues
  <1>3. ASSUME ~IsData(f, p) PROVE Continues(r, p, m, n)
    <2>1. \A i \in 1..Len(r) : IsData(r[i], p) => i \in 1..Len(q) /\ r[i] = q[i]
      BY <1>1, <1>3
    <2>2. \A k \in (m + 1)..n : \E i \in 1..Len(r) : IsData(r[i], p) /\ r[i].n = k
      <3> SUFFICES ASSUME NEW k \in (m + 1)..n
                   PROVE  \E i \in 1..Len(r) : IsData(r[i], p) /\ r[i].n = k
        OBVIOUS
      <3>1. PICK i \in 1..Len(q) : IsData(q[i], p) /\ q[i].n = k
        BY <1>2
      <3> QED
        BY <1>1, <3>1
    <2> QED
      BY <1>2, <2>1, <2>2 DEF Continues
  <1>4. ASSUME IsData(f, p), f.n = n + 1 PROVE Continues(r, p, m, n + 1)
    <2>1. \A i \in 1..Len(r) : (i \in 1..Len(q) /\ r[i] = q[i]) \/ (i = Len(q) + 1 /\ r[i] = f)
      BY <1>1
    <2>2. \A i \in 1..Len(r) : IsData(r[i], p) => r[i].n \in (m + 1)..(n + 1)
      <3> SUFFICES ASSUME NEW i \in 1..Len(r), IsData(r[i], p)
                   PROVE  r[i].n \in (m + 1)..(n + 1)
        OBVIOUS
      <3>1. CASE i \in 1..Len(q) /\ r[i] = q[i]
        <4>1. r[i].n \in (m + 1)..n
          BY <1>2, <3>1
        <4> QED
          BY <4>1
      <3>2. CASE r[i] = f
        BY <1>2, <1>4, <3>2
      <3> QED
        BY <2>1, <3>1, <3>2
    <2>3. \A k \in (m + 1)..(n + 1) : \E i \in 1..Len(r) : IsData(r[i], p) /\ r[i].n = k
      <3> SUFFICES ASSUME NEW k \in (m + 1)..(n + 1)
                   PROVE  \E i \in 1..Len(r) : IsData(r[i], p) /\ r[i].n = k
        OBVIOUS
      <3>1. CASE k = n + 1
        BY <1>1, <1>4, <3>1
      <3>2. CASE k # n + 1
        <4>1. PICK i \in 1..Len(q) : IsData(q[i], p) /\ q[i].n = k
          BY <1>2, <3>2
        <4> QED
          BY <1>1, <4>1
      <3> QED
        BY <3>1, <3>2
    <2>4. ASSUME NEW i \in 1..Len(r), NEW j \in 1..Len(r), i < j, IsData(r[i], p), IsData(r[j], p)
          PROVE  r[i].n < r[j].n
      <3>1. i \in 1..Len(q) /\ r[i] = q[i]
        BY <1>1, <2>1, <2>4
      <3>2. q[i].n \in (m + 1)..n
        BY <1>2, <2>4, <3>1
      <3>3. CASE j \in 1..Len(q) /\ r[j] = q[j]
        BY <1>2, <2>4, <3>1, <3>3
      <3>4. CASE r[j] = f
        BY <1>4, <3>1, <3>2, <3>4
      <3> QED
        BY <2>1, <3>3, <3>4
    <2> QED
      BY <1>2, <2>2, <2>3, <2>4 DEF Continues
  <1> QED
    BY <1>3, <1>4 DEF r

\* The frame at its head is the phone's next data, or is not the phone's data at all.
LEMMA ContinuesTail ==
  ASSUME NEW q \in Seq(Frames), NEW p, NEW m \in Nat, NEW n \in Nat, Continues(q, p, m, n),
         q # <<>>
  PROVE  /\ ~IsData(Head(q), p) => Continues(Tail(q), p, m, n)
         /\ IsData(Head(q), p) =>
              Head(q).n = m + 1 /\ m + 1 <= n /\ Continues(Tail(q), p, m + 1, n)
  <1> DEFINE r == Tail(q)
             h == Head(q)
  <1>1. /\ Len(q) \in Nat /\ Len(q) >= 1 /\ Len(r) = Len(q) - 1 /\ h = q[1]
        /\ \A i \in 1..Len(r) : i + 1 \in 1..Len(q) /\ r[i] = q[i + 1]
        /\ \A i \in 1..Len(q) : i = 1 \/ (i - 1 \in 1..Len(r) /\ r[i - 1] = q[i])
    OBVIOUS
  <1> HIDE DEF r, h
  <1>2. /\ m <= n
        /\ \A i \in 1..Len(q) : IsData(q[i], p) => q[i].n \in (m + 1)..n
        /\ \A k \in (m + 1)..n : \E i \in 1..Len(q) : IsData(q[i], p) /\ q[i].n = k
        /\ \A i, j \in 1..Len(q) : i < j /\ IsData(q[i], p) /\ IsData(q[j], p) => q[i].n < q[j].n
    BY DEF Continues
  <1>3. \A i, j \in 1..Len(r) : i < j /\ IsData(r[i], p) /\ IsData(r[j], p) => r[i].n < r[j].n
    <2> SUFFICES ASSUME NEW i \in 1..Len(r), NEW j \in 1..Len(r), i < j,
                        IsData(r[i], p), IsData(r[j], p)
                 PROVE  r[i].n < r[j].n
      OBVIOUS
    <2>1. /\ i + 1 \in 1..Len(q) /\ j + 1 \in 1..Len(q) /\ i + 1 < j + 1
          /\ r[i] = q[i + 1] /\ r[j] = q[j + 1]
      BY <1>1
    <2> QED
      BY <1>2, <2>1
  <1>4. ASSUME ~IsData(h, p) PROVE Continues(r, p, m, n)
    <2>1. \A i \in 1..Len(r) : IsData(r[i], p) => r[i].n \in (m + 1)..n
      BY <1>1, <1>2
    <2>2. \A k \in (m + 1)..n : \E i \in 1..Len(r) : IsData(r[i], p) /\ r[i].n = k
      <3> SUFFICES ASSUME NEW k \in (m + 1)..n
                   PROVE  \E i \in 1..Len(r) : IsData(r[i], p) /\ r[i].n = k
        OBVIOUS
      <3>1. PICK i \in 1..Len(q) : IsData(q[i], p) /\ q[i].n = k
        BY <1>2
      <3>2. i - 1 \in 1..Len(r) /\ r[i - 1] = q[i]
        BY <1>1, <1>4, <3>1
      <3> QED
        BY <3>1, <3>2
    <2> QED
      BY <1>2, <1>3, <2>1, <2>2 DEF Continues
  <1>5. ASSUME IsData(h, p)
        PROVE  h.n = m + 1 /\ m + 1 <= n /\ Continues(r, p, m + 1, n)
    <2>1. 1 \in 1..Len(q) /\ q[1] = h /\ h.n \in (m + 1)..n
      BY <1>1, <1>2, <1>5
    <2>2. m + 1 \in (m + 1)..n
      BY <2>1
    <2>3. PICK x \in 1..Len(q) : IsData(q[x], p) /\ q[x].n = m + 1
      BY <1>2, <2>2
    <2>4. h.n = m + 1
      <3>1. CASE x = 1
        BY <2>1, <2>3, <3>1
      <3>2. CASE x # 1
        <4>1. x \in Int /\ 1 < x
          BY <2>3, <3>2
        <4>2. q[1].n < q[x].n
          BY <1>2, <1>5, <2>1, <2>3, <4>1
        <4>3. h.n < m + 1
          BY <2>1, <2>3, <4>2
        <4> QED
          BY <2>1, <4>3
      <3> QED
        BY <3>1, <3>2
    <2>5. \A i \in 1..Len(r) : IsData(r[i], p) => r[i].n \in (m + 1 + 1)..n
      <3> SUFFICES ASSUME NEW i \in 1..Len(r), IsData(r[i], p)
                   PROVE  r[i].n \in (m + 1 + 1)..n
        OBVIOUS
      <3>1. i + 1 \in 1..Len(q) /\ r[i] = q[i + 1] /\ 1 < i + 1
        BY <1>1
      <3>2. r[i].n \in (m + 1)..n
        BY <1>2, <3>1
      <3>3. h.n < r[i].n
        BY <1>2, <1>5, <2>1, <3>1
      <3> QED
        BY <2>4, <3>2, <3>3
    <2>6. \A k \in (m + 1 + 1)..n : \E i \in 1..Len(r) : IsData(r[i], p) /\ r[i].n = k
      <3> SUFFICES ASSUME NEW k \in (m + 1 + 1)..n
                   PROVE  \E i \in 1..Len(r) : IsData(r[i], p) /\ r[i].n = k
        OBVIOUS
      <3>1. PICK i \in 1..Len(q) : IsData(q[i], p) /\ q[i].n = k
        BY <1>2
      <3>2. i # 1
        BY <2>1, <2>4, <3>1
      <3>3. i - 1 \in 1..Len(r) /\ r[i - 1] = q[i]
        BY <1>1, <3>2
      <3> QED
        BY <3>1, <3>3
    <2> QED
      BY <1>2, <1>3, <2>1, <2>4, <2>5, <2>6 DEF Continues
  <1> QED
    BY <1>4, <1>5 DEF r, h

-----------------------------------------------------------------------------
(* The pipes: what a step can do to a queue, a link and a phone's handler. *)

\* Where the frames of a queue are after one is added or taken.
LEMMA Appended ==
  ASSUME NEW q \in Seq(Frames), NEW f \in Frames
  PROVE  /\ Append(q, f) \in Seq(Frames) /\ Len(Append(q, f)) = Len(q) + 1 /\ Len(q) \in Nat
         /\ Append(q, f)[Len(q) + 1] = f
         /\ \A i \in 1..Len(q) : i \in 1..Len(Append(q, f)) /\ Append(q, f)[i] = q[i]
         /\ \A i \in 1..Len(Append(q, f)) : i \in 1..Len(q) \/ i = Len(q) + 1
  OBVIOUS

\* Where the frames of a queue are after its head is taken.
LEMMA Taken ==
  ASSUME NEW q \in Seq(Frames), q # <<>>
  PROVE  /\ Tail(q) \in Seq(Frames) /\ Len(q) \in Nat /\ Len(Tail(q)) = Len(q) - 1
         /\ Head(q) = q[1] /\ 1 \in 1..Len(q)
         /\ \A i \in 1..Len(Tail(q)) : i + 1 \in 1..Len(q) /\ Tail(q)[i] = q[i + 1]
         /\ \A i \in 1..Len(q) : i = 1 \/ (i - 1 \in 1..Len(Tail(q)) /\ Tail(q)[i - 1] = q[i])
  OBVIOUS

\* How the queue to the bridge of an attachment can change.
ToBridgeMoves(b) ==
  \/ toBridge'[b] = toBridge[b]
  \/ toBridge'[b] = <<>> /\ mux'[b] = "gone"
  \/ /\ toBridge[b] # <<>> /\ toBridge'[b] = Tail(toBridge[b])
     /\ MuxRead(b) \/ (ReadAck(b) /\ Arrived(b).t = "attached")
  \/ /\ Acknowledge(b)
     /\ toBridge'[b] = Append(toBridge[b], Frame("attached", 0, NoPhone, 0))
  \/ \E p \in Phone : /\ at[p] = b /\ Announce(p) /\ stage'[p] = "loop"
                      /\ toBridge'[b] = Append(toBridge[b], Frame("open", chan[p], p, 0))
  \/ \E p \in Phone : /\ at[p] = b /\ PhoneData(p)
                      /\ toBridge'[b] = Append(toBridge[b], Frame("data", chan[p], p, up[p] + 1))
  \/ \E p \in Phone : /\ at[p] = b /\ Tell(p)
                      /\ toBridge'[b] = Append(toBridge[b], Frame("close", chan[p], p, 0))

\* What a step can do to a queue to the bridge: nothing, drop it, add a frame or take
\* one.
LEMMA ToBridgeStep ==
  ASSUME TypeOK, Placed, [Next]_vars, NEW b \in Att
  PROVE  ToBridgeMoves(b)
  <1>0. toBridge \in [Att -> Seq(Frames)] /\ mux \in [Att -> {"none", "wait", "on", "gone"}]
        /\ stage \in [Phone -> PhoneStage]
    BY DEF TypeOK, SockTypes, BridgeTypes, PhoneTypes
  <1>1. ASSUME UNCHANGED toBridge PROVE ToBridgeMoves(b)
    BY <1>1 DEF ToBridgeMoves
  <1>2. CASE UNCHANGED vars
    BY <1>1, <1>2 DEF vars, sockVars
  <1>3. ASSUME NEW a \in Att,
               \/ Attach(a) \/ RelayCloses(a) \/ RelayForwards(a) \/ RelayReadFails(a)
               \/ Unregister(a) \/ Sweep(a) \/ DrainCloses(a) \/ SocketFails(a)
        PROVE  UNCHANGED toBridge
    BY <1>3 DEF Attach, phoneVars, dataVars, RelayCloses, ClosePhone, bridgeVars,
      RelayForwards, relayVars, RelayReadFails, Unregister, sockVars, Sweep, ClosePhones,
      DrainCloses, SocketFails
  <1>4. ASSUME NEW p \in Phone,
               \/ Connect(p) \/ Register(p) \/ PhoneRefused(p) \/ Leave(p)
               \/ LinkRead(p) \/ LinkWrite(p) \/ LinkEnds(p) \/ LinkQuits(p) \/ SendClose(p)
               \/ PhoneGone(p)
        PROVE  UNCHANGED toBridge
    BY <1>4 DEF Connect, relayVars, sockVars, bridgeVars, dataVars, Register,
      PhoneRefused, Leave, LinkRead, phoneVars, LinkWrite, SendToRelay, LinkEnds, LinkQuits,
      SendClose, PhoneGone
  <1>5. ASSUME DrainTakes PROVE UNCHANGED toBridge
    BY <1>5 DEF DrainTakes, sockVars
  <1>6. ASSUME NEW a \in Att, Acknowledge(a) PROVE ToBridgeMoves(b)
    BY <1>0, <1>6 DEF Acknowledge, SendToBridge, ToBridgeMoves
  <1>7. ASSUME NEW a \in Att, ReadAck(a) PROVE ToBridgeMoves(b)
    BY <1>0, <1>7 DEF ReadAck, MuxEnds, Arrived, ToBridgeMoves
  <1>8. ASSUME NEW a \in Att, ReadFails(a) PROVE ToBridgeMoves(b)
    BY <1>0, <1>8 DEF ReadFails, MuxEnds, ToBridgeMoves
  <1>9. ASSUME NEW a \in Att, Crash(a) PROVE ToBridgeMoves(b)
    BY <1>0, <1>9 DEF Crash, ToBridgeMoves
  <1>10. ASSUME NEW a \in Att, MuxRead(a) PROVE ToBridgeMoves(b)
    <2>1. toBridge[a] # <<>> /\ toBridge' = [toBridge EXCEPT ![a] = Tail(@)]
      BY <1>10 DEF MuxRead
    <2> QED
      BY <1>0, <1>10, <2>1 DEF ToBridgeMoves
  <1>11. ASSUME NEW p \in Phone, Announce(p) PROVE ToBridgeMoves(b)
    <2>1. stage[p] = "announce" /\ at[p] \in Att
      BY <1>11 DEF Announce, Placed
    <2>2. CASE SendToBridge(at[p], Frame("open", chan[p], p, 0))
               /\ stage' = [stage EXCEPT ![p] = "loop"]
      BY <1>0, <1>11, <2>1, <2>2 DEF SendToBridge, ToBridgeMoves
    <2> QED
      BY <1>1, <1>11, <2>2 DEF Announce
  <1>12. ASSUME NEW p \in Phone, PhoneData(p) PROVE ToBridgeMoves(b)
    <2>1. at[p] \in Att /\ SendToBridge(at[p], Frame("data", chan[p], p, up[p] + 1))
      BY <1>12 DEF PhoneData, Placed
    <2> QED
      BY <1>0, <1>12, <2>1 DEF SendToBridge, ToBridgeMoves
  <1>13. ASSUME NEW p \in Phone, Tell(p) PROVE ToBridgeMoves(b)
    <2>1. at[p] \in Att /\ (\/ toBridge' = toBridge
                            \/ SendToBridge(at[p], Frame("close", chan[p], p, 0)))
      BY <1>13 DEF Tell, Placed
    <2> QED
      BY <1>0, <1>13, <2>1 DEF SendToBridge, ToBridgeMoves
  <1> QED
    BY <1>1, <1>2, <1>3, <1>4, <1>5, <1>6, <1>7, <1>8, <1>9, <1>10, <1>11, <1>12, <1>13
    DEF Next, Handler, Mux, PhoneHandler, PhoneReadFails, Environment

\* How the queue to the relay of an attachment can change.
ToRelayMoves(b) ==
  \/ toRelay'[b] = toRelay[b]
  \/ toRelay'[b] = <<>> /\ handler'[b] = "unregister"
  \/ /\ toRelay[b] # <<>> /\ toRelay'[b] = Tail(toRelay[b])
     /\ RelayCloses(b) \/ RelayForwards(b)
  \/ \E p \in Phone : /\ at[p] = b /\ LinkWrite(p)
                      /\ toRelay'[b] = Append(toRelay[b], Frame("data", chan[p], p, down[p] + 1))
  \/ \E p \in Phone : /\ at[p] = b /\ SendClose(p)
                      /\ toRelay'[b] = Append(toRelay[b], Frame("close", chan[p], p, 0))

\* The same for a queue to the relay.
LEMMA ToRelayStep ==
  ASSUME TypeOK, [Next]_vars, NEW b \in Att
  PROVE  ToRelayMoves(b)
  <1>0. toRelay \in [Att -> Seq(Frames)] /\ handler \in [Att -> HandlerStage]
    BY DEF TypeOK, SockTypes, RelayTypes
  <1>1. ASSUME UNCHANGED toRelay PROVE ToRelayMoves(b)
    BY <1>1 DEF ToRelayMoves
  <1>2. CASE UNCHANGED vars
    BY <1>1, <1>2 DEF vars, sockVars
  <1>3. ASSUME NEW a \in Att,
               \/ Attach(a) \/ Acknowledge(a) \/ ReadAck(a) \/ ReadFails(a)
               \/ Unregister(a) \/ Sweep(a) \/ DrainCloses(a) \/ SocketFails(a)
               \/ MuxRead(a) \/ Crash(a)
        PROVE  UNCHANGED toRelay
    BY <1>3 DEF Attach, phoneVars, dataVars, Acknowledge, SendToBridge, bridgeVars,
      ReadAck, MuxEnds, relayVars, ReadFails, Unregister, sockVars, Sweep, ClosePhones,
      DrainCloses, SocketFails, MuxRead, MuxOpen, MuxRemoteClosed, MuxDeliver, Crash
  <1>4. ASSUME NEW p \in Phone,
               \/ Connect(p) \/ Register(p) \/ Announce(p) \/ PhoneData(p)
               \/ PhoneRefused(p) \/ Leave(p) \/ Tell(p) \/ LinkRead(p) \/ LinkEnds(p) \/ LinkQuits(p)
               \/ PhoneGone(p)
        PROVE  UNCHANGED toRelay
    BY <1>4 DEF Connect, relayVars, sockVars, bridgeVars, dataVars, Register, Announce,
      SendToBridge, PhoneData, phoneVars, PhoneRefused, Leave, Tell, LinkRead, LinkEnds, LinkQuits,
      PhoneGone
  <1>5. ASSUME DrainTakes PROVE UNCHANGED toRelay
    BY <1>5 DEF DrainTakes, sockVars
  <1>6. ASSUME NEW a \in Att, RelayCloses(a) PROVE ToRelayMoves(b)
    BY <1>0, <1>6 DEF RelayCloses, ToRelayMoves
  <1>7. ASSUME NEW a \in Att, RelayForwards(a) PROVE ToRelayMoves(b)
    BY <1>0, <1>7 DEF RelayForwards, ToRelayMoves
  <1>8. ASSUME NEW a \in Att, RelayReadFails(a) PROVE ToRelayMoves(b)
    BY <1>0, <1>8 DEF RelayReadFails, ToRelayMoves
  <1>9. ASSUME NEW p \in Phone, LinkWrite(p) PROVE ToRelayMoves(b)
    <2>1. SendToRelay(at[p], Frame("data", chan[p], p, down[p] + 1))
      BY <1>9 DEF LinkWrite
    <2> QED
      BY <1>0, <1>9, <2>1 DEF SendToRelay, ToRelayMoves
  <1>10. ASSUME NEW p \in Phone, SendClose(p) PROVE ToRelayMoves(b)
    <2>1. toRelay' = toRelay \/ SendToRelay(at[p], Frame("close", chan[p], p, 0))
      BY <1>10 DEF SendClose
    <2> QED
      BY <1>0, <1>10, <2>1 DEF SendToRelay, ToRelayMoves
  <1> QED
    BY <1>1, <1>2, <1>3, <1>4, <1>5, <1>6, <1>7, <1>8, <1>9, <1>10
    DEF Next, Handler, Mux, PhoneHandler, PhoneReadFails, Environment

\* A link is run by an open frame, once, and ends once.
LinkMoves(p) ==
  \/ link'[p] = link[p]
  \/ link[p] = "run" /\ link'[p] = "ended"
  \/ /\ link'[p] = "run"
     /\ \E a \in Att : /\ MuxRead(a) /\ MuxOpen(a) /\ Arrived(a).p = p
                       /\ toBridge'[a] = Tail(toBridge[a])

\* What a step can do to the link of a phone.
LEMMA LinkMovesStep ==
  ASSUME TypeOK, FramesBelong, [Next]_vars, NEW p \in Phone
  PROVE  LinkMoves(p)
  <1>0. link \in [Phone -> {"none", "run", "ended"}] /\ toBridge \in [Att -> Seq(Frames)]
    BY DEF TypeOK, BridgeTypes, SockTypes
  <1>1. ASSUME UNCHANGED link PROVE LinkMoves(p)
    BY <1>1 DEF LinkMoves
  <1>2. CASE UNCHANGED vars
    BY <1>1, <1>2 DEF vars, bridgeVars
  <1>3. ASSUME NEW a \in Att,
               \/ Attach(a) \/ Acknowledge(a) \/ ReadAck(a) \/ ReadFails(a)
               \/ RelayCloses(a) \/ RelayForwards(a) \/ RelayReadFails(a)
               \/ Unregister(a) \/ Sweep(a) \/ DrainCloses(a) \/ SocketFails(a)
        PROVE  UNCHANGED link
    BY <1>3 DEF Attach, phoneVars, dataVars, Acknowledge, SendToBridge, bridgeVars,
      ReadAck, MuxEnds, relayVars, ReadFails, RelayCloses, ClosePhone, RelayForwards,
      RelayReadFails, Unregister, sockVars, Sweep, ClosePhones, DrainCloses, SocketFails
  <1>4. ASSUME NEW q \in Phone,
               \/ Connect(q) \/ Register(q) \/ Announce(q) \/ PhoneData(q)
               \/ PhoneRefused(q) \/ Leave(q) \/ Tell(q) \/ LinkRead(q) \/ LinkWrite(q)
               \/ SendClose(q) \/ PhoneGone(q)
        PROVE  UNCHANGED link
    BY <1>4 DEF Connect, relayVars, sockVars, bridgeVars, dataVars, Register, Announce,
      SendToBridge, PhoneData, phoneVars, PhoneRefused, Leave, Tell, LinkRead, LinkWrite,
      SendToRelay, SendClose, PhoneGone
  <1>5. ASSUME DrainTakes PROVE UNCHANGED link
    BY <1>5 DEF DrainTakes, bridgeVars
  <1>6. ASSUME NEW a \in Att, MuxRead(a) PROVE LinkMoves(p)
    <2>1. toBridge'[a] = Tail(toBridge[a])
      BY <1>0, <1>6 DEF MuxRead
    <2>2. CASE MuxOpen(a)
      BY <1>0, <1>6, <2>1, <2>2 DEF MuxOpen, LinkMoves
    <2> QED
      BY <1>1, <1>6, <2>2 DEF MuxRead, MuxRemoteClosed, MuxDeliver
  <1>7. ASSUME NEW q \in Phone, LinkEnds(q) PROVE LinkMoves(p)
    BY <1>0, <1>7 DEF LinkEnds, LinkMoves
  <1>8. ASSUME NEW a \in Att, Crash(a) PROVE LinkMoves(p)
    BY <1>0, <1>8 DEF Crash, LinkMoves
  <1>9. ASSUME NEW q \in Phone, LinkQuits(q) PROVE LinkMoves(p)
    BY <1>0, <1>9 DEF LinkQuits, LinkMoves
  <1> QED
    BY <1>1, <1>2, <1>3, <1>4, <1>5, <1>6, <1>7, <1>8, <1>9
    DEF Next, Handler, Mux, PhoneHandler, PhoneReadFails, Environment

\* The stages from the loop on are not left, a closed phone stays closed, and one that
\* has been announced is closed when it leaves.
Announced == {"loop", "leave", "tell", "done"}

PhoneMoves(p) ==
  /\ stage[p] \in Announced => stage'[p] \in Announced
  /\ stage[p] = "done" => stage'[p] = "done"
  /\ ws[p] = "closed" => ws'[p] = "closed"
  /\ stage[p] = "loop" => stage'[p] = "loop" \/ ws'[p] = "closed"
  /\ stage'[p] = "loop" =>
       \/ stage[p] = "loop"
       \/ /\ Announce(p) /\ at[p] \in Att
          /\ \/ mux[at[p]] = "gone" /\ mux' = mux
             \/ toBridge'[at[p]] = Append(toBridge[at[p]], Frame("open", chan[p], p, 0))
  /\ stage'[p] \in {"leave", "tell", "done"} =>
       \/ stage[p] \in {"leave", "tell", "done"} \/ ws'[p] = "closed"
       \/ stage[p] = "announce" /\ toBridge' = toBridge

\* What a step can do to the handler of a phone.
LEMMA PhoneMovesStep ==
  ASSUME TypeOK, Placed, PhonesAgree, Service, [Next]_vars, NEW p \in Phone
  PROVE  PhoneMoves(p)
  <1> USE DEF Announced
  <1>0. /\ stage \in [Phone -> PhoneStage] /\ ws \in [Phone -> {"none", "open", "closed"}]
        /\ toBridge \in [Att -> Seq(Frames)]
    BY DEF TypeOK, PhoneTypes, SockTypes
  <1>1. ASSUME UNCHANGED <<stage, ws>> PROVE PhoneMoves(p)
    BY <1>1 DEF PhoneMoves
  <1>2. CASE UNCHANGED vars
    BY <1>1, <1>2 DEF vars, phoneVars
  <1>3. ASSUME NEW a \in Att,
               \/ Attach(a) \/ Acknowledge(a) \/ ReadAck(a) \/ ReadFails(a)
               \/ RelayForwards(a) \/ RelayReadFails(a) \/ Unregister(a)
               \/ SocketFails(a) \/ MuxRead(a) \/ Crash(a)
        PROVE  UNCHANGED <<stage, ws>>
    BY <1>3 DEF Attach, phoneVars, dataVars, Acknowledge, SendToBridge, bridgeVars,
      ReadAck, MuxEnds, relayVars, ReadFails, RelayForwards, RelayReadFails, Unregister,
      sockVars, SocketFails, MuxRead, MuxOpen, MuxRemoteClosed, MuxDeliver, Crash
  <1>4. ASSUME NEW q \in Phone,
               \/ PhoneData(q) \/ LinkRead(q) \/ LinkWrite(q) \/ LinkEnds(q) \/ LinkQuits(q)
               \/ SendClose(q)
        PROVE  UNCHANGED <<stage, ws>>
    BY <1>4 DEF PhoneData, SendToBridge, relayVars, phoneVars, bridgeVars, LinkRead,
      sockVars, LinkWrite, SendToRelay, LinkEnds, LinkQuits, dataVars, SendClose
  <1>5. ASSUME DrainTakes PROVE UNCHANGED <<stage, ws>>
    BY <1>5 DEF DrainTakes, phoneVars
  <1>6. ASSUME NEW a \in Att,
               \/ RelayCloses(a) \/ Sweep(a) \/ DrainCloses(a)
        PROVE  PhoneMoves(p)
    <2>1. stage' = stage /\ ws'[p] \in {ws[p], "closed"}
      BY <1>6 DEF RelayCloses, ClosePhone, bridgeVars, dataVars, Sweep, ClosePhones,
        sockVars, DrainCloses
    <2> QED
      BY <2>1 DEF PhoneMoves
  <1>7. ASSUME NEW q \in Phone, Connect(q) PROVE PhoneMoves(p)
    <2>1. stage[q] = "new" /\ ws[q] = "none"
      BY <1>7 DEF Connect, Service
    <2> QED
      BY <1>0, <1>7, <2>1 DEF Connect, PhoneMoves
  <1>8. ASSUME NEW q \in Phone, Register(q) PROVE PhoneMoves(p)
    BY <1>0, <1>8 DEF Register, PhoneMoves
  <1>9. ASSUME NEW q \in Phone, Announce(q) PROVE PhoneMoves(p)
    <2>1. stage[q] = "announce" /\ at[q] \in Att /\ ws' = ws /\ mux' = mux
      BY <1>9 DEF Announce, bridgeVars, Placed
    <2> QED
      BY <1>0, <1>9, <2>1 DEF Announce, SendToBridge, PhoneMoves
  <1>10. ASSUME NEW q \in Phone, PhoneRefused(q) PROVE PhoneMoves(p)
    BY <1>0, <1>10 DEF PhoneRefused, PhoneMoves
  <1>11. ASSUME NEW q \in Phone, Leave(q) PROVE PhoneMoves(p)
    BY <1>0, <1>11 DEF Leave, PhoneMoves
  <1>12. ASSUME NEW q \in Phone, Tell(q) PROVE PhoneMoves(p)
    BY <1>0, <1>12 DEF Tell, PhoneMoves
  <1>13. ASSUME NEW q \in Phone, PhoneGone(q) PROVE PhoneMoves(p)
    BY <1>0, <1>13 DEF PhoneGone, PhoneMoves
  <1> QED
    BY <1>1, <1>2, <1>3, <1>4, <1>5, <1>6, <1>7, <1>8, <1>9, <1>10, <1>11, <1>12, <1>13
    DEF Next, Handler, Mux, PhoneHandler, PhoneReadFails, Environment

-----------------------------------------------------------------------------
(* The pipes: every step keeps what is said of attachments, phones and links. *)

\* An attachment without a handler has no mux, no session and no phones.
LEMMA StartedStep ==
  ASSUME TypeOK, Started, [Next]_vars
  PROVE  Started'
  <1>0. /\ handler \in [Att -> HandlerStage] /\ mux \in [Att -> {"none", "wait", "on", "gone"}]
        /\ at \in [Phone -> Att \cup {NoAtt}] /\ session \in Att \cup {NoAtt}
    BY DEF TypeOK, RelayTypes, BridgeTypes, PhoneTypes
  <1>1. ASSUME UNCHANGED <<handler, mux, session, at>> PROVE Started'
    BY <1>1 DEF Started
  <1>2. CASE UNCHANGED vars
    BY <1>1, <1>2 DEF vars, relayVars, phoneVars, bridgeVars
  <1>3. ASSUME NEW a \in Att,
               \/ RelayCloses(a) \/ RelayForwards(a) \/ DrainCloses(a) \/ SocketFails(a)
               \/ MuxRead(a)
        PROVE  UNCHANGED <<handler, mux, session, at>>
    BY <1>3 DEF RelayCloses, ClosePhone, bridgeVars, dataVars, RelayForwards, relayVars,
      phoneVars, DrainCloses, ClosePhones, SocketFails, MuxRead, MuxOpen, MuxRemoteClosed,
      MuxDeliver
  <1>4. ASSUME NEW p \in Phone,
               \/ Register(p) \/ Announce(p) \/ PhoneData(p) \/ PhoneRefused(p)
               \/ Leave(p) \/ Tell(p) \/ LinkRead(p) \/ LinkWrite(p) \/ LinkEnds(p) \/ LinkQuits(p)
               \/ SendClose(p) \/ PhoneGone(p)
        PROVE  UNCHANGED <<handler, mux, session, at>>
    BY <1>4 DEF Register, sockVars, bridgeVars, dataVars, Announce, SendToBridge,
      relayVars, PhoneData, phoneVars, PhoneRefused, Leave, Tell, LinkRead, LinkWrite,
      SendToRelay, LinkEnds, LinkQuits, SendClose, PhoneGone
  <1>5. ASSUME NEW a \in Att, Attach(a) PROVE Started'
    BY <1>0, <1>5 DEF Attach, phoneVars, dataVars, Started
  <1>6. ASSUME NEW a \in Att,
               \/ Acknowledge(a) \/ RelayReadFails(a) \/ Unregister(a) \/ Sweep(a)
        PROVE  Started'
    BY <1>0, <1>6 DEF Acknowledge, SendToBridge, phoneVars, bridgeVars, dataVars,
      RelayReadFails, Unregister, sockVars, Sweep, ClosePhones, Started
  <1>7. ASSUME NEW a \in Att,
               \/ ReadAck(a) \/ ReadFails(a) \/ Crash(a)
        PROVE  Started'
    <2>1. mux[a] # "none" /\ UNCHANGED <<handler, session, at>>
      BY <1>7 DEF ReadAck, MuxEnds, relayVars, phoneVars, dataVars, ReadFails, Crash
    <2>2. \A b \in Att : mux'[b] = mux[b] \/ b = a
      BY <1>0, <1>7 DEF ReadAck, MuxEnds, relayVars, phoneVars, dataVars, ReadFails, Crash
    <2> QED
      BY <2>1, <2>2 DEF Started
  <1>8. CASE DrainTakes
    BY <1>0, <1>8 DEF DrainTakes, phoneVars, sockVars, bridgeVars, dataVars, Started
  <1>9. ASSUME NEW p \in Phone, Connect(p) PROVE Started'
    BY <1>0, <1>9 DEF Connect, relayVars, sockVars, bridgeVars, dataVars, Started
  <1> QED
    BY <1>1, <1>2, <1>3, <1>4, <1>5, <1>6, <1>7, <1>8, <1>9
    DEF Next, Handler, Mux, PhoneHandler, PhoneReadFails, Environment

\* An attachment that is gone stays gone.
LEMMA GoneStays ==
  ASSUME TypeOK, Started, [Next]_vars, NEW b \in Att, mux[b] = "gone"
  PROVE  mux'[b] = "gone"
  <1>0. mux \in [Att -> {"none", "wait", "on", "gone"}]
    BY DEF TypeOK, BridgeTypes
  <1>1. CASE UNCHANGED vars
    BY <1>1 DEF vars, bridgeVars
  <1>2. ASSUME NEW a \in Att,
               \/ Acknowledge(a) \/ RelayCloses(a) \/ RelayForwards(a)
               \/ RelayReadFails(a) \/ Unregister(a) \/ Sweep(a) \/ DrainCloses(a)
               \/ SocketFails(a) \/ MuxRead(a)
        PROVE  mux'[b] = "gone"
    BY <1>2 DEF Acknowledge, SendToBridge, phoneVars, bridgeVars, dataVars, RelayCloses,
      ClosePhone, RelayForwards, relayVars, RelayReadFails, Unregister, sockVars, Sweep,
      ClosePhones, DrainCloses, SocketFails, MuxRead, MuxOpen, MuxRemoteClosed, MuxDeliver
  <1>3. ASSUME NEW p \in Phone,
               \/ Connect(p) \/ Register(p) \/ Announce(p) \/ PhoneData(p)
               \/ PhoneRefused(p) \/ Leave(p) \/ Tell(p) \/ LinkRead(p) \/ LinkWrite(p)
               \/ LinkEnds(p) \/ LinkQuits(p) \/ SendClose(p) \/ PhoneGone(p)
        PROVE  mux'[b] = "gone"
    BY <1>3 DEF Connect, relayVars, sockVars, bridgeVars, dataVars, Register, Announce,
      SendToBridge, PhoneData, phoneVars, PhoneRefused, Leave, Tell, LinkRead, LinkWrite,
      SendToRelay, LinkEnds, LinkQuits, SendClose, PhoneGone
  <1>4. ASSUME NEW a \in Att, Attach(a) PROVE mux'[b] = "gone"
    <2>1. mux[a] = "none"
      BY <1>4 DEF Attach, Started
    <2> QED
      BY <1>0, <1>4, <2>1 DEF Attach
  <1>5. ASSUME NEW a \in Att,
               \/ ReadAck(a) \/ ReadFails(a) \/ Crash(a)
        PROVE  mux'[b] = "gone"
    BY <1>0, <1>5 DEF ReadAck, MuxEnds, relayVars, phoneVars, dataVars, ReadFails, Crash
  <1>6. ASSUME DrainTakes PROVE mux'[b] = "gone"
    BY <1>6 DEF DrainTakes, bridgeVars
  <1> QED
    BY <1>1, <1>2, <1>3, <1>4, <1>5, <1>6
    DEF Next, Handler, Mux, PhoneHandler, PhoneReadFails, Environment

\* What Register does to the numbers.
LEMMA RegisterIs ==
  ASSUME TypeOK, Placed, NEW p \in Phone, Register(p)
  PROVE  /\ stage[p] = "found" /\ at[p] \in Att
         /\ UNCHANGED <<at, handler, toBridge, toRelay, rc, link>>
         /\ \/ /\ stage' = [stage EXCEPT ![p] = "done"] /\ UNCHANGED <<phones, nextCh, chan>>
            \/ \E c \in Channel :
                 /\ c = FreeChannel(at[p]) /\ phones[at[p]][c] = NoPhone
                 /\ phones' = [phones EXCEPT ![at[p]][c] = p]
                 /\ nextCh' = [nextCh EXCEPT ![at[p]] = c]
                 /\ chan' = [chan EXCEPT ![p] = c]
                 /\ stage' = [stage EXCEPT ![p] = "announce"]
  <1>1. /\ stage[p] = "found" /\ at[p] \in Att
        /\ UNCHANGED <<at, handler, toBridge, toRelay, rc, link>>
    BY DEF Register, Placed, sockVars, bridgeVars
  <1>2. CASE Population(at[p]) >= MaxPhones
    BY <1>1, <1>2 DEF Register
  <1>3. CASE ~(Population(at[p]) >= MaxPhones)
    <2>1. Population(at[p]) \in Nat
      BY <1>1, PopulationIsNat
    <2>2. FreeChannel(at[p]) \in Channel /\ phones[at[p]][FreeChannel(at[p])] = NoPhone
      BY <1>1, <1>3, <2>1, FreeChannelIsFree
    <2>3. /\ phones' = [phones EXCEPT ![at[p]][FreeChannel(at[p])] = p]
          /\ nextCh' = [nextCh EXCEPT ![at[p]] = FreeChannel(at[p])]
          /\ chan' = [chan EXCEPT ![p] = FreeChannel(at[p])]
          /\ stage' = [stage EXCEPT ![p] = "announce"]
      BY <1>3 DEF Register
    <2> QED
      BY <1>1, <2>2, <2>3
  <1> QED
    BY <1>2, <1>3

\* The relay's map of phones has each under the number it was given.
LEMMA PhonesAgreeStep ==
  ASSUME TypeOK, Placed, PhonesAgree, [Next]_vars
  PROVE  PhonesAgree'
  <1>0. /\ phones \in [Att -> [Channel -> Phone \cup {NoPhone}]] /\ stage \in [Phone -> PhoneStage]
        /\ at \in [Phone -> Att \cup {NoAtt}] /\ chan \in [Phone -> 0..MaxCh]
    BY DEF TypeOK, RelayTypes, PhoneTypes
  <1>1. ASSUME UNCHANGED <<phones, at, chan, stage>> PROVE PhonesAgree'
    BY <1>1 DEF PhonesAgree
  <1>2. CASE UNCHANGED vars
    BY <1>1, <1>2 DEF vars, relayVars, phoneVars
  <1>3. ASSUME NEW a \in Att,
               \/ Attach(a) \/ Acknowledge(a) \/ ReadAck(a) \/ ReadFails(a)
               \/ RelayForwards(a) \/ RelayReadFails(a) \/ Unregister(a)
               \/ SocketFails(a) \/ MuxRead(a) \/ Crash(a)
        PROVE  UNCHANGED <<phones, at, chan, stage>>
    BY <1>3 DEF Attach, phoneVars, dataVars, Acknowledge, SendToBridge, bridgeVars,
      ReadAck, MuxEnds, relayVars, ReadFails, RelayForwards, RelayReadFails, Unregister,
      sockVars, SocketFails, MuxRead, MuxOpen, MuxRemoteClosed, MuxDeliver, Crash
  <1>4. ASSUME NEW p \in Phone,
               \/ PhoneData(p) \/ LinkRead(p) \/ LinkWrite(p) \/ LinkEnds(p) \/ LinkQuits(p)
               \/ SendClose(p) \/ PhoneGone(p)
        PROVE  UNCHANGED <<phones, at, chan, stage>>
    BY <1>4 DEF PhoneData, SendToBridge, relayVars, phoneVars, bridgeVars, LinkRead,
      sockVars, LinkWrite, SendToRelay, LinkEnds, LinkQuits, dataVars, SendClose, PhoneGone
  <1>5. ASSUME DrainTakes PROVE UNCHANGED <<phones, at, chan, stage>>
    BY <1>5 DEF DrainTakes, phoneVars, sockVars, bridgeVars, dataVars
  <1>6. ASSUME NEW a \in Att,
               \/ RelayCloses(a) \/ Sweep(a) \/ DrainCloses(a)
        PROVE  PhonesAgree'
    <2>1. UNCHANGED <<at, chan, stage>>
      BY <1>6 DEF RelayCloses, ClosePhone, bridgeVars, dataVars, Sweep, ClosePhones,
        sockVars, DrainCloses
    <2>2. \/ phones' = [phones EXCEPT ![a] = NoPhones]
          \/ phones' = [phones EXCEPT ![a][Incoming(a).c] = NoPhone]
      BY <1>6 DEF RelayCloses, ClosePhone, Sweep, DrainCloses, ClosePhones
    <2>3. \A b \in Att, c \in Channel : phones'[b][c] \in {phones[b][c], NoPhone}
      BY <1>0, <2>2 DEF NoPhones
    <2> QED
      BY <2>1, <2>3 DEF PhonesAgree
  <1>7. ASSUME NEW p \in Phone, Connect(p) PROVE PhonesAgree'
    <2>1. stage[p] = "new" /\ phones' = phones /\ chan' = chan
          /\ \A q \in Phone \ {p} : at'[q] = at[q] /\ stage'[q] = stage[q]
      BY <1>0, <1>7 DEF Connect, relayVars
    <2>2. \A b \in Att, c \in Channel : phones[b][c] # p
      BY <2>1 DEF PhonesAgree
    <2> QED
      BY <1>0, <2>1, <2>2 DEF PhonesAgree
  <1>8. ASSUME NEW p \in Phone, Register(p) PROVE PhonesAgree'
    <2>1. stage[p] = "found" /\ at[p] \in Att /\ at' = at
      BY <1>8, RegisterIs
    <2>2. \A b \in Att, c \in Channel : phones[b][c] # p
      BY <2>1 DEF PhonesAgree
    <2>3. CASE stage' = [stage EXCEPT ![p] = "done"] /\ UNCHANGED <<phones, nextCh, chan>>
      BY <1>0, <2>1, <2>2, <2>3 DEF PhonesAgree
    <2>4. ASSUME NEW c \in Channel, phones' = [phones EXCEPT ![at[p]][c] = p],
                 chan' = [chan EXCEPT ![p] = c], stage' = [stage EXCEPT ![p] = "announce"]
          PROVE  PhonesAgree'
      <3>1. \A b \in Att, d \in Channel :
              phones'[b][d] = phones[b][d] \/ (b = at[p] /\ d = c /\ phones'[b][d] = p)
        BY <1>0, <2>1, <2>4
      <3> QED
        BY <1>0, <2>1, <2>2, <2>4, <3>1 DEF PhonesAgree
    <2> QED
      BY <1>8, <2>3, <2>4, RegisterIs
  <1>9. ASSUME NEW p \in Phone, Announce(p) PROVE PhonesAgree'
    <2>1. /\ UNCHANGED <<phones, at, chan>> /\ stage[p] = "announce"
          /\ \E s \in {"loop", "leave"} : stage' = [stage EXCEPT ![p] = s]
      BY <1>9 DEF Announce, relayVars
    <2> QED
      BY <1>0, <2>1 DEF PhonesAgree
  <1>10. ASSUME NEW p \in Phone, PhoneRefused(p) PROVE PhonesAgree'
    BY <1>0, <1>10 DEF PhoneRefused, relayVars, sockVars, bridgeVars, dataVars,
      PhonesAgree
  <1>11. ASSUME NEW p \in Phone, Leave(p) PROVE PhonesAgree'
    <2>1. /\ at[p] \in Att /\ chan[p] \in Channel /\ at' = at /\ chan' = chan
          /\ \A q \in Phone \ {p} : stage'[q] = stage[q]
      BY <1>0, <1>11 DEF Leave, Placed
    <2>2. \A b \in Att, c \in Channel : phones[b][c] = p => b = at[p] /\ c = chan[p]
      BY DEF PhonesAgree
    <2>3. \A b \in Att, c \in Channel : phones'[b][c] \in {phones[b][c], NoPhone} /\ phones'[b][c] # p
      BY <1>0, <1>11, <2>1, <2>2 DEF Leave
    <2> QED
      BY <1>0, <2>1, <2>3 DEF PhonesAgree
  <1>12. ASSUME NEW p \in Phone, Tell(p) PROVE PhonesAgree'
    <2>1. stage[p] = "tell" /\ stage' = [stage EXCEPT ![p] = "done"] /\ UNCHANGED <<phones, at, chan>>
      BY <1>12 DEF Tell, relayVars
    <2> QED
      BY <1>0, <2>1 DEF PhonesAgree
  <1> QED
    BY <1>1, <1>2, <1>3, <1>4, <1>5, <1>6, <1>7, <1>8, <1>9, <1>10, <1>11, <1>12
    DEF Next, Handler, Mux, PhoneHandler, PhoneReadFails, Environment

\* While numbers rest, a frame finds nobody but its own phone at either end.
LEMMA ArrivedIsOwn ==
  ASSUME TypeOK, FramesBelong, ChannelsAgree, NumbersAreOwn, NEW a \in Att,
         toBridge[a] # <<>>, Arrived(a).t # "attached",
         channels[a][Arrived(a).c] # NoPhone
  PROVE  channels[a][Arrived(a).c] = Arrived(a).p
  <1> DEFINE f == Arrived(a)
             q == channels[a][f.c]
  <1>1. /\ f.p \in Phone /\ f.c \in Channel /\ at[f.p] = a /\ chan[f.p] = f.c
    BY ArrivedBelongs DEF Belongs
  <1>2. q \in Phone /\ rc[q] = "open" /\ at[q] = a /\ chan[q] = f.c
    BY <1>1 DEF ChannelsAgree, TypeOK, BridgeTypes
  <1>3. 1 \in 1..Len(toBridge[a]) /\ f = toBridge[a][1]
    BY Taken DEF Arrived, TypeOK, SockTypes
  <1>4. Uses(f.p)
    BY <1>1, <1>3 DEF Uses
  <1>5. Uses(q)
    BY <1>2 DEF Uses
  <1> QED
    BY <1>1, <1>2, <1>4, <1>5 DEF NumbersAreOwn

\* What the relay reads next is about the phone that has its number.
LEMMA IncomingIsOwn ==
  ASSUME TypeOK, FramesBelong, RelayBelongs, PhonesAgree, NumbersAreOwn, NEW a \in Att,
         toRelay[a] # <<>>
  PROVE  /\ Incoming(a).p \in Phone /\ Incoming(a).c \in Channel
         /\ at[Incoming(a).p] = a /\ chan[Incoming(a).p] = Incoming(a).c
         /\ link[Incoming(a).p] # "none"
         /\ phones[a][Incoming(a).c] \in {NoPhone, Incoming(a).p}
  <1> DEFINE f == Incoming(a)
             q == phones[a][f.c]
  <1>1. 1 \in 1..Len(toRelay[a]) /\ f = toRelay[a][1] /\ f.p \in Phone
    BY Taken, IncomingIsOfPhone DEF Incoming, TypeOK, SockTypes
  <1>2. at[f.p] = a /\ chan[f.p] = f.c /\ f.c \in Channel /\ link[f.p] # "none"
    BY <1>1 DEF RelayBelongs
  <1>3. ASSUME q # NoPhone PROVE q = f.p
    <2>1. q \in Phone /\ stage[q] \in {"announce", "loop", "leave"} /\ at[q] = a /\ chan[q] = f.c
      BY <1>2, <1>3 DEF PhonesAgree, TypeOK, RelayTypes
    <2>2. Uses(q) /\ Uses(f.p)
      BY <1>1, <1>2, <2>1 DEF Uses
    <2> QED
      BY <1>1, <1>2, <2>1, <2>2 DEF NumbersAreOwn
  <1> QED
    BY <1>1, <1>2, <1>3

\* A phone whose link, channel, data, session and stage are as they were.
LEMMA ServiceSame ==
  ASSUME Service, NEW q \in Phone,
         link'[q] = link[q], rc'[q] = rc[q], inbox'[q] = inbox[q], gotUp'[q] = gotUp[q],
         down'[q] = down[q], gotDown'[q] = gotDown[q], stage'[q] = stage[q], up'[q] = up[q],
         at'[q] = at[q], chan'[q] = chan[q], ws'[q] = ws[q] \/ stage[q] # "new",
         rc[q] = "open" => channels'[at[q]][chan[q]] = channels[at[q]][chan[q]]
  PROVE  /\ IF link'[q] = "none" THEN NotServed(q)' ELSE Served(q)'
         /\ stage'[q] = "new" => at'[q] = NoAtt /\ ws'[q] = "none"
  BY DEF Service, NotServed, Served

\* Where what is said of links and data does not change, a phone's handler goes on.
LEMMA ServiceStages ==
  ASSUME Service, UNCHANGED <<link, rc, inbox, gotUp, down, gotDown, up, channels>>,
         \A q \in Phone : stage[q] \in Announced =>
           stage'[q] \in Announced /\ at'[q] = at[q] /\ chan'[q] = chan[q],
         \A q \in Phone : stage'[q] \in {"new", "found", "announce"} =>
                            stage[q] \in {"new", "found", "announce"},
         \A q \in Phone : stage'[q] = "new" =>
           stage[q] = "new" /\ at'[q] = at[q] /\ ws'[q] = ws[q]
  PROVE  Service'
  <1>1. ASSUME NEW q \in Phone, link[q] = "none" PROVE NotServed(q)'
    BY <1>1 DEF Service, NotServed
  <1>2. ASSUME NEW q \in Phone, link[q] # "none" PROVE Served(q)'
    BY <1>2 DEF Service, Served, Announced
  <1> QED
    BY <1>1, <1>2 DEF Service

\* Channels that are forgotten with their phones finished.
LEMMA ServiceFinishes ==
  ASSUME Service, UNCHANGED <<gotUp, down, gotDown, stage, up, at, chan, ws>>,
         \A q \in Phone :
           /\ link'[q] = link[q] \/ (link[q] # "none" /\ link'[q] # "none")
           /\ rc[q] = "none" => rc'[q] = "none" /\ inbox'[q] = inbox[q]
           /\ rc[q] # "none" => rc'[q] # "none"
           /\ rc'[q] = "open" =>
                rc[q] = "open" /\ channels'[at[q]][chan[q]] = channels[at[q]][chan[q]]
  PROVE  Service'
  <1>1. ASSUME NEW q \in Phone, link[q] = "none" PROVE link'[q] = "none" /\ NotServed(q)'
    BY <1>1 DEF Service, NotServed
  <1>2. ASSUME NEW q \in Phone, link[q] # "none" PROVE link'[q] # "none" /\ Served(q)'
    BY <1>2 DEF Service, Served
  <1> QED
    BY <1>1, <1>2 DEF Service

\* The end of a mux finishes the channels it has.
LEMMA MuxEndsFinishes ==
  ASSUME TypeOK, ChannelsAgree, Service, NEW a \in Att, MuxEnds(a)
  PROVE  \A q \in Phone :
           /\ rc[q] = "none" => rc'[q] = "none"
           /\ rc[q] # "none" => rc'[q] # "none"
           /\ rc'[q] = "open" => /\ rc[q] = "open" /\ at[q] # a
                                 /\ channels'[at[q]][chan[q]] = channels[at[q]][chan[q]]
  <1>0. /\ channels \in [Att -> [Channel -> Phone \cup {NoPhone}]]
        /\ rc \in [Phone -> {"none", "open", "closing", "done"}]
    BY DEF TypeOK, BridgeTypes
  <1> SUFFICES ASSUME NEW q \in Phone
               PROVE  /\ rc[q] = "none" => rc'[q] = "none"
                      /\ rc[q] # "none" => rc'[q] # "none"
                      /\ rc'[q] = "open" =>
                           /\ rc[q] = "open" /\ at[q] # a
                           /\ channels'[at[q]][chan[q]] = channels[at[q]][chan[q]]
    OBVIOUS
  <1>1. CASE \E c \in Channel : channels[a][c] = q
    <2>1. rc[q] = "open"
      BY <1>0, <1>1 DEF ChannelsAgree
    <2>2. rc'[q] = "done"
      BY <1>1 DEF MuxEnds
    <2> QED
      BY <2>1, <2>2
  <1>2. CASE ~ \E c \in Channel : channels[a][c] = q
    <2>1. rc'[q] = rc[q]
      BY <1>2 DEF MuxEnds
    <2>2. ASSUME rc[q] = "open"
          PROVE  at[q] # a /\ channels'[at[q]][chan[q]] = channels[at[q]][chan[q]]
      <3>1. at[q] \in Att /\ chan[q] \in Channel /\ channels[at[q]][chan[q]] = q
        BY <2>2 DEF Service, Served, NotServed
      <3>2. at[q] # a
        BY <1>2, <3>1
      <3> QED
        BY <1>0, <3>1, <3>2 DEF MuxEnds
    <2> QED
      BY <2>1, <2>2
  <1> QED
    BY <1>1, <1>2

\* The read loop: an open frame, which comes once, makes the link; a close and data that
\* finds the inbox full finish the channel of whoever has the number.
LEMMA ServiceMuxRead ==
  ASSUME TypeOK, FramesBelong, ChannelsAgree, NumbersAreOwn, Service, Opens,
         NEW a \in Att, MuxRead(a)
  PROVE  Service'
  <1> DEFINE f == Arrived(a)
  <1>0. /\ channels \in [Att -> [Channel -> Phone \cup {NoPhone}]]
        /\ rc \in [Phone -> {"none", "open", "closing", "done"}]
        /\ link \in [Phone -> {"none", "run", "ended"}]
        /\ UNCHANGED <<gotUp, down, gotDown, stage, up, at, chan, ws>>
    BY DEF TypeOK, BridgeTypes, MuxRead, dataVars, phoneVars
  <1>1. 1 \in 1..Len(toBridge[a]) /\ f = toBridge[a][1]
    BY Taken DEF MuxRead, Arrived, TypeOK, SockTypes
  <1>2. f.t # "attached" =>
          f.p \in Phone /\ f.c \in Channel /\ at[f.p] = a /\ chan[f.p] = f.c
    BY ArrivedBelongs DEF Belongs, MuxRead
  <1>3. ASSUME NEW q \in Phone, rc[q] = "open"
        PROVE  at[q] \in Att /\ chan[q] \in Channel /\ channels[at[q]][chan[q]] = q
    BY <1>3 DEF Service, Served, NotServed
  <1>4. CASE MuxOpen(a)
    <2>1. f.t = "open" /\ f.p \in Phone /\ f.c \in Channel
      BY <1>2, <1>4 DEF MuxOpen
    <2>2. link[f.p] = "none" /\ stage[f.p] \in {"loop", "leave", "tell", "done"}
      BY <1>1, <2>1 DEF Opens
    <2>3. /\ rc' = [q \in Phone |-> IF q = f.p THEN "open"
                                    ELSE IF q = channels[a][f.c] THEN "done" ELSE rc[q]]
          /\ channels' = [channels EXCEPT ![a][f.c] = f.p]
          /\ link' = [link EXCEPT ![f.p] = "run"] /\ inbox' = inbox
      BY <1>4 DEF MuxOpen
    <2> HIDE DEF f
    <2>4. ASSUME NEW p \in Phone, p = f.p PROVE Served(p)' /\ link'[p] = "run"
      <3>1. at'[p] = a /\ chan'[p] = f.c /\ stage'[p] = stage[p]
        BY <1>0, <1>2, <2>1, <2>4
      <3>2. rc'[p] = "open" /\ link'[p] = "run"
        BY <1>0, <2>3, <2>4
      <3>3. channels'[a][f.c] = p
        BY <1>0, <2>1, <2>3, <2>4
      <3> QED
        BY <2>1, <2>2, <2>4, <3>1, <3>2, <3>3 DEF Served
    <2>5. ASSUME NEW q \in Phone \ {f.p}
          PROVE  IF link'[q] = "none" THEN NotServed(q)' ELSE Served(q)'
      <3>1. link'[q] = link[q] /\ inbox'[q] = inbox[q]
        BY <1>0, <2>3
      <3>2. CASE q = channels[a][f.c]
        <4>1. rc[q] = "open" /\ rc'[q] = "done"
          BY <2>1, <2>3, <2>5, <3>2 DEF ChannelsAgree
        <4> QED
          BY <1>0, <3>1, <4>1 DEF Service, Served, NotServed
      <3>3. CASE q # channels[a][f.c]
        <4>1. rc'[q] = rc[q]
          BY <2>3, <2>5, <3>3
        <4>2. rc[q] = "open" => channels'[at[q]][chan[q]] = q
          BY <1>0, <1>3, <2>1, <2>3, <3>3
        <4> QED
          BY <1>0, <3>1, <4>1, <4>2 DEF Service, Served, NotServed
      <3> QED
        BY <3>2, <3>3
    <2>6. \A q \in Phone : stage'[q] = "new" => at'[q] = NoAtt /\ ws'[q] = "none"
      BY <1>0 DEF Service
    <2>7. \A q \in Phone : IF link'[q] = "none" THEN NotServed(q)' ELSE Served(q)'
      <3> SUFFICES ASSUME NEW q \in Phone
                   PROVE  IF link'[q] = "none" THEN NotServed(q)' ELSE Served(q)'
        OBVIOUS
      <3> QED
        BY <2>4, <2>5
    <2> QED
      BY <2>6, <2>7 DEF Service
  <1>5. CASE MuxRemoteClosed(a) \/ MuxDeliver(a)
    <2> DEFINE p == channels[a][f.c]
    <2>1. f.t # "attached" /\ f.c \in Channel /\ link' = link
      BY <1>2, <1>5 DEF MuxRemoteClosed, MuxDeliver
    <2>2. \A q \in Phone : /\ rc'[q] = rc[q] \/ (q = p /\ rc'[q] \in {"closing", "done"})
                           /\ inbox'[q] = inbox[q] \/ q = p
      <3>1. inbox \in [Phone -> Seq(Message)] /\ p \in Phone \cup {NoPhone}
        BY <1>0, <2>1 DEF TypeOK, BridgeTypes
      <3>2. CASE MuxRemoteClosed(a)
        BY <1>0, <3>1, <3>2 DEF MuxRemoteClosed
      <3>3. CASE MuxDeliver(a)
        <4>1. rc' = rc \/ rc' = [rc EXCEPT ![p] = "closing"]
          BY <3>3 DEF MuxDeliver
        <4>2. inbox' = inbox \/ \E m : inbox' = [inbox EXCEPT ![p] = m]
          BY <3>3 DEF MuxDeliver
        <4> QED
          BY <1>0, <3>1, <4>1, <4>2
      <3> QED
        BY <1>5, <3>2, <3>3
    <2>3. p # NoPhone => rc[p] = "open"
      BY <2>1 DEF ChannelsAgree
    <2>4. channels' = channels
          \/ (channels' = [channels EXCEPT ![a][f.c] = NoPhone] /\ (p # NoPhone => rc'[p] # "open"))
      <3>1. p \in Phone \cup {NoPhone}
        BY <1>0, <2>1
      <3>2. CASE MuxRemoteClosed(a)
        BY <1>0, <3>1, <3>2 DEF MuxRemoteClosed
      <3>3. CASE MuxDeliver(a)
        BY <1>0, <3>1, <3>3 DEF MuxDeliver
      <3> QED
        BY <1>5, <3>2, <3>3
    <2> HIDE DEF p
    <2>5. ASSUME NEW q \in Phone, rc'[q] = "open"
          PROVE  rc[q] = "open" /\ channels'[at[q]][chan[q]] = channels[at[q]][chan[q]]
      <3>1. rc[q] = "open"
        BY <2>2, <2>5
      <3>2. at[q] \in Att /\ chan[q] \in Channel /\ channels[at[q]][chan[q]] = q
        BY <1>3, <3>1
      <3>3. CASE channels' = channels
        BY <3>1, <3>3
      <3>4. CASE channels' = [channels EXCEPT ![a][f.c] = NoPhone] /\ (p # NoPhone => rc'[p] # "open")
        <4>1. q # p
          BY <2>5, <3>4
        <4>2. ~(at[q] = a /\ chan[q] = f.c)
          BY <3>2, <4>1 DEF p
        <4> HIDE DEF f
        <4> QED
          BY <1>0, <3>1, <3>2, <3>4, <4>2
      <3> QED
        BY <2>4, <3>3, <3>4
    <2>6. \A q \in Phone : rc[q] = "none" => q # p
      BY <2>3
    <2> QED
      BY <1>0, <2>1, <2>2, <2>5, <2>6, ServiceFinishes
  <1> QED
    BY <1>4, <1>5 DEF MuxRead

\* Every step keeps what is said of a phone with and without a link.
LEMMA ServiceStep ==
  ASSUME TypeOK, Placed, FramesBelong, ChannelsAgree, NumbersAreOwn, PhonesAgree,
         RelayBelongs, Service, Opens, [Next]_vars
  PROVE  Service'
  <1>0. /\ stage \in [Phone -> PhoneStage] /\ ws \in [Phone -> {"none", "open", "closed"}]
        /\ at \in [Phone -> Att \cup {NoAtt}] /\ chan \in [Phone -> 0..MaxCh]
        /\ link \in [Phone -> {"none", "run", "ended"}]
        /\ rc \in [Phone -> {"none", "open", "closing", "done"}]
        /\ channels \in [Att -> [Channel -> Phone \cup {NoPhone}]]
    BY DEF TypeOK, PhoneTypes, BridgeTypes
  <1>1. ASSUME UNCHANGED <<link, rc, inbox, gotUp, down, gotDown, up, channels, stage, at, chan>>,
               \A q \in Phone : ws'[q] = ws[q] \/ stage[q] # "new"
        PROVE  Service'
    <2>1. \A q \in Phone :
            /\ IF link'[q] = "none" THEN NotServed(q)' ELSE Served(q)'
            /\ stage'[q] = "new" => at'[q] = NoAtt /\ ws'[q] = "none"
      BY <1>1, ServiceSame
    <2> QED
      BY <2>1 DEF Service
  <1>2. CASE UNCHANGED vars
    BY <1>1, <1>2 DEF vars, phoneVars, bridgeVars, dataVars
  <1>3. ASSUME NEW a \in Att,
               \/ Attach(a) \/ Acknowledge(a) \/ RelayReadFails(a) \/ Unregister(a)
               \/ SocketFails(a)
        PROVE  Service'
    BY <1>1, <1>3 DEF Attach, phoneVars, dataVars, Acknowledge, SendToBridge, bridgeVars,
      RelayReadFails, Unregister, sockVars, SocketFails, relayVars
  <1>4. CASE DrainTakes
    BY <1>1, <1>4 DEF DrainTakes, phoneVars, sockVars, bridgeVars, dataVars
  <1>5. ASSUME NEW a \in Att,
               \/ RelayCloses(a) \/ Sweep(a) \/ DrainCloses(a)
        PROVE  Service'
    <2>1. UNCHANGED <<link, rc, inbox, gotUp, down, gotDown, up, channels, stage, at, chan>>
      BY <1>5 DEF RelayCloses, ClosePhone, bridgeVars, dataVars, Sweep, ClosePhones,
        sockVars, DrainCloses
    <2>2. \A b \in Att, c \in Channel : phones[b][c] \in Phone => stage[phones[b][c]] # "new"
      BY DEF PhonesAgree
    <2>3. CASE RelayCloses(a)
      <3>1. Incoming(a).c \in Channel
        BY <2>3, IncomingIsOwn DEF RelayCloses
      <3>2. \A q \in Phone : ws'[q] = ws[q] \/ q = phones[a][Incoming(a).c]
        BY <2>3 DEF RelayCloses, ClosePhone
      <3> QED
        BY <1>1, <2>1, <2>2, <3>1, <3>2
    <2>4. CASE Sweep(a) \/ DrainCloses(a)
      <3>1. \A q \in Phone : ws'[q] = ws[q] \/ \E c \in Channel : phones[a][c] = q
        BY <2>4 DEF Sweep, DrainCloses, ClosePhones
      <3> QED
        BY <1>1, <2>1, <2>2, <3>1
    <2> QED
      BY <1>5, <2>3, <2>4
  <1>6. ASSUME NEW p \in Phone, PhoneGone(p) PROVE Service'
    <2>1. UNCHANGED <<link, rc, inbox, gotUp, down, gotDown, up, channels, stage, at, chan>>
      BY <1>6 DEF PhoneGone, relayVars, sockVars, bridgeVars, dataVars
    <2>2. \A q \in Phone : ws'[q] = ws[q] \/ (q = p /\ ws[p] = "open")
      BY <1>0, <1>6 DEF PhoneGone
    <2>3. ws[p] = "open" => stage[p] # "new"
      BY DEF Service
    <2> QED
      BY <1>1, <2>1, <2>2, <2>3
  <1>7. ASSUME NEW p \in Phone, Connect(p) PROVE Service'
    <2>1. /\ UNCHANGED <<link, rc, inbox, gotUp, down, gotDown, up, channels, chan>>
          /\ stage[p] = "new" /\ stage'[p] \in {"done", "found"}
          /\ \A q \in Phone \ {p} : stage'[q] = stage[q] /\ at'[q] = at[q] /\ ws'[q] = ws[q]
      BY <1>0, <1>7 DEF Connect, bridgeVars, dataVars
    <2>2. \A q \in Phone : stage[q] \in Announced =>
            stage'[q] \in Announced /\ at'[q] = at[q] /\ chan'[q] = chan[q]
      BY <2>1 DEF Announced
    <2>3. \A q \in Phone : stage'[q] \in {"new", "found", "announce"} =>
                             stage[q] \in {"new", "found", "announce"}
      BY <2>1
    <2>4. \A q \in Phone : stage'[q] = "new" => stage[q] = "new" /\ at'[q] = at[q] /\ ws'[q] = ws[q]
      BY <2>1
    <2> QED
      BY <2>1, <2>2, <2>3, <2>4, ServiceStages
  <1>8. ASSUME NEW p \in Phone, Register(p) PROVE Service'
    <2>1. /\ UNCHANGED <<link, rc, inbox, gotUp, down, gotDown, up, channels, at>>
          /\ stage[p] = "found" /\ stage'[p] \in {"done", "announce"}
          /\ \A q \in Phone \ {p} : stage'[q] = stage[q] /\ ws'[q] = ws[q]
      BY <1>0, <1>8 DEF Register, bridgeVars, dataVars
    <2>2. \A q \in Phone \ {p} : chan'[q] = chan[q]
      BY <1>0, <1>8, RegisterIs
    <2>3. \A q \in Phone : stage[q] \in Announced =>
            stage'[q] \in Announced /\ at'[q] = at[q] /\ chan'[q] = chan[q]
      BY <2>1, <2>2 DEF Announced
    <2>4. \A q \in Phone : stage'[q] \in {"new", "found", "announce"} =>
                             stage[q] \in {"new", "found", "announce"}
      BY <2>1
    <2>5. \A q \in Phone : stage'[q] = "new" => stage[q] = "new" /\ at'[q] = at[q] /\ ws'[q] = ws[q]
      BY <2>1
    <2> QED
      BY <2>1, <2>3, <2>4, <2>5, ServiceStages
  <1>9. ASSUME NEW p \in Phone,
               \/ Announce(p) \/ PhoneRefused(p) \/ Leave(p) \/ Tell(p)
        PROVE  Service'
    <2>1. /\ UNCHANGED <<link, rc, inbox, gotUp, down, gotDown, up, channels, at, chan>>
          /\ stage[p] \notin {"new", "found"} /\ stage'[p] \in Announced
      BY <1>0, <1>9 DEF Announce, SendToBridge, relayVars, bridgeVars, dataVars,
        PhoneRefused, sockVars, Leave, Tell, Announced
    <2>2. \A q \in Phone \ {p} : stage'[q] = stage[q] /\ ws'[q] = ws[q]
      BY <1>0, <1>9 DEF Announce, SendToBridge, relayVars, bridgeVars, dataVars,
        PhoneRefused, sockVars, Leave, Tell
    <2>3. \A q \in Phone : stage[q] \in Announced =>
            stage'[q] \in Announced /\ at'[q] = at[q] /\ chan'[q] = chan[q]
      BY <2>1, <2>2
    <2>4. \A q \in Phone : stage'[q] \in {"new", "found", "announce"} =>
                             stage[q] \in {"new", "found", "announce"}
      BY <2>1, <2>2 DEF Announced
    <2>5. \A q \in Phone : stage'[q] = "new" => stage[q] = "new" /\ at'[q] = at[q] /\ ws'[q] = ws[q]
      BY <2>1, <2>2 DEF Announced
    <2> QED
      BY <2>1, <2>3, <2>4, <2>5, ServiceStages
  <1>10. ASSUME NEW p \in Phone, PhoneData(p) PROVE Service'
    <2>1. /\ UNCHANGED <<link, rc, inbox, gotUp, down, gotDown, channels, stage, at, chan, ws>>
          /\ stage[p] = "loop" /\ \A q \in Phone \ {p} : up'[q] = up[q]
      BY <1>10 DEF PhoneData, phoneVars, bridgeVars, TypeOK, DataTypes
    <2> QED
      BY <2>1 DEF Service, Served, NotServed
  <1>11. ASSUME NEW p \in Phone,
                \/ LinkRead(p) \/ LinkWrite(p) \/ SendClose(p)
         PROVE  Service'
    <2>1. UNCHANGED <<link, channels, stage, at, chan, ws, up, gotDown>>
      BY <1>11 DEF LinkRead, relayVars, phoneVars, sockVars, LinkWrite, SendToRelay,
        bridgeVars, SendClose, dataVars
    <2>2. /\ rc[p] # "none" \/ link[p] # "none"
          /\ rc'[p] = rc[p] \/ rc'[p] = "done"
      BY <1>0, <1>11 DEF LinkRead, relayVars, phoneVars, sockVars, LinkWrite, SendToRelay,
        bridgeVars, SendClose, dataVars
    <2>3. \A q \in Phone \ {p} : rc'[q] = rc[q] /\ inbox'[q] = inbox[q]
                                 /\ gotUp'[q] = gotUp[q] /\ down'[q] = down[q]
      BY <1>11 DEF LinkRead, relayVars, phoneVars, sockVars, LinkWrite, SendToRelay,
        bridgeVars, SendClose, dataVars, TypeOK, BridgeTypes, DataTypes
    <2> QED
      BY <2>1, <2>2, <2>3 DEF Service, Served, NotServed
  <1>12. ASSUME NEW p \in Phone, LinkEnds(p) PROVE Service'
    <2>1. /\ UNCHANGED <<gotUp, down, gotDown, stage, up, at, chan, ws>>
          /\ link[p] = "run" /\ link' = [link EXCEPT ![p] = "ended"]
          /\ inbox' = [inbox EXCEPT ![p] = <<>>]
      BY <1>12 DEF LinkEnds, phoneVars, dataVars
    <2>2. \A q \in Phone : rc'[q] = rc[q] \/ (q = p /\ rc[q] = "open" /\ rc'[q] = "closing")
      BY <1>0, <1>12 DEF LinkEnds
    <2>3. rc[p] # "none"
      BY <2>1 DEF Service, Served
    <2>4. ASSUME NEW q \in Phone, rc'[q] = "open"
          PROVE  rc[q] = "open" /\ channels'[at[q]][chan[q]] = channels[at[q]][chan[q]]
      <3>1. rc[q] = "open"
        BY <2>2, <2>4
      <3>2. at[q] \in Att /\ chan[q] \in Channel /\ channels[at[q]][chan[q]] = q
        BY <3>1 DEF Service, Served, NotServed
      <3>3. CASE UNCHANGED <<rc, channels>>
        BY <3>1, <3>3
      <3>4. CASE /\ rc' = [rc EXCEPT ![p] = "closing"]
                 /\ channels' = [channels EXCEPT ![at[p]] =
                                   [c \in Channel |-> IF @[c] = p THEN NoPhone ELSE @[c]]]
        <4>1. q # p
          BY <1>0, <2>4, <3>4
        <4>2. CASE at[q] # at[p]
          BY <1>0, <3>1, <3>2, <3>4, <4>2
        <4>3. CASE at[q] = at[p]
          <5>1. channels'[at[q]] = [c \in Channel |-> IF channels[at[q]][c] = p THEN NoPhone
                                                      ELSE channels[at[q]][c]]
            BY <1>0, <3>2, <3>4, <4>3
          <5> QED
            BY <3>1, <3>2, <4>1, <5>1
        <4> QED
          BY <4>2, <4>3
      <3> QED
        BY <1>12, <3>3, <3>4 DEF LinkEnds
    <2>5. \A q \in Phone : /\ link'[q] = link[q] \/ (link[q] # "none" /\ link'[q] # "none")
                           /\ rc[q] = "none" => rc'[q] = "none" /\ inbox'[q] = inbox[q]
                           /\ rc[q] # "none" => rc'[q] # "none"
      BY <1>0, <2>1, <2>2, <2>3
    <2> QED
      BY <2>1, <2>4, <2>5, ServiceFinishes
  <1>13. ASSUME NEW a \in Att, MuxEnds(a), UNCHANGED <<phoneVars, dataVars, link, inbox>>
         PROVE  Service'
    BY <1>13, MuxEndsFinishes, ServiceFinishes DEF phoneVars, dataVars
  <1>14. ASSUME NEW a \in Att, ReadAck(a) PROVE Service'
    <2>1. CASE MuxEnds(a)
      BY <1>13, <1>14, <2>1 DEF ReadAck
    <2>2. CASE UNCHANGED <<rc, channels>>
      BY <1>1, <1>14, <2>2 DEF ReadAck, phoneVars, dataVars
    <2> QED
      BY <1>14, <2>1, <2>2 DEF ReadAck
  <1>15. ASSUME NEW a \in Att, ReadFails(a) PROVE Service'
    BY <1>13, <1>15 DEF ReadFails
  <1>16. ASSUME NEW a \in Att, MuxRead(a) PROVE Service'
    BY <1>16, ServiceMuxRead
  <1>17. ASSUME NEW a \in Att, RelayForwards(a) PROVE Service'
    <2>1. /\ UNCHANGED <<link, rc, inbox, gotUp, down, up, channels, stage, at, chan, ws>>
          /\ phones[a][Incoming(a).c] # NoPhone /\ toRelay[a] # <<>>
          /\ gotDown' = [gotDown EXCEPT ![phones[a][Incoming(a).c]] =
                           Append(@, <<Incoming(a).p, Incoming(a).n>>)]
      BY <1>17 DEF RelayForwards, phoneVars, bridgeVars
    <2>2. link[Incoming(a).p] # "none" /\ phones[a][Incoming(a).c] = Incoming(a).p
      BY <2>1, IncomingIsOwn
    <2>3. \A q \in Phone : gotDown'[q] = gotDown[q] \/ link[q] # "none"
      BY <2>1, <2>2 DEF TypeOK, DataTypes
    <2> QED
      BY <2>1, <2>3 DEF Service, Served, NotServed
  <1>18. ASSUME NEW a \in Att, Crash(a) PROVE Service'
    <2>1. /\ UNCHANGED <<gotUp, down, gotDown, stage, up, at, chan, ws>>
          /\ rc' = [q \in Phone |-> IF rc[q] = "none" THEN "none" ELSE "done"]
          /\ inbox' = [q \in Phone |-> <<>>]
          /\ link' = [q \in Phone |-> IF link[q] = "run" THEN "ended" ELSE link[q]]
      BY <1>18 DEF Crash, phoneVars, dataVars
    <2>2. \A q \in Phone : rc[q] = "none" => inbox[q] = <<>>
      BY DEF Service, Served, NotServed
    <2>3. \A q \in Phone :
            /\ link'[q] = link[q] \/ (link[q] # "none" /\ link'[q] # "none")
            /\ rc[q] = "none" => rc'[q] = "none" /\ inbox'[q] = inbox[q]
            /\ rc[q] # "none" => rc'[q] # "none"
            /\ rc'[q] # "open"
      BY <2>1, <2>2
    <2> QED
      BY <2>1, <2>3, ServiceFinishes
  <1>19. ASSUME NEW p \in Phone, LinkQuits(p) PROVE Service'
    <2>1. /\ UNCHANGED <<gotUp, down, gotDown, stage, up, at, chan, ws, channels, rc, inbox>>
          /\ link[p] = "run" /\ link' = [link EXCEPT ![p] = "ended"]
      BY <1>19 DEF LinkQuits, phoneVars, dataVars
    <2>2. \A q \in Phone : /\ link'[q] = link[q] \/ (link[q] # "none" /\ link'[q] # "none")
                           /\ rc[q] = "none" => rc'[q] = "none" /\ inbox'[q] = inbox[q]
                           /\ rc[q] # "none" => rc'[q] # "none"
      BY <1>0, <2>1
    <2>3. \A q \in Phone : rc'[q] = "open" =>
            rc[q] = "open" /\ channels'[at[q]][chan[q]] = channels[at[q]][chan[q]]
      BY <2>1
    <2> QED
      BY <2>1, <2>2, <2>3, ServiceFinishes
  <1> QED
    BY <1>2, <1>3, <1>4, <1>5, <1>6, <1>7, <1>8, <1>9, <1>10, <1>11, <1>12, <1>14, <1>15,
       <1>16, <1>17, <1>18, <1>19
    DEF Next, Handler, Mux, PhoneHandler, PhoneReadFails, Environment

-----------------------------------------------------------------------------
(* The pipes: every step keeps what is said of the queues. *)

\* What relay and bridge send are frames.
LEMMA FramesSentFit ==
  ASSUME TypeOK
  PROVE  /\ Frame("attached", 0, NoPhone, 0) \in Frames
         /\ \A x \in Phone : /\ Frame("open", chan[x], x, 0) \in Frames
                             /\ Frame("data", chan[x], x, up[x] + 1) \in Frames
                             /\ Frame("data", chan[x], x, down[x] + 1) \in Frames
                             /\ Frame("close", chan[x], x, 0) \in Frames
  <1>1. Frame("attached", 0, NoPhone, 0) \in Frames
    BY FrameFields
  <1>2. ASSUME NEW x \in Phone
        PROVE  chan[x] \in 0..MaxCh /\ up[x] + 1 \in Nat /\ down[x] + 1 \in Nat /\ 0 \in Nat
    BY DEF TypeOK, PhoneTypes, DataTypes
  <1> QED
    BY <1>1, <1>2, FrameFields

\* Frames on their way to the relay are of phones that have a link.
LEMMA RelayBelongsStep ==
  ASSUME TypeOK, FramesBelong, Service, RelayBelongs, [Next]_vars
  PROVE  RelayBelongs'
  <1> DEFINE Here(f, b) == f.p \in Phone /\ at[f.p] = b /\ chan[f.p] = f.c /\ f.c \in Channel
                           /\ link[f.p] # "none"
  <1>1. ASSUME NEW p \in Phone, link[p] # "none"
        PROVE  /\ link'[p] # "none" /\ at'[p] = at[p] /\ chan'[p] = chan[p]
               /\ at[p] \in Att /\ chan[p] \in Channel
    <2>1. Served(p)
      BY <1>1 DEF Service
    <2>2. at'[p] = at[p] /\ chan'[p] = chan[p]
      BY <2>1, NumbersStay DEF NumbersKept, Served, Numbered, TypeOK
    <2>3. LinkMoves(p)
      BY LinkMovesStep
    <2> QED
      BY <1>1, <2>1, <2>2, <2>3 DEF LinkMoves, Served
  <1>2. ASSUME NEW b \in Att, NEW i \in 1..Len(toRelay'[b]) PROVE Here(toRelay'[b][i], b)
    <2> DEFINE q == toRelay[b]
    <2>1. q \in Seq(Frames) /\ \A k \in 1..Len(q) : Here(q[k], b)
      BY DEF RelayBelongs, FramesBelong, TypeOK, SockTypes
    <2>2. ASSUME NEW p \in Phone, at[p] = b, link[p] # "none",
                 NEW t \in {"data", "close"}, NEW n \in Nat,
                 toRelay'[b] = Append(q, Frame(t, chan[p], p, n))
          PROVE  Here(toRelay'[b][i], b)
      <3>1. chan[p] \in Channel /\ chan[p] \in 0..MaxCh
        BY <1>1, <2>2 DEF TypeOK, PhoneTypes
      <3>2. /\ Frame(t, chan[p], p, n) \in Frames
            /\ Frame(t, chan[p], p, n).c = chan[p] /\ Frame(t, chan[p], p, n).p = p
        BY <3>1, FrameFields
      <3>3. Here(Frame(t, chan[p], p, n), b)
        BY <2>2, <3>1, <3>2
      <3> HIDE DEF Here, q
      <3> QED
        BY <1>2, <2>1, <2>2, <3>2, <3>3, Appended
    <2>3. CASE toRelay'[b] = q
      BY <1>2, <2>1, <2>3
    <2>4. CASE toRelay'[b] = <<>>
      BY <1>2, <2>4
    <2>5. CASE q # <<>> /\ toRelay'[b] = Tail(q)
      <3> HIDE DEF Here, q
      <3> QED
        BY <1>2, <2>1, <2>5, Taken
    <2>6. ASSUME NEW p \in Phone, at[p] = b, LinkWrite(p),
                 toRelay'[b] = Append(q, Frame("data", chan[p], p, down[p] + 1))
          PROVE  Here(toRelay'[b][i], b)
      <3>1. link[p] # "none" /\ down[p] + 1 \in Nat
        BY <2>6 DEF LinkWrite, TypeOK, DataTypes
      <3> QED
        BY <2>2, <2>6, <3>1
    <2>7. ASSUME NEW p \in Phone, at[p] = b, SendClose(p),
                 toRelay'[b] = Append(q, Frame("close", chan[p], p, 0))
          PROVE  Here(toRelay'[b][i], b)
      <3>1. link[p] # "none"
        BY <2>7 DEF SendClose, Service, NotServed
      <3> QED
        BY <2>2, <2>7, <3>1
    <2>8. ToRelayMoves(b)
      BY ToRelayStep
    <2> HIDE DEF Here
    <2> QED
      BY <2>3, <2>4, <2>5, <2>6, <2>7, <2>8 DEF ToRelayMoves
  <1> QED
    BY <1>1, <1>2 DEF RelayBelongs

\* The open frame of a phone is read once, and then the phone has its link.
LEMMA OpenIsRead ==
  ASSUME TypeOK, FramesBelong, Opens, [Next]_vars, NEW b \in Att, NEW p \in Phone
  PROVE  /\ \A i \in 1..Len(toBridge[b]) :
              IsOpen(toBridge[b][i], p) /\ link'[p] # "none" =>
                i = 1 /\ toBridge'[b] = Tail(toBridge[b])
         /\ toBridge[b] # <<>> /\ IsOpen(Arrived(b), p)
            /\ (MuxRead(b) \/ (ReadAck(b) /\ Arrived(b).t = "attached")) => link'[p] # "none"
         /\ link'[p] = "none" => link[p] = "none"
         /\ link[p] = "none" /\ link'[p] # "none" =>
              \E a \in Att : 1 \in 1..Len(toBridge[a]) /\ IsOpen(toBridge[a][1], p)
  <1>0. link \in [Phone -> {"none", "run", "ended"}] /\ LinkMoves(p)
    BY LinkMovesStep DEF TypeOK, BridgeTypes
  <1>1. ASSUME NEW a \in Att, MuxRead(a), MuxOpen(a), Arrived(a).p = p
        PROVE  /\ 1 \in 1..Len(toBridge[a]) /\ toBridge[a][1] = Arrived(a)
               /\ IsOpen(toBridge[a][1], p) /\ at[p] = a
    <2>1. 1 \in 1..Len(toBridge[a]) /\ toBridge[a][1] = Arrived(a)
      BY <1>1, Taken DEF MuxRead, Arrived, TypeOK, SockTypes
    <2>2. Arrived(a).t = "open" /\ at[p] = a
      BY <1>1, ArrivedBelongs DEF MuxOpen, MuxRead, Belongs
    <2> QED
      BY <1>1, <2>1, <2>2 DEF IsOpen
  <1>2. ASSUME NEW i \in 1..Len(toBridge[b]), IsOpen(toBridge[b][i], p), link'[p] # "none"
        PROVE  i = 1 /\ toBridge'[b] = Tail(toBridge[b])
    <2>1. link[p] = "none" /\ \A j \in 1..(i - 1) : toBridge[b][j].p # p
      BY <1>2 DEF Opens, IsOpen
    <2>2. at[p] = b
      BY <1>2 DEF FramesBelong, Belongs, IsOpen
    <2>3. PICK a \in Att : MuxRead(a) /\ MuxOpen(a) /\ Arrived(a).p = p
                           /\ toBridge'[a] = Tail(toBridge[a])
      BY <1>0, <1>2, <2>1 DEF LinkMoves
    <2>4. a = b /\ toBridge[b][1].p = p
      BY <1>1, <2>2, <2>3 DEF IsOpen
    <2>5. i = 1
      <3>1. SUFFICES ASSUME i # 1 PROVE FALSE
        OBVIOUS
      <3>2. 1 \in 1..(i - 1)
        BY <3>1
      <3> QED
        BY <2>1, <2>4, <3>2
    <2> QED
      BY <2>3, <2>4, <2>5
  <1>3. ASSUME IsOpen(Arrived(b), p), MuxRead(b) PROVE link'[p] # "none"
    <2>1. MuxOpen(b)
      BY <1>3 DEF IsOpen, MuxRead, MuxRemoteClosed, MuxDeliver
    <2> QED
      BY <1>0, <1>3, <2>1 DEF IsOpen, MuxOpen
  <1>4. ASSUME link'[p] = "none" PROVE link[p] = "none"
    BY <1>0, <1>4 DEF LinkMoves
  <1>5. ASSUME link[p] = "none", link'[p] # "none"
        PROVE  \E a \in Att : 1 \in 1..Len(toBridge[a]) /\ IsOpen(toBridge[a][1], p)
    BY <1>0, <1>1, <1>5 DEF LinkMoves
  <1> QED
    BY <1>2, <1>3, <1>4, <1>5 DEF IsOpen

\* A phone in its loop has a link, or its open frame is under way.
LEMMA OpenIsComingStep ==
  ASSUME TypeOK, Placed, FramesBelong, PhonesAgree, Service, Started, Opens, OpenIsComing,
         [Next]_vars
  PROVE  OpenIsComing'
  <1> SUFFICES ASSUME NEW p \in Phone, stage'[p] = "loop", link'[p] = "none",
                      mux'[at'[p]] # "gone"
               PROVE  \E i \in 1..Len(toBridge'[at'[p]]) : IsOpen(toBridge'[at'[p]][i], p)
    BY DEF OpenIsComing
  <1>1. PhoneMoves(p) /\ NumbersKept
    BY PhoneMovesStep, NumbersStay DEF TypeOK
  <1>2. CASE stage[p] = "loop"
    <2>1. at[p] \in Att /\ at'[p] = at[p]
      BY <1>1, <1>2 DEF Placed, NumbersKept, Numbered
    <2>2. mux[at[p]] # "gone" /\ link[p] = "none"
      BY <2>1, GoneStays, OpenIsRead
    <2> DEFINE q == toBridge[at[p]]
    <2>3. PICK i \in 1..Len(q) : IsOpen(q[i], p)
      BY <1>2, <2>2 DEF OpenIsComing
    <2>4. q \in Seq(Frames)
      BY <2>1 DEF TypeOK, SockTypes
    <2>5. CASE toBridge'[at[p]] = q
      BY <2>1, <2>3, <2>5
    <2>6. CASE /\ q # <<>> /\ toBridge'[at[p]] = Tail(q)
               /\ MuxRead(at[p]) \/ (ReadAck(at[p]) /\ Arrived(at[p]).t = "attached")
      <3>1. i # 1
        BY <2>1, <2>3, <2>6, <2>4, OpenIsRead, Taken DEF Arrived
      <3>2. i - 1 \in 1..Len(Tail(q)) /\ Tail(q)[i - 1] = q[i]
        BY <2>4, <2>6, <3>1, Taken
      <3> QED
        BY <2>1, <2>3, <2>6, <3>2
    <2>7. ASSUME NEW f \in Frames, toBridge'[at[p]] = Append(q, f)
          PROVE  \E k \in 1..Len(toBridge'[at'[p]]) : IsOpen(toBridge'[at'[p]][k], p)
      <3>1. i \in 1..Len(Append(q, f)) /\ Append(q, f)[i] = q[i]
        BY <2>4, Appended
      <3> QED
        BY <2>1, <2>3, <2>7, <3>1
    <2>8. /\ Frame("attached", 0, NoPhone, 0) \in Frames
          /\ \A x \in Phone : /\ Frame("open", chan[x], x, 0) \in Frames
                              /\ Frame("data", chan[x], x, up[x] + 1) \in Frames
                              /\ Frame("close", chan[x], x, 0) \in Frames
      BY FramesSentFit
    <2>9. ToBridgeMoves(at[p])
      BY <2>1, ToBridgeStep
    <2> HIDE DEF q
    <2> QED
      BY <2>1, <2>5, <2>6, <2>7, <2>8, <2>9 DEF ToBridgeMoves, q
  <1>3. CASE stage[p] # "loop"
    <2>1. Announce(p) /\ at[p] \in Att /\ at' = at
      BY <1>1, <1>3 DEF PhoneMoves, Announce
    <2>2. toBridge'[at[p]] = Append(toBridge[at[p]], Frame("open", chan[p], p, 0))
      BY <1>1, <1>3, <2>1 DEF PhoneMoves
    <2>3. Frame("open", chan[p], p, 0) \in Frames /\ IsOpen(Frame("open", chan[p], p, 0), p)
      BY FrameFields DEF IsOpen, TypeOK, PhoneTypes
    <2>4. toBridge[at[p]] \in Seq(Frames)
      BY <2>1 DEF TypeOK, SockTypes
    <2> QED
      BY <2>1, <2>2, <2>3, <2>4, Appended
  <1> QED
    BY <1>2, <1>3

\* A phone's open frame comes once and first, and its close frame after it has left.
LEMMA OpensStep ==
  ASSUME TypeOK, Placed, FramesBelong, PhonesAgree, Service, Opens, OpenIsComing, [Next]_vars
  PROVE  Opens'
  <1> DEFINE Fit(q, i) ==
        /\ q[i].t = "attached" => q[i].p = NoPhone
        /\ q[i].t # "attached" => stage'[q[i].p] \in Announced
        /\ q[i].t = "open" => link'[q[i].p] = "none" /\ \A j \in 1..(i - 1) : q[j].p # q[i].p
        /\ q[i].t = "data" /\ link'[q[i].p] = "none" =>
             \E j \in 1..(i - 1) : IsOpen(q[j], q[i].p)
        /\ q[i].t = "close" => stage'[q[i].p] = "done"
  <1> SUFFICES ASSUME NEW b \in Att, NEW i \in 1..Len(toBridge'[b])
               PROVE  Fit(toBridge'[b], i)
    BY DEF Opens, Announced
  <1> DEFINE q == toBridge[b]
  <1>0. q \in Seq(Frames) /\ Len(q) \in Nat /\ stage \in [Phone -> PhoneStage]
    BY DEF TypeOK, SockTypes, PhoneTypes
  <1>1. \A k \in 1..Len(q) : q[k].t # "attached" => q[k].p \in Phone /\ at[q[k].p] = b
    BY DEF FramesBelong, Belongs
  <1>2. \A p \in Phone : PhoneMoves(p)
    BY PhoneMovesStep
  <1>3. \A k \in 1..Len(q) : q[k].t # "attached" =>
          stage[q[k].p] \in Announced /\ stage'[q[k].p] \in Announced
    BY <1>1, <1>2 DEF Opens, PhoneMoves, Announced
  <1>16. NoPhone \notin Phone /\ \A k \in 1..Len(q) : q[k].t = "attached" => q[k].p = NoPhone
    BY DEF Opens
  <1>4. \A k \in 1..Len(q) : q[k].t = "close" => stage'[q[k].p] = "done"
    BY <1>1, <1>2 DEF Opens, PhoneMoves
  <1>5. ASSUME NEW k \in 1..Len(q), q[k].t = "open"
        PROVE  /\ \A j \in 1..(k - 1) : q[j].p # q[k].p
               /\ link'[q[k].p] = "none" \/ (k = 1 /\ toBridge'[b] = Tail(q))
    BY <1>1, <1>5, OpenIsRead DEF Opens, IsOpen
  <1>6. ASSUME NEW k \in 1..Len(q), q[k].t = "data", link'[q[k].p] = "none"
        PROVE  \E j \in 1..(k - 1) : IsOpen(q[j], q[k].p)
    <2>1. link[q[k].p] = "none"
      BY <1>1, <1>6, OpenIsRead
    <2> QED
      BY <1>6, <2>1 DEF Opens
  <1>7. CASE toBridge'[b] = q
    <2>1. ~(toBridge'[b] = Tail(q)) \/ q = <<>>
      <3>1. q # <<>> => Len(Tail(q)) = Len(q) - 1
        BY <1>0, Taken
      <3> HIDE DEF q
      <3> QED
        BY <1>0, <1>7, <3>1
    <2>2. i \in 1..Len(q) /\ q # <<>>
      BY <1>0, <1>7
    <2> HIDE DEF q
    <2> QED
      BY <1>3, <1>4, <1>5, <1>6, <1>7, <1>16, <2>1, <2>2
  <1>8. CASE toBridge'[b] = <<>>
    BY <1>8
  <1>9. CASE /\ q # <<>> /\ toBridge'[b] = Tail(q)
             /\ MuxRead(b) \/ (ReadAck(b) /\ Arrived(b).t = "attached")
    <2> DEFINE r == Tail(q)
    <2>1. /\ i \in 1..Len(r) /\ i \in Nat /\ i + 1 \in 1..Len(q) /\ r[i] = q[i + 1] /\ Head(q) = q[1]
          /\ \A j \in 1..(i - 1) : j + 1 \in 1..i /\ r[j] = q[j + 1]
          /\ \A j \in 1..i : j = 1 \/ (j - 1 \in 1..(i - 1) /\ r[j - 1] = q[j])
      <3>1. i \in 1..Len(r)
        BY <1>9
      <3>2. /\ \A j \in 1..Len(r) : j + 1 \in 1..Len(q) /\ r[j] = q[j + 1]
            /\ \A j \in 1..Len(q) : j = 1 \/ (j - 1 \in 1..Len(r) /\ r[j - 1] = q[j])
            /\ Len(r) \in Nat /\ Head(q) = q[1]
        BY <1>0, <1>9, Taken
      <3> HIDE DEF q, r
      <3>3. i \in Nat /\ i + 1 \in 1..Len(q) /\ r[i] = q[i + 1] /\ i <= Len(q)
        BY <1>0, <3>1, <3>2
      <3>4. \A j \in 1..(i - 1) : j + 1 \in 1..i /\ r[j] = q[j + 1]
        <4> SUFFICES ASSUME NEW j \in 1..(i - 1) PROVE j + 1 \in 1..i /\ r[j] = q[j + 1]
          OBVIOUS
        <4>1. j \in 1..Len(r) /\ j + 1 \in 1..i
          BY <3>1, <3>2, <3>3
        <4> QED
          BY <3>2, <4>1
      <3>5. \A j \in 1..i : j = 1 \/ (j - 1 \in 1..(i - 1) /\ r[j - 1] = q[j])
        <4> SUFFICES ASSUME NEW j \in 1..i, j # 1
                     PROVE  j - 1 \in 1..(i - 1) /\ r[j - 1] = q[j]
          OBVIOUS
        <4>1. j \in 1..Len(q) /\ j - 1 \in 1..(i - 1)
          BY <1>0, <3>3
        <4> QED
          BY <3>2, <4>1
      <3> QED
        BY <3>1, <3>2, <3>3, <3>4, <3>5
    <2> DEFINE f == q[i + 1]
    <2>2. f.t = "open" => link'[f.p] = "none" /\ \A j \in 1..(i - 1) : r[j].p # f.p
      <3> HIDE DEF q, r
      <3> SUFFICES ASSUME f.t = "open"
                   PROVE  link'[f.p] = "none" /\ \A j \in 1..(i - 1) : r[j].p # f.p
        OBVIOUS
      <3>1. /\ \A j \in 1..((i + 1) - 1) : q[j].p # f.p
            /\ link'[f.p] = "none" \/ i + 1 = 1
        BY <1>5, <2>1
      <3>2. /\ (i + 1) - 1 = i /\ i + 1 # 1
            /\ \A j \in 1..(i - 1) : j + 1 \in 1..i /\ r[j] = q[j + 1]
        BY <2>1
      <3>3. \A j \in 1..i : q[j].p # f.p
        BY <3>1, <3>2
      <3> QED
        BY <3>1, <3>2, <3>3
    <2>3. ASSUME f.t = "data", link'[f.p] = "none"
          PROVE  \E j \in 1..(i - 1) : IsOpen(r[j], f.p)
      <3>1. PICK j \in 1..i : IsOpen(q[j], f.p)
        BY <1>6, <2>1, <2>3
      <3>2. j # 1
        BY <1>1, <1>9, <2>1, <2>3, <3>1, OpenIsRead DEF Arrived
      <3> HIDE DEF q, r
      <3> QED
        BY <2>1, <3>1, <3>2
    <2>4. f.t # "attached" => stage'[f.p] \in Announced
      BY <1>3, <2>1
    <2>5. f.t = "close" => stage'[f.p] = "done"
      BY <1>4, <2>1
    <2> HIDE DEF r, q
    <2>6. Fit(r, i)
      BY <1>16, <2>1, <2>2, <2>3, <2>4, <2>5
    <2> QED
      BY <1>9, <2>6 DEF r
  <1>10. ASSUME NEW f \in Frames, toBridge'[b] = Append(q, f),
                /\ f.t = "attached" => f.p = NoPhone
                /\ f.t # "attached" => stage'[f.p] \in Announced
                /\ f.t = "open" => link'[f.p] = "none" /\ \A j \in 1..Len(q) : q[j].p # f.p
                /\ f.t = "data" /\ link'[f.p] = "none" => \E j \in 1..Len(q) : IsOpen(q[j], f.p)
                /\ f.t = "close" => stage'[f.p] = "done"
         PROVE  Fit(toBridge'[b], i)
    <2> DEFINE r == Append(q, f)
    <2>1. /\ \A j \in 1..Len(q) : r[j] = q[j]
          /\ r[Len(q) + 1] = f /\ i \in 1..(Len(q) + 1) /\ Len(r) = Len(q) + 1
      BY <1>0, <1>10, Appended
    <2>2. q # <<>> => Len(Tail(q)) = Len(q) - 1
      BY <1>0
    <2>3. q # <<>> => r # Tail(q)
      BY <1>0, <2>1, <2>2
    <2> HIDE DEF r
    <2>4. CASE i \in 1..Len(q)
      <3>1. q # <<>> /\ \A j \in 1..(i - 1) : r[j] = q[j]
        <4>1. Len(q) # 0 /\ \A j \in 1..(i - 1) : j \in 1..Len(q)
          BY <1>0, <2>4
        <4> QED
          BY <2>1, <4>1
      <3>2. r[i] = q[i] /\ toBridge'[b] = r /\ toBridge'[b] # Tail(q)
        BY <1>10, <2>1, <2>3, <2>4, <3>1 DEF r
      <3> HIDE DEF q
      <3>3. Fit(r, i)
        BY <1>3, <1>4, <1>5, <1>6, <1>16, <2>4, <3>1, <3>2
      <3> QED
        BY <3>2, <3>3
    <2>5. CASE i = Len(q) + 1
      <3>1. i - 1 = Len(q) /\ r[i] = f /\ \A j \in 1..Len(q) : r[j] = q[j]
        BY <1>0, <2>1, <2>5
      <3> HIDE DEF q
      <3>2. Fit(r, i)
        BY <1>10, <3>1
      <3> QED
        BY <1>10, <3>2 DEF r
    <2> QED
      BY <1>0, <2>1, <2>4, <2>5
  <1>11. CASE toBridge'[b] = Append(q, Frame("attached", 0, NoPhone, 0))
    <2>1. Frame("attached", 0, NoPhone, 0) \in Frames
          /\ Frame("attached", 0, NoPhone, 0).t = "attached"
          /\ Frame("attached", 0, NoPhone, 0).p = NoPhone
      BY FramesSentFit DEF Frame
    <2> HIDE DEF Fit, q
    <2> QED
      BY <1>10, <1>11, <2>1
  <1>12. ASSUME NEW p \in Phone, at[p] = b, Announce(p), stage'[p] = "loop",
                toBridge'[b] = Append(q, Frame("open", chan[p], p, 0))
         PROVE  Fit(toBridge'[b], i)
    <2> DEFINE f == Frame("open", chan[p], p, 0)
    <2>1. f \in Frames /\ f.t = "open" /\ f.p = p
      BY FramesSentFit DEF Frame
    <2>2. stage[p] = "announce" /\ link' = link
      BY <1>12 DEF Announce, bridgeVars
    <2>3. link'[p] = "none"
      BY <2>2 DEF Service, Served
    <2>4. \A j \in 1..Len(q) : q[j].p # p
      <3> SUFFICES ASSUME NEW j \in 1..Len(q), q[j].p = p PROVE FALSE
        OBVIOUS
      <3>1. q[j].t = "attached"
        BY <1>3, <2>2 DEF Announced
      <3> QED
        BY <1>16, <3>1
    <2> HIDE DEF Fit, q, f
    <2> QED
      BY <1>10, <1>12, <2>1, <2>3, <2>4 DEF Announced, f
  <1>13. ASSUME NEW p \in Phone, at[p] = b, PhoneData(p),
                toBridge'[b] = Append(q, Frame("data", chan[p], p, up[p] + 1))
         PROVE  Fit(toBridge'[b], i)
    <2> DEFINE f == Frame("data", chan[p], p, up[p] + 1)
    <2>1. f \in Frames /\ f.t = "data" /\ f.p = p
      BY FramesSentFit DEF Frame
    <2>2. stage[p] = "loop" /\ stage' = stage /\ link' = link /\ SendToBridge(b, f)
      BY <1>13 DEF PhoneData, phoneVars, bridgeVars
    <2>3. mux[b] # "gone"
      <3>1. Append(q, f) # q
        BY <1>0, <2>1, Appended
      <3> QED
        BY <1>13, <2>2, <3>1 DEF SendToBridge
    <2>4. link'[p] = "none" => \E j \in 1..Len(q) : IsOpen(q[j], p)
      BY <1>13, <2>2, <2>3 DEF OpenIsComing
    <2> HIDE DEF Fit, q, f
    <2> QED
      BY <1>10, <1>13, <2>1, <2>2, <2>4 DEF Announced, f
  <1>14. ASSUME NEW p \in Phone, at[p] = b, Tell(p),
                toBridge'[b] = Append(q, Frame("close", chan[p], p, 0))
         PROVE  Fit(toBridge'[b], i)
    <2> DEFINE f == Frame("close", chan[p], p, 0)
    <2>1. f \in Frames /\ f.t = "close" /\ f.p = p
      BY FramesSentFit DEF Frame
    <2>2. stage'[p] = "done"
      BY <1>0, <1>14 DEF Tell
    <2> HIDE DEF Fit, q, f
    <2> QED
      BY <1>10, <1>14, <2>1, <2>2 DEF Announced, f
  <1>15. ToBridgeMoves(b)
    BY ToBridgeStep
  <1> HIDE DEF Fit
  <1> QED
    BY <1>7, <1>8, <1>9, <1>11, <1>12, <1>13, <1>14, <1>15 DEF ToBridgeMoves

\* A phone that has left is closed, or no open frame of it is under way.
LEMMA LeftIsClosedStep ==
  ASSUME TypeOK, Placed, FramesBelong, PhonesAgree, Service, Opens, LeftIsClosed, [Next]_vars
  PROVE  LeftIsClosed'
  <1> SUFFICES ASSUME NEW p \in Phone, stage'[p] \in {"leave", "tell", "done"},
                      ws'[p] # "closed"
               PROVE  /\ link'[p] = "none"
                      /\ \A a \in Att : \A i \in 1..Len(toBridge'[a]) : ~IsOpen(toBridge'[a][i], p)
    BY DEF LeftIsClosed
  <1>1. PhoneMoves(p) /\ link \in [Phone -> {"none", "run", "ended"}]
    BY PhoneMovesStep DEF TypeOK, BridgeTypes
  <1>2. /\ link[p] = "none"
        /\ \A a \in Att : \A i \in 1..Len(toBridge[a]) : ~IsOpen(toBridge[a][i], p)
    <2>1. CASE stage[p] \in {"leave", "tell", "done"}
      BY <1>1, <2>1 DEF PhoneMoves, LeftIsClosed
    <2>2. CASE stage[p] = "announce"
      <3>1. link[p] = "none"
        BY <2>2 DEF Service, Served
      <3>2. \A a \in Att : \A i \in 1..Len(toBridge[a]) : ~IsOpen(toBridge[a][i], p)
        BY <2>2 DEF Opens, IsOpen
      <3> QED
        BY <3>1, <3>2
    <2> QED
      BY <1>1, <2>1, <2>2 DEF PhoneMoves
  <1>3. link'[p] = "none"
    <2>1. CASE Att = {}
      BY <1>2, <2>1, LinkMovesStep DEF LinkMoves
    <2>2. CASE Att # {}
      BY <1>2, <2>2, OpenIsRead
    <2> QED
      BY <2>1, <2>2
  <1>4. ASSUME NEW a \in Att, NEW i \in 1..Len(toBridge'[a]) PROVE ~IsOpen(toBridge'[a][i], p)
    <2> DEFINE q == toBridge[a]
    <2>0. q \in Seq(Frames) /\ \A k \in 1..Len(q) : ~IsOpen(q[k], p)
      BY <1>2 DEF TypeOK, SockTypes
    <2>1. CASE toBridge'[a] = q
      BY <1>4, <2>0, <2>1
    <2>2. CASE toBridge'[a] = <<>>
      BY <1>4, <2>2
    <2>3. CASE q # <<>> /\ toBridge'[a] = Tail(q)
      <3> HIDE DEF q
      <3> QED
        BY <1>4, <2>0, <2>3, Taken
    <2>4. ASSUME NEW f \in Frames, toBridge'[a] = Append(q, f), ~IsOpen(f, p)
          PROVE  ~IsOpen(toBridge'[a][i], p)
      <3> HIDE DEF q
      <3> QED
        BY <1>4, <2>0, <2>4, Appended
    <2>5. ASSUME NEW x \in Phone, Announce(x), stage'[x] = "loop" PROVE x # p
      BY <2>5
    <2>6. /\ ~IsOpen(Frame("attached", 0, NoPhone, 0), p)
          /\ \A x \in Phone : /\ x # p => ~IsOpen(Frame("open", chan[x], x, 0), p)
                              /\ ~IsOpen(Frame("data", chan[x], x, up[x] + 1), p)
                              /\ ~IsOpen(Frame("close", chan[x], x, 0), p)
      BY DEF IsOpen, Frame
    <2>7. ToBridgeMoves(a)
      BY ToBridgeStep
    <2> HIDE DEF q
    <2> QED
      BY <2>1, <2>2, <2>3, <2>4, <2>5, <2>6, <2>7, FramesSentFit DEF ToBridgeMoves, q
  <1> QED
    BY <1>3, <1>4

-----------------------------------------------------------------------------
(* The pipes: every step keeps what a phone sends in order. *)

\* A phone whose data is where it was, but for a frame that is not data of its own.
LEMMA UpSame ==
  ASSUME TypeOK, NEW p \in Phone, UpPipe(p),
         gotUp'[p] = gotUp[p], inbox'[p] = inbox[p], up'[p] = up[p], at'[p] = at[p],
         at[p] \in Att /\ mux'[at[p]] # "gone" /\ rc'[p] \in {"none", "open"} =>
           /\ mux[at[p]] # "gone" /\ rc[p] \in {"none", "open"}
           /\ \/ toBridge'[at[p]] = toBridge[at[p]]
              \/ /\ toBridge[at[p]] # <<>> /\ toBridge'[at[p]] = Tail(toBridge[at[p]])
                 /\ ~IsData(Head(toBridge[at[p]]), p)
              \/ \E f \in Frames : /\ toBridge'[at[p]] = Append(toBridge[at[p]], f)
                                   /\ ~IsData(f, p)
  PROVE  UpPipe(p)'
  <1> DEFINE m == Len(gotUp[p]) + Len(inbox[p])
             q == toBridge[at[p]]
  <1>1. m \in Nat /\ up[p] \in Nat
    BY DEF TypeOK, BridgeTypes, DataTypes
  <1>2. ASSUME at[p] \in Att, mux'[at[p]] # "gone", rc'[p] \in {"none", "open"}
        PROVE  Continues(toBridge'[at[p]], p, m, up[p])
    <2>1. q \in Seq(Frames) /\ Continues(q, p, m, up[p])
      BY <1>2 DEF UpPipe, TypeOK, SockTypes
    <2> HIDE DEF m
    <2>2. CASE toBridge'[at[p]] = q
      BY <2>1, <2>2
    <2>3. CASE q # <<>> /\ toBridge'[at[p]] = Tail(q) /\ ~IsData(Head(q), p)
      BY <1>1, <2>1, <2>3, ContinuesTail
    <2>4. ASSUME NEW f \in Frames, toBridge'[at[p]] = Append(q, f), ~IsData(f, p)
          PROVE  Continues(toBridge'[at[p]], p, m, up[p])
      BY <1>1, <2>1, <2>4, ContinuesAppend
    <2> QED
      BY <1>2, <2>2, <2>3, <2>4
  <1>3. /\ m <= up[p]
        /\ \A i \in 1..Len(inbox[p]) : inbox[p][i] = <<p, Len(gotUp[p]) + i>>
    BY DEF UpPipe
  <1>4. at'[p] \in Att /\ mux'[at'[p]] # "gone" /\ rc'[p] \in {"none", "open"} =>
          Continues(toBridge'[at'[p]], p, Len(gotUp'[p]) + Len(inbox'[p]), up'[p])
    BY <1>2
  <1>5. /\ Len(gotUp'[p]) + Len(inbox'[p]) <= up'[p]
        /\ \A i \in 1..Len(inbox'[p]) : inbox'[p][i] = <<p, Len(gotUp'[p]) + i>>
    BY <1>3
  <1> QED
    BY <1>4, <1>5 DEF UpPipe

\* The read loop takes the frames of a phone as they come.
LEMMA UpMuxRead ==
  ASSUME TypeOK, FramesBelong, ChannelsAgree, NumbersAreOwn, Service, Opens,
         NEW p \in Phone, UpPipe(p), NEW a \in Att, MuxRead(a)
  PROVE  UpPipe(p)'
  <1> DEFINE f == Arrived(a)
             o == channels[a][f.c]
  <1>0. /\ channels \in [Att -> [Channel -> Phone \cup {NoPhone}]]
        /\ rc \in [Phone -> {"none", "open", "closing", "done"}]
        /\ inbox \in [Phone -> Seq(Message)] /\ gotUp \in [Phone -> Seq(Message)]
        /\ toBridge \in [Att -> Seq(Frames)] /\ up \in [Phone -> Nat]
        /\ UNCHANGED <<gotUp, up, at, mux>>
        /\ toBridge[a] # <<>> /\ toBridge' = [toBridge EXCEPT ![a] = Tail(@)]
    BY DEF TypeOK, BridgeTypes, SockTypes, DataTypes, MuxRead, dataVars, phoneVars
  <1>1. f = Head(toBridge[a]) /\ 1 \in 1..Len(toBridge[a]) /\ f = toBridge[a][1]
    BY <1>0, Taken DEF Arrived
  <1>2. f.t # "attached" =>
          f.p \in Phone /\ f.c \in Channel /\ at[f.p] = a /\ chan[f.p] = f.c
    BY <1>0, ArrivedBelongs DEF Belongs
  <1>3. f.t # "attached" /\ o # NoPhone => o = f.p /\ rc[o] = "open"
    BY <1>0, <1>2, ArrivedIsOwn DEF ChannelsAgree
  <1>4. toBridge'[a] = Tail(toBridge[a]) /\ \A b \in Att \ {a} : toBridge'[b] = toBridge[b]
    BY <1>0
  <1>5. ASSUME inbox'[p] = inbox[p],
               rc'[p] \in {"none", "open"} /\ at[p] \in Att => rc[p] \in {"none", "open"},
               rc'[p] \in {"none", "open"} /\ at[p] = a => ~IsData(f, p)
        PROVE  UpPipe(p)'
    <2> HIDE DEF f, o
    <2> QED
      BY <1>0, <1>1, <1>4, <1>5, UpSame
  <1>6. CASE MuxOpen(a)
    <2>1. f.t = "open" /\ ~IsData(f, p) /\ inbox' = inbox
      BY <1>6 DEF MuxOpen, IsData
    <2>2. link[f.p] = "none"
      BY <1>1, <2>1 DEF Opens
    <2>3. rc[f.p] = "none"
      BY <1>2, <2>1, <2>2 DEF Service, NotServed
    <2>4. rc'[p] \in {"none", "open"} => rc[p] \in {"none", "open"}
      BY <1>0, <1>6, <2>3 DEF MuxOpen
    <2> QED
      BY <1>5, <2>1, <2>4
  <1>7. CASE MuxRemoteClosed(a)
    <2>1. f.t = "close" /\ ~IsData(f, p) /\ inbox' = inbox
      BY <1>7 DEF MuxRemoteClosed, IsData
    <2>2. rc'[p] \in {"none", "open"} => rc[p] \in {"none", "open"}
      BY <1>0, <1>7 DEF MuxRemoteClosed
    <2> QED
      BY <1>5, <2>1, <2>2
  <1>8. CASE MuxDeliver(a)
    <2>1. f.t = "data" /\ f.p \in Phone /\ f.c \in Channel /\ at[f.p] = a /\ chan[f.p] = f.c
      BY <1>2, <1>8 DEF MuxDeliver
    <2>2. CASE o = NoPhone
      <3>1. inbox' = inbox /\ rc' = rc
        BY <1>8, <2>2 DEF MuxDeliver
      <3>2. ASSUME IsData(f, p) PROVE rc[p] \notin {"none", "open"}
        <4>1. f.p = p
          BY <3>2 DEF IsData
        <4>2. rc[p] # "open"
          BY <2>1, <2>2, <4>1 DEF Service, Served, NotServed
        <4>3. link[p] # "none"
          <5>1. ~ \E j \in 1..(1 - 1) : IsOpen(toBridge[a][j], f.p)
            OBVIOUS
          <5> QED
            BY <1>1, <2>1, <4>1, <5>1 DEF Opens
        <4>4. rc[p] # "none"
          BY <4>3 DEF Service, Served
        <4> QED
          BY <4>2, <4>4
      <3> HIDE DEF f
      <3> QED
        BY <1>5, <3>1, <3>2
    <2>3. CASE o # NoPhone /\ o # p
      <3>1. ~IsData(f, p)
        BY <1>3, <2>1, <2>3 DEF IsData
      <3>2. inbox'[p] = inbox[p] /\ rc'[p] = rc[p]
        BY <1>0, <1>8, <2>1, <2>3 DEF MuxDeliver
      <3> QED
        BY <1>5, <3>1, <3>2
    <2>4. CASE o = p
      <3> DEFINE m == Len(gotUp[p]) + Len(inbox[p])
                 q == toBridge[a]
      <3>0. m \in Nat /\ up[p] \in Nat /\ Len(gotUp[p]) \in Nat /\ Len(inbox[p]) \in Nat
        BY <1>0
      <3>1. f.p = p /\ rc[p] = "open" /\ IsData(f, p) /\ at[p] = a /\ mux[a] # "gone"
        BY <1>3, <2>1, <2>4 DEF IsData, MuxRead
      <3>2. Continues(q, p, m, up[p]) /\ m <= up[p]
            /\ \A i \in 1..Len(inbox[p]) : inbox[p][i] = <<p, Len(gotUp[p]) + i>>
        BY <3>1 DEF UpPipe
      <3>3. f.n = m + 1 /\ m + 1 <= up[p] /\ Continues(Tail(q), p, m + 1, up[p])
        <4> HIDE DEF m, q
        <4>1. q \in Seq(Frames) /\ q # <<>> /\ f = Head(q)
          BY <1>0, <1>1 DEF q
        <4> HIDE DEF f
        <4> QED
          BY <3>0, <3>1, <3>2, <4>1, ContinuesTail
      <3>4. CASE Len(inbox[p]) < InboxCap
        <4>1. inbox'[p] = Append(inbox[p], <<p, m + 1>>)
          <5>1. inbox' = [inbox EXCEPT ![p] = Append(@, <<f.p, f.n>>)]
            BY <1>8, <2>4, <3>4 DEF MuxDeliver
          <5> HIDE DEF f, m
          <5> QED
            BY <1>0, <3>1, <3>3, <5>1
        <4>2. /\ Len(inbox'[p]) = Len(inbox[p]) + 1
              /\ \A i \in 1..Len(inbox'[p]) : inbox'[p][i] = <<p, Len(gotUp[p]) + i>>
          <5> DEFINE r == inbox[p]
                     e == <<p, m + 1>>
          <5>1. /\ Len(Append(r, e)) = Len(r) + 1
                /\ \A i \in 1..Len(Append(r, e)) :
                     (i \in 1..Len(r) /\ Append(r, e)[i] = r[i])
                     \/ (i = Len(r) + 1 /\ Append(r, e)[i] = e)
            <6>1. r \in Seq(Message)
              BY <1>0
            <6> HIDE DEF r, e
            <6> QED
              BY <6>1
          <5>2. e = <<p, Len(gotUp[p]) + (Len(r) + 1)>>
            <6>0. \A x, y \in Nat : (x + y) + 1 = x + (y + 1)
              OBVIOUS
            <6>1. m + 1 = Len(gotUp[p]) + (Len(r) + 1)
              BY <3>0, <6>0
            <6> HIDE DEF m
            <6> QED
              BY <6>1
          <5> HIDE DEF e
          <5> QED
            BY <3>2, <4>1, <5>1, <5>2 DEF e
        <4>3. Len(gotUp'[p]) + Len(inbox'[p]) = m + 1
          BY <1>0, <3>0, <4>2
        <4>4. at'[p] = a /\ up'[p] = up[p] /\ gotUp'[p] = gotUp[p]
          BY <1>0, <3>1
        <4> HIDE DEF m
        <4> QED
          BY <1>4, <3>3, <4>2, <4>3, <4>4 DEF UpPipe
      <3>5. CASE ~(Len(inbox[p]) < InboxCap)
        <4>1. inbox' = inbox /\ rc' = [rc EXCEPT ![p] = "closing"]
          BY <1>8, <2>4, <3>5 DEF MuxDeliver
        <4>2. rc'[p] = "closing"
          BY <1>0, <4>1
        <4> QED
          BY <1>5, <4>1, <4>2
      <3> QED
        BY <3>4, <3>5
    <2> QED
      BY <2>2, <2>3, <2>4
  <1> QED
    BY <1>6, <1>7, <1>8 DEF MuxRead

\* What a phone has sent only grows, by data frames.
LEMMA UpMoves ==
  ASSUME TypeOK, [Next]_vars, NEW p \in Phone
  PROVE  up'[p] = up[p] \/ up'[p] = up[p] + 1
  <1>0. up \in [Phone -> Nat]
    BY DEF TypeOK, DataTypes
  <1>1. CASE UNCHANGED vars
    BY <1>1 DEF vars, dataVars
  <1>2. ASSUME NEW a \in Att,
               \/ Attach(a) \/ Acknowledge(a) \/ ReadAck(a) \/ ReadFails(a)
               \/ RelayCloses(a) \/ RelayForwards(a) \/ RelayReadFails(a)
               \/ Unregister(a) \/ Sweep(a) \/ DrainCloses(a) \/ SocketFails(a)
               \/ MuxRead(a) \/ Crash(a)
        PROVE  up' = up
    BY <1>2 DEF Attach, Acknowledge, ReadAck, ReadFails, RelayCloses, RelayForwards,
       RelayReadFails, Unregister, Sweep, DrainCloses, SocketFails, MuxRead, Crash, dataVars
  <1>3. ASSUME NEW q \in Phone,
               \/ Connect(q) \/ Register(q) \/ Announce(q) \/ PhoneRefused(q)
               \/ Leave(q) \/ Tell(q) \/ LinkRead(q) \/ LinkWrite(q) \/ LinkEnds(q) \/ LinkQuits(q)
               \/ SendClose(q) \/ PhoneGone(q)
        PROVE  up' = up
    BY <1>3 DEF Connect, Register, Announce, PhoneRefused, Leave, Tell, LinkRead, LinkWrite,
       LinkEnds, LinkQuits, SendClose, PhoneGone, dataVars
  <1>4. ASSUME DrainTakes PROVE up' = up
    BY <1>4 DEF DrainTakes, dataVars
  <1>5. ASSUME NEW q \in Phone, PhoneData(q) PROVE up'[p] = up[p] \/ up'[p] = up[p] + 1
    BY <1>0, <1>5 DEF PhoneData
  <1> QED
    BY <1>1, <1>2, <1>3, <1>4, <1>5
    DEF Next, Handler, Mux, PhoneHandler, PhoneReadFails, Environment

\* Every step keeps a phone's data to the bridge in order.
LEMMA UpPipeStep ==
  ASSUME TypeOK, Placed, FramesBelong, OneMux, ChannelsAgree, NumbersAreOwn, Started, Service,
         Opens, NEW p \in Phone, UpPipe(p), [Next]_vars
  PROVE  UpPipe(p)'
  <1>0. /\ at \in [Phone -> Att \cup {NoAtt}] /\ mux \in [Att -> {"none", "wait", "on", "gone"}]
        /\ rc \in [Phone -> {"none", "open", "closing", "done"}]
        /\ toBridge \in [Att -> Seq(Frames)] /\ link \in [Phone -> {"none", "run", "ended"}]
        /\ inbox \in [Phone -> Seq(Message)] /\ gotUp \in [Phone -> Seq(Message)]
        /\ up \in [Phone -> Nat] /\ session \in Att \cup {NoAtt}
        /\ channels \in [Att -> [Channel -> Phone \cup {NoPhone}]]
    BY DEF TypeOK, RelayTypes, PhoneTypes, BridgeTypes, SockTypes, DataTypes
  <1>1. ASSUME UNCHANGED <<gotUp, inbox, up, toBridge, mux, rc>>, at'[p] = at[p]
        PROVE  UpPipe(p)'
    BY <1>1, UpSame
  <1>2. CASE UNCHANGED vars
    BY <1>1, <1>2 DEF vars, phoneVars, sockVars, bridgeVars, dataVars
  <1>3. ASSUME NEW a \in Att,
               \/ RelayCloses(a) \/ RelayForwards(a) \/ RelayReadFails(a)
               \/ Unregister(a) \/ Sweep(a) \/ DrainCloses(a) \/ SocketFails(a)
        PROVE  UpPipe(p)'
    <2>1. UNCHANGED <<gotUp, inbox, up, toBridge, mux, rc, at>>
      BY <1>3 DEF RelayCloses, RelayForwards, RelayReadFails, Unregister, Sweep, DrainCloses,
         SocketFails, phoneVars, sockVars, bridgeVars, dataVars
    <2> QED
      BY <1>1, <2>1
  <1>4. ASSUME NEW q \in Phone,
               \/ Register(q) \/ PhoneRefused(q) \/ Leave(q) \/ LinkWrite(q)
               \/ PhoneGone(q) \/ LinkQuits(q)
        PROVE  UpPipe(p)'
    <2>1. UNCHANGED <<gotUp, inbox, up, toBridge, mux, rc, at>>
      BY <1>4 DEF Register, PhoneRefused, Leave, LinkWrite, PhoneGone, LinkQuits,
         phoneVars, sockVars, bridgeVars, dataVars
    <2> QED
      BY <1>1, <2>1
  <1>5. CASE DrainTakes
    BY <1>1, <1>5 DEF DrainTakes, phoneVars, sockVars, bridgeVars, dataVars
  <1>6. ASSUME UNCHANGED <<gotUp, inbox, up, at, mux, rc>>,
               NEW b \in Att, NEW f \in Frames, ~IsData(f, p), SendToBridge(b, f)
        PROVE  UpPipe(p)'
    <2>1. ASSUME at[p] \in Att
          PROVE  toBridge'[at[p]] = toBridge[at[p]] \/ toBridge'[at[p]] = Append(toBridge[at[p]], f)
      BY <1>0, <1>6, <2>1 DEF SendToBridge
    <2> QED
      BY <1>6, <2>1, UpSame
  <1>7. ASSUME NEW a \in Att, Acknowledge(a) PROVE UpPipe(p)'
    <2>1. UNCHANGED <<gotUp, inbox, up, at, mux, rc>>
          /\ (toBridge' = toBridge \/ SendToBridge(a, Frame("attached", 0, NoPhone, 0)))
      BY <1>7 DEF Acknowledge, phoneVars, bridgeVars, dataVars
    <2>2. ~IsData(Frame("attached", 0, NoPhone, 0), p)
      BY DEF IsData, Frame
    <2> QED
      BY <1>1, <1>6, <2>1, <2>2, FramesSentFit
  <1>8. ASSUME NEW q \in Phone, Announce(q) PROVE UpPipe(p)'
    <2>1. UNCHANGED <<gotUp, inbox, up, at, mux, rc>> /\ at[q] \in Att
          /\ (toBridge' = toBridge \/ SendToBridge(at[q], Frame("open", chan[q], q, 0)))
      BY <1>8 DEF Announce, bridgeVars, dataVars, Placed
    <2>2. ~IsData(Frame("open", chan[q], q, 0), p)
      BY DEF IsData, Frame
    <2> QED
      BY <1>1, <1>6, <2>1, <2>2, FramesSentFit
  <1>9. ASSUME NEW q \in Phone, Tell(q) PROVE UpPipe(p)'
    <2>1. UNCHANGED <<gotUp, inbox, up, at, mux, rc>> /\ at[q] \in Att
          /\ (toBridge' = toBridge \/ SendToBridge(at[q], Frame("close", chan[q], q, 0)))
      BY <1>9 DEF Tell, bridgeVars, dataVars, Placed
    <2>2. ~IsData(Frame("close", chan[q], q, 0), p)
      BY DEF IsData, Frame
    <2> QED
      BY <1>1, <1>6, <2>1, <2>2, FramesSentFit
  <1>10. ASSUME NEW a \in Att, MuxRead(a) PROVE UpPipe(p)'
    BY <1>10, UpMuxRead
  <1>11. ASSUME NEW a \in Att, Attach(a) PROVE UpPipe(p)'
    <2>1. UNCHANGED <<gotUp, inbox, up, at, toBridge, rc>> /\ at[p] # a
          /\ mux' = [mux EXCEPT ![a] = "wait"]
      BY <1>11 DEF Attach, Started, phoneVars, dataVars
    <2>2. at[p] \in Att => mux'[at[p]] = mux[at[p]]
      BY <1>0, <2>1
    <2> QED
      BY <2>1, <2>2, UpSame
  <1>12. ASSUME NEW a \in Att, MuxEnds(a), UNCHANGED <<gotUp, inbox, up, at>>
         PROVE  UpPipe(p)'
    <2>1. rc'[p] \in {"none", "open"} => rc[p] \in {"none", "open"}
      BY <1>0, <1>12 DEF MuxEnds
    <2>2. at[p] \in Att /\ mux'[at[p]] # "gone" =>
            mux[at[p]] # "gone" /\ toBridge'[at[p]] = toBridge[at[p]]
      BY <1>0, <1>12 DEF MuxEnds
    <2> QED
      BY <1>12, <2>1, <2>2, UpSame
  <1>13. ASSUME NEW a \in Att, ReadAck(a) PROVE UpPipe(p)'
    <2>1. UNCHANGED <<gotUp, inbox, up, at>> /\ toBridge[a] # <<>> /\ mux[a] = "wait"
      BY <1>13 DEF ReadAck, phoneVars, dataVars
    <2>2. CASE MuxEnds(a)
      BY <1>12, <2>1, <2>2
    <2>3. CASE /\ Head(toBridge[a]).t = "attached" /\ mux' = [mux EXCEPT ![a] = "on"]
               /\ toBridge' = [toBridge EXCEPT ![a] = Tail(@)] /\ rc' = rc
      <3>1. ~IsData(Head(toBridge[a]), p)
        BY <2>3 DEF IsData
      <3>2. at[p] \in Att =>
              /\ mux'[at[p]] # "gone" => mux[at[p]] # "gone"
              /\ \/ toBridge'[at[p]] = toBridge[at[p]]
                 \/ at[p] = a /\ toBridge'[at[p]] = Tail(toBridge[at[p]])
        BY <1>0, <2>1, <2>3
      <3> QED
        BY <2>1, <2>3, <3>1, <3>2, UpSame
    <2> QED
      BY <1>13, <2>2, <2>3 DEF ReadAck
  <1>14. ASSUME NEW a \in Att, ReadFails(a) PROVE UpPipe(p)'
    BY <1>12, <1>14 DEF ReadFails, phoneVars, dataVars
  <1>15. ASSUME NEW a \in Att, Crash(a) PROVE UpPipe(p)'
    <2>1. /\ UNCHANGED <<gotUp, up, at>> /\ inbox' = [q \in Phone |-> <<>>]
          /\ rc' = [q \in Phone |-> IF rc[q] = "none" THEN "none" ELSE "done"]
          /\ mux' = [mux EXCEPT ![a] = "gone"] /\ toBridge' = [toBridge EXCEPT ![a] = <<>>]
      BY <1>15 DEF Crash, phoneVars, dataVars
    <2>2. CASE rc[p] = "none"
      <3>1. inbox'[p] = inbox[p] /\ rc'[p] = "none"
        BY <2>1, <2>2 DEF Service, Served, NotServed
      <3>2. at[p] \in Att /\ mux'[at[p]] # "gone" =>
              mux[at[p]] # "gone" /\ toBridge'[at[p]] = toBridge[at[p]]
        BY <1>0, <2>1
      <3> QED
        BY <2>1, <2>2, <3>1, <3>2, UpSame
    <2>3. CASE rc[p] # "none"
      <3>1. rc'[p] = "done" /\ inbox'[p] = <<>> /\ gotUp'[p] = gotUp[p] /\ up'[p] = up[p]
        BY <2>1, <2>3
      <3>2. Len(gotUp[p]) + 0 <= up[p]
        <4>0. \A x, y, z \in Nat : x + y <= z => x + 0 <= z
          OBVIOUS
        <4>1. Len(gotUp[p]) \in Nat /\ Len(inbox[p]) \in Nat /\ up[p] \in Nat
          BY <1>0
        <4>2. Len(gotUp[p]) + Len(inbox[p]) <= up[p]
          BY DEF UpPipe
        <4> QED
          BY <4>0, <4>1, <4>2
      <3> QED
        BY <3>1, <3>2 DEF UpPipe
    <2> QED
      BY <2>2, <2>3
  <1>16. ASSUME NEW q \in Phone, SendClose(q) PROVE UpPipe(p)'
    <2>1. UNCHANGED <<gotUp, inbox, up, at, toBridge, mux>> /\ rc' = [rc EXCEPT ![q] = "done"]
      BY <1>16 DEF SendClose, phoneVars, dataVars
    <2>2. rc'[p] \in {"none", "open"} => rc[p] \in {"none", "open"}
      BY <1>0, <2>1
    <2> QED
      BY <2>1, <2>2, UpSame
  <1>17. ASSUME NEW q \in Phone, LinkEnds(q) PROVE UpPipe(p)'
    <2>1. UNCHANGED <<gotUp, up, at, toBridge, mux>> /\ inbox' = [inbox EXCEPT ![q] = <<>>]
          /\ link[q] = "run"
      BY <1>17 DEF LinkEnds, phoneVars, sockVars, dataVars
    <2>2. rc' = [rc EXCEPT ![q] = "closing"] \/ (rc[q] # "open" /\ rc' = rc)
      BY <1>17 DEF LinkEnds
    <2>3. CASE p # q
      BY <1>0, <2>1, <2>2, <2>3, UpSame
    <2>4. CASE p = q
      <3>1. rc[p] # "none"
        BY <2>1, <2>4 DEF Service, Served
      <3>2. rc'[p] \notin {"none", "open"} /\ inbox'[p] = <<>>
            /\ gotUp'[p] = gotUp[p] /\ up'[p] = up[p]
        BY <1>0, <2>1, <2>2, <2>4, <3>1
      <3>3. Len(gotUp[p]) + 0 <= up[p]
        <4>0. \A x, y, z \in Nat : x + y <= z => x + 0 <= z
          OBVIOUS
        <4>1. Len(gotUp[p]) \in Nat /\ Len(inbox[p]) \in Nat /\ up[p] \in Nat
          BY <1>0
        <4>2. Len(gotUp[p]) + Len(inbox[p]) <= up[p]
          BY DEF UpPipe
        <4> QED
          BY <4>0, <4>1, <4>2
      <3> QED
        BY <3>2, <3>3 DEF UpPipe
    <2> QED
      BY <2>3, <2>4
  <1>18. ASSUME NEW q \in Phone, LinkRead(q) PROVE UpPipe(p)'
    <2>1. /\ UNCHANGED <<up, at, toBridge, mux, rc>> /\ inbox[q] # <<>>
          /\ gotUp' = [gotUp EXCEPT ![q] = Append(@, Head(inbox[q]))]
          /\ inbox' = [inbox EXCEPT ![q] = Tail(@)]
      BY <1>18 DEF LinkRead, phoneVars, sockVars
    <2>2. CASE p # q
      BY <1>0, <2>1, <2>2, UpSame
    <2>3. CASE p = q
      <3> DEFINE x == inbox[p]
                 g == gotUp[p]
      <3>1. x \in Seq(Message) /\ g \in Seq(Message) /\ x # <<>>
            /\ inbox'[p] = Tail(x) /\ gotUp'[p] = Append(g, Head(x))
        BY <1>0, <2>1, <2>3
      <3> HIDE DEF x, g
      <3>2. /\ Len(Tail(x)) = Len(x) - 1 /\ Len(x) \in Nat /\ Len(g) \in Nat
            /\ Len(Append(g, Head(x))) = Len(g) + 1
            /\ \A i \in 1..Len(Tail(x)) : i + 1 \in 1..Len(x) /\ Tail(x)[i] = x[i + 1]
        BY <3>1
      <3>3. /\ Len(g) + Len(x) <= up[p] /\ \A i \in 1..Len(x) : x[i] = <<p, Len(g) + i>>
            /\ at[p] \in Att /\ mux[at[p]] # "gone" /\ rc[p] \in {"none", "open"} =>
                 Continues(toBridge[at[p]], p, Len(g) + Len(x), up[p])
        BY DEF UpPipe, x, g
      <3>4. Len(gotUp'[p]) + Len(inbox'[p]) = Len(g) + Len(x) /\ Len(gotUp'[p]) = Len(g) + 1
        BY <3>1, <3>2
      <3>5. \A i \in 1..Len(inbox'[p]) : inbox'[p][i] = <<p, Len(gotUp'[p]) + i>>
        <4> SUFFICES ASSUME NEW i \in 1..Len(Tail(x)) PROVE Tail(x)[i] = <<p, (Len(g) + 1) + i>>
          BY <3>1, <3>4
        <4>1. Tail(x)[i] = <<p, Len(g) + (i + 1)>>
          BY <3>2, <3>3
        <4>2. Len(g) + (i + 1) = (Len(g) + 1) + i
          BY <3>2
        <4> QED
          BY <4>1, <4>2
      <3> QED
        BY <2>1, <3>3, <3>4, <3>5 DEF UpPipe
    <2> QED
      BY <2>2, <2>3
  <1>19. ASSUME NEW q \in Phone, PhoneData(q) PROVE UpPipe(p)'
    <2> DEFINE f == Frame("data", chan[q], q, up[q] + 1)
    <2>1. /\ UNCHANGED <<gotUp, inbox, at, mux, rc>> /\ at[q] \in Att /\ SendToBridge(at[q], f)
          /\ up' = [up EXCEPT ![q] = @ + 1] /\ f \in Frames
      BY <1>19, FramesSentFit DEF PhoneData, phoneVars, bridgeVars, Placed
    <2>2. f.t = "data" /\ f.p = q /\ f.n = up[q] + 1
      BY DEF Frame
    <2> HIDE DEF f
    <2>3. CASE p # q
      <3>1. ~IsData(f, p) /\ up'[p] = up[p]
        BY <1>0, <2>1, <2>2, <2>3 DEF IsData
      <3>2. ASSUME at[p] \in Att
            PROVE  toBridge'[at[p]] = toBridge[at[p]]
                   \/ toBridge'[at[p]] = Append(toBridge[at[p]], f)
        BY <1>0, <2>1, <3>2 DEF SendToBridge
      <3> QED
        BY <2>1, <3>1, <3>2, UpSame
    <2>4. CASE p = q
      <3> DEFINE m == Len(gotUp[p]) + Len(inbox[p])
      <3>0. m \in Nat /\ up[p] \in Nat
        BY <1>0
      <3>1. m <= up[p] /\ up'[p] = up[p] + 1 /\ gotUp'[p] = gotUp[p] /\ inbox'[p] = inbox[p]
            /\ \A i \in 1..Len(inbox[p]) : inbox[p][i] = <<p, Len(gotUp[p]) + i>>
        BY <1>0, <2>1, <2>4 DEF UpPipe
      <3>2. ASSUME mux[at[p]] # "gone", rc[p] \in {"none", "open"}
            PROVE  Continues(toBridge'[at[p]], p, m, up'[p])
        <4>1. /\ Continues(toBridge[at[p]], p, m, up[p]) /\ toBridge[at[p]] \in Seq(Frames)
              /\ toBridge'[at[p]] = Append(toBridge[at[p]], f)
          BY <1>0, <2>1, <2>4, <3>2 DEF UpPipe, SendToBridge
        <4> HIDE DEF m
        <4> QED
          BY <2>1, <2>2, <2>4, <3>0, <3>1, <4>1, ContinuesAppend DEF IsData
      <3>3. m <= up'[p]
        <4> HIDE DEF m
        <4> QED
          BY <3>0, <3>1
      <3> QED
        BY <2>1, <3>1, <3>2, <3>3 DEF UpPipe
    <2> QED
      BY <2>3, <2>4
  <1>20. ASSUME NEW q \in Phone, Connect(q) PROVE UpPipe(p)'
    <2>1. UNCHANGED <<gotUp, inbox, up, toBridge, mux, rc>> /\ stage[q] = "new"
          /\ at' = [at EXCEPT ![q] = session]
      BY <1>20 DEF Connect, sockVars, bridgeVars, dataVars
    <2>2. CASE p # q
      BY <1>0, <1>1, <2>1, <2>2
    <2>3. CASE p = q
      <3>1. link[p] = "none" /\ inbox[p] = <<>> /\ gotUp[p] = <<>> /\ up[p] = 0
        BY <2>1, <2>3 DEF Service, Served, NotServed
      <3>2. ASSUME NEW b \in Att PROVE Continues(toBridge[b], p, 0, 0)
        <4>1. toBridge[b] \in Seq(Frames)
          BY <1>0
        <4>2. ASSUME NEW i \in 1..Len(toBridge[b]) PROVE toBridge[b][i].p # p
          <5>1. toBridge[b][i].t = "attached" => toBridge[b][i].p = NoPhone
            BY DEF Opens
          <5>2. toBridge[b][i].t # "attached" => stage[toBridge[b][i].p] \in {"loop", "leave", "tell", "done"}
            BY DEF Opens
          <5> QED
            BY <2>1, <2>3, <5>1, <5>2
        <4> QED
          BY <4>1, <4>2, ContinuesEmpty
      <3>3. inbox'[p] = <<>> /\ gotUp'[p] = <<>> /\ up'[p] = 0 /\ toBridge' = toBridge
        BY <2>1, <3>1
      <3> QED
        BY <3>2, <3>3 DEF UpPipe
    <2> QED
      BY <2>2, <2>3
  <1> QED
    BY <1>2, <1>3, <1>4, <1>5, <1>7, <1>8, <1>9, <1>10, <1>11, <1>13, <1>14, <1>15, <1>16,
       <1>17, <1>18, <1>19, <1>20
    DEF Next, Handler, Mux, PhoneHandler, PhoneReadFails, Environment

-----------------------------------------------------------------------------
(* The pipes: every step keeps what the bridge sends in order. *)

\* A phone on the relay whose data is where it was, but for a frame that is not data of
\* its own.
Relayed(p) ==
  at[p] \in Att /\ handler[at[p]] \in {"ack", "loop"}
  /\ chan[p] \in Channel /\ phones[at[p]][chan[p]] = p

\* Taking frames of others, and adding frames that are not a phone's data, leaves the pipe to
\* the phone in order.
LEMMA DownSame ==
  ASSUME TypeOK, NEW p \in Phone, DownPipe(p),
         gotDown'[p] = gotDown[p], down'[p] = down[p],
         Relayed(p)' =>
           /\ at'[p] = at[p] /\ Relayed(p)
           /\ \/ toRelay'[at[p]] = toRelay[at[p]]
              \/ /\ toRelay[at[p]] # <<>> /\ toRelay'[at[p]] = Tail(toRelay[at[p]])
                 /\ ~IsData(Head(toRelay[at[p]]), p)
              \/ \E f \in Frames : /\ toRelay'[at[p]] = Append(toRelay[at[p]], f)
                                   /\ ~IsData(f, p)
  PROVE  DownPipe(p)'
  <1> DEFINE m == Len(gotDown[p])
             q == toRelay[at[p]]
  <1>1. m \in Nat /\ down[p] \in Nat
    BY DEF TypeOK, DataTypes
  <1>2. ASSUME Relayed(p)' PROVE Continues(toRelay'[at[p]], p, m, down[p])
    <2>1. q \in Seq(Frames) /\ Continues(q, p, m, down[p])
      BY <1>2 DEF DownPipe, Relayed, TypeOK, SockTypes
    <2> HIDE DEF m
    <2>2. CASE toRelay'[at[p]] = q
      BY <2>1, <2>2
    <2>3. CASE q # <<>> /\ toRelay'[at[p]] = Tail(q) /\ ~IsData(Head(q), p)
      BY <1>1, <2>1, <2>3, ContinuesTail
    <2>4. ASSUME NEW f \in Frames, toRelay'[at[p]] = Append(q, f), ~IsData(f, p)
          PROVE  Continues(toRelay'[at[p]], p, m, down[p])
      BY <1>1, <2>1, <2>4, ContinuesAppend
    <2> QED
      BY <1>2, <2>2, <2>3, <2>4
  <1>3. Relayed(p)' => Continues(toRelay'[at'[p]], p, Len(gotDown'[p]), down'[p])
    BY <1>2
  <1> QED
    BY <1>3 DEF DownPipe, Relayed

\* Every step keeps the bridge's data to a phone in order.
LEMMA DownPipeStep ==
  ASSUME TypeOK, Placed, FramesBelong, NumbersAreOwn, Started, PhonesAgree, Service,
         RelayBelongs, NEW p \in Phone, DownPipe(p), [Next]_vars
  PROVE  DownPipe(p)'
  <1>0. /\ at \in [Phone -> Att \cup {NoAtt}] /\ chan \in [Phone -> 0..MaxCh]
        /\ handler \in [Att -> HandlerStage] /\ toRelay \in [Att -> Seq(Frames)]
        /\ phones \in [Att -> [Channel -> Phone \cup {NoPhone}]]
        /\ down \in [Phone -> Nat] /\ gotDown \in [Phone -> Seq(Message)]
        /\ stage \in [Phone -> PhoneStage]
    BY DEF TypeOK, RelayTypes, PhoneTypes, SockTypes, DataTypes
  <1>1. ASSUME UNCHANGED <<gotDown, down, toRelay, handler, phones, at, chan>>
        PROVE  DownPipe(p)'
    BY <1>1 DEF DownPipe
  <1>2. CASE UNCHANGED vars
    BY <1>1, <1>2 DEF vars, relayVars, phoneVars, sockVars, dataVars
  <1>3. ASSUME NEW a \in Att,
               \/ ReadAck(a) \/ ReadFails(a) \/ MuxRead(a) \/ SocketFails(a) \/ Crash(a)
        PROVE  DownPipe(p)'
    BY <1>1, <1>3 DEF ReadAck, ReadFails, MuxRead, SocketFails, Crash, relayVars, phoneVars,
       dataVars
  <1>4. ASSUME NEW q \in Phone,
               \/ Announce(q) \/ PhoneData(q) \/ PhoneRefused(q) \/ Tell(q)
               \/ LinkRead(q) \/ LinkEnds(q) \/ LinkQuits(q) \/ PhoneGone(q)
        PROVE  DownPipe(p)'
    BY <1>1, <1>4 DEF Announce, PhoneData, PhoneRefused, Tell, LinkRead, LinkEnds, LinkQuits, PhoneGone,
       relayVars, phoneVars, sockVars, dataVars
  <1>5. CASE DrainTakes
    BY <1>1, <1>5 DEF DrainTakes, phoneVars, sockVars, dataVars
  <1>6. ASSUME NEW a \in Att, Attach(a) PROVE DownPipe(p)'
    <2>1. /\ UNCHANGED <<gotDown, down, toRelay, phones, at, chan>> /\ at[p] # a
          /\ handler' = [handler EXCEPT ![a] = "ack"]
      BY <1>6 DEF Attach, Started, phoneVars, dataVars
    <2>2. at[p] \in Att => handler'[at[p]] = handler[at[p]]
      BY <1>0, <2>1
    <2> QED
      BY <2>1, <2>2 DEF DownPipe
  <1>7. ASSUME NEW a \in Att,
               \/ Acknowledge(a) \/ Unregister(a)
        PROVE  DownPipe(p)'
    <2>1. UNCHANGED <<gotDown, down, toRelay, phones, at, chan>>
      BY <1>7 DEF Acknowledge, Unregister, phoneVars, sockVars, dataVars
    <2>2. at[p] \in Att /\ handler'[at[p]] \in {"ack", "loop"} => handler[at[p]] \in {"ack", "loop"}
      BY <1>0, <1>7 DEF Acknowledge, Unregister
    <2> QED
      BY <2>1, <2>2 DEF DownPipe
  <1>8. ASSUME NEW a \in Att, RelayReadFails(a) PROVE DownPipe(p)'
    <2>1. /\ UNCHANGED <<gotDown, down, phones, at, chan>>
          /\ handler' = [handler EXCEPT ![a] = "unregister"]
          /\ toRelay' = [toRelay EXCEPT ![a] = <<>>]
      BY <1>8 DEF RelayReadFails, phoneVars, dataVars
    <2>2. at[p] \in Att /\ handler'[at[p]] \in {"ack", "loop"} =>
            handler[at[p]] \in {"ack", "loop"} /\ toRelay'[at[p]] = toRelay[at[p]]
      BY <1>0, <2>1
    <2> QED
      BY <2>1, <2>2 DEF DownPipe
  <1>9. ASSUME NEW a \in Att,
               \/ Sweep(a) \/ DrainCloses(a)
        PROVE  DownPipe(p)'
    <2>1. UNCHANGED <<gotDown, down, toRelay, at, chan>> /\ phones' = [phones EXCEPT ![a] = NoPhones]
          /\ (handler' = handler \/ handler' = [handler EXCEPT ![a] = "done"])
      BY <1>9 DEF Sweep, DrainCloses, ClosePhones, sockVars, dataVars
    <2>2. at[p] \in Att /\ handler'[at[p]] \in {"ack", "loop"} => handler[at[p]] \in {"ack", "loop"}
      BY <1>0, <2>1
    <2>3. at[p] \in Att /\ chan[p] \in Channel /\ phones'[at[p]][chan[p]] = p =>
            phones[at[p]][chan[p]] = p
      BY <1>0, <2>1 DEF NoPhones
    <2> QED
      BY <2>1, <2>2, <2>3 DEF DownPipe
  <1>10. ASSUME NEW a \in Att, RelayCloses(a) PROVE DownPipe(p)'
    <2> DEFINE f == Incoming(a)
    <2>1. /\ UNCHANGED <<gotDown, down, at, chan, handler>> /\ toRelay[a] # <<>>
          /\ phones' = [phones EXCEPT ![a][f.c] = NoPhone]
          /\ toRelay' = [toRelay EXCEPT ![a] = Tail(@)]
      BY <1>10 DEF RelayCloses, ClosePhone, dataVars
    <2>2. f.p \in Phone /\ f.c \in Channel /\ chan[f.p] = f.c /\ f = Head(toRelay[a])
      BY <2>1, IncomingIsOwn DEF Incoming
    <2> HIDE DEF f
    <2>3. ASSUME Relayed(p)'
          PROVE  Relayed(p) /\ (at[p] = a => ~IsData(f, p) /\ toRelay'[a] = Tail(toRelay[a]))
                 /\ (at[p] # a => toRelay'[at[p]] = toRelay[at[p]])
      <3>1. at[p] \in Att /\ chan[p] \in Channel /\ phones'[at[p]][chan[p]] = p
        BY <2>1, <2>3 DEF Relayed
      <3>2. ~(at[p] = a /\ chan[p] = f.c) /\ phones[at[p]][chan[p]] = p
        BY <1>0, <2>1, <2>2, <3>1
      <3>3. at[p] = a => ~IsData(f, p)
        BY <2>2, <3>2 DEF IsData
      <3> QED
        BY <1>0, <2>1, <2>3, <3>2, <3>3 DEF Relayed
    <2> QED
      BY <2>1, <2>2, <2>3, DownSame
  <1>11. ASSUME NEW a \in Att, RelayForwards(a) PROVE DownPipe(p)'
    <2> DEFINE f == Incoming(a)
               o == phones[a][f.c]
    <2>1. /\ UNCHANGED <<down, at, chan, handler, phones>> /\ toRelay[a] # <<>>
          /\ o # NoPhone /\ f.t = "data" /\ handler[a] = "loop"
          /\ gotDown' = [gotDown EXCEPT ![o] = Append(@, <<f.p, f.n>>)]
          /\ toRelay' = [toRelay EXCEPT ![a] = Tail(@)]
      BY <1>11 DEF RelayForwards, relayVars, phoneVars
    <2>2. /\ f.p \in Phone /\ f.c \in Channel /\ chan[f.p] = f.c /\ at[f.p] = a
          /\ f = Head(toRelay[a]) /\ o = f.p
      BY <2>1, IncomingIsOwn DEF Incoming
    <2> HIDE DEF f, o
    <2>3. CASE p # f.p
      <3>1. ~IsData(f, p) /\ gotDown'[p] = gotDown[p]
        BY <1>0, <2>1, <2>2, <2>3 DEF IsData
      <3>2. at[p] \in Att => \/ toRelay'[at[p]] = toRelay[at[p]]
                             \/ at[p] = a /\ toRelay'[at[p]] = Tail(toRelay[at[p]])
        BY <1>0, <2>1
      <3>3. Relayed(p)' => at[p] \in Att /\ Relayed(p)
        BY <2>1 DEF Relayed
      <3> QED
        BY <2>1, <2>2, <3>1, <3>2, <3>3, DownSame
    <2>4. CASE p = f.p
      <3> DEFINE m == Len(gotDown[p])
                 q == toRelay[a]
      <3>1. Continues(q, p, m, down[p]) /\ q \in Seq(Frames) /\ m \in Nat /\ down[p] \in Nat
        <4>1. phones[at[p]][chan[p]] = p /\ at[p] = a /\ handler[at[p]] = "loop" /\ chan[p] \in Channel
          BY <2>1, <2>2, <2>4 DEF o
        <4>2. Continues(toRelay[a], p, Len(gotDown[p]), down[p])
          BY <4>1 DEF DownPipe
        <4>3. q \in Seq(Frames) /\ m \in Nat /\ down[p] \in Nat
          BY <1>0, <2>1
        <4> QED
          BY <4>2, <4>3
      <3>2. IsData(f, p) /\ f = Head(q) /\ q # <<>>
        BY <2>1, <2>2, <2>4 DEF IsData
      <3> HIDE DEF m, q
      <3>3. Continues(Tail(q), p, m + 1, down[p])
        BY <3>1, <3>2, ContinuesTail
      <3>4. gotDown'[p] = Append(gotDown[p], <<f.p, f.n>>) /\ gotDown[p] \in Seq(Message)
        BY <1>0, <2>1, <2>2, <2>4
      <3>5. f.n \in Nat
        BY <2>1, IncomingIsOfPhone DEF Frames, f
      <3>6. <<f.p, f.n>> \in Message
        BY <2>2, <3>5 DEF Message
      <3>7. Len(gotDown'[p]) = m + 1
        BY <3>4, <3>6 DEF m
      <3>8. toRelay'[at'[p]] = Tail(q) /\ down'[p] = down[p]
        BY <1>0, <2>1, <2>2, <2>4 DEF q
      <3> QED
        BY <3>3, <3>7, <3>8 DEF DownPipe
    <2> QED
      BY <2>3, <2>4
  <1>12. ASSUME NEW q \in Phone, Connect(q) PROVE DownPipe(p)'
    <2>1. /\ UNCHANGED <<gotDown, down, toRelay, handler, phones, chan>> /\ stage[q] = "new"
          /\ at' = [at EXCEPT ![q] = session]
      BY <1>12 DEF Connect, relayVars, sockVars, dataVars
    <2>2. CASE p # q
      BY <1>0, <2>1, <2>2 DEF DownPipe
    <2>3. CASE p = q
      <3>1. \A b \in Att, c \in Channel : phones[b][c] # p
        BY <2>1, <2>3 DEF PhonesAgree
      <3> QED
        BY <2>1, <3>1 DEF DownPipe
    <2> QED
      BY <2>2, <2>3
  <1>13. ASSUME NEW q \in Phone, Register(q) PROVE DownPipe(p)'
    <2>1. /\ UNCHANGED <<gotDown, down, toRelay, handler, at>> /\ stage[q] = "found"
          /\ at[q] \in Att
      BY <1>13, RegisterIs DEF Register, dataVars
    <2>2. CASE UNCHANGED <<phones, nextCh, chan>>
      BY <1>1, <2>1, <2>2
    <2>3. ASSUME NEW c \in Channel, phones' = [phones EXCEPT ![at[q]][c] = q],
                 chan' = [chan EXCEPT ![q] = c]
          PROVE  DownPipe(p)'
      <3>1. CASE p # q
        <4>1. chan'[p] = chan[p] /\ (at[p] \in Att /\ chan[p] \in Channel
                /\ phones'[at[p]][chan[p]] = p => phones[at[p]][chan[p]] = p)
          BY <1>0, <2>1, <2>3, <3>1
        <4> QED
          BY <2>1, <4>1 DEF DownPipe
      <3>2. CASE p = q
        <4>1. link[p] = "none"
          BY <2>1, <3>2 DEF Service, Served
        <4>2. gotDown[p] = <<>> /\ down[p] = 0
          BY <4>1 DEF Service, NotServed
        <4>3. toRelay[at[p]] \in Seq(Frames)
          BY <1>0, <2>1, <3>2
        <4>4. \A i \in 1..Len(toRelay[at[p]]) : toRelay[at[p]][i].p # p
          BY <2>1, <3>2, <4>1 DEF RelayBelongs
        <4>5. Continues(toRelay[at[p]], p, 0, 0)
          BY <4>3, <4>4, ContinuesEmpty
        <4>6. Len(gotDown'[p]) = 0 /\ down'[p] = 0 /\ toRelay' = toRelay /\ at' = at
          BY <2>1, <4>2
        <4> QED
          BY <4>5, <4>6 DEF DownPipe
      <3> QED
        BY <3>1, <3>2
    <2> QED
      BY <1>13, <2>2, <2>3, RegisterIs
  <1>14. ASSUME NEW q \in Phone, Leave(q) PROVE DownPipe(p)'
    <2>1. UNCHANGED <<gotDown, down, toRelay, handler, at, chan>>
      BY <1>14 DEF Leave, sockVars, dataVars
    <2>2. at[p] \in Att /\ chan[p] \in Channel /\ phones'[at[p]][chan[p]] = p =>
            phones[at[p]][chan[p]] = p
      BY <1>0, <1>14 DEF Leave
    <2> QED
      BY <2>1, <2>2 DEF DownPipe
  <1>15. ASSUME UNCHANGED <<gotDown, handler, phones, at, chan>>, down'[p] = down[p],
                NEW b \in Att, NEW f \in Frames, ~IsData(f, p), SendToRelay(b, f)
         PROVE  DownPipe(p)'
    <2>1. ASSUME at[p] \in Att
          PROVE  toRelay'[at[p]] = toRelay[at[p]] \/ toRelay'[at[p]] = Append(toRelay[at[p]], f)
      BY <1>0, <1>15, <2>1 DEF SendToRelay
    <2>2. Relayed(p)' => at[p] \in Att /\ Relayed(p)
      BY <1>15 DEF Relayed
    <2> QED
      BY <1>15, <2>1, <2>2, DownSame
  <1>16. ASSUME NEW q \in Phone, link[q] # "none" PROVE at[q] \in Att
    BY <1>16 DEF Service, Served
  <1>17. ASSUME NEW q \in Phone, SendClose(q) PROVE DownPipe(p)'
    <2>1. UNCHANGED <<gotDown, down, handler, phones, at, chan>> /\ rc[q] = "closing"
          /\ (toRelay' = toRelay \/ SendToRelay(at[q], Frame("close", chan[q], q, 0)))
      BY <1>17 DEF SendClose, relayVars, phoneVars, dataVars
    <2>2. ~IsData(Frame("close", chan[q], q, 0), p)
      BY DEF IsData, Frame
    <2>3. at[q] \in Att
      BY <1>16, <2>1 DEF Service, NotServed
    <2> QED
      BY <1>1, <1>15, <2>1, <2>2, <2>3, FramesSentFit
  <1>18. ASSUME NEW q \in Phone, LinkWrite(q) PROVE DownPipe(p)'
    <2> DEFINE f == Frame("data", chan[q], q, down[q] + 1)
    <2>1. /\ UNCHANGED <<gotDown, handler, phones, at, chan>> /\ SendToRelay(at[q], f)
          /\ down' = [down EXCEPT ![q] = @ + 1] /\ f \in Frames /\ link[q] = "run"
      BY <1>18, FramesSentFit DEF LinkWrite, relayVars, phoneVars
    <2>2. f.t = "data" /\ f.p = q /\ f.n = down[q] + 1 /\ at[q] \in Att
      BY <1>16, <2>1 DEF Frame
    <2> HIDE DEF f
    <2>3. CASE p # q
      <3>1. ~IsData(f, p) /\ down'[p] = down[p]
        BY <1>0, <2>1, <2>2, <2>3 DEF IsData
      <3> QED
        BY <1>15, <2>1, <2>2, <3>1
    <2>4. CASE p = q
      <3> DEFINE m == Len(gotDown[p])
      <3>0. m \in Nat /\ down[p] \in Nat /\ down'[p] = down[p] + 1
        BY <1>0, <2>1, <2>4
      <3>1. ASSUME Relayed(p)
            PROVE  Continues(toRelay'[at[p]], p, m, down'[p])
        <4>1. /\ Continues(toRelay[at[p]], p, m, down[p]) /\ toRelay[at[p]] \in Seq(Frames)
              /\ toRelay'[at[p]] = Append(toRelay[at[p]], f)
          BY <1>0, <2>1, <2>2, <2>4, <3>1 DEF DownPipe, SendToRelay, Relayed
        <4> HIDE DEF m
        <4> QED
          BY <2>1, <2>2, <2>4, <3>0, <4>1, ContinuesAppend DEF IsData
      <3> QED
        BY <2>1, <3>1 DEF DownPipe, Relayed
    <2> QED
      BY <2>3, <2>4
  <1> QED
    BY <1>2, <1>3, <1>4, <1>5, <1>6, <1>7, <1>8, <1>9, <1>10, <1>11, <1>12, <1>13, <1>14,
       <1>17, <1>18
    DEF Next, Handler, Mux, PhoneHandler, PhoneReadFails, Environment

-----------------------------------------------------------------------------
(* The pipes: who goes by a number, and whom the read loop finishes. *)

\* Whoever goes by a number has been given one.
LEMMA UsesNumbered ==
  ASSUME TypeOK, FramesBelong, Service, RelayBelongs, Opens, NEW q \in Phone, Uses(q)
  PROVE  stage[q] \in Numbered /\ stage[q] \notin {"new", "found"}
  <1>1. ASSUME link[q] # "none" PROVE stage[q] \in {"loop", "leave", "tell", "done"}
    BY <1>1 DEF Service, Served
  <1>2. CASE rc[q] \in {"open", "closing"}
    BY <1>1, <1>2 DEF Service, NotServed, Numbered
  <1>3. ASSUME at[q] \in Att, NEW i \in 1..Len(toBridge[at[q]]), toBridge[at[q]][i].p = q
        PROVE  stage[q] \in {"loop", "leave", "tell", "done"}
    <2>1. toBridge[at[q]][i].t # "attached"
      BY <1>3 DEF Opens
    <2> QED
      BY <1>3, <2>1 DEF Opens
  <1>4. ASSUME at[q] \in Att, NEW i \in 1..Len(toRelay[at[q]]), toRelay[at[q]][i].p = q
        PROVE  stage[q] \in {"loop", "leave", "tell", "done"}
    BY <1>1, <1>4 DEF RelayBelongs
  <1>5. CASE stage[q] \in {"announce", "loop", "leave", "tell"}
    BY <1>5 DEF Numbered
  <1> QED
    BY <1>2, <1>3, <1>4, <1>5 DEF Uses, Numbered

\* A number comes into use when it is given, and no other way.
LEMMA UsesStep ==
  ASSUME TypeOK, Placed, FramesBelong, ChannelsAgree, PhonesAgree, Service, RelayBelongs, Opens,
         [Next]_vars, NEW q \in Phone, Uses(q)'
  PROVE  Uses(q) \/ (Register(q) /\ stage[q] = "found" /\ stage'[q] = "announce")
  <1> USE DEF Announced
  <1>0. /\ at \in [Phone -> Att \cup {NoAtt}] /\ stage \in [Phone -> PhoneStage]
        /\ rc \in [Phone -> {"none", "open", "closing", "done"}]
        /\ toBridge \in [Att -> Seq(Frames)] /\ toRelay \in [Att -> Seq(Frames)]
        /\ session \in Att \cup {NoAtt}
        /\ channels \in [Att -> [Channel -> Phone \cup {NoPhone}]]
    BY DEF TypeOK, RelayTypes, PhoneTypes, SockTypes, BridgeTypes
  <1>1. CASE UNCHANGED vars
    BY <1>1 DEF vars, phoneVars, sockVars, bridgeVars, Uses
  <1>2. CASE stage'[q] \in {"announce", "loop", "leave", "tell"}
    <2>1. ASSUME stage[q] \in {"new", "found"}
          PROVE  Register(q) /\ stage[q] = "found" /\ stage'[q] = "announce"
      <3>1. ASSUME UNCHANGED stage PROVE FALSE
        BY <1>2, <2>1, <3>1 DEF PhoneStage
      <3>2. ASSUME NEW a \in Att,
                   \/ Attach(a) \/ Acknowledge(a) \/ ReadAck(a) \/ ReadFails(a)
                   \/ RelayCloses(a) \/ RelayForwards(a) \/ RelayReadFails(a)
                   \/ Unregister(a) \/ Sweep(a) \/ DrainCloses(a) \/ SocketFails(a)
                   \/ MuxRead(a) \/ Crash(a)
            PROVE  UNCHANGED stage
        BY <3>2 DEF Attach, Acknowledge, ReadAck, ReadFails, RelayCloses, RelayForwards,
           RelayReadFails, Unregister, Sweep, DrainCloses, SocketFails, MuxRead, Crash, phoneVars
      <3>3. ASSUME NEW p \in Phone,
                   \/ PhoneData(p) \/ LinkRead(p) \/ LinkWrite(p) \/ LinkEnds(p) \/ LinkQuits(p)
                   \/ SendClose(p) \/ PhoneGone(p)
            PROVE  UNCHANGED stage
        BY <3>3 DEF PhoneData, LinkRead, LinkWrite, LinkEnds, LinkQuits, SendClose, PhoneGone, phoneVars
      <3>4. ASSUME DrainTakes PROVE UNCHANGED stage
        BY <3>4 DEF DrainTakes, phoneVars
      <3>5. ASSUME NEW p \in Phone,
                   \/ Announce(p) \/ PhoneRefused(p) \/ Leave(p) \/ Tell(p)
            PROVE  FALSE
        BY <1>0, <1>2, <2>1, <3>5 DEF Announce, PhoneRefused, Leave, Tell, PhoneStage
      <3>6. ASSUME NEW p \in Phone, Connect(p) PROVE FALSE
        BY <1>0, <1>2, <2>1, <3>6 DEF Connect, PhoneStage
      <3>7. ASSUME NEW p \in Phone, Register(p)
            PROVE  Register(q) /\ stage[q] = "found" /\ stage'[q] = "announce"
        <4>1. p = q
          BY <1>0, <1>2, <2>1, <3>7, RegisterIs DEF PhoneStage
        <4>2. /\ stage[q] = "found"
              /\ \/ stage' = [stage EXCEPT ![q] = "done"]
                 \/ stage' = [stage EXCEPT ![q] = "announce"]
          <5>1. Register(q)
            BY <3>7, <4>1
          <5> QED
            BY <5>1, RegisterIs
        <4>3. stage'[q] \in {"done", "announce"}
          BY <1>0, <4>2
        <4> QED
          BY <1>2, <3>7, <4>1, <4>2, <4>3
      <3>8. CASE UNCHANGED vars
        BY <3>1, <3>8 DEF vars, phoneVars
      <3> QED
        BY <3>1, <3>2, <3>3, <3>4, <3>5, <3>6, <3>7, <3>8
        DEF Next, Handler, Mux, PhoneHandler, PhoneReadFails, Environment
    <2>2. ASSUME stage[q] \notin {"new", "found"} PROVE Uses(q)
      <3>1. stage[q] # "done"
        BY <1>2, PhoneMovesStep DEF PhoneMoves
      <3> QED
        BY <1>0, <2>2, <3>1 DEF Uses, PhoneStage
    <2> QED
      BY <2>1, <2>2
  <1>3. CASE rc'[q] \in {"open", "closing"}
    <2>1. ASSUME UNCHANGED rc PROVE Uses(q)
      BY <1>3, <2>1 DEF Uses
    <2>2. CASE UNCHANGED vars
      BY <2>1, <2>2 DEF vars, bridgeVars
    <2>3. ASSUME NEW a \in Att,
                 \/ Attach(a) \/ Acknowledge(a) \/ RelayCloses(a) \/ RelayForwards(a)
                 \/ RelayReadFails(a) \/ Unregister(a) \/ Sweep(a) \/ DrainCloses(a)
                 \/ SocketFails(a)
          PROVE  UNCHANGED rc
      BY <2>3 DEF Attach, Acknowledge, RelayCloses, RelayForwards, RelayReadFails, Unregister,
         Sweep, DrainCloses, SocketFails, bridgeVars
    <2>4. ASSUME NEW p \in Phone,
                 \/ Connect(p) \/ Register(p) \/ Announce(p) \/ PhoneData(p)
                 \/ PhoneRefused(p) \/ Leave(p) \/ Tell(p) \/ LinkRead(p)
                 \/ LinkWrite(p) \/ PhoneGone(p)
          PROVE  UNCHANGED rc
      BY <2>4 DEF Connect, Register, Announce, PhoneData, PhoneRefused, Leave, Tell, LinkRead,
         LinkWrite, PhoneGone, bridgeVars
    <2>5. ASSUME DrainTakes PROVE UNCHANGED rc
      BY <2>5 DEF DrainTakes, bridgeVars
    <2>6. ASSUME NEW a \in Att,
                 \/ ReadAck(a) \/ ReadFails(a) \/ Crash(a)
          PROVE  rc[q] \in {"open", "closing"}
      BY <1>0, <1>3, <2>6 DEF ReadAck, ReadFails, MuxEnds, Crash
    <2>7. ASSUME NEW p \in Phone,
                 \/ LinkEnds(p) \/ LinkQuits(p) \/ SendClose(p)
          PROVE  rc[q] \in {"open", "closing"}
      BY <1>0, <1>3, <2>7 DEF LinkEnds, LinkQuits, SendClose
    <2>8. ASSUME NEW a \in Att, MuxRead(a) PROVE Uses(q)
      <3>1. 1 \in 1..Len(toBridge[a]) /\ Arrived(a) = toBridge[a][1]
            /\ (Arrived(a).t # "attached" => at[Arrived(a).p] = a /\ Arrived(a).c \in Channel)
        BY <2>8, Taken, ArrivedBelongs DEF MuxRead, Arrived, TypeOK, SockTypes, Belongs
      <3>2. CASE MuxOpen(a)
        <4>1. rc[q] \in {"open", "closing"} \/ Arrived(a).p = q
          BY <1>0, <1>3, <3>2 DEF MuxOpen
        <4>2. at[Arrived(a).p] = a
          BY <3>1, <3>2 DEF MuxOpen
        <4> QED
          BY <3>1, <4>1, <4>2 DEF Uses
      <3>3. CASE MuxRemoteClosed(a)
        BY <1>0, <1>3, <3>3 DEF MuxRemoteClosed, Uses
      <3>4. CASE MuxDeliver(a)
        <4>1. Arrived(a).c \in Channel
          BY <3>1, <3>4 DEF MuxDeliver
        <4>2. rc'[q] = rc[q] \/ q = channels[a][Arrived(a).c]
          BY <1>0, <3>4, <4>1 DEF MuxDeliver
        <4>3. q = channels[a][Arrived(a).c] => rc[q] = "open"
          BY <4>1 DEF ChannelsAgree
        <4> QED
          BY <1>3, <4>2, <4>3 DEF Uses
      <3> QED
        BY <2>8, <3>2, <3>3, <3>4 DEF MuxRead
    <2>9. ASSUME rc[q] \in {"open", "closing"} PROVE Uses(q)
      BY <2>9 DEF Uses
    <2> QED
      BY <2>1, <2>2, <2>3, <2>4, <2>5, <2>6, <2>7, <2>8, <2>9
      DEF Next, Handler, Mux, PhoneHandler, PhoneReadFails, Environment
  <1>4. at'[q] = at[q] \/ stage[q] \in {"new", "found"}
    <2>1. stage[q] \in Numbered \/ stage[q] \in {"new", "found"}
      BY <1>0 DEF PhoneStage, Numbered
    <2> QED
      BY <2>1, NumbersStay DEF TypeOK, NumbersKept
  <1>5. ASSUME NEW b \in Att, b = at'[q], NEW i \in 1..Len(toBridge'[b]), toBridge'[b][i].p = q
        PROVE  Uses(q)
    <2> DEFINE o == toBridge[b]
    <2>0. o \in Seq(Frames)
      BY <1>0
    <2>1. ASSUME NEW k \in 1..Len(o), o[k].p = q PROVE Uses(q)
      <3>1. o[k].t # "attached"
        BY <2>1 DEF Opens
      <3>2. at[q] = b
        BY <2>1, <3>1 DEF FramesBelong, Belongs
      <3> QED
        BY <2>1, <3>2 DEF Uses
    <2>2. ASSUME NEW f \in Frames, toBridge'[b] = Append(o, f), f.p = q => Uses(q)
          PROVE  Uses(q)
      <3>1. (i \in 1..Len(o) /\ o[i].p = q) \/ f.p = q
        <4> HIDE DEF o
        <4> QED
          BY <1>5, <2>0, <2>2, Appended
      <3> QED
        BY <2>1, <2>2, <3>1
    <2>3. CASE toBridge'[b] = o
      BY <1>5, <2>1, <2>3
    <2>4. CASE toBridge'[b] = <<>>
      BY <1>5, <2>4
    <2>5. CASE o # <<>> /\ toBridge'[b] = Tail(o)
      <3>1. i + 1 \in 1..Len(o) /\ o[i + 1].p = q
        <4> HIDE DEF o
        <4> QED
          BY <1>5, <2>0, <2>5, Taken
      <3> QED
        BY <2>1, <3>1
    <2>6. CASE toBridge'[b] = Append(o, Frame("attached", 0, NoPhone, 0))
      <3>1. Frame("attached", 0, NoPhone, 0).p # q
        BY DEF Frame
      <3> HIDE DEF o
      <3> QED
        BY <2>2, <2>6, <3>1, FramesSentFit
    <2>7. ASSUME NEW p \in Phone, Announce(p),
                 toBridge'[b] = Append(o, Frame("open", chan[p], p, 0))
          PROVE  Uses(q)
      <3>1. Frame("open", chan[p], p, 0).p = p /\ Uses(p)
        BY <2>7 DEF Announce, Uses, Frame
      <3> HIDE DEF o
      <3> QED
        BY <2>2, <2>7, <3>1, FramesSentFit
    <2>8. ASSUME NEW p \in Phone, PhoneData(p),
                 toBridge'[b] = Append(o, Frame("data", chan[p], p, up[p] + 1))
          PROVE  Uses(q)
      <3>1. Frame("data", chan[p], p, up[p] + 1).p = p /\ Uses(p)
        BY <2>8 DEF PhoneData, Uses, Frame
      <3> HIDE DEF o
      <3> QED
        BY <2>2, <2>8, <3>1, FramesSentFit
    <2>9. ASSUME NEW p \in Phone, Tell(p),
                 toBridge'[b] = Append(o, Frame("close", chan[p], p, 0))
          PROVE  Uses(q)
      <3>1. Frame("close", chan[p], p, 0).p = p /\ Uses(p)
        BY <2>9 DEF Tell, Uses, Frame
      <3> HIDE DEF o
      <3> QED
        BY <2>2, <2>9, <3>1, FramesSentFit
    <2> HIDE DEF o
    <2>10. ToBridgeMoves(b)
      BY ToBridgeStep
    <2> QED
      BY <2>3, <2>4, <2>5, <2>6, <2>7, <2>8, <2>9, <2>10 DEF ToBridgeMoves, o
  <1>6. ASSUME NEW b \in Att, b = at'[q], NEW i \in 1..Len(toRelay'[b]), toRelay'[b][i].p = q
        PROVE  Uses(q)
    <2> DEFINE o == toRelay[b]
    <2>0. o \in Seq(Frames)
      BY <1>0
    <2>1. ASSUME NEW k \in 1..Len(o), o[k].p = q PROVE Uses(q)
      <3>1. at[q] = b
        BY <2>1 DEF RelayBelongs
      <3> QED
        BY <2>1, <3>1 DEF Uses
    <2>2. ASSUME NEW f \in Frames, toRelay'[b] = Append(o, f), f.p = q => Uses(q)
          PROVE  Uses(q)
      <3>1. (i \in 1..Len(o) /\ o[i].p = q) \/ f.p = q
        <4> HIDE DEF o
        <4> QED
          BY <1>6, <2>0, <2>2, Appended
      <3> QED
        BY <2>1, <2>2, <3>1
    <2>3. CASE toRelay'[b] = o
      BY <1>6, <2>1, <2>3
    <2>4. CASE toRelay'[b] = <<>>
      BY <1>6, <2>4
    <2>5. CASE o # <<>> /\ toRelay'[b] = Tail(o)
      <3>1. i + 1 \in 1..Len(o) /\ o[i + 1].p = q
        <4> HIDE DEF o
        <4> QED
          BY <1>6, <2>0, <2>5, Taken
      <3> QED
        BY <2>1, <3>1
    <2>6. ASSUME NEW p \in Phone, LinkWrite(p),
                 toRelay'[b] = Append(o, Frame("data", chan[p], p, down[p] + 1))
          PROVE  Uses(q)
      <3>1. Frame("data", chan[p], p, down[p] + 1).p = p /\ Uses(p)
        BY <2>6 DEF LinkWrite, Uses, Frame
      <3> HIDE DEF o
      <3> QED
        BY <2>2, <2>6, <3>1, FramesSentFit
    <2>7. ASSUME NEW p \in Phone, SendClose(p),
                 toRelay'[b] = Append(o, Frame("close", chan[p], p, 0))
          PROVE  Uses(q)
      <3>1. Frame("close", chan[p], p, 0).p = p /\ Uses(p)
        BY <2>7 DEF SendClose, Uses, Frame
      <3> HIDE DEF o
      <3> QED
        BY <2>2, <2>7, <3>1, FramesSentFit
    <2> HIDE DEF o
    <2>8. ToRelayMoves(b)
      BY ToRelayStep
    <2> QED
      BY <2>3, <2>4, <2>5, <2>6, <2>7, <2>8 DEF ToRelayMoves, o
  <1> QED
    BY <1>2, <1>3, <1>5, <1>6 DEF Uses

\* Unless a number in use is handed out, a number in use stays one phone's.
LEMMA NumbersAreOwnStep ==
  ASSUME TypeOK, Placed, FramesBelong, ChannelsAgree, PhonesAgree, Service, RelayBelongs, Opens,
         NumbersAreOwn, [Next]_vars, [GivesRested]_vars
  PROVE  NumbersAreOwn'
  <1> SUFFICES ASSUME NEW p \in Phone, NEW q \in Phone, Uses(p)', Uses(q)',
                      at'[p] = at'[q], chan'[p] = chan'[q], p # q
               PROVE  FALSE
    BY DEF NumbersAreOwn
  <1>0. ASSUME NEW x \in Phone, Register(x), stage'[x] = "announce",
               NEW y \in Phone \ {x}, Uses(y), at[y] = at[x]
        PROVE  chan[y] # chan'[x]
    <2>1. CASE GivesRested
      BY <1>0, <2>1 DEF GivesRested
    <2>2. CASE UNCHANGED vars
      <3>1. stage[x] = "found" /\ stage'[x] \in {"done", "announce"}
        BY <1>0, RegisterIs DEF TypeOK, PhoneTypes
      <3> QED
        BY <2>2, <3>1 DEF vars, phoneVars
    <2> QED
      BY <2>1, <2>2
  <1>1. ASSUME NEW x \in Phone, Uses(x) PROVE at'[x] = at[x] /\ chan'[x] = chan[x]
    BY <1>1, UsesNumbered, NumbersStay DEF NumbersKept, TypeOK
  <1>2. ASSUME NEW x \in Phone, NEW y \in Phone, x # y, Register(x), stage'[x] = "announce",
               Uses(y), at'[x] = at'[y], chan'[x] = chan'[y]
        PROVE  FALSE
    <2>1. at'[x] = at[x]
      BY <1>2, RegisterIs
    <2> QED
      BY <1>0, <1>1, <1>2, <2>1
  <1>3. ASSUME Register(p), Register(q), stage[p] = "found", stage'[p] = "announce" PROVE FALSE
    <2>1. \E s \in {"done", "announce"} : stage' = [stage EXCEPT ![q] = s]
      BY <1>3, RegisterIs
    <2> QED
      BY <1>3, <2>1 DEF TypeOK, PhoneTypes
  <1>4. Uses(p) \/ (Register(p) /\ stage[p] = "found" /\ stage'[p] = "announce")
    BY UsesStep
  <1>5. Uses(q) \/ (Register(q) /\ stage[q] = "found" /\ stage'[q] = "announce")
    BY UsesStep
  <1>6. CASE Uses(p) /\ Uses(q)
    BY <1>1, <1>6 DEF NumbersAreOwn
  <1> QED
    BY <1>2, <1>3, <1>4, <1>5, <1>6

\* A link is finished only with its phone, its socket or its inbox.
LEMMA SurvivesStep ==
  ASSUME TypeOK, Placed, FramesBelong, ChannelsAgree, NumbersAreOwn, PhonesAgree, Started,
         Service, Opens, LeftIsClosed, InOrder, OtherPhoneSurvives, [Next]_vars
  PROVE  OtherPhoneSurvives'
  <1> DEFINE Why(p) == ws[p] = "closed" \/ sock[at[p]] = "down" \/ up[p] > InboxCap
  <1> SUFFICES ASSUME NEW p \in Phone, link'[p] = "run", rc'[p] # "open"
               PROVE  Why(p)'
    BY DEF OtherPhoneSurvives
  <1>0. /\ link \in [Phone -> {"none", "run", "ended"}] /\ sock \in [Att -> {"none", "up", "down"}]
        /\ rc \in [Phone -> {"none", "open", "closing", "done"}] /\ up \in [Phone -> Nat]
        /\ channels \in [Att -> [Channel -> Phone \cup {NoPhone}]]
    BY DEF TypeOK, BridgeTypes, SockTypes, DataTypes
  <1>1. link[p] = "run"
    <2>1. CASE link'[p] = link[p]
      BY <2>1
    <2>2. ASSUME NEW a \in Att, MuxOpen(a), Arrived(a).p = p PROVE FALSE
      <3>1. rc'[p] = "open"
        BY <2>2 DEF MuxOpen
      <3> QED
        BY <3>1
    <2> QED
      BY <2>1, <2>2, LinkMovesStep DEF LinkMoves
  <1>2. at[p] \in Att /\ chan[p] \in Channel /\ at'[p] = at[p]
        /\ rc[p] # "none" /\ (rc[p] = "open" => channels[at[p]][chan[p]] = p)
    <2>1. Served(p)
      BY <1>1 DEF Service
    <2> QED
      BY <2>1, NumbersStay DEF Served, NumbersKept, Numbered, TypeOK
  <1>3. sock[at[p]] = "down" => sock'[at[p]] = "down"
    <2>1. CASE UNCHANGED vars
      BY <2>1 DEF vars, sockVars
    <2>2. ASSUME NEW a \in Att, Attach(a)
          PROVE  sock[at[p]] = "down" => sock'[at[p]] = "down"
      <3>1. at[p] # a
        BY <2>2 DEF Attach, Started
      <3> QED
        BY <1>0, <1>2, <2>2, <3>1 DEF Attach
    <2>3. ASSUME NEW a \in Att,
                 \/ Acknowledge(a) \/ ReadAck(a) \/ ReadFails(a) \/ RelayCloses(a)
                 \/ RelayForwards(a) \/ RelayReadFails(a) \/ Unregister(a) \/ Sweep(a)
                 \/ DrainCloses(a) \/ SocketFails(a) \/ MuxRead(a) \/ Crash(a)
          PROVE  sock[at[p]] = "down" => sock'[at[p]] = "down"
      BY <1>0, <1>2, <2>3 DEF Acknowledge, ReadAck, ReadFails, MuxEnds, RelayCloses,
         RelayForwards, RelayReadFails, Unregister, Sweep, DrainCloses, SocketFails, MuxRead,
         Crash, sockVars
    <2>4. ASSUME NEW q \in Phone,
                 \/ Connect(q) \/ Register(q) \/ Announce(q) \/ PhoneData(q)
                 \/ PhoneRefused(q) \/ Leave(q) \/ Tell(q) \/ LinkRead(q)
                 \/ LinkWrite(q) \/ LinkEnds(q) \/ LinkQuits(q) \/ SendClose(q) \/ PhoneGone(q)
          PROVE  UNCHANGED sock
      BY <2>4 DEF Connect, Register, Announce, PhoneData, PhoneRefused, Leave, Tell, LinkRead,
         LinkWrite, LinkEnds, LinkQuits, SendClose, PhoneGone, sockVars
    <2>5. ASSUME DrainTakes PROVE UNCHANGED sock
      BY <2>5 DEF DrainTakes, sockVars
    <2> QED
      BY <2>1, <2>2, <2>3, <2>4, <2>5
      DEF Next, Handler, Mux, PhoneHandler, PhoneReadFails, Environment
  <1>4. Why(p) => Why(p)'
    <2>1. ws[p] = "closed" => ws'[p] = "closed"
      BY PhoneMovesStep DEF PhoneMoves
    <2>2. up[p] > InboxCap => up'[p] > InboxCap
      <3>1. up[p] \in Nat /\ InboxCap \in Nat /\ (up'[p] = up[p] \/ up'[p] = up[p] + 1)
        BY <1>0, UpMoves
      <3> QED
        BY <3>1
    <2> QED
      BY <1>2, <1>3, <2>1, <2>2
  <1>5. CASE rc[p] # "open"
    BY <1>1, <1>4, <1>5 DEF OtherPhoneSurvives
  <1> SUFFICES ASSUME rc[p] = "open" PROVE Why(p)'
    BY <1>5
  <1>6. ASSUME UNCHANGED rc PROVE FALSE
    BY <1>6
  <1>7. CASE UNCHANGED vars
    BY <1>6, <1>7 DEF vars, bridgeVars
  <1>8. ASSUME NEW a \in Att,
               \/ Attach(a) \/ Acknowledge(a) \/ RelayCloses(a) \/ RelayForwards(a)
               \/ RelayReadFails(a) \/ Unregister(a) \/ Sweep(a) \/ DrainCloses(a)
               \/ SocketFails(a)
        PROVE  UNCHANGED rc
    BY <1>8 DEF Attach, Acknowledge, RelayCloses, RelayForwards, RelayReadFails, Unregister,
       Sweep, DrainCloses, SocketFails, bridgeVars
  <1>9. ASSUME NEW q \in Phone,
               \/ Connect(q) \/ Register(q) \/ Announce(q) \/ PhoneData(q)
               \/ PhoneRefused(q) \/ Leave(q) \/ Tell(q) \/ LinkRead(q) \/ LinkWrite(q)
               \/ PhoneGone(q) \/ LinkQuits(q)
        PROVE  UNCHANGED rc
    BY <1>9 DEF Connect, Register, Announce, PhoneData, PhoneRefused, Leave, Tell, LinkRead,
       LinkWrite, PhoneGone, LinkQuits, bridgeVars
  <1>10. ASSUME DrainTakes PROVE UNCHANGED rc
    BY <1>10 DEF DrainTakes, bridgeVars
  <1>11. ASSUME NEW a \in Att, MuxEnds(a) PROVE Why(p)'
    <2>1. \E c \in Channel : channels[a][c] = p
      BY <1>11 DEF MuxEnds
    <2>2. at[p] = a
      BY <2>1 DEF ChannelsAgree
    <2> QED
      BY <1>0, <1>2, <1>11, <2>2 DEF MuxEnds
  <1>12. ASSUME NEW a \in Att,
                \/ ReadAck(a) \/ ReadFails(a)
         PROVE  Why(p)'
    BY <1>6, <1>11, <1>12 DEF ReadAck, ReadFails
  <1>13. ASSUME NEW a \in Att, Crash(a) PROVE FALSE
    BY <1>0, <1>1, <1>13 DEF Crash
  <1>14. ASSUME NEW q \in Phone, SendClose(q) PROVE FALSE
    BY <1>0, <1>14 DEF SendClose
  <1>15. ASSUME NEW q \in Phone, LinkEnds(q) PROVE FALSE
    BY <1>0, <1>15 DEF LinkEnds
  <1>16. ASSUME NEW a \in Att, MuxRead(a) PROVE Why(p)'
    <2> DEFINE f == Arrived(a)
               o == channels[a][f.c]
    <2>1. /\ toBridge[a] # <<>> /\ toBridge[a] \in Seq(Frames)
          /\ 1 \in 1..Len(toBridge[a]) /\ f = toBridge[a][1] /\ f = Head(toBridge[a])
          /\ UNCHANGED <<ws, up, at, mux>> /\ mux[a] = "on"
      BY <1>16, Taken DEF MuxRead, Arrived, TypeOK, SockTypes, phoneVars, dataVars
    <2>2. f.t # "attached" =>
            f.p \in Phone /\ f.c \in Channel /\ at[f.p] = a
      BY <2>1, ArrivedBelongs DEF Belongs
    <2>3. f.t # "attached" /\ o # NoPhone => o = f.p
      BY <2>1, ArrivedIsOwn
    <2>4. NoPhone # p
      OBVIOUS
    <2>5. CASE MuxOpen(a)
      <3>1. p = o /\ f.p # p /\ f.t = "open"
        BY <1>0, <2>5 DEF MuxOpen
      <3> QED
        BY <2>3, <2>4, <3>1
    <2>6. CASE MuxRemoteClosed(a)
      <3>1. p = o /\ f.t = "close"
        BY <1>0, <2>6 DEF MuxRemoteClosed
      <3>2. f.p = p /\ stage[p] = "done"
        BY <2>1, <2>3, <2>4, <3>1 DEF Opens
      <3>3. ws[p] = "closed"
        BY <1>1, <3>2 DEF LeftIsClosed
      <3> QED
        BY <2>1, <3>3
    <2>7. CASE MuxDeliver(a)
      <3>1. f.t = "data" /\ f.c \in Channel
        BY <2>2, <2>7 DEF MuxDeliver
      <3>2. p = o /\ ~(Len(inbox[p]) < InboxCap)
        BY <1>0, <2>7, <3>1 DEF MuxDeliver
      <3>3. f.p = p /\ at[p] = a /\ IsData(f, p)
        BY <2>2, <2>3, <2>4, <3>1, <3>2 DEF IsData
      <3> DEFINE m == Len(gotUp[p]) + Len(inbox[p])
      <3>4. /\ Len(gotUp[p]) \in Nat /\ Len(inbox[p]) \in Nat /\ m \in Nat /\ up[p] \in Nat
            /\ InboxCap \in Nat
        BY <1>0 DEF TypeOK, BridgeTypes, DataTypes
      <3>5. Continues(toBridge[a], p, m, up[p])
        BY <2>1, <3>3 DEF InOrder, UpPipe
      <3> HIDE DEF f, o
      <3>6. m + 1 <= up[p]
        <4> HIDE DEF m
        <4> QED
          BY <2>1, <3>3, <3>4, <3>5, ContinuesTail
      <3>7. \A x, y, z, w \in Nat : ~(y < w) /\ (x + y) + 1 <= z => z > w
        OBVIOUS
      <3>8. up[p] > InboxCap
        BY <3>2, <3>4, <3>6, <3>7
      <3> QED
        BY <2>1, <3>8
    <2> QED
      BY <1>16, <2>5, <2>6, <2>7 DEF MuxRead
  <1> HIDE DEF Why
  <1> QED
    BY <1>6, <1>7, <1>8, <1>9, <1>10, <1>12, <1>13, <1>14, <1>15, <1>16
    DEF Next, Handler, Mux, PhoneHandler, PhoneReadFails, Environment

-----------------------------------------------------------------------------
(* The pipes: the invariant, while numbers rest. *)

\* The invariant holds at first ...
LEMMA InitPipe == Init => PipeInv
  <1> SUFFICES ASSUME Init PROVE PipeInv
    OBVIOUS
  <1> USE DEF Init
  <1>1. NumbersAreOwn
    BY DEF NumbersAreOwn, Uses
  <1>2. Started /\ PhonesAgree
    BY DEF Started, PhonesAgree, NoPhones
  <1>3. Service
    BY DEF Service, NotServed
  <1>4. RelayBelongs /\ Opens
    BY DEF RelayBelongs, Opens
  <1>5. OpenIsComing /\ LeftIsClosed /\ OtherPhoneSurvives
    BY DEF OpenIsComing, LeftIsClosed, OtherPhoneSurvives
  <1>6. InOrder
    BY DEF InOrder, UpPipe, DownPipe
  <1> QED
    BY <1>1, <1>2, <1>3, <1>4, <1>5, <1>6 DEF PipeInv

\* ... after every step that hands out no number in use ...
LEMMA PipeStep == LinkInv /\ PipeInv /\ [Next]_vars /\ [GivesRested]_vars => PipeInv'
  <1> SUFFICES ASSUME LinkInv, PipeInv, [Next]_vars, [GivesRested]_vars PROVE PipeInv'
    OBVIOUS
  <1>1. /\ TypeOK /\ Placed /\ FramesBelong /\ OneMux /\ ChannelsAgree
        /\ NumbersAreOwn /\ Started /\ PhonesAgree /\ Service /\ RelayBelongs
        /\ Opens /\ OpenIsComing /\ LeftIsClosed /\ InOrder /\ OtherPhoneSurvives
    BY DEF LinkInv, PipeInv
  <1>2. NumbersAreOwn' /\ Started' /\ PhonesAgree'
    BY <1>1, NumbersAreOwnStep, StartedStep, PhonesAgreeStep
  <1>3. Service' /\ RelayBelongs'
    BY <1>1, ServiceStep, RelayBelongsStep
  <1>4. Opens' /\ OpenIsComing' /\ LeftIsClosed'
    BY <1>1, OpensStep, OpenIsComingStep, LeftIsClosedStep
  <1>5. InOrder'
    <2>1. \A p \in Phone : UpPipe(p)'
      BY <1>1, UpPipeStep DEF InOrder
    <2>2. \A p \in Phone : DownPipe(p)'
      BY <1>1, DownPipeStep DEF InOrder
    <2> QED
      BY <2>1, <2>2 DEF InOrder
  <1>6. OtherPhoneSurvives'
    BY <1>1, SurvivesStep
  <1> QED
    BY <1>2, <1>3, <1>4, <1>5, <1>6 DEF PipeInv

\* ... and so always, while numbers rest.
LEMMA PipeInductive == Spec /\ NumbersRest => []PipeInv
  BY Inductive, InitPipe, PipeStep, PTL DEF Spec, NumbersRest

\* While numbers rest, a channel whose link still runs is finished only when its own phone
\* is gone, the socket has failed, or the phone has sent more than the inbox holds.
THEOREM OtherPhoneSurvivesHolds == Spec /\ NumbersRest => []OtherPhoneSurvives
  <1>1. PipeInv => OtherPhoneSurvives
    BY DEF PipeInv
  <1> QED
    BY PipeInductive, <1>1, PTL

-----------------------------------------------------------------------------
(* The refinement: every step of relay and bridge is a step of the pipes. *)

\* Every step of relay and bridge is a step of the pipes, or none.
LEMMA DirectStep ==
  LinkInv /\ PipeInv /\ [Next]_vars => [Pipe!Next]_(Pipe!pipeVars)
  <1> SUFFICES ASSUME LinkInv, PipeInv, [Next]_vars
               PROVE  Pipe!Next \/ UNCHANGED Pipe!pipeVars
    OBVIOUS
  <1>1. /\ TypeOK /\ FramesBelong /\ ChannelsAgree
        /\ NumbersAreOwn /\ PhonesAgree /\ RelayBelongs /\ Opens /\ InOrder
    BY DEF LinkInv, PipeInv
  <1>2. /\ link \in [Phone -> {"none", "run", "ended"}] /\ up \in [Phone -> Nat]
        /\ down \in [Phone -> Nat] /\ gotUp \in [Phone -> Seq(Message)]
        /\ gotDown \in [Phone -> Seq(Message)] /\ inbox \in [Phone -> Seq(Message)]
        /\ toBridge \in [Att -> Seq(Frames)] /\ toRelay \in [Att -> Seq(Frames)]
    BY <1>1 DEF TypeOK, BridgeTypes, DataTypes, SockTypes
  <1>3. ASSUME UNCHANGED <<link, up, gotUp, down, gotDown>> PROVE UNCHANGED Pipe!pipeVars
    BY <1>3 DEF Pipe!pipeVars
  <1>4. ASSUME NEW a \in Att, MuxRead(a), MuxOpen(a) PROVE Pipe!Next
    <2>1. 1 \in 1..Len(toBridge[a]) /\ Arrived(a) = toBridge[a][1]
      BY <1>2, <1>4, Taken DEF MuxRead, Arrived
    <2>2. Arrived(a).t = "open" /\ Arrived(a).p \in Phone
      BY <1>1, <1>4, ArrivedBelongs DEF MuxOpen, MuxRead, Belongs
    <2>3. link[Arrived(a).p] = "none"
      BY <1>1, <2>1, <2>2 DEF Opens
    <2>4. Pipe!Serve(Arrived(a).p)
      BY <1>4, <2>3 DEF MuxRead, MuxOpen, dataVars, Pipe!Serve
    <2> QED
      BY <2>2, <2>4 DEF Pipe!Next
  <1>5. ASSUME NEW P \in SUBSET Phone, \A p \in P : link[p] = "run",
               link' = [p \in Phone |-> IF p \in P THEN "ended" ELSE link[p]],
               UNCHANGED dataVars
        PROVE  Pipe!Next
    <2>1. Pipe!End(P)
      BY <1>5 DEF dataVars, Pipe!End
    <2> QED
      BY <2>1 DEF Pipe!Next
  <1>6. ASSUME NEW q \in Phone, LinkEnds(q) PROVE Pipe!Next
    <2> DEFINE P == {q}
    <2>1. UNCHANGED dataVars
          /\ link' = [p \in Phone |-> IF p \in P THEN "ended" ELSE link[p]]
      BY <1>2, <1>6 DEF LinkEnds
    <2>2. P \in SUBSET Phone /\ \A p \in P : link[p] = "run"
      BY <1>6 DEF LinkEnds
    <2> HIDE DEF P
    <2> QED
      BY <1>5, <2>1, <2>2
  <1>7. ASSUME NEW a \in Att, Crash(a) PROVE Pipe!Next
    <2> DEFINE P == {p \in Phone : link[p] = "run"}
    <2>1. UNCHANGED dataVars
          /\ link' = [p \in Phone |-> IF p \in P THEN "ended" ELSE link[p]]
      BY <1>7 DEF Crash
    <2>2. P \in SUBSET Phone /\ \A p \in P : link[p] = "run"
      OBVIOUS
    <2> HIDE DEF P
    <2> QED
      BY <1>5, <2>1, <2>2
  <1>8. ASSUME NEW q \in Phone, PhoneData(q) PROVE Pipe!Next
    <2>1. Pipe!PhoneSends(q)
      BY <1>8 DEF PhoneData, bridgeVars, Pipe!PhoneSends
    <2> QED
      BY <2>1 DEF Pipe!Next
  <1>9. ASSUME NEW q \in Phone, LinkWrite(q) PROVE Pipe!Next
    <2>1. Pipe!BridgeSends(q)
      BY <1>9 DEF LinkWrite, bridgeVars, Pipe!BridgeSends
    <2> QED
      BY <2>1 DEF Pipe!Next
  <1>10. ASSUME NEW q \in Phone, LinkRead(q) PROVE Pipe!Next
    <2>1. /\ link[q] = "run" /\ inbox[q] # <<>> /\ UNCHANGED <<link, up, down, gotDown>>
          /\ gotUp' = [gotUp EXCEPT ![q] = Append(@, Head(inbox[q]))]
      BY <1>10 DEF LinkRead
    <2>2. /\ Len(gotUp[q]) + Len(inbox[q]) <= up[q]
          /\ \A i \in 1..Len(inbox[q]) : inbox[q][i] = <<q, Len(gotUp[q]) + i>>
      BY <1>1 DEF InOrder, UpPipe
    <2>3. Len(inbox[q]) \in Nat /\ Len(inbox[q]) # 0 /\ Head(inbox[q]) = inbox[q][1]
      BY <1>2, <2>1
    <2>4. Head(inbox[q]) = <<q, Len(gotUp[q]) + 1>>
      BY <2>2, <2>3
    <2>5. Len(gotUp[q]) < up[q]
      <3>1. \A x, y, z \in Nat : y # 0 /\ x + y <= z => x < z
        OBVIOUS
      <3>2. Len(gotUp[q]) \in Nat /\ up[q] \in Nat
        BY <1>2
      <3> QED
        BY <2>2, <2>3, <3>1, <3>2
    <2>6. Pipe!BridgeTakes(q)
      BY <2>1, <2>4, <2>5 DEF Pipe!BridgeTakes
    <2> QED
      BY <2>6 DEF Pipe!Next
  <1>11. ASSUME NEW a \in Att, RelayForwards(a) PROVE Pipe!Next
    <2> DEFINE f == Incoming(a)
               o == phones[a][f.c]
    <2>1. /\ UNCHANGED <<link, up, gotUp, down>> /\ toRelay[a] # <<>> /\ f = Head(toRelay[a])
          /\ o # NoPhone /\ f.t = "data" /\ handler[a] = "loop"
          /\ gotDown' = [gotDown EXCEPT ![o] = Append(@, <<f.p, f.n>>)]
      BY <1>11 DEF RelayForwards, bridgeVars, Incoming
    <2>2. f.p \in Phone /\ f.c \in Channel /\ chan[f.p] = f.c /\ at[f.p] = a /\ o = f.p
      BY <1>1, <2>1, IncomingIsOwn
    <2> HIDE DEF f
    <2>3. Continues(toRelay[a], o, Len(gotDown[o]), down[o]) /\ IsData(f, o)
      BY <1>1, <2>1, <2>2 DEF InOrder, DownPipe, IsData
    <2> HIDE DEF o
    <2>4. f.n = Len(gotDown[o]) + 1 /\ Len(gotDown[o]) + 1 <= down[o]
      <3>1. o \in Phone /\ Len(gotDown[o]) \in Nat /\ down[o] \in Nat
        BY <1>2, <2>2
      <3> QED
        BY <1>2, <2>1, <2>3, <3>1, ContinuesTail
    <2>5. Len(gotDown[o]) < down[o]
      <3>1. \A x, z \in Nat : x + 1 <= z => x < z
        OBVIOUS
      <3>2. Len(gotDown[o]) \in Nat /\ down[o] \in Nat
        BY <1>2, <2>2
      <3> QED
        BY <2>4, <3>1, <3>2
    <2>6. gotDown' = [gotDown EXCEPT ![o] = Append(@, <<o, Len(@) + 1>>)]
      BY <2>1, <2>2, <2>4
    <2>7. Pipe!PhoneTakes(o)
      BY <2>1, <2>5, <2>6 DEF Pipe!PhoneTakes
    <2> QED
      BY <2>2, <2>7 DEF Pipe!Next
  <1>17. ASSUME NEW q \in Phone, LinkQuits(q) PROVE Pipe!Next
    <2> DEFINE P == {q}
    <2>1. UNCHANGED dataVars
          /\ link' = [p \in Phone |-> IF p \in P THEN "ended" ELSE link[p]]
      BY <1>2, <1>17 DEF LinkQuits
    <2>2. P \in SUBSET Phone /\ \A p \in P : link[p] = "run"
      BY <1>17 DEF LinkQuits
    <2> HIDE DEF P
    <2> QED
      BY <1>5, <2>1, <2>2
  <1> HIDE DEF Pipe!Next, Pipe!pipeVars
  <1>12. ASSUME NEW a \in Att, MuxRead(a) PROVE Pipe!Next \/ UNCHANGED Pipe!pipeVars
    BY <1>3, <1>4, <1>12 DEF MuxRead, MuxRemoteClosed, MuxDeliver, dataVars
  <1>13. CASE UNCHANGED vars
    BY <1>3, <1>13 DEF vars, bridgeVars, dataVars
  <1>14. ASSUME NEW a \in Att,
                \/ Attach(a) \/ Acknowledge(a) \/ ReadAck(a) \/ ReadFails(a)
                \/ RelayCloses(a) \/ RelayReadFails(a) \/ Unregister(a) \/ Sweep(a)
                \/ DrainCloses(a) \/ SocketFails(a)
         PROVE  UNCHANGED Pipe!pipeVars
    BY <1>3, <1>14 DEF Attach, Acknowledge, ReadAck, ReadFails, RelayCloses, RelayReadFails,
       Unregister, Sweep, DrainCloses, SocketFails, bridgeVars, dataVars
  <1>15. ASSUME NEW q \in Phone,
                \/ Connect(q) \/ Register(q) \/ Announce(q) \/ PhoneRefused(q)
                \/ Leave(q) \/ Tell(q) \/ SendClose(q) \/ PhoneGone(q)
         PROVE  UNCHANGED Pipe!pipeVars
    BY <1>3, <1>15 DEF Connect, Register, Announce, PhoneRefused, Leave, Tell, SendClose,
       PhoneGone, bridgeVars, dataVars
  <1>16. CASE DrainTakes
    BY <1>3, <1>16 DEF DrainTakes, bridgeVars, dataVars
  <1> QED
    BY <1>6, <1>7, <1>8, <1>9, <1>10, <1>11, <1>12, <1>13, <1>14, <1>15, <1>16, <1>17
    DEF Next, Handler, Mux, PhoneHandler, PhoneReadFails, Environment

\* While numbers rest, relay and bridge are a pair of pipes for each phone: "served by the
\* bridge exactly like a direct one" (internal/bridge/relay_client.go:18-20).
THEOREM ExactlyLikeDirectHolds == Spec /\ NumbersRest => ExactlyLikeDirect
  <1>1. Init => Pipe!Init
    BY DEF Init, Pipe!Init
  <1> QED
    BY <1>1, DirectStep, Inductive, PipeInductive, PTL
    DEF Spec, ExactlyLikeDirect, Pipe!Spec

-----------------------------------------------------------------------------
(* The pipes: numbers rest as long as the counter has not wrapped. *)

\* Below its largest value the counter gives out the number above it.
LEMMA NextIsFree ==
  ASSUME NEW a \in Att, nextCh[a] \in 0..(MaxCh - 1), phones[a][nextCh[a] + 1] = NoPhone
  PROVE  FreeChannel(a) = nextCh[a] + 1
  <1> DEFINE Free(k) == phones[a][Tried(nextCh[a], k)] = NoPhone
             first == CHOOSE k \in Channel : Free(k) /\ \A j \in 1..(k - 1) : ~Free(j)
  <1>1. Tried(nextCh[a], 1) = nextCh[a] + 1 /\ 1 \in Channel
    BY DEF Tried, Channel
  <1>2. Free(1)
    BY <1>1
  <1> HIDE DEF Free
  <1>3. Free(1) /\ \A j \in 1..(1 - 1) : ~Free(j)
    BY <1>2
  <1>4. first \in Channel /\ Free(first) /\ \A j \in 1..(first - 1) : ~Free(j)
    BY <1>1, <1>3
  <1>5. first = 1
    <2> HIDE DEF first
    <2>1. first \in Nat /\ first >= 1
      BY <1>4 DEF Channel
    <2>2. first # 1 => 1 \in 1..(first - 1)
      BY <2>1
    <2> QED
      BY <1>2, <1>4, <2>2
  <1>6. FreeChannel(a) = Tried(nextCh[a], first)
    BY DEF FreeChannel, Free
  <1> QED
    BY <1>1, <1>5, <1>6

\* A counter that has not wrapped is below its largest value when a phone asks, and the
\* number above it is free.
LEMMA CountedGives ==
  ASSUME IsFiniteSet(Phone), Cardinality(Phone) <= MaxCh,
         TypeOK, Placed, PhonesAgree, Counted, NEW p \in Phone, Register(p)
  PROVE  /\ at[p] \in Att /\ chan[p] = 0 /\ p \notin Given(at[p]) /\ IsFiniteSet(Given(at[p]))
         /\ nextCh[at[p]] \in 0..(MaxCh - 1) /\ FreeChannel(at[p]) = nextCh[at[p]] + 1
  <1> DEFINE a == at[p]
             n == nextCh[a]
  <1>1. a \in Att /\ chan[p] = 0 /\ p \notin Given(a)
    BY RegisterIs DEF Counted, Given
  <1>2. n \in Nat /\ n <= MaxCh - 1 /\ IsFiniteSet(Given(a))
    <2>1. Given(a) \in SUBSET Phone /\ Given(a) # Phone
      BY <1>1 DEF Given
    <2>2. /\ IsFiniteSet(Given(a)) /\ Cardinality(Given(a)) <= Cardinality(Phone)
          /\ Cardinality(Given(a)) # Cardinality(Phone)
          /\ Cardinality(Given(a)) \in Nat /\ Cardinality(Phone) \in Nat
      BY <2>1, FS_Subset, FS_CardinalityType
    <2>3. n = Cardinality(Given(a))
      BY <1>1 DEF Counted
    <2> QED
      BY <2>2, <2>3
  <1> HIDE DEF n
  <1>3. n + 1 \in Channel
    BY <1>2 DEF Channel
  <1>4. phones[a][n + 1] = NoPhone
    <2>1. SUFFICES ASSUME phones[a][n + 1] # NoPhone PROVE FALSE
      OBVIOUS
    <2> DEFINE q == phones[a][n + 1]
    <2>2. q \in Phone /\ at[q] = a /\ chan[q] = n + 1
      BY <1>1, <1>3, <2>1 DEF PhonesAgree, TypeOK, RelayTypes
    <2>3. chan[q] <= n
      BY <1>1, <2>2 DEF Counted, n
    <2> QED
      BY <1>2, <2>2, <2>3
  <1>5. n \in 0..(MaxCh - 1)
    BY <1>2
  <1> QED
    BY <1>1, <1>2, <1>4, <1>5, NextIsFree DEF n

\* Every step keeps the counter equal to how many phones have numbers.
LEMMA CountedStep ==
  ASSUME IsFiniteSet(Phone), Cardinality(Phone) <= MaxCh,
         TypeOK, Placed, PhonesAgree, Counted, [Next]_vars
  PROVE  Counted'
  <1>0. /\ at \in [Phone -> Att \cup {NoAtt}] /\ chan \in [Phone -> 0..MaxCh]
        /\ nextCh \in [Att -> 0..MaxCh] /\ stage \in [Phone -> PhoneStage]
    BY DEF TypeOK, RelayTypes, PhoneTypes
  <1>1. ASSUME UNCHANGED <<nextCh, at, chan>>,
               \A q \in Phone : stage'[q] \in {"new", "found"} => stage[q] \in {"new", "found"}
        PROVE  Counted'
    <2>1. \A a \in Att : Given(a)' = Given(a)
      BY <1>1 DEF Given
    <2> QED
      BY <1>1, <2>1 DEF Counted
  <1>2. CASE UNCHANGED vars
    BY <1>1, <1>2 DEF vars, relayVars, phoneVars
  <1>3. ASSUME NEW a \in Att,
               \/ Attach(a) \/ Acknowledge(a) \/ ReadAck(a) \/ ReadFails(a)
               \/ RelayCloses(a) \/ RelayForwards(a) \/ RelayReadFails(a)
               \/ Unregister(a) \/ Sweep(a) \/ DrainCloses(a) \/ SocketFails(a)
               \/ MuxRead(a) \/ Crash(a)
        PROVE  Counted'
    <2>1. UNCHANGED <<nextCh, at, chan, stage>>
      BY <1>3 DEF Attach, Acknowledge, ReadAck, ReadFails, RelayCloses, RelayForwards,
         RelayReadFails, Unregister, Sweep, DrainCloses, SocketFails, MuxRead, Crash,
         relayVars, phoneVars
    <2> QED
      BY <1>1, <2>1
  <1>4. ASSUME NEW q \in Phone,
               \/ PhoneData(q) \/ LinkRead(q) \/ LinkWrite(q) \/ LinkEnds(q) \/ LinkQuits(q)
               \/ SendClose(q) \/ PhoneGone(q)
        PROVE  Counted'
    <2>1. UNCHANGED <<nextCh, at, chan, stage>>
      BY <1>4 DEF PhoneData, LinkRead, LinkWrite, LinkEnds, LinkQuits, SendClose, PhoneGone,
         relayVars, phoneVars
    <2> QED
      BY <1>1, <2>1
  <1>5. CASE DrainTakes
    BY <1>1, <1>5 DEF DrainTakes, phoneVars
  <1>6. ASSUME NEW q \in Phone,
               \/ Announce(q) \/ PhoneRefused(q) \/ Leave(q) \/ Tell(q)
        PROVE  Counted'
    <2>1. UNCHANGED <<nextCh, at, chan>>
          /\ \E s \in {"loop", "leave", "tell", "done"} : stage' = [stage EXCEPT ![q] = s]
      BY <1>6 DEF Announce, PhoneRefused, Leave, Tell, relayVars
    <2> QED
      BY <1>0, <1>1, <2>1
  <1>7. ASSUME NEW q \in Phone, Connect(q) PROVE Counted'
    <2>1. /\ UNCHANGED <<nextCh, chan>> /\ stage[q] = "new" /\ at' = [at EXCEPT ![q] = session]
          /\ \A x \in Phone \ {q} : stage'[x] = stage[x]
      BY <1>0, <1>7 DEF Connect, relayVars
    <2>2. chan[q] = 0
      BY <2>1 DEF Counted
    <2>3. \A a \in Att : Given(a)' = Given(a)
      BY <1>0, <2>1, <2>2 DEF Given
    <2>4. ASSUME NEW x \in Phone
          PROVE  /\ stage'[x] \in {"new", "found"} => chan'[x] = 0
                 /\ at'[x] \in Att => chan'[x] <= nextCh'[at'[x]]
      BY <1>0, <2>1, <2>2, <2>4 DEF Counted
    <2> QED
      BY <2>1, <2>3, <2>4 DEF Counted
  <1>8. ASSUME NEW q \in Phone, Register(q) PROVE Counted'
    <2> DEFINE a == at[q]
               n == nextCh[a]
    <2>1. /\ a \in Att /\ chan[q] = 0 /\ q \notin Given(a) /\ IsFiniteSet(Given(a))
          /\ n \in 0..(MaxCh - 1) /\ FreeChannel(a) = n + 1
      BY <1>8, CountedGives
    <2>2. CASE stage' = [stage EXCEPT ![q] = "done"] /\ UNCHANGED <<phones, nextCh, chan>>
      <3>1. at' = at
        BY <1>8, RegisterIs
      <3>2. \A x \in Phone : stage'[x] \in {"new", "found"} => stage[x] \in {"new", "found"}
        BY <1>0, <2>2
      <3> QED
        BY <1>1, <2>2, <3>1, <3>2
    <2>3. CASE /\ nextCh' = [nextCh EXCEPT ![a] = n + 1] /\ chan' = [chan EXCEPT ![q] = n + 1]
               /\ stage' = [stage EXCEPT ![q] = "announce"] /\ at' = at
      <3>1. Given(a)' = Given(a) \cup {q} /\ \A b \in Att \ {a} : Given(b)' = Given(b)
        BY <1>0, <2>1, <2>3 DEF Given
      <3>2. n = Cardinality(Given(a))
        BY <2>1 DEF Counted
      <3> HIDE DEF n
      <3>3. Cardinality(Given(a) \cup {q}) = n + 1
        BY <2>1, <3>2, FS_AddElement
      <3>4. \A b \in Att : nextCh'[b] = Cardinality(Given(b)')
        BY <1>0, <2>1, <2>3, <3>1, <3>3 DEF Counted
      <3>5. ASSUME NEW x \in Phone
            PROVE  /\ stage'[x] \in {"new", "found"} => chan'[x] = 0
                   /\ at'[x] \in Att => chan'[x] <= nextCh'[at'[x]]
        <4>1. CASE x = q
          BY <1>0, <2>1, <2>3, <4>1
        <4>2. CASE x # q
          <5>1. stage'[x] = stage[x] /\ chan'[x] = chan[x] /\ at'[x] = at[x]
            BY <1>0, <2>3, <4>2
          <5>2. at[x] \in Att => chan[x] <= nextCh[at[x]]
            BY DEF Counted
          <5>3. at[x] \in Att =>
                  nextCh'[at[x]] = nextCh[at[x]] \/ (at[x] = a /\ nextCh'[a] = n + 1)
            BY <1>0, <2>1, <2>3
          <5>4. at[x] = a => chan[x] <= n + 1
            BY <1>0, <2>1, <5>2 DEF n
          <5>5. stage[x] \in {"new", "found"} => chan[x] = 0
            BY DEF Counted
          <5> QED
            BY <5>1, <5>2, <5>3, <5>4, <5>5
        <4> QED
          BY <4>1, <4>2
      <3> QED
        BY <3>4, <3>5 DEF Counted
    <2>4. at' = at /\ (\/ stage' = [stage EXCEPT ![q] = "done"] /\ UNCHANGED <<phones, nextCh, chan>>
                     \/ \E c \in Channel :
                          /\ c = FreeChannel(a) /\ nextCh' = [nextCh EXCEPT ![a] = c]
                          /\ chan' = [chan EXCEPT ![q] = c]
                          /\ stage' = [stage EXCEPT ![q] = "announce"])
      BY <1>8, RegisterIs
    <2> HIDE DEF a, n
    <2> QED
      BY <2>1, <2>2, <2>3, <2>4
  <1> QED
    BY <1>2, <1>3, <1>4, <1>5, <1>6, <1>7, <1>8
    DEF Next, Handler, Mux, PhoneHandler, PhoneReadFails, Environment

\* A counter that has not wrapped hands out no number twice: numbers rest if all phones there
\* are fit below its largest value (65535, relay.go:353-364).
THEOREM NumbersRestUntilWrap ==
  ASSUME IsFiniteSet(Phone), Cardinality(Phone) <= MaxCh
  PROVE  Spec => NumbersRest
  <1> DEFINE CountInv == PhonesAgree /\ Counted
  <1>1. Init => CountInv
    <2> SUFFICES ASSUME Init PROVE CountInv
      OBVIOUS
    <2>1. \A a \in Att : Given(a) = {}
      BY DEF Init, Given
    <2> QED
      BY <2>1, FS_EmptySet DEF Init, PhonesAgree, Counted, NoPhones
  <1>2. LinkInv /\ CountInv /\ [Next]_vars => CountInv'
    BY CountedStep, PhonesAgreeStep DEF LinkInv
  <1>3. LinkInv /\ CountInv => [GivesRested]_vars
    <2> SUFFICES ASSUME LinkInv, CountInv, NEW p \in Phone, Register(p),
                        stage'[p] = "announce", NEW q \in Phone \ {p}, at[q] = at[p]
                 PROVE  chan[q] # chan'[p]
      BY DEF GivesRested
    <2> DEFINE n == nextCh[at[p]]
    <2>1. TypeOK /\ Placed
      BY DEF LinkInv
    <2>2. at[p] \in Att /\ n \in 0..(MaxCh - 1) /\ FreeChannel(at[p]) = n + 1
      BY <2>1, CountedGives
    <2>3. stage' = [stage EXCEPT ![p] = "done"] \/ chan' = [chan EXCEPT ![p] = n + 1]
      BY <2>1, <2>2, RegisterIs
    <2>4. chan'[p] = n + 1
      BY <2>1, <2>3 DEF TypeOK, PhoneTypes
    <2>5. chan[q] <= n /\ chan[q] \in Nat
      BY <2>1, <2>2 DEF Counted, TypeOK, PhoneTypes
    <2> HIDE DEF n
    <2> QED
      BY <2>2, <2>4, <2>5
  <1> QED
    BY <1>1, <1>2, <1>3, Inductive, PTL DEF Spec, NumbersRest

\* So they are pipes for as many phones as there are numbers, at least.
THEOREM DirectUntilWrap ==
  ASSUME IsFiniteSet(Phone), Cardinality(Phone) <= MaxCh
  PROVE  Spec => ExactlyLikeDirect /\ []OtherPhoneSurvives
  BY NumbersRestUntilWrap, ExactlyLikeDirectHolds, OtherPhoneSurvivesHolds, PTL

=============================================================================
