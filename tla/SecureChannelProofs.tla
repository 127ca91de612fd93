------------------------ MODULE SecureChannelProofs ------------------------
(* Proofs about SecureChannel: its inductive invariant, and what it promises *)
(* for any number of senders, of messages and of frames.                     *)
EXTENDS SecureChannel, SequenceTheorems, TLAPS

USE SecureChannelAssumption

\* Every message takes at least one frame, and one only when it is not split.
LEMMA FramesPositive ==
  ASSUME NEW size \in 1..MaxSize
  PROVE  /\ FrameCount(size) \in Nat \ {0}
         /\ ~IsChunked(size) => FrameCount(size) = 1
         /\ IsChunked(size) \in BOOLEAN
  <1>1. CASE IsChunked(size)
    <2>1. size + ChunkThreshold - 1 \in Nat /\ size + ChunkThreshold - 1 >= ChunkThreshold
      BY <1>1 DEF IsChunked
    <2>2. ASSUME NEW n \in Nat, NEW d \in Nat \ {0}, n >= d PROVE n \div d \in Nat \ {0}
      BY <2>2
    <2>3. Ceil(size, ChunkThreshold) \in Nat \ {0}
      BY <2>1, <2>2 DEF Ceil
    <2> QED
      BY <1>1, <2>3 DEF FrameCount, IsChunked
  <1>2. CASE ~IsChunked(size)
    BY <1>2 DEF FrameCount, IsChunked
  <1> QED
    BY <1>1, <1>2

\* What the frame of a chunk is made of.
LEMMA FrameIsTyped ==
  ASSUME Types, NEW m \in Nat, NEW i \in Nat, NEW ctr \in Nat, IsChunk(m, i)
  PROVE  /\ FrameOf(m, i, ctr) \in Frame
         /\ FrameOf(m, i, ctr).data = <<m, i>>
         /\ FrameOf(m, i, ctr).ctr = ctr
         /\ FrameOf(m, i, ctr).index = i
         /\ FrameOf(m, i, ctr).count = FrameCount(sizes[m])
         /\ FrameOf(m, i, ctr).chunked = IsChunked(sizes[m])
         /\ FrameOf(m, i, ctr).size \in Int
  <1>1. sizes[m] \in 1..MaxSize /\ sizes[m] \in Nat
    BY DEF Types, IsChunk
  <1>2. FrameCount(sizes[m]) \in Nat /\ IsChunked(sizes[m]) \in BOOLEAN
    BY <1>1, FramesPositive
  <1>3. ChunkSize(sizes[m], i) \in Int
    BY <1>1 DEF ChunkSize, LesserOf
  <1> QED
    BY <1>2, <1>3 DEF FrameOf, Frame

\* The first n chunks of message m.
Chunks(m, n) == [j \in 1..n |-> <<m, j - 1>>]

\* One chunk more of the message in the assembler.
LEMMA OneMore ==
  ASSUME NEW m \in Nat, NEW n \in Nat
  PROVE  /\ Chunks(m, n) \in Seq(Nat \X Nat) /\ Chunks(m, n + 1) \in Seq(Nat \X Nat)
         /\ Append(Chunks(m, n), <<m, n>>) = Chunks(m, n + 1)
  <1> DEFINE f == Chunks(m, n)
  <1>1. \A i \in 1..n : f[i] \in Nat \X Nat /\ f[i] = <<m, i - 1>>
    BY DEF Chunks
  <1>2. f \in Seq(Nat \X Nat) /\ Len(f) = n
    BY <1>1 DEF Chunks
  <1> HIDE DEF f
  <1>3. Append(f, <<m, n>>) = [i \in 1..(n + 1) |-> IF i <= n THEN f[i] ELSE <<m, n>>]
    BY <1>2
  <1>4. Append(f, <<m, n>>) = Chunks(m, n + 1)
    <2> DEFINE g == Append(f, <<m, n>>)
    <2>1. \A j \in 1..(n + 1) : j <= n \/ j = n + 1
      OBVIOUS
    <2>2. DOMAIN g = 1..(n + 1) /\ g = [j \in DOMAIN g |-> g[j]]
      BY <1>3
    <2>3. \A j \in 1..(n + 1) : g[j] = <<m, j - 1>>
      BY <1>1, <1>3, <2>1
    <2> HIDE DEF g
    <2>4. g = [j \in 1..(n + 1) |-> <<m, j - 1>>]
      BY <2>2, <2>3
    <2> QED
      BY <2>4 DEF g, Chunks
  <1>5. Append(f, <<m, n>>) \in Seq(Nat \X Nat)
    BY <1>2
  <1> QED
    BY <1>2, <1>4, <1>5 DEF f

USE DEF sendVars, recvVars

-----------------------------------------------------------------------------
(* Taking up a message leaves what is said of the earlier ones. *)

LEMMA SizesGrow ==
  ASSUME Types, NEW size \in 1..MaxSize, sizes' = Append(sizes, size)
  PROVE  /\ sizes' \in Seq(1..MaxSize) /\ Len(sizes') = Len(sizes) + 1
         /\ \A m \in 1..Len(sizes) : sizes'[m] = sizes[m]
         /\ sizes'[Len(sizes) + 1] = size
         /\ \A m, i : IsChunk(m, i) => IsChunk(m, i)'
         /\ \A m, i, ctr : IsChunk(m, i) => FrameOf(m, i, ctr)' = FrameOf(m, i, ctr)
         /\ \A d : IsChunk(d[1], d[2]) => NextChunk(d)' = NextChunk(d)
         /\ \A m \in 1..Len(sizes) : Whole(m)' = Whole(m)
  <1>1. /\ sizes' \in Seq(1..MaxSize) /\ Len(sizes') = Len(sizes) + 1
        /\ \A m \in 1..Len(sizes) : sizes'[m] = sizes[m]
        /\ sizes'[Len(sizes) + 1] = size
    BY DEF Types
  <1>2. \A m, i : IsChunk(m, i) => IsChunk(m, i)'
    BY <1>1 DEF IsChunk
  <1>3. \A m, i, ctr : IsChunk(m, i) => FrameOf(m, i, ctr)' = FrameOf(m, i, ctr)
    BY <1>1 DEF IsChunk, FrameOf
  <1>4. \A d : IsChunk(d[1], d[2]) => NextChunk(d)' = NextChunk(d)
    BY <1>1 DEF IsChunk, NextChunk
  <1>5. \A m \in 1..Len(sizes) : Whole(m)' = Whole(m)
    BY <1>1 DEF Whole
  <1> QED
    BY <1>1, <1>2, <1>3, <1>4, <1>5

LEMMA BeginStep ==
  ASSUME ChannelInv, NEW s \in Sender, NEW size \in 1..MaxSize, Begin(s, size)
  PROVE  ChannelInv'
  <1> USE DEF ChannelInv, Begin
  <1> Types /\ sizes' = Append(sizes, size)
    OBVIOUS
  <1>1. /\ sizes' \in Seq(1..MaxSize) /\ Len(sizes') = Len(sizes) + 1
        /\ \A m \in 1..Len(sizes) : sizes'[m] = sizes[m]
        /\ sizes'[Len(sizes) + 1] = size
        /\ \A m, i : IsChunk(m, i) => IsChunk(m, i)'
        /\ \A m, i, ctr : IsChunk(m, i) => FrameOf(m, i, ctr)' = FrameOf(m, i, ctr)
        /\ \A d : IsChunk(d[1], d[2]) => NextChunk(d)' = NextChunk(d)
        /\ \A m \in 1..Len(sizes) : Whole(m)' = Whole(m)
    BY SizesGrow
  <1>2. Types'
    <2>1. /\ Len(sizes) \in Nat /\ Len(sizes) + 1 \in Nat
          /\ sending \in [Sender -> Nat] /\ next \in [Sender -> Nat]
      BY DEF Types
    <2>2. sending' \in [Sender -> Nat] /\ next' \in [Sender -> Nat]
      <3> DEFINE n == Len(sizes) + 1
      <3>1. sending' = [sending EXCEPT ![s] = n] /\ next' = [next EXCEPT ![s] = 0] /\ n \in Nat
        BY <2>1
      <3> HIDE DEF n
      <3> QED
        BY <2>1, <3>1
    <2>3. UNCHANGED <<sealed, sendCtr, failed, wire, broken, recvCtr, asm, delivered>>
      OBVIOUS
    <2> QED
      BY <1>1, <2>2, <2>3 DEF Types
  <1>n. PICK n \in Nat : n = Len(sizes) + 1
    BY DEF Types
  <1>3. IsChunk(n, 0)'
    <2>1. FrameCount(sizes'[n]) \in Nat \ {0}
      BY <1>1, <1>n, FramesPositive
    <2> QED
      BY <1>1, <1>n, <2>1 DEF IsChunk
  <1>4. \A t \in Sender : sending[t] = 0 /\ sealed[t] = <<>>
    BY DEF SendMuFree, OneSend
  <1>5. OneSend'
    <2>1. \A t \in Sender : IF t = s THEN sending'[t] = n /\ next'[t] = 0
                            ELSE sending'[t] = 0
      BY <1>4, <1>n DEF Types
    <2> QED
      BY <1>3, <1>4, <2>1 DEF OneSend
  <1>6. ErrorsAreEarned'
    <2>1. DOMAIN sizes = 1..Len(sizes) /\ DOMAIN sizes' = 1..Len(sizes')
      BY <1>1 DEF Types
    <2>2. \A m \in DOMAIN sizes : m \in DOMAIN sizes' /\ sizes'[m] = sizes[m]
      <3>1. Len(sizes) \in Nat
        BY DEF Types
      <3> QED
        BY <1>1, <2>1, <3>1
    <2>3. UNCHANGED <<delivered, verdict, failed>>
      OBVIOUS
    <2> QED
      BY <2>2, <2>3 DEF ErrorsAreEarned
  <1>7. DeliversInOrder'
    BY <1>1 DEF DeliversInOrder, Types
  <1> SUFFICES ASSUME verdict = "ok"
               PROVE  InSequence' /\ LossIsKnown' /\ SenderFollows' /\ Assembled'
    BY <1>2, <1>5, <1>6, <1>7
  <1>8. \A k \in 1..(Len(wire) + 1) : AwaitedAt(k)' = AwaitedAt(k)
    <2> SUFFICES ASSUME NEW k \in 1..(Len(wire) + 1) PROVE AwaitedAt(k)' = AwaitedAt(k)
      OBVIOUS
    <2>1. CASE k = 1
      BY <2>1 DEF AwaitedAt, Awaited
    <2>2. CASE k # 1
      <3>1. k - 1 \in 1..Len(wire)
        BY <2>2 DEF Types
      <3>2. IsChunk(wire[k - 1].data[1], wire[k - 1].data[2])
        BY <3>1 DEF InSequence
      <3> QED
        BY <1>1, <2>2, <3>2 DEF AwaitedAt
    <2> QED
      BY <2>1, <2>2
  <1>9. InSequence'
    <2> SUFFICES ASSUME NEW k \in 1..Len(wire), NEW d, d = wire[k].data
                 PROVE  /\ IsChunk(d[1], d[2])'
                        /\ wire[k] = FrameOf(d[1], d[2], wire[k].ctr)'
                        /\ wire[k].ctr = recvCtr + k => d = AwaitedAt(k)'
      BY DEF InSequence
    <2>1. /\ IsChunk(d[1], d[2])
          /\ wire[k] = FrameOf(d[1], d[2], wire[k].ctr)
          /\ wire[k].ctr = recvCtr + k => d = AwaitedAt(k)
      BY DEF InSequence
    <2>2. IsChunk(d[1], d[2])' /\ wire[k] = FrameOf(d[1], d[2], wire[k].ctr)'
      BY <1>1, <2>1 DEF FrameOf, IsChunk
    <2>3. k \in 1..(Len(wire) + 1)
      BY DEF Types
    <2> QED
      BY <1>8, <2>1, <2>2, <2>3
  <1>10. NextCtr' = NextCtr
    BY DEF NextCtr
  <1>11. LossIsKnown'
    <2>1. \A k : CtrAt(k)' = CtrAt(k) /\ CtrBefore(k)' = CtrBefore(k)
      BY <1>10 DEF CtrAt, CtrBefore
    <2> QED
      BY <1>8, <2>1 DEF LossIsKnown
  <1>12. SenderFollows'
    <2>1. NextCtr = recvCtr + Len(wire) + 1 /\ sendCtr < MaxCounter => End = <<Len(sizes) + 1, 0>>
      BY DEF SenderFollows
    <2>2. End' = End
      BY <1>8 DEF End, Types
    <2>3. \A t \in Sender : sending'[t] # 0 => t = s /\ sending'[t] = Len(sizes)' /\ next'[t] = 0
      BY <1>1, <1>4 DEF Types
    <2>4. ~SendMuFree'
      BY <1>1, <1>4 DEF SendMuFree, Types
    <2> QED
      BY <1>1, <1>4, <1>10, <2>1, <2>2, <2>3, <2>4 DEF SenderFollows
  <1>13. Assembled'
    BY <1>1 DEF Assembled, IsChunk
  <1> QED
    BY <1>9, <1>11, <1>12, <1>13

-----------------------------------------------------------------------------
(* Every other step leaves the messages alone. *)

LEMMA SizesStay ==
  ASSUME sizes' = sizes
  PROVE  /\ \A m, i : IsChunk(m, i)' <=> IsChunk(m, i)
         /\ \A m, i, ctr : FrameOf(m, i, ctr)' = FrameOf(m, i, ctr)
         /\ \A d : NextChunk(d)' = NextChunk(d)
         /\ \A m : Whole(m)' = Whole(m)
  BY DEF IsChunk, FrameOf, NextChunk, Whole

\* A step of the sender that writes nothing leaves the receiver's part.
LEMMA ReceiverStays ==
  ASSUME ChannelInv, sizes' = sizes, wire' = wire, failed \subseteq failed', UNCHANGED recvVars
  PROVE  /\ ErrorsAreEarned' /\ DeliversInOrder' /\ End' = End
         /\ \A k : AwaitedAt(k)' = AwaitedAt(k) /\ CtrBefore(k)' = CtrBefore(k)
         /\ verdict' = "ok" => verdict = "ok" /\ InSequence' /\ Assembled'
         /\ verdict' = "ok" /\ NextCtr' = NextCtr => LossIsKnown'
  <1> USE DEF ChannelInv
  <1>1. ErrorsAreEarned'
    BY DEF ErrorsAreEarned
  <1>2. DeliversInOrder'
    BY DEF DeliversInOrder, Whole
  <1>3. \A k : AwaitedAt(k)' = AwaitedAt(k) /\ CtrBefore(k)' = CtrBefore(k)
    BY DEF AwaitedAt, Awaited, NextChunk, CtrBefore
  <1>4. End' = End
    BY <1>3 DEF End
  <1>5. InSequence' <=> InSequence
    BY <1>3 DEF InSequence, IsChunk, FrameOf
  <1>6. Assembled' <=> Assembled
    BY DEF Assembled, IsChunk
  <1>7. verdict = "ok" /\ NextCtr' = NextCtr => LossIsKnown'
    <2> SUFFICES ASSUME verdict = "ok", NextCtr' = NextCtr PROVE LossIsKnown'
      OBVIOUS
    <2>1. \A k : CtrAt(k)' = CtrAt(k)
      BY DEF CtrAt
    <2> QED
      BY <1>3, <2>1 DEF LossIsKnown
  <1> QED
    BY <1>1, <1>2, <1>3, <1>4, <1>5, <1>6, <1>7

LEMMA SealStep ==
  ASSUME ChannelInv, NEW s \in Sender, Seal(s)
  PROVE  ChannelInv'
  <1> USE DEF ChannelInv, Seal
  <1>1. PICK m \in Nat, i \in Nat, c \in Nat :
          /\ m = sending[s] /\ i = next[s] /\ c = sendCtr + 1 /\ c \in 0..MaxCounter
    BY DEF Types
  <1>2. m # 0 /\ IsChunk(m, i)
    BY <1>1 DEF OneSend
  <1>3. sealed' = [sealed EXCEPT ![s] = <<FrameOf(m, i, c)>>] /\ sendCtr' = c
    BY <1>1
  <1>4. FrameOf(m, i, c) \in Frame
    BY <1>2, FrameIsTyped
  <1>5. Types'
    BY <1>1, <1>3, <1>4 DEF Types
  <1>6. /\ \A t \in Sender : sealed'[t] = IF t = s THEN <<FrameOf(m, i, c)>> ELSE sealed[t]
        /\ <<FrameOf(m, i, c)>> # <<>>
    BY <1>3 DEF Types
  <1>7. \A t \in Sender \ {s} : sending[t] = 0 /\ sealed[t] = <<>>
    BY <1>1, <1>2 DEF OneSend
  <1>8. OneSend'
    <2>1. \A t \in Sender : sending[t] # 0 => IsChunk(sending[t], next[t])'
      BY DEF OneSend, IsChunk
    <2>2. sealed'[s] = <<FrameOf(sending[s], next[s], sendCtr)'>>
      BY <1>1, <1>3, <1>6 DEF FrameOf
    <2> QED
      BY <1>1, <1>2, <1>6, <1>7, <2>1, <2>2 DEF OneSend
  <1>9. NextCtr' = NextCtr
    <2>1. NextCtr = sendCtr + 1
      BY <1>7 DEF NextCtr
    <2>2. NextCtr' = sendCtr'
      BY <1>6 DEF NextCtr
    <2> QED
      BY <1>1, <1>3, <2>1, <2>2
  <1>10. ~SendMuFree'
    BY <1>1, <1>2 DEF SendMuFree
  <1>11. SenderFollows /\ End' = End => SenderFollows'
    BY <1>1, <1>7, <1>9, <1>10 DEF SenderFollows
  <1> QED
    BY <1>5, <1>8, <1>9, <1>11, ReceiverStays

LEMMA SealFailsStep ==
  ASSUME ChannelInv, NEW s \in Sender, SealFails(s)
  PROVE  ChannelInv'
  <1> USE DEF ChannelInv, SealFails, Return
  <1>1. Types'
    BY DEF Types
  <1>2. \A t \in Sender : sending'[t] = (IF t = s THEN 0 ELSE sending[t])
                         /\ (t # s => next'[t] = next[t] /\ sending[t] = 0)
    BY DEF Types, OneSend
  <1>3. OneSend'
    BY <1>2 DEF OneSend, IsChunk, FrameOf
  <1>4. NextCtr' = NextCtr
    BY DEF NextCtr
  <1>5. \A t \in Sender : sealed[t] = <<>> /\ sending'[t] = 0
    BY <1>2 DEF OneSend
  <1>6. SenderFollows'
    BY <1>5 DEF SenderFollows, Types
  <1> QED
    BY <1>1, <1>3, <1>4, <1>6, ReceiverStays

\* The frame is lost: its counter is missing from now on.
LEMMA WriteFailsStep ==
  ASSUME ChannelInv, NEW s \in Sender, WriteFails(s)
  PROVE  ChannelInv'
  <1> USE DEF ChannelInv, WriteFails, Return
  <1>1. Types'
    <2>1. sending[s] \in Nat /\ broken' \in BOOLEAN
      BY DEF Types
    <2>2. failed' \subseteq Nat
      BY <2>1 DEF Types
    <2> QED
      BY <2>1, <2>2 DEF Types
  <1>2. sending[s] # 0
    BY DEF OneSend
  <1>3. \A t \in Sender : sending'[t] = 0 /\ sealed'[t] = <<>>
    BY <1>2 DEF Types, OneSend
  <1>4. OneSend'
    BY <1>3 DEF OneSend
  <1>5. /\ failed \subseteq failed' /\ wire' = wire /\ sizes' = sizes
        /\ UNCHANGED recvVars /\ sending[s] \in failed'
    OBVIOUS
  <1> SUFFICES ASSUME verdict = "ok" PROVE LossIsKnown' /\ SenderFollows'
    BY <1>1, <1>4, <1>5, ReceiverStays
  <1>6. NextCtr = sendCtr /\ NextCtr' = sendCtr + 1 /\ sendCtr \in Nat /\ recvCtr \in Nat /\ Len(wire) \in Nat
    BY <1>3 DEF NextCtr, Types
  <1>7. sendCtr >= recvCtr + Len(wire) + 1
    <2>1. CtrAt(Len(wire) + 1) = sendCtr
      BY <1>6 DEF CtrAt
    <2> QED
      BY <1>6, <2>1 DEF LossIsKnown
  <1>8. sendCtr = recvCtr + Len(wire) + 1 => End[1] \in failed'
    <2>1. sendCtr = recvCtr + Len(wire) + 1 => End = <<sending[s], next[s]>>
      BY <1>2, <1>6 DEF SenderFollows
    <2> QED
      BY <2>1
  <1>9. \A k : AwaitedAt(k)' = AwaitedAt(k) /\ CtrBefore(k)' = CtrBefore(k)
    BY <1>5, ReceiverStays
  <1>10. LossIsKnown'
    <2> SUFFICES ASSUME NEW k \in 1..(Len(wire) + 1)
                 PROVE  /\ CtrAt(k)' >= recvCtr + k
                        /\ CtrBefore(k) + 1 = recvCtr + k /\ CtrAt(k)' # recvCtr + k =>
                             AwaitedAt(k)[1] \in failed'
      BY <1>9 DEF LossIsKnown
    <2>1. /\ CtrAt(k) >= recvCtr + k
          /\ CtrBefore(k) + 1 = recvCtr + k /\ CtrAt(k) # recvCtr + k => AwaitedAt(k)[1] \in failed
      BY DEF LossIsKnown
    <2>2. CASE k \in 1..Len(wire)
      BY <2>1, <2>2, CtrAt(k)' = CtrAt(k) DEF CtrAt
    <2>3. CASE k = Len(wire) + 1
      <3>1. CtrAt(k) = sendCtr /\ CtrAt(k)' = sendCtr + 1
        BY <1>6, <2>3 DEF CtrAt
      <3>2. AwaitedAt(k) = End
        BY <2>3 DEF End
      <3>3. sendCtr = recvCtr + k => AwaitedAt(k)[1] \in failed'
        BY <1>6, <1>8, <2>3, <3>2
      <3> QED
        BY <1>5, <1>6, <1>7, <2>1, <2>3, <3>1, <3>3
    <2> QED
      BY <1>6, <2>2, <2>3
  <1>11. SenderFollows'
    BY <1>3, <1>6, <1>7 DEF SenderFollows
  <1> QED
    BY <1>10, <1>11

\* A frame joins the end of the link.
LEMMA WriteStep ==
  ASSUME ChannelInv, NEW s \in Sender, Write(s)
  PROVE  ChannelInv'
  <1> USE DEF ChannelInv
  <1>0. /\ sealed[s] # <<>> /\ ~broken /\ wire' = wire \o sealed[s]
        /\ sealed' = [sealed EXCEPT ![s] = <<>>]
        /\ UNCHANGED <<sizes, sendCtr, failed, broken, recvVars>>
    BY DEF Write
  <1>1. PICK m \in Nat, i \in Nat, c \in Nat : m = sending[s] /\ i = next[s] /\ c = sendCtr
    BY DEF Types
  <1> DEFINE f == FrameOf(m, i, c)
  <1>2. m # 0 /\ IsChunk(m, i) /\ sealed[s] = <<f>>
    BY <1>0, <1>1 DEF OneSend
  <1>3. f \in Frame /\ f.data = <<m, i>>
    BY <1>2, FrameIsTyped
  <1> HIDE DEF f
  <1>4. /\ wire' = Append(wire, f) /\ wire' \in Seq(Frame) /\ Len(wire') = Len(wire) + 1
        /\ \A k \in 1..Len(wire) : wire'[k] = wire[k]
        /\ wire'[Len(wire) + 1] = f /\ wire' # <<>>
    BY <1>0, <1>2, <1>3 DEF Types
  <1>5. /\ m \in 1..Len(sizes)
        /\ FrameCount(sizes[m]) \in Nat \ {0} /\ i < FrameCount(sizes[m])
    <2>1. m \in 1..Len(sizes) /\ i < FrameCount(sizes[m])
      BY <1>2 DEF IsChunk
    <2>2. sizes \in Seq(1..MaxSize)
      BY DEF Types
    <2>3. sizes[m] \in 1..MaxSize
      BY <2>1, <2>2
    <2> QED
      BY <2>1, <2>3, FramesPositive
  <1>6. \/ /\ i + 1 < FrameCount(sizes[m])
           /\ next' = [next EXCEPT ![s] = i + 1] /\ sending' = sending
        \/ /\ ~(i + 1 < FrameCount(sizes[m]))
           /\ next' = [next EXCEPT ![s] = 0] /\ sending' = [sending EXCEPT ![s] = 0]
    BY <1>1 DEF Write, Return, Size
  <1>7. Types'
    <2> DEFINE j == i + 1
    <2>a. j \in Nat /\ next \in [Sender -> Nat] /\ sending \in [Sender -> Nat]
      BY DEF Types
    <2>b. \/ next' = [next EXCEPT ![s] = j] /\ sending' = sending
          \/ next' = [next EXCEPT ![s] = 0] /\ sending' = [sending EXCEPT ![s] = 0]
      BY <1>6
    <2> HIDE DEF j
    <2>1. sending' \in [Sender -> Nat] /\ next' \in [Sender -> Nat]
      BY <2>a, <2>b
    <2>2. sealed' \in [Sender -> Seq(Frame)]
      BY <1>0 DEF Types
    <2>3. failed' = failed
      BY <1>0
    <2> QED
      BY <1>0, <1>4, <2>1, <2>2, <2>3 DEF Types
  <1>8. /\ \A t \in Sender \ {s} : sending[t] = 0 /\ sealed[t] = <<>> /\ sending'[t] = 0
        /\ \A t \in Sender : sealed'[t] = <<>>
    BY <1>0, <1>1, <1>2, <1>6 DEF OneSend, Types
  <1>9. OneSend'
    <2>1. sending'[s] # 0 => IsChunk(sending[s], next[s])'
      <3>1. /\ next \in [Sender -> Nat] /\ sending \in [Sender -> Nat]
            /\ sending[s] = m /\ sizes' = sizes
        BY <1>0, <1>1 DEF Types
      <3>2. sending'[s] # 0 =>
              sending'[s] = m /\ next'[s] = i + 1 /\ i + 1 < FrameCount(sizes[m])
        <4> DEFINE j == i + 1
        <4>1. \/ /\ j < FrameCount(sizes[m])
                 /\ next' = [next EXCEPT ![s] = j] /\ sending' = sending
              \/ sending' = [sending EXCEPT ![s] = 0]
          BY <1>6
        <4> HIDE DEF j
        <4>2. sending'[s] # 0 => sending'[s] = m /\ next'[s] = j /\ j < FrameCount(sizes[m])
          BY <3>1, <4>1
        <4> QED
          BY <4>2 DEF j
      <3> QED
        BY <1>5, <3>1, <3>2 DEF IsChunk, FrameCount, IsChunked
    <2> QED
      BY <1>8, <2>1 DEF OneSend
  <1>10. ErrorsAreEarned'
    BY <1>0 DEF ErrorsAreEarned
  <1>11. DeliversInOrder'
    BY <1>0 DEF DeliversInOrder, Whole
  <1> SUFFICES ASSUME verdict = "ok"
               PROVE  InSequence' /\ LossIsKnown' /\ SenderFollows' /\ Assembled'
    BY <1>0, <1>7, <1>9, <1>10, <1>11
  <1>12. Assembled'
    BY <1>0 DEF Assembled, IsChunk
  <1>13. m = Len(sizes) /\ (c = recvCtr + Len(wire) + 1 => End = <<m, i>>)
    <2>1. NextCtr = c
      BY <1>0, <1>1 DEF NextCtr
    <2> QED
      BY <1>0, <1>1, <1>2, <2>1 DEF SenderFollows
  <1>14. c \in Nat /\ recvCtr \in Nat /\ recvCtr' = recvCtr /\ Len(wire) \in Nat /\ f.ctr = c
    BY <1>0, <1>1 DEF Types, f, FrameOf
  <1>15. NextCtr = c /\ NextCtr' = c + 1
    BY <1>0, <1>1, <1>8 DEF NextCtr
  <1>l. PICK n \in Nat : n = Len(wire)
    BY <1>14
  <1>16. /\ \A k \in 1..n : CtrAt(k)' = CtrAt(k)
         /\ CtrAt(n + 1) = c /\ CtrAt(n + 1)' = c
         /\ CtrAt(n + 2)' = c + 1
    BY <1>4, <1>14, <1>15, <1>l DEF CtrAt
  <1>17. \A k \in 1..(Len(wire) + 1) : AwaitedAt(k)' = AwaitedAt(k) /\ CtrBefore(k)' = CtrBefore(k)
    <2> SUFFICES ASSUME NEW k \in 1..(Len(wire) + 1)
                 PROVE  AwaitedAt(k)' = AwaitedAt(k) /\ CtrBefore(k)' = CtrBefore(k)
      OBVIOUS
    <2>1. CASE k = 1
      BY <1>0, <2>1 DEF AwaitedAt, Awaited, CtrBefore
    <2>2. CASE k # 1
      <3>1. k - 1 \in 1..Len(wire)
        BY <1>14, <2>2
      <3>2. wire'[k - 1] = wire[k - 1]
        BY <1>4, <3>1
      <3> QED
        BY <1>0, <2>2, <3>2 DEF AwaitedAt, NextChunk, CtrBefore
    <2> QED
      BY <2>1, <2>2
  <1>18. InSequence'
    <2> SUFFICES ASSUME NEW k \in 1..(Len(wire) + 1), NEW d, d = wire'[k].data
                 PROVE  /\ IsChunk(d[1], d[2])'
                        /\ wire'[k] = FrameOf(d[1], d[2], wire[k].ctr)'
                        /\ wire'[k].ctr = recvCtr + k => d = AwaitedAt(k)
      BY <1>4, <1>14, <1>17 DEF InSequence
    <2>1. CASE k \in 1..Len(wire)
      <3>1. /\ IsChunk(d[1], d[2])
            /\ wire[k] = FrameOf(d[1], d[2], wire[k].ctr)
            /\ wire[k].ctr = recvCtr + k => d = AwaitedAt(k)
        BY <1>4, <2>1 DEF InSequence
      <3>2. wire'[k] = wire[k]
        BY <1>4, <2>1
      <3>3. IsChunk(d[1], d[2])' /\ wire'[k] = FrameOf(d[1], d[2], wire[k].ctr)'
        BY <1>0, <3>1, <3>2 DEF FrameOf, IsChunk
      <3> QED
        BY <3>1, <3>2, <3>3
    <2>2. CASE k = Len(wire) + 1
      <3>1. wire'[k] = f /\ d = <<m, i>>
        BY <1>3, <1>4, <2>2
      <3>2. IsChunk(d[1], d[2])'
        BY <1>0, <1>2, <3>1 DEF IsChunk
      <3>3. wire'[k] = FrameOf(d[1], d[2], wire[k].ctr)'
        <4>1. d[1] = m /\ d[2] = i /\ wire'[k].ctr = c
          BY <1>14, <3>1
        <4>2. FrameOf(d[1], d[2], wire[k].ctr)' = FrameOf(m, i, c)
          BY <1>0, <4>1 DEF FrameOf
        <4> QED
          BY <3>1, <4>2 DEF f
      <3>4. AwaitedAt(k) = End
        BY <2>2 DEF End
      <3> QED
        BY <1>13, <1>14, <2>2, <3>1, <3>2, <3>3, <3>4
    <2> QED
      BY <1>14, <2>1, <2>2
  <1>19. c >= recvCtr + Len(wire) + 1
    BY <1>14, <1>16, <1>l DEF LossIsKnown
  <1>20. LossIsKnown'
    <2> SUFFICES ASSUME NEW k \in 1..(Len(wire) + 2)
                 PROVE  /\ CtrAt(k)' >= recvCtr + k
                        /\ CtrBefore(k)' + 1 = recvCtr + k /\ CtrAt(k)' # recvCtr + k =>
                             AwaitedAt(k)'[1] \in failed
      BY <1>0, <1>4, <1>14 DEF LossIsKnown
    <2>1. CASE k \in 1..(Len(wire) + 1)
      <3>1. CtrAt(k)' = CtrAt(k)
        BY <1>14, <1>16, <1>l, <2>1
      <3> QED
        BY <1>17, <2>1, <3>1 DEF LossIsKnown
    <2>2. CASE k = Len(wire) + 2
      <3>1. CtrBefore(k)' = c
        <4>1. k # 1 /\ k - 1 = Len(wire) + 1
          BY <1>14, <2>2
        <4> QED
          BY <1>4, <1>14, <4>1 DEF CtrBefore
      <3> QED
        BY <1>14, <1>16, <1>19, <1>l, <2>2, <3>1
    <2> QED
      BY <1>14, <2>1, <2>2
  <1>21. End' = IF i + 1 < FrameCount(sizes[m]) THEN <<m, i + 1>> ELSE <<m + 1, 0>>
    <2>1. wire'[Len(wire')].data = <<m, i>>
      BY <1>3, <1>4
    <2>2. Len(wire') + 1 # 1 /\ Len(wire') + 1 - 1 = Len(wire')
      BY <1>4, <1>14
    <2>3. End' = NextChunk(wire[Len(wire)].data)'
      BY <2>2 DEF End, AwaitedAt
    <2> QED
      BY <1>0, <2>1, <2>3 DEF NextChunk
  <1>22. SenderFollows'
    <2>1. CASE i + 1 < FrameCount(sizes[m])
      <3>1. sending'[s] = m /\ next'[s] = i + 1 /\ ~SendMuFree'
        BY <1>1, <1>2, <1>6, <2>1 DEF SendMuFree, Types
      <3> QED
        BY <1>0, <1>8, <1>13, <1>21, <2>1, <3>1 DEF SenderFollows
    <2>2. CASE ~(i + 1 < FrameCount(sizes[m]))
      <3>1. \A t \in Sender : sending'[t] = 0
        BY <1>6, <1>8, <2>2 DEF Types
      <3> QED
        BY <1>0, <1>8, <1>13, <1>21, <2>2, <3>1 DEF SenderFollows
    <2> QED
      BY <2>1, <2>2
  <1> QED
    BY <1>12, <1>18, <1>20, <1>22

-----------------------------------------------------------------------------
(* The receiver takes the first frame of the link. *)

\* With the counter the receiver waits for comes the chunk it waits for.
LEMMA FirstFrame ==
  ASSUME ChannelInv, wire # <<>>, verdict = "ok", wire[1].ctr = recvCtr + 1, NEW m, NEW i,
         m = Len(delivered) + 1, i = asm.next
  PROVE  /\ m \in Nat \ {0} /\ i \in Nat /\ IsChunk(m, i)
         /\ wire[1] = FrameOf(m, i, recvCtr + 1) /\ wire[1].data = <<m, i>>
  <1>1. 1 \in 1..Len(wire) /\ Len(delivered) \in Nat /\ i \in Nat
    BY DEF ChannelInv, Types
  <1>2. wire[1].data = <<m, i>>
    BY <1>1 DEF ChannelInv, InSequence, AwaitedAt, Awaited
  <1>3. /\ IsChunk(wire[1].data[1], wire[1].data[2])
        /\ wire[1] = FrameOf(wire[1].data[1], wire[1].data[2], recvCtr + 1)
    BY <1>1 DEF ChannelInv, InSequence
  <1> QED
    BY <1>1, <1>2, <1>3

\* Another counter comes only where the message the receiver waits for has failed.
LEMMA OtherCounter ==
  ASSUME ChannelInv, wire # <<>>, verdict = "ok", wire[1].ctr # recvCtr + 1
  PROVE  Len(delivered) + 1 \in failed
  <1>1. 1 \in 1..(Len(wire) + 1) /\ 1 <= Len(wire)
    BY DEF ChannelInv, Types
  <1>2. CtrAt(1) = wire[1].ctr /\ CtrBefore(1) = recvCtr
    BY <1>1 DEF CtrAt, CtrBefore
  <1>3. AwaitedAt(1)[1] = Len(delivered) + 1
    BY DEF AwaitedAt, Awaited
  <1> QED
    BY <1>1, <1>2, <1>3 DEF ChannelInv, LossIsKnown

\* When the receiver goes on to the chunk after it, the link and the sender still follow.
LEMMA LinkStays ==
  ASSUME ChannelInv, wire # <<>>, verdict = "ok", wire' = Tail(wire), UNCHANGED sendVars,
         wire[1].ctr = recvCtr + 1, recvCtr' = recvCtr + 1, Awaited' = NextChunk(wire[1].data)
  PROVE  InSequence' /\ LossIsKnown' /\ SenderFollows'
  <1> USE DEF ChannelInv
  <1>1. /\ Len(wire) \in Nat \ {0} /\ Len(wire') = Len(wire) - 1
        /\ \A k \in 1..Len(wire') : wire'[k] = wire[k + 1]
        /\ recvCtr \in Nat
    BY DEF Types
  <1>2. \A k \in 1..(Len(wire') + 1) :
          AwaitedAt(k)' = AwaitedAt(k + 1) /\ CtrBefore(k)' = CtrBefore(k + 1)
    <2> SUFFICES ASSUME NEW k \in 1..(Len(wire') + 1)
                 PROVE  AwaitedAt(k)' = AwaitedAt(k + 1) /\ CtrBefore(k)' = CtrBefore(k + 1)
      OBVIOUS
    <2>1. k + 1 # 1 /\ k + 1 - 1 = k
      BY <1>1
    <2>2. AwaitedAt(k + 1) = NextChunk(wire[k].data) /\ CtrBefore(k + 1) = wire[k].ctr
      BY <2>1 DEF AwaitedAt, CtrBefore
    <2>3. CASE k = 1
      BY <2>2, <2>3 DEF AwaitedAt, CtrBefore
    <2>4. CASE k # 1
      <3>1. wire'[k - 1] = wire[k]
        BY <1>1, <2>4
      <3> QED
        BY <2>2, <2>4, <3>1 DEF AwaitedAt, CtrBefore, NextChunk
    <2> QED
      BY <2>3, <2>4
  <1>3. NextCtr' = NextCtr
    BY DEF NextCtr
  <1>4. \A k \in 1..(Len(wire') + 1) : CtrAt(k)' = CtrAt(k + 1)
    BY <1>1, <1>3 DEF CtrAt
  <1>5. InSequence'
    <2> SUFFICES ASSUME NEW k \in 1..Len(wire'), NEW d, d = wire'[k].data
                 PROVE  /\ IsChunk(d[1], d[2])'
                        /\ wire'[k] = FrameOf(d[1], d[2], wire[k].ctr)'
                        /\ wire'[k].ctr = recvCtr' + k => d = AwaitedAt(k)'
      BY DEF InSequence
    <2>1. k + 1 \in 1..Len(wire) /\ wire'[k] = wire[k + 1] /\ k \in 1..(Len(wire') + 1)
      BY <1>1
    <2>2. /\ IsChunk(d[1], d[2])
          /\ wire[k + 1] = FrameOf(d[1], d[2], wire[k + 1].ctr)
          /\ wire[k + 1].ctr = recvCtr + (k + 1) => d = AwaitedAt(k + 1)
      BY <2>1 DEF InSequence
    <2>3. recvCtr' + k = recvCtr + (k + 1)
      BY <1>1
    <2>4. IsChunk(d[1], d[2])' /\ wire'[k] = FrameOf(d[1], d[2], wire[k].ctr)'
      BY <2>1, <2>2 DEF IsChunk, FrameOf
    <2> QED
      BY <1>2, <2>1, <2>2, <2>3, <2>4
  <1>6. LossIsKnown'
    <2> SUFFICES ASSUME NEW k \in 1..(Len(wire') + 1)
                 PROVE  /\ CtrAt(k)' >= recvCtr' + k
                        /\ CtrBefore(k)' + 1 = recvCtr' + k /\ CtrAt(k)' # recvCtr' + k =>
                             AwaitedAt(k)'[1] \in failed
      BY DEF LossIsKnown
    <2>1. k + 1 \in 1..(Len(wire) + 1) /\ recvCtr' + k = recvCtr + (k + 1)
      BY <1>1
    <2> QED
      BY <1>2, <1>4, <2>1 DEF LossIsKnown
  <1>7. SenderFollows'
    <2>1. Len(wire') + 1 \in 1..(Len(wire') + 1) /\ Len(wire') + 1 + 1 = Len(wire) + 1
      BY <1>1
    <2>2. End' = End
      BY <1>2, <2>1 DEF End
    <2>3. recvCtr' + Len(wire') + 1 = recvCtr + Len(wire) + 1
      BY <1>1
    <2> QED
      BY <1>3, <2>2, <2>3 DEF SenderFollows, SendMuFree
  <1> QED
    BY <1>5, <1>6, <1>7

\* No chunk is longer than the threshold, and none ends beyond its message.
LEMMA ChunkFits ==
  ASSUME NEW size \in Nat, NEW i \in Nat, NEW held \in Int, held <= i * ChunkThreshold
  PROVE  /\ ChunkSize(size, i) \in Int
         /\ held + ChunkSize(size, i) <= size
         /\ held + ChunkSize(size, i) <= (i + 1) * ChunkThreshold
  <1>1. PICK a \in Int, b \in Int : a = i * ChunkThreshold /\ b = (i + 1) * ChunkThreshold
    OBVIOUS
  <1>2. ChunkSize(size, i) = (IF b <= size THEN b ELSE size) - a
    BY <1>1 DEF ChunkSize, LesserOf
  <1> QED
    BY <1>1, <1>2

LEMMA RecvStep ==
  ASSUME ChannelInv, Recv
  PROVE  ChannelInv'
  <1> USE DEF ChannelInv
  <1>0. /\ wire # <<>> /\ verdict = "ok" /\ wire' = Tail(wire)
        /\ UNCHANGED <<sendVars, broken>> /\ Head(wire) = wire[1]
    BY DEF Recv
  <1>1. PICK m, i : m = Len(delivered) + 1 /\ i = asm.next
    OBVIOUS
  <1>2. wire' \in Seq(Frame)
    BY <1>0 DEF Types
  <1>3. OneSend'
    BY <1>0 DEF OneSend, IsChunk, FrameOf
  <1>4. ASSUME NEW v \in {"counter", "size"}, Fails(v),
               v = "counter" => m \in failed,
               v = "size" => m \in DOMAIN sizes /\ sizes[m] > MaxPlaintext
        PROVE  ChannelInv'
    <2>1. verdict' = v /\ UNCHANGED <<recvCtr, asm, delivered>>
      BY <1>4 DEF Fails
    <2>2. Types'
      BY <1>0, <1>2, <2>1 DEF Types
    <2>3. DeliversInOrder'
      BY <1>0, <2>1 DEF DeliversInOrder, Whole
    <2>4. ErrorsAreEarned'
      BY <1>0, <1>1, <1>4, <2>1 DEF ErrorsAreEarned
    <2> QED
      BY <1>3, <1>4, <2>1, <2>2, <2>3, <2>4
  <1>5. CASE wire[1].ctr # recvCtr + 1
    <2>1. Fails("counter")
      BY <1>0, <1>5 DEF Recv
    <2> QED
      BY <1>0, <1>1, <1>4, <1>5, <2>1, OtherCounter
  <1> SUFFICES ASSUME wire[1].ctr = recvCtr + 1 PROVE ChannelInv'
    BY <1>5
  <1>6. /\ m \in Nat \ {0} /\ i \in Nat /\ IsChunk(m, i)
        /\ wire[1] = FrameOf(m, i, recvCtr + 1) /\ wire[1].data = <<m, i>>
    BY <1>0, <1>1, FirstFrame
  <1>7. /\ wire[1].ctr = recvCtr + 1 /\ wire[1].index = i
        /\ wire[1].count = FrameCount(sizes[m]) /\ wire[1].chunked = IsChunked(sizes[m])
        /\ wire[1].size = ChunkSize(sizes[m], i)
    BY <1>6 DEF FrameOf
  <1>8. /\ m \in 1..Len(sizes) /\ sizes[m] \in 1..MaxSize
        /\ FrameCount(sizes[m]) \in Nat \ {0} /\ i < FrameCount(sizes[m])
        /\ ~IsChunked(sizes[m]) => FrameCount(sizes[m]) = 1
    <2>1. m \in 1..Len(sizes) /\ sizes[m] \in 1..MaxSize /\ i < FrameCount(sizes[m])
      BY <1>6 DEF IsChunk, Types
    <2> QED
      BY <2>1, FramesPositive
  <1>9. /\ i > 0 => asm.count = FrameCount(sizes[m])
        /\ asm.buf = Chunks(m, i)
    BY <1>0, <1>1, <1>6 DEF Assembled, Chunks
  <1>10. Append(asm.buf, <<m, i>>) = Chunks(m, i + 1) /\ Chunks(m, i + 1) \in Seq(Nat \X Nat)
    BY <1>6, <1>9, OneMore
  <1>11. /\ wire[1].size \in Int /\ asm.size \in Int
         /\ asm.size + wire[1].size <= sizes[m]
         /\ asm.size + wire[1].size <= (i + 1) * ChunkThreshold
    <2>1. asm.size \in Int /\ asm.size <= i * ChunkThreshold /\ sizes[m] \in Nat
      BY <1>0, <1>1, <1>8 DEF Assembled, Types
    <2> QED
      BY <1>6, <1>7, <2>1, ChunkFits
  <1>12. ASSUME /\ recvCtr' = recvCtr + 1 /\ verdict' = verdict
                /\ i + 1 = FrameCount(sizes[m])
                /\ delivered' = Append(delivered, Chunks(m, i + 1))
                /\ asm'.next = 0 /\ asm'.buf = <<>> /\ asm'.size \in Int /\ asm'.size <= 0
         PROVE  ChannelInv'
    <2>1. /\ Len(delivered') = Len(delivered) + 1
          /\ delivered' \in Seq(Seq(Nat \X Nat))
          /\ \A k \in 1..Len(delivered) : delivered'[k] = delivered[k]
          /\ delivered'[m] = Chunks(m, i + 1)
      BY <1>1, <1>10, <1>12 DEF Types
    <2>2. Types'
      BY <1>0, <1>2, <1>12, <2>1 DEF Types
    <2>3. DeliversInOrder'
      <3>1. delivered'[m] = Whole(m)
        BY <1>12, <2>1 DEF Whole, Chunks
      <3>2. Len(delivered') <= Len(sizes')
        BY <1>0, <1>1, <1>8, <2>1
      <3>3. \A k \in 1..Len(delivered') : delivered'[k] = Whole(k)
        <4>1. \A k \in 1..Len(delivered) : delivered[k] = Whole(k)
          BY DEF DeliversInOrder, Types
        <4>2. \A k \in 1..Len(delivered') : k \in 1..Len(delivered) \/ k = m
          BY <1>1, <1>6, <2>1
        <4> QED
          BY <2>1, <3>1, <4>1, <4>2
      <3> QED
        BY <1>0, <2>1, <3>2, <3>3 DEF DeliversInOrder, Whole
    <2>4. Awaited' = NextChunk(wire[1].data)
      <3>1. asm'.next = 0 /\ Len(delivered') + 1 = m + 1 /\ sizes' = sizes
        BY <1>0, <1>1, <1>12, <2>1
      <3>2. wire[1].data[1] = m /\ wire[1].data[2] = i /\ ~(i + 1 < FrameCount(sizes[m]))
        BY <1>6, <1>8, <1>12
      <3>3. Awaited' = <<m + 1, 0>>
        BY <3>1 DEF Awaited
      <3>4. NextChunk(wire[1].data) = <<m + 1, 0>>
        BY <3>2 DEF NextChunk
      <3> QED
        BY <3>3, <3>4
    <2>5. InSequence' /\ LossIsKnown' /\ SenderFollows'
      BY <1>0, <1>12, <2>4, LinkStays
    <2>6. Assembled'
      BY <1>12 DEF Assembled
    <2>7. ErrorsAreEarned'
      BY <1>0, <1>12 DEF ErrorsAreEarned
    <2> QED
      BY <1>3, <2>2, <2>3, <2>5, <2>6, <2>7
  <1>13. ASSUME /\ recvCtr' = recvCtr + 1 /\ verdict' = verdict /\ delivered' = delivered
                /\ i + 1 # FrameCount(sizes[m])
                /\ asm'.buf = Chunks(m, i + 1) /\ asm'.size = asm.size + wire[1].size
                /\ asm'.next = i + 1 /\ asm'.count = FrameCount(sizes[m])
         PROVE  ChannelInv'
    <2>1. Types'
      <3>1. asm'.next \in Nat /\ asm'.size \in Int /\ recvCtr' \in Nat
        <4>1. PICK t \in Int : t = asm.size + wire[1].size
          BY <1>11
        <4>2. recvCtr \in Nat
          BY DEF Types
        <4> QED
          BY <1>6, <1>13, <4>1, <4>2
      <3> QED
        BY <1>0, <1>2, <1>13, <3>1 DEF Types
    <2>2. DeliversInOrder'
      BY <1>0, <1>13 DEF DeliversInOrder, Whole
    <2>3. i + 1 < FrameCount(sizes[m])
      BY <1>6, <1>8, <1>13
    <2>4. Awaited' = NextChunk(wire[1].data)
      BY <1>1, <1>6, <1>13, <2>3 DEF Awaited, NextChunk
    <2>5. InSequence' /\ LossIsKnown' /\ SenderFollows'
      BY <1>0, <1>13, <2>4, LinkStays
    <2>6. Assembled'
      <3>1. asm'.size <= asm'.next * ChunkThreshold
        BY <1>11, <1>13
      <3>2. IsChunk(m, i + 1)' /\ sizes' = sizes
        BY <1>0, <1>6, <1>8, <2>3 DEF IsChunk
      <3> QED
        BY <1>1, <1>13, <3>1, <3>2 DEF Assembled, Chunks
    <2>7. ErrorsAreEarned'
      BY <1>0, <1>13 DEF ErrorsAreEarned
    <2> QED
      BY <1>3, <2>1, <2>2, <2>5, <2>6, <2>7
  <1>14. CASE ~wire[1].chunked
    <2>1. /\ delivered' = Append(delivered, <<wire[1].data>>)
          /\ recvCtr' = recvCtr + 1 /\ UNCHANGED <<asm, verdict>>
      BY <1>0, <1>7, <1>14 DEF Recv
    <2>2. i = 0 /\ FrameCount(sizes[m]) = 1
      BY <1>6, <1>7, <1>8, <1>14
    <2>3. <<wire[1].data>> = Chunks(m, i + 1)
      BY <1>6, <2>2 DEF Chunks
    <2>4. asm.buf = <<>> /\ asm.size \in Int /\ asm.size <= 0
      BY <1>0, <1>1, <1>9, <1>11, <2>2 DEF Chunks, Assembled
    <2> QED
      BY <1>1, <1>12, <2>1, <2>2, <2>3, <2>4
  <1>15. CASE wire[1].chunked
    <2>1. Add(wire[1])
      BY <1>0, <1>7, <1>15 DEF Recv
    <2>2. \/ Fails("size") /\ asm.size + wire[1].size > MaxPlaintext
          \/ LET buf == Append(asm.buf, <<m, i>>) IN
             /\ IF i + 1 = FrameCount(sizes[m])
                THEN asm' = Reset /\ delivered' = Append(delivered, buf)
                ELSE /\ asm' = [buf |-> buf, size |-> asm.size + wire[1].size,
                                next |-> i + 1, count |-> FrameCount(sizes[m])]
                     /\ UNCHANGED delivered
             /\ recvCtr' = recvCtr + 1 /\ UNCHANGED verdict
      BY <1>1, <1>6, <1>7, <1>9, <2>1 DEF Add
    <2>3. CASE Fails("size") /\ asm.size + wire[1].size > MaxPlaintext
      <3>1. m \in DOMAIN sizes /\ sizes[m] > MaxPlaintext
        <4>1. DOMAIN sizes = 1..Len(sizes) /\ MaxPlaintext \in Nat /\ sizes[m] \in Nat
          BY <1>8 DEF Types
        <4>2. PICK t \in Int : t = asm.size + wire[1].size
          BY <1>11
        <4> QED
          BY <1>8, <1>11, <2>3, <4>1, <4>2
      <3> QED
        BY <1>4, <2>3, <3>1
    <2>4. CASE ~(Fails("size") /\ asm.size + wire[1].size > MaxPlaintext) /\ i + 1 = FrameCount(sizes[m])
      <3>1. /\ asm' = Reset /\ recvCtr' = recvCtr + 1 /\ verdict' = verdict
            /\ delivered' = Append(delivered, Chunks(m, i + 1))
        BY <1>10, <2>2, <2>4
      <3>2. asm'.next = 0 /\ asm'.buf = <<>> /\ asm'.size = 0
        BY <3>1 DEF Reset
      <3> QED
        BY <1>12, <2>4, <3>1, <3>2
    <2>5. CASE ~(Fails("size") /\ asm.size + wire[1].size > MaxPlaintext) /\ i + 1 # FrameCount(sizes[m])
      <3>1. /\ asm' = [buf |-> Chunks(m, i + 1),
                        size |-> asm.size + wire[1].size,
                        next |-> i + 1, count |-> FrameCount(sizes[m])]
            /\ recvCtr' = recvCtr + 1 /\ verdict' = verdict /\ delivered' = delivered
        BY <1>10, <2>2, <2>5
      <3> QED
        BY <1>13, <2>5, <3>1
    <2> QED
      BY <2>3, <2>4, <2>5
  <1> QED
    BY <1>14, <1>15

-----------------------------------------------------------------------------
(* The theorems. *)

LEMMA InitChannel == Init => ChannelInv
  <1> SUFFICES ASSUME Init PROVE ChannelInv
    OBVIOUS
  <1> USE DEF Init, Reset
  <1>1. Types
    <2>1. <<>> \in Seq(1..MaxSize) /\ <<>> \in Seq(Frame) /\ <<>> \in Seq(Seq(Nat \X Nat))
      OBVIOUS
    <2>2. sealed \in [Sender -> Seq(Frame)]
      BY <2>1
    <2>3. 0 \in 0..MaxCounter /\ asm.next = 0 /\ asm.size = 0 /\ {} \subseteq Nat
      OBVIOUS
    <2>4. sending \in [Sender -> Nat] /\ next \in [Sender -> Nat]
      OBVIOUS
    <2>5. /\ sizes \in Seq(1..MaxSize) /\ wire \in Seq(Frame)
          /\ delivered \in Seq(Seq(Nat \X Nat))
      BY <2>1
    <2>6. sendCtr \in 0..MaxCounter /\ recvCtr \in Nat /\ failed \subseteq Nat /\ broken \in BOOLEAN
      BY <2>3
    <2> HIDE DEF Init
    <2> QED
      BY <2>2, <2>3, <2>4, <2>5, <2>6 DEF Types
  <1>2. \A s \in Sender : sending[s] = 0 /\ sealed[s] = <<>>
    OBVIOUS
  <1>3. Len(wire) = 0 /\ Len(delivered) = 0 /\ Len(sizes) = 0
    OBVIOUS
  <1>4. OneSend /\ ErrorsAreEarned /\ InSequence
    BY <1>2, <1>3 DEF OneSend, ErrorsAreEarned, InSequence
  <1>5. NextCtr = 1 /\ End = <<1, 0>>
    BY <1>2, <1>3 DEF NextCtr, End, AwaitedAt, Awaited
  <1>6. SenderFollows
    BY <1>2, <1>3, <1>5 DEF SenderFollows
  <1>7. LossIsKnown
    <2>1. \A k \in 1..(Len(wire) + 1) : k = 1
      BY <1>3
    <2>2. CtrAt(1) = 1
      BY <1>3, <1>5 DEF CtrAt
    <2> QED
      BY <2>1, <2>2 DEF LossIsKnown
  <1>8. DeliversInOrder /\ Assembled
    BY <1>3 DEF DeliversInOrder, Assembled
  <1> QED
    BY <1>1, <1>4, <1>6, <1>7, <1>8 DEF ChannelInv

LEMMA Inductive == ChannelInv /\ [Next]_vars => ChannelInv'
  <1> SUFFICES ASSUME ChannelInv, [Next]_vars PROVE ChannelInv'
    OBVIOUS
  <1>1. CASE UNCHANGED vars
    <2>1. UNCHANGED sendVars /\ wire' = wire /\ broken' = broken /\ UNCHANGED recvVars
      BY <1>1 DEF vars
    <2>2. NextCtr' = NextCtr
      BY <2>1 DEF NextCtr
    <2>3. Types' /\ OneSend'
      BY <2>1 DEF ChannelInv, Types, OneSend, IsChunk, FrameOf
    <2>4. verdict = "ok" /\ End' = End => SenderFollows'
      BY <2>1, <2>2 DEF ChannelInv, SenderFollows, SendMuFree
    <2> QED
      BY <2>1, <2>2, <2>3, <2>4, ReceiverStays DEF ChannelInv
  <1>2. ASSUME NEW s \in Sender, NEW size \in 1..MaxSize, Begin(s, size) PROVE ChannelInv'
    BY <1>2, BeginStep
  <1>3. ASSUME NEW s \in Sender, Seal(s) PROVE ChannelInv'
    BY <1>3, SealStep
  <1>4. ASSUME NEW s \in Sender, SealFails(s) PROVE ChannelInv'
    BY <1>4, SealFailsStep
  <1>5. ASSUME NEW s \in Sender, Write(s) PROVE ChannelInv'
    BY <1>5, WriteStep
  <1>6. ASSUME NEW s \in Sender, WriteFails(s) PROVE ChannelInv'
    BY <1>6, WriteFailsStep
  <1>7. CASE Recv
    BY <1>7, RecvStep
  <1> QED
    BY <1>1, <1>2, <1>3, <1>4, <1>5, <1>6, <1>7 DEF Next

LEMMA ChannelHolds == Spec => []ChannelInv
  BY InitChannel, Inductive, PTL DEF Spec

\* Whatever the number of goroutines that send at once, whatever the sizes and whichever
\* writes fail, with the link or without it: the receiver never meets a chunk out of order,
\* misses a counter only at a message whose send returned an error, and refuses only what
\* is too large.
THEOREM ErrorsAreEarnedHolds == Spec => []ErrorsAreEarned
  <1>1. ChannelInv => ErrorsAreEarned
    BY DEF ChannelInv
  <1> QED
    BY <1>1, ChannelHolds, PTL

\* Only whole messages are delivered, each once and in the order send took them up,
\* for any number of messages and however the link breaks.
THEOREM DeliversInOrderHolds == Spec => []DeliversInOrder
  <1>1. ChannelInv => DeliversInOrder
    BY DEF ChannelInv
  <1> QED
    BY <1>1, ChannelHolds, PTL

=============================================================================
