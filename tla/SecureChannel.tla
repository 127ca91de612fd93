--------------------------- MODULE SecureChannel ---------------------------
(***************************************************************************)
(* One direction of the end-to-end channel: conn.send and conn.recv        *)
(* (internal/bridge/server.go), Suite.Seal and Suite.Open                  *)
(* (internal/protocol/envelope.go), SplitChunks and ChunkAssembler.Add     *)
(* (internal/protocol/messages.go), over a link that keeps the order of    *)
(* what is written to it, until it breaks.                                 *)
(*                                                                         *)
(* Many goroutines send on one connection: the gateway reader, the HTTP    *)
(* replies, the terminal pumps, the ticker, the dispatch loop.  A message  *)
(* is its number, in the order send took conn.sendMu, and its size; the    *)
(* bytes of chunk i of message m are the pair <<m, i>>.  Sizes are in      *)
(* units; encryption is left out, but for the counter each frame carries.  *)
(* A write that fails may leave the link alive: on the relay transport it  *)
(* can wait for the shared socket (relayMux.write, relay_client.go:213)    *)
(* until its deadline has passed.  The frame's counter is used all the     *)
(* same, and most callers ignore the error and send on.                    *)
(***************************************************************************)
EXTENDS Integers, Sequences

CONSTANTS
  Sender,         \* goroutines that send on the connection
  ChunkThreshold, \* size above which a message is split
  MaxPlaintext,   \* size above which the receiver refuses a chunked message
  MaxSize,        \* the largest message given to send
  MaxCounter,     \* the last counter a frame may carry (2^64 - 1)
  MaxMessages     \* bound: messages sent

ASSUME SecureChannelAssumption ==
  /\ ChunkThreshold \in Nat \ {0} /\ MaxPlaintext \in Nat /\ MaxSize \in Nat
  /\ MaxCounter \in Nat /\ MaxMessages \in Nat

VARIABLES
  sizes,     \* Seq(1..MaxSize): the messages send has taken up, in order
  sending,   \* [Sender -> Nat]: the message a sender is at, 0 for none
  next,      \* [Sender -> Nat]: the next chunk it seals
  sealed,    \* [Sender -> Seq(Frame)]: the frame sealed and not yet written
  sendCtr,   \* Suite.send.counter
  failed,    \* history: the messages whose send returned an error
  wire,      \* Seq(Frame): the link
  broken,    \* the link has failed
  recvCtr,   \* Suite.recv.counter
  asm,       \* ChunkAssembler: [buf, next, count]
  delivered, \* Seq(Seq(<<Nat, Nat>>)): the messages recv has returned
  verdict    \* the receiver's first error: "ok" | "counter" | "order" | "size"

sendVars == <<sizes, sending, next, sealed, sendCtr, failed>>
recvVars == <<recvCtr, asm, delivered, verdict>>
vars     == <<sendVars, wire, broken, recvVars>>

Ceil(n, d) == (n + d - 1) \div d
LesserOf(m, n) == IF m <= n THEN m ELSE n

\* SplitChunks: how many frames a message of this size takes, and the size of
\* the data in each.
IsChunked(size) == size > ChunkThreshold
FrameCount(size) == IF IsChunked(size) THEN Ceil(size, ChunkThreshold) ELSE 1
ChunkSize(size, i) ==
  LesserOf((i + 1) * ChunkThreshold, size) - i * ChunkThreshold

Reset == [buf |-> <<>>, size |-> 0, next |-> 0, count |-> 0]

TypeOK ==
  /\ sizes \in Seq(1..MaxSize)
  /\ sending \in [Sender -> Nat] /\ next \in [Sender -> Nat]
  /\ \A s \in Sender : Len(sealed[s]) <= 1
  /\ sendCtr \in 0..MaxCounter /\ recvCtr \in 0..MaxCounter
  /\ broken \in BOOLEAN /\ failed \subseteq DOMAIN sizes
  /\ verdict \in {"ok", "counter", "order", "size"}
  /\ asm.size \in 0..MaxPlaintext /\ Len(asm.buf) = asm.next

Init ==
  /\ sizes = <<>>
  /\ sending = [s \in Sender |-> 0] /\ next = [s \in Sender |-> 0]
  /\ sealed = [s \in Sender |-> <<>>]
  /\ sendCtr = 0 /\ recvCtr = 0 /\ failed = {}
  /\ wire = <<>> /\ broken = FALSE
  /\ asm = Reset /\ delivered = <<>> /\ verdict = "ok"

-----------------------------------------------------------------------------
(* conn.send *)

SendMuFree == \A s \in Sender : sending[s] = 0

\* Variant: send takes no lock.
BeginUnlocked(s, size) ==
  /\ sending[s] = 0
  /\ Len(sizes) < MaxMessages
  /\ sizes' = Append(sizes, size)
  /\ sending' = [sending EXCEPT ![s] = Len(sizes) + 1]
  /\ next' = [next EXCEPT ![s] = 0]
  /\ UNCHANGED <<sealed, sendCtr, failed, wire, broken, recvVars>>

\* send takes conn.sendMu.
Begin(s, size) ==
  /\ SendMuFree
  /\ Len(sizes) < MaxMessages
  /\ sizes' = Append(sizes, size)
  /\ sending' = [sending EXCEPT ![s] = Len(sizes) + 1]
  /\ next' = [next EXCEPT ![s] = 0]
  /\ UNCHANGED <<sealed, sendCtr, failed, wire, broken, recvVars>>

Size(s) == sizes[sending[s]]

\* The frame of chunk i of message m.
FrameOf(m, i, ctr) ==
  [ctr |-> ctr, chunked |-> IsChunked(sizes[m]),
   index |-> i, count |-> FrameCount(sizes[m]),
   size |-> ChunkSize(sizes[m], i), data |-> <<m, i>>]

\* Variant: the counter starts over.
SealWraps(s) ==
  /\ sending[s] # 0 /\ sealed[s] = <<>>
  /\ sendCtr' = (sendCtr + 1) % (MaxCounter + 1)
  /\ sealed' = [sealed EXCEPT ![s] = <<FrameOf(sending[s], next[s], sendCtr')>>]
  /\ UNCHANGED <<sizes, sending, next, failed, wire, broken, recvVars>>

\* Seal gives the next chunk the next counter.
Seal(s) ==
  /\ sending[s] # 0 /\ sealed[s] = <<>> /\ sendCtr < MaxCounter
  /\ sendCtr' = sendCtr + 1
  /\ sealed' = [sealed EXCEPT ![s] = <<FrameOf(sending[s], next[s], sendCtr + 1)>>]
  /\ UNCHANGED <<sizes, sending, next, failed, wire, broken, recvVars>>

\* send returns and releases conn.sendMu.
Return(s) ==
  /\ sending' = [sending EXCEPT ![s] = 0]
  /\ next' = [next EXCEPT ![s] = 0]

\* The counter is used up: send returns the error.
SealFails(s) ==
  /\ sending[s] # 0 /\ sealed[s] = <<>> /\ sendCtr = MaxCounter
  /\ failed' = failed \cup {sending[s]}
  /\ Return(s)
  /\ UNCHANGED <<sizes, sealed, sendCtr, wire, broken, recvVars>>

Write(s) ==
  /\ sealed[s] # <<>> /\ ~broken
  /\ wire' = wire \o sealed[s]
  /\ sealed' = [sealed EXCEPT ![s] = <<>>]
  /\ IF next[s] + 1 < FrameCount(Size(s))
     THEN /\ next' = [next EXCEPT ![s] = @ + 1]
          /\ sending' = sending
     ELSE Return(s)
  /\ UNCHANGED <<sizes, sendCtr, failed, broken, recvVars>>

\* A write fails, with the link or without it: the frame is gone and its counter used,
\* and send returns the error.
WriteFails(s) ==
  /\ sealed[s] # <<>>
  /\ broken' \in {TRUE, broken}
  /\ failed' = failed \cup {sending[s]}
  /\ sealed' = [sealed EXCEPT ![s] = <<>>]
  /\ Return(s)
  /\ UNCHANGED <<sizes, sendCtr, wire, recvVars>>

-----------------------------------------------------------------------------
(* conn.recv: Open, then the assembler for a chunk. *)

Fails(v) ==
  /\ verdict' = v
  /\ UNCHANGED <<recvCtr, asm, delivered>>

\* Variant: a message is whole one chunk too soon.
AddTooSoon(f) ==
  IF f.index # asm.next THEN Fails("order")
  ELSE LET buf == Append(asm.buf, f.data) IN
       /\ IF asm.next + 2 >= f.count
          THEN asm' = Reset /\ delivered' = Append(delivered, buf)
          ELSE /\ asm' = [buf |-> buf, size |-> asm.size + f.size,
                          next |-> asm.next + 1, count |-> f.count]
               /\ UNCHANGED delivered
       /\ recvCtr' = f.ctr
       /\ UNCHANGED verdict

Add(f) ==
  IF f.index # asm.next \/ (asm.next > 0 /\ f.count # asm.count)
  THEN Fails("order")
  ELSE IF asm.size + f.size > MaxPlaintext
  THEN Fails("size")
  ELSE LET buf == Append(asm.buf, f.data) IN
       /\ IF asm.next + 1 = f.count
          THEN asm' = Reset /\ delivered' = Append(delivered, buf)
          ELSE /\ asm' = [buf |-> buf, size |-> asm.size + f.size,
                          next |-> asm.next + 1, count |-> f.count]
               /\ UNCHANGED delivered
       /\ recvCtr' = f.ctr
       /\ UNCHANGED verdict

Recv ==
  /\ wire # <<>> /\ verdict = "ok"
  /\ LET f == Head(wire) IN
     IF f.ctr # recvCtr + 1 THEN Fails("counter")
     ELSE IF f.chunked THEN Add(f)
     ELSE /\ delivered' = Append(delivered, <<f.data>>)
          /\ recvCtr' = f.ctr
          /\ UNCHANGED <<asm, verdict>>
  /\ wire' = Tail(wire)
  /\ UNCHANGED <<sendVars, broken>>

-----------------------------------------------------------------------------
Next ==
  \/ \E s \in Sender :
       \/ \E size \in 1..MaxSize : Begin(s, size)
       \/ Seal(s) \/ SealFails(s) \/ Write(s) \/ WriteFails(s)
  \/ Recv

Spec == Init /\ [][Next]_vars

\* A send that has started and the receiver both go on.
FairSpec ==
  /\ Spec
  /\ WF_vars(Recv)
  /\ \A s \in Sender : WF_vars(Seal(s) \/ SealFails(s) \/ Write(s))

-----------------------------------------------------------------------------
(* What the channel promises. *)

\* Whatever goroutines send at once and whichever writes fail, the receiver never meets a
\* chunk out of sequence (ErrChunkOrder); it meets a counter out of sequence (ErrCounter)
\* only at a message whose send returned an error to its caller, and refuses a message only
\* when it is too large.  No message is lost in silence.
ErrorsAreEarned ==
  LET m == Len(delivered) + 1 IN
  /\ verdict # "order"
  /\ verdict = "counter" => m \in failed
  /\ verdict = "size" => m \in DOMAIN sizes /\ sizes[m] > MaxPlaintext

Whole(m) == [i \in 1..FrameCount(sizes[m]) |-> <<m, i - 1>>]

\* The receiver gets whole messages, each once, in the order send took them up;
\* a message cut short by a failed write is never delivered and nothing follows it.
DeliversInOrder ==
  /\ Len(delivered) <= Len(sizes)
  /\ \A m \in DOMAIN delivered : delivered[m] = Whole(m)

\* Every message send takes up reaches the receiver, unless the link breaks, or the send of
\* it or of an earlier one returned an error, or one of these is too large.
EverythingArrives ==
  \A m \in 1..MaxMessages :
    Len(sizes) >= m ~>
      \/ Len(delivered) >= m \/ broken
      \/ \E k \in DOMAIN sizes : k <= m /\ (k \in failed \/ sizes[k] > MaxPlaintext)

-----------------------------------------------------------------------------
(* What a comment promises and the receiver refuses. *)

\* internal/protocol/envelope.go:24-25: "MaxPlaintext bounds a single envelope;
\* larger payloads are chunked at the message layer": no size is refused.
AnySizeArrives == verdict # "size"

-----------------------------------------------------------------------------
(* The inductive invariant. *)

\* Chunk i of message m, and the chunk after it.
IsChunk(m, i) == m \in 1..Len(sizes) /\ i \in Nat /\ i < FrameCount(sizes[m])

NextChunk(d) ==
  IF d[2] + 1 < FrameCount(sizes[d[1]]) THEN <<d[1], d[2] + 1>> ELSE <<d[1] + 1, 0>>

\* What the receiver is to get next; what is to follow frame k - 1 of the link, and its last.
Awaited == <<Len(delivered) + 1, asm.next>>
AwaitedAt(k) == IF k = 1 THEN Awaited ELSE NextChunk(wire[k - 1].data)
End == AwaitedAt(Len(wire) + 1)

\* The counter of the frame that is written next, and of frame k when that is frame Len(wire) + 1.
NextCtr == IF \E s \in Sender : sealed[s] # <<>> THEN sendCtr ELSE sendCtr + 1
CtrAt(k) == IF k <= Len(wire) THEN wire[k].ctr ELSE NextCtr
CtrBefore(k) == IF k = 1 THEN recvCtr ELSE wire[k - 1].ctr

Frame == [ctr : Nat, chunked : BOOLEAN, index : Nat, count : Nat, size : Int,
          data : Nat \X Nat]

Types ==
  /\ sizes \in Seq(1..MaxSize)
  /\ sending \in [Sender -> Nat] /\ next \in [Sender -> Nat]
  /\ sealed \in [Sender -> Seq(Frame)] /\ wire \in Seq(Frame)
  /\ sendCtr \in 0..MaxCounter /\ recvCtr \in Nat /\ failed \subseteq Nat
  /\ broken \in BOOLEAN /\ asm.next \in Nat /\ asm.size \in Int
  /\ delivered \in Seq(Seq(Nat \X Nat))

\* One send at a time, and what it has sealed is its chunk.
OneSend ==
  /\ \A s, t \in Sender : sending[s] # 0 /\ sending[t] # 0 => s = t
  /\ \A s \in Sender :
       /\ sending[s] = 0 => sealed[s] = <<>>
       /\ sending[s] # 0 => IsChunk(sending[s], next[s])
       /\ sealed[s] # <<>> => sealed[s] = <<FrameOf(sending[s], next[s], sendCtr)>>

\* Every frame on the link is a chunk, and as long as no counter is missing it is the one
\* that follows.
InSequence ==
  \A k \in 1..Len(wire) :
    LET d == wire[k].data IN
    /\ IsChunk(d[1], d[2])
    /\ wire[k] = FrameOf(d[1], d[2], wire[k].ctr)
    /\ wire[k].ctr = recvCtr + k => d = AwaitedAt(k)

\* Where the first counter is missing, the message that was to follow failed.
LossIsKnown ==
  \A k \in 1..(Len(wire) + 1) :
    /\ CtrAt(k) >= recvCtr + k
    /\ CtrBefore(k) + 1 = recvCtr + k /\ CtrAt(k) # recvCtr + k => AwaitedAt(k)[1] \in failed

\* As long as no counter is missing, what is sent next follows the last frame, unless the
\* counter is used up.
SenderFollows ==
  /\ \A s \in Sender : sending[s] # 0 => sending[s] = Len(sizes)
  /\ NextCtr = recvCtr + Len(wire) + 1 =>
       /\ \A s \in Sender :
            sending[s] # 0 /\ (sealed[s] # <<>> \/ sendCtr < MaxCounter) =>
              End = <<sending[s], next[s]>>
       /\ SendMuFree /\ sendCtr < MaxCounter => End = <<Len(sizes) + 1, 0>>

\* The assembler holds the first chunks of the message after those delivered.
Assembled ==
  /\ asm.buf = [i \in 1..asm.next |-> <<Len(delivered) + 1, i - 1>>]
  /\ asm.size <= asm.next * ChunkThreshold
  /\ asm.next > 0 => /\ IsChunk(Len(delivered) + 1, asm.next)
                     /\ asm.count = FrameCount(sizes[Len(delivered) + 1])

ChannelInv ==
  /\ Types /\ OneSend /\ ErrorsAreEarned /\ DeliversInOrder
  /\ verdict = "ok" => InSequence /\ LossIsKnown /\ SenderFollows /\ Assembled

=============================================================================
