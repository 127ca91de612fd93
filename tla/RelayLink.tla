----------------------------- MODULE RelayLink -----------------------------
(***************************************************************************)
(* The relay (internal/relay/relay.go) between one bridge and its phones,  *)
(* and the bridge's end of the multiplexed socket                          *)
(* (internal/bridge/relay_client.go).                                      *)
(*                                                                         *)
(* An attachment is one WebSocket between bridge and relay: two FIFO       *)
(* queues, a handler on the relay (serveBridge) that owns a session and    *)
(* its phones, and a mux on the bridge (runOnce) that owns the channels.   *)
(* A phone is one connection to /v1/phone: a handler on the relay          *)
(* (servePhone), and on the bridge, once "open" arrives, a relayChannel    *)
(* with its serveLink.  Frames carry a ghost field, the phone they belong  *)
(* to, that no guard reads.                                                *)
(*                                                                         *)
(* Left out: contents and sizes of frames (a rate limit may hit at any     *)
(* data frame), the challenge (an attach that fails it changes nothing),   *)
(* the per-address window, keepalives and the backoff (a bridge without    *)
(* an attachment may attach at any time).                                  *)
(***************************************************************************)
EXTENDS Naturals, FiniteSets, Sequences, FiniteSetsExt

CONSTANTS
  Att,        \* attachments the bridge may make, one each
  Phone,      \* phone connections, one each
  NoAtt, NoPhone,
  MaxCh,      \* the largest channel number (65535)
  MaxPhones,  \* Limits.MaxPhonesPerSession
  InboxCap,   \* capacity of a channel's inbox (256)
  MaxFrames   \* bound: data frames phones and bridge send, together

ASSUME RelayLinkAssumption ==
  /\ NoAtt \notin Att /\ NoPhone \notin Phone
  /\ MaxCh \in Nat /\ MaxPhones \in Nat \ {0} /\ MaxPhones <= MaxCh
  /\ InboxCap \in Nat \ {0} /\ MaxFrames \in Nat

VARIABLES
  \* the relay
  session,   \* Att or NoAtt: Server.sessions of this bridge's id
  handler,   \* [Att -> HandlerStage]: serveBridge
  cancelled, \* attachments whose session context is cancelled
  draining,  \* attachments Drain has dropped and not yet closed
  phones,    \* [Att -> [Channel -> Phone or NoPhone]]: session.phones
  nextCh,    \* [Att -> 0..MaxCh]: session.nextCh
  stage,     \* [Phone -> PhoneStage]: servePhone
  at,        \* [Phone -> Att or NoAtt]: the session the phone found
  chan,      \* [Phone -> 0..MaxCh]: phone.ch
  ws,        \* [Phone -> "none" | "open" | "closed"]: the phone's socket
  \* the socket of an attachment
  sock,      \* [Att -> "none" | "up" | "down"]
  toBridge,  \* [Att -> Seq(Frame)]
  toRelay,   \* [Att -> Seq(Frame)]
  \* the bridge
  mux,       \* [Att -> "none" | "wait" | "on" | "gone"]: runOnce
  channels,  \* [Att -> [Channel -> Phone or NoPhone]]: relayMux.channels
  rc,        \* [Phone -> "none" | "open" | "closing" | "done"]: relayChannel
  inbox,     \* [Phone -> Seq(<<Phone, Nat>>)]: relayChannel.inbox
  link,      \* [Phone -> "none" | "run" | "ended"]: serveLink
  \* what the two ends have sent and got
  up, gotUp, down, gotDown

relayVars  == <<session, handler, cancelled, draining, phones, nextCh>>
phoneVars  == <<stage, at, chan, ws>>
sockVars   == <<sock, toBridge, toRelay>>
bridgeVars == <<mux, channels, rc, inbox, link>>
dataVars   == <<up, gotUp, down, gotDown>>
vars       == <<relayVars, phoneVars, sockVars, bridgeVars, dataVars>>

Channel == 1..MaxCh
HandlerStage == {"none", "ack", "loop", "unregister", "sweep", "done"}
PhoneStage == {"new", "found", "announce", "loop", "leave", "tell", "done"}
Message == Phone \X Nat

Frame(t, c, p, n) == [t |-> t, c |-> c, p |-> p, n |-> n]
Frames == [t : {"attached", "open", "close", "data"}, c : 0..MaxCh,
           p : Phone \cup {NoPhone}, n : Nat]

RelayTypes ==
  /\ session \in Att \cup {NoAtt}
  /\ handler \in [Att -> HandlerStage]
  /\ cancelled \in SUBSET Att /\ draining \in SUBSET Att
  /\ phones \in [Att -> [Channel -> Phone \cup {NoPhone}]]
  /\ nextCh \in [Att -> 0..MaxCh]

PhoneTypes ==
  /\ stage \in [Phone -> PhoneStage]
  /\ at \in [Phone -> Att \cup {NoAtt}]
  /\ chan \in [Phone -> 0..MaxCh]
  /\ ws \in [Phone -> {"none", "open", "closed"}]

SockTypes ==
  /\ sock \in [Att -> {"none", "up", "down"}]
  /\ toBridge \in [Att -> Seq(Frames)]
  /\ toRelay \in [Att -> Seq(Frames)]

BridgeTypes ==
  /\ mux \in [Att -> {"none", "wait", "on", "gone"}]
  /\ channels \in [Att -> [Channel -> Phone \cup {NoPhone}]]
  /\ rc \in [Phone -> {"none", "open", "closing", "done"}]
  /\ inbox \in [Phone -> Seq(Message)]
  /\ link \in [Phone -> {"none", "run", "ended"}]

DataTypes ==
  /\ up \in [Phone -> Nat] /\ down \in [Phone -> Nat]
  /\ gotUp \in [Phone -> Seq(Message)] /\ gotDown \in [Phone -> Seq(Message)]

TypeOK == RelayTypes /\ PhoneTypes /\ SockTypes /\ BridgeTypes /\ DataTypes

NoPhones == [c \in Channel |-> NoPhone]

Init ==
  /\ session = NoAtt
  /\ handler = [a \in Att |-> "none"]
  /\ cancelled = {} /\ draining = {}
  /\ phones = [a \in Att |-> NoPhones] /\ nextCh = [a \in Att |-> 0]
  /\ stage = [p \in Phone |-> "new"]
  /\ at = [p \in Phone |-> NoAtt] /\ chan = [p \in Phone |-> 0]
  /\ ws = [p \in Phone |-> "none"]
  /\ sock = [a \in Att |-> "none"]
  /\ toBridge = [a \in Att |-> <<>>] /\ toRelay = [a \in Att |-> <<>>]
  /\ mux = [a \in Att |-> "none"] /\ channels = [a \in Att |-> NoPhones]
  /\ rc = [p \in Phone |-> "none"] /\ inbox = [p \in Phone |-> <<>>]
  /\ link = [p \in Phone |-> "none"]
  /\ up = [p \in Phone |-> 0] /\ down = [p \in Phone |-> 0]
  /\ gotUp = [p \in Phone |-> <<>>] /\ gotDown = [p \in Phone |-> <<>>]

FramesSent == MapThenSumSet(LAMBDA p : up[p] + down[p], Phone)

\* A frame on the socket of an attachment; nobody reads one whose far end is gone.
SendToBridge(a, f) ==
  toBridge' = IF mux[a] = "gone" THEN toBridge
              ELSE [toBridge EXCEPT ![a] = Append(@, f)]

SendToRelay(a, f) ==
  toRelay' = IF handler[a] \in {"unregister", "sweep", "done"} THEN toRelay
             ELSE [toRelay EXCEPT ![a] = Append(@, f)]

-----------------------------------------------------------------------------
(* Attaching. *)

\* The bridge dials and answers the challenge; the relay registers the session
\* and supersedes the one before, under Server.mu.
Attach(a) ==
  /\ handler[a] = "none"
  /\ \A b \in Att : mux[b] \notin {"wait", "on"}
  /\ mux' = [mux EXCEPT ![a] = "wait"]
  /\ handler' = [handler EXCEPT ![a] = "ack"]
  /\ session' = a
  /\ sock' = [b \in Att |-> IF b = a THEN "up"
                            ELSE IF b = session THEN "down" ELSE sock[b]]
  /\ cancelled' = cancelled \cup ({session} \ {NoAtt})
  /\ UNCHANGED <<draining, phones, nextCh, phoneVars, toBridge, toRelay,
                 channels, rc, inbox, link, dataVars>>

\* The relay acknowledges, after it has released Server.mu.
Acknowledge(a) ==
  /\ handler[a] = "ack"
  /\ IF sock[a] = "up" /\ a \notin cancelled
     THEN /\ SendToBridge(a, Frame("attached", 0, NoPhone, 0))
          /\ handler' = [handler EXCEPT ![a] = "loop"]
          /\ sock' = sock
     ELSE /\ handler' = [handler EXCEPT ![a] = "unregister"]
          /\ sock' = [sock EXCEPT ![a] = "down"]
          /\ toBridge' = toBridge
  /\ UNCHANGED <<session, cancelled, draining, phones, nextCh, phoneVars, toRelay,
                 bridgeVars, dataVars>>

\* runOnce returns: the socket is closed, then every channel is finished.
MuxEnds(a) ==
  /\ mux' = [mux EXCEPT ![a] = "gone"]
  /\ sock' = [sock EXCEPT ![a] = "down"]
  /\ rc' = [p \in Phone |-> IF \E c \in Channel : channels[a][c] = p
                            THEN "done" ELSE rc[p]]
  /\ channels' = [channels EXCEPT ![a] = NoPhones]
  /\ toBridge' = [toBridge EXCEPT ![a] = <<>>]

\* The bridge takes the first message for the acknowledgement.
ReadAck(a) ==
  /\ mux[a] = "wait" /\ toBridge[a] # <<>>
  /\ IF Head(toBridge[a]).t = "attached"
     THEN /\ mux' = [mux EXCEPT ![a] = "on"]
          /\ toBridge' = [toBridge EXCEPT ![a] = Tail(@)]
          /\ UNCHANGED <<sock, rc, channels>>
     ELSE MuxEnds(a)
  /\ UNCHANGED <<relayVars, phoneVars, toRelay, inbox, link, dataVars>>

\* The socket has failed and the bridge finds out.
ReadFails(a) ==
  /\ mux[a] \in {"wait", "on"} /\ sock[a] = "down"
  /\ MuxEnds(a)
  /\ UNCHANGED <<relayVars, phoneVars, toRelay, inbox, link, dataVars>>

-----------------------------------------------------------------------------
(* The relay's handler of an attachment. *)

\* closePhone: forget the channel, close the phone's socket, cancel its handler.
ClosePhone(a, c) ==
  /\ phones' = [phones EXCEPT ![a][c] = NoPhone]
  /\ ws' = [p \in Phone |-> IF p = phones[a][c] THEN "closed" ELSE ws[p]]

Incoming(a) == Head(toRelay[a])

\* A close frame, or data for a phone that is gone, over its rate, or whose
\* socket fails.
RelayCloses(a) ==
  /\ handler[a] = "loop" /\ toRelay[a] # <<>>
  /\ ClosePhone(a, Incoming(a).c)
  /\ toRelay' = [toRelay EXCEPT ![a] = Tail(@)]
  /\ UNCHANGED <<session, handler, cancelled, draining, nextCh, stage, at, chan, sock,
                 toBridge, bridgeVars, dataVars>>

RelayForwards(a) ==
  /\ handler[a] = "loop" /\ toRelay[a] # <<>> /\ Incoming(a).t = "data"
  /\ LET p == phones[a][Incoming(a).c]
     IN  /\ p # NoPhone /\ ws[p] = "open"
         /\ gotDown' = [gotDown EXCEPT ![p] = Append(@, <<Incoming(a).p, Incoming(a).n>>)]
  /\ toRelay' = [toRelay EXCEPT ![a] = Tail(@)]
  /\ UNCHANGED <<relayVars, phoneVars, sock, toBridge, bridgeVars, up, gotUp, down>>

\* The read fails: the socket is down, the session superseded, or the bridge
\* has vanished and nothing has come from it for IdleTimeout.
RelayReadFails(a) ==
  /\ handler[a] = "loop"
  /\ sock[a] = "down" \/ a \in cancelled \/ (mux[a] = "gone" /\ toRelay[a] = <<>>)
  /\ handler' = [handler EXCEPT ![a] = "unregister"]
  /\ sock' = [sock EXCEPT ![a] = "down"]
  /\ toRelay' = [toRelay EXCEPT ![a] = <<>>]
  /\ UNCHANGED <<session, cancelled, draining, phones, nextCh, phoneVars, toBridge,
                 bridgeVars, dataVars>>

\* Variant: whatever session is registered is removed.
UnregisterAny(a) ==
  /\ handler[a] = "unregister"
  /\ handler' = [handler EXCEPT ![a] = "sweep"]
  /\ session' = NoAtt
  /\ UNCHANGED <<cancelled, draining, phones, nextCh, phoneVars, sockVars,
                 bridgeVars, dataVars>>

\* The deferred cleanup removes the session only if it is still its own.
Unregister(a) ==
  /\ handler[a] = "unregister"
  /\ handler' = [handler EXCEPT ![a] = "sweep"]
  /\ session' = IF session = a THEN NoAtt ELSE session
  /\ UNCHANGED <<cancelled, draining, phones, nextCh, phoneVars, sockVars,
                 bridgeVars, dataVars>>

\* closeAllPhones.
ClosePhones(a) ==
  /\ phones' = [phones EXCEPT ![a] = NoPhones]
  /\ ws' = [p \in Phone |-> IF \E c \in Channel : phones[a][c] = p
                            THEN "closed" ELSE ws[p]]

Sweep(a) ==
  /\ handler[a] = "sweep"
  /\ handler' = [handler EXCEPT ![a] = "done"]
  /\ ClosePhones(a)
  /\ cancelled' = cancelled \cup {a}
  /\ UNCHANGED <<session, draining, nextCh, stage, at, chan, sockVars,
                 bridgeVars, dataVars>>

\* Server.Drain drops every session under Server.mu, then closes what it has
\* dropped: the socket, the context, the phones.
DrainTakes ==
  /\ session # NoAtt
  /\ session' = NoAtt
  /\ draining' = draining \cup {session}
  /\ UNCHANGED <<handler, cancelled, phones, nextCh, phoneVars, sockVars,
                 bridgeVars, dataVars>>

DrainCloses(a) ==
  /\ a \in draining
  /\ draining' = draining \ {a}
  /\ sock' = [sock EXCEPT ![a] = "down"]
  /\ cancelled' = cancelled \cup {a}
  /\ ClosePhones(a)
  /\ UNCHANGED <<session, handler, nextCh, stage, at, chan, toBridge, toRelay,
                 bridgeVars, dataVars>>

-----------------------------------------------------------------------------
(* The relay's handler of a phone. *)

\* A phone connects; without a session it is turned away.
Connect(p) ==
  /\ stage[p] = "new"
  /\ at' = [at EXCEPT ![p] = session]
  /\ stage' = [stage EXCEPT ![p] = IF session = NoAtt THEN "done" ELSE "found"]
  /\ ws' = [ws EXCEPT ![p] = IF session = NoAtt THEN "closed" ELSE "open"]
  /\ UNCHANGED <<relayVars, chan, sockVars, bridgeVars, dataVars>>

\* The k-th channel number tried after n: 0 is skipped.
Tried(n, k) == ((n + k - 1) % MaxCh) + 1

\* Variant: the next number, in use or not.
NextChannel(a) == Tried(nextCh[a], 1)

\* The first number after nextCh, wrapping, that no phone holds.
FreeChannel(a) ==
  LET Free(k) == phones[a][Tried(nextCh[a], k)] = NoPhone
      first == CHOOSE k \in Channel : Free(k) /\ \A j \in 1..(k - 1) : ~Free(j)
  IN  Tried(nextCh[a], first)

Population(a) == Cardinality({c \in Channel : phones[a][c] # NoPhone})

\* Variant: the counter is left one past the number given out.
RegisterOffByOne(p) ==
  /\ stage[p] = "found"
  /\ Population(at[p]) < MaxPhones
  /\ LET a == at[p]
         c == FreeChannel(a)
     IN  /\ phones' = [phones EXCEPT ![a][c] = p]
         /\ nextCh' = [nextCh EXCEPT ![a] = c + 1]
         /\ chan' = [chan EXCEPT ![p] = c]
  /\ stage' = [stage EXCEPT ![p] = "announce"]
  /\ UNCHANGED <<session, handler, cancelled, draining, at, ws, sockVars,
                 bridgeVars, dataVars>>

\* The cap and the channel number, under the session's lock.
Register(p) ==
  /\ stage[p] = "found"
  /\ LET a == at[p] IN
     IF Population(a) >= MaxPhones
     THEN /\ stage' = [stage EXCEPT ![p] = "done"]
          /\ ws' = [ws EXCEPT ![p] = "closed"]
          /\ UNCHANGED <<phones, nextCh, chan>>
     ELSE LET c == FreeChannel(a) IN
          /\ phones' = [phones EXCEPT ![a][c] = p]
          /\ nextCh' = [nextCh EXCEPT ![a] = c]
          /\ chan' = [chan EXCEPT ![p] = c]
          /\ stage' = [stage EXCEPT ![p] = "announce"]
          /\ ws' = ws
  /\ UNCHANGED <<session, handler, cancelled, draining, at, sockVars, bridgeVars, dataVars>>

\* The phone's context is cancelled with its session, or when it is closed.
PhoneCancelled(p) == at[p] \in cancelled \/ ws[p] = "closed"

\* The relay sends "open" to the bridge.
Announce(p) ==
  /\ stage[p] = "announce"
  /\ IF sock[at[p]] = "up" /\ ~PhoneCancelled(p)
     THEN /\ SendToBridge(at[p], Frame("open", chan[p], p, 0))
          /\ stage' = [stage EXCEPT ![p] = "loop"]
     ELSE /\ stage' = [stage EXCEPT ![p] = "leave"]
          /\ toBridge' = toBridge
  /\ UNCHANGED <<relayVars, at, chan, ws, sock, toRelay, bridgeVars, dataVars>>

\* A data frame of the phone goes to the bridge.
PhoneData(p) ==
  /\ stage[p] = "loop" /\ ~PhoneCancelled(p) /\ sock[at[p]] = "up"
  /\ FramesSent < MaxFrames
  /\ up' = [up EXCEPT ![p] = @ + 1]
  /\ SendToBridge(at[p], Frame("data", chan[p], p, up[p] + 1))
  /\ UNCHANGED <<relayVars, phoneVars, sock, toRelay, bridgeVars, gotUp, down, gotDown>>

\* A frame over the rate, or one the bridge's socket does not take.
PhoneRefused(p) ==
  /\ stage[p] = "loop"
  /\ stage' = [stage EXCEPT ![p] = "leave"]
  /\ ws' = [ws EXCEPT ![p] = "closed"]
  /\ UNCHANGED <<relayVars, at, chan, sockVars, bridgeVars, dataVars>>

\* The read fails because the phone is gone or its context is cancelled; a
\* cancelled read closes the socket.
PhoneReadFails(p) == PhoneCancelled(p) /\ PhoneRefused(p)

\* The deferred cleanup.  It does not close the phone's socket, which is still
\* open if "open" could not be announced.
Leave(p) ==
  /\ stage[p] = "leave"
  /\ phones' = IF phones[at[p]][chan[p]] = p
               THEN [phones EXCEPT ![at[p]][chan[p]] = NoPhone] ELSE phones
  /\ stage' = [stage EXCEPT ![p] = "tell"]
  /\ UNCHANGED <<session, handler, cancelled, draining, nextCh, at, chan, ws,
                 sockVars, bridgeVars, dataVars>>

\* Variant: the bridge is not told.
TellNobody(p) ==
  /\ stage[p] = "tell"
  /\ stage' = [stage EXCEPT ![p] = "done"]
  /\ UNCHANGED <<relayVars, at, chan, ws, sockVars, bridgeVars, dataVars>>

Tell(p) ==
  /\ stage[p] = "tell"
  /\ IF sock[at[p]] = "up"
     THEN SendToBridge(at[p], Frame("close", chan[p], p, 0))
     ELSE toBridge' = toBridge
  /\ stage' = [stage EXCEPT ![p] = "done"]
  /\ UNCHANGED <<relayVars, at, chan, ws, sock, toRelay, bridgeVars, dataVars>>

-----------------------------------------------------------------------------
(* The bridge's read loop and the channels. *)

Arrived(a) == Head(toBridge[a])

\* "open": a channel of its own and a serveLink for the phone.
MuxOpen(a) ==
  /\ Arrived(a).t = "open"
  /\ LET p == Arrived(a).p
         c == Arrived(a).c
     IN  /\ rc' = [q \in Phone |-> IF q = p THEN "open"
                                   ELSE IF q = channels[a][c] THEN "done" ELSE rc[q]]
         /\ channels' = [channels EXCEPT ![a][c] = p]
         /\ link' = [link EXCEPT ![p] = "run"]
  /\ UNCHANGED <<inbox>>

\* Variant: every channel is finished.
MuxAllClosed(a) ==
  /\ Arrived(a).t = "close"
  /\ rc' = [q \in Phone |-> IF \E c \in Channel : channels[a][c] = q THEN "done"
                            ELSE rc[q]]
  /\ channels' = [channels EXCEPT ![a] = NoPhones]
  /\ UNCHANGED <<inbox, link>>

\* "close": remoteClosed.
MuxRemoteClosed(a) ==
  /\ Arrived(a).t = "close"
  /\ rc' = [q \in Phone |-> IF q = channels[a][Arrived(a).c] THEN "done" ELSE rc[q]]
  /\ channels' = [channels EXCEPT ![a][Arrived(a).c] = NoPhone]
  /\ UNCHANGED <<inbox, link>>

\* Variant: data that finds the inbox full takes the place of the oldest.
MuxDropsOldest(a) ==
  /\ Arrived(a).t = "data"
  /\ LET p == channels[a][Arrived(a).c]
         all == Append(inbox[p], <<Arrived(a).p, Arrived(a).n>>)
     IN  inbox' = IF p = NoPhone THEN inbox
                  ELSE [inbox EXCEPT ![p] = IF Len(all) > InboxCap THEN Tail(all) ELSE all]
  /\ UNCHANGED <<rc, channels, link>>

\* Data: into the channel's inbox; a full inbox closes the channel.
MuxDeliver(a) ==
  /\ Arrived(a).t = "data"
  /\ LET c == Arrived(a).c
         p == channels[a][c]
     IN  IF p = NoPhone THEN UNCHANGED <<inbox, rc, channels>>
         ELSE IF Len(inbox[p]) < InboxCap
         THEN /\ inbox' = [inbox EXCEPT ![p] = Append(@, <<Arrived(a).p, Arrived(a).n>>)]
              /\ UNCHANGED <<rc, channels>>
         ELSE /\ rc' = [rc EXCEPT ![p] = "closing"]
              /\ channels' = [channels EXCEPT ![a][c] = NoPhone]
              /\ UNCHANGED inbox
  /\ UNCHANGED link

MuxRead(a) ==
  /\ mux[a] = "on" /\ toBridge[a] # <<>>
  /\ MuxOpen(a) \/ MuxRemoteClosed(a) \/ MuxDeliver(a)
  /\ toBridge' = [toBridge EXCEPT ![a] = Tail(@)]
  /\ UNCHANGED <<relayVars, phoneVars, sock, toRelay, mux, dataVars>>

\* serveLink reads a message.  A finished channel may still yield what is in
\* its inbox: Read selects among inbox and done.
LinkRead(p) ==
  /\ link[p] = "run" /\ inbox[p] # <<>>
  /\ gotUp' = [gotUp EXCEPT ![p] = Append(@, Head(inbox[p]))]
  /\ inbox' = [inbox EXCEPT ![p] = Tail(@)]
  /\ UNCHANGED <<relayVars, phoneVars, sockVars, mux, channels, rc, link, up, down, gotDown>>

LinkWrite(p) ==
  /\ link[p] = "run" /\ rc[p] = "open" /\ sock[at[p]] = "up"
  /\ FramesSent < MaxFrames
  /\ down' = [down EXCEPT ![p] = @ + 1]
  /\ SendToRelay(at[p], Frame("data", chan[p], p, down[p] + 1))
  /\ UNCHANGED <<relayVars, phoneVars, sock, toBridge, bridgeVars, up, gotUp, gotDown>>

\* Variant: the channel stays in the mux's map.
LinkEndsOnly(p) ==
  /\ link[p] = "run"
  /\ link' = [link EXCEPT ![p] = "ended"]
  /\ inbox' = [inbox EXCEPT ![p] = <<>>]
  /\ rc' = [rc EXCEPT ![p] = IF @ = "open" THEN "closing" ELSE @]
  /\ UNCHANGED <<relayVars, phoneVars, sockVars, mux, channels, dataVars>>

\* serveLink is over: the phone was refused, its tunnel ended or its read failed.
\* Close finishes the channel, unless it is finished already.
LinkEnds(p) ==
  /\ link[p] = "run"
  /\ link' = [link EXCEPT ![p] = "ended"]
  /\ inbox' = [inbox EXCEPT ![p] = <<>>]
  /\ IF rc[p] = "open"
     THEN /\ rc' = [rc EXCEPT ![p] = "closing"]
          /\ channels' = [channels EXCEPT ![at[p]] =
                            [c \in Channel |-> IF @[c] = p THEN NoPhone ELSE @[c]]]
     ELSE UNCHANGED <<rc, channels>>
  /\ UNCHANGED <<relayVars, phoneVars, sockVars, mux, dataVars>>

\* serveLink is over because the phone could not be told that it is accepted: it returns
\* without Close, and the channel stays, with nobody to read it.
LinkQuits(p) ==
  /\ link[p] = "run"
  /\ link' = [link EXCEPT ![p] = "ended"]
  /\ UNCHANGED <<relayVars, phoneVars, sockVars, mux, channels, rc, inbox, dataVars>>

LinkNotices(p) == rc[p] # "open" /\ LinkEnds(p)

\* Variant: the relay is not told.
CloseSilently(p) ==
  /\ rc[p] = "closing"
  /\ rc' = [rc EXCEPT ![p] = "done"]
  /\ UNCHANGED <<relayVars, phoneVars, sockVars, mux, channels, inbox, link, dataVars>>

\* Close tells the relay, on the shared socket.
SendClose(p) ==
  /\ rc[p] = "closing"
  /\ rc' = [rc EXCEPT ![p] = "done"]
  /\ IF sock[at[p]] = "up"
     THEN SendToRelay(at[p], Frame("close", chan[p], p, 0))
     ELSE toRelay' = toRelay
  /\ UNCHANGED <<relayVars, phoneVars, sock, toBridge, mux, channels, inbox, link, dataVars>>

-----------------------------------------------------------------------------
(* Failures. *)

PhoneGone(p) ==
  /\ ws[p] = "open"
  /\ ws' = [ws EXCEPT ![p] = "closed"]
  /\ UNCHANGED <<relayVars, stage, at, chan, sockVars, bridgeVars, dataVars>>

SocketFails(a) ==
  /\ sock[a] = "up"
  /\ sock' = [sock EXCEPT ![a] = "down"]
  /\ UNCHANGED <<relayVars, phoneVars, toBridge, toRelay, bridgeVars, dataVars>>

\* The bridge's process dies and the relay is not told; it may attach again.
Crash(a) ==
  /\ mux[a] \in {"wait", "on"}
  /\ mux' = [mux EXCEPT ![a] = "gone"]
  /\ channels' = [channels EXCEPT ![a] = NoPhones]
  /\ rc' = [p \in Phone |-> IF rc[p] = "none" THEN "none" ELSE "done"]
  /\ inbox' = [p \in Phone |-> <<>>]
  /\ toBridge' = [toBridge EXCEPT ![a] = <<>>]
  /\ link' = [p \in Phone |-> IF link[p] = "run" THEN "ended" ELSE link[p]]
  /\ UNCHANGED <<relayVars, phoneVars, sock, toRelay, dataVars>>

-----------------------------------------------------------------------------
Handler(a) ==
  \/ Acknowledge(a) \/ RelayCloses(a) \/ RelayForwards(a)
  \/ RelayReadFails(a) \/ Unregister(a) \/ Sweep(a) \/ DrainCloses(a)

Mux(a) == ReadAck(a) \/ MuxRead(a) \/ ReadFails(a)

PhoneHandler(p) ==
  \/ Register(p) \/ Announce(p) \/ PhoneReadFails(p) \/ Leave(p) \/ Tell(p)

\* What the network, the phones and the processes above the link do.
Environment ==
  \/ \E a \in Att : Attach(a) \/ SocketFails(a) \/ Crash(a)
  \/ DrainTakes
  \/ \E p \in Phone :
       \/ Connect(p) \/ PhoneData(p) \/ PhoneRefused(p) \/ PhoneGone(p)
       \/ LinkRead(p) \/ LinkWrite(p) \/ LinkEnds(p) \/ LinkQuits(p)

Next ==
  \/ \E a \in Att : Handler(a) \/ Mux(a)
  \/ \E p \in Phone : PhoneHandler(p) \/ SendClose(p)
  \/ Environment

Spec == Init /\ [][Next]_vars

\* Every goroutine of relay and bridge runs on; nothing else has to happen.
Fairness ==
  /\ \A a \in Att : WF_vars(Handler(a)) /\ WF_vars(Mux(a))
  /\ \A p \in Phone : /\ WF_vars(PhoneHandler(p))
                      /\ WF_vars(SendClose(p)) /\ WF_vars(LinkNotices(p))

FairSpec == Spec /\ Fairness

-----------------------------------------------------------------------------
(* What the relay and the mux promise. *)

\* Each phone's frames travel on their own pipe (PhonePipe).
Pipe == INSTANCE PhonePipe WITH sentUp <- up, sentDown <- down

ExactlyLikeDirect == Pipe!Spec

\* An attachment whose socket works and that has been neither superseded nor
\* drained is the one phones find: the cleanup of an older handler never
\* unregisters a newer session (relay.go:234-241).
LiveSessionRegistered ==
  \A a \in Att \ (cancelled \cup draining) :
    handler[a] \in {"ack", "loop"} /\ sock[a] = "up" => session = a

\* A phone that is being served holds its channel alone: the channel counter,
\* wrapping at its largest value, never hands out a number in use
\* (relay.go:353-364).
ChannelsAreOwn ==
  \A p \in Phone : stage[p] \in {"announce", "loop"} /\ ~PhoneCancelled(p)
                     => phones[at[p]][chan[p]] = p

\* The bridge's channel of a phone belongs to its attachment and its number.
ChannelsAgree ==
  \A a \in Att : \A c \in Channel : LET p == channels[a][c] IN
    p # NoPhone => rc[p] = "open" /\ at[p] = a /\ chan[p] = c

\* "Closing a phone tears down its channel on the bridge; the other survives"
\* (internal/bridge/relay_test.go:95): a channel whose serveLink still runs is
\* finished only when its own phone is gone, the socket has failed, or the phone
\* has sent more than the inbox holds.
OtherPhoneSurvives ==
  \A p \in Phone : link[p] = "run" /\ rc[p] # "open" =>
    ws[p] = "closed" \/ sock[at[p]] = "down" \/ up[p] > InboxCap

\* "Closing a phone tears down its channel on the bridge"
\* (internal/bridge/relay_test.go:95), and whatever happens to the socket
\* meanwhile its serveLink comes to an end.
PhoneGoneEndsLink ==
  \A p \in Phone : ws[p] = "closed" /\ link[p] = "run" ~> link[p] = "ended"

\* A phone the bridge has dropped is closed by the relay, whether the close frame or the
\* end of the socket comes first; but not one whose link has quit and left its channel.
LinkEndedClosesPhone ==
  \A p \in Phone : link[p] = "ended" /\ rc[p] # "open" ~> ws[p] = "closed"

-----------------------------------------------------------------------------
(* What the protocol's description promises and the interleavings break. *)

\* internal/protocol/relay.go:18-19: the relay sends {"t":"attached"}, "then
\* binary frames only": what a bridge that waits for it reads is nothing else.
AckComesFirst ==
  \A a \in Att : mux[a] = "wait" /\ toBridge[a] # <<>>
                   => Head(toBridge[a]).t = "attached"

\* relay.go:433: Drain closes every bridge connection "(and with it every
\* phone)": a phone whose session is over is closed, even one that registers
\* after closeAllPhones.
NoStrandedPhone ==
  \A p \in Phone : at[p] \in cancelled ~> ws[p] = "closed"

-----------------------------------------------------------------------------
(* The inductive invariant. *)

\* A phone that has been given its number, which is never changed.
Numbered == {"announce", "loop", "leave", "tell", "done"}

\* A phone that waits for a number, or may have one, has found a session.
Placed ==
  \A p \in Phone :
    /\ stage[p] \in {"found", "announce", "loop", "leave", "tell"} => at[p] \in Att
    /\ stage[p] \in {"announce", "loop", "leave", "tell"} => chan[p] \in Channel

\* Frames on their way to the bridge carry the number of the phone they are about.
Belongs(a, f) ==
  f.t # "attached" => /\ f.p \in Phone /\ f.c \in Channel
                      /\ stage[f.p] \in Numbered /\ at[f.p] = a /\ chan[f.p] = f.c

FramesBelong ==
  /\ \A a \in Att : \A i \in 1..Len(toBridge[a]) : Belongs(a, toBridge[a][i])
  /\ \A a \in Att : \A i \in 1..Len(toRelay[a]) : toRelay[a][i].p \in Phone

\* The bridge has one attachment at a time, and channels on no other.
OneMux ==
  /\ \A a, b \in Att : mux[a] \in {"wait", "on"} /\ mux[b] \in {"wait", "on"} => a = b
  /\ \A a \in Att : mux[a] # "on" => channels[a] = NoPhones

\* Only a phone with a number has a channel on the bridge.
ChannelsNumbered ==
  \A a \in Att : \A c \in Channel :
    channels[a][c] # NoPhone => stage[channels[a][c]] \in Numbered

LinkInv ==
  /\ TypeOK /\ Placed /\ FramesBelong /\ OneMux /\ ChannelsNumbered
  /\ ChannelsAgree /\ ChannelsAreOwn /\ LiveSessionRegistered

-----------------------------------------------------------------------------
(* While numbers rest: what makes RelayLink a PhonePipe. *)

\* Something still goes by the number of this phone: its handler, its channel on the
\* bridge, or a frame under way.
Uses(p) ==
  \/ stage[p] \in {"announce", "loop", "leave", "tell"}
  \/ rc[p] \in {"open", "closing"}
  \/ at[p] \in Att /\ \E i \in 1..Len(toBridge[at[p]]) : toBridge[at[p]][i].p = p
  \/ at[p] \in Att /\ \E i \in 1..Len(toRelay[at[p]]) : toRelay[at[p]][i].p = p

\* No number is handed out while something still goes by it.
GivesRested ==
  \A p \in Phone : Register(p) /\ stage'[p] = "announce" =>
    \A q \in Phone \ {p} : Uses(q) /\ at[q] = at[p] => chan[q] # chan'[p]

NumbersRest == [][GivesRested]_vars

\* Then a number in use is one phone's.
NumbersAreOwn ==
  \A p, q \in Phone : Uses(p) /\ Uses(q) /\ at[p] = at[q] /\ chan[p] = chan[q] => p = q

\* What has a number, a channel or a frame, and what has not.
Started ==
  \A a \in Att : handler[a] = "none" =>
    mux[a] = "none" /\ session # a /\ \A p \in Phone : at[p] # a

PhonesAgree ==
  \A a \in Att, c \in Channel : phones[a][c] # NoPhone =>
    LET p == phones[a][c] IN
    at[p] = a /\ chan[p] = c /\ stage[p] \in {"announce", "loop", "leave"}

Served(p) ==
  /\ rc[p] # "none" /\ stage[p] \in {"loop", "leave", "tell", "done"}
  /\ at[p] \in Att /\ chan[p] \in Channel
  /\ rc[p] = "open" => channels[at[p]][chan[p]] = p

NotServed(p) ==
  /\ rc[p] = "none" /\ inbox[p] = <<>> /\ gotUp[p] = <<>>
  /\ down[p] = 0 /\ gotDown[p] = <<>>
  /\ stage[p] \in {"new", "found", "announce"} => up[p] = 0

Service ==
  \A p \in Phone :
    /\ IF link[p] = "none" THEN NotServed(p) ELSE Served(p)
    /\ stage[p] = "new" => at[p] = NoAtt /\ ws[p] = "none"

RelayBelongs ==
  \A a \in Att : \A i \in 1..Len(toRelay[a]) : LET f == toRelay[a][i] IN
    at[f.p] = a /\ chan[f.p] = f.c /\ f.c \in Channel /\ link[f.p] # "none"

\* The frames of a phone to the bridge are an "open", once, before all others, which is
\* there until the bridge has read it, and a "close", when the phone has left.
IsOpen(f, p) == f.t = "open" /\ f.p = p

Opens ==
  \A a \in Att : \A i \in 1..Len(toBridge[a]) : LET f == toBridge[a][i] IN
    /\ f.t = "attached" => f.p = NoPhone
    /\ f.t # "attached" => stage[f.p] \in {"loop", "leave", "tell", "done"}
    /\ f.t = "open" => link[f.p] = "none" /\ \A j \in 1..(i - 1) : toBridge[a][j].p # f.p
    /\ f.t = "data" /\ link[f.p] = "none" => \E j \in 1..(i - 1) : IsOpen(toBridge[a][j], f.p)
    /\ f.t = "close" => stage[f.p] = "done"

OpenIsComing ==
  \A p \in Phone : stage[p] = "loop" /\ link[p] = "none" /\ mux[at[p]] # "gone" =>
    \E i \in 1..Len(toBridge[at[p]]) : IsOpen(toBridge[at[p]][i], p)

\* A phone that has left is closed, unless the bridge never hears of it.
LeftIsClosed ==
  \A p \in Phone : stage[p] \in {"leave", "tell", "done"} =>
    \/ ws[p] = "closed"
    \/ link[p] = "none" /\ \A a \in Att : \A i \in 1..Len(toBridge[a]) : ~IsOpen(toBridge[a][i], p)

\* The data frames of a phone on a queue are numbered m + 1 to n, in this order.
IsData(f, p) == f.t = "data" /\ f.p = p

Continues(q, p, m, n) ==
  /\ m <= n
  /\ \A i \in 1..Len(q) : IsData(q[i], p) => q[i].n \in (m + 1)..n
  /\ \A k \in (m + 1)..n : \E i \in 1..Len(q) : IsData(q[i], p) /\ q[i].n = k
  /\ \A i, j \in 1..Len(q) : i < j /\ IsData(q[i], p) /\ IsData(q[j], p) => q[i].n < q[j].n

\* What the bridge has of a phone's data, taken or not, is its own and in order, and what
\* is under way continues it.
UpPipe(p) ==
  /\ Len(gotUp[p]) + Len(inbox[p]) <= up[p]
  /\ \A i \in 1..Len(inbox[p]) : inbox[p][i] = <<p, Len(gotUp[p]) + i>>
  /\ at[p] \in Att /\ mux[at[p]] # "gone" /\ rc[p] \in {"none", "open"} =>
       Continues(toBridge[at[p]], p, Len(gotUp[p]) + Len(inbox[p]), up[p])

\* The same of the bridge's data for a phone, as long as the relay has the phone.
DownPipe(p) ==
  at[p] \in Att /\ handler[at[p]] \in {"ack", "loop"}
  /\ chan[p] \in Channel /\ phones[at[p]][chan[p]] = p =>
    Continues(toRelay[at[p]], p, Len(gotDown[p]), down[p])

InOrder == \A p \in Phone : UpPipe(p) /\ DownPipe(p)

\* The phones that an attachment has given a number are as many as its counter says, as
\* long as the counter has not wrapped.
Given(a) == {p \in Phone : at[p] = a /\ chan[p] # 0}

Counted ==
  /\ \A a \in Att : nextCh[a] = Cardinality(Given(a))
  /\ \A p \in Phone : /\ stage[p] \in {"new", "found"} => chan[p] = 0
                      /\ at[p] \in Att => chan[p] <= nextCh[at[p]]

PipeInv ==
  /\ NumbersAreOwn /\ Started /\ PhonesAgree /\ Service /\ RelayBelongs
  /\ Opens /\ OpenIsComing /\ LeftIsClosed /\ InOrder
  /\ OtherPhoneSurvives

=============================================================================
