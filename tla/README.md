# hermes-remote: models, model checking and proofs

`hermes-remote` lets a phone drive a Hermes gateway that runs on a Mac. A daemon, the *bridge*, supervises the gateway child, admits paired phones and gives each a tunnel to the gateway. A phone reaches the bridge directly or through a *relay* that multiplexes phones over one socket of the bridge. This directory holds TLA+ models of these parts, the TLC configurations that check them on small instances, and proofs that hold for every instance.

## Inventory

| Part | Code | State it keeps | Operations | Talks to |
|---|---|---|---|---|
| Admission | `bridge/server.go`, `bridge/pairing.go`, `state/state.go`, `protocol/handshake.go` | pairing codes, `devices.json`, open connections | pair, handshake, trust, stamp, rename, revoke, disconnect | phones, control socket |
| Tunnel | `bridge/tunnel.go`, `routes.go`, `fs.go` | one gateway socket per phone, three goroutines, one error channel | dial, relay frames, proxy HTTP, list folders, dispatch | gateway, terminals, supervisor |
| Terminals | `bridge/pty.go` | map of ids to shells, per connection | open, data, resize, close, pump, closeAll | tunnel, shells |
| Secure channel | `protocol/envelope.go`, `messages.go` | counters, partial message | seal, split, open, reassemble | tunnel |
| Relay | `relay/relay.go` | sessions, phones, channel numbers; attempts per address; a token bucket per phone | attach, supersede, drain, forward, limit | bridge, phones |
| Relay client | `bridge/relay_client.go` | channels, inboxes | dial, open, deliver, close | relay, tunnel |
| Supervisor | `gateway/supervisor.go` | state, port, child, watchers | run, probe, watch, stop | child, tunnels, push |
| Push | `push/*.go` | `push-devices.json`, last event seen | register, poll, deliver, remove | gateway, APNs, admission |
| Daemon and its control socket | `cmd/hermes-remote/daemon.go`, `control/control.go` | its loops and listeners, `control.sock` | start, shut down, status, pair, revoke | commands, launchd, all of the above |
| Command line, launchd | `cmd/hermes-remote/main.go`, `launchd/launchd.go` | `config.json`, the loaded job | up, stop, restart, uninstall, devices revoke | daemon, launchd |
| Tailscale, QR, identity, relay process | the rest | files | one-shot commands | command line |

What is hard in them is concurrency: read-modify-write of a list in separate critical sections, copies taken under a lock and used after it, cleanup of one generation racing the next, messages crossing a close, a process killed while something waits for it. `PROJECT.json` lists each such place (`hazards`) with the properties that cover it.

What makes each part correct:

- Admission: only a phone that proves a live code becomes trusted; a revoked phone stays out; a code works once.
- Terminals: an id names one shell; at most eight run; each shell ends with its connection; exits come last.
- Secure channel: messages arrive whole and in order, and none is lost unless its sender was told.
- Relay: a phone behind it is served exactly like a direct one; phones do not disturb each other; nobody is left behind.
- Supervisor: one child at a time; a hung child is replaced; tunnels learn that their child is gone; Stop ends.
- Push: APNs is asked once to tell every phone that is away of news, and of nothing else.
- Tunnel: it ends with its gateway, its phone or its daemon, leaves nothing behind, and until then answers the phone.
- Daemon: it ends when told to or when it has lost a listener, can be found while it runs, and what `up` prints comes from the daemon `up` has configured.
- Limits: an address and a phone get what the limits say, no more and no less.

## Modules

| Module | Models | How it corresponds |
|---|---|---|
| `Admission` | handshake, codes, device list, revocation | a connection slot moves through the stages of `conn.handshake`; each read and each write of the list is a step, with the copy in `list` |
| `AdmissionProofs` | | proofs about `Admission` |
| `Terminals` | `terminalManager`, its pumps, the dispatch loop and the end of `conn.tunnel` | one action per critical section or blocking call; `openTerminal` is three steps (check, start, insert) |
| `TerminalsProofs` | | proofs about `Terminals` |
| `PhonePipe` | what the relay transport promises | two ordered pipes per phone |
| `RelayLink` | `serveBridge`, `servePhone`, `relayMux`, `relayChannel`, the socket between them | queues of frames; handlers as stages; implements `PhonePipe` |
| `RelayLinkProofs` | | proofs about `RelayLink` |
| `SecureChannel` | `conn.send`, `Suite.Seal`/`Open`, `SplitChunks`, `ChunkAssembler`, `conn.recv` | a message is its number and its size; a write may fail with the link or, as on the shared socket of the relay transport, without it |
| `SecureChannelProofs` | | proofs about `SecureChannel` |
| `RelayLimits` | `allowIP`, `bucket` | time in ticks; one step per call, as both hold a lock throughout; the histories are running totals, of who was let in by when and of the bytes passed since when |
| `RelayLimitsProofs` | | proofs about `RelayLimits` |
| `GatewayService` | what `BaseURL` and `State` show of the gateway | children one after the other, a state, a port; `probed` is the moment between the probe's answer and the announcement, in which the child may die |
| `Supervisor` | `Run`, `runOnce`, `watch`, `Stop`, `Watch` | `run` is where `runOnce` stands; `sending` holds the watchers `setState` still has to send to; implements `GatewayService` |
| `SupervisorProofs` | | proofs about `Supervisor` |
| `Tunnel` | `conn.tunnel`, `dialGateway`, `dispatch`, `proxyHTTP`, `fsList`, the deadlines of `conn.send` and `conn.recv` | `pc` is where each goroutine stands; a send that waits is a stage; the gateway is `GatewayService`; `reading` holds the goroutines that `fsList` leaves in a folder |
| `PushWatcher` | `Watcher`, `Registry`, and the gateway and APNs as seen by them | `pc` is where `Poll` stands; an event records the phones that were connected when it happened; `sends` counts what APNs was asked, taken or not; sessions enter and leave the list |
| `PushWatcherProofs` | | proofs about `PushWatcher` |
| `Daemon` | `runDaemon`, `control.Serve`, `launchd.Install`, `Restart`, `Stop`, and `cmdUp` | a process is a number; `stage`, `http`, `ctl`, `closer` and `up` are where its goroutines and the command stand; `path` is whose socket the file is |
| `DaemonProofs` | | proofs about `Daemon` |

`MC...` modules give TLC its symmetry sets and record constants. Operators marked "Variant" in a module are plausible slips of the code, used to show that each property can fail when the code changes. Variables marked "history" are written and never read by guards.

Composition: `Tunnel` runs on `GatewayService` (`INSTANCE`), which `Supervisor` is shown to implement, so what is found about the tunnel holds for the supervisor there is; its sends to the Watch channels one by one are `SetState` and `Notify` in `Supervisor`. Admission meets the tunnel in `Name` (a CtlName frame), push in `Revoke` and the daemon in `Restart` and in the revocations made `Outside` the process. The dispatch loop and the end of the tunnel as shells see them are part of `Terminals`. `RelayLink` delivers to `serveLink`, which is what admission begins with. `Daemon` starts and ends the loops whose insides are `Supervisor`, `RelayLink` and `PushWatcher`, and relies on their ending when the context does (`StopReturnsEventually` for the supervisor).

launchd is external to `Daemon`. Taken from its use in `launchd.go`: a loaded job has one instance at a time, which is started again when it ends; `bootout` asks the instance to end and the job is gone when it has; `kickstart -k` ends the instance and returns once the next one has been started.

## Runs

Bounds are in the `.cfg` files; constants are described where they are declared.

| Run | Instance | Question |
|---|---|---|
| `admission` | 2 connection slots, 1 revocation by the daemon and 1 by the command line, 2 phones, 1 code, restarts | trust is earned by a code; only live codes are offered; a forgotten phone needs a code |
| `terminals` | 2 ids, 2 shells, cap 1, 1 output per shell; fair | an id is one shell's; the cap holds although check and insertion are apart; exits come last; closed shells and the shells of an ended tunnel end |
| `relay_channels` | 1 attachment, 3 phones, 2 at a time, channel numbers 0 to 2 | relay and client agree which phone a number is, and no number is shared, when the counter wraps and frames for closed channels are under way |
| `relay_pipe` | 1 attachment, 2 phones, 2 messages in either direction | refinement of `PhonePipe`; one phone's failure or full inbox leaves the other alone |
| `relay_live` | 2 attachments, 1 phone; fair | supersession, drain, crash, a link that ends without closing its channel: the live session is the registered one, and each end of a phone's path follows the other |
| `limits` | 2 addresses, 1 attempt a minute, a map of 1 entry; a bucket of 2, 1 a tick, frames up to 3; 5 ticks | attempts in any minute; nobody kept out for refusals; the bucket is exact |
| `secure_channel` | 2 senders, 3 messages of up to 3 frames, counter limit 7; fair | a gap or a refusal has a cause its sender was told of or its own size; order; arrival |
| `supervisor` | 1 tunnel, channel capacity 1, 2 children, 2 misses; fair | one child at a time; a tunnel hears that its child is gone; refinement of `GatewayService`; a hung child is ended; Stop returns |
| `tunnel` | 2 children, 1 request, Watch capacity 1, pings, text, keys and close; fair | the tunnel ends with its gateway even when that was replaced between dial and `Watch`; the dial ends; nothing is left behind but what waits for a folder; requests are answered unless their path is never resolved; the read loop comes back |
| `push` | 1 phone with 2 ways to register, 1 session, 1 token, 2 events; fair | nothing is sent twice; history is not news; APNs is asked for news, unless the phone is back, withdrawn or revoked, its session has left the list or the daemon is new |
| `daemon` | 3 processes, 2 runs of `up`; fair | the control socket finds no file; `up` prints a code of the daemon it configured; a daemon that is told to end, or has lost a listener before or while it serves, returns |

Why these bounds: every hazard here involves at most two parties and one earlier generation. Two connections and one revocation give each pair of operations on the device list. Two terminals over a cap of one give both a full map and a reused id. Two attachments give a successor; two channel numbers and three phones make the counter wrap. Two children give a restart, and a channel or an inbox of one fills up at once, which the real ones (8 states, 256 frames) hardly ever do in a test. A phone, a session and two events give a first observation, an event after it and a replay of it; restarts and registrations in between are unbounded. Three daemon processes are one that runs an old configuration, one that replaces it and one that replaces that. With an address limit of one and a map of one entry every window is full and swept at once.

One run, `admission_resurrect`, states what a message of the program says and the code does otherwise: a revoked phone must scan a new code (`main.go:471`). TLC's counterexample puts it back on the list with a `CtlName` frame or with an older list.

More such statements are in the modules, each with a `.cfg` of its own that gives TLC's counterexample. They are kept for whoever changes the code and are not among the runs above:

| Configuration | Statement | What happens |
|---|---|---|
| `AdmissionSingleUse` | a code is single use | two handshakes that both read the codes before one retires it both pair |
| `AdmissionLostUpdate` | the store is safe for concurrent use | one operation writes an older list over another's change |
| `AdmissionDisconnect` | every connection of a revoked phone is closed | one that is being admitted is not |
| `TerminalsOrphan` | shells die with the connection | a shell inserted after `closeAll` lives on |
| `TerminalsReuse` | exit, then forget | the id is free before the exit is sent |
| `RelayStranded` | draining closes every phone | a phone that registers after the phones were closed is left with an open socket: `servePhone` returns without closing it |
| `RelayAck` | the acknowledgement comes first | an `open` can precede it |
| `RelayReuse` | `PhonePipe`, when a channel number comes round again | a frame under way for the number's earlier phone reaches the later one; with 65535 numbers this takes as many arrivals during one frame |
| `RelayLimitsMap` | the map of addresses is bounded | a sweep removes expired entries only |
| `SecureChannelSize` | larger payloads are chunked | the receiver refuses them in sum |
| `TunnelFolder` | a slow folder fails alone, in time (`fs.go:20`) | the path is resolved on the folder's disk before the deadline begins (`fs.go:52`), and the request is never answered |
| `TunnelHeard` | a phone that pings is answered | a shell that does not read its keys holds up the read loop |
| `DaemonByHand` | the socket's path leads to the daemon that runs | a second daemon, started by hand, takes the file and removes it when it fails |
| `DaemonRevoke` | not running means that no daemon lets phones in | the bridge listens before the control socket is there, and after it is gone |
| `PushSeenLive` | connected phones get no push | what they saw is pushed when they leave |
| `PushChime` | the phone's chosen chime | the next phone gets it too |
| `PushRevoked` | a revoked phone is dropped | it stays registered and is pushed to |
| `PushStale` | a token APNs reports is dropped | a newer one is dropped with it |
| `PushLost` | an alert APNs has not taken is tried again | a failed request is logged, and its event is marked as seen |
| `PushAway` | phones that are not connected are told | one that leaves during a round is not |

`PushAway` takes some minutes. The runs `relay_pipe` and `relay_live` have numbers enough that none is handed out twice.

Deadlock is checked in `Admission`, where a connection can always come. Elsewhere it is not: connections close, phones leave and the bounded counters run out, so those systems may really stop.

## Fairness

Safety runs use none. The liveness runs assume:

- goroutines that are not blocked go on (weak fairness of each loop, handler, pump, watchdog), as Go's scheduler provides;
- a killed process dies (`Killed`), as the kernel provides;
- in `Tunnel`, a deadline that has been set passes (`TimesOut`, `WriteFails`, `DialFails`, `Deadline`), unless what it limits happens first, and the ticker ticks; a folder has no deadline of its own, so there is no fairness for `Resolved` and `ReadDirReturns`, and the properties exempt a request whose path is never resolved (`Stuck`);
- in `Daemon`, `httpSrv.Shutdown` returns in its five seconds and the loops return when the context ends; nothing of launchd, and nothing of the goroutine that removes the socket's file, for which the daemon does not wait;
- in `PushWatcher`, a gateway that is asked again and again answers at some time (strong fairness of `List`, `FetchFirst` and `FetchNews`): the ticker repeats the question every three seconds.

Nothing is assumed of phones, shells, folders, the gateway child's answers, the user, or when a socket fails.

## Proofs

| Theorem | Says |
|---|---|
| `TypeCorrect`, `TrustEarned` | `Spec => []TypeOK`, `Spec => []TrustIsEarned` |
| `OfferedLive`, `ForgottenStaysOut` | the action properties of `Admission` |
| `TerminalTypes`, `TerminalsKeepSlots`, `ShellsWithinCap`, `ExitsComeLast` | `TypeOK`, `OwnSlot`, `ShellCap` and `ExitIsLast` of `Terminals` |
| `SupervisorProofs`: `TypeCorrect`, `OneChildHolds`, `ChangeIsHeardHolds` | `TypeOK`, `OneChild`, `ChangeIsHeard` of `Supervisor` |
| `IsAServiceHolds` | `Supervisor` implements `GatewayService`: a child is announced only after it has answered its probe, and may have died in between |
| `PushWatcherProofs`: `TypeCorrect`, `SentOnceHolds`, `HistoryIsNotNewsHolds` | `TypeOK`, `SentOnce`, `HistoryIsNotNews` of `PushWatcher` |
| `ErrorsAreEarnedHolds`, `DeliversInOrderHolds` | the safety properties of `SecureChannel`, whichever writes fail, with the link or without it |
| `RelayLinkProofs`: `TypeCorrect`, `ChannelsAgreeHolds`, `ChannelsAreOwnHolds`, `LiveSessionRegisteredHolds` | `TypeOK`, `ChannelsAgree`, `ChannelsAreOwn`, `LiveSessionRegistered` of `RelayLink` |
| `RelayLinkProofs`: `ExactlyLikeDirectHolds`, `OtherPhoneSurvivesHolds` | `RelayLink` implements `PhonePipe`, and one phone's end or flood leaves the others alone, while numbers rest (`NumbersRest`) |
| `RelayLinkProofs`: `NumbersRestUntilWrap`, `DirectUntilWrap` | numbers rest as long as there are no more phones than numbers, and both properties hold then without the condition |
| `RelayLimitsProofs`: `TypeCorrect`, `WindowBoundHolds`, `RefusedForCauseHolds`, `BucketIsExactHolds` | `TypeOK`, `WindowBound`, `RefusedForCause`, `BucketIsExact` of `RelayLimits`, for any minute, limit, map, rate and burst |
| `DaemonProofs`: `TypeCorrect`, `BindFindsNoFileHolds`, `UpAnswersFromNewConfigHolds` | `TypeOK`, `BindFindsNoFile`, `UpAnswersFromNewConfig` of `Daemon`, for the daemons launchd starts (`Spec`) |

They hold for every value of the constants that satisfies the modules' assumptions (`AdmissionAssumption`, `TerminalsAssumption` and so on, beside the constants).

`AdmissionInv` is the inductive invariant of admission: `TrustIsEarned` alone is not inductive, because a code proved now was offered earlier (`CodesInv`) and a phone may be written to the list by a `CtlName` frame of a connection that is gone (`TrustCallsEarned`). `ForgottenStaysOut` goes through the steps that could make a forgotten phone known and leaves only the accepted proof of a code.

`TerminalsInv` is that of the terminals: `OwnSlot` needs `OpeningInv`, which says what the dispatch loop keeps between `openTerminal`'s checks and its insertion; only pumps change the map meanwhile, and they only remove. `ShellsWithinCap` maps the running shells into the ids they hold (or are about to hold) one to one and compares cardinalities. `ExitsComeLast` adds `SeenInv`: an exit the phone has seen is from a terminal whose pump is done, and a pump that is done sends nothing.

`SupervisorInv` needs `Phases`, which ties each stage of `runOnce` to the child, the port and the state it leaves behind, and `NotYetHeard`, which is `ChangeIsHeard` for the moment between a change and the last of its sends: a tunnel is among the watchers still to be sent to, or has the change, or one before it that is enough, in its channel. The refinement follows: `state`, `port` and the child of `Supervisor` are those of `GatewayService`, `probed` is the stage between the probe's answer and the announcement, and each step is one of its steps or none.

`PushInv` says of every event that has been pushed that it is behind `seen` of its session or among those the round has already handled (`SeenInv`, `HandInv`, `SentInv`): the order in which `Poll` moves `seen` and delivers is what makes `SentOnce` inductive. It says this of every request, those that fail included: a phone APNs has not taken the alert for stays in hand only until the failure is logged or its registration removed (the stages `failed` and `remove`).

`ChannelInv` allows for counters that were used by frames whose write failed. As long as no counter is missing, the frames on the link continue what the receiver has, frame by frame (`InSequence`), and the one sender that holds the lock continues them (`SenderFollows`); where the first counter is missing, the message that was to follow is one whose send returned an error (`LossIsKnown`). The receiver stops at that counter, so what the assembler holds is always a beginning of the next message (`Assembled`), and a gap costs what follows but never mixes two messages.

`DaemonInv` rests on what launchd promises. Only its latest instance is alive (`OneInstance`), and only a live process that has read its configuration is at the socket (`SocketOfLiving`), so nobody puts a file back between `os.Remove` and the bind: `BindFindsNoFile`. Once kickstart has gone from the old instance to the next, every process that runs has read what `up` saved (`RunsOnSaved`), and any answer after that is from such a process: `UpAnswersFromNewConfig`. Both fail with a daemon started by hand beside launchd's (`SpecByHand`), which shares the file and may have read an older configuration.

`LinkInv` is that of the relay transport. `ChannelsAgree` needs to know what is under way: every frame on its way to the bridge carries the number its phone has on that attachment (`FramesBelong`), a phone that has a number keeps it (`Numbered`, `Placed`), and channels exist on one attachment only (`OneMux`). `ChannelsAreOwn` rests on the search for a number: all numbers are tried from any counter on (`EveryChannelIsTried`), and below the cap one of them is free (`FreeChannelIsFree`, by counting; that there is a first one is the well-foundedness of the natural numbers). `LiveSessionRegistered` needs only that `Attach` cancels the session it replaces.

`PipeInv` is what `LinkInv` lacks for the refinement. `PhonePipe` knows phones and the relay knows numbers, so everything rests on a number in use being one phone's (`NumbersAreOwn`), where a number is in use as long as a handler, a channel of the bridge or a frame under way in either direction goes by it (`Uses`). The code does not ensure this for ever: `servePhone` frees a number before it tells the bridge (`Leave`, then `Tell`), and frames may still be queued, so a counter that comes round can hand out a number in use, and `RelayReuse` shows a frame reaching the wrong phone. The theorems therefore assume `NumbersRest`, that no step hands out a number still in use, and `NumbersRestUntilWrap` proves it of the code until the counter has gone round once: the numbers an attachment has given are as many as its counter says (`Counted`). On top of `NumbersAreOwn`, a phone's open frame comes once, before its data, and is there until the bridge reads it (`Opens`, `OpenIsComing`), so that the link starts once and with an empty pipe (`Service`); a close comes only after the phone has left (`LeftIsClosed`); and data under way continues, message by message, what the other end has taken (`InOrder`). Each step of relay, socket and mux is then a step of the pipes or none (`DirectStep`).

`LimitsInv` relates the one counter of an address and the one number of the bucket to the whole past. What an address was let in in any minute is at most what its entry counts plus what the window before it counted, which gives twice the limit, and an entry that refuses was filled within the minute. The level of the bucket is the least room that any earlier moment leaves, refill since then included, less the bytes passed since then; some moment leaves exactly that, so a frame passes when all moments leave room for it, and only then.

Only model-checked: all liveness (liveness under fairness and `ENABLED` are out of the prover's reach), and so everything about `Tunnel`, whose properties all say that something happens in the end. Every invariant, action property and refinement that the passing runs check is also stated by a theorem; for `OtherPhoneSurvives` and the refinement of `PhonePipe` with the hypothesis above. The run `relay_pipe` has as many numbers as phones, the instance of `DirectUntilWrap`.

## Not modelled

- Cryptography: a sealed frame opens to what was sealed, a proof of a code or a key cannot be made without it. Handshake transcripts and nonces are left out, and with them the challenge of a bridge that attaches to the relay: one that fails it changes nothing.
- Time, except in `RelayLimits`: a timeout may expire at any moment; backoff, keepalive and expiry have no duration. A phone that does not read holds up the relay's forwarding loop for up to a write timeout (`relay.go:286`), and an old bridge socket is closed with the server's lock held (`relay.go:229`): both are delays, which a model without time does not see.
- The route allowlist, the order of a directory listing, pairing links and QR codes: functions of their input, with no state, on strings.
- The APNs bearer token and payloads, and `push setup`, `push test` and `selftest`: one process, one pass, files. `push setup` with a key that cannot be parsed has already replaced `apns.p8` (`push.go:69-75`); the phone of `selftest` stays trusted if the command is interrupted (`selftest.go:82`).
- Files cut short by a crash: `push-devices.json` is written in place (`registry.go:98`). `devices.json` is renamed into place, from one temporary name for every process (`state.go:214`).
- The gateway's ring overwriting events before they are read, and how it numbers events after its own restart.
- The insides of the WebSocket library: the close handshake, and that a write whose context is cancelled in the middle closes its socket, which on the relay transport is the socket of every phone (`relay_client.go:303-314`, `relay.go:399`). `RelayLink` has that only as a socket that fails at any time (`SocketFails`), which `OtherPhoneSurvives` excuses.
- What would notice that an answer to a probe does not reset the misses before it (`supervisor.go:326`): the reset is in `Supervisor` (`ProbeHit`), but a child may be killed at any time there.
- Why a phone is not told when its link ends before its channel is closed (`server.go:180-182`): the step is in `RelayLink` (`LinkQuits`), and `LinkEndedClosesPhone` speaks of the links that close their channel.
- Tailscale: its command is called and its output parsed. The start of the relay's process; `Drain`, which it calls at its end, is in `RelayLink`.

## Plan

1. Done: the modules above, `Supervisor` as an implementation of `GatewayService`, `RelayLink` as one of `PhonePipe`, and the proofs above.
2. The devices file as seen by several processes: the temporary file they share, and `selftest`'s phone.
3. Proofs: what the tunnel's liveness rests on, as invariants of `Tunnel` (a goroutine that waits has a deadline, a cancelled context or room in a channel), and the end of a shell as an action property.
4. Pure operators checked against references over bounded inputs: `routeAllowed`, `fsResolvePath`, `ParsePair`.
