----------------------------- MODULE PushWatcher -----------------------------
(***************************************************************************)
(* Pushing events to phones that are away: the watcher that polls the      *)
(* gateway (internal/push/watcher.go), the registry of the phones' push    *)
(* details (internal/push/registry.go, fed by the tunnel's CtlPush,        *)
(* bridge/tunnel.go:168-172), and, as the watcher sees them, the gateway   *)
(* (internal/push/gateway.go) and APNs (internal/push/apns.go:96-142).     *)
(*                                                                         *)
(* An event is its kind and the phones that were connected when it         *)
(* happened; its sequence number is its place in its session's log.  The   *)
(* ring of a session is taken never to drop an event the watcher has not   *)
(* asked for yet, and to be there still if the session, once it has left   *)
(* the list, comes back to it.  Titles, bodies and categories are left     *)
(* out; the chime of an alert is the phone that chose it.                  *)
(***************************************************************************)
EXTENDS Naturals, Sequences

CONSTANTS
  Devices,   \* number of phones
  Session,   \* the gateway's sessions
  Tokens,    \* bound: APNs tokens a phone has, one after the other
  Offer,     \* the kinds and the chime phones register with
  MaxEvents  \* bound: events of a session

Device == 1..Devices   \* in the order in which Registry.All sorts their ids
Kind == {"approval", "turnDone"}
Token == Device \X (1..Tokens)
Registration == [token : Token, kinds : SUBSET Kind, sound : BOOLEAN]
None == [token |-> <<>>, kinds |-> {}, sound |-> FALSE]
Unknown == MaxEvents + 1   \* seen: the session is not in the map
DefaultSound == 0

ASSUME PushAssumption ==
  /\ Devices \in Nat /\ Tokens \in Nat /\ MaxEvents \in Nat
  /\ Offer \subseteq [kinds : SUBSET Kind, sound : BOOLEAN]

VARIABLES
  \* the phones, the gateway and APNs
  online,   \* phones connected to the bridge
  revoked,  \* phones that have been revoked
  log,      \* [Session -> Seq([kind, live])]
  active,   \* sessions the gateway lists
  dead,     \* tokens APNs reports as unregistered
  \* Registry.devices, in memory and in push-devices.json
  reg,
  \* Watcher.Poll
  pc,       \* Stage
  away,     \* phones offlineDevices has found not connected
  targets,  \* the offline entries: [set of phones -> Registration]
  todo,     \* sessions of the list still to go through
  cur, last, next, upto, \* the session in hand, its last, the event, the last one
  left,     \* targets deliver has still to go through
  chime,    \* alert.Sound in deliver
  seen,     \* Watcher.seen
  \* history
  sends,    \* [Device \X Session \X Seq -> times APNs was asked to send it]
  born      \* [Session -> events it had when it was observed first]

worldVars == <<online, revoked, log, active, dead>>
roundVars == <<away, targets, todo, cur, last, next, upto, left, chime>>
histVars  == <<sends, born>>
vars == <<worldVars, reg, pc, roundVars, seen, histVars>>

Seqs == 1..MaxEvents
Stage == {"idle", "registry", "list", "sessions", "events", "send", "failed", "remove"}
Event == [kind : Kind \cup {"none"}, live : SUBSET Device]

TypeOK ==
  /\ online \in SUBSET Device /\ revoked \in SUBSET Device
  /\ log \in [Session -> Seq(Event)] /\ \A s \in Session : Len(log[s]) <= MaxEvents
  /\ active \in SUBSET Session /\ dead \in SUBSET Token
  /\ reg \in [Device -> Registration \cup {None}]
  /\ pc \in Stage /\ away \in SUBSET Device
  /\ DOMAIN targets \in SUBSET Device
  /\ \A d \in DOMAIN targets : targets[d] \in Registration
  /\ todo \in SUBSET Session /\ cur \in Session
  /\ last \in 0..MaxEvents /\ upto \in 0..MaxEvents /\ next \in 1..(MaxEvents + 1)
  /\ left \in SUBSET DOMAIN targets /\ (pc \in {"failed", "remove"} => left # {})
  /\ chime \in Device \cup {DefaultSound}
  /\ seen \in [Session -> 0..Unknown]
  /\ sends \in [Device \X Session \X Seqs -> Nat]
  /\ born \in [Session -> 0..MaxEvents]

NoTargets == [d \in {} |-> None]

\* The daemon starts, on the registrations the file holds.
Fresh ==
  /\ online' = {} /\ pc' = "idle"
  /\ away' = {} /\ targets' = NoTargets /\ todo' = {}
  /\ last' = 0 /\ next' = 1 /\ upto' = 0
  /\ left' = {} /\ chime' = DefaultSound
  /\ seen' = [s \in Session |-> Unknown]

Init ==
  /\ online = {} /\ revoked = {} /\ active = {} /\ dead = {}
  /\ log = [s \in Session |-> <<>>]
  /\ reg = [d \in Device |-> None]
  /\ pc = "idle" /\ away = {} /\ targets = NoTargets /\ todo = {}
  /\ cur \in Session /\ last = 0 /\ next = 1 /\ upto = 0
  /\ left = {} /\ chime = DefaultSound
  /\ seen = [s \in Session |-> Unknown]
  /\ sends = [x \in Device \X Session \X Seqs |-> 0]
  /\ born = [s \in Session |-> 0]

-----------------------------------------------------------------------------
(* The phones, the gateway and APNs. *)

Connect(d) ==
  /\ d \notin online \cup revoked
  /\ online' = online \cup {d}
  /\ UNCHANGED <<revoked, log, active, dead, reg, pc, roundVars, seen, histVars>>

Disconnect(d) ==
  /\ d \in online
  /\ online' = online \ {d}
  /\ UNCHANGED <<revoked, log, active, dead, reg, pc, roundVars, seen, histVars>>

\* CtlPush: Registry.Set; an empty token withdraws the registration.
Set(d) ==
  /\ d \in online
  /\ \/ reg' = [reg EXCEPT ![d] = None]
     \/ \E r \in Offer, t \in Token \ dead :
          /\ t[1] = d
          /\ reg' = [reg EXCEPT ![d] = [token |-> t, kinds |-> r.kinds, sound |-> r.sound]]
  /\ UNCHANGED <<worldVars, pc, roundVars, seen, histVars>>

\* daemon.Revoke: the store and the connection, not the registry.
Revoke(d) ==
  /\ d \notin revoked
  /\ revoked' = revoked \cup {d}
  /\ online' = online \ {d}
  /\ UNCHANGED <<log, active, dead, reg, pc, roundVars, seen, histVars>>

Open(s) ==
  /\ s \notin active
  /\ active' = active \cup {s}
  /\ UNCHANGED <<online, revoked, log, dead, reg, pc, roundVars, seen, histVars>>

\* The session is closed: the next list is without it.
Close(s) ==
  /\ s \in active
  /\ active' = active \ {s}
  /\ UNCHANGED <<online, revoked, log, dead, reg, pc, roundVars, seen, histVars>>

Happen(s) ==
  /\ s \in active /\ Len(log[s]) < MaxEvents
  /\ \E k \in Kind \cup {"none"} :
       log' = [log EXCEPT ![s] = Append(@, [kind |-> k, live |-> online])]
  /\ UNCHANGED <<online, revoked, active, dead, reg, pc, roundVars, seen, histVars>>

\* The app is removed, or the OS gives it another token.
Expire(t) ==
  /\ t \notin dead
  /\ dead' = dead \cup {t}
  /\ UNCHANGED <<online, revoked, log, active, reg, pc, roundVars, seen, histVars>>

Restart ==
  /\ Fresh
  /\ UNCHANGED <<revoked, log, active, dead, reg, cur, histVars>>

-----------------------------------------------------------------------------
(* Poll: whom to push to, and the sessions. *)

ReadOnline ==
  /\ pc = "idle" /\ pc' = "registry"
  /\ away' = Device \ online
  /\ UNCHANGED <<worldVars, reg, targets, todo, cur, last, next, upto, left,
                 chime, seen, histVars>>

ReadRegistry ==
  /\ pc = "registry"
  /\ targets' = [d \in {e \in away : reg[e].kinds # {}} |-> reg[d]]
  /\ pc' = IF DOMAIN targets' = {} THEN "idle" ELSE "list"
  /\ away' = {}
  /\ UNCHANGED <<worldVars, reg, todo, cur, last, next, upto, left, chime, seen,
                 histVars>>

List ==
  /\ pc = "list" /\ pc' = "sessions"
  /\ todo' = active
  /\ UNCHANGED <<worldVars, reg, away, targets, cur, last, next, upto, left,
                 chime, seen, histVars>>

ListFails ==
  /\ pc = "list" /\ pc' = "idle"
  /\ targets' = NoTargets
  /\ UNCHANGED <<worldVars, reg, away, todo, cur, last, next, upto, left, chime,
                 seen, histVars>>

\* Variant: history counts as news.
FetchFirstZero(s) ==
  /\ pc = "sessions" /\ s \in todo /\ seen[s] = Unknown
  /\ todo' = todo \ {s}
  /\ seen' = [seen EXCEPT ![s] = 0]
  /\ born' = [born EXCEPT ![s] = Len(log[s])]
  /\ UNCHANGED <<worldVars, reg, pc, away, targets, cur, last, next, upto, left,
                 chime, sends>>

\* A session not in the map: its events are history, and only marked.
FetchFirst(s) ==
  /\ pc = "sessions" /\ s \in todo /\ seen[s] = Unknown
  /\ todo' = todo \ {s}
  /\ seen' = [seen EXCEPT ![s] = Len(log[s])]
  /\ born' = [born EXCEPT ![s] = Len(log[s])]
  /\ UNCHANGED <<worldVars, reg, pc, away, targets, cur, last, next, upto, left,
                 chime, sends>>

\* Events after last; the ring may replay some before it.
FetchNews(s) ==
  /\ pc = "sessions" /\ s \in todo /\ seen[s] # Unknown
  /\ todo' = todo \ {s}
  /\ cur' = s /\ last' = seen[s]
  /\ next' \in 1..(seen[s] + 1) /\ upto' = Len(log[s])
  /\ pc' = "events"
  /\ UNCHANGED <<worldVars, reg, away, targets, left, chime, seen, histVars>>

FetchFails(s) ==
  /\ pc = "sessions" /\ s \in todo
  /\ todo' = todo \ {s}
  /\ UNCHANGED <<worldVars, reg, pc, away, targets, cur, last, next, upto, left,
                 chime, seen, histVars>>

PollReturns ==
  /\ pc = "sessions" /\ todo = {} /\ pc' = "idle"
  /\ targets' = NoTargets
  /\ UNCHANGED <<worldVars, reg, away, todo, cur, last, next, upto, left, chime,
                 seen, histVars>>

-----------------------------------------------------------------------------
(* The events of one session, and deliver. *)

Skip ==
  /\ pc = "events" /\ next <= upto /\ next <= last
  /\ next' = next + 1
  /\ UNCHANGED <<worldVars, reg, pc, away, targets, todo, cur, last, upto, left,
                 chime, seen, histVars>>

\* Variant: the event handled is not marked.
HandleUnmarked ==
  /\ pc = "events" /\ next <= upto /\ next > last
  /\ IF log[cur][next].kind = "none"
     THEN next' = next + 1 /\ UNCHANGED <<pc, left, chime>>
     ELSE /\ pc' = "send" /\ left' = DOMAIN targets
          /\ chime' = DefaultSound /\ UNCHANGED next
  /\ UNCHANGED <<worldVars, reg, away, targets, todo, cur, last, upto, seen, histVars>>

\* Variant: of the events of a round only the newest is alerted.
HandleNewest ==
  /\ pc = "events" /\ next <= upto /\ next > last
  /\ seen' = [seen EXCEPT ![cur] = IF next > @ THEN next ELSE @]
  /\ IF log[cur][next].kind = "none" \/ next < upto
     THEN next' = next + 1 /\ UNCHANGED <<pc, left, chime>>
     ELSE /\ pc' = "send" /\ left' = DOMAIN targets
          /\ chime' = DefaultSound /\ UNCHANGED next
  /\ UNCHANGED <<worldVars, reg, away, targets, todo, cur, last, upto, histVars>>

\* Classify decides whether there is an alert.
Handle ==
  /\ pc = "events" /\ next <= upto /\ next > last
  /\ seen' = [seen EXCEPT ![cur] = IF next > @ THEN next ELSE @]
  /\ IF log[cur][next].kind = "none"
     THEN next' = next + 1 /\ UNCHANGED <<pc, left, chime>>
     ELSE /\ pc' = "send" /\ left' = DOMAIN targets
          /\ chime' = DefaultSound /\ UNCHANGED next
  /\ UNCHANGED <<worldVars, reg, away, targets, todo, cur, last, upto, histVars>>

EventsDone ==
  /\ pc = "events" /\ next > upto /\ pc' = "sessions"
  /\ UNCHANGED <<worldVars, reg, roundVars, seen, histVars>>

\* The entry deliver has in hand.
Entry == CHOOSE d \in left : \A e \in left : d <= e

Wants(d) == log[cur][next].kind \in targets[d].kinds

Unwanted ==
  /\ pc = "send" /\ left # {} /\ ~Wants(Entry)
  /\ left' = left \ {Entry}
  /\ UNCHANGED <<worldVars, reg, pc, away, targets, todo, cur, last, next, upto,
                 chime, seen, histVars>>

\* The alert goes out with the phone's chime, or with what it carries already.
Attempt ==
  /\ pc = "send" /\ left # {} /\ Wants(Entry)
  /\ chime' = IF log[cur][next].kind = "turnDone" /\ targets[Entry].sound
              THEN Entry ELSE chime
  /\ sends' = [sends EXCEPT ![<<Entry, cur, next>>] = @ + 1]
  /\ UNCHANGED <<worldVars, reg, away, targets, todo, cur, last, next, upto, seen, born>>

\* APNs takes the alert.
Sent ==
  /\ Attempt
  /\ left' = left \ {Entry} /\ UNCHANGED pc

\* The request fails.
SendFails ==
  /\ Attempt
  /\ pc' = "failed" /\ UNCHANGED left

Unregistered ==
  /\ Attempt
  /\ targets[Entry].token \in dead
  /\ pc' = "remove" /\ UNCHANGED left

\* That is logged, and no more: the event is marked as seen.
GiveUp ==
  /\ pc = "failed" /\ pc' = "send"
  /\ left' = left \ {Entry}
  /\ UNCHANGED <<worldVars, reg, away, targets, todo, cur, last, next, upto, chime,
                 seen, histVars>>

Remove ==
  /\ pc = "remove" /\ pc' = "send"
  /\ reg' = [reg EXCEPT ![Entry] = None]
  /\ left' = left \ {Entry}
  /\ UNCHANGED <<worldVars, away, targets, todo, cur, last, next, upto, chime,
                 seen, histVars>>

DeliverReturns ==
  /\ pc = "send" /\ left = {} /\ pc' = "events"
  /\ next' = next + 1
  /\ UNCHANGED <<worldVars, reg, away, targets, todo, cur, last, upto, left, chime,
                 seen, histVars>>

Step ==
  \/ ReadOnline \/ ReadRegistry \/ List \/ ListFails \/ PollReturns
  \/ \E s \in Session : FetchFirst(s) \/ FetchNews(s) \/ FetchFails(s)
  \/ Skip \/ Handle \/ EventsDone
  \/ Unwanted \/ Sent \/ SendFails \/ GiveUp \/ Unregistered \/ Remove \/ DeliverReturns

Next ==
  \/ Step \/ Restart
  \/ \E d \in Device : Connect(d) \/ Disconnect(d) \/ Set(d) \/ Revoke(d)
  \/ \E s \in Session : Open(s) \/ Close(s) \/ Happen(s)
  \/ \E t \in Token : Expire(t)

Spec == Init /\ [][Next]_vars

\* The ticker goes on; a gateway asked again and again answers at some time.
Fairness ==
  /\ WF_vars(Step) /\ SF_vars(List)
  /\ \A s \in Session : SF_vars(FetchFirst(s)) /\ SF_vars(FetchNews(s))

FairSpec == Spec /\ Fairness

-----------------------------------------------------------------------------
(* What the watcher promises. *)

\* APNs is not asked twice to send a phone the same event, whatever the ring replays, whichever
\* calls fail and even if the daemon restarts in between (watcher.go:198-217).
SentOnce == \A x \in DOMAIN sends : sends[x] <= 1

\* An event that was there when its session was first observed, since the start
\* of the daemon, is not sent (watcher.go:134-135, 206-217).
HistoryIsNotNews ==
  [][\A d \in Device, s \in Session, n \in Seqs :
       sends[<<d, s, n>>]' > sends[<<d, s, n>>] => n > born[s]]_vars

IsNews(d, s, n) ==
  /\ d \notin online \cup revoked /\ seen[s] # Unknown /\ seen[s] < n /\ n <= Len(log[s])
  /\ log[s][n].kind \in reg[d].kinds /\ d \notin log[s][n].live

\* What spares the watcher an event: the phone is back, revoked or no longer registered,
\* the session has left the list, or a new daemon knows nothing of it.
Spared(d, s) ==
  d \in online \cup revoked \/ reg[d] = None \/ s \notin active \/ seen[s] = Unknown

\* For news there is when a round begins APNs is asked, for each phone that is away and
\* wants it, whatever fails in between, unless the event is spared (watcher.go:169-220).
\* Whether APNs takes it is another question: it is asked once.
NewsIsTried ==
  \A d \in Device, s \in Session, n \in Seqs :
    IsNews(d, s, n) /\ pc = "idle" ~> sends[<<d, s, n>>] > 0 \/ Spared(d, s)

-----------------------------------------------------------------------------
(* What comments and the README promise and the code does otherwise. *)

\* watcher.go:140-141: connected phones "see events live and get no push".
SeenLiveNotSent ==
  \A d \in Device, s \in Session, n \in Seqs :
    sends[<<d, s, n>>] > 0 => d \notin log[s][n].live

\* watcher.go:242: an alert that ends a turn has "the phone's chosen completion
\* chime", and so not that of another phone.
OwnChime ==
  [][\A d \in left : d = Entry /\ sends' # sends => chime' \in {DefaultSound, d}]_vars

\* registry.go:67: Remove drops a phone that is revoked, so no round begins for it.
NoRoundForRevoked ==
  [][pc = "registry" /\ pc' = "list" => DOMAIN targets' \cap revoked = {}]_vars

\* registry.go:67: Remove drops a phone whose token APNs has reported.
RemovesOnlyReported ==
  [][pc = "remove" /\ pc' = "send" =>
       reg[Entry] = None \/ reg[Entry].token \in dead]_vars

\* daemon.go:123-125: moments that need a person are pushed "to phones that are
\* not connected": one that is away for the whole time is sent the event.
AwayIsTold ==
  \A d \in Device, s \in Session, n \in Seqs :
    IsNews(d, s, n) ~> sends[<<d, s, n>>] > 0 \/ Spared(d, s)

\* watcher.go:130-131: the watcher "pushes what it finds", and so again what a failed
\* request has not pushed (watcher.go:252-253 only logs it).
FailedIsTriedAgain ==
  \A d \in Device, s \in Session, n \in Seqs :
    pc = "failed" /\ d = Entry /\ s = cur /\ n = next ~>
      sends[<<d, s, n>>] > 1 \/ Spared(d, s)

-----------------------------------------------------------------------------
(* The inductive invariant. *)

\* What has been seen is there, and what is history has been seen.
SeenInv ==
  \A s \in Session :
    /\ born[s] <= Len(log[s])
    /\ seen[s] # Unknown => born[s] <= seen[s] /\ seen[s] <= Len(log[s])

\* Seen goes up with the event in hand.
HandInv ==
  /\ pc \notin {"send", "failed", "remove"} => left = {}
  /\ pc \in {"events", "send", "failed", "remove"} =>
       /\ upto <= Len(log[cur]) /\ last <= upto /\ next <= upto + 1
       /\ born[cur] <= last
       /\ pc # "events" => next > last /\ next <= upto
       /\ seen[cur] = IF next <= last THEN last ELSE IF pc = "events" THEN next - 1 ELSE next

\* What was sent has been seen, and was not sent yet to the phones deliver has still to go
\* through; a phone APNs has not taken the alert for is still in hand.
SentInv ==
  \A d \in Device, s \in Session, n \in Seqs :
    /\ sends[<<d, s, n>>] <= 1
    /\ sends[<<d, s, n>>] = 1 => n <= Len(log[s]) /\ n <= seen[s]
    /\ pc = "send" /\ s = cur /\ n = next /\ d \in left => sends[<<d, s, n>>] = 0
    /\ pc \in {"failed", "remove"} /\ s = cur /\ n = next /\ d \in left \ {Entry} =>
         sends[<<d, s, n>>] = 0

PushInv == TypeOK /\ SeenInv /\ HandInv /\ SentInv

=============================================================================
