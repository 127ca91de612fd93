---------------------------- MODULE RelayLimits ----------------------------
(***************************************************************************)
(* The relay's limits against the clock (internal/relay/relay.go): the     *)
(* attempts to connect an address has in a minute (allowIP, asked first by *)
(* serveBridge and servePhone), and the bytes a phone's connection may     *)
(* carry (bucket), both directions together.                               *)
(*                                                                         *)
(* Time goes in ticks, Minute of them to a minute; the bucket fills with   *)
(* Rate bytes a tick.  Both locks are held from the first line to the      *)
(* last, so each call is one step.  The limits count alike for bridges and *)
(* phones, and what becomes of a connection is in RelayLink; here a phone  *)
(* is one that has a bucket.                                               *)
(***************************************************************************)
EXTENDS Integers, FiniteSetsExt

CONSTANTS
  Address,
  Minute,   \* ticks in a minute
  PerIP,    \* ConnectionsPerIPPerMinute (60)
  MapLimit, \* entries in ipRate before a sweep (10000)
  Rate,     \* BytesPerSecond, in bytes per tick (2 MiB a second)
  Burst,    \* Burst (8 MiB)
  MaxFrame, \* the longest frame (protocol.MaxPlaintext and 1 KiB)
  MaxTime,  \* bound: ticks
  MaxTries  \* bound: attempts of an address within a window

ASSUME RelayLimitsAssumption ==
  {Minute, PerIP, MapLimit, Rate, Burst, MaxFrame, MaxTime, MaxTries} \subseteq Nat

VARIABLES
  now,
  ipRate,  \* [Address -> ipWindow], None where the map has no entry
  allowed, \* history: [Address -> [tick -> attempts let in up to it]]
  refused, \* history: addresses whose last attempt was refused
  open,    \* a phone's connection is open
  tokens,  \* its bucket
  last,
  since,   \* history: the tick of newBucket
  passed   \* history: [tick -> bytes the bucket has let through up to it]

ipVars     == <<ipRate, allowed, refused>>
bucketVars == <<open, tokens, last, since, passed>>
vars == <<now, ipVars, bucketVars>>

Tick == 0..MaxTime
None == [start |-> 0, count |-> 0]

\* Histories are running totals.  What came before a tick, and from one to another.
Before(total, t) == IF t = 0 THEN 0 ELSE total[t - 1]
Between(total, t, u) == total[u] - Before(total, t)

\* n more at this moment.
More(total, n) == [t \in Tick |-> IF t < now THEN total[t] ELSE total[t] + n]

TypeOK ==
  /\ now \in Tick
  /\ ipRate \in [Address -> [start : Tick, count : 0..MaxTries]]
  /\ allowed \in [Address -> [Tick -> Nat]]
  /\ refused \in SUBSET Address
  /\ open \in BOOLEAN /\ tokens \in 0..Burst
  /\ last \in Tick /\ since \in Tick
  /\ passed \in [Tick -> Nat]

Init ==
  /\ now = 0
  /\ ipRate = [a \in Address |-> None]
  /\ allowed = [a \in Address |-> [t \in Tick |-> 0]] /\ refused = {}
  /\ open = FALSE /\ tokens = 0 /\ last = 0 /\ since = 0
  /\ passed = [t \in Tick |-> 0]

Pass == now < MaxTime /\ now' = now + 1 /\ UNCHANGED <<ipVars, bucketVars>>

-----------------------------------------------------------------------------
(* allowIP. *)

Expired(w) == w = None \/ now - w.start > Minute

Window(a) == IF Expired(ipRate[a]) THEN [start |-> now, count |-> 0] ELSE ipRate[a]

\* Variant: the sweep empties the map.
SweepAll(rate) ==
  IF Cardinality({a \in Address : rate[a] # None}) <= MapLimit
  THEN rate
  ELSE [a \in Address |-> None]

\* Once the map is too long, the entries whose minute is over go.
Sweep(rate) ==
  IF Cardinality({a \in Address : rate[a] # None}) <= MapLimit
  THEN rate
  ELSE [a \in Address |-> IF Expired(rate[a]) THEN None ELSE rate[a]]

Counted(a) == [ipRate EXCEPT ![a] = [Window(a) EXCEPT !.count = @ + 1]]

\* Variant: an attempt that is refused begins the minute anew.
RefusalRenews(a) ==
  [Counted(a) EXCEPT ![a].start = IF Counted(a)[a].count > PerIP THEN now ELSE @]

\* The entries after an attempt, which is counted whatever comes of it.
Count(a) == Counted(a)

\* Each attempt to connect, of a bridge or of a phone.
AllowIP(a) ==
  /\ Window(a).count < MaxTries
  /\ ipRate' = Sweep(Count(a))
  /\ IF Count(a)[a].count <= PerIP
     THEN /\ allowed' = [allowed EXCEPT ![a] = More(@, 1)]
          /\ refused' = refused \ {a}
     ELSE /\ refused' = refused \cup {a}
          /\ UNCHANGED allowed
  /\ UNCHANGED <<now, bucketVars>>

-----------------------------------------------------------------------------
(* The bucket. *)

\* A phone is let in.
NewBucket ==
  /\ ~open /\ open' = TRUE
  /\ tokens' = Burst /\ last' = now
  /\ since' = now /\ passed' = [t \in Tick |-> 0]
  /\ UNCHANGED <<now, ipVars>>

\* Variant: what was not used is kept without limit.
FilledWithoutEnd == tokens + (now - last) * Rate

Filled == Min({Burst, tokens + (now - last) * Rate})

\* A frame of n bytes, of the phone or for it; one too many closes the connection.
Take(n) ==
  /\ open
  /\ last' = now
  /\ IF n > Filled
     THEN open' = FALSE /\ tokens' = Filled /\ UNCHANGED passed
     ELSE /\ tokens' = Filled - n
          /\ passed' = More(passed, n)
          /\ UNCHANGED open
  /\ UNCHANGED <<now, ipVars, since>>

\* The phone or the bridge leaves.
PhoneGone ==
  /\ open /\ open' = FALSE
  /\ UNCHANGED <<now, ipVars, tokens, last, since, passed>>

-----------------------------------------------------------------------------

Next ==
  \/ Pass
  \/ \E a \in Address : AllowIP(a)
  \/ NewBucket \/ PhoneGone
  \/ \E n \in 1..MaxFrame : Take(n)

Spec == Init /\ [][Next]_vars

-----------------------------------------------------------------------------
(* Properties. *)

\* However the attempts are spread, and whatever a full map sweeps away, an address is let
\* in at most twice the limit in any minute: windows are fixed, not sliding
\* (relay.go:121-139).
WindowBound ==
  \A a \in Address, t, u \in Tick :
    t <= u /\ u - t <= Minute => Between(allowed[a], t, u) <= 2 * PerIP

\* An address is refused only if it has been let in as often as the limit says within the
\* last minute: attempts that were refused do not prolong its exclusion
\* (relay.go:126-131, 139).
RefusedForCause ==
  [][\A a \in Address :
       AllowIP(a) /\ a \in refused' =>
         \E t \in 0..now : now - t <= Minute /\ Between(allowed[a], t, now) >= PerIP]_vars

\* n bytes more than have passed since t are within the burst and the rate, for every t.
Fits(n) ==
  \A t \in since..now : Between(passed, t, now) + n <= Burst + Rate * (now - t)

\* The bucket's one number lets a frame pass exactly when the frames of every earlier
\* moment leave room for it: a phone is neither closed within its rate nor let through
\* beyond it (relay.go:420-431).
BucketIsExact == [][\A n \in 1..MaxFrame : Take(n) => (open' <=> Fits(n))]_vars

\* "keep the map bounded" (relay.go:132): a sweep leaves at most MapLimit entries.
MapIsBounded == Cardinality({a \in Address : ipRate[a] # None}) <= MapLimit

-----------------------------------------------------------------------------
(* The inductive invariant. *)

\* A running total never falls, and nothing is added after `end`.
Total(total, end) ==
  \A t, u \in Tick :
    (t <= u => total[t] <= total[u]) /\ (end <= t => total[t] = total[end])

\* An address that has a window: what was let in since it began is what it counts, up to
\* the limit, and came within its minute; the minute before it let in no more than that.
Windowed(a) ==
  LET w == ipRate[a] IN
  /\ w.start <= now /\ w.count > 0
  /\ Between(allowed[a], w.start, now) = IF w.count <= PerIP THEN w.count ELSE PerIP
  /\ \A t \in 0..now : t - w.start > Minute => Between(allowed[a], t, now) = 0
  /\ \A t \in 0..w.start : w.start - t <= Minute =>
       Before(allowed[a], w.start) - Before(allowed[a], t) <= PerIP

\* One that has none: nothing at this moment, and the limit within the last minute.
Windowless(a) ==
  /\ allowed[a][now] = Before(allowed[a], now)
  /\ \A t \in 0..now : now - t <= Minute => Between(allowed[a], t, now) <= PerIP

Windows ==
  \A a \in Address :
    /\ Total(allowed[a], now)
    /\ IF ipRate[a] = None THEN Windowless(a) ELSE Windowed(a)

\* What is in the bucket is the least that any earlier moment leaves room for.
Bucket ==
  open =>
    /\ since <= last /\ last <= now
    /\ Total(passed, last)
    /\ \A t \in since..last : tokens + Between(passed, t, last) <= Burst + Rate * (last - t)
    /\ \E t \in since..last : tokens + Between(passed, t, last) = Burst + Rate * (last - t)

LimitsInv == TypeOK /\ Windows /\ WindowBound /\ Bucket

=============================================================================
