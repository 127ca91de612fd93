------------------------- MODULE RelayLimitsProofs -------------------------
(***************************************************************************)
(* Proofs about RelayLimits, for every number of addresses, every limit,   *)
(* rate and burst.  The histories are running totals, so what an address   *)
(* or a bucket let through in a while is a difference, and no sum has to   *)
(* be taken by induction.                                                  *)
(***************************************************************************)
EXTENDS RelayLimits, TLAPS

LEMMA Constants ==
  /\ Minute \in Nat /\ PerIP \in Nat /\ Rate \in Nat /\ Burst \in Nat
  /\ MaxFrame \in Nat /\ MaxTime \in Nat /\ MaxTries \in Nat
  BY RelayLimitsAssumption

-----------------------------------------------------------------------------
(* Running totals. *)

\* What came before a tick is a number, and so is a difference.
LEMMA TotalTypes ==
  ASSUME NEW f \in [Tick -> Nat], NEW t \in Tick
  PROVE  /\ Before(f, t) \in Nat
         /\ \A u \in Tick : f[u] \in Nat /\ Between(f, t, u) = f[u] - Before(f, t)
                            /\ Between(f, t, u) \in Int
  <1>1. t \in Nat /\ (t # 0 => t - 1 \in Tick)
    BY Constants DEF Tick
  <1>2. Before(f, t) \in Nat
    BY <1>1 DEF Before
  <1> QED
    BY <1>2 DEF Between

\* What came before is less than what came before later, and than the total.
LEMMA BeforeGrows ==
  ASSUME NEW f \in [Tick -> Nat], NEW end \in Tick, Total(f, end),
         NEW t \in Tick, NEW u \in Tick, t <= u
  PROVE  Before(f, t) <= Before(f, u) /\ Before(f, t) <= f[u]
  <1>1. t \in Nat /\ u \in Nat /\ (t # 0 => t - 1 \in Tick) /\ (u # 0 => u - 1 \in Tick)
    BY Constants DEF Tick
  <1>2. t # 0 => f[t - 1] <= f[u] /\ f[t - 1] <= f[u - 1] /\ u # 0
    BY <1>1 DEF Total
  <1>3. f[u] \in Nat /\ Before(f, u) \in Nat
    BY TotalTypes
  <1> QED
    BY <1>2, <1>3 DEF Before

\* A moment later, the total is the same.
LEMMA TotalLater ==
  ASSUME NEW f \in [Tick -> Nat], NEW end \in Tick, Total(f, end),
         NEW later \in Tick, end <= later
  PROVE  Total(f, later) /\ f[later] = f[end]
  <1>1. f[later] = f[end]
    BY DEF Total
  <1>2. \A t \in Tick : later <= t => end <= t
    BY Constants DEF Tick
  <1> QED
    BY <1>1, <1>2 DEF Total

\* Nothing comes between the end of a total and a later moment.
LEMMA NothingAfter ==
  ASSUME NEW f \in [Tick -> Nat], NEW end \in Tick, Total(f, end),
         NEW t \in Tick, NEW u \in Tick, end < t, t <= u
  PROVE  Between(f, t, u) = 0
  <1>1. t \in Nat /\ end \in Nat /\ u \in Nat /\ t # 0 /\ t - 1 \in Tick /\ end <= t - 1 /\ end <= u
    BY Constants DEF Tick
  <1>2. f[t - 1] = f[end] /\ f[u] = f[end] /\ f[end] \in Nat
    BY <1>1 DEF Total
  <1> QED
    BY <1>1, <1>2 DEF Between, Before

\* What More adds is added to every total that ends now or later, and to none that ended
\* before.
LEMMA MoreAdds ==
  ASSUME now \in Tick, NEW f \in [Tick -> Nat], Total(f, now), NEW n \in Nat
  PROVE  /\ More(f, n) \in [Tick -> Nat] /\ Total(More(f, n), now)
         /\ \A t \in Tick : t <= now => Before(More(f, n), t) = Before(f, t)
         /\ More(f, n)[now] = f[now] + n
         /\ \A t \in Tick : t <= now => Between(More(f, n), t, now) = Between(f, t, now) + n
  <1> DEFINE g == More(f, n)
  <1>0. now \in Nat /\ \A t \in Tick : t \in Nat /\ f[t] \in Nat /\ (t # 0 => t - 1 \in Tick)
    BY Constants DEF Tick
  <1>1. \A t \in Tick : (t < now => g[t] = f[t]) /\ (now <= t => g[t] = f[t] + n)
    BY <1>0 DEF More
  <1>2. g \in [Tick -> Nat]
    BY <1>0 DEF More
  <1> HIDE DEF g
  <1>3. Total(g, now)
    <2> SUFFICES ASSUME NEW t \in Tick, NEW u \in Tick
                 PROVE  (t <= u => g[t] <= g[u]) /\ (now <= t => g[t] = g[now])
      BY DEF Total
    <2>1. t <= u => f[t] <= f[u]
      BY DEF Total
    <2>2. now <= t => f[t] = f[now]
      BY DEF Total
    <2> QED
      BY <1>0, <1>1, <2>1, <2>2
  <1>4. ASSUME NEW t \in Tick, t <= now PROVE Before(g, t) = Before(f, t)
    <2>1. t # 0 => t - 1 \in Tick /\ t - 1 < now
      BY <1>0, <1>4
    <2> QED
      BY <1>1, <2>1 DEF Before
  <1>5. g[now] = f[now] + n
    BY <1>0, <1>1
  <1>6. ASSUME NEW t \in Tick, t <= now PROVE Between(g, t, now) = Between(f, t, now) + n
    <2>1. Before(g, t) = Before(f, t)
      BY <1>4, <1>6
    <2>2. Between(g, t, now) = g[now] - Before(g, t) /\ Between(f, t, now) = f[now] - Before(f, t)
      BY DEF Between
    <2>3. Before(f, t) \in Nat /\ f[now] \in Nat
      BY TotalTypes
    <2> QED
      BY <1>5, <2>1, <2>2, <2>3
  <1> QED
    BY <1>2, <1>3, <1>4, <1>5, <1>6 DEF g

-----------------------------------------------------------------------------
(* The attempts of an address. *)

\* How the attempts of a window show in a running total.
CountedIn(f, w) ==
  /\ w.start <= now
  /\ Between(f, w.start, now) = IF w.count <= PerIP THEN w.count ELSE PerIP
  /\ \A t \in 0..w.start : w.start - t <= Minute => Before(f, w.start) - Before(f, t) <= PerIP

\* Once a window's minute is over, it can be forgotten.
LEMMA ExpiredIsWindowless ==
  ASSUME TypeOK, NEW a \in Address, Total(allowed[a], now), Windowed(a),
         now - ipRate[a].start > Minute
  PROVE  Windowless(a)
  <1> DEFINE f == allowed[a]
             s == ipRate[a].start
  <1>1. f \in [Tick -> Nat] /\ s \in Tick /\ now \in Tick
    BY DEF TypeOK
  <1>2. /\ \A t \in 0..now : t - s > Minute => Between(f, t, now) = 0
        /\ Between(f, s, now) <= PerIP
    <2>1. ipRate[a].count \in Nat
      BY DEF TypeOK
    <2> QED
      BY <2>1, Constants DEF Windowed
  <1>3. Total(f, now) /\ now - s > Minute
    OBVIOUS
  <1> HIDE DEF f, s
  <1>4. now \in Nat /\ s \in Nat /\ 0..now \subseteq Tick /\ s < now
    BY <1>1, <1>3, Constants DEF Tick
  <1>5. f[now] = Before(f, now)
    <2>1. Between(f, now, now) = 0
      BY <1>2, <1>3, <1>4
    <2>2. Between(f, now, now) = f[now] - Before(f, now) /\ Before(f, now) \in Nat /\ f[now] \in Nat
      BY <1>1, TotalTypes
    <2> QED
      BY <2>1, <2>2
  <1>6. ASSUME NEW t \in 0..now, now - t <= Minute PROVE Between(f, t, now) <= PerIP
    <2>1. t \in Tick /\ t \in Nat /\ s <= t
      BY <1>3, <1>4, <1>6, Constants
    <2>2. Before(f, s) <= Before(f, t)
      BY <1>1, <1>3, <2>1, BeforeGrows
    <2>3. /\ Between(f, t, now) = f[now] - Before(f, t) /\ Between(f, s, now) = f[now] - Before(f, s)
          /\ Before(f, t) \in Nat /\ Before(f, s) \in Nat /\ f[now] \in Nat
      BY <1>1, <2>1, TotalTypes
    <2> QED
      BY <1>2, <2>2, <2>3, Constants
  <1> QED
    BY <1>5, <1>6 DEF Windowless, f

\* The window an attempt falls into: its own, if the minute is not over, or a new one.
LEMMA WindowFacts ==
  ASSUME TypeOK, Windows, NEW a \in Address
  PROVE  /\ Window(a).start \in Tick /\ Window(a).count \in Nat
         /\ now - Window(a).start <= Minute
         /\ CountedIn(allowed[a], Window(a))
  <1> DEFINE f == allowed[a]
  <1>1. /\ f \in [Tick -> Nat] /\ now \in Tick /\ Total(f, now)
        /\ ipRate[a].start \in Tick /\ ipRate[a].count \in Nat
    BY DEF TypeOK, Windows
  <1>2. now \in Nat /\ now - now <= Minute
    BY <1>1, Constants DEF Tick
  <1>3. CASE ~Expired(ipRate[a])
    <2>1. Window(a) = ipRate[a] /\ ipRate[a] # None /\ ~(now - ipRate[a].start > Minute)
      BY <1>3 DEF Window, Expired
    <2>2. Windowed(a)
      BY <2>1 DEF Windows
    <2>3. ipRate[a].start \in Nat
      BY <1>1 DEF Tick
    <2> QED
      BY <1>1, <1>2, <2>1, <2>2, <2>3, Constants DEF Windowed, CountedIn
  <1>4. CASE Expired(ipRate[a])
    <2>1. Window(a).start = now /\ Window(a).count = 0
      BY <1>4 DEF Window
    <2>2. Windowless(a)
      <3>1. CASE ipRate[a] = None
        BY <3>1 DEF Windows
      <3>2. CASE ipRate[a] # None
        BY <1>1, <1>4, <3>2, ExpiredIsWindowless DEF Expired, Windows
      <3> QED
        BY <3>1, <3>2
    <2>3. f[now] = Before(f, now) /\ \A t \in 0..now : now - t <= Minute => Between(f, t, now) <= PerIP
      BY <2>2 DEF Windowless
    <2> HIDE DEF f
    <2>4. f[now] \in Nat /\ \A t \in 0..now : Between(f, t, now) = f[now] - Before(f, t)
      BY <1>1 DEF Between
    <2>5. Between(f, now, now) = 0
      BY <1>1, <1>2, <2>3, <2>4
    <2>6. \A t \in 0..now : now - t <= Minute => Before(f, now) - Before(f, t) <= PerIP
      BY <2>3, <2>4
    <2>7. CountedIn(f, Window(a))
      BY <1>2, <2>1, <2>5, <2>6, Constants DEF CountedIn
    <2> QED
      BY <1>1, <1>2, <2>1, <2>7 DEF f
  <1> QED
    BY <1>3, <1>4

\* What an attempt does to the entries: its own counts one more, and the others stay or,
\* their minute over, go.
LEMMA AttemptCounts ==
  ASSUME TypeOK, Windows, NEW a \in Address, AllowIP(a)
  PROVE  /\ ipRate' \in [Address -> [start : Tick, count : 0..MaxTries]]
         /\ ipRate'[a].start = Window(a).start /\ ipRate'[a].count = Window(a).count + 1
         /\ \A b \in Address \ {a} :
              \/ ipRate'[b] = ipRate[b]
              \/ ipRate[b] # None /\ now - ipRate[b].start > Minute /\ ipRate'[b] = None
  <1> DEFINE w == [start |-> Window(a).start, count |-> Window(a).count + 1]
  <1>1. /\ Window(a).start \in Tick /\ Window(a).count \in Nat
        /\ now - Window(a).start <= Minute /\ Window(a).count < MaxTries
    BY WindowFacts DEF AllowIP
  <1>2. w \in [start : Tick, count : 0..MaxTries] /\ w.count > 0
    BY <1>1, Constants
  <1>3. /\ ipRate \in [Address -> [start : Tick, count : 0..MaxTries]]
        /\ None \in [start : Tick, count : 0..MaxTries]
    BY Constants DEF TypeOK, None, Tick
  <1>4. Count(a) = [ipRate EXCEPT ![a] = w]
    <2>1. Window(a) = [start |-> Window(a).start, count |-> Window(a).count]
      BY <1>3 DEF Window
    <2>2. [Window(a) EXCEPT !.count = @ + 1] = w
      BY <2>1
    <2> QED
      BY <2>2 DEF Count, Counted
  <1>5. ~Expired(w)
    <2>1. w # None
      BY <1>1 DEF None
    <2>2. w.start \in Nat /\ now \in Nat
      BY <1>1, Constants DEF Tick, TypeOK
    <2> QED
      BY <1>1, <2>1, <2>2, Constants DEF Expired
  <1> HIDE DEF w
  <1>6. \/ ipRate' = Count(a)
        \/ ipRate' = [b \in Address |-> IF Expired(Count(a)[b]) THEN None ELSE Count(a)[b]]
    BY DEF AllowIP, Sweep
  <1>7. Count(a)[a] = w /\ \A b \in Address \ {a} : Count(a)[b] = ipRate[b]
    BY <1>3, <1>4
  <1>8. Count(a) \in [Address -> [start : Tick, count : 0..MaxTries]]
    BY <1>2, <1>3, <1>4
  <1>9. ipRate' \in [Address -> [start : Tick, count : 0..MaxTries]]
    BY <1>3, <1>6, <1>8
  <1>10. ipRate'[a] = w
    BY <1>5, <1>6, <1>7
  <1>11. ASSUME NEW b \in Address \ {a}
         PROVE  \/ ipRate'[b] = ipRate[b]
                \/ ipRate[b] # None /\ now - ipRate[b].start > Minute /\ ipRate'[b] = None
    <2>1. ipRate'[b] = ipRate[b] \/ (Expired(ipRate[b]) /\ ipRate'[b] = None)
      BY <1>6, <1>7
    <2> QED
      BY <2>1 DEF Expired
  <1> QED
    BY <1>9, <1>10, <1>11 DEF w

\* It is let in, and counted among those let in now, if the count is within the limit.
LEMMA AttemptIsLetIn ==
  ASSUME TypeOK, Windows, NEW a \in Address, AllowIP(a)
  PROVE  /\ \/ /\ Window(a).count + 1 <= PerIP /\ refused' = refused \ {a}
               /\ allowed' = [allowed EXCEPT ![a] = More(allowed[a], 1)]
            \/ /\ ~(Window(a).count + 1 <= PerIP) /\ refused' = refused \cup {a}
               /\ allowed' = allowed
         /\ UNCHANGED <<now, bucketVars>>
  <1>1. Count(a)[a].count = Window(a).count + 1
    <2>1. /\ ipRate \in [Address -> [start : Tick, count : 0..MaxTries]]
          /\ now \in Tick
      BY DEF TypeOK
    <2>2. Window(a) = [start |-> Window(a).start, count |-> Window(a).count]
      BY <2>1 DEF Window
    <2> QED
      BY <2>1, <2>2 DEF Count, Counted
  <1> QED
    BY <1>1 DEF AllowIP

\* After an attempt that was let in or not, its window shows in the total as before.
LEMMA AttemptShows ==
  ASSUME TypeOK, Windows, NEW a \in Address, AllowIP(a)
  PROVE  /\ allowed'[a] \in [Tick -> Nat] /\ Total(allowed'[a], now) /\ Windowed(a)'
         /\ ipRate'[a] # None
         /\ now - ipRate'[a].start <= Minute
  <1> DEFINE f == allowed[a]
             g == allowed'[a]
             w == ipRate'[a]
             v == Window(a)
  <1>1. /\ f \in [Tick -> Nat] /\ now \in Tick /\ Total(f, now) /\ allowed \in [Address -> [Tick -> Nat]]
    BY DEF TypeOK, Windows
  <1>2. /\ v.start \in Tick /\ v.count \in Nat /\ now - v.start <= Minute /\ CountedIn(f, v)
        /\ w.start = v.start /\ w.count = v.count + 1 /\ now' = now
    BY WindowFacts, AttemptCounts, AttemptIsLetIn
  <1>3. \/ v.count + 1 <= PerIP /\ g = More(f, 1)
        \/ ~(v.count + 1 <= PerIP) /\ g = f
    BY <1>1, AttemptIsLetIn
  <1>4. now \in Nat /\ v.start \in Nat /\ 0..now \subseteq Tick /\ v.start <= now
    BY <1>1, <1>2, Constants DEF Tick, CountedIn
  <1> HIDE DEF f, g, w, v
  <1>5. /\ g \in [Tick -> Nat] /\ Total(g, now)
        /\ \A t \in 0..now : Before(g, t) = Before(f, t)
        /\ Between(g, v.start, now) = IF w.count <= PerIP THEN w.count ELSE PerIP
    <2>1. Between(f, v.start, now) = IF v.count <= PerIP THEN v.count ELSE PerIP
      BY <1>2 DEF CountedIn
    <2>2. CASE v.count + 1 <= PerIP /\ g = More(f, 1)
      <3>1. /\ g \in [Tick -> Nat] /\ Total(g, now)
            /\ \A t \in Tick : t <= now => Before(g, t) = Before(f, t)
            /\ \A t \in Tick : t <= now => Between(g, t, now) = Between(f, t, now) + 1
        BY <1>1, <2>2, MoreAdds
      <3>2. Between(f, v.start, now) = v.count
        BY <1>2, <2>1, <2>2, Constants
      <3> QED
        BY <1>2, <1>4, <2>2, <3>1, <3>2
    <2>3. CASE ~(v.count + 1 <= PerIP) /\ g = f
      <3>1. Between(f, v.start, now) = PerIP
        BY <1>2, <2>1, <2>3, Constants
      <3> QED
        BY <1>1, <1>2, <2>3, <3>1
    <2> QED
      BY <1>3, <2>2, <2>3
  <1>6. \A t \in 0..now : t - w.start > Minute => Between(g, t, now) = 0
    BY <1>2, <1>4, Constants
  <1>7. \A t \in 0..w.start : w.start - t <= Minute => Before(g, w.start) - Before(g, t) <= PerIP
    <2>1. \A t \in 0..v.start : v.start - t <= Minute => Before(f, v.start) - Before(f, t) <= PerIP
      BY <1>2 DEF CountedIn
    <2>2. \A t \in 0..v.start : Before(g, t) = Before(f, t)
      BY <1>4, <1>5
    <2>3. v.start \in 0..v.start
      BY <1>4
    <2> QED
      BY <1>2, <2>1, <2>2, <2>3
  <1>8. Windowed(a)'
    <2>1. w.start <= now' /\ w.count > 0
      BY <1>2, <1>4
    <2>2. Between(g, w.start, now') = IF w.count <= PerIP THEN w.count ELSE PerIP
      BY <1>2, <1>5
    <2>3. Windowed(a)' <=>
            /\ w.start <= now' /\ w.count > 0
            /\ Between(g, w.start, now') = IF w.count <= PerIP THEN w.count ELSE PerIP
            /\ \A t \in 0..now' : t - w.start > Minute => Between(g, t, now') = 0
            /\ \A t \in 0..w.start : w.start - t <= Minute =>
                 Before(g, w.start) - Before(g, t) <= PerIP
      BY DEF Windowed, Between, Before, w, g
    <2> QED
      BY <1>2, <1>6, <1>7, <2>1, <2>2, <2>3
  <1>9. w # None
    BY <1>2 DEF None
  <1> QED
    BY <1>2, <1>5, <1>8, <1>9 DEF g, w

-----------------------------------------------------------------------------
(* Every step keeps what is said of the windows. *)

\* The clock.
LEMMA WindowsPass ==
  ASSUME TypeOK, Windows, Pass
  PROVE  Windows'
  <1>1. now' = now + 1 /\ now \in Tick /\ now' \in Tick /\ UNCHANGED <<ipRate, allowed>>
    BY Constants DEF Pass, TypeOK, Tick, ipVars
  <1>2. now \in Nat /\ 0..now \subseteq Tick /\ \A t \in 0..now' : t \in Tick /\ (t \in 0..now \/ t = now')
    BY <1>1, Constants DEF Tick
  <1> SUFFICES ASSUME NEW a \in Address
               PROVE  /\ Total(allowed[a], now')
                      /\ IF ipRate[a] = None THEN Windowless(a)' ELSE Windowed(a)'
    BY <1>1 DEF Windows, Total, Tick
  <1> DEFINE f == allowed[a]
             w == ipRate[a]
  <1>3. f \in [Tick -> Nat] /\ Total(f, now) /\ w.start \in Tick /\ w.count \in Nat
    BY DEF TypeOK, Windows
  <1>4. /\ w = None => Windowless(a)
        /\ w # None => Windowed(a)
    BY DEF Windows
  <1>5. Total(f, now') /\ f[now'] = f[now]
    BY <1>1, <1>3, TotalLater
  <1>6. \A t \in 0..now' : Between(f, t, now') = IF t = now' THEN 0 ELSE Between(f, t, now)
    <2>1. Between(f, now', now') = 0
      BY <1>1, <1>2, <1>3, NothingAfter
    <2> QED
      BY <1>2, <1>5, <2>1 DEF Between
  <1>7. CASE w = None
    <2>1. Windowless(a)
      BY <1>4, <1>7
    <2> HIDE DEF f
    <2>2. f[now'] = Before(f, now')
      BY <1>1, <1>2, <1>5 DEF Before
    <2>3. \A t \in 0..now' : now' - t <= Minute => Between(f, t, now') <= PerIP
      BY <1>1, <1>2, <1>6, <2>1, Constants DEF Windowless, f
    <2>4. Windowless(a)' <=> /\ f[now'] = Before(f, now')
                             /\ \A t \in 0..now' : now' - t <= Minute => Between(f, t, now') <= PerIP
      BY <1>1 DEF Windowless, Between, Before, f
    <2> QED
      BY <1>5, <1>7, <2>2, <2>3, <2>4 DEF f
  <1>8. CASE w # None
    <2>1. Windowed(a)
      BY <1>4, <1>8
    <2>2. w.start \in Nat /\ w.start <= now /\ w.start \in 0..now' /\ w.start # now'
      BY <1>1, <1>2, <1>3, <2>1 DEF Windowed, Tick
    <2> HIDE DEF f, w
    <2>3. w.start <= now' /\ w.count > 0
      BY <1>1, <1>2, <2>1, <2>2 DEF Windowed, w
    <2>4. Between(f, w.start, now') = IF w.count <= PerIP THEN w.count ELSE PerIP
      BY <1>6, <2>1, <2>2 DEF Windowed, w, f
    <2>5. \A t \in 0..now' : t - w.start > Minute => Between(f, t, now') = 0
      BY <1>2, <1>6, <2>1 DEF Windowed, w, f
    <2>6. \A t \in 0..w.start : w.start - t <= Minute => Before(f, w.start) - Before(f, t) <= PerIP
      BY <2>1 DEF Windowed, w, f
    <2>7. Windowed(a)' <=>
            /\ w.start <= now' /\ w.count > 0
            /\ Between(f, w.start, now') = IF w.count <= PerIP THEN w.count ELSE PerIP
            /\ \A t \in 0..now' : t - w.start > Minute => Between(f, t, now') = 0
            /\ \A t \in 0..w.start : w.start - t <= Minute =>
                 Before(f, w.start) - Before(f, t) <= PerIP
      BY <1>1 DEF Windowed, Between, Before, w, f
    <2> QED
      BY <1>5, <1>8, <2>3, <2>4, <2>5, <2>6, <2>7 DEF f, w
  <1> QED
    BY <1>7, <1>8

\* An attempt: its own address, and those whose entries a full map sweeps away.
LEMMA WindowsAttempt ==
  ASSUME TypeOK, Windows, NEW a \in Address, AllowIP(a)
  PROVE  Windows'
  <1>1. now' = now /\ now \in Tick /\ \A b \in Address \ {a} : allowed'[b] = allowed[b]
    BY AttemptIsLetIn DEF TypeOK
  <1>2. /\ Total(allowed'[a], now') /\ ipRate'[a] # None /\ Windowed(a)'
    BY <1>1, AttemptShows
  <1>3. ASSUME NEW b \in Address \ {a}
        PROVE  /\ Total(allowed'[b], now')
               /\ IF ipRate'[b] = None THEN Windowless(b)' ELSE Windowed(b)'
    <2>1. Total(allowed[b], now) /\ allowed'[b] = allowed[b] /\ now' = now
      BY <1>1 DEF Windows
    <2>2. Windowless(b)' <=> Windowless(b)
      BY <2>1 DEF Windowless, Between, Before
    <2>3. ipRate'[b] = ipRate[b] => (Windowed(b)' <=> Windowed(b))
      BY <2>1 DEF Windowed, Between, Before
    <2>4. CASE ipRate'[b] = ipRate[b]
      BY <2>1, <2>2, <2>3, <2>4 DEF Windows
    <2>5. CASE ipRate[b] # None /\ now - ipRate[b].start > Minute /\ ipRate'[b] = None
      <3>1. Windowed(b)
        BY <2>5 DEF Windows
      <3> QED
        BY <2>1, <2>2, <2>5, <3>1, ExpiredIsWindowless
    <2> QED
      BY <2>4, <2>5, AttemptCounts
  <1>4. ASSUME NEW b \in Address
        PROVE  /\ Total(allowed'[b], now')
               /\ IF ipRate'[b] = None THEN Windowless(b)' ELSE Windowed(b)'
    BY <1>2, <1>3
  <1> QED
    BY <1>4 DEF Windows, Total, Tick

\* A window of one minute that ends now or later holds at most what the entry counts and
\* what was let in in the minute before the entry.
LEMMA BoundAttempt ==
  ASSUME TypeOK, Windows, WindowBound, NEW a \in Address, AllowIP(a)
  PROVE  WindowBound'
  <1> SUFFICES ASSUME NEW b \in Address, NEW t \in Tick, NEW u \in Tick, t <= u, u - t <= Minute
               PROVE  Between(allowed'[b], t, u) <= 2 * PerIP
    BY DEF WindowBound, Tick, Between, Before
  <1>1. now' = now /\ now \in Tick /\ \A c \in Address \ {a} : allowed'[c] = allowed[c]
    BY AttemptIsLetIn DEF TypeOK
  <1>2. Between(allowed[b], t, u) <= 2 * PerIP
    BY DEF WindowBound
  <1>3. CASE b # a
    BY <1>1, <1>2, <1>3
  <1>4. CASE b = a
    <2> DEFINE f == allowed[a]
               g == allowed'[a]
               w == ipRate'[a]
    <2>1. /\ f \in [Tick -> Nat] /\ Total(f, now) /\ g \in [Tick -> Nat] /\ Total(g, now)
          /\ w.start \in Tick /\ w.count \in Nat /\ now - w.start <= Minute
      BY AttemptShows, AttemptCounts DEF TypeOK, Windows
    <2>2. /\ w.start <= now
          /\ Between(g, w.start, now) = IF w.count <= PerIP THEN w.count ELSE PerIP
          /\ \A x \in 0..w.start : w.start - x <= Minute => Before(g, w.start) - Before(g, x) <= PerIP
      BY <1>1, AttemptShows DEF Windowed, Between, Before
    <2>3. g = f \/ g = More(f, 1)
      BY <1>1, AttemptIsLetIn DEF TypeOK
    <2> HIDE DEF f, g, w
    <2>4. t \in Nat /\ u \in Nat /\ now \in Nat /\ w.start \in Nat
      BY <1>1, <2>1, Constants DEF Tick
    <2>5. CASE u < now
      <3>1. t <= now /\ (t # 0 => t - 1 < now) /\ (t # 0 => t - 1 \in Tick)
        BY <2>4, <2>5, Constants DEF Tick
      <3>2. g[u] = f[u] /\ Before(g, t) = Before(f, t)
        BY <2>3, <2>5, <3>1 DEF More, Before
      <3> QED
        BY <1>2, <1>4, <3>2 DEF Between, f, g
    <2>6. CASE now <= u /\ t <= now
      <3>1. g[u] = g[now] /\ now - t <= Minute
        BY <1>1, <2>1, <2>4, <2>6, Constants DEF Total
      <3>2. /\ Before(g, t) \in Nat /\ Before(g, w.start) \in Nat /\ g[now] \in Nat
            /\ Between(g, t, u) = g[now] - Before(g, t)
            /\ Between(g, w.start, now) = g[now] - Before(g, w.start)
        BY <1>1, <2>1, <3>1, TotalTypes
      <3>3. Between(g, w.start, now) <= PerIP
        BY <2>1, <2>2, Constants
      <3>4. CASE w.start <= t
        <4>1. Before(g, w.start) <= Before(g, t)
          BY <1>1, <2>1, <3>4, BeforeGrows
        <4>2. Between(g, t, u) <= PerIP
          BY <3>2, <3>3, <4>1, Constants
        <4> QED
          BY <1>4, <3>2, <4>2, Constants DEF g
      <3>5. CASE t < w.start
        <4>1. t \in 0..w.start /\ w.start - t <= Minute
          BY <2>2, <2>4, <3>1, <3>5, Constants
        <4>2. Before(g, w.start) - Before(g, t) <= PerIP
          BY <2>2, <4>1
        <4>3. Between(g, t, u) <= PerIP + PerIP
          BY <3>2, <3>3, <4>2, Constants
        <4> QED
          BY <1>4, <4>3, Constants DEF g
      <3> QED
        BY <2>4, <3>4, <3>5
    <2>7. CASE now < t
      <3>1. Between(g, t, u) = 0
        BY <1>1, <2>1, <2>7, NothingAfter
      <3> QED
        BY <1>4, <3>1, Constants DEF g
    <2> QED
      BY <2>4, <2>5, <2>6, <2>7
  <1> QED
    BY <1>3, <1>4

-----------------------------------------------------------------------------
(* The bucket. *)

LEMMA LesserOfTwo ==
  ASSUME NEW x \in Int, NEW y \in Int
  PROVE  /\ Min({x, y}) \in {x, y}
         /\ Min({x, y}) <= x /\ Min({x, y}) <= y
  <1>1. \E m \in {x, y} : \A z \in {x, y} : m <= z
    <2>1. CASE x <= y
      BY <2>1
    <2>2. CASE y <= x
      BY <2>2
    <2> QED
      BY <2>1, <2>2
  <1> QED
    BY <1>1 DEF Min

\* What flows in over two stretches of time is what flows in over both.
LEMMA RateAdds ==
  ASSUME NEW x \in Nat, NEW y \in Nat, NEW z \in Nat, x <= y, y <= z
  PROVE  /\ Rate * (z - x) = Rate * (y - x) + (z - y) * Rate
         /\ Rate * (z - x) \in Nat /\ Rate * (y - x) \in Nat /\ (z - y) * Rate \in Nat
  <1>1. ASSUME NEW r \in Nat, NEW p \in Nat, NEW q \in Nat
        PROVE  r * (p + q) = r * p + q * r /\ r * (p + q) \in Nat /\ r * p \in Nat /\ q * r \in Nat
    OBVIOUS
  <1>2. y - x \in Nat /\ z - y \in Nat /\ z - x = (y - x) + (z - y)
    OBVIOUS
  <1> QED
    BY <1>1, <1>2, Constants

\* What is in the bucket now is the burst, or what there was and what has flowed in since.
LEMMA FilledIs ==
  ASSUME TypeOK, Bucket, open
  PROVE  /\ now \in Nat /\ last \in Nat /\ since \in Nat /\ since <= last /\ last <= now
         /\ (now - last) * Rate \in Nat /\ tokens \in Nat
         /\ Filled \in Nat /\ Filled <= Burst /\ Filled <= tokens + (now - last) * Rate
         /\ Filled = Burst \/ Filled = tokens + (now - last) * Rate
  <1>1. /\ now \in Nat /\ last \in Nat /\ since \in Nat /\ since <= last /\ last <= now
        /\ tokens \in Nat
    BY Constants DEF TypeOK, Bucket, Tick
  <1>2. (now - last) * Rate \in Nat
    BY <1>1, RateAdds
  <1>3. tokens + (now - last) * Rate \in Nat
    BY <1>1, <1>2
  <1> QED
    BY <1>1, <1>2, <1>3, LesserOfTwo, Constants DEF Filled

\* A moment's room, now, is its room at the last frame and what has flowed in since; of a
\* moment after the last frame, the burst and what has flowed in since that moment.
LEMMA RoomNow ==
  ASSUME TypeOK, Bucket, open, NEW t \in since..now
  PROVE  /\ t \in Tick /\ Between(passed, t, now) \in Int
         /\ Rate * (now - t) \in Nat
         /\ t <= last => /\ Between(passed, t, now) = Between(passed, t, last)
                         /\ Rate * (now - t) = Rate * (last - t) + (now - last) * Rate
                         /\ Rate * (last - t) \in Nat
         /\ last < t => Between(passed, t, now) = 0
  <1>1. /\ now \in Nat /\ last \in Nat /\ since \in Nat /\ since <= last /\ last <= now
        /\ t \in Nat /\ t <= now /\ t \in Tick /\ now \in Tick /\ last \in Tick
    BY FilledIs, Constants DEF TypeOK, Tick
  <1>2. passed \in [Tick -> Nat] /\ Total(passed, last)
    BY DEF TypeOK, Bucket
  <1>3. passed[now] = passed[last]
    BY <1>1, <1>2, TotalLater
  <1>4. Between(passed, t, now) \in Int
    BY <1>1, <1>2, TotalTypes
  <1>5. Rate * (now - t) \in Nat
    BY <1>1, RateAdds
  <1>6. ASSUME t <= last
        PROVE  /\ Between(passed, t, now) = Between(passed, t, last)
               /\ Rate * (now - t) = Rate * (last - t) + (now - last) * Rate
               /\ Rate * (last - t) \in Nat
    BY <1>1, <1>3, <1>6, RateAdds DEF Between
  <1>7. ASSUME last < t PROVE Between(passed, t, now) = 0
    BY <1>1, <1>2, <1>7, NothingAfter
  <1> QED
    BY <1>1, <1>4, <1>5, <1>6, <1>7

\* The one number stands for every earlier moment: it is the least room any of them leaves.
LEMMA FilledIsLeast ==
  ASSUME TypeOK, Bucket, open
  PROVE  /\ \A t \in since..now : Filled + Between(passed, t, now) <= Burst + Rate * (now - t)
         /\ \E t \in since..now : Filled + Between(passed, t, now) = Burst + Rate * (now - t)
  <1> DEFINE flow == (now - last) * Rate
  <1>1. /\ now \in Nat /\ last \in Nat /\ since \in Nat /\ since <= last /\ last <= now
        /\ flow \in Nat /\ tokens \in Nat /\ Burst \in Nat
        /\ Filled \in Nat /\ Filled <= Burst /\ Filled <= tokens + flow
        /\ Filled = Burst \/ Filled = tokens + flow
    BY FilledIs, Constants
  <1>2. \A t \in since..last : tokens + Between(passed, t, last) <= Burst + Rate * (last - t)
    BY DEF Bucket
  <1>3. PICK x \in since..last : tokens + Between(passed, x, last) = Burst + Rate * (last - x)
    BY DEF Bucket
  <1> HIDE DEF flow
  <1>4. ASSUME NEW t \in since..now
        PROVE  Filled + Between(passed, t, now) <= Burst + Rate * (now - t)
    <2>1. t \in Nat /\ Between(passed, t, now) \in Int /\ Rate * (now - t) \in Nat
      BY <1>1, RoomNow
    <2>2. CASE t <= last
      <3>1. /\ Between(passed, t, now) = Between(passed, t, last)
            /\ Rate * (now - t) = Rate * (last - t) + flow /\ Rate * (last - t) \in Nat
        BY <2>2, RoomNow DEF flow
      <3>2. tokens + Between(passed, t, last) <= Burst + Rate * (last - t)
        BY <1>1, <1>2, <2>1, <2>2
      <3> QED
        BY <1>1, <2>1, <3>1, <3>2
    <2>3. CASE last < t
      <3>1. Between(passed, t, now) = 0
        BY <2>3, RoomNow
      <3> QED
        BY <1>1, <2>1, <3>1
    <2> QED
      BY <1>1, <2>1, <2>2, <2>3
  <1>5. \E t \in since..now : Filled + Between(passed, t, now) = Burst + Rate * (now - t)
    <2>1. CASE Filled = tokens + flow
      <3>1. x \in since..now /\ x <= last
        BY <1>1
      <3>2. /\ Between(passed, x, now) = Between(passed, x, last)
            /\ Rate * (now - x) = Rate * (last - x) + flow /\ Rate * (last - x) \in Nat
            /\ Between(passed, x, now) \in Int
        BY <3>1, RoomNow DEF flow
      <3>3. Filled + Between(passed, x, now) = Burst + Rate * (now - x)
        BY <1>1, <1>3, <2>1, <3>2
      <3> QED
        BY <3>1, <3>3
    <2>2. CASE Filled = Burst /\ last < now
      <3>1. now \in since..now /\ Between(passed, now, now) = 0
        BY <1>1, <2>2, RoomNow
      <3>2. Rate * (now - now) = 0
        BY <1>1, Constants
      <3> QED
        BY <1>1, <2>2, <3>1, <3>2
    <2>3. CASE Filled = Burst /\ last = now
      <3>1. flow = 0
        BY <1>1, <2>3, Constants DEF flow
      <3>2. tokens <= Burst
        BY Constants DEF TypeOK
      <3> QED
        BY <1>1, <2>1, <2>3, <3>1, <3>2
    <2> QED
      BY <1>1, <2>1, <2>2, <2>3
  <1> QED
    BY <1>4, <1>5

\* A frame fits exactly when it is no longer than what is in the bucket.
LEMMA FitsFilled ==
  ASSUME TypeOK, Bucket, open, NEW n \in Nat
  PROVE  Fits(n) <=> n <= Filled
  <1>1. Filled \in Nat /\ Burst \in Nat
    BY FilledIs, Constants
  <1>2. \A t \in since..now : Between(passed, t, now) \in Int /\ Rate * (now - t) \in Nat
    BY RoomNow
  <1>3. ASSUME n <= Filled PROVE Fits(n)
    <2> SUFFICES ASSUME NEW t \in since..now
                 PROVE  Between(passed, t, now) + n <= Burst + Rate * (now - t)
      BY DEF Fits
    <2>1. Filled + Between(passed, t, now) <= Burst + Rate * (now - t)
      BY FilledIsLeast
    <2> DEFINE b == Between(passed, t, now)
               r == Rate * (now - t)
    <2>2. b \in Int /\ r \in Nat
      BY <1>2
    <2> HIDE DEF b, r
    <2>3. b + n <= Burst + r
      BY <1>1, <1>3, <2>1, <2>2 DEF b, r
    <2> QED
      BY <2>3 DEF b, r
  <1>4. ASSUME Fits(n) PROVE n <= Filled
    <2>1. PICK t \in since..now : Filled + Between(passed, t, now) = Burst + Rate * (now - t)
      BY FilledIsLeast
    <2>2. Between(passed, t, now) + n <= Burst + Rate * (now - t)
      BY <1>4 DEF Fits
    <2> DEFINE b == Between(passed, t, now)
               r == Rate * (now - t)
    <2>3. b \in Int /\ r \in Nat /\ Filled + b = Burst + r /\ b + n <= Burst + r
      BY <1>2, <2>1, <2>2
    <2> HIDE DEF b, r
    <2> QED
      BY <1>1, <2>3
  <1> QED
    BY <1>3, <1>4

\* A frame that passes leaves the least room that any moment leaves then.
LEMMA BucketTake ==
  ASSUME TypeOK, Bucket, open, NEW n \in Nat, n <= Filled,
         open', last' = now, tokens' = Filled - n, passed' = More(passed, n),
         UNCHANGED <<now, since>>
  PROVE  Bucket' /\ tokens' \in 0..Burst /\ passed' \in [Tick -> Nat]
  <1>1. /\ now \in Nat /\ now \in Tick /\ since \in Nat /\ since <= now /\ Filled \in Nat
        /\ Filled <= Burst /\ Burst \in Nat /\ passed \in [Tick -> Nat]
    BY FilledIs, Constants DEF TypeOK
  <1>2. Total(passed, now)
    BY FilledIs, TotalLater DEF TypeOK, Bucket
  <1>3. /\ passed' \in [Tick -> Nat] /\ Total(passed', now)
        /\ \A t \in since..now : Between(passed', t, now) = Between(passed, t, now) + n
    <2>1. \A t \in since..now : t \in Tick /\ t <= now
      BY RoomNow
    <2> QED
      BY <1>1, <1>2, <2>1, MoreAdds
  <1>4. \A t \in since..now : Between(passed, t, now) \in Int /\ Rate * (now - t) \in Nat
    BY RoomNow
  <1>5. \A t \in since..now :
          tokens' + Between(passed', t, now) = Filled + Between(passed, t, now)
    BY <1>1, <1>3, <1>4
  <1>6. /\ \A t \in since..now : tokens' + Between(passed', t, now) <= Burst + Rate * (now - t)
        /\ \E t \in since..now : tokens' + Between(passed', t, now) = Burst + Rate * (now - t)
    BY <1>5, FilledIsLeast
  <1>7. Bucket'
    BY <1>1, <1>3, <1>6 DEF Bucket, Total, Between, Before, Tick
  <1> QED
    BY <1>1, <1>3, <1>7

\* A new bucket is full, and its only moment is this one.
LEMMA BucketNew ==
  ASSUME TypeOK, NewBucket
  PROVE  Bucket' /\ tokens' \in 0..Burst /\ passed' \in [Tick -> Nat]
  <1>1. /\ open' /\ tokens' = Burst /\ last' = now /\ since' = now /\ now' = now
        /\ passed' = [t \in Tick |-> 0] /\ now \in Nat /\ now \in Tick
    BY Constants DEF NewBucket, TypeOK, Tick
  <1>2. Total(passed, last)'
    BY <1>1 DEF Total, Tick
  <1>3. Between(passed', now, now) = 0
    <2>1. now # 0 => now - 1 \in Tick
      BY <1>1, Constants DEF Tick
    <2> QED
      BY <1>1, <2>1 DEF Between, Before
  <1>4. Rate * (now - now) = 0 /\ now..now = {now}
    BY <1>1, Constants
  <1>5. Bucket'
    BY <1>1, <1>2, <1>3, <1>4, Constants DEF Bucket, Between, Before
  <1> QED
    BY <1>1, <1>5, Constants

-----------------------------------------------------------------------------
(* Every step keeps the invariant. *)

LEMMA InitHolds ==
  ASSUME Init
  PROVE  LimitsInv
  <1>1. /\ now = 0 /\ 0 \in Tick /\ None \in [start : Tick, count : 0..MaxTries]
        /\ \A t \in Tick : t \in Nat /\ (t # 0 => t - 1 \in Tick)
    BY Constants DEF Init, Tick, None
  <1>2. TypeOK
    <2>1. ipRate \in [Address -> [start : Tick, count : 0..MaxTries]]
      BY <1>1 DEF Init
    <2>2. allowed \in [Address -> [Tick -> Nat]] /\ passed \in [Tick -> Nat]
      BY DEF Init
    <2>3. open = FALSE /\ tokens = 0 /\ refused = {} /\ 0 \in 0..Burst
      BY Constants DEF Init
    <2>4. now \in Tick /\ last \in Tick /\ since \in Tick
      BY <1>1 DEF Init
    <2> QED
      BY <2>1, <2>2, <2>3, <2>4 DEF TypeOK
  <1>3. ASSUME NEW a \in Address
        PROVE  /\ Total(allowed[a], now) /\ ipRate[a] = None
               /\ \A t, u \in Tick : Between(allowed[a], t, u) = 0
               /\ allowed[a][now] = Before(allowed[a], now)
    <2>1. \A t \in Tick : allowed[a][t] = 0
      BY DEF Init
    <2>2. \A t \in Tick : Before(allowed[a], t) = 0
      BY <1>1, <2>1 DEF Before
    <2> QED
      BY <1>1, <2>1, <2>2 DEF Init, Between, Total
  <1>4. ASSUME NEW a \in Address PROVE Windowless(a)
    <2>1. \A t \in 0..now : t \in Tick
      BY <1>1
    <2> QED
      BY <1>1, <1>3, <2>1, Constants DEF Windowless
  <1>5. Windows
    BY <1>3, <1>4 DEF Windows
  <1>6. WindowBound
    BY <1>3, Constants DEF WindowBound
  <1>7. Bucket
    BY DEF Bucket, Init
  <1> QED
    BY <1>2, <1>5, <1>6, <1>7 DEF LimitsInv

\* Where neither the clock nor the entries change, what is said of the windows stays.
LEMMA WindowsStay ==
  ASSUME Windows, WindowBound, UNCHANGED <<now, ipVars>>
  PROVE  Windows' /\ WindowBound'
  BY DEF Windows, Windowed, Windowless, WindowBound, Total, Between, Before, Tick, ipVars

\* Where the bucket does not change, what is said of it stays, the clock running or not.
LEMMA BucketStays ==
  ASSUME TypeOK, Bucket, now' = now \/ Pass, UNCHANGED bucketVars
  PROVE  Bucket'
  <1>1. now \in Nat /\ last \in Nat /\ now <= now'
    BY Constants DEF TypeOK, Tick, Pass
  <1>2. last <= now => last <= now'
    BY <1>1 DEF Pass
  <1> QED
    BY <1>2 DEF Bucket, Total, Between, Before, Tick, bucketVars

LEMMA PassKeeps ==
  ASSUME LimitsInv, Pass
  PROVE  LimitsInv'
  <1>1. now' \in Tick /\ UNCHANGED <<ipRate, allowed, refused, open, tokens, last, since, passed>>
    BY Constants DEF LimitsInv, TypeOK, Pass, Tick, ipVars, bucketVars
  <1>2. TypeOK'
    BY <1>1 DEF LimitsInv, TypeOK, Tick
  <1>3. WindowBound'
    BY <1>1 DEF LimitsInv, WindowBound, Between, Before, Tick
  <1>4. Windows'
    BY WindowsPass DEF LimitsInv
  <1>5. Bucket'
    BY BucketStays DEF LimitsInv, Pass
  <1> QED
    BY <1>2, <1>3, <1>4, <1>5 DEF LimitsInv

LEMMA AttemptKeeps ==
  ASSUME LimitsInv, NEW a \in Address, AllowIP(a)
  PROVE  LimitsInv'
  <1>1. TypeOK /\ Windows /\ WindowBound /\ Bucket
    BY DEF LimitsInv
  <1>2. UNCHANGED <<now, open, tokens, last, since, passed>>
    BY <1>1, AttemptIsLetIn DEF bucketVars
  <1>3. refused' \in SUBSET Address
    BY <1>1, AttemptIsLetIn DEF TypeOK
  <1>4. allowed' \in [Address -> [Tick -> Nat]]
    <2>1. allowed' = allowed \/ allowed' = [allowed EXCEPT ![a] = More(allowed[a], 1)]
      BY <1>1, AttemptIsLetIn
    <2>2. allowed'[a] \in [Tick -> Nat]
      BY <1>1, AttemptShows
    <2> QED
      BY <1>1, <2>1, <2>2 DEF TypeOK
  <1>5. ipRate' \in [Address -> [start : Tick, count : 0..MaxTries]]
    BY <1>1, AttemptCounts
  <1>6. TypeOK'
    BY <1>1, <1>2, <1>3, <1>4, <1>5 DEF TypeOK, Tick
  <1>7. Windows' /\ WindowBound'
    BY <1>1, WindowsAttempt, BoundAttempt
  <1>8. Bucket'
    BY <1>1, <1>2, BucketStays DEF bucketVars
  <1> QED
    BY <1>6, <1>7, <1>8 DEF LimitsInv

\* What changes only the bucket keeps the invariant if it keeps the bucket's types and part.
LEMMA BucketKeeps ==
  ASSUME LimitsInv, UNCHANGED <<now, ipVars>>, Bucket',
         open' \in BOOLEAN, tokens' \in 0..Burst, last' \in Tick, since' \in Tick,
         passed' \in [Tick -> Nat]
  PROVE  LimitsInv'
  <1>1. TypeOK'
    BY DEF LimitsInv, TypeOK, Tick, ipVars
  <1> QED
    BY <1>1, WindowsStay DEF LimitsInv

LEMMA TakeKeeps ==
  ASSUME LimitsInv, NEW n \in 1..MaxFrame, Take(n)
  PROVE  LimitsInv'
  <1>1. TypeOK /\ Bucket /\ open /\ n \in Nat
    BY Constants DEF LimitsInv, Take
  <1>2. /\ now \in Tick /\ since \in Tick /\ passed \in [Tick -> Nat]
        /\ last' = now /\ UNCHANGED <<now, ipVars, since>>
    BY <1>1 DEF TypeOK, Take
  <1>3. Filled \in 0..Burst
    BY <1>1, FilledIs, Constants
  <1>4. CASE n > Filled
    <2>1. open' = FALSE /\ tokens' = Filled /\ passed' = passed
      BY <1>4 DEF Take
    <2>2. Bucket'
      BY <2>1 DEF Bucket
    <2> QED
      BY <1>2, <1>3, <2>1, <2>2, BucketKeeps
  <1>5. CASE ~(n > Filled)
    <2>1. open' = open /\ tokens' = Filled - n /\ passed' = More(passed, n)
      BY <1>5 DEF Take
    <2>2. n <= Filled
      BY <1>1, <1>3, <1>5
    <2>3. Bucket' /\ tokens' \in 0..Burst /\ passed' \in [Tick -> Nat]
      BY <1>1, <1>2, <2>1, <2>2, BucketTake
    <2> QED
      BY <1>1, <1>2, <2>1, <2>3, BucketKeeps
  <1> QED
    BY <1>4, <1>5

\* LimitsInv is inductive.
THEOREM Inductive == LimitsInv /\ [Next]_vars => LimitsInv'
  <1> SUFFICES ASSUME LimitsInv, [Next]_vars PROVE LimitsInv'
    OBVIOUS
  <1>0. TypeOK
    BY DEF LimitsInv
  <1>1. CASE Pass
    BY <1>1, PassKeeps
  <1>2. ASSUME NEW a \in Address, AllowIP(a) PROVE LimitsInv'
    BY <1>2, AttemptKeeps
  <1>3. CASE NewBucket
    <2>1. open' = TRUE /\ last' = now /\ since' = now /\ UNCHANGED <<now, ipVars>>
      BY <1>3 DEF NewBucket
    <2>2. Bucket' /\ tokens' \in 0..Burst /\ passed' \in [Tick -> Nat]
      BY <1>0, <1>3, BucketNew
    <2>3. now \in Tick
      BY <1>0 DEF TypeOK
    <2> QED
      BY <2>1, <2>2, <2>3, BucketKeeps
  <1>4. CASE PhoneGone
    <2>1. open' = FALSE /\ UNCHANGED <<now, ipVars, tokens, last, since, passed>>
      BY <1>4 DEF PhoneGone
    <2>2. Bucket'
      BY <2>1 DEF Bucket
    <2> QED
      BY <1>0, <2>1, <2>2, BucketKeeps DEF TypeOK
  <1>5. ASSUME NEW n \in 1..MaxFrame, Take(n) PROVE LimitsInv'
    BY <1>5, TakeKeeps
  <1>6. CASE UNCHANGED vars
    <2>1. UNCHANGED <<now, ipVars>> /\ UNCHANGED bucketVars /\ now' = now
      BY <1>6 DEF vars
    <2>2. Bucket'
      BY <1>0, <2>1, BucketStays DEF LimitsInv
    <2>3. UNCHANGED <<open, tokens, last, since, passed>>
      BY <2>1 DEF bucketVars
    <2> QED
      BY <1>0, <2>1, <2>2, <2>3, BucketKeeps DEF TypeOK
  <1> QED
    BY <1>1, <1>2, <1>3, <1>4, <1>5, <1>6 DEF Next

\* It holds in every state.
LEMMA Invariant == Spec => []LimitsInv
  <1>1. Init => LimitsInv
    BY InitHolds
  <1> QED
    BY <1>1, Inductive, PTL DEF Spec

-----------------------------------------------------------------------------
(* The theorems. *)

\* Every variable keeps its type (relay.go:106-109, 411-431): no window begins later than
\* the clock's end or counts more than the bound on attempts, and the bucket is never
\* below nothing nor above the burst.
THEOREM TypeCorrect == Spec => []TypeOK
  BY Invariant, PTL DEF LimitsInv

\* Within any minute an address is let in at most twice as often as the limit, however its
\* attempts are spread and whatever a full map sweeps away (relay.go:121-139).
THEOREM WindowBoundHolds == Spec => []WindowBound
  BY Invariant, PTL DEF LimitsInv

\* An address that is refused has used up the limit within the last minute, since its
\* entry began (relay.go:126-131, 139).
THEOREM RefusedForCauseHolds == Spec => RefusedForCause
  <1>1. ASSUME LimitsInv, NEW a \in Address, AllowIP(a), a \in refused'
        PROVE  \E t \in 0..now : now - t <= Minute /\ Between(allowed[a], t, now) >= PerIP
    <2> DEFINE w == Window(a)
    <2>1. TypeOK /\ Windows
      BY <1>1 DEF LimitsInv
    <2>2. /\ w.start \in Tick /\ w.count \in Nat /\ now - w.start <= Minute
          /\ CountedIn(allowed[a], w)
      BY <2>1, WindowFacts
    <2>3. ~(w.count + 1 <= PerIP)
      BY <1>1, <2>1, AttemptIsLetIn
    <2> HIDE DEF w
    <2>4. now \in Nat /\ w.start \in 0..now
      BY <2>1, <2>2, Constants DEF TypeOK, Tick, CountedIn
    <2>5. Between(allowed[a], w.start, now) = PerIP
      BY <2>2, <2>3, Constants DEF CountedIn
    <2> QED
      BY <2>2, <2>4, <2>5, Constants
  <1>2. LimitsInv /\ [Next]_vars =>
          [\A a \in Address :
             AllowIP(a) /\ a \in refused' =>
               \E t \in 0..now : now - t <= Minute /\ Between(allowed[a], t, now) >= PerIP]_vars
    BY <1>1
  <1> QED
    BY <1>2, Invariant, PTL DEF Spec, RefusedForCause

\* A frame passes exactly when, whatever moment of the connection one begins at, the frames
\* since then and this one are within the burst and the rate (relay.go:420-431).
THEOREM BucketIsExactHolds == Spec => BucketIsExact
  <1>1. ASSUME LimitsInv, NEW n \in 1..MaxFrame, Take(n)
        PROVE  open' <=> Fits(n)
    <2>1. TypeOK /\ Bucket /\ open /\ n \in Nat
      BY <1>1, Constants DEF LimitsInv, Take
    <2>2. Fits(n) <=> n <= Filled
      BY <2>1, FitsFilled
    <2>3. Filled \in Nat
      BY <2>1, FilledIs
    <2>4. open' <=> ~(n > Filled)
      BY <1>1 DEF Take
    <2> QED
      BY <2>1, <2>2, <2>3, <2>4
  <1>2. LimitsInv /\ [Next]_vars =>
          [\A n \in 1..MaxFrame : Take(n) => (open' <=> Fits(n))]_vars
    BY <1>1
  <1> QED
    BY <1>2, Invariant, PTL DEF Spec, BucketIsExact

=============================================================================
