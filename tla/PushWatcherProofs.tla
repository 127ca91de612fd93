--------------------------- MODULE PushWatcherProofs ---------------------------
(* Proofs about PushWatcher: its inductive invariant and what follows from it. *)
EXTENDS PushWatcher, WellFoundedInduction, TLAPS

USE PushAssumption

\* The order of the natural numbers as a set of pairs, in which every set has a least one.
LEMMA LessIsWellFounded ==
  ASSUME NEW R, R = {x \in Nat \X Nat : x[1] < x[2]}
  PROVE  IsWellFoundedOn(R, Nat)
  BY NatLessThanWellFounded DEF OpToRel

\* The entry deliver has in hand is one of those left: phones are numbered.
LEMMA EntryIsLeft == TypeOK /\ left # {} => Entry \in left
  <1> SUFFICES ASSUME TypeOK, left # {} PROVE Entry \in left
    OBVIOUS
  <1> DEFINE R == {x \in Nat \X Nat : x[1] < x[2]}
  <1>1. left \subseteq Nat
    BY DEF TypeOK, Device
  <1>2. IsWellFoundedOn(R, Nat)
    BY LessIsWellFounded
  <1>3. \A x, y \in Nat : y < x => <<y, x>> \in R
    OBVIOUS
  <1> HIDE DEF R
  <1>4. PICK x \in left : \A y \in left : ~(<<y, x>> \in R)
    BY <1>1, <1>2, WFMin
  <1>5. \A y \in left : x <= y
    <2> SUFFICES ASSUME NEW y \in left PROVE x <= y
      OBVIOUS
    <2>1. x \in Nat /\ y \in Nat
      BY <1>1
    <2>2. ~(y < x)
      BY <2>1, <1>3, <1>4
    <2> QED
      BY <2>1, <2>2
  <1> QED
    BY <1>5 DEF Entry


\* Every step keeps the types.
LEMMA TypeStep ==
  TypeOK /\ SeenInv /\ HandInv /\ [Next]_vars => TypeOK'
  <1> SUFFICES ASSUME TypeOK, SeenInv, HandInv, [Next]_vars PROVE TypeOK'
    OBVIOUS
  <1> USE DEF TypeOK, SeenInv, HandInv, Stage, Seqs, Unknown, worldVars, roundVars, histVars
  <1>1. ASSUME ReadOnline PROVE TypeOK'
    BY <1>1 DEF ReadOnline
  <1>2. ASSUME ReadRegistry PROVE TypeOK'
    <2>1. /\ DOMAIN targets' \subseteq Device
          /\ \A d \in DOMAIN targets' : targets'[d] \in Registration
      BY <1>2 DEF ReadRegistry, None
    <2>2. left' = {}
      BY <1>2 DEF ReadRegistry
    <2> QED
      BY <1>2, <2>1, <2>2 DEF ReadRegistry
  <1>3. ASSUME List PROVE TypeOK'
    BY <1>3 DEF List
  <1>4. ASSUME ListFails PROVE TypeOK'
    BY <1>4 DEF ListFails, NoTargets
  <1>5. ASSUME PollReturns PROVE TypeOK'
    BY <1>5 DEF PollReturns, NoTargets
  <1>6. ASSUME NEW s \in Session, FetchFirst(s) PROVE TypeOK'
    BY <1>6 DEF FetchFirst
  <1>7. ASSUME NEW s \in Session, FetchNews(s) PROVE TypeOK'
    <2>1. seen[s] \in 0..MaxEvents /\ Len(log[s]) \in 0..MaxEvents
      BY <1>7 DEF FetchNews
    <2>2. /\ last' \in 0..MaxEvents /\ next' \in 1..(MaxEvents + 1) /\ upto' \in 0..MaxEvents
          /\ cur' \in Session /\ todo' \in SUBSET Session /\ pc' = "events"
      BY <1>7, <2>1 DEF FetchNews
    <2>3. UNCHANGED <<online, revoked, log, active, dead, reg, away, targets, left, chime,
                      seen, sends, born>>
      BY <1>7 DEF FetchNews
    <2> QED
      BY <2>2, <2>3
  <1>8. ASSUME NEW s \in Session, FetchFails(s) PROVE TypeOK'
    BY <1>8 DEF FetchFails
  <1>9. ASSUME Skip PROVE TypeOK'
    BY <1>9 DEF Skip
  <1>10. ASSUME Handle PROVE TypeOK'
    <2>1. /\ next \in 1..MaxEvents /\ cur \in Session
          /\ next <= Len(log[cur]) /\ pc = "events"
      BY <1>10 DEF Handle
    <2>2. UNCHANGED <<online, revoked, log, active, dead, reg, away, targets, todo,
                      cur, last, upto, sends, born>>
      BY <1>10 DEF Handle
    <2>3. seen' \in [Session -> 0..Unknown]
      <3>1. seen' = [seen EXCEPT ![cur] = IF next > @ THEN next ELSE @]
        BY <1>10 DEF Handle
      <3>2. seen[cur] \in 0..Unknown /\ next \in 0..Unknown /\ seen \in [Session -> 0..Unknown]
        BY <2>1
      <3> QED
        BY <3>1, <3>2
    <2>4. CASE log[cur][next].kind = "none"
      <3>1. next' = next + 1 /\ UNCHANGED <<pc, left, chime>>
        BY <1>10, <2>4 DEF Handle
      <3>2. next' \in 1..(MaxEvents + 1)
        BY <2>1, <3>1
      <3> QED
        BY <2>1, <2>2, <2>3, <3>1, <3>2
    <2>5. CASE log[cur][next].kind # "none"
      <3>1. /\ pc' = "send" /\ left' = DOMAIN targets
            /\ chime' = DefaultSound /\ next' = next
        BY <1>10, <2>5 DEF Handle
      <3> QED
        BY <2>2, <2>3, <3>1
    <2> QED
      BY <2>4, <2>5
  <1>11. ASSUME EventsDone PROVE TypeOK'
    BY <1>11 DEF EventsDone
  <1>12. ASSUME Unwanted PROVE TypeOK'
    BY <1>12 DEF Unwanted
  <1>13. ASSUME Sent PROVE TypeOK'
    <2>0. left # {} /\ pc = "send" /\ TypeOK
      BY <1>13 DEF Sent, Attempt
    <2>1. Entry \in Device /\ next \in Seqs
      <3>1. Entry \in left
        BY <2>0, EntryIsLeft
      <3> QED
        BY <2>0, <3>1
    <2>2. sends' \in [Device \X Session \X Seqs -> Nat]
      BY <1>13, <2>1 DEF Sent, Attempt
    <2>3. /\ chime' \in Device \cup {DefaultSound} /\ pc' = pc /\ pc = "send"
          /\ left' \in SUBSET DOMAIN targets
      BY <1>13, <2>1 DEF Sent, Attempt
    <2>4. UNCHANGED <<online, revoked, log, active, dead, reg, away, targets, todo, cur, last,
                      next, upto, seen, born>>
      BY <1>13 DEF Sent, Attempt
    <2> QED
      BY <2>2, <2>3, <2>4
  <1>14. ASSUME Unregistered PROVE TypeOK'
    <2>0. left # {} /\ pc = "send" /\ TypeOK
      BY <1>14 DEF Unregistered, Attempt
    <2>1. Entry \in Device /\ next \in Seqs
      <3>1. Entry \in left
        BY <2>0, EntryIsLeft
      <3> QED
        BY <2>0, <3>1
    <2>2. sends' \in [Device \X Session \X Seqs -> Nat]
      BY <1>14, <2>1 DEF Unregistered, Attempt
    <2>3. chime' \in Device \cup {DefaultSound} /\ pc' = "remove" /\ left' = left /\ left # {}
      BY <1>14, <2>1 DEF Unregistered, Attempt
    <2>4. UNCHANGED <<online, revoked, log, active, dead, reg, away, targets, todo, cur, last,
                      next, upto, seen, born>>
      BY <1>14 DEF Unregistered, Attempt
    <2> QED
      BY <2>2, <2>3, <2>4
  <1>15. ASSUME Remove PROVE TypeOK'
    BY <1>15 DEF Remove
  <1>16. ASSUME DeliverReturns PROVE TypeOK'
    BY <1>16 DEF DeliverReturns
  <1>17. ASSUME Restart PROVE TypeOK'
    BY <1>17 DEF Restart, Fresh, NoTargets
  <1>18. ASSUME NEW d \in Device, Connect(d) PROVE TypeOK'
    BY <1>18 DEF Connect
  <1>19. ASSUME NEW d \in Device, Disconnect(d) PROVE TypeOK'
    BY <1>19 DEF Disconnect
  <1>20. ASSUME NEW d \in Device, Set(d) PROVE TypeOK'
    <2>1. reg' \in [Device -> Registration \cup {None}]
      <3>1. CASE reg' = [reg EXCEPT ![d] = None]
        BY <3>1
      <3>2. ASSUME NEW r \in Offer, NEW t \in Token,
                   reg' = [reg EXCEPT ![d] = [token |-> t, kinds |-> r.kinds, sound |-> r.sound]]
            PROVE  reg' \in [Device -> Registration \cup {None}]
        <4>1. [token |-> t, kinds |-> r.kinds, sound |-> r.sound] \in Registration
          BY DEF Registration
        <4> QED
          BY <3>2, <4>1
      <3> QED
        BY <1>20, <3>1, <3>2 DEF Set
    <2> QED
      BY <1>20, <2>1 DEF Set
  <1>21. ASSUME NEW d \in Device, Revoke(d) PROVE TypeOK'
    BY <1>21 DEF Revoke
  <1>22. ASSUME NEW s \in Session, Open(s) PROVE TypeOK'
    BY <1>22 DEF Open
  <1>23. ASSUME NEW s \in Session, Happen(s) PROVE TypeOK'
    <2>1. PICK k \in Kind \cup {"none"} :
            log' = [log EXCEPT ![s] = Append(log[s], [kind |-> k, live |-> online])]
      BY <1>23 DEF Happen
    <2>2. [kind |-> k, live |-> online] \in Event
      BY DEF Event
    <2>3. /\ Append(log[s], [kind |-> k, live |-> online]) \in Seq(Event)
          /\ Len(Append(log[s], [kind |-> k, live |-> online])) = Len(log[s]) + 1
      BY <2>2
    <2>4. log' \in [Session -> Seq(Event)] /\ \A r \in Session : Len(log'[r]) <= MaxEvents
      BY <1>23, <2>1, <2>3 DEF Happen
    <2> QED
      BY <1>23, <2>4 DEF Happen
  <1>24. ASSUME NEW t \in Token, Expire(t) PROVE TypeOK'
    BY <1>24 DEF Expire
  <1>25. ASSUME UNCHANGED vars PROVE TypeOK'
    BY <1>25 DEF vars
  <1>26. ASSUME SendFails PROVE TypeOK'
    <2>0. left # {} /\ pc = "send" /\ TypeOK
      BY <1>26 DEF SendFails, Attempt
    <2>1. Entry \in Device /\ next \in Seqs
      <3>1. Entry \in left
        BY <2>0, EntryIsLeft
      <3> QED
        BY <2>0, <3>1
    <2>2. sends' \in [Device \X Session \X Seqs -> Nat]
      BY <1>26, <2>1 DEF SendFails, Attempt
    <2>3. chime' \in Device \cup {DefaultSound} /\ pc' = "failed" /\ left' = left /\ left # {}
      BY <1>26, <2>1 DEF SendFails, Attempt
    <2>4. UNCHANGED <<online, revoked, log, active, dead, reg, away, targets, todo, cur, last,
                      next, upto, seen, born>>
      BY <1>26 DEF SendFails, Attempt
    <2> QED
      BY <2>2, <2>3, <2>4
  <1>27. ASSUME GiveUp PROVE TypeOK'
    BY <1>27 DEF GiveUp
  <1>28. ASSUME NEW s \in Session, Close(s) PROVE TypeOK'
    BY <1>28 DEF Close
  <1> QED
    BY <1>1, <1>2, <1>3, <1>4, <1>5, <1>6, <1>7, <1>8, <1>9, <1>10, <1>11, <1>12,
       <1>13, <1>14, <1>15, <1>16, <1>17, <1>18, <1>19, <1>20, <1>21, <1>22, <1>23, <1>24, <1>25, <1>26, <1>27, <1>28 DEF Next, Step

\* Every step keeps what has been seen, and what is in hand.
LEMMA HandStep ==
  TypeOK /\ SeenInv /\ HandInv /\ [Next]_vars => SeenInv' /\ HandInv'
  <1> SUFFICES ASSUME TypeOK, SeenInv, HandInv, [Next]_vars PROVE SeenInv' /\ HandInv'
    OBVIOUS
  <1> USE DEF TypeOK, SeenInv, HandInv, Seqs, Unknown, worldVars, roundVars, histVars
  <1>1. ASSUME ReadOnline PROVE SeenInv' /\ HandInv'
    BY <1>1 DEF ReadOnline
  <1>2. ASSUME ReadRegistry PROVE SeenInv' /\ HandInv'
    BY <1>2 DEF ReadRegistry
  <1>3. ASSUME List PROVE SeenInv' /\ HandInv'
    BY <1>3 DEF List
  <1>4. ASSUME ListFails PROVE SeenInv' /\ HandInv'
    BY <1>4 DEF ListFails
  <1>5. ASSUME PollReturns PROVE SeenInv' /\ HandInv'
    BY <1>5 DEF PollReturns
  <1>6. ASSUME NEW s \in Session, FetchFirst(s) PROVE SeenInv' /\ HandInv'
    BY <1>6 DEF FetchFirst
  <1>7. ASSUME NEW s \in Session, FetchNews(s) PROVE SeenInv' /\ HandInv'
    <2>1. /\ cur' = s /\ last' = seen[s] /\ next' \in 1..(seen[s] + 1) /\ upto' = Len(log[s])
          /\ pc' = "events" /\ seen[s] # Unknown /\ pc = "sessions" /\ left' = left
      BY <1>7 DEF FetchNews
    <2>2. UNCHANGED <<seen, log, born>>
      BY <1>7 DEF FetchNews
    <2>3. /\ left = {} /\ seen[s] \in Nat /\ Len(log[s]) \in Nat /\ seen[s] <= Len(log[s])
          /\ born[s] <= seen[s]
      BY <2>1
    <2>4. HandInv'
      BY <2>1, <2>2, <2>3
    <2>5. SeenInv'
      BY <2>2
    <2> QED
      BY <2>4, <2>5
  <1>8. ASSUME NEW s \in Session, FetchFails(s) PROVE SeenInv' /\ HandInv'
    BY <1>8 DEF FetchFails
  <1>9. ASSUME Skip PROVE SeenInv' /\ HandInv'
    BY <1>9 DEF Skip
  <1>10. ASSUME Handle PROVE SeenInv' /\ HandInv'
    <2>1. /\ pc = "events" /\ next <= upto /\ next > last /\ cur \in Session
          /\ UNCHANGED <<log, born, cur, last, upto>>
          /\ seen' = [seen EXCEPT ![cur] = IF next > @ THEN next ELSE @]
      BY <1>10 DEF Handle
    <2>2. /\ next \in Nat /\ last \in Nat /\ upto \in Nat /\ born[cur] \in Nat
          /\ upto <= Len(log[cur]) /\ Len(log[cur]) \in Nat /\ born[cur] <= last
          /\ seen[cur] = next - 1 /\ seen \in [Session -> Nat]
      BY <2>1
    <2>3. seen'[cur] = next /\ \A s \in Session \ {cur} : seen'[s] = seen[s]
      BY <2>1, <2>2
    <2>4. SeenInv'
      BY <2>1, <2>2, <2>3
    <2>5. CASE log[cur][next].kind = "none"
      <3>1. next' = next + 1 /\ UNCHANGED <<pc, left>>
        BY <1>10, <2>5 DEF Handle
      <3>2. left' = {} /\ pc' = "events"
        BY <2>1, <3>1
      <3> QED
        BY <2>1, <2>2, <2>3, <2>4, <3>1, <3>2
    <2>6. CASE log[cur][next].kind # "none"
      <3>1. next' = next /\ pc' = "send"
        BY <1>10, <2>6 DEF Handle
      <3> QED
        BY <2>1, <2>2, <2>3, <2>4, <3>1
    <2> QED
      BY <2>5, <2>6
  <1>11. ASSUME EventsDone PROVE SeenInv' /\ HandInv'
    BY <1>11 DEF EventsDone
  <1>12. ASSUME Unwanted PROVE SeenInv' /\ HandInv'
    BY <1>12 DEF Unwanted
  <1>13. ASSUME Sent PROVE SeenInv' /\ HandInv'
    BY <1>13 DEF Sent, Attempt
  <1>14. ASSUME Unregistered PROVE SeenInv' /\ HandInv'
    BY <1>14 DEF Unregistered, Attempt
  <1>15. ASSUME Remove PROVE SeenInv' /\ HandInv'
    BY <1>15 DEF Remove
  <1>16. ASSUME DeliverReturns PROVE SeenInv' /\ HandInv'
    BY <1>16 DEF DeliverReturns
  <1>17. ASSUME Restart PROVE SeenInv' /\ HandInv'
    BY <1>17 DEF Restart, Fresh, NoTargets
  <1>18. ASSUME NEW d \in Device, Connect(d) PROVE SeenInv' /\ HandInv'
    BY <1>18 DEF Connect
  <1>19. ASSUME NEW d \in Device, Disconnect(d) PROVE SeenInv' /\ HandInv'
    BY <1>19 DEF Disconnect
  <1>20. ASSUME NEW d \in Device, Set(d) PROVE SeenInv' /\ HandInv'
    BY <1>20 DEF Set
  <1>21. ASSUME NEW d \in Device, Revoke(d) PROVE SeenInv' /\ HandInv'
    BY <1>21 DEF Revoke
  <1>22. ASSUME NEW s \in Session, Open(s) PROVE SeenInv' /\ HandInv'
    BY <1>22 DEF Open
  <1>23. ASSUME NEW s \in Session, Happen(s) PROVE SeenInv' /\ HandInv'
    BY <1>23 DEF Happen
  <1>24. ASSUME NEW t \in Token, Expire(t) PROVE SeenInv' /\ HandInv'
    BY <1>24 DEF Expire
  <1>25. ASSUME UNCHANGED vars PROVE SeenInv' /\ HandInv'
    BY <1>25 DEF vars
  <1>26. ASSUME SendFails PROVE SeenInv' /\ HandInv'
    BY <1>26 DEF SendFails, Attempt
  <1>27. ASSUME GiveUp PROVE SeenInv' /\ HandInv'
    BY <1>27 DEF GiveUp
  <1>28. ASSUME NEW s \in Session, Close(s) PROVE SeenInv' /\ HandInv'
    BY <1>28 DEF Close
  <1> QED
    BY <1>1, <1>2, <1>3, <1>4, <1>5, <1>6, <1>7, <1>8, <1>9, <1>10, <1>11, <1>12,
       <1>13, <1>14, <1>15, <1>16, <1>17, <1>18, <1>19, <1>20, <1>21, <1>22, <1>23, <1>24, <1>25, <1>26, <1>27, <1>28 DEF Next, Step

\* Every step keeps the count of what was sent.
LEMMA SentStep ==
  TypeOK /\ SeenInv /\ HandInv /\ SentInv /\ [Next]_vars => SentInv'
  <1> SUFFICES ASSUME TypeOK, SeenInv, HandInv, SentInv, [Next]_vars PROVE SentInv'
    OBVIOUS
  <1> USE DEF TypeOK, SeenInv, HandInv, SentInv, Seqs, Unknown, worldVars, roundVars, histVars
  <1>e. ASSUME left' = left PROVE Entry' = Entry
    BY <1>e DEF Entry
  <1>1. ASSUME ReadOnline PROVE SentInv'
    BY <1>1, <1>e DEF ReadOnline
  <1>2. ASSUME ReadRegistry PROVE SentInv'
    BY <1>2, <1>e DEF ReadRegistry
  <1>3. ASSUME List PROVE SentInv'
    BY <1>3, <1>e DEF List
  <1>4. ASSUME ListFails PROVE SentInv'
    BY <1>4, <1>e DEF ListFails
  <1>5. ASSUME PollReturns PROVE SentInv'
    BY <1>5, <1>e DEF PollReturns
  <1>6. ASSUME NEW s \in Session, FetchFirst(s) PROVE SentInv'
    BY <1>6, <1>e DEF FetchFirst
  <1>7. ASSUME NEW s \in Session, FetchNews(s) PROVE SentInv'
    BY <1>7, <1>e DEF FetchNews
  <1>8. ASSUME NEW s \in Session, FetchFails(s) PROVE SentInv'
    BY <1>8, <1>e DEF FetchFails
  <1>9. ASSUME Skip PROVE SentInv'
    BY <1>9, <1>e DEF Skip
  <1>10. ASSUME Handle PROVE SentInv'
    <2>1. /\ cur \in Session /\ next \in Seqs
          /\ seen[cur] = next - 1 /\ seen'[cur] = next
          /\ \A s \in Session : s # cur => seen'[s] = seen[s]
      BY <1>10 DEF Handle
    <2>2. ASSUME NEW d \in Device PROVE sends[<<d, cur, next>>] = 0
      <3>1. sends[<<d, cur, next>>] \in Nat
        BY <2>1
      <3>2. sends[<<d, cur, next>>] <= 1 /\ sends[<<d, cur, next>>] # 1
        BY <2>1
      <3> QED
        BY <3>1, <3>2
    <2>3. sends' = sends /\ log' = log /\ cur' = cur /\ pc' \notin {"failed", "remove"}
      BY <1>10 DEF Handle
    <2>4. pc' = "send" => next' = next
      BY <1>10 DEF Handle
    <2> SUFFICES ASSUME NEW d \in Device, NEW s \in Session, NEW n \in Seqs
                 PROVE  /\ sends[<<d, s, n>>] <= 1
                        /\ sends[<<d, s, n>>] = 1 => n <= Len(log[s]) /\ n <= seen'[s]
                        /\ pc' = "send" /\ s = cur /\ n = next => sends[<<d, s, n>>] = 0
      BY <2>3, <2>4
    <2> QED
      BY <2>1, <2>2
  <1>11. ASSUME EventsDone PROVE SentInv'
    BY <1>11, <1>e DEF EventsDone
  <1>12. ASSUME Unwanted PROVE SentInv'
    BY <1>12, <1>e DEF Unwanted
  <1>13. ASSUME Sent PROVE SentInv'
    <2>1. /\ Entry \in left /\ Entry \in Device /\ next \in Seqs /\ cur \in Session
          /\ pc = "send" /\ seen[cur] = next /\ next <= Len(log[cur])
      BY <1>13, EntryIsLeft DEF Sent, Attempt
    <2>2. sends[<<Entry, cur, next>>] = 0
      BY <2>1
    <2>3. /\ UNCHANGED <<log, seen, cur, next>>
          /\ pc' = "send" /\ left' = left \ {Entry}
      BY <1>13, <1>e DEF Sent, Attempt
    <2>4. sends' = [sends EXCEPT ![<<Entry, cur, next>>] = 1]
      BY <1>13, <2>2 DEF Sent, Attempt
    <2> SUFFICES ASSUME NEW d \in Device, NEW s \in Session, NEW n \in Seqs
                 PROVE  /\ sends'[<<d, s, n>>] <= 1
                        /\ sends'[<<d, s, n>>] = 1 => n <= Len(log[s]) /\ n <= seen[s]
                        /\ s = cur /\ n = next /\ d \in left \ {Entry} =>
                             sends'[<<d, s, n>>] = 0
      BY <2>3
    <2>5. CASE d = Entry /\ s = cur /\ n = next
      BY <2>1, <2>4, <2>5
    <2>6. CASE ~(d = Entry /\ s = cur /\ n = next)
      <3>1. sends'[<<d, s, n>>] = sends[<<d, s, n>>]
        BY <2>4, <2>6
      <3> QED
        BY <2>1, <3>1
    <2> QED
      BY <2>5, <2>6
  <1>14. ASSUME Unregistered PROVE SentInv'
    <2>1. /\ Entry \in left /\ Entry \in Device /\ next \in Seqs /\ cur \in Session
          /\ pc = "send" /\ seen[cur] = next /\ next <= Len(log[cur])
      BY <1>14, EntryIsLeft DEF Unregistered, Attempt
    <2>2. sends[<<Entry, cur, next>>] = 0
      BY <2>1
    <2>3. /\ UNCHANGED <<log, seen, cur, next>>
          /\ pc' = "remove" /\ left' = left /\ Entry' = Entry
      BY <1>14, <1>e DEF Unregistered, Attempt
    <2>4. sends' = [sends EXCEPT ![<<Entry, cur, next>>] = 1]
      BY <1>14, <2>2 DEF Unregistered, Attempt
    <2> SUFFICES ASSUME NEW d \in Device, NEW s \in Session, NEW n \in Seqs
                 PROVE  /\ sends'[<<d, s, n>>] <= 1
                        /\ sends'[<<d, s, n>>] = 1 => n <= Len(log[s]) /\ n <= seen[s]
                        /\ s = cur /\ n = next /\ d \in left \ {Entry} =>
                             sends'[<<d, s, n>>] = 0
      BY <2>3
    <2>5. CASE d = Entry /\ s = cur /\ n = next
      BY <2>1, <2>4, <2>5
    <2>6. CASE ~(d = Entry /\ s = cur /\ n = next)
      <3>1. sends'[<<d, s, n>>] = sends[<<d, s, n>>]
        BY <2>4, <2>6
      <3> QED
        BY <2>1, <3>1
    <2> QED
      BY <2>5, <2>6
  <1>15. ASSUME Remove PROVE SentInv'
    BY <1>15, <1>e DEF Remove
  <1>16. ASSUME DeliverReturns PROVE SentInv'
    BY <1>16, <1>e DEF DeliverReturns
  <1>17. ASSUME Restart PROVE SentInv'
    <2>1. /\ pc' = "idle" /\ sends' = sends /\ log' = log
          /\ \A s \in Session : seen'[s] = MaxEvents + 1
      BY <1>17 DEF Restart, Fresh
    <2>2. \A n \in Seqs : n <= MaxEvents + 1
      OBVIOUS
    <2> QED
      BY <2>1, <2>2
  <1>18. ASSUME NEW d \in Device, Connect(d) PROVE SentInv'
    BY <1>18, <1>e DEF Connect
  <1>19. ASSUME NEW d \in Device, Disconnect(d) PROVE SentInv'
    BY <1>19, <1>e DEF Disconnect
  <1>20. ASSUME NEW d \in Device, Set(d) PROVE SentInv'
    <2>1. UNCHANGED <<log, seen, sends, pc, cur, next, left>>
      BY <1>20 DEF Set
    <2>2. Entry' = Entry
      BY <2>1 DEF Entry
    <2> QED
      BY <2>1, <2>2
  <1>21. ASSUME NEW d \in Device, Revoke(d) PROVE SentInv'
    BY <1>21, <1>e DEF Revoke
  <1>22. ASSUME NEW s \in Session, Open(s) PROVE SentInv'
    BY <1>22, <1>e DEF Open
  <1>23. ASSUME NEW s \in Session, Happen(s) PROVE SentInv'
    <2>1. /\ UNCHANGED <<pc, cur, next, left, seen, sends>>
          /\ \A r \in Session : Len(log'[r]) >= Len(log[r])
      BY <1>23 DEF Happen
    <2>2. Entry' = Entry
      BY <2>1, <1>e
    <2> HIDE DEF TypeOK, SeenInv, HandInv
    <2>3. \A r \in Session : Len(log'[r]) \in Nat /\ Len(log[r]) \in Nat
      BY <1>23 DEF TypeOK, Happen
    <2> SUFFICES ASSUME NEW d \in Device, NEW r \in Session, NEW n \in Seqs
                 PROVE  sends[<<d, r, n>>] = 1 => n <= Len(log'[r])
      BY <2>1, <2>2
    <2>4. sends[<<d, r, n>>] = 1 => n <= Len(log[r])
      OBVIOUS
    <2> QED
      BY <2>1, <2>3, <2>4
  <1>24. ASSUME NEW t \in Token, Expire(t) PROVE SentInv'
    BY <1>24, <1>e DEF Expire
  <1>25. ASSUME UNCHANGED vars PROVE SentInv'
    BY <1>25, <1>e DEF vars
  <1>26. ASSUME SendFails PROVE SentInv'
    <2>1. /\ Entry \in left /\ Entry \in Device /\ next \in Seqs /\ cur \in Session
          /\ pc = "send" /\ seen[cur] = next /\ next <= Len(log[cur])
      BY <1>26, EntryIsLeft DEF SendFails, Attempt
    <2>2. sends[<<Entry, cur, next>>] = 0
      BY <2>1
    <2>3. /\ UNCHANGED <<log, seen, cur, next>>
          /\ pc' = "failed" /\ left' = left /\ Entry' = Entry
      BY <1>26, <1>e DEF SendFails, Attempt
    <2>4. sends' = [sends EXCEPT ![<<Entry, cur, next>>] = 1]
      BY <1>26, <2>2 DEF SendFails, Attempt
    <2> SUFFICES ASSUME NEW d \in Device, NEW s \in Session, NEW n \in Seqs
                 PROVE  /\ sends'[<<d, s, n>>] <= 1
                        /\ sends'[<<d, s, n>>] = 1 => n <= Len(log[s]) /\ n <= seen[s]
                        /\ s = cur /\ n = next /\ d \in left \ {Entry} =>
                             sends'[<<d, s, n>>] = 0
      BY <2>3
    <2>5. CASE d = Entry /\ s = cur /\ n = next
      BY <2>1, <2>4, <2>5
    <2>6. CASE ~(d = Entry /\ s = cur /\ n = next)
      <3>1. sends'[<<d, s, n>>] = sends[<<d, s, n>>]
        BY <2>4, <2>6
      <3> QED
        BY <2>1, <3>1
    <2> QED
      BY <2>5, <2>6
  <1>27. ASSUME GiveUp PROVE SentInv'
    BY <1>27, <1>e DEF GiveUp
  <1>28. ASSUME NEW s \in Session, Close(s) PROVE SentInv'
    BY <1>28, <1>e DEF Close
  <1> QED
    BY <1>1, <1>2, <1>3, <1>4, <1>5, <1>6, <1>7, <1>8, <1>9, <1>10, <1>11, <1>12,
       <1>13, <1>14, <1>15, <1>16, <1>17, <1>18, <1>19, <1>20, <1>21, <1>22, <1>23, <1>24, <1>25, <1>26, <1>27, <1>28 DEF Next, Step

\* The daemon starts, for the first time, in the inductive invariant.
LEMMA InitPush == Init => PushInv
  <1> SUFFICES ASSUME Init PROVE PushInv
    OBVIOUS
  <1>1. log \in [Session -> Seq(Event)] /\ \A s \in Session : log[s] = <<>> /\ Len(log[s]) = 0
    <2>1. log \in [Session -> {<<>>}]
      BY DEF Init
    <2>2. {<<>>} \subseteq Seq(Event) /\ Len(<<>>) = 0
      OBVIOUS
    <2>3. \A s \in Session : log[s] = <<>>
      BY <2>1
    <2>4. log \in [Session -> Seq(Event)]
      BY <2>1, <2>2
    <2> QED
      BY <2>2, <2>3, <2>4
  <1>2. sends \in [Device \X Session \X Seqs -> {0}]
    BY DEF Init
  <1>3. TypeOK
    <2>1. reg \in [Device -> Registration \cup {None}]
      BY DEF Init
    <2>2. /\ seen \in [Session -> 0..Unknown] /\ born \in [Session -> 0..MaxEvents]
          /\ sends \in [Device \X Session \X Seqs -> Nat]
      BY <1>2 DEF Init, Unknown
    <2> QED
      BY <1>1, <2>1, <2>2 DEF Init, TypeOK, Stage, NoTargets
  <1>4. SeenInv /\ HandInv
    BY <1>1 DEF Init, SeenInv, HandInv, Unknown
  <1>5. SentInv
    <2>1. pc = "idle"
      BY DEF Init
    <2> SUFFICES ASSUME NEW d \in Device, NEW s \in Session, NEW n \in Seqs
                 PROVE  sends[<<d, s, n>>] <= 1 /\ sends[<<d, s, n>>] # 1
      BY <2>1 DEF SentInv
    <2>2. sends[<<d, s, n>>] = 0
      BY <1>2
    <2> QED
      BY <2>2
  <1> QED
    BY <1>3, <1>4, <1>5 DEF PushInv

\* Every reachable state is in the inductive invariant.
LEMMA Inductive == Spec => []PushInv
  <1>1. PushInv /\ [Next]_vars => PushInv'
    BY TypeStep, HandStep, SentStep DEF PushInv
  <1> QED
    BY <1>1, InitPush, PTL DEF Spec

\* The variables hold what the code can put into them: what is removed after a refused token
\* is an entry that is left, and no mark goes beyond the last event.
THEOREM TypeCorrect == Spec => []TypeOK
  <1>1. PushInv => TypeOK
    BY DEF PushInv
  <1> QED
    BY <1>1, Inductive, PTL

\* However many phones, sessions, events and restarts there are, no phone is sent the same
\* event twice.
THEOREM SentOnceHolds == Spec => []SentOnce
  <1>1. ASSUME PushInv PROVE SentOnce
    <2> SUFFICES ASSUME NEW x \in DOMAIN sends PROVE sends[x] <= 1
      BY DEF SentOnce
    <2>1. PICK d \in Device, s \in Session, n \in Seqs : x = <<d, s, n>>
      BY <1>1 DEF PushInv, TypeOK
    <2> QED
      BY <1>1, <2>1 DEF PushInv, SentInv
  <1> QED
    BY <1>1, Inductive, PTL

\* Only an attempt of deliver counts one more, and it is made for an event after those that
\* were there when the session was first observed.
LEMMA AttemptIsNews ==
  ASSUME PushInv, [Next]_vars,
         NEW d \in Device, NEW s \in Session, NEW n \in Seqs,
         sends'[<<d, s, n>>] > sends[<<d, s, n>>]
  PROVE  n > born[s]
  <1>1. sends' # sends
    BY DEF PushInv, TypeOK
  <1>2. Attempt
    BY <1>1 DEF Next, Step, vars, worldVars, roundVars, histVars, ReadOnline, ReadRegistry, List,
       ListFails, PollReturns, FetchFirst, FetchNews, FetchFails, Skip, Handle, EventsDone,
       Unwanted, Sent, SendFails, GiveUp, Unregistered, Remove, DeliverReturns, Restart, Connect,
       Disconnect, Set, Revoke, Open, Close, Happen, Expire
  <1>3. Entry \in Device /\ cur \in Session /\ next \in Seqs
    <2>1. pc = "send" /\ left # {}
      BY <1>2 DEF Attempt
    <2>2. Entry \in Device
      BY <2>1, EntryIsLeft DEF PushInv, TypeOK
    <2>3. cur \in Session /\ next \in Seqs
      BY <2>1 DEF PushInv, TypeOK, HandInv, SeenInv, Seqs
    <2> QED
      BY <2>2, <2>3
  <1>4. s = cur /\ n = next
    BY <1>2, <1>3 DEF PushInv, TypeOK, Attempt
  <1> QED
    BY <1>2, <1>4 DEF PushInv, TypeOK, HandInv, Attempt, Seqs

\* What was there when a session was first observed is never sent.
THEOREM HistoryIsNotNewsHolds == Spec => HistoryIsNotNews
  <1>1. PushInv /\ [Next]_vars =>
          [\A d \in Device, s \in Session, n \in Seqs :
             sends[<<d, s, n>>]' > sends[<<d, s, n>>] => n > born[s]]_vars
    BY AttemptIsNews
  <1> QED
    BY <1>1, Inductive, PTL DEF Spec, HistoryIsNotNews

=============================================================================
