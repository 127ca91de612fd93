-------------------------- MODULE AdmissionProofs --------------------------
(* Proofs about Admission: its inductive invariant and what follows from it. *)
EXTENDS Admission, TLAPS

USE AdmissionAssumption

\* The initial states satisfy the inductive invariant.
LEMMA InitInv == Init => AdmissionInv
  BY DEF Init, AdmissionInv, TypeOK, CodesInv, TrustIsEarned, TrustCallsEarned,
         Stage, TrustStage, RevokeStage, EverPaired

\* Every step of a handshake, a session or a revocation keeps it.
LEMMA NextInv == AdmissionInv /\ [Next]_vars => AdmissionInv'
  <1> SUFFICES ASSUME AdmissionInv, [Next]_vars
               PROVE  AdmissionInv'
    OBVIOUS
  <1> USE DEF AdmissionInv
  <1>1. ASSUME NEW k \in Code, Issue(k) PROVE AdmissionInv'
    <2> USE <1>1 DEF Issue, connVars, revVars, codeVars
    <2>1. TypeOK'
      BY DEF TypeOK, CodesInv, Stage, TrustStage, RevokeStage
    <2>2. CodesInv'
      BY DEF TypeOK, CodesInv
    <2>3. EverPaired \subseteq EverPaired'
      BY DEF EverPaired, CodesInv
    <2>4. TrustIsEarned'
      BY <2>3 DEF TypeOK, TrustIsEarned, TrustCallsEarned, CodesInv, EverPaired
    <2>5. TrustCallsEarned'
      BY <2>3 DEF TypeOK, TrustIsEarned, TrustCallsEarned
    <2> QED BY <2>1, <2>2, <2>4, <2>5
  <1>2. ASSUME NEW k \in Code, Expire(k) PROVE AdmissionInv'
    <2> USE <1>2 DEF Expire, connVars, revVars, codeVars
    <2>1. TypeOK'
      BY DEF TypeOK, CodesInv, Stage, TrustStage, RevokeStage
    <2>2. CodesInv'
      BY DEF TypeOK, CodesInv
    <2>3. EverPaired \subseteq EverPaired'
      BY DEF EverPaired, CodesInv
    <2>4. TrustIsEarned'
      BY <2>3 DEF TypeOK, TrustIsEarned, TrustCallsEarned, CodesInv, EverPaired
    <2>5. TrustCallsEarned'
      BY <2>3 DEF TypeOK, TrustIsEarned, TrustCallsEarned
    <2> QED BY <2>1, <2>2, <2>4, <2>5
  <1>3. ASSUME NEW c \in Conn, NEW p \in Phone, Hello(c, p) PROVE AdmissionInv'
    <2> USE <1>3 DEF Hello, connVars, revVars, codeVars
    <2>1. TypeOK'
      BY DEF TypeOK, CodesInv, Stage, TrustStage, RevokeStage
    <2>2. CodesInv'
      BY DEF TypeOK, CodesInv
    <2>3. EverPaired \subseteq EverPaired'
      BY DEF EverPaired, CodesInv
    <2>4. TrustIsEarned'
      BY <2>3 DEF TypeOK, TrustIsEarned, TrustCallsEarned, CodesInv, EverPaired
    <2>5. TrustCallsEarned'
      BY <2>3 DEF TypeOK, TrustIsEarned, TrustCallsEarned
    <2> QED BY <2>1, <2>2, <2>4, <2>5
  <1>4. ASSUME NEW c \in Conn, Abort(c) PROVE AdmissionInv'
    <2> USE <1>4 DEF Abort, Untrack, connVars, revVars, codeVars
    <2>1. TypeOK'
      BY DEF TypeOK, CodesInv, Stage, TrustStage, RevokeStage
    <2>2. CodesInv'
      BY DEF TypeOK, CodesInv
    <2>3. EverPaired \subseteq EverPaired'
      BY DEF EverPaired, CodesInv
    <2>4. TrustIsEarned'
      BY <2>3 DEF TypeOK, TrustIsEarned, TrustCallsEarned, CodesInv, EverPaired
    <2>5. TrustCallsEarned'
      BY <2>3 DEF TypeOK, TrustIsEarned, TrustCallsEarned
    <2> QED BY <2>1, <2>2, <2>4, <2>5
  <1>5. ASSUME NEW c \in Conn, NEW k \in issued \cup {NoCode}, Confirm(c, k) PROVE AdmissionInv'
    <2> USE <1>5 DEF Confirm, Outstanding, connVars, revVars, codeVars
    <2>1. TypeOK'
      BY DEF TypeOK, CodesInv, Stage, TrustStage, RevokeStage
    <2>2. CodesInv'
      BY DEF TypeOK, CodesInv
    <2>3. EverPaired \subseteq EverPaired'
      BY DEF EverPaired, CodesInv
    <2>4. TrustIsEarned'
      BY <2>3 DEF TypeOK, TrustIsEarned, TrustCallsEarned, CodesInv, EverPaired
    <2>5. TrustCallsEarned'
      BY <2>3 DEF TypeOK, TrustIsEarned, TrustCallsEarned
    <2> QED BY <2>1, <2>2, <2>4, <2>5
  <1>6. ASSUME NEW c \in Conn, IsTrustedRead(c) PROVE AdmissionInv'
    <2> USE <1>6 DEF IsTrustedRead, MatchCode, Untrack, connVars, revVars, codeVars
    <2>1. TypeOK'
      BY DEF TypeOK, CodesInv, Stage, TrustStage, RevokeStage
    <2>2. CodesInv'
      BY DEF TypeOK, CodesInv
    <2>3. EverPaired \subseteq EverPaired'
      BY DEF EverPaired, CodesInv
    <2>a. pc'[c] = "consume" => phone[c] \in EverPaired'
      <3>1. CASE <<phone[c], proof[c]>> \in paired' /\ proof[c] \in issued'
        BY <3>1 DEF EverPaired, CodesInv
      <3>2. CASE pc'[c] # "consume"
        BY <3>2
      <3> QED
        BY <3>1, <3>2 DEF TypeOK, CodesInv
    <2>b. \A d \in Conn : pc'[d] \in {"stamp", "consume", "trust", "admit", "up"}
            => \/ d = c /\ phone'[d] = phone[c]
               \/ pc'[d] = pc[d] /\ phone'[d] = phone[d]
      BY DEF TypeOK
    <2>4. TrustIsEarned'
      BY <2>3, <2>a, <2>b DEF TypeOK, TrustIsEarned
    <2>5. TrustCallsEarned'
      BY <2>3 DEF TypeOK, TrustIsEarned, TrustCallsEarned
    <2> QED BY <2>1, <2>2, <2>4, <2>5
  <1>7. ASSUME NEW c \in Conn, IsTrustedFails(c) PROVE AdmissionInv'
    <2> USE <1>7 DEF IsTrustedFails, MatchCode, Untrack, connVars, revVars, codeVars
    <2>1. TypeOK'
      BY DEF TypeOK, CodesInv, Stage, TrustStage, RevokeStage
    <2>2. CodesInv'
      BY DEF TypeOK, CodesInv
    <2>3. EverPaired \subseteq EverPaired'
      BY DEF EverPaired, CodesInv
    <2>a. pc'[c] = "consume" => phone[c] \in EverPaired'
      <3>1. CASE <<phone[c], proof[c]>> \in paired' /\ proof[c] \in issued'
        BY <3>1 DEF EverPaired, CodesInv
      <3>2. CASE pc'[c] # "consume"
        BY <3>2
      <3> QED
        BY <3>1, <3>2 DEF TypeOK, CodesInv
    <2>b. \A d \in Conn : pc'[d] \in {"stamp", "consume", "trust", "admit", "up"}
            => \/ d = c /\ phone'[d] = phone[c]
               \/ pc'[d] = pc[d] /\ phone'[d] = phone[d]
      BY DEF TypeOK
    <2>4. TrustIsEarned'
      BY <2>3, <2>a, <2>b DEF TypeOK, TrustIsEarned
    <2>5. TrustCallsEarned'
      BY <2>3 DEF TypeOK, TrustIsEarned, TrustCallsEarned
    <2> QED BY <2>1, <2>2, <2>4, <2>5
  <1>8. ASSUME NEW c \in Conn, Stamp(c) PROVE AdmissionInv'
    <2> USE <1>8 DEF Stamp, connVars, revVars, codeVars
    <2>1. TypeOK'
      BY DEF TypeOK, CodesInv, Stage, TrustStage, RevokeStage
    <2>2. CodesInv'
      BY DEF TypeOK, CodesInv
    <2>3. EverPaired \subseteq EverPaired'
      BY DEF EverPaired, CodesInv
    <2>4. TrustIsEarned'
      BY <2>3 DEF TypeOK, TrustIsEarned, TrustCallsEarned, CodesInv, EverPaired
    <2>5. TrustCallsEarned'
      BY <2>3 DEF TypeOK, TrustIsEarned, TrustCallsEarned
    <2> QED BY <2>1, <2>2, <2>4, <2>5
  <1>9. ASSUME NEW c \in Conn, Consume(c) PROVE AdmissionInv'
    <2> USE <1>9 DEF Consume, connVars, revVars, codeVars
    <2>1. TypeOK'
      BY DEF TypeOK, CodesInv, Stage, TrustStage, RevokeStage
    <2>2. CodesInv'
      BY DEF TypeOK, CodesInv
    <2>3. EverPaired \subseteq EverPaired'
      BY DEF EverPaired, CodesInv
    <2>4. TrustIsEarned'
      BY <2>3 DEF TypeOK, TrustIsEarned, TrustCallsEarned, CodesInv, EverPaired
    <2>5. TrustCallsEarned'
      BY <2>3 DEF TypeOK, TrustIsEarned, TrustCallsEarned
    <2> QED BY <2>1, <2>2, <2>4, <2>5
  <1>10. ASSUME NEW c \in Conn, Admit(c) PROVE AdmissionInv'
    <2> USE <1>10 DEF Admit, connVars, revVars, codeVars
    <2>1. TypeOK'
      BY DEF TypeOK, CodesInv, Stage, TrustStage, RevokeStage
    <2>2. CodesInv'
      BY DEF TypeOK, CodesInv
    <2>3. EverPaired \subseteq EverPaired'
      BY DEF EverPaired, CodesInv
    <2>4. TrustIsEarned'
      BY <2>3 DEF TypeOK, TrustIsEarned, TrustCallsEarned, CodesInv, EverPaired
    <2>5. TrustCallsEarned'
      BY <2>3 DEF TypeOK, TrustIsEarned, TrustCallsEarned
    <2> QED BY <2>1, <2>2, <2>4, <2>5
  <1>11. ASSUME NEW c \in Conn, Name(c) PROVE AdmissionInv'
    <2> USE <1>11 DEF Name, connVars, revVars, codeVars
    <2>1. TypeOK'
      BY DEF TypeOK, CodesInv, Stage, TrustStage, RevokeStage
    <2>2. CodesInv'
      BY DEF TypeOK, CodesInv
    <2>3. EverPaired \subseteq EverPaired'
      BY DEF EverPaired, CodesInv
    <2>4. TrustIsEarned'
      BY <2>3 DEF TypeOK, TrustIsEarned, TrustCallsEarned, CodesInv, EverPaired
    <2>5. TrustCallsEarned'
      BY <2>3 DEF TypeOK, TrustIsEarned, TrustCallsEarned
    <2> QED BY <2>1, <2>2, <2>4, <2>5
  <1>12. ASSUME NEW c \in Conn, Close(c) PROVE AdmissionInv'
    <2> USE <1>12 DEF Close, Untrack, connVars, revVars, codeVars
    <2>1. TypeOK'
      BY DEF TypeOK, CodesInv, Stage, TrustStage, RevokeStage
    <2>2. CodesInv'
      BY DEF TypeOK, CodesInv
    <2>3. EverPaired \subseteq EverPaired'
      BY DEF EverPaired, CodesInv
    <2>4. TrustIsEarned'
      BY <2>3 DEF TypeOK, TrustIsEarned, TrustCallsEarned, CodesInv, EverPaired
    <2>5. TrustCallsEarned'
      BY <2>3 DEF TypeOK, TrustIsEarned, TrustCallsEarned
    <2> QED BY <2>1, <2>2, <2>4, <2>5
  <1>13. ASSUME NEW c \in Conn, TrustRead(c) PROVE AdmissionInv'
    <2> USE <1>13 DEF TrustRead, connVars, revVars, codeVars
    <2>1. TypeOK'
      BY DEF TypeOK, CodesInv, Stage, TrustStage, RevokeStage
    <2>2. CodesInv'
      BY DEF TypeOK, CodesInv
    <2>3. EverPaired \subseteq EverPaired'
      BY DEF EverPaired, CodesInv
    <2>4. TrustIsEarned'
      BY <2>3 DEF TypeOK, TrustIsEarned, TrustCallsEarned, CodesInv, EverPaired
    <2>5. TrustCallsEarned'
      BY <2>3 DEF TypeOK, TrustIsEarned, TrustCallsEarned
    <2> QED BY <2>1, <2>2, <2>4, <2>5
  <1>14. ASSUME NEW c \in Conn, TrustWrite(c) PROVE AdmissionInv'
    <2> USE <1>14 DEF TrustWrite, connVars, revVars, codeVars
    <2>0. phone[c] \in Phone
      BY DEF TrustCallsEarned, EverPaired
    <2>1. TypeOK'
      BY <2>0 DEF TypeOK, CodesInv, Stage, TrustStage, RevokeStage
    <2>2. CodesInv'
      BY DEF TypeOK, CodesInv
    <2>3. EverPaired \subseteq EverPaired'
      BY DEF EverPaired, CodesInv
    <2>4. TrustIsEarned'
      BY <2>3 DEF TypeOK, TrustIsEarned, TrustCallsEarned
    <2>5. TrustCallsEarned'
      BY <2>3 DEF TypeOK, TrustIsEarned, TrustCallsEarned
    <2> QED BY <2>1, <2>2, <2>4, <2>5
  <1>15. ASSUME NEW c \in Conn, TrustFails(c) PROVE AdmissionInv'
    <2> USE <1>15 DEF TrustFails, Untrack, connVars, revVars, codeVars
    <2>1. TypeOK'
      BY DEF TypeOK, CodesInv, Stage, TrustStage, RevokeStage
    <2>2. CodesInv'
      BY DEF TypeOK, CodesInv
    <2>3. EverPaired \subseteq EverPaired'
      BY DEF EverPaired, CodesInv
    <2>4. TrustIsEarned'
      BY <2>3 DEF TypeOK, TrustIsEarned, TrustCallsEarned, CodesInv, EverPaired
    <2>5. TrustCallsEarned'
      BY <2>3 DEF TypeOK, TrustIsEarned, TrustCallsEarned
    <2> QED BY <2>1, <2>2, <2>4, <2>5
  <1>16. ASSUME NEW r \in Revoker, NEW p \in Phone, RevokeRead(r, p) PROVE AdmissionInv'
    <2> USE <1>16 DEF RevokeRead, connVars, revVars, codeVars
    <2>1. TypeOK'
      BY DEF TypeOK, CodesInv, Stage, TrustStage, RevokeStage
    <2>2. CodesInv'
      BY DEF TypeOK, CodesInv
    <2>3. EverPaired \subseteq EverPaired'
      BY DEF EverPaired, CodesInv
    <2>4. TrustIsEarned'
      BY <2>3 DEF TypeOK, TrustIsEarned, TrustCallsEarned, CodesInv, EverPaired
    <2>5. TrustCallsEarned'
      BY <2>3 DEF TypeOK, TrustIsEarned, TrustCallsEarned
    <2> QED BY <2>1, <2>2, <2>4, <2>5
  <1>17. ASSUME NEW r \in Revoker, RevokeWrite(r) PROVE AdmissionInv'
    <2> USE <1>17 DEF RevokeWrite, connVars, revVars, codeVars
    <2>1. TypeOK'
      BY DEF TypeOK, CodesInv, Stage, TrustStage, RevokeStage
    <2>2. CodesInv'
      BY DEF TypeOK, CodesInv
    <2>3. EverPaired \subseteq EverPaired'
      BY DEF EverPaired, CodesInv
    <2>4. TrustIsEarned'
      BY <2>3 DEF TypeOK, TrustIsEarned, TrustCallsEarned, CodesInv, EverPaired
    <2>5. TrustCallsEarned'
      BY <2>3 DEF TypeOK, TrustIsEarned, TrustCallsEarned
    <2> QED BY <2>1, <2>2, <2>4, <2>5
  <1>18. ASSUME NEW r \in Revoker, RevokeFails(r) PROVE AdmissionInv'
    <2> USE <1>18 DEF RevokeFails, connVars, revVars, codeVars
    <2>1. TypeOK'
      BY DEF TypeOK, CodesInv, Stage, TrustStage, RevokeStage
    <2>2. CodesInv'
      BY DEF TypeOK, CodesInv
    <2>3. EverPaired \subseteq EverPaired'
      BY DEF EverPaired, CodesInv
    <2>4. TrustIsEarned'
      BY <2>3 DEF TypeOK, TrustIsEarned, TrustCallsEarned, CodesInv, EverPaired
    <2>5. TrustCallsEarned'
      BY <2>3 DEF TypeOK, TrustIsEarned, TrustCallsEarned
    <2> QED BY <2>1, <2>2, <2>4, <2>5
  <1>19. ASSUME NEW r \in Revoker, DisconnectDevice(r) PROVE AdmissionInv'
    <2> USE <1>19 DEF DisconnectDevice, connVars, revVars, codeVars
    <2>1. TypeOK'
      BY DEF DeviceConns, TypeOK, CodesInv, Stage, TrustStage, RevokeStage
    <2>2. CodesInv'
      BY DEF TypeOK, CodesInv
    <2>3. EverPaired \subseteq EverPaired'
      BY DEF EverPaired, CodesInv
    <2>4. TrustIsEarned'
      BY <2>3 DEF TypeOK, TrustIsEarned, TrustCallsEarned, CodesInv, EverPaired
    <2>5. TrustCallsEarned'
      BY <2>3 DEF TypeOK, TrustIsEarned, TrustCallsEarned
    <2> QED BY <2>1, <2>2, <2>4, <2>5
  <1>20. CASE Restart
    <2> USE <1>20 DEF Restart, connVars, revVars, codeVars
    <2>1. TypeOK'
      BY DEF TypeOK, CodesInv, Stage, TrustStage, RevokeStage
    <2>2. CodesInv'
      BY DEF TypeOK, CodesInv
    <2>3. EverPaired \subseteq EverPaired'
      BY DEF EverPaired, CodesInv
    <2>4. TrustIsEarned'
      BY <2>3 DEF TypeOK, TrustIsEarned, TrustCallsEarned, CodesInv, EverPaired
    <2>5. TrustCallsEarned'
      BY <2>3 DEF TypeOK, TrustIsEarned, TrustCallsEarned
    <2> QED BY <2>1, <2>2, <2>4, <2>5
  <1>21. CASE UNCHANGED vars
    BY <1>21 DEF vars, connVars, revVars, codeVars, TypeOK, CodesInv, TrustIsEarned,
             TrustCallsEarned, EverPaired
  <1> QED
    BY <1>1, <1>2, <1>3, <1>4, <1>5, <1>6, <1>7, <1>8, <1>9, <1>10, <1>11, <1>12, <1>13, <1>14, <1>15, <1>16, <1>17, <1>18, <1>19, <1>20, <1>21 DEF Next, Handshake, Session, Revocation

\* Types: every variable keeps its range, whatever the numbers of connections,
\* requests, phones and codes.
THEOREM TypeCorrect == Spec => []TypeOK
  <1>1. AdmissionInv => TypeOK
    BY DEF AdmissionInv
  <1> QED
    BY InitInv, NextInv, <1>1, PTL DEF Spec

\* Admission: only phones that proved an issued code are ever trusted, in the
\* file, in a stale copy of it, or on a connection.
THEOREM TrustEarned == Spec => []TrustIsEarned
  <1>1. AdmissionInv => TrustIsEarned
    BY DEF AdmissionInv
  <1> QED
    BY InitInv, NextInv, <1>1, PTL DEF Spec

\* A Confirm is never checked against a code retired or expired before it came.
THEOREM OfferedLive == Spec => OfferedCodesAreLive
  <1>1. AdmissionInv /\ [Next]_vars =>
          [\A c \in Conn : pc[c] = "hello" /\ pc'[c] = "finish"
             => offered'[c] \subseteq issued \ (retired \cup expired)]_vars
    <2> SUFFICES ASSUME AdmissionInv, Next, NEW c \in Conn,
                        pc[c] = "hello", pc'[c] = "finish"
                 PROVE  offered'[c] \subseteq issued \ (retired \cup expired)
      OBVIOUS
    <2>1. CASE \/ \E k \in Code : Issue(k) \/ Expire(k)
               \/ \E r \in Revoker : Revocation(r)
               \/ Restart
      <3>1. pc \in [Conn -> Stage]
        BY DEF AdmissionInv, TypeOK
      <3>2. pc' = pc \/ \E r \in Revoker : DisconnectDevice(r) \/ pc' = [d \in Conn |-> "free"]
        BY <2>1 DEF Issue, Expire, Revocation, RevokeRead, RevokeWrite, RevokeFails,
           Restart, connVars
      <3>3. pc'[c] # "finish"
        BY <2>1, <3>1, <3>2 DEF DisconnectDevice, Restart, connVars
      <3> QED
        BY <3>3
    <2>2. ASSUME NEW d \in Conn, Session(d) PROVE FALSE
      <3>1. pc \in [Conn -> Stage]
        BY DEF AdmissionInv, TypeOK
      <3>2. pc'[c] # "finish"
        BY <2>2, <3>1 DEF Session, Name, Close, TrustRead, TrustWrite, TrustFails, Untrack
      <3> QED
        BY <3>2
    <2>3. ASSUME NEW d \in Conn, Handshake(d)
          PROVE  offered'[c] \subseteq issued \ (retired \cup expired)
      <3>1. pc \in [Conn -> Stage]
        BY DEF AdmissionInv, TypeOK
      <3>2. CASE \/ \E p \in Phone : Hello(d, p)
                 \/ Abort(d) \/ IsTrustedRead(d) \/ IsTrustedFails(d) \/ Stamp(d)
                 \/ Consume(d) \/ Admit(d)
        <4>1. CASE \E p \in Phone : Hello(d, p)
          BY <3>1, <4>1 DEF Hello
        <4>2. CASE Abort(d)
          BY <3>1, <4>2 DEF Abort, Untrack
        <4>3. CASE IsTrustedRead(d)
          BY <3>1, <4>3 DEF IsTrustedRead, MatchCode, Untrack
        <4>6. CASE IsTrustedFails(d)
          BY <3>1, <4>6 DEF IsTrustedFails, MatchCode, Untrack
        <4>4. CASE Stamp(d) \/ Consume(d)
          BY <3>1, <4>4 DEF Stamp, Consume
        <4>5. CASE Admit(d)
          BY <3>1, <4>5 DEF Admit, Untrack
        <4> QED
          BY <3>2, <4>1, <4>2, <4>3, <4>4, <4>5, <4>6
      <3>3. ASSUME NEW k \in issued \cup {NoCode}, Confirm(d, k)
            PROVE  offered'[c] \subseteq issued \ (retired \cup expired)
        <4>1. d = c
          BY <3>1, <3>3 DEF Confirm
        <4> QED
          BY <3>3, <4>1 DEF Confirm, Outstanding, AdmissionInv, TypeOK, CodesInv
      <3> QED
        BY <2>3, <3>2, <3>3 DEF Handshake
    <2> QED
      BY <2>1, <2>2, <2>3 DEF Next
  <1> QED
    BY InitInv, NextInv, <1>1, PTL DEF Spec, OfferedCodesAreLive

\* What a step does to a forgotten phone, connection by connection: only a
\* handshake of its own, matching a code, makes it remembered again.
LEMMA ForgottenStep ==
  ASSUME TypeOK, [Next]_vars, NEW p \in Phone, Forgotten(p), ~Forgotten(p)'
  PROVE  \E c \in Conn : /\ phone[c] = p
                         /\ pc[c] = "finish" /\ pc'[c] = "consume"
                         /\ proof[c] \in offered[c]
  <1> USE DEF Forgotten, TypeOK, connVars, revVars, codeVars
  <1>1. ASSUME NEW k \in Code, Issue(k) \/ Expire(k) PROVE FALSE
    BY <1>1 DEF Issue, Expire
  <1>2. ASSUME NEW c \in Conn, Handshake(c),
               ~IsTrustedRead(c), ~IsTrustedFails(c)
        PROVE  FALSE
    <2>1. ASSUME NEW q \in Phone, Hello(c, q) PROVE FALSE
      BY <2>1 DEF Hello
    <2>2. CASE Abort(c)
      BY <2>2 DEF Abort, Untrack
    <2>3. ASSUME NEW k \in issued \cup {NoCode}, Confirm(c, k) PROVE FALSE
      BY <2>3 DEF Confirm
    <2>4. CASE Stamp(c)
      BY <2>4 DEF Stamp
    <2>5. CASE Consume(c)
      BY <2>5 DEF Consume
    <2>6. CASE Admit(c)
      BY <2>6 DEF Admit
    <2> QED
      BY <1>2, <2>1, <2>2, <2>3, <2>4, <2>5, <2>6 DEF Handshake
  <1>3. ASSUME NEW c \in Conn, IsTrustedRead(c) \/ IsTrustedFails(c)
        PROVE  /\ phone[c] = p /\ pc[c] = "finish" /\ pc'[c] = "consume"
               /\ proof[c] \in offered[c]
    <2>1. pc[c] = "finish" /\ UNCHANGED <<trusting, devices>>
      BY <1>3 DEF IsTrustedRead, IsTrustedFails
    <2>2. CASE phone[c] = p
      <3>1. MatchCode(c) /\ UNCHANGED list
        BY <1>3, <2>2 DEF IsTrustedRead, IsTrustedFails
      <3> QED
        BY <2>1, <2>2, <3>1 DEF MatchCode, Untrack
    <2>3. CASE phone[c] # p
      BY <1>3, <2>1, <2>3 DEF IsTrustedRead, IsTrustedFails, MatchCode, Untrack
    <2> QED
      BY <2>2, <2>3
  <1>4. ASSUME NEW c \in Conn, Session(c) PROVE FALSE
    <2>1. CASE Name(c)
      BY <2>1 DEF Name
    <2>2. CASE Close(c)
      BY <2>2 DEF Close, Untrack
    <2>3. CASE TrustRead(c)
      BY <2>3 DEF TrustRead
    <2>4. CASE TrustWrite(c)
      BY <2>4 DEF TrustWrite
    <2>5. CASE TrustFails(c)
      BY <2>5 DEF TrustFails, Untrack
    <2> QED
      BY <1>4, <2>1, <2>2, <2>3, <2>4, <2>5 DEF Session
  <1>5. ASSUME NEW r \in Revoker, Revocation(r) PROVE FALSE
    BY <1>5 DEF Revocation, RevokeRead, RevokeWrite, RevokeFails, DisconnectDevice
  <1>6. CASE Restart
    BY <1>6 DEF Restart
  <1>7. CASE UNCHANGED vars
    BY <1>7 DEF vars
  <1> QED
    BY <1>1, <1>2, <1>3, <1>4, <1>5, <1>6, <1>7 DEF Next

\* Revocation: once nothing under way remembers a phone, only a code lets it in.
THEOREM ForgottenStaysOut == Spec => ForgottenNeedsCode
  <1>1. TypeOK /\ [Next]_vars =>
          [\A p \in Phone : Forgotten(p) /\ ~Forgotten(p)' =>
             \E c \in Conn : /\ phone[c] = p
                             /\ pc[c] = "finish" /\ pc'[c] = "consume"
                             /\ proof[c] \in offered[c]]_vars
    BY ForgottenStep
  <1> QED
    BY TypeCorrect, <1>1, PTL DEF Spec, ForgottenNeedsCode

=============================================================================
