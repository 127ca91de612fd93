----------------------------- MODULE Admission -----------------------------
(***************************************************************************)
(* Which phones the bridge lets in: the handshake a connection runs        *)
(* (internal/bridge/server.go, internal/protocol/handshake.go), the one-   *)
(* time pairing codes (internal/bridge/pairing.go), the list of trusted    *)
(* phones on disk (internal/state/state.go) and its revocation, by the     *)
(* control socket (cmd/hermes-remote/daemon.go) or, when the command line  *)
(* finds no daemon, by its own process (cmd/hermes-remote/main.go).        *)
(*                                                                         *)
(* Store.readJSON and Store.writeJSON each hold the store's mutex, but     *)
(* IsTrusted, Trust and Revoke read the whole list, change the copy and    *)
(* write the copy back: each is two steps here, with the copy in `list`.   *)
(* A device is its id alone; names and timestamps are left out.            *)
(***************************************************************************)
EXTENDS FiniteSets

CONSTANTS
  Conn,       \* connection slots: a closed slot serves a later connection
  Revoker,    \* revocations that may run at the same time
  Outside,    \* those of them a command line makes itself, on the file
  Phone,      \* phone identities (Ed25519 public keys)
  Code,       \* pairing codes the daemon may issue
  NoCode,     \* the proof of a phone that has no code
  NoPhone     \* the phone of a free slot, the target of an idle request

ASSUME AdmissionAssumption ==
  /\ NoCode \notin Code /\ NoPhone \notin Phone
  /\ Conn \cap Revoker = {} /\ Outside \subseteq Revoker

VARIABLES
  pc,         \* [Conn -> Stage]: where the connection's handshake stands
  phone,      \* [Conn -> Phone or NoPhone]: the key claimed in Hello
  proof,      \* [Conn -> Code or NoCode]: the code Confirm proves
  offered,    \* [Conn -> SUBSET Code]: Outstanding(), as passed to Finish
  trusting,   \* [Conn -> TrustStage]: a Store.Trust call of the connection
  severed,    \* connections closed by DisconnectDevice and still winding down
  rpc,        \* [Revoker -> RevokeStage]
  target,     \* [Revoker -> Phone or NoPhone]: the phone a request revokes
  list,       \* [Conn \cup Revoker -> SUBSET Phone]: copies of the list
  devices,    \* devices.json
  codes,      \* pairings.codes
  expired,    \* codes whose expiry has passed
  issued,     \* history: every code ever issued
  retired,    \* history: every code passed to Consume
  paired      \* history: <<phone, code>> for each proof Finish accepted

connVars  == <<pc, phone, proof, offered, trusting, severed>>
revVars   == <<rpc, target>>
codeVars  == <<codes, expired, issued, retired>>
vars      == <<connVars, revVars, list, devices, codeVars, paired>>

Stage == {"free", "hello", "finish", "stamp", "consume", "trust", "admit", "up"}
TrustStage == {"none", "read", "write"}
RevokeStage == {"idle", "write", "disconnect"}

TypeOK ==
  /\ pc \in [Conn -> Stage]
  /\ phone \in [Conn -> Phone \cup {NoPhone}]
  /\ proof \in [Conn -> Code \cup {NoCode}]
  /\ offered \in [Conn -> SUBSET Code]
  /\ trusting \in [Conn -> TrustStage]
  /\ severed \in SUBSET Conn
  /\ rpc \in [Revoker -> RevokeStage]
  /\ target \in [Revoker -> Phone \cup {NoPhone}]
  /\ list \in [Conn \cup Revoker -> SUBSET Phone]
  /\ devices \in SUBSET Phone
  /\ codes \in SUBSET Code
  /\ expired \in SUBSET Code
  /\ issued \in SUBSET Code
  /\ retired \in SUBSET Code
  /\ paired \in SUBSET (Phone \X Code)

Init ==
  /\ pc = [c \in Conn |-> "free"]
  /\ phone = [c \in Conn |-> NoPhone]
  /\ proof = [c \in Conn |-> NoCode]
  /\ offered = [c \in Conn |-> {}]
  /\ trusting = [c \in Conn |-> "none"]
  /\ severed = {}
  /\ rpc = [r \in Revoker |-> "idle"]
  /\ target = [r \in Revoker |-> NoPhone]
  /\ list = [x \in Conn \cup Revoker |-> {}]
  /\ devices = {}
  /\ codes = {} /\ expired = {} /\ issued = {} /\ retired = {}
  /\ paired = {}

-----------------------------------------------------------------------------
(* Pairing codes. *)

Issue(k) ==
  /\ k \notin issued
  /\ codes' = codes \cup {k}
  /\ issued' = issued \cup {k}
  /\ UNCHANGED <<connVars, revVars, list, devices, expired, retired, paired>>

\* Time passes: the code's ttl is over.  It stays in the map until it is pruned.
Expire(k) ==
  /\ k \in codes \ expired
  /\ expired' = expired \cup {k}
  /\ UNCHANGED <<connVars, revVars, list, devices, codes, issued, retired, paired>>

Outstanding == codes \ expired

-----------------------------------------------------------------------------
(* The handshake of one connection. *)

\* The connection is untracked.  Its locals go out of scope, except for what a
\* dispatch goroutine still inside Store.Trust holds.
Untrack(c) ==
  /\ pc' = [pc EXCEPT ![c] = "free"]
  /\ phone' = [phone EXCEPT ![c] = IF trusting'[c] = "none" THEN NoPhone ELSE @]
  /\ proof' = [proof EXCEPT ![c] = NoCode]
  /\ offered' = [offered EXCEPT ![c] = {}]
  /\ severed' = severed \ {c}

\* serveLink tracks the connection; Hello is read, accepted and answered.
Hello(c, p) ==
  /\ pc[c] = "free" /\ trusting[c] = "none"
  /\ pc' = [pc EXCEPT ![c] = "hello"]
  /\ phone' = [phone EXCEPT ![c] = p]
  /\ UNCHANGED <<proof, offered, trusting, severed, revVars, list, devices,
                 codeVars, paired>>

\* The link fails or times out, or Confirm is malformed or badly signed.
Abort(c) ==
  /\ pc[c] = "hello"
  /\ UNCHANGED trusting
  /\ Untrack(c)
  /\ UNCHANGED <<revVars, list, devices, codeVars, paired>>

\* Confirm arrives with a valid signature.  Go evaluates Outstanding(), which
\* prunes the expired codes, before it calls Finish.
Confirm(c, k) ==
  /\ pc[c] = "hello"
  /\ pc' = [pc EXCEPT ![c] = "finish"]
  /\ proof' = [proof EXCEPT ![c] = k]
  /\ offered' = [offered EXCEPT ![c] = Outstanding]
  /\ codes' = Outstanding
  /\ UNCHANGED <<phone, trusting, severed, revVars, list, devices, expired,
                 issued, retired, paired>>

\* Variant: the proof may match any code ever issued.
MatchAnyIssued(c) ==
  IF proof[c] \in issued
  THEN /\ pc' = [pc EXCEPT ![c] = "consume"]
       /\ paired' = paired \cup {<<phone[c], proof[c]>>}
       /\ UNCHANGED <<phone, proof, offered, severed>>
  ELSE /\ Untrack(c)
       /\ paired' = paired

\* Finish after IsTrusted said no: the proof must match an offered code.
MatchCode(c) ==
  IF proof[c] \in offered[c]
  THEN /\ pc' = [pc EXCEPT ![c] = "consume"]
       /\ paired' = paired \cup {<<phone[c], proof[c]>>}
       /\ UNCHANGED <<phone, proof, offered, severed>>
  ELSE /\ Untrack(c)
       /\ paired' = paired

\* IsTrusted reads the list.
IsTrustedRead(c) ==
  /\ pc[c] = "finish"
  /\ UNCHANGED trusting
  /\ IF phone[c] \in devices
     THEN /\ pc' = [pc EXCEPT ![c] = "stamp"]
          /\ list' = [list EXCEPT ![c] = devices]
          /\ UNCHANGED <<phone, proof, offered, severed, paired>>
     ELSE MatchCode(c) /\ UNCHANGED list
  /\ UNCHANGED <<revVars, devices, codeVars>>

\* Variant: the phone counts as trusted when the list cannot be read.
IsTrustedFailsOpen(c) ==
  /\ pc[c] = "finish"
  /\ pc' = [pc EXCEPT ![c] = "admit"]
  /\ UNCHANGED <<phone, proof, offered, trusting, severed, revVars, list,
                 devices, codeVars, paired>>

\* The list cannot be read: the phone counts as not trusted.
IsTrustedFails(c) ==
  /\ pc[c] = "finish"
  /\ UNCHANGED trusting
  /\ MatchCode(c)
  /\ UNCHANGED <<revVars, list, devices, codeVars>>

\* IsTrusted writes its copy back with a new last_seen; a failed write is
\* ignored.
Stamp(c) ==
  /\ pc[c] = "stamp"
  /\ devices' \in {list[c], devices}
  /\ list' = [list EXCEPT ![c] = {}]
  /\ pc' = [pc EXCEPT ![c] = "admit"]
  /\ UNCHANGED <<phone, proof, offered, trusting, severed, revVars, codeVars, paired>>

\* Variant: the code stays outstanding.
ConsumeNothing(c) ==
  /\ pc[c] = "consume"
  /\ retired' = retired \cup {proof[c]}
  /\ pc' = [pc EXCEPT ![c] = "trust"]
  /\ trusting' = [trusting EXCEPT ![c] = "read"]
  /\ UNCHANGED <<phone, proof, offered, severed, revVars, list, devices, codes,
                 expired, issued, paired>>

Consume(c) ==
  /\ pc[c] = "consume"
  /\ codes' = codes \ {proof[c]}
  /\ retired' = retired \cup {proof[c]}
  /\ pc' = [pc EXCEPT ![c] = "trust"]
  /\ trusting' = [trusting EXCEPT ![c] = "read"]
  /\ UNCHANGED <<phone, proof, offered, severed, revVars, list, devices,
                 expired, issued, paired>>

\* handshake sets c.deviceID, without a lock; from here on OnlineDevices and
\* DisconnectDevice see the phone.
Admit(c) ==
  /\ pc[c] = "admit"
  /\ pc' = [pc EXCEPT ![c] = "up"]
  /\ proof' = [proof EXCEPT ![c] = NoCode]
  /\ offered' = [offered EXCEPT ![c] = {}]
  /\ UNCHANGED <<phone, trusting, severed, revVars, list, devices, codeVars,
                 paired>>

-----------------------------------------------------------------------------
(* An admitted connection. *)

\* dispatch of a CtlName frame calls Store.Trust.
Name(c) ==
  /\ pc[c] = "up" /\ trusting[c] = "none"
  /\ trusting' = [trusting EXCEPT ![c] = "read"]
  /\ UNCHANGED <<pc, phone, proof, offered, severed, revVars, list, devices,
                 codeVars, paired>>

\* The tunnel ends and the connection is untracked.  Its dispatch goroutine may
\* still be inside Store.Trust.
Close(c) ==
  /\ pc[c] = "up"
  /\ UNCHANGED trusting
  /\ Untrack(c)
  /\ UNCHANGED <<revVars, list, devices, codeVars, paired>>

-----------------------------------------------------------------------------
(* Store.Trust, called by a handshake ("trust") or for a CtlName frame. *)

TrustRead(c) ==
  /\ trusting[c] = "read"
  /\ list' = [list EXCEPT ![c] = devices]
  /\ trusting' = [trusting EXCEPT ![c] = "write"]
  /\ UNCHANGED <<pc, phone, proof, offered, severed, revVars, devices, codeVars, paired>>

TrustWrite(c) ==
  /\ trusting[c] = "write"
  /\ devices' = list[c] \cup {phone[c]}
  /\ list' = [list EXCEPT ![c] = {}]
  /\ trusting' = [trusting EXCEPT ![c] = "none"]
  /\ pc' = [pc EXCEPT ![c] = IF @ = "trust" THEN "admit" ELSE @]
  /\ phone' = [phone EXCEPT ![c] = IF pc[c] = "free" THEN NoPhone ELSE @]
  /\ UNCHANGED <<proof, offered, severed, revVars, codeVars, paired>>

\* The list cannot be read or written: the handshake or the tunnel ends.
TrustFails(c) ==
  /\ trusting[c] # "none"
  /\ list' = [list EXCEPT ![c] = {}]
  /\ trusting' = [trusting EXCEPT ![c] = "none"]
  /\ Untrack(c)
  /\ UNCHANGED <<revVars, devices, codeVars, paired>>

-----------------------------------------------------------------------------
(* daemon.Revoke: Store.Revoke, then Server.DisconnectDevice.  A command line that
   has got no answer, because no daemon was there or it was too slow, calls
   Store.Revoke in its own process; a daemon may be there by the time it does. *)

RevokeRead(r, p) ==
  /\ rpc[r] = "idle" /\ p \in devices
  /\ rpc' = [rpc EXCEPT ![r] = "write"]
  /\ target' = [target EXCEPT ![r] = p]
  /\ list' = [list EXCEPT ![r] = devices]
  /\ UNCHANGED <<connVars, devices, codeVars, paired>>

RevokeWrite(r) ==
  /\ rpc[r] = "write"
  /\ devices' = list[r] \ {target[r]}
  /\ list' = [list EXCEPT ![r] = {}]
  /\ rpc' = [rpc EXCEPT ![r] = IF r \in Outside THEN "idle" ELSE "disconnect"]
  /\ target' = [target EXCEPT ![r] = IF r \in Outside THEN NoPhone ELSE @]
  /\ UNCHANGED <<connVars, codeVars, paired>>

\* The list cannot be written: Revoke returns the error and disconnects nobody.
RevokeFails(r) ==
  /\ rpc[r] = "write"
  /\ list' = [list EXCEPT ![r] = {}]
  /\ rpc' = [rpc EXCEPT ![r] = "idle"]
  /\ target' = [target EXCEPT ![r] = NoPhone]
  /\ UNCHANGED <<connVars, devices, codeVars, paired>>

\* Connections whose deviceID is the target's; it is set only once "up".
DeviceConns(p) == {c \in Conn : pc[c] = "up" /\ phone[c] = p}

DisconnectDevice(r) ==
  /\ rpc[r] = "disconnect"
  /\ severed' = severed \cup DeviceConns(target[r])
  /\ rpc' = [rpc EXCEPT ![r] = "idle"]
  /\ target' = [target EXCEPT ![r] = NoPhone]
  /\ UNCHANGED <<pc, phone, proof, offered, trusting, list, devices, codeVars,
                 paired>>

-----------------------------------------------------------------------------
\* The daemon stops or crashes, and another starts: what it had in memory is gone,
\* handshakes and codes included; devices.json, replaced by renames, is not.
Restart ==
  /\ pc' = [c \in Conn |-> "free"]
  /\ phone' = [c \in Conn |-> NoPhone]
  /\ proof' = [c \in Conn |-> NoCode]
  /\ offered' = [c \in Conn |-> {}]
  /\ trusting' = [c \in Conn |-> "none"]
  /\ severed' = {}
  /\ rpc' = [r \in Revoker |-> IF r \in Outside THEN rpc[r] ELSE "idle"]
  /\ target' = [r \in Revoker |-> IF r \in Outside THEN target[r] ELSE NoPhone]
  /\ list' = [x \in Conn \cup Revoker |-> IF x \in Outside THEN list[x] ELSE {}]
  /\ codes' = {}
  /\ UNCHANGED <<devices, expired, issued, retired, paired>>

-----------------------------------------------------------------------------
Handshake(c) ==
  \/ \E p \in Phone : Hello(c, p)
  \/ Abort(c)
  \/ \E k \in issued \cup {NoCode} : Confirm(c, k)
  \/ IsTrustedRead(c) \/ IsTrustedFails(c) \/ Stamp(c)
  \/ Consume(c) \/ Admit(c)

Session(c) ==
  \/ Name(c) \/ Close(c)
  \/ TrustRead(c) \/ TrustWrite(c) \/ TrustFails(c)

Revocation(r) ==
  \/ \E p \in Phone : RevokeRead(r, p)
  \/ RevokeWrite(r) \/ RevokeFails(r) \/ DisconnectDevice(r)

Next ==
  \/ \E k \in Code : Issue(k) \/ Expire(k)
  \/ \E c \in Conn : Handshake(c) \/ Session(c)
  \/ \E r \in Revoker : Revocation(r)
  \/ Restart

Spec == Init /\ [][Next]_vars

-----------------------------------------------------------------------------
(* What admission promises. *)

EverPaired == {p \in Phone : \E k \in issued : <<p, k>> \in paired}

\* A phone is in the trusted list, in any copy of the list that an operation
\* may still write back, or on an admitted connection, only if it once proved a
\* code this bridge issued (server.go:221-235, Finish in handshake.go).
TrustIsEarned ==
  /\ devices \subseteq EverPaired
  /\ \A x \in Conn \cup Revoker : list[x] \subseteq EverPaired
  /\ \A c \in Conn : pc[c] \in {"stamp", "consume", "trust", "admit", "up"}
                       => phone[c] \in EverPaired

\* How codes move: an outstanding code was issued and has not been retired, and
\* a handshake retires only a code it was offered.
CodesInv ==
  /\ codes \subseteq issued /\ retired \subseteq issued
  /\ codes \cap retired = {}
  /\ \A c \in Conn : /\ offered[c] \subseteq issued
                     /\ pc[c] = "consume" => proof[c] \in offered[c]
                     /\ pc[c] # "free" => phone[c] \in Phone

\* Store.Trust runs only for phones that have paired, a CtlName frame of a
\* connection that is already gone included.
TrustCallsEarned ==
  \A c \in Conn : trusting[c] # "none" => phone[c] \in EverPaired

\* The inductive invariant.
AdmissionInv == TypeOK /\ CodesInv /\ TrustIsEarned /\ TrustCallsEarned

\* The codes a Confirm is checked against were issued and are neither retired
\* nor expired when it arrives, so a pairing that completed before a Confirm
\* arrived leaves nothing to pair with (pairing.go Outstanding and Consume).
OfferedCodesAreLive ==
  [][\A c \in Conn : pc[c] = "hello" /\ pc'[c] = "finish"
        => offered'[c] \subseteq issued \ (retired \cup expired)]_vars

\* The store does not list p, and no operation under way or connection that has
\* been admitted can bring it back.
Forgotten(p) ==
  /\ p \notin devices
  /\ \A x \in Conn \cup Revoker : p \notin list[x]
  /\ \A c \in Conn : phone[c] = p =>
       /\ trusting[c] = "none"
       /\ pc[c] \in {"free", "hello", "finish"}

\* "It must scan a new code to connect again" (cmd/hermes-remote/main.go:471),
\* once every operation that still remembers the phone is over: a forgotten
\* phone is remembered again only by a handshake that proves a code offered to it.
ForgottenNeedsCode ==
  [][\A p \in Phone : Forgotten(p) /\ ~Forgotten(p)' =>
       \E c \in Conn : /\ phone[c] = p
                       /\ pc[c] = "finish" /\ pc'[c] = "consume"
                       /\ proof[c] \in offered[c]]_vars

-----------------------------------------------------------------------------
(* What the comments promise and the interleavings break. *)

\* pairing.go:48: "Consume retires a code after a successful pairing (single
\* use)": no code pairs two phones.
SingleUse ==
  \A a, b \in paired : a[2] = b[2] => a[1] = b[1]

\* main.go:471: "It must scan a new code to connect again": a phone enters the
\* list only through the Trust call of a handshake that proved a code.
OnlyPairingAdds ==
  [][\A p \in devices' \ devices :
       \E c \in Conn : /\ pc[c] = "trust" /\ trusting[c] = "write"
                       /\ trusting'[c] = "none" /\ phone[c] = p]_vars

\* state.go:60: the Store is "Safe for concurrent use": a phone leaves the list
\* only when a Revoke call of that phone writes it.
OnlyRevokeRemoves ==
  [][\A p \in devices \ devices' :
       \E r \in Revoker : /\ rpc[r] = "write" /\ rpc'[r] # "write"
                          /\ target[r] = p]_vars

\* server.go:99: "DisconnectDevice closes every connection from a revoked
\* phone": when it returns, each connection that was admitted for the phone
\* has been closed.
DisconnectClosesAll ==
  [][\A r \in Revoker : DisconnectDevice(r) =>
       \A c \in Conn : pc[c] \in {"admit", "up"} /\ phone[c] = target[r]
                         => c \in severed']_vars

=============================================================================
