----------------------------- MODULE PhonePipe -----------------------------
(***************************************************************************)
(* What the relay transport promises: every channel the relay opens is     *)
(* "a phone connection served by the bridge exactly like a direct one"     *)
(* (internal/bridge/relay_client.go:18-20).  For each phone connection,    *)
(* two pipes, one each way: the receiver gets the sender's own messages,   *)
(* in the order they were sent, none skipped and none twice, up to some    *)
(* point where the connection breaks.  The bridge serves a phone at most   *)
(* once and takes nothing more from it when it has ended the link.         *)
(***************************************************************************)
EXTENDS Naturals, Sequences

CONSTANT Phone

VARIABLES
  link,     \* [Phone -> "none" | "run" | "ended"]: serveLink of the phone
  sentUp,   \* [Phone -> Nat]: messages the phone has sent
  gotUp,    \* [Phone -> Seq(<<Phone, Nat>>)]: messages the bridge took from it
  sentDown, \* [Phone -> Nat]: messages the bridge has sent
  gotDown   \* [Phone -> Seq(<<Phone, Nat>>)]: messages the phone was handed

pipeVars == <<link, sentUp, gotUp, sentDown, gotDown>>

Init ==
  /\ link = [p \in Phone |-> "none"]
  /\ sentUp = [p \in Phone |-> 0] /\ sentDown = [p \in Phone |-> 0]
  /\ gotUp = [p \in Phone |-> <<>>] /\ gotDown = [p \in Phone |-> <<>>]

Serve(p) ==
  /\ link[p] = "none"
  /\ link' = [link EXCEPT ![p] = "run"]
  /\ UNCHANGED <<sentUp, gotUp, sentDown, gotDown>>

\* A crash of the bridge ends all its links at once.
End(P) ==
  /\ \A p \in P : link[p] = "run"
  /\ link' = [p \in Phone |-> IF p \in P THEN "ended" ELSE link[p]]
  /\ UNCHANGED <<sentUp, gotUp, sentDown, gotDown>>

PhoneSends(p) ==
  /\ sentUp' = [sentUp EXCEPT ![p] = @ + 1]
  /\ UNCHANGED <<link, gotUp, sentDown, gotDown>>

BridgeTakes(p) ==
  /\ link[p] = "run" /\ Len(gotUp[p]) < sentUp[p]
  /\ gotUp' = [gotUp EXCEPT ![p] = Append(@, <<p, Len(@) + 1>>)]
  /\ UNCHANGED <<link, sentUp, sentDown, gotDown>>

BridgeSends(p) ==
  /\ link[p] = "run"
  /\ sentDown' = [sentDown EXCEPT ![p] = @ + 1]
  /\ UNCHANGED <<link, sentUp, gotUp, gotDown>>

PhoneTakes(p) ==
  /\ Len(gotDown[p]) < sentDown[p]
  /\ gotDown' = [gotDown EXCEPT ![p] = Append(@, <<p, Len(@) + 1>>)]
  /\ UNCHANGED <<link, sentUp, gotUp, sentDown>>

Next ==
  \/ \E p \in Phone : \/ Serve(p) \/ PhoneSends(p) \/ BridgeTakes(p)
                      \/ BridgeSends(p) \/ PhoneTakes(p)
  \/ \E P \in SUBSET Phone : End(P)

Spec == Init /\ [][Next]_pipeVars

=============================================================================
