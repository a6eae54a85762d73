----------------------------- MODULE ChatService -----------------------------
(***************************************************************************)
(* What the gateway promises to a client that re-sends its whole history   *)
(* with every request (docs/ARCHITECTURE.md, ADR-020).  The client is      *)
(* never told an answer the gateway does not know; what the gateway knows  *)
(* it may forget, and then the client's own history is enough to go on.    *)
(***************************************************************************)
EXTENDS Integers, Sequences

VARIABLES
  history,  \* the canonical history the client holds
  known     \* the canonical histories the gateway knows

Extends(h, g) == Len(g) < Len(h) /\ SubSeq(h, 1, Len(g)) = g

Init == history = <<>> /\ known = {}

\* A turn is committed: the client's history, what it asked, one answer.
Learn ==
  /\ \E h \in known' :
       /\ Len(h) = Len(history) + 2
       /\ Extends(h, history)
       /\ h[Len(h)].role = "assistant"
       /\ known' \subseteq known \union {h}
  /\ UNCHANGED history

\* The answer is complete at the client.
Tell ==
  /\ history' \in known
  /\ Extends(history', history)
  /\ known' \subseteq known

\* Eviction, and a restart of the gateway.
Forget == known' \subseteq known /\ UNCHANGED history

Next == Learn \/ Tell \/ Forget

Spec == Init /\ [][Next]_<<history, known>>
=============================================================================
