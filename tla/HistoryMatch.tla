---------------------------- MODULE HistoryMatch ----------------------------
(***************************************************************************)
(* How a request finds the conversation it continues (app/conversation.py, *)
(* resolve).  A canonical history is a sequence of messages; a message is  *)
(* an atom, compared as a whole, as the frozen dataclass is.               *)
(***************************************************************************)
EXTENDS Integers, SequencesExt

\* The stored history must be a STRICT, non-empty prefix of the incoming one:
\* an equal history is a duplicate re-send, not a continuation.
Continues(incoming, stored) == stored # <<>> /\ IsStrictPrefix(stored, incoming)

Candidates(messages, convs, incoming) ==
  {c \in convs : Continues(incoming, messages[c])}

\* The longest stored prefix wins.
BestMatches(messages, convs, incoming) ==
  LET found == Candidates(messages, convs, incoming)
  IN  {c \in found : \A d \in found : Len(messages[d]) <= Len(messages[c])}

\* Mutant: the last stored message is sent again.
DeltaOneEarly(incoming, known) == SubSeq(incoming, known, Len(incoming))

\* The messages beyond the stored history.
Delta(incoming, known) == SubSeq(incoming, known + 1, Len(incoming))
=============================================================================
