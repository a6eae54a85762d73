--------------------------- MODULE EnvelopeParser ---------------------------
(***************************************************************************)
(* The incremental control-envelope parser (app/tool_envelope.py): it is   *)
(* fed the model's text in increments that may split a sentinel anywhere,  *)
(* and gives out the text a client may see and at most one tool call.      *)
(*                                                                         *)
(* Text is a sequence of characters.  Sentinels and call bodies are        *)
(* constants: the real sentinels share a prefix, and so should the model's. *)
(* feed() runs a loop; each turn of the loop is an action here, and the    *)
(* next increment waits until the loop has ended.                          *)
(***************************************************************************)
EXTENDS Integers, SequencesExt

CONSTANTS
  Chars,        \* the alphabet
  Start, End,   \* the sentinels
  Bodies,       \* the region contents that _validate accepts
  MaxText,      \* bound: the length of a model turn
  MaxChunk,     \* bound: the length of an increment
  NoCall        \* None

ASSUME ParserAssumption ==
  /\ Start \in Seq(Chars) /\ End \in Seq(Chars)
  /\ Start # <<>> /\ End # <<>>
  /\ Bodies \subseteq Seq(Chars)
  /\ NoCall \notin Bodies
  /\ MaxText \in Nat /\ MaxChunk \in Nat

VARIABLES
  pc,           \* "ready" for an increment, in the "loop", or "final"
  text,         \* all that was fed
  pending,      \* _pending
  inEnvelope,   \* _in_envelope
  call,         \* emitted_call; _done is whether there is one
  invalid,      \* invalid_envelope_seen
  output        \* the text given out

vars == <<pc, text, pending, inEnvelope, call, invalid, output>>

TypeOK ==
  /\ pc \in {"ready", "loop", "final"}
  /\ text \in Seq(Chars) /\ pending \in Seq(Chars) /\ output \in Seq(Chars)
  /\ inEnvelope \in BOOLEAN /\ invalid \in BOOLEAN
  /\ call \in Bodies \union {NoCall}

Init ==
  /\ pc = "ready"
  /\ text = <<>> /\ pending = <<>> /\ output = <<>>
  /\ inEnvelope = FALSE /\ invalid = FALSE
  /\ call = NoCall

-----------------------------------------------------------------------------
(* Searching.                                                              *)

Take(s, n) == SubSeq(s, 1, n)
Drop(s, n) == SubSeq(s, n + 1, Len(s))

OccursAt(s, i, word) ==
  /\ i + Len(word) <= Len(s)
  /\ SubSeq(s, i + 1, i + Len(word)) = word

\* How many characters stand before an occurrence.
Offsets(s, word) == {i \in 0..Len(s) : OccursAt(s, i, word)}

Occurs(s, word) == Offsets(s, word) # {}

\* str.find, where it does not return -1.
Find(s, word) == Min(Offsets(s, word))

\* Mutant: only the last character is held back.
HoldOne(s) == IF s # <<>> /\ s[Len(s)] = Start[1] THEN 1 ELSE 0

\* _candidate_prefix_len: the longest end of s that could grow into Start.
CandidatePrefixLen(s) ==
  Max({k \in 0..(Len(Start) - 1) : IsSuffix(Take(Start, k), s)})

-----------------------------------------------------------------------------
(* feed.                                                                   *)

Feed ==
  /\ pc = "ready" /\ call = NoCall
  /\ \E n \in 1..MaxChunk : \E chunk \in [1..n -> Chars] :
       /\ Len(text) + n <= MaxText
       /\ text' = text \o chunk
       /\ pending' = pending \o chunk
  /\ pc' = "loop"
  /\ UNCHANGED <<inEnvelope, call, invalid, output>>

\* After a valid envelope nothing counts any more.
FeedDone ==
  /\ pc = "ready" /\ call # NoCall
  /\ \E c \in Chars : text' = Append(text, c)
  /\ Len(text) < MaxText
  /\ UNCHANGED <<pc, pending, inEnvelope, call, invalid, output>>

LoopEnds ==
  /\ pc = "loop" /\ pending = <<>>
  /\ pc' = "ready"
  /\ UNCHANGED <<text, pending, inEnvelope, call, invalid, output>>

\* Still no end sentinel: the region is kept back.
Accumulate ==
  /\ pc = "loop" /\ pending # <<>> /\ inEnvelope
  /\ ~Occurs(pending, End)
  /\ pc' = "ready"
  /\ UNCHANGED <<text, pending, inEnvelope, call, invalid, output>>

\* Mutant: every complete region is taken for a call.
CloseUnvalidated ==
  LET at == Find(pending, End) IN
  /\ pc = "loop" /\ pending # <<>> /\ inEnvelope
  /\ Occurs(pending, End)
  /\ call' = Take(pending, at)
  /\ pending' = <<>> /\ inEnvelope' = FALSE
  /\ pc' = "ready"
  /\ UNCHANGED <<text, invalid, output>>

\* The region is complete: a call, which ends the parser's work, or text,
\* given out raw, after which the rest is scanned.
Close ==
  LET at   == Find(pending, End)
      body == Take(pending, at)
      rest == Drop(pending, at + Len(End))
  IN
  /\ pc = "loop" /\ pending # <<>> /\ inEnvelope
  /\ Occurs(pending, End)
  /\ inEnvelope' = FALSE
  /\ IF body \in Bodies
       THEN /\ call' = body
            /\ pending' = <<>>
            /\ pc' = "ready"
            /\ UNCHANGED <<invalid, output>>
       ELSE /\ invalid' = TRUE
            /\ output' = output \o Start \o body \o End
            /\ pending' = rest
            /\ UNCHANGED <<pc, call>>
  /\ UNCHANGED text

\* Mutant: the start sentinel is given out as it is seen.
OpenLoud ==
  LET at == Find(pending, Start) IN
  /\ pc = "loop" /\ pending # <<>> /\ ~inEnvelope
  /\ Occurs(pending, Start)
  /\ output' = output \o Take(pending, at + Len(Start))
  /\ pending' = Drop(pending, at + Len(Start))
  /\ inEnvelope' = TRUE
  /\ UNCHANGED <<pc, text, call, invalid>>

\* A region begins; what stands before it is visible.
Open ==
  LET at == Find(pending, Start) IN
  /\ pc = "loop" /\ pending # <<>> /\ ~inEnvelope
  /\ Occurs(pending, Start)
  /\ output' = output \o Take(pending, at)
  /\ pending' = Drop(pending, at + Len(Start))
  /\ inEnvelope' = TRUE
  /\ UNCHANGED <<pc, text, call, invalid>>

\* Plain text is visible, up to what may yet become a sentinel.
Emit ==
  LET visible == Len(pending) - CandidatePrefixLen(pending) IN
  /\ pc = "loop" /\ pending # <<>> /\ ~inEnvelope
  /\ ~Occurs(pending, Start)
  /\ output' = output \o Take(pending, visible)
  /\ pending' = Drop(pending, visible)
  /\ pc' = "ready"
  /\ UNCHANGED <<text, inEnvelope, call, invalid>>

\* Mutant: an unfinished region is dropped.
FinalizeDropping ==
  /\ pc = "ready"
  /\ pc' = "final"
  /\ output' = IF inEnvelope THEN output ELSE output \o pending
  /\ invalid' = (invalid \/ inEnvelope)
  /\ pending' = <<>> /\ inEnvelope' = FALSE
  /\ UNCHANGED <<text, call>>

\* The stream has ended: what is held back is flushed, with its sentinel.
Finalize ==
  /\ pc = "ready"
  /\ pc' = "final"
  /\ output' = IF inEnvelope THEN output \o Start \o pending ELSE output \o pending
  /\ invalid' = (invalid \/ inEnvelope)
  /\ pending' = <<>> /\ inEnvelope' = FALSE
  /\ UNCHANGED <<text, call>>

Next ==
  \/ Feed \/ FeedDone \/ LoopEnds \/ Accumulate \/ Close \/ Open \/ Emit
  \/ Finalize

Spec == Init /\ [][Next]_vars

-----------------------------------------------------------------------------
(* Properties.                                                             *)

\* What the parser still holds of the text, as the model wrote it.
Held == IF inEnvelope THEN Start \o pending ELSE pending

\* Model output is never silently dropped, doubled or reordered: until there
\* is a call, what was given out and what is held make up exactly the text
\* that was fed (tool_envelope.py 196-222, 224-241).
Lossless == call = NoCall => output \o Held = text

\* "Envelope content is NEVER partially streamed as assistant text"
\* (tool_envelope.py 23-24): with a call, the text is what was given out,
\* then the whole envelope, then what is discarded.
EnvelopeHidden ==
  call # NoCall =>
    LET envelope == output \o Start \o call \o End
    IN  Len(envelope) <= Len(text) /\ Take(text, Len(envelope)) = envelope

\* What the client may see, the call and the repair flag.
Outcome(visible, made, bad) == [visible |-> visible, call |-> made, invalid |-> bad]

\* A parser that sees the whole text at once, region by region.
Parsed[s \in Seq(Chars)] ==
  IF ~Occurs(s, Start) THEN Outcome(s, NoCall, FALSE)
  ELSE LET before == Take(s, Find(s, Start))
           after  == Drop(s, Find(s, Start) + Len(Start))
           body   == Take(after, Find(after, End))
           rest   == Parsed[Drop(after, Find(after, End) + Len(End))]
       IN  IF ~Occurs(after, End) THEN Outcome(s, NoCall, TRUE)
           ELSE IF body \in Bodies THEN Outcome(before, body, FALSE)
           ELSE Outcome(before \o Start \o body \o End \o rest.visible, rest.call, TRUE)

\* tool_envelope.py 268-272 gives the one-shot parser "the same semantics as
\* the incremental parser": however the model's text is cut, text, call and
\* the repair flag come out as if it had come in one piece.
CutsDoNotMatter ==
  pc = "final" => Outcome(output, call, invalid) = Parsed[text]
=============================================================================
