------------------------ MODULE EnvelopeParserProofs ------------------------
(***************************************************************************)
(* Proofs about EnvelopeParser, for every alphabet, every pair of          *)
(* sentinels, every set of valid bodies and every way to cut a text.       *)
(***************************************************************************)
EXTENDS EnvelopeParser, LeastElement, SequenceTheorems

Text == Seq(Chars)

\* A text is its beginning and the rest.
LEMMA TakeDrop ==
  ASSUME NEW s \in Text, NEW n \in 0..Len(s)
  PROVE  /\ Take(s, n) \in Text /\ Drop(s, n) \in Text
         /\ Len(Take(s, n)) = n
         /\ Take(s, n) \o Drop(s, n) = s
<1>0. Len(s) \in Nat /\ \A i \in 1..Len(s) : s[i] \in Chars
  BY LenProperties, ElementOfSeq DEF Text
<1>1. Take(s, n) \in Text /\ Len(Take(s, n)) = n
  <2>1. 1 \in Int /\ n \in Int /\ \A i \in 1..n : s[i] \in Chars
    BY <1>0
  <2> QED
    BY <1>0, <2>1, SubSeqProperties DEF Take, Text
<1>2. Drop(s, n) \in Text
  <2>1. n + 1 \in Int /\ Len(s) \in Int /\ \A i \in (n + 1)..Len(s) : s[i] \in Chars
    BY <1>0
  <2> QED
    BY <2>1, SubSeqProperties DEF Drop, Text
<1>3. Take(s, n) \o Drop(s, n) = s
  <2>1. 1 \in 1..(Len(s) + 1) /\ n \in (1 - 1)..Len(s) /\ Len(s) \in n..Len(s)
    BY <1>0
  <2>2. SubSeq(s, 1, n) \o SubSeq(s, n + 1, Len(s)) = SubSeq(s, 1, Len(s))
    BY <2>1, ConcatAdjacentSubSeq DEF Text
  <2> QED
    BY <2>2, SubSeqFull DEF Take, Drop, Text
<1> QED
  BY <1>1, <1>2, <1>3

\* Concatenation under a name, which the provers leave alone: the lemmas below
\* are all that is used of it.
Join(s, t) == s \o t

LEMMA Joined == \A s, t \in Text : Join(s, t) \in Text
  BY ConcatProperties DEF Text, Join

LEMMA Regroup == \A s, t, u \in Text : Join(Join(s, t), u) = Join(s, Join(t, u))
  BY ConcatAssociative DEF Text, Join

LEMMA FromLeft ==
  \A s, t, u, v, w \in Text :
     Join(Join(Join(Join(s, t), u), v), w) = Join(s, Join(t, Join(u, Join(v, w))))
<1> TAKE s, t, u, v, w \in Text
<1>1. Join(s, t) \in Text /\ Join(Join(s, t), u) \in Text
      /\ Join(v, w) \in Text /\ Join(u, Join(v, w)) \in Text
  BY Joined
<1>2. Join(Join(Join(Join(s, t), u), v), w) = Join(Join(Join(s, t), u), Join(v, w))
  BY <1>1, Regroup
<1>3. Join(Join(Join(s, t), u), Join(v, w)) = Join(Join(s, t), Join(u, Join(v, w)))
  BY <1>1, Regroup
<1>4. Join(Join(s, t), Join(u, Join(v, w))) = Join(s, Join(t, Join(u, Join(v, w))))
  BY <1>1, Regroup
<1> QED
  BY <1>2, <1>3, <1>4

LEMMA JoinEmpty == \A s \in Text : Join(s, <<>>) = s /\ Join(<<>>, s) = s
  BY ConcatEmptySeq DEF Text, Join

LEMMA Sentinels ==
  /\ Start \in Text /\ End \in Text /\ <<>> \in Text
  /\ \A body \in Bodies : body \in Text /\ body # NoCall
  BY ParserAssumption, EmptySeq DEF Text

\* Where a word is found, the text is what stands before it, the word, and
\* the rest.
LEMMA Found ==
  ASSUME NEW s \in Text, NEW word \in Text, Occurs(s, word)
  PROVE  LET at == Find(s, word)
         IN  /\ at \in 0..Len(s) /\ at + Len(word) \in 0..Len(s)
             /\ s = Join(Take(s, at), Join(word, Drop(s, at + Len(word))))
<1> DEFINE at == Find(s, word)
<1>1. Len(s) \in Nat /\ Len(word) \in Nat
  BY LenProperties DEF Text
<1>2. at \in Offsets(s, word)
  <2>1. Offsets(s, word) \subseteq Nat /\ Offsets(s, word) # {}
    BY <1>1 DEF Offsets, Occurs
  <2> HIDE DEF at
  <2>2. \E m \in Offsets(s, word) : \A n \in Offsets(s, word) : m <= n
    BY <2>1, LeastNatural
  <2>3. at = CHOOSE m \in Offsets(s, word) : \A n \in Offsets(s, word) : m <= n
    BY Zenon DEF at, Find, Min
  <2> QED
    BY <2>2, <2>3
<1> HIDE DEF at
<1>3. at \in 0..Len(s) /\ at + Len(word) <= Len(s)
      /\ SubSeq(s, at + 1, at + Len(word)) = word
  BY <1>2 DEF Offsets, OccursAt
<1>4. at + Len(word) \in 0..Len(s)
  BY <1>1, <1>3
<1>5. word \o Drop(s, at + Len(word)) = Drop(s, at)
  <2>1. at + 1 \in 1..(Len(s) + 1) /\ at + Len(word) \in ((at + 1) - 1)..Len(s)
        /\ Len(s) \in (at + Len(word))..Len(s)
    BY <1>1, <1>3, <1>4
  <2>2. SubSeq(s, at + 1, at + Len(word)) \o SubSeq(s, at + Len(word) + 1, Len(s))
          = SubSeq(s, at + 1, Len(s))
    BY <2>1, ConcatAdjacentSubSeq DEF Text
  <2> QED
    BY <1>3, <2>2 DEF Drop
<1>6. s = Take(s, at) \o Drop(s, at)
  BY <1>3, TakeDrop
<1> QED
  BY <1>3, <1>4, <1>5, <1>6 DEF at, Join

LEMMA Reversed ==
  ASSUME NEW t \in Text
  PROVE  /\ Reverse(t) \in Text /\ Len(Reverse(t)) = Len(t)
         /\ \A i \in 1..Len(t) : Reverse(t)[i] = t[(Len(t) - i) + 1]
<1>1. Len(t) \in Nat /\ \A i \in 1..Len(t) : t[i] \in Chars
  BY LenProperties, ElementOfSeq DEF Text
<1>2. \A i \in 1..Len(t) : (Len(t) - i) + 1 \in 1..Len(t)
  BY <1>1
<1>3. Reverse(t) \in [1..Len(t) -> Chars]
      /\ \A i \in 1..Len(t) : Reverse(t)[i] = t[(Len(t) - i) + 1]
  BY <1>1, <1>2 DEF Reverse
<1>4. Reverse(t) \in Text
  BY <1>1, <1>3, SeqDef DEF Text
<1>5. DOMAIN Reverse(t) = 1..Len(t) /\ DOMAIN Reverse(t) = 1..Len(Reverse(t))
      /\ Len(Reverse(t)) \in Nat
  BY <1>3, <1>4, LenProperties DEF Text
<1> QED
  BY <1>1, <1>3, <1>4, <1>5

\* What is held back is never more than there is, less than a sentinel, and
\* the most that could grow into one.
LEMMA HeldBack ==
  ASSUME NEW s \in Text
  PROVE  /\ Len(s) - CandidatePrefixLen(s) \in 0..Len(s)
         /\ CandidatePrefixLen(s) \in 0..(Len(Start) - 1)
         /\ \A k \in 0..(Len(Start) - 1) :
              IsSuffix(Take(Start, k), s) => k <= CandidatePrefixLen(s)
<1> DEFINE K == {k \in 0..(Len(Start) - 1) : IsSuffix(Take(Start, k), s)}
           c == CandidatePrefixLen(s)
<1>1. Start \in Text /\ Len(Start) \in Nat \ {0} /\ Len(s) \in Nat
  BY ParserAssumption, EmptySeq, LenProperties DEF Text
<1>2. \A t \in Text : Reverse(t) \in Text /\ Len(Reverse(t)) = Len(t)
  BY Reversed
<1>3. \A k \in K : k <= Len(s)
  <2> TAKE k \in K
  <2>1. k \in 0..Len(Start) /\ IsSuffix(Take(Start, k), s)
    BY <1>1
  <2>2. Take(Start, k) \in Text /\ Len(Take(Start, k)) = k
    BY <1>1, <2>1, TakeDrop
  <2>3. Len(Reverse(Take(Start, k))) <= Len(Reverse(s))
    BY <2>1 DEF IsSuffix, IsPrefix
  <2> QED
    BY <1>2, <2>2, <2>3
<1>4. 0 \in K
  <2>1. Take(Start, 0) = <<>>
    BY SubSeqEmpty DEF Take
  <2>2. Reverse(<<>>) \in Text /\ Len(Reverse(<<>>)) = 0 /\ Reverse(s) \in Text
    BY <1>2, EmptySeq DEF Text
  <2>3. SubSeq(Reverse(<<>>), 1, 0) = <<>> /\ SubSeq(Reverse(s), 1, 0) = <<>>
    BY SubSeqEmpty
  <2>4. IsPrefix(Reverse(<<>>), Reverse(s))
    BY <1>1, <1>2, <2>2, <2>3 DEF IsPrefix
  <2> QED
    BY <1>1, <2>1, <2>4 DEF IsSuffix
<1>5. K \subseteq 0..(Len(Start) - 1) /\ Len(Start) - 1 \in Nat
  BY <1>1
<1>6. c = CHOOSE k \in K : \A l \in K : k >= l
  BY Zenon DEF CandidatePrefixLen, Max
<1> HIDE DEF K, c
<1>7. \E k \in K : \A l \in K : k >= l
  BY <1>4, <1>5, GreatestNatural
<1>8. c \in K /\ \A l \in K : c >= l
  BY <1>6, <1>7
<1>9. c \in Nat /\ c <= Len(s) /\ c \in 0..(Len(Start) - 1)
  BY <1>3, <1>5, <1>8
<1>10. Len(s) - c \in 0..Len(s)
  BY <1>1, <1>9
<1>11. ASSUME NEW k \in 0..(Len(Start) - 1), IsSuffix(Take(Start, k), s) PROVE k <= c
  <2>1. k \in K
    BY <1>11 DEF K
  <2> QED
    BY <1>1, <1>8, <1>9, <2>1
<1> QED
  BY <1>9, <1>10, <1>11 DEF c

\* What an envelope leaves of the text.
Envelope == Join(output, Join(Start, Join(call, End)))

\* With a call the text is the envelope, after what was given out, and what
\* nobody reads; nothing is held any more.
Consumed ==
  call # NoCall =>
    /\ pc # "loop" /\ pending = <<>> /\ ~inEnvelope
    /\ \E rest \in Text : text = Join(Envelope, rest)

IInv == TypeOK /\ Lossless /\ Consumed

\* Before a call, the text is what was given out and what is held.
LEMMA Split ==
  ASSUME TypeOK
  PROVE  /\ text \in Text /\ pending \in Text /\ output \in Text /\ Held \in Text
         /\ Held = IF inEnvelope THEN Join(Start, pending) ELSE pending
         /\ Lossless <=> (call = NoCall => text = Join(output, Held))
<1>1. text \in Text /\ pending \in Text /\ output \in Text
  BY DEF TypeOK, Text
<1>2. Held = IF inEnvelope THEN Join(Start, pending) ELSE pending
  BY DEF Held, Join
<1>3. Held \in Text
  BY <1>1, <1>2, Sentinels, Joined
<1>4. Lossless <=> (call = NoCall => text = Join(output, Held))
  BY DEF Lossless, Join
<1> QED
  BY <1>1, <1>2, <1>3, <1>4

\* The same of the next state.
LEMMA SplitNext ==
  ASSUME TypeOK'
  PROVE  /\ Held' = IF inEnvelope' THEN Join(Start, pending') ELSE pending'
         /\ Lossless' <=> (call' = NoCall => text' = Join(output', Held'))
  BY DEF Held, Lossless, Join

\* An increment is added to what is fed and to what is held alike.
LEMMA FeedStep ==
  ASSUME IInv, Feed
  PROVE  IInv'
<1>1. PICK n \in 1..MaxChunk : \E c \in [1..n -> Chars] :
        text' = text \o c /\ pending' = pending \o c
  BY DEF Feed
<1>2. PICK chunk \in Text : text' = Join(text, chunk) /\ pending' = Join(pending, chunk)
  <2>1. n \in Nat
    BY ParserAssumption
  <2>2. PICK c \in [1..n -> Chars] : text' = text \o c /\ pending' = pending \o c
    BY <1>1
  <2>3. c \in Text
    BY <2>1, SeqDef DEF Text
  <2> QED
    BY <2>2, <2>3 DEF Join
<1>3. /\ pc' = "loop" /\ call = NoCall
      /\ inEnvelope' = inEnvelope /\ call' = call /\ invalid' = invalid /\ output' = output
  BY DEF Feed
<1>4. /\ text \in Text /\ pending \in Text /\ output \in Text /\ Held \in Text
      /\ Held = IF inEnvelope THEN Join(Start, pending) ELSE pending
      /\ text = Join(output, Held)
  BY <1>3, Split DEF IInv
<1>5. TypeOK'
  <2>1. text' \in Text /\ pending' \in Text
    BY <1>2, <1>4, Joined
  <2> QED
    BY <1>3, <2>1 DEF IInv, TypeOK, Text
<1>6. Held' = Join(Held, chunk)
  <2>1. Held' = IF inEnvelope' THEN Join(Start, pending') ELSE pending'
    BY <1>5, SplitNext
  <2> QED
    BY <1>2, <1>3, <1>4, <2>1, Sentinels, Regroup
<1>7. text' = Join(output', Held')
  BY <1>2, <1>3, <1>4, <1>6, Regroup
<1>8. Lossless'
  BY <1>5, <1>7, SplitNext
<1> QED
  BY <1>3, <1>5, <1>8 DEF IInv, Consumed

\* What follows the envelope is discarded.
LEMMA FeedDoneStep ==
  ASSUME IInv, FeedDone
  PROVE  IInv'
<1>1. PICK c \in Chars : text' = Append(text, c)
  BY DEF FeedDone
<1>2. /\ call # NoCall /\ pc' = pc /\ pending' = pending /\ inEnvelope' = inEnvelope
      /\ call' = call /\ invalid' = invalid /\ output' = output
  BY DEF FeedDone
<1>3. PICK rest \in Text : text = Join(Envelope, rest)
  BY <1>2 DEF IInv, Consumed
<1>4. Envelope \in Text
  <2>1. output \in Text /\ call \in Text
    BY <1>2, Sentinels DEF IInv, TypeOK, Text
  <2> QED
    BY <2>1, Sentinels, Joined DEF Envelope
<1>5. PICK last \in Text : text' = Join(text, last)
  <2>1. <<c>> \in Text /\ text \in Text
    BY DEF Text, IInv, TypeOK
  <2>2. text' = text \o <<c>>
    BY <1>1, <2>1, AppendIsConcat DEF Text
  <2> QED
    BY <2>1, <2>2 DEF Join
<1>6. text' = Join(Envelope, Join(rest, last)) /\ Join(rest, last) \in Text /\ text' \in Text
  BY <1>3, <1>4, <1>5, Joined, Regroup
<1>7. Envelope' = Envelope
  BY <1>2 DEF Envelope
<1>8. TypeOK'
  BY <1>2, <1>6 DEF IInv, TypeOK, Text
<1>9. Consumed'
  BY <1>2, <1>6, <1>7 DEF IInv, Consumed
<1> QED
  BY <1>2, <1>8, <1>9 DEF IInv, Lossless

\* A region that is complete becomes a call or goes out raw.
LEMMA CloseStep ==
  ASSUME IInv, Close
  PROVE  IInv'
<1>1. /\ pc = "loop" /\ inEnvelope /\ Occurs(pending, End)
      /\ text' = text /\ inEnvelope' = FALSE
  BY DEF Close
<1>2. call = NoCall
  BY <1>1 DEF IInv, Consumed
<1>3. /\ text \in Text /\ pending \in Text /\ output \in Text
      /\ text = Join(output, Join(Start, pending))
  BY <1>1, <1>2, Split DEF IInv
<1>4. PICK body \in Text, rest \in Text :
        /\ pending = Join(body, Join(End, rest))
        /\ \/ /\ body \in Bodies /\ call' = body /\ pending' = <<>> /\ pc' = "ready"
              /\ invalid' = invalid /\ output' = output
           \/ /\ invalid' = TRUE /\ pending' = rest /\ pc' = pc /\ call' = call
              /\ output' = Join(Join(Join(output, Start), body), End)
  <2> DEFINE at == Find(pending, End)
             b  == Take(pending, at)
             r  == Drop(pending, at + Len(End))
  <2>1. pending = Join(b, Join(End, r)) /\ b \in Text /\ r \in Text
    BY <1>1, <1>3, Sentinels, Found, TakeDrop
  <2>2. \/ /\ b \in Bodies /\ call' = b /\ pending' = <<>> /\ pc' = "ready"
           /\ invalid' = invalid /\ output' = output
        \/ /\ invalid' = TRUE /\ pending' = r /\ pc' = pc /\ call' = call
           /\ output' = Join(Join(Join(output, Start), b), End)
    BY DEF Close, Join
  <2> HIDE DEF b, r
  <2> QED
    BY <2>1, <2>2
<1>5. CASE /\ body \in Bodies /\ call' = body /\ pending' = <<>> /\ pc' = "ready"
           /\ invalid' = invalid /\ output' = output
  <2>1. call' # NoCall
    BY <1>5, Sentinels
  <2>2. Envelope' = Join(output, Join(Start, Join(body, End)))
    BY <1>5 DEF Envelope
  <2>3. text = Join(Envelope', rest)
    BY <1>3, <1>4, <2>2, Sentinels, Joined, Regroup
  <2>4. TypeOK'
    BY <1>1, <1>3, <1>5, Sentinels DEF IInv, TypeOK, Text
  <2>5. Consumed'
    BY <1>1, <1>5, <2>3 DEF Consumed
  <2> QED
    BY <2>1, <2>4, <2>5 DEF IInv, Lossless
<1>6. CASE /\ invalid' = TRUE /\ pending' = rest /\ pc' = pc /\ call' = call
           /\ output' = Join(Join(Join(output, Start), body), End)
  <2>1. output' \in Text
    BY <1>3, <1>6, Sentinels, Joined
  <2>2. Join(output', rest) = text
    <3>1. text = Join(output, Join(Start, Join(body, Join(End, rest))))
      BY <1>3, <1>4
    <3> QED
      BY <1>3, <1>6, <3>1, Sentinels, FromLeft
  <2>3. TypeOK'
    BY <1>1, <1>3, <1>6, <2>1 DEF IInv, TypeOK, Text
  <2>4. Held' = rest
    BY <1>1, <1>6, <2>3, SplitNext
  <2>5. Lossless'
    BY <1>1, <2>2, <2>3, <2>4, SplitNext
  <2> QED
    BY <1>2, <1>6, <2>3, <2>5 DEF IInv, Consumed
<1> QED
  BY <1>4, <1>5, <1>6

\* What stands before a region is visible, the sentinel is not.
LEMMA OpenStep ==
  ASSUME IInv, Open
  PROVE  IInv'
<1>1. /\ pc = "loop" /\ ~inEnvelope /\ Occurs(pending, Start)
      /\ text' = text /\ inEnvelope' = TRUE
      /\ pc' = pc /\ call' = call /\ invalid' = invalid
  BY DEF Open
<1>2. call = NoCall
  BY <1>1 DEF IInv, Consumed
<1>3. /\ text \in Text /\ pending \in Text /\ output \in Text
      /\ text = Join(output, pending)
  BY <1>1, <1>2, Split DEF IInv
<1>4. PICK before \in Text, rest \in Text :
        /\ pending = Join(before, Join(Start, rest))
        /\ output' = Join(output, before) /\ pending' = rest
  <2> DEFINE at == Find(pending, Start)
             b  == Take(pending, at)
             r  == Drop(pending, at + Len(Start))
  <2>1. pending = Join(b, Join(Start, r)) /\ b \in Text /\ r \in Text
    BY <1>1, <1>3, Sentinels, Found, TakeDrop
  <2>2. output' = Join(output, b) /\ pending' = r
    BY DEF Open, Join
  <2> HIDE DEF b, r
  <2> QED
    BY <2>1, <2>2
<1>5. TypeOK'
  <2>1. output' \in Text
    BY <1>3, <1>4, Joined
  <2> QED
    BY <1>1, <1>3, <1>4, <2>1 DEF IInv, TypeOK, Text
<1>6. Held' = Join(Start, rest)
  BY <1>1, <1>4, <1>5, SplitNext
<1>7. text' = Join(output', Held')
  BY <1>1, <1>3, <1>4, <1>6, Sentinels, Joined, Regroup
<1>8. Lossless'
  BY <1>5, <1>7, SplitNext
<1> QED
  BY <1>1, <1>2, <1>5, <1>8 DEF IInv, Consumed

\* What may yet become a sentinel is held, the rest is visible.
LEMMA EmitStep ==
  ASSUME IInv, Emit
  PROVE  IInv'
<1>1. /\ pc = "loop" /\ ~inEnvelope
      /\ text' = text /\ inEnvelope' = inEnvelope
      /\ pc' = "ready" /\ call' = call /\ invalid' = invalid
  BY DEF Emit
<1>2. call = NoCall
  BY <1>1 DEF IInv, Consumed
<1>3. /\ text \in Text /\ pending \in Text /\ output \in Text
      /\ text = Join(output, pending)
  BY <1>1, <1>2, Split DEF IInv
<1>4. PICK shown \in Text, rest \in Text :
        /\ pending = Join(shown, rest)
        /\ output' = Join(output, shown) /\ pending' = rest
  <2> DEFINE visible == Len(pending) - CandidatePrefixLen(pending)
             b == Take(pending, visible)
             r == Drop(pending, visible)
  <2>1. visible \in 0..Len(pending)
    BY <1>3, HeldBack
  <2>2. output' = Join(output, b) /\ pending' = r
    BY DEF Emit, Join
  <2> HIDE DEF visible
  <2>3. pending = Join(b, r) /\ b \in Text /\ r \in Text
    BY <1>3, <2>1, TakeDrop DEF Join
  <2> HIDE DEF b, r
  <2> QED
    BY <2>2, <2>3
<1>5. TypeOK'
  <2>1. output' \in Text
    BY <1>3, <1>4, Joined
  <2> QED
    BY <1>1, <1>3, <1>4, <2>1 DEF IInv, TypeOK, Text
<1>6. Held' = rest
  BY <1>1, <1>4, <1>5, SplitNext
<1>7. text' = Join(output', Held')
  BY <1>1, <1>3, <1>4, <1>6, Regroup
<1>8. Lossless'
  BY <1>5, <1>7, SplitNext
<1> QED
  BY <1>1, <1>2, <1>5, <1>8 DEF IInv, Consumed

\* What is held at the end goes out, with its sentinel.
LEMMA FinalizeStep ==
  ASSUME IInv, Finalize
  PROVE  IInv'
<1>1. /\ text' = text /\ call' = call /\ pc' = "final" /\ pending' = <<>>
      /\ inEnvelope' = FALSE /\ invalid' = (invalid \/ inEnvelope)
  BY DEF Finalize
<1>2. /\ text \in Text /\ pending \in Text /\ output \in Text /\ Held \in Text
      /\ Held = IF inEnvelope THEN Join(Start, pending) ELSE pending
  BY Split DEF IInv
<1>3. output' = Join(output, Held)
  <2>1. CASE inEnvelope
    <3>1. output' = Join(Join(output, Start), pending)
      BY <2>1 DEF Finalize, Join
    <3> QED
      BY <1>2, <2>1, <3>1, Sentinels, Regroup
  <2>2. CASE ~inEnvelope
    BY <1>2, <2>2 DEF Finalize, Join
  <2> QED
    BY <2>1, <2>2
<1>4. output' \in Text
  BY <1>2, <1>3, Joined
<1>5. TypeOK'
  <2>1. invalid' \in BOOLEAN
    BY <1>1
  <2> QED
    BY <1>1, <1>2, <1>4, <2>1, Sentinels DEF IInv, TypeOK, Text
<1>6. Held' = <<>>
  BY <1>1, <1>5, SplitNext
<1>7. Lossless'
  <2>1. call = NoCall => text = Join(output, Held)
    BY Split DEF IInv
  <2>2. Join(output', Held') = output'
    BY <1>4, <1>6, JoinEmpty
  <2> QED
    BY <1>1, <1>3, <1>5, <2>1, <2>2, SplitNext
<1>8. Consumed'
  <2>1. call # NoCall => pending = <<>> /\ ~inEnvelope
    BY DEF IInv, Consumed
  <2>2. call # NoCall => output' = output
    BY <1>2, <1>3, <2>1, JoinEmpty
  <2>3. call # NoCall => Envelope' = Envelope
    BY <1>1, <2>2 DEF Envelope
  <2> QED
    BY <1>1, <2>3 DEF IInv, Consumed
<1> QED
  BY <1>5, <1>7, <1>8 DEF IInv

\* The steps that only end a turn of the loop.
LEMMA LoopStep ==
  ASSUME IInv, LoopEnds \/ Accumulate \/ UNCHANGED vars
  PROVE  IInv'
<1>1. /\ text' = text /\ pending' = pending /\ inEnvelope' = inEnvelope /\ call' = call
      /\ invalid' = invalid /\ output' = output /\ (pc' = "ready" \/ pc' = pc)
  BY DEF LoopEnds, Accumulate, vars
<1>2. Held' = Held /\ Envelope' = Envelope
  BY <1>1 DEF Held, Envelope
<1>3. TypeOK'
  BY <1>1 DEF IInv, TypeOK
<1> QED
  BY <1>1, <1>2, <1>3 DEF IInv, Lossless, Consumed

LEMMA ParserInit == Init => IInv
<1> SUFFICES ASSUME Init PROVE IInv
  OBVIOUS
<1>1. TypeOK
  BY Sentinels DEF Init, TypeOK, Text
<1>2. <<>> \o <<>> = <<>>
  BY Sentinels, JoinEmpty
<1> QED
  BY <1>1, <1>2 DEF Init, IInv, Lossless, Consumed, Held

LEMMA ParserInv == Spec => []IInv
<1>1. IInv /\ [Next]_vars => IInv'
  BY FeedStep, FeedDoneStep, CloseStep, OpenStep, EmitStep, FinalizeStep, LoopStep DEF Next
<1> QED
  BY <1>1, ParserInit, PTL DEF Spec

\* Every reachable state of the parser is well typed (EnvelopeParser.__init__).
THEOREM ParserTypeCorrect == Spec => []TypeOK
<1>1. IInv => TypeOK
  BY DEF IInv
<1> QED
  BY <1>1, ParserInv, PTL

\* No character is dropped, doubled or moved, however the sentinels overlap
\* and however the text is cut (EnvelopeParser.feed and finalize).
THEOREM NothingLost == Spec => []Lossless
<1>1. IInv => Lossless
  BY DEF IInv
<1> QED
  BY <1>1, ParserInv, PTL

\* A call comes out instead of its envelope, never besides it: what was given
\* out is what stands before (tool_envelope.py 23-24).
THEOREM EnvelopesHidden == Spec => []EnvelopeHidden
<1>1. IInv => EnvelopeHidden
  <2> SUFFICES ASSUME IInv, call # NoCall
               PROVE  LET envelope == output \o Start \o call \o End
                      IN  Len(envelope) <= Len(text) /\ Take(text, Len(envelope)) = envelope
    BY DEF EnvelopeHidden
  <2> DEFINE envelope == output \o Start \o call \o End
  <2>1. output \in Text /\ call \in Text /\ text \in Text
    BY Sentinels DEF IInv, TypeOK, Text
  <2>2. envelope = Envelope /\ Envelope \in Text
    <3>1. envelope = Join(Join(Join(output, Start), call), End)
      BY DEF Join
    <3> HIDE DEF envelope
    <3> QED
      BY <2>1, <3>1, Sentinels, Joined, Regroup DEF Envelope
  <2>3. PICK rest \in Text : text = Envelope \o rest
    BY DEF IInv, Consumed, Join
  <2> DEFINE e == Envelope
             n == Len(e)
  <2>4. e \in Text /\ text = e \o rest
    BY <2>2, <2>3
  <2> HIDE DEF e
  <2>5. n \in Nat /\ Len(rest) \in Nat /\ Len(text) = n + Len(rest)
    BY <2>3, <2>4, LenProperties, ConcatProperties DEF Text
  <2>6. n <= Len(text)
    BY <2>5
  <2>7. Take(text, n) = e
    <3>1. Take(text, n) \in Text /\ Len(Take(text, n)) = n
      BY <2>1, <2>5, <2>6, TakeDrop
    <3>2. \A i \in 1..n : Take(text, n)[i] = e[i]
      <4> TAKE i \in 1..n
      <4>1. text[i] = e[i]
        BY <2>3, <2>4, <2>5, ConcatProperties DEF Text
      <4>2. Take(text, n)[i] = text[i]
        <5>1. 1 \in Int /\ n \in Int /\ \A j \in 1..n : text[j] \in Chars
          BY <2>1, <2>5, <2>6, ElementOfSeq DEF Text
        <5>2. i \in 1..(n - 1 + 1) /\ 1 + i - 1 = i
          BY <2>5
        <5> QED
          BY <5>1, <5>2, SubSeqProperties DEF Take
      <4> QED
        BY <4>1, <4>2
    <3> QED
      BY <2>4, <3>1, <3>2, SeqEqual DEF Text
  <2> QED
    BY <2>2, <2>6, <2>7 DEF e
<1> QED
  BY <1>1, ParserInv, PTL

-----------------------------------------------------------------------------
(* Texts, position by position.                                            *)

LEMMA Lengths == \A s \in Text : Len(s) \in Nat /\ \A i \in 1..Len(s) : s[i] \in Chars
  BY LenProperties, ElementOfSeq DEF Text

LEMMA SameText ==
  ASSUME NEW s \in Text, NEW t \in Text,
         Len(s) = Len(t), \A i \in 1..Len(s) : s[i] = t[i]
  PROVE  s = t
  BY SeqEqual DEF Text

LEMMA JoinAt ==
  ASSUME NEW s \in Text, NEW t \in Text
  PROVE  /\ Len(Join(s, t)) = Len(s) + Len(t)
         /\ \A i \in 1..Len(s) : Join(s, t)[i] = s[i]
         /\ \A i \in 1..Len(t) : Join(s, t)[Len(s) + i] = t[i]
<1>1. Len(s) \in Nat /\ Len(t) \in Nat
  BY Lengths
<1>2. Len(Join(s, t)) = Len(s) + Len(t)
  BY ConcatProperties DEF Text, Join
<1>3. \A i \in 1..(Len(s) + Len(t)) :
        Join(s, t)[i] = IF i <= Len(s) THEN s[i] ELSE t[i - Len(s)]
  BY ConcatProperties DEF Text, Join
<1>4. ASSUME NEW i \in 1..Len(s) PROVE Join(s, t)[i] = s[i]
  <2>1. i \in 1..(Len(s) + Len(t)) /\ i <= Len(s)
    BY <1>1
  <2> QED
    BY <1>3, <2>1
<1>5. ASSUME NEW i \in 1..Len(t) PROVE Join(s, t)[Len(s) + i] = t[i]
  <2>1. Len(s) + i \in 1..(Len(s) + Len(t)) /\ ~(Len(s) + i <= Len(s))
        /\ (Len(s) + i) - Len(s) = i
    BY <1>1
  <2> QED
    BY <1>3, <2>1
<1> QED
  BY <1>2, <1>4, <1>5

LEMMA CutAt ==
  ASSUME NEW s \in Text, NEW n \in 0..Len(s)
  PROVE  /\ Take(s, n) \in Text /\ Len(Take(s, n)) = n
         /\ \A i \in 1..n : Take(s, n)[i] = s[i]
         /\ Drop(s, n) \in Text /\ Len(Drop(s, n)) = Len(s) - n
         /\ \A i \in 1..(Len(s) - n) : Drop(s, n)[i] = s[n + i]
<1>1. Len(s) \in Nat /\ n \in Nat /\ n <= Len(s)
  BY Lengths
<1>2. Take(s, n) \in Text /\ Drop(s, n) \in Text /\ Len(Take(s, n)) = n
      /\ s = Join(Take(s, n), Drop(s, n))
  BY TakeDrop DEF Join
<1> DEFINE a == Take(s, n)
           b == Drop(s, n)
<1> HIDE DEF a, b
<1>3. /\ Len(s) = Len(a) + Len(b)
      /\ \A i \in 1..Len(a) : s[i] = a[i]
      /\ \A i \in 1..Len(b) : s[Len(a) + i] = b[i]
  <2>1. a \in Text /\ b \in Text /\ s = Join(a, b)
    BY <1>2 DEF a, b
  <2> QED
    BY <2>1, JoinAt
<1>4. Len(a) = n /\ Len(b) \in Nat
  BY <1>2, Lengths DEF a, b
<1>5. Len(b) = Len(s) - n
  BY <1>1, <1>3, <1>4
<1> QED
  BY <1>2, <1>3, <1>4, <1>5 DEF a, b

\* A word occurs where its letters stand.
LEMMA OccursLetters ==
  ASSUME NEW s \in Text, NEW word \in Text, NEW i \in Nat
  PROVE  OccursAt(s, i, word) <=>
           /\ i + Len(word) <= Len(s)
           /\ \A j \in 1..Len(word) : s[i + j] = word[j]
<1>1. Len(s) \in Nat /\ Len(word) \in Nat
  BY Lengths
<1> SUFFICES ASSUME i + Len(word) <= Len(s)
             PROVE  SubSeq(s, i + 1, i + Len(word)) = word
                      <=> \A j \in 1..Len(word) : s[i + j] = word[j]
  BY DEF OccursAt
<1> DEFINE sub == SubSeq(s, i + 1, i + Len(word))
<1>2. sub \in Text /\ Len(sub) = Len(word) /\ \A j \in 1..Len(word) : sub[j] = s[i + j]
  <2>1. i + 1 \in Int /\ i + Len(word) \in Int
        /\ \A j \in (i + 1)..(i + Len(word)) : s[j] \in Chars
    <3>1. \A j \in (i + 1)..(i + Len(word)) : j \in 1..Len(s)
      BY <1>1
    <3> QED
      BY <1>1, <3>1, Lengths
  <2>2. /\ sub \in Text
        /\ Len(sub) = IF i + 1 <= i + Len(word) THEN (i + Len(word)) - (i + 1) + 1 ELSE 0
        /\ \A j \in 1..((i + Len(word)) - (i + 1) + 1) : sub[j] = s[(i + 1) + j - 1]
    BY <2>1, SubSeqProperties DEF Text
  <2>3. (i + Len(word)) - (i + 1) + 1 = Len(word)
        /\ (i + 1 <= i + Len(word) <=> Len(word) # 0)
        /\ \A j \in 1..Len(word) : (i + 1) + j - 1 = i + j
    BY <1>1
  <2> HIDE DEF sub
  <2> QED
    BY <2>2, <2>3
<1> HIDE DEF sub
<1>3. (\A j \in 1..Len(word) : s[i + j] = word[j]) => sub = word
  BY <1>2, SameText
<1> QED
  BY <1>2, <1>3 DEF sub

\* The first occurrence is the one no other comes before.
LEMMA FirstFound ==
  ASSUME NEW s \in Text, NEW word \in Text, NEW i \in Nat,
         OccursAt(s, i, word), \A j \in Nat : j < i => ~OccursAt(s, j, word)
  PROVE  Occurs(s, word) /\ Find(s, word) = i
<1>1. Len(s) \in Nat /\ Len(word) \in Nat
  BY Lengths
<1>2. i \in Offsets(s, word)
  <2>1. i \in 0..Len(s)
    BY <1>1 DEF OccursAt
  <2> QED
    BY <2>1 DEF Offsets
<1>3. \A j \in Offsets(s, word) : j \in Nat /\ i <= j
  BY <1>1 DEF Offsets
<1>4. Find(s, word) = CHOOSE m \in Offsets(s, word) : \A n \in Offsets(s, word) : m <= n
  BY Zenon DEF Find, Min
<1>5. \A m \in Offsets(s, word) : (\A n \in Offsets(s, word) : m <= n) => m = i
  BY <1>2, <1>3
<1>6. \E m \in Offsets(s, word) : \A n \in Offsets(s, word) : m <= n
  BY <1>2, <1>3
<1> QED
  BY <1>2, <1>4, <1>5, <1>6 DEF Occurs

\* The converse: what Find returns.
LEMMA FoundFirst ==
  ASSUME NEW s \in Text, NEW word \in Text, Occurs(s, word)
  PROVE  /\ Find(s, word) \in Nat /\ Find(s, word) + Len(word) <= Len(s)
         /\ OccursAt(s, Find(s, word), word)
         /\ \A j \in Nat : j < Find(s, word) => ~OccursAt(s, j, word)
<1>1. Len(s) \in Nat /\ Len(word) \in Nat
  BY Lengths
<1>2. Offsets(s, word) \subseteq Nat /\ Offsets(s, word) # {}
  BY <1>1 DEF Offsets, Occurs
<1>3. \E m \in Offsets(s, word) : \A n \in Offsets(s, word) : m <= n
  BY <1>2, LeastNatural
<1>4. Find(s, word) = CHOOSE m \in Offsets(s, word) : \A n \in Offsets(s, word) : m <= n
  BY Zenon DEF Find, Min
<1> DEFINE at == Find(s, word)
<1> HIDE DEF at
<1>5. at \in Offsets(s, word) /\ \A n \in Offsets(s, word) : at <= n
  BY <1>3, <1>4 DEF at
<1>6. at \in Nat /\ OccursAt(s, at, word)
  BY <1>1, <1>5 DEF Offsets
<1>7. at + Len(word) <= Len(s)
  BY <1>6 DEF OccursAt
<1>8. ASSUME NEW j \in Nat, j < at PROVE ~OccursAt(s, j, word)
  <2> SUFFICES ASSUME OccursAt(s, j, word) PROVE FALSE
    OBVIOUS
  <2>1. j \in 0..Len(s)
    BY <1>1 DEF OccursAt
  <2>2. j \in Offsets(s, word)
    BY <2>1 DEF Offsets
  <2> QED
    BY <1>5, <1>6, <1>8, <2>2
<1> QED
  BY <1>6, <1>7, <1>8 DEF at

\* A word that occurs somewhere occurs.
LEMMA OccursSomewhere ==
  ASSUME NEW s \in Text, NEW word \in Text
  PROVE  Occurs(s, word) <=> \E i \in Nat : OccursAt(s, i, word)
<1>1. Len(s) \in Nat /\ Len(word) \in Nat
  BY Lengths
<1>2. \A i \in Nat : OccursAt(s, i, word) => i \in 0..Len(s)
  BY <1>1 DEF OccursAt
<1> QED
  BY <1>1, <1>2 DEF Occurs, Offsets

\* What follows a text does not disturb the occurrences within it.
LEMMA OccursLeft ==
  ASSUME NEW s \in Text, NEW u \in Text, NEW word \in Text, NEW i \in Nat,
         i + Len(word) <= Len(s)
  PROVE  OccursAt(Join(s, u), i, word) <=> OccursAt(s, i, word)
<1>1. Len(s) \in Nat /\ Len(u) \in Nat /\ Len(word) \in Nat /\ Join(s, u) \in Text
  BY Lengths, Joined
<1>2. Len(Join(s, u)) = Len(s) + Len(u) /\ \A j \in 1..Len(s) : Join(s, u)[j] = s[j]
  BY JoinAt
<1>3. \A j \in 1..Len(word) : i + j \in 1..Len(s)
  BY <1>1
<1>4. i + Len(word) <= Len(Join(s, u))
  BY <1>1, <1>2
<1>5. OccursAt(Join(s, u), i, word) <=>
        \A j \in 1..Len(word) : Join(s, u)[i + j] = word[j]
  BY <1>1, <1>4, OccursLetters
<1>6. OccursAt(s, i, word) <=> \A j \in 1..Len(word) : s[i + j] = word[j]
  BY OccursLetters
<1> QED
  BY <1>2, <1>3, <1>5, <1>6

\* What stands before a text moves them.
LEMMA OccursRight ==
  ASSUME NEW s \in Text, NEW u \in Text, NEW word \in Text, NEW i \in Nat
  PROVE  OccursAt(Join(s, u), Len(s) + i, word) <=> OccursAt(u, i, word)
<1>1. Len(s) \in Nat /\ Len(u) \in Nat /\ Len(word) \in Nat /\ Join(s, u) \in Text
  BY Lengths, Joined
<1>2. Len(Join(s, u)) = Len(s) + Len(u)
      /\ \A j \in 1..Len(u) : Join(s, u)[Len(s) + j] = u[j]
  BY JoinAt
<1>3. /\ Len(s) + i \in Nat
      /\ (Len(s) + i + Len(word) <= Len(Join(s, u)) <=> i + Len(word) <= Len(u))
  BY <1>1, <1>2
<1>4. OccursAt(Join(s, u), Len(s) + i, word) <=>
        /\ Len(s) + i + Len(word) <= Len(Join(s, u))
        /\ \A j \in 1..Len(word) : Join(s, u)[Len(s) + i + j] = word[j]
  BY <1>1, <1>3, OccursLetters
<1>5. OccursAt(u, i, word) <=>
        /\ i + Len(word) <= Len(u)
        /\ \A j \in 1..Len(word) : u[i + j] = word[j]
  BY OccursLetters
<1>6. ASSUME i + Len(word) <= Len(u), NEW j \in 1..Len(word)
      PROVE  Join(s, u)[Len(s) + i + j] = u[i + j]
  <2>1. i + j \in 1..Len(u) /\ Len(s) + i + j = Len(s) + (i + j)
    BY <1>1, <1>6
  <2> QED
    BY <1>2, <2>1
<1> QED
  BY <1>3, <1>4, <1>5, <1>6

\* A text cut where two were joined.
LEMMA CutJoin ==
  ASSUME NEW s \in Text, NEW u \in Text
  PROVE  /\ Len(s) \in 0..Len(Join(s, u))
         /\ Take(Join(s, u), Len(s)) = s /\ Drop(Join(s, u), Len(s)) = u
<1> DEFINE j == Join(s, u)
           n == Len(s)
<1>1. /\ j \in Text /\ n \in Nat /\ Len(u) \in Nat /\ Len(j) = n + Len(u)
      /\ \A i \in 1..n : j[i] = s[i]
      /\ \A i \in 1..Len(u) : j[n + i] = u[i]
  BY Joined, Lengths, JoinAt
<1> HIDE DEF j
<1>2. n \in 0..Len(j) /\ Len(j) - n = Len(u)
  BY <1>1
<1> HIDE DEF n
<1>3. /\ Take(j, n) \in Text /\ Len(Take(j, n)) = n
      /\ \A i \in 1..n : Take(j, n)[i] = j[i]
      /\ Drop(j, n) \in Text /\ Len(Drop(j, n)) = Len(j) - n
      /\ \A i \in 1..(Len(j) - n) : Drop(j, n)[i] = j[n + i]
  BY <1>1, <1>2, CutAt
<1>4. Take(j, n) = s
  BY <1>1, <1>3, SameText DEF n
<1>5. Drop(j, n) = u
  BY <1>1, <1>2, <1>3, SameText
<1> QED
  BY <1>2, <1>4, <1>5 DEF j, n

LEMMA CutLeft ==
  ASSUME NEW s \in Text, NEW u \in Text, NEW n \in 0..Len(s)
  PROVE  /\ Take(Join(s, u), n) = Take(s, n)
         /\ Drop(Join(s, u), n) = Join(Drop(s, n), u)
<1> DEFINE a == Take(s, n)
           b == Drop(s, n)
<1>1. a \in Text /\ b \in Text /\ Len(a) = n /\ s = Join(a, b)
  BY TakeDrop DEF Join
<1> HIDE DEF a, b
<1>2. Join(s, u) = Join(a, Join(b, u)) /\ Join(b, u) \in Text
  BY <1>1, Regroup, Joined
<1>3. Take(Join(a, Join(b, u)), Len(a)) = a /\ Drop(Join(a, Join(b, u)), Len(a)) = Join(b, u)
  BY <1>1, <1>2, CutJoin
<1> QED
  BY <1>1, <1>2, <1>3 DEF a, b

LEMMA CutRight ==
  ASSUME NEW s \in Text, NEW u \in Text, NEW n \in 0..Len(u)
  PROVE  /\ Take(Join(s, u), Len(s) + n) = Join(s, Take(u, n))
         /\ Drop(Join(s, u), Len(s) + n) = Drop(u, n)
<1> DEFINE a == Take(u, n)
           b == Drop(u, n)
<1>1. a \in Text /\ b \in Text /\ Len(a) = n /\ u = Join(a, b)
  BY TakeDrop DEF Join
<1> HIDE DEF a, b
<1>2. Join(s, u) = Join(Join(s, a), b) /\ Join(s, a) \in Text
  BY <1>1, Regroup, Joined
<1>3. Len(Join(s, a)) = Len(s) + n
  BY <1>1, JoinAt
<1>4. Take(Join(Join(s, a), b), Len(Join(s, a))) = Join(s, a)
      /\ Drop(Join(Join(s, a), b), Len(Join(s, a))) = b
  BY <1>1, <1>2, CutJoin
<1> QED
  BY <1>2, <1>3, <1>4 DEF a, b

\* The first occurrence in a text is the first in every longer one.
LEMMA FindLeft ==
  ASSUME NEW s \in Text, NEW u \in Text, NEW word \in Text, Occurs(s, word)
  PROVE  Occurs(Join(s, u), word) /\ Find(Join(s, u), word) = Find(s, word)
<1> DEFINE at == Find(s, word)
<1>1. /\ at \in Nat /\ at + Len(word) <= Len(s)
      /\ OccursAt(s, at, word) /\ \A j \in Nat : j < at => ~OccursAt(s, j, word)
  BY FoundFirst
<1> HIDE DEF at
<1>2. OccursAt(Join(s, u), at, word)
  BY <1>1, OccursLeft
<1>3. ASSUME NEW j \in Nat, j < at PROVE ~OccursAt(Join(s, u), j, word)
  <2>1. j + Len(word) <= Len(s)
    BY <1>1, <1>3, Lengths
  <2> QED
    BY <1>1, <1>3, <2>1, OccursLeft
<1>4. Join(s, u) \in Text
  BY Joined
<1>5. Occurs(Join(s, u), word) /\ Find(Join(s, u), word) = at
  <2> DEFINE j == Join(s, u)
  <2>1. j \in Text /\ OccursAt(j, at, word) /\ \A i \in Nat : i < at => ~OccursAt(j, i, word)
    BY <1>2, <1>3, <1>4
  <2> HIDE DEF j
  <2>2. Occurs(j, word) /\ Find(j, word) = at
    BY <1>1, <2>1, FirstFound
  <2> QED
    BY <2>2 DEF j
<1> QED
  BY <1>5 DEF at

\* No occurrence of word begins within s when u follows it.
Clear(s, u, word) == \A i \in Nat : i < Len(s) => ~OccursAt(Join(s, u), i, word)

\* Then the occurrences are those of what follows.
LEMMA FindRight ==
  ASSUME NEW s \in Text, NEW u \in Text, NEW word \in Text, Clear(s, u, word)
  PROVE  /\ Occurs(Join(s, u), word) <=> Occurs(u, word)
         /\ Occurs(u, word) => Find(Join(s, u), word) = Len(s) + Find(u, word)
<1> DEFINE j == Join(s, u)
           n == Len(s)
<1>1. /\ j \in Text /\ n \in Nat
      /\ \A i \in Nat : OccursAt(j, n + i, word) <=> OccursAt(u, i, word)
      /\ \A i \in Nat : i < n => ~OccursAt(j, i, word)
  BY Joined, Lengths, OccursRight DEF Clear
<1> HIDE DEF j, n
<1>2. ASSUME NEW i \in Nat, OccursAt(j, i, word)
      PROVE  i - n \in Nat /\ OccursAt(u, i - n, word)
  <2>1. ~(i < n)
    BY <1>1, <1>2
  <2>2. i - n \in Nat /\ n + (i - n) = i
    BY <1>1, <2>1
  <2> QED
    BY <1>1, <1>2, <2>2
<1>3. Occurs(j, word) => Occurs(u, word)
  BY <1>1, <1>2, OccursSomewhere
<1>4. ASSUME Occurs(u, word)
      PROVE  Occurs(j, word) /\ Find(j, word) = n + Find(u, word)
  <2> DEFINE at == Find(u, word)
  <2>1. /\ at \in Nat /\ OccursAt(u, at, word)
        /\ \A i \in Nat : i < at => ~OccursAt(u, i, word)
    BY <1>4, FoundFirst
  <2> HIDE DEF at
  <2>2. n + at \in Nat /\ OccursAt(j, n + at, word)
    BY <1>1, <2>1
  <2>3. ASSUME NEW i \in Nat, i < n + at PROVE ~OccursAt(j, i, word)
    <3>1. i < n \/ (i - n \in Nat /\ i - n < at)
      BY <1>1, <2>1, <2>3
    <3> QED
      BY <1>1, <1>2, <2>1, <3>1
  <2> DEFINE m == n + at
  <2>4. m \in Nat /\ OccursAt(j, m, word) /\ \A i \in Nat : i < m => ~OccursAt(j, i, word)
    BY <2>2, <2>3
  <2> HIDE DEF m
  <2>5. Occurs(j, word) /\ Find(j, word) = m
    BY <1>1, <2>4, FirstFound
  <2> QED
    BY <2>5 DEF m, at
<1> QED
  BY <1>3, <1>4 DEF j, n

-----------------------------------------------------------------------------
(* The parser of a whole text exists: its recursion is on shorter texts.   *)

After(s) == Drop(s, Find(s, Start) + Len(Start))
Body(s)  == Take(After(s), Find(After(s), End))
Left(s)  == Drop(After(s), Find(After(s), End) + Len(End))

\* What Parsed does with a text, when h does it with what is left of it.
Scan(h, s) ==
  IF ~Occurs(s, Start) THEN Outcome(s, NoCall, FALSE)
  ELSE IF ~Occurs(After(s), End) THEN Outcome(s, NoCall, TRUE)
  ELSE IF Body(s) \in Bodies THEN Outcome(Take(s, Find(s, Start)), Body(s), FALSE)
  ELSE Outcome(Take(s, Find(s, Start)) \o Start \o Body(s) \o End \o h[Left(s)].visible,
               h[Left(s)].call, TRUE)

LEMMA Regions ==
  ASSUME NEW s \in Text, Occurs(s, Start)
  PROVE  /\ Take(s, Find(s, Start)) \in Text
         /\ After(s) \in Text /\ Len(After(s)) < Len(s)
         /\ Occurs(After(s), End) =>
              Body(s) \in Text /\ Left(s) \in Text /\ Len(Left(s)) < Len(s)
<1>1. Len(s) \in Nat /\ Len(Start) \in Nat \ {0} /\ Len(End) \in Nat \ {0}
  BY ParserAssumption, Lengths, EmptySeq DEF Text
<1> DEFINE at == Find(s, Start)
<1>2. at \in Nat /\ at + Len(Start) <= Len(s)
  BY Sentinels, FoundFirst
<1> HIDE DEF at
<1>3. at \in 0..Len(s) /\ at + Len(Start) \in 0..Len(s)
  BY <1>1, <1>2
<1>4. /\ Take(s, at) \in Text
      /\ Drop(s, at + Len(Start)) \in Text
      /\ Len(Drop(s, at + Len(Start))) = Len(s) - (at + Len(Start))
  BY <1>3, CutAt
<1>5. After(s) \in Text /\ Len(After(s)) \in Nat /\ Len(After(s)) < Len(s)
  BY <1>1, <1>2, <1>4, Lengths DEF After, at
<1>6. ASSUME Occurs(After(s), End)
      PROVE  Body(s) \in Text /\ Left(s) \in Text /\ Len(Left(s)) < Len(s)
  <2> DEFINE a == After(s)
             e == Find(a, End)
  <2>1. e \in Nat /\ e + Len(End) <= Len(a)
    BY <1>5, <1>6, Sentinels, FoundFirst
  <2>2. a \in Text /\ Len(a) \in Nat /\ Len(a) < Len(s)
    BY <1>5
  <2>3. Body(s) = Take(a, e) /\ Left(s) = Drop(a, e + Len(End))
    BY DEF Body, Left
  <2> HIDE DEF a, e
  <2>4. e \in 0..Len(a) /\ e + Len(End) \in 0..Len(a)
    BY <1>1, <2>1, <2>2
  <2>5. Take(a, e) \in Text /\ Drop(a, e + Len(End)) \in Text
        /\ Len(Drop(a, e + Len(End))) = Len(a) - (e + Len(End))
    BY <2>2, <2>4, CutAt
  <2>6. Len(a) - (e + Len(End)) < Len(s)
    BY <1>1, <2>1, <2>2
  <2> QED
    BY <2>3, <2>5, <2>6
<1> QED
  BY <1>4, <1>5, <1>6 DEF at

\* It looks at shorter texts only.
LEMMA ScanLocal ==
  ASSUME NEW f, NEW g, NEW s \in Text,
         \A t \in Text : Len(t) < Len(s) => f[t] = g[t]
  PROVE  Scan(f, s) = Scan(g, s)
<1>1. CASE Occurs(s, Start) /\ Occurs(After(s), End)
  <2>1. f[Left(s)] = g[Left(s)]
    BY <1>1, Regions
  <2> QED
    BY <2>1, Zenon DEF Scan
<1>2. CASE ~(Occurs(s, Start) /\ Occurs(After(s), End))
  BY <1>2, Zenon DEF Scan
<1> QED
  BY <1>1, <1>2

\* g scans every text shorter than n.
Scans(n, g) ==
  /\ g = [s \in Text |-> g[s]]
  /\ \A s \in Text : Len(s) < n => g[s] = Scan(g, s)

LEMMA ScansAgree ==
  ASSUME NEW n \in Nat, NEW m \in Nat, NEW f, NEW g, Scans(n, f), Scans(m, g)
  PROVE  \A s \in Text : Len(s) < n /\ Len(s) < m => f[s] = g[s]
<1> DEFINE Bad == {k \in Nat : \E s \in Text : Len(s) = k /\ k < n /\ k < m /\ f[s] # g[s]}
<1> SUFFICES ASSUME Bad # {} PROVE FALSE
  <2>1. \A s \in Text : Len(s) \in Nat
    BY Lengths
  <2>2. \A s \in Text : Len(s) < n /\ Len(s) < m /\ f[s] # g[s] => Len(s) \in Bad
    BY <2>1
  <2> HIDE DEF Bad
  <2> QED
    BY <2>2
<1>1. Bad \subseteq Nat
  OBVIOUS
<1> HIDE DEF Bad
<1>2. PICK k \in Bad : \A l \in Bad : k <= l
  BY <1>1, LeastNatural
<1>3. PICK s \in Text : Len(s) = k /\ k < n /\ k < m /\ f[s] # g[s]
  BY <1>2 DEF Bad
<1>4. ASSUME NEW t \in Text, Len(t) < Len(s) PROVE f[t] = g[t]
  <2> SUFFICES ASSUME f[t] # g[t] PROVE FALSE
    OBVIOUS
  <2>1. Len(t) \in Nat /\ k \in Nat
    BY <1>1, Lengths
  <2>2. Len(t) \in Bad
    BY <1>3, <1>4, <2>1 DEF Bad
  <2> QED
    BY <1>2, <1>3, <1>4, <2>1, <2>2
<1>5. Scan(f, s) = Scan(g, s)
  BY <1>4, ScanLocal
<1> QED
  BY <1>3, <1>5 DEF Scans

LEMMA ScansExist == \A n \in Nat : \E g : Scans(n, g)
<1> DEFINE Bad == {n \in Nat : ~ \E g : Scans(n, g)}
<1> SUFFICES ASSUME Bad # {} PROVE FALSE
  OBVIOUS
<1>1. Bad \subseteq Nat
  OBVIOUS
<1> HIDE DEF Bad
<1>2. PICK n \in Bad : \A l \in Bad : n <= l
  BY <1>1, LeastNatural
<1>3. n \in Nat /\ ~ \E g : Scans(n, g)
  BY <1>2 DEF Bad
<1>4. CASE n = 0
  <2> DEFINE g == [s \in Text |-> 0]
  <2>1. g = [s \in Text |-> g[s]] /\ \A s \in Text : ~(Len(s) < 0)
    BY Lengths
  <2> HIDE DEF g
  <2>2. Scans(n, g)
    BY <1>4, <2>1 DEF Scans
  <2> QED
    BY <1>3, <2>2
<1>5. CASE n # 0
  <2>1. n - 1 \in Nat /\ n - 1 < n
    BY <1>3, <1>5
  <2>2. n - 1 \notin Bad
    BY <1>1, <1>2, <2>1
  <2>3. PICK g : Scans(n - 1, g)
    BY <2>1, <2>2 DEF Bad
  <2> DEFINE f == [s \in Text |-> Scan(g, s)]
  <2>4. f = [s \in Text |-> f[s]] /\ \A s \in Text : f[s] = Scan(g, s)
    BY Zenon
  <2> HIDE DEF f
  <2>5. ASSUME NEW s \in Text, Len(s) < n PROVE f[s] = Scan(f, s)
    <3>1. ASSUME NEW t \in Text, Len(t) < Len(s) PROVE f[t] = g[t]
      <4>1. Len(t) < n - 1
        BY <1>3, <2>5, <3>1, Lengths
      <4> QED
        BY <2>3, <2>4, <4>1 DEF Scans
    <3>2. Scan(f, s) = Scan(g, s)
      BY <3>1, ScanLocal
    <3> QED
      BY <2>4, <3>2
  <2>6. Scans(n, f)
    BY <2>4, <2>5 DEF Scans
  <2> QED
    BY <1>3, <2>6
<1> QED
  BY <1>4, <1>5

LEMMA ScanFixed == \E f : f = [s \in Text |-> Scan(f, s)]
<1> DEFINE G(n) == CHOOSE g : Scans(n, g)
           f == [s \in Text |-> G(Len(s) + 1)[s]]
<1>1. \A n \in Nat : Scans(n, G(n))
  BY ScansExist
<1>2. \A s \in Text : f[s] = G(Len(s) + 1)[s]
  OBVIOUS
<1>3. f = [s \in Text |-> f[s]]
  OBVIOUS
<1> HIDE DEF G, f
<1>4. ASSUME NEW s \in Text PROVE f[s] = Scan(f, s)
  <2> DEFINE n == Len(s) + 1
             g == G(n)
  <2>1. Len(s) \in Nat /\ n \in Nat /\ Len(s) < n
    BY Lengths
  <2>2. Scans(n, g)
    BY <1>1, <2>1
  <2>3. f[s] = g[s]
    BY <1>2
  <2> HIDE DEF g, n
  <2>4. g[s] = Scan(g, s)
    BY <2>1, <2>2 DEF Scans
  <2>5. ASSUME NEW t \in Text, Len(t) < Len(s) PROVE g[t] = f[t]
    <3> DEFINE m == Len(t) + 1
               h == G(m)
    <3>1. Len(t) \in Nat /\ m \in Nat /\ Len(t) < m /\ Len(t) < n
      BY <2>1, <2>5, Lengths
    <3>2. Scans(m, h)
      BY <1>1, <3>1
    <3>3. f[t] = h[t]
      BY <1>2
    <3> HIDE DEF h, m
    <3>4. g[t] = h[t]
      BY <2>1, <2>2, <3>1, <3>2, ScansAgree
    <3> QED
      BY <3>3, <3>4
  <2>6. Scan(g, s) = Scan(f, s)
    BY <2>5, ScanLocal
  <2> QED
    BY <2>3, <2>4, <2>6
<1>5. f = [s \in Text |-> Scan(f, s)]
  BY <1>3, <1>4
<1> QED
  BY <1>5

LEMMA ParsedScan == \A s \in Text : Parsed[s] = Scan(Parsed, s)
<1> DEFINE P == CHOOSE f : f = [s \in Text |-> Scan(f, s)]
<1>1. P = [s \in Text |-> Scan(P, s)]
  BY ScanFixed
<1>2. Parsed = P
  BY Zenon DEF Parsed, Scan, After, Body, Left, Text
<1> QED
  BY <1>1, <1>2

Outcomes == [visible : Text, call : Bodies \union {NoCall}, invalid : BOOLEAN]

LEMMA ParsedTyped == \A s \in Text : Parsed[s] \in Outcomes
<1> DEFINE Bad == {k \in Nat : \E s \in Text : Len(s) = k /\ Parsed[s] \notin Outcomes}
<1> SUFFICES ASSUME Bad # {} PROVE FALSE
  <2>1. \A s \in Text : Parsed[s] \notin Outcomes => Len(s) \in Bad
    BY Lengths
  <2> HIDE DEF Bad
  <2> QED
    BY <2>1
<1>1. Bad \subseteq Nat
  OBVIOUS
<1> HIDE DEF Bad
<1>2. PICK k \in Bad : \A l \in Bad : k <= l
  BY <1>1, LeastNatural
<1>3. PICK s \in Text : Len(s) = k /\ Parsed[s] \notin Outcomes
  BY <1>2 DEF Bad
<1>4. Parsed[s] = Scan(Parsed, s)
  BY ParsedScan
<1>5. CASE ~Occurs(s, Start)
  <2>1. Scan(Parsed, s) = Outcome(s, NoCall, FALSE)
    BY <1>5, Zenon DEF Scan
  <2> QED
    BY <1>3, <1>4, <2>1 DEF Outcome, Outcomes
<1>6. CASE Occurs(s, Start) /\ ~Occurs(After(s), End)
  <2>1. Scan(Parsed, s) = Outcome(s, NoCall, TRUE)
    BY <1>6, Zenon DEF Scan
  <2> QED
    BY <1>3, <1>4, <2>1 DEF Outcome, Outcomes
<1>7. CASE Occurs(s, Start) /\ Occurs(After(s), End)
  <2> DEFINE a == Take(s, Find(s, Start))
             b == Body(s)
             r == Parsed[Left(s)]
  <2>1. a \in Text /\ b \in Text /\ Left(s) \in Text /\ Len(Left(s)) < Len(s)
    BY <1>7, Regions
  <2>2. r \in Outcomes
    <3> SUFFICES ASSUME r \notin Outcomes PROVE FALSE
      OBVIOUS
    <3>1. Len(Left(s)) \in Nat /\ k \in Nat
      BY <1>1, <2>1, Lengths
    <3>2. Len(Left(s)) \in Bad
      BY <2>1, <3>1 DEF Bad
    <3> QED
      BY <1>2, <1>3, <2>1, <3>1, <3>2
  <2>3. Scan(Parsed, s) = IF b \in Bodies THEN Outcome(a, b, FALSE)
                          ELSE Outcome(a \o Start \o b \o End \o r.visible, r.call, TRUE)
    BY <1>7, Zenon DEF Scan
  <2> HIDE DEF a, b, r
  <2>4. r.visible \in Text /\ r.call \in Bodies \union {NoCall}
    BY <2>2 DEF Outcomes
  <2>5. a \o Start \o b \o End \o r.visible \in Text
    <3>1. Join(Join(Join(Join(a, Start), b), End), r.visible) \in Text
      BY <2>1, <2>4, Sentinels, Joined
    <3> QED
      BY <3>1 DEF Join
  <2> DEFINE v == a \o Start \o b \o End \o r.visible
  <2> HIDE DEF v
  <2>6. CASE b \in Bodies
    BY <1>3, <1>4, <2>1, <2>3, <2>6 DEF Outcome, Outcomes
  <2>7. CASE b \notin Bodies
    <3>1. v \in Text
      BY <2>5 DEF v
    <3>2. Scan(Parsed, s) = Outcome(v, r.call, TRUE)
      BY <2>3, <2>7 DEF v
    <3> QED
      BY <1>3, <1>4, <2>4, <3>1, <3>2 DEF Outcome, Outcomes
  <2> QED
    BY <2>6, <2>7
<1> QED
  BY <1>5, <1>6, <1>7

\* An outcome after text that was given out before.
Prefixed(o, bad, v) == Outcome(Join(o, v.visible), v.call, bad \/ v.invalid)

LEMMA PrefixedTwice ==
  ASSUME NEW o \in Text, NEW p \in Text, NEW bad \in BOOLEAN, NEW worse \in BOOLEAN,
         NEW v \in Outcomes
  PROVE  Prefixed(o, bad, Prefixed(p, worse, v)) = Prefixed(Join(o, p), bad \/ worse, v)
<1>1. v.visible \in Text
  BY DEF Outcomes
<1> DEFINE w == Join(p, v.visible)
<1>2. Join(o, w) = Join(Join(o, p), v.visible)
  BY <1>1, Regroup
<1>3. Prefixed(p, worse, v).visible = w /\ Prefixed(p, worse, v).call = v.call
  BY DEF Prefixed, Outcome
<1>4. Prefixed(p, worse, v).invalid = (worse \/ v.invalid)
  BY DEF Prefixed, Outcome
<1> DEFINE x == Prefixed(p, worse, v)
<1> HIDE DEF x, w
<1>5. (bad \/ x.invalid) = ((bad \/ worse) \/ v.invalid)
  BY <1>4 DEF x
<1>6. Join(o, x.visible) = Join(Join(o, p), v.visible) /\ x.call = v.call
  BY <1>2, <1>3 DEF x
<1>7. Prefixed(o, bad, x) = Outcome(Join(o, x.visible), x.call, bad \/ x.invalid)
  BY DEF Prefixed
<1>8. Prefixed(Join(o, p), bad \/ worse, v)
        = Outcome(Join(Join(o, p), v.visible), v.call, (bad \/ worse) \/ v.invalid)
  BY DEF Prefixed
<1> QED
  BY <1>5, <1>6, <1>7, <1>8 DEF x

LEMMA PrefixedOutcome ==
  ASSUME NEW o, NEW v, NEW made, NEW bad \in BOOLEAN
  PROVE  /\ Prefixed(o, FALSE, Outcome(v, made, bad)) = Outcome(Join(o, v), made, bad)
         /\ Prefixed(o, bad, Outcome(v, made, FALSE)) = Outcome(Join(o, v), made, bad)
         /\ Prefixed(o, bad, Outcome(v, made, TRUE)) = Outcome(Join(o, v), made, TRUE)
<1>1. ASSUME NEW y PROVE Outcome(v, made, y).visible = v /\ Outcome(v, made, y).call = made
                         /\ Outcome(v, made, y).invalid = y
  BY DEF Outcome
<1>2. (FALSE \/ bad) = bad /\ (bad \/ FALSE) = bad /\ (bad \/ TRUE) = TRUE
  OBVIOUS
<1> QED
  BY <1>1, <1>2, Zenon DEF Prefixed

\* Text before the first region goes through.
LEMMA Skips ==
  ASSUME NEW a \in Text, NEW b \in Text, Clear(a, b, Start)
  PROVE  Parsed[Join(a, b)] = Prefixed(a, FALSE, Parsed[b])
<1> DEFINE s == Join(a, b)
<1>1. s \in Text
  BY Joined
<1>2. /\ Occurs(s, Start) <=> Occurs(b, Start)
      /\ Occurs(b, Start) => Find(s, Start) = Len(a) + Find(b, Start)
  BY Sentinels, FindRight
<1>3. Parsed[s] = Scan(Parsed, s) /\ Parsed[b] = Scan(Parsed, b)
  BY <1>1, ParsedScan
<1>4. CASE ~Occurs(b, Start)
  <2>1. Parsed[s] = Outcome(s, NoCall, FALSE) /\ Parsed[b] = Outcome(b, NoCall, FALSE)
    BY <1>2, <1>3, <1>4, Zenon DEF Scan
  <2> QED
    BY <2>1, PrefixedOutcome
<1>5. CASE Occurs(b, Start)
  <2> DEFINE at == Find(b, Start)
  <2>1. Take(s, Len(a) + at) = Join(a, Take(b, at)) /\ Take(b, at) \in Text
    <3>1. at \in 0..Len(b)
      BY <1>5, Sentinels, Found
    <3> QED
      BY <3>1, CutRight, CutAt
  <2>2. Drop(s, Len(a) + at + Len(Start)) = Drop(b, at + Len(Start))
    <3>1. at + Len(Start) \in 0..Len(b) /\ at \in Nat
      BY <1>5, Sentinels, Found, FoundFirst
    <3>2. Len(a) + at + Len(Start) = Len(a) + (at + Len(Start))
      BY <3>1, Sentinels, Lengths
    <3> DEFINE n == at + Len(Start)
    <3> HIDE DEF n, at
    <3>3. Drop(Join(a, b), Len(a) + n) = Drop(b, n)
      BY <3>1, CutRight DEF n
    <3> QED
      BY <3>2, <3>3 DEF n
  <2>3. Find(s, Start) = Len(a) + at
    BY <1>2, <1>5
  <2>4. After(s) = After(b)
    BY <2>2, <2>3 DEF After
  <2>5. Body(s) = Body(b) /\ Left(s) = Left(b)
    BY <2>4 DEF Body, Left
  <2>6. Take(s, Find(s, Start)) = Join(a, Take(b, Find(b, Start)))
    BY <2>1, <2>3
  <2>7. Occurs(s, Start)
    BY <1>2, <1>5
  <2> DEFINE before == Take(b, Find(b, Start))
             body   == Body(b)
             r      == Parsed[Left(b)]
  <2>8. Parsed[s] = IF ~Occurs(After(b), End) THEN Outcome(s, NoCall, TRUE)
                    ELSE IF body \in Bodies THEN Outcome(Join(a, before), body, FALSE)
                    ELSE Outcome(Join(Join(Join(Join(Join(a, before), Start), body), End), r.visible),
                                 r.call, TRUE)
    BY <1>3, <2>4, <2>5, <2>6, <2>7, Zenon DEF Scan, Join
  <2>9. Parsed[b] = IF ~Occurs(After(b), End) THEN Outcome(b, NoCall, TRUE)
                    ELSE IF body \in Bodies THEN Outcome(before, body, FALSE)
                    ELSE Outcome(Join(Join(Join(Join(before, Start), body), End), r.visible),
                                 r.call, TRUE)
    BY <1>3, <1>5, Zenon DEF Scan, Join
  <2>10. before \in Text
    BY <2>1
  <2> DEFINE v == r.visible
  <2>11. Occurs(After(b), End) => body \in Text /\ v \in Text
    <3>1. Occurs(After(b), End) => Body(b) \in Text /\ Left(b) \in Text
      BY <1>5, Regions
    <3>2. Occurs(After(b), End) => Parsed[Left(b)] \in Outcomes
      BY <3>1, ParsedTyped
    <3> QED
      BY <3>1, <3>2 DEF Outcomes
  <2>12. CASE ~Occurs(After(b), End)
    BY <2>8, <2>9, <2>12, PrefixedOutcome
  <2>13. CASE Occurs(After(b), End) /\ body \in Bodies
    <3> HIDE DEF before, body, r, s
    <3>1. Parsed[s] = Outcome(Join(a, before), body, FALSE)
          /\ Parsed[b] = Outcome(before, body, FALSE)
      BY <2>8, <2>9, <2>13
    <3>2. Parsed[s] = Prefixed(a, FALSE, Parsed[b])
      BY <3>1, PrefixedOutcome
    <3> QED
      BY <3>2 DEF s
  <2>14. CASE Occurs(After(b), End) /\ body \notin Bodies
    <3> HIDE DEF before, body, v, s
    <3> DEFINE w == Join(Join(Join(Join(before, Start), body), End), v)
               x == Join(Join(Join(Join(Join(a, before), Start), body), End), v)
    <3>1. x = Join(a, w)
      <4> DEFINE t == Join(Start, Join(body, Join(End, v)))
      <4>1. before \in Text /\ body \in Text /\ v \in Text /\ Join(a, before) \in Text
        BY <2>10, <2>11, <2>14, Joined
      <4>2. w = Join(before, t)
        BY <4>1, Sentinels, FromLeft
      <4>3. x = Join(Join(a, before), t)
        BY <4>1, Sentinels, FromLeft
      <4>4. t \in Text
        BY <4>1, Sentinels, Joined
      <4> HIDE DEF w, x, t
      <4> QED
        BY <4>1, <4>2, <4>3, <4>4, Regroup
    <3>2. Parsed[s] = Outcome(x, r.call, TRUE)
      BY <2>8, <2>14 DEF v
    <3>3. Parsed[b] = Outcome(w, r.call, TRUE)
      BY <2>9, <2>14 DEF v
    <3> HIDE DEF w, x
    <3>4. Parsed[s] = Prefixed(a, FALSE, Parsed[b])
      BY <3>1, <3>2, <3>3, PrefixedOutcome
    <3> QED
      BY <3>4 DEF s
  <2> QED
    BY <2>12, <2>13, <2>14
<1> QED
  BY <1>4, <1>5

\* A text ends with what was joined to its end.
LEMMA SuffixOfJoin ==
  ASSUME NEW a \in Text, NEW t \in Text
  PROVE  IsSuffix(t, Join(a, t))
<1> DEFINE j == Join(a, t)
           n == Len(t)
           r == Reverse(t)
           q == Reverse(j)
<1>1. /\ j \in Text /\ n \in Nat /\ Len(a) \in Nat /\ Len(j) = Len(a) + n
      /\ \A i \in 1..n : j[Len(a) + i] = t[i]
  BY Joined, Lengths, JoinAt
<1>2. /\ r \in Text /\ Len(r) = n /\ \A i \in 1..n : r[i] = t[(n - i) + 1]
      /\ q \in Text /\ Len(q) = Len(j) /\ \A i \in 1..Len(j) : q[i] = j[(Len(j) - i) + 1]
  BY <1>1, Reversed
<1> HIDE DEF j, n, r, q
<1>3. ASSUME NEW i \in 1..n PROVE q[i] = r[i]
  <2>1. i \in 1..Len(j) /\ (n - i) + 1 \in 1..n
        /\ (Len(j) - i) + 1 = Len(a) + ((n - i) + 1)
    BY <1>1
  <2> QED
    BY <1>1, <1>2, <2>1
<1>4. n \in 0..Len(q) /\ n \in 0..Len(r)
  BY <1>1, <1>2
<1>5. /\ Take(q, n) \in Text /\ Len(Take(q, n)) = n /\ \A i \in 1..n : Take(q, n)[i] = q[i]
      /\ Take(r, n) \in Text /\ Len(Take(r, n)) = n /\ \A i \in 1..n : Take(r, n)[i] = r[i]
  BY <1>2, <1>4, CutAt
<1>6. Take(q, n) = Take(r, n)
  BY <1>3, <1>5, SameText
<1>7. IsPrefix(r, q)
  BY <1>1, <1>2, <1>6 DEF IsPrefix, Take
<1> QED
  BY <1>7 DEF IsSuffix, r, q, j

\* However the text goes on, no sentinel begins in what Emit gives out.
LEMMA NoneCut ==
  ASSUME NEW s \in Text, NEW u \in Text, NEW a \in Text, NEW b \in Text,
         ~Occurs(s, Start), s = Join(a, b), Len(a) = Len(s) - CandidatePrefixLen(s)
  PROVE  Clear(a, Join(b, u), Start)
<1> DEFINE c == CandidatePrefixLen(s)
           m == Len(Start)
<1>1. /\ c \in Nat /\ m \in Nat \ {0} /\ Len(s) \in Nat /\ Len(s) - c \in 0..Len(s)
      /\ \A k \in 0..(m - 1) : IsSuffix(Take(Start, k), s) => k <= c
  <2>1. Len(Start) \in Nat \ {0}
    BY ParserAssumption, EmptySeq DEF Text
  <2>2. Len(s) \in Nat
    BY Lengths
  <2> QED
    BY <2>1, <2>2, HeldBack
<1> HIDE DEF c
<1>2. Join(a, Join(b, u)) = Join(s, u) /\ Join(s, u) \in Text
  BY Regroup, Joined
<1> SUFFICES ASSUME NEW i \in Nat, i < Len(a), OccursAt(Join(s, u), i, Start) PROVE FALSE
  BY <1>2 DEF Clear
<1>3. i < Len(s) - c /\ i < Len(s)
  BY <1>1 DEF c
<1>4. CASE i + m <= Len(s)
  <2>1. OccursAt(s, i, Start)
    BY <1>4, Sentinels, OccursLeft
  <2> QED
    BY <2>1, Sentinels, OccursSomewhere
<1>5. CASE ~(i + m <= Len(s))
  <2> DEFINE k == Len(s) - i
             t == Drop(s, i)
  <2>1. k \in Nat /\ k \in 0..(m - 1) /\ k \in 0..m /\ k > c /\ i \in 0..Len(s)
    BY <1>1, <1>3, <1>5
  <2>2. /\ t \in Text /\ Len(t) = k /\ \A j \in 1..k : t[j] = s[i + j]
        /\ Take(s, i) \in Text /\ s = Join(Take(s, i), t)
    BY <2>1, CutAt, TakeDrop DEF Join
  <2>3. /\ Take(Start, k) \in Text /\ Len(Take(Start, k)) = k
        /\ \A j \in 1..k : Take(Start, k)[j] = Start[j]
    BY <2>1, Sentinels, CutAt
  <2>4. \A j \in 1..m : Join(s, u)[i + j] = Start[j]
    BY <1>2, Sentinels, OccursLetters
  <2>5. \A j \in 1..Len(s) : Join(s, u)[j] = s[j]
    BY JoinAt
  <2>6. \A j \in 1..k : j \in 1..m /\ i + j \in 1..Len(s)
    BY <1>1, <2>1
  <2> HIDE DEF k, t
  <2>7. \A j \in 1..k : t[j] = Take(Start, k)[j]
    BY <2>2, <2>3, <2>4, <2>5, <2>6
  <2>8. t = Take(Start, k)
    BY <2>2, <2>3, <2>7, SameText
  <2>9. IsSuffix(Take(Start, k), s)
    BY <2>2, <2>8, SuffixOfJoin
  <2>10. k <= c
    BY <1>1, <2>1, <2>9
  <2> QED
    BY <1>1, <2>1, <2>10
<1> QED
  BY <1>4, <1>5

\* A text that begins a region.
LEMMA BeginsRegion ==
  ASSUME NEW p \in Text
  PROVE  /\ ~Occurs(p, End) => Parsed[Join(Start, p)] = Outcome(Join(Start, p), NoCall, TRUE)
         /\ Occurs(p, End) =>
              LET body == Take(p, Find(p, End))
                  rest == Drop(p, Find(p, End) + Len(End))
              IN  Parsed[Join(Start, p)] =
                    IF body \in Bodies THEN Outcome(<<>>, body, FALSE)
                    ELSE Prefixed(Join(Start, Join(body, End)), TRUE, Parsed[rest])
<1> DEFINE s == Join(Start, p)
<1>1. s \in Text /\ Len(Start) \in Nat
  BY Sentinels, Joined, Lengths
<1>2. OccursAt(s, 0, Start)
  <2>1. Len(s) = Len(Start) + Len(p) /\ \A j \in 1..Len(Start) : s[j] = Start[j]
    BY Sentinels, JoinAt
  <2>2. Len(p) \in Nat /\ \A j \in 1..Len(Start) : 0 + j = j
    BY <1>1, Lengths
  <2> HIDE DEF s
  <2>3. 0 + Len(Start) <= Len(s) /\ \A j \in 1..Len(Start) : s[0 + j] = Start[j]
    BY <1>1, <2>1, <2>2
  <2> QED
    BY <1>1, <2>3, Sentinels, OccursLetters
<1>3. Occurs(s, Start) /\ Find(s, Start) = 0
  <2> HIDE DEF s
  <2> QED
    BY <1>1, <1>2, Sentinels, FirstFound
<1>4. After(s) = p
  <2>1. Drop(s, Len(Start)) = p
    BY Sentinels, CutJoin
  <2>2. 0 + Len(Start) = Len(Start)
    BY <1>1
  <2> QED
    BY <1>3, <2>1, <2>2 DEF After
<1>5. Take(s, Find(s, Start)) = <<>>
  BY <1>3, SubSeqEmpty DEF Take
<1>6. Body(s) = Take(p, Find(p, End)) /\ Left(s) = Drop(p, Find(p, End) + Len(End))
  BY <1>4 DEF Body, Left
<1>7. Parsed[s] = Scan(Parsed, s)
  BY <1>1, ParsedScan
<1>8. CASE ~Occurs(p, End)
  BY <1>3, <1>4, <1>7, <1>8, Zenon DEF Scan
<1>9. CASE Occurs(p, End)
  <2> DEFINE body == Take(p, Find(p, End))
             rest == Drop(p, Find(p, End) + Len(End))
             r == Parsed[rest]
             v == r.visible
  <2>1. Parsed[s] = IF body \in Bodies THEN Outcome(<<>>, body, FALSE)
                    ELSE Outcome(Join(Join(Join(Join(<<>>, Start), body), End), v), r.call, TRUE)
    BY <1>3, <1>4, <1>5, <1>6, <1>7, <1>9, Zenon DEF Scan, Join
  <2>2. body \in Text /\ rest \in Text
    BY <1>1, <1>3, <1>4, <1>6, <1>9, Regions
  <2>3. r \in Outcomes /\ v \in Text /\ r.invalid \in BOOLEAN
    <3>1. r \in Outcomes
      BY <2>2, ParsedTyped
    <3> QED
      BY <3>1 DEF Outcomes
  <2> HIDE DEF s, body, rest, r, v
  <2>4. Join(Join(Join(Join(<<>>, Start), body), End), v) = Join(Join(Start, Join(body, End)), v)
    <3>1. Join(<<>>, Start) = Start
      BY Sentinels, JoinEmpty
    <3>2. Join(Join(Start, body), End) = Join(Start, Join(body, End))
      BY <2>2, Sentinels, Regroup
    <3> QED
      BY <3>1, <3>2
  <2>5. Prefixed(Join(Start, Join(body, End)), TRUE, r)
          = Outcome(Join(Join(Start, Join(body, End)), v), r.call, TRUE)
    <3>1. (TRUE \/ r.invalid) = TRUE
      OBVIOUS
    <3> QED
      BY <3>1, Zenon DEF Prefixed, v
  <2>6. Parsed[s] = IF body \in Bodies THEN Outcome(<<>>, body, FALSE)
                    ELSE Prefixed(Join(Start, Join(body, End)), TRUE, r)
    BY <2>1, <2>4, <2>5
  <2> QED
    BY <1>9, <2>6, Zenon DEF s, body, rest, r
<1> QED
  BY <1>8, <1>9

-----------------------------------------------------------------------------
(* However the text goes on, the parser that sees it whole comes to what   *)
(* was given out, and then to what it makes of what is held.               *)

Coming ==
  pc # "final" /\ call = NoCall =>
    \A u \in Text :
       Parsed[Join(text, u)] = Prefixed(output, invalid, Parsed[Join(Held, u)])

\* After a call nothing changes any more.
Settled ==
  pc # "final" /\ call # NoCall =>
    \A u \in Text : Parsed[Join(text, u)] = Outcome(output, call, invalid)

\* Between increments no sentinel is left unread.
Scanned ==
  pc = "ready" =>
    IF inEnvelope THEN ~Occurs(pending, End) ELSE ~Occurs(pending, Start)

Ahead == Coming /\ Settled /\ Scanned /\ CutsDoNotMatter

LEMMA EmptyClear ==
  /\ ~Occurs(<<>>, Start) /\ ~Occurs(<<>>, End)
  /\ \A s \in Text : Len(s) < Len(Start) => ~Occurs(s, Start)
<1>1. \A s, word \in Text : Len(s) < Len(word) => ~Occurs(s, word)
  <2> TAKE s, word \in Text
  <2>1. Len(s) \in Nat /\ Len(word) \in Nat
    BY Lengths
  <2>2. \A i \in Nat : OccursAt(s, i, word) => i + Len(word) <= Len(s)
    BY DEF OccursAt
  <2>3. Len(s) < Len(word) => ~ \E i \in Nat : OccursAt(s, i, word)
    BY <2>1, <2>2
  <2> QED
    BY <2>3, OccursSomewhere
<1>2. Len(<<>>) = 0 /\ <<>> \in Text /\ Len(Start) \in Nat \ {0} /\ Len(End) \in Nat \ {0}
  BY ParserAssumption, EmptySeq DEF Text
<1>3. 0 < Len(Start) /\ 0 < Len(End)
  BY <1>2
<1> QED
  BY <1>1, <1>2, <1>3, Sentinels

LEMMA AheadInit == Init => Ahead
<1> SUFFICES ASSUME Init PROVE Ahead
  OBVIOUS
<1>1. /\ pc = "ready" /\ text = <<>> /\ output = <<>> /\ Held = <<>> /\ pending = <<>>
      /\ call = NoCall /\ invalid = FALSE /\ inEnvelope = FALSE
  BY DEF Init, Held
<1>2. ASSUME NEW u \in Text
      PROVE  Parsed[Join(<<>>, u)] = Prefixed(<<>>, FALSE, Parsed[Join(<<>>, u)])
  <2> DEFINE r == Parsed[u]
  <2>1. r \in Outcomes
    BY ParsedTyped
  <2> HIDE DEF r
  <2>2. r = Outcome(r.visible, r.call, r.invalid) /\ r.visible \in Text /\ r.invalid \in BOOLEAN
    BY <2>1 DEF Outcomes, Outcome
  <2>3. Prefixed(<<>>, FALSE, r) = Outcome(Join(<<>>, r.visible), r.call, r.invalid)
    BY <2>2, PrefixedOutcome
  <2> QED
    BY <2>2, <2>3, JoinEmpty DEF r
<1> QED
  BY <1>1, <1>2, EmptyClear DEF Ahead, Coming, Settled, Scanned, CutsDoNotMatter

LEMMA FeedAhead ==
  ASSUME IInv, Ahead, Feed
  PROVE  Ahead'
<1>1. PICK chunk \in Text : text' = Join(text, chunk) /\ pending' = Join(pending, chunk)
  <2>1. PICK n \in 1..MaxChunk : \E c \in [1..n -> Chars] :
          text' = text \o c /\ pending' = pending \o c
    BY DEF Feed
  <2>2. n \in Nat
    BY ParserAssumption
  <2>3. PICK c \in [1..n -> Chars] : text' = text \o c /\ pending' = pending \o c
    BY <2>1
  <2>4. c \in Text
    BY <2>2, SeqDef DEF Text
  <2> QED
    BY <2>3, <2>4 DEF Join
<1>2. /\ pc = "ready" /\ pc' = "loop" /\ call = NoCall
      /\ inEnvelope' = inEnvelope /\ call' = call /\ invalid' = invalid /\ output' = output
  BY DEF Feed
<1>3. /\ text \in Text /\ pending \in Text /\ Held \in Text
      /\ Held = IF inEnvelope THEN Join(Start, pending) ELSE pending
  BY Split DEF IInv
<1>4. Held' = Join(Held, chunk)
  <2>1. Held' = IF inEnvelope' THEN Join(Start, pending') ELSE pending'
    BY FeedStep, SplitNext DEF IInv
  <2> QED
    BY <1>1, <1>2, <1>3, <2>1, Sentinels, Regroup
<1>5. ASSUME NEW u \in Text
      PROVE  Parsed[Join(text', u)] = Prefixed(output, invalid, Parsed[Join(Held', u)])
  <2>1. Join(text', u) = Join(text, Join(chunk, u)) /\ Join(Held', u) = Join(Held, Join(chunk, u))
        /\ Join(chunk, u) \in Text
    <3>1. /\ Join(chunk, u) \in Text
          /\ Join(Join(text, chunk), u) = Join(text, Join(chunk, u))
          /\ Join(Join(Held, chunk), u) = Join(Held, Join(chunk, u))
      <4>1. text \in Text /\ Held \in Text
        BY <1>3
      <4>2. Join(chunk, u) \in Text
        BY Joined
      <4>3. Join(Join(text, chunk), u) = Join(text, Join(chunk, u))
        BY <4>1, Regroup
      <4> DEFINE h == Held
      <4>4. h \in Text
        BY <4>1
      <4> HIDE DEF h
      <4>5. Join(Join(h, chunk), u) = Join(h, Join(chunk, u))
        BY <4>4, Regroup
      <4> QED
        BY <4>2, <4>3, <4>5 DEF h
    <3> QED
      BY <1>1, <1>4, <3>1
  <2> QED
    BY <1>2, <2>1 DEF Ahead, Coming
<1> QED
  BY <1>2, <1>5 DEF Ahead, Coming, Settled, Scanned, CutsDoNotMatter

LEMMA FeedDoneAhead ==
  ASSUME IInv, Ahead, FeedDone
  PROVE  Ahead'
<1>1. PICK last \in Text : text' = Join(text, last)
  <2>1. PICK c \in Chars : text' = Append(text, c)
    BY DEF FeedDone
  <2>2. <<c>> \in Text /\ text \in Text
    BY DEF Text, IInv, TypeOK
  <2>3. text' = text \o <<c>>
    BY <2>1, <2>2, AppendIsConcat DEF Text
  <2> QED
    BY <2>2, <2>3 DEF Join
<1>2. /\ pc = "ready" /\ call # NoCall /\ pc' = pc /\ pending' = pending
      /\ inEnvelope' = inEnvelope /\ call' = call /\ invalid' = invalid /\ output' = output
  BY DEF FeedDone
<1>3. text \in Text
  BY Split DEF IInv
<1>4. ASSUME NEW u \in Text
      PROVE  Parsed[Join(text', u)] = Outcome(output, call, invalid)
  <2>1. Join(text', u) = Join(text, Join(last, u)) /\ Join(last, u) \in Text
    BY <1>1, <1>3, Regroup, Joined
  <2> QED
    BY <1>2, <2>1 DEF Ahead, Settled
<1> QED
  BY <1>2, <1>4 DEF Ahead, Coming, Settled, Scanned, CutsDoNotMatter

LEMMA CloseAhead ==
  ASSUME IInv, Ahead, Close
  PROVE  Ahead'
<1>1. /\ pc = "loop" /\ inEnvelope /\ Occurs(pending, End)
      /\ text' = text /\ inEnvelope' = FALSE
  BY DEF Close
<1>2. call = NoCall
  BY <1>1 DEF IInv, Consumed
<1>3. /\ text \in Text /\ pending \in Text /\ output \in Text /\ invalid \in BOOLEAN
      /\ Held = Join(Start, pending)
  BY <1>1, Split DEF IInv, TypeOK
<1> DEFINE at   == Find(pending, End)
           body == Take(pending, at)
           rest == Drop(pending, at + Len(End))
<1>4. body \in Text /\ rest \in Text
  BY <1>1, <1>3, Sentinels, Found, TakeDrop
<1>5. \/ /\ body \in Bodies /\ call' = body /\ pending' = <<>> /\ pc' = "ready"
         /\ invalid' = invalid /\ output' = output
      \/ /\ body \notin Bodies /\ invalid' = TRUE /\ pending' = rest
         /\ pc' = pc /\ call' = call
         /\ output' = Join(Join(Join(output, Start), body), End)
  BY DEF Close, Join
<1>6. ASSUME NEW u \in Text
      PROVE  Parsed[Join(text, u)] =
               IF body \in Bodies THEN Outcome(output, body, invalid)
               ELSE Prefixed(Join(Join(Join(output, Start), body), End), TRUE,
                             Parsed[Join(rest, u)])
  <2> DEFINE p == Join(pending, u)
  <2>1. p \in Text /\ Join(Held, u) = Join(Start, p)
    BY <1>3, Sentinels, Joined, Regroup
  <2>2. Occurs(p, End) /\ Find(p, End) = at
    BY <1>1, <1>3, Sentinels, FindLeft
  <2>3. Take(p, at) = body /\ Drop(p, at + Len(End)) = Join(rest, u)
    <3>1. at \in 0..Len(pending) /\ at + Len(End) \in 0..Len(pending)
      BY <1>1, <1>3, Sentinels, Found
    <3> QED
      BY <1>3, <3>1, CutLeft
  <2> HIDE DEF p, at, body, rest
  <2>4. Parsed[Join(Start, p)] =
          IF body \in Bodies THEN Outcome(<<>>, body, FALSE)
          ELSE Prefixed(Join(Start, Join(body, End)), TRUE, Parsed[Join(rest, u)])
    BY <2>1, <2>2, <2>3, BeginsRegion
  <2>5. Parsed[Join(text, u)] = Prefixed(output, invalid, Parsed[Join(Start, p)])
    BY <1>1, <1>2, <2>1 DEF Ahead, Coming
  <2>6. CASE body \in Bodies
    <3>1. Prefixed(output, invalid, Outcome(<<>>, body, FALSE)) = Outcome(Join(output, <<>>), body, invalid)
      BY <1>3, PrefixedOutcome
    <3> QED
      BY <1>3, <2>4, <2>5, <2>6, <3>1, JoinEmpty
  <2>7. CASE body \notin Bodies
    <3> DEFINE r == Parsed[Join(rest, u)]
               e == Join(Start, Join(body, End))
    <3>1. r \in Outcomes /\ e \in Text
      BY <1>4, Sentinels, Joined, ParsedTyped
    <3>2. Join(output, e) = Join(Join(Join(output, Start), body), End)
      <4>1. Join(output, Start) \in Text /\ Join(body, End) \in Text
        BY <1>3, <1>4, Sentinels, Joined
      <4>2. Join(Join(Join(output, Start), body), End) = Join(Join(output, Start), Join(body, End))
        BY <1>4, <4>1, Sentinels, Regroup
      <4>3. Join(Join(output, Start), Join(body, End)) = Join(output, e)
        BY <1>3, <4>1, Sentinels, Regroup
      <4> QED
        BY <4>2, <4>3
    <3> HIDE DEF r, e
    <3>3. (invalid \/ TRUE) = TRUE
      OBVIOUS
    <3>4. Prefixed(output, invalid, Prefixed(e, TRUE, r)) = Prefixed(Join(output, e), TRUE, r)
      <4>1. ASSUME NEW worse \in BOOLEAN
            PROVE  Prefixed(output, invalid, Prefixed(e, worse, r))
                     = Prefixed(Join(output, e), invalid \/ worse, r)
        BY <1>3, <3>1, PrefixedTwice
      <4> QED
        BY <3>3, <4>1, Zenon
    <3> QED
      BY <2>4, <2>5, <2>7, <3>2, <3>4 DEF r, e
  <2> QED
    BY <2>6, <2>7
<1>7. Held' = IF inEnvelope' THEN Join(Start, pending') ELSE pending'
  BY CloseStep, SplitNext DEF IInv
<1> HIDE DEF at, body, rest
<1>8. CASE /\ body \in Bodies /\ call' = body /\ pending' = <<>> /\ pc' = "ready"
           /\ invalid' = invalid /\ output' = output
  <2>1. call' # NoCall
    BY <1>8, Sentinels
  <2>2. \A u \in Text : Parsed[Join(text', u)] = Outcome(output', call', invalid')
    BY <1>1, <1>6, <1>8
  <2> QED
    BY <1>1, <1>8, <2>1, <2>2, EmptyClear DEF Ahead, Coming, Settled, Scanned, CutsDoNotMatter
<1>9. CASE /\ body \notin Bodies /\ invalid' = TRUE /\ pending' = rest
           /\ pc' = pc /\ call' = call
           /\ output' = Join(Join(Join(output, Start), body), End)
  <2>1. Held' = rest
    BY <1>1, <1>7, <1>9
  <2>2. \A u \in Text : Parsed[Join(text', u)]
                          = Prefixed(output', invalid', Parsed[Join(Held', u)])
    BY <1>1, <1>6, <1>9, <2>1
  <2> QED
    BY <1>1, <1>2, <1>9, <2>2 DEF Ahead, Coming, Settled, Scanned, CutsDoNotMatter
<1> QED
  BY <1>5, <1>8, <1>9

\* What Open and Emit give out goes through, and the rest is as it was.
LEMMA ShowsAhead ==
  ASSUME IInv, Ahead, pc # "final", call = NoCall, ~inEnvelope,
         NEW shown \in Text, NEW rest \in Text, pending = Join(shown, rest),
         NEW u \in Text, Clear(shown, Join(rest, u), Start)
  PROVE  Parsed[Join(text, u)] = Prefixed(Join(output, shown), invalid, Parsed[Join(rest, u)])
<1>1. output \in Text /\ invalid \in BOOLEAN /\ Held = pending
  BY Split DEF IInv, TypeOK
<1>2. Join(rest, u) \in Text /\ Join(Held, u) = Join(shown, Join(rest, u))
  BY <1>1, Joined, Regroup
<1> DEFINE r == Parsed[Join(rest, u)]
<1>3. r \in Outcomes
  BY <1>2, ParsedTyped
<1>4. Parsed[Join(Held, u)] = Prefixed(shown, FALSE, r)
  BY <1>2, Skips
<1>5. Parsed[Join(text, u)] = Prefixed(output, invalid, Prefixed(shown, FALSE, r))
  BY <1>4 DEF Ahead, Coming
<1> HIDE DEF r
<1>6. (invalid \/ FALSE) = invalid
  BY <1>1
<1>7. ASSUME NEW worse \in BOOLEAN
      PROVE  Prefixed(output, invalid, Prefixed(shown, worse, r))
               = Prefixed(Join(output, shown), invalid \/ worse, r)
  BY <1>1, <1>3, PrefixedTwice
<1>8. Prefixed(output, invalid, Prefixed(shown, FALSE, r)) = Prefixed(Join(output, shown), invalid, r)
  BY <1>6, <1>7, Zenon
<1> QED
  BY <1>5, <1>8 DEF r

LEMMA OpenAhead ==
  ASSUME IInv, Ahead, Open
  PROVE  Ahead'
<1>1. /\ pc = "loop" /\ ~inEnvelope /\ Occurs(pending, Start)
      /\ text' = text /\ inEnvelope' = TRUE
      /\ pc' = pc /\ call' = call /\ invalid' = invalid
  BY DEF Open
<1>2. call = NoCall
  BY <1>1 DEF IInv, Consumed
<1>3. pending \in Text
  BY Split DEF IInv
<1> DEFINE at     == Find(pending, Start)
           before == Take(pending, at)
           rest   == Drop(pending, at + Len(Start))
<1>4. /\ at \in Nat /\ at \in 0..Len(pending)
      /\ pending = Join(before, Join(Start, rest)) /\ before \in Text /\ rest \in Text
      /\ Len(before) = at
  <2>1. at \in 0..Len(pending) /\ at + Len(Start) \in 0..Len(pending)
        /\ pending = Join(before, Join(Start, rest))
    BY <1>1, <1>3, Sentinels, Found
  <2>2. at \in Nat
    BY <1>1, <1>3, Sentinels, FoundFirst
  <2> QED
    BY <1>3, <2>1, <2>2, TakeDrop
<1>5. output' = Join(output, before) /\ pending' = rest
  BY DEF Open, Join
<1>6. ASSUME NEW u \in Text
      PROVE  Clear(before, Join(Join(Start, rest), u), Start)
  <2> DEFINE p == Join(pending, u)
  <2>1. p \in Text /\ Occurs(p, Start) /\ Find(p, Start) = at
    BY <1>1, <1>3, Sentinels, Joined, FindLeft
  <2>2. p = Join(before, Join(Join(Start, rest), u))
    BY <1>4, Sentinels, Joined, Regroup
  <2> HIDE DEF p
  <2>3. \A j \in Nat : j < at => ~OccursAt(p, j, Start)
    BY <2>1, Sentinels, FoundFirst
  <2> QED
    BY <1>4, <2>2, <2>3 DEF Clear
<1>7. Held' = Join(Start, rest)
  <2>1. Held' = IF inEnvelope' THEN Join(Start, pending') ELSE pending'
    BY OpenStep, SplitNext DEF IInv
  <2> QED
    BY <1>1, <1>5, <2>1
<1> HIDE DEF at, before, rest
<1>8. ASSUME NEW u \in Text
      PROVE  Parsed[Join(text, u)]
               = Prefixed(Join(output, before), invalid, Parsed[Join(Join(Start, rest), u)])
  <2>1. Join(Start, rest) \in Text
    BY <1>4, Sentinels, Joined
  <2> QED
    BY <1>1, <1>2, <1>4, <1>6, <2>1, ShowsAhead
<1>9. \A u \in Text : Parsed[Join(text', u)]
                        = Prefixed(output', invalid', Parsed[Join(Held', u)])
  BY <1>1, <1>5, <1>7, <1>8
<1> QED
  BY <1>1, <1>2, <1>9 DEF Ahead, Coming, Settled, Scanned, CutsDoNotMatter

LEMMA EmitAhead ==
  ASSUME IInv, Ahead, Emit
  PROVE  Ahead'
<1>1. /\ pc = "loop" /\ ~inEnvelope /\ ~Occurs(pending, Start)
      /\ text' = text /\ inEnvelope' = inEnvelope
      /\ pc' = "ready" /\ call' = call /\ invalid' = invalid
  BY DEF Emit
<1>2. call = NoCall
  BY <1>1 DEF IInv, Consumed
<1>3. pending \in Text
  BY Split DEF IInv
<1> DEFINE c       == CandidatePrefixLen(pending)
           visible == Len(pending) - c
           shown   == Take(pending, visible)
           rest    == Drop(pending, visible)
<1>4. /\ visible \in 0..Len(pending) /\ c \in 0..(Len(Start) - 1)
      /\ Len(pending) \in Nat /\ Len(Start) \in Nat
  BY <1>3, Sentinels, HeldBack, Lengths
<1>5. output' = Join(output, shown) /\ pending' = rest
  BY DEF Emit, Join
<1> HIDE DEF visible
<1>6. /\ pending = Join(shown, rest) /\ shown \in Text /\ rest \in Text
      /\ Len(shown) = visible /\ Len(rest) = Len(pending) - visible
  <2>1. pending = Join(shown, rest)
    BY <1>3, <1>4, TakeDrop DEF Join
  <2> QED
    BY <1>3, <1>4, <2>1, CutAt
<1> HIDE DEF shown, rest
<1>7. Len(rest) < Len(Start)
  <2>1. Len(rest) = c
    BY <1>4, <1>6 DEF visible
  <2> QED
    BY <1>4, <2>1
<1>8. Held' = rest
  <2>1. Held' = IF inEnvelope' THEN Join(Start, pending') ELSE pending'
    BY EmitStep, SplitNext DEF IInv
  <2> QED
    BY <1>1, <1>5, <2>1
<1>9. ASSUME NEW u \in Text
      PROVE  Parsed[Join(text, u)] = Prefixed(Join(output, shown), invalid, Parsed[Join(rest, u)])
  <2>1. Clear(shown, Join(rest, u), Start)
    BY <1>1, <1>3, <1>6, NoneCut DEF visible
  <2> QED
    BY <1>1, <1>2, <1>6, <2>1, ShowsAhead
<1>10. \A u \in Text : Parsed[Join(text', u)]
                         = Prefixed(output', invalid', Parsed[Join(Held', u)])
  BY <1>1, <1>5, <1>8, <1>9
<1>11. ~Occurs(pending', Start)
  BY <1>5, <1>6, <1>7, EmptyClear
<1> QED
  BY <1>1, <1>2, <1>10, <1>11 DEF Ahead, Coming, Settled, Scanned, CutsDoNotMatter

\* At the end what is held is all there is left to parse.
LEMMA FinalizeAhead ==
  ASSUME IInv, Ahead, Finalize
  PROVE  Ahead'
<1>1. /\ pc = "ready" /\ text' = text /\ call' = call /\ pc' = "final"
      /\ invalid' = (invalid \/ inEnvelope)
  BY DEF Finalize
<1>2. /\ text \in Text /\ pending \in Text /\ output \in Text /\ Held \in Text
      /\ Held = IF inEnvelope THEN Join(Start, pending) ELSE pending
      /\ invalid \in BOOLEAN /\ inEnvelope \in BOOLEAN
  BY Split DEF IInv, TypeOK
<1>3. output' = Join(output, Held)
  <2>1. CASE inEnvelope
    <3>1. output' = Join(Join(output, Start), pending)
      BY <2>1 DEF Finalize, Join
    <3> QED
      BY <1>2, <2>1, <3>1, Sentinels, Regroup
  <2>2. CASE ~inEnvelope
    BY <1>2, <2>2 DEF Finalize, Join
  <2> QED
    BY <2>1, <2>2
<1>4. Join(text, <<>>) = text /\ Join(Held, <<>>) = Held
  BY <1>2, JoinEmpty
<1>5. CASE call # NoCall
  <2>1. ~inEnvelope /\ Held = <<>>
    BY <1>2, <1>5 DEF IInv, Consumed
  <2>2. Parsed[text] = Outcome(output, call, invalid)
    BY <1>1, <1>4, <1>5, Sentinels DEF Ahead, Settled
  <2>3. output' = output /\ invalid' = invalid
    BY <1>1, <1>2, <1>3, <2>1, JoinEmpty
  <2> QED
    BY <1>1, <2>2, <2>3 DEF Ahead, Coming, Settled, Scanned, CutsDoNotMatter
<1>6. CASE call = NoCall
  <2>1. Parsed[text] = Prefixed(output, invalid, Parsed[Held])
    BY <1>1, <1>4, <1>6, Sentinels DEF Ahead, Coming
  <2>4. /\ Prefixed(output, invalid, Outcome(Held, NoCall, FALSE))
             = Outcome(Join(output, Held), NoCall, invalid)
        /\ Prefixed(output, invalid, Outcome(Held, NoCall, TRUE))
             = Outcome(Join(output, Held), NoCall, TRUE)
    <3> DEFINE h == Held
    <3> HIDE DEF h
    <3>1. /\ Prefixed(output, invalid, Outcome(h, NoCall, FALSE))
               = Outcome(Join(output, h), NoCall, invalid)
          /\ Prefixed(output, invalid, Outcome(h, NoCall, TRUE))
               = Outcome(Join(output, h), NoCall, TRUE)
      BY <1>2, PrefixedOutcome
    <3> QED
      BY <3>1 DEF h
  <2>2. CASE inEnvelope
    <3>1. Held = Join(Start, pending) /\ ~Occurs(pending, End)
      BY <1>1, <1>2, <2>2 DEF Ahead, Scanned
    <3>2. Parsed[Held] = Outcome(Held, NoCall, TRUE)
      BY <1>2, <3>1, BeginsRegion
    <3>3. Parsed[text] = Outcome(Join(output, Held), NoCall, TRUE)
      BY <2>1, <2>4, <3>2, Zenon
    <3>4. invalid' = TRUE
      BY <1>1, <2>2
    <3> QED
      BY <1>1, <1>3, <1>6, <3>3, <3>4 DEF Ahead, Coming, Settled, Scanned, CutsDoNotMatter
  <2>3. CASE ~inEnvelope
    <3>1. Held = pending /\ ~Occurs(Held, Start)
      BY <1>1, <1>2, <2>3 DEF Ahead, Scanned
    <3>2. Parsed[Held] = Outcome(Held, NoCall, FALSE)
      <4>1. Parsed[Held] = Scan(Parsed, Held)
        BY <1>2, ParsedScan
      <4> QED
        BY <3>1, <4>1, Zenon DEF Scan
    <3>3. Parsed[text] = Outcome(Join(output, Held), NoCall, invalid)
      BY <2>1, <2>4, <3>2, Zenon
    <3>4. invalid' = invalid
      BY <1>1, <1>2, <2>3
    <3> QED
      BY <1>1, <1>3, <1>6, <3>3, <3>4 DEF Ahead, Coming, Settled, Scanned, CutsDoNotMatter
  <2> QED
    BY <1>2, <2>2, <2>3
<1> QED
  BY <1>5, <1>6

LEMMA LoopAhead ==
  ASSUME IInv, Ahead, LoopEnds \/ Accumulate \/ UNCHANGED vars
  PROVE  Ahead'
<1>1. /\ text' = text /\ pending' = pending /\ inEnvelope' = inEnvelope /\ call' = call
      /\ invalid' = invalid /\ output' = output
      /\ pc' = pc \/ (pc = "loop" /\ pc' = "ready")
  BY DEF LoopEnds, Accumulate, vars
<1>2. Held' = Held
  BY <1>1 DEF Held
<1>3. Coming' /\ Settled' /\ CutsDoNotMatter'
  BY <1>1, <1>2 DEF Ahead, Coming, Settled, CutsDoNotMatter
<1>4. Scanned'
  <2>1. CASE LoopEnds
    BY <1>1, <2>1, EmptyClear DEF LoopEnds, Scanned
  <2>2. CASE Accumulate
    BY <1>1, <2>2 DEF Accumulate, Scanned
  <2>3. CASE UNCHANGED vars
    BY <2>3 DEF vars, Ahead, Scanned
  <2> QED
    BY <2>1, <2>2, <2>3
<1> QED
  BY <1>3, <1>4 DEF Ahead

\* However the model's text is cut into increments, the text a client sees,
\* the call and the repair flag are those of the text parsed in one piece
\* (parse_envelope and EnvelopeParser.feed, tool_envelope.py 268-272).
THEOREM CutsImmaterial == Spec => []CutsDoNotMatter
<1>1. IInv /\ Ahead /\ [Next]_vars => Ahead'
  BY FeedAhead, FeedDoneAhead, CloseAhead, OpenAhead, EmitAhead, FinalizeAhead, LoopAhead DEF Next
<1>2. Ahead => CutsDoNotMatter
  BY DEF Ahead
<1> QED
  BY <1>1, <1>2, AheadInit, ParserInv, PTL DEF Spec
=============================================================================
