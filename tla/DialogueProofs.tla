--------------------------- MODULE DialogueProofs ---------------------------
(***************************************************************************)
(* Proofs about Dialogue, for any words, answers, clock, store and length  *)
(* of run: the store and the counters, and what the operators of a turn    *)
(* compute.  The first two need nothing of what the folds over events and  *)
(* chunks compute: a universe of values that grows with the run holds it.  *)
(***************************************************************************)
EXTENDS Dialogue, LeastElement, SequenceTheorems, TLAPS

-----------------------------------------------------------------------------
(* The store, for any limit and any clock: who is evicted is stored, a     *)
(* commit stays within the limit, and what resolve finds is a proper part  *)
(* of what came in.                                                        *)

\* The store over a universe of messages, sessions and parents.
Rows(U) == [messages : Seq(U), session : U, parent : U, created : Nat, updated : Nat]

\* The fields of a conversation.
LEMMA RowFields ==
  ASSUME NEW U, NEW r \in Rows(U)
  PROVE  /\ r.messages \in Seq(U) /\ r.session \in U /\ r.parent \in U
         /\ r.created \in Nat /\ r.updated \in Nat
  BY DEF Rows

\* Whatever the clock has read there is exactly one place to evict from: the
\* order by update, birth and place has a least element.
LEMMA VictimStored ==
  ASSUME NEW U, NEW rows \in Seq(Rows(U)), rows # <<>>
  PROVE  /\ Victim(rows) \in DOMAIN rows
         /\ \A d \in DOMAIN rows \ {Victim(rows)} : Older(rows, Victim(rows), d)
<1> DEFINE D == DOMAIN rows
           Ups == {rows[c].updated : c \in D}
<1>1. D = 1..Len(rows) /\ Len(rows) \in Nat \ {0}
  BY LenProperties, EmptySeq
<1>2. \A c \in D : rows[c] \in Rows(U)
  BY <1>1, ElementOfSeq
<1>3. PICK u \in Ups : \A v \in Ups : u <= v
  <2>1. Ups \subseteq Nat /\ Ups # {}
    BY <1>1, <1>2 DEF Rows
  <2> QED
    BY <2>1, LeastNatural
<1> DEFINE D1 == {c \in D : rows[c].updated = u}
           Births == {rows[c].created : c \in D1}
<1>4. PICK b \in Births : \A v \in Births : b <= v
  <2>1. Births \subseteq Nat
    BY <1>1, <1>2 DEF Rows
  <2>2. Births # {}
    BY <1>3
  <2> QED
    BY <2>1, <2>2, LeastNatural
<1> DEFINE D2 == {c \in D1 : rows[c].created = b}
<1>5. PICK c \in D2 : \A d \in D2 : c <= d
  <2>1. D2 \subseteq Nat /\ D2 # {}
    BY <1>1, <1>4
  <2> QED
    BY <2>1, LeastNatural
<1>6. ASSUME NEW d \in D \ {c} PROVE Older(rows, c, d)
  <2>1. /\ rows[c].updated \in Nat /\ rows[d].updated \in Nat
        /\ rows[c].created \in Nat /\ rows[d].created \in Nat
        /\ c \in Nat /\ d \in Nat
    <3>1. c \in D /\ d \in D
      BY <1>5, <1>6
    <3>2. rows[c] \in Rows(U) /\ rows[d] \in Rows(U)
      BY <1>2, <3>1
    <3> QED
      BY <1>1, <3>1, <3>2, RowFields
  <2>2. rows[c].updated = u /\ rows[c].created = b /\ u <= rows[d].updated
    BY <1>3, <1>5
  <2>3. rows[d].updated = u => b <= rows[d].created
    BY <1>4
  <2>4. rows[d].updated = u /\ rows[d].created = b => c < d
    BY <1>5, <2>1
  <2> QED
    BY <2>1, <2>2, <2>3, <2>4 DEF Older
<1> QED
  BY <1>5, <1>6 DEF Victim

\* Only one conversation too many can be in the store, and it goes.
LEMMA EvictionBounds ==
  ASSUME NEW U, NEW rows \in Seq(Rows(U)), Len(rows) \in 1..(MaxConvs + 1)
  PROVE  /\ EvictIfNeeded(rows) \in Seq(Rows(U))
         /\ Len(EvictIfNeeded(rows)) \in 1..MaxConvs
<1>0. MaxConvs \in Nat \ {0}
  BY StoreAssumption
<1>1. CASE Len(rows) <= MaxConvs
  BY <1>0, <1>1 DEF EvictIfNeeded
<1>2. CASE Len(rows) = MaxConvs + 1
  <2> DEFINE v == Victim(rows)
             before == SubSeq(rows, 1, v - 1)
             after  == SubSeq(rows, v + 1, Len(rows))
  <2>1. v \in 1..Len(rows) /\ Len(rows) \in Nat
    BY <1>0, <1>2, VictimStored, LenProperties, EmptySeq
  <2>2. \A i \in 1..Len(rows) : rows[i] \in Rows(U)
    BY ElementOfSeq
  <2> HIDE DEF v
  <2>3. before \in Seq(Rows(U)) /\ Len(before) = v - 1
    <3>1. 1 \in Int /\ v - 1 \in Int /\ \A i \in 1..(v - 1) : rows[i] \in Rows(U)
      BY <2>1, <2>2
    <3> QED
      BY <2>1, <3>1, SubSeqProperties
  <2>4. after \in Seq(Rows(U)) /\ Len(after) = Len(rows) - v
    <3>1. v + 1 \in Int /\ Len(rows) \in Int /\ \A i \in (v + 1)..Len(rows) : rows[i] \in Rows(U)
      BY <2>1, <2>2
    <3>2. Len(after) = IF v + 1 <= Len(rows) THEN Len(rows) - (v + 1) + 1 ELSE 0
      BY <3>1, SubSeqProperties
    <3> QED
      BY <2>1, <3>1, <3>2, SubSeqProperties
  <2> HIDE DEF before, after
  <2>5. before \o after \in Seq(Rows(U)) /\ Len(before \o after) = Len(rows) - 1
    <3>1. before \o after \in Seq(Rows(U))
          /\ Len(before \o after) = Len(before) + Len(after)
      BY <2>3, <2>4, ConcatProperties, Zenon
    <3> QED
      BY <2>1, <2>3, <2>4, <3>1
  <2>6. EvictIfNeeded(rows) = before \o after
    <3>1. Len(rows) > MaxConvs
      BY <1>0, <1>2
    <3> QED
      BY <3>1, Zenon DEF EvictIfNeeded, RemoveAt, before, after, v
  <2> QED
    BY <1>0, <1>2, <2>5, <2>6
<1> QED
  BY <1>0, <1>1, <1>2

\* A larger universe holds the same conversations.
LEMMA RowsGrow ==
  ASSUME NEW U, NEW V, U \subseteq V
  PROVE  Seq(Rows(U)) \subseteq Seq(Rows(V))
<1>1. Seq(U) \subseteq Seq(V)
  BY SeqMonotonic
<1>2. Rows(U) \subseteq Rows(V)
  BY <1>1 DEF Rows
<1> QED
  BY <1>2, SeqMonotonic

\* A commit leaves a store within the limit, whether it updates a conversation,
\* puts one in, or loses it again.
LEMMA CommitKeepsRows ==
  ASSUME NEW U, Null \in U, store \in Seq(Rows(U)), Len(store) <= MaxConvs,
         NEW c \in Nat, NEW told \in Seq(U), NEW session \in U, NEW parent \in U,
         NEW now \in Instants, CommitTurn(c, told, session, parent, now)
  PROVE  store' \in Seq(Rows(U)) /\ Len(store') <= MaxConvs
<1>0. now \in Nat /\ MaxConvs \in Nat \ {0} /\ Len(store) \in Nat
  BY StoreAssumption, LenProperties
<1>1. \A r \in Rows(U) : Written(r, told, session, parent, now) \in Rows(U)
  BY <1>0 DEF Written, Rows
<1>2. CASE CommitKnown(c, told, session, parent, now)
  <2> DEFINE new == Written(store[c], told, session, parent, now)
  <2>1. c \in 1..Len(store)
    BY <1>2, LenProperties DEF CommitKnown
  <2>2. new \in Rows(U)
    BY <1>1, <2>1, ElementOfSeq
  <2>3. store' = [store EXCEPT ![c] = new]
    BY <1>2 DEF CommitKnown
  <2> HIDE DEF new
  <2> QED
    BY <2>1, <2>2, <2>3, ExceptSeq
<1>3. CASE CommitNew(told, session, parent, now)
  <2> DEFINE rows == Born(now)
             kept == EvictIfNeeded(rows)
             n    == Len(kept)
             new  == Written(kept[n], told, session, parent, now)
  <2>1. NewConversation(now) \in Rows(U)
    BY <1>0, EmptySeq DEF NewConversation, Rows
  <2>2. rows \in Seq(Rows(U)) /\ Len(rows) = Len(store) + 1
    BY <2>1, AppendProperties DEF Born
  <2>3. Len(rows) \in 1..(MaxConvs + 1)
    BY <1>0, <2>2
  <2> HIDE DEF rows
  <2>4. kept \in Seq(Rows(U)) /\ n \in 1..MaxConvs
    BY <2>2, <2>3, EvictionBounds
  <2>5. store' = kept \/ store' = [kept EXCEPT ![n] = new]
    BY <1>3 DEF CommitNew, rows
  <2> HIDE DEF kept, new
  <2>6. new \in Rows(U)
    <3>1. kept[n] \in Rows(U)
      BY <1>0, <2>4, ElementOfSeq
    <3> QED
      BY <1>1, <3>1 DEF new
  <2>7. n \in 1..n
    BY <1>0, <2>4
  <2> DEFINE filled == [kept EXCEPT ![n] = new]
  <2>8. filled \in Seq(Rows(U)) /\ Len(filled) = n
    BY <2>4, <2>6, <2>7, ExceptSeq
  <2>9. store' = kept \/ store' = filled
    BY <2>5
  <2> HIDE DEF filled
  <2> QED
    BY <1>0, <2>4, <2>8, <2>9
<1> QED
  BY <1>2, <1>3 DEF CommitTurn

\* A link that is dropped leaves the number of conversations alone.
LEMMA InvalidateKeepsRows ==
  ASSUME NEW U, Null \in U, store \in Seq(Rows(U)), NEW c \in Nat, Invalidate(c)
  PROVE  store' \in Seq(Rows(U)) /\ Len(store') = Len(store)
<1>1. CASE c \in 1..Len(store)
  <2>1. Unlinked(store[c]) \in Rows(U)
    <3>1. store[c] \in Rows(U)
      BY <1>1, ElementOfSeq
    <3>2. \A r \in Rows(U) : Unlinked(r) \in Rows(U)
      BY DEF Unlinked, Rows
    <3> QED
      BY <3>1, <3>2
  <2>2. store' = [store EXCEPT ![c] = Unlinked(store[c])]
    BY <1>1 DEF Invalidate, NoConv
  <2> QED
    BY <1>1, <2>1, <2>2, ExceptSeq
<1>2. CASE c \notin 1..Len(store)
  <2>1. DOMAIN store = 1..Len(store) /\ store \in [1..Len(store) -> Rows(U)]
    BY LenProperties
  <2>2. store' = store
    BY <1>2, <2>1 DEF Invalidate
  <2> QED
    BY <2>2
<1> QED
  BY <1>1, <1>2

\* What resolve finds is stored, and a proper beginning of what came in.
LEMMA ResolvedIsShorter ==
  ASSUME NEW U, NEW rows \in Seq(Rows(U)), NEW incoming \in Seq(U),
         Resolve(rows, incoming) # NoConv
  PROVE  /\ Resolve(rows, incoming) \in DOMAIN rows
         /\ Len(rows[Resolve(rows, incoming)].messages) \in 0..(Len(incoming) - 1)
         /\ rows[Resolve(rows, incoming)].messages
              = SubSeq(incoming, 1, Len(rows[Resolve(rows, incoming)].messages))
<1> DEFINE best == BestMatches(Stored(rows), DOMAIN rows, incoming)
           c    == Resolve(rows, incoming)
<1>1. DOMAIN rows = 1..Len(rows) /\ Len(rows) \in Nat
  BY LenProperties
<1>2. best \subseteq DOMAIN rows
  BY DEF BestMatches, Candidates
<1>3. best # {} /\ c = CHOOSE b \in best : \A d \in best : b <= d
  BY DEF Resolve
<1>4. c \in best
  <2>1. best \subseteq Nat
    BY <1>1, <1>2
  <2> HIDE DEF best, c
  <2>2. \E b \in best : \A d \in best : b <= d
    BY <1>3, <2>1, LeastNatural
  <2> QED
    BY <1>3, <2>2
<1>5. IsStrictPrefix(rows[c].messages, incoming)
  <2> HIDE DEF c
  <2> QED
    BY <1>2, <1>4 DEF BestMatches, Candidates, Continues, Stored
<1>6. rows[c].messages \in Seq(U)
  <2>1. rows[c] \in Rows(U)
    BY <1>1, <1>2, <1>4, ElementOfSeq
  <2> HIDE DEF c
  <2> QED
    BY <2>1 DEF Rows
<1>7. /\ Len(rows[c].messages) # Len(incoming)
      /\ rows[c].messages = SubSeq(incoming, 1, Len(rows[c].messages))
  <2> HIDE DEF c
  <2>1. rows[c].messages # incoming
        /\ SubSeq(rows[c].messages, 1, Len(rows[c].messages))
             = SubSeq(incoming, 1, Len(rows[c].messages))
    BY <1>5 DEF IsStrictPrefix, IsPrefix
  <2>2. /\ SubSeq(rows[c].messages, 1, Len(rows[c].messages)) = rows[c].messages
        /\ SubSeq(incoming, 1, Len(incoming)) = incoming
    BY <1>6, SubSeqFull
  <2> QED
    BY <2>1, <2>2
<1>8. Len(rows[c].messages) \in Nat /\ Len(incoming) \in Nat
      /\ Len(rows[c].messages) <= Len(incoming)
  <2> HIDE DEF c
  <2> QED
    BY <1>5, <1>6, LenProperties DEF IsStrictPrefix, IsPrefix
<1> QED
  BY <1>2, <1>4, <1>7, <1>8

\* An unused name is one of the names, and nobody's.
LEMMA UnusedIsFree ==
  ASSUME NEW names, names \subseteq Nat, NEW used, Free(names, used)
  PROVE  Unused(names, used) \in names \ used
<1> DEFINE free == names \ used
<1>1. free \subseteq Nat /\ free # {}
  BY DEF Free
<1>2. Unused(names, used) = CHOOSE n \in free : \A m \in free : n <= m
  BY Zenon DEF Unused
<1> HIDE DEF free
<1>3. \E n \in free : \A m \in free : n <= m
  BY <1>1, LeastNatural
<1>4. Unused(names, used) \in free
  BY <1>2, <1>3
<1> QED
  BY <1>4 DEF free

-----------------------------------------------------------------------------
(* The invariant of the dialogue.                                          *)

Pcs == {"session", "attempt", "settle", "unlink", "reply"}

\* A turn over a universe of values,
Turns(U) ==
  [pc : Pcs, mode : Modes, incoming : Seq(U), conv : Nat, session : U, parent : U,
   sent : U, prompt : U, tries : 0..MaxRetries, repairs : 0..MaxToolRepairAttempts,
   simulated : U, path : U, recorder : U, renderer : U, stamp : U]

\* what the client has of the response,
Responses(U) == [status : Nat \union {Null}, message : U, done : BOOLEAN]

\* and the counters.
Counts == [attempts : Nat, durations : Nat, failures : Nat, retries : Nat,
           repairs : Nat, exhausted : Nat]

\* The variables over one universe of values.
Within(U) ==
  /\ Null \in U
  /\ history \in Seq(U)
  /\ store \in Seq(Rows(U))
  /\ turn = Idle \/ turn \in Turns(U)

\* There is a universe that holds them.
Typed == \E U : Within(U)

\* The fields of a turn.
LEMMA TurnFields ==
  ASSUME NEW U, NEW t \in Turns(U)
  PROVE  /\ t.pc \in Pcs /\ t.mode \in Modes /\ t.incoming \in Seq(U) /\ t.conv \in Nat
         /\ t.session \in U /\ t.parent \in U /\ t.tries \in 0..MaxRetries
         /\ t.repairs \in 0..MaxToolRepairAttempts /\ t.recorder \in U
  BY DEF Turns

\* A universe may grow.
LEMMA Grow ==
  ASSUME NEW U, NEW V, U \subseteq V
  PROVE  /\ Seq(U) \subseteq Seq(V)
         /\ Seq(Rows(U)) \subseteq Seq(Rows(V))
         /\ Turns(U) \subseteq Turns(V)
<1>1. Seq(U) \subseteq Seq(V)
  BY SeqMonotonic
<1>2. Turns(U) \subseteq Turns(V)
  BY <1>1 DEF Turns
<1> QED
  BY <1>1, <1>2, RowsGrow

\* A request that is served is a turn.
LEMMA ServingTurn ==
  ASSUME NEW U, Within(U), Serving
  PROVE  turn \in Turns(U)
  BY DEF Within, Serving, Idle

\* Any universe of the next state's values shows that it is typed.
LEMMA TypedNext ==
  ASSUME NEW V, Null \in V, history' \in Seq(V), store' \in Seq(Rows(V)),
         turn' = Idle \/ turn' \in Turns(V)
  PROVE  Typed'
<1>1. Within(V)'
  BY DEF Within, Idle
<1> QED
  BY <1>1 DEF Typed

\* An attempt that begins anew changes three fields at most.
LEMMA FreshTurn ==
  ASSUME NEW U, NEW t \in Turns(U)
  PROVE  \E V : /\ U \subseteq V
                /\ FreshAttempt(t) \in Turns(V)
                /\ FreshAttempt(t).pc = t.pc /\ FreshAttempt(t).mode = t.mode
                /\ FreshAttempt(t).tries = t.tries /\ FreshAttempt(t).repairs = t.repairs
                /\ FreshAttempt(t).conv = t.conv
<1> DEFINE V == U \union {Null, NewRecorder}
           new == NewRecorder
<1>1. Turns(U) \subseteq Turns(V)
  BY Grow
<1>2. FreshAttempt(t) = [t EXCEPT !.path = Null, !.recorder = new]
  BY DEF FreshAttempt
<1>3. new \in V /\ Null \in V
  OBVIOUS
<1>4. t \in Turns(V)
  BY <1>1
<1> HIDE DEF V, new
<1>5. /\ [t EXCEPT !.path = Null, !.recorder = new] \in Turns(V)
      /\ [t EXCEPT !.path = Null, !.recorder = new].pc = t.pc
      /\ [t EXCEPT !.path = Null, !.recorder = new].mode = t.mode
      /\ [t EXCEPT !.path = Null, !.recorder = new].tries = t.tries
      /\ [t EXCEPT !.path = Null, !.recorder = new].repairs = t.repairs
      /\ [t EXCEPT !.path = Null, !.recorder = new].conv = t.conv
  BY <1>3, <1>4 DEF Turns
<1>6. U \subseteq V
  BY DEF V
<1> QED
  BY <1>2, <1>5, <1>6

\* A store whose link may be dropped stays a store.
LEMMA DropKeeps ==
  ASSUME NEW U, Within(U), Serving, NEW final \in BOOLEAN, LinkDropped(final)
  PROVE  store' \in Seq(Rows(U)) /\ Len(store') = Len(store)
<1>1. turn.conv \in Nat
  BY ServingTurn, TurnFields
<1>2. CASE Invalidate(turn.conv)
  BY <1>1, <1>2, InvalidateKeepsRows DEF Within
<1>3. CASE UNCHANGED store
  BY <1>3 DEF Within
<1> QED
  BY <1>2, <1>3 DEF LinkDropped

\* A failed call leaves everything within the universe of a fresh attempt.
LEMMA FailTyped ==
  ASSUME NEW U, Within(U), Serving, Bounded, NEW failure, Fail(failure)
  PROVE  Typed' /\ Bounded'
<1>1. turn \in Turns(U)
  BY ServingTurn
<1>2. history' = history
  BY DEF Fail
<1>3. store' \in Seq(Rows(U)) /\ Len(store') = Len(store)
  BY DropKeeps DEF Fail, Retry, Surface, Broadcast
<1>4. Bounded'
  BY <1>3 DEF Bounded
<1>5. CASE TurnOver
  <2>1. Within(U)'
    BY <1>2, <1>3, <1>5 DEF Within, TurnOver
  <2> QED
    BY <1>4, <2>1 DEF Typed
<1>6. CASE Retry(failure)
  <2>1. PICK V : U \subseteq V /\ FreshAttempt(turn) \in Turns(V)
                 /\ FreshAttempt(turn).tries = turn.tries
    BY <1>1, FreshTurn
  <2>2. turn.tries + 1 \in 0..MaxRetries
    BY <1>1, <1>6, TurnFields, DialogueAssumption DEF Retry
  <2>3. turn' = [FreshAttempt(turn) EXCEPT !.tries = turn.tries + 1]
    BY <1>6, <2>1 DEF Retry
  <2>4. turn' \in Turns(V)
    BY <2>1, <2>2, <2>3 DEF Turns
  <2>5. Within(V)'
    <3>1. history \in Seq(V) /\ store' \in Seq(Rows(V)) /\ Null \in V
      BY <1>3, <2>1, Grow DEF Within
    <3> QED
      BY <1>2, <2>4, <3>1 DEF Within
  <2> QED
    BY <1>4, <2>5 DEF Typed
<1> QED
  BY <1>5, <1>6 DEF Fail, Surface, Broadcast

\* A line that is received leaves everything but the turn alone.
LEMMA ReceiveTyped ==
  ASSUME NEW U, Within(U), Serving, NEW line, Receive(line),
         UNCHANGED <<history, store>>
  PROVE  Typed'
<1> DEFINE path     == turn'.path
           recorder == turn'.recorder
           renderer == turn'.renderer
           V        == U \union {path, recorder, renderer}
<1>1. turn \in Turns(V) /\ U \subseteq V
  BY ServingTurn, Grow
<1>2. PICK p, r, n : turn' = [turn EXCEPT !.path = p, !.recorder = r, !.renderer = n]
  <2> DEFINE t == turn
  <2>1. turn' = [t EXCEPT !.path = PathAfter(t.path, line),
                          !.recorder = FoldLeft(Observe, t.recorder, Heard(line)),
                          !.renderer =
                            IF t.mode = "stream" /\ Heard(line) # <<>>
                              THEN Delivered(response.message, t.renderer, Heard(line)).renderer
                              ELSE t.renderer]
    BY Zenon DEF Receive
  <2> QED
    BY <2>1, Zenon
<1>3. path = p /\ recorder = r /\ renderer = n
  BY <1>1, <1>2 DEF Turns
<1>4. turn' \in Turns(V)
  <2>1. p \in V /\ r \in V /\ n \in V
    BY <1>3
  <2> HIDE DEF V
  <2> QED
    BY <1>1, <1>2, <2>1 DEF Turns
<1> HIDE DEF V
<1>5. history \in Seq(V) /\ store \in Seq(Rows(V)) /\ Null \in V
  BY <1>1, Grow DEF Within
<1> QED
  BY <1>4, <1>5, TypedNext

\* A commit puts the turn's history into the store, and what the turn has
\* learned into its record.
LEMMA CommitTyped ==
  ASSUME NEW U, Within(U), Serving, Bounded, NEW path, NEW recorder,
         NEW next \in Pcs, Commit(path, recorder, next), UNCHANGED history
  PROVE  Typed' /\ Bounded'
<1> DEFINE told == Told(recorder)
           reply == AssistantMessage(recorder)
<1>1. PICK now \in Instants :
        /\ CommitTurn(turn.conv, told, turn.session, recorder.parent, now)
        /\ turn' = [turn EXCEPT !.pc = next, !.path = path, !.recorder = recorder,
                                !.stamp = now, !.conv = CommittedAs(turn.conv, now)]
  BY DEF Commit
<1> DEFINE conv == CommittedAs(turn.conv, now)
           V    == U \union {path, recorder, now, reply, recorder.parent}
<1>2. U \subseteq V /\ path \in V /\ recorder \in V /\ now \in V /\ reply \in V
      /\ recorder.parent \in V
  OBVIOUS
<1> HIDE DEF V, reply
<1>3. turn \in Turns(V) /\ Null \in V /\ history \in Seq(V) /\ store \in Seq(Rows(V))
  BY <1>2, ServingTurn, Grow DEF Within
<1>4. told \in Seq(V)
  <2>1. turn.incoming \in Seq(V)
    BY <1>3, TurnFields
  <2>2. told = Append(turn.incoming, reply)
    BY DEF Told, reply
  <2> QED
    BY <1>2, <2>1, <2>2, AppendProperties
<1>5. turn.conv \in Nat /\ turn.session \in V
  BY <1>3, TurnFields
<1> HIDE DEF told
<1>6. store' \in Seq(Rows(V)) /\ Len(store') <= MaxConvs
  BY <1>1, <1>2, <1>3, <1>4, <1>5, CommitKeepsRows DEF Bounded
<1>7. conv \in Nat
  BY <1>5, <1>6, LenProperties DEF CommittedAs, NoConv
<1> HIDE DEF conv
<1>8. turn' \in Turns(V)
  <2>1. turn' = [turn EXCEPT !.pc = next, !.path = path, !.recorder = recorder,
                             !.stamp = now, !.conv = conv]
    BY <1>1 DEF conv
  <2> QED
    BY <1>2, <1>3, <1>7, <2>1 DEF Turns
<1>9. Within(V)'
  BY <1>3, <1>6, <1>8 DEF Within
<1> QED
  BY <1>6, <1>9 DEF Typed, Bounded

\* A new request gives a turn without failures behind it.
LEMMA AskTyped ==
  ASSUME NEW U, Within(U), Bounded, Ask
  PROVE  Typed' /\ Bounded'
<1>1. PICK form \in ArgumentForms, message \in NewMessages(history), mode \in Modes :
        turn' = NewTurn(mode, MessagesToCanonical(Append(Resent(history, form), message)))
  BY DEF Ask
<1> DEFINE canonical == MessagesToCanonical(Append(Resent(history, form), message))
           fresh     == NewTurn(mode, canonical)
           V == U \union {canonical[i] : i \in DOMAIN canonical}
                  \union {fresh.session, fresh.parent, fresh.sent, fresh.prompt,
                          FALSE, NewRecorder, NewRenderer}
<1>2. UNCHANGED <<history, store>> /\ turn' = fresh
  BY <1>1 DEF Ask
<1>3. U \subseteq V
  OBVIOUS
<1>4. canonical \in Seq(V)
  <2> DEFINE W == U \union {Wire(form, history[i]) : i \in DOMAIN history} \union {message}
             sent == Append(Resent(history, form), message)
             n == Len(sent)
  <2>1. DOMAIN history = 1..Len(history) /\ Len(history) \in Nat
    BY LenProperties DEF Within
  <2>2. Resent(history, form) \in Seq(W)
    <3>1. Resent(history, form) \in [1..Len(history) -> W]
      BY <2>1 DEF Resent
    <3> QED
      BY <2>1, <3>1, SeqDef
  <2>3. message \in W
    OBVIOUS
  <2> HIDE DEF W
  <2>4. sent \in Seq(W)
    BY <2>2, <2>3, AppendProperties
  <2> HIDE DEF sent
  <2>5. DOMAIN sent = 1..n /\ n \in Nat
    BY <2>4, LenProperties
  <2>6. canonical = [i \in 1..n |-> Canonical(sent[i])]
    BY <2>5 DEF MessagesToCanonical, sent
  <2> HIDE DEF canonical
  <2>7. DOMAIN canonical = 1..n
    BY <2>6
  <2>8. canonical \in [1..n -> V]
    BY <2>6, <2>7
  <2> QED
    BY <2>5, <2>8, SeqDef
<1>5. Resolve(store, canonical) \in Nat
  <2>1. store \in Seq(Rows(V))
    BY <1>3, Grow DEF Within
  <2>2. CASE Resolve(store, canonical) # NoConv
    <3> HIDE DEF V, canonical
    <3>1. Resolve(store, canonical) \in DOMAIN store
      BY <1>4, <2>1, <2>2, ResolvedIsShorter
    <3>2. DOMAIN store = 1..Len(store)
      BY <2>1, LenProperties
    <3> QED
      BY <3>1, <3>2
  <2> QED
    BY <2>2 DEF NoConv
<1>6. turn' \in Turns(V)
  <2>1. fresh = [pc |-> fresh.pc, mode |-> mode, incoming |-> canonical,
                 conv |-> Resolve(store, canonical), session |-> fresh.session,
                 parent |-> fresh.parent, sent |-> fresh.sent, prompt |-> fresh.prompt,
                 tries |-> 0, repairs |-> 0, simulated |-> FALSE, path |-> Null,
                 recorder |-> NewRecorder, renderer |-> NewRenderer, stamp |-> Null]
    <3> HIDE DEF canonical
    <3> QED
      BY DEF NewTurn
  <2>2. fresh.pc \in Pcs
    <3> HIDE DEF canonical
    <3> QED
      BY DEF NewTurn, Pcs
  <2>3. 0 \in 0..MaxRetries /\ 0 \in 0..MaxToolRepairAttempts
    BY DialogueAssumption DEF MaxToolRepairAttempts
  <2>4. /\ fresh.session \in V /\ fresh.parent \in V /\ fresh.sent \in V
        /\ fresh.prompt \in V /\ FALSE \in V /\ NewRecorder \in V /\ NewRenderer \in V
        /\ Null \in V
    BY DEF Within
  <2> DEFINE conv == Resolve(store, canonical)
             recorder == NewRecorder
             renderer == NewRenderer
             pc       == fresh.pc
             session  == fresh.session
             parent   == fresh.parent
             sent     == fresh.sent
             prompt   == fresh.prompt
             bare     == FALSE
  <2>5. conv \in Nat /\ pc \in Pcs /\ mode \in Modes
    BY <1>5, <2>2
  <2>6. /\ session \in V /\ parent \in V /\ sent \in V /\ prompt \in V /\ bare \in V
        /\ recorder \in V /\ renderer \in V /\ Null \in V
    BY <2>4
  <2>7. fresh = [pc |-> pc, mode |-> mode, incoming |-> canonical, conv |-> conv,
                 session |-> session, parent |-> parent, sent |-> sent,
                 prompt |-> prompt, tries |-> 0, repairs |-> 0, simulated |-> bare,
                 path |-> Null, recorder |-> recorder, renderer |-> renderer,
                 stamp |-> Null]
    BY <2>1
  <2> HIDE DEF V, fresh, canonical, conv, recorder, renderer, pc, session, parent, sent,
               prompt, bare
  <2>8. fresh \in Turns(V)
    BY <1>4, <2>3, <2>5, <2>6, <2>7 DEF Turns
  <2> QED
    BY <1>2, <2>8
<1> HIDE DEF V, fresh, canonical
<1>7. history \in Seq(V) /\ store \in Seq(Rows(V)) /\ Null \in V
  BY <1>3, Grow DEF Within
<1>8. Typed'
  BY <1>2, <1>6, <1>7, TypedNext
<1> QED
  BY <1>2, <1>8 DEF Bounded

\* Every step keeps the types, and the store within its limit.
LEMMA TypedStep == Typed /\ Bounded /\ [Next]_vars => Typed' /\ Bounded'
<1> SUFFICES ASSUME NEW U, Within(U), Bounded, [Next]_vars PROVE Typed' /\ Bounded'
  BY DEF Typed
<1> DEFINE Same == UNCHANGED <<history, store>>
<1>0. history \in Seq(U) /\ store \in Seq(Rows(U)) /\ Null \in U
      /\ (turn = Idle \/ turn \in Turns(U))
  BY DEF Within
<1>a. ASSUME Same PROVE Bounded'
  BY <1>a DEF Bounded
\* A turn that goes on with other values of some fields.
<1>b. ASSUME Same, NEW V, U \subseteq V, turn' = Idle \/ turn' \in Turns(V)
      PROVE  Typed' /\ Bounded'
  BY <1>0, <1>a, <1>b, Grow, TypedNext
<1>1. CASE Ask
  BY <1>1, AskTyped
<1>2. CASE SessionOpened
  <2> DEFINE session == Unused(Sessions, SessionsInUse)
             V == U \union {session}
  <2>1. session \in V /\ U \subseteq V
    OBVIOUS
  <2>2. turn' = [turn EXCEPT !.pc = "attempt", !.tries = 0, !.session = session]
    BY <1>2 DEF SessionOpened
  <2>3. "attempt" \in Pcs /\ 0 \in 0..MaxRetries
    BY DialogueAssumption DEF Pcs
  <2>4. Serving
    BY <1>2 DEF SessionOpened, Serving
  <2> HIDE DEF session, V
  <2>5. turn \in Turns(V)
    BY <2>1, <2>4, ServingTurn, Grow
  <2>6. turn' \in Turns(V)
    BY <2>1, <2>2, <2>3, <2>5 DEF Turns
  <2> QED
    BY <1>2, <1>b, <2>1, <2>6 DEF SessionOpened
<1>3. CASE SessionFailed \/ Garbage \/ Truncate \/ Raise
  <2>1. Serving /\ \E failure : Fail(failure)
    BY <1>3 DEF SessionFailed, Garbage, Truncate, Raise, Reading, Serving
  <2> QED
    BY <2>1, FailTyped
<1>4. CASE Ready \/ TakeSnapshot \/ Speak \/ Think \/ Note
  <2>1. Serving /\ Same /\ \E line : Receive(line)
    <3>1. CASE Ready
      BY <3>1 DEF Ready, Serving
    <3>2. CASE TakeSnapshot
      BY <3>2 DEF TakeSnapshot, Reading, Serving
    <3>3. CASE Speak
      BY <3>3 DEF Speak, Reading, Serving
    <3>4. CASE Think
      BY <3>4 DEF Think, Reading, Serving
    <3>5. CASE Note
      BY <3>5 DEF Note, Reading, Serving
    <3> QED
      BY <1>4, <3>1, <3>2, <3>3, <3>4, <3>5
  <2>2. Typed'
    BY <2>1, ReceiveTyped
  <2> QED
    BY <1>a, <2>1, <2>2
<1>5. CASE DrainEnds
  <2>1. PICK path, recorder :
          turn' = [turn EXCEPT !.pc = "settle", !.path = path, !.recorder = recorder]
    BY <1>5 DEF DrainEnds
  <2> DEFINE V == U \union {path, recorder}
  <2>2. path \in V /\ recorder \in V /\ U \subseteq V /\ "settle" \in Pcs
    BY DEF Pcs
  <2> HIDE DEF V
  <2>3. turn \in Turns(V)
    BY <1>5, <2>2, ServingTurn, Grow DEF DrainEnds, Reading, Serving
  <2>4. turn' \in Turns(V)
    BY <2>1, <2>2, <2>3 DEF Turns
  <2> QED
    BY <1>5, <1>b, <2>2, <2>4 DEF DrainEnds
<1>6. CASE StreamEnds
  <2>1. Serving /\ UNCHANGED history /\ "reply" \in Pcs
        /\ \E path, recorder : Commit(path, recorder, "reply")
    BY <1>6 DEF StreamEnds, Reading, Serving, Pcs
  <2> QED
    BY <2>1, CommitTyped
<1>7. CASE RepairRetry
  <2> DEFINE simulated == Simulated(turn.recorder)
             prompt    == RepairBase(simulated)
             fresh     == FreshAttempt(turn)
  <2>1. turn' = [fresh EXCEPT !.pc = "attempt", !.tries = 0, !.repairs = fresh.repairs + 1,
                              !.simulated = simulated, !.prompt = prompt]
    BY <1>7 DEF RepairRetry
  <2>2. turn \in Turns(U)
    BY <1>7, ServingTurn DEF RepairRetry, Serving
  <2>3. PICK W : U \subseteq W /\ fresh \in Turns(W) /\ fresh.repairs = turn.repairs
    BY <2>2, FreshTurn
  <2> DEFINE V == W \union {simulated, prompt}
             repairs == fresh.repairs + 1
  <2>4. repairs \in 0..MaxToolRepairAttempts
    BY <1>7, <2>2, <2>3, TurnFields DEF RepairRetry, CanRepair, MaxToolRepairAttempts
  <2>5. /\ simulated \in V /\ prompt \in V /\ U \subseteq V
        /\ "attempt" \in Pcs /\ 0 \in 0..MaxRetries
    BY <2>3, DialogueAssumption DEF Pcs
  <2>6. fresh \in Turns(V)
    BY <2>3, Grow
  <2>7. turn' = [fresh EXCEPT !.pc = "attempt", !.tries = 0, !.repairs = repairs,
                              !.simulated = simulated, !.prompt = prompt]
    BY <2>1
  <2> HIDE DEF V, fresh, simulated, prompt, repairs
  <2>8. turn' \in Turns(V)
    BY <2>4, <2>5, <2>6, <2>7 DEF Turns
  <2> QED
    BY <1>7, <1>b, <2>5, <2>8 DEF RepairRetry
<1>8. CASE CommitDrained
  <2>1. Serving /\ UNCHANGED history
    BY <1>8 DEF CommitDrained, Serving
  <2>2. \E next \in Pcs : Commit(turn.path, turn.recorder, next)
    BY <1>8 DEF CommitDrained, Pcs
  <2> QED
    BY <2>1, <2>2, CommitTyped
<1>9. CASE UnlinkRepaired
  <2>1. turn \in Turns(U)
    BY <1>9, ServingTurn DEF UnlinkRepaired, Serving
  <2>2. turn' \in Turns(U)
    <3>1. turn' = [turn EXCEPT !.pc = "reply"] /\ "reply" \in Pcs
      BY <1>9 DEF UnlinkRepaired, Pcs
    <3> QED
      BY <2>1, <3>1 DEF Turns
  <2>3. store' \in Seq(Rows(U)) /\ Len(store') = Len(store)
    BY <1>0, <1>9, <2>1, TurnFields, InvalidateKeepsRows DEF UnlinkRepaired
  <2>4. Typed'
    BY <1>0, <1>9, <2>2, <2>3, TypedNext DEF UnlinkRepaired
  <2> QED
    BY <2>3, <2>4 DEF Bounded
<1>10. CASE Tell
  <2>1. PICK way \in Ways :
          history' = Append(turn.incoming, ClientMessage(Answer(way)))
    BY <1>10 DEF Tell
  <2> DEFINE message == ClientMessage(Answer(way))
             V == U \union {message}
  <2>2. message \in V /\ U \subseteq V
    OBVIOUS
  <2> HIDE DEF V
  <2>3. turn.incoming \in Seq(V)
    BY <1>10, <2>2, ServingTurn, TurnFields, Grow DEF Tell, Serving
  <2>4. history' \in Seq(V)
    <3>1. history' = Append(turn.incoming, message)
      BY <2>1
    <3> HIDE DEF message
    <3> QED
      BY <2>2, <2>3, <3>1, AppendProperties
  <2>5. store' = store /\ turn' = Idle
    BY <1>10 DEF Tell, TurnOver
  <2>6. Typed'
    BY <1>0, <2>2, <2>4, <2>5, Grow, TypedNext
  <2> QED
    BY <2>5, <2>6 DEF Bounded
<1>11. CASE Lose
  BY <1>11, <1>b DEF Lose, TurnOver
<1>12. CASE Restart
  <2>1. store' = <<>> /\ turn' = Idle /\ history' = history
    BY <1>12 DEF Restart, EmptyStore, TurnOver
  <2>2. store' \in Seq(Rows(U)) /\ Len(store') = 0
    BY <2>1, EmptySeq
  <2> QED
    BY <1>0, <2>1, <2>2, TypedNext, StoreAssumption DEF Bounded
<1>13. CASE UNCHANGED vars
  BY <1>0, <1>13, <1>b DEF vars
<1> QED
  BY <1>1, <1>2, <1>3, <1>4, <1>5, <1>6, <1>7, <1>8, <1>9, <1>10, <1>11, <1>12, <1>13
     DEF Next

\* The gateway begins with an empty store and no request.
LEMMA TypedInit == Init => Typed /\ Bounded
<1> SUFFICES ASSUME Init PROVE Typed /\ Bounded
  OBVIOUS
<1>1. history = <<>> /\ store = <<>> /\ turn = Idle
  BY DEF Init, InitStore
<1>2. history \in Seq({Null}) /\ store \in Seq(Rows({Null})) /\ Len(store) = 0
  BY <1>1, EmptySeq
<1>3. Within({Null})
  BY <1>1, <1>2 DEF Within
<1> QED
  BY <1>2, <1>3, StoreAssumption DEF Typed, Bounded

\* The store never holds more than max_conversations, whatever the clock reads
\* (conversation.py _evict_if_needed).
THEOREM StoreBounded == Spec => []Bounded
<1>1. Spec => [](Typed /\ Bounded)
  BY TypedInit, TypedStep, PTL DEF Spec
<1> QED
  BY <1>1, PTL

-----------------------------------------------------------------------------
(* The counters.  What a turn may have retried is bounded call by call: the *)
(* session's tries first, then the tries of each attempt.                   *)

Balance ==
  /\ metrics \in Counts
  /\ \E V : response \in Responses(V)
  /\ MetricsBalance
  /\ ~Serving => upstream = Null
  /\ Serving =>
       /\ turn.repairs = metrics.repairs
       /\ response.status \in {Null, 200}
       /\ turn.pc = "session" => ~Begun /\ turn.repairs = 0 /\ metrics.retries <= turn.tries
       /\ turn.pc = "attempt" =>
            metrics.retries <= MaxRetries * (1 + turn.repairs) + turn.tries
       /\ turn.pc \in {"session", "attempt", "settle"} => metrics.exhausted = 0
       /\ turn.mode = "stream" /\ upstream # Null => Begun

\* A repair allows a call's retries once more.
LEMMA Budgets ==
  /\ \A r \in 0..1 : /\ MaxRetries * (1 + r) \in Nat
                     /\ MaxRetries * (2 + r) = MaxRetries * (1 + r) + MaxRetries
                     /\ MaxRetries * (2 + r) = MaxRetries * (1 + (r + 1))
  /\ MaxRetries * 1 = MaxRetries
  /\ MaxRetries * (1 + 0) = MaxRetries
<1>1. MaxRetries \in Nat
  BY DialogueAssumption
<1>2. \A r \in 0..1 : r = 0 \/ r = 1
  OBVIOUS
<1> QED
  BY <1>1, <1>2

\* What the helpers make of the counters.
LEMMA AttemptingCounts ==
  ASSUME NEW m \in Counts
  PROVE  /\ Attempting(m) \in Counts
         /\ Attempting(m) =
              [attempts |-> m.attempts + 1, durations |-> m.durations, failures |-> m.failures,
                retries |-> m.retries, repairs |-> m.repairs, exhausted |-> m.exhausted]
  BY DEF Counts, Attempting

\* A failure that is counted is timed.
LEMMA CountedCounts ==
  ASSUME NEW m \in Counts
  PROVE  /\ Counted(m) \in Counts
         /\ Counted(m) =
              [attempts |-> m.attempts, durations |-> m.durations + 1, failures |-> m.failures + 1,
                retries |-> m.retries, repairs |-> m.repairs, exhausted |-> m.exhausted]
<1> DEFINE d == m.durations + 1
           f == m.failures + 1
           n == [m EXCEPT !.failures = f, !.durations = d]
<1>1. f \in Nat /\ d \in Nat
  BY DEF Counts
<1> HIDE DEF f, d
<1>2. n \in Counts
  BY <1>1 DEF Counts
<1>3. /\ n.attempts = m.attempts /\ n.durations = d /\ n.failures = f
      /\ n.retries = m.retries /\ n.repairs = m.repairs /\ n.exhausted = m.exhausted
  BY <1>1 DEF Counts
<1>4. n = [attempts |-> n.attempts, durations |-> n.durations, failures |-> n.failures,
           retries |-> n.retries, repairs |-> n.repairs, exhausted |-> n.exhausted]
  <2> HIDE DEF n
  <2> QED
    BY <1>2 DEF Counts
<1>5. Counted(m) = n
  BY Zenon DEF Counted, f, d
<1> HIDE DEF n
<1>6. Counted(m) = [attempts |-> m.attempts, durations |-> d, failures |-> f,
                    retries |-> m.retries, repairs |-> m.repairs, exhausted |-> m.exhausted]
  BY <1>3, <1>4, <1>5
<1> QED
  BY <1>2, <1>5, <1>6 DEF f, d

\* The status of a failure is an error.
LEMMA FailureStatus ==
  ASSUME NEW category
  PROVE  HttpStatus(category) \in Nat /\ HttpStatus(category) # 200 /\ HttpStatus(category) # Null
  BY DialogueAssumption DEF HttpStatus

\* A backend that names its message is always heard.
LEMMA ReadyIsHeard ==
  ASSUME NEW id \in MessageIds, turn.mode = "stream"
  PROVE  Heard(ReadyLine(id)) # <<>>
<1> DEFINE chunk == Adapt(turn.path, ReadyLine(id))
<1>1. chunk = [NoChunk EXCEPT !.id = id]
  BY DEF Adapt, ReadyLine
<1>2. chunk.id = id /\ chunk.content = Null /\ chunk.finish = Null
  BY <1>1 DEF NoChunk
<1>3. id # Null
  BY DialogueAssumption
<1>4. Heard(ReadyLine(id)) = ChunkToEvents(chunk)
  BY DEF Heard, ToolMode
<1> HIDE DEF chunk
<1>5. ChunkToEvents(chunk) = <<BackendMessageId(id)>> \o <<>> \o <<>>
  BY <1>2, <1>3 DEF ChunkToEvents, DeltaEvents
<1>6. <<BackendMessageId(id)>> \o <<>> \o <<>> # <<>>
  <2> DEFINE event == BackendMessageId(id)
  <2> HIDE DEF event
  <2>1. <<event>> \in Seq({event}) /\ <<>> \in Seq({event}) /\ Len(<<event>>) = 1
    OBVIOUS
  <2>2. Len(<<event>> \o <<>> \o <<>>) = 1
    BY <2>1, ConcatProperties
  <2>3. Len(<<>>) = 0
    OBVIOUS
  <2>4. <<event>> \o <<>> \o <<>> # <<>>
    BY <2>2, <2>3
  <2> QED
    BY <2>4 DEF event
<1> QED
  BY <1>4, <1>5, <1>6

\* A step that ends the request.
LEMMA OverBalance ==
  ASSUME TurnOver, metrics' \in Counts, NEW V, response' \in Responses(V),
         metrics'.attempts = metrics'.durations,
         response'.status # Null =>
           (response'.status = 200 <=> metrics'.failures = metrics'.retries),
         metrics'.retries <= MaxRetries * (2 + metrics'.repairs),
         metrics'.exhausted <= metrics'.repairs,
         metrics'.repairs <= MaxToolRepairAttempts
  PROVE  Balance'
<1>1. turn'.pc = "idle" /\ upstream' = Null
  BY DEF TurnOver, Idle
<1>2. ~ Serving'
  BY <1>1 DEF Serving
<1>3. metrics'.durations + 0 = metrics'.durations
  BY DEF Counts
<1>4. MetricsBalance'
  BY <1>1, <1>2, <1>3 DEF MetricsBalance
<1> QED
  BY <1>1, <1>2, <1>4 DEF Balance

\* The facts about a served request that every step needs.
LEMMA ServedBalance ==
  ASSUME NEW U, Within(U), Balance, Serving
  PROVE  /\ turn \in Turns(U)
         /\ metrics.failures = metrics.retries
         /\ turn.repairs = metrics.repairs
         /\ metrics.repairs \in 0..1
         /\ metrics.retries <= MaxRetries * (2 + metrics.repairs)
         /\ metrics.exhausted <= metrics.repairs
         /\ Begun => response.status = 200
         /\ metrics.attempts = metrics.durations
              + (IF turn.pc \in {"session", "attempt"} /\ ~Begun THEN 1 ELSE 0)
<1>1. turn \in Turns(U)
  BY ServingTurn
<1>2. metrics.repairs \in Nat
  BY DEF Balance, Counts
<1> QED
  BY <1>1, <1>2 DEF Balance, MetricsBalance, MaxToolRepairAttempts, Begun

\* A step after which the request is still served.
LEMMA ServedNext ==
  ASSUME Serving', metrics' \in Counts, NEW V, response' \in Responses(V),
         metrics'.attempts = metrics'.durations
           + (IF turn'.pc \in {"session", "attempt"} /\ ~Begun' THEN 1 ELSE 0),
         metrics'.failures = metrics'.retries,
         metrics'.retries <= MaxRetries * (2 + metrics'.repairs),
         metrics'.exhausted <= metrics'.repairs,
         metrics'.repairs \in 0..1,
         turn'.repairs = metrics'.repairs,
         response'.status \in {Null, 200},
         turn'.pc = "session" =>
           ~Begun' /\ turn'.repairs = 0 /\ metrics'.retries <= turn'.tries,
         turn'.pc = "attempt" =>
           metrics'.retries <= MaxRetries * (1 + turn'.repairs) + turn'.tries,
         turn'.pc \in {"session", "attempt", "settle"} => metrics'.exhausted = 0,
         turn'.mode = "stream" /\ upstream' # Null => Begun'
  PROVE  Balance'
<1>1. MetricsBalance'
  BY DEF MetricsBalance, MaxToolRepairAttempts
<1> QED
  BY <1>1 DEF Balance

\* A request that begins has failed nothing yet.
LEMMA AskBalance ==
  ASSUME NEW U, Within(U), Balance, Ask
  PROVE  Balance'
<1>1. PICK mode, canonical : turn' = NewTurn(mode, canonical)
  BY DEF Ask
<1>2. turn'.pc \in {"session", "attempt"} /\ turn'.tries = 0 /\ turn'.repairs = 0
  BY <1>1 DEF NewTurn
<1>3. Serving'
  BY <1>2 DEF Serving
<1>4. response' = NoResponse /\ metrics' = Attempting(NoCounts)
  BY DEF Ask
<1>5. NoCounts \in Counts
  BY DEF NoCounts, Counts
<1>6. /\ metrics' \in Counts /\ metrics'.attempts = 1 /\ metrics'.durations = 0
      /\ metrics'.failures = 0 /\ metrics'.retries = 0 /\ metrics'.repairs = 0
      /\ metrics'.exhausted = 0
  BY <1>4, <1>5, AttemptingCounts DEF NoCounts
<1>7. response' \in Responses({NothingYet}) /\ response'.status = Null
  BY <1>4 DEF NoResponse, Responses
<1>8. ~ Begun'
  BY <1>7 DEF Begun
<1>9. upstream' = Null
  BY DEF Ask, Balance
<1>10. MaxRetries * (2 + 0) \in Nat /\ MaxRetries * (1 + 0) = MaxRetries /\ MaxRetries \in Nat
       /\ MaxRetries * (2 + 0) >= 0
  BY DialogueAssumption
<1> QED
  BY <1>2, <1>3, <1>6, <1>7, <1>8, <1>9, <1>10, ServedNext

\* A failure that is retried is counted with its retry, one that surfaces
\* becomes the status, and one after the first event neither.
LEMMA FailBalance ==
  ASSUME NEW U, Within(U), Balance, turn.pc \in {"session", "attempt"},
         NEW failure, Fail(failure)
  PROVE  Balance'
<1> Serving
  BY DEF Serving
<1>0. PICK V : response \in Responses(V)
  BY DEF Balance
<1>1. metrics \in Counts /\ MaxRetries \in Nat
  BY DialogueAssumption DEF Balance
<1>2. /\ metrics.attempts \in Nat /\ metrics.durations \in Nat /\ metrics.failures \in Nat
      /\ metrics.retries \in Nat /\ metrics.repairs \in Nat /\ metrics.exhausted \in Nat
  BY <1>1 DEF Counts
<1>3. CASE Retry(failure)
  <2>1. PICK W : /\ FreshAttempt(turn) \in Turns(W)
                 /\ FreshAttempt(turn).pc = turn.pc /\ FreshAttempt(turn).mode = turn.mode
                 /\ FreshAttempt(turn).tries = turn.tries
                 /\ FreshAttempt(turn).repairs = turn.repairs
    BY ServingTurn, FreshTurn
  <2>2. turn' = [FreshAttempt(turn) EXCEPT !.tries = turn.tries + 1]
    BY <1>3, <2>1 DEF Retry
  <2>3. turn'.pc = turn.pc /\ turn'.mode = turn.mode /\ turn'.repairs = turn.repairs
        /\ turn'.tries = turn.tries + 1
    BY <2>1, <2>2 DEF Turns
  <2>4. response' = response /\ ~Begun /\ upstream' = Null /\ turn.tries < MaxRetries
    BY <1>3 DEF Retry
  <2>5. ~Begun' /\ Serving'
    BY <2>3, <2>4 DEF Begun, Serving
  <2> DEFINE once  == Counted(metrics)
             again == Attempting(once)
             new   == [again EXCEPT !.retries = @ + 1]
  <2>6. /\ once \in Counts
        /\ once.attempts = metrics.attempts /\ once.durations = metrics.durations + 1
        /\ once.failures = metrics.failures + 1 /\ once.retries = metrics.retries
        /\ once.repairs = metrics.repairs /\ once.exhausted = metrics.exhausted
    BY <1>1, CountedCounts
  <2> HIDE DEF once
  <2>7. /\ again \in Counts
        /\ again.attempts = once.attempts + 1 /\ again.durations = once.durations
        /\ again.failures = once.failures /\ again.retries = once.retries
        /\ again.repairs = once.repairs /\ again.exhausted = once.exhausted
    BY <2>6, AttemptingCounts
  <2> HIDE DEF again
  <2>8. /\ new \in Counts
        /\ new.attempts = again.attempts /\ new.durations = again.durations
        /\ new.failures = again.failures /\ new.retries = again.retries + 1
        /\ new.repairs = again.repairs /\ new.exhausted = again.exhausted
    BY <2>7 DEF Counts
  <2>a. metrics' = new
    BY <1>3 DEF Retry, new, again, once
  <2> HIDE DEF new
  <2>9. /\ metrics' \in Counts
        /\ metrics'.attempts = metrics.attempts + 1
        /\ metrics'.durations = metrics.durations + 1
        /\ metrics'.failures = metrics.failures + 1
        /\ metrics'.retries = metrics.retries + 1
        /\ metrics'.repairs = metrics.repairs /\ metrics'.exhausted = metrics.exhausted
    BY <2>6, <2>7, <2>8, <2>a
  <2>10. turn.tries \in Nat /\ turn.repairs \in 0..1 /\ turn.repairs = metrics.repairs
    BY <1>1, ServedBalance, TurnFields
  <2>11. turn.pc = "session" => turn.repairs = 0 /\ metrics.retries <= turn.tries
    BY DEF Balance
  <2>12. turn.pc = "attempt" =>
           metrics.retries <= MaxRetries * (1 + turn.repairs) + turn.tries
    BY DEF Balance
  <2>13. metrics'.retries <= MaxRetries * (2 + metrics'.repairs)
    <3>1. MaxRetries * (2 + metrics.repairs) = MaxRetries * (1 + metrics.repairs) + MaxRetries
          /\ MaxRetries * (1 + metrics.repairs) \in Nat
      BY <2>10, Budgets
    <3> DEFINE b == MaxRetries * (1 + metrics.repairs)
               B == MaxRetries * (2 + metrics.repairs)
    <3>2. B = b + MaxRetries /\ b \in Nat
      BY <3>1
    <3>3. turn.pc = "attempt" => metrics.retries <= b + turn.tries
      BY <2>10, <2>12
    <3>4. metrics.retries + 1 <= B
      <4> HIDE DEF b, B
      <4> QED
        BY <1>1, <1>2, <2>4, <2>10, <2>11, <3>2, <3>3
    <3> QED
      BY <2>9, <3>4
  <2>14. turn.pc = "attempt" =>
           metrics'.retries <= MaxRetries * (1 + turn'.repairs) + turn'.tries
    <3> DEFINE b == MaxRetries * (1 + turn.repairs)
    <3>1. b \in Nat
      BY <2>10, Budgets
    <3>2. turn.pc = "attempt" => metrics.retries <= b + turn.tries
      BY <2>12
    <3>3. turn.pc = "attempt" => metrics.retries + 1 <= b + (turn.tries + 1)
      <4> HIDE DEF b
      <4> QED
        BY <1>2, <2>10, <3>1, <3>2
    <3> QED
      BY <2>3, <2>9, <3>3
  <2>15. /\ metrics'.failures = metrics'.retries
         /\ metrics'.attempts = metrics'.durations + 1
         /\ metrics'.exhausted = 0 /\ metrics'.repairs \in 0..1
         /\ turn'.repairs = metrics'.repairs /\ response'.status \in {Null, 200}
    <3>1. metrics.exhausted = 0 /\ response.status \in {Null, 200}
      BY DEF Balance
    <3>2. metrics.failures = metrics.retries /\ metrics.attempts = metrics.durations + 1
      BY <2>4, ServedBalance
    <3> QED
      BY <1>2, <2>3, <2>4, <2>9, <2>10, <3>1, <3>2
  <2>16. response' \in Responses(V)
    BY <1>0, <2>4
  <2>17. turn'.pc = "session" => turn'.repairs = 0 /\ metrics'.retries <= turn'.tries
    BY <1>2, <2>3, <2>9, <2>10, <2>11
  <2> QED
    BY <2>3, <2>4, <2>5, <2>9, <2>10, <2>13, <2>14, <2>15, <2>16, <2>17, ServedNext
<1>4. CASE Surface(failure)
  <2>1. ~Begun /\ TurnOver /\ metrics' = Counted(metrics)
        /\ response' = [response EXCEPT !.status = HttpStatus(failure.category)]
    BY <1>4 DEF Surface
  <2>2. response' \in Responses(V) /\ response'.status = HttpStatus(failure.category)
    <3> DEFINE status == HttpStatus(failure.category)
    <3>1. status \in Nat \union {Null} /\ response' = [response EXCEPT !.status = status]
      BY <2>1, FailureStatus
    <3> HIDE DEF status
    <3>2. response' \in Responses(V) /\ response'.status = status
      BY <1>0, <3>1 DEF Responses
    <3> QED
      BY <3>2 DEF status
  <2>3. response'.status # 200
    BY <2>2, FailureStatus
  <2>4. /\ metrics' \in Counts
        /\ metrics'.attempts = metrics.attempts
        /\ metrics'.durations = metrics.durations + 1
        /\ metrics'.failures = metrics.failures + 1
        /\ metrics'.retries = metrics.retries
        /\ metrics'.repairs = metrics.repairs /\ metrics'.exhausted = metrics.exhausted
    BY <1>1, <2>1, CountedCounts
  <2>5. metrics.failures = metrics.retries /\ metrics.attempts = metrics.durations + 1
        /\ metrics.retries <= MaxRetries * (2 + metrics.repairs)
        /\ metrics.exhausted <= metrics.repairs /\ metrics.repairs \in 0..1
    BY <2>1, ServedBalance
  <2>6. metrics'.failures # metrics'.retries
    BY <1>2, <2>4, <2>5
  <2> QED
    BY <2>1, <2>2, <2>3, <2>4, <2>5, <2>6, OverBalance DEF MaxToolRepairAttempts
<1>5. CASE Broadcast
  <2>1. Begun /\ TurnOver /\ UNCHANGED <<response, metrics>>
    BY <1>5 DEF Broadcast
  <2>2. metrics.failures = metrics.retries /\ metrics.attempts = metrics.durations + 0
        /\ metrics.retries <= MaxRetries * (2 + metrics.repairs)
        /\ metrics.exhausted <= metrics.repairs /\ metrics.repairs \in 0..1
        /\ response.status = 200
    BY <2>1, ServedBalance
  <2> QED
    BY <1>0, <1>1, <1>2, <2>1, <2>2, OverBalance DEF MaxToolRepairAttempts
<1> QED
  BY <1>3, <1>4, <1>5 DEF Fail

\* A line makes a stream begin with its first event, and an attempt of it is
\* over then; it changes no other counter.
LEMMA ReceiveBalance ==
  ASSUME NEW U, Within(U), Balance, turn.pc = "attempt", NEW line, Receive(line),
         turn.mode = "stream" /\ upstream = Null => Heard(line) # <<>>
  PROVE  Balance'
<1> Serving
  BY DEF Serving
<1> DEFINE told == turn.mode = "stream" /\ Heard(line) # <<>>
<1>0. PICK V : response \in Responses(V)
  BY DEF Balance
<1>1. metrics \in Counts /\ turn \in Turns(U)
  BY ServingTurn DEF Balance
<1>2. turn'.pc = turn.pc /\ turn'.mode = turn.mode /\ turn'.tries = turn.tries
      /\ turn'.repairs = turn.repairs
  <2>1. PICK p, r, n : turn' = [turn EXCEPT !.path = p, !.recorder = r, !.renderer = n]
    <3> DEFINE t == turn
    <3>1. turn' = [t EXCEPT !.path = PathAfter(t.path, line),
                            !.recorder = FoldLeft(Observe, t.recorder, Heard(line)),
                            !.renderer =
                              IF t.mode = "stream" /\ Heard(line) # <<>>
                                THEN Delivered(response.message, t.renderer, Heard(line)).renderer
                                ELSE t.renderer]
      BY Zenon DEF Receive
    <3> QED
      BY <3>1, Zenon
  <2> QED
    BY <1>1, <2>1 DEF Turns
<1>3. Serving' /\ (Begun' <=> turn.mode = "stream" /\ response'.status # Null)
  BY <1>2 DEF Serving, Begun
<1>4. CASE ~told
  <2>1. response' = response
    BY <1>4, Zenon DEF Receive
  <2>2. metrics' = metrics
    BY <1>4, Zenon DEF Receive
  <2>3. Begun' <=> Begun
    BY <1>3, <2>1 DEF Begun
  <2>4. turn.mode = "stream" => Begun
    BY <1>4 DEF Balance
  <2> QED
    BY <1>0, <1>1, <1>2, <1>3, <2>1, <2>2, <2>3, <2>4, ServedBalance, ServedNext DEF Balance
<1>5. CASE told
  <2>1. PICK message : response' = [response EXCEPT !.status = 200, !.message = message]
    BY <1>5, Zenon DEF Receive
  <2> DEFINE W == V \union {message}
  <2>2. response' \in Responses(W) /\ response'.status = 200
    <3>1. Responses(V) \subseteq Responses(W) /\ message \in W
      BY DEF Responses
    <3> HIDE DEF W
    <3>2. response \in Responses(W)
      BY <1>0, <3>1
    <3>3. response' = [status |-> 200, message |-> message, done |-> response.done]
      BY <2>1, <3>2 DEF Responses
    <3>4. response.done \in BOOLEAN
      BY <3>2 DEF Responses
    <3> QED
      BY <3>1, <3>3, <3>4 DEF Responses
  <2>3. Begun'
    BY <1>3, <1>5, <2>2, DialogueAssumption
  <2>4. metrics' = IF ~Begun THEN [metrics EXCEPT !.durations = @ + 1] ELSE metrics
    BY <1>5, Zenon DEF Receive
  <2>5. /\ metrics' \in Counts
        /\ metrics'.attempts = metrics.attempts
        /\ metrics'.durations = metrics.durations + (IF ~Begun THEN 1 ELSE 0)
        /\ metrics'.failures = metrics.failures /\ metrics'.retries = metrics.retries
        /\ metrics'.repairs = metrics.repairs /\ metrics'.exhausted = metrics.exhausted
    BY <1>1, <2>4 DEF Counts
  <2>6. metrics'.attempts = metrics'.durations + 0
    <3>1. metrics.durations \in Nat
      BY <1>1 DEF Counts
    <3>2. metrics.attempts = metrics.durations + (IF ~Begun THEN 1 ELSE 0)
      BY ServedBalance
    <3> QED
      BY <2>5, <3>1, <3>2
  <2> HIDE DEF W
  <2>7. /\ metrics'.failures = metrics'.retries
        /\ metrics'.retries <= MaxRetries * (2 + metrics'.repairs)
        /\ metrics'.exhausted <= metrics'.repairs
        /\ metrics'.repairs \in 0..1
        /\ turn'.repairs = metrics'.repairs
    BY <1>2, <2>5, ServedBalance
  <2>8. metrics'.exhausted = 0 /\ turn'.pc = "attempt"
        /\ metrics'.retries <= MaxRetries * (1 + turn'.repairs) + turn'.tries
    BY <1>2, <2>5 DEF Balance
  <2> QED
    BY <1>3, <2>2, <2>3, <2>5, <2>6, <2>7, <2>8, ServedNext
<1> QED
  BY <1>4, <1>5

\* What a commit leaves of the turn.
LEMMA CommitTurnFields ==
  ASSUME NEW U, turn \in Turns(U), NEW path, NEW recorder, NEW next \in Pcs,
         Commit(path, recorder, next)
  PROVE  turn'.pc = next /\ turn'.mode = turn.mode /\ turn'.repairs = turn.repairs
<1>1. PICK now, conv :
        turn' = [turn EXCEPT !.pc = next, !.path = path, !.recorder = recorder,
                             !.stamp = now, !.conv = conv]
  BY DEF Commit
<1> QED
  BY <1>1 DEF Turns

\* The steps that add nothing but the end of an attempt to the counters.
LEMMA QuietBalance ==
  ASSUME NEW U, Within(U), Balance, Serving,
         turn'.pc \in {"settle", "unlink", "reply"},
         turn'.mode = turn.mode, turn'.repairs = turn.repairs,
         response' = response, turn.mode = "stream" /\ upstream' # Null => Begun,
         turn'.pc = "settle" => metrics'.exhausted = 0,
         metrics' \in Counts, metrics'.attempts = metrics'.durations,
         metrics'.failures = metrics.failures, metrics'.retries = metrics.retries,
         metrics'.repairs = metrics.repairs, metrics'.exhausted <= metrics.repairs
  PROVE  Balance'
<1>1. PICK V : response \in Responses(V)
  BY DEF Balance
<1>2. Serving' /\ (Begun' <=> Begun)
  BY DEF Serving, Begun
<1>3. metrics'.attempts = metrics'.durations + 0
  BY DEF Counts
<1>4. response.status \in {Null, 200}
  BY DEF Balance
<1> QED
  BY <1>1, <1>2, <1>3, <1>4, ServedBalance, ServedNext

\* Every step keeps the balance.
LEMMA BalanceStep ==
  ASSUME NEW U, Within(U), Balance, [Next]_vars
  PROVE  Balance'
<1>0. PICK V : response \in Responses(V)
  BY DEF Balance
<1>a. metrics \in Counts /\ MaxRetries \in Nat
  BY DialogueAssumption DEF Balance
<1>b. /\ metrics.attempts \in Nat /\ metrics.durations \in Nat /\ metrics.failures \in Nat
      /\ metrics.retries \in Nat /\ metrics.repairs \in Nat /\ metrics.exhausted \in Nat
  BY <1>a DEF Counts
<1>1. CASE Ask
  BY <1>1, AskBalance
<1>2. CASE SessionOpened
  <2>1. turn.pc = "session" /\ Serving
    BY <1>2 DEF SessionOpened, Serving
  <2>2. turn \in Turns(U)
    BY <2>1, ServingTurn
  <2>3. turn'.pc = "attempt" /\ turn'.mode = turn.mode /\ turn'.tries = 0
        /\ turn'.repairs = turn.repairs
    <3>1. PICK session :
            turn' = [turn EXCEPT !.pc = "attempt", !.tries = 0, !.session = session]
      BY <1>2 DEF SessionOpened
    <3> QED
      BY <2>2, <3>1 DEF Turns
  <2>4. ~Begun /\ turn.repairs = 0 /\ metrics.retries <= turn.tries
        /\ metrics.exhausted = 0 /\ response.status \in {Null, 200}
        /\ (turn.mode = "stream" /\ upstream # Null => Begun)
    BY <2>1 DEF Balance
  <2>5. response' = response /\ upstream' = upstream
    BY <1>2 DEF SessionOpened
  <2>6. Serving' /\ ~Begun'
    BY <2>3, <2>4, <2>5 DEF Serving, Begun
  <2> DEFINE timed == [metrics EXCEPT !.durations = @ + 1]
  <2>7. /\ timed \in Counts
        /\ timed.attempts = metrics.attempts /\ timed.durations = metrics.durations + 1
        /\ timed.failures = metrics.failures /\ timed.retries = metrics.retries
        /\ timed.repairs = metrics.repairs /\ timed.exhausted = metrics.exhausted
    BY <1>a DEF Counts
  <2>8. metrics' = Attempting(timed)
    BY <1>2 DEF SessionOpened
  <2> HIDE DEF timed
  <2>9. /\ metrics' \in Counts
        /\ metrics'.attempts = metrics.attempts + 1
        /\ metrics'.durations = metrics.durations + 1
        /\ metrics'.failures = metrics.failures /\ metrics'.retries = metrics.retries
        /\ metrics'.repairs = metrics.repairs /\ metrics'.exhausted = metrics.exhausted
    BY <2>7, <2>8, AttemptingCounts
  <2>10. /\ metrics.failures = metrics.retries
         /\ metrics.attempts = metrics.durations + 1
         /\ metrics.repairs = turn.repairs /\ metrics.repairs \in 0..1
         /\ metrics.retries <= MaxRetries * (2 + metrics.repairs)
    BY <2>1, <2>4, ServedBalance
  <2>11. metrics'.attempts = metrics'.durations + 1
    BY <1>b, <2>9, <2>10
  <2>12. metrics'.retries <= MaxRetries * (1 + turn'.repairs) + turn'.tries
    <3>1. turn.tries \in 0..MaxRetries
      BY <2>2, TurnFields
    <3>2. metrics.retries <= MaxRetries + 0
      BY <1>a, <1>b, <2>4, <3>1
    <3> QED
      BY <2>3, <2>4, <2>9, <3>2, Budgets
  <2> QED
    BY <1>0, <2>3, <2>4, <2>5, <2>6, <2>9, <2>10, <2>11, <2>12, ServedNext
<1>3. CASE SessionFailed \/ Garbage \/ Truncate \/ Raise
  <2>1. turn.pc \in {"session", "attempt"} /\ \E failure : Fail(failure)
    BY <1>3 DEF SessionFailed, Garbage, Truncate, Raise, Reading
  <2> QED
    BY <2>1, FailBalance
<1>4. CASE Ready
  <2> DEFINE id == Unused(MessageIds, IdsInUse)
  <2>1. id \in MessageIds
    BY <1>4, UnusedIsFree, DialogueAssumption DEF Ready
  <2>2. turn.pc = "attempt" /\ Receive(ReadyLine(id))
    BY <1>4 DEF Ready
  <2> QED
    BY <2>1, <2>2, ReadyIsHeard, ReceiveBalance
<1>5. CASE TakeSnapshot \/ Speak \/ Think \/ Note
  <2>1. turn.pc = "attempt" /\ upstream # Null /\ \E line : Receive(line)
    <3>1. CASE TakeSnapshot
      BY <3>1 DEF TakeSnapshot, Reading
    <3>2. CASE Speak
      BY <3>2 DEF Speak, Reading
    <3>3. CASE Think
      BY <3>3 DEF Think, Reading
    <3>4. CASE Note
      BY <3>4 DEF Note, Reading
    <3> QED
      BY <1>5, <3>1, <3>2, <3>3, <3>4
  <2> QED
    BY <2>1, ReceiveBalance
<1>6. CASE DrainEnds
  <2>1. turn.pc = "attempt" /\ turn.mode # "stream" /\ Serving /\ response' = response
        /\ metrics' = [metrics EXCEPT !.durations = @ + 1]
    BY <1>6 DEF DrainEnds, Reading, Serving
  <2>2. turn \in Turns(U)
    BY <2>1, ServingTurn
  <2>3. turn'.pc = "settle" /\ turn'.mode = turn.mode /\ turn'.repairs = turn.repairs
    <3>1. PICK path, recorder :
            turn' = [turn EXCEPT !.pc = "settle", !.path = path, !.recorder = recorder]
      BY <1>6 DEF DrainEnds
    <3> QED
      BY <2>2, <3>1 DEF Turns
  <2>4. /\ metrics' \in Counts
        /\ metrics'.attempts = metrics.attempts
        /\ metrics'.durations = metrics.durations + 1
        /\ metrics'.failures = metrics.failures /\ metrics'.retries = metrics.retries
        /\ metrics'.repairs = metrics.repairs /\ metrics'.exhausted = metrics.exhausted
    BY <1>a, <2>1 DEF Counts
  <2>5. metrics.attempts = metrics.durations + 1 /\ metrics.exhausted = 0
    BY <2>1, ServedBalance DEF Begun, Balance
  <2>6. metrics'.attempts = metrics'.durations /\ metrics'.exhausted <= metrics.repairs
        /\ metrics'.exhausted = 0
    BY <1>b, <2>4, <2>5
  <2> QED
    BY <2>1, <2>3, <2>4, <2>6, QuietBalance
<1>7. CASE StreamEnds
  <2>1. turn.mode = "stream" /\ upstream # Null /\ turn.pc = "attempt" /\ Serving
        /\ response' = response /\ metrics' = metrics /\ "reply" \in Pcs
        /\ \E path, recorder : Commit(path, recorder, "reply")
    BY <1>7 DEF StreamEnds, Reading, Serving, Pcs
  <2>2. turn'.pc = "reply" /\ turn'.mode = turn.mode /\ turn'.repairs = turn.repairs
    BY <2>1, ServingTurn, CommitTurnFields
  <2>3. Begun
    BY <2>1 DEF Balance
  <2>4. metrics.attempts = metrics.durations + 0 /\ metrics.exhausted <= metrics.repairs
    BY <2>1, <2>3, ServedBalance
  <2>5. metrics'.attempts = metrics'.durations
    BY <1>b, <2>1, <2>4
  <2> QED
    BY <1>a, <2>1, <2>2, <2>3, <2>4, <2>5, QuietBalance
<1>8. CASE RepairRetry
  <2>1. turn.pc = "settle" /\ Serving /\ turn.mode = "tool" /\ turn.repairs < 1
        /\ response' = response /\ upstream' = Null
    BY <1>8 DEF RepairRetry, CanRepair, ToolMode, Serving, MaxToolRepairAttempts
  <2>2. turn'.pc = "attempt" /\ turn'.mode = turn.mode /\ turn'.tries = 0
        /\ turn'.repairs = turn.repairs + 1
    <3>1. PICK W : /\ FreshAttempt(turn) \in Turns(W)
                   /\ FreshAttempt(turn).mode = turn.mode
                   /\ FreshAttempt(turn).repairs = turn.repairs
      BY <2>1, ServingTurn, FreshTurn
    <3> DEFINE fresh   == FreshAttempt(turn)
               repairs == fresh.repairs + 1
    <3>2. PICK simulated, prompt :
            turn' = [fresh EXCEPT !.pc = "attempt", !.tries = 0, !.repairs = repairs,
                                  !.simulated = simulated, !.prompt = prompt]
      BY <1>8 DEF RepairRetry
    <3>3. fresh \in Turns(W)
      BY <3>1
    <3> HIDE DEF fresh, repairs
    <3>4. turn'.pc = "attempt" /\ turn'.mode = fresh.mode /\ turn'.tries = 0
          /\ turn'.repairs = repairs
      BY <3>2, <3>3 DEF Turns
    <3> QED
      BY <3>1, <3>4 DEF fresh, repairs
  <2>3. Serving' /\ ~Begun'
    BY <2>1, <2>2 DEF Serving, Begun
  <2> DEFINE again == Attempting(metrics)
  <2>4. /\ again \in Counts
        /\ again.attempts = metrics.attempts + 1 /\ again.durations = metrics.durations
        /\ again.failures = metrics.failures /\ again.retries = metrics.retries
        /\ again.repairs = metrics.repairs /\ again.exhausted = metrics.exhausted
    BY <1>a, AttemptingCounts
  <2>5. metrics' = [again EXCEPT !.repairs = @ + 1]
    BY <1>8 DEF RepairRetry
  <2> HIDE DEF again
  <2>6. /\ metrics' \in Counts
        /\ metrics'.attempts = metrics.attempts + 1
        /\ metrics'.durations = metrics.durations
        /\ metrics'.failures = metrics.failures /\ metrics'.retries = metrics.retries
        /\ metrics'.repairs = metrics.repairs + 1 /\ metrics'.exhausted = metrics.exhausted
    BY <2>4, <2>5 DEF Counts
  <2>7. /\ metrics.failures = metrics.retries
        /\ metrics.attempts = metrics.durations + 0
        /\ turn.repairs = metrics.repairs /\ metrics.repairs \in 0..1
        /\ metrics.retries <= MaxRetries * (2 + metrics.repairs)
        /\ metrics.exhausted = 0 /\ response.status \in {Null, 200}
    BY <2>1, ServedBalance DEF Balance
  <2>8. metrics.repairs = 0
    BY <2>1, <2>7
  <2>9. /\ metrics'.attempts = metrics'.durations + 1 /\ metrics'.repairs = 1
        /\ turn'.repairs = 1 /\ metrics'.exhausted = 0
    BY <1>b, <2>2, <2>6, <2>7, <2>8
  <2>10. metrics'.retries <= MaxRetries * (1 + 1) /\ MaxRetries * (1 + 1) \in Nat
         /\ MaxRetries * (2 + 1) = MaxRetries * (1 + 1) + MaxRetries
    BY <2>6, <2>7, <2>8, Budgets
  <2>11. /\ metrics'.retries <= MaxRetries * (1 + turn'.repairs) + turn'.tries
         /\ metrics'.retries <= MaxRetries * (2 + metrics'.repairs)
    <3> DEFINE b == MaxRetries * (1 + 1)
               B == MaxRetries * (2 + 1)
    <3>1. metrics'.retries <= b /\ b \in Nat /\ B = b + MaxRetries /\ metrics'.retries \in Nat
      BY <2>6, <2>10 DEF Counts
    <3> HIDE DEF b, B
    <3>2. metrics'.retries <= b + 0 /\ metrics'.retries <= B
      BY <1>a, <3>1
    <3> QED
      BY <2>2, <2>9, <3>2 DEF b, B
  <2> QED
    BY <1>0, <2>1, <2>2, <2>3, <2>6, <2>7, <2>9, <2>11, ServedNext
<1>9. CASE CommitDrained
  <2>1. turn.pc = "settle" /\ Serving /\ ~CanRepair
        /\ response' = response /\ upstream' = upstream
    BY <1>9 DEF CommitDrained, Serving
  <2>2. turn'.pc \in {"unlink", "reply"} /\ turn'.mode = turn.mode
        /\ turn'.repairs = turn.repairs
    <3>1. \E next \in {"unlink", "reply"} : Commit(turn.path, turn.recorder, next)
      BY <1>9 DEF CommitDrained
    <3>2. {"unlink", "reply"} \subseteq Pcs
      BY DEF Pcs
    <3> QED
      BY <2>1, <3>1, <3>2, ServingTurn, CommitTurnFields
  <2>3. metrics.exhausted = 0 /\ metrics.attempts = metrics.durations + 0
        /\ turn.repairs = metrics.repairs
        /\ (turn.mode = "stream" /\ upstream' # Null => Begun)
    BY <2>1, ServedBalance DEF Balance
  <2>4. metrics.attempts = metrics.durations
    BY <1>b, <2>3
  <2>5. CASE ToolMode /\ turn.recorder.calls = <<>>
    <3>1. /\ metrics' \in Counts
          /\ metrics'.attempts = metrics.attempts /\ metrics'.durations = metrics.durations
          /\ metrics'.failures = metrics.failures /\ metrics'.retries = metrics.retries
          /\ metrics'.repairs = metrics.repairs
          /\ metrics'.exhausted = metrics.exhausted + 1
      <4>1. metrics' = [metrics EXCEPT !.exhausted = @ + 1]
        BY <1>9, <2>5 DEF CommitDrained
      <4> QED
        BY <1>a, <4>1 DEF Counts
    <3>2. metrics.repairs >= 1
      BY <1>b, <2>1, <2>3, <2>5 DEF CanRepair, MaxToolRepairAttempts
    <3>3. metrics'.exhausted <= metrics.repairs /\ metrics'.attempts = metrics'.durations
      BY <1>b, <2>3, <2>4, <3>1, <3>2
    <3> QED
      BY <2>1, <2>2, <2>3, <3>1, <3>3, QuietBalance
  <2>6. CASE ~(ToolMode /\ turn.recorder.calls = <<>>)
    <3>1. metrics' = metrics
      BY <1>9, <2>6 DEF CommitDrained
    <3>2. metrics'.exhausted <= metrics.repairs
      BY <1>b, <2>3, <3>1
    <3> QED
      BY <1>a, <2>1, <2>2, <2>3, <2>4, <3>1, <3>2, QuietBalance
  <2> QED
    BY <2>5, <2>6
<1>10. CASE UnlinkRepaired
  <2>1. turn.pc = "unlink" /\ Serving /\ response' = response /\ upstream' = upstream
        /\ metrics' = metrics /\ turn' = [turn EXCEPT !.pc = "reply"]
    BY <1>10 DEF UnlinkRepaired, Serving
  <2>2. turn'.pc = "reply" /\ turn'.mode = turn.mode /\ turn'.repairs = turn.repairs
    BY <2>1, ServingTurn DEF Turns
  <2>3. /\ metrics.attempts = metrics.durations + 0 /\ metrics.exhausted <= metrics.repairs
        /\ (turn.mode = "stream" /\ upstream' # Null => Begun)
    BY <2>1, ServedBalance DEF Balance
  <2>4. metrics'.attempts = metrics'.durations
    BY <1>b, <2>1, <2>3
  <2> QED
    BY <1>a, <2>1, <2>2, <2>3, <2>4, QuietBalance
<1>11. CASE Tell \/ Lose
  <2>1. Serving /\ TurnOver /\ metrics' = metrics /\ (turn.pc = "reply" \/ Begun)
    BY <1>11 DEF Tell, Lose, Serving
  <2>2. \E W : response' \in Responses(W) /\ response'.status \in {Null, 200}
    <3>1. CASE Tell
      <4>1. PICK way \in Ways :
              response' = [status |-> 200, message |-> Answer(way), done |-> TRUE]
        BY <3>1 DEF Tell
      <4> DEFINE message == Answer(way)
      <4>2. response' = [status |-> 200, message |-> message, done |-> TRUE]
        BY <4>1
      <4> HIDE DEF message
      <4>3. response' \in Responses({message}) /\ response'.status = 200
        BY <4>2 DEF Responses
      <4> QED
        BY <4>3
    <3>2. CASE Lose
      <4>1. response' \in Responses({NothingYet}) /\ response'.status = Null
        BY <3>2 DEF Lose, NoResponse, Responses
      <4> QED
        BY <4>1
    <3> QED
      BY <1>11, <3>1, <3>2
  <2>3. /\ metrics.failures = metrics.retries
        /\ metrics.attempts = metrics.durations + 0
        /\ metrics.retries <= MaxRetries * (2 + metrics.repairs)
        /\ metrics.exhausted <= metrics.repairs /\ metrics.repairs \in 0..1
    BY <2>1, ServedBalance
  <2>4. metrics.attempts = metrics.durations
    BY <1>b, <2>3
  <2> QED
    BY <1>a, <2>1, <2>2, <2>3, <2>4, OverBalance DEF MaxToolRepairAttempts
<1>12. CASE Restart
  <2>1. TurnOver /\ response' = NoResponse /\ metrics' = NoCounts
    BY <1>12 DEF Restart
  <2>2. response' \in Responses({NothingYet}) /\ response'.status = Null
    BY <2>1 DEF NoResponse, Responses
  <2>3. /\ metrics' \in Counts /\ metrics'.attempts = 0 /\ metrics'.durations = 0
        /\ metrics'.failures = 0 /\ metrics'.retries = 0 /\ metrics'.repairs = 0
        /\ metrics'.exhausted = 0
    BY <2>1 DEF NoCounts, Counts
  <2>4. MaxRetries * (2 + 0) >= 0
    BY <1>a
  <2> QED
    BY <2>1, <2>2, <2>3, <2>4, OverBalance DEF MaxToolRepairAttempts
<1>13. CASE UNCHANGED vars
  <2>1. /\ turn' = turn /\ upstream' = upstream /\ response' = response
        /\ metrics' = metrics
    BY <1>13 DEF vars
  <2>2. (Serving' <=> Serving) /\ (Begun' <=> Begun)
    BY <2>1 DEF Serving, Begun
  <2>3. MetricsBalance'
    BY <2>1, <2>2 DEF MetricsBalance, Balance
  <2> QED
    BY <2>1, <2>2, <2>3 DEF Balance
<1> QED
  BY <1>1, <1>2, <1>3, <1>4, <1>5, <1>6, <1>7, <1>8, <1>9, <1>10, <1>11, <1>12, <1>13
     DEF Next

\* Nothing is counted before the first request.
LEMMA BalanceInit == Init => Balance
<1> SUFFICES ASSUME Init PROVE Balance
  OBVIOUS
<1>1. turn = Idle /\ upstream = Null /\ response = NoResponse /\ metrics = NoCounts
  BY DEF Init
<1>2. turn.pc = "idle" /\ ~Serving
  BY <1>1 DEF Idle, Serving
<1>3. response \in Responses({NothingYet}) /\ response.status = Null
  BY <1>1 DEF NoResponse, Responses
<1>4. /\ metrics \in Counts /\ metrics.attempts = 0 /\ metrics.durations = 0
      /\ metrics.failures = 0 /\ metrics.retries = 0 /\ metrics.repairs = 0
      /\ metrics.exhausted = 0
  BY <1>1 DEF NoCounts, Counts
<1>5. 0 <= MaxRetries * (2 + 0)
  BY DialogueAssumption
<1>6. MetricsBalance
  BY <1>2, <1>3, <1>4, <1>5 DEF MetricsBalance, MaxToolRepairAttempts
<1> QED
  BY <1>1, <1>2, <1>3, <1>4, <1>6 DEF Balance

\* Every attempt is timed once it is over, every failure is retried or is the
\* status the client sees, and no turn retries or repairs beyond its budget
\* (reliability.py with_transport_retry, metrics.py, server.py repair loop).
THEOREM CountersBalance == Spec => []MetricsBalance
<1>1. Typed /\ Bounded /\ Balance /\ [Next]_vars => (Typed /\ Bounded /\ Balance)'
  BY TypedStep, BalanceStep DEF Typed
<1>2. Init => Typed /\ Bounded /\ Balance
  BY TypedInit, BalanceInit
<1>3. Balance => MetricsBalance
  BY DEF Balance
<1> QED
  BY <1>1, <1>2, <1>3, PTL DEF Spec

-----------------------------------------------------------------------------
(* What a request is for does not change while it is served.               *)

\* What a line changes of the turn.
LEMMA ReceivedTurn ==
  ASSUME NEW U, turn \in Turns(U), NEW line, Receive(line)
  PROVE  /\ turn'.pc = turn.pc /\ turn'.mode = turn.mode /\ turn'.incoming = turn.incoming
         /\ turn'.conv = turn.conv /\ turn'.session = turn.session
         /\ turn'.parent = turn.parent /\ turn'.sent = turn.sent /\ turn'.prompt = turn.prompt
         /\ turn'.tries = turn.tries /\ turn'.repairs = turn.repairs
         /\ turn'.simulated = turn.simulated /\ turn'.stamp = turn.stamp
         /\ turn'.path = PathAfter(turn.path, line)
         /\ turn'.recorder = FoldLeft(Observe, turn.recorder, Heard(line))
         /\ turn'.renderer =
              IF turn.mode = "stream" /\ Heard(line) # <<>>
                THEN Delivered(response.message, turn.renderer, Heard(line)).renderer
                ELSE turn.renderer
<1> DEFINE t == turn
           p == PathAfter(t.path, line)
           r == FoldLeft(Observe, t.recorder, Heard(line))
           n == IF t.mode = "stream" /\ Heard(line) # <<>>
                  THEN Delivered(response.message, t.renderer, Heard(line)).renderer
                  ELSE t.renderer
<1>1. turn' = [t EXCEPT !.path = p, !.recorder = r, !.renderer = n]
  BY Zenon DEF Receive
<1> HIDE DEF p, r, n
<1>2. /\ turn'.pc = turn.pc /\ turn'.mode = turn.mode /\ turn'.incoming = turn.incoming
      /\ turn'.conv = turn.conv /\ turn'.session = turn.session
      /\ turn'.parent = turn.parent /\ turn'.sent = turn.sent /\ turn'.prompt = turn.prompt
      /\ turn'.tries = turn.tries /\ turn'.repairs = turn.repairs
      /\ turn'.simulated = turn.simulated /\ turn'.stamp = turn.stamp
      /\ turn'.path = p /\ turn'.recorder = r /\ turn'.renderer = n
  BY <1>1 DEF Turns
<1> QED
  BY <1>2, Zenon DEF p, r, n

\* What a commit changes of it.
LEMMA CommittedTurn ==
  ASSUME NEW U, turn \in Turns(U), NEW path, NEW recorder, NEW next,
         Commit(path, recorder, next)
  PROVE  /\ turn'.pc = next /\ turn'.mode = turn.mode /\ turn'.incoming = turn.incoming
         /\ turn'.session = turn.session
         /\ turn'.parent = turn.parent /\ turn'.sent = turn.sent /\ turn'.prompt = turn.prompt
         /\ turn'.tries = turn.tries /\ turn'.repairs = turn.repairs
         /\ turn'.simulated = turn.simulated /\ turn'.renderer = turn.renderer
         /\ turn'.path = path /\ turn'.recorder = recorder
         /\ turn'.stamp \in Instants
         /\ turn'.conv = CommittedAs(turn.conv, turn'.stamp)
         /\ CommitTurn(turn.conv, Told(recorder), turn.session, recorder.parent, turn'.stamp)
<1>1. PICK now \in Instants :
        /\ CommitTurn(turn.conv, Told(recorder), turn.session, recorder.parent, now)
        /\ turn' = [turn EXCEPT !.pc = next, !.path = path, !.recorder = recorder,
                                !.stamp = now, !.conv = CommittedAs(turn.conv, now)]
  BY DEF Commit
<1> DEFINE conv == CommittedAs(turn.conv, now)
           done == CommitTurn(turn.conv, Told(recorder), turn.session, recorder.parent, now)
<1>2. turn' = [turn EXCEPT !.pc = next, !.path = path, !.recorder = recorder,
                           !.stamp = now, !.conv = conv] /\ done
  BY <1>1
<1> HIDE DEF conv, done
<1>3. /\ turn'.pc = next /\ turn'.mode = turn.mode /\ turn'.incoming = turn.incoming
      /\ turn'.session = turn.session
      /\ turn'.parent = turn.parent /\ turn'.sent = turn.sent /\ turn'.prompt = turn.prompt
      /\ turn'.tries = turn.tries /\ turn'.repairs = turn.repairs
      /\ turn'.simulated = turn.simulated /\ turn'.renderer = turn.renderer
      /\ turn'.path = path /\ turn'.recorder = recorder
      /\ turn'.stamp = now /\ turn'.conv = conv
  BY <1>2 DEF Turns
<1> QED
  BY <1>2, <1>3, Zenon DEF conv, done

\* What a step leaves of a request,
FixedFields ==
  /\ turn'.mode = turn.mode /\ turn'.incoming = turn.incoming
  /\ turn'.sent = turn.sent /\ turn'.parent = turn.parent

\* and of its prompt.
FixedPrompt == turn'.prompt = turn.prompt /\ turn'.simulated = turn.simulated

\* Until it is over a request keeps what it is for, but for the prompt, which
\* only a repair changes.
LEMMA TurnFixed ==
  ASSUME NEW U, Within(U), [Next]_vars, Serving', ~Ask
  PROVE  Serving /\ FixedFields /\ (RepairRetry \/ FixedPrompt)
<1> USE DEF FixedFields, FixedPrompt
<1>0. ASSUME Serving PROVE turn \in Turns(U)
  BY <1>0, ServingTurn
<1>1. TurnOver => ~Serving'
  BY DEF TurnOver, Serving, Idle
<1>2. CASE SessionOpened
  <2>1. Serving
    BY <1>2 DEF SessionOpened, Serving
  <2>2. PICK session : turn' = [turn EXCEPT !.pc = "attempt", !.tries = 0, !.session = session]
    BY <1>2 DEF SessionOpened
  <2> QED
    BY <1>0, <2>1, <2>2 DEF Turns
<1>3. CASE SessionFailed \/ Garbage \/ Truncate \/ Raise
  <2>1. Serving /\ \E failure : Fail(failure)
    BY <1>3 DEF SessionFailed, Garbage, Truncate, Raise, Reading, Serving
  <2>2. turn' = [FreshAttempt(turn) EXCEPT !.tries = @ + 1]
    BY <1>1, <2>1 DEF Fail, Retry, Surface, Broadcast
  <2>3. FreshAttempt(turn) = [turn EXCEPT !.path = Null, !.recorder = NewRecorder]
    BY DEF FreshAttempt
  <2> DEFINE r == NewRecorder
             n == turn.tries + 1
  <2>4. turn' = [[turn EXCEPT !.path = Null, !.recorder = r] EXCEPT !.tries = n]
    BY <1>0, <2>1, <2>2, <2>3 DEF Turns
  <2> HIDE DEF r, n
  <2> QED
    BY <1>0, <2>1, <2>4 DEF Turns
<1>4. CASE Ready \/ TakeSnapshot \/ Speak \/ Think \/ Note
  <2>1. Serving /\ \E line : Receive(line)
    <3>1. CASE Ready
      BY <3>1 DEF Ready, Serving
    <3>2. CASE TakeSnapshot
      BY <3>2 DEF TakeSnapshot, Reading, Serving
    <3>3. CASE Speak
      BY <3>3 DEF Speak, Reading, Serving
    <3>4. CASE Think
      BY <3>4 DEF Think, Reading, Serving
    <3>5. CASE Note
      BY <3>5 DEF Note, Reading, Serving
    <3> QED
      BY <1>4, <3>1, <3>2, <3>3, <3>4, <3>5
  <2> QED
    BY <1>0, <2>1, ReceivedTurn
<1>5. CASE DrainEnds
  <2>1. PICK path, recorder :
          turn' = [turn EXCEPT !.pc = "settle", !.path = path, !.recorder = recorder]
    BY <1>5 DEF DrainEnds
  <2>2. Serving
    BY <1>5 DEF DrainEnds, Reading, Serving
  <2> QED
    BY <1>0, <2>1, <2>2 DEF Turns
<1>6. CASE StreamEnds \/ CommitDrained
  <2>1. Serving /\ \E path, recorder, next : Commit(path, recorder, next)
    BY <1>6 DEF StreamEnds, CommitDrained, Reading, Serving
  <2> QED
    BY <1>0, <2>1, CommittedTurn
<1>7. CASE RepairRetry
  <2>1. Serving
    BY <1>7 DEF RepairRetry, Serving
  <2>2. FreshAttempt(turn) = [turn EXCEPT !.path = Null, !.recorder = NewRecorder]
    BY DEF FreshAttempt
  <2> DEFINE fresh == FreshAttempt(turn)
             recorder == NewRecorder
  <2>3. fresh = [turn EXCEPT !.path = Null, !.recorder = recorder]
    BY <2>2
  <2> DEFINE n == fresh.repairs + 1
  <2>4. PICK simulated, prompt :
          turn' = [fresh EXCEPT !.pc = "attempt", !.tries = 0, !.repairs = n,
                                !.simulated = simulated, !.prompt = prompt]
    BY <1>7 DEF RepairRetry
  <2> HIDE DEF fresh, recorder, n
  <2> QED
    BY <1>0, <1>7, <2>1, <2>3, <2>4 DEF Turns
<1>8. CASE UnlinkRepaired
  <2>1. Serving /\ turn' = [turn EXCEPT !.pc = "reply"]
    BY <1>8 DEF UnlinkRepaired, Serving
  <2> QED
    BY <1>0, <2>1 DEF Turns
<1>9. CASE Tell \/ Lose \/ Restart
  BY <1>1, <1>9 DEF Tell, Lose, Restart
<1>10. CASE UNCHANGED vars
  BY <1>10 DEF vars, Serving
<1> QED
  BY <1>2, <1>3, <1>4, <1>5, <1>6, <1>7, <1>8, <1>9, <1>10 DEF Next

-----------------------------------------------------------------------------
(* Folds.  FoldLeft goes through the sets of places of a sequence; all     *)
(* that matters of it is what it holds after each place.                   *)

\* What a fold over places takes off first.
LEMMA Greatest ==
  ASSUME NEW n \in Nat, NEW d \in SUBSET (1..n), d # {}
  PROVE  Max(d) \in d /\ \A k \in d : k <= Max(d)
<1>1. d \subseteq 0..n
  OBVIOUS
<1>2. \E m \in d : \A k \in d : m >= k
  BY <1>1, GreatestNatural
<1>3. Max(d) = CHOOSE m \in d : \A k \in d : m >= k
  BY Zenon DEF Max
<1> DEFINE m == Max(d)
<1> HIDE DEF m
<1>4. m \in d /\ \A k \in d : m >= k
  BY <1>2, <1>3 DEF m
<1>5. \A k \in d : k \in Int
  OBVIOUS
<1> QED
  BY <1>4, <1>5 DEF m

\* From the first places it takes off the last.
LEMMA FirstPlaces ==
  ASSUME NEW k \in Nat \ {0}
  PROVE  Max(1..k) = k /\ (1..k) \ {k} = 1..(k - 1) /\ 1..k # {}
<1>1. k \in 1..k /\ 1..k \in SUBSET (1..k)
  OBVIOUS
<1>2. Max(1..k) \in 1..k /\ k <= Max(1..k)
  BY <1>1, Greatest
<1> QED
  BY <1>1, <1>2

\* A step from a value to the next one, at each of n places.
StepsOn(step, n, V) == \A k \in 1..n : \A v \in V : step[<<k, v>>] \in V

\* The steps over the set of places, the last place last.
OverSets(it, base, step, n, V) ==
  /\ it \in [SUBSET (1..n) -> V]
  /\ \A d \in SUBSET (1..n) :
       it[d] = IF d = {} THEN base ELSE step[<<Max(d), it[d \ {Max(d)}]>>]

\* The same, place after place.
OverPlaces(at, base, step, n, V) ==
  /\ at \in [0..n -> V]
  /\ at[0] = base
  /\ \A k \in 1..n : at[k] = step[<<k, at[k - 1]>>]

\* Such a table over sets of places exists.
LEMMA Iterated ==
  ASSUME NEW n \in Nat, NEW V, NEW base \in V, NEW step, StepsOn(step, n, V)
  PROVE  \E it : OverSets(it, base, step, n, V)
<1> DEFINE D == SUBSET (1..n)
           Next1(g, d) == IF d = {} THEN base ELSE step[<<Max(d), g[d \ {Max(d)}]>>]
           Below(d, m) == \A k \in d : k < m
           Good(m, g) == g \in [D -> V] /\ \A d \in D : Below(d, m) => g[d] = Next1(g, d)
           Bad == {m \in Nat : ~ \E g : Good(m, g)}
<1>1. ASSUME NEW d \in D, d # {}
      PROVE  /\ Max(d) \in 1..n /\ d \ {Max(d)} \in D
             /\ \A m \in Nat : Below(d, m + 1) => Below(d \ {Max(d)}, m)
  <2> DEFINE t == Max(d)
  <2>1. t \in d /\ \A k \in d : k <= t
    BY <1>1, Greatest
  <2> HIDE DEF t
  <2>2. t \in 1..n /\ d \ {t} \in D
    BY <2>1
  <2>3. \A k \in d : k \in Nat
    OBVIOUS
  <2>4. ASSUME NEW m \in Nat, Below(d, m + 1), NEW k \in d \ {t}
        PROVE  k < m
    <3>1. t < m + 1 /\ k <= t /\ k # t /\ k \in Nat /\ t \in Nat
      BY <2>1, <2>3, <2>4
    <3> QED
      BY <3>1
  <2>5. \A m \in Nat : Below(d, m + 1) => Below(d \ {t}, m)
    BY <2>4
  <2> QED
    BY <2>2, <2>5 DEF t
<1>2. ASSUME NEW g \in [D -> V], NEW d \in D PROVE Next1(g, d) \in V
  <2>1. CASE d = {}
    BY <2>1
  <2>2. CASE d # {}
    <3> DEFINE t == Max(d)
               v == g[d \ {t}]
    <3>1. t \in 1..n /\ v \in V
      BY <1>1, <2>2
    <3> HIDE DEF t, v
    <3>2. step[<<t, v>>] \in V
      BY <3>1 DEF StepsOn
    <3> QED
      BY <2>2, <3>2 DEF t, v
  <2> QED
    BY <2>1, <2>2
<1>3. Bad = {}
  <2> SUFFICES ASSUME Bad # {} PROVE FALSE
    OBVIOUS
  <2>1. Bad \subseteq Nat
    OBVIOUS
  <2> HIDE DEF Bad
  <2>2. PICK m \in Bad : \A l \in Bad : m <= l
    BY <2>1, LeastNatural
  <2>3. m \in Nat /\ ~ \E g : Good(m, g)
    BY <2>2 DEF Bad
  <2>4. CASE m = 0
    <3> DEFINE g == [d \in D |-> base]
    <3>1. \A d \in D : Below(d, 0) => d = {}
      OBVIOUS
    <3>2. Good(0, g)
      BY <3>1
    <3> HIDE DEF Good, g
    <3>3. Good(m, g)
      BY <2>4, <3>2
    <3> QED
      BY <2>3, <3>3, Zenon
  <2>5. CASE m # 0
    <3>1. m - 1 \in Nat /\ m - 1 < m /\ m = (m - 1) + 1
      BY <2>3, <2>5
    <3>2. m - 1 \notin Bad
      BY <2>1, <2>2, <3>1
    <3> HIDE DEF Good
    <3>3. PICK g : Good(m - 1, g)
      BY <3>1, <3>2 DEF Bad
    <3> DEFINE f == [d \in D |-> Next1(g, d)]
    <3> HIDE DEF Next1
    <3>4. g \in [D -> V] /\ \A d \in D : Below(d, m - 1) => g[d] = Next1(g, d)
      BY <3>3 DEF Good
    <3>5. f \in [D -> V] /\ \A d \in D : f[d] = Next1(g, d)
      BY <1>2, <3>4
    <3> HIDE DEF f, Below
    <3>6. ASSUME NEW d \in D, Below(d, m) PROVE f[d] = Next1(f, d)
      <4>1. CASE d = {}
        BY <3>5, <4>1 DEF Next1
      <4>2. CASE d # {}
        <5> DEFINE e == d \ {Max(d)}
        <5>1. e \in D /\ Below(e, m - 1)
          BY <1>1, <3>1, <3>6, <4>2
        <5>2. f[e] = g[e]
          BY <3>4, <3>5, <5>1
        <5> QED
          BY <3>5, <4>2, <5>2 DEF Next1
      <4> QED
        BY <4>1, <4>2
    <3>7. Good(m, f)
      BY <3>5, <3>6 DEF Good
    <3> QED
      BY <2>3, <3>7
  <2> QED
    BY <2>4, <2>5
<1>4. PICK g : Good(n + 1, g)
  <2> HIDE DEF Good
  <2> QED
    BY <1>3
<1>5. \A d \in D : Below(d, n + 1)
  OBVIOUS
<1>6. g \in [D -> V] /\ \A d \in D : g[d] = Next1(g, d)
  BY <1>4, <1>5
<1> QED
  BY <1>6 DEF OverSets

\* So does one over places.
LEMMA Chain ==
  ASSUME NEW n \in Nat, NEW V, NEW base \in V, NEW step, StepsOn(step, n, V)
  PROVE  \E at : OverPlaces(at, base, step, n, V)
<1>0. PICK it : OverSets(it, base, step, n, V)
  BY Iterated
<1>1. it \in [SUBSET (1..n) -> V]
      /\ \A d \in SUBSET (1..n) :
           it[d] = IF d = {} THEN base ELSE step[<<Max(d), it[d \ {Max(d)}]>>]
  BY <1>0 DEF OverSets
<1> DEFINE at == [k \in 0..n |-> it[1..k]]
<1>2. \A k \in 0..n : 1..k \in SUBSET (1..n)
  OBVIOUS
<1>3. at \in [0..n -> V]
  BY <1>1, <1>2
<1>4. at[0] = base
  <2>1. 1..0 = {} /\ 0 \in 0..n
    OBVIOUS
  <2> QED
    BY <1>1, <1>2, <2>1
<1>5. ASSUME NEW k \in 1..n PROVE at[k] = step[<<k, at[k - 1]>>]
  <2>0. k \in Nat \ {0}
    OBVIOUS
  <2>1. Max(1..k) = k /\ (1..k) \ {k} = 1..(k - 1) /\ 1..k # {}
    BY <2>0, FirstPlaces
  <2>2. k \in 0..n /\ k - 1 \in 0..n
    OBVIOUS
  <2> QED
    BY <1>1, <1>2, <2>1, <2>2
<1> QED
  BY <1>3, <1>4, <1>5 DEF OverPlaces

\* What holds of the base and is kept at every place holds at each of them.
LEMMA Carried ==
  ASSUME NEW n \in Nat, NEW V, NEW at, at[0] \in V,
         \A k \in 1..n : at[k - 1] \in V => at[k] \in V
  PROVE  \A k \in 0..n : at[k] \in V
<1> DEFINE Bad == {k \in 0..n : at[k] \notin V}
<1> SUFFICES ASSUME Bad # {} PROVE FALSE
  OBVIOUS
<1>1. Bad \subseteq Nat
  OBVIOUS
<1> HIDE DEF Bad
<1>2. PICK k \in Bad : \A l \in Bad : k <= l
  BY <1>1, LeastNatural
<1>3. k \in 0..n /\ at[k] \notin V
  BY <1>2 DEF Bad
<1>4. k \in 1..n /\ k - 1 \in 0..n /\ k - 1 < k
  BY <1>3
<1>5. k - 1 \notin Bad
  BY <1>2, <1>4, <1>1
<1> QED
  BY <1>3, <1>4, <1>5 DEF Bad

\* A flattened sequence grows by one part at each place.
LEMMA Flattened ==
  ASSUME NEW V, NEW s \in Seq(Seq(V))
  PROVE  \E at \in [0..Len(s) -> Seq(V)] :
           /\ at[0] = <<>> /\ FlattenSeq(s) = at[Len(s)]
           /\ \A k \in 1..Len(s) : at[k] = at[k - 1] \o s[k]
<1> DEFINE n == Len(s)
           Step(k, v) == v \o s[k]
           step == [p \in (1..n) \X Seq(V) |-> Step(p[1], p[2])]
<1>1. n \in Nat /\ DOMAIN s = 1..n /\ \A k \in 1..n : s[k] \in Seq(V)
  BY LenProperties, ElementOfSeq
<1>2. \A k \in 1..n : \A v \in Seq(V) : v \o s[k] \in Seq(V) /\ step[<<k, v>>] = v \o s[k]
  BY <1>1, ConcatProperties
<1>3. <<>> \in Seq(V)
  BY EmptySeq
<1>a. StepsOn(step, n, Seq(V))
  BY <1>2 DEF StepsOn
<1> HIDE DEF n, step
<1>b. PICK at : OverPlaces(at, <<>>, step, n, Seq(V))
  BY <1>1, <1>3, <1>a, Chain
<1>4. at \in [0..n -> Seq(V)] /\ at[0] = <<>>
      /\ \A k \in 1..n : at[k] = step[<<k, at[k - 1]>>]
  BY <1>b DEF OverPlaces
<1>5. ASSUME NEW k \in 1..n PROVE at[k] = at[k - 1] \o s[k]
  <2>1. k - 1 \in 0..n
    BY <1>1
  <2>2. at[k - 1] \in Seq(V)
    BY <1>4, <2>1
  <2> QED
    BY <1>2, <1>4, <2>2
<1>6. CASE n = 0
  <2>1. s = <<>>
    BY <1>6, EmptySeq DEF n
  <2>2. FlattenSeq(s) = s
    BY <1>6 DEF FlattenSeq, n
  <2> QED
    BY <1>4, <1>5, <1>6, <2>1, <2>2 DEF n
<1>7. CASE n # 0
  <2> DEFINE Rec(g) == g = [i \in 1..n |-> IF i = 1 THEN s[i] ELSE g[i - 1] \o s[i]]
             f == [i \in 1..n |-> at[i]]
             c == CHOOSE g : Rec(g)
  <2>1. FlattenSeq(s) = c[n]
    BY <1>1, <1>7, Zenon DEF FlattenSeq, n
  <2>2. Rec(f)
    <3>1. ASSUME NEW i \in 1..n
          PROVE  f[i] = IF i = 1 THEN s[i] ELSE f[i - 1] \o s[i]
      <4>1. CASE i = 1
        <5>0. 1 \in 1..n /\ 1 - 1 = 0
          BY <4>1
        <5>1. f[1] = at[0] \o s[1] /\ at[0] = <<>> /\ s[1] \in Seq(V)
          BY <1>1, <1>4, <1>5, <5>0
        <5>2. <<>> \o s[1] = s[1]
          BY <5>1, ConcatEmptySeq
        <5> QED
          BY <4>1, <5>1, <5>2
      <4>2. CASE i # 1
        <5>1. i - 1 \in 1..n
          BY <1>1, <4>2
        <5> QED
          BY <1>5, <4>2, <5>1
      <4> QED
        BY <4>1, <4>2
    <3> QED
      BY <3>1
  <2> HIDE DEF Rec, f
  <2>3. Rec(c)
    BY <2>2
  <2> HIDE DEF c
  <2>4. \A i \in 1..n : c[i] = IF i = 1 THEN s[i] ELSE c[i - 1] \o s[i]
    BY <2>3 DEF Rec
  <2> DEFINE go == [k \in 0..n |-> c[k] = at[k]]
  <2>5. \A k \in 1..n : c[k] = at[k]
    <3> DEFINE Bad == {k \in 1..n : c[k] # at[k]}
    <3> SUFFICES ASSUME Bad # {} PROVE FALSE
      OBVIOUS
    <3>1. Bad \subseteq Nat
      BY <1>1
    <3> HIDE DEF Bad
    <3>2. PICK k \in Bad : \A l \in Bad : k <= l
      BY <3>1, LeastNatural
    <3>3. k \in 1..n /\ c[k] # at[k]
      BY <3>2 DEF Bad
    <3>4. CASE k = 1
      <4>0. 1 \in 1..n /\ 1 - 1 = 0
        BY <3>3, <3>4
      <4>1. at[1] = at[0] \o s[1] /\ at[0] = <<>> /\ s[1] \in Seq(V)
        BY <1>1, <1>4, <1>5, <4>0
      <4>2. <<>> \o s[1] = s[1]
        BY <4>1, ConcatEmptySeq
      <4> QED
        BY <2>4, <3>3, <3>4, <4>1, <4>2
    <3>5. CASE k # 1
      <4>1. k - 1 \in 1..n /\ k - 1 < k
        BY <1>1, <3>3, <3>5
      <4>2. k - 1 \notin Bad
        BY <3>1, <3>2, <4>1
      <4>3. c[k - 1] = at[k - 1]
        BY <4>1, <4>2 DEF Bad
      <4> QED
        BY <1>5, <2>4, <3>3, <3>5, <4>3
    <3> QED
      BY <3>4, <3>5
  <2>6. FlattenSeq(s) = at[n]
    BY <1>1, <1>7, <2>1, <2>5
  <2> QED
    BY <1>4, <1>5, <2>6 DEF n
<1> QED
  BY <1>6, <1>7

\* The folds by name.
Recorded(base, s)   == FoldLeft(Observe, base, s)
Gathered(base, s)   == FoldLeft(Assemble, base, s)
Extraction(base, s) == FoldLeft(ExtractPart, base, s)

\* The history of a bare prompt grows by one message at most at each place.
LEMMA Stripped ==
  ASSUME NEW M, NEW V, NEW s \in Seq(M), <<>> \in V,
         \A v \in V : \A m \in M : KeepWords(v, m) \in V
  PROVE  \E at : /\ at[0] = <<>> /\ StripToolHistory(s) = at[Len(s)]
                 /\ \A k \in 1..Len(s) : at[k] = KeepWords(at[k - 1], s[k])
                 /\ \A k \in 0..Len(s) : at[k] \in V
<1> DEFINE n == Len(s)
           step == [p \in (1..n) \X V |-> KeepWords(p[2], s[p[1]])]
           Rec(g) == g = [d \in SUBSET DOMAIN s |->
                            IF d = {} THEN <<>>
                                      ELSE KeepWords(g[d \ {Max(d)}], s[Max(d)])]
           c == CHOOSE g : Rec(g)
           at == [k \in 0..n |-> c[1..k]]
<1>1. n \in Nat /\ DOMAIN s = 1..n /\ \A k \in 1..n : s[k] \in M
  BY LenProperties, ElementOfSeq
<1>2. \A k \in 1..n : \A v \in V : KeepWords(v, s[k]) \in V /\ step[<<k, v>>] = KeepWords(v, s[k])
  BY <1>1
<1>3. StripToolHistory(s) = c[DOMAIN s]
  BY Zenon DEF StripToolHistory, FoldLeft, MapThenFoldSet
<1>a. StepsOn(step, n, V)
  BY <1>2 DEF StepsOn
<1> HIDE DEF n, step
<1>b. PICK it : OverSets(it, <<>>, step, n, V)
  BY <1>1, <1>a, Iterated
<1>4. it \in [SUBSET (1..n) -> V]
      /\ \A d \in SUBSET (1..n) :
           it[d] = IF d = {} THEN <<>> ELSE step[<<Max(d), it[d \ {Max(d)}]>>]
  BY <1>b DEF OverSets
<1>5. Rec(it)
  <2>1. ASSUME NEW d \in SUBSET (1..n)
        PROVE  it[d] = IF d = {} THEN <<>>
                                  ELSE KeepWords(it[d \ {Max(d)}], s[Max(d)])
    <3>1. CASE d = {}
      BY <1>4, <3>1
    <3>2. CASE d # {}
      <4>1. Max(d) \in d
        BY <1>1, <3>2, Greatest
      <4>2. Max(d) \in 1..n /\ d \ {Max(d)} \in SUBSET (1..n)
        BY <4>1
      <4>3. it[d \ {Max(d)}] \in V
        BY <1>4, <4>2
      <4> QED
        BY <1>2, <1>4, <3>2, <4>2, <4>3
    <3> QED
      BY <3>1, <3>2
  <2> QED
    BY <1>1, <1>4, <2>1
<1> HIDE DEF Rec
<1>6. Rec(c)
  BY <1>5
<1> HIDE DEF c
<1>7. \A d \in SUBSET (1..n) :
        c[d] = IF d = {} THEN <<>> ELSE KeepWords(c[d \ {Max(d)}], s[Max(d)])
  BY <1>1, <1>6 DEF Rec
<1>8. at[0] = <<>>
  <2>1. 1..0 = {} /\ 0 \in 0..n /\ {} \in SUBSET (1..n)
    BY <1>1
  <2>2. c[{}] = <<>>
    BY <1>7, <2>1, Zenon
  <2> QED
    BY <2>1, <2>2
<1>9. ASSUME NEW k \in 1..n PROVE at[k] = KeepWords(at[k - 1], s[k])
  <2>0. k \in Nat \ {0}
    BY <1>1
  <2>1. Max(1..k) = k /\ (1..k) \ {k} = 1..(k - 1) /\ 1..k # {}
    BY <2>0, FirstPlaces
  <2>2. k \in 0..n /\ k - 1 \in 0..n /\ 1..k \in SUBSET (1..n)
    BY <1>1
  <2> QED
    BY <1>7, <2>1, <2>2
<1>10. StripToolHistory(s) = at[n]
  BY <1>1, <1>3
<1> HIDE DEF at
<1>11. \A k \in 1..n : at[k - 1] \in V => at[k] \in V
  BY <1>1, <1>9
<1>12. \A k \in 0..n : at[k] \in V
  BY <1>1, <1>8, <1>11, Carried
<1> QED
  BY <1>8, <1>9, <1>10, <1>12 DEF n

\* An event at the renderer, and its chunks at the client.
DeliveredStep(s, event) ==
  [message  |-> Gathered(s.message, Render(s.renderer, event)),
   renderer |-> Rendered(s.renderer, event)]

\* The greatest of one or two places.
LEMMA SmallMax ==
  /\ Max({1}) = 1 /\ {1} \ {1} = {} /\ {1} # {}
  /\ Max({2}) = 2 /\ {2} \ {2} = {}
  /\ Max({1, 2}) = 2 /\ {1, 2} \ {2} = {1} /\ {1, 2} # {}
<1>1. {1} \in SUBSET (1..2) /\ {2} \in SUBSET (1..2) /\ {1, 2} \in SUBSET (1..2)
  OBVIOUS
<1>2. Max({1}) \in {1} /\ Max({2}) \in {2}
  BY <1>1, Greatest
<1>3. Max({1, 2}) \in {1, 2} /\ 2 <= Max({1, 2})
  BY <1>1, Greatest
<1> QED
  BY <1>2, <1>3

\* A recorder that observes two events at most.
LEMMA ObservedFew ==
  ASSUME NEW base
  PROVE  /\ Recorded(base, <<>>) = base
         /\ \A e : Recorded(base, <<e>>) = Observe(base, e)
         /\ \A e, f : Recorded(base, <<e, f>>) = Observe(Observe(base, e), f)
<1> DEFINE Rec(g, s) == g = [d \in SUBSET DOMAIN s |->
                               IF d = {} THEN base
                                         ELSE Observe(g[d \ {Max(d)}], s[Max(d)])]
<1>1. ASSUME NEW s PROVE Recorded(base, s) = (CHOOSE g : Rec(g, s))[DOMAIN s]
  BY Zenon DEF Recorded, FoldLeft, MapThenFoldSet
<1>2. Recorded(base, <<>>) = base
  <2> DEFINE it == [d \in SUBSET {} |-> base]
             c  == CHOOSE g : Rec(g, <<>>)
  <2>1. DOMAIN <<>> = {}
    OBVIOUS
  <2>2. Rec(it, <<>>)
    BY <2>1
  <2> HIDE DEF Rec, it
  <2>3. Rec(c, <<>>)
    BY <2>2
  <2> HIDE DEF c
  <2>4. c[{}] = base
    BY <2>1, <2>3 DEF Rec
  <2>5. Recorded(base, <<>>) = c[DOMAIN <<>>]
    BY <1>1, Zenon DEF c
  <2> QED
    BY <2>1, <2>4, <2>5
<1>3. ASSUME NEW e PROVE Recorded(base, <<e>>) = Observe(base, e)
  <2> DEFINE one == Observe(base, e)
             it  == [d \in SUBSET {1} |-> IF d = {} THEN base ELSE one]
             s   == <<e>>
             c   == CHOOSE g : Rec(g, s)
  <2>1. DOMAIN s = {1} /\ s[1] = e
    OBVIOUS
  <2> HIDE DEF s
  <2>2. Rec(it, s)
    <3>1. ASSUME NEW d \in SUBSET {1}, d # {}
          PROVE  it[d] = Observe(it[d \ {Max(d)}], s[Max(d)])
      <4>1. d = {1}
        BY <3>1
      <4>2. Max(d) = 1 /\ d \ {Max(d)} = {}
        BY <4>1, SmallMax
      <4>3. it[d] = one /\ it[{}] = base
        BY <4>1
      <4> QED
        BY <2>1, <4>2, <4>3
    <3>2. it[{}] = base
      OBVIOUS
    <3> QED
      BY <2>1, <3>1, <3>2
  <2> HIDE DEF Rec, it
  <2>3. Rec(c, s)
    BY <2>2
  <2> HIDE DEF c
  <2>4. \A d \in SUBSET {1} : c[d] = IF d = {} THEN base
                                               ELSE Observe(c[d \ {Max(d)}], s[Max(d)])
    BY <2>1, <2>3 DEF Rec
  <2>5. c[{1}] = Observe(c[{}], e) /\ c[{}] = base
    <3>1. Max({1}) = 1 /\ {1} \ {1} = {} /\ {1} # {}
      BY SmallMax
    <3> QED
      BY <2>1, <2>4, <3>1
  <2>6. Recorded(base, s) = c[DOMAIN s]
    BY <1>1, Zenon DEF c
  <2>7. Recorded(base, s) = Observe(base, e)
    BY <2>1, <2>5, <2>6
  <2> QED
    BY <2>7, Zenon DEF s
<1>4. ASSUME NEW e, NEW f PROVE Recorded(base, <<e, f>>) = Observe(Observe(base, e), f)
  <2> DEFINE one == Observe(base, e)
             two == Observe(base, f)
             all == Observe(one, f)
             it  == [d \in SUBSET {1, 2} |-> IF d = {} THEN base
                                             ELSE IF d = {1} THEN one
                                             ELSE IF d = {2} THEN two ELSE all]
             s   == <<e, f>>
             c   == CHOOSE g : Rec(g, s)
  <2>0. all = Observe(Observe(base, e), f)
    OBVIOUS
  <2> HIDE DEF all
  <2>1. DOMAIN s = {1, 2} /\ s[1] = e /\ s[2] = f
    OBVIOUS
  <2> HIDE DEF s
  <2>2. Rec(it, s)
    <3>0. /\ it[{}] = base /\ it[{1}] = one /\ it[{2}] = two /\ it[{1, 2}] = all
      <4>1. {1} # {} /\ {2} # {} /\ {2} # {1} /\ {1, 2} # {} /\ {1, 2} # {1} /\ {1, 2} # {2}
            /\ {} \in SUBSET {1, 2} /\ {1} \in SUBSET {1, 2} /\ {2} \in SUBSET {1, 2}
            /\ {1, 2} \in SUBSET {1, 2}
        OBVIOUS
      <4> HIDE DEF one, two
      <4> QED
        BY <4>1
    <3> HIDE DEF it
    <3>1. ASSUME NEW d \in SUBSET {1, 2}, d # {}
          PROVE  it[d] = Observe(it[d \ {Max(d)}], s[Max(d)])
      <4>1. CASE d = {1}
        <5>1. Max(d) = 1 /\ d \ {Max(d)} = {}
          BY <4>1, SmallMax
        <5> QED
          BY <2>1, <3>0, <4>1, <5>1
      <4>2. CASE d = {2}
        <5>1. Max(d) = 2 /\ d \ {Max(d)} = {}
          BY <4>2, SmallMax
        <5> QED
          BY <2>1, <3>0, <4>2, <5>1
      <4>3. CASE d = {1, 2}
        <5>1. Max(d) = 2 /\ d \ {Max(d)} = {1}
          BY <4>3, SmallMax
        <5> QED
          BY <2>0, <2>1, <3>0, <4>3, <5>1
      <4>4. d = {1} \/ d = {2} \/ d = {1, 2}
        BY <3>1
      <4> QED
        BY <4>1, <4>2, <4>3, <4>4
    <3>2. it = [d \in SUBSET {1, 2} |-> it[d]]
      BY DEF it
    <3> QED
      BY <2>1, <3>0, <3>1, <3>2
  <2> HIDE DEF Rec, it
  <2>3. Rec(c, s)
    BY <2>2
  <2> HIDE DEF c
  <2>4. \A d \in SUBSET {1, 2} : c[d] = IF d = {} THEN base
                                                  ELSE Observe(c[d \ {Max(d)}], s[Max(d)])
    BY <2>1, <2>3 DEF Rec
  <2>5. c[{1, 2}] = Observe(c[{1}], f) /\ c[{1}] = Observe(c[{}], e) /\ c[{}] = base
    <3>1. Max({1}) = 1 /\ {1} \ {1} = {} /\ {1} # {}
          /\ Max({1, 2}) = 2 /\ {1, 2} \ {2} = {1} /\ {1, 2} # {}
      BY SmallMax
    <3> QED
      BY <2>1, <2>4, <3>1
  <2>6. Recorded(base, s) = c[DOMAIN s]
    BY <1>1, Zenon DEF c
  <2>7. Recorded(base, s) = Observe(Observe(base, e), f)
    BY <2>1, <2>5, <2>6
  <2> QED
    BY <2>7, Zenon DEF s
<1> QED
  BY <1>2, <1>3, <1>4

\* A client that gets two chunks at most.
LEMMA AssembledFew ==
  ASSUME NEW base
  PROVE  /\ Gathered(base, <<>>) = base
         /\ \A e : Gathered(base, <<e>>) = Assemble(base, e)
         /\ \A e, f : Gathered(base, <<e, f>>) = Assemble(Assemble(base, e), f)
<1> DEFINE Rec(g, s) == g = [d \in SUBSET DOMAIN s |->
                               IF d = {} THEN base
                                         ELSE Assemble(g[d \ {Max(d)}], s[Max(d)])]
<1>1. ASSUME NEW s PROVE Gathered(base, s) = (CHOOSE g : Rec(g, s))[DOMAIN s]
  BY Zenon DEF Gathered, FoldLeft, MapThenFoldSet
<1>2. Gathered(base, <<>>) = base
  <2> DEFINE it == [d \in SUBSET {} |-> base]
             c  == CHOOSE g : Rec(g, <<>>)
  <2>1. DOMAIN <<>> = {}
    OBVIOUS
  <2>2. Rec(it, <<>>)
    BY <2>1
  <2> HIDE DEF Rec, it
  <2>3. Rec(c, <<>>)
    BY <2>2
  <2> HIDE DEF c
  <2>4. c[{}] = base
    BY <2>1, <2>3 DEF Rec
  <2>5. Gathered(base, <<>>) = c[DOMAIN <<>>]
    BY <1>1, Zenon DEF c
  <2> QED
    BY <2>1, <2>4, <2>5
<1>3. ASSUME NEW e PROVE Gathered(base, <<e>>) = Assemble(base, e)
  <2> DEFINE one == Assemble(base, e)
             it  == [d \in SUBSET {1} |-> IF d = {} THEN base ELSE one]
             s   == <<e>>
             c   == CHOOSE g : Rec(g, s)
  <2>1. DOMAIN s = {1} /\ s[1] = e
    OBVIOUS
  <2> HIDE DEF s
  <2>2. Rec(it, s)
    <3>1. ASSUME NEW d \in SUBSET {1}, d # {}
          PROVE  it[d] = Assemble(it[d \ {Max(d)}], s[Max(d)])
      <4>1. d = {1}
        BY <3>1
      <4>2. Max(d) = 1 /\ d \ {Max(d)} = {}
        BY <4>1, SmallMax
      <4>3. it[d] = one /\ it[{}] = base
        BY <4>1
      <4> QED
        BY <2>1, <4>2, <4>3
    <3>2. it[{}] = base
      OBVIOUS
    <3> QED
      BY <2>1, <3>1, <3>2
  <2> HIDE DEF Rec, it
  <2>3. Rec(c, s)
    BY <2>2
  <2> HIDE DEF c
  <2>4. \A d \in SUBSET {1} : c[d] = IF d = {} THEN base
                                               ELSE Assemble(c[d \ {Max(d)}], s[Max(d)])
    BY <2>1, <2>3 DEF Rec
  <2>5. c[{1}] = Assemble(c[{}], e) /\ c[{}] = base
    <3>1. Max({1}) = 1 /\ {1} \ {1} = {} /\ {1} # {}
      BY SmallMax
    <3> QED
      BY <2>1, <2>4, <3>1
  <2>6. Gathered(base, s) = c[DOMAIN s]
    BY <1>1, Zenon DEF c
  <2>7. Gathered(base, s) = Assemble(base, e)
    BY <2>1, <2>5, <2>6
  <2> QED
    BY <2>7, Zenon DEF s
<1>4. ASSUME NEW e, NEW f PROVE Gathered(base, <<e, f>>) = Assemble(Assemble(base, e), f)
  <2> DEFINE one == Assemble(base, e)
             two == Assemble(base, f)
             all == Assemble(one, f)
             it  == [d \in SUBSET {1, 2} |-> IF d = {} THEN base
                                             ELSE IF d = {1} THEN one
                                             ELSE IF d = {2} THEN two ELSE all]
             s   == <<e, f>>
             c   == CHOOSE g : Rec(g, s)
  <2>0. all = Assemble(Assemble(base, e), f)
    OBVIOUS
  <2> HIDE DEF all
  <2>1. DOMAIN s = {1, 2} /\ s[1] = e /\ s[2] = f
    OBVIOUS
  <2> HIDE DEF s
  <2>2. Rec(it, s)
    <3>0. /\ it[{}] = base /\ it[{1}] = one /\ it[{2}] = two /\ it[{1, 2}] = all
      <4>1. {1} # {} /\ {2} # {} /\ {2} # {1} /\ {1, 2} # {} /\ {1, 2} # {1} /\ {1, 2} # {2}
            /\ {} \in SUBSET {1, 2} /\ {1} \in SUBSET {1, 2} /\ {2} \in SUBSET {1, 2}
            /\ {1, 2} \in SUBSET {1, 2}
        OBVIOUS
      <4> HIDE DEF one, two
      <4> QED
        BY <4>1
    <3> HIDE DEF it
    <3>1. ASSUME NEW d \in SUBSET {1, 2}, d # {}
          PROVE  it[d] = Assemble(it[d \ {Max(d)}], s[Max(d)])
      <4>1. CASE d = {1}
        <5>1. Max(d) = 1 /\ d \ {Max(d)} = {}
          BY <4>1, SmallMax
        <5> QED
          BY <2>1, <3>0, <4>1, <5>1
      <4>2. CASE d = {2}
        <5>1. Max(d) = 2 /\ d \ {Max(d)} = {}
          BY <4>2, SmallMax
        <5> QED
          BY <2>1, <3>0, <4>2, <5>1
      <4>3. CASE d = {1, 2}
        <5>1. Max(d) = 2 /\ d \ {Max(d)} = {1}
          BY <4>3, SmallMax
        <5> QED
          BY <2>0, <2>1, <3>0, <4>3, <5>1
      <4>4. d = {1} \/ d = {2} \/ d = {1, 2}
        BY <3>1
      <4> QED
        BY <4>1, <4>2, <4>3, <4>4
    <3>2. it = [d \in SUBSET {1, 2} |-> it[d]]
      BY DEF it
    <3> QED
      BY <2>1, <3>0, <3>1, <3>2
  <2> HIDE DEF Rec, it
  <2>3. Rec(c, s)
    BY <2>2
  <2> HIDE DEF c
  <2>4. \A d \in SUBSET {1, 2} : c[d] = IF d = {} THEN base
                                                  ELSE Assemble(c[d \ {Max(d)}], s[Max(d)])
    BY <2>1, <2>3 DEF Rec
  <2>5. c[{1, 2}] = Assemble(c[{1}], f) /\ c[{1}] = Assemble(c[{}], e) /\ c[{}] = base
    <3>1. Max({1}) = 1 /\ {1} \ {1} = {} /\ {1} # {}
          /\ Max({1, 2}) = 2 /\ {1, 2} \ {2} = {1} /\ {1, 2} # {}
      BY SmallMax
    <3> QED
      BY <2>1, <2>4, <3>1
  <2>6. Gathered(base, s) = c[DOMAIN s]
    BY <1>1, Zenon DEF c
  <2>7. Gathered(base, s) = Assemble(Assemble(base, e), f)
    BY <2>1, <2>5, <2>6
  <2> QED
    BY <2>7, Zenon DEF s
<1> QED
  BY <1>2, <1>3, <1>4

\* A client for which two events at most are rendered.
LEMMA DeliveredFew ==
  ASSUME NEW message, NEW renderer
  PROVE  /\ Delivered(message, renderer, <<>>) = [message |-> message, renderer |-> renderer]
         /\ \A e : Delivered(message, renderer, <<e>>) = DeliveredStep([message |-> message, renderer |-> renderer], e)
         /\ \A e, f : Delivered(message, renderer, <<e, f>>) = DeliveredStep(DeliveredStep([message |-> message, renderer |-> renderer], e), f)
<1> DEFINE Rec(g, s) == g = [d \in SUBSET DOMAIN s |->
                               IF d = {} THEN [message |-> message, renderer |-> renderer]
                                         ELSE DeliveredStep(g[d \ {Max(d)}], s[Max(d)])]
<1>1. ASSUME NEW s PROVE Delivered(message, renderer, s) = (CHOOSE g : Rec(g, s))[DOMAIN s]
  BY Zenon DEF Delivered, DeliveredStep, Gathered, FoldLeft, MapThenFoldSet
<1>2. Delivered(message, renderer, <<>>) = [message |-> message, renderer |-> renderer]
  <2> DEFINE it == [d \in SUBSET {} |-> [message |-> message, renderer |-> renderer]]
             c  == CHOOSE g : Rec(g, <<>>)
  <2>1. DOMAIN <<>> = {}
    OBVIOUS
  <2>2. Rec(it, <<>>)
    BY <2>1
  <2> HIDE DEF Rec, it
  <2>3. Rec(c, <<>>)
    BY <2>2
  <2> HIDE DEF c
  <2>4. c[{}] = [message |-> message, renderer |-> renderer]
    BY <2>1, <2>3 DEF Rec
  <2>5. Delivered(message, renderer, <<>>) = c[DOMAIN <<>>]
    BY <1>1, Zenon DEF c
  <2> QED
    BY <2>1, <2>4, <2>5
<1>3. ASSUME NEW e PROVE Delivered(message, renderer, <<e>>) = DeliveredStep([message |-> message, renderer |-> renderer], e)
  <2> DEFINE one == DeliveredStep([message |-> message, renderer |-> renderer], e)
             it  == [d \in SUBSET {1} |-> IF d = {} THEN [message |-> message, renderer |-> renderer] ELSE one]
             s   == <<e>>
             c   == CHOOSE g : Rec(g, s)
  <2>1. DOMAIN s = {1} /\ s[1] = e
    OBVIOUS
  <2> HIDE DEF s
  <2>2. Rec(it, s)
    <3>1. ASSUME NEW d \in SUBSET {1}, d # {}
          PROVE  it[d] = DeliveredStep(it[d \ {Max(d)}], s[Max(d)])
      <4>1. d = {1}
        BY <3>1
      <4>2. Max(d) = 1 /\ d \ {Max(d)} = {}
        BY <4>1, SmallMax
      <4>3. it[d] = one /\ it[{}] = [message |-> message, renderer |-> renderer]
        BY <4>1
      <4> QED
        BY <2>1, <4>2, <4>3
    <3>2. it[{}] = [message |-> message, renderer |-> renderer]
      OBVIOUS
    <3> QED
      BY <2>1, <3>1, <3>2
  <2> HIDE DEF Rec, it
  <2>3. Rec(c, s)
    BY <2>2
  <2> HIDE DEF c
  <2>4. \A d \in SUBSET {1} : c[d] = IF d = {} THEN [message |-> message, renderer |-> renderer]
                                               ELSE DeliveredStep(c[d \ {Max(d)}], s[Max(d)])
    BY <2>1, <2>3 DEF Rec
  <2>5. c[{1}] = DeliveredStep(c[{}], e) /\ c[{}] = [message |-> message, renderer |-> renderer]
    <3>1. Max({1}) = 1 /\ {1} \ {1} = {} /\ {1} # {}
      BY SmallMax
    <3> QED
      BY <2>1, <2>4, <3>1
  <2>6. Delivered(message, renderer, s) = c[DOMAIN s]
    BY <1>1, Zenon DEF c
  <2>7. Delivered(message, renderer, s) = DeliveredStep([message |-> message, renderer |-> renderer], e)
    BY <2>1, <2>5, <2>6
  <2> QED
    BY <2>7, Zenon DEF s
<1>4. ASSUME NEW e, NEW f PROVE Delivered(message, renderer, <<e, f>>) = DeliveredStep(DeliveredStep([message |-> message, renderer |-> renderer], e), f)
  <2> DEFINE one == DeliveredStep([message |-> message, renderer |-> renderer], e)
             two == DeliveredStep([message |-> message, renderer |-> renderer], f)
             all == DeliveredStep(one, f)
             it  == [d \in SUBSET {1, 2} |-> IF d = {} THEN [message |-> message, renderer |-> renderer]
                                             ELSE IF d = {1} THEN one
                                             ELSE IF d = {2} THEN two ELSE all]
             s   == <<e, f>>
             c   == CHOOSE g : Rec(g, s)
  <2>0. all = DeliveredStep(DeliveredStep([message |-> message, renderer |-> renderer], e), f)
    OBVIOUS
  <2> HIDE DEF all
  <2>1. DOMAIN s = {1, 2} /\ s[1] = e /\ s[2] = f
    OBVIOUS
  <2> HIDE DEF s
  <2>2. Rec(it, s)
    <3>0. /\ it[{}] = [message |-> message, renderer |-> renderer] /\ it[{1}] = one /\ it[{2}] = two /\ it[{1, 2}] = all
      <4>1. {1} # {} /\ {2} # {} /\ {2} # {1} /\ {1, 2} # {} /\ {1, 2} # {1} /\ {1, 2} # {2}
            /\ {} \in SUBSET {1, 2} /\ {1} \in SUBSET {1, 2} /\ {2} \in SUBSET {1, 2}
            /\ {1, 2} \in SUBSET {1, 2}
        OBVIOUS
      <4> HIDE DEF one, two
      <4> QED
        BY <4>1
    <3> HIDE DEF it
    <3>1. ASSUME NEW d \in SUBSET {1, 2}, d # {}
          PROVE  it[d] = DeliveredStep(it[d \ {Max(d)}], s[Max(d)])
      <4>1. CASE d = {1}
        <5>1. Max(d) = 1 /\ d \ {Max(d)} = {}
          BY <4>1, SmallMax
        <5> QED
          BY <2>1, <3>0, <4>1, <5>1
      <4>2. CASE d = {2}
        <5>1. Max(d) = 2 /\ d \ {Max(d)} = {}
          BY <4>2, SmallMax
        <5> QED
          BY <2>1, <3>0, <4>2, <5>1
      <4>3. CASE d = {1, 2}
        <5>1. Max(d) = 2 /\ d \ {Max(d)} = {1}
          BY <4>3, SmallMax
        <5> QED
          BY <2>0, <2>1, <3>0, <4>3, <5>1
      <4>4. d = {1} \/ d = {2} \/ d = {1, 2}
        BY <3>1
      <4> QED
        BY <4>1, <4>2, <4>3, <4>4
    <3>2. it = [d \in SUBSET {1, 2} |-> it[d]]
      BY DEF it
    <3> QED
      BY <2>1, <3>0, <3>1, <3>2
  <2> HIDE DEF Rec, it
  <2>3. Rec(c, s)
    BY <2>2
  <2> HIDE DEF c
  <2>4. \A d \in SUBSET {1, 2} : c[d] = IF d = {} THEN [message |-> message, renderer |-> renderer]
                                                  ELSE DeliveredStep(c[d \ {Max(d)}], s[Max(d)])
    BY <2>1, <2>3 DEF Rec
  <2> DEFINE base == [message |-> message, renderer |-> renderer]
  <2>5. c[{1, 2}] = DeliveredStep(c[{1}], f) /\ c[{1}] = DeliveredStep(c[{}], e) /\ c[{}] = base
    <3> HIDE DEF base
    <3>1. Max({1}) = 1 /\ {1} \ {1} = {} /\ {1} # {}
          /\ Max({1, 2}) = 2 /\ {1, 2} \ {2} = {1} /\ {1, 2} # {}
      BY SmallMax
    <3>2. \A d \in SUBSET {1, 2} : c[d] = IF d = {} THEN base
                                                    ELSE DeliveredStep(c[d \ {Max(d)}], s[Max(d)])
      BY <2>4 DEF base
    <3>3. c[{}] = base
      BY <3>2
    <3>4. c[{1}] = DeliveredStep(c[{}], e)
      BY <2>1, <3>1, <3>2
    <3>5. c[{1, 2}] = DeliveredStep(c[{1}], f)
      BY <2>1, <3>1, <3>2
    <3> QED
      BY <3>3, <3>4, <3>5
  <2>6. Delivered(message, renderer, s) = c[DOMAIN s]
    BY <1>1, Zenon DEF c
  <2>7. Delivered(message, renderer, s) = DeliveredStep(DeliveredStep([message |-> message, renderer |-> renderer], e), f)
    BY <2>1, <2>5, <2>6
  <2> QED
    BY <2>7, Zenon DEF s
<1> QED
  BY <1>2, <1>3, <1>4

\* A text of two parts at most.
LEMMA ExtractedFew ==
  ASSUME NEW base
  PROVE  /\ Extraction(base, <<>>) = base
         /\ \A e : Extraction(base, <<e>>) = ExtractPart(base, e)
         /\ \A e, f : Extraction(base, <<e, f>>) = ExtractPart(ExtractPart(base, e), f)
<1> DEFINE Rec(g, s) == g = [d \in SUBSET DOMAIN s |->
                               IF d = {} THEN base
                                         ELSE ExtractPart(g[d \ {Max(d)}], s[Max(d)])]
<1>1. ASSUME NEW s PROVE Extraction(base, s) = (CHOOSE g : Rec(g, s))[DOMAIN s]
  BY Zenon DEF Extraction, FoldLeft, MapThenFoldSet
<1>2. Extraction(base, <<>>) = base
  <2> DEFINE it == [d \in SUBSET {} |-> base]
             c  == CHOOSE g : Rec(g, <<>>)
  <2>1. DOMAIN <<>> = {}
    OBVIOUS
  <2>2. Rec(it, <<>>)
    BY <2>1
  <2> HIDE DEF Rec, it
  <2>3. Rec(c, <<>>)
    BY <2>2
  <2> HIDE DEF c
  <2>4. c[{}] = base
    BY <2>1, <2>3 DEF Rec
  <2>5. Extraction(base, <<>>) = c[DOMAIN <<>>]
    BY <1>1, Zenon DEF c
  <2> QED
    BY <2>1, <2>4, <2>5
<1>3. ASSUME NEW e PROVE Extraction(base, <<e>>) = ExtractPart(base, e)
  <2> DEFINE one == ExtractPart(base, e)
             it  == [d \in SUBSET {1} |-> IF d = {} THEN base ELSE one]
             s   == <<e>>
             c   == CHOOSE g : Rec(g, s)
  <2>1. DOMAIN s = {1} /\ s[1] = e
    OBVIOUS
  <2> HIDE DEF s
  <2>2. Rec(it, s)
    <3>1. ASSUME NEW d \in SUBSET {1}, d # {}
          PROVE  it[d] = ExtractPart(it[d \ {Max(d)}], s[Max(d)])
      <4>1. d = {1}
        BY <3>1
      <4>2. Max(d) = 1 /\ d \ {Max(d)} = {}
        BY <4>1, SmallMax
      <4>3. it[d] = one /\ it[{}] = base
        BY <4>1
      <4> QED
        BY <2>1, <4>2, <4>3
    <3>2. it[{}] = base
      OBVIOUS
    <3> QED
      BY <2>1, <3>1, <3>2
  <2> HIDE DEF Rec, it
  <2>3. Rec(c, s)
    BY <2>2
  <2> HIDE DEF c
  <2>4. \A d \in SUBSET {1} : c[d] = IF d = {} THEN base
                                               ELSE ExtractPart(c[d \ {Max(d)}], s[Max(d)])
    BY <2>1, <2>3 DEF Rec
  <2>5. c[{1}] = ExtractPart(c[{}], e) /\ c[{}] = base
    <3>1. Max({1}) = 1 /\ {1} \ {1} = {} /\ {1} # {}
      BY SmallMax
    <3> QED
      BY <2>1, <2>4, <3>1
  <2>6. Extraction(base, s) = c[DOMAIN s]
    BY <1>1, Zenon DEF c
  <2>7. Extraction(base, s) = ExtractPart(base, e)
    BY <2>1, <2>5, <2>6
  <2> QED
    BY <2>7, Zenon DEF s
<1>4. ASSUME NEW e, NEW f PROVE Extraction(base, <<e, f>>) = ExtractPart(ExtractPart(base, e), f)
  <2> DEFINE one == ExtractPart(base, e)
             two == ExtractPart(base, f)
             all == ExtractPart(one, f)
             it  == [d \in SUBSET {1, 2} |-> IF d = {} THEN base
                                             ELSE IF d = {1} THEN one
                                             ELSE IF d = {2} THEN two ELSE all]
             s   == <<e, f>>
             c   == CHOOSE g : Rec(g, s)
  <2>0. all = ExtractPart(ExtractPart(base, e), f)
    OBVIOUS
  <2> HIDE DEF all
  <2>1. DOMAIN s = {1, 2} /\ s[1] = e /\ s[2] = f
    OBVIOUS
  <2> HIDE DEF s
  <2>2. Rec(it, s)
    <3>0. /\ it[{}] = base /\ it[{1}] = one /\ it[{2}] = two /\ it[{1, 2}] = all
      <4>1. {1} # {} /\ {2} # {} /\ {2} # {1} /\ {1, 2} # {} /\ {1, 2} # {1} /\ {1, 2} # {2}
            /\ {} \in SUBSET {1, 2} /\ {1} \in SUBSET {1, 2} /\ {2} \in SUBSET {1, 2}
            /\ {1, 2} \in SUBSET {1, 2}
        OBVIOUS
      <4> HIDE DEF one, two
      <4> QED
        BY <4>1
    <3> HIDE DEF it
    <3>1. ASSUME NEW d \in SUBSET {1, 2}, d # {}
          PROVE  it[d] = ExtractPart(it[d \ {Max(d)}], s[Max(d)])
      <4>1. CASE d = {1}
        <5>1. Max(d) = 1 /\ d \ {Max(d)} = {}
          BY <4>1, SmallMax
        <5> QED
          BY <2>1, <3>0, <4>1, <5>1
      <4>2. CASE d = {2}
        <5>1. Max(d) = 2 /\ d \ {Max(d)} = {}
          BY <4>2, SmallMax
        <5> QED
          BY <2>1, <3>0, <4>2, <5>1
      <4>3. CASE d = {1, 2}
        <5>1. Max(d) = 2 /\ d \ {Max(d)} = {1}
          BY <4>3, SmallMax
        <5> QED
          BY <2>0, <2>1, <3>0, <4>3, <5>1
      <4>4. d = {1} \/ d = {2} \/ d = {1, 2}
        BY <3>1
      <4> QED
        BY <4>1, <4>2, <4>3, <4>4
    <3>2. it = [d \in SUBSET {1, 2} |-> it[d]]
      BY DEF it
    <3> QED
      BY <2>1, <3>0, <3>1, <3>2
  <2> HIDE DEF Rec, it
  <2>3. Rec(c, s)
    BY <2>2
  <2> HIDE DEF c
  <2>4. \A d \in SUBSET {1, 2} : c[d] = IF d = {} THEN base
                                                  ELSE ExtractPart(c[d \ {Max(d)}], s[Max(d)])
    BY <2>1, <2>3 DEF Rec
  <2>5. c[{1, 2}] = ExtractPart(c[{1}], f) /\ c[{1}] = ExtractPart(c[{}], e) /\ c[{}] = base
    <3>1. Max({1}) = 1 /\ {1} \ {1} = {} /\ {1} # {}
          /\ Max({1, 2}) = 2 /\ {1, 2} \ {2} = {1} /\ {1, 2} # {}
      BY SmallMax
    <3> QED
      BY <2>1, <2>4, <3>1
  <2>6. Extraction(base, s) = c[DOMAIN s]
    BY <1>1, Zenon DEF c
  <2>7. Extraction(base, s) = ExtractPart(ExtractPart(base, e), f)
    BY <2>1, <2>5, <2>6
  <2> QED
    BY <2>7, Zenon DEF s
<1> QED
  BY <1>2, <1>3, <1>4

-----------------------------------------------------------------------------
(* What each step changes of the turn.                                     *)

\* What a request is, and what was made of it.
SameRequest ==
  /\ turn'.mode = turn.mode /\ turn'.incoming = turn.incoming /\ turn'.sent = turn.sent
  /\ turn'.parent = turn.parent

\* What opening a session leaves of a turn,
LEMMA OpenedTurn ==
  ASSUME NEW U, turn \in Turns(U), SessionOpened
  PROVE  /\ SameRequest /\ turn'.pc = "attempt" /\ turn'.conv = turn.conv
         /\ turn'.session \in Sessions \ SessionsInUse
         /\ turn'.prompt = turn.prompt /\ turn'.simulated = turn.simulated
         /\ turn'.path = turn.path /\ turn'.recorder = turn.recorder
         /\ turn'.renderer = turn.renderer /\ turn'.stamp = turn.stamp
         /\ turn'.tries = 0 /\ turn'.repairs = turn.repairs
<1> DEFINE session == Unused(Sessions, SessionsInUse)
<1>1. session \in Sessions \ SessionsInUse
  BY UnusedIsFree, DialogueAssumption DEF SessionOpened
<1>2. turn' = [turn EXCEPT !.pc = "attempt", !.tries = 0, !.session = session]
  BY DEF SessionOpened
<1> HIDE DEF session
<1> QED
  BY <1>1, <1>2 DEF Turns, SameRequest

\* what an attempt that is given up leaves of it,
LEMMA RetriedTurn ==
  ASSUME NEW U, turn \in Turns(U), NEW failure, Retry(failure)
  PROVE  /\ SameRequest /\ turn'.pc = turn.pc /\ turn'.conv = turn.conv
         /\ turn'.session = turn.session
         /\ turn'.prompt = turn.prompt /\ turn'.simulated = turn.simulated
         /\ turn'.path = Null /\ turn'.recorder = NewRecorder
         /\ turn'.renderer = turn.renderer /\ turn'.stamp = turn.stamp
         /\ turn'.tries = turn.tries + 1 /\ turn'.repairs = turn.repairs
<1> DEFINE new == NewRecorder
           tries == turn.tries + 1
           fresh == [turn EXCEPT !.path = Null, !.recorder = new]
<1>1. turn' = [FreshAttempt(turn) EXCEPT !.tries = @ + 1] /\ FreshAttempt(turn) = fresh
  BY DEF Retry, FreshAttempt
<1>2. fresh.tries = turn.tries
  BY DEF Turns
<1>3. turn' = [fresh EXCEPT !.tries = tries]
  BY <1>1, <1>2
<1> HIDE DEF new, tries
<1>4. turn' = [turn EXCEPT !.path = Null, !.recorder = new, !.tries = tries]
  BY <1>3 DEF Turns
<1>5. /\ turn'.mode = turn.mode /\ turn'.incoming = turn.incoming /\ turn'.sent = turn.sent
      /\ turn'.parent = turn.parent /\ turn'.pc = turn.pc /\ turn'.conv = turn.conv
      /\ turn'.session = turn.session
      /\ turn'.prompt = turn.prompt /\ turn'.simulated = turn.simulated
      /\ turn'.path = Null /\ turn'.recorder = new
      /\ turn'.renderer = turn.renderer /\ turn'.stamp = turn.stamp
      /\ turn'.tries = tries /\ turn'.repairs = turn.repairs
  BY <1>4 DEF Turns
<1> QED
  BY <1>5 DEF SameRequest, new, tries

\* the lines after the answer,
LEMMA DrainedTurn ==
  ASSUME NEW U, turn \in Turns(U), DrainEnds
  PROVE  \E line \in FinishLines :
         /\ SameRequest /\ turn'.pc = "settle" /\ turn'.conv = turn.conv
         /\ turn'.session = turn.session
         /\ turn'.prompt = turn.prompt /\ turn'.simulated = turn.simulated
         /\ turn'.path = PathAfter(turn.path, line) /\ turn'.recorder = Ended(line)
         /\ turn'.renderer = turn.renderer /\ turn'.stamp = turn.stamp
         /\ turn'.tries = turn.tries /\ turn'.repairs = turn.repairs
<1>1. PICK line \in FinishLines :
        turn' = [turn EXCEPT !.pc = "settle", !.path = PathAfter(@, line),
                             !.recorder = Ended(line)]
  BY DEF DrainEnds
<1> DEFINE t == turn
           p == PathAfter(t.path, line)
           r == Ended(line)
<1>2. turn' = [t EXCEPT !.pc = "settle", !.path = p, !.recorder = r]
  BY <1>1, Zenon
<1> HIDE DEF p, r
<1>3. /\ turn'.mode = turn.mode /\ turn'.incoming = turn.incoming /\ turn'.sent = turn.sent
      /\ turn'.parent = turn.parent /\ turn'.pc = "settle" /\ turn'.conv = turn.conv
      /\ turn'.session = turn.session
      /\ turn'.prompt = turn.prompt /\ turn'.simulated = turn.simulated
      /\ turn'.path = p /\ turn'.recorder = r
      /\ turn'.renderer = turn.renderer /\ turn'.stamp = turn.stamp
      /\ turn'.tries = turn.tries /\ turn'.repairs = turn.repairs
  BY <1>2 DEF Turns
<1> QED
  BY <1>3, Zenon DEF SameRequest, p, r

\* a repair,
LEMMA RepairedTurn ==
  ASSUME NEW U, turn \in Turns(U), RepairRetry
  PROVE  /\ SameRequest /\ turn'.pc = "attempt" /\ turn'.conv = turn.conv
         /\ turn'.session = turn.session
         /\ turn'.simulated = Simulated(turn.recorder)
         /\ turn'.prompt = RepairBase(turn'.simulated)
         /\ turn'.path = Null /\ turn'.recorder = NewRecorder
         /\ turn'.renderer = turn.renderer /\ turn'.stamp = turn.stamp
         /\ turn'.tries = 0 /\ turn'.repairs = turn.repairs + 1
<1> DEFINE simulated == Simulated(turn.recorder)
           prompt    == RepairBase(simulated)
           new == NewRecorder
           fresh == [turn EXCEPT !.path = Null, !.recorder = new]
           repairs == turn.repairs + 1
<1>1. /\ turn' = [FreshAttempt(turn) EXCEPT !.pc = "attempt", !.tries = 0,
                    !.repairs = @ + 1, !.simulated = simulated, !.prompt = prompt]
      /\ FreshAttempt(turn) = fresh
  BY DEF RepairRetry, FreshAttempt
<1>2. fresh.repairs = turn.repairs
  BY DEF Turns
<1>3. turn' = [fresh EXCEPT !.pc = "attempt", !.tries = 0, !.repairs = fresh.repairs + 1,
                            !.simulated = simulated, !.prompt = prompt]
  BY <1>1, Zenon
<1>4. turn' = [fresh EXCEPT !.pc = "attempt", !.tries = 0, !.repairs = repairs,
                            !.simulated = simulated, !.prompt = prompt]
  BY <1>2, <1>3, Zenon
<1> HIDE DEF new, repairs, simulated, prompt
<1>5. /\ turn'.mode = turn.mode /\ turn'.incoming = turn.incoming /\ turn'.sent = turn.sent
      /\ turn'.parent = turn.parent /\ turn'.pc = "attempt" /\ turn'.conv = turn.conv
      /\ turn'.session = turn.session
      /\ turn'.simulated = simulated /\ turn'.prompt = prompt
      /\ turn'.path = Null /\ turn'.recorder = new
      /\ turn'.renderer = turn.renderer /\ turn'.stamp = turn.stamp
      /\ turn'.tries = 0 /\ turn'.repairs = repairs
  BY <1>4 DEF Turns
<1> QED
  BY <1>5, Zenon DEF SameRequest, new, repairs, simulated, prompt

\* and the end of a repair that was not linked.
LEMMA UnlinkedTurn ==
  ASSUME NEW U, turn \in Turns(U), UnlinkRepaired
  PROVE  /\ SameRequest /\ turn'.pc = "reply" /\ turn'.conv = turn.conv
         /\ turn'.session = turn.session
         /\ turn'.prompt = turn.prompt /\ turn'.simulated = turn.simulated
         /\ turn'.path = turn.path /\ turn'.recorder = turn.recorder
         /\ turn'.renderer = turn.renderer /\ turn'.stamp = turn.stamp
         /\ turn'.tries = turn.tries /\ turn'.repairs = turn.repairs
<1>1. turn' = [turn EXCEPT !.pc = "reply"]
  BY DEF UnlinkRepaired
<1> QED
  BY <1>1 DEF Turns, SameRequest

\* The steps after which a request is served.
LEMMA Steps ==
  ASSUME NEW U, Within(U), [Next]_vars, Serving'
  PROVE  \/ Ask
         \/ /\ Serving /\ turn \in Turns(U)
            /\ \/ SessionOpened
               \/ /\ turn.pc \in {"session", "attempt"}
                  /\ \E failure : Fail(failure) /\ Retry(failure)
               \/ Ready \/ TakeSnapshot \/ Speak \/ Think \/ Note
               \/ DrainEnds \/ StreamEnds \/ RepairRetry \/ CommitDrained \/ UnlinkRepaired
               \/ UNCHANGED vars
<1>1. TurnOver => ~Serving'
  BY DEF TurnOver, Serving, Idle
<1>2. CASE SessionFailed \/ Garbage \/ Truncate \/ Raise
  <2>1. PICK failure : Fail(failure)
    BY <1>2 DEF SessionFailed, Garbage, Truncate, Raise
  <2>2. Serving
    BY <1>2 DEF SessionFailed, Garbage, Truncate, Raise, Reading, Serving
  <2>3. Retry(failure)
    BY <1>1, <2>1 DEF Fail, Surface, Broadcast
  <2>4. turn.pc \in {"session", "attempt"}
    BY <1>2 DEF SessionFailed, Garbage, Truncate, Raise, Reading
  <2> QED
    BY <2>1, <2>2, <2>3, <2>4, ServingTurn
<1>3. CASE Tell \/ Lose \/ Restart
  BY <1>1, <1>3 DEF Tell, Lose, Restart
<1>4. CASE SessionOpened
  <2>1. Serving
    BY <1>4 DEF SessionOpened, Serving
  <2> QED
    BY <1>4, <2>1, ServingTurn
<1>5. CASE Ready \/ TakeSnapshot \/ Speak \/ Think \/ Note
  <2>1. Serving
    BY <1>5 DEF Ready, TakeSnapshot, Speak, Think, Note, Reading, Serving
  <2> QED
    BY <1>5, <2>1, ServingTurn
<1>6. CASE DrainEnds \/ StreamEnds
  <2>1. Serving
    BY <1>6 DEF DrainEnds, StreamEnds, Reading, Serving
  <2> QED
    BY <1>6, <2>1, ServingTurn
<1>7. CASE RepairRetry \/ CommitDrained \/ UnlinkRepaired
  <2>1. Serving
    BY <1>7 DEF RepairRetry, CommitDrained, UnlinkRepaired, Serving
  <2> QED
    BY <1>7, <2>1, ServingTurn
<1>8. CASE UNCHANGED vars
  <2>1. Serving
    BY <1>8 DEF vars, Serving
  <2> QED
    BY <1>8, <2>1, ServingTurn
<1> QED
  BY <1>2, <1>3, <1>4, <1>5, <1>6, <1>7, <1>8 DEF Next

-----------------------------------------------------------------------------
(* A history that is told, written in any way, and read again.             *)

\* The calls of the dialogue's one tool.
CallRecords == [id : CallIds, name : {Tool}, args : {Arguments}]

\* The messages of a history: a result answers a call, a message that calls
\* may be silent, no other may.
Spoken ==
  {m \in [role : Roles, content : Seq(Pieces) \union {Null}, calls : Seq(CallRecords),
          id : CallIds \union {Null}, name : {Null}] :
     /\ m.role = "tool" => m.id # Null /\ m.calls = <<>>
     /\ m.role # "tool" => m.id = Null
     /\ m.calls # <<>> => m.role = "assistant"
     /\ m.content = Null => m.calls # <<>>}

\* Null is no text, no id, no session and no message.
LEMMA NullApart ==
  /\ Null # <<>> /\ Null \notin Seq(Pieces) /\ Null \notin Pieces
  /\ Null \notin CallIds /\ Null \notin Sessions /\ Null \notin MessageIds
<1>1. <<>> \in Seq(Pieces)
  OBVIOUS
<1> QED
  BY <1>1, DialogueAssumption

\* A text that is sent comes back the same,
LEMMA TextBack ==
  ASSUME NEW text \in Seq(Pieces)
  PROVE  ExtractText(WireText(text)) = text
<1> DEFINE image == [type |-> "image", text |-> <<>>]
           words == [type |-> "text", text |-> text]
<1>1. WireText(text).parts = <<image, words>>
  BY DEF WireText
<1>2. ExtractPart(Null, image) = Null
  BY DEF ExtractPart
<1>3. ExtractPart(Null, words) = text
  BY DEF ExtractPart, Join
<1> HIDE DEF image, words
<1>a. Extraction(Null, <<image, words>>)
        = ExtractPart(ExtractPart(Null, image), words)
  <2>1. \A e, f : Extraction(Null, <<e, f>>) = ExtractPart(ExtractPart(Null, e), f)
    BY ExtractedFew
  <2> QED
    BY <2>1, Zenon
<1>4. Extraction(Null, <<image, words>>) = text
  BY <1>a, <1>2, <1>3, Zenon
<1>5. ExtractText(WireText(text))
        = IF Extraction(Null, WireText(text).parts) = Null
            THEN <<>> ELSE Extraction(Null, WireText(text).parts)
  BY Zenon DEF ExtractText, Extraction
<1> QED
  BY <1>1, <1>4, <1>5, NullApart

\* and so does a call,
LEMMA CallBack ==
  ASSUME NEW call \in CallRecords, NEW form
  PROVE  /\ WireCall(form, call).id = call.id /\ WireCall(form, call).name = call.name
         /\ WireCall(form, call).args = [form |-> form, value |-> call.args]
         /\ CanonicalToolCall(call.id, call.name, call.args) = call
  BY DEF CallRecords, WireCall, CanonicalToolCall

\* and a list of calls.
LEMMA CallsBack ==
  ASSUME NEW calls \in Seq(CallRecords), NEW form
  PROVE  /\ CanonicalCalls([i \in DOMAIN calls |-> WireCall(form, calls[i])]) = calls
         /\ form \in ArgumentForms => \A i \in DOMAIN calls : GoodCall(WireCall(form, calls[i]))
<1>1. calls = [i \in DOMAIN calls |-> calls[i]]
  BY LenProperties
<1>2. \A i \in DOMAIN calls : calls[i] \in CallRecords
  BY LenProperties, ElementOfSeq
<1> DEFINE wire == [i \in DOMAIN calls |-> WireCall(form, calls[i])]
<1>3. \A i \in DOMAIN calls :
        CanonicalToolCall(wire[i].id, wire[i].name, NormalizeArguments(wire[i].args)) = calls[i]
  <2> SUFFICES ASSUME NEW i \in DOMAIN calls
               PROVE  CanonicalToolCall(wire[i].id, wire[i].name,
                                        NormalizeArguments(wire[i].args)) = calls[i]
    OBVIOUS
  <2> DEFINE call == calls[i]
             sent == WireCall(form, call)
  <2>1. wire[i] = sent /\ call \in CallRecords
    BY <1>2
  <2> HIDE DEF wire, call
  <2>2. sent.id = call.id /\ sent.name = call.name
        /\ sent.args = [form |-> form, value |-> call.args]
        /\ CanonicalToolCall(call.id, call.name, call.args) = call
    BY <2>1, CallBack, Zenon
  <2> HIDE DEF sent
  <2> QED
    BY <2>1, <2>2 DEF NormalizeArguments, call
<1>4. DOMAIN wire = DOMAIN calls
  OBVIOUS
<1>5. CanonicalCalls(wire) = [i \in DOMAIN calls |-> calls[i]]
  <2> HIDE DEF wire
  <2> QED
    BY <1>3, <1>4 DEF CanonicalCalls
<1>6. ASSUME form \in ArgumentForms, NEW i \in DOMAIN calls
      PROVE  GoodCall(WireCall(form, calls[i]))
  <2> DEFINE call == calls[i]
  <2>1. call \in CallRecords
    BY <1>2
  <2>2. call.id \in CallIds /\ call.name = Tool
    BY <2>1 DEF CallRecords
  <2> HIDE DEF call
  <2> DEFINE sent == WireCall(form, call)
  <2>3. sent.id = call.id /\ sent.name = call.name
        /\ sent.args = [form |-> form, value |-> call.args]
    BY <2>1, CallBack, Zenon
  <2>a. sent.id = call.id /\ sent.name = Tool /\ sent.args.form = form
    <3> HIDE DEF sent
    <3> QED
      BY <2>2, <2>3
  <2>b. sent.id # Null /\ sent.name # Null
    BY <2>a, <2>2, NullApart, DialogueAssumption
  <2> HIDE DEF sent
  <2>c. GoodCall(sent)
    BY <1>6, <2>a, <2>b, Zenon DEF GoodCall, IsObject, ArgumentForms
  <2>4. GoodCall(WireCall(form, call))
    BY <2>c DEF sent
  <2> QED
    BY <2>4 DEF call
<1> QED
  BY <1>1, <1>5, <1>6

\* The fields of a message a client may send.
LEMMA SpokenFields ==
  ASSUME NEW m \in Spoken
  PROVE  /\ m.role \in Roles /\ m.content \in Seq(Pieces) \union {Null}
         /\ m.calls \in Seq(CallRecords) /\ m.id \in CallIds \union {Null} /\ m.name = Null
         /\ m = [role |-> m.role, content |-> m.content, calls |-> m.calls,
                 id |-> m.id, name |-> Null]
         /\ m.role = "tool" => m.id # Null /\ m.calls = <<>>
         /\ m.role # "tool" => m.id = Null
         /\ m.calls # <<>> => m.role = "assistant"
         /\ m.content = Null => m.calls # <<>>
  BY DEF Spoken

\* Its fields on the wire.
LEMMA WireFields ==
  ASSUME NEW m \in Spoken, NEW form
  PROVE  /\ Wire(form, m).role = m.role /\ Wire(form, m).id = m.id
         /\ Wire(form, m).name = m.name
         /\ Wire(form, m).content = IF m.content = Null THEN WireNull ELSE WireText(m.content)
         /\ Wire(form, m).calls = [i \in DOMAIN m.calls |-> WireCall(form, m.calls[i])]
<1> DEFINE content == IF m.content = Null THEN WireNull ELSE WireText(m.content)
           calls   == [i \in DOMAIN m.calls |-> WireCall(form, m.calls[i])]
<1>1. Wire(form, m) = [m EXCEPT !.content = content, !.calls = calls]
  BY Zenon DEF Wire
<1> HIDE DEF content, calls
<1>2. /\ Wire(form, m).role = m.role /\ Wire(form, m).id = m.id
      /\ Wire(form, m).name = m.name
      /\ Wire(form, m).content = content /\ Wire(form, m).calls = calls
  BY <1>1 DEF Spoken
<1> QED
  BY <1>2, Zenon DEF content, calls

\* A message of a history is accepted, and is what it was.
LEMMA MessageBack ==
  ASSUME NEW m \in Spoken, NEW form \in ArgumentForms
  PROVE  Canonical(Wire(form, m)) = m /\ Acceptable(Wire(form, m))
<1> DEFINE w == Wire(form, m)
           calls == [i \in DOMAIN m.calls |-> WireCall(form, m.calls[i])]
<1>1. /\ w.role = m.role /\ w.id = m.id /\ w.name = Null /\ w.calls = calls
      /\ m.content = Null => w.content = WireNull
      /\ m.content # Null => w.content = WireText(m.content)
  BY WireFields, SpokenFields, Zenon
<1>2. CanonicalCalls(calls) = m.calls /\ \A i \in DOMAIN m.calls : GoodCall(calls[i])
  BY CallsBack, SpokenFields
<1>3. m.content # Null => ExtractText(w.content) = m.content /\ w.content.form = "parts"
  BY <1>1, SpokenFields, TextBack DEF WireText
<1>4. m.content = Null => w.content.form = "null"
  BY <1>1 DEF WireNull
<1>5. calls = <<>> => m.calls = <<>>
  <2> SUFFICES ASSUME calls = <<>> PROVE m.calls = <<>>
    OBVIOUS
  <2>1. DOMAIN calls = DOMAIN m.calls /\ DOMAIN <<>> = {}
    OBVIOUS
  <2>2. DOMAIN m.calls = {}
    BY <2>1
  <2>3. m.calls \in Seq(CallRecords)
    BY SpokenFields
  <2> QED
    BY <2>2, <2>3, EmptySeq, LenProperties
<1>6. DOMAIN calls = DOMAIN m.calls
  OBVIOUS
<1>7. m.calls = <<>> => calls = <<>>
  OBVIOUS
<1> HIDE DEF w, calls
<1>8. Acceptable(w)
  <2>1. m.role \in Roles /\ (m.role = "tool" => m.id # Null)
        /\ (m.calls # <<>> => m.role = "assistant") /\ (m.content = Null => m.calls # <<>>)
    BY SpokenFields
  <2> QED
    BY <1>1, <1>2, <1>3, <1>4, <1>5, <1>6, <1>7, <2>1 DEF Acceptable
<1>9. Canonical(w) = m
  <2>0. m = [role |-> m.role, content |-> m.content, calls |-> m.calls,
             id |-> m.id, name |-> Null]
    BY SpokenFields
  <2>1. CASE m.role = "tool"
    <3>1. m.calls = <<>> /\ m.content # Null
      BY <2>1, SpokenFields
    <3>2. Canonical(w) = ToolResult(w.id, w.name, ExtractText(w.content))
      BY <1>1, <2>1 DEF Canonical
    <3> QED
      BY <1>1, <1>3, <2>0, <2>1, <3>1, <3>2 DEF ToolResult
  <2>2. CASE m.role # "tool" /\ m.content = Null
    <3>1. m.role = "assistant" /\ m.id = Null
      BY <2>2, SpokenFields
    <3>2. Canonical(w) = CanonicalMessage("assistant", Null, CanonicalCalls(w.calls))
      BY <1>1, <1>4, <2>2, <3>1 DEF Canonical
    <3> QED
      BY <1>1, <1>2, <2>0, <2>2, <3>1, <3>2 DEF CanonicalMessage
  <2>3. CASE m.role # "tool" /\ m.content # Null
    <3>1. m.id = Null
      BY <2>3, SpokenFields
    <3>2. Canonical(w) = CanonicalMessage(w.role, ExtractText(w.content),
                                          CanonicalCalls(w.calls))
      BY <1>1, <1>3, <2>3 DEF Canonical
    <3> QED
      BY <1>1, <1>2, <1>3, <2>0, <2>3, <3>1, <3>2 DEF CanonicalMessage
  <2> QED
    BY <2>1, <2>2, <2>3
<1> QED
  BY <1>8, <1>9 DEF w

\* Elements of what is flattened are elements of a part.
LEMMA FlattenedElements ==
  ASSUME NEW V, NEW s \in Seq(Seq(V))
  PROVE  FlattenSeq(s) \in Seq(V)
<1>1. PICK at \in [0..Len(s) -> Seq(V)] : FlattenSeq(s) = at[Len(s)]
  BY Flattened
<1>2. Len(s) \in 0..Len(s)
  BY LenProperties
<1> QED
  BY <1>1, <1>2

\* The ids that are called are ids.
LEMMA IdsOfCalls ==
  ASSUME NEW told \in Seq(Spoken)
  PROVE  CallIdsIn(told) \subseteq CallIds
<1> DEFINE parts == [i \in DOMAIN told |-> told[i].calls]
           calls == FlattenSeq(parts)
<1>1. parts \in Seq(Seq(CallRecords))
  <2>1. DOMAIN told = 1..Len(told) /\ Len(told) \in Nat
    BY LenProperties
  <2>2. \A i \in 1..Len(told) : told[i].calls \in Seq(CallRecords)
    BY ElementOfSeq, SpokenFields
  <2>3. parts \in [1..Len(told) -> Seq(CallRecords)]
    BY <2>1, <2>2
  <2> QED
    BY <2>1, <2>3, SeqDef
<1> HIDE DEF parts
<1>2. calls \in Seq(CallRecords)
  BY <1>1, FlattenedElements
<1>3. CallIdsIn(told) = {call.id : call \in ToSet(calls)}
  BY DEF CallIdsIn, CallsIn, parts
<1> HIDE DEF calls
<1>4. \A call \in ToSet(calls) : call \in CallRecords
  BY <1>2, LenProperties, ElementOfSeq DEF ToSet
<1> QED
  BY <1>3, <1>4 DEF CallRecords

\* What the client may send and the gateway accepts is one message more.
LEMMA NewSpoken ==
  ASSUME NEW told \in Seq(Spoken), NEW message \in NewMessages(told), Acceptable(message)
  PROVE  Canonical(message) \in Spoken
<1>1. CASE message \in Questions
  <2>1. PICK w \in Words : message = CanonicalMessage("user", WireText(<<w>>), <<>>)
    BY <1>1 DEF Questions
  <2>2. /\ message.role = "user" /\ message.calls = <<>>
        /\ message.content = WireText(<<w>>)
    BY <2>1 DEF CanonicalMessage
  <2>3. <<w>> \in Seq(Pieces)
    BY DEF Pieces
  <2>4. CanonicalCalls(<<>>) = <<>>
    BY DEF CanonicalCalls
  <2>5. Canonical(message) = CanonicalMessage("user", <<w>>, <<>>)
    <3>1. Canonical(message) = CanonicalMessage("user", ExtractText(WireText(<<w>>)), <<>>)
      BY <2>2, <2>4, Zenon DEF Canonical
    <3> QED
      BY <2>3, <3>1, TextBack
  <2>6. <<>> \in Seq(CallRecords)
    OBVIOUS
  <2> DEFINE text == <<w>>
             m    == Canonical(message)
  <2> HIDE DEF text, m
  <2>7. m = [role |-> "user", content |-> text, calls |-> <<>>, id |-> Null, name |-> Null]
    BY <2>5 DEF CanonicalMessage, text, m
  <2>8. text \in Seq(Pieces) /\ text # Null
    BY <2>3, NullApart DEF text
  <2>9. m \in Spoken
    BY <2>6, <2>7, <2>8 DEF Spoken, Roles
  <2> QED
    BY <2>9 DEF m
<1>2. CASE message \in Results(told)
  <2>1. PICK id \in Unanswered(told), w \in Words :
          message = ToolResult(id, Null, WireText(<<w>>))
    BY <1>2 DEF Results
  <2>2. /\ message.role = "tool" /\ message.id = id /\ message.name = Null
        /\ message.content = WireText(<<w>>)
    BY <2>1 DEF ToolResult
  <2>3. <<w>> \in Seq(Pieces)
    BY DEF Pieces
  <2>4. Canonical(message) = ToolResult(id, Null, <<w>>)
    <3>1. Canonical(message) = ToolResult(id, Null, ExtractText(WireText(<<w>>)))
      BY <2>2, Zenon DEF Canonical
    <3> QED
      BY <2>3, <3>1, TextBack
  <2>5. id \in CallIds
    BY IdsOfCalls DEF Unanswered
  <2>6. <<>> \in Seq(CallRecords)
    OBVIOUS
  <2> DEFINE text == <<w>>
             m    == Canonical(message)
  <2> HIDE DEF text, m
  <2>7. m = [role |-> "tool", content |-> text, calls |-> <<>>, id |-> id, name |-> Null]
    BY <2>4 DEF ToolResult, text, m
  <2>8. text \in Seq(Pieces) /\ text # Null /\ id # Null
    BY <2>3, <2>5, NullApart DEF text
  <2>9. m \in Spoken
    BY <2>5, <2>6, <2>7, <2>8 DEF Spoken, Roles
  <2> QED
    BY <2>9 DEF m
<1>3. message \notin Oddities
  <2>1. ~Acceptable(CanonicalMessage("assistant", WireNull, <<>>))
    BY DEF Acceptable, CanonicalMessage, WireNull
  <2>2. ~Acceptable(ToolResult(Null, Tool, WireText(<<>>)))
    BY DEF Acceptable, ToolResult
  <2> QED
    BY <2>1, <2>2 DEF Oddities
<1> QED
  BY <1>1, <1>2, <1>3 DEF NewMessages

\* As many places, as long a sequence.
LEMMA SamePlaces ==
  ASSUME NEW m \in Nat, NEW n \in Nat, 1..m = 1..n
  PROVE  m = n
<1>1. m \in 1..m \/ m = 0
  OBVIOUS
<1>2. n \in 1..n \/ n = 0
  OBVIOUS
<1>3. (m \in 1..n \/ m = 0) /\ (n \in 1..m \/ n = 0)
  BY <1>1, <1>2
<1> QED
  BY <1>3

\* A history that is sent with one message more comes in as that history and
\* that message, however it is written.
LEMMA HistoryBack ==
  ASSUME NEW told \in Seq(Spoken), NEW form \in ArgumentForms, NEW message
  PROVE  MessagesToCanonical(Append(Resent(told, form), message))
           = Append(told, Canonical(message))
<1> DEFINE n    == Len(told)
           old  == Resent(told, form)
           sent == Append(old, message)
           W    == {old[i] : i \in 1..n} \union {message}
<1>1. n \in Nat /\ DOMAIN told = 1..n /\ \A i \in 1..n : told[i] \in Spoken
  BY LenProperties, ElementOfSeq
<1>2. old = [i \in 1..n |-> Wire(form, told[i])]
  BY <1>1 DEF Resent
<1>3. \A i \in 1..n : old[i] = Wire(form, told[i]) /\ old[i] \in W
  BY <1>2
<1>4. old \in [1..n -> W]
  BY <1>2, <1>3
<1>5. message \in W
  OBVIOUS
<1> HIDE DEF n, old, W
<1>6. old \in Seq(W) /\ Len(old) = n
  <2>1. old \in Seq(W)
    BY <1>1, <1>4, SeqDef
  <2>2. DOMAIN old = 1..n /\ DOMAIN old = 1..Len(old) /\ Len(old) \in Nat
    BY <1>4, <2>1, LenProperties
  <2>3. Len(old) = n
    BY <1>1, <2>2, SamePlaces
  <2> QED
    BY <2>1, <2>3
<1>7. /\ sent \in Seq(W) /\ Len(sent) = n + 1
      /\ \A i \in 1..n : sent[i] = old[i]
      /\ sent[n + 1] = message
  BY <1>5, <1>6, AppendProperties
<1>8. DOMAIN sent = 1..(n + 1)
  BY <1>7, LenProperties
<1> HIDE DEF sent
<1> DEFINE m   == Canonical(message)
           new == Append(told, m)
           T   == Spoken \union {m}
<1>9. told \in Seq(T) /\ m \in T
  BY SeqMonotonic
<1> HIDE DEF m, T
<1>10. /\ new \in Seq(T) /\ Len(new) = n + 1
       /\ \A i \in 1..n : new[i] = told[i]
       /\ new[n + 1] = m
  BY <1>9, AppendProperties DEF n
<1>11. new = [i \in 1..(n + 1) |-> new[i]]
  BY <1>10, LenProperties
<1> HIDE DEF new
<1>12. ASSUME NEW i \in 1..(n + 1) PROVE Canonical(sent[i]) = new[i]
  <2>1. CASE i = n + 1
    BY <1>7, <1>10, <2>1 DEF m
  <2>2. CASE i # n + 1
    <3>1. i \in 1..n
      BY <1>1, <2>2
    <3>2. Canonical(old[i]) = told[i]
      BY <1>1, <1>3, <3>1, MessageBack
    <3> QED
      BY <1>7, <1>10, <3>1, <3>2
  <2> QED
    BY <2>1, <2>2
<1>13. MessagesToCanonical(sent) = [i \in 1..(n + 1) |-> new[i]]
  BY <1>8, <1>12 DEF MessagesToCanonical
<1> QED
  BY <1>11, <1>13 DEF sent, old, new, m

-----------------------------------------------------------------------------
(* What the lines of a stream are heard as.                                *)

\* The events of a line, before the envelope parser.
Raw(path, line) == ChunkToEvents(Adapt(path, line))

\* Flattened sequences of two parts at most.
LEMMA FlattenedFew ==
  ASSUME NEW V, NEW s \in Seq(V), NEW t \in Seq(V)
  PROVE  FlattenSeq(<<>>) = <<>> /\ FlattenSeq(<<s>>) = s /\ FlattenSeq(<<s, t>>) = s \o t
<1>1. <<>> \o s = s
  BY ConcatEmptySeq
<1>2. FlattenSeq(<<>>) = <<>>
  BY DEF FlattenSeq
<1>3. FlattenSeq(<<s>>) = s
  <2> DEFINE p == <<s>>
  <2>1. p \in Seq(Seq(V)) /\ Len(p) = 1 /\ p[1] = s
    OBVIOUS
  <2> HIDE DEF p
  <2>2. PICK at \in [0..Len(p) -> Seq(V)] :
                  /\ at[0] = <<>> /\ FlattenSeq(p) = at[Len(p)]
                  /\ \A k \in 1..Len(p) : at[k] = at[k - 1] \o p[k]
    BY <2>1, Flattened
  <2>3. at[1] = at[1 - 1] \o p[1] /\ 1 - 1 = 0
    BY <2>1, <2>2
  <2>4. FlattenSeq(p) = <<>> \o s
    BY <2>1, <2>2, <2>3
  <2> QED
    BY <1>1, <2>4 DEF p
<1>4. FlattenSeq(<<s, t>>) = s \o t
  <2> DEFINE p == <<s, t>>
  <2>1. p \in Seq(Seq(V)) /\ Len(p) = 2 /\ p[1] = s /\ p[2] = t
    OBVIOUS
  <2> HIDE DEF p
  <2>2. PICK at \in [0..Len(p) -> Seq(V)] :
                  /\ at[0] = <<>> /\ FlattenSeq(p) = at[Len(p)]
                  /\ \A k \in 1..Len(p) : at[k] = at[k - 1] \o p[k]
    BY <2>1, Flattened
  <2>3. at[1] = at[1 - 1] \o p[1] /\ 1 - 1 = 0 /\ at[2] = at[2 - 1] \o p[2] /\ 2 - 1 = 1
    BY <2>1, <2>2
  <2>4. FlattenSeq(p) = (<<>> \o s) \o t
    BY <2>1, <2>2, <2>3
  <2> QED
    BY <1>1, <2>4 DEF p
<1> QED
  BY <1>2, <1>3, <1>4

\* Sequences of one and of two.
LEMMA ShortSeqs ==
  /\ \A V : <<>> \in Seq(V)
  /\ \A V, e : e \in V => <<e>> \in Seq(V)
  /\ \A e, f : <<e, f>> = <<e>> \o <<f>>
<1>1. ASSUME NEW V PROVE <<>> \in Seq(V)
  OBVIOUS
<1>2. ASSUME NEW V, NEW e \in V PROVE <<e>> \in Seq(V)
  OBVIOUS
<1>3. ASSUME NEW e, NEW f PROVE <<e, f>> = <<e>> \o <<f>>
  <2> DEFINE a == <<e>>
             b == <<f>>
             c == <<e, f>>
             d == a \o b
  <2>1. a \in Seq({e, f}) /\ Len(a) = 1 /\ a[1] = e
    OBVIOUS
  <2>2. b \in Seq({e, f}) /\ Len(b) = 1 /\ b[1] = f
    OBVIOUS
  <2>3. c \in Seq({e, f}) /\ Len(c) = 2 /\ c[1] = e /\ c[2] = f
    OBVIOUS
  <2> HIDE DEF a, b, c
  <2>4. d \in Seq({e, f}) /\ Len(d) = 2 /\ d[1] = e /\ d[2] = f
    BY <2>1, <2>2, ConcatProperties
  <2> HIDE DEF d
  <2>5. \A i \in 1..2 : c[i] = d[i]
    BY <2>3, <2>4
  <2>6. c = d
    BY <2>3, <2>4, <2>5, SeqEqual
  <2> QED
    BY <2>6, Zenon DEF a, b, c, d
<1> QED
  BY <1>1, <1>2, <1>3

\* What the parser makes of an event.
Understood(event) ==
  IF ToolMode THEN Parsed(event, turn.recorder.calls # <<>>, NewCall) ELSE <<event>>

\* What the tool mode makes of an event, case by case.
LEMMA UnderstoodEvent ==
  ASSUME NEW event
  PROVE  /\ event.event # "text" => Understood(event) = <<event>>
         /\ ~ToolMode => Understood(event) = <<event>>
         /\ ToolMode /\ event.event = "text" =>
              Understood(event) = IF turn.recorder.calls # <<>> THEN <<>>
                                  ELSE IF event.text = Envelope
                                         THEN <<ToolCallEmitted(NewCall)>> ELSE <<event>>
  BY Zenon DEF Understood, Parsed

\* A line of two events at most is heard event by event.
LEMMA HeardFew ==
  ASSUME NEW line
  PROVE  /\ Raw(turn.path, line) = <<>> => Heard(line) = <<>>
         /\ \A e : Raw(turn.path, line) = <<e>> => Heard(line) = Understood(e)
         /\ \A e, f : Raw(turn.path, line) = <<e, f>> =>
                        Heard(line) = Understood(e) \o Understood(f)
<1> DEFINE raw  == Raw(turn.path, line)
           done == turn.recorder.calls # <<>>
           read == [i \in DOMAIN raw |-> Parsed(raw[i], done, NewCall)]
<1>1. ~ToolMode => Heard(line) = raw
  BY Zenon DEF Heard, Raw
<1>2. ToolMode => Heard(line) = FlattenSeq(read)
  BY Zenon DEF Heard, Raw
<1>3. ToolMode => \A e : Understood(e) = Parsed(e, done, NewCall)
  BY Zenon DEF Understood
<1>4. ASSUME NEW W, NEW e \in W, ToolCallEmitted(NewCall) \in W PROVE Understood(e) \in Seq(W)
  <2> DEFINE f == ToolCallEmitted(NewCall)
             u == Understood(e)
  <2>1. u = <<e>> \/ u = <<>> \/ u = <<f>>
    BY UnderstoodEvent, Zenon
  <2> HIDE DEF u
  <2>2. <<e>> \in Seq(W) /\ <<>> \in Seq(W) /\ <<f>> \in Seq(W)
    BY <1>4, ShortSeqs, Zenon
  <2>3. u \in Seq(W)
    BY <2>1, <2>2, Zenon
  <2> QED
    BY <2>3 DEF u
<1> HIDE DEF raw, done
<1>5. CASE raw = <<>>
  <2>1. read = <<>>
    BY <1>5
  <2>2. <<>> \in Seq({})
    OBVIOUS
  <2>3. FlattenSeq(<<>>) = <<>>
    BY <2>2, FlattenedFew
  <2> HIDE DEF read
  <2>4. Heard(line) = <<>>
    BY <1>1, <1>2, <1>5, <2>1, <2>3
  <2> QED
    BY <1>5, <2>4 DEF raw
<1>6. ASSUME NEW e, raw = <<e>> PROVE Heard(line) = Understood(e)
  <2> DEFINE p == Parsed(e, done, NewCall)
  <2> HIDE DEF p
  <2>1. read = <<p>>
    <3>1. DOMAIN raw = {1} /\ raw[1] = e
      BY <1>6
    <3>2. read = [i \in {1} |-> p]
      BY <3>1 DEF p
    <3> QED
      BY <3>2
  <2>2. CASE ToolMode
    <3>1. p = Understood(e)
      BY <1>3, <2>2 DEF p
    <3> DEFINE W == {e, ToolCallEmitted(NewCall)}
    <3>3. p \in Seq(W)
      BY <1>4, <3>1
    <3>2. FlattenSeq(<<p>>) = p
      BY <3>3, FlattenedFew
    <3> QED
      BY <1>2, <2>1, <2>2, <3>1, <3>2
  <2>3. CASE ~ToolMode
    BY <1>1, <1>6, <2>3, UnderstoodEvent
  <2> QED
    BY <2>2, <2>3
<1>7. ASSUME NEW e, NEW f, raw = <<e, f>> PROVE Heard(line) = Understood(e) \o Understood(f)
  <2> DEFINE p == Parsed(e, done, NewCall)
             q == Parsed(f, done, NewCall)
  <2> HIDE DEF p, q
  <2>1. read = <<p, q>>
    <3>1. DOMAIN raw = {1, 2} /\ raw[1] = e /\ raw[2] = f
      BY <1>7
    <3>2. read = [i \in {1, 2} |-> IF i = 1 THEN p ELSE q]
      BY <3>1 DEF p, q
    <3> QED
      BY <3>2
  <2>2. CASE ToolMode
    <3> DEFINE W == {e, f, ToolCallEmitted(NewCall)}
    <3>1. p = Understood(e) /\ q = Understood(f)
      BY <1>3, <2>2 DEF p, q
    <3>2. p \in Seq(W) /\ q \in Seq(W)
      BY <1>4, <3>1
    <3>3. FlattenSeq(<<p, q>>) = p \o q
      BY <3>2, FlattenedFew
    <3> QED
      BY <1>2, <2>1, <2>2, <3>1, <3>3
  <2>3. CASE ~ToolMode
    <3>1. Heard(line) = <<e, f>>
      BY <1>1, <1>7, <2>3, Zenon
    <3>2. Understood(e) = <<e>> /\ Understood(f) = <<f>>
      BY <2>3, UnderstoodEvent, Zenon
    <3>3. <<e, f>> = <<e>> \o <<f>>
      BY ShortSeqs, Zenon
    <3> QED
      BY <3>1, <3>2, <3>3, Zenon
  <2> QED
    BY <2>2, <2>3
<1> QED
  BY <1>5, <1>6, <1>7 DEF raw

\* Sequences of at most one event, put together.
LEMMA ShortJoins ==
  /\ <<>> \o <<>> = <<>>
  /\ \A e : <<e>> \o <<>> = <<e>> /\ <<>> \o <<e>> = <<e>>
<1>1. \A V : \A s \in Seq(V) : s \o <<>> = s /\ <<>> \o s = s
  BY ConcatEmptySeq
<1>2. <<>> \o <<>> = <<>>
  BY <1>1, ShortSeqs, Zenon
<1>3. ASSUME NEW e PROVE <<e>> \o <<>> = <<e>> /\ <<>> \o <<e>> = <<e>>
  <2>1. <<e>> \in Seq({e})
    OBVIOUS
  <2> QED
    BY <1>1, <2>1, Zenon
<1> QED
  BY <1>2, <1>3, Zenon

\* A chunk's events: what it has of an id, a text and an end, in this order.
LEMMA ChunkEvents ==
  ASSUME NEW chunk
  PROVE  /\ chunk.id = Null /\ chunk.content = Null /\ chunk.finish = Null =>
              ChunkToEvents(chunk) = <<>>
         /\ chunk.id # Null /\ chunk.content = Null /\ chunk.finish = Null =>
              ChunkToEvents(chunk) = <<BackendMessageId(chunk.id)>>
         /\ chunk.id = Null /\ chunk.content # Null /\ chunk.finish = Null =>
              ChunkToEvents(chunk) = DeltaEvents(chunk)
         /\ chunk.id # Null /\ chunk.content # Null /\ chunk.finish = Null =>
              ChunkToEvents(chunk) = <<BackendMessageId(chunk.id)>> \o DeltaEvents(chunk)
         /\ chunk.id = Null /\ chunk.content = Null /\ chunk.finish # Null =>
              ChunkToEvents(chunk) = <<MessageFinished(chunk.finish)>>
<1> DEFINE id    == IF chunk.id = Null THEN <<>> ELSE <<BackendMessageId(chunk.id)>>
           delta == DeltaEvents(chunk)
           end   == IF chunk.finish = Null THEN <<>> ELSE <<MessageFinished(chunk.finish)>>
<1>1. ChunkToEvents(chunk) = (id \o delta) \o end
  BY Zenon DEF ChunkToEvents
<1>2. chunk.content = Null => delta = <<>>
  BY DEF DeltaEvents
<1>3. delta \in Seq({ReasoningDelta(chunk.content), TextDelta(chunk.content)})
  <2> DEFINE a == ReasoningDelta(chunk.content)
             b == TextDelta(chunk.content)
  <2>1. delta = <<>> \/ delta = <<a>> \/ delta = <<b>>
    BY Zenon DEF DeltaEvents
  <2> HIDE DEF delta, a, b
  <2>2. <<a>> \in Seq({a, b}) /\ <<b>> \in Seq({a, b}) /\ <<>> \in Seq({a, b})
    OBVIOUS
  <2>3. delta \in Seq({a, b})
    BY <2>1, <2>2, Zenon
  <2> QED
    BY <2>3 DEF a, b
<1> DEFINE first == id \o delta
<1>4. chunk.id = Null => first = delta
  <2>1. <<>> \o delta = delta
    BY <1>3, ConcatEmptySeq
  <2> QED
    BY <2>1
<1>5. chunk.id # Null => first = <<BackendMessageId(chunk.id)>> \o delta
  BY Zenon
<1>6. chunk.finish = Null /\ chunk.id = Null => first \o end = first
  <2>1. delta \o <<>> = delta
    BY <1>3, ConcatEmptySeq
  <2> QED
    BY <1>4, <2>1
<1>7. chunk.finish = Null /\ chunk.id # Null => first \o end = first
  <2> DEFINE a == BackendMessageId(chunk.id)
             W == {a, ReasoningDelta(chunk.content), TextDelta(chunk.content)}
  <2>1. <<a>> \in Seq(W)
    OBVIOUS
  <2>2. delta \in Seq(W)
    BY <1>3, SeqMonotonic
  <2> HIDE DEF W, delta
  <2>3. (<<a>> \o delta) \in Seq(W)
    BY <2>1, <2>2, ConcatProperties
  <2>4. (<<a>> \o delta) \o <<>> = <<a>> \o delta
    BY <2>3, ConcatEmptySeq
  <2> QED
    BY <2>4, <1>5, Zenon
<1> HIDE DEF id, delta, end, first
<1>8. ChunkToEvents(chunk) = first \o end
  BY <1>1, Zenon DEF first
<1>9. chunk.id = Null /\ chunk.content = Null /\ chunk.finish = Null => ChunkToEvents(chunk) = <<>>
  BY <1>2, <1>4, <1>6, <1>8, Zenon
<1>10. chunk.id # Null /\ chunk.content = Null /\ chunk.finish = Null =>
         ChunkToEvents(chunk) = <<BackendMessageId(chunk.id)>>
  <2>1. <<BackendMessageId(chunk.id)>> \o <<>> = <<BackendMessageId(chunk.id)>>
    BY ShortJoins, Zenon
  <2> QED
    BY <1>2, <1>5, <1>7, <1>8, <2>1, Zenon
<1>11. chunk.id = Null /\ chunk.content # Null /\ chunk.finish = Null =>
         ChunkToEvents(chunk) = DeltaEvents(chunk)
  BY <1>4, <1>6, <1>8, Zenon DEF delta
<1>12. chunk.id # Null /\ chunk.content # Null /\ chunk.finish = Null =>
         ChunkToEvents(chunk) = <<BackendMessageId(chunk.id)>> \o DeltaEvents(chunk)
  BY <1>5, <1>7, <1>8, Zenon DEF delta
<1>13. chunk.id = Null /\ chunk.content = Null /\ chunk.finish # Null =>
         ChunkToEvents(chunk) = <<MessageFinished(chunk.finish)>>
  <2>1. <<>> \o <<MessageFinished(chunk.finish)>> = <<MessageFinished(chunk.finish)>>
    BY ShortJoins, Zenon
  <2> QED
    BY <1>2, <1>4, <1>8, <2>1, Zenon DEF end
<1> QED
  BY <1>9, <1>10, <1>11, <1>12, <1>13, Zenon

\* The first line names the answer.
LEMMA ReadyRaw ==
  ASSUME NEW path, NEW id \in MessageIds
  PROVE  Raw(path, ReadyLine(id)) = <<BackendMessageId(id)>>
<1> DEFINE chunk == Adapt(path, ReadyLine(id))
<1>1. chunk = [NoChunk EXCEPT !.id = id]
  BY DEF Adapt, ReadyLine
<1>2. chunk.id = id /\ chunk.content = Null /\ chunk.finish = Null
  BY <1>1 DEF NoChunk
<1>3. id # Null
  BY NullApart
<1> HIDE DEF chunk
<1>4. ChunkToEvents(chunk) = <<BackendMessageId(chunk.id)>>
  BY <1>2, <1>3, ChunkEvents, Zenon
<1> QED
  BY <1>2, <1>4, Zenon DEF Raw, chunk

\* What a line is read as.
Reads(path, line, events) == Raw(path, line) = events

\* A snapshot names it and has its words, or its thoughts, or neither.
LEMMA SnapshotRaw ==
  ASSUME NEW path, NEW id \in MessageIds, NEW content, NEW thinking,
         NEW line, line = SnapshotLine(id, content, thinking)
  PROVE  /\ content # Null =>
              Reads(path, line, <<BackendMessageId(id), TextDelta(content)>>)
         /\ content = Null /\ thinking # Null =>
              Reads(path, line, <<BackendMessageId(id), ReasoningDelta(thinking)>>)
         /\ content = Null /\ thinking = Null =>
              Reads(path, line, <<BackendMessageId(id)>>)
         /\ PathAfter(path, line) = path
<1> DEFINE chunk == Adapt(path, line)
<1>1. line.kind = "snapshot" /\ line.id = id /\ line.content = content /\ line.thinking = thinking
  BY DEF SnapshotLine
<1>2. chunk = Snapshot(line)
  BY <1>1 DEF Adapt
<1>3. id # Null
  BY NullApart
<1>4. CASE content # Null
  <2>1. chunk = [NoChunk EXCEPT !.id = id, !.content = content, !.type = "text"]
    BY <1>1, <1>2, <1>4, Zenon DEF Snapshot
  <2>2. chunk.id = id /\ chunk.content = content /\ chunk.type = "text" /\ chunk.finish = Null
    BY <2>1 DEF NoChunk
  <2> HIDE DEF chunk
  <2>3. DeltaEvents(chunk) = <<TextDelta(content)>>
    BY <1>4, <2>2 DEF DeltaEvents
  <2>4. ChunkToEvents(chunk) = <<BackendMessageId(id)>> \o <<TextDelta(content)>>
    BY <1>3, <1>4, <2>2, <2>3, ChunkEvents, Zenon
  <2>5. Raw(path, line) = <<BackendMessageId(id), TextDelta(content)>>
    BY <2>4, ShortSeqs, Zenon DEF Raw, chunk
  <2> QED
    BY <1>1, <1>4, <2>5 DEF PathAfter, Reads
<1>5. CASE content = Null /\ thinking # Null
  <2>1. chunk = [NoChunk EXCEPT !.id = id, !.content = thinking, !.type = "thinking"]
    BY <1>1, <1>2, <1>5, Zenon DEF Snapshot
  <2>2. chunk.id = id /\ chunk.content = thinking /\ chunk.type = "thinking"
        /\ chunk.finish = Null
    BY <2>1 DEF NoChunk
  <2> HIDE DEF chunk
  <2>3. DeltaEvents(chunk) = <<ReasoningDelta(thinking)>>
    BY <1>5, <2>2 DEF DeltaEvents
  <2>4. ChunkToEvents(chunk) = <<BackendMessageId(id)>> \o <<ReasoningDelta(thinking)>>
    BY <1>3, <1>5, <2>2, <2>3, ChunkEvents, Zenon
  <2>5. Raw(path, line) = <<BackendMessageId(id), ReasoningDelta(thinking)>>
    BY <2>4, ShortSeqs, Zenon DEF Raw, chunk
  <2> QED
    BY <1>1, <1>5, <2>5 DEF PathAfter, Reads
<1>6. CASE content = Null /\ thinking = Null
  <2>1. chunk = [NoChunk EXCEPT !.id = id]
    BY <1>1, <1>2, <1>6 DEF Snapshot
  <2>2. chunk.id = id /\ chunk.content = Null /\ chunk.finish = Null
    BY <2>1 DEF NoChunk
  <2> HIDE DEF chunk
  <2>3. ChunkToEvents(chunk) = <<BackendMessageId(id)>>
    BY <1>3, <2>2, ChunkEvents, Zenon
  <2>4. Raw(path, line) = <<BackendMessageId(id)>>
    BY <2>3, Zenon DEF Raw, chunk
  <2> QED
    BY <1>1, <1>6, <2>4 DEF PathAfter, Reads
<1> QED
  BY <1>4, <1>5, <1>6

\* A patch is read by the path it names, or by the last one that was named.
LEMMA PatchRaw ==
  ASSUME NEW path, NEW p, NEW o, NEW v
  PROVE  LET line == PatchLine(p, o, v)
             q    == IF p # Null THEN p ELSE path
         IN  /\ PathAfter(path, line) = q
             /\ q = Content /\ IsAppend(o) /\ v # Null => Raw(path, line) = <<TextDelta(v)>>
             /\ q = Thinking =>
                  Raw(path, line) = <<ReasoningDelta(v)>> \/ Raw(path, line) = <<>>
             /\ q = Status /\ v = "FINISHED" => Raw(path, line) = <<MessageFinished("stop")>>
             /\ q = Status /\ v = "WIP" => Raw(path, line) = <<>>
<1> DEFINE line  == PatchLine(p, o, v)
           q     == IF p # Null THEN p ELSE path
           chunk == Adapt(path, line)
<1>1. line.kind = "patch" /\ line.p = p /\ line.o = o /\ line.v = v
  BY DEF PatchLine
<1> HIDE DEF line
<1>2. PathAfter(path, line) = q
  BY <1>1 DEF PathAfter
<1>3. chunk = Patch(q, line)
  BY <1>1, <1>2 DEF Adapt
<1> HIDE DEF q
<1>4. Content # Thinking /\ Content # Status /\ Thinking # Status
  BY DEF Content, Thinking, Status
<1>5. chunk = NoChunk => Raw(path, line) = <<>>
  <2>1. NoChunk.id = Null /\ NoChunk.content = Null /\ NoChunk.finish = Null
    BY DEF NoChunk
  <2>2. ChunkToEvents(NoChunk) = <<>>
    BY <2>1, ChunkEvents, Zenon
  <2> QED
    BY <2>2, Zenon DEF Raw
<1>6. ASSUME q = Content, IsAppend(o), v # Null PROVE Raw(path, line) = <<TextDelta(v)>>
  <2>1. chunk = [NoChunk EXCEPT !.content = v, !.type = "text"]
    BY <1>1, <1>3, <1>4, <1>6, Zenon DEF Patch
  <2>2. chunk.id = Null /\ chunk.content = v /\ chunk.type = "text" /\ chunk.finish = Null
    BY <2>1 DEF NoChunk
  <2> HIDE DEF chunk
  <2>3. DeltaEvents(chunk) = <<TextDelta(v)>>
    BY <1>6, <2>2 DEF DeltaEvents
  <2>4. ChunkToEvents(chunk) = <<TextDelta(v)>>
    BY <1>6, <2>2, <2>3, ChunkEvents, Zenon
  <2> QED
    BY <2>4, Zenon DEF Raw, chunk
<1>7. ASSUME q = Thinking PROVE Raw(path, line) = <<ReasoningDelta(v)>> \/ Raw(path, line) = <<>>
  <2>1. CASE IsAppend(o) /\ v # Null
    <3>1. chunk = [NoChunk EXCEPT !.content = v, !.type = "thinking"]
      BY <1>1, <1>3, <1>4, <1>7, <2>1, Zenon DEF Patch
    <3>2. chunk.id = Null /\ chunk.content = v /\ chunk.type = "thinking" /\ chunk.finish = Null
      BY <3>1 DEF NoChunk
    <3> HIDE DEF chunk
    <3>3. DeltaEvents(chunk) = <<ReasoningDelta(v)>>
      BY <2>1, <3>2 DEF DeltaEvents
    <3>4. ChunkToEvents(chunk) = <<ReasoningDelta(v)>>
      BY <2>1, <3>2, <3>3, ChunkEvents, Zenon
    <3> QED
      BY <3>4, Zenon DEF Raw, chunk
  <2>2. CASE ~(IsAppend(o) /\ v # Null)
    <3>1. chunk = NoChunk
      BY <1>1, <1>3, <1>4, <1>7, <2>2, Zenon DEF Patch
    <3> QED
      BY <1>5, <3>1
  <2> QED
    BY <2>1, <2>2
<1>8. ASSUME q = Status, v = "FINISHED" PROVE Raw(path, line) = <<MessageFinished("stop")>>
  <2>1. chunk = [NoChunk EXCEPT !.finish = "stop"]
    BY <1>1, <1>3, <1>4, <1>8, Zenon DEF Patch
  <2>2. chunk.id = Null /\ chunk.content = Null /\ chunk.finish = "stop"
    BY <2>1 DEF NoChunk
  <2>3. "stop" # Null
    BY DialogueAssumption
  <2> HIDE DEF chunk
  <2>4. ChunkToEvents(chunk) = <<MessageFinished("stop")>>
    BY <2>2, <2>3, ChunkEvents, Zenon
  <2> QED
    BY <2>4, Zenon DEF Raw, chunk
<1>9. ASSUME q = Status, v = "WIP" PROVE Raw(path, line) = <<>>
  <2>0. "WIP" # "FINISHED"
    OBVIOUS
  <2>1. chunk = NoChunk
    BY <1>1, <1>3, <1>4, <1>9, <2>0, Zenon DEF Patch
  <2> QED
    BY <1>5, <2>1
<1> QED
  BY <1>2, <1>6, <1>7, <1>8, <1>9 DEF line, q

-----------------------------------------------------------------------------
(* What is recorded is what is said.                                       *)

\* What a turn may have recorded.
Recorders == [text : Seq(Pieces), calls : Seq(CallRecords),
              parent : MessageIds \union {Null}, finished : BOOLEAN, reason : {Null, "stop"}]

\* The recorder of what has been said so far.
Says(recorder, said, tools) ==
  /\ recorder.text = Saying(said, tools).words
  /\ recorder.calls # <<>> <=> Saying(said, tools).called

\* Everything but the words and the calls is the same.
SameStanding(r, q) == r.finished = q.finished /\ r.reason = q.reason

\* A new recorder is empty and has not ended.
LEMMA NewRecorderSound ==
  /\ NewRecorder \in Recorders
  /\ NewRecorder.text = <<>> /\ NewRecorder.calls = <<>>
  /\ NewRecorder.finished = FALSE /\ NewRecorder.reason = Null
<1>1. <<>> \in Seq(Pieces) /\ <<>> \in Seq(CallRecords)
  OBVIOUS
<1> QED
  BY <1>1 DEF NewRecorder, Recorders

\* Each kind of event at the recorder.
LEMMA ObserveEvent ==
  ASSUME NEW r \in Recorders
  PROVE  /\ \A id \in MessageIds : LET q == Observe(r, BackendMessageId(id)) IN
              /\ q \in Recorders /\ SameStanding(q, r) /\ q.text = r.text /\ q.calls = r.calls
         /\ \A v : Observe(r, ReasoningDelta(v)) = r
         /\ \A v \in Pieces : LET q == Observe(r, TextDelta(v)) IN
              /\ q \in Recorders /\ SameStanding(q, r)
              /\ q.text = Append(r.text, v) /\ q.calls = r.calls
         /\ \A call \in CallRecords : LET q == Observe(r, ToolCallEmitted(call)) IN
              /\ q \in Recorders /\ SameStanding(q, r)
              /\ q.text = r.text /\ q.calls = Append(r.calls, call)
         /\ LET q == Observe(r, MessageFinished("stop")) IN
              /\ q \in Recorders /\ q.text = r.text /\ q.calls = r.calls /\ q.parent = r.parent
              /\ q.finished = TRUE /\ q.reason = "stop"
<1>1. ASSUME NEW id \in MessageIds
      PROVE  LET q == Observe(r, BackendMessageId(id)) IN
              /\ q \in Recorders /\ SameStanding(q, r) /\ q.text = r.text /\ q.calls = r.calls
  <2>1. Observe(r, BackendMessageId(id)) = [r EXCEPT !.parent = id]
    BY DEF Observe, BackendMessageId
  <2> QED
    BY <2>1 DEF Recorders, SameStanding
<1>2. ASSUME NEW v PROVE Observe(r, ReasoningDelta(v)) = r
  BY DEF Observe, ReasoningDelta
<1>3. ASSUME NEW v \in Pieces
      PROVE  LET q == Observe(r, TextDelta(v)) IN
              /\ q \in Recorders /\ SameStanding(q, r)
              /\ q.text = Append(r.text, v) /\ q.calls = r.calls
  <2> DEFINE text == Append(r.text, v)
  <2>1. Observe(r, TextDelta(v)) = [r EXCEPT !.text = text]
    BY DEF Observe, TextDelta
  <2>2. text \in Seq(Pieces)
    BY AppendProperties DEF Recorders
  <2> HIDE DEF text
  <2>3. LET q == Observe(r, TextDelta(v)) IN
              /\ q \in Recorders /\ SameStanding(q, r) /\ q.text = text /\ q.calls = r.calls
    BY <2>1, <2>2 DEF Recorders, SameStanding
  <2> QED
    BY <2>3 DEF text
<1>4. ASSUME NEW call \in CallRecords
      PROVE  LET q == Observe(r, ToolCallEmitted(call)) IN
              /\ q \in Recorders /\ SameStanding(q, r)
              /\ q.text = r.text /\ q.calls = Append(r.calls, call)
  <2> DEFINE calls == Append(r.calls, call)
  <2>1. Observe(r, ToolCallEmitted(call)) = [r EXCEPT !.calls = calls]
    BY DEF Observe, ToolCallEmitted
  <2>2. calls \in Seq(CallRecords)
    BY AppendProperties DEF Recorders
  <2> HIDE DEF calls
  <2>3. LET q == Observe(r, ToolCallEmitted(call)) IN
              /\ q \in Recorders /\ SameStanding(q, r) /\ q.text = r.text /\ q.calls = calls
    BY <2>1, <2>2 DEF Recorders, SameStanding
  <2> QED
    BY <2>3 DEF calls
<1>5. LET q == Observe(r, MessageFinished("stop")) IN
              /\ q \in Recorders /\ q.text = r.text /\ q.calls = r.calls /\ q.parent = r.parent
              /\ q.finished = TRUE /\ q.reason = "stop"
  <2>1. Observe(r, MessageFinished("stop")) = [r EXCEPT !.finished = TRUE, !.reason = "stop"]
    BY DEF Observe, MessageFinished
  <2> QED
    BY <2>1 DEF Recorders
<1> QED
  BY <1>1, <1>2, <1>3, <1>4, <1>5

\* No words say nothing.
LEMMA SayingNothing ==
  ASSUME NEW tools
  PROVE  Saying(<<>>, tools) = [words |-> <<>>, called |-> FALSE]
  BY DEF Saying

\* One piece more is a word, the call, or comes after it.
LEMMA SayingMore ==
  ASSUME NEW said \in Seq(Pieces), NEW v \in Pieces, NEW tools \in BOOLEAN
  PROVE  /\ Saying(said, tools).called => Saying(Append(said, v), tools) = Saying(said, tools)
         /\ ~Saying(said, tools).called /\ tools /\ v = Envelope =>
              Saying(Append(said, v), tools) = [words |-> Saying(said, tools).words, called |-> TRUE]
         /\ ~Saying(said, tools).called /\ ~(tools /\ v = Envelope) =>
              Saying(Append(said, v), tools)
                = [words |-> Append(Saying(said, tools).words, v), called |-> FALSE]
         /\ Saying(said, tools).called => tools
         /\ ~Saying(said, tools).called => Saying(said, tools).words = said
<1> DEFINE n     == Len(said)
           more  == Append(said, v)
           old   == {i \in DOMAIN said : said[i] = Envelope}
           new   == {i \in DOMAIN more : more[i] = Envelope}
           a     == CHOOSE i \in old : \A j \in old : i <= j
           b     == CHOOSE i \in new : \A j \in new : i <= j
<1>1. n \in Nat /\ DOMAIN said = 1..n
  BY LenProperties
<1>2. /\ more \in Seq(Pieces) /\ Len(more) = n + 1
      /\ \A i \in 1..n : more[i] = said[i]
      /\ more[n + 1] = v
  BY AppendProperties
<1>3. DOMAIN more = 1..(n + 1)
  BY <1>2, LenProperties
<1>4. Saying(said, tools) = IF tools /\ old # {}
                              THEN [words |-> SubSeq(said, 1, a - 1), called |-> TRUE]
                              ELSE [words |-> said, called |-> FALSE]
  BY Zenon DEF Saying
<1>5. Saying(more, tools) = IF tools /\ new # {}
                              THEN [words |-> SubSeq(more, 1, b - 1), called |-> TRUE]
                              ELSE [words |-> more, called |-> FALSE]
  BY Zenon DEF Saying
<1> HIDE DEF n, more
<1>6. old \subseteq new /\ new \subseteq old \union {n + 1} /\ (n + 1 \in new <=> v = Envelope)
      /\ old \subseteq 1..n
  BY <1>1, <1>2, <1>3
<1> HIDE DEF old, new
<1>7. Saying(said, tools).called <=> tools /\ old # {}
  BY <1>4
<1>8. ASSUME tools, old # {} PROVE Saying(more, tools) = Saying(said, tools)
  <2>a. 1..n \subseteq Nat /\ n + 1 \in Nat
    BY <1>1
  <2>0. old \subseteq Nat /\ new \subseteq Nat /\ new # {}
    BY <1>6, <1>8, <2>a
  <2>1. \E i \in old : \A j \in old : i <= j
    BY <1>8, <2>0, LeastNatural
  <2>2. a \in old /\ \A j \in old : a <= j
    BY <2>1
  <2>3. \E i \in new : \A j \in new : i <= j
    BY <2>0, LeastNatural
  <2>4. b \in new /\ \A j \in new : b <= j
    BY <2>3
  <2> HIDE DEF a, b
  <2>5. a = b
    BY <1>1, <1>6, <2>2, <2>4
  <2>6. SubSeq(more, 1, a - 1) = SubSeq(said, 1, a - 1)
    <3> DEFINE m == a - 1
               s == SubSeq(said, 1, m)
               t == SubSeq(more, 1, m)
    <3>1. m \in 0..n /\ m <= n /\ m <= n + 1 /\ m \in Nat
      BY <1>1, <1>6, <2>2
    <3> HIDE DEF m
    <3>2. s = [i \in 1..m |-> said[i]] /\ t = [i \in 1..m |-> more[i]]
      BY <3>1
    <3>3. \A i \in 1..m : said[i] = more[i]
      BY <1>1, <1>2, <3>1
    <3> QED
      BY <3>2, <3>3 DEF m
  <2> QED
    BY <1>4, <1>5, <1>6, <1>8, <2>5, <2>6
<1>9. ASSUME old = {}, tools, v = Envelope
      PROVE  Saying(more, tools) = [words |-> said, called |-> TRUE]
  <2>1. new = {n + 1}
    BY <1>6, <1>9
  <2>2. b = n + 1
    BY <1>1, <2>1
  <2>3. SubSeq(more, 1, n) = said
    <3>1. SubSeq(more, 1, n) = [i \in 1..n |-> more[i]]
      BY <1>1
    <3>2. said = [i \in 1..n |-> said[i]]
      BY <1>1, LenProperties
    <3> QED
      BY <1>2, <3>1, <3>2
  <2> HIDE DEF b
  <2>4. b - 1 = n
    BY <1>1, <2>2
  <2> QED
    BY <1>5, <1>9, <2>1, <2>3, <2>4
<1>10. ASSUME ~(tools /\ old # {}), ~(tools /\ v = Envelope)
       PROVE  Saying(more, tools) = [words |-> more, called |-> FALSE]
  <2>1. ~(tools /\ new # {})
    BY <1>6, <1>10
  <2> QED
    BY <1>5, <2>1
<1>11. ~(tools /\ old # {}) => Saying(said, tools).words = said
  BY <1>4
<1>12. Saying(said, tools).called => Saying(more, tools) = Saying(said, tools)
  BY <1>7, <1>8
<1>13. ~Saying(said, tools).called /\ tools /\ v = Envelope =>
         Saying(more, tools) = [words |-> Saying(said, tools).words, called |-> TRUE]
  BY <1>7, <1>9, <1>11
<1>14. ~Saying(said, tools).called /\ ~(tools /\ v = Envelope) =>
         Saying(more, tools) = [words |-> more, called |-> FALSE] /\ Saying(said, tools).words = said
  BY <1>7, <1>10, <1>11
<1> QED
  BY <1>7, <1>11, <1>12, <1>13, <1>14 DEF more

\* A call that is new.
LEMMA NewCallSound ==
  ASSUME Free(CallIds, CallIdsInUse)
  PROVE  NewCall \in CallRecords
<1>1. Unused(CallIds, CallIdsInUse) \in CallIds
  BY UnusedIsFree, DialogueAssumption
<1> QED
  BY <1>1 DEF NewCall, CanonicalToolCall, CallRecords

\* A text that is heard is recorded as what has been said and that text.
WordRecorded(q, r, v, later) ==
  /\ q \in Recorders /\ SameStanding(q, r)
  /\ Says(q, later, ToolMode)
  /\ ~ToolMode => q.text = Append(r.text, v) /\ q.calls = <<>>

\* A word that is heard is recorded as it is said.
LEMMA TextRecorded ==
  ASSUME ToolMode => Free(CallIds, CallIdsInUse),
         NEW said \in Seq(Pieces), NEW v \in Pieces,
         Says(turn.recorder, said, ToolMode), ~ToolMode => turn.recorder.calls = <<>>,
         NEW r \in Recorders, r.text = turn.recorder.text, r.calls = turn.recorder.calls
  PROVE  WordRecorded(Recorded(r, Understood(TextDelta(v))), r, v, Append(said, v))
<1> DEFINE e == TextDelta(v)
           q == Recorded(r, Understood(e))
           more == Append(said, v)
<1>1. e.event = "text" /\ e.text = v
  BY DEF TextDelta
<1>2. /\ Recorded(r, <<>>) = r
      /\ \A x : Recorded(r, <<x>>) = Observe(r, x)
  BY ObservedFew
<1>3. ToolMode \in BOOLEAN
  BY DEF ToolMode
<1> DEFINE tools == ToolMode
<1> HIDE DEF q, tools, more
<1>4. /\ Saying(said, tools).called => Saying(more, tools) = Saying(said, tools)
      /\ ~Saying(said, tools).called /\ tools /\ v = Envelope =>
              Saying(more, tools) = [words |-> Saying(said, tools).words, called |-> TRUE]
      /\ ~Saying(said, tools).called /\ ~(tools /\ v = Envelope) =>
              Saying(more, tools)
                = [words |-> Append(Saying(said, tools).words, v), called |-> FALSE]
      /\ Saying(said, tools).called => tools
  BY <1>3, SayingMore DEF tools, more
<1>5. r.text = Saying(said, tools).words /\ (r.calls # <<>> <=> Saying(said, tools).called)
      /\ (~tools => r.calls = <<>>)
  BY DEF Says, tools
<1>6. /\ q \in Recorders /\ SameStanding(q, r)
      /\ Says(q, more, tools)
      /\ ~tools => q.text = Append(r.text, v) /\ q.calls = <<>>
  <2>1. CASE r.calls # <<>>
    <3>1. Understood(e) = <<>>
      BY <1>1, <1>5, <2>1, UnderstoodEvent, Zenon DEF tools
    <3>2. q = r
      BY <1>2, <3>1, Zenon DEF q
    <3> QED
      BY <1>4, <1>5, <2>1, <3>2 DEF Says, SameStanding
  <2>2. CASE r.calls = <<>> /\ tools /\ v = Envelope
    <3>1. Understood(e) = <<ToolCallEmitted(NewCall)>>
      BY <1>1, <2>2, UnderstoodEvent, Zenon DEF tools
    <3>2. q = Observe(r, ToolCallEmitted(NewCall))
      BY <1>2, <3>1, Zenon DEF q
    <3>3. NewCall \in CallRecords
      BY <2>2, NewCallSound DEF tools
    <3>4. /\ q \in Recorders /\ SameStanding(q, r)
          /\ q.text = r.text /\ q.calls = Append(r.calls, NewCall)
      BY <3>2, <3>3, ObserveEvent, Zenon
    <3>5. q.calls # <<>>
      <4>1. r.calls \in Seq(CallRecords)
        BY DEF Recorders
      <4>2. Len(q.calls) = Len(r.calls) + 1 /\ Len(r.calls) \in Nat
        BY <3>3, <3>4, <4>1, AppendProperties, LenProperties
      <4>3. Len(<<>>) = 0
        OBVIOUS
      <4> QED
        BY <4>2, <4>3
    <3> DEFINE new  == Saying(more, tools)
               text == Saying(said, tools).words
    <3>6. new = [words |-> text, called |-> TRUE]
      BY <1>4, <1>5, <2>2, Zenon
    <3>7. r.text = text
      BY <1>5
    <3> HIDE DEF text
    <3>8. new.words = text /\ new.called = TRUE
      BY <3>6
    <3>9. q.text = new.words /\ (q.calls # <<>> <=> new.called)
      BY <3>4, <3>5, <3>7, <3>8
    <3>10. Says(q, more, tools)
      BY <3>9, Zenon DEF Says
    <3> QED
      BY <2>2, <3>4, <3>10
  <2>3. CASE r.calls = <<>> /\ ~(tools /\ v = Envelope)
    <3>1. Understood(e) = <<e>>
      BY <1>1, <2>3, UnderstoodEvent, Zenon DEF tools
    <3>2. q = Observe(r, TextDelta(v))
      BY <1>2, <3>1, Zenon DEF q
    <3>4. /\ q \in Recorders /\ SameStanding(q, r)
          /\ q.text = Append(r.text, v) /\ q.calls = r.calls
      BY <3>2, ObserveEvent, Zenon
    <3> DEFINE old  == Saying(said, tools)
               new  == Saying(more, tools)
               text == Append(r.text, v)
    <3>5. new = [words |-> text, called |-> FALSE]
      BY <1>4, <1>5, <2>3, Zenon
    <3> HIDE DEF text
    <3>6. new.words = text /\ new.called = FALSE
      BY <3>5
    <3>7. q.text = new.words /\ (q.calls # <<>> <=> new.called)
      BY <2>3, <3>4, <3>6 DEF text
    <3>8. Says(q, more, tools)
      BY <3>7, Zenon DEF Says
    <3> QED
      BY <2>3, <3>4, <3>8
  <2> QED
    BY <2>1, <2>2, <2>3
<1> QED
  BY <1>6, Zenon DEF q, tools, more, WordRecorded

-----------------------------------------------------------------------------
(* What is shown is what is recorded.                                      *)

\* What the client has before the end.
Showing(text, calls, role) ==
  [roles |-> IF role THEN 1 ELSE 0, content |-> text, calls |-> calls, finish |-> Null]

\* The client's message with the state of the renderer.
Sight(text, calls, role, call) ==
  [message |-> Showing(text, calls, role), renderer |-> [role |-> role, call |-> call]]

\* Whether a chunk has the role in it.
First(role) == ~role

\* A chunk by what it carries, when the role was sent or was not.
Carrying(chunk, role, content, opener, arguments, finish) ==
  /\ chunk.delta.role = First(role)
  /\ chunk.delta.content = content
  /\ chunk.delta.opener = opener
  /\ chunk.delta.arguments = arguments
  /\ chunk.finish = finish

\* What the client has at the end.
Whole(text, calls, finish) ==
  [roles |-> 1, content |-> text, calls |-> calls, finish |-> finish]

\* A chunk makes one message of the client's another.
Becomes(message, chunk, later) == Assemble(message, chunk) = later

\* A chunk without a call adds its words, or ends the message.
LEMMA ChunkFields ==
  ASSUME NEW text \in Seq(Pieces), NEW calls \in Seq(CallRecords), NEW role \in BOOLEAN,
         NEW chunk,
         chunk.delta.role = First(role),
         chunk.delta.opener = <<>>, chunk.delta.arguments = <<>>
  PROVE  /\ chunk.delta.content = <<>> =>
              Becomes(Showing(text, calls, role), chunk, Whole(text, calls, chunk.finish))
         /\ \A v : chunk.delta.content = <<v>> /\ chunk.finish = Null =>
              Becomes(Showing(text, calls, role), chunk, Showing(Append(text, v), calls, TRUE))
<1> DEFINE m == Showing(text, calls, role)
           d == chunk.delta
           content == m.content \o d.content
           finish  == IF chunk.finish = Null THEN m.finish ELSE chunk.finish
<1>1. m.roles = (IF role THEN 1 ELSE 0) /\ m.content = text /\ m.calls = calls /\ m.finish = Null
  BY DEF Showing
<1> HIDE DEF m
<1>2. m.roles + (IF chunk.delta.role THEN 1 ELSE 0) = 1
  <2>1. CASE role
    <3>1. m.roles = 1 /\ ~chunk.delta.role
      BY <1>1, <2>1 DEF First
    <3> QED
      BY <3>1
  <2>2. CASE ~role
    <3>1. m.roles = 0 /\ chunk.delta.role
      BY <1>1, <2>2 DEF First
    <3> QED
      BY <3>1
  <2> QED
    BY <2>1, <2>2
<1>3. (CASE chunk.delta.opener # <<>> ->
              Append(m.calls, [Head(chunk.delta.opener) EXCEPT !.args = Null])
         [] chunk.delta.opener = <<>> /\ chunk.delta.arguments # <<>> ->
              [m.calls EXCEPT ![Len(m.calls)].args = Head(chunk.delta.arguments)]
         [] OTHER -> m.calls) = calls
  BY <1>1, Zenon
<1>4. finish = chunk.finish
  BY <1>1
<1>5. Assemble(m, chunk) = [roles |-> 1, content |-> content, calls |-> calls, finish |-> finish]
  BY <1>2, <1>3, Zenon DEF Assemble
<1>6. ASSUME d.content = <<>>
      PROVE  Assemble(m, chunk) = [roles |-> 1, content |-> text, calls |-> calls,
                                   finish |-> chunk.finish]
  <2>1. content = text
    BY <1>1, <1>6, ConcatEmptySeq
  <2> QED
    BY <1>4, <1>5, <2>1, Zenon
<1>7. ASSUME NEW v, d.content = <<v>>, chunk.finish = Null
      PROVE  Assemble(m, chunk) = Showing(Append(text, v), calls, TRUE)
  <2>1. text \o <<v>> = Append(text, v)
    <3>1. \A V : \A s \in Seq(V) : \A x \in V : Append(s, x) = s \o <<x>>
      BY AppendIsConcat
    <3>2. text \in Seq(Pieces \union {v})
      BY SeqMonotonic
    <3>3. v \in Pieces \union {v}
      OBVIOUS
    <3> QED
      BY <3>1, <3>2, <3>3, Zenon
  <2> DEFINE more == Append(text, v)
  <2>2. content = more
    BY <1>1, <1>7, <2>1, Zenon
  <2> HIDE DEF more, content, finish
  <2>3. Assemble(m, chunk) = [roles |-> 1, content |-> more, calls |-> calls, finish |-> Null]
    BY <1>4, <1>5, <1>7, <2>2
  <2>4. Showing(more, calls, TRUE) = [roles |-> 1, content |-> more, calls |-> calls, finish |-> Null]
    BY DEF Showing
  <2>5. Assemble(m, chunk) = Showing(more, calls, TRUE)
    BY <2>3, <2>4
  <2> QED
    BY <2>5 DEF more
<1> QED
  BY <1>6, <1>7, Zenon DEF m, Becomes, Whole

\* A chunk at the client.
LEMMA WordShown ==
  ASSUME NEW text \in Seq(Pieces), NEW calls \in Seq(CallRecords), NEW role \in BOOLEAN,
         NEW chunk, NEW v, Carrying(chunk, role, <<v>>, <<>>, <<>>, Null)
  PROVE  Becomes(Showing(text, calls, role), chunk, Showing(Append(text, v), calls, TRUE))
<1>1. /\ chunk.delta.role = First(role) /\ chunk.delta.content = <<v>>
      /\ chunk.delta.opener = <<>> /\ chunk.delta.arguments = <<>> /\ chunk.finish = Null
  BY DEF Carrying
<1> QED
  BY <1>1, ChunkFields, Zenon

\* The last chunk ends it.
LEMMA LastShown ==
  ASSUME NEW text \in Seq(Pieces), NEW calls \in Seq(CallRecords), NEW role \in BOOLEAN,
         NEW chunk, NEW finish, Carrying(chunk, role, <<>>, <<>>, <<>>, finish)
  PROVE  Becomes(Showing(text, calls, role), chunk, Whole(text, calls, finish))
<1>1. /\ chunk.delta.role = First(role) /\ chunk.delta.content = <<>>
      /\ chunk.delta.opener = <<>> /\ chunk.delta.arguments = <<>> /\ chunk.finish = finish
  BY DEF Carrying
<1> QED
  BY <1>1, ChunkFields, Zenon

\* The two chunks of a call.
LEMMA CallFields ==
  ASSUME NEW text \in Seq(Pieces), NEW calls \in Seq(CallRecords), NEW role \in BOOLEAN,
         NEW call \in CallRecords, NEW opener, NEW rest,
         opener.delta.role = First(role), opener.delta.content = <<>>, opener.finish = Null,
         opener.delta.opener = <<call>>,
         rest.delta.role = FALSE, rest.delta.content = <<>>, rest.finish = Null,
         rest.delta.opener = <<>>, rest.delta.arguments = <<call.args>>
  PROVE  Becomes(Assemble(Showing(text, calls, role), opener), rest,
                 Showing(text, Append(calls, call), TRUE))
<1> DEFINE m     == Showing(text, calls, role)
           bare  == [call EXCEPT !.args = Null]
           begun == Append(calls, bare)
           n     == Assemble(m, opener)
           whole == [begun EXCEPT ![Len(begun)].args = call.args]
<1>1. m.roles = (IF role THEN 1 ELSE 0) /\ m.content = text /\ m.calls = calls /\ m.finish = Null
  BY DEF Showing
<1>2. n = [roles |-> 1, content |-> text, calls |-> begun, finish |-> Null]
  <2> HIDE DEF m, begun, bare
  <2>1. m.roles + (IF opener.delta.role THEN 1 ELSE 0) = 1
    <3>1. CASE role
      <4>1. m.roles = 1 /\ ~opener.delta.role
        BY <1>1, <3>1 DEF First
      <4> QED
        BY <4>1
    <3>2. CASE ~role
      <4>1. m.roles = 0 /\ opener.delta.role
        BY <1>1, <3>2 DEF First
      <4> QED
        BY <4>1
    <3> QED
      BY <3>1, <3>2
  <2>2. m.content \o opener.delta.content = text
    BY <1>1, ConcatEmptySeq
  <2>3. <<call>> # <<>> /\ Head(<<call>>) = call
    OBVIOUS
  <2>4. (CASE opener.delta.opener # <<>> ->
                Append(m.calls, [Head(opener.delta.opener) EXCEPT !.args = Null])
           [] opener.delta.opener = <<>> /\ opener.delta.arguments # <<>> ->
                [m.calls EXCEPT ![Len(m.calls)].args = Head(opener.delta.arguments)]
           [] OTHER -> m.calls) = begun
    BY <1>1, <2>3, Zenon DEF begun, bare
  <2> QED
    BY <1>1, <2>1, <2>2, <2>4, Zenon DEF Assemble
<1>3. n.roles = 1 /\ n.content = text /\ n.calls = begun /\ n.finish = Null
  <2> HIDE DEF begun
  <2> QED
    BY <1>2
<1> HIDE DEF n
<1>4. Assemble(n, rest) = [roles |-> 1, content |-> text, calls |-> whole, finish |-> Null]
  <2> HIDE DEF begun
  <2>1. n.roles + (IF rest.delta.role THEN 1 ELSE 0) = 1
    BY <1>3
  <2>2. n.content \o rest.delta.content = text
    BY <1>3, ConcatEmptySeq
  <2>3. <<call.args>> # <<>> /\ Head(<<call.args>>) = call.args
    OBVIOUS
  <2>4. (CASE rest.delta.opener # <<>> ->
                Append(n.calls, [Head(rest.delta.opener) EXCEPT !.args = Null])
           [] rest.delta.opener = <<>> /\ rest.delta.arguments # <<>> ->
                [n.calls EXCEPT ![Len(n.calls)].args = Head(rest.delta.arguments)]
           [] OTHER -> n.calls) = whole
    BY <1>3, <2>3, Zenon DEF whole
  <2> HIDE DEF whole
  <2> QED
    BY <1>3, <2>1, <2>2, <2>4, Zenon DEF Assemble
<1>5. whole = Append(calls, call)
  <2> DEFINE k == Len(calls) + 1
             V == CallRecords \union {bare}
  <2>1. calls \in Seq(V) /\ bare \in V /\ call \in V
    BY SeqMonotonic
  <2>2. /\ bare.id = call.id /\ bare.name = call.name
        /\ [bare EXCEPT !.args = call.args] = call
    BY DEF CallRecords
  <2> HIDE DEF bare, V
  <2>3. /\ begun \in Seq(V) /\ Len(begun) = k /\ begun[k] = bare
        /\ \A i \in 1..Len(calls) : begun[i] = calls[i]
    BY <2>1, AppendProperties
  <2> HIDE DEF begun
  <2>4. k \in 1..k /\ Len(calls) \in Nat /\ Len(begun) \in Nat
    BY LenProperties
  <2>5. whole = [begun EXCEPT ![k] = call]
    <3>1. whole = [begun EXCEPT ![Len(begun)] = [begun[Len(begun)] EXCEPT !.args = call.args]]
      BY Zenon DEF whole
    <3> HIDE DEF whole, k
    <3> QED
      BY <2>2, <2>3, <3>1
  <2> DEFINE other == Append(calls, call)
  <2>6. /\ other \in Seq(V) /\ Len(other) = k /\ other[k] = call
        /\ \A i \in 1..Len(calls) : other[i] = calls[i]
    BY <2>1, AppendProperties
  <2>7. whole \in Seq(V) /\ Len(whole) = k /\ whole[k] = call
        /\ \A i \in 1..Len(calls) : whole[i] = begun[i]
    <3> HIDE DEF whole
    <3>1. whole \in Seq(V) /\ Len(whole) = k
      BY <2>1, <2>3, <2>4, <2>5, ExceptSeq
    <3>2. DOMAIN begun = 1..k
      BY <2>3, LenProperties
    <3> QED
      BY <2>4, <2>5, <3>1, <3>2
  <2> HIDE DEF whole, other
  <2>8. \A i \in 1..k : whole[i] = other[i]
    BY <2>3, <2>4, <2>6, <2>7
  <2>9. whole = other
    BY <2>6, <2>7, <2>8, SeqEqual
  <2> QED
    BY <2>9 DEF other
<1> DEFINE all == Append(calls, call)
<1>6. Assemble(n, rest) = [roles |-> 1, content |-> text, calls |-> all, finish |-> Null]
  BY <1>4, <1>5, Zenon
<1> HIDE DEF all
<1>7. Showing(text, all, TRUE) = [roles |-> 1, content |-> text, calls |-> all, finish |-> Null]
  BY DEF Showing
<1>8. Assemble(n, rest) = Showing(text, all, TRUE)
  BY <1>6, <1>7
<1> QED
  BY <1>8, Zenon DEF n, m, all, Becomes

\* The two chunks of a call add it.
LEMMA CallShown ==
  ASSUME NEW text \in Seq(Pieces), NEW calls \in Seq(CallRecords), NEW role \in BOOLEAN,
         NEW call \in CallRecords, NEW opener, NEW rest,
         Carrying(opener, role, <<>>, <<call>>, <<>>, Null),
         Carrying(rest, TRUE, <<>>, <<>>, <<call.args>>, Null)
  PROVE  Becomes(Assemble(Showing(text, calls, role), opener), rest,
                 Showing(text, Append(calls, call), TRUE))
<1>1. /\ opener.delta.role = First(role) /\ opener.delta.content = <<>>
      /\ opener.delta.opener = <<call>> /\ opener.finish = Null
  BY DEF Carrying
<1>2. /\ rest.delta.role = FALSE /\ rest.delta.content = <<>> /\ rest.delta.opener = <<>>
      /\ rest.delta.arguments = <<call.args>> /\ rest.finish = Null
  BY DEF Carrying, First
<1> QED
  BY <1>1, <1>2, CallFields, Zenon

\* Deltas with one field.
Delta4(role, content, opener, arguments) ==
  [role |-> role, content |-> content, opener |-> opener, arguments |-> arguments]

\* Each of them, field by field.
LEMMA NoDeltaFields ==
  ASSUME NEW c
  PROVE  /\ [NoDelta EXCEPT !.content = c] = Delta4(FALSE, c, <<>>, <<>>)
         /\ [NoDelta EXCEPT !.opener = c] = Delta4(FALSE, <<>>, c, <<>>)
         /\ [NoDelta EXCEPT !.arguments = c] = Delta4(FALSE, <<>>, <<>>, c)
         /\ NoDelta = Delta4(FALSE, <<>>, <<>>, <<>>)
         /\ [NoDelta EXCEPT !.role = TRUE] = Delta4(TRUE, <<>>, <<>>, <<>>)
<1> DEFINE d == NoDelta
           V == {<<>>, c}
           D == [role : BOOLEAN, content : V, opener : V, arguments : V]
<1>0. <<>> \in V /\ c \in V
  OBVIOUS
<1> HIDE DEF V
<1>1. \A e \in D : e = Delta4(e.role, e.content, e.opener, e.arguments)
  BY DEF Delta4
<1>2. d \in D /\ d.role = FALSE /\ d.content = <<>> /\ d.opener = <<>> /\ d.arguments = <<>>
  BY <1>0 DEF NoDelta
<1>3. d = Delta4(FALSE, <<>>, <<>>, <<>>)
  BY DEF NoDelta, Delta4
<1> HIDE DEF d
<1>4. [d EXCEPT !.content = c] = Delta4(FALSE, c, <<>>, <<>>)
  <2> DEFINE e == [d EXCEPT !.content = c]
  <2>1. e \in D /\ e.role = FALSE /\ e.content = c /\ e.opener = <<>> /\ e.arguments = <<>>
    BY <1>0, <1>2
  <2> HIDE DEF e
  <2>2. e = Delta4(FALSE, c, <<>>, <<>>)
    BY <1>1, <2>1
  <2> QED
    BY <2>2 DEF e
<1>5. [d EXCEPT !.opener = c] = Delta4(FALSE, <<>>, c, <<>>)
  <2> DEFINE e == [d EXCEPT !.opener = c]
  <2>1. e \in D /\ e.role = FALSE /\ e.content = <<>> /\ e.opener = c /\ e.arguments = <<>>
    BY <1>0, <1>2
  <2> HIDE DEF e
  <2>2. e = Delta4(FALSE, <<>>, c, <<>>)
    BY <1>1, <2>1
  <2> QED
    BY <2>2 DEF e
<1>6. [d EXCEPT !.arguments = c] = Delta4(FALSE, <<>>, <<>>, c)
  <2> DEFINE e == [d EXCEPT !.arguments = c]
  <2>1. e \in D /\ e.role = FALSE /\ e.content = <<>> /\ e.opener = <<>> /\ e.arguments = c
    BY <1>0, <1>2
  <2> HIDE DEF e
  <2>2. e = Delta4(FALSE, <<>>, <<>>, c)
    BY <1>1, <2>1
  <2> QED
    BY <2>2 DEF e
<1>7. [d EXCEPT !.role = TRUE] = Delta4(TRUE, <<>>, <<>>, <<>>)
  <2> DEFINE e == [d EXCEPT !.role = TRUE]
  <2>1. e \in D /\ e.role = TRUE /\ e.content = <<>> /\ e.opener = <<>> /\ e.arguments = <<>>
    BY <1>0, <1>2
  <2> HIDE DEF e
  <2>2. e = Delta4(TRUE, <<>>, <<>>, <<>>)
    BY <1>1, <2>1
  <2> QED
    BY <2>2 DEF e
<1> QED
  BY <1>3, <1>4, <1>5, <1>6, <1>7, Zenon DEF d

\* A delta with the role in front, when it was not sent.
LEMMA RoleFirst ==
  ASSUME NEW role \in BOOLEAN, NEW r, r.role = role,
         NEW content, NEW opener, NEW arguments, NEW finish
  PROVE  Carrying(Chunk(WithRole(r, Delta4(FALSE, content, opener, arguments)), finish),
                  role, content, opener, arguments, finish)
<1> DEFINE delta == Delta4(FALSE, content, opener, arguments)
<1> DEFINE d == WithRole(r, delta)
<1>1. d = IF role THEN delta ELSE [delta EXCEPT !.role = TRUE]
  BY DEF WithRole
<1>2. d = Delta4(First(role), content, opener, arguments)
  <2>1. CASE role
    <3>1. First(role) = FALSE
      BY <2>1 DEF First
    <3> QED
      BY <1>1, <2>1, <3>1, Zenon
  <2>2. CASE ~role
    <3>1. First(role) = TRUE
      BY <2>2 DEF First
    <3>2. [delta EXCEPT !.role = TRUE] = Delta4(TRUE, content, opener, arguments)
      <4> DEFINE e == [delta EXCEPT !.role = TRUE]
                 D == [role : BOOLEAN, content : {content}, opener : {opener},
                       arguments : {arguments}]
      <4>1. \A f \in D : f = Delta4(f.role, f.content, f.opener, f.arguments)
        BY DEF Delta4
      <4>2. delta \in D
        BY DEF Delta4
      <4>3. e \in D /\ e.role = TRUE
        BY <4>2
      <4> HIDE DEF e
      <4>4. e.content = content /\ e.opener = opener /\ e.arguments = arguments
        BY <4>3
      <4>5. e = Delta4(TRUE, content, opener, arguments)
        BY <4>1, <4>3, <4>4
      <4> QED
        BY <4>5 DEF e
    <3> QED
      BY <1>1, <2>2, <3>1, <3>2, Zenon
  <2> QED
    BY <2>1, <2>2
<1> HIDE DEF d
<1>3. Chunk(d, finish).delta = d /\ Chunk(d, finish).finish = finish
  BY DEF Chunk
<1>4. d.role = First(role) /\ d.content = content /\ d.opener = opener /\ d.arguments = arguments
  <2> DEFINE e == Delta4(First(role), content, opener, arguments)
  <2>1. e.role = First(role) /\ e.content = content /\ e.opener = opener /\ e.arguments = arguments
    BY DEF Delta4
  <2> QED
    BY <1>2, <2>1
<1> QED
  BY <1>3, <1>4 DEF d, Carrying

\* An event, and some, at the renderer and the client.
StepLeads(message, renderer, event, later, rendered) ==
  DeliveredStep([message |-> message, renderer |-> renderer], event)
    = [message |-> later, renderer |-> rendered]

\* A line's events do.
Leads(message, renderer, events, later, rendered) ==
  Delivered(message, renderer, events) = [message |-> later, renderer |-> rendered]

\* Each kind of event at the renderer and the client.
LEMMA QuietShown ==
  ASSUME NEW message, NEW role \in BOOLEAN, NEW call \in BOOLEAN, NEW event,
         event.event \in {"id", "reasoning"}
  PROVE  StepLeads(message, [role |-> role, call |-> call], event,
                   message, [role |-> role, call |-> call])
<1> DEFINE r == [role |-> role, call |-> call]
           s == [message |-> message, renderer |-> r]
<1>1. Render(r, event) = <<>>
  BY DEF Render
<1>2. Rendered(r, event) = r
  <2>1. /\ (role \/ event.event \in {"started", "text", "call", "finished"}) = role
        /\ (call \/ event.event = "call") = call
    OBVIOUS
  <2> QED
    BY <2>1 DEF Rendered
<1> HIDE DEF r
<1>3. s.message = message /\ s.renderer = r
  OBVIOUS
<1> HIDE DEF s
<1>4. Gathered(message, <<>>) = message
  BY AssembledFew
<1>5. DeliveredStep(s, event) = [message |-> message, renderer |-> r]
  BY <1>1, <1>2, <1>3, <1>4, Zenon DEF DeliveredStep
<1> QED
  BY <1>5, Zenon DEF s, r, StepLeads

\* A word at the renderer is a word at the client,
LEMMA TextShown ==
  ASSUME NEW text \in Seq(Pieces), NEW calls \in Seq(CallRecords),
         NEW role \in BOOLEAN, NEW call \in BOOLEAN, NEW v
  PROVE  DeliveredStep(Sight(text, calls, role, call), TextDelta(v))
           = Sight(Append(text, v), calls, TRUE, call)
<1> DEFINE r == [role |-> role, call |-> call]
           m == Showing(text, calls, role)
           n == Showing(Append(text, v), calls, TRUE)
           e == TextDelta(v)
           d == [NoDelta EXCEPT !.content = <<v>>]
           c == Chunk(WithRole(r, d), Null)
<1>1. e.event = "text" /\ e.text = v
  BY DEF TextDelta
<1>2. Render(r, e) = <<c>>
  <2> HIDE DEF e, r
  <2> QED
    BY <1>1, Zenon DEF Render
<1>3. Rendered(r, e) = [role |-> TRUE, call |-> call]
  BY <1>1 DEF Rendered
<1>4. d = Delta4(FALSE, <<v>>, <<>>, <<>>)
  BY NoDeltaFields, Zenon
<1> HIDE DEF d, e, c
<1>5. Carrying(c, role, <<v>>, <<>>, <<>>, Null)
  <2>1. r.role = role
    BY DEF r
  <2> HIDE DEF r
  <2> QED
    BY <1>4, <2>1, RoleFirst, Zenon DEF c
<1> HIDE DEF r
<1>6. Assemble(m, c) = n
  <2>1. Becomes(m, c, n)
    BY <1>5, WordShown, Zenon
  <2> QED
    BY <2>1 DEF Becomes
<1>7. Gathered(m, <<c>>) = n
  <2>1. \A x : Gathered(m, <<x>>) = Assemble(m, x)
    BY AssembledFew
  <2> QED
    BY <1>6, <2>1, Zenon
<1> DEFINE s == [message |-> m, renderer |-> r]
<1> HIDE DEF m, n
<1>8. s.message = m /\ s.renderer = r
  OBVIOUS
<1> HIDE DEF s
<1>9. DeliveredStep(s, e) = [message |-> n, renderer |-> [role |-> TRUE, call |-> call]]
  BY <1>2, <1>3, <1>7, <1>8, Zenon DEF DeliveredStep
<1> QED
  BY <1>9, Zenon DEF Sight, s, m, n, r, e

\* and a call is a call.
LEMMA CallEventShown ==
  ASSUME NEW text \in Seq(Pieces), NEW calls \in Seq(CallRecords),
         NEW role \in BOOLEAN, NEW called \in BOOLEAN, NEW call \in CallRecords
  PROVE  DeliveredStep(Sight(text, calls, role, called), ToolCallEmitted(call))
           = Sight(text, Append(calls, call), TRUE, TRUE)
<1> DEFINE r == [role |-> role, call |-> called]
           m == Showing(text, calls, role)
           n == Showing(text, Append(calls, call), TRUE)
           e == ToolCallEmitted(call)
           d == [NoDelta EXCEPT !.opener = <<call>>]
           a == [NoDelta EXCEPT !.arguments = <<call.args>>]
           c == Chunk(WithRole(r, d), Null)
           k == Chunk(a, Null)
<1>1. e.event = "call" /\ e.call = call
  BY DEF ToolCallEmitted
<1>2. Render(r, e) = <<c, k>>
  <2> HIDE DEF e, r
  <2> QED
    BY <1>1, Zenon DEF Render
<1>3. Rendered(r, e) = [role |-> TRUE, call |-> TRUE]
  BY <1>1 DEF Rendered
<1>4. d = Delta4(FALSE, <<>>, <<call>>, <<>>)
  BY NoDeltaFields, Zenon
<1>5. a.role = FALSE /\ a.content = <<>> /\ a.opener = <<>> /\ a.arguments = <<call.args>>
  <2>1. a = Delta4(FALSE, <<>>, <<>>, <<call.args>>)
    BY NoDeltaFields, Zenon
  <2> HIDE DEF a
  <2> QED
    BY <2>1 DEF Delta4
<1> HIDE DEF d, a, e, c
<1>6. Carrying(c, role, <<>>, <<call>>, <<>>, Null)
  <2>1. r.role = role
    BY DEF r
  <2> HIDE DEF r
  <2> QED
    BY <1>4, <2>1, RoleFirst, Zenon DEF c
<1>7. Carrying(k, TRUE, <<>>, <<>>, <<call.args>>, Null)
  <2>1. k.delta = a /\ k.finish = Null
    BY DEF Chunk
  <2> HIDE DEF k
  <2> QED
    BY <1>5, <2>1 DEF Carrying, First
<1> HIDE DEF k, r
<1>8. Assemble(Assemble(m, c), k) = n
  <2>1. Becomes(Assemble(m, c), k, n)
    BY <1>6, <1>7, CallShown, Zenon
  <2> QED
    BY <2>1 DEF Becomes
<1>9. Gathered(m, <<c, k>>) = n
  <2>1. \A x, y : Gathered(m, <<x, y>>) = Assemble(Assemble(m, x), y)
    BY AssembledFew
  <2> QED
    BY <1>8, <2>1, Zenon
<1> DEFINE s == [message |-> m, renderer |-> r]
<1> HIDE DEF m, n
<1>10. s.message = m /\ s.renderer = r
  OBVIOUS
<1> HIDE DEF s
<1>11. DeliveredStep(s, e) = [message |-> n, renderer |-> [role |-> TRUE, call |-> TRUE]]
  BY <1>2, <1>3, <1>9, <1>10, Zenon DEF DeliveredStep
<1> QED
  BY <1>11, Zenon DEF Sight, s, m, n, r, e

\* The start, of a stream that was buffered.
LEMMA StartShown ==
  DeliveredStep([message |-> NothingYet, renderer |-> NewRenderer], MessageStarted)
    = Sight(<<>>, <<>>, TRUE, FALSE)
<1> DEFINE r == NewRenderer
           m == NothingYet
           n == Showing(<<>>, <<>>, TRUE)
           e == MessageStarted
           d == [NoDelta EXCEPT !.role = TRUE]
           c == Chunk(d, Null)
<1>1. e.event = "started"
  BY DEF MessageStarted
<1>2. Render(r, e) = <<c>>
  <2> HIDE DEF e, r
  <2> QED
    BY <1>1, Zenon DEF Render
<1>3. Rendered(r, e) = [role |-> TRUE, call |-> FALSE]
  BY <1>1 DEF Rendered, NewRenderer
<1>4. d.role = TRUE /\ d.content = <<>> /\ d.opener = <<>> /\ d.arguments = <<>>
  <2>1. d = Delta4(TRUE, <<>>, <<>>, <<>>)
    BY NoDeltaFields, Zenon
  <2> HIDE DEF d
  <2> QED
    BY <2>1 DEF Delta4
<1>5. c.delta = d /\ c.finish = Null
  BY DEF Chunk
<1>6. m = Showing(<<>>, <<>>, FALSE)
  BY DEF NothingYet, Showing
<1> HIDE DEF c, r, e, d
<1>7. Assemble(m, c) = n
  <2>1. <<>> \in Seq(Pieces) /\ <<>> \in Seq(CallRecords) /\ FALSE \in BOOLEAN
    OBVIOUS
  <2>2. Carrying(c, FALSE, <<>>, <<>>, <<>>, Null)
    BY <1>4, <1>5 DEF Carrying, First
  <2>3. Becomes(Showing(<<>>, <<>>, FALSE), c, Whole(<<>>, <<>>, Null))
    BY <2>1, <2>2, LastShown
  <2>4. Assemble(m, c) = Whole(<<>>, <<>>, Null)
    BY <1>6, <2>3, Zenon DEF Becomes
  <2> QED
    BY <2>4 DEF Whole, Showing
<1>8. Gathered(m, <<c>>) = n
  <2>1. \A x : Gathered(m, <<x>>) = Assemble(m, x)
    BY AssembledFew
  <2> QED
    BY <1>7, <2>1, Zenon
<1> DEFINE s == [message |-> m, renderer |-> r]
<1> HIDE DEF m, n
<1>9. s.message = m /\ s.renderer = r
  OBVIOUS
<1> HIDE DEF s
<1>10. DeliveredStep(s, e) = [message |-> n, renderer |-> [role |-> TRUE, call |-> FALSE]]
  BY <1>2, <1>3, <1>8, <1>9, Zenon DEF DeliveredStep
<1> QED
  BY <1>10, Zenon DEF Sight, s, m, n, r, e

\* The end.
LEMMA EndShown ==
  ASSUME NEW text \in Seq(Pieces), NEW calls \in Seq(CallRecords),
         NEW role \in BOOLEAN, NEW call \in BOOLEAN
  PROVE  DeliveredStep(Sight(text, calls, role, call), MessageFinished("stop")).message
           = Whole(text, calls, IF call THEN "tool_calls" ELSE "stop")
<1> DEFINE r == [role |-> role, call |-> call]
           m == Showing(text, calls, role)
           finish == IF call THEN "tool_calls" ELSE "stop"
           n == Whole(text, calls, finish)
           e == MessageFinished("stop")
           d == NoDelta
           c == Chunk(WithRole(r, d), finish)
<1>1. e.event = "finished" /\ e.reason = "stop"
  BY DEF MessageFinished
<1>2. TerminalReason(r, e.reason) = finish
  BY <1>1 DEF TerminalReason, FinishReason
<1>3. Render(r, e) = <<c>>
  <2> HIDE DEF e, r, finish
  <2> QED
    BY <1>1, <1>2, Zenon DEF Render
<1>4. d = Delta4(FALSE, <<>>, <<>>, <<>>)
  BY NoDeltaFields, Zenon
<1> HIDE DEF d, e, finish, c
<1>5. Carrying(c, role, <<>>, <<>>, <<>>, finish)
  <2>1. r.role = role
    BY DEF r
  <2> HIDE DEF r
  <2> QED
    BY <1>4, <2>1, RoleFirst, Zenon DEF c
<1> HIDE DEF r
<1>6. Assemble(m, c) = n
  <2>1. Becomes(m, c, n)
    BY <1>5, LastShown, Zenon
  <2> QED
    BY <2>1 DEF Becomes
<1>7. Gathered(m, <<c>>) = n
  <2>1. \A x : Gathered(m, <<x>>) = Assemble(m, x)
    BY AssembledFew
  <2> QED
    BY <1>6, <2>1, Zenon
<1> DEFINE s == [message |-> m, renderer |-> r]
<1> HIDE DEF m, n
<1>8. s.message = m /\ s.renderer = r
  OBVIOUS
<1> HIDE DEF s
<1>9. DeliveredStep(s, e) = [message |-> n, renderer |-> Rendered(r, e)]
  BY <1>3, <1>7, <1>8, Zenon DEF DeliveredStep
<1>10. DeliveredStep(s, e).message = n
  BY <1>9
<1> QED
  BY <1>10, Zenon DEF Sight, s, m, n, r, e, finish

-----------------------------------------------------------------------------
(* What a line makes of the recorder and of the client's message.          *)

\* The states of the renderer.
Renderers == [role : BOOLEAN, call : BOOLEAN]

\* Two events lead where the first and then the second lead.
LEMMA LeadsFew ==
  ASSUME NEW m, NEW r
  PROVE  /\ Leads(m, r, <<>>, m, r)
         /\ \A e, n, s : StepLeads(m, r, e, n, s) => Leads(m, r, <<e>>, n, s)
         /\ \A e, n, s, f, k, t : StepLeads(m, r, e, n, s) /\ StepLeads(n, s, f, k, t) =>
                                   Leads(m, r, <<e, f>>, k, t)
<1>1. /\ Delivered(m, r, <<>>) = [message |-> m, renderer |-> r]
      /\ \A e : Delivered(m, r, <<e>>) = DeliveredStep([message |-> m, renderer |-> r], e)
      /\ \A e, f : Delivered(m, r, <<e, f>>)
                     = DeliveredStep(DeliveredStep([message |-> m, renderer |-> r], e), f)
  BY DeliveredFew
<1>2. Leads(m, r, <<>>, m, r)
  BY <1>1, Zenon DEF Leads
<1>3. ASSUME NEW e, NEW n, NEW s, StepLeads(m, r, e, n, s)
      PROVE  Leads(m, r, <<e>>, n, s)
  BY <1>1, <1>3, Zenon DEF Leads, StepLeads
<1>4. ASSUME NEW e, NEW n, NEW s, NEW f, NEW k, NEW t,
             StepLeads(m, r, e, n, s), StepLeads(n, s, f, k, t)
      PROVE  Leads(m, r, <<e, f>>, k, t)
  <2>1. DeliveredStep([message |-> m, renderer |-> r], e) = [message |-> n, renderer |-> s]
    BY <1>4, Zenon DEF StepLeads
  <2>2. DeliveredStep([message |-> n, renderer |-> s], f) = [message |-> k, renderer |-> t]
    BY <1>4, Zenon DEF StepLeads
  <2>3. Delivered(m, r, <<e, f>>)
                     = DeliveredStep(DeliveredStep([message |-> m, renderer |-> r], e), f)
    BY <1>1, Zenon
  <2> QED
    BY <2>1, <2>2, <2>3, Zenon DEF Leads
<1> QED
  BY <1>2, <1>3, <1>4, Zenon

\* After words the role is out.
Spoke(r) == [role |-> TRUE, call |-> r.call]

\* The message once the role has been given.
ShowingAll(text, calls) == Showing(text, calls, TRUE)

\* The fields of a renderer.
LEMMA RendererFields ==
  ASSUME NEW r \in Renderers
  PROVE  /\ r = [role |-> r.role, call |-> r.call] /\ r.role \in BOOLEAN /\ r.call \in BOOLEAN
         /\ Spoke(r) \in Renderers /\ Spoke(r).role = TRUE /\ Spoke(r).call = r.call
  BY DEF Renderers, Spoke

\* An id or a thought leads nowhere,
LEMMA QuietLeads ==
  ASSUME NEW m, NEW r \in Renderers, NEW e, e.event \in {"id", "reasoning"}
  PROVE  StepLeads(m, r, e, m, r)
<1> DEFINE role == r.role
           call == r.call
           t == [role |-> role, call |-> call]
<1>1. role \in BOOLEAN /\ call \in BOOLEAN /\ r = t
  BY RendererFields
<1> HIDE DEF role, call
<1>2. StepLeads(m, t, e, m, t)
  BY <1>1, QuietShown
<1> HIDE DEF t
<1> QED
  BY <1>1, <1>2, Zenon

\* a word to one word more.
LEMMA TextLeads ==
  ASSUME NEW text \in Seq(Pieces), NEW calls \in Seq(CallRecords), NEW r \in Renderers, NEW v
  PROVE  StepLeads(Showing(text, calls, r.role), r, TextDelta(v),
                   ShowingAll(Append(text, v), calls), Spoke(r))
<1> DEFINE role == r.role
           call == r.call
           t == [role |-> role, call |-> call]
<1>1. role \in BOOLEAN /\ call \in BOOLEAN /\ r = t
  BY RendererFields
<1>2. Spoke(r) = [role |-> TRUE, call |-> call]
  BY DEF Spoke
<1> HIDE DEF role, call
<1>3. DeliveredStep(Sight(text, calls, role, call), TextDelta(v))
           = Sight(Append(text, v), calls, TRUE, call)
  BY <1>1, TextShown, Zenon
<1> HIDE DEF t
<1>4. DeliveredStep([message |-> Showing(text, calls, role), renderer |-> r], TextDelta(v))
        = [message |-> ShowingAll(Append(text, v), calls), renderer |-> Spoke(r)]
  BY <1>1, <1>2, <1>3, Zenon DEF Sight, t, ShowingAll
<1> QED
  BY <1>4, Zenon DEF StepLeads, role

\* The line turns what has been said into what has been said later.
Heeds(line, later) ==
  LET r == turn.recorder
      q == Recorded(r, Heard(line))
  IN  /\ q \in Recorders /\ SameStanding(q, r)
      /\ Says(q, later, ToolMode)
      /\ ~ToolMode => q.calls = <<>>
      /\ ~ToolMode => \A n \in Renderers : \E k \in Renderers :
           /\ k.call = n.call
           /\ Leads(Showing(r.text, <<>>, n.role), n, Heard(line),
                    Showing(q.text, <<>>, k.role), k)

\* No words.
QuietLine(line) ==
  \/ Raw(turn.path, line) = <<>>
  \/ \E id \in MessageIds : Raw(turn.path, line) = <<BackendMessageId(id)>>
  \/ \E w : Raw(turn.path, line) = <<ReasoningDelta(w)>>
  \/ \E id \in MessageIds : \E w : Raw(turn.path, line) = <<BackendMessageId(id), ReasoningDelta(w)>>

\* One piece.
WordLine(line, v) ==
  \/ Raw(turn.path, line) = <<TextDelta(v)>>
  \/ \E id \in MessageIds : Raw(turn.path, line) = <<BackendMessageId(id), TextDelta(v)>>

\* The kinds of the events of a line.
LEMMA EventKinds ==
  /\ \A id : BackendMessageId(id).event = "id"
  /\ \A w : ReasoningDelta(w).event = "reasoning"
  /\ \A v : TextDelta(v).event = "text" /\ TextDelta(v).text = v
  BY DEF BackendMessageId, ReasoningDelta, TextDelta

\* A line without words is heard as it is.
LEMMA QuietHeard ==
  ASSUME NEW line, QuietLine(line)
  PROVE  Heard(line) = Raw(turn.path, line)
<1>1. /\ Raw(turn.path, line) = <<>> => Heard(line) = <<>>
      /\ \A e : Raw(turn.path, line) = <<e>> => Heard(line) = Understood(e)
      /\ \A e, f : Raw(turn.path, line) = <<e, f>> =>
                        Heard(line) = Understood(e) \o Understood(f)
  BY HeardFew
<1>2. \A id : Understood(BackendMessageId(id)) = <<BackendMessageId(id)>>
  <2> TAKE id
  <2> DEFINE e == BackendMessageId(id)
  <2>1. e.event # "text"
    BY EventKinds
  <2> HIDE DEF e
  <2> QED
    BY <2>1, UnderstoodEvent, Zenon DEF e
<1>3. \A w : Understood(ReasoningDelta(w)) = <<ReasoningDelta(w)>>
  <2> TAKE w
  <2> DEFINE e == ReasoningDelta(w)
  <2>1. e.event # "text"
    BY EventKinds
  <2> HIDE DEF e
  <2> QED
    BY <2>1, UnderstoodEvent, Zenon DEF e
<1>4. \A e, f : <<e>> \o <<f>> = <<e, f>>
  BY ShortSeqs, Zenon
<1>5. ASSUME NEW id, NEW w, Raw(turn.path, line) = <<BackendMessageId(id), ReasoningDelta(w)>>
      PROVE  Heard(line) = Raw(turn.path, line)
  <2> DEFINE e == BackendMessageId(id)
             f == ReasoningDelta(w)
  <2>1. Understood(e) = <<e>> /\ Understood(f) = <<f>>
    BY <1>2, <1>3
  <2> HIDE DEF e, f
  <2>2. Raw(turn.path, line) = <<e, f>>
    BY <1>5 DEF e, f
  <2>3. Heard(line) = <<e>> \o <<f>>
    BY <1>1, <2>1, <2>2, Zenon
  <2> QED
    BY <1>4, <2>2, <2>3, Zenon
<1>6. ASSUME NEW e, Raw(turn.path, line) = <<e>>, Understood(e) = <<e>>
      PROVE  Heard(line) = Raw(turn.path, line)
  BY <1>1, <1>6, Zenon
<1>7. CASE Raw(turn.path, line) = <<>>
  BY <1>1, <1>7
<1> QED
  BY <1>2, <1>3, <1>5, <1>6, <1>7, Zenon DEF QuietLine

\* A line of which nothing is heard keeps what has been said,
LEMMA StillHeeds ==
  ASSUME NEW line, NEW q \in Recorders, q = Recorded(turn.recorder, Heard(line)),
         SameStanding(q, turn.recorder),
         q.text = turn.recorder.text, q.calls = turn.recorder.calls,
         \A m : \A n \in Renderers : Leads(m, n, Heard(line), m, n),
         NEW said, Says(turn.recorder, said, ToolMode), ~ToolMode => turn.recorder.calls = <<>>
  PROVE  Heeds(line, said)
<1>1. Says(q, said, ToolMode)
  BY Zenon DEF Says
<1>2. \A n \in Renderers : Leads(Showing(turn.recorder.text, <<>>, n.role), n, Heard(line),
                                 Showing(q.text, <<>>, n.role), n)
  BY Zenon
<1> QED
  BY <1>1, <1>2, Zenon DEF Heeds

\* as a line without words does.
LEMMA QuietHeeds ==
  ASSUME NEW line, QuietLine(line), turn.recorder \in Recorders,
         NEW said, Says(turn.recorder, said, ToolMode), ~ToolMode => turn.recorder.calls = <<>>
  PROVE  Heeds(line, said)
<1> DEFINE r == turn.recorder
           q == Recorded(r, Heard(line))
           Still(x) == /\ x \in Recorders /\ SameStanding(x, r)
                       /\ x.text = r.text /\ x.calls = r.calls
<1>0. Heard(line) = Raw(turn.path, line)
  BY QuietHeard
<1>1. /\ Recorded(r, <<>>) = r
      /\ \A e : Recorded(r, <<e>>) = Observe(r, e)
      /\ \A e, f : Recorded(r, <<e, f>>) = Observe(Observe(r, e), f)
  BY ObservedFew
<1>2. \A m, n : /\ Leads(m, n, <<>>, m, n)
                /\ \A e : StepLeads(m, n, e, m, n) => Leads(m, n, <<e>>, m, n)
                /\ \A e, f : StepLeads(m, n, e, m, n) /\ StepLeads(m, n, f, m, n) =>
                                   Leads(m, n, <<e, f>>, m, n)
  BY LeadsFew, Zenon
<1>3. \A m : \A n \in Renderers :
        /\ \A id : StepLeads(m, n, BackendMessageId(id), m, n)
        /\ \A w : StepLeads(m, n, ReasoningDelta(w), m, n)
  BY QuietLeads, EventKinds
<1>4. \A id \in MessageIds :
        /\ Still(Observe(r, BackendMessageId(id)))
        /\ \A w : Observe(Observe(r, BackendMessageId(id)), ReasoningDelta(w))
                    = Observe(r, BackendMessageId(id))
  BY ObserveEvent, Zenon
<1>5. \A w : Observe(r, ReasoningDelta(w)) = r
  BY ObserveEvent, Zenon
<1>6. Still(r)
  BY DEF SameStanding
<1>7. Still(q) /\ \A m : \A n \in Renderers : Leads(m, n, Heard(line), m, n)
  <2>1. CASE Raw(turn.path, line) = <<>>
    BY <1>0, <1>1, <1>2, <1>6, <2>1, Zenon
  <2>2. ASSUME NEW id \in MessageIds, Raw(turn.path, line) = <<BackendMessageId(id)>>
        PROVE  Still(q) /\ \A m : \A n \in Renderers : Leads(m, n, Heard(line), m, n)
    BY <1>0, <1>1, <1>2, <1>3, <1>4, <2>2, Zenon
  <2>3. ASSUME NEW w, Raw(turn.path, line) = <<ReasoningDelta(w)>>
        PROVE  Still(q) /\ \A m : \A n \in Renderers : Leads(m, n, Heard(line), m, n)
    BY <1>0, <1>1, <1>2, <1>3, <1>5, <1>6, <2>3, Zenon
  <2>4. ASSUME NEW id \in MessageIds, NEW w,
               Raw(turn.path, line) = <<BackendMessageId(id), ReasoningDelta(w)>>
        PROVE  Still(q) /\ \A m : \A n \in Renderers : Leads(m, n, Heard(line), m, n)
    <3>1. q = Observe(r, BackendMessageId(id))
      BY <1>0, <1>1, <1>4, <2>4, Zenon
    <3> QED
      BY <1>0, <1>2, <1>3, <1>4, <2>4, <3>1, Zenon
  <2> QED
    BY <2>1, <2>2, <2>3, <2>4, Zenon DEF QuietLine
<1> QED
  BY <1>7, StillHeeds, Zenon

\* A line with a word adds it.
LEMMA WordHeeds ==
  ASSUME NEW line, NEW v \in Pieces, WordLine(line, v), turn.recorder \in Recorders,
         ToolMode => Free(CallIds, CallIdsInUse),
         NEW said \in Seq(Pieces), Says(turn.recorder, said, ToolMode),
         ~ToolMode => turn.recorder.calls = <<>>
  PROVE  Heeds(line, Append(said, v))
<1> DEFINE r == turn.recorder
           q == Recorded(r, Heard(line))
           e == TextDelta(v)
           u == Understood(e)
           Sound(x) == /\ x \in Recorders /\ SameStanding(x, r)
                       /\ Says(x, Append(said, v), ToolMode)
                       /\ ~ToolMode => x.text = Append(r.text, v) /\ x.calls = <<>>
<1>1. /\ \A x : Raw(turn.path, line) = <<x>> => Heard(line) = Understood(x)
      /\ \A x, y : Raw(turn.path, line) = <<x, y>> =>
                        Heard(line) = Understood(x) \o Understood(y)
  BY HeardFew
<1>2. ASSUME NEW s \in Recorders, s.text = r.text, s.calls = r.calls, SameStanding(s, r)
      PROVE  Sound(Recorded(s, u))
  <2> DEFINE x == Recorded(s, u)
  <2>1. WordRecorded(x, s, v, Append(said, v))
    BY <1>2, TextRecorded, Zenon
  <2> HIDE DEF x
  <2>2. Sound(x)
    BY <1>2, <2>1 DEF SameStanding, WordRecorded
  <2> QED
    BY <2>2 DEF x
<1>3. e.event = "text" /\ e.text = v
  BY EventKinds
<1>4. /\ ~ToolMode => u = <<e>>
      /\ u = <<>> \/ \E f : u = <<f>>
  <2> HIDE DEF e
  <2> QED
    BY <1>3, UnderstoodEvent, Zenon
<1> HIDE DEF u, e
<1>5. /\ \A f : Recorded(r, <<f>>) = Observe(r, f)
      /\ \A f, g : Recorded(r, <<f, g>>) = Observe(Observe(r, f), g)
  BY ObservedFew
<1>6. \A s : Recorded(s, <<>>) = s /\ \A f : Recorded(s, <<f>>) = Observe(s, f)
  BY ObservedFew, Zenon
<1>7. ASSUME Sound(q),
             ~ToolMode => \A n \in Renderers :
               Leads(Showing(r.text, <<>>, n.role), n, Heard(line),
                     ShowingAll(Append(r.text, v), <<>>), Spoke(n))
      PROVE  Heeds(line, Append(said, v))
  <2>1. ASSUME ~ToolMode, NEW n \in Renderers
        PROVE  \E k \in Renderers :
                 /\ k.call = n.call
                 /\ Leads(Showing(r.text, <<>>, n.role), n, Heard(line),
                          Showing(q.text, <<>>, k.role), k)
    <3>1. Spoke(n) \in Renderers /\ Spoke(n).role = TRUE /\ Spoke(n).call = n.call
      BY RendererFields
    <3>2. ShowingAll(q.text, <<>>) = Showing(q.text, <<>>, Spoke(n).role)
      BY <3>1 DEF ShowingAll
    <3>3. Leads(Showing(r.text, <<>>, n.role), n, Heard(line),
                Showing(q.text, <<>>, Spoke(n).role), Spoke(n))
      BY <1>7, <2>1, <3>2, Zenon
    <3> QED
      BY <3>1, <3>3, Zenon
  <2> QED
    BY <1>7, <2>1, Zenon DEF Heeds
<1>8. ASSUME ~ToolMode, NEW n \in Renderers
      PROVE  StepLeads(Showing(r.text, <<>>, n.role), n, e,
                       ShowingAll(Append(r.text, v), <<>>), Spoke(n))
  <2>1. r.text \in Seq(Pieces) /\ <<>> \in Seq(CallRecords)
    BY DEF Recorders
  <2> QED
    BY <2>1, TextLeads, Zenon DEF e
<1>9. CASE Raw(turn.path, line) = <<e>>
  <2>1. Heard(line) = u
    BY <1>1, <1>9, Zenon DEF u
  <2>2. Sound(q)
    <3>1. SameStanding(r, r)
      BY DEF SameStanding
    <3> QED
      BY <1>2, <2>1, <3>1, Zenon
  <2>3. ASSUME ~ToolMode, NEW n \in Renderers
        PROVE  Leads(Showing(r.text, <<>>, n.role), n, Heard(line),
                     ShowingAll(Append(r.text, v), <<>>), Spoke(n))
    BY <1>4, <1>8, <2>1, <2>3, LeadsFew, Zenon
  <2> QED
    BY <1>7, <2>2, <2>3, Zenon
<1>10. ASSUME NEW id \in MessageIds, Raw(turn.path, line) = <<BackendMessageId(id), e>>
       PROVE  Heeds(line, Append(said, v))
  <2> DEFINE f == BackendMessageId(id)
             s == Observe(r, f)
  <2>1. /\ s \in Recorders /\ SameStanding(s, r) /\ s.text = r.text /\ s.calls = r.calls
    BY ObserveEvent, Zenon
  <2>2. Understood(f) = <<f>> /\ f.event = "id"
    <3>1. f.event = "id" /\ f.event # "text"
      BY EventKinds
    <3> HIDE DEF f
    <3> QED
      BY <3>1, UnderstoodEvent, Zenon
  <2> HIDE DEF f, s
  <2>3. Raw(turn.path, line) = <<f, e>>
    BY <1>10 DEF f
  <2>4. Heard(line) = <<f>> \o u
    BY <1>1, <2>2, <2>3, Zenon DEF u
  <2>5. /\ <<f>> \o <<>> = <<f>>
        /\ \A x : <<f>> \o <<x>> = <<f, x>>
    BY ShortJoins, ShortSeqs, Zenon
  <2>6. q = Recorded(s, u)
    <3>1. CASE u = <<>>
      BY <1>5, <1>6, <2>4, <2>5, <3>1, Zenon DEF s
    <3>2. ASSUME NEW x, u = <<x>> PROVE q = Recorded(s, u)
      <4>1. Recorded(r, <<f, x>>) = Observe(s, x)
        BY <1>5, Zenon DEF s
      <4>2. Heard(line) = <<f, x>>
        BY <2>4, <2>5, <3>2, Zenon
      <4> QED
        BY <1>6, <3>2, <4>1, <4>2, Zenon
    <3> QED
      BY <1>4, <3>1, <3>2, Zenon
  <2>7. Sound(q)
    BY <1>2, <2>1, <2>6, Zenon
  <2>8. ASSUME ~ToolMode, NEW n \in Renderers
        PROVE  Leads(Showing(r.text, <<>>, n.role), n, Heard(line),
                     ShowingAll(Append(r.text, v), <<>>), Spoke(n))
    <3> DEFINE m == Showing(r.text, <<>>, n.role)
    <3>1. f.event \in {"id", "reasoning"}
      BY <2>2
    <3>2. StepLeads(m, n, f, m, n)
      BY <2>8, <3>1, QuietLeads
    <3>3. Heard(line) = <<f, e>>
      BY <1>4, <2>4, <2>5, <2>8, Zenon
    <3>4. StepLeads(m, n, e, ShowingAll(Append(r.text, v), <<>>), Spoke(n))
      BY <1>8, <2>8, Zenon
    <3> HIDE DEF m
    <3>5. Leads(m, n, <<f, e>>, ShowingAll(Append(r.text, v), <<>>), Spoke(n))
      BY <3>2, <3>4, LeadsFew, Zenon
    <3> QED
      BY <3>3, <3>5, Zenon DEF m
  <2> QED
    BY <1>7, <2>7, <2>8, Zenon
<1> QED
  BY <1>9, <1>10, Zenon DEF WordLine, e
=============================================================================
