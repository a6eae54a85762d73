---------------------------- MODULE GatewayProofs ----------------------------
(***************************************************************************)
(* Proofs about Gateway, for any number of requests and accounts, any      *)
(* store, any budget of retries, any clients and any interleaving.         *)
(***************************************************************************)
EXTENDS Gateway, LeastElement, SequenceTheorems, FiniteSetTheorems

-----------------------------------------------------------------------------
(* The invariant of one request.                                           *)

Fields == {"pc", "mode", "incoming", "conv", "known", "account", "session", "parent",
           "prompt", "reply", "node", "tries", "repaired", "rerun", "moves", "target",
           "cause", "targetCause", "charges"}

Shaped(q) == q = [f \in Fields |-> q[f]]

Preparing == {"idle", "resolve", "link", "drop", "bound", "session", "parent", "select",
              "create", "createFailed"}

\* It gets an account once for its session and once more for its turn.
MovesFit(q) ==
  /\ q.moves \in Nat /\ q.rerun \in BOOLEAN /\ q.moves <= 2
  /\ q.pc \in Preparing => q.moves = 0 /\ ~q.rerun
  /\ q.pc \in {"foSelect", "foCreate", "foFailed"} => q.moves <= IF q.rerun THEN 1 ELSE 0
  /\ q.pc # "failed" => q.moves <= IF q.rerun THEN 2 ELSE 1

\* Only a streamed turn is charged while it is still being tried.
ChargesFit(q) ==
  /\ q.charges \in Nat
  /\ q.mode # "stream" => Charged(q)
  /\ q.pc \in {"primePunish", "stream", "midPunish"} => q.mode = "stream"

\* What is committed was accepted by upstream.
SessionFit(q) ==
  /\ q.pc \in {"idle", "resolve"} => q.session = NoSession
  /\ q.pc = "stream" => Accepted(q)
  /\ q.pc = "commit" => /\ q.session # NoSession /\ q.session.owner = q.account
                        /\ q.node.session = q.session

ConvFit(q) ==
  /\ q.conv \in Slots \union {NoConv}
  /\ q.pc \in {"link", "drop", "bound", "session", "parent"} => q.conv \in Slots

Local(q) == Shaped(q) /\ MovesFit(q) /\ ChargesFit(q) /\ SessionFit(q) /\ ConvFit(q)

\* A request that goes on from q to v keeps its session, and with it its
\* conversation, or has none.
Goes(q, v) ==
  /\ Local(v)
  /\ v.session = NoSession \/ (v.session = q.session /\ v.conv = q.conv)

-----------------------------------------------------------------------------
(* The invariant of the store and of who holds which session.              *)

ConvFields == {"messages", "account", "session", "parent"}

\* A link names a session of the account, and a message of the session.
Owned(conv) ==
  /\ conv = [f \in ConvFields |-> conv[f]]
  /\ conv.session # NoSession => /\ conv.session.owner = conv.account
                                 /\ conv.parent.session = conv.session

HeapFit(h) == h = [c \in Slots |-> h[c]] /\ \A c \in Slots : Owned(h[c])

\* No two conversations have one session;
StoredApart(h) ==
  \A c, d \in Slots : c # d /\ h[c].session # NoSession => h[c].session # h[d].session

\* a request and a conversation have one only if it is that conversation's
\* request;
CopiesFit(h, q) ==
  \A r \in Requests, c \in Slots :
     q[r].session # NoSession /\ h[c].session = q[r].session => q[r].conv = c

\* and two requests only if they are requests of one conversation.
CopiesAgree(q) ==
  \A r, s \in Requests :
     r # s /\ q[r].session # NoSession /\ q[s].session = q[r].session =>
       q[r].conv \in Slots /\ q[s].conv = q[r].conv

Apart(h, q) == StoredApart(h) /\ CopiesFit(h, q) /\ CopiesAgree(q)

RecencyFit(order) == order \in Seq(Slots) /\ Len(order) <= MaxConvs

RequestsFit(q) == q = [r \in Requests |-> q[r]] /\ \A r \in Requests : Local(q[r])

IInv == RequestsFit(request) /\ HeapFit(heap) /\ RecencyFit(recency) /\ Apart(heap, request)

-----------------------------------------------------------------------------
(* What a step makes of a request.                                         *)

LEMMA BlankLocal == Local(Blank) /\ \A q : Goes(q, Blank)
<1>1. Shaped(Blank)
  BY DEF Shaped, Blank, Fields
<1>2. Local(Blank)
  BY <1>1 DEF Local, Blank, MovesFit, ChargesFit, Charged, SessionFit, ConvFit, Preparing
<1> QED
  BY <1>2 DEF Goes, Blank

\* A request that is refused keeps what it cost.
Affordable(q, cost) == cost \in 0..1 /\ (q.mode # "stream" => q.charges + cost <= 1)

LEMMA RefusedGoes ==
  ASSUME NEW q, Local(q), NEW cost, Affordable(q, cost)
  PROVE  Goes(q, Refused(q, cost))
<1> DEFINE v == Refused(q, cost)
<1>1. Shaped(v)
  BY BlankLocal DEF Shaped, Refused, Fields, Local
<1>2. /\ v.pc = "failed" /\ v.mode = q.mode /\ v.moves = q.moves /\ v.rerun = FALSE
      /\ v.charges = q.charges + cost /\ v.session = NoSession /\ v.conv = NoConv
  BY DEF Refused, Blank
<1>3. /\ q.moves \in Nat /\ q.moves <= 2 /\ q.charges \in Nat
      /\ cost \in 0..1 /\ (q.mode # "stream" => q.charges + cost <= 1)
  BY DEF Local, MovesFit, ChargesFit, Affordable
<1> HIDE DEF v
<1>4. MovesFit(v)
  BY <1>2, <1>3 DEF MovesFit, Preparing
<1>5. ChargesFit(v)
  BY <1>2, <1>3 DEF ChargesFit, Charged
<1>6. SessionFit(v) /\ ConvFit(v)
  BY <1>2 DEF SessionFit, ConvFit
<1>7. Goes(q, v)
  BY <1>1, <1>2, <1>4, <1>5, <1>6 DEF Goes, Local
<1> QED
  BY <1>7 DEF v

\* What Over changes.
LEMMA OverFields ==
  ASSUME NEW q, Shaped(q), NEW pc
  PROVE  LET v == Over(q, pc)
         IN  /\ Shaped(v) /\ v.pc = pc /\ v.session = NoSession
             /\ v.conv = q.conv /\ v.mode = q.mode /\ v.moves = q.moves /\ v.rerun = q.rerun
             /\ v.charges = q.charges /\ v.account = q.account
  BY DEF Over, Shaped, Fields

LEMMA ChargeFields ==
  ASSUME NEW q, Shaped(q), NEW pc
  PROVE  LET v == Charge(q, pc)
         IN  /\ Shaped(v) /\ v.pc = pc /\ v.session = NoSession
             /\ v.conv = q.conv /\ v.mode = q.mode /\ v.moves = q.moves /\ v.rerun = q.rerun
             /\ v.charges = q.charges + 1
<1> DEFINE o == Over(q, pc)
<1>1. /\ Shaped(o) /\ o.pc = pc /\ o.session = NoSession
      /\ o.conv = q.conv /\ o.mode = q.mode /\ o.moves = q.moves /\ o.rerun = q.rerun
      /\ o.charges = q.charges
  BY OverFields
<1> HIDE DEF o
<1>2. Charge(q, pc) = [o EXCEPT !.charges = @ + 1]
  BY DEF Charge, o
<1> QED
  BY <1>1, <1>2 DEF Shaped, Fields

LEMMA AnsweredGoes ==
  ASSUME NEW q, Local(q), q.pc \in {"call", "stream"}, Accepted(q), NEW answer \in Answer(q)
  PROVE  Goes(q, Answered(q, answer))
<1> DEFINE v == Answered(q, answer)
<1>1. answer.node.session = q.session
  <2>1. PICK m \in Replies :
          answer = [reply |-> <<m>>,
                    node |-> [session |-> q.session, context |-> Sent(q) \o <<m>>]]
    BY DEF Answer
  <2> QED
    BY <2>1
<1>2. /\ Shaped(v) /\ v.pc = "commit" /\ v.session = q.session /\ v.account = q.account
      /\ v.conv = q.conv /\ v.mode = q.mode /\ v.moves = q.moves /\ v.rerun = q.rerun
      /\ v.charges = q.charges /\ v.node = answer.node
  BY DEF Answered, Local, Shaped, Fields
<1>3. q.session # NoSession /\ q.session.owner = q.account
  BY DEF Accepted
<1> HIDE DEF v
<1>4. Goes(q, v)
  BY <1>1, <1>2, <1>3
     DEF Goes, Local, MovesFit, ChargesFit, Charged, SessionFit, ConvFit, Preparing
<1> QED
  BY <1>4 DEF v
-----------------------------------------------------------------------------
(* Names are never used up.                                                *)

LEMMA ImageFinite ==
  ASSUME NEW S, IsFiniteSet(S), NEW f, DOMAIN f = S, NEW T, T = {f[x] : x \in S}
  PROVE  IsFiniteSet(T) /\ Cardinality(T) <= Cardinality(S)
<1> DEFINE g == [x \in S |-> f[x]]
<1>1. g \in Surjection(S, T)
  BY DEF Surjection
<1> QED
  BY <1>1, FS_Surjection

LEMMA IntervalSize == \A n \in Nat : IsFiniteSet(1..n) /\ Cardinality(1..n) = n
  BY FS_Interval

\* A finite set does not hold one number more than it has elements.
LEMMA OneIsFree ==
  ASSUME NEW T, IsFiniteSet(T), NEW n \in Nat, Cardinality(T) < n
  PROVE  (1..n) \ T # {}
<1>1. IsFiniteSet(1..n) /\ Cardinality(1..n) = n
  BY IntervalSize
<1>2. Cardinality(T) \in Nat
  BY FS_CardinalityType
<1>3. ASSUME (1..n) \ T = {} PROVE FALSE
  <2>1. (1..n) \in SUBSET T
    BY <1>3
  <2>2. Cardinality(1..n) <= Cardinality(T)
    BY <2>1, FS_Subset
  <2> QED
    BY <1>1, <1>2, <2>2
<1> QED
  BY <1>3

LEMMA SlotCount ==
  /\ Cardinality(Requests) \in Nat
  /\ MaxConvs + 1 + Cardinality(Requests) \in Nat
  /\ Slots \subseteq Nat \ {0}
  /\ IsFiniteSet(Slots)
<1>1. Cardinality(Requests) \in Nat /\ MaxConvs \in Nat
  BY GatewayAssumption, FS_CardinalityType
<1>2. MaxConvs + 1 + Cardinality(Requests) \in Nat
  BY <1>1
<1>3. IsFiniteSet(Slots)
  BY <1>2, FS_Interval DEF Slots
<1> QED
  BY <1>1, <1>2, <1>3 DEF Slots

LEMMA SessionsFinite ==
  ASSUME IInv PROVE IsFiniteSet(SessionsInUse)
<1> DEFINE A == {heap[c].session : c \in Slots}
           B == {heap[c].parent.session : c \in Slots}
           C == {request[r].session : r \in Requests}
           D == {request[r].parent.session : r \in Requests}
           E == {request[r].node.session : r \in Requests}
<1>0. IsFiniteSet(Requests)
  BY GatewayAssumption
<1>1. IsFiniteSet(A)
  <2> DEFINE f == [c \in Slots |-> heap[c].session]
  <2>1. A = {f[c] : c \in Slots}
    OBVIOUS
  <2>2. DOMAIN f = Slots
    OBVIOUS
  <2> HIDE DEF f, A
  <2> QED
    BY <2>1, <2>2, SlotCount, ImageFinite
<1>2. IsFiniteSet(B)
  <2> DEFINE f == [c \in Slots |-> heap[c].parent.session]
  <2>1. B = {f[c] : c \in Slots}
    OBVIOUS
  <2>2. DOMAIN f = Slots
    OBVIOUS
  <2> HIDE DEF f, B
  <2> QED
    BY <2>1, <2>2, SlotCount, ImageFinite
<1>3. IsFiniteSet(C)
  <2> DEFINE f == [r \in Requests |-> request[r].session]
  <2>1. C = {f[r] : r \in Requests}
    OBVIOUS
  <2>2. DOMAIN f = Requests
    OBVIOUS
  <2> HIDE DEF f, C
  <2> QED
    BY <2>1, <2>2, <1>0, ImageFinite
<1>4. IsFiniteSet(D)
  <2> DEFINE f == [r \in Requests |-> request[r].parent.session]
  <2>1. D = {f[r] : r \in Requests}
    OBVIOUS
  <2>2. DOMAIN f = Requests
    OBVIOUS
  <2> HIDE DEF f, D
  <2> QED
    BY <2>1, <2>2, <1>0, ImageFinite
<1>5. IsFiniteSet(E)
  <2> DEFINE f == [r \in Requests |-> request[r].node.session]
  <2>1. E = {f[r] : r \in Requests}
    OBVIOUS
  <2>2. DOMAIN f = Requests
    OBVIOUS
  <2> HIDE DEF f, E
  <2> QED
    BY <2>1, <2>2, <1>0, ImageFinite
<1> HIDE DEF A, B, C, D, E
<1>6. IsFiniteSet(A \union B)
  BY <1>1, <1>2, FS_Union
<1>7. IsFiniteSet((A \union B) \union C)
  BY <1>3, <1>6, FS_Union
<1>8. IsFiniteSet(((A \union B) \union C) \union D)
  BY <1>4, <1>7, FS_Union
<1>9. IsFiniteSet((((A \union B) \union C) \union D) \union E)
  BY <1>5, <1>8, FS_Union
<1> QED
  BY <1>9 DEF SessionsInUse, A, B, C, D, E

\* A new session is one nobody refers to.
LEMMA FreshUnused ==
  ASSUME IInv, NEW a
  PROVE  /\ FreshSession(a) # NoSession /\ FreshSession(a).owner = a
         /\ FreshSession(a) \notin SessionsInUse
<1> DEFINE owned   == {x \in SessionsInUse : x.owner = a}
           taken   == {s.serial : s \in owned}
           Serials == 1..(1 + Cardinality(taken))
           least   == CHOOSE n \in Serials \ taken : \A m \in Serials \ taken : n <= m
<1>1. FreshSession(a) = [owner |-> a, serial |-> least]
  BY DEF FreshSession
<1>2. IsFiniteSet(taken)
  <2>1. IsFiniteSet(owned)
    <3>1. owned \in SUBSET SessionsInUse
      OBVIOUS
    <3> QED
      BY <3>1, SessionsFinite, FS_Subset
  <2> DEFINE f == [s \in owned |-> s.serial]
  <2>2. taken = {f[s] : s \in owned} /\ DOMAIN f = owned
    OBVIOUS
  <2> HIDE DEF f, owned, taken
  <2> QED
    BY <2>1, <2>2, ImageFinite
<1>3. Cardinality(taken) \in Nat
  BY <1>2, FS_CardinalityType
<1>4. Serials \ taken # {} /\ Serials \ taken \subseteq Nat
  <2> HIDE DEF taken
  <2> QED
    BY <1>2, <1>3, OneIsFree
<1>5. \E n \in Serials \ taken : \A m \in Serials \ taken : n <= m
  <2> HIDE DEF Serials, taken
  <2> QED
    BY <1>4, LeastNatural
<1>6. least \in Serials \ taken
  <2> HIDE DEF Serials, taken
  <2> QED
    BY <1>5
<1>7. least # 0
  <2>1. least \in Serials
    <3> HIDE DEF Serials, taken, least
    <3> QED
      BY <1>6
  <2> HIDE DEF least
  <2>2. \A n \in Nat : \A m \in 1..(1 + n) : m # 0
    OBVIOUS
  <2> HIDE DEF taken
  <2> QED
    BY <1>3, <2>1, <2>2
<1>8. FreshSession(a).owner = a /\ FreshSession(a).serial = least
  <2> HIDE DEF least
  <2> QED
    BY <1>1
<1>9. ASSUME FreshSession(a) \in SessionsInUse PROVE FALSE
  <2>1. FreshSession(a) \in owned
    BY <1>8, <1>9
  <2>2. least \in taken
    BY <1>8, <2>1
  <2> QED
    BY <1>6, <2>2
<1> HIDE DEF least
<1> QED
  BY <1>7, <1>8, <1>9 DEF NoSession

\* There is a slot for a conversation that begins, and nobody uses it.
LEMMA FreeSlotExists ==
  ASSUME IInv
  PROVE  /\ FreeSlot \in Slots /\ FreeSlot \notin Stored
         /\ \A r \in Requests : request[r].conv # FreeSlot
<1> DEFINE stored == Stored
           convs == {request[r].conv : r \in Requests}
           held == stored \union convs
<1>1. Len(recency) \in Nat /\ Len(recency) <= MaxConvs /\ DOMAIN recency = 1..Len(recency)
  <2>1. recency \in Seq(Slots) /\ Len(recency) <= MaxConvs
    BY DEF IInv, RecencyFit
  <2> QED
    BY <2>1, LenProperties
<1>2. IsFiniteSet(stored) /\ Cardinality(stored) <= MaxConvs /\ Cardinality(stored) \in Nat
  <2>1. IsFiniteSet(1..Len(recency)) /\ Cardinality(1..Len(recency)) = Len(recency)
    BY <1>1, IntervalSize
  <2>2. stored = {recency[i] : i \in 1..Len(recency)}
    BY <1>1 DEF Stored, ToSet
  <2>3. IsFiniteSet(stored) /\ Cardinality(stored) <= Len(recency)
    <3> HIDE DEF stored
    <3> QED
      BY <1>1, <2>1, <2>2, ImageFinite
  <2>4. Cardinality(stored) \in Nat /\ MaxConvs \in Nat
    BY <2>3, FS_CardinalityType, GatewayAssumption
  <2> QED
    BY <1>1, <2>3, <2>4
<1>3. IsFiniteSet(convs) /\ Cardinality(convs) <= Cardinality(Requests) /\ Cardinality(convs) \in Nat
  <2> DEFINE f == [r \in Requests |-> request[r].conv]
  <2>1. convs = {f[r] : r \in Requests} /\ DOMAIN f = Requests
    OBVIOUS
  <2> HIDE DEF f, convs
  <2>2. IsFiniteSet(convs) /\ Cardinality(convs) <= Cardinality(Requests)
    BY <2>1, GatewayAssumption, ImageFinite
  <2> QED
    BY <2>2, FS_CardinalityType
<1> HIDE DEF stored, convs
<1>4. IsFiniteSet(held) /\ Cardinality(held) < MaxConvs + 1 + Cardinality(Requests)
  <2>1. /\ IsFiniteSet(held)
        /\ Cardinality(held) = Cardinality(stored) + Cardinality(convs)
                                - Cardinality(stored \intersect convs)
    BY <1>2, <1>3, FS_Union
  <2>2. IsFiniteSet(stored \intersect convs)
    BY <1>2, FS_Subset
  <2>3. Cardinality(stored \intersect convs) \in Nat /\ MaxConvs \in Nat
    BY <2>2, FS_CardinalityType, GatewayAssumption
  <2> QED
    BY <1>2, <1>3, <2>1, <2>3, SlotCount
<1>5. Slots \ held # {} /\ Slots \ held \subseteq Nat
  <2> HIDE DEF held
  <2> QED
    BY <1>4, SlotCount, OneIsFree DEF Slots
<1>6. \E c \in Slots \ held : \A d \in Slots \ held : c <= d
  <2> HIDE DEF held
  <2> QED
    BY <1>5, LeastNatural
<1>7. FreeSlot = CHOOSE c \in Slots \ held : \A d \in Slots \ held : c <= d
  BY DEF FreeSlot, held, stored, convs
<1>8. FreeSlot \in Slots \ held
  <2> HIDE DEF held
  <2> QED
    BY <1>6, <1>7
<1> QED
  BY <1>8 DEF stored, convs

\* What was there goes, and nothing comes.
LEMMA RemoveFirstFits ==
  ASSUME NEW order \in Seq(Slots), NEW c \in Slots
  PROVE  RemoveFirst(order, c) \in Seq(Slots)
<1> DEFINE rest == RemoveFirst(order, c)
<1>1. CASE ~ \E i \in 1..Len(order) : order[i] = c
  BY <1>1 DEF RemoveFirst
<1>2. CASE \E i \in 1..Len(order) : order[i] = c
  <2> DEFINE I == {i \in 1..Len(order) : order[i] = c}
  <2>1. Len(order) \in Nat /\ \A i \in 1..Len(order) : order[i] \in Slots
    BY LenProperties, ElementOfSeq
  <2>2. I # {} /\ I \subseteq Nat
    BY <1>2, <2>1
  <2>3. Min(I) \in I
    <3>1. \E m \in I : \A n \in I : m <= n
      <4> HIDE DEF I
      <4> QED
        BY <2>2, LeastNatural
    <3> HIDE DEF I
    <3> QED
      BY <3>1 DEF Min
  <2> DEFINE k == Min(I)
  <2>4. rest = SubSeq(order, 1, k - 1) \o SubSeq(order, k + 1, Len(order))
    BY <1>2, <2>2 DEF RemoveFirst, RemoveAt, SelectInSeq
  <2>5. k \in 1..Len(order)
    BY <2>3
  <2> HIDE DEF k
  <2>6. SubSeq(order, 1, k - 1) \in Seq(Slots)
    <3>1. 1 \in Int /\ k - 1 \in Int /\ \A i \in 1..(k - 1) : order[i] \in Slots
      BY <2>1, <2>5
    <3> QED
      BY <3>1, SubSeqProperties
  <2>7. SubSeq(order, k + 1, Len(order)) \in Seq(Slots)
    <3>1. k + 1 \in Int /\ Len(order) \in Int /\ \A i \in (k + 1)..Len(order) : order[i] \in Slots
      BY <2>1, <2>5
    <3> QED
      BY <3>1, SubSeqProperties
  <2> QED
    BY <2>4, <2>6, <2>7, ConcatProperties
<1> QED
  BY <1>1, <1>2

\* The store keeps to its capacity, and what was last updated stays.
LEMMA KeptFits ==
  ASSUME NEW order \in Seq(Slots), NEW c \in Slots
  PROVE  /\ RecencyFit(Kept(Append(RemoveFirst(order, c), c)))
         /\ c \in ToSet(Kept(Append(RemoveFirst(order, c), c)))
<1> DEFINE rest == RemoveFirst(order, c)
<1>1. rest \in Seq(Slots)
  BY RemoveFirstFits
<1> DEFINE new == Append(rest, c)
<1>2. new \in Seq(Slots) /\ Len(new) > 0 /\ new[Len(new)] = c
  <2> HIDE DEF rest
  <2>1. Len(rest) \in Nat
    BY <1>1, LenProperties
  <2> QED
    BY <1>1, <2>1, AppendProperties
<1> HIDE DEF new
<1>3. /\ Len(new) \in Nat /\ MaxConvs \in Nat \ {0}
      /\ DOMAIN new = 1..Len(new) /\ \A i \in 1..Len(new) : new[i] \in Slots
  BY <1>2, LenProperties, ElementOfSeq, GatewayAssumption
<1>4. CASE Len(new) <= MaxConvs
  <2>1. Kept(new) = new
    BY <1>3, <1>4 DEF Kept
  <2>2. c \in ToSet(new)
    BY <1>2, <1>3 DEF ToSet
  <2> QED
    BY <1>2, <1>4, <2>1, <2>2 DEF RecencyFit, new
<1>5. CASE Len(new) > MaxConvs
  <2> DEFINE m == Len(new) - MaxConvs + 1
             kept == SubSeq(new, m, Len(new))
  <2>1. m \in Int /\ Len(new) \in Int /\ \A i \in m..Len(new) : new[i] \in Slots
    BY <1>3, <1>5
  <2>2. m <= Len(new) /\ Len(new) - m + 1 = MaxConvs
    BY <1>3, <1>5
  <2>3. Kept(new) = kept
    BY <1>3, <1>5 DEF Kept
  <2>4. kept \in Seq(Slots) /\ Len(kept) = MaxConvs /\ kept[MaxConvs] = c
    <3> HIDE DEF m
    <3>1. /\ kept \in Seq(Slots) /\ Len(kept) = MaxConvs
          /\ \A i \in 1..MaxConvs : kept[i] = new[m + i - 1]
      BY <1>3, <2>1, <2>2, SubSeqProperties
    <3>2. kept[MaxConvs] = new[m + MaxConvs - 1] /\ m + MaxConvs - 1 = Len(new)
      BY <1>3, <2>1, <2>2, <3>1
    <3> HIDE DEF kept
    <3> QED
      BY <1>2, <3>1, <3>2
  <2> HIDE DEF kept
  <2>5. c \in ToSet(kept)
    <3>1. DOMAIN kept = 1..MaxConvs
      BY <2>4, LenProperties
    <3> QED
      BY <1>3, <2>4, <3>1 DEF ToSet
  <2> QED
    BY <1>3, <2>3, <2>4, <2>5 DEF RecencyFit, new
<1> QED
  BY <1>3, <1>4, <1>5
-----------------------------------------------------------------------------
(* A step that opens no session keeps the invariant.                       *)

Shrinks(h, g) == \A c \in Slots : g[c].session \in {NoSession, h[c].session}

\* The conversations of g have the links of h, or none.
HeapGoes(h, g) ==
  HeapFit(g) /\ Shrinks(h, g)

LEMMA UnlinkedGoes == \A h, C : HeapFit(h) => HeapGoes(h, Unlinked(h, C))
<1> TAKE h, C
<1> HAVE HeapFit(h)
<1> DEFINE g == Unlinked(h, C)
<1>1. g = [c \in Slots |-> g[c]]
  BY DEF Unlinked
<1>2. ASSUME NEW c \in Slots PROVE Owned(g[c]) /\ g[c].session \in {NoSession, h[c].session}
  <2>1. Owned(h[c])
    BY DEF HeapFit
  <2>2. CASE c \notin C
    BY <2>1, <2>2 DEF Unlinked
  <2>3. CASE c \in C
    <3>1. g[c] = [h[c] EXCEPT !.session = NoSession, !.parent = NoParent]
      BY <2>3 DEF Unlinked
    <3> HIDE DEF g
    <3> QED
      BY <2>1, <3>1 DEF Owned, ConvFields
  <2> QED
    BY <2>2, <2>3
<1> HIDE DEF g
<1>3. HeapGoes(h, g)
  BY <1>1, <1>2 DEF HeapGoes, HeapFit, Shrinks
<1> QED
  BY <1>3 DEF g

LEMMA NewConvOwned == Owned(NewConv) /\ NewConv.session = NoSession
  BY DEF Owned, NewConv, ConvFields

LEMMA SweptGoes == \A h, reachable : HeapFit(h) => HeapGoes(h, Swept(h, reachable))
  BY NewConvOwned DEF HeapFit, HeapGoes, Swept, Shrinks

LEMMA HeapStays == \A h : HeapFit(h) => HeapGoes(h, h)
  BY DEF HeapGoes, Shrinks

LEMMA ConsequenceGoes ==
  ASSUME HeapFit(heap), NEW a, NEW category, Consequence(a, category)
  PROVE  HeapGoes(heap, heap') /\ recency' = recency
<1>1. HeapGoes(heap, Unlinked(heap, BoundTo(a))) /\ HeapGoes(heap, heap)
  BY UnlinkedGoes, HeapStays
<1> QED
  BY <1>1 DEF Consequence

Fades(q, p) ==
  \A r \in Requests : \/ p[r].session = NoSession
                      \/ p[r].session = q[r].session /\ p[r].conv = q[r].conv

LEMMA ApartShrinks ==
  ASSUME NEW h, NEW g, NEW p, NEW q, Apart(h, q), Shrinks(h, g), Fades(q, p)
  PROVE  Apart(g, p)
<1>1. StoredApart(g)
  BY DEF Apart, StoredApart, Shrinks
<1>2. CopiesFit(g, p)
  BY DEF Apart, CopiesFit, Shrinks, Fades
<1>3. CopiesAgree(p)
  BY DEF Apart, CopiesAgree, Fades
<1> QED
  BY <1>1, <1>2, <1>3 DEF Apart

\* One request goes on.
LEMMA Becomes ==
  ASSUME IInv, NEW r \in Requests, NEW v, request' = [request EXCEPT ![r] = v], Local(v)
  PROVE  /\ RequestsFit(request')
         /\ request'[r] = v /\ \A s \in Requests \ {r} : request'[s] = request[s]
<1>1. request = [s \in Requests |-> request[s]] /\ \A s \in Requests : Local(request[s])
  BY DEF IInv, RequestsFit
<1>2. request'[r] = v /\ \A s \in Requests \ {r} : request'[s] = request[s]
  BY <1>1
<1>3. request' = [s \in Requests |-> request'[s]]
  BY <1>1
<1> QED
  BY <1>1, <1>2, <1>3 DEF RequestsFit

LEMMA OrdinaryStep ==
  ASSUME IInv, NEW r \in Requests,
         NEW v, request' = [request EXCEPT ![r] = v], Goes(request[r], v),
         HeapGoes(heap, heap'), recency' = recency
  PROVE  IInv'
<1>1. RequestsFit(request') /\ request'[r] = v
      /\ \A s \in Requests \ {r} : request'[s] = request[s]
  BY Becomes DEF Goes
<1>2. HeapFit(heap') /\ Shrinks(heap, heap')
  BY DEF HeapGoes
<1>3. Apart(heap', request')
  <2>1. Fades(request, request')
    BY <1>1 DEF Goes, Fades
  <2>2. Apart(heap, request)
    BY DEF IInv
  <2> QED
    BY <1>2, <2>1, <2>2, ApartShrinks
<1>4. RecencyFit(recency')
  BY DEF IInv
<1> QED
  BY <1>1, <1>2, <1>3, <1>4 DEF IInv

LEMMA RequestLocal ==
  ASSUME IInv, NEW r \in Requests
  PROVE  Local(request[r]) /\ Shaped(request[r])
  BY DEF IInv, RequestsFit, Local

\* Everything the invariant tells of a request but where it is.
SameTurn(q, v) ==
  /\ Shaped(v) /\ v.mode = q.mode /\ v.moves = q.moves /\ v.rerun = q.rerun
  /\ v.charges = q.charges /\ v.conv = q.conv

FoPcs == {"foSelect", "foCreate", "foFailed"}

\* It moves on within its phase.
Onwards(q, v) ==
  /\ SameTurn(q, v)
  /\ q.pc # "failed" /\ v.pc # "failed"
  /\ v.pc \in Preparing => q.pc \in Preparing
  /\ v.pc \in FoPcs => q.pc \in FoPcs
  /\ q.pc = "foSelect" => v.pc = "foSelect"
  /\ v.pc \in {"primePunish", "stream", "midPunish"} => q.mode = "stream"
  /\ v.pc \in {"link", "drop", "bound", "session", "parent"} => q.conv \in Slots

LEMMA MovesLocal ==
  ASSUME NEW q, Local(q), NEW v, Onwards(q, v), SessionFit(v)
  PROVE  Local(v)
<1>1. MovesFit(v)
  BY DEF Local, MovesFit, Onwards, SameTurn, FoPcs
<1>2. ChargesFit(v)
  BY DEF Local, ChargesFit, Charged, Onwards, SameTurn
<1>3. ConvFit(v)
  BY DEF Local, ConvFit, Onwards, SameTurn
<1> QED
  BY <1>1, <1>2, <1>3 DEF Local, Onwards, SameTurn

LEMMA MovesOn ==
  ASSUME NEW q, Local(q), NEW v, Onwards(q, v), SessionFit(v),
         v.session \in {NoSession, q.session}
  PROVE  Goes(q, v)
  BY MovesLocal DEF Goes, Onwards, SameTurn
-----------------------------------------------------------------------------
(* The actions, one after another.                                         *)

LEMMA Quiet ==
  ASSUME IInv, UNCHANGED <<heap, recency>>
  PROVE  HeapGoes(heap, heap') /\ recency' = recency
  BY HeapStays DEF IInv

LEMMA UnlinkStep ==
  ASSUME IInv, NEW C, heap' = Unlinked(heap, C), UNCHANGED recency
  PROVE  HeapGoes(heap, heap') /\ recency' = recency
  BY UnlinkedGoes DEF IInv

\* What a request may still be charged.
LEMMA Once ==
  ASSUME NEW q, Local(q)
  PROVE  Affordable(q, 0) /\ (q.pc \notin {"foSelect", "failed"} => Affordable(q, 1))
<1>1. q.charges \in Nat /\ (q.mode # "stream" =>
                               q.charges <= (IF q.pc \in {"foSelect", "failed"} THEN 1 ELSE 0))
  BY DEF Local, ChargesFit, Charged
<1>2. CASE q.pc \in {"foSelect", "failed"}
  BY <1>1, <1>2 DEF Affordable
<1>3. CASE q.pc \notin {"foSelect", "failed"}
  BY <1>1, <1>3 DEF Affordable
<1> QED
  BY <1>2, <1>3

LEMMA ArriveStep ==
  ASSUME IInv, NEW r \in Requests, Arrive(r) PROVE IInv'
<1>1. PICK mode \in Modes, incoming \in Histories :
        request' = [request EXCEPT ![r] =
          [Blank EXCEPT !.pc = "resolve", !.mode = mode, !.incoming = incoming]]
  BY DEF Arrive
<1> DEFINE v == [Blank EXCEPT !.pc = "resolve", !.mode = mode, !.incoming = incoming]
<1>2. /\ Shaped(v) /\ v.pc = "resolve" /\ v.session = NoSession /\ v.conv = NoConv
      /\ v.moves = 0 /\ v.rerun = FALSE /\ v.charges = 0
  BY DEF Blank, Shaped, Fields
<1>3. HeapGoes(heap, heap') /\ recency' = recency
  BY Quiet DEF Arrive
<1> HIDE DEF v
<1>4. Goes(request[r], v)
  <2>1. MovesFit(v)
    <3>1. v.rerun \in BOOLEAN
      BY <1>2, Zenon
    <3>2. v.moves \in Nat /\ v.moves <= 2 /\ v.moves <= (IF v.rerun THEN 2 ELSE 1)
      BY <1>2
    <3> QED
      BY <1>2, <3>1, <3>2 DEF MovesFit
  <2>2. ChargesFit(v)
    BY <1>2 DEF ChargesFit, Charged
  <2>3. SessionFit(v) /\ ConvFit(v)
    BY <1>2 DEF SessionFit, ConvFit
  <2> QED
    BY <1>2, <2>1, <2>2, <2>3 DEF Goes, Local
<1>5. request' = [request EXCEPT ![r] = v]
  BY <1>1 DEF v
<1> QED
  BY <1>3, <1>4, <1>5, OrdinaryStep

LEMMA ResolveStep ==
  ASSUME IInv, NEW r \in Requests, Resolve(r) PROVE IInv'
<1> DEFINE q == request[r]
           found == BestMatches(Messages, Stored, q.incoming)
<1>1. q.pc = "resolve" /\ Local(q) /\ Shaped(q)
  BY RequestLocal DEF Resolve
<1>2. HeapGoes(heap, heap') /\ recency' = recency
  BY Quiet DEF Resolve
<1>3. CASE request' = [request EXCEPT ![r].pc = "select"]
  <2> DEFINE v == [q EXCEPT !.pc = "select"]
  <2>1. SameTurn(q, v) /\ v.pc = "select" /\ v.session = q.session
    BY <1>1 DEF Shaped, Fields, SameTurn
  <2>2. request' = [request EXCEPT ![r] = v]
    BY <1>3
  <2> HIDE DEF v
  <2>3. SessionFit(v)
    BY <2>1 DEF SessionFit
  <2>4. Goes(q, v)
    BY <1>1, <2>1, <2>3, MovesOn DEF Preparing, FoPcs, Onwards
  <2> QED
    BY <1>2, <2>2, <2>4, OrdinaryStep
<1>4. ASSUME NEW c \in found,
             request' = [request EXCEPT ![r].pc = "link", ![r].conv = c,
                                        ![r].known = Len(heap[c].messages)]
      PROVE  IInv'
  <2> DEFINE n == Len(heap[c].messages)
             v == [q EXCEPT !.pc = "link", !.conv = c, !.known = n]
  <2>1. c \in Slots
    <3>1. c \in Stored
      BY DEF BestMatches, Candidates
    <3>2. recency \in Seq(Slots)
      BY DEF IInv, RecencyFit
    <3> QED
      BY <3>1, <3>2, LenProperties, ElementOfSeq DEF Stored, ToSet
  <2>2. /\ Shaped(v) /\ v.pc = "link" /\ v.conv = c /\ v.session = q.session /\ v.mode = q.mode
        /\ v.moves = q.moves /\ v.rerun = q.rerun /\ v.charges = q.charges
    <3> HIDE DEF n
    <3> QED
      BY <1>1 DEF Shaped, Fields
  <2>3. request' = [request EXCEPT ![r] = v]
    BY <1>4
  <2> HIDE DEF v
  <2>4. q.session = NoSession /\ v.session = NoSession
    BY <1>1, <2>2 DEF Local, SessionFit
  <2>5. MovesFit(v) /\ ChargesFit(v)
    BY <1>1, <2>2 DEF Local, MovesFit, ChargesFit, Charged, Preparing
  <2>6. SessionFit(v) /\ ConvFit(v)
    BY <2>1, <2>2, <2>4 DEF SessionFit, ConvFit
  <2>7. Goes(q, v)
    BY <2>2, <2>4, <2>5, <2>6 DEF Goes, Local
  <2> QED
    BY <1>2, <2>3, <2>7, OrdinaryStep
<1> QED
  BY <1>3, <1>4 DEF Resolve

\* A request moves to another place, and with it its account at most.
Place(q, v, pc) == SameTurn(q, v) /\ v.pc = pc /\ v.session = q.session

LEMMA CheckLinkStep ==
  ASSUME IInv, NEW r \in Requests, CheckLink(r) PROVE IInv'
<1> DEFINE q == request[r]
           a == heap[q.conv].account
           u == [q EXCEPT !.pc = "bound"]
           v == [q EXCEPT !.pc = "session", !.account = a]
           w == [q EXCEPT !.pc = "drop"]
<1>1. q.pc = "link" /\ Local(q) /\ Shaped(q) /\ q.conv \in Slots
  BY RequestLocal DEF CheckLink, Local, ConvFit
<1>2. HeapGoes(heap, heap') /\ recency' = recency
  BY Quiet DEF CheckLink
<1>3. \/ request' = [request EXCEPT ![r] = u]
      \/ request' = [request EXCEPT ![r] = v]
      \/ request' = [request EXCEPT ![r] = w]
  <2> DEFINE value == CASE heap[q.conv].session = NoSession -> u
                        [] heap[q.conv].session # NoSession /\ MayServe(fleet, a) -> v
                        [] OTHER -> w
  <2>1. request' = [request EXCEPT ![r] = value]
    BY RequestLocal DEF CheckLink, IInv, RequestsFit
  <2>2. value \in {u, v, w}
    <3> HIDE DEF u, v, w
    <3> QED
      OBVIOUS
  <2> HIDE DEF value
  <2> QED
    BY <2>1, <2>2
<1>4. Place(q, u, "bound") /\ Place(q, v, "session") /\ Place(q, w, "drop")
  <2> HIDE DEF a
  <2> QED
    BY <1>1 DEF Shaped, Fields, SameTurn, Place
<1> HIDE DEF u, v, w
<1>5. Goes(q, u)
  BY <1>1, <1>4, MovesOn DEF Preparing, FoPcs, Place, SessionFit, Onwards
<1>6. Goes(q, v)
  BY <1>1, <1>4, MovesOn DEF Preparing, FoPcs, Place, SessionFit, Onwards
<1>7. Goes(q, w)
  BY <1>1, <1>4, MovesOn DEF Preparing, FoPcs, Place, SessionFit, Onwards
<1> QED
  BY <1>2, <1>3, <1>5, <1>6, <1>7, OrdinaryStep

LEMMA DropLinkStep ==
  ASSUME IInv, NEW r \in Requests, DropLink(r) PROVE IInv'
<1> DEFINE q == request[r]
           v == [q EXCEPT !.pc = "bound"]
<1>1. q.pc = "drop" /\ Local(q) /\ Shaped(q) /\ q.conv \in Slots
  BY RequestLocal DEF DropLink, Local, ConvFit
<1>2. HeapGoes(heap, heap') /\ recency' = recency
  BY UnlinkStep DEF DropLink
<1>3. request' = [request EXCEPT ![r] = v]
  BY DEF DropLink
<1>4. Place(q, v, "bound")
  BY <1>1 DEF Shaped, Fields, SameTurn, Place
<1> HIDE DEF v
<1>5. Goes(q, v)
  BY <1>1, <1>4, MovesOn DEF Preparing, FoPcs, Place, SessionFit, Onwards
<1> QED
  BY <1>2, <1>3, <1>5, OrdinaryStep

LEMMA ReadParentStep ==
  ASSUME IInv, NEW r \in Requests, ReadParent(r) PROVE IInv'
<1> DEFINE q == request[r]
           parent == heap[q.conv].parent
           prompt == Delta(q.incoming, q.known)
           v == [q EXCEPT !.pc = "call", !.parent = parent, !.known = 0, !.prompt = prompt]
<1>1. q.pc = "parent" /\ Local(q) /\ Shaped(q)
  BY RequestLocal DEF ReadParent
<1>2. HeapGoes(heap, heap') /\ recency' = recency
  BY Quiet DEF ReadParent
<1>3. request' = [request EXCEPT ![r] = v]
  BY DEF ReadParent
<1>4. Place(q, v, "call")
  <2> HIDE DEF parent, prompt
  <2> QED
    BY <1>1 DEF Shaped, Fields, SameTurn, Place
<1> HIDE DEF v
<1>5. Goes(q, v)
  BY <1>1, <1>4, MovesOn DEF Preparing, FoPcs, Place, SessionFit, Onwards
<1> QED
  BY <1>2, <1>3, <1>5, OrdinaryStep

LEMMA RebindStep ==
  ASSUME IInv, NEW r \in Requests, Rebind(r) PROVE IInv'
<1> DEFINE q == request[r]
           a == heap[q.conv].account
           u == [q EXCEPT !.pc = "create", !.account = a]
           v == [q EXCEPT !.pc = "select"]
<1>1. q.pc = "bound" /\ Local(q) /\ Shaped(q)
  BY RequestLocal DEF Rebind
<1>2. HeapGoes(heap, heap') /\ recency' = recency
  BY Quiet DEF Rebind
<1>3. \/ request' = [request EXCEPT ![r] = u]
      \/ request' = [request EXCEPT ![r] = v]
  BY DEF Rebind
<1>4. Place(q, u, "create") /\ Place(q, v, "select")
  <2> HIDE DEF a
  <2> QED
    BY <1>1 DEF Shaped, Fields, SameTurn, Place
<1> HIDE DEF u, v
<1>5. Goes(q, u)
  BY <1>1, <1>4, MovesOn DEF Preparing, FoPcs, Place, SessionFit, Onwards
<1>6. Goes(q, v)
  BY <1>1, <1>4, MovesOn DEF Preparing, FoPcs, Place, SessionFit, Onwards
<1> QED
  BY <1>2, <1>3, <1>5, <1>6, OrdinaryStep

\* No account is left.
LEMMA RefusedStep ==
  ASSUME IInv, NEW r \in Requests, NEW cost, Affordable(request[r], cost),
         request' = [request EXCEPT ![r] = Refused(request[r], cost)],
         HeapGoes(heap, heap'), recency' = recency
  PROVE  IInv'
<1> DEFINE v == Refused(request[r], cost)
<1>1. Goes(request[r], v)
  BY RequestLocal, RefusedGoes
<1> HIDE DEF v
<1>2. request' = [request EXCEPT ![r] = v]
  BY DEF v
<1> QED
  BY <1>1, <1>2, OrdinaryStep

LEMMA SelectStep ==
  ASSUME IInv, NEW r \in Requests, Select(r) PROVE IInv'
<1> DEFINE q == request[r]
<1>1. q.pc = "select" /\ Local(q) /\ Shaped(q)
  BY RequestLocal DEF Select
<1>2. HeapGoes(heap, heap') /\ recency' = recency
  BY Quiet DEF Select
<1>3. ASSUME NEW a, request' = [request EXCEPT ![r].pc = "create", ![r].account = a]
      PROVE  IInv'
  <2> DEFINE v == [q EXCEPT !.pc = "create", !.account = a]
  <2>1. request' = [request EXCEPT ![r] = v]
    BY <1>3
  <2>2. Place(q, v, "create")
    BY <1>1 DEF Shaped, Fields, SameTurn, Place
  <2> HIDE DEF v
  <2>3. Goes(q, v)
    BY <1>1, <2>2, MovesOn DEF Preparing, FoPcs, Place, SessionFit, Onwards
  <2> QED
    BY <1>2, <2>1, <2>3, OrdinaryStep
<1>4. CASE request' = [request EXCEPT ![r] = Refused(q, 0)]
  <2>1. Affordable(q, 0)
    BY <1>1, Once
  <2> QED
    BY <1>2, <1>4, <2>1, RefusedStep
<1> QED
  BY <1>3, <1>4 DEF Select

\* A session is opened.
LEMMA FreshStep ==
  ASSUME IInv, NEW r \in Requests, NEW v, request' = [request EXCEPT ![r] = v], Local(v),
         NEW a, v.session = FreshSession(a), UNCHANGED <<heap, recency>>
  PROVE  IInv'
<1>1. RequestsFit(request') /\ request'[r] = v
      /\ \A s \in Requests \ {r} : request'[s] = request[s]
  BY Becomes
<1>2. /\ \A c \in Slots : heap[c].session # v.session
      /\ \A s \in Requests : request[s].session # v.session
  BY FreshUnused DEF SessionsInUse
<1>3. StoredApart(heap') /\ Apart(heap, request)
  BY DEF IInv, Apart
<1>4. CopiesFit(heap', request')
  <2>1. ASSUME NEW s \in Requests, NEW c \in Slots,
               request'[s].session # NoSession, heap'[c].session = request'[s].session
        PROVE  request'[s].conv = c
    <3>1. s # r
      BY <1>1, <1>2, <2>1
    <3>2. request'[s] = request[s]
      BY <1>1, <3>1
    <3> QED
      BY <1>3, <2>1, <3>2 DEF Apart, CopiesFit
  <2> QED
    BY <2>1 DEF CopiesFit
<1>5. CopiesAgree(request')
  <2>1. ASSUME NEW s \in Requests, NEW t \in Requests, s # t,
               request'[s].session # NoSession, request'[t].session = request'[s].session
        PROVE  request'[s].conv \in Slots /\ request'[t].conv = request'[s].conv
    <3>1. s # r /\ t # r
      BY <1>1, <1>2, <2>1
    <3>2. request'[s] = request[s] /\ request'[t] = request[t]
      BY <1>1, <3>1
    <3> QED
      BY <1>3, <2>1, <3>2 DEF Apart, CopiesAgree
  <2> QED
    BY <2>1 DEF CopiesAgree
<1> QED
  BY <1>1, <1>3, <1>4, <1>5 DEF IInv, Apart

\* An attempt fails with a try left, or for good.
Again(q) == [q EXCEPT !.tries = @ + 1]

Gave(q, pc, category) == [Over(q, pc) EXCEPT !.cause = category]

GaveTarget(q, pc, category) == [Over(q, pc) EXCEPT !.targetCause = category]

LEMMA RetryStep ==
  ASSUME IInv, NEW r \in Requests, request[r].pc \in {"create", "foCreate", "call"},
         request' = [request EXCEPT ![r] = Again(request[r])],
         heap' = heap, recency' = recency
  PROVE  IInv'
<1> DEFINE q == request[r]
           n == q.tries + 1
           v == [q EXCEPT !.tries = n]
<1>1. Local(q) /\ Shaped(q) /\ q.pc \in {"create", "foCreate", "call"}
  BY RequestLocal
<1>2. HeapGoes(heap, heap')
  BY Quiet
<1>3. Place(q, v, q.pc)
  <2> HIDE DEF n
  <2> QED
    BY <1>1 DEF Shaped, Fields, SameTurn, Place
<1>4. v = Again(q)
  BY DEF Again
<1> HIDE DEF v
<1>5. SessionFit(v)
  BY <1>1, <1>3 DEF Place, SessionFit
<1>6. Onwards(q, v)
  BY <1>1, <1>3 DEF Place, Onwards
<1>7. Goes(q, v)
  BY <1>1, <1>3, <1>5, <1>6, MovesOn DEF Place
<1> QED
  BY <1>2, <1>4, <1>7, OrdinaryStep

LEMMA GivesUpStep ==
  ASSUME IInv, NEW r \in Requests, NEW v, request' = [request EXCEPT ![r] = v],
         Onwards(request[r], v), v.session = NoSession, v.pc \notin {"stream", "commit"},
         heap' = heap, recency' = recency
  PROVE  IInv'
<1>1. Local(request[r])
  BY RequestLocal
<1>2. HeapGoes(heap, heap')
  BY Quiet
<1>3. SessionFit(v)
  BY DEF SessionFit
<1>4. Goes(request[r], v)
  BY <1>1, <1>3, MovesOn
<1> QED
  BY <1>2, <1>4, OrdinaryStep

\* The fields of an attempt that is over, with the reason why.
LEMMA OverWith ==
  ASSUME NEW q, Shaped(q), NEW pc, NEW category
  PROVE  /\ SameTurn(q, Gave(q, pc, category)) /\ Gave(q, pc, category).pc = pc
         /\ Gave(q, pc, category).session = NoSession
         /\ SameTurn(q, GaveTarget(q, pc, category)) /\ GaveTarget(q, pc, category).pc = pc
         /\ GaveTarget(q, pc, category).session = NoSession
<1> DEFINE o == Over(q, pc)
           v == [o EXCEPT !.cause = category]
           w == [o EXCEPT !.targetCause = category]
<1>1. SameTurn(q, o) /\ o.pc = pc /\ o.session = NoSession
  BY OverFields DEF SameTurn
<1>2. v = Gave(q, pc, category) /\ w = GaveTarget(q, pc, category)
  BY DEF Gave, GaveTarget
<1> HIDE DEF o
<1>3. SameTurn(q, v) /\ v.pc = pc /\ v.session = NoSession
  BY <1>1 DEF SameTurn, Shaped, Fields
<1>4. SameTurn(q, w) /\ w.pc = pc /\ w.session = NoSession
  BY <1>1 DEF SameTurn, Shaped, Fields
<1> HIDE DEF v, w
<1> QED
  BY <1>2, <1>3, <1>4

LEMMA CreateStep ==
  ASSUME IInv, NEW r \in Requests, Create(r) PROVE IInv'
<1> DEFINE q == request[r]
<1>1. q.pc = "create" /\ Local(q) /\ Shaped(q) /\ heap' = heap /\ recency' = recency
  BY RequestLocal DEF Create
<1>2. ASSUME request' = [request EXCEPT ![r] =
               [q EXCEPT !.pc = "call", !.session = FreshSession(q.account),
                         !.parent = NoParent, !.prompt = q.incoming, !.tries = 0]]
      PROVE  IInv'
  <2> DEFINE session == FreshSession(q.account)
             prompt == q.incoming
             v == [q EXCEPT !.pc = "call", !.session = session,
                            !.parent = NoParent, !.prompt = prompt, !.tries = 0]
  <2>1. SameTurn(q, v) /\ v.pc = "call" /\ v.session = session
    <3> HIDE DEF session, prompt
    <3> QED
      BY <1>1 DEF Shaped, Fields, SameTurn
  <2>2. request' = [request EXCEPT ![r] = v]
    BY <1>2
  <2> HIDE DEF v
  <2>3. Onwards(q, v)
    BY <1>1, <2>1 DEF Onwards, Preparing, FoPcs
  <2>4. SessionFit(v)
    BY <2>1 DEF SessionFit
  <2>5. Local(v)
    BY <1>1, <2>3, <2>4, MovesLocal
  <2> QED
    BY <1>1, <2>1, <2>2, <2>5, FreshStep
<1>3. ASSUME request' = [request EXCEPT ![r].tries = @ + 1]
      PROVE  IInv'
  <2>1. request' = [request EXCEPT ![r] = Again(q)]
    BY <1>3 DEF Again
  <2> QED
    BY <1>1, <2>1, RetryStep
<1>4. ASSUME NEW category,
             request' = [request EXCEPT ![r] = Gave(q, "createFailed", category)]
      PROVE  IInv'
  <2> DEFINE v == Gave(q, "createFailed", category)
  <2>1. SameTurn(q, v) /\ v.pc = "createFailed" /\ v.session = NoSession
    BY <1>1, OverWith
  <2> HIDE DEF v
  <2>2. Onwards(q, v)
    BY <1>1, <2>1 DEF Onwards, Preparing, FoPcs
  <2>3. request' = [request EXCEPT ![r] = v]
    BY <1>4 DEF v
  <2> QED
    BY <1>1, <2>1, <2>2, <2>3, GivesUpStep
<1> QED
  BY <1>2, <1>3, <1>4 DEF Create, Gave

LEMMA FailoverCreateStep ==
  ASSUME IInv, NEW r \in Requests, FailoverCreate(r) PROVE IInv'
<1> DEFINE q == request[r]
<1>1. q.pc = "foCreate" /\ Local(q) /\ Shaped(q) /\ heap' = heap /\ recency' = recency
  BY RequestLocal DEF FailoverCreate
<1>2. ASSUME request' = [request EXCEPT ![r] =
               [q EXCEPT !.pc = "call", !.account = q.target, !.target = NoAccount,
                         !.session = FreshSession(q.target), !.parent = NoParent,
                         !.prompt = q.incoming, !.tries = 0, !.repaired = FALSE,
                         !.moves = @ + 1, !.cause = "none"]]
      PROVE  IInv'
  <2> DEFINE session == FreshSession(q.target)
             prompt == q.incoming
             target == q.target
             n == q.moves + 1
             v == [q EXCEPT !.pc = "call", !.account = target, !.target = NoAccount,
                            !.session = session, !.parent = NoParent,
                            !.prompt = prompt, !.tries = 0, !.repaired = FALSE,
                            !.moves = n, !.cause = "none"]
  <2>1. /\ Shaped(v) /\ v.pc = "call" /\ v.session = session /\ v.mode = q.mode
        /\ v.moves = n /\ v.rerun = q.rerun /\ v.charges = q.charges /\ v.conv = q.conv
    <3> HIDE DEF session, prompt, target, n
    <3> QED
      BY <1>1 DEF Shaped, Fields
  <2>2. request' = [request EXCEPT ![r] = v]
    BY <1>2
  <2> HIDE DEF v
  <2>3. MovesFit(v)
    BY <1>1, <2>1 DEF Local, MovesFit, Preparing
  <2>4. ChargesFit(v)
    BY <1>1, <2>1 DEF Local, ChargesFit, Charged
  <2>5. SessionFit(v) /\ ConvFit(v)
    BY <1>1, <2>1 DEF Local, SessionFit, ConvFit
  <2>6. Local(v)
    BY <2>1, <2>3, <2>4, <2>5 DEF Local
  <2> QED
    BY <1>1, <2>1, <2>2, <2>6, FreshStep
<1>3. ASSUME request' = [request EXCEPT ![r].tries = @ + 1]
      PROVE  IInv'
  <2>1. request' = [request EXCEPT ![r] = Again(q)]
    BY <1>3 DEF Again
  <2> QED
    BY <1>1, <2>1, RetryStep
<1>4. ASSUME NEW category,
             request' = [request EXCEPT ![r] = GaveTarget(q, "foFailed", category)]
      PROVE  IInv'
  <2> DEFINE v == GaveTarget(q, "foFailed", category)
  <2>1. SameTurn(q, v) /\ v.pc = "foFailed" /\ v.session = NoSession
    BY <1>1, OverWith
  <2> HIDE DEF v
  <2>2. Onwards(q, v)
    BY <1>1, <2>1 DEF Onwards, Preparing, FoPcs
  <2>3. request' = [request EXCEPT ![r] = v]
    BY <1>4 DEF v
  <2> QED
    BY <1>1, <2>1, <2>2, <2>3, GivesUpStep
<1>5. \/ request' = [request EXCEPT ![r] =
               [q EXCEPT !.pc = "call", !.account = q.target, !.target = NoAccount,
                         !.session = FreshSession(q.target), !.parent = NoParent,
                         !.prompt = q.incoming, !.tries = 0, !.repaired = FALSE,
                         !.moves = @ + 1, !.cause = "none"]]
      \/ request' = [request EXCEPT ![r].tries = @ + 1]
      \/ \E category \in Failures :
            request' = [request EXCEPT ![r] = GaveTarget(q, "foFailed", category)]
  BY DEF FailoverCreate, GaveTarget
<1> QED
  BY <1>2, <1>3, <1>4, <1>5

LEMMA DrainFailsStep ==
  ASSUME IInv, NEW r \in Requests, DrainFails(r) PROVE IInv'
<1> DEFINE q == request[r]
<1>1. q.pc = "call" /\ Local(q) /\ Shaped(q) /\ heap' = heap /\ recency' = recency
  BY RequestLocal DEF DrainFails
<1>2. ASSUME request' = [request EXCEPT ![r].tries = @ + 1]
      PROVE  IInv'
  <2>1. request' = [request EXCEPT ![r] = Again(q)]
    BY <1>2 DEF Again
  <2> QED
    BY <1>1, <2>1, RetryStep
<1>3. ASSUME NEW category,
             request' = [request EXCEPT ![r] = Gave(q, "fail", category)]
      PROVE  IInv'
  <2> DEFINE v == Gave(q, "fail", category)
  <2>1. SameTurn(q, v) /\ v.pc = "fail" /\ v.session = NoSession
    BY <1>1, OverWith
  <2> HIDE DEF v
  <2>2. Onwards(q, v)
    BY <1>1, <2>1 DEF Onwards, Preparing, FoPcs
  <2>3. request' = [request EXCEPT ![r] = v]
    BY <1>3 DEF v
  <2> QED
    BY <1>1, <2>1, <2>2, <2>3, GivesUpStep
<1> QED
  BY <1>2, <1>3 DEF DrainFails, Gave

\* A consequence is recorded, and the request is refused.
LEMMA PunishedStep ==
  ASSUME IInv, NEW r \in Requests, NEW a, NEW category, Consequence(a, category),
         request[r].pc \notin {"foSelect", "failed"},
         request' = [request EXCEPT ![r] = Refused(request[r], 1)]
  PROVE  IInv'
<1>1. HeapGoes(heap, heap') /\ recency' = recency
  BY ConsequenceGoes DEF IInv
<1>2. Affordable(request[r], 1)
  BY RequestLocal, Once
<1> QED
  BY <1>1, <1>2, RefusedStep

LEMMA CreateFailedStep ==
  ASSUME IInv, NEW r \in Requests, CreateFailed(r) PROVE IInv'
<1> DEFINE q == request[r]
           v == Charge(q, "foSelect")
<1>1. q.pc = "createFailed" /\ Local(q) /\ Shaped(q) /\ Consequence(q.account, q.cause)
  BY RequestLocal DEF CreateFailed
<1>2. \/ request' = [request EXCEPT ![r] = v]
      \/ request' = [request EXCEPT ![r] = Refused(q, 1)]
  BY DEF CreateFailed
<1>3. CASE request' = [request EXCEPT ![r] = v]
  <2>1. /\ Shaped(v) /\ v.pc = "foSelect" /\ v.session = NoSession
        /\ v.conv = q.conv /\ v.mode = q.mode /\ v.moves = q.moves /\ v.rerun = q.rerun
        /\ v.charges = q.charges + 1
    BY <1>1, ChargeFields
  <2> HIDE DEF v
  <2>2. MovesFit(v)
    BY <1>1, <2>1 DEF Local, MovesFit, Preparing
  <2>3. ChargesFit(v)
    BY <1>1, <2>1 DEF Local, ChargesFit, Charged
  <2>4. SessionFit(v) /\ ConvFit(v)
    BY <1>1, <2>1 DEF Local, SessionFit, ConvFit
  <2>5. Goes(q, v)
    BY <2>1, <2>2, <2>3, <2>4 DEF Goes, Local
  <2>6. HeapGoes(heap, heap') /\ recency' = recency
    BY <1>1, ConsequenceGoes DEF IInv
  <2> QED
    BY <1>3, <2>5, <2>6, OrdinaryStep
<1>4. CASE request' = [request EXCEPT ![r] = Refused(q, 1)]
  BY <1>1, <1>4, PunishedStep
<1> QED
  BY <1>2, <1>3, <1>4

LEMMA FailoverSelectStep ==
  ASSUME IInv, NEW r \in Requests, FailoverSelect(r) PROVE IInv'
<1> DEFINE q == request[r]
<1>1. q.pc = "foSelect" /\ Local(q) /\ Shaped(q)
  BY RequestLocal DEF FailoverSelect
<1>2. HeapGoes(heap, heap') /\ recency' = recency
  BY Quiet DEF FailoverSelect
<1>3. ASSUME NEW a, request' = [request EXCEPT ![r].pc = "foCreate", ![r].target = a,
                                               ![r].charges = 0]
      PROVE  IInv'
  <2> DEFINE v == [q EXCEPT !.pc = "foCreate", !.target = a, !.charges = 0]
  <2>1. request' = [request EXCEPT ![r] = v]
    BY <1>3
  <2>2. /\ Shaped(v) /\ v.pc = "foCreate" /\ v.session = q.session
        /\ v.conv = q.conv /\ v.mode = q.mode /\ v.moves = q.moves /\ v.rerun = q.rerun
        /\ v.charges = 0
    BY <1>1 DEF Shaped, Fields
  <2> HIDE DEF v
  <2>3. MovesFit(v)
    BY <1>1, <2>2 DEF Local, MovesFit, Preparing
  <2>4. ChargesFit(v)
    BY <2>2 DEF ChargesFit, Charged
  <2>5. SessionFit(v) /\ ConvFit(v)
    BY <1>1, <2>2 DEF Local, SessionFit, ConvFit
  <2>6. Goes(q, v)
    BY <2>2, <2>3, <2>4, <2>5 DEF Goes, Local
  <2> QED
    BY <1>2, <2>1, <2>6, OrdinaryStep
<1>4. CASE request' = [request EXCEPT ![r] = Refused(q, 0)]
  <2>1. Affordable(q, 0)
    BY <1>1, Once
  <2> QED
    BY <1>2, <1>4, <2>1, RefusedStep
<1> QED
  BY <1>3, <1>4 DEF FailoverSelect

LEMMA FailoverFailedStep ==
  ASSUME IInv, NEW r \in Requests, FailoverFailed(r) PROVE IInv'
  BY PunishedStep DEF FailoverFailed

LEMMA MidPunishStep ==
  ASSUME IInv, NEW r \in Requests, MidPunish(r) PROVE IInv'
  BY PunishedStep DEF MidPunish

\* The turn is answered.
LEMMA AnsweredStep ==
  ASSUME IInv, NEW r \in Requests, NEW answer \in Answer(request[r]),
         request[r].pc \in {"call", "stream"}, Accepted(request[r]),
         request' = [request EXCEPT ![r] = Answered(request[r], answer)],
         heap' = heap, recency' = recency
  PROVE  IInv'
<1>1. HeapGoes(heap, heap')
  BY Quiet
<1>2. Goes(request[r], Answered(request[r], answer))
  BY RequestLocal, AnsweredGoes
<1> QED
  BY <1>1, <1>2, OrdinaryStep

LEMMA DrainStep ==
  ASSUME IInv, NEW r \in Requests, Drain(r) PROVE IInv'
  BY AnsweredStep DEF Drain

LEMMA StreamFinishesStep ==
  ASSUME IInv, NEW r \in Requests, StreamFinishes(r) PROVE IInv'
<1>1. request[r].pc = "stream" /\ Accepted(request[r])
  BY RequestLocal DEF StreamFinishes, Local, SessionFit
<1> QED
  BY <1>1, AnsweredStep DEF StreamFinishes

LEMMA RepairRetryStep ==
  ASSUME IInv, NEW r \in Requests, RepairRetry(r) PROVE IInv'
<1> DEFINE q == request[r]
           prompt == q.prompt \o <<Hint>>
           v == [q EXCEPT !.repaired = TRUE, !.tries = 0, !.prompt = prompt]
<1>1. q.pc = "call" /\ Local(q) /\ Shaped(q)
  BY RequestLocal DEF RepairRetry
<1>2. HeapGoes(heap, heap') /\ recency' = recency
  BY Quiet DEF RepairRetry
<1>3. request' = [request EXCEPT ![r] = v]
  BY DEF RepairRetry
<1>4. Place(q, v, "call")
  <2> HIDE DEF prompt
  <2> QED
    BY <1>1 DEF Shaped, Fields, SameTurn, Place
<1> HIDE DEF v
<1>5. Goes(q, v)
  BY <1>1, <1>4, MovesOn DEF Preparing, FoPcs, Place, SessionFit, Onwards
<1> QED
  BY <1>2, <1>3, <1>5, OrdinaryStep

LEMMA PrimeStep ==
  ASSUME IInv, NEW r \in Requests, Prime(r) PROVE IInv'
<1> DEFINE q == request[r]
           v == [q EXCEPT !.pc = "stream", !.tries = 0]
<1>1. q.pc = "call" /\ q.mode = "stream" /\ Accepted(q) /\ Local(q) /\ Shaped(q)
  BY RequestLocal DEF Prime
<1>2. HeapGoes(heap, heap') /\ recency' = recency
  BY Quiet DEF Prime
<1>3. request' = [request EXCEPT ![r] = v]
  BY DEF Prime
<1>4. Place(q, v, "stream") /\ v.account = q.account /\ v.parent = q.parent
  BY <1>1 DEF Shaped, Fields, SameTurn, Place
<1> HIDE DEF v
<1>5. SessionFit(v)
  BY <1>1, <1>4 DEF SessionFit, Accepted, Place
<1>6. Onwards(q, v)
  BY <1>1, <1>4 DEF Onwards, Preparing, FoPcs, Place
<1>7. Goes(q, v)
  BY <1>1, <1>4, <1>5, <1>6, MovesOn DEF Place
<1> QED
  BY <1>2, <1>3, <1>7, OrdinaryStep

LEMMA PrimeFailsStep ==
  ASSUME IInv, NEW r \in Requests, PrimeFails(r) PROVE IInv'
<1> DEFINE q == request[r]
<1>1. q.pc = "call" /\ q.mode = "stream" /\ Local(q) /\ Shaped(q)
  BY RequestLocal DEF PrimeFails
<1>2. HeapGoes(heap, heap') /\ recency' = recency
  BY UnlinkStep DEF PrimeFails
<1>3. PICK category \in Failures :
        request' = [request EXCEPT ![r].pc = "primePunish", ![r].cause = category]
  BY DEF PrimeFails
<1> DEFINE v == [q EXCEPT !.pc = "primePunish", !.cause = category]
<1>4. request' = [request EXCEPT ![r] = v]
  BY <1>3
<1>5. Place(q, v, "primePunish")
  BY <1>1 DEF Shaped, Fields, SameTurn, Place
<1> HIDE DEF v
<1>6. Goes(q, v)
  BY <1>1, <1>5, MovesOn DEF Preparing, FoPcs, Place, SessionFit, Onwards
<1> QED
  BY <1>2, <1>4, <1>6, OrdinaryStep

LEMMA PrimePunishStep ==
  ASSUME IInv, NEW r \in Requests, PrimePunish(r) PROVE IInv'
<1> DEFINE q == request[r]
           n == q.tries + 1
           k == q.charges + 1
           u == [q EXCEPT !.pc = "call", !.tries = n, !.cause = "none", !.charges = k]
           v == Charge(q, "fail")
<1>1. q.pc = "primePunish" /\ Local(q) /\ Shaped(q) /\ Consequence(q.account, q.cause)
  BY RequestLocal DEF PrimePunish
<1>2. HeapGoes(heap, heap') /\ recency' = recency
  BY <1>1, ConsequenceGoes DEF IInv
<1>3. q.mode = "stream" /\ q.charges \in Nat
  BY <1>1 DEF Local, ChargesFit
<1>4. \/ request' = [request EXCEPT ![r] = u]
      \/ request' = [request EXCEPT ![r] = v]
  BY DEF PrimePunish
<1>5. /\ Shaped(u) /\ u.pc = "call" /\ u.session = q.session
      /\ u.conv = q.conv /\ u.mode = q.mode /\ u.moves = q.moves /\ u.rerun = q.rerun
      /\ u.charges = k
  <2> HIDE DEF n, k
  <2> QED
    BY <1>1 DEF Shaped, Fields
<1>6. /\ Shaped(v) /\ v.pc = "fail" /\ v.session = NoSession
      /\ v.conv = q.conv /\ v.mode = q.mode /\ v.moves = q.moves /\ v.rerun = q.rerun
      /\ v.charges = k
  BY <1>1, ChargeFields
<1> HIDE DEF u, v
<1>7. MovesFit(u) /\ MovesFit(v)
  BY <1>1, <1>5, <1>6 DEF Local, MovesFit, Preparing
<1>8. ChargesFit(u) /\ ChargesFit(v)
  BY <1>1, <1>3, <1>5, <1>6 DEF ChargesFit
<1>9. SessionFit(u) /\ SessionFit(v) /\ ConvFit(u) /\ ConvFit(v)
  BY <1>1, <1>5, <1>6 DEF Local, SessionFit, ConvFit
<1>10. Goes(q, u) /\ Goes(q, v)
  BY <1>5, <1>6, <1>7, <1>8, <1>9 DEF Goes, Local
<1> QED
  BY <1>2, <1>4, <1>10, OrdinaryStep

LEMMA StreamBreaksStep ==
  ASSUME IInv, NEW r \in Requests, StreamBreaks(r) PROVE IInv'
<1> DEFINE q == request[r]
<1>1. q.pc = "stream" /\ Local(q) /\ Shaped(q)
  BY RequestLocal DEF StreamBreaks
<1>2. HeapGoes(heap, heap') /\ recency' = recency
  BY UnlinkStep DEF StreamBreaks
<1>3. PICK category \in Failures :
        request' = [request EXCEPT ![r] = Gave(q, "midPunish", category)]
  BY DEF StreamBreaks, Gave
<1> DEFINE v == Gave(q, "midPunish", category)
<1>4. SameTurn(q, v) /\ v.pc = "midPunish" /\ v.session = NoSession
  BY <1>1, OverWith
<1> HIDE DEF v
<1>5. q.mode = "stream"
  BY <1>1 DEF Local, ChargesFit
<1>6. Onwards(q, v) /\ SessionFit(v)
  BY <1>1, <1>4, <1>5 DEF Onwards, Preparing, FoPcs, SessionFit
<1>7. Goes(q, v)
  BY <1>1, <1>4, <1>6, MovesOn
<1>8. request' = [request EXCEPT ![r] = v]
  BY <1>3 DEF v
<1> QED
  BY <1>2, <1>7, <1>8, OrdinaryStep

LEMMA FailTurnStep ==
  ASSUME IInv, NEW r \in Requests, FailTurn(r) PROVE IInv'
<1> DEFINE q == request[r]
           v == [q EXCEPT !.pc = "punish"]
<1>1. q.pc = "fail" /\ Local(q) /\ Shaped(q)
  BY RequestLocal DEF FailTurn
<1>2. HeapGoes(heap, heap') /\ recency' = recency
  BY UnlinkStep DEF FailTurn
<1>3. request' = [request EXCEPT ![r] = v]
  BY DEF FailTurn
<1>4. Place(q, v, "punish")
  BY <1>1 DEF Shaped, Fields, SameTurn, Place
<1> HIDE DEF v
<1>5. Goes(q, v)
  BY <1>1, <1>4, MovesOn DEF Preparing, FoPcs, Place, SessionFit, Onwards
<1> QED
  BY <1>2, <1>3, <1>5, OrdinaryStep

LEMMA PunishStep ==
  ASSUME IInv, NEW r \in Requests, Punish(r) PROVE IInv'
<1> DEFINE q == request[r]
           o == Charge(q, "foSelect")
           v == [o EXCEPT !.rerun = TRUE]
<1>1. q.pc = "punish" /\ Local(q) /\ Shaped(q) /\ Consequence(q.account, q.cause)
  BY RequestLocal DEF Punish
<1>2. \/ ~q.rerun /\ request' = [request EXCEPT ![r] = v]
      \/ request' = [request EXCEPT ![r] = Refused(q, 1)]
  BY DEF Punish
<1>3. CASE ~q.rerun /\ request' = [request EXCEPT ![r] = v]
  <2>1. /\ Shaped(o) /\ o.pc = "foSelect" /\ o.session = NoSession
        /\ o.conv = q.conv /\ o.mode = q.mode /\ o.moves = q.moves
        /\ o.charges = q.charges + 1
    BY <1>1, ChargeFields
  <2> HIDE DEF o
  <2>2. /\ Shaped(v) /\ v.pc = "foSelect" /\ v.session = NoSession
        /\ v.conv = q.conv /\ v.mode = q.mode /\ v.moves = q.moves /\ v.rerun = TRUE
        /\ v.charges = q.charges + 1
    BY <2>1 DEF Shaped, Fields
  <2> HIDE DEF v
  <2>3. MovesFit(v)
    <3>1. q.moves \in Nat /\ q.moves <= 1
      BY <1>1, <1>3 DEF Local, MovesFit
    <3>2. v.rerun \in BOOLEAN
      BY <2>2, Zenon
    <3>3. /\ v.moves \in Nat /\ v.moves <= 2 /\ v.moves <= (IF v.rerun THEN 1 ELSE 0)
          /\ v.moves <= (IF v.rerun THEN 2 ELSE 1)
      BY <2>2, <3>1
    <3> QED
      BY <2>2, <3>2, <3>3 DEF MovesFit, Preparing
  <2>4. ChargesFit(v)
    BY <1>1, <2>2 DEF Local, ChargesFit, Charged
  <2>5. SessionFit(v) /\ ConvFit(v)
    BY <1>1, <2>2 DEF Local, SessionFit, ConvFit
  <2>6. Goes(q, v)
    BY <2>2, <2>3, <2>4, <2>5 DEF Goes, Local
  <2>7. HeapGoes(heap, heap') /\ recency' = recency
    BY <1>1, ConsequenceGoes DEF IInv
  <2> QED
    BY <1>3, <2>6, <2>7, OrdinaryStep
<1>4. CASE request' = [request EXCEPT ![r] = Refused(q, 1)]
  BY <1>1, <1>4, PunishedStep
<1> QED
  BY <1>2, <1>3, <1>4

LEMMA RecordSuccessStep ==
  ASSUME IInv, NEW r \in Requests, RecordSuccess(r) PROVE IInv'
<1> DEFINE q == request[r]
           u == [q EXCEPT !.pc = "unlink"]
           v == [q EXCEPT !.pc = "done"]
<1>1. q.pc = "success" /\ Local(q) /\ Shaped(q)
  BY RequestLocal DEF RecordSuccess
<1>2. HeapGoes(heap, heap') /\ recency' = recency
  BY Quiet DEF RecordSuccess
<1>3. \/ request' = [request EXCEPT ![r] = u]
      \/ request' = [request EXCEPT ![r] = v]
  BY DEF RecordSuccess
<1>4. Place(q, u, "unlink") /\ Place(q, v, "done")
  BY <1>1 DEF Shaped, Fields, SameTurn, Place
<1> HIDE DEF u, v
<1>5. Goes(q, u)
  BY <1>1, <1>4, MovesOn DEF Preparing, FoPcs, Place, SessionFit, Onwards
<1>6. Goes(q, v)
  BY <1>1, <1>4, MovesOn DEF Preparing, FoPcs, Place, SessionFit, Onwards
<1> QED
  BY <1>2, <1>3, <1>5, <1>6, OrdinaryStep

LEMMA UnlinkRepairedStep ==
  ASSUME IInv, NEW r \in Requests, UnlinkRepaired(r) PROVE IInv'
<1> DEFINE q == request[r]
           v == [q EXCEPT !.pc = "done"]
<1>1. q.pc = "unlink" /\ Local(q) /\ Shaped(q)
  BY RequestLocal DEF UnlinkRepaired
<1>2. HeapGoes(heap, heap') /\ recency' = recency
  BY UnlinkStep DEF UnlinkRepaired
<1>3. request' = [request EXCEPT ![r] = v]
  BY DEF UnlinkRepaired
<1>4. Place(q, v, "done")
  BY <1>1 DEF Shaped, Fields, SameTurn, Place
<1> HIDE DEF v
<1>5. Goes(q, v)
  BY <1>1, <1>4, MovesOn DEF Preparing, FoPcs, Place, SessionFit, Onwards
<1> QED
  BY <1>2, <1>3, <1>5, OrdinaryStep

LEMMA GoneStep ==
  ASSUME IInv, NEW r \in Requests, Gone(r) PROVE IInv'
<1>1. HeapGoes(heap, heap') /\ recency' = recency
  BY SweptGoes DEF Gone, IInv
<1>2. request' = [request EXCEPT ![r] = Blank] /\ Goes(request[r], Blank)
  BY BlankLocal DEF Gone
<1> QED
  BY <1>1, <1>2, OrdinaryStep

\* What the operator and the clock do concerns no request.
LEMMA AccountStep ==
  ASSUME IInv, NEW a, Operate(a) \/ CooldownEnds(a) PROVE IInv'
<1>1. HeapGoes(heap, heap') /\ recency' = recency /\ request' = request
  <2>1. HeapGoes(heap, Unlinked(heap, BoundTo(a))) /\ HeapGoes(heap, heap)
    BY UnlinkedGoes, HeapStays DEF IInv
  <2> QED
    BY <2>1 DEF Operate, CooldownEnds
<1>2. Fades(request, request')
  BY <1>1 DEF Fades
<1>3. Apart(heap', request')
  BY <1>1, <1>2, ApartShrinks DEF IInv, HeapGoes
<1> QED
  BY <1>1, <1>3 DEF IInv, HeapGoes

\* A request copies the session of its conversation: whoever else has it is of
\* the same conversation.
LEMMA ReadSessionStep ==
  ASSUME IInv, NEW r \in Requests, ReadSession(r) PROVE IInv'
<1> DEFINE q == request[r]
           session == heap[q.conv].session
           v == [q EXCEPT !.pc = "parent", !.session = session]
<1>1. q.pc = "session" /\ Local(q) /\ Shaped(q) /\ q.conv \in Slots
  BY RequestLocal DEF ReadSession, Local, ConvFit
<1>2. heap' = heap /\ recency' = recency /\ request' = [request EXCEPT ![r] = v]
  BY DEF ReadSession
<1>3. SameTurn(q, v) /\ v.pc = "parent" /\ v.session = session /\ v.conv = q.conv
  <2> HIDE DEF session
  <2> QED
    BY <1>1 DEF Shaped, Fields, SameTurn
<1> HIDE DEF v
<1>4. Local(v)
  <2>1. Onwards(q, v) /\ SessionFit(v)
    BY <1>1, <1>3 DEF Onwards, Preparing, FoPcs, SessionFit
  <2> QED
    BY <1>1, <2>1, MovesLocal
<1>5. RequestsFit(request') /\ request'[r] = v
      /\ \A s \in Requests \ {r} : request'[s] = request[s]
  BY <1>2, <1>4, Becomes
<1>6. Apart(heap, request)
  BY DEF IInv
<1>7. CopiesFit(heap', request')
  <2>1. ASSUME NEW s \in Requests, NEW c \in Slots,
               request'[s].session # NoSession, heap'[c].session = request'[s].session
        PROVE  request'[s].conv = c
    <3>1. CASE s = r
      BY <1>1, <1>2, <1>3, <1>5, <1>6, <2>1, <3>1 DEF Apart, StoredApart
    <3>2. CASE s # r
      BY <1>2, <1>5, <1>6, <2>1, <3>2 DEF Apart, CopiesFit
    <3> QED
      BY <3>1, <3>2
  <2> QED
    BY <2>1 DEF CopiesFit
<1>8. CopiesAgree(request')
  <2>1. ASSUME NEW s \in Requests, NEW t \in Requests, s # t,
               request'[s].session # NoSession, request'[t].session = request'[s].session
        PROVE  request'[s].conv \in Slots /\ request'[t].conv = request'[s].conv
    <3>1. CASE s = r
      BY <1>1, <1>3, <1>5, <1>6, <2>1, <3>1 DEF Apart, CopiesFit
    <3>2. CASE t = r
      BY <1>1, <1>3, <1>5, <1>6, <2>1, <3>2 DEF Apart, CopiesFit
    <3>3. CASE s # r /\ t # r
      BY <1>5, <1>6, <2>1, <3>3 DEF Apart, CopiesAgree
    <3> QED
      BY <3>1, <3>2, <3>3
  <2> QED
    BY <2>1 DEF CopiesAgree
<1>9. StoredApart(heap')
  BY <1>2, <1>6 DEF Apart
<1> QED
  BY <1>2, <1>5, <1>7, <1>8, <1>9 DEF IInv, Apart

\* The conversation gets the session of its request, which nothing else has.
LEMMA CommitTurnStep ==
  ASSUME IInv, NEW r \in Requests, CommitTurn(r) PROVE IInv'
<1> DEFINE q == request[r]
           c == Target(q)
           row == Committed(q, c)
           v == [q EXCEPT !.pc = "success", !.conv = c]
           reachable == ToSet(recency') \union {c} \union HeldBy(Requests \ {r})
           g == [heap EXCEPT ![c] = row]
<1>1. q.pc = "commit" /\ Local(q) /\ Shaped(q)
  BY RequestLocal DEF CommitTurn
<1>2. /\ q.session # NoSession /\ q.session.owner = q.account /\ q.node.session = q.session
      /\ q.conv \in Slots \union {NoConv}
  BY <1>1 DEF Local, SessionFit, ConvFit
<1>3. c \in Slots /\ (q.conv \in Slots => c = q.conv)
  <2>1. NoConv \notin Slots
    BY SlotCount DEF NoConv
  <2> QED
    BY <1>2, <2>1, FreeSlotExists DEF Target
<1>4. request' = [request EXCEPT ![r] = v] /\ heap' = Swept(g, reachable)
  BY DEF CommitTurn
<1>5. /\ Shaped(v) /\ v.pc = "success" /\ v.conv = c /\ v.session = q.session
      /\ v.mode = q.mode /\ v.moves = q.moves /\ v.rerun = q.rerun /\ v.charges = q.charges
  <2> HIDE DEF c
  <2> QED
    BY <1>1 DEF Shaped, Fields
<1> HIDE DEF v
<1>6. Local(v)
  <2>1. MovesFit(v)
    BY <1>1, <1>5 DEF Local, MovesFit, Preparing
  <2>2. ChargesFit(v)
    BY <1>1, <1>5 DEF Local, ChargesFit, Charged
  <2>3. SessionFit(v) /\ ConvFit(v)
    BY <1>3, <1>5 DEF SessionFit, ConvFit
  <2> QED
    BY <1>5, <2>1, <2>2, <2>3 DEF Local
<1>7. RequestsFit(request') /\ request'[r] = v
      /\ \A s \in Requests \ {r} : request'[s] = request[s]
  BY <1>4, <1>6, Becomes
<1>8. Owned(row) /\ row.session = q.session
  BY <1>2 DEF Committed, Owned, ConvFields
<1> HIDE DEF row, reachable, c
<1>9. HeapFit(heap) /\ Apart(heap, request)
  BY DEF IInv
<1>10. /\ g = [d \in Slots |-> g[d]] /\ g[c] = row
       /\ \A d \in Slots \ {c} : g[d] = heap[d]
  BY <1>3, <1>9 DEF HeapFit
<1> HIDE DEF g
<1>11. HeapFit(g)
  BY <1>8, <1>9, <1>10 DEF HeapFit
<1>12. HeapFit(heap') /\ Shrinks(g, heap')
  BY <1>4, <1>11, SweptGoes DEF HeapGoes
<1>13. \A d \in Slots \ {c} : heap[d].session # q.session
  <2>1. ASSUME NEW d \in Slots \ {c}, heap[d].session = q.session PROVE FALSE
    <3>1. q.conv = d
      BY <1>2, <1>9, <2>1 DEF Apart, CopiesFit
    <3> QED
      BY <1>3, <2>1, <3>1
  <2> QED
    BY <2>1
<1>14. \A s \in Requests \ {r} : request[s].session = q.session => request[s].conv = c
  <2>1. ASSUME NEW s \in Requests \ {r}, request[s].session = q.session
        PROVE  request[s].conv = c
    <3>1. q.conv \in Slots /\ request[s].conv = q.conv
      BY <1>2, <1>9, <2>1 DEF Apart, CopiesAgree
    <3> QED
      BY <1>3, <3>1
  <2> QED
    BY <2>1
<1>15. StoredApart(g)
  <2>1. ASSUME NEW d \in Slots, NEW e \in Slots, d # e, g[d].session # NoSession
        PROVE  g[d].session # g[e].session
    <3>1. CASE d = c
      BY <1>8, <1>10, <1>13, <2>1, <3>1
    <3>2. CASE e = c
      BY <1>8, <1>10, <1>13, <2>1, <3>2
    <3>3. CASE d # c /\ e # c
      BY <1>9, <1>10, <2>1, <3>3 DEF Apart, StoredApart
    <3> QED
      BY <3>1, <3>2, <3>3
  <2> QED
    BY <2>1 DEF StoredApart
<1>16. CopiesFit(g, request')
  <2>1. ASSUME NEW s \in Requests, NEW d \in Slots,
               request'[s].session # NoSession, g[d].session = request'[s].session
        PROVE  request'[s].conv = d
    <3>1. CASE s = r
      BY <1>5, <1>7, <1>10, <1>13, <2>1, <3>1
    <3>2. CASE s # r /\ d = c
      BY <1>7, <1>8, <1>10, <1>14, <2>1, <3>2
    <3>3. CASE s # r /\ d # c
      BY <1>7, <1>9, <1>10, <2>1, <3>3 DEF Apart, CopiesFit
    <3> QED
      BY <3>1, <3>2, <3>3
  <2> QED
    BY <2>1 DEF CopiesFit
<1>17. CopiesAgree(request')
  <2>1. ASSUME NEW s \in Requests, NEW t \in Requests, s # t,
               request'[s].session # NoSession, request'[t].session = request'[s].session
        PROVE  request'[s].conv \in Slots /\ request'[t].conv = request'[s].conv
    <3>1. CASE s = r
      BY <1>3, <1>5, <1>7, <1>14, <2>1, <3>1
    <3>2. CASE t = r
      BY <1>3, <1>5, <1>7, <1>14, <2>1, <3>2
    <3>3. CASE s # r /\ t # r
      BY <1>7, <1>9, <2>1, <3>3 DEF Apart, CopiesAgree
    <3> QED
      BY <3>1, <3>2, <3>3
  <2> QED
    BY <2>1 DEF CopiesAgree
<1>18. Apart(heap', request')
  <2>1. Apart(g, request') /\ Fades(request', request')
    BY <1>15, <1>16, <1>17 DEF Apart, Fades
  <2> QED
    BY <1>12, <2>1, ApartShrinks
<1>19. RecencyFit(recency')
  <2>1. \/ recency' = Kept(Append(RemoveFirst(recency, c), c))
        \/ recency' = recency
    BY DEF CommitTurn, c
  <2>2. RecencyFit(recency) /\ recency \in Seq(Slots)
    BY DEF IInv, RecencyFit
  <2> QED
    BY <1>3, <2>1, <2>2, KeptFits
<1> QED
  BY <1>7, <1>12, <1>18, <1>19 DEF IInv

-----------------------------------------------------------------------------
(* The specification.                                                      *)

LEMMA InitIInv == Init => IInv
<1> HAVE Init
<1>1. RequestsFit(request)
  BY BlankLocal DEF Init, RequestsFit
<1>2. HeapFit(heap) /\ \A c \in Slots : heap[c].session = NoSession
  BY NewConvOwned DEF Init, HeapFit
<1>3. Apart(heap, request)
  <2>1. \A r \in Requests : request[r].session = NoSession
    BY DEF Init, Blank
  <2> QED
    BY <1>2, <2>1 DEF Apart, StoredApart, CopiesFit, CopiesAgree
<1>4. RecencyFit(recency)
  <2>1. recency = <<>> /\ MaxConvs \in Nat
    BY GatewayAssumption DEF Init
  <2> QED
    BY <2>1, EmptySeq DEF RecencyFit
<1> QED
  BY <1>1, <1>2, <1>3, <1>4 DEF IInv

LEMMA StepIInv ==
  ASSUME IInv, NEW r \in Requests, Step(r) PROVE IInv'
<1>1. ASSUME Resolve(r) PROVE IInv'
  BY <1>1, ResolveStep
<1>2. ASSUME CheckLink(r) PROVE IInv'
  BY <1>2, CheckLinkStep
<1>3. ASSUME DropLink(r) PROVE IInv'
  BY <1>3, DropLinkStep
<1>4. ASSUME ReadSession(r) PROVE IInv'
  BY <1>4, ReadSessionStep
<1>5. ASSUME ReadParent(r) PROVE IInv'
  BY <1>5, ReadParentStep
<1>6. ASSUME Rebind(r) PROVE IInv'
  BY <1>6, RebindStep
<1>7. ASSUME Select(r) PROVE IInv'
  BY <1>7, SelectStep
<1>8. ASSUME Create(r) PROVE IInv'
  BY <1>8, CreateStep
<1>9. ASSUME CreateFailed(r) PROVE IInv'
  BY <1>9, CreateFailedStep
<1>10. ASSUME FailoverSelect(r) PROVE IInv'
  BY <1>10, FailoverSelectStep
<1>11. ASSUME FailoverCreate(r) PROVE IInv'
  BY <1>11, FailoverCreateStep
<1>12. ASSUME FailoverFailed(r) PROVE IInv'
  BY <1>12, FailoverFailedStep
<1>13. ASSUME Drain(r) PROVE IInv'
  BY <1>13, DrainStep
<1>14. ASSUME RepairRetry(r) PROVE IInv'
  BY <1>14, RepairRetryStep
<1>15. ASSUME DrainFails(r) PROVE IInv'
  BY <1>15, DrainFailsStep
<1>16. ASSUME Prime(r) PROVE IInv'
  BY <1>16, PrimeStep
<1>17. ASSUME PrimeFails(r) PROVE IInv'
  BY <1>17, PrimeFailsStep
<1>18. ASSUME PrimePunish(r) PROVE IInv'
  BY <1>18, PrimePunishStep
<1>19. ASSUME StreamFinishes(r) PROVE IInv'
  BY <1>19, StreamFinishesStep
<1>20. ASSUME StreamBreaks(r) PROVE IInv'
  BY <1>20, StreamBreaksStep
<1>21. ASSUME MidPunish(r) PROVE IInv'
  BY <1>21, MidPunishStep
<1>22. ASSUME FailTurn(r) PROVE IInv'
  BY <1>22, FailTurnStep
<1>23. ASSUME Punish(r) PROVE IInv'
  BY <1>23, PunishStep
<1>24. ASSUME CommitTurn(r) PROVE IInv'
  BY <1>24, CommitTurnStep
<1>25. ASSUME RecordSuccess(r) PROVE IInv'
  BY <1>25, RecordSuccessStep
<1>26. ASSUME UnlinkRepaired(r) PROVE IInv'
  BY <1>26, UnlinkRepairedStep
<1>27. ASSUME Leave(r) PROVE IInv'
  BY <1>27, GoneStep DEF Leave
<1> QED
  BY <1>1, <1>2, <1>3, <1>4, <1>5, <1>6, <1>7, <1>8, <1>9, <1>10, <1>11, <1>12, <1>13,
     <1>14, <1>15, <1>16, <1>17, <1>18, <1>19, <1>20, <1>21, <1>22, <1>23, <1>24, <1>25,
     <1>26, <1>27 DEF Step

LEMMA NextIInv == IInv /\ [Next]_vars => IInv'
<1> HAVE IInv /\ [Next]_vars
<1>1. ASSUME NEW r \in Requests, Arrive(r) \/ Step(r) \/ Disconnect(r) PROVE IInv'
  <2>1. CASE Arrive(r)
    BY <2>1, ArriveStep
  <2>2. CASE Step(r)
    BY <2>2, StepIInv
  <2>3. CASE Disconnect(r)
    BY <2>3, GoneStep DEF Disconnect
  <2> QED
    BY <1>1, <2>1, <2>2, <2>3
<1>2. ASSUME NEW a \in Accounts, Operate(a) \/ CooldownEnds(a) PROVE IInv'
  BY <1>2, AccountStep
<1>3. CASE UNCHANGED vars
  BY <1>3 DEF vars, IInv
<1> QED
  BY <1>1, <1>2, <1>3 DEF Next, Turns

LEMMA Inductive == Spec => []IInv
  BY InitIInv, NextIInv, PTL DEF Spec

\* No request fails over more than twice, for any number of accounts, retries
\* and recoveries (server.py 696-790).
THEOREM FailoversBounded == Spec => []FailoverBounded
<1>1. IInv => FailoverBounded
  BY DEF IInv, RequestsFit, Local, MovesFit, FailoverBounded
<1> QED
  BY <1>1, Inductive, PTL

\* A drained turn charges each account it is given at most once, and none when
\* it is answered (accounts.py 294, server.py 608-610).
THEOREM DrainedTurnsChargeOnce == Spec => []DrainedChargedOnce
<1>1. IInv => DrainedChargedOnce
  BY DEF IInv, RequestsFit, Local, ChargesFit, DrainedChargedOnce
<1> QED
  BY <1>1, Inductive, PTL

\* A link names a session of the account its conversation is bound to, and a
\* message of that session, however many requests interleave (conversation.py
\* 353-395).
THEOREM LinksOwned == Spec => []LinkOwned
<1>1. IInv => LinkOwned
  <2> HAVE IInv
  <2>1. recency \in Seq(Slots)
    BY DEF IInv, RecencyFit
  <2>2. Stored \subseteq Slots
    BY <2>1, LenProperties, ElementOfSeq DEF Stored, ToSet
  <2>3. \A c \in Slots : Owned(heap[c])
    BY DEF IInv, HeapFit
  <2> QED
    BY <2>2, <2>3 DEF LinkOwned, Owned
<1> QED
  BY <1>1, Inductive, PTL

\* No two conversations thread into one upstream session, however many
\* requests continue one conversation or one that was evicted under them
\* (server.py 526-550).
THEOREM SessionsApart == Spec => []SessionsDistinct
<1>1. IInv => SessionsDistinct
  BY DEF IInv, Apart, StoredApart, SessionsDistinct
<1> QED
  BY <1>1, Inductive, PTL

-----------------------------------------------------------------------------
(* Type correctness.                                                       *)

Owners == Accounts \union {NoAccount}

\* The fleet is one whatever becomes of it.
LEMMA FleetStep ==
  ASSUME fleet \in Fleets, [Next]_vars
  PROVE  fleet' \in Fleets
<1>1. ASSUME NEW a, NEW category PROVE Failed(fleet, a, category) \in Fleets
  BY DEF Failed, Fleets
<1>2. ASSUME NEW a PROVE Succeeded(fleet, a) \in Fleets
  BY DEF Succeeded, Fleets
<1>3. ASSUME NEW a \in Accounts, Operate(a) \/ CooldownEnds(a) PROVE fleet' \in Fleets
  <2>1. ASSUME NEW on \in BOOLEAN PROVE Switched(fleet, a, on) \in Fleets
    BY DEF Switched, Fleets
  <2>2. Restored(fleet, a) \in Fleets
    BY DEF Restored, Fleets
  <2>3. Elapsed(fleet, {a}) \in Fleets
    BY DEF Elapsed, Fleets
  <2> QED
    BY <1>3, <2>1, <2>2, <2>3 DEF Operate, CooldownEnds
<1>4. ASSUME NEW r \in Requests, Arrive(r) \/ Step(r) \/ Disconnect(r)
      PROVE  \/ fleet' = fleet
             \/ \E a, category : fleet' = Failed(fleet, a, category)
             \/ \E a : fleet' = Succeeded(fleet, a)
  <2>1. CASE \/ Arrive(r) \/ Disconnect(r) \/ Resolve(r) \/ CheckLink(r) \/ DropLink(r)
             \/ ReadSession(r) \/ ReadParent(r) \/ Rebind(r) \/ Select(r) \/ Create(r)
             \/ FailoverSelect(r) \/ FailoverCreate(r)
    BY <2>1 DEF Arrive, Disconnect, Gone, Resolve, CheckLink, DropLink, ReadSession,
                ReadParent, Rebind, Select, Create, FailoverSelect, FailoverCreate
  <2>2. CASE \/ Drain(r) \/ RepairRetry(r) \/ DrainFails(r) \/ Prime(r) \/ PrimeFails(r)
             \/ StreamFinishes(r) \/ StreamBreaks(r) \/ FailTurn(r) \/ CommitTurn(r)
             \/ UnlinkRepaired(r) \/ Leave(r)
    BY <2>2 DEF Drain, RepairRetry, DrainFails, Prime, PrimeFails, StreamFinishes,
                StreamBreaks, FailTurn, CommitTurn, UnlinkRepaired, Leave, Gone
  <2>3. CASE \/ CreateFailed(r) \/ FailoverFailed(r) \/ PrimePunish(r) \/ MidPunish(r)
             \/ Punish(r) \/ RecordSuccess(r)
    BY <2>3 DEF CreateFailed, FailoverFailed, PrimePunish, MidPunish, Punish,
                RecordSuccess, Consequence
  <2> QED
    BY <1>4, <2>1, <2>2, <2>3 DEF Step
<1>5. CASE UNCHANGED vars
  BY <1>5 DEF vars
<1> QED
  BY <1>1, <1>2, <1>3, <1>4, <1>5 DEF Next, Turns

\* Dropping a link drops its parent.
Plain(conv) ==
  /\ conv.account \in Owners
  /\ conv.session = NoSession => conv.parent = NoParent

PlainHeap(h) == \A c \in Slots : Plain(h[c])

LEMMA NewConvPlain == Plain(NewConv)
  BY DEF Plain, NewConv, Owners

LEMMA UnlinkedPlain ==
  ASSUME NEW h, HeapFit(h), PlainHeap(h), NEW C
  PROVE  PlainHeap(Unlinked(h, C))
<1> SUFFICES ASSUME NEW c \in Slots PROVE Plain(Unlinked(h, C)[c])
  BY DEF PlainHeap
<1>1. CASE c \notin C
  BY <1>1 DEF Unlinked, PlainHeap
<1>2. CASE c \in C
  <2> DEFINE conv == h[c]
             bare == [conv EXCEPT !.session = NoSession, !.parent = NoParent]
  <2>1. Unlinked(h, C)[c] = bare
    BY <1>2 DEF Unlinked
  <2>2. conv = [f \in ConvFields |-> conv[f]] /\ conv.account \in Owners
    BY DEF HeapFit, Owned, PlainHeap, Plain
  <2> HIDE DEF conv
  <2>3. Plain(bare)
    BY <2>2 DEF ConvFields, Plain
  <2> HIDE DEF bare
  <2> QED
    BY <2>1, <2>3
<1> QED
  BY <1>1, <1>2

LEMMA SweptPlain ==
  ASSUME NEW h, PlainHeap(h), NEW reachable
  PROVE  PlainHeap(Swept(h, reachable))
  BY NewConvPlain DEF PlainHeap, Swept

\* A commit is the only step that puts anything into the store.
LEMMA StoreStep ==
  ASSUME IInv, PlainHeap(heap), NEW r \in Requests, Arrive(r) \/ Step(r) \/ Disconnect(r)
  PROVE  CommitTurn(r) \/ (PlainHeap(heap') /\ recency' = recency)
<1>1. HeapFit(heap)
  BY DEF IInv
<1>2. ASSUME NEW a, NEW category, Consequence(a, category)
      PROVE  PlainHeap(heap') /\ recency' = recency
  <2>1. PlainHeap(Unlinked(heap, BoundTo(a)))
    BY <1>1, UnlinkedPlain
  <2> QED
    BY <1>2, <2>1 DEF Consequence
<1>3. \A C : PlainHeap(Unlinked(heap, C))
  BY <1>1, UnlinkedPlain
<1>4. \A reachable : PlainHeap(Swept(heap, reachable))
  BY SweptPlain
<1>5. CASE \/ Arrive(r) \/ Resolve(r) \/ CheckLink(r) \/ ReadSession(r) \/ ReadParent(r)
           \/ Rebind(r) \/ Select(r) \/ Create(r) \/ FailoverSelect(r)
           \/ FailoverCreate(r)
  BY <1>5 DEF Arrive, Resolve, CheckLink, ReadSession, ReadParent, Rebind, Select, Create,
              FailoverSelect, FailoverCreate
<1>6. CASE \/ Drain(r) \/ RepairRetry(r) \/ DrainFails(r) \/ Prime(r)
           \/ StreamFinishes(r) \/ RecordSuccess(r)
  BY <1>6 DEF Drain, RepairRetry, DrainFails, Prime, StreamFinishes, RecordSuccess
<1>7. CASE DropLink(r) \/ PrimeFails(r) \/ StreamBreaks(r) \/ FailTurn(r) \/ UnlinkRepaired(r)
  BY <1>3, <1>7 DEF DropLink, PrimeFails, StreamBreaks, FailTurn, UnlinkRepaired
<1>8. CASE \/ CreateFailed(r) \/ FailoverFailed(r) \/ PrimePunish(r) \/ MidPunish(r)
           \/ Punish(r)
  BY <1>2, <1>8 DEF CreateFailed, FailoverFailed, PrimePunish, MidPunish, Punish
<1>9. CASE Disconnect(r) \/ Leave(r)
  BY <1>4, <1>9 DEF Disconnect, Leave, Gone
<1> QED
  BY <1>5, <1>6, <1>7, <1>8, <1>9 DEF Step

\* A request's account is one, or none, and it retries within its budget.
Sized(q) == q.account \in Owners /\ q.target \in Owners /\ q.tries \in 0..MaxRetries

Keeps(r) == \E v : request' = [request EXCEPT ![r] = v] /\ Sized(v)

LEMMA NoTries == 0 \in 0..MaxRetries /\ NoAccount \in Owners
  BY GatewayAssumption DEF Owners

LEMMA BlankSized == Sized(Blank)
  BY NoTries DEF Blank, Sized

LEMMA RefusedSized == \A q, cost : Sized(Refused(q, cost))
<1> TAKE q, cost
<1> DEFINE v == Refused(q, cost)
<1>1. v.account = NoAccount /\ v.target = NoAccount /\ v.tries = 0
  BY DEF Refused, Blank
<1> HIDE DEF v
<1>2. Sized(v)
  BY <1>1, NoTries DEF Sized
<1> QED
  BY <1>2 DEF v

LEMMA PcSized ==
  ASSUME NEW q, Shaped(q), Sized(q), NEW pc
  PROVE  Sized([q EXCEPT !.pc = pc])
  BY DEF Shaped, Fields, Sized

LEMMA AccountSized ==
  ASSUME NEW q, Shaped(q), Sized(q), NEW pc, NEW a \in Owners
  PROVE  Sized([q EXCEPT !.pc = pc, !.account = a])
  BY DEF Shaped, Fields, Sized

LEMMA OverSized ==
  ASSUME NEW q, Shaped(q), Sized(q), NEW pc
  PROVE  Shaped(Over(q, pc)) /\ Sized(Over(q, pc))
  BY NoTries DEF Shaped, Fields, Sized, Over

LEMMA ChargeSized ==
  ASSUME NEW q, Shaped(q), Sized(q), NEW pc
  PROVE  Shaped(Charge(q, pc)) /\ Sized(Charge(q, pc))
<1> DEFINE o == Over(q, pc)
           n == o.charges + 1
           v == [o EXCEPT !.charges = n]
<1>1. Shaped(o) /\ Sized(o)
  BY OverSized
<1>2. v = Charge(q, pc)
  BY DEF Charge
<1> HIDE DEF o, n
<1>3. Shaped(v) /\ Sized(v)
  BY <1>1 DEF Shaped, Fields, Sized
<1> HIDE DEF v
<1> QED
  BY <1>2, <1>3

LEMMA GaveSized ==
  ASSUME NEW q, Shaped(q), Sized(q), NEW pc, NEW category
  PROVE  Sized(Gave(q, pc, category)) /\ Sized(GaveTarget(q, pc, category))
<1> DEFINE o == Over(q, pc)
           v == [o EXCEPT !.cause = category]
           w == [o EXCEPT !.targetCause = category]
<1>1. Shaped(o) /\ Sized(o)
  BY OverSized
<1>2. v = Gave(q, pc, category) /\ w = GaveTarget(q, pc, category)
  BY DEF Gave, GaveTarget
<1> HIDE DEF o
<1>3. Sized(v) /\ Sized(w)
  BY <1>1 DEF Shaped, Fields, Sized
<1> HIDE DEF v, w
<1> QED
  BY <1>2, <1>3

LEMMA AgainSized ==
  ASSUME NEW q, Shaped(q), Sized(q), q.tries < MaxRetries
  PROVE  Sized(Again(q))
<1> DEFINE n == q.tries + 1
           v == [q EXCEPT !.tries = n]
<1>1. n \in 0..MaxRetries
  BY GatewayAssumption DEF Sized
<1>2. v = Again(q)
  BY DEF Again
<1> HIDE DEF n
<1>3. Sized(v)
  BY <1>1 DEF Shaped, Fields, Sized
<1> HIDE DEF v
<1> QED
  BY <1>2, <1>3

LEMMA PreparesSized ==
  ASSUME IInv, PlainHeap(heap), NEW r \in Requests, Sized(request[r]),
         \/ Arrive(r) \/ Resolve(r) \/ CheckLink(r) \/ DropLink(r) \/ ReadSession(r)
         \/ ReadParent(r) \/ Rebind(r) \/ Select(r)
  PROVE  Keeps(r)
<1> DEFINE q == request[r]
<1>1. Local(q) /\ Shaped(q) /\ Sized(q)
  BY RequestLocal
<1>2. CASE Arrive(r)
  <2>1. PICK mode \in Modes, incoming \in Histories :
          request' = [request EXCEPT ![r] =
            [Blank EXCEPT !.pc = "resolve", !.mode = mode, !.incoming = incoming]]
    BY <1>2 DEF Arrive
  <2> DEFINE v == [Blank EXCEPT !.pc = "resolve", !.mode = mode, !.incoming = incoming]
  <2>2. v.account = NoAccount /\ v.target = NoAccount /\ v.tries = 0
    BY DEF Blank
  <2>3. request' = [request EXCEPT ![r] = v]
    BY <2>1
  <2> HIDE DEF v
  <2> QED
    BY <2>2, <2>3, NoTries DEF Keeps, Sized
<1>3. ASSUME NEW pc, request' = [request EXCEPT ![r].pc = pc] PROVE Keeps(r)
  <2>1. request' = [request EXCEPT ![r] = [q EXCEPT !.pc = pc]]
    BY <1>3
  <2> QED
    BY <1>1, <2>1, PcSized DEF Keeps
<1>4. ASSUME NEW pc, NEW a \in Owners,
             request' = [request EXCEPT ![r].pc = pc, ![r].account = a]
      PROVE  Keeps(r)
  <2>1. request' = [request EXCEPT ![r] = [q EXCEPT !.pc = pc, !.account = a]]
    BY <1>4
  <2> QED
    BY <1>1, <2>1, AccountSized DEF Keeps
<1>5. CASE Resolve(r)
  <2>1. ASSUME NEW c, request' = [request EXCEPT ![r].pc = "link", ![r].conv = c,
                                                 ![r].known = Len(heap[c].messages)]
        PROVE  Keeps(r)
    <3> DEFINE n == Len(heap[c].messages)
               v == [q EXCEPT !.pc = "link", !.conv = c, !.known = n]
    <3>1. request' = [request EXCEPT ![r] = v]
      BY <2>1
    <3> HIDE DEF n
    <3>2. Sized(v)
      BY <1>1 DEF Shaped, Fields, Sized
    <3> HIDE DEF v
    <3> QED
      BY <3>1, <3>2 DEF Keeps
  <2> QED
    BY <1>3, <1>5, <2>1 DEF Resolve
<1>6. CASE CheckLink(r)
  <2> DEFINE a == heap[q.conv].account
             u == [q EXCEPT !.pc = "bound"]
             v == [q EXCEPT !.pc = "session", !.account = a]
             w == [q EXCEPT !.pc = "drop"]
             value == CASE heap[q.conv].session = NoSession -> u
                        [] heap[q.conv].session # NoSession /\ MayServe(fleet, a) -> v
                        [] OTHER -> w
  <2>1. request' = [request EXCEPT ![r] = value]
    BY <1>6 DEF CheckLink, IInv, RequestsFit
  <2>2. value \in {u, v, w}
    <3> HIDE DEF u, v, w
    <3> QED
      OBVIOUS
  <2>3. a \in Owners
    <3>1. q.conv \in Slots
      BY <1>1, <1>6 DEF CheckLink, Local, ConvFit
    <3> QED
      BY <3>1 DEF PlainHeap, Plain
  <2> HIDE DEF a, value
  <2>4. Sized(u) /\ Sized(v) /\ Sized(w)
    BY <1>1, <2>3, PcSized, AccountSized
  <2> HIDE DEF u, v, w
  <2> QED
    BY <2>1, <2>2, <2>4 DEF Keeps
<1>7. CASE DropLink(r)
  BY <1>3, <1>7 DEF DropLink
<1>8. CASE ReadSession(r)
  <2> DEFINE session == heap[q.conv].session
             v == [q EXCEPT !.pc = "parent", !.session = session]
  <2>1. request' = [request EXCEPT ![r] = v]
    BY <1>8 DEF ReadSession
  <2> HIDE DEF session
  <2>2. Sized(v)
    BY <1>1 DEF Shaped, Fields, Sized
  <2> HIDE DEF v
  <2> QED
    BY <2>1, <2>2 DEF Keeps
<1>9. CASE ReadParent(r)
  <2> DEFINE parent == heap[q.conv].parent
             prompt == Delta(q.incoming, q.known)
             v == [q EXCEPT !.pc = "call", !.parent = parent, !.known = 0,
                            !.prompt = prompt]
  <2>1. request' = [request EXCEPT ![r] = v]
    BY <1>9 DEF ReadParent
  <2> HIDE DEF parent, prompt
  <2>2. Sized(v)
    BY <1>1 DEF Shaped, Fields, Sized
  <2> HIDE DEF v
  <2> QED
    BY <2>1, <2>2 DEF Keeps
<1>10. CASE Rebind(r)
  <2> DEFINE a == heap[q.conv].account
  <2>1. a \in Owners
    <3>1. q.conv \in Slots
      BY <1>1, <1>10 DEF Rebind, Local, ConvFit
    <3> QED
      BY <3>1 DEF PlainHeap, Plain
  <2>2. \/ request' = [request EXCEPT ![r].pc = "create", ![r].account = a]
        \/ request' = [request EXCEPT ![r].pc = "select"]
    BY <1>10 DEF Rebind
  <2> HIDE DEF a
  <2> QED
    BY <1>3, <1>4, <2>1, <2>2
<1>11. CASE Select(r)
  <2>1. LeastActive \subseteq Owners
    BY DEF LeastActive, Usable, Owners
  <2>2. CASE request' = [request EXCEPT ![r] = Refused(q, 0)]
    BY <2>2, RefusedSized DEF Keeps
  <2> QED
    BY <1>4, <1>11, <2>1, <2>2 DEF Select
<1> QED
  BY <1>2, <1>5, <1>6, <1>7, <1>8, <1>9, <1>10, <1>11

LEMMA OpensSized ==
  ASSUME IInv, NEW r \in Requests, Sized(request[r]),
         \/ Create(r) \/ CreateFailed(r) \/ FailoverSelect(r) \/ FailoverCreate(r)
         \/ FailoverFailed(r)
  PROVE  Keeps(r)
<1> DEFINE q == request[r]
<1>1. Shaped(q) /\ Sized(q)
  BY RequestLocal
<1>2. ASSUME request' = [request EXCEPT ![r].tries = @ + 1], q.tries < MaxRetries
      PROVE  Keeps(r)
  <2>1. request' = [request EXCEPT ![r] = Again(q)]
    BY <1>2 DEF Again
  <2> QED
    BY <1>1, <1>2, <2>1, AgainSized DEF Keeps
<1>3. CASE Create(r)
  <2>1. ASSUME request' = [request EXCEPT ![r] =
                 [q EXCEPT !.pc = "call", !.session = FreshSession(q.account),
                           !.parent = NoParent, !.prompt = q.incoming, !.tries = 0]]
        PROVE  Keeps(r)
    <3> DEFINE session == FreshSession(q.account)
               prompt == q.incoming
               v == [q EXCEPT !.pc = "call", !.session = session,
                              !.parent = NoParent, !.prompt = prompt, !.tries = 0]
    <3>1. request' = [request EXCEPT ![r] = v]
      BY <2>1
    <3> HIDE DEF session, prompt
    <3>2. Sized(v)
      BY <1>1, NoTries DEF Shaped, Fields, Sized
    <3> HIDE DEF v
    <3> QED
      BY <3>1, <3>2 DEF Keeps
  <2>2. ASSUME NEW category,
               request' = [request EXCEPT ![r] = Gave(q, "createFailed", category)]
        PROVE  Keeps(r)
    BY <1>1, <2>2, GaveSized DEF Keeps
  <2> QED
    BY <1>2, <1>3, <2>1, <2>2 DEF Create, Gave
<1>4. CASE CreateFailed(r)
  <2>1. \/ request' = [request EXCEPT ![r] = Charge(q, "foSelect")]
        \/ request' = [request EXCEPT ![r] = Refused(q, 1)]
    BY <1>4 DEF CreateFailed
  <2> QED
    BY <1>1, <2>1, ChargeSized, RefusedSized DEF Keeps
<1>5. CASE FailoverSelect(r)
  <2>1. ASSUME NEW a \in Owners,
               request' = [request EXCEPT ![r].pc = "foCreate", ![r].target = a,
                                          ![r].charges = 0]
        PROVE  Keeps(r)
    <3> DEFINE v == [q EXCEPT !.pc = "foCreate", !.target = a, !.charges = 0]
    <3>1. request' = [request EXCEPT ![r] = v]
      BY <2>1
    <3>2. Sized(v)
      BY <1>1 DEF Shaped, Fields, Sized
    <3> HIDE DEF v
    <3> QED
      BY <3>1, <3>2 DEF Keeps
  <2>2. LeastActive \subseteq Owners
    BY DEF LeastActive, Usable, Owners
  <2>3. CASE request' = [request EXCEPT ![r] = Refused(q, 0)]
    BY <2>3, RefusedSized DEF Keeps
  <2> QED
    BY <1>5, <2>1, <2>2, <2>3 DEF FailoverSelect
<1>6. CASE FailoverCreate(r)
  <2>1. ASSUME request' = [request EXCEPT ![r] =
                 [q EXCEPT !.pc = "call", !.account = q.target, !.target = NoAccount,
                           !.session = FreshSession(q.target), !.parent = NoParent,
                           !.prompt = q.incoming, !.tries = 0, !.repaired = FALSE,
                           !.moves = @ + 1, !.cause = "none"]]
        PROVE  Keeps(r)
    <3> DEFINE a == q.target
               session == FreshSession(a)
               prompt == q.incoming
               n == q.moves + 1
               v == [q EXCEPT !.pc = "call", !.account = a, !.target = NoAccount,
                              !.session = session, !.parent = NoParent,
                              !.prompt = prompt, !.tries = 0, !.repaired = FALSE,
                              !.moves = n, !.cause = "none"]
    <3>1. request' = [request EXCEPT ![r] = v]
      BY <2>1
    <3>2. a \in Owners
      BY <1>1 DEF Sized
    <3> HIDE DEF a, session, prompt, n
    <3>3. Sized(v)
      BY <1>1, <3>2, NoTries DEF Shaped, Fields, Sized
    <3> HIDE DEF v
    <3> QED
      BY <3>1, <3>3 DEF Keeps
  <2>2. ASSUME NEW category,
               request' = [request EXCEPT ![r] = GaveTarget(q, "foFailed", category)]
        PROVE  Keeps(r)
    BY <1>1, <2>2, GaveSized DEF Keeps
  <2> QED
    BY <1>2, <1>6, <2>1, <2>2 DEF FailoverCreate, GaveTarget
<1>7. CASE FailoverFailed(r)
  BY <1>7, RefusedSized DEF FailoverFailed, Keeps
<1> QED
  BY <1>3, <1>4, <1>5, <1>6, <1>7

LEMMA RunsSized ==
  ASSUME IInv, NEW r \in Requests, Sized(request[r]),
         \/ Drain(r) \/ StreamFinishes(r) \/ RepairRetry(r) \/ DrainFails(r) \/ Prime(r)
         \/ PrimeFails(r) \/ PrimePunish(r) \/ StreamBreaks(r)
  PROVE  Keeps(r)
<1> DEFINE q == request[r]
<1>1. Shaped(q) /\ Sized(q)
  BY RequestLocal
<1>2. CASE Drain(r) \/ StreamFinishes(r)
  <2>1. PICK answer \in Answer(q) : request' = [request EXCEPT ![r] = Answered(q, answer)]
    BY <1>2 DEF Drain, StreamFinishes
  <2> DEFINE v == Answered(q, answer)
  <2>2. Sized(v)
    BY <1>1, NoTries DEF Answered, Shaped, Fields, Sized
  <2> HIDE DEF v
  <2>3. request' = [request EXCEPT ![r] = v]
    BY <2>1 DEF v
  <2> QED
    BY <2>2, <2>3 DEF Keeps
<1>3. CASE RepairRetry(r)
  <2> DEFINE prompt == q.prompt \o <<Hint>>
             v == [q EXCEPT !.repaired = TRUE, !.tries = 0, !.prompt = prompt]
  <2>1. request' = [request EXCEPT ![r] = v]
    BY <1>3 DEF RepairRetry
  <2> HIDE DEF prompt
  <2>2. Sized(v)
    BY <1>1, NoTries DEF Shaped, Fields, Sized
  <2> HIDE DEF v
  <2> QED
    BY <2>1, <2>2 DEF Keeps
<1>4. CASE DrainFails(r)
  <2>1. ASSUME request' = [request EXCEPT ![r].tries = @ + 1], q.tries < MaxRetries
        PROVE  Keeps(r)
    <3>1. request' = [request EXCEPT ![r] = Again(q)]
      BY <2>1 DEF Again
    <3> QED
      BY <1>1, <2>1, <3>1, AgainSized DEF Keeps
  <2>2. ASSUME NEW category, request' = [request EXCEPT ![r] = Gave(q, "fail", category)]
        PROVE  Keeps(r)
    BY <1>1, <2>2, GaveSized DEF Keeps
  <2> QED
    BY <1>4, <2>1, <2>2 DEF DrainFails, Gave
<1>5. CASE Prime(r)
  <2> DEFINE v == [q EXCEPT !.pc = "stream", !.tries = 0]
  <2>1. request' = [request EXCEPT ![r] = v]
    BY <1>5 DEF Prime
  <2>2. Sized(v)
    BY <1>1, NoTries DEF Shaped, Fields, Sized
  <2> HIDE DEF v
  <2> QED
    BY <2>1, <2>2 DEF Keeps
<1>6. CASE PrimeFails(r)
  <2>1. PICK category \in Failures :
          request' = [request EXCEPT ![r].pc = "primePunish", ![r].cause = category]
    BY <1>6 DEF PrimeFails
  <2> DEFINE v == [q EXCEPT !.pc = "primePunish", !.cause = category]
  <2>2. request' = [request EXCEPT ![r] = v]
    BY <2>1
  <2>3. Sized(v)
    BY <1>1 DEF Shaped, Fields, Sized
  <2> HIDE DEF v
  <2> QED
    BY <2>2, <2>3 DEF Keeps
<1>7. CASE PrimePunish(r)
  <2> DEFINE n == q.tries + 1
             k == q.charges + 1
             u == [q EXCEPT !.pc = "call", !.tries = n, !.cause = "none", !.charges = k]
  <2>1. \/ request' = [request EXCEPT ![r] = u] /\ q.tries < MaxRetries
        \/ request' = [request EXCEPT ![r] = Charge(q, "fail")]
    BY <1>7 DEF PrimePunish
  <2>2. q.tries < MaxRetries => n \in 0..MaxRetries
    BY <1>1, GatewayAssumption DEF Sized
  <2> HIDE DEF n, k
  <2>3. q.tries < MaxRetries => Sized(u)
    BY <1>1, <2>2 DEF Shaped, Fields, Sized
  <2> HIDE DEF u
  <2> QED
    BY <1>1, <2>1, <2>3, ChargeSized DEF Keeps
<1>8. CASE StreamBreaks(r)
  <2>1. PICK category \in Failures :
          request' = [request EXCEPT ![r] = Gave(q, "midPunish", category)]
    BY <1>8 DEF StreamBreaks, Gave
  <2> QED
    BY <1>1, <2>1, GaveSized DEF Keeps
<1> QED
  BY <1>2, <1>3, <1>4, <1>5, <1>6, <1>7, <1>8

LEMMA EndsSized ==
  ASSUME IInv, NEW r \in Requests, Sized(request[r]),
         \/ MidPunish(r) \/ FailTurn(r) \/ Punish(r) \/ CommitTurn(r) \/ RecordSuccess(r)
         \/ UnlinkRepaired(r) \/ Leave(r) \/ Disconnect(r)
  PROVE  Keeps(r)
<1> DEFINE q == request[r]
<1>1. Shaped(q) /\ Sized(q)
  BY RequestLocal
<1>2. ASSUME NEW pc, request' = [request EXCEPT ![r].pc = pc] PROVE Keeps(r)
  <2>1. request' = [request EXCEPT ![r] = [q EXCEPT !.pc = pc]]
    BY <1>2
  <2> QED
    BY <1>1, <2>1, PcSized DEF Keeps
<1>3. CASE FailTurn(r) \/ UnlinkRepaired(r)
  BY <1>2, <1>3 DEF FailTurn, UnlinkRepaired
<1>4. CASE RecordSuccess(r)
  BY <1>2, <1>4 DEF RecordSuccess
<1>5. CASE MidPunish(r) \/ Punish(r)
  <2> DEFINE o == Charge(q, "foSelect")
             v == [o EXCEPT !.rerun = TRUE]
  <2>1. \/ request' = [request EXCEPT ![r] = v]
        \/ request' = [request EXCEPT ![r] = Refused(q, 1)]
    BY <1>5 DEF MidPunish, Punish
  <2>2. Shaped(o) /\ Sized(o)
    BY <1>1, ChargeSized
  <2> HIDE DEF o
  <2>3. Sized(v)
    BY <2>2 DEF Shaped, Fields, Sized
  <2> HIDE DEF v
  <2> QED
    BY <2>1, <2>3, RefusedSized DEF Keeps
<1>6. CASE CommitTurn(r)
  <2> DEFINE c == Target(q)
             v == [q EXCEPT !.pc = "success", !.conv = c]
  <2>1. request' = [request EXCEPT ![r] = v]
    BY <1>6 DEF CommitTurn
  <2> HIDE DEF c
  <2>2. Sized(v)
    BY <1>1 DEF Shaped, Fields, Sized
  <2> HIDE DEF v
  <2> QED
    BY <2>1, <2>2 DEF Keeps
<1>7. CASE Leave(r) \/ Disconnect(r)
  BY <1>7, BlankSized DEF Leave, Disconnect, Gone, Keeps
<1> QED
  BY <1>3, <1>4, <1>5, <1>6, <1>7

\* The order of the store names each conversation once.
Distinct(order) == \A i, j \in 1..Len(order) : order[i] = order[j] => i = j

LEMMA RemovedAt ==
  ASSUME NEW order \in Seq(Slots), NEW c \in Slots, \E i \in 1..Len(order) : order[i] = c
  PROVE  \E k \in 1..Len(order) :
           /\ order[k] = c
           /\ Len(RemoveFirst(order, c)) = Len(order) - 1
           /\ \A i \in 1..(Len(order) - 1) :
                RemoveFirst(order, c)[i] = order[IF i < k THEN i ELSE i + 1]
<1> DEFINE rest == RemoveFirst(order, c)
           I == {i \in 1..Len(order) : order[i] = c}
           k == Min(I)
           n == Len(order)
           s == SubSeq(order, 1, k - 1)
           t == SubSeq(order, k + 1, n)
<1>1. n \in Nat /\ \A i \in 1..n : order[i] \in Slots
  BY LenProperties, ElementOfSeq
<1>2. I # {} /\ I \subseteq Nat
  BY <1>1
<1>3. k \in I
  <2>1. \E m \in I : \A j \in I : m <= j
    <3> HIDE DEF I
    <3> QED
      BY <1>2, LeastNatural
  <2> HIDE DEF I
  <2> QED
    BY <2>1 DEF Min
<1>4. rest = s \o t
  BY <1>2 DEF RemoveFirst, RemoveAt, SelectInSeq
<1>5. k \in 1..n /\ order[k] = c
  BY <1>3
<1> HIDE DEF k, n
<1>6. s \in Seq(Slots) /\ Len(s) = k - 1 /\ \A i \in 1..(k - 1) : s[i] = order[i]
  <2>1. 1 \in Int /\ k - 1 \in Int /\ \A i \in 1..(k - 1) : order[i] \in Slots
    BY <1>1, <1>5
  <2>2. /\ s \in Seq(Slots) /\ Len(s) = IF 1 <= k - 1 THEN (k - 1) - 1 + 1 ELSE 0
        /\ \A i \in 1..((k - 1) - 1 + 1) : s[i] = order[1 + i - 1]
    <3> HIDE DEF s
    <3> QED
      BY <2>1, SubSeqProperties DEF s
  <2> HIDE DEF s
  <2> QED
    BY <1>1, <1>5, <2>2
<1>7. t \in Seq(Slots) /\ Len(t) = n - k /\ \A i \in 1..(n - k) : t[i] = order[k + i]
  <2>1. k + 1 \in Int /\ n \in Int /\ \A i \in (k + 1)..n : order[i] \in Slots
    BY <1>1, <1>5
  <2>2. /\ t \in Seq(Slots) /\ Len(t) = IF k + 1 <= n THEN n - (k + 1) + 1 ELSE 0
        /\ \A i \in 1..(n - (k + 1) + 1) : t[i] = order[k + 1 + i - 1]
    <3> HIDE DEF t
    <3> QED
      BY <2>1, SubSeqProperties DEF t
  <2> HIDE DEF t
  <2> QED
    BY <1>1, <1>5, <2>2
<1> HIDE DEF s, t, rest
<1>8. /\ Len(rest) = n - 1
      /\ \A i \in 1..(n - 1) : rest[i] = IF i <= k - 1 THEN s[i] ELSE t[i - (k - 1)]
  BY <1>1, <1>4, <1>5, <1>6, <1>7, ConcatProperties
<1>9. ASSUME NEW i \in 1..(n - 1) PROVE rest[i] = order[IF i < k THEN i ELSE i + 1]
  <2>1. CASE i < k
    BY <1>1, <1>5, <1>6, <1>8, <2>1
  <2>2. CASE ~ (i < k)
    <3>1. i - (k - 1) \in 1..(n - k) /\ k + (i - (k - 1)) = i + 1 /\ ~ (i <= k - 1)
      BY <1>1, <1>5, <2>2
    <3>2. t[i - (k - 1)] = order[k + (i - (k - 1))]
      BY <1>7, <3>1
    <3> QED
      BY <1>8, <2>2, <3>1, <3>2
  <2> QED
    BY <2>1, <2>2
<1> QED
  BY <1>5, <1>8, <1>9 DEF rest, n

LEMMA RemovedApart ==
  ASSUME NEW order \in Seq(Slots), Distinct(order), NEW c \in Slots
  PROVE  /\ Distinct(RemoveFirst(order, c))
         /\ \A i \in 1..Len(RemoveFirst(order, c)) : RemoveFirst(order, c)[i] # c
<1> DEFINE rest == RemoveFirst(order, c)
           n == Len(order)
<1>1. n \in Nat
  BY LenProperties
<1>2. CASE ~ \E i \in 1..n : order[i] = c
  BY <1>2 DEF RemoveFirst
<1>3. CASE \E i \in 1..n : order[i] = c
  <2>1. PICK k \in 1..n :
          /\ order[k] = c /\ Len(rest) = n - 1
          /\ \A i \in 1..(n - 1) : rest[i] = order[IF i < k THEN i ELSE i + 1]
    BY <1>3, RemovedAt
  <2> HIDE DEF rest
  <2>2. ASSUME NEW i \in 1..(n - 1), NEW j \in 1..(n - 1), rest[i] = rest[j] PROVE i = j
    <3> DEFINE x == IF i < k THEN i ELSE i + 1
               y == IF j < k THEN j ELSE j + 1
    <3>1. x \in 1..n /\ y \in 1..n
      BY <1>1
    <3>2. order[x] = order[y]
      BY <2>1, <2>2
    <3> HIDE DEF n
    <3>3. x = y
      <4> HIDE DEF x, y
      <4> QED
        BY <3>1, <3>2 DEF Distinct, n
    <3> QED
      BY <1>1, <3>3
  <2>3. ASSUME NEW i \in 1..(n - 1) PROVE rest[i] # c
    <3> DEFINE x == IF i < k THEN i ELSE i + 1
    <3>1. x \in 1..n /\ x # k
      BY <1>1
    <3>2. rest[i] = order[x]
      BY <2>1
    <3> HIDE DEF x
    <3> QED
      BY <2>1, <3>1, <3>2 DEF Distinct
  <2>4. Distinct(rest) /\ \A i \in 1..Len(rest) : rest[i] # c
    BY <2>1, <2>2, <2>3 DEF Distinct
  <2> QED
    BY <2>4 DEF rest
<1> QED
  BY <1>2, <1>3

LEMMA KeptDistinct ==
  ASSUME NEW order \in Seq(Slots), Distinct(order), NEW c \in Slots
  PROVE  Distinct(Kept(Append(RemoveFirst(order, c), c)))
<1> DEFINE rest == RemoveFirst(order, c)
           new == Append(rest, c)
<1>1. rest \in Seq(Slots) /\ Distinct(rest) /\ \A i \in 1..Len(rest) : rest[i] # c
  BY RemoveFirstFits, RemovedApart
<1> HIDE DEF rest
<1>2. /\ Len(rest) \in Nat /\ new \in Seq(Slots) /\ Len(new) = Len(rest) + 1
      /\ \A i \in 1..Len(rest) : new[i] = rest[i]
      /\ new[Len(rest) + 1] = c
  BY <1>1, LenProperties, AppendProperties
<1> HIDE DEF new
<1>3. Distinct(new)
  <2> SUFFICES ASSUME NEW i \in 1..Len(new), NEW j \in 1..Len(new), new[i] = new[j]
               PROVE  i = j
    BY DEF Distinct
  <2>1. CASE i \in 1..Len(rest) /\ j \in 1..Len(rest)
    BY <1>1, <1>2, <2>1 DEF Distinct
  <2>2. CASE i \notin 1..Len(rest) \/ j \notin 1..Len(rest)
    BY <1>1, <1>2, <2>2
  <2> QED
    BY <2>1, <2>2
<1>4. CASE Len(new) <= MaxConvs
  <2>1. ~ (Len(new) > MaxConvs)
    BY <1>2, <1>4, GatewayAssumption
  <2>2. Kept(new) = new
    BY <2>1 DEF Kept
  <2> QED
    BY <1>3, <2>2 DEF new, rest
<1>5. CASE Len(new) > MaxConvs
  <2> DEFINE m == Len(new) - MaxConvs + 1
             kept == SubSeq(new, m, Len(new))
  <2>1. /\ Len(new) \in Nat /\ m \in Int /\ m >= 1
        /\ \A i \in m..Len(new) : new[i] \in Slots
    BY <1>2, <1>5, GatewayAssumption, ElementOfSeq
  <2>2. /\ Len(kept) = IF m <= Len(new) THEN Len(new) - m + 1 ELSE 0
        /\ \A i \in 1..(Len(new) - m + 1) : kept[i] = new[m + i - 1]
    <3> HIDE DEF m
    <3> QED
      BY <2>1, SubSeqProperties
  <2>3. Len(kept) = MaxConvs /\ Len(new) - m + 1 = MaxConvs
    <3> HIDE DEF kept
    <3> QED
      BY <1>5, <2>1, <2>2, GatewayAssumption
  <2>4. Distinct(kept)
    <3> SUFFICES ASSUME NEW i \in 1..MaxConvs, NEW j \in 1..MaxConvs, kept[i] = kept[j]
                 PROVE  i = j
      BY <2>3 DEF Distinct
    <3>1. new[m + i - 1] = new[m + j - 1]
      BY <2>2, <2>3
    <3>2. m + i - 1 \in 1..Len(new) /\ m + j - 1 \in 1..Len(new)
      BY <2>1, <2>3, GatewayAssumption
    <3>3. m + i - 1 = m + j - 1
      <4> HIDE DEF m
      <4> QED
        BY <1>3, <3>1, <3>2 DEF Distinct
    <3> QED
      BY <2>1, <3>3
  <2>5. Kept(new) = kept
    BY <1>5 DEF Kept
  <2> HIDE DEF kept
  <2> QED
    BY <2>4, <2>5 DEF new, rest
<1> QED
  BY <1>2, <1>4, <1>5, GatewayAssumption

LEMMA DistinctCount ==
  ASSUME NEW order \in Seq(Slots), Distinct(order)
  PROVE  Cardinality(ToSet(order)) = Len(order)
<1> DEFINE n == Len(order)
<1>1. n \in Nat /\ DOMAIN order = 1..n /\ order \in [1..n -> Slots]
  BY LenProperties
<1>2. order \in Bijection(1..n, ToSet(order))
  BY <1>1 DEF Bijection, Injection, Surjection, IsInjective, ToSet, Distinct
<1>3. ExistsBijection(1..n, ToSet(order))
  BY <1>2 DEF ExistsBijection
<1> QED
  BY <1>1, <1>3, FS_CountingElements

TInv ==
  /\ fleet \in Fleets /\ PlainHeap(heap) /\ Distinct(recency)
  /\ \A r \in Requests : Sized(request[r])

LEMMA InitTInv == Init => TInv
<1> HAVE Init
<1>1. fleet \in Fleets
  BY DEF Init, NewFleet, Fleets
<1>2. PlainHeap(heap)
  BY NewConvPlain DEF Init, PlainHeap
<1>3. Distinct(recency)
  BY DEF Init, Distinct
<1>4. \A r \in Requests : Sized(request[r])
  BY BlankSized DEF Init
<1> QED
  BY <1>1, <1>2, <1>3, <1>4 DEF TInv

LEMMA CommitPlain ==
  ASSUME IInv, TInv, NEW r \in Requests, CommitTurn(r)
  PROVE  PlainHeap(heap') /\ Distinct(recency')
<1> DEFINE q == request[r]
           c == Target(q)
           row == Committed(q, c)
           g == [heap EXCEPT ![c] = row]
<1>1. q.pc = "commit" /\ Local(q) /\ Sized(q)
  BY RequestLocal DEF CommitTurn, TInv
<1>2. c \in Slots
  <2>1. q.conv \in Slots \union {NoConv}
    BY <1>1 DEF Local, ConvFit
  <2> QED
    BY <2>1, FreeSlotExists DEF Target
<1>3. PlainHeap(heap')
  <2>1. Plain(row)
    BY <1>1 DEF Committed, Plain, Sized, Local, SessionFit
  <2>2. \E reachable : heap' = Swept(g, reachable)
    BY DEF CommitTurn
  <2> HIDE DEF row, c
  <2>3. PlainHeap(g)
    <3>1. g[c] = row /\ \A d \in Slots \ {c} : g[d] = heap[d]
      BY <1>2 DEF IInv, HeapFit
    <3> HIDE DEF g
    <3> QED
      BY <2>1, <3>1 DEF TInv, PlainHeap
  <2> HIDE DEF g
  <2> QED
    BY <2>2, <2>3, SweptPlain
<1>4. Distinct(recency')
  <2>1. \/ recency' = Kept(Append(RemoveFirst(recency, c), c))
        \/ recency' = recency
    BY DEF CommitTurn
  <2>2. recency \in Seq(Slots) /\ Distinct(recency)
    BY DEF IInv, RecencyFit, TInv
  <2> HIDE DEF c
  <2> QED
    BY <1>2, <2>1, <2>2, KeptDistinct
<1> QED
  BY <1>3, <1>4

LEMMA NextTInv == IInv /\ TInv /\ [Next]_vars => TInv'
<1> SUFFICES ASSUME IInv, TInv, [Next]_vars PROVE TInv'
  OBVIOUS
<1>1. fleet' \in Fleets
  BY FleetStep DEF TInv
<1>2. ASSUME NEW r \in Requests, Arrive(r) \/ Step(r) \/ Disconnect(r)
      PROVE  /\ PlainHeap(heap') /\ Distinct(recency')
             /\ \A s \in Requests : Sized(request'[s])
  <2>1. PlainHeap(heap') /\ Distinct(recency')
    BY <1>2, StoreStep, CommitPlain DEF TInv
  <2>2. Keeps(r)
    <3>1. PlainHeap(heap) /\ Sized(request[r])
      BY DEF TInv
    <3> QED
      BY <1>2, <3>1, PreparesSized, OpensSized, RunsSized, EndsSized DEF Step
  <2>3. PICK v : request' = [request EXCEPT ![r] = v] /\ Sized(v)
    BY <2>2 DEF Keeps
  <2>4. ASSUME NEW s \in Requests PROVE Sized(request'[s])
    <3>1. request'[s] = v \/ request'[s] = request[s]
      BY <2>3 DEF IInv, RequestsFit
    <3> QED
      BY <2>3, <3>1 DEF TInv
  <2> QED
    BY <2>1, <2>4
<1>3. ASSUME NEW a \in Accounts, Operate(a) \/ CooldownEnds(a)
      PROVE  /\ PlainHeap(heap') /\ Distinct(recency')
             /\ \A s \in Requests : Sized(request'[s])
  <2>1. request' = request /\ recency' = recency
    BY <1>3 DEF Operate, CooldownEnds
  <2>2. heap' = heap \/ heap' = Unlinked(heap, BoundTo(a))
    BY <1>3 DEF Operate, CooldownEnds
  <2>3. PlainHeap(heap')
    BY <2>2, UnlinkedPlain DEF TInv, IInv
  <2> QED
    BY <2>1, <2>3 DEF TInv
<1>4. CASE UNCHANGED vars
  BY <1>4 DEF vars, TInv
<1> QED
  BY <1>1, <1>2, <1>3, <1>4 DEF Next, Turns, TInv

\* However many requests hold, evict and commit conversations: the store lists
\* each once and no more than it may, every binding is to an account there is,
\* a dropped link leaves no parent, and no retry exceeds its budget
\* (conversation.py 353-441, reliability.py).
THEOREM GatewayTypeCorrect == Spec => []TypeOK
<1>1. IInv /\ TInv => TypeOK
  <2> SUFFICES ASSUME IInv, TInv PROVE TypeOK
    OBVIOUS
  <2>1. recency \in Seq(Slots) /\ Len(recency) <= MaxConvs /\ Distinct(recency)
    BY DEF IInv, RecencyFit, TInv
  <2>2. Stored \subseteq Slots
    BY <2>1, LenProperties, ElementOfSeq DEF Stored, ToSet
  <2>3. Cardinality(Stored) = Len(recency)
    BY <2>1, DistinctCount DEF Stored
  <2>4. \A c \in Slots : /\ heap[c].account \in Accounts \union {NoAccount}
                         /\ heap[c].session = NoSession => heap[c].parent = NoParent
    BY DEF TInv, PlainHeap, Plain, Owners
  <2>5. \A r \in Requests : /\ request[r].conv \in Slots \union {NoConv}
                            /\ request[r].tries \in 0..MaxRetries
    BY RequestLocal DEF TInv, Sized, Local, ConvFit
  <2> QED
    BY <2>1, <2>2, <2>3, <2>4, <2>5 DEF TypeOK, TInv
<1> QED
  BY <1>1, InitTInv, NextTInv, Inductive, PTL DEF Spec

-----------------------------------------------------------------------------
(***************************************************************************)
(* What upstream knows, as long as requests do not get into each other's   *)
(* way.  Two races are excluded, by name: two requests that hold one       *)
(* conversation, and a link that is dropped while a request reads it.      *)
(* Whatever else interleaves, a turn then runs in exactly the context the  *)
(* client sent.  One request at a time and an operator who disables nobody *)
(* are enough to exclude both.                                             *)
(***************************************************************************)

(* The two races.                                                          *)

\* resolve hands a conversation to one request at a time.
OneConversationEach ==
  \A r, s \in Requests :
     r # s /\ request[r].conv # NoConv => request[s].conv # request[r].conv

\* Between the check of a link and the reads of it.
Reading == {"session", "parent"}

\* The link a request reads is still there.
LinksHold ==
  \A r \in Requests :
     request[r].pc \in Reading => heap[request[r].conv].session # NoSession

Serial == OneConversationEach /\ LinksHold

-----------------------------------------------------------------------------
(* The invariant.                                                          *)

Said == (UNION {ToSet(h) : h \in Histories}) \union Replies \union {Hint}

Text == Seq(Said)

Words(q) ==
  /\ q.incoming \in Text /\ q.prompt \in Text /\ q.reply \in Text
  /\ q.parent.context \in Text /\ q.node.context \in Text
  /\ q.known \in Nat

\* What a request knows of the conversation it is about to continue.
Reads(q, h) ==
  /\ q.pc \in {"link", "session", "parent"} =>
       h[q.conv].messages \o Delta(q.incoming, q.known) = q.incoming
  /\ q.pc \in Reading => q.account = h[q.conv].account
  /\ q.pc = "parent" => q.session = h[q.conv].session

\* What it sends, and what it commits.
Runs(q) ==
  /\ q.repaired \in BOOLEAN
  /\ q.pc \in Preparing => ~q.repaired
  /\ q.pc \in {"call", "primePunish", "stream"} => UpstreamExact(q)
  /\ q.pc = "commit" /\ ~q.repaired => q.node.context = q.incoming \o q.reply

Turn(q, h) == Words(q) /\ Runs(q) /\ Reads(q, h)

WordsKept(h) == \A c \in Slots : h[c].messages \in Text /\ h[c].parent.context \in Text

\* Repaired, committed, and not yet unlinked.
Awaits(q, c) == q.conv = c /\ q.repaired /\ q.pc \in {"success", "unlink"}

Mirrors(h, p) ==
  \A c \in Slots : h[c].session # NoSession =>
     h[c].parent.context = h[c].messages \/ \E r \in Requests : Awaits(p[r], c)

SInv ==
  /\ \A r \in Requests : Turn(request[r], heap)
  /\ WordsKept(heap)
  /\ Mirrors(heap, request)

-----------------------------------------------------------------------------
(* Sequences.                                                              *)

LEMMA HistoryText == Histories \subseteq Text
<1> SUFFICES ASSUME NEW h \in Histories PROVE h \in Text
  OBVIOUS
<1>1. h \in Seq(ToSet(h))
  BY GatewayAssumption
<1>2. ToSet(h) \subseteq Said
  BY DEF Said
<1> QED
  BY <1>1, <1>2, SeqMonotonic DEF Text

LEMMA EmptyText == <<>> \in Text
  BY EmptySeq DEF Text

LEMMA OneText == \A m \in Said : <<m>> \in Text
  BY DEF Text

LEMMA JoinText == \A s, t \in Text : s \o t \in Text
  BY ConcatProperties DEF Text

LEMMA RegroupText == \A s, t, u \in Text : (s \o t) \o u = s \o (t \o u)
  BY ConcatAssociative DEF Text

LEMMA DeltaText ==
  ASSUME NEW t \in Text, NEW n \in Nat
  PROVE  Delta(t, n) \in Text
<1>1. n + 1 \in Int /\ Len(t) \in Int /\ \A i \in (n + 1)..Len(t) : t[i] \in Said
  BY LenProperties, ElementOfSeq DEF Text
<1> QED
  BY <1>1, SubSeqProperties DEF Delta, Text

\* What is known and what is new make up what came in.
LEMMA Continued ==
  ASSUME NEW s \in Text, NEW t \in Text, Continues(t, s)
  PROVE  s \o Delta(t, Len(s)) = t
<1> DEFINE k == Len(s)
           n == Len(t)
<1>1. k <= n /\ SubSeq(s, 1, k) = SubSeq(t, 1, k)
  BY DEF Continues, IsStrictPrefix, IsPrefix
<1>2. k \in Nat /\ n \in Nat
  BY LenProperties DEF Text
<1>3. SubSeq(s, 1, k) = s /\ SubSeq(t, 1, n) = t
  BY SubSeqFull DEF Text
<1>4. 1 \in 1..(n + 1) /\ k \in (1 - 1)..n /\ n \in k..n
  BY <1>1, <1>2
<1> HIDE DEF k, n
<1>5. SubSeq(t, 1, k) \o SubSeq(t, k + 1, n) = SubSeq(t, 1, n)
  <2>1. t \in Seq(Said)
    BY DEF Text
  <2>2. Len(t) = n
    BY DEF n
  <2> QED
    BY <1>4, <2>1, <2>2, ConcatAdjacentSubSeq
<1>6. Delta(t, Len(s)) = SubSeq(t, k + 1, n)
  BY DEF Delta, k, n
<1> QED
  BY <1>1, <1>3, <1>5, <1>6

-----------------------------------------------------------------------------
(* What others do to a conversation.                                       *)

\* It may lose its link; nothing else of it changes.
Spared(h, g, c) ==
  /\ g[c].messages = h[c].messages /\ g[c].account = h[c].account
  /\ \/ g[c].session = NoSession /\ g[c].parent = NoParent
     \/ g[c].session = h[c].session /\ g[c].parent = h[c].parent

LEMMA UnlinkedSpares ==
  ASSUME NEW h, HeapFit(h), NEW C
  PROVE  \A c \in Slots : Spared(h, Unlinked(h, C), c)
<1> SUFFICES ASSUME NEW c \in Slots PROVE Spared(h, Unlinked(h, C), c)
  OBVIOUS
<1> DEFINE g == Unlinked(h, C)
<1>1. CASE c \notin C
  <2>1. g[c] = h[c]
    BY <1>1 DEF Unlinked
  <2> HIDE DEF g
  <2>2. Spared(h, g, c)
    BY <2>1 DEF Spared
  <2> QED
    BY <2>2 DEF g
<1>2. CASE c \in C
  <2>1. g[c] = [h[c] EXCEPT !.session = NoSession, !.parent = NoParent]
    BY <1>2 DEF Unlinked
  <2>2. h[c] = [f \in ConvFields |-> h[c][f]]
    BY DEF HeapFit, Owned
  <2> HIDE DEF g
  <2>3. Spared(h, g, c)
    BY <2>1, <2>2 DEF Spared, ConvFields
  <2> QED
    BY <2>3 DEF g
<1> QED
  BY <1>1, <1>2

LEMMA SameSpares == \A h : \A c \in Slots : Spared(h, h, c)
  BY DEF Spared

LEMMA ConsequenceSpares ==
  ASSUME IInv, NEW a, NEW category, Consequence(a, category)
  PROVE  \A c \in Slots : Spared(heap, heap', c)
<1>1. HeapFit(heap)
  BY DEF IInv
<1>2. \A c \in Slots : Spared(heap, Unlinked(heap, BoundTo(a)), c)
  BY <1>1, UnlinkedSpares
<1> QED
  BY <1>2, SameSpares DEF Consequence

\* A request that goes on reading is told the truth.
LEMMA StillTurn ==
  ASSUME NEW q, NEW h, NEW g, Local(q), Turn(q, h),
         q.conv \in Slots => Spared(h, g, q.conv),
         q.pc \in Reading => g[q.conv].session # NoSession
  PROVE  Turn(q, g)
<1>1. q.pc \in {"link", "session", "parent"} => q.conv \in Slots
  BY DEF Local, ConvFit
<1>2. Reads(q, g)
  BY <1>1 DEF Turn, Reads, Spared, Reading
<1> QED
  BY <1>2 DEF Turn

\* What becomes of the store when a request goes on.
Yields(r) ==
  /\ \A c \in Slots : Spared(heap, heap', c) \/ heap'[c] = NewConv
  /\ \A s \in Requests \ {r} : request[s].conv \in Slots => Spared(heap, heap', request[s].conv)

\* No repair is forgotten while its link lives.
Minds(q, v) ==
  q.repaired /\ q.pc \in {"success", "unlink"} /\ q.conv \in Slots =>
    \/ v.conv = q.conv /\ v.repaired /\ v.pc \in {"success", "unlink"}
    \/ heap'[q.conv].session = NoSession

LEMMA NewConvWords == NewConv.messages \in Text /\ NewConv.parent.context \in Text
  BY EmptyText DEF NewConv, NoParent

LEMMA SerialStep ==
  ASSUME IInv, SInv, LinksHold', NEW r \in Requests, NEW v,
         request' = [request EXCEPT ![r] = v],
         Turn(v, heap'), Yields(r), Minds(request[r], v)
  PROVE  SInv'
<1>0. request'[r] = v /\ \A s \in Requests \ {r} : request'[s] = request[s]
  BY DEF IInv, RequestsFit
<1>1. ASSUME NEW s \in Requests PROVE Turn(request'[s], heap')
  <2>1. CASE s = r
    BY <1>0, <2>1
  <2>2. CASE s # r
    <3>1. request'[s] = request[s]
      BY <1>0, <2>2
    <3>2. Local(request[s]) /\ Turn(request[s], heap)
      BY RequestLocal DEF SInv
    <3>3. request[s].pc \in Reading => heap'[request[s].conv].session # NoSession
      BY <3>1 DEF LinksHold
    <3>4. request[s].conv \in Slots => Spared(heap, heap', request[s].conv)
      BY <2>2 DEF Yields
    <3>5. Turn(request[s], heap')
      BY <3>2, <3>3, <3>4, StillTurn
    <3> QED
      BY <3>1, <3>5
  <2> QED
    BY <2>1, <2>2
<1>2. WordsKept(heap')
  <2>1. NoParent.context \in Text
    BY EmptyText DEF NoParent
  <2> QED
    BY <2>1, NewConvWords DEF SInv, WordsKept, Yields, Spared
<1>3. Mirrors(heap', request')
  <2> SUFFICES ASSUME NEW c \in Slots, heap'[c].session # NoSession,
                      heap'[c].parent.context # heap'[c].messages
               PROVE  \E s \in Requests : Awaits(request'[s], c)
    BY DEF Mirrors
  <2>1. heap'[c] # NewConv
    BY NewConvOwned
  <2>2. Spared(heap, heap', c)
    BY <2>1 DEF Yields
  <2>3. heap[c].session # NoSession /\ heap[c].parent.context # heap[c].messages
    BY <2>2 DEF Spared
  <2>4. PICK s \in Requests : Awaits(request[s], c)
    BY <2>3 DEF SInv, Mirrors
  <2>5. CASE s # r
    BY <1>0, <2>4, <2>5
  <2>6. CASE s = r
    <3>1. Awaits(v, c)
      BY <2>4, <2>6 DEF Awaits, Minds
    <3> QED
      BY <1>0, <3>1
  <2> QED
    BY <2>5, <2>6
<1> QED
  BY <1>1, <1>2, <1>3 DEF SInv

-----------------------------------------------------------------------------
(* A request that comes to rest, or goes on as it was.                     *)

\* Where something is known of the conversation or of upstream.
Busy == {"link", "session", "parent", "call", "primePunish", "stream", "commit"}

\* No word is made up.
Carries(q, v) ==
  /\ v.incoming \in {q.incoming, <<>>} /\ v.prompt \in {q.prompt, <<>>}
  /\ v.reply \in {q.reply, <<>>} /\ v.known \in {q.known, 0}
  /\ v.parent \in {q.parent, NoParent} /\ v.node \in {q.node, NoParent}
  /\ v.repaired = q.repaired \/ v.repaired = FALSE

Rests(q, v) ==
  /\ Carries(q, v)
  /\ v.pc \notin Busy
  /\ v.pc \in Preparing => q.pc \in Preparing \/ v.repaired = FALSE

LEMMA RestingTurn ==
  ASSUME NEW q, NEW h, NEW g, NEW v, Turn(q, h), Rests(q, v)
  PROVE  Turn(v, g)
<1>1. Words(v)
  <2>1. NoParent.context \in Text /\ <<>> \in Text
    BY EmptyText DEF NoParent
  <2> QED
    BY <2>1 DEF Turn, Words, Rests, Carries
<1>2. v.repaired \in BOOLEAN
  BY DEF Turn, Runs, Rests, Carries
<1>3. v.pc \in Preparing => ~v.repaired
  <2>1. CASE v.repaired = FALSE
    BY <2>1
  <2>2. CASE v.repaired = q.repaired
    BY <2>2 DEF Turn, Runs, Rests
  <2> QED
    BY <2>1, <2>2 DEF Rests, Carries
<1>4. Runs(v) /\ Reads(v, g)
  BY <1>2, <1>3 DEF Rests, Busy, Runs, Reads, Reading
<1> QED
  BY <1>1, <1>4 DEF Turn

\* What the code does with a request that has no turn to run.
LEMMA PcCarries ==
  ASSUME NEW q, Shaped(q), NEW pc
  PROVE  LET v == [q EXCEPT !.pc = pc] IN
         /\ v.pc = pc /\ Carries(q, v) /\ v.repaired = q.repaired /\ v.conv = q.conv
         /\ v.account = q.account
  BY DEF Shaped, Fields, Carries

LEMMA AccountCarries ==
  ASSUME NEW q, Shaped(q), NEW pc, NEW a
  PROVE  LET v == [q EXCEPT !.pc = pc, !.account = a] IN
         v.pc = pc /\ Carries(q, v)
  BY DEF Shaped, Fields, Carries

LEMMA OverCarries ==
  ASSUME NEW q, Shaped(q), NEW pc
  PROVE  LET v == Over(q, pc) IN Shaped(v) /\ v.pc = pc /\ Carries(q, v)
  BY DEF Shaped, Fields, Carries, Over

LEMMA GaveCarries ==
  ASSUME NEW q, Shaped(q), NEW pc, NEW category
  PROVE  /\ Gave(q, pc, category).pc = pc /\ Carries(q, Gave(q, pc, category))
         /\ GaveTarget(q, pc, category).pc = pc /\ Carries(q, GaveTarget(q, pc, category))
<1> DEFINE o == Over(q, pc)
           v == [o EXCEPT !.cause = category]
           w == [o EXCEPT !.targetCause = category]
<1>1. Shaped(o) /\ o.pc = pc /\ Carries(q, o)
  BY OverCarries
<1>2. v = Gave(q, pc, category) /\ w = GaveTarget(q, pc, category)
  BY DEF Gave, GaveTarget
<1> HIDE DEF o
<1>3. v.pc = pc /\ Carries(q, v)
  BY <1>1 DEF Shaped, Fields, Carries
<1>4. w.pc = pc /\ Carries(q, w)
  BY <1>1 DEF Shaped, Fields, Carries
<1> HIDE DEF v, w
<1> QED
  BY <1>2, <1>3, <1>4

LEMMA ChargeCarries ==
  ASSUME NEW q, Shaped(q), NEW pc
  PROVE  Shaped(Charge(q, pc)) /\ Charge(q, pc).pc = pc /\ Carries(q, Charge(q, pc))
<1> DEFINE o == Over(q, pc)
           n == o.charges + 1
           v == [o EXCEPT !.charges = n]
<1>1. Shaped(o) /\ o.pc = pc /\ Carries(q, o)
  BY OverCarries
<1>2. v = Charge(q, pc)
  BY DEF Charge
<1> HIDE DEF o, n
<1>3. Shaped(v) /\ v.pc = pc /\ Carries(q, v)
  BY <1>1 DEF Shaped, Fields, Carries
<1> HIDE DEF v
<1> QED
  BY <1>2, <1>3

LEMMA RefusedRests == \A q, cost : Rests(q, Refused(q, cost))
<1> TAKE q, cost
<1> DEFINE v == Refused(q, cost)
<1>1. /\ v.pc = "failed" /\ v.incoming = <<>> /\ v.prompt = <<>> /\ v.reply = <<>>
      /\ v.known = 0 /\ v.parent = NoParent /\ v.node = NoParent /\ v.repaired = FALSE
  BY DEF Refused, Blank
<1> HIDE DEF v
<1>2. Rests(q, v)
  BY <1>1 DEF Rests, Carries, Busy, Preparing
<1> QED
  BY <1>2 DEF v

LEMMA RestStep ==
  ASSUME IInv, SInv, LinksHold', NEW r \in Requests, NEW v,
         request' = [request EXCEPT ![r] = v], Rests(request[r], v),
         request[r].pc \notin {"success", "unlink"},
         \A c \in Slots : Spared(heap, heap', c)
  PROVE  SInv'
<1>1. Turn(request[r], heap)
  BY DEF SInv
<1>2. Turn(v, heap')
  BY <1>1, RestingTurn
<1>3. Yields(r)
  BY DEF Yields
<1>4. Minds(request[r], v)
  BY DEF Minds
<1> QED
  BY <1>2, <1>3, <1>4, SerialStep

-----------------------------------------------------------------------------
(* The actions that find or make no turn.                                  *)

LEMMA QuietSpares ==
  ASSUME heap' = heap PROVE \A c \in Slots : Spared(heap, heap', c)
  BY SameSpares

LEMMA UnlinkSpares ==
  ASSUME IInv, NEW C, heap' = Unlinked(heap, C)
  PROVE  \A c \in Slots : Spared(heap, heap', c)
  BY UnlinkedSpares DEF IInv

LEMMA ArriveSerial ==
  ASSUME IInv, SInv, LinksHold', NEW r \in Requests, Arrive(r) PROVE SInv'
<1>1. PICK mode \in Modes, incoming \in Histories :
        request' = [request EXCEPT ![r] =
          [Blank EXCEPT !.pc = "resolve", !.mode = mode, !.incoming = incoming]]
  BY DEF Arrive
<1> DEFINE v == [Blank EXCEPT !.pc = "resolve", !.mode = mode, !.incoming = incoming]
<1>2. /\ v.pc = "resolve" /\ v.incoming = incoming /\ v.prompt = <<>> /\ v.reply = <<>>
      /\ v.known = 0 /\ v.parent = NoParent /\ v.node = NoParent /\ v.repaired = FALSE
  BY DEF Blank
<1>3. request' = [request EXCEPT ![r] = v] /\ heap' = heap /\ request[r].pc = "idle"
  BY <1>1 DEF Arrive
<1> HIDE DEF v
<1>4. Words(v)
  <2>1. incoming \in Text /\ <<>> \in Text /\ NoParent.context \in Text
    BY HistoryText, EmptyText DEF NoParent
  <2> QED
    BY <1>2, <2>1 DEF Words
<1>5. Turn(v, heap')
  BY <1>2, <1>4 DEF Turn, Runs, Reads, Reading
<1>6. Yields(r) /\ Minds(request[r], v)
  BY <1>3, QuietSpares DEF Yields, Minds
<1> QED
  BY <1>3, <1>5, <1>6, SerialStep

LEMMA ResolveSerial ==
  ASSUME IInv, SInv, LinksHold', NEW r \in Requests, Resolve(r) PROVE SInv'
<1> DEFINE q == request[r]
           found == BestMatches(Messages, Stored, q.incoming)
<1>1. q.pc = "resolve" /\ Shaped(q) /\ Turn(q, heap) /\ heap' = heap
  BY RequestLocal DEF Resolve, SInv
<1>2. \A c \in Slots : Spared(heap, heap', c)
  BY <1>1, QuietSpares
<1>3. CASE request' = [request EXCEPT ![r].pc = "select"]
  <2> DEFINE v == [q EXCEPT !.pc = "select"]
  <2>1. request' = [request EXCEPT ![r] = v]
    BY <1>3
  <2>2. v.pc = "select" /\ Carries(q, v)
    BY <1>1, PcCarries
  <2> HIDE DEF v
  <2>3. Rests(q, v)
    BY <1>1, <2>2 DEF Rests, Busy, Preparing
  <2> QED
    BY <1>1, <1>2, <2>1, <2>3, RestStep
<1>4. ASSUME NEW c \in found,
             request' = [request EXCEPT ![r].pc = "link", ![r].conv = c,
                                        ![r].known = Len(heap[c].messages)]
      PROVE  SInv'
  <2> DEFINE n == Len(heap[c].messages)
             v == [q EXCEPT !.pc = "link", !.conv = c, !.known = n]
  <2>1. c \in Slots
    <3>1. c \in Stored
      BY DEF BestMatches, Candidates
    <3>2. recency \in Seq(Slots)
      BY DEF IInv, RecencyFit
    <3> QED
      BY <3>1, <3>2, LenProperties, ElementOfSeq DEF Stored, ToSet
  <2>2. Continues(q.incoming, heap[c].messages)
    BY <2>1 DEF BestMatches, Candidates, Messages
  <2>3. heap[c].messages \in Text /\ q.incoming \in Text
    BY <1>1, <2>1 DEF SInv, WordsKept, Turn, Words
  <2>4. n \in Nat /\ heap[c].messages \o Delta(q.incoming, n) = q.incoming
    BY <2>2, <2>3, Continued, LenProperties DEF Text
  <2>5. request' = [request EXCEPT ![r] = v]
    BY <1>4
  <2> HIDE DEF n
  <2>6. /\ v.pc = "link" /\ v.conv = c /\ v.known = n /\ v.incoming = q.incoming
        /\ v.prompt = q.prompt /\ v.reply = q.reply /\ v.parent = q.parent
        /\ v.node = q.node /\ v.repaired = q.repaired
    BY <1>1 DEF Shaped, Fields
  <2> HIDE DEF v
  <2>7. Words(v)
    BY <1>1, <2>4, <2>6 DEF Turn, Words
  <2>8. Runs(v)
    BY <1>1, <2>6 DEF Turn, Runs, Preparing
  <2>9. Reads(v, heap')
    BY <1>1, <2>4, <2>6 DEF Reads, Reading
  <2>10. Yields(r) /\ Minds(q, v)
    BY <1>1, <1>2 DEF Yields, Minds
  <2> QED
    BY <2>5, <2>7, <2>8, <2>9, <2>10, SerialStep DEF Turn
<1> QED
  BY <1>3, <1>4 DEF Resolve

LEMMA CheckLinkSerial ==
  ASSUME IInv, SInv, LinksHold', NEW r \in Requests, CheckLink(r) PROVE SInv'
<1> DEFINE q == request[r]
           a == heap[q.conv].account
           u == [q EXCEPT !.pc = "bound"]
           v == [q EXCEPT !.pc = "session", !.account = a]
           w == [q EXCEPT !.pc = "drop"]
<1>1. q.pc = "link" /\ Shaped(q) /\ Turn(q, heap) /\ heap' = heap
  BY RequestLocal DEF CheckLink, SInv
<1>2. \A c \in Slots : Spared(heap, heap', c)
  BY <1>1, QuietSpares
<1>3. \/ request' = [request EXCEPT ![r] = u]
      \/ request' = [request EXCEPT ![r] = v]
      \/ request' = [request EXCEPT ![r] = w]
  <2> DEFINE value == CASE heap[q.conv].session = NoSession -> u
                        [] heap[q.conv].session # NoSession /\ MayServe(fleet, a) -> v
                        [] OTHER -> w
  <2>1. request' = [request EXCEPT ![r] = value]
    BY RequestLocal DEF CheckLink, IInv, RequestsFit
  <2>2. value \in {u, v, w}
    <3> HIDE DEF u, v, w
    <3> QED
      OBVIOUS
  <2> HIDE DEF value
  <2> QED
    BY <2>1, <2>2
<1>4. u.pc = "bound" /\ Carries(q, u) /\ w.pc = "drop" /\ Carries(q, w)
  BY <1>1, PcCarries
<1>5. /\ v.pc = "session" /\ v.account = a /\ v.conv = q.conv /\ v.incoming = q.incoming
      /\ v.known = q.known /\ v.prompt = q.prompt /\ v.reply = q.reply
      /\ v.parent = q.parent /\ v.node = q.node /\ v.repaired = q.repaired
  <2> HIDE DEF a
  <2> QED
    BY <1>1 DEF Shaped, Fields
<1> HIDE DEF u, v, w
<1>6. CASE request' = [request EXCEPT ![r] = u]
  <2>1. Rests(q, u)
    BY <1>1, <1>4 DEF Rests, Busy, Preparing
  <2> QED
    BY <1>1, <1>2, <1>6, <2>1, RestStep
<1>7. CASE request' = [request EXCEPT ![r] = w]
  <2>1. Rests(q, w)
    BY <1>1, <1>4 DEF Rests, Busy, Preparing
  <2> QED
    BY <1>1, <1>2, <1>7, <2>1, RestStep
<1>8. CASE request' = [request EXCEPT ![r] = v]
  <2>1. Words(v) /\ Runs(v)
    BY <1>1, <1>5 DEF Turn, Words, Runs, Preparing
  <2>2. Reads(v, heap')
    BY <1>1, <1>5 DEF Turn, Reads, Reading
  <2>3. Yields(r) /\ Minds(q, v)
    BY <1>1, <1>2 DEF Yields, Minds
  <2> QED
    BY <1>8, <2>1, <2>2, <2>3, SerialStep DEF Turn
<1> QED
  BY <1>3, <1>6, <1>7, <1>8

LEMMA DropLinkSerial ==
  ASSUME IInv, SInv, LinksHold', NEW r \in Requests, DropLink(r) PROVE SInv'
<1> DEFINE q == request[r]
           v == [q EXCEPT !.pc = "bound"]
<1>1. q.pc = "drop" /\ Shaped(q) /\ request' = [request EXCEPT ![r] = v]
  BY RequestLocal DEF DropLink
<1>2. \A c \in Slots : Spared(heap, heap', c)
  BY UnlinkSpares DEF DropLink
<1>3. v.pc = "bound" /\ Carries(q, v)
  BY <1>1, PcCarries
<1> HIDE DEF v
<1>4. Rests(q, v)
  BY <1>1, <1>3 DEF Rests, Busy, Preparing
<1> QED
  BY <1>1, <1>2, <1>4, RestStep

LEMMA RebindSerial ==
  ASSUME IInv, SInv, LinksHold', NEW r \in Requests, Rebind(r) PROVE SInv'
<1> DEFINE q == request[r]
           a == heap[q.conv].account
           u == [q EXCEPT !.pc = "create", !.account = a]
           v == [q EXCEPT !.pc = "select"]
<1>1. q.pc = "bound" /\ Shaped(q) /\ heap' = heap
  BY RequestLocal DEF Rebind
<1>2. \A c \in Slots : Spared(heap, heap', c)
  BY <1>1, QuietSpares
<1>3. \/ request' = [request EXCEPT ![r] = u]
      \/ request' = [request EXCEPT ![r] = v]
  BY DEF Rebind
<1>4. u.pc = "create" /\ Carries(q, u)
  <2> HIDE DEF a
  <2> QED
    BY <1>1, AccountCarries
<1>5. v.pc = "select" /\ Carries(q, v)
  BY <1>1, PcCarries
<1> HIDE DEF u, v
<1>6. Rests(q, u) /\ Rests(q, v)
  BY <1>1, <1>4, <1>5 DEF Rests, Busy, Preparing
<1> QED
  BY <1>1, <1>2, <1>3, <1>6, RestStep

LEMMA RefusedSerial ==
  ASSUME IInv, SInv, LinksHold', NEW r \in Requests, NEW cost,
         request' = [request EXCEPT ![r] = Refused(request[r], cost)],
         request[r].pc \notin {"success", "unlink"},
         \A c \in Slots : Spared(heap, heap', c)
  PROVE  SInv'
<1> DEFINE v == Refused(request[r], cost)
<1>1. Rests(request[r], v)
  BY RefusedRests
<1> HIDE DEF v
<1>2. request' = [request EXCEPT ![r] = v]
  BY DEF v
<1> QED
  BY <1>1, <1>2, RestStep

LEMMA SelectSerial ==
  ASSUME IInv, SInv, LinksHold', NEW r \in Requests, Select(r) PROVE SInv'
<1> DEFINE q == request[r]
<1>1. q.pc = "select" /\ Shaped(q) /\ heap' = heap
  BY RequestLocal DEF Select
<1>2. \A c \in Slots : Spared(heap, heap', c)
  BY <1>1, QuietSpares
<1>3. ASSUME NEW a, request' = [request EXCEPT ![r].pc = "create", ![r].account = a]
      PROVE  SInv'
  <2> DEFINE v == [q EXCEPT !.pc = "create", !.account = a]
  <2>1. request' = [request EXCEPT ![r] = v]
    BY <1>3
  <2>2. v.pc = "create" /\ Carries(q, v)
    BY <1>1, AccountCarries
  <2> HIDE DEF v
  <2>3. Rests(q, v)
    BY <1>1, <2>2 DEF Rests, Busy, Preparing
  <2> QED
    BY <1>1, <1>2, <2>1, <2>3, RestStep
<1>4. CASE request' = [request EXCEPT ![r] = Refused(q, 0)]
  BY <1>1, <1>2, <1>4, RefusedSerial
<1> QED
  BY <1>3, <1>4 DEF Select

-----------------------------------------------------------------------------
(* The reads of a link.                                                    *)

LEMMA ReadSessionSerial ==
  ASSUME IInv, SInv, LinksHold', NEW r \in Requests, ReadSession(r) PROVE SInv'
<1> DEFINE q == request[r]
           session == heap[q.conv].session
           v == [q EXCEPT !.pc = "parent", !.session = session]
<1>1. q.pc = "session" /\ Shaped(q) /\ Turn(q, heap) /\ heap' = heap
  BY RequestLocal DEF ReadSession, SInv
<1>2. request' = [request EXCEPT ![r] = v]
  BY DEF ReadSession
<1>3. /\ v.pc = "parent" /\ v.session = session /\ v.account = q.account
      /\ v.conv = q.conv /\ v.incoming = q.incoming
      /\ v.known = q.known /\ v.prompt = q.prompt /\ v.reply = q.reply
      /\ v.parent = q.parent /\ v.node = q.node /\ v.repaired = q.repaired
  <2> HIDE DEF session
  <2> QED
    BY <1>1 DEF Shaped, Fields
<1> HIDE DEF v
<1>4. Words(v) /\ Runs(v)
  BY <1>1, <1>3 DEF Turn, Words, Runs, Preparing
<1>5. Reads(v, heap')
  BY <1>1, <1>3 DEF Turn, Reads, Reading
<1>6. Yields(r) /\ Minds(q, v)
  BY <1>1, QuietSpares DEF Yields, Minds
<1> QED
  BY <1>2, <1>4, <1>5, <1>6, SerialStep DEF Turn

\* What a stored conversation and the rest of a history make up.
LEMMA ReadParentSerial ==
  ASSUME IInv, SInv, Serial, LinksHold', NEW r \in Requests, ReadParent(r) PROVE SInv'
<1> DEFINE q == request[r]
           conv == heap[q.conv]
           parent == conv.parent
           prompt == Delta(q.incoming, q.known)
           v == [q EXCEPT !.pc = "call", !.parent = parent, !.known = 0, !.prompt = prompt]
<1>1. q.pc = "parent" /\ Local(q) /\ Shaped(q) /\ Turn(q, heap) /\ heap' = heap
  BY RequestLocal DEF ReadParent, SInv
<1>2. request' = [request EXCEPT ![r] = v]
  BY DEF ReadParent
<1>3. /\ v.pc = "call" /\ v.session = q.session /\ v.account = q.account
      /\ v.conv = q.conv /\ v.incoming = q.incoming
      /\ v.known = 0 /\ v.prompt = prompt /\ v.reply = q.reply
      /\ v.parent = parent /\ v.node = q.node /\ v.repaired = q.repaired
  <2> HIDE DEF parent, prompt
  <2> QED
    BY <1>1 DEF Shaped, Fields
<1> HIDE DEF v
<1>4. q.conv \in Slots /\ q.conv # NoConv
  BY <1>1, SlotCount DEF Local, ConvFit, NoConv
<1>5. conv.session # NoSession /\ q.session = conv.session /\ q.account = conv.account
  BY <1>1 DEF Serial, LinksHold, Reading, Turn, Reads
<1>6. Owned(conv)
  BY <1>4 DEF IInv, HeapFit
<1>7. parent.context = conv.messages
  <2>1. ASSUME NEW s \in Requests, Awaits(request[s], q.conv) PROVE FALSE
    <3>1. s # r
      BY <1>1, <2>1 DEF Awaits
    <3> QED
      BY <1>4, <2>1, <3>1 DEF Serial, OneConversationEach, Awaits
  <2> QED
    BY <1>4, <1>5, <2>1 DEF SInv, Mirrors
<1>8. parent.context \in Text /\ prompt \in Text
  BY <1>1, <1>4, DeltaText DEF SInv, WordsKept, Turn, Words
<1>9. Words(v)
  BY <1>1, <1>3, <1>8 DEF Turn, Words
<1>10. ~q.repaired
  BY <1>1 DEF Turn, Runs, Preparing
<1>11. UpstreamExact(v)
  <2>1. Accepted(v)
    BY <1>3, <1>5, <1>6 DEF Accepted, Owned
  <2>2. conv.messages \o prompt = q.incoming
    BY <1>1 DEF Turn, Reads
  <2>3. Sent(v) = q.incoming
    BY <1>3, <1>7, <2>2 DEF Sent
  <2>4. q.incoming \o <<>> = q.incoming
    BY <1>1, ConcatEmptySeq DEF Turn, Words, Text
  <2> QED
    BY <1>3, <1>10, <2>1, <2>3, <2>4 DEF UpstreamExact
<1>12. Runs(v)
  BY <1>1, <1>3, <1>10, <1>11 DEF Turn, Runs, Preparing
<1>13. Reads(v, heap')
  BY <1>3 DEF Reads, Reading
<1>14. Yields(r) /\ Minds(q, v)
  BY <1>1, QuietSpares DEF Yields, Minds
<1> QED
  BY <1>2, <1>9, <1>12, <1>13, <1>14, SerialStep DEF Turn

-----------------------------------------------------------------------------
(* New sessions.                                                           *)

\* A session nobody has used is sent the whole history.
LEMMA FreshTurn ==
  ASSUME IInv, NEW q, NEW h, Turn(q, h), NEW v, NEW a, NEW g,
         v.pc = "call", v.session = FreshSession(a), v.account = a,
         v.parent = NoParent, v.prompt = q.incoming, v.incoming = q.incoming,
         v.known = q.known, v.reply = q.reply, v.node = q.node, v.repaired = FALSE
  PROVE  Turn(v, g)
<1>1. <<>> \in Text /\ NoParent.context = <<>> /\ q.incoming \in Text
  BY EmptyText DEF NoParent, Turn, Words
<1>2. Words(v)
  BY <1>1 DEF Turn, Words
<1>3. UpstreamExact(v)
  <2>1. Accepted(v)
    BY FreshUnused DEF Accepted
  <2>2. <<>> \o q.incoming = q.incoming /\ q.incoming \o <<>> = q.incoming
    BY <1>1, ConcatEmptySeq DEF Text
  <2>3. Sent(v) = q.incoming
    BY <1>1, <2>2 DEF Sent
  <2> QED
    BY <2>1, <2>2, <2>3 DEF UpstreamExact
<1>4. Runs(v) /\ Reads(v, g)
  BY <1>3 DEF Runs, Reads, Reading, Preparing
<1> QED
  BY <1>2, <1>4 DEF Turn

LEMMA AgainFields ==
  ASSUME NEW q, Shaped(q)
  PROVE  LET v == Again(q) IN
         /\ v.pc = q.pc /\ v.session = q.session /\ v.account = q.account
         /\ v.conv = q.conv /\ v.incoming = q.incoming
         /\ v.known = q.known /\ v.prompt = q.prompt /\ v.reply = q.reply
         /\ v.parent = q.parent /\ v.node = q.node /\ v.repaired = q.repaired
<1> DEFINE n == q.tries + 1
           v == [q EXCEPT !.tries = n]
<1>1. v = Again(q)
  BY DEF Again
<1> HIDE DEF n
<1>2. /\ v.pc = q.pc /\ v.session = q.session /\ v.account = q.account
      /\ v.conv = q.conv /\ v.incoming = q.incoming
      /\ v.known = q.known /\ v.prompt = q.prompt /\ v.reply = q.reply
      /\ v.parent = q.parent /\ v.node = q.node /\ v.repaired = q.repaired
  BY DEF Shaped, Fields
<1> HIDE DEF v
<1> QED
  BY <1>1, <1>2

\* The same turn once more, or one step further.
Alike(q, v) ==
  /\ v.session = q.session /\ v.account = q.account /\ v.conv = q.conv
  /\ v.incoming = q.incoming /\ v.known = q.known /\ v.prompt = q.prompt
  /\ v.reply = q.reply /\ v.parent = q.parent /\ v.node = q.node
  /\ v.repaired = q.repaired

Running == {"call", "primePunish", "stream"}

LEMMA AlikeStep ==
  ASSUME IInv, SInv, LinksHold', NEW r \in Requests, NEW v,
         request' = [request EXCEPT ![r] = v], Alike(request[r], v),
         request[r].pc \in Running, v.pc \in Running,
         \A c \in Slots : Spared(heap, heap', c)
  PROVE  SInv'
<1> DEFINE q == request[r]
<1>1. Turn(q, heap)
  BY DEF SInv
<1>2. Words(v)
  BY <1>1 DEF Turn, Words, Alike
<1>3. UpstreamExact(v)
  BY <1>1 DEF Turn, Runs, Running, UpstreamExact, Accepted, Sent, Alike
<1>4. Runs(v) /\ Reads(v, heap')
  BY <1>1, <1>3 DEF Turn, Runs, Reads, Reading, Running, Preparing, Alike
<1>5. Yields(r) /\ Minds(q, v)
  BY DEF Yields, Minds, Running
<1> QED
  BY <1>2, <1>4, <1>5, SerialStep DEF Turn

LEMMA AgainSerial ==
  ASSUME IInv, SInv, LinksHold', NEW r \in Requests,
         request' = [request EXCEPT ![r] = Again(request[r])],
         request[r].pc \in {"create", "foCreate", "call"}, heap' = heap
  PROVE  SInv'
<1> DEFINE q == request[r]
           v == Again(q)
<1>1. Shaped(q) /\ \A c \in Slots : Spared(heap, heap', c)
  BY RequestLocal, QuietSpares
<1>2. v.pc = q.pc /\ Alike(q, v)
  BY <1>1, AgainFields DEF Alike
<1> HIDE DEF v
<1>3. request' = [request EXCEPT ![r] = v]
  BY DEF v
<1>4. CASE q.pc = "call"
  BY <1>1, <1>2, <1>3, <1>4, AlikeStep DEF Running
<1>5. CASE q.pc \in {"create", "foCreate"}
  <2>1. Rests(q, v)
    BY <1>2, <1>5 DEF Rests, Carries, Alike, Busy
  <2> QED
    BY <1>1, <1>3, <1>5, <2>1, RestStep
<1> QED
  BY <1>4, <1>5

LEMMA GaveSerial ==
  ASSUME IInv, SInv, LinksHold', NEW r \in Requests, NEW pc, NEW category,
         \/ request' = [request EXCEPT ![r] = Gave(request[r], pc, category)]
         \/ request' = [request EXCEPT ![r] = GaveTarget(request[r], pc, category)],
         pc \notin Busy, pc \in Preparing => request[r].pc \in Preparing,
         request[r].pc \notin {"success", "unlink"},
         \A c \in Slots : Spared(heap, heap', c)
  PROVE  SInv'
<1> DEFINE q == request[r]
           v == Gave(q, pc, category)
           w == GaveTarget(q, pc, category)
<1>1. v.pc = pc /\ Carries(q, v) /\ w.pc = pc /\ Carries(q, w)
  BY RequestLocal, GaveCarries
<1>2. \/ request' = [request EXCEPT ![r] = v]
      \/ request' = [request EXCEPT ![r] = w]
  OBVIOUS
<1> HIDE DEF v, w
<1>3. Rests(q, v) /\ Rests(q, w)
  BY <1>1 DEF Rests
<1> QED
  BY <1>2, <1>3, RestStep

LEMMA CreateSerial ==
  ASSUME IInv, SInv, LinksHold', NEW r \in Requests, Create(r) PROVE SInv'
<1> DEFINE q == request[r]
<1>1. q.pc = "create" /\ Shaped(q) /\ Turn(q, heap) /\ heap' = heap
  BY RequestLocal DEF Create, SInv
<1>2. \A c \in Slots : Spared(heap, heap', c)
  BY <1>1, QuietSpares
<1>3. ASSUME request' = [request EXCEPT ![r] =
               [q EXCEPT !.pc = "call", !.session = FreshSession(q.account),
                         !.parent = NoParent, !.prompt = q.incoming, !.tries = 0]]
      PROVE  SInv'
  <2> DEFINE a == q.account
             session == FreshSession(a)
             prompt == q.incoming
             v == [q EXCEPT !.pc = "call", !.session = session,
                            !.parent = NoParent, !.prompt = prompt, !.tries = 0]
  <2>1. request' = [request EXCEPT ![r] = v]
    BY <1>3
  <2>2. /\ v.pc = "call" /\ v.session = session /\ v.account = q.account
        /\ v.parent = NoParent /\ v.prompt = prompt /\ v.incoming = q.incoming
        /\ v.known = q.known /\ v.reply = q.reply /\ v.node = q.node
        /\ v.repaired = q.repaired
    <3> HIDE DEF session, prompt
    <3> QED
      BY <1>1 DEF Shaped, Fields
  <2> HIDE DEF v
  <2>3. v.repaired = FALSE
    BY <1>1, <2>2 DEF Turn, Runs, Preparing
  <2>4. Turn(v, heap')
    BY <1>1, <2>2, <2>3, FreshTurn
  <2>5. Yields(r) /\ Minds(q, v)
    BY <1>1, <1>2 DEF Yields, Minds
  <2> QED
    BY <2>1, <2>4, <2>5, SerialStep
<1>4. ASSUME request' = [request EXCEPT ![r].tries = @ + 1]
      PROVE  SInv'
  <2>1. request' = [request EXCEPT ![r] = Again(q)]
    BY <1>4 DEF Again
  <2> QED
    BY <1>1, <2>1, AgainSerial
<1>5. ASSUME NEW category,
             request' = [request EXCEPT ![r] = Gave(q, "createFailed", category)]
      PROVE  SInv'
  <2>1. "createFailed" \notin Busy
    BY DEF Busy
  <2> QED
    BY <1>1, <1>2, <1>5, <2>1, GaveSerial DEF Preparing
<1> QED
  BY <1>3, <1>4, <1>5 DEF Create, Gave

-----------------------------------------------------------------------------
(* Failures and failover.                                                  *)

LEMMA CreateFailedSerial ==
  ASSUME IInv, SInv, LinksHold', NEW r \in Requests, CreateFailed(r) PROVE SInv'
<1> DEFINE q == request[r]
           v == Charge(q, "foSelect")
<1>1. q.pc = "createFailed" /\ Shaped(q) /\ Consequence(q.account, q.cause)
  BY RequestLocal DEF CreateFailed
<1>2. \A c \in Slots : Spared(heap, heap', c)
  BY <1>1, ConsequenceSpares
<1>3. \/ request' = [request EXCEPT ![r] = v]
      \/ request' = [request EXCEPT ![r] = Refused(q, 1)]
  BY DEF CreateFailed
<1>4. CASE request' = [request EXCEPT ![r] = v]
  <2>1. v.pc = "foSelect" /\ Carries(q, v)
    BY <1>1, ChargeCarries
  <2> HIDE DEF v
  <2>2. Rests(q, v)
    BY <2>1 DEF Rests, Busy, Preparing
  <2> QED
    BY <1>1, <1>2, <1>4, <2>2, RestStep
<1>5. CASE request' = [request EXCEPT ![r] = Refused(q, 1)]
  BY <1>1, <1>2, <1>5, RefusedSerial
<1> QED
  BY <1>3, <1>4, <1>5

LEMMA FailoverSelectSerial ==
  ASSUME IInv, SInv, LinksHold', NEW r \in Requests, FailoverSelect(r) PROVE SInv'
<1> DEFINE q == request[r]
<1>1. q.pc = "foSelect" /\ Shaped(q) /\ heap' = heap
  BY RequestLocal DEF FailoverSelect
<1>2. \A c \in Slots : Spared(heap, heap', c)
  BY <1>1, QuietSpares
<1>3. ASSUME NEW a, request' = [request EXCEPT ![r].pc = "foCreate", ![r].target = a,
                                               ![r].charges = 0]
      PROVE  SInv'
  <2> DEFINE v == [q EXCEPT !.pc = "foCreate", !.target = a, !.charges = 0]
  <2>1. request' = [request EXCEPT ![r] = v]
    BY <1>3
  <2>2. v.pc = "foCreate" /\ Carries(q, v)
    BY <1>1 DEF Shaped, Fields, Carries
  <2> HIDE DEF v
  <2>3. Rests(q, v)
    BY <2>2 DEF Rests, Busy, Preparing
  <2> QED
    BY <1>1, <1>2, <2>1, <2>3, RestStep
<1>4. CASE request' = [request EXCEPT ![r] = Refused(q, 0)]
  BY <1>1, <1>2, <1>4, RefusedSerial
<1> QED
  BY <1>3, <1>4 DEF FailoverSelect

LEMMA FailoverCreateSerial ==
  ASSUME IInv, SInv, LinksHold', NEW r \in Requests, FailoverCreate(r) PROVE SInv'
<1> DEFINE q == request[r]
<1>1. q.pc = "foCreate" /\ Shaped(q) /\ Turn(q, heap) /\ heap' = heap
  BY RequestLocal DEF FailoverCreate, SInv
<1>2. \A c \in Slots : Spared(heap, heap', c)
  BY <1>1, QuietSpares
<1>3. ASSUME request' = [request EXCEPT ![r] =
               [q EXCEPT !.pc = "call", !.account = q.target, !.target = NoAccount,
                         !.session = FreshSession(q.target), !.parent = NoParent,
                         !.prompt = q.incoming, !.tries = 0, !.repaired = FALSE,
                         !.moves = @ + 1, !.cause = "none"]]
      PROVE  SInv'
  <2> DEFINE a == q.target
             session == FreshSession(a)
             prompt == q.incoming
             n == q.moves + 1
             v == [q EXCEPT !.pc = "call", !.account = a, !.target = NoAccount,
                            !.session = session, !.parent = NoParent,
                            !.prompt = prompt, !.tries = 0, !.repaired = FALSE,
                            !.moves = n, !.cause = "none"]
  <2>1. request' = [request EXCEPT ![r] = v]
    BY <1>3
  <2>2. /\ v.pc = "call" /\ v.session = session /\ v.account = a
        /\ v.parent = NoParent /\ v.prompt = prompt /\ v.incoming = q.incoming
        /\ v.known = q.known /\ v.reply = q.reply /\ v.node = q.node
        /\ v.repaired = FALSE
    <3> HIDE DEF a, session, prompt, n
    <3> QED
      BY <1>1 DEF Shaped, Fields
  <2> HIDE DEF v
  <2>3. Turn(v, heap')
    <3> HIDE DEF a
    <3> QED
      BY <1>1, <2>2, FreshTurn
  <2>4. Yields(r) /\ Minds(q, v)
    BY <1>1, <1>2 DEF Yields, Minds
  <2> QED
    BY <2>1, <2>3, <2>4, SerialStep
<1>4. ASSUME request' = [request EXCEPT ![r].tries = @ + 1]
      PROVE  SInv'
  <2>1. request' = [request EXCEPT ![r] = Again(q)]
    BY <1>4 DEF Again
  <2> QED
    BY <1>1, <2>1, AgainSerial
<1>5. ASSUME NEW category,
             request' = [request EXCEPT ![r] = GaveTarget(q, "foFailed", category)]
      PROVE  SInv'
  <2>1. "foFailed" \notin Busy /\ "foFailed" \notin Preparing
    BY DEF Busy, Preparing
  <2> QED
    BY <1>1, <1>2, <1>5, <2>1, GaveSerial
<1> QED
  BY <1>3, <1>4, <1>5 DEF FailoverCreate, GaveTarget

LEMMA PunishedSerial ==
  ASSUME IInv, SInv, LinksHold', NEW r \in Requests, FailoverFailed(r) \/ MidPunish(r)
  PROVE  SInv'
<1>1. /\ request[r].pc \in {"foFailed", "midPunish"}
      /\ request' = [request EXCEPT ![r] = Refused(request[r], 1)]
      /\ \E a, category : Consequence(a, category)
  BY DEF FailoverFailed, MidPunish
<1>2. \A c \in Slots : Spared(heap, heap', c)
  BY <1>1, ConsequenceSpares
<1> QED
  BY <1>1, <1>2, RefusedSerial

LEMMA DrainFailsSerial ==
  ASSUME IInv, SInv, LinksHold', NEW r \in Requests, DrainFails(r) PROVE SInv'
<1> DEFINE q == request[r]
<1>1. q.pc = "call" /\ heap' = heap
  BY DEF DrainFails
<1>2. \A c \in Slots : Spared(heap, heap', c)
  BY <1>1, QuietSpares
<1>3. ASSUME request' = [request EXCEPT ![r].tries = @ + 1]
      PROVE  SInv'
  <2>1. request' = [request EXCEPT ![r] = Again(q)]
    BY <1>3 DEF Again
  <2> QED
    BY <1>1, <2>1, AgainSerial
<1>4. ASSUME NEW category,
             request' = [request EXCEPT ![r] = Gave(q, "fail", category)]
      PROVE  SInv'
  <2>1. "fail" \notin Busy /\ "fail" \notin Preparing
    BY DEF Busy, Preparing
  <2> QED
    BY <1>1, <1>2, <1>4, <2>1, GaveSerial
<1> QED
  BY <1>3, <1>4 DEF DrainFails, Gave

LEMMA PrimeFailsSerial ==
  ASSUME IInv, SInv, LinksHold', NEW r \in Requests, PrimeFails(r) PROVE SInv'
<1> DEFINE q == request[r]
<1>1. q.pc = "call" /\ Shaped(q)
  BY RequestLocal DEF PrimeFails
<1>2. \A c \in Slots : Spared(heap, heap', c)
  BY UnlinkSpares DEF PrimeFails
<1>3. PICK category \in Failures :
        request' = [request EXCEPT ![r].pc = "primePunish", ![r].cause = category]
  BY DEF PrimeFails
<1> DEFINE v == [q EXCEPT !.pc = "primePunish", !.cause = category]
<1>4. request' = [request EXCEPT ![r] = v]
  BY <1>3
<1>5. v.pc = "primePunish" /\ Alike(q, v)
  BY <1>1 DEF Shaped, Fields, Alike
<1> HIDE DEF v
<1> QED
  BY <1>1, <1>2, <1>4, <1>5, AlikeStep DEF Running

LEMMA PrimePunishSerial ==
  ASSUME IInv, SInv, LinksHold', NEW r \in Requests, PrimePunish(r) PROVE SInv'
<1> DEFINE q == request[r]
           n == q.tries + 1
           k == q.charges + 1
           u == [q EXCEPT !.pc = "call", !.tries = n, !.cause = "none", !.charges = k]
           v == Charge(q, "fail")
<1>1. q.pc = "primePunish" /\ Shaped(q) /\ Consequence(q.account, q.cause)
  BY RequestLocal DEF PrimePunish
<1>2. \A c \in Slots : Spared(heap, heap', c)
  BY <1>1, ConsequenceSpares
<1>3. \/ request' = [request EXCEPT ![r] = u]
      \/ request' = [request EXCEPT ![r] = v]
  BY DEF PrimePunish
<1>4. u.pc = "call" /\ Alike(q, u)
  <2> HIDE DEF n, k
  <2> QED
    BY <1>1 DEF Shaped, Fields, Alike
<1>5. v.pc = "fail" /\ Carries(q, v)
  BY <1>1, ChargeCarries
<1> HIDE DEF u, v
<1>6. CASE request' = [request EXCEPT ![r] = u]
  BY <1>1, <1>2, <1>4, <1>6, AlikeStep DEF Running
<1>7. CASE request' = [request EXCEPT ![r] = v]
  <2>1. Rests(q, v)
    BY <1>5 DEF Rests, Busy, Preparing
  <2> QED
    BY <1>1, <1>2, <1>7, <2>1, RestStep
<1> QED
  BY <1>3, <1>6, <1>7

LEMMA StreamBreaksSerial ==
  ASSUME IInv, SInv, LinksHold', NEW r \in Requests, StreamBreaks(r) PROVE SInv'
<1>1. request[r].pc = "stream"
  BY DEF StreamBreaks
<1>2. \A c \in Slots : Spared(heap, heap', c)
  BY UnlinkSpares DEF StreamBreaks
<1>3. PICK category \in Failures :
        request' = [request EXCEPT ![r] = Gave(request[r], "midPunish", category)]
  BY DEF StreamBreaks, Gave
<1>4. "midPunish" \notin Busy /\ "midPunish" \notin Preparing
  BY DEF Busy, Preparing
<1> QED
  BY <1>1, <1>2, <1>3, <1>4, GaveSerial

LEMMA FailTurnSerial ==
  ASSUME IInv, SInv, LinksHold', NEW r \in Requests, FailTurn(r) PROVE SInv'
<1> DEFINE q == request[r]
           v == [q EXCEPT !.pc = "punish"]
<1>1. q.pc = "fail" /\ Shaped(q) /\ request' = [request EXCEPT ![r] = v]
  BY RequestLocal DEF FailTurn
<1>2. \A c \in Slots : Spared(heap, heap', c)
  BY UnlinkSpares DEF FailTurn
<1>3. v.pc = "punish" /\ Carries(q, v)
  BY <1>1, PcCarries
<1> HIDE DEF v
<1>4. Rests(q, v)
  BY <1>3 DEF Rests, Busy, Preparing
<1> QED
  BY <1>1, <1>2, <1>4, RestStep

LEMMA PunishSerial ==
  ASSUME IInv, SInv, LinksHold', NEW r \in Requests, Punish(r) PROVE SInv'
<1> DEFINE q == request[r]
           o == Charge(q, "foSelect")
           v == [o EXCEPT !.rerun = TRUE]
<1>1. q.pc = "punish" /\ Shaped(q) /\ Consequence(q.account, q.cause)
  BY RequestLocal DEF Punish
<1>2. \A c \in Slots : Spared(heap, heap', c)
  BY <1>1, ConsequenceSpares
<1>3. \/ request' = [request EXCEPT ![r] = v]
      \/ request' = [request EXCEPT ![r] = Refused(q, 1)]
  BY DEF Punish
<1>4. CASE request' = [request EXCEPT ![r] = v]
  <2>1. Shaped(o) /\ o.pc = "foSelect" /\ Carries(q, o)
    BY <1>1, ChargeCarries
  <2> HIDE DEF o
  <2>2. v.pc = "foSelect" /\ Carries(q, v)
    BY <2>1 DEF Shaped, Fields, Carries
  <2> HIDE DEF v
  <2>3. Rests(q, v)
    BY <2>2 DEF Rests, Busy, Preparing
  <2> QED
    BY <1>1, <1>2, <1>4, <2>3, RestStep
<1>5. CASE request' = [request EXCEPT ![r] = Refused(q, 1)]
  BY <1>1, <1>2, <1>5, RefusedSerial
<1> QED
  BY <1>3, <1>4, <1>5

-----------------------------------------------------------------------------
(* The turn, and its commit.                                               *)

LEMMA RepairRetrySerial ==
  ASSUME IInv, SInv, LinksHold', NEW r \in Requests, RepairRetry(r) PROVE SInv'
<1> DEFINE q == request[r]
           prompt == q.prompt \o <<Hint>>
           v == [q EXCEPT !.repaired = TRUE, !.tries = 0, !.prompt = prompt]
<1>1. q.pc = "call" /\ ~q.repaired /\ Shaped(q) /\ Turn(q, heap) /\ heap' = heap
  BY RequestLocal DEF RepairRetry, SInv
<1>2. request' = [request EXCEPT ![r] = v]
  BY DEF RepairRetry
<1>3. /\ v.pc = "call" /\ v.session = q.session /\ v.account = q.account
      /\ v.conv = q.conv /\ v.incoming = q.incoming
      /\ v.known = q.known /\ v.prompt = prompt /\ v.reply = q.reply
      /\ v.parent = q.parent /\ v.node = q.node /\ v.repaired = TRUE
  <2> HIDE DEF prompt
  <2> QED
    BY <1>1 DEF Shaped, Fields
<1> HIDE DEF v
<1>4. /\ <<Hint>> \in Text /\ q.prompt \in Text /\ q.parent.context \in Text
      /\ q.incoming \in Text
  BY <1>1, OneText DEF Said, Turn, Words
<1>5. Words(v)
  BY <1>1, <1>3, <1>4, JoinText DEF Turn, Words
<1>6. UpstreamExact(v)
  <2>1. Accepted(v)
    BY <1>1, <1>3 DEF Turn, Runs, UpstreamExact, Accepted
  <2>2. Sent(q) = q.incoming
    <3>1. q.incoming \o <<>> = q.incoming
      BY <1>4, ConcatEmptySeq DEF Text
    <3> QED
      BY <1>1, <3>1 DEF Turn, Runs, UpstreamExact
  <2>3. Sent(v) = Sent(q) \o <<Hint>>
    <3>1. (q.parent.context \o q.prompt) \o <<Hint>> = q.parent.context \o prompt
      BY <1>4, RegroupText
    <3> HIDE DEF prompt
    <3> QED
      BY <1>3, <3>1 DEF Sent
  <2> QED
    BY <1>3, <2>1, <2>2, <2>3 DEF UpstreamExact
<1>7. v.repaired \in BOOLEAN
  BY <1>3, Zenon
<1>8. Runs(v) /\ Reads(v, heap')
  BY <1>3, <1>6, <1>7 DEF Runs, Reads, Reading, Preparing
<1>9. Yields(r) /\ Minds(q, v)
  BY <1>1, QuietSpares DEF Yields, Minds
<1> QED
  BY <1>2, <1>5, <1>8, <1>9, SerialStep DEF Turn

LEMMA PrimeSerial ==
  ASSUME IInv, SInv, LinksHold', NEW r \in Requests, Prime(r) PROVE SInv'
<1> DEFINE q == request[r]
           v == [q EXCEPT !.pc = "stream", !.tries = 0]
<1>1. q.pc = "call" /\ Shaped(q) /\ heap' = heap /\ request' = [request EXCEPT ![r] = v]
  BY RequestLocal DEF Prime
<1>2. v.pc = "stream" /\ Alike(q, v)
  BY <1>1 DEF Shaped, Fields, Alike
<1> HIDE DEF v
<1>3. \A c \in Slots : Spared(heap, heap', c)
  BY <1>1, QuietSpares
<1> QED
  BY <1>1, <1>2, <1>3, AlikeStep DEF Running

\* What upstream remembers of an answered turn.
LEMMA AnsweredSerial ==
  ASSUME IInv, SInv, LinksHold', NEW r \in Requests, Drain(r) \/ StreamFinishes(r)
  PROVE  SInv'
<1> DEFINE q == request[r]
<1>1. /\ q.pc \in {"call", "stream"} /\ Shaped(q) /\ Turn(q, heap) /\ heap' = heap
      /\ \E answer \in Answer(q) : request' = [request EXCEPT ![r] = Answered(q, answer)]
  BY RequestLocal DEF Drain, StreamFinishes, SInv
<1>2. PICK m \in Replies :
        request' = [request EXCEPT ![r] = Answered(q,
          [reply |-> <<m>>, node |-> [session |-> q.session, context |-> Sent(q) \o <<m>>]])]
  BY <1>1 DEF Answer
<1> DEFINE answer == [reply |-> <<m>>,
                      node |-> [session |-> q.session, context |-> Sent(q) \o <<m>>]]
           v == Answered(q, answer)
<1>3. request' = [request EXCEPT ![r] = v]
  BY <1>2
<1>4. answer.reply = <<m>> /\ answer.node.context = Sent(q) \o <<m>>
  OBVIOUS
<1> HIDE DEF answer
<1>5. /\ v.pc = "commit" /\ v.incoming = q.incoming /\ v.known = q.known
      /\ v.prompt = <<>> /\ v.reply = answer.reply /\ v.parent = NoParent
      /\ v.node = answer.node /\ v.repaired = q.repaired
  BY <1>1 DEF Answered, Shaped, Fields
<1> HIDE DEF v
<1>6. /\ <<m>> \in Text /\ <<>> \in Text /\ NoParent.context = <<>>
      /\ q.incoming \in Text /\ q.prompt \in Text /\ q.parent.context \in Text
  BY <1>1, OneText, EmptyText DEF Said, Turn, Words, NoParent
<1>7. Sent(q) \o <<m>> \in Text
  BY <1>6, JoinText DEF Sent
<1>8. Words(v)
  BY <1>1, <1>4, <1>5, <1>6, <1>7 DEF Turn, Words
<1>9. ~v.repaired => v.node.context = v.incoming \o v.reply
  <2>1. q.incoming \o <<>> = q.incoming
    BY <1>6, ConcatEmptySeq DEF Text
  <2>2. ~q.repaired => Sent(q) = q.incoming
    BY <1>1, <2>1 DEF Turn, Runs, UpstreamExact
  <2> QED
    BY <1>4, <1>5, <2>2
<1>10. Runs(v) /\ Reads(v, heap')
  BY <1>1, <1>5, <1>9 DEF Turn, Runs, Reads, Reading, Preparing
<1>11. Yields(r) /\ Minds(q, v)
  BY <1>1, QuietSpares DEF Yields, Minds
<1> QED
  BY <1>3, <1>8, <1>10, <1>11, SerialStep DEF Turn

LEMMA CommitTurnSerial ==
  ASSUME IInv, SInv, Serial, LinksHold', NEW r \in Requests, CommitTurn(r) PROVE SInv'
<1> DEFINE q == request[r]
           c == Target(q)
           row == Committed(q, c)
           v == [q EXCEPT !.pc = "success", !.conv = c]
           reachable == ToSet(recency') \union {c} \union HeldBy(Requests \ {r})
           g == [heap EXCEPT ![c] = row]
<1>1. q.pc = "commit" /\ Local(q) /\ Shaped(q) /\ Turn(q, heap)
  BY RequestLocal DEF CommitTurn, SInv
<1>2. /\ c \in Slots
      /\ \A s \in Requests \ {r} : request[s].conv # c
  <2>1. NoConv \notin Slots /\ q.conv \in Slots \union {NoConv}
    BY <1>1, SlotCount DEF NoConv, Local, ConvFit
  <2>2. CASE q.conv = NoConv
    BY <2>2, FreeSlotExists DEF Target
  <2>3. CASE q.conv # NoConv
    BY <2>1, <2>3 DEF Target, Serial, OneConversationEach
  <2> QED
    BY <2>2, <2>3
<1>3. request' = [request EXCEPT ![r] = v] /\ heap' = Swept(g, reachable)
  BY DEF CommitTurn
<1>4. /\ v.pc = "success" /\ v.conv = c /\ v.incoming = q.incoming /\ v.known = q.known
      /\ v.prompt = q.prompt /\ v.reply = q.reply /\ v.parent = q.parent
      /\ v.node = q.node /\ v.repaired = q.repaired
  <2> HIDE DEF c
  <2> QED
    BY <1>1 DEF Shaped, Fields
<1>5. /\ row.messages = q.incoming \o q.reply /\ row.parent.context = q.node.context
  BY DEF Committed
<1> HIDE DEF v, row, c
<1>6. heap'[c] = row
  BY <1>2, <1>3 DEF Swept, IInv, HeapFit
<1>7. \A d \in Slots \ {c} : heap'[d] = heap[d] \/ heap'[d] = NewConv
  BY <1>2, <1>3 DEF Swept, IInv, HeapFit
<1>8. \A s \in Requests \ {r} :
        request[s].conv \in Slots => heap'[request[s].conv] = heap[request[s].conv]
  BY <1>2, <1>3 DEF Swept, HeldBy, IInv, HeapFit
<1>9. request'[r] = v /\ \A s \in Requests \ {r} : request'[s] = request[s]
  BY <1>3 DEF IInv, RequestsFit
<1> HIDE DEF g, reachable
<1>10. Turn(v, heap')
  <2>1. Rests(q, v)
    BY <1>4 DEF Rests, Carries, Busy, Preparing
  <2> QED
    BY <1>1, <2>1, RestingTurn
<1>11. ASSUME NEW s \in Requests PROVE Turn(request'[s], heap')
  <2>1. CASE s = r
    BY <1>9, <1>10, <2>1
  <2>2. CASE s # r
    <3>1. request'[s] = request[s] /\ Local(request[s]) /\ Turn(request[s], heap)
      BY <1>9, <2>2, RequestLocal DEF SInv
    <3>2. request[s].conv \in Slots => Spared(heap, heap', request[s].conv)
      BY <1>8, <2>2 DEF Spared
    <3>3. request[s].pc \in Reading => heap'[request[s].conv].session # NoSession
      BY <3>1 DEF LinksHold
    <3>4. Turn(request[s], heap')
      BY <3>1, <3>2, <3>3, StillTurn
    <3> QED
      BY <3>1, <3>4
  <2> QED
    BY <2>1, <2>2
<1>12. WordsKept(heap')
  <2>1. row.messages \in Text /\ row.parent.context \in Text
    BY <1>1, <1>5, JoinText DEF Turn, Words
  <2> QED
    BY <1>6, <1>7, <2>1, NewConvWords DEF SInv, WordsKept
<1>13. Mirrors(heap', request')
  <2> SUFFICES ASSUME NEW d \in Slots, heap'[d].session # NoSession,
                      heap'[d].parent.context # heap'[d].messages
               PROVE  \E s \in Requests : Awaits(request'[s], d)
    BY DEF Mirrors
  <2>1. CASE d = c
    <3>1. q.repaired
      BY <1>1, <1>5, <1>6, <2>1 DEF Turn, Runs
    <3>2. Awaits(v, c)
      BY <1>4, <3>1 DEF Awaits
    <3> QED
      BY <1>9, <2>1, <3>2
  <2>2. CASE d # c
    <3>1. heap'[d] = heap[d]
      BY <1>7, <2>2, NewConvOwned
    <3>2. PICK s \in Requests : Awaits(request[s], d)
      BY <3>1 DEF SInv, Mirrors
    <3>3. s # r
      BY <1>1, <3>2 DEF Awaits
    <3> QED
      BY <1>9, <3>2, <3>3
  <2> QED
    BY <2>1, <2>2
<1> QED
  BY <1>11, <1>12, <1>13 DEF SInv

LEMMA RecordSuccessSerial ==
  ASSUME IInv, SInv, LinksHold', NEW r \in Requests, RecordSuccess(r) PROVE SInv'
<1> DEFINE q == request[r]
           u == [q EXCEPT !.pc = "unlink"]
           v == [q EXCEPT !.pc = "done"]
<1>1. q.pc = "success" /\ Shaped(q) /\ Turn(q, heap) /\ heap' = heap
  BY RequestLocal DEF RecordSuccess, SInv
<1>2. \/ q.repaired /\ request' = [request EXCEPT ![r] = u]
      \/ ~q.repaired /\ request' = [request EXCEPT ![r] = v]
  BY DEF RecordSuccess
<1>3. u.pc = "unlink" /\ Carries(q, u) /\ u.repaired = q.repaired /\ u.conv = q.conv
  BY <1>1, PcCarries
<1>4. v.pc = "done" /\ Carries(q, v)
  BY <1>1, PcCarries
<1> HIDE DEF u, v
<1>5. Rests(q, u) /\ Rests(q, v)
  BY <1>3, <1>4 DEF Rests, Busy, Preparing
<1>6. Turn(u, heap') /\ Turn(v, heap')
  BY <1>1, <1>5, RestingTurn
<1>7. Yields(r)
  BY <1>1, QuietSpares DEF Yields
<1>8. Minds(q, u) /\ (~q.repaired => Minds(q, v))
  BY <1>3 DEF Minds
<1> QED
  BY <1>2, <1>6, <1>7, <1>8, SerialStep

LEMMA UnlinkRepairedSerial ==
  ASSUME IInv, SInv, LinksHold', NEW r \in Requests, UnlinkRepaired(r) PROVE SInv'
<1> DEFINE q == request[r]
           v == [q EXCEPT !.pc = "done"]
<1>1. q.pc = "unlink" /\ Shaped(q) /\ Turn(q, heap) /\ heap' = Unlinked(heap, {q.conv})
      /\ request' = [request EXCEPT ![r] = v]
  BY RequestLocal DEF UnlinkRepaired, SInv
<1>2. v.pc = "done" /\ Carries(q, v)
  BY <1>1, PcCarries
<1> HIDE DEF v
<1>3. Turn(v, heap')
  <2>1. Rests(q, v)
    BY <1>2 DEF Rests, Busy, Preparing
  <2> QED
    BY <1>1, <2>1, RestingTurn
<1>4. Yields(r)
  BY <1>1, UnlinkSpares DEF Yields
<1>5. Minds(q, v)
  <2> SUFFICES ASSUME q.conv \in Slots PROVE heap'[q.conv].session = NoSession
    BY DEF Minds
  <2>1. heap'[q.conv] = [heap[q.conv] EXCEPT !.session = NoSession, !.parent = NoParent]
    BY <1>1 DEF Unlinked
  <2>2. heap[q.conv] = [f \in ConvFields |-> heap[q.conv][f]]
    BY DEF IInv, HeapFit, Owned
  <2> QED
    BY <2>1, <2>2 DEF ConvFields
<1> QED
  BY <1>1, <1>3, <1>4, <1>5, SerialStep

LEMMA GoneSerial ==
  ASSUME IInv, SInv, LinksHold', NEW r \in Requests, Gone(r),
         request[r].pc \notin {"success", "unlink"}
  PROVE  SInv'
<1>1. Turn(Blank, heap')
  <2>1. Words(Blank)
    BY EmptyText DEF Blank, Words, NoParent
  <2>2. Runs(Blank) /\ Reads(Blank, heap')
    BY DEF Blank, Runs, Reads, Reading, Preparing
  <2> QED
    BY <2>1, <2>2 DEF Turn
<1>2. Yields(r)
  <2>1. heap' = Swept(heap, Stored \union HeldBy(Requests \ {r}))
    BY DEF Gone
  <2>2. \A c \in Slots : heap'[c] = heap[c] \/ heap'[c] = NewConv
    BY <2>1 DEF Swept
  <2>3. \A s \in Requests \ {r} : request[s].conv \in Slots =>
                                    heap'[request[s].conv] = heap[request[s].conv]
    BY <2>1 DEF Swept, HeldBy
  <2> QED
    BY <2>2, <2>3 DEF Yields, Spared
<1>3. Minds(request[r], Blank)
  BY DEF Minds
<1>4. request' = [request EXCEPT ![r] = Blank]
  BY DEF Gone
<1> QED
  BY <1>1, <1>2, <1>3, <1>4, SerialStep

LEMMA AccountSerial ==
  ASSUME IInv, SInv, LinksHold', NEW a \in Accounts, Operate(a) \/ CooldownEnds(a)
  PROVE  SInv'
<1>1. request' = request
  BY DEF Operate, CooldownEnds
<1>2. \A c \in Slots : Spared(heap, heap', c)
  <2>1. heap' = heap \/ heap' = Unlinked(heap, BoundTo(a))
    BY DEF Operate, CooldownEnds
  <2> QED
    BY <2>1, QuietSpares, UnlinkSpares
<1>3. ASSUME NEW s \in Requests PROVE Turn(request'[s], heap')
  <2>1. Local(request[s]) /\ Turn(request[s], heap)
    BY RequestLocal DEF SInv
  <2>2. request[s].pc \in Reading => heap'[request[s].conv].session # NoSession
    BY <1>1 DEF LinksHold
  <2>3. request[s].conv \in Slots => Spared(heap, heap', request[s].conv)
    BY <1>2
  <2> QED
    BY <1>1, <2>1, <2>2, <2>3, StillTurn
<1>4. WordsKept(heap')
  <2>1. NoParent.context \in Text
    BY EmptyText DEF NoParent
  <2> QED
    BY <1>2, <2>1 DEF SInv, WordsKept, Spared
<1>5. Mirrors(heap', request')
  BY <1>1, <1>2 DEF SInv, Mirrors, Spared
<1> QED
  BY <1>3, <1>4, <1>5 DEF SInv

-----------------------------------------------------------------------------
(* The specification.                                                      *)

LEMMA SerialInit == Init => SInv
<1> HAVE Init
<1>1. Turn(Blank, heap)
  <2>1. Words(Blank)
    BY EmptyText DEF Blank, Words, NoParent
  <2>2. Runs(Blank) /\ Reads(Blank, heap)
    BY DEF Blank, Runs, Reads, Reading, Preparing
  <2> QED
    BY <2>1, <2>2 DEF Turn
<1>2. \A c \in Slots : heap[c] = NewConv
  BY DEF Init
<1>3. WordsKept(heap) /\ Mirrors(heap, request)
  BY <1>2, NewConvWords, NewConvOwned DEF WordsKept, Mirrors
<1> QED
  BY <1>1, <1>3 DEF Init, SInv

LEMMA StepSerial ==
  ASSUME IInv, SInv, Serial, LinksHold', NEW r \in Requests, Step(r) PROVE SInv'
<1>1. CASE Resolve(r) \/ CheckLink(r) \/ DropLink(r) \/ ReadSession(r) \/ ReadParent(r)
  BY <1>1, ResolveSerial, CheckLinkSerial, DropLinkSerial, ReadSessionSerial,
     ReadParentSerial
<1>2. CASE Rebind(r) \/ Select(r) \/ Create(r) \/ CreateFailed(r)
  BY <1>2, RebindSerial, SelectSerial, CreateSerial, CreateFailedSerial
<1>3. CASE FailoverSelect(r) \/ FailoverCreate(r) \/ FailoverFailed(r) \/ MidPunish(r)
  BY <1>3, FailoverSelectSerial, FailoverCreateSerial, PunishedSerial
<1>4. CASE Drain(r) \/ StreamFinishes(r) \/ RepairRetry(r) \/ DrainFails(r) \/ Prime(r)
  BY <1>4, AnsweredSerial, RepairRetrySerial, DrainFailsSerial, PrimeSerial
<1>5. CASE PrimeFails(r) \/ PrimePunish(r) \/ StreamBreaks(r) \/ FailTurn(r) \/ Punish(r)
  BY <1>5, PrimeFailsSerial, PrimePunishSerial, StreamBreaksSerial, FailTurnSerial,
     PunishSerial
<1>6. CASE CommitTurn(r) \/ RecordSuccess(r) \/ UnlinkRepaired(r)
  BY <1>6, CommitTurnSerial, RecordSuccessSerial, UnlinkRepairedSerial
<1>7. CASE Leave(r)
  <2>1. Gone(r) /\ request[r].pc \notin {"success", "unlink"}
    BY <1>7 DEF Leave
  <2> QED
    BY <2>1, GoneSerial
<1> QED
  BY <1>1, <1>2, <1>3, <1>4, <1>5, <1>6, <1>7 DEF Step

LEMMA NextSerial == IInv /\ SInv /\ Serial /\ Serial' /\ [Next]_vars => SInv'
<1> SUFFICES ASSUME IInv, SInv, Serial, LinksHold', [Next]_vars PROVE SInv'
  BY DEF Serial
<1>1. ASSUME NEW r \in Requests, Arrive(r) \/ Step(r) \/ Disconnect(r) PROVE SInv'
  <2>1. CASE Arrive(r)
    BY <2>1, ArriveSerial
  <2>2. CASE Step(r)
    BY <2>2, StepSerial
  <2>3. CASE Disconnect(r)
    <3>1. Gone(r) /\ request[r].pc \notin {"success", "unlink"}
      BY <2>3 DEF Disconnect
    <3> QED
      BY <3>1, GoneSerial
  <2> QED
    BY <1>1, <2>1, <2>2, <2>3
<1>2. ASSUME NEW a \in Accounts, Operate(a) \/ CooldownEnds(a) PROVE SInv'
  BY <1>2, AccountSerial
<1>3. CASE UNCHANGED vars
  BY <1>3 DEF vars, SInv
<1> QED
  BY <1>1, <1>2, <1>3 DEF Next, Turns

LEMMA SerialInvariant == Spec /\ []Serial => []SInv
  BY SerialInit, NextSerial, Inductive, PTL DEF Spec

\* As long as no two requests hold one conversation and no link is dropped
\* while it is read, every turn runs in a session of its own account and in
\* exactly the context its client sent, whether it threads into an old session
\* or rebuilds, retries, repairs or fails over (server.py 458-462, 526-550).
THEOREM SerialTurnsExact == Spec /\ []Serial => []TurnsExact
<1>1. SInv => TurnsExact
  BY DEF SInv, Turn, Runs, TurnsExact
<1> QED
  BY <1>1, SerialInvariant, PTL

\* Under the same two conditions a live link points at a branch that holds the
\* conversation's history and nothing else, but for a repaired turn between its
\* commit and the drop of its link (server.py 969-985).
THEOREM SerialLinksMirror == Spec /\ []Serial => []LinkMirrors
<1>1. IInv /\ SInv => LinkMirrors
  <2> HAVE IInv /\ SInv
  <2>1. recency \in Seq(Slots)
    BY DEF IInv, RecencyFit
  <2>2. Stored \subseteq Slots
    BY <2>1, LenProperties, ElementOfSeq DEF Stored, ToSet
  <2> QED
    BY <2>2 DEF SInv, Mirrors, Awaits, LinkMirrors
<1> QED
  BY <1>1, Inductive, SerialInvariant, PTL

-----------------------------------------------------------------------------
(* One request at a time.                                                  *)

OneAtATime == \E r : Requests = {r}

Undisturbed == "disable" \notin Operators

\* Where a request is about to use, or has just written, a conversation.
AtStore == Reading \union {"success", "unlink", "done"}

\* A step that neither finds nor writes one.
Away(q, v) == v.pc \notin AtStore /\ v.conv \in {q.conv, NoConv}

LEMMA AwayPc ==
  ASSUME NEW q, Shaped(q), NEW pc, pc \notin AtStore
  PROVE  Away(q, [q EXCEPT !.pc = pc])
  BY DEF Shaped, Fields, Away

LEMMA AwayAccount ==
  ASSUME NEW q, Shaped(q), NEW pc, NEW a, pc \notin AtStore
  PROVE  Away(q, [q EXCEPT !.pc = pc, !.account = a])
  BY DEF Shaped, Fields, Away

LEMMA AwayGave ==
  ASSUME NEW q, Shaped(q), NEW pc, NEW category, pc \notin AtStore
  PROVE  Away(q, Gave(q, pc, category)) /\ Away(q, GaveTarget(q, pc, category))
  BY OverWith DEF Away, SameTurn

LEMMA AwayCharge ==
  ASSUME NEW q, Shaped(q), NEW pc, pc \notin AtStore
  PROVE  Away(q, Charge(q, pc))
  BY ChargeFields DEF Away

LEMMA AwayRefused == \A q, cost : Away(q, Refused(q, cost))
<1> TAKE q, cost
<1> DEFINE v == Refused(q, cost)
<1>1. v.pc = "failed" /\ v.conv = NoConv
  BY DEF Refused, Blank
<1> HIDE DEF v
<1>2. Away(q, v)
  BY <1>1 DEF Away, AtStore, Reading
<1> QED
  BY <1>2 DEF v

LEMMA AwayAgain ==
  ASSUME NEW q, Shaped(q), q.pc \notin AtStore
  PROVE  Away(q, Again(q))
  BY AgainFields DEF Away

\* The actions that look a conversation up, read it or write it.
Touches(r) ==
  \/ Resolve(r) \/ CheckLink(r) \/ ReadSession(r)
  \/ CommitTurn(r) \/ RecordSuccess(r) \/ UnlinkRepaired(r)

Elsewhere(r) == Away(request[r], request'[r]) /\ recency' = recency

LEMMA ElsewhereIs ==
  ASSUME IInv, NEW r \in Requests, NEW v, request' = [request EXCEPT ![r] = v],
         Away(request[r], v), recency' = recency
  PROVE  Elsewhere(r)
  BY DEF IInv, RequestsFit, Elsewhere

LEMMA PreparesElsewhere ==
  ASSUME IInv, NEW r \in Requests,
         Arrive(r) \/ DropLink(r) \/ ReadParent(r) \/ Rebind(r) \/ Select(r)
  PROVE  Elsewhere(r)
<1> DEFINE q == request[r]
<1>1. Shaped(q)
  BY RequestLocal
<1>2. CASE Arrive(r)
  <2>1. PICK mode \in Modes, incoming \in Histories :
          request' = [request EXCEPT ![r] =
            [Blank EXCEPT !.pc = "resolve", !.mode = mode, !.incoming = incoming]]
    BY <1>2 DEF Arrive
  <2> DEFINE v == [Blank EXCEPT !.pc = "resolve", !.mode = mode, !.incoming = incoming]
  <2>2. v.pc = "resolve" /\ v.conv = NoConv
    BY DEF Blank
  <2>3. request' = [request EXCEPT ![r] = v] /\ recency' = recency
    BY <1>2, <2>1 DEF Arrive
  <2> HIDE DEF v
  <2>4. Away(q, v)
    BY <2>2 DEF Away, AtStore, Reading
  <2> QED
    BY <2>3, <2>4, ElsewhereIs
<1>3. CASE DropLink(r)
  <2>1. request' = [request EXCEPT ![r] = [q EXCEPT !.pc = "bound"]] /\ recency' = recency
    BY <1>3 DEF DropLink
  <2>2. Away(q, [q EXCEPT !.pc = "bound"])
    BY <1>1, AwayPc DEF AtStore, Reading
  <2> QED
    BY <2>1, <2>2, ElsewhereIs
<1>4. CASE ReadParent(r)
  <2> DEFINE parent == heap[q.conv].parent
             prompt == Delta(q.incoming, q.known)
             v == [q EXCEPT !.pc = "call", !.parent = parent, !.known = 0,
                            !.prompt = prompt]
  <2>1. request' = [request EXCEPT ![r] = v] /\ recency' = recency
    BY <1>4 DEF ReadParent
  <2>2. v.pc = "call" /\ v.conv = q.conv
    <3> HIDE DEF parent, prompt
    <3> QED
      BY <1>1 DEF Shaped, Fields
  <2> HIDE DEF v
  <2>3. Away(q, v)
    BY <2>2 DEF Away, AtStore, Reading
  <2> QED
    BY <2>1, <2>3, ElsewhereIs
<1>5. ASSUME NEW a, request' = [request EXCEPT ![r].pc = "create", ![r].account = a],
             recency' = recency
      PROVE  Elsewhere(r)
  <2>1. request' = [request EXCEPT ![r] = [q EXCEPT !.pc = "create", !.account = a]]
    BY <1>5
  <2>2. Away(q, [q EXCEPT !.pc = "create", !.account = a])
    BY <1>1, AwayAccount DEF AtStore, Reading
  <2> QED
    BY <1>5, <2>1, <2>2, ElsewhereIs
<1>6. CASE Rebind(r)
  <2>1. CASE request' = [request EXCEPT ![r].pc = "select"]
    <3>1. request' = [request EXCEPT ![r] = [q EXCEPT !.pc = "select"]] /\ recency' = recency
      BY <1>6, <2>1 DEF Rebind
    <3>2. Away(q, [q EXCEPT !.pc = "select"])
      BY <1>1, AwayPc DEF AtStore, Reading
    <3> QED
      BY <3>1, <3>2, ElsewhereIs
  <2> QED
    BY <1>5, <1>6, <2>1 DEF Rebind
<1>7. CASE Select(r)
  <2>1. CASE request' = [request EXCEPT ![r] = Refused(q, 0)]
    BY <1>7, <2>1, AwayRefused, ElsewhereIs DEF Select
  <2> QED
    BY <1>5, <1>7, <2>1 DEF Select
<1> QED
  BY <1>2, <1>3, <1>4, <1>6, <1>7

LEMMA OpensElsewhere ==
  ASSUME IInv, NEW r \in Requests,
         \/ Create(r) \/ CreateFailed(r) \/ FailoverSelect(r) \/ FailoverCreate(r)
         \/ FailoverFailed(r)
  PROVE  Elsewhere(r)
<1> DEFINE q == request[r]
<1>1. Shaped(q)
  BY RequestLocal
<1>2. ASSUME request' = [request EXCEPT ![r].tries = @ + 1], q.pc \notin AtStore,
             recency' = recency
      PROVE  Elsewhere(r)
  <2>1. request' = [request EXCEPT ![r] = Again(q)]
    BY <1>2 DEF Again
  <2> QED
    BY <1>1, <1>2, <2>1, AwayAgain, ElsewhereIs
<1>3. CASE Create(r)
  <2>1. q.pc \notin AtStore /\ recency' = recency
    BY <1>3 DEF Create, AtStore, Reading
  <2>2. ASSUME request' = [request EXCEPT ![r] =
                 [q EXCEPT !.pc = "call", !.session = FreshSession(q.account),
                           !.parent = NoParent, !.prompt = q.incoming, !.tries = 0]]
        PROVE  Elsewhere(r)
    <3> DEFINE session == FreshSession(q.account)
               prompt == q.incoming
               v == [q EXCEPT !.pc = "call", !.session = session,
                              !.parent = NoParent, !.prompt = prompt, !.tries = 0]
    <3>1. request' = [request EXCEPT ![r] = v]
      BY <2>2
    <3>2. v.pc = "call" /\ v.conv = q.conv
      <4> HIDE DEF session, prompt
      <4> QED
        BY <1>1 DEF Shaped, Fields
    <3> HIDE DEF v
    <3>3. Away(q, v)
      BY <3>2 DEF Away, AtStore, Reading
    <3> QED
      BY <2>1, <3>1, <3>3, ElsewhereIs
  <2>3. ASSUME NEW category,
               request' = [request EXCEPT ![r] = Gave(q, "createFailed", category)]
        PROVE  Elsewhere(r)
    <3>1. Away(q, Gave(q, "createFailed", category))
      BY <1>1, AwayGave DEF AtStore, Reading
    <3> QED
      BY <2>1, <2>3, <3>1, ElsewhereIs
  <2> QED
    BY <1>2, <1>3, <2>1, <2>2, <2>3 DEF Create, Gave
<1>4. CASE CreateFailed(r)
  <2>1. recency' = recency
    BY <1>4 DEF CreateFailed, Consequence
  <2>2. Away(q, Charge(q, "foSelect")) /\ Away(q, Refused(q, 1))
    BY <1>1, AwayCharge, AwayRefused DEF AtStore, Reading
  <2>3. \/ request' = [request EXCEPT ![r] = Charge(q, "foSelect")]
        \/ request' = [request EXCEPT ![r] = Refused(q, 1)]
    BY <1>4 DEF CreateFailed
  <2> QED
    BY <2>1, <2>2, <2>3, ElsewhereIs
<1>5. CASE FailoverSelect(r)
  <2>1. recency' = recency
    BY <1>5 DEF FailoverSelect
  <2>2. ASSUME NEW a, request' = [request EXCEPT ![r].pc = "foCreate", ![r].target = a,
                                                 ![r].charges = 0]
        PROVE  Elsewhere(r)
    <3> DEFINE v == [q EXCEPT !.pc = "foCreate", !.target = a, !.charges = 0]
    <3>1. request' = [request EXCEPT ![r] = v]
      BY <2>2
    <3>2. v.pc = "foCreate" /\ v.conv = q.conv
      BY <1>1 DEF Shaped, Fields
    <3> HIDE DEF v
    <3>3. Away(q, v)
      BY <3>2 DEF Away, AtStore, Reading
    <3> QED
      BY <2>1, <3>1, <3>3, ElsewhereIs
  <2>3. CASE request' = [request EXCEPT ![r] = Refused(q, 0)]
    BY <2>1, <2>3, AwayRefused, ElsewhereIs
  <2> QED
    BY <1>5, <2>2, <2>3 DEF FailoverSelect
<1>6. CASE FailoverCreate(r)
  <2>1. q.pc \notin AtStore /\ recency' = recency
    BY <1>6 DEF FailoverCreate, AtStore, Reading
  <2>2. ASSUME request' = [request EXCEPT ![r] =
                 [q EXCEPT !.pc = "call", !.account = q.target, !.target = NoAccount,
                           !.session = FreshSession(q.target), !.parent = NoParent,
                           !.prompt = q.incoming, !.tries = 0, !.repaired = FALSE,
                           !.moves = @ + 1, !.cause = "none"]]
        PROVE  Elsewhere(r)
    <3> DEFINE a == q.target
               session == FreshSession(a)
               prompt == q.incoming
               n == q.moves + 1
               v == [q EXCEPT !.pc = "call", !.account = a, !.target = NoAccount,
                              !.session = session, !.parent = NoParent,
                              !.prompt = prompt, !.tries = 0, !.repaired = FALSE,
                              !.moves = n, !.cause = "none"]
    <3>1. request' = [request EXCEPT ![r] = v]
      BY <2>2
    <3>2. v.pc = "call" /\ v.conv = q.conv
      <4> HIDE DEF a, session, prompt, n
      <4> QED
        BY <1>1 DEF Shaped, Fields
    <3> HIDE DEF v
    <3>3. Away(q, v)
      BY <3>2 DEF Away, AtStore, Reading
    <3> QED
      BY <2>1, <3>1, <3>3, ElsewhereIs
  <2>3. ASSUME NEW category,
               request' = [request EXCEPT ![r] = GaveTarget(q, "foFailed", category)]
        PROVE  Elsewhere(r)
    <3>1. Away(q, GaveTarget(q, "foFailed", category))
      BY <1>1, AwayGave DEF AtStore, Reading
    <3> QED
      BY <2>1, <2>3, <3>1, ElsewhereIs
  <2> QED
    BY <1>2, <1>6, <2>1, <2>2, <2>3 DEF FailoverCreate, GaveTarget
<1>7. CASE FailoverFailed(r)
  BY <1>7, AwayRefused, ElsewhereIs DEF FailoverFailed, Consequence
<1> QED
  BY <1>3, <1>4, <1>5, <1>6, <1>7

LEMMA GoneElsewhere ==
  ASSUME IInv, NEW r \in Requests, Gone(r)
  PROVE  Elsewhere(r)
<1>1. request' = [request EXCEPT ![r] = Blank] /\ recency' = recency
  BY DEF Gone
<1>2. Away(request[r], Blank)
  BY DEF Away, Blank, AtStore, Reading
<1> QED
  BY <1>1, <1>2, ElsewhereIs

LEMMA DrainsElsewhere ==
  ASSUME IInv, NEW r \in Requests,
         Drain(r) \/ StreamFinishes(r) \/ RepairRetry(r) \/ DrainFails(r)
  PROVE  Elsewhere(r)
<1> DEFINE q == request[r]
<1>1. Shaped(q) /\ recency' = recency
  BY RequestLocal DEF Drain, StreamFinishes, RepairRetry, DrainFails
<1>2. CASE Drain(r) \/ StreamFinishes(r)
  <2>1. PICK answer \in Answer(q) : request' = [request EXCEPT ![r] = Answered(q, answer)]
    BY <1>2 DEF Drain, StreamFinishes
  <2> DEFINE v == Answered(q, answer)
  <2>2. v.pc = "commit" /\ v.conv = q.conv
    BY <1>1 DEF Answered, Shaped, Fields
  <2> HIDE DEF v
  <2>3. Away(q, v)
    BY <2>2 DEF Away, AtStore, Reading
  <2>4. request' = [request EXCEPT ![r] = v]
    BY <2>1 DEF v
  <2> QED
    BY <1>1, <2>3, <2>4, ElsewhereIs
<1>3. CASE RepairRetry(r)
  <2> DEFINE prompt == q.prompt \o <<Hint>>
             v == [q EXCEPT !.repaired = TRUE, !.tries = 0, !.prompt = prompt]
  <2>1. q.pc = "call" /\ request' = [request EXCEPT ![r] = v]
    BY <1>3 DEF RepairRetry
  <2>2. v.pc = q.pc /\ v.conv = q.conv
    <3> HIDE DEF prompt
    <3> QED
      BY <1>1 DEF Shaped, Fields
  <2> HIDE DEF v
  <2>3. Away(q, v)
    BY <2>1, <2>2 DEF Away, AtStore, Reading
  <2> QED
    BY <1>1, <2>1, <2>3, ElsewhereIs
<1>4. CASE DrainFails(r)
  <2>1. q.pc = "call"
    BY <1>4 DEF DrainFails
  <2>2. CASE request' = [request EXCEPT ![r].tries = @ + 1]
    <3>1. request' = [request EXCEPT ![r] = Again(q)]
      BY <2>2 DEF Again
    <3>2. Away(q, Again(q))
      BY <1>1, <2>1, AwayAgain DEF AtStore, Reading
    <3> QED
      BY <1>1, <3>1, <3>2, ElsewhereIs
  <2>3. ASSUME NEW category, request' = [request EXCEPT ![r] = Gave(q, "fail", category)]
        PROVE  Elsewhere(r)
    <3>1. Away(q, Gave(q, "fail", category))
      BY <1>1, AwayGave DEF AtStore, Reading
    <3> QED
      BY <1>1, <2>3, <3>1, ElsewhereIs
  <2> QED
    BY <1>4, <2>2, <2>3 DEF DrainFails, Gave
<1> QED
  BY <1>2, <1>3, <1>4

LEMMA StreamsElsewhere ==
  ASSUME IInv, NEW r \in Requests,
         Prime(r) \/ PrimeFails(r) \/ PrimePunish(r) \/ StreamBreaks(r)
  PROVE  Elsewhere(r)
<1> DEFINE q == request[r]
<1>1. Shaped(q) /\ recency' = recency
  BY RequestLocal DEF Prime, PrimeFails, PrimePunish, StreamBreaks, Consequence
<1>2. CASE Prime(r)
  <2> DEFINE v == [q EXCEPT !.pc = "stream", !.tries = 0]
  <2>1. request' = [request EXCEPT ![r] = v]
    BY <1>2 DEF Prime
  <2>2. v.pc = "stream" /\ v.conv = q.conv
    BY <1>1 DEF Shaped, Fields
  <2> HIDE DEF v
  <2>3. Away(q, v)
    BY <2>2 DEF Away, AtStore, Reading
  <2> QED
    BY <1>1, <2>1, <2>3, ElsewhereIs
<1>3. CASE PrimeFails(r)
  <2>1. PICK category \in Failures :
          request' = [request EXCEPT ![r].pc = "primePunish", ![r].cause = category]
    BY <1>3 DEF PrimeFails
  <2> DEFINE v == [q EXCEPT !.pc = "primePunish", !.cause = category]
  <2>2. request' = [request EXCEPT ![r] = v]
    BY <2>1
  <2>3. v.pc = "primePunish" /\ v.conv = q.conv
    BY <1>1 DEF Shaped, Fields
  <2> HIDE DEF v
  <2>4. Away(q, v)
    BY <2>3 DEF Away, AtStore, Reading
  <2> QED
    BY <1>1, <2>2, <2>4, ElsewhereIs
<1>4. CASE PrimePunish(r)
  <2> DEFINE n == q.tries + 1
             k == q.charges + 1
             u == [q EXCEPT !.pc = "call", !.tries = n, !.cause = "none", !.charges = k]
  <2>1. \/ request' = [request EXCEPT ![r] = u]
        \/ request' = [request EXCEPT ![r] = Charge(q, "fail")]
    BY <1>4 DEF PrimePunish
  <2>2. u.pc = "call" /\ u.conv = q.conv
    <3> HIDE DEF n, k
    <3> QED
      BY <1>1 DEF Shaped, Fields
  <2> HIDE DEF u
  <2>3. Away(q, u)
    BY <2>2 DEF Away, AtStore, Reading
  <2>4. Away(q, Charge(q, "fail"))
    BY <1>1, AwayCharge DEF AtStore, Reading
  <2> QED
    BY <1>1, <2>1, <2>3, <2>4, ElsewhereIs
<1>5. CASE StreamBreaks(r)
  <2>1. PICK category \in Failures :
          request' = [request EXCEPT ![r] = Gave(q, "midPunish", category)]
    BY <1>5 DEF StreamBreaks, Gave
  <2>2. Away(q, Gave(q, "midPunish", category))
    BY <1>1, AwayGave DEF AtStore, Reading
  <2> QED
    BY <1>1, <2>1, <2>2, ElsewhereIs
<1> QED
  BY <1>2, <1>3, <1>4, <1>5

LEMMA FailsElsewhere ==
  ASSUME IInv, NEW r \in Requests, FailTurn(r) \/ Punish(r) \/ MidPunish(r)
  PROVE  Elsewhere(r)
<1> DEFINE q == request[r]
<1>1. Shaped(q) /\ recency' = recency
  BY RequestLocal DEF FailTurn, Punish, MidPunish, Consequence
<1>2. CASE FailTurn(r)
  <2>1. request' = [request EXCEPT ![r] = [q EXCEPT !.pc = "punish"]]
    BY <1>2 DEF FailTurn
  <2>2. Away(q, [q EXCEPT !.pc = "punish"])
    BY <1>1, AwayPc DEF AtStore, Reading
  <2> QED
    BY <1>1, <2>1, <2>2, ElsewhereIs
<1>3. CASE Punish(r)
  <2> DEFINE o == Charge(q, "foSelect")
             v == [o EXCEPT !.rerun = TRUE]
  <2>1. \/ request' = [request EXCEPT ![r] = v]
        \/ request' = [request EXCEPT ![r] = Refused(q, 1)]
    BY <1>3 DEF Punish
  <2>2. Shaped(o) /\ o.pc = "foSelect" /\ o.conv = q.conv
    BY <1>1, ChargeFields
  <2> HIDE DEF o
  <2>3. v.pc = "foSelect" /\ v.conv = q.conv
    BY <2>2 DEF Shaped, Fields
  <2> HIDE DEF v
  <2>4. Away(q, v)
    BY <2>3 DEF Away, AtStore, Reading
  <2> QED
    BY <1>1, <2>1, <2>4, AwayRefused, ElsewhereIs
<1>4. CASE MidPunish(r)
  BY <1>1, <1>4, AwayRefused, ElsewhereIs DEF MidPunish
<1> QED
  BY <1>2, <1>3, <1>4

\* A request looks a conversation up, reads it, writes it, or is elsewhere.
LEMMA TouchesOrElsewhere ==
  ASSUME IInv, NEW r \in Requests, Arrive(r) \/ Step(r) \/ Disconnect(r)
  PROVE  Touches(r) \/ Elsewhere(r)
<1>1. CASE Arrive(r) \/ DropLink(r) \/ ReadParent(r) \/ Rebind(r) \/ Select(r)
  BY <1>1, PreparesElsewhere
<1>2. CASE \/ Create(r) \/ CreateFailed(r) \/ FailoverSelect(r) \/ FailoverCreate(r)
           \/ FailoverFailed(r)
  BY <1>2, OpensElsewhere
<1>3. CASE Drain(r) \/ StreamFinishes(r) \/ RepairRetry(r) \/ DrainFails(r)
  BY <1>3, DrainsElsewhere
<1>4. CASE Prime(r) \/ PrimeFails(r) \/ PrimePunish(r) \/ StreamBreaks(r)
  BY <1>4, StreamsElsewhere
<1>5. CASE FailTurn(r) \/ Punish(r) \/ MidPunish(r)
  BY <1>5, FailsElsewhere
<1>6. CASE Leave(r) \/ Disconnect(r)
  BY <1>6, GoneElsewhere DEF Leave, Disconnect
<1> QED
  BY <1>1, <1>2, <1>3, <1>4, <1>5, <1>6 DEF Step, Touches

LEMMA FindsStored ==
  ASSUME IInv, NEW r \in Requests, Resolve(r)
  PROVE  /\ heap' = heap /\ recency' = recency
         /\ request'[r].pc \in {"select", "link"}
         /\ request'[r].conv \in Stored \union {request[r].conv}
<1> DEFINE q == request[r]
           found == BestMatches(Messages, Stored, q.incoming)
<1>1. Shaped(q) /\ heap' = heap /\ recency' = recency
  BY RequestLocal DEF Resolve
<1>2. CASE request' = [request EXCEPT ![r].pc = "select"]
  <2>1. request'[r] = [q EXCEPT !.pc = "select"]
    BY <1>2 DEF IInv, RequestsFit
  <2> QED
    BY <1>1, <2>1 DEF Shaped, Fields
<1>3. ASSUME NEW c \in found,
             request' = [request EXCEPT ![r].pc = "link", ![r].conv = c,
                                        ![r].known = Len(heap[c].messages)]
      PROVE  request'[r].pc = "link" /\ request'[r].conv \in Stored
  <2> DEFINE n == Len(heap[c].messages)
             v == [q EXCEPT !.pc = "link", !.conv = c, !.known = n]
  <2>1. c \in Stored
    BY DEF BestMatches, Candidates
  <2>2. request'[r] = v
    BY <1>3 DEF IInv, RequestsFit
  <2>3. v.pc = "link" /\ v.conv = c
    <3> HIDE DEF n
    <3> QED
      BY <1>1 DEF Shaped, Fields
  <2> HIDE DEF v
  <2> QED
    BY <2>1, <2>2, <2>3
<1> QED
  BY <1>1, <1>2, <1>3 DEF Resolve

LEMMA ReadsHeld ==
  ASSUME IInv, NEW r \in Requests, CheckLink(r) \/ ReadSession(r)
  PROVE  /\ heap' = heap /\ recency' = recency
         /\ request'[r].conv = request[r].conv
         /\ request'[r].pc \in {"bound", "drop", "session", "parent"}
         /\ \/ request'[r].pc \in Reading => heap[request[r].conv].session # NoSession
            \/ request[r].pc \in Reading
<1> DEFINE q == request[r]
<1>1. Shaped(q) /\ heap' = heap /\ recency' = recency
  BY RequestLocal DEF CheckLink, ReadSession
<1>2. CASE CheckLink(r)
  <2> DEFINE a == heap[q.conv].account
             u == [q EXCEPT !.pc = "bound"]
             v == [q EXCEPT !.pc = "session", !.account = a]
             w == [q EXCEPT !.pc = "drop"]
  <2>1. \/ request'[r] = u
        \/ request'[r] = v /\ heap[q.conv].session # NoSession
        \/ request'[r] = w
    <3> DEFINE value == CASE heap[q.conv].session = NoSession -> u
                          [] heap[q.conv].session # NoSession /\ MayServe(fleet, a) -> v
                          [] OTHER -> w
    <3>1. request'[r] = value
      BY <1>2 DEF CheckLink, IInv, RequestsFit
    <3>2. value \in {u, w} \/ (value = v /\ heap[q.conv].session # NoSession)
      <4> HIDE DEF u, v, w
      <4> QED
        OBVIOUS
    <3> HIDE DEF value
    <3> QED
      BY <3>1, <3>2
  <2>2. u.pc = "bound" /\ u.conv = q.conv /\ w.pc = "drop" /\ w.conv = q.conv
    BY <1>1, PcCarries
  <2>3. v.pc = "session" /\ v.conv = q.conv
    <3> HIDE DEF a
    <3> QED
      BY <1>1 DEF Shaped, Fields
  <2> HIDE DEF u, v, w
  <2> QED
    BY <1>1, <2>1, <2>2, <2>3 DEF Reading
<1>3. CASE ReadSession(r)
  <2> DEFINE session == heap[q.conv].session
             v == [q EXCEPT !.pc = "parent", !.session = session]
  <2>1. q.pc = "session" /\ request'[r] = v
    BY <1>3 DEF ReadSession, IInv, RequestsFit
  <2>2. v.pc = "parent" /\ v.conv = q.conv
    <3> HIDE DEF session
    <3> QED
      BY <1>1 DEF Shaped, Fields
  <2> HIDE DEF v
  <2> QED
    BY <1>1, <2>1, <2>2 DEF Reading
<1> QED
  BY <1>2, <1>3

LEMMA WritesStored ==
  ASSUME IInv, NEW r \in Requests, CommitTurn(r), request[r].conv \in Stored \union {NoConv}
  PROVE  /\ request'[r].pc = "success"
         /\ request'[r].conv \in Stored'
         /\ heap'[request'[r].conv].messages = request'[r].incoming \o request'[r].reply
<1> DEFINE q == request[r]
           c == Target(q)
           row == Committed(q, c)
           v == [q EXCEPT !.pc = "success", !.conv = c]
           reachable == ToSet(recency') \union {c} \union HeldBy(Requests \ {r})
           g == [heap EXCEPT ![c] = row]
<1>1. q.pc = "commit" /\ Local(q) /\ Shaped(q)
  BY RequestLocal DEF CommitTurn
<1>2. c \in Slots /\ (q.conv = NoConv \/ c \in Stored)
  <2>1. NoConv \notin Slots /\ q.conv \in Slots \union {NoConv}
    BY <1>1, SlotCount DEF NoConv, Local, ConvFit
  <2> QED
    BY <2>1, FreeSlotExists DEF Target
<1>3. request'[r] = v /\ heap' = Swept(g, reachable)
  BY DEF CommitTurn, IInv, RequestsFit
<1>4. recency' = Kept(Append(RemoveFirst(recency, c), c))
  BY <1>2 DEF CommitTurn
<1>5. c \in Stored'
  <2>1. recency \in Seq(Slots)
    BY DEF IInv, RecencyFit
  <2> HIDE DEF c
  <2> QED
    BY <1>2, <1>4, <2>1, KeptFits DEF Stored
<1>6. row.messages = q.incoming \o q.reply
  BY DEF Committed
<1>7. v.pc = "success" /\ v.conv = c /\ v.incoming = q.incoming /\ v.reply = q.reply
  <2> HIDE DEF c
  <2> QED
    BY <1>1 DEF Shaped, Fields
<1> HIDE DEF v, row, c
<1>8. heap'[c] = row
  BY <1>2, <1>3 DEF Swept, IInv, HeapFit
<1> QED
  BY <1>3, <1>5, <1>6, <1>7, <1>8

LEMMA SettlesStored ==
  ASSUME IInv, NEW r \in Requests, RecordSuccess(r) \/ UnlinkRepaired(r)
  PROVE  /\ request[r].pc \in {"success", "unlink"}
         /\ request'[r].pc \in {"unlink", "done"} /\ request'[r].conv = request[r].conv
         /\ request'[r].incoming = request[r].incoming /\ request'[r].reply = request[r].reply
         /\ recency' = recency
         /\ \A c \in Slots : heap'[c].messages = heap[c].messages
<1> DEFINE q == request[r]
           u == [q EXCEPT !.pc = "unlink"]
           v == [q EXCEPT !.pc = "done"]
<1>1. /\ Shaped(q) /\ recency' = recency /\ q.pc \in {"success", "unlink"}
      /\ heap' = heap \/ heap' = Unlinked(heap, {q.conv})
  BY RequestLocal DEF RecordSuccess, UnlinkRepaired
<1>2. \A c \in Slots : heap'[c].messages = heap[c].messages
  <2>1. \A c \in Slots : Spared(heap, heap', c)
    BY <1>1, QuietSpares, UnlinkSpares
  <2> QED
    BY <2>1 DEF Spared
<1>3. request'[r] = u \/ request'[r] = v
  BY DEF RecordSuccess, UnlinkRepaired, IInv, RequestsFit
<1>4. /\ u.pc = "unlink" /\ u.conv = q.conv /\ u.incoming = q.incoming /\ u.reply = q.reply
      /\ v.pc = "done" /\ v.conv = q.conv /\ v.incoming = q.incoming /\ v.reply = q.reply
  BY <1>1 DEF Shaped, Fields
<1> HIDE DEF u, v
<1> QED
  BY <1>1, <1>2, <1>3, <1>4

\* Nothing drops the link a lone request has checked: the operator disables
\* nobody, and no other request fails.
LEMMA SoloSerial ==
  ASSUME OneAtATime, Undisturbed
  PROVE  Spec => []Serial
<1>0. PICK r : Requests = {r}
  BY DEF OneAtATime
<1>1. OneConversationEach
  BY <1>0 DEF OneConversationEach
<1>2. Init => LinksHold
  BY DEF Init, Blank, LinksHold, Reading
<1>3. IInv /\ LinksHold /\ [Next]_vars => LinksHold'
  <2> SUFFICES ASSUME IInv, LinksHold, [Next]_vars, request'[r].pc \in Reading
               PROVE  heap'[request'[r].conv].session # NoSession
    BY <1>0 DEF LinksHold
  <2>1. r \in Requests
    BY <1>0
  <2>2. request[r].pc \in Reading => heap[request[r].conv].session # NoSession
    BY <2>1 DEF LinksHold
  <2>3. CASE Turns
    <3>1. Arrive(r) \/ Step(r) \/ Disconnect(r)
      BY <1>0, <2>3 DEF Turns
    <3>2. Touches(r)
      BY <2>1, <3>1, TouchesOrElsewhere DEF Elsewhere, Away, AtStore
    <3>3. CheckLink(r) \/ ReadSession(r)
      <4>1. ~ Resolve(r)
        BY <2>1, FindsStored DEF Reading
      <4>2. ~ CommitTurn(r)
        <5>1. CommitTurn(r) => request'[r] = [request[r] EXCEPT !.pc = "success",
                                                               !.conv = Target(request[r])]
          BY <2>1 DEF CommitTurn, IInv, RequestsFit
        <5> DEFINE c == Target(request[r])
        <5>2. [request[r] EXCEPT !.pc = "success", !.conv = c].pc = "success"
          <6> HIDE DEF c
          <6> QED
            BY <2>1, RequestLocal DEF Shaped, Fields
        <5> QED
          BY <5>1, <5>2 DEF Reading
      <4>3. ~ RecordSuccess(r) /\ ~ UnlinkRepaired(r)
        BY <2>1, SettlesStored DEF Reading
      <4> QED
        BY <3>2, <4>1, <4>2, <4>3 DEF Touches
    <3> QED
      BY <2>1, <2>2, <3>3, ReadsHeld
  <2>4. ASSUME NEW a \in Accounts, Operate(a) \/ CooldownEnds(a)
        PROVE  request' = request /\ heap' = heap
    BY <2>4 DEF Operate, CooldownEnds, Undisturbed
  <2>5. CASE UNCHANGED vars
    BY <2>2, <2>5 DEF vars
  <2> QED
    BY <2>2, <2>3, <2>4, <2>5 DEF Next
<1>4. OneConversationEach /\ LinksHold => Serial
  BY DEF Serial
<1> QED
  BY <1>1, <1>2, <1>3, <1>4, Inductive, PTL DEF Spec

\* One request at a time, and an operator who disables nobody: every turn runs
\* in exactly the context its client sent, through any failures, retries,
\* repairs, failovers, cooldowns and evictions (server.py 458-462, 526-550).
THEOREM SoloTurnsExact ==
  ASSUME OneAtATime, Undisturbed
  PROVE  Spec => []TurnsExact
  BY SoloSerial, SerialTurnsExact, PTL

\* Under the same assumptions a live link mirrors the history it stands for
\* (server.py 969-985).
THEOREM SoloLinksMirror ==
  ASSUME OneAtATime, Undisturbed
  PROVE  Spec => []LinkMirrors
  BY SoloSerial, SerialLinksMirror, PTL

\* A conversation a request has found or written is in the store, and one it
\* has written holds what was said.
Recalled(q, h, stored) ==
  /\ q.conv # NoConv => q.conv \in stored
  /\ q.pc \in {"success", "unlink", "done"} =>
       q.conv \in stored /\ h[q.conv].messages = q.incoming \o q.reply

LEMMA KeptTouches ==
  ASSUME IInv, NEW r \in Requests, Touches(r), Recalled(request[r], heap, Stored)
  PROVE  Recalled(request'[r], heap', Stored')
<1> DEFINE q == request[r]
           v == request'[r]
<1>1. ASSUME recency' = recency PROVE Stored' = Stored
  BY <1>1 DEF Stored
<1>2. CASE Resolve(r)
  BY <1>1, <1>2, FindsStored DEF Recalled
<1>3. CASE CheckLink(r) \/ ReadSession(r)
  BY <1>1, <1>3, ReadsHeld DEF Recalled, Reading
<1>4. CASE CommitTurn(r)
  <2>1. request[r].conv \in Stored \union {NoConv}
    BY DEF Recalled
  <2> QED
    BY <1>4, <2>1, WritesStored DEF Recalled
<1>5. CASE RecordSuccess(r) \/ UnlinkRepaired(r)
  <2>1. Stored \subseteq Slots
    <3>1. recency \in Seq(Slots)
      BY DEF IInv, RecencyFit
    <3> QED
      BY <3>1, LenProperties, ElementOfSeq DEF Stored, ToSet
  <2> QED
    BY <1>1, <1>5, <2>1, SettlesStored DEF Recalled
<1> QED
  BY <1>2, <1>3, <1>4, <1>5 DEF Touches

\* One request at a time: an answered request is remembered, whatever the
\* operator does and however small the store (conversation.py 353-395).
THEOREM SoloRemembered ==
  ASSUME OneAtATime
  PROVE  Spec => []Remembered
<1> DEFINE Recalls == \A r \in Requests : Recalled(request[r], heap, Stored)
<1>0. PICK r : Requests = {r}
  BY DEF OneAtATime
<1>1. Init => Recalls
  BY DEF Init, Blank, Recalled, NoConv
<1>2. IInv /\ Recalls /\ [Next]_vars => Recalls'
  <2> SUFFICES ASSUME IInv, Recalls, [Next]_vars
               PROVE  Recalled(request'[r], heap', Stored')
    BY <1>0
  <2>1. r \in Requests /\ Recalled(request[r], heap, Stored)
    BY <1>0
  <2>2. CASE Turns
    <3>1. Touches(r) \/ Elsewhere(r)
      BY <1>0, <2>1, <2>2, TouchesOrElsewhere DEF Turns
    <3>2. CASE Touches(r)
      BY <2>1, <3>2, KeptTouches
    <3>3. CASE Elsewhere(r)
      <4>1. Stored' = Stored
        BY <3>3 DEF Elsewhere, Stored
      <4> QED
        BY <2>1, <3>3, <4>1 DEF Elsewhere, Away, AtStore, Recalled
    <3> QED
      BY <3>1, <3>2, <3>3
  <2>3. ASSUME NEW a \in Accounts, Operate(a) \/ CooldownEnds(a)
        PROVE  Recalled(request'[r], heap', Stored')
    <3>1. request' = request /\ recency' = recency
      BY <2>3 DEF Operate, CooldownEnds
    <3>2. \A c \in Slots : Spared(heap, heap', c)
      <4>1. heap' = heap \/ heap' = Unlinked(heap, BoundTo(a))
        BY <2>3 DEF Operate, CooldownEnds
      <4> QED
        BY <4>1, QuietSpares, UnlinkSpares
    <3>3. Stored' = Stored /\ Stored \subseteq Slots
      <4>1. recency \in Seq(Slots)
        BY DEF IInv, RecencyFit
      <4> QED
        BY <3>1, <4>1, LenProperties, ElementOfSeq DEF Stored, ToSet
    <3> QED
      BY <2>1, <3>1, <3>2, <3>3 DEF Recalled, Spared
  <2>4. CASE UNCHANGED vars
    BY <2>1, <2>4 DEF vars, Stored
  <2> QED
    BY <2>2, <2>3, <2>4 DEF Next
<1>3. Recalls => Remembered
  BY DEF Recalled, Remembered
<1> HIDE DEF Recalls
<1> QED
  BY <1>1, <1>2, <1>3, Inductive, PTL DEF Spec
=============================================================================
