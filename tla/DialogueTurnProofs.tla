------------------------- MODULE DialogueTurnProofs -------------------------
(***************************************************************************)
(* What a turn of Dialogue records, shows, stores and has upstream         *)
(* remember, for any words, answers, clock, store and length of run: the   *)
(* client is shown what upstream says, what the store holds can be         *)
(* compiled, is found again and is what upstream's branch has been told,   *)
(* and the whole is a chat service.                                        *)
(***************************************************************************)
EXTENDS DialogueProofs

-----------------------------------------------------------------------------
(* The invariant of what is said, recorded and shown.                      *)

\* The recorder and where the turn stands.
Standing ==
  /\ turn.recorder \in Recorders
  /\ turn.recorder.finished <=> turn.pc \in {"settle", "unlink", "reply"}
  /\ turn.recorder.finished => turn.recorder.reason = "stop"
  /\ turn.mode # "tool" => turn.recorder.calls = <<>>
  /\ turn.mode = "stream" => turn.pc \in {"session", "attempt", "reply"}

\* What is recorded is what upstream has said.
Upheld ==
  /\ turn.pc = "session" => upstream = Null
  /\ upstream = Null =>
       /\ turn.pc \in {"session", "attempt"} /\ turn.path = Null
       /\ turn.recorder.text = <<>> /\ turn.recorder.calls = <<>>
  /\ upstream # Null =>
       /\ upstream \in Streams /\ turn.path = upstream.path
       /\ Says(turn.recorder, upstream.said, ToolMode)

\* What a streamed turn has shown is what it has recorded.
Shown ==
  /\ turn.renderer \in Renderers /\ turn.renderer.call = FALSE
  /\ turn.mode = "stream" =>
       response.message = Showing(turn.recorder.text, <<>>, turn.renderer.role)
  /\ turn.mode = "stream" /\ response.status = Null =>
       turn.recorder = NewRecorder /\ turn.renderer = NewRenderer
  /\ turn.mode # "stream" => response.status = Null
  /\ response.done = FALSE

\* While a request is served, recorder, stream and client agree.
Speech == Serving => Standing /\ Upheld /\ Shown

\* A line that is heard keeps recorder and client in step with the stream.
LEMMA ReceivedSpeech ==
  ASSUME NEW U, Within(U), turn \in Turns(U), turn.pc = "attempt", Speech, Balance, Balance',
         NEW line, Receive(line), NEW later, Heeds(line, later),
         upstream' \in Streams, upstream'.said = later,
         upstream'.path = PathAfter(turn.path, line)
  PROVE  Speech'
<1> DEFINE r == turn.recorder
           q == Recorded(r, Heard(line))
           n == turn.renderer
<1>1. /\ turn'.pc = "attempt" /\ turn'.mode = turn.mode
      /\ turn'.path = PathAfter(turn.path, line)
      /\ turn'.recorder = q
      /\ turn'.renderer =
              IF turn.mode = "stream" /\ Heard(line) # <<>>
                THEN Delivered(response.message, n, Heard(line)).renderer
                ELSE n
  BY ReceivedTurn, Zenon DEF Recorded
<1>2. Standing /\ Upheld /\ Shown
  BY DEF Speech, Serving
<1>3. /\ q \in Recorders /\ SameStanding(q, r)
      /\ Says(q, later, ToolMode)
      /\ ~ToolMode => q.calls = <<>>
      /\ ~ToolMode => \A m \in Renderers : \E k \in Renderers :
           /\ k.call = m.call
           /\ Leads(Showing(r.text, <<>>, m.role), m, Heard(line),
                    Showing(q.text, <<>>, k.role), k)
  BY Zenon DEF Heeds
<1>4. Heard(line) = <<>> => q = r
  BY ObservedFew
<1> HIDE DEF q
<1>5. Standing'
  BY <1>1, <1>2, <1>3 DEF Standing, SameStanding, ToolMode
<1>6. upstream' # Null
  BY DialogueAssumption
<1>7. Upheld'
  <2>1. ToolMode' = ToolMode
    BY <1>1 DEF ToolMode
  <2> QED
    BY <1>1, <1>3, <1>6, <2>1, Zenon DEF Upheld
<1>8. Shown'
  <2>1. PICK V : response \in Responses(V)
    BY DEF Balance
  <2>2. CASE turn.mode # "stream"
    <3>1. response' = response
      BY <2>2, Zenon DEF Receive
    <3> QED
      BY <1>1, <1>2, <2>2, <3>1 DEF Shown
  <2>3. CASE turn.mode = "stream" /\ Heard(line) = <<>>
    <3>1. response' = response
      BY <2>3, Zenon DEF Receive
    <3>2. turn'.renderer = n /\ turn'.recorder = r
      BY <1>1, <1>4, <2>3
    <3> QED
      BY <1>1, <1>2, <2>3, <3>1, <3>2 DEF Shown
  <2>4. CASE turn.mode = "stream" /\ Heard(line) # <<>>
    <3> DEFINE sent == Delivered(response.message, n, Heard(line))
    <3>1. response' = [response EXCEPT !.status = 200, !.message = sent.message]
      BY <2>4, Zenon DEF Receive
    <3>2. PICK k \in Renderers :
           /\ k.call = n.call
           /\ Leads(Showing(r.text, <<>>, n.role), n, Heard(line),
                    Showing(q.text, <<>>, k.role), k)
      BY <1>2, <1>3, <2>4 DEF Shown, ToolMode
    <3>3. sent = [message |-> Showing(q.text, <<>>, k.role), renderer |-> k]
      BY <1>2, <2>4, <3>2, Zenon DEF Leads, Shown
    <3>4. turn'.renderer = sent.renderer
      BY <1>1, <2>4, Zenon
    <3> HIDE DEF sent
    <3>5. sent.message = Showing(q.text, <<>>, k.role) /\ sent.renderer = k
      BY <3>3
    <3>6. response'.status = 200 /\ response'.message = sent.message
          /\ response'.done = response.done
      BY <2>1, <3>1 DEF Responses
    <3>7. 200 # Null
      BY DialogueAssumption
    <3> QED
      BY <1>1, <1>2, <2>4, <3>2, <3>4, <3>5, <3>6, <3>7 DEF Shown
  <2> QED
    BY <2>2, <2>3, <2>4
<1> QED
  BY <1>5, <1>7, <1>8 DEF Speech

-----------------------------------------------------------------------------
(* Every step keeps it.                                                    *)

\* The fields of a stream,
LEMMA StreamFields ==
  ASSUME NEW id \in MessageIds, NEW path \in {Null, Content, Thinking, Status},
         NEW said \in Seq(Pieces)
  PROVE  LET s == [id |-> id, path |-> path, said |-> said]
         IN  s \in Streams /\ s.id = id /\ s.path = path /\ s.said = said
BY DEF Streams

\* What a served attempt may read.
LEMMA ReadingFacts ==
  ASSUME NEW U, Within(U), turn \in Turns(U), Speech, Reading
  PROVE  /\ turn.pc = "attempt" /\ upstream \in Streams /\ turn.path = upstream.path
         /\ upstream.id \in MessageIds /\ upstream.said \in Seq(Pieces)
         /\ upstream.path \in {Null, Content, Thinking, Status}
         /\ turn.recorder \in Recorders
         /\ Says(turn.recorder, upstream.said, ToolMode)
         /\ ~ToolMode => turn.recorder.calls = <<>>
<1>1. Standing /\ Upheld
  BY DEF Speech, Serving, Reading
<1>2. turn.pc = "attempt" /\ upstream # Null
  BY DEF Reading
<1>3. upstream \in Streams /\ turn.path = upstream.path
      /\ Says(turn.recorder, upstream.said, ToolMode)
  BY <1>1, <1>2, Zenon DEF Upheld
<1>4. upstream.id \in MessageIds /\ upstream.said \in Seq(Pieces)
      /\ upstream.path \in {Null, Content, Thinking, Status}
  BY <1>3 DEF Streams
<1>5. turn.recorder \in Recorders /\ (~ToolMode => turn.recorder.calls = <<>>)
  BY <1>1 DEF Standing, ToolMode
<1> QED
  BY <1>2, <1>3, <1>4, <1>5

\* and of one that says one thing more.
LEMMA SaidMore ==
  ASSUME NEW s \in Streams, NEW said \in Seq(Pieces), NEW v \in Pieces
  PROVE  /\ \A path \in {Null, Content, Thinking, Status} :
              LET t == [s EXCEPT !.path = path, !.said = Append(@, v)]
              IN  t \in Streams /\ t.said = Append(s.said, v) /\ t.path = path
         /\ LET t == [s EXCEPT !.said = <<v>>]
            IN  t \in Streams /\ t.said = <<v>> /\ t.path = s.path
<1>1. Append(s.said, v) \in Seq(Pieces) /\ <<v>> \in Seq(Pieces)
  BY DEF Streams
<1> QED
  BY <1>1 DEF Streams

\* The first line,
LEMMA ReadySpeech ==
  ASSUME NEW U, Within(U), turn \in Turns(U), Speech, Balance, Balance', Ready
  PROVE  Speech'
<1> DEFINE id == Unused(MessageIds, IdsInUse)
           line == ReadyLine(id)
<1>1. turn.pc = "attempt" /\ upstream = Null /\ Free(MessageIds, IdsInUse)
      /\ upstream' = [id |-> id, path |-> Null, said |-> <<>>] /\ Receive(line)
  BY Zenon DEF Ready
<1>2. id \in MessageIds
  BY <1>1, UnusedIsFree, DialogueAssumption
<1> HIDE DEF id
<1>3. Raw(turn.path, line) = <<BackendMessageId(id)>>
  BY <1>2, ReadyRaw
<1>4. QuietLine(line)
  BY <1>2, <1>3, Zenon DEF QuietLine
<1>5. Standing /\ Upheld
  BY <1>1 DEF Speech, Serving
<1>6. turn.path = Null /\ turn.recorder.text = <<>> /\ turn.recorder.calls = <<>>
  BY <1>1, <1>5 DEF Upheld
<1>7. Says(turn.recorder, <<>>, ToolMode)
  BY <1>6, SayingNothing DEF Says
<1>8. turn.recorder \in Recorders
  BY <1>5 DEF Standing
<1>9. Heeds(line, <<>>)
  BY <1>4, <1>6, <1>7, <1>8, QuietHeeds
<1>10. PathAfter(turn.path, line) = Null
  BY <1>6 DEF PathAfter, ReadyLine
<1>11. <<>> \in Seq(Pieces)
  OBVIOUS
<1>12. upstream' \in Streams /\ upstream'.said = <<>> /\ upstream'.path = Null
  BY <1>1, <1>2, <1>11, StreamFields
<1> HIDE DEF line
<1> QED
  BY <1>1, <1>9, <1>10, <1>12, ReceivedSpeech

\* What the model may say next is a piece.
LEMMA NextPieces ==
  ASSUME upstream.said \in Seq(Pieces)
  PROVE  NextWords \subseteq Pieces
<1> DEFINE said == upstream.said
<1>1. SUFFICES ASSUME NEW a \in Answers, IsStrictPrefix(said, a)
               PROVE  a[Len(said) + 1] \in Pieces
  BY DEF NextWords
<1>2. a \in Seq(Pieces)
  BY DialogueAssumption
<1>3. Len(said) < Len(a)
  BY <1>1, <1>2 DEF IsStrictPrefix, IsPrefix
<1> QED
  BY <1>2, <1>3

\* a snapshot,
LEMMA SnapshotSpeech ==
  ASSUME NEW U, Within(U), turn \in Turns(U), Speech, Balance, Balance', TakeSnapshot
  PROVE  Speech'
<1>1. PICK content \in {Null} \union NextWords, thinking \in {Null, Thought} :
        /\ upstream' = [upstream EXCEPT !.said = IF content = Null THEN @ ELSE <<content>>]
        /\ Receive(SnapshotLine(upstream.id, content, thinking))
  BY Zenon DEF TakeSnapshot
<1>2. Reading /\ upstream.path = Null /\ upstream.said = <<>>
  BY DEF TakeSnapshot
<1>3. /\ turn.pc = "attempt" /\ upstream \in Streams /\ turn.path = upstream.path
      /\ upstream.id \in MessageIds
      /\ turn.recorder \in Recorders
      /\ Says(turn.recorder, <<>>, ToolMode)
      /\ ~ToolMode => turn.recorder.calls = <<>>
  BY <1>2, ReadingFacts
<1> DEFINE line == SnapshotLine(upstream.id, content, thinking)
<1> HIDE DEF line
<1>4. /\ content # Null =>
           Raw(turn.path, line) = <<BackendMessageId(upstream.id), TextDelta(content)>>
      /\ content = Null /\ thinking # Null =>
           Raw(turn.path, line) = <<BackendMessageId(upstream.id), ReasoningDelta(thinking)>>
      /\ content = Null /\ thinking = Null =>
           Raw(turn.path, line) = <<BackendMessageId(upstream.id)>>
      /\ PathAfter(turn.path, line) = turn.path
  <2>1. upstream.id \in MessageIds
    BY <1>3
  <2>2. line = SnapshotLine(upstream.id, content, thinking)
    BY DEF line
  <2> DEFINE id == upstream.id
             path == turn.path
  <2>3. id \in MessageIds /\ line = SnapshotLine(id, content, thinking)
    BY <2>1, <2>2
  <2> HIDE DEF id, path
  <2>4. content # Null => Reads(path, line, <<BackendMessageId(id), TextDelta(content)>>)
    BY <2>3, SnapshotRaw, Zenon
  <2>5. content = Null /\ thinking # Null =>
          Reads(path, line, <<BackendMessageId(id), ReasoningDelta(thinking)>>)
    BY <2>3, SnapshotRaw, Zenon
  <2>6. content = Null /\ thinking = Null => Reads(path, line, <<BackendMessageId(id)>>)
    BY <2>3, SnapshotRaw, Zenon
  <2>7. PathAfter(path, line) = path
    BY <2>3, SnapshotRaw, Zenon
  <2> QED
    BY <2>4, <2>5, <2>6, <2>7, Zenon DEF id, path, Reads
<1>5. Receive(line)
  BY <1>1 DEF line
<1>6. CASE content = Null
  <2>1. QuietLine(line)
    BY <1>3, <1>4, <1>6, Zenon DEF QuietLine
  <2>2. Heeds(line, <<>>)
    BY <2>1, <1>3, QuietHeeds
  <2>3. upstream' \in Streams /\ upstream'.said = <<>> /\ upstream'.path = upstream.path
    BY <1>1, <1>2, <1>3, <1>6 DEF Streams
  <2> QED
    BY <1>3, <1>4, <1>5, <2>2, <2>3, ReceivedSpeech
<1>7. CASE content # Null
  <2>1. content \in NextWords
    BY <1>1, <1>7
  <2>2. content \in Pieces
    BY <2>1, <1>2, <1>3, NextPieces
  <2>3. WordLine(line, content)
    BY <1>3, <1>4, <1>7, Zenon DEF WordLine
  <2>4. ToolMode => Free(CallIds, CallIdsInUse)
    BY <1>5, Zenon DEF Receive
  <2>5. <<>> \in Seq(Pieces) /\ Append(<<>>, content) = <<content>>
    BY ShortSeqs
  <2>6. Heeds(line, <<content>>)
    BY <2>2, <2>3, <2>4, <2>5, <1>3, WordHeeds
  <2>7. upstream' \in Streams /\ upstream'.said = <<content>> /\ upstream'.path = upstream.path
    BY <1>1, <1>3, <1>7, <2>2, <2>5, SaidMore
  <2> QED
    BY <1>3, <1>4, <1>5, <2>6, <2>7, ReceivedSpeech
<1> QED
  BY <1>6, <1>7

\* a word,
LEMMA SpeakSpeech ==
  ASSUME NEW U, Within(U), turn \in Turns(U), Speech, Balance, Balance', Speak
  PROVE  Speech'
<1>1. PICK v \in NextWords, p \in Named(Content), o \in {Null, "APPEND"} :
        /\ upstream' = [upstream EXCEPT !.path = Content, !.said = Append(@, v)]
        /\ Receive(PatchLine(p, o, v))
  BY Zenon DEF Speak
<1> DEFINE said == upstream.said
           line == PatchLine(p, o, v)
<1>2. Reading
  BY DEF Speak
<1>3. /\ turn.pc = "attempt" /\ upstream \in Streams /\ turn.path = upstream.path
      /\ said \in Seq(Pieces)
      /\ turn.recorder \in Recorders
      /\ Says(turn.recorder, said, ToolMode)
      /\ ~ToolMode => turn.recorder.calls = <<>>
  BY <1>2, ReadingFacts
<1>4. v \in Pieces
  BY <1>3, NextPieces
<1>5. v # Null
  BY <1>4, NullApart
<1>6. (IF p # Null THEN p ELSE turn.path) = Content
  BY <1>3, DialogueAssumption DEF Named
<1>7. IsAppend(o)
  BY DEF IsAppend
<1>8. Raw(turn.path, line) = <<TextDelta(v)>> /\ PathAfter(turn.path, line) = Content
  BY <1>5, <1>6, <1>7, PatchRaw
<1>9. Receive(line)
  BY <1>1
<1> HIDE DEF line
<1>10. WordLine(line, v)
  BY <1>8 DEF WordLine
<1>11. ToolMode => Free(CallIds, CallIdsInUse)
  BY <1>9, Zenon DEF Receive
<1>12. Heeds(line, Append(said, v))
  BY <1>3, <1>4, <1>10, <1>11, WordHeeds
<1>13. upstream' \in Streams /\ upstream'.said = Append(said, v) /\ upstream'.path = Content
  BY <1>1, <1>3, <1>4, SaidMore
<1> QED
  BY <1>3, <1>8, <1>9, <1>12, <1>13, ReceivedSpeech

\* A line without a word, on this path.
LEMMA PatchSpeech ==
  ASSUME NEW U, Within(U), turn \in Turns(U), Speech, Balance, Balance', Reading,
         NEW q \in {Thinking, Status}, NEW p \in Named(q), NEW o, NEW v,
         q = Status => v = "WIP",
         Receive(PatchLine(p, o, v)), upstream' = [upstream EXCEPT !.path = q]
  PROVE  Speech'
<1> DEFINE said == upstream.said
           line == PatchLine(p, o, v)
<1>3. /\ turn.pc = "attempt" /\ upstream \in Streams /\ turn.path = upstream.path
      /\ said \in Seq(Pieces)
      /\ turn.recorder \in Recorders
      /\ Says(turn.recorder, said, ToolMode)
      /\ ~ToolMode => turn.recorder.calls = <<>>
  BY ReadingFacts
<1>6. (IF p # Null THEN p ELSE turn.path) = q
  BY <1>3, DialogueAssumption DEF Named
<1>7. /\ PathAfter(turn.path, line) = q
      /\ Raw(turn.path, line) = <<ReasoningDelta(v)>> \/ Raw(turn.path, line) = <<>>
  BY <1>6, PatchRaw
<1> HIDE DEF line
<1>10. QuietLine(line)
  BY <1>7 DEF QuietLine
<1>12. Heeds(line, said)
  BY <1>3, <1>10, QuietHeeds
<1>13. upstream' \in Streams /\ upstream'.said = said /\ upstream'.path = q
  BY <1>3 DEF Streams
<1>14. Receive(line)
  BY DEF line
<1> QED
  BY <1>3, <1>7, <1>12, <1>13, <1>14, ReceivedSpeech

\* a thought,
LEMMA ThinkSpeech ==
  ASSUME NEW U, Within(U), turn \in Turns(U), Speech, Balance, Balance', Think
  PROVE  Speech'
<1>1. PICK p \in Named(Thinking), o \in {Null, "APPEND"} :
        /\ upstream' = [upstream EXCEPT !.path = Thinking]
        /\ Receive(PatchLine(p, o, Thought))
  BY Zenon DEF Think
<1>2. Reading /\ Thinking # Status
  BY DEF Think, Thinking, Status
<1> QED
  BY <1>1, <1>2, PatchSpeech

\* a status that is no end,
LEMMA NoteSpeech ==
  ASSUME NEW U, Within(U), turn \in Turns(U), Speech, Balance, Balance', Note
  PROVE  Speech'
<1>1. PICK p \in Named(Status) : Receive(PatchLine(p, Null, "WIP"))
  BY Zenon DEF Note
<1>2. Reading /\ upstream' = [upstream EXCEPT !.path = Status]
  BY DEF Note
<1> QED
  BY <1>1, <1>2, PatchSpeech

\* Whether a request goes on where a stored conversation is at upstream.
Linked(conv) == conv # NoConv /\ store[conv].session # Null

\* A request that begins.
BeginsAs(t, mode, canonical) ==
  /\ t.mode = mode /\ t.incoming = canonical /\ t.conv = Resolve(store, canonical)
  /\ t.pc = IF Linked(t.conv) THEN "attempt" ELSE "session"
  /\ t.session = IF Linked(t.conv) THEN store[t.conv].session ELSE Null
  /\ t.parent = IF Linked(t.conv) THEN store[t.conv].parent ELSE Null
  /\ t.sent = IF Linked(t.conv) THEN Delta(canonical, Len(store[t.conv].messages))
                                ELSE canonical
  /\ t.prompt = Compile(t.sent, canonical)
  /\ t.simulated = FALSE /\ t.path = Null /\ t.recorder = NewRecorder
  /\ t.renderer = NewRenderer /\ t.stamp = Null /\ t.tries = 0 /\ t.repairs = 0

\* The fields of a new turn.
LEMMA NewTurnFields ==
  ASSUME NEW mode, NEW canonical, NEW t, t = NewTurn(mode, canonical)
  PROVE  BeginsAs(t, mode, canonical)
<1> DEFINE conv == Resolve(store, canonical)
           sent == IF Linked(conv) THEN Delta(canonical, Len(store[conv].messages))
                                   ELSE canonical
           prompt == Compile(sent, canonical)
           pc == IF Linked(conv) THEN "attempt" ELSE "session"
           session == IF Linked(conv) THEN store[conv].session ELSE Null
           parent == IF Linked(conv) THEN store[conv].parent ELSE Null
<1>1. t = [pc |-> pc, mode |-> mode, incoming |-> canonical, conv |-> conv,
           session |-> session, parent |-> parent, sent |-> sent, prompt |-> prompt,
           tries |-> 0, repairs |-> 0, simulated |-> FALSE, path |-> Null,
           recorder |-> NewRecorder, renderer |-> NewRenderer, stamp |-> Null]
  BY Zenon DEF NewTurn, Linked
<1> HIDE DEF conv, sent, prompt, pc, session, parent
<1>2. /\ t.mode = mode /\ t.incoming = canonical /\ t.conv = conv /\ t.pc = pc
      /\ t.session = session /\ t.parent = parent /\ t.sent = sent /\ t.prompt = prompt
      /\ t.simulated = FALSE /\ t.path = Null /\ t.recorder = NewRecorder
      /\ t.renderer = NewRenderer /\ t.stamp = Null /\ t.tries = 0 /\ t.repairs = 0
  BY <1>1
<1>3. t.pc = IF Linked(t.conv) THEN "attempt" ELSE "session"
  BY <1>2 DEF pc
<1>4. t.session = IF Linked(t.conv) THEN store[t.conv].session ELSE Null
  BY <1>2 DEF session
<1>5. t.parent = IF Linked(t.conv) THEN store[t.conv].parent ELSE Null
  BY <1>2 DEF parent
<1>6. t.sent = IF Linked(t.conv) THEN Delta(canonical, Len(store[t.conv].messages))
                                 ELSE canonical
  BY <1>2, Zenon DEF sent
<1>7. t.prompt = Compile(t.sent, canonical)
  BY <1>2, Zenon DEF prompt
<1>8. t.conv = Resolve(store, canonical)
  BY <1>2 DEF conv
<1> QED
  BY <1>2, <1>3, <1>4, <1>5, <1>6, <1>7, <1>8 DEF BeginsAs

\* A new request,
LEMMA AskSpeech ==
  ASSUME NEW U, Within(U), Balance, Ask
  PROVE  Speech'
<1>1. PICK mode, canonical : turn' = NewTurn(mode, canonical)
  BY Zenon DEF Ask
<1>2. upstream = Null
  BY DEF Ask, Balance
<1>3. upstream' = Null /\ response' = NoResponse
  BY <1>2 DEF Ask
<1>4. /\ turn'.pc \in {"session", "attempt"}
      /\ turn'.path = Null /\ turn'.recorder = NewRecorder /\ turn'.renderer = NewRenderer
  <2>1. BeginsAs(turn', mode, canonical)
    BY <1>1, NewTurnFields
  <2> QED
    BY <2>1 DEF BeginsAs
<1>5. turn'.pc \in {"session", "attempt"}
  BY <1>4
<1>6. Standing'
  BY <1>4, <1>5, NewRecorderSound DEF Standing
<1>7. Upheld'
  BY <1>3, <1>4, <1>5, NewRecorderSound DEF Upheld
<1>8. Shown'
  <2>1. NoResponse.message = Showing(<<>>, <<>>, FALSE) /\ NoResponse.status = Null
        /\ NoResponse.done = FALSE
    BY DEF NoResponse, Showing, NothingYet
  <2>2. NewRenderer \in Renderers /\ NewRenderer.call = FALSE /\ NewRenderer.role = FALSE
    BY DEF NewRenderer, Renderers
  <2> QED
    BY <1>3, <1>4, <2>1, <2>2, NewRecorderSound DEF Shown
<1> QED
  BY <1>6, <1>7, <1>8 DEF Speech

\* a session,
LEMMA SessionSpeech ==
  ASSUME NEW U, Within(U), turn \in Turns(U), Speech, SessionOpened
  PROVE  Speech'
<1>1. /\ SameRequest /\ turn'.pc = "attempt" /\ turn'.path = turn.path
      /\ turn'.recorder = turn.recorder /\ turn'.renderer = turn.renderer
  BY OpenedTurn
<1>2. turn.pc = "session" /\ UNCHANGED <<upstream, response>>
  BY DEF SessionOpened
<1>3. Standing /\ Upheld /\ Shown
  BY <1>2 DEF Speech, Serving
<1>4. Standing'
  BY <1>1, <1>2, <1>3 DEF Standing, SameRequest
<1>5. Upheld'
  BY <1>1, <1>2, <1>3 DEF Upheld, SameRequest
<1>6. Shown'
  BY <1>1, <1>2, <1>3 DEF Shown, SameRequest
<1> QED
  BY <1>4, <1>5, <1>6 DEF Speech

\* an attempt that is given up,
LEMMA RetrySpeech ==
  ASSUME NEW U, Within(U), turn \in Turns(U), Speech, turn.pc \in {"session", "attempt"},
         NEW failure, Retry(failure)
  PROVE  Speech'
<1>1. /\ SameRequest /\ turn'.pc = turn.pc /\ turn'.path = Null
      /\ turn'.recorder = NewRecorder /\ turn'.renderer = turn.renderer
  BY RetriedTurn
<1>2. upstream' = Null /\ response' = response /\ ~Begun
  BY DEF Retry
<1>3. Standing /\ Upheld /\ Shown
  BY DEF Speech, Serving
<1>4. Standing'
  BY <1>1, <1>2, <1>3, NewRecorderSound DEF Standing, SameRequest
<1>5. Upheld'
  BY <1>1, <1>2, <1>3, NewRecorderSound DEF Upheld, SameRequest
<1>6. Shown'
  BY <1>1, <1>2, <1>3, NewRecorderSound DEF Shown, SameRequest, Begun
<1> QED
  BY <1>4, <1>5, <1>6 DEF Speech

\* The end of the stream adds no word and no call.
LEMMA EndedRecorder ==
  ASSUME NEW U, Within(U), turn \in Turns(U), Speech, Reading, NEW line \in FinishLines
  PROVE  LET q == Ended(line) IN
         /\ q \in Recorders /\ q.text = turn.recorder.text /\ q.calls = turn.recorder.calls
         /\ q.parent = turn.recorder.parent
         /\ q.finished = TRUE /\ q.reason = "stop" /\ PathAfter(turn.path, line) = Status
<1>1. PICK p \in Named(Status), o \in {Null, "SET"} : line = PatchLine(p, o, "FINISHED")
  BY DEF FinishLines
<1>2. turn.path = upstream.path /\ turn.recorder \in Recorders
  BY ReadingFacts
<1>3. (IF p # Null THEN p ELSE turn.path) = Status
  BY <1>2, DialogueAssumption DEF Named
<1> DEFINE e == MessageFinished("stop")
<1>4. Raw(turn.path, line) = <<e>> /\ PathAfter(turn.path, line) = Status
  BY <1>1, <1>3, PatchRaw
<1>5. e.event # "text"
  BY DEF MessageFinished
<1> HIDE DEF e
<1>6. Heard(line) = <<e>>
  BY <1>4, <1>5, HeardFew, UnderstoodEvent
<1>7. Ended(line) = Recorded(turn.recorder, Heard(line))
  BY Zenon DEF Ended, Recorded
<1>8. Recorded(turn.recorder, <<e>>) = Observe(turn.recorder, e)
  BY ObservedFew
<1>9. Ended(line) = Observe(turn.recorder, e)
  BY <1>6, <1>7, <1>8
<1> HIDE DEF e
<1>10. LET q == Observe(turn.recorder, e) IN
              /\ q \in Recorders /\ q.text = turn.recorder.text /\ q.calls = turn.recorder.calls
              /\ q.parent = turn.recorder.parent
              /\ q.finished = TRUE /\ q.reason = "stop"
  BY <1>2, ObserveEvent DEF e
<1> QED
  BY <1>4, <1>9, <1>10

\* the lines after the answer,
LEMMA DrainSpeech ==
  ASSUME NEW U, Within(U), turn \in Turns(U), Speech, DrainEnds
  PROVE  Speech'
<1>1. PICK line \in FinishLines :
      /\ SameRequest /\ turn'.pc = "settle"
      /\ turn'.path = PathAfter(turn.path, line) /\ turn'.recorder = Ended(line)
      /\ turn'.renderer = turn.renderer
  BY DrainedTurn
<1>2. Reading /\ turn.mode # "stream" /\ upstream' = [upstream EXCEPT !.path = Status]
      /\ response' = response
  BY DEF DrainEnds, SaysFinished
<1>3. Standing /\ Upheld /\ Shown
  BY <1>2 DEF Speech, Serving, Reading
<1> DEFINE q == Ended(line)
<1>4. /\ q \in Recorders /\ q.text = turn.recorder.text /\ q.calls = turn.recorder.calls
      /\ q.finished = TRUE /\ q.reason = "stop" /\ PathAfter(turn.path, line) = Status
  BY <1>2, EndedRecorder
<1>5. upstream \in Streams /\ Says(turn.recorder, upstream.said, ToolMode)
  BY <1>2, ReadingFacts
<1> HIDE DEF q
<1>6. turn'.recorder = q
  BY <1>1 DEF q
<1>7. Standing'
  BY <1>1, <1>2, <1>3, <1>4, <1>6 DEF Standing, SameRequest
<1>8. upstream' \in Streams /\ upstream'.said = upstream.said /\ upstream'.path = Status
  BY <1>2, <1>5 DEF Streams
<1>9. upstream' # Null
  BY <1>8, DialogueAssumption
<1>10. Upheld'
  <2>1. Says(q, upstream.said, ToolMode)
    BY <1>4, <1>5 DEF Says
  <2>2. ToolMode' = ToolMode
    BY <1>1 DEF ToolMode, SameRequest
  <2>3. Says(turn'.recorder, upstream'.said, ToolMode')
    BY <2>1, <2>2, <1>6, <1>8
  <2> QED
    BY <1>1, <1>4, <1>8, <1>9, <2>3 DEF Upheld
<1>11. Shown'
  BY <1>1, <1>2, <1>3, <1>6 DEF Shown, SameRequest
<1> QED
  BY <1>7, <1>10, <1>11 DEF Speech

\* the end of the stream,
LEMMA StreamSpeech ==
  ASSUME NEW U, Within(U), turn \in Turns(U), Speech, Balance, StreamEnds
  PROVE  Speech'
<1>1. PICK line \in FinishLines : Commit(PathAfter(turn.path, line), Ended(line), "reply")
  BY DEF StreamEnds
<1>2. /\ turn'.pc = "reply" /\ turn'.mode = turn.mode /\ turn'.renderer = turn.renderer
      /\ turn'.path = PathAfter(turn.path, line) /\ turn'.recorder = Ended(line)
  BY <1>1, CommittedTurn
<1>3. Reading /\ turn.mode = "stream" /\ upstream' = [upstream EXCEPT !.path = Status]
      /\ response' = response
  BY DEF StreamEnds, SaysFinished
<1>4. Standing /\ Upheld /\ Shown
  BY <1>3 DEF Speech, Serving, Reading
<1> DEFINE q == Ended(line)
<1>5. /\ q \in Recorders /\ q.text = turn.recorder.text /\ q.calls = turn.recorder.calls
      /\ q.finished = TRUE /\ q.reason = "stop" /\ PathAfter(turn.path, line) = Status
  BY <1>3, EndedRecorder
<1>6. upstream \in Streams /\ Says(turn.recorder, upstream.said, ToolMode)
  BY <1>3, ReadingFacts
<1> HIDE DEF q
<1>7. turn'.recorder = q
  BY <1>2 DEF q
<1>8. Standing'
  BY <1>2, <1>3, <1>4, <1>5, <1>7 DEF Standing
<1>9. upstream' \in Streams /\ upstream'.said = upstream.said /\ upstream'.path = Status
  BY <1>3, <1>6 DEF Streams
<1>10. upstream' # Null
  BY <1>9, DialogueAssumption
<1>11. Upheld'
  <2>1. Says(q, upstream.said, ToolMode)
    BY <1>5, <1>6 DEF Says
  <2>2. ToolMode' = ToolMode
    BY <1>2 DEF ToolMode
  <2>3. Says(turn'.recorder, upstream'.said, ToolMode')
    BY <2>1, <2>2, <1>7, <1>9
  <2> QED
    BY <1>2, <1>5, <1>9, <1>10, <2>3 DEF Upheld
<1>12. Begun
  BY <1>3 DEF Balance, Reading, Serving
<1>13. response'.status # Null
  BY <1>3, <1>12 DEF Begun
<1>14. Shown'
  BY <1>2, <1>3, <1>4, <1>5, <1>7, <1>13 DEF Shown
<1> QED
  BY <1>8, <1>11, <1>14 DEF Speech

\* a repair,
LEMMA RepairSpeech ==
  ASSUME NEW U, Within(U), turn \in Turns(U), Speech, RepairRetry
  PROVE  Speech'
<1>1. /\ SameRequest /\ turn'.pc = "attempt" /\ turn'.path = Null
      /\ turn'.recorder = NewRecorder /\ turn'.renderer = turn.renderer
  BY RepairedTurn
<1>2. upstream' = Null /\ response' = response /\ turn.pc = "settle" /\ ToolMode
  BY DEF RepairRetry, CanRepair
<1>3. Standing /\ Upheld /\ Shown
  BY <1>2 DEF Speech, Serving
<1>4. Standing'
  BY <1>1, <1>2, <1>3, NewRecorderSound DEF Standing, SameRequest
<1>5. Upheld'
  BY <1>1, <1>2, <1>3, NewRecorderSound DEF Upheld, SameRequest
<1>6. Shown'
  BY <1>1, <1>2, <1>3, NewRecorderSound DEF Shown, SameRequest, ToolMode
<1> QED
  BY <1>4, <1>5, <1>6 DEF Speech

\* A drained turn that is committed or unlinked.
LEMMA SettledSpeech ==
  ASSUME Speech, turn.pc \in {"settle", "unlink"}, turn'.pc \in {"unlink", "reply"},
         turn'.mode = turn.mode, turn'.path = turn.path, turn'.recorder = turn.recorder,
         turn'.renderer = turn.renderer, UNCHANGED <<upstream, response>>
  PROVE  Speech'
<1>1. Standing /\ Upheld /\ Shown
  BY DEF Speech, Serving
<1>2. Standing'
  BY <1>1 DEF Standing
<1>3. ToolMode' = ToolMode
  BY DEF ToolMode
<1>4. Upheld'
  BY <1>1, <1>3 DEF Upheld
<1>5. Shown'
  BY <1>1 DEF Shown
<1> QED
  BY <1>2, <1>4, <1>5 DEF Speech

\* and so every step keeps it.
LEMMA SpeechStep ==
  ASSUME NEW U, Within(U), Speech, Balance, Balance', [Next]_vars
  PROVE  Speech'
<1>1. CASE ~Serving'
  BY <1>1 DEF Speech
<1>2. CASE Serving'
  <2>1. CASE Ask
    BY <2>1, AskSpeech
  <2>2. CASE ~Ask
    <3>1. turn \in Turns(U)
      BY <1>2, <2>2, Steps
    <3>2. CASE SessionOpened
      BY <3>1, <3>2, SessionSpeech
    <3>3. CASE /\ turn.pc \in {"session", "attempt"}
               /\ \E failure : Fail(failure) /\ Retry(failure)
      BY <3>1, <3>3, RetrySpeech
    <3>4. CASE Ready
      BY <3>1, <3>4, ReadySpeech
    <3>5. CASE TakeSnapshot
      BY <3>1, <3>5, SnapshotSpeech
    <3>6. CASE Speak
      BY <3>1, <3>6, SpeakSpeech
    <3>7. CASE Think
      BY <3>1, <3>7, ThinkSpeech
    <3>8. CASE Note
      BY <3>1, <3>8, NoteSpeech
    <3>9. CASE DrainEnds
      BY <3>1, <3>9, DrainSpeech
    <3>10. CASE StreamEnds
      BY <3>1, <3>10, StreamSpeech
    <3>11. CASE RepairRetry
      BY <3>1, <3>11, RepairSpeech
    <3>12. CASE CommitDrained
      <4>1. Commit(turn.path, turn.recorder, IF turn.repairs > 0 THEN "unlink" ELSE "reply")
            /\ turn.pc = "settle" /\ UNCHANGED <<upstream, response>>
        BY <3>12 DEF CommitDrained
      <4>2. /\ turn'.pc \in {"unlink", "reply"}
            /\ turn'.mode = turn.mode /\ turn'.path = turn.path /\ turn'.recorder = turn.recorder
            /\ turn'.renderer = turn.renderer
        BY <3>1, <4>1, CommittedTurn
      <4> QED
        BY <4>1, <4>2, SettledSpeech
    <3>13. CASE UnlinkRepaired
      <4>1. turn.pc = "unlink" /\ UNCHANGED <<upstream, response>>
        BY <3>13 DEF UnlinkRepaired
      <4>2. /\ SameRequest /\ turn'.pc = "reply" /\ turn'.path = turn.path
            /\ turn'.recorder = turn.recorder /\ turn'.renderer = turn.renderer
        BY <3>1, <3>13, UnlinkedTurn
      <4> QED
        BY <4>1, <4>2, SettledSpeech DEF SameRequest
    <3>14. CASE UNCHANGED vars
      BY <3>14 DEF vars, Speech, Serving, Standing, Upheld, Shown, ToolMode
    <3> QED
      BY <1>2, <2>2, <3>2, <3>3, <3>4, <3>5, <3>6, <3>7, <3>8, <3>9, <3>10, <3>11, <3>12,
         <3>13, <3>14, Steps
  <2> QED
    BY <2>1, <2>2
<1> QED
  BY <1>1, <1>2

\* Nothing has been said at first.
LEMMA SpeechInit == Init => Speech
BY DEF Init, Speech, Serving, Idle

\* Places below a bound, without the last, are below a lower one.
LEMMA WithoutGreatest ==
  ASSUME NEW n \in Nat, NEW d \in SUBSET (1..n), d # {},
         NEW m \in Nat, \A k \in d : k < m + 1
  PROVE  d \ {Max(d)} \in SUBSET (1..n) /\ \A k \in d \ {Max(d)} : k < m
<1> DEFINE t == Max(d)
<1>1. t \in d /\ \A k \in d : k <= t
  BY Greatest
<1> HIDE DEF t
<1>2. ASSUME NEW k \in d \ {t} PROVE k < m
  <2>1. t < m + 1 /\ k <= t /\ k # t /\ k \in Nat /\ t \in Nat
    BY <1>1
  <2> QED
    BY <2>1
<1> QED
  BY <1>2 DEF t

\* What is delivered is what the last of the steps leaves.
LEMMA DeliveredRuns ==
  ASSUME NEW message, NEW renderer, NEW s, NEW n \in Nat, DOMAIN s = 1..n
  PROVE  \E at : /\ at[0] = [message |-> message, renderer |-> renderer]
                 /\ Delivered(message, renderer, s) = at[n]
                 /\ \A k \in 1..n : at[k] = DeliveredStep(at[k - 1], s[k])
<1> DEFINE base == [message |-> message, renderer |-> renderer]
           D == SUBSET (1..n)
           Next1(g, d) == IF d = {} THEN base ELSE DeliveredStep(g[d \ {Max(d)}], s[Max(d)])
           Below(d, m) == \A k \in d : k < m
           Good(m, g) == \A d \in D : Below(d, m) => g[d] = Next1(g, d)
           Bad == {m \in Nat : ~ \E g : Good(m, g)}
<1>1. ASSUME NEW d \in D, d # {}, NEW m \in Nat, Below(d, m + 1)
      PROVE  d \ {Max(d)} \in D /\ Below(d \ {Max(d)}, m)
  BY <1>1, WithoutGreatest
<1>2. Bad = {}
  <2> SUFFICES ASSUME Bad # {} PROVE FALSE
    OBVIOUS
  <2>1. Bad \subseteq Nat
    OBVIOUS
  <2> HIDE DEF Bad
  <2>2. PICK m \in Bad : \A l \in Bad : m <= l
    BY <2>1, LeastNatural
  <2>3. m \in Nat /\ ~ \E g : Good(m, g)
    BY <2>2 DEF Bad
  <2>4. CASE m = 0
    <3> DEFINE g == [d \in D |-> base]
    <3>1. \A d \in D : Below(d, 0) => d = {}
      OBVIOUS
    <3>2. Good(0, g)
      BY <3>1
    <3> QED
      BY <2>3, <2>4, <3>2
  <2>5. CASE m # 0
    <3>1. m - 1 \in Nat /\ m - 1 < m /\ m = (m - 1) + 1
      BY <2>3, <2>5
    <3>2. m - 1 \notin Bad
      BY <2>1, <2>2, <3>1
    <3> HIDE DEF Good
    <3>3. PICK g : Good(m - 1, g)
      BY <3>1, <3>2 DEF Bad
    <3> DEFINE f == [d \in D |-> Next1(g, d)]
    <3> HIDE DEF Next1
    <3>4. \A d \in D : Below(d, m - 1) => g[d] = Next1(g, d)
      BY <3>3 DEF Good
    <3>5. \A d \in D : f[d] = Next1(g, d)
      OBVIOUS
    <3> HIDE DEF f, Below
    <3>6. ASSUME NEW d \in D, Below(d, m) PROVE f[d] = Next1(f, d)
      <4>1. CASE d = {}
        BY <3>5, <4>1 DEF Next1
      <4>2. CASE d # {}
        <5> DEFINE e == d \ {Max(d)}
        <5>1. e \in D /\ Below(e, m - 1)
          BY <1>1, <3>1, <3>6, <4>2
        <5>2. f[e] = g[e]
          BY <3>4, <3>5, <5>1
        <5> QED
          BY <3>5, <4>2, <5>2 DEF Next1
      <4> QED
        BY <4>1, <4>2
    <3>7. Good(m, f)
      BY <3>6 DEF Good
    <3> QED
      BY <2>3, <3>7
  <2> QED
    BY <2>4, <2>5
<1>3. PICK g : Good(n + 1, g)
  <2> HIDE DEF Good, Bad
  <2>1. n + 1 \in Nat /\ n + 1 \notin Bad
    BY <1>2
  <2> QED
    BY <2>1 DEF Bad
<1> DEFINE Rec(h) == h = [d \in SUBSET DOMAIN s |-> Next1(h, d)]
           it == [d \in D |-> g[d]]
           c == CHOOSE h : Rec(h)
           at == [k \in 0..n |-> c[1..k]]
<1>4. Rec(it)
  <2>1. ASSUME NEW d \in D PROVE it[d] = Next1(it, d)
    <3>0. Below(d, n + 1)
      OBVIOUS
    <3>1. g[d] = Next1(g, d)
      <4> HIDE DEF Below, Next1
      <4> QED
        BY <1>3, <3>0
    <3>2. CASE d = {}
      BY <3>1, <3>2
    <3>3. CASE d # {}
      <4>1. d \ {Max(d)} \in D
        <5>1. Below(d, n + 1)
          OBVIOUS
        <5> QED
          BY <1>1, <3>3, <5>1
      <4>2. it[d \ {Max(d)}] = g[d \ {Max(d)}]
        BY <4>1
      <4> QED
        BY <3>1, <4>2
    <3> QED
      BY <3>2, <3>3
  <2> HIDE DEF Next1
  <2>2. it = [d \in D |-> Next1(it, d)]
    BY <2>1
  <2> QED
    BY <2>2
<1>5. Delivered(message, renderer, s) = c[DOMAIN s]
  BY Zenon DEF Delivered, DeliveredStep, Gathered, FoldLeft, MapThenFoldSet
<1> HIDE DEF Rec
<1>6. Rec(c)
  BY <1>4
<1> HIDE DEF c
<1>7. \A d \in SUBSET (1..n) :
        c[d] = IF d = {} THEN base ELSE DeliveredStep(c[d \ {Max(d)}], s[Max(d)])
  BY <1>6 DEF Rec
<1>8. at[0] = base
  <2>1. 1..0 = {} /\ 0 \in 0..n /\ {} \in SUBSET (1..n)
    OBVIOUS
  <2>2. c[{}] = base
    BY <1>7, <2>1, Zenon
  <2> QED
    BY <2>1, <2>2
<1>9. ASSUME NEW k \in 1..n PROVE at[k] = DeliveredStep(at[k - 1], s[k])
  <2>0. k \in Nat \ {0}
    OBVIOUS
  <2>1. Max(1..k) = k /\ (1..k) \ {k} = 1..(k - 1) /\ 1..k # {}
    BY <2>0, FirstPlaces
  <2>2. k \in 0..n /\ k - 1 \in 0..n /\ 1..k \in SUBSET (1..n)
    OBVIOUS
  <2> QED
    BY <1>7, <2>1, <2>2
<1>10. Delivered(message, renderer, s) = at[n]
  BY <1>5
<1> HIDE DEF at
<1> QED
  BY <1>8, <1>9, <1>10

\* What holds at first and is kept holds at the end.
LEMMA Inducted ==
  ASSUME NEW n \in Nat, NEW P, 0 \in P, \A k \in 1..n : k - 1 \in P => k \in P
  PROVE  \A k \in 0..n : k \in P
<1> DEFINE at == [k \in 0..n |-> k]
<1>1. at[0] \in P /\ \A k \in 1..n : at[k - 1] \in P => at[k] \in P
  OBVIOUS
<1>2. \A k \in 0..n : at[k] = k
  OBVIOUS
<1> HIDE DEF at
<1>3. \A k \in 0..n : at[k] \in P
  BY <1>1, Carried
<1> QED
  BY <1>2, <1>3

\* What the client has of a stream that was buffered: words, and then calls.
Worded(text) == Sight(text, <<>>, TRUE, FALSE)
Called(text, calls) == Sight(text, calls, TRUE, TRUE)

\* One event after another, the first one and the last.
StepsTo(s, event, t) == DeliveredStep(s, event) = t
Starting(event) == StepsTo([message |-> NothingYet, renderer |-> NewRenderer], event, Worded(<<>>))
EndsAs(s, event, message) == DeliveredStep(s, event).message = message

\* The events of a buffered answer, step by step.
LEMMA BufferedSteps ==
  ASSUME NEW text \in Seq(Pieces)
  PROVE  /\ Starting(MessageStarted)
         /\ \A v : StepsTo(Worded(text), TextDelta(v), Worded(Append(text, v)))
         /\ \A call \in CallRecords :
              StepsTo(Worded(text), ToolCallEmitted(call), Called(text, <<call>>))
         /\ \A calls \in Seq(CallRecords), call \in CallRecords :
              StepsTo(Called(text, calls), ToolCallEmitted(call),
                      Called(text, Append(calls, call)))
         /\ EndsAs(Worded(text), MessageFinished("stop"), Whole(text, <<>>, "stop"))
         /\ \A calls \in Seq(CallRecords) :
              EndsAs(Called(text, calls), MessageFinished("stop"),
                     Whole(text, calls, "tool_calls"))
<1>0. <<>> \in Seq(CallRecords) /\ TRUE \in BOOLEAN /\ FALSE \in BOOLEAN
  OBVIOUS
<1>1. Starting(MessageStarted)
  BY StartShown, Zenon DEF Starting, StepsTo, Worded
<1>2. ASSUME NEW v PROVE StepsTo(Worded(text), TextDelta(v), Worded(Append(text, v)))
  BY <1>0, TextShown, Zenon DEF StepsTo, Worded
<1>3. ASSUME NEW call \in CallRecords
      PROVE  StepsTo(Worded(text), ToolCallEmitted(call), Called(text, <<call>>))
  <2>1. Append(<<>>, call) = <<call>>
    OBVIOUS
  <2> QED
    BY <1>0, <2>1, CallEventShown, Zenon DEF StepsTo, Worded, Called
<1>4. ASSUME NEW calls \in Seq(CallRecords), NEW call \in CallRecords
      PROVE  StepsTo(Called(text, calls), ToolCallEmitted(call),
                     Called(text, Append(calls, call)))
  BY <1>0, CallEventShown, Zenon DEF StepsTo, Called
<1>5. EndsAs(Worded(text), MessageFinished("stop"), Whole(text, <<>>, "stop"))
  BY <1>0, EndShown, Zenon DEF EndsAs, Worded
<1>6. ASSUME NEW calls \in Seq(CallRecords)
      PROVE  EndsAs(Called(text, calls), MessageFinished("stop"),
                    Whole(text, calls, "tool_calls"))
  BY <1>0, EndShown, Zenon DEF EndsAs, Called
<1> QED
  BY <1>1, <1>2, <1>3, <1>4, <1>5, <1>6, Zenon

\* The places of a sequence that follows another.
Follows(u, s, t) ==
  /\ Len(u) = Len(s) + Len(t)
  /\ \A i \in 1..Len(s) : u[i] = s[i]
  /\ \A j \in 1..Len(t) : u[Len(s) + j] = t[j]

\* Two sequences put together hold the one and then the other.
LEMMA Joined ==
  ASSUME NEW V, NEW s \in Seq(V), NEW t \in Seq(V)
  PROVE  s \o t \in Seq(V) /\ Follows(s \o t, s, t)
<1> DEFINE u == s \o t
<1>1. u \in Seq(V) /\ Len(u) = Len(s) + Len(t) /\ Len(s) \in Nat /\ Len(t) \in Nat
  OBVIOUS
<1>2. \A i \in 1..Len(s) : u[i] = s[i]
  OBVIOUS
<1>3. ASSUME NEW j \in 1..Len(t) PROVE u[Len(s) + j] = t[j]
  <2>1. Len(s) + j \in 1..(Len(s) + Len(t)) /\ Len(s) + j > Len(s)
        /\ (Len(s) + j) - Len(s) = j
    BY <1>1
  <2> QED
    BY <1>1, <2>1
<1> QED
  BY <1>1, <1>2, <1>3 DEF Follows

\* The places of the events of a buffered turn.
LEMMA SynthesizedPlaces ==
  ASSUME NEW r \in Recorders
  PROVE  LET s == SynthesizedEvents(r)
             a == Len(r.text)
             b == Len(r.calls)
         IN  /\ a \in Nat /\ b \in Nat
             /\ DOMAIN s = 1..(a + b + 2)
             /\ s[1] = MessageStarted
             /\ \A i \in 1..a : s[i + 1] = TextDelta(r.text[i])
             /\ \A j \in 1..b : s[a + 1 + j] = ToolCallEmitted(r.calls[j])
             /\ s[a + b + 2] = MessageFinished(r.reason)
<1> DEFINE a == Len(r.text)
           b == Len(r.calls)
           first == <<MessageStarted>>
           words == [i \in DOMAIN r.text |-> TextDelta(r.text[i])]
           calls == [i \in DOMAIN r.calls |-> ToolCallEmitted(r.calls[i])]
           last  == <<MessageFinished(r.reason)>>
           V == {MessageStarted, MessageFinished(r.reason)} \union {words[i] : i \in 1..a}
                  \union {calls[i] : i \in 1..b}
<1>1. a \in Nat /\ b \in Nat /\ DOMAIN r.text = 1..a /\ DOMAIN r.calls = 1..b
  BY DEF Recorders
<1>2. words \in Seq(V) /\ Len(words) = a /\ \A i \in 1..a : words[i] = TextDelta(r.text[i])
  <2>1. words \in [1..a -> V]
    BY <1>1
  <2>2. words \in Seq(V) /\ DOMAIN words = 1..a
    BY <1>1, <2>1, SeqDef
  <2>3. Len(words) \in Nat /\ DOMAIN words = 1..Len(words)
    BY <2>2, LenProperties
  <2> QED
    BY <1>1, <2>2, <2>3, SamePlaces
<1>3. calls \in Seq(V) /\ Len(calls) = b
      /\ \A j \in 1..b : calls[j] = ToolCallEmitted(r.calls[j])
  <2>1. calls \in [1..b -> V]
    BY <1>1
  <2>2. calls \in Seq(V) /\ DOMAIN calls = 1..b
    BY <1>1, <2>1, SeqDef
  <2>3. Len(calls) \in Nat /\ DOMAIN calls = 1..Len(calls)
    BY <2>2, LenProperties
  <2> QED
    BY <1>1, <2>2, <2>3, SamePlaces
<1>4. first \in Seq(V) /\ Len(first) = 1 /\ first[1] = MessageStarted
  BY ShortSeqs
<1>5. last \in Seq(V) /\ Len(last) = 1 /\ last[1] = MessageFinished(r.reason)
  BY ShortSeqs
<1>6. SynthesizedEvents(r) = ((first \o words) \o calls) \o last
  BY Zenon DEF SynthesizedEvents
<1> HIDE DEF first, words, calls, last, V, a, b
<1> DEFINE two == first \o words
           three == two \o calls
           s == three \o last
<1>7. /\ two \in Seq(V) /\ Len(two) = a + 1 /\ two[1] = MessageStarted
      /\ \A i \in 1..a : two[i + 1] = TextDelta(r.text[i])
  <2>0. two \in Seq(V) /\ Follows(two, first, words)
    BY <1>2, <1>4, Joined
  <2> HIDE DEF two
  <2>1. /\ two \in Seq(V) /\ Len(two) = 1 + a
        /\ \A i \in 1..1 : two[i] = first[i]
        /\ \A i \in 1..a : two[1 + i] = words[i]
    BY <2>0, <1>2, <1>4 DEF Follows
  <2>2. \A i \in 1..a : 1 + i = i + 1
    BY <1>1
  <2> QED
    BY <1>1, <1>2, <1>4, <2>1, <2>2
<1> HIDE DEF two
<1>8. /\ three \in Seq(V) /\ Len(three) = a + b + 1 /\ three[1] = MessageStarted
      /\ \A i \in 1..a : three[i + 1] = TextDelta(r.text[i])
      /\ \A j \in 1..b : three[a + 1 + j] = ToolCallEmitted(r.calls[j])
  <2>0. three \in Seq(V) /\ Follows(three, two, calls)
    BY <1>3, <1>7, Joined
  <2> HIDE DEF three
  <2>1. /\ three \in Seq(V) /\ Len(three) = (a + 1) + b
        /\ \A i \in 1..(a + 1) : three[i] = two[i]
        /\ \A j \in 1..b : three[(a + 1) + j] = calls[j]
    BY <2>0, <1>3, <1>7 DEF Follows
  <2>2. (a + 1) + b = a + b + 1 /\ 1 \in 1..(a + 1)
        /\ \A i \in 1..a : i + 1 \in 1..(a + 1)
    BY <1>1
  <2> QED
    BY <1>3, <1>7, <2>1, <2>2
<1> HIDE DEF three
<1>9. /\ s \in Seq(V) /\ Len(s) = a + b + 2 /\ s[1] = MessageStarted
      /\ \A i \in 1..a : s[i + 1] = TextDelta(r.text[i])
      /\ \A j \in 1..b : s[a + 1 + j] = ToolCallEmitted(r.calls[j])
      /\ s[a + b + 2] = MessageFinished(r.reason)
  <2>0. s \in Seq(V) /\ Follows(s, three, last)
    BY <1>5, <1>8, Joined
  <2> HIDE DEF s
  <2>1. /\ s \in Seq(V) /\ Len(s) = (a + b + 1) + 1
        /\ \A i \in 1..(a + b + 1) : s[i] = three[i]
        /\ \A j \in 1..1 : s[(a + b + 1) + j] = last[j]
    BY <2>0, <1>5, <1>8 DEF Follows
  <2>2. (a + b + 1) + 1 = a + b + 2 /\ 1 \in 1..1 /\ 1 \in 1..(a + b + 1)
        /\ (\A i \in 1..a : i + 1 \in 1..(a + b + 1))
        /\ (\A j \in 1..b : a + 1 + j \in 1..(a + b + 1))
    BY <1>1
  <2>3. s[a + b + 2] = last[1]
    BY <2>1, <2>2
  <2> QED
    BY <1>5, <1>8, <2>1, <2>2, <2>3
<1>10. DOMAIN s = 1..(a + b + 2)
  BY <1>9
<1>11. SynthesizedEvents(r) = s
  BY <1>6 DEF two, three
<1> HIDE DEF s
<1> QED
  BY <1>1, <1>9, <1>10, <1>11 DEF a, b

\* A first part grows by one place.
Upto(t, i) == SubSeq(t, 1, i)

\* The first parts of a sequence, one element longer each time.
LEMMA FirstParts ==
  ASSUME NEW V, NEW t \in Seq(V)
  PROVE  /\ Upto(t, 0) = <<>> /\ Upto(t, Len(t)) = t
         /\ \A i \in 0..Len(t) : Upto(t, i) \in Seq(V)
         /\ \A i \in 1..Len(t) : Upto(t, i) = Append(Upto(t, i - 1), t[i])
<1>1. Len(t) \in Nat /\ \A i \in 1..Len(t) : t[i] \in V
  BY ElementOfSeq
<1>2. \A i \in 0..Len(t) : SubSeq(t, 1, i) \in Seq(V) /\ Len(SubSeq(t, 1, i)) = i
                           /\ \A k \in 1..i : SubSeq(t, 1, i)[k] = t[k]
  BY <1>1
<1>3. ASSUME NEW i \in 1..Len(t) PROVE SubSeq(t, 1, i) = Append(SubSeq(t, 1, i - 1), t[i])
  <2> DEFINE u == SubSeq(t, 1, i)
             v == SubSeq(t, 1, i - 1)
             w == Append(v, t[i])
  <2>1. i - 1 \in 0..Len(t) /\ i \in 0..Len(t) /\ t[i] \in V
    BY <1>1
  <2>2. u \in Seq(V) /\ Len(u) = i /\ \A k \in 1..i : u[k] = t[k]
    BY <1>2, <2>1
  <2>3. v \in Seq(V) /\ Len(v) = i - 1 /\ \A k \in 1..(i - 1) : v[k] = t[k]
    BY <1>2, <2>1
  <2> HIDE DEF u, v
  <2>4. w \in Seq(V) /\ Len(w) = i /\ \A k \in 1..i : w[k] = t[k]
    BY <2>1, <2>3
  <2> HIDE DEF w
  <2>5. u = w
    BY <2>2, <2>4, SeqEqual
  <2> QED
    BY <2>5 DEF u, v, w
<1>4. SubSeq(t, 1, 0) = <<>>
  BY <1>2
<1>5. SubSeq(t, 1, Len(t)) = t
  BY <1>1, <1>2, SeqEqual
<1> QED
  BY <1>2, <1>3, <1>4, <1>5 DEF Upto

\* A buffered turn that is streamed after the fact gives the client what a
\* JSON body would.
LEMMA BufferedAll ==
  ASSUME NEW r \in Recorders, r.reason = "stop"
  PROVE  Delivered(NothingYet, NewRenderer, SynthesizedEvents(r)).message
           = Whole(r.text, r.calls, IF r.calls # <<>> THEN "tool_calls" ELSE "stop")
<1> DEFINE s == SynthesizedEvents(r)
           text == r.text
           calls == r.calls
           a == Len(text)
           b == Len(calls)
           base == [message |-> NothingYet, renderer |-> NewRenderer]
<1>0. text \in Seq(Pieces) /\ calls \in Seq(CallRecords)
  BY DEF Recorders
<1>1. /\ a \in Nat /\ b \in Nat
      /\ DOMAIN s = 1..(a + b + 2)
      /\ s[1] = MessageStarted
      /\ \A i \in 1..a : s[i + 1] = TextDelta(text[i])
      /\ \A j \in 1..b : s[a + 1 + j] = ToolCallEmitted(calls[j])
      /\ s[a + b + 2] = MessageFinished("stop")
  BY SynthesizedPlaces
<1>b. calls = r.calls
  OBVIOUS
<1>a. a = Len(text) /\ b = Len(calls)
  OBVIOUS
<1> HIDE DEF s, a, b, text, calls
<1>2. a + b + 2 \in Nat
  BY <1>1
<1>3. PICK at : /\ at[0] = base
                /\ Delivered(NothingYet, NewRenderer, s) = at[a + b + 2]
                /\ \A k \in 1..(a + b + 2) : at[k] = DeliveredStep(at[k - 1], s[k])
  BY <1>1, <1>2, DeliveredRuns
<1>4. \A k \in 1..(a + b + 2) : StepsTo(at[k - 1], s[k], at[k])
  BY <1>3 DEF StepsTo
<1>5. at[1] = Worded(<<>>)
  <2>1. StepsTo(base, MessageStarted, at[1])
    <3>1. 1 \in 1..(a + b + 2) /\ 1 - 1 = 0
      BY <1>1
    <3> QED
      BY <1>1, <1>3, <1>4, <3>1
  <2>2. StepsTo(base, MessageStarted, Worded(<<>>))
    BY <1>0, BufferedSteps DEF Starting
  <2> QED
    BY <2>1, <2>2, Zenon DEF StepsTo
<1> HIDE DEF base
<1>6. at[a + 1] = Worded(text)
  <2> DEFINE P == {i \in 0..a : at[i + 1] = Worded(Upto(text, i))}
  <2>1. 0 \in P
    <3>1. Upto(text, 0) = <<>> /\ 0 \in 0..a /\ 0 + 1 = 1
      BY <1>0, <1>1, <1>a, FirstParts
    <3> QED
      BY <1>5, <3>1
  <2>2. ASSUME NEW i \in 1..a, i - 1 \in P PROVE i \in P
    <3>1. at[i] = Worded(Upto(text, i - 1))
      <4>1. (i - 1) + 1 = i
        BY <1>1
      <4> QED
        BY <2>2, <4>1
    <3>2. i + 1 \in 1..(a + b + 2) /\ (i + 1) - 1 = i /\ i \in 0..a /\ i - 1 \in 0..a
      BY <1>1
    <3>3. StepsTo(at[i], TextDelta(text[i]), at[i + 1])
      BY <1>1, <1>4, <3>2
    <3>4. Upto(text, i - 1) \in Seq(Pieces)
          /\ Upto(text, i) = Append(Upto(text, i - 1), text[i])
      BY <1>0, <3>2, <1>a, FirstParts
    <3>5. StepsTo(Worded(Upto(text, i - 1)), TextDelta(text[i]),
                  Worded(Append(Upto(text, i - 1), text[i])))
      BY <3>4, BufferedSteps
    <3>6. at[i + 1] = Worded(Upto(text, i))
      BY <3>1, <3>3, <3>4, <3>5, Zenon DEF StepsTo
    <3> QED
      BY <3>2, <3>6
  <2> HIDE DEF P
  <2>3. \A i \in 0..a : i \in P
    BY <1>1, <2>1, <2>2, Inducted
  <2>4. a \in P
    BY <1>1, <2>3
  <2>5. at[a + 1] = Worded(Upto(text, a))
    BY <2>4 DEF P
  <2> QED
    BY <1>0, <2>5, <1>a, FirstParts
<1>7. CASE calls = <<>>
  <2>1. b = 0
    BY <1>a, <1>7
  <2>2. StepsTo(at[a + 1], MessageFinished("stop"), at[a + b + 2])
    <3>1. a + b + 2 \in 1..(a + b + 2) /\ (a + b + 2) - 1 = a + 1
      BY <1>1, <2>1
    <3> QED
      BY <1>1, <1>4, <3>1
  <2>3. EndsAs(Worded(text), MessageFinished("stop"), Whole(text, <<>>, "stop"))
    BY <1>0, BufferedSteps
  <2>4. at[a + b + 2].message = Whole(text, <<>>, "stop")
    BY <1>6, <2>2, <2>3, Zenon DEF StepsTo, EndsAs
  <2>5. Delivered(NothingYet, NewRenderer, s).message = Whole(text, calls, "stop")
    BY <1>3, <1>7, <2>4
  <2> QED
    BY <1>7, <2>5 DEF s, text, calls
<1>8. CASE calls # <<>>
  <2>1. b # 0 /\ b - 1 \in Nat
    BY <1>0, <1>1, <1>a, <1>8, EmptySeq
  <2> DEFINE P == {j \in 0..(b - 1) : at[a + 2 + j] = Called(text, Upto(calls, j + 1))}
  <2>2. 0 \in P
    <3>1. a + 2 \in 1..(a + b + 2) /\ (a + 2) - 1 = a + 1 /\ a + 1 + 1 = a + 2
          /\ 1 \in 1..b /\ 0 \in 0..(b - 1) /\ 1 - 1 = 0 /\ 0 + 1 = 1 /\ a + 2 + 0 = a + 2
      BY <1>1, <2>1
    <3>2. StepsTo(at[a + 1], ToolCallEmitted(calls[1]), at[a + 2])
      BY <1>1, <1>4, <3>1
    <3>3. calls[1] \in CallRecords
      BY <1>0, <3>1, <1>a, ElementOfSeq
    <3>4. StepsTo(Worded(text), ToolCallEmitted(calls[1]), Called(text, <<calls[1]>>))
      BY <1>0, <3>3, BufferedSteps
    <3>5. Upto(calls, 1) = <<calls[1]>>
      <4>1. Upto(calls, 1) = Append(Upto(calls, 0), calls[1]) /\ Upto(calls, 0) = <<>>
        BY <1>0, <3>1, <1>a, FirstParts
      <4>2. \A e : Append(<<>>, e) = <<e>>
        OBVIOUS
      <4> QED
        BY <4>1, <4>2, Zenon
    <3>6. at[a + 2] = Called(text, Upto(calls, 1))
      BY <1>6, <3>2, <3>4, <3>5, Zenon DEF StepsTo
    <3> QED
      BY <3>1, <3>6
  <2>3. ASSUME NEW j \in 1..(b - 1), j - 1 \in P PROVE j \in P
    <3>1. /\ a + 2 + (j - 1) = a + 1 + j /\ (j - 1) + 1 = j
          /\ a + 2 + j \in 1..(a + b + 2) /\ (a + 2 + j) - 1 = a + 1 + j
          /\ a + 2 + j = a + 1 + (j + 1) /\ j + 1 \in 1..b /\ (j + 1) - 1 = j
          /\ j \in 0..b /\ j \in 0..(b - 1)
      BY <1>1, <2>1
    <3>2. at[a + 1 + j] = Called(text, Upto(calls, j))
      BY <2>3, <3>1
    <3>3. StepsTo(at[a + 1 + j], ToolCallEmitted(calls[j + 1]), at[a + 2 + j])
      BY <1>1, <1>4, <3>1
    <3>4. calls[j + 1] \in CallRecords
      BY <1>0, <3>1, <1>a, ElementOfSeq
    <3>5. Upto(calls, j) \in Seq(CallRecords)
          /\ Upto(calls, j + 1) = Append(Upto(calls, j), calls[j + 1])
      BY <1>0, <3>1, <1>a, FirstParts
    <3>6. StepsTo(Called(text, Upto(calls, j)), ToolCallEmitted(calls[j + 1]),
                  Called(text, Append(Upto(calls, j), calls[j + 1])))
      BY <1>0, <3>4, <3>5, BufferedSteps
    <3>7. at[a + 2 + j] = Called(text, Upto(calls, j + 1))
      BY <3>2, <3>3, <3>5, <3>6, Zenon DEF StepsTo
    <3> QED
      BY <3>1, <3>7
  <2> HIDE DEF P
  <2>4. \A j \in 0..(b - 1) : j \in P
    BY <2>1, <2>2, <2>3, Inducted
  <2>5. b - 1 \in P
    BY <2>1, <2>4
  <2>6. at[a + 2 + (b - 1)] = Called(text, Upto(calls, (b - 1) + 1))
    BY <2>5 DEF P
  <2>7. a + 2 + (b - 1) = a + b + 1 /\ (b - 1) + 1 = b
        /\ a + b + 2 \in 1..(a + b + 2) /\ (a + b + 2) - 1 = a + b + 1
    BY <1>1, <2>1
  <2>8. at[a + b + 1] = Called(text, calls)
    BY <1>0, <2>6, <2>7, <1>a, FirstParts
  <2>9. StepsTo(at[a + b + 1], MessageFinished("stop"), at[a + b + 2])
    BY <1>1, <1>4, <2>7
  <2>10. EndsAs(Called(text, calls), MessageFinished("stop"), Whole(text, calls, "tool_calls"))
    BY <1>0, BufferedSteps
  <2>11. at[a + b + 2].message = Whole(text, calls, "tool_calls")
    BY <2>8, <2>9, <2>10, Zenon DEF StepsTo, EndsAs
  <2>12. Delivered(NothingYet, NewRenderer, s).message = Whole(text, calls, "tool_calls")
    BY <1>3, <2>11
  <2> QED
    BY <1>8, <2>12 DEF s, text, calls
<1> QED
  BY <1>b, <1>7, <1>8

\* A body by what it holds.
LEMMA BodyWhole ==
  ASSUME NEW r, r.reason = "stop"
  PROVE  Body(r) = Whole(r.text, r.calls, IF r.calls # <<>> THEN "tool_calls" ELSE "stop")
BY DEF Body, Whole, FinishReason

\* However the answer reaches the client, it is the body.
LEMMA AnswerIsBody ==
  ASSUME NEW U, Within(U), Speech, turn.pc = "reply", NEW way \in Ways
  PROVE  Answer(way) = Body(turn.recorder)
<1> DEFINE r == turn.recorder
<1>1. Standing /\ Shown
  BY DEF Speech, Serving
<1>2. r \in Recorders /\ r.finished /\ r.reason = "stop" /\ (turn.mode # "tool" => r.calls = <<>>)
  BY <1>1 DEF Standing
<1>3. r.text \in Seq(Pieces) /\ <<>> \in Seq(CallRecords)
  BY <1>2 DEF Recorders
<1>4. turn.mode \in {"plain", "tool", "stream"}
  <2>1. turn \in Turns(U)
    BY ServingTurn DEF Serving
  <2> QED
    BY <2>1, TurnFields, DialogueAssumption
<1>5. CASE way = "plain"
  BY <1>5, Zenon DEF Answer
<1>6. CASE way = "stream" /\ ToolMode
  <2>1. Answer(way) = Delivered(NothingYet, NewRenderer, SynthesizedEvents(r)).message
    <3>1. way # "plain"
      BY <1>6
    <3> QED
      BY <1>6, <3>1, Zenon DEF Answer
  <2>2. Delivered(NothingYet, NewRenderer, SynthesizedEvents(r)).message
           = Whole(r.text, r.calls, IF r.calls # <<>> THEN "tool_calls" ELSE "stop")
    BY <1>2, BufferedAll
  <2> QED
    BY <1>2, <2>1, <2>2, BodyWhole
<1>7. CASE way # "plain" /\ ~(way = "stream" /\ ToolMode)
  <2> DEFINE n == turn.renderer
             e == MessageFinished("stop")
             m == Showing(r.text, <<>>, n.role)
  <2>1. turn.mode = "stream"
    BY <1>4, <1>7 DEF Ways, ToolMode
  <2>2. Answer(way) = Delivered(response.message, n, <<MessageFinished(r.reason)>>).message
    BY <1>7, Zenon DEF Answer
  <2>3. response.message = m /\ n \in Renderers /\ n.call = FALSE
    BY <1>1, <2>1 DEF Shown
  <2> HIDE DEF e, m, n
  <2>4. Answer(way) = Delivered(m, n, <<e>>).message
    BY <1>2, <2>2, <2>3 DEF e
  <2>5. Delivered(m, n, <<e>>) = DeliveredStep([message |-> m, renderer |-> n], e)
    BY DeliveredFew
  <2>6. [message |-> m, renderer |-> n] = Sight(r.text, <<>>, n.role, FALSE)
        /\ n.role \in BOOLEAN
    BY <2>3, RendererFields DEF Sight, m
  <2>7. EndsAs([message |-> m, renderer |-> n], e, Whole(r.text, <<>>, "stop"))
    <3> DEFINE text == r.text
               role == n.role
    <3>1. text \in Seq(Pieces) /\ <<>> \in Seq(CallRecords) /\ role \in BOOLEAN
          /\ FALSE \in BOOLEAN
      BY <1>3, <2>6
    <3> HIDE DEF text, role
    <3>2. EndsAs(Sight(text, <<>>, role, FALSE), MessageFinished("stop"),
                 Whole(text, <<>>, "stop"))
      BY <3>1, EndShown, Zenon DEF EndsAs
    <3> QED
      BY <2>6, <3>2, Zenon DEF e, text, role
  <2>8. Answer(way) = Whole(r.text, <<>>, "stop")
    BY <2>4, <2>5, <2>7 DEF EndsAs
  <2> QED
    BY <1>2, <2>1, <2>8, BodyWhole
<1> QED
  BY <1>5, <1>6, <1>7

\* Streamed or buffered, the client is shown what the recorder holds.
LEMMA ShownBySpeech ==
  ASSUME NEW U, Within(U), Speech
  PROVE  ShownIsSaid
<1> SUFFICES ASSUME Serving, upstream # Null PROVE
      /\ Begun => response.message.content = upstream.said
      /\ turn.pc = "reply" =>
           LET saying == Saying(upstream.said, ToolMode)
           IN  \A way \in Ways :
                 /\ Answer(way).content = saying.words
                 /\ Answer(way).calls # <<>> <=> saying.called
                 /\ Answer(way).roles = 1
                 /\ Answer(way).finish = IF saying.called THEN "tool_calls" ELSE "stop"
  BY Zenon DEF ShownIsSaid
<1>1. Standing /\ Upheld /\ Shown
  BY DEF Speech
<1>2. Says(turn.recorder, upstream.said, ToolMode)
  BY <1>1 DEF Upheld
<1>3. ASSUME Begun PROVE response.message.content = upstream.said
  <2>1. turn.mode = "stream" /\ ~ToolMode
    BY <1>3 DEF Begun, ToolMode
  <2>2. Saying(upstream.said, ToolMode).words = upstream.said
    BY <2>1 DEF Saying
  <2>3. response.message.content = turn.recorder.text
    BY <1>1, <2>1 DEF Shown, Showing
  <2> QED
    BY <1>2, <2>2, <2>3 DEF Says
<1>4. ASSUME turn.pc = "reply", NEW way \in Ways
      PROVE  LET saying == Saying(upstream.said, ToolMode)
             IN  /\ Answer(way).content = saying.words
                 /\ Answer(way).calls # <<>> <=> saying.called
                 /\ Answer(way).roles = 1
                 /\ Answer(way).finish = IF saying.called THEN "tool_calls" ELSE "stop"
  <2> DEFINE saying == Saying(upstream.said, ToolMode)
             r == turn.recorder
  <2>1. Answer(way) = Body(r)
    BY <1>4, AnswerIsBody
  <2>2. r.reason = "stop"
    BY <1>1, <1>4 DEF Standing
  <2>3. r.text = saying.words /\ (r.calls # <<>> <=> saying.called)
    BY <1>2 DEF Says
  <2> HIDE DEF saying, r
  <2>4. Answer(way) = Whole(r.text, r.calls, IF r.calls # <<>> THEN "tool_calls" ELSE "stop")
    BY <2>1, <2>2, BodyWhole
  <2>5. Answer(way).content = r.text /\ Answer(way).calls = r.calls /\ Answer(way).roles = 1
        /\ Answer(way).finish = IF r.calls # <<>> THEN "tool_calls" ELSE "stop"
    BY <2>4 DEF Whole
  <2> QED
    BY <2>3, <2>5 DEF saying
<1> QED
  BY <1>3, <1>4

\* The client is shown what the model says in its answer, whatever it says and
\* however it is sent: word by word, buffered and streamed afterwards, or in
\* one body (streaming.py sse_stream, wire.py, server.py _TurnRecorder).
THEOREM ClientShownWhatIsSaid == Spec => []ShownIsSaid
<1>1. Init => Typed /\ Bounded /\ Balance /\ Speech
  BY TypedInit, BalanceInit, SpeechInit
<1>2. Typed /\ Bounded /\ Balance /\ Speech /\ [Next]_vars
        => Typed' /\ Bounded' /\ Balance' /\ Speech'
  <2> SUFFICES ASSUME Typed, Bounded, Balance, Speech, [Next]_vars
               PROVE  Typed' /\ Bounded' /\ Balance' /\ Speech'
    OBVIOUS
  <2>1. PICK U : Within(U)
    BY DEF Typed
  <2>2. Typed' /\ Bounded'
    BY TypedStep
  <2>3. Balance'
    BY <2>1, BalanceStep
  <2>4. Speech'
    BY <2>1, <2>3, SpeechStep
  <2> QED
    BY <2>2, <2>3, <2>4
<1>3. Typed /\ Speech => ShownIsSaid
  BY ShownBySpeech DEF Typed
<1> QED
  BY <1>1, <1>2, <1>3, PTL DEF Spec

(***************************************************************************)
(* What a commit leaves in the store.                                      *)
(***************************************************************************)

\* A conversation that is filled in.
Filled(row, told, session, parent, now) ==
  /\ row.messages = told /\ row.session = session /\ row.parent = parent
  /\ row.updated = now
  /\ row.created = now \/ \E j \in DOMAIN store : row.created = store[j].created

\* The fields of a row that is written.
LEMMA WrittenRow ==
  ASSUME NEW U, NEW r \in Rows(U), NEW told, NEW session, NEW parent, NEW now
  PROVE  LET w == Written(r, told, session, parent, now) IN
         /\ w.messages = told /\ w.session = session /\ w.parent = parent
         /\ w.updated = now /\ w.created = r.created
BY DEF Written, Rows

\* The conversations left when the one at place v goes.
LEMMA Removed ==
  ASSUME NEW V, NEW rows \in Seq(V), NEW v \in 1..Len(rows)
  PROVE  /\ RemoveAt(rows, v) \in Seq(V) /\ Len(RemoveAt(rows, v)) = Len(rows) - 1
         /\ \A i \in 1..(v - 1) : RemoveAt(rows, v)[i] = rows[i]
         /\ \A i \in v..(Len(rows) - 1) : RemoveAt(rows, v)[i] = rows[i + 1]
<1> DEFINE n == Len(rows)
           before == SubSeq(rows, 1, v - 1)
           after  == SubSeq(rows, v + 1, n)
<1>1. n \in Nat /\ v \in 1..n
  BY LenProperties
<1>2. \A i \in 1..n : rows[i] \in V
  BY ElementOfSeq
<1>3. before \in Seq(V) /\ Len(before) = v - 1 /\ \A i \in 1..(v - 1) : before[i] = rows[i]
  <2>1. 1 \in Int /\ v - 1 \in Int /\ \A i \in 1..(v - 1) : rows[i] \in V
    BY <1>1, <1>2
  <2>2. before \in Seq(V) /\ Len(before) = v - 1
    BY <1>1, <2>1, SubSeqProperties
  <2>3. \A i \in 1..Len(before) : before[i] = rows[1 + i - 1]
    BY <1>1, <2>1, SubSeqProperties
  <2> QED
    BY <1>1, <2>2, <2>3
<1>4. after \in Seq(V) /\ Len(after) = n - v /\ \A i \in 1..(n - v) : after[i] = rows[v + i]
  <2>1. v + 1 \in Int /\ n \in Int /\ \A i \in (v + 1)..n : rows[i] \in V
    BY <1>1, <1>2
  <2>2. Len(after) = IF v + 1 <= n THEN n - (v + 1) + 1 ELSE 0
    BY <2>1, SubSeqProperties
  <2>3. after \in Seq(V) /\ \A i \in 1..Len(after) : after[i] = rows[v + 1 + i - 1]
    BY <2>1, SubSeqProperties
  <2>4. Len(after) = n - v
    BY <1>1, <2>2
  <2> QED
    BY <1>1, <2>3, <2>4
<1> HIDE DEF before, after
<1>5. Follows(before \o after, before, after) /\ before \o after \in Seq(V)
  BY <1>3, <1>4, Joined, Zenon
<1>6. RemoveAt(rows, v) = before \o after
  BY Zenon DEF RemoveAt, before, after, n
<1> DEFINE left == before \o after
<1>7. Len(left) = n - 1 /\ (\A i \in 1..(v - 1) : left[i] = rows[i])
  BY <1>1, <1>3, <1>4, <1>5 DEF Follows
<1>8. ASSUME NEW i \in v..(n - 1) PROVE left[i] = rows[i + 1]
  <2>1. i - v + 1 \in 1..(n - v) /\ i = (v - 1) + (i - v + 1) /\ v + (i - v + 1) = i + 1
    BY <1>1
  <2>2. left[(v - 1) + (i - v + 1)] = after[i - v + 1]
    BY <1>3, <1>4, <1>5, <2>1 DEF Follows
  <2> QED
    BY <1>4, <2>1, <2>2
<1> QED
  BY <1>5, <1>6, <1>7, <1>8

\* A commit to a conversation that is stored.
LEMMA KnownRows ==
  ASSUME NEW U, Null \in U, store \in Seq(Rows(U)),
         NEW c \in Nat, NEW told \in Seq(U), NEW session \in U, NEW parent \in U,
         NEW now \in Instants, c # NoConv, CommitKnown(c, told, session, parent, now)
  PROVE  /\ c \in DOMAIN store' /\ Filled(store'[c], told, session, parent, now)
         /\ \A i \in DOMAIN store' : i # c => \E j \in DOMAIN store : store'[i] = store[j]
<1> DEFINE new == Written(store[c], told, session, parent, now)
<1>1. c \in DOMAIN store /\ store' = [store EXCEPT ![c] = new]
  BY DEF CommitKnown
<1>2. store[c] \in Rows(U)
  BY <1>1, ElementOfSeq, LenProperties
<1>3. /\ new.messages = told /\ new.session = session /\ new.parent = parent
      /\ new.updated = now /\ new.created = store[c].created
  BY <1>2, WrittenRow
<1> HIDE DEF new
<1>4. DOMAIN store' = DOMAIN store /\ store'[c] = new
      /\ \A i \in DOMAIN store : i # c => store'[i] = store[i]
  BY <1>1
<1>5. Filled(store'[c], told, session, parent, now)
  BY <1>1, <1>3, <1>4, Zenon DEF Filled
<1> QED
  BY <1>1, <1>4, <1>5

\* A commit of a conversation that is not.
LEMMA NewRows ==
  ASSUME NEW U, Null \in U, store \in Seq(Rows(U)), Len(store) <= MaxConvs,
         NEW told \in Seq(U), NEW session \in U, NEW parent \in U,
         NEW now \in Instants, CommitNew(told, session, parent, now)
  PROVE  LET d == CommittedAs(NoConv, now) IN
         /\ d # NoConv => d \in DOMAIN store' /\ Filled(store'[d], told, session, parent, now)
         /\ d = NoConv => Overtaken(store', now)
         /\ \A i \in DOMAIN store' : i # d => \E j \in DOMAIN store : store'[i] = store[j]
<1> DEFINE n     == Len(store)
           fresh == NewConversation(now)
           rows  == Born(now)
           v     == Victim(rows)
           kept  == EvictIfNeeded(rows)
<1>1. now \in Nat /\ MaxConvs \in Nat \ {0} /\ n \in Nat /\ DOMAIN store = 1..n /\ n <= MaxConvs
  BY StoreAssumption, LenProperties
<1>2. fresh \in Rows(U) /\ fresh.created = now /\ fresh.updated = now
  BY <1>1, EmptySeq DEF NewConversation, Rows
<1> HIDE DEF fresh, n
<1>3. /\ rows \in Seq(Rows(U)) /\ Len(rows) = n + 1 /\ rows[n + 1] = fresh
      /\ \A i \in 1..n : rows[i] = store[i]
  BY <1>1, <1>2, AppendProperties DEF Born, fresh, n
<1> HIDE DEF rows
<1>4. DOMAIN rows = 1..(n + 1) /\ rows # <<>>
  BY <1>1, <1>3, LenProperties
<1>5. v \in 1..(n + 1) /\ \A d \in DOMAIN rows \ {v} : Older(rows, v, d)
  BY <1>3, <1>4, VictimStored
<1> HIDE DEF v
<1> DEFINE m    == Len(kept)
           new  == Written(kept[m], told, session, parent, now)
           full == [kept EXCEPT ![m] = new]
\* What stands before the last place was stored, and the last is the new one,
\* unless it has gone.
<1>6. /\ kept \in Seq(Rows(U)) /\ m \in 1..MaxConvs
      /\ \A i \in 1..(m - 1) : \E j \in 1..n : kept[i] = store[j]
      /\ SelfEvicted(now) => m = n /\ \A i \in 1..m : kept[i] = store[i]
      /\ ~SelfEvicted(now) => kept[m] = fresh
  <2>1. CASE n < MaxConvs
    <3>1. kept = rows
      BY <1>1, <1>3, <2>1 DEF EvictIfNeeded
    <3>2. n # MaxConvs
      BY <1>1, <2>1
    <3>3. ~SelfEvicted(now)
      BY <3>2, Zenon DEF SelfEvicted, n
    <3>4. m = n + 1
      BY <1>3, <3>1
    <3> HIDE DEF kept, m
    <3>5. m \in 1..MaxConvs /\ kept[m] = fresh
      BY <1>1, <1>3, <2>1, <3>1, <3>4
    <3>6. \A i \in 1..(m - 1) : i \in 1..n /\ kept[i] = store[i]
      BY <1>1, <1>3, <3>1, <3>4
    <3> QED
      BY <1>3, <3>1, <3>3, <3>5, <3>6
  <2>2. CASE n = MaxConvs
    <3>1. kept = RemoveAt(rows, v)
      BY <1>1, <1>3, <2>2 DEF EvictIfNeeded, v
    <3>2. SelfEvicted(now) <=> v = n + 1
      BY <2>2 DEF SelfEvicted, v, rows, n
    <3> DEFINE k == Len(rows)
    <3>7. v \in 1..k /\ k - 1 = n
      BY <1>1, <1>3, <1>5
    <3> HIDE DEF kept
    <3>3. /\ kept \in Seq(Rows(U)) /\ m = n
          /\ \A i \in 1..(v - 1) : kept[i] = rows[i]
          /\ \A i \in v..n : kept[i] = rows[i + 1]
      <4>1. /\ kept \in Seq(Rows(U)) /\ m = k - 1
            /\ \A i \in 1..(v - 1) : kept[i] = rows[i]
            /\ \A i \in v..(k - 1) : kept[i] = rows[i + 1]
        BY <1>3, <3>1, <3>7, Removed, Zenon
      <4> QED
        BY <3>7, <4>1
    <3> HIDE DEF m, k
    <3>4. ASSUME NEW i \in 1..(m - 1) PROVE \E j \in 1..n : kept[i] = store[j]
      <4>1. CASE i < v
        <5>1. i \in 1..n /\ i \in 1..(v - 1)
          BY <1>1, <1>5, <3>3, <4>1
        <5> QED
          BY <1>3, <3>3, <5>1
      <4>2. CASE i >= v
        <5>1. i + 1 \in 1..n /\ i \in v..n
          BY <1>1, <1>5, <3>3, <4>2
        <5> QED
          BY <1>3, <3>3, <5>1
      <4> QED
        BY <1>1, <1>5, <4>1, <4>2
    <3>5. v = n + 1 => \A i \in 1..m : kept[i] = store[i]
      BY <1>1, <1>3, <3>3
    <3>6. v # n + 1 => kept[m] = fresh
      BY <1>1, <1>3, <1>5, <3>3
    <3> QED
      BY <1>1, <2>2, <3>2, <3>3, <3>4, <3>5, <3>6
  <2> QED
    BY <1>1, <2>1, <2>2
<1>7. store' = IF SelfEvicted(now) THEN kept ELSE full
  BY Zenon DEF CommitNew, rows, full, new, m, kept
<1> HIDE DEF kept
<1>8. DOMAIN kept = 1..m /\ m \in Nat \ {0} /\ m \in 1..m
  BY <1>1, <1>6, LenProperties
<1>9. CASE SelfEvicted(now)
  <2>1. CommittedAs(NoConv, now) = NoConv
    BY <1>9 DEF CommittedAs
  <2>2. store' = kept
    BY <1>7, <1>9
  <2>4. DOMAIN store' # {}
    BY <1>8, <2>2
  <2>3. ASSUME NEW i \in DOMAIN store'
        PROVE  /\ now < store'[i].updated \/ now < store'[i].created
               /\ \E j \in DOMAIN store : store'[i] = store[j]
    <3>1. i \in 1..n /\ store'[i] = store[i] /\ rows[i] = store[i]
      BY <1>3, <1>6, <1>8, <1>9, <2>2, <2>3
    <3>2. v = n + 1
      BY <1>9 DEF SelfEvicted, v, rows, n
    <3>3. Older(rows, n + 1, i)
      BY <1>1, <1>4, <1>5, <3>1, <3>2
    <3>4. store[i].updated \in Nat /\ store[i].created \in Nat
      BY <1>1, <3>1, ElementOfSeq, RowFields
    <3> QED
      BY <1>1, <1>2, <1>3, <3>1, <3>3, <3>4 DEF Older
  <2> QED
    BY <2>1, <2>3, <2>4 DEF Overtaken
<1>10. CASE ~SelfEvicted(now)
  <2>1. store' = full
    BY <1>7, <1>10
  <2>2. kept[m] \in Rows(U)
    BY <1>6, <1>10, <1>2
  <2>3. /\ new.messages = told /\ new.session = session /\ new.parent = parent
        /\ new.updated = now /\ new.created = kept[m].created
    BY <2>2, WrittenRow
  <2> HIDE DEF new
  <2>4. DOMAIN full = 1..m /\ full[m] = new
        /\ \A i \in 1..m : i # m => full[i] = kept[i]
    <3> HIDE DEF m
    <3> QED
      BY <1>8
  <2>5. Len(store') = m
    <3>1. DOMAIN store' = 1..m
      BY <2>1, <2>4
    <3> HIDE DEF full, m
    <3> QED
      BY <1>8, <3>1
  <2>6. CommittedAs(NoConv, now) = m
    BY <1>10, <2>5 DEF CommittedAs
  <2>7. Filled(store'[m], told, session, parent, now)
    BY <1>2, <1>6, <1>10, <2>1, <2>3, <2>4 DEF Filled
  <2>8. \A i \in DOMAIN store' : i # m => \E j \in DOMAIN store : store'[i] = store[j]
    <3> HIDE DEF m, full
    <3>1. \A i \in 1..m : i # m => i \in 1..(m - 1)
      BY <1>8
    <3> QED
      BY <1>1, <1>6, <2>1, <2>4, <3>1, Zenon
  <2> QED
    BY <1>8, <2>1, <2>4, <2>6, <2>7, <2>8 DEF NoConv
<1> QED
  BY <1>9, <1>10

(***************************************************************************)
(* The history, the store and the request.                                 *)
(***************************************************************************)

\* A conversation in the store: a history with its answer.
StoredRow(row) ==
  /\ row.messages \in Seq(Spoken) /\ row.messages # <<>>
  /\ row.session \in Sessions \union {Null}
  /\ row.parent \in MessageIds \union {Null}
  /\ row.created \in Instants /\ row.updated \in Instants

\* All rows are sound,
StoreSound == \A c \in DOMAIN store : StoredRow(store[c])

\* and so is the client's history.
HistorySound == history \in Seq(Spoken) /\ Len(history) <= MaxMessages

\* What is asked is the history and one message, and a last part of it is sent.
Asked ==
  /\ Len(history) + 2 <= MaxMessages
  /\ \E message \in Spoken : turn.incoming = Append(history, message)
  /\ \E known \in 0..Len(history) : turn.sent = Delta(turn.incoming, known)

\* Where the conversation is, and its session.
Placed ==
  /\ turn.conv \in {NoConv} \union DOMAIN store
  /\ turn.session \in Sessions \union {Null}
  /\ turn.session = Null <=> turn.pc = "session"

\* What is sent of it, which depends on how the first attempt went.
Prompted == turn.prompt = RepairBase(turn.simulated)

\* What is committed is what the client will be told, or is gone at once.
Committed ==
  turn.pc \in {"unlink", "reply"} =>
    \/ /\ turn.conv # NoConv
       /\ store[turn.conv].messages = Told(turn.recorder)
    \/ /\ turn.conv = NoConv
       /\ Overtaken(store, turn.stamp)

\* A conversation that loses its link keeps all else, and no other changes.
LEMMA InvalidatedRows ==
  ASSUME NEW U, store \in Seq(Rows(U)), NEW c, Invalidate(c)
  PROVE  /\ DOMAIN store' = DOMAIN store
         /\ \A i \in DOMAIN store :
              /\ i # c => store'[i] = store[i]
              /\ store'[i].messages = store[i].messages
              /\ store'[i].created = store[i].created /\ store'[i].updated = store[i].updated
              /\ \/ store'[i].session = store[i].session /\ store'[i].parent = store[i].parent
                 \/ store'[i].session = Null /\ store'[i].parent = Null
              /\ i = c /\ c # NoConv => store'[i].session = Null
<1>1. \A i \in DOMAIN store : store[i] \in Rows(U)
  BY ElementOfSeq, LenProperties
<1>2. CASE c = NoConv
  <2>1. store' = store
    BY <1>2 DEF Invalidate
  <2> QED
    BY <1>2, <2>1
<1>3. CASE c # NoConv
  <2> DEFINE cut == Unlinked(store[c])
  <2>1. store' = [store EXCEPT ![c] = cut]
    BY <1>3 DEF Invalidate
  <2>2. ASSUME c \in DOMAIN store
        PROVE  /\ cut.messages = store[c].messages /\ cut.created = store[c].created
               /\ cut.updated = store[c].updated /\ cut.session = Null /\ cut.parent = Null
    <3>1. store[c] \in Rows(U)
      BY <1>1, <2>2
    <3> QED
      BY <3>1 DEF Unlinked, Rows
  <2> HIDE DEF cut
  <2>3. DOMAIN store' = DOMAIN store
        /\ \A i \in DOMAIN store : store'[i] = IF i = c THEN cut ELSE store[i]
    BY <2>1
  <2> QED
    BY <2>2, <2>3
<1> QED
  BY <1>2, <1>3

\* Which steps change the store, and how.
LEMMA StoreSteps ==
  ASSUME NEW U, Within(U), [Next]_vars
  PROVE  \/ UNCHANGED store
         \/ EmptyStore
         \/ Serving /\ Invalidate(turn.conv)
         \/ /\ Serving /\ (StreamEnds \/ CommitDrained)
            /\ \E path, recorder : \E next \in {"unlink", "reply"} : Commit(path, recorder, next)
<1>1. CASE SessionFailed \/ Garbage \/ Truncate \/ Raise
  <2>1. PICK failure : Fail(failure)
    BY <1>1 DEF SessionFailed, Garbage, Truncate, Raise
  <2>2. Serving
    BY <1>1 DEF SessionFailed, Garbage, Truncate, Raise, Reading, Serving
  <2>3. \E final \in BOOLEAN : LinkDropped(final)
    BY <2>1, Zenon DEF Fail, Retry, Surface, Broadcast
  <2> QED
    BY <2>2, <2>3 DEF LinkDropped
<1>2. CASE StreamEnds
  <2>1. Serving
    BY <1>2 DEF StreamEnds, Reading, Serving
  <2>2. \E path, recorder : Commit(path, recorder, "reply")
    BY <1>2, Zenon DEF StreamEnds
  <2> QED
    BY <1>2, <2>1, <2>2
<1>3. CASE CommitDrained
  <2>1. Serving
    BY <1>3 DEF CommitDrained, Serving
  <2>2. Commit(turn.path, turn.recorder, IF turn.repairs > 0 THEN "unlink" ELSE "reply")
    BY <1>3, Zenon DEF CommitDrained
  <2> QED
    BY <1>3, <2>1, <2>2
<1>4. CASE UnlinkRepaired
  BY <1>4 DEF UnlinkRepaired, Serving
<1>5. CASE Restart
  BY <1>5 DEF Restart
<1>6. CASE Ask \/ SessionOpened
  BY <1>6 DEF Ask, SessionOpened
<1>7. CASE Ready \/ TakeSnapshot \/ Speak \/ Think \/ Note
  BY <1>7 DEF Ready, TakeSnapshot, Speak, Think, Note
<1>8. CASE DrainEnds \/ RepairRetry
  BY <1>8 DEF DrainEnds, RepairRetry
<1>9. CASE Tell \/ Lose
  BY <1>9 DEF Tell, Lose
<1>10. CASE UNCHANGED vars
  BY <1>10 DEF vars
<1> QED
  BY <1>1, <1>2, <1>3, <1>4, <1>5, <1>6, <1>7, <1>8, <1>9, <1>10 DEF Next

\* The answer is a message of a history.
LEMMA AnswerSpoken ==
  ASSUME NEW r \in Recorders
  PROVE  AssistantMessage(r) \in Spoken
<1> DEFINE content == IF r.text = <<>> /\ r.calls # <<>> THEN Null ELSE r.text
           calls   == r.calls
<1>1. r.text \in Seq(Pieces) /\ calls \in Seq(CallRecords)
  BY DEF Recorders
<1>2. content \in Seq(Pieces) \union {Null} /\ (content = Null => calls # <<>>)
  BY <1>1, NullApart
<1>3. AssistantMessage(r) = [role |-> "assistant", content |-> content, calls |-> calls,
                             id |-> Null, name |-> Null]
  BY DEF AssistantMessage, CanonicalMessage
<1> HIDE DEF content, calls
<1> QED
  BY <1>1, <1>2, <1>3 DEF Spoken, Roles

\* What a turn tells the store.
LEMMA ToldSpoken ==
  ASSUME HistorySound, Asked, NEW r \in Recorders
  PROVE  /\ Told(r) \in Seq(Spoken) /\ Told(r) # <<>>
         /\ Len(Told(r)) = Len(history) + 2
         /\ Told(r)[Len(history) + 2].role = "assistant"
         /\ \A i \in 1..Len(history) : Told(r)[i] = history[i]
<1> DEFINE reply == AssistantMessage(r)
           n == Len(history)
<1>1. PICK message \in Spoken : turn.incoming = Append(history, message)
  BY DEF Asked
<1>2. reply \in Spoken /\ reply.role = "assistant"
  BY AnswerSpoken DEF AssistantMessage, CanonicalMessage
<1>3. history \in Seq(Spoken) /\ n \in Nat
  BY LenProperties DEF HistorySound
<1> HIDE DEF reply, n
<1>4. /\ turn.incoming \in Seq(Spoken) /\ Len(turn.incoming) = n + 1
      /\ \A i \in 1..n : turn.incoming[i] = history[i]
  BY <1>1, <1>3, AppendProperties DEF n
<1>5. /\ Told(r) \in Seq(Spoken) /\ Len(Told(r)) = n + 2 /\ Told(r)[n + 2] = reply
      /\ \A i \in 1..(n + 1) : Told(r)[i] = turn.incoming[i]
  <2> DEFINE incoming == turn.incoming
             told == Append(incoming, reply)
             m == n + 1
  <2>1. incoming \in Seq(Spoken) /\ Len(incoming) = m /\ m \in Nat
    BY <1>3, <1>4
  <2> HIDE DEF incoming, m
  <2>2. /\ told \in Seq(Spoken) /\ Len(told) = m + 1 /\ told[m + 1] = reply
        /\ \A i \in 1..m : told[i] = incoming[i]
    BY <1>2, <2>1, AppendProperties
  <2>3. Told(r) = told
    BY DEF Told, told, incoming, reply
  <2> QED
    BY <1>3, <2>2, <2>3 DEF incoming, m
<1>6. Told(r) # <<>>
  BY <1>3, <1>5, EmptySeq
<1> QED
  BY <1>2, <1>3, <1>4, <1>5, <1>6 DEF n

\* The store after a turn is committed.
LEMMA CommitRows ==
  ASSUME NEW U, Within(U), Serving, Bounded, NEW path, NEW recorder, NEW next,
         Commit(path, recorder, next)
  PROVE  /\ turn'.conv # NoConv =>
              /\ turn'.conv \in DOMAIN store'
              /\ Filled(store'[turn'.conv], Told(recorder), turn.session, recorder.parent,
                        turn'.stamp)
         /\ turn'.conv = NoConv => Overtaken(store', turn'.stamp)
         /\ \A i \in DOMAIN store' : i # turn'.conv => \E j \in DOMAIN store : store'[i] = store[j]
<1> DEFINE told  == Told(recorder)
           reply == AssistantMessage(recorder)
           now   == turn'.stamp
           V     == U \union {reply, recorder.parent}
<1>1. turn \in Turns(U)
  BY ServingTurn
<1>2. /\ now \in Instants /\ turn'.conv = CommittedAs(turn.conv, now)
      /\ CommitTurn(turn.conv, told, turn.session, recorder.parent, now)
  BY <1>1, CommittedTurn
<1>3. U \subseteq V /\ reply \in V /\ recorder.parent \in V
  OBVIOUS
<1> HIDE DEF V, reply
<1>4. turn \in Turns(V) /\ Null \in V /\ store \in Seq(Rows(V))
  BY <1>1, <1>3, Grow DEF Within
<1>5. told \in Seq(V)
  <2>1. turn.incoming \in Seq(V)
    BY <1>4, TurnFields
  <2>2. told = Append(turn.incoming, reply)
    BY DEF Told, reply
  <2> QED
    BY <1>3, <2>1, <2>2, AppendProperties
<1>6. turn.conv \in Nat /\ turn.session \in V
  BY <1>4, TurnFields
<1>7. Len(store) <= MaxConvs
  BY DEF Bounded
<1> HIDE DEF told, now
<1>8. CASE turn.conv # NoConv
  <2>1. CommitKnown(turn.conv, told, turn.session, recorder.parent, now)
    BY <1>2, <1>8 DEF CommitTurn
  <2>2. CommittedAs(turn.conv, now) = turn.conv
    BY <1>8 DEF CommittedAs
  <2>3. turn'.conv = turn.conv
    BY <1>2, <2>2
  <2>4. /\ turn.conv \in DOMAIN store'
        /\ Filled(store'[turn.conv], told, turn.session, recorder.parent, now)
        /\ \A i \in DOMAIN store' : i # turn.conv => \E j \in DOMAIN store : store'[i] = store[j]
    BY <1>2, <1>3, <1>4, <1>5, <1>6, <1>8, <2>1, KnownRows
  <2> QED
    BY <1>8, <2>3, <2>4 DEF told, now
<1>9. CASE turn.conv = NoConv
  <2>1. CommitNew(told, turn.session, recorder.parent, now)
    BY <1>2, <1>9 DEF CommitTurn
  <2>2. turn'.conv = CommittedAs(NoConv, now)
    BY <1>2, <1>9
  <2> DEFINE d == CommittedAs(NoConv, now)
  <2>3. /\ d # NoConv => /\ d \in DOMAIN store'
                         /\ Filled(store'[d], told, turn.session, recorder.parent, now)
        /\ d = NoConv => Overtaken(store', now)
        /\ \A i \in DOMAIN store' : i # d => \E j \in DOMAIN store : store'[i] = store[j]
    BY <1>2, <1>3, <1>4, <1>5, <1>6, <1>7, <2>1, NewRows
  <2> HIDE DEF d
  <2> QED
    BY <2>2, <2>3 DEF told, now, d
<1> QED
  BY <1>8, <1>9

\* What is stored stays a history with its answer.
LEMMA StoreSoundStep ==
  ASSUME NEW U, Within(U), Bounded, HistorySound, StoreSound, Speech',
         Serving => Asked /\ Placed, [Next]_vars
  PROVE  StoreSound'
<1>1. CASE UNCHANGED store
  BY <1>1 DEF StoreSound, StoredRow
<1>2. CASE EmptyStore
  <2>1. DOMAIN store' = {}
    BY <1>2, EmptySeq DEF EmptyStore
  <2> QED
    BY <2>1 DEF StoreSound
<1>3. CASE Serving /\ Invalidate(turn.conv)
  <2>1. store \in Seq(Rows(U))
    BY DEF Within
  <2>2. ASSUME NEW i \in DOMAIN store' PROVE StoredRow(store'[i])
    <3>1. i \in DOMAIN store /\ StoredRow(store[i])
      BY <1>3, <2>1, <2>2, InvalidatedRows DEF StoreSound
    <3>2. /\ store'[i].messages = store[i].messages
          /\ store'[i].created = store[i].created /\ store'[i].updated = store[i].updated
          /\ \/ store'[i].session = store[i].session /\ store'[i].parent = store[i].parent
             \/ store'[i].session = Null /\ store'[i].parent = Null
      BY <1>3, <2>1, <3>1, InvalidatedRows
    <3> QED
      BY <3>1, <3>2 DEF StoredRow
  <2> QED
    BY <2>2 DEF StoreSound
<1>4. ASSUME Serving, NEW path, NEW recorder, NEW next \in {"unlink", "reply"},
             Commit(path, recorder, next)
      PROVE  StoreSound'
  <2>1. turn \in Turns(U)
    BY <1>4, ServingTurn
  <2>2. turn'.pc = next /\ turn'.recorder = recorder /\ turn'.stamp \in Instants
    BY <1>4, <2>1, CommittedTurn
  <2>3. recorder \in Recorders
    <3>1. Serving'
      BY <1>4, <2>2 DEF Serving
    <3> QED
      BY <2>2, <3>1 DEF Speech, Standing
  <2>4. recorder.parent \in MessageIds \union {Null}
    BY <2>3 DEF Recorders
  <2>5. turn.session \in Sessions \union {Null}
    BY <1>4 DEF Placed
  <2>6. Told(recorder) \in Seq(Spoken) /\ Told(recorder) # <<>>
    BY <1>4, <2>3, ToldSpoken
  <2>7. ASSUME NEW i \in DOMAIN store', i # turn'.conv PROVE StoredRow(store'[i])
    <3>1. PICK j \in DOMAIN store : store'[i] = store[j]
      BY <1>4, <2>7, CommitRows
    <3> QED
      BY <3>1 DEF StoreSound
  <2>8. ASSUME turn'.conv \in DOMAIN store', turn'.conv # NoConv
        PROVE  StoredRow(store'[turn'.conv])
    <3>1. Filled(store'[turn'.conv], Told(recorder), turn.session, recorder.parent, turn'.stamp)
      BY <1>4, <2>8, CommitRows
    <3>2. \A j \in DOMAIN store : store[j].created \in Instants
      BY DEF StoreSound, StoredRow
    <3> QED
      BY <2>2, <2>4, <2>5, <2>6, <3>1, <3>2 DEF Filled, StoredRow
  <2>9. NoConv \notin DOMAIN store'
    <3>1. Serving /\ next \in Pcs
      BY <1>4 DEF Pcs
    <3>2. \E W : store' \in Seq(Rows(W))
      <4>1. \E W : Within(W)'
        <5>1. Typed /\ Bounded
          BY DEF Typed
        <5> QED
          BY <5>1, TypedStep DEF Typed
      <4> QED
        BY <4>1 DEF Within
    <3> QED
      BY <3>2, LenProperties DEF NoConv
  <2> QED
    BY <2>7, <2>8, <2>9 DEF StoreSound
<1> QED
  BY <1>1, <1>2, <1>3, <1>4, StoreSteps

\* A request that begins sends the history and a message that is accepted.
LEMMA AskedAnew ==
  ASSUME HistorySound, Ask
  PROVE  \E message \in NewMessages(history), mode \in Modes :
           /\ Acceptable(message) /\ Canonical(message) \in Spoken
           /\ BeginsAs(turn', mode, Append(history, Canonical(message)))
<1>1. PICK form \in ArgumentForms, message \in NewMessages(history), mode \in Modes :
        LET messages  == Append(Resent(history, form), message)
            canonical == MessagesToCanonical(messages)
        IN  AllAcceptable(messages) /\ turn' = NewTurn(mode, canonical)
  BY Zenon DEF Ask
<1> DEFINE messages  == Append(Resent(history, form), message)
           canonical == MessagesToCanonical(messages)
           n         == Len(history)
           new       == Canonical(message)
<1>2. history \in Seq(Spoken) /\ n \in Nat
  BY LenProperties DEF HistorySound
<1>3. canonical = Append(history, new)
  BY <1>2, HistoryBack
<1>4. Acceptable(message)
  <2>1. Len(Resent(history, form)) = n /\ \E V : Resent(history, form) \in Seq(V)
    <3>1. DOMAIN history = 1..n
      BY <1>2, LenProperties
    <3> DEFINE V == {Wire(form, history[i]) : i \in 1..n}
    <3>2. Resent(history, form) = [i \in 1..n |-> Wire(form, history[i])]
      BY <3>1 DEF Resent
    <3> HIDE DEF n
    <3>3. Resent(history, form) \in [1..n -> V]
      BY <3>2
    <3>4. Resent(history, form) \in Seq(V)
      <4> DEFINE resent == Resent(history, form)
      <4>1. resent \in [1..n -> V] /\ n \in Nat
        BY <1>2, <3>3
      <4> HIDE DEF resent, V
      <4>2. resent \in Seq(V)
        BY <4>1, SeqDef
      <4> QED
        BY <4>2 DEF resent
    <3>5. Len(Resent(history, form)) = n
      <4>1. DOMAIN Resent(history, form) = 1..n
        BY <3>2
      <4>2. DOMAIN Resent(history, form) = 1..Len(Resent(history, form))
            /\ Len(Resent(history, form)) \in Nat
        BY <3>4, LenProperties
      <4> QED
        BY <1>2, <4>1, <4>2, SamePlaces
    <3> QED
      BY <3>4, <3>5
  <2> DEFINE resent == Resent(history, form)
  <2>2. PICK V : resent \in Seq(V)
    BY <2>1
  <2> DEFINE W == V \union {message}
  <2>3. resent \in Seq(W) /\ message \in W
    BY <2>2
  <2>4. Len(resent) = n
    BY <2>1
  <2> HIDE DEF resent, W, n
  <2> DEFINE sent == Append(resent, message)
  <2>5. sent \in Seq(W) /\ Len(sent) = n + 1 /\ sent[n + 1] = message
    BY <2>3, <2>4, AppendProperties
  <2>6. DOMAIN sent = 1..(n + 1) /\ n + 1 \in 1..(n + 1)
    BY <1>2, <2>5, LenProperties
  <2>7. Acceptable(sent[n + 1])
    <3>1. AllAcceptable(sent)
      BY <1>1 DEF sent, resent
    <3> HIDE DEF sent
    <3> QED
      BY <2>6, <3>1 DEF AllAcceptable
  <2> QED
    BY <2>5, <2>7
<1>5. new \in Spoken
  BY <1>2, <1>4, NewSpoken
<1> HIDE DEF canonical, new, n
<1>6. BeginsAs(turn', mode, canonical)
  <2>1. turn' = NewTurn(mode, canonical)
    BY <1>1 DEF canonical
  <2> QED
    BY <2>1, NewTurnFields
<1>7. BeginsAs(turn', mode, Append(history, new))
  BY <1>3, <1>6, Zenon
<1> QED
  BY <1>4, <1>5, <1>7, Zenon DEF new

\* The request is the history and one message more.
LEMMA AskRequest ==
  ASSUME NEW U, Within(U), HistorySound, StoreSound, Ask
  PROVE  Asked' /\ Placed' /\ Prompted' /\ Committed'
<1>1. PICK message \in NewMessages(history), mode \in Modes :
        /\ Canonical(message) \in Spoken
        /\ BeginsAs(turn', mode, Append(history, Canonical(message)))
  BY AskedAnew, Zenon
<1> DEFINE new       == Canonical(message)
           canonical == Append(history, new)
           n         == Len(history)
<1>2. UNCHANGED <<history, store>> /\ n + 2 <= MaxMessages
  BY DEF Ask
<1>3. history \in Seq(Spoken) /\ n \in Nat
  BY LenProperties DEF HistorySound
<1>4. canonical = Append(history, new)
  OBVIOUS
<1>5. new \in Spoken
  BY <1>1
<1> HIDE DEF canonical, new, n
<1>6. canonical \in Seq(Spoken) /\ Len(canonical) = n + 1
  BY <1>3, <1>4, <1>5, AppendProperties DEF n
<1>7. BeginsAs(turn', mode, canonical)
  BY <1>1, Zenon DEF canonical, new
<1> DEFINE conv  == Resolve(store, canonical)
           known == Len(store[conv].messages)
<1>8. conv # NoConv => conv \in DOMAIN store /\ known \in 0..n
  <2> HIDE DEF conv
  <2>1. PICK V : canonical \in Seq(V) /\ store \in Seq(Rows(V))
    <3> DEFINE V == U \union Spoken
    <3>1. canonical \in Seq(V)
      BY <1>6
    <3>2. store \in Seq(Rows(V))
      BY Grow DEF Within
    <3> QED
      BY <3>1, <3>2
  <2>2. ASSUME conv # NoConv
        PROVE  conv \in DOMAIN store /\ known \in 0..(Len(canonical) - 1)
    BY <2>1, <2>2, ResolvedIsShorter DEF conv
  <2>3. Len(canonical) - 1 = n
    BY <1>3, <1>6
  <2> QED
    BY <2>2, <2>3
<1> HIDE DEF conv, known
<1>9. /\ turn'.incoming = canonical /\ turn'.conv = conv /\ turn'.simulated = FALSE
      /\ turn'.pc = IF Linked(conv) THEN "attempt" ELSE "session"
      /\ turn'.session = IF Linked(conv) THEN store[conv].session ELSE Null
      /\ turn'.sent = IF Linked(conv) THEN Delta(canonical, known) ELSE canonical
  BY <1>7 DEF BeginsAs, conv, known
<1>10. \E k \in 0..n : turn'.sent = Delta(canonical, k)
  <2>1. CASE Linked(conv)
    BY <1>8, <1>9, <2>1 DEF Linked
  <2>2. CASE ~Linked(conv)
    <3>1. Delta(canonical, 0) = canonical
      BY <1>6, SubSeqFull DEF Delta
    <3>2. 0 \in 0..n
      BY <1>3
    <3> QED
      BY <1>9, <2>2, <3>1, <3>2
  <2> QED
    BY <2>1, <2>2
<1>11. Asked'
  BY <1>2, <1>4, <1>5, <1>9, <1>10 DEF Asked, n
<1>12. Placed'
  <2>1. turn'.conv \in {NoConv} \union DOMAIN store'
    BY <1>2, <1>8, <1>9
  <2>2. Linked(conv) => store[conv].session \in Sessions \union {Null} /\ store[conv].session # Null
    BY <1>8 DEF Linked, StoreSound, StoredRow
  <2> QED
    BY <1>9, <2>1, <2>2 DEF Placed
<1>13. Prompted'
  <2>1. turn'.prompt = Compile(turn'.sent, canonical)
    BY <1>7 DEF BeginsAs
  <2> QED
    BY <1>9, <2>1 DEF Prompted, RepairBase
<1>14. Committed'
  BY <1>9 DEF Committed
<1> QED
  BY <1>11, <1>12, <1>13, <1>14

\* The history changes with the answer only.
LEMMA HistorySteps ==
  ASSUME [Next]_vars
  PROVE  history' = history \/ Tell
<1>1. CASE SessionFailed \/ Garbage \/ Truncate \/ Raise
  BY <1>1 DEF SessionFailed, Garbage, Truncate, Raise, Fail
<1>2. CASE StreamEnds \/ CommitDrained \/ UnlinkRepaired \/ Restart \/ Ask \/ SessionOpened
  BY <1>2 DEF StreamEnds, CommitDrained, UnlinkRepaired, Restart, Ask, SessionOpened
<1>3. CASE Ready \/ TakeSnapshot \/ Speak \/ Think \/ Note \/ DrainEnds \/ RepairRetry \/ Lose
  BY <1>3 DEF Ready, TakeSnapshot, Speak, Think, Note, DrainEnds, RepairRetry, Lose
<1>4. CASE UNCHANGED vars
  BY <1>4 DEF vars
<1> QED
  BY <1>1, <1>2, <1>3, <1>4 DEF Next

\* What the client is told is what was committed.
LEMMA ToldAnswer ==
  ASSUME NEW U, Within(U), Speech, Tell
  PROVE  history' = Told(turn.recorder) /\ turn.recorder \in Recorders /\ Serving
<1>1. Serving /\ turn.pc = "reply"
  BY DEF Tell, Serving
<1>2. PICK way \in Ways : history' = Append(turn.incoming, ClientMessage(Answer(way)))
  BY Zenon DEF Tell
<1>3. Answer(way) = Body(turn.recorder)
  BY <1>1, AnswerIsBody
<1>4. ClientMessage(Body(turn.recorder)) = AssistantMessage(turn.recorder)
  BY DEF ClientMessage, Body, AssistantMessage
<1>5. turn.recorder \in Recorders
  BY <1>1 DEF Speech, Standing
<1> QED
  BY <1>1, <1>2, <1>3, <1>4, <1>5 DEF Told

\* Every step keeps the history that way.
LEMMA HistorySoundStep ==
  ASSUME NEW U, Within(U), HistorySound, Speech, Serving => Asked, [Next]_vars
  PROVE  HistorySound'
<1>1. CASE history' = history
  BY <1>1 DEF HistorySound
<1>2. CASE Tell
  <2>1. history' = Told(turn.recorder) /\ turn.recorder \in Recorders /\ Serving
    BY <1>2, ToldAnswer
  <2>2. Told(turn.recorder) \in Seq(Spoken) /\ Len(Told(turn.recorder)) = Len(history) + 2
    BY <2>1, ToldSpoken
  <2>3. Len(history) + 2 <= MaxMessages
    BY <2>1 DEF Asked
  <2> QED
    BY <2>1, <2>2, <2>3 DEF HistorySound
<1> QED
  BY <1>1, <1>2, HistorySteps

\* Once asked, the request stays what it is.
LEMMA AskedStep ==
  ASSUME NEW U, Within(U), [Next]_vars, Serving', ~Ask, Serving => Asked
  PROVE  Asked'
<1>1. Serving /\ FixedFields
  BY TurnFixed
<1>2. history' = history
  <2>1. ~Tell
    BY DEF Tell, TurnOver, Serving, Idle
  <2> QED
    BY <2>1, HistorySteps
<1> QED
  BY <1>1, <1>2 DEF Asked, FixedFields

\* The prompt is replaced when a repair begins, and then only.
LEMMA PromptedStep ==
  ASSUME NEW U, Within(U), [Next]_vars, Serving', ~Ask, Serving => Prompted
  PROVE  Prompted'
<1>1. Serving /\ FixedFields /\ (RepairRetry \/ FixedPrompt)
  BY TurnFixed
<1>2. CASE FixedPrompt
  BY <1>1, <1>2 DEF Prompted, RepairBase, FixedFields, FixedPrompt
<1>3. CASE RepairRetry
  <2>1. turn \in Turns(U)
    BY <1>1, ServingTurn
  <2>2. /\ turn'.prompt = RepairBase(turn'.simulated)
        /\ turn'.sent = turn.sent /\ turn'.incoming = turn.incoming
    BY <1>3, <2>1, RepairedTurn DEF SameRequest
  <2> QED
    BY <2>2 DEF Prompted, RepairBase
<1> QED
  BY <1>1, <1>2, <1>3

\* What a step of a request may do to its conversation and its session: leave
\* them, though the link may go,
Remains ==
  /\ turn'.conv = turn.conv /\ turn'.session = turn.session
  /\ UNCHANGED store \/ Invalidate(turn.conv)
  /\ turn'.pc = "session" <=> turn.pc = "session"
  /\ turn'.pc \in {"unlink", "reply"} =>
       /\ turn.pc \in {"unlink", "reply"} /\ turn'.recorder = turn.recorder
       /\ turn'.stamp = turn.stamp

\* open a session,
Opens ==
  /\ turn'.conv = turn.conv /\ UNCHANGED store
  /\ turn'.session \in Sessions \ SessionsInUse /\ turn'.pc = "attempt"

\* or commit.
Commits ==
  /\ turn.pc # "session" /\ turn'.session = turn.session
  /\ \E path : \E next \in {"unlink", "reply"} :
       Commit(path, turn'.recorder, next) /\ turn'.pc = next

\* A step that serves on keeps the place, opens a session or commits.
LEMMA PlaceSteps ==
  ASSUME NEW U, Within(U), [Next]_vars, Serving', ~Ask
  PROVE  Serving /\ (Remains \/ Opens \/ Commits)
<1>1. Serving /\ turn \in Turns(U)
  BY Steps
<1>2. CASE SessionOpened
  <2>1. UNCHANGED store
    BY <1>2 DEF SessionOpened
  <2>2. Opens
    BY <1>1, <1>2, <2>1, OpenedTurn DEF Opens
  <2> QED
    BY <1>1, <2>2
<1>3. ASSUME turn.pc \in {"session", "attempt"}, NEW failure, Fail(failure), Retry(failure)
      PROVE  Remains
  <2>1. turn'.conv = turn.conv /\ turn'.session = turn.session /\ turn'.pc = turn.pc
    BY <1>1, <1>3, RetriedTurn
  <2>2. UNCHANGED store \/ Invalidate(turn.conv)
    BY <1>3 DEF Retry, LinkDropped
  <2> QED
    BY <1>3, <2>1, <2>2 DEF Remains
<1>4. CASE Ready \/ TakeSnapshot \/ Speak \/ Think \/ Note
  <2>1. UNCHANGED store /\ turn.pc = "attempt" /\ \E line : Receive(line)
    <3>1. CASE Ready
      BY <3>1 DEF Ready
    <3>2. CASE TakeSnapshot
      BY <3>2 DEF TakeSnapshot, Reading
    <3>3. CASE Speak
      BY <3>3 DEF Speak, Reading
    <3>4. CASE Think
      BY <3>4 DEF Think, Reading
    <3>5. CASE Note
      BY <3>5 DEF Note, Reading
    <3> QED
      BY <1>4, <3>1, <3>2, <3>3, <3>4, <3>5
  <2>2. turn'.conv = turn.conv /\ turn'.session = turn.session /\ turn'.pc = turn.pc
    BY <1>1, <2>1, ReceivedTurn
  <2>3. Remains
    BY <2>1, <2>2 DEF Remains
  <2> QED
    BY <1>1, <2>3
<1>5. CASE DrainEnds
  <2>1. UNCHANGED store /\ turn.pc = "attempt"
    BY <1>5 DEF DrainEnds, Reading
  <2>2. turn'.conv = turn.conv /\ turn'.session = turn.session /\ turn'.pc = "settle"
    BY <1>1, <1>5, DrainedTurn
  <2>3. Remains
    BY <2>1, <2>2 DEF Remains
  <2> QED
    BY <1>1, <2>3
<1>6. CASE StreamEnds
  <2>1. turn.pc = "attempt"
    BY <1>6 DEF StreamEnds, Reading
  <2>2. PICK path, recorder : Commit(path, recorder, "reply")
    BY <1>6, Zenon DEF StreamEnds
  <2>3. turn'.session = turn.session /\ turn'.pc = "reply" /\ turn'.recorder = recorder
    BY <1>1, <2>2, CommittedTurn
  <2>4. Commit(path, turn'.recorder, "reply")
    BY <2>2, <2>3
  <2>5. Commits
    BY <2>1, <2>3, <2>4, Zenon DEF Commits
  <2> QED
    BY <1>1, <2>5
<1>7. CASE CommitDrained
  <2> DEFINE next == IF turn.repairs > 0 THEN "unlink" ELSE "reply"
  <2>1. turn.pc = "settle" /\ Commit(turn.path, turn.recorder, next)
    BY <1>7, Zenon DEF CommitDrained
  <2>2. next \in {"unlink", "reply"}
    OBVIOUS
  <2> HIDE DEF next
  <2>3. turn'.session = turn.session /\ turn'.pc = next /\ turn'.recorder = turn.recorder
    BY <1>1, <2>1, CommittedTurn
  <2>4. Commit(turn.path, turn'.recorder, next)
    BY <2>1, <2>3
  <2>5. Commits
    BY <2>1, <2>2, <2>3, <2>4, Zenon DEF Commits
  <2> QED
    BY <1>1, <2>5
<1>8. CASE RepairRetry
  <2>1. UNCHANGED store /\ turn.pc = "settle"
    BY <1>8 DEF RepairRetry
  <2>2. turn'.conv = turn.conv /\ turn'.session = turn.session /\ turn'.pc = "attempt"
    BY <1>1, <1>8, RepairedTurn
  <2>3. Remains
    BY <2>1, <2>2 DEF Remains
  <2> QED
    BY <1>1, <2>3
<1>9. CASE UnlinkRepaired
  <2>1. Invalidate(turn.conv) /\ turn.pc = "unlink"
    BY <1>9 DEF UnlinkRepaired
  <2>2. /\ turn'.conv = turn.conv /\ turn'.session = turn.session /\ turn'.pc = "reply"
        /\ turn'.recorder = turn.recorder /\ turn'.stamp = turn.stamp
    BY <1>1, <1>9, UnlinkedTurn
  <2>3. Remains
    BY <2>1, <2>2 DEF Remains
  <2> QED
    BY <1>1, <2>3
<1>10. CASE UNCHANGED vars
  <2>1. Remains
    BY <1>10 DEF vars, Remains
  <2> QED
    BY <1>1, <2>1
<1> QED
  BY <1>1, <1>2, <1>3, <1>4, <1>5, <1>6, <1>7, <1>8, <1>9, <1>10, Steps

\* The conversation of a request stays in its place, and its session is its own.
LEMMA PlacedStep ==
  ASSUME NEW U, Within(U), Bounded, [Next]_vars, Serving', ~Ask, Serving => Placed
  PROVE  Placed'
<1>1. Serving /\ Placed
  BY PlaceSteps
<1>2. CASE Remains
  <2>1. DOMAIN store' = DOMAIN store
    <3>1. store \in Seq(Rows(U))
      BY DEF Within
    <3> QED
      BY <1>2, <3>1, InvalidatedRows DEF Remains
  <2> QED
    BY <1>1, <1>2, <2>1 DEF Placed, Remains
<1>3. CASE Opens
  BY <1>1, <1>3, NullApart DEF Placed, Opens
<1>4. CASE Commits
  <2>1. PICK path : \E next \in {"unlink", "reply"} :
          Commit(path, turn'.recorder, next) /\ turn'.pc = next
    BY <1>4, Zenon DEF Commits
  <2>2. turn'.conv # NoConv => turn'.conv \in DOMAIN store'
    BY <1>1, <2>1, CommitRows
  <2>3. turn'.session = turn.session /\ turn.pc # "session"
    BY <1>4 DEF Commits
  <2> QED
    BY <1>1, <2>1, <2>2, <2>3 DEF Placed
<1> QED
  BY <1>2, <1>3, <1>4, PlaceSteps

\* What is committed stays committed until the client is told.
LEMMA CommittedStep ==
  ASSUME NEW U, Within(U), Bounded, [Next]_vars, Serving', ~Ask, Serving => Placed /\ Committed
  PROVE  Committed'
<1>1. Serving /\ Placed /\ Committed /\ turn \in Turns(U)
  BY PlaceSteps, ServingTurn
<1>2. turn'.incoming = turn.incoming
  BY TurnFixed DEF FixedFields
<1> SUFFICES ASSUME turn'.pc \in {"unlink", "reply"} PROVE Committed'
  BY DEF Committed
<1>3. CASE Remains
  <2>1. \A i \in DOMAIN store :
          /\ store'[i].messages = store[i].messages
          /\ store'[i].created = store[i].created /\ store'[i].updated = store[i].updated
    <3>1. store \in Seq(Rows(U))
      BY DEF Within
    <3> QED
      BY <1>3, <3>1, InvalidatedRows DEF Remains
  <2>2. DOMAIN store' = DOMAIN store
    <3>1. store \in Seq(Rows(U))
      BY DEF Within
    <3> QED
      BY <1>3, <3>1, InvalidatedRows DEF Remains
  <2>3. /\ turn'.conv = turn.conv /\ turn.pc \in {"unlink", "reply"}
        /\ turn'.recorder = turn.recorder /\ turn'.stamp = turn.stamp
    BY <1>3 DEF Remains
  <2>4. CASE turn.conv = NoConv
    <3>1. Overtaken(store, turn.stamp)
      BY <1>1, <2>3, <2>4 DEF Committed
    <3>2. Overtaken(store', turn'.stamp)
      BY <2>1, <2>2, <2>3, <3>1 DEF Overtaken
    <3> QED
      BY <2>3, <2>4, <3>2 DEF Committed
  <2>5. CASE turn.conv # NoConv
    <3>1. store[turn.conv].messages = Append(turn.incoming, AssistantMessage(turn.recorder))
          /\ turn.conv \in DOMAIN store
      BY <1>1, <2>3, <2>5 DEF Committed, Placed, Told
    <3> QED
      BY <1>2, <2>1, <2>3, <2>5, <3>1 DEF Committed, Told
  <2> QED
    BY <2>4, <2>5
<1>4. CASE Opens
  BY <1>4 DEF Opens
<1>5. CASE Commits
  <2>1. PICK path : \E next \in {"unlink", "reply"} :
          Commit(path, turn'.recorder, next) /\ turn'.pc = next
    BY <1>5, Zenon DEF Commits
  <2>2. /\ turn'.conv # NoConv =>
             store'[turn'.conv].messages = Append(turn.incoming, AssistantMessage(turn'.recorder))
        /\ turn'.conv = NoConv => Overtaken(store', turn'.stamp)
    BY <1>1, <2>1, CommitRows DEF Filled, Told
  <2> QED
    BY <1>2, <2>2 DEF Committed, Told
<1> QED
  BY <1>3, <1>4, <1>5, PlaceSteps

\* The history, the store and the request, together.
Kept == HistorySound /\ StoreSound /\ (Serving => Asked /\ Placed /\ Prompted /\ Committed)

\* Every step keeps what is kept,
LEMMA KeptStep ==
  ASSUME NEW U, Within(U), Bounded, Speech, Speech', Kept, [Next]_vars
  PROVE  Kept'
<1>1. HistorySound /\ StoreSound /\ (Serving => Asked /\ Placed /\ Prompted /\ Committed)
  BY DEF Kept
<1>2. HistorySound' /\ StoreSound'
  BY <1>1, HistorySoundStep, StoreSoundStep
<1>3. ASSUME Serving', Ask PROVE Asked' /\ Placed' /\ Prompted' /\ Committed'
  BY <1>1, <1>3, AskRequest
<1>4. ASSUME Serving', ~Ask PROVE Asked' /\ Placed' /\ Prompted' /\ Committed'
  BY <1>1, <1>4, AskedStep, PromptedStep, PlacedStep, CommittedStep
<1> QED
  BY <1>2, <1>3, <1>4 DEF Kept

\* and at first there is nothing to keep.
LEMMA KeptInit == Init => Kept
<1> SUFFICES ASSUME Init PROVE Kept
  OBVIOUS
<1>1. history = <<>> /\ DOMAIN store = {} /\ ~Serving
  BY EmptySeq DEF Init, InitStore, Serving, Idle
<1>2. <<>> \in Seq(Spoken) /\ Len(<<>>) = 0
  BY EmptySeq
<1> QED
  BY <1>1, <1>2, DialogueAssumption DEF Kept, HistorySound, StoreSound

\* A response that is complete is a success.
OutcomeSound == response.done => response.status = 200

\* A finished response has been answered with 200.
LEMMA OutcomeStep ==
  ASSUME NEW U, Within(U), Balance, Speech, Speech', OutcomeSound, [Next]_vars
  PROVE  OutcomeSound'
<1>1. CASE Serving'
  BY <1>1 DEF Speech, Shown, OutcomeSound
<1>2. CASE ~Serving'
  <2>1. CASE Tell
    BY <2>1 DEF Tell, OutcomeSound
  <2>2. CASE Lose \/ Restart
    BY <2>2 DEF Lose, Restart, NoResponse, OutcomeSound
  <2>3. CASE UNCHANGED response
    BY <2>3 DEF OutcomeSound
  <2>4. ASSUME NEW failure, Serving, Fail(failure)
        PROVE  OutcomeSound'
    <3>1. response.done = FALSE
      BY <2>4 DEF Speech, Shown
    <3>2. PICK V : response \in Responses(V)
      BY DEF Balance
    <3>3. UNCHANGED response \/ \E status : response' = [response EXCEPT !.status = status]
      BY <2>4, Zenon DEF Fail, Retry, Surface, Broadcast
    <3>4. response'.done = FALSE
      BY <3>1, <3>2, <3>3 DEF Responses
    <3> QED
      BY <3>4 DEF OutcomeSound
  <2>5. CASE SessionFailed \/ Garbage \/ Truncate \/ Raise
    <3>1. \E failure : Fail(failure)
      BY <2>5 DEF SessionFailed, Garbage, Truncate, Raise
    <3>2. Serving
      BY <2>5 DEF SessionFailed, Garbage, Truncate, Raise, Reading, Serving
    <3> QED
      BY <2>4, <3>1, <3>2
  <2>6. CASE Ask
    BY <2>6 DEF Ask, NoResponse, OutcomeSound
  <2>7. CASE SessionOpened \/ DrainEnds \/ StreamEnds \/ RepairRetry \/ CommitDrained
             \/ UnlinkRepaired
    BY <2>3, <2>7
       DEF SessionOpened, DrainEnds, StreamEnds, RepairRetry, CommitDrained, UnlinkRepaired
  <2>8. CASE Ready \/ TakeSnapshot \/ Speak \/ Think \/ Note
    <3>1. turn.pc = "attempt" /\ \E line : Receive(line)
      <4>1. CASE Ready
        BY <4>1 DEF Ready
      <4>2. CASE TakeSnapshot
        BY <4>2 DEF TakeSnapshot, Reading
      <4>3. CASE Speak
        BY <4>3 DEF Speak, Reading
      <4>4. CASE Think
        BY <4>4 DEF Think, Reading
      <4>5. CASE Note
        BY <4>5 DEF Note, Reading
      <4> QED
        BY <2>8, <4>1, <4>2, <4>3, <4>4, <4>5
    <3>2. Serving
      BY <3>1 DEF Serving
    <3>3. turn'.pc = turn.pc
      BY <3>1, <3>2, ServingTurn, ReceivedTurn
    <3> QED
      BY <1>2, <3>1, <3>3 DEF Serving
  <2>9. CASE UNCHANGED vars
    BY <2>3, <2>9 DEF vars
  <2> QED
    BY <2>1, <2>2, <2>5, <2>6, <2>7, <2>8, <2>9 DEF Next
<1> QED
  BY <1>1, <1>2

\* The invariant of the dialogue.
DialogueInvariant == Typed /\ Bounded /\ Balance /\ Speech /\ Kept /\ OutcomeSound

\* Every step keeps the invariant,
LEMMA InvariantStep == DialogueInvariant /\ [Next]_vars => DialogueInvariant'
<1> SUFFICES ASSUME DialogueInvariant, [Next]_vars PROVE DialogueInvariant'
  OBVIOUS
<1>1. Typed /\ Bounded /\ Balance /\ Speech /\ Kept /\ OutcomeSound
  BY DEF DialogueInvariant
<1>2. PICK U : Within(U)
  BY <1>1 DEF Typed
<1>3. Typed' /\ Bounded'
  BY <1>1, TypedStep
<1>4. Balance'
  BY <1>1, <1>2, BalanceStep
<1>5. Speech'
  BY <1>1, <1>2, <1>4, SpeechStep
<1>6. Kept'
  BY <1>1, <1>2, <1>5, KeptStep
<1>7. OutcomeSound'
  BY <1>1, <1>2, <1>5, OutcomeStep
<1> QED
  BY <1>3, <1>4, <1>5, <1>6, <1>7 DEF DialogueInvariant

\* it holds at first,
LEMMA InvariantInit == Init => DialogueInvariant
<1> SUFFICES ASSUME Init PROVE DialogueInvariant
  OBVIOUS
<1>1. OutcomeSound
  BY DEF Init, NoResponse, OutcomeSound
<1> QED
  BY <1>1, TypedInit, BalanceInit, SpeechInit, KeptInit DEF DialogueInvariant

\* and so it always holds.
LEMMA Invariant == Spec => []DialogueInvariant
BY InvariantInit, InvariantStep, PTL DEF Spec

\* Whatever the client, the model and the clock do, what is stored is a
\* history with its answer and a link of known names, the request that is
\* served has its conversation in the store, its session and its budgets, and
\* a complete response is a success.
THEOREM DialogueTypeCorrect == Spec => []TypeOK
<1>1. DialogueInvariant => TypeOK
  <2> SUFFICES ASSUME DialogueInvariant PROVE TypeOK
    OBVIOUS
  <2>1. PICK U : Within(U)
    BY DEF DialogueInvariant, Typed
  <2>2. Speech /\ Kept /\ OutcomeSound /\ Balance
    BY DEF DialogueInvariant
  <2>3. Len(history) <= MaxMessages
    BY <2>2 DEF Kept, HistorySound
  <2>4. ASSUME NEW c \in DOMAIN store
        PROVE  /\ store[c].messages # <<>>
               /\ store[c].parent \in MessageIds \union {Null}
               /\ store[c].session \in Sessions \union {Null}
               /\ {store[c].created, store[c].updated} \subseteq Instants
    BY <2>2 DEF Kept, StoreSound, StoredRow
  <2>5. ASSUME Serving
        PROVE  /\ turn.pc \in {"session", "attempt", "settle", "unlink", "reply"}
               /\ turn.conv \in {NoConv} \union DOMAIN store
               /\ turn.tries \in 0..MaxRetries
               /\ turn.repairs \in 0..MaxToolRepairAttempts
               /\ turn.session = Null <=> turn.pc = "session"
    <3>1. turn \in Turns(U)
      BY <2>1, <2>5, ServingTurn
    <3>2. turn.pc \in Pcs /\ turn.tries \in 0..MaxRetries
          /\ turn.repairs \in 0..MaxToolRepairAttempts
      BY <3>1, TurnFields
    <3>3. Placed
      BY <2>2, <2>5 DEF Kept
    <3> QED
      BY <3>2, <3>3 DEF Pcs, Placed
  <2>6. upstream # Null => Serving /\ upstream \in Streams
    BY <2>2 DEF Balance, Speech, Upheld
  <2> QED
    BY <2>2, <2>3, <2>4, <2>5, <2>6 DEF TypeOK, OutcomeSound
<1> QED
  BY <1>1, Invariant, PTL

\* A proper beginning is shorter.
LEMMA StrictlyShorter ==
  ASSUME NEW V, NEW s \in Seq(V), NEW t \in Seq(V), IsStrictPrefix(s, t)
  PROVE  Len(s) <= Len(t) - 1
<1>1. Len(s) \in Nat /\ Len(t) \in Nat /\ Len(s) <= Len(t)
  BY LenProperties DEF IsStrictPrefix, IsPrefix
<1>2. Len(s) # Len(t)
  <2>1. s # t /\ SubSeq(s, 1, Len(s)) = SubSeq(t, 1, Len(s))
    BY DEF IsStrictPrefix, IsPrefix
  <2>2. SubSeq(s, 1, Len(s)) = s /\ SubSeq(t, 1, Len(t)) = t
    BY SubSeqFull
  <2> QED
    BY <2>1, <2>2
<1> QED
  BY <1>1, <1>2

\* A sequence begins the one that has an element more.
LEMMA BeginsLonger ==
  ASSUME NEW V, NEW s \in Seq(V), NEW e \in V
  PROVE  /\ IsStrictPrefix(s, Append(s, e)) /\ Len(Append(s, e)) = Len(s) + 1
         /\ Append(s, e) \in Seq(V)
         /\ SubSeq(Append(s, e), Len(s) + 1, Len(s) + 1) = <<e>>
<1> DEFINE t == Append(s, e)
           n == Len(s)
<1>1. n \in Nat /\ t \in Seq(V) /\ Len(t) = n + 1 /\ t[n + 1] = e
      /\ \A i \in 1..n : t[i] = s[i]
  BY LenProperties, AppendProperties
<1> HIDE DEF t, n
<1>2. \A i \in 1..(n + 1) : t[i] \in V
  BY <1>1, ElementOfSeq
<1>3. SubSeq(t, 1, n) = s
  <2> DEFINE u == SubSeq(t, 1, n)
  <2>1. 1 \in Int /\ n \in Int /\ \A i \in 1..n : t[i] \in V
    BY <1>1, <1>2
  <2>2. u \in Seq(V) /\ Len(u) = IF 1 <= n THEN n - 1 + 1 ELSE 0
    BY <1>1, <2>1, SubSeqProperties
  <2>3. \A i \in 1..Len(u) : u[i] = t[1 + i - 1]
    BY <1>1, <2>1, SubSeqProperties
  <2>4. Len(u) = n
    BY <1>1, <2>2
  <2> HIDE DEF u
  <2>5. \A i \in 1..n : u[i] = s[i]
    BY <1>1, <2>3, <2>4
  <2>6. u = s
    BY <2>2, <2>4, <2>5, SeqEqual DEF n
  <2> QED
    BY <2>6 DEF u
<1>4. SubSeq(s, 1, n) = s
  BY SubSeqFull DEF n
<1>5. IsStrictPrefix(s, t)
  <2>1. s # t
    BY <1>1 DEF n
  <2>2. Len(s) <= Len(t)
    BY <1>1 DEF n
  <2> QED
    BY <1>3, <1>4, <2>1, <2>2 DEF IsStrictPrefix, IsPrefix, n
<1>6. SubSeq(t, n + 1, n + 1) = <<e>>
  <2> DEFINE u == SubSeq(t, n + 1, n + 1)
             a == n + 1
  <2>1. a \in Int /\ \A i \in a..a : t[i] \in V
    BY <1>1, <1>2
  <2>2. u \in Seq(V) /\ Len(u) = (IF a <= a THEN a - a + 1 ELSE 0)
        /\ \A i \in 1..Len(u) : u[i] = t[a + i - 1]
    BY <1>1, <2>1, SubSeqProperties
  <2>3. Len(u) = 1
    BY <1>1, <2>2 DEF a
  <2>4. u[1] = e
    BY <1>1, <2>2, <2>3
  <2> HIDE DEF u
  <2>5. <<e>> \in Seq(V) /\ Len(<<e>>) = 1 /\ <<e>>[1] = e
    OBVIOUS
  <2> DEFINE w == <<e>>
  <2>7. w \in Seq(V) /\ Len(w) = 1 /\ w[1] = e
    BY <2>5
  <2> HIDE DEF w
  <2>9. \A i \in 1..Len(u) : i = 1
    BY <2>3
  <2>8. u[1] = w[1] /\ u \in Seq(V) /\ Len(u) = Len(w)
    BY <2>2, <2>3, <2>4, <2>7, Zenon
  <2>6. u = w
    BY <2>7, <2>8, <2>9, SeqEqual
  <2> QED
    BY <2>6 DEF u, w
<1> QED
  BY <1>1, <1>5, <1>6 DEF t, n

\* A history that is stored is found when it comes back with a message more,
\* and only that message is new.
LEMMA FoundAgain ==
  ASSUME NEW V, NEW rows \in Seq(Rows(V)), NEW c \in DOMAIN rows,
         NEW told \in Seq(V), told # <<>>, rows[c].messages = told, NEW e \in V
  PROVE  LET incoming == Append(told, e)
             conv     == Resolve(rows, incoming)
         IN  conv # NoConv /\ Delta(incoming, Len(rows[conv].messages)) = <<e>>
<1> DEFINE incoming == Append(told, e)
           n        == Len(told)
           conv     == Resolve(rows, incoming)
           found    == Candidates(Stored(rows), DOMAIN rows, incoming)
           best     == BestMatches(Stored(rows), DOMAIN rows, incoming)
           size     == [d \in DOMAIN rows |-> Len(rows[d].messages)]
<1>1. /\ IsStrictPrefix(told, incoming) /\ Len(incoming) = n + 1 /\ n \in Nat
      /\ incoming \in Seq(V) /\ SubSeq(incoming, n + 1, n + 1) = <<e>>
  BY BeginsLonger, LenProperties
<1> HIDE DEF incoming, n, size
<1>2. DOMAIN rows = 1..Len(rows) /\ Len(rows) \in Nat
  BY LenProperties
<1>3. \A d \in DOMAIN rows :
        /\ Stored(rows)[d] = rows[d].messages /\ rows[d].messages \in Seq(V)
        /\ size[d] = Len(rows[d].messages) /\ size[d] \in Nat
  <2>1. ASSUME NEW d \in DOMAIN rows
        PROVE  /\ Stored(rows)[d] = rows[d].messages /\ rows[d].messages \in Seq(V)
               /\ size[d] = Len(rows[d].messages) /\ size[d] \in Nat
    <3>1. rows[d] \in Rows(V)
      BY <1>2, <2>1, ElementOfSeq
    <3>2. rows[d].messages \in Seq(V)
      BY <3>1, RowFields
    <3> QED
      BY <2>1, <3>2, LenProperties DEF Stored, size
  <2> QED
    BY <2>1
<1>4. c \in found /\ size[c] = n
  BY <1>1, <1>3 DEF Candidates, Continues, n
<1>5. ASSUME NEW d \in found PROVE d \in DOMAIN rows /\ size[d] <= n
  <2>1. d \in DOMAIN rows /\ IsStrictPrefix(Stored(rows)[d], incoming)
    BY <1>5 DEF Candidates, Continues
  <2>2. Len(rows[d].messages) <= Len(incoming) - 1
    BY <1>1, <1>3, <2>1, StrictlyShorter
  <2> QED
    BY <1>1, <1>3, <2>1, <2>2
<1>6. best = {b \in found : \A d \in found : size[d] <= size[b]}
  <2>1. \A d \in found : Len(Stored(rows)[d]) = size[d]
    BY <1>3, <1>5
  <2> QED
    BY <2>1, Zenon DEF BestMatches
<1> HIDE DEF found
<1>7. c \in best
  BY <1>4, <1>5, <1>6
<1>8. \A b \in best : b \in 1..Len(rows) /\ size[b] = n
  BY <1>1, <1>2, <1>3, <1>4, <1>5, <1>6
<1>9. conv = CHOOSE b \in best : \A d \in best : b <= d
  BY <1>7 DEF Resolve
<1> HIDE DEF best, conv
<1>10. conv \in best
  <2>1. best \subseteq Nat /\ best # {}
    BY <1>2, <1>7, <1>8
  <2>2. \E b \in best : \A d \in best : b <= d
    BY <2>1, LeastNatural
  <2> QED
    BY <1>9, <2>2
<1>11. conv # NoConv /\ Len(rows[conv].messages) = n
  BY <1>2, <1>3, <1>8, <1>10 DEF NoConv
<1>12. Delta(incoming, n) = <<e>>
  BY <1>1 DEF Delta
<1> QED
  BY <1>11, <1>12 DEF incoming, conv

\* The client's next message finds what the gateway knows of it.
LEMMA ResumesStored ==
  ASSUME NEW U, Within(U), NEW told \in Seq(Spoken), told # <<>>,
         NEW c \in DOMAIN store, store[c].messages = told
  PROVE  Resumes(store, told)
<1> SUFFICES ASSUME NEW form \in ArgumentForms, NEW message \in NewMessages(told),
                    Acceptable(message)
             PROVE  LET incoming == MessagesToCanonical(Append(Resent(told, form), message))
                        conv     == Resolve(store, incoming)
                    IN  /\ conv # NoConv
                        /\ Delta(incoming, Len(store[conv].messages)) = <<Canonical(message)>>
  BY Zenon DEF Resumes
<1> DEFINE e == Canonical(message)
           V == U \union Spoken
           incoming == MessagesToCanonical(Append(Resent(told, form), message))
<1>1. e \in Spoken
  BY NewSpoken
<1>2. incoming = Append(told, e)
  BY HistoryBack
<1>3. e \in V /\ told \in Seq(V)
  BY <1>1
<1>4. store \in Seq(Rows(V))
  BY Grow DEF Within
<1> HIDE DEF incoming, e, V
<1>5. LET conv == Resolve(store, Append(told, e))
      IN  conv # NoConv /\ Delta(Append(told, e), Len(store[conv].messages)) = <<e>>
  BY <1>3, <1>4, FoundAgain
<1> QED
  BY <1>2, <1>5 DEF incoming, e

\* Once the client has been told an answer, its next request, however it
\* writes its history down, is found to continue it and only its new message
\* is sent on, unless the clock has gone back and cost it its place
\* (conversation.py resolve, prompt_compiler.py messages_to_canonical).
THEOREM NextTurnFound == Spec => NextTurnResumes
<1>1. DialogueInvariant /\ [Next]_vars =>
        (history' # history /\ history' # <<>> =>
           Resumes(store', history') \/ Overtaken(store, turn.stamp))
  <2> SUFFICES ASSUME DialogueInvariant, [Next]_vars, history' # history
               PROVE  Resumes(store', history') \/ Overtaken(store, turn.stamp)
    OBVIOUS
  <2>1. PICK U : Within(U)
    BY DEF DialogueInvariant, Typed
  <2>2. Speech /\ Kept
    BY DEF DialogueInvariant
  <2>3. Tell
    BY HistorySteps
  <2>4. history' = Told(turn.recorder) /\ turn.recorder \in Recorders /\ Serving
    BY <2>1, <2>2, <2>3, ToldAnswer
  <2>5. turn.pc = "reply" /\ store' = store
    BY <2>3 DEF Tell
  <2>6. HistorySound /\ Asked /\ Placed /\ Committed
    BY <2>2, <2>4 DEF Kept
  <2>7. Told(turn.recorder) \in Seq(Spoken) /\ Told(turn.recorder) # <<>>
    BY <2>4, <2>6, ToldSpoken
  <2>8. CASE turn.conv # NoConv
    <3>1. turn.conv \in DOMAIN store /\ store[turn.conv].messages = Told(turn.recorder)
      BY <2>5, <2>6, <2>8 DEF Placed, Committed
    <3>2. Resumes(store, Told(turn.recorder))
      BY <2>1, <2>7, <3>1, ResumesStored
    <3> QED
      BY <2>4, <2>5, <3>2
  <2>9. CASE turn.conv = NoConv
    BY <2>5, <2>6, <2>9 DEF Committed
  <2> QED
    BY <2>8, <2>9
<1> QED
  BY <1>1, Invariant, PTL DEF Spec, NextTurnResumes

\* What the store knows.
StoredHistories == {store[c].messages : c \in DOMAIN store}

\* But for a commit the store learns nothing.
LEMMA StoreForgets ==
  ASSUME NEW U, Within(U), UNCHANGED store \/ EmptyStore \/ Invalidate(turn.conv)
  PROVE  StoredHistories' \subseteq StoredHistories
<1>1. CASE UNCHANGED store
  BY <1>1 DEF StoredHistories
<1>2. CASE EmptyStore
  <2>1. DOMAIN store' = {}
    BY <1>2, EmptySeq DEF EmptyStore
  <2> QED
    BY <2>1 DEF StoredHistories
<1>3. CASE Invalidate(turn.conv)
  <2>1. store \in Seq(Rows(U))
    BY DEF Within
  <2>2. /\ DOMAIN store' = DOMAIN store
        /\ \A i \in DOMAIN store : store'[i].messages = store[i].messages
    BY <1>3, <2>1, InvalidatedRows
  <2> QED
    BY <2>2 DEF StoredHistories
<1> QED
  BY <1>1, <1>2, <1>3

\* What the turn knows.
Pending == IF turn.pc \in {"unlink", "reply"} THEN {Told(turn.recorder)} ELSE {}

\* What is known is what is stored and what is about to be told.
LEMMA KnownParts ==
  Known = StoredHistories \union Pending /\ Known' = StoredHistories' \union Pending'
BY DEF Known, StoredHistories, Pending

\* Two messages more make a history longer as the service may.
LEMMA ExtendsHistory ==
  ASSUME NEW V, NEW h \in Seq(V), NEW g \in Seq(V), Len(h) = Len(g) + 2,
         \A i \in 1..Len(g) : h[i] = g[i]
  PROVE  Chat!Extends(h, g)
<1> DEFINE n == Len(g)
           s == SubSeq(h, 1, n)
<1>1. n \in Nat
  BY LenProperties
<1>2. \A i \in 1..Len(h) : h[i] \in V
  BY ElementOfSeq
<1> HIDE DEF n
<1>3. s \in Seq(V) /\ Len(s) = (IF 1 <= n THEN n - 1 + 1 ELSE 0)
      /\ \A i \in 1..Len(s) : s[i] = h[1 + i - 1]
  <2>1. 1 \in Int /\ n \in Int /\ \A i \in 1..n : h[i] \in V
    BY <1>1, <1>2 DEF n
  <2> QED
    BY <2>1, SubSeqProperties
<1> HIDE DEF s
<1>4. Len(s) = n
  BY <1>1, <1>3
<1>5. \A i \in 1..n : s[i] = g[i]
  BY <1>1, <1>3, <1>4 DEF n
<1>6. s = g
  BY <1>3, <1>4, <1>5, SeqEqual DEF n
<1>7. n < Len(h)
  BY <1>1 DEF n
<1> QED
  BY <1>6, <1>7 DEF Chat!Extends, s, n

\* A commit that is learned.
LEMMA LearnStep ==
  ASSUME NEW U, Within(U), Bounded, [Next]_vars, Speech', Serving', ~Ask,
         HistorySound, Serving => Asked, Commits
  PROVE  Chat!Learn
<1>1. Serving /\ Asked /\ turn'.incoming = turn.incoming /\ history' = history
  <2>1. Serving /\ FixedFields
    BY TurnFixed
  <2>2. ~Tell
    BY DEF Tell, TurnOver, Serving, Idle
  <2> QED
    BY <2>1, <2>2, HistorySteps DEF FixedFields
<1> DEFINE r == turn'.recorder
           h == Told(r)
           n == Len(history)
<1>2. PICK path : \E next \in {"unlink", "reply"} : Commit(path, r, next) /\ turn'.pc = next
  BY Zenon DEF Commits
<1>3. r \in Recorders
  BY DEF Speech, Standing
<1>4. /\ h \in Seq(Spoken) /\ Len(h) = n + 2 /\ h[n + 2].role = "assistant"
      /\ \A i \in 1..n : h[i] = history[i]
  BY <1>1, <1>3, ToldSpoken
<1>5. history \in Seq(Spoken) /\ n \in Nat
  BY LenProperties DEF HistorySound
<1>6. Pending' = {h}
  BY <1>1, <1>2 DEF Pending, Told
<1>7. StoredHistories' \subseteq StoredHistories \union {h}
  <2>1. ASSUME NEW i \in DOMAIN store'
        PROVE  store'[i].messages \in StoredHistories \union {h}
    <3>1. CASE i = turn'.conv /\ turn'.conv # NoConv
      <4>1. Filled(store'[turn'.conv], h, turn.session, r.parent, turn'.stamp)
        BY <1>1, <1>2, <3>1, CommitRows
      <4> QED
        BY <3>1, <4>1 DEF Filled
    <3>2. CASE i # turn'.conv
      <4>1. PICK j \in DOMAIN store : store'[i] = store[j]
        BY <1>1, <1>2, <2>1, <3>2, CommitRows
      <4> QED
        BY <4>1 DEF StoredHistories
    <3>3. i # NoConv
      <4>1. \E W : store' \in Seq(Rows(W))
        <5>1. Typed /\ Bounded
          BY DEF Typed
        <5>2. \E W : Within(W)'
          BY <5>1, TypedStep DEF Typed
        <5> QED
          BY <5>2 DEF Within
      <4> QED
        BY <2>1, <4>1, LenProperties DEF NoConv
    <3> QED
      BY <3>1, <3>2, <3>3
  <2> HIDE DEF h
  <2> QED
    BY <2>1 DEF StoredHistories
<1> HIDE DEF h, r
<1>8. h \in Known' /\ Known' \subseteq Known \union {h}
  BY <1>6, <1>7, KnownParts
<1>9. Chat!Extends(h, history)
  BY <1>4, <1>5, ExtendsHistory
<1>10. Len(h) = Len(history) + 2 /\ h[Len(h)].role = "assistant"
  BY <1>4
<1> QED
  BY <1>1, <1>8, <1>9, <1>10, Zenon DEF Chat!Learn

\* The answer that is told.
LEMMA TellStep ==
  ASSUME NEW U, Within(U), Speech, HistorySound, Serving => Asked, Tell
  PROVE  Chat!Tell
<1> DEFINE r == turn.recorder
           h == Told(r)
           n == Len(history)
<1>1. history' = h /\ r \in Recorders /\ Serving /\ turn.pc = "reply" /\ UNCHANGED store
  BY ToldAnswer DEF Tell
<1>2. /\ h \in Seq(Spoken) /\ Len(h) = n + 2
      /\ \A i \in 1..n : h[i] = history[i]
  BY <1>1, ToldSpoken
<1>3. history \in Seq(Spoken) /\ n \in Nat
  BY LenProperties DEF HistorySound
<1>4. h \in Pending
  BY <1>1 DEF Pending
<1>5. Pending' = {}
  BY DEF Tell, TurnOver, Idle, Pending
<1>6. StoredHistories' = StoredHistories
  BY <1>1 DEF StoredHistories
<1> HIDE DEF h, r
<1>7. h \in Known /\ Known' \subseteq Known
  BY <1>4, <1>5, <1>6, KnownParts
<1>8. Chat!Extends(h, history)
  BY <1>2, <1>3, ExtendsHistory
<1> QED
  BY <1>1, <1>7, <1>8, Zenon DEF Chat!Tell

\* Any other step forgets at most.
LEMMA ForgetStep ==
  ASSUME NEW U, Within(U), [Next]_vars, ~Tell, ~(Serving' /\ ~Ask /\ Commits)
  PROVE  Chat!Forget
<1>1. history' = history
  BY HistorySteps
<1>2. CASE Serving' /\ ~Ask
  <2>1. Serving /\ (Remains \/ Opens) /\ turn'.incoming = turn.incoming
    BY <1>2, PlaceSteps, TurnFixed DEF FixedFields
  <2>2. StoredHistories' \subseteq StoredHistories
    BY <2>1, StoreForgets DEF Remains, Opens
  <2>3. Pending' \subseteq Pending
    BY <2>1 DEF Remains, Opens, Pending, Told
  <2> QED
    BY <1>1, <2>2, <2>3, KnownParts DEF Chat!Forget
<1>3. CASE Ask
  <2>1. UNCHANGED store
    BY <1>3 DEF Ask
  <2>2. StoredHistories' = StoredHistories
    BY <2>1 DEF StoredHistories
  <2>3. PICK mode, canonical : turn' = NewTurn(mode, canonical)
    BY <1>3, Zenon DEF Ask
  <2>4. BeginsAs(turn', mode, canonical)
    BY <2>3, NewTurnFields
  <2>5. Pending' = {}
    BY <2>4 DEF BeginsAs, Pending
  <2> QED
    BY <1>1, <2>2, <2>5, KnownParts DEF Chat!Forget
<1>4. CASE ~Serving'
  <2>1. Pending' = {}
    BY <1>4 DEF Serving, Pending
  <2>2. UNCHANGED store \/ EmptyStore \/ Invalidate(turn.conv)
    <3>1. ASSUME Serving, NEW path, NEW recorder, NEW next \in {"unlink", "reply"},
                 Commit(path, recorder, next)
          PROVE  FALSE
      <4>1. turn'.pc = next
        BY <3>1, ServingTurn, CommittedTurn
      <4> QED
        BY <1>4, <3>1, <4>1 DEF Serving
    <3> QED
      BY <3>1, StoreSteps
  <2>3. StoredHistories' \subseteq StoredHistories
    BY <2>2, StoreForgets
  <2> QED
    BY <1>1, <2>1, <2>3, KnownParts DEF Chat!Forget
<1> QED
  BY <1>2, <1>3, <1>4

\* The gateway keeps its promise to the client: an answer is told only when it
\* has been committed, as the client's history and one turn more, and nothing
\* but a commit adds to what is known (server.py 1142-1159, conversation.py
\* 353-395).
THEOREM DialogueImplementsChat == Spec => ImplementsChat
<1>1. Init => Chat!Init
  <2> SUFFICES ASSUME Init PROVE Chat!Init
    OBVIOUS
  <2>1. history = <<>> /\ DOMAIN store = {} /\ turn.pc = "idle"
    BY EmptySeq DEF Init, InitStore, Idle
  <2>2. StoredHistories = {} /\ Pending = {}
    BY <2>1 DEF StoredHistories, Pending
  <2> QED
    BY <2>1, <2>2, KnownParts DEF Chat!Init
<1>2. DialogueInvariant /\ DialogueInvariant' /\ [Next]_vars => [Chat!Next]_<<history, Known>>
  <2> SUFFICES ASSUME DialogueInvariant, DialogueInvariant', [Next]_vars
               PROVE  Chat!Learn \/ Chat!Tell \/ Chat!Forget
    BY Zenon DEF Chat!Next
  <2>1. PICK U : Within(U)
    BY DEF DialogueInvariant, Typed
  <2>2. Bounded /\ Speech /\ Speech' /\ HistorySound /\ (Serving => Asked)
    BY DEF DialogueInvariant, Kept
  <2>3. CASE Tell
    BY <2>1, <2>2, <2>3, TellStep
  <2>4. CASE Serving' /\ ~Ask /\ Commits
    BY <2>1, <2>2, <2>4, LearnStep
  <2>5. CASE ~Tell /\ ~(Serving' /\ ~Ask /\ Commits)
    BY <2>1, <2>5, ForgetStep
  <2> QED
    BY <2>3, <2>4, <2>5
<1> QED
  BY <1>1, <1>2, Invariant, PTL DEF Spec, ImplementsChat, Chat!Spec

\* A last part of a history, and never an empty one.
LEMMA PartSent ==
  ASSUME HistorySound, Asked
  PROVE  /\ turn.incoming \in Seq(Spoken) /\ turn.incoming # <<>>
         /\ turn.sent \in Seq(Spoken) /\ turn.sent # <<>>
<1> DEFINE n == Len(history)
           incoming == turn.incoming
<1>1. history \in Seq(Spoken) /\ n \in Nat
  BY LenProperties DEF HistorySound
<1>2. incoming \in Seq(Spoken) /\ Len(incoming) = n + 1
  BY <1>1, AppendProperties DEF Asked
<1>3. PICK k \in 0..n : turn.sent = Delta(incoming, k)
  BY DEF Asked
<1> HIDE DEF n, incoming
<1> DEFINE m == n + 1
           a == k + 1
           s == SubSeq(incoming, a, m)
<1>4. a \in Int /\ m \in Int /\ a <= m /\ m \in Nat
  BY <1>1, <1>3
<1>5. s \in Seq(Spoken) /\ Len(s) = m - a + 1
  <2>1. \A i \in a..m : incoming[i] \in Spoken
    <3>1. \A i \in 1..m : incoming[i] \in Spoken
      BY <1>2, ElementOfSeq
    <3> QED
      BY <1>1, <1>3, <3>1
  <2>2. s \in Seq(Spoken) /\ Len(s) = (IF a <= m THEN m - a + 1 ELSE 0)
    <3> HIDE DEF a, m
    <3> QED
      BY <1>2, <1>4, <2>1, SubSeqProperties
  <2> HIDE DEF a, m, s
  <2> QED
    BY <1>4, <2>2
<1>6. turn.sent = s
  BY <1>2, <1>3 DEF Delta
<1> HIDE DEF s
<1>7. Len(s) # 0 /\ Len(incoming) # 0
  BY <1>1, <1>2, <1>4, <1>5
<1>8. s # <<>> /\ incoming # <<>>
  BY <1>7, EmptySeq
<1> QED
  BY <1>2, <1>5, <1>6, <1>8 DEF incoming

\* A history can be compiled.
LEMMA SpokenCompilable ==
  ASSUME NEW s \in Seq(Spoken), s # <<>>
  PROVE  Compilable(s)
<1>1. \A i \in DOMAIN s : s[i] \in Spoken
  BY LenProperties, ElementOfSeq
<1>2. ASSUME NEW i \in DOMAIN s
      PROVE  /\ s[i].role \in Roles
             /\ s[i].role = "tool" => s[i].id # Null
             /\ s[i].role # "tool" /\ s[i].calls = <<>> => s[i].content # Null
  BY <1>1, <1>2, SpokenFields
<1> QED
  BY <1>2 DEF Compilable

\* What is left of a message without its calls.
Bare == [role : TextRoles, content : Seq(Pieces), calls : {<<>>}, id : {Null}, name : {Null}]

\* What is kept of a history has neither call nor result.
LEMMA KeptWords ==
  ASSUME NEW kept \in Seq(Bare), NEW m \in Spoken
  PROVE  KeepWords(kept, m) \in Seq(Bare)
<1>1. CASE m.role = "tool" \/ (m.calls # <<>> /\ m.content \in {Null, <<>>})
  BY <1>1, Zenon DEF KeepWords
<1>2. CASE ~(m.role = "tool" \/ (m.calls # <<>> /\ m.content \in {Null, <<>>}))
  <2> DEFINE bare == [m EXCEPT !.calls = <<>>]
  <2>1. /\ m.role \in Roles /\ m.content \in Seq(Pieces) \union {Null}
        /\ m.id \in CallIds \union {Null} /\ m.name = Null
        /\ m = [role |-> m.role, content |-> m.content, calls |-> m.calls,
                id |-> m.id, name |-> Null]
        /\ m.role # "tool" => m.id = Null
        /\ m.content = Null => m.calls # <<>>
    BY SpokenFields
  <2>2. m.content \in Seq(Pieces) /\ m.id = Null /\ m.role \in TextRoles
    BY <1>2, <2>1 DEF Roles, TextRoles
  <2>3. bare = [role |-> m.role, content |-> m.content, calls |-> <<>>,
                id |-> m.id, name |-> Null]
    BY <2>1
  <2>4. bare \in Bare
    BY <2>2, <2>3 DEF Bare
  <2>5. KeepWords(kept, m) = Append(kept, bare)
    BY <1>2, Zenon DEF KeepWords
  <2> HIDE DEF bare
  <2>6. Append(kept, bare) \in Seq(Bare)
    BY <2>4, AppendProperties
  <2> QED
    BY <2>5, <2>6
<1> QED
  BY <1>1, <1>2

\* The history of a bare prompt.
LEMMA StrippedBare ==
  ASSUME NEW s \in Seq(Spoken)
  PROVE  StripToolHistory(s) \in Seq(Bare)
<1>1. <<>> \in Seq(Bare) /\ \A v \in Seq(Bare) : \A m \in Spoken : KeepWords(v, m) \in Seq(Bare)
  BY KeptWords, EmptySeq
<1>2. PICK at : /\ StripToolHistory(s) = at[Len(s)]
                /\ \A k \in 0..Len(s) : at[k] \in Seq(Bare)
  BY <1>1, Stripped
<1>3. Len(s) \in 0..Len(s)
  BY LenProperties
<1> QED
  BY <1>2, <1>3

\* Bare messages can be compiled.
LEMMA BareIsCompilable ==
  ASSUME NEW s \in Seq(Bare), s # <<>>
  PROVE  Compilable(s)
<1>1. \A i \in DOMAIN s : s[i] \in Bare
  BY LenProperties, ElementOfSeq
<1>2. \A m \in Bare : m.role \in TextRoles /\ m.content \in Seq(Pieces)
  BY DEF Bare
<1>3. \A m \in Bare : m.role \in Roles /\ m.role # "tool" /\ m.content # Null
  BY <1>2, NullApart DEF Roles, TextRoles
<1> QED
  BY <1>1, <1>3 DEF Compilable

\* Whatever was accepted can be compiled, as a whole, in the part that is sent,
\* and in what is left of it for a bare prompt (prompt_compiler.py
\* compile_canonical_to_prompt).
THEOREM AcceptedIsCompilable == Spec => []CompileTotal
<1>1. DialogueInvariant => CompileTotal
  <2> SUFFICES ASSUME DialogueInvariant, Serving
               PROVE  /\ Compilable(turn.incoming) /\ Compilable(turn.sent)
                      /\ StripToolHistory(turn.sent) # <<>> =>
                           Compilable(StripToolHistory(turn.sent))
    BY DEF CompileTotal, SentCompilable, BareCompilable
  <2>1. HistorySound /\ Asked
    BY DEF DialogueInvariant, Kept
  <2> QED
    BY <2>1, PartSent, SpokenCompilable, StrippedBare, BareIsCompilable
<1> QED
  BY <1>1, Invariant, PTL

(***************************************************************************)
(* What upstream has been told.                                            *)
(***************************************************************************)

\* What each element of a sequence stands for, one after another.
Spread(f, s) == FlattenSeq([i \in DOMAIN s |-> f[s[i]]])

\* Parts that are put together are flattened together.
LEMMA FlattenJoined ==
  ASSUME NEW V, NEW s \in Seq(Seq(V)), NEW t \in Seq(Seq(V))
  PROVE  FlattenSeq(s \o t) = FlattenSeq(s) \o FlattenSeq(t)
<1> DEFINE u == s \o t
           m == Len(s)
           n == Len(t)
<1>1. u \in Seq(Seq(V)) /\ Follows(u, s, t)
  BY Joined
<1>2. m \in Nat /\ n \in Nat
  BY LenProperties
<1> HIDE DEF u, m, n
<1>3. /\ Len(u) = m + n
      /\ \A i \in 1..m : u[i] = s[i]
      /\ \A j \in 1..n : u[m + j] = t[j]
  BY <1>1 DEF Follows, m, n
<1>4. PICK at \in [0..Len(u) -> Seq(V)] :
        /\ at[0] = <<>> /\ FlattenSeq(u) = at[Len(u)]
        /\ \A k \in 1..Len(u) : at[k] = at[k - 1] \o u[k]
  BY <1>1, Flattened
<1>5. PICK bt \in [0..m -> Seq(V)] :
        /\ bt[0] = <<>> /\ FlattenSeq(s) = bt[m]
        /\ \A k \in 1..m : bt[k] = bt[k - 1] \o s[k]
  BY Flattened DEF m
<1>6. PICK ct \in [0..n -> Seq(V)] :
        /\ ct[0] = <<>> /\ FlattenSeq(t) = ct[n]
        /\ \A k \in 1..n : ct[k] = ct[k - 1] \o t[k]
  BY Flattened DEF n
<1>7. \A k \in 0..m : at[k] = bt[k]
  <2> DEFINE P == {k \in 0..m : at[k] = bt[k]}
  <2>1. 0 \in P
    BY <1>2, <1>4, <1>5
  <2>2. ASSUME NEW k \in 1..m, k - 1 \in P PROVE k \in P
    <3>1. k \in 1..Len(u) /\ k \in 0..m
      BY <1>2, <1>3
    <3>2. at[k] = at[k - 1] \o u[k] /\ bt[k] = bt[k - 1] \o s[k] /\ u[k] = s[k]
      BY <1>3, <1>4, <1>5, <3>1
    <3>3. at[k - 1] = bt[k - 1]
      BY <2>2
    <3>4. at[k] = bt[k]
      BY <3>2, <3>3
    <3> QED
      BY <3>1, <3>4
  <2> HIDE DEF P
  <2>3. \A k \in 0..m : k \in P
    BY <1>2, <2>1, <2>2, Inducted
  <2> QED
    BY <2>3 DEF P
<1>8. \A j \in 0..n : at[m + j] = bt[m] \o ct[j]
  <2> DEFINE P == {j \in 0..n : at[m + j] = bt[m] \o ct[j]}
  <2>0. bt[m] \in Seq(V) /\ m \in 0..m
    BY <1>2, <1>5
  <2>1. 0 \in P
    <3>1. bt[m] \o <<>> = bt[m]
      BY <2>0, ConcatEmptySeq
    <3>2. m + 0 = m /\ 0 \in 0..n
      BY <1>2
    <3> QED
      BY <1>6, <1>7, <2>0, <3>1, <3>2
  <2>2. ASSUME NEW j \in 1..n, j - 1 \in P PROVE j \in P
    <3>1. m + j \in 1..Len(u) /\ (m + j) - 1 = m + (j - 1) /\ j - 1 \in 0..n /\ j \in 0..n
      BY <1>2, <1>3
    <3>2. at[m + j] = at[m + (j - 1)] \o t[j]
      BY <1>3, <1>4, <3>1
    <3>3. ct[j - 1] \in Seq(V) /\ t[j] \in Seq(V)
      BY <1>6, <3>1, ElementOfSeq DEF n
    <3>4. (bt[m] \o ct[j - 1]) \o t[j] = bt[m] \o (ct[j - 1] \o t[j])
      <4> DEFINE x == bt[m]
                 y == ct[j - 1]
                 z == t[j]
      <4>1. x \in Seq(V) /\ y \in Seq(V) /\ z \in Seq(V)
        BY <2>0, <3>3
      <4> HIDE DEF x, y, z
      <4>2. (x \o y) \o z = x \o (y \o z)
        BY <4>1, ConcatAssociative, SMTT(30)
      <4> QED
        BY <4>2 DEF x, y, z
    <3>5. at[m + (j - 1)] = bt[m] \o ct[j - 1]
      BY <2>2
    <3>6. at[m + j] = bt[m] \o ct[j]
      BY <1>6, <3>2, <3>4, <3>5
    <3> QED
      BY <3>1, <3>6
  <2> HIDE DEF P
  <2>3. \A j \in 0..n : j \in P
    BY <1>2, <2>1, <2>2, Inducted
  <2> QED
    BY <2>3 DEF P
<1>9. at[m + n] = bt[m] \o ct[n]
  BY <1>2, <1>8
<1> QED
  BY <1>3, <1>4, <1>5, <1>6, <1>9 DEF u

\* What a sequence stands for is what its parts stand for.
LEMMA SpreadJoined ==
  ASSUME NEW M, NEW V, NEW f \in [M -> Seq(V)], NEW s \in Seq(M), NEW t \in Seq(M)
  PROVE  Spread(f, s \o t) = Spread(f, s) \o Spread(f, t)
<1> DEFINE a == [i \in DOMAIN s |-> f[s[i]]]
           b == [i \in DOMAIN t |-> f[t[i]]]
           u == s \o t
           c == [i \in DOMAIN u |-> f[u[i]]]
<1>1. u \in Seq(M) /\ Follows(u, s, t)
  BY Joined
<1>2. \A w \in Seq(M) :
        LET d == [i \in DOMAIN w |-> f[w[i]]]
        IN  d \in Seq(Seq(V)) /\ Len(d) = Len(w) /\ \A i \in 1..Len(w) : d[i] = f[w[i]]
  <2> TAKE w \in Seq(M)
  <2> DEFINE d == [i \in DOMAIN w |-> f[w[i]]]
  <2>1. DOMAIN w = 1..Len(w) /\ Len(w) \in Nat /\ \A i \in 1..Len(w) : w[i] \in M
    BY LenProperties, ElementOfSeq
  <2>2. d \in [1..Len(w) -> Seq(V)] /\ \A i \in 1..Len(w) : d[i] = f[w[i]]
    BY <2>1
  <2> HIDE DEF d
  <2>3. d \in Seq(Seq(V))
    <3> DEFINE n == Len(w)
               S == Seq(V)
    <3>1. n \in Nat /\ d \in [1..n -> S]
      BY <2>1, <2>2
    <3> HIDE DEF n, S
    <3>2. d \in Seq(S)
      BY <3>1, SeqDef
    <3> QED
      BY <3>2 DEF S
  <2>4. DOMAIN d = 1..Len(d) /\ Len(d) \in Nat
    BY <2>3, LenProperties
  <2>5. DOMAIN d = 1..Len(w)
    BY <2>2
  <2>6. Len(d) = Len(w)
    BY <2>1, <2>4, <2>5, SamePlaces
  <2>7. d \in Seq(Seq(V)) /\ Len(d) = Len(w) /\ \A i \in 1..Len(w) : d[i] = f[w[i]]
    BY <2>2, <2>3, <2>6
  <2> QED
    BY <2>7 DEF d
<1> HIDE DEF u
<1>3. /\ a \in Seq(Seq(V)) /\ Len(a) = Len(s) /\ \A i \in 1..Len(s) : a[i] = f[s[i]]
      /\ b \in Seq(Seq(V)) /\ Len(b) = Len(t) /\ \A i \in 1..Len(t) : b[i] = f[t[i]]
      /\ c \in Seq(Seq(V)) /\ Len(c) = Len(u) /\ \A i \in 1..Len(u) : c[i] = f[u[i]]
  BY <1>1, <1>2
<1> HIDE DEF a, b, c
<1>4. c = a \o b
  <2> DEFINE e == a \o b
  <2>1. e \in Seq(Seq(V)) /\ Follows(e, a, b)
    BY <1>3, Joined
  <2> HIDE DEF e
  <2>2. Len(s) \in Nat /\ Len(t) \in Nat
    BY LenProperties
  <2>3. Len(e) = Len(s) + Len(t) /\ Len(c) = Len(e)
    BY <1>1, <1>3, <2>1 DEF Follows
  <2>4. ASSUME NEW i \in 1..Len(c) PROVE c[i] = e[i]
    <3>1. CASE i \in 1..Len(s)
      BY <1>1, <1>3, <2>1, <2>3, <2>4, <3>1 DEF Follows
    <3>2. CASE i \notin 1..Len(s)
      <4>1. i - Len(s) \in 1..Len(t) /\ i = Len(s) + (i - Len(s))
        BY <2>2, <2>3, <2>4, <3>2
      <4> DEFINE j == i - Len(s)
      <4>2. c[i] = f[u[i]] /\ u[Len(s) + j] = t[j] /\ e[Len(s) + j] = b[j] /\ b[j] = f[t[j]]
        BY <1>1, <1>3, <2>1, <2>3, <2>4, <4>1 DEF Follows
      <4> QED
        BY <4>1, <4>2
    <3> QED
      BY <3>1, <3>2
  <2>5. c = e
    BY <1>3, <2>1, <2>3, <2>4, SeqEqual
  <2> QED
    BY <2>5 DEF e
<1>5. FlattenSeq(a \o b) = FlattenSeq(a) \o FlattenSeq(b)
  BY <1>3, FlattenJoined
<1>6. FlattenSeq(c) = FlattenSeq(a) \o FlattenSeq(b)
  BY <1>4, <1>5
<1>7. Spread(f, s) = FlattenSeq(a) /\ Spread(f, t) = FlattenSeq(b) /\ Spread(f, u) = FlattenSeq(c)
  BY DEF Spread, a, b, c
<1> QED
  BY <1>6, <1>7 DEF u

\* What one element stands for, and what none does.
LEMMA SpreadFew ==
  ASSUME NEW M, NEW V, NEW f \in [M -> Seq(V)]
  PROVE  /\ Spread(f, <<>>) = <<>>
         /\ \A e \in M : Spread(f, <<e>>) = f[e]
         /\ \A s \in Seq(M) : Spread(f, s) \in Seq(V)
<1>1. Spread(f, <<>>) = <<>>
  <2>1. [i \in DOMAIN <<>> |-> f[<<>>[i]]] = <<>>
    OBVIOUS
  <2>2. FlattenSeq(<<>>) = <<>>
    BY EmptySeq, FlattenedFew
  <2> QED
    BY <2>1, <2>2 DEF Spread
<1>2. ASSUME NEW e \in M PROVE Spread(f, <<e>>) = f[e]
  <2>1. [i \in DOMAIN <<e>> |-> f[<<e>>[i]]] = <<f[e]>>
    OBVIOUS
  <2>2. FlattenSeq(<<f[e]>>) = f[e]
    BY EmptySeq, FlattenedFew
  <2> QED
    BY <2>1, <2>2 DEF Spread
<1>3. ASSUME NEW s \in Seq(M) PROVE Spread(f, s) \in Seq(V)
  <2> DEFINE d == [i \in DOMAIN s |-> f[s[i]]]
  <2>1. DOMAIN s = 1..Len(s) /\ Len(s) \in Nat /\ \A i \in 1..Len(s) : s[i] \in M
    BY LenProperties, ElementOfSeq
  <2>2. d \in [1..Len(s) -> Seq(V)]
    BY <2>1
  <2> HIDE DEF d
  <2>3. d \in Seq(Seq(V))
    <3> DEFINE n == Len(s)
               S == Seq(V)
    <3>1. n \in Nat /\ d \in [1..n -> S]
      BY <2>1, <2>2
    <3> HIDE DEF n, S
    <3>2. d \in Seq(S)
      BY <3>1, SeqDef
    <3> QED
      BY <3>2 DEF S
  <2>4. FlattenSeq(d) \in Seq(V)
    BY <2>3, FlattenedElements
  <2> QED
    BY <2>4 DEF Spread, d
<1> QED
  BY <1>1, <1>2, <1>3

-----------------------------------------------------------------------------
(* The calls of a history, and the results that answer them.               *)

\* The calls each message makes.
CallsMade == [m \in Spoken |-> m.calls]

\* The calls of a history are those of its messages, one after another.
LEMMA CallsSpread ==
  /\ CallsMade \in [Spoken -> Seq(CallRecords)]
  /\ \A s \in Seq(Spoken) : CallsIn(s) = Spread(CallsMade, s) /\ CallsIn(s) \in Seq(CallRecords)
<1>1. CallsMade \in [Spoken -> Seq(CallRecords)] /\ \A m \in Spoken : CallsMade[m] = m.calls
  BY SpokenFields DEF CallsMade
<1>2. ASSUME NEW s \in Seq(Spoken) PROVE CallsIn(s) = Spread(CallsMade, s)
  <2>1. \A i \in DOMAIN s : CallsMade[s[i]] = s[i].calls
    BY <1>1, LenProperties, ElementOfSeq
  <2>2. [i \in DOMAIN s |-> CallsMade[s[i]]] = [i \in DOMAIN s |-> s[i].calls]
    BY <2>1
  <2> QED
    BY <2>2, Zenon DEF CallsIn, Spread
<1>3. \A s \in Seq(Spoken) : Spread(CallsMade, s) \in Seq(CallRecords)
  BY <1>1, SpreadFew
<1> QED
  BY <1>1, <1>2, <1>3

\* The calls of two parts are those of the first and those of the second.
LEMMA CallsJoined ==
  ASSUME NEW s \in Seq(Spoken), NEW t \in Seq(Spoken)
  PROVE  CallsIn(s \o t) = CallsIn(s) \o CallsIn(t)
<1>1. CallsMade \in [Spoken -> Seq(CallRecords)]
  BY CallsSpread
<1>2. Spread(CallsMade, s \o t) = Spread(CallsMade, s) \o Spread(CallsMade, t)
  BY <1>1, SpreadJoined
<1>3. s \o t \in Seq(Spoken)
  BY ConcatProperties
<1>4. /\ CallsIn(s) = Spread(CallsMade, s) /\ CallsIn(t) = Spread(CallsMade, t)
      /\ CallsIn(s \o t) = Spread(CallsMade, s \o t)
  BY <1>3, CallsSpread
<1> QED
  BY <1>2, <1>4

\* A history is its first part and the rest.
LEMMA Divided ==
  ASSUME NEW V, NEW s \in Seq(V), NEW k \in 0..Len(s)
  PROVE  /\ Upto(s, k) \in Seq(V) /\ Delta(s, k) \in Seq(V)
         /\ s = Upto(s, k) \o Delta(s, k)
         /\ Len(Delta(s, k)) = Len(s) - k
         /\ \A i \in 1..(Len(s) - k) : Delta(s, k)[i] = s[k + i]
<1> DEFINE n == Len(s)
           a == Upto(s, k)
           b == Delta(s, k)
<1>1. n \in Nat /\ k \in Nat /\ \A i \in 1..n : s[i] \in V
  BY LenProperties, ElementOfSeq
<1>2. a \in Seq(V) /\ Len(a) = k /\ \A i \in 1..k : a[i] = s[i]
  BY <1>1 DEF Upto
<1>3. b \in Seq(V) /\ Len(b) = n - k /\ \A i \in 1..(n - k) : b[i] = s[k + i]
  BY <1>1 DEF Delta
<1> HIDE DEF a, b, n
<1>4. s = a \o b
  <2> DEFINE u == a \o b
  <2>1. u \in Seq(V) /\ Follows(u, a, b)
    BY <1>2, <1>3, Joined
  <2> HIDE DEF u
  <2>2. Len(u) = n
    BY <1>1, <1>2, <1>3, <2>1 DEF Follows, n
  <2>3. ASSUME NEW i \in 1..n PROVE u[i] = s[i]
    <3>1. CASE i <= k
      BY <1>1, <1>2, <2>1, <2>3, <3>1 DEF Follows
    <3>2. CASE i > k
      <4> DEFINE j == i - k
      <4>1. j \in 1..(n - k) /\ i = k + j
        BY <1>1, <2>3, <3>2
      <4> HIDE DEF j
      <4>2. u[k + j] = b[j] /\ b[j] = s[k + j]
        BY <1>2, <1>3, <2>1, <4>1 DEF Follows
      <4> QED
        BY <4>1, <4>2
    <3> QED
      BY <1>1, <2>3, <3>1, <3>2
  <2>4. u = s
    BY <2>1, <2>2, <2>3, SeqEqual DEF n
  <2> QED
    BY <2>4 DEF u
<1> QED
  BY <1>2, <1>3, <1>4 DEF a, b, n

\* What was called in a first part was called.
LEMMA CalledBefore ==
  ASSUME NEW s \in Seq(Spoken), NEW k \in 0..Len(s)
  PROVE  CallIdsIn(Upto(s, k)) \subseteq CallIdsIn(s)
<1> DEFINE a == Upto(s, k)
           b == Delta(s, k)
<1>1. a \in Seq(Spoken) /\ b \in Seq(Spoken) /\ s = a \o b
  BY Divided
<1> HIDE DEF a, b
<1>2. CallsIn(a \o b) = CallsIn(a) \o CallsIn(b)
  BY <1>1, CallsJoined
<1> DEFINE c == CallsIn(a)
           d == CallsIn(b)
           e == CallsIn(s)
<1>3. e = c \o d /\ c \in Seq(CallRecords) /\ d \in Seq(CallRecords)
  BY <1>1, <1>2, CallsSpread
<1>4. CallIdsIn(a) = {call.id : call \in ToSet(c)} /\ CallIdsIn(s) = {call.id : call \in ToSet(e)}
  BY DEF CallIdsIn
<1> HIDE DEF c, d, e
<1>5. e \in Seq(CallRecords) /\ Follows(e, c, d)
  BY <1>3, Joined
<1>6. ToSet(c) \subseteq ToSet(e)
  <2>1. /\ DOMAIN c = 1..Len(c) /\ DOMAIN e = 1..Len(e)
        /\ Len(c) \in Nat /\ Len(d) \in Nat /\ Len(e) = Len(c) + Len(d)
    BY <1>3, <1>5, LenProperties DEF Follows
  <2>2. \A i \in DOMAIN c : i \in DOMAIN e /\ e[i] = c[i]
    BY <1>5, <2>1 DEF Follows
  <2> QED
    BY <2>2 DEF ToSet
<1> QED
  BY <1>4, <1>6 DEF a

\* Every result answers an earlier call.
Answered(messages) ==
  \A i \in DOMAIN messages :
    messages[i].role = "tool" => messages[i].id \in CallIdsIn(Upto(messages, i - 1))

\* A message more, that answers a call if it is a result.
LEMMA AnsweredMore ==
  ASSUME NEW s \in Seq(Spoken), NEW m \in Spoken, Answered(s),
         m.role = "tool" => m.id \in CallIdsIn(s)
  PROVE  Answered(Append(s, m))
<1> DEFINE t == Append(s, m)
           n == Len(s)
<1>1. n \in Nat /\ DOMAIN s = 1..n
  BY LenProperties
<1>2. t \in Seq(Spoken) /\ Len(t) = n + 1 /\ t[n + 1] = m /\ \A i \in 1..n : t[i] = s[i]
  BY AppendProperties
<1>3. DOMAIN t = 1..(n + 1)
  BY <1>1, <1>2, LenProperties
<1>4. \A i \in 1..(n + 1) : Upto(t, i - 1) = Upto(s, i - 1)
  <2> TAKE i \in 1..(n + 1)
  <2> HIDE DEF t, n
  <2> DEFINE j == i - 1
             a == SubSeq(t, 1, j)
             b == SubSeq(s, 1, j)
  <2>1. j \in 0..n /\ \A k \in 1..j : k \in 1..n /\ t[k] = s[k]
    BY <1>1, <1>2
  <2>2. \A k \in 1..n : s[k] \in Spoken
    BY ElementOfSeq DEF n
  <2> HIDE DEF j
  <2>3. a \in Seq(Spoken) /\ Len(a) = j /\ \A k \in 1..j : a[k] = t[k]
    BY <1>1, <1>2, <2>1, <2>2
  <2>4. b \in Seq(Spoken) /\ Len(b) = j /\ \A k \in 1..j : b[k] = s[k]
    BY <1>1, <2>1, <2>2 DEF n
  <2> HIDE DEF a, b
  <2>5. a = b
    BY <2>1, <2>3, <2>4, SeqEqual
  <2> QED
    BY <2>5 DEF Upto, a, b, j
<1>5. Upto(s, n) = s
  BY FirstParts
<1> HIDE DEF t, n
<1>6. ASSUME NEW i \in DOMAIN t, t[i].role = "tool" PROVE t[i].id \in CallIdsIn(Upto(t, i - 1))
  <2>1. CASE i = n + 1
    <3>1. (n + 1) - 1 = n
      BY <1>1
    <3> QED
      BY <1>2, <1>3, <1>4, <1>5, <1>6, <2>1, <3>1
  <2>2. CASE i # n + 1
    <3>1. i \in 1..n
      BY <1>1, <1>3, <1>6, <2>2
    <3> QED
      BY <1>1, <1>2, <1>3, <1>4, <1>6, <3>1 DEF Answered
  <2> QED
    BY <2>1, <2>2
<1> QED
  BY <1>6 DEF Answered, t

\* What the client asks next answers what the model called.
LEMMA AnswersCall ==
  ASSUME NEW told \in Seq(Spoken), NEW message \in NewMessages(told), Acceptable(message),
         Canonical(message).role = "tool"
  PROVE  Canonical(message).id \in CallIdsIn(told)
<1>1. CASE message \in Questions
  <2>1. PICK w \in Words : message = CanonicalMessage("user", WireText(<<w>>), <<>>)
    BY <1>1 DEF Questions
  <2>2. message.role = "user" /\ message.calls = <<>>
    BY <2>1 DEF CanonicalMessage
  <2>3. \E text, calls : Canonical(message) = CanonicalMessage("user", text, calls)
    BY <2>2, Zenon DEF Canonical
  <2>4. Canonical(message).role = "user"
    BY <2>3 DEF CanonicalMessage
  <2> QED
    BY <2>4
<1>2. CASE message \in Results(told)
  <2>1. PICK id \in Unanswered(told), w \in Words :
          message = ToolResult(id, Null, WireText(<<w>>))
    BY <1>2 DEF Results
  <2>2. message.role = "tool" /\ message.id = id
    BY <2>1 DEF ToolResult
  <2>3. \E name, text : Canonical(message) = ToolResult(id, name, text)
    BY <2>2, Zenon DEF Canonical
  <2>4. Canonical(message).id = id
    BY <2>3 DEF ToolResult
  <2> QED
    BY <2>4 DEF Unanswered
<1>3. message \notin Oddities
  <2>1. ~Acceptable(CanonicalMessage("assistant", WireNull, <<>>))
    BY DEF Acceptable, CanonicalMessage, WireNull
  <2>2. ~Acceptable(ToolResult(Null, Tool, WireText(<<>>)))
    BY DEF Acceptable, ToolResult
  <2> QED
    BY <2>1, <2>2 DEF Oddities
<1> QED
  BY <1>1, <1>2, <1>3 DEF NewMessages

-----------------------------------------------------------------------------
(* The prompt of a history, message by message.                            *)

\* The least of some places is one of them.
LEMMA LeastPlace ==
  ASSUME NEW n \in Nat, NEW d \in SUBSET (1..n), d # {}
  PROVE  Min(d) \in d
<1>1. d \subseteq Nat
  OBVIOUS
<1>2. \E x \in d : \A y \in d : x <= y
  BY <1>1, LeastNatural
<1> QED
  BY <1>2 DEF Min

\* A result is given the name of the dialogue's tool if its call is known.
LEMMA NamedTool ==
  ASSUME NEW messages \in Seq(Spoken), NEW known \in Seq(Spoken), NEW i \in 1..Len(messages),
         messages[i].id \in CallIdsIn(Upto(messages, i - 1)) \union CallIdsIn(known)
  PROVE  ToolName(messages, i, known) = Tool
<1> DEFINE id      == messages[i].id
           sent    == CallsIn(Upto(messages, i - 1))
           past    == CallsIn(known)
           earlier == CallsOf(sent, id)
           index   == CallsOf(past, id)
<1>1. Upto(messages, i - 1) \in Seq(Spoken)
  <2>1. i - 1 \in 0..Len(messages)
    BY LenProperties
  <2> QED
    BY <2>1, FirstParts
<1>2. sent \in Seq(CallRecords) /\ past \in Seq(CallRecords)
  BY <1>1, CallsSpread
<1>3. /\ CallIdsIn(Upto(messages, i - 1)) = {call.id : call \in ToSet(sent)}
      /\ CallIdsIn(known) = {call.id : call \in ToSet(past)}
  BY DEF CallIdsIn
<1>4. ToolName(messages, i, known)
        = CASE earlier # {}                     -> sent[Max(earlier)].name
            [] earlier = {} /\ index # {}       -> past[Min(index)].name
            [] earlier = {} /\ index = {} /\ messages[i].name # Null -> messages[i].name
            [] OTHER                            -> "unknown"
  BY Zenon DEF ToolName, Upto
<1> HIDE DEF sent, past, id
<1>5. \A calls \in Seq(CallRecords) :
        /\ CallsOf(calls, id) \in SUBSET (1..Len(calls)) /\ Len(calls) \in Nat
        /\ \A k \in 1..Len(calls) : calls[k].name = Tool
        /\ id \in {call.id : call \in ToSet(calls)} => CallsOf(calls, id) # {}
  <2> TAKE calls \in Seq(CallRecords)
  <2>1. DOMAIN calls = 1..Len(calls) /\ Len(calls) \in Nat
    BY LenProperties
  <2>2. \A k \in 1..Len(calls) : calls[k].name = Tool
    <3>1. \A k \in 1..Len(calls) : calls[k] \in CallRecords
      BY ElementOfSeq
    <3> QED
      BY <3>1 DEF CallRecords
  <2>3. ToSet(calls) = {calls[k] : k \in DOMAIN calls}
    BY DEF ToSet
  <2> QED
    BY <2>1, <2>2, <2>3 DEF CallsOf
<1>6. CASE earlier # {}
  <2>1. Max(earlier) \in earlier
    BY <1>2, <1>5, <1>6, Greatest
  <2>2. sent[Max(earlier)].name = Tool
    BY <1>2, <1>5, <2>1
  <2> HIDE DEF earlier, index
  <2> QED
    BY <1>4, <1>6, <2>2
<1>7. CASE earlier = {}
  <2>1. index # {}
    BY <1>2, <1>3, <1>5, <1>7 DEF id
  <2>2. Min(index) \in index
    BY <1>2, <1>5, <2>1, LeastPlace
  <2>3. past[Min(index)].name = Tool
    BY <1>2, <1>5, <2>2
  <2> HIDE DEF earlier, index
  <2> QED
    BY <1>4, <1>7, <2>1, <2>3
<1> QED
  BY <1>6, <1>7

\* A message as it is told when its call is known.
Voice(m) ==
  CASE m.role = "tool" -> <<ResultBlock(m.id, Tool, m.content)>>
    [] m.calls # <<>> ->
         (IF m.content \in {Null, <<>>} THEN <<>> ELSE <<TextBlock("assistant", m.content)>>)
         \o [j \in DOMAIN m.calls |-> CallBlock(m.calls[j])]
    [] OTHER -> <<TextBlock(m.role, m.content)>>

\* As a function,
Voiced == [m \in Spoken |-> Voice(m)]

\* A history as it is told.
Voices(s) == Spread(Voiced, s)

\* The blocks a prompt is made of.
Texts == Seq(Pieces) \union {Null}

TextBlocks   == {TextBlock(r, c) : r \in Roles, c \in Texts}
CallBlocks   == {CallBlock(call) : call \in CallRecords}
ResultBlocks == {ResultBlock(id, Tool, c) : id \in CallIds \union {Null}, c \in Texts}

VoiceBlocks == TextBlocks \union CallBlocks \union ResultBlocks

\* A message is told in such blocks.
LEMMA VoicedBlocks ==
  Voiced \in [Spoken -> Seq(VoiceBlocks)] /\ \A m \in Spoken : Voiced[m] = Voice(m)
<1> SUFFICES ASSUME NEW m \in Spoken PROVE Voice(m) \in Seq(VoiceBlocks)
  BY DEF Voiced
<1>1. m.role \in Roles /\ m.content \in Texts /\ m.calls \in Seq(CallRecords)
      /\ m.id \in CallIds \union {Null}
  BY SpokenFields DEF Texts
<1>2. TextBlock(m.role, m.content) \in VoiceBlocks /\ TextBlock("assistant", m.content) \in VoiceBlocks
      /\ ResultBlock(m.id, Tool, m.content) \in VoiceBlocks
  <2>1. "assistant" \in Roles
    BY DEF Roles
  <2>2. \A r \in Roles, c \in Texts : TextBlock(r, c) \in VoiceBlocks
    BY DEF VoiceBlocks, TextBlocks
  <2>3. \A id \in CallIds \union {Null}, c \in Texts : ResultBlock(id, Tool, c) \in VoiceBlocks
    BY DEF VoiceBlocks, ResultBlocks
  <2> QED
    BY <1>1, <2>1, <2>2, <2>3
<1>3. [j \in DOMAIN m.calls |-> CallBlock(m.calls[j])] \in Seq(VoiceBlocks)
  <2> DEFINE n == Len(m.calls)
             b == [j \in 1..n |-> CallBlock(m.calls[j])]
  <2>1. n \in Nat /\ DOMAIN m.calls = 1..n /\ \A j \in 1..n : m.calls[j] \in CallRecords
    BY <1>1, LenProperties, ElementOfSeq
  <2> HIDE DEF n
  <2>2. \A call \in CallRecords : CallBlock(call) \in VoiceBlocks
    BY DEF VoiceBlocks, CallBlocks
  <2>3. b \in [1..n -> VoiceBlocks]
    BY <2>1, <2>2
  <2> HIDE DEF b
  <2>4. b \in Seq(VoiceBlocks)
    BY <2>1, <2>3, SeqDef
  <2> QED
    BY <2>1, <2>4 DEF b
<1>4. /\ <<>> \in Seq(VoiceBlocks) /\ <<TextBlock("assistant", m.content)>> \in Seq(VoiceBlocks)
      /\ <<TextBlock(m.role, m.content)>> \in Seq(VoiceBlocks)
      /\ <<ResultBlock(m.id, Tool, m.content)>> \in Seq(VoiceBlocks)
  BY <1>2, ShortSeqs, Zenon
<1> DEFINE words == IF m.content \in {Null, <<>>} THEN <<>> ELSE <<TextBlock("assistant", m.content)>>
           calls == [j \in DOMAIN m.calls |-> CallBlock(m.calls[j])]
<1>5. words \in Seq(VoiceBlocks) /\ calls \in Seq(VoiceBlocks)
  BY <1>3, <1>4, Zenon
<1> HIDE DEF words, calls
<1>6. words \o calls \in Seq(VoiceBlocks)
  BY <1>5, ConcatProperties
<1>7. Voice(m) \in {<<ResultBlock(m.id, Tool, m.content)>>, words \o calls,
                    <<TextBlock(m.role, m.content)>>}
  BY Zenon DEF Voice, words, calls
<1> QED
  BY <1>4, <1>6, <1>7, Zenon

\* The prompt of messages whose results answer known calls.
LEMMA VoicesCompiled ==
  ASSUME NEW messages \in Seq(Spoken), NEW known \in Seq(Spoken),
         \A i \in 1..Len(messages) : messages[i].role = "tool" =>
           messages[i].id \in CallIdsIn(Upto(messages, i - 1)) \union CallIdsIn(known)
  PROVE  Compile(messages, known) = Voices(messages)
<1>1. DOMAIN messages = 1..Len(messages) /\ \A i \in 1..Len(messages) : messages[i] \in Spoken
  BY LenProperties, ElementOfSeq
<1>2. ASSUME NEW i \in DOMAIN messages PROVE Blocks(messages, i, known) = Voiced[messages[i]]
  <2> DEFINE m == messages[i]
  <2>1. m \in Spoken
    BY <1>1, <1>2
  <2>2. m.role = "tool" => ToolName(messages, i, known) = Tool
    BY <1>1, <1>2, NamedTool
  <2>3. Blocks(messages, i, known) = Voice(m)
    <3>1. CASE m.role = "tool"
      BY <2>2, <3>1, Zenon DEF Blocks, Voice
    <3>2. CASE m.role # "tool" /\ m.calls # <<>>
      BY <3>2, Zenon DEF Blocks, Voice
    <3>3. CASE m.role # "tool" /\ m.calls = <<>>
      BY <3>3, Zenon DEF Blocks, Voice
    <3> QED
      BY <3>1, <3>2, <3>3
  <2> QED
    BY <2>1, <2>3, VoicedBlocks
<1>3. [i \in DOMAIN messages |-> Blocks(messages, i, known)]
        = [i \in DOMAIN messages |-> Voiced[messages[i]]]
  BY <1>2
<1> QED
  BY <1>3, Zenon DEF Compile, Voices, Spread

-----------------------------------------------------------------------------
(* The name of a message, and its one call.                                *)

\* The events a line may give when it names this message.
Audible(e, id) ==
  \/ e = BackendMessageId(id)
  \/ \E w : e = ReasoningDelta(w)
  \/ \E v \in Pieces : e = TextDelta(v)

\* What such an event leaves of a recorder that has the turn's calls.
LEMMA EventMarks ==
  ASSUME ToolMode => Free(CallIds, CallIdsInUse), NEW id \in MessageIds, NEW e, Audible(e, id),
         NEW r \in Recorders, r.calls = turn.recorder.calls, Len(r.calls) <= 1
  PROVE  LET q == Recorded(r, Understood(e))
         IN  /\ Len(q.calls) <= 1
             /\ q.parent = IF e = BackendMessageId(id) THEN id ELSE r.parent
<1> DEFINE q == Recorded(r, Understood(e))
<1>1. Recorded(r, <<>>) = r /\ \A x : Recorded(r, <<x>>) = Observe(r, x)
  BY ObservedFew
<1>2. r.calls \in Seq(CallRecords)
  BY DEF Recorders
<1>3. /\ Observe(r, BackendMessageId(id)) = [r EXCEPT !.parent = id]
      /\ \A w : Observe(r, ReasoningDelta(w)) = r
      /\ \A v : Observe(r, TextDelta(v)) = [r EXCEPT !.text = Append(@, v)]
      /\ \A call : Observe(r, ToolCallEmitted(call)) = [r EXCEPT !.calls = Append(@, call)]
  BY DEF Observe, BackendMessageId, ReasoningDelta, TextDelta, ToolCallEmitted
<1>4. CASE e = BackendMessageId(id)
  <2>1. e.event # "text"
    BY <1>4, EventKinds
  <2>2. q = Observe(r, e)
    BY <1>1, <2>1, UnderstoodEvent, Zenon
  <2>3. q = [r EXCEPT !.parent = id]
    BY <1>3, <1>4, <2>2
  <2> HIDE DEF q
  <2>4. q.parent = id /\ q.calls = r.calls
    BY <2>3 DEF Recorders
  <2> QED
    BY <1>4, <2>4 DEF q
<1>5. ASSUME NEW w, e = ReasoningDelta(w)
      PROVE  q = r /\ e # BackendMessageId(id)
  <2>1. e.event = "reasoning" /\ BackendMessageId(id).event = "id"
    BY <1>5, EventKinds
  <2>2. e.event # "text"
    BY <2>1
  <2>3. q = Observe(r, e)
    BY <1>1, <2>2, UnderstoodEvent, Zenon
  <2> QED
    BY <1>3, <1>5, <2>1, <2>3
<1>6. ASSUME NEW v \in Pieces, e = TextDelta(v)
      PROVE  Len(q.calls) <= 1 /\ q.parent = r.parent /\ e # BackendMessageId(id)
  <2>1. e.event = "text" /\ BackendMessageId(id).event = "id"
    BY <1>6, EventKinds
  <2>2. \/ Understood(e) \in {<<>>, <<e>>}
        \/ /\ ToolMode /\ turn.recorder.calls = <<>>
           /\ Understood(e) = <<ToolCallEmitted(NewCall)>>
    <3>2. ASSUME ToolMode, turn.recorder.calls # <<>> PROVE Understood(e) = <<>>
      BY <2>1, <3>2, UnderstoodEvent, Zenon
    <3>3. ASSUME ToolMode, turn.recorder.calls = <<>>, e.text = Envelope
          PROVE  Understood(e) = <<ToolCallEmitted(NewCall)>>
      BY <2>1, <3>3, UnderstoodEvent, Zenon
    <3>4. ASSUME ToolMode, turn.recorder.calls = <<>>, e.text # Envelope
          PROVE  Understood(e) = <<e>>
      BY <2>1, <3>4, UnderstoodEvent, Zenon
    <3> DEFINE u == Understood(e)
               none == <<>>
               one == <<e>>
               call == <<ToolCallEmitted(NewCall)>>
    <3> HIDE DEF u, none, one, call
    <3>5. ~ToolMode => u = one
      BY UnderstoodEvent, Zenon DEF u, one
    <3>6. /\ ToolMode /\ turn.recorder.calls # <<>> => u = none
          /\ ToolMode /\ turn.recorder.calls = <<>> /\ e.text = Envelope => u = call
          /\ ToolMode /\ turn.recorder.calls = <<>> /\ e.text # Envelope => u = one
      BY <3>2, <3>3, <3>4, Zenon DEF u, none, one, call
    <3>7. u \in {none, one} \/ (ToolMode /\ turn.recorder.calls = <<>> /\ u = call)
      BY <3>5, <3>6 DEF ToolMode
    <3> QED
      BY <3>7, Zenon DEF u, none, one, call
  <2>3. CASE Understood(e) = <<>>
    <3>1. q = r
      BY <1>1, <2>3, Zenon
    <3> QED
      BY <2>1, <3>1
  <2>4. CASE Understood(e) = <<e>>
    <3>1. q = Observe(r, e)
      BY <1>1, <2>4, Zenon
    <3>2. q = [r EXCEPT !.text = Append(@, v)]
      BY <1>3, <1>6, <3>1
    <3> HIDE DEF q
    <3>3. q.parent = r.parent /\ q.calls = r.calls
      BY <3>2 DEF Recorders
    <3> QED
      BY <2>1, <3>3
  <2>5. CASE ToolMode /\ turn.recorder.calls = <<>> /\ Understood(e) = <<ToolCallEmitted(NewCall)>>
    <3>1. q = Observe(r, ToolCallEmitted(NewCall))
      BY <1>1, <2>5, Zenon
    <3>2. q = [r EXCEPT !.calls = Append(@, NewCall)]
      BY <1>3, <3>1
    <3>3. NewCall \in CallRecords
      BY <2>5, NewCallSound
    <3> DEFINE new == NewCall
    <3> HIDE DEF q, new
    <3>4. q.parent = r.parent /\ q.calls = Append(r.calls, new)
      BY <3>2 DEF Recorders, new
    <3>5. Len(q.calls) = Len(r.calls) + 1
      BY <1>2, <3>3, <3>4, AppendProperties DEF new
    <3>6. r.calls = <<>>
      BY <2>5
    <3>7. Len(r.calls) = 0
      BY <3>6
    <3> QED
      BY <2>1, <3>4, <3>5, <3>7
  <2> QED
    BY <2>2, <2>3, <2>4, <2>5
<1> QED
  BY <1>4, <1>5, <1>6 DEF Audible

\* A line that names this message or none.
MarkedLine(line, id) ==
  \/ Raw(turn.path, line) = <<>>
  \/ \E e : Audible(e, id) /\ Raw(turn.path, line) = <<e>>
  \/ \E e : Audible(e, id) /\ Raw(turn.path, line) = <<BackendMessageId(id), e>>

\* The recorder after it: there is one call at most, and its message is named.
LEMMA LineMarks ==
  ASSUME ToolMode => Free(CallIds, CallIdsInUse), NEW id \in MessageIds,
         NEW line, MarkedLine(line, id),
         turn.recorder \in Recorders, Len(turn.recorder.calls) <= 1
  PROVE  LET q == Recorded(turn.recorder, Heard(line))
         IN  /\ Len(q.calls) <= 1
             /\ q.parent \in {turn.recorder.parent, id}
             /\ Raw(turn.path, line) = <<BackendMessageId(id)>> => q.parent = id
<1> DEFINE r == turn.recorder
           q == Recorded(r, Heard(line))
           f == BackendMessageId(id)
<1>1. /\ Raw(turn.path, line) = <<>> => Heard(line) = <<>>
      /\ \A e : Raw(turn.path, line) = <<e>> => Heard(line) = Understood(e)
      /\ \A x, y : Raw(turn.path, line) = <<x, y>> => Heard(line) = Understood(x) \o Understood(y)
  BY HeardFew
<1>2. ASSUME Raw(turn.path, line) = <<>>
      PROVE  /\ Len(q.calls) <= 1 /\ q.parent \in {r.parent, id}
             /\ Raw(turn.path, line) = <<f>> => q.parent = id
  <2>1. q = r
    BY <1>1, <1>2, ObservedFew, Zenon
  <2> QED
    BY <1>2, <2>1
<1>3. ASSUME NEW e, Audible(e, id), Raw(turn.path, line) = <<e>>
      PROVE  /\ Len(q.calls) <= 1 /\ q.parent \in {r.parent, id}
             /\ Raw(turn.path, line) = <<f>> => q.parent = id
  <2>1. Heard(line) = Understood(e)
    BY <1>1, <1>3, Zenon
  <2>2. Len(q.calls) <= 1 /\ q.parent = IF e = f THEN id ELSE r.parent
    BY <1>3, <2>1, EventMarks
  <2>3. Raw(turn.path, line) = <<f>> => e = f
    BY <1>3
  <2> HIDE DEF q, f
  <2> QED
    BY <2>2, <2>3
<1>4. ASSUME NEW e, Audible(e, id), Raw(turn.path, line) = <<f, e>>
      PROVE  /\ Len(q.calls) <= 1 /\ q.parent \in {r.parent, id}
             /\ Raw(turn.path, line) = <<f>> => q.parent = id
  <2> DEFINE s == Observe(r, f)
             u == Understood(e)
  <2>1. s \in Recorders /\ s.calls = r.calls /\ s.parent = id
    <3>1. s \in Recorders /\ s.calls = r.calls
      BY ObserveEvent, Zenon
    <3>2. s = [r EXCEPT !.parent = id]
      BY DEF Observe, BackendMessageId
    <3>3. s.parent = id
      BY <3>2 DEF Recorders
    <3> QED
      BY <3>1, <3>3
  <2>2. Understood(f) = <<f>>
    <3>1. f.event # "text"
      BY EventKinds
    <3> HIDE DEF f
    <3> QED
      BY <3>1, UnderstoodEvent, Zenon
  <2>3. u = <<>> \/ \E x : u = <<x>>
    <3>1. u \in {<<>>, <<e>>, <<ToolCallEmitted(NewCall)>>}
      BY UnderstoodEvent, Zenon
    <3> QED
      BY <3>1, Zenon
  <2>4. Len(Recorded(s, u).calls) <= 1
        /\ Recorded(s, u).parent = IF e = f THEN id ELSE s.parent
    BY <1>4, <2>1, EventMarks
  <2>5. Heard(line) = <<f>> \o u
    BY <1>1, <1>4, <2>2, Zenon
  <2> HIDE DEF f, u
  <2>6. /\ <<f>> \o <<>> = <<f>>
        /\ \A x : <<f>> \o <<x>> = <<f, x>>
    BY ShortJoins, ShortSeqs, Zenon
  <2>7. /\ Recorded(r, <<f>>) = s /\ \A x : Recorded(r, <<f, x>>) = Observe(s, x)
        /\ Recorded(s, <<>>) = s /\ \A x : Recorded(s, <<x>>) = Observe(s, x)
    <3>1. /\ \A x : Recorded(r, <<x>>) = Observe(r, x)
          /\ \A x, y : Recorded(r, <<x, y>>) = Observe(Observe(r, x), y)
      BY ObservedFew
    <3>2. Recorded(r, <<f>>) = s /\ \A x : Recorded(r, <<f, x>>) = Observe(s, x)
      BY <3>1, Zenon
    <3> HIDE DEF s
    <3>3. Recorded(s, <<>>) = s /\ \A x : Recorded(s, <<x>>) = Observe(s, x)
      BY ObservedFew
    <3> QED
      BY <3>2, <3>3
  <2>8. q = Recorded(s, u)
    BY <2>3, <2>5, <2>6, <2>7, Zenon
  <2>9. Len(<<f, e>>) # Len(<<f>>)
    OBVIOUS
  <2> HIDE DEF q, s
  <2> QED
    BY <1>4, <2>1, <2>4, <2>8, <2>9
<1> HIDE DEF q, f
<1>5. /\ Len(q.calls) <= 1 /\ q.parent \in {r.parent, id}
      /\ Raw(turn.path, line) = <<f>> => q.parent = id
  BY <1>2, <1>3, <1>4, Zenon DEF MarkedLine, f
<1> QED
  BY <1>5 DEF q, f

-----------------------------------------------------------------------------
(* What is said is what the answer is told as.                             *)

\* The recorded answer is told as what the gateway hears of what was said.
LEMMA SayingVoice ==
  ASSUME NEW r \in Recorders, Len(r.calls) <= 1, NEW said, NEW tools, Says(r, said, tools)
  PROVE  Voice(AssistantMessage(r)) = SayingBlocks(Saying(said, tools), ToolCall)
<1> DEFINE m      == AssistantMessage(r)
           saying == Saying(said, tools)
           text   == r.text
           calls  == r.calls
           words  == <<TextBlock("assistant", text)>>
           call   == <<ToolCall>>
<1>1. text \in Seq(Pieces) /\ calls \in Seq(CallRecords)
  BY DEF Recorders
<1>2. saying.words = text /\ (calls # <<>> <=> saying.called)
  BY DEF Says
<1>3. m.role = "assistant" /\ m.calls = calls
      /\ m.content = IF text = <<>> /\ calls # <<>> THEN Null ELSE text
  BY DEF AssistantMessage, CanonicalMessage
<1>4. m.role # "tool"
  BY <1>3
<1> HIDE DEF m, saying, text, calls
<1>5. CASE calls = <<>>
  <2>1. Voice(m) = <<TextBlock(m.role, m.content)>>
    BY <1>3, <1>4, <1>5, Zenon DEF Voice
  <2>2. m.content = text
    BY <1>3, <1>5
  <2>3. Voice(m) = words
    BY <1>3, <2>1, <2>2, Zenon
  <2>4. SayingBlocks(saying, ToolCall) = words \o <<>>
    BY <1>2, <1>5, Zenon DEF SayingBlocks
  <2>5. words \o <<>> = words
    BY ShortJoins, Zenon
  <2> QED
    BY <2>3, <2>4, <2>5, Zenon DEF m, saying
<1>6. CASE calls # <<>>
  <2> DEFINE told == [j \in DOMAIN m.calls |-> CallBlock(m.calls[j])]
  <2>1. told = call
    <3>1. Len(calls) = 1 /\ DOMAIN calls = 1..1
      <4>1. Len(calls) \in Nat /\ DOMAIN calls = 1..Len(calls)
        BY <1>1, LenProperties
      <4>2. Len(calls) # 0
        BY <1>1, <1>6, EmptySeq
      <4>3. Len(calls) <= 1
        BY DEF calls
      <4> QED
        BY <4>1, <4>2, <4>3
    <3>2. calls[1] \in CallRecords
      <4>1. 1 \in 1..Len(calls)
        BY <3>1
      <4> QED
        BY <1>1, <4>1, ElementOfSeq
    <3>3. calls[1].name = Tool /\ calls[1].args = Arguments
      BY <3>2 DEF CallRecords
    <3>4. CallBlock(calls[1]) = ToolCall
      BY <3>3 DEF CallBlock, ToolCall
    <3>5. told = [j \in 1..1 |-> CallBlock(calls[j])]
      BY <1>3, <3>1, Zenon
    <3> DEFINE b == CallBlock(calls[1])
    <3>6. told = [j \in 1..1 |-> b]
      <4>1. \A j \in 1..1 : CallBlock(calls[j]) = b
        <5>1. \A j \in 1..1 : j = 1
          OBVIOUS
        <5> QED
          BY <5>1, Zenon
      <4> QED
        BY <3>5, <4>1
    <3> HIDE DEF b, told
    <3>7. told = <<b>>
      BY <3>6
    <3> QED
      BY <3>4, <3>7, Zenon DEF b, told
  <2>2. Voice(m) = (IF m.content \in {Null, <<>>} THEN <<>>
                                    ELSE <<TextBlock("assistant", m.content)>>) \o told
    BY <1>3, <1>4, <1>6, Zenon DEF Voice
  <2>3. SayingBlocks(saying, ToolCall) = (IF text = <<>> THEN <<>> ELSE words) \o call
    BY <1>2, <1>6, Zenon DEF SayingBlocks
  <2> HIDE DEF told, call
  <2>4. CASE text = <<>>
    <3>1. m.content = Null
      BY <1>3, <1>6, <2>4
    <3>2. Voice(m) = <<>> \o told
      BY <2>2, <3>1, Zenon
    <3>3. SayingBlocks(saying, ToolCall) = <<>> \o call
      BY <2>3, <2>4, Zenon
    <3> QED
      BY <2>1, <3>2, <3>3, Zenon DEF m, saying
  <2>5. CASE text # <<>>
    <3>1. m.content = text
      BY <1>3, <2>5
    <3>2. m.content \notin {Null, <<>>}
      BY <1>1, <2>5, <3>1, NullApart
    <3>3. Voice(m) = words \o told
      BY <2>2, <3>1, <3>2, Zenon
    <3>4. SayingBlocks(saying, ToolCall) = words \o call
      BY <2>3, <2>5, Zenon
    <3> QED
      BY <2>1, <3>3, <3>4, Zenon DEF m, saying
  <2> QED
    BY <2>4, <2>5
<1> QED
  BY <1>5, <1>6

\* Two parts are told one after the other.
LEMMA VoicesJoined ==
  ASSUME NEW s \in Seq(Spoken), NEW t \in Seq(Spoken)
  PROVE  Voices(s \o t) = Voices(s) \o Voices(t)
<1>1. Voiced \in [Spoken -> Seq(VoiceBlocks)]
  BY VoicedBlocks
<1>2. Spread(Voiced, s \o t) = Spread(Voiced, s) \o Spread(Voiced, t)
  BY <1>1, SpreadJoined
<1> QED
  BY <1>2, Zenon DEF Voices

\* A history with the answer is told as the history and what was said.
LEMMA VoicesMore ==
  ASSUME NEW s \in Seq(Spoken), NEW m \in Spoken
  PROVE  Voices(Append(s, m)) = Voices(s) \o Voice(m)
<1> DEFINE t == <<m>>
<1>1. t \in Seq(Spoken)
  OBVIOUS
<1>2. Append(s, m) = s \o t
  OBVIOUS
<1> HIDE DEF t
<1>3. Voiced \in [Spoken -> Seq(VoiceBlocks)] /\ Voiced[m] = Voice(m)
  BY VoicedBlocks
<1>4. Voices(s \o t) = Voices(s) \o Voices(t)
  BY <1>1, VoicesJoined
<1>5. Spread(Voiced, t) = Voice(m)
  BY <1>3, SpreadFew DEF t
<1>6. Voices(t) = Voice(m)
  BY <1>5 DEF Voices
<1> QED
  BY <1>2, <1>4, <1>6

\* What has been told of a first part and of the rest has been told of all.
LEMMA VoicesDivided ==
  ASSUME NEW s \in Seq(Spoken), NEW k \in 0..Len(s)
  PROVE  Voices(s) = Voices(Upto(s, k)) \o Voices(Delta(s, k))
<1> DEFINE a == Upto(s, k)
           b == Delta(s, k)
<1>1. a \in Seq(Spoken) /\ b \in Seq(Spoken) /\ s = a \o b
  BY Divided
<1> HIDE DEF a, b
<1>2. Voices(a \o b) = Voices(a) \o Voices(b)
  BY <1>1, VoicesJoined
<1> QED
  BY <1>1, <1>2 DEF a, b

\* The prompt of a last part of a history whose results answer its calls.
LEMMA RestCompiled ==
  ASSUME NEW s \in Seq(Spoken), Answered(s), NEW k \in 0..Len(s)
  PROVE  Compile(Delta(s, k), s) = Voices(Delta(s, k))
<1> DEFINE b == Delta(s, k)
           n == Len(s)
<1>1. b \in Seq(Spoken) /\ Len(b) = n - k /\ \A i \in 1..(n - k) : b[i] = s[k + i]
  BY Divided
<1>2. n \in Nat /\ DOMAIN s = 1..n /\ k \in 0..n
  BY LenProperties
<1> HIDE DEF b, n
<1>3. ASSUME NEW i \in 1..Len(b), b[i].role = "tool"
      PROVE  b[i].id \in CallIdsIn(Upto(b, i - 1)) \union CallIdsIn(s)
  <2> DEFINE j == k + i
  <2>1. j \in 1..n /\ j - 1 \in 0..n /\ b[i] = s[j]
    BY <1>1, <1>2, <1>3
  <2> HIDE DEF j
  <2>2. s[j].id \in CallIdsIn(Upto(s, j - 1))
    BY <1>2, <1>3, <2>1 DEF Answered
  <2>3. CallIdsIn(Upto(s, j - 1)) \subseteq CallIdsIn(s)
    BY <2>1, CalledBefore DEF n
  <2> QED
    BY <2>1, <2>2, <2>3
<1>4. Compile(b, s) = Voices(b)
  BY <1>1, <1>3, VoicesCompiled
<1> QED
  BY <1>4 DEF b

\* And of a whole one.
LEMMA AllCompiled ==
  ASSUME NEW s \in Seq(Spoken), Answered(s), NEW known \in Seq(Spoken)
  PROVE  Compile(s, known) = Voices(s)
<1>1. DOMAIN s = 1..Len(s)
  BY LenProperties
<1>2. \A i \in 1..Len(s) : s[i].role = "tool" =>
        s[i].id \in CallIdsIn(Upto(s, i - 1)) \union CallIdsIn(known)
  BY <1>1 DEF Answered
<1> QED
  BY <1>2, VoicesCompiled

\* A first part of a history whose results answer its calls.
LEMMA AnsweredBefore ==
  ASSUME NEW s \in Seq(Spoken), Answered(s), NEW k \in 0..Len(s)
  PROVE  Answered(Upto(s, k))
<1> DEFINE a == Upto(s, k)
           n == Len(s)
<1>1. n \in Nat /\ DOMAIN s = 1..n /\ \A i \in 1..n : s[i] \in Spoken
  BY LenProperties, ElementOfSeq
<1>2. a \in Seq(Spoken) /\ Len(a) = k /\ \A i \in 1..k : a[i] = s[i]
  BY <1>1 DEF Upto
<1> HIDE DEF a, n
<1>3. DOMAIN a = 1..k /\ k \in 0..n
  BY <1>2, LenProperties DEF n
<1>4. ASSUME NEW i \in 1..k PROVE Upto(a, i - 1) = Upto(s, i - 1)
  <2> DEFINE j == i - 1
             b == SubSeq(a, 1, j)
             c == SubSeq(s, 1, j)
  <2>1. j \in Nat /\ \A l \in 1..j : l \in 1..k /\ l \in 1..n
    BY <1>1, <1>3
  <2> HIDE DEF j
  <2>2. \A l \in 1..j : a[l] \in Spoken /\ s[l] \in Spoken /\ a[l] = s[l]
    BY <1>1, <1>2, <2>1
  <2>3. b \in Seq(Spoken) /\ Len(b) = j /\ \A l \in 1..j : b[l] = a[l]
    BY <2>1, <2>2
  <2>4. c \in Seq(Spoken) /\ Len(c) = j /\ \A l \in 1..j : c[l] = s[l]
    BY <2>1, <2>2
  <2> HIDE DEF b, c
  <2>5. b = c
    BY <2>1, <2>2, <2>3, <2>4, SeqEqual
  <2> QED
    BY <2>5 DEF Upto, b, c, j
<1>5. \A i \in 1..k : i \in DOMAIN s
  BY <1>1, <1>3
<1> QED
  BY <1>2, <1>3, <1>4, <1>5 DEF Answered, a

-----------------------------------------------------------------------------
(* The words of a prompt.                                                  *)

\* Of a block that is text its words are left, of another nothing,
Wording == [b \in VoiceBlocks |-> IF b.kind = "text" THEN <<b>> ELSE <<>>]

\* and of several what is left of each.
LEMMA WordsSpread ==
  /\ Wording \in [VoiceBlocks -> Seq(VoiceBlocks)]
  /\ \A s \in Seq(VoiceBlocks) : WordsOf(s) = Spread(Wording, s)
<1>1. Wording \in [VoiceBlocks -> Seq(VoiceBlocks)]
  <2>1. \A b \in VoiceBlocks : (IF b.kind = "text" THEN <<b>> ELSE <<>>) \in Seq(VoiceBlocks)
    BY ShortSeqs, Zenon
  <2> QED
    BY <2>1 DEF Wording
<1>2. ASSUME NEW s \in Seq(VoiceBlocks) PROVE WordsOf(s) = Spread(Wording, s)
  <2>1. \A i \in DOMAIN s : s[i] \in VoiceBlocks
    BY LenProperties, ElementOfSeq
  <2>2. [i \in DOMAIN s |-> IF s[i].kind = "text" THEN <<s[i]>> ELSE <<>>]
          = [i \in DOMAIN s |-> Wording[s[i]]]
    BY <2>1 DEF Wording
  <2> QED
    BY <2>2, Zenon DEF WordsOf, Spread
<1> QED
  BY <1>1, <1>2

\* Two parts of a prompt leave their words one after the other.
LEMMA WordsJoined ==
  ASSUME NEW s \in Seq(VoiceBlocks), NEW t \in Seq(VoiceBlocks)
  PROVE  WordsOf(s \o t) = WordsOf(s) \o WordsOf(t)
<1>1. s \o t \in Seq(VoiceBlocks)
  BY ConcatProperties
<1>2. Spread(Wording, s \o t) = Spread(Wording, s) \o Spread(Wording, t)
  <2>1. Wording \in [VoiceBlocks -> Seq(VoiceBlocks)]
    BY WordsSpread
  <2> QED
    BY <2>1, SpreadJoined
<1> QED
  BY <1>1, <1>2, WordsSpread

\* Where there is no text nothing is left.
LEMMA NoWords ==
  ASSUME NEW s \in Seq(VoiceBlocks), \A i \in DOMAIN s : s[i].kind # "text"
  PROVE  WordsOf(s) = <<>>
<1> DEFINE none == [i \in DOMAIN s |-> IF s[i].kind = "text" THEN <<s[i]>> ELSE <<>>]
           n == Len(s)
<1>1. n \in Nat /\ DOMAIN s = 1..n
  BY LenProperties
<1>2. none \in [1..n -> Seq(VoiceBlocks)] /\ \A i \in 1..n : none[i] = <<>>
  BY <1>1
<1>3. WordsOf(s) = FlattenSeq(none)
  BY Zenon DEF WordsOf
<1> HIDE DEF none, n
<1>4. none \in Seq(Seq(VoiceBlocks)) /\ Len(none) = n
  <2> DEFINE S == Seq(VoiceBlocks)
  <2>1. none \in [1..n -> S]
    BY <1>2
  <2> HIDE DEF S
  <2>2. none \in Seq(S)
    BY <1>1, <2>1, SeqDef
  <2>3. DOMAIN none = 1..n /\ DOMAIN none = 1..Len(none) /\ Len(none) \in Nat
    BY <2>1, <2>2, LenProperties
  <2> QED
    BY <1>1, <2>2, <2>3, SamePlaces DEF S
<1>5. PICK at \in [0..n -> Seq(VoiceBlocks)] :
        /\ at[0] = <<>> /\ FlattenSeq(none) = at[n]
        /\ \A k \in 1..n : at[k] = at[k - 1] \o none[k]
  BY <1>4, Flattened
<1> DEFINE P == {k \in 0..n : at[k] = <<>>}
<1>6. 0 \in P
  BY <1>1, <1>5
<1>7. ASSUME NEW k \in 1..n, k - 1 \in P PROVE k \in P
  <2>1. k \in 0..n /\ at[k] = <<>> \o <<>>
    BY <1>1, <1>2, <1>5, <1>7
  <2> QED
    BY <2>1, ShortJoins
<1>8. \A k \in 0..n : k \in P
  <2> HIDE DEF P
  <2> QED
    BY <1>1, <1>6, <1>7, Inducted
<1>9. n \in 0..n
  BY <1>1
<1> QED
  BY <1>3, <1>5, <1>8, <1>9

\* A text block is its words.
LEMMA OneWord ==
  ASSUME NEW b \in VoiceBlocks, b.kind = "text"
  PROVE  WordsOf(<<b>>) = <<b>>
<1>1. <<b>> \in Seq(VoiceBlocks)
  OBVIOUS
<1>2. Spread(Wording, <<b>>) = Wording[b]
  BY WordsSpread, SpreadFew
<1>3. Wording[b] = <<b>>
  BY DEF Wording
<1> QED
  BY <1>1, <1>2, <1>3, WordsSpread

\* Bare messages are messages of a history, and no results.
LEMMA BareSpoken ==
  ASSUME NEW s \in Seq(Bare)
  PROVE  s \in Seq(Spoken) /\ Answered(s)
<1>1. Len(s) \in Nat /\ DOMAIN s = 1..Len(s) /\ \A i \in 1..Len(s) : s[i] \in Bare
  BY LenProperties, ElementOfSeq
<1>2. Bare \subseteq Spoken /\ \A m \in Bare : m.role # "tool"
  <2>1. <<>> \in Seq(CallRecords)
    OBVIOUS
  <2>2. \A m \in Bare : /\ m.role \in TextRoles /\ m.content \in Seq(Pieces) /\ m.calls = <<>>
                        /\ m.id = Null /\ m.name = Null
                        /\ m \in [role : TextRoles, content : Seq(Pieces), calls : {<<>>},
                                  id : {Null}, name : {Null}]
    BY DEF Bare
  <2>3. \A m \in Bare : m.role \in Roles /\ m.role # "tool" /\ m.content # Null
    BY <2>2, NullApart DEF Roles, TextRoles
  <2>4. \A m \in Bare : m \in [role : Roles, content : Seq(Pieces) \union {Null},
                               calls : Seq(CallRecords), id : CallIds \union {Null}, name : {Null}]
    BY <2>1, <2>2, <2>3
  <2> QED
    BY <2>2, <2>3, <2>4 DEF Spoken
<1>3. s \in [1..Len(s) -> Spoken]
  BY <1>1, <1>2
<1>4. s \in Seq(Spoken)
  BY <1>1, <1>3, SeqDef
<1>5. Answered(s)
  BY <1>1, <1>2 DEF Answered
<1> QED
  BY <1>4, <1>5

\* What is kept of a message is told as its words.
LEMMA KeptVoice ==
  ASSUME NEW kept \in Seq(Bare), NEW m \in Spoken
  PROVE  Voices(KeepWords(kept, m)) = Voices(kept) \o WordsOf(Voice(m))
<1> DEFINE words == IF m.content \in {Null, <<>>} THEN <<>>
                                                  ELSE <<TextBlock("assistant", m.content)>>
           calls == [j \in DOMAIN m.calls |-> CallBlock(m.calls[j])]
<1>1. /\ m.role \in Roles /\ m.calls \in Seq(CallRecords) /\ m.content \in Texts
      /\ m.id \in CallIds \union {Null}
      /\ m = [role |-> m.role, content |-> m.content, calls |-> m.calls, id |-> m.id, name |-> Null]
      /\ m.role # "tool" => m.id = Null
      /\ m.role = "tool" => m.calls = <<>>
      /\ m.calls # <<>> => m.role = "assistant"
      /\ m.content = Null => m.calls # <<>>
  BY SpokenFields DEF Texts, Spoken
<1>2. kept \in Seq(Spoken) /\ Voices(kept) \in Seq(VoiceBlocks)
  BY BareSpoken, VoicedBlocks, SpreadFew, Zenon DEF Voices
<1>3. Voice(m) \in Seq(VoiceBlocks)
  BY VoicedBlocks
<1> DEFINE told == Voices(kept)
<1>4. told \o <<>> = told
  BY <1>2, ConcatEmptySeq
<1> HIDE DEF told, words, calls
<1>5. CASE m.role = "tool"
  <2> DEFINE b == ResultBlock(m.id, Tool, m.content)
             s == <<b>>
  <2>1. Voice(m) = s
    <3> DEFINE other == (IF m.content \in {Null, <<>>} THEN <<>>
                           ELSE <<TextBlock("assistant", m.content)>>)
                        \o [j \in DOMAIN m.calls |-> CallBlock(m.calls[j])]
    <3>1. Voice(m) = CASE m.role = "tool" -> s
                       [] m.calls # <<>> -> other
                       [] OTHER -> <<TextBlock(m.role, m.content)>>
      BY DEF Voice
    <3>2. m.calls = <<>>
      BY <1>1, <1>5
    <3> HIDE DEF other, b
    <3> QED
      BY <1>5, <3>1, <3>2
  <2>2. b.kind = "result"
    BY DEF ResultBlock
  <2> HIDE DEF b
  <2>3. \A i \in DOMAIN s : s[i].kind # "text"
    BY <2>2
  <2> HIDE DEF s
  <2>4. WordsOf(Voice(m)) = <<>>
    BY <1>3, <2>1, <2>3, NoWords
  <2>5. KeepWords(kept, m) = kept
    BY <1>5, Zenon DEF KeepWords
  <2> QED
    BY <1>4, <2>4, <2>5 DEF told
<1>6. CASE m.role # "tool" /\ m.calls = <<>>
  <2> DEFINE b == TextBlock(m.role, m.content)
             bare == [m EXCEPT !.calls = <<>>]
  <2>1. Voice(m) = <<b>>
    BY <1>6, Zenon DEF Voice
  <2>2. bare = m
    BY <1>1, <1>6
  <2>3. KeepWords(kept, m) = Append(kept, m)
    BY <1>6, <2>2, Zenon DEF KeepWords
  <2>4. Voices(Append(kept, m)) = told \o Voice(m)
    BY <1>2, VoicesMore DEF told
  <2>5. b.kind = "text" /\ b \in VoiceBlocks
    BY <1>1 DEF TextBlock, VoiceBlocks, TextBlocks
  <2> HIDE DEF b
  <2>6. WordsOf(<<b>>) = <<b>>
    BY <2>5, OneWord
  <2> QED
    BY <2>1, <2>3, <2>4, <2>6 DEF told
<1>7. CASE m.role # "tool" /\ m.calls # <<>>
  <2>1. Voice(m) = words \o calls
    BY <1>7, Zenon DEF Voice, words, calls
  <2>2. calls \in Seq(VoiceBlocks) /\ \A i \in DOMAIN calls : calls[i].kind # "text"
    <3> DEFINE n == Len(m.calls)
    <3>1. n \in Nat /\ DOMAIN m.calls = 1..n /\ \A j \in 1..n : m.calls[j] \in CallRecords
      BY <1>1, LenProperties, ElementOfSeq
    <3> HIDE DEF n
    <3>2. \A call \in CallRecords : CallBlock(call) \in VoiceBlocks /\ CallBlock(call).kind # "text"
      BY DEF VoiceBlocks, CallBlocks, CallBlock
    <3>3. calls \in [1..n -> VoiceBlocks] /\ \A j \in 1..n : calls[j].kind # "text"
      BY <3>1, <3>2 DEF calls
    <3>4. DOMAIN calls = 1..n
      BY <3>3
    <3>5. calls \in Seq(VoiceBlocks)
      BY <3>1, <3>3, SeqDef
    <3> QED
      BY <3>3, <3>4, <3>5
  <2>3. WordsOf(calls) = <<>>
    BY <2>2, NoWords
  <2>4. CASE m.content \in {Null, <<>>}
    <3>1. words = <<>>
      BY <2>4 DEF words
    <3>2. <<>> \o calls = calls
      BY <2>2, ConcatEmptySeq
    <3>3. KeepWords(kept, m) = kept
      BY <1>7, <2>4, Zenon DEF KeepWords
    <3> QED
      BY <1>4, <2>1, <2>3, <3>1, <3>2, <3>3 DEF told
  <2>5. CASE m.content \notin {Null, <<>>}
    <3> DEFINE b == TextBlock("assistant", m.content)
               bare == [m EXCEPT !.calls = <<>>]
    <3>1. words = <<b>>
      BY <2>5, Zenon DEF words
    <3>2. b.kind = "text" /\ b \in VoiceBlocks
      BY <1>1, <1>7 DEF TextBlock, VoiceBlocks, TextBlocks
    <3>3. /\ bare.role = "assistant" /\ bare.content = m.content /\ bare.calls = <<>>
          /\ bare \in Spoken
      <4>1. /\ m.role = "assistant" /\ m.id = Null /\ m.content # Null
            /\ m.content \in Seq(Pieces)
        BY <1>1, <1>7, <2>5 DEF Texts
      <4>2. bare = [role |-> "assistant", content |-> m.content, calls |-> <<>>,
                    id |-> Null, name |-> Null]
        BY <1>1, <4>1
      <4> HIDE DEF bare
      <4>3. "assistant" \in Roles /\ <<>> \in Seq(CallRecords)
        BY DEF Roles
      <4> QED
        BY <4>1, <4>2, <4>3 DEF Spoken, Texts
    <3>4. KeepWords(kept, m) = Append(kept, bare)
      BY <1>7, <2>5, Zenon DEF KeepWords
    <3> HIDE DEF bare
    <3>5. Voices(Append(kept, bare)) = told \o Voice(bare)
      BY <1>2, <3>3, VoicesMore DEF told
    <3>6. Voice(bare) = <<b>>
      <4>1. bare.role # "tool"
        BY <3>3
      <4> QED
        BY <3>3, <4>1, Zenon DEF Voice
    <3> HIDE DEF b
    <3>7. <<b>> \in Seq(VoiceBlocks)
      BY <3>2
    <3>8. WordsOf(<<b>> \o calls) = WordsOf(<<b>>) \o WordsOf(calls)
      BY <2>2, <3>7, WordsJoined
    <3>9. WordsOf(<<b>>) = <<b>> /\ <<b>> \o <<>> = <<b>>
      BY <3>2, OneWord, ShortJoins
    <3> QED
      BY <2>1, <2>3, <3>1, <3>4, <3>5, <3>6, <3>8, <3>9 DEF told
  <2> QED
    BY <2>4, <2>5
<1> QED
  BY <1>5, <1>6, <1>7

\* What is left of a history without its calls and results is told as its words.
LEMMA StrippedWords ==
  ASSUME NEW s \in Seq(Spoken)
  PROVE  Voices(StripToolHistory(s)) = WordsOf(Voices(s))
<1> DEFINE n == Len(s)
<1>1. n \in Nat /\ \A i \in 1..n : s[i] \in Spoken
  BY LenProperties, ElementOfSeq
<1>2. PICK at : /\ at[0] = <<>> /\ StripToolHistory(s) = at[n]
                /\ \A k \in 1..n : at[k] = KeepWords(at[k - 1], s[k])
                /\ \A k \in 0..n : at[k] \in Seq(Bare)
  <2>1. <<>> \in Seq(Bare) /\ \A v \in Seq(Bare) : \A m \in Spoken : KeepWords(v, m) \in Seq(Bare)
    BY KeptWords, EmptySeq
  <2> QED
    BY <2>1, Stripped
<1>3. /\ Upto(s, 0) = <<>> /\ Upto(s, n) = s
      /\ \A k \in 0..n : Upto(s, k) \in Seq(Spoken)
      /\ \A k \in 1..n : Upto(s, k) = Append(Upto(s, k - 1), s[k])
  BY FirstParts
<1> DEFINE P == {k \in 0..n : Voices(at[k]) = WordsOf(Voices(Upto(s, k)))}
<1>4. 0 \in P
  <2>1. Voices(<<>>) = <<>>
    BY VoicedBlocks, SpreadFew, Zenon DEF Voices
  <2>2. WordsOf(<<>>) = <<>>
    <3>1. <<>> \in Seq(VoiceBlocks) /\ DOMAIN <<>> = {}
      BY EmptySeq
    <3> QED
      BY <3>1, NoWords
  <2> QED
    BY <1>1, <1>2, <1>3, <2>1, <2>2
<1> HIDE DEF n
<1>5. ASSUME NEW k \in 1..n, k - 1 \in P PROVE k \in P
  <2> DEFINE a == Upto(s, k - 1)
             m == s[k]
             v == at[k - 1]
  <2>1. k \in 0..n /\ k - 1 \in 0..n
    BY <1>1
  <2>2. a \in Seq(Spoken) /\ m \in Spoken /\ v \in Seq(Bare) /\ Voices(v) = WordsOf(Voices(a))
    BY <1>1, <1>2, <1>3, <1>5, <2>1
  <2>3. at[k] = KeepWords(v, m) /\ Upto(s, k) = Append(a, m)
    BY <1>2, <1>3
  <2> HIDE DEF a, m, v
  <2>4. Voices(a) \in Seq(VoiceBlocks) /\ Voice(m) \in Seq(VoiceBlocks)
    BY <2>2, VoicedBlocks, SpreadFew, Zenon DEF Voices
  <2>5. Voices(Append(a, m)) = Voices(a) \o Voice(m)
    BY <2>2, VoicesMore
  <2>6. WordsOf(Voices(a) \o Voice(m)) = WordsOf(Voices(a)) \o WordsOf(Voice(m))
    BY <2>4, WordsJoined
  <2>7. Voices(KeepWords(v, m)) = Voices(v) \o WordsOf(Voice(m))
    BY <2>2, KeptVoice
  <2> QED
    BY <2>1, <2>2, <2>3, <2>5, <2>6, <2>7
<1>6. \A k \in 0..n : k \in P
  <2> HIDE DEF P
  <2> QED
    BY <1>1, <1>4, <1>5, Inducted
<1>7. n \in 0..n
  BY <1>1
<1> QED
  BY <1>2, <1>3, <1>6, <1>7

-----------------------------------------------------------------------------
(* What is heard of a branch.                                              *)

\* What upstream is told and says comes in these blocks,
ToldBlocks == VoiceBlocks \union {CallSaid(rest) : rest \in Seq(Pieces)}

\* of each of which this is heard.
Heed(b) == IF b.kind = "overrun" THEN b.call ELSE b

HeedBlocks == {Heed(b) : b \in ToldBlocks}

\* As many blocks are heard as there are.
LEMMA HeededPlaces ==
  ASSUME NEW s \in Seq(ToldBlocks)
  PROVE  /\ Heeded(s) \in Seq(HeedBlocks) /\ Len(Heeded(s)) = Len(s)
         /\ \A i \in 1..Len(s) : Heeded(s)[i] = Heed(s[i])
<1> DEFINE n == Len(s)
           h == Heeded(s)
<1>1. n \in Nat /\ DOMAIN s = 1..n /\ \A i \in 1..n : s[i] \in ToldBlocks
  BY LenProperties, ElementOfSeq
<1>2. h = [i \in 1..n |-> Heed(s[i])]
  BY <1>1 DEF Heeded, Heed
<1> HIDE DEF h, n
<1>3. \A i \in 1..n : Heed(s[i]) \in HeedBlocks
  BY <1>1 DEF HeedBlocks
<1>4. h \in [1..n -> HeedBlocks]
  BY <1>2, <1>3
<1>5. h \in Seq(HeedBlocks)
  BY <1>1, <1>4, SeqDef
<1>6. Len(h) = n
  <2>1. DOMAIN h = 1..n /\ DOMAIN h = 1..Len(h) /\ Len(h) \in Nat
    BY <1>2, <1>5, LenProperties
  <2> QED
    BY <1>1, <2>1, SamePlaces
<1> QED
  BY <1>2, <1>5, <1>6 DEF h, n

\* Two parts are heard one after the other.
LEMMA HeededJoined ==
  ASSUME NEW s \in Seq(ToldBlocks), NEW t \in Seq(ToldBlocks)
  PROVE  Heeded(s \o t) = Heeded(s) \o Heeded(t)
<1> DEFINE u == s \o t
           a == Heeded(s)
           b == Heeded(t)
           c == Heeded(u)
           d == a \o b
           m == Len(s)
           n == Len(t)
<1>1. u \in Seq(ToldBlocks) /\ Follows(u, s, t)
  BY Joined
<1>2. /\ a \in Seq(HeedBlocks) /\ Len(a) = m /\ \A i \in 1..m : a[i] = Heed(s[i])
      /\ b \in Seq(HeedBlocks) /\ Len(b) = n /\ \A i \in 1..n : b[i] = Heed(t[i])
      /\ c \in Seq(HeedBlocks) /\ Len(c) = Len(u)
      /\ \A i \in 1..Len(u) : c[i] = Heed(u[i])
  BY <1>1, HeededPlaces
<1> HIDE DEF a, b, c, u
<1>3. d \in Seq(HeedBlocks) /\ Follows(d, a, b)
  BY <1>2, Joined
<1> HIDE DEF d
<1>4. m \in Nat /\ n \in Nat /\ Len(c) = m + n /\ Len(d) = m + n
  BY <1>1, <1>2, <1>3, LenProperties DEF Follows
<1> HIDE DEF m, n
<1>5. ASSUME NEW i \in 1..(m + n) PROVE c[i] = d[i]
  <2>1. CASE i \in 1..m
    BY <1>1, <1>2, <1>3, <1>4, <2>1 DEF Follows, m
  <2>2. CASE i \notin 1..m
    <3> DEFINE j == i - m
    <3>1. j \in 1..n /\ i = m + j
      BY <1>4, <2>2
    <3> HIDE DEF j
    <3>2. u[i] = t[j] /\ d[i] = b[j]
      BY <1>1, <1>2, <1>3, <3>1 DEF Follows, m, n
    <3>3. i \in 1..Len(u)
      BY <1>2, <1>4
    <3> QED
      BY <1>2, <3>1, <3>2, <3>3
  <2> QED
    BY <2>1, <2>2
<1>6. c = d
  BY <1>2, <1>3, <1>4, <1>5, SeqEqual
<1> QED
  BY <1>6 DEF c, d, a, b, u

\* What is told of a history is heard as it is.
LEMMA HeededVoices ==
  ASSUME NEW s \in Seq(VoiceBlocks)
  PROVE  s \in Seq(ToldBlocks) /\ Heeded(s) = s
<1> DEFINE n == Len(s)
<1>1. n \in Nat /\ DOMAIN s = 1..n /\ \A i \in 1..n : s[i] \in VoiceBlocks
  BY LenProperties, ElementOfSeq
<1>2. s \in [1..n -> ToldBlocks]
  BY <1>1 DEF ToldBlocks
<1> HIDE DEF n
<1>3. s \in Seq(ToldBlocks)
  BY <1>1, <1>2, SeqDef
<1>4. \A b \in VoiceBlocks : Heed(b) = b
  BY DEF Heed, VoiceBlocks, TextBlocks, CallBlocks, ResultBlocks, TextBlock, CallBlock, ResultBlock
<1>5. Heeded(s) = [i \in 1..n |-> s[i]]
  BY <1>1, <1>4 DEF Heeded, Heed
<1>6. s = [i \in 1..n |-> s[i]]
  BY <1>2
<1> QED
  BY <1>3, <1>5, <1>6

\* A block by itself is heard.
LEMMA HeededOne ==
  ASSUME NEW b \in ToldBlocks
  PROVE  <<b>> \in Seq(ToldBlocks) /\ Heeded(<<b>>) = <<Heed(b)>>
<1> DEFINE s == <<b>>
           h == Heeded(s)
           e == Heed(b)
<1>1. s \in Seq(ToldBlocks) /\ Len(s) = 1 /\ s[1] = b /\ DOMAIN s = {1}
  OBVIOUS
<1> HIDE DEF s
<1>2. h = [i \in {1} |-> e]
  BY <1>1 DEF Heeded, Heed
<1> HIDE DEF h, e
<1>3. [i \in {1} |-> e] = <<e>>
  OBVIOUS
<1> QED
  BY <1>1, <1>2, <1>3 DEF s, h, e

\* Of words and a call these and the call are heard, whatever comes after it.
LEMMA SayingHeeded ==
  ASSUME NEW saying, saying.words \in Seq(Pieces), NEW call \in ToldBlocks, Heed(call) = ToolCall
  PROVE  /\ SayingBlocks(saying, call) \in Seq(ToldBlocks)
         /\ Heeded(SayingBlocks(saying, call)) = SayingBlocks(saying, ToolCall)
<1> DEFINE b == TextBlock("assistant", saying.words)
           a == IF saying.called /\ saying.words = <<>> THEN <<>> ELSE <<b>>
           c == IF saying.called THEN <<call>> ELSE <<>>
           d == IF saying.called THEN <<ToolCall>> ELSE <<>>
<1>1. b \in VoiceBlocks
  BY DEF VoiceBlocks, TextBlocks, TextBlock, Roles, Texts
<1>2. SayingBlocks(saying, call) = a \o c /\ SayingBlocks(saying, ToolCall) = a \o d
  BY Zenon DEF SayingBlocks
<1> HIDE DEF b
<1>3. a \in Seq(VoiceBlocks)
  BY <1>1, ShortSeqs, Zenon
<1>4. a \in Seq(ToldBlocks) /\ Heeded(a) = a
  BY <1>3, HeededVoices
<1>5. c \in Seq(ToldBlocks) /\ Heeded(c) = d
  <2>1. <<>> \in Seq(VoiceBlocks)
    OBVIOUS
  <2>2. <<>> \in Seq(ToldBlocks) /\ Heeded(<<>>) = <<>>
    BY <2>1, HeededVoices
  <2>3. <<call>> \in Seq(ToldBlocks) /\ Heeded(<<call>>) = <<ToolCall>>
    BY HeededOne
  <2> QED
    BY <2>2, <2>3
<1> HIDE DEF a, c, d
<1>6. a \o c \in Seq(ToldBlocks) /\ Heeded(a \o c) = Heeded(a) \o Heeded(c)
  BY <1>4, <1>5, HeededJoined, Joined
<1> QED
  BY <1>2, <1>4, <1>5, <1>6

\* A call and what comes after it is a block, and heard as the call.
LEMMA CallHeeded ==
  ASSUME NEW rest \in Seq(Pieces)
  PROVE  CallSaid(rest) \in ToldBlocks /\ Heed(CallSaid(rest)) = ToolCall
<1>1. CallSaid(rest) \in ToldBlocks
  BY DEF ToldBlocks
<1> QED
  BY <1>1 DEF CallSaid, Heed, ToolCall

\* All upstream said is heard as what the gateway hears of it.
LEMMA UtteranceHeeded ==
  ASSUME NEW said \in Seq(Pieces), NEW tools, Saying(said, tools).words \in Seq(Pieces)
  PROVE  /\ Utterance(said, tools) \in Seq(ToldBlocks)
         /\ Heeded(Utterance(said, tools)) = SayingBlocks(Saying(said, tools), ToolCall)
<1> DEFINE saying == Saying(said, tools)
           rest   == SubSeq(said, Len(saying.words) + 2, Len(said))
           call   == CallSaid(rest)
<1>1. Utterance(said, tools) = SayingBlocks(saying, call)
  BY Zenon DEF Utterance
<1>2. saying.words \in Seq(Pieces)
  OBVIOUS
<1>3. rest \in Seq(Pieces)
  <2> DEFINE m == Len(saying.words) + 2
             n == Len(said)
  <2>1. m \in Nat /\ n \in Nat /\ m >= 1
    BY <1>2, LenProperties
  <2>2. \A i \in 1..n : said[i] \in Pieces
    BY ElementOfSeq
  <2> HIDE DEF m, n
  <2>3. SubSeq(said, m, n) \in Seq(Pieces)
    BY <2>1, <2>2 DEF n
  <2> QED
    BY <2>3 DEF m, n
<1> HIDE DEF rest
<1>4. call \in ToldBlocks /\ Heed(call) = ToolCall
  BY <1>3, CallHeeded
<1> HIDE DEF call, saying
<1>5. /\ SayingBlocks(saying, call) \in Seq(ToldBlocks)
      /\ Heeded(SayingBlocks(saying, call)) = SayingBlocks(saying, ToolCall)
  BY <1>2, <1>4, SayingHeeded
<1> QED
  BY <1>1, <1>5 DEF saying

-----------------------------------------------------------------------------
(* The invariant of the branches.                                          *)

\* What a memory holds of a branch.
At(mem, session, parent) ==
  IF parent # Null /\ mem[parent].session = session THEN mem[parent].told ELSE <<>>

\* In the history the client holds, in the one it asks with and in all that are
\* stored, each result answers a call.
Answerable ==
  /\ Answered(history)
  /\ Serving => Answered(turn.incoming)
  /\ \A c \in DOMAIN store : Answered(store[c].messages)

\* The messages the stored conversations go on from.
Parents == {store[c].parent : c \in DOMAIN store}

\* The answer that is read has one call at most, and a name that the recorder
\* has and nobody else.
Marked ==
  Serving =>
    /\ Len(turn.recorder.calls) <= 1
    /\ upstream # Null => turn.recorder.parent = upstream.id
    /\ Reading => upstream.id \notin Parents \union {turn.parent}
    /\ turn.parent \in MessageIds \union {Null}
    /\ turn.pc = "session" => turn.parent = Null
    /\ turn.repairs > 0 => turn.mode = "tool"

\* The first part of what is asked, which is not sent.
Before == Upto(turn.incoming, Len(turn.incoming) - Len(turn.sent))

\* A row on whose branch it is heard.
BranchTold(mem, row) ==
  row.session # Null => Heeded(At(mem, row.session, row.parent)) = Voices(row.messages)

\* Only the branch of a repaired turn, which is about to be let go, has not.
StoreTold ==
  \A c \in DOMAIN store : (turn.pc = "unlink" /\ turn.conv = c) \/ BranchTold(memory, store[c])

\* On the branch a turn goes on from is what is not sent, and the first attempts
\* make it the whole history.
TurnTold ==
  Serving =>
    /\ turn.repairs = 0 => turn.simulated = FALSE
    /\ turn.pc \in {"session", "attempt", "settle"} =>
         Heeded(At(memory, turn.session, turn.parent)) = Voices(Before)
    /\ turn.pc = "settle" /\ turn.repairs = 0 =>
         Heeded(At(memory, turn.session, turn.recorder.parent)) = Voices(Told(turn.recorder))

\* Upstream has been told nothing but such blocks.
ToldSound == \A id \in MessageIds : memory[id].told \in Seq(ToldBlocks)

\* Upstream's memory is a table of its messages,
Tabled == memory = [id \in MessageIds |-> memory[id]]

\* A line that names the message that is read keeps it marked.
LEMMA ReceivedMarks ==
  ASSUME NEW U, turn \in Turns(U), turn.pc = "attempt", turn.recorder \in Recorders, Marked,
         NEW line, Receive(line), NEW id \in MessageIds, MarkedLine(line, id),
         UNCHANGED store, upstream'.id = id, id \notin Parents \union {turn.parent},
         turn.recorder.parent = id \/ Raw(turn.path, line) = <<BackendMessageId(id)>>
  PROVE  Marked'
<1>1. ToolMode => Free(CallIds, CallIdsInUse)
  BY Zenon DEF Receive
<1>2. /\ turn'.pc = turn.pc /\ turn'.mode = turn.mode /\ turn'.parent = turn.parent
      /\ turn'.repairs = turn.repairs
      /\ turn'.recorder = FoldLeft(Observe, turn.recorder, Heard(line))
  BY ReceivedTurn
<1>3. turn'.recorder = Recorded(turn.recorder, Heard(line))
  BY <1>2, Zenon DEF Recorded
<1>4. /\ Len(turn.recorder.calls) <= 1 /\ turn.parent \in MessageIds \union {Null}
      /\ turn.repairs > 0 => turn.mode = "tool"
  BY DEF Marked, Serving
<1> DEFINE q == Recorded(turn.recorder, Heard(line))
<1>5. /\ Len(q.calls) <= 1 /\ q.parent \in {turn.recorder.parent, id}
      /\ Raw(turn.path, line) = <<BackendMessageId(id)>> => q.parent = id
  BY <1>1, <1>4, LineMarks
<1> HIDE DEF q
<1>6. turn'.recorder = q
  BY <1>3 DEF q
<1>7. Len(turn'.recorder.calls) <= 1 /\ turn'.recorder.parent = id
  BY <1>5, <1>6
<1>8. Parents' = Parents
  BY DEF Parents
<1> QED
  BY <1>2, <1>4, <1>7, <1>8 DEF Marked

\* What is known of a message that is read.
LEMMA ReadMarks ==
  ASSUME NEW U, Within(U), turn \in Turns(U), Speech, Marked, Reading
  PROVE  /\ upstream.id \in MessageIds /\ turn.recorder.parent = upstream.id
         /\ upstream.id \notin Parents \union {turn.parent}
         /\ turn.recorder \in Recorders /\ turn.pc = "attempt"
BY ReadingFacts DEF Marked, Reading, Serving

\* A snapshot,
LEMMA SnapshotMarked ==
  ASSUME NEW U, Within(U), turn \in Turns(U), Speech, TakeSnapshot
  PROVE  \E line : Receive(line) /\ MarkedLine(line, upstream.id)
<1>1. PICK content \in {Null} \union NextWords, thinking \in {Null, Thought} :
        Receive(SnapshotLine(upstream.id, content, thinking))
  BY Zenon DEF TakeSnapshot
<1>2. Reading
  BY DEF TakeSnapshot
<1> DEFINE id   == upstream.id
           line == SnapshotLine(id, content, thinking)
           path == turn.path
<1>3. id \in MessageIds /\ upstream.said \in Seq(Pieces)
  BY <1>2, ReadingFacts
<1>4. content # Null => content \in Pieces
  BY <1>1, <1>3, NextPieces
<1>5. line = SnapshotLine(id, content, thinking)
  OBVIOUS
<1> HIDE DEF id, line, path
<1>6. content # Null => Reads(path, line, <<BackendMessageId(id), TextDelta(content)>>)
  BY <1>3, <1>5, SnapshotRaw, Zenon
<1>7. content = Null /\ thinking # Null =>
        Reads(path, line, <<BackendMessageId(id), ReasoningDelta(thinking)>>)
  BY <1>3, <1>5, SnapshotRaw, Zenon
<1>8. content = Null /\ thinking = Null => Reads(path, line, <<BackendMessageId(id)>>)
  BY <1>3, <1>5, SnapshotRaw, Zenon
<1>9. /\ content # Null => Audible(TextDelta(content), id)
      /\ Audible(ReasoningDelta(thinking), id) /\ Audible(BackendMessageId(id), id)
  BY <1>4, Zenon DEF Audible
<1>10. MarkedLine(line, id)
  BY <1>6, <1>7, <1>8, <1>9, Zenon DEF MarkedLine, Reads, path
<1> QED
  BY <1>1, <1>10, Zenon DEF line, id

\* a word,
LEMMA SpeakMarked ==
  ASSUME NEW U, Within(U), turn \in Turns(U), Speech, Speak
  PROVE  \E line : Receive(line) /\ MarkedLine(line, upstream.id)
<1>1. PICK v \in NextWords, p \in Named(Content), o \in {Null, "APPEND"} :
        Receive(PatchLine(p, o, v))
  BY Zenon DEF Speak
<1> DEFINE line == PatchLine(p, o, v)
<1>2. Reading
  BY DEF Speak
<1>3. turn.path = upstream.path /\ upstream.said \in Seq(Pieces)
  BY <1>2, ReadingFacts
<1>4. v \in Pieces
  BY <1>3, NextPieces
<1>5. v # Null
  BY <1>4, NullApart
<1>6. (IF p # Null THEN p ELSE turn.path) = Content
  BY <1>3, DialogueAssumption DEF Named
<1>7. IsAppend(o)
  BY DEF IsAppend
<1>8. Raw(turn.path, line) = <<TextDelta(v)>>
  BY <1>5, <1>6, <1>7, PatchRaw
<1>9. Audible(TextDelta(v), upstream.id)
  BY <1>4, Zenon DEF Audible
<1>10. MarkedLine(line, upstream.id)
  BY <1>8, <1>9, Zenon DEF MarkedLine
<1> QED
  BY <1>1, <1>10, Zenon

\* a line without one
LEMMA PatchMarked ==
  ASSUME NEW U, Within(U), turn \in Turns(U), Speech, Reading,
         NEW q \in {Thinking, Status}, NEW p \in Named(q), NEW o, NEW v,
         q = Status => v = "WIP"
  PROVE  MarkedLine(PatchLine(p, o, v), upstream.id)
<1> DEFINE line == PatchLine(p, o, v)
<1>1. turn.path = upstream.path
  BY ReadingFacts
<1>2. (IF p # Null THEN p ELSE turn.path) = q
  BY <1>1, DialogueAssumption DEF Named
<1>3. Raw(turn.path, line) = <<ReasoningDelta(v)>> \/ Raw(turn.path, line) = <<>>
  BY <1>2, PatchRaw
<1>4. Audible(ReasoningDelta(v), upstream.id)
  BY Zenon DEF Audible
<1> HIDE DEF line
<1>5. MarkedLine(line, upstream.id)
  BY <1>3, <1>4, Zenon DEF MarkedLine
<1> QED
  BY <1>5 DEF line

\* a thought or a status:
LEMMA QuietMarked ==
  ASSUME NEW U, Within(U), turn \in Turns(U), Speech, Think \/ Note
  PROVE  \E line : Receive(line) /\ MarkedLine(line, upstream.id)
<1>1. Reading
  BY DEF Think, Note
<1>2. CASE Think
  <2>1. PICK p \in Named(Thinking), o \in {Null, "APPEND"} : Receive(PatchLine(p, o, Thought))
    BY <1>2, Zenon DEF Think
  <2>2. Thinking # Status
    BY DEF Thinking, Status
  <2>3. MarkedLine(PatchLine(p, o, Thought), upstream.id)
    BY <1>1, <2>2, PatchMarked
  <2> QED
    BY <2>1, <2>3
<1>3. CASE Note
  <2>1. PICK p \in Named(Status) : Receive(PatchLine(p, Null, "WIP"))
    BY <1>3, Zenon DEF Note
  <2>2. MarkedLine(PatchLine(p, Null, "WIP"), upstream.id)
    BY <1>1, PatchMarked
  <2> QED
    BY <2>1, <2>2
<1> QED
  BY <1>2, <1>3

\* they all name the message that is read, or none.
LEMMA LinesMark ==
  ASSUME NEW U, Within(U), turn \in Turns(U), Speech, Marked,
         TakeSnapshot \/ Speak \/ Think \/ Note
  PROVE  Marked'
<1>1. Reading /\ UNCHANGED store
  BY DEF TakeSnapshot, Speak, Think, Note
<1> DEFINE id == upstream.id
<1>2. /\ id \in MessageIds /\ turn.recorder.parent = id /\ id \notin Parents \union {turn.parent}
      /\ turn.recorder \in Recorders /\ turn.pc = "attempt"
  BY <1>1, ReadMarks
<1>3. upstream \in Streams
  BY <1>1, ReadingFacts
<1>4. upstream'.id = id
  <2>1. \/ \E said : upstream' = [upstream EXCEPT !.said = said]
        \/ \E path, said : upstream' = [upstream EXCEPT !.path = path, !.said = said]
        \/ \E path : upstream' = [upstream EXCEPT !.path = path]
    BY Zenon DEF TakeSnapshot, Speak, Think, Note
  <2> QED
    BY <1>3, <2>1 DEF Streams
<1>5. PICK line : Receive(line) /\ MarkedLine(line, id)
  BY SnapshotMarked, SpeakMarked, QuietMarked, Zenon
<1> HIDE DEF id
<1> QED
  BY <1>1, <1>2, <1>4, <1>5, ReceivedMarks

\* The first line names a message that nobody knows.
LEMMA ReadyMarks ==
  ASSUME NEW U, Within(U), turn \in Turns(U), Speech, Marked, Ready
  PROVE  Marked'
<1> DEFINE id == Unused(MessageIds, IdsInUse)
           line == ReadyLine(id)
<1>1. turn.pc = "attempt" /\ Free(MessageIds, IdsInUse) /\ UNCHANGED store
      /\ upstream' = [id |-> id, path |-> Null, said |-> <<>>] /\ Receive(line)
  BY Zenon DEF Ready
<1>2. id \in MessageIds \ IdsInUse
  BY <1>1, UnusedIsFree, DialogueAssumption
<1>3. id \notin Parents \union {turn.parent}
  <2>1. Serving
    BY <1>1 DEF Serving
  <2> HIDE DEF id
  <2> QED
    BY <1>2, <2>1 DEF IdsInUse, Parents
<1> HIDE DEF id
<1>4. Raw(turn.path, line) = <<BackendMessageId(id)>>
  BY <1>2, ReadyRaw
<1>5. Audible(BackendMessageId(id), id)
  BY DEF Audible
<1> HIDE DEF line
<1>6. MarkedLine(line, id)
  BY <1>4, <1>5, Zenon DEF MarkedLine
<1>7. upstream'.id = id
  BY <1>1
<1>8. turn.recorder \in Recorders
  BY <1>1 DEF Speech, Serving, Standing
<1> QED
  BY <1>1, <1>2, <1>3, <1>4, <1>6, <1>7, <1>8, ReceivedMarks

\* What a step that hears nothing leaves of the marks.
LEMMA MarksStay ==
  ASSUME NEW U, turn \in Turns(U), Serving, Marked,
         Len(turn'.recorder.calls) <= 1, turn'.parent = turn.parent,
         upstream' # Null => turn'.recorder.parent = upstream'.id,
         Reading' => upstream'.id \notin Parents' \union {turn'.parent},
         turn'.pc = "session" => turn.pc = "session",
         turn'.mode = turn.mode, turn'.repairs > 0 => turn.repairs > 0 \/ turn.mode = "tool"
  PROVE  Marked'
BY DEF Marked

\* A turn that begins has heard nothing.
LEMMA AskMarks ==
  ASSUME NEW U, Within(U), HistorySound, StoreSound, Balance, Ask
  PROVE  Marked'
<1>1. PICK message \in NewMessages(history), mode \in Modes :
        /\ Canonical(message) \in Spoken
        /\ BeginsAs(turn', mode, Append(history, Canonical(message)))
  BY AskedAnew, Zenon
<1> DEFINE canonical == Append(history, Canonical(message))
           conv      == Resolve(store, canonical)
<1>2. /\ turn'.recorder = NewRecorder /\ turn'.repairs = 0
      /\ turn'.pc = IF Linked(conv) THEN "attempt" ELSE "session"
      /\ turn'.parent = IF Linked(conv) THEN store[conv].parent ELSE Null
  BY <1>1 DEF BeginsAs
<1> HIDE DEF canonical
<1>3. upstream' = Null
  BY DEF Ask, Balance
<1>4. Len(NewRecorder.calls) <= 1
  BY NewRecorderSound
<1>5. Linked(conv) => store[conv].parent \in MessageIds \union {Null}
  <2>1. conv # NoConv => conv \in DOMAIN store
    <3>1. PICK V : canonical \in Seq(V) /\ store \in Seq(Rows(V))
      <4> DEFINE V == U \union Spoken
      <4>1. canonical \in Seq(V)
        BY <1>1, AppendProperties DEF HistorySound, canonical
      <4>2. store \in Seq(Rows(V))
        BY Grow DEF Within
      <4> QED
        BY <4>1, <4>2
    <3> QED
      BY <3>1, ResolvedIsShorter
  <2> QED
    BY <2>1 DEF Linked, StoreSound, StoredRow
<1> HIDE DEF conv
<1> QED
  BY <1>2, <1>3, <1>4, <1>5 DEF Marked, Reading

\* The end of the answer brings no call and no other name.
LEMMA EndMarks ==
  ASSUME NEW U, Within(U), turn \in Turns(U), Speech, Marked, Reading,
         NEW line \in FinishLines, turn'.recorder = Ended(line), SaysFinished,
         turn'.pc \in {"settle", "reply"}, turn'.parent = turn.parent,
         turn'.mode = turn.mode, turn'.repairs = turn.repairs
  PROVE  Marked'
<1> DEFINE q == Ended(line)
<1>1. q.calls = turn.recorder.calls /\ q.parent = turn.recorder.parent
  BY EndedRecorder
<1> HIDE DEF q
<1>2. turn'.recorder = q
  BY DEF q
<1>3. upstream \in Streams /\ turn.recorder.parent = upstream.id
  BY ReadingFacts, ReadMarks
<1>4. upstream'.id = upstream.id
  BY <1>3 DEF SaysFinished, Streams
<1>5. Serving /\ Len(turn.recorder.calls) <= 1
  BY DEF Marked, Reading, Serving
<1>6. Len(turn'.recorder.calls) <= 1 /\ turn'.recorder.parent = upstream'.id
  BY <1>1, <1>2, <1>3, <1>4, <1>5
<1> QED
  BY <1>5, <1>6, MarksStay DEF Reading

\* Every step keeps the marks.
LEMMA MarkedStep ==
  ASSUME NEW U, Within(U), HistorySound, StoreSound, Speech, Balance, Marked, [Next]_vars
  PROVE  Marked'
<1>1. CASE ~Serving'
  BY <1>1 DEF Marked
<1>2. CASE Ask
  BY <1>2, AskMarks
<1>3. ASSUME Serving', ~Ask PROVE Marked'
  <2>1. Serving /\ turn \in Turns(U)
    BY <1>3, Steps
  <2>2. /\ Len(turn.recorder.calls) <= 1
        /\ upstream # Null => turn.recorder.parent = upstream.id
    BY <2>1 DEF Marked
  <2>3. CASE SessionOpened
    <3>1. /\ SameRequest /\ turn'.pc = "attempt" /\ turn'.recorder = turn.recorder
          /\ turn'.repairs = turn.repairs
      BY <2>1, <2>3, OpenedTurn
    <3>2. upstream = Null /\ upstream' = Null
      BY <2>1, <2>3 DEF SessionOpened, Speech, Upheld
    <3> QED
      BY <2>1, <2>2, <3>1, <3>2, MarksStay DEF Reading, SameRequest
  <2>4. ASSUME turn.pc \in {"session", "attempt"}, NEW failure, Retry(failure) PROVE Marked'
    <3>1. /\ SameRequest /\ turn'.pc = turn.pc /\ turn'.recorder = NewRecorder
          /\ turn'.repairs = turn.repairs
      BY <2>1, <2>4, RetriedTurn
    <3>2. upstream' = Null
      BY <2>4 DEF Retry
    <3>3. Len(turn'.recorder.calls) <= 1
      BY <3>1, NewRecorderSound
    <3> QED
      BY <2>1, <3>1, <3>2, <3>3, MarksStay DEF Reading, SameRequest
  <2>5. CASE Ready
    BY <2>1, <2>5, ReadyMarks
  <2>6. CASE TakeSnapshot \/ Speak \/ Think \/ Note
    BY <2>1, <2>6, LinesMark
  <2>7. CASE DrainEnds
    <3>1. PICK line \in FinishLines :
            /\ SameRequest /\ turn'.pc = "settle" /\ turn'.recorder = Ended(line)
            /\ turn'.repairs = turn.repairs
      BY <2>1, <2>7, DrainedTurn
    <3>2. Reading /\ SaysFinished
      BY <2>7 DEF DrainEnds
    <3> QED
      BY <2>1, <3>1, <3>2, EndMarks DEF SameRequest
  <2>8. CASE StreamEnds
    <3>1. PICK line \in FinishLines : Commit(PathAfter(turn.path, line), Ended(line), "reply")
      BY <2>8 DEF StreamEnds
    <3>2. /\ turn'.pc = "reply" /\ turn'.mode = turn.mode /\ turn'.parent = turn.parent
          /\ turn'.recorder = Ended(line) /\ turn'.repairs = turn.repairs
      BY <2>1, <3>1, CommittedTurn
    <3>3. Reading /\ SaysFinished
      BY <2>8 DEF StreamEnds
    <3> QED
      BY <2>1, <3>2, <3>3, EndMarks
  <2>9. CASE RepairRetry
    <3>1. /\ SameRequest /\ turn'.pc = "attempt" /\ turn'.recorder = NewRecorder
      BY <2>1, <2>9, RepairedTurn
    <3>2. upstream' = Null /\ turn.mode = "tool"
      BY <2>9 DEF RepairRetry, CanRepair, ToolMode
    <3>3. Len(turn'.recorder.calls) <= 1
      BY <3>1, NewRecorderSound
    <3> QED
      BY <2>1, <3>1, <3>2, <3>3, MarksStay DEF Reading, SameRequest
  <2>10. CASE CommitDrained
    <3> DEFINE next == IF turn.repairs > 0 THEN "unlink" ELSE "reply"
    <3>1. Commit(turn.path, turn.recorder, next) /\ upstream' = upstream
      BY <2>10 DEF CommitDrained
    <3>2. next \in {"unlink", "reply"}
      OBVIOUS
    <3> HIDE DEF next
    <3>3. /\ turn'.pc = next /\ turn'.mode = turn.mode /\ turn'.parent = turn.parent
          /\ turn'.recorder = turn.recorder /\ turn'.repairs = turn.repairs
      BY <2>1, <3>1, CommittedTurn
    <3> QED
      BY <2>1, <2>2, <3>1, <3>2, <3>3, MarksStay DEF Reading
  <2>11. CASE UnlinkRepaired
    <3>1. /\ SameRequest /\ turn'.pc = "reply" /\ turn'.recorder = turn.recorder
          /\ turn'.repairs = turn.repairs
      BY <2>1, <2>11, UnlinkedTurn
    <3>2. upstream' = upstream
      BY <2>11 DEF UnlinkRepaired
    <3> QED
      BY <2>1, <2>2, <3>1, <3>2, MarksStay DEF Reading, SameRequest
  <2>12. CASE UNCHANGED vars
    BY <2>12 DEF vars, Marked, Reading, Serving, Parents
  <2> QED
    BY <1>3, <2>3, <2>4, <2>5, <2>6, <2>7, <2>8, <2>9, <2>10, <2>11, <2>12, Steps
<1> QED
  BY <1>1, <1>2, <1>3

\* What is told answers every call that has a result.
LEMMA ToldAnswered ==
  ASSUME HistorySound, Asked, Answered(turn.incoming), NEW r \in Recorders
  PROVE  Answered(Told(r))
<1>1. turn.incoming \in Seq(Spoken)
  BY AppendProperties DEF HistorySound, Asked
<1> DEFINE reply == AssistantMessage(r)
<1>2. reply \in Spoken
  BY AnswerSpoken
<1>3. reply.role = "assistant"
  BY DEF AssistantMessage, CanonicalMessage
<1> HIDE DEF reply
<1>4. Answered(Append(turn.incoming, reply))
  BY <1>1, <1>2, <1>3, AnsweredMore
<1> QED
  BY <1>4 DEF Told, reply

\* Every step keeps the histories answered.
LEMMA AnswerableStep ==
  ASSUME NEW U, Within(U), Bounded, HistorySound, Speech, Speech', Serving => Asked,
         Answerable, [Next]_vars
  PROVE  Answerable'
<1>1. Answered(history')
  <2>1. CASE history' = history
    BY <2>1 DEF Answerable
  <2>2. CASE Tell
    <3>1. history' = Told(turn.recorder) /\ turn.recorder \in Recorders /\ Serving
      BY <2>2, ToldAnswer
    <3> QED
      BY <3>1, ToldAnswered DEF Answerable
  <2> QED
    BY <2>1, <2>2, HistorySteps
<1>2. ASSUME Serving' PROVE Answered(turn'.incoming)
  <2>1. CASE Ask
    <3>1. PICK message \in NewMessages(history), mode \in Modes :
            /\ Acceptable(message) /\ Canonical(message) \in Spoken
            /\ BeginsAs(turn', mode, Append(history, Canonical(message)))
      BY <2>1, AskedAnew, Zenon
    <3>2. history \in Seq(Spoken)
      BY DEF HistorySound
    <3>3. Canonical(message).role = "tool" => Canonical(message).id \in CallIdsIn(history)
      BY <3>1, <3>2, AnswersCall
    <3> DEFINE new == Canonical(message)
    <3>4. turn'.incoming = Append(history, new)
      BY <3>1, Zenon DEF BeginsAs
    <3>5. new \in Spoken /\ (new.role = "tool" => new.id \in CallIdsIn(history))
      BY <3>1, <3>3
    <3> HIDE DEF new
    <3>6. Answered(history)
      BY DEF Answerable
    <3> QED
      BY <3>2, <3>4, <3>5, <3>6, AnsweredMore
  <2>2. CASE ~Ask
    <3>1. Serving /\ turn'.incoming = turn.incoming
      BY <1>2, <2>2, TurnFixed DEF FixedFields
    <3> QED
      BY <3>1 DEF Answerable
  <2> QED
    BY <2>1, <2>2
<1>3. \A c \in DOMAIN store' : Answered(store'[c].messages)
  <2>1. CASE UNCHANGED store
    BY <2>1 DEF Answerable
  <2>2. CASE EmptyStore
    <3>1. DOMAIN store' = {}
      BY <2>2, EmptySeq DEF EmptyStore
    <3> QED
      BY <3>1
  <2>3. CASE Serving /\ Invalidate(turn.conv)
    <3>1. store \in Seq(Rows(U))
      BY DEF Within
    <3>2. ASSUME NEW c \in DOMAIN store' PROVE Answered(store'[c].messages)
      <4>1. c \in DOMAIN store /\ store'[c].messages = store[c].messages
        BY <2>3, <3>1, <3>2, InvalidatedRows
      <4> QED
        BY <4>1 DEF Answerable
    <3> QED
      BY <3>2
  <2>4. ASSUME Serving, NEW path, NEW recorder, NEW next \in {"unlink", "reply"},
               Commit(path, recorder, next)
        PROVE  \A c \in DOMAIN store' : Answered(store'[c].messages)
    <3>1. recorder \in Recorders
      <4>1. turn'.pc = next /\ turn'.recorder = recorder
        BY <2>4, ServingTurn, CommittedTurn
      <4>2. Serving'
        BY <2>4, <4>1 DEF Serving
      <4> QED
        BY <4>1, <4>2 DEF Speech, Standing
    <3>2. Answered(Told(recorder))
      BY <2>4, <3>1, ToldAnswered DEF Answerable
    <3>3. ASSUME NEW c \in DOMAIN store' PROVE Answered(store'[c].messages)
      <4>1. CASE c # turn'.conv
        <5>1. PICK j \in DOMAIN store : store'[c] = store[j]
          BY <2>4, <4>1, CommitRows
        <5> QED
          BY <5>1 DEF Answerable
      <4>2. CASE c = turn'.conv /\ turn'.conv # NoConv
        <5>1. store'[c].messages = Told(recorder)
          BY <2>4, <4>2, CommitRows DEF Filled
        <5> QED
          BY <3>2, <5>1
      <4>3. c # NoConv
        <5>1. \E W : store' \in Seq(Rows(W))
          <6>1. \E W : Within(W)'
            BY TypedStep DEF Typed
          <6> QED
            BY <6>1 DEF Within
        <5> QED
          BY <5>1, LenProperties DEF NoConv
      <4> QED
        BY <4>1, <4>2, <4>3
    <3> QED
      BY <3>3
  <2> QED
    BY <2>1, <2>2, <2>3, <2>4, StoreSteps
<1> QED
  BY <1>1, <1>2, <1>3 DEF Answerable

-----------------------------------------------------------------------------
(* What upstream remembers.                                                *)

\* Upstream remembers something when an answer ends, and forgets only what
\* nobody refers to.
LEMMA MemorySteps ==
  ASSUME [Next]_vars
  PROVE  memory' = memory \/ Retain \/ (Reading /\ Remember)
<1>1. CASE SessionFailed \/ Garbage \/ Truncate \/ Raise
  BY <1>1 DEF SessionFailed, Garbage, Truncate, Raise, Fail
<1>2. CASE DrainEnds \/ StreamEnds
  BY <1>2 DEF DrainEnds, StreamEnds
<1>3. CASE RepairRetry \/ Tell \/ Lose \/ Restart
  BY <1>3 DEF RepairRetry, Tell, Lose, Restart
<1>4. CASE Ask \/ SessionOpened \/ Ready \/ TakeSnapshot \/ Speak \/ Think \/ Note
  BY <1>4 DEF Ask, SessionOpened, Ready, TakeSnapshot, Speak, Think, Note
<1>5. CASE CommitDrained \/ UnlinkRepaired
  BY <1>5 DEF CommitDrained, UnlinkRepaired
<1>6. CASE UNCHANGED vars
  BY <1>6 DEF vars
<1> QED
  BY <1>1, <1>2, <1>3, <1>4, <1>5, <1>6 DEF Next

\* and stays one.
LEMMA TabledStep ==
  ASSUME Tabled, [Next]_vars
  PROVE  Tabled'
<1>1. CASE memory' = memory
  BY <1>1 DEF Tabled
<1>2. CASE Retain
  BY <1>2 DEF Retain, Tabled
<1>3. CASE Remember
  BY <1>3 DEF Remember, Tabled
<1> QED
  BY <1>1, <1>2, <1>3, MemorySteps

\* A branch somebody refers to stays, unless it is the one that is read.
LEMMA BranchKept ==
  ASSUME Tabled, [Next]_vars, NEW parent \in MessageIds \union {Null}, NEW session,
         parent # Null => parent \in IdsInUse', Reading => parent # upstream.id
  PROVE  At(memory', session, parent) = At(memory, session, parent)
<1>1. CASE parent = Null
  BY <1>1 DEF At
<1>2. ASSUME parent # Null PROVE memory'[parent] = memory[parent]
  <2>1. CASE Retain
    BY <1>2, <2>1 DEF Retain
  <2>2. CASE Reading /\ Remember
    BY <1>2, <2>2 DEF Remember, Tabled
  <2> QED
    BY <2>1, <2>2, MemorySteps
<1> QED
  BY <1>1, <1>2 DEF At

\* What is on a branch comes in such blocks.
LEMMA AtSound ==
  ASSUME ToldSound, NEW session, NEW parent \in MessageIds \union {Null}
  PROVE  At(memory, session, parent) \in Seq(ToldBlocks)
<1>1. <<>> \in Seq(ToldBlocks)
  OBVIOUS
<1>2. parent # Null => memory[parent].told \in Seq(ToldBlocks)
  BY DEF ToldSound
<1> QED
  BY <1>1, <1>2 DEF At

\* What an attempt is told: what is sent, or of that the words.
LEMMA PromptHeard ==
  ASSUME HistorySound, Asked, Prompted, Answered(turn.incoming)
  PROVE  /\ Before \in Seq(Spoken) /\ Answered(Before) /\ turn.sent \in Seq(Spoken)
         /\ turn.prompt = IF BareAttempt THEN WordsOf(Voices(turn.sent)) ELSE Voices(turn.sent)
         /\ Compile(turn.sent, turn.incoming) = Voices(turn.sent)
         /\ turn.prompt \in Seq(VoiceBlocks)
         /\ Voices(turn.incoming) = Voices(Before) \o Voices(turn.sent)
<1> DEFINE s == turn.incoming
           b == turn.sent
           n == Len(s)
<1>1. s \in Seq(Spoken) /\ Len(s) = Len(history) + 1 /\ Len(history) \in Nat
  BY AppendProperties, LenProperties DEF HistorySound, Asked
<1>2. PICK known \in 0..Len(history) : b = Delta(s, known)
  BY DEF Asked
<1>3. known \in 0..n /\ n \in Nat
  BY <1>1, <1>2
<1>4. b \in Seq(Spoken) /\ Len(b) = n - known
  BY <1>1, <1>2, <1>3, Divided
<1>5. n - Len(b) = known
  BY <1>3, <1>4
<1>6. Before = Upto(s, known)
  BY <1>5 DEF Before
<1>7. Before \in Seq(Spoken) /\ Answered(Before)
  BY <1>1, <1>3, <1>6, Divided, AnsweredBefore
<1>8. Compile(b, s) = Voices(b) /\ Voices(s) = Voices(Before) \o Voices(b)
  BY <1>1, <1>2, <1>3, <1>6, RestCompiled, VoicesDivided
<1> DEFINE bare == StripToolHistory(b)
<1>9. bare \in Seq(Bare)
  BY <1>4, StrippedBare
<1>10. bare \in Seq(Spoken) /\ Answered(bare)
  BY <1>9, BareSpoken
<1>11. <<>> \in Seq(Spoken)
  OBVIOUS
<1>12. Compile(bare, <<>>) = Voices(bare) /\ Voices(bare) = WordsOf(Voices(b))
  BY <1>4, <1>10, <1>11, AllCompiled, StrippedWords
<1>13. turn.prompt = IF BareAttempt THEN Compile(bare, <<>>) ELSE Compile(b, s)
  BY Zenon DEF Prompted, RepairBase, BareAttempt, RetryBase
<1>14. Voices(bare) \in Seq(VoiceBlocks) /\ Voices(b) \in Seq(VoiceBlocks)
  BY <1>4, <1>10, VoicedBlocks, SpreadFew, Zenon DEF Voices
<1> HIDE DEF bare
<1> QED
  BY <1>4, <1>7, <1>8, <1>12, <1>13, <1>14

\* What is remembered when an answer ends: what was heard before, what this
\* attempt was told, and what is heard of the answer.
LEMMA Remembered ==
  ASSUME NEW U, Within(U), turn \in Turns(U), HistorySound, Asked, Prompted,
         Answered(turn.incoming), Speech, Marked, ToldSound, Tabled, Reading, Remember
  PROVE  /\ memory'[upstream.id].session = turn.session
         /\ memory'[upstream.id].told \in Seq(ToldBlocks)
         /\ Heeded(memory'[upstream.id].told)
              = Heeded(At(memory, turn.session, turn.parent)) \o turn.prompt
                  \o SayingBlocks(Saying(upstream.said, ToolMode), ToolCall)
         /\ \A id \in MessageIds : id # upstream.id => memory'[id] = memory[id]
<1> DEFINE id == upstream.id
           said == Utterance(upstream.said, ToolMode)
           heard == SayingBlocks(Saying(upstream.said, ToolMode), ToolCall)
           branch == At(memory, turn.session, turn.parent)
           prompt == turn.prompt
<1>1. id \in MessageIds /\ turn.recorder \in Recorders
  BY ReadMarks
<1>2. upstream.said \in Seq(Pieces) /\ Says(turn.recorder, upstream.said, ToolMode)
  BY ReadingFacts
<1>3. Saying(upstream.said, ToolMode).words \in Seq(Pieces)
  BY <1>1, <1>2 DEF Says, Recorders
<1>4. said \in Seq(ToldBlocks) /\ Heeded(said) = heard
  BY <1>2, <1>3, UtteranceHeeded
<1>5. branch \in Seq(ToldBlocks)
  BY AtSound DEF Marked, Serving, Reading
<1>6. prompt \in Seq(ToldBlocks) /\ Heeded(prompt) = prompt
  BY PromptHeard, HeededVoices
<1>7. branch = Context(turn.session, turn.parent)
  BY DEF At, Context
<1>8. memory' = [memory EXCEPT ![id] = [session |-> turn.session,
                                        told    |-> branch \o prompt \o said]]
  BY <1>7, Zenon DEF Remember
<1> HIDE DEF said, branch, id, heard, prompt
<1>9. /\ memory'[id].session = turn.session /\ memory'[id].told = branch \o prompt \o said
      /\ \A other \in MessageIds : other # id => memory'[other] = memory[other]
  BY <1>1, <1>8 DEF Tabled
<1>10. branch \o prompt \in Seq(ToldBlocks) /\ Heeded(branch \o prompt) = Heeded(branch) \o prompt
  BY <1>5, <1>6, Joined, HeededJoined
<1>11. /\ (branch \o prompt) \o said \in Seq(ToldBlocks)
       /\ Heeded((branch \o prompt) \o said) = Heeded(branch \o prompt) \o Heeded(said)
  BY <1>4, <1>10, Joined, HeededJoined
<1> QED
  BY <1>4, <1>9, <1>10, <1>11 DEF id, heard, branch, prompt

\* Upstream is told nothing but such blocks.
LEMMA ToldSoundStep ==
  ASSUME NEW U, Within(U), HistorySound, Serving => Asked /\ Prompted, Answerable, Speech, Marked,
         ToldSound, Tabled, [Next]_vars
  PROVE  ToldSound'
<1>1. CASE memory' = memory
  BY <1>1 DEF ToldSound
<1>2. CASE Retain
  <2>1. Forgotten.told \in Seq(ToldBlocks)
    BY DEF Forgotten
  <2>2. \A id \in MessageIds : memory'[id] = memory[id] \/ memory'[id] = Forgotten
    BY <1>2 DEF Retain
  <2> QED
    BY <2>1, <2>2, Zenon DEF ToldSound
<1>3. CASE Reading /\ Remember
  <2>1. Serving
    BY <1>3 DEF Reading, Serving
  <2>2. turn \in Turns(U) /\ Answered(turn.incoming)
    BY <2>1, ServingTurn DEF Answerable
  <2>3. /\ memory'[upstream.id].told \in Seq(ToldBlocks)
        /\ \A id \in MessageIds : id # upstream.id => memory'[id] = memory[id]
    BY <1>3, <2>1, <2>2, Remembered
  <2> QED
    BY <2>3 DEF ToldSound
<1> QED
  BY <1>1, <1>2, <1>3, MemorySteps

\* The answer of a first attempt makes the branch of its message the history
\* with the answer.
LEMMA EndTold ==
  ASSUME NEW U, Within(U), turn \in Turns(U), HistorySound, Asked, Prompted,
         Answered(turn.incoming), Speech, Marked, TurnTold, ToldSound, Tabled, Reading,
         turn.repairs = 0, NEW line \in FinishLines, Remember
  PROVE  Heeded(At(memory', turn.session, Ended(line).parent)) = Voices(Told(Ended(line)))
<1> DEFINE q == Ended(line)
           id == upstream.id
           heard == SayingBlocks(Saying(upstream.said, ToolMode), ToolCall)
           branch == At(memory, turn.session, turn.parent)
           answer == AssistantMessage(q)
<1>1. /\ q \in Recorders /\ q.text = turn.recorder.text /\ q.calls = turn.recorder.calls
      /\ q.parent = turn.recorder.parent
  BY EndedRecorder
<1>2. id \in MessageIds /\ turn.recorder.parent = id /\ turn.pc = "attempt"
  BY ReadMarks
<1>3. Says(turn.recorder, upstream.said, ToolMode)
  BY ReadingFacts
<1>4. Serving /\ Len(turn.recorder.calls) <= 1
  BY <1>2 DEF Marked, Serving
<1>5. turn.incoming \in Seq(Spoken)
  BY AppendProperties DEF HistorySound, Asked
<1>6. /\ memory'[id].session = turn.session
      /\ Heeded(memory'[id].told) = Heeded(branch) \o turn.prompt \o heard
  BY Remembered
<1>7. turn.prompt = Voices(turn.sent) /\ Voices(turn.incoming) = Voices(Before) \o Voices(turn.sent)
  <2>1. ~BareAttempt
    BY <1>4 DEF TurnTold, BareAttempt
  <2> QED
    BY <2>1, PromptHeard
<1>8. Heeded(branch) = Voices(Before)
  BY <1>2, <1>4 DEF TurnTold
<1> HIDE DEF heard, branch, id
<1>9. Heeded(memory'[id].told) = Voices(turn.incoming) \o heard
  BY <1>6, <1>7, <1>8
<1> HIDE DEF q
<1>10. Says(q, upstream.said, ToolMode) /\ Len(q.calls) <= 1
  BY <1>1, <1>3, <1>4 DEF Says
<1>11. Voice(answer) = heard
  BY <1>1, <1>10, SayingVoice DEF heard
<1>12. answer \in Spoken
  BY <1>1, AnswerSpoken
<1> HIDE DEF answer
<1>13. Voices(Append(turn.incoming, answer)) = Voices(turn.incoming) \o heard
  BY <1>5, <1>11, <1>12, VoicesMore
<1>14. q.parent = id /\ id # Null
  BY <1>1, <1>2, NullApart
<1>15. At(memory', turn.session, q.parent) = memory'[id].told
  BY <1>6, <1>14 DEF At
<1> QED
  BY <1>9, <1>13, <1>15 DEF Told, q, answer

\* A request that begins goes on where its conversation is at upstream, or
\* tells everything.
LEMMA AskTold ==
  ASSUME NEW U, Within(U), HistorySound, StoreSound, StoreTold, Answerable', Ask
  PROVE  TurnTold'
<1>1. PICK message \in NewMessages(history), mode \in Modes :
        /\ Canonical(message) \in Spoken
        /\ BeginsAs(turn', mode, Append(history, Canonical(message)))
  BY AskedAnew, Zenon
<1> DEFINE canonical == Append(history, Canonical(message))
           conv      == Resolve(store, canonical)
           known     == Len(store[conv].messages)
           sent      == IF Linked(conv) THEN Delta(canonical, known) ELSE canonical
<1>2. /\ turn'.incoming = canonical
      /\ turn'.pc = IF Linked(conv) THEN "attempt" ELSE "session"
      /\ turn'.session = IF Linked(conv) THEN store[conv].session ELSE Null
      /\ turn'.parent = IF Linked(conv) THEN store[conv].parent ELSE Null
      /\ turn'.sent = sent /\ turn'.simulated = FALSE
  BY <1>1, Zenon DEF BeginsAs
<1>3. canonical \in Seq(Spoken)
  BY <1>1, AppendProperties DEF HistorySound
<1> HIDE DEF canonical, known, sent
<1>4. turn'.pc \in {"session", "attempt"}
  BY <1>2
<1>5. Answered(canonical)
  BY <1>2, <1>4 DEF Answerable, Serving
<1>6. memory' = memory /\ turn.pc # "unlink"
  BY DEF Ask, Serving
<1>7. ASSUME Linked(conv)
      PROVE  /\ conv \in DOMAIN store /\ known \in 0..Len(canonical)
             /\ store[conv].messages = Upto(canonical, known)
  <2>1. PICK V : canonical \in Seq(V) /\ store \in Seq(Rows(V))
    <3> DEFINE V == U \union Spoken
    <3>1. canonical \in Seq(V)
      BY <1>3
    <3>2. store \in Seq(Rows(V))
      BY Grow DEF Within
    <3> QED
      BY <3>1, <3>2
  <2>2. conv # NoConv
    BY <1>7 DEF Linked
  <2>3. /\ conv \in DOMAIN store /\ known \in 0..(Len(canonical) - 1)
        /\ store[conv].messages = SubSeq(canonical, 1, known)
    BY <2>1, <2>2, ResolvedIsShorter DEF known
  <2>4. known \in 0..Len(canonical)
    <3> DEFINE n == Len(canonical)
    <3>1. n \in Nat
      BY <1>3, LenProperties
    <3> HIDE DEF n
    <3>2. known \in 0..(n - 1)
      BY <2>3 DEF n
    <3>3. known \in 0..n
      BY <3>1, <3>2
    <3> QED
      BY <3>3 DEF n
  <2> QED
    BY <2>3, <2>4 DEF Upto
<1> HIDE DEF conv
<1> DEFINE n == Len(canonical)
<1>8. n \in Nat
  BY <1>3, LenProperties
<1>9. ASSUME Linked(conv)
      PROVE  Heeded(At(memory, turn'.session, turn'.parent)) = Voices(Upto(canonical, n - Len(sent)))
  <2>1. BranchTold(memory, store[conv])
    BY <1>6, <1>7, <1>9 DEF StoreTold
  <2>2. store[conv].session # Null
    BY <1>9 DEF Linked
  <2>3. Heeded(At(memory, store[conv].session, store[conv].parent)) = Voices(Upto(canonical, known))
    BY <1>7, <1>9, <2>1, <2>2 DEF BranchTold
  <2>4. known \in 0..n /\ sent = Delta(canonical, known)
    BY <1>7, <1>9 DEF sent
  <2>5. Len(sent) = n - known
    BY <1>3, <2>4, Divided
  <2>6. n - Len(sent) = known
    BY <1>8, <2>4, <2>5
  <2> QED
    BY <1>2, <1>9, <2>3, <2>6
<1>10. ASSUME ~Linked(conv)
       PROVE  Heeded(At(memory, turn'.session, turn'.parent)) = Voices(Upto(canonical, n - Len(sent)))
  <2>1. At(memory, turn'.session, turn'.parent) = <<>>
    BY <1>2, <1>10 DEF At
  <2>2. n - Len(sent) = 0
    BY <1>8, <1>10 DEF sent
  <2>3. Upto(canonical, 0) = <<>>
    BY <1>3, FirstParts
  <2>4. <<>> \in Seq(VoiceBlocks)
    OBVIOUS
  <2>5. Heeded(<<>>) = <<>>
    BY <2>4, HeededVoices
  <2>6. Voices(<<>>) = <<>>
    BY VoicedBlocks, SpreadFew, Zenon DEF Voices
  <2> QED
    BY <2>1, <2>2, <2>3, <2>5, <2>6
<1> HIDE DEF n
<1>11. Heeded(At(memory', turn'.session, turn'.parent)) = Voices(Before')
  BY <1>2, <1>6, <1>9, <1>10 DEF Before, n
<1> QED
  BY <1>2, <1>11 DEF TurnTold

\* Every step of a request keeps what it has told.
LEMMA TurnToldStep ==
  ASSUME NEW U, Within(U), HistorySound, StoreSound, Serving => Asked /\ Prompted,
         Speech, Marked, StoreTold, TurnTold, ToldSound, Tabled, Balance,
         Answerable, Answerable', [Next]_vars
  PROVE  TurnTold'
<1>1. CASE ~Serving'
  BY <1>1 DEF TurnTold
<1>2. CASE Ask
  BY <1>2, AskTold
<1>3. ASSUME Serving', ~Ask PROVE TurnTold'
  <2>1. Serving /\ turn \in Turns(U)
    BY <1>3, Steps
  <2>2. /\ At(memory', turn.session, turn'.parent) = At(memory, turn.session, turn.parent)
        /\ Before' = Before
    <3>1. turn'.parent = turn.parent /\ Before' = Before
      BY <1>3, TurnFixed DEF FixedFields, Before
    <3>2. turn.parent \in MessageIds \union {Null} /\ (Reading => turn.parent # upstream.id)
      BY <2>1 DEF Marked
    <3>3. turn'.parent \in IdsInUse'
      BY <1>3 DEF IdsInUse
    <3> QED
      BY <3>1, <3>2, <3>3, BranchKept
  <2>3. CASE SessionOpened
    <3>1. /\ SameRequest /\ turn'.pc = "attempt" /\ turn'.simulated = turn.simulated
          /\ turn'.repairs = turn.repairs
      BY <2>1, <2>3, OpenedTurn
    <3>2. memory' = memory /\ turn.pc = "session"
      BY <2>3 DEF SessionOpened
    <3>3. turn.parent = Null /\ turn'.parent = Null
      BY <2>1, <3>1, <3>2 DEF Marked, SameRequest
    <3>4. \A s : At(memory, s, turn.parent) = <<>>
      BY <3>3 DEF At
    <3> QED
      BY <2>1, <2>2, <3>1, <3>2, <3>3, <3>4 DEF TurnTold
  <2>4. ASSUME turn.pc \in {"session", "attempt"}, NEW failure, Retry(failure)
        PROVE  TurnTold'
    <3>1. /\ SameRequest /\ turn'.pc = turn.pc /\ turn'.session = turn.session
          /\ turn'.simulated = turn.simulated /\ turn'.repairs = turn.repairs
      BY <2>1, <2>4, RetriedTurn
    <3> QED
      BY <2>1, <2>2, <2>4, <3>1 DEF TurnTold
  <2>5. CASE Ready \/ TakeSnapshot \/ Speak \/ Think \/ Note
    <3>1. turn.pc = "attempt" /\ \E line : Receive(line)
      BY <2>5, Zenon DEF Ready, TakeSnapshot, Speak, Think, Note, Reading
    <3>2. /\ turn'.pc = turn.pc /\ turn'.session = turn.session
          /\ turn'.simulated = turn.simulated /\ turn'.repairs = turn.repairs
      BY <2>1, <3>1, ReceivedTurn
    <3> QED
      BY <2>1, <2>2, <3>1, <3>2 DEF TurnTold
  <2>6. CASE DrainEnds
    <3>1. PICK line \in FinishLines :
            /\ SameRequest /\ turn'.pc = "settle" /\ turn'.session = turn.session
            /\ turn'.recorder = Ended(line) /\ turn'.repairs = turn.repairs
            /\ turn'.simulated = turn.simulated
      BY <2>1, <2>6, DrainedTurn
    <3>2. Reading /\ Remember /\ turn.pc = "attempt" /\ Answered(turn.incoming)
      BY <2>1, <2>6 DEF DrainEnds, Reading, Answerable
    <3>3. turn.repairs = 0 =>
            Heeded(At(memory', turn.session, Ended(line).parent)) = Voices(Told(Ended(line)))
      BY <2>1, <3>2, EndTold
    <3>4. Told(turn.recorder)' = Told(Ended(line))
      BY <3>1 DEF Told, SameRequest
    <3> QED
      BY <2>1, <2>2, <3>1, <3>2, <3>3, <3>4 DEF TurnTold
  <2>7. CASE RepairRetry
    <3>1. /\ turn'.repairs = turn.repairs + 1 /\ turn'.pc = "attempt"
          /\ turn'.session = turn.session
      BY <2>1, <2>7, RepairedTurn
    <3>2. turn.repairs \in Nat
      BY <2>1, TurnFields DEF MaxToolRepairAttempts
    <3>3. turn.pc = "settle"
      BY <2>7 DEF RepairRetry
    <3> QED
      BY <2>1, <2>2, <3>1, <3>2, <3>3 DEF TurnTold
  <2>8. CASE StreamEnds
    <3>1. \E path, recorder : Commit(path, recorder, "reply")
      BY <2>8, Zenon DEF StreamEnds
    <3>2. /\ turn'.pc = "reply" /\ turn'.repairs = turn.repairs
          /\ turn'.simulated = turn.simulated
      BY <2>1, <3>1, CommittedTurn
    <3> QED
      BY <2>1, <3>2 DEF TurnTold
  <2>9. CASE CommitDrained
    <3> DEFINE next == IF turn.repairs > 0 THEN "unlink" ELSE "reply"
    <3>1. Commit(turn.path, turn.recorder, next)
      BY <2>9, Zenon DEF CommitDrained
    <3>2. next \in {"unlink", "reply"}
      OBVIOUS
    <3> HIDE DEF next
    <3>3. /\ turn'.pc = next /\ turn'.repairs = turn.repairs
          /\ turn'.simulated = turn.simulated
      BY <2>1, <3>1, CommittedTurn
    <3> QED
      BY <2>1, <3>2, <3>3 DEF TurnTold
  <2>10. CASE UnlinkRepaired
    <3>1. /\ turn'.pc = "reply" /\ turn'.repairs = turn.repairs
          /\ turn'.simulated = turn.simulated
      BY <2>1, <2>10, UnlinkedTurn
    <3> QED
      BY <2>1, <3>1 DEF TurnTold
  <2>11. CASE UNCHANGED vars
    BY <2>11 DEF vars, TurnTold, Serving, Told, Before
  <2> QED
    BY <1>3, <2>3, <2>4, <2>5, <2>6, <2>7, <2>8, <2>9, <2>10, <2>11, Steps
<1> QED
  BY <1>1, <1>2, <1>3

\* The branch of a row that stays is the same.
LEMMA RowKept ==
  ASSUME StoreSound, Marked, Tabled, [Next]_vars,
         NEW i \in DOMAIN store', NEW j \in DOMAIN store, store'[i] = store[j],
         BranchTold(memory, store[j])
  PROVE  BranchTold(memory', store'[i])
<1> DEFINE parent == store[j].parent
<1>1. parent \in MessageIds \union {Null} /\ parent \in Parents
  BY DEF StoreSound, StoredRow, Parents
<1>2. parent \in IdsInUse'
  BY DEF IdsInUse
<1>3. Reading => parent # upstream.id
  BY <1>1 DEF Marked, Reading, Serving
<1> HIDE DEF parent
<1>4. \A s : At(memory', s, parent) = At(memory, s, parent)
  BY <1>1, <1>2, <1>3, BranchKept
<1> QED
  BY <1>4 DEF BranchTold, parent

\* A row that loses its link has no branch.
LEMMA DroppedTold ==
  ASSUME NEW U, Within(U), StoreSound, Marked, Tabled, [Next]_vars, Invalidate(turn.conv),
         NEW c \in DOMAIN store',
         c # turn.conv => BranchTold(memory, store[c])
  PROVE  BranchTold(memory', store'[c])
<1>1. store \in Seq(Rows(U))
  BY DEF Within
<1>2. c \in DOMAIN store /\ (c # turn.conv => store'[c] = store[c])
  BY <1>1, InvalidatedRows
<1>3. c # NoConv
  BY <1>1, <1>2, LenProperties DEF NoConv
<1>4. CASE c = turn.conv
  <2>1. store'[c].session = Null
    BY <1>1, <1>2, <1>3, <1>4, InvalidatedRows
  <2> QED
    BY <2>1 DEF BranchTold
<1>5. CASE c # turn.conv
  BY <1>2, <1>5, RowKept
<1> QED
  BY <1>4, <1>5

\* The branch of a turn that is committed after its first attempt.
LEMMA CommitTold ==
  ASSUME NEW U, Within(U), HistorySound, StoreSound, Serving, Asked, Prompted,
         Answered(turn.incoming), Speech, Marked, TurnTold, ToldSound, Tabled,
         StreamEnds \/ CommitDrained,
         NEW path, NEW recorder, NEW next, Commit(path, recorder, next), turn'.pc = "reply"
  PROVE  Heeded(At(memory', turn.session, recorder.parent)) = Voices(Told(recorder))
<1>1. turn \in Turns(U)
  BY ServingTurn
<1>2. turn'.recorder = recorder
  BY <1>1, CommittedTurn
<1>3. CASE StreamEnds
  <2>1. PICK line \in FinishLines : Commit(PathAfter(turn.path, line), Ended(line), "reply")
    BY <1>3 DEF StreamEnds
  <2>2. turn'.recorder = Ended(line)
    BY <1>1, <2>1, CommittedTurn
  <2>3. Reading /\ Remember /\ turn.mode = "stream"
    BY <1>3 DEF StreamEnds
  <2>4. turn.repairs = 0
    <3>1. turn.repairs \in Nat
      BY <1>1, TurnFields DEF MaxToolRepairAttempts
    <3> QED
      BY <2>3, <3>1 DEF Marked
  <2> QED
    BY <1>1, <1>2, <2>2, <2>3, <2>4, EndTold
<1>4. CASE CommitDrained
  <2>1. /\ Commit(turn.path, turn.recorder, IF turn.repairs > 0 THEN "unlink" ELSE "reply")
        /\ turn.pc = "settle" /\ memory' = memory
    BY <1>4, Zenon DEF CommitDrained
  <2>2. turn'.recorder = turn.recorder
        /\ turn'.pc = IF turn.repairs > 0 THEN "unlink" ELSE "reply"
    BY <1>1, <2>1, CommittedTurn
  <2>3. turn.repairs = 0
    <3>1. turn.repairs \in Nat
      BY <1>1, TurnFields DEF MaxToolRepairAttempts
    <3> QED
      BY <2>2, <3>1
  <2>4. Heeded(At(memory, turn.session, turn.recorder.parent)) = Voices(Told(turn.recorder))
    BY <2>1, <2>3 DEF TurnTold
  <2> QED
    BY <1>2, <2>1, <2>2, <2>4
<1> QED
  BY <1>3, <1>4

\* Every step keeps what the branches have been told.
LEMMA StoreToldStep ==
  ASSUME NEW U, Within(U), Bounded, HistorySound, StoreSound,
         Serving => Asked /\ Prompted, Speech, Marked, Answerable,
         StoreTold, TurnTold, ToldSound, Tabled, [Next]_vars
  PROVE  StoreTold'
<1>1. CASE UNCHANGED vars
  BY <1>1 DEF vars, StoreTold, BranchTold
<1>2. CASE EmptyStore
  <2>1. DOMAIN store' = {}
    BY <1>2, EmptySeq DEF EmptyStore
  <2> QED
    BY <2>1 DEF StoreTold
<1>3. CASE Serving /\ Invalidate(turn.conv)
  <2>1. ASSUME NEW c \in DOMAIN store', c # turn.conv PROVE BranchTold(memory, store[c])
    <3>1. store \in Seq(Rows(U))
      BY DEF Within
    <3>2. c \in DOMAIN store
      BY <1>3, <2>1, <3>1, InvalidatedRows
    <3> QED
      BY <2>1, <3>2 DEF StoreTold
  <2>2. \A c \in DOMAIN store' : BranchTold(memory', store'[c])
    BY <1>3, <2>1, DroppedTold
  <2> QED
    BY <2>2 DEF StoreTold
<1>4. ASSUME turn.pc # "unlink", UNCHANGED store PROVE StoreTold'
  <2>1. ASSUME NEW c \in DOMAIN store' PROVE BranchTold(memory', store'[c])
    BY <1>4, <2>1, RowKept DEF StoreTold
  <2> QED
    BY <2>1 DEF StoreTold
<1>5. ASSUME Serving, StreamEnds \/ CommitDrained,
             NEW path, NEW recorder, NEW next \in {"unlink", "reply"},
             Commit(path, recorder, next)
      PROVE  StoreTold'
  <2>1. turn.pc # "unlink"
    BY <1>5 DEF StreamEnds, CommitDrained, Reading
  <2>2. turn'.pc = next
    BY <1>5, ServingTurn, CommittedTurn
  <2>3. ASSUME NEW c \in DOMAIN store'
        PROVE  (turn'.pc = "unlink" /\ turn'.conv = c) \/ BranchTold(memory', store'[c])
    <3>1. CASE c # turn'.conv
      <4>1. PICK j \in DOMAIN store : store'[c] = store[j]
        BY <1>5, <3>1, CommitRows
      <4>2. BranchTold(memory, store[j])
        BY <2>1 DEF StoreTold
      <4> QED
        BY <4>1, <4>2, RowKept
    <3>2. CASE c = turn'.conv /\ turn'.pc = "reply"
      <4>1. c # NoConv
        <5>1. \E W : store' \in Seq(Rows(W))
          <6>1. \E W : Within(W)'
            BY TypedStep DEF Typed
          <6> QED
            BY <6>1 DEF Within
        <5> QED
          BY <5>1, LenProperties DEF NoConv
      <4>2. Filled(store'[c], Told(recorder), turn.session, recorder.parent, turn'.stamp)
        BY <1>5, <3>2, <4>1, CommitRows
      <4>3. Answered(turn.incoming)
        BY <1>5 DEF Answerable
      <4>4. Heeded(At(memory', turn.session, recorder.parent)) = Voices(Told(recorder))
        BY <1>5, <3>2, <4>3, CommitTold
      <4> QED
        BY <4>2, <4>4 DEF Filled, BranchTold
    <3> QED
      BY <2>2, <3>1, <3>2
  <2> QED
    BY <2>3 DEF StoreTold
<1>6. CASE turn.pc = "unlink" /\ UNCHANGED store
  <2>1. Serving /\ turn.mode # "stream"
    BY <1>6 DEF Serving, Speech, Standing
  <2>2. ~Tell /\ ~Lose
    BY <1>6, <2>1 DEF Tell, Lose, Begun
  <2>3. ~SessionFailed /\ ~Garbage /\ ~Truncate /\ ~Raise /\ ~DrainEnds /\ ~StreamEnds
    BY <1>6 DEF SessionFailed, Garbage, Truncate, Raise, DrainEnds, StreamEnds, Reading
  <2>4. ~SessionOpened /\ ~Ready /\ ~TakeSnapshot /\ ~Speak /\ ~Think /\ ~Note
    BY <1>6 DEF SessionOpened, Ready, TakeSnapshot, Speak, Think, Note, Reading
  <2>5. ~RepairRetry /\ ~CommitDrained /\ ~Ask
    BY <1>6, <2>1 DEF RepairRetry, CommitDrained, Ask
  <2>6. CASE Restart
    BY <1>2, <2>6 DEF Restart
  <2>7. CASE UnlinkRepaired
    BY <1>3, <2>1, <2>7 DEF UnlinkRepaired
  <2> QED
    BY <1>1, <2>2, <2>3, <2>4, <2>5, <2>6, <2>7 DEF Next
<1> QED
  BY <1>2, <1>3, <1>4, <1>5, <1>6, StoreSteps

-----------------------------------------------------------------------------
(* The branches hold the history.                                          *)

\* The invariant of the dialogue and of what upstream remembers.
BranchInvariant ==
  /\ DialogueInvariant /\ Answerable /\ Marked
  /\ StoreTold /\ TurnTold /\ ToldSound /\ Tabled

\* Every step keeps the invariant,
LEMMA BranchStep == BranchInvariant /\ [Next]_vars => BranchInvariant'
<1> SUFFICES ASSUME BranchInvariant, [Next]_vars PROVE BranchInvariant'
  OBVIOUS
<1>1. /\ DialogueInvariant /\ Answerable /\ Marked
      /\ StoreTold /\ TurnTold /\ ToldSound /\ Tabled
  BY DEF BranchInvariant
<1>2. DialogueInvariant'
  BY <1>1, InvariantStep
<1>3. /\ Bounded /\ Speech /\ Balance /\ HistorySound /\ StoreSound
      /\ (Serving => Asked /\ Prompted) /\ Speech'
  BY <1>1, <1>2 DEF DialogueInvariant, Kept
<1>4. PICK U : Within(U)
  BY <1>1 DEF DialogueInvariant, Typed
<1>5. Answerable'
  BY <1>1, <1>3, <1>4, AnswerableStep
<1>6. Marked'
  BY <1>1, <1>3, <1>4, MarkedStep
<1>7. StoreTold'
  BY <1>1, <1>3, <1>4, StoreToldStep
<1>8. TurnTold'
  BY <1>1, <1>3, <1>4, <1>5, TurnToldStep
<1>9. ToldSound'
  BY <1>1, <1>3, <1>4, ToldSoundStep
<1>10. Tabled'
  BY <1>1, TabledStep
<1> QED
  BY <1>2, <1>5, <1>6, <1>7, <1>8, <1>9, <1>10 DEF BranchInvariant

\* it holds at first: nobody has said anything.
LEMMA BranchInit == Init => BranchInvariant
<1> SUFFICES ASSUME Init PROVE BranchInvariant
  OBVIOUS
<1>1. ~Serving /\ store = <<>> /\ history = <<>>
  BY DEF Init, InitStore, Serving, Idle
<1>2. DOMAIN store = {} /\ DOMAIN history = {}
  BY <1>1, EmptySeq
<1>3. Answerable
  BY <1>1, <1>2 DEF Answerable, Answered
<1>4. Marked /\ StoreTold /\ TurnTold
  BY <1>1, <1>2 DEF Marked, StoreTold, TurnTold
<1>5. Tabled
  BY DEF Init, Tabled
<1>6. ToldSound
  <2>1. Forgotten.told \in Seq(ToldBlocks)
    BY DEF Forgotten
  <2> QED
    BY <2>1 DEF Init, ToldSound
<1> QED
  BY <1>3, <1>4, <1>5, <1>6, InvariantInit DEF BranchInvariant

\* Whatever was told in deltas, given up, repaired or forgotten on the way, on
\* the branch a linked conversation goes on from upstream has been told, and has
\* said, what the compiler makes of the conversation as a whole; all it holds
\* besides is what the model said after a call (server.py 488-569, 969-985,
\* tool_envelope.py 186-191).
THEOREM BranchesHoldHistory == Spec => []BranchHoldsHistory
<1>1. BranchInvariant => BranchHoldsHistory
  <2> SUFFICES ASSUME BranchInvariant, NEW c \in DOMAIN store, Followed(c)
               PROVE  Heeded(Context(store[c].session, store[c].parent))
                        = Compile(store[c].messages, <<>>)
    BY DEF BranchHoldsHistory
  <2>1. StoreTold /\ Answerable /\ StoreSound
    BY DEF BranchInvariant, DialogueInvariant, Kept
  <2>2. store[c].messages \in Seq(Spoken) /\ Answered(store[c].messages)
    BY <2>1 DEF StoreSound, StoredRow, Answerable
  <2>3. Heeded(At(memory, store[c].session, store[c].parent)) = Voices(store[c].messages)
    BY <2>1 DEF StoreTold, BranchTold, Followed
  <2>4. Context(store[c].session, store[c].parent)
          = At(memory, store[c].session, store[c].parent)
    BY DEF At, Context
  <2>5. <<>> \in Seq(Spoken)
    OBVIOUS
  <2>6. Compile(store[c].messages, <<>>) = Voices(store[c].messages)
    BY <2>2, <2>5, AllCompiled
  <2> QED
    BY <2>3, <2>4, <2>6
<1> QED
  BY <1>1, BranchInit, BranchStep, PTL DEF Spec

\* Every attempt, the first of a turn, a retry of it and a repair, finds on its
\* branch and in its prompt together the conversation the client sent, once and
\* in order, and of what is sent a bare attempt finds the words alone; nothing
\* of the attempts that were given up before it is there (server.py 488-569,
\* 854-856, 938-945, reliability.py 87-109).
THEOREM EveryAttemptSeesHistory == Spec => []AttemptsSeeHistory
<1>1. BranchInvariant => AttemptsSeeHistory
  <2> SUFFICES ASSUME BranchInvariant, turn.pc = "attempt"
               PROVE  Seen = IF BareAttempt
                               THEN Compile(Before, <<>>)
                                      \o WordsOf(Compile(turn.sent, turn.incoming))
                               ELSE Compile(turn.incoming, <<>>)
    BY DEF AttemptsSeeHistory, Before, Upto
  <2>1. Serving
    BY DEF Serving
  <2>2. /\ TurnTold /\ HistorySound /\ Asked /\ Prompted /\ Answered(turn.incoming)
    BY <2>1 DEF BranchInvariant, DialogueInvariant, Kept, Answerable
  <2>3. Heeded(Context(turn.session, turn.parent)) = Voices(Before)
    BY <2>1, <2>2 DEF TurnTold, At, Context
  <2>4. Seen = Voices(Before) \o turn.prompt
    BY <2>3 DEF Seen
  <2>5. /\ Before \in Seq(Spoken) /\ Answered(Before)
        /\ turn.prompt = IF BareAttempt THEN WordsOf(Voices(turn.sent)) ELSE Voices(turn.sent)
        /\ Compile(turn.sent, turn.incoming) = Voices(turn.sent)
        /\ Voices(turn.incoming) = Voices(Before) \o Voices(turn.sent)
    BY <2>2, PromptHeard
  <2>6. turn.incoming \in Seq(Spoken) /\ <<>> \in Seq(Spoken)
    BY <2>2, AppendProperties DEF HistorySound, Asked
  <2>7. /\ Compile(Before, <<>>) = Voices(Before)
        /\ Compile(turn.incoming, <<>>) = Voices(turn.incoming)
    BY <2>2, <2>5, <2>6, AllCompiled
  <2> QED
    BY <2>4, <2>5, <2>7
<1> QED
  BY <1>1, BranchInit, BranchStep, PTL DEF Spec
=============================================================================
