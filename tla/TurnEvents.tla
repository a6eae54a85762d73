----------------------------- MODULE TurnEvents -----------------------------
(***************************************************************************)
(* What a turn's events become on their way to the client: the envelope    *)
(* parser's verdict, the recorder that keeps the turn for the store        *)
(* (app/server.py), the SSE chunks (app/streaming.py) or the JSON body     *)
(* (app/server.py), and what the client has at the end of them.            *)
(*                                                                         *)
(* A text delta carries one piece of text.  A piece is a word, a valid     *)
(* envelope, an invalid one, or a simulation marker; how pieces are cut    *)
(* into increments is EnvelopeParser's subject.                            *)
(***************************************************************************)
EXTENDS CanonicalHistory, WireStream

CONSTANTS
  Envelope,  \* the piece that is a valid envelope
  Broken,    \* the piece that is an invalid one
  Marker     \* the piece that is another simulation marker

ToolCallEmitted(call) == [event |-> "call", call |-> call]
MessageStarted        == [event |-> "started"]

-----------------------------------------------------------------------------
(* _TurnRecorder.                                                          *)

NewRecorder == [text |-> <<>>, calls |-> <<>>, parent |-> Null,
                finished |-> FALSE, reason |-> Null]

Observe(recorder, event) ==
  CASE event.event = "text"     -> [recorder EXCEPT !.text = Append(@, event.text)]
    [] event.event = "call"     -> [recorder EXCEPT !.calls = Append(@, event.call)]
    [] event.event = "id"       -> [recorder EXCEPT !.parent = event.id]
    [] event.event = "finished" -> [recorder EXCEPT !.finished = TRUE,
                                                    !.reason = event.reason]
    [] OTHER                    -> recorder

\* Mutant: a turn that only calls a tool has an empty text.
AssistantMessageTextual(recorder) ==
  CanonicalMessage("assistant", recorder.text, recorder.calls)

\* assistant_message: no text beside a call is null, not empty.
AssistantMessage(recorder) ==
  CanonicalMessage("assistant",
                   IF recorder.text = <<>> /\ recorder.calls # <<>> THEN Null
                                                                    ELSE recorder.text,
                   recorder.calls)

\* The text holds a marker; the start sentinel of a broken envelope is one.
Simulated(recorder) == {Marker, Broken} \intersect ToSet(recorder.text) # {}

-----------------------------------------------------------------------------
(* _tool_aware_events.                                                     *)

\* Mutant: the parser is not done after its call.
ParsedOnwards(event, done, call) ==
  IF event.event = "text" /\ ~done /\ event.text = Envelope THEN <<ToolCallEmitted(call)>>
                                                           ELSE <<event>>

\* What the parser makes of a piece, given whether its call is out: after a
\* valid envelope there is no more text.
Parsed(event, done, call) ==
  CASE event.event # "text"                            -> <<event>>
    [] event.event = "text" /\ done                    -> <<>>
    [] event.event = "text" /\ ~done /\ event.text = Envelope -> <<ToolCallEmitted(call)>>
    [] OTHER                                           -> <<event>>

-----------------------------------------------------------------------------
(* sse_stream.  renderer: role_sent and tool_call_seen.                    *)

NewRenderer == [role |-> FALSE, call |-> FALSE]

Chunk(delta, finish) == [delta |-> delta, finish |-> finish]

\* What a delta leaves out is empty in it.
NoDelta == [role |-> FALSE, content |-> <<>>, opener |-> <<>>, arguments |-> <<>>]

FinishReason(reason) == IF reason = "length" THEN "length" ELSE "stop"

\* Mutant: the terminal chunk keeps the backend's own reason.
TerminalReasonOwn(renderer, reason) == FinishReason(reason)

TerminalReason(renderer, reason) ==
  IF renderer.call THEN "tool_calls" ELSE FinishReason(reason)

\* The first chunk carries the role, whatever it is.
WithRole(renderer, delta) == IF renderer.role THEN delta ELSE [delta EXCEPT !.role = TRUE]

\* Mutant: the thoughts of the model are shown.
RenderAll(renderer, event) ==
  CASE event.event = "started"  -> <<Chunk([NoDelta EXCEPT !.role = TRUE], Null)>>
    [] event.event \in {"text", "reasoning"} ->
         <<Chunk(WithRole(renderer, [NoDelta EXCEPT !.content = <<event.text>>]), Null)>>
    [] event.event = "call" ->
         <<Chunk(WithRole(renderer, [NoDelta EXCEPT !.opener = <<event.call>>]), Null),
           Chunk([NoDelta EXCEPT !.arguments = <<event.call.args>>], Null)>>
    [] event.event = "finished" ->
         <<Chunk(WithRole(renderer, NoDelta), TerminalReason(renderer, event.reason))>>
    [] OTHER -> <<>>

\* Ids and thoughts render to nothing.
Render(renderer, event) ==
  CASE event.event = "started" ->
         <<Chunk([NoDelta EXCEPT !.role = TRUE], Null)>>
    [] event.event = "text" ->
         <<Chunk(WithRole(renderer, [NoDelta EXCEPT !.content = <<event.text>>]), Null)>>
    [] event.event = "call" ->
         <<Chunk(WithRole(renderer, [NoDelta EXCEPT !.opener = <<event.call>>]), Null),
           Chunk([NoDelta EXCEPT !.arguments = <<event.call.args>>], Null)>>
    [] event.event = "finished" ->
         <<Chunk(WithRole(renderer, NoDelta), TerminalReason(renderer, event.reason))>>
    [] OTHER -> <<>>

Rendered(renderer, event) ==
  [role |-> renderer.role \/ event.event \in {"started", "text", "call", "finished"},
   call |-> renderer.call \/ event.event = "call"]

\* _synthesized_events: a buffered turn is streamed after the fact.
SynthesizedEvents(recorder) ==
  <<MessageStarted>>
  \o [i \in DOMAIN recorder.text |-> TextDelta(recorder.text[i])]
  \o [i \in DOMAIN recorder.calls |-> ToolCallEmitted(recorder.calls[i])]
  \o <<MessageFinished(recorder.reason)>>

-----------------------------------------------------------------------------
(* The client (external) puts the chunks together, as any client does:     *)
(* contents are appended, a call's arguments follow its opener.            *)

NothingYet == [roles |-> 0, content |-> <<>>, calls |-> <<>>, finish |-> Null]

Assemble(message, chunk) ==
  [roles   |-> message.roles + (IF chunk.delta.role THEN 1 ELSE 0),
   content |-> message.content \o chunk.delta.content,
   calls   |-> CASE chunk.delta.opener # <<>> ->
                      Append(message.calls, [Head(chunk.delta.opener) EXCEPT !.args = Null])
                 [] chunk.delta.opener = <<>> /\ chunk.delta.arguments # <<>> ->
                      [message.calls EXCEPT ![Len(message.calls)].args =
                                              Head(chunk.delta.arguments)]
                 [] OTHER -> message.calls,
   finish  |-> IF chunk.finish = Null THEN message.finish ELSE chunk.finish]

\* The JSON body says the same at once; a content it leaves out is empty.
Body(recorder) ==
  [roles |-> 1, content |-> recorder.text, calls |-> recorder.calls,
   finish |-> IF recorder.calls # <<>> THEN "tool_calls" ELSE FinishReason(recorder.reason)]

\* What it will send back: no text beside a call is null.
ClientMessage(message) ==
  CanonicalMessage("assistant",
                   IF message.content = <<>> /\ message.calls # <<>> THEN Null
                                                                      ELSE message.content,
                   message.calls)
=============================================================================
