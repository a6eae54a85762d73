-------------------------- MODULE CanonicalHistory --------------------------
(***************************************************************************)
(* What the gateway makes of the messages a client sends, and of the       *)
(* canonical history it has of them: validation and normalisation          *)
(* (app/prompt_compiler.py, app/tools.py), the index of tool calls         *)
(* (app/conversation.py), the prompt (app/prompt_compiler.py) and the bare *)
(* prompt of a simulation retry (app/server.py).                           *)
(*                                                                         *)
(* A text is a sequence of pieces and a prompt a sequence of blocks, so    *)
(* that what is in it and in which order is kept, but no letter of it.     *)
(***************************************************************************)
EXTENDS Absent, Integers, SequencesExt

CONSTANT Newline   \* the piece that joins two content parts

Roles     == {"system", "user", "assistant", "tool"}
TextRoles == {"system", "user", "assistant"}

-----------------------------------------------------------------------------
(* Canonical messages.  No calls is None: an empty list is never kept.     *)

CanonicalToolCall(id, name, args) == [id |-> id, name |-> name, args |-> args]

CanonicalMessage(role, content, calls) ==
  [role |-> role, content |-> content, calls |-> calls, id |-> Null, name |-> Null]

ToolResult(id, name, content) ==
  [role |-> "tool", content |-> content, calls |-> <<>>, id |-> id, name |-> name]

-----------------------------------------------------------------------------
(* Wire messages.  Content is null, a string or a list of parts; arguments *)
(* are an object, the JSON text of one, or something that is neither.      *)

Join(s, t) == IF s = Null THEN t ELSE s \o <<Newline>> \o t

\* What is not text is ignored.
ExtractPart(text, part) == IF part.type = "text" THEN Join(text, part.text) ELSE text

\* A string is a content of one part.
ExtractText(content) ==
  LET text == FoldLeft(ExtractPart, Null, content.parts)
  IN  IF text = Null THEN <<>> ELSE text

\* normalize_arguments_json: the same object, however it was written down.
IsObject(args) == args.form \in {"object", "compact", "spaced"}

\* Mutant: a JSON text is kept as it was written.
NormalizeAsWritten(args) == IF args.form = "spaced" THEN args ELSE args.value

NormalizeArguments(args) == args.value

GoodCall(call) == call.id # Null /\ call.name # Null /\ IsObject(call.args)

CanonicalCalls(calls) ==
  [i \in DOMAIN calls |->
     CanonicalToolCall(calls[i].id, calls[i].name, NormalizeArguments(calls[i].args))]

\* Mutant: an assistant message may say nothing at all.
AcceptableEmpty(message) ==
  /\ message.role \in Roles
  /\ message.role = "tool" => message.id # Null
  /\ message.calls # <<>> => message.role = "assistant" /\ \A i \in DOMAIN message.calls :
                                                             GoodCall(message.calls[i])

\* messages_to_canonical, the checks.
Acceptable(message) ==
  /\ message.role \in Roles
  /\ message.role = "tool" => message.id # Null
  /\ message.calls # <<>> => message.role = "assistant" /\ \A i \in DOMAIN message.calls :
                                                             GoodCall(message.calls[i])
  /\ message.role = "assistant" /\ message.content.form = "null" => message.calls # <<>>

\* messages_to_canonical, one message: an assistant's null content stays null.
Canonical(message) ==
  CASE message.role = "tool" ->
         ToolResult(message.id, message.name, ExtractText(message.content))
    [] message.role = "assistant" /\ message.content.form = "null" ->
         CanonicalMessage("assistant", Null, CanonicalCalls(message.calls))
    [] OTHER ->
         CanonicalMessage(message.role, ExtractText(message.content),
                          CanonicalCalls(message.calls))

AllAcceptable(messages) ==
  messages # <<>> /\ \A i \in DOMAIN messages : Acceptable(messages[i])

MessagesToCanonical(messages) == [i \in DOMAIN messages |-> Canonical(messages[i])]

-----------------------------------------------------------------------------
(* The prompt.                                                             *)

\* Every call of a history, in order,
CallsIn(messages) == FlattenSeq([i \in DOMAIN messages |-> messages[i].calls])

\* and the places of those with an id.
CallsOf(calls, id) == {k \in DOMAIN calls : calls[k].id = id}

\* Mutant: only the calls among the messages that are sent.
ToolNameSent(messages, i, known) ==
  LET sent    == CallsIn(SubSeq(messages, 1, i - 1))
      earlier == CallsOf(sent, messages[i].id)
  IN  CASE earlier # {}            -> sent[Max(earlier)].name
        [] messages[i].name # Null -> messages[i].name
        [] OTHER                   -> "unknown"

\* The name of the tool a result is for: the last earlier call with its id,
\* else the first one in the known history (tool_call_index), else what the
\* result says itself.
ToolName(messages, i, known) ==
  LET sent    == CallsIn(SubSeq(messages, 1, i - 1))
      earlier == CallsOf(sent, messages[i].id)
      index   == CallsOf(CallsIn(known), messages[i].id)
  IN  CASE earlier # {}                     -> sent[Max(earlier)].name
        [] earlier = {} /\ index # {}       -> CallsIn(known)[Min(index)].name
        [] earlier = {} /\ index = {} /\ messages[i].name # Null
                                            -> messages[i].name
        [] OTHER                            -> "unknown"

TextBlock(role, text) == [kind |-> "text", role |-> role, text |-> text]
CallBlock(call)       == [kind |-> "call", name |-> call.name, args |-> call.args]
ResultBlock(id, name, text) == [kind |-> "result", id |-> id, name |-> name, text |-> text]

\* The blocks of one message; a call is written as the envelope that asks
\* for it, without its id.
Blocks(messages, i, known) ==
  LET message == messages[i] IN
  CASE message.role = "tool" ->
         <<ResultBlock(message.id, ToolName(messages, i, known), message.content)>>
    [] message.calls # <<>> ->
         (IF message.content \in {Null, <<>>} THEN <<>>
                                              ELSE <<TextBlock("assistant", message.content)>>)
         \o [j \in DOMAIN message.calls |-> CallBlock(message.calls[j])]
    [] OTHER -> <<TextBlock(message.role, message.content)>>

\* compile_canonical_to_prompt refuses what messages_to_canonical should.
Compilable(messages) ==
  /\ messages # <<>>
  /\ \A i \in DOMAIN messages :
       /\ messages[i].role \in Roles
       /\ messages[i].role = "tool" => messages[i].id # Null
       /\ messages[i].role # "tool" /\ messages[i].calls = <<>> => messages[i].content # Null

Compile(messages, known) ==
  FlattenSeq([i \in DOMAIN messages |-> Blocks(messages, i, known)])

\* Mutant: the results of tools stay.
KeepResults(kept, message) == IF message.calls # <<>> THEN kept ELSE Append(kept, message)

\* _strip_tool_history, one message: no call, no result, but every word that
\* was said.
KeepWords(kept, message) ==
  IF message.role = "tool" \/ (message.calls # <<>> /\ message.content \in {Null, <<>>})
    THEN kept
    ELSE Append(kept, [message EXCEPT !.calls = <<>>])

StripToolHistory(messages) == FoldLeft(KeepWords, <<>>, messages)

\* _compile_turn, the bare prompt: there is none when nothing remains.
RetryBase(messages) == Compile(StripToolHistory(messages), <<>>)
=============================================================================
