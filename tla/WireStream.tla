----------------------------- MODULE WireStream -----------------------------
(***************************************************************************)
(* From a line of the DeepSeek Web stream to backend events: the adapter   *)
(* with its sticky path (app/backends/deepseek_web/wire.py), the chunk it  *)
(* yields (normalize.py), and what becomes of an upstream exception        *)
(* (normalize.py, app/backends/errors.py, app/error_mapping.py).           *)
(*                                                                         *)
(* A line is a record.  A line that is not data is not modelled: the       *)
(* adapter drops it before it looks at anything.                           *)
(***************************************************************************)
EXTENDS Absent, Integers, Sequences

Content  == "response/content"
Thinking == "response/thinking_content"
Status   == "response/status"

\* The lines of the protocol; v is a piece of text or a status.
BadLine                      == [kind |-> "bad"]
ReadyLine(id)                == [kind |-> "ready", id |-> id]
SnapshotLine(id, content, thinking) ==
  [kind |-> "snapshot", id |-> id, content |-> content, thinking |-> thinking]
ObjectLine(p)                == [kind |-> "object", p |-> p]
PatchLine(p, o, v)           == [kind |-> "patch", p |-> p, o |-> o, v |-> v]

-----------------------------------------------------------------------------
(* WireSession.adapt.                                                      *)

NoChunk == [id |-> Null, content |-> Null, type |-> "", finish |-> Null]

\* An object for a value returns before the path is looked at.
PathAfter(path, line) ==
  IF line.kind = "patch" /\ line.p # Null THEN line.p ELSE path

IsAppend(o) == o \in {Null, "APPEND"}

\* Mutant: the first words of a thinking model are taken for its answer.
SnapshotLoud(line) ==
  CASE line.content # Null  -> [NoChunk EXCEPT !.id = line.id, !.content = line.content,
                                               !.type = "text"]
    [] line.thinking # Null -> [NoChunk EXCEPT !.id = line.id, !.content = line.thinking,
                                               !.type = "text"]
    [] OTHER                -> [NoChunk EXCEPT !.id = line.id]

\* The snapshot may hold the first text already; content wins over thinking.
Snapshot(line) ==
  CASE line.content # Null -> [NoChunk EXCEPT !.id = line.id, !.content = line.content,
                                              !.type = "text"]
    [] line.content = Null /\ line.thinking # Null ->
                              [NoChunk EXCEPT !.id = line.id, !.content = line.thinking,
                                              !.type = "thinking"]
    [] OTHER               -> [NoChunk EXCEPT !.id = line.id]

\* An operation on the path it names, or on the one named last.
Patch(path, line) ==
  CASE path = Content /\ IsAppend(line.o) /\ line.v # Null ->
         [NoChunk EXCEPT !.content = line.v, !.type = "text"]
    [] path = Thinking /\ IsAppend(line.o) /\ line.v # Null ->
         [NoChunk EXCEPT !.content = line.v, !.type = "thinking"]
    [] path = Status /\ line.v = "FINISHED" -> [NoChunk EXCEPT !.finish = "stop"]
    [] OTHER -> NoChunk

Adapt(path, line) ==
  CASE line.kind = "ready"    -> [NoChunk EXCEPT !.id = line.id]
    [] line.kind = "snapshot" -> Snapshot(line)
    [] line.kind = "patch"    -> Patch(PathAfter(path, line), line)
    [] OTHER                  -> NoChunk

-----------------------------------------------------------------------------
(* chunk_dict_to_events: id, then text, then finish.                       *)

BackendMessageId(id)    == [event |-> "id", id |-> id]
TextDelta(text)         == [event |-> "text", text |-> text]
ReasoningDelta(text)    == [event |-> "reasoning", text |-> text]
MessageFinished(reason) == [event |-> "finished", reason |-> reason]

DeltaEvents(chunk) ==
  CASE chunk.content = Null -> <<>>
    [] chunk.content # Null /\ chunk.type = "thinking" -> <<ReasoningDelta(chunk.content)>>
    [] OTHER -> <<TextDelta(chunk.content)>>

ChunkToEvents(chunk) ==
  (IF chunk.id = Null THEN <<>> ELSE <<BackendMessageId(chunk.id)>>)
  \o DeltaEvents(chunk)
  \o (IF chunk.finish = Null THEN <<>> ELSE <<MessageFinished(chunk.finish)>>)

-----------------------------------------------------------------------------
(* Failures.                                                               *)

\* The vendored client wraps whatever goes wrong with a line in an APIError.
ParseError == "APIError"

\* classify_upstream_exception.
Classify(exception) ==
  CASE exception = "AuthenticationError" -> "AUTH_INVALID"
    [] exception = "RateLimitError"      -> "RATE_LIMITED"
    [] exception \in {"CloudflareError", "APIError cloudflare"} -> "CLOUDFLARE_BLOCKED"
    [] exception = "NetworkError"        -> "UPSTREAM_NETWORK"
    [] exception = "APIError 5xx"        -> "UPSTREAM_5XX"
    [] exception \in {"APIError", "RawStreamParseError"}        -> "UPSTREAM_PROTOCOL"
    [] exception = "ValueError"          -> "CLIENT_BAD_REQUEST"
    [] OTHER                             -> "INTERNAL"

DefaultRetryable(category) ==
  category \in {"RATE_LIMITED", "UPSTREAM_NETWORK", "UPSTREAM_5XX"}

BackendFailure(exception) ==
  [category |-> Classify(exception), retryable |-> DefaultRetryable(Classify(exception))]

\* _truncation_failure: a protocol error, and yet worth a retry.
TruncationFailure == [category |-> "UPSTREAM_PROTOCOL", retryable |-> TRUE]

HttpStatus(category) ==
  CASE category \in {"AUTH_INVALID", "UPSTREAM_NETWORK", "UPSTREAM_5XX",
                     "UPSTREAM_PROTOCOL"} -> 502
    [] category = "RATE_LIMITED"          -> 429
    [] category = "CLOUDFLARE_BLOCKED"    -> 503
    [] category = "CLIENT_BAD_REQUEST"    -> 400
    [] OTHER                              -> 500
=============================================================================
