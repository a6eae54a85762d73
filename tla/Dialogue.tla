------------------------------ MODULE Dialogue ------------------------------
(***************************************************************************)
(* One client's conversation with the model through the gateway, from the  *)
(* wire messages of a request to the lines of the upstream stream and back *)
(* (app/server.py, with the modules it composes), over several turns,      *)
(* retries, repairs, lost answers and restarts.                            *)
(*                                                                         *)
(* The client sends its whole history again with every message, written    *)
(* in any way the wire allows.  Its requests come one after another, and   *)
(* no failure here has a consequence for an account: how requests and      *)
(* accounts interfere is the subject of Gateway.                           *)
(*                                                                         *)
(* The upstream service is external.  It speaks in lines, and remembers at *)
(* each message id what that branch of its session has been told.          *)
(***************************************************************************)
EXTENDS TurnEvents, ConversationStore

CONSTANTS
  Words,        \* the pieces the client may ask with
  Answers,      \* what the model may answer, or begin to
  Modes,        \* subset of {"plain", "tool", "stream"}
  Exceptions,   \* what the vendored client may raise
  Tool,         \* the one tool there is
  Arguments,    \* and the arguments of its calls
  CallIds,      \* what uuid4 may return
  MessageIds,   \* what upstream calls its messages
  Sessions,     \* and its sessions
  MaxMessages,  \* bound on a client's history
  Thought,      \* a piece of its reasoning
  MaxElsewhere, \* bound on the failures of a request's earlier calls
  MaxRetries    \* RetryPolicy.max_retries

MaxToolRepairAttempts == 1

\* Of what the texts of a dialogue are made.
Pieces == Words \union UNION {ToSet(answer) : answer \in Answers}

\* A stream upstream has begun: its message, the path it is at, what it said.
Streams == [id : MessageIds, path : {Null, Content, Thinking, Status}, said : Seq(Pieces)]

\* Names are numbers, so that the first unused one can be taken; None is
\* neither a number, nor a string, nor a text or a piece of it, nor a stream.
ASSUME DialogueAssumption ==
  /\ {MaxMessages, MaxElsewhere, MaxRetries} \subseteq Nat
  /\ Modes \subseteq {"plain", "tool", "stream"}
  /\ Answers \subseteq Seq(Pieces)
  /\ MessageIds \union Sessions \union CallIds \subseteq Nat
  /\ Null \notin Nat \union Seq(Pieces) \union Pieces \union Streams
  /\ Null \notin {Tool, "stop", "length", "tool_calls", Content, Thinking, Status}

VARIABLES
  history,   \* the canonical history the client holds
  turn,      \* the request the gateway serves, or Idle
  upstream,  \* the stream it reads, or Null
  memory,    \* what upstream remembers at each message
  response,  \* what the client has of the response
  metrics    \* what the request has added to the counters

vars == <<history, store, turn, upstream, memory, response, metrics>>

\* No request is served.
Idle == [pc |-> "idle"]

Serving == turn.pc # "idle"

-----------------------------------------------------------------------------
(* What upstream remembers (external).                                     *)

Forgotten == [session |-> Null, told |-> <<>>]

\* The branch that ends in the parent, if the session has one.
Context(session, parent) ==
  IF parent # Null /\ memory[parent].session = session THEN memory[parent].told ELSE <<>>

\* What is on a branch, less what was said after a call: the conversation as
\* the gateway has heard it.
Heeded(told) == [i \in DOMAIN told |-> IF told[i].kind = "overrun" THEN told[i].call ELSE told[i]]

\* A name nobody refers to is free again, and there is one.
Free(names, used) == names \ used # {}

Unused(names, used) ==
  CHOOSE n \in names \ used : \A m \in names \ used : n <= m

IdsInUse == {store[c].parent : c \in DOMAIN store}
              \union (IF Serving THEN {turn.parent, turn.recorder.parent} ELSE {})

SessionsInUse == {store[c].session : c \in DOMAIN store}

CallIdsIn(messages) == {call.id : call \in ToSet(CallsIn(messages))}

CallIdsInUse == CallIdsIn(turn.incoming)
                  \union UNION {CallIdsIn(store[c].messages) : c \in DOMAIN store}

\* Of all it has been told only what somebody can still refer to matters.
Retain == memory' = [id \in MessageIds |-> IF id \in IdsInUse' THEN memory[id] ELSE Forgotten]

-----------------------------------------------------------------------------
(* What the client may send: its history and one message more.             *)

WireText(text) == [form |-> "parts", parts |-> <<[type |-> "image", text |-> <<>>],
                                                 [type |-> "text", text |-> text]>>]
WireNull == [form |-> "null", parts |-> <<>>]

\* A message of the history, the arguments of its calls in this form.
WireCall(form, call) == [call EXCEPT !.args = [form |-> form, value |-> call.args]]

Wire(form, message) ==
  [message EXCEPT
     !.content = IF message.content = Null THEN WireNull ELSE WireText(message.content),
     !.calls   = [i \in DOMAIN message.calls |-> WireCall(form, message.calls[i])]]

ArgumentForms == {"object", "compact", "spaced"}

Resent(told, form) == [i \in DOMAIN told |-> Wire(form, told[i])]

\* Every call that is not answered yet.
Unanswered(told) ==
  CallIdsIn(told) \ {told[i].id : i \in {j \in DOMAIN told : told[j].role = "tool"}}

Results(told) == UNION {{ToolResult(id, Null, WireText(<<w>>)) : w \in Words} :
                          id \in Unanswered(told)}

Questions == {CanonicalMessage("user", WireText(<<w>>), <<>>) : w \in Words}

\* What no client should send.
Oddities == {CanonicalMessage("assistant", WireNull, <<>>),
             ToolResult(Null, Tool, WireText(<<>>))}

NewMessages(told) ==
  (IF Unanswered(told) = {} THEN Questions ELSE Results(told)) \union Oddities

-----------------------------------------------------------------------------
(* The request.                                                            *)

NoResponse == [status |-> Null, message |-> NothingYet, done |-> FALSE]

NoCounts == [attempts |-> 0, durations |-> 0, failures |-> 0, retries |-> 0,
             repairs |-> 0, exhausted |-> 0]

ToolMode == turn.mode = "tool"

Init ==
  /\ history = <<>>
  /\ InitStore
  /\ turn = Idle
  /\ upstream = Null
  /\ memory = [id \in MessageIds |-> Forgotten]
  /\ response = NoResponse
  /\ metrics = NoCounts

\* One attempt under with_transport_retry begins.
Attempting(counts) == [counts EXCEPT !.attempts = @ + 1]

\* _prepare_turn: a live link is used with the messages it has not been told,
\* without one the whole history is told to a new session.
NewTurn(mode, canonical) ==
  LET conv   == Resolve(store, canonical)
      linked == conv # NoConv /\ store[conv].session # Null
      sent   == IF linked THEN Delta(canonical, Len(store[conv].messages)) ELSE canonical
  IN  [pc        |-> IF linked THEN "attempt" ELSE "session",
       mode      |-> mode,
       incoming  |-> canonical,
       conv      |-> conv,
       session   |-> IF linked THEN store[conv].session ELSE Null,
       parent    |-> IF linked THEN store[conv].parent ELSE Null,
       sent      |-> sent,
       prompt    |-> Compile(sent, canonical),
       tries     |-> 0,
       repairs   |-> 0,
       simulated |-> FALSE,
       path      |-> Null,
       recorder  |-> NewRecorder,
       renderer  |-> NewRenderer,
       stamp     |-> Null]

\* What messages_to_canonical refuses is answered with a 400 and changes
\* nothing.
Ask ==
  /\ ~Serving
  /\ Len(history) + 2 <= MaxMessages
  /\ \E form \in ArgumentForms, message \in NewMessages(history), mode \in Modes :
       LET messages  == Append(Resent(history, form), message)
           canonical == MessagesToCanonical(messages)
       IN  /\ AllAcceptable(messages)
           /\ turn' = NewTurn(mode, canonical)
           /\ metrics' = Attempting(NoCounts)
  /\ response' = NoResponse
  /\ UNCHANGED <<history, store, upstream, memory>>

-----------------------------------------------------------------------------
(* Failure and retry of a call to the backend.                             *)

\* A stream that has begun: the first event is the client's.
Begun == turn.mode = "stream" /\ response.status # Null

\* The request is over.
TurnOver == turn' = Idle /\ upstream' = Null

\* The conversation loses its link whenever a failure passes the observer of
\* a streamed turn, and when it is the last one.
LinkDropped(final) ==
  IF turn.pc = "attempt" /\ (final \/ turn.mode = "stream") THEN Invalidate(turn.conv)
                                                             ELSE UNCHANGED store

\* Mutant: only what succeeds is timed.
CountedUntimed(counts) == [counts EXCEPT !.failures = @ + 1]

Counted(counts) == [counts EXCEPT !.failures = @ + 1, !.durations = @ + 1]

\* Mutant: the text of the attempt that failed is kept.
FreshAttemptKeeping(t) == [t EXCEPT !.path = Null]

\* Everything an attempt accumulates begins anew.
FreshAttempt(t) == [t EXCEPT !.path = Null, !.recorder = NewRecorder]

\* with_transport_retry has a try left and the failure is worth one.
Retry(failure) ==
  /\ ~Begun
  /\ failure.retryable
  /\ turn.tries < MaxRetries
  /\ turn' = [FreshAttempt(turn) EXCEPT !.tries = @ + 1]
  /\ upstream' = Null
  /\ LinkDropped(FALSE)
  /\ metrics' = [Attempting(Counted(metrics)) EXCEPT !.retries = @ + 1]
  /\ UNCHANGED response

\* It has not: the failure surfaces as it is.
Surface(failure) ==
  /\ ~Begun
  /\ failure.retryable => turn.tries = MaxRetries
  /\ TurnOver
  /\ LinkDropped(TRUE)
  /\ response' = [response EXCEPT !.status = HttpStatus(failure.category)]
  /\ metrics' = Counted(metrics)

\* The status is out: the error goes into the stream, and [DONE] does not.
Broadcast ==
  /\ Begun
  /\ TurnOver
  /\ LinkDropped(TRUE)
  /\ UNCHANGED <<response, metrics>>

\* Those that struck the calls before this one are bounded.
MayFail == metrics.failures <= turn.tries + MaxElsewhere

Fail(failure) ==
  /\ MayFail
  /\ Retry(failure) \/ Surface(failure) \/ Broadcast
  /\ UNCHANGED history
  /\ Retain

-----------------------------------------------------------------------------
(* The backend session.                                                    *)

SessionOpened ==
  /\ turn.pc = "session"
  /\ Free(Sessions, SessionsInUse)
  /\ turn' = [turn EXCEPT !.pc = "attempt", !.tries = 0,
                          !.session = Unused(Sessions, SessionsInUse)]
  /\ metrics' = Attempting([metrics EXCEPT !.durations = @ + 1])
  /\ UNCHANGED <<history, store, upstream, memory, response>>

SessionFailed ==
  /\ turn.pc = "session"
  /\ \E exception \in Exceptions : Fail(BackendFailure(exception))

-----------------------------------------------------------------------------
(* A line of the stream.                                                   *)

Reading == turn.pc = "attempt" /\ upstream # Null

NewCall == CanonicalToolCall(Unused(CallIds, CallIdsInUse), Tool, Arguments)

\* The events a line gives, after the envelope parser.
Heard(line) ==
  LET raw  == ChunkToEvents(Adapt(turn.path, line))
      done == turn.recorder.calls # <<>>
  IN  IF ToolMode
        THEN FlattenSeq([i \in DOMAIN raw |-> Parsed(raw[i], done, NewCall)])
        ELSE raw

\* The chunks of some events, put together by the client.
Delivered(message, renderer, events) ==
  LET Step(s, event) ==
        [message  |-> FoldLeft(Assemble, s.message, Render(s.renderer, event)),
         renderer |-> Rendered(s.renderer, event)]
  IN  FoldLeft(Step, [message |-> message, renderer |-> renderer], events)

\* A drained turn keeps what it hears, a streamed one passes it on; the
\* first event is also the end of its priming.
Receive(line) ==
  LET events == Heard(line)
      sent   == Delivered(response.message, turn.renderer, events)
      told   == turn.mode = "stream" /\ events # <<>>
  IN  /\ ToolMode => Free(CallIds, CallIdsInUse)
      /\ turn' = [turn EXCEPT
                    !.path     = PathAfter(@, line),
                    !.recorder = FoldLeft(Observe, @, events),
                    !.renderer = IF told THEN sent.renderer ELSE @]
      /\ response' = IF told THEN [response EXCEPT !.status = 200, !.message = sent.message]
                              ELSE response
      /\ metrics' = IF told /\ ~Begun THEN [metrics EXCEPT !.durations = @ + 1] ELSE metrics

\* Upstream answers: first of all it names its message.
Ready ==
  /\ turn.pc = "attempt" /\ upstream = Null
  /\ Free(MessageIds, IdsInUse)
  /\ LET id == Unused(MessageIds, IdsInUse)
     IN  /\ upstream' = [id |-> id, path |-> Null, said |-> <<>>]
         /\ Receive(ReadyLine(id))
  /\ UNCHANGED <<history, store, memory>>

\* A line on a path is written with it, or without when it was the last.
Named(path) == {path} \union (IF upstream.path = path THEN {Null} ELSE {})

\* What the model may say next.
NextWords == {answer[Len(upstream.said) + 1] :
                answer \in {a \in Answers : IsStrictPrefix(upstream.said, a)}}

\* The snapshot of a message that has begun, maybe with its first piece.
TakeSnapshot ==
  /\ Reading
  /\ upstream.path = Null /\ upstream.said = <<>>
  /\ \E content \in {Null} \union NextWords, thinking \in {Null, Thought} :
       /\ upstream' = [upstream EXCEPT !.said = IF content = Null THEN @ ELSE <<content>>]
       /\ Receive(SnapshotLine(upstream.id, content, thinking))
  /\ UNCHANGED <<history, store, memory>>

Speak ==
  /\ Reading
  /\ \E v \in NextWords, p \in Named(Content), o \in {Null, "APPEND"} :
       /\ upstream' = [upstream EXCEPT !.path = Content, !.said = Append(@, v)]
       /\ Receive(PatchLine(p, o, v))
  /\ UNCHANGED <<history, store, memory>>

Think ==
  /\ Reading
  /\ \E p \in Named(Thinking), o \in {Null, "APPEND"} :
       /\ upstream' = [upstream EXCEPT !.path = Thinking]
       /\ Receive(PatchLine(p, o, Thought))
  /\ UNCHANGED <<history, store, memory>>

\* Bookkeeping: the status is not final yet.
Note ==
  /\ Reading
  /\ upstream' = [upstream EXCEPT !.path = Status]
  /\ \E p \in Named(Status) : Receive(PatchLine(p, Null, "WIP"))
  /\ UNCHANGED <<history, store, memory>>

\* The line cannot be read, the stream ends early, or the call fails at any
\* time, before the first line as well.
Garbage == Reading /\ Fail(BackendFailure(ParseError))

Truncate == Reading /\ Fail(TruncationFailure)

Raise ==
  /\ turn.pc = "attempt"
  /\ \E exception \in Exceptions : Fail(BackendFailure(exception))

-----------------------------------------------------------------------------
(* The end of the stream.                                                  *)

\* What the gateway hears of what upstream said: in a turn with tools an
\* envelope is a call, and the parser discards what follows it.
Saying(said, tools) ==
  LET calls == {i \in DOMAIN said : said[i] = Envelope}
      first == CHOOSE i \in calls : \A j \in calls : i <= j
  IN  IF tools /\ calls # {}
        THEN [words |-> SubSeq(said, 1, first - 1), called |-> TRUE]
        ELSE [words |-> said, called |-> FALSE]

SayingBlocks(saying, call) ==
  (IF saying.called /\ saying.words = <<>> THEN <<>>
                                           ELSE <<TextBlock("assistant", saying.words)>>)
  \o (IF saying.called THEN <<call>> ELSE <<>>)

ToolCall == [kind |-> "call", name |-> Tool, args |-> Arguments]

\* The call and what upstream went on to say.
CallSaid(rest) ==
  IF rest = <<>> THEN ToolCall ELSE [kind |-> "overrun", call |-> ToolCall, rest |-> rest]

\* All upstream said, whether it is heard or not.
Utterance(said, tools) ==
  LET saying == Saying(said, tools)
  IN  SayingBlocks(saying, CallSaid(SubSeq(said, Len(saying.words) + 2, Len(said))))

\* Upstream is done, and remembers what this branch has been told and said.
Remember ==
  memory' = [memory EXCEPT ![upstream.id] =
               [session |-> turn.session,
                told    |-> Context(turn.session, turn.parent) \o turn.prompt
                              \o Utterance(upstream.said, ToolMode)]]

FinishLines == {PatchLine(p, o, "FINISHED") : p \in Named(Status), o \in {Null, "SET"}}

Ended(line) == FoldLeft(Observe, turn.recorder, Heard(line))

SaysFinished == upstream' = [upstream EXCEPT !.path = Status]

\* The history the turn adds to the store.
Told(recorder) == Append(turn.incoming, AssistantMessage(recorder))

\* _commit_turn: the clock is read now.
Commit(path, recorder, next) ==
  \E now \in Instants :
    /\ CommitTurn(turn.conv, Told(recorder), turn.session, recorder.parent, now)
    /\ turn' = [turn EXCEPT !.pc = next, !.path = path, !.recorder = recorder,
                            !.stamp = now, !.conv = CommittedAs(turn.conv, now)]

\* A drained turn is complete; what is made of it comes after.
DrainEnds ==
  /\ Reading /\ turn.mode # "stream"
  /\ \E line \in FinishLines :
       /\ Ended(line).finished
       /\ turn' = [turn EXCEPT !.pc = "settle", !.path = PathAfter(@, line),
                               !.recorder = Ended(line)]
  /\ metrics' = [metrics EXCEPT !.durations = @ + 1]
  /\ SaysFinished
  /\ Remember
  /\ UNCHANGED <<history, store, response>>

\* A streamed turn is committed before the client learns that it is over.
StreamEnds ==
  /\ Reading /\ turn.mode = "stream"
  /\ \E line \in FinishLines :
       /\ Ended(line).finished
       /\ Commit(PathAfter(turn.path, line), Ended(line), "reply")
  /\ SaysFinished
  /\ Remember
  /\ UNCHANGED <<history, response, metrics>>

\* Mutant: there is no budget.
CanRepairAlways == ToolMode /\ turn.recorder.calls = <<>>

\* A turn with tools that called none is repaired, once.
CanRepair == ToolMode /\ turn.recorder.calls = <<>> /\ turn.repairs < MaxToolRepairAttempts

\* The prompt without a tool in sight, if the model played the loop in prose
\* and something is left of the prompt.
RepairBase(simulated) ==
  IF simulated /\ StripToolHistory(turn.sent) # <<>> THEN RetryBase(turn.sent)
                                                    ELSE Compile(turn.sent, turn.incoming)

\* Mutant: the second attempt goes on from the first answer.
RepairRetryThreaded ==
  /\ turn.pc = "settle" /\ CanRepair
  /\ LET simulated == Simulated(turn.recorder)
     IN  turn' = [FreshAttempt(turn) EXCEPT
                    !.pc = "attempt", !.tries = 0, !.repairs = @ + 1,
                    !.simulated = simulated, !.prompt = RepairBase(simulated),
                    !.parent = turn.recorder.parent]
  /\ upstream' = Null
  /\ metrics' = [Attempting(metrics) EXCEPT !.repairs = @ + 1]
  /\ UNCHANGED <<history, store, response>>
  /\ Retain

\* The same session and the same parent again: the first answer becomes a
\* branch that nobody follows.
RepairRetry ==
  /\ turn.pc = "settle" /\ CanRepair
  /\ LET simulated == Simulated(turn.recorder)
     IN  turn' = [FreshAttempt(turn) EXCEPT
                    !.pc = "attempt", !.tries = 0, !.repairs = @ + 1,
                    !.simulated = simulated, !.prompt = RepairBase(simulated)]
  /\ upstream' = Null
  /\ metrics' = [Attempting(metrics) EXCEPT !.repairs = @ + 1]
  /\ UNCHANGED <<history, store, response>>
  /\ Retain

CommitDrained ==
  /\ turn.pc = "settle" /\ ~CanRepair
  /\ Commit(turn.path, turn.recorder, IF turn.repairs > 0 THEN "unlink" ELSE "reply")
  /\ metrics' = IF ToolMode /\ turn.recorder.calls = <<>>
                  THEN [metrics EXCEPT !.exhausted = @ + 1] ELSE metrics
  /\ UNCHANGED <<history, upstream, memory, response>>

\* Mutant: the link stays.
UnlinkRepairedNot ==
  /\ turn.pc = "unlink"
  /\ turn' = [turn EXCEPT !.pc = "reply"]
  /\ UNCHANGED <<history, store, upstream, memory, response, metrics>>

\* _finish_tool_turn: after a repair the session is not used again.
UnlinkRepaired ==
  /\ turn.pc = "unlink"
  /\ Invalidate(turn.conv)
  /\ turn' = [turn EXCEPT !.pc = "reply"]
  /\ UNCHANGED <<history, upstream, memory, response, metrics>>

-----------------------------------------------------------------------------
(* The response.                                                           *)

\* All the client has of the answer once it is complete: the rest of a
\* stream, a stream that was buffered, or a JSON body.  A turn with tools is
\* buffered for both, and which it is shows only here.
Ways == IF turn.mode = "tool" THEN {"plain", "stream"} ELSE {turn.mode}

Answer(way) ==
  CASE way = "plain" -> Body(turn.recorder)
    [] way = "stream" /\ ToolMode ->
         Delivered(NothingYet, NewRenderer, SynthesizedEvents(turn.recorder)).message
    [] OTHER ->
         Delivered(response.message, turn.renderer,
                   <<MessageFinished(turn.recorder.reason)>>).message

\* The answer arrives, and becomes part of the client's history.
Tell ==
  /\ turn.pc = "reply"
  /\ \E way \in Ways :
       /\ response' = [status |-> 200, message |-> Answer(way), done |-> TRUE]
       /\ history' = Append(turn.incoming, ClientMessage(Answer(way)))
  /\ TurnOver
  /\ UNCHANGED <<store, metrics>>
  /\ Retain

\* The client is gone before the answer is complete.  Only a stream that has
\* not ended notices; its generator is closed, which is not a failure.
Lose ==
  /\ Serving
  /\ turn.pc = "reply" \/ Begun
  /\ response' = NoResponse
  /\ TurnOver
  /\ UNCHANGED <<history, store, metrics>>
  /\ Retain

\* The gateway is restarted; the client keeps what it has.
Restart ==
  /\ EmptyStore
  /\ TurnOver
  /\ response' = NoResponse
  /\ metrics' = NoCounts
  /\ UNCHANGED history
  /\ Retain

Next ==
  \/ Ask \/ SessionOpened \/ SessionFailed
  \/ Ready \/ TakeSnapshot \/ Speak \/ Think \/ Note
  \/ Garbage \/ Truncate \/ Raise
  \/ DrainEnds \/ StreamEnds \/ RepairRetry \/ CommitDrained \/ UnlinkRepaired
  \/ Tell \/ Lose \/ Restart

Spec == Init /\ [][Next]_vars

-----------------------------------------------------------------------------
(* Properties.                                                             *)

TypeOK ==
  /\ Len(history) <= MaxMessages
  /\ \A c \in DOMAIN store :
       /\ store[c].messages # <<>>
       /\ store[c].parent \in MessageIds \union {Null}
       /\ store[c].session \in Sessions \union {Null}
       /\ {store[c].created, store[c].updated} \subseteq Instants
  /\ Serving =>
       /\ turn.pc \in {"session", "attempt", "settle", "unlink", "reply"}
       /\ turn.conv \in {NoConv} \union DOMAIN store
       /\ turn.tries \in 0..MaxRetries
       /\ turn.repairs \in 0..MaxToolRepairAttempts
       /\ turn.session = Null <=> turn.pc = "session"
  /\ upstream # Null => Serving /\ upstream \in Streams
  /\ response.done => response.status = 200

\* The store never holds more than max_conversations (conversation.py 410-420).
Bounded == Len(store) <= MaxConvs

\* What the gateway promises (ChatService): the client is told only what is
\* committed, although the commit comes before the last byte, the client
\* puts its answer together from chunks, and failures, evictions and restarts
\* come in between (server.py 1142-1159, conversation.py 353-395).
Known == {store[c].messages : c \in DOMAIN store}
           \union (IF turn.pc \in {"unlink", "reply"}
                     THEN {Told(turn.recorder)} ELSE {})

Chat == INSTANCE ChatService WITH known <- Known

ImplementsChat == Chat!Spec

\* Other conversations are stored, and each was written later by the clock.
Overtaken(rows, instant) ==
  /\ DOMAIN rows # {}
  /\ \A c \in DOMAIN rows : instant < rows[c].updated \/ instant < rows[c].created

\* Once the client has been told, its next message finds the conversation and
\* is all that is new, whatever way the history is written: what the recorder
\* stored, what the renderer showed and what is normalised from the wire are
\* the same.  Only a clock that has gone back may have cost it its place.
Resumes(rows, told) ==
  \A form \in ArgumentForms, message \in NewMessages(told) :
    Acceptable(message) =>
      LET incoming == MessagesToCanonical(Append(Resent(told, form), message))
          conv     == Resolve(rows, incoming)
      IN  /\ conv # NoConv
          /\ Delta(incoming, Len(rows[conv].messages)) = <<Canonical(message)>>

NextTurnResumes ==
  [][history' # history /\ history' # <<>> =>
       Resumes(store', history') \/ Overtaken(store, turn.stamp)]_vars

\* The client is shown what the model says in its answer, in that order, once
\* and under one role: nothing of its thoughts, of an attempt that was given
\* up, or after an envelope (streaming.py, wire.py, server.py 949-966).
ShownIsSaid ==
  Serving /\ upstream # Null =>
    /\ Begun => response.message.content = upstream.said
    /\ turn.pc = "reply" =>
         LET saying == Saying(upstream.said, ToolMode)
         IN  \A way \in Ways :
               /\ Answer(way).content = saying.words
               /\ Answer(way).calls # <<>> <=> saying.called
               /\ Answer(way).roles = 1
               /\ Answer(way).finish = IF saying.called THEN "tool_calls" ELSE "stop"

\* A branch that a request may go on from: a repaired turn's is let go at once.
Followed(c) == store[c].session # Null /\ ~(turn.pc = "unlink" /\ turn.conv = c)

\* On the branch a linked conversation goes on from is the conversation, though
\* it was told in deltas, some attempts were given up and results name tools
\* that were called in another turn; and nothing else but what the model said
\* after a call, which the gateway discards and upstream does not (server.py
\* 488-569, 969-985, tool_envelope.py 186-191).
BranchHoldsHistory ==
  \A c \in DOMAIN store :
    Followed(c) =>
      Heeded(Context(store[c].session, store[c].parent)) = Compile(store[c].messages, <<>>)

\* The whole and the part that is sent can be compiled,
SentCompilable == Serving => Compilable(turn.incoming) /\ Compilable(turn.sent)

\* and so can what is left of that part for the bare prompt, if any is.
BareCompilable ==
  Serving /\ StripToolHistory(turn.sent) # <<>> => Compilable(StripToolHistory(turn.sent))

\* What was accepted can be compiled, in every part that may be compiled: the
\* whole, the delta, and the bare prompt of a repair (prompt_compiler.py
\* 236-320 raises otherwise, past the check that answers 400).
CompileTotal == SentCompilable /\ BareCompilable

\* The conversation as upstream has heard it when an attempt begins: the branch
\* it goes on from, and the prompt.
Seen == Heeded(Context(turn.session, turn.parent)) \o turn.prompt

\* The second attempt of a turn that played the tool loop in prose, when
\* something is left of what the first was told.
BareAttempt == turn.simulated /\ StripToolHistory(turn.sent) # <<>>

\* The text of a prompt without the calls and the results.
WordsOf(blocks) ==
  FlattenSeq([i \in DOMAIN blocks |-> IF blocks[i].kind = "text" THEN <<blocks[i]>> ELSE <<>>])

\* Every attempt sees the conversation the client sent, once and in order,
\* whether it is told as a whole or as a delta, and however many attempts were
\* given up before: a repair and a retry see nothing of them.  Of what is sent,
\* and of that alone, a bare attempt sees the words and no more: the calls and
\* results that were told in earlier turns are on the branch it goes on from,
\* though DECISIONS.md 438 says that it shows none (server.py 488-569, 854-856,
\* 938-945, reliability.py 87-109).
AttemptsSeeHistory ==
  turn.pc = "attempt" =>
    LET known == Len(turn.incoming) - Len(turn.sent)
    IN  Seen = IF BareAttempt
                 THEN Compile(SubSeq(turn.incoming, 1, known), <<>>)
                        \o WordsOf(Compile(turn.sent, turn.incoming))
                 ELSE Compile(turn.incoming, <<>>)

\* Every attempt is timed once it is over, every failure is retried or is the
\* status the client sees, and the budgets hold (reliability.py 87-109,
\* metrics.py 86-128).
MetricsBalance ==
  LET running == turn.pc \in {"session", "attempt"} /\ ~Begun
  IN  /\ metrics.attempts = metrics.durations + (IF running THEN 1 ELSE 0)
      /\ Serving => metrics.failures = metrics.retries
      /\ ~Serving /\ response.status # Null =>
           (response.status = 200 <=> metrics.failures = metrics.retries)
      /\ metrics.retries <= MaxRetries * (2 + metrics.repairs)
      /\ metrics.exhausted <= metrics.repairs
      /\ metrics.repairs <= MaxToolRepairAttempts
=============================================================================
