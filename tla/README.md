# Verification of the DeepSeek-Web gateway for Qwen Code

The gateway (`app/`) offers an OpenAI-compatible chat API on top of one or more
DeepSeek Web accounts. A request carries its whole history; the gateway finds
the conversation it continues, reuses that conversation's upstream session when
it can, and rebuilds it when it cannot. What makes this hard is that handlers
are threads: they share the conversation store, the account registry and, per
account, one client library that is not thread-safe, and every step of a turn
can fail, be retried, repaired or moved to another account.

## 1. Inventory

| Component | State | Operations | Talks to |
|---|---|---|---|
| Account router (`accounts.py`) | per account: enabled, health, cooldown deadline, failure count, last use; one RLock | select for a new conversation, sticky lookup, record success / failure, enable, disable, reset | holds its lock while it reads and invalidates conversations of the store |
| Conversation store (`conversation.py`) | conversations by id: history, account, session, parent, two wall-clock stamps; one Lock | resolve, commit_turn, invalidate_backend_link, eviction, tool-call index | handed out as live objects that requests read without the lock |
| Orchestration (`server.py`, `reliability.py`) | per request: `_TurnContext`, `_TurnRecorder` | prepare, run (plain, tool, streaming), retry, repair, fail over, commit, fail | router, store, backend of the routed account |
| Envelope parser (`tool_envelope.py`) | held-back text, in-envelope flag, call, invalid flag | feed, finalize | fed by `_tool_aware_events` |
| Call gate (`deepseek_web/backend.py`) | `Semaphore(1)`, parser attribute of the shared client | create_session, stream_turn | pulled by the server's worker threads (`streaming.py`) |
| Prompt compiler and tools (`prompt_compiler.py`, `tools.py`) | none | wire messages to canonical ones, canonical ones to a prompt, arguments to one form | orchestration; the store compares what they normalise |
| Turn pipeline (`server.py`, `streaming.py`) | recorder, renderer flags, both per attempt or response | strict terminal, recorder, commit before the terminal event, SSE chunks, JSON body | adapter in front, store and client behind |
| Wire adapter (`deepseek_web/wire.py`, `normalize.py`) | the sticky path of one stream | line to chunk to events, exception to failure | vendored client, pipeline, error mapping |
| Metrics (`metrics.py`) | counters, one Lock | record, snapshot | orchestration, retry |
| Admin (`admin.py`, routes) | none of its own | views; disable, enable, reset | router |
| Types, config, diagnostics | none that outlives a call | pure functions, I/O | - |

The hard behaviours, each at its line in `PROJECT.json` "hazards": reads of a
shared conversation outside the lock (`_prepare_turn`); consequences that arrive
after the account's state has moved on; a clock read before the lock; a commit
in two steps; eviction of what another request holds; failure bookkeeping inside
a retried attempt; failover inside failover; a semaphore held by a suspended
generator, which a client that stops reading may keep suspended; text the model
adds after its call; sentinels split by upstream's increments; an answer that is committed
before its last byte is out, and then lost; a client's rendition of a history
that must compare equal to the recorder's; what an attempt that was given up
leaves behind; a repaired answer on a branch nobody follows; lines whose meaning
depends on the path named last; a wall clock that steps back under the eviction
order; a restart that keeps nothing.

## 2. Modules

```
AccountPolicy      who may serve, what an outcome does to an account; no clock
  AccountFleet     what the router promises, as a specification
  Gateway          requests, store and fleet together        + HistoryMatch
    GatewayProofs
AccountRouter      the router with its clock and its locks; implements AccountFleet
  AccountRouterProofs
EnvelopeParser     the incremental parser
  EnvelopeParserProofs
CallGate           semaphore, parser seam, worker pool
  CallGateProofs
Absent             None
  ToolOffer        the tools of a request, what is shown of them, the schema check
    ToolOfferProofs
  CanonicalHistory normalisation, tool-call index, prompt
  WireStream       lines, events, failures
    TurnEvents     recorder, renderer, client                (both of the above)
  ConversationStore  resolve, commit, eviction               + HistoryMatch
  Dialogue         one client's conversation                 TurnEvents + ConversationStore
    DialogueProofs     the store, the counters, what the operators of a turn compute
      DialogueTurnProofs  what is shown, prompts, the next turn, the refinement, the branches
ChatService        what the gateway promises a client, as a specification
LeastElement       two facts about numbers the proofs share
MCAccountRouter, MCGateway, MCEnvelopeParser, MCDialogue    instances for TLC
```

**AccountRouter.** One action per method, since each runs under the RLock. The
exception is `select_for_new_conversation`, which reads the clock before it
takes the lock (`accounts.py` 203-204): `ReadClock` and `Select` are two steps.
A turn holds no lock between getting its account and reporting; `Commit` (store)
and `RecordSuccess` (router) are two steps as in `_commit_turn`. The failure
counter is kept as "is it positive"; nothing in the code tells one failure from
two. Conversations appear as the binding and the link, all that the router sees.
The clock is `time.time`, the wall clock, and `Tick` sets it to any instant,
forward or back. What the router says of the length of a cooldown cannot hold
when it is set back, so `NoEarlyPromotion` and `ImplementsFleet` are properties
of `SteadySpec`, in which it is not. Everything else is a property of `Spec` and
proved of it; TLC, which takes one specification per run, has it under
`SteadySpec` too.
`FleetView` is the refinement mapping to **AccountFleet**: a cooldown whose
deadline has passed is already healthy, whether or not a selection has rewritten
the record.

**Gateway.** A request is a thread with a program counter. A step is what it
does under one lock, one read of a shared conversation outside any lock, or one
backend call:

| Code | Actions |
|---|---|
| `store.resolve` | `Resolve` (longest strict prefix, `HistoryMatch`) |
| `_prepare_turn` 494-506 | `CheckLink`, `DropLink`, `ReadSession`, `ReadParent` |
| `_prepare_turn` 511-550 | `Rebind`, `Select`, `Create`, `CreateFailed` |
| plain and tool turns | `Drain`, `DrainFails`, `RepairRetry` |
| streaming turns | `Prime`, `PrimeFails`, `PrimePunish`, `StreamFinishes`, `StreamBreaks`, `MidPunish`, `Disconnect` |
| `_fail_turn`, `_attempt_with_failover`, `_failover_session` | `FailTurn`, `Punish`, `FailoverSelect`, `FailoverCreate`, `FailoverFailed` |
| `_commit_turn`, `_finish_tool_turn` | `CommitTurn`, `RecordSuccess`, `UnlinkRepaired` |
| `_account_lifecycle` | `Operate` |

Python objects are the reason for `heap`: a stored conversation is handed out by
reference, so a request may go on reading and writing one that has been evicted.
`recency` is the store proper, least recently updated first. A failure category
is one of AUTH_INVALID, RATE_LIMITED (both move the account and may fail over),
TRANSIENT (retryable: network, 5xx, truncation) and FATAL (neither). The
upstream service is external: a session belongs to the account that made it, a
message id names a point of the session's tree, and what upstream works from is
the branch up to that point followed by the prompt. So "the session already
holds prior context" can be stated and checked.

`charges` and `moves` are history variables: consequences recorded against the
request's current account, and failovers established. What else the model leaves
out of this code: the invalidation loop of `record_failure` is one step (it runs
under the router lock, though not under one hold of the store lock); the
two-attribute test of the link in 494 is one read; a repair retry always starts
from the turn's own prompt (the stripped base of a simulated tool turn is a
shorter text on a branch that is thrown away); selection keeps the
fewest-conversations rule and leaves ties open, which AccountRouter has in full;
prompts are the messages they are compiled from.

**EnvelopeParser.** Text is a sequence of characters, sentinels and valid bodies
are constants. Each turn of the loop in `feed` is an action, and the next
increment waits until the loop has ended. `Parsed`, a recursive function on whole
texts, is the reference: it goes region by region and knows no increment.

**ToolOffer.** What "valid body" means to EnvelopeParser: the tools of one
request (`Normalize`, one entry of the loop of `normalize_tools`), what the
instruction block shows of their schemas (`Offer`), and `_validate` against the
schemas themselves (`Judge`). A schema is its required parameters and the
declared type of each; a value is its JSON kind, because the check looks no
deeper. The reference is JSON Schema's own meaning of a type (`Denotes`,
`Meant`) and the client's own list of entries (`Declares`).

`RefusalsExplained` names a place where the code does less than its comment
says. `tools.py` 297-299: the block "keeps every validation-relevant member" of
a schema and "only loses prose". `_strip_schema_descriptions` (307) drops
whatever is called `description`, a parameter of that name with it: the model is
not told its type, and a call that follows the block is refused for it. That is
the only way the comment fails.

**CallGate.** One account, its requests and the worker pool. A handler occupies a
worker from `Handle` until it returns; a streaming handler returns after its
first event and leaves a suspended generator that owns the gate and is pulled by
workers of the same pool (`iterate_in_threadpool`). An event that was pulled is
sent before the next one is (`sending`), and a send waits until its client has
read (`Read`) or is gone (`Disconnect`); the gate stays taken. `previous` is what
`stream_turn` saved of the parser attribute and puts back in its `finally`.

**ConversationStore.** The dict is a sequence, because a Python dict keeps its
keys in the order they were put in and both `resolve` and the eviction order end
ties that way. The clock of a commit is any instant: two commits may read the
same one, and a later commit an earlier one. A new conversation is put in, an
eviction may follow, and only then it is filled in (`commit_turn` 385-393), so a
clock that has gone back may evict the conversation being committed.

**CanonicalHistory, WireStream, TurnEvents** are the pure parts. A text is a
sequence of pieces (a word, a valid or a broken envelope, another simulation
marker), a prompt is a sequence of blocks; the layout of a block is left out, its
contents are not. How pieces are cut into increments is EnvelopeParser's subject.

**Dialogue** composes them: one client, whose requests come one after another.
The way requests interfere is Gateway's subject, the data of one turn is this
one's.

| Code | Actions |
|---|---|
| `chat_completions`, `messages_to_canonical`, `_prepare_turn` | `Ask`: the history and one more message, its arguments written as an object or as JSON text in two ways; what is refused changes nothing |
| `create_session` | `SessionOpened`, `SessionFailed` |
| a line through `WireSession.adapt`, `chunk_dict_to_events`, the parser's verdict, recorder and renderer | `Ready`, `TakeSnapshot`, `Speak`, `Think`, `Note` |
| an unreadable line, a stream that ends early, an exception of the client, each through `with_transport_retry` | `Garbage`, `Truncate`, `Raise`, each ending in `Retry`, `Surface` or `Broadcast` |
| the terminal line of a drained and of a streamed turn | `DrainEnds`, `StreamEnds` |
| `_run_tool_turn`, `_compile_turn` | `RepairRetry` (in the same session from the same parent, from a bare prompt when the model played the loop in prose) |
| `_commit_turn`, `_finish_tool_turn` | `CommitDrained`, `UnlinkRepaired` |
| the JSON body, the synthesized stream, the rest of a stream | `Tell` |
| a client that goes away, a gateway that is started again | `Lose`, `Restart` |

A turn with tools is buffered whether or not the client asked for a stream, so
which of the two it is shows only in `Tell`. Upstream is external: it speaks any
of the answers piece by piece, may think in between, may repeat or omit a path it
has named, and remembers for each message id what that branch has been told.
In a turn with tools upstream may say more after an envelope. The gateway's
parser discards that, upstream does not: `Remember` keeps everything that was
said (`Utterance`), a call that was talked on after as an `overrun` block, and
`Saying` is the part the gateway hears. `Heeded` takes the discarded part out of
a branch, which is how far a branch and the history can be compared; that they
are not simply equal is said in section 3. `Seen`, the branch and the prompt, is
the conversation as an attempt finds it, and `AttemptsSeeHistory` speaks of it
for every attempt: of a linked conversation only the delta is in the prompt.
`Retain` forgets, in that memory, the ids nobody refers to any more. Ids and
sessions nobody refers to are reused, the smallest first; `Ready`,
`SessionOpened` and a line of a turn with tools wait for a free one (`Free`),
which bounds the model only: in the run there always is one. Nothing is persisted,
so `Restart` empties the store; the client keeps its history and its next
message goes to a new session. `ChatService` is the abstract specification: a
client is told only an answer the gateway knows, it learns one answer at a time,
and it may forget. `Known`, what the gateway knows, is what is stored and the
answer of a turn whose program counter is past its commit and which is not yet
delivered. A commit that is skipped altogether is therefore not a violation of
`ImplementsChat` but of `NextTurnResumes`, which looks at the store itself.

## 3. Runs

| Run | Instance | Checks |
|---|---|---|
| AccountRouter | 2 accounts, 2 turns, 1 conversation, window 1, clock 3, never set back (297k states) | `TypeOK`, `CooldownStamped`, `InvalidHoldsNoLinks`, `NoEarlyPromotion`, `ImplementsFleet` |
| GatewayOne | 2 accounts, 1 request at a time, all modes, store of 2, 1 retry, resets (2.0M) | `TypeOK`, `TurnsExact`, `LinkMirrors` |
| GatewayOps | as above, store of 1, every failure, every operator command (644k) | `Remembered`, `DrainedChargedOnce`, `FailoverBounded`, `EveryRequestAnswered` |
| GatewayTwo | 2 accounts, 2 requests, store of 1, plain turns, AUTH_INVALID (2.9M) | `SessionsDistinct`, `LinkOwned` |
| EnvelopeParser | texts of up to 11 letters of a 3-letter alphabet, increments of 1 or 2; one tool with any schema over 2 parameters and 10 declarations, or two of 9 entries, any answer over 8 value kinds (1.2M) | `TypeOK`, `Lossless`, `EnvelopeHidden`, `CutsDoNotMatter`, `OfferTypeOK`, `ReleasedCallsFit`, `GenuineCallsPass`, `RefusalsExplained` |
| CallGate | 3 requests, 3 workers, 1 retry, 1 further event (9k) | `TypeOK`, `GateHeldInside`, `ParserOwned`, `ServedWhenAllRead` |
| Dialogue | 1 word, 2 answers, histories of up to 4 messages, store of 1, 2 instants, 1 retry, all modes (487k) | `TypeOK`, `Bounded`, `ShownIsSaid`, `BranchHoldsHistory`, `CompileTotal`, `AttemptsSeeHistory`, `MetricsBalance`, `ImplementsChat`, `NextTurnResumes` |
| DialogueOverrun | as Dialogue, one answer goes on after its envelope, no transport retry (320k) | `ShownIsSaid`, `BranchHoldsHistory`, `AttemptsSeeHistory` |

Four runs end in a counterexample, each against a sentence of the repository
(`PROJECT.json` "findings"):

| Run | What happens | Sentence |
|---|---|---|
| RouterRevival | Two turns run on an account. One fails with AUTH_INVALID; the other then with RATE_LIMITED (or succeeds). The account is cooling, then healthy, without an operator. | accounts.py 296, server.py 1587-1589 |
| StreamCharges | A streaming turn fails while it is primed and is retried. `_observed_events` has punished the account and dropped the link although the retry may succeed. | server.py 608, accounts.py 294 |
| TornLink | The link is checked, the operator disables the account, the session and parent are read: the delta is sent where no history is. | server.py 459-460 |
| CallGateStarved | A suspended stream holds the gate, every worker waits for it, none is left to pull it. | API_CONTRACT.md 39 |

The text of the repository and its code disagree in a few places more. They are
stated in a property's comment, as the case it makes room for, instead of in a
run of their own:

- A turn of one attempt keeps its link although the model has talked on after its
  call (`server.py` 984, `tool_envelope.py` 186-191). DECISIONS.md 347 drops a link
  for the sake of what a branch holds and "canonical history does not mirror",
  and says that a single attempt leaves nothing of the kind. `BranchHoldsHistory`
  says what such a branch does hold.
- The second attempt of a turn that played the tool loop in prose is told nothing
  tool-shaped, but it goes out on the turn's own parent (`server.py` 854-856). If
  the turn is linked, the calls and results of earlier turns are on that branch.
  DECISIONS.md 438 says that "the retry context presents ZERO imitable templates",
  `server.py` 410 that it must not show any. `AttemptsSeeHistory` says what it shows.
- "Clients see normal responses, just serialized latency per account"
  (API_CONTRACT.md 39) needs clients that read. One that keeps its connection
  and stops reading blocks the send of its stream, whose suspended generator
  keeps the gate. `ServedWhenAllRead` says what is left of the promise.
- A request may fail over once for its session and once more for its turn.
  PROGRESS.md 417 speaks of "EXACTLY ONE bounded attempt per failing request",
  ADR-038 of one "per request per site", which is `FailoverBounded`.
- The parameter called `description` of section 2 (`RefusalsExplained`).

**Bounds and why they are enough.** Two accounts are the least with a failover
and three the least with a chain of them. Two turns are the least that
interfere; two requests of one client continue the same conversation, evict it
under each other and commit over each other. `OneClient` sends a history and its
continuation, so a turn can match, miss and re-send. One or two stored
conversations make eviction frequent. One retry separates "the retry succeeds"
from "the budget is spent". The repair budget is the code's own, one. In
EnvelopeParser the start sentinel `<<s` begins with its own first character
doubled and shares it with the end sentinel `<e`, so false starts, overlaps and
an invalid region followed by a valid one all fit into eleven letters. Those
texts are the turn of one request (`Talking`); the other requests get an
envelope with nothing around it, because the check of a body does not look at
the text. In Dialogue the answers are a marker followed by an envelope and an
envelope alone, and upstream may end an answer after any piece of it. So a turn
calls a tool with and without text before it, a turn without tools is shown the
envelope as text, and an answer cut short is empty or a simulation, which is
repaired. In DialogueOverrun a marker may follow the envelope instead, which a
turn with tools neither shows nor stores and the branch keeps. Four messages are two
turns: the second is either a continuation or the result of a tool that was
called in the first, and a store of one evicts whenever the client's history is
not found. A bare prompt on a branch that holds a call takes six messages, and is
left to the theorem. Two instants are the least with a tie and with a step back. Counters
are bounded by the code (`MaxRetries`, moves, charges); `MaxClock`, `MaxText`,
`MaxChunk`, `MaxEvents`, `MaxMessages` and `MaxElsewhere` are the model's own
bounds, each in a guard. `MaxElsewhere` bounds only the failures that struck a
request's earlier calls to the backend (`MayFail`): every call still meets every
failure and every retry.

**Symmetry and views.** Turns, conversations and requests are interchangeable
everywhere; accounts are in Gateway, not in AccountRouter, where config order
breaks ties. The runs with `EveryRequestAnswered` and `ServedWhenAllRead` use
neither. GatewayTwo identifies states that differ only in what was said to
upstream (`Links`): no guard and neither of its two invariants looks at prompts
or contexts, and the runs that ask about them do not use the view.

**Fairness.** `Gateway!FairSpec` is weak fairness of each request's own steps:
threads are scheduled and backend calls return, because the client library has
an inactivity timeout (ADR-036). The operator and the end of a cooldown owe
nothing. For a streaming turn the steps of a request include being read, so
`EveryRequestAnswered` takes its own client to read its stream, or to leave.

In CallGate clients owe nothing at all, and what depends on them stands in the
properties. `CallGate!FairSpec` is strong fairness of each request's own steps,
`Read` and `Disconnect` not among them. It has two parts. The worker pool's
limiter serves its waiters in the order they came. That the gate passes over no
waiter for ever is an assumption: `threading.Semaphore` wakes its waiters in turn
but lets a newcomer in first, so only chance rules starvation out.
`ServedWhenAllRead`: if every client reads or leaves, every request ends. With a
worker per request this holds; with one fewer, CallGateStarved, no fairness
helps.

**Concurrent turns of one conversation.** `TurnsExact` and `LinkMirrors` are
checked with one request at a time. With two requests continuing one
conversation a turn may run on a branch that already holds the other's; the
repository accepts duplicate rows for concurrent duplicates (DECISIONS.md 224).
What must hold even then, and does, is `LinkOwned` and `SessionsDistinct`.

**Deadlock** is checked except in the runs of MCEnvelopeParser, where a finished stream or a
verdict is the end.

Dialogue states no fairness: its two temporal properties say what a step may do,
and that requests end is GatewayOps' and CallGate's question.

## 4. Proofs

The proof modules are checked by tlapm, for every value of the constants under
the named assumptions of the modules they are about only: every number of
accounts, turns, conversations, requests, workers and retries, every clock and
window, every alphabet and text, every set of words and answers.

- `TypeCorrect`, `CooldownsStamped`, `InvalidLinksExcused` follow from one
  inductive invariant, `IInv`. `InvalidHoldsNoLinks` is not inductive alone: a
  turn may only commit for the account it holds, a live link must have an
  account, and every turn that runs or has committed must hold one.
- `PromotionsWait`: a selection decides at an instant it read earlier, so the
  invariant must say that no clock reading is in the future (`Past`). It is kept
  only where the clock is not set back: the theorem is about `SteadySpec`, and so
  is the next. The others in this module are about `Spec`.
- `RouterImplementsFleet`: initial states map to initial states and every step to
  a step of AccountFleet or a stutter. `Select` maps to `PlaceNew` because a
  usable account at an earlier instant is usable now; its lazy promotion is a
  stutter, `Tick` is `Elapse` for the accounts whose deadline it passes.
- `CallsExclude`, `SeamPrivate`, `GateTypeCorrect` follow from `GateInv`. That a
  turn finds the client's own parser to save needs that nobody else is inside
  when the gate is free (`Clean`), and that a session call leaves the parser
  alone (`Between`). `Entering` proves the invariant once for every kind of step
  a request can make, and `StepGate` has one case per action.
- `ParserTypeCorrect`, `NothingLost`, `EnvelopesHidden` follow from the parser's
  `IInv`. What is missing from the two properties is what a state looks like once
  there is a call: its text begins with the call's envelope, what has been read
  past it is discarded, and nothing is held back (`Consumed`). `Found` says that a
  text is what stands before the first occurrence of a sentinel, the sentinel and
  the rest, and rests on the least element of a set of positions; `HeldBack` says
  the same of the greatest overlap. Concatenation goes under a name of its own,
  `Join`, of which the provers see three laws.
- `CutsImmaterial` compares the parser with `Parsed`. A recursive function is a
  choice, so the first thing to show is that it satisfies its own equation
  (`ParsedScan`): the partial functions that do, on texts up to a length, are
  extended one length at a time, and a least counterexample does the induction.
  The invariant `Ahead` speaks of every way the text may go on: `Parsed` of the
  text and a rest is what is out, followed by `Parsed` of what is held back and
  that rest, and is settled once there is a call. What is given out between
  increments is no part of a sentinel that is still coming, which is what the
  greatest overlap is for.
- `CallsFit`, `GenuinePass`, `OfferExplainsRefusals` follow from an invariant that
  says of the kept tools that each is the first entry of its name and none is
  missing, and that a name is declared once (`DeclaredKept`). `MatchSound` and
  `MatchComplete` compare the check by type name with what the type means: the one
  difference is a whole number written as a float.
- `FailoversBounded`, `DrainedTurnsChargeOnce`, `LinksOwned` and `SessionsApart`
  follow from `GatewayProofs!IInv`, assuming only that there are finitely many
  requests and conversation slots. For each request it says, by program counter,
  how many failovers and charges its turn may have used up and whether it holds
  a session of its account. For the store it says that every session is owned by
  its conversation's account, and, since neither property is inductive alone,
  that a session a request has read or made and a session a conversation links
  to are the same only if the conversation is the request's own (`CopiesFit`),
  and that two requests with one session hold one conversation (`CopiesAgree`).
  A new session is unused because those in use are finitely many (`FreshUnused`);
  a new conversation finds a free slot by counting (`FreeSlotExists`).
  `OrdinaryStep` does the work once for every action that opens no session;
  `ReadSession`, `Create`, `FailoverCreate` and `CommitTurn` have arguments of
  their own.
- `GatewayTypeCorrect` adds to `IInv` the sizes `TypeOK` speaks of (`TInv`).
  `SerialTurnsExact` and `SerialLinksMirror` hold for any number of requests
  whose behaviour never has two of them hold one conversation, nor a link dropped
  between its check and its reads (`Serial`). Without the second TornLink is the
  counterexample, without the first concurrent turns of one conversation are.
  `SInv` says what a request knows of the conversation it continues (`Reads`: what
  is stored and what it will send are together what the client sent), what
  upstream makes of what it sends (`Runs`), and that every link but that of a
  repaired turn about to be unlinked mirrors its messages. The hypothesis is met:
  `SoloTurnsExact` and `SoloLinksMirror` derive it from one request at a time and
  an operator who disables nothing, as in GatewayOne. `SoloRemembered` needs the
  first of these only (`Recalled`: what a request has written is still stored).
- The theorems about Dialogue have one invariant in common, `DialogueInvariant`,
  put together in layers that use one another:
  - `Typed` says that some universe of values holds the store and the turn, and a
    step may enlarge it. `Bounded` needs no more (`StoreBounded`): the order by
    update, birth and place has exactly one least element among the stored
    conversations, however the clock has run (`VictimStored`), so an eviction
    evicts. `Balance` (`CountersBalance`) says what the calls before the present
    one may have used up, because `MetricsBalance` bounds the retries of a whole
    request by a number per call, and that a stream which has begun is an attempt
    already timed.
  - `Speech` relates the recorder, the renderer and the client's message to what
    upstream has said: `Standing` where the stream is and what the recorder may
    hold at each program counter, `Upheld` that the recorder's text and call are
    what was said up to the first envelope, `Shown` that what a streamed turn has
    shown is that. `ShownIsSaid` follows by `AnswerIsBody`: the JSON body, the
    stream synthesized from a buffered turn and the rest of a live stream put
    together the same message.
  - `Kept` says of the client's history, of every stored history and of the turn's
    own messages that each is made of messages a client can be told and can send
    back (`Spoken`), that they were accepted, that the turn sends what it has not
    told yet (`Asked`), that the conversation it holds is where it was found
    (`Placed`), which prompt that makes, bare or not (`Prompted`), and that what is
    being told is stored, or the clock has gone back (`Committed`). `CompileTotal`
    follows.
- `NextTurnFound`: a client's rendition of a history normalises to that history,
  in whatever form (`Resent`); the history just told is a row of the store
  (`CommitRows`) or the clock is behind every stored conversation; and the longest
  prefix is then no shorter than that row (`FoundAgain`).
- `DialogueImplementsChat`: a step maps to `Learn` when it commits, to `Tell` when
  the answer arrives, to `Forget` when it evicts, loses or restarts, and to a
  stutter otherwise. `Tell` needs that what the client puts together is what was
  stored, which is `AnswerIsBody` again.
- `BranchesHoldHistory` compares what upstream was told in deltas with a history
  compiled in one piece. The two meet in `Voices`, which tells each message by
  itself and therefore divides wherever a history does (`VoicesDivided`): the
  compiler gives exactly that for a part of a history as well as for the whole,
  as long as every result answers an earlier call, because then the name it looks
  up is the tool's (`RestCompiled`, `AllCompiled`). What a client may send keeps
  histories that way (`Answerable`). `Marked` says that the answer that is read has
  at most one call and a message id that neither a stored link nor the turn goes on
  from, so that what upstream remembers at its end overwrites no branch in use, and
  `Retain` forgets none (`BranchKept`). What upstream remembers of an answer is all
  it said; what is heard of that is the part up to the first envelope, which is what
  the store gets (`UtteranceHeeded`), and a branch is heard piece by piece
  (`HeededJoined`). `TurnTold` says that the branch of a turn, as heard, is the part
  of its request that is not sent, and of an answer that is complete and was not
  repaired that its branch is the history with it; a repaired turn's is not, which is
  why `StoreTold` excepts the conversation that is about to be unlinked. `ToldSound`
  keeps the blocks of every branch such that hearing them is defined.
- `EveryAttemptSeesHistory` needs the same invariant: `TurnTold` gives the branch,
  `Prompted` the prompt, and the two join where the history was divided
  (`PromptHeard`). Of a bare attempt the prompt is the text blocks of what would
  otherwise be sent, because the fold that strips a history keeps every word and no
  call and no result (`StrippedWords`). That such an attempt sees no call at all is
  not claimed, because it may: the branch is not stripped.
- A fold over events is, for the provers, a run over the places of a sequence
  (`Iterated`, `Chain`): some function of the places starts with the base, makes
  one step per element, and its last value is the fold's. What holds at every place
  is carried from one to the next (`Carried`, `Inducted`), by the least place where
  it fails.

Only model-checked: the liveness properties `EveryRequestAnswered` and
`ServedWhenAllRead`. Fairness, ENABLED, recursive operators and theorems with an
operator for a parameter are out of this prover's reach.

## 5. Plan

1. (done) AccountRouter, AccountFleet, Gateway, EnvelopeParser, CallGate; the
   router's and the gate's theorems.
2. (done) ConversationStore with the wall clock and its ties; its bound.
3. (done) The turn pipeline from wire line to client, composed with the store and
   the prompt compiler; the abstract ChatService and the refinement.
4. (done) `Lossless` and `EnvelopeHidden` for every alphabet and sentinel; the
   balance of the counters.
5. (done) `LinkOwned`, `SessionsDistinct`, `FailoverBounded` and
   `DrainedChargedOnce` of Gateway as theorems.
6. (done) The schema check of tool arguments.
7. (done) The parser against `Parsed`, the exactness of Gateway's turns, and the
   dialogue: types, what is shown, what can be compiled, the next turn, the
   branches, the refinement.
8. The counters of the middleware.

## 6. Not modelled

- The wording of the tool instructions and the cut of a tool's description to
  its first line; nested schemas, which the check does not look into.
- Pydantic types, the wording of error bodies, the layout of prompt blocks: no
  property is about them. Categories, retryability and statuses are in WireStream.
- Configuration is read once before the first request. Diagnostics write samples
  on demand and nothing reads them back. The admin page and the read-only views
  change nothing; its three commands are actions.
- In the store: `put` is called by tests only, `get`, `conversations`, `to_dict`
  and `from_dict` only read, `validate_tool_history` only logs.
- In the backend: `health_check` and the construction of the client; `sanitize.py`
  and the payload parser of `normalize.py`, which serve the probe script. No
  backend yields a `BackendError` event, so the branches for it are left out.
- An operation of the wire protocol with an object for a value returns before its
  path is recorded (`wire.py` 152). `PathAfter` has that rule, but nothing in the
  repository says that upstream sends one before an operation without a path, so
  no line of Dialogue is one.
- The middleware's request counts and durations, the tool-turn and failover
  counters: each is one increment no other state depends on.
- The vendored client is third-party; what the gateway relies on is external in
  the models. Nothing is persisted, so a restart is `Dialogue!Restart`; for the
  other models it is `Init`.
