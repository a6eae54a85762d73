------------------------------- MODULE Gateway -------------------------------
(***************************************************************************)
(* One chat-completions request after another, and side by side: how       *)
(* app/server.py resolves the conversation, routes it to an account, opens *)
(* or reuses a backend session, runs the turn with retries, repair and     *)
(* failover, and commits or fails it, against the shared conversation      *)
(* store (app/conversation.py) and account router (app/accounts.py).       *)
(*                                                                         *)
(* Each request is a thread.  A step is what the thread does under one     *)
(* lock, or one read of a shared conversation outside any lock, or one     *)
(* call to the backend.  Between two steps any other request, the operator *)
(* or the passing of a cooldown may intervene.                             *)
(*                                                                         *)
(* The upstream chat service is external.  A session belongs to the        *)
(* account that created it, a message id names a node of the session's     *)
(* tree, and what the service remembers at that node is the context it     *)
(* has been sent along the branch.                                         *)
(***************************************************************************)
EXTENDS AccountPolicy, HistoryMatch, FiniteSets

CONSTANTS
  Requests,     \* request threads
  Histories,    \* the canonical histories clients send
  Replies,      \* what the model may answer
  Hint,         \* the repair hint of a second attempt
  Modes,        \* subset of {"plain", "tool", "stream"}
  Failures,     \* what upstream may answer instead
  Operators,    \* operator commands in play, subset of {"disable", "enable", "reset"}
  MaxConvs,     \* capacity of the conversation store
  MaxRetries,   \* RetryPolicy.max_retries
  NoAccount     \* None

ASSUME GatewayAssumption ==
  /\ MaxConvs \in Nat \ {0}
  /\ MaxRetries \in Nat
  /\ IsFiniteSet(Requests)
  /\ NoAccount \notin Accounts
  /\ Failures \subseteq {"AUTH_INVALID", "RATE_LIMITED", "TRANSIENT", "FATAL"}
  /\ Modes \subseteq {"plain", "tool", "stream"}
  /\ \A h \in Histories : h \in Seq(ToSet(h)) /\ h # <<>>

VARIABLES
  fleet,      \* the account router's records
  heap,       \* conversation objects, stored or only held by a request
  recency,    \* the stored ones, least recently updated first
  request     \* the local state of each request

vars == <<fleet, heap, recency, request>>

-----------------------------------------------------------------------------
\* BackendFailure.retryable: 429, network, 5xx and truncation are.
Retryable(category) == category \in {"RATE_LIMITED", "TRANSIENT"}

FailoverCategories == {"AUTH_INVALID", "RATE_LIMITED"}

NoSession == [owner |-> NoAccount, serial |-> 0]
NoParent  == [session |-> NoSession, context |-> <<>>]

\* One object per stored conversation, one that is about to be evicted, and
\* one per request that still holds an evicted conversation.
Slots == 1..(MaxConvs + 1 + Cardinality(Requests))
NoConv == 0

NewConv == [messages |-> <<>>, account |-> NoAccount,
            session |-> NoSession, parent |-> NoParent]

Blank == [pc |-> "idle", mode |-> "plain", incoming |-> <<>>, conv |-> NoConv,
          known |-> 0, account |-> NoAccount, session |-> NoSession,
          parent |-> NoParent, prompt |-> <<>>, reply |-> <<>>, node |-> NoParent,
          tries |-> 0, repaired |-> FALSE, rerun |-> FALSE, moves |-> 0,
          target |-> NoAccount, cause |-> "none", targetCause |-> "none",
          charges |-> 0]

Stored == ToSet(recency)

\* An attempt is over: its session and prompt are of no more use.
Over(q, pc) == [q EXCEPT !.pc = pc, !.session = NoSession, !.parent = NoParent,
                         !.prompt = <<>>, !.tries = 0]

\* A consequence is recorded against the account of the attempt.
Charge(q, pc) == [Over(q, pc) EXCEPT !.charges = @ + 1]

\* The request is refused: all it keeps is what it cost.
Refused(q, cost) == [Blank EXCEPT !.pc = "failed", !.mode = q.mode, !.moves = q.moves,
                                  !.charges = q.charges + cost]

\* The turn is answered; its session, and the message that ends it, are kept.
Answered(q, answer) ==
  [q EXCEPT !.pc = "commit", !.reply = answer.reply, !.node = answer.node,
            !.parent = NoParent, !.prompt = <<>>, !.tries = 0]

\* An evicted object that no request holds is garbage.
HeldBy(R) == {request[q].conv : q \in R}

Swept(h, reachable) == [c \in Slots |-> IF c \in reachable THEN h[c] ELSE NewConv]

\* The request ends: the thread's references go with it.
Gone(r) ==
  /\ request' = [request EXCEPT ![r] = Blank]
  /\ heap' = Swept(heap, Stored \union HeldBy(Requests \ {r}))
  /\ UNCHANGED <<fleet, recency>>

Messages == [c \in Slots |-> heap[c].messages]

Init ==
  /\ fleet = NewFleet
  /\ heap = [c \in Slots |-> NewConv]
  /\ recency = <<>>
  /\ request = [r \in Requests |-> Blank]

-----------------------------------------------------------------------------
(* The upstream service (external).                                        *)

\* What the service holds that nobody refers to any more is as good as gone,
\* so serial numbers can be used again.
SessionsInUse ==
  {heap[c].session : c \in Slots} \union {heap[c].parent.session : c \in Slots}
    \union {request[r].session : r \in Requests}
    \union {request[r].parent.session : r \in Requests}
    \union {request[r].node.session : r \in Requests}

FreshSession(a) ==
  LET taken   == {s.serial : s \in {x \in SessionsInUse : x.owner = a}}
      Serials == 1..(1 + Cardinality(taken))
      least   == CHOOSE n \in Serials \ taken : \A m \in Serials \ taken : n <= m
  IN  [owner |-> a, serial |-> least]

\* A turn lands on the branch it names, in a session of the account that asks.
Accepted(q) ==
  /\ q.session # NoSession /\ q.session.owner = q.account
  /\ q.parent = NoParent \/ q.parent.session = q.session

\* What the service would work from: the branch so far, then the prompt.
Sent(q) == q.parent.context \o q.prompt

-----------------------------------------------------------------------------
(* The store's operations, each under the store lock.                      *)

Unlinked(h, C) ==
  [c \in Slots |-> IF c \in C THEN [h[c] EXCEPT !.session = NoSession, !.parent = NoParent]
                              ELSE h[c]]

BoundTo(a) == {c \in Stored : heap[c].account = a}

FreeSlot ==
  LET held == Stored \union {request[r].conv : r \in Requests}
  IN  CHOOSE c \in Slots \ held : \A d \in Slots \ held : c <= d

\* Mutants: one conversation too many; the newest evicted.
KeptOneMore(order) ==
  IF Len(order) > MaxConvs + 1 THEN SubSeq(order, Len(order) - MaxConvs, Len(order))
                               ELSE order

KeptOldest(order) == SubSeq(order, 1, IF Len(order) > MaxConvs THEN MaxConvs ELSE Len(order))

\* _evict_if_needed: the least recently updated go first.
Kept(order) ==
  IF Len(order) > MaxConvs THEN SubSeq(order, Len(order) - MaxConvs + 1, Len(order))
                           ELSE order

-----------------------------------------------------------------------------
(* chat_completions and _prepare_turn.                                     *)

Arrive(r) ==
  /\ request[r].pc = "idle"
  /\ \E mode \in Modes, incoming \in Histories :
       request' = [request EXCEPT ![r] =
         [Blank EXCEPT !.pc = "resolve", !.mode = mode, !.incoming = incoming]]
  /\ UNCHANGED <<fleet, heap, recency>>

\* store.resolve; equal candidates are told apart by age in the code, by no
\* rule here.
Resolve(r) ==
  LET found == BestMatches(Messages, Stored, request[r].incoming) IN
  /\ request[r].pc = "resolve"
  /\ \/ /\ found = {}
        /\ request' = [request EXCEPT ![r].pc = "select"]
     \/ \E c \in found :
          request' = [request EXCEPT ![r].pc = "link", ![r].conv = c,
                                     ![r].known = Len(heap[c].messages)]
  /\ UNCHANGED <<fleet, heap, recency>>

\* Is there a live link, and may its account keep serving it?
CheckLink(r) ==
  LET q == request[r]
      c == heap[q.conv]
  IN
  /\ q.pc = "link"
  /\ request' = [request EXCEPT ![r] =
       CASE c.session = NoSession                        -> [@ EXCEPT !.pc = "bound"]
         [] c.session # NoSession /\ MayServe(fleet, c.account)
                                                         -> [@ EXCEPT !.pc = "session",
                                                                      !.account = c.account]
         [] OTHER                                        -> [@ EXCEPT !.pc = "drop"]]
  /\ UNCHANGED <<fleet, heap, recency>>

DropLink(r) ==
  /\ request[r].pc = "drop"
  /\ heap' = Unlinked(heap, {request[r].conv})
  /\ request' = [request EXCEPT ![r].pc = "bound"]
  /\ UNCHANGED <<fleet, recency>>

\* The two reads of the link happen after the checks and outside any lock.
ReadSession(r) ==
  /\ request[r].pc = "session"
  /\ request' = [request EXCEPT ![r].pc = "parent",
                                ![r].session = heap[request[r].conv].session]
  /\ UNCHANGED <<fleet, heap, recency>>

ReadParent(r) ==
  LET q == request[r] IN
  /\ q.pc = "parent"
  /\ request' = [request EXCEPT ![r].pc = "call",
                                ![r].parent = heap[q.conv].parent, ![r].known = 0,
                                ![r].prompt = Delta(q.incoming, q.known)]
  /\ UNCHANGED <<fleet, heap, recency>>

\* A dead link is rebuilt on the account it was bound to, if that may serve.
Rebind(r) ==
  LET a == heap[request[r].conv].account IN
  /\ request[r].pc = "bound"
  /\ IF a # NoAccount /\ MayServe(fleet, a)
       THEN request' = [request EXCEPT ![r].pc = "create", ![r].account = a]
       ELSE request' = [request EXCEPT ![r].pc = "select"]
  /\ UNCHANGED <<fleet, heap, recency>>

\* The usable accounts with the fewest conversations; last_used_at and config
\* order, which decide among them, are in AccountRouter.
LeastActive ==
  {a \in Usable(fleet) :
     \A b \in Usable(fleet) : Cardinality(BoundTo(a)) <= Cardinality(BoundTo(b))}

Select(r) ==
  /\ request[r].pc = "select"
  /\ \/ \E a \in LeastActive :
          request' = [request EXCEPT ![r].pc = "create", ![r].account = a]
     \/ /\ Usable(fleet) = {}
        /\ request' = [request EXCEPT ![r] = Refused(@, 0)]
  /\ UNCHANGED <<fleet, heap, recency>>

\* create_session under with_transport_retry.
Create(r) ==
  LET q == request[r] IN
  /\ q.pc = "create"
  /\ \/ request' = [request EXCEPT ![r] =
          [@ EXCEPT !.pc = "call", !.session = FreshSession(q.account), !.parent = NoParent,
                    !.prompt = q.incoming, !.tries = 0]]
     \/ \E category \in Failures :
          IF Retryable(category) /\ q.tries < MaxRetries
            THEN request' = [request EXCEPT ![r].tries = @ + 1]
            ELSE request' = [request EXCEPT ![r] =
                   [Over(q, "createFailed") EXCEPT !.cause = category]]
  /\ UNCHANGED <<fleet, heap, recency>>

-----------------------------------------------------------------------------
(* record_failure, and the failover after it.                              *)

\* router.record_failure: the account's consequence, and for a dead account
\* the links of all its stored conversations, under the router lock.
Consequence(a, category) ==
  /\ fleet' = Failed(fleet, a, category)
  /\ heap' = IF category = "AUTH_INVALID" THEN Unlinked(heap, BoundTo(a)) ELSE heap
  /\ UNCHANGED recency

\* Mutant: the failure leaves through the handler of the turn's own failure.
CreateFailedTwice(r) ==
  LET q == request[r] IN
  /\ q.pc = "createFailed"
  /\ Consequence(q.account, q.cause)
  /\ request' = [request EXCEPT ![r] =
       IF q.cause \in FailoverCategories THEN Charge(q, "foSelect") ELSE Charge(q, "fail")]

CreateFailed(r) ==
  LET q == request[r] IN
  /\ q.pc = "createFailed"
  /\ Consequence(q.account, q.cause)
  /\ request' = [request EXCEPT ![r] =
       IF q.cause \in FailoverCategories THEN Charge(q, "foSelect") ELSE Refused(q, 1)]

\* charges counts the consequences recorded since the request was last given
\* an account, moves the failovers established; both are history variables.

\* _failover_session: one selection, one session; whatever stops it, the
\* ORIGINAL failure surfaces.
FailoverSelect(r) ==
  /\ request[r].pc = "foSelect"
  /\ \/ \E a \in LeastActive :
          request' = [request EXCEPT ![r].pc = "foCreate", ![r].target = a,
                                     ![r].charges = 0]
     \/ /\ Usable(fleet) = {}
        /\ request' = [request EXCEPT ![r] = Refused(@, 0)]
  /\ UNCHANGED <<fleet, heap, recency>>

FailoverCreate(r) ==
  LET q == request[r] IN
  /\ q.pc = "foCreate"
  /\ \/ request' = [request EXCEPT ![r] =
          [q EXCEPT !.pc = "call", !.account = q.target, !.target = NoAccount,
                    !.session = FreshSession(q.target), !.parent = NoParent,
                    !.prompt = q.incoming, !.tries = 0, !.repaired = FALSE,
                    !.moves = @ + 1, !.cause = "none"]]
     \/ \E category \in Failures :
          IF Retryable(category) /\ q.tries < MaxRetries
            THEN request' = [request EXCEPT ![r].tries = @ + 1]
            ELSE request' = [request EXCEPT ![r] =
                   [Over(q, "foFailed") EXCEPT !.targetCause = category]]
  /\ UNCHANGED <<fleet, heap, recency>>

FailoverFailed(r) ==
  LET q == request[r] IN
  /\ q.pc = "foFailed"
  /\ Consequence(q.target, q.targetCause)
  /\ request' = [request EXCEPT ![r] = Refused(q, 1)]

-----------------------------------------------------------------------------
(* The turn.                                                               *)

Answer(q) ==
  {[reply |-> <<m>>, node |-> [session |-> q.session, context |-> Sent(q) \o <<m>>]] :
     m \in Replies}

\* A non-streaming turn is drained whole before there is a response.
Drain(r) ==
  LET q == request[r] IN
  /\ q.pc = "call" /\ q.mode \in {"plain", "tool"}
  /\ Accepted(q)
  /\ \E answer \in Answer(q) : request' = [request EXCEPT ![r] = Answered(q, answer)]
  /\ UNCHANGED <<fleet, heap, recency>>

\* Mutant: no budget for repairs.
RepairForever(r) ==
  LET q == request[r] IN
  /\ q.pc = "call" /\ q.mode = "tool"
  /\ Accepted(q)
  /\ request' = [request EXCEPT ![r].repaired = TRUE, ![r].tries = 0,
                                ![r].prompt = q.incoming \o <<Hint>>]
  /\ UNCHANGED <<fleet, heap, recency>>

\* A tool turn drained without a valid envelope is run once more, from the
\* same parent, with the hint and a new transport budget.
RepairRetry(r) ==
  LET q == request[r] IN
  /\ q.pc = "call" /\ q.mode = "tool" /\ ~q.repaired
  /\ Accepted(q)
  /\ request' = [request EXCEPT ![r].repaired = TRUE, ![r].tries = 0,
                                ![r].prompt = @ \o <<Hint>>]
  /\ UNCHANGED <<fleet, heap, recency>>

DrainFails(r) ==
  LET q == request[r] IN
  /\ q.pc = "call" /\ q.mode \in {"plain", "tool"}
  /\ \E category \in Failures :
       IF Retryable(category) /\ q.tries < MaxRetries
         THEN request' = [request EXCEPT ![r].tries = @ + 1]
         ELSE request' = [request EXCEPT ![r] =
                [Over(q, "fail") EXCEPT !.cause = category]]
  /\ UNCHANGED <<fleet, heap, recency>>

\* A streaming turn is committed to the client once its first event is there.
Prime(r) ==
  LET q == request[r] IN
  /\ q.pc = "call" /\ q.mode = "stream"
  /\ Accepted(q)
  /\ request' = [request EXCEPT ![r].pc = "stream", ![r].tries = 0]
  /\ UNCHANGED <<fleet, heap, recency>>

\* _observed_events catches the failure of EVERY priming attempt and calls
\* _fail_turn: first the link, then the account.
PrimeFails(r) ==
  LET q == request[r] IN
  /\ q.pc = "call" /\ q.mode = "stream"
  /\ \E category \in Failures :
       request' = [request EXCEPT ![r].pc = "primePunish", ![r].cause = category]
  /\ heap' = Unlinked(heap, {q.conv})
  /\ UNCHANGED <<fleet, recency>>

PrimePunish(r) ==
  LET q == request[r] IN
  /\ q.pc = "primePunish"
  /\ Consequence(q.account, q.cause)
  /\ request' = [request EXCEPT ![r] =
       IF Retryable(q.cause) /\ q.tries < MaxRetries
         THEN [q EXCEPT !.pc = "call", !.tries = @ + 1, !.cause = "none",
                        !.charges = @ + 1]
         ELSE Charge(q, "fail")]

StreamFinishes(r) ==
  LET q == request[r] IN
  /\ q.pc = "stream"
  /\ \E answer \in Answer(q) :
       request' = [request EXCEPT ![r] = Answered(q, answer)]
  /\ UNCHANGED <<fleet, heap, recency>>

\* A failure or a truncation after the first byte: never retried or moved.
StreamBreaks(r) ==
  LET q == request[r] IN
  /\ q.pc = "stream"
  /\ \E category \in Failures :
       request' = [request EXCEPT ![r] =
         [Over(q, "midPunish") EXCEPT !.cause = category]]
  /\ heap' = Unlinked(heap, {q.conv})
  /\ UNCHANGED <<fleet, recency>>

MidPunish(r) ==
  LET q == request[r] IN
  /\ q.pc = "midPunish"
  /\ Consequence(q.account, q.cause)
  /\ request' = [request EXCEPT ![r] = Refused(q, 1)]

\* The client goes away: the generator is closed, nothing is recorded.
Disconnect(r) ==
  /\ request[r].pc = "stream"
  /\ Gone(r)

\* _attempt_with_failover after a final failure: _fail_turn, then one move.
FailTurn(r) ==
  LET q == request[r] IN
  /\ q.pc = "fail"
  /\ heap' = Unlinked(heap, {q.conv})
  /\ request' = [request EXCEPT ![r].pc = "punish"]
  /\ UNCHANGED <<fleet, recency>>

\* Mutant: the re-run of a failover may fail over again.
PunishAgain(r) ==
  LET q == request[r] IN
  /\ q.pc = "punish"
  /\ Consequence(q.account, q.cause)
  /\ request' = [request EXCEPT ![r] =
       IF q.cause \in FailoverCategories THEN Charge(q, "foSelect") ELSE Refused(q, 1)]

Punish(r) ==
  LET q == request[r] IN
  /\ q.pc = "punish"
  /\ Consequence(q.account, q.cause)
  /\ request' = [request EXCEPT ![r] =
       IF q.cause \in FailoverCategories /\ ~q.rerun
         THEN [Charge(q, "foSelect") EXCEPT !.rerun = TRUE]
         ELSE Refused(q, 1)]

-----------------------------------------------------------------------------
(* Committing.                                                             *)

\* Mutants: every turn makes a conversation of its own; the first binding stays.
TargetNew(q) == FreeSlot

CommittedKeepingAccount(q, c) ==
  [messages |-> q.incoming \o q.reply,
   account |-> IF heap[c].account = NoAccount THEN q.account ELSE heap[c].account,
   session |-> q.session, parent |-> q.node]

\* A new conversation, or the one resolved, even if it was evicted meanwhile.
Target(q) == IF q.conv = NoConv THEN FreeSlot ELSE q.conv

Committed(q, c) ==
  [messages |-> q.incoming \o q.reply, account |-> q.account,
   session |-> q.session, parent |-> q.node]

\* store.commit_turn: history := incoming + reply, link := this turn's.  A new
\* conversation evicts the oldest; an object evicted meanwhile is updated, and
\* stays evicted.
CommitTurn(r) ==
  LET q == request[r]
      c == Target(q)
  IN
  /\ q.pc = "commit"
  /\ recency' = IF q.conv = NoConv \/ c \in Stored
                  THEN Kept(Append(RemoveFirst(recency, c), c))
                  ELSE recency
  /\ heap' = Swept([heap EXCEPT ![c] = Committed(q, c)],
                   ToSet(recency') \union {c} \union HeldBy(Requests \ {r}))
  /\ request' = [request EXCEPT ![r].pc = "success", ![r].conv = c]
  /\ UNCHANGED fleet

\* Mutant: the link survives a repair.
RecordSuccessOnly(r) ==
  LET q == request[r] IN
  /\ q.pc = "success"
  /\ fleet' = Succeeded(fleet, q.account)
  /\ request' = [request EXCEPT ![r].pc = "done"]
  /\ UNCHANGED <<heap, recency>>

\* router.record_success, whatever has happened to the account since.
RecordSuccess(r) ==
  LET q == request[r] IN
  /\ q.pc = "success"
  /\ fleet' = Succeeded(fleet, q.account)
  /\ request' = [request EXCEPT ![r].pc = IF q.repaired THEN "unlink" ELSE "done"]
  /\ UNCHANGED <<heap, recency>>

\* _finish_tool_turn after a repair: upstream holds a branch the canonical
\* history does not mirror.
UnlinkRepaired(r) ==
  /\ request[r].pc = "unlink"
  /\ heap' = Unlinked(heap, {request[r].conv})
  /\ request' = [request EXCEPT ![r].pc = "done"]
  /\ UNCHANGED <<fleet, recency>>

Leave(r) ==
  /\ request[r].pc \in {"done", "failed"}
  /\ Gone(r)

-----------------------------------------------------------------------------
(* The rest of the world.                                                  *)

Operate(a) ==
  /\ \/ "disable" \in Operators /\ fleet' = Switched(fleet, a, FALSE)
                                /\ heap' = Unlinked(heap, BoundTo(a))
     \/ "enable" \in Operators /\ fleet' = Switched(fleet, a, TRUE) /\ UNCHANGED heap
     \/ "reset" \in Operators /\ fleet' = Restored(fleet, a) /\ UNCHANGED heap
  /\ UNCHANGED <<recency, request>>

CooldownEnds(a) ==
  /\ fleet[a].health = "cooling"
  /\ fleet' = Elapsed(fleet, {a})
  /\ UNCHANGED <<heap, recency, request>>

Step(r) ==
  \/ Resolve(r) \/ CheckLink(r) \/ DropLink(r) \/ ReadSession(r) \/ ReadParent(r)
  \/ Rebind(r) \/ Select(r) \/ Create(r) \/ CreateFailed(r)
  \/ FailoverSelect(r) \/ FailoverCreate(r) \/ FailoverFailed(r)
  \/ Drain(r) \/ RepairRetry(r) \/ DrainFails(r) \/ Prime(r) \/ PrimeFails(r) \/ PrimePunish(r)
  \/ StreamFinishes(r) \/ StreamBreaks(r) \/ MidPunish(r)
  \/ FailTurn(r) \/ Punish(r)
  \/ CommitTurn(r) \/ RecordSuccess(r) \/ UnlinkRepaired(r) \/ Leave(r)

Turns == \E r \in Requests : Arrive(r) \/ Step(r) \/ Disconnect(r)

Next ==
  \/ Turns
  \/ \E a \in Accounts : Operate(a) \/ CooldownEnds(a)

Spec == Init /\ [][Next]_vars

\* Backend calls return (the vendored client has timeouts), threads are scheduled
\* and the gates they pass are free in time.  The operator and cooldowns owe
\* nothing, and a client nothing but this: while it is streamed to, it reads or
\* leaves.  What one that does neither keeps from others is CallGate's subject.
FairSpec == Spec /\ \A r \in Requests : WF_vars(Step(r))

-----------------------------------------------------------------------------
(* Properties.                                                             *)

TypeOK ==
  /\ fleet \in Fleets
  /\ \A c \in Slots :
       /\ heap[c].account \in Accounts \union {NoAccount}
       /\ heap[c].session = NoSession => heap[c].parent = NoParent
  /\ Stored \subseteq Slots
  /\ Len(recency) <= MaxConvs /\ Cardinality(Stored) = Len(recency)
  /\ \A r \in Requests :
       /\ request[r].conv \in Slots \union {NoConv}
       /\ request[r].tries \in 0..MaxRetries

\* _prepare_turn (server.py 458-462): a reused session "already holds prior
\* context", so the delta alone is sent; a fresh one gets the full history.
\* Either way a turn runs in a session of its own account, and what upstream
\* then works from is exactly the history the client sent (and the hint of a
\* repair retry).
UpstreamExact(q) ==
  /\ Accepted(q)
  /\ Sent(q) = q.incoming \o IF q.repaired THEN <<Hint>> ELSE <<>>

TurnsExact ==
  \A r \in Requests :
     request[r].pc \in {"call", "stream"} => UpstreamExact(request[r])

\* Whenever a stored conversation has a live link, the upstream branch it
\* points at holds its canonical history and nothing else.  _finish_tool_turn
\* (server.py 969-985) commits a repaired turn first and drops its link in a
\* later step: only in between may the two differ.
LinkMirrors ==
  \A c \in Stored :
     heap[c].session # NoSession =>
       \/ heap[c].parent.context = heap[c].messages
       \/ \E r \in Requests : /\ request[r].conv = c /\ request[r].repaired
                              /\ request[r].pc \in {"success", "unlink"}

\* A link may only name a session of the account the conversation is bound
\* to, and a message of that session, however the requests, failovers and
\* torn reads before it were interleaved (conversation.py 353-395 takes the
\* three from the committing turn).
LinkOwned ==
  \A c \in Stored :
     heap[c].session # NoSession =>
       /\ heap[c].session.owner = heap[c].account
       /\ heap[c].parent.session = heap[c].session

\* No two conversations ever thread into the same upstream session, even
\* when several requests continue one conversation, or one that was evicted
\* under them: server.py 526-550 opens a session for every rebuild.
SessionsDistinct ==
  \A c, d \in Slots :
     c # d /\ heap[c].session # NoSession => heap[c].session # heap[d].session

\* An answered request is remembered: the client's next turn will find the
\* conversation, even if a smaller store had to evict for it.
Remembered ==
  \A r \in Requests :
     request[r].pc = "done" =>
       \E c \in Stored : heap[c].messages = request[r].incoming \o request[r].reply

\* One account, one verdict: between being given an account and losing it a
\* request records at most one failure against it, and none if the turn is
\* answered.  accounts.py 294 says "A FINAL surfaced failure (post-M9-budget)
\* for one account", server.py 608-610 that _fail_turn is "Called ONLY where a
\* FINAL BackendFailure surfaces".
Charged(q) ==
  q.charges <= (IF q.pc \in {"foSelect", "failed"} THEN 1 ELSE 0)

ChargedOnce == \A r \in Requests : Charged(request[r])

\* The same for the turns that are drained before a response exists; a
\* streaming turn breaks it while it is primed (server.py 1157-1159).
DrainedChargedOnce ==
  \A r \in Requests : request[r].mode # "stream" => Charged(request[r])

\* A request fails over at most twice, once while it gets its session and
\* once for the turn itself, however often the accounts recover meanwhile
\* (ADR-038 bounds it for each site; docs/PROGRESS.md 417 speaks of exactly one).
FailoverBounded == \A r \in Requests : request[r].moves <= 2

\* Every request is answered, refused or abandoned by its client: no chain of
\* retries, repairs and failovers goes on for ever.  An answer that is streamed
\* takes its own client to read it.
EveryRequestAnswered ==
  \A r \in Requests : request[r].pc # "idle" ~> request[r].pc = "idle"
=============================================================================
