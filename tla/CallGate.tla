------------------------------ MODULE CallGate ------------------------------
(***************************************************************************)
(* The call gate of one backend account (deepseek_web/backend.py) and the  *)
(* worker threads that run into it.                                        *)
(*                                                                         *)
(* The vendored client is not thread-safe, so a Semaphore(1) is held for   *)
(* the whole of create_session and for the whole LIFETIME of stream_turn,  *)
(* a generator: also while it is suspended between two events of a         *)
(* streaming response.  While it holds the gate a turn installs its own    *)
(* parser as an attribute of the shared client, and puts back what was     *)
(* there before.                                                           *)
(*                                                                         *)
(* A handler occupies one worker thread of the server's pool until it      *)
(* returns.  A streaming handler returns after the first event; from then  *)
(* on each further event is pulled by a worker thread of the same pool     *)
(* (streaming.py, iterate_in_threadpool), but not before the one in hand   *)
(* has been sent, and a send waits as long as a connected client does not  *)
(* read and the buffers are full.  The pool and the sending are external.  *)
(***************************************************************************)
EXTENDS Integers, FiniteSets

CONSTANTS
  Requests,     \* requests routed to this account
  Workers,      \* number of worker threads
  MaxRetries,   \* RetryPolicy.max_retries
  MaxEvents,    \* bound: how many events a streaming turn may still yield
  Free          \* a gate held by nobody, and the client's own parser

ASSUME GateAssumption ==
  /\ Workers \in Nat \ {0}
  /\ MaxRetries \in Nat
  /\ MaxEvents \in Nat
  /\ Free \notin Requests

VARIABLES
  gate,      \* which request's call is inside _call_gate
  parser,    \* whose _parse_chunk the shared client carries
  request    \* where each request is

vars == <<gate, parser, request>>

Idle == [pc |-> "idle", stream |-> FALSE, tries |-> 0, events |-> 0,
         previous |-> Free]

\* In a handler, or pulling one event: these occupy a worker thread.
Working == {"wantSession", "inSession", "wantTurn", "inTurn", "pulling"}

\* Inside a generator of stream_turn.
InTurn == {"inTurn", "sending", "suspended", "pulling"}

Pcs == {"idle", "queued"} \union Working \union InTurn

Busy == {r \in Requests : request[r].pc \in Working}

TypeOK ==
  /\ gate \in Requests \union {Free}
  /\ parser \in Requests \union {Free}
  /\ request \in [Requests -> [pc : Pcs, stream : BOOLEAN, tries : 0..MaxRetries,
                               events : 0..MaxEvents, previous : Requests \union {Free}]]

Init ==
  /\ gate = Free
  /\ parser = Free
  /\ request = [r \in Requests |-> Idle]

-----------------------------------------------------------------------------
Moved(r, pc) == [request EXCEPT ![r] = [@ EXCEPT !.pc = pc]]

\* The call failed and is tried again.
Retried(q, pc) == [q EXCEPT !.pc = pc, !.tries = @ + 1, !.previous = Free]

\* One more event to send.
Yielded(q) == [q EXCEPT !.pc = "sending", !.events = @ + 1]

Arrive(r) ==
  /\ request[r].pc = "idle"
  /\ \E stream \in BOOLEAN :
       request' = [request EXCEPT ![r] = [Idle EXCEPT !.pc = "queued", !.stream = stream]]
  /\ UNCHANGED <<gate, parser>>

\* The pool starts the handler.  It needs a session, or reuses one.
Handle(r) ==
  /\ request[r].pc = "queued"
  /\ Cardinality(Busy) < Workers
  /\ \E pc \in {"wantSession", "wantTurn"} : request' = Moved(r, pc)
  /\ UNCHANGED <<gate, parser>>

EnterSession(r) ==
  /\ request[r].pc = "wantSession"
  /\ gate = Free
  /\ gate' = r
  /\ request' = Moved(r, "inSession")
  /\ UNCHANGED parser

\* Mutant: the gate is not released when the call fails.
LeaveSessionHolding(r) ==
  /\ request[r].pc = "inSession"
  /\ \/ /\ request' = [request EXCEPT ![r] = [@ EXCEPT !.pc = "wantTurn", !.tries = 0]]
        /\ gate' = Free
     \/ /\ request[r].tries < MaxRetries
        /\ request' = [request EXCEPT ![r] = Retried(@, "wantSession")]
        /\ UNCHANGED gate
     \/ /\ request' = [request EXCEPT ![r] = Idle]
        /\ gate' = Free
  /\ UNCHANGED parser

\* create_session returns, fails and is tried again, or fails for good; the
\* gate is free again in each case.
LeaveSession(r) ==
  /\ request[r].pc = "inSession"
  /\ gate' = Free
  /\ \/ request' = [request EXCEPT ![r] = [@ EXCEPT !.pc = "wantTurn", !.tries = 0]]
     \/ /\ request[r].tries < MaxRetries
        /\ request' = [request EXCEPT ![r] = Retried(@, "wantSession")]
     \/ request' = [request EXCEPT ![r] = Idle]
  /\ UNCHANGED parser

\* Mutant: stream_turn is not serialized.
EnterTurnUngated(r) ==
  /\ request[r].pc = "wantTurn"
  /\ gate' = r
  /\ parser' = r
  /\ request' = [request EXCEPT ![r] = [@ EXCEPT !.pc = "inTurn", !.previous = parser]]

\* The first next() of the generator: it takes the gate, then the seam.
EnterTurn(r) ==
  /\ request[r].pc = "wantTurn"
  /\ gate = Free
  /\ gate' = r
  /\ parser' = r
  /\ request' = [request EXCEPT ![r] = [@ EXCEPT !.pc = "inTurn", !.previous = parser]]

\* Mutant: the finally restores the parser, and the gate is forgotten.
ReleasedParser(r) ==
  /\ parser' = request[r].previous
  /\ UNCHANGED gate

\* The generator's finally, and the end of its with.
Released(r) ==
  /\ parser' = request[r].previous
  /\ gate' = Free

\* Mutant: one retry too many.
EndInHandlerLate(r) ==
  /\ request[r].pc = "inTurn"
  /\ Released(r)
  /\ \/ request' = [request EXCEPT ![r] = Idle]
     \/ /\ request[r].tries <= MaxRetries
        /\ request' = [request EXCEPT ![r] = Retried(@, "wantTurn")]

\* A drained turn ends in its handler, one way or the other; a failed one
\* may be tried again, and so may a streaming turn that yields no event.
EndInHandler(r) ==
  /\ request[r].pc = "inTurn"
  /\ Released(r)
  /\ \/ request' = [request EXCEPT ![r] = Idle]
     \/ /\ request[r].tries < MaxRetries
        /\ request' = [request EXCEPT ![r] = Retried(@, "wantTurn")]

\* The first event of a streaming turn: the handler returns its worker, the
\* suspended generator keeps the gate.
Respond(r) ==
  /\ request[r].pc = "inTurn" /\ request[r].stream
  /\ request' = Moved(r, "sending")
  /\ UNCHANGED <<gate, parser>>

\* Its client takes what is being sent.
Read(r) ==
  /\ request[r].pc = "sending"
  /\ request' = Moved(r, "suspended")
  /\ UNCHANGED <<gate, parser>>

Pull(r) ==
  /\ request[r].pc = "suspended"
  /\ Cardinality(Busy) < Workers
  /\ request' = Moved(r, "pulling")
  /\ UNCHANGED <<gate, parser>>

Yield(r) ==
  /\ request[r].pc = "pulling"
  /\ request[r].events < MaxEvents
  /\ request' = [request EXCEPT ![r] = Yielded(@)]
  /\ UNCHANGED <<gate, parser>>

\* The last event, or a failure after the first one.
EndStream(r) ==
  /\ request[r].pc = "pulling"
  /\ Released(r)
  /\ request' = [request EXCEPT ![r] = Idle]

\* The client is gone and the suspended generator is closed.
Disconnect(r) ==
  /\ request[r].pc \in {"sending", "suspended"}
  /\ Released(r)
  /\ request' = [request EXCEPT ![r] = Idle]

Step(r) ==
  \/ Handle(r) \/ EnterSession(r) \/ LeaveSession(r) \/ EnterTurn(r)
  \/ EndInHandler(r) \/ Respond(r) \/ Pull(r) \/ Yield(r) \/ EndStream(r)

Next == \E r \in Requests : Arrive(r) \/ Step(r) \/ Read(r) \/ Disconnect(r)

Spec == Init /\ [][Next]_vars

\* What the server and the machine owe a request: threads are scheduled, calls to
\* upstream return or stall out, and the pool's limiter wakes its waiters in the
\* order they came.  That the gate passes over no waiter for ever is an
\* assumption: threading.Semaphore lets a newcomer in before one it has woken.
GateAndPoolServe == \A r \in Requests : SF_vars(Step(r))

\* A client owes nothing: it need not ask, and once it has, neither read nor leave.
FairSpec == Spec /\ GateAndPoolServe

-----------------------------------------------------------------------------
(* Properties.                                                             *)

\* The gate is held by exactly the request whose call is inside it, on
\* whichever thread that is: no two calls overlap in the client (backend.py
\* 101-123), and no path out of a call leaves the gate taken.
GateHeldInside ==
  \A r \in Requests : gate = r <=> request[r].pc \in {"inSession"} \union InTurn

\* Each chunk is parsed by the turn it belongs to, across every suspension, and
\* a turn puts back the client's own parser, never another turn's
\* (backend.py 190-238).
ParserOwned ==
  /\ \A r \in Requests : request[r].pc \in InTurn => parser = r /\ request[r].previous = Free
  /\ (\A r \in Requests : request[r].pc \notin InTurn) => parser = Free

\* No send of this request waits for ever: its client reads, or leaves.
Reads(r) == []<>(request[r].pc # "sending")

Ends(r) == request[r].pc # "idle" ~> request[r].pc = "idle"

\* Where every client reads, every request ends: no handler and no suspended
\* generator waits for ever, and none for another (backend.py 185, streaming.py
\* 231).  Where one client does not, nothing of the kind holds: the stream it
\* leaves unread keeps the gate from all others.
ServedWhenAllRead == (\A r \in Requests : Reads(r)) => \A r \in Requests : Ends(r)
=============================================================================
