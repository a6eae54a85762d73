--------------------------- MODULE CallGateProofs ---------------------------
(***************************************************************************)
(* The call gate excludes, and the parser seam is private, for any number  *)
(* of requests, workers, retries and events.  The three invariants are     *)
(* inductive together: that a turn finds the client's own parser to save   *)
(* needs that the gate is free only when no turn is inside it.             *)
(***************************************************************************)
EXTENDS CallGate, TLAPS

Inside(r) == request[r].pc \in {"inSession"} \union InTurn

Held == \A r \in Requests : gate = r <=> Inside(r)

Owned == \A r \in Requests : request[r].pc \in InTurn => parser = r

Saved == \A r \in Requests : request[r].previous = Free

Clean == gate = Free => parser = Free

Between == \A r \in Requests : request[r].pc = "inSession" => parser = Free

GateInv == TypeOK /\ Held /\ Owned /\ Saved /\ Clean /\ Between

\* The freshly started gateway: nobody is inside.
LEMMA InitGate == Init => GateInv
  BY GateAssumption DEF Init, GateInv, TypeOK, Held, Owned, Saved, Clean, Between, Idle,
     Inside, InTurn, Pcs, Working

\* What one request does to itself leaves the others where they are.
Only(r, q) == request' = [request EXCEPT ![r] = q]

\* The type of a request that holds no other turn's parser.
Requesting == [pc : Pcs, stream : BOOLEAN, tries : 0..MaxRetries,
               events : 0..MaxEvents, previous : {Free}]

\* One request moves to q, gate and parser to match: the invariant stays.
LEMMA Entering ==
  ASSUME NEW r \in Requests, GateInv, NEW q \in Requesting, Only(r, q),
         \/ /\ UNCHANGED <<gate, parser>>
            /\ Inside(r) <=> q.pc \in {"inSession"} \union InTurn
            /\ request[r].pc \in InTurn <=> q.pc \in InTurn
         \/ /\ gate = Free /\ gate' = r /\ q.pc = "inSession" /\ UNCHANGED parser
         \/ /\ gate = Free /\ gate' = r /\ q.pc \in InTurn /\ parser' = r
         \/ /\ Inside(r) /\ gate' = Free /\ parser' = Free
            /\ q.pc \notin {"inSession"} \union InTurn
  PROVE  GateInv'
<1> USE GateAssumption DEF Only, Inside, Requesting
<1>0. /\ gate \in Requests \union {Free} /\ parser \in Requests \union {Free}
      /\ request \in [Requests -> [pc : Pcs, stream : BOOLEAN, tries : 0..MaxRetries,
                                   events : 0..MaxEvents,
                                   previous : Requests \union {Free}]]
  BY DEF GateInv, TypeOK
<1>1. request'[r] = q /\ \A s \in Requests \ {r} : request'[s] = request[s]
  BY <1>0
<1>2. TypeOK'
  <2>1. request' \in [Requests -> [pc : Pcs, stream : BOOLEAN, tries : 0..MaxRetries,
                                   events : 0..MaxEvents,
                                   previous : Requests \union {Free}]]
    BY <1>0
  <2>2. gate' \in Requests \union {Free} /\ parser' \in Requests \union {Free}
    BY <1>0
  <2> QED
    BY <2>1, <2>2 DEF TypeOK
<1>3. Held'
  BY <1>0, <1>1 DEF GateInv, Held, InTurn
<1>4. Owned' /\ Between' /\ Clean'
  BY <1>0, <1>1 DEF GateInv, Held, Owned, Between, Clean, InTurn
<1>5. Saved'
  BY <1>1 DEF GateInv, Saved
<1> QED
  BY <1>2, <1>3, <1>4, <1>5 DEF GateInv

\* What a step may assume of the request that takes it.
LEMMA Own ==
  ASSUME NEW r \in Requests, GateInv
  PROVE  /\ request[r] \in Requesting
         /\ gate = r <=> Inside(r)
         /\ request[r].pc \in InTurn => parser = r
         /\ gate = Free => parser = Free
         /\ request[r].pc = "inSession" => parser = Free
  BY GateAssumption DEF GateInv, TypeOK, Held, Owned, Saved, Clean, Between, Requesting

\* Every step keeps the invariant.
LEMMA StepGate == GateInv /\ [Next]_vars => GateInv'
<1> SUFFICES ASSUME GateInv, [Next]_vars PROVE GateInv'
  OBVIOUS
<1>0. CASE UNCHANGED vars
  BY <1>0 DEF vars, GateInv, TypeOK, Held, Owned, Saved, Clean, Between, Inside
<1>1. ASSUME NEW r \in Requests, Arrive(r) \/ Step(r) \/ Read(r) \/ Disconnect(r) PROVE GateInv'
  <2> USE GateAssumption
  <2>0. /\ request[r] \in Requesting
        /\ gate = r <=> Inside(r)
        /\ request[r].pc \in InTurn => parser = r
        /\ gate = Free => parser = Free
        /\ request[r].pc = "inSession" => parser = Free
    BY Own
  <2> DEFINE now == request[r]
  <2>i. Idle \in Requesting /\ Idle.pc = "idle"
    BY DEF Idle, Requesting, Pcs
  <2>m. ASSUME NEW pc \in Pcs, Moved(r, pc) = request'
        PROVE  /\ Only(r, [now EXCEPT !.pc = pc])
               /\ [now EXCEPT !.pc = pc] \in Requesting
               /\ [now EXCEPT !.pc = pc].pc = pc
    BY <2>0, <2>m DEF Moved, Only, Requesting
  <2>r. ASSUME NEW pc \in Pcs, now.tries < MaxRetries
        PROVE  Retried(now, pc) \in Requesting /\ Retried(now, pc).pc = pc
    <3>1. now.tries + 1 \in 0..MaxRetries
      BY <2>0, <2>r DEF Requesting
    <3> QED
      BY <2>0, <3>1 DEF Retried, Requesting
  <2>1. CASE Arrive(r)
    <3>1. PICK stream \in BOOLEAN : Only(r, [Idle EXCEPT !.pc = "queued", !.stream = stream])
      BY <2>1 DEF Arrive, Only
    <3> DEFINE q == [Idle EXCEPT !.pc = "queued", !.stream = stream]
    <3>2. q \in Requesting /\ q.pc = "queued"
      BY <2>i DEF Requesting, Pcs
    <3>3. UNCHANGED <<gate, parser>> /\ now.pc = "idle"
      BY <2>1 DEF Arrive
    <3>4. Only(r, q)
      BY <3>1
    <3> HIDE DEF q
    <3> QED
      BY <3>2, <3>3, <3>4, Entering DEF Inside, InTurn
  <2>2. CASE Handle(r)
    <3>1. PICK pc \in {"wantSession", "wantTurn"} : request' = Moved(r, pc)
      BY <2>2 DEF Handle
    <3> DEFINE q == [now EXCEPT !.pc = pc]
    <3>2. Only(r, q) /\ q \in Requesting /\ q.pc = pc
      BY <2>m, <3>1 DEF Pcs, Working
    <3>3. UNCHANGED <<gate, parser>> /\ now.pc = "queued"
      BY <2>2 DEF Handle
    <3> HIDE DEF q
    <3> QED
      BY <3>2, <3>3, Entering DEF Inside, InTurn
  <2>3. CASE EnterSession(r)
    <3> DEFINE q == [now EXCEPT !.pc = "inSession"]
    <3>1. Only(r, q) /\ q \in Requesting /\ q.pc = "inSession"
      BY <2>3, <2>m DEF EnterSession, Pcs, Working, InTurn
    <3>2. gate = Free /\ gate' = r /\ UNCHANGED parser /\ now.pc = "wantSession"
      BY <2>3 DEF EnterSession
    <3> HIDE DEF q
    <3> QED
      BY <3>1, <3>2, Entering DEF Inside, InTurn
  <2>4. CASE LeaveSession(r)
    <3> DEFINE next == [now EXCEPT !.pc = "wantTurn", !.tries = 0]
               again == Retried(now, "wantSession")
    <3>1. \/ Only(r, next)
          \/ now.tries < MaxRetries /\ Only(r, again)
          \/ Only(r, Idle)
      BY <2>0, <2>4 DEF LeaveSession, Only, Requesting
    <3>2. Inside(r) /\ gate' = Free /\ parser' = Free
      BY <2>0, <2>4 DEF LeaveSession, Inside
    <3>t. 0 \in 0..MaxRetries
      BY GateAssumption
    <3>3. next \in Requesting /\ next.pc = "wantTurn"
      BY <2>0, <3>t DEF Requesting, Pcs, Working
    <3>4. now.tries < MaxRetries => again \in Requesting /\ again.pc = "wantSession"
      BY <2>r DEF Pcs, Working
    <3> HIDE DEF next, again
    <3>5. CASE Only(r, next)
      BY <3>2, <3>3, <3>5, Entering DEF InTurn
    <3>6. CASE now.tries < MaxRetries /\ Only(r, again)
      BY <3>2, <3>4, <3>6, Entering DEF InTurn
    <3>7. CASE Only(r, Idle)
      BY <2>i, <3>2, <3>7, Entering DEF InTurn
    <3> QED
      BY <3>1, <3>5, <3>6, <3>7
  <2>5. CASE EnterTurn(r)
    <3> DEFINE q == [now EXCEPT !.pc = "inTurn", !.previous = parser]
    <3>1. gate = Free /\ gate' = r /\ parser' = r /\ Only(r, q)
      BY <2>5 DEF EnterTurn, Only
    <3>2. q \in Requesting /\ q.pc = "inTurn"
      BY <2>0, <3>1 DEF Requesting, Pcs, InTurn
    <3> HIDE DEF q
    <3> QED
      BY <3>1, <3>2, Entering DEF InTurn
  <2>6. CASE EndInHandler(r)
    <3> DEFINE again == Retried(now, "wantTurn")
    <3>1. \/ Only(r, Idle)
          \/ now.tries < MaxRetries /\ Only(r, again)
      BY <2>0, <2>6 DEF EndInHandler, Only, Requesting
    <3>2. Inside(r) /\ gate' = Free /\ parser' = Free
      BY <2>0, <2>6 DEF EndInHandler, Released, Inside, InTurn, Requesting
    <3>3. now.tries < MaxRetries => again \in Requesting /\ again.pc = "wantTurn"
      BY <2>r DEF Pcs, Working
    <3> HIDE DEF again
    <3>4. CASE Only(r, Idle)
      BY <2>i, <3>2, <3>4, Entering DEF InTurn
    <3>5. CASE now.tries < MaxRetries /\ Only(r, again)
      BY <3>2, <3>3, <3>5, Entering DEF InTurn
    <3> QED
      BY <3>1, <3>4, <3>5
  <2>7. CASE Respond(r)
    <3> DEFINE q == [now EXCEPT !.pc = "sending"]
    <3>1. Only(r, q) /\ q \in Requesting /\ q.pc = "sending"
      BY <2>7, <2>m DEF Respond, Pcs, Working, InTurn
    <3>2. UNCHANGED <<gate, parser>> /\ now.pc = "inTurn"
      BY <2>7 DEF Respond
    <3> HIDE DEF q
    <3> QED
      BY <3>1, <3>2, Entering DEF Inside, InTurn
  <2>8. CASE Pull(r)
    <3> DEFINE q == [now EXCEPT !.pc = "pulling"]
    <3>1. Only(r, q) /\ q \in Requesting /\ q.pc = "pulling"
      BY <2>8, <2>m DEF Pull, Pcs, Working, InTurn
    <3>2. UNCHANGED <<gate, parser>> /\ now.pc = "suspended"
      BY <2>8 DEF Pull
    <3> HIDE DEF q
    <3> QED
      BY <3>1, <3>2, Entering DEF Inside, InTurn
  <2>9. CASE Yield(r)
    <3> DEFINE q == Yielded(now)
    <3>1. Only(r, q) /\ UNCHANGED <<gate, parser>> /\ now.pc = "pulling"
      BY <2>9 DEF Yield, Only
    <3>2. now.events + 1 \in 0..MaxEvents
      BY <2>0, <2>9 DEF Yield, Requesting
    <3>3. q \in Requesting /\ q.pc = "sending"
      BY <2>0, <3>2 DEF Yielded, Requesting, Pcs, InTurn
    <3> HIDE DEF q
    <3> QED
      BY <3>1, <3>3, Entering DEF Inside, InTurn
  <2>10. CASE EndStream(r) \/ Disconnect(r)
    <3>1. Only(r, Idle)
      BY <2>10 DEF EndStream, Disconnect, Only
    <3>2. Inside(r) /\ gate' = Free /\ parser' = Free
      BY <2>0, <2>10 DEF EndStream, Disconnect, Released, Inside, InTurn, Requesting
    <3> QED
      BY <2>i, <3>1, <3>2, Entering DEF InTurn
  <2>11. CASE Read(r)
    <3> DEFINE q == [now EXCEPT !.pc = "suspended"]
    <3>1. Only(r, q) /\ q \in Requesting /\ q.pc = "suspended"
      BY <2>11, <2>m DEF Read, Pcs, Working, InTurn
    <3>2. UNCHANGED <<gate, parser>> /\ now.pc = "sending"
      BY <2>11 DEF Read
    <3> HIDE DEF q
    <3> QED
      BY <3>1, <3>2, Entering DEF Inside, InTurn
  <2> QED
    BY <1>1, <2>1, <2>2, <2>3, <2>4, <2>5, <2>6, <2>7, <2>8, <2>9, <2>10, <2>11 DEF Step
<1> QED
  BY <1>0, <1>1 DEF Next

\* The invariant of the gate and the seam, in every reachable state.
THEOREM GateInvariant == Spec => []GateInv
<1> QED
  BY InitGate, StepGate, PTL DEF Spec

\* TypeOK: no counter passes its budget, no field leaves its type.
THEOREM GateTypeCorrect == Spec => []TypeOK
<1>1. GateInv => TypeOK
  BY DEF GateInv
<1> QED
  BY <1>1, GateInvariant, PTL

\* Two calls never overlap in the vendored client, and whoever is outside has
\* given the gate back: the promise of backend.py 101-123.
THEOREM CallsExclude == Spec => []GateHeldInside
<1>1. GateInv => GateHeldInside
  BY DEF GateInv, Held, Inside, GateHeldInside
<1> QED
  BY <1>1, GateInvariant, PTL

\* Each turn's chunks go through its own parser, and the client's own parser
\* is back whenever no turn is inside: backend.py 190-238.
THEOREM SeamPrivate == Spec => []ParserOwned
<1>1. ASSUME GateInv PROVE ParserOwned
  <2>1. \A r \in Requests : request[r].pc \in InTurn => parser = r /\ request[r].previous = Free
    BY <1>1 DEF GateInv, Owned, Saved
  <2>2. ASSUME \A r \in Requests : request[r].pc \notin InTurn PROVE parser = Free
    <3>1. CASE gate = Free
      BY <1>1, <3>1 DEF GateInv, Clean
    <3>2. CASE gate \in Requests
      BY <1>1, <2>2, <3>2 DEF GateInv, Held, Inside, Between
    <3> QED
      BY <1>1, <3>1, <3>2 DEF GateInv, TypeOK
  <2> QED
    BY <2>1, <2>2 DEF ParserOwned
<1> QED
  BY <1>1, GateInvariant, PTL
=============================================================================
