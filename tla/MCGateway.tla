------------------------------ MODULE MCGateway ------------------------------
(***************************************************************************)
(* Instances of Gateway for TLC.  Two clients' histories: one that grows   *)
(* by a turn, one of a single message.  Messages are strings: u1, u2 and   *)
(* v1 from the clients, the model's answer and the repair hint.            *)
(***************************************************************************)
EXTENDS Gateway, TLC

OneClient  == {<<"u1">>, <<"u1", "ok", "u2">>}
TwoClients == OneClient \union {<<"v1">>}
OneReply   == {"ok"}

\* What links belong to is decided without looking at what was said: runs
\* that only ask about links may identify states that differ in that.
Links == <<fleet, recency,
           [c \in Slots |-> [heap[c] EXCEPT !.parent = @.session]],
           [r \in Requests |-> [request[r] EXCEPT !.parent = @.session,
                                                 !.node = @.session, !.prompt = <<>>]]>>

Symmetry == Permutations(Accounts) \union Permutations(Requests)
=============================================================================
