------------------------- MODULE ConversationStore -------------------------
(***************************************************************************)
(* The canonical-state store (app/conversation.py).                        *)
(*                                                                         *)
(* The store is a dict, which keeps its keys in the order they were put    *)
(* in: a sequence of conversations.  The clock is the wall clock, read     *)
(* under the lock of each commit: two commits may read the same instant,   *)
(* and a later one an earlier instant.                                     *)
(***************************************************************************)
EXTENDS Absent, HistoryMatch

CONSTANTS
  MaxConvs,  \* max_conversations
  Instants   \* what the clock may read

ASSUME StoreAssumption ==
  /\ MaxConvs \in Nat \ {0}
  /\ Instants \subseteq Nat

VARIABLE store

NoConv == 0

InitStore == store = <<>>

-----------------------------------------------------------------------------
(* resolve.                                                                *)

Stored(rows) == [c \in DOMAIN rows |-> rows[c].messages]

\* Of several longest prefixes the first in the dict's order is taken.
Resolve(rows, incoming) ==
  LET best == BestMatches(Stored(rows), DOMAIN rows, incoming)
  IN  IF best = {} THEN NoConv ELSE CHOOSE c \in best : \A d \in best : c <= d

-----------------------------------------------------------------------------
(* commit_turn.                                                            *)

NewConversation(now) ==
  [messages |-> <<>>, session |-> Null, parent |-> Null,
   created |-> now, updated |-> now]

\* Least recently updated, then created, then put in.
Older(rows, c, d) ==
  \/ rows[c].updated < rows[d].updated
  \/ /\ rows[c].updated = rows[d].updated
     /\ \/ rows[c].created < rows[d].created
        \/ rows[c].created = rows[d].created /\ c < d

\* Mutant: the latest goes.
VictimNewest(rows) == CHOOSE c \in DOMAIN rows : \A d \in DOMAIN rows \ {c} : Older(rows, d, c)

Victim(rows) == CHOOSE c \in DOMAIN rows : \A d \in DOMAIN rows \ {c} : Older(rows, c, d)

\* Mutant: one conversation too many.
EvictIfNeededLate(rows) ==
  IF Len(rows) > MaxConvs + 1 THEN RemoveAt(rows, Victim(rows)) ELSE rows

EvictIfNeeded(rows) ==
  IF Len(rows) > MaxConvs THEN RemoveAt(rows, Victim(rows)) ELSE rows

\* The history is what the client said it is, and the reply.
Written(conv, history, session, parent, now) ==
  [conv EXCEPT !.messages = history, !.session = session, !.parent = parent,
               !.updated = now]

\* A conversation the store knows is updated where it is.
CommitKnown(c, history, session, parent, now) ==
  /\ c \in DOMAIN store
  /\ store' = [store EXCEPT ![c] = Written(@, history, session, parent, now)]

\* A new one is put in, another may go, and only then it is filled in: when
\* the clock has gone back it may be the one that goes.
Born(now) == Append(store, NewConversation(now))

SelfEvicted(now) == Len(store) = MaxConvs /\ Victim(Born(now)) = Len(store) + 1

CommitNew(history, session, parent, now) ==
  LET kept == EvictIfNeeded(Born(now))
  IN  store' = IF SelfEvicted(now)
                 THEN kept
                 ELSE [kept EXCEPT ![Len(kept)] = Written(@, history, session, parent, now)]

\* Where the conversation is after the commit; an evicted one is nowhere.
CommittedAs(c, now) ==
  CASE c # NoConv                   -> c
    [] c = NoConv /\ SelfEvicted(now) -> NoConv
    [] OTHER                        -> Len(store')

\* Mutant: the answer is not committed.
CommitSkipped(c, history, session, parent, now) == UNCHANGED store

CommitTurn(c, history, session, parent, now) ==
  \/ c = NoConv /\ CommitNew(history, session, parent, now)
  \/ c # NoConv /\ CommitKnown(c, history, session, parent, now)

-----------------------------------------------------------------------------
(* invalidate_backend_link, and a restart of the gateway.                  *)

Unlinked(conv) == [conv EXCEPT !.session = Null, !.parent = Null]

Invalidate(c) ==
  store' = IF c = NoConv THEN store ELSE [store EXCEPT ![c] = Unlinked(@)]

EmptyStore == store' = <<>>
=============================================================================
