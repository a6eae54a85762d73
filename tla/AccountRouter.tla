---------------------------- MODULE AccountRouter ----------------------------
(***************************************************************************)
(* app/accounts.py: the registry of backend accounts, the selection rule   *)
(* for new conversations, sticky routing, and what the outcome of a turn   *)
(* or an operator command does to an account and to the conversations      *)
(* bound to it.                                                            *)
(*                                                                         *)
(* Every method body runs under the router's RLock, so one action is one   *)
(* method; the exception is select_for_new_conversation, which reads the   *)
(* clock BEFORE it takes the lock.  Turns are request threads; between     *)
(* picking an account and reporting the outcome a turn holds no lock.      *)
(* The conversation store appears as the two things the router sees of a   *)
(* stored conversation: the account it is bound to and whether its backend *)
(* link is live.                                                           *)
(***************************************************************************)
EXTENDS Integers, FiniteSets

CONSTANTS
  NumAccounts,    \* accounts, numbered in config order
  Turns,          \* concurrent request threads
  Convs,          \* slots of the conversation store
  Window,         \* cooldown_seconds, in ticks
  MaxClock,       \* bound: the latest instant of a run
  NoAccount       \* None

ASSUME RouterAssumption ==
  /\ NumAccounts \in Nat \ {0}
  /\ Window \in Nat \ {0}
  /\ MaxClock \in Nat
  /\ NoAccount \notin 1..NumAccounts

VARIABLES
  accounts,   \* _by_id: one AccountRecord per account
  convs,      \* binding and link of each stored conversation
  turns,      \* where each request thread is
  now         \* time.time()

vars == <<accounts, convs, turns, now>>

Accounts == 1..NumAccounts

Categories == {"AUTH_INVALID", "RATE_LIMITED", "OTHER"}

\* consecutive_failures is kept as whether it is positive (failing): nothing
\* here tells one failure from two.
\* cooldown_until and last_used_at are None before they are stamped; the
\* clock starts after this instant.
Never == 0

AccountRecord == [enabled  : BOOLEAN,
                  health   : {"healthy", "cooldown", "invalid"},
                  until    : Nat,
                  failing  : BOOLEAN,
                  lastUsed : Nat]

NewAccount == [enabled |-> TRUE, health |-> "healthy", until |-> Never,
               failing |-> FALSE, lastUsed |-> Never]

NoConv == [bound |-> NoAccount, live |-> FALSE]

Idle == [pc |-> "idle", seen |-> Never, account |-> NoAccount, new |-> FALSE]

-----------------------------------------------------------------------------
TypeOK ==
  /\ accounts \in [Accounts -> AccountRecord]
  /\ convs \in [Convs -> [bound : Accounts \union {NoAccount}, live : BOOLEAN]]
  /\ turns \in [Turns -> [pc      : {"idle", "selecting", "running", "committed"},
                          seen    : Nat,
                          account : Accounts \union {NoAccount},
                          new     : BOOLEAN]]
  /\ now \in Nat

Init ==
  /\ accounts = [a \in Accounts |-> NewAccount]
  /\ convs = [c \in Convs |-> NoConv]
  /\ turns = [t \in Turns |-> Idle]
  /\ now = 1

-----------------------------------------------------------------------------
(* What the router writes into a record.                                   *)

Healed(r) == [r EXCEPT !.health = "healthy", !.until = Never]

Cleared(r) == [Healed(r) EXCEPT !.failing = FALSE]

Counted(r) == [r EXCEPT !.failing = TRUE]

\* Mutants: a status no one knows; the deadline of an old cooldown is kept.
InvalidatedDisabled(r) == [Counted(r) EXCEPT !.health = "disabled", !.until = Never]

InvalidatedKeepingDeadline(r) == [Counted(r) EXCEPT !.health = "invalid"]

Invalidated(r) == [Counted(r) EXCEPT !.health = "invalid", !.until = Never]

Cooled(r, deadline) == [Counted(r) EXCEPT !.health = "cooldown", !.until = deadline]

Enabled(r, on) == [r EXCEPT !.enabled = on]

Used(r, instant) == [r EXCEPT !.lastUsed = instant]

-----------------------------------------------------------------------------
(* Reading the fleet at an instant.                                        *)

CoolingAt(a, instant) ==
  /\ accounts[a].health = "cooldown"
  /\ accounts[a].until # Never
  /\ accounts[a].until > instant

\* Mutant: a cooling account is usable.
UsableCooling(instant) ==
  {a \in Accounts : accounts[a].enabled /\ accounts[a].health # "invalid"}

UsableAt(instant) ==
  {a \in Accounts : /\ accounts[a].enabled
                    /\ accounts[a].health # "invalid"
                    /\ ~CoolingAt(a, instant)}

\* Derived from the store at each use, never kept as a counter.
ActiveConversations(a) == Cardinality({c \in Convs : convs[c].bound = a})

\* The order of (active_conversations, last_used_at or 0, config order).
Before(a, b) ==
  LET x == ActiveConversations(a)
      y == ActiveConversations(b)
  IN  \/ x < y
      \/ x = y /\ accounts[a].lastUsed < accounts[b].lastUsed
      \/ x = y /\ accounts[a].lastUsed = accounts[b].lastUsed /\ a <= b

\* Lazy promotion: a selection heals the usable accounts whose window has
\* passed; there is no background thread.
PromotedAt(instant) ==
  [a \in Accounts |->
     IF a \in UsableAt(instant) /\ accounts[a].health = "cooldown"
       THEN Healed(accounts[a])
       ELSE accounts[a]]

\* Mutant: the links of the other accounts are released.
ReleasedOthers(a) ==
  [c \in Convs |-> IF convs[c].bound # a THEN [convs[c] EXCEPT !.live = FALSE]
                                         ELSE convs[c]]

\* invalidate_backend_link for every stored conversation of the account.
Released(a) ==
  [c \in Convs |-> IF convs[c].bound = a THEN [convs[c] EXCEPT !.live = FALSE]
                                         ELSE convs[c]]

-----------------------------------------------------------------------------
(* A turn picks its account.                                               *)

\* select_for_new_conversation reads the clock, then waits for the lock.
ReadClock(t) ==
  /\ turns[t].pc = "idle"
  /\ turns' = [turns EXCEPT ![t] = [Idle EXCEPT !.pc = "selecting", !.seen = now]]
  /\ UNCHANGED <<accounts, convs, now>>

Select(t) ==
  LET seen == turns[t].seen IN
  /\ turns[t].pc = "selecting"
  /\ \E a \in UsableAt(seen) :
       /\ \A b \in UsableAt(seen) : Before(a, b)
       /\ accounts' = [PromotedAt(seen) EXCEPT ![a] = Used(@, seen)]
       /\ turns' = [turns EXCEPT ![t] = [Idle EXCEPT !.pc = "running", !.account = a, !.new = TRUE]]
  /\ UNCHANGED <<convs, now>>

\* No usable account: BackendFailure, the request is refused.
SelectNone(t) ==
  /\ turns[t].pc = "selecting"
  /\ UsableAt(turns[t].seen) = {}
  /\ turns' = [turns EXCEPT ![t] = Idle]
  /\ UNCHANGED <<accounts, convs, now>>

\* Mutant: a disabled account keeps its sticky sessions.
StickyDisabled(t, c) ==
  LET a == convs[c].bound IN
  /\ turns[t].pc = "idle"
  /\ convs[c].live
  /\ accounts[a].health # "invalid"
  /\ turns' = [turns EXCEPT ![t] = [Idle EXCEPT !.pc = "running", !.account = a]]
  /\ UNCHANGED <<accounts, convs, now>>

\* sticky_account on a conversation with a live link: a cooldown does not
\* matter.
Sticky(t, c) ==
  LET a == convs[c].bound IN
  /\ turns[t].pc = "idle"
  /\ convs[c].live
  /\ accounts[a].enabled /\ accounts[a].health # "invalid"
  /\ turns' = [turns EXCEPT ![t] = [Idle EXCEPT !.pc = "running", !.account = a]]
  /\ UNCHANGED <<accounts, convs, now>>

\* sticky_account returned None: the server drops the link.
StickyRefused(t, c) ==
  LET a == convs[c].bound IN
  /\ turns[t].pc = "idle"
  /\ convs[c].live
  /\ ~(accounts[a].enabled /\ accounts[a].health # "invalid")
  /\ convs' = [convs EXCEPT ![c].live = FALSE]
  /\ UNCHANGED <<accounts, turns, now>>

-----------------------------------------------------------------------------
(* A turn ends.                                                            *)

\* The store's commit_turn: binding and link, before the router hears of it.
Commit(t, c) ==
  /\ turns[t].pc = "running"
  /\ convs' = [convs EXCEPT ![c] = [bound |-> turns[t].account, live |-> TRUE]]
  /\ turns' = [turns EXCEPT ![t].pc = "committed"]
  /\ UNCHANGED <<accounts, now>>

RecordSuccess(t) ==
  LET a == turns[t].account IN
  /\ turns[t].pc = "committed"
  /\ accounts' = [accounts EXCEPT ![a] = Used(Cleared(@), now)]
  /\ turns' = [turns EXCEPT ![t] = Idle]
  /\ UNCHANGED <<convs, now>>

RecordFailure(t, category) ==
  LET a == turns[t].account IN
  /\ turns[t].pc = "running"
  /\ \/ /\ category = "AUTH_INVALID"
        /\ accounts' = [accounts EXCEPT ![a] = Invalidated(@)]
        /\ convs' = Released(a)
     \/ /\ category = "RATE_LIMITED"
        /\ accounts' = [accounts EXCEPT ![a] = Cooled(@, now + Window)]
        /\ UNCHANGED convs
     \/ /\ category = "OTHER"
        /\ accounts' = [accounts EXCEPT ![a] = Counted(@)]
        /\ UNCHANGED convs
  /\ turns' = [turns EXCEPT ![t] = Idle]
  /\ UNCHANGED now

-----------------------------------------------------------------------------
(* The operator, the store's own eviction, and time.                       *)

Enable(a) ==
  /\ accounts' = [accounts EXCEPT ![a] = Enabled(@, TRUE)]
  /\ UNCHANGED <<convs, turns, now>>

Disable(a) ==
  /\ accounts' = [accounts EXCEPT ![a] = Enabled(@, FALSE)]
  /\ convs' = Released(a)
  /\ UNCHANGED <<turns, now>>

Reset(a) ==
  /\ accounts' = [accounts EXCEPT ![a] = Enabled(Cleared(@), TRUE)]
  /\ UNCHANGED <<convs, turns, now>>

Evict(c) ==
  /\ convs[c] # NoConv
  /\ convs' = [convs EXCEPT ![c] = NoConv]
  /\ UNCHANGED <<accounts, turns, now>>

\* time.time() is the wall clock: it may also be set back.
Tick ==
  /\ \E instant \in 1..MaxClock : now' = instant
  /\ UNCHANGED <<accounts, convs, turns>>

TurnStep(t) ==
  \/ ReadClock(t)
  \/ Select(t)
  \/ SelectNone(t)
  \/ RecordSuccess(t)
  \/ \E category \in Categories : RecordFailure(t, category)
  \/ \E c \in Convs : Sticky(t, c) \/ StickyRefused(t, c) \/ Commit(t, c)

Next ==
  \/ \E t \in Turns : TurnStep(t)
  \/ \E a \in Accounts : Enable(a) \/ Disable(a) \/ Reset(a)
  \/ \E c \in Convs : Evict(c)
  \/ Tick

Spec == Init /\ [][Next]_vars

\* Nobody sets the clock back.  The code does not see to it, and what it says
\* of a cooldown's length rests on it.
SteadySpec == Init /\ [][Next /\ now' >= now]_vars

-----------------------------------------------------------------------------
(* Properties.                                                             *)

\* A cooldown always carries its deadline, nothing else does, and no
\* account is out of service without a failure to show for it: the two
\* fields record_failure, record_success, reset and the lazy promotion write
\* one by one never drift apart (accounts.py 217-225, 282-283, 313-321).
CooldownStamped ==
  \A a \in Accounts :
     /\ accounts[a].health = "cooldown" <=> accounts[a].until # Never
     /\ accounts[a].health # "healthy" => accounts[a].failing

\* An AUTH_INVALID verdict releases every link of the account
\* (accounts.py 312-318), but turns already running on it can still commit.
\* The only live link an invalid account can hold is one whose turn has
\* committed and is about to report its success.
InvalidHoldsNoLinks ==
  \A a \in Accounts, c \in Convs :
     accounts[a].health = "invalid" /\ convs[c].live /\ convs[c].bound = a
       => \E t \in Turns : turns[t].pc = "committed" /\ turns[t].account = a

\* A selection decides on a clock reading taken before it had the lock
\* (accounts.py 203-204).  Even so, as long as the clock is not set back, an
\* account leaves its cooldown only after the window has passed, or on evidence
\* that clears its failure count: a success or a reset.
EarnsHealth(a) ==
  accounts[a].health = "cooldown" /\ accounts'[a].health = "healthy"
    => accounts[a].until <= now \/ ~accounts'[a].failing

NoEarlyPromotion == [][\A a \in Accounts : EarnsHealth(a)]_vars

\* The fleet as it is at this instant, clock-free.
FleetView ==
  [a \in Accounts |->
     [enabled |-> accounts[a].enabled,
      health  |-> IF accounts[a].health = "cooldown"
                    THEN IF accounts[a].until > now THEN "cooling" ELSE "healthy"
                    ELSE accounts[a].health]]

PlacedView ==
  [t \in Turns |-> [account |-> turns[t].account, new |-> turns[t].new]]

Fleet == INSTANCE AccountFleet WITH fleet <- FleetView, placed <- PlacedView

\* The clock-free promise: no turn is ever given an account the fleet would
\* refuse at that moment, although select_for_new_conversation decides on a
\* clock reading taken before it had the lock (accounts.py 203-204).  A clock
\* that is set back makes a healthy account cool again: the promise is
\* SteadySpec's.
ImplementsFleet == Fleet!Spec

\* accounts.py 296 says of AUTH_INVALID: "invalid until operator action".
\* Only reset, the operator's restoration, may make an invalid account
\* anything else.
InvalidUntilReset ==
  [][\A a \in Accounts :
       accounts[a].health = "invalid" /\ accounts'[a].health # "invalid" => Reset(a)]_vars
=============================================================================
