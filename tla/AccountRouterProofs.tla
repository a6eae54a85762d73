------------------------- MODULE AccountRouterProofs -------------------------
(***************************************************************************)
(* Proofs about AccountRouter, for any number of accounts, turns and       *)
(* conversations, any cooldown window and any length of run.  The first    *)
(* three theorems hold whatever the clock does, the last two as long as    *)
(* nobody sets it back.                                                    *)
(***************************************************************************)
EXTENDS AccountRouter, TLAPS

\* What the other invariants lean on: the clock has started, a turn holds an account exactly while it runs, and a live link
\* always has an owner.
Bookkeeping ==
  /\ now >= 1
  /\ \A t \in Turns :
       /\ turns[t].pc \in {"running", "committed"} => turns[t].account \in Accounts
       /\ turns[t].pc \in {"idle", "selecting"} =>
            turns[t].account = NoAccount /\ turns[t].new = FALSE
  /\ \A c \in Convs : convs[c].live => convs[c].bound \in Accounts

IInv == TypeOK /\ Bookkeeping /\ CooldownStamped /\ InvalidHoldsNoLinks

\* No clock reading is ahead of the clock.
Past == \A t \in Turns : turns[t].seen <= now

-----------------------------------------------------------------------------
\* What each of the router's writes makes of a record.
LEMMA Writes ==
  \A r \in AccountRecord :
    /\ Healed(r) \in AccountRecord
    /\ Cleared(r) \in AccountRecord
    /\ Counted(r) \in AccountRecord
    /\ Invalidated(r) \in AccountRecord
    /\ \A deadline \in Nat : Cooled(r, deadline) \in AccountRecord
    /\ \A on \in BOOLEAN : Enabled(r, on) \in AccountRecord
    /\ \A instant \in Nat : Used(r, instant) \in AccountRecord
  BY DEF AccountRecord, Healed, Cleared, Counted, Invalidated, Cooled, Enabled, Used, Never

\* Every variable keeps its type (AccountRecord, its fields and their writers).
LEMMA TypeStep == TypeOK /\ Bookkeeping /\ [Next]_vars => TypeOK'
<1> SUFFICES ASSUME TypeOK, Bookkeeping, [Next]_vars PROVE TypeOK'
  OBVIOUS
<1> USE RouterAssumption DEF TypeOK, Accounts, Never, Idle, NoConv
<1>1. ASSUME NEW t \in Turns, ReadClock(t) PROVE TypeOK'
  BY <1>1 DEF ReadClock
<1>2. ASSUME NEW t \in Turns, Select(t) PROVE TypeOK'
  <2>1. \A a \in Accounts : PromotedAt(turns[t].seen)[a] \in AccountRecord
    BY Writes DEF PromotedAt
  <2>2. PromotedAt(turns[t].seen) \in [Accounts -> AccountRecord]
    BY <2>1 DEF PromotedAt
  <2>3. PICK a \in Accounts :
           /\ accounts' = [PromotedAt(turns[t].seen) EXCEPT ![a] = Used(@, turns[t].seen)]
           /\ turns' = [turns EXCEPT ![t] =
                          [Idle EXCEPT !.pc = "running", !.account = a, !.new = TRUE]]
    BY <1>2 DEF Select, UsableAt
  <2>4. Used(PromotedAt(turns[t].seen)[a], turns[t].seen) \in AccountRecord
    BY <2>1, Writes
  <2>5. accounts' \in [Accounts -> AccountRecord]
    BY <2>2, <2>3, <2>4
  <2> QED
    BY <1>2, <2>3, <2>5 DEF Select
<1>3. ASSUME NEW t \in Turns, SelectNone(t) PROVE TypeOK'
  BY <1>3 DEF SelectNone
<1>4. ASSUME NEW t \in Turns, NEW c \in Convs, Sticky(t, c) PROVE TypeOK'
  BY <1>4 DEF Sticky, Bookkeeping
<1>5. ASSUME NEW t \in Turns, NEW c \in Convs, StickyRefused(t, c) PROVE TypeOK'
  BY <1>5 DEF StickyRefused
<1>6. ASSUME NEW t \in Turns, NEW c \in Convs, Commit(t, c) PROVE TypeOK'
  BY <1>6 DEF Commit
<1>7. ASSUME NEW t \in Turns, RecordSuccess(t) PROVE TypeOK'
  <2>1. Used(Cleared(accounts[turns[t].account]), now) \in AccountRecord
    BY <1>7, Writes DEF RecordSuccess, Bookkeeping
  <2> QED
    BY <1>7, <2>1 DEF RecordSuccess
<1>8. ASSUME NEW t \in Turns, NEW category \in Categories, RecordFailure(t, category)
      PROVE TypeOK'
  <2>1. turns[t].account \in Accounts
    BY <1>8 DEF RecordFailure, Bookkeeping
  <2>2. /\ Invalidated(accounts[turns[t].account]) \in AccountRecord
        /\ Cooled(accounts[turns[t].account], now + Window) \in AccountRecord
        /\ Counted(accounts[turns[t].account]) \in AccountRecord
    <3>1. now + Window \in Nat
      OBVIOUS
    <3> QED
      BY <2>1, <3>1, Writes
  <2>3. accounts' \in [Accounts -> AccountRecord]
    BY <1>8, <2>1, <2>2 DEF RecordFailure
  <2>4. convs' \in [Convs -> [bound : Accounts \union {NoAccount}, live : BOOLEAN]]
    <3>1. CASE convs' = Released(turns[t].account)
      BY <3>1 DEF Released
    <3>2. CASE convs' = convs
      BY <3>2
    <3> QED
      BY <1>8, <3>1, <3>2 DEF RecordFailure
  <2> QED
    BY <1>8, <2>3, <2>4 DEF RecordFailure
<1>9. ASSUME NEW a \in Accounts, Enable(a) PROVE TypeOK'
  <2>1. Enabled(accounts[a], TRUE) \in AccountRecord
    BY Writes
  <2> QED
    BY <1>9, <2>1 DEF Enable
<1>10. ASSUME NEW a \in Accounts, Disable(a) PROVE TypeOK'
  <2>1. Enabled(accounts[a], FALSE) \in AccountRecord
    BY Writes
  <2> QED
    BY <1>10, <2>1 DEF Disable, Released
<1>11. ASSUME NEW a \in Accounts, Reset(a) PROVE TypeOK'
  <2>1. Enabled(Cleared(accounts[a]), TRUE) \in AccountRecord
    BY Writes
  <2> QED
    BY <1>11, <2>1 DEF Reset
<1>12. ASSUME NEW c \in Convs, Evict(c) PROVE TypeOK'
  BY <1>12 DEF Evict
<1>13. CASE Tick
  BY <1>13 DEF Tick
<1>14. CASE UNCHANGED vars
  BY <1>14 DEF vars
<1> QED
  BY <1>1, <1>2, <1>3, <1>4, <1>5, <1>6, <1>7, <1>8, <1>9, <1>10, <1>11, <1>12,
     <1>13, <1>14 DEF Next, TurnStep

\* Each step keeps turns tied to accounts.
LEMMA BookkeepingStep == TypeOK /\ Bookkeeping /\ [Next]_vars => Bookkeeping'
<1> SUFFICES ASSUME TypeOK, Bookkeeping, [Next]_vars PROVE Bookkeeping'
  OBVIOUS
<1> USE RouterAssumption DEF TypeOK, Bookkeeping, Accounts, Never, Idle, NoConv
<1>1. ASSUME NEW t \in Turns, ReadClock(t) PROVE Bookkeeping'
  BY <1>1 DEF ReadClock
<1>2. ASSUME NEW t \in Turns, Select(t) PROVE Bookkeeping'
  BY <1>2 DEF Select, UsableAt
<1>3. ASSUME NEW t \in Turns, SelectNone(t) PROVE Bookkeeping'
  BY <1>3 DEF SelectNone
<1>4. ASSUME NEW t \in Turns, NEW c \in Convs, Sticky(t, c) PROVE Bookkeeping'
  BY <1>4 DEF Sticky
<1>5. ASSUME NEW t \in Turns, NEW c \in Convs, StickyRefused(t, c) PROVE Bookkeeping'
  BY <1>5 DEF StickyRefused
<1>6. ASSUME NEW t \in Turns, NEW c \in Convs, Commit(t, c) PROVE Bookkeeping'
  BY <1>6 DEF Commit
<1>7. ASSUME NEW t \in Turns, RecordSuccess(t) PROVE Bookkeeping'
  BY <1>7 DEF RecordSuccess
<1>8. ASSUME NEW t \in Turns, NEW category \in Categories, RecordFailure(t, category)
      PROVE Bookkeeping'
  <2>1. /\ convs' = Released(turns[t].account) \/ convs' = convs
        /\ turns' = [turns EXCEPT ![t] = Idle]
        /\ now' = now
    BY <1>8 DEF RecordFailure
  <2> QED
    BY <2>1 DEF Released
<1>9. ASSUME NEW a \in Accounts, Enable(a) \/ Reset(a) PROVE Bookkeeping'
  <2>1. UNCHANGED <<convs, turns, now>>
    BY <1>9 DEF Enable, Reset
  <2> QED
    BY <2>1
<1>10. ASSUME NEW a \in Accounts, Disable(a) PROVE Bookkeeping'
  BY <1>10 DEF Disable, Released
<1>11. ASSUME NEW c \in Convs, Evict(c) PROVE Bookkeeping'
  BY <1>11 DEF Evict
<1>12. CASE Tick
  BY <1>12 DEF Tick
<1>13. CASE UNCHANGED vars
  BY <1>13 DEF vars
<1> QED
  BY <1>1, <1>2, <1>3, <1>4, <1>5, <1>6, <1>7, <1>8, <1>9, <1>10, <1>11, <1>12,
     <1>13 DEF Next, TurnStep

-----------------------------------------------------------------------------
\* What each write leaves in the fields a cooldown is made of.
SameService(s, r) == s.health = r.health /\ s.until = r.until

LEMMA WritesService ==
  \A r \in AccountRecord :
    /\ Healed(r).health = "healthy" /\ Healed(r).until = Never
    /\ Healed(r).failing = r.failing /\ Healed(r).enabled = r.enabled
    /\ Cleared(r).health = "healthy" /\ Cleared(r).until = Never
    /\ ~Cleared(r).failing /\ Cleared(r).enabled = r.enabled
    /\ SameService(Counted(r), r)
    /\ Counted(r).failing /\ Counted(r).enabled = r.enabled
    /\ Invalidated(r).health = "invalid" /\ Invalidated(r).until = Never
    /\ Invalidated(r).failing /\ Invalidated(r).enabled = r.enabled
<1> TAKE r \in AccountRecord
<1>1. /\ Healed(r).health = "healthy" /\ Healed(r).until = Never
      /\ Healed(r).failing = r.failing /\ Healed(r).enabled = r.enabled
  BY DEF AccountRecord, Healed
<1>2. /\ Cleared(r).health = "healthy" /\ Cleared(r).until = Never
      /\ ~Cleared(r).failing /\ Cleared(r).enabled = r.enabled
  BY DEF AccountRecord, Healed, Cleared
<1>3. /\ SameService(Counted(r), r)
      /\ Counted(r).failing /\ Counted(r).enabled = r.enabled
  BY DEF AccountRecord, Counted, SameService
<1>4. /\ Invalidated(r).health = "invalid" /\ Invalidated(r).until = Never
      /\ Invalidated(r).failing /\ Invalidated(r).enabled = r.enabled
  BY DEF AccountRecord, Counted, Invalidated
<1> QED
  BY <1>1, <1>2, <1>3, <1>4

LEMMA StampsService ==
  \A r \in AccountRecord :
    /\ \A deadline \in Nat :
         /\ Cooled(r, deadline).health = "cooldown"
         /\ Cooled(r, deadline).until = deadline
         /\ Cooled(r, deadline).failing
         /\ Cooled(r, deadline).enabled = r.enabled
    /\ \A on \in BOOLEAN :
         /\ SameService(Enabled(r, on), r)
         /\ Enabled(r, on).failing = r.failing
         /\ Enabled(r, on).enabled = on
    /\ \A instant \in Nat :
         /\ SameService(Used(r, instant), r)
         /\ Used(r, instant).failing = r.failing
         /\ Used(r, instant).enabled = r.enabled
  BY DEF AccountRecord, Counted, Cooled, Enabled, Used, SameService
-----------------------------------------------------------------------------
\* The condition on one record that CooldownStamped asks of every account.
Stamped(r) ==
  /\ r.health = "cooldown" <=> r.until # Never
  /\ r.health # "healthy" => r.failing

LEMMA StampedWrites ==
  \A r \in AccountRecord : Stamped(r) =>
    /\ Stamped(Healed(r))
    /\ Stamped(Cleared(r))
    /\ Stamped(Counted(r))
    /\ Stamped(Invalidated(r))
    /\ \A deadline \in Nat \ {0} : Stamped(Cooled(r, deadline))
    /\ \A on \in BOOLEAN : Stamped(Enabled(r, on))
    /\ \A instant \in Nat : Stamped(Used(r, instant))
<1> SUFFICES ASSUME NEW r \in AccountRecord, Stamped(r)
    PROVE  /\ Stamped(Healed(r))
           /\ Stamped(Cleared(r))
           /\ Stamped(Counted(r))
           /\ Stamped(Invalidated(r))
           /\ \A deadline \in Nat \ {0} : Stamped(Cooled(r, deadline))
           /\ \A on \in BOOLEAN : Stamped(Enabled(r, on))
           /\ \A instant \in Nat : Stamped(Used(r, instant))
  OBVIOUS
<1> USE DEF Stamped, SameService, Never
<1>1. Stamped(Healed(r)) /\ Stamped(Cleared(r))
  BY WritesService
<1>2. Stamped(Counted(r)) /\ Stamped(Invalidated(r))
  BY WritesService
<1>3. \A deadline \in Nat \ {0} : Stamped(Cooled(r, deadline))
  BY StampsService
<1>4. \A on \in BOOLEAN : Stamped(Enabled(r, on))
  BY StampsService
<1>5. \A instant \in Nat : Stamped(Used(r, instant))
  BY StampsService
<1> QED
  BY <1>1, <1>2, <1>3, <1>4, <1>5

\* Every write of the router keeps a cooldown and its deadline together.
LEMMA StampedStep ==
  TypeOK /\ Bookkeeping /\ CooldownStamped /\ [Next]_vars => CooldownStamped'
<1> SUFFICES ASSUME TypeOK, Bookkeeping, CooldownStamped, [Next]_vars,
                    NEW a \in Accounts
    PROVE  Stamped(accounts'[a])
  BY DEF CooldownStamped, Stamped
<1>0. \A b \in Accounts : accounts[b] \in AccountRecord /\ Stamped(accounts[b])
  BY DEF TypeOK, CooldownStamped, Stamped
<1>1. ASSUME NEW t \in Turns, Select(t) PROVE Stamped(accounts'[a])
  <2>1. PICK b \in Accounts :
           accounts' = [PromotedAt(turns[t].seen) EXCEPT ![b] = Used(@, turns[t].seen)]
    BY <1>1 DEF Select, UsableAt
  <2>2. PromotedAt(turns[t].seen)[a] \in AccountRecord /\ Stamped(PromotedAt(turns[t].seen)[a])
    BY <1>0, Writes, StampedWrites DEF PromotedAt
  <2>3. turns[t].seen \in Nat
    BY DEF TypeOK
  <2>4. a \in DOMAIN PromotedAt(turns[t].seen)
    BY DEF PromotedAt
  <2> QED
    BY <2>1, <2>2, <2>3, <2>4, StampedWrites
<1>2. ASSUME NEW t \in Turns, RecordSuccess(t) PROVE Stamped(accounts'[a])
  <2>1. Cleared(accounts[a]) \in AccountRecord /\ Stamped(Cleared(accounts[a]))
    BY <1>0, Writes, StampedWrites
  <2> QED
    BY <1>0, <1>2, <2>1, StampedWrites DEF RecordSuccess, TypeOK
<1>3. ASSUME NEW t \in Turns, NEW category \in Categories, RecordFailure(t, category)
      PROVE Stamped(accounts'[a])
  <2> DEFINE b == turns[t].account
  <2>1. now + Window \in Nat \ {0}
    BY RouterAssumption DEF TypeOK, Bookkeeping
  <2>2. \/ accounts' = [accounts EXCEPT ![b] = Invalidated(@)]
        \/ accounts' = [accounts EXCEPT ![b] = Cooled(@, now + Window)]
        \/ accounts' = [accounts EXCEPT ![b] = Counted(@)]
    BY <1>3 DEF RecordFailure
  <2> QED
    BY <1>0, <2>1, <2>2, StampedWrites DEF TypeOK
<1>4. ASSUME NEW b \in Accounts, Enable(b) \/ Disable(b) PROVE Stamped(accounts'[a])
  BY <1>0, <1>4, StampedWrites DEF Enable, Disable, TypeOK
<1>5. ASSUME NEW b \in Accounts, Reset(b) PROVE Stamped(accounts'[a])
  <2>1. Cleared(accounts[a]) \in AccountRecord /\ Stamped(Cleared(accounts[a]))
    BY <1>0, Writes, StampedWrites
  <2> QED
    BY <1>0, <1>5, <2>1, StampedWrites DEF Reset, TypeOK
<1>6. CASE UNCHANGED accounts
  BY <1>0, <1>6
<1> QED
  BY <1>1, <1>2, <1>3, <1>4, <1>5, <1>6
     DEF Next, TurnStep, ReadClock, SelectNone, Sticky, StickyRefused, Commit,
         Evict, Tick, vars

-----------------------------------------------------------------------------
\* The turn that excuses a live link on an invalid account.
Excused(a) == \E t \in Turns : turns[t].pc = "committed" /\ turns[t].account = a

\* A promotion invalidates nobody and revives nobody.
LEMMA PromotionKeepsInvalid ==
  ASSUME TypeOK, NEW instant, NEW a \in Accounts
  PROVE  PromotedAt(instant)[a].health = "invalid" <=> accounts[a].health = "invalid"
  BY WritesService DEF PromotedAt, TypeOK

\* Every step that gives an invalid account a live link leaves the turn that
\* did it about to report its success.
LEMMA LinksStep ==
  TypeOK /\ Bookkeeping /\ InvalidHoldsNoLinks /\ [Next]_vars => InvalidHoldsNoLinks'
<1> SUFFICES ASSUME TypeOK, Bookkeeping, InvalidHoldsNoLinks, [Next]_vars,
                    NEW a \in Accounts, NEW c \in Convs,
                    accounts'[a].health = "invalid", convs'[c].live, convs'[c].bound = a
    PROVE  Excused(a)'
  BY DEF InvalidHoldsNoLinks, Excused
<1>0. accounts[a].health = "invalid" /\ convs[c].live /\ convs[c].bound = a => Excused(a)
  BY DEF InvalidHoldsNoLinks, Excused
<1>a. accounts[a] \in AccountRecord
  BY DEF TypeOK
<1>1. ASSUME NEW t \in Turns, Select(t) PROVE Excused(a)'
  <2>1. PICK b \in Accounts :
           /\ accounts' = [PromotedAt(turns[t].seen) EXCEPT ![b] = Used(@, turns[t].seen)]
           /\ turns' = [turns EXCEPT ![t] =
                          [Idle EXCEPT !.pc = "running", !.account = b, !.new = TRUE]]
    BY <1>1 DEF Select, UsableAt
  <2>2. PromotedAt(turns[t].seen)[a] \in AccountRecord /\ a \in DOMAIN PromotedAt(turns[t].seen)
    BY <1>a, Writes DEF PromotedAt
  <2>3. turns[t].seen \in Nat
    BY DEF TypeOK
  <2>4. accounts[a].health = "invalid"
    BY <2>1, <2>2, <2>3, PromotionKeepsInvalid, StampsService DEF SameService
  <2>5. Excused(a)
    BY <1>0, <1>1, <2>4 DEF Select
  <2> QED
    BY <1>1, <2>1, <2>5 DEF Select, Excused
<1>2. ASSUME NEW t \in Turns, RecordSuccess(t) PROVE Excused(a)'
  <2> DEFINE b == turns[t].account
  <2>1. Cleared(accounts[b]) \in AccountRecord /\ Cleared(accounts[b]).health = "healthy"
    BY <1>2, Writes, WritesService DEF RecordSuccess, Bookkeeping, TypeOK
  <2>2. Used(Cleared(accounts[b]), now).health = "healthy"
    BY <2>1, StampsService DEF SameService, TypeOK
  <2>3. a # b
    BY <1>2, <2>2 DEF RecordSuccess, TypeOK
  <2>4. Excused(a)
    BY <1>0, <1>2, <2>3 DEF RecordSuccess, TypeOK
  <2> QED
    BY <1>2, <2>3, <2>4 DEF RecordSuccess, Excused, TypeOK
<1>3. ASSUME NEW t \in Turns, NEW category \in Categories, RecordFailure(t, category)
      PROVE Excused(a)'
  <2> DEFINE b == turns[t].account
  <2>0. b \in Accounts /\ turns[t].pc = "running" /\ turns' = [turns EXCEPT ![t] = Idle]
    BY <1>3 DEF RecordFailure, Bookkeeping
  <2>1. Excused(a) => Excused(a)'
    BY <2>0 DEF Excused, TypeOK
  <2>2. CASE /\ accounts' = [accounts EXCEPT ![b] = Invalidated(@)]
             /\ convs' = Released(b)
    <3>1. a # b
      BY <2>2 DEF Released, TypeOK
    <3>2. accounts[a].health = "invalid" /\ convs[c].live /\ convs[c].bound = a
      BY <2>2, <3>1 DEF Released, TypeOK
    <3> QED
      BY <1>0, <2>1, <3>2
  <2>3. CASE /\ accounts' = [accounts EXCEPT ![b] = Cooled(@, now + Window)]
             /\ UNCHANGED convs
    <3>1. now + Window \in Nat
      BY RouterAssumption DEF TypeOK
    <3>2. a # b
      BY <1>a, <2>3, <3>1, StampsService DEF TypeOK
    <3> QED
      BY <1>0, <2>1, <2>3, <3>2 DEF TypeOK
  <2>4. CASE /\ accounts' = [accounts EXCEPT ![b] = Counted(@)]
             /\ UNCHANGED convs
    <3>1. accounts'[a].health = accounts[a].health
      BY <1>a, <2>4, WritesService DEF TypeOK, SameService
    <3> QED
      BY <1>0, <2>1, <2>4, <3>1
  <2> QED
    BY <1>3, <2>2, <2>3, <2>4 DEF RecordFailure
<1>4. ASSUME NEW t \in Turns, NEW d \in Convs, Commit(t, d) PROVE Excused(a)'
  <2>1. CASE d = c
    BY <1>4, <2>1 DEF Commit, Excused, TypeOK
  <2>2. CASE d # c
    BY <1>0, <1>4, <2>2 DEF Commit, Excused, TypeOK
  <2> QED
    BY <2>1, <2>2
<1>5. ASSUME NEW b \in Accounts, Enable(b) \/ Disable(b) PROVE Excused(a)'
  <2>1. accounts'[a].health = accounts[a].health
    <3>1. PICK on \in BOOLEAN : accounts' = [accounts EXCEPT ![b] = Enabled(@, on)]
      BY <1>5 DEF Enable, Disable
    <3> QED
      BY <1>a, <3>1, StampsService DEF TypeOK, SameService
  <2>2. convs[c].live /\ convs[c].bound = a
    BY <1>5 DEF Enable, Disable, Released, TypeOK
  <2> QED
    BY <1>0, <1>5, <2>1, <2>2 DEF Enable, Disable, Excused
<1>6. ASSUME NEW b \in Accounts, Reset(b) PROVE Excused(a)'
  <2>1. Cleared(accounts[b]) \in AccountRecord /\ Cleared(accounts[b]).health = "healthy"
    BY Writes, WritesService DEF TypeOK
  <2>2. Enabled(Cleared(accounts[b]), TRUE).health = "healthy"
    BY <2>1, StampsService DEF SameService
  <2>3. a # b
    BY <1>6, <2>2 DEF Reset, TypeOK
  <2> QED
    BY <1>0, <1>6, <2>3 DEF Reset, Excused, TypeOK
<1>7. ASSUME NEW t \in Turns,
             ReadClock(t) \/ SelectNone(t) \/ \E d \in Convs : Sticky(t, d)
      PROVE Excused(a)'
  <2>1. UNCHANGED <<accounts, convs>>
    BY <1>7 DEF ReadClock, SelectNone, Sticky
  <2>2. turns[t].pc # "committed" /\ \A u \in Turns \ {t} : turns'[u] = turns[u]
    BY <1>7 DEF ReadClock, SelectNone, Sticky, TypeOK
  <2> QED
    BY <1>0, <2>1, <2>2 DEF Excused
<1>8. ASSUME NEW t \in Turns, NEW d \in Convs, StickyRefused(t, d) PROVE Excused(a)'
  BY <1>0, <1>8 DEF StickyRefused, Excused, TypeOK
<1>9. ASSUME NEW d \in Convs, Evict(d) PROVE Excused(a)'
  BY <1>0, <1>9 DEF Evict, Excused, TypeOK, NoConv
<1>10. CASE Tick \/ UNCHANGED vars
  BY <1>0, <1>10 DEF Tick, vars, Excused
<1> QED
  BY <1>1, <1>2, <1>3, <1>4, <1>5, <1>6, <1>7, <1>8, <1>9, <1>10 DEF Next, TurnStep

-----------------------------------------------------------------------------
LEMMA InitIInv == Init => IInv
  BY RouterAssumption
     DEF Init, IInv, TypeOK, Bookkeeping, CooldownStamped, InvalidHoldsNoLinks,
         NewAccount, AccountRecord, NoConv, Idle, Accounts, Never

LEMMA StepIInv == IInv /\ [Next]_vars => IInv'
  BY TypeStep, BookkeepingStep, StampedStep, LinksStep DEF IInv

THEOREM Inductive == Spec => []IInv
  BY InitIInv, StepIInv, PTL DEF Spec

\* Every variable of the router keeps its type in every run.
THEOREM TypeCorrect == Spec => []TypeOK
  BY Inductive, PTL DEF IInv

\* In every run a cooldown and its deadline stand and fall together, and an
\* account out of service has failed since its last success.
THEOREM CooldownsStamped == Spec => []CooldownStamped
  BY Inductive, PTL DEF IInv

\* In every run a live link on an invalid account belongs to a turn that is
\* about to report its success (accounts.py 312-318 against commit_turn).
THEOREM InvalidLinksExcused == Spec => []InvalidHoldsNoLinks
  BY Inductive, PTL DEF IInv

-----------------------------------------------------------------------------
\* A step forward in time leaves every reading in the past.
LEMMA PastStep == IInv /\ Past /\ [Next]_vars /\ now' >= now => Past'
<1> SUFFICES ASSUME IInv, Past, [Next]_vars, now' >= now, NEW t \in Turns
    PROVE  turns'[t].seen <= now'
  BY DEF Past
<1>0. /\ now \in Nat /\ now >= 1 /\ now' \in Nat
      /\ turns[t].seen \in Nat /\ turns[t].seen <= now
  <2>1. TypeOK'
    BY StepIInv DEF IInv
  <2> QED
    BY <2>1 DEF IInv, TypeOK, Bookkeeping, Past
<1>1. turns'[t].seen \in {turns[t].seen, now, Never}
  <2> USE DEF IInv, TypeOK, Idle
  <2>1. ASSUME NEW u \in Turns, TurnStep(u) PROVE turns'[t].seen \in {turns[t].seen, now, Never}
    <3>1. CASE ReadClock(u)
      BY <3>1 DEF ReadClock
    <3>2. CASE Select(u)
      BY <3>2 DEF Select
    <3>3. CASE SelectNone(u)
      BY <3>3 DEF SelectNone
    <3>4. CASE RecordSuccess(u)
      BY <3>4 DEF RecordSuccess
    <3>5. ASSUME NEW category \in Categories, RecordFailure(u, category)
          PROVE  turns'[t].seen \in {turns[t].seen, now, Never}
      <4>1. turns' = [turns EXCEPT ![u] = Idle]
        BY <3>5 DEF RecordFailure
      <4> QED
        BY <4>1
    <3>6. ASSUME NEW c \in Convs, Sticky(u, c) \/ StickyRefused(u, c) \/ Commit(u, c)
          PROVE  turns'[t].seen \in {turns[t].seen, now, Never}
      <4>1. CASE Sticky(u, c)
        BY <4>1 DEF Sticky
      <4>2. CASE StickyRefused(u, c)
        BY <4>2 DEF StickyRefused
      <4>3. CASE Commit(u, c)
        <5>1. turns' = [turns EXCEPT ![u].pc = "committed"]
          BY <4>3 DEF Commit
        <5> QED
          BY <5>1
      <4> QED
        BY <3>6, <4>1, <4>2, <4>3
    <3> QED
      BY <2>1, <3>1, <3>2, <3>3, <3>4, <3>5, <3>6 DEF TurnStep
  <2>2. CASE UNCHANGED turns
    BY <2>2
  <2> QED
    BY <2>1, <2>2 DEF Next, Enable, Disable, Reset, Evict, Tick, vars
<1> QED
  BY <1>0, <1>1 DEF Never

LEMMA SteadyInductive == SteadySpec => [](IInv /\ Past)
<1>1. Init => IInv /\ Past
  BY InitIInv DEF Init, Past, Idle, Never
<1>2. IInv /\ Past /\ [Next /\ now' >= now]_vars => (IInv /\ Past)'
  <2> SUFFICES ASSUME IInv, Past, [Next /\ now' >= now]_vars PROVE (IInv /\ Past)'
    OBVIOUS
  <2>1. [Next]_vars /\ now' >= now
    BY DEF vars, IInv, TypeOK
  <2> QED
    BY <2>1, StepIInv, PastStep
<1> QED
  BY <1>1, <1>2, PTL DEF SteadySpec

LEMMA NoEarlyStep == IInv /\ Past /\ [Next]_vars => \A a \in Accounts : EarnsHealth(a)
<1> SUFFICES ASSUME IInv, Past, [Next]_vars, NEW a \in Accounts,
                    accounts[a].health = "cooldown", accounts'[a].health = "healthy"
    PROVE  accounts[a].until <= now \/ ~accounts'[a].failing
  BY DEF EarnsHealth
<1> USE DEF IInv
<1>a. accounts[a] \in AccountRecord
  BY DEF TypeOK
<1>1. ASSUME NEW t \in Turns, Select(t) PROVE accounts[a].until <= now
  <2>1. PICK b \in Accounts :
           accounts' = [PromotedAt(turns[t].seen) EXCEPT ![b] = Used(@, turns[t].seen)]
    BY <1>1 DEF Select, UsableAt
  <2>2. PromotedAt(turns[t].seen)[a] \in AccountRecord /\ a \in DOMAIN PromotedAt(turns[t].seen)
    BY <1>a, Writes DEF PromotedAt
  <2>3. turns[t].seen \in Nat /\ turns[t].seen <= now
    BY DEF TypeOK, Past
  <2>4. PromotedAt(turns[t].seen)[a].health = "healthy"
    BY <2>1, <2>2, <2>3, StampsService DEF SameService
  <2>5. a \in UsableAt(turns[t].seen)
    BY <2>4 DEF PromotedAt
  <2>6. accounts[a].until = Never \/ ~(accounts[a].until > turns[t].seen)
    BY <2>5 DEF UsableAt, CoolingAt
  <2> QED
    BY <1>a, <2>3, <2>6 DEF AccountRecord, Never, TypeOK
<1>2. ASSUME NEW t \in Turns, RecordSuccess(t) PROVE ~accounts'[a].failing
  <2>1. a = turns[t].account
    BY <1>2 DEF RecordSuccess, TypeOK
  <2>2. Cleared(accounts[a]) \in AccountRecord /\ ~Cleared(accounts[a]).failing
    BY <1>a, Writes, WritesService
  <2>3. accounts'[a] = Used(Cleared(accounts[a]), now)
    BY <1>2, <2>1 DEF RecordSuccess, TypeOK
  <2> QED
    BY <2>2, <2>3, StampsService DEF TypeOK
<1>3. ASSUME NEW t \in Turns, NEW category \in Categories, RecordFailure(t, category)
      PROVE FALSE
  <2> DEFINE b == turns[t].account
  <2>1. now + Window \in Nat
    BY RouterAssumption DEF TypeOK
  <2>2. \/ accounts' = [accounts EXCEPT ![b] = Invalidated(@)]
        \/ accounts' = [accounts EXCEPT ![b] = Cooled(@, now + Window)]
        \/ accounts' = [accounts EXCEPT ![b] = Counted(@)]
    BY <1>3 DEF RecordFailure
  <2> QED
    BY <1>a, <2>1, <2>2, WritesService, StampsService DEF TypeOK, SameService
<1>4. ASSUME NEW b \in Accounts, Enable(b) \/ Disable(b) PROVE FALSE
  <2>1. PICK on \in BOOLEAN : accounts' = [accounts EXCEPT ![b] = Enabled(@, on)]
    BY <1>4 DEF Enable, Disable
  <2> QED
    BY <1>a, <2>1, StampsService DEF TypeOK, SameService
<1>5. ASSUME NEW b \in Accounts, Reset(b) PROVE ~accounts'[a].failing
  <2>1. a = b
    BY <1>5 DEF Reset, TypeOK
  <2>2. Cleared(accounts[a]) \in AccountRecord /\ ~Cleared(accounts[a]).failing
    BY <1>a, Writes, WritesService
  <2>3. accounts'[a] = Enabled(Cleared(accounts[a]), TRUE)
    BY <1>5, <2>1 DEF Reset, TypeOK
  <2> QED
    BY <2>2, <2>3, StampsService
<1>6. CASE UNCHANGED accounts
  BY <1>6
<1> QED
  BY <1>1, <1>2, <1>3, <1>4, <1>5, <1>6
     DEF Next, TurnStep, ReadClock, SelectNone, Sticky, StickyRefused, Commit,
         Evict, Tick, vars

\* As long as the clock is not set back, an account leaves its cooldown only when
\* its window is over or when a success or a reset clears it, however stale the
\* clock reading of the selection that promotes it (accounts.py 203-204).
THEOREM PromotionsWait == SteadySpec => NoEarlyPromotion
<1>1. IInv /\ Past /\ [Next /\ now' >= now]_vars => [\A a \in Accounts : EarnsHealth(a)]_vars
  BY NoEarlyStep
<1> QED
  BY SteadyInductive, <1>1, PTL DEF SteadySpec, NoEarlyPromotion
-----------------------------------------------------------------------------
(* Refinement: the router with timestamps implements AccountFleet.         *)

\* The clock-free phase of a record at an instant.
Phase(r, instant) ==
  IF r.health = "cooldown"
    THEN IF r.until > instant THEN "cooling" ELSE "healthy"
    ELSE r.health

LEMMA ViewType ==
  TypeOK => /\ FleetView \in Fleet!Fleets
            /\ \A a \in Accounts : /\ FleetView[a].enabled = accounts[a].enabled
                                   /\ FleetView[a].health = Phase(accounts[a], now)
  BY DEF TypeOK, FleetView, Fleet!Fleets, AccountRecord, Phase

LEMMA ViewTypeNext ==
  TypeOK' => /\ FleetView' \in Fleet!Fleets
             /\ \A a \in Accounts : /\ FleetView'[a].enabled = accounts'[a].enabled
                                    /\ FleetView'[a].health = Phase(accounts'[a], now')
  BY DEF TypeOK, FleetView, Fleet!Fleets, AccountRecord, Phase

\* Two fleets that agree on every account are the same fleet.
LEMMA SameFleet ==
  ASSUME NEW f \in Fleet!Fleets, NEW g \in Fleet!Fleets,
         \A a \in Accounts : f[a].enabled = g[a].enabled /\ f[a].health = g[a].health
  PROVE  f = g
<1>1. \A a \in Accounts : f[a] = g[a]
  BY DEF Fleet!Fleets
<1> QED
  BY <1>1 DEF Fleet!Fleets

LEMMA InitFleet == Init => Fleet!Init
  BY DEF Init, Fleet!Init, FleetView, PlacedView, Fleet!NewFleet, Fleet!Unplaced,
         NewAccount, Idle

\* A step that changes no turn's placement and no account's phase is a
\* stutter for the fleet.
LEMMA FleetUnchanged ==
  ASSUME IInv, IInv',
         \A a \in Accounts : /\ accounts'[a].enabled = accounts[a].enabled
                             /\ Phase(accounts'[a], now') = Phase(accounts[a], now)
  PROVE  FleetView' = FleetView
<1>1. FleetView \in Fleet!Fleets /\ FleetView' \in Fleet!Fleets
  BY ViewType, ViewTypeNext DEF IInv
<1>2. \A a \in Accounts : /\ FleetView'[a].enabled = FleetView[a].enabled
                          /\ FleetView'[a].health = FleetView[a].health
  BY ViewType, ViewTypeNext DEF IInv
<1> QED
  BY <1>1, <1>2, SameFleet

LEMMA SelectFleet ==
  ASSUME IInv, IInv', Past, NEW t \in Turns, Select(t)
  PROVE  Fleet!PlaceNew(t)
<1> USE DEF IInv
<1> DEFINE seen == turns[t].seen
<1>1. PICK a \in UsableAt(seen) :
         /\ accounts' = [PromotedAt(seen) EXCEPT ![a] = Used(@, seen)]
         /\ turns' = [turns EXCEPT ![t] =
                        [Idle EXCEPT !.pc = "running", !.account = a, !.new = TRUE]]
         /\ now' = now
  BY DEF Select
<1>2. a \in Accounts /\ seen \in Nat /\ seen <= now
  BY DEF UsableAt, TypeOK, Past
<1>3. \A b \in Accounts : /\ accounts[b] \in AccountRecord
                          /\ PromotedAt(seen)[b] \in AccountRecord
                          /\ PromotedAt(seen)[b].enabled = accounts[b].enabled
                          /\ Phase(PromotedAt(seen)[b], now) = Phase(accounts[b], now)
  <2> TAKE b \in Accounts
  <2>1. accounts[b] \in AccountRecord
    BY DEF TypeOK
  <2>2. CASE b \in UsableAt(seen) /\ accounts[b].health = "cooldown"
    <3>1. PromotedAt(seen)[b] = Healed(accounts[b])
      BY <2>2 DEF PromotedAt
    <3>2. ~(accounts[b].until > now)
      BY <1>2, <2>1, <2>2 DEF UsableAt, CoolingAt, AccountRecord, Never, TypeOK, Bookkeeping
    <3>3. /\ Healed(accounts[b]) \in AccountRecord
          /\ Healed(accounts[b]).enabled = accounts[b].enabled
          /\ Healed(accounts[b]).health = "healthy"
      BY <2>1, Writes, WritesService
    <3>4. Phase(Healed(accounts[b]), now) = "healthy" /\ Phase(accounts[b], now) = "healthy"
      BY <2>2, <3>2, <3>3 DEF Phase
    <3> QED
      BY <2>1, <3>1, <3>3, <3>4
  <2>3. CASE ~(b \in UsableAt(seen) /\ accounts[b].health = "cooldown")
    BY <2>1, <2>3 DEF PromotedAt
  <2> QED
    BY <2>2, <2>3
<1>4. \A b \in Accounts : /\ accounts'[b].enabled = accounts[b].enabled
                          /\ Phase(accounts'[b], now') = Phase(accounts[b], now)
  <2> TAKE b \in Accounts
  <2>1. accounts'[b] = IF b = a THEN Used(PromotedAt(seen)[b], seen) ELSE PromotedAt(seen)[b]
    BY <1>1 DEF PromotedAt
  <2> QED
    BY <1>1, <1>2, <1>3, <2>1, StampsService DEF Phase, SameService
<1>5. FleetView' = FleetView
  BY <1>4, FleetUnchanged
<1>6. a \in Fleet!Usable(FleetView)
  <2>1. accounts[a].enabled /\ Phase(accounts[a], now) = "healthy"
    BY <1>1, <1>2, <1>3
       DEF UsableAt, CoolingAt, AccountRecord, Never, TypeOK, Bookkeeping, Phase
  <2> QED
    BY <1>2, <2>1, ViewType DEF Fleet!Usable
<1>7. PlacedView[t] = Fleet!Unplaced
  BY DEF Select, PlacedView, Fleet!Unplaced, Bookkeeping
<1>8. PlacedView' = [PlacedView EXCEPT ![t] = [account |-> a, new |-> TRUE]]
  BY <1>1 DEF PlacedView, Idle, TypeOK
<1> QED
  BY <1>5, <1>6, <1>7, <1>8 DEF Fleet!PlaceNew

LEMMA StickyFleet ==
  ASSUME IInv, IInv', NEW t \in Turns, NEW c \in Convs, Sticky(t, c)
  PROVE  Fleet!PlaceSticky(t)
<1> USE DEF IInv
<1> DEFINE a == convs[c].bound
<1>1. a \in Accounts
  BY DEF Sticky, Bookkeeping
<1>2. UNCHANGED <<accounts, now>>
  BY DEF Sticky
<1>3. FleetView' = FleetView
  BY <1>2, FleetUnchanged
<1>4. Fleet!MayServe(FleetView, a)
  BY <1>1, ViewType DEF Sticky, Fleet!MayServe, Phase
<1>5. PlacedView[t] = Fleet!Unplaced
  BY DEF Sticky, PlacedView, Fleet!Unplaced, Bookkeeping
<1>6. PlacedView' = [PlacedView EXCEPT ![t] = [account |-> a, new |-> FALSE]]
  BY DEF Sticky, PlacedView, Idle, TypeOK
<1> QED
  BY <1>1, <1>3, <1>4, <1>5, <1>6 DEF Fleet!PlaceSticky

\* What a success, a failure and an operator command are to the fleet: the
\* new view differs in the one account, and there as the policy says.
LEMMA OneAccount ==
  ASSUME IInv, IInv', NEW a \in Accounts, NEW r \in AccountRecord,
         accounts' = [accounts EXCEPT ![a] = r], now' = now,
         NEW f \in Fleet!Fleets,
         f[a].enabled = r.enabled, f[a].health = Phase(r, now),
         \A b \in Accounts \ {a} : f[b] = FleetView[b]
  PROVE  FleetView' = f
<1>1. FleetView' \in Fleet!Fleets
  BY ViewTypeNext DEF IInv
<1>2. \A b \in Accounts : accounts'[b] = IF b = a THEN r ELSE accounts[b]
  BY DEF IInv, TypeOK
<1>3. \A b \in Accounts : /\ FleetView'[b].enabled = f[b].enabled
                          /\ FleetView'[b].health = f[b].health
  <2> TAKE b \in Accounts
  <2>1. CASE b = a
    BY <1>2, <2>1, ViewTypeNext DEF IInv
  <2>2. CASE b # a
    BY <1>2, <2>2, ViewType, ViewTypeNext DEF IInv
  <2> QED
    BY <2>1, <2>2
<1> QED
  BY <1>1, <1>3, SameFleet

LEMMA PolicyType ==
  ASSUME NEW f \in Fleet!Fleets, NEW a \in Accounts
  PROVE  /\ Fleet!Succeeded(f, a) \in Fleet!Fleets
         /\ Fleet!Failed(f, a, "AUTH_INVALID") \in Fleet!Fleets
         /\ Fleet!Failed(f, a, "RATE_LIMITED") \in Fleet!Fleets
         /\ \A on \in BOOLEAN : Fleet!Switched(f, a, on) \in Fleet!Fleets
         /\ Fleet!Restored(f, a) \in Fleet!Fleets
  BY DEF Fleet!Fleets, Fleet!Succeeded, Fleet!Failed, Fleet!Switched, Fleet!Restored

LEMMA SuccessFleet ==
  ASSUME IInv, IInv', NEW t \in Turns, RecordSuccess(t)
  PROVE  Fleet!Report(t)
<1> USE DEF IInv
<1> DEFINE a == turns[t].account
           r == Used(Cleared(accounts[a]), now)
           f == Fleet!Succeeded(FleetView, a)
<1>1. a \in Accounts /\ now \in Nat /\ accounts[a] \in AccountRecord
  BY DEF RecordSuccess, Bookkeeping, TypeOK
<1>2. r \in AccountRecord /\ r.enabled = accounts[a].enabled /\ r.health = "healthy"
  <2>1. Cleared(accounts[a]) \in AccountRecord
        /\ Cleared(accounts[a]).enabled = accounts[a].enabled
        /\ Cleared(accounts[a]).health = "healthy"
    BY <1>1, Writes, WritesService
  <2>2. r \in AccountRecord
    BY <1>1, <2>1, Writes
  <2>3. r.enabled = Cleared(accounts[a]).enabled /\ SameService(r, Cleared(accounts[a]))
    BY <1>1, <2>1, StampsService
  <2> QED
    BY <2>1, <2>2, <2>3 DEF SameService
<1>3. FleetView \in Fleet!Fleets /\ FleetView[a].enabled = accounts[a].enabled
  BY <1>1, ViewType
<1>4. f \in Fleet!Fleets
  BY <1>1, <1>3, PolicyType
<1>5. /\ f[a].enabled = r.enabled /\ f[a].health = Phase(r, now)
      /\ \A b \in Accounts \ {a} : f[b] = FleetView[b]
  BY <1>1, <1>2, <1>3 DEF Fleet!Succeeded, Fleet!Fleets, Phase
<1>6. FleetView' = f
  <2>1. accounts' = [accounts EXCEPT ![a] = r] /\ now' = now
    BY DEF RecordSuccess
  <2> HIDE DEF r, f
  <2> QED
    BY <1>1, <1>2, <1>4, <1>5, <2>1, OneAccount
<1>7. PlacedView[t] # Fleet!Unplaced /\ PlacedView[t].account = a
  BY <1>1, RouterAssumption DEF PlacedView, Fleet!Unplaced, Accounts
<1>8. PlacedView' = [PlacedView EXCEPT ![t] = Fleet!Unplaced]
  BY DEF RecordSuccess, PlacedView, Fleet!Unplaced, Idle, TypeOK
<1> QED
  BY <1>6, <1>7, <1>8 DEF Fleet!Report

LEMMA FailureFleet ==
  ASSUME IInv, IInv', NEW t \in Turns, NEW category \in Categories,
         RecordFailure(t, category)
  PROVE  Fleet!Report(t)
<1> USE DEF IInv
<1> DEFINE a == turns[t].account
<1>1. a \in Accounts /\ now \in Nat /\ now + Window \in Nat /\ now + Window > now
      /\ accounts[a] \in AccountRecord
  BY RouterAssumption DEF RecordFailure, Bookkeeping, TypeOK
<1>2. FleetView \in Fleet!Fleets /\ FleetView[a].enabled = accounts[a].enabled
      /\ FleetView[a].health = Phase(accounts[a], now)
  BY <1>1, ViewType
<1>3. now' = now
  BY DEF RecordFailure
<1>4. PlacedView[t] # Fleet!Unplaced /\ PlacedView[t].account = a
  BY <1>1, RouterAssumption DEF PlacedView, Fleet!Unplaced, Accounts
<1>5. PlacedView' = [PlacedView EXCEPT ![t] = Fleet!Unplaced]
  BY DEF RecordFailure, PlacedView, Fleet!Unplaced, Idle, TypeOK
<1>6. CASE accounts' = [accounts EXCEPT ![a] = Invalidated(@)]
  <2> DEFINE r == Invalidated(accounts[a])
             f == Fleet!Failed(FleetView, a, "AUTH_INVALID")
  <2>1. r \in AccountRecord /\ r.enabled = accounts[a].enabled /\ r.health = "invalid"
    BY <1>1, Writes, WritesService
  <2>2. f \in Fleet!Fleets
    BY <1>1, <1>2, PolicyType
  <2>3. /\ f[a].enabled = r.enabled /\ f[a].health = Phase(r, now)
        /\ \A b \in Accounts \ {a} : f[b] = FleetView[b]
    BY <1>1, <1>2, <2>1 DEF Fleet!Failed, Fleet!Fleets, Phase
  <2>4. accounts' = [accounts EXCEPT ![a] = r]
    BY <1>6
  <2>5. FleetView' = f
    <3> HIDE DEF r, f
    <3> QED
      BY <1>1, <1>3, <2>1, <2>2, <2>3, <2>4, OneAccount
  <2> QED
    BY <1>4, <1>5, <2>5 DEF Fleet!Report
<1>7. CASE accounts' = [accounts EXCEPT ![a] = Cooled(@, now + Window)]
  <2> DEFINE r == Cooled(accounts[a], now + Window)
             f == Fleet!Failed(FleetView, a, "RATE_LIMITED")
  <2>1. /\ r \in AccountRecord /\ r.enabled = accounts[a].enabled
        /\ r.health = "cooldown" /\ r.until = now + Window
    BY <1>1, Writes, StampsService
  <2>2. f \in Fleet!Fleets
    BY <1>1, <1>2, PolicyType
  <2>3. /\ f[a].enabled = r.enabled /\ f[a].health = Phase(r, now)
        /\ \A b \in Accounts \ {a} : f[b] = FleetView[b]
    BY <1>1, <1>2, <2>1 DEF Fleet!Failed, Fleet!Fleets, Phase
  <2>4. accounts' = [accounts EXCEPT ![a] = r]
    BY <1>7
  <2>5. FleetView' = f
    <3> HIDE DEF r, f
    <3> QED
      BY <1>1, <1>3, <2>1, <2>2, <2>3, <2>4, OneAccount
  <2> QED
    BY <1>4, <1>5, <2>5 DEF Fleet!Report
<1>8. CASE accounts' = [accounts EXCEPT ![a] = Counted(@)]
  <2> DEFINE r == Counted(accounts[a])
  <2>1. r \in AccountRecord /\ r.enabled = accounts[a].enabled /\ SameService(r, accounts[a])
    BY <1>1, Writes, WritesService
  <2>2. FleetView[a].enabled = r.enabled /\ FleetView[a].health = Phase(r, now)
    BY <1>2, <2>1 DEF Phase, SameService
  <2>3. accounts' = [accounts EXCEPT ![a] = r]
    BY <1>8
  <2>4. FleetView' = FleetView
    <3> HIDE DEF r
    <3> QED
      BY <1>1, <1>2, <1>3, <2>1, <2>2, <2>3, OneAccount
  <2>5. Fleet!Failed(FleetView, PlacedView[t].account, "OTHER") = FleetView
    BY DEF Fleet!Failed
  <2> QED
    BY <1>4, <1>5, <2>4, <2>5 DEF Fleet!Report
<1> QED
  BY <1>6, <1>7, <1>8 DEF RecordFailure

LEMMA OperatorFleet ==
  ASSUME IInv, IInv', NEW a \in Accounts, Enable(a) \/ Disable(a) \/ Reset(a)
  PROVE  Fleet!Operate(a)
<1> USE DEF IInv
<1>1. now \in Nat /\ accounts[a] \in AccountRecord /\ FleetView \in Fleet!Fleets
      /\ FleetView[a].enabled = accounts[a].enabled
      /\ FleetView[a].health = Phase(accounts[a], now)
  BY ViewType DEF TypeOK
<1>2. now' = now /\ PlacedView' = PlacedView
  BY DEF Enable, Disable, Reset, PlacedView
<1>3. ASSUME NEW on \in BOOLEAN, accounts' = [accounts EXCEPT ![a] = Enabled(@, on)]
      PROVE  FleetView' = Fleet!Switched(FleetView, a, on)
  <2> DEFINE r == Enabled(accounts[a], on)
             f == Fleet!Switched(FleetView, a, on)
  <2>1. r \in AccountRecord /\ r.enabled = on /\ SameService(r, accounts[a])
    BY <1>1, Writes, StampsService
  <2>2. f \in Fleet!Fleets
    BY <1>1, PolicyType
  <2>3. f[a].enabled = on /\ f[a].health = FleetView[a].health
        /\ \A b \in Accounts \ {a} : f[b] = FleetView[b]
    BY <1>1 DEF Fleet!Switched, Fleet!Fleets
  <2>4. f[a].enabled = r.enabled /\ f[a].health = Phase(r, now)
    BY <1>1, <2>1, <2>3 DEF Phase, SameService
  <2>5. accounts' = [accounts EXCEPT ![a] = r]
    BY <1>3
  <2>6. FleetView' = f
    <3> HIDE DEF r, f
    <3> QED
      BY <1>1, <1>2, <2>1, <2>2, <2>3, <2>4, <2>5, OneAccount
  <2> QED
    BY <2>6
<1>4. ASSUME Reset(a) PROVE FleetView' = Fleet!Restored(FleetView, a)
  <2> DEFINE r == Enabled(Cleared(accounts[a]), TRUE)
             f == Fleet!Restored(FleetView, a)
  <2>0. Cleared(accounts[a]) \in AccountRecord /\ Cleared(accounts[a]).health = "healthy"
    BY <1>1, Writes, WritesService
  <2>1. r \in AccountRecord /\ r.enabled = TRUE /\ r.health = "healthy"
    BY <2>0, Writes, StampsService DEF SameService
  <2>2. f \in Fleet!Fleets
    BY <1>1, PolicyType
  <2>3. /\ f[a].enabled = r.enabled /\ f[a].health = Phase(r, now)
        /\ \A b \in Accounts \ {a} : f[b] = FleetView[b]
    BY <1>1, <2>1 DEF Fleet!Restored, Fleet!Fleets, Phase
  <2>4. accounts' = [accounts EXCEPT ![a] = r]
    BY <1>4 DEF Reset
  <2>5. FleetView' = f
    <3> HIDE DEF r, f
    <3> QED
      BY <1>1, <1>2, <2>1, <2>2, <2>3, <2>4, OneAccount
  <2> QED
    BY <2>5
<1>5. CASE Enable(a)
  BY <1>2, <1>3, <1>5 DEF Enable, Fleet!Operate
<1>6. CASE Disable(a)
  BY <1>2, <1>3, <1>6 DEF Disable, Fleet!Operate
<1>7. CASE Reset(a)
  BY <1>2, <1>4, <1>7 DEF Fleet!Operate
<1> QED
  BY <1>5, <1>6, <1>7

LEMMA TickFleet ==
  ASSUME IInv, IInv', Tick, now' >= now
  PROVE  Fleet!Elapse
<1> USE DEF IInv
<1> DEFINE A == {a \in Accounts : /\ Phase(accounts[a], now) = "cooling"
                                  /\ Phase(accounts[a], now') = "healthy"}
           f == Fleet!Elapsed(FleetView, A)
<1>1. now \in Nat /\ now' \in Nat /\ accounts' = accounts /\ turns' = turns
  BY DEF Tick, TypeOK
<1>2. FleetView \in Fleet!Fleets /\ FleetView' \in Fleet!Fleets
  BY ViewType, ViewTypeNext
<1>3. A \in SUBSET {a \in Accounts : FleetView[a].health = "cooling"}
  BY ViewType
<1>4. f \in Fleet!Fleets
  BY <1>2 DEF Fleet!Elapsed, Fleet!Fleets
<1>5. \A a \in Accounts : Phase(accounts[a], now') = IF a \in A THEN "healthy"
                                                     ELSE Phase(accounts[a], now)
  BY <1>1 DEF Phase, TypeOK, AccountRecord
<1>6. \A a \in Accounts : /\ f[a].enabled = FleetView[a].enabled
                          /\ f[a].health = IF a \in A THEN "healthy" ELSE FleetView[a].health
  BY <1>2 DEF Fleet!Elapsed, Fleet!Fleets
<1>7. \A a \in Accounts : /\ FleetView'[a].enabled = f[a].enabled
                          /\ FleetView'[a].health = f[a].health
  BY <1>1, <1>5, <1>6, ViewType, ViewTypeNext
<1>8. FleetView' = f
  <2> HIDE DEF f
  <2> QED
    BY <1>2, <1>4, <1>7, SameFleet
<1>9. PlacedView' = PlacedView
  BY <1>1 DEF PlacedView
<1> QED
  BY <1>3, <1>8, <1>9 DEF Fleet!Elapse

LEMMA StepFleet ==
  IInv /\ IInv' /\ Past /\ [Next]_vars /\ now' >= now
    => [Fleet!Next]_<<FleetView, PlacedView>>
<1> SUFFICES ASSUME IInv, IInv', Past, [Next]_vars, now' >= now
    PROVE  [Fleet!Next]_<<FleetView, PlacedView>>
  OBVIOUS
<1>1. ASSUME NEW t \in Turns, ReadClock(t) \/ SelectNone(t)
      PROVE  UNCHANGED <<FleetView, PlacedView>>
  <2>1. accounts' = accounts /\ now' = now
    BY <1>1 DEF ReadClock, SelectNone
  <2>2. \A u \in Turns : turns'[u].account = turns[u].account /\ turns'[u].new = turns[u].new
    <3>1. CASE ReadClock(t)
      BY <3>1 DEF ReadClock, Idle, IInv, TypeOK, Bookkeeping
    <3>2. CASE SelectNone(t)
      BY <3>2 DEF SelectNone, Idle, IInv, TypeOK, Bookkeeping
    <3> QED
      BY <1>1, <3>1, <3>2
  <2> QED
    BY <2>1, <2>2, FleetUnchanged DEF PlacedView
<1>2. ASSUME NEW t \in Turns, NEW c \in Convs, StickyRefused(t, c) \/ Commit(t, c)
      PROVE  UNCHANGED <<FleetView, PlacedView>>
  <2>1. accounts' = accounts /\ now' = now
    BY <1>2 DEF StickyRefused, Commit
  <2>2. \A u \in Turns : turns'[u].account = turns[u].account /\ turns'[u].new = turns[u].new
    BY <1>2 DEF StickyRefused, Commit, IInv, TypeOK
  <2> QED
    BY <2>1, <2>2, FleetUnchanged DEF PlacedView
<1>3. ASSUME \/ \E c \in Convs : Evict(c)
             \/ UNCHANGED vars
      PROVE  UNCHANGED <<FleetView, PlacedView>>
  BY <1>3 DEF Evict, vars, FleetView, PlacedView
<1> QED
  BY <1>1, <1>2, <1>3, SelectFleet, StickyFleet, SuccessFleet, FailureFleet,
     OperatorFleet, TickFleet DEF Next, TurnStep, Fleet!Next

\* As long as the clock is not set back, the router with its timestamps, lazy
\* promotion and stale clock readings keeps the clock-free promise: at the moment
\* a turn is placed, the fleet would accept it there (accounts.py 203-225).
THEOREM RouterImplementsFleet == SteadySpec => ImplementsFleet
<1>1. Init => Fleet!Init
  BY InitFleet
<1>2. IInv /\ IInv' /\ Past /\ [Next /\ now' >= now]_vars
        => [Fleet!Next]_<<FleetView, PlacedView>>
  <2> SUFFICES ASSUME IInv, IInv', Past, [Next /\ now' >= now]_vars
      PROVE  [Fleet!Next]_<<FleetView, PlacedView>>
    OBVIOUS
  <2>1. [Next]_vars /\ now' >= now
    BY DEF vars, IInv, TypeOK
  <2> QED
    BY <2>1, StepFleet
<1> QED
  BY <1>1, <1>2, SteadyInductive, PTL DEF SteadySpec, ImplementsFleet, Fleet!Spec

=============================================================================
