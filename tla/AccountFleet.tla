---------------------------- MODULE AccountFleet ----------------------------
(***************************************************************************)
(* What the account router promises to the requests it serves, without its *)
(* clock: who may take a NEW backend session, who may keep serving an old  *)
(* one, and what the outcome of a turn and each operator command does to   *)
(* an account.                                                             *)
(*                                                                         *)
(* AccountRouter, which has the timestamps, the lazy promotion and the     *)
(* stale clock reading, implements this specification.  Gateway is built   *)
(* from the same operators (AccountPolicy).                                *)
(***************************************************************************)
EXTENDS AccountPolicy

CONSTANTS Turns, NoAccount

VARIABLES
  fleet,   \* operator flag and health of each account
  placed   \* the account each request thread was given, and how

-----------------------------------------------------------------------------
Unplaced == [account |-> NoAccount, new |-> FALSE]

Init ==
  /\ fleet = NewFleet
  /\ placed = [t \in Turns |-> Unplaced]

PlaceNew(t) ==
  /\ placed[t] = Unplaced
  /\ \E a \in Usable(fleet) :
       placed' = [placed EXCEPT ![t] = [account |-> a, new |-> TRUE]]
  /\ UNCHANGED fleet

PlaceSticky(t) ==
  /\ placed[t] = Unplaced
  /\ \E a \in Accounts :
       /\ MayServe(fleet, a)
       /\ placed' = [placed EXCEPT ![t] = [account |-> a, new |-> FALSE]]
  /\ UNCHANGED fleet

Report(t) ==
  /\ placed[t] # Unplaced
  /\ \/ fleet' = Succeeded(fleet, placed[t].account)
     \/ \E category \in {"AUTH_INVALID", "RATE_LIMITED", "OTHER"} :
          fleet' = Failed(fleet, placed[t].account, category)
  /\ placed' = [placed EXCEPT ![t] = Unplaced]

Operate(a) ==
  /\ \/ \E on \in BOOLEAN : fleet' = Switched(fleet, a, on)
     \/ fleet' = Restored(fleet, a)
  /\ UNCHANGED placed

Elapse ==
  /\ \E A \in SUBSET {a \in Accounts : fleet[a].health = "cooling"} :
       fleet' = Elapsed(fleet, A)
  /\ UNCHANGED placed

Next ==
  \/ \E t \in Turns : PlaceNew(t) \/ PlaceSticky(t) \/ Report(t)
  \/ \E a \in Accounts : Operate(a)
  \/ Elapse

Spec == Init /\ [][Next]_<<fleet, placed>>
=============================================================================
