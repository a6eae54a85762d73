---------------------------- MODULE AccountPolicy ----------------------------
(***************************************************************************)
(* The account policy of app/accounts.py without its clock: who may take a *)
(* NEW backend session, who may keep serving an old one, and what the      *)
(* outcome of a turn and each operator command does to an account.         *)
(*                                                                         *)
(* A cooldown is a timestamp in the code.  Here it is a phase, "cooling",  *)
(* that time turns back into "healthy"; whether the lazy promotion has     *)
(* already rewritten the record makes no difference to anyone's decision.  *)
(***************************************************************************)
CONSTANT Accounts

Fleets == [Accounts -> [enabled : BOOLEAN, health : {"healthy", "cooling", "invalid"}]]

NewFleet == [a \in Accounts |-> [enabled |-> TRUE, health |-> "healthy"]]

\* select_for_new_conversation: who may take a NEW backend session.
Usable(f) == {a \in Accounts : f[a].enabled /\ f[a].health = "healthy"}

\* sticky_account: who may keep serving the session it already has.
MayServe(f, a) == f[a].enabled /\ f[a].health # "invalid"

\* record_success, record_failure, set_enabled, reset.
Succeeded(f, a) == [f EXCEPT ![a].health = "healthy"]

Failed(f, a, category) ==
  CASE category = "AUTH_INVALID" -> [f EXCEPT ![a].health = "invalid"]
    [] category = "RATE_LIMITED" -> [f EXCEPT ![a].health = "cooling"]
    [] OTHER                     -> f

Switched(f, a, on) == [f EXCEPT ![a].enabled = on]

Restored(f, a) == [f EXCEPT ![a] = [enabled |-> TRUE, health |-> "healthy"]]

\* The cooldown windows of the accounts in A have passed.
Elapsed(f, A) ==
  [a \in Accounts |-> IF a \in A THEN [f[a] EXCEPT !.health = "healthy"] ELSE f[a]]
=============================================================================
