----------------------------- MODULE Lifecycle -----------------------------
(***************************************************************************)
(* The lifecycle of a weighted path set: its states, the events requested  *)
(* by callers or derived from evaluation, and the one transition table.    *)
(***************************************************************************)

\* States in which a set accepts policy mutations (check_mutable_lifecycle).
Mutable == {"Declared", "Active", "Degraded", "RevalidationRequired"}

\* States a publisher's request moved the set to; evaluation never leaves them.
Closed == {"Withdrawing", "Withdrawn", "Revoked", "Superseded", "Retired"}

Lifecycles == Mutable \cup Closed

Events == {"Activate", "Degrade", "RequireRevalidation", "BeginWithdraw",
           "CompleteWithdraw", "Revoke", "Supersede", "Retire"}

\* The target of each event that has one target whatever state it leaves.
EventTarget == [Activate            |-> "Active",
                Degrade             |-> "Degraded",
                RequireRevalidation |-> "RevalidationRequired",
                BeginWithdraw       |-> "Withdrawing",
                CompleteWithdraw    |-> "Withdrawn",
                Revoke              |-> "Revoked",
                Supersede           |-> "Superseded",
                Retire              |-> "Retired"]

\* The events each state accepts: the rows of kTable.
AcceptedEvents(state) ==
  CASE state \in Mutable        -> Events \ {"CompleteWithdraw"}
    [] state = "Withdrawing"    -> {"BeginWithdraw", "CompleteWithdraw", "Revoke",
                                    "Supersede", "Retire"}
    [] state = "Withdrawn"      -> {"Revoke", "Supersede", "Retire"}
    [] state \in {"Revoked", "Superseded"} -> {"Retire"}
    [] state = "Retired"        -> {}

\* evaluate_transition: is the event accepted, and where does it lead.
Allowed(state, event) == event \in AcceptedEvents(state)
Transition(state, event) == EventTarget[event]
=============================================================================
