------------------------------ MODULE MCCalls ------------------------------
(* An instance of Calls for TLC: three attempts for a ledger of two, one of   *)
(* them used for two different requests, one creating a set; an enablement    *)
(* and a withdrawal may find themselves in force.                             *)
EXTENDS Calls

Mutation(attempt, payload, sets, kind) ==
  [attempt |-> attempt, payload |-> payload, locks |-> sets, kind |-> kind]

Few ==
  {Mutation(2, "update one", {"one"}, "change"), Mutation(3, "enable one", {"one"}, "enable"),
   Mutation(2, "withdraw two", {"two"}, "lifecycle"), Mutation(1, "create", {"one", "two"}, "change")}
=============================================================================
