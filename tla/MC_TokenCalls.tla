--------------------------- MODULE MC_TokenCalls ---------------------------
(* Two clients; two relying parties, one of them with two credentials.  A   *)
(* behaviour reads two kinds of lists, or one while credentials change, or  *)
(* it is about enrollment or the PIN.                                       *)
EXTENDS TokenCalls, TLC

CONSTANTS a1, a2, b1, ra, rb

MCRpOf == a1 :> ra @@ a2 :> ra @@ b1 :> rb

MCKinds == {[perms |-> TRUE, final |-> TRUE], [perms |-> FALSE, final |-> FALSE]}

MCTopics ==
  {{"rk", "rp"}, {"rp", "assert"}, {"rk", "del_rk"}, {"rk", "make_cred"},
   {"template_array", "enroll_begin", "enroll_continue", "enroll_cancel", "enroll_remove", "reset"},
   {"set_pin", "change_pin", "retries", "reset", "config", "metadata"}}

Symmetry == Permutations(Clients) \cup Permutations(Pins) \cup Permutations({a1, a2})
=============================================================================
