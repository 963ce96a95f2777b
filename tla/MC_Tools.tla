------------------------------- MODULE MC_Tools -------------------------------
(* fido2-token: what its runs do to a token (Tools), or how the token is found *)
(* (DeviceList).  The two share nothing; part says which is under way.         *)
EXTENDS Tools, DeviceList, TLC

VARIABLE part

\* The side that is not used keeps one initial state.
MCInit ==
  /\ Init /\ ListInit
  /\ \/ part = "run" /\ sys = (CHOOSE s \in Systems : TRUE)
     \/ part = "list" /\ token.pin = None /\ ~token.uv /\ ~token.always /\ ~shared

MCNext ==
  /\ \/ part = "run" /\ Next /\ UNCHANGED listVars
     \/ part = "list" /\ ListNext /\ UNCHANGED vars
  /\ UNCHANGED part

MCSpec == MCInit /\ [][MCNext]_<<part, vars, listVars>>

Swaps ==
  {f @@ g @@ h : f \in Permutations(Procs), g \in Permutations(Pins), h \in Permutations(Tokens)}
=============================================================================
