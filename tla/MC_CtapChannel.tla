--------------------------- MODULE MC_CtapChannel ---------------------------
(* Small instances of CtapChannel.  The clients are interchangeable, and so *)
(* are the channels.                                                        *)
EXTENDS CtapChannel, TLC

Symmetry == Permutations(Clients) \cup Permutations(Cids)

\* One client opens the token once and sends all the requests it may ...
OneCalls == drawn <= 1

\* ... or clients contend for it, as FIDO2 devices, and send two at most.
SeveralOpen ==
  \A c \in Clients : sent[c] <= 2 /\ (cid[c] # Broadcast => fido2[c])

MCNext == Next /\ (OneCalls \/ SeveralOpen)'

MCSpec == Init /\ [][MCNext]_vars
=============================================================================
