----------------------------- MODULE HidMessage -----------------------------
(***************************************************************************)
(* What the message layer promises the commands built on it, with no       *)
(* reports in sight: a command ends by delivering one reply, or by failing.*)
(* Replies are delivered whole, in the order they were made and each at    *)
(* most once.  A reply that comes after its command has failed may be      *)
(* delivered to a later command: CTAPHID numbers no transactions, and      *)
(* fido_rx takes the first message of the channel (io.c:198-225).          *)
(***************************************************************************)
EXTENDS Naturals

CONSTANT MaxCmds   \* bound: commands issued

VARIABLES
  cur,       \* the command being executed, 0 before the first
  busy,      \* it has not returned
  made,      \* commands the authenticator has replied to
  pending,   \* those whose reply is neither delivered nor lost
  got        \* command whose reply the last command delivered, or 0

vars == <<cur, busy, made, pending, got>>

Init == cur = 0 /\ busy = FALSE /\ made = {} /\ pending = {} /\ got = 0

\* A request that is too long is refused at once.
Start ==
  /\ ~busy /\ cur < MaxCmds
  /\ cur' = cur + 1 /\ busy' \in BOOLEAN /\ got' = 0
  /\ UNCHANGED <<made, pending>>

\* Requests are answered in the order they came; some never are.
Answer(k) ==
  /\ \A j \in made : j < k
  /\ made' = made \cup {k} /\ pending' = pending \cup {k}
  /\ UNCHANGED <<cur, busy, got>>

Deliver(k) ==
  /\ busy /\ \A j \in pending : k <= j
  /\ got' = k /\ busy' = FALSE /\ pending' = pending \ {k}
  /\ UNCHANGED <<cur, made>>

\* A command that fails may have read part of a reply, and may have taken the
\* first report of the next one for a report missing from it.
Fail ==
  /\ busy /\ busy' = FALSE /\ got' = 0
  /\ \/ UNCHANGED pending
     \/ \E j, k \in pending : pending' = pending \ {j, k}
  /\ UNCHANGED <<cur, made>>

Lose(k) ==
  /\ pending' = pending \ {k}
  /\ UNCHANGED <<cur, busy, made, got>>

Next == \/ Start \/ Fail
        \/ \E k \in 1 .. cur : Answer(k)
        \/ \E k \in pending : Deliver(k) \/ Lose(k)

Spec == Init /\ [][Next]_vars

\* Every reply outstanding or delivered is one the authenticator made, to a
\* command that had been issued.
NoReplyFromNowhere ==
  /\ pending \subseteq made /\ made \subseteq 1 .. cur
  /\ got \in made \cup {0} /\ got \notin pending
=============================================================================
