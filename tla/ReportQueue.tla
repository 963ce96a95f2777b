---------------------------- MODULE ReportQueue ----------------------------
(***************************************************************************)
(* What io.c expects of the functions that read and write reports: a queue *)
(* of the input reports since the open, from which some may be lost, but   *)
(* which never changes their order, repeats one, or keeps one for the next *)
(* open.                                                                   *)
(***************************************************************************)
EXTENDS Naturals, Sequences

CONSTANT None

VARIABLES
  queue,   \* reports that have arrived and have not been read
  came,    \* number of reports that have ever arrived
  out      \* the report the last read returned, or None if it returned none

vars == <<queue, came, out>>

Init == queue = <<>> /\ came = 0 /\ out = None

Arrive ==
  /\ came' = came + 1 /\ UNCHANGED out
  /\ queue' \in {queue, Append(queue, came')}

\* One of the reports is lost.
Lose ==
  /\ \E i \in 1 .. Len(queue) :
       queue' = SubSeq(queue, 1, i - 1) \o SubSeq(queue, i + 1, Len(queue))
  /\ UNCHANGED came /\ out' \in {out, None}

Read == /\ queue # <<>> /\ queue' = Tail(queue) /\ out' = Head(queue)
        /\ UNCHANGED came

ReadFails == out' = None /\ UNCHANGED <<queue, came>>

\* A handle is opened or closed.
Empty == queue' = <<>> /\ out' = None /\ UNCHANGED came

Next == Arrive \/ Lose \/ Read \/ ReadFails \/ Empty

Spec == Init /\ [][Next]_vars
=============================================================================
