--------------------------- MODULE HidOpen_proofs ---------------------------
(***************************************************************************)
(* Proofs about HidOpen, for any number of processes, of sessions and of   *)
(* retries.  The invariants of the runs are not inductive: that a token    *)
(* has one owner rests on the lock following the owner, and that a handle  *)
(* is free of awaited reports rests on what an fd can have collected while *)
(* its process is still in the loop.                                       *)
(***************************************************************************)
EXTENDS HidOpen, TLAPS

\* A process that got the lock holds it until it closes its descriptor.
LockFollows ==
  \A p \in Procs : pc[p] \in {"using", "reopen"} => lock = p

\* What is true of the descriptor and the locals at each place.
AtPlace ==
  \A p \in Procs :
    /\ pc[p] \in {"flock", "pause", "reopen", "using"} => fd[p]
    /\ pc[p] = "open" => ~fd[p] /\ queue[p] = {}
    /\ pc[p] = "pause" => looped[p]
    /\ pc[p] \in Opening => retries[p] <= MaxRetries
    /\ pc[p] = "using" => session[p] \in Sessions

\* The descriptor was opened after every session the process waited for.
Fresh(p) == pc[p] \in {"open", "using"} \/ (pc[p] = "flock" /\ ~looped[p])

NothingAwaited ==
  \A p \in Procs : Fresh(p) =>
    /\ queue[p] \cap met[p] = {}
    /\ \A q \in Procs : pc[q] = "using" => session[q] \notin met[p]

IInv == TypeOK /\ NoLeak /\ LockFollows /\ AtPlace /\ NothingAwaited

LEMMA InitIInv == Init => IInv
BY HidOpenAssumption
   DEF Init, IInv, TypeOK, NoLeak, LockFollows, AtPlace, NothingAwaited, Fresh,
       Opening

LEMMA NextTypeOK == IInv /\ [Next]_vars => TypeOK'
<1> SUFFICES ASSUME IInv, [Next]_vars PROVE TypeOK'
  OBVIOUS
<1> USE HidOpenAssumption DEF IInv, TypeOK, Opening, Goto, CloseFd, Fails, GivesUp
<1>1. ASSUME NEW p \in Procs, Call(p) PROVE TypeOK'
  BY <1>1 DEF Call
<1>2. ASSUME NEW p \in Procs, Open(p) PROVE TypeOK'
  BY <1>2 DEF Open
<1>3. ASSUME NEW p \in Procs, FlockOwns(p) PROVE TypeOK'
  BY <1>3 DEF FlockOwns
<1>4. ASSUME NEW p \in Procs, FlockLate(p) PROVE TypeOK'
  BY <1>4 DEF FlockLate
<1>5. ASSUME NEW p \in Procs, Reopen(p) PROVE TypeOK'
  BY <1>5 DEF Reopen
<1>6. ASSUME NEW p \in Procs, FlockBusy(p) PROVE TypeOK'
  <2>1. retries[p] <= MaxRetries
    BY <1>6 DEF FlockBusy, AtPlace
  <2>2. met[p] \cup ({session[lock]} \ {NoOne}) \subseteq Sessions
    BY <1>6 DEF FlockBusy
  <2>3. CASE retries[p] >= MaxRetries
    <3>1. /\ pc' = [pc EXCEPT ![p] = "idle"]
          /\ fd' = [fd EXCEPT ![p] = FALSE]
          /\ queue' = [queue EXCEPT ![p] = {}]
          /\ lock' \in {lock, NoOne}
          /\ retries' = [retries EXCEPT ![p] = @ + 1]
          /\ UNCHANGED <<looped, session, met>>
      BY <1>6, <2>3 DEF FlockBusy
    <3>2. retries' \in [Procs -> 0 .. MaxRetries + 1]
      BY <2>1, <3>1
    <3>3. QED
      BY <3>1, <3>2
  <2>4. CASE ~(retries[p] >= MaxRetries)
    <3>1. /\ looped' = [looped EXCEPT ![p] = TRUE]
          /\ met' = [met EXCEPT ![p] = @ \cup ({session[lock]} \ {NoOne})]
          /\ pc' = [pc EXCEPT ![p] = "pause"]
          /\ retries' = [retries EXCEPT ![p] = @ + 1]
          /\ UNCHANGED <<fd, lock, session, queue>>
      BY <1>6, <2>4 DEF FlockBusy
    <3>2. met' \in [Procs -> SUBSET Sessions]
      BY <3>1, <2>2
    <3>3. QED
      BY <2>1, <3>1, <3>2
  <2>5. QED
    BY <2>3, <2>4
<1>7. ASSUME NEW p \in Procs, Wake(p) PROVE TypeOK'
  BY <1>7 DEF Wake
<1>8. ASSUME NEW p \in Procs, Interrupted(p) \/ Dies(p) PROVE TypeOK'
  BY <1>8 DEF Interrupted, Dies
<1>9. ASSUME NEW p \in Procs, Close(p) PROVE TypeOK'
  BY <1>9 DEF Close
<1>10. ASSUME NEW p \in Procs, Report(p) PROVE TypeOK'
  <2>1. session[p] \in Sessions
    BY <1>10 DEF Report, AtPlace
  <2>2. QED
    BY <1>10, <2>1 DEF Report
<1>11. CASE UNCHANGED vars
  BY <1>11 DEF vars
<1>12. QED
  BY <1>1, <1>2, <1>3, <1>4, <1>5, <1>6, <1>7, <1>8, <1>9, <1>10, <1>11
     DEF Next, OpenStep

\* The lock, the descriptors and the local variables.
LEMMA NextPlaces == IInv /\ [Next]_vars => (NoLeak /\ LockFollows /\ AtPlace)'
<1> DEFINE Places == NoLeak /\ LockFollows /\ AtPlace
<1> SUFFICES ASSUME IInv, [Next]_vars PROVE Places'
  OBVIOUS
<1> USE HidOpenAssumption
    DEF IInv, TypeOK, Opening, Goto, CloseFd, Fails, GivesUp, NoLeak, LockFollows,
        AtPlace
<1>1. ASSUME NEW p \in Procs, Call(p) PROVE Places'
  BY <1>1 DEF Call
<1>2. ASSUME NEW p \in Procs, Open(p) PROVE Places'
  BY <1>2 DEF Open
<1>3. ASSUME NEW p \in Procs, FlockOwns(p) PROVE Places'
  BY <1>3 DEF FlockOwns
<1>4. ASSUME NEW p \in Procs, FlockLate(p) PROVE Places'
  BY <1>4 DEF FlockLate
<1>5. ASSUME NEW p \in Procs, Reopen(p) PROVE Places'
  BY <1>5 DEF Reopen
<1>6. ASSUME NEW p \in Procs, FlockBusy(p) PROVE Places'
  BY <1>6 DEF FlockBusy
<1>7. ASSUME NEW p \in Procs, Wake(p) PROVE Places'
  BY <1>7 DEF Wake
<1>8. ASSUME NEW p \in Procs, Interrupted(p) \/ Dies(p) PROVE Places'
  BY <1>8 DEF Interrupted, Dies
<1>9. ASSUME NEW p \in Procs, Close(p) PROVE Places'
  BY <1>9 DEF Close
<1>10. ASSUME NEW p \in Procs, Report(p) PROVE Places'
  BY <1>10 DEF Report
<1>11. CASE UNCHANGED vars
  BY <1>11 DEF vars
<1>12. QED
  BY <1>1, <1>2, <1>3, <1>4, <1>5, <1>6, <1>7, <1>8, <1>9, <1>10, <1>11
     DEF Next, OpenStep

\* What the descriptor of a process that is past the wait can hold.
LEMMA NextNothingAwaited == IInv /\ [Next]_vars => NothingAwaited'
<1> SUFFICES ASSUME IInv, [Next]_vars PROVE NothingAwaited'
  OBVIOUS
<1> USE HidOpenAssumption
    DEF IInv, TypeOK, Opening, Goto, CloseFd, Fails, GivesUp, AtPlace, LockFollows,
        NothingAwaited, Fresh
<1>1. ASSUME NEW p \in Procs, Call(p) PROVE NothingAwaited'
  BY <1>1 DEF Call, NoLeak
<1>2. ASSUME NEW p \in Procs, Open(p) PROVE NothingAwaited'
  BY <1>2 DEF Open
<1>3. ASSUME NEW p \in Procs, FlockOwns(p) PROVE NothingAwaited'
  BY <1>3 DEF FlockOwns
<1>4. ASSUME NEW p \in Procs, FlockLate(p) PROVE NothingAwaited'
  BY <1>4 DEF FlockLate
<1>5. ASSUME NEW p \in Procs, Reopen(p) PROVE NothingAwaited'
  \* The lock is the waiting process's own, so nobody uses the token.
  BY <1>5 DEF Reopen
<1>6. ASSUME NEW p \in Procs, FlockBusy(p) PROVE NothingAwaited'
  BY <1>6 DEF FlockBusy
<1>7. ASSUME NEW p \in Procs, Wake(p) PROVE NothingAwaited'
  BY <1>7 DEF Wake
<1>8. ASSUME NEW p \in Procs, Interrupted(p) \/ Dies(p) PROVE NothingAwaited'
  BY <1>8 DEF Interrupted, Dies
<1>9. ASSUME NEW p \in Procs, Close(p) PROVE NothingAwaited'
  BY <1>9 DEF Close
<1>10. ASSUME NEW p \in Procs, Report(p) PROVE NothingAwaited'
  BY <1>10 DEF Report
<1>11. CASE UNCHANGED vars
  BY <1>11 DEF vars
<1>12. QED
  BY <1>1, <1>2, <1>3, <1>4, <1>5, <1>6, <1>7, <1>8, <1>9, <1>10, <1>11
     DEF Next, OpenStep

THEOREM Invariance == Spec => []IInv
<1>1. IInv /\ [Next]_vars => IInv'
  BY NextTypeOK, NextPlaces, NextNothingAwaited DEF IInv
<1>2. QED
  BY InitIInv, <1>1, PTL DEF Spec

\* The variables keep their types: retries stays within its bound.
THEOREM TypeCorrect == Spec => []TypeOK
<1>1. IInv => TypeOK
  BY DEF IInv
<1>2. QED
  BY Invariance, <1>1, PTL

\* At any time at most one process uses the token, whoever crashes or fails
\* to open it.
THEOREM OneOwnerAlways == Spec => []OneOwner
<1>1. IInv => OneOwner
  BY DEF IInv, LockFollows, OneOwner
<1>2. QED
  BY Invariance, <1>1, PTL

\* A handle returned after a wait holds no report of the sessions waited for.
THEOREM NothingOfTheAwaitedAlways == Spec => []NothingOfTheAwaited
<1>1. IInv => NothingOfTheAwaited
  BY DEF IInv, NothingAwaited, Fresh, NothingOfTheAwaited
<1>2. QED
  BY Invariance, <1>1, PTL

\* Failed calls and dead processes leave neither a descriptor nor the lock.
THEOREM NoLeakAlways == Spec => []NoLeak
<1>1. IInv => NoLeak
  BY DEF IInv
<1>2. QED
  BY Invariance, <1>1, PTL
=============================================================================
