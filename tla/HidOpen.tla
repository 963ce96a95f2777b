------------------------------ MODULE HidOpen ------------------------------
(***************************************************************************)
(* Processes sharing one hidraw node: fido_hid_open, fido_hid_close of     *)
(* src/src/hid_linux.c.                                                    *)
(*                                                                         *)
(* The kernel copies every input report to every open descriptor of the    *)
(* node, whoever asked for it.  fido_hid_open therefore serialises the     *)
(* owners of a token with flock(2), and a process that had to wait for the *)
(* lock throws its descriptor away, with the reports of the previous owner *)
(* that it has collected, and opens the node again.                        *)
(*                                                                         *)
(* A session is the time a process owns the token.  Reports are told apart *)
(* by the session in which they were sent.                                 *)
(***************************************************************************)
EXTENDS Naturals, FiniteSets

CONSTANTS
  Procs,        \* processes that open the node
  Sessions,     \* labels of sessions
  MaxRetries,   \* failed flocks fido_hid_open puts up with (20)
  NoOne         \* no process, no session

ASSUME HidOpenAssumption ==
  /\ MaxRetries \in Nat
  /\ NoOne \notin Procs \cup Sessions

VARIABLES
  pc,        \* where a process is in fido_hid_open; "using" once it has returned
  fd,        \* it has a descriptor of the node open
  lock,      \* the process whose descriptor holds the lock
  looped,    \* local variables of fido_hid_open
  retries,
  session,   \* the session of a process that uses the token
  queue,     \* sessions of which reports are queued on the descriptor
  met        \* sessions that kept the process waiting in this call

vars == <<pc, fd, lock, looped, retries, session, queue, met>>

Opening == {"open", "flock", "pause", "reopen"}

Goto(p, to) == pc' = [pc EXCEPT ![p] = to]

Init ==
  /\ pc = [p \in Procs |-> "idle"] /\ fd = [p \in Procs |-> FALSE]
  /\ lock = NoOne
  /\ looped = [p \in Procs |-> FALSE] /\ retries = [p \in Procs |-> 0]
  /\ session = [p \in Procs |-> NoOne]
  /\ queue = [p \in Procs |-> {}] /\ met = [p \in Procs |-> {}]

\* close(2): the reports queued on the descriptor are gone, and so is the lock.
\* Faulty variant: it releases the lock whoever holds it, as a lock of the
\* process (fcntl(2)) or of the file would.
CloseFd_FreesAnyLock(p) ==
  /\ fd' = [fd EXCEPT ![p] = FALSE]
  /\ queue' = [queue EXCEPT ![p] = {}]
  /\ lock' = NoOne

CloseFd(p) ==
  /\ fd' = [fd EXCEPT ![p] = FALSE]
  /\ queue' = [queue EXCEPT ![p] = {}]
  /\ lock' = IF lock = p THEN NoOne ELSE lock

\* fido_hid_open returns NULL, having closed what it opened.
\* Faulty variant: the descriptor stays open.
Fails_LeavesFd(p) ==
  /\ Goto(p, "idle")
  /\ UNCHANGED <<fd, queue, lock, looped, session, met>>

Fails(p) ==
  /\ Goto(p, "idle") /\ CloseFd(p)
  /\ UNCHANGED <<looped, session, met>>
-----------------------------------------------------------------------------
Call(p) ==
  /\ pc[p] = "idle"
  /\ Goto(p, "open")
  /\ retries' = [retries EXCEPT ![p] = 0]
  /\ met' = [met EXCEPT ![p] = {}]
  /\ UNCHANGED <<fd, lock, looped, session, queue>>

\* Faulty variant of Open: the retries start anew with every open.
Open_ResetsRetries(p) ==
  /\ pc[p] = "open"
  /\ looped' = [looped EXCEPT ![p] = FALSE]
  /\ retries' = [retries EXCEPT ![p] = 0]
  /\ Goto(p, "flock") /\ fd' = [fd EXCEPT ![p] = TRUE]
  /\ UNCHANGED <<lock, session, queue, met>>

\* The label "retry": open(2) may fail, as the token may have been unplugged.
Open(p) ==
  /\ pc[p] = "open"
  /\ looped' = [looped EXCEPT ![p] = FALSE]
  /\ \/ Goto(p, "flock") /\ fd' = [fd EXCEPT ![p] = TRUE]
     \/ Goto(p, "idle") /\ UNCHANGED fd
  /\ UNCHANGED <<lock, retries, session, queue, met>>

\* Faulty variant: a descriptor that waited for the lock is kept.
FlockOwns_KeepsOldFd(p) ==
  /\ pc[p] = "flock" /\ lock = NoOne
  /\ lock' = p /\ Goto(p, "using")
  /\ \E s \in Sessions :
       /\ session' = [session EXCEPT ![p] = s]
       /\ queue' = [q \in Procs |-> queue[q] \ {s}]
       /\ met' = [q \in Procs |-> met[q] \ {s}]
  /\ UNCHANGED <<fd, looped, retries>>

\* flock succeeds at once: the process owns the token.  Its session takes some
\* label, and is not confused with an earlier one that had it: the model forgets
\* which reports were of that one, and keeps those of all others.
FlockOwns(p) ==
  /\ pc[p] = "flock" /\ lock = NoOne /\ ~looped[p]
  /\ lock' = p /\ Goto(p, "using")
  /\ \E s \in Sessions :
       /\ session' = [session EXCEPT ![p] = s]
       /\ queue' = [q \in Procs |-> queue[q] \ {s}]
       /\ met' = [q \in Procs |-> met[q] \ {s}]
  /\ UNCHANGED <<fd, looped, retries>>

\* flock succeeds after a wait: the descriptor may hold reports that were
\* meant for the previous owner.
FlockLate(p) ==
  /\ pc[p] = "flock" /\ lock = NoOne /\ looped[p]
  /\ lock' = p /\ Goto(p, "reopen")
  /\ UNCHANGED <<fd, looped, retries, session, queue, met>>

Reopen(p) ==
  /\ pc[p] = "reopen"
  /\ Goto(p, "open") /\ CloseFd(p)
  /\ UNCHANGED <<looped, retries, session, met>>

\* The test of retries.  Faulty variant: off by one.
GivesUp_Late(n) == n > MaxRetries

GivesUp(n) == n >= MaxRetries

\* EWOULDBLOCK.  retries is not reset when the node is opened again.
FlockBusy(p) ==
  /\ pc[p] = "flock" /\ lock # NoOne
  /\ retries' = [retries EXCEPT ![p] = @ + 1]
  /\ IF GivesUp(retries[p])
     THEN Fails(p)
     ELSE /\ looped' = [looped EXCEPT ![p] = TRUE]
          /\ met' = [met EXCEPT ![p] = @ \cup ({session[lock]} \ {NoOne})]
          /\ Goto(p, "pause")
          /\ UNCHANGED <<fd, lock, session, queue>>

\* Another error of flock, or a nanosleep that a signal interrupted.
Interrupted(p) ==
  /\ pc[p] \in {"flock", "pause"}
  /\ Fails(p) /\ UNCHANGED retries

Wake(p) ==
  /\ pc[p] = "pause"
  /\ Goto(p, "flock")
  /\ UNCHANGED <<fd, lock, looped, retries, session, queue, met>>

\* fido_hid_close by the owner; or the owner dies, and the kernel closes.
Close(p) ==
  /\ pc[p] = "using"
  /\ Goto(p, "idle") /\ CloseFd(p)
  /\ session' = [session EXCEPT ![p] = NoOne]
  /\ UNCHANGED <<looped, retries, met>>

\* A process dies while it waits.
Dies(p) ==
  /\ pc[p] \in Opening
  /\ Fails(p) /\ UNCHANGED retries

\* The token answers its owner: every open descriptor gets the report.
Report(p) ==
  /\ pc[p] = "using"
  /\ queue' = [q \in Procs |-> IF fd[q] THEN queue[q] \cup {session[p]}
                                        ELSE queue[q]]
  /\ UNCHANGED <<pc, fd, lock, looped, retries, session, met>>

OpenStep(p) == \/ Open(p) \/ FlockOwns(p) \/ FlockLate(p) \/ Reopen(p)
               \/ FlockBusy(p) \/ Wake(p)

Next == \E p \in Procs : \/ Call(p) \/ OpenStep(p) \/ Interrupted(p)
                         \/ Close(p) \/ Dies(p) \/ Report(p)

Spec == Init /\ [][Next]_vars

\* A process that has called fido_hid_open is scheduled, and its sleeps end.
\* No owner is assumed ever to close the token.
FairSpec == Spec /\ \A p \in Procs : WF_vars(OpenStep(p))
-----------------------------------------------------------------------------
TypeOK ==
  /\ pc \in [Procs -> {"idle", "using"} \cup Opening]
  /\ fd \in [Procs -> BOOLEAN]
  /\ lock \in Procs \cup {NoOne}
  /\ looped \in [Procs -> BOOLEAN]
  /\ retries \in [Procs -> 0 .. MaxRetries + 1]
  /\ session \in [Procs -> Sessions \cup {NoOne}]
  /\ queue \in [Procs -> SUBSET Sessions]
  /\ met \in [Procs -> SUBSET Sessions]

\* A token has at most one owner at any time.
OneOwner == \A p, q \in Procs : pc[p] = "using" /\ pc[q] = "using" => p = q

\* A handle that fido_hid_open returned after waiting holds no report of any
\* session it waited for: those were on a descriptor it has closed since.
\* (Reports of a session that ended between its open and its first flock may
\* be there; fido_dev_open's nonce tells them apart.)
NothingOfTheAwaited ==
  \A p \in Procs : pc[p] = "using" => queue[p] \cap met[p] = {}

\* A call that failed, and a process that died, leave no descriptor open and
\* no lock behind; the lock is held by a process that still has to release it.
NoLeak ==
  /\ \A p \in Procs : pc[p] = "idle" => ~fd[p] /\ queue[p] = {}
  /\ lock # NoOne => pc[lock] \in {"using", "reopen"} /\ fd[lock]

\* fido_hid_open returns, with a handle or without, even if the token never
\* becomes free and others take it first again and again.
OpenReturns == \A p \in Procs : pc[p] \in Opening ~> pc[p] \notin Opening
=============================================================================
