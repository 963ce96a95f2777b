----------------------------- MODULE NfcTarget -----------------------------
(***************************************************************************)
(* fido_nfc_open on Linux: netlink.c powers a reader, lets it poll, waits  *)
(* for the event that it has found a target, and asks which; the target is *)
(* then connected to.  A netlink socket queues what the kernel sends: the  *)
(* answers to the requests made on it and, while it is a member of their   *)
(* group, events of every reader.  Nothing in a message says which request *)
(* it answers.                                                             *)
(***************************************************************************)
EXTENDS Naturals, Sequences

CONSTANTS
  Openers,      \* processes, each opening a reader at a time
  Devs,         \* NFC readers
  MaxTargets,   \* bound: targets found
  MaxEvents,    \* bound: events in a socket's queue
  NoOne

\* What the values of the constants have to be.
ASSUME NfcTargetAssumption ==
  {MaxTargets, MaxEvents} \subseteq Nat /\ NoOne \notin Openers /\ Devs # {}

VARIABLES
  open,      \* of each opener: where fido_nfc_open is, and its struct nfc_linux
  seen,      \* history: targets found on the reader since the opener's poll began
  up,        \* kernel: readers with power
  poller,    \* kernel: who has a reader poll, or NoOne
  targets,   \* kernel: targets of a reader
  active,    \* kernel: who is connected to a target of a reader, or NoOne
  found      \* counter for MaxTargets; a target has the number of those before

targetVars == <<open, seen, up, poller, targets, active, found>>

\* Stages are "idle", "family", "power", "poll", "join", "wait", "leave", "dump", "connect"
\* and "open"; sent says that the request of the stage was written.  A context
\* comes from calloc.
NoContext(d) == [stage |-> "idle", sent |-> FALSE, dev |-> d, member |-> FALSE, queue |-> <<>>,
                 eventcnt |-> 0, target |-> 0]

Message(kind, dev, value) == [kind |-> kind, dev |-> dev, value |-> value]
ErrorMessage(error) == Message("error", NoOne, error)

TargetInit ==
  /\ open = [p \in Openers |-> NoContext(CHOOSE d \in Devs : TRUE)]
  /\ seen = [p \in Openers |-> {}]
  /\ up = {} /\ found = 0
  /\ poller = [d \in Devs |-> NoOne] /\ targets = [d \in Devs |-> {}] /\ active = [d \in Devs |-> NoOne]

-----------------------------------------------------------------------------
(* The kernel.                                                             *)

kernelVars == <<up, poller, targets, active, found>>

\* os, with a message to each member of the group.
Multicast(os, m) ==
  [p \in Openers |-> IF os[p].member /\ Len(os[p].queue) < MaxEvents
                     THEN [os[p] EXCEPT !.queue = Append(@, m)] ELSE os[p]]

\* A reader finds targets, and no longer knows those it had; or it loses its own.
TargetsFound(d) ==
  /\ poller[d] # NoOne /\ found < MaxTargets
  /\ found' = found + 1
  /\ targets' = [targets EXCEPT ![d] = {found}]
  /\ poller' = [poller EXCEPT ![d] = NoOne] /\ active' = [active EXCEPT ![d] = NoOne]
  /\ seen' = [p \in Openers |-> IF open[p].dev = d THEN seen[p] \cup {found} ELSE seen[p]]
  /\ open' = Multicast(open, Message("TARGETS_FOUND", d, 0))
  /\ UNCHANGED up

TargetLost(d) ==
  /\ targets[d] # {}
  /\ targets' = [targets EXCEPT ![d] = {}] /\ active' = [active EXCEPT ![d] = NoOne]
  /\ open' = Multicast(open, Message("TARGET_LOST", d, 0))
  /\ UNCHANGED <<seen, up, poller, found>>

\* What becomes of the kernel when p's sockets are closed.
Released(f, p) == [d \in Devs |-> IF f[d] = p THEN NoOne ELSE f[d]]

-----------------------------------------------------------------------------
(* The host.                                                               *)

\* fido_nfc_open fails, or fido_nfc_close: nfc_free closes both sockets.
NfcFree(p) ==
  /\ open' = [open EXCEPT ![p] = NoContext(open[p].dev)]
  /\ seen' = [seen EXCEPT ![p] = {}]
  /\ poller' = Released(poller, p) /\ active' = Released(active, p)
  /\ UNCHANGED <<up, targets, found>>

GoesOn(p, c) == open' = [open EXCEPT ![p] = c]

\* fido_nl_new: a socket, and the request for the number of the family and of its
\* group of events; a kernel without NFC has none.
NlNew(p) ==
  /\ open[p].stage = "idle"
  /\ \E d \in Devs, m \in {Message("NEWFAMILY", NoOne, 0), ErrorMessage("ENOENT")} :
       GoesOn(p, [NoContext(d) EXCEPT !.stage = "family", !.sent = TRUE, !.queue = <<m>>])
  /\ UNCHANGED <<seen, kernelVars>>

At(p, stage, sent) == open[p].stage = stage /\ open[p].sent = sent

\* nlmsg_tx of NFC_CMD_DEV_UP, and the kernel's answer.
Power(p) ==
  LET d == open[p].dev IN
  /\ At(p, "power", FALSE)
  /\ GoesOn(p, [open[p] EXCEPT !.sent = TRUE,
                               !.queue = Append(@, ErrorMessage(IF d \in up THEN "EALREADY" ELSE "0"))])
  /\ up' = up \cup {d}
  /\ UNCHANGED <<seen, poller, targets, active, found>>

\* nl_nfc_poll.
StartPoll(p) ==
  LET d == open[p].dev  busy == poller[d] # NoOne \/ active[d] # NoOne IN
  /\ At(p, "poll", FALSE)
  /\ GoesOn(p, [open[p] EXCEPT !.sent = TRUE, !.queue = Append(@, ErrorMessage(IF busy THEN "EBUSY" ELSE "0"))])
  /\ poller' = IF busy THEN poller ELSE [poller EXCEPT ![d] = p]
  /\ seen' = [seen EXCEPT ![p] = {}]
  /\ UNCHANGED <<up, targets, active, found>>

\* nl_parse_reply: a status ends it, and a message of another kind is skipped.  A
\* reader that has power already makes no error.
Acked(stage, m) ==
  IF stage = "family" THEN m.kind = "NEWFAMILY"
  ELSE m.kind # "error" \/ m.value = "0" \/ (stage = "power" /\ m.value = "EALREADY")

After(stage) == CASE stage = "family" -> "power" [] stage = "power" -> "poll" [] stage = "poll" -> "join"

\* nlmsg_rx without a timeout.
ReadStatus(p) ==
  LET c == open[p] IN
  /\ c.stage \in {"family", "power", "poll"} /\ c.sent /\ c.queue # <<>>
  /\ IF Acked(c.stage, Head(c.queue))
     THEN /\ GoesOn(p, [c EXCEPT !.stage = After(c.stage), !.sent = FALSE, !.queue = Tail(@)])
          /\ UNCHANGED <<seen, kernelVars>>
     ELSE NfcFree(p)

\* The group is joined once the reader polls, and left after one message or none.
AddMembership(p) ==
  /\ open[p].stage = "join"
  /\ GoesOn(p, [open[p] EXCEPT !.stage = "wait", !.member = TRUE])
  /\ UNCHANGED <<seen, kernelVars>>

\* parse_nfc_event.
\* A mistake: any reader's target will do.
Counts_AnyReader(m, d) == m.kind = "TARGETS_FOUND"

Counts(m, d) == m.kind = "TARGETS_FOUND" /\ m.dev = d

ReadEvent(p) ==
  LET c == open[p] IN
  /\ c.stage = "wait" /\ c.queue # <<>>
  /\ GoesOn(p, [c EXCEPT !.stage = "leave", !.queue = Tail(@),
                         !.eventcnt = IF Counts(Head(c.queue), c.dev) THEN 1 ELSE 0])
  /\ UNCHANGED <<seen, kernelVars>>

\* NETLINK_POLL_MS.
EventTimeout(p) ==
  /\ open[p].stage = "wait" /\ open[p].queue = <<>>
  /\ NfcFree(p)

\* What came in the meantime stays in the queue.
DropMembership(p) ==
  /\ open[p].stage = "leave"
  /\ IF open[p].eventcnt = 0 THEN NfcFree(p)
     ELSE /\ GoesOn(p, [open[p] EXCEPT !.stage = "dump", !.member = FALSE])
          /\ UNCHANGED <<seen, kernelVars>>

\* nl_dump_nfc_target.  Without a target the kernel sends the end of the list.
DumpTarget(p) ==
  LET d == open[p].dev IN
  /\ At(p, "dump", FALSE)
  /\ \/ \E t \in targets[d] : GoesOn(p, [open[p] EXCEPT !.sent = TRUE, !.queue = Append(@, Message("GET_TARGET", d, t))])
     \/ targets[d] = {} /\ GoesOn(p, [open[p] EXCEPT !.sent = TRUE, !.queue = Append(@, Message("DONE", d, 0))])
  /\ UNCHANGED <<seen, kernelVars>>

\* parse_target.
NamesTarget(m) == m.kind = "GET_TARGET"

\* A message of another kind is skipped, and then there is no target.
ReadTarget(p) ==
  LET c == open[p] IN
  /\ At(p, "dump", TRUE) /\ c.queue # <<>>
  /\ IF NamesTarget(Head(c.queue))
     THEN /\ GoesOn(p, [c EXCEPT !.stage = "connect", !.target = Head(c.queue).value, !.queue = Tail(@)])
          /\ UNCHANGED <<seen, kernelVars>>
     ELSE NfcFree(p)

\* nfc_target_connect: the kernel knows the target and nobody else has it.
TargetConnect(p) ==
  LET c == open[p] IN
  /\ c.stage = "connect"
  /\ \/ /\ c.target \in targets[c.dev] /\ active[c.dev] = NoOne
        /\ GoesOn(p, [c EXCEPT !.stage = "open"])
        /\ active' = [active EXCEPT ![c.dev] = p]
        /\ UNCHANGED <<seen, up, poller, targets, found>>
     \/ ~(c.target \in targets[c.dev] /\ active[c.dev] = NoOne) /\ NfcFree(p)

\* fido_nfc_close; an error of the kernel at any point of fido_nfc_open.
Close(p) == open[p].stage # "idle" /\ NfcFree(p)

Open(p) ==
  \/ NlNew(p) \/ Power(p) \/ StartPoll(p) \/ ReadStatus(p) \/ AddMembership(p) \/ ReadEvent(p)
  \/ EventTimeout(p) \/ DropMembership(p) \/ DumpTarget(p) \/ ReadTarget(p) \/ TargetConnect(p)

TargetNext ==
  \/ \E p \in Openers : Open(p) \/ Close(p)
  \/ \E d \in Devs : TargetsFound(d) \/ TargetLost(d)

TargetSpec == TargetInit /\ [][TargetNext]_targetVars

-----------------------------------------------------------------------------

\* The target of a handle was found on the reader that was asked for, after the
\* open had that reader poll, and is not one that the kernel still knew from an
\* earlier open, however the events of other readers and the targets that are lost
\* come between.
FoundByThisOpen == \A p \in Openers : open[p].stage = "open" => open[p].target \in seen[p]
=============================================================================
