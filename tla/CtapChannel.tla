---------------------------- MODULE CtapChannel ----------------------------
(***************************************************************************)
(* Several device objects, in one process or in many, that have the same   *)
(* token open: fido_dev_open, fido_dev_close, fido_dev_cancel of           *)
(* src/src/dev.c, the receive loop of src/src/io.c, the touch requests of  *)
(* src/src/touch.c, and any command built on fido_tx and fido_rx.          *)
(*                                                                         *)
(* Messages are atomic here (CtapHid does the reports).  The token's input *)
(* reports go to every open handle, so a client reads the messages of all  *)
(* channels: two clients at a time where opening takes no lock (HidOpen has *)
(* the one of Linux), one after the other everywhere.  A request or a      *)
(* reply is tagged with the nonce its client drew when it opened the token, *)
(* and with its number since.  The token has no FIDO_CAP_WINK.             *)
(***************************************************************************)
EXTENDS Naturals, Sequences

CONSTANTS
  Clients,          \* the device objects (fido_dev_t)
  Cids,             \* channels the token can allocate
  Broadcast,        \* CTAP_CID_BROADCAST
  CapCbor,          \* values FIDO_CAP_CBOR may have in an INIT reply
  DisableFallback,  \* FIDO_DISABLE_U2F_FALLBACK was given to fido_init
  MaxNonce,         \* bound: times the token is opened, by all clients
  MaxReqs           \* bound: requests a client sends each time it has it open

ASSUME CtapChannelAssumption ==
  /\ Broadcast \notin Cids
  /\ CapCbor \subseteq BOOLEAN /\ DisableFallback \in BOOLEAN
  /\ MaxNonce \in Nat /\ MaxReqs \in Nat \ {0}   \* the first is authenticatorGetInfo

VARIABLES
  pc,       \* where a client is: "closed", "open" (between calls), or in fido_rx
            \* for fido_dev_open ("init", "info"), for a command ("wait") or for
            \* fido_dev_get_touch_status ("poll")
  cid,      \* dev->cid
  nonce,    \* dev->nonce, 0 before the first open
  fido2,    \* dev->attr.flags & FIDO_CAP_CBOR
  sent,     \* requests sent since the token was opened
  settled,  \* what the client left behind, by the return values of its calls:
            \* "yes" if all its requests have had their replies, "touch" if all
            \* but one touch request, "cancel" if it cancelled that one with
            \* FIDO_OK, "no" otherwise
  last,     \* the last request since the token was opened (number 0 if none),
            \* settled when it was sent, and the reply taken
  queue,    \* messages queued on dev->io_handle
  drawn,    \* nonces drawn by all clients: 64 random bits, taken never to repeat
  alloc,    \* token: the channel allocated for each nonce it answered
  todo      \* token: requests it has not answered

client == <<pc, cid, nonce, fido2, sent, settled, last>>
vars == <<client, queue, drawn, alloc, todo>>

Nonces == 1 .. MaxNonce
Tags   == [nonce : Nonces, n : 1 .. MaxReqs]
NoTag  == [nonce |-> 0, n |-> 0]
NoRequest(k) == [own |-> [nonce |-> k, n |-> 0], at |-> "no", reply |-> NoTag]

\* "error" is CTAPHID_ERROR; "part" is what is queued of a message when
\* fido_rx has given up on it, its continuation reports.
Cmds == {"cbor", "msg"}

Request     == [cid : Cids, cmd : Cmds, tag : Tags]
InitRequest == [cid : {Broadcast}, nonce : Nonces]
Reply       == [cid : Cids, cmd : Cmds \cup {"error", "part"}, tag : Tags]
InitReply   == [cid : {Broadcast}, cmd : {"init"}, nonce : Nonces, new : Cids]
InitError   == [cid : {Broadcast}, cmd : {"error"}]
Message     == Reply \cup InitReply \cup InitError

HasHandle(c) == pc[c] # "closed"
Receiving(c) == pc[c] \in {"init", "info", "wait", "poll"}

\* CTAP_CMD_CBOR, or CTAP_CMD_MSG to what is taken for a U2F token.
CmdFor(isfido2) == IF isfido2 THEN "cbor" ELSE "msg"

\* The command of the reply the client waits for in fido_rx.
Awaited(c) == IF pc[c] = "init" THEN "init" ELSE CmdFor(fido2[c])

Init ==
  /\ pc = [c \in Clients |-> "closed"]
  /\ cid = [c \in Clients |-> Broadcast]
  /\ nonce = [c \in Clients |-> 0]
  /\ fido2 = [c \in Clients |-> FALSE]
  /\ sent = [c \in Clients |-> 0]
  /\ settled = [c \in Clients |-> "yes"]
  /\ last = [c \in Clients |-> NoRequest(0)]
  /\ queue = [c \in Clients |-> <<>>]
  /\ drawn = 0 /\ alloc = {} /\ todo = {}

Goto(c, to)   == pc' = [pc EXCEPT ![c] = to]
Settle(c, to) == settled' = [settled EXCEPT ![c] = to]

\* fido_tx of the k-th request since the token was opened.
Transmit(c, ch, cmd, k) ==
  LET tag == [nonce |-> nonce[c], n |-> k]
  IN  /\ sent' = [sent EXCEPT ![c] = k]
      /\ last' = [last EXCEPT ![c] = [own |-> tag, at |-> settled[c], reply |-> NoTag]]
      /\ todo' = todo \cup {[cid |-> ch, cmd |-> cmd, tag |-> tag]}

\* io.close: what was queued on the handle is gone.
CloseHandle(c) ==
  /\ Goto(c, "closed")
  /\ queue' = [queue EXCEPT ![c] = <<>>]
-----------------------------------------------------------------------------
(* fido_dev_open.                                                          *)

\* fido_dev_open_tx: refused if the object has a handle or is not on the
\* broadcast channel.  The transmission of CTAP_CMD_INIT may fail.
OpenTx(c) ==
  /\ ~HasHandle(c) /\ cid[c] = Broadcast
  /\ drawn < MaxNonce
  /\ drawn' = drawn + 1
  /\ nonce' = [nonce EXCEPT ![c] = drawn']
  /\ \/ /\ Goto(c, "init")
        /\ todo' = todo \cup {[cid |-> Broadcast, nonce |-> drawn']}
     \/ UNCHANGED <<pc, todo>>
  /\ UNCHANGED <<cid, fido2, sent, settled, last, queue, alloc>>

\* fido_dev_open_rx gives up before it has a channel.
InitFails(c) ==
  /\ CloseHandle(c)
  /\ UNCHANGED <<cid, nonce, sent, settled, last, todo>>

\* The test of dev->attr.nonce.  Faulty variant: there is none.
NonceIsMine_Unchecked(c, m) == TRUE

NonceIsMine(c, m) == m.nonce = nonce[c]

\* fido_dev_open_rx has a message of the broadcast channel, perhaps the answer
\* to another client.  The channel in it is the client's if the nonce is.
\* A FIDO2 token is then sent authenticatorGetInfo, which may not get through.
InitTakes(c, m, rest) ==
  \E cbor \in CapCbor :
    /\ fido2' = [fido2 EXCEPT ![c] = cbor]
    /\ IF ~NonceIsMine(c, m) THEN InitFails(c)
       ELSE /\ cid' = [cid EXCEPT ![c] = m.new]
            /\ Settle(c, "yes")
            /\ IF cbor
               THEN /\ Goto(c, "info")
                    /\ sent' = [sent EXCEPT ![c] = 1]
                    /\ LET tag == [nonce |-> nonce[c], n |-> 1]
                       IN  /\ last' = [last EXCEPT ![c] =
                                         [own |-> tag, at |-> "yes", reply |-> NoTag]]
                           /\ \/ todo' = todo \cup
                                    {[cid |-> m.new, cmd |-> "cbor", tag |-> tag]}
                              \/ UNCHANGED todo
               ELSE /\ Goto(c, "open")
                    /\ sent' = [sent EXCEPT ![c] = 0]
                    /\ last' = [last EXCEPT ![c] = NoRequest(nonce[c])]
                    /\ UNCHANGED todo
            /\ queue' = [queue EXCEPT ![c] = rest]
            /\ UNCHANGED nonce

\* authenticatorGetInfo had no good reply: U2F is what is left to try.
InfoFails(c, rest) ==
  /\ IF DisableFallback
     THEN CloseHandle(c) /\ UNCHANGED <<fido2, settled>>
     ELSE /\ Goto(c, "open")
          /\ fido2' = [fido2 EXCEPT ![c] = FALSE]
          /\ Settle(c, "no")
          /\ queue' = [queue EXCEPT ![c] = rest]
  /\ UNCHANGED <<cid, nonce, sent, todo>>

\* It has a reply, which may yet be an error or fail to parse.
InfoTakes(c, m, rest) ==
  /\ last' = [last EXCEPT ![c].reply = m.tag]
  /\ \/ /\ Goto(c, "open")
        /\ queue' = [queue EXCEPT ![c] = rest]
        /\ UNCHANGED <<cid, nonce, fido2, sent, settled, todo>>
     \/ InfoFails(c, rest)
-----------------------------------------------------------------------------
(* An open device object.                                                  *)

\* fido_tx of a request on the client's channel.
Send(c) == Transmit(c, cid[c], CmdFor(fido2[c]), sent[c] + 1)

\* A command: fido_tx, and fido_rx for the reply.
Command(c) ==
  /\ pc[c] = "open" /\ sent[c] < MaxReqs
  /\ Send(c)
  /\ Goto(c, "wait")
  /\ UNCHANGED <<cid, nonce, fido2, settled, queue, drawn, alloc>>

\* fido_tx of the command fails, although the request may have got through.
CommandTxFails(c) ==
  /\ pc[c] = "open" /\ sent[c] < MaxReqs
  /\ Send(c) \/ UNCHANGED <<sent, last, todo>>
  /\ Settle(c, "no")
  /\ UNCHANGED <<pc, cid, nonce, fido2, queue, drawn, alloc>>

CommandTakes(c, m, rest) ==
  /\ last' = [last EXCEPT ![c].reply = m.tag]
  /\ Settle(c, IF settled[c] = "yes" THEN "yes" ELSE "no")
  /\ Goto(c, "open")
  /\ queue' = [queue EXCEPT ![c] = rest]
  /\ UNCHANGED <<cid, nonce, fido2, sent, todo>>

\* Faulty variant: FIDO_ERR_RX is not reported to the caller.
CommandFails_Silently(c, rest) ==
  /\ Goto(c, "open")
  /\ queue' = [queue EXCEPT ![c] = rest]
  /\ UNCHANGED <<cid, nonce, fido2, sent, settled, todo, last>>

CommandFails(c, rest) ==
  /\ Settle(c, "no")
  /\ Goto(c, "open")
  /\ queue' = [queue EXCEPT ![c] = rest]
  /\ UNCHANGED <<cid, nonce, fido2, sent, todo, last>>

\* fido_dev_get_touch_begin sends a request and does not wait.
TouchBegin(c) ==
  /\ pc[c] = "open" /\ sent[c] < MaxReqs
  /\ Send(c)
  /\ Settle(c, IF settled[c] = "yes" THEN "touch" ELSE "no")
  /\ UNCHANGED <<pc, cid, nonce, fido2, queue, drawn, alloc>>

\* fido_dev_get_touch_status waits a while for its reply.
TouchStatus(c) ==
  /\ pc[c] = "open"
  /\ Goto(c, "poll")
  /\ UNCHANGED <<cid, nonce, fido2, sent, settled, last, queue, drawn, alloc, todo>>

\* A U2F token that waits for the user answers all the same, and is asked again.
TouchTakes(c, m, rest) ==
  /\ Goto(c, "open")
  /\ queue' = [queue EXCEPT ![c] = rest]
  /\ \/ /\ last' = [last EXCEPT ![c].reply = m.tag]
        /\ Settle(c, IF settled[c] = "no" THEN "no" ELSE "yes")
        /\ UNCHANGED <<sent, todo>>
     \/ /\ ~fido2[c] /\ sent[c] < MaxReqs
        /\ \/ Send(c) /\ UNCHANGED settled
           \/ (Send(c) \/ UNCHANGED <<sent, last, todo>>) /\ Settle(c, "no")
  /\ UNCHANGED <<cid, nonce, fido2>>

\* Faulty variant: no reply counts as a touch.
TouchFails_AsTouched(c, rest) ==
  /\ Goto(c, "open")
  /\ queue' = [queue EXCEPT ![c] = rest]
  /\ Settle(c, IF settled[c] = "no" THEN "no" ELSE "yes")
  /\ UNCHANGED <<cid, nonce, fido2, sent, last, todo>>

\* FIDO_ERR_RX is ignored: the call returns FIDO_OK, not touched.
TouchFails(c, rest) ==
  /\ Goto(c, "open")
  /\ queue' = [queue EXCEPT ![c] = rest]
  /\ UNCHANGED <<cid, nonce, fido2, sent, settled, last, todo>>

\* fido_dev_cancel: CTAP_CMD_CANCEL has no reply; it makes the token answer
\* the request it is working on (TokenAnswers), and nothing here reads that.
Cancel(c) ==
  /\ pc[c] = "open" /\ fido2[c]
  /\ Settle(c, IF settled[c] = "touch" THEN "cancel" ELSE settled[c])
  /\ UNCHANGED <<pc, cid, nonce, fido2, sent, last, queue, drawn, alloc, todo>>

ForceU2f(c) ==
  /\ pc[c] = "open"
  /\ fido2' = [fido2 EXCEPT ![c] = FALSE]
  /\ UNCHANGED <<pc, cid, nonce, sent, settled, last, queue, drawn, alloc, todo>>

ForceFido2(c) ==
  /\ pc[c] = "open"
  /\ fido2' = [fido2 EXCEPT ![c] = TRUE]
  /\ UNCHANGED <<pc, cid, nonce, sent, settled, last, queue, drawn, alloc, todo>>

\* Faulty variant of fido_dev_close: the object is cleared, cid and all.
Close_Zeroed(c) ==
  /\ pc[c] = "open"
  /\ CloseHandle(c)
  /\ cid' = [cid EXCEPT ![c] = 0]
  /\ UNCHANGED <<nonce, fido2, sent, settled, last, drawn, alloc, todo>>

\* fido_dev_close.
Close(c) ==
  /\ pc[c] = "open"
  /\ CloseHandle(c)
  /\ cid' = [cid EXCEPT ![c] = Broadcast]
  /\ UNCHANGED <<nonce, fido2, sent, settled, last, drawn, alloc, todo>>

\* The process ends, at any time, and another starts; or the object is freed
\* and a new one made.
Renew(c) ==
  /\ CloseHandle(c)
  /\ cid' = [cid EXCEPT ![c] = Broadcast]
  /\ nonce' = [nonce EXCEPT ![c] = 0]
  /\ fido2' = [fido2 EXCEPT ![c] = FALSE]
  /\ sent' = [sent EXCEPT ![c] = 0]
  /\ Settle(c, "yes")
  /\ last' = [last EXCEPT ![c] = NoRequest(0)]
  /\ UNCHANGED <<drawn, alloc, todo>>
-----------------------------------------------------------------------------
(* fido_rx.                                                                *)

Takes(c, m, rest) ==
  \/ pc[c] = "init" /\ InitTakes(c, m, rest)
  \/ pc[c] = "info" /\ InfoTakes(c, m, rest)
  \/ pc[c] = "wait" /\ CommandTakes(c, m, rest)
  \/ pc[c] = "poll" /\ TouchTakes(c, m, rest)

Fails(c, rest) ==
  \/ pc[c] = "init" /\ InitFails(c) /\ UNCHANGED fido2
  \/ pc[c] = "info" /\ InfoFails(c, rest) /\ UNCHANGED last
  \/ pc[c] = "wait" /\ CommandFails(c, rest)
  \/ pc[c] = "poll" /\ TouchFails(c, rest)

\* rx_preamble passes over the messages of other channels.
RxSkip(c) ==
  /\ Receiving(c) /\ queue[c] # <<>>
  /\ Head(queue[c]).cid # cid[c]
  /\ queue' = [queue EXCEPT ![c] = Tail(@)]
  /\ UNCHANGED <<client, drawn, alloc, todo>>

\* The first message of the channel is the reply if its command is right.
RxTakes(c) ==
  /\ Receiving(c) /\ queue[c] # <<>>
  /\ LET m == Head(queue[c])
     IN  /\ m.cid = cid[c] /\ m.cmd = Awaited(c)
         /\ Takes(c, m, Tail(queue[c]))
  /\ UNCHANGED <<drawn, alloc>>

\* The command is another one, the message is too long, or reports of another
\* channel came between its own.  Reports of it may remain in the queue.
RxRefuses(c) ==
  /\ Receiving(c) /\ queue[c] # <<>>
  /\ LET m == Head(queue[c])
     IN  /\ m.cid = cid[c]
         /\ \/ Fails(c, Tail(queue[c]))
            \/ /\ pc[c] # "init"
               /\ Fails(c, <<[m EXCEPT !.cmd = "part"]>> \o Tail(queue[c]))
  /\ UNCHANGED <<drawn, alloc>>

\* The time is up, a report cannot be read, or nothing was sent.
RxFails(c) ==
  /\ Receiving(c)
  /\ Fails(c, queue[c])
  /\ UNCHANGED <<drawn, alloc>>
-----------------------------------------------------------------------------
(* The token.                                                              *)

\* A report goes to every open handle.
Deliver(m) ==
  queue' = [c \in Clients |-> IF HasHandle(c) THEN Append(queue[c], m) ELSE queue[c]]

\* CTAP_CMD_INIT on the broadcast channel: a channel never allocated before,
\* or an error.
TokenAllocates(r) ==
  /\ r \in InitRequest
  /\ todo' = todo \ {r}
  /\ \/ \E d \in Cids :
          /\ \A a \in alloc : a[2] # d
          /\ alloc' = alloc \cup {<<r.nonce, d>>}
          /\ Deliver([cid |-> Broadcast, cmd |-> "init", nonce |-> r.nonce, new |-> d])
     \/ Deliver([cid |-> Broadcast, cmd |-> "error"]) /\ UNCHANGED alloc
  /\ UNCHANGED <<client, drawn>>

\* Any other request: a reply on its channel, or an error.
TokenAnswers(r) ==
  /\ r \in Request
  /\ todo' = todo \ {r}
  /\ \E cmd \in {r.cmd, "error"} :
       Deliver([cid |-> r.cid, cmd |-> cmd, tag |-> r.tag])
  /\ UNCHANGED <<client, drawn, alloc>>

Call(c) == \/ OpenTx(c) \/ Command(c) \/ CommandTxFails(c) \/ TouchBegin(c)
           \/ TouchStatus(c) \/ Cancel(c) \/ ForceU2f(c) \/ ForceFido2(c)
           \/ Close(c) \/ Renew(c)

Receive(c) == RxSkip(c) \/ RxTakes(c) \/ RxRefuses(c) \/ RxFails(c)

Token == \E r \in todo : TokenAllocates(r) \/ TokenAnswers(r)

Next == Token \/ \E c \in Clients : Call(c) \/ Receive(c)

Spec == Init /\ [][Next]_vars
-----------------------------------------------------------------------------
TypeOK ==
  /\ pc \in [Clients -> {"closed", "init", "info", "open", "wait", "poll"}]
  /\ cid \in [Clients -> Cids \cup {Broadcast}]
  /\ nonce \in [Clients -> 0 .. MaxNonce]
  /\ fido2 \in [Clients -> BOOLEAN]
  /\ sent \in [Clients -> 0 .. MaxReqs]
  /\ settled \in [Clients -> {"yes", "touch", "cancel", "no"}]
  /\ last \in [Clients -> [own : [nonce : 0 .. MaxNonce, n : 0 .. MaxReqs],
                           at : {"yes", "touch", "cancel", "no"},
                           reply : Tags \cup {NoTag}]]
  /\ queue \in [Clients -> Seq(Message)]
  /\ drawn \in 0 .. MaxNonce
  /\ alloc \subseteq Nonces \X Cids
  /\ todo \subseteq Request \cup InitRequest

\* No two device objects ever use the same channel, however their opens are
\* interleaved and whoever reads whose answer: it rests on the nonce.
OwnChannel ==
  \A c, d \in Clients : cid[c] = cid[d] /\ cid[c] # Broadcast => c = d

\* A reply that a call took was made to a request the same client sent since it
\* opened the token: not to another client's, nor to one of its own that was
\* outstanding when it closed the token or died.
ReplyOfThisSession ==
  \A c \in Clients : last[c].reply # NoTag => last[c].reply.nonce = last[c].own.nonce

\* As long as every call has returned success the replies stay in step with the
\* requests: a call takes the reply to its own request.
OwnReply ==
  \A c \in Clients :
    last[c].at = "yes" /\ last[c].reply # NoTag => last[c].reply = last[c].own

\* man/fido_dev_open.3: an object that is closed can be opened.  One without a
\* handle is closed: fido_dev_close has nothing to close.
ClosedCanBeOpened ==
  \A c \in Clients : ~HasHandle(c) => cid[c] = Broadcast

\* man/fido_dev_get_touch_begin.3: fido_dev_cancel terminates a touch request,
\* so that the next command finds nothing of it.
CancelTerminates ==
  \A c \in Clients :
    last[c].at = "cancel" /\ last[c].reply # NoTag => last[c].reply = last[c].own
=============================================================================
