-------------------------- MODULE CtapChannel_proofs --------------------------
(***************************************************************************)
(* Proofs about CtapChannel, for any number of clients, channels, opens    *)
(* and requests.  A client's channel is its own because a channel is       *)
(* allocated to one nonce, a nonce is drawn once, and the client takes the *)
(* channel that comes with its nonce: the inductive invariant says so of   *)
(* every client, of every message queued and of every request in flight.   *)
(* A reply is that of the request as long as a client's calls succeed,     *)
(* because then at most one thing is outstanding on its channel.           *)
(***************************************************************************)
EXTENDS CtapChannel, TLAPS

\* Messages that belong to the session whose channel they are on.
Granted ==
  {m \in Message : /\ m.cmd = "init" => <<m.nonce, m.new>> \in alloc
                   /\ m.cid \in Cids => <<m.tag.nonce, m.cid>> \in alloc}

QueuesGranted == queue \in [Clients -> Seq(Granted)]

RequestsGranted ==
  \A r \in todo :
    /\ r \in Request => <<r.tag.nonce, r.cid>> \in alloc
    /\ r \in InitRequest => r.nonce <= drawn /\ \A a \in alloc : a[1] # r.nonce

\* A nonce has at most one channel, a channel at most one nonce.
AllocOneToOne ==
  /\ \A a, b \in alloc : a[1] = b[1] \/ a[2] = b[2] => a = b
  /\ \A a \in alloc : a[1] <= drawn

NoncesDiffer ==
  /\ \A c \in Clients : nonce[c] <= drawn
  /\ \A c, d \in Clients : nonce[c] = nonce[d] /\ nonce[c] # 0 => c = d

\* Where a client with a channel is, and what it has.
HasChannel(c) == pc[c] \in {"info", "open", "wait", "poll"}

ChannelGranted ==
  \A c \in Clients :
    /\ HasChannel(c) => cid[c] # Broadcast
    /\ cid[c] # Broadcast => /\ <<nonce[c], cid[c]>> \in alloc
                             /\ last[c].own.nonce = nonce[c]

IInv == /\ TypeOK /\ QueuesGranted /\ RequestsGranted /\ AllocOneToOne
        /\ NoncesDiffer /\ ChannelGranted /\ ReplyOfThisSession

-----------------------------------------------------------------------------
(* Sequences.                                                              *)

LEMMA SeqWider == ASSUME NEW S, NEW T, S \subseteq T, NEW q \in Seq(S)
                  PROVE  q \in Seq(T)
OBVIOUS

LEMMA TailOf == ASSUME NEW S, NEW q \in Seq(S), q # <<>>
                PROVE  Head(q) \in S /\ Tail(q) \in Seq(S)
OBVIOUS

LEMMA PutLast == ASSUME NEW S, NEW q \in Seq(S), NEW m \in S
                 PROVE  Append(q, m) \in Seq(S)
OBVIOUS

LEMMA PutFirst == ASSUME NEW S, NEW q \in Seq(S), NEW m \in S
                  PROVE  <<m>> \o q \in Seq(S)
OBVIOUS

-----------------------------------------------------------------------------
LEMMA InitIInv == Init => IInv
<1> SUFFICES ASSUME Init PROVE IInv
  OBVIOUS
<1> USE CtapChannelAssumption DEF Init
<1>1. TypeOK
  BY DEF TypeOK, NoRequest, NoTag
<1>2. QueuesGranted
  BY DEF QueuesGranted
<1>3. RequestsGranted /\ AllocOneToOne
  BY DEF RequestsGranted, AllocOneToOne
<1>4. NoncesDiffer
  BY DEF NoncesDiffer
<1>5. ChannelGranted
  BY DEF ChannelGranted, HasChannel
<1>6. ReplyOfThisSession
  BY DEF ReplyOfThisSession, NoRequest, NoTag
<1>7. QED
  BY <1>1, <1>2, <1>3, <1>4, <1>5, <1>6 DEF IInv
-----------------------------------------------------------------------------
(* Most steps of a client leave every channel where it is.                 *)

Places  == {"closed", "init", "info", "open", "wait", "poll"}
States  == {"yes", "touch", "cancel", "no"}
Lasts   == [own : [nonce : 0 .. MaxNonce, n : 0 .. MaxReqs], at : States,
            reply : Tags \cup {NoTag}]

KeepsTypes ==
  /\ pc' \in [Clients -> Places] /\ fido2' \in [Clients -> BOOLEAN]
  /\ sent' \in [Clients -> 0 .. MaxReqs] /\ settled' \in [Clients -> States]
  /\ last' \in [Clients -> Lasts]

\* The requests it adds to those in flight are of the session.
KeepsRequests ==
  \A r \in todo' :
    r \in todo \/ (r \in Request /\ <<r.tag.nonce, r.cid>> \in alloc)

\* The last request stays one of the session, and so does its reply.
KeepsLast ==
  \A d \in Clients :
    /\ last'[d].own.nonce = last[d].own.nonce
    /\ \/ last'[d].reply \in {NoTag, last[d].reply}
       \/ last'[d].reply.nonce = last[d].own.nonce

LocalStep ==
  /\ UNCHANGED <<cid, nonce, drawn, alloc>>
  /\ \A d \in Clients : HasChannel(d)' => HasChannel(d)
  /\ KeepsTypes /\ KeepsRequests /\ KeepsLast
  /\ queue' \in [Clients -> Seq(Granted)]

LEMMA LocalKeeps == IInv /\ LocalStep => IInv'
<1> SUFFICES ASSUME IInv, LocalStep PROVE IInv'
  OBVIOUS
<1> USE CtapChannelAssumption DEF LocalStep
<1>1. Granted' = Granted
  BY DEF Granted
<1>2. QueuesGranted'
  BY <1>1 DEF QueuesGranted
<1>3. todo' \subseteq Request \cup InitRequest
  BY DEF IInv, TypeOK, KeepsRequests
<1>4. queue' \in [Clients -> Seq(Message)]
  <2>1. Granted \subseteq Message
    BY DEF Granted
  <2>2. \A d \in Clients : queue'[d] \in Seq(Message)
    BY <2>1, SeqWider
  <2>3. QED
    BY <2>2
<1>5. TypeOK'
  BY <1>3, <1>4 DEF IInv, TypeOK, KeepsTypes, Places, States, Lasts
<1>6. RequestsGranted'
  <2> SUFFICES ASSUME NEW r \in todo'
               PROVE  /\ r \in Request => <<r.tag.nonce, r.cid>> \in alloc
                      /\ r \in InitRequest =>
                           r.nonce <= drawn /\ \A a \in alloc : a[1] # r.nonce
    BY DEF RequestsGranted
  <2>1. CASE r \in todo
    BY <2>1 DEF IInv, RequestsGranted
  <2>2. CASE r \in Request /\ <<r.tag.nonce, r.cid>> \in alloc
    <3>1. r.cid \in Cids
      BY <2>2 DEF Request
    <3>2. r \notin InitRequest
      BY <3>1 DEF InitRequest
    <3>3. QED
      BY <2>2, <3>2
  <2>3. QED
    BY <2>1, <2>2 DEF KeepsRequests
<1>7. AllocOneToOne' /\ NoncesDiffer'
  BY DEF IInv, AllocOneToOne, NoncesDiffer
<1>8. ChannelGranted'
  BY DEF IInv, ChannelGranted, KeepsLast, HasChannel
<1>9. ReplyOfThisSession'
  <2> SUFFICES ASSUME NEW d \in Clients, last'[d].reply # NoTag
               PROVE  last'[d].reply.nonce = last'[d].own.nonce
    BY DEF ReplyOfThisSession
  <2>1. QED
    BY DEF IInv, ReplyOfThisSession, KeepsLast
<1>10. QED
  BY <1>2, <1>5, <1>6, <1>7, <1>8, <1>9 DEF IInv
-----------------------------------------------------------------------------
(* The steps of a client, one by one.                                      *)

LEMMA HasNonce == ASSUME IInv, NEW c \in Clients, HasChannel(c)
                  PROVE  /\ nonce[c] \in Nonces /\ cid[c] \in Cids
                         /\ <<nonce[c], cid[c]>> \in alloc
                         /\ last[c].own.nonce = nonce[c]
BY CtapChannelAssumption DEF IInv, TypeOK, ChannelGranted

SentKept == sent' \in [Clients -> 0 .. MaxReqs] /\ last' \in [Clients -> Lasts]
            /\ KeepsRequests /\ KeepsLast

LEMMA NothingSent == ASSUME IInv, UNCHANGED <<sent, last, todo>>
                     PROVE  SentKept
BY DEF IInv, TypeOK, SentKept, KeepsRequests, KeepsLast, Lasts, States

LEMMA SendKeeps ==
  ASSUME IInv, NEW c \in Clients, HasChannel(c), sent[c] < MaxReqs, Send(c)
  PROVE  SentKept
<1> DEFINE tag == [nonce |-> nonce[c], n |-> sent[c] + 1]
           req == [cid |-> cid[c], cmd |-> CmdFor(fido2[c]), tag |-> tag]
<1>1. sent[c] + 1 \in 1 .. MaxReqs
  BY CtapChannelAssumption DEF IInv, TypeOK
<1>2. tag \in Tags
  BY <1>1, HasNonce DEF Tags
<1>3. CmdFor(fido2[c]) \in Cmds
  BY DEF CmdFor, Cmds
<1>4. req \in Request /\ <<req.tag.nonce, req.cid>> \in alloc
  BY <1>2, <1>3, HasNonce DEF Request
<1>5. /\ sent' = [sent EXCEPT ![c] = sent[c] + 1]
      /\ last' = [last EXCEPT ![c] = [own |-> tag, at |-> settled[c], reply |-> NoTag]]
      /\ todo' = todo \cup {req}
  BY DEF Send, Transmit
<1>6. sent' \in [Clients -> 0 .. MaxReqs]
  BY <1>1, <1>5 DEF IInv, TypeOK
<1>7. [own |-> tag, at |-> settled[c], reply |-> NoTag] \in Lasts
  BY <1>1, HasNonce, CtapChannelAssumption
     DEF Lasts, States, IInv, TypeOK, Nonces
<1>8. last' \in [Clients -> Lasts]
  BY <1>5, <1>7 DEF IInv, TypeOK, Lasts, States
<1>9. KeepsRequests
  BY <1>4, <1>5 DEF KeepsRequests
<1>10. KeepsLast
  BY <1>5, HasNonce DEF KeepsLast, IInv, TypeOK
<1>11. QED
  BY <1>6, <1>8, <1>9, <1>10 DEF SentKept

\* A call of an open object, up to its return or its wait in fido_rx.
LEMMA CallLocal ==
  ASSUME IInv, NEW c \in Clients,
         \/ Command(c) \/ CommandTxFails(c) \/ TouchBegin(c) \/ TouchStatus(c)
         \/ Cancel(c) \/ ForceU2f(c) \/ ForceFido2(c)
  PROVE  LocalStep
<1> USE DEF Goto, Settle, LocalStep, KeepsTypes, HasChannel, Places, States
<1>1. IInv => /\ QueuesGranted
              /\ pc \in [Clients -> Places] /\ fido2 \in [Clients -> BOOLEAN]
              /\ sent \in [Clients -> 0 .. MaxReqs] /\ settled \in [Clients -> States]
  BY DEF IInv, TypeOK
<1>2. CASE Command(c)
  <2>1. SentKept
    BY <1>2, SendKeeps DEF Command
  <2>2. QED
    BY <1>1, <1>2, <2>1 DEF Command, SentKept, QueuesGranted
<1>3. CASE CommandTxFails(c)
  <2>1. SentKept
    BY <1>3, SendKeeps, NothingSent DEF CommandTxFails
  <2>2. QED
    BY <1>1, <1>3, <2>1 DEF CommandTxFails, SentKept, QueuesGranted
<1>4. CASE TouchBegin(c)
  <2>1. SentKept
    BY <1>4, SendKeeps DEF TouchBegin
  <2>2. QED
    BY <1>1, <1>4, <2>1 DEF TouchBegin, SentKept, QueuesGranted
<1>5. CASE TouchStatus(c)
  <2>1. SentKept
    BY <1>5, NothingSent DEF TouchStatus
  <2>2. QED
    BY <1>1, <1>5, <2>1 DEF TouchStatus, SentKept, QueuesGranted
<1>6. CASE Cancel(c)
  <2>1. SentKept
    BY <1>6, NothingSent DEF Cancel
  <2>2. QED
    BY <1>1, <1>6, <2>1 DEF Cancel, SentKept, QueuesGranted
<1>7. CASE ForceU2f(c) \/ ForceFido2(c)
  <2>1. SentKept
    BY <1>7, NothingSent DEF ForceU2f, ForceFido2
  <2>2. QED
    BY <1>1, <1>7, <2>1 DEF ForceU2f, ForceFido2, SentKept, QueuesGranted
<1>8. QED
  BY <1>2, <1>3, <1>4, <1>5, <1>6, <1>7
-----------------------------------------------------------------------------
(* fido_rx.                                                                *)

LEMMA ReplyKept ==
  ASSUME IInv, NEW c \in Clients, HasChannel(c), NEW t \in Tags, t.nonce = nonce[c],
         last' = [last EXCEPT ![c].reply = t], UNCHANGED <<sent, todo>>
  PROVE  SentKept
<1>1. last' \in [Clients -> Lasts]
  <2>1. last \in [Clients -> Lasts]
    BY DEF IInv, TypeOK, Lasts, States
  <2>2. [last[c] EXCEPT !.reply = t] \in Lasts
    BY <2>1 DEF Lasts
  <2>3. last' = [last EXCEPT ![c] = [last[c] EXCEPT !.reply = t]]
    BY <2>1
  <2>4. QED
    BY <2>1, <2>2, <2>3
<1>2. KeepsLast
  <2>1. last \in [Clients -> Lasts] /\ t.nonce = last[c].own.nonce
    BY HasNonce DEF IInv, TypeOK, Lasts, States
  <2>2. \A d \in Clients : d # c => last'[d] = last[d]
    BY <2>1
  <2>3. last'[c].own = last[c].own /\ last'[c].reply = t
    BY <2>1 DEF Lasts
  <2>4. QED
    BY <2>1, <2>2, <2>3 DEF KeepsLast
<1>3. QED
  BY <1>1, <1>2 DEF SentKept, KeepsRequests, IInv, TypeOK

\* A message at the head of the queue, and what may stay in its place.
LEMMA HeadGranted ==
  ASSUME IInv, NEW c \in Clients, queue[c] # <<>>
  PROVE  /\ Head(queue[c]) \in Granted
         /\ Tail(queue[c]) \in Seq(Granted) /\ queue[c] \in Seq(Granted)
BY TailOf DEF IInv, QueuesGranted

LEMMA HeadOfChannel ==
  ASSUME IInv, NEW c \in Clients, queue[c] # <<>>, HasChannel(c),
         NEW m, m = Head(queue[c]), m.cid = cid[c]
  PROVE  /\ m \in Reply /\ m.tag \in Tags /\ m.tag.nonce = nonce[c]
         /\ [m EXCEPT !.cmd = "part"] \in Granted
<1>1. m \in Granted /\ m \in Message /\ m.cid \in Cids
  BY HeadGranted, HasNonce DEF Granted
<1>2. m \in Reply
  BY <1>1, CtapChannelAssumption DEF Message, InitReply, InitError
<1>3. <<m.tag.nonce, m.cid>> \in alloc
  BY <1>1 DEF Granted
<1>4. m.tag.nonce = nonce[c]
  BY <1>3, HasNonce DEF IInv, AllocOneToOne
<1>5. [m EXCEPT !.cmd = "part"] \in Reply
  BY <1>2 DEF Reply
<1>6. [m EXCEPT !.cmd = "part"] \in Granted
  BY <1>2, <1>3, <1>5 DEF Granted, Message, Reply
<1>7. QED
  BY <1>2, <1>4, <1>6 DEF Reply

\* fido_rx fails for whatever reason, leaving a queue of granted messages.
LEMMA FailsLocal ==
  ASSUME IInv, NEW c \in Clients, NEW rest \in Seq(Granted), Fails(c, rest),
         UNCHANGED <<drawn, alloc>>
  PROVE  LocalStep
<1> USE DEF Goto, Settle, CloseHandle, LocalStep, KeepsTypes, HasChannel, Places, States
<1>1. IInv => /\ queue \in [Clients -> Seq(Granted)] /\ <<>> \in Seq(Granted)
              /\ pc \in [Clients -> Places] /\ fido2 \in [Clients -> BOOLEAN]
              /\ sent \in [Clients -> 0 .. MaxReqs] /\ settled \in [Clients -> States]
  BY DEF IInv, TypeOK, QueuesGranted
<1>2. UNCHANGED <<sent, last, todo>>
  BY DEF Fails, InitFails, InfoFails, CommandFails, TouchFails
<1>3. SentKept
  BY <1>2, NothingSent
<1>4. CASE pc[c] = "init" /\ InitFails(c) /\ UNCHANGED fido2
  BY <1>1, <1>3, <1>4 DEF InitFails, SentKept
<1>5. CASE pc[c] = "info" /\ InfoFails(c, rest) /\ UNCHANGED last
  <2>1. /\ UNCHANGED <<cid, nonce>>
        /\ \/ CloseHandle(c) /\ UNCHANGED <<fido2, settled>>
           \/ /\ pc' = [pc EXCEPT ![c] = "open"]
              /\ fido2' = [fido2 EXCEPT ![c] = FALSE]
              /\ settled' = [settled EXCEPT ![c] = "no"]
              /\ queue' = [queue EXCEPT ![c] = rest]
    BY <1>5 DEF InfoFails
  <2>2. CASE CloseHandle(c) /\ UNCHANGED <<fido2, settled>>
    BY <1>1, <1>3, <1>5, <2>1, <2>2 DEF SentKept
  <2>3. CASE /\ pc' = [pc EXCEPT ![c] = "open"]
             /\ fido2' = [fido2 EXCEPT ![c] = FALSE]
             /\ settled' = [settled EXCEPT ![c] = "no"]
             /\ queue' = [queue EXCEPT ![c] = rest]
    BY <1>1, <1>3, <1>5, <2>1, <2>3 DEF SentKept
  <2>4. QED
    BY <2>1, <2>2, <2>3
<1>6. CASE pc[c] = "wait" /\ CommandFails(c, rest)
  BY <1>1, <1>3, <1>6 DEF CommandFails, SentKept
<1>7. CASE pc[c] = "poll" /\ TouchFails(c, rest)
  BY <1>1, <1>3, <1>7 DEF TouchFails, SentKept
<1>8. QED
  BY <1>4, <1>5, <1>6, <1>7 DEF Fails

LEMMA RefusesLocal == ASSUME IInv, NEW c \in Clients, RxRefuses(c)
                      PROVE  LocalStep
<1> DEFINE m == Head(queue[c])
<1>1. queue[c] # <<>> /\ m.cid = cid[c] /\ UNCHANGED <<drawn, alloc>>
  BY DEF RxRefuses
<1>2. CASE Fails(c, Tail(queue[c]))
  BY <1>1, <1>2, HeadGranted, FailsLocal
<1>3. CASE pc[c] # "init" /\ Fails(c, <<[m EXCEPT !.cmd = "part"]>> \o Tail(queue[c]))
  <2>1. HasChannel(c)
    BY <1>3 DEF Fails, HasChannel
  <2>2. [m EXCEPT !.cmd = "part"] \in Granted
    BY <1>1, <2>1, HeadOfChannel
  <2>3. <<[m EXCEPT !.cmd = "part"]>> \o Tail(queue[c]) \in Seq(Granted)
    BY <1>1, <2>2, HeadGranted, PutFirst
  <2>4. QED
    BY <1>1, <1>3, <2>3, FailsLocal
<1>4. QED
  BY <1>2, <1>3 DEF RxRefuses

LEMMA RxFailsLocal == ASSUME IInv, NEW c \in Clients, RxFails(c)
                      PROVE  LocalStep
<1>1. queue[c] \in Seq(Granted)
  BY DEF IInv, QueuesGranted
<1>2. QED
  BY <1>1, FailsLocal DEF RxFails

LEMMA SkipLocal == ASSUME IInv, NEW c \in Clients, RxSkip(c)
                   PROVE  LocalStep
<1>1. SentKept
  BY NothingSent DEF RxSkip, client
<1>2. Tail(queue[c]) \in Seq(Granted)
  BY HeadGranted DEF RxSkip
<1>3. QED
  BY <1>1, <1>2 DEF RxSkip, client, LocalStep, KeepsTypes, SentKept, HasChannel,
                    IInv, TypeOK, QueuesGranted, Places, States

\* A reply is taken on the client's channel: it was made in this session.
LEMMA TakesLocal ==
  ASSUME IInv, NEW c \in Clients, queue[c] # <<>>, HasChannel(c),
         NEW m, m = Head(queue[c]), m.cid = cid[c],
         \/ InfoTakes(c, m, Tail(queue[c])) \/ CommandTakes(c, m, Tail(queue[c]))
         \/ TouchTakes(c, m, Tail(queue[c])),
         UNCHANGED <<drawn, alloc>>
  PROVE  LocalStep
<1> DEFINE rest == Tail(queue[c])
<1> USE DEF Goto, Settle, CloseHandle, LocalStep, KeepsTypes, HasChannel, Places, States
<1>1. /\ queue \in [Clients -> Seq(Granted)] /\ <<>> \in Seq(Granted)
      /\ pc \in [Clients -> Places] /\ fido2 \in [Clients -> BOOLEAN]
      /\ sent \in [Clients -> 0 .. MaxReqs] /\ settled \in [Clients -> States]
      /\ rest \in Seq(Granted)
  <2>1. rest \in Seq(Granted)
    BY HeadGranted
  <2>2. queue \in [Clients -> Seq(Granted)] /\ <<>> \in Seq(Granted)
    BY DEF IInv, QueuesGranted
  <2>3. QED
    BY <2>1, <2>2 DEF IInv, TypeOK
<1>2. m.tag \in Tags /\ m.tag.nonce = nonce[c]
  BY HeadOfChannel
<1>3. CASE InfoTakes(c, m, rest)
  <2>1. last' = [last EXCEPT ![c].reply = m.tag] /\ UNCHANGED <<sent, todo>>
    BY <1>3 DEF InfoTakes, InfoFails
  <2>2. SentKept
    BY <1>2, <2>1, ReplyKept
  <2>3. /\ UNCHANGED <<cid, nonce>>
        /\ \/ CloseHandle(c) /\ UNCHANGED <<fido2, settled>>
           \/ /\ pc' = [pc EXCEPT ![c] = "open"]
              /\ fido2' \in [Clients -> BOOLEAN] /\ settled' \in [Clients -> States]
              /\ queue' = [queue EXCEPT ![c] = rest]
    BY <1>1, <1>3 DEF InfoTakes, InfoFails
  <2>4. CASE CloseHandle(c) /\ UNCHANGED <<fido2, settled>>
    BY <1>1, <2>2, <2>3, <2>4 DEF SentKept
  <2>5. CASE /\ pc' = [pc EXCEPT ![c] = "open"]
             /\ fido2' \in [Clients -> BOOLEAN] /\ settled' \in [Clients -> States]
             /\ queue' = [queue EXCEPT ![c] = rest]
    BY <1>1, <2>2, <2>3, <2>5 DEF SentKept
  <2>6. QED
    BY <2>3, <2>4, <2>5
<1>4. CASE CommandTakes(c, m, rest)
  <2>1. SentKept
    BY <1>2, <1>4, ReplyKept DEF CommandTakes
  <2>2. QED
    BY <1>1, <1>4, <2>1 DEF CommandTakes, SentKept
<1>5. CASE TouchTakes(c, m, rest)
  <2>1. SentKept
    <3>1. CASE last' = [last EXCEPT ![c].reply = m.tag] /\ UNCHANGED <<sent, todo>>
      BY <1>2, <3>1, ReplyKept
    <3>2. CASE sent[c] < MaxReqs /\ Send(c)
      BY <3>2, SendKeeps
    <3>3. CASE UNCHANGED <<sent, last, todo>>
      BY <3>3, NothingSent
    <3>4. QED
      BY <1>5, <3>1, <3>2, <3>3 DEF TouchTakes
  <2>2. settled' \in [Clients -> States]
    BY <1>1, <1>5 DEF TouchTakes
  <2>3. QED
    BY <1>1, <1>5, <2>1, <2>2 DEF TouchTakes, SentKept
<1>6. QED
  BY <1>3, <1>4, <1>5

\* The answer to another client's CTAP_CMD_INIT closes the handle.
LEMMA OtherNonceLocal ==
  ASSUME IInv, NEW c \in Clients, NEW m, ~NonceIsMine(c, m),
         NEW rest, InitTakes(c, m, rest), UNCHANGED <<drawn, alloc>>
  PROVE  LocalStep
<1>1. /\ InitFails(c)
      /\ \E cbor \in BOOLEAN : fido2' = [fido2 EXCEPT ![c] = cbor]
  BY CtapChannelAssumption DEF InitTakes
<1>2. SentKept
  BY <1>1, NothingSent DEF InitFails
<1>3. fido2' \in [Clients -> BOOLEAN]
  BY <1>1 DEF IInv, TypeOK
<1>4. QED
  BY <1>1, <1>2, <1>3
     DEF InitFails, CloseHandle, Goto, LocalStep, KeepsTypes, SentKept, HasChannel,
         IInv, TypeOK, QueuesGranted, Places, States
-----------------------------------------------------------------------------
(* The steps that give a client a channel, or take it away.                *)

\* What such a step leaves to show, alloc and drawn being what they were.
LEMMA ChannelStep ==
  ASSUME IInv, UNCHANGED <<drawn, alloc>>, KeepsTypes, KeepsRequests,
         queue' \in [Clients -> Seq(Granted)],
         cid' \in [Clients -> Cids \cup {Broadcast}],
         nonce' \in [Clients -> 0 .. MaxNonce],
         \A d \in Clients : nonce'[d] \in {0, nonce[d]},
         ChannelGranted', ReplyOfThisSession'
  PROVE  IInv'
<1> USE CtapChannelAssumption
<1>1. Granted' = Granted
  BY DEF Granted
<1>2. QueuesGranted'
  BY <1>1 DEF QueuesGranted
<1>3. todo' \subseteq Request \cup InitRequest
  BY DEF IInv, TypeOK, KeepsRequests
<1>4. queue' \in [Clients -> Seq(Message)]
  <2>1. Granted \subseteq Message
    BY DEF Granted
  <2>2. \A d \in Clients : queue'[d] \in Seq(Message)
    BY <2>1, SeqWider
  <2>3. QED
    BY <2>2
<1>5. TypeOK'
  BY <1>3, <1>4 DEF IInv, TypeOK, KeepsTypes, Places, States, Lasts
<1>6. RequestsGranted'
  BY DEF IInv, RequestsGranted, KeepsRequests, Request, InitRequest
<1>7. AllocOneToOne'
  BY DEF IInv, AllocOneToOne
<1>8. NoncesDiffer'
  <2>1. ASSUME NEW d \in Clients PROVE nonce'[d] <= drawn'
    <3>1. nonce'[d] = 0 \/ nonce'[d] = nonce[d]
      OBVIOUS
    <3>2. nonce[d] <= drawn /\ drawn \in Nat
      BY DEF IInv, NoncesDiffer, TypeOK
    <3>3. QED
      BY <3>1, <3>2
  <2>2. ASSUME NEW d \in Clients, NEW e \in Clients,
               nonce'[d] = nonce'[e], nonce'[d] # 0
        PROVE  d = e
    <3>1. nonce'[d] = nonce[d] /\ nonce'[e] = nonce[e]
      BY <2>2
    <3>2. QED
      BY <2>2, <3>1 DEF IInv, NoncesDiffer
  <2>3. QED
    BY <2>1, <2>2 DEF NoncesDiffer
<1>9. QED
  BY <1>2, <1>5, <1>6, <1>7, <1>8 DEF IInv

LEMMA InitTakesKeeps ==
  ASSUME IInv, NEW c \in Clients, queue[c] # <<>>,
         NEW m, m = Head(queue[c]), m.cmd = "init", NonceIsMine(c, m),
         InitTakes(c, m, Tail(queue[c])), UNCHANGED <<drawn, alloc>>
  PROVE  IInv'
<1> DEFINE rest == Tail(queue[c])
           tag == [nonce |-> nonce[c], n |-> 1]
           first == [own |-> tag, at |-> "yes", reply |-> NoTag]
           req == [cid |-> m.new, cmd |-> "cbor", tag |-> tag]
<1> USE CtapChannelAssumption
<1>1. m \in Granted /\ m \in Message /\ rest \in Seq(Granted)
  BY HeadGranted DEF Granted
<1>2. m \in InitReply
  BY <1>1 DEF Message, Reply, InitError, Cmds
<1>3. m.new \in Cids /\ nonce[c] \in Nonces /\ <<nonce[c], m.new>> \in alloc
  BY <1>1, <1>2 DEF InitReply, Granted, NonceIsMine
<1>4. tag \in Tags /\ first \in Lasts /\ NoRequest(nonce[c]) \in Lasts
  BY <1>3 DEF Tags, Lasts, States, NoRequest, NoTag, Nonces
<1>5. req \in Request /\ <<req.tag.nonce, req.cid>> \in alloc
  BY <1>3, <1>4 DEF Request, Cmds
<1>6. PICK cbor \in BOOLEAN :
        /\ fido2' = [fido2 EXCEPT ![c] = cbor]
        /\ cid' = [cid EXCEPT ![c] = m.new]
        /\ settled' = [settled EXCEPT ![c] = "yes"]
        /\ queue' = [queue EXCEPT ![c] = rest]
        /\ UNCHANGED nonce
        /\ \/ /\ pc' = [pc EXCEPT ![c] = "info"]
              /\ sent' = [sent EXCEPT ![c] = 1]
              /\ last' = [last EXCEPT ![c] = first]
              /\ todo' = todo \cup {req} \/ UNCHANGED todo
           \/ /\ pc' = [pc EXCEPT ![c] = "open"]
              /\ sent' = [sent EXCEPT ![c] = 0]
              /\ last' = [last EXCEPT ![c] = NoRequest(nonce[c])]
              /\ UNCHANGED todo
  BY DEF InitTakes, Goto, Settle
<1>7. PICK l \in Lasts : /\ l.own.nonce = nonce[c] /\ l.reply = NoTag
                         /\ last' = [last EXCEPT ![c] = l]
  BY <1>4, <1>6 DEF NoRequest
<1>8. KeepsTypes
  <2>1. last' \in [Clients -> Lasts]
    BY <1>7 DEF IInv, TypeOK, Lasts, States
  <2>2. 0 \in 0 .. MaxReqs /\ 1 \in 0 .. MaxReqs
    OBVIOUS
  <2>3. sent' \in [Clients -> 0 .. MaxReqs] /\ pc' \in [Clients -> Places]
    <3>1. /\ sent' = [sent EXCEPT ![c] = 1] \/ sent' = [sent EXCEPT ![c] = 0]
          /\ pc' = [pc EXCEPT ![c] = "info"] \/ pc' = [pc EXCEPT ![c] = "open"]
      BY <1>6
    <3>2. sent \in [Clients -> 0 .. MaxReqs] /\ pc \in [Clients -> Places]
      BY DEF IInv, TypeOK, Places
    <3>3. sent' \in [Clients -> 0 .. MaxReqs]
      BY <2>2, <3>1, <3>2
    <3>4. pc' \in [Clients -> Places]
      BY <3>1, <3>2 DEF Places
    <3>5. QED
      BY <3>3, <3>4
  <2>4. fido2' \in [Clients -> BOOLEAN] /\ settled' \in [Clients -> States]
    BY <1>6 DEF IInv, TypeOK, States
  <2>5. QED
    BY <2>1, <2>3, <2>4 DEF KeepsTypes
<1>9. KeepsRequests
  BY <1>5, <1>6 DEF KeepsRequests
<1>10. queue' \in [Clients -> Seq(Granted)]
  BY <1>1, <1>6 DEF IInv, QueuesGranted
<1>11. /\ cid' \in [Clients -> Cids \cup {Broadcast}]
       /\ nonce' \in [Clients -> 0 .. MaxNonce]
  BY <1>3, <1>6 DEF IInv, TypeOK
<1>12. ChannelGranted'
  BY <1>3, <1>6, <1>7 DEF IInv, TypeOK, ChannelGranted, HasChannel
<1>13. ReplyOfThisSession'
  BY <1>7 DEF IInv, TypeOK, ReplyOfThisSession
<1>14. QED
  BY <1>6, <1>8, <1>9, <1>10, <1>11, <1>12, <1>13, ChannelStep

LEMMA CloseKeeps == ASSUME IInv, NEW c \in Clients, Close(c) \/ Renew(c)
                    PROVE  IInv'
<1> USE CtapChannelAssumption
<1>1. /\ UNCHANGED <<drawn, alloc, todo>>
      /\ pc' = [pc EXCEPT ![c] = "closed"]
      /\ queue' = [queue EXCEPT ![c] = <<>>]
      /\ cid' = [cid EXCEPT ![c] = Broadcast]
      /\ \/ UNCHANGED <<nonce, fido2, sent, settled, last>>
         \/ /\ nonce' = [nonce EXCEPT ![c] = 0]
            /\ fido2' = [fido2 EXCEPT ![c] = FALSE]
            /\ sent' = [sent EXCEPT ![c] = 0]
            /\ settled' = [settled EXCEPT ![c] = "yes"]
            /\ last' = [last EXCEPT ![c] = NoRequest(0)]
  BY DEF Close, Renew, CloseHandle, Goto, Settle
<1>2. NoRequest(0) \in Lasts
  BY DEF NoRequest, NoTag, Lasts, States
<1>3. KeepsTypes
  <2>1. last' \in [Clients -> Lasts]
    <3>1. last \in [Clients -> Lasts]
      BY DEF IInv, TypeOK, Lasts, States
    <3>2. last' = last \/ last' = [last EXCEPT ![c] = NoRequest(0)]
      BY <1>1
    <3>3. QED
      BY <1>2, <3>1, <3>2
  <2>2. sent' \in [Clients -> 0 .. MaxReqs] /\ pc' \in [Clients -> Places]
    BY <1>1 DEF IInv, TypeOK, Places
  <2>3. fido2' \in [Clients -> BOOLEAN] /\ settled' \in [Clients -> States]
    BY <1>1 DEF IInv, TypeOK, States
  <2>4. QED
    BY <2>1, <2>2, <2>3 DEF KeepsTypes
<1>4. KeepsRequests
  BY <1>1 DEF KeepsRequests
<1>5. queue' \in [Clients -> Seq(Granted)]
  BY <1>1 DEF IInv, QueuesGranted
<1>6. /\ cid' \in [Clients -> Cids \cup {Broadcast}]
      /\ nonce' \in [Clients -> 0 .. MaxNonce]
      /\ \A d \in Clients : nonce'[d] \in {0, nonce[d]}
  BY <1>1 DEF IInv, TypeOK
<1>7. ChannelGranted'
  BY <1>1 DEF IInv, TypeOK, ChannelGranted, HasChannel
<1>8. ReplyOfThisSession'
  <2>1. last' = last \/ last' = [last EXCEPT ![c] = NoRequest(0)]
    BY <1>1
  <2>2. NoRequest(0).reply = NoTag
    BY DEF NoRequest
  <2>3. QED
    BY <2>1, <2>2 DEF IInv, TypeOK, ReplyOfThisSession
<1>9. QED
  BY <1>1, <1>3, <1>4, <1>5, <1>6, <1>7, <1>8, ChannelStep

\* A new nonce is nobody's, and no channel has been allocated for it.
LEMMA OpenTxKeeps == ASSUME IInv, NEW c \in Clients, OpenTx(c)
                     PROVE  IInv'
<1> USE CtapChannelAssumption
<1>1. /\ cid[c] = Broadcast /\ drawn \in Nat /\ drawn' = drawn + 1
      /\ drawn' \in Nonces
      /\ nonce' = [nonce EXCEPT ![c] = drawn']
      /\ pc' = [pc EXCEPT ![c] = "init"] \/ pc' = pc
      /\ todo' = todo \cup {[cid |-> Broadcast, nonce |-> drawn']} \/ todo' = todo
      /\ UNCHANGED <<cid, fido2, sent, settled, last, queue, alloc>>
  BY DEF OpenTx, Goto, IInv, TypeOK, Nonces
<1>2. nonce' \in [Clients -> 0 .. MaxNonce] /\ drawn' \in 0 .. MaxNonce
  BY <1>1 DEF IInv, TypeOK, Nonces
<1>3. [cid |-> Broadcast, nonce |-> drawn'] \in InitRequest
  BY <1>1 DEF InitRequest
<1>4. todo' \subseteq Request \cup InitRequest
  BY <1>1, <1>3 DEF IInv, TypeOK
<1>5. TypeOK'
  BY <1>1, <1>2, <1>4 DEF IInv, TypeOK
<1>6. QueuesGranted'
  BY <1>1 DEF IInv, QueuesGranted, Granted
<1>7. AllocOneToOne'
  <2>1. \A a \in alloc : a[1] \in Nat /\ a[1] <= drawn
    BY DEF IInv, TypeOK, AllocOneToOne, Nonces
  <2>2. \A a \in alloc' : a[1] <= drawn'
    BY <1>1, <2>1
  <2>3. QED
    BY <1>1, <2>2 DEF IInv, AllocOneToOne
<1>8. RequestsGranted'
  <2> SUFFICES ASSUME NEW r \in todo'
               PROVE  /\ r \in Request => <<r.tag.nonce, r.cid>> \in alloc
                      /\ r \in InitRequest =>
                           r.nonce <= drawn' /\ \A a \in alloc : a[1] # r.nonce
    BY <1>1 DEF RequestsGranted
  <2>1. CASE r \in todo
    <3>1. r \in InitRequest => r.nonce \in Nat
      BY DEF InitRequest, Nonces
    <3>2. QED
      BY <1>1, <2>1, <3>1 DEF IInv, RequestsGranted
  <2>2. CASE r = [cid |-> Broadcast, nonce |-> drawn']
    <3>1. r \notin Request
      BY <2>2 DEF Request
    <3>2. \A a \in alloc : a[1] \in Nat /\ a[1] <= drawn
      BY DEF IInv, TypeOK, AllocOneToOne, Nonces
    <3>3. QED
      BY <1>1, <2>2, <3>1, <3>2
  <2>3. QED
    BY <1>1, <2>1, <2>2
<1>9. NoncesDiffer'
  <2>1. \A d \in Clients : nonce[d] \in Nat /\ nonce[d] <= drawn
    BY DEF IInv, TypeOK, NoncesDiffer
  <2>2. \A d \in Clients : nonce'[d] <= drawn'
    BY <1>1, <2>1 DEF IInv, TypeOK
  <2>3. ASSUME NEW d \in Clients, NEW e \in Clients, nonce'[d] = nonce'[e], nonce'[d] # 0
        PROVE  d = e
    <3>1. CASE d # c /\ e # c
      BY <1>1, <2>3, <3>1 DEF IInv, TypeOK, NoncesDiffer
    <3>2. CASE d # c /\ e = c
      BY <1>1, <2>1, <2>3, <3>2 DEF IInv, TypeOK
    <3>3. CASE d = c /\ e # c
      BY <1>1, <2>1, <2>3, <3>3 DEF IInv, TypeOK
    <3>4. QED
      BY <3>1, <3>2, <3>3
  <2>4. QED
    BY <2>2, <2>3 DEF NoncesDiffer
<1>10. ChannelGranted'
  BY <1>1 DEF IInv, TypeOK, ChannelGranted, HasChannel
<1>11. ReplyOfThisSession'
  BY <1>1 DEF IInv, ReplyOfThisSession
<1>12. QED
  BY <1>5, <1>6, <1>7, <1>8, <1>9, <1>10, <1>11 DEF IInv
-----------------------------------------------------------------------------
(* The token.                                                              *)

LEMMA DeliverGranted ==
  ASSUME IInv, NEW S, Granted \subseteq S, NEW m \in S, Deliver(m)
  PROVE  queue' \in [Clients -> Seq(S)]
<1>1. \A c \in Clients : queue[c] \in Seq(S)
  BY SeqWider DEF IInv, QueuesGranted
<1>2. \A c \in Clients : Append(queue[c], m) \in Seq(S)
  BY <1>1, PutLast
<1>3. QED
  BY <1>1, <1>2 DEF Deliver

\* What a step of the token leaves to show.
LEMMA TokenStep ==
  ASSUME IInv, UNCHANGED <<client, drawn>>, alloc \subseteq alloc',
         alloc' \subseteq Nonces \X Cids, AllocOneToOne',
         todo' \subseteq todo, RequestsGranted',
         queue' \in [Clients -> Seq(Granted')]
  PROVE  IInv'
<1>1. Granted' \subseteq Message
  BY DEF Granted
<1>2. \A c \in Clients : queue'[c] \in Seq(Message)
  BY <1>1, SeqWider
<1>3. TypeOK'
  BY <1>2 DEF IInv, TypeOK, client
<1>4. QueuesGranted'
  BY DEF QueuesGranted
<1>5. NoncesDiffer' /\ ReplyOfThisSession'
  BY DEF IInv, NoncesDiffer, ReplyOfThisSession, client
<1>6. ChannelGranted'
  BY DEF IInv, ChannelGranted, HasChannel, client
<1>7. QED
  BY <1>3, <1>4, <1>5, <1>6 DEF IInv

LEMMA AnswersKeeps == ASSUME IInv, NEW r \in todo, TokenAnswers(r)
                      PROVE  IInv'
<1> USE CtapChannelAssumption
<1>1. r \in Request /\ <<r.tag.nonce, r.cid>> \in alloc
  BY DEF TokenAnswers, IInv, RequestsGranted
<1>2. PICK cmd \in {r.cmd, "error"} :
        Deliver([cid |-> r.cid, cmd |-> cmd, tag |-> r.tag])
  BY DEF TokenAnswers
<1>3. [cid |-> r.cid, cmd |-> cmd, tag |-> r.tag] \in Granted
  BY <1>1 DEF Granted, Message, Reply, Request, Cmds
<1>4. queue' \in [Clients -> Seq(Granted)]
  BY <1>2, <1>3, DeliverGranted
<1>5. UNCHANGED <<client, drawn, alloc>> /\ todo' \subseteq todo
  BY DEF TokenAnswers
<1>6. Granted' = Granted
  BY <1>5 DEF Granted
<1>7. AllocOneToOne' /\ RequestsGranted' /\ alloc' \subseteq Nonces \X Cids
  BY <1>5 DEF IInv, TypeOK, AllocOneToOne, RequestsGranted
<1>8. QED
  BY <1>4, <1>5, <1>6, <1>7, TokenStep

LEMMA AllocatesKeeps == ASSUME IInv, NEW r \in todo, TokenAllocates(r)
                        PROVE  IInv'
<1> USE CtapChannelAssumption
<1>1. /\ r \in InitRequest /\ r.nonce \in Nonces /\ r.nonce <= drawn
      /\ \A a \in alloc : a[1] # r.nonce
      /\ UNCHANGED <<client, drawn>> /\ todo' = todo \ {r}
  BY DEF TokenAllocates, InitRequest, IInv, RequestsGranted
<1>2. CASE Deliver([cid |-> Broadcast, cmd |-> "error"]) /\ UNCHANGED alloc
  <2>1. [cid |-> Broadcast, cmd |-> "error"] \in Granted
    BY DEF Granted, Message, InitError
  <2>2. queue' \in [Clients -> Seq(Granted)] /\ Granted' = Granted
    BY <1>2, <2>1, DeliverGranted DEF Granted
  <2>3. AllocOneToOne' /\ RequestsGranted' /\ alloc' \subseteq Nonces \X Cids
    BY <1>1, <1>2 DEF IInv, TypeOK, AllocOneToOne, RequestsGranted
  <2>4. QED
    BY <1>1, <1>2, <2>2, <2>3, TokenStep
<1>3. ASSUME NEW d \in Cids, \A a \in alloc : a[2] # d,
             alloc' = alloc \cup {<<r.nonce, d>>},
             Deliver([cid |-> Broadcast, cmd |-> "init", nonce |-> r.nonce, new |-> d])
      PROVE  IInv'
  <2>1. Granted \subseteq Granted'
    BY <1>3 DEF Granted
  <2>2. [cid |-> Broadcast, cmd |-> "init", nonce |-> r.nonce, new |-> d] \in Granted'
    BY <1>1, <1>3 DEF Granted, Message, InitReply
  <2>3. queue' \in [Clients -> Seq(Granted')]
    BY <1>3, <2>1, <2>2, DeliverGranted
  <2>4. AllocOneToOne'
    <3>1. \A a \in alloc' : a[1] <= drawn'
      BY <1>1, <1>3 DEF IInv, AllocOneToOne
    <3>2. \A a \in alloc : a[1] # r.nonce /\ a[2] # d
      BY <1>1, <1>3
    <3>3. \A a, b \in alloc' : a[1] = b[1] \/ a[2] = b[2] => a = b
      BY <1>3, <3>2 DEF IInv, AllocOneToOne
    <3>4. QED
      BY <3>1, <3>3 DEF AllocOneToOne
  <2>5. RequestsGranted'
    <3>1. \A q \in todo' : q \in InitRequest => q.nonce # r.nonce
      BY <1>1 DEF InitRequest
    <3>2. SUFFICES ASSUME NEW q \in todo'
                   PROVE  /\ q \in Request => <<q.tag.nonce, q.cid>> \in alloc'
                          /\ q \in InitRequest =>
                               q.nonce <= drawn' /\ \A a \in alloc' : a[1] # q.nonce
      BY DEF RequestsGranted
    <3>3. /\ q \in Request => <<q.tag.nonce, q.cid>> \in alloc
          /\ q \in InitRequest => q.nonce <= drawn /\ \A a \in alloc : a[1] # q.nonce
      BY <1>1 DEF IInv, RequestsGranted
    <3>4. QED
      BY <1>1, <1>3, <3>1, <3>3
  <2>6. alloc' \subseteq Nonces \X Cids
    BY <1>1, <1>3 DEF IInv, TypeOK
  <2>7. QED
    BY <1>1, <1>3, <2>3, <2>4, <2>5, <2>6, TokenStep
<1>4. QED
  BY <1>2, <1>3 DEF TokenAllocates
-----------------------------------------------------------------------------
LEMMA NextIInv == IInv /\ [Next]_vars => IInv'
<1> SUFFICES ASSUME IInv, [Next]_vars PROVE IInv'
  OBVIOUS
<1>1. ASSUME NEW r \in todo, TokenAllocates(r) \/ TokenAnswers(r) PROVE IInv'
  BY <1>1, AllocatesKeeps, AnswersKeeps
<1>2. ASSUME NEW c \in Clients, Call(c) PROVE IInv'
  BY <1>2, OpenTxKeeps, CloseKeeps, CallLocal, LocalKeeps DEF Call
<1>3. ASSUME NEW c \in Clients, RxSkip(c) \/ RxRefuses(c) \/ RxFails(c) PROVE IInv'
  BY <1>3, SkipLocal, RefusesLocal, RxFailsLocal, LocalKeeps
<1>4. ASSUME NEW c \in Clients, RxTakes(c) PROVE IInv'
  <2> DEFINE m == Head(queue[c])
  <2>1. /\ queue[c] # <<>> /\ m.cid = cid[c] /\ m.cmd = Awaited(c)
        /\ Takes(c, m, Tail(queue[c])) /\ UNCHANGED <<drawn, alloc>>
    BY <1>4 DEF RxTakes
  <2>2. CASE pc[c] = "init" /\ InitTakes(c, m, Tail(queue[c]))
    <3>1. m.cmd = "init"
      BY <2>1, <2>2 DEF Awaited
    <3>2. CASE NonceIsMine(c, m)
      BY <2>1, <2>2, <3>1, <3>2, InitTakesKeeps
    <3>3. CASE ~NonceIsMine(c, m)
      BY <2>1, <2>2, <3>3, OtherNonceLocal, LocalKeeps
    <3>4. QED
      BY <3>2, <3>3
  <2>3. CASE \/ pc[c] = "info" /\ InfoTakes(c, m, Tail(queue[c]))
             \/ pc[c] = "wait" /\ CommandTakes(c, m, Tail(queue[c]))
             \/ pc[c] = "poll" /\ TouchTakes(c, m, Tail(queue[c]))
    <3>1. HasChannel(c)
      BY <2>3 DEF HasChannel
    <3>2. QED
      BY <2>1, <2>3, <3>1, TakesLocal, LocalKeeps
  <2>4. QED
    BY <2>1, <2>2, <2>3 DEF Takes
<1>5. CASE UNCHANGED vars
  BY <1>5 DEF vars, client, IInv, TypeOK, QueuesGranted, Granted, RequestsGranted,
              AllocOneToOne, NoncesDiffer, ChannelGranted, HasChannel, ReplyOfThisSession
<1>6. QED
  BY <1>1, <1>2, <1>3, <1>4, <1>5 DEF Next, Token, Receive

THEOREM Invariance == Spec => []IInv
BY InitIInv, NextIInv, PTL DEF Spec

\* The variables keep their types: every message queued and every request in
\* flight is well formed.
THEOREM TypeCorrect == Spec => []TypeOK
<1>1. IInv => TypeOK
  BY DEF IInv
<1>2. QED
  BY Invariance, <1>1, PTL

LEMMA ChannelsDiffer == IInv => OwnChannel
<1> SUFFICES ASSUME IInv, NEW c \in Clients, NEW d \in Clients,
                    cid[c] = cid[d], cid[c] # Broadcast
             PROVE  c = d
  BY DEF OwnChannel
<1>1. <<nonce[c], cid[c]>> \in alloc /\ <<nonce[d], cid[d]>> \in alloc
  BY DEF IInv, ChannelGranted
<1>2. nonce[c] = nonce[d] /\ nonce[c] # 0
  <2>1. <<nonce[c], cid[c]>>[2] = <<nonce[d], cid[d]>>[2]
    OBVIOUS
  <2>2. <<nonce[c], cid[c]>> = <<nonce[d], cid[d]>>
    BY <1>1, <2>1 DEF IInv, AllocOneToOne
  <2>3. nonce[c] \in Nonces
    BY <1>1 DEF IInv, TypeOK
  <2>4. QED
    BY <2>2, <2>3 DEF Nonces
<1>3. QED
  BY <1>2 DEF IInv, NoncesDiffer

\* Whatever the interleaving of opens, closes, crashes and the token's answers,
\* no two device objects are ever on the same channel.
THEOREM OwnChannelAlways == Spec => []OwnChannel
BY Invariance, ChannelsDiffer, PTL

\* A call never takes the reply to a request of another client, nor to one its
\* own object sent before it was last opened.
THEOREM ReplyOfThisSessionAlways == Spec => []ReplyOfThisSession
<1>1. IInv => ReplyOfThisSession
  BY DEF IInv
<1>2. QED
  BY Invariance, <1>1, PTL

-----------------------------------------------------------------------------
(* Requests and replies in step: what is outstanding on a channel ch,      *)
(* among requests T at the token and messages q on the client's handle.    *)

Absent(T, q, ch) ==
  /\ \A r \in T : r.cid # ch
  /\ \A i \in 1 .. Len(q) : q[i].cid # ch

AtMostOne(T, q, ch) ==
  /\ \A r, s \in T : r.cid = ch /\ s.cid = ch => r = s
  /\ \A i, j \in 1 .. Len(q) : q[i].cid = ch /\ q[j].cid = ch => i = j
  /\ \A r \in T, i \in 1 .. Len(q) : ~(r.cid = ch /\ q[i].cid = ch)

OnlyOf(T, q, ch, t) ==
  /\ \A r \in T : r.cid = ch => r.tag = t
  /\ \A i \in 1 .. Len(q) : q[i].cid = ch => q[i].tag = t

\* No more is outstanding with U and p than with T and q.
NoMore(T, q, U, p, ch) ==
  /\ Absent(T, q, ch) => Absent(U, p, ch)
  /\ AtMostOne(T, q, ch) => AtMostOne(U, p, ch)
  /\ \A t : OnlyOf(T, q, ch, t) => OnlyOf(U, p, ch, t)

\* A client that waits for its channel has sent nothing in this session.
NothingYet(c) ==
  /\ \A r \in todo : r \in Request => r.tag.nonce # nonce[c]
  /\ \A i \in 1 .. Len(queue[c]) : queue[c][i] \in Reply => queue[c][i].tag.nonce # nonce[c]

InStep(c) ==
  /\ pc[c] = "init" => NothingYet(c)
  /\ HasChannel(c) =>
       /\ last[c].at = "yes" => OnlyOf(todo, queue[c], cid[c], last[c].own)
       /\ pc[c] = "info" => settled[c] = "yes"
       /\ settled[c] = "yes" /\ pc[c] \in {"info", "wait"} =>
            last[c].at = "yes" /\ AtMostOne(todo, queue[c], cid[c])
       /\ settled[c] = "yes" /\ pc[c] \in {"open", "poll"} => Absent(todo, queue[c], cid[c])
       /\ settled[c] \in {"touch", "cancel"} /\ pc[c] \in {"open", "poll"} =>
            AtMostOne(todo, queue[c], cid[c])
  /\ last[c].at = "yes" /\ last[c].reply # NoTag => last[c].reply = last[c].own

\* The first request after all were answered.
LEMMA FirstSent ==
  ASSUME NEW T, NEW q, NEW ch, Absent(T, q, ch), NEW r, r.cid = ch
  PROVE  AtMostOne(T \cup {r}, q, ch) /\ OnlyOf(T \cup {r}, q, ch, r.tag)
BY DEF Absent, AtMostOne, OnlyOf

LEMMA AbsentIsLess ==
  ASSUME NEW T, NEW q, NEW ch, Absent(T, q, ch), NEW t
  PROVE  AtMostOne(T, q, ch) /\ OnlyOf(T, q, ch, t)
BY DEF Absent, AtMostOne, OnlyOf

\* The one that was outstanding is taken.
LEMMA OneTaken ==
  ASSUME NEW S, NEW T, NEW q \in Seq(S), NEW ch, q # <<>>, Head(q).cid = ch, AtMostOne(T, q, ch)
  PROVE  Absent(T, Tail(q), ch)
<1>1. 1 \in 1 .. Len(q) /\ q[1].cid = ch
  OBVIOUS
<1>2. \A i \in 1 .. Len(Tail(q)) : i + 1 \in 1 .. Len(q) /\ Tail(q)[i] = q[i + 1] /\ i + 1 # 1
  OBVIOUS
<1>3. QED
  BY <1>1, <1>2 DEF AtMostOne, Absent

LEMMA TailNoMore ==
  ASSUME NEW S, NEW T, NEW q \in Seq(S), NEW ch, q # <<>>
  PROVE  NoMore(T, q, T, Tail(q), ch)
<1>1. \A i \in 1 .. Len(Tail(q)) : i + 1 \in 1 .. Len(q) /\ Tail(q)[i] = q[i + 1]
  OBVIOUS
<1>2. \A i, j \in 1 .. Len(Tail(q)) : i + 1 = j + 1 => i = j
  OBVIOUS
<1>3. QED
  BY <1>1, <1>2 DEF NoMore, Absent, AtMostOne, OnlyOf

\* The rest of a message stays in its place.
LEMMA PartNoMore ==
  ASSUME NEW S, NEW T, NEW q \in Seq(S), NEW ch, q # <<>>,
         NEW m \in S, m.cid = Head(q).cid, m.tag = Head(q).tag
  PROVE  NoMore(T, q, T, <<m>> \o Tail(q), ch)
<1> DEFINE p == <<m>> \o Tail(q)
<1>1. Len(p) = Len(q)
  OBVIOUS
<1>2. \A i \in 1 .. Len(q) : p[i] = IF i = 1 THEN m ELSE q[i]
  OBVIOUS
<1>3. \A i \in 1 .. Len(q) : p[i].cid = q[i].cid /\ p[i].tag = q[i].tag
  BY <1>2
<1> HIDE DEF p
<1>4. NoMore(T, q, T, p, ch)
  BY <1>1, <1>3 DEF NoMore, Absent, AtMostOne, OnlyOf
<1>5. QED
  BY <1>4 DEF p

\* The answer to a request takes its place, on whatever channel.
LEMMA AnswerNoMore ==
  ASSUME NEW S, NEW T, NEW q \in Seq(S), NEW ch, NEW r \in T,
         NEW m, m.cid = r.cid, r.cid = ch => m.tag = r.tag
  PROVE  NoMore(T, q, T \ {r}, Append(q, m), ch)
<1> DEFINE p == Append(q, m)
<1>1. /\ Len(q) \in Nat /\ Len(p) = Len(q) + 1 /\ p[Len(q) + 1] = m
      /\ \A i \in 1 .. Len(q) : p[i] = q[i]
  OBVIOUS
<1>2. \A i \in 1 .. Len(p) : i \in 1 .. Len(q) \/ i = Len(q) + 1
  BY <1>1
<1> HIDE DEF p
<1>3. \A i \in 1 .. Len(p) : p[i].cid = ch =>
        \/ i \in 1 .. Len(q) /\ p[i] = q[i] /\ q[i].cid = ch
        \/ i = Len(q) + 1 /\ p[i] = m /\ r.cid = ch
  BY <1>1, <1>2
<1>4. Absent(T, q, ch) => Absent(T \ {r}, p, ch)
  BY <1>3 DEF Absent
<1>5. AtMostOne(T, q, ch) => AtMostOne(T \ {r}, p, ch)
  BY <1>3 DEF AtMostOne
<1>6. \A t : OnlyOf(T, q, ch, t) => OnlyOf(T \ {r}, p, ch, t)
  BY <1>3 DEF OnlyOf
<1>7. NoMore(T, q, T \ {r}, p, ch)
  BY <1>4, <1>5, <1>6 DEF NoMore
<1>8. QED
  BY <1>7 DEF p

LEMMA ElsewhereNoMore ==
  ASSUME NEW T, NEW U, NEW q, NEW ch, \A r \in U : r \in T \/ r.cid # ch
  PROVE  NoMore(T, q, U, q, ch)
BY DEF NoMore, Absent, AtMostOne, OnlyOf
-----------------------------------------------------------------------------
(* What the steps do to clients in step.                                   *)

\* A client that stays where it is, and has no more outstanding.
LEMMA StaysInStep ==
  ASSUME NEW c \in Clients, InStep(c),
         pc'[c] = pc[c], cid'[c] = cid[c], settled'[c] = settled[c], last'[c] = last[c],
         HasChannel(c) => NoMore(todo, queue[c], todo', queue'[c], cid[c]),
         pc[c] = "init" /\ NothingYet(c) => NothingYet(c)'
  PROVE  InStep(c)'
BY DEF InStep, NoMore, HasChannel

\* A client without a channel, whose last call was in step.
LEMMA ClosedInStep ==
  ASSUME NEW c \in Clients, InStep(c), pc'[c] = "closed",
         last'[c] = last[c] \/ last'[c].reply = NoTag
  PROVE  InStep(c)'
BY DEF InStep, HasChannel

\* What a step of client c does to the others.
LEMMA OthersStay ==
  ASSUME IInv, IInv', NEW c \in Clients, NEW d \in Clients, d # c, InStep(d),
         pc'[d] = pc[d], cid'[d] = cid[d], settled'[d] = settled[d], last'[d] = last[d],
         nonce'[d] = nonce[d], queue'[d] = queue[d],
         \A r \in todo' : \/ r \in todo \/ r \in InitRequest
                          \/ r.cid = cid'[c] /\ r.cid \in Cids /\ r.tag.nonce = nonce[c]
                             /\ nonce[c] \in Nonces
  PROVE  InStep(d)'
<1> USE CtapChannelAssumption
<1>1. CASE pc[d] = "init"
  <2>1. ASSUME NothingYet(d) PROVE NothingYet(d)'
    <3>1. ASSUME NEW r \in todo', r \in Request PROVE r.tag.nonce # nonce[d]
      <4>1. r \notin InitRequest
        BY <3>1 DEF Request, InitRequest
      <4>2. CASE r \in todo
        BY <2>1, <3>1, <4>2 DEF NothingYet
      <4>3. CASE r.tag.nonce = nonce[c] /\ nonce[c] \in Nonces
        BY <4>3 DEF IInv, NoncesDiffer, Nonces
      <4>4. QED
        BY <4>1, <4>2, <4>3
    <3>2. QED
      BY <2>1, <3>1 DEF NothingYet
  <2>2. ~HasChannel(d) /\ ~HasChannel(d)'
    BY <1>1 DEF HasChannel
  <2>3. QED
    BY <1>1, <2>1, <2>2 DEF InStep
<1>2. CASE HasChannel(d)
  <2>1. cid[d] \in Cids
    BY <1>2, HasNonce
  <2>2. cid'[c] # cid[d]
    <3>1. OwnChannel'
      BY ChannelsDiffer, PTL
    <3>2. QED
      BY <2>1, <3>1 DEF OwnChannel
  <2>3. \A r \in todo' : r \in todo \/ r.cid # cid[d]
    BY <2>1, <2>2 DEF InitRequest
  <2>4. NoMore(todo, queue[d], todo', queue'[d], cid[d])
    BY <2>3, ElsewhereNoMore
  <2>5. QED
    BY <1>2, <2>4, StaysInStep DEF HasChannel
<1>3. CASE pc[d] # "init" /\ ~HasChannel(d)
  BY <1>3 DEF InStep, HasChannel
<1>4. QED
  BY <1>1, <1>2, <1>3

\* fido_rx gives up.
LEMMA FailsInStep ==
  ASSUME IInv, NEW c \in Clients, InStep(c), NEW rest, Fails(c, rest),
         NoMore(todo, queue[c], todo, rest, cid[c])
  PROVE  InStep(c)'
<1> USE DEF Goto, Settle, CloseHandle
<1>0. c \in DOMAIN pc /\ c \in DOMAIN settled /\ c \in DOMAIN queue
  BY DEF IInv, TypeOK
<1>1. UNCHANGED <<cid, last, todo>>
  BY DEF Fails, InitFails, InfoFails, CommandFails, TouchFails
<1>2. CASE pc'[c] = "closed"
  BY <1>1, <1>2, ClosedInStep
<1>3. CASE pc'[c] # "closed"
  <2>1. /\ pc[c] \in {"info", "wait", "poll"} /\ pc'[c] = "open" /\ queue'[c] = rest
        /\ settled'[c] = "no" \/ (pc[c] = "poll" /\ settled'[c] = settled[c])
    BY <1>0, <1>3 DEF Fails, InitFails, InfoFails, CommandFails, TouchFails
  <2>2. QED
    BY <1>1, <2>1 DEF InStep, NoMore, HasChannel
<1>4. QED
  BY <1>2, <1>3

LEMMA ReceivesNothing ==
  ASSUME IInv, NEW c \in Clients, InStep(c), RxSkip(c) \/ RxRefuses(c) \/ RxFails(c)
  PROVE  InStep(c)'
<1> DEFINE m == Head(queue[c])
           part == [m EXCEPT !.cmd = "part"]
<1>1. queue[c] \in Seq(Granted) /\ c \in DOMAIN queue
  BY DEF IInv, QueuesGranted
<1>2. CASE RxSkip(c)
  <2>1. /\ UNCHANGED <<client, todo>> /\ queue'[c] = Tail(queue[c]) /\ queue[c] # <<>>
    BY <1>1, <1>2 DEF RxSkip
  <2>2. NoMore(todo, queue[c], todo', queue'[c], cid[c])
    BY <1>1, <2>1, TailNoMore
  <2>3. ASSUME NothingYet(c) PROVE NothingYet(c)'
    <3>1. \A i \in 1 .. Len(Tail(queue[c])) : i + 1 \in 1 .. Len(queue[c]) /\ Tail(queue[c])[i] = queue[c][i + 1]
      BY <1>1, <2>1
    <3>2. QED
      BY <2>1, <2>3, <3>1 DEF NothingYet, client
  <2>4. QED
    BY <2>1, <2>2, <2>3, StaysInStep DEF client
<1>3. CASE RxFails(c)
  <2>1. NoMore(todo, queue[c], todo, queue[c], cid[c])
    BY DEF NoMore
  <2>2. QED
    BY <1>3, <2>1, FailsInStep DEF RxFails
<1>4. CASE RxRefuses(c)
  <2>1. queue[c] # <<>> /\ m.cid = cid[c]
    BY <1>4 DEF RxRefuses
  <2>2. CASE Fails(c, Tail(queue[c]))
    BY <1>1, <2>1, <2>2, TailNoMore, FailsInStep
  <2>3. CASE pc[c] # "init" /\ Fails(c, <<part>> \o Tail(queue[c]))
    <3>1. HasChannel(c)
      BY <2>3 DEF Fails, HasChannel
    <3>2. m \in Reply /\ part \in Granted
      BY <2>1, <3>1, HeadOfChannel
    <3>3. part.cid = m.cid /\ part.tag = m.tag
      BY <3>2 DEF Reply
    <3>4. NoMore(todo, queue[c], todo, <<part>> \o Tail(queue[c]), cid[c])
      BY <1>1, <2>1, <3>2, <3>3, PartNoMore
    <3>5. QED
      BY <2>3, <3>4, FailsInStep
  <2>4. QED
    BY <1>4, <2>2, <2>3 DEF RxRefuses
<1>5. QED
  BY <1>2, <1>3, <1>4

\* A request is sent by a client, to whom nothing is owed or something is.
LEMMA SendsInStep ==
  ASSUME IInv, NEW c \in Clients, HasChannel(c), Send(c)
  PROVE  /\ last'[c].at = settled[c] /\ last'[c].reply = NoTag
         /\ Absent(todo, queue[c], cid[c]) =>
              /\ AtMostOne(todo', queue[c], cid[c])
              /\ OnlyOf(todo', queue[c], cid[c], last'[c].own)
<1> DEFINE tag == [nonce |-> nonce[c], n |-> sent[c] + 1]
           req == [cid |-> cid[c], cmd |-> CmdFor(fido2[c]), tag |-> tag]
<1>1. /\ last' = [last EXCEPT ![c] = [own |-> tag, at |-> settled[c], reply |-> NoTag]]
      /\ todo' = todo \cup {req} /\ c \in DOMAIN last
  BY DEF Send, Transmit, IInv, TypeOK
<1>2. last'[c] = [own |-> tag, at |-> settled[c], reply |-> NoTag]
  BY <1>1
<1>3. req.cid = cid[c] /\ req.tag = tag
  OBVIOUS
<1>4. QED
  BY <1>1, <1>2, <1>3, FirstSent

LEMMA CallsInStep ==
  ASSUME IInv, NEW c \in Clients, InStep(c),
         \/ Command(c) \/ CommandTxFails(c) \/ TouchBegin(c) \/ TouchStatus(c)
         \/ Cancel(c) \/ ForceU2f(c) \/ ForceFido2(c)
  PROVE  InStep(c)'
<1> USE DEF Goto, Settle
<1>1. /\ c \in DOMAIN pc /\ c \in DOMAIN settled /\ settled[c] \in {"yes", "touch", "cancel", "no"}
      /\ pc[c] = "open" /\ HasChannel(c) /\ cid' = cid /\ queue' = queue
  BY DEF IInv, TypeOK, HasChannel, Command, CommandTxFails, TouchBegin, TouchStatus,
         Cancel, ForceU2f, ForceFido2
<1>2. CASE Command(c)
  <2>1. pc'[c] = "wait" /\ settled' = settled /\ Send(c)
    BY <1>1, <1>2 DEF Command
  <2>2. QED
    BY <1>1, <2>1, SendsInStep DEF InStep, HasChannel
<1>3. CASE CommandTxFails(c)
  <2>1. pc' = pc /\ settled'[c] = "no" /\ (Send(c) \/ UNCHANGED <<last, todo>>)
    BY <1>1, <1>3 DEF CommandTxFails
  <2>2. QED
    BY <1>1, <2>1, SendsInStep DEF InStep, HasChannel
<1>4. CASE TouchBegin(c)
  <2>1. pc' = pc /\ Send(c) /\ settled'[c] = (IF settled[c] = "yes" THEN "touch" ELSE "no")
    BY <1>1, <1>4 DEF TouchBegin
  <2>2. QED
    BY <1>1, <2>1, SendsInStep DEF InStep, HasChannel
<1>5. CASE TouchStatus(c)
  <2>1. pc'[c] = "poll" /\ UNCHANGED <<settled, last, todo>>
    BY <1>1, <1>5 DEF TouchStatus
  <2>2. QED
    BY <1>1, <2>1 DEF InStep, HasChannel
<1>6. CASE Cancel(c)
  <2>1. /\ settled'[c] = (IF settled[c] = "touch" THEN "cancel" ELSE settled[c])
        /\ UNCHANGED <<pc, last, todo>>
    BY <1>1, <1>6 DEF Cancel
  <2>2. QED
    BY <1>1, <2>1 DEF InStep, HasChannel
<1>7. CASE ForceU2f(c) \/ ForceFido2(c)
  <2>1. UNCHANGED <<pc, settled, last, todo>>
    BY <1>7 DEF ForceU2f, ForceFido2
  <2>2. QED
    BY <1>1, <2>1 DEF InStep, HasChannel
<1>8. QED
  BY <1>2, <1>3, <1>4, <1>5, <1>6, <1>7

\* The client takes a reply on its channel: the only one outstanding.
LEMMA TakesInStep ==
  ASSUME IInv, NEW c \in Clients, InStep(c), queue[c] # <<>>,
         NEW m, m = Head(queue[c]), m.cid = cid[c],
         \/ pc[c] = "info" /\ InfoTakes(c, m, Tail(queue[c]))
         \/ pc[c] = "wait" /\ CommandTakes(c, m, Tail(queue[c]))
         \/ pc[c] = "poll" /\ TouchTakes(c, m, Tail(queue[c]))
  PROVE  InStep(c)'
<1> DEFINE rest == Tail(queue[c])
<1> USE DEF Goto, Settle, CloseHandle
<1>1. /\ c \in DOMAIN pc /\ c \in DOMAIN settled /\ c \in DOMAIN queue
      /\ c \in DOMAIN last /\ last[c] \in Lasts /\ settled[c] \in States
      /\ queue[c] \in Seq(Granted)
  BY DEF IInv, TypeOK, QueuesGranted, Lasts, States
<1>2. HasChannel(c)
  BY DEF HasChannel
<1>3. NoMore(todo, queue[c], todo, rest, cid[c])
  BY <1>1, TailNoMore
<1>4. AtMostOne(todo, queue[c], cid[c]) => Absent(todo, rest, cid[c])
  BY <1>1, OneTaken
<1>5. 1 \in 1 .. Len(queue[c]) /\ queue[c][1] = m
  BY <1>1
<1>6. ~Absent(todo, queue[c], cid[c])
  BY <1>5 DEF Absent
<1>7. last[c].at = "yes" => m.tag = last[c].own
  BY <1>2, <1>5 DEF InStep, OnlyOf
<1>8. last[c].at = "yes" => OnlyOf(todo, rest, cid[c], last[c].own)
  BY <1>2, <1>3 DEF InStep, NoMore
<1>9. last' = [last EXCEPT ![c].reply = m.tag] =>
        /\ last'[c].at = last[c].at /\ last'[c].own = last[c].own
        /\ last'[c].reply = m.tag
  BY <1>1 DEF Lasts
<1>10. CASE pc[c] = "info" /\ InfoTakes(c, m, rest)
  <2>1. UNCHANGED <<cid, todo>> /\ last' = [last EXCEPT ![c].reply = m.tag]
    BY <1>10 DEF InfoTakes, InfoFails
  <2>2. \/ pc'[c] = "closed"
        \/ /\ pc'[c] = "open" /\ queue'[c] = rest
           /\ settled'[c] \in {settled[c], "no"}
    BY <1>1, <1>10 DEF InfoTakes, InfoFails
  <2>3. settled[c] = "yes" /\ Absent(todo, rest, cid[c])
    BY <1>2, <1>4, <1>10 DEF InStep
  <2>4. QED
    BY <1>7, <1>8, <1>9, <2>1, <2>2, <2>3 DEF InStep, HasChannel
<1>11. CASE pc[c] = "wait" /\ CommandTakes(c, m, rest)
  <2>1. /\ UNCHANGED <<cid, todo>> /\ last' = [last EXCEPT ![c].reply = m.tag]
        /\ pc'[c] = "open" /\ queue'[c] = rest
        /\ settled'[c] = (IF settled[c] = "yes" THEN "yes" ELSE "no")
    BY <1>1, <1>11 DEF CommandTakes
  <2>2. settled[c] = "yes" => Absent(todo, rest, cid[c])
    BY <1>2, <1>4, <1>11 DEF InStep
  <2>3. QED
    BY <1>7, <1>8, <1>9, <2>1, <2>2 DEF InStep, HasChannel
<1>12. CASE pc[c] = "poll" /\ TouchTakes(c, m, rest)
  <2>1. cid' = cid /\ pc'[c] = "open" /\ queue'[c] = rest
    BY <1>1, <1>12 DEF TouchTakes
  <2>2. settled[c] # "yes" /\ (settled[c] # "no" => Absent(todo, rest, cid[c]))
    BY <1>1, <1>2, <1>4, <1>6, <1>12 DEF InStep, States
  <2>3. CASE /\ last' = [last EXCEPT ![c].reply = m.tag]
             /\ settled' = [settled EXCEPT ![c] = IF settled[c] = "no" THEN "no" ELSE "yes"]
             /\ UNCHANGED todo
    <3>1. settled'[c] = IF settled[c] = "no" THEN "no" ELSE "yes"
      BY <1>1, <2>3
    <3>2. QED
      BY <1>7, <1>8, <1>9, <2>1, <2>2, <2>3, <3>1 DEF InStep, HasChannel
  <2>4. CASE Send(c) /\ settled'[c] \in {settled[c], "no"}
    <3>1. last'[c].at = settled[c] /\ last'[c].reply = NoTag
      BY <1>2, <2>4, SendsInStep
    <3>2. Absent(todo, rest, cid[c]) => AtMostOne(todo', rest, cid[c])
      <4> DEFINE tag == [nonce |-> nonce[c], n |-> sent[c] + 1]
                 req == [cid |-> cid[c], cmd |-> CmdFor(fido2[c]), tag |-> tag]
      <4>1. todo' = todo \cup {req} /\ req.cid = cid[c]
        BY <2>4 DEF Send, Transmit
      <4>2. QED
        BY <4>1, FirstSent
    <3>3. QED
      BY <2>1, <2>2, <2>4, <3>1, <3>2 DEF InStep, HasChannel
  <2>5. CASE UNCHANGED <<last, todo>> /\ settled'[c] = "no"
    BY <1>8, <2>1, <2>5 DEF InStep, HasChannel
  <2>6. QED
    BY <1>1, <1>12, <2>3, <2>4, <2>5 DEF TouchTakes
<1>13. QED
  BY <1>10, <1>11, <1>12

\* The client has its channel, on which nobody has sent anything before.
LEMMA InitTakesInStep ==
  ASSUME IInv, NEW c \in Clients, InStep(c), pc[c] = "init", queue[c] # <<>>,
         NEW m, m = Head(queue[c]), m.cmd = "init", NonceIsMine(c, m),
         InitTakes(c, m, Tail(queue[c]))
  PROVE  InStep(c)'
<1> DEFINE rest == Tail(queue[c])
           tag == [nonce |-> nonce[c], n |-> 1]
           first == [own |-> tag, at |-> "yes", reply |-> NoTag]
           req == [cid |-> m.new, cmd |-> "cbor", tag |-> tag]
<1> USE CtapChannelAssumption
<1>1. /\ m \in Granted /\ m \in Message /\ queue[c] \in Seq(Granted)
      /\ c \in DOMAIN pc /\ c \in DOMAIN cid /\ c \in DOMAIN settled
      /\ c \in DOMAIN last /\ c \in DOMAIN queue
  BY HeadGranted DEF Granted, IInv, TypeOK
<1>2. m \in InitReply
  BY <1>1 DEF Message, Reply, InitError, Cmds
<1>3. m.new \in Cids /\ <<nonce[c], m.new>> \in alloc
  BY <1>1, <1>2 DEF InitReply, Granted, NonceIsMine
<1>4. \A a \in alloc : a[2] = m.new => a[1] = nonce[c]
  BY <1>3 DEF IInv, AllocOneToOne
<1>5. NothingYet(c)
  BY DEF InStep
<1>6. Absent(todo, queue[c], m.new)
  <2>1. ASSUME NEW r \in todo PROVE r.cid # m.new
    <3>1. r \in InitRequest => r.cid = Broadcast
      BY DEF InitRequest
    <3>2. r \in Request => <<r.tag.nonce, r.cid>> \in alloc /\ r.tag.nonce # nonce[c]
      BY <1>5 DEF IInv, RequestsGranted, NothingYet
    <3>3. r \in Request \/ r \in InitRequest
      BY DEF IInv, TypeOK
    <3>4. QED
      BY <1>3, <1>4, <3>1, <3>2, <3>3
  <2>2. ASSUME NEW i \in 1 .. Len(queue[c]) PROVE queue[c][i].cid # m.new
    <3> DEFINE x == queue[c][i]
    <3>1. x \in Granted
      BY <1>1
    <3>2. x \in InitReply \cup InitError => x.cid = Broadcast
      BY DEF InitReply, InitError
    <3>3. x.cid \in Cids => <<x.tag.nonce, x.cid>> \in alloc
      BY <3>1 DEF Granted
    <3>4. x \in Reply => x.tag.nonce # nonce[c]
      BY <1>5 DEF NothingYet
    <3>5. x \in Reply \/ x \in InitReply \cup InitError
      BY <3>1 DEF Granted, Message
    <3> HIDE DEF x
    <3>6. x.cid # m.new
      BY <1>3, <1>4, <3>2, <3>3, <3>4, <3>5
    <3>7. QED
      BY <3>6 DEF x
  <2>3. QED
    BY <2>1, <2>2 DEF Absent
<1>7. Absent(todo, rest, m.new)
  BY <1>1, <1>6, TailNoMore DEF NoMore
<1>8. /\ cid'[c] = m.new /\ settled'[c] = "yes" /\ queue'[c] = rest
      /\ \/ /\ pc'[c] = "info" /\ last'[c] = first
            /\ todo' = todo \cup {req} \/ todo' = todo
         \/ /\ pc'[c] = "open" /\ last'[c] = NoRequest(nonce[c]) /\ todo' = todo
  BY <1>1 DEF InitTakes, Goto, Settle
<1>9. CASE /\ pc'[c] = "info" /\ last'[c] = first
           /\ todo' = todo \cup {req} \/ todo' = todo
  <2>1. req.cid = m.new /\ req.tag = tag
    OBVIOUS
  <2>2. AtMostOne(todo', rest, m.new) /\ OnlyOf(todo', rest, m.new, tag)
    <3> HIDE DEF rest, tag, req
    <3>1. AtMostOne(todo, rest, m.new) /\ OnlyOf(todo, rest, m.new, tag)
      BY <1>7, AbsentIsLess
    <3>2. /\ AtMostOne(todo \cup {req}, rest, m.new)
          /\ OnlyOf(todo \cup {req}, rest, m.new, tag)
      BY <1>7, <2>1, FirstSent
    <3>3. QED
      BY <1>9, <3>1, <3>2
  <2>3. first.own = tag /\ first.at = "yes" /\ first.reply = NoTag
    OBVIOUS
  <2> HIDE DEF first, tag, req
  <2>4. QED
    BY <1>8, <1>9, <2>2, <2>3 DEF InStep, HasChannel
<1>10. CASE pc'[c] = "open" /\ last'[c] = NoRequest(nonce[c]) /\ todo' = todo
  <2>1. last'[c].at = "no" /\ last'[c].reply = NoTag
    BY <1>10 DEF NoRequest
  <2>2. QED
    BY <1>7, <1>8, <1>10, <2>1 DEF InStep, HasChannel
<1>11. QED
  BY <1>8, <1>9, <1>10
-----------------------------------------------------------------------------
(* What a step of client c does, seen from the others.                     *)

Untouched(d) ==
  /\ pc'[d] = pc[d] /\ cid'[d] = cid[d] /\ settled'[d] = settled[d]
  /\ last'[d] = last[d] /\ nonce'[d] = nonce[d] /\ queue'[d] = queue[d]

OnlyOwnRequests(c) ==
  \A r \in todo' : \/ r \in todo \/ r \in InitRequest
                   \/ r.cid = cid'[c] /\ r.cid \in Cids /\ r.tag.nonce = nonce[c]
                      /\ nonce[c] \in Nonces

LEMMA SendIsOwn ==
  ASSUME IInv, NEW c \in Clients, HasChannel(c), UNCHANGED cid,
         Send(c) \/ UNCHANGED <<last, todo>>
  PROVE  OnlyOwnRequests(c) /\ \A d \in Clients : d # c => last'[d] = last[d]
<1> DEFINE tag == [nonce |-> nonce[c], n |-> sent[c] + 1]
           req == [cid |-> cid[c], cmd |-> CmdFor(fido2[c]), tag |-> tag]
<1>1. CASE Send(c)
  <2>1. todo' = todo \cup {req}
    BY <1>1 DEF Send, Transmit
  <2>2. req.cid = cid[c] /\ req.tag.nonce = nonce[c]
    OBVIOUS
  <2> HIDE DEF req
  <2>3. OnlyOwnRequests(c)
    BY <2>1, <2>2, HasNonce DEF OnlyOwnRequests
  <2>4. QED
    BY <1>1, <2>3 DEF Send, Transmit, IInv, TypeOK
<1>2. CASE UNCHANGED <<last, todo>>
  BY <1>2 DEF OnlyOwnRequests
<1>3. QED
  BY <1>1, <1>2

LEMMA CallLeavesOthers ==
  ASSUME IInv, NEW c \in Clients, Call(c)
  PROVE  OnlyOwnRequests(c) /\ \A d \in Clients : d # c => Untouched(d)
<1> USE DEF Goto, Settle, CloseHandle
<1>1. \A d \in Clients : /\ d \in DOMAIN pc /\ d \in DOMAIN cid /\ d \in DOMAIN settled
                         /\ d \in DOMAIN last /\ d \in DOMAIN nonce /\ d \in DOMAIN queue
  BY DEF IInv, TypeOK
<1>2. CASE OpenTx(c)
  <2>1. drawn + 1 \in Nonces
    BY <1>2, CtapChannelAssumption DEF OpenTx, Nonces, IInv, TypeOK
  <2>2. [cid |-> Broadcast, nonce |-> drawn'] \in InitRequest
    BY <1>2, <2>1 DEF OpenTx, InitRequest
  <2>3. OnlyOwnRequests(c)
    BY <1>2, <2>2 DEF OpenTx, OnlyOwnRequests
  <2>4. QED
    BY <1>1, <1>2, <2>3 DEF OpenTx, Untouched
<1>3. CASE Close(c) \/ Renew(c)
  BY <1>1, <1>3 DEF Close, Renew, OnlyOwnRequests, Untouched
<1>4. CASE Command(c) \/ CommandTxFails(c) \/ TouchBegin(c)
  <2>1. HasChannel(c) /\ UNCHANGED cid /\ (Send(c) \/ UNCHANGED <<last, todo>>)
    BY <1>4 DEF Command, CommandTxFails, TouchBegin, HasChannel
  <2>2. OnlyOwnRequests(c) /\ \A d \in Clients : d # c => last'[d] = last[d]
    BY <2>1, SendIsOwn
  <2>3. \A d \in Clients : d # c => pc'[d] = pc[d] /\ settled'[d] = settled[d]
    BY <1>1, <1>4 DEF Command, CommandTxFails, TouchBegin
  <2>4. UNCHANGED <<cid, nonce, queue>>
    BY <1>4 DEF Command, CommandTxFails, TouchBegin
  <2>5. QED
    BY <2>2, <2>3, <2>4 DEF Untouched
<1>5. CASE TouchStatus(c) \/ Cancel(c) \/ ForceU2f(c) \/ ForceFido2(c)
  BY <1>1, <1>5 DEF TouchStatus, Cancel, ForceU2f, ForceFido2, OnlyOwnRequests, Untouched
<1>6. QED
  BY <1>2, <1>3, <1>4, <1>5 DEF Call

LEMMA ReceiveLeavesOthers ==
  ASSUME IInv, NEW c \in Clients, Receive(c)
  PROVE  OnlyOwnRequests(c) /\ \A d \in Clients : d # c => Untouched(d)
<1> USE DEF Goto, Settle, CloseHandle
<1>1. \A d \in Clients : /\ d \in DOMAIN pc /\ d \in DOMAIN cid /\ d \in DOMAIN settled
                         /\ d \in DOMAIN last /\ d \in DOMAIN nonce /\ d \in DOMAIN queue
  BY DEF IInv, TypeOK
<1>2. CASE RxSkip(c)
  BY <1>1, <1>2 DEF RxSkip, client, OnlyOwnRequests, Untouched
<1>3. ASSUME NEW rest, Fails(c, rest)
      PROVE  OnlyOwnRequests(c) /\ \A d \in Clients : d # c => Untouched(d)
  <2>1. UNCHANGED <<cid, nonce, last, todo>>
    BY <1>3 DEF Fails, InitFails, InfoFails, CommandFails, TouchFails
  <2>2. \A d \in Clients : d # c => /\ pc'[d] = pc[d] /\ settled'[d] = settled[d]
                                   /\ queue'[d] = queue[d]
    BY <1>1, <1>3 DEF Fails, InitFails, InfoFails, CommandFails, TouchFails
  <2>3. QED
    BY <2>1, <2>2 DEF OnlyOwnRequests, Untouched
<1>4. CASE RxTakes(c)
  <2> DEFINE m == Head(queue[c])
             rest == Tail(queue[c])
  <2>1. queue[c] # <<>> /\ m.cid = cid[c] /\ m.cmd = Awaited(c) /\ Takes(c, m, rest)
    BY <1>4 DEF RxTakes
  <2>2. CASE pc[c] = "init" /\ InitTakes(c, m, rest) /\ ~NonceIsMine(c, m)
    <3>1. InitFails(c)
      BY <2>2, CtapChannelAssumption DEF InitTakes
    <3>2. QED
      BY <1>1, <3>1 DEF InitFails, OnlyOwnRequests, Untouched
  <2>3. CASE pc[c] = "init" /\ InitTakes(c, m, rest) /\ NonceIsMine(c, m)
    <3> DEFINE tag == [nonce |-> nonce[c], n |-> 1]
               req == [cid |-> m.new, cmd |-> "cbor", tag |-> tag]
    <3>1. m \in Granted /\ m \in Message /\ m.cmd = "init"
      BY <2>1, <2>3, HeadGranted DEF Granted, Awaited
    <3>2. m \in InitReply
      BY <3>1 DEF Message, Reply, InitError, Cmds
    <3>3. m.new \in Cids /\ m.nonce = nonce[c] /\ nonce[c] \in Nonces
      BY <2>3, <3>2 DEF InitReply, NonceIsMine
    <3>4. cid'[c] = m.new /\ (todo' = todo \cup {req} \/ todo' = todo)
      BY <1>1, <2>3 DEF InitTakes
    <3>5. req.cid = m.new /\ req.tag.nonce = nonce[c]
      OBVIOUS
    <3>6. OnlyOwnRequests(c)
      <4> HIDE DEF m, req
      <4>1. QED
        BY <3>3, <3>4, <3>5 DEF OnlyOwnRequests
    <3>7. \A d \in Clients : d # c => Untouched(d)
      BY <1>1, <2>3 DEF InitTakes, Untouched
    <3>8. QED
      BY <3>6, <3>7
  <2>4. CASE \/ pc[c] = "info" /\ InfoTakes(c, m, rest)
             \/ pc[c] = "wait" /\ CommandTakes(c, m, rest)
             \/ pc[c] = "poll" /\ TouchTakes(c, m, rest)
    <3>1. HasChannel(c) /\ UNCHANGED <<cid, nonce>>
      BY <2>4 DEF HasChannel, InfoTakes, InfoFails, CommandTakes, TouchTakes
    <3>2. \A d \in Clients : d # c => /\ pc'[d] = pc[d] /\ settled'[d] = settled[d]
                                     /\ queue'[d] = queue[d]
      BY <1>1, <2>4 DEF InfoTakes, InfoFails, CommandTakes, TouchTakes
    <3>3. CASE last' = [last EXCEPT ![c].reply = m.tag] /\ UNCHANGED todo
      BY <1>1, <3>1, <3>2, <3>3 DEF OnlyOwnRequests, Untouched
    <3>4. CASE Send(c) \/ UNCHANGED <<last, todo>>
      BY <3>1, <3>2, <3>4, SendIsOwn DEF Untouched
    <3>5. QED
      BY <2>4, <3>3, <3>4 DEF InfoTakes, InfoFails, CommandTakes, TouchTakes
  <2>5. QED
    BY <2>1, <2>2, <2>3, <2>4 DEF Takes
<1>5. QED
  BY <1>2, <1>3, <1>4 DEF Receive, RxRefuses, RxFails
-----------------------------------------------------------------------------
(* The client itself, and the token.                                       *)

LEMMA OpensInStep == ASSUME IInv, NEW c \in Clients, InStep(c), OpenTx(c)
                     PROVE  InStep(c)'
<1>1. /\ drawn \in Nat /\ drawn' = drawn + 1 /\ nonce'[c] = drawn + 1
      /\ last' = last /\ queue' = queue /\ pc[c] = "closed"
      /\ pc'[c] = "init" \/ pc'[c] = pc[c]
      /\ \A r \in todo' : r \in todo \/ r = [cid |-> Broadcast, nonce |-> drawn']
  BY DEF OpenTx, Goto, HasHandle, IInv, TypeOK
<1>2. \A a \in alloc : a[1] \in Nat /\ a[1] <= drawn
  BY DEF IInv, TypeOK, AllocOneToOne, Nonces
<1>3. ASSUME NEW n, NEW d, <<n, d>> \in alloc PROVE n # nonce'[c]
  <2>1. <<n, d>>[1] \in Nat /\ <<n, d>>[1] <= drawn
    BY <1>2, <1>3
  <2>2. QED
    BY <1>1, <2>1
<1>4. \A r \in todo' : r \in Request => r.tag.nonce # nonce'[c]
  <2>1. [cid |-> Broadcast, nonce |-> drawn'] \notin Request
    BY CtapChannelAssumption DEF Request
  <2>2. QED
    BY <1>1, <1>3, <2>1 DEF IInv, RequestsGranted
<1>5. \A i \in 1 .. Len(queue[c]) : queue[c][i] \in Reply => queue[c][i].tag.nonce # nonce'[c]
  <2> SUFFICES ASSUME NEW i \in 1 .. Len(queue[c]), queue[c][i] \in Reply
               PROVE  queue[c][i].tag.nonce # nonce'[c]
    OBVIOUS
  <2>1. queue[c][i] \in Granted /\ queue[c][i].cid \in Cids
    BY DEF IInv, QueuesGranted, Reply
  <2>2. QED
    BY <1>3, <2>1 DEF Granted
<1>6. NothingYet(c)'
  BY <1>1, <1>4, <1>5 DEF NothingYet
<1>7. QED
  BY <1>1, <1>6 DEF InStep, HasChannel

LEMMA ClientInStep ==
  ASSUME IInv, NEW c \in Clients, InStep(c), Call(c) \/ Receive(c)
  PROVE  InStep(c)'
<1>1. CASE OpenTx(c)
  BY <1>1, OpensInStep
<1>2. CASE Close(c) \/ Renew(c)
  <2>1. pc'[c] = "closed" /\ (last'[c] = last[c] \/ last'[c].reply = NoTag)
    BY <1>2 DEF Close, Renew, CloseHandle, Goto, NoRequest, IInv, TypeOK
  <2>2. QED
    BY <2>1, ClosedInStep
<1>3. CASE RxTakes(c)
  <2> DEFINE m == Head(queue[c])
             rest == Tail(queue[c])
  <2>1. queue[c] # <<>> /\ m.cid = cid[c] /\ m.cmd = Awaited(c) /\ Takes(c, m, rest)
    BY <1>3 DEF RxTakes
  <2>2. CASE pc[c] = "init" /\ InitTakes(c, m, rest)
    <3>1. m.cmd = "init"
      BY <2>1, <2>2 DEF Awaited
    <3>2. CASE ~NonceIsMine(c, m)
      <4>1. InitFails(c)
        BY <2>2, <3>2, CtapChannelAssumption DEF InitTakes
      <4>2. pc'[c] = "closed" /\ last'[c] = last[c]
        BY <4>1 DEF InitFails, CloseHandle, Goto, IInv, TypeOK
      <4>3. QED
        BY <4>2, ClosedInStep
    <3>3. QED
      BY <2>1, <2>2, <3>1, <3>2, InitTakesInStep
  <2>3. CASE ~(pc[c] = "init" /\ InitTakes(c, m, rest))
    BY <2>1, <2>3, TakesInStep DEF Takes
  <2>4. QED
    BY <2>2, <2>3
<1>4. QED
  BY <1>1, <1>2, <1>3, CallsInStep, ReceivesNothing DEF Call, Receive

\* A message of the token that comes for one of its requests.
LEMMA DeliverInStep ==
  ASSUME IInv, NEW d \in Clients, InStep(d), NEW r \in todo, NEW m,
         Deliver(m), todo' = todo \ {r}, UNCHANGED client, m.cid = r.cid,
         HasChannel(d) /\ r.cid = cid[d] => m.tag = r.tag,
         m \in Reply => r \in Request /\ m.tag = r.tag
  PROVE  InStep(d)'
<1>1. CASE ~HasHandle(d)
  <2>1. pc'[d] = "closed" /\ last'[d] = last[d]
    BY <1>1 DEF HasHandle, client
  <2>2. QED
    BY <2>1, ClosedInStep
<1>2. CASE HasHandle(d)
  <2>1. queue[d] \in Seq(Granted) /\ queue'[d] = Append(queue[d], m)
    BY <1>2 DEF Deliver, IInv, QueuesGranted
  <2>2. HasChannel(d) => NoMore(todo, queue[d], todo', queue'[d], cid[d])
    BY <2>1, AnswerNoMore
  <2>3. ASSUME NothingYet(d) PROVE NothingYet(d)'
    <3>1. m \in Reply => m.tag.nonce # nonce[d]
      BY <2>3 DEF NothingYet
    <3>2. \A i \in 1 .. Len(queue'[d]) : \/ i \in 1 .. Len(queue[d]) /\ queue'[d][i] = queue[d][i]
                                         \/ queue'[d][i] = m
      BY <2>1
    <3>3. nonce'[d] = nonce[d] /\ \A q \in todo' : q \in todo
      BY DEF client
    <3>4. QED
      BY <2>3, <3>1, <3>2, <3>3 DEF NothingYet
  <2>4. QED
    BY <2>2, <2>3, StaysInStep DEF client
<1>3. QED
  BY <1>1, <1>2

LEMMA TokenInStep ==
  ASSUME IInv, NEW d \in Clients, InStep(d), NEW r \in todo,
         TokenAllocates(r) \/ TokenAnswers(r)
  PROVE  InStep(d)'
<1> USE CtapChannelAssumption
<1>1. CASE TokenAnswers(r)
  <2>1. PICK cmd \in {r.cmd, "error"} : Deliver([cid |-> r.cid, cmd |-> cmd, tag |-> r.tag])
    BY <1>1 DEF TokenAnswers
  <2>2. r \in Request /\ todo' = todo \ {r} /\ UNCHANGED client
    BY <1>1 DEF TokenAnswers
  <2>3. QED
    BY <2>1, <2>2, DeliverInStep
<1>2. CASE TokenAllocates(r)
  <2>1. PICK m : Deliver(m) /\ m.cid = Broadcast
    <3>1. CASE Deliver([cid |-> Broadcast, cmd |-> "error"])
      BY <3>1
    <3>2. ASSUME NEW e \in Cids,
                 Deliver([cid |-> Broadcast, cmd |-> "init", nonce |-> r.nonce, new |-> e])
          PROVE  \E m : Deliver(m) /\ m.cid = Broadcast
      <4> DEFINE m == [cid |-> Broadcast, cmd |-> "init", nonce |-> r.nonce, new |-> e]
      <4>1. Deliver(m) /\ m.cid = Broadcast
        BY <3>2
      <4>2. QED
        BY <4>1
    <3>3. QED
      BY <1>2, <3>1, <3>2 DEF TokenAllocates
  <2>2. r.cid = Broadcast /\ todo' = todo \ {r} /\ UNCHANGED client
    BY <1>2 DEF TokenAllocates, InitRequest
  <2>3. m \notin Reply
    BY <2>1 DEF Reply
  <2>4. HasChannel(d) => cid[d] # Broadcast
    BY DEF IInv, ChannelGranted
  <2>5. QED
    BY <2>1, <2>2, <2>3, <2>4, DeliverInStep
<1>3. QED
  BY <1>1, <1>2
-----------------------------------------------------------------------------
AllInStep == \A c \in Clients : InStep(c)

LEMMA InitInStep == Init => AllInStep
<1> SUFFICES ASSUME Init, NEW c \in Clients PROVE InStep(c)
  BY DEF AllInStep
<1>1. pc[c] = "closed" /\ last[c].reply = NoTag
  BY DEF Init, NoRequest
<1>2. QED
  BY <1>1 DEF InStep, HasChannel

LEMMA NextInStep == IInv /\ IInv' /\ AllInStep /\ [Next]_vars => AllInStep'
<1> SUFFICES ASSUME IInv, IInv', AllInStep, [Next]_vars, NEW d \in Clients
             PROVE  InStep(d)'
  BY DEF AllInStep
<1>1. InStep(d)
  BY DEF AllInStep
<1>2. ASSUME NEW r \in todo, TokenAllocates(r) \/ TokenAnswers(r) PROVE InStep(d)'
  BY <1>1, <1>2, TokenInStep
<1>3. ASSUME NEW c \in Clients, Call(c) \/ Receive(c) PROVE InStep(d)'
  <2>1. CASE d = c
    BY <1>1, <1>3, <2>1, ClientInStep
  <2>2. CASE d # c
    <3>1. OnlyOwnRequests(c) /\ Untouched(d)
      BY <1>3, <2>2, CallLeavesOthers, ReceiveLeavesOthers
    <3>2. QED
      BY <1>1, <2>2, <3>1, OthersStay DEF OnlyOwnRequests, Untouched
  <2>3. QED
    BY <2>1, <2>2
<1>4. CASE UNCHANGED vars
  BY <1>1, <1>4 DEF vars, client, InStep, HasChannel, NothingYet
<1>5. QED
  BY <1>2, <1>3, <1>4 DEF Next, Token

\* As long as every call has returned success, whatever the other clients do
\* and however the token's messages are queued, a call takes the reply to its
\* own request: CTAPHID replies carry no number, and fido_rx checks none.
THEOREM OwnReplyAlways == Spec => []OwnReply
<1>1. Init => IInv /\ AllInStep
  BY InitIInv, InitInStep
<1>2. (IInv /\ AllInStep) /\ [Next]_vars => (IInv /\ AllInStep)'
  BY NextIInv, NextInStep
<1>3. AllInStep => OwnReply
  BY DEF AllInStep, InStep, OwnReply
<1>4. QED
  BY <1>1, <1>2, <1>3, PTL DEF Spec
=============================================================================
