------------------------------ MODULE CtapHid ------------------------------
(***************************************************************************)
(* The CTAPHID message layer of src/src/io.c: how fido_tx splits a message *)
(* into HID output reports, and how fido_rx puts a reply together from the *)
(* input reports queued on the handle.                                     *)
(*                                                                         *)
(* One host device object issues a sequence of commands on one channel.    *)
(* The authenticator, the other clients of the same token and the kernel's *)
(* report queue are the environment.  A byte is a pair <<id, i>>, the i-th *)
(* byte of the message of command id, so that bytes of different messages, *)
(* and bytes put in the wrong place, can be told apart.                    *)
(***************************************************************************)
EXTENDS Integers, Sequences, FiniteSets

CONSTANTS
  Cid,          \* the channel of this device object (dev->cid)
  Other,        \* the channel of some other client of the token
  ReportLen,    \* dev->tx_len = dev->rx_len, between 8 and 64
  RequestLens,  \* lengths that the request of each command may have
  ReplyLens,    \* lengths of the replies the authenticator makes
  BufLen,       \* size of the buffer the caller gives to fido_rx
  Timeout,      \* dev->timeout_ms: -1 for ever, or a number of milliseconds
  Ticks,        \* clock ticks in a millisecond: waits are not whole ones
  MaxWrite,     \* bound: ticks that one write may take
  MaxCmds,      \* bound: commands issued on the channel
  MaxNoise,     \* bound: reports of other channels and keepalives queued at a time
  MaxLoss       \* bound: input reports the kernel drops

CTAP_CMD_CBOR   == 16
CTAP_KEEPALIVE  == 59
CTAP_ERROR      == 63
CTAP_FRAME_INIT == 128
UINT16_MAX      == 65535

\* Payload bytes of an initialisation and of a continuation report.
InitData == ReportLen - 7
ContData == ReportLen - 5

\* Continuation reports a message of n bytes needs.
ContFrames(n) ==
  IF n <= InitData THEN 0 ELSE (n - InitData + ContData - 1) \div ContData

\* An authenticator makes no reply that has more reports than sequence numbers.
ASSUME CtapHidAssumption ==
  /\ Cid # Other
  /\ ReportLen \in 8 .. 64
  /\ RequestLens \in [1 .. MaxCmds -> SUBSET Nat]
  /\ ReplyLens \subseteq 0 .. UINT16_MAX
  /\ \A n \in ReplyLens : ContFrames(n) <= 128
  /\ BufLen \in 0 .. UINT16_MAX
  /\ Timeout \in Nat \cup {-1}
  /\ Ticks \in Nat \ {0}
  /\ {MaxWrite, MaxCmds, MaxNoise, MaxLoss} \subseteq Nat

MIN(x, y) == IF x > y THEN y ELSE x

Bytes(id, n) == [i \in 1 .. n |-> <<id, i>>]
Zero         == <<0, 0>>
PadTo(s, n)  == [i \in 1 .. n |-> IF i <= Len(s) THEN s[i] ELSE Zero]

VARIABLES
  pc,        \* "idle", "tx", "rx" (rx_preamble) or "cont" (the loop of rx)
  cur,       \* number of the command being executed, 0 before the first
  request,   \* the message fido_tx is given
  sent,      \* bytes of it written so far
  seq,       \* the sequence number the loop of tx or of rx is at
  payload,   \* payload_len of the reply being read
  buf,       \* bytes copied to the caller's buffer
  ms,        \* *ms, what is left of the timeout
  outcome,   \* how the last command ended, and the bytes it delivered
  inq,       \* input reports queued on the handle
  asm,       \* authenticator: the request being put together
  todo,      \* authenticator: requests received whole, not yet answered
  dq,        \* authenticator: reports of the reply being sent
  made,      \* authenticator: number and length of every reply made
  loss,      \* reports dropped so far
  elapsed,   \* ticks the current command has taken
  txtime,    \* the part of them spent writing
  rests,     \* reports it has written and read in no whole number of milliseconds
  quiet      \* no report of an earlier command was left when it started

host == <<pc, cur, request, sent, seq, payload, buf, ms, outcome>>
clock == <<elapsed, txtime, rests, quiet>>
device == <<asm, todo, dq, made>>
vars == <<host, clock, device, inq, loss>>
-----------------------------------------------------------------------------
(* Reports.  The type byte holds a command with the top bit set, or a      *)
(* sequence number; bcnt is only meaningful in the first report.           *)

InitFrame(c, cmd, n, s) ==
  [cid |-> c, type |-> CTAP_FRAME_INIT + cmd, bcnt |-> n % (UINT16_MAX + 1),
   data |-> PadTo(SubSeq(s, 1, MIN(Len(s), InitData)), InitData)]

ContFrame(c, q, s) ==
  [cid |-> c, type |-> q, bcnt |-> 0,
   data |-> PadTo(SubSeq(s, 1, MIN(Len(s), ContData)), ContData)]

\* The reports of a whole message, as the authenticator sends a reply.
Frames(c, cmd, s) ==
  <<InitFrame(c, cmd, Len(s), s)>> \o
  [k \in 1 .. ContFrames(Len(s)) |->
     ContFrame(c, k - 1, SubSeq(s, InitData + (k - 1) * ContData + 1, Len(s)))]

NoMsg == [need |-> 0, got |-> <<>>, next |-> 0]

None == [status |-> "none", bytes |-> <<>>]
-----------------------------------------------------------------------------
(* The clock.  fido_time_delta takes off whole milliseconds only.          *)

\* Faulty variant: the time spent is not charged to the caller's timeout.
Remaining_NeverCharged(m, w) == m

Remaining(m, w) ==
  IF m < 0 THEN m ELSE m - MIN(w \div Ticks, m)

Spend(w) == /\ ms' = Remaining(ms, w)
            /\ elapsed' = IF Timeout < 0 THEN 0 ELSE elapsed + w
            /\ rests' = IF w % Ticks = 0 THEN rests ELSE rests + 1

\* A read returns within the milliseconds that are left.
ReadWaits == IF ms < 0 THEN {0} ELSE 0 .. ms * Ticks

(* The authenticator puts a request together from output reports: a first *)
(* report starts a message anew, the next one in sequence extends it.      *)

Extended(a, f) ==
  IF f.type >= CTAP_FRAME_INIT
  THEN [need |-> f.bcnt, got |-> SubSeq(f.data, 1, MIN(f.bcnt, InitData)),
        next |-> 0]
  ELSE IF f.type = a.next /\ Len(a.got) < a.need
  THEN [a EXCEPT !.got = @ \o SubSeq(f.data, 1, MIN(a.need - Len(@), ContData)),
                 !.next = @ + 1]
  ELSE NoMsg

DeviceTakes(f) ==
  LET a == Extended(asm, f)
  IN  /\ UNCHANGED <<dq, made>>
      /\ IF f.type < CTAP_FRAME_INIT /\ a = NoMsg
         THEN asm' = NoMsg /\ UNCHANGED todo
         ELSE IF Len(a.got) = a.need
         THEN asm' = NoMsg /\ todo' = Append(todo, [id |-> cur, got |-> a.got])
         ELSE asm' = a /\ UNCHANGED todo
-----------------------------------------------------------------------------
Init ==
  /\ pc = "idle" /\ cur = 0 /\ request = <<>> /\ sent = 0 /\ seq = 0
  /\ payload = 0 /\ buf = <<>> /\ ms = Timeout /\ outcome = None
  /\ inq = <<>> /\ asm = NoMsg /\ todo = <<>> /\ dq = <<>>
  /\ made = {} /\ loss = 0
  /\ elapsed = 0 /\ txtime = 0 /\ rests = 0 /\ quiet = TRUE

\* Nothing of an earlier command is queued or still to come.
Quiet == /\ \A i \in 1 .. Len(inq) : inq[i].cid # Cid
         /\ dq = <<>> /\ todo = <<>>

End(status, bytes) ==
  /\ pc' = "idle"
  /\ outcome' = [status |-> status, bytes |-> bytes]

\* The caller starts a command: fido_tx refuses a message longer than a
\* 16-bit length field can tell.
Begin ==
  /\ pc = "idle" /\ cur < MaxCmds
  /\ cur' = cur + 1
  /\ \E n \in RequestLens[cur'] :
       /\ request' = Bytes(cur', n)
       /\ IF n > UINT16_MAX
          THEN End("tx", <<>>)
          ELSE pc' = "tx" /\ outcome' = None
  /\ sent' = 0 /\ seq' = 0 /\ payload' = 0 /\ buf' = <<>> /\ ms' = Timeout
  /\ elapsed' = 0 /\ txtime' = 0 /\ rests' = 0 /\ quiet' = Quiet
  /\ UNCHANGED <<device, inq, loss>>

\* tx returned: the caller now calls fido_rx.
ToRx == pc' = "rx" /\ seq' = 0 /\ UNCHANGED outcome

Write(f, w) ==
  /\ Spend(w) /\ txtime' = txtime + (elapsed' - elapsed)
  /\ DeviceTakes(f)
  /\ UNCHANGED <<cur, request, payload, buf, inq, loss, quiet>>

\* tx_empty, or tx_preamble: the first report, and the message is sent if
\* that was all of it.
FirstReport == InitFrame(Cid, CTAP_CMD_CBOR, Len(request), request)

TxPreamble ==
  /\ pc = "tx" /\ sent = 0
  /\ \E w \in 0 .. MaxWrite : Write(FirstReport, w)
  /\ sent' = MIN(Len(request), InitData)
  /\ IF sent' < Len(request) THEN UNCHANGED <<pc, seq, outcome>> ELSE ToRx

\* seq & 0x80: a sequence number that would read as a command.
\* Faulty variant: no such limit.
SeqTooLong_Never(q) == FALSE

SeqTooLong(q) == q >= 128

\* What tx_frame returns: the bytes it took of the n that are left.
\* Faulty variant: the data of a report is taken to be that of a first one.
Taken_AsFirst(n) == MIN(n, InitData)

Taken(n) == MIN(n, ContData)

\* The loop of tx: refuse a sequence number with the top bit set ...
TxTooLong ==
  /\ pc = "tx" /\ sent > 0 /\ sent < Len(request)
  /\ SeqTooLong(seq)
  /\ End("tx", <<>>)
  /\ UNCHANGED <<cur, request, sent, seq, payload, buf, ms>>
  /\ UNCHANGED <<clock, device, inq, loss>>

\* ... or write the next continuation report.
NextReport == ContFrame(Cid, seq, SubSeq(request, sent + 1, Len(request)))

TxFrame ==
  /\ pc = "tx" /\ sent > 0 /\ sent < Len(request)
  /\ ~SeqTooLong(seq)
  /\ \E w \in 0 .. MaxWrite : Write(NextReport, w)
  /\ sent' = sent + Taken(Len(request) - sent)
  /\ IF sent' < Len(request)
     THEN seq' = (seq + 1) % 256 /\ UNCHANGED <<pc, outcome>>
     ELSE ToRx

\* A write failed, or wrote less than a report: the report may have reached
\* the authenticator all the same.
TxFails ==
  /\ pc = "tx" /\ (sent = 0 \/ ~SeqTooLong(seq))
  /\ End("tx", <<>>)
  /\ \/ UNCHANGED device
     \/ DeviceTakes(IF sent = 0 THEN FirstReport ELSE NextReport)
  /\ UNCHANGED <<cur, request, sent, seq, payload, buf, ms>>
  /\ UNCHANGED <<clock, inq, loss>>
-----------------------------------------------------------------------------
\* rx_frame: the next input report, after a wait of w ticks.
Read(w) ==
  /\ inq # <<>> /\ w \in ReadWaits
  /\ Spend(w)
  /\ inq' = Tail(inq)
  /\ UNCHANGED <<cur, request, sent, device, loss, txtime, quiet>>

IsKeepalive(f) == f.type = CTAP_FRAME_INIT + CTAP_KEEPALIVE

\* The test that keeps rx_preamble in its loop.
\* Faulty variant: the channel is not looked at.
Skipped_KeepaliveOnly(f) == IsKeepalive(f)

Skipped(f) == f.cid # Cid \/ IsKeepalive(f)

RxSkip ==
  /\ pc = "rx" /\ inq # <<>> /\ Skipped(Head(inq))
  /\ \E w \in ReadWaits : Read(w)
  /\ UNCHANGED <<pc, seq, payload, buf, outcome>>

\* rx_preamble returns the first report of the channel; rx checks its
\* command and its length, and copies the data it holds.
RxPreamble ==
  /\ pc = "rx" /\ inq # <<>> /\ ~Skipped(Head(inq))
  /\ \E w \in ReadWaits : Read(w)
  /\ LET f == Head(inq)
     IN  IF f.type # CTAP_FRAME_INIT + CTAP_CMD_CBOR \/ BufLen < f.bcnt
         THEN End("rx", <<>>) /\ UNCHANGED <<seq, payload, buf>>
         ELSE /\ payload' = f.bcnt
              /\ seq' = 0
              /\ IF f.bcnt <= InitData
                 THEN /\ buf' = SubSeq(f.data, 1, f.bcnt)
                      /\ End("ok", buf')
                 ELSE /\ buf' = f.data
                      /\ pc' = "cont" /\ UNCHANGED outcome

\* The test rx makes of a continuation report.
\* Faulty variant: any continuation report of the channel will do.
InSequence_NoSeq(f) == f.cid = Cid /\ f.type < CTAP_FRAME_INIT

InSequence(f) == f.cid = Cid /\ f.type = seq

RxCont ==
  /\ pc = "cont" /\ inq # <<>>
  /\ \E w \in ReadWaits : Read(w)
  /\ UNCHANGED payload
  /\ LET f == Head(inq)
     IN  IF ~InSequence(f)
         THEN End("rx", <<>>) /\ UNCHANGED <<seq, buf>>
         ELSE /\ buf' = buf \o SubSeq(f.data, 1, MIN(payload - Len(buf), ContData))
              /\ seq' = seq + 1
              /\ IF Len(buf') < payload
                 THEN UNCHANGED <<pc, outcome>>
                 ELSE End("ok", buf')

\* poll(2) gives up: after m milliseconds, at once if m is 0, never if negative.
\* Faulty variant: 0 means for ever.
WaitEnds_NotAtZero(m) == m > 0

WaitEnds(m) == m >= 0

\* The wait of a read ends with no report: fido_rx fails, and what the
\* authenticator has yet to send stays where it is.
RxTimeout ==
  /\ pc \in {"rx", "cont"} /\ inq = <<>> /\ WaitEnds(ms)
  /\ elapsed' = elapsed + ms * Ticks
  /\ End("rx", <<>>)
  /\ UNCHANGED <<cur, request, sent, seq, payload, buf, ms>>
  /\ UNCHANGED <<device, inq, loss, txtime, rests, quiet>>

\* A signal ends the wait, or read(2) fails or returns less than a report, which is then
\* gone.  rx_frame returns without a call of fido_time_delta.
RxFails ==
  /\ pc \in {"rx", "cont"}
  /\ \E w \in ReadWaits : elapsed' = elapsed + w
  /\ End("rx", <<>>)
  /\ inq' = inq \/ (inq # <<>> /\ inq' = Tail(inq))
  /\ UNCHANGED <<cur, request, sent, seq, payload, buf, ms>>
  /\ UNCHANGED <<device, loss, txtime, rests, quiet>>
-----------------------------------------------------------------------------
(* The environment.                                                        *)

\* The authenticator answers the oldest request: a reply, or an error.
DeviceAnswers ==
  /\ todo # <<>> /\ dq = <<>>
  /\ \/ \E n \in ReplyLens :
          /\ dq' = Frames(Cid, CTAP_CMD_CBOR, Bytes(Head(todo).id, n))
          /\ made' = made \cup {<<Head(todo).id, n>>}
     \/ dq' = <<InitFrame(Cid, CTAP_ERROR, 1, <<Zero>>)>> /\ UNCHANGED made
  /\ todo' = Tail(todo)
  /\ UNCHANGED <<host, clock, asm, inq, loss>>

DeviceSends ==
  /\ dq # <<>>
  /\ inq' = Append(inq, Head(dq)) /\ dq' = Tail(dq)
  /\ UNCHANGED <<host, clock, asm, todo, made, loss>>

\* The queue of a hidraw handle is finite: a report may be dropped.
ReportLost ==
  /\ dq # <<>> /\ loss < MaxLoss
  /\ dq' = Tail(dq) /\ loss' = loss + 1
  /\ UNCHANGED <<host, clock, asm, todo, made, inq>>

IsNoise(f) == f.cid # Cid \/ IsKeepalive(f)

\* There may be any number of them in all, and they may never stop.
RoomForNoise == Cardinality({i \in 1 .. Len(inq) : IsNoise(inq[i])}) < MaxNoise

\* A report of another channel, which every handle on the token receives.
ForeignReport ==
  /\ RoomForNoise
  /\ \E f \in {InitFrame(Other, CTAP_CMD_CBOR, 1, <<<<-1, 1>>>>),
               ContFrame(Other, 0, <<<<-1, 2>>>>)} :
       inq' = Append(inq, f)
  /\ UNCHANGED <<host, clock, device, loss>>

\* A keepalive, while a request waits for the user or for a computation.
Keepalive ==
  /\ RoomForNoise /\ todo # <<>> /\ dq = <<>>
  /\ inq' = Append(inq, InitFrame(Cid, CTAP_KEEPALIVE, 1, <<Zero>>))
  /\ UNCHANGED <<host, clock, device, loss>>

Host == \/ TxPreamble \/ TxTooLong \/ TxFrame \/ RxSkip \/ RxPreamble \/ RxCont
        \/ RxTimeout

Environment == DeviceAnswers \/ DeviceSends \/ ReportLost \/ ForeignReport
               \/ Keepalive

\* All commands have been issued and have returned.
Done == pc = "idle" /\ cur = MaxCmds /\ UNCHANGED vars

Next == Begin \/ TxFails \/ RxFails \/ Host \/ Environment \/ Done

Spec == Init /\ [][Next]_vars

\* The calling thread keeps running; a read with a timeout returns.  Nothing
\* is assumed of the authenticator.
FairSpec == Spec /\ WF_vars(Host)
-----------------------------------------------------------------------------
\* What fido_rx delivers is always one whole reply of the authenticator to
\* this channel: never the reports of two replies put together, never bytes
\* of another channel, never the padding of a report.  It holds although
\* replies that came too late are still queued, and although one report was
\* dropped; it rests on the tests of cid, of seq and of the length.
AcceptedWhole ==
  outcome.status = "ok" => \E m \in made : outcome.bytes = Bytes(m[1], m[2])

\* On a channel on which nothing of an earlier command is outstanding, the
\* reply a command gets is the reply to that command.
OwnReply ==
  outcome.status = "ok" /\ quiet =>
    \E n \in ReplyLens : outcome.bytes = Bytes(cur, n)

\* Every request the authenticator takes for complete is one the host meant
\* to send, from its first byte to its last: reports of a transmission that
\* failed half-way are never continued by those of the next.
RequestsWhole ==
  \A i \in 1 .. Len(todo) :
    \E n \in RequestLens[todo[i].id] : todo[i].got = Bytes(todo[i].id, n)

\* When fido_tx returns success the authenticator has the whole request.
SentWhole ==
  [][pc = "tx" /\ pc' = "rx" =>
       \E n \in 1 .. Len(todo') :
          todo'[n] = [id |-> cur, got |-> request]]_vars

\* A command blocks for no longer than its timeout, except for the time its
\* writes take on their own and the fraction of a millisecond that
\* fido_time_delta forgives each report that did not take whole ones.
TimeoutBudget ==
  Timeout >= 0 =>
    elapsed <= (IF Timeout * Ticks > txtime THEN Timeout * Ticks ELSE txtime)
               + rests * (Ticks - 1)

\* With a timeout set, every command returns whatever the authenticator does, unless
\* keepalives and reports of other channels never stop and are each read in less than a
\* millisecond: nothing is charged for those, and poll(2) with nothing left returns a
\* report that is queued, so that rx_preamble does not end on them.
CommandReturns ==
  <>[][RxSkip => ms' < ms]_vars => (pc # "idle" ~> pc = "idle")
=============================================================================
