------------------------------ MODULE NfcApdu ------------------------------
(***************************************************************************)
(* A device object on a smart card reader: nfc.c over pcsc.c or over       *)
(* nfc_linux.c.  A command is cut into short APDUs, all but the last       *)
(* chained, and a reply is fetched with GET RESPONSE.  A PC/SC reader      *)
(* exchanges an APDU for its response within fido_pcsc_write; a raw socket *)
(* of Linux queues what it receives.  A byte is a pair, the number of the  *)
(* command and its place in the message, as in CtapHid.                    *)
(***************************************************************************)
EXTENDS Naturals, Sequences

CONSTANTS
  Readers,      \* of "pcsc" and "socket"
  Chunk,        \* TX_CHUNK_SIZE
  Room,         \* most data in a response, 256
  RequestLens,  \* lengths of requests
  ReplyLens,    \* lengths of replies
  BufLen,       \* size of the buffer given to fido_rx
  MaxCmds,      \* bound: commands
  MaxFailures   \* bound: failures of the reader

ASSUME NfcApduAssumption ==
  /\ Readers \subseteq {"pcsc", "socket"}
  /\ {Chunk, Room} \subseteq Nat \ {0}
  /\ {BufLen, MaxCmds, MaxFailures} \subseteq Nat
  /\ RequestLens \subseteq Nat /\ ReplyLens \subseteq Nat

VARIABLES
  reader,    \* the reader of this behaviour
  pc,        \* "idle", "tx", "status" (of a chained APDU) or "rx"
  cur,       \* number of the command, 0 before the first
  left,      \* payload that nfc_do_tx has not sent
  buf,       \* what rx_msg has written to the caller's buffer
  outcome,   \* how the last command ended, and the bytes it delivered
  wire,      \* socket: APDUs the card has not had
  inbox,     \* responses not read: rx_buf, or the socket's queue
  dead,      \* socket: shut down by an error
  said,      \* card: its last response
  asm,       \* card: payload of the chain so far
  rest,      \* card: what GET RESPONSE can still fetch
  given,     \* card: length of the last reply, without what it refused to give
  taken,     \* history: requests the card has executed
  asked,     \* history: the request of cur
  quiet,     \* history: cur found nothing of an earlier command
  failures   \* counter for MaxFailures

host == <<pc, cur, left, buf, outcome, asked, quiet>>
card == <<said, asm, rest, given, taken>>
vars == <<reader, host, wire, inbox, dead, card, failures>>

Bytes(id, n) == [i \in 1 .. n |-> <<id, i>>]
\* An APDU is "chained", "last" or a "get" (GET RESPONSE).
Apdu(ins, data, count) == [ins |-> ins, id |-> cur, data |-> data, count |-> count]
Response(data, sw, count) == [data |-> data, sw |-> sw, count |-> count]
None == [status |-> "none", bytes |-> <<>>]

Take(s, n) == SubSeq(s, 1, IF n < Len(s) THEN n ELSE Len(s))
Drop(s, n) == SubSeq(s, n + 1, Len(s))

Init ==
  /\ reader \in Readers
  /\ pc = "idle" /\ cur = 0 /\ left = <<>> /\ buf = <<>> /\ outcome = None /\ asked = <<>>
  /\ wire = <<>> /\ inbox = <<>> /\ dead = FALSE
  /\ said = Response(<<>>, "9000", 0) /\ asm = <<>> /\ rest = <<>> /\ given = 0 /\ taken = {}
  /\ quiet = TRUE /\ failures = 0

-----------------------------------------------------------------------------
(* The card.                                                               *)

\* What fits a response, and how much more there is: 0 stands for Room or more.
Part(r, n) ==
  LET after == Drop(r, n) IN
  Response(Take(r, n), IF after = <<>> THEN "9000" ELSE "61",
           IF Len(after) < Room THEN Len(after) ELSE 0)

CardTakes(apdu) ==
  \/ /\ apdu.ins = "chained"
     /\ asm' = asm \o apdu.data /\ rest' = <<>> /\ UNCHANGED <<given, taken>>
     /\ said' = Response(<<>>, "9000", 0)
  \/ /\ apdu.ins = "last"
     /\ asm' = <<>>
     /\ taken' = taken \cup {[got |-> asm \o apdu.data, asked |-> asked, quiet |-> quiet]}
     /\ given' \in ReplyLens
     /\ LET r == Bytes(apdu.id, given') IN rest' = Drop(r, Room) /\ said' = Part(r, Room)
  \/ /\ apdu.ins = "get"
     /\ LET n == IF apdu.count = 0 THEN Room ELSE apdu.count IN
        rest' = Drop(rest, n) /\ said' = Part(rest, n)
     /\ UNCHANGED <<asm, given, taken>>
  \/ \* refused
     /\ asm' = <<>> /\ rest' = <<>> /\ UNCHANGED taken
     /\ given' = IF apdu.ins = "get" THEN given - Len(rest) ELSE 0
     /\ said' = Response(<<>>, "error", 0)

\* Linux: the exchange of the oldest APDU ends.
CardAnswers ==
  /\ wire # <<>> /\ ~dead
  /\ CardTakes(Head(wire)) /\ wire' = Tail(wire) /\ inbox' = Append(inbox, said')
  /\ UNCHANGED <<reader, host, dead, failures>>

\* Linux: an exchange fails, before or after the card had the APDU; the socket
\* is shut down.
SocketDies ==
  /\ wire # <<>> /\ ~dead /\ failures < MaxFailures
  /\ UNCHANGED card \/ CardTakes(Head(wire))
  /\ dead' = TRUE /\ wire' = <<>> /\ failures' = failures + 1
  /\ UNCHANGED <<reader, host, inbox>>

-----------------------------------------------------------------------------
(* The host.                                                               *)

Finish(status, bytes) ==
  /\ pc' = "idle" /\ outcome' = [status |-> status, bytes |-> bytes]
  /\ UNCHANGED <<cur, left, asked, quiet>>

Fail == Finish("error", <<>>) /\ UNCHANGED buf

\* io.write of an APDU, when queue is what was received and not read.
\* fido_pcsc_write throws that away, and has the response when it returns.
Writes(apdu, queue) ==
  \/ /\ reader = "pcsc" /\ CardTakes(apdu) /\ inbox' = <<said'>>
     /\ UNCHANGED <<wire, dead, failures>>
  \/ /\ reader = "socket" /\ ~dead
     /\ wire' = Append(wire, apdu) /\ inbox' = queue
     /\ UNCHANGED <<card, dead, failures>>

\* The card may have had the APDU all the same.
WriteFails(apdu, queue) ==
  \/ /\ reader = "pcsc" /\ failures < MaxFailures
     /\ UNCHANGED card \/ CardTakes(apdu)
     /\ inbox' = <<>> /\ failures' = failures + 1
     /\ Fail /\ UNCHANGED <<wire, dead>>
  \/ /\ reader = "socket" /\ dead
     /\ inbox' = queue
     /\ Fail /\ UNCHANGED <<card, wire, dead, failures>>

\* fido_tx: a request is framed; quiet if no part of an earlier one is about.
Begin ==
  /\ pc = "idle" /\ cur < MaxCmds
  /\ cur' = cur + 1 /\ pc' = "tx" /\ buf' = <<>> /\ outcome' = None
  /\ \E n \in RequestLens : left' = Bytes(cur', n)
  /\ asked' = left'
  /\ quiet' = (asm = <<>> /\ wire = <<>> /\ inbox = <<>>)
  /\ UNCHANGED <<reader, wire, inbox, dead, card, failures>>

\* One round of nfc_do_tx's loop: a full chunk, of which the status is awaited.
TxChunk ==
  /\ pc = "tx" /\ Len(left) > Chunk
  /\ LET apdu == Apdu("chained", Take(left, Chunk), 0) IN
     \/ /\ Writes(apdu, inbox)
        /\ left' = Drop(left, Chunk) /\ pc' = "status"
        /\ UNCHANGED <<cur, buf, outcome, asked, quiet>>
     \/ WriteFails(apdu, inbox)
  /\ UNCHANGED reader

\* Read with a timeout of -1.  A response of another shape does not fit two
\* bytes, or is cut to two that are not SW_NO_ERROR.
Status ==
  /\ pc = "status" /\ inbox # <<>> /\ ~dead
  /\ \/ /\ Head(inbox).data = <<>> /\ Head(inbox).sw = "9000"
        /\ pc' = "tx" /\ UNCHANGED <<cur, left, buf, outcome, asked, quiet>>
     \/ /\ ~(Head(inbox).data = <<>> /\ Head(inbox).sw = "9000")
        /\ Fail
  /\ inbox' = Tail(inbox)
  /\ UNCHANGED <<reader, wire, dead, card, failures>>

\* A mistake: the last chunk is what is left over from full ones.
TxLast_Modulo ==
  /\ pc = "tx" /\ Len(left) <= Chunk
  /\ LET apdu == Apdu("last", Take(left, Len(left) % Chunk), 0) IN
     \/ /\ Writes(apdu, inbox)
        /\ left' = <<>> /\ pc' = "rx" /\ UNCHANGED <<cur, buf, outcome, asked, quiet>>
     \/ WriteFails(apdu, inbox)
  /\ UNCHANGED reader

TxLast ==
  /\ pc = "tx" /\ Len(left) <= Chunk
  /\ LET apdu == Apdu("last", left, 0) IN
     \/ /\ Writes(apdu, inbox)
        /\ left' = <<>> /\ pc' = "rx" /\ UNCHANGED <<cur, buf, outcome, asked, quiet>>
     \/ WriteFails(apdu, inbox)
  /\ UNCHANGED reader

\* A mistake: A count of zero is read as nothing more.
More_Counted(r) == r.sw = "61" /\ r.count # 0

More(r) == r.sw = "61"

\* A mistake: what fido_buf_write answers is not looked at.
RxMore_Unchecked ==
  /\ pc = "rx" /\ inbox # <<>> /\ ~dead
  /\ LET r == Head(inbox)  got == buf \o r.data  apdu == Apdu("get", <<>>, r.count) IN
     /\ More(r)
     /\ \/ /\ Writes(apdu, Tail(inbox))
           /\ buf' = got /\ UNCHANGED <<pc, cur, left, outcome, asked, quiet>>
        \/ WriteFails(apdu, Tail(inbox))
  /\ UNCHANGED reader

\* rx_apdu and, while there is more, tx_get_response.
RxMore ==
  /\ pc = "rx" /\ inbox # <<>> /\ ~dead
  /\ LET r == Head(inbox)  got == buf \o r.data  apdu == Apdu("get", <<>>, r.count) IN
     /\ More(r) /\ Len(got) <= BufLen
     /\ \/ /\ Writes(apdu, Tail(inbox))
           /\ buf' = got /\ UNCHANGED <<pc, cur, left, outcome, asked, quiet>>
        \/ WriteFails(apdu, Tail(inbox))
  /\ UNCHANGED reader

\* rx_apdu, and the status word after the data; rx_cbor drops it unseen.
RxLast ==
  /\ pc = "rx" /\ inbox # <<>> /\ ~dead
  /\ LET r == Head(inbox)  got == buf \o r.data IN
     /\ ~More(r) /\ Len(got) + 2 <= BufLen
     /\ buf' = got /\ Finish("ok", got)
  /\ inbox' = Tail(inbox)
  /\ UNCHANGED <<reader, wire, dead, card, failures>>

\* fido_buf_write refuses what the caller's buffer does not hold.
RxOverflow ==
  /\ pc = "rx" /\ inbox # <<>> /\ ~dead
  /\ LET r == Head(inbox) IN
     Len(buf) + Len(r.data) + (IF More(r) THEN 0 ELSE 2) > BufLen
  /\ Fail /\ inbox' = Tail(inbox)
  /\ UNCHANGED <<reader, wire, dead, card, failures>>

\* A mistake: the timeout counts for the first response only.
RxTimeout_First ==
  /\ reader = "socket" /\ pc = "rx" /\ inbox = <<>> /\ buf = <<>>
  /\ Fail /\ UNCHANGED <<reader, wire, inbox, dead, card, failures>>

\* The caller's timeout, which only fido_nfc_read knows.
RxTimeout ==
  /\ reader = "socket" /\ pc = "rx" /\ inbox = <<>>
  /\ Fail /\ UNCHANGED <<reader, wire, inbox, dead, card, failures>>

RxDead ==
  /\ pc \in {"status", "rx"} /\ dead
  /\ Fail /\ UNCHANGED <<reader, wire, inbox, dead, card, failures>>

Host == TxChunk \/ Status \/ TxLast \/ RxMore \/ RxLast \/ RxOverflow \/ RxDead

\* All commands done and nothing under way.
Done == pc = "idle" /\ cur = MaxCmds /\ wire = <<>> /\ UNCHANGED vars

Next == Begin \/ Host \/ RxTimeout \/ CardAnswers \/ SocketDies \/ Done

Spec == Init /\ [][Next]_vars

\* The host's thread runs, a timeout expires, and the kernel ends an exchange
\* that the host awaits without one.
Fairness ==
  /\ WF_vars(Host) /\ WF_vars(RxTimeout)
  /\ WF_vars(pc = "status" /\ (CardAnswers \/ SocketDies))

-----------------------------------------------------------------------------

TypeOK ==
  /\ reader \in Readers /\ pc \in {"idle", "tx", "status", "rx"}
  /\ cur \in 0 .. MaxCmds /\ failures \in 0 .. MaxFailures
  /\ Len(buf) <= BufLen
  /\ reader = "pcsc" => wire = <<>> /\ Len(inbox) <= 1
  /\ dead => reader = "socket" /\ wire = <<>>

\* A request reaches the card as it was given to fido_tx, at every length around
\* a multiple of the chunk, if nothing of an earlier command was about when it began:
\* nfc_do_tx cannot take a broken chain back.
RequestsWhole ==
  \A t \in taken : t.quiet => t.got = t.asked

\* What fido_rx delivers is the reply of this command, in full unless the card
\* refused to give all of it: on PC/SC after whatever happened before, on the
\* socket if nothing of an earlier command was about when this one began.
OwnReply ==
  outcome.status = "ok" /\ (reader = "pcsc" \/ quiet) => outcome.bytes = Bytes(cur, given)

\* A command returns, even if the card never answers its last APDU.
CommandReturns == pc # "idle" ~> pc = "idle"
=============================================================================
