--------------------------- MODULE CtapHidRefines ---------------------------
(* The report layer of CtapHid implements the message layer of HidMessage:  *)
(* a reply is pending from the moment its first report is sent until its    *)
(* last one is read, or until some report of it is lost or refused.         *)
EXTENDS CtapHid

IsReply(f) == f.cid = Cid /\ f.type = CTAP_FRAME_INIT + CTAP_CMD_CBOR

\* The command whose reply starts with this report.
IdOf(f) == f.data[1][1]

Reports == {inq[i] : i \in 1 .. Len(inq)} \cup {dq[i] : i \in 1 .. Len(dq)}

Pending == {IdOf(f) : f \in {g \in Reports : IsReply(g)}}
           \cup (IF pc = "cont" THEN {buf[1][1]} ELSE {})

Message == INSTANCE HidMessage WITH
  busy    <- pc # "idle",
  made    <- {m[1] : m \in made},
  pending <- Pending,
  got     <- IF outcome.status = "ok" THEN outcome.bytes[1][1] ELSE 0

\* Every behaviour of the report layer, however reports are split, interleaved
\* with those of other channels, late or dropped, is one of the message layer.
MessageSpec == Message!Spec
=============================================================================
