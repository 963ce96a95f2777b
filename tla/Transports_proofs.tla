-------------------------- MODULE Transports_proofs --------------------------
(***************************************************************************)
(* What is below fido_tx and fido_rx.  NfcApdu: types, RequestsWhole and   *)
(* OwnReply, for chunks, responses, requests, replies and buffers of any   *)
(* length.  NfcTarget: FoundByThisOpen, for any number of openers, readers *)
(* and targets.  HidReports: types, OpenedClean, and that it implements    *)
(* ReportQueue, on every system, for any number of reports and opens.      *)
(***************************************************************************)
EXTENDS NfcApdu, NfcTarget, HidReports, SequenceTheorems, TLAPS

-----------------------------------------------------------------------------
(* NfcApdu                                                                 *)
-----------------------------------------------------------------------------

Byte == Nat \X Nat

Apdus == [ins : {"chained", "last", "get"}, id : Nat, data : Seq(Byte), count : Nat]

Responses == [data : Seq(Byte), sw : {"9000", "61", "error"}, count : Nat]

CardTypes ==
  /\ asm \in Seq(Byte) /\ rest \in Seq(Byte) /\ said \in Responses
  /\ given \in Nat /\ Len(rest) <= given

HostTypes ==
  /\ pc \in {"idle", "tx", "status", "rx"} /\ cur \in 0 .. MaxCmds
  /\ left \in Seq(Byte) /\ asked \in Seq(Byte)
  /\ buf \in Seq(Byte) /\ Len(buf) <= BufLen /\ quiet \in BOOLEAN

ReaderTypes ==
  /\ reader \in Readers /\ failures \in 0 .. MaxFailures /\ dead \in BOOLEAN
  /\ wire \in Seq(Apdus) /\ inbox \in Seq(Responses)
  /\ reader = "pcsc" => wire = <<>> /\ Len(inbox) <= 1
  /\ dead => reader = "socket" /\ wire = <<>>

Types == CardTypes /\ HostTypes /\ ReaderTypes

IsSuccess(r) == r.data = <<>> /\ r.sw = "9000"

\* The host and the card in step: what the card has, what is under way to it and
\* what the host has not sent are the request.
InStep ==
  /\ Len(wire) <= 1
  /\ Len(wire) = 1 /\ Head(wire).ins = "last" => asked = asm \o Head(wire).data
  /\ pc = "tx" => wire = <<>> /\ inbox = <<>> /\ asked = asm \o left
  /\ pc = "status" =>
       \/ dead
       \/ /\ Len(wire) = 1 /\ inbox = <<>> /\ Head(wire).ins = "chained"
          /\ asked = (asm \o Head(wire).data) \o left
       \/ /\ wire = <<>> /\ Len(inbox) = 1
          /\ IsSuccess(Head(inbox)) => asked = asm \o left

\* What the host has, what the response brings and what the card still keeps
\* are the reply.
InPieces ==
  /\ pc \in {"tx", "status"} => buf = <<>>
  /\ pc = "rx" /\ ~dead =>
       \/ /\ wire = <<>> /\ Len(inbox) = 1
          /\ (buf \o Head(inbox).data) \o rest = Bytes(cur, given)
          /\ ~More(Head(inbox)) => rest = <<>>
       \/ /\ Len(wire) = 1 /\ inbox = <<>> /\ Head(wire).id = cur
          /\ \/ Head(wire).ins = "last" /\ buf = <<>>
             \/ Head(wire).ins = "get" /\ buf \o rest = Bytes(cur, given)
  /\ outcome.status = "ok" => pc = "idle" /\ wire = <<>> /\ outcome.bytes = Bytes(cur, given)

Inv ==
  /\ Types
  /\ RequestsWhole
  /\ quiet => InStep
  /\ reader = "pcsc" \/ quiet => InPieces
-----------------------------------------------------------------------------
(* Sequences of bytes.                                                     *)

LEMMA TakeDrop ==
  ASSUME NEW s \in Seq(Byte), NEW n \in Nat
  PROVE  /\ Take(s, n) \in Seq(Byte) /\ Drop(s, n) \in Seq(Byte)
         /\ Take(s, n) \o Drop(s, n) = s /\ Len(Drop(s, n)) <= Len(s)
<1>1. Len(s) \in Nat /\ \A i \in 1 .. Len(s) : s[i] \in Byte BY LenProperties, ElementOfSeq
<1>2. SubSeq(s, 1, Len(s)) = s BY SubSeqFull
<1>3. CASE n < Len(s)
  <2>1. Take(s, n) = SubSeq(s, 1, n) BY <1>3 DEF Take
  <2>2. \A i \in 1 .. n : s[i] \in Byte BY <1>1, <1>3
  <2>3. \A i \in n + 1 .. Len(s) : s[i] \in Byte BY <1>1
  <2>4. SubSeq(s, 1, n) \in Seq(Byte) BY <2>2, SubSeqProperties
  <2>5. /\ SubSeq(s, n + 1, Len(s)) \in Seq(Byte)
        /\ Len(SubSeq(s, n + 1, Len(s)))
             = IF n + 1 <= Len(s) THEN Len(s) - (n + 1) + 1 ELSE 0
    <3>1. n + 1 \in Int /\ Len(s) \in Int BY <1>1
    <3>2. QED BY <2>3, <3>1, SubSeqProperties
  <2>6. SubSeq(s, 1, n) \o SubSeq(s, n + 1, Len(s)) = SubSeq(s, 1, Len(s))
    <3>1. 1 \in 1 .. Len(s) + 1 /\ n \in 1 - 1 .. Len(s) /\ Len(s) \in n .. Len(s)
      BY <1>1, <1>3
    <3>2. QED BY <3>1, ConcatAdjacentSubSeq
  <2>7. Drop(s, n) = SubSeq(s, n + 1, Len(s)) BY DEF Drop
  <2>8. Len(Drop(s, n)) <= Len(s)
    <3>1. Len(Drop(s, n)) = IF n + 1 <= Len(s) THEN Len(s) - (n + 1) + 1 ELSE 0
      BY <2>5, <2>7, Zenon
    <3>2. QED BY <1>1, <3>1
  <2>9. QED BY <1>2, <2>1, <2>4, <2>5, <2>6, <2>7, <2>8, Zenon
<1>4. CASE ~(n < Len(s))
  <2>1. Take(s, n) = s BY <1>2, <1>4 DEF Take
  <2>2. Drop(s, n) = <<>> BY <1>1, <1>4, SubSeqEmpty DEF Drop
  <2>3. Len(<<>>) = 0 /\ <<>> \in Seq(Byte) BY EmptySeq
  <2>4. QED BY <1>1, <2>1, <2>2, <2>3, ConcatEmptySeq
<1>5. QED BY <1>3, <1>4

LEMMA BytesIs ==
  ASSUME NEW id \in Nat, NEW n \in Nat
  PROVE  Bytes(id, n) \in Seq(Byte) /\ Len(Bytes(id, n)) = n
         /\ \A i \in 1 .. n : Bytes(id, n)[i] = <<id, i>>
<1>1. Bytes(id, n) \in [1 .. n -> Byte] BY DEF Bytes, Byte
<1>2. Bytes(id, n) \in Seq(Byte) BY <1>1, SeqDef
<1>3. DOMAIN Bytes(id, n) = 1 .. n BY DEF Bytes
<1>4. DOMAIN Bytes(id, n) = 1 .. Len(Bytes(id, n)) /\ Len(Bytes(id, n)) \in Nat
  BY <1>2, LenProperties
<1>5. Len(Bytes(id, n)) = n BY <1>3, <1>4
<1>6. \A i \in 1 .. n : Bytes(id, n)[i] = <<id, i>> BY DEF Bytes
<1>7. QED BY <1>2, <1>5, <1>6

\* Of a reply, what is not among the last bytes is a shorter reply.
LEMMA BytesFirst ==
  ASSUME NEW id \in Nat, NEW n \in Nat, NEW b \in Seq(Byte), NEW r \in Seq(Byte),
         b \o r = Bytes(id, n)
  PROVE  b = Bytes(id, n - Len(r)) /\ n - Len(r) \in Nat
<1>1. /\ Len(b \o r) = Len(b) + Len(r)
      /\ \A i \in 1 .. Len(b) + Len(r) : (b \o r)[i] = IF i <= Len(b) THEN b[i] ELSE r[i - Len(b)]
  BY ConcatProperties
<1>2. Len(b) \in Nat /\ Len(r) \in Nat BY LenProperties
<1>3. Len(Bytes(id, n)) = n /\ \A i \in 1 .. n : Bytes(id, n)[i] = <<id, i>> BY BytesIs
<1>4. n - Len(r) = Len(b)
  <2>1. Len(b \o r) = n BY <1>3, Zenon
  <2>2. n = Len(b) + Len(r) BY <1>1, <2>1, Zenon
  <2>3. QED BY <1>2, <2>2
<1>5. /\ Bytes(id, Len(b)) \in Seq(Byte) /\ Len(Bytes(id, Len(b))) = Len(b)
      /\ \A i \in 1 .. Len(b) : Bytes(id, Len(b))[i] = <<id, i>>
  BY <1>2, BytesIs
<1>6. \A i \in 1 .. Len(b) : b[i] = Bytes(id, Len(b))[i]
  <2>1. TAKE i \in 1 .. Len(b)
  <2>2. i \in 1 .. n /\ i \in 1 .. Len(b) + Len(r) /\ i <= Len(b) BY <1>2, <1>4
  <2>3. QED BY <1>1, <1>3, <1>5, <2>2
<1>7. b = Bytes(id, Len(b)) BY <1>5, <1>6, SeqEqual
<1>8. QED BY <1>2, <1>4, <1>7

-----------------------------------------------------------------------------
(* The card.                                                               *)

LEMMA PartIs ==
  ASSUME NEW r \in Seq(Byte), NEW n \in Nat
  PROVE  /\ Part(r, n) \in Responses
         /\ Part(r, n).data \o Drop(r, n) = r
         /\ ~More(Part(r, n)) => Drop(r, n) = <<>>
<1>1. /\ Take(r, n) \in Seq(Byte) /\ Drop(r, n) \in Seq(Byte)
      /\ Take(r, n) \o Drop(r, n) = r
  BY TakeDrop
<1>2. Len(Drop(r, n)) \in Nat BY <1>1, LenProperties
<1>3. /\ Part(r, n).data = Take(r, n)
      /\ Part(r, n).sw = IF Drop(r, n) = <<>> THEN "9000" ELSE "61"
  BY DEF Part, Response
<1>4. Part(r, n) \in Responses BY <1>1, <1>2 DEF Part, Response, Responses
<1>5. QED BY <1>1, <1>3, <1>4 DEF More

\* The card has the data of an APDU, or refuses it.
LEMMA CardStep ==
  ASSUME CardTypes, NEW a \in Apdus, CardTakes(a)
  PROVE  /\ CardTypes'
         /\ a.ins # "last" => taken' = taken
         /\ a.ins = "chained" => (IsSuccess(said') => asm' = asm \o a.data)
         /\ a.ins = "last" =>
              /\ \A t \in taken' \ taken :
                   t = [got |-> asm \o a.data, asked |-> asked, quiet |-> quiet]
              /\ said'.data \o rest' = Bytes(a.id, given')
         /\ a.ins = "get" =>
              \A id \in Nat, b \in Seq(Byte) :
                b \o rest = Bytes(id, given) => (b \o said'.data) \o rest' = Bytes(id, given')
         /\ a.ins \in {"last", "get"} /\ ~More(said') => rest' = <<>>
<1> DEFINE R == Response(<<>>, "9000", 0)  E == Response(<<>>, "error", 0)
<1>1. /\ R \in Responses /\ E \in Responses /\ R.data = <<>> /\ E.data = <<>>
      /\ R.sw = "9000" /\ E.sw = "error"
  <2>1. <<>> \in Seq(Byte) BY EmptySeq
  <2>2. QED BY <2>1 DEF Response, Responses
<1>2. /\ asm \in Seq(Byte) /\ rest \in Seq(Byte) /\ given \in Nat /\ Len(rest) <= given
      /\ Len(rest) \in Nat /\ <<>> \in Seq(Byte) /\ Len(<<>>) = 0
  BY EmptySeq, LenProperties DEF CardTypes
<1>3. a.ins \in {"chained", "last", "get"} /\ a.id \in Nat /\ a.data \in Seq(Byte) /\ a.count \in Nat
  BY DEF Apdus
<1> HIDE DEF R, E
<1>4. CASE /\ a.ins = "chained"
           /\ asm' = asm \o a.data /\ rest' = <<>> /\ UNCHANGED <<given, taken>>
           /\ said' = R
  <2>1. asm \o a.data \in Seq(Byte) BY <1>2, <1>3, ConcatProperties
  <2>2. CardTypes' BY <1>1, <1>2, <1>4, <2>1 DEF CardTypes
  <2>3. QED BY <1>4, <2>2
<1>5. CASE /\ a.ins = "last"
           /\ asm' = <<>>
           /\ taken' = taken \cup {[got |-> asm \o a.data, asked |-> asked, quiet |-> quiet]}
           /\ given' \in ReplyLens
           /\ rest' = Drop(Bytes(a.id, given'), Room) /\ said' = Part(Bytes(a.id, given'), Room)
  <2>1. given' \in Nat /\ Room \in Nat BY <1>5, NfcApduAssumption
  <2>2. Bytes(a.id, given') \in Seq(Byte) /\ Len(Bytes(a.id, given')) = given'
    BY <1>3, <2>1, BytesIs
  <2>3. rest' \in Seq(Byte) /\ Len(rest') <= given' BY <1>5, <2>1, <2>2, TakeDrop
  <2>4. /\ said' \in Responses /\ said'.data \o rest' = Bytes(a.id, given')
        /\ ~More(said') => rest' = <<>>
    BY <1>5, <2>1, <2>2, PartIs
  <2>5. CardTypes' BY <1>2, <1>5, <2>1, <2>3, <2>4 DEF CardTypes
  <2>6. \A t \in taken' \ taken : t = [got |-> asm \o a.data, asked |-> asked, quiet |-> quiet]
    BY <1>5
  <2>7. QED BY <1>5, <2>4, <2>5, <2>6
<1>6. ASSUME a.ins = "get", NEW n \in Nat,
             rest' = Drop(rest, n), said' = Part(rest, n), UNCHANGED <<asm, given, taken>>
      PROVE  /\ CardTypes' /\ taken' = taken
             /\ ~More(said') => rest' = <<>>
             /\ \A id \in Nat, b \in Seq(Byte) :
                  b \o rest = Bytes(id, given) => (b \o said'.data) \o rest' = Bytes(id, given')
  <2>1. rest' \in Seq(Byte) /\ Len(rest') <= Len(rest) BY <1>2, <1>6, TakeDrop
  <2>2. /\ said' \in Responses /\ said'.data \o rest' = rest
        /\ ~More(said') => rest' = <<>>
    BY <1>2, <1>6, PartIs
  <2>3. said'.data \in Seq(Byte) BY <2>2 DEF Responses
  <2>4. Len(rest') \in Nat BY <2>1, LenProperties
  <2>5. CardTypes' BY <1>2, <1>6, <2>1, <2>2, <2>4 DEF CardTypes
  <2>6. ASSUME NEW id \in Nat, NEW b \in Seq(Byte), b \o rest = Bytes(id, given)
        PROVE  (b \o said'.data) \o rest' = Bytes(id, given')
    <3>1. (b \o said'.data) \o rest' = b \o (said'.data \o rest')
      <4>1. \A d \in Seq(Byte), e \in Seq(Byte) : (b \o d) \o e = b \o (d \o e)
        BY ConcatAssociative
      <4>2. QED BY <2>1, <2>3, <4>1, Zenon
    <3>2. QED BY <1>6, <2>2, <2>6, <3>1
  <2>7. QED BY <1>6, <2>2, <2>5, <2>6
<1>7. CASE /\ a.ins = "get"
           /\ LET n == IF a.count = 0 THEN Room ELSE a.count IN
              rest' = Drop(rest, n) /\ said' = Part(rest, n)
           /\ UNCHANGED <<asm, given, taken>>
  <2>1. PICK n : /\ n = IF a.count = 0 THEN Room ELSE a.count
                 /\ rest' = Drop(rest, n) /\ said' = Part(rest, n)
    BY <1>7
  <2>2. n \in Nat BY <1>3, <2>1, NfcApduAssumption
  <2>3. /\ CardTypes' /\ taken' = taken
        /\ ~More(said') => rest' = <<>>
        /\ \A id \in Nat, b \in Seq(Byte) :
             b \o rest = Bytes(id, given) => (b \o said'.data) \o rest' = Bytes(id, given')
    BY <1>6, <1>7, <2>1, <2>2
  <2>4. QED BY <1>7, <2>3
<1>8. CASE /\ asm' = <<>> /\ rest' = <<>> /\ UNCHANGED taken
           /\ given' = IF a.ins = "get" THEN given - Len(rest) ELSE 0
           /\ said' = E
  <2>1. CardTypes' BY <1>1, <1>2, <1>8 DEF CardTypes
  <2>2. ~IsSuccess(said') BY <1>1, <1>8 DEF IsSuccess
  <2>3. ASSUME a.ins = "last" PROVE said'.data \o rest' = Bytes(a.id, given')
    <3>1. Bytes(a.id, 0) \in Seq(Byte) /\ Len(Bytes(a.id, 0)) = 0 BY <1>3, BytesIs
    <3>2. Bytes(a.id, 0) = <<>> BY <3>1, EmptySeq
    <3>3. <<>> \o <<>> = <<>> BY <1>2, ConcatEmptySeq
    <3>4. QED BY <1>1, <1>8, <2>3, <3>2, <3>3
  <2>4. ASSUME a.ins = "get", NEW id \in Nat, NEW b \in Seq(Byte), b \o rest = Bytes(id, given)
        PROVE  (b \o said'.data) \o rest' = Bytes(id, given')
    <3>1. ASSUME NEW n \in Nat, NEW r \in Seq(Byte), b \o r = Bytes(id, n)
          PROVE  b = Bytes(id, n - Len(r)) /\ n - Len(r) \in Nat
      BY <3>1, BytesFirst, Zenon
    <3>2. given \in Nat /\ rest \in Seq(Byte) BY <1>2
    <3>3. b = Bytes(id, given - Len(rest)) BY <2>4, <3>1, <3>2, Zenon
    <3>4. b \o <<>> = b BY ConcatEmptySeq
    <3>5. QED BY <1>1, <1>8, <2>4, <3>3, <3>4
  <2>5. QED BY <1>8, <2>1, <2>2, <2>3, <2>4
<1>9. QED BY <1>4, <1>5, <1>7, <1>8 DEF CardTakes, R, E
-----------------------------------------------------------------------------
(* The queues.                                                             *)

LEMMA OneOf ==
  ASSUME NEW S, NEW s \in Seq(S)
  PROVE  /\ Len(s) \in Nat /\ (s = <<>> <=> Len(s) = 0)
         /\ s # <<>> => Head(s) \in S /\ Tail(s) \in Seq(S) /\ Len(Tail(s)) = Len(s) - 1
         /\ Len(s) = 1 => Tail(s) = <<>>
<1>1. Len(s) \in Nat /\ (s = <<>> <=> Len(s) = 0) BY EmptySeq, LenProperties
<1>2. ASSUME s # <<>>
      PROVE  Head(s) \in S /\ Tail(s) \in Seq(S) /\ Len(Tail(s)) = Len(s) - 1
  BY <1>2, HeadTailProperties
<1>3. ASSUME Len(s) = 1 PROVE Tail(s) = <<>>
  <2>1. s # <<>> BY <1>1, <1>3
  <2>2. Tail(s) \in Seq(S) /\ Len(Tail(s)) = 0 BY <1>2, <1>3, <2>1
  <2>3. QED BY <2>2, EmptySeq
<1>4. QED BY <1>1, <1>2, <1>3

LEMMA JustOne ==
  ASSUME NEW S, NEW e \in S
  PROVE  /\ <<e>> \in Seq(S) /\ Len(<<e>>) = 1 /\ Head(<<e>>) = e
         /\ Append(<<>>, e) = <<e>> /\ <<e>> # <<>>
OBVIOUS

LEMMA ApduIs ==
  ASSUME Types, NEW ins \in {"chained", "last", "get"}, NEW d \in Seq(Byte), NEW n \in Nat
  PROVE  /\ Apdu(ins, d, n) \in Apdus
         /\ Apdu(ins, d, n).ins = ins /\ Apdu(ins, d, n).id = cur
         /\ Apdu(ins, d, n).data = d /\ Apdu(ins, d, n).count = n
<1>1. cur \in Nat BY NfcApduAssumption DEF Types, HostTypes
<1>2. QED BY <1>1 DEF Apdu, Apdus

-----------------------------------------------------------------------------
(* What the steps of the host and of the reader have in common.            *)

\* The card takes a last APDU of a command that began with nothing about.
LEMMA WholeStep ==
  ASSUME Types, RequestsWhole, NEW a \in Apdus, CardTakes(a),
         quiet /\ a.ins = "last" => asked = asm \o a.data
  PROVE  RequestsWhole'
<1>1. /\ a.ins # "last" => taken' = taken
      /\ a.ins = "last" => \A t \in taken' \ taken :
           t = [got |-> asm \o a.data, asked |-> asked, quiet |-> quiet]
  BY CardStep DEF Types
<1>2. SUFFICES ASSUME NEW t \in taken', t.quiet PROVE t.got = t.asked
  BY DEF RequestsWhole
<1>3. CASE t \in taken BY <1>2, <1>3 DEF RequestsWhole
<1>4. CASE t \notin taken
  <2>1. a.ins = "last" /\ t = [got |-> asm \o a.data, asked |-> asked, quiet |-> quiet]
    BY <1>1, <1>2, <1>4
  <2>2. t.got = asm \o a.data /\ t.asked = asked /\ t.quiet = quiet BY <2>1
  <2>3. QED BY <1>2, <2>1, <2>2
<1>5. QED BY <1>3, <1>4

LEMMA WriteTypes ==
  ASSUME Types, NEW a \in Apdus, NEW q \in Seq(Responses), Writes(a, q), reader' = reader
  PROVE  CardTypes' /\ ReaderTypes'
<1>1. CASE reader = "pcsc" /\ CardTakes(a) /\ inbox' = <<said'>> /\ UNCHANGED <<wire, dead, failures>>
  <2>1. CardTypes' BY <1>1, CardStep DEF Types
  <2>2. said' \in Responses BY <2>1 DEF CardTypes
  <2>3. inbox' \in Seq(Responses) /\ Len(inbox') = 1 BY <1>1, <2>2, JustOne
  <2>4. QED BY <1>1, <2>1, <2>3 DEF Types, ReaderTypes
<1>2. CASE /\ reader = "socket" /\ ~dead
           /\ wire' = Append(wire, a) /\ inbox' = q /\ UNCHANGED <<card, dead, failures>>
  <2>1. CardTypes' BY <1>2 DEF Types, CardTypes, card
  <2>2. wire' \in Seq(Apdus) BY <1>2, AppendProperties DEF Types, ReaderTypes
  <2>3. QED BY <1>2, <2>1, <2>2 DEF Types, ReaderTypes
<1>3. QED BY <1>1, <1>2 DEF Writes

LEMMA WriteWhole ==
  ASSUME Types, RequestsWhole, NEW a \in Apdus, NEW q, Writes(a, q),
         quiet /\ a.ins = "last" => asked = asm \o a.data
  PROVE  RequestsWhole'
<1>1. CASE CardTakes(a) BY <1>1, WholeStep
<1>2. CASE UNCHANGED card BY <1>2 DEF RequestsWhole, card
<1>3. QED BY <1>1, <1>2 DEF Writes

\* A command that fails leaves at most an APDU that the card may still have.
LEMMA AfterFailure ==
  ASSUME Inv, Fail, CardTypes', ReaderTypes', RequestsWhole',
         wire' = <<>> \/ UNCHANGED <<wire, asm>>
  PROVE  Inv'
<1>1. pc' = "idle" /\ outcome' = [status |-> "error", bytes |-> <<>>]
      /\ UNCHANGED <<cur, left, asked, quiet, buf>>
  BY DEF Fail, Finish
<1>2. HostTypes' BY <1>1 DEF Inv, Types, HostTypes
<1>3. InPieces' BY <1>1 DEF InPieces
<1>4. ASSUME quiet' PROVE InStep'
  <2>1. quiet /\ InStep BY <1>1, <1>4 DEF Inv
  <2>2. Len(<<>>) = 0 OBVIOUS
  <2>3. CASE wire' = <<>> BY <1>1, <2>2, <2>3 DEF InStep
  <2>4. CASE UNCHANGED <<wire, asm>> BY <1>1, <2>1, <2>4 DEF InStep
  <2>5. QED BY <2>3, <2>4
<1>5. QED BY <1>2, <1>3, <1>4 DEF Inv, Types

LEMMA WriteFailsKeeps ==
  ASSUME Inv, NEW a \in Apdus, NEW q \in Seq(Responses), WriteFails(a, q), reader' = reader,
         quiet /\ a.ins = "last" => asked = asm \o a.data
  PROVE  Inv'
<1>1. CASE /\ reader = "pcsc" /\ failures < MaxFailures
           /\ UNCHANGED card \/ CardTakes(a)
           /\ inbox' = <<>> /\ failures' = failures + 1
           /\ Fail /\ UNCHANGED <<wire, dead>>
  <2>1. CardTypes' /\ RequestsWhole'
    <3>1. CASE UNCHANGED card BY <3>1 DEF Inv, Types, CardTypes, RequestsWhole, card
    <3>2. CASE CardTakes(a) BY <3>2, CardStep, WholeStep DEF Inv, Types
    <3>3. QED BY <1>1, <3>1, <3>2
  <2>2. <<>> \in Seq(Responses) /\ Len(<<>>) = 0 BY EmptySeq
  <2>3. MaxFailures \in Nat BY NfcApduAssumption
  <2>4. ReaderTypes' BY <1>1, <2>2, <2>3 DEF Inv, Types, ReaderTypes
  <2>5. wire' = <<>> BY <1>1 DEF Inv, Types, ReaderTypes
  <2>6. QED BY <1>1, <2>1, <2>4, <2>5, AfterFailure
<1>2. CASE /\ reader = "socket" /\ dead
           /\ inbox' = q
           /\ Fail /\ UNCHANGED <<card, wire, dead, failures>>
  <2>1. CardTypes' /\ RequestsWhole' /\ UNCHANGED asm
    BY <1>2 DEF Inv, Types, CardTypes, RequestsWhole, card
  <2>2. ReaderTypes' BY <1>2 DEF Inv, Types, ReaderTypes
  <2>3. QED BY <1>2, <2>1, <2>2, AfterFailure
<1>3. QED BY <1>1, <1>2 DEF WriteFails
-----------------------------------------------------------------------------
(* The steps.                                                              *)

LEMMA BeginKeeps == ASSUME Inv, Begin PROVE Inv'
<1>1. /\ pc' = "tx" /\ cur' = cur + 1 /\ cur < MaxCmds /\ buf' = <<>> /\ outcome' = None
      /\ asked' = left' /\ UNCHANGED <<reader, wire, inbox, dead, card, failures>>
      /\ quiet' = (asm = <<>> /\ wire = <<>> /\ inbox = <<>>)
  BY DEF Begin
<1>2. cur \in Nat /\ cur' \in Nat /\ MaxCmds \in Nat
  BY <1>1, NfcApduAssumption DEF Inv, Types, HostTypes
<1>3. left' \in Seq(Byte)
  <2>1. PICK n \in RequestLens : left' = Bytes(cur', n) BY DEF Begin
  <2>2. n \in Nat BY <2>1, NfcApduAssumption
  <2>3. PICK c \in Nat : c = cur' BY <1>2
  <2>4. Bytes(c, n) \in Seq(Byte) BY <2>2, BytesIs
  <2>5. QED BY <2>1, <2>3, <2>4
<1>4. <<>> \in Seq(Byte) /\ Len(<<>>) = 0 /\ Len(<<>>) <= BufLen
  BY EmptySeq, NfcApduAssumption
<1>5. HostTypes' BY <1>1, <1>2, <1>3, <1>4 DEF Inv, Types, HostTypes
<1>6. CardTypes' /\ ReaderTypes' /\ RequestsWhole'
  BY <1>1 DEF Inv, Types, CardTypes, ReaderTypes, RequestsWhole, card
<1>7. ASSUME quiet' PROVE InStep'
  <2>1. asm' = <<>> /\ wire' = <<>> /\ inbox' = <<>> BY <1>1, <1>7 DEF card
  <2>2. <<>> \o left' = left' BY <1>3, ConcatEmptySeq
  <2>3. QED BY <1>1, <1>4, <2>1, <2>2 DEF InStep
<1>8. InPieces' BY <1>1 DEF InPieces, None
<1>9. QED BY <1>5, <1>6, <1>7, <1>8 DEF Inv, Types

LEMMA Regroup ==
  ASSUME NEW a \in Seq(Byte), NEW b \in Seq(Byte), NEW c \in Seq(Byte)
  PROVE  (a \o b) \o c = a \o (b \o c)
BY ConcatAssociative

\* The data of a chained APDU follows what the card has.
LEMMA ChunkSent ==
  ASSUME Types, asked = asm \o left, NEW d \in Seq(Byte), NEW l \in Seq(Byte), d \o l = left
  PROVE  asked = (asm \o d) \o l
<1>1. asm \in Seq(Byte) BY DEF Types, CardTypes
<1>2. \A a \in Seq(Byte) : (a \o d) \o l = a \o (d \o l) BY Regroup
<1>3. QED BY <1>1, <1>2, Zenon

LEMMA TxChunkKeeps == ASSUME Inv, TxChunk PROVE Inv'
<1>1. left \in Seq(Byte) /\ inbox \in Seq(Responses) /\ Chunk \in Nat
  BY NfcApduAssumption DEF Inv, Types, HostTypes, ReaderTypes
<1>2. PICK d \in Seq(Byte), l \in Seq(Byte) :
        d = Take(left, Chunk) /\ l = Drop(left, Chunk) /\ d \o l = left
  BY <1>1, TakeDrop
<1>3. PICK a \in Apdus : /\ a = Apdu("chained", d, 0)
                         /\ a.ins = "chained" /\ a.id = cur /\ a.data = d
  BY ApduIs DEF Inv
<1>4. pc = "tx" /\ reader' = reader BY DEF TxChunk
<1>5. \/ /\ Writes(a, inbox) /\ left' = l /\ pc' = "status"
         /\ UNCHANGED <<cur, buf, outcome, asked, quiet>>
      \/ WriteFails(a, inbox)
  BY <1>2, <1>3 DEF TxChunk
<1>6. CASE WriteFails(a, inbox) BY <1>1, <1>3, <1>4, <1>6, WriteFailsKeeps
<1>7. CASE /\ Writes(a, inbox) /\ left' = l /\ pc' = "status"
           /\ UNCHANGED <<cur, buf, outcome, asked, quiet>>
  <2>1. CardTypes' /\ ReaderTypes' BY <1>1, <1>4, <1>7, WriteTypes DEF Inv
  <2>2. RequestsWhole' BY <1>3, <1>7, WriteWhole DEF Inv
  <2>3. HostTypes' BY <1>7 DEF Inv, Types, HostTypes
  <2>4. ASSUME reader' = "pcsc" \/ quiet' PROVE InPieces'
    <3>1. InPieces BY <1>4, <1>7, <2>4 DEF Inv
    <3>2. QED BY <1>4, <1>7, <3>1 DEF InPieces
  <2>5. ASSUME quiet' PROVE InStep'
    <3>1. quiet /\ wire = <<>> /\ inbox = <<>> /\ asked = asm \o left
      BY <1>4, <1>7, <2>5 DEF Inv, InStep
    <3>2. asked = (asm \o d) \o l BY <1>2, <3>1, ChunkSent DEF Inv
    <3>3. CASE reader = "pcsc" /\ CardTakes(a) /\ inbox' = <<said'>> /\ UNCHANGED wire
      <4>1. IsSuccess(said') => asm' = asm \o d BY <1>3, <3>3, CardStep DEF Inv, Types
      <4>2. said' \in Responses BY <2>1 DEF CardTypes
      <4>3. Len(inbox') = 1 /\ Head(inbox') = said' BY <3>3, <4>2, JustOne
      <4>4. wire' = <<>> /\ Len(wire') = 0 BY <3>1, <3>3
      <4>5. IsSuccess(Head(inbox')) => asked' = asm' \o left'
        BY <1>7, <3>2, <4>1, <4>3
      <4>6. QED BY <1>7, <4>3, <4>4, <4>5 DEF InStep
    <3>4. CASE wire' = Append(wire, a) /\ inbox' = inbox /\ UNCHANGED card
      <4>1. wire' = <<a>> BY <3>1, <3>4, JustOne
      <4>2. Len(wire') = 1 /\ Head(wire') = a BY <4>1, JustOne
      <4>3. Head(wire').ins = "chained" /\ Head(wire').data = d BY <1>3, <4>2
      <4>4. asked' = asked /\ asm' = asm /\ left' = l BY <1>7, <3>4 DEF card
      <4>5. asked' = (asm' \o Head(wire').data) \o left' BY <3>2, <4>3, <4>4, Zenon
      <4>6. pc' = "status" /\ inbox' = <<>> /\ Len(wire') <= 1 BY <1>7, <3>1, <3>4, <4>2
      <4>7. QED BY <4>2, <4>3, <4>5, <4>6, Zenon DEF InStep
    <3>5. QED BY <1>7, <3>3, <3>4 DEF Writes
  <2>6. QED BY <2>1, <2>2, <2>3, <2>4, <2>5 DEF Inv, Types
<1>8. QED BY <1>5, <1>6, <1>7

LEMMA TxLastKeeps == ASSUME Inv, TxLast PROVE Inv'
<1>1. left \in Seq(Byte) /\ inbox \in Seq(Responses) /\ <<>> \in Seq(Byte)
  BY EmptySeq DEF Inv, Types, HostTypes, ReaderTypes
<1>2. PICK a \in Apdus : /\ a = Apdu("last", left, 0)
                         /\ a.ins = "last" /\ a.id = cur /\ a.data = left
  BY <1>1, ApduIs DEF Inv
<1>3. pc = "tx" /\ reader' = reader BY DEF TxLast
<1>4. \/ /\ Writes(a, inbox) /\ left' = <<>> /\ pc' = "rx"
         /\ UNCHANGED <<cur, buf, outcome, asked, quiet>>
      \/ WriteFails(a, inbox)
  BY <1>2 DEF TxLast
<1>5. quiet => wire = <<>> /\ inbox = <<>> /\ asked = asm \o a.data
  BY <1>2, <1>3 DEF Inv, InStep
<1>6. CASE WriteFails(a, inbox) BY <1>1, <1>3, <1>5, <1>6, WriteFailsKeeps
<1>7. CASE /\ Writes(a, inbox) /\ left' = <<>> /\ pc' = "rx"
           /\ UNCHANGED <<cur, buf, outcome, asked, quiet>>
  <2>1. CardTypes' /\ ReaderTypes' BY <1>1, <1>3, <1>7, WriteTypes DEF Inv
  <2>2. RequestsWhole' BY <1>5, <1>7, WriteWhole DEF Inv
  <2>3. HostTypes' BY <1>1, <1>7 DEF Inv, Types, HostTypes
  <2>4. CASE reader = "pcsc" /\ CardTakes(a) /\ inbox' = <<said'>> /\ UNCHANGED <<wire, dead>>
    <3>1. said' \in Responses BY <2>1 DEF CardTypes
    <3>2. Len(inbox') = 1 /\ Head(inbox') = said' BY <2>4, <3>1, JustOne
    <3>3. wire' = <<>> /\ Len(wire') = 0 BY <2>4 DEF Inv, Types, ReaderTypes
    <3>4. InStep' BY <1>7, <3>3 DEF InStep
    <3>5. /\ said'.data \o rest' = Bytes(cur, given')
          /\ ~More(said') => rest' = <<>>
      BY <1>2, <2>4, CardStep DEF Inv, Types
    <3>6. InPieces /\ buf = <<>> BY <1>3, <2>4 DEF Inv, InPieces
    <3>7. said'.data \in Seq(Byte) BY <3>1 DEF Responses
    <3>8. <<>> \o said'.data = said'.data BY <3>7, ConcatEmptySeq
    <3>9. (buf' \o Head(inbox').data) \o rest' = Bytes(cur', given')
      BY <1>7, <3>2, <3>5, <3>6, <3>8
    <3>10. InPieces' BY <1>3, <1>7, <3>2, <3>3, <3>5, <3>6, <3>9 DEF InPieces
    <3>11. QED BY <2>1, <2>2, <2>3, <3>4, <3>10 DEF Inv, Types
  <2>5. CASE reader = "socket" /\ wire' = Append(wire, a) /\ inbox' = inbox /\ UNCHANGED card
    <3>1. ASSUME quiet'
          PROVE  Len(wire') = 1 /\ Head(wire') = a /\ inbox' = <<>> /\ quiet /\ InPieces /\ InStep
      <4>1. wire' = <<a>> BY <1>5, <1>7, <2>5, <3>1, JustOne
      <4>2. Len(wire') = 1 /\ Head(wire') = a BY <4>1, JustOne
      <4>3. QED BY <1>5, <1>7, <2>5, <3>1, <4>2 DEF Inv
    <3>2. ASSUME quiet' PROVE InStep'
      <4>1. asked' = asm' \o a.data BY <1>5, <1>7, <2>5, <3>1, <3>2 DEF card
      <4>2. Len(wire') = 1 /\ Head(wire') = a BY <3>1, <3>2, Zenon
      <4>3. Len(wire') <= 1 BY <4>2
      <4>4. asked' = asm' \o Head(wire').data BY <4>1, <4>2, Zenon
      <4>5. pc' # "tx" /\ pc' # "status" BY <1>7
      <4>6. QED BY <4>2, <4>3, <4>4, <4>5, Zenon DEF InStep
    <3>3. ASSUME quiet' PROVE InPieces'
      <4>1. buf' = <<>> /\ outcome'.status # "ok" BY <1>3, <1>7, <3>1, <3>3 DEF InPieces
      <4>2. QED BY <1>2, <1>7, <3>1, <3>3, <4>1 DEF InPieces
    <3>4. reader' # "pcsc" BY <1>3, <2>5
    <3>5. QED BY <2>1, <2>2, <2>3, <3>2, <3>3, <3>4 DEF Inv, Types
  <2>6. QED BY <1>7, <2>4, <2>5 DEF Writes
<1>8. QED BY <1>4, <1>6, <1>7
\* A failure in which the card and the APDUs under way stay as they are.
LEMMA FailureKeeps ==
  ASSUME Inv, Fail, inbox' = inbox \/ (inbox # <<>> /\ inbox' = Tail(inbox)),
         UNCHANGED <<reader, wire, dead, card, failures>>
  PROVE  Inv'
<1>1. inbox' \in Seq(Responses) /\ (reader = "pcsc" => Len(inbox') <= 1)
  <2>1. inbox \in Seq(Responses) /\ (reader = "pcsc" => Len(inbox) <= 1)
    BY DEF Inv, Types, ReaderTypes
  <2>2. CASE inbox' = inbox BY <2>1, <2>2
  <2>3. CASE inbox # <<>> /\ inbox' = Tail(inbox)
    <3>1. Tail(inbox) \in Seq(Responses) /\ Len(Tail(inbox)) = Len(inbox) - 1 /\ Len(inbox) \in Nat
      BY <2>1, <2>3, OneOf
    <3>2. inbox' = Tail(inbox) /\ inbox' \in Seq(Responses) BY <2>3, <3>1, Zenon
    <3>3. Len(inbox') = Len(inbox) - 1 BY <3>1, <3>2, Zenon
    <3>4. reader = "pcsc" => Len(inbox') <= 1 BY <2>1, <3>1, <3>3
    <3>5. QED BY <3>2, <3>4
  <2>4. QED BY <2>2, <2>3
<1>2. ReaderTypes' BY <1>1 DEF Inv, Types, ReaderTypes
<1>3. CardTypes' /\ RequestsWhole' /\ UNCHANGED asm
  BY DEF Inv, Types, CardTypes, RequestsWhole, card
<1>4. QED BY <1>2, <1>3, AfterFailure

LEMMA RxOverflowKeeps == ASSUME Inv, RxOverflow PROVE Inv'
BY FailureKeeps DEF RxOverflow

LEMMA RxTimeoutKeeps == ASSUME Inv, RxTimeout PROVE Inv'
BY FailureKeeps DEF RxTimeout

LEMMA RxDeadKeeps == ASSUME Inv, RxDead PROVE Inv'
BY FailureKeeps DEF RxDead

LEMMA StatusKeeps == ASSUME Inv, Status PROVE Inv'
<1>1. /\ pc = "status" /\ inbox # <<>> /\ ~dead /\ inbox' = Tail(inbox)
      /\ UNCHANGED <<reader, wire, dead, card, failures>>
  BY DEF Status
<1>2. CASE Fail BY <1>1, <1>2, FailureKeeps
<1>3. CASE /\ IsSuccess(Head(inbox))
           /\ pc' = "tx" /\ UNCHANGED <<cur, left, buf, outcome, asked, quiet>>
  <2>1. /\ inbox \in Seq(Responses) /\ Len(inbox) \in Nat
        /\ inbox' \in Seq(Responses) /\ Len(inbox') = Len(inbox) - 1
    BY <1>1, OneOf DEF Inv, Types, ReaderTypes
  <2>2. Types' /\ RequestsWhole'
    BY <1>1, <1>3, <2>1
    DEF Inv, Types, CardTypes, HostTypes, ReaderTypes, RequestsWhole, card
  <2>3. ASSUME reader' = "pcsc" \/ quiet' PROVE InPieces'
    <3>1. InPieces BY <1>1, <1>3, <2>3 DEF Inv
    <3>2. QED BY <1>1, <1>3, <3>1 DEF InPieces
  <2>4. ASSUME quiet' PROVE InStep'
    <3>1. InStep BY <1>3, <2>4 DEF Inv
    <3>2. wire = <<>> /\ Len(inbox) = 1 /\ asked = asm \o left
      BY <1>1, <1>3, <3>1 DEF InStep
    <3>3. inbox' = <<>> BY <1>1, <2>1, <3>2, OneOf
    <3>4. Len(<<>>) = 0 OBVIOUS
    <3>5. QED BY <1>1, <1>3, <3>2, <3>3, <3>4 DEF InStep, card
  <2>5. QED BY <2>2, <2>3, <2>4 DEF Inv
<1>4. QED BY <1>2, <1>3 DEF Status, IsSuccess

\* The host has the data of the response that is there.
LEMMA Received ==
  ASSUME Inv, inbox # <<>>
  PROVE  /\ inbox \in Seq(Responses) /\ Len(inbox) \in Nat
         /\ Tail(inbox) \in Seq(Responses) /\ Len(Tail(inbox)) = Len(inbox) - 1
         /\ Len(inbox) = 1 => Tail(inbox) = <<>>
         /\ Head(inbox) \in Responses
         /\ Head(inbox).data \in Seq(Byte) /\ Head(inbox).count \in Nat
         /\ buf \o Head(inbox).data \in Seq(Byte)
         /\ Len(buf \o Head(inbox).data) \in Nat
<1>1. inbox \in Seq(Responses) /\ buf \in Seq(Byte) BY DEF Inv, Types, HostTypes, ReaderTypes
<1>2. /\ Len(inbox) \in Nat /\ Head(inbox) \in Responses
      /\ Tail(inbox) \in Seq(Responses) /\ Len(Tail(inbox)) = Len(inbox) - 1
      /\ Len(inbox) = 1 => Tail(inbox) = <<>>
  BY <1>1, OneOf
<1>3. Head(inbox).data \in Seq(Byte) /\ Head(inbox).count \in Nat BY <1>2 DEF Responses
<1>4. PICK d \in Seq(Byte) : d = Head(inbox).data BY <1>3
<1>5. buf \o d \in Seq(Byte) BY <1>1, ConcatProperties
<1>6. Len(buf \o d) \in Nat BY <1>5, LenProperties
<1>7. QED BY <1>1, <1>2, <1>3, <1>4, <1>5, <1>6, Zenon

LEMMA RxLastKeeps == ASSUME Inv, RxLast PROVE Inv'
<1>1. PICK got : /\ got = buf \o Head(inbox).data /\ Len(got) + 2 <= BufLen
                 /\ buf' = got /\ Finish("ok", got)
  BY DEF RxLast
<1>2. /\ pc = "rx" /\ inbox # <<>> /\ ~dead /\ inbox' = Tail(inbox) /\ ~More(Head(inbox))
      /\ UNCHANGED <<reader, wire, dead, card, failures>>
  BY DEF RxLast
<1>3. /\ pc' = "idle" /\ outcome' = [status |-> "ok", bytes |-> got]
      /\ UNCHANGED <<cur, left, asked, quiet>>
  BY <1>1 DEF Finish
<1>4. got \in Seq(Byte) /\ Len(got) \in Nat BY <1>1, <1>2, Received, Zenon
<1>5. BufLen \in Nat BY NfcApduAssumption
<1>6. Types'
  <2>1. HostTypes' BY <1>1, <1>3, <1>4, <1>5 DEF Inv, Types, HostTypes
  <2>2. CardTypes' BY <1>2 DEF Inv, Types, CardTypes, card
  <2>3. ReaderTypes' BY <1>2, Received DEF Inv, Types, ReaderTypes
  <2>4. QED BY <2>1, <2>2, <2>3 DEF Types
<1>7. RequestsWhole' BY <1>2 DEF Inv, RequestsWhole, card
<1>8. ASSUME quiet' PROVE InStep'
  <2>1. InStep BY <1>3, <1>8 DEF Inv
  <2>2. QED BY <1>2, <1>3, <2>1 DEF InStep, card
<1>9. ASSUME reader' = "pcsc" \/ quiet' PROVE InPieces'
  <2>1. InPieces BY <1>2, <1>3, <1>9 DEF Inv
  <2>2. wire = <<>> /\ got \o rest = Bytes(cur, given) /\ rest = <<>>
    BY <1>1, <1>2, <2>1 DEF InPieces
  <2>3. got \o <<>> = got BY <1>4, ConcatEmptySeq
  <2>4. got = Bytes(cur, given) BY <2>2, <2>3, Zenon
  <2>5. outcome'.bytes = Bytes(cur', given') /\ wire' = <<>> BY <1>2, <1>3, <2>2, <2>4 DEF card
  <2>6. QED BY <1>3, <2>5 DEF InPieces
<1>10. QED BY <1>6, <1>7, <1>8, <1>9 DEF Inv

LEMMA RxMoreKeeps == ASSUME Inv, RxMore PROVE Inv'
<1>1. /\ pc = "rx" /\ inbox # <<>> /\ ~dead /\ reader' = reader
      /\ Len(buf \o Head(inbox).data) <= BufLen
  BY DEF RxMore
<1>2. PICK got \in Seq(Byte) : got = buf \o Head(inbox).data /\ Len(got) <= BufLen
  BY <1>1, Received
<1>3. Head(inbox).count \in Nat /\ Tail(inbox) \in Seq(Responses) /\ <<>> \in Seq(Byte)
  BY <1>1, Received, EmptySeq
<1>4. PICK a \in Apdus : a = Apdu("get", <<>>, Head(inbox).count) /\ a.ins = "get" /\ a.id = cur
  <2>1. PICK n \in Nat : n = Head(inbox).count BY <1>3
  <2>2. cur \in Nat BY NfcApduAssumption DEF Inv, Types, HostTypes
  <2>3. Apdu("get", <<>>, n) \in Apdus /\ Apdu("get", <<>>, n).ins = "get"
        /\ Apdu("get", <<>>, n).id = cur
    BY <1>3, <2>2 DEF Apdu, Apdus
  <2>4. QED BY <2>1, <2>3
<1>5. \/ /\ Writes(a, Tail(inbox)) /\ buf' = got
         /\ UNCHANGED <<pc, cur, left, outcome, asked, quiet>>
      \/ WriteFails(a, Tail(inbox))
  BY <1>2, <1>4 DEF RxMore
<1>6. CASE WriteFails(a, Tail(inbox)) BY <1>1, <1>3, <1>4, <1>6, WriteFailsKeeps
<1>7. CASE /\ Writes(a, Tail(inbox)) /\ buf' = got
           /\ UNCHANGED <<pc, cur, left, outcome, asked, quiet>>
  <2>1. CardTypes' /\ ReaderTypes' BY <1>1, <1>3, <1>7, WriteTypes DEF Inv
  <2>2. RequestsWhole' BY <1>4, <1>7, WriteWhole DEF Inv
  <2>3. HostTypes' BY <1>2, <1>7 DEF Inv, Types, HostTypes
  <2>4. ASSUME reader = "pcsc" \/ quiet
        PROVE  /\ wire = <<>> /\ Len(inbox) = 1 /\ Tail(inbox) = <<>> /\ outcome.status # "ok"
               /\ got \o rest = Bytes(cur, given)
    <3>1. InPieces BY <2>4 DEF Inv
    <3>2. /\ wire = <<>> /\ Len(inbox) = 1 /\ outcome.status # "ok"
          /\ got \o rest = Bytes(cur, given)
      BY <1>1, <1>2, <3>1 DEF InPieces
    <3>3. QED BY <1>1, <3>2, Received
  <2>5. CASE reader = "pcsc" /\ CardTakes(a) /\ inbox' = <<said'>> /\ UNCHANGED <<wire, dead>>
    <3>1. said' \in Responses BY <2>1 DEF CardTypes
    <3>2. Len(inbox') = 1 /\ Head(inbox') = said' BY <2>5, <3>1, JustOne
    <3>3. wire' = <<>> /\ Len(wire') = 0 BY <2>5 DEF Inv, Types, ReaderTypes
    <3>4. InStep' BY <1>1, <1>7, <3>3 DEF InStep
    <3>5. cur \in Nat BY NfcApduAssumption DEF Inv, Types, HostTypes
    <3>6. /\ (got \o said'.data) \o rest' = Bytes(cur, given')
          /\ ~More(said') => rest' = <<>>
      <4>1. \A id \in Nat, b \in Seq(Byte) :
              b \o rest = Bytes(id, given) => (b \o said'.data) \o rest' = Bytes(id, given')
        BY <1>4, <2>5, CardStep DEF Inv, Types
      <4>2. ~More(said') => rest' = <<>> BY <1>4, <2>5, CardStep DEF Inv, Types
      <4>3. got \o rest = Bytes(cur, given) BY <2>4, <2>5
      <4>4. QED BY <3>5, <4>1, <4>2, <4>3, Zenon
    <3>7. (buf' \o Head(inbox').data) \o rest' = Bytes(cur', given') BY <1>7, <3>2, <3>6
    <3>8. outcome.status # "ok" BY <2>4, <2>5
    <3>9. InPieces' BY <1>1, <1>7, <3>2, <3>3, <3>6, <3>7, <3>8 DEF InPieces
    <3>10. QED BY <2>1, <2>2, <2>3, <3>4, <3>9 DEF Inv, Types
  <2>6. CASE /\ reader = "socket" /\ wire' = Append(wire, a) /\ inbox' = Tail(inbox)
             /\ UNCHANGED card
    <3>1. reader' # "pcsc" BY <1>1, <2>6
    <3>2. ASSUME quiet' PROVE InStep' /\ InPieces'
      <4>1. /\ wire = <<>> /\ inbox' = <<>> /\ outcome'.status # "ok"
            /\ got \o rest = Bytes(cur, given)
        BY <1>7, <2>4, <2>6, <3>2
      <4>2. wire' = <<a>> BY <2>6, <4>1, JustOne
      <4>3. Len(wire') = 1 /\ Head(wire') = a BY <4>2, JustOne
      <4>4. Head(wire').ins = "get" /\ Head(wire').id = cur' BY <1>4, <1>7, <4>3
      <4>5. Len(wire') <= 1 BY <4>3
      <4>6. pc' = "rx" BY <1>1, <1>7
      <4>7. InStep' BY <4>4, <4>5, <4>6 DEF InStep
      <4>8. buf' \o rest' = Bytes(cur', given') BY <1>7, <2>6, <4>1 DEF card
      <4>9. QED BY <4>1, <4>3, <4>4, <4>6, <4>7, <4>8 DEF InPieces
    <3>3. QED BY <2>1, <2>2, <2>3, <3>1, <3>2 DEF Inv, Types
  <2>7. QED BY <1>7, <2>5, <2>6 DEF Writes
<1>8. QED BY <1>5, <1>6, <1>7
\* A socket's oldest APDU is gone.
LEMMA Oldest ==
  ASSUME Inv, wire # <<>>, ~dead
  PROVE  /\ reader = "socket" /\ Head(wire) \in Apdus /\ Tail(wire) \in Seq(Apdus)
         /\ quiet => /\ Len(wire) = 1 /\ Tail(wire) = <<>> /\ InStep /\ InPieces
                     /\ Head(wire).ins = "last" => asked = asm \o Head(wire).data
<1>1. wire \in Seq(Apdus) /\ reader = "socket"
  BY NfcApduAssumption DEF Inv, Types, ReaderTypes
<1>2. /\ Len(wire) \in Nat /\ Len(wire) # 0 /\ Head(wire) \in Apdus /\ Tail(wire) \in Seq(Apdus)
      /\ Len(wire) = 1 => Tail(wire) = <<>>
  BY <1>1, OneOf
<1>3. ASSUME quiet
      PROVE  /\ Len(wire) = 1 /\ InStep /\ InPieces
             /\ Head(wire).ins = "last" => asked = asm \o Head(wire).data
  <2>1. InStep /\ InPieces BY <1>3 DEF Inv
  <2>2. Len(wire) <= 1 BY <2>1 DEF InStep
  <2>3. Len(wire) = 1
    <3>1. PICK n \in Nat : n = Len(wire) BY <1>2
    <3>2. n # 0 /\ n <= 1 BY <1>2, <2>2, <3>1
    <3>3. n = 1 BY <3>2
    <3>4. QED BY <3>1, <3>3
  <2>4. Head(wire).ins = "last" => asked = asm \o Head(wire).data BY <2>1, <2>3 DEF InStep
  <2>5. QED BY <2>1, <2>3, <2>4
<1>4. QED BY <1>1, <1>2, <1>3

LEMMA CardAnswersKeeps == ASSUME Inv, CardAnswers PROVE Inv'
<1>1. /\ wire # <<>> /\ ~dead /\ wire' = Tail(wire) /\ inbox' = Append(inbox, said')
      /\ UNCHANGED <<reader, host, dead, failures>>
  BY DEF CardAnswers
<1>2. PICK a \in Apdus : a = Head(wire) /\ CardTakes(a) BY <1>1, Oldest DEF CardAnswers
<1>3. /\ reader = "socket" /\ Tail(wire) \in Seq(Apdus)
      /\ quiet => /\ Len(wire) = 1 /\ Tail(wire) = <<>> /\ InStep /\ InPieces
                  /\ a.ins = "last" => asked = asm \o a.data
  BY <1>1, <1>2, Oldest
<1>4. CardTypes' BY <1>2, CardStep DEF Inv, Types
<1>5. said' \in Responses BY <1>4 DEF CardTypes
<1>6. inbox' \in Seq(Responses) BY <1>1, <1>5, AppendProperties DEF Inv, Types, ReaderTypes
<1>7. HostTypes' /\ ReaderTypes'
  BY <1>1, <1>3, <1>6 DEF Inv, Types, HostTypes, ReaderTypes, host
<1>8. RequestsWhole' BY <1>2, <1>3, WholeStep DEF Inv
<1>9. ASSUME quiet' PROVE InStep' /\ InPieces'
  <2>1. /\ quiet /\ UNCHANGED <<pc, cur, left, buf, outcome, asked, dead>> /\ wire' = <<>>
        /\ Len(wire) = 1 /\ InStep /\ InPieces
    BY <1>1, <1>3, <1>9 DEF host
  <2>2. pc # "tx" /\ outcome.status # "ok" BY <1>1, <2>1 DEF InStep, InPieces
  <2>3. ASSUME pc \in {"status", "rx"}
        PROVE  Len(inbox') = 1 /\ Head(inbox') = said'
    <3>1. inbox = <<>> BY <1>1, <2>1, <2>3 DEF InStep, InPieces
    <3>2. inbox' = <<said'>> BY <1>1, <1>5, <3>1, JustOne
    <3>3. QED BY <1>5, <3>2, JustOne
  <2>4. Len(wire') = 0 BY <2>1
  <2>5. ASSUME pc = "status" PROVE IsSuccess(Head(inbox')) => asked' = asm' \o left'
    <3>1. a.ins = "chained" /\ asked = (asm \o a.data) \o left
      BY <1>1, <1>2, <2>1, <2>5 DEF InStep
    <3>2. IsSuccess(said') => asm' = asm \o a.data BY <1>2, <3>1, CardStep DEF Inv, Types
    <3>3. QED BY <2>1, <2>3, <2>5, <3>1, <3>2
  <2>6. InStep' BY <2>1, <2>2, <2>3, <2>4, <2>5 DEF InStep
  <2>7. ASSUME pc = "rx"
        PROVE  /\ (buf' \o Head(inbox').data) \o rest' = Bytes(cur', given')
               /\ ~More(Head(inbox')) => rest' = <<>>
    <3>1. a.id = cur BY <1>1, <1>2, <2>1, <2>7 DEF InPieces
    <3>2. \/ a.ins = "last" /\ buf = <<>>
          \/ a.ins = "get" /\ buf \o rest = Bytes(cur, given)
      BY <1>1, <1>2, <2>1, <2>7 DEF InPieces
    <3>3. ~More(said') => rest' = <<>> BY <1>2, <3>2, CardStep DEF Inv, Types
    <3>4. CASE a.ins = "last" /\ buf = <<>>
      <4>1. said'.data \o rest' = Bytes(cur, given') BY <1>2, <3>1, <3>4, CardStep DEF Inv, Types
      <4>2. said'.data \in Seq(Byte) BY <1>5 DEF Responses
      <4>3. <<>> \o said'.data = said'.data BY <4>2, ConcatEmptySeq
      <4>4. QED BY <2>1, <2>3, <2>7, <3>3, <3>4, <4>1, <4>3
    <3>5. CASE a.ins = "get" /\ buf \o rest = Bytes(cur, given)
      <4>1. \A id \in Nat, b \in Seq(Byte) :
              b \o rest = Bytes(id, given) => (b \o said'.data) \o rest' = Bytes(id, given')
        BY <1>2, <3>5, CardStep DEF Inv, Types
      <4>2. cur \in Nat /\ buf \in Seq(Byte) BY NfcApduAssumption DEF Inv, Types, HostTypes
      <4>3. (buf \o said'.data) \o rest' = Bytes(cur, given') BY <3>5, <4>1, <4>2, Zenon
      <4>4. QED BY <2>1, <2>3, <2>7, <3>3, <4>3
    <3>6. QED BY <3>2, <3>4, <3>5
  <2>8. InPieces' BY <2>1, <2>2, <2>3, <2>7 DEF InPieces
  <2>9. QED BY <2>6, <2>8
<1>10. reader' # "pcsc" BY <1>1, <1>3
<1>11. QED BY <1>4, <1>7, <1>8, <1>9, <1>10 DEF Inv, Types

LEMMA SocketDiesKeeps == ASSUME Inv, SocketDies PROVE Inv'
<1>1. /\ wire # <<>> /\ ~dead /\ failures < MaxFailures /\ failures' = failures + 1
      /\ dead' = TRUE /\ wire' = <<>> /\ UNCHANGED <<reader, host, inbox>>
  BY DEF SocketDies
<1>2. PICK a \in Apdus : a = Head(wire) /\ (UNCHANGED card \/ CardTakes(a))
  BY <1>1, Oldest DEF SocketDies
<1>3. /\ reader = "socket"
      /\ quiet => /\ InStep /\ InPieces /\ Len(wire) = 1
                  /\ a.ins = "last" => asked = asm \o a.data
  BY <1>1, <1>2, Oldest
<1>4. CardTypes' /\ RequestsWhole'
  <2>1. CASE UNCHANGED card BY <2>1 DEF Inv, Types, CardTypes, RequestsWhole, card
  <2>2. CASE CardTakes(a) BY <1>3, <2>2, CardStep, WholeStep DEF Inv, Types
  <2>3. QED BY <1>2, <2>1, <2>2
<1>5. <<>> \in Seq(Apdus) /\ Len(<<>>) = 0 BY EmptySeq
<1>6. MaxFailures \in Nat BY NfcApduAssumption
<1>7. HostTypes' /\ ReaderTypes'
  BY <1>1, <1>3, <1>5, <1>6 DEF Inv, Types, HostTypes, ReaderTypes, host
<1>8. ASSUME quiet' PROVE InStep' /\ InPieces'
  <2>1. quiet /\ UNCHANGED <<pc, cur, left, buf, outcome, asked>> BY <1>1, <1>8 DEF host
  <2>2. pc # "tx" /\ outcome.status # "ok" /\ (pc = "status" => buf = <<>>)
    BY <1>1, <1>3, <2>1 DEF InStep, InPieces
  <2>3. InStep' BY <1>1, <1>5, <2>1, <2>2 DEF InStep
  <2>4. InPieces' BY <1>1, <2>1, <2>2 DEF InPieces
  <2>5. QED BY <2>3, <2>4
<1>9. reader' # "pcsc" BY <1>1, <1>3
<1>10. QED BY <1>4, <1>7, <1>8, <1>9 DEF Inv, Types

-----------------------------------------------------------------------------
(* The theorems.                                                           *)

LEMMA InitInv == ASSUME Init PROVE Inv
<1>1. <<>> \in Seq(Byte) /\ <<>> \in Seq(Apdus) /\ <<>> \in Seq(Responses) /\ Len(<<>>) = 0
  BY EmptySeq
<1>2. said \in Responses BY <1>1 DEF Init, Response, Responses
<1>3. Types
  <2>1. 0 \in 0 .. MaxCmds /\ 0 \in 0 .. MaxFailures /\ 0 <= BufLen BY NfcApduAssumption
  <2>2. CardTypes BY <1>1, <1>2 DEF Init, CardTypes
  <2>3. HostTypes BY <1>1, <2>1 DEF Init, HostTypes
  <2>4. /\ wire = <<>> /\ wire \in Seq(Apdus) /\ inbox \in Seq(Responses)
        /\ Len(inbox) <= 1
    <3>1. wire = <<>> /\ inbox = <<>> BY DEF Init
    <3>2. Len(<<>>) <= 1 BY <1>1
    <3>3. QED BY <1>1, <3>1, <3>2, Zenon
  <2>5. /\ reader \in Readers /\ failures \in 0 .. MaxFailures /\ dead = FALSE
    BY <2>1 DEF Init
  <2>6. ReaderTypes BY <2>4, <2>5 DEF ReaderTypes
  <2>7. QED BY <2>2, <2>3, <2>6 DEF Types
<1>4. RequestsWhole BY DEF Init, RequestsWhole
<1>5. InStep BY <1>1 DEF Init, InStep
<1>6. InPieces BY DEF Init, InPieces, None
<1>7. QED BY <1>3, <1>4, <1>5, <1>6 DEF Inv

LEMMA StutterKeeps == ASSUME Inv, UNCHANGED vars PROVE Inv'
BY DEF Inv, Types, CardTypes, HostTypes, ReaderTypes, RequestsWhole, InStep, InPieces,
       vars, host, card

LEMMA NextKeeps == ASSUME Inv, [Next]_vars PROVE Inv'
<1>1. CASE UNCHANGED vars BY <1>1, StutterKeeps
<1>2. CASE Begin BY <1>2, BeginKeeps
<1>3. CASE Host
  BY <1>3, TxChunkKeeps, StatusKeeps, TxLastKeeps, RxMoreKeeps, RxLastKeeps, RxOverflowKeeps,
     RxDeadKeeps DEF Host
<1>4. CASE RxTimeout BY <1>4, RxTimeoutKeeps
<1>5. CASE CardAnswers BY <1>5, CardAnswersKeeps
<1>6. CASE SocketDies BY <1>6, SocketDiesKeeps
<1>7. CASE Done BY <1>7, StutterKeeps DEF Done
<1>8. QED BY <1>1, <1>2, <1>3, <1>4, <1>5, <1>6, <1>7 DEF Next

LEMMA InvAlways == Spec => []Inv
<1>1. Init => Inv BY InitInv
<1>2. Inv /\ [Next]_vars => Inv' BY NextKeeps
<1>3. QED BY <1>1, <1>2, PTL DEF Spec

\* Every variable is in its range; what is received stays within the caller's
\* buffer (fido_buf_write in rx_msg), and an exchange of PC/SC leaves no APDU
\* under way and one response at most.
THEOREM TypesAlways == Spec => []TypeOK
<1>1. Inv => TypeOK BY DEF Inv, Types, HostTypes, ReaderTypes, TypeOK
<1>2. QED BY <1>1, InvAlways, PTL

\* The card executes the request that fido_tx was given: nfc_do_tx cuts it into
\* chained APDUs of which none is lost or sent twice.
THEOREM RequestsWholeAlways == Spec => []RequestsWhole
<1>1. Inv => RequestsWhole BY DEF Inv
<1>2. QED BY <1>1, InvAlways, PTL

\* fido_rx delivers the reply of this command: rx_msg and tx_get_response fetch
\* every part of it, in order, and stop when the card has no more.
THEOREM OwnReplyAlways == Spec => []OwnReply
<1>1. Inv => OwnReply BY DEF Inv, InPieces, OwnReply
<1>2. QED BY <1>1, InvAlways, PTL

-----------------------------------------------------------------------------
(* NfcTarget                                                               *)
-----------------------------------------------------------------------------

Kinds == {"error", "NEWFAMILY", "TARGETS_FOUND", "TARGET_LOST", "GET_TARGET", "DONE"}
Errors == {"0", "EALREADY", "EBUSY", "ENOENT"}
Messages == [kind : Kinds, dev : Devs \cup {NoOne}, value : Nat \cup Errors]

Stages == {"idle", "family", "power", "poll", "join", "wait", "leave", "dump", "connect", "open"}

Contexts ==
  [stage : Stages, sent : BOOLEAN, dev : Devs, member : BOOLEAN, queue : Seq(Messages),
   eventcnt : {0, 1}, target : Nat]

TargetTypes ==
  /\ open \in [Openers -> Contexts] /\ seen \in [Openers -> SUBSET Nat]
  /\ targets \in [Devs -> SUBSET Nat] /\ found \in Nat

In(q) == {q[i] : i \in 1 .. Len(q)}

\* Until it waits for events, a socket has no message about targets.
Unaware(c) == ~c.member /\ \A m \in In(c.queue) : m.kind \notin {"TARGETS_FOUND", "GET_TARGET"}

\* An event of the reader has been received, read or not.
Told(c) ==
  \/ \E m \in In(c.queue) : Counts(m, c.dev)
  \/ c.stage \in {"leave", "dump"} /\ c.eventcnt = 1

\* T are the targets of the reader of c, S those found since its poll began.
Apprised(c, T, S) ==
  /\ c.stage \in {"idle", "family", "power", "poll", "join"} => Unaware(c)
  /\ Told(c) => T \subseteq S
  /\ c.stage = "dump" => c.eventcnt = 1
  /\ \A m \in In(c.queue) : NamesTarget(m) => m.value \in S
  /\ c.stage \in {"connect", "open"} => c.target \in S

TargetInv ==
  /\ TargetTypes
  /\ \A p \in Openers : Apprised(open[p], targets[open[p].dev], seen[p])

-----------------------------------------------------------------------------
(* Queues.                                                                 *)

LEMMA InAppend ==
  ASSUME NEW q \in Seq(Messages), NEW m \in Messages
  PROVE  Append(q, m) \in Seq(Messages) /\ In(Append(q, m)) = In(q) \cup {m}
<1>1. /\ Append(q, m) \in Seq(Messages) /\ Len(Append(q, m)) = Len(q) + 1 /\ Len(q) \in Nat
      /\ Append(q, m)[Len(q) + 1] = m
      /\ \A i \in 1 .. Len(q) : Append(q, m)[i] = q[i]
  OBVIOUS
<1>2. 1 .. Len(q) + 1 = (1 .. Len(q)) \cup {Len(q) + 1} BY <1>1
<1>3. QED BY <1>1, <1>2 DEF In

LEMMA InTail ==
  ASSUME NEW q \in Seq(Messages), q # <<>>
  PROVE  /\ Tail(q) \in Seq(Messages) /\ In(Tail(q)) \subseteq In(q)
         /\ Head(q) \in Messages /\ Head(q) \in In(q)
<1>1. /\ Tail(q) \in Seq(Messages) /\ Len(Tail(q)) = Len(q) - 1 /\ Len(q) \in Nat \ {0}
      /\ \A i \in 1 .. Len(q) - 1 : Tail(q)[i] = q[i + 1]
      /\ Head(q) = q[1] /\ q[1] \in Messages
  OBVIOUS
<1>2. \A i \in 1 .. Len(q) - 1 : i + 1 \in 1 .. Len(q) BY <1>1
<1>3. QED BY <1>1, <1>2 DEF In

LEMMA InNone == In(<<>>) = {} /\ \A m \in Messages : <<m>> \in Seq(Messages) /\ In(<<m>>) = {m}
<1>1. Len(<<>>) = 0 /\ 1 .. 0 = {} OBVIOUS
<1>2. \A m : Len(<<m>>) = 1 /\ <<m>>[1] = m OBVIOUS
<1>3. 1 .. 1 = {1} OBVIOUS
<1>4. QED BY <1>1, <1>2, <1>3 DEF In

LEMMA StatusIsMessage ==
  ASSUME NEW e \in Errors
  PROVE  ErrorMessage(e) \in Messages /\ ErrorMessage(e).kind = "error"
BY DEF ErrorMessage, Message, Messages, Kinds

LEMMA MessageIs ==
  ASSUME NEW kind \in Kinds, NEW d \in Devs \cup {NoOne}, NEW v \in Nat
  PROVE  /\ Message(kind, d, v) \in Messages
         /\ Message(kind, d, v).kind = kind /\ Message(kind, d, v).dev = d /\ Message(kind, d, v).value = v
BY DEF Message, Messages

-----------------------------------------------------------------------------
(* Steps of one opener.                                                    *)

\* p's context becomes c, and the targets stay.
Step(p, c, S) ==
  /\ open' = [open EXCEPT ![p] = c] /\ seen' = [seen EXCEPT ![p] = S]
  /\ targets' = targets /\ found' = found

LEMMA StepKeeps ==
  ASSUME TargetInv, NEW p \in Openers, NEW c \in Contexts, NEW S \in SUBSET Nat, Step(p, c, S),
         Apprised(c, targets[c.dev], S)
  PROVE  TargetInv'
<1>1. TargetTypes' BY DEF TargetInv, TargetTypes, Step
<1>2. \A q \in Openers : Apprised(open[q], targets[open[q].dev], seen[q])'
  <2> SUFFICES ASSUME NEW q \in Openers PROVE Apprised(open'[q], targets'[open'[q].dev], seen'[q])
    BY DEF Apprised, Told, Unaware, In, Counts, NamesTarget
  <2>1. CASE q = p
    <3>1. open'[q] = c /\ seen'[q] = S /\ targets' = targets BY <2>1 DEF TargetInv, TargetTypes, Step
    <3>2. QED BY <3>1
  <2>2. CASE q # p
    <3>1. open'[q] = open[q] /\ seen'[q] = seen[q] /\ targets' = targets BY <2>2 DEF TargetInv, TargetTypes, Step
    <3>2. QED BY <3>1 DEF TargetInv
  <2>3. QED BY <2>1, <2>2
<1>3. QED BY <1>1, <1>2 DEF TargetInv

\* fido_nfc_open gives up, or the handle is closed.
LEMMA FreeKeeps == ASSUME TargetInv, NEW p \in Openers, NfcFree(p) PROVE TargetInv'
<1> DEFINE c == NoContext(open[p].dev)
<1>1. c \in Contexts /\ c.queue = <<>> /\ c.stage = "idle" /\ ~c.member
  BY DEF TargetInv, TargetTypes, NoContext, Contexts, Stages
<1>2. Step(p, c, {}) BY DEF NfcFree, Step
<1>3. Apprised(c, targets[c.dev], {}) BY <1>1, InNone DEF Apprised, Told, Unaware
<1>4. QED BY <1>1, <1>2, <1>3, StepKeeps

\* The open begins, with nothing known of any target.
LEMMA NlNewKeeps == ASSUME TargetInv, NEW p \in Openers, NlNew(p) PROVE TargetInv'
<1>1. PICK d \in Devs, m \in {Message("NEWFAMILY", NoOne, 0), ErrorMessage("ENOENT")} :
        open' = [open EXCEPT ![p] = [NoContext(d) EXCEPT !.stage = "family", !.sent = TRUE, !.queue = <<m>>]]
  BY DEF NlNew, GoesOn
<1> DEFINE c == [NoContext(d) EXCEPT !.stage = "family", !.sent = TRUE, !.queue = <<m>>]
<1>2. m \in Messages /\ m.kind \in {"NEWFAMILY", "error"}
  <2>1. CASE m = Message("NEWFAMILY", NoOne, 0) BY <2>1 DEF Message, Messages, Kinds
  <2>2. CASE m = ErrorMessage("ENOENT") BY <2>2, StatusIsMessage DEF Errors
  <2>3. QED BY <1>1, <2>1, <2>2
<1>3. <<m>> \in Seq(Messages) /\ In(<<m>>) = {m} BY <1>2, InNone
<1>4. /\ c \in Contexts /\ c.stage = "family" /\ ~c.member /\ c.queue = <<m>>
  BY <1>3 DEF NoContext, Contexts, Stages
<1>5. Step(p, c, seen[p]) /\ seen[p] \in SUBSET Nat BY <1>1 DEF NlNew, kernelVars, Step, TargetInv, TargetTypes
<1> HIDE DEF c
<1>6. ~Told(c) /\ Apprised(c, targets[c.dev], seen[p])
  BY <1>2, <1>3, <1>4 DEF Told, Counts, Apprised, Unaware, NamesTarget
<1>7. QED BY <1>4, <1>5, <1>6, StepKeeps

\* Requests that are answered with a status.
LEMMA RequestKeeps ==
  ASSUME TargetInv, NEW p \in Openers, Power(p) \/ StartPoll(p)
  PROVE  TargetInv'
<1> DEFINE o == open[p]
<1>1. o \in Contexts /\ o.stage \in {"power", "poll"} /\ Unaware(o)
  BY DEF Power, StartPoll, At, TargetInv, TargetTypes, Apprised
<1>2. PICK m \in {ErrorMessage("EALREADY"), ErrorMessage("EBUSY"), ErrorMessage("0")}, S \in {seen[p], {}} :
        Step(p, [o EXCEPT !.sent = TRUE, !.queue = Append(@, m)], S)
  <2>1. ASSUME Power(p)
        PROVE  Step(p, [o EXCEPT !.sent = TRUE,
                          !.queue = Append(@, ErrorMessage(IF o.dev \in up THEN "EALREADY" ELSE "0"))], seen[p])
    BY <2>1 DEF Power, GoesOn, Step, TargetInv, TargetTypes
  <2>2. ASSUME StartPoll(p)
        PROVE  Step(p, [o EXCEPT !.sent = TRUE, !.queue =
                          Append(@, ErrorMessage(IF poller[o.dev] # NoOne \/ active[o.dev] # NoOne THEN "EBUSY" ELSE "0"))], {})
    BY <2>2 DEF StartPoll, GoesOn, Step
  <2>3. QED BY <2>1, <2>2
<1> DEFINE c == [o EXCEPT !.sent = TRUE, !.queue = Append(@, m)]
<1>3. m \in Messages /\ m.kind = "error" BY StatusIsMessage DEF Errors
<1>4. o.queue \in Seq(Messages) BY <1>1 DEF Contexts
<1>5. c.queue \in Seq(Messages) /\ In(c.queue) = In(o.queue) \cup {m}
  BY <1>1, <1>3, <1>4, InAppend DEF Contexts
<1>6. c \in Contexts /\ c.stage = o.stage /\ c.member = o.member BY <1>1, <1>5 DEF Contexts
<1>7. S \in SUBSET Nat BY DEF TargetInv, TargetTypes
<1> HIDE DEF c
<1>8. Unaware(c) /\ ~Told(c)
  BY <1>1, <1>3, <1>5, <1>6 DEF Unaware, Told, Counts
<1>9. Apprised(c, targets[c.dev], S)
  BY <1>1, <1>6, <1>8 DEF Apprised, Unaware, NamesTarget
<1>10. QED BY <1>2, <1>6, <1>7, <1>9, StepKeeps DEF c

LEMMA ReadStatusKeeps == ASSUME TargetInv, NEW p \in Openers, ReadStatus(p) PROVE TargetInv'
<1> DEFINE o == open[p]
           c == [o EXCEPT !.stage = After(o.stage), !.sent = FALSE, !.queue = Tail(@)]
<1>1. CASE NfcFree(p) BY <1>1, FreeKeeps
<1>2. CASE GoesOn(p, c) /\ UNCHANGED <<seen, kernelVars>>
  <2>1. o \in Contexts /\ o.stage \in {"family", "power", "poll"} /\ Unaware(o) /\ o.queue # <<>>
    BY DEF ReadStatus, TargetInv, TargetTypes, Apprised
  <2>2. o.queue \in Seq(Messages) BY <2>1 DEF Contexts
  <2>3. After(o.stage) \in {"power", "poll", "join"} BY <2>1 DEF After
  <2>4. c \in Contexts /\ c.stage \in {"power", "poll", "join"} /\ c.member = o.member
        /\ In(c.queue) \subseteq In(o.queue)
    BY <2>1, <2>2, <2>3, InTail DEF Contexts, Stages
  <2>5. Step(p, c, seen[p]) /\ seen[p] \in SUBSET Nat BY <1>2 DEF GoesOn, kernelVars, Step, TargetInv, TargetTypes
  <2> HIDE DEF c
  <2>6. Unaware(c) /\ ~Told(c) BY <2>1, <2>4 DEF Unaware, Told, Counts
  <2>7. Apprised(c, targets[c.dev], seen[p]) BY <2>4, <2>6 DEF Apprised, Unaware, NamesTarget
  <2>8. QED BY <2>4, <2>5, <2>7, StepKeeps
<1>3. QED BY <1>1, <1>2 DEF ReadStatus

LEMMA AddMembershipKeeps == ASSUME TargetInv, NEW p \in Openers, AddMembership(p) PROVE TargetInv'
<1> DEFINE o == open[p]
           c == [o EXCEPT !.stage = "wait", !.member = TRUE]
<1>1. o \in Contexts /\ o.stage = "join" /\ Unaware(o) BY DEF AddMembership, TargetInv, TargetTypes, Apprised
<1>2. c \in Contexts /\ c.stage = "wait" /\ c.queue = o.queue BY <1>1 DEF Contexts, Stages
<1>3. Step(p, c, seen[p]) /\ seen[p] \in SUBSET Nat BY DEF AddMembership, GoesOn, kernelVars, Step, TargetInv, TargetTypes
<1> HIDE DEF c
<1>4. ~Told(c) BY <1>1, <1>2 DEF Unaware, Told, Counts
<1>5. Apprised(c, targets[c.dev], seen[p]) BY <1>1, <1>2, <1>4 DEF Apprised, Unaware, NamesTarget
<1>6. QED BY <1>2, <1>3, <1>5, StepKeeps

\* The message counts only if there was an event of the reader in the queue.
LEMMA ReadEventKeeps == ASSUME TargetInv, NEW p \in Openers, ReadEvent(p) PROVE TargetInv'
<1> DEFINE o == open[p]
           e == IF Counts(Head(o.queue), o.dev) THEN 1 ELSE 0
           c == [o EXCEPT !.stage = "leave", !.queue = Tail(@), !.eventcnt = e]
<1>1. o \in Contexts /\ o.stage = "wait" /\ o.queue # <<>> /\ Apprised(o, targets[o.dev], seen[p])
  BY DEF ReadEvent, TargetInv, TargetTypes
<1>2. o.queue \in Seq(Messages) BY <1>1 DEF Contexts
<1>3. Head(o.queue) \in In(o.queue) /\ In(Tail(o.queue)) \subseteq In(o.queue)
      /\ Tail(o.queue) \in Seq(Messages)
  BY <1>1, <1>2, InTail
<1>4. c \in Contexts /\ c.stage = "leave" /\ c.queue = Tail(o.queue) /\ c.eventcnt = e /\ c.dev = o.dev
  BY <1>1, <1>3 DEF Contexts, Stages
<1>5. Step(p, c, seen[p]) /\ seen[p] \in SUBSET Nat BY DEF ReadEvent, GoesOn, kernelVars, Step, TargetInv, TargetTypes
<1> HIDE DEF c
<1>6. Told(c) => Told(o) BY <1>3, <1>4 DEF Told
<1>7. Apprised(c, targets[c.dev], seen[p])
  BY <1>1, <1>3, <1>4, <1>6 DEF Apprised
<1>8. QED BY <1>4, <1>5, <1>7, StepKeeps

LEMMA DropMembershipKeeps == ASSUME TargetInv, NEW p \in Openers, DropMembership(p) PROVE TargetInv'
<1> DEFINE o == open[p]
           c == [o EXCEPT !.stage = "dump", !.member = FALSE]
<1>1. CASE NfcFree(p) BY <1>1, FreeKeeps
<1>2. CASE o.eventcnt # 0 /\ GoesOn(p, c) /\ UNCHANGED <<seen, kernelVars>>
  <2>1. o \in Contexts /\ o.stage = "leave" /\ Apprised(o, targets[o.dev], seen[p]) /\ o.eventcnt = 1
    BY <1>2 DEF DropMembership, TargetInv, TargetTypes, Contexts
  <2>2. c \in Contexts /\ c.stage = "dump" /\ c.queue = o.queue /\ c.eventcnt = 1 /\ c.dev = o.dev
    BY <2>1 DEF Contexts, Stages
  <2>3. Step(p, c, seen[p]) /\ seen[p] \in SUBSET Nat BY <1>2 DEF GoesOn, kernelVars, Step, TargetInv, TargetTypes
  <2> HIDE DEF c
  <2>4. Apprised(c, targets[c.dev], seen[p]) BY <2>1, <2>2 DEF Apprised, Told
  <2>5. QED BY <2>2, <2>3, <2>4, StepKeeps
<1>3. QED BY <1>1, <1>2 DEF DropMembership

\* The kernel names a target of the reader, found since the poll began.
LEMMA DumpTargetKeeps == ASSUME TargetInv, NEW p \in Openers, DumpTarget(p) PROVE TargetInv'
<1> DEFINE o == open[p]
<1>1. /\ o \in Contexts /\ o.stage = "dump" /\ Apprised(o, targets[o.dev], seen[p])
      /\ o.dev \in Devs /\ targets[o.dev] \subseteq Nat
  BY DEF DumpTarget, At, TargetInv, TargetTypes, Contexts
<1>2. Told(o) /\ targets[o.dev] \subseteq seen[p] BY <1>1 DEF Apprised, Told
<1>3. PICK m : /\ GoesOn(p, [o EXCEPT !.sent = TRUE, !.queue = Append(@, m)])
               /\ \/ \E t \in targets[o.dev] : m = Message("GET_TARGET", o.dev, t)
                  \/ m = Message("DONE", o.dev, 0)
  BY DEF DumpTarget
<1>4. m \in Messages /\ m.kind # "TARGETS_FOUND" /\ (NamesTarget(m) => m.value \in seen[p])
  BY <1>1, <1>2, <1>3, MessageIs DEF Kinds, NamesTarget
<1> DEFINE c == [o EXCEPT !.sent = TRUE, !.queue = Append(@, m)]
<1>5. o.queue \in Seq(Messages) BY <1>1 DEF Contexts
<1>6. Append(o.queue, m) \in Seq(Messages) /\ In(Append(o.queue, m)) = In(o.queue) \cup {m}
  BY <1>4, <1>5, InAppend
<1>7. c \in Contexts /\ c.stage = "dump" /\ c.dev = o.dev /\ c.eventcnt = o.eventcnt
      /\ c.queue = Append(o.queue, m)
  BY <1>1, <1>6 DEF Contexts
<1>8. Step(p, c, seen[p]) /\ seen[p] \in SUBSET Nat BY <1>3 DEF DumpTarget, GoesOn, kernelVars, Step, TargetInv, TargetTypes
<1> HIDE DEF c
<1>9. Apprised(c, targets[c.dev], seen[p]) BY <1>1, <1>2, <1>4, <1>6, <1>7 DEF Apprised
<1>10. QED BY <1>7, <1>8, <1>9, StepKeeps

LEMMA ReadTargetKeeps == ASSUME TargetInv, NEW p \in Openers, ReadTarget(p) PROVE TargetInv'
<1> DEFINE o == open[p]
           c == [o EXCEPT !.stage = "connect", !.target = Head(o.queue).value, !.queue = Tail(@)]
<1>1. CASE NfcFree(p) BY <1>1, FreeKeeps
<1>2. CASE NamesTarget(Head(o.queue)) /\ GoesOn(p, c) /\ UNCHANGED <<seen, kernelVars>>
  <2>1. o \in Contexts /\ o.stage = "dump" /\ o.queue # <<>> /\ Apprised(o, targets[o.dev], seen[p])
    BY DEF ReadTarget, At, TargetInv, TargetTypes
  <2>2. o.queue \in Seq(Messages) BY <2>1 DEF Contexts
  <2>3. Head(o.queue) \in In(o.queue) /\ In(Tail(o.queue)) \subseteq In(o.queue)
        /\ Tail(o.queue) \in Seq(Messages)
    BY <2>1, <2>2, InTail
  <2>4. seen[p] \in SUBSET Nat BY DEF TargetInv, TargetTypes
  <2>5. Head(o.queue).value \in seen[p] BY <1>2, <2>1, <2>3 DEF Apprised
  <2>6. c \in Contexts /\ c.stage = "connect" /\ c.dev = o.dev /\ c.queue = Tail(o.queue)
        /\ c.target = Head(o.queue).value
    BY <2>1, <2>3, <2>4, <2>5 DEF Contexts, Stages
  <2>7. Step(p, c, seen[p]) BY <1>2 DEF GoesOn, kernelVars, Step, TargetInv, TargetTypes
  <2> HIDE DEF c
  <2>8. Told(c) => Told(o) BY <2>3, <2>6 DEF Told
  <2>9. Apprised(c, targets[c.dev], seen[p]) BY <2>1, <2>3, <2>5, <2>6, <2>8 DEF Apprised
  <2>10. QED BY <2>4, <2>6, <2>7, <2>9, StepKeeps
<1>3. QED BY <1>1, <1>2 DEF ReadTarget

LEMMA TargetConnectKeeps == ASSUME TargetInv, NEW p \in Openers, TargetConnect(p) PROVE TargetInv'
<1> DEFINE o == open[p]
           c == [o EXCEPT !.stage = "open"]
<1>1. CASE NfcFree(p) BY <1>1, FreeKeeps
<1>2. CASE GoesOn(p, c) /\ UNCHANGED <<seen, up, poller, targets, found>>
  <2>1. o \in Contexts /\ o.stage = "connect" /\ Apprised(o, targets[o.dev], seen[p])
    BY DEF TargetConnect, TargetInv, TargetTypes
  <2>2. c \in Contexts /\ c.stage = "open" /\ c.queue = o.queue /\ c.dev = o.dev /\ c.target = o.target
    BY <2>1 DEF Contexts, Stages
  <2>3. Step(p, c, seen[p]) /\ seen[p] \in SUBSET Nat BY <1>2 DEF GoesOn, Step, TargetInv, TargetTypes
  <2> HIDE DEF c
  <2>4. Apprised(c, targets[c.dev], seen[p]) BY <2>1, <2>2 DEF Apprised, Told
  <2>5. QED BY <2>2, <2>3, <2>4, StepKeeps
<1>3. QED BY <1>1, <1>2 DEF TargetConnect

-----------------------------------------------------------------------------
(* Steps of the kernel.                                                    *)

\* An event m about reader d, after which its targets are T: whoever polls that
\* reader has seen them.
LEMMA EventKeeps ==
  ASSUME TargetInv, NEW d \in Devs, NEW kind \in {"TARGETS_FOUND", "TARGET_LOST"}, NEW T \in SUBSET Nat,
         open' = Multicast(open, Message(kind, d, 0)),
         targets' = [targets EXCEPT ![d] = T],
         seen' = [p \in Openers |-> IF open[p].dev = d THEN seen[p] \cup T ELSE seen[p]],
         found' \in Nat
  PROVE  TargetInv'
<1> DEFINE m == Message(kind, d, 0)
<1>1. m \in Messages /\ m.kind = kind /\ m.dev = d BY MessageIs DEF Kinds
<1>2. ASSUME NEW p \in Openers
      PROVE  /\ open'[p] \in Contexts /\ seen'[p] \in SUBSET Nat
             /\ Apprised(open'[p], targets'[open'[p].dev], seen'[p])
  <2> DEFINE o == open[p]
             c == open'[p]
  <2>1. o \in Contexts /\ Apprised(o, targets[o.dev], seen[p]) /\ seen[p] \in SUBSET Nat
    BY DEF TargetInv, TargetTypes
  <2>2. o.queue \in Seq(Messages) /\ o.dev \in Devs BY <2>1 DEF Contexts
  <2>3. Append(o.queue, m) \in Seq(Messages) /\ In(Append(o.queue, m)) = In(o.queue) \cup {m}
    BY <1>1, <2>2, InAppend
  <2>4. c = o \/ (o.member /\ c = [o EXCEPT !.queue = Append(@, m)]) BY DEF Multicast
  <2>5. /\ c \in Contexts /\ c.stage = o.stage /\ c.member = o.member /\ c.dev = o.dev
        /\ c.eventcnt = o.eventcnt /\ c.target = o.target
        /\ In(c.queue) = In(o.queue) \/ (o.member /\ In(c.queue) = In(o.queue) \cup {m})
    BY <2>1, <2>3, <2>4 DEF Contexts
  <2>6. seen'[p] \in SUBSET Nat /\ seen[p] \subseteq seen'[p] /\ (o.dev = d => T \subseteq seen'[p])
    BY <2>1
  <2>7. targets'[o.dev] = IF o.dev = d THEN T ELSE targets[o.dev] BY <2>2 DEF TargetInv, TargetTypes
  <2> HIDE DEF c, m
  <2>8. o.dev # d /\ Told(c) => Told(o) BY <1>1, <2>5 DEF Told, Counts
  <2>9. Told(c) => targets'[c.dev] \subseteq seen'[p]
    BY <2>1, <2>5, <2>6, <2>7, <2>8 DEF Apprised
  <2>10. ~NamesTarget(m) BY <1>1 DEF NamesTarget
  <2>11. Unaware(o) => Unaware(c) BY <2>5 DEF Unaware
  <2>12. Apprised(c, targets'[c.dev], seen'[p])
    BY <2>1, <2>5, <2>6, <2>9, <2>10, <2>11 DEF Apprised
  <2>13. QED BY <2>5, <2>6, <2>12 DEF c
<1>3. TargetTypes'
  <2>1. open' \in [Openers -> Contexts]
    <3>1. open' = [p \in Openers |-> open'[p]] BY DEF Multicast
    <3>2. QED BY <1>2, <3>1
  <2>2. seen' \in [Openers -> SUBSET Nat] BY DEF TargetInv, TargetTypes
  <2>3. targets' \in [Devs -> SUBSET Nat] BY DEF TargetInv, TargetTypes
  <2>4. QED BY <2>1, <2>2, <2>3 DEF TargetTypes
<1>4. \A p \in Openers : Apprised(open[p], targets[open[p].dev], seen[p])'
  <2> SUFFICES ASSUME NEW p \in Openers PROVE Apprised(open'[p], targets'[open'[p].dev], seen'[p])
    BY DEF Apprised, Told, Unaware, In, Counts, NamesTarget
  <2> QED BY <1>2
<1>5. QED BY <1>3, <1>4 DEF TargetInv

LEMMA TargetsFoundKeeps == ASSUME TargetInv, NEW d \in Devs, TargetsFound(d) PROVE TargetInv'
<1>1. found \in Nat /\ {found} \in SUBSET Nat /\ found' \in Nat BY DEF TargetsFound, TargetInv, TargetTypes
<1>2. QED BY <1>1, EventKeeps DEF TargetsFound

LEMMA TargetLostKeeps == ASSUME TargetInv, NEW d \in Devs, TargetLost(d) PROVE TargetInv'
<1>1. found' \in Nat /\ {} \in SUBSET Nat /\ seen \in [Openers -> SUBSET Nat] BY DEF TargetLost, TargetInv, TargetTypes
<1>2. seen' = [p \in Openers |-> IF open[p].dev = d THEN seen[p] \cup {} ELSE seen[p]]
  BY <1>1 DEF TargetLost
<1>3. QED BY <1>1, <1>2, EventKeeps DEF TargetLost

-----------------------------------------------------------------------------
LEMMA TargetInitInv == ASSUME TargetInit PROVE TargetInv
<1> DEFINE d == CHOOSE x \in Devs : TRUE
           c == NoContext(d)
<1>1. d \in Devs BY NfcTargetAssumption
<1>2. c \in Contexts /\ c.stage = "idle" /\ ~c.member /\ c.queue = <<>>
  BY <1>1 DEF NoContext, Contexts, Stages
<1>3. \A p \in Openers : open[p] = c /\ seen[p] = {} BY DEF TargetInit
<1> HIDE DEF c
<1>4. \A T : Apprised(c, T, {}) BY <1>2, InNone DEF Apprised, Told, Unaware
<1>5. TargetTypes BY <1>2 DEF TargetInit, TargetTypes, c
<1>6. QED BY <1>3, <1>4, <1>5 DEF TargetInv

LEMMA NextInv == ASSUME TargetInv, [TargetNext]_targetVars PROVE TargetInv'
<1>1. ASSUME NEW p \in Openers, Open(p) \/ Close(p) PROVE TargetInv'
  BY <1>1, NlNewKeeps, RequestKeeps, ReadStatusKeeps, AddMembershipKeeps, ReadEventKeeps, FreeKeeps,
     DropMembershipKeeps, DumpTargetKeeps, ReadTargetKeeps, TargetConnectKeeps
  DEF Open, Close, EventTimeout
<1>2. CASE UNCHANGED targetVars BY <1>2 DEF targetVars, TargetInv, TargetTypes, Apprised, Told, Unaware, In, Counts, NamesTarget
<1>3. QED BY <1>1, <1>2, TargetsFoundKeeps, TargetLostKeeps DEF TargetNext

\* The target of a handle was found on the reader that was asked for, after the open
\* had that reader poll: fido_nfc_open waits for an event of that reader before it
\* asks for its targets (nl_get_nfc_target).
THEOREM FoundByThisOpenAlways == TargetSpec => []FoundByThisOpen
<1>1. TargetInv => FoundByThisOpen BY DEF TargetInv, Apprised, FoundByThisOpen
<1>2. QED BY TargetInitInv, NextInv, <1>1, PTL DEF TargetSpec

-----------------------------------------------------------------------------
(* HidReports                                                              *)
-----------------------------------------------------------------------------

\* No report of P is in q.
NoneOf(q, P) == \A i \in 1 .. Len(q) : q[i] \notin P

\* Only the systems that keep something of their own have something there, and only
\* those that ping are at it.
Kept ==
  /\ sys # "osx" => pipe = <<>>
  /\ sys # "win" => report = NoReport
  /\ hidpc \in {"ping", "pong"} => sys \in {"netbsd", "openbsd"}

\* A ping is not sent before the one before it is answered, unless it was given up.
PingsAnswered ==
  ~slow =>
    /\ hidpc = "ping" => owed = 0 /\ kernel = <<>>
    /\ hidpc = "pong" => owed + Len(kernel) <= 1
    /\ hidpc \in {"open", "read"} =>
         owed = 0 /\ NoneOf(kernel, pongs) /\ NoneOf(pipe, pongs) /\ report \notin pongs

HidInv == HidTypeOK /\ owed <= pings /\ Kept /\ PingsAnswered

-----------------------------------------------------------------------------
(* Queues of reports.                                                      *)

LEMMA Shorter ==
  ASSUME NEW S, NEW q \in Seq(S), q # <<>>, NEW P
  PROVE  /\ Head(q) \in S /\ Tail(q) \in Seq(S) /\ Len(Tail(q)) = Len(q) - 1
         /\ NoneOf(q, P) => NoneOf(Tail(q), P) /\ Head(q) \notin P
<1>1. /\ Tail(q) \in Seq(S) /\ Len(Tail(q)) = Len(q) - 1 /\ Len(q) \in Nat \ {0}
      /\ Head(q) = q[1] /\ q[1] \in S
      /\ \A i \in 1 .. Len(q) - 1 : Tail(q)[i] = q[i + 1]
  OBVIOUS
<1>2. SUFFICES ASSUME NoneOf(q, P) PROVE NoneOf(Tail(q), P) /\ Head(q) \notin P
  BY <1>1
<1>3. \A i \in 1 .. Len(q) : q[i] \notin P BY <1>2 DEF NoneOf
<1>4. \A i \in 1 .. Len(Tail(q)) : Tail(q)[i] \notin P
  <2> TAKE i \in 1 .. Len(Tail(q))
  <2>1. i + 1 \in 1 .. Len(q) /\ Tail(q)[i] = q[i + 1] BY <1>1
  <2>2. QED BY <1>3, <2>1
<1>5. QED BY <1>1, <1>3, <1>4 DEF NoneOf

\* What a run of the loop writes to the pipe, and what it leaves.
LEMMA Split ==
  ASSUME NEW S, NEW q \in Seq(S), NEW k \in 0 .. Len(q)
  PROVE  /\ SubSeq(q, 1, k) \in Seq(S) /\ Len(SubSeq(q, 1, k)) = k
         /\ SubSeq(q, k + 1, Len(q)) \in Seq(S) /\ Len(SubSeq(q, k + 1, Len(q))) = Len(q) - k
         /\ \A i \in 1 .. k : SubSeq(q, 1, k)[i] = q[i]
         /\ \A i \in 1 .. Len(q) - k : SubSeq(q, k + 1, Len(q))[i] = q[k + i]
<1>1. Len(q) \in Nat OBVIOUS
<1>2. \A m \in 1 .. Len(q) + 1, n \in 0 .. Len(q) :
        /\ SubSeq(q, m, n) \in Seq(S)
        /\ Len(SubSeq(q, m, n)) = IF m <= n THEN n - m + 1 ELSE 0
        /\ \A i \in 1 .. n - m + 1 : SubSeq(q, m, n)[i] = q[m + i - 1]
  BY SubSeqProperties
<1>3. \A i \in 1 .. Len(q) - k : (k + 1) + i - 1 = k + i /\ (1 + i) - 1 = i BY <1>1
<1>4. QED BY <1>1, <1>2, <1>3

LEMMA SplitNone ==
  ASSUME NEW S, NEW q \in Seq(S), NEW k \in 0 .. Len(q), NEW P, NoneOf(q, P)
  PROVE  NoneOf(SubSeq(q, 1, k), P) /\ NoneOf(SubSeq(q, k + 1, Len(q)), P)
<1>1. Len(q) \in Nat /\ \A i \in 1 .. Len(q) : q[i] \notin P BY DEF NoneOf
<1>2. NoneOf(SubSeq(q, 1, k), P)
  <2>1. \A i \in 1 .. k : SubSeq(q, 1, k)[i] \notin P BY <1>1, Split
  <2>2. QED BY <2>1, Split DEF NoneOf
<1>3. \A i \in 1 .. Len(q) - k : SubSeq(q, k + 1, Len(q))[i] \notin P
  <2> TAKE i \in 1 .. Len(q) - k
  <2>1. k + i \in 1 .. Len(q) BY <1>1
  <2>2. QED BY <1>1, <2>1, Split
<1>4. QED BY <1>2, <1>3, Split DEF NoneOf

LEMMA Longer ==
  ASSUME NEW c \in Nat, NEW q \in Seq(1 .. c), NEW P, P \subseteq 1 .. c
  PROVE  /\ q \in Seq(1 .. c + 1) /\ Append(q, c + 1) \in Seq(1 .. c + 1)
         /\ Len(Append(q, c + 1)) = Len(q) + 1
         /\ NoneOf(q, P) => NoneOf(Append(q, c + 1), P)
<1>1. 1 .. c \subseteq 1 .. c + 1 /\ c + 1 \in 1 .. c + 1 /\ c + 1 \notin 1 .. c OBVIOUS
<1>2. q \in Seq(1 .. c + 1) BY <1>1, SeqMonotonic
<1>3. /\ Append(q, c + 1) \in Seq(1 .. c + 1) /\ Len(Append(q, c + 1)) = Len(q) + 1
      /\ Len(q) \in Nat /\ Append(q, c + 1)[Len(q) + 1] = c + 1
      /\ \A i \in 1 .. Len(q) : Append(q, c + 1)[i] = q[i]
  BY <1>1, <1>2
<1>4. NoneOf(q, P) => NoneOf(Append(q, c + 1), P)
  <2>1. SUFFICES ASSUME NoneOf(q, P), NEW i \in 1 .. Len(q) + 1 PROVE Append(q, c + 1)[i] \notin P
    BY <1>3 DEF NoneOf
  <2>2. CASE i \in 1 .. Len(q) BY <1>3, <2>1, <2>2 DEF NoneOf
  <2>3. CASE i = Len(q) + 1 BY <1>1, <1>3, <2>3
  <2>4. QED BY <1>3, <2>2, <2>3
<1>5. QED BY <1>2, <1>3, <1>4

-----------------------------------------------------------------------------
(* HidInv holds at first and after every step.                             *)

LEMMA NoReportIs == NoReport \notin Int /\ NoReport # Pending /\ \A n \in Nat : NoReport \notin 1 .. n
BY HidReportsAssumption DEF Pending

LEMMA HidInitKeeps == ASSUME HidInit PROVE HidInv
<1>1. QueueLen \in Nat /\ MaxReports \in Nat /\ MaxHidFailures \in Nat BY HidReportsAssumption
<1>2. kernel \in Seq(1 .. came) /\ pipe \in Seq(1 .. came) /\ Len(kernel) = 0 BY DEF HidInit
<1>3. /\ Len(kernel) <= QueueLen /\ 0 \in 0 .. MaxPings
      /\ 0 \in 0 .. MaxReports /\ 0 \in 0 .. MaxHidFailures
  BY <1>1, <1>2 DEF MaxPings
<1>4. HidTypeOK BY <1>2, <1>3, Zenon DEF HidInit, HidTypeOK
<1>5. QED BY <1>4 DEF HidInit, HidInv, Kept, PingsAnswered

\* A handle is opened: nothing is queued yet.
LEMMA OpensKeeps ==
  ASSUME HidInv, NEW s \in {"ping", "open"}, OpensAs(s), synced' \in BOOLEAN,
         s = "ping" => sys \in {"netbsd", "openbsd"}
  PROVE  HidInv'
<1> USE DEF OpensAs
<1>1. /\ QueueLen \in Nat /\ kernel' \in Seq(1 .. came') /\ pipe' \in Seq(1 .. came')
      /\ Len(kernel') = 0 /\ Len(pipe') = 0
  BY HidReportsAssumption
<1>2. HidTypeOK'
  <2>1. Len(kernel') <= QueueLen /\ 0 \in 0 .. MaxPings /\ s \in {"closed", "ping", "pong", "open", "read"}
    BY <1>1 DEF MaxPings
  <2>2. QED BY <1>1, <2>1, Zenon DEF HidInv, HidTypeOK
<1>3. pongs \subseteq 1 .. came /\ came \in Nat BY DEF HidInv, HidTypeOK
<1>4. report' \notin pongs BY <1>3, NoReportIs
<1>5. PingsAnswered' BY <1>1, <1>4 DEF PingsAnswered, NoneOf
<1>6. Kept' BY DEF HidInv, Kept
<1>7. QED BY <1>2, <1>5, <1>6 DEF HidInv

LEMMA ShutKeeps ==
  ASSUME HidInv, Shut, hidFailures' \in 0 .. MaxHidFailures
  PROVE  HidInv'
<1> USE DEF Shut
<1>1. /\ QueueLen \in Nat /\ kernel' \in Seq(1 .. came') /\ pipe' \in Seq(1 .. came')
      /\ Len(kernel') = 0 /\ Len(pipe') = 0
  BY HidReportsAssumption
<1>2. HidTypeOK' BY <1>1 DEF HidInv, HidTypeOK, MaxPings
<1>3. owed' <= pings' BY DEF HidInv, HidTypeOK
<1>4. PingsAnswered' BY DEF PingsAnswered
<1>5. Kept' BY DEF Kept
<1>6. QED BY <1>2, <1>3, <1>4, <1>5 DEF HidInv

LEMMA CountsFailure == ASSUME HidInv, Fails PROVE hidFailures' \in 0 .. MaxHidFailures
BY HidReportsAssumption DEF Fails, HidInv, HidTypeOK

LEMMA OpenStepKeeps == ASSUME HidInv, OpenStep PROVE HidInv'
<1> USE DEF HidInv
<1>1. CASE LinuxOpen BY <1>1, OpensKeeps DEF LinuxOpen
<1>2. CASE FreebsdOpen BY <1>2, OpensKeeps DEF FreebsdOpen
<1>3. CASE NetbsdOpen BY <1>3, OpensKeeps DEF NetbsdOpen
<1>4. CASE OpenbsdOpen BY <1>4, OpensKeeps DEF OpenbsdOpen
<1>5. CASE HidapiOpen BY <1>5, OpensKeeps DEF HidapiOpen
<1>6. CASE OsxOpen BY <1>6, OpensKeeps DEF OsxOpen
<1>7. CASE WinOpen BY <1>7, OpensKeeps DEF WinOpen
<1>8. CASE OpenFails
  <2>1. hidFailures' \in 0 .. MaxHidFailures BY <1>8, CountsFailure DEF OpenFails
  <2>2. QED BY <1>8, <2>1 DEF OpenFails, HidTypeOK, Kept, PingsAnswered, NoneOf, reading, token
<1>9. CASE Ping
  <2>1. HidTypeOK' BY <1>9 DEF Ping, HidTypeOK, MaxPings
  <2>2. owed' <= pings' BY <1>9 DEF Ping, HidTypeOK
  <2>3. Kept' BY <1>9 DEF Ping, Kept
  <2>4. PingsAnswered'
    <3>1. ~slow => owed' + Len(kernel) <= 1 BY <1>9 DEF Ping, PingsAnswered
    <3>2. QED BY <1>9, <3>1 DEF Ping, PingsAnswered
  <2>5. QED BY <2>1, <2>2, <2>3, <2>4
<1>10. CASE PongTimeout
  <2>1. HidTypeOK' BY <1>10 DEF PongTimeout, HidTypeOK
  <2>2. Kept' /\ owed' <= pings' BY <1>10 DEF PongTimeout, Kept
  <2>3. PingsAnswered'
    <3>1. slow' = (slow \/ owed > 0) /\ owed \in Nat /\ hidpc = "pong" /\ hidpc' = "ping"
          /\ kernel' = <<>> /\ owed' = owed
      BY <1>10 DEF PongTimeout, HidTypeOK
    <3>2. CASE slow \/ owed > 0 BY <3>1, <3>2 DEF PingsAnswered
    <3>3. CASE ~(slow \/ owed > 0)
      <4>1. owed = 0 BY <3>1, <3>3
      <4>2. QED BY <3>1, <4>1 DEF PingsAnswered
    <3>4. QED BY <3>2, <3>3
  <2>4. QED BY <2>1, <2>2, <2>3
<1>11. CASE Pong
  <2>1. /\ kernel' \in Seq(1 .. came) /\ Len(kernel') = Len(kernel) - 1 /\ Len(kernel) \in Nat
        /\ owed \in Nat /\ pongs \subseteq 1 .. came /\ came \in Nat
    BY <1>11, Shorter DEF Pong, PongRead, HidTypeOK
  <2>2. HidTypeOK' BY <1>11, <2>1, HidReportsAssumption DEF Pong, HidTypeOK, token
  <2>3. Kept' /\ owed' <= pings' BY <1>11 DEF Pong, Kept, token
  <2>4. report = NoReport /\ pipe = <<>> BY <1>11 DEF Pong, Kept
  <2>5. report \notin pongs BY <2>1, <2>4, NoReportIs
  <2>6. ~slow => owed = 0 /\ Len(kernel') = 0
    <3>1. Len(kernel) # 0 BY <1>11 DEF Pong, HidTypeOK
    <3>2. QED BY <1>11, <2>1, <3>1 DEF Pong, PingsAnswered
  <2>7. PingsAnswered' BY <1>11, <2>4, <2>5, <2>6 DEF Pong, PingsAnswered, NoneOf, token
  <2>8. QED BY <2>2, <2>3, <2>7
<1>12. CASE PingFails
  <2>1. hidFailures' \in 0 .. MaxHidFailures BY <1>12, CountsFailure DEF PingFails, HidTypeOK
  <2>2. QED BY <1>12, <2>1, ShutKeeps DEF PingFails
<1>13. QED
  BY <1>1, <1>2, <1>3, <1>4, <1>5, <1>6, <1>7, <1>8, <1>9, <1>10, <1>11, <1>12 DEF OpenStep

LEMMA BeginReadKeeps == ASSUME HidInv, NEW w \in Waits, BeginRead(w) PROVE HidInv'
<1> USE DEF BeginRead
<1>1. pongs \subseteq 1 .. came /\ came \in Nat BY DEF HidInv, HidTypeOK
<1>2. report' \in {report, Pending} /\ (sys # "win" => report' = report) BY DEF Posted
<1>3. Pending \notin pongs BY <1>1 DEF Pending
<1>4. HidTypeOK' BY <1>2 DEF HidInv, HidTypeOK, token
<1>5. Kept' BY <1>2 DEF HidInv, Kept
<1>6. PingsAnswered' BY <1>2, <1>3 DEF HidInv, PingsAnswered, NoneOf, token
<1>7. QED BY <1>4, <1>5, <1>6 DEF HidInv, token

\* A read returns r: what is left unread was unread before.
LEMMA ReturnKeeps ==
  ASSUME HidInv, hidpc = "read", NEW r, Returns(r), r \in {NoReport} \cup (1 .. came),
         hidFailures' \in 0 .. MaxHidFailures,
         kernel' \in Seq(1 .. came), Len(kernel') <= QueueLen, pipe' \in Seq(1 .. came),
         report' \in {report, NoReport}, sys # "osx" => pipe' = pipe,
         NoneOf(kernel, pongs) /\ NoneOf(pipe, pongs) =>
           NoneOf(kernel', pongs) /\ NoneOf(pipe', pongs)
  PROVE  HidInv'
<1> USE DEF Returns
<1>1. pongs \subseteq 1 .. came /\ came \in Nat BY DEF HidInv, HidTypeOK
<1>2. NoReport \notin pongs BY <1>1, NoReportIs
<1>3. HidTypeOK' BY DEF HidInv, HidTypeOK, token
<1>4. Kept' BY DEF HidInv, Kept
<1>5. PingsAnswered' BY <1>2 DEF HidInv, PingsAnswered, token
<1>6. QED BY <1>3, <1>4, <1>5 DEF HidInv, token

LEMMA UnixReadKeeps == ASSUME HidInv, UnixRead PROVE HidInv'
<1>1. kernel \in Seq(1 .. came) /\ kernel # <<>> /\ Len(kernel) <= QueueLen /\ Len(kernel) \in Nat
      /\ pipe \in Seq(1 .. came) /\ hidFailures \in 0 .. MaxHidFailures
  BY DEF HidInv, HidTypeOK, UnixRead
<1>2. /\ Head(kernel) \in 1 .. came /\ Tail(kernel) \in Seq(1 .. came)
      /\ Len(Tail(kernel)) = Len(kernel) - 1
      /\ NoneOf(kernel, pongs) => NoneOf(Tail(kernel), pongs)
  BY <1>1, Shorter
<1>3. Len(Tail(kernel)) <= QueueLen BY <1>1, <1>2, HidReportsAssumption
<1>4. QED BY <1>1, <1>2, <1>3, ReturnKeeps DEF UnixRead

LEMMA ReadStepKeeps == ASSUME HidInv, ReadStep PROVE HidInv'
<1>1. /\ kernel \in Seq(1 .. came) /\ Len(kernel) <= QueueLen /\ Len(kernel) \in Nat
      /\ pipe \in Seq(1 .. came) /\ hidFailures \in 0 .. MaxHidFailures
      /\ report \in {NoReport, Pending} \cup (1 .. came) /\ QueueLen \in Nat
  BY HidReportsAssumption DEF HidInv, HidTypeOK
<1>2. CASE LinuxRead \/ FreebsdRead \/ NetbsdRead \/ OpenbsdRead \/ HidapiRead
  BY <1>2, UnixReadKeeps DEF LinuxRead, FreebsdRead, NetbsdRead, OpenbsdRead, HidapiRead
<1>3. CASE UnixTimeout BY <1>1, <1>3, ReturnKeeps DEF UnixTimeout
<1>4. kernel # <<>> =>
        /\ Tail(kernel) \in Seq(1 .. came) /\ Len(Tail(kernel)) <= QueueLen
        /\ NoneOf(kernel, pongs) => NoneOf(Tail(kernel), pongs)
  <2>1. SUFFICES ASSUME kernel # <<>>
                 PROVE  /\ Tail(kernel) \in Seq(1 .. came) /\ Len(Tail(kernel)) = Len(kernel) - 1
                        /\ NoneOf(kernel, pongs) => NoneOf(Tail(kernel), pongs)
    BY <1>1
  <2>2. QED BY <1>1, <2>1, Shorter
<1>5. CASE UnixFails
  <2>1. hidFailures' \in 0 .. MaxHidFailures BY <1>5, CountsFailure DEF UnixFails
  <2>2. CASE kernel' = kernel BY <1>1, <1>5, <2>1, <2>2, ReturnKeeps DEF UnixFails
  <2>3. CASE kernel # <<>> /\ kernel' = Tail(kernel)
    BY <1>1, <1>4, <1>5, <2>1, <2>3, ReturnKeeps DEF UnixFails
  <2>4. QED BY <1>5, <2>2, <2>3 DEF UnixFails
<1>6. CASE OsxPending
  <2>1. Head(pipe) \in 1 .. came /\ Tail(pipe) \in Seq(1 .. came)
        /\ (NoneOf(pipe, pongs) => NoneOf(Tail(pipe), pongs))
    BY <1>1, <1>6, Shorter DEF OsxPending
  <2>2. QED BY <1>1, <1>6, <2>1, ReturnKeeps DEF OsxPending
<1>7. ASSUME NEW k \in 0 .. QueueLen, OsxLoop(k) PROVE HidInv'
  <2>1. k \in 0 .. Len(kernel) BY <1>1, <1>7 DEF OsxLoop
  <2>2. /\ kernel' \in Seq(1 .. came) /\ Len(kernel') <= QueueLen
        /\ OsxPipe(k) \in Seq(1 .. came) /\ Len(OsxPipe(k)) = k
    <3>1. /\ OsxPipe(k) \in Seq(1 .. came) /\ Len(OsxPipe(k)) = k
          /\ kernel' \in Seq(1 .. came) /\ Len(kernel') = Len(kernel) - k
      <4> HIDE DEF Pending
      <4>1. kernel' = SubSeq(kernel, k + 1, Len(kernel)) /\ kernel \in Seq(1 .. came) BY <1>1, <1>7 DEF OsxLoop
      <4>2. QED BY <2>1, <4>1, Split DEF OsxPipe
    <3>2. QED BY <1>1, <2>1, <3>1
  <2>3. NoneOf(kernel, pongs) => NoneOf(kernel', pongs) /\ NoneOf(OsxPipe(k), pongs)
    BY <1>1, <1>7, <2>1, SplitNone DEF OsxLoop, OsxPipe
  <2>4. CASE k = 0 BY <1>1, <1>7, <2>2, <2>3, <2>4, ReturnKeeps DEF OsxLoop
  <2>5. CASE k # 0
    <3>1. OsxPipe(k) # <<>> BY <2>2, <2>5
    <3>2. Head(OsxPipe(k)) \in 1 .. came /\ Tail(OsxPipe(k)) \in Seq(1 .. came)
          /\ (NoneOf(OsxPipe(k), pongs) => NoneOf(Tail(OsxPipe(k)), pongs))
      BY <2>2, <3>1, Shorter
    <3>3. QED BY <1>1, <1>7, <2>2, <2>3, <2>5, <3>2, ReturnKeeps DEF OsxLoop
  <2>6. QED BY <2>4, <2>5
<1>8. CASE OsxCallbackFails
  <2>1. hidFailures' \in 0 .. MaxHidFailures BY <1>8, CountsFailure DEF OsxCallbackFails
  <2>2. QED BY <1>1, <1>4, <1>8, <2>1, ReturnKeeps DEF OsxCallbackFails
<1>9. CASE WinRead BY <1>1, <1>9, ReturnKeeps DEF WinRead, WinTaken
<1>10. CASE WinTimeout BY <1>1, <1>10, ReturnKeeps DEF WinTimeout
<1>11. CASE WinFails
  <2>1. hidFailures' \in 0 .. MaxHidFailures BY <1>11, CountsFailure DEF WinFails
  <2>2. QED BY <1>1, <1>11, <2>1, ReturnKeeps DEF WinFails
<1>12. QED BY <1>2, <1>3, <1>5, <1>6, <1>7, <1>8, <1>9, <1>10, <1>11 DEF ReadStep

LEMMA WinCompletesKeeps == ASSUME HidInv, WinCompletes PROVE HidInv'
<1>1. /\ kernel \in Seq(1 .. came) /\ kernel # <<>> /\ Len(kernel) <= QueueLen /\ Len(kernel) \in Nat
      /\ QueueLen \in Nat
  BY HidReportsAssumption DEF HidInv, HidTypeOK, WinCompletes
<1>2. /\ Head(kernel) \in 1 .. came /\ Tail(kernel) \in Seq(1 .. came)
      /\ Len(Tail(kernel)) = Len(kernel) - 1
      /\ NoneOf(kernel, pongs) => NoneOf(Tail(kernel), pongs) /\ Head(kernel) \notin pongs
  BY <1>1, Shorter
<1>3. Len(Tail(kernel)) <= QueueLen BY <1>1, <1>2
<1>4. HidTypeOK' BY <1>2, <1>3 DEF HidInv, HidTypeOK, WinCompletes, token
<1>5. Kept' BY DEF HidInv, Kept, WinCompletes
<1>6. PingsAnswered'
  <2>1. hidpc \notin {"ping", "pong"} BY DEF HidInv, Kept, WinCompletes
  <2>2. QED BY <1>2, <2>1 DEF HidInv, PingsAnswered, WinCompletes, token
<1>7. QED BY <1>4, <1>5, <1>6 DEF HidInv, WinCompletes, token

LEMMA TokenSendsKeeps == ASSUME HidInv, TokenSends PROVE HidInv'
<1>1. /\ kernel \in Seq(1 .. came) /\ Len(kernel) <= QueueLen /\ Len(kernel) \in Nat
      /\ pipe \in Seq(1 .. came) /\ pongs \subseteq 1 .. came /\ came \in Nat /\ QueueLen \in Nat
      /\ owed \in 0 .. MaxPings /\ pings \in 0 .. MaxPings /\ owed <= pings
      /\ came' = came + 1 /\ came' \in 0 .. MaxReports
  BY HidReportsAssumption DEF HidInv, HidTypeOK, TokenSends
<1>2. /\ kernel' \in Seq(1 .. came') /\ pipe \in Seq(1 .. came') /\ Len(kernel') <= QueueLen
      /\ Len(kernel') \in {Len(kernel), Len(kernel) + 1}
      /\ NoneOf(kernel, pongs) => NoneOf(kernel', pongs)
  <2>1. /\ kernel \in Seq(1 .. came') /\ Append(kernel, came + 1) \in Seq(1 .. came')
        /\ Len(Append(kernel, came + 1)) = Len(kernel) + 1
        /\ NoneOf(kernel, pongs) => NoneOf(Append(kernel, came + 1), pongs)
    BY <1>1, Longer
  <2>2. pipe \in Seq(1 .. came') BY <1>1, Longer
  <2>3. kernel' = Queued BY DEF TokenSends
  <2>4. CASE Len(kernel) < QueueLen BY <1>1, <2>1, <2>2, <2>3, <2>4 DEF Queued
  <2>5. CASE ~(Len(kernel) < QueueLen) BY <1>1, <2>1, <2>2, <2>3, <2>5 DEF Queued
  <2>6. QED BY <2>4, <2>5
<1>3. UNCHANGED <<sys, same, hidpc, ms, pipe, report, pings, out, slow, synced, hidFailures>>
  BY DEF TokenSends, reading
<1>4. 1 .. came \subseteq 1 .. came' BY <1>1
<1>5. owed' \in 0 .. MaxPings /\ owed' <= pings' /\ pongs' \subseteq 1 .. came' /\ owed' <= owed
  <2>1. CASE owed > 0 /\ owed' = owed - 1 /\ pongs' = pongs \cup {came'}
    <3>1. owed' \in 0 .. MaxPings /\ owed' <= pings' /\ owed' <= owed
      BY <1>1, <1>3, <2>1 DEF MaxPings
    <3>2. pongs' \subseteq 1 .. came' BY <1>1, <1>4, <2>1
    <3>3. QED BY <3>1, <3>2
  <2>2. CASE UNCHANGED <<owed, pongs>> BY <1>1, <1>3, <1>4, <2>2 DEF MaxPings
  <2>3. QED BY <2>1, <2>2 DEF TokenSends
<1>6. HidTypeOK' BY <1>1, <1>2, <1>3, <1>4, <1>5 DEF HidInv, HidTypeOK
<1>7. Kept' BY <1>3 DEF HidInv, Kept
<1>8. PingsAnswered'
  <2>1. SUFFICES ASSUME ~slow
        PROVE  /\ hidpc = "ping" => owed' = 0 /\ kernel' = <<>>
               /\ hidpc = "pong" => owed' + Len(kernel') <= 1
               /\ hidpc \in {"open", "read"} =>
                    owed' = 0 /\ NoneOf(kernel', pongs') /\ NoneOf(pipe', pongs') /\ report' \notin pongs'
    BY <1>3 DEF PingsAnswered
  <2>2. CASE hidpc = "ping" BY <1>1, <2>1, <2>2 DEF HidInv, PingsAnswered, TokenSends
  <2>3. CASE hidpc = "pong"
    <3>1. owed' = owed - 1 /\ owed + Len(kernel) <= 1
      BY <2>1, <2>3 DEF HidInv, PingsAnswered, TokenSends
    <3>2. owed' + Len(kernel') <= 1 BY <1>1, <1>2, <3>1 DEF MaxPings
    <3>3. QED BY <2>3, <3>2
  <2>4. CASE hidpc \in {"open", "read"}
    <3>1. owed = 0 /\ NoneOf(kernel, pongs) /\ NoneOf(pipe, pongs) /\ report \notin pongs
      BY <2>1, <2>4 DEF HidInv, PingsAnswered
    <3>2. owed' = 0 /\ pongs' = pongs BY <3>1 DEF TokenSends
    <3>3. QED BY <1>2, <1>3, <2>4, <3>1, <3>2
  <2>5. QED BY <2>2, <2>3, <2>4
<1>9. QED BY <1>5, <1>6, <1>7, <1>8 DEF HidInv

LEMMA HidNextKeeps == ASSUME HidInv, [HidNext]_hidVars PROVE HidInv'
<1>1. CASE OpenStep BY <1>1, OpenStepKeeps
<1>2. CASE \E w \in Waits : BeginRead(w) BY <1>2, BeginReadKeeps
<1>3. CASE ReadStep BY <1>3, ReadStepKeeps
<1>4. CASE WinCompletes BY <1>4, WinCompletesKeeps
<1>5. CASE CloseHid
  <2>1. hidFailures' \in 0 .. MaxHidFailures BY <1>5 DEF CloseHid, HidInv, HidTypeOK
  <2>2. QED BY <1>5, <2>1, ShutKeeps DEF CloseHid
<1>6. CASE TokenSends BY <1>6, TokenSendsKeeps
<1>7. CASE UNCHANGED hidVars
  <2>1. UNCHANGED <<sys, same, hidpc, ms, kernel, pipe, report, pings, synced, owed, slow, pongs,
                    came, out, hidFailures>>
    BY <1>7 DEF hidVars, reading, token
  <2>2. HidTypeOK' BY <2>1 DEF HidInv, HidTypeOK
  <2>3. QED BY <2>1, <2>2 DEF HidInv, Kept, PingsAnswered, NoneOf
<1>8. QED BY <1>1, <1>2, <1>3, <1>4, <1>5, <1>6, <1>7 DEF HidNext

LEMMA HidInvAlways == HidSpec => []HidInv
<1>1. HidInit => HidInv BY HidInitKeeps
<1>2. HidInv /\ [HidNext]_hidVars => HidInv' BY HidNextKeeps
<1>3. QED BY <1>1, <1>2, PTL DEF HidSpec

-----------------------------------------------------------------------------
(* Theorems.                                                               *)

\* Reports, queues, toggles and counters are what they should be, on every system.
THEOREM HidTypesAlways == HidSpec => []HidTypeOK
<1>1. HidInv => HidTypeOK BY DEF HidInv
<1>2. QED BY <1>1, HidInvAlways, PTL

LEMMA JoinedNone ==
  ASSUME NEW S, NEW p \in Seq(S), NEW q \in Seq(S), NEW P, NoneOf(p, P), NoneOf(q, P)
  PROVE  NoneOf(p \o q, P)
<1>1. /\ Len(p) \in Nat /\ Len(q) \in Nat /\ Len(p \o q) = Len(p) + Len(q)
      /\ \A i \in 1 .. Len(p) + Len(q) : (p \o q)[i] = IF i <= Len(p) THEN p[i] ELSE q[i - Len(p)]
  BY ConcatProperties
<1>2. SUFFICES ASSUME NEW i \in 1 .. Len(p) + Len(q) PROVE (p \o q)[i] \notin P BY <1>1 DEF NoneOf
<1>3. CASE i <= Len(p)
  <2>1. i \in 1 .. Len(p) /\ (p \o q)[i] = p[i] BY <1>1, <1>3
  <2>2. QED BY <2>1 DEF NoneOf
<1>4. CASE ~(i <= Len(p))
  <2>1. i - Len(p) \in 1 .. Len(q) /\ (p \o q)[i] = q[i - Len(p)] BY <1>1, <1>4
  <2>2. QED BY <2>1 DEF NoneOf
<1>5. QED BY <1>3, <1>4

\* What is unread if a pending read was given r.
UnreadOf(r, p, k) == (IF r \notin {NoReport, Pending} THEN <<r>> ELSE <<>>) \o p \o k

LEMMA UnreadIs == Unread = UnreadOf(report, pipe, kernel) BY DEF Unread, UnreadOf

LEMMA JoinTail ==
  ASSUME NEW S, NEW p \in Seq(S), NEW k \in Seq(S), p # <<>>
  PROVE  p \o k \in Seq(S) /\ p \o k # <<>> /\ Head(p \o k) = Head(p) /\ Tail(p \o k) = Tail(p) \o k
<1> DEFINE q == p \o k
           t == Tail(p) \o k
<1>1. /\ Len(p) \in Nat \ {0} /\ Len(k) \in Nat /\ Tail(p) \in Seq(S) /\ Len(Tail(p)) = Len(p) - 1
      /\ Head(p) = p[1] /\ \A i \in 1 .. Len(p) - 1 : Tail(p)[i] = p[i + 1]
  OBVIOUS
<1>2. /\ q \in Seq(S) /\ Len(q) = Len(p) + Len(k)
      /\ \A i \in 1 .. Len(p) + Len(k) : q[i] = IF i <= Len(p) THEN p[i] ELSE k[i - Len(p)]
  BY ConcatProperties
<1>3. /\ t \in Seq(S) /\ Len(t) = Len(p) - 1 + Len(k)
      /\ \A i \in 1 .. Len(p) - 1 + Len(k) : t[i] = IF i <= Len(p) - 1 THEN Tail(p)[i] ELSE k[i - (Len(p) - 1)]
  BY <1>1, ConcatProperties
<1> HIDE DEF q, t
<1>4. q # <<>> /\ Head(q) = p[1] BY <1>1, <1>2
<1>5. /\ Tail(q) \in Seq(S) /\ Len(Tail(q)) = Len(q) - 1
      /\ \A i \in 1 .. Len(q) - 1 : Tail(q)[i] = q[i + 1]
  BY <1>2, <1>4
<1>6. \A i \in 1 .. Len(t) : Tail(q)[i] = t[i]
  <2> TAKE i \in 1 .. Len(t)
  <2>1. Tail(q)[i] = q[i + 1] /\ i + 1 \in 1 .. Len(p) + Len(k) BY <1>1, <1>2, <1>3, <1>5
  <2>2. CASE i <= Len(p) - 1
    <3>1. Tail(q)[i] = p[i + 1] BY <1>1, <1>2, <2>1, <2>2
    <3>2. i \in 1 .. Len(p) - 1 BY <1>1, <1>3, <2>2
    <3>3. QED BY <1>1, <1>3, <2>2, <3>1, <3>2
  <2>3. CASE ~(i <= Len(p) - 1)
    <3>1. ~(i + 1 <= Len(p)) /\ i + 1 - Len(p) = i - (Len(p) - 1) BY <1>1, <1>3, <2>3
    <3>2. Tail(q)[i] = k[i + 1 - Len(p)] BY <1>2, <2>1, <3>1
    <3>3. QED BY <1>3, <2>3, <3>1, <3>2
  <2>4. QED BY <2>2, <2>3
<1>7. Tail(q) = t BY <1>1, <1>2, <1>3, <1>5, <1>6, SeqEqual
<1>8. QED BY <1>1, <1>2, <1>4, <1>7 DEF q, t

LEMMA JoinAppend ==
  ASSUME NEW S, NEW q \in Seq(S), NEW k \in Seq(S), NEW e \in S
  PROVE  q \o Append(k, e) = Append(q \o k, e)
<1>1. Append(k, e) = k \o <<e>> /\ q \o k \in Seq(S) /\ <<e>> \in Seq(S)
  BY AppendIsConcat, ConcatProperties
<1>2. Append(q \o k, e) = (q \o k) \o <<e>> BY <1>1, AppendIsConcat
<1>3. QED BY <1>1, <1>2, ConcatAssociative

LEMMA JustThis ==
  ASSUME NEW S, NEW x \in S
  PROVE  /\ <<x>> \in Seq(S) /\ <<x>> # <<>> /\ Head(<<x>>) = x /\ Tail(<<x>>) = <<>>
         /\ \A P : x \notin P => NoneOf(<<x>>, P)
<1>1. <<x>> \in Seq(S) /\ Len(<<x>>) = 1 /\ Head(<<x>>) = x /\ <<x>> # <<>> BY JustOne
<1>2. Tail(<<x>>) = <<>> BY <1>1, OneOf
<1>3. \A i \in 1 .. Len(<<x>>) : <<x>>[i] = x BY <1>1
<1>4. QED BY <1>1, <1>2, <1>3 DEF NoneOf

Keeping(c, r, p, k) ==
  c \in Nat /\ r \in {NoReport, Pending} \cup (1 .. c) /\ p \in Seq(1 .. c) /\ k \in Seq(1 .. c)

LEMMA UnreadCases ==
  ASSUME NEW c, NEW r, NEW p, NEW k, Keeping(c, r, p, k)
  PROVE  /\ UnreadOf(r, p, k) \in Seq(1 .. c)
         /\ r \in {NoReport, Pending} => UnreadOf(r, p, k) = p \o k
         /\ r \in {NoReport, Pending} /\ p = <<>> => UnreadOf(r, p, k) = k
         /\ r \notin {NoReport, Pending} /\ p = <<>> =>
              UnreadOf(r, p, k) # <<>> /\ Head(UnreadOf(r, p, k)) = r /\ Tail(UnreadOf(r, p, k)) = k
<1> USE DEF Keeping
<1> DEFINE g == IF r \notin {NoReport, Pending} THEN <<r>> ELSE <<>>
<1>1. \A q \in Seq(1 .. c) : <<>> \o q = q /\ q \o <<>> = q BY ConcatEmptySeq
<1>2. g \in Seq(1 .. c) /\ (r \in {NoReport, Pending} => g = <<>>) /\ (r \notin {NoReport, Pending} => g = <<r>>)
  <2>1. CASE r \in {NoReport, Pending} BY <2>1
  <2>2. CASE r \notin {NoReport, Pending}
    <3>1. r \in 1 .. c BY <2>2
    <3>2. <<r>> \in Seq(1 .. c) BY <3>1
    <3>3. QED BY <2>2, <3>2
  <2>3. QED BY <2>1, <2>2
<1>3. UnreadOf(r, p, k) = g \o p \o k BY DEF UnreadOf
<1> HIDE DEF g
<1>4. g \o p \in Seq(1 .. c) /\ g \o p \o k \in Seq(1 .. c) BY <1>2, ConcatProperties
<1>5. r \in {NoReport, Pending} => UnreadOf(r, p, k) = p \o k BY <1>1, <1>2, <1>3
<1>6. ASSUME r \notin {NoReport, Pending}, p = <<>>
      PROVE  /\ UnreadOf(r, p, k) # <<>> /\ Head(UnreadOf(r, p, k)) = r
             /\ Tail(UnreadOf(r, p, k)) = k
  <2>1. g \o p = g BY <1>1, <1>2, <1>6
  <2>2. g # <<>> /\ Head(g) = r /\ Tail(g) = <<>> BY <1>2, <1>6, JustThis
  <2>3. UnreadOf(r, p, k) = g \o k BY <1>3, <2>1
  <2>4. g \o k # <<>> /\ Head(g \o k) = r /\ Tail(g \o k) = <<>> \o k BY <1>2, <2>2, JoinTail
  <2>5. QED BY <1>1, <2>3, <2>4
<1>7. QED BY <1>1, <1>3, <1>4, <1>5, <1>6

LEMMA UnreadNone ==
  ASSUME NEW c, NEW r, NEW p, NEW k, Keeping(c, r, p, k), NEW P, r \notin P, NoneOf(p, P), NoneOf(k, P)
  PROVE  NoneOf(UnreadOf(r, p, k), P)
<1>1. p \o k \in Seq(1 .. c) /\ NoneOf(p \o k, P) BY JoinedNone, ConcatProperties DEF Keeping
<1>2. CASE r \in {NoReport, Pending}
  <2>1. UnreadOf(r, p, k) = p \o k BY <1>2, UnreadCases
  <2>2. QED BY <1>1, <2>1
<1>3. CASE r \notin {NoReport, Pending}
  <2>1. <<r>> \in Seq(1 .. c) /\ NoneOf(<<r>>, P) BY <1>3, JustThis DEF Keeping
  <2>2. <<r>> \o p \in Seq(1 .. c) /\ NoneOf(<<r>> \o p, P) BY <2>1, JoinedNone, ConcatProperties DEF Keeping
  <2>3. NoneOf(<<r>> \o p \o k, P) BY <2>2, JoinedNone DEF Keeping
  <2>4. QED BY <1>3, <2>3 DEF UnreadOf
<1>4. QED BY <1>2, <1>3

\* When fido_hid_open has returned a handle of a token that answers its pings in
\* time, nothing of terrible_ping_kludge is left to be read, or to come, for any
\* number of opens and reports and a queue of any length.
THEOREM OpenedCleanAlways == HidSpec => []OpenedClean
<1>1. HidInv => OpenedClean
  <2>1. SUFFICES ASSUME HidInv, hidpc \in {"open", "read"}, ~slow
                 PROVE  owed = 0 /\ NoneOf(Unread, pongs)
    BY DEF OpenedClean, NoneOf
  <2>2. owed = 0 /\ NoneOf(kernel, pongs) /\ NoneOf(pipe, pongs) /\ report \notin pongs
    BY <2>1 DEF HidInv, PingsAnswered
  <2>3. /\ report \in {NoReport, Pending} \cup (1 .. came) /\ came \in Nat
        /\ pipe \in Seq(1 .. came) /\ kernel \in Seq(1 .. came)
    BY <2>1 DEF HidInv, HidTypeOK
  <2>4. QED BY <2>2, <2>3, UnreadNone, UnreadIs DEF Keeping
<1>2. QED BY <1>1, HidInvAlways, PTL

-----------------------------------------------------------------------------
(* HidReports implements ReportQueue.                                      *)

\* The first report is lost.
LEMMA LosesFirst ==
  ASSUME NEW S, NEW q \in Seq(S), q # <<>>
  PROVE  \E i \in 1 .. Len(q) : Tail(q) = SubSeq(q, 1, i - 1) \o SubSeq(q, i + 1, Len(q))
<1>1. Len(q) \in Nat \ {0} OBVIOUS
<1>2. SubSeq(q, 1, 1 - 1) = <<>> BY <1>1, SubSeqEmpty
<1>3. SubSeq(q, 1 + 1, Len(q)) = Tail(q) BY <1>1, TailIsSubSeq
<1>4. <<>> \o Tail(q) = Tail(q) BY ConcatEmptySeq
<1>5. Tail(q) = SubSeq(q, 1, 1 - 1) \o SubSeq(q, 1 + 1, Len(q)) BY <1>2, <1>3, <1>4
<1>6. 1 \in 1 .. Len(q) BY <1>1
<1>7. QED BY <1>5, <1>6

\* What the handle keeps is what a report queue keeps.
LEMMA UnreadState ==
  ASSUME HidInv
  PROVE  /\ came \in Nat /\ report \in {NoReport, Pending} \cup (1 .. came)
         /\ pipe \in Seq(1 .. came) /\ kernel \in Seq(1 .. came)
         /\ Unread \in Seq(1 .. came)
         /\ sys # "win" => Unread = pipe \o kernel
         /\ sys # "osx" /\ report \in {NoReport, Pending} => Unread = kernel
         /\ sys \notin {"osx", "win"} => Unread = kernel
         /\ sys # "osx" /\ report \notin {NoReport, Pending} =>
              Unread # <<>> /\ Head(Unread) = report /\ Tail(Unread) = kernel
<1>1. /\ came \in Nat /\ report \in {NoReport, Pending} \cup (1 .. came)
      /\ pipe \in Seq(1 .. came) /\ kernel \in Seq(1 .. came)
  BY DEF HidInv, HidTypeOK
<1>2. (sys # "osx" => pipe = <<>>) /\ (sys # "win" => report = NoReport) BY DEF HidInv, Kept
<1> DEFINE u == UnreadOf(report, pipe, kernel)
<1>3. /\ u \in Seq(1 .. came)
      /\ report \in {NoReport, Pending} => u = pipe \o kernel
      /\ report \in {NoReport, Pending} /\ pipe = <<>> => u = kernel
      /\ report \notin {NoReport, Pending} /\ pipe = <<>> => u # <<>> /\ Head(u) = report /\ Tail(u) = kernel
  <2>1. Keeping(came, report, pipe, kernel) BY <1>1 DEF Keeping
  <2>2. QED BY <2>1, UnreadCases
<1>4. Unread = u BY UnreadIs
<1> HIDE DEF u
<1>5. QED BY <1>1, <1>2, <1>3, <1>4

\* The same of the next state, where what came may be more.
LEMMA UnreadNext ==
  ASSUME HidInv, HidInv'
  PROVE  /\ Unread' \in Seq(1 .. came')
         /\ sys' # "win" => Unread' = pipe' \o kernel'
         /\ sys' # "osx" /\ report' \in {NoReport, Pending} => Unread' = kernel'
         /\ sys' \notin {"osx", "win"} => Unread' = kernel'
<1>1. /\ came' \in Nat /\ report' \in {NoReport, Pending} \cup (1 .. came')
      /\ pipe' \in Seq(1 .. came') /\ kernel' \in Seq(1 .. came')
  BY DEF HidInv, HidTypeOK
<1>2. (sys' # "osx" => pipe' = <<>>) /\ (sys' # "win" => report' = NoReport) BY DEF HidInv, Kept
<1>3. Unread' = UnreadOf(report', pipe', kernel') BY DEF Unread, UnreadOf
<1> DEFINE u == UnreadOf(report', pipe', kernel')
<1>4. /\ u \in Seq(1 .. came')
      /\ report' \in {NoReport, Pending} => u = pipe' \o kernel'
      /\ report' \in {NoReport, Pending} /\ pipe' = <<>> => u = kernel'
  <2>1. Keeping(came', report', pipe', kernel') BY <1>1 DEF Keeping
  <2>2. QED BY <2>1, UnreadCases
<1>5. Unread' = u BY <1>3
<1> HIDE DEF u
<1>6. QED BY <1>1, <1>2, <1>4, <1>5

\* The pipe and the rest of the kernel's queue are what the queue was.
LEMMA SplitJoins ==
  ASSUME NEW S, NEW q \in Seq(S), NEW k \in 0 .. Len(q)
  PROVE  SubSeq(q, 1, k) \o SubSeq(q, k + 1, Len(q)) = q
<1> DEFINE a == SubSeq(q, 1, k)
           b == SubSeq(q, k + 1, Len(q))
<1>1. /\ a \in Seq(S) /\ Len(a) = k /\ b \in Seq(S) /\ Len(b) = Len(q) - k /\ Len(q) \in Nat
      /\ \A i \in 1 .. k : a[i] = q[i]
      /\ \A i \in 1 .. Len(q) - k : b[i] = q[k + i]
  BY Split
<1> HIDE DEF a, b
<1>2. /\ a \o b \in Seq(S) /\ Len(a \o b) = Len(q)
      /\ \A i \in 1 .. Len(q) : (a \o b)[i] = IF i <= k THEN a[i] ELSE b[i - k]
  <2>1. /\ a \o b \in Seq(S) /\ Len(a \o b) = Len(a) + Len(b)
        /\ \A i \in 1 .. Len(a) + Len(b) : (a \o b)[i] = IF i <= Len(a) THEN a[i] ELSE b[i - Len(a)]
    BY <1>1, ConcatProperties
  <2>2. Len(a) + Len(b) = Len(q) BY <1>1
  <2>3. QED BY <1>1, <2>1, <2>2
<1>3. \A i \in 1 .. Len(q) : (a \o b)[i] = q[i]
  <2> TAKE i \in 1 .. Len(q)
  <2>1. CASE i <= k BY <1>1, <1>2, <2>1
  <2>2. CASE ~(i <= k)
    <3>1. i - k \in 1 .. Len(q) - k /\ k + (i - k) = i BY <1>1, <2>2
    <3>2. QED BY <1>1, <1>2, <2>2, <3>1
  <2>3. QED BY <2>1, <2>2
<1>4. a \o b = q BY <1>2, <1>3, SeqEqual
<1>5. QED BY <1>4 DEF a, b

LEMMA HeadJoins ==
  ASSUME NEW S, NEW q \in Seq(S), q # <<>>
  PROVE  <<Head(q)>> \o <<>> \o Tail(q) = q
<1>1. Len(q) \in Nat \ {0} /\ 1 \in 1 .. Len(q) /\ Len(q) \in 1 .. Len(q) BY EmptySeq
<1>2. Head(q) = q[1] /\ Head(q) \in S /\ Tail(q) = SubSeq(q, 1 + 1, Len(q)) BY <1>1, TailIsSubSeq
<1>3. SubSeq(q, 1, Len(q)) = <<q[1]>> \o SubSeq(q, 1 + 1, Len(q)) BY <1>1, SubSeqRecursiveFirst
<1>4. SubSeq(q, 1, Len(q)) = q BY SubSeqFull
<1>5. <<Head(q)>> \o <<>> = <<Head(q)>>
  <2>1. <<Head(q)>> \in Seq(S) BY <1>2
  <2>2. QED BY <2>1, ConcatEmptySeq
<1>6. QED BY <1>2, <1>3, <1>4, <1>5

\* Nothing of one open is left for the next.
LEMMA ShutMaps == ASSUME Shut PROVE Reports!Empty
<1>1. Unread' = <<>> BY ConcatEmptySeq, EmptySeq DEF Shut, Unread
<1>2. QED BY <1>1 DEF Shut, Reports!Empty

LEMMA OpenStepMaps ==
  ASSUME HidInv, HidInv', OpenStep
  PROVE  Reports!Next \/ UNCHANGED Reports!vars
<1>1. ASSUME NEW s, OpensAs(s) PROVE Reports!Empty
  <2>1. Unread' = <<>> BY <1>1, ConcatEmptySeq, EmptySeq DEF OpensAs, Unread
  <2>2. QED BY <1>1, <2>1 DEF OpensAs, Reports!Empty
<1>2. CASE LinuxOpen \/ FreebsdOpen \/ NetbsdOpen \/ OpenbsdOpen \/ HidapiOpen \/ OsxOpen \/ WinOpen
  BY <1>1, <1>2 DEF LinuxOpen, FreebsdOpen, NetbsdOpen, OpenbsdOpen, HidapiOpen, OsxOpen, WinOpen, Reports!Next
<1>3. CASE OpenFails BY <1>3 DEF OpenFails, reading, Unread, Reports!vars
<1>4. CASE Ping BY <1>4 DEF Ping, Unread, Reports!vars
<1>5. CASE PongTimeout BY <1>5 DEF PongTimeout, Unread, Reports!vars
<1>6. CASE Pong
  <2>1. sys' = sys /\ sys \notin {"osx", "win"} /\ kernel # <<>> /\ kernel' = Tail(kernel)
        /\ came' = came /\ out' = out
    BY <1>6 DEF Pong, PongRead, HidInv, Kept
  <2>2. Unread = kernel /\ Unread' = kernel' /\ kernel \in Seq(1 .. came)
    BY <2>1, UnreadState, UnreadNext
  <2>3. Reports!Lose BY <2>1, <2>2, LosesFirst DEF Reports!Lose
  <2>4. QED BY <2>3 DEF Reports!Next
<1>7. CASE PingFails BY <1>7, ShutMaps DEF PingFails, Reports!Next
<1>8. QED BY <1>2, <1>3, <1>4, <1>5, <1>6, <1>7 DEF OpenStep

LEMMA ReadStepMaps ==
  ASSUME HidInv, HidInv', ReadStep
  PROVE  Reports!Next
<1>1. /\ report \in {NoReport, Pending} \cup (1 .. came) /\ NoReport # Pending
      /\ kernel \in Seq(1 .. came) /\ pipe \in Seq(1 .. came)
  BY UnreadState, NoReportIs
<1>2. ASSUME UnixRead, sys \notin {"osx", "win"} PROVE Reports!Read
  <2>1. Unread = kernel /\ Unread' = kernel' BY <1>2, UnreadState, UnreadNext DEF UnixRead, Returns
  <2>2. QED BY <1>2, <2>1 DEF UnixRead, Returns, Reports!Read
<1>3. CASE LinuxRead \/ FreebsdRead \/ NetbsdRead \/ OpenbsdRead \/ HidapiRead
  BY <1>2, <1>3 DEF LinuxRead, FreebsdRead, NetbsdRead, OpenbsdRead, HidapiRead, Reports!Next
\* A read that returns no report, and takes none, or the first from the kernel's queue.
<1>4. ASSUME Returns(NoReport), UNCHANGED <<kernel, pipe, report>> PROVE Reports!Next
  BY <1>4 DEF Returns, Unread, Reports!ReadFails, Reports!Next
<1>5. ASSUME Returns(NoReport), kernel # <<>>, kernel' = Tail(kernel), Unread = kernel, Unread' = kernel'
      PROVE  Reports!Next
  BY <1>1, <1>5, LosesFirst DEF Returns, Reports!Lose, Reports!Next
<1>6. CASE UnixTimeout BY <1>4, <1>6 DEF UnixTimeout
<1>7. CASE UnixFails
  <2>1. sys \notin {"osx", "win"} /\ sys' = sys BY <1>7 DEF UnixFails, Unix, Returns
  <2>2. Unread = kernel /\ Unread' = kernel' BY <2>1, UnreadState, UnreadNext
  <2>3. CASE kernel' = kernel BY <1>4, <1>7, <2>3 DEF UnixFails
  <2>4. CASE kernel # <<>> /\ kernel' = Tail(kernel) BY <1>5, <1>7, <2>2, <2>4 DEF UnixFails
  <2>5. QED BY <1>7, <2>3, <2>4 DEF UnixFails
<1>8. CASE OsxPending
  <2>1. Unread = pipe \o kernel /\ Unread' = pipe' \o kernel'
    BY <1>8, UnreadState, UnreadNext DEF OsxPending, Returns
  <2>2. /\ pipe \o kernel # <<>> /\ Head(pipe \o kernel) = Head(pipe)
        /\ Tail(pipe \o kernel) = Tail(pipe) \o kernel
    BY <1>1, <1>8, JoinTail DEF OsxPending
  <2>3. pipe' = Tail(pipe) /\ kernel' = kernel /\ out' = Head(pipe) /\ came' = came
    BY <1>8 DEF OsxPending, Returns
  <2>4. QED BY <2>1, <2>2, <2>3 DEF Reports!Read, Reports!Next
<1>9. ASSUME NEW k \in 0 .. QueueLen, OsxLoop(k) PROVE Reports!Next
  <2>1. /\ sys = "osx" /\ sys' = sys /\ pipe = <<>> /\ k <= Len(kernel) /\ came' = came
        /\ kernel' = SubSeq(kernel, k + 1, Len(kernel))
    BY <1>9 DEF OsxLoop, Returns
  <2>2. Unread = kernel
    <3>1. Unread = pipe \o kernel BY <2>1, UnreadState
    <3>2. QED BY <1>1, <2>1, <3>1, ConcatEmptySeq
  <2>3. Unread' = pipe' \o kernel' BY <2>1, UnreadNext
  <2>4. k \in 0 .. Len(kernel) BY <1>1, <1>9, <2>1, HidReportsAssumption
  <2>5. CASE k = 0
    <3>1. kernel' = kernel BY <1>1, <2>1, <2>5, SubSeqFull
    <3>2. Returns(NoReport) /\ UNCHANGED <<pipe, report>> BY <1>9, <2>5 DEF OsxLoop
    <3>3. QED BY <1>4, <3>1, <3>2
  <2>6. CASE k # 0
    <3>1. out' = Head(OsxPipe(k)) /\ pipe' = Tail(OsxPipe(k)) BY <1>9, <2>6 DEF OsxLoop, Returns
    <3>2. /\ OsxPipe(k) \in Seq(1 .. came) /\ Len(OsxPipe(k)) = k /\ kernel' \in Seq(1 .. came)
      BY <1>1, <2>1, <2>4, Split DEF OsxPipe
    <3>3. OsxPipe(k) # <<>> BY <2>6, <3>2
    <3>4. OsxPipe(k) \o kernel' = kernel BY <1>1, <2>1, <2>4, SplitJoins DEF OsxPipe
    <3>5. /\ OsxPipe(k) \o kernel' # <<>> /\ Head(OsxPipe(k) \o kernel') = Head(OsxPipe(k))
          /\ Tail(OsxPipe(k) \o kernel') = Tail(OsxPipe(k)) \o kernel'
      BY <3>2, <3>3, JoinTail
    <3>6. kernel # <<>> /\ out' = Head(kernel) /\ Unread' = Tail(kernel) BY <2>3, <3>1, <3>4, <3>5
    <3>7. QED BY <2>1, <2>2, <3>6 DEF Reports!Read, Reports!Next
  <2>7. QED BY <2>5, <2>6
<1>10. CASE OsxCallbackFails
  <2>1. sys = "osx" /\ sys' = sys /\ pipe = <<>> /\ pipe' = <<>> BY <1>10 DEF OsxCallbackFails, Returns
  <2>2. Unread = pipe \o kernel /\ Unread' = pipe' \o kernel' BY <2>1, UnreadState, UnreadNext
  <2>3. kernel' \in Seq(1 .. came') BY DEF HidInv, HidTypeOK
  <2>4. Unread = kernel /\ Unread' = kernel' BY <1>1, <2>1, <2>2, <2>3, ConcatEmptySeq
  <2>5. QED BY <1>5, <1>10, <2>4 DEF OsxCallbackFails
<1>11. CASE WinRead
  <2>1. sys = "win" /\ sys' = sys /\ report \notin {NoReport, Pending} /\ report' = NoReport
        /\ kernel' = kernel /\ out' = report /\ came' = came
    BY <1>11 DEF WinRead, WinTaken, Returns
  <2>2. Unread # <<>> /\ Head(Unread) = report /\ Tail(Unread) = kernel BY <2>1, UnreadState
  <2>3. Unread' = kernel' BY <2>1, UnreadNext
  <2>4. QED BY <2>1, <2>2, <2>3 DEF Reports!Read, Reports!Next
<1>12. CASE WinTimeout BY <1>4, <1>12 DEF WinTimeout
<1>13. CASE WinFails
  <2>1. sys = "win" /\ sys' = sys /\ report' = NoReport /\ kernel' = kernel /\ out' = NoReport /\ came' = came
    BY <1>13 DEF WinFails, Returns
  <2>2. Unread' = kernel BY <2>1, UnreadNext
  <2>3. CASE report \in {NoReport, Pending}
    <3>1. Unread = kernel BY <2>1, <2>3, UnreadState
    <3>2. QED BY <2>1, <2>2, <3>1 DEF Reports!ReadFails, Reports!Next
  <2>4. CASE report \notin {NoReport, Pending}
    <3>1. Unread \in Seq(1 .. came) /\ Unread # <<>> /\ Tail(Unread) = kernel BY <2>1, <2>4, UnreadState
    <3>2. Reports!Lose BY <2>1, <2>2, <3>1, LosesFirst DEF Reports!Lose
    <3>3. QED BY <3>2 DEF Reports!Next
  <2>5. QED BY <2>3, <2>4
<1>14. QED BY <1>3, <1>6, <1>7, <1>8, <1>9, <1>10, <1>11, <1>12, <1>13 DEF ReadStep

LEMMA TokenSendsMaps == ASSUME HidInv, HidInv', TokenSends PROVE Reports!Arrive
<1>1. /\ came' = came + 1 /\ kernel' = Queued /\ came \in Nat
      /\ UNCHANGED <<sys, report, pipe, out>>
  BY UnreadState DEF TokenSends, reading
<1>2. CASE kernel' = kernel
  <2>1. Unread' = Unread BY <1>1, <1>2 DEF Unread
  <2>2. QED BY <1>1, <2>1 DEF Reports!Arrive
<1>3. CASE kernel' = Append(kernel, came + 1)
  <2> DEFINE g == IF report \notin {NoReport, Pending} THEN <<report>> ELSE <<>>
             S == 1 .. came + 1
  <2>1. /\ kernel \in Seq(S) /\ pipe \in Seq(S) /\ came + 1 \in S
    BY <1>1, UnreadState, Longer
  <2>2. g \in Seq(S)
    <3>1. CASE report \in {NoReport, Pending} BY <3>1
    <3>2. CASE report \notin {NoReport, Pending}
      <4>1. report \in S BY <1>1, <3>2, UnreadState
      <4>2. QED BY <3>2, <4>1, JustThis
    <3>3. QED BY <3>1, <3>2
  <2>3. Unread = g \o pipe \o kernel /\ Unread' = g \o pipe \o kernel' BY <1>1 DEF Unread
  <2> HIDE DEF g, S
  <2>4. g \o pipe \in Seq(S) BY <2>1, <2>2, ConcatProperties
  <2>5. g \o pipe \o kernel' = Append(g \o pipe \o kernel, came + 1) BY <1>3, <2>1, <2>4, JoinAppend
  <2>6. QED BY <1>1, <2>3, <2>5 DEF Reports!Arrive
<1>4. QED BY <1>1, <1>2, <1>3 DEF Queued

\* Whatever a hid_*.c keeps between two reads, what it returns is a queue of the
\* reports since the open: HidReports implements ReportQueue, for any number of opens,
\* reports and failures, a queue of the kernel of any length, and any timeouts.
THEOREM ImplementsQueue == HidSpec => QueueSpec
<1>1. HidInit => Reports!Init
  <2>1. SUFFICES ASSUME HidInit PROVE Reports!Init OBVIOUS
  <2>2. Unread = <<>> BY <2>1, ConcatEmptySeq, EmptySeq DEF HidInit, Unread
  <2>3. QED BY <2>1, <2>2 DEF HidInit, Reports!Init
<1>2. HidInv /\ HidInv' /\ [HidNext]_hidVars => [Reports!Next]_Reports!vars
  <2>1. SUFFICES ASSUME HidInv, HidInv', [HidNext]_hidVars
                 PROVE  Reports!Next \/ UNCHANGED Reports!vars
    OBVIOUS
  <2>2. CASE OpenStep BY <2>1, <2>2, OpenStepMaps
  <2>3. CASE \E w \in Waits : BeginRead(w)
    <3>1. PICK w \in Waits : BeginRead(w) BY <2>3
    <3>2. UNCHANGED <<pipe, kernel, came>> /\ out' = NoReport /\ report' = Posted BY <3>1 DEF BeginRead
    <3>3. Unread' = Unread BY <3>2, NoReportIs DEF Unread, Posted
    <3>4. QED BY <3>2, <3>3 DEF Reports!ReadFails, Reports!Next
  <2>4. CASE ReadStep BY <2>1, <2>4, ReadStepMaps
  <2>5. CASE WinCompletes
    <3>1. sys = "win" /\ sys' = sys /\ report = Pending /\ kernel # <<>> /\ report' = Head(kernel)
          /\ kernel' = Tail(kernel) /\ pipe' = pipe /\ came' = came /\ out' = out
      BY <2>5 DEF WinCompletes
    <3>2. Unread = kernel /\ kernel \in Seq(1 .. came) /\ pipe = <<>>
      BY <2>1, <3>1, UnreadState DEF HidInv, Kept
    <3>3. Unread' = <<Head(kernel)>> \o <<>> \o Tail(kernel)
      <4>1. Head(kernel) \in 1 .. came BY <3>1, <3>2, HeadTailProperties
      <4>2. Head(kernel) \notin {NoReport, Pending} BY <2>1, <4>1, NoReportIs, UnreadState DEF Pending
      <4>3. QED BY <3>1, <3>2, <4>2 DEF Unread
    <3>4. Unread' = kernel BY <3>1, <3>2, <3>3, HeadJoins
    <3>5. QED BY <3>1, <3>2, <3>4 DEF Reports!vars
  <2>6. CASE CloseHid BY <2>6, ShutMaps DEF CloseHid, Reports!Next
  <2>7. CASE TokenSends BY <2>1, <2>7, TokenSendsMaps DEF Reports!Next
  <2>8. CASE UNCHANGED hidVars BY <2>8 DEF hidVars, reading, Unread, Reports!vars
  <2>9. QED BY <2>1, <2>2, <2>3, <2>4, <2>5, <2>6, <2>7, <2>8 DEF HidNext
<1>3. QED BY <1>1, <1>2, HidInvAlways, PTL DEF HidSpec, QueueSpec, Reports!Spec
=============================================================================
