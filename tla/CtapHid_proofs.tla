--------------------------- MODULE CtapHid_proofs ---------------------------
(***************************************************************************)
(* What fido_tx sends and how long a command takes, for reports, messages  *)
(* and timeouts of every length: RequestsWhole, SentWhole, TimeoutBudget.  *)
(* What fido_rx delivers, for replies that are split, late, lost and mixed *)
(* with reports of other channels: AcceptedWhole, OwnReply, and that both  *)
(* together implement HidMessage, from which NoReplyFromNowhere follows.   *)
(***************************************************************************)
EXTENDS CtapHidRefines, SequenceTheorems, TLAPS

LEMMA Sizes == InitData \in Nat \ {0} /\ ContData \in Nat \ {0}
BY CtapHidAssumption DEF InitData, ContData

LEMMA MinIs ==
  ASSUME NEW x \in Nat, NEW y \in Nat
  PROVE  MIN(x, y) \in Nat /\ MIN(x, y) <= x /\ MIN(x, y) <= y /\ (MIN(x, y) = x \/ MIN(x, y) = y)
BY DEF MIN

-----------------------------------------------------------------------------
(* Bytes in reports.                                                       *)

\* k bytes of a message, from the one after the first `from`.
Slice(id, from, k) == [i \in 1 .. k |-> <<id, from + i>>]

LEMMA BytesAre ==
  ASSUME NEW id \in Nat, NEW n \in Nat
  PROVE  /\ Bytes(id, n) = Slice(id, 0, n) /\ Len(Bytes(id, n)) = n /\ DOMAIN Bytes(id, n) = 1 .. n
         /\ Bytes(id, n) \in Seq(Nat \X Nat)
BY DEF Bytes, Slice

LEMMA SliceIs ==
  ASSUME NEW id \in Nat, NEW from \in Nat, NEW k \in Nat
  PROVE  /\ Slice(id, from, k) \in Seq(Nat \X Nat) /\ Len(Slice(id, from, k)) = k
         /\ \A i \in 1 .. k : Slice(id, from, k)[i] = <<id, from + i>>
BY DEF Slice

LEMMA IsSlice ==
  ASSUME NEW id \in Nat, NEW from \in Nat, NEW k \in Nat, NEW s \in Seq(Nat \X Nat), Len(s) = k,
         \A i \in 1 .. k : s[i] = <<id, from + i>>
  PROVE  s = Slice(id, from, k)
BY DEF Slice

\* The first k bytes that a report of `room` bytes carries of s.
Held(s, k, room) == SubSeq(PadTo(SubSeq(s, 1, k), room), 1, k)

\* A report that is given the rest of a message holds the next bytes of it.
LEMMA Carried ==
  ASSUME NEW id \in Nat, NEW from \in Nat, NEW left \in Nat, NEW room \in Nat
  PROVE  Held(Slice(id, from, left), MIN(left, room), room) = Slice(id, from, MIN(left, room))
<1> DEFINE k == MIN(left, room)
           s == Slice(id, from, left)
           t == SubSeq(s, 1, MIN(left, room))
           p == PadTo(t, room)
           u == SubSeq(p, 1, k)
<1>1. k \in Nat /\ k <= left /\ k <= room BY MinIs
<1>2. Len(s) = left /\ \A i \in 1 .. left : s[i] = <<id, from + i>> BY SliceIs
<1> HIDE DEF k, s
<1>3. \A i \in 1 .. k : s[i] = <<id, from + i>> /\ s[i] \in Nat \X Nat
  <2> TAKE i \in 1 .. k
  <2>1. i \in 1 .. left /\ from + i \in Nat BY <1>1
  <2>2. <<id, from + i>> \in Nat \X Nat BY <2>1
  <2>3. QED BY <1>2, <2>1, <2>2, Zenon
<1>4. t = SubSeq(s, 1, k) BY DEF k
<1> HIDE DEF t
<1>5. Len(t) = k /\ \A i \in 1 .. k : t[i] = <<id, from + i>>
  <2>1. /\ Len(SubSeq(s, 1, k)) = IF 1 <= k THEN k - 1 + 1 ELSE 0
        /\ \A i \in 1 .. k - 1 + 1 : SubSeq(s, 1, k)[i] = s[1 + i - 1]
    BY <1>1, <1>3, SubSeqProperties
  <2>2. \A i \in 1 .. k : i \in 1 .. k - 1 + 1 /\ 1 + i - 1 = i BY <1>1
  <2>3. Len(t) = k BY <1>1, <1>4, <2>1
  <2>4. \A i \in 1 .. k : t[i] = s[i] BY <1>4, <2>1, <2>2
  <2>5. QED BY <1>3, <2>3, <2>4, Zenon
<1>6. \A i \in 1 .. k : p[i] = <<id, from + i>> /\ p[i] \in Nat \X Nat
  <2> TAKE i \in 1 .. k
  <2>1. i \in 1 .. room /\ i <= Len(t) /\ from + i \in Nat BY <1>1, <1>5
  <2>2. p[i] = t[i] BY <2>1 DEF PadTo
  <2>3. <<id, from + i>> \in Nat \X Nat BY <2>1
  <2>4. QED BY <1>5, <2>2, <2>3, Zenon
<1> HIDE DEF p
<1>7. /\ u \in Seq(Nat \X Nat) /\ Len(u) = IF 1 <= k THEN k - 1 + 1 ELSE 0
      /\ \A i \in 1 .. k - 1 + 1 : u[i] = p[1 + i - 1]
  BY <1>1, <1>6, SubSeqProperties
<1>8. Len(u) = k /\ \A i \in 1 .. k : u[i] = <<id, from + i>> BY <1>1, <1>6, <1>7
<1> HIDE DEF u
<1>9. u = Slice(id, from, k) BY <1>1, <1>7, <1>8, IsSlice
<1>10. QED BY <1>9 DEF u, p, t, s, k, Held

LEMMA Glued ==
  ASSUME NEW id \in Nat, NEW n \in Nat, NEW k \in Nat
  PROVE  Bytes(id, n) \o Slice(id, n, k) = Bytes(id, n + k)
<1> DEFINE a == Slice(id, 0, n)
           b == Slice(id, n, k)
<1>1. /\ Len(a) = n /\ a \in Seq(Nat \X Nat) /\ \A i \in 1 .. n : a[i] = <<id, 0 + i>>
      /\ Len(b) = k /\ b \in Seq(Nat \X Nat) /\ \A i \in 1 .. k : b[i] = <<id, n + i>>
  BY SliceIs
<1>2. Bytes(id, n) = a /\ Bytes(id, n + k) = Slice(id, 0, n + k) BY BytesAre
<1> HIDE DEF a, b
<1>3. /\ a \o b \in Seq(Nat \X Nat) /\ Len(a \o b) = n + k
      /\ \A i \in 1 .. n + k : (a \o b)[i] = IF i <= n THEN a[i] ELSE b[i - n]
  BY <1>1, ConcatProperties
<1>4. \A i \in 1 .. n + k : (a \o b)[i] = <<id, 0 + i>>
  <2> SUFFICES ASSUME NEW i \in 1 .. n + k PROVE (a \o b)[i] = <<id, 0 + i>>
    OBVIOUS
  <2>1. CASE i <= n BY <2>1, <1>1, <1>3
  <2>2. CASE ~(i <= n)
    <3>1. i - n \in 1 .. k /\ n + (i - n) = 0 + i BY <2>2
    <3>2. b[i - n] = <<id, n + (i - n)>> BY <3>1, <1>1
    <3>3. (a \o b)[i] = b[i - n] BY <2>2, <1>3
    <3>4. QED BY <3>1, <3>2, <3>3
  <2>3. QED BY <2>1, <2>2
<1>5. a \o b = Slice(id, 0, n + k)
  <2>1. 0 \in Nat /\ n + k \in Nat OBVIOUS
  <2>2. QED BY <1>3, <1>4, <2>1, IsSlice, Zenon
<1>6. QED BY <1>2, <1>5 DEF b

\* What tx has yet to send is the end of the message.
LEMMA Rest ==
  ASSUME NEW id \in Nat, NEW n \in Nat, NEW k \in 0 .. n
  PROVE  SubSeq(Bytes(id, n), k + 1, Len(Bytes(id, n))) = Slice(id, k, n - k)
<1> DEFINE s == Bytes(id, n)
           u == SubSeq(s, k + 1, n)
<1>1. Len(s) = n /\ \A i \in 1 .. n : s[i] = <<id, i>> BY DEF Bytes
<1> HIDE DEF s
<1>2. \A i \in k + 1 .. n : s[i] = <<id, i>> /\ s[i] \in Nat \X Nat
  <2> TAKE i \in k + 1 .. n
  <2>1. i \in 1 .. n /\ i \in Nat OBVIOUS
  <2>2. s[i] = <<id, i>> BY <1>1, <2>1
  <2>3. <<id, i>> \in Nat \X Nat BY <2>1
  <2>4. QED BY <2>2, <2>3
<1>3. /\ u \in Seq(Nat \X Nat) /\ Len(u) = IF k + 1 <= n THEN n - (k + 1) + 1 ELSE 0
      /\ \A i \in 1 .. n - (k + 1) + 1 : u[i] = s[(k + 1) + i - 1]
  BY <1>2, SubSeqProperties
<1>4. Len(u) = n - k BY <1>3
<1>5. \A i \in 1 .. n - k : u[i] = <<id, k + i>>
  <2> TAKE i \in 1 .. n - k
  <2>1. k + i \in k + 1 .. n /\ (k + 1) + i - 1 = k + i /\ i \in 1 .. n - (k + 1) + 1 OBVIOUS
  <2>2. QED BY <1>2, <1>3, <2>1
<1> HIDE DEF u
<1>6. u = Slice(id, k, n - k)
  <2>1. k \in Nat /\ n - k \in Nat OBVIOUS
  <2>2. QED BY <1>3, <1>4, <1>5, <2>1, IsSlice, Zenon
<1>7. QED BY <1>1, <1>6 DEF s, u

-----------------------------------------------------------------------------
(* Requests.                                                               *)

\* Every request a caller may make, as the authenticator knows it.
Requests == UNION {{[id |-> id, got |-> Bytes(id, n)] : n \in RequestLens[id]} : id \in 1 .. MaxCmds}

\* The message being sent, of n bytes, and what the authenticator has of it: all
\* that was written, and the number the next report will have.
Sending(n) ==
  /\ cur \in 1 .. MaxCmds /\ n \in RequestLens[cur] /\ n \in Nat /\ n <= UINT16_MAX
  /\ request = Bytes(cur, n)
  /\ \/ sent = 0 /\ seq = 0
     \/ /\ sent \in Nat /\ 0 < sent /\ sent < n /\ seq \in 0 .. 255
        /\ asm = [need |-> n, got |-> Bytes(cur, sent), next |-> seq]

SendInv ==
  /\ cur \in 0 .. MaxCmds
  /\ todo \in Seq(Requests)
  /\ pc = "tx" => \E n \in Nat : Sending(n)

\* A report that brings the bytes written so far to k of n.
Reached(n, k, next) ==
  IF k = n THEN todo' = Append(todo, [id |-> cur, got |-> request])
  ELSE todo' = todo /\ asm' = [need |-> n, got |-> Bytes(cur, k), next |-> next]

LEMMA SendingIs ==
  ASSUME NEW n \in Nat, Sending(n)
  PROVE  /\ n <= 65535 /\ cur \in Nat /\ request = Bytes(cur, n) /\ Len(request) = n
         /\ MIN(n, InitData) \in Nat
         /\ sent > 0 => /\ sent \in Nat /\ sent < n /\ n - sent \in Nat /\ seq \in 0 .. 255
                        /\ MIN(n - sent, ContData) \in Nat /\ MIN(n - sent, ContData) <= n - sent
                        /\ asm = [need |-> n, got |-> Bytes(cur, sent), next |-> seq]
                        /\ Len(asm.got) = sent
<1>1. n <= 65535 /\ cur \in 1 .. MaxCmds /\ request = Bytes(cur, n) BY DEF Sending, UINT16_MAX
<1>2. MaxCmds \in Nat BY CtapHidAssumption
<1>3. cur \in Nat BY <1>1, <1>2
<1>4. Len(request) = n BY <1>1, <1>3, BytesAre
<1>5. MIN(n, InitData) \in Nat BY Sizes, MinIs
<1>6. ASSUME sent > 0
      PROVE  /\ sent \in Nat /\ sent < n /\ n - sent \in Nat /\ seq \in 0 .. 255
             /\ asm = [need |-> n, got |-> Bytes(cur, sent), next |-> seq]
  BY <1>6 DEF Sending
<1>7. ASSUME sent > 0
      PROVE  /\ MIN(n - sent, ContData) \in Nat /\ MIN(n - sent, ContData) <= n - sent
             /\ Len(asm.got) = sent
  <2>1. Len(Bytes(cur, sent)) = sent BY <1>3, <1>6, <1>7, BytesAre
  <2>2. n - sent \in Nat BY <1>6, <1>7
  <2>3. ContData \in Nat BY Sizes
  <2>4. MIN(n - sent, ContData) \in Nat /\ MIN(n - sent, ContData) <= n - sent BY <2>2, <2>3, MinIs
  <2>5. Len(asm.got) = sent BY <1>6, <1>7, <2>1
  <2>6. QED BY <2>4, <2>5
<1>8. QED BY <1>1, <1>3, <1>4, <1>5, <1>6, <1>7

LEMMA FirstExtends ==
  ASSUME NEW n \in Nat, Sending(n)
  PROVE  /\ FirstReport.type = 144
         /\ Extended(asm, FirstReport) = [need |-> n, got |-> Bytes(cur, MIN(n, InitData)), next |-> 0]
<1> DEFINE k == MIN(n, InitData)
           f == FirstReport
<1>1. n <= 65535 /\ cur \in Nat /\ request = Bytes(cur, n) /\ Len(request) = n /\ k \in Nat
  BY SendingIs
<1>2. n % 65536 = n BY <1>1
<1>3. /\ f.type = 144 /\ f.bcnt = n
      /\ f.data = PadTo(SubSeq(request, 1, MIN(Len(request), InitData)), InitData)
  BY <1>1, <1>2 DEF FirstReport, InitFrame, UINT16_MAX, CTAP_FRAME_INIT, CTAP_CMD_CBOR
<1>4. request = Slice(cur, 0, n) /\ Slice(cur, 0, k) = Bytes(cur, k) BY <1>1, BytesAre
<1>5. SubSeq(f.data, 1, k) = Bytes(cur, k)
  <2>1. InitData \in Nat /\ 0 \in Nat /\ cur \in Nat /\ n \in Nat BY Sizes, <1>1
  <2> HIDE DEF f
  <2>2. Held(Slice(cur, 0, n), k, InitData) = Slice(cur, 0, k)
    BY <2>1, Carried
  <2>3. QED BY <1>1, <1>3, <1>4, <2>2 DEF Held
<1> HIDE DEF f, k
<1>6. Extended(asm, f) = [need |-> f.bcnt, got |-> SubSeq(f.data, 1, MIN(f.bcnt, InitData)), next |-> 0]
  BY <1>3 DEF Extended, CTAP_FRAME_INIT
<1>7. QED BY <1>3, <1>5, <1>6 DEF f, k

LEMMA NextExtends ==
  ASSUME NEW n \in Nat, Sending(n), sent > 0, ~SeqTooLong(seq)
  PROVE  LET k == sent + MIN(n - sent, ContData) IN
         /\ NextReport.type = seq /\ seq \in 0 .. 127
         /\ Extended(asm, NextReport) = [need |-> n, got |-> Bytes(cur, k), next |-> seq + 1]
<1> DEFINE d == MIN(n - sent, ContData)
           f == NextReport
<1>1. /\ cur \in Nat /\ request = Bytes(cur, n) /\ Len(request) = n
      /\ sent \in 0 .. n /\ sent < n /\ n - sent \in Nat /\ d \in Nat /\ seq \in 0 .. 127
      /\ asm = [need |-> n, got |-> Bytes(cur, sent), next |-> seq] /\ Len(asm.got) = sent
  <2>1. seq \in 0 .. 127
    <3>1. seq \in 0 .. 255 /\ ~(seq >= 128) BY SendingIs DEF SeqTooLong
    <3>2. QED BY <3>1
  <2>2. QED BY <2>1, SendingIs
<1> DEFINE s == SubSeq(request, sent + 1, Len(request))
<1>2. s = Slice(cur, sent, n - sent) BY <1>1, Rest
<1>3. f.type = seq /\ f.data = PadTo(SubSeq(s, 1, MIN(Len(s), ContData)), ContData)
  BY DEF NextReport, ContFrame
<1> HIDE DEF s
<1>4. SubSeq(f.data, 1, d) = Slice(cur, sent, d)
  <2>1. ContData \in Nat /\ sent \in Nat /\ cur \in Nat /\ n - sent \in Nat BY Sizes, <1>1
  <2> HIDE DEF f
  <2>2. Held(Slice(cur, sent, n - sent), d, ContData) = Slice(cur, sent, d)
    BY <2>1, Carried
  <2>3. Len(s) = n - sent BY <1>2, <2>1, SliceIs
  <2>4. QED BY <1>2, <1>3, <2>2, <2>3 DEF Held
<1> HIDE DEF f
<1>5. Extended(asm, f) = [asm EXCEPT !.got = @ \o SubSeq(f.data, 1, MIN(asm.need - Len(@), ContData)),
                                     !.next = @ + 1]
  <2>1. ~(f.type >= 128) /\ f.type = asm.next /\ Len(asm.got) < asm.need BY <1>1, <1>3
  <2>2. QED BY <2>1 DEF Extended, CTAP_FRAME_INIT
<1>6. asm.got \o SubSeq(f.data, 1, d) = Bytes(cur, sent + d)
  <2>1. sent \in Nat /\ asm.got = Bytes(cur, sent) BY <1>1
  <2>2. Bytes(cur, sent) \o Slice(cur, sent, d) = Bytes(cur, sent + d) BY <1>1, <2>1, Glued
  <2>3. QED BY <1>4, <2>1, <2>2
<1>7. MIN(asm.need - Len(asm.got), ContData) = d BY <1>1
<1> HIDE DEF d
<1>8. Extended(asm, f) = [need |-> n, got |-> Bytes(cur, sent + d), next |-> seq + 1]
  BY <1>1, <1>5, <1>6, <1>7
<1>9. QED BY <1>1, <1>3, <1>8 DEF f, d

LEMMA FirstTaken ==
  ASSUME NEW n \in Nat, Sending(n), DeviceTakes(FirstReport)
  PROVE  Reached(n, MIN(n, InitData), 0)
<1> DEFINE k == MIN(n, InitData)
<1>1. k \in Nat /\ Len(Bytes(cur, k)) = k /\ request = Bytes(cur, n) BY SendingIs, BytesAre
<1>2. QED BY <1>1, FirstExtends DEF DeviceTakes, Reached, CTAP_FRAME_INIT

LEMMA NextTaken ==
  ASSUME NEW n \in Nat, Sending(n), sent > 0, ~SeqTooLong(seq), DeviceTakes(NextReport)
  PROVE  Reached(n, sent + MIN(n - sent, ContData), seq + 1)
<1> DEFINE k == sent + MIN(n - sent, ContData)
<1>1. k \in Nat /\ request = Bytes(cur, n) /\ n # 0 /\ cur \in Nat BY SendingIs
<1> HIDE DEF k
<1>2. Len(Bytes(cur, k)) = k BY <1>1, BytesAre
<1>3. Extended(asm, NextReport) # NoMsg BY <1>1, NextExtends DEF NoMsg, k
<1>4. QED BY <1>1, <1>2, <1>3, NextExtends DEF DeviceTakes, Reached, CTAP_FRAME_INIT, k

LEMMA ReachedWhole ==
  ASSUME NEW n \in Nat, Sending(n), todo \in Seq(Requests), NEW k \in Nat, NEW next, Reached(n, k, next)
  PROVE  /\ todo' \in Seq(Requests)
         /\ k = n => \E i \in 1 .. Len(todo') : todo'[i] = [id |-> cur, got |-> request]
<1> DEFINE r == [id |-> cur, got |-> request]
<1>1. r \in Requests BY DEF Sending, Requests
<1>2. CASE k = n
  <2> HIDE DEF r
  <2>1. todo' = Append(todo, r) BY <1>2 DEF Reached, r
  <2>2. todo' \in Seq(Requests) /\ Len(todo') \in Nat \ {0} /\ todo'[Len(todo')] = r BY <1>1, <2>1
  <2>3. QED BY <2>2 DEF r
<1>3. CASE k # n BY <1>3 DEF Reached
<1>4. QED BY <1>2, <1>3

\* The steps of tx: one report each.
LEMMA TxKeeps ==
  ASSUME SendInv, TxPreamble \/ TxFrame
  PROVE  /\ SendInv' /\ (pc' = "tx" => todo' = todo)
         /\ pc' = "rx" => \E i \in 1 .. Len(todo') : todo'[i] = [id |-> cur, got |-> request]
<1>1. pc = "tx" /\ todo \in Seq(Requests) /\ cur' = cur /\ request' = request /\ cur \in 0 .. MaxCmds
  BY DEF TxPreamble, TxFrame, Write, SendInv
<1>2. PICK n \in Nat : Sending(n) BY <1>1 DEF SendInv
<1>3. Len(request) = n BY <1>2, SendingIs
<1>4. CASE TxPreamble
  <2> DEFINE k == MIN(n, InitData)
  <2>1. k \in Nat /\ k <= n /\ (k = n \/ k > 0) BY MinIs, Sizes
  <2>2. DeviceTakes(FirstReport) BY <1>4 DEF TxPreamble, Write
  <2>3. Reached(n, k, 0) BY <1>2, <2>2, FirstTaken
  <2>4. sent' = k /\ IF k < n THEN pc' = pc /\ seq' = seq ELSE pc' = "rx"
    BY <1>3, <1>4 DEF TxPreamble, ToRx
  <2>5. seq = 0 BY <1>2, <1>4 DEF TxPreamble, Sending
  <2> HIDE DEF k
  <2>6. todo' \in Seq(Requests) BY <1>1, <1>2, <2>1, <2>3, ReachedWhole
  <2>7. CASE k < n
    <3>1. asm' = [need |-> n, got |-> Bytes(cur, k), next |-> 0] BY <2>1, <2>3, <2>7 DEF Reached
    <3>2. Sending(n)' BY <1>1, <1>2, <2>1, <2>4, <2>5, <2>7, <3>1 DEF Sending
    <3>3. todo' = todo BY <2>1, <2>3, <2>7 DEF Reached
    <3>4. QED BY <1>1, <2>4, <2>6, <2>7, <3>2, <3>3 DEF SendInv
  <2>8. CASE k = n BY <1>1, <1>2, <2>1, <2>3, <2>4, <2>6, <2>8, ReachedWhole DEF SendInv
  <2>9. QED BY <2>1, <2>7, <2>8
<1>5. CASE TxFrame
  <2> DEFINE d == MIN(n - sent, ContData)
             k == sent + d
  <2>1. sent > 0 /\ ~SeqTooLong(seq) /\ DeviceTakes(NextReport) BY <1>5 DEF TxFrame, Write
  <2>2. sent \in Nat /\ n - sent \in Nat /\ d \in Nat /\ d <= n - sent BY <1>2, <2>1, SendingIs
  <2>3. k \in Nat /\ k <= n /\ k > 0 BY <2>1, <2>2
  <2>4. Reached(n, k, seq + 1) BY <1>2, <2>1, NextTaken
  <2>5. sent' = k /\ IF k < n THEN pc' = pc /\ seq' = (seq + 1) % 256 ELSE pc' = "rx"
    BY <1>3, <1>5 DEF TxFrame, ToRx, Taken
  <2>6. seq \in 0 .. 127 BY <1>2, <2>1, NextExtends
  <2> HIDE DEF k
  <2>7. todo' \in Seq(Requests) BY <1>1, <1>2, <2>3, <2>4, ReachedWhole
  <2>8. CASE k < n
    <3>1. asm' = [need |-> n, got |-> Bytes(cur, k), next |-> seq + 1] BY <2>3, <2>4, <2>8 DEF Reached
    <3>2. seq' = seq + 1 /\ seq + 1 \in 0 .. 255 BY <2>5, <2>6, <2>8
    <3>3. Sending(n)' BY <1>1, <1>2, <2>3, <2>5, <2>8, <3>1, <3>2 DEF Sending
    <3>4. todo' = todo BY <2>3, <2>4, <2>8 DEF Reached
    <3>5. QED BY <1>1, <2>5, <2>7, <2>8, <3>3, <3>4 DEF SendInv
  <2>9. CASE k = n BY <1>1, <1>2, <2>3, <2>4, <2>5, <2>7, <2>9, ReachedWhole DEF SendInv
  <2>10. QED BY <2>3, <2>8, <2>9
<1>6. QED BY <1>4, <1>5

\* A report that fido_tx gave up on may have arrived.
LEMMA TxFailsKeeps == ASSUME SendInv, TxFails PROVE SendInv'
<1>1. pc = "tx" /\ pc' = "idle" /\ cur' = cur /\ todo \in Seq(Requests) /\ cur \in 0 .. MaxCmds
  BY DEF TxFails, End, SendInv
<1>2. PICK n \in Nat : Sending(n) BY <1>1 DEF SendInv
<1>3. todo' \in Seq(Requests)
  <2>1. CASE UNCHANGED device BY <1>1, <2>1 DEF device
  <2>2. CASE sent = 0 /\ DeviceTakes(FirstReport)
    <3>1. Reached(n, MIN(n, InitData), 0) /\ MIN(n, InitData) \in Nat
      BY <1>2, <2>2, FirstTaken, SendingIs
    <3>2. QED BY <1>1, <1>2, <3>1, ReachedWhole
  <2>3. CASE sent # 0 /\ ~SeqTooLong(seq) /\ DeviceTakes(NextReport)
    <3> DEFINE k == sent + MIN(n - sent, ContData)
    <3>1. sent > 0 BY <1>2, <2>3 DEF Sending
    <3>2. Reached(n, k, seq + 1) BY <1>2, <2>3, <3>1, NextTaken
    <3>3. k \in Nat BY <1>2, <3>1, SendingIs
    <3> HIDE DEF k
    <3>4. QED BY <1>1, <1>2, <3>2, <3>3, ReachedWhole
  <2>4. QED BY <2>1, <2>2, <2>3 DEF TxFails
<1>4. QED BY <1>1, <1>3 DEF SendInv

LEMMA BeginKeeps == ASSUME SendInv, Begin PROVE SendInv'
<1>1. PICK n \in RequestLens[cur'] :
        /\ request' = Bytes(cur', n)
        /\ n > UINT16_MAX => pc' = "idle"
  BY DEF Begin, End
<1>2. MaxCmds \in Nat /\ cur' = cur + 1 /\ cur' \in 1 .. MaxCmds /\ sent' = 0 /\ seq' = 0 /\ todo' = todo
  BY CtapHidAssumption DEF Begin, SendInv, device
<1>3. n \in Nat BY <1>1, <1>2, CtapHidAssumption
<1>4. pc' = "tx" => Sending(n)' BY <1>1, <1>2, <1>3 DEF Sending, UINT16_MAX
<1>5. QED BY <1>2, <1>3, <1>4 DEF SendInv

LEMMA SendStep ==
  ASSUME SendInv, [Next]_vars
  PROVE  /\ SendInv'
         /\ pc = "tx" /\ pc' = "rx" => \E i \in 1 .. Len(todo') : todo'[i] = [id |-> cur, got |-> request]
<1>1. CASE Begin BY <1>1, BeginKeeps DEF Begin
<1>2. CASE TxFails BY <1>2, TxFailsKeeps DEF TxFails, End
<1>3. CASE TxPreamble \/ TxFrame BY <1>3, TxKeeps
<1>4. CASE TxTooLong BY <1>4 DEF TxTooLong, End, SendInv, device
<1>5. CASE RxSkip \/ RxPreamble \/ RxCont
  <2>1. pc # "tx" /\ pc' # "tx" /\ cur' = cur /\ todo' = todo
    BY <1>5 DEF RxSkip, RxPreamble, RxCont, Read, End, device
  <2>2. QED BY <2>1 DEF SendInv
<1>6. CASE RxTimeout \/ RxFails BY <1>6 DEF RxTimeout, RxFails, End, SendInv, device
<1>7. CASE Environment \/ UNCHANGED vars
  <2>1. UNCHANGED host /\ (pc = "tx" => pc' = "tx")
    BY <1>7 DEF Environment, DeviceAnswers, DeviceSends, ReportLost, ForeignReport, Keepalive, vars, host
  <2>2. UNCHANGED asm
    BY <1>7 DEF Environment, DeviceAnswers, DeviceSends, ReportLost, ForeignReport, Keepalive, vars, device
  <2>3. todo' = todo \/ (todo # <<>> /\ todo' = Tail(todo))
    BY <1>7 DEF Environment, DeviceAnswers, DeviceSends, ReportLost, ForeignReport, Keepalive, vars, device
  <2>4. todo' \in Seq(Requests)
    <3>1. todo \in Seq(Requests) BY DEF SendInv
    <3>2. QED BY <2>3, <3>1
  <2>5. ASSUME NEW n \in Nat, Sending(n) PROVE Sending(n)' BY <2>1, <2>2, <2>5 DEF Sending, host
  <2>6. QED BY <2>1, <2>4, <2>5 DEF SendInv, host
<1>8. QED BY <1>1, <1>2, <1>3, <1>4, <1>5, <1>6, <1>7 DEF Next, Host, Done

LEMMA SendInit == Init => SendInv
BY CtapHidAssumption DEF Init, SendInv

LEMMA SendAlways == Spec => []SendInv
BY SendInit, SendStep, PTL DEF Spec

\* Every request that the authenticator takes for complete is one that fido_tx was
\* given, whatever transmissions have failed before it.
THEOREM RequestsWholeAlways == Spec => []RequestsWhole
<1>1. SendInv => RequestsWhole
  <2> SUFFICES ASSUME SendInv, NEW i \in 1 .. Len(todo)
               PROVE  \E n \in RequestLens[todo[i].id] : todo[i].got = Bytes(todo[i].id, n)
    BY DEF RequestsWhole
  <2>1. todo[i] \in Requests BY DEF SendInv
  <2>2. PICK id \in 1 .. MaxCmds : \E n \in RequestLens[id] : todo[i] = [id |-> id, got |-> Bytes(id, n)]
    BY <2>1 DEF Requests
  <2>3. QED BY <2>2
<1>2. QED BY SendAlways, <1>1, PTL

\* When fido_tx has returned success, the authenticator has the whole request.
THEOREM SentWholeAlways == Spec => SentWhole
<1>1. SendInv /\ [Next]_vars =>
        [pc = "tx" /\ pc' = "rx" => \E n \in 1 .. Len(todo') : todo'[n] = [id |-> cur, got |-> request]]_vars
  BY SendStep
<1>2. QED BY SendAlways, <1>1, PTL DEF Spec, SentWhole

-----------------------------------------------------------------------------
(* Time.                                                                   *)

LEMMA Quotient ==
  ASSUME NEW w \in Nat, NEW t \in Nat \ {0}
  PROVE  w \div t \in Nat /\ (w \div t) * t <= w /\ w <= (w \div t) * t + (t - 1)
OBVIOUS

LEMMA QuotientAtMost ==
  ASSUME NEW w \in Nat, NEW m \in Nat, NEW t \in Nat \ {0}, w <= m * t
  PROVE  w \div t <= m
<1>1. (w \div t) * t <= m * t /\ w \div t \in Nat BY Quotient
<1>2. QED BY <1>1

LEMMA Whole ==
  ASSUME NEW w \in Nat, NEW t \in Nat \ {0}, w % t = 0
  PROVE  w = (w \div t) * t
OBVIOUS

\* The ticks of e that are paid for out of the timeout, with less than a
\* millisecond forgiven for each report.
Paid(e, m, i) == e <= (Timeout - m) * Ticks + i * (Ticks - 1)

\* Once writes have used up the timeout, only they have taken more than it allows.
TimeInv ==
  Timeout >= 0 =>
    /\ ms \in 0 .. Timeout /\ {elapsed, txtime, rests} \subseteq Nat
    /\ pc = "tx" => elapsed = txtime
    /\ pc # "idle" => Paid(elapsed, ms, rests) \/ (ms = 0 /\ elapsed <= txtime + rests * (Ticks - 1))
    /\ TimeoutBudget

LEMMA PaidIsBudget ==
  ASSUME Timeout >= 0, NEW m \in 0 .. Timeout, NEW e \in Nat, NEW x \in Nat, NEW i \in Nat,
         Paid(e, m, i) \/ (m = 0 /\ e <= x + i * (Ticks - 1))
  PROVE  e <= (IF Timeout * Ticks > x THEN Timeout * Ticks ELSE x) + i * (Ticks - 1)
<1>1. Timeout \in Nat /\ Ticks \in Nat \ {0} BY CtapHidAssumption
<1>2. (Timeout - m) * Ticks <= Timeout * Ticks /\ (Timeout - m) * Ticks \in Nat /\ Timeout * Ticks \in Nat
  BY <1>1
<1>3. i * (Ticks - 1) \in Nat BY <1>1
<1>4. QED BY <1>1, <1>2, <1>3 DEF Paid

\* A report whose wait fits in what is left of the timeout is paid for, in full if it is a
\* whole number of milliseconds.
LEMMA Pays ==
  ASSUME Timeout >= 0, NEW m \in 0 .. Timeout, NEW e \in Nat, NEW i \in Nat, NEW w \in Nat,
         Paid(e, m, i), w \div Ticks <= m
  PROVE  Paid(e + w, m - w \div Ticks, IF w % Ticks = 0 THEN i ELSE i + 1)
<1> DEFINE q == w \div Ticks
<1>1. Timeout \in Nat /\ Ticks \in Nat \ {0} BY CtapHidAssumption
<1>2. q \in Nat /\ w <= q * Ticks + (Ticks - 1) /\ (w % Ticks = 0 => w = q * Ticks)
  BY <1>1, Quotient, Whole
<1> HIDE DEF q
<1>3. (Timeout - (m - q)) * Ticks = (Timeout - m) * Ticks + q * Ticks BY <1>1, <1>2
<1>4. (i + 1) * (Ticks - 1) = i * (Ticks - 1) + (Ticks - 1) BY <1>1
<1>5. e <= (Timeout - m) * Ticks + i * (Ticks - 1) BY DEF Paid
<1>6. {(Timeout - m) * Ticks, q * Ticks, i * (Ticks - 1), Ticks - 1} \subseteq Int BY <1>1, <1>2
<1>7. CASE w % Ticks = 0
  <2>1. e + w <= (Timeout - (m - q)) * Ticks + i * (Ticks - 1) BY <1>2, <1>3, <1>5, <1>6, <1>7
  <2>2. QED BY <1>7, <2>1 DEF Paid, q
<1>8. CASE w % Ticks # 0
  <2>1. e + w <= (Timeout - (m - q)) * Ticks + (i + 1) * (Ticks - 1) BY <1>2, <1>3, <1>4, <1>5, <1>6
  <2>2. QED BY <1>8, <2>1 DEF Paid, q
<1>9. QED BY <1>7, <1>8

\* What a wait of w adds to the forgiven fractions.
More(w) == IF w % Ticks = 0 THEN rests ELSE rests + 1

LEMMA SpendIs ==
  ASSUME Timeout >= 0, TimeInv, NEW w \in Nat, Spend(w)
  PROVE  /\ elapsed' = elapsed + w /\ rests' = More(w) /\ elapsed' \in Nat /\ rests' \in Nat
         /\ ms' \in 0 .. Timeout
         /\ ms' = IF w \div Ticks <= ms THEN ms - w \div Ticks ELSE 0
<1>1. Timeout \in Nat /\ Ticks \in Nat \ {0} BY CtapHidAssumption
<1>2. w \div Ticks \in Nat /\ ms \in 0 .. Timeout /\ elapsed \in Nat /\ rests \in Nat BY <1>1, Quotient DEF TimeInv
<1>3. elapsed' = elapsed + w /\ rests' = More(w) BY <1>1 DEF Spend, More
<1>4. rests' \in Nat BY <1>2, <1>3 DEF More
<1>5. QED BY <1>1, <1>2, <1>3, <1>4 DEF Spend, Remaining, MIN

LEMMA Forgiven == ASSUME NEW i \in Nat PROVE i * (Ticks - 1) \in Nat
<1>1. Ticks - 1 \in Nat BY CtapHidAssumption
<1>2. QED BY <1>1

\* fido_tx: a write may take longer than what is left.
LEMMA WriteTime ==
  ASSUME Timeout >= 0, TimeInv, pc = "tx", NEW w \in Nat, Spend(w), txtime' = txtime + (elapsed' - elapsed)
  PROVE  TimeInv' /\ elapsed' = txtime'
<1>1. /\ ms \in 0 .. Timeout /\ elapsed \in Nat /\ txtime = elapsed /\ rests \in Nat
      /\ Paid(elapsed, ms, rests) \/ ms = 0
  BY DEF TimeInv
<1>2. /\ elapsed' = elapsed + w /\ rests' = More(w) /\ elapsed' \in Nat /\ rests' \in Nat
      /\ ms' \in 0 .. Timeout
      /\ ms' = IF w \div Ticks <= ms THEN ms - w \div Ticks ELSE 0
  BY SpendIs
<1>3. txtime' = elapsed' BY <1>1, <1>2
<1>4. elapsed' <= txtime' + rests' * (Ticks - 1) BY <1>1, <1>2, <1>3, Forgiven
<1>5. Paid(elapsed', ms', rests') \/ ms' = 0
  <2>1. CASE w \div Ticks <= ms /\ Paid(elapsed, ms, rests) BY <1>1, <1>2, <2>1, Pays DEF More
  <2>2. CASE ms = 0 
    <3>1. w \div Ticks \in Nat BY Quotient, CtapHidAssumption
    <3>2. QED BY <1>2, <2>2, <3>1
  <2>3. CASE ~(w \div Ticks <= ms) BY <1>2, <2>3
  <2>4. QED BY <1>1, <2>1, <2>2, <2>3
<1>6. TimeoutBudget'
  <2>1. elapsed' <= (IF Timeout * Ticks > txtime' THEN Timeout * Ticks ELSE txtime') + rests' * (Ticks - 1)
    BY <1>2, <1>3, <1>4, <1>5, PaidIsBudget
  <2>2. QED BY <2>1 DEF TimeoutBudget
<1>7. (Paid(elapsed, ms, rests) \/ (ms = 0 /\ elapsed <= txtime + rests * (Ticks - 1)))'
  BY <1>4, <1>5 DEF Paid
<1>8. QED BY <1>2, <1>3, <1>6, <1>7 DEF TimeInv

\* fido_rx: a read waits no longer than what is left.
LEMMA ReadTime ==
  ASSUME Timeout >= 0, TimeInv, pc # "idle", NEW w \in ReadWaits, Spend(w), txtime' = txtime, pc' # "tx"
  PROVE  TimeInv'
<1>1. /\ ms \in 0 .. Timeout /\ elapsed \in Nat /\ txtime \in Nat /\ rests \in Nat
      /\ Paid(elapsed, ms, rests) \/ (ms = 0 /\ elapsed <= txtime + rests * (Ticks - 1))
  BY DEF TimeInv
<1>2. Timeout \in Nat /\ Ticks \in Nat \ {0} /\ ms \in Nat BY <1>1, CtapHidAssumption
<1>3. w \in Nat /\ w <= ms * Ticks
  <2>1. ms * Ticks \in Nat BY <1>2
  <2>2. w \in 0 .. ms * Ticks BY <1>2 DEF ReadWaits
  <2>3. QED BY <2>1, <2>2
<1>4. w \div Ticks <= ms BY <1>2, <1>3, QuotientAtMost
<1>5. /\ elapsed' = elapsed + w /\ rests' = More(w) /\ elapsed' \in Nat /\ rests' \in Nat
      /\ ms' \in 0 .. Timeout /\ ms' = ms - w \div Ticks
  BY <1>3, <1>4, SpendIs
<1>6. Paid(elapsed', ms', rests') \/ (ms' = 0 /\ elapsed' <= txtime' + rests' * (Ticks - 1))
  <2>1. CASE Paid(elapsed, ms, rests) BY <1>1, <1>3, <1>4, <1>5, <2>1, Pays DEF More
  <2>2. CASE ms = 0 /\ elapsed <= txtime + rests * (Ticks - 1)
    <3>1. w = 0 BY <1>2, <1>3, <2>2
    <3>2. elapsed' = elapsed /\ ms' = 0 /\ rests' = rests
      <4>1. 0 \div Ticks = 0 /\ 0 % Ticks = 0 BY <1>2
      <4>2. QED BY <1>1, <1>5, <2>2, <3>1, <4>1 DEF More
    <3>3. QED BY <1>1, <1>5, <2>2, <3>2
  <2>3. QED BY <1>1, <2>1, <2>2
<1>7. TimeoutBudget'
  <2>1. elapsed' <= (IF Timeout * Ticks > txtime' THEN Timeout * Ticks ELSE txtime') + rests' * (Ticks - 1)
    BY <1>1, <1>5, <1>6, PaidIsBudget
  <2>2. QED BY <2>1 DEF TimeoutBudget
<1>8. (Paid(elapsed, ms, rests) \/ (ms = 0 /\ elapsed <= txtime + rests * (Ticks - 1)))'
  BY <1>6 DEF Paid
<1>9. QED BY <1>1, <1>5, <1>7, <1>8 DEF TimeInv

\* The last wait: no report comes, or the read fails.
LEMMA TimeoutTime == ASSUME Timeout >= 0, TimeInv, RxTimeout \/ RxFails PROVE TimeInv'
<1>1. /\ ms \in 0 .. Timeout /\ elapsed \in Nat /\ txtime \in Nat /\ rests \in Nat
      /\ Paid(elapsed, ms, rests) \/ (ms = 0 /\ elapsed <= txtime + rests * (Ticks - 1))
  BY DEF TimeInv, RxTimeout, RxFails
<1>2. Timeout \in Nat /\ Ticks \in Nat \ {0} /\ ms \in Nat BY <1>1, CtapHidAssumption
<1>3. ms * Ticks \in Nat /\ Timeout * Ticks \in Nat BY <1>2
<1>4. PICK w \in Nat : w <= ms * Ticks /\ elapsed' = elapsed + w
  <2>1. ReadWaits = 0 .. ms * Ticks BY <1>2 DEF ReadWaits
  <2>2. QED BY <1>3, <2>1 DEF RxTimeout, RxFails
<1>5. rests' = rests /\ pc' = "idle" /\ txtime' = txtime /\ ms' = ms
  BY DEF RxTimeout, RxFails, End
<1>6. elapsed' <= (IF Timeout * Ticks > txtime THEN Timeout * Ticks ELSE txtime) + rests * (Ticks - 1)
  <2>1. CASE Paid(elapsed, ms, rests)
    <3>1. (Timeout - ms) * Ticks = Timeout * Ticks - ms * Ticks BY <1>2
    <3>2. elapsed <= (Timeout * Ticks - ms * Ticks) + rests * (Ticks - 1) BY <2>1, <3>1 DEF Paid
    <3>3. elapsed' <= Timeout * Ticks + rests * (Ticks - 1) BY <1>1, <1>3, <1>4, <3>2, Forgiven
    <3>4. QED BY <1>1, <1>3, <1>4, <3>3, Forgiven
  <2>2. CASE ms = 0 /\ elapsed <= txtime + rests * (Ticks - 1)
    <3>1. elapsed' = elapsed
      <4>1. 0 * Ticks = 0 BY <1>2
      <4>2. QED BY <1>1, <1>4, <2>2, <4>1
    <3>2. QED BY <1>1, <1>3, <2>2, <3>1, Forgiven
  <2>3. QED BY <1>1, <2>1, <2>2
<1>7. TimeoutBudget' BY <1>5, <1>6 DEF TimeoutBudget
<1>8. elapsed' \in Nat BY <1>1, <1>4
<1>9. QED BY <1>1, <1>5, <1>7, <1>8 DEF TimeInv

LEMMA TimeStep == ASSUME TimeInv, [Next]_vars PROVE TimeInv'
<1> SUFFICES ASSUME Timeout >= 0 PROVE TimeInv' BY DEF TimeInv
<1>1. CASE Begin
  <2>1. ms' = Timeout /\ elapsed' = 0 /\ txtime' = 0 /\ rests' = 0 BY <1>1 DEF Begin
  <2>2. Timeout \in Nat /\ Ticks \in Nat \ {0} BY CtapHidAssumption
  <2>3. Paid(0, Timeout, 0) BY <2>2 DEF Paid
  <2>4. TimeoutBudget'
    <3>1. 0 <= (IF Timeout * Ticks > 0 THEN Timeout * Ticks ELSE 0) + 0 * (Ticks - 1)
      BY <2>2, <2>3, PaidIsBudget
    <3>2. QED BY <2>1, <3>1 DEF TimeoutBudget
  <2>5. QED BY <2>1, <2>2, <2>3, <2>4 DEF TimeInv, Paid
<1>2. CASE TxPreamble \/ TxFrame
  <2>1. PICK w \in Nat : Spend(w) /\ txtime' = txtime + (elapsed' - elapsed)
    <3>1. 0 .. MaxWrite \subseteq Nat BY CtapHidAssumption
    <3>2. QED BY <1>2, <3>1 DEF TxPreamble, TxFrame, Write
  <2>2. pc = "tx" BY <1>2 DEF TxPreamble, TxFrame
  <2>3. QED BY <2>1, <2>2, WriteTime
<1>3. CASE RxSkip \/ RxPreamble \/ RxCont
  <2>1. PICK w \in ReadWaits : Spend(w) /\ txtime' = txtime
    BY <1>3 DEF RxSkip, RxPreamble, RxCont, Read
  <2>2. pc # "idle" /\ pc' # "tx" BY <1>3 DEF RxSkip, RxPreamble, RxCont, End
  <2>3. QED BY <2>1, <2>2, ReadTime
<1>4. CASE RxTimeout \/ RxFails BY <1>4, TimeoutTime
<1>5. CASE TxTooLong \/ TxFails
  <2>1. pc' = "idle" /\ ms' = ms /\ UNCHANGED clock BY <1>5 DEF TxTooLong, TxFails, End
  <2>2. QED BY <2>1 DEF clock, TimeInv, TimeoutBudget
<1>6. CASE Environment \/ UNCHANGED vars
  <2>1. UNCHANGED host /\ UNCHANGED clock
    BY <1>6 DEF Environment, DeviceAnswers, DeviceSends, ReportLost, ForeignReport, Keepalive, vars
  <2>2. QED BY <2>1 DEF host, clock, TimeInv, TimeoutBudget, Paid
<1>7. QED BY <1>1, <1>2, <1>3, <1>4, <1>5, <1>6 DEF Next, Host, Done

LEMMA TimeInit == Init => TimeInv
<1> SUFFICES ASSUME Init, Timeout >= 0 PROVE TimeInv BY DEF TimeInv
<1>1. Timeout \in Nat /\ Ticks \in Nat \ {0} BY CtapHidAssumption
<1>2. Paid(0, Timeout, 0) BY <1>1 DEF Paid
<1>3. 0 <= (IF Timeout * Ticks > 0 THEN Timeout * Ticks ELSE 0) + 0 * (Ticks - 1)
  BY <1>1, <1>2, PaidIsBudget
<1>4. QED BY <1>1, <1>3 DEF Init, TimeInv, TimeoutBudget

\* A command with a timeout takes no longer than that timeout or, if it is longer, the
\* time of its writes, and less than a millisecond for each report.
THEOREM TimeoutBudgetAlways == Spec => []TimeoutBudget
<1>1. TimeInv => TimeoutBudget BY DEF TimeInv, TimeoutBudget
<1>2. QED BY TimeInit, TimeStep, <1>1, PTL DEF Spec

-----------------------------------------------------------------------------
(* The order of replies.                                                   *)

\* Requests are taken for complete in the order of their commands, that of the
\* command being sent last, and are answered once and in that order.
Numbers ==
  /\ cur \in Nat /\ made \subseteq Nat \X ReplyLens
  /\ \A m \in made : m[1] \in 1 .. cur /\ (pc = "tx" => m[1] # cur)
  /\ \A i \in 1 .. Len(todo) : todo[i].id \in 1 .. cur /\ (pc = "tx" => todo[i].id # cur)
  /\ \A i, j \in 1 .. Len(todo) : i < j => todo[i].id < todo[j].id
  /\ \A m \in made, i \in 1 .. Len(todo) : m[1] < todo[i].id
  /\ \A m, l \in made : m[1] = l[1] => m[2] = l[2]

LEMMA NumbersInit == Init => Numbers
BY DEF Init, Numbers

LEMMA NumbersSame ==
  ASSUME Numbers, cur' = cur, made' = made, todo' = todo, pc' = "tx" => pc = "tx"
  PROVE  Numbers'
BY DEF Numbers

LEMMA NumbersTaken ==
  ASSUME Numbers, SendInv, pc = "tx", pc' # "tx", cur' = cur, made' = made, NEW g,
         todo' = Append(todo, [id |-> cur, got |-> g])
  PROVE  Numbers'
<1> DEFINE r == [id |-> cur, got |-> g]
           N == Len(todo)
<1>1. N \in Nat /\ Len(todo') = N + 1 /\ todo'[N + 1] = r /\ \A i \in 1 .. N : todo'[i] = todo[i]
  BY DEF SendInv
<1>2. r.id = cur /\ cur \in Nat BY DEF Numbers
<1>3. \A i \in 1 .. N : todo[i].id \in 1 .. cur /\ todo[i].id < cur BY DEF Numbers
<1>4. \A m \in made : m[1] \in 1 .. cur /\ m[1] < cur BY DEF Numbers
<1> HIDE DEF r, N
<1>5. cur \in 1 .. cur
  <2>1. SendInv /\ pc = "tx" => \E n \in Nat : Sending(n) BY DEF SendInv
  <2>2. MaxCmds \in Nat BY CtapHidAssumption
  <2>3. QED BY <1>2, <2>1, <2>2 DEF Sending
<1>6. \A i \in 1 .. N + 1 : i \in 1 .. N \/ i = N + 1 BY <1>1
<1>7. \A i \in 1 .. Len(todo') : todo'[i].id \in 1 .. cur BY <1>1, <1>2, <1>3, <1>5, <1>6
<1>8. \A i, j \in 1 .. Len(todo') : i < j => todo'[i].id < todo'[j].id
  <2> SUFFICES ASSUME NEW i \in 1 .. N + 1, NEW j \in 1 .. N + 1, i < j
               PROVE  todo'[i].id < todo'[j].id
    BY <1>1
  <2>1. i \in 1 .. N BY <1>1
  <2>2. CASE j \in 1 .. N
    <3>1. todo[i].id < todo[j].id BY <2>1, <2>2 DEF Numbers, N
    <3>2. QED BY <1>1, <2>1, <2>2, <3>1
  <2>3. CASE j = N + 1 BY <1>1, <1>2, <1>3, <2>1, <2>3
  <2>4. QED BY <1>6, <2>2, <2>3
<1>9. \A m \in made, i \in 1 .. Len(todo') : m[1] < todo'[i].id
  <2> SUFFICES ASSUME NEW m \in made, NEW i \in 1 .. N + 1 PROVE m[1] < todo'[i].id
    BY <1>1
  <2>1. CASE i \in 1 .. N
    <3>1. m[1] < todo[i].id BY <2>1 DEF Numbers, N
    <3>2. QED BY <1>1, <2>1, <3>1
  <2>2. CASE i = N + 1 BY <1>1, <1>2, <1>4, <2>2
  <2>3. QED BY <1>6, <2>1, <2>2
<1>10. QED BY <1>7, <1>8, <1>9 DEF Numbers

LEMMA NumbersAnswered ==
  ASSUME Numbers, SendInv, DeviceAnswers
  PROVE  Numbers'
<1> DEFINE N == Len(todo)
           k == todo[1].id
<1>1. N \in Nat /\ N >= 1 /\ Len(todo') = N - 1 /\ \A i \in 1 .. N - 1 : todo'[i] = todo[i + 1]
  BY DEF SendInv, DeviceAnswers
<1>2. cur' = cur /\ pc' = pc BY DEF DeviceAnswers, host
<1>3. made' = made \/ \E n \in ReplyLens : made' = made \cup {<<k, n>>} BY DEF DeviceAnswers
<1>4. k \in 1 .. cur /\ (pc = "tx" => k # cur) /\ cur \in Nat BY <1>1 DEF Numbers
<1>5. \A m \in made : m[1] \in Nat /\ m[1] < k BY <1>1 DEF Numbers
<1>6. \A i \in 1 .. N - 1 : /\ todo[i + 1].id \in 1 .. cur /\ (pc = "tx" => todo[i + 1].id # cur)
                            /\ k < todo[i + 1].id
                            /\ \A m \in made : m[1] < todo[i + 1].id
                            /\ \A j \in 1 .. N - 1 : i < j => todo[i + 1].id < todo[j + 1].id
  BY <1>1 DEF Numbers
<1> HIDE DEF k, N
<1>7. \A m \in made' : m \in made \/ (m[1] = k /\ m \in Nat \X ReplyLens) BY <1>3, <1>4
<1>8. made' \subseteq Nat \X ReplyLens BY <1>7 DEF Numbers
<1>9. \A m \in made' : m[1] \in 1 .. cur /\ (pc = "tx" => m[1] # cur) BY <1>4, <1>7 DEF Numbers
<1>10. \A m, l \in made' : m[1] = l[1] => m[2] = l[2]
  <2>1. CASE made' = made BY <2>1 DEF Numbers
  <2>2. CASE \E n \in ReplyLens : made' = made \cup {<<k, n>>}
    <3>1. PICK n \in ReplyLens : made' = made \cup {<<k, n>>} BY <2>2
    <3>2. \A m \in made : m[1] # k BY <1>4, <1>5
    <3>3. QED BY <3>1, <3>2 DEF Numbers
  <2>3. QED BY <1>3, <2>1, <2>2
<1>11. \A m \in made', i \in 1 .. N - 1 : m[1] < todo'[i].id BY <1>1, <1>6, <1>7
<1>12. /\ \A i \in 1 .. N - 1 : todo'[i].id \in 1 .. cur /\ (pc = "tx" => todo'[i].id # cur)
       /\ \A i, j \in 1 .. N - 1 : i < j => todo'[i].id < todo'[j].id
  BY <1>1, <1>6
<1>13. QED BY <1>1, <1>2, <1>4, <1>8, <1>9, <1>10, <1>11, <1>12 DEF Numbers

LEMMA NumbersBegin == ASSUME Numbers, Begin PROVE Numbers'
<1>1. cur' = cur + 1 /\ made' = made /\ todo' = todo /\ cur \in Nat BY DEF Begin, device, Numbers
<1>2. \A m \in made : m[1] \in 1 .. cur' /\ m[1] # cur' BY <1>1 DEF Numbers
<1>3. \A i \in 1 .. Len(todo) : todo[i].id \in 1 .. cur' /\ todo[i].id # cur' BY <1>1 DEF Numbers
<1>4. QED BY <1>1, <1>2, <1>3 DEF Numbers

LEMMA NumbersStep == ASSUME Numbers, SendInv, [Next]_vars PROVE Numbers'
<1>1. CASE Begin BY <1>1, NumbersBegin
<1>2. CASE TxFails \/ TxPreamble \/ TxFrame
  <2>1. pc = "tx" /\ cur' = cur
    BY <1>2 DEF TxFails, TxPreamble, TxFrame, Write
  <2>2. made' = made /\ \/ todo' = todo
                        \/ \E g : todo' = Append(todo, [id |-> cur, got |-> g])
    BY <1>2 DEF TxFails, TxPreamble, TxFrame, Write, DeviceTakes, device
  <2>3. pc' = "tx" => todo' = todo
    <3>1. TxFails => pc' # "tx" BY DEF TxFails, End
    <3>2. QED BY <1>2, <3>1, TxKeeps
  <2>4. QED BY <2>1, <2>2, <2>3, NumbersSame, NumbersTaken
<1>3. CASE DeviceAnswers BY <1>3, NumbersAnswered
<1>4. CASE TxTooLong \/ RxSkip \/ RxPreamble \/ RxCont \/ RxTimeout \/ RxFails
  <2>1. cur' = cur /\ made' = made /\ todo' = todo
    BY <1>4 DEF TxTooLong, RxSkip, RxPreamble, RxCont, RxTimeout, RxFails, Read, device
  <2>2. pc' = "tx" => pc = "tx"
    BY <1>4 DEF TxTooLong, RxSkip, RxPreamble, RxCont, RxTimeout, RxFails, End
  <2>3. QED BY <2>1, <2>2, NumbersSame
<1>5. CASE DeviceSends \/ ReportLost \/ ForeignReport \/ Keepalive \/ UNCHANGED vars
  <2>1. cur' = cur /\ made' = made /\ todo' = todo /\ pc' = pc
    BY <1>5 DEF DeviceSends, ReportLost, ForeignReport, Keepalive, vars, host, device
  <2>2. QED BY <2>1, NumbersSame
<1>6. QED BY <1>1, <1>2, <1>3, <1>4, <1>5 DEF Next, Host, Environment, Done

LEMMA NumbersAlways == Spec => []Numbers
<1>1. Numbers /\ SendInv /\ [Next]_vars => Numbers' BY NumbersStep
<1>2. QED BY NumbersInit, SendAlways, <1>1, PTL DEF Spec

-----------------------------------------------------------------------------
(* Reports of replies.                                                     *)

\* A part is the k-th continuation report of a reply, or its first report if k
\* is 0; a keepalive, an error and a report of another channel are none.
Parts      == [reply : BOOLEAN, id : Nat, n : Nat, k : Nat]
NoPart     == [reply |-> FALSE, id |-> 0, n |-> 0, k |-> 0]
Part(i, m, j) == [reply |-> TRUE, id |-> i, n |-> m, k |-> j]

\* The bytes of a message before its k-th continuation report.
Offset(k) == InitData + (k - 1) * ContData

FrameOf(p) ==
  IF p.k = 0 THEN InitFrame(Cid, CTAP_CMD_CBOR, p.n, Bytes(p.id, p.n))
  ELSE ContFrame(Cid, p.k - 1, SubSeq(Bytes(p.id, p.n), Offset(p.k) + 1, p.n))

Passing == {InitFrame(Cid, CTAP_ERROR, 1, <<Zero>>), InitFrame(Cid, CTAP_KEEPALIVE, 1, <<Zero>>),
            InitFrame(Other, CTAP_CMD_CBOR, 1, <<<<-1, 1>>>>), ContFrame(Other, 0, <<<<-1, 2>>>>)}

InputReports == {FrameOf(p) : p \in Parts} \cup Passing

Shows(p, f) == IF p.reply THEN f = FrameOf(p) ELSE f \in Passing

LEMMA ShownIsReport ==
  ASSUME NEW p \in Parts, NEW f, Shows(p, f)
  PROVE  f \in InputReports
BY DEF Shows, InputReports

LEMMA ContFramesIs ==
  ASSUME NEW n \in Nat
  PROVE  ContFrames(n) \in Nat /\ (ContFrames(n) = 0 <=> n <= InitData)
<1>1. CASE n <= InitData BY <1>1 DEF ContFrames
<1>2. CASE ~(n <= InitData)
  <2> DEFINE w == n - InitData + ContData - 1
             q == w \div ContData
  <2>1. w \in Nat /\ w >= ContData /\ ContData \in Nat \ {0} /\ InitData \in Nat BY <1>2, Sizes
  <2>2. q \in Nat /\ w <= q * ContData + (ContData - 1) BY <2>1, Quotient
  <2>3. ContFrames(n) = q BY <1>2 DEF ContFrames
  <2> HIDE DEF w, q
  <2>4. q # 0
    <3>1. q = 0 => q * ContData = 0 BY <2>1
    <3>2. QED BY <2>1, <2>2, <3>1
  <2>5. QED BY <1>2, <2>2, <2>3, <2>4
<1>3. QED BY <1>1, <1>2

LEMMA OffsetIs ==
  ASSUME NEW k \in Nat \ {0}
  PROVE  /\ Offset(k) \in Nat /\ Offset(k) >= InitData /\ Offset(1) = InitData
         /\ Offset(k + 1) = Offset(k) + ContData
<1>1. ContData \in Nat \ {0} /\ InitData \in Nat \ {0} BY Sizes
<1>2. (k - 1) * ContData \in Nat /\ ((k + 1) - 1) * ContData = (k - 1) * ContData + ContData
      /\ (1 - 1) * ContData = 0
  BY <1>1
<1>3. QED BY <1>1, <1>2 DEF Offset

LEMMA ReplyLenIs ==
  ASSUME NEW m \in ReplyLens
  PROVE  m \in Nat /\ m <= 65535 /\ ContFrames(m) <= 128
<1>1. m \in 0 .. UINT16_MAX /\ ContFrames(m) <= 128 BY CtapHidAssumption
<1>2. UINT16_MAX = 65535 BY DEF UINT16_MAX
<1>3. m \in Nat /\ m <= UINT16_MAX BY <1>1
<1>4. QED BY <1>1, <1>2, <1>3

\* What the first report of a reply shows to fido_rx.
LEMMA FirstShown ==
  ASSUME NEW id \in Nat, NEW n \in ReplyLens, NEW f, f = FrameOf(Part(id, n, 0))
  PROVE  /\ f.cid = Cid /\ f.type = 144 /\ f.bcnt = n
         /\ n <= InitData => SubSeq(f.data, 1, n) = Bytes(id, n)
         /\ n > InitData => f.data = Bytes(id, InitData)
<1> DEFINE s == Bytes(id, n)
           k == MIN(n, InitData)
<1>1. n \in Nat /\ n <= 65535 /\ InitData \in Nat BY ReplyLenIs, Sizes
<1>2. Len(s) = n /\ s = Slice(id, 0, n) BY <1>1, BytesAre
<1>3. f = InitFrame(Cid, CTAP_CMD_CBOR, n, s) BY DEF FrameOf, Part
<1> HIDE DEF s
<1>4. n % 65536 = n BY <1>1
<1>5. /\ f.cid = Cid /\ f.type = 144 /\ f.bcnt = n
      /\ f.data = PadTo(SubSeq(s, 1, k), InitData)
  BY <1>2, <1>3, <1>4 DEF InitFrame, UINT16_MAX, CTAP_FRAME_INIT, CTAP_CMD_CBOR
<1>6. SubSeq(f.data, 1, k) = Bytes(id, k)
  <2>1. Held(Slice(id, 0, n), k, InitData) = Slice(id, 0, k) BY <1>1, Carried
  <2>2. k \in Nat BY <1>1, MinIs
  <2>3. QED BY <1>2, <1>5, <2>1, <2>2, BytesAre DEF Held
<1>7. ASSUME n <= InitData PROVE SubSeq(f.data, 1, n) = Bytes(id, n)
  <2>1. k = n BY <1>1, <1>7 DEF MIN
  <2>2. QED BY <1>6, <2>1
<1>8. ASSUME n > InitData PROVE f.data = Bytes(id, InitData)
  <2> DEFINE d == f.data
             i == InitData
  <2>1. k = i BY <1>1, <1>8 DEF MIN
  <2>2. d = [j \in 1 .. i |-> d[j]] /\ Len(d) = i BY <1>1, <1>5 DEF PadTo
  <2>3. SubSeq(d, 1, i) = [j \in 1 .. i |-> d[j]]
    <3> HIDE DEF d, i
    <3>1. SubSeq(d, 1, i) = [j \in 1 .. (i - 1 + 1) |-> d[1 + j - 1]] BY <1>1, <2>2 DEF i
    <3>2. i - 1 + 1 = i /\ \A j \in 1 .. i : 1 + j - 1 = j BY <1>1 DEF i
    <3>3. QED BY <3>1, <3>2
  <2>4. QED BY <1>6, <2>1, <2>2, <2>3, Zenon
<1>9. QED BY <1>5, <1>7, <1>8

\* What a continuation report of a reply shows to it.
LEMMA NextShown ==
  ASSUME NEW id \in Nat, NEW n \in Nat, NEW k \in Nat \ {0}, Offset(k) < n,
         NEW f, f = FrameOf(Part(id, n, k))
  PROVE  LET d == MIN(n - Offset(k), ContData) IN
         /\ f.cid = Cid /\ f.type = k - 1
         /\ SubSeq(f.data, 1, d) = Slice(id, Offset(k), d)
<1> DEFINE o == Offset(k)
           d == MIN(n - o, ContData)
           s == SubSeq(Bytes(id, n), o + 1, n)
<1>1. o \in 0 .. n /\ o \in Nat /\ n - o \in Nat /\ ContData \in Nat BY OffsetIs, Sizes
<1>2. Len(Bytes(id, n)) = n BY BytesAre
<1>3. f = ContFrame(Cid, k - 1, s) BY DEF FrameOf, Part
<1> HIDE DEF o
<1>4. s = Slice(id, o, n - o)
  <2>1. SubSeq(Bytes(id, n), o + 1, Len(Bytes(id, n))) = Slice(id, o, n - o) BY <1>1, Rest
  <2>2. QED BY <1>2, <2>1
<1> HIDE DEF s
<1>5. Len(s) = n - o BY <1>1, <1>4, SliceIs
<1>6. f.cid = Cid /\ f.type = k - 1 /\ f.data = PadTo(SubSeq(s, 1, d), ContData)
  BY <1>3, <1>5 DEF ContFrame
<1>7. Held(Slice(id, o, n - o), d, ContData) = Slice(id, o, d) BY <1>1, Carried
<1>8. QED BY <1>4, <1>6, <1>7 DEF Held, o

LEMMA NextType ==
  ASSUME NEW p \in Parts, p.k # 0
  PROVE  FrameOf(p).cid = Cid /\ FrameOf(p).type = p.k - 1
BY DEF FrameOf, ContFrame, Parts

LEMMA FirstType ==
  ASSUME NEW p, p.k = 0
  PROVE  FrameOf(p).cid = Cid /\ FrameOf(p).type = 144
BY DEF FrameOf, InitFrame, CTAP_FRAME_INIT, CTAP_CMD_CBOR

LEMMA PassingIs ==
  ASSUME NEW f \in Passing
  PROVE  f.cid # Cid \/ f.type \in {187, 191}
BY CtapHidAssumption DEF Passing, InitFrame, ContFrame, CTAP_FRAME_INIT, CTAP_ERROR, CTAP_KEEPALIVE

\* The reports of a whole reply are its parts in order.
LEMMA FramesAre ==
  ASSUME NEW id \in Nat, NEW n \in Nat
  PROVE  LET q == Frames(Cid, CTAP_CMD_CBOR, Bytes(id, n)) IN
         /\ q \in Seq(InputReports) /\ Len(q) = ContFrames(n) + 1
         /\ \A j \in 1 .. Len(q) : q[j] = FrameOf(Part(id, n, j - 1))
<1> DEFINE s == Bytes(id, n)
           c == ContFrames(n)
           h == <<InitFrame(Cid, CTAP_CMD_CBOR, n, s)>>
           t == [k \in 1 .. c |-> ContFrame(Cid, k - 1, SubSeq(s, InitData + (k - 1) * ContData + 1, n))]
           q == h \o t
<1>1. Len(s) = n BY BytesAre
<1>2. Frames(Cid, CTAP_CMD_CBOR, s) = q BY <1>1 DEF Frames
<1>3. c \in Nat BY ContFramesIs
<1>4. \A j \in 0 .. c : Part(id, n, j) \in Parts /\ FrameOf(Part(id, n, j)) \in InputReports
  <2> TAKE j \in 0 .. c
  <2>1. Part(id, n, j) \in Parts BY <1>3 DEF Part, Parts
  <2>2. QED BY <2>1 DEF InputReports
<1>5. h[1] = FrameOf(Part(id, n, 0)) BY DEF FrameOf, Part
<1>6. \A k \in 1 .. c : t[k] = FrameOf(Part(id, n, k)) BY <1>3 DEF FrameOf, Part, Offset
<1>7. h \in Seq(InputReports) /\ Len(h) = 1 BY <1>3, <1>4, <1>5
<1>8. t \in Seq(InputReports) /\ Len(t) = c BY <1>3, <1>4, <1>6
<1> HIDE DEF s, c, h, t
<1>9. /\ q \in Seq(InputReports) /\ Len(q) = 1 + c
      /\ \A j \in 1 .. 1 + c : q[j] = IF j <= 1 THEN h[j] ELSE t[j - 1]
  <2>1. /\ h \o t \in Seq(InputReports) /\ Len(h \o t) = Len(h) + Len(t)
        /\ \A j \in 1 .. Len(h) + Len(t) : (h \o t)[j] = IF j <= Len(h) THEN h[j] ELSE t[j - Len(h)]
    BY <1>7, <1>8, ConcatProperties, Zenon
  <2>2. QED BY <1>3, <1>7, <1>8, <2>1
<1> HIDE DEF q
<1>10. \A j \in 1 .. 1 + c : q[j] = FrameOf(Part(id, n, j - 1))
  <2> TAKE j \in 1 .. 1 + c
  <2>1. CASE j = 1 BY <1>3, <1>5, <1>9, <2>1
  <2>2. CASE j # 1
    <3>1. j - 1 \in 1 .. c /\ ~(j <= 1) BY <1>3, <2>2
    <3>2. QED BY <1>6, <1>9, <3>1
  <2>3. QED BY <2>1, <2>2
<1>11. QED BY <1>2, <1>3, <1>9, <1>10 DEF s, c, q

-----------------------------------------------------------------------------
(* The line of reports from the authenticator to the host.                 *)

Made(M, p) == p.reply => <<p.id, p.n>> \in M /\ p.k <= ContFrames(p.n)

\* Replies are in the order of their commands, and so are the reports of one.
Before(p, r) ==
  p.reply /\ r.reply => p.id < r.id \/ (p.id = r.id /\ p.n = r.n /\ p.k < r.k)

\* What is missing between one report and the next was lost, and so was what
\* is missing at the end of a reply.
Near(l, p, r) ==
  p.reply /\ r.reply => IF p.id = r.id THEN r.k - p.k - 1 <= l
                        ELSE ContFrames(p.n) - p.k + r.k <= l

Ended(l, p) == p.reply => ContFrames(p.n) - p.k <= l

\* With replies M made and l reports lost: E[1] was read last, the rest of E is
\* queued on the handle, and d is what the authenticator sends next.
Line(M, l, E, d) ==
  /\ Len(E) > 0
  /\ \A i \in 1 .. Len(E) : Made(M, E[i]) /\ Before(E[i], d)
  /\ \A i, j \in 1 .. Len(E) : i < j => Before(E[i], E[j])
  /\ \A i \in 1 .. Len(E) - 1 : Near(l, E[i], E[i + 1])
  /\ Made(M, d) /\ Near(l, E[Len(E)], d) /\ (d.reply \/ Ended(l, E[Len(E)]))

NextPart(d) == IF d.reply /\ d.k < ContFrames(d.n) THEN Part(d.id, d.n, d.k + 1) ELSE NoPart

LEMMA NextPartIs ==
  ASSUME NEW d \in Parts
  PROVE  /\ NextPart(d) \in Parts
         /\ IF d.reply /\ d.k < ContFrames(d.n)
            THEN LET e == NextPart(d) IN e.reply /\ e.id = d.id /\ e.n = d.n /\ e.k = d.k + 1
            ELSE ~NextPart(d).reply
<1>1. CASE d.reply /\ d.k < ContFrames(d.n) BY <1>1 DEF NextPart, Parts, Part
<1>2. CASE ~(d.reply /\ d.k < ContFrames(d.n)) BY <1>2 DEF NextPart, Parts, NoPart
<1>3. QED BY <1>1, <1>2

LEMMA PartFields ==
  ASSUME NEW p \in Parts
  PROVE  p.id \in Nat /\ p.n \in Nat /\ p.k \in Nat /\ p.reply \in BOOLEAN /\ ContFrames(p.n) \in Nat
<1>1. p.id \in Nat /\ p.n \in Nat /\ p.k \in Nat /\ p.reply \in BOOLEAN BY DEF Parts
<1>2. QED BY <1>1, ContFramesIs

\* The next report is read.
LEMMA LineRead ==
  ASSUME NEW M, NEW l, NEW E \in Seq(Parts), NEW d, Line(M, l, E, d), Len(E) > 1
  PROVE  Line(M, l, Tail(E), d) /\ Tail(E) \in Seq(Parts)
<1> DEFINE N == Len(E)
           F == Tail(E)
<1>1. N \in Nat /\ F \in Seq(Parts) /\ Len(F) = N - 1 /\ \A i \in 1 .. N - 1 : F[i] = E[i + 1] OBVIOUS
<1>2. \A i \in 1 .. N : Made(M, E[i]) /\ Before(E[i], d) BY DEF Line
<1>3. \A i, j \in 1 .. N : i < j => Before(E[i], E[j]) BY DEF Line
<1>4. \A i \in 1 .. N - 1 : Near(l, E[i], E[i + 1]) BY DEF Line
<1>5. Made(M, d) /\ Near(l, E[N], d) /\ (d.reply \/ Ended(l, E[N])) BY DEF Line
<1> HIDE DEF N, F
<1>6. N > 1 /\ \A i \in 1 .. N - 1 : i + 1 \in 1 .. N BY <1>1 DEF N
<1>7. \A i \in 1 .. N - 1 : Made(M, F[i]) /\ Before(F[i], d) BY <1>1, <1>2, <1>6
<1>8. \A i, j \in 1 .. N - 1 : i < j => Before(F[i], F[j])
  <2> SUFFICES ASSUME NEW i \in 1 .. N - 1, NEW j \in 1 .. N - 1, i < j PROVE Before(F[i], F[j])
    OBVIOUS
  <2>1. Before(E[i + 1], E[j + 1]) BY <1>1, <1>3, <1>6
  <2>2. QED BY <1>1, <2>1
<1>9. \A i \in 1 .. (N - 1) - 1 : Near(l, F[i], F[i + 1])
  <2> TAKE i \in 1 .. (N - 1) - 1
  <2>1. i \in 1 .. N - 1 /\ i + 1 \in 1 .. N - 1 BY <1>1
  <2>2. QED BY <1>1, <1>4, <2>1
<1>10. F[N - 1] = E[N] BY <1>1, <1>6
<1>11. QED BY <1>1, <1>5, <1>6, <1>7, <1>8, <1>9, <1>10 DEF Line, F

\* A report e joins those queued, and p is to be sent next.
LEMMA LineQueued ==
  ASSUME NEW M, NEW l, NEW E \in Seq(Parts), NEW d, Line(M, l, E, d),
         NEW e \in Parts, NEW p, Made(M, e), Made(M, p),
         \A i \in 1 .. Len(E) : Before(E[i], e) /\ Before(E[i], p),
         Before(e, p), Near(l, E[Len(E)], e), Near(l, e, p), p.reply \/ Ended(l, e)
  PROVE  Line(M, l, Append(E, e), p) /\ Append(E, e) \in Seq(Parts)
<1> DEFINE N == Len(E)
           F == Append(E, e)
<1>1. N \in Nat /\ F \in Seq(Parts) /\ Len(F) = N + 1 /\ F[N + 1] = e /\ \A i \in 1 .. N : F[i] = E[i]
  OBVIOUS
<1>2. \A i \in 1 .. N : Made(M, E[i]) BY DEF Line
<1>3. \A i, j \in 1 .. N : i < j => Before(E[i], E[j]) BY DEF Line
<1>4. \A i \in 1 .. N - 1 : Near(l, E[i], E[i + 1]) BY DEF Line
<1>5. N > 0 BY DEF Line
<1>6. \A i \in 1 .. N : Before(E[i], e) /\ Before(E[i], p) OBVIOUS
<1>7. Near(l, E[N], e) OBVIOUS
<1> HIDE DEF N, F
<1>8. \A i \in 1 .. N + 1 : i \in 1 .. N \/ i = N + 1 BY <1>1
<1>9. \A i \in 1 .. N + 1 : Made(M, F[i]) /\ Before(F[i], p) BY <1>1, <1>2, <1>6, <1>8
<1>10. \A i, j \in 1 .. N + 1 : i < j => Before(F[i], F[j])
  <2> SUFFICES ASSUME NEW i \in 1 .. N + 1, NEW j \in 1 .. N + 1, i < j PROVE Before(F[i], F[j])
    OBVIOUS
  <2>1. i \in 1 .. N BY <1>1
  <2>2. CASE j \in 1 .. N BY <1>1, <1>3, <2>1, <2>2
  <2>3. CASE j = N + 1 BY <1>1, <1>6, <2>1, <2>3
  <2>4. QED BY <1>8, <2>2, <2>3
<1>11. \A i \in 1 .. (N + 1) - 1 : Near(l, F[i], F[i + 1])
  <2> TAKE i \in 1 .. (N + 1) - 1
  <2>1. i \in 1 .. N /\ (i = N \/ (i \in 1 .. N - 1 /\ i + 1 \in 1 .. N)) BY <1>1, <1>5
  <2>2. CASE i = N BY <1>1, <1>7, <2>1, <2>2
  <2>3. CASE i \in 1 .. N - 1 /\ i + 1 \in 1 .. N BY <1>1, <1>4, <2>1, <2>3
  <2>4. QED BY <2>1, <2>2, <2>3
<1>12. QED BY <1>1, <1>5, <1>9, <1>10, <1>11 DEF Line, F

LEMMA PassingPart ==
  ASSUME NEW M, NEW l, NEW p
  PROVE  /\ NoPart \in Parts /\ ~NoPart.reply /\ Made(M, NoPart)
         /\ Before(p, NoPart) /\ Before(NoPart, p)
         /\ Near(l, p, NoPart) /\ Near(l, NoPart, p) /\ Ended(l, NoPart)
BY DEF NoPart, Parts, Made, Before, Near, Ended

\* A report that is not one of a reply passes.
LEMMA LinePassing ==
  ASSUME NEW M, NEW l, NEW E \in Seq(Parts), NEW d, Line(M, l, E, d)
  PROVE  Line(M, l, Append(E, NoPart), d) /\ Append(E, NoPart) \in Seq(Parts)
<1>1. Made(M, d) /\ \A i \in 1 .. Len(E) : Before(E[i], d) BY DEF Line
<1>2. QED BY <1>1, LineQueued, PassingPart

\* What comes after a report comes after those before it.
LEMMA Later ==
  ASSUME NEW p \in Parts, NEW d \in Parts, Before(p, d)
  PROVE  Before(p, NextPart(d)) /\ Before(d, NextPart(d))
<1> DEFINE e == NextPart(d)
<1>1. CASE e.reply
  <2>1. e.id = d.id /\ e.n = d.n /\ e.k = d.k + 1 /\ d.reply BY <1>1, NextPartIs
  <2> HIDE DEF e
  <2>2. QED BY <2>1, PartFields DEF Before, e
<1>2. CASE ~e.reply BY <1>2 DEF Before
<1>3. QED BY <1>1, <1>2

LEMMA NextMade ==
  ASSUME NEW M, NEW d \in Parts, Made(M, d)
  PROVE  Made(M, NextPart(d))
<1> DEFINE e == NextPart(d)
<1>1. CASE e.reply
  <2>1. e.id = d.id /\ e.n = d.n /\ e.k = d.k + 1 /\ d.reply /\ d.k < ContFrames(d.n)
    BY <1>1, NextPartIs
  <2> HIDE DEF e
  <2>2. QED BY <2>1, PartFields DEF Made, e
<1>2. CASE ~e.reply BY <1>2 DEF Made
<1>3. QED BY <1>1, <1>2

\* The authenticator sends a report.
LEMMA LineSent ==
  ASSUME NEW M, NEW l \in Nat, NEW E \in Seq(Parts), NEW d \in Parts, Line(M, l, E, d)
  PROVE  Line(M, l, Append(E, d), NextPart(d)) /\ Append(E, d) \in Seq(Parts)
<1> DEFINE e == NextPart(d)
           N == Len(E)
<1>1. Made(M, d) /\ Near(l, E[N], d) /\ \A i \in 1 .. N : Before(E[i], d) BY DEF Line
<1>2. N > 0 /\ N \in Nat /\ \A i \in 1 .. N : E[i] \in Parts BY DEF Line
<1>3. \A i \in 1 .. N : Before(E[i], e) BY <1>1, <1>2, Later
<1>4. Before(d, e) BY <1>1, <1>2, Later
<1>5. Made(M, e) BY <1>1, NextMade
<1>6. Near(l, d, e) /\ (e.reply \/ Ended(l, d))
  <2>1. CASE d.reply /\ d.k < ContFrames(d.n)
    <3>1. e.reply /\ e.id = d.id /\ e.k = d.k + 1 BY <2>1, NextPartIs
    <3> HIDE DEF e
    <3>2. QED BY <3>1, PartFields DEF Near
  <2>2. CASE ~(d.reply /\ d.k < ContFrames(d.n))
    <3>1. ~e.reply BY <2>2, NextPartIs
    <3> HIDE DEF e
    <3>2. QED BY <2>2, <3>1, PartFields DEF Near, Ended
  <2>3. QED BY <2>1, <2>2
<1>7. QED BY <1>1, <1>3, <1>4, <1>5, <1>6, LineQueued

LEMMA NearMore ==
  ASSUME NEW l \in Nat, NEW p \in Parts, NEW r \in Parts, Near(l, p, r)
  PROVE  Near(l + 1, p, r)
<1>1. p.k \in Nat /\ r.k \in Nat /\ ContFrames(p.n) \in Nat BY PartFields
<1>2. QED BY <1>1 DEF Near

\* One more report of a reply is missing when the next one is skipped.
LEMMA NearSkipped ==
  ASSUME NEW l \in Nat, NEW p \in Parts, NEW d \in Parts, NEW e,
         Near(l, p, d), d.reply, e.id = d.id, e.k = d.k + 1
  PROVE  Near(l + 1, p, e)
<1> DEFINE c == ContFrames(p.n)
<1>1. p.k \in Nat /\ d.k \in Nat /\ c \in Nat BY PartFields
<1>2. SUFFICES ASSUME p.reply
      PROVE  IF p.id = d.id THEN e.k - p.k - 1 <= l + 1 ELSE c - p.k + e.k <= l + 1
  BY DEF Near
<1>3. IF p.id = d.id THEN d.k - p.k - 1 <= l ELSE c - p.k + d.k <= l BY <1>2 DEF Near
<1> HIDE DEF c
<1>4. CASE p.id = d.id
  <2>1. d.k - p.k - 1 <= l BY <1>3, <1>4
  <2>2. e.k - p.k - 1 <= l + 1 BY <1>1, <2>1
  <2>3. QED BY <1>4, <2>2
<1>5. CASE p.id # d.id
  <2>1. c - p.k + d.k <= l BY <1>3, <1>5
  <2>2. c - p.k + e.k <= l + 1 BY <1>1, <2>1
  <2>3. QED BY <1>5, <2>2
<1>6. QED BY <1>4, <1>5

\* The kernel drops it.
LEMMA LineLost ==
  ASSUME NEW M, NEW l \in Nat, NEW E \in Seq(Parts), NEW d \in Parts, Line(M, l, E, d)
  PROVE  Line(M, l + 1, E, NextPart(d))
<1> DEFINE e == NextPart(d)
           N == Len(E)
           z == E[N]
<1>1. /\ N > 0 /\ N \in Nat /\ \A i \in 1 .. N : E[i] \in Parts /\ Made(M, E[i]) /\ Before(E[i], d)
      /\ Made(M, d) /\ Near(l, z, d) /\ (d.reply \/ Ended(l, z))
      /\ \A i, j \in 1 .. N : i < j => Before(E[i], E[j])
      /\ \A i \in 1 .. N - 1 : Near(l, E[i], E[i + 1])
  BY DEF Line
<1>2. \A i \in 1 .. N : Before(E[i], e) BY <1>1, Later
<1>3. Made(M, e) BY <1>1, NextMade
<1>4. \A i \in 1 .. N - 1 : Near(l + 1, E[i], E[i + 1])
  <2> TAKE i \in 1 .. N - 1
  <2>1. E[i] \in Parts /\ E[i + 1] \in Parts /\ Near(l, E[i], E[i + 1]) BY <1>1
  <2>2. QED BY <2>1, NearMore
<1>5. z \in Parts /\ Before(z, d) BY <1>1
<1>6. Near(l + 1, z, e) /\ (e.reply \/ Ended(l + 1, z))
  <2> HIDE DEF z
  <2>1. CASE d.reply /\ d.k < ContFrames(d.n)
    <3>1. e.reply /\ e.id = d.id /\ e.n = d.n /\ e.k = d.k + 1 BY <2>1, NextPartIs
    <3> HIDE DEF e
    <3>2. Near(l, z, d) BY <1>1
    <3>3. Near(l + 1, z, e) BY <1>5, <2>1, <3>1, <3>2, NearSkipped
    <3>4. QED BY <3>1, <3>3
  <2>2. CASE d.reply /\ ~(d.k < ContFrames(d.n))
    <3>1. ~e.reply BY <2>2, NextPartIs
    <3>2. d.k = ContFrames(d.n) BY <1>1, <2>2, PartFields DEF Made
    <3>3. Ended(l + 1, z)
      <4>1. Near(l, z, d) /\ Before(z, d) BY <1>1, <1>5
      <4>2. z.k \in Nat /\ d.k \in Nat /\ ContFrames(z.n) \in Nat BY <1>5, PartFields
      <4>3. CASE z.reply /\ z.id = d.id
        <5>1. z.n = d.n /\ d.k - z.k - 1 <= l
          <6>1. d.id \in Nat BY PartFields
          <6>2. QED BY <2>2, <4>1, <4>3, <6>1 DEF Near, Before
        <5>2. ContFrames(z.n) - z.k <= l + 1 BY <3>2, <4>2, <5>1
        <5>3. QED BY <5>2 DEF Ended
      <4>4. CASE z.reply /\ z.id # d.id
        <5>1. ContFrames(z.n) - z.k + d.k <= l BY <2>2, <4>1, <4>4 DEF Near
        <5>2. ContFrames(z.n) - z.k <= l + 1 BY <4>2, <5>1
        <5>3. QED BY <5>2 DEF Ended
      <4>5. CASE ~z.reply BY <4>5 DEF Ended
      <4>6. QED BY <4>3, <4>4, <4>5
    <3>4. QED BY <3>1, <3>3 DEF Near
  <2>3. CASE ~d.reply
    <3>1. ~e.reply BY <2>3, NextPartIs
    <3>2. Ended(l + 1, z) BY <1>1, <1>5, <2>3, PartFields DEF Ended
    <3>3. QED BY <3>1, <3>2 DEF Near
  <2>4. QED BY <2>1, <2>2, <2>3
<1> HIDE DEF e
<1>7. QED BY <1>1, <1>2, <1>3, <1>4, <1>6 DEF Line, e

\* The authenticator answers a request, and with no other reply left to send.
LEMMA LineAnswered ==
  ASSUME NEW M, NEW l \in Nat, NEW E \in Seq(Parts), NEW d \in Parts, Line(M, l, E, d), ~d.reply,
         NEW id \in Nat, NEW n \in Nat, \A m \in M : m[1] < id
  PROVE  Line(M \cup {<<id, n>>}, l, E, Part(id, n, 0))
<1> DEFINE p == Part(id, n, 0)
           N == Len(E)
           z == E[N]
           L == M \cup {<<id, n>>}
<1>1. /\ N > 0 /\ N \in Nat /\ \A i \in 1 .. N : E[i] \in Parts /\ Made(M, E[i])
      /\ Ended(l, z)
      /\ \A i, j \in 1 .. N : i < j => Before(E[i], E[j])
      /\ \A i \in 1 .. N - 1 : Near(l, E[i], E[i + 1])
  BY DEF Line
<1>2. p.reply /\ p.id = id /\ p.n = n /\ p.k = 0 BY DEF Part
<1> HIDE DEF p
<1>3. \A i \in 1 .. N : E[i].reply => E[i].id < id
  <2> SUFFICES ASSUME NEW i \in 1 .. N, E[i].reply PROVE E[i].id < id
    OBVIOUS
  <2>1. <<E[i].id, E[i].n>> \in M BY <1>1 DEF Made
  <2>2. QED BY <2>1
<1>4. \A i \in 1 .. N : Made(L, E[i]) /\ Before(E[i], p) BY <1>1, <1>2, <1>3 DEF Made, Before
<1>5. Made(L, p) BY <1>2, ContFramesIs DEF Made
<1>6. Near(l, z, p)
  <2>1. z \in Parts /\ (z.reply => z.id < id) BY <1>1, <1>3
  <2> HIDE DEF z
  <2>2. QED BY <1>1, <1>2, <2>1, PartFields DEF Near, Ended
<1>7. QED BY <1>1, <1>2, <1>4, <1>5, <1>6 DEF Line, p

-----------------------------------------------------------------------------
(* What fido_rx delivers.                                                  *)

\* q is what E says is queued on the handle, and what d says is to be sent.
Shown(E, q) ==
  /\ q \in Seq(InputReports) /\ Len(E) = Len(q) + 1
  /\ \A i \in 1 .. Len(q) : Shows(E[i + 1], q[i])

Sends(q, d) ==
  /\ q \in Seq(InputReports)
  /\ IF d.reply
     THEN /\ Len(q) = ContFrames(d.n) + 1 - d.k
          /\ \A j \in 1 .. Len(q) : q[j] = FrameOf(Part(d.id, d.n, d.k + j - 1))
     ELSE q = <<>> \/ (Len(q) = 1 /\ q[1] \in Passing)

LEMMA ShownRead ==
  ASSUME NEW E \in Seq(Parts), NEW q, Shown(E, q), q # <<>>
  PROVE  /\ Len(E) > 1 /\ E[2] \in Parts /\ Tail(E) \in Seq(Parts) /\ Tail(E)[1] = E[2]
         /\ Shows(E[2], Head(q)) /\ Shown(Tail(E), Tail(q))
         /\ \A i \in 2 .. Len(Tail(E)) : i + 1 \in 2 .. Len(E) /\ Tail(E)[i] = E[i + 1]
<1> DEFINE N == Len(q)
           F == Tail(E)
           r == Tail(q)
<1>1. q \in Seq(InputReports) /\ Len(E) = N + 1 /\ \A i \in 1 .. N : Shows(E[i + 1], q[i])
  BY DEF Shown
<1>2. N \in Nat /\ N > 0 /\ r \in Seq(InputReports) /\ Len(r) = N - 1 /\ Head(q) = q[1]
      /\ \A i \in 1 .. N - 1 : r[i] = q[i + 1]
  BY <1>1
<1>3. F \in Seq(Parts) /\ Len(F) = N /\ \A i \in 1 .. N : F[i] = E[i + 1] BY <1>1, <1>2
<1>4. E[2] \in Parts /\ Len(E) > 1 BY <1>1, <1>2
<1>5. Shows(E[2], q[1])
  <2>1. 1 \in 1 .. N /\ 1 + 1 = 2 BY <1>2
  <2>2. QED BY <1>1, <2>1
<1> HIDE DEF N, F, r
<1>6. \A i \in 1 .. N - 1 : Shows(F[i + 1], r[i])
  <2> TAKE i \in 1 .. N - 1
  <2>1. i + 1 \in 1 .. N BY <1>2
  <2>2. QED BY <1>1, <1>2, <1>3, <2>1
<1>7. Shown(F, r) BY <1>2, <1>3, <1>6 DEF Shown
<1>8. F[1] = E[2] /\ \A i \in 2 .. Len(F) : i + 1 \in 2 .. Len(E) /\ F[i] = E[i + 1] BY <1>1, <1>2, <1>3
<1>9. QED BY <1>2, <1>3, <1>4, <1>5, <1>7, <1>8 DEF F, r

LEMMA ShownQueued ==
  ASSUME NEW E \in Seq(Parts), NEW q, Shown(E, q), NEW e \in Parts, NEW f, Shows(e, f)
  PROVE  Shown(Append(E, e), Append(q, f))
<1> DEFINE N == Len(q)
           F == Append(E, e)
           r == Append(q, f)
<1>1. q \in Seq(InputReports) /\ Len(E) = N + 1 /\ \A i \in 1 .. N : Shows(E[i + 1], q[i])
  BY DEF Shown
<1>2. f \in InputReports BY ShownIsReport
<1>3. N \in Nat /\ r \in Seq(InputReports) /\ Len(r) = N + 1 /\ r[N + 1] = f
      /\ \A i \in 1 .. N : r[i] = q[i]
  BY <1>1, <1>2
<1>4. Len(F) = N + 2 /\ F[N + 2] = e /\ \A i \in 1 .. N + 1 : F[i] = E[i] BY <1>1, <1>3
<1> HIDE DEF N, F, r
<1>5. \A i \in 1 .. N + 1 : Shows(F[i + 1], r[i])
  <2> TAKE i \in 1 .. N + 1
  <2>1. CASE i = N + 1
    <3>1. i + 1 = N + 2 BY <1>3, <2>1
    <3>2. QED BY <1>3, <1>4, <2>1, <3>1
  <2>2. CASE i # N + 1
    <3>1. i \in 1 .. N /\ i + 1 \in 1 .. N + 1 BY <1>3, <2>2
    <3>2. QED BY <1>1, <1>3, <1>4, <3>1
  <2>3. QED BY <2>1, <2>2
<1>6. QED BY <1>3, <1>4, <1>5 DEF Shown, F, r

LEMMA SendsFirst ==
  ASSUME NEW q, NEW d \in Parts, Sends(q, d), q # <<>>, NEW M, Made(M, d)
  PROVE  Shows(d, Head(q)) /\ Sends(Tail(q), NextPart(d))
<1> DEFINE N == Len(q)
           r == Tail(q)
           e == NextPart(d)
<1>1. N \in Nat /\ N > 0 /\ r \in Seq(InputReports) /\ Len(r) = N - 1 /\ Head(q) = q[1]
      /\ (N = 1 => r = <<>>) /\ \A i \in 1 .. N - 1 : r[i] = q[i + 1]
  BY DEF Sends
<1>2. d.id \in Nat /\ d.n \in Nat /\ d.k \in Nat /\ ContFrames(d.n) \in Nat BY PartFields
<1>3. CASE d.reply
  <2>1. N = ContFrames(d.n) + 1 - d.k /\ \A j \in 1 .. N : q[j] = FrameOf(Part(d.id, d.n, d.k + j - 1))
    BY <1>3 DEF Sends
  <2>2. Part(d.id, d.n, d.k) = d BY <1>3 DEF Part, Parts
  <2>3. d.k + 1 - 1 = d.k BY <1>2
  <2>4. Head(q) = FrameOf(d)
    <3>1. 1 \in 1 .. N BY <1>1
    <3>2. QED BY <1>1, <2>1, <2>2, <2>3, <3>1
  <2>5. CASE d.k < ContFrames(d.n)
    <3>1. e.reply /\ e.id = d.id /\ e.n = d.n /\ e.k = d.k + 1 BY <1>3, <2>5, NextPartIs
    <3> HIDE DEF e, N, r
    <3>2. \A j \in 1 .. N - 1 : r[j] = FrameOf(Part(d.id, d.n, e.k + j - 1))
      <4> TAKE j \in 1 .. N - 1
      <4>1. j + 1 \in 1 .. N /\ d.k + (j + 1) - 1 = (d.k + 1) + j - 1 BY <1>1, <1>2
      <4>2. QED BY <1>1, <2>1, <3>1, <4>1
    <3>3. N - 1 = ContFrames(d.n) + 1 - e.k BY <1>2, <2>1, <3>1
    <3>4. Sends(r, e) BY <1>1, <3>1, <3>2, <3>3 DEF Sends
    <3>5. QED BY <1>3, <2>4, <3>4 DEF Shows, e, r
  <2>6. CASE ~(d.k < ContFrames(d.n))
    <3>1. ~e.reply BY <2>6, NextPartIs
    <3>2. N = 1 BY <1>1, <1>2, <2>1, <2>6
    <3> HIDE DEF e, N, r
    <3>3. Sends(r, e) BY <1>1, <3>1, <3>2 DEF Sends
    <3>4. QED BY <1>3, <2>4, <3>3 DEF Shows, e, r
  <2>7. QED BY <2>5, <2>6
<1>4. CASE ~d.reply
  <2>1. N = 1 /\ q[1] \in Passing /\ ~e.reply BY <1>1, <1>4, NextPartIs DEF Sends
  <2> HIDE DEF e, N, r
  <2>2. Sends(r, e) BY <1>1, <2>1 DEF Sends
  <2>3. QED BY <1>1, <1>4, <2>1, <2>2 DEF Shows, e, r
<1>5. QED BY <1>3, <1>4

LEMMA SendsNothing ==
  ASSUME NEW d \in Parts, NEW M, Made(M, d), Sends(<<>>, d)
  PROVE  ~d.reply
<1> SUFFICES ASSUME d.reply PROVE FALSE OBVIOUS
<1>1. 0 = ContFrames(d.n) + 1 - d.k /\ d.k <= ContFrames(d.n) BY DEF Sends, Made
<1>2. QED BY <1>1, PartFields

-----------------------------------------------------------------------------
\* No more reports were lost than continuation reports make up a reply: with more,
\* the end of one reply and the beginning of the next might both be missing, and
\* what is left of them be taken for one.
FewLost == \A m \in made : ContFrames(m[2]) = 0 \/ loss <= ContFrames(m[2])

\* While fido_rx collects a reply, the last report read is the one before those it
\* asks for, and the buffer holds the bytes up to it.
Reading(E) ==
  pc = "cont" => /\ E[1].reply /\ payload = E[1].n /\ seq = E[1].k
                 /\ Offset(seq + 1) < payload /\ buf = Bytes(E[1].id, Offset(seq + 1))

\* A command that found nothing of earlier ones sees nothing of them.
Own(E, d) ==
  quiet /\ pc # "idle" =>
    /\ \A i \in 2 .. Len(E) : E[i].reply => E[i].id = cur
    /\ d.reply => d.id = cur
    /\ \A i \in 1 .. Len(todo) : todo[i].id = cur
    /\ pc = "cont" => E[1].id = cur

Good(E, d) ==
  Line(made, loss, E, d) /\ Shown(E, inq) /\ Sends(dq, d) /\ Reading(E) /\ Own(E, d)

\* The host acts, without reading.
LEMMA GoodHost ==
  ASSUME NEW E \in Seq(Parts), NEW d \in Parts, Good(E, d), SendInv, pc # "idle", pc' # "cont",
         UNCHANGED <<made, loss, inq, dq, cur, quiet>>,
         todo' = todo \/ \E g : todo' = Append(todo, [id |-> cur, got |-> g])
  PROVE  Good(E, d)'
<1>1. ASSUME \A i \in 1 .. Len(todo) : todo[i].id = cur
      PROVE  \A i \in 1 .. Len(todo') : todo'[i].id = cur
  <2>1. CASE todo' = todo BY <1>1, <2>1
  <2>2. ASSUME NEW g, todo' = Append(todo, [id |-> cur, got |-> g])
        PROVE  \A i \in 1 .. Len(todo') : todo'[i].id = cur
    <3> DEFINE r == [id |-> cur, got |-> g]
    <3>1. r.id = cur OBVIOUS
    <3> HIDE DEF r
    <3>2. Len(todo) \in Nat /\ Len(todo') = Len(todo) + 1 /\ todo'[Len(todo) + 1] = r
          /\ \A i \in 1 .. Len(todo) : todo'[i] = todo[i]
      BY <2>2 DEF SendInv, r
    <3>3. QED BY <1>1, <3>1, <3>2
  <2>3. QED BY <2>1, <2>2
<1>2. Own(E, d)' BY <1>1 DEF Good, Own
<1>3. Reading(E)' BY DEF Reading
<1>4. QED BY <1>2, <1>3 DEF Good

LEMMA GoodBegin ==
  ASSUME NEW E \in Seq(Parts), NEW d \in Parts, Good(E, d), Begin
  PROVE  Good(E, d)'
<1>1. UNCHANGED <<made, loss, inq, dq, todo>> /\ pc' # "cont" /\ quiet' = Quiet
  BY DEF Begin, End, device
<1>2. Line(made, loss, E, d) /\ Shown(E, inq) /\ Sends(dq, d) BY DEF Good
<1>3. ASSUME Quiet
      PROVE  ~d.reply /\ todo = <<>> /\ \A i \in 2 .. Len(E) : ~E[i].reply
  <2>1. dq = <<>> /\ todo = <<>> /\ \A i \in 1 .. Len(inq) : inq[i].cid # Cid BY <1>3 DEF Quiet
  <2>2. ~d.reply
    <3>1. Made(made, d) BY <1>2 DEF Line
    <3>2. QED BY <1>2, <2>1, <3>1, SendsNothing
  <2>3. ASSUME NEW i \in 2 .. Len(E) PROVE ~E[i].reply
    <3>1. Len(inq) \in Nat /\ Len(E) = Len(inq) + 1 BY <1>2 DEF Shown
    <3>2. i - 1 \in 1 .. Len(inq) /\ (i - 1) + 1 = i /\ E[i] \in Parts BY <3>1
    <3>3. Shows(E[i], inq[i - 1]) /\ inq[i - 1].cid # Cid BY <1>2, <2>1, <3>2 DEF Shown
    <3>4. FrameOf(E[i]).cid = Cid BY <3>2, NextType, FirstType
    <3>5. QED BY <3>3, <3>4 DEF Shows
  <2>4. QED BY <2>1, <2>2, <2>3
<1>4. Own(E, d)' BY <1>1, <1>3 DEF Own
<1>5. Reading(E)' BY <1>1 DEF Reading
<1>6. QED BY <1>1, <1>2, <1>4, <1>5 DEF Good

\* The environment acts: it adds a report of the reply being sent, or one that passes.
LEMMA KeptByEnvironment ==
  ASSUME NEW E \in Seq(Parts), NEW d \in Parts, Len(E) > 0, Reading(E), Own(E, d),
         UNCHANGED host, UNCHANGED clock, UNCHANGED todo,
         NEW e \in Parts, e.reply => d.reply /\ e.id = d.id,
         NEW p \in Parts, p.reply => d.reply /\ p.id = d.id
  PROVE  /\ Reading(Append(E, e))' /\ Own(Append(E, e), p)'
         /\ Reading(E)' /\ Own(E, p)'
<1> DEFINE N == Len(E)
           F == Append(E, e)
<1>1. N \in Nat /\ N > 0 /\ Len(F) = N + 1 /\ F[N + 1] = e /\ \A i \in 1 .. N : F[i] = E[i] OBVIOUS
<1>2. pc' = pc /\ cur' = cur /\ seq' = seq /\ payload' = payload /\ buf' = buf /\ quiet' = quiet
  BY DEF host, clock
<1> HIDE DEF F
<1>3. Reading(E)' /\ Reading(F)' BY <1>1, <1>2 DEF Reading
<1>4. Own(E, p)' BY <1>2 DEF Own
<1>5. ASSUME \A i \in 2 .. N : E[i].reply => E[i].id = cur, d.reply => d.id = cur
      PROVE  \A i \in 2 .. N + 1 : F[i].reply => F[i].id = cur
  <2> TAKE i \in 2 .. N + 1
  <2>1. CASE i = N + 1 BY <1>1, <1>5, <2>1
  <2>2. CASE i # N + 1
    <3>1. i \in 2 .. N /\ i \in 1 .. N BY <1>1, <2>2
    <3>2. QED BY <1>1, <1>5, <3>1
  <2>3. QED BY <2>1, <2>2
<1>6. F[1] = E[1] BY <1>1
<1>7. Own(F, p)' BY <1>1, <1>2, <1>5, <1>6 DEF Own
<1>8. QED BY <1>3, <1>4, <1>7 DEF F

LEMMA GoodSent ==
  ASSUME NEW E \in Seq(Parts), NEW d \in Parts, Good(E, d), loss \in Nat, DeviceSends
  PROVE  Append(E, d) \in Seq(Parts) /\ NextPart(d) \in Parts /\ Good(Append(E, d), NextPart(d))'
<1> DEFINE F == Append(E, d)
           e == NextPart(d)
<1>1. /\ dq # <<>> /\ inq' = Append(inq, Head(dq)) /\ dq' = Tail(dq)
      /\ UNCHANGED <<made, loss, todo>> /\ UNCHANGED host /\ UNCHANGED clock
  BY DEF DeviceSends
<1>2. Line(made, loss, E, d) /\ Shown(E, inq) /\ Sends(dq, d) /\ Reading(E) /\ Own(E, d) BY DEF Good
<1>3. Len(E) > 0 /\ Made(made, d) BY <1>2 DEF Line
<1>4. Shows(d, Head(dq)) /\ Sends(dq', e) BY <1>1, <1>2, <1>3, SendsFirst
<1>5. Line(made, loss, F, e) /\ F \in Seq(Parts) BY <1>2, LineSent
<1>6. Shown(F, inq') BY <1>1, <1>2, <1>4, ShownQueued
<1>7. e \in Parts /\ (e.reply => d.reply /\ e.id = d.id) BY NextPartIs
<1> HIDE DEF e
<1>8. Reading(F)' /\ Own(F, e)' BY <1>1, <1>2, <1>3, <1>7, KeptByEnvironment
<1> HIDE DEF F
<1>9. Good(F, e)' BY <1>1, <1>4, <1>5, <1>6, <1>8 DEF Good
<1>10. QED BY <1>5, <1>7, <1>9 DEF F, e

LEMMA GoodLost ==
  ASSUME NEW E \in Seq(Parts), NEW d \in Parts, Good(E, d), loss \in Nat, ReportLost
  PROVE  NextPart(d) \in Parts /\ Good(E, NextPart(d))'
<1> DEFINE e == NextPart(d)
<1>1. /\ dq # <<>> /\ dq' = Tail(dq) /\ loss' = loss + 1
      /\ UNCHANGED <<made, inq, todo>> /\ UNCHANGED host /\ UNCHANGED clock
  BY DEF ReportLost
<1>2. Line(made, loss, E, d) /\ Shown(E, inq) /\ Sends(dq, d) /\ Reading(E) /\ Own(E, d) BY DEF Good
<1>3. Len(E) > 0 /\ Made(made, d) BY <1>2 DEF Line
<1>4. Sends(dq', e) BY <1>1, <1>2, <1>3, SendsFirst
<1>5. Line(made, loss', E, e) BY <1>1, <1>2, LineLost
<1>6. e \in Parts /\ (e.reply => d.reply /\ e.id = d.id) BY NextPartIs
<1> HIDE DEF e
<1>7. Reading(E)' /\ Own(E, e)' BY <1>1, <1>2, <1>3, <1>6, KeptByEnvironment
<1>8. Good(E, e)' BY <1>1, <1>2, <1>4, <1>5, <1>7 DEF Good
<1>9. QED BY <1>6, <1>8 DEF e

LEMMA GoodPassing ==
  ASSUME NEW E \in Seq(Parts), NEW d \in Parts, Good(E, d), ForeignReport \/ Keepalive
  PROVE  Append(E, NoPart) \in Seq(Parts) /\ Good(Append(E, NoPart), d)'
<1> DEFINE F == Append(E, NoPart)
<1>1. PICK f \in Passing : inq' = Append(inq, f)
  BY DEF ForeignReport, Keepalive, Passing
<1>2. UNCHANGED <<made, loss, todo, dq>> /\ UNCHANGED host /\ UNCHANGED clock
  BY DEF ForeignReport, Keepalive, device
<1>3. Line(made, loss, E, d) /\ Shown(E, inq) /\ Sends(dq, d) /\ Reading(E) /\ Own(E, d) BY DEF Good
<1>4. Len(E) > 0 BY <1>3 DEF Line
<1>5. Line(made, loss, F, d) /\ F \in Seq(Parts) BY <1>3, LinePassing
<1>6. NoPart \in Parts /\ ~NoPart.reply /\ Shows(NoPart, f) BY PassingPart DEF Shows
<1>7. Shown(F, inq') BY <1>1, <1>3, <1>6, ShownQueued
<1>8. Reading(F)' /\ Own(F, d)' BY <1>2, <1>3, <1>4, <1>6, KeptByEnvironment
<1> HIDE DEF F
<1>9. Good(F, d)' BY <1>2, <1>3, <1>5, <1>7, <1>8 DEF Good
<1>10. QED BY <1>5, <1>9 DEF F

LEMMA GoodAnswered ==
  ASSUME NEW E \in Seq(Parts), NEW d \in Parts, Good(E, d), loss \in Nat, Numbers, SendInv, DeviceAnswers
  PROVE  \E e \in Parts :
           /\ ~d.reply /\ Good(E, e)'
           /\ \/ ~e.reply /\ made' = made
              \/ e.reply /\ e.k = 0 /\ e.id \in 1 .. cur /\ made' = made \cup {<<e.id, e.n>>}
                 /\ \A m \in made : m[1] < e.id
<1>1. /\ todo # <<>> /\ dq = <<>> /\ todo' = Tail(todo)
      /\ UNCHANGED <<loss, inq>> /\ UNCHANGED host /\ UNCHANGED clock
  BY DEF DeviceAnswers
<1>2. Line(made, loss, E, d) /\ Shown(E, inq) /\ Sends(dq, d) /\ Reading(E) /\ Own(E, d) BY DEF Good
<1>3. ~d.reply
  <2>1. Made(made, d) BY <1>2 DEF Line
  <2>2. QED BY <1>1, <1>2, <2>1, SendsNothing
<1>4. Len(todo) \in Nat /\ Len(todo) > 0 /\ Head(todo) = todo[1] BY <1>1 DEF SendInv
<1> PICK id : id = todo[1].id OBVIOUS
<1>5. id \in 1 .. cur /\ cur \in Nat /\ \A m \in made : m[1] < id BY <1>4 DEF Numbers
<1>6. pc' = pc /\ cur' = cur /\ seq' = seq /\ payload' = payload /\ buf' = buf /\ quiet' = quiet
  BY <1>1 DEF host, clock
<1>7. Reading(E)' BY <1>2, <1>6 DEF Reading
<1>8. \A e : (e.reply => e.id = id) => Own(E, e)'
  <2>1. (\A i \in 1 .. Len(todo) : todo[i].id = cur) => id = cur /\ \A i \in 1 .. Len(todo') : todo'[i].id = cur
    BY <1>1, <1>4 DEF SendInv
  <2>2. QED BY <1>2, <1>6, <2>1 DEF Own
<1>9. ASSUME NEW n \in ReplyLens, dq' = Frames(Cid, CTAP_CMD_CBOR, Bytes(id, n)), made' = made \cup {<<id, n>>}
      PROVE  \E e \in Parts : /\ Good(E, e)' /\ e.reply /\ e.k = 0 /\ e.id \in 1 .. cur
                              /\ made' = made \cup {<<e.id, e.n>>} /\ \A m \in made : m[1] < e.id
  <2> DEFINE e == Part(id, n, 0)
  <2>1. n \in Nat /\ id \in Nat BY <1>5, ReplyLenIs
  <2>2. e \in Parts /\ e.reply /\ e.id = id /\ e.n = n /\ e.k = 0 BY <2>1 DEF Part, Parts
  <2>3. Line(made', loss, E, e) BY <1>2, <1>3, <1>5, <1>9, <2>1, LineAnswered
  <2>4. Sends(dq', e)
    <3>1. /\ dq' \in Seq(InputReports) /\ Len(dq') = ContFrames(n) + 1
          /\ \A j \in 1 .. Len(dq') : dq'[j] = FrameOf(Part(id, n, j - 1))
      BY <1>9, <2>1, FramesAre
    <3>2. ContFrames(n) \in Nat BY <2>1, ContFramesIs
    <3>3. \A j \in 1 .. Len(dq') : 0 + j - 1 = j - 1 OBVIOUS
    <3> HIDE DEF e
    <3>4. QED BY <2>2, <3>1, <3>2, <3>3 DEF Sends
  <2> HIDE DEF e
  <2>5. Own(E, e)' BY <1>8, <2>2
  <2>6. Good(E, e)' BY <1>1, <1>2, <1>7, <2>3, <2>4, <2>5 DEF Good
  <2>7. QED BY <1>5, <1>9, <2>2, <2>6
<1>10. ASSUME dq' = <<InitFrame(Cid, CTAP_ERROR, 1, <<Zero>>)>>, made' = made
       PROVE  Good(E, d)'
  <2> DEFINE f == InitFrame(Cid, CTAP_ERROR, 1, <<Zero>>)
  <2>1. f \in Passing BY DEF Passing
  <2> HIDE DEF f
  <2>2. dq' = <<f>> /\ f \in InputReports BY <1>10, <2>1 DEF f, InputReports
  <2>3. Sends(dq', d) BY <1>3, <2>1, <2>2 DEF Sends
  <2>4. Own(E, d)' BY <1>3, <1>8
  <2>5. QED BY <1>1, <1>2, <1>7, <1>10, <2>3, <2>4 DEF Good
<1>11. QED BY <1>3, <1>4, <1>9, <1>10 DEF DeviceAnswers

\* A read that fails may have taken a report off the queue, or not.
RxShort   == RxFails /\ inq # <<>> /\ inq' = Tail(inq)
RxGivesUp == RxTimeout \/ (RxFails /\ inq' = inq)

\* Reading moves E on by one report.
LEMMA LineRx ==
  ASSUME NEW E \in Seq(Parts), NEW d \in Parts, Good(E, d),
         RxSkip \/ RxPreamble \/ RxCont \/ RxShort
  PROVE  /\ Len(E) > 1 /\ E[1] \in Parts /\ E[2] \in Parts /\ Shows(E[2], Head(inq))
         /\ Tail(E) \in Seq(Parts) /\ Tail(E)[1] = E[2]
         /\ Line(made', loss', Tail(E), d) /\ Shown(Tail(E), inq') /\ Sends(dq', d)
         /\ (pc' = "cont" /\ E[2].reply) \/ pc' # "cont" => Own(Tail(E), d)'
<1> DEFINE F == Tail(E)
<1>1. RxShort \/ \E w : Read(w) BY DEF RxSkip, RxPreamble, RxCont
<1>2. /\ inq # <<>> /\ inq' = Tail(inq) /\ pc # "idle"
      /\ cur' = cur /\ loss' = loss /\ quiet' = quiet /\ dq' = dq /\ todo' = todo /\ made' = made
  BY <1>1 DEF Read, device, RxSkip, RxPreamble, RxCont, RxShort, RxFails
<1>3. Line(made, loss, E, d) /\ Shown(E, inq) /\ Sends(dq, d) /\ Own(E, d) BY DEF Good
<1>4. /\ Len(E) > 1 /\ E[2] \in Parts /\ F \in Seq(Parts) /\ F[1] = E[2]
      /\ Shows(E[2], Head(inq)) /\ Shown(F, Tail(inq))
      /\ \A i \in 2 .. Len(F) : i + 1 \in 2 .. Len(E) /\ F[i] = E[i + 1]
  BY <1>2, <1>3, ShownRead
<1>5. Line(made, loss, F, d) BY <1>3, <1>4, LineRead
<1>6. E[1] \in Parts /\ 2 \in 2 .. Len(E) BY <1>4
<1> HIDE DEF F
<1>7. ASSUME (pc' = "cont" /\ E[2].reply) \/ pc' # "cont" PROVE Own(F, d)'
  <2>1. \A i \in 2 .. Len(F) : F[i] = E[i + 1] /\ i + 1 \in 2 .. Len(E) BY <1>4
  <2>2. QED BY <1>2, <1>3, <1>4, <1>6, <1>7, <2>1 DEF Own
<1>8. QED BY <1>2, <1>3, <1>4, <1>5, <1>6, <1>7 DEF F

\* rx_preamble takes the first report of a reply, or fails.
LEMMA PreambleIs ==
  ASSUME NEW p \in Parts, inq # <<>>, Shows(p, Head(inq)), Made(made, p), Numbers, RxPreamble
  PROVE  \/ pc' = "idle" /\ outcome'.status = "rx"
         \/ /\ p.reply /\ p.k = 0 /\ <<p.id, p.n>> \in made
            /\ \/ pc' = "idle" /\ outcome' = [status |-> "ok", bytes |-> Bytes(p.id, p.n)]
               \/ /\ pc' = "cont" /\ outcome' = outcome
                  /\ payload' = p.n /\ seq' = 0 /\ p.n > InitData /\ buf' = Bytes(p.id, InitData)
<1> DEFINE f == Head(inq)
<1>1. f.cid = Cid /\ f.type # 187
  BY DEF RxPreamble, Skipped, IsKeepalive, CTAP_FRAME_INIT, CTAP_KEEPALIVE
<1>2. IF f.type # 144 \/ BufLen < f.bcnt
      THEN End("rx", <<>>)
      ELSE /\ payload' = f.bcnt /\ seq' = 0
           /\ IF f.bcnt <= InitData
              THEN buf' = SubSeq(f.data, 1, f.bcnt) /\ End("ok", buf')
              ELSE buf' = f.data /\ pc' = "cont" /\ UNCHANGED outcome
  BY DEF RxPreamble, CTAP_FRAME_INIT, CTAP_CMD_CBOR
<1>3. Shows(p, f) OBVIOUS
<1> HIDE DEF f
<1>4. CASE ~p.reply
  <2>1. f.type = 191 BY <1>1, <1>3, <1>4, PassingIs DEF Shows
  <2>2. QED BY <1>2, <2>1 DEF End
<1>5. CASE p.reply /\ p.k # 0
  <2>1. <<p.id, p.n>> \in made /\ p.k <= ContFrames(p.n) BY <1>5 DEF Made
  <2>2. p.n \in ReplyLens BY <2>1 DEF Numbers
  <2>3. f.type = p.k - 1 BY <1>3, <1>5, NextType DEF Shows
  <2>4. p.k \in Nat /\ p.k <= 128 BY <2>1, <2>2, ReplyLenIs, PartFields
  <2>5. f.type # 144 BY <2>3, <2>4
  <2>6. QED BY <1>2, <2>5 DEF End
<1>6. CASE p.reply /\ p.k = 0
  <2>1. <<p.id, p.n>> \in made BY <1>6 DEF Made
  <2>2. p.n \in ReplyLens /\ p.id \in Nat BY <2>1, PartFields DEF Numbers
  <2>3. f = FrameOf(Part(p.id, p.n, 0))
    <3>1. p = Part(p.id, p.n, 0) BY <1>6 DEF Parts, Part
    <3>2. QED BY <1>3, <1>6, <3>1, Zenon DEF Shows
  <2>4. /\ f.type = 144 /\ f.bcnt = p.n
        /\ p.n <= InitData => SubSeq(f.data, 1, p.n) = Bytes(p.id, p.n)
        /\ p.n > InitData => f.data = Bytes(p.id, InitData)
    BY <2>2, <2>3, FirstShown
  <2>5. p.n \in Nat /\ InitData \in Nat BY PartFields, Sizes
  <2>6. CASE BufLen < f.bcnt BY <1>2, <2>6 DEF End
  <2>7. CASE ~(BufLen < f.bcnt) /\ p.n <= InitData
    <3>1. buf' = Bytes(p.id, p.n) /\ End("ok", buf') BY <1>2, <2>4, <2>7
    <3>2. QED BY <1>6, <2>1, <3>1 DEF End
  <2>8. CASE ~(BufLen < f.bcnt) /\ ~(p.n <= InitData)
    BY <1>2, <1>6, <2>1, <2>4, <2>5, <2>8
  <2>9. QED BY <2>6, <2>7, <2>8
<1>7. QED BY <1>4, <1>5, <1>6

\* While a reply is collected, a report in sequence is the next one of that reply: for
\* another reply to come in its place, more would have to be lost than FewLost allows.
LEMMA InSequenceIs ==
  ASSUME NEW p \in Parts, NEW r \in Parts, NEW f, Shows(r, f), Made(made, p), Made(made, r),
         Before(p, r), Near(loss, p, r), Numbers, FewLost, loss \in Nat,
         p.reply, seq = p.k, Offset(seq + 1) < p.n, InSequence(f)
  PROVE  r.reply /\ r.id = p.id /\ r.n = p.n /\ r.k = seq + 1
<1>1. /\ p.id \in Nat /\ p.n \in Nat /\ p.k \in Nat /\ ContFrames(p.n) \in Nat
      /\ r.id \in Nat /\ r.n \in Nat /\ r.k \in Nat
  BY PartFields
<1>2. <<p.id, p.n>> \in made /\ p.n \in ReplyLens /\ p.k <= 128
  <2>1. <<p.id, p.n>> \in made /\ p.k <= ContFrames(p.n) BY DEF Made
  <2>2. p.n \in ReplyLens BY <2>1 DEF Numbers
  <2>3. QED BY <1>1, <2>1, <2>2, ReplyLenIs
<1>3. f.cid = Cid /\ f.type = seq BY DEF InSequence
<1>4. r.reply
  <2> SUFFICES ASSUME ~r.reply PROVE FALSE OBVIOUS
  <2>1. f.type \in {187, 191} BY <1>3, PassingIs DEF Shows
  <2>2. QED BY <1>1, <1>2, <1>3, <2>1
<1>5. f = FrameOf(r) BY <1>4 DEF Shows
<1>6. r.k # 0
  <2> SUFFICES ASSUME r.k = 0 PROVE FALSE OBVIOUS
  <2>1. f.type = 144 BY <1>5, FirstType
  <2>2. QED BY <1>1, <1>2, <1>3, <2>1
<1>7. r.k = seq + 1
  <2>1. f.type = r.k - 1 BY <1>5, <1>6, NextType
  <2>2. QED BY <1>1, <1>3, <2>1
<1>8. r.id = p.id
  <2> SUFFICES ASSUME r.id # p.id PROVE FALSE OBVIOUS
  <2>1. ContFrames(p.n) - p.k + r.k <= loss BY <1>4 DEF Near
  <2>2. ContFrames(p.n) + 1 <= loss BY <1>1, <1>7, <2>1
  <2>3. ContFrames(p.n) # 0
    <3>1. seq + 1 \in Nat \ {0} BY <1>1
    <3>2. Offset(seq + 1) \in Nat /\ Offset(seq + 1) >= InitData /\ InitData \in Nat BY <3>1, OffsetIs, Sizes
    <3>3. ~(p.n <= InitData) BY <1>1, <3>2
    <3>4. QED BY <1>1, <3>3, ContFramesIs
  <2>4. ContFrames(p.n) = 0 \/ loss <= ContFrames(p.n) BY <1>2 DEF FewLost
  <2>5. QED BY <1>1, <2>2, <2>3, <2>4
<1>9. r.n = p.n BY <1>1, <1>4, <1>8 DEF Before
<1>10. QED BY <1>4, <1>7, <1>8, <1>9

\* The loop of rx takes the next report of the reply it collects, or fails.
LEMMA ContIs ==
  ASSUME NEW E \in Seq(Parts), NEW d \in Parts, Good(E, d), Numbers, FewLost, loss \in Nat, RxCont
  PROVE  LET p == E[1]
             r == E[2]
         IN  \/ pc' = "idle" /\ outcome'.status = "rx"
             \/ /\ p.reply /\ r.reply /\ r.id = p.id /\ r.n = p.n /\ r.k # 0 /\ <<p.id, p.n>> \in made
                /\ \/ pc' = "idle" /\ outcome' = [status |-> "ok", bytes |-> Bytes(p.id, p.n)]
                   \/ /\ pc' = "cont" /\ outcome' = outcome
                      /\ payload' = r.n /\ seq' = r.k
                      /\ Offset(r.k + 1) < r.n /\ buf' = Bytes(r.id, Offset(r.k + 1))
<1> DEFINE p == E[1]
           r == E[2]
           f == Head(inq)
           k == seq + 1
           o == Offset(k)
<1>1. Len(E) > 1 /\ p \in Parts /\ r \in Parts /\ Shows(r, f) BY LineRx
<1>2. Line(made, loss, E, d) /\ Reading(E) BY DEF Good
<1>3. Made(made, p) /\ Made(made, r) /\ Before(p, r) /\ Near(loss, p, r)
  <2>1. Len(E) \in Nat OBVIOUS
  <2>2. 1 \in 1 .. Len(E) /\ 2 \in 1 .. Len(E) /\ 1 \in 1 .. Len(E) - 1 /\ 1 + 1 = 2 BY <1>1, <2>1
  <2>3. QED BY <1>2, <2>2 DEF Line
<1>4. pc = "cont" /\ p.reply /\ payload = p.n /\ seq = p.k /\ o < p.n /\ buf = Bytes(p.id, o)
  BY <1>2 DEF RxCont, Reading
<1>5. IF ~InSequence(f)
      THEN End("rx", <<>>)
      ELSE /\ buf' = buf \o SubSeq(f.data, 1, MIN(payload - Len(buf), ContData))
           /\ seq' = seq + 1
           /\ IF Len(buf') < payload THEN UNCHANGED <<pc, outcome>> ELSE End("ok", buf')
  BY DEF RxCont
<1>6. payload' = payload BY DEF RxCont
<1> HIDE DEF p, r, f
<1>7. CASE ~InSequence(f) BY <1>5, <1>7 DEF End
<1>8. CASE InSequence(f)
  <2>1. r.reply /\ r.id = p.id /\ r.n = p.n /\ r.k = k BY <1>1, <1>3, <1>4, <1>8, InSequenceIs
  <2>2. /\ p.id \in Nat /\ p.n \in Nat /\ k \in Nat \ {0}
        /\ o \in Nat /\ ContData \in Nat \ {0} /\ Offset(k + 1) = o + ContData
    <3>1. p.id \in Nat /\ p.n \in Nat /\ k \in Nat \ {0} BY <1>1, <1>4, PartFields
    <3> HIDE DEF k
    <3>2. QED BY <3>1, OffsetIs, Sizes
  <2>3. r = Part(p.id, p.n, k) /\ f = FrameOf(r) BY <1>1, <2>1 DEF Shows, Parts, Part
  <2> HIDE DEF o, k
  <2> DEFINE c == MIN(p.n - o, ContData)
  <2>4. SubSeq(f.data, 1, c) = Slice(p.id, o, c)
    <3>1. Offset(k) < p.n BY <1>4 DEF o
    <3>2. QED BY <2>2, <2>3, <3>1, NextShown DEF o
  <2>5. c \in Nat /\ c <= p.n - o /\ (c = p.n - o \/ c = ContData)
    <3>1. p.n - o \in Nat BY <1>4, <2>2
    <3>2. QED BY <2>2, <3>1, MinIs
  <2>6. Len(buf) = o BY <1>4, <2>2, BytesAre
  <2>7. buf' = Bytes(p.id, o + c)
    <3>1. buf' = buf \o SubSeq(f.data, 1, c) BY <1>4, <1>5, <1>8, <2>6
    <3> HIDE DEF c
    <3>2. Bytes(p.id, o) \o Slice(p.id, o, c) = Bytes(p.id, o + c) BY <2>2, <2>5, Glued
    <3>3. QED BY <1>4, <2>4, <3>1, <3>2
  <2> HIDE DEF c
  <2>8. Len(buf') = o + c
    <3>1. o + c \in Nat BY <2>2, <2>5
    <3>2. Len(Bytes(p.id, o + c)) = o + c BY <2>2, <3>1, BytesAre
    <3>3. QED BY <2>7, <3>2
  <2>9. <<p.id, p.n>> \in made BY <1>3, <1>4 DEF Made
  <2>10. CASE o + c < p.n
    <3>1. c = ContData BY <1>4, <2>2, <2>5, <2>10
    <3>2. Offset(k + 1) = o + c BY <2>2, <3>1
    <3>3. pc' = "cont" /\ outcome' = outcome BY <1>4, <1>5, <1>8, <2>8, <2>10
    <3>4. QED BY <1>4, <1>5, <1>6, <1>8, <2>1, <2>2, <2>7, <2>9, <2>10, <3>2, <3>3 DEF p, r, k
  <2>11. CASE ~(o + c < p.n)
    <3>1. o + c = p.n BY <1>4, <2>2, <2>5, <2>11
    <3>2. End("ok", Bytes(p.id, p.n)) BY <1>4, <1>5, <1>8, <2>7, <2>8, <2>11, <3>1
    <3>3. QED BY <1>4, <2>1, <2>2, <2>9, <3>2 DEF p, r, End
  <2>12. QED BY <2>10, <2>11
<1>9. QED BY <1>7, <1>8 DEF p, r

\* fido_rx reads a report.
LEMMA GoodRead ==
  ASSUME NEW E \in Seq(Parts), NEW d \in Parts, Good(E, d), Numbers, FewLost, loss \in Nat,
         AcceptedWhole, OwnReply, RxSkip \/ RxPreamble \/ RxCont \/ RxShort
  PROVE  Good(Tail(E), d)' /\ Tail(E) \in Seq(Parts) /\ AcceptedWhole' /\ OwnReply'
<1> DEFINE F == Tail(E)
           p == E[1]
           r == E[2]
<1>1. /\ Len(E) > 1 /\ p \in Parts /\ r \in Parts /\ Shows(r, Head(inq))
      /\ F \in Seq(Parts) /\ F[1] = r
      /\ Line(made', loss', F, d) /\ Shown(F, inq') /\ Sends(dq', d)
      /\ (pc' = "cont" /\ r.reply) \/ pc' # "cont" => Own(F, d)'
  BY LineRx
<1>2. inq # <<>> /\ pc # "idle" /\ made' = made /\ cur' = cur /\ quiet' = quiet
  BY DEF RxSkip, RxPreamble, RxCont, RxShort, RxFails, Read, device
<1>3. Line(made, loss, E, d) /\ Own(E, d) BY DEF Good
<1>4. Made(made, r)
  <2>1. 2 \in 1 .. Len(E) BY <1>1
  <2>2. QED BY <1>3, <2>1 DEF Line
<1>5. 2 \in 2 .. Len(E) BY <1>1
<1> HIDE DEF F, p, r
<1>6. ASSUME NEW x \in Parts, <<x.id, x.n>> \in made, quiet => x.id = cur,
             outcome' = [status |-> "ok", bytes |-> Bytes(x.id, x.n)]
      PROVE  AcceptedWhole' /\ OwnReply'
  <2>1. x.n \in ReplyLens BY <1>6 DEF Numbers
  <2>2. <<x.id, x.n>>[1] = x.id /\ <<x.id, x.n>>[2] = x.n OBVIOUS
  <2>3. \E m \in made : Bytes(x.id, x.n) = Bytes(m[1], m[2]) BY <1>6, <2>2
  <2>4. AcceptedWhole' BY <1>2, <1>6, <2>3 DEF AcceptedWhole
  <2>5. quiet => \E n \in ReplyLens : Bytes(x.id, x.n) = Bytes(cur, n) BY <1>6, <2>1
  <2>6. OwnReply' BY <1>2, <1>6, <2>5 DEF OwnReply
  <2>7. QED BY <2>4, <2>6
<1>7. ASSUME outcome'.status # "ok" \/ outcome' = outcome
      PROVE  AcceptedWhole' /\ OwnReply'
  BY <1>2, <1>7 DEF AcceptedWhole, OwnReply
<1>8. ASSUME pc' # "cont" PROVE Good(F, d)'
  <2>1. Reading(F)' BY <1>8 DEF Reading
  <2>2. Own(F, d)' BY <1>1, <1>8
  <2>3. QED BY <1>1, <2>1, <2>2 DEF Good
<1>9. CASE RxSkip
  <2>1. pc' # "cont" /\ outcome' = outcome BY <1>9 DEF RxSkip
  <2>2. QED BY <1>1, <1>7, <1>8, <2>1 DEF F
<1>10. CASE RxPreamble
  <2>1. \/ pc' = "idle" /\ outcome'.status = "rx"
        \/ /\ r.reply /\ r.k = 0 /\ <<r.id, r.n>> \in made
           /\ \/ pc' = "idle" /\ outcome' = [status |-> "ok", bytes |-> Bytes(r.id, r.n)]
              \/ /\ pc' = "cont" /\ outcome' = outcome
                 /\ payload' = r.n /\ seq' = 0 /\ r.n > InitData /\ buf' = Bytes(r.id, InitData)
    BY <1>1, <1>2, <1>4, <1>10, PreambleIs
  <2>2. CASE pc' = "idle" /\ outcome'.status = "rx" BY <1>1, <1>7, <1>8, <2>2 DEF F
  <2>3. CASE r.reply /\ <<r.id, r.n>> \in made /\ pc' = "idle"
             /\ outcome' = [status |-> "ok", bytes |-> Bytes(r.id, r.n)]
    <3>1. quiet => r.id = cur BY <1>2, <1>3, <1>5, <2>3 DEF Own, r
    <3>2. QED BY <1>1, <1>6, <1>8, <2>3, <3>1 DEF F
  <2>4. CASE /\ r.reply /\ r.k = 0 /\ pc' = "cont" /\ outcome' = outcome
             /\ payload' = r.n /\ seq' = 0 /\ r.n > InitData /\ buf' = Bytes(r.id, InitData)
    <3>1. Offset(1) = InitData /\ 0 + 1 = 1
      <4>1. 1 \in Nat \ {0} OBVIOUS
      <4>2. QED BY <4>1, OffsetIs
    <3>2. InitData \in Nat /\ r.n \in Nat BY <1>1, PartFields, Sizes
    <3>3. Offset(seq' + 1) = InitData BY <2>4, <3>1
    <3>4. InitData < payload' /\ buf' = Bytes(F[1].id, Offset(seq' + 1)) BY <1>1, <2>4, <3>2, <3>3
    <3>5. Reading(F)' BY <1>1, <2>4, <3>3, <3>4 DEF Reading, Offset, InitData, ContData
    <3>6. Own(F, d)' BY <1>1, <2>4
    <3>7. QED BY <1>1, <1>7, <2>4, <3>5, <3>6 DEF Good, F
  <2>5. QED BY <2>1, <2>2, <2>3, <2>4
<1>11. CASE RxCont
  <2>1. \/ pc' = "idle" /\ outcome'.status = "rx"
        \/ /\ p.reply /\ r.reply /\ r.id = p.id /\ r.n = p.n /\ r.k # 0 /\ <<p.id, p.n>> \in made
           /\ \/ pc' = "idle" /\ outcome' = [status |-> "ok", bytes |-> Bytes(p.id, p.n)]
              \/ /\ pc' = "cont" /\ outcome' = outcome
                 /\ payload' = r.n /\ seq' = r.k
                 /\ Offset(r.k + 1) < r.n /\ buf' = Bytes(r.id, Offset(r.k + 1))
    BY <1>11, ContIs DEF p, r
  <2>2. CASE pc' = "idle" /\ outcome'.status = "rx" BY <1>1, <1>7, <1>8, <2>2 DEF F
  <2>3. CASE p.reply /\ <<p.id, p.n>> \in made /\ pc' = "idle"
             /\ outcome' = [status |-> "ok", bytes |-> Bytes(p.id, p.n)]
    <3>1. pc = "cont" BY <1>11 DEF RxCont
    <3>2. quiet => p.id = cur BY <1>2, <1>3, <3>1 DEF Own, p
    <3>3. QED BY <1>1, <1>6, <1>8, <2>3, <3>2 DEF F
  <2>4. CASE /\ r.reply /\ pc' = "cont" /\ outcome' = outcome /\ payload' = r.n /\ seq' = r.k
             /\ Offset(r.k + 1) < r.n /\ buf' = Bytes(r.id, Offset(r.k + 1))
    <3>1. Reading(F)' BY <1>1, <2>4 DEF Reading, Offset, InitData, ContData
    <3>2. Own(F, d)' BY <1>1, <2>4
    <3>3. QED BY <1>1, <1>7, <2>4, <3>1, <3>2 DEF Good, F
  <2>5. QED BY <2>1, <2>2, <2>3, <2>4
<1>12. CASE RxShort
  <2>1. pc' = "idle" /\ outcome'.status = "rx" BY <1>12 DEF RxShort, RxFails, End
  <2>2. QED BY <1>1, <1>7, <1>8, <2>1 DEF F
<1>13. QED BY <1>9, <1>10, <1>11, <1>12

\* The inductive invariant.
ReplyInv ==
  /\ loss \in Nat
  /\ FewLost => /\ AcceptedWhole /\ OwnReply
                /\ \E E \in Seq(Parts), d \in Parts : Good(E, d)

LEMMA FewLostBefore == ASSUME loss \in Nat, Numbers, [Next]_vars, FewLost' PROVE FewLost
<1>1. loss' \in Nat /\ loss <= loss'
  <2>1. loss' = loss \/ loss' = loss + 1
    BY DEF Next, Host, Environment, Done, Begin, TxFails, TxPreamble, TxTooLong, TxFrame, Write, RxSkip,
           RxPreamble, RxCont, RxTimeout, RxFails, Read, DeviceAnswers, DeviceSends, ReportLost, ForeignReport,
           Keepalive, vars
  <2>2. QED BY <2>1
<1>2. made \subseteq made'
  <2>1. made' = made \/ \E k, n : made' = made \cup {<<k, n>>}
    BY DEF Next, Host, Environment, Done, Begin, TxFails, TxPreamble, TxTooLong, TxFrame, Write, RxSkip,
           RxPreamble, RxCont, RxTimeout, RxFails, Read, DeviceAnswers, DeviceSends, ReportLost, ForeignReport,
           Keepalive, DeviceTakes, device, vars
  <2>2. QED BY <2>1
<1>3. \A m \in made : ContFrames(m[2]) \in Nat
  <2> TAKE m \in made
  <2>1. m[2] \in Nat BY ReplyLenIs DEF Numbers
  <2>2. QED BY <2>1, ContFramesIs
<1>4. \A m \in made : ContFrames(m[2])' = ContFrames(m[2]) BY DEF ContFrames, InitData, ContData
<1>5. \A m \in made : ContFrames(m[2]) = 0 \/ loss' <= ContFrames(m[2])
  BY <1>2, <1>4 DEF FewLost
<1>6. QED BY <1>1, <1>3, <1>5 DEF FewLost

LEMMA ReplyInit == Init => ReplyInv
<1> SUFFICES ASSUME Init PROVE ReplyInv OBVIOUS
<1>1. loss = 0 /\ inq = <<>> /\ dq = <<>> /\ made = {} /\ outcome = None /\ pc = "idle" BY DEF Init
<1>2. AcceptedWhole /\ OwnReply BY <1>1 DEF None, AcceptedWhole, OwnReply
<1> DEFINE E == <<NoPart>>
<1>3. E \in Seq(Parts) /\ Len(E) = 1 /\ E[1] = NoPart /\ NoPart \in Parts BY PassingPart
<1> HIDE DEF E
<1>4. Line(made, loss, E, NoPart)
  <2>1. Made(made, NoPart) /\ Before(NoPart, NoPart) /\ Near(loss, NoPart, NoPart) /\ Ended(loss, NoPart)
    BY PassingPart
  <2>2. QED BY <1>3, <2>1 DEF Line
<1>5. Shown(E, inq) /\ Sends(dq, NoPart) BY <1>1, <1>3, PassingPart DEF Shown, Sends
<1>6. Reading(E) /\ Own(E, NoPart) BY <1>1 DEF Reading, Own
<1>7. Good(E, NoPart) BY <1>4, <1>5, <1>6 DEF Good
<1>8. QED BY <1>1, <1>2, <1>3, <1>7 DEF ReplyInv

LEMMA ReplyStep == ASSUME ReplyInv, Numbers, SendInv, [Next]_vars PROVE ReplyInv'
<1>1. loss \in Nat /\ loss' \in Nat
  <2>1. loss \in Nat BY DEF ReplyInv
  <2>2. loss' = loss \/ loss' = loss + 1
    BY DEF Next, Host, Environment, Done, Begin, TxFails, TxPreamble, TxTooLong, TxFrame, Write, RxSkip,
           RxPreamble, RxCont, RxTimeout, RxFails, Read, DeviceAnswers, DeviceSends, ReportLost, ForeignReport,
           Keepalive, vars
  <2>3. QED BY <2>1, <2>2
<1> DEFINE G == \E F \in Seq(Parts), e \in Parts : Good(F, e)'
<1> SUFFICES ASSUME FewLost' PROVE AcceptedWhole' /\ OwnReply' /\ G
  BY <1>1 DEF ReplyInv
<1>2. FewLost /\ AcceptedWhole /\ OwnReply BY <1>1, FewLostBefore DEF ReplyInv
<1>3. PICK E \in Seq(Parts), d \in Parts : Good(E, d) BY <1>2 DEF ReplyInv
<1>4. CASE Begin
  <2>1. outcome'.status # "ok" BY <1>4 DEF Begin, End, None
  <2>2. Good(E, d)' BY <1>3, <1>4, GoodBegin
  <2>3. QED BY <2>1, <2>2 DEF AcceptedWhole, OwnReply
<1>5. CASE TxFails \/ TxPreamble \/ TxTooLong \/ TxFrame \/ RxGivesUp
  <2>1. /\ pc # "idle" /\ pc' # "cont" /\ UNCHANGED <<made, loss, inq, dq, cur, quiet>>
        /\ todo' = todo \/ \E g : todo' = Append(todo, [id |-> cur, got |-> g])
    BY <1>5 DEF TxFails, TxPreamble, TxTooLong, TxFrame, RxGivesUp, RxTimeout, RxFails, Write, DeviceTakes,
                End, ToRx, clock, device
  <2>2. outcome' = outcome \/ outcome'.status # "ok"
    BY <1>5 DEF TxFails, TxPreamble, TxTooLong, TxFrame, RxGivesUp, RxTimeout, RxFails, End, ToRx
  <2>3. Good(E, d)' BY <1>3, <2>1, GoodHost
  <2>4. AcceptedWhole' /\ OwnReply' BY <1>2, <2>1, <2>2 DEF AcceptedWhole, OwnReply
  <2>5. QED BY <2>3, <2>4
<1>6. CASE RxSkip \/ RxPreamble \/ RxCont \/ RxShort
  <2>1. Good(Tail(E), d)' /\ Tail(E) \in Seq(Parts) /\ AcceptedWhole' /\ OwnReply'
    BY <1>1, <1>2, <1>3, <1>6, GoodRead
  <2>2. QED BY <2>1
<1>7. CASE Environment
  <2>1. G
    <3>1. CASE DeviceAnswers BY <1>1, <1>3, <3>1, GoodAnswered
    <3>2. CASE DeviceSends BY <1>1, <1>3, <3>2, GoodSent
    <3>3. CASE ReportLost BY <1>1, <1>3, <3>3, GoodLost
    <3>4. CASE ForeignReport \/ Keepalive BY <1>3, <3>4, GoodPassing
    <3>5. QED BY <1>7, <3>1, <3>2, <3>3, <3>4 DEF Environment
  <2>2. UNCHANGED host /\ UNCHANGED clock /\ made \subseteq made'
    BY <1>7 DEF Environment, DeviceAnswers, DeviceSends, ReportLost, ForeignReport, Keepalive, device
  <2>3. AcceptedWhole' /\ OwnReply' BY <1>2, <2>2 DEF AcceptedWhole, OwnReply, host, clock
  <2>4. QED BY <2>1, <2>3
<1>8. CASE UNCHANGED vars
  <2>1. UNCHANGED <<made, loss, inq, dq, todo, pc, cur, quiet, seq, payload, buf, outcome>>
    BY <1>8 DEF vars, host, clock, device
  <2>2. Good(E, d)' BY <1>3, <2>1 DEF Good, Reading, Own
  <2>3. AcceptedWhole' /\ OwnReply' BY <1>2, <2>1 DEF AcceptedWhole, OwnReply
  <2>4. QED BY <2>2, <2>3
<1>9. RxTimeout \/ RxFails => RxGivesUp \/ RxShort BY DEF RxGivesUp, RxShort, RxFails
<1>10. QED BY <1>4, <1>5, <1>6, <1>7, <1>8, <1>9 DEF Next, Host, Done

LEMMA ReplyAlways == Spec => []ReplyInv
<1>1. ReplyInv /\ Numbers /\ SendInv /\ [Next]_vars => ReplyInv' BY ReplyStep
<1>2. QED BY ReplyInit, NumbersAlways, SendAlways, <1>1, PTL DEF Spec

\* As long as few reports have been lost, what fido_rx delivers is one whole reply of
\* the authenticator, though others came late and lie before it in the queue.
THEOREM AcceptedWholeAlways == Spec => [](FewLost => AcceptedWhole)
<1>1. ReplyInv => (FewLost => AcceptedWhole) BY DEF ReplyInv
<1>2. QED BY ReplyAlways, <1>1, PTL

\* And it is the reply to this command, when nothing of an earlier one was left.
THEOREM OwnReplyAlways == Spec => [](FewLost => OwnReply)
<1>1. ReplyInv => (FewLost => OwnReply) BY DEF ReplyInv
<1>2. QED BY ReplyAlways, <1>1, PTL

-----------------------------------------------------------------------------
(* The message layer of HidMessage.                                        *)

First(p) == p.reply /\ p.k = 0

\* Commands whose replies have yet to be read, from the first report on.
Firsts(E, d) ==
  {E[i].id : i \in {j \in 2 .. Len(E) : First(E[j])}} \cup (IF First(d) THEN {d.id} ELSE {})

LEMMA FirstsIs ==
  ASSUME NEW E, NEW d, NEW x
  PROVE  x \in Firsts(E, d) <=> \/ \E i \in 2 .. Len(E) : First(E[i]) /\ x = E[i].id
                                \/ First(d) /\ x = d.id
BY DEF Firsts

LEMMA LineFields ==
  ASSUME NEW M, NEW l, NEW E \in Seq(Parts), NEW d \in Parts, Line(M, l, E, d)
  PROVE  /\ Len(E) \in Nat /\ Len(E) > 0 /\ E[1] \in Parts /\ Before(E[1], d)
         /\ \A i \in 2 .. Len(E) : i \in 1 .. Len(E) /\ E[i] \in Parts /\ Before(E[1], E[i]) /\ Before(E[i], d)
<1>1. Len(E) \in Nat /\ Len(E) > 0 BY DEF Line
<1>2. 1 \in 1 .. Len(E) /\ \A i \in 2 .. Len(E) : i \in 1 .. Len(E) /\ 1 < i BY <1>1
<1>3. \A i \in 1 .. Len(E) : E[i] \in Parts OBVIOUS
<1>4. QED BY <1>1, <1>2, <1>3 DEF Line

\* A reply that starts after a report of another does so for a later command.
LEMMA FirstsLater ==
  ASSUME NEW M, NEW l, NEW E \in Seq(Parts), NEW d \in Parts, Line(M, l, E, d), E[1].reply
  PROVE  E[1].id \in Nat /\ \A x \in Firsts(E, d) : x \in Nat /\ E[1].id < x
<1>1. /\ E[1] \in Parts /\ Before(E[1], d)
      /\ \A i \in 2 .. Len(E) : E[i] \in Parts /\ Before(E[1], E[i])
  BY LineFields
<1>2. \A p \in Parts : Before(E[1], p) /\ First(p) => p.id \in Nat /\ E[1].id < p.id
  <2> SUFFICES ASSUME NEW p \in Parts, Before(E[1], p), First(p) PROVE p.id \in Nat /\ E[1].id < p.id
    OBVIOUS
  <2> DEFINE o == E[1]
  <2>1. o \in Parts /\ o.reply /\ Before(o, p) BY <1>1
  <2> HIDE DEF o
  <2>2. p.reply /\ p.k = 0 /\ o.k \in Nat /\ p.id \in Nat BY <2>1, PartFields DEF First
  <2>3. o.id < p.id BY <2>1, <2>2 DEF Before
  <2>4. QED BY <2>2, <2>3 DEF o
<1>3. E[1].id \in Nat BY <1>1, PartFields
<1>4. QED BY <1>1, <1>2, <1>3, FirstsIs

LEMMA FirstsRead ==
  ASSUME NEW E \in Seq(Parts), NEW d, Len(E) > 1
  PROVE  Firsts(E, d) = Firsts(Tail(E), d) \cup (IF First(E[2]) THEN {E[2].id} ELSE {})
<1> DEFINE N == Len(E)
           F == Tail(E)
<1>1. N \in Nat /\ N > 1 /\ Len(F) = N - 1 /\ \A i \in 1 .. N - 1 : F[i] = E[i + 1] OBVIOUS
<1> HIDE DEF N, F
<1>2. ASSUME NEW x
      PROVE  (\E i \in 2 .. N : First(E[i]) /\ x = E[i].id)
             <=> (\E i \in 2 .. N - 1 : First(F[i]) /\ x = F[i].id) \/ (First(E[2]) /\ x = E[2].id)
  <2>1. \A i \in 2 .. N - 1 : i + 1 \in 2 .. N /\ F[i] = E[i + 1] BY <1>1
  <2>2. \A i \in 2 .. N : i = 2 \/ (i - 1 \in 2 .. N - 1 /\ F[i - 1] = E[i])
    <3> TAKE i \in 2 .. N
    <3>1. CASE i # 2
      <4>1. i - 1 \in 2 .. N - 1 /\ i - 1 \in 1 .. N - 1 /\ (i - 1) + 1 = i BY <1>1, <3>1
      <4>2. QED BY <1>1, <4>1
    <3>2. QED BY <3>1
  <2>3. 2 \in 2 .. N BY <1>1
  <2>4. QED BY <2>1, <2>2, <2>3
<1>3. \A x : x \in Firsts(E, d)
             <=> x \in Firsts(F, d) \/ (First(E[2]) /\ x = E[2].id)
  <2> TAKE x
  <2>1. x \in Firsts(E, d) <=> (\E i \in 2 .. N : First(E[i]) /\ x = E[i].id) \/ (First(d) /\ x = d.id)
    BY DEF Firsts, N
  <2>2. x \in Firsts(F, d) <=> (\E i \in 2 .. Len(F) : First(F[i]) /\ x = F[i].id) \/ (First(d) /\ x = d.id)
    BY DEF Firsts
  <2>3. Len(F) = N - 1 BY <1>1
  <2>4. QED BY <1>2, <2>1, <2>2, <2>3
<1>4. QED BY <1>3 DEF F

LEMMA FirstsQueued ==
  ASSUME NEW E \in Seq(Parts), Len(E) > 0, NEW d, NEW e \in Parts
  PROVE  /\ First(e) => Firsts(Append(E, e), d) = Firsts(E, d) \cup {e.id}
         /\ ~First(e) => Firsts(Append(E, e), d) = Firsts(E, d)
<1> DEFINE N == Len(E)
           F == Append(E, e)
<1>1. N \in Nat /\ N > 0 /\ Len(F) = N + 1 /\ F[N + 1] = e /\ \A i \in 1 .. N : F[i] = E[i] OBVIOUS
<1> HIDE DEF N, F
<1>2. \A i \in 2 .. N + 1 : i = N + 1 \/ (i \in 2 .. N /\ F[i] = E[i]) BY <1>1
<1>3. \A i \in 2 .. N : i \in 2 .. N + 1 /\ F[i] = E[i] BY <1>1
<1>4. N + 1 \in 2 .. N + 1 BY <1>1
<1>5. \A x : x \in Firsts(F, d) <=> x \in Firsts(E, d) \/ (First(e) /\ x = e.id)
  BY <1>1, <1>2, <1>3, <1>4, FirstsIs DEF N
<1>6. QED BY <1>5 DEF F

\* A reply of at least a byte shows whose it is.
LEMMA FirstTells ==
  ASSUME NEW p \in Parts, First(p), p.n \in ReplyLens, p.n # 0, NEW f, Shows(p, f)
  PROVE  IsReply(f) /\ IdOf(f) = p.id
<1>1. p = Part(p.id, p.n, 0) BY DEF Parts, Part, First
<1>2. p.id \in Nat /\ p.n \in Nat /\ p.n # 0 /\ InitData \in Nat \ {0} BY PartFields, Sizes
<1>3. f = FrameOf(Part(p.id, p.n, 0)) BY <1>1, Zenon DEF Shows, First
<1>4. /\ f.cid = Cid /\ f.type = 144
      /\ p.n <= InitData => SubSeq(f.data, 1, p.n) = Bytes(p.id, p.n)
      /\ p.n > InitData => f.data = Bytes(p.id, InitData)
  BY <1>2, <1>3, FirstShown
<1>5. f.data[1] = <<p.id, 1>>
  <2>1. \A k \in Nat \ {0} : Bytes(p.id, k)[1] = <<p.id, 1>> BY DEF Bytes
  <2>2. CASE p.n <= InitData
    <3>1. SubSeq(f.data, 1, p.n)[1] = f.data[1] BY <1>2
    <3>2. QED BY <1>2, <1>4, <2>1, <2>2, <3>1
  <2>3. CASE p.n > InitData BY <1>2, <1>4, <2>1, <2>3
  <2>4. QED BY <1>2, <2>2, <2>3
<1>6. QED BY <1>4, <1>5 DEF IsReply, IdOf, CTAP_FRAME_INIT, CTAP_CMD_CBOR

LEMMA OthersTell ==
  ASSUME NEW p \in Parts, ~First(p), p.reply => p.k <= 128, NEW f, Shows(p, f)
  PROVE  ~IsReply(f)
<1>1. CASE p.reply
  <2>1. f.type = p.k - 1 /\ p.k \in Nat /\ p.k <= 128 BY <1>1, NextType, PartFields DEF First, Shows
  <2>2. QED BY <2>1 DEF IsReply, CTAP_FRAME_INIT, CTAP_CMD_CBOR
<1>2. CASE ~p.reply
  <2>1. f \in Passing BY <1>2 DEF Shows
  <2>2. f.cid # Cid \/ f.type \in {187, 191} BY <2>1, PassingIs
  <2>3. QED BY <2>2 DEF IsReply, CTAP_FRAME_INIT, CTAP_CMD_CBOR
<1>3. QED BY <1>1, <1>2

\* The commands whose replies start in one of the reports on their way.
IdsIn(q, r) ==
  {IdOf(f) : f \in {g \in {q[i] : i \in 1 .. Len(q)} \cup {r[i] : i \in 1 .. Len(r)} : IsReply(g)}}

LEMMA FirstsFromReports ==
  ASSUME NEW M \in SUBSET (Nat \X ReplyLens), NEW l, NEW E \in Seq(Parts), NEW d \in Parts, Line(M, l, E, d),
         NEW q, NEW r, Shown(E, q), Sends(r, d), 0 \notin ReplyLens
  PROVE  IdsIn(q, r) = Firsts(E, d)
<1>1. \A p \in Parts : Made(M, p) /\ p.reply => p.n \in ReplyLens /\ p.n # 0 /\ p.k <= 128
  <2> SUFFICES ASSUME NEW p \in Parts, Made(M, p), p.reply PROVE p.n \in ReplyLens /\ p.n # 0 /\ p.k <= 128
    OBVIOUS
  <2>1. <<p.id, p.n>> \in M /\ p.k <= ContFrames(p.n) BY DEF Made
  <2>2. p.n \in ReplyLens BY <2>1
  <2>3. ContFrames(p.n) <= 128 BY <2>2, ReplyLenIs
  <2>4. QED BY <2>1, <2>2, <2>3, PartFields
<1>2. Len(E) = Len(q) + 1 /\ Len(q) \in Nat /\ Len(r) \in Nat BY DEF Shown, Sends
<1>3. \A i \in 1 .. Len(q) : /\ i + 1 \in 2 .. Len(E)
                             /\ IsReply(q[i]) <=> First(E[i + 1])
                             /\ First(E[i + 1]) => IdOf(q[i]) = E[i + 1].id
  <2> TAKE i \in 1 .. Len(q)
  <2> DEFINE p == E[i + 1]
             f == q[i]
  <2>1. i + 1 \in 2 .. Len(E) /\ i + 1 \in 1 .. Len(E) BY <1>2
  <2>2. p \in Parts /\ Made(M, p) /\ Shows(p, f) BY <2>1 DEF Line, Shown
  <2> HIDE DEF p, f
  <2>3. CASE First(p)
    <3>1. p.n \in ReplyLens /\ p.n # 0 BY <1>1, <2>2, <2>3 DEF First
    <3>2. IsReply(f) /\ IdOf(f) = p.id BY <2>2, <2>3, <3>1, FirstTells
    <3>3. QED BY <2>1, <2>3, <3>2 DEF p, f
  <2>4. CASE ~First(p)
    <3>1. ~IsReply(f) BY <1>1, <2>2, <2>4, OthersTell
    <3>2. QED BY <2>1, <2>4, <3>1 DEF p, f
  <2>5. QED BY <2>3, <2>4
<1>4. \A j \in 1 .. Len(r) : /\ IsReply(r[j]) <=> First(d) /\ j = 1
                             /\ First(d) /\ j = 1 => IdOf(r[j]) = d.id
  <2> SUFFICES ASSUME NEW j \in 1 .. Len(r)
               PROVE  /\ IsReply(r[j]) <=> First(d) /\ j = 1
                      /\ First(d) /\ j = 1 => IdOf(r[j]) = d.id
    OBVIOUS
  <2> DEFINE f == r[j]
  <2>1. CASE d.reply
    <3> DEFINE p == Part(d.id, d.n, d.k + j - 1)
    <3>1. Made(M, d) /\ d.id \in Nat /\ d.n \in Nat /\ d.k \in Nat /\ ContFrames(d.n) \in Nat
      BY PartFields DEF Line
    <3>2. Len(r) = ContFrames(d.n) + 1 - d.k /\ f = FrameOf(p) BY <2>1 DEF Sends
    <3>3. d.k + j - 1 \in Nat /\ d.k + j - 1 <= ContFrames(d.n) BY <3>1, <3>2
    <3>4. p \in Parts /\ p.reply /\ p.id = d.id /\ p.n = d.n /\ p.k = d.k + j - 1 BY <3>1, <3>3 DEF Part, Parts
    <3> HIDE DEF p, f
    <3>5. Made(M, p) BY <2>1, <3>1, <3>3, <3>4 DEF Made
    <3>6. Shows(p, f) BY <3>2, <3>4 DEF Shows
    <3>7. First(p) <=> First(d) /\ j = 1 BY <2>1, <3>1, <3>4 DEF First
    <3>8. CASE First(p)
      <4>1. p.n \in ReplyLens /\ p.n # 0 BY <1>1, <3>4, <3>5
      <4>2. IsReply(f) /\ IdOf(f) = p.id BY <3>4, <3>6, <3>8, <4>1, FirstTells
      <4>3. QED BY <3>4, <3>7, <3>8, <4>2 DEF f
    <3>9. CASE ~First(p)
      <4>1. ~IsReply(f) BY <1>1, <3>4, <3>5, <3>6, <3>9, OthersTell
      <4>2. QED BY <3>7, <3>9, <4>1 DEF f
    <3>10. QED BY <3>8, <3>9
  <2>2. CASE ~d.reply
    <3>1. ~First(d) BY <2>2 DEF First
    <3>2. Len(r) = 1 /\ r[1] \in Passing BY <1>2, <2>2 DEF Sends
    <3>3. Shows(d, f) /\ j = 1 BY <2>2, <3>2 DEF Shows
    <3> HIDE DEF f
    <3>4. ~IsReply(f) BY <2>2, <3>1, <3>3, OthersTell
    <3>5. QED BY <3>1, <3>4 DEF f
  <2>3. QED BY <2>1, <2>2
<1>5. First(d) => 1 \in 1 .. Len(r)
  <2> SUFFICES ASSUME First(d) PROVE 1 \in 1 .. Len(r) OBVIOUS
  <2>1. Len(r) = ContFrames(d.n) + 1 - 0 /\ ContFrames(d.n) \in Nat BY PartFields DEF First, Sends
  <2>2. QED BY <2>1
<1> DEFINE G == {q[i] : i \in 1 .. Len(q)} \cup {r[i] : i \in 1 .. Len(r)}
           P == {IdOf(f) : f \in {g \in G : IsReply(g)}}
<1>6. ASSUME NEW x \in P PROVE x \in Firsts(E, d)
  <2>1. PICK f \in G : IsReply(f) /\ x = IdOf(f) BY <1>6
  <2>2. CASE \E i \in 1 .. Len(q) : f = q[i]
    <3>1. PICK i \in 1 .. Len(q) : f = q[i] BY <2>2
    <3>2. i + 1 \in 2 .. Len(E) /\ First(E[i + 1]) /\ x = E[i + 1].id BY <1>3, <2>1, <3>1
    <3>3. QED BY <3>2 DEF Firsts
  <2>3. CASE \E i \in 1 .. Len(r) : f = r[i]
    <3>1. PICK i \in 1 .. Len(r) : f = r[i] BY <2>3
    <3>2. First(d) /\ x = d.id BY <1>4, <2>1, <3>1
    <3>3. QED BY <3>2 DEF Firsts
  <2>4. QED BY <2>1, <2>2, <2>3
<1>7. ASSUME NEW x \in Firsts(E, d) PROVE x \in P
  <2>1. CASE First(d) /\ x = d.id
    <3>1. r[1] \in G /\ IsReply(r[1]) /\ x = IdOf(r[1]) BY <1>4, <1>5, <2>1
    <3>2. QED BY <3>1
  <2>2. CASE \E i \in 2 .. Len(E) : First(E[i]) /\ x = E[i].id
    <3>1. PICK i \in 2 .. Len(E) : First(E[i]) /\ x = E[i].id BY <2>2
    <3>2. i - 1 \in 1 .. Len(q) /\ (i - 1) + 1 = i BY <1>2
    <3>3. q[i - 1] \in G /\ IsReply(q[i - 1]) /\ x = IdOf(q[i - 1]) BY <1>3, <3>1, <3>2
    <3>4. QED BY <3>3
  <2>3. QED BY <2>1, <2>2 DEF Firsts
<1>8. QED BY <1>6, <1>7 DEF IdsIn

\* Of a line, what is pending.
Outstanding(E, d, c) == Firsts(E, d) \cup (IF c THEN {E[1].id} ELSE {})

LEMMA FirstByte ==
  ASSUME NEW p \in Parts, NEW k \in Nat \ {0}
  PROVE  Bytes(p.id, Offset(k))[1][1] = p.id
<1>1. Offset(k) \in Nat /\ Offset(k) >= InitData /\ InitData \in Nat \ {0} BY OffsetIs, Sizes
<1> DEFINE o == Offset(k)
<1> HIDE DEF o
<1>2. 1 \in 1 .. o BY <1>1 DEF o
<1>3. Bytes(p.id, o)[1] = <<p.id, 1>> BY <1>2 DEF Bytes
<1>4. QED BY <1>3 DEF o

LEMMA PendingIs ==
  ASSUME NEW E \in Seq(Parts), NEW d \in Parts, Good(E, d), Numbers, 0 \notin ReplyLens
  PROVE  Pending = Outstanding(E, d, pc = "cont")
<1>1. Line(made, loss, E, d) /\ Shown(E, inq) /\ Sends(dq, d) /\ Reading(E) BY DEF Good
<1>2. made \in SUBSET (Nat \X ReplyLens) BY DEF Numbers
<1>3. IdsIn(inq, dq) = Firsts(E, d) BY <1>1, <1>2, FirstsFromReports
<1>4. pc = "cont" => buf[1][1] = E[1].id
  <2> SUFFICES ASSUME pc = "cont" PROVE buf[1][1] = E[1].id OBVIOUS
  <2>1. E[1] \in Parts BY <1>1, LineFields
  <2>2. buf = Bytes(E[1].id, Offset(seq + 1)) /\ seq + 1 \in Nat \ {0}
    <3>1. seq = E[1].k BY <1>1 DEF Reading
    <3>2. QED BY <1>1, <2>1, <3>1, PartFields DEF Reading
  <2>3. QED BY <2>1, <2>2, FirstByte
<1>5. QED BY <1>3, <1>4 DEF Pending, Outstanding, Reports, IdsIn

PendingFact ==
  \A F \in Seq(Parts), e \in Parts :
    Good(F, e) /\ Numbers /\ 0 \notin ReplyLens => Pending = Outstanding(F, e, pc = "cont")

LEMMA PendingAll == PendingFact
BY PendingIs DEF PendingFact

LEMMA PendingNext ==
  ASSUME NEW E \in Seq(Parts), NEW d \in Parts, Good(E, d)', Numbers', 0 \notin ReplyLens
  PROVE  Pending' = Outstanding(E, d, pc' = "cont")
<1>1. PendingFact' BY PendingAll, PTL
<1>2. QED BY <1>1 DEF PendingFact, Outstanding, Firsts, First

\* What the last command delivered, and who was answered.
Got      == IF outcome.status = "ok" THEN outcome.bytes[1][1] ELSE 0
Answered == {m[1] : m \in made}

MessageStep == [Message!Next]_(Message!vars)

LEMMA SameMessages ==
  ASSUME pc = "idle" <=> pc' = "idle", cur' = cur, made' = made, Pending' = Pending, outcome' = outcome
  PROVE  MessageStep
BY DEF MessageStep, Message!vars

LEMMA StartsMessage ==
  ASSUME Begin, Pending' = Pending
  PROVE  MessageStep
<1>1. pc = "idle" /\ cur < MaxCmds /\ cur' = cur + 1 /\ made' = made /\ Got' = 0
  BY DEF Begin, End, None, device, Got
<1>2. Message!Start BY <1>1 DEF Message!Start, Got
<1>3. QED BY <1>2 DEF MessageStep, Message!Next

LEMMA FailsMessage ==
  ASSUME pc # "idle", pc' = "idle", outcome'.status # "ok", cur' = cur, made' = made,
         Pending' = Pending \/ \E j, k \in Pending : Pending' = Pending \ {j, k}
  PROVE  MessageStep
<1>1. Message!Fail BY DEF Message!Fail
<1>2. QED BY <1>1 DEF MessageStep, Message!Next

LEMMA DeliversMessage ==
  ASSUME pc # "idle", pc' = "idle", cur' = cur, made' = made, NEW k \in Pending, Got' = k,
         \A j \in Pending : k <= j, Pending' = Pending \ {k}
  PROVE  MessageStep
<1>1. Message!Deliver(k) BY DEF Message!Deliver, Got
<1>2. QED BY <1>1 DEF MessageStep, Message!Next

LEMMA LosesMessage ==
  ASSUME UNCHANGED host, made' = made, NEW k \in Pending, Pending' = Pending \ {k}
  PROVE  MessageStep
<1>1. Message!Lose(k) BY DEF Message!Lose, host
<1>2. QED BY <1>1 DEF MessageStep, Message!Next

LEMMA AnswersMessage ==
  ASSUME UNCHANGED host, NEW k \in 1 .. cur, NEW n, made' = made \cup {<<k, n>>},
         \A m \in made : m[1] < k, Pending' = Pending \cup {k}
  PROVE  MessageStep
<1>1. Answered' = Answered \cup {k}
  <2>1. <<k, n>>[1] = k /\ Answered' = {m[1] : m \in made \cup {<<k, n>>}} BY DEF Answered
  <2>2. QED BY <2>1 DEF Answered
<1>2. Message!Answer(k)
  <2>1. \A j \in Answered : j < k BY DEF Answered
  <2>2. QED BY <1>1, <2>1 DEF Message!Answer, Answered, host
<1>3. QED BY <1>2 DEF MessageStep, Message!Next

\* Reports read, and those before the report the host is at.
LEMMA ReadMessage ==
  ASSUME NEW E \in Seq(Parts), NEW d \in Parts, Good(E, d), Numbers, FewLost, loss \in Nat,
         Numbers', Good(Tail(E), d)', 0 \notin ReplyLens, RxSkip \/ RxPreamble \/ RxCont \/ RxShort
  PROVE  MessageStep
<1> DEFINE F == Tail(E)
           p == E[1]
           r == E[2]
           R == Firsts(F, d)
<1>1. /\ Len(E) > 1 /\ p \in Parts /\ r \in Parts /\ Shows(r, Head(inq))
      /\ F \in Seq(Parts) /\ F[1] = r /\ Line(made', loss', F, d)
  BY LineRx
<1>2. inq # <<>> /\ pc # "idle" /\ made' = made /\ cur' = cur
  BY DEF RxSkip, RxPreamble, RxCont, RxShort, RxFails, Read, device
<1>3. Line(made, loss, E, d) /\ Reading(E) BY DEF Good
<1>4. Made(made, r)
  <2>1. 2 \in 1 .. Len(E) BY <1>1
  <2>2. QED BY <1>3, <2>1 DEF Line
<1>5. /\ Pending = (R \cup (IF First(r) THEN {r.id} ELSE {})) \cup (IF pc = "cont" THEN {p.id} ELSE {})
      /\ Pending' = R \cup (IF pc' = "cont" THEN {r.id} ELSE {})
  <2>1. Pending = Firsts(E, d) \cup (IF pc = "cont" THEN {p.id} ELSE {}) BY PendingIs DEF Outstanding
  <2>2. Firsts(E, d) = R \cup (IF First(r) THEN {r.id} ELSE {}) BY <1>1, FirstsRead
  <2>3. Pending' = R \cup (IF pc' = "cont" THEN {r.id} ELSE {}) BY <1>1, PendingNext DEF Outstanding
  <2>4. QED BY <2>1, <2>2, <2>3
<1>6. r.reply => r.id \in Nat /\ \A x \in R : x \in Nat /\ r.id < x BY <1>1, FirstsLater
<1>7. p.reply => /\ p.id \in Nat /\ \A x \in R : x \in Nat /\ p.id < x
                 /\ First(r) => r.id \in Nat /\ p.id < r.id
  <2>1. p.reply => p.id \in Nat /\ \A x \in Firsts(E, d) : x \in Nat /\ p.id < x BY <1>3, FirstsLater
  <2>2. Firsts(E, d) = R \cup (IF First(r) THEN {r.id} ELSE {}) BY <1>1, FirstsRead
  <2>3. QED BY <2>1, <2>2
<1>8. ASSUME NEW x \in Parts, <<x.id, x.n>> \in made,
             outcome' = [status |-> "ok", bytes |-> Bytes(x.id, x.n)]
      PROVE  Got' = x.id
  <2>1. x.n \in Nat /\ x.n # 0
    <3>1. x.n \in ReplyLens BY <1>8 DEF Numbers
    <3>2. QED BY <3>1, ReplyLenIs
  <2>2. Bytes(x.id, x.n)[1][1] = x.id BY <2>1 DEF Bytes
  <2>3. QED BY <1>8, <2>2 DEF Got
<1> HIDE DEF F, p, r, R
<1>9. CASE RxSkip
  <2>1. pc = "rx" /\ pc' = "rx" /\ outcome' = outcome /\ Skipped(Head(inq)) BY <1>9 DEF RxSkip
  <2>2. ~First(r)
    <3> SUFFICES ASSUME First(r) PROVE FALSE OBVIOUS
    <3>1. Head(inq) = FrameOf(r) /\ r.k = 0 BY <1>1 DEF First, Shows
    <3>2. Head(inq).cid = Cid /\ Head(inq).type = 144 BY <3>1, FirstType
    <3>3. QED BY <2>1, <3>2 DEF Skipped, IsKeepalive, CTAP_FRAME_INIT, CTAP_KEEPALIVE
  <2>3. Pending' = Pending BY <1>5, <2>1, <2>2
  <2>4. QED BY <1>2, <2>1, <2>3, SameMessages
<1>10. CASE RxPreamble
  <2>1. pc = "rx" BY <1>10 DEF RxPreamble
  <2>2. \/ pc' = "idle" /\ outcome'.status = "rx"
        \/ /\ r.reply /\ r.k = 0 /\ <<r.id, r.n>> \in made
           /\ \/ pc' = "idle" /\ outcome' = [status |-> "ok", bytes |-> Bytes(r.id, r.n)]
              \/ pc' = "cont" /\ outcome' = outcome
    BY <1>1, <1>2, <1>4, <1>10, PreambleIs
  <2>3. CASE pc' = "idle" /\ outcome'.status = "rx"
    <3>1. CASE First(r)
      <4>1. Pending' = Pending \ {r.id, r.id} /\ r.id \in Pending BY <1>5, <1>6, <2>1, <2>3, <3>1 DEF First
      <4>2. QED BY <1>2, <2>3, <4>1, FailsMessage
    <3>2. CASE ~First(r)
      <4>1. Pending' = Pending BY <1>5, <2>1, <2>3, <3>2
      <4>2. QED BY <1>2, <2>3, <4>1, FailsMessage
    <3>3. QED BY <3>1, <3>2
  <2>4. CASE First(r) /\ <<r.id, r.n>> \in made /\ pc' = "idle"
             /\ outcome' = [status |-> "ok", bytes |-> Bytes(r.id, r.n)]
    <3>1. r.id \in Pending /\ Pending' = Pending \ {r.id} /\ \A j \in Pending : r.id <= j
      BY <1>5, <1>6, <2>1, <2>4 DEF First
    <3>2. Got' = r.id BY <1>1, <1>8, <2>4
    <3>3. QED BY <1>2, <2>4, <3>1, <3>2, DeliversMessage
  <2>5. CASE First(r) /\ pc' = "cont" /\ outcome' = outcome
    <3>1. Pending' = Pending BY <1>5, <2>1, <2>5
    <3>2. QED BY <1>2, <2>5, <3>1, SameMessages
  <2>6. QED BY <2>2, <2>3, <2>4, <2>5 DEF First
<1>11. CASE RxCont
  <2>1. pc = "cont" BY <1>11 DEF RxCont
  <2>2. p.reply BY <1>3, <2>1 DEF Reading, p
  <2>3. \/ pc' = "idle" /\ outcome'.status = "rx"
        \/ /\ r.id = p.id /\ ~First(r) /\ <<p.id, p.n>> \in made
           /\ \/ pc' = "idle" /\ outcome' = [status |-> "ok", bytes |-> Bytes(p.id, p.n)]
              \/ pc' = "cont" /\ outcome' = outcome
    BY <1>11, ContIs DEF p, r, First
  <2>4. CASE pc' = "idle" /\ outcome'.status = "rx"
    <3>1. CASE First(r)
      <4>1. Pending' = Pending \ {p.id, r.id} /\ {p.id, r.id} \subseteq Pending
        BY <1>5, <1>6, <1>7, <2>1, <2>2, <2>4, <3>1 DEF First
      <4>2. QED BY <1>2, <2>4, <4>1, FailsMessage
    <3>2. CASE ~First(r)
      <4>1. Pending' = Pending \ {p.id, p.id} /\ p.id \in Pending BY <1>5, <1>7, <2>1, <2>2, <2>4, <3>2
      <4>2. QED BY <1>2, <2>4, <4>1, FailsMessage
    <3>3. QED BY <3>1, <3>2
  <2>5. CASE ~First(r) /\ <<p.id, p.n>> \in made /\ pc' = "idle"
             /\ outcome' = [status |-> "ok", bytes |-> Bytes(p.id, p.n)]
    <3>1. p.id \in Pending /\ Pending' = Pending \ {p.id} /\ \A j \in Pending : p.id <= j
      BY <1>5, <1>7, <2>1, <2>2, <2>5
    <3>2. Got' = p.id BY <1>1, <1>8, <2>5
    <3>3. QED BY <1>2, <2>5, <3>1, <3>2, DeliversMessage
  <2>6. CASE r.id = p.id /\ ~First(r) /\ pc' = "cont" /\ outcome' = outcome
    <3>1. Pending' = Pending BY <1>5, <2>1, <2>6
    <3>2. QED BY <1>2, <2>1, <2>6, <3>1, SameMessages
  <2>7. QED BY <2>3, <2>4, <2>5, <2>6
<1>12. CASE RxShort
  <2>1. pc' = "idle" /\ outcome'.status # "ok" BY <1>12 DEF RxShort, RxFails, End
  <2>2. pc = "cont" => p.reply BY <1>3 DEF Reading, p
  <2> DEFINE j == IF pc = "cont" THEN p.id ELSE r.id
             k == IF First(r) THEN r.id ELSE p.id
  <2>3. CASE pc = "cont" \/ First(r)
    <3>1. Pending' = Pending \ {j, k} /\ {j, k} \subseteq Pending
      BY <1>5, <1>6, <1>7, <2>1, <2>2, <2>3 DEF First
    <3>2. QED BY <1>2, <2>1, <3>1, FailsMessage
  <2>4. CASE ~(pc = "cont" \/ First(r))
    <3>1. Pending' = Pending BY <1>5, <2>1, <2>4
    <3>2. QED BY <1>2, <2>1, <3>1, FailsMessage
  <2>5. QED BY <2>3, <2>4
<1>13. QED BY <1>9, <1>10, <1>11, <1>12

\* A wait for the rest of a reply that ends gives up that reply.
LEMMA TimeoutMessage ==
  ASSUME NEW E \in Seq(Parts), NEW d \in Parts, Good(E, d), Numbers, Numbers', Good(E, d)',
         0 \notin ReplyLens, RxGivesUp
  PROVE  MessageStep
<1> DEFINE p == E[1]
           R == Firsts(E, d)
<1>1. pc # "idle" /\ pc' = "idle" /\ outcome'.status = "rx" /\ cur' = cur /\ made' = made
  BY DEF RxGivesUp, RxTimeout, RxFails, End, device
<1>2. Pending = R \cup (IF pc = "cont" THEN {p.id} ELSE {}) /\ Pending' = R
  BY <1>1, PendingIs, PendingNext DEF Outstanding
<1>3. Line(made, loss, E, d) /\ (pc = "cont" => p.reply) BY DEF Good, Reading
<1>4. pc = "cont" => p.id \in Nat /\ \A x \in R : x \in Nat /\ p.id < x BY <1>3, FirstsLater
<1> HIDE DEF p, R
<1>5. CASE pc = "cont"
  <2>1. Pending' = Pending \ {p.id, p.id} /\ p.id \in Pending BY <1>2, <1>4, <1>5
  <2>2. QED BY <1>1, <2>1, FailsMessage
<1>6. CASE pc # "cont"
  <2>1. Pending' = Pending BY <1>2, <1>6
  <2>2. QED BY <1>1, <2>1, FailsMessage
<1>7. QED BY <1>5, <1>6

\* The environment's steps.
LEMMA EnvironmentMessage ==
  ASSUME NEW E \in Seq(Parts), NEW d \in Parts, Good(E, d), Numbers, SendInv, Numbers', loss \in Nat,
         0 \notin ReplyLens, Environment
  PROVE  MessageStep
<1> DEFINE c == pc = "cont"
<1>1. UNCHANGED host /\ (pc' = "cont") = c
  BY DEF Environment, DeviceAnswers, DeviceSends, ReportLost, ForeignReport, Keepalive, host
<1>2. Line(made, loss, E, d) /\ (c => E[1].reply) BY DEF Good, Reading
<1>3. Len(E) > 0 /\ Len(E) \in Nat /\ E[1] \in Parts /\ Before(E[1], d)
      /\ \A i \in 2 .. Len(E) : E[i] \in Parts /\ Before(E[i], d)
  BY <1>2, LineFields
<1>4. Pending = Outstanding(E, d, c) BY PendingIs
<1>5. ASSUME Pending' = Pending, made' = made PROVE MessageStep
  BY <1>1, <1>5, SameMessages DEF host
<1>6. ~First(NextPart(d)) BY NextPartIs, PartFields DEF First
<1>7. CASE DeviceSends
  <2> DEFINE F == Append(E, d)
             e == NextPart(d)
  <2>1. F \in Seq(Parts) /\ e \in Parts /\ Good(F, e)' /\ made' = made
    BY <1>7, GoodSent DEF DeviceSends
  <2>2. Pending' = Outstanding(F, e, c) BY <1>1, <2>1, PendingNext
  <2>3. F[1] = E[1] BY <1>3
  <2>4. Firsts(F, e) = Firsts(E, d)
    <3>1. /\ First(d) => Firsts(F, e) = Firsts(E, e) \cup {d.id}
          /\ ~First(d) => Firsts(F, e) = Firsts(E, e)
      BY <1>3, FirstsQueued
    <3>2. QED BY <1>6, <3>1 DEF Firsts
  <2>5. Pending' = Pending BY <1>4, <2>2, <2>3, <2>4 DEF Outstanding
  <2>6. QED BY <1>5, <2>1, <2>5
<1>8. CASE ForeignReport \/ Keepalive
  <2> DEFINE F == Append(E, NoPart)
  <2>1. F \in Seq(Parts) /\ Good(F, d)' /\ made' = made
    BY <1>8, GoodPassing DEF ForeignReport, Keepalive, device
  <2>2. Pending' = Outstanding(F, d, c) BY <1>1, <2>1, PendingNext
  <2>3. F[1] = E[1] BY <1>3
  <2>4. Firsts(F, d) = Firsts(E, d)
    <3>1. NoPart \in Parts /\ ~First(NoPart) BY DEF NoPart, Parts, First
    <3>2. QED BY <1>3, <3>1, FirstsQueued
  <2>5. Pending' = Pending BY <1>4, <2>2, <2>3, <2>4 DEF Outstanding
  <2>6. QED BY <1>5, <2>1, <2>5
<1>9. CASE ReportLost
  <2> DEFINE e == NextPart(d)
             R == {E[i].id : i \in {j \in 2 .. Len(E) : First(E[j])}}
  <2>1. e \in Parts /\ Good(E, e)' /\ made' = made BY <1>9, GoodLost DEF ReportLost
  <2>2. Pending' = Outstanding(E, e, c) BY <1>1, <2>1, PendingNext
  <2>3. Firsts(E, e) = R /\ Firsts(E, d) = R \cup (IF First(d) THEN {d.id} ELSE {})
    BY <1>6 DEF Firsts
  <2>4. CASE First(d)
    <3>1. \A q \in Parts : Before(q, d) /\ q.reply => q.id # d.id
      <4> SUFFICES ASSUME NEW q \in Parts, Before(q, d), q.reply PROVE q.id # d.id OBVIOUS
      <4>1. q.k \in Nat /\ q.id \in Nat /\ d.id \in Nat BY PartFields
      <4>2. QED BY <2>4, <4>1 DEF Before, First
    <3>2. \A x \in R : x # d.id BY <1>3, <3>1 DEF First
    <3>3. c => E[1].id # d.id BY <1>2, <1>3, <3>1
    <3> HIDE DEF R
    <3>4. Pending' = Pending \ {d.id} /\ d.id \in Pending
      BY <1>4, <2>2, <2>3, <2>4, <3>2, <3>3 DEF Outstanding
    <3>5. QED BY <1>1, <2>1, <3>4, LosesMessage
  <2>5. CASE ~First(d)
    <3>1. Pending' = Pending BY <1>4, <2>2, <2>3, <2>5 DEF Outstanding
    <3>2. QED BY <1>5, <2>1, <3>1
  <2>6. QED BY <2>4, <2>5
<1>10. CASE DeviceAnswers
  <2>1. PICK e \in Parts :
           /\ ~d.reply /\ Good(E, e)'
           /\ \/ ~e.reply /\ made' = made
              \/ e.reply /\ e.k = 0 /\ e.id \in 1 .. cur /\ made' = made \cup {<<e.id, e.n>>}
                 /\ \A m \in made : m[1] < e.id
    BY <1>10, GoodAnswered
  <2>2. Pending' = Outstanding(E, e, c) BY <1>1, <2>1, PendingNext
  <2>3. CASE ~e.reply /\ made' = made
    <3>1. Pending' = Pending BY <1>4, <2>1, <2>2, <2>3 DEF Outstanding, Firsts, First
    <3>2. QED BY <1>5, <2>3, <3>1
  <2>4. CASE e.reply /\ e.k = 0 /\ e.id \in 1 .. cur /\ made' = made \cup {<<e.id, e.n>>}
             /\ \A m \in made : m[1] < e.id
    <3>1. Pending' = Pending \cup {e.id} BY <1>4, <2>1, <2>2, <2>4 DEF Outstanding, Firsts, First
    <3>2. QED BY <1>1, <2>4, <3>1, AnswersMessage
  <2>5. QED BY <2>1, <2>3, <2>4
<1>11. QED BY <1>7, <1>8, <1>9, <1>10 DEF Environment

LEMMA PendingKept ==
  ASSUME inq' = inq, dq' = dq, pc # "cont", pc' # "cont"
  PROVE  Pending' = Pending
BY DEF Pending, Reports, IsReply, IdOf

\* Every step of the report layer is one of the message layer, or none.
LEMMA RefinesStep ==
  ASSUME ReplyInv, ReplyInv', Numbers, Numbers', SendInv, FewLost, FewLost', 0 \notin ReplyLens, [Next]_vars
  PROVE  MessageStep
<1>1. loss \in Nat /\ AcceptedWhole /\ OwnReply BY DEF ReplyInv
<1>2. PICK E \in Seq(Parts), d \in Parts : Good(E, d) BY DEF ReplyInv
<1>3. CASE Begin
  <2>1. inq' = inq /\ dq' = dq /\ pc # "cont" /\ pc' # "cont" BY <1>3 DEF Begin, End, device
  <2>2. QED BY <1>3, <2>1, PendingKept, StartsMessage
<1>4. CASE TxPreamble \/ TxFrame
  <2>1. /\ inq' = inq /\ dq' = dq /\ pc = "tx" /\ pc' \in {"tx", "rx"}
        /\ outcome' = outcome /\ cur' = cur /\ made' = made
    BY <1>4 DEF TxPreamble, TxFrame, Write, DeviceTakes, ToRx
  <2>2. Pending' = Pending BY <2>1, PendingKept
  <2>3. pc # "idle" /\ pc' # "idle" BY <2>1
  <2>4. QED BY <2>1, <2>2, <2>3, SameMessages
<1>5. CASE TxFails \/ TxTooLong
  <2>1. /\ inq' = inq /\ dq' = dq /\ pc = "tx" /\ pc' = "idle"
        /\ outcome'.status # "ok" /\ cur' = cur /\ made' = made
    BY <1>5 DEF TxFails, TxTooLong, DeviceTakes, End, device
  <2>2. Pending' = Pending BY <2>1, PendingKept
  <2>3. QED BY <2>1, <2>2, FailsMessage
<1>6. CASE RxGivesUp
  <2>1. /\ pc # "idle" /\ pc' # "cont" /\ UNCHANGED <<made, loss, inq, dq, cur, quiet>> /\ todo' = todo
    BY <1>6 DEF RxGivesUp, RxTimeout, RxFails, End, device
  <2>2. Good(E, d)' BY <1>2, <2>1, GoodHost
  <2>3. QED BY <1>2, <1>6, <2>2, TimeoutMessage
<1>7. CASE RxSkip \/ RxPreamble \/ RxCont \/ RxShort
  <2>1. Good(Tail(E), d)' BY <1>1, <1>2, <1>7, GoodRead
  <2>2. QED BY <1>1, <1>2, <1>7, <2>1, ReadMessage
<1>8. CASE Environment BY <1>1, <1>2, <1>8, EnvironmentMessage
<1>9. CASE UNCHANGED vars
  <2>1. UNCHANGED <<pc, cur, made, outcome, inq, dq, buf>> BY <1>9 DEF vars, host, device
  <2>2. Pending' = Pending BY <2>1 DEF Pending, Reports, IsReply, IdOf
  <2>3. QED BY <2>1, <2>2, SameMessages
<1>10. RxTimeout \/ RxFails => RxGivesUp \/ RxShort BY DEF RxGivesUp, RxShort, RxFails
<1>11. QED BY <1>3, <1>4, <1>5, <1>6, <1>7, <1>8, <1>9, <1>10 DEF Next, Host, Done

LEMMA RefinesInit == Init => Message!Init
BY DEF Init, Message!Init, Pending, Reports, None

\* The report layer implements the message layer: with few reports lost, and replies
\* that have at least their status byte, every behaviour of fido_tx and fido_rx,
\* however reports are split, late, lost or mixed with others, is one of HidMessage.
THEOREM ImplementsMessages == ASSUME 0 \notin ReplyLens PROVE Spec /\ []FewLost => MessageSpec
<1>1. ReplyInv /\ ReplyInv' /\ Numbers /\ Numbers' /\ SendInv /\ FewLost /\ FewLost' /\ [Next]_vars
        => [Message!Next]_(Message!vars)
  BY RefinesStep DEF MessageStep
<1>2. QED BY ReplyAlways, NumbersAlways, SendAlways, RefinesInit, <1>1, PTL DEF Spec, MessageSpec, Message!Spec

-----------------------------------------------------------------------------
(* What follows from the message layer alone.                              *)

MessageInv ==
  /\ cur \in Nat /\ Got \in Nat /\ (pc # "idle" => Got = 0)
  /\ Pending \subseteq Answered /\ Answered \subseteq 1 .. cur
  /\ Got \in Answered \cup {0} /\ Got \notin Pending

LEMMA MessageInvStep == ASSUME MessageInv, MessageStep PROVE MessageInv'
<1>1. CASE Message!Start
  <2>1. cur' = cur + 1 /\ Got' = 0 /\ Answered' = Answered /\ Pending' = Pending
    BY <1>1 DEF Message!Start, Got, Answered
  <2>2. QED BY <2>1 DEF MessageInv
<1>2. CASE Message!Fail
  <2>1. cur' = cur /\ Got' = 0 /\ Answered' = Answered /\ Pending' \subseteq Pending
    BY <1>2 DEF Message!Fail, Got, Answered
  <2>2. QED BY <2>1 DEF MessageInv
<1>3. ASSUME NEW k \in 1 .. cur, Message!Answer(k) PROVE MessageInv'
  <2>1. /\ cur' = cur /\ Got' = Got /\ (pc # "idle" <=> pc' # "idle") /\ \A j \in Answered : j < k
        /\ Answered' = Answered \cup {k} /\ Pending' = Pending \cup {k}
    BY <1>3 DEF Message!Answer, Got, Answered
  <2>2. QED BY <2>1 DEF MessageInv
<1>4. ASSUME NEW k \in Pending, Message!Deliver(k) PROVE MessageInv'
  <2>1. cur' = cur /\ Got' = k /\ pc' = "idle" /\ Answered' = Answered /\ Pending' = Pending \ {k}
    BY <1>4 DEF Message!Deliver, Got, Answered
  <2>2. QED BY <2>1 DEF MessageInv
<1>5. ASSUME NEW k \in Pending, Message!Lose(k) PROVE MessageInv'
  <2>1. /\ cur' = cur /\ Got' = Got /\ (pc # "idle" <=> pc' # "idle")
        /\ Answered' = Answered /\ Pending' = Pending \ {k}
    BY <1>5 DEF Message!Lose, Got, Answered
  <2>2. QED BY <2>1 DEF MessageInv
<1>6. CASE UNCHANGED Message!vars
  <2>1. /\ cur' = cur /\ Got' = Got /\ (pc # "idle" <=> pc' # "idle")
        /\ Answered' = Answered /\ Pending' = Pending
    BY <1>6 DEF Message!vars, Got, Answered
  <2>2. QED BY <2>1 DEF MessageInv
<1>7. QED BY <1>1, <1>2, <1>3, <1>4, <1>5, <1>6 DEF MessageStep, Message!Next

\* A reply is delivered at most once, and only if the authenticator made it, to a
\* command that had been issued: whatever is late, lost or refused, a layer that
\* keeps to HidMessage neither repeats a reply nor invents one.
THEOREM NothingFromNowhere == MessageSpec => []Message!NoReplyFromNowhere
<1>1. Message!Init => MessageInv
  <2>1. Message!Init => cur = 0 /\ Got = 0 /\ Answered = {} /\ Pending = {}
    BY DEF Message!Init, Got, Answered
  <2>2. QED BY <2>1 DEF MessageInv
<1>2. MessageInv /\ [Message!Next]_(Message!vars) => MessageInv' BY MessageInvStep DEF MessageStep
<1>3. MessageInv => Message!NoReplyFromNowhere BY DEF MessageInv, Message!NoReplyFromNowhere, Got, Answered
<1>4. QED BY <1>1, <1>2, <1>3, PTL DEF MessageSpec, Message!Spec
=============================================================================
