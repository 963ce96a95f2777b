-------------------------- MODULE LargeBlob_proofs --------------------------
(***************************************************************************)
(* Proofs about LargeBlob, for any number of clients, keys, chunk lengths  *)
(* and capacities of the token.                                            *)
(***************************************************************************)
EXTENDS LargeBlob, SequenceTheorems, WellFoundedInduction, TLAPS

Unit ==
  [is : {"header"}, n : Nat] \cup
  [is : {"element"}, of : Element, part : 0 .. Parts - 1] \cup
  [is : {"digest"}, of : {Body(a) : a \in Seq(Element)}]
-----------------------------------------------------------------------------
(* The serialised array.                                                   *)

LEMMA LeastIndex ==
  ASSUME NEW T, T \subseteq Nat, T # {}
  PROVE  \E x \in T : \A y \in T : x <= y
<1> DEFINE R == {p \in Nat \X Nat : p[1] < p[2]}
<1>1. IsWellFoundedOn(R, Nat) BY NatLessThanWellFounded DEF OpToRel
<1>2. \E x \in T : \A y \in T : <<y, x>> \notin R
  <2> HIDE DEF R
  <2> QED BY <1>1, WFMin
<1>3. ASSUME NEW x \in Nat, NEW y \in Nat, <<y, x>> \notin R
      PROVE  x <= y
  <2>1. <<y, x>> \in Nat \X Nat BY <1>3
  <2>2. ~ (<<y, x>>[1] < <<y, x>>[2]) BY <1>3, <2>1
  <2>3. QED BY <2>2
<1>4. QED BY <1>2, <1>3

LEMMA MinOfTwo ==
  ASSUME NEW a \in Int, NEW b \in Int
  PROVE  Min({a, b}) = IF a <= b THEN a ELSE b
BY DEF Min

LEMMA Division ==
  ASSUME NEW i \in Nat \ {0}
  PROVE  /\ (i - 1) \div Parts \in Nat
         /\ i % Parts \in 0 .. Parts - 1
         /\ i <= Parts * ((i - 1) \div Parts + 1)
         /\ i > Parts * ((i - 1) \div Parts)
BY LargeBlobAssumption

LEMMA DivisionOf ==
  ASSUME NEW i \in Nat \ {0}
  PROVE  (i * Parts - 1) \div Parts = i - 1
BY LargeBlobAssumption

LEMMA PartsOf ==
  ASSUME NEW n \in Nat
  PROVE  n * Parts \in Nat
BY LargeBlobAssumption

LEMMA DivisionWithin ==
  ASSUME NEW n \in Nat, NEW i \in 1 .. n * Parts
  PROVE  (i - 1) \div Parts + 1 \in 1 .. n
<1> DEFINE q == (i - 1) \div Parts
<1>1. i \in Nat \ {0} BY PartsOf
<1>2. q \in Nat /\ Parts * q < i BY <1>1, Division
<1>3. q < n
  <2> HIDE DEF q
  <2>1. Parts * q < Parts * n BY <1>2, LargeBlobAssumption
  <2>2. QED BY <1>2, <2>1, LargeBlobAssumption
<1>4. QED BY <1>2, <1>3

LEMMA LeastFound ==
  ASSUME NEW a \in Seq(Element), NEW k, Found(a, k)
  PROVE  /\ Lookup(a, k) \in DOMAIN a
         /\ a[Lookup(a, k)].key = k
         /\ \A j \in 1 .. Lookup(a, k) - 1 : a[j].key # k
<1> DEFINE T == {i \in DOMAIN a : a[i].key = k}
<1>1. DOMAIN a = 1 .. Len(a) /\ Len(a) \in Nat OBVIOUS
<1>2. T # {} /\ T \subseteq Nat BY <1>1 DEF Found, Decrypts
<1>3. PICK i \in T : \A j \in T : i <= j
  <2> HIDE DEF T
  <2> QED BY <1>2, LeastIndex
<1>4. i \in DOMAIN a /\ a[i].key = k /\ \A j \in 1 .. i - 1 : a[j].key # k
  BY <1>1, <1>3
<1>5. QED BY <1>4 DEF Lookup, Decrypts

(* What Body, Serialised and Loaded make of an array.                      *)

LEMMA BodyIs ==
  ASSUME NEW a \in Seq(Element)
  PROVE  /\ Body(a) \in Seq(Unit)
         /\ Len(Body(a)) = 1 + Len(a) * Parts /\ Len(Body(a)) \in Nat \ {0}
         /\ Body(a)[1] = [is |-> "header", n |-> Len(a)]
         /\ \A i \in 1 .. Len(a) * Parts : Body(a)[i + 1] =
              [is |-> "element", of |-> a[(i - 1) \div Parts + 1], part |-> i % Parts]
<1> DEFINE n == Len(a) * Parts
           e == [i \in 1 .. n |->
                   [is |-> "element", of |-> a[(i - 1) \div Parts + 1], part |-> i % Parts]]
           h == [is |-> "header", n |-> Len(a)]
<1>1. n \in Nat BY PartsOf
<1>2. ASSUME NEW i \in 1 .. n
      PROVE  e[i] \in Unit
  <2>1. (i - 1) \div Parts + 1 \in 1 .. Len(a) BY DivisionWithin
  <2>2. a[(i - 1) \div Parts + 1] \in Element BY <2>1
  <2>3. i % Parts \in 0 .. Parts - 1 BY <1>1, Division
  <2>4. QED BY <2>2, <2>3 DEF Unit
<1>3. e \in Seq(Unit) /\ Len(e) = n
  BY <1>1, <1>2, IsASeq
<1>4. <<h>> \in Seq(Unit) /\ Len(<<h>>) = 1 /\ <<h>>[1] = h
  BY DEF Unit
<1>5. Body(a) = <<h>> \o e BY DEF Body
<1>6. QED
  <2> HIDE DEF e, h
  <2>1. /\ Body(a) \in Seq(Unit) /\ Len(Body(a)) = 1 + n
        /\ \A i \in 1 .. 1 + n : Body(a)[i] = IF i <= 1 THEN <<h>>[i] ELSE e[i - 1]
    BY <1>3, <1>4, <1>5, ConcatProperties
  <2>2. Body(a)[1] = h BY <2>1, <1>4, <1>1
  <2>3. \A i \in 1 .. n : Body(a)[i + 1] = e[i] BY <2>1, <1>1
  <2>4. QED BY <1>1, <2>1, <2>2, <2>3 DEF e, h

LEMMA SerialisedIs ==
  ASSUME NEW a \in Seq(Element)
  PROVE  /\ Serialised(a) \in Seq(Unit)
         /\ Len(Serialised(a)) = Len(Body(a)) + 1
         /\ SubSeq(Serialised(a), 1, Len(Body(a))) = Body(a)
         /\ Serialised(a)[Len(Body(a)) + 1] = Digest(Body(a))
         /\ Serialised(a)[1] = [is |-> "header", n |-> Len(a)]
<1>1. Body(a) \in Seq(Unit) /\ Len(Body(a)) \in Nat \ {0} BY BodyIs
<1>2. Digest(Body(a)) \in Unit BY DEF Digest, Unit
<1>3. QED
  <2> DEFINE b == Body(a)
             d == Digest(b)
  <2>1. b \in Seq(Unit) /\ d \in Unit /\ Len(b) \in Nat \ {0} BY <1>1, <1>2
  <2>2. Serialised(a) = Append(b, d) BY DEF Serialised
  <2>3. b[1] = [is |-> "header", n |-> Len(a)] BY BodyIs
  <2> HIDE DEF b, d
  <2>4. /\ Append(b, d) \in Seq(Unit) /\ Len(Append(b, d)) = Len(b) + 1
        /\ \A i \in 1 .. Len(b) : Append(b, d)[i] = b[i]
        /\ Append(b, d)[Len(b) + 1] = d
    BY <2>1, AppendProperties
  <2>5. SubSeq(Append(b, d), 1, Len(b)) = b
    BY <2>1, <2>4
  <2>6. QED BY <2>1, <2>2, <2>3, <2>4, <2>5 DEF b, d

LEMMA SerialisedLoads ==
  ASSUME NEW a \in Seq(Element)
  PROVE  Check(Serialised(a)) /\ Loaded(Serialised(a)) = a
<1> DEFINE s == Serialised(a)
           b == Body(a)
<1>1. Len(b) = 1 + Len(a) * Parts /\ Len(b) \in Nat \ {0} BY BodyIs
<1>2. /\ s \in Seq(Unit) /\ Len(s) = Len(b) + 1 /\ SubSeq(s, 1, Len(b)) = b
      /\ s[Len(b) + 1] = Digest(b) /\ s[1].n = Len(a)
  <2>1. /\ s \in Seq(Unit) /\ Len(s) = Len(b) + 1 /\ SubSeq(s, 1, Len(b)) = b
        /\ s[Len(b) + 1] = Digest(b) /\ s[1] = [is |-> "header", n |-> Len(a)]
    BY SerialisedIs
  <2> HIDE DEF s, b
  <2>2. QED BY <2>1
<1>3. Check(s)
  <2> HIDE DEF s, b
  <2>1. Len(s) - 1 = Len(b) /\ Len(s) >= 2 BY <1>1, <1>2
  <2>2. QED BY <1>2, <2>1 DEF Check
<1>4. ASSUME NEW i \in 1 .. Len(a)
      PROVE  s[i * Parts + 1].of = a[i]
  <2> HIDE DEF s, b
  <2>1. i * Parts \in 1 .. Len(a) * Parts BY LargeBlobAssumption
  <2>2. s[i * Parts + 1] = SubSeq(s, 1, Len(b))[i * Parts + 1]
    <3> DEFINE k == i * Parts
               m == Len(a) * Parts
    <3>1. k \in 1 .. m /\ m \in Nat BY <2>1, PartsOf
    <3>2. Len(b) = 1 + m BY <1>1
    <3> HIDE DEF k, m
    <3>3. s[k + 1] = SubSeq(s, 1, Len(b))[k + 1] BY <3>1, <3>2, <1>2
    <3>4. QED BY <3>3 DEF k
  <2>3. b[i * Parts + 1] = [is |-> "element", of |-> a[(i * Parts - 1) \div Parts + 1],
                            part |-> (i * Parts) % Parts]
    BY <2>1, BodyIs DEF b
  <2>4. (i * Parts - 1) \div Parts + 1 = i BY DivisionOf
  <2>5. b[i * Parts + 1].of = a[i] BY <2>3, <2>4
  <2>6. QED BY <1>2, <2>2, <2>5
<1>5. Loaded(s) = [i \in 1 .. Len(a) |-> s[i * Parts + 1].of]
  BY <1>2, <1>3 DEF Loaded
<1>6. QED
  <2> HIDE DEF s
  <2>1. Loaded(s) = [i \in 1 .. Len(a) |-> a[i]] BY <1>4, <1>5
  <2>2. Loaded(s) = a BY <2>1
  <2>3. QED BY <2>2, <1>3 DEF s

\* Nothing but Serialised(a) passes for it.
LEMMA CheckedIsSerialised ==
  ASSUME NEW s \in Seq(Unit), Check(s), NEW a \in Seq(Element),
         s[Len(s)] = Digest(Body(a))
  PROVE  s = Serialised(a)
<1>1. SubSeq(s, 1, Len(s) - 1) = Body(a) BY DEF Check, Digest
<1>2. s = Append(SubSeq(s, 1, Len(s) - 1), s[Len(s)])
  BY DEF Check
<1>3. QED BY <1>1, <1>2 DEF Serialised

LEMMA CheckedIsWhole ==
  ASSUME NEW s \in Seq(Unit), Check(s)
  PROVE  \E a \in Seq(Element) : s = Serialised(a)
<1>1. Len(s) >= 2 /\ s[Len(s)] = Digest(SubSeq(s, 1, Len(s) - 1)) BY DEF Check
<1>2. s[Len(s)] \in Unit /\ s[Len(s)].is = "digest" BY <1>1 DEF Digest
<1>3. s[Len(s)].of \in {Body(a) : a \in Seq(Element)} BY <1>2 DEF Unit
<1>4. PICK a \in Seq(Element) : s[Len(s)].of = Body(a) BY <1>3
<1>5. s[Len(s)] = Digest(Body(a)) BY <1>1, <1>4 DEF Digest
<1>6. QED BY <1>5, CheckedIsSerialised

LEMMA LoadedIsArray ==
  ASSUME NEW s \in Seq(Unit)
  PROVE  Loaded(s) \in Seq(Element)
<1>1. CASE Check(s) BY <1>1, CheckedIsWhole, SerialisedLoads
<1>2. CASE ~Check(s) BY <1>2 DEF Loaded
<1>3. QED BY <1>1, <1>2

LEMMA OneDigest ==
  ASSUME NEW a \in Seq(Element), NEW j \in 1 .. Len(Serialised(a)),
         Serialised(a)[j].is = "digest"
  PROVE  Serialised(a)[j] = Digest(Body(a))
<1> DEFINE s == Serialised(a)
           b == Body(a)
<1>1. /\ s \in Seq(Unit) /\ Len(s) = Len(b) + 1 /\ SubSeq(s, 1, Len(b)) = b
      /\ s[Len(b) + 1] = Digest(b) /\ Len(b) \in Nat \ {0}
  BY SerialisedIs, BodyIs
<1>2. ASSUME NEW i \in 1 .. Len(b)
      PROVE  b[i].is # "digest"
  <2>1. CASE i = 1
    <3>1. b[1] = [is |-> "header", n |-> Len(a)] BY BodyIs
    <3>2. QED BY <2>1, <3>1
  <2>2. CASE i # 1
    <3>1. i - 1 \in 1 .. Len(a) * Parts /\ (i - 1) + 1 = i
      <4> DEFINE n == Len(a) * Parts
      <4>1. Len(b) = 1 + n BY BodyIs
      <4>2. n \in Nat BY PartsOf
      <4>3. i - 1 \in 1 .. n /\ (i - 1) + 1 = i
        <5> HIDE DEF n, b
        <5> QED BY <2>2, <4>1, <4>2
      <4>4. QED BY <4>3
    <3>2. b[(i - 1) + 1] = [is |-> "element", of |-> a[(i - 1 - 1) \div Parts + 1],
                            part |-> (i - 1) % Parts]
      BY <3>1, BodyIs DEF b
    <3>3. QED BY <3>1, <3>2
  <2>3. QED BY <2>1, <2>2
<1>3. QED
  <2> HIDE DEF s, b
  <2>1. s[j].is = "digest" /\ j \in 1 .. Len(s) BY DEF s
  <2>2. j \notin 1 .. Len(b)
    <3>1. SUFFICES ASSUME j \in 1 .. Len(b) PROVE FALSE OBVIOUS
    <3>2. s[j] = SubSeq(s, 1, Len(b))[j] BY <3>1, <1>1
    <3>3. QED BY <3>1, <3>2, <2>1, <1>1, <1>2
  <2>3. j = Len(b) + 1 BY <2>1, <2>2, <1>1
  <2>4. QED BY <2>3, <1>1 DEF s, b

LEMMA BrokenIs == /\ Broken \in Seq(Unit) /\ Len(Broken) = 1
                  /\ Broken[1].is = "header" /\ Loaded(Broken) = <<>>
BY DEF Broken, Unit, Loaded, Check

LEMMA ChangedIsArray ==
  ASSUME NEW a \in Seq(Element), NEW o \in Ops,
         o.kind = "set" \/ (o.kind = "remove" /\ Found(a, o.key))
  PROVE  Changed(o, a) \in Seq(Element)
<1>1. CASE o.kind = "set"
  <2> DEFINE e == [key |-> o.key, val |-> o.val]
  <2>1. e \in Element BY <1>1 DEF Ops, Element
  <2>2. CASE Found(a, o.key)
    <3>1. Lookup(a, o.key) \in 1 .. Len(a) BY <2>2, LeastFound
    <3>2. [a EXCEPT ![Lookup(a, o.key)] = e] \in Seq(Element) BY <2>1, <3>1, ExceptSeq
    <3>3. QED BY <1>1, <2>2, <3>2 DEF Changed, Encoded, ReplaceAt
  <2>3. CASE ~Found(a, o.key)
    <3>1. Append(a, e) \in Seq(Element) BY <2>1
    <3>2. QED BY <1>1, <2>3, <3>1 DEF Changed, Encoded
  <2>4. QED BY <2>2, <2>3
<1>2. CASE o.kind = "remove"
  <2>1. Lookup(a, o.key) \in 1 .. Len(a) BY <1>2, LeastFound
  <2>2. RemoveAt(a, Lookup(a, o.key)) \in Seq(Element) BY <2>1 DEF RemoveAt
  <2>3. QED BY <1>2, <2>2 DEF Changed, Encoded
<1>3. QED BY <1>1, <1>2
-----------------------------------------------------------------------------
(* Types.  A client that is not in the loop of a function has none of its  *)
(* data, and what is in the token is units.                                *)

Statuses == {"none", "ok", "notfound", "error", "internal"}

ClientOK ==
  /\ pc \in [Clients -> {"idle", "read", "auth", "write"}]
  /\ op \in [Clients -> Ops \cup {NoOp}]
  /\ got \in [Clients -> Seq(Unit)]
  /\ array \in [Clients -> Seq(Element)]
  /\ offset \in [Clients -> Nat]
  /\ status \in [Clients -> Statuses]
  /\ \A c \in Clients :
       /\ offset[c] <= Len(Body(array[c]))
       /\ pc[c] # "write" => offset[c] = 0
       /\ pc[c] = "read" => op[c] \in Ops /\ op[c].kind # "set_array"
       /\ pc[c] # "read" => got[c] = <<>>

TokenOK ==
  /\ stored \in Seq(Unit)
  /\ part \in [buf : Seq(Unit), total : Nat]
  /\ Len(part.buf) <= part.total /\ part.total <= Capacity
  /\ holder \subseteq Clients

SeenOK ==
  /\ seen \in [Clients -> SUBSET Seq(Element)]
  /\ \A c \in Clients :
       IF pc[c] = "read" THEN Loaded(stored) \in seen[c] ELSE seen[c] = {}

TypeInv == ClientOK /\ TokenOK /\ SeenOK

LEMMA ReturnOK ==
  ASSUME ClientOK, NEW c \in Clients, NEW r \in Statuses, Return(c, r)
  PROVE  ClientOK'
<1>1. <<>> \in Seq(Unit) /\ <<>> \in Seq(Element) OBVIOUS
<1>2. Len(Body(<<>>)) \in Nat BY <1>1, BodyIs
<1>3. QED BY <1>1, <1>2 DEF ClientOK, Return, NoOp

LEMMA CallOK ==
  ASSUME ClientOK, NEW c \in Clients, Call(c)
  PROVE  ClientOK'
<1>1. PICK o \in Ops :
        /\ op' = [op EXCEPT ![c] = o]
        /\ IF o.kind = "set_array"
           THEN /\ pc' = [pc EXCEPT ![c] = Writes]
                /\ array' = [array EXCEPT ![c] = o.array]
           ELSE pc' = [pc EXCEPT ![c] = "read"] /\ UNCHANGED array
  BY DEF Call
<1>2. Writes \in {"auth", "write"} BY DEF Writes
<1>3. pc[c] = "idle" /\ got' = got /\ offset' = offset /\ status' = [status EXCEPT ![c] = "none"]
  BY DEF Call
<1>4. ASSUME o.kind = "set_array" PROVE o.array \in Seq(Element)
  BY <1>4, LargeBlobAssumption DEF Ops, Element
<1>5. offset[c] = 0 /\ got[c] = <<>> BY <1>3 DEF ClientOK
<1>6. \A a \in Seq(Element) : Len(Body(a)) \in Nat BY BodyIs
<1>7. CASE o.kind = "set_array"
  <2>1. /\ pc' = [pc EXCEPT ![c] = Writes] /\ array' = [array EXCEPT ![c] = o.array]
        /\ op' = [op EXCEPT ![c] = o]
    BY <1>1, <1>7
  <2>2. array' \in [Clients -> Seq(Element)] BY <2>1, <1>4, <1>7 DEF ClientOK
  <2>3. \A d \in Clients : offset'[d] <= Len(Body(array'[d]))
    <3>1. TAKE d \in Clients
    <3>2. CASE d = c BY <1>3, <1>5, <1>6, <2>2, <3>2 DEF ClientOK
    <3>3. CASE d # c BY <1>3, <2>1, <3>3 DEF ClientOK
    <3>4. QED BY <3>2, <3>3
  <2>4. /\ pc' \in [Clients -> {"idle", "read", "auth", "write"}]
        /\ \A d \in Clients : /\ pc'[d] # "write" => offset'[d] = 0
                              /\ pc'[d] = "read" => op'[d] \in Ops /\ op'[d].kind # "set_array"
                              /\ pc'[d] # "read" => got'[d] = <<>>
    BY <1>2, <1>3, <1>5, <2>1 DEF ClientOK
  <2>5. QED BY <1>1, <1>3, <2>2, <2>3, <2>4 DEF ClientOK, Statuses
<1>8. CASE o.kind # "set_array"
  BY <1>1, <1>3, <1>5, <1>6, <1>8 DEF ClientOK, Statuses
<1>9. QED BY <1>7, <1>8

LEMMA ChunkIs ==
  ASSUME TypeInv, NEW c \in Clients, Len(got[c]) <= Len(stored)
  PROVE  /\ Chunk(c) \in Seq(Unit)
         /\ Len(Chunk(c)) = Min({Len(stored), Len(got[c]) + MaxChunk}) - Len(got[c])
         /\ \A i \in 1 .. Len(Chunk(c)) : Chunk(c)[i] = stored[Len(got[c]) + i]
         /\ Len(got[c]) \in Nat /\ Len(got[c]) + Len(Chunk(c)) \in 0 .. Len(stored)
         /\ Len(got[c]) + Len(Chunk(c)) < Len(stored) => Len(Chunk(c)) = MaxChunk
<1> DEFINE k == Len(got[c])
           m == Min({Len(stored), k + MaxChunk})
<1>1. stored \in Seq(Unit) /\ k \in Nat /\ k <= Len(stored) /\ Len(stored) \in Nat
  BY DEF TypeInv, ClientOK, TokenOK
<1>2. m = IF Len(stored) <= k + MaxChunk THEN Len(stored) ELSE k + MaxChunk
  BY <1>1, MinOfTwo, LargeBlobAssumption
<1>3. Chunk(c) = SubSeq(stored, k + 1, m) BY DEF Chunk
<1>4. QED
  <2> HIDE DEF m, k
  <2>1. m \in k .. Len(stored) BY <1>1, <1>2, LargeBlobAssumption
  <2>2. \A i \in k + 1 .. m : stored[i] \in Unit BY <1>1, <2>1
  <2>3. /\ Chunk(c) \in Seq(Unit) /\ Len(Chunk(c)) = m - k
        /\ \A i \in 1 .. m - k : Chunk(c)[i] = stored[k + i]
    BY <1>1, <1>3, <2>1, <2>2, SubSeqProperties
  <2>4. k + Len(Chunk(c)) < Len(stored) => Len(Chunk(c)) = MaxChunk
    BY <1>1, <1>2, <2>1, <2>3, LargeBlobAssumption
  <2>5. k + Len(Chunk(c)) \in 0 .. Len(stored) BY <1>1, <2>1, <2>3
  <2>6. \A i \in 1 .. Len(Chunk(c)) : Chunk(c)[i] = stored[k + i] BY <1>1, <2>1, <2>3
  <2>7. QED BY <1>1, <2>3, <2>4, <2>5, <2>6 DEF m, k

LEMMA UnitsAre ==
  ASSUME ClientOK, NEW c \in Clients
  PROVE  /\ Units(c) \in Seq(Unit)
         /\ offset[c] < Len(Body(array[c])) =>
              /\ Units(c) = SubSeq(Body(array[c]), offset[c] + 1, offset[c] + Len(Units(c)))
              /\ Len(Units(c)) \in 1 .. Len(Body(array[c])) - offset[c]
         /\ offset[c] = Len(Body(array[c])) => Units(c) = <<Digest(Body(array[c]))>>
         /\ Body(array[c]) \in Seq(Unit) /\ Len(Body(array[c])) \in Nat \ {0}
         /\ offset[c] \in 0 .. Len(Body(array[c])) /\ Total(c) \in Nat
<1> DEFINE b == Body(array[c])
           k == offset[c]
           m == Min({Len(b), k + MaxChunk})
<1>1. array[c] \in Seq(Element) /\ k \in Nat /\ k <= Len(b) BY DEF ClientOK
<1>2. b \in Seq(Unit) /\ Len(b) \in Nat \ {0} BY <1>1, BodyIs
<1>3. Digest(b) \in Unit BY <1>1 DEF Digest, Unit
<1>4. m = IF Len(b) <= k + MaxChunk THEN Len(b) ELSE k + MaxChunk
  BY <1>1, <1>2, MinOfTwo, LargeBlobAssumption
<1>5. Units(c) = IF k < Len(b) THEN SubSeq(b, k + 1, m) ELSE <<Digest(b)>> BY DEF Units
<1>6. Total(c) \in Nat BY <1>2 DEF Total
<1>7. CASE k < Len(b)
  <2> HIDE DEF b, k, m
  <2>1. m \in k + 1 .. Len(b) BY <1>1, <1>2, <1>4, <1>7, LargeBlobAssumption
  <2>2. Units(c) = SubSeq(b, k + 1, m) BY <1>5, <1>7
  <2>3. \A i \in k + 1 .. m : b[i] \in Unit BY <1>1, <1>2, <2>1
  <2>4. Units(c) \in Seq(Unit) /\ Len(Units(c)) = m - k
    BY <1>1, <2>1, <2>2, <2>3, SubSeqProperties
  <2>5. /\ Len(Units(c)) \in 1 .. Len(b) - k /\ m = k + Len(Units(c)) /\ k \in 0 .. Len(b)
        /\ k # Len(b)
    BY <1>1, <1>2, <1>7, <2>1, <2>4
  <2>6. QED BY <1>2, <1>6, <2>2, <2>4, <2>5 DEF b, k
<1>8. CASE k = Len(b)
  <2> HIDE DEF b, k, m
  <2>1. Units(c) = <<Digest(b)>> /\ ~(k < Len(b)) /\ k \in 0 .. Len(b)
    BY <1>1, <1>2, <1>5, <1>8
  <2>2. Units(c) \in Seq(Unit) BY <2>1, <1>3
  <2>3. QED BY <1>2, <1>6, <2>1, <2>2 DEF b, k
<1>9. QED
  <2> HIDE DEF b, k, m
  <2> QED BY <1>1, <1>2, <1>7, <1>8

LEMMA TokenTakesOK ==
  ASSUME TypeInv, NEW c \in Clients, TokenTakes(c)
  PROVE  /\ TokenOK'
         /\ stored' = stored \/ \E a \in Seq(Element) : stored' = Serialised(a)
<1>1. ClientOK /\ TokenOK BY DEF TypeInv
<1>2. /\ Sequence(c) \in [buf : Seq(Unit), total : Nat]
      /\ Units(c) \in Seq(Unit)
  <2>1. <<>> \in Seq(Unit) OBVIOUS
  <2>2. QED BY <1>1, <2>1, UnitsAre DEF Sequence, TokenOK
<1>3. Received(c) \in Seq(Unit) BY <1>2, ConcatProperties DEF Received
<1>4. /\ Sequence(c).total <= Capacity /\ Len(Received(c)) <= Sequence(c).total
      /\ Len(Received(c)) = Sequence(c).total => Check(Received(c))
      /\ holder' = holder
  BY DEF TokenTakes, Accepts
<1>5. CASE Len(Received(c)) = Sequence(c).total
  <2>1. stored' = Received(c) /\ part' = Nothing BY <1>5 DEF TokenTakes
  <2>2. Nothing \in [buf : Seq(Unit), total : Nat] /\ Nothing.buf = <<>> /\ Nothing.total = 0
    BY DEF Nothing
  <2>3. 0 <= Capacity BY LargeBlobAssumption
  <2>4. TokenOK' BY <1>1, <1>3, <1>4, <2>1, <2>2, <2>3 DEF TokenOK
  <2>5. QED BY <1>3, <1>4, <1>5, <2>1, <2>4, CheckedIsWhole
<1>6. CASE Len(Received(c)) # Sequence(c).total
  <2>1. stored' = stored /\ part' = [Sequence(c) EXCEPT !.buf = Received(c)]
    BY <1>6 DEF TokenTakes
  <2>2. /\ part' \in [buf : Seq(Unit), total : Nat]
        /\ part'.buf = Received(c) /\ part'.total = Sequence(c).total
    BY <1>2, <1>3, <2>1
  <2>3. QED BY <1>1, <1>4, <2>1, <2>2 DEF TokenOK
<1>7. QED BY <1>5, <1>6

LEMMA ActOK ==
  ASSUME ClientOK, NEW c \in Clients, pc[c] = "read",
         NEW a \in Seq(Element), Act(c, a)
  PROVE  ClientOK'
<1>1. op[c] \in Ops /\ offset[c] = 0 BY DEF ClientOK
<1>2. CASE \E r \in Statuses : Return(c, r) BY <1>2, ReturnOK
<1>3. CASE /\ op[c].kind = "set" \/ (op[c].kind = "remove" /\ Found(a, op[c].key))
           /\ array' = [array EXCEPT ![c] = Changed(op[c], a)]
           /\ pc' = [pc EXCEPT ![c] = Writes]
           /\ got' = [got EXCEPT ![c] = <<>>]
           /\ UNCHANGED <<op, offset, status>>
  <2>1. Changed(op[c], a) \in Seq(Element) BY <1>1, <1>3, ChangedIsArray
  <2>2. Len(Body(Changed(op[c], a))) \in Nat BY <2>1, BodyIs
  <2>3. Writes \in {"auth", "write"} BY DEF Writes
  <2>4. <<>> \in Seq(Unit) OBVIOUS
  <2>5. /\ array' \in [Clients -> Seq(Element)] /\ array'[c] = Changed(op[c], a)
        /\ \A d \in Clients \ {c} : array'[d] = array[d]
    BY <1>3, <2>1 DEF ClientOK
  <2>6. \A d \in Clients : offset'[d] <= Len(Body(array'[d]))
    BY <1>1, <1>3, <2>2, <2>5 DEF ClientOK
  <2>7. /\ pc' \in [Clients -> {"idle", "read", "auth", "write"}]
        /\ got' \in [Clients -> Seq(Unit)]
        /\ \A d \in Clients : /\ pc'[d] # "write" => offset'[d] = 0
                              /\ pc'[d] = "read" => op'[d] \in Ops /\ op'[d].kind # "set_array"
                              /\ pc'[d] # "read" => got'[d] = <<>>
    BY <1>1, <1>3, <2>3, <2>4 DEF ClientOK
  <2>8. QED BY <1>3, <2>5, <2>6, <2>7 DEF ClientOK
<1>4. QED BY <1>2, <1>3 DEF Act, Statuses

LEMMA ReadOK ==
  ASSUME TypeInv, NEW c \in Clients, Read(c)
  PROVE  /\ ClientOK'
         /\ Len(got[c]) < Len(stored)
         /\ got[c] \o Chunk(c) \in Seq(Unit)
<1>1. ClientOK /\ TokenOK /\ pc[c] = "read" /\ Chunk(c) # <<>> BY DEF TypeInv, Read
<1>2. Len(got[c]) < Len(stored)
  <2> DEFINE k == Len(got[c])
             m == Min({Len(stored), k + MaxChunk})
  <2>1. k \in Nat /\ Len(stored) \in Nat BY <1>1 DEF ClientOK, TokenOK
  <2>2. m <= Len(stored) /\ m \in Nat
    BY <2>1, MinOfTwo, LargeBlobAssumption
  <2>3. SubSeq(stored, k + 1, m) # <<>> BY <1>1 DEF Chunk
  <2> HIDE DEF k, m
  <2>4. k < m BY <2>1, <2>2, <2>3, SubSeqEmpty
  <2>5. QED BY <2>1, <2>2, <2>4 DEF k
<1>3. Chunk(c) \in Seq(Unit)
  <2>1. Len(got[c]) <= Len(stored) BY <1>1, <1>2 DEF ClientOK, TokenOK
  <2>2. QED BY <2>1, ChunkIs
<1>4. got[c] \o Chunk(c) \in Seq(Unit) BY <1>1, <1>3, ConcatProperties DEF ClientOK
<1>5. CASE More(Chunk(c))
  <2>1. /\ got' = [got EXCEPT ![c] = got[c] \o Chunk(c)]
        /\ UNCHANGED <<pc, op, array, offset, status>>
    BY <1>5 DEF Read
  <2>2. QED BY <1>1, <1>2, <1>4, <2>1 DEF ClientOK
<1>6. CASE ~More(Chunk(c))
  <2>1. Act(c, Loaded(got[c] \o Chunk(c))) BY <1>6 DEF Read
  <2>2. QED BY <1>1, <1>2, <1>4, <2>1, LoadedIsArray, ActOK
<1>7. QED BY <1>5, <1>6

LEMMA WriteOK ==
  ASSUME ClientOK, NEW c \in Clients, Write(c)
  PROVE  ClientOK'
<1>1. pc[c] = "write" BY DEF Write
<1>2. CASE /\ offset[c] < Len(Body(array[c]))
           /\ offset' = [offset EXCEPT ![c] = @ + Advance(c)]
           /\ UNCHANGED <<pc, op, got, array, status>>
  <2>1. offset[c] + Len(Units(c)) \in 0 .. Len(Body(array[c]))
    <3>1. /\ Len(Units(c)) \in 1 .. Len(Body(array[c])) - offset[c]
          /\ Len(Body(array[c])) \in Nat /\ offset[c] \in Nat
      BY <1>2, UnitsAre
    <3>2. QED BY <3>1
  <2>2. offset' = [offset EXCEPT ![c] = offset[c] + Len(Units(c))] BY <1>2 DEF Advance
  <2>3. \A d \in Clients : Len(Body(array[d])) \in Nat BY BodyIs DEF ClientOK
  <2>4. offset[c] + Len(Units(c)) \in Nat /\ offset[c] + Len(Units(c)) <= Len(Body(array[c]))
    BY <2>1, <2>3
  <2>5. QED
    <3> DEFINE k == offset[c] + Len(Units(c))
    <3>1. k \in Nat /\ k <= Len(Body(array[c])) /\ offset' = [offset EXCEPT ![c] = k]
      BY <2>2, <2>4
    <3> HIDE DEF k
    <3>2. QED BY <1>1, <1>2, <3>1 DEF ClientOK
<1>3. CASE \E r \in Statuses : Return(c, r) BY <1>3, ReturnOK
<1>4. QED BY <1>2, <1>3 DEF Write, Statuses
-----------------------------------------------------------------------------
(* What a step leaves of the invariant, whoever takes it.                  *)

\* The array stored is whole, or the broken one.
StoredWhole == stored = Broken \/ \E a \in Seq(Element) : stored = Serialised(a)

LEMMA StepOK ==
  ASSUME TypeInv, StoredWhole, Next
  PROVE  ClientOK' /\ TokenOK' /\ StoredWhole'
<1> USE DEF TypeInv
<1>1. CASE TokenForgets
  <2>1. part' = Nothing /\ holder' = {} /\ stored' = stored /\ UNCHANGED client
    BY <1>1 DEF TokenForgets
  <2>2. <<>> \in Seq(Unit) OBVIOUS
  <2>3. TokenOK' BY <2>1, <2>2, LargeBlobAssumption DEF TokenOK, Nothing
  <2>4. QED BY <2>1, <2>3 DEF StoredWhole, ClientOK, client
<1>2. ASSUME NEW c \in Clients, Call(c)
      PROVE  ClientOK' /\ TokenOK' /\ StoredWhole'
  BY <1>2, CallOK DEF Call, token, TokenOK, StoredWhole
<1>3. ASSUME NEW c \in Clients, Read(c)
      PROVE  ClientOK' /\ TokenOK' /\ StoredWhole'
  BY <1>3, ReadOK DEF Read, token, TokenOK, StoredWhole
<1>4. ASSUME NEW c \in Clients, ReadEmpty(c) \/ ReadRefused(c)
      PROVE  ClientOK' /\ TokenOK' /\ StoredWhole'
  <2>1. ClientOK' BY <1>4, ReturnOK DEF ReadEmpty, ReadRefused, Statuses
  <2>2. QED BY <1>4, <2>1 DEF ReadEmpty, ReadRefused, token, TokenOK, StoredWhole
<1>5. ASSUME NEW c \in Clients, GetUvToken(c)
      PROVE  ClientOK' /\ TokenOK' /\ StoredWhole'
  BY <1>5 DEF GetUvToken, ClientOK, TokenOK, StoredWhole
<1>6. ASSUME NEW c \in Clients, Write(c)
      PROVE  ClientOK' /\ TokenOK' /\ StoredWhole'
  <2>1. ClientOK' BY <1>6, WriteOK
  <2>2. CASE TokenTakes(c) BY <2>1, <2>2, TokenTakesOK DEF StoredWhole
  <2>3. CASE UNCHANGED token BY <2>1, <2>3 DEF token, TokenOK, StoredWhole
  <2>4. QED BY <1>6, <2>2, <2>3 DEF Write
<1>7. ASSUME NEW c \in Clients, Fails(c)
      PROVE  ClientOK' /\ TokenOK' /\ StoredWhole'
  <2>1. ClientOK' BY <1>7, ReturnOK DEF Fails, Statuses
  <2>2. CASE TokenTakes(c) BY <2>1, <2>2, TokenTakesOK DEF StoredWhole
  <2>3. CASE UNCHANGED token BY <2>1, <2>3 DEF token, TokenOK, StoredWhole
  <2>4. CASE holder' = {c} /\ UNCHANGED <<stored, part>>
    BY <2>1, <2>4 DEF TokenOK, StoredWhole
  <2>5. QED BY <1>7, <2>2, <2>3, <2>4 DEF Fails
<1>8. QED BY <1>1, <1>2, <1>3, <1>4, <1>5, <1>6, <1>7 DEF Next, Step

\* The current list is always among those seen.
LEMMA SeenStep ==
  ASSUME TypeInv, ClientOK', TokenOK', Observe
  PROVE  SeenOK'
<1>1. Loaded(stored') \in Seq(Element) BY LoadedIsArray DEF TokenOK
<1>2. ASSUME NEW c \in Clients
      PROVE  seen'[c] = IF pc'[c] = "read" THEN seen[c] \cup {Loaded(stored')} ELSE {}
  BY <1>2 DEF Observe
<1>3. seen' \in [Clients -> SUBSET Seq(Element)] BY <1>1 DEF Observe, TypeInv, SeenOK
<1>4. QED BY <1>2, <1>3 DEF SeenOK

LEMMA InitOK == ASSUME Init PROVE TypeInv /\ StoredWhole
<1>1. <<>> \in Seq(Unit) /\ <<>> \in Seq(Element) OBVIOUS
<1>2. Len(Body(<<>>)) \in Nat BY <1>1, BodyIs
<1>3. stored \in Seq(Unit) /\ StoredWhole
  BY <1>1, SerialisedIs, BrokenIs DEF Init, StoredWhole
<1>4. ClientOK BY <1>1, <1>2 DEF Init, ClientOK, Statuses
<1>5. TokenOK BY <1>1, <1>3, LargeBlobAssumption DEF Init, TokenOK, Nothing
<1>6. SeenOK BY DEF Init, SeenOK
<1>7. QED BY <1>3, <1>4, <1>5, <1>6 DEF TypeInv

LEMMA Stuttering ==
  ASSUME TypeInv, StoredWhole, UNCHANGED vars
  PROVE  TypeInv' /\ StoredWhole'
BY DEF vars, client, token, TypeInv, ClientOK, TokenOK, SeenOK, StoredWhole

LEMMA TypeInvariant == Spec => [](TypeInv /\ StoredWhole)
<1>1. Init => TypeInv /\ StoredWhole BY InitOK
<1>2. TypeInv /\ StoredWhole /\ [Next]_vars => (TypeInv /\ StoredWhole)'
  <2>1. SUFFICES ASSUME TypeInv, StoredWhole, [Next]_vars
                 PROVE  (TypeInv /\ StoredWhole)'
    OBVIOUS
  <2>2. CASE Next
    <3>1. ClientOK' /\ TokenOK' /\ StoredWhole' BY <2>1, <2>2, StepOK
    <3>2. SeenOK' BY <2>1, <2>2, <3>1, SeenStep DEF Next
    <3>3. QED BY <3>1, <3>2 DEF TypeInv
  <2>3. CASE UNCHANGED vars BY <2>1, <2>3, Stuttering
  <2>4. QED BY <2>1, <2>2, <2>3
<1>3. QED BY <1>1, <1>2, PTL DEF Spec

(* Every array in the token, and every chunk on the way, is made of units, *)
(* and offsets and lengths stay where they belong.                         *)
THEOREM TypeCorrect == Spec => []TypeOK
<1>1. TypeInv => TypeOK
  <2>1. SUFFICES ASSUME TypeInv PROVE TypeOK OBVIOUS
  <2>2. \A u \in Unit : IsUnit(u) BY DEF Unit, IsUnit
  <2>3. \A s \in {stored, part.buf} \cup {got[c] : c \in Clients} : s \in Seq(Unit)
    BY <2>1 DEF TypeInv, ClientOK, TokenOK
  <2>4. \A s \in {stored, part.buf} \cup {got[c] : c \in Clients} :
          \A i \in 1 .. Len(s) : IsUnit(s[i])
    BY <2>2, <2>3, ElementOfSeq
  <2>5. \A c \in Clients : offset[c] \in 0 .. Len(Body(array[c]))
    BY <2>1, UnitsAre DEF TypeInv
  <2>6. QED BY <2>1, <2>4, <2>5 DEF TypeOK, TypeInv, ClientOK, TokenOK, Statuses
<1>2. QED BY <1>1, TypeInvariant, PTL
-----------------------------------------------------------------------------
(* Reading.  A digest that has been read belongs to a list that was seen,  *)
(* and what has been read is the beginning of the current array unless     *)
(* somebody has changed it.                                                *)

DigestsSeen ==
  \A c \in Clients : \A i \in 1 .. Len(got[c]) :
    got[c][i].is = "digest" => \E a \in seen[c] : got[c][i] = Digest(Body(a))

Disturbed(c) == <<>> \in seen[c] \/ \E a, b \in seen[c] : a # b

ReadInv ==
  /\ DigestsSeen
  /\ \A c \in Clients : pc[c] = "read" =>
       \/ Disturbed(c)
       \/ /\ Len(got[c]) <= Len(stored)
          /\ got[c] = SubSeq(stored, 1, Len(got[c]))

\* A stored array that has not been changed to one with other blobs is the
\* same, or has no blobs.
LEMMA SameList ==
  ASSUME TypeInv, StoredWhole, StoredWhole', Loaded(stored) = Loaded(stored')
  PROVE  stored' = stored \/ Loaded(stored) = <<>>
<1>1. CASE stored = Broken BY <1>1, BrokenIs
<1>2. CASE stored' = Broken BY <1>2, BrokenIs
<1>3. ASSUME NEW a \in Seq(Element), stored = Serialised(a),
             NEW b \in Seq(Element), stored' = Serialised(b)
      PROVE  stored' = stored
  BY <1>3, SerialisedLoads
<1>4. QED BY <1>1, <1>2, <1>3 DEF StoredWhole

LEMMA ChunkDigests ==
  ASSUME TypeInv, StoredWhole, NEW c \in Clients, pc[c] = "read",
         NEW j \in 1 .. Len(stored), stored[j].is = "digest"
  PROVE  \E a \in seen[c] : stored[j] = Digest(Body(a))
<1>1. stored # Broken
  <2>1. SUFFICES ASSUME stored = Broken PROVE FALSE OBVIOUS
  <2>2. Len(stored) = 1 /\ stored[1].is = "header" BY <2>1, BrokenIs
  <2>3. j = 1 BY <2>2
  <2>4. QED BY <2>2, <2>3
<1>2. PICK a \in Seq(Element) : stored = Serialised(a) BY <1>1 DEF StoredWhole
<1>3. Loaded(stored) = a BY <1>2, SerialisedLoads
<1>4. stored[j] = Digest(Body(a)) BY <1>2, OneDigest
<1>5. Loaded(stored) \in seen[c] BY DEF TypeInv, SeenOK
<1>6. QED BY <1>3, <1>4, <1>5

\* What has been read together with the next chunk.
LEMMA ReadMore ==
  ASSUME TypeInv, StoredWhole, ReadInv, NEW c \in Clients, Read(c)
  PROVE  LET s == got[c] \o Chunk(c)
         IN  /\ s \in Seq(Unit)
             /\ \A i \in 1 .. Len(s) :
                  s[i].is = "digest" => \E a \in seen[c] : s[i] = Digest(Body(a))
             /\ Disturbed(c) \/ (Len(s) <= Len(stored) /\ s = SubSeq(stored, 1, Len(s)))
             /\ Len(s) < Len(stored) => More(Chunk(c))
<1> DEFINE g == got[c]
           h == Chunk(c)
           s == g \o h
<1>1. /\ g \in Seq(Unit) /\ stored \in Seq(Unit) /\ pc[c] = "read" /\ Len(g) < Len(stored)
  BY ReadOK DEF TypeInv, ClientOK, TokenOK, Read
<1>2. /\ h \in Seq(Unit) /\ Len(g) \in Nat /\ Len(g) + Len(h) \in 0 .. Len(stored)
      /\ \A i \in 1 .. Len(h) : h[i] = stored[Len(g) + i]
      /\ Len(g) + Len(h) < Len(stored) => More(h)
  <2>1. Len(g) <= Len(stored) BY <1>1
  <2>2. QED BY <2>1, ChunkIs DEF More
<1>3. /\ s \in Seq(Unit) /\ Len(s) = Len(g) + Len(h)
      /\ \A i \in 1 .. Len(g) + Len(h) : s[i] = IF i <= Len(g) THEN g[i] ELSE h[i - Len(g)]
  BY <1>1, <1>2, ConcatProperties
<1>4. ASSUME NEW i \in 1 .. Len(s), s[i].is = "digest"
      PROVE  \E a \in seen[c] : s[i] = Digest(Body(a))
  <2>1. CASE i <= Len(g)
    <3>1. i \in 1 .. Len(g) /\ s[i] = g[i]
      <4> HIDE DEF g, h, s
      <4> QED BY <2>1, <1>2, <1>3
    <3>2. QED BY <1>4, <3>1 DEF ReadInv, DigestsSeen
  <2>2. CASE i > Len(g)
    <3>1. Len(g) + (i - Len(g)) \in 1 .. Len(stored) /\ s[i] = stored[i]
      <4> HIDE DEF g, h, s
      <4>1. /\ i - Len(g) \in 1 .. Len(h) /\ Len(g) + (i - Len(g)) = i /\ i \in 1 .. Len(stored)
            /\ ~(i <= Len(g)) /\ i \in 1 .. Len(g) + Len(h)
        BY <2>2, <1>1, <1>2, <1>3
      <4>2. QED BY <4>1, <1>2, <1>3
    <3>2. i \in 1 .. Len(stored)
      <4> HIDE DEF g, h, s
      <4> QED BY <1>2, <1>3
    <3>3. QED BY <1>1, <1>4, <3>1, <3>2, ChunkDigests
  <2>3. QED
    <3> HIDE DEF g, h, s
    <3> QED BY <1>2, <1>3, <2>1, <2>2
<1>5. CASE ~Disturbed(c)
  <2>1. g = SubSeq(stored, 1, Len(g)) BY <1>1, <1>5 DEF ReadInv
  <2>2. \A i \in 1 .. Len(g) : g[i] = stored[i]
    <3> HIDE DEF g
    <3> QED BY <1>1, <1>2, <2>1
  <2>3. Len(s) <= Len(stored) /\ \A i \in 1 .. Len(s) : s[i] = stored[i]
    <3> HIDE DEF g, h, s
    <3>1. Len(s) <= Len(stored) BY <1>2, <1>3
    <3>2. ASSUME NEW i \in 1 .. Len(s) PROVE s[i] = stored[i]
      <4>1. CASE i <= Len(g) BY <4>1, <1>2, <1>3, <2>2
      <4>2. CASE ~(i <= Len(g))
        <5>1. i - Len(g) \in 1 .. Len(h) /\ Len(g) + (i - Len(g)) = i
          BY <4>2, <1>2, <1>3
        <5>2. QED BY <4>2, <5>1, <1>2, <1>3
      <4>3. QED BY <4>1, <4>2
    <3>3. QED BY <3>1, <3>2
  <2>4. s = SubSeq(stored, 1, Len(s))
    <3> HIDE DEF s
    <3>1. Len(s) \in Nat /\ Len(stored) \in Nat BY <1>1, <1>3
    <3>2. SubSeq(stored, 1, Len(s)) \in Seq(Unit) /\ Len(SubSeq(stored, 1, Len(s))) = Len(s)
      BY <1>1, <2>3, <3>1
    <3>3. \A i \in 1 .. Len(s) : SubSeq(stored, 1, Len(s))[i] = s[i]
      BY <1>1, <2>3, <3>1
    <3>4. QED BY <1>3, <3>2, <3>3, SeqEqual
  <2>5. QED BY <2>3, <2>4, <1>2, <1>3, <1>4
<1>6. CASE Disturbed(c) BY <1>2, <1>3, <1>4, <1>6
<1>7. QED BY <1>5, <1>6

\* So the list it is taken for is one of those seen, or empty.
LEMMA ViewSeen ==
  ASSUME TypeInv, StoredWhole, ReadInv, NEW c \in Clients, Read(c), ~More(Chunk(c))
  PROVE  LET a == Loaded(got[c] \o Chunk(c))
         IN  a \in seen[c] \/ (a = <<>> /\ Disturbed(c))
<1> DEFINE s == got[c] \o Chunk(c)
<1>1. /\ s \in Seq(Unit)
      /\ \A i \in 1 .. Len(s) :
           s[i].is = "digest" => \E a \in seen[c] : s[i] = Digest(Body(a))
      /\ Disturbed(c) \/ (Len(s) <= Len(stored) /\ s = SubSeq(stored, 1, Len(s)))
      /\ ~(Len(s) < Len(stored))
  BY ReadMore
<1>2. seen[c] \subseteq Seq(Element) /\ Loaded(stored) \in seen[c] /\ stored \in Seq(Unit)
  BY DEF TypeInv, SeenOK, TokenOK, Read
<1> HIDE DEF s
<1>3. CASE Check(s)
  <2>1. s[Len(s)].is = "digest" /\ Len(s) \in 1 .. Len(s) BY <1>1, <1>3 DEF Check, Digest
  <2>2. PICK a \in seen[c] : s[Len(s)] = Digest(Body(a)) BY <1>1, <2>1
  <2>3. s = Serialised(a) BY <1>1, <1>2, <1>3, <2>2, CheckedIsSerialised
  <2>4. Loaded(s) = a BY <1>2, <2>3, SerialisedLoads
  <2>5. QED BY <2>2, <2>4 DEF s
<1>4. CASE ~Check(s) /\ Disturbed(c)
  BY <1>4 DEF Loaded, s
<1>5. CASE ~Check(s) /\ ~Disturbed(c)
  <2>1. Len(s) = Len(stored) BY <1>1, <1>2, <1>5
  <2>2. s = stored BY <1>1, <1>2, <1>5, <2>1, SubSeqFull
  <2>3. QED BY <1>2, <2>2 DEF s
<1>6. QED BY <1>3, <1>4, <1>5

\* How a step concerns a reader.
LEMMA ReaderStep ==
  ASSUME TypeInv, Next, NEW d \in Clients
  PROVE  \/ got'[d] = <<>>
         \/ pc[d] = "read" /\ pc'[d] = "read" /\ got'[d] = got[d]
         \/ /\ Read(d) /\ got'[d] = got[d] \o Chunk(d)
            /\ pc'[d] = "read" /\ stored' = stored
<1> DEFINE Goal == \/ got'[d] = <<>>
                   \/ pc[d] = "read" /\ pc'[d] = "read" /\ got'[d] = got[d]
                   \/ /\ Read(d) /\ got'[d] = got[d] \o Chunk(d)
                      /\ pc'[d] = "read" /\ stored' = stored
<1>1. ClientOK BY DEF TypeInv
<1>2. pc[d] # "read" => got[d] = <<>> BY <1>1 DEF ClientOK
<1>3. CASE UNCHANGED <<pc, got>> BY <1>2, <1>3
<1>4. ASSUME NEW c \in Clients, NEW r, Return(c, r)
      PROVE  Goal
  <2>1. got' = [got EXCEPT ![c] = <<>>] /\ pc' = [pc EXCEPT ![c] = "idle"]
    BY <1>4 DEF Return
  <2>2. CASE d = c BY <1>1, <2>1, <2>2 DEF ClientOK
  <2>3. CASE d # c BY <1>1, <1>2, <2>1, <2>3 DEF ClientOK
  <2>4. QED BY <2>2, <2>3
<1>5. ASSUME NEW c \in Clients, Call(c)
      PROVE  Goal
  <2>1. pc[c] = "idle" /\ got' = got BY <1>5 DEF Call
  <2>2. CASE d = c BY <1>2, <2>1, <2>2
  <2>3. CASE d # c
    <3>1. pc'[d] = pc[d] BY <1>1, <1>5, <2>3 DEF Call, ClientOK
    <3>2. QED BY <1>2, <2>1, <3>1
  <2>4. QED BY <2>2, <2>3
<1>6. ASSUME NEW c \in Clients, Read(c)
      PROVE  Goal
  <2>1. CASE More(Chunk(c))
    <3>1. /\ got' = [got EXCEPT ![c] = got[c] \o Chunk(c)] /\ pc' = pc
          /\ pc[c] = "read" /\ stored' = stored
      BY <1>6, <2>1 DEF Read, token
    <3>2. CASE d = c BY <1>1, <1>6, <3>1, <3>2 DEF ClientOK
    <3>3. CASE d # c BY <1>1, <1>2, <3>1, <3>3 DEF ClientOK
    <3>4. QED BY <3>2, <3>3
  <2>2. CASE ~More(Chunk(c))
    <3>1. Act(c, Loaded(got[c] \o Chunk(c))) BY <1>6, <2>2 DEF Read
    <3>2. CASE \E r : Return(c, r) BY <1>4, <3>2
    <3>3. CASE /\ got' = [got EXCEPT ![c] = <<>>]
               /\ pc' = [pc EXCEPT ![c] = Writes]
      <4>1. CASE d = c BY <1>1, <3>3, <4>1 DEF ClientOK
      <4>2. CASE d # c BY <1>1, <1>2, <3>3, <4>2 DEF ClientOK
      <4>3. QED BY <4>1, <4>2
    <3>4. QED BY <3>1, <3>2, <3>3 DEF Act
  <2>3. QED BY <2>1, <2>2
<1>7. ASSUME NEW c \in Clients, ReadEmpty(c) \/ ReadRefused(c) \/ Fails(c)
      PROVE  Goal
  BY <1>4, <1>7 DEF ReadEmpty, ReadRefused, Fails
<1>8. ASSUME NEW c \in Clients, GetUvToken(c)
      PROVE  Goal
  <2>1. got' = got /\ pc[c] = "auth" /\ pc' = [pc EXCEPT ![c] = "write"]
    BY <1>8 DEF GetUvToken
  <2>2. CASE d = c BY <1>2, <2>1, <2>2
  <2>3. CASE d # c BY <1>1, <1>2, <2>1, <2>3 DEF ClientOK
  <2>4. QED BY <2>2, <2>3
<1>9. ASSUME NEW c \in Clients, Write(c)
      PROVE  Goal
  BY <1>3, <1>4, <1>9 DEF Write
<1>10. ASSUME TokenForgets PROVE Goal
  BY <1>3, <1>10 DEF TokenForgets, client
<1>11. QED
  <2> HIDE DEF Goal
  <2>1. ASSUME NEW c \in Clients, Call(c) \/ Step(c) \/ Fails(c)
        PROVE  Goal
    BY <1>5, <1>6, <1>7, <1>8, <1>9, <2>1 DEF Step
  <2>2. Goal BY <1>10, <2>1 DEF Next
  <2>3. QED BY <2>2 DEF Goal

LEMMA ReadStep ==
  ASSUME TypeInv, TypeInv', StoredWhole, StoredWhole', ReadInv, Next
  PROVE  ReadInv'
<1> SUFFICES ASSUME NEW d \in Clients
             PROVE  /\ \A i \in 1 .. Len(got'[d]) : got'[d][i].is = "digest" =>
                         \E a \in seen'[d] : got'[d][i] = Digest(Body(a))
                    /\ pc'[d] = "read" =>
                         \/ Disturbed(d)'
                         \/ /\ Len(got'[d]) <= Len(stored')
                            /\ got'[d] = SubSeq(stored', 1, Len(got'[d]))
  BY DEF ReadInv, DigestsSeen
<1>1. pc'[d] = "read" => seen'[d] = seen[d] \cup {Loaded(stored')}
  BY DEF Next, Observe
<1>2. pc[d] = "read" => Loaded(stored) \in seen[d] BY DEF TypeInv, SeenOK
<1>3. stored' \in Seq(Unit) /\ Len(stored') \in Nat BY DEF TypeInv, TokenOK
<1>4. CASE got'[d] = <<>>
  <2>1. Len(got'[d]) = 0 BY <1>4
  <2>2. SubSeq(stored', 1, 0) = <<>> BY SubSeqEmpty
  <2>3. QED BY <1>3, <1>4, <2>1, <2>2
<1>5. CASE pc[d] = "read" /\ pc'[d] = "read" /\ got'[d] = got[d]
  <2>1. \A i \in 1 .. Len(got'[d]) : got'[d][i].is = "digest" =>
          \E a \in seen'[d] : got'[d][i] = Digest(Body(a))
    BY <1>1, <1>5 DEF ReadInv, DigestsSeen
  <2>2. Disturbed(d) => Disturbed(d)' BY <1>1, <1>5 DEF Disturbed
  <2>3. CASE stored' = stored BY <1>5, <2>1, <2>2, <2>3 DEF ReadInv
  <2>4. CASE stored' # stored
    <3>1. CASE Loaded(stored) = <<>> BY <1>1, <1>2, <1>5, <2>1, <3>1 DEF Disturbed
    <3>2. CASE Loaded(stored) # <<>>
      <4>1. Loaded(stored) # Loaded(stored') BY <2>4, <3>2, SameList
      <4>2. Loaded(stored) \in seen'[d] /\ Loaded(stored') \in seen'[d] BY <1>1, <1>2, <1>5
      <4>3. Disturbed(d)' BY <4>1, <4>2 DEF Disturbed
      <4>4. QED BY <2>1, <4>3
    <3>3. QED BY <3>1, <3>2
  <2>5. QED BY <2>3, <2>4
<1>6. CASE /\ Read(d) /\ got'[d] = got[d] \o Chunk(d)
           /\ pc'[d] = "read" /\ stored' = stored
  <2>1. Disturbed(d) => Disturbed(d)' BY <1>1, <1>6 DEF Disturbed
  <2>2. seen[d] \subseteq seen'[d] BY <1>1, <1>6
  <2>3. QED BY <1>6, <2>1, <2>2, ReadMore
<1>7. QED BY <1>4, <1>5, <1>6, ReaderStep
-----------------------------------------------------------------------------
(* Writing, on a token that asks for a PIN/UV token.  Who holds it and has  *)
(* begun to write is the one whose array is in progress in the token.       *)

InProgress(c) ==
  [buf |-> SubSeq(Body(array[c]), 1, offset[c]), total |-> Total(c)]

WriteInv ==
  /\ \A c, d \in holder : c = d
  /\ \A c \in holder : pc[c] = "write" /\ offset[c] > 0 => part = InProgress(c)

LEMMA SequenceIs ==
  ASSUME TypeInv, WriteInv, NEW c \in holder, pc[c] = "write"
  PROVE  Sequence(c) = InProgress(c)
<1>1. CASE offset[c] = 0
  <2>1. SubSeq(Body(array[c]), 1, 0) = <<>> BY SubSeqEmpty
  <2>2. QED BY <1>1, <2>1 DEF Sequence, InProgress
<1>2. CASE offset[c] # 0
  <2>1. offset[c] > 0 BY <1>2 DEF TypeInv, ClientOK, TokenOK
  <2>2. QED BY <1>2, <2>1 DEF Sequence, WriteInv
<1>3. QED BY <1>1, <1>2

\* What the token has after a chunk.
LEMMA ReceivedIs ==
  ASSUME TypeInv, WriteInv, NEW c \in holder, pc[c] = "write"
  PROVE  LET b == Body(array[c])
             k == offset[c] + Len(Units(c))
         IN  /\ Sequence(c).total = Len(b) + 1
             /\ offset[c] < Len(b) => /\ Received(c) = SubSeq(b, 1, k)
                                      /\ Len(Received(c)) = k /\ k <= Len(b)
             /\ offset[c] = Len(b) => /\ Received(c) = Serialised(array[c])
                                      /\ Len(Received(c)) = Len(b) + 1
<1> DEFINE b == Body(array[c])
           u == Units(c)
           k == offset[c] + Len(u)
<1>1. c \in Clients /\ ClientOK /\ array[c] \in Seq(Element)
  BY DEF TypeInv, TokenOK, ClientOK
<1>2. /\ Received(c) = SubSeq(b, 1, offset[c]) \o u
      /\ Sequence(c).total = Len(b) + 1
  <2>1. Sequence(c) = InProgress(c) BY SequenceIs
  <2>2. Sequence(c).buf = SubSeq(b, 1, offset[c]) /\ Sequence(c).total = Total(c)
    <3> DEFINE x == SubSeq(b, 1, offset[c])
               t == Total(c)
    <3>1. Sequence(c) = [buf |-> x, total |-> t] BY <2>1 DEF InProgress
    <3> HIDE DEF x, t
    <3>2. Sequence(c).buf = x /\ Sequence(c).total = t BY <3>1
    <3>3. QED BY <3>2 DEF x, t
  <2>3. Received(c) = Sequence(c).buf \o u BY DEF Received
  <2>4. Total(c) = Len(b) + 1 BY DEF Total
  <2>5. QED BY <2>2, <2>3, <2>4
<1>3. /\ b \in Seq(Unit) /\ Len(b) \in Nat /\ offset[c] \in 0 .. Len(b)
      /\ offset[c] < Len(b) => /\ u = SubSeq(b, offset[c] + 1, k)
                               /\ Len(u) \in 1 .. Len(b) - offset[c]
      /\ offset[c] = Len(b) => u = <<Digest(b)>>
  BY <1>1, UnitsAre
<1>4. Serialised(array[c]) = Append(b, Digest(b)) BY DEF Serialised
<1>5. CASE offset[c] < Len(b)
  <2> HIDE DEF b, u
  <2>1. k \in offset[c] .. Len(b) /\ 1 \in 1 .. Len(b) + 1 /\ offset[c] \in 1 - 1 .. Len(b)
    BY <1>3, <1>5
  <2>2. u = SubSeq(b, offset[c] + 1, k) BY <1>3, <1>5
  <2> HIDE DEF k
  <2>3. Received(c) = SubSeq(b, 1, k)
    BY <1>2, <1>3, <2>1, <2>2, ConcatAdjacentSubSeq
  <2>4. Len(SubSeq(b, 1, k)) = k BY <1>3, <2>1
  <2>5. offset[c] # Len(b) /\ k <= Len(b) BY <1>3, <1>5, <2>1
  <2>6. QED BY <1>2, <2>3, <2>4, <2>5 DEF b, u, k
<1>6. CASE offset[c] = Len(b)
  <2>1. Digest(b) \in Unit BY <1>1 DEF Digest, Unit
  <2> HIDE DEF b, u, k
  <2>2. u = <<Digest(b)>> /\ SubSeq(b, 1, offset[c]) = b BY <1>3, <1>6, SubSeqFull
  <2>3. Received(c) = Append(b, Digest(b)) BY <1>2, <1>3, <2>1, <2>2, AppendIsConcat
  <2>4. Len(Append(b, Digest(b))) = Len(b) + 1 BY <1>3, <2>1, AppendProperties
  <2>5. ~(offset[c] < Len(b)) BY <1>3, <1>6
  <2>6. QED BY <1>2, <1>4, <2>3, <2>4, <2>5 DEF b
<1>7. QED
  <2> HIDE DEF b, u, k
  <2> QED BY <1>3, <1>5, <1>6

\* The token completes an array only by its digest, and it is the client's.
LEMMA TakesInOrder ==
  ASSUME TypeInv, WriteInv, Protected, NEW c \in Clients, pc[c] = "write", TokenTakes(c)
  PROVE  /\ c \in holder /\ holder' = holder
         /\ offset[c] < Len(Body(array[c])) =>
              /\ stored' = stored
              /\ part' = [buf |-> SubSeq(Body(array[c]), 1, offset[c] + Len(Units(c))),
                          total |-> Total(c)]
         /\ offset[c] = Len(Body(array[c])) => stored' = Serialised(array[c])
<1>1. c \in holder /\ holder' = holder BY DEF TokenTakes, Accepts
<1>2. CASE offset[c] < Len(Body(array[c]))
  <2>1. /\ Received(c) = SubSeq(Body(array[c]), 1, offset[c] + Len(Units(c)))
        /\ Len(Received(c)) <= Len(Body(array[c])) /\ Sequence(c).total = Len(Body(array[c])) + 1
    BY <1>1, <1>2, ReceivedIs
  <2>2. Len(Body(array[c])) \in Nat /\ offset[c] # Len(Body(array[c]))
    BY <1>2, UnitsAre DEF TypeInv
  <2>3. Len(Received(c)) # Sequence(c).total
    <3> DEFINE n == Len(Body(array[c]))
    <3>1. n \in Nat /\ Len(Received(c)) <= n /\ Sequence(c).total = n + 1 BY <2>1, <2>2
    <3> HIDE DEF n
    <3>2. QED BY <3>1
  <2>4. stored' = stored /\ part' = [Sequence(c) EXCEPT !.buf = Received(c)]
    BY <2>3 DEF TokenTakes
  <2>5. Sequence(c) = InProgress(c) BY <1>1, SequenceIs
  <2>6. part' = [buf |-> Received(c), total |-> Total(c)] BY <2>4, <2>5 DEF InProgress
  <2>7. QED BY <1>1, <2>1, <2>2, <2>4, <2>6
<1>3. CASE offset[c] = Len(Body(array[c]))
  <2>1. Received(c) = Serialised(array[c]) /\ Len(Received(c)) = Sequence(c).total
    BY <1>1, <1>3, ReceivedIs
  <2>2. stored' = Serialised(array[c]) BY <2>1 DEF TokenTakes
  <2>3. Len(Body(array[c])) \in Nat BY UnitsAre DEF TypeInv
  <2>4. QED BY <1>1, <1>3, <2>2, <2>3
<1>4. QED BY <1>1, <1>2, <1>3, UnitsAre DEF TypeInv

\* How a step concerns a writer.
LEMMA WriterStep ==
  ASSUME TypeInv, Next, NEW d \in Clients, pc'[d] = "write"
  PROVE  \/ offset'[d] = 0
         \/ Write(d)
         \/ pc[d] = "write" /\ array'[d] = array[d] /\ offset'[d] = offset[d]
<1> DEFINE Same == pc'[d] = pc[d] /\ array'[d] = array[d] /\ offset'[d] = offset[d]
<1>1. ClientOK BY DEF TypeInv
<1>2. pc[d] # "write" => offset[d] = 0 BY <1>1 DEF ClientOK
<1>3. ASSUME NEW c \in Clients, NEW r, Return(c, r)
      PROVE  d # c /\ Same
  BY <1>1, <1>3 DEF Return, ClientOK
<1>4. ASSUME NEW c \in Clients, Call(c), c # d
      PROVE  Same
  BY <1>1, <1>4 DEF Call, ClientOK
<1>5. ASSUME NEW c \in Clients, Call(c), c = d
      PROVE  offset'[d] = 0
  BY <1>2, <1>5 DEF Call
<1>6. ASSUME NEW c \in Clients, Read(c)
      PROVE  offset'[d] = 0 \/ Same
  <2>1. CASE More(Chunk(c)) BY <1>6, <2>1 DEF Read
  <2>2. CASE ~More(Chunk(c))
    <3>1. Act(c, Loaded(got[c] \o Chunk(c))) /\ pc[c] = "read" BY <1>6, <2>2 DEF Read
    <3>2. CASE \E r : Return(c, r) BY <1>3, <3>2
    <3>3. CASE /\ \E a : array' = [array EXCEPT ![c] = a]
               /\ pc' = [pc EXCEPT ![c] = Writes] /\ offset' = offset
      <4>1. CASE c = d BY <1>2, <3>1, <3>3, <4>1
      <4>2. CASE c # d BY <1>1, <3>3, <4>2 DEF ClientOK
      <4>3. QED BY <4>1, <4>2
    <3>4. QED BY <3>1, <3>2, <3>3 DEF Act
  <2>3. QED BY <2>1, <2>2
<1>7. ASSUME NEW c \in Clients, ReadEmpty(c) \/ ReadRefused(c) \/ Fails(c)
      PROVE  Same
  BY <1>3, <1>7 DEF ReadEmpty, ReadRefused, Fails
<1>8. ASSUME NEW c \in Clients, GetUvToken(c)
      PROVE  offset'[d] = 0 \/ Same
  <2>1. CASE c = d BY <1>2, <1>8, <2>1 DEF GetUvToken
  <2>2. CASE c # d BY <1>1, <1>8, <2>2 DEF GetUvToken, ClientOK
  <2>3. QED BY <2>1, <2>2
<1>9. ASSUME NEW c \in Clients, Write(c), c # d
      PROVE  Same
  BY <1>1, <1>3, <1>9 DEF Write, ClientOK
<1>10. ASSUME TokenForgets PROVE Same BY <1>10 DEF TokenForgets, client
<1>11. QED
  <2> HIDE DEF Same
  <2>1. ASSUME NEW c \in Clients, Call(c) \/ Step(c) \/ Fails(c)
        PROVE  offset'[d] = 0 \/ Write(d) \/ Same
    BY <1>4, <1>5, <1>6, <1>7, <1>8, <1>9, <2>1 DEF Step
  <2>2. offset'[d] = 0 \/ Write(d) \/ Same BY <1>10, <2>1 DEF Next
  <2>3. QED BY <2>2 DEF Same

LEMMA WriteStep ==
  ASSUME TypeInv, WriteInv, Protected, Next
  PROVE  WriteInv'
<1> DEFINE Keeps(d) == \/ offset'[d] = 0
                       \/ pc[d] = "write" /\ array'[d] = array[d] /\ offset'[d] = offset[d]
<1>1. holder \subseteq Clients /\ ClientOK BY DEF TypeInv, TokenOK
<1>2. ASSUME holder' = holder, part' = part,
             \A d \in holder : pc'[d] = "write" => Keeps(d)
      PROVE  WriteInv'
  <2>1. ASSUME NEW d \in holder, pc'[d] = "write", offset'[d] > 0
        PROVE  part' = InProgress(d)'
    <3>1. pc[d] = "write" /\ array'[d] = array[d] /\ offset'[d] = offset[d]
      BY <1>2, <2>1
    <3>2. InProgress(d)' = InProgress(d) BY <3>1 DEF InProgress, Total
    <3>3. QED BY <1>2, <2>1, <3>1, <3>2 DEF WriteInv
  <2>2. QED BY <1>2, <2>1 DEF WriteInv
<1>3. ASSUME NEW c \in Clients, holder' = {c}, pc'[c] # "write" \/ offset'[c] = 0
      PROVE  WriteInv'
  BY <1>3 DEF WriteInv
<1>4. ASSUME NEW c \in Clients, pc[c] = "write", TokenTakes(c), pc'[c] # "write"
      PROVE  WriteInv'
  <2>1. c \in holder /\ holder' = holder BY <1>4, TakesInOrder
  <2>2. holder' = {c} BY <2>1 DEF WriteInv
  <2>3. QED BY <1>3, <1>4, <2>2
<1>5. ASSUME NEW c \in Clients, Write(c)
      PROVE  WriteInv'
  <2>1. CASE TokenTakes(c)
    <3>1. c \in holder /\ holder' = holder /\ pc[c] = "write"
      BY <1>5, <2>1, TakesInOrder DEF Write
    <3>2. CASE /\ offset[c] < Len(Body(array[c]))
               /\ offset' = [offset EXCEPT ![c] = @ + Advance(c)]
               /\ UNCHANGED <<pc, op, got, array, status>>
      <4>1. part' = [buf |-> SubSeq(Body(array[c]), 1, offset[c] + Len(Units(c))),
                     total |-> Total(c)]
        BY <2>1, <3>1, <3>2, TakesInOrder
      <4>2. offset'[c] = offset[c] + Len(Units(c)) BY <1>1, <3>2 DEF ClientOK, Advance
      <4>3. part' = InProgress(c)' BY <3>2, <4>1, <4>2 DEF InProgress, Total
      <4>4. \A d \in holder' : d = c BY <3>1 DEF WriteInv
      <4>5. QED BY <4>3, <4>4 DEF WriteInv
    <3>3. CASE \E r : Return(c, r)
      <4>1. pc'[c] = "idle" BY <1>1, <3>3 DEF Return, ClientOK
      <4>2. QED BY <1>4, <2>1, <3>1, <4>1
    <3>4. QED BY <1>5, <3>2, <3>3 DEF Write
  <2>2. CASE ~Accepts(c) /\ UNCHANGED token
    <3>1. Return(c, "error") BY <1>5, <2>2 DEF Write, StatusOk
    <3>2. ASSUME NEW d \in holder, pc'[d] = "write" PROVE Keeps(d)
      BY <1>1, <3>1, <3>2 DEF Return, ClientOK
    <3>3. QED BY <1>2, <2>2, <3>2 DEF token
  <2>3. QED BY <1>5, <2>1, <2>2 DEF Write
<1>6. CASE \A c \in Clients : ~Write(c)
  <2>1. ASSUME holder' = holder, part' = part PROVE WriteInv'
    BY <1>1, <1>2, <1>6, <2>1, WriterStep
  <2>2. CASE TokenForgets BY <2>2 DEF TokenForgets, WriteInv
  <2>3. ASSUME NEW c \in Clients, Call(c) \/ Read(c) \/ ReadEmpty(c) \/ ReadRefused(c)
        PROVE  WriteInv'
    BY <2>1, <2>3 DEF Call, Read, ReadEmpty, ReadRefused, token
  <2>4. ASSUME NEW c \in Clients, GetUvToken(c)
        PROVE  WriteInv'
    <3>1. offset'[c] = 0 /\ holder' = {c} BY <1>1, <2>4 DEF GetUvToken, ClientOK
    <3>2. QED BY <1>3, <3>1
  <2>5. ASSUME NEW c \in Clients, Fails(c)
        PROVE  WriteInv'
    <3>1. pc'[c] = "idle" BY <1>1, <2>5 DEF Fails, Return, ClientOK
    <3>2. CASE UNCHANGED token BY <2>1, <3>2 DEF token
    <3>3. CASE holder' = {c} BY <1>3, <3>1, <3>3
    <3>4. CASE pc[c] = "write" /\ TokenTakes(c) BY <1>4, <3>1, <3>4
    <3>5. QED BY <2>5, <3>2, <3>3, <3>4 DEF Fails
  <2>6. QED BY <1>6, <2>2, <2>3, <2>4, <2>5 DEF Next, Step
<1>7. QED BY <1>5, <1>6
-----------------------------------------------------------------------------
(* The inductive invariant, and what follows from it.                      *)

IInv == TypeInv /\ StoredWhole /\ ReadInv /\ WriteInv

LEMMA Invariant == ASSUME Protected PROVE Spec => []IInv
<1>1. Init => IInv
  <2>1. SUFFICES ASSUME Init PROVE IInv OBVIOUS
  <2>2. TypeInv /\ StoredWhole BY <2>1, InitOK
  <2>3. ReadInv BY <2>1 DEF Init, ReadInv, DigestsSeen
  <2>4. WriteInv BY <2>1 DEF Init, WriteInv
  <2>5. QED BY <2>2, <2>3, <2>4 DEF IInv
<1>2. IInv /\ [Next]_vars => IInv'
  <2>1. SUFFICES ASSUME IInv, [Next]_vars PROVE IInv' OBVIOUS
  <2>2. CASE Next
    <3>1. ClientOK' /\ TokenOK' /\ StoredWhole' BY <2>1, <2>2, StepOK DEF IInv
    <3>2. SeenOK' BY <2>1, <2>2, <3>1, SeenStep DEF Next, IInv
    <3>3. TypeInv' BY <3>1, <3>2 DEF TypeInv
    <3>4. ReadInv' BY <2>1, <2>2, <3>1, <3>3, ReadStep DEF IInv
    <3>5. WriteInv' BY <2>1, <2>2, WriteStep DEF IInv
    <3>6. QED BY <3>1, <3>3, <3>4, <3>5 DEF IInv
  <2>3. CASE UNCHANGED vars
    <3>1. TypeInv' /\ StoredWhole' BY <2>1, <2>3, Stuttering DEF IInv
    <3>2. ReadInv'
      BY <2>1, <2>3 DEF IInv, ReadInv, DigestsSeen, Disturbed, vars, client, token
    <3>3. WriteInv'
      BY <2>1, <2>3 DEF IInv, WriteInv, InProgress, Total, vars, client, token
    <3>4. QED BY <3>1, <3>2, <3>3 DEF IInv
  <2>4. QED BY <2>1, <2>2, <2>3
<1>3. QED BY <1>1, <1>2, PTL DEF Spec

\* A client moves only by a step of its own.
LEMMA OwnStep ==
  ASSUME TypeInv, Next, NEW c \in Clients, pc'[c] # pc[c]
  PROVE  Call(c) \/ Step(c) \/ Fails(c)
<1>1. ClientOK BY DEF TypeInv
<1>2. ASSUME NEW d \in Clients, d # c, NEW p, pc' = [pc EXCEPT ![d] = p]
      PROVE  FALSE
  BY <1>1, <1>2 DEF ClientOK
<1>3. ASSUME NEW d \in Clients, d # c, NEW r, Return(d, r)
      PROVE  FALSE
  BY <1>2, <1>3 DEF Return
<1>4. ASSUME NEW d \in Clients, d # c, Call(d)
      PROVE  FALSE
  BY <1>1, <1>4 DEF Call, ClientOK
<1>5. ASSUME NEW d \in Clients, d # c, Read(d)
      PROVE  FALSE
  <2>1. CASE More(Chunk(d)) BY <1>5, <2>1 DEF Read
  <2>2. CASE ~More(Chunk(d))
    <3>1. Act(d, Loaded(got[d] \o Chunk(d))) BY <1>5, <2>2 DEF Read
    <3>2. QED BY <1>2, <1>3, <1>5, <3>1 DEF Act
  <2>3. QED BY <2>1, <2>2
<1>6. ASSUME NEW d \in Clients, d # c, GetUvToken(d) \/ Write(d)
      PROVE  FALSE
  BY <1>2, <1>3, <1>6 DEF GetUvToken, Write
<1>7. ASSUME NEW d \in Clients, d # c, ReadEmpty(d) \/ ReadRefused(d) \/ Fails(d)
      PROVE  FALSE
  BY <1>3, <1>7 DEF ReadEmpty, ReadRefused, Fails
<1>8. ~TokenForgets BY DEF TokenForgets, client
<1>9. QED BY <1>4, <1>5, <1>6, <1>7, <1>8 DEF Next, Step

\* How a write ends.
LEMMA WriteEnds ==
  ASSUME TypeInv, WriteInv, Protected, NEW c \in Clients, Write(c)
  PROVE  \/ /\ UNCHANGED <<pc, op, array, status, stored>>
         \/ Return(c, "ok") /\ stored' = Serialised(array[c])
         \/ Return(c, "error") /\ UNCHANGED stored
<1>1. pc[c] = "write" BY DEF Write
<1>2. CASE TokenTakes(c)
  <2>1. StatusOk(c) BY <1>2 DEF TokenTakes, StatusOk
  <2>2. CASE /\ offset[c] < Len(Body(array[c]))
             /\ UNCHANGED <<pc, op, got, array, status>>
    BY <1>1, <1>2, <2>2, TakesInOrder
  <2>3. CASE offset[c] = Len(Body(array[c])) /\ Return(c, "ok")
    BY <1>1, <1>2, <2>3, TakesInOrder
  <2>4. QED BY <2>1, <2>2, <2>3 DEF Write
<1>3. CASE ~Accepts(c) /\ UNCHANGED token
  BY <1>3 DEF Write, StatusOk, token
<1>4. QED BY <1>2, <1>3 DEF Write

(* On a token that asks for a PIN/UV token, FIDO_OK from a call that writes *)
(* means that the array it wrote is the one that the token has, whatever    *)
(* other clients, failures and power cycles come in between its chunks.     *)
THEOREM AckedIsStoredAlways == ASSUME Protected PROVE Spec => AckedIsStored
<1> DEFINE Acked(c) == pc[c] = "write" /\ pc'[c] = "idle" /\ status'[c] = "ok" =>
                         stored' = Serialised(array[c])
<1>1. IInv /\ [Next]_vars => [\A c \in Clients : Acked(c)]_vars
  <2>1. SUFFICES ASSUME IInv, Next, NEW c \in Clients,
                        pc[c] = "write", pc'[c] = "idle", status'[c] = "ok"
                 PROVE  stored' = Serialised(array[c])
    OBVIOUS
  <2>2. Call(c) \/ Step(c) \/ Fails(c) BY <2>1, OwnStep DEF IInv
  <2>3. ASSUME Return(c, "error") PROVE FALSE
    BY <2>1, <2>3 DEF Return, IInv, TypeInv, ClientOK
  <2>4. ~Call(c) /\ ~Read(c) /\ ~ReadEmpty(c) /\ ~ReadRefused(c) /\ ~GetUvToken(c)
    BY <2>1 DEF Call, Read, ReadEmpty, ReadRefused, GetUvToken
  <2>5. Write(c) BY <2>2, <2>3, <2>4 DEF Step, Fails
  <2>6. QED BY <2>1, <2>3, <2>5, WriteEnds DEF IInv
<1>2. QED BY <1>1, Invariant, PTL DEF Spec, AckedIsStored
-----------------------------------------------------------------------------
(* Every step is one of BlobStore, or none.                                *)

LEMMA AtMoves ==
  ASSUME ClientOK, NEW c \in Clients, NEW p, pc' = [pc EXCEPT ![c] = p]
  PROVE  At' = [At EXCEPT ![c] = CASE p = "idle" -> "out"
                                   [] p = "read" -> "look"
                                   [] OTHER -> "change"]
BY DEF ClientOK, At

LEMMA AtChanges ==
  ASSUME ClientOK, NEW c \in Clients, pc' = [pc EXCEPT ![c] = Writes]
  PROVE  At' = [At EXCEPT ![c] = "change"]
<1>1. Writes = "auth" \/ Writes = "write" BY DEF Writes
<1>2. QED BY <1>1, AtMoves

LEMMA EndMaps ==
  ASSUME ClientOK, NEW c \in Clients, NEW r, Return(c, r)
  PROVE  Store!End(c, IF r = "internal" THEN "error" ELSE r)
<1>1. At' = [At EXCEPT ![c] = "out"] BY AtMoves DEF Return
<1>2. Ended' = [Ended EXCEPT ![c] = IF r = "internal" THEN "error" ELSE r]
  BY DEF Return, ClientOK, Ended
<1>3. QED BY <1>1, <1>2 DEF Return, Store!End

\* Store!Observe is Observe.
LEMMA ObserveMaps ==
  ASSUME ClientOK', Observe
  PROVE  Store!Observe
<1>1. \A c \in Clients : (pc'[c] = "read") <=> (At'[c] = "look")
  BY DEF At, ClientOK
<1>2. QED BY <1>1 DEF Observe, Store!Observe

\* Nobody looking sees another list, and the others see none.
LEMMA Quiet ==
  ASSUME TypeInv, ClientOK', Observe, UNCHANGED <<stored, op, array>>,
         At' = At, Ended' = Ended
  PROVE  UNCHANGED Store!vars
<1>1. ASSUME NEW c \in Clients
      PROVE  (IF pc'[c] = "read" THEN seen[c] \cup {Loaded(stored')} ELSE {}) = seen[c]
  <2>1. (pc'[c] = "read") <=> (pc[c] = "read") BY DEF At, ClientOK, TypeInv
  <2>2. QED BY <2>1 DEF TypeInv, SeenOK
<1>2. seen' = seen BY <1>1 DEF Observe, TypeInv, SeenOK
<1>3. QED BY <1>2 DEF Store!vars

LEMMA PutMaps ==
  ASSUME NEW a \in Seq(Element), NEW k, NEW v
  PROVE  /\ Found(a, k) => ReplaceAt(a, Lookup(a, k), [key |-> k, val |-> v])
                             = Store!Put(a, k, v)
         /\ ~Found(a, k) => Append(a, [key |-> k, val |-> v]) = Store!Put(a, k, v)
<1>1. Found(a, k) <=> Store!Has(a, k) BY DEF Found, Decrypts, Store!Has
<1>2. CASE Found(a, k)
  <2>1. /\ Lookup(a, k) \in 1 .. Len(a) /\ DOMAIN a = 1 .. Len(a) /\ a[Lookup(a, k)].key = k
        /\ \A j \in 1 .. Lookup(a, k) - 1 : a[j].key # k
    BY <1>2, LeastFound
  <2>2. \A i \in DOMAIN a : Store!IsFirst(a, i, k) <=> i = Lookup(a, k)
    BY <2>1 DEF Store!IsFirst
  <2>3. ReplaceAt(a, Lookup(a, k), [key |-> k, val |-> v])
          = [i \in DOMAIN a |->
               IF Store!IsFirst(a, i, k) THEN [key |-> k, val |-> v] ELSE a[i]]
    BY <2>2 DEF ReplaceAt
  <2>4. QED BY <1>1, <1>2, <2>3 DEF Store!Put
<1>3. CASE ~Found(a, k) BY <1>1, <1>3 DEF Store!Put
<1>4. QED BY <1>2, <1>3

LEMMA DropMaps ==
  ASSUME NEW a \in Seq(Element), NEW k, Found(a, k)
  PROVE  RemoveAt(a, Lookup(a, k)) \in Store!Dropped(a, k)
<1>1. /\ Lookup(a, k) \in 1 .. Len(a) /\ DOMAIN a = 1 .. Len(a) /\ a[Lookup(a, k)].key = k
      /\ \A j \in 1 .. Lookup(a, k) - 1 : a[j].key # k
  BY LeastFound
<1>2. Store!IsFirst(a, Lookup(a, k), k) BY <1>1 DEF Store!IsFirst
<1>3. QED BY <1>1, <1>2 DEF Store!Dropped, RemoveAt

\* What the writer decides is what BlobStore has it decide.
LEMMA ChangedMaps ==
  ASSUME NEW a \in Seq(Element), NEW o \in Ops
  PROVE  /\ o.kind = "set" => Changed(o, a) = Store!Put(a, o.key, o.val)
         /\ o.kind = "remove" /\ Found(a, o.key) => Changed(o, a) \in Store!Dropped(a, o.key)
<1>1. CASE o.kind = "set"
  <2>1. CASE Found(a, o.key) BY <1>1, <2>1, PutMaps DEF Changed, Encoded
  <2>2. CASE ~Found(a, o.key) BY <1>1, <2>2, PutMaps DEF Changed, Encoded
  <2>3. QED BY <1>1, <2>1, <2>2
<1>2. CASE o.kind = "remove" BY <1>2, DropMaps DEF Changed, Encoded
<1>3. QED BY <1>1, <1>2

LEMMA CallMaps ==
  ASSUME TypeInv, NEW c \in Clients, Call(c)
  PROVE  Store!Start(c)
<1>1. PICK o \in Ops :
        /\ op' = [op EXCEPT ![c] = o]
        /\ IF o.kind = "set_array"
           THEN /\ pc' = [pc EXCEPT ![c] = Writes]
                /\ array' = [array EXCEPT ![c] = o.array]
           ELSE pc' = [pc EXCEPT ![c] = "read"] /\ UNCHANGED array
  BY DEF Call
<1>2. Ended' = [Ended EXCEPT ![c] = "none"]
  BY DEF Call, Ended, TypeInv, ClientOK
<1>3. At[c] = "out" /\ Loaded(stored)' = Loaded(stored) BY DEF Call, At, token
<1>4. IF o.kind = "set_array"
      THEN /\ At' = [At EXCEPT ![c] = "change"]
           /\ array' = [array EXCEPT ![c] = o.array]
      ELSE At' = [At EXCEPT ![c] = "look"] /\ UNCHANGED array
  <2>1. CASE o.kind = "set_array"
    <3>1. pc' = [pc EXCEPT ![c] = Writes] BY <1>1, <2>1
    <3>2. At' = [At EXCEPT ![c] = "change"] BY <3>1, AtChanges DEF TypeInv
    <3>3. QED BY <1>1, <2>1, <3>2
  <2>2. CASE o.kind # "set_array"
    <3>1. pc' = [pc EXCEPT ![c] = "read"] BY <1>1, <2>2
    <3>2. At' = [At EXCEPT ![c] = "look"] BY <3>1, AtMoves DEF TypeInv
    <3>3. QED BY <1>1, <2>2, <3>2
  <2>3. QED BY <2>1, <2>2
<1>5. QED BY <1>1, <1>2, <1>3, <1>4 DEF Store!Start

\* The last chunk: the list found is one that BlobStore lets the call find.
LEMMA ActMaps ==
  ASSUME TypeInv, StoredWhole, ReadInv, NEW c \in Clients, Read(c), ~More(Chunk(c))
  PROVE  Store!Reads(c) \/ Store!Decides(c)
<1> DEFINE a == Loaded(got[c] \o Chunk(c))
<1>1. a \in Store!Views(c) BY ViewSeen DEF Disturbed, Store!Views
<1>2. a \in Seq(Element) BY ReadOK, LoadedIsArray
<1>3. /\ pc[c] = "read" /\ Act(c, a) /\ UNCHANGED token /\ op[c] \in Ops /\ ClientOK
  BY DEF Read, TypeInv, ClientOK
<1> HIDE DEF a
<1>4. At[c] = "look" /\ Loaded(stored)' = Loaded(stored) BY <1>3 DEF At, token
<1>5. Found(a, op[c].key) <=> Store!Has(a, op[c].key) BY DEF Found, Decrypts, Store!Has
<1>6. \A r \in {"ok", "notfound"} : Return(c, r) => Store!End(c, r)
  BY <1>3, EndMaps
<1>7. CASE op[c].kind = "get_array" /\ Return(c, "ok")
  BY <1>1, <1>4, <1>6, <1>7 DEF Store!Reads
<1>8. CASE /\ op[c].kind = "get"
           /\ Return(c, IF Found(a, op[c].key) THEN "ok" ELSE "notfound")
  BY <1>1, <1>4, <1>5, <1>6, <1>8 DEF Store!Reads
<1>9. CASE op[c].kind = "remove" /\ ~Found(a, op[c].key) /\ Return(c, "notfound")
  BY <1>1, <1>4, <1>5, <1>6, <1>9 DEF Store!Reads
<1>10. CASE /\ op[c].kind = "set" \/ (op[c].kind = "remove" /\ Found(a, op[c].key))
            /\ array' = [array EXCEPT ![c] = Changed(op[c], a)]
            /\ pc' = [pc EXCEPT ![c] = Writes]
            /\ UNCHANGED <<op, status>>
  <2>1. At' = [At EXCEPT ![c] = "change"] BY <1>3, <1>10, AtChanges
  <2>2. Ended' = Ended BY <1>10 DEF Ended
  <2>3. \/ op[c].kind = "set" /\ Changed(op[c], a) = Store!Put(a, op[c].key, op[c].val)
        \/ op[c].kind = "remove" /\ Changed(op[c], a) \in Store!Dropped(a, op[c].key)
    BY <1>2, <1>3, <1>10, ChangedMaps
  <2>4. QED BY <1>1, <1>4, <1>10, <2>1, <2>2, <2>3 DEF Store!Decides
<1>11. QED BY <1>3, <1>7, <1>8, <1>9, <1>10 DEF Act

\* A call that fails, whether or not it has been carried out.
LEMMA FailsMaps ==
  ASSUME TypeInv, NEW c \in Clients, pc[c] # "idle", NEW r \in {"error", "internal"},
         Return(c, r),
         stored' = stored \/ (pc[c] = "write" /\ stored' = Serialised(array[c]))
  PROVE  Store!Fails(c)
<1>1. ClientOK /\ array[c] \in Seq(Element) BY DEF TypeInv, ClientOK
<1>2. Store!End(c, "error") BY <1>1, EndMaps
<1>3. At[c] # "out" /\ (pc[c] = "write" => At[c] = "change") BY DEF At
<1>4. stored' = Serialised(array[c]) => Loaded(stored') = array[c]
  BY <1>1, SerialisedLoads
<1>5. QED BY <1>2, <1>3, <1>4 DEF Store!Fails

LEMMA WriteMaps ==
  ASSUME IInv, Protected, ClientOK', Observe, NEW c \in Clients, Write(c)
  PROVE  Store!Changes(c) \/ Store!Fails(c) \/ UNCHANGED Store!vars
<1>1. TypeInv /\ WriteInv /\ ClientOK /\ pc[c] = "write" BY DEF IInv, TypeInv, Write
<1>2. array[c] \in Seq(Element) /\ At[c] = "change" BY <1>1 DEF ClientOK, At
<1>3. CASE UNCHANGED <<pc, op, array, status, stored>>
  <2>1. At' = At /\ Ended' = Ended BY <1>3 DEF At, Ended
  <2>2. QED BY <1>1, <1>3, <2>1, Quiet
<1>4. CASE Return(c, "ok") /\ stored' = Serialised(array[c])
  <2>1. Store!End(c, "ok") BY <1>1, <1>4, EndMaps
  <2>2. Loaded(stored') = array[c] BY <1>2, <1>4, SerialisedLoads
  <2>3. QED BY <1>2, <2>1, <2>2 DEF Store!Changes
<1>5. CASE Return(c, "error") /\ UNCHANGED stored BY <1>1, <1>5, FailsMaps
<1>6. QED BY <1>1, <1>3, <1>4, <1>5, WriteEnds

LEMMA StepMaps ==
  ASSUME IInv, Protected, Next, ClientOK'
  PROVE  Store!Next \/ UNCHANGED Store!vars
<1>1. TypeInv /\ StoredWhole /\ ReadInv /\ WriteInv /\ ClientOK /\ Observe
  BY DEF IInv, TypeInv, Next
<1>2. Store!Observe BY <1>1, ObserveMaps
<1>3. ASSUME UNCHANGED <<stored, op, array, status>>, At' = At
      PROVE  UNCHANGED Store!vars
  <2>1. Ended' = Ended BY <1>3 DEF Ended
  <2>2. QED BY <1>1, <1>3, <2>1, Quiet
<1>4. CASE TokenForgets BY <1>3, <1>4 DEF TokenForgets, client, At
<1>5. ASSUME NEW c \in Clients, Call(c)
      PROVE  Store!Next
  BY <1>1, <1>2, <1>5, CallMaps DEF Store!Next
<1>6. ASSUME NEW c \in Clients, Read(c)
      PROVE  Store!Next \/ UNCHANGED Store!vars
  <2>1. CASE More(Chunk(c))
    <3>1. UNCHANGED <<pc, op, array, status, stored>> BY <1>6, <2>1 DEF Read, token
    <3>2. QED BY <1>3, <3>1 DEF At
  <2>2. CASE ~More(Chunk(c)) BY <1>1, <1>2, <1>6, <2>2, ActMaps DEF Store!Next
  <2>3. QED BY <2>1, <2>2
<1>7. ASSUME NEW c \in Clients, ReadEmpty(c) \/ ReadRefused(c)
      PROVE  Store!Next
  <2>1. pc[c] # "idle" /\ stored' = stored /\ \E r \in {"error", "internal"} : Return(c, r)
    BY <1>7 DEF ReadEmpty, ReadRefused, token
  <2>2. Store!Fails(c) BY <1>1, <2>1, FailsMaps
  <2>3. QED BY <1>2, <2>2 DEF Store!Next
<1>8. ASSUME NEW c \in Clients, GetUvToken(c)
      PROVE  UNCHANGED Store!vars
  <2>1. At' = [At EXCEPT ![c] = "change"] /\ At[c] = "change"
    BY <1>1, <1>8, AtMoves DEF GetUvToken, At
  <2>2. At' = At BY <2>1 DEF At
  <2>3. QED BY <1>3, <1>8, <2>2 DEF GetUvToken
<1>9. ASSUME NEW c \in Clients, Write(c)
      PROVE  Store!Next \/ UNCHANGED Store!vars
  BY <1>1, <1>2, <1>9, WriteMaps DEF Store!Next
<1>10. ASSUME NEW c \in Clients, Fails(c)
       PROVE  Store!Next
  <2>1. pc[c] # "idle" /\ Return(c, "error") BY <1>10 DEF Fails
  <2>2. stored' = stored \/ (pc[c] = "write" /\ stored' = Serialised(array[c]))
    <3>1. CASE pc[c] = "write" /\ TokenTakes(c) BY <1>1, <3>1, TakesInOrder, UnitsAre
    <3>2. CASE stored' = stored BY <3>2
    <3>3. QED BY <1>10, <3>1, <3>2 DEF Fails, token
  <2>3. Store!Fails(c) BY <1>1, <2>1, <2>2, FailsMaps
  <2>4. QED BY <1>2, <2>3 DEF Store!Next
<1>11. QED BY <1>4, <1>5, <1>6, <1>7, <1>8, <1>9, <1>10 DEF Next, Step

(* On a token that asks for a PIN/UV token, the calls of largeblob.c, each *)
(* made of many requests any of which may be lost or come between those of *)
(* another client, implement BlobStore: one step finds a list and one puts *)
(* a list in place.                                                        *)
THEOREM ImplementsBlobStore == ASSUME Protected PROVE Spec => StoreSpec
<1>1. Init => Store!Init
  <2>1. SUFFICES ASSUME Init PROVE Store!Init OBVIOUS
  <2>2. <<>> \in Seq(Element) OBVIOUS
  <2>3. Loaded(stored) = <<>> BY <2>1, <2>2, SerialisedLoads, BrokenIs DEF Init
  <2>4. QED BY <2>1, <2>3 DEF Init, Store!Init, At, Ended
<1>2. IInv /\ IInv' /\ [Next]_vars => [Store!Next]_Store!vars
  <2>1. SUFFICES ASSUME IInv, IInv', [Next]_vars
                 PROVE  Store!Next \/ UNCHANGED Store!vars
    OBVIOUS
  <2>2. CASE Next BY <2>1, <2>2, StepMaps DEF IInv, TypeInv
  <2>3. CASE UNCHANGED vars
    BY <2>3 DEF vars, client, token, Store!vars, At, Ended
  <2>4. QED BY <2>1, <2>2, <2>3
<1>3. QED BY <1>1, <1>2, Invariant, PTL DEF Spec, StoreSpec, Store!Spec
=============================================================================
