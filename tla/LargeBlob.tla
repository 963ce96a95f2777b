----------------------------- MODULE LargeBlob -----------------------------
(***************************************************************************)
(* The large blobs of a token, src/src/largeblob.c.  The token keeps one   *)
(* array for everybody, and only stores it: a client that sets or removes  *)
(* one blob reads the array chunk by chunk, changes it, and writes all of  *)
(* it back chunk by chunk, a digest last, which makes the token take it.   *)
(*                                                                         *)
(* The serialised array is a sequence of units: its CBOR header, the parts *)
(* of each element, and the digest, which no two arrays share.  A chunk is *)
(* some number of units.  A request and its reply are one step; other      *)
(* clients get in between, if their handles are not locked as HidOpen has  *)
(* it.                                                                     *)
(***************************************************************************)
EXTENDS Naturals, SequencesExt

CONSTANTS
  Clients,     \* processes or threads with a device object on the token
  Keys, Vals,  \* keys and contents of blobs
  UserArrays,  \* arrays that are given to fido_dev_largeblob_set_array
  Parts,       \* units of an element
  MaxChunk,    \* get_chunklen: not 0, or every call fails at once
  Capacity,    \* units the token has room for
  Protected    \* there is a PIN, or the token has permissions

ASSUME LargeBlobAssumption ==
  /\ UserArrays \subseteq Seq([key : Keys, val : Vals])
  /\ Parts \in Nat \ {0} /\ MaxChunk \in Nat \ {0}
  /\ Capacity \in Nat
  /\ Protected \in BOOLEAN

VARIABLES
  pc,      \* "idle", "read" (largeblob_get_array), "auth" (largeblob_get_uv_token),
           \* or "write" (the rest of largeblob_set_array)
  op,      \* the call: its kind and arguments
  got,     \* the units read so far
  array,   \* the array to write back
  offset,  \* units of it written so far
  status,  \* what the last call returned
  stored,  \* token: the array, serialised
  part,    \* token: the array being written, and its total length
  holder,  \* token: who obtained the PIN/UV token now valid
  seen     \* the arrays the token has had while the call read

client == <<pc, op, got, array, offset, status>>
token  == <<stored, part, holder>>
vars   == <<client, token, seen>>

Element == [key : Keys, val : Vals]

Ops == [kind : {"get", "remove"}, key : Keys] \cup
       [kind : {"get_array"}] \cup
       [kind : {"set"}, key : Keys, val : Vals] \cup
       [kind : {"set_array"}, array : UserArrays]
NoOp == [kind |-> "none"]

\* The serialised array without, and with, its digest.
Body(a) == <<[is |-> "header", n |-> Len(a)]>> \o
           [i \in 1 .. Len(a) * Parts |->
              [is |-> "element", of |-> a[(i - 1) \div Parts + 1], part |-> i % Parts]]

Digest(body) == [is |-> "digest", of |-> body]

Serialised(a) == Append(Body(a), Digest(Body(a)))

\* What is left if the token lost power at the wrong moment.
Broken == <<[is |-> "header", n |-> 1]>>

Nothing == [buf |-> <<>>, total |-> 0]

Init ==
  /\ pc = [c \in Clients |-> "idle"]
  /\ op = [c \in Clients |-> NoOp]
  /\ got = [c \in Clients |-> <<>>]
  /\ array = [c \in Clients |-> <<>>]
  /\ offset = [c \in Clients |-> 0]
  /\ status = [c \in Clients |-> "none"]
  /\ stored \in {Serialised(<<>>), Broken}
  /\ part = Nothing /\ holder = {}
  /\ seen = [c \in Clients |-> {}]

\* The call returns.
Return(c, r) ==
  /\ pc' = [pc EXCEPT ![c] = "idle"]
  /\ op' = [op EXCEPT ![c] = NoOp]
  /\ status' = [status EXCEPT ![c] = r]
  /\ got' = [got EXCEPT ![c] = <<>>]
  /\ array' = [array EXCEPT ![c] = <<>>]
  /\ offset' = [offset EXCEPT ![c] = 0]
-----------------------------------------------------------------------------
(* fido_dev_largeblob_get, _set, _remove, _get_array, _set_array.          *)

\* largeblob_array_check.  Faulty variant: an array that parses will do.
Check_Parses(s) == Len(s) >= 2 /\ s[1].n * Parts = Len(s) - 2

Check(s) == /\ Len(s) >= 2
            /\ s[Len(s)] = Digest(SubSeq(s, 1, Len(s) - 1))

\* largeblob_array_load, or the empty array if the digest is wrong.
Loaded(s) ==
  IF Check(s) THEN [i \in 1 .. s[1].n |-> s[i * Parts + 1].of] ELSE <<>>

\* largeblob_encode: an element holds what is sealed in it and the key it takes
\* to open it, but not in the clear.
Encoded(k, v) == [key |-> k, val |-> v]

\* largeblob_decode and largeblob_decrypt.  An element that is no blob is like
\* one of another key: it is passed over.
Decrypts(e, k) == e.key = k

\* largeblob_array_lookup: the first element that the key decrypts.
Found(a, k) == \E i \in DOMAIN a : Decrypts(a[i], k)

Lookup(a, k) ==
  CHOOSE i \in DOMAIN a : Decrypts(a[i], k) /\ \A j \in 1 .. i - 1 : ~Decrypts(a[j], k)

\* The array changed as largeblob_add and largeblob_drop change it.
Changed(o, a) ==
  CASE o.kind = "set" /\ Found(a, o.key) ->
         ReplaceAt(a, Lookup(a, o.key), Encoded(o.key, o.val))
    [] o.kind = "set" /\ ~Found(a, o.key) ->
         Append(a, Encoded(o.key, o.val))
    [] o.kind = "remove" -> RemoveAt(a, Lookup(a, o.key))

\* Where largeblob_set_array goes first.
Writes == IF Protected THEN "auth" ELSE "write"

Call(c) ==
  /\ pc[c] = "idle"
  /\ \E o \in Ops :
       /\ op' = [op EXCEPT ![c] = o]
       /\ IF o.kind = "set_array"
          THEN /\ pc' = [pc EXCEPT ![c] = Writes]
               /\ array' = [array EXCEPT ![c] = o.array]
          ELSE pc' = [pc EXCEPT ![c] = "read"] /\ UNCHANGED array
  /\ status' = [status EXCEPT ![c] = "none"]
  /\ UNCHANGED <<got, offset, token>>

\* The reply to a request for MaxChunk units from where the last one ended.
Chunk(c) ==
  SubSeq(stored, Len(got[c]) + 1,
         Min({Len(stored), Len(got[c]) + MaxChunk}))

\* The loop of largeblob_get_array goes on after a chunk that was full.
\* Faulty variant: one chunk is all there is.
More_Never(chunk) == FALSE

More(chunk) == Len(chunk) = MaxChunk

\* The array has been read: what the callers of largeblob_get_array do next.
Act(c, a) ==
  \/ op[c].kind = "get_array" /\ Return(c, "ok")
  \/ /\ op[c].kind = "get"
     /\ Return(c, IF Found(a, op[c].key) THEN "ok" ELSE "notfound")
  \/ op[c].kind = "remove" /\ ~Found(a, op[c].key) /\ Return(c, "notfound")
  \/ /\ op[c].kind = "set" \/ (op[c].kind = "remove" /\ Found(a, op[c].key))
     /\ array' = [array EXCEPT ![c] = Changed(op[c], a)]
     /\ pc' = [pc EXCEPT ![c] = Writes]
     /\ got' = [got EXCEPT ![c] = <<>>]
     /\ UNCHANGED <<op, offset, status>>

\* largeblob_get_tx and largeblob_get_rx.
Read(c) ==
  /\ pc[c] = "read" /\ Chunk(c) # <<>>
  /\ IF More(Chunk(c))
     THEN /\ got' = [got EXCEPT ![c] = @ \o Chunk(c)]
          /\ UNCHANGED <<pc, op, array, offset, status>>
     ELSE Act(c, Loaded(got[c] \o Chunk(c)))
  /\ UNCHANGED token

\* fido_blob_append appends no empty chunk.
ReadEmpty(c) ==
  /\ pc[c] = "read" /\ Len(got[c]) = Len(stored)
  /\ Return(c, "internal")
  /\ UNCHANGED token

\* The array has become shorter than what has been read: the token's error.
ReadRefused(c) ==
  /\ pc[c] = "read" /\ Len(got[c]) > Len(stored)
  /\ Return(c, "error")
  /\ UNCHANGED token

\* largeblob_get_uv_token: any other client's is no longer valid.
GetUvToken(c) ==
  /\ pc[c] = "auth"
  /\ pc' = [pc EXCEPT ![c] = "write"]
  /\ holder' = {c}
  /\ UNCHANGED <<op, got, array, offset, status, stored, part>>
-----------------------------------------------------------------------------
(* largeblob_set_array: the chunks of the body, then the digest.           *)

\* What largeblob_set_tx sends, and the total it announces with the first.
Units(c) ==
  LET body == Body(array[c])
  IN  IF offset[c] < Len(body)
      THEN SubSeq(body, offset[c] + 1, Min({Len(body), offset[c] + MaxChunk}))
      ELSE <<Digest(body)>>

Total(c) == Len(Body(array[c])) + 1

\* The token starts an array at offset 0, and goes on where it left off.
Sequence(c) ==
  IF offset[c] = 0 THEN [buf |-> <<>>, total |-> Total(c)] ELSE part

Received(c) == Sequence(c).buf \o Units(c)

\* The request is in order, authorised, and there is room for the array; and
\* if it completes the array, the digest is right.
Accepts(c) ==
  /\ Protected => c \in holder
  /\ Sequence(c).total <= Capacity
  /\ offset[c] = Len(Sequence(c).buf)
  /\ Len(Received(c)) <= Sequence(c).total
  /\ Len(Received(c)) = Sequence(c).total => Check(Received(c))

\* The token stores the array when it is complete.
TokenTakes(c) ==
  /\ Accepts(c)
  /\ IF Len(Received(c)) = Sequence(c).total
     THEN stored' = Received(c) /\ part' = Nothing
     ELSE part' = [Sequence(c) EXCEPT !.buf = Received(c)] /\ UNCHANGED stored
  /\ UNCHANGED holder

\* How far the loop goes on.  Faulty variant: the last chunk counts as full.
Advance_Full(c) == MaxChunk

Advance(c) == Len(Units(c))

\* fido_rx_cbor_status.  Faulty variant: the status is not looked at.
StatusOk_Ignored(c) == TRUE

StatusOk(c) == Accepts(c)

Write(c) ==
  /\ pc[c] = "write"
  /\ TokenTakes(c) \/ (~Accepts(c) /\ UNCHANGED token)
  /\ \/ /\ StatusOk(c) /\ offset[c] < Len(Body(array[c]))
        /\ offset' = [offset EXCEPT ![c] = @ + Advance(c)]
        /\ UNCHANGED <<pc, op, got, array, status>>
     \/ StatusOk(c) /\ offset[c] = Len(Body(array[c])) /\ Return(c, "ok")
     \/ ~StatusOk(c) /\ Return(c, "error")

\* A request or a reply is lost, or the process ends: the token may have done
\* what it was asked.
Fails(c) ==
  /\ pc[c] # "idle"
  /\ Return(c, "error")
  /\ \/ UNCHANGED token
     \/ pc[c] = "auth" /\ holder' = {c} /\ UNCHANGED <<stored, part>>
     \/ pc[c] = "write" /\ TokenTakes(c)

\* Something else is done with the token, or it loses power.
TokenForgets ==
  /\ part' = Nothing /\ holder' = {}
  /\ UNCHANGED <<client, stored>>

Step(c) == Read(c) \/ ReadEmpty(c) \/ ReadRefused(c) \/ GetUvToken(c) \/ Write(c)

Observe ==
  seen' = [c \in Clients |-> IF pc'[c] = "read" THEN seen[c] \cup {Loaded(stored')} ELSE {}]

Next == /\ \/ TokenForgets
           \/ \E c \in Clients : Call(c) \/ Step(c) \/ Fails(c)
        /\ Observe

Spec == Init /\ [][Next]_vars
-----------------------------------------------------------------------------
IsUnit(u) ==
  \/ u.is = "header" /\ u.n \in Nat
  \/ u.is = "element" /\ u.of \in Element /\ u.part \in 0 .. Parts - 1
  \/ u.is = "digest"

TypeOK ==
  /\ pc \in [Clients -> {"idle", "read", "auth", "write"}]
  /\ op \in [Clients -> Ops \cup {NoOp}]
  /\ array \in [Clients -> Seq(Element)]
  /\ \A c \in Clients : offset[c] \in 0 .. Len(Body(array[c]))
  /\ status \in [Clients -> {"none", "ok", "notfound", "error", "internal"}]
  /\ \A s \in {stored, part.buf} \cup {got[c] : c \in Clients} :
       \A i \in 1 .. Len(s) : IsUnit(s[i])
  /\ Len(part.buf) <= part.total /\ part.total <= Capacity
  /\ holder \subseteq Clients

\* When a call that writes returns FIDO_OK, the token has the array that the
\* call wrote, and not, say, one that is part another's.
AckedIsStored ==
  [][\A c \in Clients :
       pc[c] = "write" /\ pc'[c] = "idle" /\ status'[c] = "ok" =>
         stored' = Serialised(array[c])]_vars

\* A client as BlobStore sees it: where it is in the call, how the last ended.
At == [c \in Clients |->
         CASE pc[c] = "idle" -> "out" [] pc[c] = "read" -> "look" [] OTHER -> "change"]

Ended == [c \in Clients |-> IF status[c] = "internal" THEN "error" ELSE status[c]]

Store == INSTANCE BlobStore WITH
  blobs <- Loaded(stored), doing <- op, at <- At, mine <- array, status <- Ended

\* The calls keep the promise of BlobStore: one that nobody disturbs reads or
\* changes the current list, although it takes many requests and may fail
\* between any two; one that is disturbed never mixes two lists.
StoreSpec == Store!Spec

\* man/fido_dev_largeblob_get.3:88-94, :111-122: the array is retrieved, for get
\* and set alike.  So a call to which the token answers does not fail on the
\* array that is stored there.
StoredCanBeRead == \A c \in Clients : status[c] # "internal"
=============================================================================
