----------------------------- MODULE BlobStore -----------------------------
(***************************************************************************)
(* What src/src/largeblob.c promises its callers, with no chunks in sight. *)
(* The large blobs of a token are a list.  A call works on a list that the *)
(* token had while the call lasted: the current one, if nobody else changed *)
(* it meanwhile.  If somebody did, the call may also find the list empty.  *)
(* A call that writes puts its own list in place in one step, when it      *)
(* returns FIDO_OK, and at most once if it fails.                          *)
(***************************************************************************)
EXTENDS Naturals, Sequences

CONSTANTS
  Clients,
  Ops,      \* what a call may be: its kind and arguments
  NoOp

VARIABLES
  blobs,    \* the list, of pairs of a key and a value
  doing,    \* the call a client is in
  at,       \* where it is in it: "look" for the list, "change" it, or "out"
  mine,     \* the list it is to put in place
  status,   \* how its last call ended, "none" before it has
  seen      \* the lists there have been while it looked

vars == <<blobs, doing, at, mine, status, seen>>

Has(s, k) == \E i \in DOMAIN s : s[i].key = k

\* The first element that the key decrypts.
IsFirst(s, i, k) ==
  s[i].key = k /\ \A j \in DOMAIN s : s[j].key = k => i <= j

\* A blob takes the place of the first one of its key, or goes to the end.
Put(s, k, v) ==
  LET new == [key |-> k, val |-> v]
  IN  IF Has(s, k)
      THEN [i \in DOMAIN s |-> IF IsFirst(s, i, k) THEN new ELSE s[i]]
      ELSE Append(s, new)

\* The list without the first blob of the key: one list, if there is one.
Dropped(s, k) ==
  {SubSeq(s, 1, i - 1) \o SubSeq(s, i + 1, Len(s)) : i \in {j \in DOMAIN s : IsFirst(s, j, k)}}

\* The lists the call may take for the current one.
Views(c) == seen[c] \cup (IF \E s, t \in seen[c] : s # t THEN {<<>>} ELSE {})

Init ==
  /\ blobs = <<>>
  /\ doing = [c \in Clients |-> NoOp] /\ at = [c \in Clients |-> "out"]
  /\ mine = [c \in Clients |-> <<>>]
  /\ status = [c \in Clients |-> "none"]
  /\ seen = [c \in Clients |-> {}]

Observe ==
  seen' = [c \in Clients |-> IF at'[c] = "look" THEN seen[c] \cup {blobs'} ELSE {}]

Start(c) ==
  /\ at[c] = "out"
  /\ \E o \in Ops :
       /\ doing' = [doing EXCEPT ![c] = o]
       /\ IF o.kind = "set_array"
          THEN at' = [at EXCEPT ![c] = "change"] /\ mine' = [mine EXCEPT ![c] = o.array]
          ELSE at' = [at EXCEPT ![c] = "look"] /\ UNCHANGED mine
  /\ status' = [status EXCEPT ![c] = "none"]
  /\ UNCHANGED blobs

End(c, how) ==
  /\ doing' = [doing EXCEPT ![c] = NoOp]
  /\ at' = [at EXCEPT ![c] = "out"]
  /\ mine' = [mine EXCEPT ![c] = <<>>]
  /\ status' = [status EXCEPT ![c] = how]

\* A call that only reads returns what it finds, ...
Reads(c) ==
  /\ at[c] = "look"
  /\ \E s \in Views(c) :
       \/ doing[c].kind = "get_array" /\ End(c, "ok")
       \/ doing[c].kind = "get" /\ Has(s, doing[c].key) /\ End(c, "ok")
       \/ /\ doing[c].kind \in {"get", "remove"} /\ ~Has(s, doing[c].key)
          /\ End(c, "notfound")
  /\ UNCHANGED blobs

\* ... and one that writes decides what to put in place of it ...
Decides(c) ==
  /\ at[c] = "look"
  /\ \E s \in Views(c) :
       \/ /\ doing[c].kind = "set"
          /\ mine' = [mine EXCEPT ![c] = Put(s, doing[c].key, doing[c].val)]
       \/ /\ doing[c].kind = "remove"
          /\ \E t \in Dropped(s, doing[c].key) : mine' = [mine EXCEPT ![c] = t]
  /\ at' = [at EXCEPT ![c] = "change"]
  /\ UNCHANGED <<blobs, doing, status>>

\* ... and does it.
Changes(c) ==
  /\ at[c] = "change"
  /\ blobs' = mine[c]
  /\ End(c, "ok")

Fails(c) ==
  /\ at[c] # "out"
  /\ UNCHANGED blobs \/ (at[c] = "change" /\ blobs' = mine[c])
  /\ End(c, "error")

Next == /\ \E c \in Clients : \/ Start(c) \/ Reads(c) \/ Decides(c) \/ Changes(c)
                              \/ Fails(c)
        /\ Observe

Spec == Init /\ [][Next]_vars
=============================================================================
