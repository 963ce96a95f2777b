---------------------------- MODULE AssertObject ----------------------------
(***************************************************************************)
(* fido_assert_t: an assertion, what is asked for it, and the statements   *)
(* that came of it.  stmt is the array, stmt_cnt long; only the first      *)
(* stmt_len are shown.  made is the call a statement's data came from, and *)
(* user the one its user attributes, large blob key and hmac secret came   *)
(* from; 0 is the application.  There are no variables here.               *)
(***************************************************************************)
EXTENDS Attestation

NoStatement ==
  [id |-> None, authdata |-> None, head |-> NoHead, aext |-> {}, sig |-> None, made |-> 0, user |-> 0]

NoAssert ==
  [cd |-> None, cdh |-> None, rp |-> None, up |-> "OMIT", uv |-> "OMIT", ext |-> {},
   allow |-> <<>>, appid |-> None,                                     \* reset_tx
   stmt |-> <<>>, stmt_len |-> 0]                                      \* reset_rx

AHash(data) == [sha256 |-> data]

-----------------------------------------------------------------------------
(* Setters.                                                                *)

ASetClientdata(a, data) ==
  IF a.cdh = None THEN [a EXCEPT !.cd = data, !.cdh = IF data = None THEN @ ELSE AHash(data)] ELSE a
ASetClientdataHash(a, hash) == IF a.cd = None THEN [a EXCEPT !.cdh = hash] ELSE a
ASetRp(a, rp) == [a EXCEPT !.rp = rp]
ASetUp(a, up) == [a EXCEPT !.up = up]
ASetUv(a, uv) == [a EXCEPT !.uv = uv]
ASetExtensions(a, mask) == [a EXCEPT !.ext = IF mask = {} THEN {} ELSE @ \cup mask]
SetWinhelloAppid(a, id) == [a EXCEPT !.appid = id]
AllowCred(a, id) == [a EXCEPT !.allow = Append(@, id)]
EmptyAllowList(a) == [a EXCEPT !.allow = <<>>]

\* fido_assert_set_count: entries that were there stay.
SetCount(a, n) ==
  [a EXCEPT !.stmt = [i \in 1 .. n |-> IF i <= Len(@) THEN @[i] ELSE NoStatement], !.stmt_len = n]

\* Faulty variant: the extensions are left behind.
CleanStatement_KeepExt(s) == [s EXCEPT !.authdata = None, !.head = NoHead]

CleanStatement(s) == [s EXCEPT !.authdata = None, !.head = NoHead, !.aext = {}]

DecodeStatement(s, d) ==
  IF AssertAuthdataDecodes(d) THEN DecodedAssertAuthdata(CleanStatement(s), d) ELSE CleanStatement(s)

\* Indices are counted from 1 here.  fido_assert_set_authdata, and _raw.
ASetAuthdata(a, idx, d) ==
  IF idx > a.stmt_len \/ d = None THEN a ELSE [a EXCEPT !.stmt[idx] = DecodeStatement(@, d)]

ASetSig(a, idx, sig) ==
  IF idx > a.stmt_len \/ sig = None THEN a ELSE [a EXCEPT !.stmt[idx].sig = sig]

AResetRx(a) == [a EXCEPT !.stmt = <<>>, !.stmt_len = 0]

\* What fido_assert_id_ptr and so on show of statement idx.
Shown(a, idx) == IF idx > a.stmt_len THEN NoStatement ELSE a.stmt[idx]

-----------------------------------------------------------------------------
(* fido_assert_verify.                                                     *)

\* Faulty variant: the extensions of the authenticator data are not looked at.
ACheckExtensions_None(aext, ext) == TRUE

ACheckExtensions(aext, ext) == aext = ext \ {"LARGEBLOB_KEY"}

AComplete(a, idx) ==
  /\ idx <= a.stmt_len
  /\ a.cdh # None /\ a.rp # None /\ a.stmt[idx].authdata # None /\ a.stmt[idx].sig # None

AssertVerify(a, idx, alg, pk) ==
  IF pk = None \/ ~AComplete(a, idx) THEN "INVALID_ARGUMENT"
  ELSE LET s == a.stmt[idx]  dgst == SignedHash(alg, a.cdh, s.authdata) IN
       IF \/ ~CheckFlags(s.head.flags, a.up, a.uv)
          \/ ~ACheckExtensions(s.aext, a.ext)
          \/ ~CheckRpId(a.rp, s.head)
       THEN "INVALID_PARAM"
       ELSE IF dgst = None THEN "INTERNAL"
       ELSE IF VerifySig(alg, dgst, pk, s.sig) THEN "OK" ELSE "INVALID_SIG"
=============================================================================
