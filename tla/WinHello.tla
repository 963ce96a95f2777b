------------------------------ MODULE WinHello ------------------------------
(***************************************************************************)
(* winhello.c: a credential or an assertion object becomes a request to    *)
(* the WebAuthn API of Windows, and its answer becomes the object's.  An   *)
(* operator that ends in Refuses is the error of a request that is not     *)
(* sent, or OK.  There are no variables here.                              *)
(***************************************************************************)
EXTENDS FidoObjects

\* pack_cd, pack_cred_ext.
Packs(cd) == cd # None
PacksExt(mask) == mask \subseteq {"HMAC_SECRET", "CRED_PROTECT"}

\* translate_fido_cred.  Windows takes the client data, never a hash of it.
FidoCredRefuses(c) ==
  IF c.rp = None \/ c.type \notin Alg \/ ~Packs(c.cd) THEN "INTERNAL"
  ELSE IF ~PacksExt(c.ext.mask) THEN "UNSUPPORTED_EXTENSION"
  ELSE "OK"

\* A credential that is to be protected is made with verification.
CredUvRequired(c, pin) == pin \/ c.uv = "TRUE" \/ "CRED_PROTECT" \in c.ext.mask

\* Windows overlooks the hmac-secret extension of a credential that is not resident.
HmacOverlooked(c) == "HMAC_SECRET" \in c.ext.mask /\ c.rk # "TRUE"

\* translate_winhello_cred: what a failure has decoded stays.
WinhelloCred(c, o) == DecodeAttobj(c, o)

\* translate_fido_assert.
FidoAssertRefuses(a) ==
  IF a.up = "FALSE" THEN "UNSUPPORTED_OPTION"
  ELSE IF a.rp = None \/ ~Packs(a.cd) THEN "INTERNAL"
  ELSE IF a.ext \notin {{}, {"HMAC_SECRET"}} THEN "UNSUPPORTED_EXTENSION"
  ELSE "OK"

AssertUvRequired(a, pin) == pin \/ a.uv = "TRUE"

\* unpack_appid: the relying party is the one that the token knew.
UnpackAppid(a, used) == IF used THEN [a EXCEPT !.rp = a.appid, !.appid = None] ELSE a

\* translate_winhello_assert, of assertion g; stop is the part of the answer that
\* makes no sense, or "end".
WinhelloAssert(a, g, stop, call) ==
  LET a1 == UnpackAppid(SetCount(a, 1), g.rp # a.rp)
      d == IF stop = "authdata" THEN [AssertBytesOf(g) EXCEPT !.cut = "head"] ELSE AssertBytesOf(g)
      a2 == ASetAuthdata(a1, 1, d)
      a3 == [ASetSig(a2, 1, AssertionSig(g)) EXCEPT !.stmt[1].made = call]
      a4 == [a3 EXCEPT !.stmt[1].id = g.id, !.stmt[1].user = call]
  IN CASE stop = "authdata" -> a2 [] stop = "sig" -> a2 [] stop = "id" -> a3 [] stop = "end" -> a4

\* to_fido: how Windows says that it did nothing.
ToFido ==
  {"UNSUPPORTED_OPTION", "INVALID_PARAMETER", "KEY_STORE_FULL", "NOT_ALLOWED", "OPERATION_DENIED", "INTERNAL"}
=============================================================================
