----------------------------- MODULE CredObject -----------------------------
(***************************************************************************)
(* fido_cred_t: a credential, what is asked for it and what came of it.    *)
(* An operator that models a function of cred.c takes the object c and is  *)
(* the object afterwards; for those that may fail half-way, it is a record *)
(* [ok, obj].  There are no variables here.                                *)
(***************************************************************************)
EXTENDS Attestation

NoCred ==
  [cd |-> None, cdh |-> None, rp |-> None, type |-> "UNSPEC", rk |-> "OMIT", uv |-> "OMIT",
   ext |-> NoExt, excl |-> <<>>,                                       \* reset_tx
   fmt |-> None, authdata |-> None, head |-> NoHead, attcred |-> NoAttCred, aext |-> NoExt,
   stmt |-> NoStmt, lbkey |-> None]                                    \* reset_rx

Hash(data) == [sha256 |-> data]

-----------------------------------------------------------------------------
(* Setters of what is asked.  A blob is emptied before it is set.          *)

SetClientdata(c, data) ==
  IF c.cdh = None THEN [c EXCEPT !.cd = data, !.cdh = IF data = None THEN @ ELSE Hash(data)] ELSE c

\* Faulty variant: client data that the hash is not of is not noticed.
SetClientdataHash_Always(c, hash) == [c EXCEPT !.cdh = hash]

SetClientdataHash(c, hash) == IF c.cd = None THEN [c EXCEPT !.cdh = hash] ELSE c

SetRp(c, rp) == [c EXCEPT !.rp = rp]
SetRk(c, rk) == [c EXCEPT !.rk = rk]
SetUv(c, uv) == [c EXCEPT !.uv = uv]
SetType(c, alg) == IF c.type = "UNSPEC" /\ alg \in Alg THEN [c EXCEPT !.type = alg] ELSE c

SetExtensions(c, mask) == [c EXCEPT !.ext.mask = IF mask = {} THEN {} ELSE @ \cup mask]

SetProt(c, prot) ==
  CASE prot = 0 -> [c EXCEPT !.ext.mask = @ \ {"CRED_PROTECT"}, !.ext.prot = 0]
    [] prot \in 1 .. 3 -> [c EXCEPT !.ext.mask = @ \cup {"CRED_PROTECT"}, !.ext.prot = prot]
    [] OTHER -> c

SetPinMinlen(c, len) ==
  [c EXCEPT !.ext.mask = IF len = 0 THEN @ \ {"MINPINLEN"} ELSE @ \cup {"MINPINLEN"},
            !.ext.minpinlen = len]

Exclude(c, id) == [c EXCEPT !.excl = Append(@, id)]
EmptyExcludeList(c) == [c EXCEPT !.excl = <<>>]

-----------------------------------------------------------------------------
(* Setters of what came of it.                                             *)

\* Faulty variant: the extensions are left behind.
CleanAuthdata_KeepExt(c) == [c EXCEPT !.authdata = None, !.head = NoHead, !.attcred = NoAttCred]

CleanAuthdata(c) ==
  [c EXCEPT !.authdata = None, !.head = NoHead, !.attcred = NoAttCred, !.aext = NoExt]
CleanAttstmt(c) == [c EXCEPT !.stmt = NoStmt]
CleanAttobj(c) == CleanAttstmt(CleanAuthdata([c EXCEPT !.fmt = None]))
ResetRx(c) == [CleanAttobj(c) EXCEPT !.lbkey = None]

DecodeAuthdata(c, a) ==
  IF c.authdata # None THEN [ok |-> FALSE, obj |-> c]
  ELSE [ok |-> CredAuthdataStops(a, c.type) = "end", obj |-> DecodedCredAuthdata(c, a)]

\* fido_cred_set_authdata and fido_cred_set_authdata_raw.
\* Faulty variant: what a failure has decoded stays.
SetAuthdata_Partial(c, a) ==
  IF a = None THEN [ok |-> FALSE, obj |-> CleanAuthdata(c)] ELSE DecodeAuthdata(CleanAuthdata(c), a)

SetAuthdata(c, a) ==
  LET d == DecodeAuthdata(CleanAuthdata(c), a) IN
  IF a # None /\ d.ok THEN d ELSE [ok |-> FALSE, obj |-> CleanAuthdata(c)]

SetAttstmt(c, s) ==
  IF s # None /\ AttStmtDecodes(s)
  THEN [ok |-> TRUE, obj |-> [c EXCEPT !.stmt = DecodedAttStmt(CleanAttstmt(c).stmt, s)]]
  ELSE [ok |-> FALSE, obj |-> CleanAttstmt(c)]

Formats == {"packed", "fido-u2f", "tpm", "none"}

SetFmt(c, fmt) == [c EXCEPT !.fmt = IF fmt \in Formats THEN fmt ELSE None]
SetId(c, id) == [c EXCEPT !.attcred.id = id]
SetX509(c, cert) == [c EXCEPT !.stmt.x5c = IF cert = None THEN <<>> ELSE <<cert>>]
SetSig(c, sig) == [c EXCEPT !.stmt.sig = sig]

\* cbor_decode_attobj of the map o = [fmt, stmt, authdata]: canonical CBOR has
\* the entries in this order.  parse_makecred_reply has authdata before stmt.
DecodeAttobj(c, o) ==
  LET c1 == [c EXCEPT !.fmt = o.fmt]
      c2 == [c1 EXCEPT !.stmt = DecodedAttStmt(@, o.stmt)]
  IN IF o.fmt \notin Formats THEN [ok |-> FALSE, obj |-> c]
     ELSE IF ~AttStmtDecodes(o.stmt) THEN [ok |-> FALSE, obj |-> c2]
     ELSE DecodeAuthdata(c2, o.authdata)

\* fido_cred_set_attobj: what a failure has decoded stays.
SetAttobj(c, o) == DecodeAttobj(CleanAttobj(c), o)

-----------------------------------------------------------------------------
(* Verification.                                                           *)

CheckExtensions(aext, ext) == aext = [ext EXCEPT !.mask = @ \ {"LARGEBLOB_KEY"}]

Complete(c) ==
  /\ c.cdh # None /\ c.authdata # None /\ c.stmt.sig # None
  /\ c.fmt # None /\ c.attcred.id # None /\ c.rp # None

Checked(c) ==
  /\ CheckRpId(c.rp, c.head)
  /\ CheckFlags(c.head.flags, "TRUE", c.uv)
  /\ CheckExtensions(c.aext, c.ext)

AttestationDigest(c, alg) ==
  CASE c.fmt = "packed" -> SignedHash(alg, c.cdh, c.authdata)
    [] c.fmt = "fido-u2f" -> SignedHashU2f(c.head.rp, c.cdh, c.attcred.id, c.attcred.pk)
    [] c.fmt = "tpm" -> SignedHashTpm(c.cdh, c.authdata, c.stmt, c.attcred.pk)
    [] OTHER -> None

CoseAlg(stmt) == IF stmt.alg = "UNSPEC" THEN "ES256" ELSE stmt.alg

\* verify_attstmt: the key is the one of the first certificate.
VerifyAttstmt(dgst, stmt) ==
  /\ stmt.x5c # <<>>
  /\ VerifySig(CoseAlg(stmt), dgst, stmt.x5c[1], stmt.sig)

\* fido_cred_verify.
Verify(c) ==
  LET dgst == AttestationDigest(c, CoseAlg(c.stmt)) IN
  IF ~Complete(c) \/ c.stmt.x5c = <<>> THEN "INVALID_ARGUMENT"
  ELSE IF ~Checked(c) THEN "INVALID_PARAM"
  ELSE IF c.fmt = "none" THEN "INVALID_ARGUMENT"
  ELSE IF dgst = None THEN "INTERNAL"
  ELSE IF VerifyAttstmt(dgst, c.stmt) THEN "OK" ELSE "INVALID_SIG"

\* fido_cred_verify_self: the key is the credential's own.
VerifySelf(c) ==
  LET alg == c.attcred.pk.alg  dgst == AttestationDigest(c, alg) IN
  IF ~Complete(c) \/ c.stmt.x5c # <<>> THEN "INVALID_ARGUMENT"
  ELSE IF ~Checked(c) THEN "INVALID_PARAM"
  ELSE IF c.fmt \notin {"packed", "fido-u2f"} THEN "INVALID_ARGUMENT"
  ELSE IF dgst = None THEN "INTERNAL"
  ELSE IF alg \notin Alg THEN "UNSUPPORTED_OPTION"
  ELSE IF VerifySig(alg, dgst, c.attcred.pk, c.stmt.sig) THEN "OK" ELSE "INVALID_SIG"
=============================================================================
