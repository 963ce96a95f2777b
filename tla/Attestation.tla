----------------------------- MODULE Attestation -----------------------------
(***************************************************************************)
(* The bytes of credentials and assertions, and what cbor.c, tpm.c and the *)
(* key modules make of them.  Bytes are records of what is in them; a hash *)
(* is a record of what is hashed; a signature is a record of its key and   *)
(* of the digest signed, so two signatures are equal only if both are.     *)
(* There are no variables here.                                            *)
(***************************************************************************)
EXTENDS Naturals, Sequences, SequencesExt

CONSTANTS None,        \* an empty blob, a NULL pointer
          DigestRoom   \* longest authenticator data that fits fido_cred_verify's buf

-----------------------------------------------------------------------------
(* Keys and signatures.                                                    *)

\* COSE algorithms of credentials; of attestation statements; UNSPEC if absent.
Alg == {"ES256", "ES384", "RS256", "EDDSA"}
AttAlg == Alg \cup {"RS1"}

\* A key pair is [alg, name].  EVP_PKEY_base_id does not tell curves apart.
BaseId(key) ==
  CASE key.alg \in {"ES256", "ES384"} -> "EC"
    [] key.alg = "RS256" -> "RSA"
    [] key.alg = "EDDSA" -> "ED25519"
    [] OTHER -> "none"

Sign(key, dgst) == [by |-> key, over |-> dgst]
Signed(key, dgst, sig) == sig = Sign(key, dgst)

Es256VerifySig(dgst, key, sig) == BaseId(key) = "EC" /\ Signed(key, dgst, sig)
Es384VerifySig(dgst, key, sig) == BaseId(key) = "EC" /\ Signed(key, dgst, sig)
Rs256VerifySig(dgst, key, sig) == BaseId(key) = "RSA" /\ dgst.hash = "sha256" /\ Signed(key, dgst, sig)
Rs1VerifySig(dgst, key, sig)   == BaseId(key) = "RSA" /\ dgst.hash = "sha1" /\ Signed(key, dgst, sig)
EddsaVerifySig(dgst, key, sig) == BaseId(key) = "ED25519" /\ Signed(key, dgst, sig)

VerifySig(alg, dgst, key, sig) ==
  CASE alg = "ES256" -> Es256VerifySig(dgst, key, sig)
    [] alg = "ES384" -> Es384VerifySig(dgst, key, sig)
    [] alg = "RS256" -> Rs256VerifySig(dgst, key, sig)
    [] alg = "RS1"   -> Rs1VerifySig(dgst, key, sig)
    [] alg = "EDDSA" -> EddsaVerifySig(dgst, key, sig)
    [] OTHER -> FALSE

-----------------------------------------------------------------------------
(* What is signed.                                                         *)

Digest(hash, what) == [hash |-> hash, what |-> what]

\* fido_get_signed_hash; None if it fails.  An EdDSA signature is over the
\* bytes themselves, and these must fit a buffer.
SignedHash(alg, cdh, authdata) ==
  CASE alg \in {"ES256", "RS256"} -> Digest("sha256", <<authdata, cdh>>)
    [] alg = "ES384" -> Digest("sha384", <<authdata, cdh>>)
    [] alg = "EDDSA" /\ authdata.size <= DigestRoom -> Digest("none", <<authdata, cdh>>)
    [] OTHER -> None

\* get_signed_hash_u2f.  A public key of another type than ES256 is read as if
\* it were one, which no key is.
SignedHashU2f(rp, cdh, id, pk) == Digest("sha256", <<rp, cdh, id, pk>>)

\* A TPM's public area names a key, its certinfo what was signed and which
\* public area.  check_es256_pubarea, check_rs256_pubarea, check_sha1_certinfo.
PubArea(pk, proper) == [pk |-> pk, proper |-> proper]
CertInfo(authdata, cdh, pubarea) == [data |-> <<authdata, cdh>>, name |-> pubarea]

CheckPubArea(pubarea, pk) == pubarea = PubArea(pk, TRUE)
CheckCertInfo(certinfo, cdh, authdata, pubarea) == certinfo = CertInfo(authdata, cdh, pubarea)

\* fido_get_signed_hash_tpm.
SignedHashTpm(cdh, authdata, stmt, pk) ==
  IF /\ stmt.alg = "RS1"
     /\ pk.alg \in {"ES256", "RS256"}
     /\ CheckPubArea(stmt.pubarea, pk)
     /\ CheckCertInfo(stmt.certinfo, cdh, authdata, stmt.pubarea)
  THEN Digest("sha1", <<stmt.certinfo>>) ELSE None

-----------------------------------------------------------------------------
(* Authenticator data: [rp, flags, id, pk, ext, cut, size].  cut is where  *)
(* the bytes break off or stop making sense: None, "head" or "id"; the     *)
(* algorithm of pk may be one that is not known; ext is a sequence of      *)
(* [name, value], the value being None if its type is wrong, 1 if it is true. *)

NoExt == [mask |-> {}, prot |-> 0, minpinlen |-> 0]
NoHead == [rp |-> None, flags |-> {}]
NoPk == [alg |-> "UNSPEC", name |-> None]
NoAttCred == [id |-> None, pk |-> NoPk]

\* The entries before the first that cannot be decoded.
Bad(x) == x.value = None
GoodPrefix(ext) ==
  LET good == {n \in 0 .. Len(ext) : \A i \in 1 .. n : ~Bad(ext[i])} IN
  SubSeq(ext, 1, CHOOSE n \in good : \A m \in good : m <= n)

\* decode_cred_extensions: of two entries of one name, the later one's value stays.
DecodeCredExtensions(ext) ==
  LET good == GoodPrefix(ext)
      At(name) == {i \in DOMAIN good : good[i].name = name}
      Value(name) == IF At(name) = {} THEN 0 ELSE good[Max(At(name))].value
  IN [mask |-> {x \in {"CRED_PROTECT", "MINPINLEN"} : At(x) # {}}
                 \cup {x \in {"HMAC_SECRET", "CRED_BLOB"} : \E i \in At(x) : good[i].value = 1},
      prot |-> Value("CRED_PROTECT"), minpinlen |-> Value("MINPINLEN")]

\* find_cose_alg, get_cose_alg: an algorithm that is known, with the type and the
\* curve of a key of that algorithm; any other key is one of no algorithm.
HasCoseAlg(pk) == pk.alg \in Alg

\* cbor_decode_cred_authdata with decode_attcred: how far it comes for a
\* credential of type alg ...
CredAuthdataStops(a, alg) ==
  CASE a.cut = "head" -> "head"
    [] a.cut # "head" /\ "AT" \notin a.flags -> "attcred"
    [] a.cut = "id" /\ "AT" \in a.flags -> "id"
    [] a.cut = None /\ "AT" \in a.flags /\ ~HasCoseAlg(a.pk) -> "pk"
    [] a.cut = None /\ "AT" \in a.flags /\ HasCoseAlg(a.pk) /\ a.pk.alg # alg -> "type"
    [] a.cut = None /\ "AT" \in a.flags /\ a.pk.alg = alg /\ "ED" \in a.flags
       /\ \E i \in 1 .. Len(a.ext) : Bad(a.ext[i]) -> "ext"
    [] OTHER -> "end"

\* ... and what object c, which holds none, has decoded by then; parts
\* not come to are left alone, and an identifier that is cut short is garbage.
DecodedCredAuthdata(c, a) ==
  LET stop == CredAuthdataStops(a, c.type) IN
  [c EXCEPT
     !.authdata = a,
     !.head = IF stop = "head" THEN @ ELSE [rp |-> a.rp, flags |-> a.flags],
     !.attcred = CASE stop \in {"head", "attcred"} -> @
                   [] stop = "id" -> [@ EXCEPT !.id = "garbage"]
                   [] stop = "pk" -> [id |-> a.id, pk |-> [@.pk EXCEPT !.alg = "UNSPEC"]]
                   [] OTHER -> [id |-> a.id, pk |-> a.pk],
     !.aext = IF stop \in {"ext", "end"} /\ "ED" \in a.flags THEN DecodeCredExtensions(a.ext) ELSE @]

\* cbor_decode_assert_authdata: the extensions are a set of names, or not a map.
AssertAuthdataDecodes(a) ==
  a.cut = None /\ ("ED" \in a.flags => \A i \in 1 .. Len(a.ext) : ~Bad(a.ext[i]))

AssertExtensions(a) ==
  {x \in {"HMAC_SECRET", "CRED_BLOB"} : "ED" \in a.flags /\ \E i \in 1 .. Len(a.ext) : a.ext[i].name = x}

\* Decoded extensions are added to those of s.
DecodedAssertAuthdata(s, a) ==
  [s EXCEPT !.authdata = a, !.head = [rp |-> a.rp, flags |-> a.flags], !.aext = @ \cup AssertExtensions(a)]

-----------------------------------------------------------------------------
(* Attestation statements: [alg, sig, x5c, pubarea, certinfo, bad].  The   *)
(* entry bad, if any, cannot be decoded, nor is what comes after it.       *)

NoStmt == [alg |-> "UNSPEC", sig |-> None, x5c |-> <<>>, pubarea |-> None, certinfo |-> None]

\* cbor_decode_attstmt, into the statement t, which is empty.
AttStmtDecodes(s) == s.bad = None

Or(x, none, y) == IF x = none THEN y ELSE x   \* an entry, or what there is without it

DecodedAttStmt(t, s) ==
  [t EXCEPT
     !.alg = Or(s.alg, "UNSPEC", @),
     !.sig = IF s.bad = "alg" THEN @ ELSE Or(s.sig, None, @),
     !.x5c = IF s.bad \in {"alg", "sig"} THEN @ ELSE Or(s.x5c, <<>>, @),
     !.pubarea  = IF s.bad = None THEN Or(s.pubarea, None, @) ELSE @,
     !.certinfo = IF s.bad = None THEN Or(s.certinfo, None, @) ELSE @]

-----------------------------------------------------------------------------
(* Checks shared by credentials and assertions.                            *)

\* fido_check_rp_id, fido_check_flags.
CheckRpId(rp, head) == head.rp = rp
CheckFlags(flags, up, uv) == (up = "TRUE" => "UP" \in flags) /\ (uv = "TRUE" => "UV" \in flags)
=============================================================================
