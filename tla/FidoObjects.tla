---------------------------- MODULE FidoObjects ----------------------------
(***************************************************************************)
(* Applications that fill a credential or an assertion object, in whatever *)
(* order, and have it verified: relying parties.  The objects, and what    *)
(* they are filled with, are those of CredObject, AssertObject and         *)
(* Attestation.                                                            *)
(***************************************************************************)
EXTENDS CredObject, AssertObject

CONSTANTS Made,       \* attestations that authenticators have made
          Given,      \* assertions that authenticators have given
          Programs    \* applications by name: see NoProgram

VARIABLES
  program,   \* name of the application of this behaviour
  cred,      \* its fido_cred_t
  asrt,      \* its fido_assert_t
  spoilt     \* history: what of cred the application has itself spoilt

vars == <<program, cred, asrt, spoilt>>

-----------------------------------------------------------------------------
(* Authenticators.  An attestation has [fmt, by, alg, rp, flags, id, pk,   *)
(* ext, cdh, size]; an assertion [rp, flags, id, pk, ext, cdh, size].      *)

BytesOf(m) ==
  [rp |-> m.rp, flags |-> m.flags, id |-> m.id, pk |-> m.pk, ext |-> m.ext, cut |-> None, size |-> m.size]

AuthdataDigest(alg, cdh, a) ==
  Digest(CASE alg \in {"ES256", "RS256"} -> "sha256" [] alg = "ES384" -> "sha384" [] alg = "EDDSA" -> "none",
         <<a, cdh>>)

PubAreaOf(m) == IF m.fmt = "tpm" THEN PubArea(m.pk, TRUE) ELSE None
CertInfoOf(m) == IF m.fmt = "tpm" THEN CertInfo(BytesOf(m), m.cdh, PubAreaOf(m)) ELSE None

AttestationSig(m) ==
  Sign(m.by, CASE m.fmt = "packed" -> AuthdataDigest(m.alg, m.cdh, BytesOf(m))
               [] m.fmt = "fido-u2f" -> SignedHashU2f(m.rp, m.cdh, m.id, m.pk)
               [] m.fmt = "tpm" -> Digest("sha1", <<CertInfoOf(m)>>))

\* Without a certificate, a credential attests itself.
IsSelf(m) == m.by = m.pk

StmtOf(m) ==
  [alg |-> m.alg, sig |-> AttestationSig(m), x5c |-> IF IsSelf(m) THEN <<>> ELSE <<m.by>>,
   pubarea |-> PubAreaOf(m), certinfo |-> CertInfoOf(m), bad |-> None]

AttobjOf(m) == [fmt |-> m.fmt, stmt |-> StmtOf(m), authdata |-> BytesOf(m)]

AssertBytesOf(g) == [BytesOf(g) EXCEPT !.id = None, !.pk = NoPk]
AssertionSig(g) == Sign(g.pk, AuthdataDigest(g.pk.alg, g.cdh, AssertBytesOf(g)))

-----------------------------------------------------------------------------
(* What an application calls, and with what, on the object for what.  A    *)
(* set is empty if it does not call the function; request and query are    *)
(* what the objects are filled with to begin with; devices are what it may *)
(* send them to.                                                           *)

NoProgram ==
  [what |-> "cred", devices |-> {}, request |-> NoCred, query |-> NoAssert,
   datas |-> {}, hashes |-> {}, rps |-> {}, ups |-> {}, uvs |-> {}, rks |-> {}, types |-> {}, masks |-> {},
   prots |-> {}, minlens |-> {}, appids |-> {}, fmts |-> {}, authdatas |-> {}, stmts |-> {}, attobjs |-> {}, ids |-> {},
   certs |-> {}, sigs |-> {}, counts |-> {}]

app == Programs[program]

-----------------------------------------------------------------------------
(* What the proofs assume of authenticators and of applications.           *)

KeyTypeOf(alg) ==
  CASE alg \in {"ES256", "ES384"} -> "EC" [] alg \in {"RS256", "RS1"} -> "RSA" [] alg = "EDDSA" -> "ED25519"

\* None of these is an empty blob.
ASSUME NoneAssumption ==
  /\ None \notin {"head", "id", "alg", "sig"}
  /\ \A m \in Made :
       None \notin {m.fmt, m.rp, m.id, m.cdh, BytesOf(m), StmtOf(m), AttestationSig(m), AttestationSig(m).over}
  /\ \A g \in Given :
       None \notin {g.rp, g.cdh, g.pk, AssertBytesOf(g), AssertionSig(g), AssertionSig(g).over}

\* Authenticators attest what the formats admit, with a key of the statement's
\* algorithm; a certificate's key is no credential's.  A U2F token knows one
\* algorithm and no extensions.
ASSUME MadeAssumption ==
  \A m \in Made :
    /\ m.fmt \in {"packed", "fido-u2f", "tpm"} /\ m.pk.alg \in Alg /\ "UP" \in m.flags
    /\ "ED" \notin m.flags => m.ext = <<>>
    /\ m.alg \in (CASE m.fmt = "packed" -> Alg [] m.fmt = "fido-u2f" -> {"ES256"} [] m.fmt = "tpm" -> {"RS1"})
    /\ BaseId(m.by) = KeyTypeOf(m.alg)
    /\ m.fmt = "tpm" => m.pk.alg \in {"ES256", "RS256"}
    /\ m.fmt = "fido-u2f" => m.pk.alg = "ES256" /\ m.flags = {"UP", "AT"} /\ m.ext = <<>> /\ m.size = 1
    /\ IsSelf(m) => m.fmt = "packed" /\ m.alg = m.pk.alg
    /\ ~IsSelf(m) => \A n \in Made : m.by # n.pk

\* They give assertions that can be decoded; those without extensions are all of
\* the same size.
ASSUME GivenAssumption ==
  \A g \in Given :
    /\ g.pk.alg \in Alg /\ AssertAuthdataDecodes(AssertBytesOf(g))
    /\ "ED" \notin g.flags => g.ext = <<>> /\ g.size = 1

\* An application's signatures are those of authenticators, and the certificates
\* it has are not of credentials' keys.
Signatures == {AttestationSig(m) : m \in Made} \cup {None}
AssertSignatures == {AssertionSig(g) : g \in Given} \cup {None}
IsCertificate(key) == \A m \in Made : key # m.pk
IsStmt(s) == s.sig \in Signatures /\ (s.x5c # <<>> => IsCertificate(s.x5c[1]))
IsCredAuthdata(a) == a.cut \in {None, "head", "id"}

\* It begins with an object that only the setters of a request have touched.
IsSequence(s) == Len(s) \in Nat /\ s = [i \in 1 .. Len(s) |-> s[i]]

IsRequest(c) ==
  /\ DOMAIN c = DOMAIN NoCred /\ DOMAIN c.ext = DOMAIN NoExt /\ ResetRx(c) = c
  /\ c.type \in Alg \cup {"UNSPEC"} /\ (c.cd # None => c.cdh = Hash(c.cd))
  /\ IsSequence(c.excl)

IsQuery(a) ==
  /\ DOMAIN a = DOMAIN NoAssert /\ AResetRx(a) = a /\ (a.cd # None => a.cdh = AHash(a.cd))
  /\ IsSequence(a.allow)

ASSUME ProgramsAssumption ==
  \A name \in DOMAIN Programs :
    LET p == Programs[name] IN
    /\ IsRequest(p.request) /\ IsQuery(p.query) /\ p.counts \subseteq Nat
    /\ p.what = "cred" =>
         /\ p.sigs \subseteq Signatures /\ \A key \in p.certs : IsCertificate(key)
         /\ \A s \in p.stmts : IsStmt(s)
         /\ \A a \in p.authdatas : a # None => IsCredAuthdata(a)
         /\ \A o \in p.attobjs : IsStmt(o.stmt) /\ o.authdata # None /\ IsCredAuthdata(o.authdata)
    /\ p.what = "assert" => p.sigs \subseteq AssertSignatures

Init ==
  /\ program \in DOMAIN Programs
  /\ cred = app.request
  /\ asrt = app.query
  /\ spoilt = {}

\* Setters that say whether they failed, and clean up if they did.
SetCredParam ==
  /\ app.what = "cred"
  /\ \/ \E x \in app.datas : cred' = SetClientdata(cred, x)
     \/ \E x \in app.hashes : cred' = SetClientdataHash(cred, x)
     \/ \E x \in app.rps : cred' = SetRp(cred, x)
     \/ \E x \in app.uvs : cred' = SetUv(cred, x)
     \/ \E x \in app.rks : cred' = SetRk(cred, x)
     \/ \E x \in app.types : cred' = SetType(cred, x)
     \/ \E x \in app.masks : cred' = SetExtensions(cred, x)
     \/ \E x \in app.prots : cred' = SetProt(cred, x)
     \/ \E x \in app.minlens : cred' = SetPinMinlen(cred, x)
     \/ \E x \in app.fmts : cred' = SetFmt(cred, x)
     \/ \E x \in app.stmts : cred' = SetAttstmt(cred, x).obj
     \/ \E x \in app.certs : cred' = SetX509(cred, x)
     \/ \E x \in app.sigs : cred' = SetSig(cred, x)
  /\ UNCHANGED <<program, asrt, spoilt>>

SetCredAuthdata ==
  /\ app.what = "cred"
  /\ \E x \in app.authdatas : cred' = SetAuthdata(cred, x).obj
  /\ spoilt' = {}
  /\ UNCHANGED <<program, asrt>>

\* The identifier is the application's, although there may be authenticator data.
SetCredId ==
  /\ app.what = "cred"
  /\ \E x \in app.ids : cred' = SetId(cred, x)
  /\ spoilt' = spoilt \cup {"id"}
  /\ UNCHANGED <<program, asrt>>

SetCredAttobj ==
  /\ app.what = "cred"
  /\ \E x \in app.attobjs :
       LET r == SetAttobj(cred, x) IN
       cred' = r.obj /\ spoilt' = IF r.ok THEN {} ELSE {"attobj"}
  /\ UNCHANGED <<program, asrt>>

SetAssertParam ==
  /\ app.what = "assert"
  /\ \/ \E x \in app.datas : asrt' = ASetClientdata(asrt, x)
     \/ \E x \in app.hashes : asrt' = ASetClientdataHash(asrt, x)
     \/ \E x \in app.rps : asrt' = ASetRp(asrt, x)
     \/ \E x \in app.ups : asrt' = ASetUp(asrt, x)
     \/ \E x \in app.uvs : asrt' = ASetUv(asrt, x)
     \/ \E x \in app.masks : asrt' = ASetExtensions(asrt, x)
     \/ \E x \in app.appids : asrt' = SetWinhelloAppid(asrt, x)
     \/ \E n \in app.counts : asrt' = SetCount(asrt, n)
     \/ \E i \in 1 .. 2, x \in app.authdatas : asrt' = ASetAuthdata(asrt, i, x)
     \/ \E i \in 1 .. 2, x \in app.sigs : asrt' = ASetSig(asrt, i, x)
  /\ UNCHANGED <<program, cred, spoilt>>

Fill == SetCredParam \/ SetCredAuthdata \/ SetCredId \/ SetCredAttobj \/ SetAssertParam

-----------------------------------------------------------------------------
(* Properties of a relying party's objects.                                *)

\* What verification promises of m.  A U2F attestation covers neither flags nor
\* extensions.
Attests(m, c) ==
  /\ m.fmt = c.fmt /\ m.rp = c.rp /\ m.id = c.attcred.id /\ m.pk = c.attcred.pk
  /\ m.cdh = (IF c.cd = None THEN c.cdh ELSE Hash(c.cd))
  /\ m.pk.alg = c.type
  /\ m.fmt # "fido-u2f" =>
       /\ "UP" \in m.flags /\ (c.uv = "TRUE" => "UV" \in m.flags)
       /\ LET ext == DecodeCredExtensions(m.ext) IN
          /\ ext.mask = c.ext.mask \ {"LARGEBLOB_KEY"}
          /\ ext.prot = c.ext.prot /\ ext.minpinlen = c.ext.minpinlen

\* Whatever was set in whatever order, failures included: if a credential passes
\* verification, an authenticator has attested it for the client data, the
\* relying party, the type and the extensions that are in the object now, with
\* the identifier and the key that its accessors return, and the signer is the
\* certificate's or the credential's own key.  (Not if the application has put
\* another identifier over the one in the authenticator data, and not if it goes on
\* after fido_cred_set_attobj has failed, which leaves what it had decoded: then the
\* extensions may be missing.)
VerifiedIsAttested ==
  spoilt = {} =>
    /\ Verify(cred) = "OK" =>
         \E m \in Made : ~IsSelf(m) /\ m.by = cred.stmt.x5c[1] /\ Attests(m, cred)
    /\ VerifySelf(cred) = "OK" => \E m \in Made : IsSelf(m) /\ Attests(m, cred)

\* The object holds attestation m, for the request it was made for.
Holds(c, m) ==
  /\ c.fmt = m.fmt /\ c.authdata = BytesOf(m) /\ c.attcred.id = m.id
  /\ c.stmt = DecodedAttStmt(NoStmt, StmtOf(m))
  /\ c.rp = m.rp /\ c.cdh = m.cdh
  /\ "UP" \in m.flags /\ (c.uv = "TRUE" => "UV" \in m.flags)
  /\ LET ext == DecodeCredExtensions(m.ext) IN
     /\ c.ext.mask \ {"LARGEBLOB_KEY"} = ext.mask
     /\ "CRED_PROTECT" \in ext.mask => c.ext.prot = ext.prot
     /\ "MINPINLEN" \in ext.mask => c.ext.minpinlen = ext.minpinlen

\* The value of an extension that is not in the mask.
StaleExt(e) ==
  \/ "CRED_PROTECT" \notin e.mask /\ e.prot # 0
  \/ "MINPINLEN" \notin e.mask /\ e.minpinlen # 0

Accepts(c, m) == (IF IsSelf(m) THEN VerifySelf(c) ELSE Verify(c)) = "OK"

\* An attestation passes verification in any object that holds it with the request
\* it was made for, whatever the object held before.  (Not if the bytes signed
\* with EdDSA are too long for the buffer, and not if an extension was cleared
\* with fido_cred_set_extensions, which leaves its value.)
GenuineAccepted ==
  \A m \in Made :
    (Holds(cred, m) /\ "attobj" \notin spoilt /\ m.size <= DigestRoom /\ ~StaleExt(cred.ext))
      => Accepts(cred, m)


\* The decoded parts of authenticator data and the bytes they were decoded from
\* come and go together: no part is from bytes the object no longer has, and none
\* is from bytes that were refused.
DecodedTogether ==
  LET c == cred IN
  /\ c.authdata = None => c.head = NoHead /\ c.aext = NoExt /\ c.attcred.pk = NoPk
  /\ (c.authdata # None /\ "attobj" \notin spoilt) =>
       LET d == DecodedCredAuthdata([NoCred EXCEPT !.type = c.type], c.authdata) IN
       /\ CredAuthdataStops(c.authdata, c.type) = "end"
       /\ c.head = d.head /\ c.aext = d.aext /\ c.attcred.pk = d.attcred.pk
       /\ "id" \notin spoilt => c.attcred.id = d.attcred.id

Indices == 1 .. asrt.stmt_len
PublicKeys == {g.pk : g \in Given}

\* If a statement passes verification with a public key, its key has signed it for
\* the client data, relying party, user presence and verification, and extensions
\* that are in the object now.
AssertionIsGiven ==
  \A i \in Indices, pk \in PublicKeys :
    AssertVerify(asrt, i, pk.alg, pk) = "OK" =>
      \E g \in Given :
        /\ g.pk = pk /\ g.rp = asrt.rp
        /\ g.cdh = (IF asrt.cd = None THEN asrt.cdh ELSE AHash(asrt.cd))
        /\ (asrt.up = "TRUE" => "UP" \in g.flags) /\ (asrt.uv = "TRUE" => "UV" \in g.flags)
        /\ AssertExtensions(AssertBytesOf(g)) = asrt.ext \ {"LARGEBLOB_KEY"}

\* An assertion passes verification in any statement it was put into, whatever
\* the object held before, if the object asks for what was asked for.
GivenAccepted ==
  \A i \in Indices, g \in Given :
    LET s == asrt.stmt[i] IN
    (/\ s.authdata = AssertBytesOf(g) /\ s.sig = AssertionSig(g)
     /\ asrt.rp = g.rp /\ asrt.cdh = g.cdh /\ CheckFlags(g.flags, asrt.up, asrt.uv)
     /\ AssertExtensions(s.authdata) = asrt.ext \ {"LARGEBLOB_KEY"}
     /\ g.size <= DigestRoom)
      => AssertVerify(asrt, i, g.pk.alg, g.pk) = "OK"
=============================================================================
