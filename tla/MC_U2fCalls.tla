---------------------------- MODULE MC_U2fCalls ----------------------------
(* Attestations in each format, assertions, and the applications that the   *)
(* objects are checked with.  r1 and r2 are relying parties, d1 and d2      *)
(* client data, i1 to i4 credentials.                                       *)
EXTENDS U2fCalls

CONSTANTS r1, r2, d1, d2, i1, i2, i3, i4

Key(alg, name) == [alg |-> alg, name |-> name]

Packed ==
  [fmt |-> "packed", by |-> Key("ES256", "vendor"), alg |-> "ES256", rp |-> r1,
   flags |-> {"UP", "UV", "AT", "ED"}, id |-> i1, pk |-> Key("ES256", "k1"),
   ext |-> <<[name |-> "CRED_PROTECT", value |-> 2], [name |-> "HMAC_SECRET", value |-> 1]>>,
   cdh |-> Hash(d1), size |-> 1]

Plain == [Packed EXCEPT !.flags = {"UP", "AT"}, !.ext = <<>>, !.cdh = Hash(d2), !.rp = r2, !.id = i4]
PlainFirst == [Plain EXCEPT !.rp = r1, !.cdh = Hash(d1)]

U2f ==
  [Packed EXCEPT !.fmt = "fido-u2f", !.flags = {"UP", "AT"}, !.ext = <<>>, !.id = i2,
                 !.pk = Key("ES256", "k2")]

Tpm ==
  [Plain EXCEPT !.fmt = "tpm", !.by = Key("RS256", "tpm"), !.alg = "RS1", !.id = i3,
                !.pk = Key("RS256", "k3"), !.rp = r1, !.cdh = Hash(d1)]

Self ==
  [Plain EXCEPT !.by = Key("EDDSA", "k4"), !.alg = "EDDSA", !.pk = Key("EDDSA", "k4"), !.rp = r1,
                !.cdh = Hash(d1)]

Long == [Self EXCEPT !.size = 2]

MinPin ==
  [Packed EXCEPT !.flags = {"UP", "AT", "ED"}, !.ext = <<[name |-> "MINPINLEN", value |-> 4]>>]

MCMade == {Packed, Plain, PlainFirst, U2f, Tpm, Self, Long, MinPin}

Assertion(id, pk, flags, cdh) ==
  [rp |-> r1, flags |-> flags, id |-> id, pk |-> pk, ext |-> <<>>, cdh |-> cdh, size |-> 1]

FirstGiven == Assertion(i1, Key("ES256", "k1"), {"UP"}, Hash(d1))
SecondGiven == Assertion(i2, Key("ES256", "k2"), {"UP"}, Hash(d1))
VerifiedGiven ==
  [Assertion(i4, Key("EDDSA", "k4"), {"UP", "UV", "ED"}, Hash(d1)) EXCEPT
     !.ext = <<[name |-> "HMAC_SECRET", value |-> 1]>>]
SilentGiven == Assertion(i1, Key("ES256", "k1"), {}, Hash(d2))

MCGiven == {FirstGiven, SecondGiven, VerifiedGiven, SilentGiven}

-----------------------------------------------------------------------------
\* Bytes that break off, that are of an unknown algorithm, or whose extensions
\* make no sense.
Broken ==
  {[BytesOf(Packed) EXCEPT !.cut = "head"], [BytesOf(Packed) EXCEPT !.cut = "id"],
   [BytesOf(Packed) EXCEPT !.pk.alg = "none"], [BytesOf(Packed) EXCEPT !.ext[2].value = None],
   [BytesOf(Packed) EXCEPT !.flags = {"UP"}]}

BrokenStmts == {[StmtOf(Packed) EXCEPT !.bad = b] : b \in {"alg", "sig", "x5c"}}

BrokenAttobjs ==
  {[AttobjOf(Packed) EXCEPT !.authdata = a] : a \in Broken}
    \cup {[AttobjOf(Packed) EXCEPT !.stmt = s] : s \in BrokenStmts}
    \cup {[AttobjOf(Packed) EXCEPT !.fmt = "jwt"]}

CredFor(rp, cdh, alg) == SetType(SetRp(SetClientdataHash(NoCred, cdh), rp), alg)
AssertFor(rp, cdh) == ASetRp(ASetClientdataHash(NoAssert, cdh), rp)

\* What is asked for is set in any order, before and after an attestation.
Asks ==
  [NoProgram EXCEPT
     !.datas = {d1, d2}, !.hashes = {Hash(d1)}, !.rps = {r1, r2}, !.uvs = {"TRUE", "OMIT"},
     !.types = {"ES256", "EDDSA"}, !.masks = {{}, {"HMAC_SECRET"}, {"LARGEBLOB_KEY"}}, !.prots = {0, 2},
     !.minlens = {0, 4}, !.attobjs = {AttobjOf(Packed), AttobjOf(MinPin), AttobjOf(Self)}]

\* What came of it is set in any order, some of it broken, ...
Receives ==
  [NoProgram EXCEPT
     !.request = CredFor(r1, Hash(d1), "none"), !.types = {"ES256", "EDDSA"},
     !.prots = {2}, !.masks = {{"HMAC_SECRET"}}, !.fmts = {"packed", "jwt"},
     !.authdatas = {BytesOf(Packed)} \cup Broken,
     !.stmts = {StmtOf(Packed)} \cup BrokenStmts, !.certs = {Key("none", "garbage")}, !.ids = {i1, i2},
     !.attobjs = {AttobjOf(Packed)} \cup BrokenAttobjs]

\* ... or of several credentials at once.
Mixes ==
  [NoProgram EXCEPT
     !.request = CredFor(r1, Hash(d1), "none"), !.types = {"ES256", "RS256", "EDDSA"},
     !.prots = {2}, !.masks = {{"HMAC_SECRET"}},
     !.fmts = {"packed", "fido-u2f"}, !.authdatas = {BytesOf(m) : m \in {Packed, U2f, Tpm}},
     !.stmts = {StmtOf(Packed), StmtOf(U2f)}, !.sigs = {AttestationSig(Packed)},
     !.certs = {None, Key("ES256", "vendor"), Key("none", "garbage")},
     !.attobjs = {AttobjOf(m) : m \in {Packed, Tpm, Long, Self}}]

\* The relying party of an assertion.
Asserts ==
  [NoProgram EXCEPT
     !.what = "assert", !.datas = {d1, d2}, !.hashes = {Hash(d1)}, !.rps = {r1, r2}, !.ups = {"TRUE", "FALSE"},
     !.uvs = {"TRUE", "OMIT"}, !.masks = {{}, {"HMAC_SECRET"}}, !.counts = {0, 1, 2},
     !.authdatas = {AssertBytesOf(FirstGiven), AssertBytesOf(VerifiedGiven),
                    [AssertBytesOf(FirstGiven) EXCEPT !.cut = "head"]},
     !.sigs = {AssertionSig(FirstGiven), AssertionSig(VerifiedGiven)}]

Devices == [kind : {"u2f", "fido2", "winhello"}, keys : {{}, {i2}, {i1, i2, i4}}]

\* Clients: a device makes a credential, or gives assertions, several times.
MakesCred(excl) ==
  [NoProgram EXCEPT
     !.devices = Devices, !.request = [CredFor(r1, Hash(d1), "ES256") EXCEPT !.excl = excl],
     !.masks = {{}, {"HMAC_SECRET"}}, !.prots = {0, 2}, !.uvs = {"TRUE", "OMIT"}, !.attobjs = BrokenAttobjs]

\* It excludes credentials.
Excludes(excl) == [MakesCred(excl) EXCEPT !.prots = {}, !.uvs = {}]

\* It asks for the length of the PIN.
PinMakes ==
  [MakesCred(<<>>) EXCEPT
     !.devices = [kind : {"fido2"}, keys : {{}}], !.prots = {}, !.uvs = {}, !.minlens = {0, 4}]

GetsAssert(allow) ==
  [NoProgram EXCEPT
     !.what = "assert", !.devices = Devices, !.query = [AssertFor(r1, Hash(d1)) EXCEPT !.allow = allow],
     !.ups = {"TRUE", "FALSE"}, !.masks = {{}, {"HMAC_SECRET"}}]

\* Windows needs the client data.
Windows == [kind : {"winhello"}, keys : {{}, {i1, i2, i4}}]

HelloMakes ==
  [MakesCred(<<>>) EXCEPT
     !.devices = Windows, !.datas = {d1, d2}, !.rks = {"TRUE"},
     !.request = SetType(SetRp(SetClientdata(NoCred, d1), r1), "ES256")]

HelloGets(rp, appid) ==
  [GetsAssert(<<>>) EXCEPT
     !.devices = Windows, !.datas = {d1, d2}, !.appids = {appid},
     !.query = ASetRp(ASetClientdata(NoAssert, d1), rp)]

\* In half U2F_PACE_MS; and none.
MCTimeouts == {3, -1}

MCPrograms ==
  [asks |-> Asks, receives |-> Receives, mixes |-> Mixes, asserts |-> Asserts,
   makes |-> MakesCred(<<>>), pinMakes |-> PinMakes,
   excludes |-> Excludes(<<i2>>), excludes2 |-> Excludes(<<i1, i2>>),
   gets |-> GetsAssert(<<>>), allows |-> GetsAssert(<<i1, i2>>), allows3 |-> GetsAssert(<<i4, i2, i1>>),
   hello |-> HelloMakes, helloGets |-> HelloGets(r1, r2), helloAppid |-> HelloGets(r2, r1)]
=============================================================================
