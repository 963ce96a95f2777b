------------------------------ MODULE U2fCalls ------------------------------
(***************************************************************************)
(* fido_dev_make_cred and fido_dev_get_assert on the objects of            *)
(* FidoObjects, and u2f.c: on a device without CTAP2, a call looks up each *)
(* key handle in an exchange of its own, and repeats the request that      *)
(* needs the user until they touch the token, all charged to one timeout.  *)
(* What an exchange does when little or nothing is left is the transport's *)
(* affair: over PC/SC it does not even look (pcsc.c).  So an exchange may  *)
(* take any time here, and may fail at any time.                           *)
(* A FIDO2 device answers in one step here (TokenCalls has its steps), and *)
(* so does Windows (WinHello).  Time is counted in half of U2F_PACE_MS.    *)
(***************************************************************************)
EXTENDS WinHello, Integers

CONSTANTS Timeouts,   \* of a device; -1 is none
          MaxTook,    \* longest exchange
          MaxCalls    \* bounds the number of calls

ASSUME U2fCallsAssumption ==
  /\ Timeouts \subseteq Nat \cup {-1}
  /\ {MaxTook, MaxCalls} \subseteq Nat

VARIABLES
  call,    \* the U2F call in progress, or None
  ms,      \* what is left of the timeout, *ms
  spent,   \* history: time the call has taken while there was some left, see Spend
  polled,  \* history: flips with each poll that was not answered by a touch
  ret,     \* what the last call returned, and from which device
  calls    \* counter for MaxCalls

callVars == <<call, ms, spent, polled, ret, calls>>
allVars == <<vars, callVars>>

NoReturn == [code |-> "none", keys |-> {}, kind |-> "none"]

CallsInit ==
  /\ Init
  /\ call = None /\ ms = 0 /\ spent = 0 /\ polled = FALSE /\ ret = NoReturn /\ calls = 0

-----------------------------------------------------------------------------
(* Time.                                                                   *)

U2fPace == 2

\* delay_ms: how long it sleeps.  Faulty variant: longer than there is time.
Delay_Whole(left) == U2fPace
Delay(left) == IF left > -1 /\ left < U2fPace THEN left ELSE U2fPace

\* fido_time_delta: no more is taken off than there is.
Charged(left, t) == IF left = -1 THEN -1 ELSE IF t < left THEN left - t ELSE 0

\* *ms after the delay.
Slept(left) == IF left > -1 THEN left - Delay(left) ELSE left

\* What begins when nothing is left is not counted: how long that takes, and whether it
\* fails, is up to the transport.  One more than TimeoutKept allows is too much.
Spend(t) ==
  IF call.timeout = -1 \/ ms = 0 THEN spent
  ELSE Min({spent + t, call.timeout + MaxTook + 1})

\* fido_tx and fido_rx.
Exchange(t) == ms' = Charged(ms, t) /\ spent' = Spend(t)

\* An exchange, and the delay after it.
Poll(t) ==
  LET left == Charged(ms, t) IN
  /\ ms' = Slept(left)
  /\ spent' = Spend(t + Delay(left))

Took == 0 .. MaxTook

-----------------------------------------------------------------------------
(* Calls.                                                                  *)

Returns(dev, code) ==
  /\ call' = None /\ ms' = 0 /\ spent' = 0 /\ polled' = FALSE
  /\ ret' = [code |-> code, keys |-> dev.keys, kind |-> dev.kind]

Begins(dev, stage, timeout) ==
  /\ call' = [stage |-> stage, dev |-> dev, i |-> 1, nfound |-> 0, nauth |-> 0, timeout |-> timeout]
  /\ ms' = timeout /\ spent' = 0 /\ polled' = FALSE /\ ret' = NoReturn

GoesOn(c) == call' = c /\ UNCHANGED ret

Idle == call = None /\ calls < MaxCalls /\ calls' = calls + 1 /\ UNCHANGED program

\* The request cannot be made of a U2F device.
U2fRegisterRefuses(c, pin) ==
  IF pin \/ c.rk = "TRUE" \/ c.ext.mask # {} \/ c.uv = "TRUE" THEN "UNSUPPORTED_OPTION"
  ELSE IF c.type # "ES256" \/ c.cdh = None \/ c.rp = None THEN "INVALID_ARGUMENT"
  ELSE "OK"

\* fido_dev_make_cred of a U2F device, up to the first exchange of u2f_register.
MakeCredU2f ==
  /\ Idle /\ app.what = "cred"
  /\ \E dev \in app.devices, pin \in BOOLEAN, timeout \in Timeouts :
       LET r == U2fRegisterRefuses(cred, pin) IN
       /\ dev.kind = "u2f"
       /\ IF r # "OK" THEN Returns(dev, r)
          ELSE Begins(dev, IF cred.excl = <<>> THEN "register" ELSE "exclude", timeout)
  /\ UNCHANGED <<cred, asrt, spoilt>>

\* cbor_encode_cred_ext: what is sent of the extensions.
EncodeCredExt(ext) == [mask |-> ext.mask, prot |-> IF "CRED_PROTECT" \in ext.mask THEN ext.prot ELSE 0]

\* What a FIDO2 device makes for c.
MadeFor(c) ==
  LET sent == EncodeCredExt(c.ext) IN
  {m \in Made : /\ m.fmt # "fido-u2f" /\ m.rp = c.rp /\ m.cdh = c.cdh /\ m.pk.alg = c.type
                /\ c.uv = "TRUE" => "UV" \in m.flags
                /\ DecodeCredExtensions(m.ext).mask = sent.mask \ {"LARGEBLOB_KEY"}
                /\ DecodeCredExtensions(m.ext).prot = sent.prot}

\* What a broken device answers with, if it answers at all.
Undecodable(c) == {o \in app.attobjs : ~DecodeAttobj(ResetRx(c), o).ok}

\* fido_dev_make_cred of a FIDO2 device.  fido_dev_make_cred_rx empties the object
\* before and after an answer it cannot take.
\* Faulty variant: only before.
MakeCredReply_Kept(c, o) ==
  LET r == DecodeAttobj(ResetRx(c), o) IN [ok |-> r.ok, obj |-> [r.obj EXCEPT !.lbkey = calls + 1]]

MakeCredReply(c, o) ==
  LET r == DecodeAttobj(ResetRx(c), o) IN
  IF r.ok THEN [ok |-> TRUE, obj |-> [r.obj EXCEPT !.lbkey = calls + 1]]
  ELSE [ok |-> FALSE, obj |-> ResetRx(c)]

MakeCredFido2 ==
  /\ Idle /\ app.what = "cred"
  /\ \E dev \in app.devices :
       /\ dev.kind = "fido2"
       /\ \/ /\ cred.cdh = None \/ cred.type = "UNSPEC"
             /\ cred' = cred /\ Returns(dev, "INVALID_ARGUMENT")
          \/ cred' = cred /\ Returns(dev, "TX")
          \/ cred' = ResetRx(cred) /\ Returns(dev, "RX")
          \/ \E o \in {AttobjOf(m) : m \in MadeFor(cred)} \cup Undecodable(cred) :
               LET r == MakeCredReply(cred, o) IN
               cred' = r.obj /\ Returns(dev, IF r.ok THEN "OK" ELSE "INVALID_CBOR")
  /\ UNCHANGED <<asrt, spoilt>>

\* fido_dev_get_assert of a U2F device, up to the first exchange.
GetAssertU2f ==
  /\ Idle /\ app.what = "assert"
  /\ \E dev \in app.devices, pin \in BOOLEAN, timeout \in Timeouts :
       /\ dev.kind = "u2f"
       /\ IF asrt.rp = None \/ asrt.cdh = None
          THEN Returns(dev, "INVALID_ARGUMENT") /\ UNCHANGED asrt
          ELSE IF pin \/ asrt.ext # {} \/ asrt.uv = "TRUE" \/ asrt.allow = <<>>
          THEN Returns(dev, "UNSUPPORTED_OPTION") /\ UNCHANGED asrt
          ELSE Begins(dev, "lookup", timeout) /\ asrt' = SetCount(asrt, Len(asrt.allow))
  /\ UNCHANGED <<cred, spoilt>>

\* A statement that a device has answered with.
StatementOf(g) ==
  [DecodedAssertAuthdata(NoStatement, AssertBytesOf(g)) EXCEPT
     !.id = g.id, !.sig = AssertionSig(g), !.made = calls + 1, !.user = calls + 1]

GivenFor(a, dev) ==
  {g \in Given : /\ g.rp = a.rp /\ g.cdh = a.cdh /\ g.id \in dev.keys
                 /\ a.allow # <<>> => \E i \in DOMAIN a.allow : a.allow[i] = g.id
                 /\ (a.up # "FALSE") = ("UP" \in g.flags)
                 /\ a.uv = "TRUE" => "UV" \in g.flags
                 /\ AssertExtensions(AssertBytesOf(g)) = a.ext \ {"LARGEBLOB_KEY"}}

\* The n statements that a FIDO2 device announced, of which those in gs came.
Answered(gs, n) ==
  [i \in 1 .. n |-> IF i <= Len(gs) THEN StatementOf(gs[i]) ELSE NoStatement]

GetAssertFido2 ==
  /\ Idle /\ app.what = "assert"
  /\ \E dev \in app.devices :
       /\ dev.kind = "fido2"
       /\ \/ /\ asrt.rp = None \/ asrt.cdh = None
             /\ asrt' = asrt /\ Returns(dev, "INVALID_ARGUMENT")
          \/ asrt' = asrt /\ Returns(dev, "TX")
          \/ asrt' = AResetRx(asrt) /\ Returns(dev, "RX")
          \/ \E n \in 1 .. 2, gs \in BoundedSeq(GivenFor(asrt, dev), 2) :
               /\ Len(gs) <= n /\ (Len(gs) = 2 => gs[1].id # gs[2].id)
               /\ asrt' = [asrt EXCEPT !.stmt = Answered(gs, n), !.stmt_len = Len(gs)]
               /\ Returns(dev, IF Len(gs) = n THEN "OK" ELSE "RX")
  /\ UNCHANGED <<cred, spoilt>>

\* fido_winhello_make_cred.  What Windows makes is of any format, and it answers for
\* whatever token it finds; its timeout is its own.
WinhelloMadeFor(c, pin) ==
  {m \in Made : /\ m.rp = c.rp /\ m.cdh = c.cdh /\ m.pk.alg = c.type
                /\ CredUvRequired(c, pin) => "UV" \in m.flags
                /\ DecodeCredExtensions(m.ext).mask =
                     IF HmacOverlooked(c) THEN c.ext.mask \ {"HMAC_SECRET"} ELSE c.ext.mask
                /\ DecodeCredExtensions(m.ext).prot = EncodeCredExt(c.ext).prot}

MakeCredWinhello ==
  /\ Idle /\ app.what = "cred"
  /\ \E dev \in app.devices, pin \in BOOLEAN :
       LET c == ResetRx(cred)  r == FidoCredRefuses(c) IN
       /\ dev.kind = "winhello"
       /\ \/ /\ r # "OK"
             /\ cred' = c /\ spoilt' = spoilt /\ Returns(dev, r)
          \/ /\ r = "OK"
             /\ cred' = c /\ spoilt' = spoilt /\ \E e \in ToFido : Returns(dev, e)
          \/ /\ r = "OK"
             /\ \E o \in {AttobjOf(m) : m \in WinhelloMadeFor(c, pin)} \cup Undecodable(c) :
                  LET d == WinhelloCred(c, o) IN
                  /\ cred' = d.obj /\ spoilt' = IF d.ok THEN {} ELSE {"attobj"}
                  /\ Returns(dev, IF d.ok THEN "OK" ELSE "INTERNAL")
  /\ UNCHANGED asrt

\* fido_winhello_get_assert: one assertion, for the relying party or for the
\* appid that it had as a U2F one.
WinhelloGivenFor(a, keys, pin) ==
  {g \in Given : /\ g.rp \in {a.rp, a.appid} /\ g.cdh = a.cdh /\ g.id \in keys
                 /\ a.allow # <<>> => \E i \in DOMAIN a.allow : a.allow[i] = g.id
                 /\ "UP" \in g.flags
                 /\ AssertUvRequired(a, pin) => "UV" \in g.flags
                 /\ AssertExtensions(AssertBytesOf(g)) = a.ext}

GetAssertWinhello ==
  /\ Idle /\ app.what = "assert"
  /\ \E dev \in app.devices, pin \in BOOLEAN :
       LET a == AResetRx(asrt)  r == FidoAssertRefuses(a) IN
       /\ dev.kind = "winhello"
       /\ \/ r # "OK" /\ asrt' = a /\ Returns(dev, r)
          \/ r = "OK" /\ asrt' = a /\ \E e \in ToFido : Returns(dev, e)
          \/ /\ r = "OK"
             /\ \E g \in WinhelloGivenFor(a, dev.keys, pin), stop \in {"authdata", "sig", "id", "end"} :
                  /\ asrt' = WinhelloAssert(a, g, stop, calls + 1)
                  /\ Returns(dev, IF stop = "end" THEN "OK" ELSE "INTERNAL")
  /\ UNCHANGED <<cred, spoilt>>

-----------------------------------------------------------------------------
(* U2F exchanges.                                                          *)

InCall(stage) == call # None /\ call.stage = stage /\ UNCHANGED <<program, spoilt, calls>>

\* fido_tx or fido_rx fails, or the reply makes no sense.
Breaks ==
  /\ \E stage \in {"exclude", "dummy", "register", "lookup", "sign"} : InCall(stage)
  /\ Returns(call.dev, "RX")
  /\ UNCHANGED <<cred, asrt>>

\* u2f_register: key_lookup of excluded credential i.
LookupExcluded ==
  /\ InCall("exclude")
  /\ polled' = FALSE /\ \E t \in Took : Exchange(t)
  /\ IF cred.excl[call.i] \in call.dev.keys THEN GoesOn([call EXCEPT !.stage = "dummy"])
     ELSE IF call.i < Len(cred.excl) THEN GoesOn([call EXCEPT !.i = @ + 1])
     ELSE GoesOn([call EXCEPT !.stage = "register"])
  /\ UNCHANGED <<cred, asrt>>

\* The user has not touched the token: SW_CONDITIONS_NOT_SATISFIED.
NotTouched ==
  /\ \E stage \in {"dummy", "register", "sign"} : InCall(stage)
  /\ polled' = ~polled /\ \E t \in Took : Poll(t)
  /\ UNCHANGED <<cred, asrt, call, ret>>

\* send_dummy_register: any other answer ends it.
DummyRegister ==
  /\ InCall("dummy")
  /\ Returns(call.dev, "CREDENTIAL_EXCLUDED")
  /\ UNCHANGED <<cred, asrt>>

\* The parts of a U2F reply become a statement, and authenticator data whose
\* relying party is the object's own.
EncodeCredAttstmt(x5c, sig) ==
  [alg |-> "ES256", sig |-> sig, x5c |-> <<x5c>>, pubarea |-> None, certinfo |-> None, bad |-> None]

EncodeCredAuthdata(rp, kh, pk) ==
  [rp |-> rp, flags |-> {"AT", "UP"}, id |-> kh, pk |-> pk, ext |-> <<>>, cut |-> None, size |-> 1]

\* parse_register_reply of what the token made.
RegisterReply(c, m) ==
  LET d == SetAuthdata(SetFmt(c, "fido-u2f"), EncodeCredAuthdata(c.rp, m.id, m.pk)) IN
  IF d.ok THEN SetAttstmt(d.obj, EncodeCredAttstmt(m.by, AttestationSig(m))) ELSE d

Register ==
  /\ InCall("register")
  /\ \E m \in Made :
       /\ m.fmt = "fido-u2f" /\ m.rp = cred.rp /\ m.cdh = cred.cdh
       /\ cred' = RegisterReply(cred, m).obj
       /\ Returns(call.dev, IF RegisterReply(cred, m).ok THEN "OK" ELSE "INTERNAL")
  /\ UNCHANGED asrt

\* u2f_authenticate, after allowed credential i, with nfound and nauth as they are then.
\* Faulty variant: statements without an answer are still counted.
Counted_All(nfound) == asrt.stmt_len
Counted(nfound) == nfound

NextAllowed(nfound, nauth, stmts) ==
  IF call.i < Len(asrt.allow)
  THEN /\ GoesOn([call EXCEPT !.i = @ + 1, !.stage = "lookup", !.nfound = nfound, !.nauth = nauth])
       /\ asrt' = [asrt EXCEPT !.stmt = stmts]
  ELSE /\ asrt' = [asrt EXCEPT !.stmt = stmts, !.stmt_len = Counted(nfound)]
       /\ call' = None
       /\ ret' = [code |-> IF nfound = 0 THEN "NO_CREDENTIALS"
                           ELSE IF nauth = 0 THEN "USER_PRESENCE_REQUIRED" ELSE "OK",
                  keys |-> call.dev.keys, kind |-> call.dev.kind]

\* u2f_authenticate_single, up to the answer of key_lookup.
LookupAllowed ==
  LET id == asrt.allow[call.i]  k == call.nfound + 1
      named == [asrt.stmt EXCEPT ![k].id = id]
  IN
  /\ InCall("lookup")
  /\ polled' = FALSE /\ \E t \in Took : Exchange(t)
  /\ IF id \notin call.dev.keys THEN NextAllowed(call.nfound, call.nauth, asrt.stmt)
     ELSE IF asrt.up = "FALSE" THEN NextAllowed(k, call.nauth, named)
     ELSE GoesOn([call EXCEPT !.stage = "sign"]) /\ asrt' = [asrt EXCEPT !.stmt = named]
  /\ UNCHANGED cred

\* do_auth, and what is done with its reply.
AuthdataFake(rp, flags) ==
  [rp |-> rp, flags |-> flags, id |-> None, pk |-> NoPk, ext |-> <<>>, cut |-> None, size |-> 1]

Statements(k, g) ==
  LET a1 == ASetAuthdata(asrt, k, AuthdataFake(asrt.rp, g.flags))  a2 == ASetSig(a1, k, AssertionSig(g)) IN
  [a2.stmt EXCEPT ![k].made = calls]

Authenticate ==
  /\ InCall("sign")
  /\ polled' = FALSE /\ \E t \in Took : Poll(t)
  /\ \E g \in Given :
       /\ g.id = asrt.allow[call.i] /\ g.rp = asrt.rp /\ g.cdh = asrt.cdh
       /\ g.flags = {"UP"}
       /\ NextAllowed(call.nfound + 1, call.nauth + 1, Statements(call.nfound + 1, g))
  /\ UNCHANGED cred

\* An application does one thing at a time.
FillBetween == call = None /\ Fill /\ ret' = NoReturn /\ UNCHANGED <<call, ms, spent, polled, calls>>

U2fStep ==
  \/ Breaks \/ LookupExcluded \/ NotTouched \/ DummyRegister \/ Register
  \/ LookupAllowed \/ Authenticate

CallsNext ==
  \/ FillBetween
  \/ MakeCredU2f \/ MakeCredFido2 \/ MakeCredWinhello
  \/ GetAssertU2f \/ GetAssertFido2 \/ GetAssertWinhello
  \/ U2fStep

\* A call in progress is a thread that runs, and its exchanges end; the user may never
\* touch the token.
Fairness == WF_allVars(U2fStep)

CallsSpec == CallsInit /\ [][CallsNext]_allVars /\ Fairness

-----------------------------------------------------------------------------
(* Properties.                                                             *)

\* However many exchanges a call makes and however long the user waits, it takes no longer
\* than the timeout of the device and one exchange, not counting those that begin when
\* nothing is left: each exchange and each delay is taken off the same budget, and the
\* one exchange that outlasts it leaves nothing.
TimeoutKept == (call # None /\ call.timeout # -1) => spent <= call.timeout + MaxTook

\* A call with a timeout returns although the user never touches the token, unless the
\* transport for ever answers the polls that begin when nothing is left: the loops of
\* u2f.c have no exit of their own, and fido_pcsc_read takes no notice of *ms.
U2fReturns ==
  <>[][NotTouched => ms # 0]_allVars
    => ((call # None /\ call.timeout # -1) ~> (call = None))

\* cred, without the extension that Windows has overlooked.
Answerable(c) ==
  IF ret.kind = "winhello" /\ HmacOverlooked(c) THEN [c EXCEPT !.ext.mask = @ \ {"HMAC_SECRET"}] ELSE c

\* A call that made a credential leaves an object that passes verification as it
\* is (but for an extension that Windows overlooks, and unless it asked for the
\* length of the PIN, which only the token knows), and made none on a U2F token
\* that holds an excluded one; one that failed on a FIDO2 device after the request
\* was sent leaves nothing, from this call or from an earlier one, that could be
\* taken for its result.
CredentialOfThisCall ==
  app.what = "cred" =>
    /\ ret.code = "OK" =>
         /\ ret.kind = "u2f" => \A i \in DOMAIN cred.excl : cred.excl[i] \notin ret.keys
         /\ "MINPINLEN" \notin cred.ext.mask => \E m \in Made :
              LET c == Answerable(cred) IN
              /\ Holds(c, m)
              /\ (m.size <= DigestRoom /\ ~StaleExt(c.ext)) => Accepts(c, m)
    /\ (ret.kind = "fido2" /\ ret.code \in {"RX", "INVALID_CBOR"}) => cred = ResetRx(cred)

\* A call that returned assertions shows no others: each is of this call, of a
\* credential that was asked for and that the token holds, and passes
\* verification with the key of the credential that it shows.
AssertionsOfThisCall ==
  (app.what = "assert" /\ ret.code = "OK") =>
    \A i \in Indices :
      LET s == Shown(asrt, i) IN
      /\ s.made = calls /\ s.id \in ret.keys
      /\ asrt.allow # <<>> => s.id \in {asrt.allow[j] : j \in DOMAIN asrt.allow}
      /\ \E g \in Given :
           /\ g.id = s.id
           /\ g.size <= DigestRoom => AssertVerify(asrt, i, g.pk.alg, g.pk) = "OK"
=============================================================================
