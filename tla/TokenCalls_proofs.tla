------------------------- MODULE TokenCalls_proofs -------------------------
(***************************************************************************)
(* Proofs about TokenCalls, for any number of clients, PINs, credentials   *)
(* and templates: PinAttemptsHold, what a PIN attempt is lost to;          *)
(* FlagsFollowAlways, what fido_dev_t knows of the authenticator;          *)
(* TokenPermitsAlways, what a pinUvAuthToken is used for;                  *)
(* SamplesRemainingAlways, EntriesOfOneCallAlways and ListIsStoredAlways,  *)
(* what enumerations and enrollments return.                               *)
(***************************************************************************)
EXTENDS TokenCalls, SequenceTheorems, FiniteSetTheorems, TLAPS

\* The fields of the authenticator that the argument is about.
Tok(t) == {"pin", "retries", "fresh"} \subseteq DOMAIN t /\ t.retries \in 0 .. MaxRetries

\* A call in progress has cost nothing; one that is about to send its PIN shares
\* a secret with the authenticator, unless another client has interfered.
Going(k) ==
  /\ {"api", "pin", "stage", "tried", "crossed", "auth"} \subseteq DOMAIN k
  /\ k.tried = FALSE
  /\ k.api = "change_pin" => k.pin # None

PinInv ==
  /\ Tok(tok)
  /\ DOMAIN call = Clients
  /\ \A c \in Clients : call[c] # None => Going(call[c])
  /\ \A c \in Clients : Stage(c) = "token" => c \in tok.fresh \/ call[c].crossed = TRUE

-----------------------------------------------------------------------------
(* What the authenticator's answers do to the PIN attempts.                *)

\* Answers that neither cost an attempt nor lose a secret.
Free(t, A) == \A a \in A : Tok(a.tok) /\ t.retries <= a.tok.retries

LEMMA TokRetries ==
  ASSUME NEW t, Tok(t) PROVE t.retries \in Nat /\ t.retries <= t.retries /\ t.retries <= MaxRetries
BY AuthenticatorAssumption DEF Tok

LEMMA DiscardIsFree ==
  ASSUME NEW t, Tok(t)
  PROVE  /\ Tok(Discard(t)) /\ DOMAIN Discard(t) = DOMAIN t
         /\ Discard(t).retries = t.retries /\ Discard(t).fresh = t.fresh /\ Discard(t).pin = t.pin
BY DEF Tok, Discard

LEMMA RefusesIsFree == ASSUME NEW t, Tok(t) PROVE Free(t, Refuses(t))
<1>1. \A a \in Refuses(t) : a.tok = Discard(t) BY DEF Refuses, Answer
<1>2. t.retries <= t.retries BY AuthenticatorAssumption DEF Tok
<1>3. QED BY <1>1, <1>2, DiscardIsFree DEF Free

LEMMA KeyAgreementIsFree ==
  ASSUME NEW t, Tok(t), NEW c, NEW a \in KeyAgreement(t, c)
  PROVE  Tok(a.tok) /\ a.tok.retries = t.retries /\ a.tok.fresh = t.fresh \cup {c}
<1> DEFINE d == Discard(t)
<1>1. a.tok = [d EXCEPT !.fresh = @ \cup {c}] BY DEF KeyAgreement, Answer
<1>2. Tok(d) /\ d.retries = t.retries /\ d.fresh = t.fresh BY DiscardIsFree
<1> HIDE DEF d
<1>3. QED BY <1>1, <1>2 DEF Tok

LEMMA IssueIsFree ==
  ASSUME NEW t, Tok(t), NEW w, NEW a \in Issue(t, w)
  PROVE  Tok(a.tok) /\ t.retries <= a.tok.retries /\ a.tok.fresh = t.fresh
<1> DEFINE d == Discard(t)
           A == (IF t.perms THEN {} ELSE d.auth) \cup {Granted(t, w)}
<1>1. a.tok = [d EXCEPT !.auth = A, !.retries = MaxRetries] BY DEF Issue, Answer
<1>2. Tok(d) /\ d.retries = t.retries /\ d.fresh = t.fresh BY DiscardIsFree
<1> HIDE DEF d, A
<1>3. a.tok.retries = MaxRetries /\ a.tok.fresh = d.fresh /\ DOMAIN a.tok = DOMAIN d BY <1>1, <1>2 DEF Tok
<1>4. QED BY <1>2, <1>3, AuthenticatorAssumption DEF Tok

LEMMA WrongPinCosts ==
  ASSUME NEW t, Tok(t), t.retries # 0
  PROVE  Tok(WrongPin(t))
<1> DEFINE d == Discard(t)
<1>1. WrongPin(t) = [d EXCEPT !.retries = @ - 1, !.fresh = {}] BY DEF WrongPin
<1>2. Tok(d) /\ d.retries = t.retries BY DiscardIsFree
<1> HIDE DEF d
<1>3. WrongPin(t).retries = d.retries - 1 /\ DOMAIN WrongPin(t) = DOMAIN d BY <1>1, <1>2 DEF Tok
<1>4. QED BY <1>2, <1>3, AuthenticatorAssumption DEF Tok

\* A PIN/UV token: a refusal may cost an attempt, if the PIN is wrong or the
\* secret is not shared.
LEMMA TokenUsingPinCosts ==
  ASSUME NEW t, Tok(t), NEW c, NEW pin, NEW w, NEW a \in TokenUsingPin(t, c, pin, w)
  PROVE  /\ Tok(a.tok)
         /\ a.reply.ok => t.retries <= a.tok.retries /\ a.tok.fresh = t.fresh
         /\ a.tok.retries < t.retries => pin # t.pin \/ c \notin t.fresh
<1>1. CASE t.pin = None \/ t.retries = 0
  <2>1. a \in Refuses(t) BY <1>1 DEF TokenUsingPin
  <2>2. a.tok = Discard(t) /\ ~a.reply.ok BY <2>1 DEF Refuses, Answer, Refusal
  <2>3. QED BY <2>2, DiscardIsFree, AuthenticatorAssumption DEF Tok
<1>2. CASE ~(t.pin = None \/ t.retries = 0) /\ Knows(t, c, pin)
  <2>1. a \in Issue(t, w) BY <1>2 DEF TokenUsingPin
  <2>2. Tok(a.tok) /\ t.retries <= a.tok.retries /\ a.tok.fresh = t.fresh BY <2>1, IssueIsFree
  <2>3. QED BY <2>2, AuthenticatorAssumption DEF Tok
<1>3. CASE ~(t.pin = None \/ t.retries = 0) /\ ~Knows(t, c, pin)
  <2>1. a = Answer(WrongPin(t), Refusal) BY <1>3 DEF TokenUsingPin
  <2>2. a.tok = WrongPin(t) /\ ~a.reply.ok BY <2>1 DEF Answer, Refusal
  <2>3. Tok(WrongPin(t)) BY <1>3, WrongPinCosts
  <2>4. QED BY <1>3, <2>2, <2>3 DEF Knows
<1>4. QED BY <1>1, <1>2, <1>3

LEMMA TokenUsingUvIsFree ==
  ASSUME NEW t, Tok(t), NEW w, NEW a \in TokenUsingUv(t, w)
  PROVE  Tok(a.tok) /\ t.retries <= a.tok.retries /\ a.tok.fresh = t.fresh
<1>1. CASE a \in Refuses(t)
  <2>1. a.tok = Discard(t) BY <1>1 DEF Refuses, Answer
  <2>2. QED BY <2>1, DiscardIsFree, AuthenticatorAssumption DEF Tok
<1>2. CASE a \in Issue(t, w) BY <1>2, IssueIsFree
<1>3. QED BY <1>1, <1>2 DEF TokenUsingUv

\* A change of the field f, which is none of those, costs nothing.
LEMMA OtherFields ==
  ASSUME NEW t, Tok(t), NEW f, f \notin {"pin", "retries", "fresh"}, NEW v
  PROVE  Tok([t EXCEPT ![f] = v]) /\ t.retries <= [t EXCEPT ![f] = v].retries
BY AuthenticatorAssumption DEF Tok

LEMMA BeginIsFree == ASSUME NEW t, Tok(t), NEW api, NEW S PROVE Free(t, Begin(t, api, S))
<1>1. SUFFICES ASSUME NEW a \in Begin(t, api, S) PROVE Tok(a.tok) /\ t.retries <= a.tok.retries
  BY DEF Free
<1> DEFINE u(x) == [t EXCEPT !.cursor = IF S \ {x} = {} THEN None ELSE [api |-> api, rest |-> S \ {x}]]
           r(x) == [Ack EXCEPT !.entries = {x}, !.total = Cardinality(S)]
<1>2. Begin(t, api, S) = {Answer(u(x), r(x)) : x \in S} BY DEF Begin
<1> HIDE DEF r
<1>3. PICK x \in S : a = Answer(u(x), r(x)) BY <1>1, <1>2
<1>4. a.tok = u(x) BY <1>3 DEF Answer
<1>5. QED BY <1>4, OtherFields

LEMMA ContinueIsFree == ASSUME NEW t, Tok(t), NEW api PROVE Free(t, Continue(t, api))
<1>1. CASE t.cursor = None \/ t.cursor.api # api
  BY <1>1, RefusesIsFree DEF Continue
<1>2. CASE ~(t.cursor = None \/ t.cursor.api # api)
  <2>1. SUFFICES ASSUME NEW a \in Continue(t, api) PROVE Tok(a.tok) /\ t.retries <= a.tok.retries
    BY DEF Free
  <2> DEFINE u(x) == [t EXCEPT !.cursor = IF t.cursor.rest = {x} THEN None
                                            ELSE [t.cursor EXCEPT !.rest = @ \ {x}]]
             r(x) == [Ack EXCEPT !.entries = {x}]
  <2>2. Continue(t, api) = {Answer(u(x), r(x)) : x \in t.cursor.rest} BY <1>2 DEF Continue
  <2> HIDE DEF r
  <2>3. PICK x \in t.cursor.rest : a = Answer(u(x), r(x)) BY <2>1, <2>2
  <2>4. a.tok = u(x) BY <2>3 DEF Answer
  <2>5. QED BY <2>4, OtherFields
<1>3. QED BY <1>1, <1>2

LEMMA BeginRpIsFree == ASSUME NEW t, Tok(t) PROVE Free(t, BeginRp(t))
<1>1. CASE t.creds = {}
  <2>1. SUFFICES ASSUME NEW a \in BeginRp(t) PROVE a.tok = Discard(t)
    BY DiscardIsFree, AuthenticatorAssumption DEF Free, Tok
  <2>2. QED BY <1>1, <2>1 DEF BeginRp, Refuses, Answer
<1>2. CASE t.creds # {} BY <1>2, BeginIsFree DEF BeginRp
<1>3. QED BY <1>1, <1>2

LEMMA BeginAssertIsFree == ASSUME NEW t, Tok(t), NEW rp PROVE Free(t, BeginAssert(t, rp))
<1> DEFINE B == Begin(t, "assert", CredsOf(t, rp))
           f(b) == [b EXCEPT !.reply.total = IF @ = 1 THEN 0 ELSE @]
<1>1. SUFFICES ASSUME NEW a \in BeginAssert(t, rp) PROVE Tok(a.tok) /\ t.retries <= a.tok.retries
  BY DEF Free
<1>2. PICK b \in B : a = f(b) BY <1>1 DEF BeginAssert
<1>3. \E u, r : b = Answer(u, r) BY DEF Begin
<1>4. a.tok = b.tok BY <1>2, <1>3 DEF Answer
<1>5. QED BY <1>2, <1>4, BeginIsFree DEF Free

LEMMA BeginEnrollIsFree == ASSUME NEW t, Tok(t) PROVE Free(t, BeginEnroll(t))
<1>1. SUFFICES ASSUME NEW a \in BeginEnroll(t) PROVE Tok(a.tok) /\ t.retries <= a.tok.retries
  BY DEF Free
<1> DEFINE u(x) == [t EXCEPT !.enroll = [tmpl |-> x, left |-> Samples], !.used = @ \cup {x}]
<1>2. PICK x \in Templates \ t.used : a.tok = u(x)
  <2> DEFINE r(x) == [Ack EXCEPT !.tmpl = x, !.left = Samples]
  <2>1. BeginEnroll(t) = {Answer(u(x), r(x)) : x \in Templates \ t.used} BY DEF BeginEnroll
  <2> HIDE DEF r
  <2>2. PICK x \in Templates \ t.used : a = Answer(u(x), r(x)) BY <1>1, <2>1
  <2>3. QED BY <2>2 DEF Answer
<1>3. u(x).retries = t.retries /\ DOMAIN u(x) = DOMAIN t BY DEF Tok
<1>4. QED BY <1>2, <1>3, AuthenticatorAssumption DEF Tok

LEMMA ContinueEnrollIsFree == ASSUME NEW t, Tok(t), NEW x PROVE Free(t, ContinueEnroll(t, x))
<1>1. CASE t.enroll = None \/ t.enroll.tmpl # x BY <1>1, RefusesIsFree DEF ContinueEnroll
<1>2. CASE ~(t.enroll = None \/ t.enroll.tmpl # x)
  <2>1. SUFFICES ASSUME NEW a \in ContinueEnroll(t, x) PROVE Tok(a.tok) /\ t.retries <= a.tok.retries
    BY DEF Free
  <2> DEFINE u == [t EXCEPT !.enroll = None, !.templates = @ \cup {x}]
             v == [t EXCEPT !.enroll.left = t.enroll.left - 1]
  <2>2. a.tok \in {t, u, v} BY <1>2, <2>1 DEF ContinueEnroll, Answer
  <2>3. Tok(u) /\ u.retries = t.retries BY DEF Tok
  <2>4. Tok(v) /\ v.retries = t.retries BY DEF Tok
  <2> HIDE DEF u, v
  <2>5. QED BY <2>2, <2>3, <2>4, TokRetries
<1>3. QED BY <1>1, <1>2

LEMMA NewPinIsFree == ASSUME NEW t, Tok(t), NEW pin PROVE Free(t, NewPin(t, pin))
<1> DEFINE d == Discard(t)
           u == [d EXCEPT !.pin = pin, !.retries = MaxRetries, !.auth = {}]
<1>1. \A a \in NewPin(t, pin) : a.tok = u BY DEF NewPin, Answer
<1>2. Tok(d) BY DiscardIsFree
<1> HIDE DEF d
<1>3. Tok(u) /\ u.retries = MaxRetries BY <1>2, AuthenticatorAssumption DEF Tok
<1> HIDE DEF u
<1>4. QED BY <1>1, <1>3, TokRetries DEF Free

LEMMA ResetIsFree == ASSUME NEW t, Tok(t) PROVE Free(t, Reset(t))
<1> DEFINE u == [t EXCEPT !.pin = None, !.retries = MaxRetries, !.fresh = {}, !.auth = {},
                          !.cursor = None, !.enroll = None, !.creds = {}, !.templates = {}]
<1>1. \A a \in Reset(t) : a.tok = u BY DEF Reset, Answer
<1>2. DOMAIN u = DOMAIN t /\ u.retries = MaxRetries BY DEF Tok
<1> HIDE DEF u
<1>3. Tok(u) BY <1>2, AuthenticatorAssumption DEF Tok
<1>4. QED BY <1>1, <1>2, <1>3, TokRetries DEF Free

\* An old PIN that is wrong costs an attempt.
LEMMA ChangePinCosts ==
  ASSUME NEW t, Tok(t), NEW c, NEW old, NEW pin, NEW a \in ChangePin(t, c, old, pin)
  PROVE  /\ Tok(a.tok)
         /\ a.tok.retries < t.retries => ~a.reply.ok /\ old # t.pin
<1>1. CASE a \in Refuses(t)
  <2>1. Tok(a.tok) /\ t.retries <= a.tok.retries BY <1>1, RefusesIsFree DEF Free
  <2>2. QED BY <2>1, AuthenticatorAssumption DEF Tok
<1>2. CASE a \in NewPin(t, pin)
  <2>1. Tok(a.tok) /\ t.retries <= a.tok.retries BY <1>2, NewPinIsFree DEF Free
  <2>2. QED BY <2>1, AuthenticatorAssumption DEF Tok
<1>3. CASE a = Answer(WrongPin(t), Refusal) /\ old # t.pin /\ t.retries # 0
  <2>1. a.tok = WrongPin(t) /\ ~a.reply.ok BY <1>3 DEF Answer, Refusal
  <2>2. QED BY <1>3, <2>1, WrongPinCosts
<1>4. QED BY <1>1, <1>2, <1>3 DEF ChangePin

\* The commands.
LEMMA CommandCosts ==
  ASSUME NEW t, Tok(t), NEW c, NEW k, NEW a \in CommandAnswers(t, c, k)
  PROVE  /\ Tok(a.tok)
         /\ a.tok.retries < t.retries => k.api = "change_pin" /\ ~a.reply.ok /\ k.pin # t.pin
<1>1. CASE a \in Refuses(t)
  <2>1. Tok(a.tok) /\ t.retries <= a.tok.retries BY <1>1, RefusesIsFree DEF Free
  <2>2. QED BY <2>1, AuthenticatorAssumption DEF Tok
<1>2. CASE a \in Effect(t, c, k) /\ k.api = "change_pin"
  <2>1. a \in ChangePin(t, c, k.pin, k.new) BY <1>2 DEF Effect
  <2>2. QED BY <1>2, <2>1, ChangePinCosts
<1>3. CASE a \in Effect(t, c, k) /\ k.api # "change_pin"
  <2> DEFINE d == Discard(t)
  <2>1. Tok(d) /\ d.retries = t.retries BY DiscardIsFree
  <2>2. SUFFICES Free(t, Effect(t, c, k))
    BY <1>3, <2>2, AuthenticatorAssumption DEF Free, Tok
  <2>3. CASE k.api \in {"rk", "rp", "assert"}
    BY <2>3, BeginIsFree, BeginRpIsFree, BeginAssertIsFree DEF Effect
  <2>4. CASE k.api \in {"enroll_begin", "enroll_continue"}
    <3>1. Free(d, BeginEnroll(d)) /\ Free(d, ContinueEnroll(d, k.arg))
      BY <2>1, BeginEnrollIsFree, ContinueEnrollIsFree
    <3>2. Free(t, BeginEnroll(d)) /\ Free(t, ContinueEnroll(d, k.arg)) BY <2>1, <3>1 DEF Free
    <3>3. QED BY <2>4, <3>2 DEF Effect
  <2>5. CASE k.api = "set_pin"
    <3>1. Effect(t, c, k) \subseteq Refuses(t) \cup NewPin(t, k.new) BY <2>5 DEF Effect, SetPin
    <3>2. QED BY <3>1, RefusesIsFree, NewPinIsFree DEF Free
  <2>6. CASE k.api = "reset" BY <2>6, ResetIsFree DEF Effect
  <2>7. CASE k.api \notin {"rk", "rp", "assert", "enroll_begin", "enroll_continue", "set_pin", "reset"}
    <3>1. SUFFICES ASSUME NEW b \in Effect(t, c, k) PROVE Tok(b.tok) /\ b.tok.retries = d.retries
      BY <2>1, AuthenticatorAssumption DEF Free, Tok
    <3> HIDE DEF d
    <3>2. \/ b.tok = d
          \/ \E f, v : f \notin {"pin", "retries", "fresh"} /\ b.tok = [d EXCEPT ![f] = v]
      <4>1. CASE k.api = "del_rk"
        <5>1. b.tok = [d EXCEPT !.creds = @ \ {k.arg}] BY <1>3, <2>7, <3>1, <4>1 DEF Effect, Answer, d
        <5>2. QED BY <5>1
      <4>2. CASE k.api = "make_cred"
        <5>1. b.tok = [d EXCEPT !.creds = @ \cup {k.arg}] BY <1>3, <2>7, <3>1, <4>2 DEF Effect, Answer, d
        <5>2. QED BY <5>1
      <4>3. CASE k.api = "enroll_cancel"
        <5>1. b.tok = [d EXCEPT !.enroll = None] BY <1>3, <2>7, <3>1, <4>3 DEF Effect, Answer, d
        <5>2. QED BY <5>1
      <4>4. CASE k.api = "enroll_remove"
        <5>1. b.tok = [d EXCEPT !.templates = @ \ {k.arg}] BY <1>3, <2>7, <3>1, <4>4 DEF Effect, Answer, d
        <5>2. QED BY <5>1
      <4>5. CASE k.api \notin {"del_rk", "make_cred", "enroll_cancel", "enroll_remove"}
        <5>1. Effect(t, c, k) \subseteq {Answer(d, Ack), Answer(d, [Ack EXCEPT !.entries = t.templates])}
          BY <1>3, <2>7, <4>5 DEF Effect, d
        <5>2. QED BY <3>1, <5>1 DEF Answer
      <4>6. QED BY <4>1, <4>2, <4>3, <4>4, <4>5
    <3>3. QED BY <2>1, <3>2 DEF Tok
  <2>8. QED BY <2>3, <2>4, <2>5, <2>6, <2>7
<1>4. QED BY <1>1, <1>2, <1>3 DEF CommandAnswers

LEMMA NextEntryCosts ==
  ASSUME NEW t, Tok(t), NEW api, NEW a \in Continue(t, api)
  PROVE  Tok(a.tok) /\ t.retries <= a.tok.retries
BY ContinueIsFree DEF Free

-----------------------------------------------------------------------------
(* What a step does to the calls.                                          *)

\* The functions as an application calls them.
LEMMA AskedIsGoing ==
  ASSUME NEW x, NEW k \in Asked \cup {EnrollContinue(x)}
  PROVE  Going(k)
<1> DEFINE IsApi(a) == \E api, cmd, arg, rp : a = Api(api, cmd, arg, rp) /\ api # "change_pin"
           Plain(a) == /\ {"api", "pin", "uv", "stage", "tried", "crossed", "auth"} \subseteq DOMAIN a
                       /\ a.tried = FALSE /\ a.api # "change_pin"
<1>0. \A a : IsApi(a) => Plain(a)
  <2> SUFFICES ASSUME NEW api, NEW cmd, NEW arg, NEW rp, api # "change_pin"
               PROVE  Plain(Api(api, cmd, arg, rp))
    OBVIOUS
  <2> QED BY DEF Api
<1>1. \A a \in WithPin : Plain(a)
  <2>1. IsApi(GetMetadata) /\ IsApi(GetRp) /\ IsApi(TemplateArray) /\ IsApi(EnrollBegin) /\ IsApi(Config)
    BY DEF GetMetadata, GetRp, TemplateArray, EnrollBegin, Config
  <2>2. \A y : IsApi(GetRk(y)) /\ IsApi(DelRk(y)) /\ IsApi(SetRk(y)) /\ IsApi(SetTemplateName(y))
               /\ IsApi(EnrollRemove(y))
    BY DEF GetRk, DelRk, SetRk, SetTemplateName, EnrollRemove
  <2> HIDE DEF IsApi, Plain
  <2>3. QED BY <1>0, <2>1, <2>2 DEF WithPin
<1>2. \A a \in WithUv : Plain(a)
  <2>1. \A y : IsApi(MakeCred(y)) /\ IsApi(GetAssert(y)) BY DEF MakeCred, GetAssert
  <2>2. \A a, u : Plain(a) => Plain([a EXCEPT !.uv = u]) OBVIOUS
  <2> HIDE DEF IsApi, Plain
  <2>3. QED BY <1>0, <2>1, <2>2 DEF WithUv
<1>3. \A p : Plain(SetPin0(p))
  <2>1. \A p : SetPin0(p) = [Api("set_pin", "CLIENT_PIN", None, None) EXCEPT !.new = p] BY DEF SetPin0
  <2>2. Plain(Api("set_pin", "CLIENT_PIN", None, None)) BY DEF Api
  <2>3. QED BY <2>1, <2>2
<1>4. \A a \in WithoutPin : Plain(a)
  <2>1. IsApi(EnrollCancel) /\ IsApi(BioInfo) /\ IsApi(RetryCount) /\ IsApi(DevReset)
    BY DEF EnrollCancel, BioInfo, RetryCount, DevReset
  <2> HIDE DEF IsApi, Plain
  <2>2. QED BY <1>0, <1>3, <2>1 DEF WithoutPin
<1>5. Plain(EnrollContinue(x))
  <2>1. IsApi(EnrollContinue(x)) BY DEF EnrollContinue
  <2> HIDE DEF IsApi, Plain
  <2>2. QED BY <1>0, <2>1
<1>6. \A p \in Pins, old \in Pins : Going([ChangePin0(p) EXCEPT !.pin = old])
  <2> SUFFICES ASSUME NEW p \in Pins, NEW old \in Pins PROVE Going([ChangePin0(p) EXCEPT !.pin = old])
    OBVIOUS
  <2>1. ChangePin0(p) = [Api("change_pin", "CLIENT_PIN", None, None) EXCEPT !.new = p] BY DEF ChangePin0
  <2>2. /\ {"api", "pin", "new", "stage", "tried", "crossed", "auth"}
             \subseteq DOMAIN Api("change_pin", "CLIENT_PIN", None, None)
        /\ Api("change_pin", "CLIENT_PIN", None, None).tried = FALSE
    BY DEF Api
  <2>3. old # None BY AuthenticatorAssumption
  <2>4. QED BY <2>1, <2>2, <2>3 DEF Going
<1>7. \A a : Plain(a) => Going(a) BY DEF Going
<1>8. \A a, p : Plain(a) => Plain([a EXCEPT !.pin = p]) OBVIOUS
<1> HIDE DEF IsApi, Plain
<1>9. \A a \in {[b EXCEPT !.pin = p] : b \in WithPin \cup WithUv, p \in Pins \cup {None}} : Going(a)
  BY <1>1, <1>2, <1>7, <1>8
<1>10. \A a \in {[ChangePin0(p) EXCEPT !.pin = old] : p \in Pins, old \in Pins} : Going(a) BY <1>6
<1>11. \A a \in WithoutPin \cup {EnrollContinue(x)} : Going(a) BY <1>4, <1>5, <1>7
<1>12. QED BY <1>9, <1>10, <1>11 DEF Asked

\* Other clients' calls go on; if they lose their secret it is noted.
LEMMA StepKeeps ==
  ASSUME PinInv, NEW c \in Clients, NEW t, Tok(t), NEW k,
         call' = CallOf(c, k, t),
         tok' = IF call'[c] = None THEN Forgotten(c, t) ELSE t,
         k # None => Going(k) /\ (k.stage = "token" => c \in t.fresh \/ k.crossed = TRUE)
  PROVE  PinInv' /\ tok'.retries = t.retries
<1>1. call'[c] = k /\ DOMAIN call' = Clients BY DEF CallOf
<1>2. Tok(Forgotten(c, t)) /\ Forgotten(c, t).retries = t.retries
      /\ Forgotten(c, t).fresh = t.fresh \ {c}
  BY DEF Tok, Forgotten
<1>3. Tok(tok') /\ tok'.retries = t.retries /\ (k # None => tok'.fresh = t.fresh)
  BY <1>1, <1>2
<1>4. \A d \in Clients : d # c /\ d \in t.fresh => d \in tok'.fresh BY <1>1, <1>2
<1>5. ASSUME NEW d \in Clients
      PROVE  /\ call'[d] # None => Going(call'[d])
             /\ Stage(d)' = "token" => d \in tok'.fresh \/ call'[d].crossed = TRUE
  <2>1. CASE d = c
    BY <1>1, <1>3, <2>1 DEF Stage
  <2>2. CASE d # c /\ d \notin Crossed(c, t)
    <3>1. call'[d] = call[d] /\ Stage(d)' = Stage(d) BY <2>2 DEF CallOf, Stage
    <3>2. Stage(d) = "token" /\ d \in tok.fresh => d \in t.fresh BY <2>2 DEF Crossed
    <3>3. QED BY <1>4, <2>2, <3>1, <3>2 DEF PinInv
  <2>3. CASE d \in Crossed(c, t)
    <3>1. d # c /\ Stage(d) \in {"token", "cmd"} BY <2>3 DEF Crossed
    <3>2. call[d] # None /\ Going(call[d]) BY <3>1 DEF Stage, PinInv
    <3>3. call'[d] = [call[d] EXCEPT !.crossed = TRUE] BY <2>3, <3>1 DEF CallOf
    <3>4. Going(call'[d]) /\ call'[d].crossed = TRUE BY <3>2, <3>3 DEF Going
    <3>5. QED BY <3>4
  <2>4. QED BY <2>1, <2>2, <2>3
<1>6. QED BY <1>1, <1>3, <1>5 DEF PinInv

LEMMA EntersKeeps ==
  ASSUME PinInv, NEW c \in Clients, NEW t, Tok(t), tok.retries <= t.retries,
         NEW k, Going(k), k.stage = "token" => c \in t.fresh \/ k.crossed = TRUE,
         Enters(c, k, t), NEW heed, Becomes(c, t, heed)
  PROVE  PinInv' /\ ~(tok'.retries < tok.retries)
<1> DEFINE k2 == [k EXCEPT !.tried = @ \/ Costs(t)]
<1>1. tok.retries \in Nat /\ t.retries \in Nat BY TokRetries DEF PinInv
<1>2. ~Costs(t) BY <1>1 DEF Costs
<1>3. Going(k2) /\ k2.stage = k.stage /\ k2.crossed = k.crossed BY <1>2 DEF Going
<1>4. call' = CallOf(c, k2, t) /\ tok' = IF call'[c] = None THEN Forgotten(c, t) ELSE t
  BY DEF Enters, Becomes
<1> HIDE DEF k2
<1>5. PinInv' /\ tok'.retries = t.retries BY <1>3, <1>4, StepKeeps
<1>6. QED BY <1>1, <1>5

LEMMA ReturnKeeps ==
  ASSUME PinInv, NEW c \in Clients, NEW t, Tok(t),
         NEW r, Return(c, r, t), NEW heed, Becomes(c, t, heed)
  PROVE  PinInv' /\ tok'.retries = t.retries /\ call'[c] = None
<1>1. call' = CallOf(c, None, t) /\ tok' = IF call'[c] = None THEN Forgotten(c, t) ELSE t
  BY DEF Return, Becomes
<1>2. PinInv' /\ tok'.retries = t.retries BY <1>1, StepKeeps
<1>3. QED BY <1>1, <1>2 DEF CallOf, PinInv

\* What PinAttempts says of a step.
Cause(c) ==
  /\ call[c] # None /\ call'[c] # call[c] /\ ~call[c].tried
  /\ call[c].pin # None /\ (call[c].pin # tok.pin \/ call[c].crossed)

Good == PinInv' /\ (tok'.retries < tok.retries => \E c \in Clients : Cause(c))

\* If c makes the authenticator t and that costs an attempt, c has itself to blame,
\* or a client that crossed it.
Blames(c, t) ==
  t.retries < tok.retries =>
    /\ call[c].pin # None
    /\ call[c].pin # tok.pin \/ call[c].crossed = TRUE

LEMMA ReturnIsGood ==
  ASSUME PinInv, NEW c \in Clients, call[c] # None, NEW t, Tok(t), Blames(c, t),
         NEW r, Return(c, r, t), NEW heed, Becomes(c, t, heed)
  PROVE  Good
<1>1. PinInv' /\ tok'.retries = t.retries /\ call'[c] = None BY ReturnKeeps
<1>2. call[c].tried = FALSE BY DEF PinInv, Going
<1>3. QED BY <1>1, <1>2 DEF Good, Cause, Blames

LEMMA FailsIsGood ==
  ASSUME PinInv, NEW c \in Clients, call[c] # None,
         NEW T, \A t \in T : Tok(t) /\ Blames(c, t), Fails(c, T)
  PROVE  Good
<1>1. PICK t \in T \cup {tok} : Return(c, "error", t) /\ Becomes(c, t, FALSE) BY DEF Fails
<1>2. Tok(tok) /\ tok.retries \in Nat BY TokRetries DEF PinInv
<1>3. Blames(c, tok) BY <1>2 DEF Blames
<1>4. QED BY <1>1, <1>2, <1>3, ReturnIsGood

-----------------------------------------------------------------------------
(* The actions.                                                            *)

LEMMA KeyExchangeIsGood ==
  ASSUME PinInv, NEW c \in Clients, KeyExchange(c)
  PROVE  Good
<1> DEFINE k == call[c]
           A == KeyAgreement(tok, c)
           k2 == [k EXCEPT !.stage = IF NeedsToken(flags[c], k) THEN "token" ELSE "cmd"]
<1>1. k # None /\ Going(k) /\ Tok(tok) BY DEF KeyExchange, Stage, PinInv
<1>2. \A t \in Toks(A) : Tok(t) /\ t.retries = tok.retries /\ c \in t.fresh
  BY <1>1, KeyAgreementIsFree DEF Toks
<1>3. tok.retries \in Nat BY <1>1, TokRetries
<1>4. CASE \E t \in Toks(A) : Enters(c, k2, t) /\ Becomes(c, t, TRUE)
  <2>1. Going(k2) BY <1>1 DEF Going
  <2> HIDE DEF k2, A
  <2>2. PICK t \in Toks(A) : Enters(c, k2, t) /\ Becomes(c, t, TRUE) BY <1>4
  <2>3. Tok(t) /\ tok.retries <= t.retries /\ c \in t.fresh BY <1>2, <1>3
  <2>4. PinInv' /\ ~(tok'.retries < tok.retries) BY <2>1, <2>2, <2>3, EntersKeeps
  <2>5. QED BY <2>4 DEF Good
<1>5. CASE Fails(c, Toks(A))
  <2>1. \A t \in Toks(A) : Tok(t) /\ Blames(c, t) BY <1>2, <1>3 DEF Blames
  <2>2. QED BY <1>1, <1>5, <2>1, FailsIsGood
<1>6. QED BY <1>4, <1>5 DEF KeyExchange

\* A PIN that is not the authenticator's, or a secret it has dropped.
LEMMA GetUvTokenIsGood ==
  ASSUME PinInv, NEW c \in Clients, GetUvToken(c)
  PROVE  Good
<1> DEFINE k == call[c]
           A == TokenAnswers(tok, c, k)
           given == Granted(tok, WantedToken(c, k))
           k2 == [k EXCEPT !.stage = "cmd", !.auth = given]
<1>1. k # None /\ Going(k) /\ Tok(tok) /\ Stage(c) = "token" BY DEF GetUvToken, Stage, PinInv
<1>2. tok.retries \in Nat BY <1>1, TokRetries
<1>3. ASSUME NEW a \in A
      PROVE  Tok(a.tok) /\ Blames(c, a.tok) /\ (a.reply.ok => tok.retries <= a.tok.retries)
  <2>1. CASE UvTokenSubcmd(flags[c], k) = 6
    <3>1. a \in TokenUsingUv(tok, WantedToken(c, k)) BY <1>3, <2>1 DEF TokenAnswers
    <3>2. Tok(a.tok) /\ tok.retries <= a.tok.retries BY <1>1, <3>1, TokenUsingUvIsFree
    <3>3. a.tok.retries \in Nat BY <3>2, TokRetries
    <3>4. QED BY <1>2, <3>2, <3>3 DEF Blames
  <2>2. CASE UvTokenSubcmd(flags[c], k) # 6
    <3>1. a \in TokenUsingPin(tok, c, k.pin, WantedToken(c, k)) BY <1>3, <2>2 DEF TokenAnswers
    <3>2. k.pin # None BY <2>2 DEF GetUvToken, UvTokenSubcmd
    <3>3. /\ Tok(a.tok)
          /\ a.reply.ok => tok.retries <= a.tok.retries
          /\ a.tok.retries < tok.retries => k.pin # tok.pin \/ c \notin tok.fresh
      BY <1>1, <3>1, TokenUsingPinCosts
    <3>4. c \in tok.fresh \/ k.crossed = TRUE BY <1>1 DEF PinInv
    <3>5. QED BY <3>2, <3>3, <3>4 DEF Blames
  <2>3. QED BY <2>1, <2>2
<1>4. CASE \E a \in A : a.reply.ok /\ Enters(c, k2, a.tok) /\ Becomes(c, a.tok, TRUE)
  <2>1. Going(k2) /\ k2.stage = "cmd" BY <1>1 DEF Going
  <2> HIDE DEF k2, A
  <2>2. PICK a \in A : a.reply.ok /\ Enters(c, k2, a.tok) /\ Becomes(c, a.tok, TRUE) BY <1>4
  <2>3. PinInv' /\ ~(tok'.retries < tok.retries) BY <1>3, <2>1, <2>2, EntersKeeps
  <2>4. QED BY <2>3 DEF Good
<1>5. CASE \E a \in A : Return(c, "refused", a.tok) /\ Becomes(c, a.tok, TRUE)
  BY <1>1, <1>3, <1>5, ReturnIsGood
<1>6. CASE Fails(c, Toks(A))
  <2>1. \A t \in Toks(A) : Tok(t) /\ Blames(c, t) BY <1>3 DEF Toks
  <2>2. QED BY <1>1, <1>6, <2>1, FailsIsGood
<1>7. QED BY <1>4, <1>5, <1>6 DEF GetUvToken

\* The old PIN of a change of PIN may be wrong; no other command costs anything.
LEMMA CommandAnswerIsGood ==
  ASSUME PinInv, NEW c \in Clients, call[c] # None,
         NEW a \in CommandAnswers(tok, c, call[c])
  PROVE  Tok(a.tok) /\ Blames(c, a.tok) /\ (a.reply.ok => tok.retries <= a.tok.retries)
<1> DEFINE k == call[c]
<1>1. Tok(tok) /\ Going(k) BY DEF PinInv
<1>2. /\ Tok(a.tok)
      /\ a.tok.retries < tok.retries => k.api = "change_pin" /\ ~a.reply.ok /\ k.pin # tok.pin
  BY <1>1, CommandCosts
<1>3. tok.retries \in Nat /\ a.tok.retries \in Nat BY <1>1, <1>2, TokRetries
<1>4. QED BY <1>1, <1>2, <1>3 DEF Going, Blames

LEMMA CommandIsGood ==
  ASSUME PinInv, NEW c \in Clients, Command(c)
  PROVE  Good
<1> DEFINE k == call[c]
           A == CommandAnswers(tok, c, k)
           k2 == [k EXCEPT !.stage = "next"]
<1>1. k # None /\ Going(k) BY DEF Command, Stage, PinInv
<1>2. PICK a \in A :
        /\ \/ a.reply.ok /\ Enters(c, k2, a.tok)
           \/ \E r \in {"ok", "refused"} : Return(c, r, a.tok)
        /\ Becomes(c, a.tok, TRUE)
  <2> HIDE DEF k2, A
  <2>1. PICK a \in A :
          /\ IF a.reply.ok
             THEN IF IsList(k) /\ More(First(k, a.reply)) THEN Enters(c, k2, a.tok) ELSE Return(c, "ok", a.tok)
             ELSE Return(c, "refused", a.tok)
          /\ Becomes(c, a.tok, TRUE)
    BY DEF Command, k2, A
  <2>2. QED BY <2>1
<1>3. Tok(a.tok) /\ Blames(c, a.tok) /\ (a.reply.ok => tok.retries <= a.tok.retries)
  BY <1>1, CommandAnswerIsGood
<1>4. CASE a.reply.ok /\ Enters(c, k2, a.tok)
  <2>1. Going(k2) /\ k2.stage = "next" BY <1>1 DEF Going
  <2> HIDE DEF k2
  <2>2. PinInv' /\ ~(tok'.retries < tok.retries) BY <1>2, <1>3, <1>4, <2>1, EntersKeeps
  <2>3. QED BY <2>2 DEF Good
<1>5. CASE \E r \in {"ok", "refused"} : Return(c, r, a.tok)
  BY <1>1, <1>2, <1>3, <1>5, ReturnIsGood
<1>6. QED BY <1>2, <1>4, <1>5

LEMMA CommandUnsentIsGood ==
  ASSUME PinInv, NEW c \in Clients, CommandUnsent(c)
  PROVE  Good
<1>1. call[c] # None /\ Fails(c, {}) BY DEF CommandUnsent, Stage
<1>2. QED BY <1>1, FailsIsGood

LEMMA CommandUnreadIsGood ==
  ASSUME PinInv, NEW c \in Clients, CommandUnread(c)
  PROVE  Good
<1> DEFINE A == CommandAnswers(tok, c, call[c])
<1>1. call[c] # None /\ Fails(c, Toks(A)) BY DEF CommandUnread, Stage
<1>2. \A t \in Toks(A) : Tok(t) /\ Blames(c, t) BY <1>1, CommandAnswerIsGood DEF Toks
<1>3. QED BY <1>1, <1>2, FailsIsGood

LEMMA NextRequestIsGood ==
  ASSUME PinInv, NEW c \in Clients, NextRequest(c)
  PROVE  Good
<1> DEFINE k == call[c]
           A == Continue(tok, k.api)
<1>1. k # None /\ Going(k) /\ k.stage = "next" /\ Tok(tok) BY DEF NextRequest, Stage, PinInv
<1>2. \A a \in A : Tok(a.tok) /\ tok.retries <= a.tok.retries BY <1>1, NextEntryCosts
<1>3. \A a \in A : Blames(c, a.tok)
  <2>1. \A a \in A : tok.retries \in Nat /\ a.tok.retries \in Nat BY <1>1, <1>2, TokRetries
  <2>2. QED BY <1>2, <2>1 DEF Blames
<1>4. CASE \E a \in A : Enters(c, k, a.tok) /\ Becomes(c, a.tok, TRUE)
  <2> HIDE DEF A
  <2>1. PICK a \in A : Enters(c, k, a.tok) /\ Becomes(c, a.tok, TRUE) BY <1>4
  <2>2. PinInv' /\ ~(tok'.retries < tok.retries) BY <1>1, <1>2, <2>1, EntersKeeps
  <2>3. QED BY <2>2 DEF Good
<1>5. CASE \E a \in A, r \in {"ok", "refused"} : Return(c, r, a.tok) /\ Becomes(c, a.tok, TRUE)
  BY <1>1, <1>2, <1>3, <1>5, ReturnIsGood
<1>6. CASE Fails(c, Toks(A))
  <2>1. \A t \in Toks(A) : Tok(t) /\ Blames(c, t) BY <1>2, <1>3 DEF Toks
  <2>2. QED BY <1>1, <1>6, <2>1, FailsIsGood
<1>7. QED
  <2> HIDE DEF A
  <2>1. \/ \E a \in A : /\ IF a.reply.ok
                           THEN IF More(NextEntry(list[c], a.reply)) THEN Enters(c, k, a.tok)
                                ELSE Return(c, "ok", a.tok)
                           ELSE Return(c, "refused", a.tok)
                        /\ Becomes(c, a.tok, TRUE)
        \/ Fails(c, Toks(A))
    BY DEF NextRequest, A
  <2>2. QED BY <1>4, <1>5, <1>6, <2>1

\* No request at all.
LEMMA GivesUpIsGood ==
  ASSUME PinInv, NEW c \in Clients, NoProtocol(c) \/ PinRequired(c)
  PROVE  Good
<1>1. call[c] # None /\ Tok(tok) BY DEF NoProtocol, PinRequired, Stage, PinInv
<1>2. \E r \in {"error", "refused"} : Return(c, r, tok) /\ Becomes(c, tok, TRUE)
  BY DEF NoProtocol, PinRequired
<1>3. tok.retries \in Nat BY <1>1, TokRetries
<1>4. Blames(c, tok) BY <1>3 DEF Blames
<1>5. QED BY <1>1, <1>2, <1>4, ReturnIsGood

\* A call begins without a secret, and sends no PIN before it has one.
LEMMA CallIsGood ==
  ASSUME PinInv, NEW c \in Clients, Call(c)
  PROVE  Good
<1>1. Tok(tok) /\ tok.retries \in Nat /\ tok' = tok BY TokRetries DEF PinInv, Call
<1>2. CASE UNCHANGED call BY <1>1, <1>2 DEF PinInv, Stage, Good
<1>3. CASE \E k \in Asked \cup {EnrollContinue(enr[c].tmpl)} :
             call' = [call EXCEPT ![c] =
                 [k EXCEPT !.stage = FirstStage(flags[c], k),
                           !.auth = IF k.api = "enroll_continue" THEN enr[c].token ELSE None]]
  <2> DEFINE a(k) == IF k.api = "enroll_continue" THEN enr[c].token ELSE None
  <2>1. PICK k \in Asked \cup {EnrollContinue(enr[c].tmpl)} :
          call' = [call EXCEPT ![c] = [k EXCEPT !.stage = FirstStage(flags[c], k), !.auth = a(k)]]
    BY <1>3
  <2>2. FirstStage(flags[c], k) \in {"authkey", "cmd"} BY DEF FirstStage
  <2>3. Going(k) BY AskedIsGoing
  <2> DEFINE k2 == [k EXCEPT !.stage = FirstStage(flags[c], k), !.auth = a(k)]
  <2>4. Going(k2) /\ k2.stage \in {"authkey", "cmd"} BY <2>2, <2>3 DEF Going
  <2> HIDE DEF k2
  <2>5. call' = [call EXCEPT ![c] = k2] BY <2>1 DEF k2
  <2>6. DOMAIN call' = Clients /\ call'[c] = k2 /\ \A d \in Clients \ {c} : call'[d] = call[d]
    BY <2>5 DEF PinInv
  <2>7. QED BY <1>1, <2>4, <2>6 DEF PinInv, Stage, Good
<1>4. QED BY <1>2, <1>3 DEF Call

\* Nothing else is about the calls or the PIN.
LEMMA ElsewhereIsGood ==
  ASSUME PinInv, UNCHANGED call, tok'.retries = tok.retries, tok'.fresh = tok.fresh, Tok(tok')
  PROVE  Good
<1>1. tok.retries \in Nat BY TokRetries DEF PinInv
<1>2. QED BY <1>1 DEF PinInv, Stage, Good

LEMMA ForgetsIsFree ==
  ASSUME NEW t, Tok(t), NEW u \in Forgets(t)
  PROVE  Tok(u) /\ u.retries = t.retries /\ u.fresh = t.fresh
BY DEF Forgets, Tok

LEMMA StepIsGood == ASSUME PinInv, [Next]_vars PROVE Good
<1>1. Tok(tok) BY DEF PinInv
<1>2. ASSUME NEW c \in Clients, Open(c) \/ OpenFallsBack(c) PROVE Good
  <2>1. tok' \in {tok, Discard(tok)} /\ UNCHANGED call BY <1>2 DEF Open, OpenFallsBack
  <2>2. QED BY <1>1, <2>1, DiscardIsFree, ElsewhereIsGood
<1>3. ASSUME NEW c \in Clients, FreeEnroll(c) PROVE Good
  BY <1>1, <1>3, ElsewhereIsGood DEF FreeEnroll
<1>4. CASE TimersRunOut
  <2>1. tok' \in Forgets(tok) /\ UNCHANGED call BY <1>4 DEF TimersRunOut, objects
  <2>2. QED BY <1>1, <2>1, ForgetsIsFree, ElsewhereIsGood
<1>5. CASE UNCHANGED vars BY <1>1, <1>5, ElsewhereIsGood DEF vars, objects
<1>6. QED
  BY <1>2, <1>3, <1>4, <1>5, CallIsGood, KeyExchangeIsGood, GivesUpIsGood, GetUvTokenIsGood,
     CommandIsGood, CommandUnsentIsGood, CommandUnreadIsGood, NextRequestIsGood DEF Next

LEMMA InitIsGood == Init => PinInv
<1> SUFFICES ASSUME Init PROVE PinInv
  OBVIOUS
<1>1. Tok(tok)
  <2>1. PICK a \in Kinds, pin \in Pins \cup {None} :
          tok = [perms |-> a.perms, final |-> a.final, pin |-> pin, retries |-> MaxRetries,
                 fresh |-> {}, auth |-> {}, cursor |-> None, enroll |-> None,
                 creds |-> Ids, templates |-> {}, used |-> {}]
    BY DEF Init
  <2>2. QED BY <2>1, AuthenticatorAssumption DEF Tok
<1>2. DOMAIN call = Clients /\ \A c \in Clients : call[c] = None BY DEF Init
<1>3. QED BY <1>1, <1>2 DEF PinInv, Stage

\* A PIN attempt is only lost by a call that was given another PIN than the
\* authenticator's, or whose shared secret another client made it drop, and a call
\* loses at most one: fido_dev_get_uv_token and fido_dev_set_pin get a new shared
\* secret in each call, and none of the functions tries a PIN again.
THEOREM PinAttemptsHold == Spec => PinAttempts
<1>1. PinInv /\ [Next]_vars => PinInv' BY StepIsGood DEF Good
<1>2. PinInv /\ [Next]_vars =>
        [tok'.retries < tok.retries =>
           \E c \in Clients :
             /\ call[c] # None /\ call'[c] # call[c] /\ ~call[c].tried
             /\ call[c].pin # None /\ (call[c].pin # tok.pin \/ call[c].crossed)]_vars
  BY StepIsGood DEF Good, Cause
<1>3. QED BY InitIsGood, <1>1, <1>2, PTL DEF Spec, PinAttempts

-----------------------------------------------------------------------------
(* What the authenticator's answers leave alone.                           *)

Fields == {"perms", "final", "pin", "retries", "fresh", "auth", "cursor", "enroll",
           "creds", "templates", "used"}

\* Authenticator u differs from t in the fields of F at most.
Same(t, u, F) == DOMAIN t = Fields /\ DOMAIN u = Fields /\ \A f \in Fields \ F : u[f] = t[f]

\* It may have dropped enrollment and templates, but begun none.
Drops(t, u) ==
  /\ DOMAIN u = Fields /\ u.used = t.used
  /\ u.enroll \in {t.enroll, None} /\ u.templates \subseteq t.templates

\* It is in no enumeration.
Ended(t, u) == u.cursor = None /\ u.creds \subseteq t.creds

LEMMA SameDrops ==
  ASSUME NEW t, NEW u, NEW F, Same(t, u, F)
  PROVE  /\ F \cap {"used", "enroll", "templates"} = {} => Drops(t, u)
         /\ "creds" \notin F => u.creds = t.creds
         /\ "auth" \notin F => u.auth = t.auth
         /\ "pin" \notin F => u.pin = t.pin
         /\ F \cap {"perms", "final"} = {} => u.perms = t.perms /\ u.final = t.final
BY DEF Same, Drops, Fields

LEMMA DiscardIs ==
  ASSUME NEW t, DOMAIN t = Fields
  PROVE  Same(t, Discard(t), {"cursor"}) /\ Discard(t).cursor = None
BY DEF Same, Discard, Fields

LEMMA RefusesIs ==
  ASSUME NEW t, NEW a \in Refuses(t) PROVE a.tok = Discard(t) /\ a.reply = Refusal /\ ~a.reply.ok
BY DEF Refuses, Answer, Refusal

LEMMA KeyAgreementIs ==
  ASSUME NEW t, DOMAIN t = Fields, NEW c, NEW a \in KeyAgreement(t, c)
  PROVE  Same(t, a.tok, {"cursor", "fresh"}) /\ a.tok.cursor = None
<1> DEFINE d == Discard(t)
<1>1. a.tok = [d EXCEPT !.fresh = @ \cup {c}] BY DEF KeyAgreement, Answer
<1>2. Same(t, d, {"cursor"}) /\ d.cursor = None BY DiscardIs
<1> HIDE DEF d
<1>3. QED BY <1>1, <1>2 DEF Same, Fields

LEMMA IssueIs ==
  ASSUME NEW t, DOMAIN t = Fields, NEW w, NEW a \in Issue(t, w)
  PROVE  /\ Same(t, a.tok, {"cursor", "auth", "retries"}) /\ a.tok.cursor = None
         /\ a.tok.auth \subseteq t.auth \cup {Granted(t, w)} /\ a.reply.ok
<1> DEFINE d == Discard(t)
           A == (IF t.perms THEN {} ELSE d.auth) \cup {Granted(t, w)}
<1>1. a.tok = [d EXCEPT !.auth = A, !.retries = MaxRetries] /\ a.reply = Ack BY DEF Issue, Answer
<1>2. Same(t, d, {"cursor"}) /\ d.cursor = None BY DiscardIs
<1>3. A \subseteq t.auth \cup {Granted(t, w)} BY <1>2, SameDrops
<1>4. Ack.ok BY DEF Ack, Refusal
<1> HIDE DEF d, A
<1>5. QED BY <1>1, <1>2, <1>3, <1>4 DEF Same, Fields

LEMMA WrongPinIs ==
  ASSUME NEW t, DOMAIN t = Fields
  PROVE  Same(t, WrongPin(t), {"cursor", "retries", "fresh"}) /\ WrongPin(t).cursor = None
<1> DEFINE d == Discard(t)
<1>1. WrongPin(t) = [d EXCEPT !.retries = @ - 1, !.fresh = {}] BY DEF WrongPin
<1>2. Same(t, d, {"cursor"}) /\ d.cursor = None BY DiscardIs
<1> HIDE DEF d
<1>3. QED BY <1>1, <1>2 DEF Same, Fields

\* The exchanges for a PIN/UV token.
TokenFields == {"cursor", "auth", "retries", "fresh"}

LEMMA TokenAnswersAre ==
  ASSUME NEW t, DOMAIN t = Fields, NEW c, NEW k, NEW a \in TokenAnswers(t, c, k)
  PROVE  /\ Same(t, a.tok, TokenFields) /\ a.tok.cursor = None
         /\ a.tok.auth \subseteq t.auth \cup {Granted(t, WantedToken(c, k))}
<1> DEFINE w == WantedToken(c, k)
<1>1. a \in Refuses(t) \/ a \in Issue(t, w) \/ a = Answer(WrongPin(t), Refusal)
  BY DEF TokenAnswers, TokenUsingUv, TokenUsingPin
<1>2. CASE a \in Refuses(t)
  <2>1. a.tok = Discard(t) BY <1>2, RefusesIs
  <2>2. a.tok.auth = t.auth BY <2>1, DiscardIs, SameDrops
  <2>3. QED BY <2>1, <2>2, DiscardIs DEF Same, TokenFields
<1>3. CASE a \in Issue(t, w) BY <1>3, IssueIs DEF Same, TokenFields
<1>4. CASE a = Answer(WrongPin(t), Refusal)
  <2>1. a.tok = WrongPin(t) BY <1>4 DEF Answer
  <2>2. a.tok.auth = t.auth BY <2>1, WrongPinIs, SameDrops
  <2>3. QED BY <2>1, <2>2, WrongPinIs DEF Same, TokenFields
<1>5. QED BY <1>1, <1>2, <1>3, <1>4

LEMMA NewPinIs ==
  ASSUME NEW t, DOMAIN t = Fields, NEW pin, NEW a \in NewPin(t, pin)
  PROVE  /\ Same(t, a.tok, {"cursor", "pin", "retries", "auth"}) /\ a.tok.cursor = None
         /\ a.tok.auth = {} /\ a.tok.pin = pin /\ a.reply.ok
<1> DEFINE d == Discard(t)
<1>1. a.tok = [d EXCEPT !.pin = pin, !.retries = MaxRetries, !.auth = {}] /\ a.reply = Ack
  BY DEF NewPin, Answer
<1>2. Same(t, d, {"cursor"}) /\ d.cursor = None BY DiscardIs
<1>3. Ack.ok BY DEF Ack, Refusal
<1> HIDE DEF d
<1>4. QED BY <1>1, <1>2, <1>3 DEF Same, Fields

LEMMA ResetIs ==
  ASSUME NEW t, DOMAIN t = Fields, NEW a \in Reset(t)
  PROVE  /\ Same(t, a.tok, {"pin", "retries", "fresh", "auth", "cursor", "enroll", "creds", "templates"})
         /\ a.tok.cursor = None /\ a.tok.auth = {} /\ a.tok.pin = None /\ a.tok.enroll = None
         /\ a.tok.creds = {} /\ a.tok.templates = {} /\ a.reply.ok
<1>1. a.tok = [t EXCEPT !.pin = None, !.retries = MaxRetries, !.fresh = {}, !.auth = {},
                        !.cursor = None, !.enroll = None, !.creds = {}, !.templates = {}]
      /\ a.reply = Ack
  BY DEF Reset, Answer
<1>2. Ack.ok BY DEF Ack, Refusal
<1>3. QED BY <1>1, <1>2 DEF Same, Fields

\* The first of the things in S, and the rest.
LEMMA BeginIs ==
  ASSUME NEW t, DOMAIN t = Fields, NEW api, NEW S, NEW a \in Begin(t, api, S)
  PROVE  \E x \in S :
           /\ Same(t, a.tok, {"cursor"})
           /\ a.tok.cursor = (IF S \ {x} = {} THEN None ELSE [api |-> api, rest |-> S \ {x}])
           /\ a.reply.ok /\ a.reply.entries = {x} /\ a.reply.total = Cardinality(S)
<1> DEFINE u(x) == [t EXCEPT !.cursor = IF S \ {x} = {} THEN None ELSE [api |-> api, rest |-> S \ {x}]]
           r(x) == [Ack EXCEPT !.entries = {x}, !.total = Cardinality(S)]
<1>1. Begin(t, api, S) = {Answer(u(x), r(x)) : x \in S} BY DEF Begin
<1>2. PICK x \in S : a = Answer(u(x), r(x)) BY <1>1
<1>3. a.tok = u(x) /\ a.reply = r(x) BY <1>2 DEF Answer
<1>4. r(x).ok /\ r(x).entries = {x} /\ r(x).total = Cardinality(S) BY DEF Ack, Refusal
<1> HIDE DEF r
<1>5. Same(t, u(x), {"cursor"}) BY DEF Same, Fields
<1>6. u(x).cursor = IF S \ {x} = {} THEN None ELSE [api |-> api, rest |-> S \ {x}] BY DEF Fields
<1>7. QED BY <1>3, <1>4, <1>5, <1>6

LEMMA ContinueIs ==
  ASSUME NEW t, DOMAIN t = Fields, NEW api, NEW a \in Continue(t, api),
         t.cursor # None => DOMAIN t.cursor = {"api", "rest"}
  PROVE  \/ a.tok = Discard(t) /\ ~a.reply.ok
         \/ t.cursor # None /\ t.cursor.api = api /\ \E x \in t.cursor.rest :
              /\ Same(t, a.tok, {"cursor"})
              /\ \/ t.cursor.rest = {x} /\ a.tok.cursor = None
                 \/ /\ t.cursor.rest # {x} /\ DOMAIN a.tok.cursor = {"api", "rest"}
                    /\ a.tok.cursor.api = api /\ a.tok.cursor.rest = t.cursor.rest \ {x}
              /\ a.reply.ok /\ a.reply.entries = {x}
<1>1. CASE t.cursor = None \/ t.cursor.api # api
  BY <1>1, RefusesIs DEF Continue
<1>2. CASE ~(t.cursor = None \/ t.cursor.api # api)
  <2> DEFINE u(x) == [t EXCEPT !.cursor = IF t.cursor.rest = {x} THEN None
                                            ELSE [t.cursor EXCEPT !.rest = @ \ {x}]]
             r(x) == [Ack EXCEPT !.entries = {x}]
             e(x) == [t.cursor EXCEPT !.rest = @ \ {x}]
  <2>1. Continue(t, api) = {Answer(u(x), r(x)) : x \in t.cursor.rest} BY <1>2 DEF Continue
  <2>2. PICK x \in t.cursor.rest : a = Answer(u(x), r(x)) BY <2>1
  <2>3. a.tok = u(x) /\ a.reply = r(x) BY <2>2 DEF Answer
  <2>4. r(x).ok /\ r(x).entries = {x} BY DEF Ack, Refusal
  <2>5. DOMAIN e(x) = {"api", "rest"} /\ e(x).api = api /\ e(x).rest = t.cursor.rest \ {x} BY <1>2
  <2>6. Same(t, u(x), {"cursor"}) BY DEF Same, Fields
  <2>7. u(x).cursor = IF t.cursor.rest = {x} THEN None ELSE e(x) BY DEF Fields
  <2> HIDE DEF r, u, e
  <2>8. QED BY <1>2, <2>3, <2>4, <2>5, <2>6, <2>7
<1>3. QED BY <1>1, <1>2

LEMMA BeginEnrollIs ==
  ASSUME NEW t, DOMAIN t = Fields, NEW a \in BeginEnroll(t)
  PROVE  \E x \in Templates \ t.used :
           /\ Same(t, a.tok, {"enroll", "used"})
           /\ a.tok.enroll = [tmpl |-> x, left |-> Samples] /\ a.tok.used = t.used \cup {x}
           /\ a.reply.ok /\ a.reply.tmpl = x /\ a.reply.left = Samples
<1> DEFINE u(x) == [t EXCEPT !.enroll = [tmpl |-> x, left |-> Samples], !.used = @ \cup {x}]
           r(x) == [Ack EXCEPT !.tmpl = x, !.left = Samples]
<1>1. BeginEnroll(t) = {Answer(u(x), r(x)) : x \in Templates \ t.used} BY DEF BeginEnroll
<1>2. PICK x \in Templates \ t.used : a = Answer(u(x), r(x)) BY <1>1
<1>3. a.tok = u(x) /\ a.reply = r(x) BY <1>2 DEF Answer
<1>4. r(x).ok /\ r(x).tmpl = x /\ r(x).left = Samples BY DEF Ack, Refusal
<1> HIDE DEF r
<1>5. Same(t, u(x), {"enroll", "used"}) BY DEF Same, Fields
<1>6. u(x).enroll = [tmpl |-> x, left |-> Samples] /\ u(x).used = t.used \cup {x} BY DEF Fields
<1>7. QED BY <1>3, <1>4, <1>5, <1>6

\* A sample that was not good, one of several, and the last.
LEMMA ContinueEnrollIs ==
  ASSUME NEW t, DOMAIN t = Fields, NEW x, NEW a \in ContinueEnroll(t, x),
         t.enroll # None => DOMAIN t.enroll = {"tmpl", "left"}
  PROVE  \/ a.tok = Discard(t) /\ ~a.reply.ok
         \/ /\ t.enroll # None /\ t.enroll.tmpl = x /\ a.reply.ok
            /\ \/ a.tok = t /\ a.reply.left = t.enroll.left
               \/ /\ t.enroll.left = 1 /\ a.reply.left = t.enroll.left - 1
                  /\ Same(t, a.tok, {"enroll", "templates"})
                  /\ a.tok.enroll = None /\ a.tok.templates = t.templates \cup {x}
               \/ /\ t.enroll.left # 1 /\ a.reply.left = t.enroll.left - 1
                  /\ Same(t, a.tok, {"enroll"}) /\ DOMAIN a.tok.enroll = {"tmpl", "left"}
                  /\ a.tok.enroll.tmpl = x /\ a.tok.enroll.left = t.enroll.left - 1
<1>1. CASE t.enroll = None \/ t.enroll.tmpl # x
  BY <1>1, RefusesIs DEF ContinueEnroll
<1>2. CASE ~(t.enroll = None \/ t.enroll.tmpl # x)
  <2> DEFINE left == t.enroll.left
             r(n) == [Ack EXCEPT !.left = n]
             u == [t EXCEPT !.enroll = None, !.templates = @ \cup {x}]
             e == [t.enroll EXCEPT !.left = left - 1]
             v == [t EXCEPT !.enroll.left = left - 1]
  <2>1. \/ a = Answer(t, r(left))
        \/ a = Answer(IF left = 1 THEN u ELSE v, r(left - 1))
    BY <1>2 DEF ContinueEnroll
  <2>2. \A n : r(n).ok /\ r(n).left = n BY DEF Ack, Refusal
  <2>3. Same(t, u, {"enroll", "templates"}) /\ u.enroll = None /\ u.templates = t.templates \cup {x}
    BY DEF Same, Fields
  <2>4. Same(t, v, {"enroll"}) /\ v.enroll = e BY DEF Same, Fields
  <2>5. DOMAIN e = {"tmpl", "left"} /\ e.tmpl = x /\ e.left = left - 1 BY <1>2
  <2> HIDE DEF r, u, v, e, left
  <2>6. \/ a.tok = t /\ a.reply = r(left)
        \/ a.tok = (IF left = 1 THEN u ELSE v) /\ a.reply = r(left - 1)
    BY <2>1 DEF Answer
  <2>7. QED BY <1>2, <2>2, <2>3, <2>4, <2>5, <2>6 DEF left
<1>3. QED BY <1>1, <1>2

\* The commands that are answered in one exchange and do not touch the PIN.
LEMMA PlainCommandIs ==
  ASSUME NEW t, DOMAIN t = Fields, NEW c, NEW k, NEW a \in CommandAnswers(t, c, k),
         k.api \notin {"rk", "rp", "assert", "enroll_begin", "enroll_continue",
                       "set_pin", "change_pin", "reset"}
  PROVE  /\ Same(t, a.tok, {"cursor", "creds", "enroll", "templates"}) /\ a.tok.cursor = None
         /\ Drops(t, a.tok) /\ a.tok.creds \subseteq t.creds \cup {k.arg}
         /\ k.api # "make_cred" => a.tok.creds \subseteq t.creds
         /\ k.api = "template_array" => a.tok.templates = t.templates
         /\ k.api = "template_array" /\ a.reply.ok => a.reply.entries = t.templates
<1> DEFINE d == Discard(t)
<1>1. Same(t, d, {"cursor"}) /\ d.cursor = None BY DiscardIs
<1>2. d.creds = t.creds /\ d.enroll = t.enroll /\ d.templates = t.templates /\ d.used = t.used
      /\ DOMAIN d = Fields
  BY <1>1 DEF Same, Fields
<1>3. a.reply.ok \/ a.tok = d
  BY RefusesIs DEF CommandAnswers, Effect, Answer, Ack, Refusal
<1> HIDE DEF d
<1>4. CASE a \in Refuses(t)
  <2>1. a.tok = d /\ ~a.reply.ok BY <1>4, RefusesIs DEF d
  <2>2. QED BY <1>1, <1>2, <2>1 DEF Same, Drops
<1>5. CASE a \in Effect(t, c, k)
  <2>1. CASE k.api = "del_rk"
    <3>1. a.tok = [d EXCEPT !.creds = @ \ {k.arg}] BY <1>5, <2>1 DEF Effect, Answer, d
    <3>2. QED BY <1>1, <1>2, <2>1, <3>1 DEF Same, Drops, Fields
  <2>2. CASE k.api = "make_cred"
    <3>1. a.tok = [d EXCEPT !.creds = @ \cup {k.arg}] BY <1>5, <2>2 DEF Effect, Answer, d
    <3>2. QED BY <1>1, <1>2, <2>2, <3>1 DEF Same, Drops, Fields
  <2>3. CASE k.api = "enroll_cancel"
    <3>1. a.tok = [d EXCEPT !.enroll = None] BY <1>5, <2>3 DEF Effect, Answer, d
    <3>2. QED BY <1>1, <1>2, <2>3, <3>1 DEF Same, Drops, Fields
  <2>4. CASE k.api = "enroll_remove"
    <3>1. a.tok = [d EXCEPT !.templates = @ \ {k.arg}] BY <1>5, <2>4 DEF Effect, Answer, d
    <3>2. QED BY <1>1, <1>2, <2>4, <3>1 DEF Same, Drops, Fields
  <2>5. CASE k.api = "template_array"
    <3> DEFINE r == [Ack EXCEPT !.entries = t.templates]
    <3>1. a = Answer(d, r) BY <1>5, <2>5 DEF Effect, d
    <3>2. r.entries = t.templates BY DEF Ack, Refusal
    <3> HIDE DEF r
    <3>3. a.tok = d /\ a.reply.entries = t.templates BY <3>1, <3>2 DEF Answer
    <3>4. QED BY <1>1, <1>2, <2>5, <3>3 DEF Same, Drops
  <2>6. CASE k.api \notin {"del_rk", "make_cred", "enroll_cancel", "enroll_remove", "template_array"}
    <3>1. a.tok = d BY <1>5, <2>6 DEF Effect, Answer, d
    <3>2. QED BY <1>1, <1>2, <2>6, <3>1 DEF Same, Drops
  <2>7. QED BY <2>1, <2>2, <2>3, <2>4, <2>5, <2>6
<1>6. QED BY <1>4, <1>5 DEF CommandAnswers

\* Those that do.
LEMMA PinCommandIs ==
  ASSUME NEW t, DOMAIN t = Fields, NEW c, NEW k, NEW a \in CommandAnswers(t, c, k),
         k.api \in {"set_pin", "change_pin", "reset"}
  PROVE  /\ DOMAIN a.tok = Fields /\ a.tok.perms = t.perms /\ a.tok.final = t.final
         /\ a.tok.auth \subseteq t.auth /\ Ended(t, a.tok) /\ Drops(t, a.tok)
         /\ ~a.reply.ok => a.tok.pin = t.pin
         /\ a.reply.ok => a.tok.pin = IF k.api = "reset" THEN None ELSE k.new
         /\ a.reply.ok /\ k.api = "set_pin" => t.pin = None
         /\ a.reply.ok /\ k.api = "change_pin" => t.pin # None
<1>1. CASE a \in Refuses(t)
  <2>1. a.tok = Discard(t) /\ ~a.reply.ok BY <1>1, RefusesIs
  <2>2. Same(t, a.tok, {"cursor"}) /\ a.tok.cursor = None BY <2>1, DiscardIs
  <2>3. QED BY <2>1, <2>2 DEF Same, Drops, Fields, Ended
<1>2. CASE a \in NewPin(t, k.new) /\ k.api = (IF t.pin = None THEN "set_pin" ELSE "change_pin")
  <2>1. /\ Same(t, a.tok, {"cursor", "pin", "retries", "auth"}) /\ a.tok.cursor = None
        /\ a.tok.auth = {} /\ a.tok.pin = k.new /\ a.reply.ok
    BY <1>2, NewPinIs
  <2>2. QED BY <1>2, <2>1 DEF Same, Drops, Fields, Ended
<1>3. CASE a = Answer(WrongPin(t), Refusal) /\ k.api = "change_pin"
  <2>1. a.tok = WrongPin(t) /\ ~a.reply.ok BY <1>3 DEF Answer, Refusal
  <2>2. Same(t, a.tok, {"cursor", "retries", "fresh"}) /\ a.tok.cursor = None BY <2>1, WrongPinIs
  <2>3. QED BY <2>1, <2>2 DEF Same, Drops, Fields, Ended
<1>4. CASE a \in Reset(t) /\ k.api = "reset"
  <2>1. /\ a.tok.auth = {} /\ Ended(t, a.tok) /\ a.tok.pin = None /\ a.reply.ok /\ Drops(t, a.tok)
        /\ a.tok.perms = t.perms /\ a.tok.final = t.final /\ DOMAIN a.tok = Fields
    BY <1>4, ResetIs DEF Ended, Same, Drops, Fields
  <2>2. QED BY <1>4, <2>1
<1>5. QED
  <2>1. a \in Refuses(t) \/ a \in Effect(t, c, k) BY DEF CommandAnswers
  <2>2. CASE k.api = "set_pin" BY <2>1, <2>2, <1>1, <1>2 DEF Effect, SetPin
  <2>3. CASE k.api = "change_pin" BY <2>1, <2>3, <1>1, <1>2, <1>3 DEF Effect, ChangePin
  <2>4. CASE k.api = "reset" BY <2>1, <2>4, <1>1, <1>4 DEF Effect
  <2>5. QED BY <2>2, <2>3, <2>4

\* Those that begin an enumeration.
LEMMA ListCommandIs ==
  ASSUME NEW t, DOMAIN t = Fields, NEW c, NEW k, NEW a \in CommandAnswers(t, c, k),
         k.api \in {"rk", "rp", "assert"}
  PROVE  \/ a.tok = Discard(t) /\ a.reply.entries = {} /\ a.reply.total = 0
            /\ (a.reply.ok => k.api = "rp" /\ Stored(t, k) = {})
         \/ \E x \in Stored(t, k) :
              /\ Same(t, a.tok, {"cursor"})
              /\ a.tok.cursor = (IF Stored(t, k) \ {x} = {} THEN None
                                 ELSE [api |-> k.api, rest |-> Stored(t, k) \ {x}])
              /\ a.reply.ok /\ a.reply.entries = {x}
              /\ \/ a.reply.total = Cardinality(Stored(t, k))
                 \/ k.api = "assert" /\ Cardinality(Stored(t, k)) = 1 /\ a.reply.total = 0
<1> DEFINE S == Stored(t, k)
           Shown(b, x) == /\ Same(t, b.tok, {"cursor"})
                          /\ b.tok.cursor = (IF S \ {x} = {} THEN None ELSE [api |-> k.api, rest |-> S \ {x}])
                          /\ b.reply.ok /\ b.reply.entries = {x}
<1>1. CASE a \in Refuses(t)
  <2>1. a.tok = Discard(t) /\ a.reply = Refusal /\ ~a.reply.ok BY <1>1, RefusesIs
  <2>2. QED BY <2>1 DEF Refusal
<1>2. CASE a \in Begin(t, k.api, S) BY <1>2, BeginIs
<1>3. CASE k.api = "rp" /\ t.creds = {} /\ a = Answer(Discard(t), Ack)
  <2>1. a.tok = Discard(t) /\ a.reply.entries = {} /\ a.reply.total = 0
    BY <1>3 DEF Answer, Ack, Refusal
  <2>2. S = {} BY <1>3 DEF Stored, RpsOf
  <2>3. QED BY <1>3, <2>1, <2>2
<1>4. CASE k.api = "assert" /\ a \in BeginAssert(t, k.arg)
  <2>1. S = CredsOf(t, k.arg) BY <1>4 DEF Stored
  <2> DEFINE f(b) == [b EXCEPT !.reply.total = IF @ = 1 THEN 0 ELSE @]
  <2>2. PICK b \in Begin(t, k.api, S) : a = f(b) BY <1>4, <2>1 DEF BeginAssert
  <2>3. PICK x \in S : Shown(b, x) /\ b.reply.total = Cardinality(S) BY <2>2, BeginIs
  <2>4. PICK u, r : b = [tok |-> u, reply |-> r] /\ DOMAIN r = {"ok", "total", "entries", "tmpl", "left"}
    <3> DEFINE v(y) == [t EXCEPT !.cursor = IF S \ {y} = {} THEN None ELSE [api |-> k.api, rest |-> S \ {y}]]
               q(y) == [Ack EXCEPT !.entries = {y}, !.total = Cardinality(S)]
    <3>1. Begin(t, k.api, S) = {Answer(v(y), q(y)) : y \in S} BY DEF Begin
    <3>2. \A y : DOMAIN q(y) = {"ok", "total", "entries", "tmpl", "left"} BY DEF Ack, Refusal
    <3> HIDE DEF v, q
    <3>3. QED BY <2>2, <3>1, <3>2 DEF Answer
  <2>5. a.tok = b.tok /\ a.reply.ok = b.reply.ok /\ a.reply.entries = b.reply.entries
        /\ a.reply.total = (IF b.reply.total = 1 THEN 0 ELSE b.reply.total)
    BY <2>2, <2>4
  <2> HIDE DEF S, f
  <2>6. Shown(a, x) BY <2>3, <2>5
  <2>7. QED BY <1>4, <2>3, <2>5, <2>6 DEF S
<1>5. QED
  <2>1. a \in Refuses(t) \/ a \in Effect(t, c, k) BY DEF CommandAnswers
  <2>2. CASE k.api = "rk" BY <2>1, <2>2, <1>1, <1>2 DEF Effect, Stored
  <2>3. CASE k.api = "rp" BY <2>1, <2>3, <1>1, <1>2, <1>3 DEF Effect, Stored, BeginRp
  <2>4. CASE k.api = "assert" BY <2>1, <2>4, <1>1, <1>4 DEF Effect
  <2>5. QED BY <2>2, <2>3, <2>4

-----------------------------------------------------------------------------
(* What a device object takes from authenticatorGetInfo.                   *)

LEMMA ItemIs ==
  ASSUME NEW type, NEW is
  PROVE  /\ Item(type, is).type = type /\ Item(type, is).is = is
         /\ \A type2, is2 : Item(type, is) = Item(type2, is2) => type = type2 /\ is = is2
BY DEF Item

LEMMA PairIs ==
  ASSUME NEW k, NEW v
  PROVE  /\ Pair(k, v).key = k /\ Pair(k, v).val = v
         /\ \A k2, v2 : Pair(k, v) = Pair(k2, v2) => k = k2 /\ v = v2
BY DEF Pair

LEMMA Ranks ==
  /\ Rank("uv") = 1 /\ Rank("alg") = 2 /\ Rank("type") = 3 /\ Rank("credMgmt") = 4
  /\ Rank("bioEnroll") = 5 /\ Rank("clientPin") = 6 /\ Rank("pinUvAuthToken") = 7
  /\ Rank("credentialMgmtPreview") = 8
BY DEF Rank, Names

\* An option, and any entry of the reply.
Option(name, b) == Pair(String(name), Bool(b))
Entry(n, v) == Pair(Uint(n), v)

LEMMA OptionPrecedes ==
  ASSUME NEW s, NEW b, NEW s2, NEW b2, Rank(s) < Rank(s2)
  PROVE  Precedes(Option(s, b).key, Option(s2, b2).key)
BY ItemIs, PairIs DEF Precedes, String, Option

LEMMA EntryPrecedes ==
  ASSUME NEW n \in Nat, NEW v, NEW n2 \in Nat, NEW v2, n < n2
  PROVE  Precedes(Entry(n, v).key, Entry(n2, v2).key)
BY ItemIs, PairIs DEF Precedes, Uint, Entry

\* The entries of a map, in order, from x to y.
In(s) == {s[i] : i \in DOMAIN s}
Ordered(s) == \A i \in DOMAIN s : i > 1 => Precedes(s[i - 1].key, s[i].key)
Chain(s, x, y) == s \in Seq(In(s)) /\ Len(s) > 0 /\ s[1] = x /\ s[Len(s)] = y /\ Ordered(s)

LEMMA ChainIs ==
  ASSUME NEW s, NEW x, NEW y, Chain(s, x, y) PROVE MapIter(Map(s)) /\ Entries(Map(s)) = In(s)
BY ItemIs DEF Chain, Ordered, In, MapIter, Entries, Map

LEMMA OneChain == ASSUME NEW a PROVE Chain(<<a>>, a, a) /\ In(<<a>>) = {a}
<1>1. In(<<a>>) = {a} BY DEF In
<1>2. <<a>> \in Seq({a}) /\ Len(<<a>>) = 1 /\ <<a>>[1] = a /\ DOMAIN <<a>> = {1} OBVIOUS
<1>3. QED BY <1>1, <1>2 DEF Chain, Ordered

LEMMA TwoChain ==
  ASSUME NEW a, NEW b, Precedes(a.key, b.key) PROVE Chain(<<a, b>>, a, b) /\ In(<<a, b>>) = {a, b}
<1>1. In(<<a, b>>) = {a, b} BY DEF In
<1>2. /\ <<a, b>> \in Seq({a, b}) /\ Len(<<a, b>>) = 2 /\ <<a, b>>[1] = a /\ <<a, b>>[2] = b
      /\ DOMAIN <<a, b>> = {1, 2} /\ 2 - 1 = 1
  OBVIOUS
<1>3. QED BY <1>1, <1>2 DEF Chain, Ordered

LEMMA Chains ==
  ASSUME NEW s, NEW x, NEW y, Chain(s, x, y), NEW u, NEW z, NEW w, Chain(u, z, w),
         Precedes(y.key, z.key)
  PROVE  Chain(s \o u, x, w) /\ In(s \o u) = In(s) \cup In(u)
<1> DEFINE v == s \o u
           S == In(s) \cup In(u)
           m == Len(s)
           n == Len(u)
<1>1. s \in Seq(S) /\ u \in Seq(S) /\ m \in Nat /\ n \in Nat /\ m > 0 /\ n > 0
      /\ DOMAIN s = 1 .. m /\ DOMAIN u = 1 .. n
  <2>1. s \in Seq(In(s)) /\ u \in Seq(In(u)) BY DEF Chain
  <2>2. s \in Seq(S) /\ u \in Seq(S) BY <2>1
  <2>3. QED BY <2>1, <2>2 DEF Chain
<1> HIDE DEF v, S, m, n
<1>2. v \in Seq(S) /\ Len(v) = m + n /\ \A i \in 1 .. m + n : v[i] = IF i <= m THEN s[i] ELSE u[i - m]
  BY <1>1, ConcatProperties DEF v, m, n
<1>3. DOMAIN v = 1 .. m + n BY <1>1, <1>2
<1>4. /\ \A i \in 1 .. m : i \in 1 .. m + n /\ v[i] = s[i]
      /\ \A j \in 1 .. n : m + j \in 1 .. m + n /\ v[m + j] = u[j]
  BY <1>1, <1>2
<1>5. In(v) = S
  <2>1. \A i \in 1 .. m + n : i \in 1 .. m \/ \E j \in 1 .. n : i = m + j
    <3>1. \A i \in 1 .. m + n : i \in 1 .. m \/ (i - m \in 1 .. n /\ i = m + (i - m)) BY <1>1
    <3>2. QED BY <3>1
  <2>2. \A i \in DOMAIN v : v[i] \in In(s) \cup In(u)
    <3>1. \A i \in 1 .. m : s[i] \in In(s) BY <1>1 DEF In
    <3>2. \A j \in 1 .. n : u[j] \in In(u) BY <1>1 DEF In
    <3>3. QED BY <1>3, <1>4, <2>1, <3>1, <3>2
  <2>3. \A i \in 1 .. m : s[i] \in In(v)
    <3>1. \A i \in DOMAIN v : v[i] \in In(v) BY DEF In
    <3>2. QED BY <1>3, <1>4, <3>1
  <2>4. \A j \in 1 .. n : u[j] \in In(v)
    <3>1. \A i \in DOMAIN v : v[i] \in In(v) BY DEF In
    <3>2. QED BY <1>3, <1>4, <3>1
  <2>5. In(v) \subseteq S BY <2>2 DEF In, S
  <2>6. In(s) \subseteq In(v) /\ In(u) \subseteq In(v)
    <3>1. In(s) = {s[i] : i \in 1 .. m} /\ In(u) = {u[j] : j \in 1 .. n} BY <1>1 DEF In
    <3>2. QED BY <2>3, <2>4, <3>1
  <2>7. QED BY <2>5, <2>6 DEF S
<1>6. v[1] = x /\ v[Len(v)] = w
  <2>1. 1 \in 1 .. m /\ n \in 1 .. n BY <1>1
  <2>2. QED BY <1>2, <1>4, <2>1 DEF Chain, m, n
<1>7. Ordered(v)
  <2>1. SUFFICES ASSUME NEW i \in 1 .. m + n, i > 1 PROVE Precedes(v[i - 1].key, v[i].key)
    BY <1>3 DEF Ordered
  <2>2. CASE i <= m
    <3>1. i \in 1 .. m /\ i - 1 \in 1 .. m BY <1>1, <2>1, <2>2
    <3>2. Precedes(s[i - 1].key, s[i].key) BY <1>1, <2>1, <3>1 DEF Chain, Ordered
    <3>3. QED BY <1>4, <3>1, <3>2
  <2>3. CASE i = m + 1
    <3>1. i - 1 = m /\ m \in 1 .. m /\ 1 \in 1 .. n BY <1>1, <2>3
    <3>2. v[i - 1] = s[m] /\ v[i] = u[1] BY <1>4, <2>3, <3>1
    <3>3. s[m] = y /\ u[1] = z BY DEF Chain, m
    <3>4. QED BY <3>2, <3>3
  <2>4. CASE i > m + 1
    <3>1. PICK j \in 1 .. n : i = m + j /\ j > 1 /\ j - 1 \in 1 .. n /\ i - 1 = m + (j - 1)
      <4>1. i - m \in 1 .. n /\ i = m + (i - m) /\ i - m > 1 /\ (i - m) - 1 \in 1 .. n
            /\ i - 1 = m + ((i - m) - 1)
        BY <1>1, <2>4
      <4>2. QED BY <4>1
    <3>2. Precedes(u[j - 1].key, u[j].key) BY <1>1, <3>1 DEF Chain, Ordered
    <3>3. QED BY <1>4, <3>1, <3>2
  <2>5. QED BY <1>1, <2>2, <2>3, <2>4
<1>8. Len(v) > 0 BY <1>1, <1>2
<1>9. QED BY <1>2, <1>5, <1>6, <1>7, <1>8 DEF Chain, v, S

\* The options in a reply, each with one value.
OptionsOf(t) ==
  {Option("uv", t.templates # {}), Option("clientPin", t.pin # None),
   Option("pinUvAuthToken", t.perms)} \cup
  (IF t.final THEN {Option("credMgmt", TRUE), Option("bioEnroll", t.templates # {})}
   ELSE {Option("credentialMgmtPreview", TRUE)})

LEMMA OptionsAre ==
  ASSUME NEW t PROVE MapIter(Map(Options(t))) /\ Entries(Map(Options(t))) = OptionsOf(t)
<1> DEFINE uv == Option("uv", t.templates # {})
           cm == Option("credMgmt", TRUE)
           be == Option("bioEnroll", t.templates # {})
           cp == Option("clientPin", t.pin # None)
           pt == Option("pinUvAuthToken", t.perms)
           pv == Option("credentialMgmtPreview", TRUE)
<1>1. Options(t) = <<uv>> \o (IF t.final THEN <<cm, be>> ELSE <<>>) \o <<cp, pt>> \o
                   (IF t.final THEN <<>> ELSE <<pv>>)
  BY DEF Options, Option
<1>2. OptionsOf(t) = {uv, cp, pt} \cup (IF t.final THEN {cm, be} ELSE {pv}) BY DEF OptionsOf
<1>3. /\ Precedes(uv.key, cm.key) /\ Precedes(cm.key, be.key) /\ Precedes(be.key, cp.key)
      /\ Precedes(uv.key, cp.key) /\ Precedes(cp.key, pt.key) /\ Precedes(pt.key, pv.key)
  <2>1. /\ Rank("uv") < Rank("credMgmt") /\ Rank("credMgmt") < Rank("bioEnroll")
        /\ Rank("bioEnroll") < Rank("clientPin") /\ Rank("uv") < Rank("clientPin")
        /\ Rank("clientPin") < Rank("pinUvAuthToken")
        /\ Rank("pinUvAuthToken") < Rank("credentialMgmtPreview")
    BY Ranks
  <2>2. Precedes(uv.key, cm.key) /\ Precedes(cm.key, be.key) BY <2>1, OptionPrecedes
  <2>3. Precedes(be.key, cp.key) /\ Precedes(uv.key, cp.key) BY <2>1, OptionPrecedes
  <2>4. Precedes(cp.key, pt.key) /\ Precedes(pt.key, pv.key) BY <2>1, OptionPrecedes
  <2>5. QED BY <2>2, <2>3, <2>4
<1> HIDE DEF uv, cm, be, cp, pt, pv
<1>4. Chain(<<uv>>, uv, uv) /\ In(<<uv>>) = {uv} /\ Chain(<<pv>>, pv, pv) /\ In(<<pv>>) = {pv}
  BY OneChain
<1>5. /\ Chain(<<cm, be>>, cm, be) /\ In(<<cm, be>>) = {cm, be}
      /\ Chain(<<cp, pt>>, cp, pt) /\ In(<<cp, pt>>) = {cp, pt}
  BY <1>3, TwoChain
<1>6. CASE t.final
  <2> DEFINE s == <<uv>> \o <<cm, be>>
             u == s \o <<cp, pt>>
  <2>1. Chain(s, uv, be) /\ In(s) = {uv} \cup {cm, be} BY <1>3, <1>4, <1>5, Chains
  <2> HIDE DEF s
  <2>2. Chain(u, uv, pt) /\ In(u) = In(s) \cup In(<<cp, pt>>) BY <1>3, <1>5, <2>1, Chains
  <2> HIDE DEF u
  <2>3. u \o <<>> = u BY <2>2, ConcatEmptySeq DEF Chain
  <2>4. Options(t) = u BY <1>1, <1>6, <2>3 DEF s, u
  <2>5. OptionsOf(t) = {uv} \cup {cm, be} \cup {cp, pt} BY <1>2, <1>6
  <2>6. QED BY <1>4, <1>5, <2>1, <2>2, <2>4, <2>5, ChainIs
<1>7. CASE ~t.final
  <2> DEFINE u == <<uv>> \o <<cp, pt>>
             w == u \o <<pv>>
  <2>1. Chain(u, uv, pt) /\ In(u) = {uv} \cup {cp, pt} BY <1>3, <1>4, <1>5, Chains
  <2> HIDE DEF u
  <2>2. Chain(w, uv, pv) /\ In(w) = In(u) \cup In(<<pv>>) BY <1>3, <1>4, <2>1, Chains
  <2> HIDE DEF w
  <2>3. <<uv>> \o <<>> = <<uv>> BY <1>4, ConcatEmptySeq DEF Chain
  <2>4. Options(t) = w BY <1>1, <1>7, <2>3 DEF u, w
  <2>5. OptionsOf(t) = {uv} \cup {cp, pt} \cup {pv} BY <1>2, <1>7
  <2>6. QED BY <1>4, <1>5, <2>1, <2>2, <2>4, <2>5, ChainIs
<1>8. QED BY <1>6, <1>7

\* The entries of a reply.
EntriesOf(t) ==
  {Entry(1, Array(<<String("U2F_V2"), String("FIDO_2_0")>>)),
   Entry(2, Array(<<String("credProtect"), String("hmac-secret")>>)),
   Entry(3, Bytes(16)), Entry(4, Map(Options(t))), Entry(5, Uint(1200)),
   Entry(6, Array(IF t.perms THEN <<Uint(2), Uint(1)>> ELSE <<Uint(1)>>)),
   IF t.final THEN Entry(10, Array(<<Algorithm>>)) ELSE Entry(48, Bytes(2))}

LEMMA InfoIs == ASSUME NEW t PROVE MapIter(InfoOf(t)) /\ Entries(InfoOf(t)) = EntriesOf(t)
<1> DEFINE a == Entry(1, Array(<<String("U2F_V2"), String("FIDO_2_0")>>))
           b == Entry(2, Array(<<String("credProtect"), String("hmac-secret")>>))
           c == Entry(3, Bytes(16))
           d == Entry(4, Map(Options(t)))
           e == Entry(5, Uint(1200))
           f == Entry(6, Array(IF t.perms THEN <<Uint(2), Uint(1)>> ELSE <<Uint(1)>>))
           g == IF t.final THEN Entry(10, Array(<<Algorithm>>)) ELSE Entry(48, Bytes(2))
           s == <<a, b, c, d, e, f>>
<1>1. InfoOf(t) = Map(s \o (IF t.final THEN <<Entry(10, Array(<<Algorithm>>))>> ELSE <<Entry(48, Bytes(2))>>))
  BY DEF InfoOf, Entry
<1>2. InfoOf(t) = Map(s \o <<g>>) BY <1>1
<1>3. EntriesOf(t) = {a, b, c, d, e, f, g} BY DEF EntriesOf
<1>4. /\ Precedes(a.key, b.key) /\ Precedes(b.key, c.key) /\ Precedes(c.key, d.key)
      /\ Precedes(d.key, e.key) /\ Precedes(e.key, f.key)
  BY EntryPrecedes
<1>5. Precedes(f.key, g.key) BY EntryPrecedes
<1> HIDE DEF a, b, c, d, e, f, g
<1>6. s \in Seq({a, b, c, d, e, f}) /\ Len(s) = 6 /\ DOMAIN s = 1 .. 6 /\ s[1] = a /\ s[2] = b
      /\ s[3] = c /\ s[4] = d /\ s[5] = e /\ s[6] = f
  OBVIOUS
<1> HIDE DEF s
<1>7. \A i \in 1 .. 6 : i \in {1, 2, 3, 4, 5, 6} OBVIOUS
<1>8. In(s) = {a, b, c, d, e, f}
  <2>1. \A i \in {1, 2, 3, 4, 5, 6} : i \in 1 .. 6 OBVIOUS
  <2>2. In(s) = {s[i] : i \in {1, 2, 3, 4, 5, 6}} BY <1>6, <1>7, <2>1 DEF In
  <2>3. QED BY <1>6, <2>2
<1>9. Ordered(s)
  <2>1. 2 - 1 = 1 /\ 3 - 1 = 2 /\ 4 - 1 = 3 /\ 5 - 1 = 4 /\ 6 - 1 = 5 OBVIOUS
  <2>2. QED BY <1>4, <1>6, <1>7, <2>1 DEF Ordered
<1>10. Chain(s, a, f) BY <1>6, <1>8, <1>9 DEF Chain
<1>11. Chain(<<g>>, g, g) /\ In(<<g>>) = {g} BY OneChain
<1> DEFINE v == s \o <<g>>
<1>12. Chain(v, a, g) /\ In(v) = {a, b, c, d, e, f} \cup {g} BY <1>5, <1>8, <1>10, <1>11, Chains
<1> HIDE DEF v
<1>13. QED BY <1>2, <1>3, <1>12, ChainIs DEF v

LEMMA EntryIs ==
  ASSUME NEW n, NEW v
  PROVE  /\ Entry(n, v).key = Uint(n) /\ Entry(n, v).key.type = "uint" /\ Entry(n, v).key.is = n
         /\ Entry(n, v).val = v /\ \A n2 : Uint(n) = Uint(n2) => n = n2
BY ItemIs, PairIs DEF Entry, Uint

LEMMA ArrayEntries ==
  /\ \A a : ArrayIter(Array(<<a>>)) /\ Entries(Array(<<a>>)) = {a}
  /\ \A a, b : ArrayIter(Array(<<a, b>>)) /\ Entries(Array(<<a, b>>)) = {a, b}
<1>1. \A s : Array(s).type = "array" /\ Array(s).is = s BY ItemIs DEF Array
<1>2. \A a : {<<a>>[i] : i \in DOMAIN <<a>>} = {a} OBVIOUS
<1>3. \A a, b : {<<a, b>>[i] : i \in DOMAIN <<a, b>>} = {a, b} OBVIOUS
<1>4. QED BY <1>1, <1>2, <1>3 DEF ArrayIter, Entries

LEMMA AlgorithmDecodes == DecodesAlgorithm(Algorithm)
<1> DEFINE x == Pair(String("alg"), Item("negint", 7))
           y == Pair(String("type"), String("public-key"))
<1>1. Precedes(x.key, y.key)
  BY Ranks, ItemIs, PairIs DEF Precedes, String
<1>2. AlgorithmEntry(x)
  <2>1. x.key.is = "alg" /\ x.val.type = "negint" BY ItemIs, PairIs DEF String
  <2>2. QED BY <2>1 DEF AlgorithmEntry
<1>3. AlgorithmEntry(y)
  <2>1. y.key.is = "type" /\ IsString(y.val) BY ItemIs, PairIs DEF String, IsString
  <2>2. QED BY <2>1 DEF AlgorithmEntry
<1>4. Algorithm = Map(<<x, y>>) BY DEF Algorithm
<1> HIDE DEF x, y
<1>5. MapIter(Algorithm) /\ Entries(Algorithm) = {x, y} BY <1>1, <1>4, TwoChain, ChainIs
<1>6. QED BY <1>2, <1>3, <1>5 DEF DecodesAlgorithm

LEMMA ElementsDecode == ASSUME NEW t, NEW p \in EntriesOf(t) PROVE ParseReplyElement(p)
<1>1. \A n, m : Entry(n, m).key.is = n /\ Entry(n, m).val = m BY EntryIs
<1>2. ASSUME NEW s, p = Entry(s, p.val), s \in {1, 2}, \E a, b : p.val = Array(<<String(a), String(b)>>)
      PROVE  ParseReplyElement(p)
  <2>1. \A a : IsString(String(a)) BY ItemIs DEF IsString, String
  <2>2. DecodesStrings(p.val) BY <1>2, <2>1, ArrayEntries DEF DecodesStrings
  <2>3. p.key.is \in {1, 2, 9} BY <1>1, <1>2
  <2>4. QED BY <2>2, <2>3 DEF ParseReplyElement
<1>3. CASE p = Entry(3, Bytes(16))
  <2>1. p.key.is = 3 /\ p.val = Bytes(16) BY <1>1, <1>3
  <2>2. QED BY <2>1 DEF ParseReplyElement
<1>4. CASE p = Entry(4, Map(Options(t)))
  <2>1. p.key.is = 4 /\ p.val = Map(Options(t)) BY <1>1, <1>4
  <2>2. DecodesOptions(p.val) BY <2>1, OptionsAre DEF DecodesOptions
  <2>3. QED BY <2>1, <2>2 DEF ParseReplyElement
<1>5. CASE p = Entry(5, Uint(1200))
  <2>1. p.key.is = 5 /\ p.val = Uint(1200) BY <1>1, <1>5
  <2>2. IsUint(p.val) BY <2>1, ItemIs DEF IsUint, Uint
  <2>3. QED BY <2>1, <2>2 DEF ParseReplyElement
<1>6. CASE p = Entry(6, Array(IF t.perms THEN <<Uint(2), Uint(1)>> ELSE <<Uint(1)>>))
  <2>1. p.key.is = 6 /\ p.val = Array(IF t.perms THEN <<Uint(2), Uint(1)>> ELSE <<Uint(1)>>) BY <1>1, <1>6
  <2>2. \A n : IsUint(Uint(n)) BY ItemIs DEF IsUint, Uint
  <2>3. DecodesProtocols(p.val) BY <2>1, <2>2, ArrayEntries DEF DecodesProtocols
  <2>4. QED BY <2>1, <2>3 DEF ParseReplyElement
<1>7. CASE p = Entry(10, Array(<<Algorithm>>))
  <2>1. p.key.is = 10 /\ p.val = Array(<<Algorithm>>) BY <1>1, <1>7
  <2>2. DecodesAlgorithms(p.val) BY <2>1, ArrayEntries, AlgorithmDecodes DEF DecodesAlgorithms
  <2>3. QED BY <2>1, <2>2 DEF ParseReplyElement
<1>8. CASE p = Entry(48, Bytes(2))
  <2>1. p.key.is = 48 BY <1>1, <1>8
  <2>2. 48 \notin 13 .. 18 OBVIOUS
  <2>3. QED BY <2>1, <2>2 DEF ParseReplyElement
<1>9. CASE p = Entry(1, Array(<<String("U2F_V2"), String("FIDO_2_0")>>))
  <2>1. p.val = Array(<<String("U2F_V2"), String("FIDO_2_0")>>) BY <1>1, <1>9
  <2>2. QED BY <1>2, <1>9, <2>1
<1>10. CASE p = Entry(2, Array(<<String("credProtect"), String("hmac-secret")>>))
  <2>1. p.val = Array(<<String("credProtect"), String("hmac-secret")>>) BY <1>1, <1>10
  <2>2. QED BY <1>2, <1>10, <2>1
<1>11. QED BY <1>3, <1>4, <1>5, <1>6, <1>7, <1>8, <1>9, <1>10 DEF EntriesOf

LEMMA InfoDecoded ==
  ASSUME NEW t
  PROVE  /\ InfoDecodes(Info(t))
         /\ Contents(Info(t), 4) = OptionsOf(t)
         /\ Uint(1) \in Contents(Info(t), 6)
<1>1. Info(t).status = "ok" /\ Info(t).item = InfoOf(t) BY DEF Info
<1>2. InfoDecodes(Info(t)) BY <1>1, InfoIs, ElementsDecode DEF InfoDecodes, ParseReply
<1> DEFINE A == Array(IF t.perms THEN <<Uint(2), Uint(1)>> ELSE <<Uint(1)>>)
           P(n) == {q \in EntriesOf(t) : q.key = Uint(n)}
<1>3. P(4) = {Entry(4, Map(Options(t)))}
  BY EntryIs DEF EntriesOf
<1>4. Entry(6, A) \in P(6) BY EntryIs DEF EntriesOf
<1>5. \A n : Contents(Info(t), n) = UNION {Entries(p.val) : p \in P(n)} BY <1>1, InfoIs DEF Contents
<1>6. Entries(Entry(4, Map(Options(t))).val) = OptionsOf(t) BY EntryIs, OptionsAre
<1>7. Uint(1) \in Entries(Entry(6, A).val) BY EntryIs, ArrayEntries
<1> HIDE DEF P, A
<1>8. Contents(Info(t), 4) = OptionsOf(t)
  <2> DEFINE e == Entry(4, Map(Options(t)))
  <2> HIDE DEF e
  <2>1. UNION {Entries(p.val) : p \in {e}} = Entries(e.val) OBVIOUS
  <2>2. QED BY <1>3, <1>5, <1>6, <2>1 DEF e
<1>9. Uint(1) \in Contents(Info(t), 6) BY <1>4, <1>5, <1>7
<1>10. QED BY <1>2, <1>8, <1>9

LEMMA OptionEquals ==
  ASSUME NEW s, NEW b, NEW s2, NEW b2, Option(s, b) = Option(s2, b2) PROVE s = s2 /\ b = b2
BY ItemIs, PairIs DEF Option, String, Bool

LEMMA OptionSet ==
  ASSUME NEW t
  PROVE  /\ \A b : Option("clientPin", b) \in OptionsOf(t) <=> b = (t.pin # None)
         /\ Option("credMgmt", TRUE) \in OptionsOf(t) <=> t.final
         /\ \A b : Option("bioEnroll", b) \in OptionsOf(t) <=> t.final /\ b = (t.templates # {})
<1>1. \A b, b2 :
        /\ Option("clientPin", b) # Option("uv", b2)
        /\ Option("clientPin", b) # Option("pinUvAuthToken", b2)
        /\ Option("clientPin", b) # Option("credMgmt", b2)
        /\ Option("clientPin", b) # Option("bioEnroll", b2)
        /\ Option("clientPin", b) # Option("credentialMgmtPreview", b2)
        /\ Option("credMgmt", b) # Option("uv", b2)
        /\ Option("credMgmt", b) # Option("pinUvAuthToken", b2)
        /\ Option("credMgmt", b) # Option("credentialMgmtPreview", b2)
  BY OptionEquals
<1>2. \A b, b2 :
        /\ Option("bioEnroll", b) # Option("uv", b2)
        /\ Option("bioEnroll", b) # Option("pinUvAuthToken", b2)
        /\ Option("bioEnroll", b) # Option("credMgmt", b2)
        /\ Option("bioEnroll", b) # Option("clientPin", b2)
        /\ Option("bioEnroll", b) # Option("credentialMgmtPreview", b2)
  BY OptionEquals
<1>3. \A b, b2 : /\ Option("clientPin", b) = Option("clientPin", b2) => b = b2
                 /\ Option("bioEnroll", b) = Option("bioEnroll", b2) => b = b2
  BY OptionEquals
<1>4. PICK uv, bio, pin :
        /\ uv = (t.templates # {}) /\ bio = (t.templates # {}) /\ pin = (t.pin # None)
        /\ OptionsOf(t) =
             {Option("uv", uv), Option("clientPin", pin), Option("pinUvAuthToken", t.perms)} \cup
             (IF t.final THEN {Option("credMgmt", TRUE), Option("bioEnroll", bio)}
              ELSE {Option("credentialMgmtPreview", TRUE)})
  BY DEF OptionsOf
<1> DEFINE S == OptionsOf(t)
<1> HIDE DEF S
<1>5. S = {Option("uv", uv), Option("clientPin", pin), Option("pinUvAuthToken", t.perms)} \cup
          (IF t.final THEN {Option("credMgmt", TRUE), Option("bioEnroll", bio)}
           ELSE {Option("credentialMgmtPreview", TRUE)})
  BY <1>4 DEF S
<1>6. \A b : Option("clientPin", b) \in S <=> b = pin BY <1>1, <1>3, <1>5
<1>7. Option("credMgmt", TRUE) \in S <=> t.final BY <1>1, <1>2, <1>5
<1>8. \A b : Option("bioEnroll", b) \in S <=> t.final /\ b = bio BY <1>2, <1>3, <1>5
<1>9. QED BY <1>4, <1>6, <1>7, <1>8 DEF S

\* What the library knows of an authenticator right after it has opened it.
LEMMA FlagsAre ==
  ASSUME NEW t
  PROVE  /\ "PIN_SET" \in SetFlags(Info(t)) <=> t.pin # None
         /\ "PIN_UNSET" \in SetFlags(Info(t)) <=> t.pin = None
         /\ "CREDMAN" \in SetFlags(Info(t)) <=> t.final
         /\ SetFlags(Info(t)) \cap {"BIO_SET", "BIO_UNSET"} # {} <=> t.final
<1> DEFINE r == Info(t)
           f == SetFlags(r)
<1>1. \A s, b : OptionIs(r, s, b) <=> Option(s, b) \in OptionsOf(t) BY InfoDecoded DEF OptionIs, Option
<1>2. f = ExtensionFlags(r) \cup OptionFlags(r) \cup ProtocolFlags(r) BY InfoDecoded DEF SetFlags
<1> HIDE DEF r, f
<1>3. /\ "PIN_SET" \in f <=> OptionIs(r, "clientPin", TRUE)
      /\ "PIN_UNSET" \in f <=> OptionIs(r, "clientPin", FALSE)
      /\ "CREDMAN" \in f <=> OptionIs(r, "credMgmt", TRUE)
      /\ "BIO_SET" \in f <=> OptionIs(r, "bioEnroll", TRUE)
      /\ "BIO_UNSET" \in f <=> OptionIs(r, "bioEnroll", FALSE)
  BY <1>2 DEF ExtensionFlags, OptionFlags, ProtocolFlags
<1>4. /\ \A b : Option("clientPin", b) \in OptionsOf(t) <=> b = (t.pin # None)
      /\ Option("credMgmt", TRUE) \in OptionsOf(t) <=> t.final
      /\ \A b : Option("bioEnroll", b) \in OptionsOf(t) <=> t.final /\ b = (t.templates # {})
  BY OptionSet
<1>5. /\ "PIN_SET" \in f <=> TRUE = (t.pin # None)
      /\ "PIN_UNSET" \in f <=> FALSE = (t.pin # None)
      /\ "CREDMAN" \in f <=> t.final
      /\ "BIO_SET" \in f <=> t.final /\ TRUE = (t.templates # {})
      /\ "BIO_UNSET" \in f <=> t.final /\ FALSE = (t.templates # {})
  BY <1>1, <1>3, <1>4
<1>6. f \cap {"BIO_SET", "BIO_UNSET"} # {} <=> "BIO_SET" \in f \/ "BIO_UNSET" \in f OBVIOUS
<1>7. QED BY <1>5, <1>6 DEF f, r

\* A reply that is of no use leaves no PIN protocol to speak.
LEMMA BadFlagsAre == ASSUME NEW f \in BadFlags PROVE PinProtocol(f) = 0
<1>1. PICK r \in BadInfo : f = SetFlags(r) BY DEF BadFlags
<1>2. ~InfoDecodes(r)
  <2>1. CASE r = [status |-> "error", item |-> Map(<<>>)] BY <2>1 DEF InfoDecodes, ParseReply
  <2>2. CASE r = [status |-> "ok", item |-> Item("none", 0)]
    BY <2>2, ItemIs DEF InfoDecodes, ParseReply, MapIter
  <2>3. CASE r = [status |-> "ok",
                  item |-> Map(<<Pair(Uint(6), Array(<<Uint(1)>>)), Pair(Uint(4), Map(<<>>))>>)]
    <3> DEFINE x == Pair(Uint(6), Array(<<Uint(1)>>))
               y == Pair(Uint(4), Map(<<>>))
    <3>1. ~Precedes(x.key, y.key) BY ItemIs, PairIs DEF Precedes, Uint
    <3> HIDE DEF x, y
    <3>2. Map(<<x, y>>).is = <<x, y>> BY ItemIs DEF Map
    <3>3. 2 \in DOMAIN <<x, y>> /\ <<x, y>>[2 - 1] = x /\ <<x, y>>[2] = y OBVIOUS
    <3>4. ~MapIter(Map(<<x, y>>)) BY <3>1, <3>2, <3>3 DEF MapIter
    <3>5. r.item = Map(<<x, y>>) BY <2>3 DEF x, y
    <3>6. QED BY <3>4, <3>5 DEF InfoDecodes, ParseReply
  <2>4. CASE r = [status |-> "ok", item |-> Map(<<Pair(Uint(6), Map(<<>>))>>)]
    <3> DEFINE x == Pair(Uint(6), Map(<<>>))
    <3>1. x.key.type = "uint" /\ x.key.is = 6 /\ x.val.type = "map" BY ItemIs, PairIs DEF Uint, Map
    <3> HIDE DEF x
    <3>2. ~ParseReplyElement(x) BY <3>1 DEF ParseReplyElement, DecodesProtocols, ArrayIter
    <3>3. x \in Entries(r.item)
      <4>1. Map(<<x>>).is = <<x>> BY ItemIs DEF Map
      <4>2. 1 \in DOMAIN <<x>> /\ <<x>>[1] = x OBVIOUS
      <4>3. r.item = Map(<<x>>) BY <2>4 DEF x
      <4>4. QED BY <4>1, <4>2, <4>3 DEF Entries
    <3>4. QED BY <3>2, <3>3 DEF InfoDecodes
  <2>5. CASE r = [status |-> "ok",
                  item |-> Map(<<Pair(Uint(10), Array(<<Map(<<Pair(String("type"), Uint(0))>>)>>))>>)]
    <3> DEFINE z == Pair(String("type"), Uint(0))
               y == Map(<<z>>)
               x == Pair(Uint(10), Array(<<y>>))
    <3>1. ~AlgorithmEntry(z) BY ItemIs, PairIs DEF AlgorithmEntry, String, Uint, IsString
    <3>2. r.item = Map(<<x>>) BY <2>5
    <3> HIDE DEF z
    <3>3. z \in Entries(y)
      <4>1. y.is = <<z>> BY ItemIs DEF Map
      <4>2. 1 \in DOMAIN <<z>> /\ <<z>>[1] = z OBVIOUS
      <4> HIDE DEF y
      <4>3. QED BY <4>1, <4>2 DEF Entries
    <3>4. ~DecodesAlgorithm(y) BY <3>1, <3>3 DEF DecodesAlgorithm
    <3>5. x.key.type = "uint" /\ x.key.is = 10 /\ x.val = Array(<<y>>) BY ItemIs, PairIs DEF Uint
    <3> HIDE DEF y, x
    <3>6. ~DecodesAlgorithms(x.val) BY <3>4, <3>5, ArrayEntries DEF DecodesAlgorithms
    <3>7. ~ParseReplyElement(x) BY <3>5, <3>6 DEF ParseReplyElement
    <3>8. x \in Entries(r.item)
      <4>1. Map(<<x>>).is = <<x>> BY ItemIs DEF Map
      <4>2. 1 \in DOMAIN <<x>> /\ <<x>>[1] = x OBVIOUS
      <4>3. QED BY <3>2, <4>1, <4>2 DEF Entries
    <3>9. QED BY <3>7, <3>8 DEF InfoDecodes
  <2>6. QED BY <1>1, <2>1, <2>2, <2>3, <2>4, <2>5 DEF BadInfo
<1>3. f = {"FALLBACK"} BY <1>1, <1>2 DEF SetFlags
<1>4. QED BY <1>3 DEF PinProtocol

-----------------------------------------------------------------------------
(* Calls and the authenticator as they always are.                         *)

CallFields == {"api", "cmd", "arg", "rp", "pin", "new", "uv", "stage", "auth", "tried", "crossed"}

BioApis == {"template_array", "set_name", "enroll_begin", "enroll_continue", "enroll_cancel",
            "enroll_remove", "bio_info"}

\* A call of one of the functions, in any stage.
WellAsked(k) ==
  /\ DOMAIN k = CallFields
  /\ \/ k.api \in {"metadata", "rp"} /\ k.cmd = "CRED_MGMT" /\ k.rp = None
     \/ k.api = "rk" /\ k.cmd = "CRED_MGMT" /\ k.rp = k.arg /\ k.arg \in Rps
     \/ k.api \in {"del_rk", "set_rk"} /\ k.cmd = "CRED_MGMT" /\ k.rp = None
     \/ k.api \in BioApis /\ k.cmd = "BIO_ENROLL" /\ k.rp = None
     \/ k.api \in {"set_pin", "change_pin"} /\ k.cmd = "CLIENT_PIN" /\ k.new \in Pins
     \/ k.api = "retries" /\ k.cmd = "CLIENT_PIN"
     \/ k.api = "config" /\ k.cmd = "CONFIG" /\ k.rp = None
     \/ k.api = "make_cred" /\ k.cmd = "MAKECRED" /\ k.arg \in Ids /\ k.rp = RpOf[k.arg]
     \/ k.api = "assert" /\ k.cmd = "ASSERT" /\ k.rp = k.arg /\ k.arg \in Rps
     \/ k.api = "reset" /\ k.cmd = "RESET"

\* What a call is about does not change.
About(k, k2) ==
  /\ DOMAIN k2 = CallFields /\ k2.api = k.api /\ k2.cmd = k.cmd /\ k2.arg = k.arg
  /\ k2.rp = k.rp /\ k2.pin = k.pin /\ k2.new = k.new

LEMMA AboutAsked == ASSUME NEW k, WellAsked(k), NEW k2, About(k, k2) PROVE WellAsked(k2)
BY DEF About, WellAsked

LEMMA AboutFields ==
  ASSUME NEW k, DOMAIN k = CallFields, NEW s, NEW a, NEW b
  PROVE  /\ About(k, [k EXCEPT !.stage = s]) /\ About(k, [k EXCEPT !.tried = b])
         /\ About(k, [k EXCEPT !.crossed = b]) /\ About(k, [k EXCEPT !.stage = s, !.auth = a])
BY DEF About, CallFields

LEMMA PinFields ==
  ASSUME NEW k, WellAsked(k), NEW p, NEW u
  PROVE  WellAsked([k EXCEPT !.pin = p]) /\ WellAsked([k EXCEPT !.uv = u])
<1> DEFINE x == [k EXCEPT !.pin = p]
           y == [k EXCEPT !.uv = u]
<1>1. /\ DOMAIN x = CallFields /\ x.api = k.api /\ x.cmd = k.cmd /\ x.arg = k.arg /\ x.rp = k.rp /\ x.new = k.new
      /\ DOMAIN y = CallFields /\ y.api = k.api /\ y.cmd = k.cmd /\ y.arg = k.arg /\ y.rp = k.rp /\ y.new = k.new
  BY DEF WellAsked, CallFields
<1> HIDE DEF x, y
<1>2. WellAsked(x) /\ WellAsked(y) BY <1>1 DEF WellAsked
<1>3. QED BY <1>2 DEF x, y

\* The functions as an application calls them.
LEMMA AskedIsWell ==
  ASSUME NEW x, NEW k \in Asked \cup {EnrollContinue(x)}
  PROVE  WellAsked(k) /\ (k.api = "enroll_continue" => k.pin = None /\ k.arg = x)
<1> DEFINE OK(a) == WellAsked(a) /\ a.api # "enroll_continue"
<1>1. \A api, cmd, arg, rp :
        LET a == Api(api, cmd, arg, rp) IN
        /\ DOMAIN a = CallFields /\ a.api = api /\ a.cmd = cmd /\ a.arg = arg /\ a.rp = rp /\ a.pin = None
  BY DEF Api, CallFields
<1>2. /\ OK(GetMetadata) /\ OK(GetRp) /\ OK(TemplateArray) /\ OK(EnrollBegin) /\ OK(Config)
      /\ \A r \in Rps : OK(GetRk(r))
      /\ \A id \in Ids : OK(DelRk(id)) /\ OK(SetRk(id))
      /\ \A y \in Templates : OK(SetTemplateName(y)) /\ OK(EnrollRemove(y))
  BY <1>1 DEF WellAsked, BioApis, GetMetadata, GetRp, TemplateArray, EnrollBegin, Config, GetRk,
              DelRk, SetRk, SetTemplateName, EnrollRemove
<1>3. /\ \A id \in Ids : OK(MakeCred(id))
      /\ \A r \in Rps : OK(GetAssert(r))
  BY <1>1 DEF WellAsked, BioApis, MakeCred, GetAssert
<1>4. /\ OK(EnrollCancel) /\ OK(BioInfo) /\ OK(RetryCount) /\ OK(DevReset)
  BY <1>1 DEF WellAsked, BioApis, EnrollCancel, BioInfo, RetryCount, DevReset
<1>5. \A p \in Pins : OK(SetPin0(p)) /\ OK(ChangePin0(p))
  <2> SUFFICES ASSUME NEW p \in Pins PROVE OK(SetPin0(p)) /\ OK(ChangePin0(p))
    OBVIOUS
  <2> DEFINE s == [Api("set_pin", "CLIENT_PIN", None, None) EXCEPT !.new = p]
             q == [Api("change_pin", "CLIENT_PIN", None, None) EXCEPT !.new = p]
  <2>1. /\ DOMAIN s = CallFields /\ s.api = "set_pin" /\ s.cmd = "CLIENT_PIN" /\ s.new = p
        /\ DOMAIN q = CallFields /\ q.api = "change_pin" /\ q.cmd = "CLIENT_PIN" /\ q.new = p
    BY <1>1 DEF CallFields
  <2> HIDE DEF s, q
  <2>2. OK(s) /\ OK(q) BY <2>1 DEF WellAsked
  <2>3. QED BY <2>2 DEF s, q, SetPin0, ChangePin0
<1>6. WellAsked(EnrollContinue(x)) /\ EnrollContinue(x).pin = None /\ EnrollContinue(x).arg = x
  BY <1>1 DEF WellAsked, BioApis, EnrollContinue
<1>7. \A a, p : OK(a) => OK([a EXCEPT !.pin = p])
  <2> SUFFICES ASSUME NEW a, NEW p, OK(a) PROVE OK([a EXCEPT !.pin = p])
    OBVIOUS
  <2>1. WellAsked([a EXCEPT !.pin = p]) BY PinFields
  <2>2. [a EXCEPT !.pin = p].api = a.api BY DEF WellAsked, CallFields
  <2>3. QED BY <2>1, <2>2
<1>8. \A a, u : OK(a) => OK([a EXCEPT !.uv = u])
  <2> SUFFICES ASSUME NEW a, NEW u, OK(a) PROVE OK([a EXCEPT !.uv = u])
    OBVIOUS
  <2>1. WellAsked([a EXCEPT !.uv = u]) BY PinFields
  <2>2. [a EXCEPT !.uv = u].api = a.api BY DEF WellAsked, CallFields
  <2>3. QED BY <2>1, <2>2
<1> HIDE DEF OK
<1>9. \A a \in WithPin : OK(a) BY <1>2 DEF WithPin
<1>10. \A a \in WithUv : OK(a)
  <2> DEFINE U == {MakeCred(id) : id \in Ids} \cup {GetAssert(rp) : rp \in Rps}
  <2>1. \A a \in U : OK(a) BY <1>3
  <2>2. WithUv = {[b EXCEPT !.uv = u] : b \in U, u \in BOOLEAN} BY DEF WithUv
  <2> HIDE DEF U
  <2>3. \A a \in WithUv : \E b \in U, u \in BOOLEAN : a = [b EXCEPT !.uv = u] BY <2>2
  <2>4. QED BY <1>8, <2>1, <2>3
<1>11. \A a \in WithoutPin : OK(a) BY <1>4, <1>5 DEF WithoutPin
<1>12. \A a \in {[b EXCEPT !.pin = p] : b \in WithPin \cup WithUv, p \in Pins \cup {None}} : OK(a)
  BY <1>7, <1>9, <1>10
<1>13. \A a \in {[ChangePin0(p) EXCEPT !.pin = old] : p \in Pins, old \in Pins} : OK(a) BY <1>5, <1>7
<1>14. \A a \in Asked : OK(a) BY <1>11, <1>12, <1>13 DEF Asked
<1>15. QED BY <1>6, <1>14 DEF OK

TokenCmds == {"CRED_MGMT", "BIO_ENROLL", "CONFIG", "MAKECRED", "ASSERT"}

TokOK(t) ==
  /\ DOMAIN t = Fields /\ t.final \in BOOLEAN /\ t.creds \subseteq Ids /\ t.auth \subseteq AuthToken
  /\ t.cursor # None => DOMAIN t.cursor = {"api", "rest"}
  /\ t.enroll # None => DOMAIN t.enroll = {"tmpl", "left"}

LEMMA SameOK ==
  ASSUME NEW t, TokOK(t), NEW u, NEW F, Same(t, u, F), F \cap {"final", "creds", "enroll"} = {},
         u.cursor \in {None, t.cursor}, u.auth \subseteq AuthToken
  PROVE  TokOK(u)
BY DEF Same, TokOK, Fields

LEMMA DiscardOK == ASSUME NEW t, TokOK(t) PROVE TokOK(Discard(t))
<1>1. Same(t, Discard(t), {"cursor"}) /\ Discard(t).cursor = None BY DiscardIs DEF TokOK
<1>2. Discard(t).auth \subseteq AuthToken BY <1>1 DEF Same, TokOK, Fields
<1>3. QED BY <1>1, <1>2, SameOK

\* The PIN/UV token that a call asks for.
LEMMA GrantedOK ==
  ASSUME NEW t, NEW c \in Clients, NEW k, WellAsked(k), k.cmd \in TokenCmds
  PROVE  /\ Granted(t, WantedToken(c, k)) \in AuthToken
         /\ Granted(t, WantedToken(c, k)).perm \in {"any", UvPermission(k.cmd)}
         /\ Granted(t, WantedToken(c, k)).perm # "any" => Granted(t, WantedToken(c, k)).rp = k.rp
         /\ Granted(t, WantedToken(c, k)).perm = "any" => Granted(t, WantedToken(c, k)).rp = None
<1> DEFINE w == WantedToken(c, k)
           a == [w EXCEPT !.perm = "any", !.rp = None]
<1>1. UvPermission(k.cmd) \in Permission BY DEF TokenCmds, UvPermission, Permission
<1>2. k.rp \in Rps \cup {None} BY DEF WellAsked, TokenCmds, Rps
<1>3. /\ w.of = c /\ w.use \in {"call", "enroll"} /\ w.perm = UvPermission(k.cmd) /\ w.rp = k.rp
      /\ DOMAIN w = {"of", "use", "perm", "rp"} /\ w \in AuthToken
  BY <1>1, <1>2 DEF WantedToken, AuthToken
<1> HIDE DEF w
<1>4. a \in AuthToken /\ a.perm = "any" /\ a.rp = None BY <1>3 DEF AuthToken
<1>5. w.perm # "any" BY <1>1, <1>3 DEF Permission
<1>6. Granted(t, w) = IF t.perms THEN w ELSE a BY DEF Granted
<1> HIDE DEF a
<1>7. QED BY <1>3, <1>4, <1>5, <1>6 DEF w

LEMMA KeyAgreementOK ==
  ASSUME NEW t, TokOK(t), NEW c, NEW a \in KeyAgreement(t, c)
  PROVE  TokOK(a.tok) /\ Same(t, a.tok, TokenFields) /\ a.tok.cursor = None /\ a.tok.auth = t.auth
<1>1. Same(t, a.tok, {"cursor", "fresh"}) /\ a.tok.cursor = None BY KeyAgreementIs DEF TokOK
<1>2. a.tok.auth = t.auth /\ Same(t, a.tok, TokenFields) BY <1>1 DEF Same, Fields, TokenFields
<1>3. a.tok.auth \subseteq AuthToken BY <1>2 DEF TokOK
<1>4. QED BY <1>1, <1>2, <1>3, SameOK

LEMMA TokenAnswersOK ==
  ASSUME NEW t, TokOK(t), NEW c \in Clients, NEW k, WellAsked(k), k.cmd \in TokenCmds,
         NEW a \in TokenAnswers(t, c, k)
  PROVE  /\ TokOK(a.tok) /\ Same(t, a.tok, TokenFields) /\ a.tok.cursor = None
         /\ a.tok.auth \subseteq t.auth \cup {Granted(t, WantedToken(c, k))}
<1>1. /\ Same(t, a.tok, TokenFields) /\ a.tok.cursor = None
      /\ a.tok.auth \subseteq t.auth \cup {Granted(t, WantedToken(c, k))}
  BY TokenAnswersAre DEF TokOK
<1>2. a.tok.auth \subseteq AuthToken BY <1>1, GrantedOK DEF TokOK
<1>3. TokenFields \cap {"final", "creds", "enroll"} = {} BY DEF TokenFields
<1>4. QED BY <1>1, <1>2, <1>3, SameOK

\* What every command does.
Served(t, u) ==
  /\ TokOK(u) /\ u.perms = t.perms /\ u.final = t.final /\ u.auth \subseteq t.auth

LEMMA ServedSame ==
  ASSUME NEW t, TokOK(t), NEW u, NEW F, Same(t, u, F), F \cap {"final", "perms", "auth"} = {},
         u.creds \subseteq Ids, u.cursor # None => DOMAIN u.cursor = {"api", "rest"},
         u.enroll # None => DOMAIN u.enroll = {"tmpl", "left"}
  PROVE  Served(t, u)
BY DEF Served, Same, TokOK, Fields

LEMMA EnrollCommandIs ==
  ASSUME NEW t, TokOK(t), NEW c, NEW k, NEW a \in CommandAnswers(t, c, k),
         k.api \in {"enroll_begin", "enroll_continue"}
  PROVE  \/ a.tok = Discard(t) /\ ~a.reply.ok
         \/ k.api = "enroll_begin" /\ a \in BeginEnroll(Discard(t))
         \/ k.api = "enroll_continue" /\ a \in ContinueEnroll(Discard(t), k.arg)
<1>1. a \in Refuses(t) \/ a \in Effect(t, c, k) BY DEF CommandAnswers
<1>2. QED BY <1>1, RefusesIs DEF Effect

LEMMA CommandServed ==
  ASSUME NEW t, TokOK(t), NEW c, NEW k, WellAsked(k), NEW a \in CommandAnswers(t, c, k)
  PROVE  Served(t, a.tok)
<1> DEFINE d == Discard(t)
<1>0. DOMAIN t = Fields /\ t.creds \subseteq Ids BY DEF TokOK
<1>1. TokOK(d) /\ Served(t, d)
  <2>1. TokOK(d) BY DiscardOK
  <2>2. Same(t, d, {"cursor"}) BY <1>0, DiscardIs
  <2>3. QED BY <2>1, <2>2 DEF Served, Same, Fields
<1>2. CASE k.api \notin {"rk", "rp", "assert", "enroll_begin", "enroll_continue",
                         "set_pin", "change_pin", "reset"}
  <2>1. /\ Same(t, a.tok, {"cursor", "creds", "enroll", "templates"}) /\ a.tok.cursor = None
        /\ Drops(t, a.tok) /\ a.tok.creds \subseteq t.creds \cup {k.arg}
        /\ k.api # "make_cred" => a.tok.creds \subseteq t.creds
    BY <1>0, <1>2, PlainCommandIs
  <2>2. k.api = "make_cred" => k.arg \in Ids BY DEF WellAsked, BioApis
  <2>3. a.tok.creds \subseteq Ids BY <1>0, <2>1, <2>2
  <2>4. a.tok.enroll # None => DOMAIN a.tok.enroll = {"tmpl", "left"} BY <2>1 DEF Drops, TokOK
  <2>5. QED BY <2>1, <2>3, <2>4, ServedSame
<1>3. CASE k.api \in {"set_pin", "change_pin", "reset"}
  <2>1. /\ DOMAIN a.tok = Fields /\ a.tok.perms = t.perms /\ a.tok.final = t.final
        /\ a.tok.auth \subseteq t.auth /\ Ended(t, a.tok) /\ Drops(t, a.tok)
    BY <1>0, <1>3, PinCommandIs
  <2>2. QED BY <1>0, <2>1 DEF Served, TokOK, Ended, Drops
<1>4. CASE k.api \in {"rk", "rp", "assert"}
  <2>1. CASE a.tok = d BY <1>1, <2>1
  <2>2. CASE \E x \in Stored(t, k) :
              /\ Same(t, a.tok, {"cursor"})
              /\ a.tok.cursor = (IF Stored(t, k) \ {x} = {} THEN None
                                 ELSE [api |-> k.api, rest |-> Stored(t, k) \ {x}])
    <3>1. Same(t, a.tok, {"cursor"}) /\ (a.tok.cursor # None => DOMAIN a.tok.cursor = {"api", "rest"})
      BY <2>2
    <3>2. a.tok.creds \subseteq Ids /\ (a.tok.enroll # None => DOMAIN a.tok.enroll = {"tmpl", "left"})
      BY <3>1 DEF Same, TokOK, Fields
    <3>3. QED BY <3>1, <3>2, ServedSame
  <2>3. QED BY <1>0, <1>4, <2>1, <2>2, ListCommandIs
<1>5. CASE k.api \in {"enroll_begin", "enroll_continue"}
  <2> HIDE DEF d
  <2>0. Same(t, d, {"cursor"}) /\ d.cursor = None BY <1>0, DiscardIs DEF d
  <2>5. DOMAIN d = Fields BY <1>1 DEF TokOK
  <2>1. CASE a.tok = d BY <1>1, <2>1
  <2>2. CASE a \in BeginEnroll(d)
    <3>1. PICK x \in Templates \ d.used :
            /\ Same(d, a.tok, {"enroll", "used"})
            /\ a.tok.enroll = [tmpl |-> x, left |-> Samples] /\ a.tok.used = d.used \cup {x}
            /\ a.reply.ok /\ a.reply.tmpl = x /\ a.reply.left = Samples
      BY <2>5, <2>2, BeginEnrollIs
    <3>2. DOMAIN a.tok.enroll = {"tmpl", "left"} BY <3>1
    <3>3. Same(t, a.tok, {"cursor", "enroll", "used"}) /\ a.tok.cursor = None /\ a.tok.creds = t.creds
      BY <2>0, <3>1 DEF Same, Fields
    <3>4. QED BY <1>0, <3>2, <3>3, ServedSame
  <2>3. CASE a \in ContinueEnroll(d, k.arg)
    <3>1. \/ a.tok = Discard(d)
          \/ a.tok = d
          \/ Same(d, a.tok, {"enroll", "templates"}) /\ a.tok.enroll = None
          \/ Same(d, a.tok, {"enroll"}) /\ DOMAIN a.tok.enroll = {"tmpl", "left"}
      BY <1>1, <2>3, ContinueEnrollIs DEF TokOK
    <3>2. Discard(d) = d BY DEF d, Discard
    <3>3. CASE Same(d, a.tok, {"enroll", "templates"})
               /\ (a.tok.enroll # None => DOMAIN a.tok.enroll = {"tmpl", "left"})
      <4>1. Same(t, a.tok, {"cursor", "enroll", "templates"}) /\ a.tok.cursor = None /\ a.tok.creds = t.creds
        BY <2>0, <3>3 DEF Same, Fields
      <4>2. QED BY <1>0, <3>3, <4>1, ServedSame
    <3>4. Same(d, a.tok, {"enroll"}) => Same(d, a.tok, {"enroll", "templates"}) BY DEF Same
    <3>5. QED BY <1>1, <3>1, <3>2, <3>3, <3>4
  <2>4. QED BY <1>5, <2>1, <2>2, <2>3, EnrollCommandIs DEF d
<1>6. QED BY <1>2, <1>3, <1>4, <1>5

LEMMA NextServed ==
  ASSUME NEW t, TokOK(t), NEW api, NEW a \in Continue(t, api)
  PROVE  Served(t, a.tok) /\ Drops(t, a.tok) /\ a.tok.creds = t.creds /\ a.tok.pin = t.pin
         /\ a.tok.templates = t.templates
<1>1. Same(t, a.tok, {"cursor"}) /\ (a.tok.cursor # None => DOMAIN a.tok.cursor = {"api", "rest"})
  <2>1. DOMAIN t = Fields /\ (t.cursor # None => DOMAIN t.cursor = {"api", "rest"}) BY DEF TokOK
  <2>2. Same(t, Discard(t), {"cursor"}) /\ Discard(t).cursor = None BY <2>1, DiscardIs
  <2>3. QED BY <2>1, <2>2, ContinueIs
<1>2. QED BY <1>1 DEF Served, Same, Fields, Drops, TokOK

\* The other calls, and the variables that are functions of the client.
BaseInv ==
  /\ TokOK(tok)
  /\ DOMAIN call = Clients /\ DOMAIN flags = Clients /\ DOMAIN known = Clients
  /\ DOMAIN enr = Clients /\ DOMAIN heard = Clients /\ DOMAIN list = Clients /\ DOMAIN mixed = Clients
  /\ DOMAIN ret = Clients /\ \A c \in Clients : DOMAIN enr[c] = {"token", "tmpl", "remaining"}
  /\ \A c \in Clients : call[c] # None =>
       WellAsked(call[c]) /\ (call[c].stage = "token" => call[c].cmd \in TokenCmds)

\* Call k2 of another client than the one whose step it is.
Other(k, k2) ==
  \/ k2 = k
  \/ k # None /\ About(k, k2) /\ k2.stage = k.stage /\ k2.auth = k.auth

LEMMA CallOfIs ==
  ASSUME BaseInv, NEW c \in Clients, NEW k, NEW t, call' = CallOf(c, k, t)
  PROVE  /\ DOMAIN call' = Clients /\ call'[c] = k
         /\ \A d \in Clients \ {c} : Other(call[d], call'[d])
<1>1. DOMAIN call' = Clients /\ call'[c] = k BY DEF CallOf
<1>2. ASSUME NEW d \in Clients \ {c} PROVE Other(call[d], call'[d])
  <2>1. CASE d \in Crossed(c, t)
    <3>1. call[d] # None BY <2>1 DEF Crossed, Stage
    <3>2. DOMAIN call[d] = CallFields BY <3>1 DEF BaseInv, WellAsked
    <3>3. call'[d] = [call[d] EXCEPT !.crossed = TRUE] BY <2>1 DEF CallOf
    <3>4. QED BY <3>1, <3>2, <3>3 DEF Other, About, CallFields
  <2>2. CASE d \notin Crossed(c, t) BY <2>2 DEF CallOf, Other
  <2>3. QED BY <2>1, <2>2
<1>3. QED BY <1>1, <1>2

\* An exchange of client c, which goes on with call k or returns: the authenticator
\* becomes t.
Takes(c, k, t, heed) ==
  /\ call[c] # None /\ (k = None \/ About(call[c], k)) /\ TokOK(t)
  /\ call' = CallOf(c, k, t) /\ Becomes(c, t, heed)

LEMMA BecomesIs ==
  ASSUME NEW c \in Clients, NEW t, TokOK(t), NEW heed, Becomes(c, t, heed)
  PROVE  /\ Same(t, tok', {"fresh", "auth"}) /\ tok'.auth \subseteq t.auth /\ TokOK(tok')
         /\ call'[c] # None => tok' = t
         /\ finished' = finished \cup t.templates
         /\ DOMAIN known' = Clients /\ (\A d \in Clients : known'[d] =>
              known[d] /\ (d # c => (t.pin = None <=> tok.pin = None)))
         /\ heed = FALSE /\ known'[c] => (t.pin = None <=> tok.pin = None)
<1>1. Same(t, Forgotten(c, t), {"fresh", "auth"}) /\ Forgotten(c, t).auth \subseteq t.auth
  BY DEF Forgotten, Same, TokOK, Fields
<1>2. Same(t, t, {"fresh", "auth"}) /\ t.auth \subseteq t.auth BY DEF Same, TokOK
<1>3. tok' = t \/ tok' = Forgotten(c, t) BY DEF Becomes
<1>4. Same(t, tok', {"fresh", "auth"}) /\ tok'.auth \subseteq t.auth BY <1>1, <1>2, <1>3
<1>5. tok'.cursor = t.cursor /\ tok'.auth \subseteq AuthToken BY <1>4 DEF Same, Fields, TokOK
<1>6. TokOK(tok') BY <1>4, <1>5, SameOK
<1>7. QED BY <1>4, <1>6 DEF Becomes

LEMMA TakesIs ==
  ASSUME BaseInv, NEW c \in Clients, NEW k, NEW t, NEW heed, Takes(c, k, t, heed)
  PROVE  /\ TokOK(t) /\ TokOK(tok') /\ Same(t, tok', {"fresh", "auth"}) /\ tok'.auth \subseteq t.auth
         /\ call'[c] # None => tok' = t
         /\ finished' = finished \cup t.templates
         /\ DOMAIN call' = Clients /\ call'[c] = k /\ DOMAIN known' = Clients
         /\ k # None => WellAsked(k) /\ About(call[c], k)
         /\ \A d \in Clients \ {c} : Other(call[d], call'[d])
         /\ \A d \in Clients : known'[d] =>
              known[d] /\ (d # c => (t.pin = None <=> tok.pin = None))
         /\ heed = FALSE /\ known'[c] => (t.pin = None <=> tok.pin = None)
<1>1. TokOK(t) /\ call' = CallOf(c, k, t) /\ Becomes(c, t, heed) BY DEF Takes
<1>2. k # None => WellAsked(k) /\ About(call[c], k)
  <2>1. WellAsked(call[c]) BY DEF Takes, BaseInv
  <2>2. QED BY <2>1, AboutAsked DEF Takes
<1>3. QED BY <1>1, <1>2, BecomesIs, CallOfIs

LEMMA EntersTakes ==
  ASSUME NEW c \in Clients, call[c] # None, NEW k, About(call[c], k), NEW t, TokOK(t),
         Enters(c, k, t), Becomes(c, t, TRUE)
  PROVE  /\ ret' = ret
         /\ \E k2 : Takes(c, k2, t, TRUE) /\ About(k, k2) /\ k2.stage = k.stage /\ k2.auth = k.auth
<1>1. PICK b : b = (k.tried \/ Costs(t)) OBVIOUS
<1> DEFINE k2 == [k EXCEPT !.tried = b]
<1>2. DOMAIN k = CallFields BY DEF About
<1>3. call' = CallOf(c, k2, t) /\ ret' = ret BY <1>1 DEF Enters
<1>4. About(k, k2) /\ k2.stage = k.stage /\ k2.auth = k.auth BY <1>2 DEF About, CallFields
<1>5. About(call[c], k2) BY <1>4 DEF About
<1> HIDE DEF k2
<1>6. QED BY <1>3, <1>4, <1>5 DEF Takes

\* A function of the client that changes at c.
Only(f, g, c, v) == DOMAIN g = Clients /\ g[c] = v /\ \A d \in Clients \ {c} : g[d] = f[d]

LEMMA ReturnTakes ==
  ASSUME BaseInv, NEW c \in Clients, call[c] # None, NEW r, NEW t, TokOK(t), Return(c, r, t),
         NEW heed, Becomes(c, t, heed)
  PROVE  Takes(c, None, t, heed) /\ Only(ret, ret', c, r)
BY DEF Return, Takes, BaseInv, Only

LEMMA FailsTakes ==
  ASSUME BaseInv, NEW c \in Clients, call[c] # None, NEW T, \A t \in T : TokOK(t), Fails(c, T)
  PROVE  /\ \E t \in T \cup {tok} : Takes(c, None, t, FALSE)
         /\ Only(ret, ret', c, "error")
<1>1. PICK t \in T \cup {tok} : Return(c, "error", t) /\ Becomes(c, t, FALSE) BY DEF Fails
<1>2. TokOK(t) BY DEF BaseInv
<1>3. QED BY <1>1, <1>2, ReturnTakes

\* An exchange that changes nothing of what the authenticator stores, and of the
\* client only its call.
Quiet(c, k, t) ==
  /\ Takes(c, k, t, TRUE) \/ Takes(c, k, t, FALSE)
  /\ Same(tok, t, TokenFields) /\ t.cursor \in {None, tok.cursor}
  /\ UNCHANGED <<flags, list, mixed, heard>>
  /\ k # None => k.stage \in {"token", "cmd"}
  /\ ret' = ret \/ (k = None /\ \E r \in {"error", "refused"} : Only(ret, ret', c, r))

\* An enrollment object may have got a token.
Keeps(c, S) ==
  /\ DOMAIN enr' = Clients
  /\ \A d \in Clients :
       /\ DOMAIN enr'[d] = {"token", "tmpl", "remaining"}
       /\ enr'[d].tmpl = enr[d].tmpl /\ enr'[d].remaining = enr[d].remaining
       /\ enr'[d].token = enr[d].token \/ (d = c /\ enr'[d].token \in S)

LEMMA NothingDone ==
  ASSUME BaseInv
  PROVE  TokOK(tok) /\ Same(tok, tok, TokenFields)
BY DEF BaseInv, TokOK, Same

LEMMA StageBusy == ASSUME NEW c \in Clients, Stage(c) # "idle" PROVE call[c] # None /\ call[c].stage = Stage(c)
BY DEF Stage

LEMMA FailsQuiet ==
  ASSUME BaseInv, NEW c \in Clients, call[c] # None, NEW T, Fails(c, T),
         \A t \in T : TokOK(t) /\ Same(tok, t, TokenFields) /\ t.cursor \in {None, tok.cursor},
         UNCHANGED <<flags, list, mixed, heard>>
  PROVE  \E t \in T \cup {tok} : Quiet(c, None, t)
<1>1. PICK t \in T \cup {tok} : Takes(c, None, t, FALSE) BY FailsTakes
<1>2. Only(ret, ret', c, "error") BY FailsTakes
<1>3. Same(tok, t, TokenFields) /\ t.cursor \in {None, tok.cursor} BY NothingDone
<1>4. Quiet(c, None, t) BY <1>1, <1>2, <1>3 DEF Quiet
<1>5. QED BY <1>4

LEMMA KeyExchangeIs ==
  ASSUME BaseInv, NEW c \in Clients, KeyExchange(c) \/ NoProtocol(c)
  PROVE  /\ enr' = enr /\ Stage(c) = "authkey"
         /\ \E k, t : /\ Quiet(c, k, t) /\ t.auth = tok.auth
                      /\ k # None => /\ PinProtocol(flags[c]) # 0 /\ k.auth = call[c].auth
                                     /\ k.stage = "token" => NeedsToken(flags[c], call[c])
<1>0. UNCHANGED <<flags, list, mixed, heard>> /\ enr' = enr /\ Stage(c) = "authkey" BY DEF KeyExchange, NoProtocol
<1>1. call[c] # None BY <1>0, StageBusy
<1>2. TokOK(tok) /\ DOMAIN call[c] = CallFields BY <1>1 DEF BaseInv, WellAsked
<1> DEFINE A == KeyAgreement(tok, c)
<1>3. \A t \in Toks(A) : TokOK(t) /\ Same(tok, t, TokenFields) /\ t.cursor \in {None, tok.cursor} /\ t.auth = tok.auth
  BY <1>2, KeyAgreementOK DEF Toks
<1> HIDE DEF A
<1>4. CASE NoProtocol(c)
  <2>1. Return(c, "error", tok) /\ Becomes(c, tok, TRUE) BY <1>4 DEF NoProtocol
  <2>2. Takes(c, None, tok, TRUE) /\ Only(ret, ret', c, "error") BY <1>1, <1>2, <2>1, ReturnTakes
  <2>3. Quiet(c, None, tok) BY <1>0, <2>2, NothingDone DEF Quiet
  <2>4. QED BY <1>0, <2>3
<1>5. CASE KeyExchange(c)
  <2>1. CASE Fails(c, Toks(A))
    <3>1. PICK t \in Toks(A) \cup {tok} : Quiet(c, None, t) BY <1>0, <1>1, <1>3, <2>1, FailsQuiet
    <3>2. QED BY <1>0, <1>3, <3>1
  <2>2. CASE \E t \in Toks(A) :
               /\ Enters(c, [call[c] EXCEPT !.stage = IF NeedsToken(flags[c], call[c]) THEN "token" ELSE "cmd"], t)
               /\ Becomes(c, t, TRUE)
    <3>1. PICK s : s = IF NeedsToken(flags[c], call[c]) THEN "token" ELSE "cmd" OBVIOUS
    <3> DEFINE k == [call[c] EXCEPT !.stage = s]
    <3>2. PICK t \in Toks(A) : Enters(c, k, t) /\ Becomes(c, t, TRUE) BY <2>2, <3>1
    <3>3. About(call[c], k) /\ k.stage = s /\ k.auth = call[c].auth BY <1>2 DEF About, CallFields
    <3> HIDE DEF k
    <3>4. TokOK(t) /\ Enters(c, k, t) /\ Becomes(c, t, TRUE) /\ About(call[c], k) BY <1>3, <3>2, <3>3
    <3>10. /\ ret' = ret
           /\ \E k2 : Takes(c, k2, t, TRUE) /\ About(k, k2) /\ k2.stage = k.stage /\ k2.auth = k.auth
      BY <1>1, <3>4, EntersTakes
    <3>5. PICK k2 : Takes(c, k2, t, TRUE) /\ About(k, k2) /\ k2.stage = k.stage /\ k2.auth = k.auth
      BY <3>10
    <3>6. ret' = ret BY <3>10
    <3>7. Quiet(c, k2, t) BY <1>0, <1>3, <3>1, <3>3, <3>5, <3>6 DEF Quiet
    <3>8. PinProtocol(flags[c]) # 0 BY <1>5 DEF KeyExchange
    <3>9. QED BY <1>0, <1>3, <3>1, <3>3, <3>5, <3>7, <3>8
  <2>3. QED BY <1>5, <2>1, <2>2 DEF KeyExchange, A
<1>6. QED BY <1>4, <1>5

LEMMA TokenStepIs ==
  ASSUME BaseInv, NEW c \in Clients, PinRequired(c) \/ GetUvToken(c)
  PROVE  LET given == Granted(tok, WantedToken(c, call[c])) IN
         /\ Stage(c) = "token" /\ Keeps(c, IF call[c].api = "enroll_begin" THEN {given} ELSE {})
         /\ \E k, t : /\ Quiet(c, k, t) /\ t.auth \subseteq tok.auth \cup {given}
                      /\ k # None => k.stage = "cmd" /\ k.auth = given
<1> DEFINE given == Granted(tok, WantedToken(c, call[c]))
           S == IF call[c].api = "enroll_begin" THEN {given} ELSE {}
<1>0. UNCHANGED <<flags, list, mixed, heard>> /\ Stage(c) = "token" BY DEF PinRequired, GetUvToken
<1>1. call[c] # None BY <1>0, StageBusy
<1>2. TokOK(tok) /\ DOMAIN call[c] = CallFields /\ WellAsked(call[c]) /\ call[c].cmd \in TokenCmds
  BY <1>0, <1>1 DEF BaseInv, WellAsked, Stage
<1>3. DOMAIN enr = Clients /\ \A d \in Clients : DOMAIN enr[d] = {"token", "tmpl", "remaining"}
  BY DEF BaseInv
<1> DEFINE A == TokenAnswers(tok, c, call[c])
<1>4. ASSUME NEW t \in Toks(A)
      PROVE  /\ TokOK(t) /\ Same(tok, t, TokenFields) /\ t.cursor \in {None, tok.cursor}
             /\ t.auth \subseteq tok.auth \cup {given}
  <2>1. PICK a \in A : t = a.tok BY DEF Toks
  <2>2. QED BY <1>2, <2>1, TokenAnswersOK
<1> HIDE DEF A, given
<1>5. UNCHANGED enr => Keeps(c, S) BY <1>3 DEF Keeps
<1> HIDE DEF S
<1>6. CASE PinRequired(c)
  <2>1. Return(c, "refused", tok) /\ Becomes(c, tok, TRUE) /\ UNCHANGED enr BY <1>6 DEF PinRequired
  <2>2. Takes(c, None, tok, TRUE) /\ Only(ret, ret', c, "refused") BY <1>1, <1>2, <2>1, ReturnTakes
  <2>3. Quiet(c, None, tok) BY <1>0, <2>2, NothingDone DEF Quiet
  <2>4. QED BY <1>0, <1>5, <2>1, <2>3 DEF S, given
<1>7. CASE Fails(c, Toks(A)) /\ UNCHANGED enr
  <2>1. PICK t \in Toks(A) \cup {tok} : Quiet(c, None, t) BY <1>0, <1>1, <1>4, <1>7, FailsQuiet
  <2>2. t.auth \subseteq tok.auth \cup {given} BY <1>4
  <2>3. QED BY <1>0, <1>5, <1>7, <2>1, <2>2 DEF S, given
<1>8. ASSUME NEW a \in A, a.reply.ok, Becomes(c, a.tok, TRUE),
             Enters(c, [call[c] EXCEPT !.stage = "cmd", !.auth = given], a.tok),
             enr' = [enr EXCEPT ![c].token = IF call[c].api = "enroll_begin" THEN given ELSE @]
      PROVE  Keeps(c, S) /\ \E k, t : /\ Quiet(c, k, t) /\ t.auth \subseteq tok.auth \cup {given}
                                      /\ k # None => k.stage = "cmd" /\ k.auth = given
  <2> DEFINE k == [call[c] EXCEPT !.stage = "cmd", !.auth = given]
  <2>1. a.tok \in Toks(A) BY DEF Toks
  <2>2. About(call[c], k) /\ k.stage = "cmd" /\ k.auth = given BY <1>2 DEF About, CallFields
  <2>3. Enters(c, k, a.tok) BY <1>8
  <2> HIDE DEF k
  <2>4. TokOK(a.tok) /\ Same(tok, a.tok, TokenFields) /\ a.tok.cursor \in {None, tok.cursor}
        /\ a.tok.auth \subseteq tok.auth \cup {given}
    BY <1>4, <2>1
  <2>5. PICK k2 : Takes(c, k2, a.tok, TRUE) /\ About(k, k2) /\ k2.stage = k.stage /\ k2.auth = k.auth
    BY <1>1, <1>8, <2>2, <2>3, <2>4, EntersTakes
  <2>6. ret' = ret BY <1>1, <1>8, <2>2, <2>3, <2>4, EntersTakes
  <2>7. Quiet(c, k2, a.tok) BY <1>0, <2>2, <2>4, <2>5, <2>6 DEF Quiet
  <2>8. Keeps(c, S) BY <1>3, <1>8 DEF Keeps, S
  <2>9. QED BY <2>2, <2>4, <2>5, <2>7, <2>8
<1>9. ASSUME NEW a \in A, Becomes(c, a.tok, TRUE), Return(c, "refused", a.tok), UNCHANGED enr
      PROVE  Keeps(c, S) /\ \E k, t : /\ Quiet(c, k, t) /\ t.auth \subseteq tok.auth \cup {given}
                                      /\ k # None => k.stage = "cmd" /\ k.auth = given
  <2>1. a.tok \in Toks(A) BY DEF Toks
  <2>2. TokOK(a.tok) /\ Same(tok, a.tok, TokenFields) /\ a.tok.cursor \in {None, tok.cursor}
        /\ a.tok.auth \subseteq tok.auth \cup {given}
    BY <1>4, <2>1
  <2>3. Takes(c, None, a.tok, TRUE) /\ Only(ret, ret', c, "refused") BY <1>1, <1>9, <2>2, ReturnTakes
  <2>4. Quiet(c, None, a.tok) BY <1>0, <2>2, <2>3 DEF Quiet
  <2>5. QED BY <1>5, <1>9, <2>2, <2>4
<1>10. GetUvToken(c) =>
         \/ Fails(c, Toks(A)) /\ UNCHANGED enr
         \/ \E a \in A :
              /\ Becomes(c, a.tok, TRUE)
              /\ \/ /\ a.reply.ok /\ Enters(c, [call[c] EXCEPT !.stage = "cmd", !.auth = given], a.tok)
                    /\ enr' = [enr EXCEPT ![c].token = IF call[c].api = "enroll_begin" THEN given ELSE @]
                 \/ Return(c, "refused", a.tok) /\ UNCHANGED enr
  BY DEF GetUvToken, A, given
<1>11. QED BY <1>0, <1>6, <1>7, <1>8, <1>9, <1>10 DEF S, given

\* The command of client c was answered a, and the client goes on with call k.
Answered(c, a, k) ==
  /\ a \in CommandAnswers(tok, c, call[c]) /\ Takes(c, k, a.tok, TRUE) /\ Mixes(c)
  /\ Only(flags, flags', c, IF a.reply.ok THEN Patched(call[c], flags[c]) ELSE flags[c])
  /\ Only(list, list', c, IF IsList(call[c])
                          THEN IF a.reply.ok THEN First(call[c], a.reply) ELSE Refused(call[c])
                          ELSE list[c])
  /\ Only(enr, enr', c, IF a.reply.ok THEN EnrollReported(call[c], enr[c], a.reply)
                        ELSE EnrollCleared(call[c], enr[c]))
  /\ Only(heard, heard', c, IF SampleAsked(call[c]) THEN a.reply.ok ELSE heard[c])
  /\ \/ /\ a.reply.ok /\ IsList(call[c]) /\ More(First(call[c], a.reply)) /\ ret' = ret
        /\ k.stage = "next"
     \/ /\ a.reply.ok /\ ~(IsList(call[c]) /\ More(First(call[c], a.reply)))
        /\ k = None /\ Only(ret, ret', c, "ok")
     \/ ~a.reply.ok /\ k = None /\ Only(ret, ret', c, "refused")

\* What becomes of enrollment object e then.
Voided(k, e, f) ==
  f = EnrollCleared(k, e) \/ (SampleAsked(k) /\ \E r : f = EnrollPartly(k, e, r))

\* The reply to it was lost or could not be parsed, and the authenticator is t.
Unread(c, t) ==
  /\ t = tok \/ \E a \in CommandAnswers(tok, c, call[c]) : t = a.tok
  /\ Takes(c, None, t, FALSE) /\ Mixes(c) /\ UNCHANGED flags
  /\ \/ ~IsList(call[c]) /\ list' = list
     \/ /\ IsList(call[c])
        /\ \E l : /\ \/ l = ResetList(call[c])
                     \/ \E a \in CommandAnswers(tok, c, call[c]) :
                          a.reply.ok /\ l \in Malformed(call[c], a.reply)
                  /\ Only(list, list', c, l)
  /\ \E f : Voided(call[c], enr[c], f) /\ Only(enr, enr', c, f)
  /\ DOMAIN heard' = Clients /\ (\A d \in Clients \ {c} : heard'[d] = heard[d])
  /\ heard'[c] => heard[c] /\ ~SampleAsked(call[c])
  /\ Only(ret, ret', c, "error")

LEMMA CommandIs ==
  ASSUME BaseInv, NEW c \in Clients, Command(c)
  PROVE  Stage(c) = "cmd" /\ \E a, k : Answered(c, a, k)
<1>1. Stage(c) = "cmd" /\ Mixes(c) BY DEF Command
<1>2. call[c] # None BY <1>1, StageBusy
<1>3. WellAsked(call[c]) /\ DOMAIN call[c] = CallFields /\ TokOK(tok) BY <1>2 DEF BaseInv, WellAsked
<1> DEFINE k == call[c]
           k2 == [k EXCEPT !.stage = "next"]
           Ok(a) == /\ a.reply.ok
                    /\ list' = [list EXCEPT ![c] = IF IsList(k) THEN First(k, a.reply) ELSE @]
                    /\ enr' = [enr EXCEPT ![c] = EnrollReported(k, @, a.reply)]
                    /\ flags' = [flags EXCEPT ![c] = Patched(k, @)]
                    /\ \/ IsList(k) /\ More(First(k, a.reply)) /\ Enters(c, k2, a.tok)
                       \/ ~(IsList(k) /\ More(First(k, a.reply))) /\ Return(c, "ok", a.tok)
           No(a) == /\ ~a.reply.ok
                    /\ list' = [list EXCEPT ![c] = IF IsList(k) THEN Refused(k) ELSE @]
                    /\ enr' = [enr EXCEPT ![c] = EnrollCleared(k, @)] /\ flags' = flags
                    /\ Return(c, "refused", a.tok)
<1>4. PICK a \in CommandAnswers(tok, c, k) :
        /\ Ok(a) \/ No(a)
        /\ Becomes(c, a.tok, TRUE)
        /\ heard' = [heard EXCEPT ![c] = IF SampleAsked(k) THEN a.reply.ok ELSE @]
  BY DEF Command
<1>5. TokOK(a.tok) BY <1>3, CommandServed DEF Served
<1>6. About(k, k2) /\ k2.stage = "next" BY <1>3 DEF About, CallFields
<1> HIDE DEF k2
<1>7. Only(heard, heard', c, IF SampleAsked(k) THEN a.reply.ok ELSE heard[c])
  BY <1>4 DEF Only, BaseInv
<1>8. CASE Ok(a)
  <2>1. /\ Only(flags, flags', c, IF a.reply.ok THEN Patched(k, flags[c]) ELSE flags[c])
        /\ Only(list, list', c, IF IsList(k)
                                THEN IF a.reply.ok THEN First(k, a.reply) ELSE Refused(k)
                                ELSE list[c])
        /\ Only(enr, enr', c, IF a.reply.ok THEN EnrollReported(k, enr[c], a.reply)
                              ELSE EnrollCleared(k, enr[c]))
    BY <1>8 DEF Only, BaseInv
  <2>2. CASE IsList(k) /\ More(First(k, a.reply)) /\ Enters(c, k2, a.tok)
    <3>1. Enters(c, k2, a.tok) /\ Becomes(c, a.tok, TRUE) BY <1>4, <2>2
    <3>2. ret' = ret BY <1>2, <1>5, <1>6, <3>1, EntersTakes
    <3>3. PICK k3 : Takes(c, k3, a.tok, TRUE) /\ About(k2, k3) /\ k3.stage = k2.stage /\ k3.auth = k2.auth
      BY <1>2, <1>5, <1>6, <3>1, EntersTakes
    <3>4. Answered(c, a, k3) BY <1>1, <1>4, <1>6, <1>7, <1>8, <2>1, <2>2, <3>2, <3>3 DEF Answered
    <3>5. QED BY <1>1, <3>4
  <2>3. CASE ~(IsList(k) /\ More(First(k, a.reply))) /\ Return(c, "ok", a.tok)
    <3>1. Takes(c, None, a.tok, TRUE) /\ Only(ret, ret', c, "ok")
      BY <1>2, <1>4, <1>5, <2>3, ReturnTakes
    <3>2. Answered(c, a, None) BY <1>1, <1>4, <1>7, <1>8, <2>1, <2>3, <3>1 DEF Answered
    <3>3. QED BY <1>1, <3>2
  <2>4. QED BY <1>8, <2>2, <2>3
<1>9. CASE No(a)
  <2>1. Takes(c, None, a.tok, TRUE) /\ Only(ret, ret', c, "refused")
    BY <1>2, <1>4, <1>5, <1>9, ReturnTakes
  <2>2. /\ Only(flags, flags', c, IF a.reply.ok THEN Patched(k, flags[c]) ELSE flags[c])
        /\ Only(list, list', c, IF IsList(k)
                                THEN IF a.reply.ok THEN First(k, a.reply) ELSE Refused(k)
                                ELSE list[c])
        /\ Only(enr, enr', c, IF a.reply.ok THEN EnrollReported(k, enr[c], a.reply)
                              ELSE EnrollCleared(k, enr[c]))
    BY <1>9 DEF Only, BaseInv
  <2>3. Answered(c, a, None) BY <1>1, <1>4, <1>7, <1>9, <2>1, <2>2 DEF Answered
  <2>4. QED BY <1>1, <2>3
<1>10. QED BY <1>4, <1>8, <1>9

LEMMA CommandLostIs ==
  ASSUME BaseInv, NEW c \in Clients, CommandUnsent(c) \/ CommandUnread(c)
  PROVE  /\ Stage(c) = "cmd"
         /\ (enr' = enr /\ Quiet(c, None, tok)) \/ \E t : Unread(c, t)
<1>1. Stage(c) = "cmd" BY DEF CommandUnsent, CommandUnread
<1>2. call[c] # None BY <1>1, StageBusy
<1>3. WellAsked(call[c]) /\ TokOK(tok) BY <1>2 DEF BaseInv
<1>4. CASE CommandUnsent(c)
  <2>1. Fails(c, {}) /\ UNCHANGED <<flags, list, mixed, heard>> /\ enr' = enr BY <1>4 DEF CommandUnsent
  <2>2. PICK t \in {} \cup {tok} : Quiet(c, None, t) BY <1>2, <2>1, FailsQuiet
  <2>3. QED BY <1>1, <2>1, <2>2
<1>5. CASE CommandUnread(c)
  <2> DEFINE k == call[c]
             A == CommandAnswers(tok, c, k)
             Spoilt == {a.reply : a \in {b \in A : b.reply.ok}}
             Lists == {ResetList(k)} \cup UNION {Malformed(k, r) : r \in Spoilt}
             Enrolls == {EnrollCleared(k, enr[c])} \cup
                        {EnrollPartly(k, enr[c], r) : r \in IF SampleAsked(k) THEN Spoilt ELSE {}}
  <2>1. /\ Fails(c, Toks(A)) /\ Mixes(c) /\ flags' = flags
        /\ IF IsList(k) THEN \E l \in Lists : list' = [list EXCEPT ![c] = l] ELSE list' = list
        /\ \E e \in Enrolls : enr' = [enr EXCEPT ![c] = e]
        /\ heard' = [heard EXCEPT ![c] = @ /\ ~SampleAsked(k)]
    BY <1>5 DEF CommandUnread
  <2>2. \A t \in Toks(A) : TokOK(t) /\ \E a \in A : t = a.tok BY <1>3, CommandServed DEF Toks, Served
  <2>3. PICK e \in Enrolls : enr' = [enr EXCEPT ![c] = e] BY <2>1
  <2>4. Voided(k, enr[c], e) BY <2>3 DEF Voided
  <2>8. \/ ~IsList(k) /\ list' = list
        \/ /\ IsList(k)
           /\ \E l : /\ l = ResetList(k) \/ \E a \in A : a.reply.ok /\ l \in Malformed(k, a.reply)
                     /\ Only(list, list', c, l)
    <3>1. CASE ~IsList(k) BY <2>1, <3>1
    <3>2. CASE IsList(k)
      <4>1. PICK l \in Lists : list' = [list EXCEPT ![c] = l] BY <2>1, <3>2
      <4>2. l = ResetList(k) \/ \E a \in A : a.reply.ok /\ l \in Malformed(k, a.reply) BY <4>1
      <4>3. Only(list, list', c, l) BY <4>1 DEF Only, BaseInv
      <4>4. QED BY <3>2, <4>2, <4>3
    <3>3. QED BY <3>1, <3>2
  <2> HIDE DEF A, Lists, Enrolls, Spoilt
  <2>5. /\ \E t \in Toks(A) \cup {tok} : Takes(c, None, t, FALSE)
        /\ Only(ret, ret', c, "error")
    BY <1>2, <2>1, <2>2, FailsTakes
  <2>6. PICK t \in Toks(A) \cup {tok} : Takes(c, None, t, FALSE) BY <2>5
  <2>7. t = tok \/ \E a \in A : t = a.tok BY <2>2
  <2>9. Only(enr, enr', c, e) BY <2>3 DEF Only, BaseInv
  <2>10. PICK b : b = (heard[c] /\ ~SampleAsked(k)) OBVIOUS
  <2>11. heard' = [heard EXCEPT ![c] = b] BY <2>1, <2>10
  <2>12. DOMAIN heard' = Clients /\ (\A d \in Clients \ {c} : heard'[d] = heard[d]) /\ heard'[c] = b
    BY <2>11 DEF BaseInv
  <2>13. Unread(c, t) BY <2>1, <2>4, <2>5, <2>6, <2>7, <2>8, <2>9, <2>10, <2>12 DEF Unread, A
  <2>14. QED BY <1>1, <2>13
<1>6. QED BY <1>4, <1>5

\* Client c asked for the next entry and was answered a.
Continued(c, a, k) ==
  /\ a \in Continue(tok, call[c].api) /\ Takes(c, k, a.tok, TRUE)
  /\ \/ /\ a.reply.ok /\ Only(list, list', c, NextEntry(list[c], a.reply))
        /\ \/ More(NextEntry(list[c], a.reply)) /\ ret' = ret /\ k.stage = "next"
           \/ ~More(NextEntry(list[c], a.reply)) /\ k = None /\ Only(ret, ret', c, "ok")
     \/ ~a.reply.ok /\ list' = list /\ k = None /\ Only(ret, ret', c, "refused")

LEMMA NextRequestIs ==
  ASSUME BaseInv, NEW c \in Clients, NextRequest(c)
  PROVE  /\ Stage(c) = "next" /\ UNCHANGED <<flags, enr, mixed, heard>>
         /\ \/ \E a, k : Continued(c, a, k)
            \/ list' = list /\ Only(ret, ret', c, "error")
               /\ \E t : /\ t = tok \/ \E a \in Continue(tok, call[c].api) : t = a.tok
                         /\ Takes(c, None, t, FALSE)
<1>1. Stage(c) = "next" /\ UNCHANGED <<flags, enr, mixed, heard>> BY DEF NextRequest
<1>2. call[c] # None /\ call[c].stage = "next" BY <1>1, StageBusy
<1>3. DOMAIN call[c] = CallFields /\ TokOK(tok) BY <1>2 DEF BaseInv, WellAsked
<1> DEFINE k == call[c]
           A == Continue(tok, k.api)
           Ok(a) == /\ a.reply.ok /\ list' = [list EXCEPT ![c] = NextEntry(@, a.reply)]
                    /\ \/ More(NextEntry(list[c], a.reply)) /\ Enters(c, k, a.tok)
                       \/ ~More(NextEntry(list[c], a.reply)) /\ Return(c, "ok", a.tok)
           No(a) == ~a.reply.ok /\ list' = list /\ Return(c, "refused", a.tok)
<1>4. \/ \E a \in A : (Ok(a) \/ No(a)) /\ Becomes(c, a.tok, TRUE)
      \/ Fails(c, Toks(A)) /\ list' = list
  BY DEF NextRequest
<1>5. \A a \in A : TokOK(a.tok) BY <1>3, NextServed DEF Served
<1>6. About(k, k) BY <1>3 DEF About
<1>7. ASSUME NEW a \in A, Ok(a) \/ No(a), Becomes(c, a.tok, TRUE)
      PROVE  \E k2 : Continued(c, a, k2)
  <2>1. CASE Ok(a) /\ More(NextEntry(list[c], a.reply)) /\ Enters(c, k, a.tok)
    <3>1. Enters(c, k, a.tok) /\ TokOK(a.tok) BY <1>5, <2>1
    <3>7. Becomes(c, a.tok, TRUE) BY <1>7
    <3>2. ret' = ret BY <1>2, <1>6, <3>1, <3>7, EntersTakes
    <3>3. PICK k3 : Takes(c, k3, a.tok, TRUE) /\ About(k, k3) /\ k3.stage = k.stage /\ k3.auth = k.auth
      BY <1>2, <1>6, <3>1, <3>7, EntersTakes
    <3>4. Only(list, list', c, NextEntry(list[c], a.reply)) BY <2>1 DEF Only, BaseInv
    <3>5. Continued(c, a, k3) BY <1>2, <2>1, <3>2, <3>3, <3>4 DEF Continued
    <3>6. QED BY <3>5
  <2>2. CASE Ok(a) /\ ~More(NextEntry(list[c], a.reply)) /\ Return(c, "ok", a.tok)
    <3>1. Return(c, "ok", a.tok) /\ TokOK(a.tok) BY <1>5, <2>2
    <3>2. Takes(c, None, a.tok, TRUE) /\ Only(ret, ret', c, "ok") BY <1>2, <1>7, <3>1, ReturnTakes
    <3>3. Only(list, list', c, NextEntry(list[c], a.reply)) BY <2>2 DEF Only, BaseInv
    <3>4. Continued(c, a, None) BY <2>2, <3>2, <3>3 DEF Continued
    <3>5. QED BY <3>4
  <2>3. CASE No(a)
    <3>1. Return(c, "refused", a.tok) /\ TokOK(a.tok) BY <1>5, <2>3
    <3>2. Takes(c, None, a.tok, TRUE) /\ Only(ret, ret', c, "refused") BY <1>2, <1>7, <3>1, ReturnTakes
    <3>3. Continued(c, a, None) BY <2>3, <3>2 DEF Continued
    <3>4. QED BY <3>3
  <2>4. QED BY <1>7, <2>1, <2>2, <2>3
<1>8. CASE Fails(c, Toks(A)) /\ list' = list
  <2>1. \A t \in Toks(A) : TokOK(t) /\ \E a \in A : t = a.tok BY <1>5 DEF Toks
  <2> HIDE DEF A
  <2>2. /\ \E t \in Toks(A) \cup {tok} : Takes(c, None, t, FALSE)
        /\ Only(ret, ret', c, "error")
    BY <1>2, <1>8, <2>1, FailsTakes
  <2>3. PICK t \in Toks(A) \cup {tok} : Takes(c, None, t, FALSE) BY <2>2
  <2>4. t = tok \/ \E a \in A : t = a.tok BY <2>1
  <2>5. QED BY <1>1, <1>8, <2>2, <2>3, <2>4 DEF A
<1>9. QED BY <1>1, <1>4, <1>7, <1>8

LEMMA ForgetsIs ==
  ASSUME NEW t, TokOK(t), NEW u \in Forgets(t)
  PROVE  /\ Same(t, u, {"cursor", "auth", "enroll"}) /\ u.cursor = None /\ u.auth \subseteq t.auth
         /\ u.enroll \in {t.enroll, None} /\ TokOK(u)
<1>1. /\ Same(t, u, {"cursor", "auth", "enroll"}) /\ u.cursor = None /\ u.auth \subseteq t.auth
      /\ u.enroll \in {t.enroll, None}
  BY DEF Forgets, Same, TokOK, Fields
<1>2. QED BY <1>1 DEF Same, TokOK, Fields

LEMMA TakesBase ==
  ASSUME BaseInv, NEW c \in Clients, NEW k, NEW t, NEW heed, Takes(c, k, t, heed),
         k # None => (k.stage = "token" => k.cmd \in TokenCmds),
         DOMAIN flags' = Clients, DOMAIN enr' = Clients, DOMAIN heard' = Clients, DOMAIN list' = Clients,
         DOMAIN mixed' = Clients, DOMAIN ret' = Clients,
         \A d \in Clients : DOMAIN enr'[d] = {"token", "tmpl", "remaining"}
  PROVE  BaseInv'
<1>1. TokOK(tok') /\ DOMAIN call' = Clients /\ DOMAIN known' = Clients BY TakesIs
<1>2. ASSUME NEW d \in Clients, call'[d] # None
      PROVE  WellAsked(call'[d]) /\ (call'[d].stage = "token" => call'[d].cmd \in TokenCmds)
  <2>1. CASE d = c BY <1>2, <2>1, TakesIs
  <2>2. CASE d # c
    <3>1. Other(call[d], call'[d]) BY <2>2, TakesIs
    <3>2. CASE call'[d] = call[d] BY <1>2, <3>2 DEF BaseInv
    <3>3. CASE call[d] # None /\ About(call[d], call'[d]) /\ call'[d].stage = call[d].stage
      <4>1. WellAsked(call[d]) /\ (call[d].stage = "token" => call[d].cmd \in TokenCmds) BY <3>3 DEF BaseInv
      <4>2. WellAsked(call'[d]) BY <3>3, <4>1, AboutAsked
      <4>3. call'[d].cmd = call[d].cmd BY <3>3 DEF About
      <4>4. QED BY <3>3, <4>1, <4>2, <4>3
    <3>4. QED BY <3>1, <3>2, <3>3 DEF Other
  <2>3. QED BY <2>1, <2>2
<1>3. QED BY <1>1, <1>2 DEF BaseInv

LEMMA QuietBase ==
  ASSUME BaseInv, NEW c \in Clients, NEW k, NEW t, Quiet(c, k, t), NEW S, enr' = enr \/ Keeps(c, S),
         k # None => (k.stage = "token" => k.cmd \in TokenCmds)
  PROVE  BaseInv'
<1>1. /\ DOMAIN flags' = Clients /\ DOMAIN heard' = Clients /\ DOMAIN list' = Clients
      /\ DOMAIN mixed' = Clients
  BY DEF Quiet, BaseInv
<1>2. DOMAIN ret' = Clients BY DEF Quiet, BaseInv, Only
<1>3. DOMAIN enr' = Clients /\ \A d \in Clients : DOMAIN enr'[d] = {"token", "tmpl", "remaining"}
  BY DEF BaseInv, Keeps
<1>4. Takes(c, k, t, TRUE) \/ Takes(c, k, t, FALSE) BY DEF Quiet
<1>5. QED BY <1>1, <1>2, <1>3, <1>4, TakesBase

LEMMA EnrollFields ==
  ASSUME NEW e, DOMAIN e = {"token", "tmpl", "remaining"}, NEW k, NEW r
  PROVE  /\ DOMAIN EnrollReported(k, e, r) = {"token", "tmpl", "remaining"}
         /\ DOMAIN EnrollCleared(k, e) = {"token", "tmpl", "remaining"}
         /\ EnrollReported(k, e, r).token = e.token /\ EnrollCleared(k, e).token = e.token
         /\ k.api = "enroll_begin" => /\ EnrollReported(k, e, r).tmpl = r.tmpl
                                      /\ EnrollReported(k, e, r).remaining = r.left
                                      /\ EnrollCleared(k, e).tmpl = None
         /\ k.api # "enroll_begin" => /\ EnrollReported(k, e, r).tmpl = e.tmpl
                                      /\ EnrollCleared(k, e).tmpl = e.tmpl
         /\ k.api = "enroll_continue" => EnrollReported(k, e, r).remaining = r.left
         /\ ~SampleAsked(k) => EnrollReported(k, e, r) = e /\ EnrollCleared(k, e) = e
BY DEF EnrollReported, EnrollCleared, SampleAsked

LEMMA MixesDomain == ASSUME NEW c, Mixes(c) PROVE DOMAIN mixed' = Clients
BY DEF Mixes

LEMMA NeedsTokenCmd == ASSUME NEW f, NEW k, NeedsToken(f, k) PROVE k.cmd \in TokenCmds
BY DEF NeedsToken, CredmanNeedsToken, BioNeedsToken, ConfigNeedsToken, MakeCredNeedsToken,
       AssertNeedsToken, TokenCmds

\* What a call is when it begins.
Begins(c) ==
  /\ UNCHANGED <<tok, flags, list, enr, history>> /\ call[c] = None
  /\ \/ UNCHANGED call /\ Only(ret, ret', c, "error")
     \/ \E k \in Asked \cup {EnrollContinue(enr[c].tmpl)} :
          /\ ~InvalidArgument(flags[c], k, enr[c])
          /\ About(k, call'[c]) /\ WellAsked(call'[c]) /\ DOMAIN call' = Clients
          /\ \A d \in Clients \ {c} : call'[d] = call[d]
          /\ call'[c].stage = FirstStage(flags[c], k)
          /\ call'[c].auth = IF k.api = "enroll_continue" THEN enr[c].token ELSE None
          /\ Only(ret, ret', c, "none")

LEMMA CallIs == ASSUME BaseInv, NEW c \in Clients, Call(c) PROVE Begins(c)
<1> DEFINE Valid == {a \in Asked \cup {EnrollContinue(enr[c].tmpl)} : a.api \in topic /\ ~IsU2f(flags[c], a)}
           u(k) == [k EXCEPT !.stage = FirstStage(flags[c], k),
                             !.auth = IF k.api = "enroll_continue" THEN enr[c].token ELSE None]
<1>1. UNCHANGED <<tok, flags, list, enr, history>> /\ call[c] = None BY DEF Call
<1>2. PICK k \in Valid : IF InvalidArgument(flags[c], k, enr[c])
                         THEN UNCHANGED call /\ ret' = [ret EXCEPT ![c] = "error"]
                         ELSE call' = [call EXCEPT ![c] = u(k)] /\ ret' = [ret EXCEPT ![c] = "none"]
  BY DEF Call
<1>3. k \in Asked \cup {EnrollContinue(enr[c].tmpl)} OBVIOUS
<1> HIDE DEF Valid
<1>4. WellAsked(k) BY <1>3, AskedIsWell
<1>5. About(k, u(k)) /\ u(k).stage = FirstStage(flags[c], k)
      /\ u(k).auth = IF k.api = "enroll_continue" THEN enr[c].token ELSE None
  BY <1>4 DEF About, WellAsked, CallFields
<1>6. WellAsked(u(k)) BY <1>4, <1>5, AboutAsked
<1> HIDE DEF u
<1>7. CASE InvalidArgument(flags[c], k, enr[c])
  <2>1. UNCHANGED call /\ Only(ret, ret', c, "error") BY <1>2, <1>7 DEF Only, BaseInv
  <2>2. QED BY <1>1, <2>1 DEF Begins
<1>8. CASE ~InvalidArgument(flags[c], k, enr[c])
  <2>1. call'[c] = u(k) /\ DOMAIN call' = Clients /\ \A d \in Clients \ {c} : call'[d] = call[d]
    BY <1>2, <1>8 DEF BaseInv
  <2>2. Only(ret, ret', c, "none") BY <1>2, <1>8 DEF Only, BaseInv
  <2>3. QED BY <1>1, <1>3, <1>5, <1>6, <1>8, <2>1, <2>2 DEF Begins
<1>9. QED BY <1>7, <1>8

LEMMA StageNeverToken == ASSUME NEW f, NEW k PROVE FirstStage(f, k) \in {"authkey", "cmd"}
BY DEF FirstStage

LEMMA BaseStep == ASSUME BaseInv, [Next]_vars PROVE BaseInv'
<1>1. CASE UNCHANGED vars BY <1>1 DEF BaseInv, vars, objects, history
<1>2. CASE TimersRunOut
  <2>1. TokOK(tok') BY <1>2, ForgetsIs DEF TimersRunOut, BaseInv
  <2>2. QED BY <1>2, <2>1 DEF TimersRunOut, BaseInv, objects, history
<1>3. ASSUME NEW c \in Clients, Open(c) PROVE BaseInv'
  <2>1. TokOK(tok') BY <1>3, DiscardOK DEF Open, BaseInv
  <2>2. QED BY <1>3, <2>1 DEF Open, BaseInv
<1>4. ASSUME NEW c \in Clients, OpenFallsBack(c) PROVE BaseInv'
  <2>1. TokOK(tok') BY <1>4, DiscardOK DEF OpenFallsBack, BaseInv
  <2>2. QED BY <1>4, <2>1 DEF OpenFallsBack, BaseInv
<1>5. ASSUME NEW c \in Clients, FreeEnroll(c) PROVE BaseInv'
  BY <1>5 DEF FreeEnroll, BaseInv, NoEnroll
<1>6. ASSUME NEW c \in Clients, Call(c) PROVE BaseInv'
  <2>1. Begins(c) BY <1>6, CallIs
  <2>2. DOMAIN ret' = Clients BY <2>1 DEF Begins, Only
  <2>3. UNCHANGED <<tok, flags, list, enr, mixed, known, heard>> BY <2>1 DEF Begins, history
  <2>4. CASE UNCHANGED call BY <2>2, <2>3, <2>4 DEF BaseInv
  <2>5. CASE ~UNCHANGED call
    <3>1. PICK k : /\ WellAsked(call'[c]) /\ DOMAIN call' = Clients
                   /\ \A d \in Clients \ {c} : call'[d] = call[d]
                   /\ call'[c].stage = FirstStage(flags[c], k)
      BY <2>1, <2>5 DEF Begins
    <3>2. call'[c].stage # "token" BY <3>1, StageNeverToken
    <3>3. QED BY <2>2, <2>3, <3>1, <3>2 DEF BaseInv
  <2>6. QED BY <2>4, <2>5
<1>7. ASSUME NEW c \in Clients, KeyExchange(c) \/ NoProtocol(c) PROVE BaseInv'
  <2>1. enr' = enr BY <1>7, KeyExchangeIs
  <2>2. PICK k, t : /\ Quiet(c, k, t) /\ t.auth = tok.auth
                    /\ k # None => /\ PinProtocol(flags[c]) # 0 /\ k.auth = call[c].auth
                                   /\ k.stage = "token" => NeedsToken(flags[c], call[c])
    BY <1>7, KeyExchangeIs
  <2>3. k # None => About(call[c], k) BY <2>2 DEF Quiet, Takes
  <2>4. ASSUME k # None, k.stage = "token" PROVE k.cmd \in TokenCmds
    BY <2>2, <2>3, <2>4, NeedsTokenCmd DEF About
  <2>5. QED BY <2>1, <2>2, <2>4, QuietBase
<1>8. ASSUME NEW c \in Clients, PinRequired(c) \/ GetUvToken(c) PROVE BaseInv'
  <2>1. PICK S : Keeps(c, S) BY <1>8, TokenStepIs
  <2>2. PICK k, t : Quiet(c, k, t) /\ (k # None => k.stage = "cmd") BY <1>8, TokenStepIs
  <2>3. k # None => (k.stage = "token" => k.cmd \in TokenCmds) BY <2>2
  <2>4. QED BY <2>1, <2>2, <2>3, QuietBase
<1>9. ASSUME NEW c \in Clients, Command(c) PROVE BaseInv'
  <2>1. PICK a, k : Answered(c, a, k) BY <1>9, CommandIs
  <2>2. Takes(c, k, a.tok, TRUE) /\ Mixes(c) BY <2>1 DEF Answered
  <2>3. k # None => k.stage = "next" BY <2>1 DEF Answered
  <2>4. /\ DOMAIN flags' = Clients /\ DOMAIN list' = Clients /\ DOMAIN heard' = Clients
        /\ DOMAIN enr' = Clients
    BY <2>1 DEF Answered, Only
  <2>5. DOMAIN ret' = Clients BY <2>1 DEF Answered, Only, BaseInv
  <2>6. DOMAIN mixed' = Clients BY <2>2, MixesDomain
  <2>7. ASSUME NEW d \in Clients PROVE DOMAIN enr'[d] = {"token", "tmpl", "remaining"}
    <3>1. DOMAIN enr[d] = {"token", "tmpl", "remaining"} BY DEF BaseInv
    <3>2. /\ d # c => enr'[d] = enr[d]
          /\ enr'[c] = IF a.reply.ok THEN EnrollReported(call[c], enr[c], a.reply)
                       ELSE EnrollCleared(call[c], enr[c])
      BY <2>1 DEF Answered, Only
    <3>3. QED BY <3>1, <3>2, EnrollFields
  <2>8. k # None => (k.stage = "token" => k.cmd \in TokenCmds) BY <2>3
  <2>9. QED BY <2>2, <2>4, <2>5, <2>6, <2>7, <2>8, TakesBase
<1>10. ASSUME NEW c \in Clients, CommandUnsent(c) \/ CommandUnread(c) PROVE BaseInv'
  <2>1. CASE enr' = enr /\ Quiet(c, None, tok) BY <2>1, QuietBase
  <2>2. ASSUME NEW t, Unread(c, t) PROVE BaseInv'
    <3>1. Takes(c, None, t, FALSE) /\ Mixes(c) BY <2>2 DEF Unread
    <3>2. /\ DOMAIN flags' = Clients /\ DOMAIN list' = Clients /\ DOMAIN heard' = Clients
          /\ DOMAIN enr' = Clients /\ DOMAIN ret' = Clients
      BY <2>2 DEF Unread, Only, BaseInv
    <3>3. DOMAIN mixed' = Clients BY <3>1, MixesDomain
    <3>4. ASSUME NEW d \in Clients PROVE DOMAIN enr'[d] = {"token", "tmpl", "remaining"}
      <4>1. DOMAIN enr[d] = {"token", "tmpl", "remaining"} BY DEF BaseInv
      <4>2. (d # c => enr'[d] = enr[d]) /\ Voided(call[c], enr[c], enr'[c])
        BY <2>2 DEF Unread, Only
      <4>3. QED BY <4>1, <4>2 DEF Voided, EnrollCleared, EnrollPartly
    <3>5. QED BY <3>1, <3>2, <3>3, <3>4, TakesBase
  <2>3. QED BY <1>10, <2>1, <2>2, CommandLostIs
<1>11. ASSUME NEW c \in Clients, NextRequest(c) PROVE BaseInv'
  <2>1. UNCHANGED <<flags, enr, mixed, heard>> BY <1>11, NextRequestIs
  <2>2. ASSUME NEW a, NEW k, Continued(c, a, k) PROVE BaseInv'
    <3>1. Takes(c, k, a.tok, TRUE) BY <2>2 DEF Continued
    <3>2. k # None => k.stage = "next" BY <2>2 DEF Continued
    <3>3. DOMAIN list' = Clients /\ DOMAIN ret' = Clients BY <2>2 DEF Continued, Only, BaseInv
    <3>4. /\ DOMAIN flags' = Clients /\ DOMAIN enr' = Clients /\ DOMAIN mixed' = Clients
          /\ DOMAIN heard' = Clients
          /\ \A d \in Clients : DOMAIN enr'[d] = {"token", "tmpl", "remaining"}
      BY <2>1 DEF BaseInv
    <3>5. QED BY <3>1, <3>2, <3>3, <3>4, TakesBase
  <2>3. ASSUME NEW t, Takes(c, None, t, FALSE), list' = list, Only(ret, ret', c, "error") PROVE BaseInv'
    <3>1. /\ DOMAIN flags' = Clients /\ DOMAIN enr' = Clients /\ DOMAIN mixed' = Clients
          /\ DOMAIN heard' = Clients /\ DOMAIN list' = Clients /\ DOMAIN ret' = Clients
          /\ \A d \in Clients : DOMAIN enr'[d] = {"token", "tmpl", "remaining"}
      BY <2>1, <2>3 DEF BaseInv, Only
    <3>2. QED BY <2>3, <3>1, TakesBase
  <2>4. QED BY <1>11, <2>2, <2>3, NextRequestIs
<1>12. QED BY <1>1, <1>2, <1>3, <1>4, <1>5, <1>6, <1>7, <1>8, <1>9, <1>10, <1>11 DEF Next

LEMMA BaseInit == ASSUME Init PROVE BaseInv
<1>1. PICK a \in Kinds, pin \in Pins \cup {None} :
        tok = [perms |-> a.perms, final |-> a.final, pin |-> pin, retries |-> MaxRetries,
               fresh |-> {}, auth |-> {}, cursor |-> None, enroll |-> None,
               creds |-> Ids, templates |-> {}, used |-> {}]
  BY DEF Init
<1>2. a.final \in BOOLEAN BY TokenCallsAssumption
<1>3. TokOK(tok) BY <1>1, <1>2 DEF TokOK, Fields
<1>4. QED BY <1>3 DEF Init, BaseInv, NoEnroll

-----------------------------------------------------------------------------
(* FlagsFollow: in every state, also while a call goes on, the flags of a  *)
(* device object that knows of every change say whether there is a PIN.    *)

Follows(f, t) == ("PIN_SET" \in f <=> t.pin # None) /\ ("PIN_UNSET" \in f <=> t.pin = None)

FlagsInv == \A c \in Clients : known[c] => Follows(flags[c], tok)

LEMMA FlagsKept ==
  ASSUME FlagsInv, flags' = flags, \A c \in Clients : known'[c] => known[c] /\ (tok'.pin = None <=> tok.pin = None)
  PROVE  FlagsInv'
BY DEF FlagsInv, Follows

LEMMA TakesFlags ==
  ASSUME BaseInv, FlagsInv, NEW c \in Clients, NEW k, NEW t, NEW heed, Takes(c, k, t, heed),
         flags' = flags, t.pin = tok.pin \/ heed = FALSE
  PROVE  FlagsInv'
<1>1. tok'.pin = t.pin BY TakesIs DEF Same, Fields
<1>2. /\ \A d \in Clients : known'[d] => known[d] /\ (d # c => (t.pin = None <=> tok.pin = None))
      /\ heed = FALSE /\ known'[c] => (t.pin = None <=> tok.pin = None)
  BY TakesIs
<1>3. QED BY <1>1, <1>2, FlagsKept

LEMMA QuietFlags ==
  ASSUME BaseInv, FlagsInv, NEW c \in Clients, NEW k, NEW t, Quiet(c, k, t) PROVE FlagsInv'
<1>1. t.pin = tok.pin /\ flags' = flags BY DEF Quiet, Same, Fields, TokenFields
<1>2. Takes(c, k, t, TRUE) \/ Takes(c, k, t, FALSE) BY DEF Quiet
<1>3. QED BY <1>1, <1>2, TakesFlags

\* Only three commands change the PIN.
LEMMA PinChangesBy ==
  ASSUME NEW t, TokOK(t), NEW c, NEW k, NEW a \in CommandAnswers(t, c, k), a.tok.pin # t.pin
  PROVE  k.api \in {"set_pin", "change_pin", "reset"} /\ a.reply.ok
<1>0. DOMAIN t = Fields BY DEF TokOK
<1>1. CASE k.api \in {"set_pin", "change_pin", "reset"} BY <1>0, <1>1, PinCommandIs
<1>2. CASE k.api \in {"rk", "rp", "assert"}
  <2>1. Discard(t).pin = t.pin BY <1>0 DEF Discard, Fields
  <2>2. a.tok = Discard(t) \/ Same(t, a.tok, {"cursor"}) BY <1>0, <1>2, ListCommandIs
  <2>3. a.tok.pin = t.pin BY <2>1, <2>2 DEF Same, Fields
  <2>4. QED BY <2>3
<1>3. CASE k.api \in {"enroll_begin", "enroll_continue"}
  <2> DEFINE d == Discard(t)
  <2>1. DOMAIN d = Fields /\ d.pin = t.pin /\ Discard(d) = d /\ d.enroll = t.enroll BY <1>0 DEF Discard, Fields
  <2>2. d.enroll # None => DOMAIN d.enroll = {"tmpl", "left"} BY <2>1 DEF TokOK
  <2> HIDE DEF d
  <2>3. CASE a.tok = d BY <2>1, <2>3
  <2>4. CASE a \in BeginEnroll(d)
    <3>1. PICK x \in Templates \ d.used :
            /\ Same(d, a.tok, {"enroll", "used"})
            /\ a.tok.enroll = [tmpl |-> x, left |-> Samples] /\ a.tok.used = d.used \cup {x}
            /\ a.reply.ok /\ a.reply.tmpl = x /\ a.reply.left = Samples
      BY <2>1, <2>4, BeginEnrollIs
    <3>2. QED BY <2>1, <3>1 DEF Same, Fields
  <2>5. CASE a \in ContinueEnroll(d, k.arg)
    <3>1. \/ a.tok = Discard(d)
          \/ a.tok = d
          \/ Same(d, a.tok, {"enroll", "templates"})
          \/ Same(d, a.tok, {"enroll"})
      BY <2>1, <2>2, <2>5, ContinueEnrollIs
    <3>2. QED BY <2>1, <3>1 DEF Same, Fields
  <2>6. QED BY <1>3, <2>3, <2>4, <2>5, EnrollCommandIs DEF d
<1>4. CASE k.api \notin {"rk", "rp", "assert", "enroll_begin", "enroll_continue",
                         "set_pin", "change_pin", "reset"}
  <2>1. Same(t, a.tok, {"cursor", "creds", "enroll", "templates"}) BY <1>0, <1>4, PlainCommandIs
  <2>2. QED BY <2>1 DEF Same, Fields
<1>5. QED BY <1>1, <1>2, <1>3, <1>4

\* After a call that changes the PIN the flags are patched to say so.
LEMMA PatchedFollows ==
  ASSUME NEW t, TokOK(t), NEW c, NEW k, WellAsked(k), NEW a \in CommandAnswers(t, c, k), a.reply.ok,
         NEW f, Follows(f, t)
  PROVE  Follows(Patched(k, f), a.tok)
<1>0. DOMAIN t = Fields BY DEF TokOK
<1>1. CASE k.api \in {"set_pin", "change_pin"}
  <2>1. k.new \in Pins /\ k.new # None BY <1>1, AuthenticatorAssumption DEF WellAsked, BioApis
  <2>2. /\ a.tok.pin = k.new
        /\ k.api = "set_pin" => t.pin = None
        /\ k.api = "change_pin" => t.pin # None
    BY <1>0, <1>1, PinCommandIs
  <2>3. QED BY <1>1, <2>1, <2>2 DEF Follows, Patched, PinIsSet
<1>2. CASE k.api = "reset"
  <2>1. a.tok.pin = None BY <1>0, <1>2, PinCommandIs
  <2>2. QED BY <1>2, <2>1 DEF Follows, Patched, PinIsUnset
<1>3. CASE k.api \notin {"set_pin", "change_pin", "reset"}
  <2>1. a.tok.pin = t.pin BY <1>3, PinChangesBy
  <2>2. Patched(k, f) = f BY <1>3 DEF Patched
  <2>3. QED BY <2>1, <2>2 DEF Follows
<1>4. QED BY <1>1, <1>2, <1>3

LEMMA FlagsStep == ASSUME BaseInv, FlagsInv, [Next]_vars PROVE FlagsInv'
<1>1. CASE UNCHANGED vars BY <1>1 DEF FlagsInv, vars, objects, history
<1>2. CASE TimersRunOut
  <2>1. tok'.pin = tok.pin BY <1>2, ForgetsIs DEF TimersRunOut, BaseInv, Same, Fields
  <2>2. QED BY <1>2, <2>1, FlagsKept DEF TimersRunOut, objects, history
<1>3. ASSUME NEW c \in Clients, Open(c) PROVE FlagsInv'
  <2>1. tok'.pin = tok.pin BY <1>3 DEF Open, BaseInv, TokOK, Discard, Fields
  <2>2. Follows(SetFlags(Info(tok)), tok) BY FlagsAre DEF Follows
  <2>3. \A d \in Clients : IF d = c THEN flags'[d] = SetFlags(Info(tok))
                           ELSE flags'[d] = flags[d] /\ known'[d] = known[d]
    BY <1>3 DEF Open, BaseInv
  <2>4. QED BY <2>1, <2>2, <2>3 DEF FlagsInv, Follows
<1>4. ASSUME NEW c \in Clients, OpenFallsBack(c) PROVE FlagsInv'
  <2>1. tok'.pin = tok.pin BY <1>4 DEF OpenFallsBack, BaseInv, TokOK, Discard, Fields
  <2>2. \A d \in Clients : IF d = c THEN known'[d] = FALSE
                           ELSE flags'[d] = flags[d] /\ known'[d] = known[d]
    BY <1>4 DEF OpenFallsBack, BaseInv
  <2>3. QED BY <2>1, <2>2 DEF FlagsInv, Follows
<1>5. ASSUME NEW c \in Clients, FreeEnroll(c) PROVE FlagsInv' BY <1>5 DEF FreeEnroll, FlagsInv
<1>6. ASSUME NEW c \in Clients, Call(c) PROVE FlagsInv' BY <1>6 DEF Call, FlagsInv, history
<1>7. ASSUME NEW c \in Clients, KeyExchange(c) \/ NoProtocol(c) PROVE FlagsInv'
  <2>1. PICK k, t : /\ Quiet(c, k, t) /\ t.auth = tok.auth
                    /\ k # None => /\ PinProtocol(flags[c]) # 0 /\ k.auth = call[c].auth
                                   /\ k.stage = "token" => NeedsToken(flags[c], call[c])
    BY <1>7, KeyExchangeIs
  <2>2. QED BY <2>1, QuietFlags
<1>8. ASSUME NEW c \in Clients, PinRequired(c) \/ GetUvToken(c) PROVE FlagsInv'
  <2>1. PICK k, t : Quiet(c, k, t) BY <1>8, TokenStepIs
  <2>2. QED BY <2>1, QuietFlags
<1>9. ASSUME NEW c \in Clients, Command(c) PROVE FlagsInv'
  <2>1. PICK a, k : Answered(c, a, k) BY <1>9, CommandIs
  <2>2. /\ a \in CommandAnswers(tok, c, call[c]) /\ Takes(c, k, a.tok, TRUE)
        /\ flags'[c] = IF a.reply.ok THEN Patched(call[c], flags[c]) ELSE flags[c]
        /\ \A d \in Clients \ {c} : flags'[d] = flags[d]
    BY <2>1 DEF Answered, Only
  <2>3. TokOK(tok) /\ WellAsked(call[c]) BY <2>2 DEF BaseInv, Takes
  <2>4. tok'.pin = a.tok.pin BY <2>2, TakesIs DEF Same, Fields
  <2>5. \A d \in Clients : known'[d] => known[d] /\ (d # c => (a.tok.pin = None <=> tok.pin = None))
    BY <2>2, TakesIs
  <2>6. ~a.reply.ok => a.tok.pin = tok.pin BY <2>2, <2>3, PinChangesBy
  <2>7. known[c] => Follows(flags'[c], a.tok)
    <3>1. CASE a.reply.ok
      <4>1. known[c] => Follows(Patched(call[c], flags[c]), a.tok)
        BY <2>2, <2>3, <3>1, PatchedFollows DEF FlagsInv
      <4>2. QED BY <2>2, <3>1, <4>1
    <3>2. CASE ~a.reply.ok BY <2>2, <2>6, <3>2 DEF FlagsInv, Follows
    <3>3. QED BY <3>1, <3>2
  <2>8. QED BY <2>2, <2>4, <2>5, <2>7 DEF FlagsInv, Follows
<1>10. ASSUME NEW c \in Clients, CommandUnsent(c) \/ CommandUnread(c) PROVE FlagsInv'
  <2>1. CASE Quiet(c, None, tok) BY <2>1, QuietFlags
  <2>2. ASSUME NEW t, Unread(c, t) PROVE FlagsInv' BY <2>2, TakesFlags DEF Unread
  <2>3. QED BY <1>10, <2>1, <2>2, CommandLostIs
<1>11. ASSUME NEW c \in Clients, NextRequest(c) PROVE FlagsInv'
  <2>1. flags' = flags BY <1>11, NextRequestIs
  <2>2. ASSUME NEW a, NEW k, Continued(c, a, k) PROVE FlagsInv'
    <3>1. a \in Continue(tok, call[c].api) /\ Takes(c, k, a.tok, TRUE) BY <2>2 DEF Continued
    <3>2. a.tok.pin = tok.pin BY <3>1, NextServed DEF BaseInv
    <3>3. QED BY <2>1, <3>1, <3>2, TakesFlags
  <2>3. ASSUME NEW t, Takes(c, None, t, FALSE) PROVE FlagsInv' BY <2>1, <2>3, TakesFlags
  <2>4. QED BY <1>11, <2>2, <2>3, NextRequestIs
<1>12. QED BY <1>1, <1>2, <1>3, <1>4, <1>5, <1>6, <1>7, <1>8, <1>9, <1>10, <1>11 DEF Next

\* Between calls, a device object knows whether the authenticator has a PIN, unless
\* another client has set or removed it, or the reply to its own call that did was
\* lost: fido_dev_set_pin_wait and fido_dev_reset_wait patch dev->flags in every
\* case in which the PIN comes or goes.
THEOREM FlagsFollowAlways == Spec => []FlagsFollow
<1>1. Init => BaseInv /\ FlagsInv
  <2> SUFFICES ASSUME Init PROVE BaseInv /\ FlagsInv OBVIOUS
  <2>1. Follows(SetFlags(Info(tok)), tok) BY FlagsAre DEF Follows
  <2>2. QED BY <2>1, BaseInit DEF Init, FlagsInv
<1>2. BaseInv /\ FlagsInv /\ [Next]_vars => (BaseInv /\ FlagsInv)' BY BaseStep, FlagsStep
<1>3. FlagsInv => FlagsFollow BY DEF FlagsInv, FlagsFollow, Follows
<1>4. QED BY <1>1, <1>2, <1>3, PTL DEF Spec

-----------------------------------------------------------------------------
(* TokenPermits: what a client may have in hand when it sends a command.   *)

\* The flags that choose between a command and its preview, if they are enough
\* to get as far as a command with a PIN/UV token.
Speaks(f, final) ==
  PinProtocol(f) # 0 => ("CREDMAN" \in f <=> final) /\ (f \cap {"BIO_SET", "BIO_UNSET"} # {} <=> final)

\* A token kept for an enrollment.
Holds(a) == a # None => a.perm \in {"any", "bio"}

Carries(k, f) ==
  /\ k.stage \in {"authkey", "token"} => k.auth = None
  /\ k.stage = "token" => PinProtocol(f) # 0
  /\ k.stage = "cmd" /\ k.auth # None => PinProtocol(f) # 0 /\ Adequate(k.auth, k)

AuthInv ==
  \A c \in Clients :
    /\ Speaks(flags[c], tok.final) /\ Holds(enr[c].token)
    /\ call[c] # None => Carries(call[c], flags[c])

LEMMA AdequateAbout ==
  ASSUME NEW k, NEW k2, About(k, k2), NEW a, Adequate(a, k) PROVE Adequate(a, k2)
BY DEF About, Adequate

LEMMA CarriesOther ==
  ASSUME NEW k, NEW f, Carries(k, f), k # None, NEW k2, Other(k, k2) PROVE Carries(k2, f)
<1>1. CASE k2 = k BY <1>1
<1>2. CASE About(k, k2) /\ k2.stage = k.stage /\ k2.auth = k.auth
  <2>1. Adequate(k.auth, k) => Adequate(k2.auth, k2) BY <1>2, AdequateAbout
  <2>2. QED BY <1>2, <2>1 DEF Carries
<1>3. QED BY <1>1, <1>2 DEF Other

LEMMA GivenIsAdequate ==
  ASSUME NEW t, NEW c \in Clients, NEW k, WellAsked(k), k.cmd \in TokenCmds
  PROVE  /\ Adequate(Granted(t, WantedToken(c, k)), k)
         /\ k.api = "enroll_begin" => Holds(Granted(t, WantedToken(c, k)))
<1> DEFINE g == Granted(t, WantedToken(c, k))
<1>1. /\ g.perm \in {"any", UvPermission(k.cmd)}
      /\ g.perm # "any" => g.rp = k.rp
      /\ g.perm = "any" => g.rp = None
  BY GrantedOK
<1> HIDE DEF g
<1>2. Adequate(g, k)
  <2>1. CASE k.cmd = "CRED_MGMT" BY <1>1, <2>1 DEF Adequate, UvPermission, WellAsked, BioApis
  <2>2. CASE k.cmd = "BIO_ENROLL" BY <1>1, <2>2 DEF Adequate, UvPermission, WellAsked, BioApis
  <2>3. CASE k.cmd = "CONFIG" BY <1>1, <2>3 DEF Adequate, UvPermission, WellAsked, BioApis
  <2>4. CASE k.cmd = "MAKECRED" BY <1>1, <2>4 DEF Adequate, UvPermission, WellAsked, BioApis
  <2>5. CASE k.cmd = "ASSERT" BY <1>1, <2>5 DEF Adequate, UvPermission, WellAsked, BioApis
  <2>6. QED BY <2>1, <2>2, <2>3, <2>4, <2>5 DEF TokenCmds
<1>3. k.api = "enroll_begin" => k.cmd = "BIO_ENROLL" BY DEF WellAsked, BioApis
<1>4. QED BY <1>1, <1>2, <1>3 DEF Holds, UvPermission, g

LEMMA PatchedSpeaks ==
  ASSUME NEW k, NEW f, NEW final, Speaks(f, final) PROVE Speaks(Patched(k, f), final)
<1>1. /\ PinProtocol(Patched(k, f)) = PinProtocol(f) /\ ("CREDMAN" \in Patched(k, f) <=> "CREDMAN" \in f)
      /\ Patched(k, f) \cap {"BIO_SET", "BIO_UNSET"} = f \cap {"BIO_SET", "BIO_UNSET"}
  BY DEF Patched, PinIsSet, PinIsUnset, PinProtocol
<1>2. QED BY <1>1 DEF Speaks

LEMMA TakesAuth ==
  ASSUME BaseInv, AuthInv, NEW c \in Clients, NEW k, NEW t, NEW heed, Takes(c, k, t, heed),
         t.final = tok.final, \A d \in Clients \ {c} : flags'[d] = flags[d],
         Speaks(flags'[c], tok.final), \A d \in Clients : Holds(enr'[d].token),
         k # None => Carries(k, flags'[c])
  PROVE  AuthInv'
<1>1. Same(t, tok', {"fresh", "auth"}) /\ call'[c] = k /\ \A d \in Clients \ {c} : Other(call[d], call'[d])
  BY TakesIs
<1>2. tok'.final = tok.final BY <1>1 DEF Same, Fields
<1>3. ASSUME NEW d \in Clients, call'[d] # None PROVE Carries(call'[d], flags'[d])
  <2>1. CASE d = c BY <1>1, <1>3, <2>1
  <2>2. CASE d # c
    <3>1. Other(call[d], call'[d]) BY <1>1, <2>2
    <3>2. call[d] # None BY <1>3, <3>1 DEF Other
    <3>3. Carries(call[d], flags[d]) BY <3>2 DEF AuthInv
    <3>4. Carries(call'[d], flags[d]) BY <3>1, <3>2, <3>3, CarriesOther
    <3>5. QED BY <2>2, <3>4
  <2>3. QED BY <2>1, <2>2
<1>4. \A d \in Clients : Speaks(flags'[d], tok.final) BY DEF AuthInv
<1>5. QED BY <1>2, <1>3, <1>4 DEF AuthInv

LEMMA QuietAuth ==
  ASSUME BaseInv, AuthInv, NEW c \in Clients, NEW k, NEW t, Quiet(c, k, t),
         \A d \in Clients : Holds(enr'[d].token), k # None => Carries(k, flags[c])
  PROVE  AuthInv'
<1>1. Same(tok, t, TokenFields) /\ flags' = flags BY DEF Quiet
<1>2. t.final = tok.final BY <1>1 DEF Same, Fields, TokenFields
<1>3. /\ \A d \in Clients \ {c} : flags'[d] = flags[d]
      /\ Speaks(flags'[c], tok.final) /\ (k # None => Carries(k, flags'[c]))
  BY <1>1 DEF AuthInv
<1>4. Takes(c, k, t, TRUE) \/ Takes(c, k, t, FALSE) BY DEF Quiet
<1>5. QED BY <1>2, <1>3, <1>4, TakesAuth

LEMMA BeginsAuth == ASSUME BaseInv, AuthInv, NEW c \in Clients, Begins(c) PROVE AuthInv'
<1>1. UNCHANGED <<tok, flags, enr>> BY DEF Begins
<1>2. CASE UNCHANGED call BY <1>1, <1>2 DEF AuthInv
<1>3. CASE ~UNCHANGED call
  <2>1. PICK k \in Asked \cup {EnrollContinue(enr[c].tmpl)} :
          /\ ~InvalidArgument(flags[c], k, enr[c])
          /\ About(k, call'[c]) /\ WellAsked(call'[c]) /\ DOMAIN call' = Clients
          /\ \A d \in Clients \ {c} : call'[d] = call[d]
          /\ call'[c].stage = FirstStage(flags[c], k)
          /\ call'[c].auth = IF k.api = "enroll_continue" THEN enr[c].token ELSE None
    BY <1>3 DEF Begins
  <2>2. WellAsked(k) /\ (k.api = "enroll_continue" => k.pin = None) BY AskedIsWell
  <2>3. CASE k.api = "enroll_continue"
    <3>1. k.pin = None /\ k.cmd = "BIO_ENROLL" BY <2>2, <2>3 DEF WellAsked, BioApis
    <3>2. FirstStage(flags[c], k) = "cmd"
      BY <2>3, <3>1 DEF FirstStage, NeedsSecret, NeedsToken, CredmanNeedsToken, BioNeedsToken,
                        ConfigNeedsToken, MakeCredNeedsToken, AssertNeedsToken
    <3>3. PinProtocol(flags[c]) # 0 /\ enr[c].token # None BY <2>1, <2>3 DEF InvalidArgument
    <3>4. enr[c].token.perm \in {"any", "bio"} BY <3>3 DEF AuthInv, Holds
    <3>5. call'[c].cmd = "BIO_ENROLL" /\ call'[c].api = "enroll_continue" BY <2>1, <2>3, <3>1 DEF About
    <3>6. Adequate(enr[c].token, call'[c]) BY <3>4, <3>5 DEF Adequate
    <3>7. Carries(call'[c], flags[c]) BY <2>1, <2>3, <3>2, <3>3, <3>6 DEF Carries
    <3>8. QED BY <1>1, <2>1, <3>7 DEF AuthInv
  <2>4. CASE k.api # "enroll_continue"
    <3>1. call'[c].auth = None /\ call'[c].stage # "token" BY <2>1, <2>4, StageNeverToken
    <3>2. Carries(call'[c], flags[c]) BY <3>1 DEF Carries
    <3>3. QED BY <1>1, <2>1, <3>2 DEF AuthInv
  <2>5. QED BY <2>3, <2>4
<1>4. QED BY <1>2, <1>3

LEMMA AuthStep == ASSUME BaseInv, AuthInv, [Next]_vars PROVE AuthInv'
<1>0. \A c \in Clients : Holds(enr[c].token) BY DEF AuthInv
<1>1. CASE UNCHANGED vars BY <1>1 DEF AuthInv, vars, objects
<1>2. CASE TimersRunOut
  <2>1. tok'.final = tok.final BY <1>2, ForgetsIs DEF TimersRunOut, BaseInv, Same, Fields
  <2>2. QED BY <1>2, <2>1 DEF TimersRunOut, objects, AuthInv
<1>3. ASSUME NEW c \in Clients, Open(c) PROVE AuthInv'
  <2>1. tok'.final = tok.final BY <1>3 DEF Open, BaseInv, TokOK, Discard, Fields
  <2>2. Speaks(SetFlags(Info(tok)), tok.final) BY FlagsAre DEF Speaks
  <2>3. \A d \in Clients : flags'[d] = IF d = c THEN SetFlags(Info(tok)) ELSE flags[d]
    BY <1>3 DEF Open, BaseInv
  <2>4. call[c] = None /\ UNCHANGED <<call, enr>> BY <1>3 DEF Open
  <2>5. QED BY <2>1, <2>2, <2>3, <2>4 DEF AuthInv
<1>4. ASSUME NEW c \in Clients, OpenFallsBack(c) PROVE AuthInv'
  <2>1. tok'.final = tok.final BY <1>4 DEF OpenFallsBack, BaseInv, TokOK, Discard, Fields
  <2>2. PICK f \in BadFlags : flags' = [flags EXCEPT ![c] = f] BY <1>4 DEF OpenFallsBack
  <2>3. Speaks(f, tok.final) BY BadFlagsAre DEF Speaks
  <2>4. \A d \in Clients : flags'[d] = IF d = c THEN f ELSE flags[d] BY <2>2 DEF BaseInv
  <2>5. call[c] = None /\ UNCHANGED <<call, enr>> BY <1>4 DEF OpenFallsBack
  <2>6. QED BY <2>1, <2>3, <2>4, <2>5 DEF AuthInv
<1>5. ASSUME NEW c \in Clients, FreeEnroll(c) PROVE AuthInv'
  <2>1. \A d \in Clients : Holds(enr'[d].token) BY <1>0, <1>5 DEF FreeEnroll, BaseInv, NoEnroll, Holds
  <2>2. UNCHANGED <<tok, flags, call>> BY <1>5 DEF FreeEnroll
  <2>3. QED BY <2>1, <2>2 DEF AuthInv
<1>6. ASSUME NEW c \in Clients, Call(c) PROVE AuthInv' BY <1>6, CallIs, BeginsAuth
<1>7. ASSUME NEW c \in Clients, KeyExchange(c) \/ NoProtocol(c) PROVE AuthInv'
  <2>1. enr' = enr /\ Stage(c) = "authkey" BY <1>7, KeyExchangeIs
  <2>2. PICK k, t : /\ Quiet(c, k, t) /\ t.auth = tok.auth
                    /\ k # None => /\ PinProtocol(flags[c]) # 0 /\ k.auth = call[c].auth
                                   /\ k.stage = "token" => NeedsToken(flags[c], call[c])
    BY <1>7, KeyExchangeIs
  <2>3. call[c] # None /\ call[c].stage = "authkey" BY <2>1 DEF Stage
  <2>4. call[c].auth = None BY <2>3 DEF AuthInv, Carries
  <2>5. k # None => Carries(k, flags[c]) BY <2>2, <2>4 DEF Carries
  <2>6. QED BY <1>0, <2>1, <2>2, <2>5, QuietAuth
<1>8. ASSUME NEW c \in Clients, PinRequired(c) \/ GetUvToken(c) PROVE AuthInv'
  <2> DEFINE given == Granted(tok, WantedToken(c, call[c]))
  <2>1. Stage(c) = "token" /\ Keeps(c, IF call[c].api = "enroll_begin" THEN {given} ELSE {})
    BY <1>8, TokenStepIs
  <2>2. PICK k, t : Quiet(c, k, t) /\ (k # None => k.stage = "cmd" /\ k.auth = given)
    BY <1>8, TokenStepIs
  <2>3. call[c] # None /\ call[c].stage = "token" BY <2>1 DEF Stage
  <2>4. WellAsked(call[c]) /\ call[c].cmd \in TokenCmds /\ PinProtocol(flags[c]) # 0
    BY <2>3 DEF BaseInv, AuthInv, Carries
  <2>5. Adequate(given, call[c]) /\ (call[c].api = "enroll_begin" => Holds(given))
    BY <2>4, GivenIsAdequate
  <2> HIDE DEF given
  <2>6. k # None => Carries(k, flags[c])
    <3>1. k # None => About(call[c], k) BY <2>2 DEF Quiet, Takes
    <3>2. k # None => Adequate(given, k) BY <2>5, <3>1, AdequateAbout
    <3>3. QED BY <2>2, <2>4, <3>2 DEF Carries
  <2>7. \A d \in Clients : Holds(enr'[d].token)
    BY <1>0, <2>1, <2>5 DEF Keeps
  <2>8. QED BY <2>2, <2>6, <2>7, QuietAuth
<1>9. ASSUME NEW c \in Clients, Command(c) PROVE AuthInv'
  <2>1. PICK a, k : Answered(c, a, k) BY <1>9, CommandIs
  <2>2. /\ a \in CommandAnswers(tok, c, call[c]) /\ Takes(c, k, a.tok, TRUE)
        /\ flags'[c] = IF a.reply.ok THEN Patched(call[c], flags[c]) ELSE flags[c]
        /\ \A d \in Clients \ {c} : flags'[d] = flags[d]
    BY <2>1 DEF Answered, Only
  <2>3. TokOK(tok) /\ WellAsked(call[c]) BY <2>2 DEF BaseInv, Takes
  <2>4. a.tok.final = tok.final BY <2>2, <2>3, CommandServed DEF Served
  <2>5. Speaks(flags'[c], tok.final)
    <3>1. Speaks(flags[c], tok.final) BY DEF AuthInv
    <3>2. Speaks(Patched(call[c], flags[c]), tok.final) BY <3>1, PatchedSpeaks
    <3>3. QED BY <2>2, <3>1, <3>2
  <2>6. \A d \in Clients : enr'[d].token = enr[d].token
    <3>1. /\ enr'[c] = IF a.reply.ok THEN EnrollReported(call[c], enr[c], a.reply)
                       ELSE EnrollCleared(call[c], enr[c])
          /\ \A d \in Clients \ {c} : enr'[d] = enr[d]
      BY <2>1 DEF Answered, Only
    <3>2. DOMAIN enr[c] = {"token", "tmpl", "remaining"} BY DEF BaseInv
    <3>3. enr'[c].token = enr[c].token BY <3>1, <3>2 DEF EnrollReported, EnrollCleared
    <3>4. QED BY <3>1, <3>3
  <2>7. k # None => Carries(k, flags'[c])
    <3>1. k # None => k.stage = "next" BY <2>1 DEF Answered
    <3>2. QED BY <3>1 DEF Carries
  <2>8. \A d \in Clients : Holds(enr'[d].token) BY <1>0, <2>6
  <2>9. QED BY <2>2, <2>4, <2>5, <2>7, <2>8, TakesAuth
<1>10. ASSUME NEW c \in Clients, CommandUnsent(c) \/ CommandUnread(c) PROVE AuthInv'
  <2>1. CASE enr' = enr /\ Quiet(c, None, tok) BY <1>0, <2>1, QuietAuth
  <2>2. ASSUME NEW t, Unread(c, t) PROVE AuthInv'
    <3>1. Takes(c, None, t, FALSE) /\ flags' = flags BY <2>2 DEF Unread
    <3>2. TokOK(tok) /\ WellAsked(call[c]) BY <3>1 DEF BaseInv, Takes
    <3>3. t = tok \/ \E a \in CommandAnswers(tok, c, call[c]) : t = a.tok BY <2>2 DEF Unread
    <3>4. t.final = tok.final BY <3>2, <3>3, CommandServed DEF Served
    <3>5. Voided(call[c], enr[c], enr'[c]) /\ \A d \in Clients \ {c} : enr'[d] = enr[d]
      BY <2>2 DEF Unread, Only
    <3>6. DOMAIN enr[c] = {"token", "tmpl", "remaining"} BY DEF BaseInv
    <3>7. enr'[c].token = enr[c].token BY <3>5, <3>6 DEF Voided, EnrollCleared, EnrollPartly
    <3>8. \A d \in Clients : Holds(enr'[d].token) BY <1>0, <3>5, <3>7
    <3>9. Speaks(flags'[c], tok.final) BY <3>1 DEF AuthInv
    <3>10. QED BY <3>1, <3>4, <3>8, <3>9, TakesAuth
  <2>3. QED BY <1>10, <2>1, <2>2, CommandLostIs
<1>11. ASSUME NEW c \in Clients, NextRequest(c) PROVE AuthInv'
  <2>1. flags' = flags /\ enr' = enr BY <1>11, NextRequestIs
  <2>2. /\ \A d \in Clients \ {c} : flags'[d] = flags[d]
        /\ Speaks(flags'[c], tok.final) /\ \A d \in Clients : Holds(enr'[d].token)
    BY <1>0, <2>1 DEF AuthInv
  <2>3. \A a \in Continue(tok, call[c].api) : a.tok.final = tok.final
    BY NextServed DEF BaseInv, Served
  <2>4. ASSUME NEW a, NEW k, Continued(c, a, k) PROVE AuthInv'
    <3>1. Takes(c, k, a.tok, TRUE) /\ a.tok.final = tok.final BY <2>3, <2>4 DEF Continued
    <3>2. k # None => k.stage = "next" BY <2>4 DEF Continued
    <3>3. k # None => Carries(k, flags'[c]) BY <3>2 DEF Carries
    <3>4. QED BY <2>2, <3>1, <3>3, TakesAuth
  <2>5. ASSUME NEW t, t = tok \/ \E a \in Continue(tok, call[c].api) : t = a.tok, Takes(c, None, t, FALSE)
        PROVE AuthInv'
    <3>1. t.final = tok.final BY <2>3, <2>5
    <3>2. QED BY <2>2, <2>5, <3>1, TakesAuth
  <2>6. QED BY <1>11, <2>4, <2>5, NextRequestIs
<1>12. QED BY <1>1, <1>2, <1>3, <1>4, <1>5, <1>6, <1>7, <1>8, <1>9, <1>10, <1>11 DEF Next

LEMMA CarriedPermits ==
  ASSUME BaseInv, AuthInv, NEW c \in Clients, Stage(c) = "cmd", call[c].auth \in tok.auth
  PROVE  Authorized(tok, c, call[c])
<1>1. call[c] # None /\ call[c].stage = "cmd" BY DEF Stage
<1>2. call[c].auth # None BY NoneAssumption DEF BaseInv, TokOK
<1>3. PinProtocol(flags[c]) # 0 /\ Adequate(call[c].auth, call[c]) BY <1>1, <1>2 DEF AuthInv, Carries
<1>4. ("CREDMAN" \in flags[c] <=> tok.final) /\ (flags[c] \cap {"BIO_SET", "BIO_UNSET"} # {} <=> tok.final)
  BY <1>3 DEF AuthInv, Speaks
<1>5. Understood(tok, c, call[c]) BY <1>4 DEF Understood, Preview, BaseInv, TokOK
<1>6. QED BY <1>2, <1>3, <1>5 DEF Authorized

\* The PIN/UV token that comes with a command, unless the authenticator has dropped
\* it, permits that command: whichever way it was got in, for whichever function,
\* and on whatever flags an open with a spoilt reply has left.
THEOREM TokenPermitsAlways == Spec => []TokenPermits
<1>1. Init => BaseInv /\ AuthInv
  <2> SUFFICES ASSUME Init PROVE BaseInv /\ AuthInv OBVIOUS
  <2>1. Speaks(SetFlags(Info(tok)), tok.final) BY FlagsAre DEF Speaks
  <2>2. QED BY <2>1, BaseInit DEF Init, AuthInv, Holds, NoEnroll
<1>2. BaseInv /\ AuthInv /\ [Next]_vars => (BaseInv /\ AuthInv)' BY BaseStep, AuthStep
<1>3. BaseInv /\ AuthInv => TokenPermits BY CarriedPermits DEF TokenPermits
<1>4. QED BY <1>1, <1>2, <1>3, PTL DEF Spec

-----------------------------------------------------------------------------
(* SamplesRemaining: an enrollment belongs to one object, and the counts   *)
(* of the two agree.                                                       *)

\* The authenticator t, when the templates fin have been completed.
Enrolling(t, fin) ==
  /\ t.enroll # None => /\ t.enroll.tmpl \in t.used \ fin
                        /\ t.enroll.left \in Nat \ {0}
  /\ t.templates \subseteq fin /\ fin \subseteq t.used /\ t.used \subseteq Templates

Agrees(e, t, fin) ==
  /\ e.tmpl # None /\ (e.remaining = 0 <=> e.tmpl \in fin)
  /\ t.enroll # None /\ t.enroll.tmpl = e.tmpl => t.enroll.left = e.remaining

SampleInv ==
  /\ Enrolling(tok, finished)
  /\ \A c \in Clients :
       /\ enr[c].tmpl \in tok.used \cup {None}
       /\ heard[c] => Agrees(enr[c], tok, finished)
       /\ call[c] # None /\ call[c].api = "enroll_continue" => call[c].arg = enr[c].tmpl /\ enr[c].tmpl # None
       /\ \A d \in Clients \ {c} : enr[c].tmpl # None => enr[c].tmpl # enr[d].tmpl

LEMMA DropsAgrees ==
  ASSUME NEW t, NEW u, Drops(t, u), NEW fin, Enrolling(t, fin)
  PROVE  /\ fin \cup u.templates = fin /\ Enrolling(u, fin) /\ u.used = t.used
         /\ \A e : Agrees(e, t, fin) => Agrees(e, u, fin)
BY DEF Drops, Enrolling, Agrees

\* What an exchange does to the part of the authenticator that the argument is about.
LEMMA TakesEnroll ==
  ASSUME BaseInv, NEW c \in Clients, NEW k, NEW t, NEW heed, Takes(c, k, t, heed)
  PROVE  /\ tok'.enroll = t.enroll /\ tok'.used = t.used /\ tok'.templates = t.templates
         /\ finished' = finished \cup t.templates
         /\ \A d \in Clients : call'[d] # None =>
              call[d] # None /\ call'[d].api = call[d].api /\ call'[d].arg = call[d].arg
<1>1. /\ Same(t, tok', {"fresh", "auth"}) /\ finished' = finished \cup t.templates
      /\ call'[c] = k /\ (k # None => About(call[c], k))
      /\ \A d \in Clients \ {c} : Other(call[d], call'[d])
  BY TakesIs
<1>2. tok'.enroll = t.enroll /\ tok'.used = t.used /\ tok'.templates = t.templates
  BY <1>1 DEF Same, Fields
<1>3. call[c] # None BY DEF Takes
<1>4. QED BY <1>1, <1>2, <1>3 DEF Other, About

LEMMA EnrollingAlso ==
  ASSUME NEW t, NEW u, u.enroll = t.enroll, u.used = t.used, u.templates = t.templates, NEW fin
  PROVE  (Enrolling(u, fin) <=> Enrolling(t, fin)) /\ \A e : Agrees(e, u, fin) <=> Agrees(e, t, fin)
BY DEF Enrolling, Agrees

\* An exchange that at most ends the enrollment.
LEMMA DropsSample ==
  ASSUME BaseInv, SampleInv, NEW c \in Clients, NEW k, NEW t, NEW heed, Takes(c, k, t, heed), Drops(tok, t),
         \A d \in Clients :
           /\ \/ enr'[d].tmpl = enr[d].tmpl
              \/ d = c /\ enr'[d].tmpl = None /\ call[c].api # "enroll_continue"
           /\ heard'[d] => heard[d] /\ enr'[d].tmpl = enr[d].tmpl /\ enr'[d].remaining = enr[d].remaining
  PROVE  SampleInv'
<1>1. /\ tok'.enroll = t.enroll /\ tok'.used = t.used /\ tok'.templates = t.templates
      /\ finished' = finished \cup t.templates
      /\ \A d \in Clients : call'[d] # None =>
           call[d] # None /\ call'[d].api = call[d].api /\ call'[d].arg = call[d].arg
  BY TakesEnroll
<1>2. /\ finished \cup t.templates = finished /\ Enrolling(t, finished) /\ t.used = tok.used
      /\ \A e : Agrees(e, tok, finished) => Agrees(e, t, finished)
  BY DropsAgrees DEF SampleInv
<1>3. finished' = finished /\ tok'.used = tok.used BY <1>1, <1>2
<1>4. Enrolling(tok', finished) /\ \A e : Agrees(e, tok, finished) => Agrees(e, tok', finished)
  BY <1>1, <1>2, EnrollingAlso
<1>5. ASSUME NEW d \in Clients, heard'[d] PROVE Agrees(enr'[d], tok', finished)
  <2>1. Agrees(enr[d], tok', finished) BY <1>4, <1>5 DEF SampleInv
  <2>2. enr'[d].tmpl = enr[d].tmpl /\ enr'[d].remaining = enr[d].remaining BY <1>5
  <2>3. QED BY <2>1, <2>2 DEF Agrees
<1>6. ASSUME NEW d \in Clients
      PROVE  /\ enr'[d].tmpl \in tok'.used \cup {None}
             /\ call'[d] # None /\ call'[d].api = "enroll_continue" => call'[d].arg = enr'[d].tmpl /\ enr'[d].tmpl # None
             /\ \A e \in Clients \ {d} : enr'[d].tmpl # None => enr'[d].tmpl # enr'[e].tmpl
  BY <1>1, <1>3 DEF SampleInv
<1>7. QED BY <1>3, <1>4, <1>5, <1>6 DEF SampleInv

\* An enrollment begins, for the object of client c if it reads the reply.
LEMMA BegunSample ==
  ASSUME BaseInv, SampleInv, NEW c \in Clients, NEW k, NEW t, NEW heed, Takes(c, k, t, heed),
         call[c].api = "enroll_begin", NEW x \in Templates \ tok.used,
         t.enroll = [tmpl |-> x, left |-> Samples], t.used = tok.used \cup {x}, t.templates = tok.templates,
         \A d \in Clients \ {c} : enr'[d] = enr[d] /\ heard'[d] = heard[d],
         \/ ~heard'[c] /\ enr'[c].tmpl = None
         \/ enr'[c].tmpl = x /\ enr'[c].remaining = Samples
  PROVE  SampleInv'
<1>1. /\ tok'.enroll = t.enroll /\ tok'.used = t.used /\ tok'.templates = t.templates
      /\ finished' = finished \cup t.templates
      /\ \A d \in Clients : call'[d] # None =>
           call[d] # None /\ call'[d].api = call[d].api /\ call'[d].arg = call[d].arg
  BY TakesEnroll
<1>2. x # None /\ x \notin finished /\ Samples \in Nat \ {0}
  BY AuthenticatorAssumption DEF SampleInv, Enrolling
<1>3. finished' = finished BY <1>1 DEF SampleInv, Enrolling
<1>4. Enrolling(t, finished) BY <1>2 DEF SampleInv, Enrolling
<1>5. Enrolling(tok', finished) BY <1>1, <1>4, EnrollingAlso
<1>6. ASSUME NEW d \in Clients, heard'[d] PROVE Agrees(enr'[d], tok', finished)
  <2>1. CASE d = c BY <1>1, <1>2, <1>6, <2>1 DEF Agrees
  <2>2. CASE d # c
    <3>1. enr'[d] = enr[d] /\ Agrees(enr[d], tok, finished) /\ enr[d].tmpl # x
      BY <1>2, <1>6, <2>2 DEF SampleInv
    <3>2. QED BY <1>1, <3>1 DEF Agrees
  <2>3. QED BY <2>1, <2>2
<1>7. ASSUME NEW d \in Clients
      PROVE  /\ enr'[d].tmpl \in tok'.used \cup {None}
             /\ call'[d] # None /\ call'[d].api = "enroll_continue" => call'[d].arg = enr'[d].tmpl /\ enr'[d].tmpl # None
             /\ \A e \in Clients \ {d} : enr'[d].tmpl # None => enr'[d].tmpl # enr'[e].tmpl
  <2>1. \A e \in Clients : enr[e].tmpl # x BY <1>2 DEF SampleInv
  <2>2. QED BY <1>1, <2>1 DEF SampleInv
<1>8. QED BY <1>3, <1>5, <1>6, <1>7 DEF SampleInv

\* The enrollment of client c goes on, with n samples left.
LEMMA ContinuedSample ==
  ASSUME BaseInv, SampleInv, NEW c \in Clients, NEW k, NEW t, NEW heed, Takes(c, k, t, heed),
         call[c].api = "enroll_continue", tok.enroll # None, tok.enroll.tmpl = call[c].arg,
         NEW n, t.used = tok.used,
         \/ n = 0 /\ t.enroll = None /\ t.templates = tok.templates \cup {call[c].arg}
         \/ /\ n \in Nat \ {0} /\ t.enroll.tmpl = call[c].arg /\ t.enroll.left = n
            /\ t.templates = tok.templates,
         \A d \in Clients \ {c} : enr'[d] = enr[d] /\ heard'[d] = heard[d],
         enr'[c].tmpl = enr[c].tmpl, heard'[c] => enr'[c].remaining = n
  PROVE  SampleInv'
<1>1. /\ tok'.enroll = t.enroll /\ tok'.used = t.used /\ tok'.templates = t.templates
      /\ finished' = finished \cup t.templates
      /\ \A d \in Clients : call'[d] # None =>
           call[d] # None /\ call'[d].api = call[d].api /\ call'[d].arg = call[d].arg
  BY TakesEnroll
<1> DEFINE x == call[c].arg
<1>2. x = enr[c].tmpl /\ x # None /\ x \in tok.used \ finished
  BY DEF SampleInv, Enrolling, Takes
<1>3. \A d \in Clients \ {c} : enr[d].tmpl # x BY <1>2 DEF SampleInv
<1> HIDE DEF x
<1>4. /\ n = 0 => finished' = finished \cup {x} /\ t.enroll = None
      /\ n # 0 => finished' = finished /\ t.enroll.tmpl = x /\ t.enroll.left = n /\ n \in Nat \ {0}
  BY <1>1 DEF SampleInv, Enrolling, x
<1>5. Enrolling(t, finished')
  <2>1. CASE n = 0 BY <1>1, <1>2, <1>4, <2>1 DEF SampleInv, Enrolling, x
  <2>2. CASE n # 0 BY <1>1, <1>2, <1>4, <2>2 DEF SampleInv, Enrolling, x
  <2>3. QED BY <2>1, <2>2
<1>6. Enrolling(tok', finished') BY <1>1, <1>5, EnrollingAlso
<1>7. ASSUME NEW d \in Clients, heard'[d] PROVE Agrees(enr'[d], tok', finished')
  <2>1. CASE d = c BY <1>1, <1>2, <1>4, <1>7, <2>1 DEF Agrees
  <2>2. CASE d # c
    <3>1. enr'[d] = enr[d] /\ Agrees(enr[d], tok, finished) /\ enr[d].tmpl # x
      BY <1>3, <1>7, <2>2 DEF SampleInv
    <3>2. QED BY <1>1, <1>4, <3>1 DEF Agrees
  <2>3. QED BY <2>1, <2>2
<1>8. ASSUME NEW d \in Clients
      PROVE  /\ enr'[d].tmpl \in tok'.used \cup {None}
             /\ call'[d] # None /\ call'[d].api = "enroll_continue" => call'[d].arg = enr'[d].tmpl /\ enr'[d].tmpl # None
             /\ \A e \in Clients \ {d} : enr'[d].tmpl # None => enr'[d].tmpl # enr'[e].tmpl
  <2>1. \A e \in Clients : enr'[e].tmpl = enr[e].tmpl OBVIOUS
  <2>2. QED BY <1>1, <2>1 DEF SampleInv
<1>9. QED BY <1>6, <1>7, <1>8 DEF SampleInv

LEMMA QuietSample ==
  ASSUME BaseInv, SampleInv, NEW c \in Clients, NEW k, NEW t, Quiet(c, k, t),
         NEW S, enr' = enr \/ Keeps(c, S)
  PROVE  SampleInv'
<1>1. Drops(tok, t)
  <2>1. Same(tok, t, TokenFields) BY DEF Quiet
  <2>2. QED BY <2>1 DEF Same, Fields, TokenFields, Drops
<1>2. heard' = heard /\ (Takes(c, k, t, TRUE) \/ Takes(c, k, t, FALSE)) BY DEF Quiet
<1>3. \A d \in Clients : enr'[d].tmpl = enr[d].tmpl /\ enr'[d].remaining = enr[d].remaining BY DEF Keeps
<1>4. QED BY <1>1, <1>2, <1>3, DropsSample

\* Without an exchange: the authenticator forgets, or a device object is opened.
LEMMA ElsewhereSample ==
  ASSUME BaseInv, SampleInv, Drops(tok, tok'), UNCHANGED <<call, enr, heard, finished>> PROVE SampleInv'
<1>1. Enrolling(tok, finished) BY DEF SampleInv
<1>2. /\ Enrolling(tok', finished) /\ tok'.used = tok.used
      /\ \A e : Agrees(e, tok, finished) => Agrees(e, tok', finished)
  BY <1>1, DropsAgrees
<1>3. QED BY <1>2 DEF SampleInv

LEMMA OtherCommandDrops ==
  ASSUME NEW t, TokOK(t), NEW c, NEW k, NEW a \in CommandAnswers(t, c, k), ~SampleAsked(k)
  PROVE  Drops(t, a.tok)
<1>0. DOMAIN t = Fields BY DEF TokOK
<1>1. CASE k.api \in {"set_pin", "change_pin", "reset"} BY <1>0, <1>1, PinCommandIs
<1>2. CASE k.api \in {"rk", "rp", "assert"}
  <2>1. a.tok = Discard(t) \/ Same(t, a.tok, {"cursor"}) BY <1>0, <1>2, ListCommandIs
  <2>2. Same(t, a.tok, {"cursor"}) BY <1>0, <2>1, DiscardIs
  <2>3. QED BY <2>2, SameDrops
<1>3. CASE k.api \notin {"rk", "rp", "assert", "enroll_begin", "enroll_continue",
                         "set_pin", "change_pin", "reset"}
  BY <1>0, <1>3, PlainCommandIs
<1>4. QED BY <1>1, <1>2, <1>3 DEF SampleAsked

\* What the answer to a command does to the counts, if the object that is given it
\* takes the answer or is cleared.
LEMMA AnswerSample ==
  ASSUME BaseInv, SampleInv, NEW c \in Clients, NEW a \in CommandAnswers(tok, c, call[c]),
         NEW k, NEW heed, Takes(c, k, a.tok, heed),
         \A d \in Clients \ {c} : enr'[d] = enr[d] /\ heard'[d] = heard[d],
         \/ a.reply.ok /\ enr'[c] = EnrollReported(call[c], enr[c], a.reply)
            /\ (heard'[c] => heard[c] \/ SampleAsked(call[c]))
         \/ Voided(call[c], enr[c], enr'[c]) /\ (heard'[c] => heard[c] /\ ~SampleAsked(call[c]))
  PROVE  SampleInv'
<1>0. TokOK(tok) /\ DOMAIN tok = Fields /\ DOMAIN enr[c] = {"token", "tmpl", "remaining"}
  BY DEF BaseInv, TokOK
<1> DEFINE d == Discard(tok)
<1>1. Same(tok, d, {"cursor"}) /\ TokOK(d) BY <1>0, DiscardIs, DiscardOK
<1>2. DOMAIN d = Fields /\ (d.enroll # None => DOMAIN d.enroll = {"tmpl", "left"}) BY <1>1 DEF TokOK
<1>3. d.enroll = tok.enroll /\ d.used = tok.used /\ d.templates = tok.templates BY <1>1 DEF Same, Fields
<1>4. Discard(d) = d /\ Drops(tok, d)
  <2>1. Discard(d) = d BY <1>0 DEF Discard
  <2>2. Drops(tok, d) BY <1>1, SameDrops
  <2>3. QED BY <2>1, <2>2
<1> HIDE DEF d
<1>5. CASE ~SampleAsked(call[c])
  <2>1. Drops(tok, a.tok) BY <1>0, <1>5, OtherCommandDrops
  <2>2. enr'[c] = enr[c] /\ (heard'[c] => heard[c])
    BY <1>5 DEF EnrollReported, EnrollCleared, SampleAsked, Voided
  <2>3. QED BY <2>1, <2>2, DropsSample
<1>6. CASE call[c].api = "enroll_begin"
  <2>0. SampleAsked(call[c]) BY <1>6 DEF SampleAsked
  <2>1. CASE a.tok = d /\ ~a.reply.ok
    <3>1. enr'[c].tmpl = None /\ ~heard'[c] BY <1>0, <1>6, <2>0, <2>1 DEF Voided, EnrollCleared, EnrollPartly
    <3>2. Takes(c, k, d, heed) /\ call[c].api # "enroll_continue" BY <1>6, <2>1
    <3>3. QED BY <1>4, <3>1, <3>2, DropsSample
  <2>2. CASE a \in BeginEnroll(d)
    <3>1. PICK x \in Templates \ d.used :
            /\ Same(d, a.tok, {"enroll", "used"})
            /\ a.tok.enroll = [tmpl |-> x, left |-> Samples] /\ a.tok.used = d.used \cup {x}
            /\ a.reply.ok /\ a.reply.tmpl = x /\ a.reply.left = Samples
      BY <1>2, <2>2, BeginEnrollIs
    <3>2. a.tok.templates = tok.templates /\ a.tok.used = tok.used \cup {x} /\ x \in Templates \ tok.used
      BY <1>3, <3>1 DEF Same, Fields
    <3>3. \/ enr'[c].tmpl = x /\ enr'[c].remaining = Samples
          \/ enr'[c].tmpl = None /\ ~heard'[c]
      BY <1>0, <1>6, <2>0, <3>1 DEF EnrollReported, Voided, EnrollCleared, EnrollPartly
    <3>4. QED BY <1>6, <3>1, <3>2, <3>3, BegunSample
  <2>3. QED BY <1>0, <1>6, <2>1, <2>2, EnrollCommandIs DEF d
<1>7. CASE call[c].api = "enroll_continue"
  <2>0. SampleAsked(call[c]) BY <1>7 DEF SampleAsked
  <2>1. CASE a.tok = d /\ ~a.reply.ok
    <3>1. enr'[c].tmpl = enr[c].tmpl /\ ~heard'[c] BY <1>0, <1>7, <2>0, <2>1 DEF Voided, EnrollCleared, EnrollPartly
    <3>2. Takes(c, k, d, heed) BY <2>1
    <3>3. QED BY <1>4, <3>1, <3>2, DropsSample
  <2>2. CASE a \in ContinueEnroll(d, call[c].arg)
    <3> DEFINE x == call[c].arg
    <3>1. \/ a.tok = Discard(d) /\ ~a.reply.ok
          \/ /\ d.enroll # None /\ d.enroll.tmpl = x /\ a.reply.ok
             /\ \/ a.tok = d /\ a.reply.left = d.enroll.left
                \/ /\ d.enroll.left = 1 /\ a.reply.left = d.enroll.left - 1
                   /\ Same(d, a.tok, {"enroll", "templates"})
                   /\ a.tok.enroll = None /\ a.tok.templates = d.templates \cup {x}
                \/ /\ d.enroll.left # 1 /\ a.reply.left = d.enroll.left - 1
                   /\ Same(d, a.tok, {"enroll"}) /\ DOMAIN a.tok.enroll = {"tmpl", "left"}
                   /\ a.tok.enroll.tmpl = x /\ a.tok.enroll.left = d.enroll.left - 1
      BY <1>2, <2>2, ContinueEnrollIs
    <3>2. CASE a.tok = Discard(d) /\ ~a.reply.ok BY <1>4, <2>1, <3>2
    <3>3. CASE ~(a.tok = Discard(d) /\ ~a.reply.ok)
      <4>1. tok.enroll # None /\ tok.enroll.tmpl = x BY <1>3, <3>1, <3>3
      <4>2. tok.enroll.left \in Nat \ {0} BY <4>1 DEF SampleInv, Enrolling
      <4>3. /\ enr'[c].tmpl = enr[c].tmpl
            /\ heard'[c] => enr'[c].remaining = a.reply.left
        BY <1>0, <1>7, <2>0 DEF EnrollReported, Voided, EnrollCleared, EnrollPartly
      <4>4. /\ a.tok.used = tok.used
            /\ \/ a.reply.left = 0 /\ a.tok.enroll = None /\ a.tok.templates = tok.templates \cup {x}
               \/ /\ a.reply.left \in Nat \ {0} /\ a.tok.enroll.tmpl = x /\ a.tok.enroll.left = a.reply.left
                  /\ a.tok.templates = tok.templates
        <5>1. CASE a.tok = d /\ a.reply.left = d.enroll.left BY <1>3, <4>1, <4>2, <5>1
        <5>2. CASE /\ d.enroll.left = 1 /\ a.reply.left = d.enroll.left - 1
                   /\ Same(d, a.tok, {"enroll", "templates"})
                   /\ a.tok.enroll = None /\ a.tok.templates = d.templates \cup {x}
          BY <1>3, <5>2 DEF Same, Fields
        <5>3. CASE /\ d.enroll.left # 1 /\ a.reply.left = d.enroll.left - 1
                   /\ Same(d, a.tok, {"enroll"})
                   /\ a.tok.enroll.tmpl = x /\ a.tok.enroll.left = d.enroll.left - 1
          <6>1. a.tok.used = d.used /\ a.tok.templates = d.templates BY <5>3 DEF Same, Fields
          <6>2. d.enroll.left - 1 \in Nat \ {0} BY <1>3, <4>2, <5>3
          <6>3. QED BY <1>3, <5>3, <6>1, <6>2
        <5>4. QED BY <3>1, <3>3, <5>1, <5>2, <5>3
      <4>5. QED BY <1>7, <4>1, <4>3, <4>4, ContinuedSample
    <3>4. QED BY <3>2, <3>3
  <2>3. QED BY <1>0, <1>7, <2>1, <2>2, EnrollCommandIs DEF d
<1>8. QED BY <1>5, <1>6, <1>7 DEF SampleAsked

LEMMA BeginsSample == ASSUME BaseInv, SampleInv, NEW c \in Clients, Begins(c) PROVE SampleInv'
<1>1. UNCHANGED <<tok, enr, heard, finished>> BY DEF Begins, history
<1>2. CASE UNCHANGED call BY <1>1, <1>2 DEF SampleInv
<1>3. CASE ~UNCHANGED call
  <2>1. PICK k \in Asked \cup {EnrollContinue(enr[c].tmpl)} :
          /\ ~InvalidArgument(flags[c], k, enr[c]) /\ About(k, call'[c])
          /\ \A d \in Clients \ {c} : call'[d] = call[d]
    BY <1>3 DEF Begins
  <2>2. k.api = "enroll_continue" => k.arg = enr[c].tmpl BY AskedIsWell
  <2>3. call'[c].api = "enroll_continue" => call'[c].arg = enr[c].tmpl /\ enr[c].tmpl # None
    BY <2>1, <2>2 DEF About, InvalidArgument
  <2>4. QED BY <1>1, <2>1, <2>3 DEF SampleInv
<1>4. QED BY <1>2, <1>3

LEMMA SampleStep == ASSUME BaseInv, SampleInv, [Next]_vars PROVE SampleInv'
<1>0. TokOK(tok) /\ DOMAIN tok = Fields BY DEF BaseInv, TokOK
<1>9. Drops(tok, Discard(tok)) /\ Drops(tok, tok)
  <2>1. Same(tok, Discard(tok), {"cursor"}) BY <1>0, DiscardIs
  <2>2. QED BY <1>0, <2>1, SameDrops DEF Drops
<1>1. CASE UNCHANGED vars BY <1>1 DEF SampleInv, vars, objects, history
<1>2. CASE TimersRunOut
  <2>1. Drops(tok, tok')
    <3>1. Same(tok, tok', {"cursor", "auth", "enroll"}) /\ tok'.enroll \in {tok.enroll, None}
      BY <1>0, <1>2, ForgetsIs DEF TimersRunOut
    <3>2. QED BY <3>1 DEF Same, Fields, Drops
  <2>2. QED BY <1>2, <2>1, ElsewhereSample DEF TimersRunOut, objects, history
<1>3. ASSUME NEW c \in Clients, Open(c) \/ OpenFallsBack(c) PROVE SampleInv'
  <2>1. Drops(tok, tok') /\ UNCHANGED <<call, enr, heard, finished>>
    BY <1>3, <1>9 DEF Open, OpenFallsBack
  <2>2. QED BY <2>1, ElsewhereSample
<1>4. ASSUME NEW c \in Clients, FreeEnroll(c) PROVE SampleInv'
  <2>1. /\ UNCHANGED <<tok, call, finished>> /\ call[c] = None
        /\ \A d \in Clients : IF d = c THEN enr'[d].tmpl = None /\ heard'[d] = FALSE
                              ELSE enr'[d] = enr[d] /\ heard'[d] = heard[d]
    BY <1>4 DEF FreeEnroll, BaseInv, NoEnroll
  <2>2. QED BY <2>1 DEF SampleInv
<1>5. ASSUME NEW c \in Clients, Call(c) PROVE SampleInv' BY <1>5, CallIs, BeginsSample
<1>6. ASSUME NEW c \in Clients, KeyExchange(c) \/ NoProtocol(c) PROVE SampleInv'
  <2>1. enr' = enr BY <1>6, KeyExchangeIs
  <2>2. PICK k, t : Quiet(c, k, t) BY <1>6, KeyExchangeIs
  <2>3. QED BY <2>1, <2>2, QuietSample
<1>7. ASSUME NEW c \in Clients, PinRequired(c) \/ GetUvToken(c) PROVE SampleInv'
  <2>1. PICK S : Keeps(c, S) BY <1>7, TokenStepIs
  <2>2. PICK k, t : Quiet(c, k, t) BY <1>7, TokenStepIs
  <2>3. QED BY <2>1, <2>2, QuietSample
<1>8. ASSUME NEW c \in Clients, Command(c) PROVE SampleInv'
  <2>1. PICK a, k : Answered(c, a, k) BY <1>8, CommandIs
  <2>2. /\ a \in CommandAnswers(tok, c, call[c]) /\ Takes(c, k, a.tok, TRUE)
        /\ \A d \in Clients \ {c} : enr'[d] = enr[d] /\ heard'[d] = heard[d]
    BY <2>1 DEF Answered, Only
  <2>3. \/ a.reply.ok /\ enr'[c] = EnrollReported(call[c], enr[c], a.reply)
           /\ (heard'[c] => heard[c] \/ SampleAsked(call[c]))
        \/ Voided(call[c], enr[c], enr'[c]) /\ (heard'[c] => heard[c] /\ ~SampleAsked(call[c]))
    BY <2>1 DEF Answered, Only, Voided
  <2>4. QED BY <2>2, <2>3, AnswerSample
<1>10. ASSUME NEW c \in Clients, CommandUnsent(c) \/ CommandUnread(c) PROVE SampleInv'
  <2>1. CASE enr' = enr /\ Quiet(c, None, tok) BY <2>1, QuietSample
  <2>2. ASSUME NEW t, Unread(c, t) PROVE SampleInv'
    <3>1. /\ Takes(c, None, t, FALSE)
          /\ t = tok \/ \E a \in CommandAnswers(tok, c, call[c]) : t = a.tok
          /\ \A d \in Clients \ {c} : enr'[d] = enr[d] /\ heard'[d] = heard[d]
          /\ Voided(call[c], enr[c], enr'[c]) /\ (heard'[c] => heard[c] /\ ~SampleAsked(call[c]))
      BY <2>2 DEF Unread, Only
    <3>2. CASE t = tok
      <4>1. DOMAIN enr[c] = {"token", "tmpl", "remaining"} BY DEF BaseInv
      <4>2. /\ enr'[c].tmpl = enr[c].tmpl \/ (enr'[c].tmpl = None /\ call[c].api # "enroll_continue")
            /\ heard'[c] => heard[c] /\ enr'[c].tmpl = enr[c].tmpl /\ enr'[c].remaining = enr[c].remaining
        BY <3>1, <4>1 DEF Voided, EnrollCleared, EnrollPartly, SampleAsked
      <4>3. Drops(tok, t) BY <1>9, <3>2
      <4>4. QED BY <3>1, <4>2, <4>3, DropsSample
    <3>3. ASSUME NEW a \in CommandAnswers(tok, c, call[c]), t = a.tok PROVE SampleInv'
      <4>1. Takes(c, None, a.tok, FALSE) BY <3>1, <3>3
      <4>2. QED BY <3>1, <4>1, AnswerSample
    <3>4. QED BY <3>1, <3>2, <3>3
  <2>3. QED BY <1>10, <2>1, <2>2, CommandLostIs
<1>11. ASSUME NEW c \in Clients, NextRequest(c) PROVE SampleInv'
  <2>1. enr' = enr /\ heard' = heard BY <1>11, NextRequestIs
  <2>2. \A a \in Continue(tok, call[c].api) : Drops(tok, a.tok) BY <1>0, NextServed
  <2>3. ASSUME NEW a, NEW k, Continued(c, a, k) PROVE SampleInv'
    <3>1. Takes(c, k, a.tok, TRUE) /\ Drops(tok, a.tok) BY <2>2, <2>3 DEF Continued
    <3>2. QED BY <2>1, <3>1, DropsSample
  <2>4. ASSUME NEW t, t = tok \/ \E a \in Continue(tok, call[c].api) : t = a.tok, Takes(c, None, t, FALSE)
        PROVE SampleInv'
    <3>1. Drops(tok, t) BY <1>9, <2>2, <2>4
    <3>2. QED BY <2>1, <2>4, <3>1, DropsSample
  <2>5. QED BY <1>11, <2>3, <2>4, NextRequestIs
<1>12. QED BY <1>1, <1>2, <1>3, <1>4, <1>5, <1>6, <1>7, <1>8, <1>10, <1>11 DEF Next

\* The samples that an enrollment object says remain are those the authenticator
\* waits for, and it says none exactly when the template is complete, if the last
\* reply was read: for any number of clients that enroll, cancel, remove and reset
\* in between, of samples, and of replies lost.
THEOREM SamplesRemainingAlways == Spec => []SamplesRemaining
<1>1. Init => BaseInv /\ SampleInv
  <2> SUFFICES ASSUME Init PROVE BaseInv /\ SampleInv OBVIOUS
  <2>1. PICK a \in Kinds, pin \in Pins \cup {None} :
          tok = [perms |-> a.perms, final |-> a.final, pin |-> pin, retries |-> MaxRetries,
                 fresh |-> {}, auth |-> {}, cursor |-> None, enroll |-> None,
                 creds |-> Ids, templates |-> {}, used |-> {}]
    BY DEF Init
  <2>2. tok.enroll = None /\ tok.used = {} /\ tok.templates = {} BY <2>1
  <2>3. QED BY <2>2, BaseInit DEF Init, SampleInv, Enrolling, NoEnroll
<1>2. BaseInv /\ SampleInv /\ [Next]_vars => (BaseInv /\ SampleInv)' BY BaseStep, SampleStep
<1>3. SampleInv => SamplesRemaining BY DEF SampleInv, SamplesRemaining, Agrees
<1>4. QED BY <1>1, <1>2, <1>3, PTL DEF Spec

-----------------------------------------------------------------------------
(* EntriesOfOneCall and ListIsStored: the loop that reads a list has in    *)
(* the object what the authenticator has shown, and not what it will show. *)

ListApis == {"rk", "rp", "assert"}

InLoop(k) == k # None /\ k.stage = "next"

Whole(l) == DOMAIN l = {"of", "n_alloc", "n_rx", "got"}

OneCall(l) ==
  /\ l.n_rx = Cardinality(l.got)
  /\ l.of[1] \in {"rk", "assert"} => l.got \subseteq {id \in Ids : RpOf[id] = l.of[2]}

\* The list l of call k, when the authenticator t may still be in its enumeration.
Reads(k, l, t) ==
  t.cursor # None /\ t.cursor.api = k.api =>
    /\ t.cursor.rest \cap l.got = {} /\ l.got \cup t.cursor.rest = Stored(t, k)
    /\ l.n_alloc = Cardinality(Stored(t, k))

ListInv ==
  \A c \in Clients :
    /\ Whole(list[c]) /\ (~mixed[c] => OneCall(list[c]))
    /\ call[c] # None => ret[c] = "none"
    /\ InLoop(call[c]) =>
         /\ call[c].api \in ListApis /\ list[c].of = <<call[c].api, call[c].arg>>
         /\ ~mixed[c] => Reads(call[c], list[c], tok)
         /\ \A d \in Clients \ {c} : InLoop(call[d]) /\ call[d].api = call[c].api => mixed[c]

LEMMA StoredFinite ==
  ASSUME NEW t, t.creds \subseteq Ids, NEW k, k.api \in ListApis
  PROVE  IsFiniteSet(Stored(t, k))
<1>1. IsFiniteSet(t.creds) BY AuthenticatorAssumption, FS_Subset
<1>2. CredsOf(t, k.arg) \in SUBSET t.creds BY DEF CredsOf
<1>3. IsFiniteSet(CredsOf(t, k.arg)) BY <1>1, <1>2, FS_Subset
<1>4. IsFiniteSet(RpsOf(t))
  <2> DEFINE f == [id \in t.creds |-> RpOf[id]]
  <2>1. f \in Surjection(t.creds, RpsOf(t)) BY DEF Surjection, RpsOf
  <2> HIDE DEF f
  <2>2. QED BY <1>1, <2>1, FS_Surjection
<1>5. QED BY <1>3, <1>4 DEF Stored, ListApis

LEMMA StoredAlike ==
  ASSUME NEW t, NEW u, u.creds = t.creds, NEW k, k.api \in ListApis, NEW k2, k2.api = k.api, k2.arg = k.arg
  PROVE  Stored(u, k2) = Stored(t, k)
BY DEF Stored, CredsOf, RpsOf, ListApis

LEMMA ReadsAlike ==
  ASSUME NEW t, NEW u, u.creds = t.creds, u.cursor \in {None, t.cursor},
         NEW k, k.api \in ListApis, NEW k2, k2.api = k.api, k2.arg = k.arg, NEW l, Reads(k, l, t)
  PROVE  Reads(k2, l, u)
<1>1. Stored(u, k2) = Stored(t, k) BY StoredAlike
<1>2. QED BY <1>1 DEF Reads

LEMMA FullIsAll ==
  ASSUME NEW S, IsFiniteSet(S), NEW G, G \subseteq S, NEW l, l.got = G, l.n_rx = Cardinality(G),
         l.n_alloc = Cardinality(S), ~More(l)
  PROVE  G = S /\ l.n_rx = l.n_alloc
<1>1. Cardinality(G) <= Cardinality(S) /\ IsFiniteSet(G) /\ (Cardinality(S) = Cardinality(G) => S = G)
  BY FS_Subset
<1>2. Cardinality(G) \in Nat /\ Cardinality(S) \in Nat BY <1>1, FS_CardinalityType
<1>3. QED BY <1>1, <1>2 DEF More

\* The first reply of a call that reads a list.
LEMMA FirstIs ==
  ASSUME NEW t, TokOK(t), NEW c, NEW k, WellAsked(k), NEW a \in CommandAnswers(t, c, k), a.reply.ok, IsList(k)
  PROVE  LET l == First(k, a.reply) IN
         /\ Whole(l) /\ l.of = <<k.api, k.arg>> /\ OneCall(l)
         /\ k.api \in ListApis => Reads(k, l, a.tok)
         /\ ~More(l) => l.got = Stored(a.tok, k) /\ l.n_alloc = l.n_rx
<1> DEFINE l == First(k, a.reply)
           S == Stored(t, k)
<1>0. DOMAIN t = Fields /\ t.creds \subseteq Ids BY DEF TokOK
<1>1. CASE k.api = "template_array"
  <2>1. a.reply.entries = t.templates /\ a.tok.templates = t.templates
    BY <1>0, <1>1, PlainCommandIs
  <2>2. /\ l.of = <<k.api, k.arg>> /\ l.got = t.templates /\ Whole(l)
        /\ l.n_rx = Cardinality(t.templates) /\ l.n_alloc = l.n_rx
    BY <1>1, <2>1 DEF First, WholeArray, ResetList, NoList, Whole
  <2>3. Stored(a.tok, k) = t.templates BY <1>1, <2>1 DEF Stored
  <2> HIDE DEF l
  <2>4. l.of[1] = "template_array" BY <1>1, <2>2
  <2>5. QED BY <1>1, <2>2, <2>3, <2>4 DEF OneCall, ListApis, l
<1>2. CASE k.api \in ListApis
  <2>0. IsFiniteSet(S) BY <1>0, <1>2, StoredFinite
  <2> HIDE DEF S
  <2>1. CASE /\ a.tok = Discard(t) /\ a.reply.entries = {} /\ a.reply.total = 0
             /\ k.api = "rp" /\ S = {}
    <3>1. /\ Whole(l) /\ l.of = <<k.api, k.arg>> /\ l.n_alloc = 0 /\ l.n_rx = 0 /\ l.got = {}
      BY <2>1 DEF First, RpFirst, RkFirst, ResetList, NoList, Whole
    <3> HIDE DEF l
    <3>2. a.tok.cursor = None /\ a.tok.creds = t.creds BY <1>0, <2>1, DiscardIs DEF Same, Fields
    <3>3. Stored(a.tok, k) = {} BY <1>2, <2>1, <3>2, StoredAlike DEF S
    <3>4. OneCall(l) /\ Reads(k, l, a.tok) BY <2>1, <3>1, <3>2, FS_EmptySet DEF OneCall, Reads
    <3>5. QED BY <3>1, <3>3, <3>4 DEF l
  <2>2. ASSUME NEW x \in S, Same(t, a.tok, {"cursor"}),
               a.tok.cursor = (IF S \ {x} = {} THEN None ELSE [api |-> k.api, rest |-> S \ {x}]),
               a.reply.entries = {x},
               \/ a.reply.total = Cardinality(S)
               \/ k.api = "assert" /\ Cardinality(S) = 1 /\ a.reply.total = 0
        PROVE  /\ Whole(l) /\ l.of = <<k.api, k.arg>> /\ OneCall(l) /\ Reads(k, l, a.tok)
               /\ ~More(l) => l.got = Stored(a.tok, k) /\ l.n_alloc = l.n_rx
    <3>1. Cardinality(S) \in Nat \ {0} BY <2>0, <2>2, FS_CardinalityType, FS_EmptySet
    <3>2. /\ Whole(l) /\ l.of = <<k.api, k.arg>> /\ l.n_alloc = Cardinality(S) /\ l.n_rx = 1
          /\ l.got = {x}
      <4>1. CASE k.api \in {"rk", "rp"}
        <5>1. a.reply.total # 0 /\ a.reply.total = Cardinality(S) BY <2>2, <3>1, <4>1
        <5>2. QED BY <2>2, <4>1, <5>1 DEF First, RpFirst, RkFirst, ResetList, NoList, Whole
      <4>2. CASE k.api = "assert"
        BY <2>2, <3>1, <4>2 DEF First, AssertFirst, ResetList, NoList, Whole
      <4>3. QED BY <1>2, <4>1, <4>2 DEF ListApis
    <3> HIDE DEF l
    <3>3. a.tok.creds = t.creds BY <2>2 DEF Same, Fields
    <3>4. Stored(a.tok, k) = S BY <1>2, <3>3, StoredAlike DEF S
    <3>5. Cardinality({x}) = 1 BY FS_Singleton
    <3>6. l.of[1] \in {"rk", "assert"} => l.got \subseteq {id \in Ids : RpOf[id] = l.of[2]}
      BY <1>0, <2>2, <3>2 DEF S, Stored, CredsOf
    <3>7. Reads(k, l, a.tok) BY <2>2, <3>2, <3>4 DEF Reads
    <3>8. ~More(l) => l.got = S /\ l.n_rx = l.n_alloc
      <4>1. /\ l.got \subseteq S /\ l.n_rx = Cardinality(l.got) /\ l.n_alloc = Cardinality(S)
        BY <3>2, <3>5
      <4>2. QED BY <2>0, <4>1, FullIsAll
    <3>9. QED BY <3>2, <3>4, <3>5, <3>6, <3>7, <3>8 DEF OneCall
  <2>3. \/ /\ a.tok = Discard(t) /\ a.reply.entries = {} /\ a.reply.total = 0
           /\ k.api = "rp" /\ S = {}
        \/ \E x \in S :
             /\ Same(t, a.tok, {"cursor"})
             /\ a.tok.cursor = (IF S \ {x} = {} THEN None ELSE [api |-> k.api, rest |-> S \ {x}])
             /\ a.reply.entries = {x}
             /\ \/ a.reply.total = Cardinality(S)
                \/ k.api = "assert" /\ Cardinality(S) = 1 /\ a.reply.total = 0
    BY <1>0, <1>2, ListCommandIs DEF ListApis, S
  <2> HIDE DEF l
  <2>4. QED BY <2>1, <2>2, <2>3 DEF l
<1>3. QED BY <1>1, <1>2 DEF IsList, ListApis

\* The reply with the next entry.
LEMMA NextIs ==
  ASSUME NEW t, TokOK(t), NEW k, k.api \in ListApis, NEW a \in Continue(t, k.api), a.reply.ok,
         NEW l, Whole(l), l.of = <<k.api, k.arg>>, OneCall(l), Reads(k, l, t)
  PROVE  LET l2 == NextEntry(l, a.reply) IN
         /\ OneCall(l2) /\ Reads(k, l2, a.tok)
         /\ ~More(l2) => l2.got = Stored(a.tok, k) /\ l2.n_alloc = l2.n_rx
<1> DEFINE l2 == NextEntry(l, a.reply)
           S == Stored(t, k)
<1>0. DOMAIN t = Fields /\ t.creds \subseteq Ids /\ (t.cursor # None => DOMAIN t.cursor = {"api", "rest"})
  BY DEF TokOK
<1>1. PICK x \in t.cursor.rest :
        /\ Same(t, a.tok, {"cursor"})
        /\ \/ t.cursor.rest = {x} /\ a.tok.cursor = None
           \/ /\ t.cursor.rest # {x} /\ DOMAIN a.tok.cursor = {"api", "rest"}
              /\ a.tok.cursor.api = k.api /\ a.tok.cursor.rest = t.cursor.rest \ {x}
        /\ a.reply.ok /\ a.reply.entries = {x}
  BY <1>0, ContinueIs
<1>2. t.cursor # None /\ t.cursor.api = k.api BY <1>0, ContinueIs
<1>3. IsFiniteSet(S) BY <1>0, StoredFinite
<1>4. t.cursor.rest \cap l.got = {} /\ l.got \cup t.cursor.rest = S /\ l.n_alloc = Cardinality(S)
  BY <1>2 DEF Reads
<1>5. a.tok.creds = t.creds BY <1>1 DEF Same, Fields
<1>6. Stored(a.tok, k) = S BY <1>5, StoredAlike
<1>7. l.of[1] \in {"rk", "assert"} => S \subseteq {id \in Ids : RpOf[id] = l.of[2]}
  BY <1>0 DEF Stored, CredsOf
<1> HIDE DEF S
<1>8. /\ l2.of = l.of /\ l2.n_alloc = l.n_alloc /\ l2.n_rx = l.n_rx + 1 /\ l2.got = l.got \cup {x}
  BY <1>1 DEF NextEntry, Whole
<1> HIDE DEF l2
<1>9. x \in S /\ x \notin l.got /\ l.got \subseteq S BY <1>1, <1>4
<1>10. Cardinality(l2.got) = l2.n_rx
  <2>1. IsFiniteSet(l.got) BY <1>3, <1>9, FS_Subset
  <2>2. Cardinality(l.got \cup {x}) = Cardinality(l.got) + 1 BY <1>9, <2>1, FS_AddElement
  <2>3. QED BY <1>8, <2>2 DEF OneCall
<1>11. OneCall(l2) BY <1>7, <1>8, <1>9, <1>10 DEF OneCall
<1>12. Reads(k, l2, a.tok) BY <1>1, <1>4, <1>6, <1>8 DEF Reads
<1>13. ~More(l2) => l2.got = S /\ l2.n_rx = l2.n_alloc
  <2>1. l2.got \subseteq S /\ l2.n_rx = Cardinality(l2.got) /\ l2.n_alloc = Cardinality(S)
    BY <1>4, <1>8, <1>9, <1>10
  <2>2. QED BY <1>3, <2>1, FullIsAll
<1>14. QED BY <1>6, <1>11, <1>12, <1>13 DEF l2

\* A command that does not begin an enumeration ends the one there is.
LEMMA OtherCommandEnds ==
  ASSUME NEW t, TokOK(t), NEW c, NEW k, NEW a \in CommandAnswers(t, c, k), k.api \notin ListApis
  PROVE  a.tok.cursor = None
<1>0. DOMAIN t = Fields BY DEF TokOK
<1>1. CASE k.api \in {"set_pin", "change_pin", "reset"} BY <1>0, <1>1, PinCommandIs DEF Ended
<1>2. CASE k.api \in {"enroll_begin", "enroll_continue"}
  <2> DEFINE d == Discard(t)
  <2>1. DOMAIN d = Fields /\ d.cursor = None /\ Discard(d) = d /\ d.enroll = t.enroll BY <1>0 DEF Discard, Fields
  <2>2. d.enroll # None => DOMAIN d.enroll = {"tmpl", "left"} BY <2>1 DEF TokOK
  <2> HIDE DEF d
  <2>3. CASE a.tok = d BY <2>1, <2>3
  <2>4. CASE a \in BeginEnroll(d)
    <3>1. PICK x \in Templates \ d.used :
            /\ Same(d, a.tok, {"enroll", "used"})
            /\ a.tok.enroll = [tmpl |-> x, left |-> Samples] /\ a.tok.used = d.used \cup {x}
            /\ a.reply.ok /\ a.reply.tmpl = x /\ a.reply.left = Samples
      BY <2>1, <2>4, BeginEnrollIs
    <3>2. QED BY <2>1, <3>1 DEF Same, Fields
  <2>5. CASE a \in ContinueEnroll(d, k.arg)
    <3>1. \/ a.tok = Discard(d)
          \/ a.tok = d
          \/ Same(d, a.tok, {"enroll", "templates"})
          \/ Same(d, a.tok, {"enroll"})
      BY <2>1, <2>2, <2>5, ContinueEnrollIs
    <3>2. QED BY <2>1, <3>1 DEF Same, Fields
  <2>6. QED BY <1>2, <2>3, <2>4, <2>5, EnrollCommandIs DEF d
<1>3. CASE k.api \notin {"rk", "rp", "assert", "enroll_begin", "enroll_continue",
                         "set_pin", "change_pin", "reset"}
  BY <1>0, <1>3, PlainCommandIs
<1>4. QED BY <1>1, <1>2, <1>3 DEF ListApis

\* A command that begins an enumeration changes nothing that is stored.
LEMMA ListCommandKeeps ==
  ASSUME NEW t, TokOK(t), NEW c, NEW k, NEW a \in CommandAnswers(t, c, k), k.api \in ListApis
  PROVE  a.tok.creds = t.creds /\ (a.tok.cursor = None \/ a.tok.cursor.api = k.api)
<1>0. DOMAIN t = Fields BY DEF TokOK
<1>1. \/ a.tok = Discard(t)
      \/ \E x \in Stored(t, k) :
           /\ Same(t, a.tok, {"cursor"})
           /\ a.tok.cursor = (IF Stored(t, k) \ {x} = {} THEN None
                              ELSE [api |-> k.api, rest |-> Stored(t, k) \ {x}])
  BY <1>0, ListCommandIs DEF ListApis
<1>2. Same(t, Discard(t), {"cursor"}) /\ Discard(t).cursor = None BY <1>0, DiscardIs
<1>3. CASE a.tok = Discard(t) BY <1>2, <1>3 DEF Same, Fields
<1>4. ASSUME NEW x \in Stored(t, k), Same(t, a.tok, {"cursor"}),
             a.tok.cursor = (IF Stored(t, k) \ {x} = {} THEN None
                             ELSE [api |-> k.api, rest |-> Stored(t, k) \ {x}])
      PROVE  a.tok.creds = t.creds /\ (a.tok.cursor = None \/ a.tok.cursor.api = k.api)
  <2>1. a.tok.creds = t.creds BY <1>4 DEF Same, Fields
  <2>2. QED BY <1>4, <2>1
<1>5. QED BY <1>1, <1>3, <1>4

\* An exchange of client c, which leaves a list that is as it should be.
LEMMA TakesList ==
  ASSUME BaseInv, ListInv, NEW c \in Clients, NEW k, NEW t, NEW heed, Takes(c, k, t, heed),
         \A d \in Clients \ {c} : list'[d] = list[d] /\ ret'[d] = ret[d] /\ (mixed[d] => mixed'[d]),
         Whole(list'[c]), ~mixed'[c] => OneCall(list'[c]), k # None => ret'[c] = "none",
         \A d \in Clients \ {c} :
           InLoop(call[d]) /\ ~mixed'[d] /\ Reads(call[d], list[d], tok) => Reads(call[d], list[d], t),
         InLoop(k) => /\ k.api \in ListApis /\ list'[c].of = <<k.api, k.arg>>
                      /\ ~mixed'[c] => Reads(k, list'[c], t)
                      /\ \A d \in Clients \ {c} :
                           InLoop(call[d]) /\ call[d].api = k.api => mixed'[c] /\ mixed'[d]
  PROVE  ListInv'
<1>1. /\ Same(t, tok', {"fresh", "auth"}) /\ call'[c] = k
      /\ \A d \in Clients \ {c} : Other(call[d], call'[d])
  BY TakesIs
<1>2. tok'.creds = t.creds /\ tok'.cursor = t.cursor BY <1>1 DEF Same, Fields
<1>3. \A d \in Clients \ {c} : call'[d] # None =>
        /\ call[d] # None /\ call'[d].stage = call[d].stage
        /\ call'[d].api = call[d].api /\ call'[d].arg = call[d].arg
  BY <1>1 DEF Other, About
<1>4. \A d \in Clients \ {c} : InLoop(call'[d]) => InLoop(call[d]) BY <1>3 DEF InLoop
<1>5. ASSUME NEW d \in Clients \ {c}
      PROVE  /\ Whole(list'[d]) /\ (~mixed'[d] => OneCall(list'[d]))
             /\ call'[d] # None => ret'[d] = "none"
             /\ InLoop(call'[d]) =>
                  /\ call'[d].api \in ListApis /\ list'[d].of = <<call'[d].api, call'[d].arg>>
                  /\ ~mixed'[d] => Reads(call'[d], list'[d], tok')
                  /\ \A e \in Clients \ {d} : InLoop(call'[e]) /\ call'[e].api = call'[d].api => mixed'[d]
  <2>1. Whole(list'[d]) /\ (~mixed'[d] => OneCall(list'[d])) BY DEF ListInv
  <2>2. call'[d] # None => ret'[d] = "none" BY <1>3 DEF ListInv
  <2>3. ASSUME InLoop(call'[d])
        PROVE  /\ call'[d].api \in ListApis /\ list'[d].of = <<call'[d].api, call'[d].arg>>
               /\ ~mixed'[d] => Reads(call'[d], list'[d], tok')
               /\ \A e \in Clients \ {d} : InLoop(call'[e]) /\ call'[e].api = call'[d].api => mixed'[d]
    <3>1. InLoop(call[d]) /\ call'[d].api = call[d].api /\ call'[d].arg = call[d].arg
      BY <1>3, <1>4, <2>3 DEF InLoop
    <3>2. call[d].api \in ListApis /\ list'[d].of = <<call'[d].api, call'[d].arg>> BY <3>1 DEF ListInv
    <3>3. ASSUME ~mixed'[d] PROVE Reads(call'[d], list'[d], tok')
      <4>1. Reads(call[d], list[d], tok) BY <3>1, <3>3 DEF ListInv
      <4>2. Reads(call[d], list[d], t) BY <3>1, <3>3, <4>1
      <4>3. QED BY <1>2, <3>1, <3>2, <4>2, ReadsAlike
    <3>4. ASSUME NEW e \in Clients \ {d}, InLoop(call'[e]), call'[e].api = call'[d].api PROVE mixed'[d]
      <4>1. CASE e = c BY <1>1, <3>1, <3>4, <4>1
      <4>2. CASE e # c
        <5>1. InLoop(call[e]) /\ call[e].api = call[d].api BY <1>3, <1>4, <3>1, <3>4, <4>2 DEF InLoop
        <5>2. QED BY <3>1, <5>1 DEF ListInv
      <4>3. QED BY <4>1, <4>2
    <3>5. QED BY <3>1, <3>2, <3>3, <3>4
  <2>4. QED BY <2>1, <2>2, <2>3
<1>6. ASSUME InLoop(k)
      PROVE  /\ k.api \in ListApis /\ list'[c].of = <<k.api, k.arg>>
             /\ ~mixed'[c] => Reads(k, list'[c], tok')
             /\ \A e \in Clients \ {c} : InLoop(call'[e]) /\ call'[e].api = k.api => mixed'[c]
  <2>1. k.api \in ListApis /\ list'[c].of = <<k.api, k.arg>> BY <1>6
  <2>2. ~mixed'[c] => Reads(k, list'[c], tok') BY <1>2, <1>6, <2>1, ReadsAlike
  <2>3. ASSUME NEW e \in Clients \ {c}, InLoop(call'[e]), call'[e].api = k.api PROVE mixed'[c]
    <3>1. InLoop(call[e]) /\ call[e].api = k.api BY <1>3, <1>4, <2>3 DEF InLoop
    <3>2. QED BY <1>6, <3>1
  <2>4. QED BY <2>1, <2>2, <2>3
<1>7. QED BY <1>1, <1>5, <1>6 DEF ListInv

LEMMA QuietList ==
  ASSUME BaseInv, ListInv, NEW c \in Clients, NEW k, NEW t, Quiet(c, k, t) PROVE ListInv'
<1>1. Same(tok, t, TokenFields) /\ t.cursor \in {None, tok.cursor} /\ list' = list /\ mixed' = mixed BY DEF Quiet
<1>2. t.creds = tok.creds BY <1>1 DEF Same, Fields, TokenFields
<1>3. Takes(c, k, t, TRUE) \/ Takes(c, k, t, FALSE) BY DEF Quiet
<1>4. call[c] # None BY <1>3 DEF Takes
<1>5. (\A d \in Clients \ {c} : ret'[d] = ret[d]) /\ (k # None => ret'[c] = "none")
  BY <1>4 DEF Quiet, Only, ListInv
<1>6. ~InLoop(k) BY DEF Quiet, InLoop
<1>7. ASSUME NEW d \in Clients \ {c}, InLoop(call[d]), Reads(call[d], list[d], tok)
      PROVE  Reads(call[d], list[d], t)
  <2>1. call[d].api \in ListApis BY <1>7 DEF ListInv
  <2>2. QED BY <1>1, <1>2, <1>7, <2>1, ReadsAlike
<1>8. Whole(list'[c]) /\ (~mixed'[c] => OneCall(list'[c])) BY <1>1 DEF ListInv
<1>9. \A d \in Clients \ {c} : list'[d] = list[d] /\ ret'[d] = ret[d] /\ (mixed[d] => mixed'[d])
  BY <1>1, <1>5
<1>10. QED BY <1>3, <1>5, <1>6, <1>7, <1>8, <1>9, TakesList

\* The lists that a command disturbs.
LEMMA MixesIs ==
  ASSUME NEW c \in Clients, Mixes(c)
  PROVE  /\ \A d \in Clients \ {c} : mixed[d] => mixed'[d]
         /\ ~IsList(call[c]) /\ mixed[c] => mixed'[c]
         /\ call[c].api \in ListApis =>
              \A d \in Clients \ {c} :
                InLoop(call[d]) /\ call[d].api = call[c].api => mixed'[c] /\ mixed'[d]
<1>1. \A d \in Clients : mixed'[d] = IF d = c /\ IsList(call[c]) THEN Disturbed(c) # {}
                                     ELSE mixed[d] \/ d \in Disturbed(c)
  BY DEF Mixes
<1>2. call[c].api \in ListApis => IsList(call[c]) BY DEF ListApis, IsList
<1>3. call[c].api \in ListApis =>
        \A d \in Clients \ {c} : InLoop(call[d]) /\ call[d].api = call[c].api => d \in Disturbed(c)
  BY DEF ListApis, Disturbed, InLoop, Stage
<1>4. QED BY <1>1, <1>2, <1>3

\* What a command, answered or not, does to the lists that other clients read.
LEMMA CommandReads ==
  ASSUME BaseInv, ListInv, NEW c \in Clients, call[c] # None, Mixes(c),
         NEW t, t = tok \/ \E a \in CommandAnswers(tok, c, call[c]) : t = a.tok,
         NEW d \in Clients \ {c}, InLoop(call[d]), ~mixed'[d], Reads(call[d], list[d], tok)
  PROVE  Reads(call[d], list[d], t)
<1>1. CASE t = tok BY <1>1
<1>2. ASSUME NEW a \in CommandAnswers(tok, c, call[c]), t = a.tok PROVE Reads(call[d], list[d], t)
  <2>1. CASE call[c].api \notin ListApis
    <3>1. t.cursor = None BY <1>2, <2>1, OtherCommandEnds DEF BaseInv
    <3>2. QED BY <3>1 DEF Reads
  <2>2. CASE call[c].api \in ListApis
    <3>1. call[d].api # call[c].api BY <2>2, MixesIs
    <3>2. t.cursor = None \/ t.cursor.api = call[c].api BY <1>2, <2>2, ListCommandKeeps DEF BaseInv
    <3>3. QED BY <3>1, <3>2 DEF Reads
  <2>3. QED BY <2>1, <2>2
<1>3. QED BY <1>1, <1>2

LEMMA EmptyList ==
  ASSUME NEW k, IsList(k), NEW l,
         l = ResetList(k) \/ l = Refused(k)
  PROVE  Whole(l) /\ OneCall(l)
<1>1. Whole(l) /\ l.n_rx = 0 /\ l.got = {}
  BY DEF ResetList, Refused, NoList, IsList, Whole
<1>2. QED BY <1>1, FS_EmptySet DEF OneCall

LEMMA PartOfList ==
  ASSUME NEW k, IsList(k), NEW r, NEW l \in Malformed(k, r)
  PROVE  Whole(l) /\ OneCall(l)
<1> DEFINE f == First(k, r)
<1>1. PICK S \in IF k.api = "template_array" THEN SUBSET r.entries ELSE {{}} :
         l = [f EXCEPT !.n_rx = Cardinality(S), !.got = S]
  BY DEF Malformed
<1>2. DOMAIN f = {"of", "n_alloc", "n_rx", "got"} /\ f.of = <<k.api, k.arg>>
  BY DEF First, RkFirst, RpFirst, AssertFirst, WholeArray, ResetList, NoList, IsList
<1> HIDE DEF f
<1>3. Whole(l) /\ l.n_rx = Cardinality(S) /\ l.got = S /\ l.of = <<k.api, k.arg>>
  BY <1>1, <1>2 DEF Whole
<1>4. CASE k.api = "template_array" BY <1>3, <1>4 DEF OneCall
<1>5. CASE k.api # "template_array"
  <2>1. S = {} BY <1>1, <1>5
  <2>2. QED BY <1>3, <2>1 DEF OneCall
<1>6. QED BY <1>4, <1>5

LEMMA AnsweredList ==
  ASSUME BaseInv, ListInv, IsFiniteSet(tok.templates), NEW c \in Clients, NEW a, NEW k, Answered(c, a, k)
  PROVE  /\ ListInv'
         /\ IsList(call[c]) /\ call'[c] = None /\ ret'[c] = "ok" =>
              /\ list'[c].got = Stored(tok', call[c]) /\ list'[c].n_alloc = list'[c].n_rx
              /\ list'[c].n_rx = Cardinality(list'[c].got)
<1>1. a \in CommandAnswers(tok, c, call[c]) /\ Takes(c, k, a.tok, TRUE) /\ Mixes(c) BY DEF Answered
<1>2. /\ call[c] # None /\ WellAsked(call[c]) /\ TokOK(tok) /\ (k # None => About(call[c], k))
      /\ ret[c] = "none"
  BY <1>1 DEF Takes, BaseInv, ListInv
<1>3. (\A d \in Clients \ {c} : list'[d] = list[d] /\ ret'[d] = ret[d]) /\ (k # None => ret'[c] = "none")
  BY <1>2 DEF Answered, Only
<1>4. \A d \in Clients \ {c} : mixed[d] => mixed'[d] BY <1>1, MixesIs
<1>5. \A d \in Clients \ {c} :
        InLoop(call[d]) /\ ~mixed'[d] /\ Reads(call[d], list[d], tok) => Reads(call[d], list[d], a.tok)
  BY <1>1, <1>2, CommandReads
<1>6. \/ ~IsList(call[c]) /\ list'[c] = list[c]
      \/ IsList(call[c]) /\ ~a.reply.ok /\ list'[c] = Refused(call[c])
      \/ IsList(call[c]) /\ a.reply.ok /\ list'[c] = First(call[c], a.reply)
  BY DEF Answered, Only
<1> DEFINE l == First(call[c], a.reply)
<1>7. IsList(call[c]) /\ a.reply.ok =>
        /\ Whole(l) /\ l.of = <<call[c].api, call[c].arg>> /\ OneCall(l)
        /\ call[c].api \in ListApis => Reads(call[c], l, a.tok)
        /\ ~More(l) => l.got = Stored(a.tok, call[c]) /\ l.n_alloc = l.n_rx
  BY <1>1, <1>2, FirstIs
<1> HIDE DEF l
<1>8. Whole(list'[c]) /\ (~mixed'[c] => OneCall(list'[c]))
  <2>1. CASE ~IsList(call[c]) /\ list'[c] = list[c] BY <1>1, <2>1, MixesIs DEF ListInv
  <2>2. CASE IsList(call[c]) /\ ~a.reply.ok /\ list'[c] = Refused(call[c]) BY <2>2, EmptyList
  <2>3. CASE IsList(call[c]) /\ a.reply.ok /\ list'[c] = First(call[c], a.reply) BY <1>7, <2>3 DEF l
  <2>4. QED BY <1>6, <2>1, <2>2, <2>3
<1>9. ASSUME InLoop(k)
      PROVE  /\ k.api \in ListApis /\ list'[c].of = <<k.api, k.arg>>
             /\ ~mixed'[c] => Reads(k, list'[c], a.tok)
             /\ \A d \in Clients \ {c} : InLoop(call[d]) /\ call[d].api = k.api => mixed'[c] /\ mixed'[d]
  <2>1. IsList(call[c]) /\ a.reply.ok /\ More(l) BY <1>9 DEF Answered, InLoop, l
  <2>2. list'[c] = l BY <1>6, <2>1 DEF l
  <2>3. k.api = call[c].api /\ k.arg = call[c].arg BY <1>2, <1>9 DEF InLoop, About
  <2>4. call[c].api \in ListApis
    <3>1. ASSUME call[c].api = "template_array" PROVE FALSE
      <4>1. DOMAIN tok = Fields BY <1>2 DEF TokOK
      <4>2. a.reply.entries = tok.templates BY <1>1, <2>1, <3>1, <4>1, PlainCommandIs
      <4>3. l.n_rx = Cardinality(tok.templates) /\ l.n_alloc = l.n_rx
        BY <3>1, <4>2 DEF l, First, WholeArray, ResetList, NoList
      <4>4. Cardinality(tok.templates) \in Nat BY FS_CardinalityType
      <4>5. QED BY <2>1, <4>3, <4>4 DEF More
    <3>2. QED BY <2>1, <3>1 DEF IsList, ListApis
  <2>5. Reads(call[c], l, a.tok) BY <1>7, <2>1, <2>4
  <2>6. Reads(k, l, a.tok) BY <2>3, <2>4, <2>5, ReadsAlike
  <2>7. \A d \in Clients \ {c} : InLoop(call[d]) /\ call[d].api = k.api => mixed'[c] /\ mixed'[d]
    BY <1>1, <2>3, <2>4, MixesIs
  <2>8. QED BY <1>7, <2>1, <2>2, <2>3, <2>4, <2>6, <2>7
<1>10. ListInv' BY <1>1, <1>3, <1>4, <1>5, <1>8, <1>9, TakesList
<1>11. ASSUME IsList(call[c]), call'[c] = None, ret'[c] = "ok"
       PROVE  /\ list'[c].got = Stored(tok', call[c]) /\ list'[c].n_alloc = list'[c].n_rx
              /\ list'[c].n_rx = Cardinality(list'[c].got)
  <2>1. a.reply.ok /\ ~More(l) BY <1>2, <1>11 DEF Answered, Only, l
  <2>2. list'[c] = l /\ l.got = Stored(a.tok, call[c]) /\ l.n_alloc = l.n_rx /\ OneCall(l)
    BY <1>6, <1>7, <1>11, <2>1 DEF l
  <2>3. tok'.creds = a.tok.creds /\ tok'.templates = a.tok.templates
    <3>1. Same(a.tok, tok', {"fresh", "auth"}) BY <1>1, TakesIs
    <3>2. QED BY <3>1 DEF Same, Fields
  <2>4. Stored(tok', call[c]) = Stored(a.tok, call[c])
    BY <1>11, <2>3 DEF Stored, CredsOf, RpsOf, IsList
  <2>5. QED BY <2>2, <2>4 DEF OneCall
<1>12. QED BY <1>10, <1>11

LEMMA ContinuedList ==
  ASSUME BaseInv, ListInv, NEW c \in Clients, Stage(c) = "next", UNCHANGED mixed,
         NEW a, NEW k, Continued(c, a, k)
  PROVE  /\ ListInv'
         /\ call'[c] = None /\ ret'[c] = "ok" /\ ~mixed[c] =>
              /\ list'[c].got = Stored(tok', call[c]) /\ list'[c].n_alloc = list'[c].n_rx
              /\ list'[c].n_rx = Cardinality(list'[c].got)
<1>1. a \in Continue(tok, call[c].api) /\ Takes(c, k, a.tok, TRUE) BY DEF Continued
<1>2. /\ call[c] # None /\ TokOK(tok) /\ (k # None => About(call[c], k)) /\ ret[c] = "none" /\ InLoop(call[c])
  BY <1>1 DEF Takes, BaseInv, ListInv, InLoop, Stage
<1>3. /\ call[c].api \in ListApis /\ list[c].of = <<call[c].api, call[c].arg>> /\ Whole(list[c])
      /\ ~mixed[c] => OneCall(list[c]) /\ Reads(call[c], list[c], tok)
  BY <1>2 DEF ListInv
<1>4. (\A d \in Clients \ {c} : list'[d] = list[d] /\ ret'[d] = ret[d]) /\ (k # None => ret'[c] = "none")
  BY <1>2 DEF Continued, Only
<1> DEFINE l2 == NextEntry(list[c], a.reply)
<1>5. Whole(l2) /\ l2.of = list[c].of BY <1>3 DEF NextEntry, Whole
<1>6. a.reply.ok /\ ~mixed[c] =>
        /\ OneCall(l2) /\ Reads(call[c], l2, a.tok)
        /\ ~More(l2) => l2.got = Stored(a.tok, call[c]) /\ l2.n_alloc = l2.n_rx
  BY <1>1, <1>2, <1>3, NextIs
<1> HIDE DEF l2
<1>7. list'[c] = list[c] \/ (list'[c] = l2 /\ a.reply.ok) BY DEF Continued, Only, l2
<1>8. Whole(list'[c]) /\ (~mixed'[c] => OneCall(list'[c])) BY <1>3, <1>5, <1>6, <1>7
<1>9. ASSUME InLoop(k)
      PROVE  /\ k.api \in ListApis /\ list'[c].of = <<k.api, k.arg>>
             /\ ~mixed'[c] => Reads(k, list'[c], a.tok)
             /\ \A d \in Clients \ {c} : InLoop(call[d]) /\ call[d].api = k.api => mixed'[c] /\ mixed'[d]
  <2>1. a.reply.ok /\ list'[c] = l2 BY <1>9 DEF Continued, InLoop, Only, l2
  <2>2. k.api = call[c].api /\ k.arg = call[c].arg BY <1>2, <1>9 DEF InLoop, About
  <2>3. ~mixed'[c] => Reads(k, list'[c], a.tok)
    <3>1. ~mixed[c] => Reads(call[c], l2, a.tok) BY <1>6, <2>1
    <3>2. ~mixed[c] => Reads(k, l2, a.tok) BY <1>3, <2>2, <3>1, ReadsAlike
    <3>3. QED BY <2>1, <3>2
  <2>4. \A d \in Clients \ {c} : InLoop(call[d]) /\ call[d].api = k.api => mixed'[c] /\ mixed'[d]
    BY <1>2, <2>2 DEF ListInv
  <2>5. QED BY <1>3, <1>5, <2>1, <2>2, <2>3, <2>4
<1>10. ASSUME NEW d \in Clients \ {c}, InLoop(call[d]), ~mixed'[d], Reads(call[d], list[d], tok)
       PROVE  Reads(call[d], list[d], a.tok)
  <2>1. call[d].api # call[c].api BY <1>2, <1>10 DEF ListInv
  <2>2. a.tok.cursor = None \/ a.tok.cursor.api = call[c].api
    <3>1. DOMAIN tok = Fields /\ (tok.cursor # None => DOMAIN tok.cursor = {"api", "rest"})
      BY <1>2 DEF TokOK
    <3>2. Discard(tok).cursor = None BY <3>1, DiscardIs
    <3>3. QED BY <1>1, <3>1, <3>2, ContinueIs
  <2>3. QED BY <2>1, <2>2 DEF Reads
<1>11. ListInv' BY <1>1, <1>4, <1>8, <1>9, <1>10, TakesList
<1>12. ASSUME call'[c] = None, ret'[c] = "ok", ~mixed[c]
       PROVE  /\ list'[c].got = Stored(tok', call[c]) /\ list'[c].n_alloc = list'[c].n_rx
              /\ list'[c].n_rx = Cardinality(list'[c].got)
  <2>1. a.reply.ok /\ ~More(l2) /\ list'[c] = l2 BY <1>2, <1>12 DEF Continued, Only, l2
  <2>2. l2.got = Stored(a.tok, call[c]) /\ l2.n_alloc = l2.n_rx /\ OneCall(l2)
    BY <1>6, <1>12, <2>1
  <2>3. tok'.creds = a.tok.creds
    <3>1. Same(a.tok, tok', {"fresh", "auth"}) BY <1>1, TakesIs
    <3>2. QED BY <3>1 DEF Same, Fields
  <2>4. Stored(tok', call[c]) = Stored(a.tok, call[c]) BY <1>3, <2>3, StoredAlike
  <2>5. QED BY <2>1, <2>2, <2>4 DEF OneCall
<1>13. QED BY <1>11, <1>12

LEMMA LostList ==
  ASSUME BaseInv, ListInv, NEW c \in Clients, NEW t, Takes(c, None, t, FALSE), Only(ret, ret', c, "error"),
         \/ Unread(c, t)
         \/ /\ Stage(c) = "next" /\ UNCHANGED <<list, mixed>>
            /\ t = tok \/ \E a \in Continue(tok, call[c].api) : t = a.tok
  PROVE  ListInv'
<1>1. ~InLoop(None) BY DEF InLoop
<1>2. \A d \in Clients \ {c} : ret'[d] = ret[d] BY DEF Only
<1>3. call[c] # None BY DEF Takes
<1>4. CASE Unread(c, t)
  <2>1. Mixes(c) /\ (t = tok \/ \E a \in CommandAnswers(tok, c, call[c]) : t = a.tok) BY <1>4 DEF Unread
  <2>2. \A d \in Clients \ {c} : list'[d] = list[d] /\ (mixed[d] => mixed'[d])
    BY <1>4, <2>1, MixesIs DEF Unread, Only
  <2>3. Whole(list'[c]) /\ (~mixed'[c] => OneCall(list'[c]))
    <3>1. CASE ~IsList(call[c])
      <4>1. list'[c] = list[c] BY <1>4, <3>1 DEF Unread, Only
      <4>2. QED BY <2>1, <3>1, <4>1, MixesIs DEF ListInv
    <3>2. CASE IsList(call[c])
      <4>1. list'[c] = ResetList(call[c]) \/ \E r : list'[c] \in Malformed(call[c], r)
        BY <1>4, <3>2 DEF Unread, Only
      <4>2. QED BY <3>2, <4>1, EmptyList, PartOfList
    <3>3. QED BY <3>1, <3>2
  <2>4. \A d \in Clients \ {c} :
          InLoop(call[d]) /\ ~mixed'[d] /\ Reads(call[d], list[d], tok) => Reads(call[d], list[d], t)
    BY <1>3, <2>1, CommandReads
  <2>5. QED BY <1>1, <1>2, <2>2, <2>3, <2>4, TakesList
<1>5. CASE /\ Stage(c) = "next" /\ UNCHANGED <<list, mixed>>
           /\ t = tok \/ \E a \in Continue(tok, call[c].api) : t = a.tok
  <2>1. InLoop(call[c]) /\ TokOK(tok) BY <1>5 DEF InLoop, Stage, BaseInv
  <2>2. ASSUME NEW d \in Clients \ {c}, InLoop(call[d]), ~mixed'[d], Reads(call[d], list[d], tok)
        PROVE  Reads(call[d], list[d], t)
    <3>1. CASE t = tok BY <2>2, <3>1
    <3>2. ASSUME NEW a \in Continue(tok, call[c].api), t = a.tok PROVE Reads(call[d], list[d], t)
      <4>1. call[d].api # call[c].api BY <1>5, <2>1, <2>2 DEF ListInv
      <4>2. a.tok.cursor = None \/ a.tok.cursor.api = call[c].api
        <5>1. DOMAIN tok = Fields /\ (tok.cursor # None => DOMAIN tok.cursor = {"api", "rest"})
          BY <2>1 DEF TokOK
        <5>2. Discard(tok).cursor = None BY <5>1, DiscardIs
        <5>3. QED BY <5>1, <5>2, ContinueIs
      <4>3. QED BY <3>2, <4>1, <4>2 DEF Reads
    <3>3. QED BY <1>5, <3>1, <3>2
  <2>3. Whole(list'[c]) /\ (~mixed'[c] => OneCall(list'[c])) BY <1>5 DEF ListInv
  <2>4. \A d \in Clients \ {c} : list'[d] = list[d] /\ ret'[d] = ret[d] /\ (mixed[d] => mixed'[d])
    BY <1>2, <1>5
  <2>5. QED BY <1>1, <2>2, <2>3, <2>4, TakesList
<1>6. QED BY <1>4, <1>5

\* Without an exchange.
LEMMA ElsewhereList ==
  ASSUME ListInv, tok'.creds = tok.creds, tok'.cursor \in {None, tok.cursor}, UNCHANGED <<call, list, ret, mixed>>
  PROVE  ListInv'
<1>1. ASSUME NEW c \in Clients, InLoop(call[c]), ~mixed[c] PROVE Reads(call[c], list[c], tok')
  <2>1. call[c].api \in ListApis /\ Reads(call[c], list[c], tok) BY <1>1 DEF ListInv
  <2>2. QED BY <2>1, ReadsAlike
<1>2. QED BY <1>1 DEF ListInv

LEMMA BeginsList == ASSUME BaseInv, ListInv, NEW c \in Clients, Begins(c) PROVE ListInv'
<1>1. UNCHANGED <<tok, list, mixed>> /\ call[c] = None BY DEF Begins, history
<1>2. CASE UNCHANGED call /\ Only(ret, ret', c, "error")
  BY <1>1, <1>2 DEF ListInv, Only
<1>3. CASE ~(UNCHANGED call /\ Only(ret, ret', c, "error"))
  <2>1. PICK k : /\ call'[c].stage = FirstStage(flags[c], k) /\ Only(ret, ret', c, "none")
                 /\ \A d \in Clients \ {c} : call'[d] = call[d]
    BY <1>3 DEF Begins
  <2>2. ~InLoop(call'[c]) BY <2>1 DEF FirstStage, InLoop
  <2>3. ret'[c] = "none" /\ \A d \in Clients \ {c} : ret'[d] = ret[d] BY <2>1 DEF Only
  <2>4. \A d \in Clients : InLoop(call'[d]) => d # c /\ call'[d] = call[d] BY <2>1, <2>2
  <2>5. ASSUME NEW d \in Clients
        PROVE  /\ Whole(list'[d]) /\ (~mixed'[d] => OneCall(list'[d]))
               /\ call'[d] # None => ret'[d] = "none"
               /\ InLoop(call'[d]) =>
                    /\ call'[d].api \in ListApis /\ list'[d].of = <<call'[d].api, call'[d].arg>>
                    /\ ~mixed'[d] => Reads(call'[d], list'[d], tok')
                    /\ \A e \in Clients \ {d} : InLoop(call'[e]) /\ call'[e].api = call'[d].api => mixed'[d]
    BY <1>1, <2>1, <2>3, <2>4 DEF ListInv
  <2>6. QED BY <2>5 DEF ListInv
<1>4. QED BY <1>2, <1>3

\* What ListIsStored says of the call of client c in a step.
Delivers(c) ==
  (call[c] # None /\ IsList(call[c]) /\ call'[c] = None /\ ret'[c] = "ok" /\ ~mixed'[c])
    => /\ list'[c].got = Stored(tok', call[c]) /\ list'[c].n_alloc = list'[c].n_rx
       /\ list'[c].n_rx = Cardinality(list'[c].got)

LEMMA OthersDeliver ==
  ASSUME ListInv, NEW c \in Clients, ret'[c] = ret[c] \/ ret'[c] # "ok" \/ call[c] = None
  PROVE  Delivers(c)
BY DEF ListInv, Delivers

LEMMA ListStep ==
  ASSUME BaseInv, SampleInv, ListInv, [Next]_vars
  PROVE  ListInv' /\ \A c \in Clients : Delivers(c)
<1>0. TokOK(tok) /\ DOMAIN tok = Fields BY DEF BaseInv, TokOK
<1>1. Same(tok, Discard(tok), {"cursor"}) /\ Discard(tok).cursor = None BY <1>0, DiscardIs
<1>2. Discard(tok).creds = tok.creds BY <1>1 DEF Same, Fields
<1>3. CASE UNCHANGED vars
  <2>1. UNCHANGED <<tok, call, list, ret, mixed>> BY <1>3 DEF vars, objects, history
  <2>2. QED BY <2>1, ElsewhereList, OthersDeliver
<1>4. CASE TimersRunOut
  <2>1. UNCHANGED <<call, list, ret, mixed>> /\ tok' \in Forgets(tok)
    BY <1>4 DEF TimersRunOut, objects, history
  <2>2. Same(tok, tok', {"cursor", "auth", "enroll"}) /\ tok'.cursor = None BY <1>0, <2>1, ForgetsIs
  <2>3. tok'.creds = tok.creds BY <2>2 DEF Same, Fields
  <2>4. QED BY <2>1, <2>2, <2>3, ElsewhereList, OthersDeliver
<1>5. ASSUME NEW c \in Clients, Open(c) \/ OpenFallsBack(c) \/ FreeEnroll(c)
      PROVE  ListInv' /\ \A d \in Clients : Delivers(d)
  <2>1. UNCHANGED <<call, list, ret, mixed>> /\ tok' \in {tok, Discard(tok)}
    BY <1>5 DEF Open, OpenFallsBack, FreeEnroll
  <2>2. tok'.creds = tok.creds /\ tok'.cursor \in {None, tok.cursor} BY <1>1, <1>2, <2>1
  <2>3. QED BY <2>1, <2>2, ElsewhereList, OthersDeliver
<1>6. ASSUME NEW c \in Clients, Call(c) PROVE ListInv' /\ \A d \in Clients : Delivers(d)
  <2>1. Begins(c) BY <1>6, CallIs
  <2>2. call[c] = None /\ \A d \in Clients \ {c} : ret'[d] = ret[d] BY <2>1 DEF Begins, Only
  <2>3. QED BY <2>1, <2>2, BeginsList, OthersDeliver
<1>7. ASSUME NEW c \in Clients, NEW k, NEW t, Quiet(c, k, t)
      PROVE  ListInv' /\ \A d \in Clients : Delivers(d)
  <2>1. \A d \in Clients : ret'[d] = ret[d] \/ ret'[d] # "ok" BY <1>7 DEF Quiet, Only
  <2>2. QED BY <1>7, <2>1, QuietList, OthersDeliver
<1>8. ASSUME NEW c \in Clients, KeyExchange(c) \/ NoProtocol(c)
      PROVE  ListInv' /\ \A d \in Clients : Delivers(d)
  <2>1. PICK k, t : Quiet(c, k, t) BY <1>8, KeyExchangeIs
  <2>2. QED BY <1>7, <2>1
<1>9. ASSUME NEW c \in Clients, PinRequired(c) \/ GetUvToken(c)
      PROVE  ListInv' /\ \A d \in Clients : Delivers(d)
  <2>1. PICK k, t : Quiet(c, k, t) BY <1>9, TokenStepIs
  <2>2. QED BY <1>7, <2>1
<1>10. ASSUME NEW c \in Clients, Command(c) PROVE ListInv' /\ \A d \in Clients : Delivers(d)
  <2>1. PICK a, k : Answered(c, a, k) BY <1>10, CommandIs
  <2>2. IsFiniteSet(tok.templates)
    <3>1. tok.templates \subseteq Templates BY DEF SampleInv, Enrolling
    <3>2. QED BY <3>1, AuthenticatorAssumption, FS_Subset
  <2>3. ListInv' BY <2>1, <2>2, AnsweredList
  <2>4. Delivers(c)
    <3>1. IsList(call[c]) /\ call'[c] = None /\ ret'[c] = "ok" =>
            /\ list'[c].got = Stored(tok', call[c]) /\ list'[c].n_alloc = list'[c].n_rx
            /\ list'[c].n_rx = Cardinality(list'[c].got)
      BY <2>1, <2>2, AnsweredList
    <3>2. QED BY <3>1 DEF Delivers
  <2>5. \A d \in Clients \ {c} : ret'[d] = ret[d] BY <2>1 DEF Answered, Only
  <2>6. QED BY <2>3, <2>4, <2>5, OthersDeliver
<1>11. ASSUME NEW c \in Clients, NEW t, Takes(c, None, t, FALSE), Only(ret, ret', c, "error"),
              \/ Unread(c, t)
              \/ /\ Stage(c) = "next" /\ UNCHANGED <<list, mixed>>
                 /\ t = tok \/ \E a \in Continue(tok, call[c].api) : t = a.tok
       PROVE  ListInv' /\ \A d \in Clients : Delivers(d)
  <2>1. \A d \in Clients : ret'[d] = ret[d] \/ ret'[d] # "ok" BY <1>11 DEF Only
  <2>2. ListInv' BY <1>11, LostList
  <2>3. QED BY <2>1, <2>2, OthersDeliver
<1>12. ASSUME NEW c \in Clients, CommandUnsent(c) \/ CommandUnread(c)
       PROVE  ListInv' /\ \A d \in Clients : Delivers(d)
  <2>1. CASE Quiet(c, None, tok) BY <1>7, <2>1
  <2>2. ASSUME NEW t, Unread(c, t) PROVE ListInv' /\ \A d \in Clients : Delivers(d)
    <3>1. Takes(c, None, t, FALSE) /\ Only(ret, ret', c, "error") BY <2>2 DEF Unread
    <3>2. QED BY <1>11, <2>2, <3>1
  <2>3. QED BY <1>12, <2>1, <2>2, CommandLostIs
<1>13. ASSUME NEW c \in Clients, NextRequest(c) PROVE ListInv' /\ \A d \in Clients : Delivers(d)
  <2>0. Stage(c) = "next" /\ UNCHANGED mixed BY <1>13, NextRequestIs
  <2>1. ASSUME NEW a, NEW k, Continued(c, a, k) PROVE ListInv' /\ \A d \in Clients : Delivers(d)
    <3>1. ListInv' BY <2>0, <2>1, ContinuedList
    <3>2. Delivers(c)
      <4>1. call'[c] = None /\ ret'[c] = "ok" /\ ~mixed[c] =>
              /\ list'[c].got = Stored(tok', call[c]) /\ list'[c].n_alloc = list'[c].n_rx
              /\ list'[c].n_rx = Cardinality(list'[c].got)
        BY <2>0, <2>1, ContinuedList
      <4>2. QED BY <2>0, <4>1 DEF Delivers
    <3>3. \A d \in Clients \ {c} : ret'[d] = ret[d] BY <2>1 DEF Continued, Only
    <3>4. QED BY <3>1, <3>2, <3>3, OthersDeliver
  <2>2. ASSUME NEW t, t = tok \/ \E a \in Continue(tok, call[c].api) : t = a.tok, Takes(c, None, t, FALSE),
               list' = list, Only(ret, ret', c, "error")
        PROVE  ListInv' /\ \A d \in Clients : Delivers(d)
    BY <1>11, <2>0, <2>2
  <2>3. QED BY <1>13, <2>1, <2>2, NextRequestIs
<1>14. QED BY <1>3, <1>4, <1>5, <1>6, <1>8, <1>9, <1>10, <1>12, <1>13 DEF Next

LEMMA ListInit == ASSUME Init PROVE BaseInv /\ SampleInv /\ ListInv
<1>1. PICK a \in Kinds, pin \in Pins \cup {None} :
        tok = [perms |-> a.perms, final |-> a.final, pin |-> pin, retries |-> MaxRetries,
               fresh |-> {}, auth |-> {}, cursor |-> None, enroll |-> None,
               creds |-> Ids, templates |-> {}, used |-> {}]
  BY DEF Init
<1>2. tok.enroll = None /\ tok.used = {} /\ tok.templates = {} BY <1>1
<1>3. SampleInv BY <1>2 DEF Init, SampleInv, Enrolling, NoEnroll
<1>4. ListInv
  <2>1. \A c \in Clients : call[c] = None /\ list[c] = NoList BY DEF Init
  <2>2. Whole(NoList) /\ NoList.got = {} /\ NoList.n_rx = 0 BY DEF NoList, Whole
  <2>3. OneCall(NoList) BY <2>2, FS_EmptySet DEF OneCall
  <2>4. QED BY <2>1, <2>2, <2>3 DEF ListInv, InLoop
<1>5. QED BY <1>3, <1>4, BaseInit

\* The entries of a list object are those of one call, whether that call
\* succeeded or broke off: for any credentials, any number of clients, and
\* whatever other calls, lost replies and timers come between its exchanges.
THEOREM EntriesOfOneCallAlways == Spec => []EntriesOfOneCall
<1>1. Init => BaseInv /\ SampleInv /\ ListInv BY ListInit
<1>2. BaseInv /\ SampleInv /\ ListInv /\ [Next]_vars => (BaseInv /\ SampleInv /\ ListInv)'
  BY BaseStep, SampleStep, ListStep
<1>3. ListInv => EntriesOfOneCall BY DEF ListInv, EntriesOfOneCall, OneCall
<1>4. QED BY <1>1, <1>2, <1>3, PTL DEF Spec

\* A call that returns FIDO_OK with a list has all that the authenticator stores
\* at that moment and nothing else, each entry once, although the list is read
\* in several exchanges without a lock.
THEOREM ListIsStoredAlways == Spec => ListIsStored
<1> DEFINE Inv == BaseInv /\ SampleInv /\ ListInv
           Stores ==
             \A c \in Clients :
               LET k == call[c] IN
               (k # None /\ IsList(k) /\ call'[c] = None /\ ret'[c] = "ok" /\ ~mixed'[c])
                 => /\ list'[c].got = Stored(tok', k)
                    /\ list'[c].n_rx = Cardinality(list'[c].got)
                    /\ list'[c].n_alloc = list'[c].n_rx
<1>1. Init => Inv BY ListInit
<1>2. Inv /\ [Next]_vars => Inv' BY BaseStep, SampleStep, ListStep
<1>3. Inv /\ [Next]_vars => Stores BY ListStep DEF Delivers
<1>4. QED BY <1>1, <1>2, <1>3, PTL DEF Spec, ListIsStored
=============================================================================
