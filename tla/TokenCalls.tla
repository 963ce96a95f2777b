----------------------------- MODULE TokenCalls -----------------------------
(***************************************************************************)
(* The functions of the library that ask an authenticator for something:   *)
(* credman.c, bio.c, pin.c, config.c, reset.c, and fido_dev_make_cred and  *)
(* fido_dev_get_assert of cred.c and assert.c.  A call is a few exchanges  *)
(* of a request and a reply: the authenticator's key (fido_do_ecdh), a     *)
(* PIN/UV token (fido_dev_get_uv_token), the command, and for a list one   *)
(* more exchange for each further entry.  An exchange is one step; other   *)
(* clients, and failures, come in between.                                 *)
(***************************************************************************)
EXTENDS Authenticator, DeviceInfo

CONSTANTS Kinds,        \* authenticators: [perms, final] of authenticatorGetInfo
          Topics,       \* sets of functions; a behaviour uses those of one set
          MaxCalls,     \* bounds the number of calls
          MaxFailures   \* bounds the number of requests and replies lost

ASSUME TokenCallsAssumption == Kinds \subseteq [perms : BOOLEAN, final : BOOLEAN]

VARIABLES
  topic,     \* the functions of this behaviour
  tok,       \* the authenticator
  flags,     \* dev->flags of each client
  call,      \* the call a client is in, or None
  list,      \* the result list: fido_credman_rk_t, _rp_t, fido_assert_t, template array
  enr,       \* fido_bio_enroll_t, and the fido_bio_template_t that goes with it
  ret,       \* what the last call returned, "none" while it has not
  calls, failures,   \* counters for MaxCalls and MaxFailures
  \* What happened, for the properties:
  mixed,     \* the list was read while another client read one of the same kind
  known,     \* no one else, and no lost reply, has set or removed the PIN since the open
  heard,     \* the reply to the last request for a sample was read
  finished   \* templates whose enrollment was completed

objects == <<flags, call, list, enr, ret>>
history == <<mixed, known, heard, finished>>
vars == <<topic, tok, objects, calls, failures, history>>

-----------------------------------------------------------------------------
(* The device object.                                                      *)

\* authenticatorGetInfo.  A preview authenticator has things in its reply that
\* the library does not know.
Options(t) ==
  <<Pair(String("uv"), Bool(t.templates # {}))>> \o
  (IF t.final THEN <<Pair(String("credMgmt"), Bool(TRUE)), Pair(String("bioEnroll"), Bool(t.templates # {}))>>
   ELSE <<>>) \o
  <<Pair(String("clientPin"), Bool(t.pin # None)), Pair(String("pinUvAuthToken"), Bool(t.perms))>> \o
  (IF t.final THEN <<>> ELSE <<Pair(String("credentialMgmtPreview"), Bool(TRUE))>>)

Algorithm == Map(<<Pair(String("alg"), Item("negint", 7)), Pair(String("type"), String("public-key"))>>)

InfoOf(t) ==
  Map(<<Pair(Uint(1), Array(<<String("U2F_V2"), String("FIDO_2_0")>>)),
        Pair(Uint(2), Array(<<String("credProtect"), String("hmac-secret")>>)),
        Pair(Uint(3), Bytes(16)), Pair(Uint(4), Map(Options(t))), Pair(Uint(5), Uint(1200)),
        Pair(Uint(6), Array(IF t.perms THEN <<Uint(2), Uint(1)>> ELSE <<Uint(1)>>))>> \o
      (IF t.final THEN <<Pair(Uint(10), Array(<<Algorithm>>))>> ELSE <<Pair(Uint(48), Bytes(2))>>))

Info(t) == [status |-> "ok", item |-> InfoOf(t)]

\* Not its reply: an error, or bytes that are no CBOR, in no order, or of a wrong type.
BadInfo ==
  {[status |-> "error", item |-> Map(<<>>)], [status |-> "ok", item |-> Item("none", 0)],
   [status |-> "ok", item |-> Map(<<Pair(Uint(6), Array(<<Uint(1)>>)), Pair(Uint(4), Map(<<>>))>>)],
   [status |-> "ok", item |-> Map(<<Pair(Uint(6), Map(<<>>))>>)],
   [status |-> "ok", item |-> Map(<<Pair(Uint(10), Array(<<Map(<<Pair(String("type"), Uint(0))>>)>>))>>)]}

\* What is left of the flags then.
BadFlags == {SetFlags(reply) : reply \in BadInfo}

FlagNames == {"PIN_SET", "PIN_UNSET", "UV_SET", "UV_UNSET", "TOKEN_PERMS", "CREDMAN", "CREDMAN_PRE",
              "BIO_SET", "BIO_UNSET", "CRED_PROT", "PIN_PROTOCOL1", "PIN_PROTOCOL2", "FALLBACK"}

PinIsSet(f) == (f \ {"PIN_UNSET"}) \cup {"PIN_SET"}
PinIsUnset(f) == (f \ {"PIN_SET"}) \cup {"PIN_UNSET"}

-----------------------------------------------------------------------------
(* The functions, as the calls they make of credman_tx, bio_tx and so on.  *)
(* tried: the call has cost a PIN attempt; crossed: another client has made *)
(* the authenticator drop the secret this call shares with it.             *)

Api(api, cmd, arg, rp) ==
  [api |-> api, cmd |-> cmd, arg |-> arg, rp |-> rp,
   pin |-> None, new |-> None, uv |-> FALSE, stage |-> "cmd", auth |-> None,
   tried |-> FALSE, crossed |-> FALSE]

GetMetadata == Api("metadata", "CRED_MGMT", None, None)
GetRk(rp)   == Api("rk", "CRED_MGMT", rp, rp)
GetRp       == Api("rp", "CRED_MGMT", None, None)
DelRk(id)   == Api("del_rk", "CRED_MGMT", id, None)
SetRk(id)   == Api("set_rk", "CRED_MGMT", id, None)

TemplateArray     == Api("template_array", "BIO_ENROLL", None, None)
SetTemplateName(x) == Api("set_name", "BIO_ENROLL", x, None)
EnrollBegin       == Api("enroll_begin", "BIO_ENROLL", None, None)
EnrollContinue(x) == Api("enroll_continue", "BIO_ENROLL", x, None)
EnrollCancel      == Api("enroll_cancel", "BIO_ENROLL", None, None)
EnrollRemove(x)   == Api("enroll_remove", "BIO_ENROLL", x, None)
BioInfo           == Api("bio_info", "BIO_ENROLL", None, None)

SetPin0(pin)    == [Api("set_pin", "CLIENT_PIN", None, None) EXCEPT !.new = pin]
ChangePin0(pin) == [Api("change_pin", "CLIENT_PIN", None, None) EXCEPT !.new = pin]
RetryCount      == Api("retries", "CLIENT_PIN", None, None)

Config      == Api("config", "CONFIG", None, None)
MakeCred(id) == Api("make_cred", "MAKECRED", id, RpOf[id])
GetAssert(rp) == Api("assert", "ASSERT", rp, rp)
DevReset    == Api("reset", "RESET", None, None)

\* The functions that take a PIN or NULL; those that take none; and the two
\* that refuse NULL.
WithPin == {GetMetadata, GetRp, TemplateArray, EnrollBegin, Config} \cup
           {GetRk(rp) : rp \in Rps} \cup {DelRk(id) : id \in Ids} \cup {SetRk(id) : id \in Ids} \cup
           {SetTemplateName(x) : x \in Templates} \cup {EnrollRemove(x) : x \in Templates}
WithUv == {[k EXCEPT !.uv = u] : k \in {MakeCred(id) : id \in Ids} \cup {GetAssert(rp) : rp \in Rps}, u \in BOOLEAN}
WithoutPin == {EnrollCancel, BioInfo, RetryCount, DevReset} \cup {SetPin0(p) : p \in Pins}

Asked == {[k EXCEPT !.pin = p] : k \in WithPin \cup WithUv, p \in Pins \cup {None}} \cup
         {[ChangePin0(p) EXCEPT !.pin = old] : p \in Pins, old \in Pins} \cup
         WithoutPin

\* The library returns without a request; for a token taken for a U2F token also
\* if it would have to speak a PIN protocol.
InvalidArgument(f, k, e) ==
  \/ ~IsFido2(f) /\ (k.cmd = "CRED_MGMT" \/ (k.cmd \in {"MAKECRED", "ASSERT"} /\ k.pin # None))
  \/ k.api = "enroll_continue" /\ PinProtocol(f) = 0
  \/ k.pin = None /\ k.api \in {"template_array", "set_name", "enroll_begin"}
  \/ k.api = "enroll_begin" /\ e.token # None
  \/ k.api = "enroll_continue" /\ (e.token = None \/ e.tmpl = None)

-----------------------------------------------------------------------------
(* Authentication of a command.                                            *)

\* The condition under which credman_tx, bio_tx, config_tx, fido_dev_make_cred_tx
\* and fido_dev_get_assert_tx get a PIN/UV token.
CredmanNeedsToken(f, k)  == k.cmd = "CRED_MGMT"
BioNeedsToken(f, k)      == k.cmd = "BIO_ENROLL" /\ k.pin # None
ConfigNeedsToken(f, k)   == k.cmd = "CONFIG" /\ (k.pin # None \/ {"TOKEN_PERMS", "UV_SET"} \subseteq f)
MakeCredNeedsToken(f, k) == k.cmd = "MAKECRED" /\ (k.pin # None \/ (k.uv /\ "TOKEN_PERMS" \in f))
AssertNeedsToken(f, k)   == k.cmd = "ASSERT" /\ (k.pin # None \/ (k.uv /\ "TOKEN_PERMS" \in f))

NeedsToken(f, k) ==
  \/ CredmanNeedsToken(f, k) \/ BioNeedsToken(f, k) \/ ConfigNeedsToken(f, k)
  \/ MakeCredNeedsToken(f, k) \/ AssertNeedsToken(f, k)

NeedsSecret(f, k) == NeedsToken(f, k) \/ k.api \in {"set_pin", "change_pin"}

\* encode_uv_permission.
UvPermission(cmd) ==
  CASE cmd = "ASSERT" -> "assert"
    [] cmd = "BIO_ENROLL" -> "bio"
    [] cmd = "CONFIG" -> "config"
    [] cmd = "MAKECRED" -> "make_cred"
    [] cmd = "CRED_MGMT" -> "cred_mgmt"

\* ctap21_uv_token_tx and ctap20_uv_token_tx: the subcommand, or no request at all.
UvTokenSubcmd(f, k) ==
  CASE k.pin # None -> IF "TOKEN_PERMS" \in f THEN 9 ELSE 5
    [] k.pin = None /\ {"TOKEN_PERMS", "UV_SET"} \subseteq f -> 6
    [] OTHER -> 0                                     \* FIDO_ERR_PIN_REQUIRED

\* Faulty variant: the relying party is left out.
WantedToken_NoRp(c, k) ==
  [of |-> c, use |-> IF k.api = "enroll_begin" THEN "enroll" ELSE "call",
   perm |-> UvPermission(k.cmd), rp |-> None]

WantedToken(c, k) ==
  [of |-> c, use |-> IF k.api = "enroll_begin" THEN "enroll" ELSE "call",
   perm |-> UvPermission(k.cmd), rp |-> k.rp]

TokenAnswers(t, c, k) ==
  IF UvTokenSubcmd(flags[c], k) = 6 THEN TokenUsingUv(t, WantedToken(c, k))
  ELSE TokenUsingPin(t, c, k.pin, WantedToken(c, k))

\* credman_get_cmd and bio_get_cmd: the command or its preview.
Preview(f, k) ==
  \/ k.cmd = "CRED_MGMT" /\ "CREDMAN" \notin f
  \/ k.cmd = "BIO_ENROLL" /\ f \cap {"BIO_SET", "BIO_UNSET"} = {}

Understood(t, c, k) == k.cmd \in {"CRED_MGMT", "BIO_ENROLL"} => Preview(flags[c], k) = ~t.final

\* What the authenticator asks of the token that comes with a command.
Adequate(a, k) ==
  /\ a.perm \in {"any", CASE k.cmd = "CRED_MGMT" -> "cred_mgmt" [] k.cmd = "BIO_ENROLL" -> "bio"
                          [] k.cmd = "CONFIG" -> "config" [] k.cmd = "MAKECRED" -> "make_cred"
                          [] OTHER -> "assert"}
  /\ CASE k.api \in {"metadata", "rp"} -> a.rp = None
       [] k.api = "rk" -> a.rp \in {None, k.arg}
       [] k.api \in {"del_rk", "set_rk"} -> a.rp \in {None, RpOf[k.arg]}
       [] k.api = "make_cred" -> a.perm = "any" \/ a.rp = RpOf[k.arg]
       [] k.api = "assert" -> a.perm = "any" \/ a.rp = k.arg
       [] OTHER -> TRUE

AuthRequired(t, k) ==
  \/ k.cmd = "CRED_MGMT"
  \/ k.cmd = "BIO_ENROLL" /\ k.api \notin {"bio_info", "enroll_cancel"}
  \/ k.cmd = "CONFIG" /\ Protected(t)
  \/ k.cmd = "MAKECRED" /\ t.pin # None

Authorized(t, c, k) ==
  /\ Understood(t, c, k)
  /\ IF k.auth = None THEN ~AuthRequired(t, k) ELSE k.auth \in t.auth /\ Adequate(k.auth, k)

-----------------------------------------------------------------------------
(* What the authenticator does for a command.                              *)

Effect(t, c, k) ==
  LET d == Discard(t) IN
  CASE k.api = "rk" -> Begin(t, "rk", CredsOf(t, k.arg))
    [] k.api = "rp" -> BeginRp(t)
    [] k.api = "assert" -> BeginAssert(t, k.arg)
    [] k.api = "del_rk" -> {Answer([d EXCEPT !.creds = @ \ {k.arg}], Ack) : x \in t.creds \cap {k.arg}}
    [] k.api = "make_cred" -> {Answer([d EXCEPT !.creds = @ \cup {k.arg}], Ack)}
    [] k.api = "template_array" -> {Answer(d, [Ack EXCEPT !.entries = t.templates])}
    [] k.api = "enroll_begin" -> BeginEnroll(d)
    [] k.api = "enroll_continue" -> ContinueEnroll(d, k.arg)
    [] k.api = "enroll_cancel" -> {Answer([d EXCEPT !.enroll = None], Ack)}
    [] k.api = "enroll_remove" -> {Answer([d EXCEPT !.templates = @ \ {k.arg}], Ack)}
    [] k.api = "set_pin" -> SetPin(t, c, k.new)
    [] k.api = "change_pin" -> ChangePin(t, c, k.pin, k.new)
    [] k.api = "reset" -> Reset(t)
    [] OTHER -> {Answer(d, Ack)}

\* Any command may be refused: the user did not consent, there is no room, ...
CommandAnswers(t, c, k) ==
  Refuses(t) \cup (IF Authorized(t, c, k) THEN Effect(t, c, k) ELSE {})

-----------------------------------------------------------------------------
(* Result objects, after a reply r, and after its loss or an error.        *)

NoList == [of |-> <<None, None>>, n_alloc |-> 0, n_rx |-> 0, got |-> {}]
NoEnroll == [token |-> None, tmpl |-> None, remaining |-> 0]

IsList(k) == k.api \in {"rk", "rp", "assert", "template_array"}

\* credman_reset_rk, credman_reset_rp, bio_reset_template_array, fido_assert_reset_rx.
ResetList(k) == [NoList EXCEPT !.of = <<k.api, k.arg>>]

\* A reply that gives no total has nothing to list.
RkFirst(k, r) ==
  IF r.total = 0 THEN ResetList(k)
  ELSE [ResetList(k) EXCEPT !.n_alloc = r.total, !.n_rx = 1, !.got = r.entries]
RpFirst(k, r) == RkFirst(k, r)

\* An assertion that gives no total is the only one.
AssertFirst(k, r) ==
  [ResetList(k) EXCEPT !.n_alloc = IF r.total = 0 THEN 1 ELSE r.total,
                       !.n_rx = 1, !.got = r.entries]

WholeArray(k, r) ==
  [ResetList(k) EXCEPT !.n_alloc = Cardinality(r.entries), !.n_rx = Cardinality(r.entries),
                       !.got = r.entries]

First(k, r) ==
  CASE k.api = "rk" -> RkFirst(k, r)
    [] k.api = "rp" -> RpFirst(k, r)
    [] k.api = "assert" -> AssertFirst(k, r)
    [] k.api = "template_array" -> WholeArray(k, r)

\* What a reply whose parsing fails may leave.  The total may have been taken; of the
\* entries, only a template array counts those before the one that is malformed.
\* Faulty variant: an entry is counted before it is parsed.
Malformed_Counted(k, r) == {[First(k, r) EXCEPT !.got = {}]}

Malformed(k, r) ==
  {[First(k, r) EXCEPT !.n_rx = Cardinality(S), !.got = S] :
     S \in IF k.api = "template_array" THEN SUBSET r.entries ELSE {{}}}

\* An error status: only fido_dev_get_assert_rx has made room for an assertion by then.
Refused(k) == [ResetList(k) EXCEPT !.n_alloc = IF k.api = "assert" THEN 1 ELSE 0]

NextEntry(l, r) == [l EXCEPT !.n_rx = @ + 1, !.got = @ \cup r.entries]

\* Faulty variants: the loop ends one entry early, or goes on one too long.
More_Short(l) == l.n_rx + 1 < l.n_alloc
More_Long(l)  == l.n_rx <= l.n_alloc

More(l) == l.n_rx < l.n_alloc

\* bio_rx_enroll_begin and bio_rx_enroll_continue, before the reply is there ...
EnrollCleared(k, e) ==
  CASE k.api = "enroll_begin" -> [e EXCEPT !.tmpl = None, !.remaining = 0]
    [] k.api = "enroll_continue" -> [e EXCEPT !.remaining = 0]
    [] OTHER -> e

\* ... with one that cannot be parsed to its end, or has no template id, ...
EnrollPartly(k, e, r) == [EnrollCleared(k, e) EXCEPT !.remaining = r.left]

\* ... and with a good one.  Faulty variant: only the first count is taken.
EnrollReported_Once(k, e, r) ==
  IF k.api = "enroll_begin" THEN [e EXCEPT !.tmpl = r.tmpl, !.remaining = r.left] ELSE e

EnrollReported(k, e, r) ==
  CASE k.api = "enroll_begin" -> [e EXCEPT !.tmpl = r.tmpl, !.remaining = r.left]
    [] k.api = "enroll_continue" -> [e EXCEPT !.remaining = r.left]
    [] OTHER -> e

\* fido_dev_set_pin_wait and fido_dev_reset_wait, after FIDO_OK.
\* Faulty variant: reset leaves the flags alone.
Patched_PinOnly(k, f) ==
  IF k.api \in {"set_pin", "change_pin"} /\ "PIN_UNSET" \in f THEN PinIsSet(f) ELSE f

Patched(k, f) ==
  CASE k.api \in {"set_pin", "change_pin"} /\ "PIN_UNSET" \in f -> PinIsSet(f)
    [] k.api = "reset" /\ "PIN_SET" \in f -> PinIsUnset(f)
    [] OTHER -> f

-----------------------------------------------------------------------------
Init ==
  /\ topic \in Topics
  /\ \E a \in Kinds, pin \in Pins \cup {None} :
       tok = [perms |-> a.perms, final |-> a.final, pin |-> pin, retries |-> MaxRetries,
              fresh |-> {}, auth |-> {}, cursor |-> None, enroll |-> None,
              creds |-> Ids, templates |-> {}, used |-> {}]
  /\ flags = [c \in Clients |-> SetFlags(Info(tok))]
  /\ call = [c \in Clients |-> None]
  /\ list = [c \in Clients |-> NoList]
  /\ enr = [c \in Clients |-> NoEnroll]
  /\ ret = [c \in Clients |-> "none"]
  /\ calls = 0 /\ failures = 0
  /\ mixed = [c \in Clients |-> FALSE]
  /\ known = [c \in Clients |-> TRUE]
  /\ heard = [c \in Clients |-> FALSE]
  /\ finished = {}

Stage(c) == IF call[c] = None THEN "idle" ELSE call[c].stage

Costs(t) == t.retries < tok.retries

\* A client keeps neither its secret nor a PIN/UV token longer than a call; what
\* no client has any more does not matter.
Forgotten(c, t) ==
  [t EXCEPT !.fresh = @ \ {c}, !.auth = {a \in @ : a.of # c \/ a.use = "enroll"}]

\* Calls that lose the secret they share with the authenticator, now t, to c.
Crossed(c, t) == {d \in Clients \ {c} : Stage(d) \in {"token", "cmd"} /\ d \in tok.fresh \ t.fresh}

\* The authenticator becomes t in a step of client c; if heed, c knows of it.
Becomes(c, t, heed) ==
  /\ tok' = IF call'[c] = None THEN Forgotten(c, t) ELSE t
  /\ known' = [d \in Clients |-> known[d] /\ ((d # c \/ ~heed) => (t.pin = None) = (tok.pin = None))]
  /\ finished' = finished \cup t.templates
  /\ UNCHANGED topic

\* Client c goes on with call k, or returns r.
CallOf(c, k, t) ==
  [d \in Clients |->
     IF d = c THEN k
     ELSE IF d \in Crossed(c, t) THEN [call[d] EXCEPT !.crossed = TRUE] ELSE call[d]]

Enters(c, k, t) ==
  /\ call' = CallOf(c, [k EXCEPT !.tried = @ \/ Costs(t)], t)
  /\ UNCHANGED ret

Return(c, r, t) ==
  /\ call' = CallOf(c, None, t)
  /\ ret' = [ret EXCEPT ![c] = r]

\* A request or its reply is lost: the authenticator is one of T.
Fails(c, T) ==
  /\ failures < MaxFailures /\ failures' = failures + 1
  /\ \E t \in T \cup {tok} : Return(c, "error", t) /\ Becomes(c, t, FALSE)

Toks(A) == {a.tok : a \in A}

\* fido_dev_open, again or by a new process; only the flags it reads matter here.
Open(c) ==
  /\ call[c] = None
  /\ tok' = Discard(tok)
  /\ flags' = [flags EXCEPT ![c] = SetFlags(Info(tok))]
  /\ known' = [known EXCEPT ![c] = TRUE]
  /\ UNCHANGED <<topic, call, list, enr, ret, calls, failures, mixed, heard, finished>>

\* The reply to authenticatorGetInfo is lost or spoilt, and U2F is tried.
OpenFallsBack(c) ==
  /\ call[c] = None
  /\ failures < MaxFailures /\ failures' = failures + 1
  /\ tok' \in {tok, Discard(tok)}
  /\ \E f \in BadFlags : flags' = [flags EXCEPT ![c] = f]
  /\ known' = [known EXCEPT ![c] = FALSE]
  /\ UNCHANGED <<topic, call, list, enr, ret, calls, mixed, heard, finished>>

\* fido_bio_enroll_free, and a new object.
FreeEnroll(c) ==
  /\ call[c] = None /\ enr[c] # NoEnroll
  /\ enr' = [enr EXCEPT ![c] = NoEnroll]
  /\ heard' = [heard EXCEPT ![c] = FALSE]
  /\ UNCHANGED <<topic, tok, flags, call, list, ret, calls, failures, mixed, known, finished>>

\* fido_dev_make_cred and fido_dev_get_assert go to u2f.c, which U2fCalls is about.
IsU2f(f, k) == ~IsFido2(f) /\ k.cmd \in {"MAKECRED", "ASSERT"} /\ k.pin = None

\* Each call that needs a secret agrees on a new one.
\* Faulty variant: a secret of an earlier call is used again.
FirstStage_NoExchange(f, k) == IF NeedsToken(f, k) THEN "token" ELSE "cmd"

FirstStage(f, k) == IF NeedsSecret(f, k) THEN "authkey" ELSE "cmd"

Call(c) ==
  /\ call[c] = None
  /\ calls < MaxCalls /\ calls' = calls + 1
  /\ \E k \in {a \in Asked \cup {EnrollContinue(enr[c].tmpl)} : a.api \in topic /\ ~IsU2f(flags[c], a)} :
       IF InvalidArgument(flags[c], k, enr[c])
       THEN UNCHANGED call /\ ret' = [ret EXCEPT ![c] = "error"]
       ELSE /\ call' = [call EXCEPT ![c] =
                 [k EXCEPT !.stage = FirstStage(flags[c], k),
                           !.auth = IF k.api = "enroll_continue" THEN enr[c].token ELSE None]]
            /\ ret' = [ret EXCEPT ![c] = "none"]
  /\ UNCHANGED <<topic, tok, flags, list, enr, failures, history>>

\* fido_do_ecdh.
KeyExchange(c) ==
  LET k == call[c]  A == KeyAgreement(tok, c) IN
  /\ Stage(c) = "authkey" /\ PinProtocol(flags[c]) # 0
  /\ \/ /\ \E t \in Toks(A) :
             /\ Enters(c, [k EXCEPT !.stage = IF NeedsToken(flags[c], k) THEN "token" ELSE "cmd"], t)
             /\ Becomes(c, t, TRUE)
        /\ UNCHANGED failures
     \/ Fails(c, Toks(A))
  /\ UNCHANGED <<flags, list, enr, calls, mixed, heard>>

\* cbor_encode_pin_opt fails, and nothing is sent.
NoProtocol(c) ==
  /\ Stage(c) = "authkey" /\ PinProtocol(flags[c]) = 0
  /\ Return(c, "error", tok) /\ Becomes(c, tok, TRUE)
  /\ UNCHANGED <<flags, list, enr, calls, failures, mixed, heard>>

\* fido_dev_get_uv_token.
PinRequired(c) ==
  /\ Stage(c) = "token" /\ UvTokenSubcmd(flags[c], call[c]) = 0
  /\ Return(c, "refused", tok) /\ Becomes(c, tok, TRUE)
  /\ UNCHANGED <<flags, list, enr, calls, failures, mixed, heard>>

GetUvToken(c) ==
  LET k == call[c]  A == TokenAnswers(tok, c, k)  given == Granted(tok, WantedToken(c, k)) IN
  /\ Stage(c) = "token" /\ UvTokenSubcmd(flags[c], k) # 0
  /\ \/ /\ \E a \in A :
             /\ IF a.reply.ok
                THEN /\ Enters(c, [k EXCEPT !.stage = "cmd", !.auth = given], a.tok)
                     /\ enr' = [enr EXCEPT ![c].token = IF k.api = "enroll_begin" THEN given ELSE @]
                ELSE Return(c, "refused", a.tok) /\ UNCHANGED enr
             /\ Becomes(c, a.tok, TRUE)
        /\ UNCHANGED failures
     \/ Fails(c, Toks(A)) /\ UNCHANGED enr
  /\ UNCHANGED <<flags, list, calls, mixed, heard>>

\* Clients in the middle of an enumeration of the kind that c begins.
Disturbed(c) ==
  IF call[c].api \in {"rk", "rp", "assert"}
  THEN {d \in Clients \ {c} : Stage(d) = "next" /\ call[d].api = call[c].api} ELSE {}

Mixes(c) ==
  mixed' = [d \in Clients |-> IF d = c /\ IsList(call[c]) THEN Disturbed(c) # {}
                              ELSE mixed[d] \/ d \in Disturbed(c)]

SampleAsked(k) == k.api \in {"enroll_begin", "enroll_continue"}

\* The command, its reply, and what the function does with it.
Command(c) ==
  LET k == call[c] IN
  /\ Stage(c) = "cmd"
  /\ \E a \in CommandAnswers(tok, c, k) :
       /\ IF a.reply.ok
          THEN /\ list' = [list EXCEPT ![c] = IF IsList(k) THEN First(k, a.reply) ELSE @]
               /\ enr' = [enr EXCEPT ![c] = EnrollReported(k, @, a.reply)]
               /\ flags' = [flags EXCEPT ![c] = Patched(k, @)]
               /\ IF IsList(k) /\ More(First(k, a.reply))
                  THEN Enters(c, [k EXCEPT !.stage = "next"], a.tok) ELSE Return(c, "ok", a.tok)
          ELSE /\ list' = [list EXCEPT ![c] = IF IsList(k) THEN Refused(k) ELSE @]
               /\ enr' = [enr EXCEPT ![c] = EnrollCleared(k, @)]
               /\ Return(c, "refused", a.tok) /\ UNCHANGED flags
       /\ Becomes(c, a.tok, TRUE)
       /\ heard' = [heard EXCEPT ![c] = IF SampleAsked(k) THEN a.reply.ok ELSE @]
  /\ Mixes(c)
  /\ UNCHANGED <<calls, failures>>

\* fido_tx fails, and nothing has been touched yet.
CommandUnsent(c) ==
  /\ Stage(c) = "cmd"
  /\ Fails(c, {})
  /\ UNCHANGED <<flags, list, enr, calls, mixed, heard>>

\* fido_rx fails, or the reply cannot be parsed.
CommandUnread(c) ==
  LET k == call[c]  A == CommandAnswers(tok, c, k)
      Spoilt == {a.reply : a \in {b \in A : b.reply.ok}} IN
  /\ Stage(c) = "cmd"
  /\ Fails(c, Toks(A))
  /\ IF IsList(k)
     THEN \E l \in {ResetList(k)} \cup UNION {Malformed(k, r) : r \in Spoilt} : list' = [list EXCEPT ![c] = l]
     ELSE UNCHANGED list
  /\ \E e \in {EnrollCleared(k, enr[c])} \cup
              {EnrollPartly(k, enr[c], r) : r \in IF SampleAsked(k) THEN Spoilt ELSE {}} :
       enr' = [enr EXCEPT ![c] = e]
  /\ heard' = [heard EXCEPT ![c] = @ /\ ~SampleAsked(k)]
  /\ Mixes(c)
  /\ UNCHANGED <<flags, calls>>

\* One turn of the loop of credman_get_rk_wait, credman_get_rp_wait or
\* fido_dev_get_assert_wait.
NextRequest(c) ==
  LET k == call[c]  A == Continue(tok, k.api) IN
  /\ Stage(c) = "next"
  /\ \/ /\ \E a \in A :
             /\ IF a.reply.ok
                THEN /\ list' = [list EXCEPT ![c] = NextEntry(@, a.reply)]
                     /\ IF More(NextEntry(list[c], a.reply)) THEN Enters(c, k, a.tok)
                        ELSE Return(c, "ok", a.tok)
                ELSE Return(c, "refused", a.tok) /\ UNCHANGED list
             /\ Becomes(c, a.tok, TRUE)
        /\ UNCHANGED failures
     \/ Fails(c, Toks(A)) /\ UNCHANGED list
  /\ UNCHANGED <<flags, enr, calls, mixed, heard>>

TimersRunOut ==
  /\ tok' \in Forgets(tok) \ {tok}
  /\ UNCHANGED <<topic, objects, calls, failures, history>>

Next ==
  \/ \E c \in Clients :
       \/ Open(c) \/ OpenFallsBack(c) \/ FreeEnroll(c) \/ Call(c)
       \/ KeyExchange(c) \/ NoProtocol(c) \/ PinRequired(c)
       \/ GetUvToken(c) \/ Command(c) \/ CommandUnsent(c) \/ CommandUnread(c) \/ NextRequest(c)
  \/ TimersRunOut

Spec == Init /\ [][Next]_vars

-----------------------------------------------------------------------------
(* Properties.                                                             *)

Enroll == [token : AuthToken \cup {None}, tmpl : Templates \cup {None}, remaining : 0 .. Samples]

\* Every variable has its type, and a list never has more entries than room
\* (n_rx <= n_alloc: the loops write entry n_rx of an array of n_alloc).
TypeOK ==
  /\ tok \in State
  /\ flags \in [Clients -> SUBSET FlagNames]
  /\ enr \in [Clients -> Enroll]
  /\ finished \subseteq tok.used
  /\ \A c \in Clients :
       /\ Stage(c) \in {"idle", "authkey", "token", "cmd", "next"}
       /\ list[c].n_alloc \in Nat /\ list[c].n_rx \in 0 .. list[c].n_alloc
       /\ list[c].got \subseteq Listed \cup Templates

\* What there is for a list of the kind of k.
Stored(t, k) ==
  CASE k.api \in {"rk", "assert"} -> CredsOf(t, k.arg)
    [] k.api = "rp" -> RpsOf(t)
    [] k.api = "template_array" -> t.templates

\* A call that returns FIDO_OK with a list has all that the authenticator stores
\* at that moment, and nothing else, each entry once, although it was read in
\* several exchanges without a lock or a position, and other clients, lost
\* replies and timers came in between.  (Two clients that read lists of the same
\* kind at the same time may get each other's entries.)
ListIsStored ==
  [][\A c \in Clients :
       LET k == call[c] IN
       (k # None /\ IsList(k) /\ call'[c] = None /\ ret'[c] = "ok" /\ ~mixed'[c])
         => /\ list'[c].got = Stored(tok', k)
            /\ list'[c].n_rx = Cardinality(list'[c].got)
            /\ list'[c].n_alloc = list'[c].n_rx]_vars

\* The entries of a list object, whether its call succeeded or broke off, are
\* those of one call: all different, of the relying party it asked for, and as
\* many as the object counts.
EntriesOfOneCall ==
  \A c \in Clients :
    ~mixed[c] =>
      /\ list[c].n_rx = Cardinality(list[c].got)
      /\ list[c].of[1] \in {"rk", "assert"} => list[c].got \subseteq {id \in Ids : RpOf[id] = list[c].of[2]}

\* The PIN/UV token that comes with a command, if the authenticator has not
\* dropped it in the meantime, permits that command, whichever of the three ways
\* it was got in and whatever was asked before.
TokenPermits ==
  \A c \in Clients :
    (Stage(c) = "cmd" /\ call[c].auth \in tok.auth) => Authorized(tok, c, call[c])

\* A PIN attempt is only lost by a call that was given another PIN than the
\* authenticator's, or whose shared secret another client made it drop; and a
\* call loses at most one.
PinAttempts ==
  [][tok'.retries < tok.retries =>
       \E c \in Clients :
         /\ call[c] # None /\ call'[c] # call[c] /\ ~call[c].tried
         /\ call[c].pin # None /\ (call[c].pin # tok.pin \/ call[c].crossed)]_vars

\* Between calls, a device object knows whether the authenticator has a PIN,
\* unless another client has set or removed it, or the reply to its own call
\* that did was lost.
FlagsFollow ==
  \A c \in Clients :
    (known[c] /\ call[c] = None) =>
      /\ ("PIN_SET" \in flags[c]) = (tok.pin # None)
      /\ ("PIN_UNSET" \in flags[c]) = (tok.pin = None)

\* The samples that an enrollment object says remain are those the authenticator
\* waits for, and it says none exactly when the template is complete, provided
\* the last reply was read: after a lost reply it also says none.
SamplesRemaining ==
  \A c \in Clients :
    heard[c] => /\ (enr[c].remaining = 0) = (enr[c].tmpl \in finished)
                /\ (tok.enroll # None /\ tok.enroll.tmpl = enr[c].tmpl)
                     => tok.enroll.left = enr[c].remaining
=============================================================================
