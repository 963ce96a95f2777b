--------------------------- MODULE Authenticator ---------------------------
(***************************************************************************)
(* A CTAP2 authenticator, as the code in src/src uses it: what it keeps    *)
(* from one request to the next, and the answers it may give to each       *)
(* request.  It has no variables: an operator takes the authenticator t    *)
(* and the client c that sends the request, and is the set of records of   *)
(* the authenticator afterwards and its reply.  Whoever sends a request is *)
(* not known to the authenticator: c only names the secret that c shares   *)
(* with it, and the PIN/UV token c was given.                              *)
(***************************************************************************)
EXTENDS Naturals, FiniteSets

CONSTANTS
  Clients,     \* device objects open on the authenticator
  Ids, RpOf,   \* discoverable credentials, and the relying party of each
  Templates,   \* fingerprints that may be enrolled
  Pins,        \* PINs that users may try and set
  MaxRetries,  \* PIN attempts left after a right one
  Samples,     \* samples needed for a template
  None         \* no PIN, no relying party, no argument, ...

ASSUME AuthenticatorAssumption ==
  /\ MaxRetries \in Nat \ {0} /\ Samples \in Nat \ {0}
  /\ IsFiniteSet(Ids) /\ IsFiniteSet(Templates)
  /\ None \notin Clients \cup Ids \cup Templates \cup Pins

Rps == {RpOf[id] : id \in Ids}

Permission == {"make_cred", "assert", "cred_mgmt", "bio", "large_blob", "config"}

\* A PIN/UV token: who was given it, to call one function or to keep for an
\* enrollment, what it permits, and the relying party it is bound to.
AuthToken == [of : Clients, use : {"call", "enroll"},
              perm : Permission \cup {"any"}, rp : Rps \cup {None}]

ASSUME NoneAssumption == None \notin AuthToken

\* An enumeration in progress: which function began it, and what it has not shown.
Listed == Ids \cup Rps
Cursor == [api : {"rk", "rp", "assert"}, rest : SUBSET Listed]
Enrollment == [tmpl : Templates, left : 1 .. Samples]

State == [perms : BOOLEAN, final : BOOLEAN,  \* what authenticatorGetInfo says
          pin : Pins \cup {None}, retries : 0 .. MaxRetries,
          fresh : SUBSET Clients,            \* share the present key agreement key
          auth : SUBSET AuthToken,           \* valid PIN/UV tokens
          cursor : Cursor \cup {None},
          enroll : Enrollment \cup {None},
          creds : SUBSET Ids, templates : SUBSET Templates,
          used : SUBSET Templates]           \* template identifiers ever given

Protected(t) == t.pin # None \/ t.templates # {}

\* Replies: the status, and the fields a reply may carry.
Reply == [ok : BOOLEAN, total : Nat, entries : SUBSET (Listed \cup Templates),
          tmpl : Templates \cup {None}, left : 0 .. Samples]

Refusal == [ok |-> FALSE, total |-> 0, entries |-> {}, tmpl |-> None, left |-> 0]
Ack == [Refusal EXCEPT !.ok = TRUE]

Answer(t, r) == [tok |-> t, reply |-> r]

\* Any request but the continuation of it ends an enumeration.
Discard(t) == [t EXCEPT !.cursor = None]

Refuses(t) == {Answer(Discard(t), Refusal)}

\* authenticatorClientPIN, getKeyAgreement.
KeyAgreement(t, c) == {Answer([Discard(t) EXCEPT !.fresh = @ \cup {c}], Ack)}

\* A wrong PIN, or the right one under a secret that has been replaced since.
WrongPin(t) == [Discard(t) EXCEPT !.retries = @ - 1, !.fresh = {}]

Knows(t, c, pin) == c \in t.fresh /\ pin = t.pin

\* With permissions there is one PIN/UV token at a time; without, all clients
\* that know the PIN are given the same.
Granted(t, a) == IF t.perms THEN a ELSE [a EXCEPT !.perm = "any", !.rp = None]

Issue(t, a) ==
  {Answer([Discard(t) EXCEPT !.auth = (IF t.perms THEN {} ELSE @) \cup {Granted(t, a)},
                             !.retries = MaxRetries], Ack)}

\* The three subcommands for a PIN/UV token.
TokenUsingPin(t, c, pin, a) ==
  IF t.pin = None \/ t.retries = 0 THEN Refuses(t)
  ELSE IF Knows(t, c, pin) THEN Issue(t, a) ELSE {Answer(WrongPin(t), Refusal)}

TokenUsingUv(t, a) ==
  Refuses(t) \cup (IF t.templates # {} THEN Issue(t, a) ELSE {})

\* setPIN and changePIN: a secret that has been replaced is noticed before the
\* old PIN is looked at.
NewPin(t, pin) ==
  {Answer([Discard(t) EXCEPT !.pin = pin, !.retries = MaxRetries, !.auth = {}], Ack)}

SetPin(t, c, pin) ==
  IF t.pin # None \/ c \notin t.fresh THEN Refuses(t) ELSE NewPin(t, pin)

ChangePin(t, c, old, pin) ==
  IF t.pin = None \/ t.retries = 0 \/ c \notin t.fresh THEN Refuses(t)
  ELSE IF old = t.pin THEN NewPin(t, pin) ELSE {Answer(WrongPin(t), Refusal)}

\* An enumeration: the first of the set S of things to show, and the rest.
Begin(t, api, S) ==
  {Answer([t EXCEPT !.cursor = IF S \ {x} = {} THEN None ELSE [api |-> api, rest |-> S \ {x}]],
          [Ack EXCEPT !.entries = {x}, !.total = Cardinality(S)]) : x \in S}

Continue(t, api) ==
  IF t.cursor = None \/ t.cursor.api # api THEN Refuses(t)
  ELSE {Answer([t EXCEPT !.cursor = IF t.cursor.rest = {x} THEN None
                                    ELSE [t.cursor EXCEPT !.rest = @ \ {x}]],
               [Ack EXCEPT !.entries = {x}]) : x \in t.cursor.rest}

CredsOf(t, rp) == {id \in t.creds : RpOf[id] = rp}
RpsOf(t) == {RpOf[id] : id \in t.creds}

\* An enumeration of relying parties with nothing to show may be a reply without
\* a total instead of an error.
BeginRp(t) ==
  IF t.creds = {} THEN Refuses(t) \cup {Answer(Discard(t), Ack)}
  ELSE Begin(t, "rp", RpsOf(t))

\* A number of credentials is only told if there are several.
BeginAssert(t, rp) ==
  {[a EXCEPT !.reply.total = IF @ = 1 THEN 0 ELSE @] : a \in Begin(t, "assert", CredsOf(t, rp))}

\* Each enrollment has an identifier of its own; one begun before is dropped.
BeginEnroll(t) ==
  {Answer([t EXCEPT !.enroll = [tmpl |-> x, left |-> Samples], !.used = @ \cup {x}],
          [Ack EXCEPT !.tmpl = x, !.left = Samples]) : x \in Templates \ t.used}

ContinueEnroll(t, x) ==
  IF t.enroll = None \/ t.enroll.tmpl # x THEN Refuses(t)
  ELSE LET left == t.enroll.left IN
       {Answer(t, [Ack EXCEPT !.left = left])} \cup   \* the sample was not good
       {Answer(IF left = 1 THEN [t EXCEPT !.enroll = None, !.templates = @ \cup {x}]
               ELSE [t EXCEPT !.enroll.left = left - 1],
               [Ack EXCEPT !.left = left - 1])}

\* authenticatorReset.
Reset(t) ==
  {Answer([t EXCEPT !.pin = None, !.retries = MaxRetries, !.fresh = {}, !.auth = {},
                    !.cursor = None, !.enroll = None, !.creds = {}, !.templates = {}], Ack)}

\* What an authenticator drops when its timers run out.
Forgets(t) ==
  {[t EXCEPT !.cursor = None], [t EXCEPT !.auth = {}, !.cursor = None],
   [t EXCEPT !.enroll = None, !.cursor = None]}
=============================================================================
