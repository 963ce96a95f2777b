------------------------------- MODULE Tools -------------------------------
(***************************************************************************)
(* Runs of fido2-token on one token: each opens the token, makes the calls *)
(* of one tool function, asks for a PIN when it has to, and exits with a   *)
(* status.  A call is what a function of the library does as a whole       *)
(* (TokenCalls, LargeBlob): it is refused, done, or its reply is lost.     *)
(***************************************************************************)
EXTENDS Integers, SequencesExt

CONSTANTS
  Procs,      \* processes
  Pins,       \* PINs
  Attempts,   \* wrong PINs until the token takes none
  MaxRuns,    \* bound: runs of a tool
  MaxLost,    \* bound: replies lost
  None

ASSUME ToolsAssumption ==
  /\ Attempts \in Nat \ {0} /\ {MaxRuns, MaxLost} \subseteq Nat
  /\ None \notin Pins /\ "" \notin Pins /\ None # ""

VARIABLES
  token,    \* the token: PIN, wrong attempts, fingerprints, alwaysUv, what else is stored
  shared,   \* several processes can have it open (PC/SC, Windows)
  run,      \* the current or last run of each process
  runs, losses   \* counters for MaxRuns and MaxLost

vars == <<token, shared, run, runs, losses>>

-----------------------------------------------------------------------------
(* What each tool function calls.  A call adds or drops what the token     *)
(* stores, toggles alwaysUv, sets the PIN, resets, or only looks.  "how"   *)
(* is what the function does about the PIN:                                *)
(*   free, bare  no PIN, and the token wants none, or may want one;        *)
(*   retry       first without, and again with one if that was refused;    *)
(*   global      with that of -w or FIDO2_PIN if there is one, else retry; *)
(*   ask         asked for before the first call;                          *)
(*   typed       asked for whatever -w or FIDO2_PIN say;                   *)
(*   kept        that of an earlier call, if there was one, else retry;    *)
(*   again       that of an earlier call, and if refused another one.      *)

Call(op, what, how) == <<[op |-> op, what |-> what, how |-> how]>>

ConfigEntattest      == Call("add", "entattest", "retry")
ConfigPinMinlen      == Call("add", "minlen", "retry")
ConfigForcePinChange == Call("add", "force", "retry")
ConfigPinMinlenRpid  == Call("add", "rpids", "retry")

\* config_always_uv: the option is read first.
GetDevopt(toggle)      == Call("option", toggle, "free")
ConfigAlwaysUv(toggle) == GetDevopt(toggle) \o Call("toggle", toggle, "retry")

CredmanGetMetadata == Call("look", None, "global")
CredmanListRp      == Call("look", None, "global")
CredmanListRk      == Call("look", None, "global")
CredmanPrintRk     == Call("look", None, "global")
CredmanDeleteRk    == Call("drop", "rk", "global")
CredmanUpdateRk    == Call("add", "renamed", "global")

BioList    == Call("look", None, "ask")
BioSetName == Call("add", "name", "ask")
BioDelete  == Call("drop", "finger", "ask")
\* The template is stored with the last sample.
BioEnroll  == Call("look", None, "ask") \o Call("look", None, "free") \o Call("add", "another", "free")

\* The key of a blob comes from a file, or from the credential of an RP.
LoadKey(file)    == IF file THEN <<>> ELSE Call("look", None, "kept")
BlobSet(file)    == LoadKey(file) \o Call("add", "blob", "again")
BlobGet(file)    == LoadKey(file) \o Call("look", None, "free")
BlobDelete(file) == LoadKey(file) \o Call("drop", "blob", "again")
\* map_known_rps makes one call for the RPs and one for each of them.
MapKnownRps      == Call("look", None, "ask") \o Call("look", None, "ask")
BlobList         == MapKnownRps \o Call("look", None, "free")

PinSet(new)    == Call("pin", new, "bare")
PinChange(new) == Call("pin", new, "typed")
TokenInfo      == Call("look", None, "free")
TokenReset     == Call("reset", None, "free")

\* token_get, _set, _list and _delete choose by the options of the command line.
TokenGet    == {BlobGet(f) : f \in BOOLEAN}
TokenSet    == {BlobSet(f) : f \in BOOLEAN} \cup {PinSet(p) : p \in Pins}
                 \cup {CredmanUpdateRk, BioSetName, BioEnroll, ConfigEntattest, ConfigPinMinlen,
                       ConfigPinMinlenRpid, ConfigForcePinChange, ConfigAlwaysUv(TRUE)}
TokenList   == {BlobList, BioList, CredmanListRk, CredmanListRp}
TokenDelete == {BlobDelete(f) : f \in BOOLEAN}
                 \cup {CredmanDeleteRk, BioDelete, ConfigAlwaysUv(FALSE)}

Functions == TokenGet \cup TokenSet \cup TokenList \cup TokenDelete
               \cup {TokenInfo, TokenReset, CredmanGetMetadata, CredmanPrintRk}
               \cup {PinChange(p) : p \in Pins}

-----------------------------------------------------------------------------
Idle == [pc |-> "done", calls |-> <<>>, pin |-> None, global |-> None, tried |-> FALSE,
         haspin |-> FALSE, status |-> 0, lost |-> FALSE, wrong |-> 0, did |-> 0, alone |-> TRUE]

\* What remains of a run: its status, and what it has done.
Exit(r, status) ==
  [Idle EXCEPT !.status = status, !.lost = r.lost, !.wrong = r.wrong, !.did = r.did,
               !.alone = r.alone]

Init ==
  /\ token \in [pin : Pins \cup {None}, wrong : {0}, uv : BOOLEAN, always : BOOLEAN,
                stored : {{"rk", "finger", "blob"}}]
  /\ shared \in BOOLEAN
  /\ run = [p \in Procs |-> Idle] /\ runs = 0 /\ losses = 0

HasOpen(p) == run[p].pc \in {"call", "prompt"}
Current(p) == Head(run[p].calls)

\* main: -w, or else FIDO2_PIN, which may be empty.
Main(p) ==
  /\ run[p].pc = "done" /\ runs < MaxRuns
  /\ \E calls \in Functions, g \in Pins \cup {None, ""} :
       run' = [run EXCEPT ![p] = [Idle EXCEPT !.pc = "start", !.calls = calls, !.global = g]]
  /\ runs' = runs + 1 /\ UNCHANGED <<token, shared, losses>>

Asks(call, pin) == call.how \in {"ask", "typed"} /\ pin = None

\* The run goes on with these calls.
Ready(r, calls) ==
  [r EXCEPT !.pc = IF Asks(Head(calls), r.pin) THEN "prompt" ELSE "call",
            !.calls = calls, !.tried = FALSE]

\* None that has the token open is alone any more.
Accompanied == [q \in Procs |-> IF HasOpen(q) THEN [run[q] EXCEPT !.alone = FALSE] ELSE run[q]]

OpenDev(p) ==
  /\ run[p].pc = "start"
  /\ LET busy == {q \in Procs \ {p} : HasOpen(q)} IN
     /\ busy = {} \/ shared
     /\ run' = [Accompanied EXCEPT ![p] =
                  Ready([run[p] EXCEPT !.haspin = token.pin # None, !.alone = busy = {}],
                        run[p].calls)]
  /\ UNCHANGED <<token, shared, runs, losses>>

\* errx, or goto out: usage, a bad argument, no device, no memory, no passphrase, two
\* new PINs that differ, a list that cannot be printed, ...
Fails(p) ==
  /\ run[p].pc # "done"
  /\ run' = [run EXCEPT ![p] = Exit(@, 1)]
  /\ UNCHANGED <<token, shared, runs, losses>>

\* get_pin takes an empty global_pin for none.
GetPin(p) ==
  IF run[p].global \in {None, ""} \/ Current(p).how = "typed" THEN Pins ELSE {run[p].global}

Prompt(p) ==
  /\ run[p].pc = "prompt"
  /\ \E pin \in GetPin(p) : run' = [run EXCEPT ![p].pin = pin, ![p].pc = "call"]
  /\ UNCHANGED <<token, shared, runs, losses>>

-----------------------------------------------------------------------------
(* A call of the library.                                                  *)

\* The PIN the call is given.
Given(p) ==
  IF Current(p).how \in {"free", "bare"} THEN None
  ELSE IF Current(p).how = "global" /\ run[p].pin = None THEN run[p].global
  ELSE run[p].pin

Effect(call, t) ==
  CASE call.op = "add"    -> {[t EXCEPT !.stored = @ \cup {call.what}]}
    [] call.op = "drop"   -> {[t EXCEPT !.stored = @ \ {call.what}]}
    [] call.op = "toggle" -> {[t EXCEPT !.always = ~@]}
    [] call.op = "pin"    -> {[t EXCEPT !.pin = call.what, !.wrong = 0]}
    [] call.op = "reset"  -> {[t EXCEPT !.pin = None, !.wrong = 0, !.stored = {}, !.always = a] :
                               a \in BOOLEAN}
    [] OTHER              -> {t}

\* Without a PIN, the token accepts what it wants none for, and the user's finger.
Accepts(p) ==
  LET call == Current(p)  pin == Given(p) IN
  /\ call.op = "drop" => call.what \in token.stored
  /\ \/ call.how = "free"
     \/ call.op = "pin" /\ pin = token.pin /\ (pin # None => token.wrong < Attempts)
     \/ call.op # "pin" /\ pin = None /\ (token.uv \/ token.pin = None)
     \/ call.op # "pin" /\ pin # None /\ pin = token.pin /\ token.wrong < Attempts

PinIsWrong(p) ==
  Given(p) # None /\ token.pin # None /\ Given(p) # token.pin /\ token.wrong < Attempts

\* should_retry_with_pin: PIN_REQUIRED, UNAUTHORIZED_PERM, UV_BLOCKED or UV_INVALID.
ShouldRetry(p, refusal) == run[p].haspin /\ refusal = "authorize"

Retries(p) ==
  LET r == run[p]  how == Current(p).how IN
  \/ how \in {"retry", "again"} /\ ~r.tried
  \/ how = "global" /\ r.global = None /\ ~r.tried
  \/ how = "kept" /\ r.pin = None

\* A mistake: a key that could not be looked up is not missed.
AfterFailure_Ignored(p, r) ==
  IF Current(p).how = "kept" THEN Ready(r, Tail(r.calls))
  ELSE Exit(r, 1)

AfterFailure(p, r) == Exit(r, 1)

\* What the function does about a call that failed.
Failed(p, r, refusal) ==
  IF ShouldRetry(p, refusal) /\ Retries(p)
  THEN [r EXCEPT !.pc = "prompt", !.tried = TRUE]
  ELSE AfterFailure(p, r)

Succeeded(r) ==
  IF Len(r.calls) = 1 THEN Exit(r, 0)
  ELSE Ready(r, Tail(r.calls))

Changes(call) == IF call.op \in {"option", "look"} THEN 0 ELSE 1

\* A mistake: what the token has is not looked at.
OptionIsSet_Never(call) == FALSE

OptionIsSet(call) == call.op = "option" /\ call.what = token.always

CallSucceeds(p) ==
  /\ run[p].pc = "call" /\ Accepts(p)
  /\ token' \in Effect(Current(p), [token EXCEPT !.wrong = IF Given(p) = None THEN @ ELSE 0])
  /\ run' = [run EXCEPT ![p] =
               IF OptionIsSet(Current(p)) THEN Exit(@, 0)
               ELSE Succeeded([run[p] EXCEPT !.did = @ + Changes(Current(p))])]
  /\ UNCHANGED <<shared, runs, losses>>

CallWrongPin(p) ==
  /\ run[p].pc = "call" /\ PinIsWrong(p)
  /\ token' = [token EXCEPT !.wrong = @ + 1]
  /\ run' = [run EXCEPT ![p] = Failed(p, [run[p] EXCEPT !.wrong = @ + 1], "pin")]
  /\ UNCHANGED <<shared, runs, losses>>

\* A PIN is wanted, the finger is not recognised, or the PIN does not permit it ...
CallUnauthorized(p) ==
  /\ run[p].pc = "call" /\ Current(p).how # "free"
  /\ run' = [run EXCEPT ![p] = Failed(p, @, "authorize")]
  /\ UNCHANGED <<token, shared, runs, losses>>

\* ... or anything else.
CallFails(p) ==
  /\ run[p].pc = "call"
  /\ run' = [run EXCEPT ![p] = Failed(p, @, "other")]
  /\ UNCHANGED <<token, shared, runs, losses>>

CallLost(p) ==
  /\ run[p].pc = "call" /\ losses < MaxLost /\ Accepts(p)
  /\ token' \in Effect(Current(p), token)
  /\ run' = [run EXCEPT ![p] =
               Failed(p, [run[p] EXCEPT !.lost = TRUE, !.did = @ + Changes(Current(p))], "other")]
  /\ losses' = losses + 1 /\ UNCHANGED <<shared, runs>>

Next ==
  \E p \in Procs :
    \/ Main(p) \/ OpenDev(p) \/ Fails(p) \/ Prompt(p)
    \/ CallSucceeds(p) \/ CallWrongPin(p) \/ CallUnauthorized(p) \/ CallFails(p) \/ CallLost(p)

Spec == Init /\ [][Next]_vars

-----------------------------------------------------------------------------
(* Properties.                                                             *)

\* What the last call of a function was to achieve; those before it only look.
Achieved(call, t) ==
  CASE call.op = "add"    -> call.what \in t.stored
    [] call.op = "drop"   -> call.what \notin t.stored
    [] call.op = "toggle" -> t.always = call.what
    [] call.op = "pin"    -> t.pin = call.what
    [] call.op = "reset"  -> t.pin = None /\ t.stored = {}
    [] OTHER              -> TRUE

Exits(p) == run[p].pc # "done" /\ run'[p].pc = "done"

\* The exit status tells what happened.  0: the token is as the command line asked,
\* unless another process had it open meanwhile (config_always_uv reads the option
\* before it toggles it).  1: the run has not changed the token, unless a reply was
\* lost.  And no run changes it twice: a call that may have been done is not repeated.
StatusTells ==
  [][\A p \in Procs : Exits(p) =>
       /\ run'[p].status = 0 /\ run'[p].alone =>
            Achieved(Last(run[p].calls), token')
       /\ run'[p].status = 1 /\ ~run'[p].lost => run'[p].did = 0
       /\ run'[p].did <= 1]_vars

\* A run presents at most one wrong PIN, however many calls it makes with it, and even
\* if the PIN is changed between them.
WrongPins == \A p \in Procs : run[p].wrong <= 1
=============================================================================
