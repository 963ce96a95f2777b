---------------------------- MODULE Tools_proofs ----------------------------
(***************************************************************************)
(* WrongPins and StatusTells, for any number of processes, runs, PINs,     *)
(* attempts and lost replies, and ListedOpens, for any devices.            *)
(***************************************************************************)
EXTENDS Tools, DeviceList, FiniteSetTheorems, WellFoundedInduction, TLAPS

Ops == {"add", "drop", "toggle", "pin", "reset", "option", "look"}

Hows == {"free", "bare", "retry", "global", "ask", "typed", "kept", "again"}

\* What a call names: a value of alwaysUv, a PIN, or something stored.
Whats ==
  BOOLEAN \cup Pins \cup {None, "entattest", "minlen", "force", "rpids", "rk", "renamed", "name",
                          "finger", "another", "blob"}

Calls == [op : Ops, what : Whats, how : Hows]

Runs ==
  [pc : {"done", "start", "call", "prompt"}, calls : Seq(Calls), pin : Pins \cup {None},
   global : Pins \cup {None, ""}, tried : BOOLEAN, haspin : BOOLEAN, status : {0, 1},
   lost : BOOLEAN, wrong : {0, 1}, did : {0, 1}, alone : BOOLEAN]

TokenStates == [pin : Whats, wrong : Nat, uv : BOOLEAN, always : BOOLEAN, stored : SUBSET Whats]

Types == run \in [Procs -> Runs] /\ token \in TokenStates

\* Only the last call of a function changes anything ...
Plain(c) ==
  /\ Len(c) > 0 /\ c[Len(c)].op \notin {"toggle", "option"}
  /\ \A i \in 1 .. Len(c) - 1 : c[i].op = "look"

\* ... and alwaysUv is toggled after a look at it.
Checking(c) ==
  /\ Len(c) = 2 /\ c[1].op = "option" /\ c[2].op = "toggle"
  /\ c[1].what = c[2].what /\ c[2].what \in BOOLEAN

Toggling(c) == Len(c) = 1 /\ c[1].op = "toggle" /\ c[1].what \in BOOLEAN

\* A run has changed nothing, and presented no wrong PIN, until it exits.
Underway(r) ==
  r.pc # "done" =>
    /\ r.wrong = 0 /\ r.did = 0 /\ ~r.lost
    /\ Plain(r.calls) \/ Checking(r.calls) \/ (Toggling(r.calls) /\ r.pc # "start")

\* Who had the token open with another knows that it was not alone, and who was alone
\* finds alwaysUv as it was when it looked.
Alone ==
  /\ \A p, q \in Procs : p # q /\ HasOpen(p) /\ HasOpen(q) => ~run[p].alone
  /\ \A p \in Procs : HasOpen(p) /\ Toggling(run[p].calls) /\ run[p].alone =>
                        token.always # run[p].calls[1].what

Inv == Types /\ (\A p \in Procs : Underway(run[p])) /\ Alone

-----------------------------------------------------------------------------
(* The functions.                                                          *)

\* The calls of a function, before the first is made.
Proper(c) == c \in Seq(Calls) /\ (Plain(c) \/ Checking(c))

LEMMA OneCall ==
  ASSUME NEW op \in Ops, NEW what \in Whats, NEW how \in Hows
  PROVE  /\ Call(op, what, how) \in Seq(Calls) /\ Len(Call(op, what, how)) = 1
         /\ Call(op, what, how)[1].op = op /\ Call(op, what, how)[1].what = what
         /\ op \notin {"toggle", "option"} => Plain(Call(op, what, how))
<1> DEFINE a == [op |-> op, what |-> what, how |-> how]
           c == Call(op, what, how)
<1>1. a \in Calls /\ a.op = op /\ a.what = what BY DEF Calls
<1>2. c = <<a>> BY DEF Call
<1> HIDE DEF a, c
<1>3. c \in Seq(Calls) /\ Len(c) = 1 /\ c[1] = a BY <1>1, <1>2
<1>4. op \notin {"toggle", "option"} => Plain(c) BY <1>1, <1>3 DEF Plain
<1>5. QED BY <1>1, <1>3, <1>4 DEF c

LEMMA Concatenated ==
  ASSUME NEW S, NEW a \in Seq(S), NEW b \in Seq(S)
  PROVE  /\ a \o b \in Seq(S) /\ Len(a \o b) = Len(a) + Len(b)
         /\ \A i \in 1 .. Len(a) + Len(b) : (a \o b)[i] = IF i <= Len(a) THEN a[i] ELSE b[i - Len(a)]
OBVIOUS

LEMMA TwoCalls ==
  ASSUME NEW a \in Seq(Calls), NEW b \in Seq(Calls), Len(a) = 1, Len(b) = 1
  PROVE  a \o b \in Seq(Calls) /\ Len(a \o b) = 2 /\ (a \o b)[1] = a[1] /\ (a \o b)[2] = b[1]
<1> DEFINE d == a \o b
<1>1. /\ d \in Seq(Calls) /\ Len(d) = Len(a) + Len(b)
      /\ \A i \in 1 .. Len(a) + Len(b) : d[i] = IF i <= Len(a) THEN a[i] ELSE b[i - Len(a)]
  BY Concatenated
<1> HIDE DEF d
<1>2. d[1] = a[1] BY <1>1
<1>3. d[2] = b[1] BY <1>1
<1>4. QED BY <1>1, <1>2, <1>3 DEF d

Looks(l) == l \in Seq(Calls) /\ \A i \in 1 .. Len(l) : l[i].op = "look"

\* Looks before calls that only look but for the last.
LEMMA LooksFirst ==
  ASSUME NEW l, Looks(l), NEW c \in Seq(Calls), Plain(c)
  PROVE  l \o c \in Seq(Calls) /\ Plain(l \o c)
<1> DEFINE d == l \o c
<1>1. /\ d \in Seq(Calls) /\ Len(d) = Len(l) + Len(c) /\ Len(l) \in Nat /\ Len(c) \in Nat \ {0}
      /\ \A i \in 1 .. Len(d) : d[i] = IF i <= Len(l) THEN l[i] ELSE c[i - Len(l)]
  BY DEF Looks, Plain
<1> HIDE DEF d
<1>2. d[Len(d)] = c[Len(c)] BY <1>1
<1>3. \A i \in 1 .. Len(d) - 1 : d[i].op = "look"
  <2> TAKE i \in 1 .. Len(d) - 1
  <2>1. CASE i <= Len(l) BY <1>1, <2>1 DEF Looks
  <2>2. CASE i > Len(l)
    <3>1. i - Len(l) \in 1 .. Len(c) - 1 BY <1>1, <2>2
    <3>2. d[i] = c[i - Len(l)] BY <1>1, <2>2
    <3>3. QED BY <3>1, <3>2 DEF Plain
  <2>3. QED BY <1>1, <2>1, <2>2
<1>4. Plain(d) BY <1>1, <1>2, <1>3 DEF Plain
<1>5. QED BY <1>1, <1>4 DEF d

LEMMA LooksJoin ==
  ASSUME NEW g \in Hows, NEW h \in Hows
  PROVE  /\ Looks(<<>>) /\ Looks(Call("look", None, g))
         /\ Looks(Call("look", None, g) \o Call("look", None, h))
<1> DEFINE a == Call("look", None, g)
           b == Call("look", None, h)
<1>1. /\ a \in Seq(Calls) /\ Len(a) = 1 /\ a[1].op = "look"
      /\ b \in Seq(Calls) /\ Len(b) = 1 /\ b[1].op = "look"
  <2>1. "look" \in Ops /\ None \in Whats BY DEF Ops, Whats
  <2>2. QED BY <2>1, OneCall
<1> HIDE DEF a, b
<1>2. Looks(a) BY <1>1 DEF Looks
<1>3. a \o b \in Seq(Calls) /\ Len(a \o b) = 2 /\ (a \o b)[1] = a[1] /\ (a \o b)[2] = b[1] BY <1>1, TwoCalls
<1>4. Looks(a \o b)
  <2>1. \A i \in 1 .. Len(a \o b) : i = 1 \/ i = 2 BY <1>3
  <2>2. QED BY <1>1, <1>3, <2>1 DEF Looks
<1>5. Looks(<<>>) BY DEF Looks
<1>6. QED BY <1>2, <1>4, <1>5 DEF a, b

LEMMA ToggleIsChecked ==
  ASSUME NEW t \in BOOLEAN
  PROVE  ConfigAlwaysUv(t) \in Seq(Calls) /\ Checking(ConfigAlwaysUv(t))
<1> DEFINE a == Call("option", t, "free")
           b == Call("toggle", t, "retry")
<1>1. /\ a \in Seq(Calls) /\ Len(a) = 1 /\ a[1].op = "option" /\ a[1].what = t
      /\ b \in Seq(Calls) /\ Len(b) = 1 /\ b[1].op = "toggle" /\ b[1].what = t
  BY OneCall DEF Ops, Hows, Whats
<1>2. ConfigAlwaysUv(t) = a \o b BY DEF ConfigAlwaysUv, GetDevopt
<1> HIDE DEF a, b
<1>3. a \o b \in Seq(Calls) /\ Len(a \o b) = 2 /\ (a \o b)[1] = a[1] /\ (a \o b)[2] = b[1] BY <1>1, TwoCalls
<1>4. QED BY <1>1, <1>2, <1>3 DEF Checking

\* Every function of fido2-token is as Plain and Checking say.
LEMMA FunctionsProper == \A c \in Functions : Proper(c)
<1>1. \A op \in Ops \ {"toggle", "option"}, what \in Whats, how \in Hows :
        Plain(Call(op, what, how)) /\ Call(op, what, how) \in Seq(Calls) /\ Proper(Call(op, what, how))
  BY OneCall DEF Proper
<1>2. \A l, c : Looks(l) /\ c \in Seq(Calls) /\ Plain(c) => Proper(l \o c)
  BY LooksFirst DEF Proper
<1>3. \A g, h \in Hows : /\ Looks(<<>>) /\ Looks(Call("look", None, g))
                         /\ Looks(Call("look", None, g) \o Call("look", None, h))
  BY LooksJoin
<1> USE DEF Ops, Hows, Whats
<1>4. \A b \in BOOLEAN : Proper(ConfigAlwaysUv(b)) BY ToggleIsChecked DEF Proper
<1>5. \A p \in Pins : Proper(PinSet(p)) /\ Proper(PinChange(p)) BY <1>1 DEF PinSet, PinChange
<1>6. /\ Proper(CredmanUpdateRk) /\ Proper(BioSetName) /\ Proper(ConfigEntattest) /\ Proper(ConfigPinMinlen)
      /\ Proper(ConfigPinMinlenRpid) /\ Proper(ConfigForcePinChange)
  BY <1>1 DEF CredmanUpdateRk, BioSetName, ConfigEntattest, ConfigPinMinlen, ConfigPinMinlenRpid, ConfigForcePinChange
<1>7. /\ Proper(BioList) /\ Proper(CredmanListRk) /\ Proper(CredmanListRp) /\ Proper(CredmanDeleteRk)
      /\ Proper(BioDelete) /\ Proper(TokenInfo) /\ Proper(TokenReset) /\ Proper(CredmanGetMetadata)
      /\ Proper(CredmanPrintRk)
  BY <1>1 DEF BioList, CredmanListRk, CredmanListRp, CredmanDeleteRk, BioDelete, TokenInfo, TokenReset,
              CredmanGetMetadata, CredmanPrintRk
<1>8. Proper(BioEnroll) BY <1>1, <1>2, <1>3 DEF BioEnroll
<1>9. Proper(BlobList) BY <1>1, <1>2, <1>3 DEF BlobList, MapKnownRps
<1>10. \A f \in BOOLEAN : Proper(BlobGet(f)) /\ Proper(BlobSet(f)) /\ Proper(BlobDelete(f))
  <2> TAKE f \in BOOLEAN
  <2>1. Looks(LoadKey(f)) BY <1>3 DEF LoadKey
  <2>2. QED BY <1>1, <1>2, <2>1 DEF BlobGet, BlobSet, BlobDelete
<1>11. QED
  BY <1>4, <1>5, <1>6, <1>7, <1>8, <1>9, <1>10 DEF Functions, TokenGet, TokenSet, TokenList, TokenDelete

\* The calls of a run that has more to make.
Making(c) == Plain(c) \/ Checking(c) \/ Toggling(c)

\* All but the last call look, and the option is what is toggled next.
LEMMA FirstCall ==
  ASSUME NEW c \in Seq(Calls), Making(c)
  PROVE  /\ Head(c) \in Calls /\ Head(c) = c[1] /\ Len(c) \in Nat \ {0}
         /\ Len(c) = 1 => Last(c) = Head(c) /\ Head(c).op # "option"
         /\ Len(c) # 1 => /\ Tail(c) \in Seq(Calls) /\ Head(c).op \in {"look", "option"}
                          /\ Plain(Tail(c)) \/ (Toggling(Tail(c)) /\ Checking(c))
         /\ Checking(c) => /\ Head(c).op = "option" /\ Last(c).op = "toggle" /\ Len(c) = 2
                           /\ Last(c).what = Head(c).what /\ Tail(c)[1].what = Head(c).what
         /\ Head(c).op = "option" => Checking(c)
         /\ Head(c).op = "toggle" => Toggling(c)
<1>1. Len(c) \in Nat \ {0} /\ Head(c) = c[1] /\ Last(c) = c[Len(c)] BY DEF Making, Plain, Checking, Toggling, Last
<1>2. Head(c) \in Calls BY <1>1
<1>3. Len(c) = 1 => Last(c) = Head(c) /\ Head(c).op # "option"
  BY <1>1 DEF Making, Plain, Checking, Toggling
<1>4. ASSUME Len(c) # 1
      PROVE  /\ Tail(c) \in Seq(Calls) /\ Len(Tail(c)) = Len(c) - 1
             /\ \A i \in 1 .. Len(c) - 1 : Tail(c)[i] = c[i + 1]
  BY <1>1, <1>4
<1>5. ASSUME Len(c) # 1, Plain(c) PROVE Head(c).op = "look" /\ Plain(Tail(c))
  <2>1. Head(c).op = "look"
    <3> DEFINE n == Len(c)
    <3>1. n \in Nat \ {0, 1} BY <1>1, <1>5
    <3> HIDE DEF n
    <3>2. 1 \in 1 .. n - 1 BY <3>1
    <3>3. QED BY <1>1, <1>5, <3>2 DEF Plain, n
  <2> DEFINE t == Tail(c)
  <2>2. /\ Len(t) = Len(c) - 1 /\ Len(c) \in Nat \ {0, 1}
        /\ \A i \in 1 .. Len(c) - 1 : t[i] = c[i + 1]
    BY <1>1, <1>4, <1>5
  <2> HIDE DEF t
  <2>3. t[Len(t)] = c[Len(c)] BY <2>2
  <2>4. ASSUME NEW i \in 1 .. Len(t) - 1 PROVE t[i].op = "look"
    <3>1. t[i] = c[i + 1] /\ i + 1 \in 1 .. Len(c) - 1 BY <2>2
    <3>2. QED BY <3>1, <1>5 DEF Plain
  <2>5. Plain(t) BY <2>2, <2>3, <2>4, <1>5 DEF Plain
  <2>6. QED BY <2>1, <2>5 DEF t
<1>6. ASSUME Checking(c)
      PROVE  /\ Len(c) = 2 /\ Head(c).op = "option" /\ Last(c) = c[2] /\ Last(c).op = "toggle"
             /\ Last(c).what = Head(c).what /\ Tail(c)[1] = c[2] /\ Toggling(Tail(c))
  <2>1. Len(c) = 2 /\ Head(c).op = "option" /\ Last(c) = c[2] BY <1>1, <1>6 DEF Checking
  <2>2. Len(Tail(c)) = 1 /\ Tail(c)[1] = c[2]
    <3> DEFINE t == Tail(c)
    <3>1. Len(c) # 1 BY <2>1
    <3>2. Len(t) = Len(c) - 1 /\ \A i \in 1 .. Len(c) - 1 : t[i] = c[i + 1] BY <1>4, <3>1
    <3> HIDE DEF t
    <3>3. Len(t) = 2 - 1 /\ \A i \in 1 .. 2 - 1 : t[i] = c[i + 1] BY <2>1, <3>2
    <3>4. Len(t) = 1 /\ t[1] = c[2] BY <3>3
    <3>5. QED BY <3>4 DEF t
  <2>3. Toggling(Tail(c)) BY <2>2, <1>6 DEF Checking, Toggling
  <2>4. QED BY <1>1, <1>6, <2>1, <2>2, <2>3 DEF Checking
<1>7. Len(c) # 1 => Plain(c) \/ Checking(c) BY DEF Making, Toggling
<1>8. Head(c).op = "option" => Checking(c)
  <2>1. Plain(c) => Head(c).op # "option"
    BY <1>1, <1>3, <1>5
  <2>2. Toggling(c) => Head(c).op # "option" BY <1>1 DEF Toggling
  <2>3. QED BY <2>1, <2>2 DEF Making
<1>9. Head(c).op = "toggle" => Toggling(c)
  <2>1. CASE Plain(c) /\ Len(c) = 1 BY <1>1, <2>1 DEF Plain
  <2>2. CASE Plain(c) /\ Len(c) # 1 BY <1>5, <2>2
  <2>3. CASE Checking(c) BY <1>6, <2>3
  <2>4. QED BY <2>1, <2>2, <2>3 DEF Making
<1>10. Len(c) # 1 => /\ Tail(c) \in Seq(Calls) /\ Head(c).op \in {"look", "option"}
                     /\ Plain(Tail(c)) \/ (Toggling(Tail(c)) /\ Checking(c))
  BY <1>4, <1>5, <1>6, <1>7
<1>11. Checking(c) => /\ Head(c).op = "option" /\ Last(c).op = "toggle" /\ Len(c) = 2
                      /\ Last(c).what = Head(c).what /\ Tail(c)[1].what = Head(c).what
  BY <1>6
<1>12. QED BY <1>1, <1>2, <1>3, <1>8, <1>9, <1>10, <1>11

-----------------------------------------------------------------------------
(* What remains of a run, and what goes on.                                *)

LEMMA IdleIs == Idle \in Runs /\ Idle.pc = "done"
<1>1. <<>> \in Seq(Calls) OBVIOUS
<1>2. QED BY <1>1 DEF Idle, Runs

LEMMA ExitIs ==
  ASSUME NEW r \in Runs, NEW s \in {0, 1}
  PROVE  /\ Exit(r, s) \in Runs /\ Exit(r, s).pc = "done" /\ Exit(r, s).status = s
         /\ Exit(r, s).lost = r.lost /\ Exit(r, s).did = r.did /\ Exit(r, s).alone = r.alone
<1>1. <<>> \in Seq(Calls) OBVIOUS
<1>2. QED BY <1>1 DEF Exit, Idle, Runs

LEMMA ReadyIs ==
  ASSUME NEW r \in Runs, NEW calls \in Seq(Calls)
  PROVE  /\ Ready(r, calls) \in Runs /\ Ready(r, calls).pc \in {"prompt", "call"}
         /\ Ready(r, calls).calls = calls /\ Ready(r, calls).wrong = r.wrong
         /\ Ready(r, calls).did = r.did /\ Ready(r, calls).lost = r.lost
         /\ Ready(r, calls).alone = r.alone
BY DEF Ready, Runs

\* What a call does to the token, and that this is what it was to achieve.
LEMMA EffectIs ==
  ASSUME NEW call \in Calls, NEW t \in TokenStates, NEW u \in Effect(call, t)
  PROVE  /\ u \in TokenStates
         /\ call.op \in {"look", "option"} => u = t
         /\ call.op \notin {"toggle", "reset"} => u.always = t.always
         /\ call.op = "toggle" => u.always = ~t.always
         /\ call.op \notin {"toggle", "option"} => Achieved(call, u)
<1>1. call.op \in Ops /\ call.what \in Whats /\ None \in Whats BY DEF Calls, Whats
<1>2. CASE call.op = "add"
  <2>1. u = [t EXCEPT !.stored = @ \cup {call.what}] BY <1>2 DEF Effect
  <2>2. QED BY <1>1, <1>2, <2>1 DEF TokenStates, Achieved
<1>3. CASE call.op = "drop"
  <2>1. u = [t EXCEPT !.stored = @ \ {call.what}] BY <1>3 DEF Effect
  <2>2. QED BY <1>1, <1>3, <2>1 DEF TokenStates, Achieved
<1>4. CASE call.op = "toggle"
  <2>1. u = [t EXCEPT !.always = ~@] BY <1>4 DEF Effect
  <2>2. QED BY <1>1, <1>4, <2>1 DEF TokenStates, Achieved
<1>5. CASE call.op = "pin"
  <2>1. u = [t EXCEPT !.pin = call.what, !.wrong = 0] BY <1>5 DEF Effect
  <2>2. QED BY <1>1, <1>5, <2>1 DEF TokenStates, Achieved
<1>6. CASE call.op = "reset"
  <2>1. PICK a \in BOOLEAN : u = [t EXCEPT !.pin = None, !.wrong = 0, !.stored = {}, !.always = a]
    BY <1>6 DEF Effect
  <2>2. QED BY <1>1, <1>6, <2>1 DEF TokenStates, Achieved
<1>7. CASE call.op \in {"look", "option"}
  <2>1. u = t BY <1>7 DEF Effect
  <2>2. QED BY <1>7, <2>1 DEF Achieved
<1>8. QED BY <1>1, <1>2, <1>3, <1>4, <1>5, <1>6, <1>7 DEF Ops

-----------------------------------------------------------------------------
(* Steps of one run.                                                       *)

\* What the status r.status of a run that was o tells, with the token t.
Told(o, r, t) ==
  /\ r.status = 0 /\ r.alone => Achieved(Last(o.calls), t)
  /\ r.status = 1 /\ ~r.lost => r.did = 0
  /\ r.did <= 1

\* The run of p goes on as r, and the token as t.
GoesOn(p, r, t) ==
  /\ r \in Runs /\ Underway(r) /\ t \in TokenStates
  /\ t.always = token.always \/ HasOpen(p)
  /\ r.pc \in {"call", "prompt"} =>
       /\ HasOpen(p) /\ (r.alone => run[p].alone)
       /\ Toggling(r.calls) /\ r.alone => t.always # r.calls[1].what
  /\ r.pc = "done" /\ run[p].pc # "done" => Told(run[p], r, t)

\* A step of p: of the runs, only its own changes.
StepOf(p) == \E r : run' = [run EXCEPT ![p] = r] /\ GoesOn(p, r, token')

\* What StatusTells says of a step.
Tells == \A p \in Procs : Exits(p) => Told(run[p], run'[p], token')

LEMMA StepOfKeeps ==
  ASSUME Inv, NEW p \in Procs, StepOf(p)
  PROVE  Inv' /\ Tells
<1>1. PICK r : run' = [run EXCEPT ![p] = r] /\ GoesOn(p, r, token') BY DEF StepOf
<1>2. /\ run'[p] = r /\ \A q \in Procs \ {p} : run'[q] = run[q]
      /\ run' \in [Procs -> Runs] /\ token' \in TokenStates
  BY <1>1 DEF Inv, Types, GoesOn
<1>3. Types' BY <1>2 DEF Types
<1>4. \A q \in Procs : Underway(run'[q])
  <2> TAKE q \in Procs
  <2>1. CASE q = p BY <1>1, <1>2, <2>1 DEF GoesOn
  <2>2. CASE q # p BY <1>2, <2>2 DEF Inv
  <2>3. QED BY <2>1, <2>2
<1>5. \A q \in Procs : HasOpen(q)' => HasOpen(q) /\ (run'[q].alone => run[q].alone)
  <2> TAKE q \in Procs
  <2>1. CASE q = p BY <1>1, <1>2, <2>1 DEF GoesOn, HasOpen
  <2>2. CASE q # p BY <1>2, <2>2 DEF HasOpen
  <2>3. QED BY <2>1, <2>2
<1>6. \A a, b \in Procs : a # b /\ HasOpen(a)' /\ HasOpen(b)' => ~run'[a].alone
  BY <1>5 DEF Inv, Alone
<1>7. ASSUME NEW q \in Procs, HasOpen(q)', Toggling(run'[q].calls), run'[q].alone
      PROVE  token'.always # run'[q].calls[1].what
  <2>1. CASE q = p BY <1>1, <1>2, <1>7, <2>1 DEF GoesOn, HasOpen
  <2>2. CASE q # p
    <3>1. HasOpen(q) /\ run[q].alone BY <1>5, <1>7
    <3>2. token'.always = token.always BY <1>1, <2>2, <3>1 DEF GoesOn, Inv, Alone
    <3>3. run'[q] = run[q] BY <1>2, <2>2
    <3>4. token.always # run[q].calls[1].what BY <1>7, <3>1, <3>3 DEF Inv, Alone
    <3>5. QED BY <3>2, <3>3, <3>4
  <2>3. QED BY <2>1, <2>2
<1>8. Alone' BY <1>6, <1>7 DEF Alone, HasOpen
<1>9. Tells
  <2> SUFFICES ASSUME NEW q \in Procs, Exits(q) PROVE Told(run[q], run'[q], token') BY DEF Tells
  <2>1. q = p BY <1>2 DEF Exits
  <2>2. QED BY <1>1, <1>2, <2>1 DEF Exits, GoesOn
<1>10. QED BY <1>3, <1>4, <1>8, <1>9 DEF Inv

\* A run that gives up has changed nothing.
LEMMA GivesUp ==
  ASSUME Inv, NEW p \in Procs, run[p].pc # "done", NEW t \in TokenStates,
         t.always = token.always \/ HasOpen(p),
         NEW r \in Runs, r.did = 0 \/ r.lost
  PROVE  GoesOn(p, Exit(r, 1), t)
<1> DEFINE e == Exit(r, 1)
<1>1. /\ e \in Runs /\ e.pc = "done" /\ e.status = 1
      /\ e.lost = r.lost /\ e.did = r.did
  BY ExitIs
<1> HIDE DEF e
<1>2. r.did <= 1
  <2>1. r.did \in {0, 1} BY Zenon DEF Runs
  <2>2. QED BY <2>1
<1>3. Told(run[p], e, t) BY <1>1, <1>2 DEF Told
<1>4. Underway(e) BY <1>1 DEF Underway
<1>5. GoesOn(p, e, t) BY <1>1, <1>3, <1>4 DEF GoesOn
<1>6. QED BY <1>5 DEF e

LEMMA StepMain == ASSUME Inv, NEW p \in Procs, Main(p) PROVE StepOf(p)
<1>1. PICK calls \in Functions, g \in Pins \cup {None, ""} :
        run' = [run EXCEPT ![p] = [Idle EXCEPT !.pc = "start", !.calls = calls, !.global = g]]
  BY DEF Main
<1> DEFINE r == [Idle EXCEPT !.pc = "start", !.calls = calls, !.global = g]
<1>2. Proper(calls) BY FunctionsProper
<1>3. r \in Runs /\ r.pc = "start" /\ r.calls = calls /\ r.wrong = 0 /\ r.did = 0 /\ ~r.lost
  BY <1>2 DEF Proper, Idle, Runs
<1>4. run' = [run EXCEPT ![p] = r] BY <1>1
<1> HIDE DEF r
<1>5. Underway(r) BY <1>2, <1>3 DEF Underway, Proper
<1>6. token' = token /\ token \in TokenStates BY DEF Main, Inv, Types
<1>7. GoesOn(p, r, token') BY <1>3, <1>5, <1>6 DEF GoesOn
<1>8. QED BY <1>4, <1>7 DEF StepOf

LEMMA StepFails == ASSUME Inv, NEW p \in Procs, Fails(p) PROVE StepOf(p)
<1>1. /\ run[p].pc # "done" /\ run' = [run EXCEPT ![p] = Exit(run[p], 1)]
      /\ token' = token /\ token \in TokenStates /\ run[p] \in Runs
  BY DEF Fails, Inv, Types
<1>2. run[p].did = 0 BY <1>1 DEF Inv, Underway
<1>3. GoesOn(p, Exit(run[p], 1), token') BY <1>1, <1>2, GivesUp
<1>4. QED BY <1>1, <1>3 DEF StepOf

LEMMA StepPrompt == ASSUME Inv, NEW p \in Procs, Prompt(p) PROVE StepOf(p)
<1>1. /\ run[p].pc = "prompt" /\ token' = token /\ token \in TokenStates
      /\ run \in [Procs -> Runs] /\ run[p] \in Runs /\ Underway(run[p]) /\ HasOpen(p)
  BY DEF Prompt, Inv, Types, HasOpen
<1>2. PICK pin \in GetPin(p) : run' = [run EXCEPT ![p].pin = pin, ![p].pc = "call"] BY DEF Prompt
<1>3. pin \in Pins
  <2>1. run[p].global \in Pins \cup {None, ""} BY <1>1 DEF Runs
  <2>2. QED BY <2>1 DEF GetPin
<1> DEFINE r == [run[p] EXCEPT !.pin = pin, !.pc = "call"]
<1>4. run' = [run EXCEPT ![p] = r] BY <1>1, <1>2
<1>5. /\ r \in Runs /\ r.pc = "call" /\ r.calls = run[p].calls /\ r.wrong = run[p].wrong
      /\ r.did = run[p].did /\ r.lost = run[p].lost /\ r.alone = run[p].alone
  BY <1>1, <1>3 DEF Runs
<1> HIDE DEF r
<1>6. Underway(r) BY <1>1, <1>5 DEF Underway
<1>7. Toggling(r.calls) /\ r.alone => token.always # r.calls[1].what
  BY <1>1, <1>5 DEF Inv, Alone
<1>8. GoesOn(p, r, token') BY <1>1, <1>5, <1>6, <1>7 DEF GoesOn
<1>9. QED BY <1>4, <1>8 DEF StepOf

LEMMA StepCallSucceeds == ASSUME Inv, NEW p \in Procs, CallSucceeds(p) PROVE StepOf(p)
<1> DEFINE o == run[p]
           c == run[p].calls
           h == Head(run[p].calls)
           u == [token EXCEPT !.wrong = IF Given(p) = None THEN @ ELSE 0]
           s == [o EXCEPT !.did = @ + Changes(h)]
<1>1. /\ o \in Runs /\ o.pc = "call" /\ o.wrong = 0 /\ o.did = 0 /\ ~o.lost /\ HasOpen(p)
      /\ c \in Seq(Calls) /\ Making(c) /\ o.calls = c
  <2>1. o \in Runs /\ o.pc = "call" /\ HasOpen(p) /\ Underway(o)
    BY DEF CallSucceeds, Inv, Types, HasOpen
  <2>2. o.calls \in Seq(Calls) BY <2>1 DEF Runs
  <2>3. QED BY <2>1, <2>2 DEF Underway, Making
<1>2. token' \in Effect(h, u) BY DEF CallSucceeds, Current
<1>3. run' = [run EXCEPT ![p] = IF OptionIsSet(h) THEN Exit(o, 0) ELSE Succeeded(s)]
  <2>1. p \in DOMAIN run BY DEF Inv, Types
  <2>2. QED BY <2>1 DEF CallSucceeds, Current
<1>4. u \in TokenStates /\ u.always = token.always BY DEF Inv, Types, TokenStates
<1>5. h \in Calls BY <1>1, FirstCall
<1> HIDE DEF h, u
<1>6. /\ token' \in TokenStates
      /\ h.op \in {"look", "option"} => token' = u
      /\ h.op \notin {"toggle", "reset"} => token'.always = u.always
      /\ h.op = "toggle" => token'.always = ~u.always
      /\ h.op \notin {"toggle", "option"} => Achieved(h, token')
  BY <1>2, <1>4, <1>5, EffectIs
<1> USE DEF h
<1>7. Changes(h) \in {0, 1} /\ (h.op \in {"look", "option"} => Changes(h) = 0) BY DEF Changes
<1>8. /\ s \in Runs /\ s.did = Changes(h) /\ s.wrong = 0 /\ ~s.lost /\ s.alone = o.alone
      /\ s.calls = c
  <2>1. o.did + Changes(h) = Changes(h) BY <1>1, <1>7
  <2>2. s = [o EXCEPT !.did = Changes(h)] BY <2>1
  <2>3. QED BY <1>1, <1>7, <2>2 DEF Runs
<1> HIDE DEF s
<1>9. CASE OptionIsSet(h)
  <2> DEFINE e == Exit(o, 0)
  <2>1. e \in Runs /\ e.pc = "done" /\ e.status = 0 /\ e.did = 0 BY <1>1, ExitIs
  <2> HIDE DEF e
  <2>2. h.op = "option" /\ h.what = token.always BY <1>9 DEF OptionIsSet
  <2>3. Last(c).op = "toggle" /\ Last(c).what = h.what BY <1>1, <2>2, FirstCall
  <2>4. token'.always = token.always BY <1>4, <1>6, <2>2
  <2>5. Achieved(Last(c), token') BY <2>2, <2>3, <2>4 DEF Achieved
  <2>6. Told(o, e, token') BY <1>1, <2>1, <2>5 DEF Told
  <2>7. GoesOn(p, e, token') BY <1>1, <1>6, <2>1, <2>4, <2>6 DEF GoesOn, Underway
  <2>8. QED BY <1>3, <1>9, <2>7 DEF StepOf, e
<1>10. CASE ~OptionIsSet(h) /\ Len(c) = 1
  <2> DEFINE e == Exit(s, 0)
  <2>1. /\ e \in Runs /\ e.pc = "done" /\ e.status = 0 /\ e.did = Changes(h)
        /\ e.alone = o.alone
    BY <1>8, ExitIs
  <2>2. Succeeded(s) = e BY <1>8, <1>10 DEF Succeeded
  <2> HIDE DEF e
  <2>3. Last(c) = h /\ h.op # "option" BY <1>1, <1>10, FirstCall
  <2>4. ASSUME o.alone, h.op = "toggle" PROVE Achieved(h, token')
    <3>1. Toggling(c) /\ h = c[1] BY <1>1, <2>4, FirstCall
    <3>2. token.always # h.what /\ h.what \in BOOLEAN /\ token.always \in BOOLEAN
      BY <1>1, <2>4, <3>1 DEF Inv, Alone, Types, TokenStates, Toggling
    <3>3. token'.always = ~token.always BY <1>4, <1>6, <2>4
    <3>4. token'.always = h.what BY <3>2, <3>3
    <3>5. QED BY <2>4, <3>4 DEF Achieved
  <2>5. o.alone => Achieved(Last(c), token') BY <1>6, <2>3, <2>4
  <2>6. e.did <= 1 BY <1>7, <2>1
  <2>7. Told(o, e, token') BY <1>1, <2>1, <2>5, <2>6 DEF Told
  <2>8. GoesOn(p, e, token') BY <1>1, <1>6, <2>1, <2>7 DEF GoesOn, Underway
  <2>9. QED BY <1>3, <1>10, <2>2, <2>8 DEF StepOf
<1>11. CASE ~OptionIsSet(h) /\ Len(c) # 1
  <2> DEFINE t == Tail(c)
             e == Ready(s, t)
  <2>1. /\ t \in Seq(Calls) /\ h.op \in {"look", "option"}
        /\ Plain(t) \/ (Toggling(t) /\ Checking(c))
    BY <1>1, <1>11, FirstCall
  <2>2. /\ e \in Runs /\ e.pc \in {"prompt", "call"} /\ e.calls = t /\ e.wrong = 0
        /\ e.did = 0 /\ ~e.lost /\ e.alone = o.alone
    BY <1>7, <1>8, <2>1, ReadyIs
  <2>3. Succeeded(s) = e BY <1>8, <1>11 DEF Succeeded
  <2> HIDE DEF e
  <2>4. token'.always = token.always BY <1>4, <1>6, <2>1
  <2>5. Underway(e) BY <2>1, <2>2 DEF Underway
  <2>6. ASSUME Toggling(t) PROVE token.always # t[1].what
    <3>1. ~Plain(t) BY <2>6 DEF Plain, Toggling
    <3>2. h.op = "option" /\ t[1].what = h.what BY <1>1, <2>1, <3>1, FirstCall
    <3>3. QED BY <1>11, <3>2 DEF OptionIsSet
  <2>7. GoesOn(p, e, token') BY <1>1, <1>6, <2>2, <2>4, <2>5, <2>6 DEF GoesOn
  <2>8. QED BY <1>3, <1>11, <2>3, <2>7 DEF StepOf
<1>12. QED BY <1>9, <1>10, <1>11

LEMMA StepCallWrongPin == ASSUME Inv, NEW p \in Procs, CallWrongPin(p) PROVE StepOf(p)
<1> DEFINE r == [run[p] EXCEPT !.wrong = @ + 1]
<1>1. run[p] \in Runs /\ run[p].pc = "call" /\ run[p].wrong = 0 /\ run[p].did = 0
  BY DEF CallWrongPin, Inv, Types, Underway
<1>2. r \in Runs /\ r.did = 0
  <2>1. run[p].wrong + 1 = 1 BY <1>1
  <2>2. r = [run[p] EXCEPT !.wrong = 1] BY <2>1
  <2>3. QED BY <1>1, <2>2 DEF Runs
<1>3. run' = [run EXCEPT ![p] = Failed(p, r, "pin")]
  <2>1. p \in DOMAIN run BY DEF Inv, Types
  <2>2. QED BY <2>1 DEF CallWrongPin
<1>4. token' \in TokenStates /\ token'.always = token.always
  <2>1. token.wrong + 1 \in Nat BY DEF Inv, Types, TokenStates
  <2>2. token' = [token EXCEPT !.wrong = token.wrong + 1] BY DEF CallWrongPin
  <2>3. QED BY <2>1, <2>2 DEF Inv, Types, TokenStates
<1> HIDE DEF r
<1>5. Failed(p, r, "pin") = Exit(r, 1) BY DEF Failed, ShouldRetry, AfterFailure
<1>6. GoesOn(p, Exit(r, 1), token') BY <1>1, <1>2, <1>4, GivesUp
<1>7. QED BY <1>3, <1>5, <1>6 DEF StepOf

LEMMA StepCallUnauthorized == ASSUME Inv, NEW p \in Procs, CallUnauthorized(p) PROVE StepOf(p)
<1> DEFINE o == run[p]
           r == [o EXCEPT !.pc = "prompt", !.tried = TRUE]
<1>1. /\ o \in Runs /\ o.pc = "call" /\ o.did = 0 /\ Underway(o) /\ HasOpen(p)
      /\ token' = token /\ token \in TokenStates
  BY DEF CallUnauthorized, Inv, Types, Underway, HasOpen
<1>2. run' = [run EXCEPT ![p] = Failed(p, o, "authorize")]
  <2>1. p \in DOMAIN run BY DEF Inv, Types
  <2>2. QED BY <2>1 DEF CallUnauthorized
<1>3. CASE Failed(p, o, "authorize") = Exit(o, 1)
  <2>1. GoesOn(p, Exit(o, 1), token') BY <1>1, GivesUp
  <2>2. QED BY <1>2, <1>3, <2>1 DEF StepOf
<1>4. CASE Failed(p, o, "authorize") = r
  <2>1. /\ r \in Runs /\ r.pc = "prompt" /\ r.calls = o.calls /\ r.wrong = o.wrong
        /\ r.did = o.did /\ r.lost = o.lost /\ r.alone = o.alone
    BY <1>1 DEF Runs
  <2> HIDE DEF r
  <2>2. Underway(r) BY <1>1, <2>1 DEF Underway
  <2>3. Toggling(r.calls) /\ r.alone => token.always # r.calls[1].what
    BY <1>1, <2>1 DEF Inv, Alone
  <2>4. GoesOn(p, r, token') BY <1>1, <2>1, <2>2, <2>3 DEF GoesOn
  <2>5. QED BY <1>2, <1>4, <2>4 DEF StepOf
<1>5. QED BY <1>3, <1>4 DEF Failed, AfterFailure

LEMMA StepCallFails == ASSUME Inv, NEW p \in Procs, CallFails(p) PROVE StepOf(p)
<1>1. /\ run[p] \in Runs /\ run[p].pc = "call" /\ run[p].did = 0
      /\ token' = token /\ token \in TokenStates
  BY DEF CallFails, Inv, Types, Underway
<1>2. run' = [run EXCEPT ![p] = Failed(p, run[p], "other")]
  <2>1. p \in DOMAIN run BY DEF Inv, Types
  <2>2. QED BY <2>1 DEF CallFails
<1>3. Failed(p, run[p], "other") = Exit(run[p], 1) BY DEF Failed, ShouldRetry, AfterFailure
<1>4. GoesOn(p, Exit(run[p], 1), token') BY <1>1, GivesUp
<1>5. QED BY <1>2, <1>3, <1>4 DEF StepOf

LEMMA StepCallLost == ASSUME Inv, NEW p \in Procs, CallLost(p) PROVE StepOf(p)
<1> DEFINE o == run[p]
           h == Head(run[p].calls)
           r == [o EXCEPT !.lost = TRUE, !.did = @ + Changes(h)]
<1>1. o \in Runs /\ o.pc = "call" /\ o.did = 0 /\ Underway(o) /\ HasOpen(p) /\ token \in TokenStates
  BY DEF CallLost, Inv, Types, Underway, HasOpen
<1>2. h \in Calls
  <2>1. o.calls \in Seq(Calls) BY <1>1 DEF Runs
  <2>2. Making(o.calls) BY <1>1 DEF Underway, Making
  <2>3. QED BY <2>1, <2>2, FirstCall
<1>3. token' \in TokenStates
  <2>1. token' \in Effect(h, token) BY DEF CallLost, Current
  <2>2. QED BY <1>1, <1>2, <2>1, EffectIs
<1>4. r \in Runs /\ r.lost
  <2>1. o.did + Changes(h) \in {0, 1} BY <1>1 DEF Changes
  <2>2. QED BY <1>1, <2>1, Zenon DEF Runs
<1>5. run' = [run EXCEPT ![p] = Failed(p, r, "other")]
  <2>1. p \in DOMAIN run BY DEF Inv, Types
  <2>2. QED BY <2>1 DEF CallLost, Current
<1> HIDE DEF r
<1>6. Failed(p, r, "other") = Exit(r, 1) BY DEF Failed, ShouldRetry, AfterFailure
<1>7. GoesOn(p, Exit(r, 1), token') BY <1>1, <1>3, <1>4, GivesUp
<1>8. QED BY <1>5, <1>6, <1>7 DEF StepOf

-----------------------------------------------------------------------------
(* All steps.                                                              *)

\* Who opens the token finds out whether another has it open, and so do they.
LEMMA StepOpenDev == ASSUME Inv, NEW p \in Procs, OpenDev(p) PROVE Inv' /\ Tells
<1> DEFINE busy == {q \in Procs \ {p} : HasOpen(q)}
           s == [run[p] EXCEPT !.haspin = token.pin # None, !.alone = busy = {}]
           r == Ready(s, run[p].calls)
<1>1. /\ run \in [Procs -> Runs] /\ run[p] \in Runs /\ run[p].pc = "start" /\ token' = token
      /\ token \in TokenStates /\ run' = [Accompanied EXCEPT ![p] = r]
  BY DEF OpenDev, Inv, Types
<1>2. /\ run[p].calls \in Seq(Calls) /\ run[p].wrong = 0 /\ run[p].did = 0 /\ ~run[p].lost
      /\ Plain(run[p].calls) \/ Checking(run[p].calls)
  <2>1. run[p].calls \in Seq(Calls) BY <1>1 DEF Runs
  <2>2. Underway(run[p]) BY DEF Inv
  <2>3. QED BY <1>1, <2>1, <2>2 DEF Underway
<1>3. /\ s \in Runs /\ s.wrong = 0 /\ s.did = 0 /\ ~s.lost /\ (s.alone <=> busy = {})
  BY <1>1, <1>2 DEF Runs
<1> HIDE DEF s
<1>4. /\ r \in Runs /\ r.pc \in {"prompt", "call"} /\ r.calls = run[p].calls /\ r.wrong = 0
      /\ r.did = 0 /\ ~r.lost /\ r.alone = s.alone
  BY <1>2, <1>3, ReadyIs
<1> HIDE DEF r
<1>5. Underway(r) BY <1>2, <1>4 DEF Underway
<1>6. /\ Accompanied \in [Procs -> Runs]
      /\ \A q \in Procs : ~HasOpen(q) => Accompanied[q] = run[q]
      /\ \A q \in Procs : /\ Accompanied[q].pc = run[q].pc /\ Accompanied[q].calls = run[q].calls
                          /\ Accompanied[q].wrong = run[q].wrong /\ Accompanied[q].did = run[q].did
                          /\ Accompanied[q].lost = run[q].lost
                          /\ HasOpen(q) => ~Accompanied[q].alone
  <2>1. \A q \in Procs : /\ run[q] \in Runs /\ [run[q] EXCEPT !.alone = FALSE] \in Runs
                         /\ ~[run[q] EXCEPT !.alone = FALSE].alone
    BY <1>1 DEF Runs
  <2>2. \A q \in Procs : Accompanied[q] = IF HasOpen(q) THEN [run[q] EXCEPT !.alone = FALSE] ELSE run[q]
    BY DEF Accompanied
  <2>3. \A q \in Procs : /\ [run[q] EXCEPT !.alone = FALSE].pc = run[q].pc
                         /\ [run[q] EXCEPT !.alone = FALSE].calls = run[q].calls
                         /\ [run[q] EXCEPT !.alone = FALSE].wrong = run[q].wrong
                         /\ [run[q] EXCEPT !.alone = FALSE].did = run[q].did
                         /\ [run[q] EXCEPT !.alone = FALSE].lost = run[q].lost
    OBVIOUS
  <2>4. Accompanied \in [Procs -> Runs] BY <2>1 DEF Accompanied
  <2>5. QED BY <2>1, <2>2, <2>3, <2>4
<1>7. /\ run' \in [Procs -> Runs] /\ run'[p] = r
      /\ \A q \in Procs \ {p} : run'[q] = Accompanied[q]
  BY <1>1, <1>4, <1>6
<1>8. Types' BY <1>1, <1>7 DEF Types
<1>9. \A q \in Procs : Underway(run'[q])
  <2> TAKE q \in Procs
  <2>1. CASE q = p BY <1>5, <1>7, <2>1
  <2>2. CASE q # p
    <3>1. Underway(run[q]) BY DEF Inv
    <3>2. Underway(Accompanied[q]) BY <1>6, <3>1 DEF Underway
    <3>3. QED BY <1>7, <2>2, <3>2
  <2>3. QED BY <2>1, <2>2
<1>10. \A q \in Procs \ {p} : HasOpen(q)' => q \in busy /\ ~run'[q].alone
  BY <1>6, <1>7 DEF HasOpen
<1>11. \A a, b \in Procs : a # b /\ HasOpen(a)' /\ HasOpen(b)' => ~run'[a].alone
  <2> SUFFICES ASSUME NEW a \in Procs, NEW b \in Procs, a # b, HasOpen(a)', HasOpen(b)'
               PROVE  ~run'[a].alone
    OBVIOUS
  <2>1. CASE a = p
    <3>1. b \in busy BY <1>10, <2>1
    <3>2. QED BY <1>3, <1>4, <1>7, <2>1, <3>1
  <2>2. CASE a # p BY <1>10, <2>2
  <2>3. QED BY <2>1, <2>2
<1>12. \A q \in Procs : HasOpen(q)' /\ Toggling(run'[q].calls) => ~run'[q].alone
  <2> TAKE q \in Procs
  <2>1. CASE q = p
    <3>1. ~Toggling(run[p].calls) BY <1>2 DEF Plain, Checking, Toggling
    <3>2. QED BY <1>4, <1>7, <2>1, <3>1
  <2>2. CASE q # p BY <1>10, <2>2
  <2>3. QED BY <2>1, <2>2
<1>13. Alone' BY <1>11, <1>12 DEF Alone, HasOpen
<1>14. Tells
  <2>1. \A q \in Procs : ~Exits(q)
    <3> TAKE q \in Procs
    <3>1. CASE q = p BY <1>4, <1>7, <3>1 DEF Exits
    <3>2. CASE q # p BY <1>6, <1>7, <3>2 DEF Exits
    <3>3. QED BY <3>1, <3>2
  <2>2. QED BY <2>1 DEF Tells
<1>15. QED BY <1>8, <1>9, <1>13, <1>14 DEF Inv

LEMMA InitInv == ASSUME Init PROVE Inv
<1>1. run = [p \in Procs |-> Idle] /\ Idle \in Runs /\ Idle.pc = "done" BY IdleIs DEF Init
<1>2. token \in TokenStates
  <2>1. {"rk", "finger", "blob"} \in SUBSET Whats /\ Pins \cup {None} \subseteq Whats BY DEF Whats
  <2>2. QED BY <2>1 DEF Init, TokenStates
<1>3. Types BY <1>1, <1>2 DEF Types
<1>4. \A p \in Procs : run[p].pc = "done" BY <1>1
<1>5. QED BY <1>3, <1>4 DEF Inv, Underway, Alone, HasOpen

LEMMA StepInv == ASSUME Inv, [Next]_vars PROVE Inv' /\ Tells
<1>1. CASE UNCHANGED vars
  BY <1>1 DEF vars, Inv, Types, Alone, HasOpen, Tells, Exits
<1>2. CASE Next
  <2>1. PICK p \in Procs :
          \/ Main(p) \/ OpenDev(p) \/ Fails(p) \/ Prompt(p)
          \/ CallSucceeds(p) \/ CallWrongPin(p) \/ CallUnauthorized(p) \/ CallFails(p) \/ CallLost(p)
    BY <1>2 DEF Next
  <2>2. CASE OpenDev(p) BY <2>2, StepOpenDev
  <2>3. CASE Main(p) BY <2>3, StepMain, StepOfKeeps
  <2>4. CASE Fails(p) BY <2>4, StepFails, StepOfKeeps
  <2>5. CASE Prompt(p) BY <2>5, StepPrompt, StepOfKeeps
  <2>6. CASE CallSucceeds(p) BY <2>6, StepCallSucceeds, StepOfKeeps
  <2>7. CASE CallWrongPin(p) BY <2>7, StepCallWrongPin, StepOfKeeps
  <2>8. CASE CallUnauthorized(p) BY <2>8, StepCallUnauthorized, StepOfKeeps
  <2>9. CASE CallFails(p) BY <2>9, StepCallFails, StepOfKeeps
  <2>10. CASE CallLost(p) BY <2>10, StepCallLost, StepOfKeeps
  <2>11. QED BY <2>1, <2>2, <2>3, <2>4, <2>5, <2>6, <2>7, <2>8, <2>9, <2>10
<1>3. QED BY <1>1, <1>2

\* A run presents at most one wrong PIN, whatever the other runs do to the PIN between
\* its calls: a call refused for its PIN is never made again (should_retry_with_pin).
THEOREM WrongPinsAlways == Spec => []WrongPins
<1>1. Init => Inv BY InitInv
<1>2. Inv /\ [Next]_vars => Inv' BY StepInv
<1>3. Inv => WrongPins
  <2> SUFFICES ASSUME Inv, NEW p \in Procs PROVE run[p].wrong <= 1 BY DEF WrongPins
  <2>1. run[p].wrong \in {0, 1} BY Zenon DEF Inv, Types, Runs
  <2>2. QED BY <2>1
<1>4. QED BY <1>1, <1>2, <1>3, PTL DEF Spec

\* The exit status of fido2-token tells what happened to the token: 0, that it is as the
\* command line asked (for a run that had it alone), 1, that the run did not change it
\* (unless a reply was lost); and no run changes it twice.
THEOREM StatusTellsAlways == Spec => StatusTells
<1>1. Init => Inv BY InitInv
<1>2. Inv /\ [Next]_vars => Inv' BY StepInv
<1>3. Inv /\ [Next]_vars =>
        [\A p \in Procs : Exits(p) =>
           /\ run'[p].status = 0 /\ run'[p].alone => Achieved(Last(run[p].calls), token')
           /\ run'[p].status = 1 /\ ~run'[p].lost => run'[p].did = 0
           /\ run'[p].did <= 1]_vars
  BY StepInv DEF Tells, Told
<1>4. QED BY <1>1, <1>2, <1>3, PTL DEF Spec, StatusTells

-----------------------------------------------------------------------------
(* Numbers and sequences.                                                  *)

LEMMA LeastIndex ==
  ASSUME NEW T, T \subseteq Nat, T # {}
  PROVE  \E x \in T : \A y \in T : x <= y
<1> DEFINE R == {p \in Nat \X Nat : p[1] < p[2]}
<1>1. IsWellFoundedOn(R, Nat) BY NatLessThanWellFounded DEF OpToRel
<1>2. \E x \in T : \A y \in T : <<y, x>> \notin R
  <2> HIDE DEF R
  <2> QED BY <1>1, WFMin
<1>3. ASSUME NEW x \in Nat, NEW y \in Nat, <<y, x>> \notin R
      PROVE  x <= y
  <2>1. <<y, x>> \in Nat \X Nat BY <1>3
  <2>2. ~ (<<y, x>>[1] < <<y, x>>[2]) BY <1>3, <2>1
  <2>3. QED BY <2>2
<1>4. QED BY <1>2, <1>3

\* There is a k-th number.
LEMMA KthIsIn ==
  ASSUME NEW n \in Nat, NEW I \in SUBSET (0 .. n), NEW k \in 1 .. Cardinality(I)
  PROVE  Kth(I, k) \in I
<1> DEFINE B(i) == {m \in I : m <= i}
           T == {i \in 0 .. n : Cardinality(B(i)) >= k}
<1>1. IsFiniteSet(I) /\ Cardinality(I) \in Nat
  <2>1. IsFiniteSet(0 .. n) BY FS_Interval
  <2>2. QED BY <2>1, FS_Subset, FS_CardinalityType
<1>2. \A i \in 0 .. n : IsFiniteSet(B(i)) /\ Cardinality(B(i)) \in Nat
  <2> TAKE i \in 0 .. n
  <2>1. B(i) \in SUBSET I OBVIOUS
  <2> HIDE DEF B
  <2>2. QED BY <1>1, <2>1, FS_Subset, FS_CardinalityType
<1> \A m \in I : m \in Int /\ 0 <= m /\ m <= n OBVIOUS
<1>3. n \in T
  <2>1. B(n) = I
    <3>1. \A m : m \in B(n) <=> m \in I OBVIOUS
    <3> HIDE DEF B
    <3>2. QED BY <3>1
  <2>2. Cardinality(I) >= k BY <1>1
  <2> HIDE DEF B
  <2>3. QED BY <2>1, <2>2
<1>4. T \subseteq 0 .. n /\ \A i \in 0 .. n : i \in T <=> Cardinality(B(i)) >= k OBVIOUS
<1> HIDE DEF T
<1>5. PICK i \in T : \A j \in T : i <= j
  <2>1. T \subseteq Nat BY <1>4
  <2>2. QED BY <1>3, <2>1, LeastIndex
<1>6. i \in 0 .. n /\ Cardinality(B(i)) >= k /\ Cardinality(B(i)) \in Nat /\ IsFiniteSet(B(i)) BY <1>2, <1>4
<1> DEFINE D == B(i) \ {i}
<1>7. Cardinality(D) \in Nat /\ Cardinality(D) < k
  <2>1. CASE i = 0
    <3>1. D = {}
      <4>1. \A m \in I : m <= i => m = i
        <5> TAKE m \in I
        <5>1. m \in Int /\ 0 <= m OBVIOUS
        <5>2. QED BY <2>1, <5>1
      <4> \A m : m \notin D BY <4>1
      <4> HIDE DEF D
      <4>2. QED OBVIOUS
    <3>2. Cardinality(D) = 0 BY <3>1, FS_EmptySet
    <3>3. QED BY <3>2
  <2>2. CASE i # 0
    <3>1. i - 1 \in 0 .. n /\ i - 1 \notin T BY <1>4, <1>5, <1>6, <2>2
    <3>2. ~(Cardinality(B(i - 1)) >= k) /\ Cardinality(B(i - 1)) \in Nat
      <4> HIDE DEF B
      <4> QED BY <1>2, <1>4, <3>1
    <3>3. D = B(i - 1)
      <4>1. \A m \in I : m <= i /\ m # i <=> m <= i - 1
        <5> TAKE m \in I
        <5>1. m \in Int /\ i \in Int BY <1>6
        <5>2. QED BY <5>1
      <4>2. \A m : m \in D <=> m \in B(i - 1) BY <4>1
      <4> HIDE DEF D, B
      <4>3. QED BY <4>2
    <3> HIDE DEF D, B
    <3>4. QED BY <3>2, <3>3
  <2>3. QED BY <2>1, <2>2
<1>8. Cardinality(D) = IF i \in B(i) THEN Cardinality(B(i)) - 1 ELSE Cardinality(B(i))
  <2> HIDE DEF B
  <2> QED BY <1>6, FS_RemoveElement
<1>9. i \in B(i) /\ Cardinality(B(i)) = k
  <2> HIDE DEF B, D
  <2> QED BY <1>6, <1>7, <1>8
<1>10. i \in I /\ Cardinality({m \in I : m <= i}) = k BY <1>9
<1>11. QED BY <1>10 DEF Kth

LEMMA SubIs ==
  ASSUME NEW S, NEW seq \in Seq(S), NEW I \in SUBSET DOMAIN seq
  PROVE  /\ Sub(seq, I) \in Seq({seq[i] : i \in I})
         /\ DOMAIN Sub(seq, I) = 1 .. Len(Sub(seq, I))
<1> DEFINE c == Cardinality(I)
           n == Len(seq)
           s == Sub(seq, I)
<1>1. n \in Nat /\ I \in SUBSET (0 .. n) OBVIOUS
<1>2. c \in Nat
  <2>1. IsFiniteSet(0 .. n) BY <1>1, FS_Interval
  <2>2. QED BY <1>1, <2>1, FS_Subset, FS_CardinalityType
<1>3. \A k \in 1 .. c : Kth(I, k) \in I
  <2> HIDE DEF n
  <2> QED BY <1>1, KthIsIn
<1>4. s = [k \in 1 .. c |-> seq[Kth(I, k)]] BY DEF Sub
<1> HIDE DEF c, s
<1>5. s \in [1 .. c -> {seq[i] : i \in I}] BY <1>3, <1>4
<1>6. s \in Seq({seq[i] : i \in I}) BY <1>2, <1>5
<1>7. QED BY <1>6 DEF s

-----------------------------------------------------------------------------
(* The list of tokens.                                                     *)

Place == [dev : Tokens \cup Others, driver : AllDrivers, number : Nat, busy : BOOLEAN]

\* Two nodes of a driver have different numbers.
Numbered ==
  /\ places \in Seq(Place)
  /\ \A i, j \in DOMAIN places :
       i # j /\ places[i].driver = places[j].driver => places[i].number # places[j].number

\* The places a manifest comes to: all but the readers after the first MaxReaders.
Reached ==
  {a \in ToSet(places) :
     a.driver = "reader" => \E k \in 1 .. Len(At("reader")) : k <= MaxReaders /\ At("reader")[k] = a}

\* The entries for places that copy_info accepts.
Listable == {Entry(a) : a \in {b \in Reached : CopyInfo(b)}}

\* While nothing has changed, the user has seen such entries only.
ListInv ==
  /\ Numbered /\ sys \in Systems
  /\ listed \in Seq([path : AllDrivers \X Int, dev : Tokens \cup Others])
  /\ ~changed => \A i \in DOMAIN listed : listed[i] \in Listable

LEMMA AtIs ==
  ASSUME Numbered, NEW d
  PROVE  /\ At(d) \in Seq(Nodes(d)) /\ DOMAIN At(d) = 1 .. Len(At(d))
         /\ Nodes(d) \subseteq Place /\ \A a \in Nodes(d) : a \in ToSet(places) /\ a.driver = d
<1> DEFINE I == {i \in DOMAIN places : places[i].driver = d}
<1>1. places \in Seq(Place) /\ I \in SUBSET DOMAIN places BY DEF Numbered
<1>2. {places[i] : i \in I} = Nodes(d) BY DEF Nodes, ToSet
<1>3. ToSet(places) \subseteq Place BY <1>1 DEF ToSet
<1>4. At(d) = Sub(places, I) BY DEF At
<1> HIDE DEF I
<1>5. At(d) \in Seq(Nodes(d)) /\ DOMAIN At(d) = 1 .. Len(At(d)) BY <1>1, <1>2, <1>4, SubIs
<1>6. QED BY <1>3, <1>5 DEF Nodes

\* The k-th number of those that are free is one that no node has.
LEMMA FreeNumberIs ==
  ASSUME Numbered, Len(places) < MaxPlaces, NEW d
  PROVE  FreeNumber(d) \in Nat /\ \A a \in Nodes(d) : a.number # FreeNumber(d)
<1> DEFINE used == {a.number : a \in Nodes(d)}
           free == (0 .. MaxPlaces) \ used
           l == Len(places)
<1>1. /\ MaxPlaces \in Nat /\ l \in Nat /\ DOMAIN places = 1 .. l /\ places \in Seq(Place)
      /\ l < MaxPlaces
  BY ListAssumption DEF Numbered
<1>2. \A n \in used : \E i \in 1 .. l : places[i].driver = d /\ places[i].number = n
  BY <1>1 DEF Nodes, ToSet
<1> HIDE DEF used, l
<1>3. free # {}
  <2> SUFFICES ASSUME free = {} PROVE FALSE OBVIOUS
  <2>1. \A n \in 0 .. MaxPlaces : n \in used OBVIOUS
  <2> DEFINE f == [n \in 0 .. MaxPlaces |-> CHOOSE i \in 1 .. l : places[i].driver = d /\ places[i].number = n]
  <2>2. \A n \in 0 .. MaxPlaces : f[n] \in 1 .. l /\ places[f[n]].number = n BY <1>2, <2>1
  <2>3. f \in [0 .. MaxPlaces -> 1 .. l] BY <2>2
  <2> HIDE DEF f
  <2>4. /\ IsFiniteSet(0 .. MaxPlaces) /\ Cardinality(0 .. MaxPlaces) = MaxPlaces + 1
        /\ IsFiniteSet(1 .. l) /\ Cardinality(1 .. l) = l
    <3>1. 0 \in Int /\ 1 \in Int /\ MaxPlaces \in Int /\ l \in Int BY <1>1
    <3>2. Cardinality(0 .. MaxPlaces) = IF 0 > MaxPlaces THEN 0 ELSE MaxPlaces - 0 + 1 BY <3>1, FS_Interval
    <3>3. Cardinality(1 .. l) = IF 1 > l THEN 0 ELSE l - 1 + 1 BY <3>1, FS_Interval
    <3>4. IsFiniteSet(0 .. MaxPlaces) /\ IsFiniteSet(1 .. l) BY <3>1, FS_Interval
    <3>5. QED BY <1>1, <3>2, <3>3, <3>4
  <2>5. Cardinality(1 .. l) < Cardinality(0 .. MaxPlaces) BY <1>1, <2>4
  <2>6. \E x, y \in 0 .. MaxPlaces : x # y /\ f[x] = f[y]
    <3> DEFINE S == 0 .. MaxPlaces  T == 1 .. l
    <3>1. IsFiniteSet(S) /\ IsFiniteSet(T) /\ Cardinality(T) < Cardinality(S) /\ f \in [S -> T]
      BY <2>3, <2>4, <2>5
    <3> HIDE DEF S, T
    <3>2. \E x, y \in S : x # y /\ f[x] = f[y] BY <3>1, FS_PigeonHole
    <3>3. QED BY <3>2 DEF S
  <2>7. QED BY <2>2, <2>6
<1>4. PICK n \in free : \A m \in free : n <= m
  <2>1. free \subseteq Nat BY <1>1
  <2> HIDE DEF free
  <2>2. QED BY <1>3, <2>1, LeastIndex
<1>5. n \in 0 .. MaxPlaces /\ n \notin used OBVIOUS
<1>6. \A k \in 0 .. n - 1 : k \in used
  <2> TAKE k \in 0 .. n - 1
  <2>1. k \in 0 .. MaxPlaces /\ ~(n <= k) BY <1>1, <1>5
  <2>2. QED BY <1>4, <2>1
<1>7. FreeNumber(d) \in 0 .. MaxPlaces /\ FreeNumber(d) \notin used
  BY <1>5, <1>6 DEF FreeNumber, used
<1>8. QED BY <1>7 DEF used

-----------------------------------------------------------------------------
(* What a path opens.                                                      *)

\* The reader of an entry is found by its place among the readers ...
LEMMA ReaderOpens ==
  ASSUME Numbered, NEW a \in Reached, CopyInfo(a), a.driver = "reader"
  PROVE  /\ Entry(a).path \in AllDrivers \X Int
         /\ OpenPath(Entry(a).path) = IF InUse(Entry(a).path) THEN Absent ELSE a.dev
<1> DEFINE s == At("reader")
           I == {i \in 1 .. Len(s) : s[i] = a}
           m == SelectInSeq(s, LAMBDA r : r = a)
<1>1. s \in Seq(Nodes("reader")) BY AtIs
<1>2. PICK k \in 1 .. Len(s) : k <= MaxReaders /\ s[k] = a BY DEF Reached
<1>3. m = IF I # {} THEN Min(I) ELSE 0 BY DEF SelectInSeq
<1>4. I \subseteq Nat /\ k \in I BY <1>1, <1>2
<1>5. m \in I /\ m <= k
  <2> HIDE DEF I, m
  <2>1. PICK x \in I : \A y \in I : x <= y BY <1>4, LeastIndex
  <2>2. m = CHOOSE z \in I : \A y \in I : z <= y BY <1>3, <1>4 DEF Min
  <2>3. QED BY <1>4, <2>1, <2>2
<1>6. m \in 1 .. Len(s) /\ s[m] = a /\ Len(s) \in Nat /\ k \in Nat /\ MaxReaders \in Nat
  BY <1>1, <1>2, <1>5, ListAssumption
<1>7. Entry(a).path = <<"reader", m - 1>> BY DEF Entry, PathOf
<1> HIDE DEF m, I, s
<1>8. GetReader(m - 1) = {a}
  <2>1. m - 1 < MaxReaders /\ m - 1 < Len(s) /\ (m - 1) + 1 = m BY <1>2, <1>5, <1>6
  <2>2. QED BY <1>6, <2>1 DEF GetReader, s
<1>9. <<"reader", m - 1>> \in AllDrivers \X Int BY <1>6 DEF AllDrivers
<1>10. <<"reader", m - 1>> # Absent BY <1>9, ListAssumption
<1> DEFINE opens == {b \in {a} : OpensAlone(b) => ~b.busy}
<1>11. opens = {a} BY DEF OpensAlone
<1>12. OpenPath(<<"reader", m - 1>>) = IF opens = {} THEN Absent ELSE (CHOOSE b \in opens : TRUE).dev
  BY <1>8, <1>10 DEF OpenPath
<1> HIDE DEF opens
<1>13. ~InUse(<<"reader", m - 1>>)
  <2> SUFFICES ASSUME NEW b \in ToSet(places), OpensAlone(b) PROVE PathOf(b) # <<"reader", m - 1>>
    BY DEF InUse
  <2>1. b.driver # "reader" BY DEF OpensAlone
  <2>2. PathOf(b) = <<b.driver, b.number>> BY <2>1 DEF PathOf
  <2>3. QED BY <2>1, <2>2
<1>14. QED BY <1>7, <1>9, <1>11, <1>12, <1>13

\* ... and another place by its driver and number, if it opens.
LEMMA NodeOpens ==
  ASSUME Numbered, NEW a \in Reached, CopyInfo(a), a.driver # "reader"
  PROVE  /\ Entry(a).path \in AllDrivers \X Int
         /\ OpenPath(Entry(a).path) = IF InUse(Entry(a).path) THEN Absent ELSE a.dev
<1> DEFINE p == <<a.driver, a.number>>
           opens == {b \in {c \in Nodes(p[1]) : c.number = p[2]} : OpensAlone(b) => ~b.busy}
<1>1. a \in ToSet(places) /\ a \in Place
  BY DEF Reached, Numbered, ToSet
<1>2. Entry(a).path = p BY DEF Entry, PathOf
<1>3. p[1] = a.driver /\ p[2] = a.number /\ p \in AllDrivers \X Int BY <1>1 DEF Place
<1>4. p # Absent BY <1>3, ListAssumption
<1>5. \A c \in Nodes(a.driver) : c.number = a.number => c = a
  BY <1>1 DEF Nodes, ToSet, Numbered
<1>6. a \in Nodes(a.driver) BY <1>1 DEF Nodes
<1>7. opens = IF OpensAlone(a) /\ a.busy THEN {} ELSE {a} BY <1>3, <1>5, <1>6
<1>8. OpenPath(p) = IF opens = {} THEN Absent ELSE (CHOOSE b \in opens : TRUE).dev
  <2> DEFINE found == IF p = Absent THEN {}
                      ELSE IF p[1] = "reader" THEN GetReader(p[2])
                      ELSE {c \in Nodes(p[1]) : c.number = p[2]}
             free(f) == {b \in f : OpensAlone(b) => ~b.busy}
  <2>1. found = {c \in Nodes(p[1]) : c.number = p[2]} BY <1>3, <1>4
  <2>2. OpenPath(p) = IF free(found) = {} THEN Absent ELSE (CHOOSE b \in free(found) : TRUE).dev
    BY DEF OpenPath
  <2> HIDE DEF found
  <2>3. free(found) = opens BY <2>1
  <2> HIDE DEF free, opens
  <2>4. QED BY <2>2, <2>3
<1>9. InUse(p) <=> OpensAlone(a) /\ a.busy
  <2>1. ASSUME NEW b \in ToSet(places), OpensAlone(b), PathOf(b) = p PROVE b = a
    <3>1. b.driver # "reader" BY <2>1 DEF OpensAlone
    <3>2. <<b.driver, b.number>> = <<a.driver, a.number>> BY <2>1, <3>1 DEF PathOf
    <3>3. b \in Nodes(a.driver) /\ b.number = a.number BY <3>2 DEF Nodes
    <3>4. QED BY <1>5, <3>3
  <2>2. PathOf(a) = p BY DEF PathOf
  <2>3. QED BY <1>1, <2>1, <2>2 DEF InUse
<1> HIDE DEF opens, p
<1>10. QED BY <1>2, <1>3, <1>7, <1>8, <1>9

LEMMA ListableOpens ==
  ASSUME Numbered, NEW e \in Listable
  PROVE  /\ OpenPath(e.path) = IF InUse(e.path) THEN Absent ELSE e.dev
         /\ e \in [path : AllDrivers \X Int, dev : Tokens \cup Others]
<1>1. PICK a \in Reached : CopyInfo(a) /\ e = Entry(a) BY DEF Listable
<1>2. /\ OpenPath(e.path) = IF InUse(e.path) THEN Absent ELSE a.dev
      /\ e.path \in AllDrivers \X Int
  BY <1>1, ReaderOpens, NodeOpens
<1>3. a \in Place BY DEF Reached, Numbered, ToSet
<1>4. QED BY <1>1, <1>2, <1>3 DEF Entry, Place

-----------------------------------------------------------------------------
(* What the manifests list.                                                *)

LEMMA EntriesOpen ==
  ASSUME NEW seq \in Seq(Reached)
  PROVE  Entries(seq) \in Seq(Listable)
<1> DEFINE I == {i \in DOMAIN seq : CopyInfo(seq[i])}
           g == Good(seq)
           E == {b \in Reached : CopyInfo(b)}
<1>1. I \in SUBSET DOMAIN seq /\ {seq[i] : i \in I} \subseteq E OBVIOUS
<1>2. g = Sub(seq, I) BY DEF Good
<1> HIDE DEF I, g, E
<1>3. g \in Seq({seq[i] : i \in I}) /\ DOMAIN g = 1 .. Len(g) BY <1>1, <1>2, SubIs
<1>4. Len(g) \in Nat /\ \A k \in 1 .. Len(g) : g[k] \in E BY <1>1, <1>3
<1>5. Entries(seq) = [k \in 1 .. Len(g) |-> Entry(g[k])] BY <1>3 DEF Entries, g
<1>6. \A b \in E : Entry(b) \in Listable BY DEF Listable, E
<1>7. Entries(seq) \in [1 .. Len(g) -> Listable] BY <1>4, <1>5, <1>6
<1>8. QED BY <1>4, <1>7

LEMMA UptoIs ==
  ASSUME NEW S, NEW seq \in Seq(S), NEW n \in Int
  PROVE  Upto(n, seq) \in Seq(S)
<1> DEFINE m == IF n < Len(seq) THEN n ELSE Len(seq)
<1>1. m \in Int /\ m <= Len(seq) OBVIOUS
<1>2. Upto(n, seq) = SubSeq(seq, 1, m) BY DEF Upto
<1> HIDE DEF m
<1>3. SubSeq(seq, 1, m) \in Seq(S) BY <1>1
<1>4. QED BY <1>2, <1>3

LEMMA AtReached ==
  ASSUME Numbered, NEW d, d # "reader"
  PROVE  Entries(At(d)) \in Seq(Listable) /\ Nodes(d) \subseteq Reached
<1>1. Nodes(d) \subseteq Reached BY AtIs DEF Reached
<1>2. At(d) \in Seq(Nodes(d)) BY AtIs
<1>3. At(d) \in Seq(Reached) BY <1>1, <1>2
<1>4. QED BY <1>1, <1>3, EntriesOpen

LEMMA ReadersReached ==
  ASSUME Numbered
  PROVE  Entries(Upto(MaxReaders, At("reader"))) \in Seq(Listable)
<1> DEFINE s == At("reader")
           m == IF MaxReaders < Len(s) THEN MaxReaders ELSE Len(s)
           u == Upto(MaxReaders, s)
<1>1. /\ s \in Seq(Nodes("reader")) /\ MaxReaders \in Nat /\ Len(s) \in Nat
      /\ \A a \in Nodes("reader") : a \in ToSet(places)
  BY AtIs, ListAssumption
<1>2. m \in Nat /\ m <= Len(s) /\ m <= MaxReaders BY <1>1
<1>3. u = SubSeq(s, 1, m) BY DEF Upto
<1> HIDE DEF m, u
<1>4. \A k \in 1 .. m : s[k] \in Reached
  <2> TAKE k \in 1 .. m
  <2>1. k \in 1 .. Len(s) /\ k <= MaxReaders BY <1>1, <1>2
  <2>2. s[k] \in ToSet(places) BY <1>1, <2>1
  <2>3. QED BY <2>1, <2>2 DEF Reached
<1> HIDE DEF s
<1>5. u \in Seq(Reached)
  <2>1. u = [k \in 1 .. m |-> s[k]] BY <1>1, <1>2, <1>3
  <2>2. u \in [1 .. m -> Reached] BY <1>4, <2>1
  <2>3. QED BY <1>2, <2>2
<1>6. QED BY <1>5, EntriesOpen DEF u, s

LEMMA ByNumberReached ==
  ASSUME Numbered, NEW d, d # "reader"
  PROVE  Entries(ByNumber(d)) \in Seq(Listable)
<1> DEFINE numbers == {a.number : a \in Nodes(d)} \cap 0 .. MaxNodes - 1
           c == Cardinality(numbers)
<1>1. MaxNodes \in Nat /\ numbers \in SUBSET (0 .. MaxNodes) BY ListAssumption
<1>2. c \in Nat
  <2> HIDE DEF numbers
  <2>1. IsFiniteSet(0 .. MaxNodes) BY <1>1, FS_Interval
  <2>2. QED BY <1>1, <2>1, FS_Subset, FS_CardinalityType
<1>3. \A k \in 1 .. c : Kth(numbers, k) \in numbers
  <2> HIDE DEF numbers
  <2> QED BY <1>1, KthIsIn
<1>4. \A k \in 1 .. c : (CHOOSE a \in Nodes(d) : a.number = Kth(numbers, k)) \in Nodes(d)
  <2> TAKE k \in 1 .. c
  <2>1. Kth(numbers, k) \in numbers BY <1>3
  <2>2. \E a \in Nodes(d) : a.number = Kth(numbers, k) BY <2>1
  <2> HIDE DEF numbers
  <2>3. QED BY <2>2
<1>5. ByNumber(d) = [k \in 1 .. c |-> CHOOSE a \in Nodes(d) : a.number = Kth(numbers, k)]
  BY DEF ByNumber
<1> HIDE DEF c, numbers
<1>6. ByNumber(d) \in [1 .. c -> Reached] BY <1>4, <1>5, AtReached
<1>7. ByNumber(d) \in Seq(Reached) BY <1>2, <1>6
<1>8. QED BY <1>7, EntriesOpen

LEMMA HidManifestOpens ==
  ASSUME Numbered, sys \in Systems
  PROVE  HidManifest \subseteq Seq(Listable)
<1>1. LinuxManifest \subseteq Seq(Listable) BY AtReached DEF LinuxManifest
<1>2. FreeBSDManifest \subseteq Seq(Listable) BY ByNumberReached DEF FreeBSDManifest
<1>3. NetBSDManifest \subseteq Seq(Listable) BY ByNumberReached DEF NetBSDManifest
<1>4. OpenBSDManifest \subseteq Seq(Listable) BY ByNumberReached DEF OpenBSDManifest
<1>5. OsxManifest \subseteq Seq(Listable)
  <2> SUFFICES ASSUME NEW s \in SetToSeqs(Nodes("hid")) PROVE Entries(s) \in Seq(Listable)
    BY DEF OsxManifest
  <2> DEFINE c == Cardinality(Nodes("hid"))
  <2>1. c \in Nat
    <3> DEFINE D == DOMAIN places
               H == {i \in D : places[i].driver = "hid"}
               f == [i \in H |-> places[i]]
    <3>1. places \in Seq(Place) BY DEF Numbered
    <3>2. D = 1 .. Len(places) /\ Len(places) \in Nat BY <3>1
    <3>3. IsFiniteSet(D) BY <3>2, FS_Interval
    <3>4. IsFiniteSet(H)
      <4>1. H \in SUBSET D OBVIOUS
      <4> HIDE DEF H, D
      <4>2. QED BY <3>3, <4>1, FS_Subset
    <3>5. f \in Surjection(H, Nodes("hid")) BY DEF Surjection, Nodes, ToSet
    <3>6. IsFiniteSet(Nodes("hid")) BY <3>4, <3>5, FS_Surjection
    <3>7. QED BY <3>6, FS_CardinalityType
  <2>2. s \in [1 .. c -> Nodes("hid")] BY DEF SetToSeqs
  <2> HIDE DEF c
  <2>3. s \in [1 .. c -> Reached] BY <2>2, AtReached
  <2>4. s \in Seq(Reached) BY <2>1, <2>3
  <2>5. QED BY <2>4, EntriesOpen
<1>6. WinManifest \subseteq Seq(Listable) BY AtReached DEF WinManifest
<1>7. HidapiManifest \subseteq Seq(Listable) BY AtReached DEF HidapiManifest
<1>8. sys \in AllSystems BY ListAssumption
<1>9. QED BY <1>1, <1>2, <1>3, <1>4, <1>5, <1>6, <1>7, <1>8 DEF HidManifest, AllSystems

LEMMA ManifestOpens ==
  ASSUME Numbered, sys \in Systems, NEW list \in DevInfoManifest
  PROVE  list \in Seq(Listable)
<1>1. ASSUME NEW l \in Seq(Listable), NEW more \in Seq(Listable)
      PROVE  RunManifest(l, more) \in Seq(Listable)
  <2>1. Room - Len(l) \in Int BY ListAssumption
  <2>2. Upto(Room - Len(l), more) \in Seq(Listable) BY <2>1, UptoIs
  <2>3. QED BY <2>2 DEF RunManifest
<1>2. NfcManifest \in Seq(Listable) BY AtReached DEF NfcManifest
<1>3. PcscManifest \in Seq(Listable) BY ReadersReached DEF PcscManifest
<1>4. WinhelloManifest \in Seq(Listable) BY AtReached DEF WinhelloManifest
<1>5. PICK hid \in HidManifest :
        list = RunManifest(RunManifest(RunManifest(RunManifest(<<>>, hid), NfcManifest), PcscManifest),
                           WinhelloManifest)
  BY DEF DevInfoManifest
<1>6. hid \in Seq(Listable) /\ <<>> \in Seq(Listable) BY HidManifestOpens
<1>7. RunManifest(<<>>, hid) \in Seq(Listable) BY <1>1, <1>6
<1>8. RunManifest(RunManifest(<<>>, hid), NfcManifest) \in Seq(Listable) BY <1>1, <1>2, <1>7
<1>9. RunManifest(RunManifest(RunManifest(<<>>, hid), NfcManifest), PcscManifest) \in Seq(Listable)
  BY <1>1, <1>3, <1>8
<1>10. QED BY <1>1, <1>4, <1>5, <1>9

-----------------------------------------------------------------------------
(* Devices come and go.                                                    *)

LEMMA DriversAre == ASSUME sys \in Systems, NEW dev PROVE Drivers(dev) \subseteq AllDrivers
<1>1. sys \in AllSystems BY ListAssumption
<1>2. QED BY <1>1 DEF Drivers, AllSystems, AllDrivers

LEMMA SliceIs ==
  ASSUME NEW S, NEW s \in Seq(S), NEW m \in 1 .. Len(s) + 1, NEW n \in m - 1 .. Len(s)
  PROVE  /\ SubSeq(s, m, n) \in Seq(S) /\ Len(SubSeq(s, m, n)) = n - m + 1
         /\ \A j \in 1 .. n - m + 1 : SubSeq(s, m, n)[j] = s[m + j - 1]
OBVIOUS

LEMMA InsertAtIs ==
  ASSUME NEW S, NEW s \in Seq(S), NEW i \in 1 .. Len(s) + 1, NEW e \in S
  PROVE  /\ InsertAt(s, i, e) \in Seq(S) /\ Len(InsertAt(s, i, e)) = Len(s) + 1
         /\ \A j \in 1 .. Len(s) + 1 :
              InsertAt(s, i, e)[j] = IF j < i THEN s[j] ELSE IF j = i THEN e ELSE s[j - 1]
<1> DEFINE n == Len(s)
           b == SubSeq(s, 1, i - 1)
           x == <<e>>
           c == SubSeq(s, i, n)
           d == b \o x
           t == InsertAt(s, i, e)
<1>1. n \in Nat /\ i \in 1 .. n + 1 OBVIOUS
<1>2. b \in Seq(S) /\ Len(b) = i - 1 /\ \A j \in 1 .. i - 1 : b[j] = s[j]
  <2>1. /\ b \in Seq(S) /\ Len(b) = (i - 1) - 1 + 1
        /\ \A j \in 1 .. (i - 1) - 1 + 1 : b[j] = s[1 + j - 1]
    <3>1. 1 \in 1 .. Len(s) + 1 /\ i - 1 \in 1 - 1 .. Len(s) OBVIOUS
    <3> HIDE DEF b
    <3>2. QED BY <3>1, SliceIs DEF b
  <2> HIDE DEF b, n
  <2>2. (i - 1) - 1 + 1 = i - 1 /\ \A j \in 1 .. i - 1 : 1 + j - 1 = j BY <1>1
  <2>3. QED BY <2>1, <2>2
<1>3. c \in Seq(S) /\ Len(c) = n - i + 1 /\ \A j \in 1 .. n - i + 1 : c[j] = s[i + j - 1]
  <2>1. n \in i - 1 .. Len(s) OBVIOUS
  <2>2. QED BY <2>1, SliceIs
<1>4. x \in Seq(S) /\ Len(x) = 1 /\ x[1] = e OBVIOUS
<1>5. t = d \o c BY DEF InsertAt
<1> HIDE DEF n, b, x, c, t
<1>6. d \in Seq(S) /\ Len(d) = i /\ \A j \in 1 .. i : d[j] = IF j < i THEN b[j] ELSE e
  <2>1. /\ d \in Seq(S) /\ Len(d) = Len(b) + Len(x)
        /\ \A j \in 1 .. Len(b) + Len(x) : d[j] = IF j <= Len(b) THEN b[j] ELSE x[j - Len(b)]
    BY <1>2, <1>4, Concatenated
  <2> HIDE DEF d
  <2>2. Len(b) + Len(x) = i BY <1>1, <1>2, <1>4
  <2>3. ASSUME NEW j \in 1 .. i PROVE d[j] = IF j < i THEN b[j] ELSE e
    <3>1. CASE j < i BY <1>1, <1>2, <2>1, <2>2, <3>1
    <3>2. CASE j = i
      <4>1. j - Len(b) = 1 /\ ~(j <= Len(b)) BY <1>1, <1>2, <3>2
      <4>2. d[j] = x[1] BY <2>1, <2>2, <4>1
      <4>3. QED BY <1>4, <3>2, <4>2
    <3>3. QED BY <1>1, <3>1, <3>2
  <2>4. QED BY <2>1, <2>2, <2>3
<1> HIDE DEF d
<1>7. /\ t \in Seq(S) /\ Len(t) = i + (n - i + 1)
      /\ \A j \in 1 .. i + (n - i + 1) : t[j] = IF j <= i THEN d[j] ELSE c[j - i]
  <2>1. /\ d \o c \in Seq(S) /\ Len(d \o c) = Len(d) + Len(c)
        /\ \A j \in 1 .. Len(d) + Len(c) : (d \o c)[j] = IF j <= Len(d) THEN d[j] ELSE c[j - Len(d)]
    BY <1>3, <1>6, Concatenated
  <2>2. QED BY <1>3, <1>5, <1>6, <2>1
<1>8. i + (n - i + 1) = n + 1 BY <1>1
<1>9. ASSUME NEW j \in 1 .. n + 1
      PROVE  t[j] = IF j < i THEN s[j] ELSE IF j = i THEN e ELSE s[j - 1]
  <2>1. t[j] = IF j <= i THEN d[j] ELSE c[j - i] BY <1>7, <1>8
  <2>2. CASE j <= i BY <1>1, <1>2, <1>6, <2>1, <2>2
  <2>3. CASE j > i
    <3>1. j - i \in 1 .. n - i + 1 /\ i + (j - i) - 1 = j - 1 BY <1>1, <2>3
    <3>2. c[j - i] = s[j - 1] BY <1>3, <3>1
    <3>3. QED BY <1>1, <2>1, <2>3, <3>2
  <2>4. QED BY <1>1, <2>2, <2>3
<1>10. QED BY <1>7, <1>8, <1>9 DEF n, t

LEMMA RemoveAtIs ==
  ASSUME NEW S, NEW s \in Seq(S), NEW i \in 1 .. Len(s)
  PROVE  /\ RemoveAt(s, i) \in Seq(S) /\ Len(RemoveAt(s, i)) = Len(s) - 1
         /\ \A j \in 1 .. Len(s) - 1 : RemoveAt(s, i)[j] = IF j < i THEN s[j] ELSE s[j + 1]
<1> DEFINE n == Len(s)
           b == SubSeq(s, 1, i - 1)
           c == SubSeq(s, i + 1, n)
           t == RemoveAt(s, i)
<1>1. n \in Nat /\ i \in 1 .. n OBVIOUS
<1>2. b \in Seq(S) /\ Len(b) = i - 1 /\ \A j \in 1 .. i - 1 : b[j] = s[j]
  <2>1. /\ b \in Seq(S) /\ Len(b) = (i - 1) - 1 + 1
        /\ \A j \in 1 .. (i - 1) - 1 + 1 : b[j] = s[1 + j - 1]
    <3>1. 1 \in 1 .. Len(s) + 1 /\ i - 1 \in 1 - 1 .. Len(s) OBVIOUS
    <3> HIDE DEF b
    <3>2. QED BY <3>1, SliceIs DEF b
  <2> HIDE DEF b, n
  <2>2. (i - 1) - 1 + 1 = i - 1 /\ \A j \in 1 .. i - 1 : 1 + j - 1 = j BY <1>1
  <2>3. QED BY <2>1, <2>2
<1>3. c \in Seq(S) /\ Len(c) = n - i /\ \A j \in 1 .. n - i : c[j] = s[i + j]
  <2>1. /\ c \in Seq(S) /\ Len(c) = n - (i + 1) + 1
        /\ \A j \in 1 .. n - (i + 1) + 1 : c[j] = s[i + 1 + j - 1]
    <3>1. i + 1 \in 1 .. Len(s) + 1 /\ n \in (i + 1) - 1 .. Len(s) OBVIOUS
    <3>2. QED BY <3>1, SliceIs
  <2> HIDE DEF c, n
  <2>2. n - (i + 1) + 1 = n - i /\ \A j \in 1 .. n - i : i + 1 + j - 1 = i + j BY <1>1
  <2>3. QED BY <2>1, <2>2
<1>4. t = b \o c BY DEF RemoveAt
<1> HIDE DEF n, b, c, t
<1>5. /\ t \in Seq(S) /\ Len(t) = Len(b) + Len(c)
      /\ \A j \in 1 .. Len(b) + Len(c) : t[j] = IF j <= Len(b) THEN b[j] ELSE c[j - Len(b)]
  BY <1>2, <1>3, <1>4, Concatenated
<1>6. Len(b) + Len(c) = n - 1 BY <1>1, <1>2, <1>3
<1>7. ASSUME NEW j \in 1 .. n - 1 PROVE t[j] = IF j < i THEN s[j] ELSE s[j + 1]
  <2>1. t[j] = IF j <= Len(b) THEN b[j] ELSE c[j - Len(b)] BY <1>5, <1>6
  <2>2. CASE j < i
    <3>1. j \in 1 .. i - 1 BY <1>1, <2>2
    <3>2. QED BY <1>2, <2>1, <2>2, <3>1
  <2>3. CASE j >= i
    <3>1. j - (i - 1) \in 1 .. n - i BY <1>1, <2>3
    <3>2. i + (j - (i - 1)) = j + 1 BY <1>1
    <3>3. c[j - (i - 1)] = s[j + 1] BY <1>3, <3>1, <3>2
    <3>4. ~(j <= Len(b)) BY <1>1, <1>2, <2>3
    <3>5. QED BY <1>1, <1>2, <2>1, <2>3, <3>3, <3>4
  <2>4. QED BY <1>1, <2>2, <2>3
<1>8. QED BY <1>5, <1>6, <1>7 DEF n, t

LEMMA PlugKeeps == ASSUME Numbered, sys \in Systems, Plug PROVE Numbered'
<1>1. PICK dev \in Tokens \cup Others, i \in 1 .. Len(places) + 1, driver \in AllDrivers :
        places' = InsertAt(places, i, [dev |-> dev, driver |-> driver, number |-> FreeNumber(driver),
                                       busy |-> FALSE])
  BY DriversAre DEF Plug, Change
<1> DEFINE a == [dev |-> dev, driver |-> driver, number |-> FreeNumber(driver), busy |-> FALSE]
           n == Len(places)
<1>2. places \in Seq(Place) /\ DOMAIN places = 1 .. n /\ n \in Nat /\ n < MaxPlaces /\ i \in 1 .. n + 1
  BY DEF Plug, Numbered
<1>3. FreeNumber(driver) \in Nat /\ \A b \in Nodes(driver) : b.number # FreeNumber(driver)
  BY <1>2, FreeNumberIs
<1>4. a \in Place /\ a.driver = driver /\ a.number = FreeNumber(driver) BY <1>3 DEF Place
<1>5. places' = InsertAt(places, i, a) BY <1>1
<1> HIDE DEF a
<1>6. /\ places' \in Seq(Place) /\ Len(places') = n + 1
      /\ \A j \in 1 .. n + 1 : places'[j] = IF j < i THEN places[j] ELSE IF j = i THEN a ELSE places[j - 1]
  <2> DEFINE t == InsertAt(places, i, a)
  <2>1. i \in 1 .. Len(places) + 1 /\ a \in Place BY <1>4
  <2>2. /\ t \in Seq(Place) /\ Len(t) = Len(places) + 1
        /\ \A j \in 1 .. Len(places) + 1 : t[j] = IF j < i THEN places[j] ELSE IF j = i THEN a ELSE places[j - 1]
    BY <1>2, <2>1, InsertAtIs
  <2> HIDE DEF t
  <2>3. places' = t BY <1>5 DEF t
  <2>4. QED BY <2>2, <2>3
<1>7. DOMAIN places' = 1 .. n + 1 BY <1>6
<1> HIDE DEF n
<1>8. \A j \in 1 .. n : places[j].driver = driver => places[j].number # a.number
  BY <1>2, <1>3, <1>4 DEF Nodes, ToSet
<1> DEFINE at(j) == IF j < i THEN j ELSE j - 1
<1>9. ASSUME NEW j \in 1 .. n + 1, NEW k \in 1 .. n + 1, j # k, places'[j].driver = places'[k].driver
      PROVE  places'[j].number # places'[k].number
  <2>1. CASE j = i
    <3>1. at(k) \in 1 .. n /\ places'[k] = places[at(k)] BY <1>2, <1>6, <1>9, <2>1
    <3>2. places'[j] = a BY <1>2, <1>6, <2>1
    <3> HIDE DEF at
    <3>3. QED BY <1>4, <1>8, <1>9, <3>1, <3>2
  <2>2. CASE k = i
    <3>1. at(j) \in 1 .. n /\ places'[j] = places[at(j)] BY <1>2, <1>6, <1>9, <2>2
    <3>2. places'[k] = a BY <1>2, <1>6, <2>2
    <3> HIDE DEF at
    <3>3. QED BY <1>4, <1>8, <1>9, <3>1, <3>2
  <2>3. CASE j # i /\ k # i
    <3>1. at(j) \in 1 .. n /\ at(k) \in 1 .. n /\ at(j) # at(k) BY <1>2, <1>9, <2>3
    <3>2. places'[j] = places[at(j)] /\ places'[k] = places[at(k)] BY <1>2, <1>6, <2>3
    <3> HIDE DEF at
    <3>3. QED BY <1>2, <1>9, <3>1, <3>2 DEF Numbered
  <2>4. QED BY <2>1, <2>2, <2>3
<1>10. QED BY <1>6, <1>7, <1>9 DEF Numbered

LEMMA UnplugKeeps == ASSUME Numbered, Unplug PROVE Numbered'
<1> DEFINE n == Len(places)
<1>1. PICK i \in DOMAIN places : places' = RemoveAt(places, i) BY DEF Unplug, Change
<1>2. places \in Seq(Place) /\ n \in Nat /\ DOMAIN places = 1 .. n /\ i \in 1 .. n BY DEF Numbered
<1>3. /\ places' \in Seq(Place) /\ Len(places') = n - 1
      /\ \A j \in 1 .. n - 1 : places'[j] = IF j < i THEN places[j] ELSE places[j + 1]
  BY <1>1, <1>2, RemoveAtIs
<1>4. DOMAIN places' = 1 .. n - 1 BY <1>3
<1> DEFINE at(j) == IF j < i THEN j ELSE j + 1
<1> HIDE DEF n
<1>5. ASSUME NEW j \in 1 .. n - 1, NEW k \in 1 .. n - 1, j # k, places'[j].driver = places'[k].driver
      PROVE  places'[j].number # places'[k].number
  <2>1. at(j) \in 1 .. n /\ at(k) \in 1 .. n /\ at(j) # at(k) BY <1>2, <1>5
  <2>2. places'[j] = places[at(j)] /\ places'[k] = places[at(k)] BY <1>2, <1>3
  <2> HIDE DEF at
  <2>3. QED BY <1>2, <1>5, <2>1, <2>2 DEF Numbered
<1>6. QED BY <1>3, <1>4, <1>5 DEF Numbered

LEMMA TakenKeeps == ASSUME Numbered, Taken PROVE Numbered'
<1>1. PICK i \in DOMAIN places : places' = [places EXCEPT ![i].busy = ~@] BY DEF Taken, Change
<1> DEFINE a == [places[i] EXCEPT !.busy = ~@]
<1>2. places \in Seq(Place) /\ DOMAIN places = 1 .. Len(places) /\ Len(places) \in Nat BY DEF Numbered
<1>3. places[i] \in Place BY <1>2
<1>4. a \in Place /\ a.driver = places[i].driver /\ a.number = places[i].number
  BY <1>3 DEF Place
<1>5. places' = [places EXCEPT ![i] = a] BY <1>1
<1> HIDE DEF a
<1>6. places' \in Seq(Place) /\ DOMAIN places' = DOMAIN places BY <1>2, <1>4, <1>5
<1>7. \A j \in DOMAIN places : /\ places'[j].driver = places[j].driver
                               /\ places'[j].number = places[j].number
  BY <1>4, <1>5
<1>8. QED BY <1>6, <1>7 DEF Numbered

-----------------------------------------------------------------------------
(* All steps of the list.                                                  *)

LEMMA ListInitInv == ASSUME ListInit PROVE ListInv
<1>1. places = <<>> /\ listed = <<>> /\ sys \in Systems BY DEF ListInit
<1>2. places \in Seq(Place) /\ DOMAIN places = {} /\ DOMAIN listed = {} BY <1>1
<1>3. listed \in Seq([path : AllDrivers \X Int, dev : Tokens \cup Others]) BY <1>1
<1>4. QED BY <1>1, <1>2, <1>3 DEF ListInv, Numbered

\* What the manifests come to depends on the places only.
LEMMA SamePlaces ==
  ASSUME UNCHANGED <<sys, places>>
  PROVE  Listable' = Listable /\ (Numbered => Numbered')
<1>1. \A d : At(d)' = At(d) BY DEF At, Sub
<1>2. Reached' = Reached BY <1>1 DEF Reached, ToSet
<1>3. \A a : CopyInfo(a)' <=> CopyInfo(a) BY DEF CopyInfo, ListsAlone, IsFido
<1>4. \A a : Entry(a)' = Entry(a)
  <2>1. At("reader")' = At("reader") BY <1>1
  <2>2. QED BY <2>1 DEF Entry, PathOf, SelectInSeq
<1>5. QED BY <1>2, <1>3, <1>4 DEF Listable, Numbered

LEMMA ListStep == ASSUME ListInv, [ListNext]_listVars PROVE ListInv'
<1>1. CASE Plug \/ Unplug \/ Taken
  <2>1. Numbered' BY <1>1, PlugKeeps, UnplugKeeps, TakenKeeps DEF ListInv
  <2>2. sys' = sys /\ listed' = listed /\ changed' = TRUE BY <1>1 DEF Plug, Unplug, Taken, Change
  <2>3. QED BY <2>1, <2>2 DEF ListInv
<1>2. CASE ListTokens
  <2>1. UNCHANGED <<sys, places>> /\ listed' \in DevInfoManifest BY <1>2 DEF ListTokens
  <2>2. listed' \in Seq(Listable) BY <2>1, ManifestOpens DEF ListInv
  <2>3. \A i \in DOMAIN listed' : listed'[i] \in Listable BY <2>2
  <2>4. Listable' = Listable /\ Numbered' BY <2>1, SamePlaces DEF ListInv
  <2> DEFINE Line == [path : AllDrivers \X Int, dev : Tokens \cup Others]
             Can == Listable
  <2>5. Can \subseteq Line BY ListableOpens DEF ListInv
  <2>6. listed' \in Seq(Line)
    <3>1. listed' \in Seq(Can) BY <2>2
    <3> HIDE DEF Line, Can
    <3>2. QED BY <2>5, <3>1
  <2>7. QED BY <2>1, <2>3, <2>4, <2>6 DEF ListInv
<1>3. CASE UNCHANGED <<sys, places, listed, changed>>
  <2>1. Listable' = Listable /\ Numbered' BY <1>3, SamePlaces DEF ListInv
  <2>2. QED BY <1>3, <2>1 DEF ListInv
<1>4. QED
  BY <1>1, <1>2, <1>3 DEF ListNext, OpenListed, ScriptChooses, ScriptActs, listVars

\* While nothing has changed since the list was printed, each of its paths opens the
\* token it was printed for, or nothing where another process holds a node that cannot be
\* opened twice: on every system the manifest and the open function mean the same by a
\* path, for any devices, however they came and went before, any limits on nodes and
\* readers, and a list of any length.
THEOREM ListedOpensAlways == ListSpec => ListedOpens
<1> DEFINE Right == opened'.got = IF InUse(opened'.path) THEN Absent ELSE opened'.meant
<1>1. ListInit => ListInv BY ListInitInv
<1>2. ListInv /\ [ListNext]_listVars => ListInv' BY ListStep
<1>3. ListInv => [OpenListed /\ ~changed => Right]_listVars
  <2> SUFFICES ASSUME ListInv, OpenListed, ~changed PROVE Right OBVIOUS
  <2>1. PICK i \in DOMAIN listed :
          opened' = [path |-> listed[i].path, meant |-> listed[i].dev,
                     got |-> OpenPath(listed[i].path)]
    BY DEF OpenListed
  <2>2. listed[i] \in Listable BY DEF ListInv
  <2>3. OpenPath(listed[i].path) = IF InUse(listed[i].path) THEN Absent ELSE listed[i].dev
    BY <2>2, ListableOpens DEF ListInv
  <2>4. QED BY <2>1, <2>3
<1>4. QED BY <1>1, <1>2, <1>3, PTL DEF ListSpec, ListedOpens
=============================================================================
