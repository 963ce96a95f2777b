-------------------------- MODULE U2fCalls_proofs --------------------------
(***************************************************************************)
(* Proofs about U2fCalls, for any timeouts, exchanges, applications and    *)
(* authenticators: TimeoutKeptAlways, from what is left of the timeout;    *)
(* and, from the invariant CallsInv, what an application's objects hold at *)
(* any time (VerifiedIsAttestedAlways, GenuineAcceptedAlways,              *)
(* DecodedTogetherAlways, AssertionIsGivenAlways, GivenAcceptedAlways) and *)
(* what a call leaves in them (CredentialOfThisCallAlways,                 *)
(* AssertionsOfThisCallAlways).                                            *)
(***************************************************************************)
EXTENDS U2fCalls, SequenceTheorems, TLAPS

-----------------------------------------------------------------------------
(* The timeout.  What an exchange or a delay takes is taken off ms, so     *)
(* that with ms it makes up what the call began with, up to the exchange   *)
(* that leaves nothing.                                                    *)

Budget ==
  call # None =>
    /\ "timeout" \in DOMAIN call /\ call.timeout \in Timeouts
    /\ call.timeout = -1 => ms = -1
    /\ call.timeout # -1 =>
         /\ ms \in Nat /\ spent \in Nat
         /\ IF ms > 0 THEN spent + ms = call.timeout ELSE spent <= call.timeout + MaxTook

LEMMA LeastOfTwo == ASSUME NEW a \in Int, NEW b \in Int, a <= b PROVE Min({a, b}) = a
<1>1. \A x \in {a, b} : a <= x
  OBVIOUS
<1>2. \A m \in {a, b} : (\A x \in {a, b} : m <= x) => m = a
  OBVIOUS
<1>. QED
  BY <1>1, <1>2 DEF Min

LEMMA DelayFits ==
  ASSUME NEW left \in Int, left >= -1
  PROVE  /\ Delay(left) \in Nat
         /\ left >= 0 => Delay(left) <= left
BY DEF Delay, U2fPace

\* An exchange of t and a sleep of u, no longer than what is left, keep the budget.
LEMMA SpentIsTaken ==
  ASSUME Budget, call # None, NEW t \in Took, NEW u \in Nat,
         LET left == Charged(ms, t) IN
           /\ left >= 0 => u <= left
           /\ ms' = IF left > -1 THEN left - u ELSE left,
         spent' = Spend(t + u),
         call' # None => ("timeout" \in DOMAIN call' /\ call'.timeout = call.timeout)
  PROVE  Budget'
<1>1. t \in Nat /\ MaxTook \in Nat /\ t <= MaxTook
  BY U2fCallsAssumption DEF Took
<1>2. CASE call.timeout = -1
  BY <1>2, U2fCallsAssumption DEF Budget, Charged
<1>3. CASE call.timeout # -1
  <2>1. /\ call.timeout \in Nat /\ ms \in Nat /\ spent \in Nat
        /\ IF ms > 0 THEN spent + ms = call.timeout ELSE spent <= call.timeout + MaxTook
    BY <1>3, U2fCallsAssumption DEF Budget
  <2>2. CASE ms = 0
    <3>1. ms' = 0 /\ spent' = spent
      BY <1>1, <1>3, <2>2 DEF Charged, Spend
    <3>2. QED
      BY <1>3, <2>1, <2>2, <3>1 DEF Budget
  <2>3. CASE ms > 0
    <3>1. spent + (t + u) <= call.timeout + MaxTook
      BY <1>1, <2>1, <2>3 DEF Charged
    <3>2. Min({spent + (t + u), call.timeout + MaxTook + 1}) = spent + (t + u)
      BY <1>1, <2>1, <3>1, LeastOfTwo
    <3>3. spent' = spent + (t + u)
      BY <1>3, <2>3, <3>2 DEF Spend
    <3>4. ms' = IF t < ms THEN (ms - t) - u ELSE 0
      BY <1>1, <2>1, <2>3 DEF Charged
    <3>5. ms' \in Nat /\ (ms' > 0 => spent' + ms' = call.timeout)
      BY <1>1, <2>1, <2>3, <3>3, <3>4 DEF Charged
    <3>6. QED
      BY <1>1, <1>3, <2>1, <3>1, <3>3, <3>5 DEF Budget
  <2>4. QED
    BY <2>1, <2>2, <2>3
<1>4. QED
  BY <1>2, <1>3

LEMMA InitBudget == CallsInit => Budget
BY DEF CallsInit, Budget

LEMMA BeginsBudget ==
  ASSUME NEW dev, NEW stage, NEW timeout \in Timeouts, Begins(dev, stage, timeout)
  PROVE  Budget'
BY U2fCallsAssumption DEF Begins, Budget

LEMMA ReturnsBudget ==
  ASSUME NEW dev, NEW code, Returns(dev, code)
  PROVE  Budget'
BY DEF Returns, Budget

LEMMA ExchangeBudget ==
  ASSUME Budget, call # None, NEW t \in Took, Exchange(t),
         call' # None => ("timeout" \in DOMAIN call' /\ call'.timeout = call.timeout)
  PROVE  Budget'
<1> DEFINE left == Charged(ms, t)
<1>1. t \in Nat /\ ms \in Int
  BY U2fCallsAssumption DEF Took, Budget
<1>2. left \in Int
  BY <1>1 DEF Charged
<1>3. spent' = Spend(t + 0) /\ ms' = IF left > -1 THEN left - 0 ELSE left
  BY <1>1, <1>2 DEF Exchange
<1>. QED
  BY <1>1, <1>3, SpentIsTaken

LEMMA PollBudget ==
  ASSUME Budget, call # None, NEW t \in Took, Poll(t),
         call' # None => ("timeout" \in DOMAIN call' /\ call'.timeout = call.timeout)
  PROVE  Budget'
<1> DEFINE left == Charged(ms, t)
<1>1. t \in Nat /\ ms \in Int /\ ms >= -1
  BY U2fCallsAssumption DEF Took, Budget
<1>2. left \in Int /\ left >= -1
  BY <1>1 DEF Charged
<1>3. Delay(left) \in Nat /\ (left >= 0 => Delay(left) <= left)
  BY <1>2, DelayFits
<1>4. spent' = Spend(t + Delay(left)) /\ ms' = IF left > -1 THEN left - Delay(left) ELSE left
  BY DEF Poll, Slept
<1>. QED
  BY <1>3, <1>4, SpentIsTaken

LEMMA NextAllowedTimeout ==
  ASSUME Budget, call # None, NEW nfound, NEW nauth, NEW stmts, NextAllowed(nfound, nauth, stmts)
  PROVE  call' # None => ("timeout" \in DOMAIN call' /\ call'.timeout = call.timeout)
BY DEF NextAllowed, GoesOn, Budget

LEMMA NextBudget == Budget /\ [CallsNext]_allVars => Budget'
<1> SUFFICES ASSUME Budget, [CallsNext]_allVars PROVE Budget'
  OBVIOUS
<1>1. CASE FillBetween
  BY <1>1 DEF FillBetween, Budget
<1>2. CASE MakeCredU2f
  BY <1>2, BeginsBudget, ReturnsBudget DEF MakeCredU2f
<1>3. CASE MakeCredFido2
  BY <1>3, ReturnsBudget DEF MakeCredFido2
<1>4. CASE GetAssertU2f
  BY <1>4, BeginsBudget, ReturnsBudget DEF GetAssertU2f
<1>5. CASE GetAssertFido2
  BY <1>5, ReturnsBudget DEF GetAssertFido2
<1>14. CASE MakeCredWinhello
  BY <1>14, ReturnsBudget DEF MakeCredWinhello
<1>15. CASE GetAssertWinhello
  BY <1>15, ReturnsBudget DEF GetAssertWinhello
<1>6. CASE Breaks
  BY <1>6, ReturnsBudget DEF Breaks
<1>7. CASE LookupExcluded
  <2>1. call # None
    BY <1>7 DEF LookupExcluded, InCall
  <2>2. PICK t \in Took : Exchange(t)
    BY <1>7 DEF LookupExcluded
  <2>3. "timeout" \in DOMAIN call' /\ call'.timeout = call.timeout
    BY <1>7, <2>1 DEF LookupExcluded, GoesOn, Budget
  <2>. QED
    BY <2>1, <2>2, <2>3, ExchangeBudget
<1>8. CASE NotTouched
  <2>1. call # None /\ call' = call
    BY <1>8 DEF NotTouched, InCall
  <2>2. PICK t \in Took : Poll(t)
    BY <1>8 DEF NotTouched
  <2>. QED
    BY <2>1, <2>2, PollBudget DEF Budget
<1>9. CASE DummyRegister
  BY <1>9, ReturnsBudget DEF DummyRegister
<1>10. CASE Register
  BY <1>10, ReturnsBudget DEF Register
<1>11. CASE LookupAllowed
  <2>1. call # None
    BY <1>11 DEF LookupAllowed, InCall
  <2>2. PICK t \in Took : Exchange(t)
    BY <1>11 DEF LookupAllowed
  <2>3. call' # None => ("timeout" \in DOMAIN call' /\ call'.timeout = call.timeout)
    BY <1>11, <2>1, NextAllowedTimeout DEF LookupAllowed, GoesOn, Budget
  <2>. QED
    BY <2>1, <2>2, <2>3, ExchangeBudget
<1>12. CASE Authenticate
  <2>1. call # None
    BY <1>12 DEF Authenticate, InCall
  <2>2. PICK t \in Took : Poll(t)
    BY <1>12 DEF Authenticate
  <2>3. call' # None => ("timeout" \in DOMAIN call' /\ call'.timeout = call.timeout)
    BY <1>12, <2>1, NextAllowedTimeout DEF Authenticate
  <2>. QED
    BY <2>1, <2>2, <2>3, PollBudget
<1>13. CASE UNCHANGED allVars
  BY <1>13 DEF allVars, callVars, Budget
<1>. QED
  BY <1>1, <1>2, <1>3, <1>4, <1>5, <1>6, <1>7, <1>8, <1>9, <1>10, <1>11, <1>12, <1>13, <1>14, <1>15
     DEF CallsNext, U2fStep

\* However many exchanges a call makes and however long the user waits, u2f.c takes no
\* longer than the timeout of the device and one exchange, not counting the exchanges
\* that begin when nothing is left.
THEOREM TimeoutKeptAlways == CallsSpec => []TimeoutKept
<1>1. Budget => TimeoutKept
  BY U2fCallsAssumption DEF Budget, TimeoutKept
<1>. QED
  BY <1>1, InitBudget, NextBudget, PTL DEF CallsSpec

-----------------------------------------------------------------------------
(* What a credential object holds.                                         *)

LEMMA ExtensionsForm ==
  ASSUME NEW ext
  PROVE  LET e == DecodeCredExtensions(ext) IN
         /\ e = [mask |-> e.mask, prot |-> e.prot, minpinlen |-> e.minpinlen]
         /\ "CRED_PROTECT" \notin e.mask => e.prot = 0
         /\ "MINPINLEN" \notin e.mask => e.minpinlen = 0
         /\ "LARGEBLOB_KEY" \notin e.mask
BY DEF DecodeCredExtensions

LEMMA NoneDecoded == DecodeCredExtensions(<<>>) = NoExt
<1>1. DOMAIN GoodPrefix(<<>>) = {}
  <2> DEFINE good == {n \in 0 .. Len(<<>>) : \A i \in 1 .. n : ~Bad(<<>>[i])}
             last == CHOOSE n \in good : \A m \in good : m <= n
  <2>1. good = {0}
    OBVIOUS
  <2>2. last = 0
    BY <2>1
  <2>. QED
    BY <2>2 DEF GoodPrefix
<1>. QED
  BY <1>1 DEF DecodeCredExtensions, NoExt

LEMMA EndMeans ==
  ASSUME NEW a, NEW alg, IsCredAuthdata(a), CredAuthdataStops(a, alg) = "end"
  PROVE  a.cut = None /\ "AT" \in a.flags /\ a.pk.alg = alg /\ alg \in Alg
BY NoneAssumption DEF IsCredAuthdata, CredAuthdataStops, HasCoseAlg

LEMMA EndDecodes ==
  ASSUME NEW c, NEW a, DOMAIN c = DOMAIN NoCred, c.aext = NoExt, IsCredAuthdata(a), CredAuthdataStops(a, c.type) = "end"
  PROVE  LET d == DecodedCredAuthdata(c, a) IN
         /\ d.authdata = a /\ d.head = [rp |-> a.rp, flags |-> a.flags]
         /\ d.attcred = [id |-> a.id, pk |-> a.pk]
         /\ d.aext = IF "ED" \in a.flags THEN DecodeCredExtensions(a.ext) ELSE NoExt
BY DEF DecodedCredAuthdata, NoCred

\* The request, and the attestation statement, are well formed.
CredTyped(c) ==
  /\ DOMAIN c = DOMAIN NoCred /\ DOMAIN c.ext = DOMAIN NoExt /\ DOMAIN c.stmt = DOMAIN NoStmt
  /\ DOMAIN c.attcred = DOMAIN NoAttCred
  /\ c.type \in Alg \cup {"UNSPEC"} /\ (c.cd # None => c.cdh = Hash(c.cd))
  /\ Len(c.excl) \in Nat /\ DOMAIN c.excl = 1 .. Len(c.excl)
  /\ IsStmt(c.stmt)

\* The decoded parts are those of the authenticator data.
NothingDecoded(c) == c.head = NoHead /\ c.aext = NoExt /\ c.attcred.pk = NoPk

WholeDecoded(c) ==
  LET a == c.authdata IN
  /\ IsCredAuthdata(a) /\ CredAuthdataStops(a, c.type) = "end"
  /\ c.head = [rp |-> a.rp, flags |-> a.flags]
  /\ c.aext = (IF "ED" \in a.flags THEN DecodeCredExtensions(a.ext) ELSE NoExt)
  /\ c.attcred.pk = a.pk

Decoded(c, sp) ==
  /\ c.authdata = None => NothingDecoded(c)
  /\ c.authdata # None /\ "attobj" \notin sp =>
       WholeDecoded(c) /\ ("id" \notin sp => c.attcred.id = c.authdata.id)

CredOK(c, sp) == CredTyped(c) /\ Decoded(c, sp)

LEMMA DecodedIsTogether ==
  ASSUME CredOK(cred, spoilt)
  PROVE  DecodedTogether
<1> DEFINE c == cred  n == [NoCred EXCEPT !.type = cred.type]  d == DecodedCredAuthdata(n, cred.authdata)
<1>1. c.authdata = None => c.head = NoHead /\ c.aext = NoExt /\ c.attcred.pk = NoPk
  BY DEF CredOK, Decoded, NothingDecoded
<1>2. ASSUME c.authdata # None, "attobj" \notin spoilt
      PROVE  /\ CredAuthdataStops(c.authdata, c.type) = "end"
             /\ c.head = d.head /\ c.aext = d.aext /\ c.attcred.pk = d.attcred.pk
             /\ "id" \notin spoilt => c.attcred.id = d.attcred.id
  <2>1. WholeDecoded(c) /\ ("id" \notin spoilt => c.attcred.id = c.authdata.id)
    BY <1>2 DEF CredOK, Decoded
  <2>2. DOMAIN n = DOMAIN NoCred /\ n.aext = NoExt /\ n.type = c.type
    BY DEF NoCred
  <2>3. CredAuthdataStops(c.authdata, n.type) = "end" /\ IsCredAuthdata(c.authdata)
    BY <2>1, <2>2 DEF WholeDecoded
  <2>4. /\ d.head = [rp |-> c.authdata.rp, flags |-> c.authdata.flags]
        /\ d.attcred = [id |-> c.authdata.id, pk |-> c.authdata.pk]
        /\ d.aext = IF "ED" \in c.authdata.flags THEN DecodeCredExtensions(c.authdata.ext) ELSE NoExt
    <3>. HIDE DEF n
    <3>. QED
      BY <2>2, <2>3, EndDecodes
  <2>. HIDE DEF d
  <2>. QED
    BY <2>1, <2>4 DEF WholeDecoded
<1>. QED
  BY <1>1, <1>2 DEF DecodedTogether

-----------------------------------------------------------------------------
(* Setters of a credential object.                                         *)

LEMMA OthersKeep ==
  ASSUME NEW c, NEW sp, NEW d, CredOK(c, sp), CredTyped(d), d.type = c.type,
         d.authdata = c.authdata, d.head = c.head, d.attcred = c.attcred, d.aext = c.aext
  PROVE  CredOK(d, sp)
BY DEF CredOK, Decoded, NothingDecoded, WholeDecoded

LEMMA RequestKeeps ==
  ASSUME NEW c, NEW sp, CredOK(c, sp), NEW x
  PROVE  /\ CredOK(SetClientdata(c, x), sp) /\ CredOK(SetClientdataHash(c, x), sp)
         /\ CredOK(SetRp(c, x), sp) /\ CredOK(SetUv(c, x), sp) /\ CredOK(SetRk(c, x), sp)
<1>1. CredTyped(c)
  BY DEF CredOK
<1>2. CredOK(SetClientdata(c, x), sp)
  <2> DEFINE d == SetClientdata(c, x)
  <2>1. CredTyped(d) /\ d.type = c.type /\ d.authdata = c.authdata /\ d.head = c.head /\ d.attcred = c.attcred
        /\ d.aext = c.aext
    BY <1>1 DEF SetClientdata, CredTyped, NoCred
  <2>2. CredOK(d, sp)
    <3>. HIDE DEF d
    <3>. QED
      BY <2>1, OthersKeep
  <2>. QED
    BY <2>2
<1>3. CredOK(SetClientdataHash(c, x), sp)
  <2> DEFINE d == SetClientdataHash(c, x)
  <2>1. CredTyped(d) /\ d.type = c.type /\ d.authdata = c.authdata /\ d.head = c.head /\ d.attcred = c.attcred
        /\ d.aext = c.aext
    BY <1>1 DEF SetClientdataHash, CredTyped, NoCred
  <2>2. CredOK(d, sp)
    <3>. HIDE DEF d
    <3>. QED
      BY <2>1, OthersKeep
  <2>. QED
    BY <2>2
<1>4. \A d \in {SetRp(c, x), SetUv(c, x), SetRk(c, x)} :
        CredTyped(d) /\ d.type = c.type /\ d.authdata = c.authdata /\ d.head = c.head /\ d.attcred = c.attcred
        /\ d.aext = c.aext
  BY <1>1 DEF SetRp, SetUv, SetRk, CredTyped, NoCred
<1>5. \A d \in {SetRp(c, x), SetUv(c, x), SetRk(c, x)} : CredOK(d, sp)
  BY <1>4, OthersKeep
<1>. QED
  BY <1>2, <1>3, <1>5

LEMMA ExtensionsKeep ==
  ASSUME NEW c, NEW sp, CredOK(c, sp), NEW x
  PROVE  CredOK(SetExtensions(c, x), sp) /\ CredOK(SetProt(c, x), sp) /\ CredOK(SetPinMinlen(c, x), sp)
<1>1. CredTyped(c)
  BY DEF CredOK
<1> DEFINE Same(d) ==
       /\ DOMAIN d = DOMAIN c /\ DOMAIN d.ext = DOMAIN c.ext /\ d.stmt = c.stmt /\ d.attcred = c.attcred
       /\ d.type = c.type /\ d.cd = c.cd /\ d.cdh = c.cdh /\ d.excl = c.excl
       /\ d.authdata = c.authdata /\ d.head = c.head /\ d.aext = c.aext
<1>2. \A e : DOMAIN e = DOMAIN c.ext => Same([c EXCEPT !.ext = e])
  BY <1>1 DEF CredTyped, NoCred
<1>3. Same(SetExtensions(c, x))
  BY <1>1, <1>2 DEF SetExtensions
<1>4. Same(SetPinMinlen(c, x))
  <2> DEFINE e1 == [c.ext EXCEPT !.mask = IF x = 0 THEN @ \ {"MINPINLEN"} ELSE @ \cup {"MINPINLEN"}]
             e2 == [e1 EXCEPT !.minpinlen = x]
  <2>1. SetPinMinlen(c, x) = [c EXCEPT !.ext = e2]
    BY <1>1 DEF SetPinMinlen, CredTyped, NoCred
  <2>2. DOMAIN e2 = DOMAIN c.ext
    OBVIOUS
  <2>. HIDE DEF e2, Same
  <2>. QED
    BY <1>2, <2>1, <2>2
<1>5. \A d, y : Same(d) => Same([d EXCEPT !.ext = [@ EXCEPT !.prot = y]])
  BY <1>1 DEF CredTyped, NoCred
<1>6. Same(SetProt(c, x))
  <2>1. CASE x = 0
    <3> DEFINE m == c.ext.mask \ {"CRED_PROTECT"}  d == [c EXCEPT !.ext = [@ EXCEPT !.mask = m]]
    <3>1. SetProt(c, x) = [d EXCEPT !.ext = [@ EXCEPT !.prot = 0]]
      BY <2>1 DEF SetProt
    <3>2. Same(d) /\ "ext" \in DOMAIN d
      BY <1>1, <1>2 DEF CredTyped, NoCred
    <3>. HIDE DEF d, Same
    <3>. QED
      BY <1>2, <3>1, <3>2, <1>5
  <2>2. CASE x \in 1 .. 3
    <3> DEFINE m == c.ext.mask \cup {"CRED_PROTECT"}  d == [c EXCEPT !.ext = [@ EXCEPT !.mask = m]]
    <3>1. SetProt(c, x) = [d EXCEPT !.ext = [@ EXCEPT !.prot = x]]
      BY <2>2 DEF SetProt
    <3>2. Same(d) /\ "ext" \in DOMAIN d
      BY <1>1, <1>2 DEF CredTyped, NoCred
    <3>. HIDE DEF d, Same
    <3>. QED
      BY <1>2, <3>1, <3>2, <1>5
  <2>3. CASE x # 0 /\ x \notin 1 .. 3
    BY <2>3 DEF SetProt
  <2>. QED
    BY <2>1, <2>2, <2>3
<1>7. ASSUME NEW d, Same(d) PROVE CredOK(d, sp)
  <2>1. CredTyped(d)
    BY <1>1, <1>7 DEF CredTyped
  <2>. QED
    BY <1>7, <2>1, OthersKeep
<1>. HIDE DEF Same
<1>. QED
  BY <1>3, <1>4, <1>6, <1>7

\* The type is set once, and nothing is decoded without one.
LEMMA TypeKeeps ==
  ASSUME NEW c, NEW sp, CredOK(c, sp), NEW x
  PROVE  CredOK(SetType(c, x), sp)
<1>1. CASE c.type = "UNSPEC" /\ x \in Alg
  <2> DEFINE d == [c EXCEPT !.type = x]
  <2>1. CredTyped(d) /\ d.authdata = c.authdata /\ d.head = c.head /\ d.attcred = c.attcred /\ d.aext = c.aext
    BY <1>1 DEF CredOK, CredTyped, NoCred
  <2>2. ~WholeDecoded(c)
    BY <1>1, EndMeans DEF WholeDecoded, Alg
  <2>3. c.authdata = None \/ "attobj" \in sp
    BY <2>2 DEF CredOK, Decoded
  <2>4. Decoded(d, sp)
    BY <2>1, <2>3 DEF CredOK, Decoded, NothingDecoded
  <2>. QED
    BY <1>1, <2>1, <2>4 DEF SetType, CredOK
<1>2. CASE ~(c.type = "UNSPEC" /\ x \in Alg)
  BY <1>2 DEF SetType
<1>. QED
  BY <1>1, <1>2

LEMMA StatementKeeps ==
  ASSUME NEW c, NEW sp, CredOK(c, sp), NEW x
  PROVE  /\ CredOK(SetFmt(c, x), sp)
         /\ IsStmt(x) => CredOK(SetAttstmt(c, x).obj, sp)
         /\ IsCertificate(x) => CredOK(SetX509(c, x), sp)
         /\ x \in Signatures => CredOK(SetSig(c, x), sp)
<1> DEFINE Others(d) ==
       CredTyped(d) /\ d.type = c.type /\ d.authdata = c.authdata /\ d.head = c.head /\ d.attcred = c.attcred
       /\ d.aext = c.aext
<1>1. CredTyped(c)
  BY DEF CredOK
<1>2. Others(SetFmt(c, x))
  BY <1>1 DEF SetFmt, CredTyped, NoCred
<1>3. IsStmt(x) => Others(SetAttstmt(c, x).obj)
  BY <1>1 DEF SetAttstmt, CleanAttstmt, DecodedAttStmt, Or, CredTyped, IsStmt, NoStmt, Signatures, NoCred
<1>4. IsCertificate(x) => Others(SetX509(c, x))
  BY <1>1 DEF SetX509, CredTyped, IsStmt, NoStmt, NoCred
<1>5. x \in Signatures => Others(SetSig(c, x))
  BY <1>1 DEF SetSig, CredTyped, IsStmt, NoStmt, NoCred
<1>6. ASSUME NEW d, Others(d) PROVE CredOK(d, sp)
  BY <1>6, OthersKeep
<1>. HIDE DEF Others
<1>. QED
  BY <1>2, <1>3, <1>4, <1>5, <1>6

\* The application's identifier.
LEMMA IdKeeps ==
  ASSUME NEW c, NEW sp, CredOK(c, sp), NEW x
  PROVE  CredOK(SetId(c, x), sp \cup {"id"})
<1> DEFINE d == SetId(c, x)
<1>1. /\ CredTyped(d) /\ d.type = c.type /\ d.authdata = c.authdata /\ d.head = c.head
      /\ d.attcred.pk = c.attcred.pk /\ d.aext = c.aext
  BY DEF SetId, CredOK, CredTyped, NoCred, NoAttCred
<1>. HIDE DEF d
<1>2. Decoded(d, sp \cup {"id"})
  BY <1>1 DEF CredOK, Decoded, NothingDecoded, WholeDecoded
<1>. QED
  BY <1>1, <1>2 DEF CredOK, d

-----------------------------------------------------------------------------
(* Authenticator data and attestation objects.                             *)

LEMMA SpoilsMore ==
  ASSUME NEW c, NEW sp, CredOK(c, {})
  PROVE  CredOK(c, sp)
BY DEF CredOK, Decoded

SameRequest(c, d) ==
  /\ d.cd = c.cd /\ d.cdh = c.cdh /\ d.rp = c.rp /\ d.type = c.type /\ d.rk = c.rk /\ d.uv = c.uv
  /\ d.ext = c.ext /\ d.excl = c.excl

Emptied(c) == CredTyped(c) /\ c.authdata = None /\ NothingDecoded(c)

LEMMA EmptiedOK ==
  ASSUME NEW c, NEW sp, Emptied(c)
  PROVE  CredOK(c, sp)
BY DEF Emptied, CredOK, Decoded

LEMMA Empties ==
  ASSUME NEW c, CredTyped(c)
  PROVE  /\ Emptied(CleanAuthdata(c)) /\ SameRequest(c, CleanAuthdata(c))
         /\ Emptied(CleanAttobj(c)) /\ SameRequest(c, CleanAttobj(c)) /\ CleanAttobj(c).stmt = NoStmt
         /\ Emptied(ResetRx(c)) /\ SameRequest(c, ResetRx(c)) /\ ResetRx(c).stmt = NoStmt
BY DEF Emptied, CleanAuthdata, CleanAttobj, CleanAttstmt, ResetRx, CredTyped, NothingDecoded, SameRequest,
       IsStmt, Signatures, NoStmt, NoAttCred, NoCred

LEMMA DecodeIsWhole ==
  ASSUME NEW c, Emptied(c), NEW a, IsCredAuthdata(a), a # None, DecodeAuthdata(c, a).ok
  PROVE  LET d == DecodeAuthdata(c, a).obj IN
         /\ CredTyped(d) /\ WholeDecoded(d) /\ d.attcred.id = a.id /\ d.authdata = a
         /\ SameRequest(c, d) /\ d.stmt = c.stmt /\ d.fmt = c.fmt
<1> DEFINE d == DecodedCredAuthdata(c, a)
<1>1. DecodeAuthdata(c, a).obj = d /\ CredAuthdataStops(a, c.type) = "end"
  BY DEF DecodeAuthdata, Emptied
<1>2. /\ d.authdata = a /\ d.head = [rp |-> a.rp, flags |-> a.flags]
      /\ d.attcred = [id |-> a.id, pk |-> a.pk]
      /\ d.aext = IF "ED" \in a.flags THEN DecodeCredExtensions(a.ext) ELSE NoExt
  BY <1>1, EndDecodes DEF Emptied, CredTyped, NothingDecoded
<1>3. /\ DOMAIN d = DOMAIN c /\ d.type = c.type /\ d.cd = c.cd /\ d.cdh = c.cdh /\ d.ext = c.ext
      /\ d.stmt = c.stmt /\ d.rp = c.rp /\ d.rk = c.rk /\ d.uv = c.uv /\ d.excl = c.excl /\ d.fmt = c.fmt
  BY DEF DecodedCredAuthdata, Emptied, CredTyped, NoCred
<1>. HIDE DEF d
<1>4. CredTyped(d)
  BY <1>2, <1>3 DEF Emptied, CredTyped, NoAttCred
<1>5. WholeDecoded(d) /\ d.attcred.id = a.id /\ d.authdata = a
  BY <1>1, <1>2, <1>3 DEF WholeDecoded
<1>. QED
  BY <1>1, <1>3, <1>4, <1>5 DEF SameRequest

LEMMA AuthdataKeeps ==
  ASSUME NEW c, CredTyped(c), NEW x, x # None => IsCredAuthdata(x)
  PROVE  CredOK(SetAuthdata(c, x).obj, {})
<1> DEFINE e == CleanAuthdata(c)
<1>1. Emptied(e)
  BY Empties
<1>2. CASE x # None /\ DecodeAuthdata(e, x).ok
  <2>1. SetAuthdata(c, x).obj = DecodeAuthdata(e, x).obj
    BY <1>2 DEF SetAuthdata
  <2> DEFINE d == DecodeAuthdata(e, x).obj
  <2>2. CredTyped(d) /\ WholeDecoded(d) /\ d.attcred.id = x.id /\ d.authdata = x
    <3>. HIDE DEF e
    <3>. QED
      BY <1>1, <1>2, DecodeIsWhole
  <2>. HIDE DEF d
  <2>3. CredOK(d, {})
    BY <1>2, <2>2 DEF CredOK, Decoded
  <2>. QED
    BY <2>1, <2>3 DEF d
<1>3. CASE ~(x # None /\ DecodeAuthdata(e, x).ok)
  <2>1. SetAuthdata(c, x).obj = e
    BY <1>3 DEF SetAuthdata
  <2>. HIDE DEF e
  <2>. QED
    BY <1>1, <2>1, EmptiedOK
<1>. QED
  BY <1>2, <1>3

IsAttobj(o) == IsStmt(o.stmt) /\ o.authdata # None /\ IsCredAuthdata(o.authdata)

\* A failure leaves part of an attestation object behind.
LEMMA AttobjKeeps ==
  ASSUME NEW c, Emptied(c), NEW o, IsAttobj(o)
  PROVE  LET r == DecodeAttobj(c, o) IN
         /\ CredOK(r.obj, IF r.ok THEN {} ELSE {"attobj"}) /\ SameRequest(c, r.obj)
         /\ r.ok => /\ WholeDecoded(r.obj) /\ r.obj.attcred.id = o.authdata.id
                    /\ r.obj.fmt = o.fmt /\ r.obj.authdata = o.authdata
                    /\ r.obj.stmt = DecodedAttStmt(c.stmt, o.stmt)
<1> DEFINE c1 == [c EXCEPT !.fmt = o.fmt]
           c2 == [c1 EXCEPT !.stmt = DecodedAttStmt(@, o.stmt)]
           a == o.authdata
           r == DecodeAttobj(c, o)
<1>1. Emptied(c2) /\ SameRequest(c, c2) /\ c2.fmt = o.fmt /\ c2.stmt = DecodedAttStmt(c.stmt, o.stmt)
  BY DEF Emptied, CredTyped, NothingDecoded, SameRequest, IsAttobj, IsStmt, DecodedAttStmt, Or, NoCred, NoStmt, Signatures
<1>2. CASE o.fmt \notin Formats
  <2>1. r.obj = c /\ r.ok = FALSE
    BY <1>2 DEF DecodeAttobj
  <2>2. CredOK(c, {"attobj"}) /\ SameRequest(c, c)
    BY EmptiedOK DEF SameRequest
  <2>. HIDE DEF r
  <2>. QED
    BY <2>1, <2>2 DEF r
<1>3. CASE o.fmt \in Formats /\ ~AttStmtDecodes(o.stmt)
  <2>1. r.obj = c2 /\ r.ok = FALSE
    BY <1>3 DEF DecodeAttobj
  <2>2. CredOK(c2, {"attobj"})
    <3>. HIDE DEF c2
    <3>. QED
      BY <1>1, EmptiedOK
  <2>. HIDE DEF r, c2
  <2>. QED
    BY <1>1, <2>1, <2>2 DEF r
<1>4. CASE o.fmt \in Formats /\ AttStmtDecodes(o.stmt)
  <2>1. r = DecodeAuthdata(c2, a)
    BY <1>4 DEF DecodeAttobj
  <2>2. IsCredAuthdata(a) /\ a # None
    BY DEF IsAttobj
  <2>3. CASE r.ok
    <3>1. /\ CredTyped(r.obj) /\ WholeDecoded(r.obj) /\ r.obj.attcred.id = a.id /\ r.obj.authdata = a
          /\ SameRequest(c2, r.obj) /\ r.obj.stmt = c2.stmt /\ r.obj.fmt = c2.fmt
      <4>. HIDE DEF r, c2, a
      <4>. QED
        BY <1>1, <2>1, <2>2, <2>3, DecodeIsWhole
    <3>2. CredOK(r.obj, {})
      <4>. HIDE DEF r
      <4>. QED
        BY <2>2, <3>1 DEF CredOK, Decoded
    <3>. HIDE DEF r, c2
    <3>. QED
      BY <1>1, <2>3, <3>1, <3>2 DEF SameRequest, r
  <2>4. CASE ~r.ok
    <3> DEFINE d == DecodedCredAuthdata(c2, a)
    <3>1. r.obj = d /\ r.ok = FALSE
      <4>. HIDE DEF c2
      <4>. QED
        BY <1>1, <2>1, <2>4 DEF DecodeAuthdata, Emptied
    <3>2. /\ DOMAIN d = DOMAIN c2 /\ d.type = c2.type /\ d.cd = c2.cd /\ d.cdh = c2.cdh /\ d.ext = c2.ext
          /\ d.stmt = c2.stmt /\ d.rp = c2.rp /\ d.rk = c2.rk /\ d.uv = c2.uv /\ d.excl = c2.excl
          /\ d.authdata = a /\ DOMAIN d.attcred = DOMAIN NoAttCred
      <4>. HIDE DEF c2
      <4>. QED
        BY <1>1 DEF DecodedCredAuthdata, Emptied, CredTyped, NoCred, NoAttCred
    <3>. HIDE DEF d, c2
    <3>3. CredOK(d, {"attobj"})
      BY <1>1, <2>2, <3>2 DEF Emptied, CredOK, CredTyped, Decoded
    <3>4. SameRequest(c, d)
      BY <1>1, <3>2 DEF SameRequest
    <3>. HIDE DEF r
    <3>. QED
      BY <3>1, <3>3, <3>4 DEF r
  <2>. QED
    BY <2>3, <2>4
<1>. QED
  BY <1>2, <1>3, <1>4

-----------------------------------------------------------------------------
(* Verification of a credential: what is signed tells what it is.          *)

LEMMA TuplesDiffer ==
  ASSUME NEW a, NEW b, NEW c, NEW d
  PROVE  /\ \A e, f : <<e, f>> # <<a, b, c, d>> /\ <<e>> # <<a, b>> /\ <<e>> # <<a, b, c, d>>
         /\ \A e, f : <<e, f>> = <<a, b>> => e = a /\ f = b
         /\ \A e : <<e>> = <<a>> => e = a
OBVIOUS

LEMMA FourSame ==
  ASSUME NEW a, NEW b, NEW c, NEW d, NEW e, NEW f, NEW g, NEW h, <<a, b, c, d>> = <<e, f, g, h>>
  PROVE  a = e /\ b = f /\ c = g /\ d = h
OBVIOUS

DigestsTell(c, m) ==
  /\ c.fmt = m.fmt
  /\ m.fmt # "fido-u2f" => c.authdata = BytesOf(m) /\ c.cdh = m.cdh
  /\ m.fmt = "fido-u2f" =>
       m.rp = c.head.rp /\ m.cdh = c.cdh /\ m.id = c.attcred.id /\ m.pk = c.attcred.pk

\* What an attestation is over.
LEMMA SignedOver ==
  ASSUME NEW m \in Made
  PROVE  /\ m.fmt = "packed" => AttestationSig(m).over.what = <<BytesOf(m), m.cdh>>
         /\ m.fmt = "fido-u2f" => AttestationSig(m).over.what = <<m.rp, m.cdh, m.id, m.pk>>
         /\ m.fmt = "tpm" => AttestationSig(m).over.what = <<CertInfo(BytesOf(m), m.cdh, PubAreaOf(m))>>
         /\ AttestationSig(m).by = m.by
         /\ m.fmt \in {"packed", "fido-u2f", "tpm"}
BY MadeAssumption DEF AttestationSig, Sign, AuthdataDigest, SignedHashU2f, Digest, CertInfoOf, Alg

LEMMA DigestOf ==
  ASSUME NEW c, NEW alg, AttestationDigest(c, alg) # None
  PROVE  /\ c.fmt \in {"packed", "fido-u2f", "tpm"}
         /\ c.fmt = "packed" => AttestationDigest(c, alg).what = <<c.authdata, c.cdh>>
         /\ c.fmt = "fido-u2f" =>
              AttestationDigest(c, alg).what = <<c.head.rp, c.cdh, c.attcred.id, c.attcred.pk>>
         /\ c.fmt = "tpm" =>
              /\ AttestationDigest(c, alg).what = <<c.stmt.certinfo>>
              /\ c.stmt.certinfo = CertInfo(c.authdata, c.cdh, c.stmt.pubarea)
<1>1. c.fmt \in {"packed", "fido-u2f", "tpm"}
  BY DEF AttestationDigest
<1>2. CASE c.fmt = "packed"
  BY <1>2 DEF AttestationDigest, SignedHash, Digest
<1>3. CASE c.fmt = "fido-u2f"
  BY <1>3 DEF AttestationDigest, SignedHashU2f, Digest
<1>4. CASE c.fmt = "tpm"
  BY <1>4 DEF AttestationDigest, SignedHashTpm, CheckCertInfo, Digest
<1>. QED
  BY <1>1, <1>2, <1>3, <1>4

LEMMA SameDigest ==
  ASSUME NEW c, NEW alg, NEW m \in Made,
         AttestationDigest(c, alg) # None, AttestationDigest(c, alg) = AttestationSig(m).over
  PROVE  DigestsTell(c, m)
<1> DEFINE w == AttestationDigest(c, alg).what
<1>1. w = AttestationSig(m).over.what
  OBVIOUS
<1>2. /\ c.fmt \in {"packed", "fido-u2f", "tpm"}
      /\ c.fmt = "packed" => w = <<c.authdata, c.cdh>>
      /\ c.fmt = "fido-u2f" => w = <<c.head.rp, c.cdh, c.attcred.id, c.attcred.pk>>
      /\ c.fmt = "tpm" => w = <<c.stmt.certinfo>> /\ c.stmt.certinfo = CertInfo(c.authdata, c.cdh, c.stmt.pubarea)
  BY DigestOf
<1>. HIDE DEF w
<1>3. /\ m.fmt = "packed" => w = <<BytesOf(m), m.cdh>>
      /\ m.fmt = "fido-u2f" => w = <<m.rp, m.cdh, m.id, m.pk>>
      /\ m.fmt = "tpm" => w = <<CertInfo(BytesOf(m), m.cdh, PubAreaOf(m))>>
      /\ m.fmt \in {"packed", "fido-u2f", "tpm"}
  BY <1>1, SignedOver
<1>4. c.fmt = m.fmt
  BY <1>2, <1>3, TuplesDiffer
<1>5. CASE m.fmt = "packed"
  BY <1>2, <1>3, <1>4, <1>5, TuplesDiffer DEF DigestsTell
<1>6. CASE m.fmt = "fido-u2f"
  <2>1. <<c.head.rp, c.cdh, c.attcred.id, c.attcred.pk>> = <<m.rp, m.cdh, m.id, m.pk>>
    BY <1>2, <1>3, <1>4, <1>6
  <2>. QED
    BY <1>4, <1>6, <2>1, FourSame DEF DigestsTell
<1>7. CASE m.fmt = "tpm"
  <2>1. CertInfo(c.authdata, c.cdh, c.stmt.pubarea) = CertInfo(BytesOf(m), m.cdh, PubAreaOf(m))
    BY <1>2, <1>3, <1>4, <1>7, TuplesDiffer
  <2>2. <<c.authdata, c.cdh>> = <<BytesOf(m), m.cdh>>
    BY <2>1 DEF CertInfo
  <2>3. c.authdata = BytesOf(m) /\ c.cdh = m.cdh
    BY <2>2, TuplesDiffer
  <2>. QED
    BY <1>4, <1>7, <2>3 DEF DigestsTell
<1>. QED
  BY <1>3, <1>5, <1>6, <1>7

\* A credential that passes every check but the signature's is what was attested.
LEMMA CheckedAttests ==
  ASSUME NEW c, CredTyped(c), WholeDecoded(c), c.attcred.id = c.authdata.id, Checked(c),
         NEW m \in Made, DigestsTell(c, m)
  PROVE  Attests(m, c) /\ m.pk = c.attcred.pk
<1>1. /\ c.authdata.cut = None /\ "AT" \in c.authdata.flags /\ c.authdata.pk.alg = c.type
      /\ c.head = [rp |-> c.authdata.rp, flags |-> c.authdata.flags] /\ c.attcred.pk = c.authdata.pk
  BY EndMeans DEF WholeDecoded
<1>2. c.head.rp = c.rp /\ c.cdh = (IF c.cd = None THEN c.cdh ELSE Hash(c.cd))
  BY DEF Checked, CheckRpId, CredTyped
<1>3. CASE m.fmt = "fido-u2f"
  BY <1>1, <1>2, <1>3 DEF DigestsTell, Attests
<1>4. CASE m.fmt # "fido-u2f"
  <2>1. c.authdata = BytesOf(m) /\ c.cdh = m.cdh /\ c.fmt = m.fmt
    BY <1>4 DEF DigestsTell
  <2>2. c.authdata.rp = m.rp /\ c.authdata.flags = m.flags /\ c.authdata.id = m.id /\ c.authdata.pk = m.pk
        /\ c.authdata.ext = m.ext
    BY <2>1 DEF BytesOf
  <2>3. c.aext = DecodeCredExtensions(m.ext)
    BY <2>2, MadeAssumption, NoneDecoded DEF WholeDecoded
  <2>4. c.aext = [c.ext EXCEPT !.mask = @ \ {"LARGEBLOB_KEY"}]
    BY DEF Checked, CheckExtensions
  <2>5. c.aext.mask = c.ext.mask \ {"LARGEBLOB_KEY"} /\ c.aext.prot = c.ext.prot
        /\ c.aext.minpinlen = c.ext.minpinlen
    BY <2>4 DEF CredTyped, NoExt
  <2>6. "UP" \in m.flags /\ (c.uv = "TRUE" => "UV" \in m.flags)
    BY <1>1, <2>2 DEF Checked, CheckFlags
  <2>. QED
    BY <1>1, <1>2, <2>1, <2>2, <2>3, <2>5, <2>6 DEF Attests
<1>. QED
  BY <1>3, <1>4

LEMMA SignatureTells ==
  ASSUME NEW alg, NEW dgst, NEW key, NEW sig, VerifySig(alg, dgst, key, sig)
  PROVE  sig = [by |-> key, over |-> dgst]
BY DEF VerifySig, Es256VerifySig, Es384VerifySig, Rs256VerifySig, Rs1VerifySig, EddsaVerifySig, Signed, Sign

LEMMA AttestationOf ==
  ASSUME NEW c, CredTyped(c), NEW key, NEW alg, NEW valg, c.stmt.sig # None,
         AttestationDigest(c, alg) # None, VerifySig(valg, AttestationDigest(c, alg), key, c.stmt.sig)
  PROVE  \E m \in Made : m.by = key /\ DigestsTell(c, m)
<1>1. PICK m \in Made : c.stmt.sig = AttestationSig(m)
  BY DEF CredTyped, IsStmt, Signatures
<1>2. c.stmt.sig.by = key /\ c.stmt.sig.over = AttestationDigest(c, alg)
  <2> DEFINE dgst == AttestationDigest(c, alg)
  <2>1. c.stmt.sig = [by |-> key, over |-> dgst]
    BY SignatureTells
  <2>. HIDE DEF dgst
  <2>2. c.stmt.sig.by = key /\ c.stmt.sig.over = dgst
    BY <2>1
  <2>. QED
    BY <2>2 DEF dgst
<1>3. DigestsTell(c, m)
  BY <1>1, <1>2, SameDigest
<1>4. m.by = key
  BY <1>1, <1>2, SignedOver
<1>. QED
  BY <1>3, <1>4

LEMMA VerifiedAttested ==
  ASSUME NEW c, CredOK(c, {}), Verify(c) = "OK"
  PROVE  \E m \in Made : ~IsSelf(m) /\ m.by = c.stmt.x5c[1] /\ Attests(m, c)
<1> DEFINE alg == CoseAlg(c.stmt)
<1>1. /\ c.authdata # None /\ c.stmt.sig # None /\ c.stmt.x5c # <<>> /\ Checked(c)
      /\ AttestationDigest(c, alg) # None
      /\ VerifySig(alg, AttestationDigest(c, alg), c.stmt.x5c[1], c.stmt.sig)
  BY DEF Verify, Complete, VerifyAttstmt
<1>2. CredTyped(c) /\ WholeDecoded(c) /\ c.attcred.id = c.authdata.id
  BY <1>1 DEF CredOK, Decoded
<1>. HIDE DEF alg
<1>3. PICK m \in Made : m.by = c.stmt.x5c[1] /\ DigestsTell(c, m)
  BY <1>1, <1>2, AttestationOf
<1>4. Attests(m, c)
  BY <1>1, <1>2, <1>3, CheckedAttests
<1>5. ~IsSelf(m)
  BY <1>1, <1>2, <1>3 DEF IsSelf, CredTyped, IsStmt, IsCertificate
<1>. QED
  BY <1>3, <1>4, <1>5

LEMMA SelfAttested ==
  ASSUME NEW c, CredOK(c, {}), VerifySelf(c) = "OK"
  PROVE  \E m \in Made : IsSelf(m) /\ Attests(m, c)
<1> DEFINE alg == c.attcred.pk.alg
<1>1. /\ c.authdata # None /\ c.stmt.sig # None /\ Checked(c)
      /\ AttestationDigest(c, alg) # None
      /\ VerifySig(alg, AttestationDigest(c, alg), c.attcred.pk, c.stmt.sig)
  BY DEF VerifySelf, Complete
<1>2. CredTyped(c) /\ WholeDecoded(c) /\ c.attcred.id = c.authdata.id
  BY <1>1 DEF CredOK, Decoded
<1>. HIDE DEF alg
<1>3. PICK m \in Made : m.by = c.attcred.pk /\ DigestsTell(c, m)
  BY <1>1, <1>2, AttestationOf
<1>4. Attests(m, c) /\ m.pk = c.attcred.pk
  BY <1>1, <1>2, <1>3, CheckedAttests
<1>. QED
  BY <1>3, <1>4 DEF IsSelf

-----------------------------------------------------------------------------
(* What was attested passes.                                               *)

LEMMA StmtFields ==
  ASSUME NEW m \in Made
  PROVE  LET s == DecodedAttStmt(NoStmt, StmtOf(m)) IN
         /\ CoseAlg(s) = m.alg /\ s.alg = m.alg /\ s.sig = AttestationSig(m)
         /\ s.x5c = (IF IsSelf(m) THEN <<>> ELSE <<m.by>>)
         /\ s.pubarea = PubAreaOf(m) /\ s.certinfo = CertInfoOf(m)
<1>1. m.alg # "UNSPEC"
  BY MadeAssumption DEF Alg
<1> DEFINE t == StmtOf(m)  s == DecodedAttStmt(NoStmt, t)
<1>2. /\ t.alg = m.alg /\ t.sig = AttestationSig(m) /\ t.x5c = (IF IsSelf(m) THEN <<>> ELSE <<m.by>>)
      /\ t.pubarea = PubAreaOf(m) /\ t.certinfo = CertInfoOf(m) /\ t.bad = None
  BY DEF StmtOf
<1>. HIDE DEF t
<1>3. /\ s.alg = Or(t.alg, "UNSPEC", "UNSPEC") /\ s.sig = Or(t.sig, None, None) /\ s.x5c = Or(t.x5c, <<>>, <<>>)
      /\ s.pubarea = Or(t.pubarea, None, None) /\ s.certinfo = Or(t.certinfo, None, None)
  BY <1>2, NoneAssumption DEF DecodedAttStmt, NoStmt
<1>. HIDE DEF s
<1>4. /\ CoseAlg(s) = m.alg /\ s.alg = m.alg /\ s.sig = AttestationSig(m)
      /\ s.x5c = (IF IsSelf(m) THEN <<>> ELSE <<m.by>>)
      /\ s.pubarea = PubAreaOf(m) /\ s.certinfo = CertInfoOf(m)
  BY <1>1, <1>2, <1>3 DEF CoseAlg, Or
<1>. QED
  BY <1>4 DEF s, t

LEMMA HeldIsChecked ==
  ASSUME NEW c, CredTyped(c), WholeDecoded(c), NEW m \in Made, Holds(c, m), ~StaleExt(c.ext)
  PROVE  Complete(c) /\ Checked(c)
<1>1. c.authdata = BytesOf(m) /\ c.rp = m.rp /\ c.cdh = m.cdh /\ c.attcred.id = m.id /\ c.fmt = m.fmt
      /\ c.stmt = DecodedAttStmt(NoStmt, StmtOf(m))
      /\ "UP" \in m.flags /\ (c.uv = "TRUE" => "UV" \in m.flags)
  BY DEF Holds
<1>2. c.stmt.sig = AttestationSig(m)
  BY <1>1, StmtFields
<1>3. Complete(c)
  BY <1>1, <1>2, NoneAssumption DEF Complete
<1>4. c.head = [rp |-> m.rp, flags |-> m.flags]
  BY <1>1 DEF WholeDecoded, BytesOf
<1>5. CheckRpId(c.rp, c.head) /\ CheckFlags(c.head.flags, "TRUE", c.uv)
  BY <1>1, <1>4 DEF CheckRpId, CheckFlags
<1> DEFINE e == DecodeCredExtensions(m.ext)
<1>6. c.aext = e
  <2>1. c.authdata.flags = m.flags /\ c.authdata.ext = m.ext
    BY <1>1 DEF BytesOf
  <2>. QED
    BY <2>1, MadeAssumption, NoneDecoded DEF WholeDecoded
<1>7. /\ e = [mask |-> e.mask, prot |-> e.prot, minpinlen |-> e.minpinlen]
      /\ "CRED_PROTECT" \notin e.mask => e.prot = 0
      /\ "MINPINLEN" \notin e.mask => e.minpinlen = 0
  BY ExtensionsForm
<1>8. /\ c.ext.mask \ {"LARGEBLOB_KEY"} = e.mask
      /\ "CRED_PROTECT" \in e.mask => c.ext.prot = e.prot
      /\ "MINPINLEN" \in e.mask => c.ext.minpinlen = e.minpinlen
  BY DEF Holds
<1>. HIDE DEF e
<1>9. c.ext.prot = e.prot /\ c.ext.minpinlen = e.minpinlen
  BY <1>7, <1>8 DEF StaleExt
<1>10. [c.ext EXCEPT !.mask = @ \ {"LARGEBLOB_KEY"}] = [mask |-> e.mask, prot |-> e.prot, minpinlen |-> e.minpinlen]
  <2>1. DOMAIN c.ext = {"mask", "prot", "minpinlen"}
    BY DEF CredTyped, NoExt
  <2>. QED
    BY <1>8, <1>9, <2>1
<1>11. CheckExtensions(c.aext, c.ext)
  BY <1>6, <1>7, <1>10 DEF CheckExtensions
<1>. QED
  BY <1>3, <1>5, <1>11 DEF Checked

\* The digest that is verified is the one that was signed.
LEMMA HeldDigest ==
  ASSUME NEW c, WholeDecoded(c), NEW m \in Made, Holds(c, m), m.size <= DigestRoom,
         NEW alg, m.fmt = "packed" => alg = m.alg
  PROVE  AttestationDigest(c, alg) = AttestationSig(m).over
<1>1. c.authdata = BytesOf(m) /\ c.cdh = m.cdh /\ c.attcred.id = m.id /\ c.fmt = m.fmt
      /\ c.stmt = DecodedAttStmt(NoStmt, StmtOf(m))
  BY DEF Holds
<1>2. c.head.rp = m.rp /\ c.attcred.pk = m.pk
  BY <1>1 DEF WholeDecoded, BytesOf
<1>3. CASE m.fmt = "packed"
  <2>1. alg \in Alg
    BY <1>3, MadeAssumption
  <2>2. SignedHash(alg, m.cdh, BytesOf(m)) = AuthdataDigest(alg, m.cdh, BytesOf(m))
    BY <2>1 DEF SignedHash, AuthdataDigest, Digest, BytesOf, Alg
  <2>. QED
    BY <1>1, <1>3, <2>2 DEF AttestationDigest, AttestationSig, Sign
<1>4. CASE m.fmt = "fido-u2f"
  BY <1>1, <1>2, <1>4 DEF AttestationDigest, AttestationSig, Sign
<1>5. CASE m.fmt = "tpm"
  <2>1. m.alg = "RS1"
    BY <1>5, MadeAssumption
  <2>2. c.stmt.alg = "RS1" /\ c.stmt.pubarea = PubAreaOf(m) /\ c.stmt.certinfo = CertInfoOf(m)
    BY <1>1, <2>1, StmtFields
  <2>3. CheckPubArea(c.stmt.pubarea, m.pk) /\ CheckCertInfo(c.stmt.certinfo, c.cdh, c.authdata, c.stmt.pubarea)
    BY <1>1, <1>5, <2>2 DEF CheckPubArea, CheckCertInfo, PubAreaOf, CertInfoOf
  <2>4. m.pk.alg \in {"ES256", "RS256"}
    BY <1>5, MadeAssumption
  <2>5. SignedHashTpm(c.cdh, c.authdata, c.stmt, m.pk) = Digest("sha1", <<CertInfoOf(m)>>)
    BY <2>2, <2>3, <2>4 DEF SignedHashTpm
  <2>. QED
    BY <1>1, <1>2, <1>5, <2>5 DEF AttestationDigest, AttestationSig, Sign
<1>. QED
  BY <1>3, <1>4, <1>5, MadeAssumption

\* What is signed with a key verifies with the key's algorithm.
LEMMA SignedVerifies ==
  ASSUME NEW key, NEW alg, NEW dgst, BaseId(key) = KeyTypeOf(alg), alg \in AttAlg,
         alg = "RS256" => dgst.hash = "sha256", alg = "RS1" => dgst.hash = "sha1"
  PROVE  VerifySig(alg, dgst, key, Sign(key, dgst))
BY DEF KeyTypeOf, VerifySig, Es256VerifySig, Es384VerifySig, Rs256VerifySig, Rs1VerifySig, EddsaVerifySig, Signed,
       AttAlg, Alg

LEMMA AttestationVerifies ==
  ASSUME NEW m \in Made
  PROVE  VerifySig(m.alg, AttestationSig(m).over, m.by, AttestationSig(m))
<1> DEFINE dgst == AttestationSig(m).over
<1>1. AttestationSig(m) = Sign(m.by, dgst)
  <2>1. \A k, d : Sign(k, d).over = d
    BY DEF Sign
  <2>. QED
    BY <2>1 DEF AttestationSig
<1>2. BaseId(m.by) = KeyTypeOf(m.alg) /\ m.alg \in AttAlg
  BY MadeAssumption DEF AttAlg, Alg
<1>3. (m.alg = "RS256" => dgst.hash = "sha256") /\ (m.alg = "RS1" => dgst.hash = "sha1")
  BY MadeAssumption DEF AttestationSig, Sign, AuthdataDigest, Digest, Alg
<1>. HIDE DEF dgst
<1>4. VerifySig(m.alg, dgst, m.by, Sign(m.by, dgst))
  BY <1>2, <1>3, SignedVerifies
<1>. QED
  BY <1>1, <1>4 DEF dgst

LEMMA HeldAccepted ==
  ASSUME NEW c, CredTyped(c), WholeDecoded(c), NEW m \in Made, Holds(c, m), m.size <= DigestRoom, ~StaleExt(c.ext)
  PROVE  Accepts(c, m)
<1>1. Complete(c) /\ Checked(c)
  BY HeldIsChecked
<1>2. c.fmt = m.fmt /\ c.stmt.sig = AttestationSig(m) /\ CoseAlg(c.stmt) = m.alg
      /\ c.stmt.x5c = (IF IsSelf(m) THEN <<>> ELSE <<m.by>>)
  BY StmtFields DEF Holds
<1>3. AttestationSig(m).over # None /\ m.fmt \in {"packed", "fido-u2f", "tpm"}
  BY NoneAssumption, MadeAssumption
<1>4. VerifySig(m.alg, AttestationSig(m).over, m.by, AttestationSig(m))
  BY AttestationVerifies
<1>5. CASE ~IsSelf(m)
  <2>1. AttestationDigest(c, CoseAlg(c.stmt)) = AttestationSig(m).over
    BY <1>2, HeldDigest
  <2>2. c.stmt.x5c # <<>> /\ c.stmt.x5c[1] = m.by
    BY <1>2, <1>5
  <2>3. VerifyAttstmt(AttestationSig(m).over, c.stmt)
    BY <1>2, <1>4, <2>2 DEF VerifyAttstmt
  <2>. QED
    BY <1>1, <1>2, <1>3, <1>5, <2>1, <2>2, <2>3 DEF Accepts, Verify
<1>6. CASE IsSelf(m)
  <2>1. m.fmt = "packed" /\ m.alg = m.pk.alg /\ m.by = m.pk /\ m.alg \in Alg
    BY <1>6, MadeAssumption DEF IsSelf
  <2>2. c.attcred.pk = m.pk
    BY DEF WholeDecoded, Holds, BytesOf
  <2>3. AttestationDigest(c, m.alg) = AttestationSig(m).over
    BY <2>1, HeldDigest
  <2>. QED
    BY <1>1, <1>2, <1>3, <1>4, <1>6, <2>1, <2>2, <2>3 DEF Accepts, VerifySelf
<1>. QED
  BY <1>5, <1>6

LEMMA CredentialProperties ==
  ASSUME CredOK(cred, spoilt)
  PROVE  VerifiedIsAttested /\ GenuineAccepted /\ DecodedTogether
<1>1. VerifiedIsAttested
  BY VerifiedAttested, SelfAttested DEF VerifiedIsAttested
<1>2. ASSUME NEW m \in Made, Holds(cred, m), "attobj" \notin spoilt
      PROVE  CredTyped(cred) /\ WholeDecoded(cred)
  <2>1. cred.authdata # None
    BY <1>2, NoneAssumption DEF Holds
  <2>. QED
    BY <1>2, <2>1 DEF CredOK, Decoded
<1>3. GenuineAccepted
  BY <1>2, HeldAccepted DEF GenuineAccepted
<1>. QED
  BY <1>1, <1>3, DecodedIsTogether

-----------------------------------------------------------------------------
(* What an assertion object holds.                                         *)

\* s is a sequence.
Sequential(s) == Len(s) \in Nat /\ DOMAIN s = 1 .. Len(s) /\ s = [i \in DOMAIN s |-> s[i]]

LEMMA SequenceOf ==
  ASSUME NEW n \in Nat, NEW s, s = [i \in 1 .. n |-> s[i]]
  PROVE  Sequential(s) /\ Len(s) = n
<1> DEFINE S == {s[i] : i \in 1 .. n}
<1>1. s \in [1 .. n -> S]
  OBVIOUS
<1>2. s \in Seq(S)
  BY <1>1, SeqDef
<1>. HIDE DEF S
<1>3. Len(s) \in Nat /\ DOMAIN s = 1 .. Len(s)
  BY <1>2, LenProperties
<1>4. DOMAIN s = 1 .. n
  BY <1>1
<1>5. Len(s) = n
  BY <1>3, <1>4
<1>. QED
  BY <1>3, <1>4, <1>5 DEF Sequential

\* A statement's decoded parts are those of its authenticator data.
GoodStatement(s) ==
  /\ DOMAIN s = DOMAIN NoStatement /\ s.sig \in AssertSignatures
  /\ s.authdata = None => s.head = NoHead /\ s.aext = {}
  /\ s.authdata # None =>
       s.head = [rp |-> s.authdata.rp, flags |-> s.authdata.flags] /\ s.aext = AssertExtensions(s.authdata)

AssertOK(a) ==
  /\ DOMAIN a = DOMAIN NoAssert /\ (a.cd # None => a.cdh = AHash(a.cd))
  /\ Sequential(a.allow)
  /\ Sequential(a.stmt) /\ a.stmt_len \in 0 .. Len(a.stmt)
  /\ \A i \in DOMAIN a.stmt : GoodStatement(a.stmt[i])

LEMMA NoneGood == GoodStatement(NoStatement)
BY DEF GoodStatement, NoStatement, AssertSignatures

LEMMA AskKeeps ==
  ASSUME NEW a, AssertOK(a), NEW x
  PROVE  /\ AssertOK(ASetClientdata(a, x)) /\ AssertOK(ASetClientdataHash(a, x)) /\ AssertOK(ASetRp(a, x))
         /\ AssertOK(ASetUp(a, x)) /\ AssertOK(ASetUv(a, x)) /\ AssertOK(ASetExtensions(a, x))
         /\ AssertOK(SetWinhelloAppid(a, x))
<1> DEFINE Same(b) ==
       DOMAIN b = DOMAIN a /\ (b.cd # None => b.cdh = AHash(b.cd)) /\ b.stmt = a.stmt /\ b.stmt_len = a.stmt_len
       /\ b.allow = a.allow
<1>1. \A b : Same(b) => AssertOK(b)
  BY DEF AssertOK
<1>2. Same(ASetClientdata(a, x))
  BY DEF ASetClientdata, AssertOK, NoAssert
<1>3. Same(ASetClientdataHash(a, x))
  BY DEF ASetClientdataHash, AssertOK, NoAssert
<1>4. Same(ASetRp(a, x)) /\ Same(ASetUp(a, x)) /\ Same(ASetUv(a, x)) /\ Same(SetWinhelloAppid(a, x))
  BY DEF ASetRp, ASetUp, ASetUv, SetWinhelloAppid, AssertOK, NoAssert
<1>5. Same(ASetExtensions(a, x))
  BY DEF ASetExtensions, AssertOK, NoAssert
<1>. HIDE DEF Same
<1>. QED
  BY <1>1, <1>2, <1>3, <1>4, <1>5

LEMMA CountKeeps ==
  ASSUME NEW a, AssertOK(a), NEW n \in Nat
  PROVE  LET b == SetCount(a, n) IN
         /\ AssertOK(b) /\ Len(b.stmt) = n /\ b.stmt_len = n
         /\ b.cd = a.cd /\ b.cdh = a.cdh /\ b.rp = a.rp /\ b.up = a.up /\ b.uv = a.uv /\ b.ext = a.ext
         /\ b.allow = a.allow /\ b.appid = a.appid
<1> DEFINE b == SetCount(a, n)
           s == [i \in 1 .. n |-> IF i <= Len(a.stmt) THEN a.stmt[i] ELSE NoStatement]
<1>1. /\ b.stmt = s /\ b.stmt_len = n /\ DOMAIN b = DOMAIN a
      /\ b.cd = a.cd /\ b.cdh = a.cdh /\ b.rp = a.rp /\ b.up = a.up /\ b.uv = a.uv /\ b.ext = a.ext
      /\ b.allow = a.allow /\ b.appid = a.appid
  BY DEF SetCount, AssertOK, NoAssert
<1>2. s = [i \in 1 .. n |-> s[i]]
  OBVIOUS
<1>3. \A i \in DOMAIN s : GoodStatement(s[i])
  BY NoneGood DEF AssertOK, Sequential
<1>. HIDE DEF b, s
<1>4. Sequential(s) /\ Len(s) = n
  BY <1>2, SequenceOf
<1>5. AssertOK(b)
  BY <1>1, <1>3, <1>4 DEF AssertOK
<1>. QED
  BY <1>1, <1>4, <1>5 DEF b

\* One statement is replaced.
LEMMA StatementSet ==
  ASSUME NEW s, Sequential(s), NEW k, NEW x
  PROVE  LET t == [s EXCEPT ![k] = x] IN
         Sequential(t) /\ Len(t) = Len(s) /\ \A i \in 1 .. Len(s) : t[i] = IF i = k THEN x ELSE s[i]
<1> DEFINE t == [s EXCEPT ![k] = x]  n == Len(s)
<1>1. n \in Nat /\ t = [i \in 1 .. n |-> t[i]] /\ \A i \in 1 .. n : t[i] = IF i = k THEN x ELSE s[i]
  BY DEF Sequential
<1>. HIDE DEF t
<1>2. Sequential(t) /\ Len(t) = n
  BY <1>1, SequenceOf
<1>. QED
  BY <1>1, <1>2 DEF t

LEMMA DecodedIsGood ==
  ASSUME NEW s, GoodStatement(s), NEW d, d # None
  PROVE  LET e == DecodeStatement(s, d) IN
         /\ GoodStatement(e) /\ e.sig = s.sig /\ e.id = s.id /\ e.made = s.made /\ e.user = s.user
         /\ e.authdata = IF AssertAuthdataDecodes(d) THEN d ELSE None
<1> DEFINE c == CleanStatement(s)
<1>1. /\ DOMAIN c = DOMAIN s /\ c.authdata = None /\ c.head = NoHead /\ c.aext = {}
      /\ c.sig = s.sig /\ c.id = s.id /\ c.made = s.made /\ c.user = s.user
  BY DEF CleanStatement, GoodStatement, NoStatement
<1>. HIDE DEF c
<1>2. CASE AssertAuthdataDecodes(d)
  <2> DEFINE e == DecodedAssertAuthdata(c, d)
  <2>1. DecodeStatement(s, d) = e
    BY <1>2 DEF DecodeStatement, c
  <2>2. /\ DOMAIN e = DOMAIN c /\ e.authdata = d /\ e.head = [rp |-> d.rp, flags |-> d.flags]
        /\ e.aext = AssertExtensions(d)
        /\ e.sig = s.sig /\ e.id = s.id /\ e.made = s.made /\ e.user = s.user
    BY <1>1 DEF DecodedAssertAuthdata, GoodStatement, NoStatement
  <2>. HIDE DEF e
  <2>3. GoodStatement(e)
    BY <1>1, <2>2 DEF GoodStatement
  <2>. QED
    BY <1>2, <2>1, <2>2, <2>3
<1>3. CASE ~AssertAuthdataDecodes(d)
  <2>1. DecodeStatement(s, d) = c
    BY <1>3 DEF DecodeStatement, c
  <2>2. GoodStatement(c)
    BY <1>1 DEF GoodStatement
  <2>. QED
    BY <1>1, <1>3, <2>1, <2>2
<1>. QED
  BY <1>2, <1>3

SameQuery(a, b) ==
  /\ b.cd = a.cd /\ b.cdh = a.cdh /\ b.rp = a.rp /\ b.up = a.up /\ b.uv = a.uv /\ b.ext = a.ext
  /\ b.allow = a.allow /\ b.appid = a.appid

\* The statements of a are those of s.
LEMMA StatementsKeep ==
  ASSUME NEW a, AssertOK(a), NEW s, Sequential(s), Len(s) = Len(a.stmt),
         \A i \in 1 .. Len(s) : GoodStatement(s[i])
  PROVE  LET b == [a EXCEPT !.stmt = s] IN
         AssertOK(b) /\ SameQuery(a, b) /\ b.stmt = s /\ b.stmt_len = a.stmt_len
<1> DEFINE b == [a EXCEPT !.stmt = s]
<1>1. DOMAIN b = DOMAIN a /\ SameQuery(a, b) /\ b.stmt = s /\ b.stmt_len = a.stmt_len
  BY DEF AssertOK, NoAssert, SameQuery
<1>. HIDE DEF b
<1>2. AssertOK(b)
  BY <1>1 DEF AssertOK, SameQuery, Sequential
<1>. QED
  BY <1>1, <1>2 DEF b

LEMMA AnswerKeeps ==
  ASSUME NEW a, AssertOK(a), NEW i \in Nat, i # 0, NEW x
  PROVE  AssertOK(ASetAuthdata(a, i, x)) /\ (x \in AssertSignatures => AssertOK(ASetSig(a, i, x)))
<1>1. AssertOK(ASetAuthdata(a, i, x))
  <2>1. CASE i > a.stmt_len \/ x = None
    BY <2>1 DEF ASetAuthdata
  <2>2. CASE ~(i > a.stmt_len \/ x = None)
    <3> DEFINE e == DecodeStatement(a.stmt[i], x)  s == [a.stmt EXCEPT ![i] = e]
    <3>1. ASetAuthdata(a, i, x) = [a EXCEPT !.stmt = s]
      BY <2>2 DEF ASetAuthdata
    <3>2. Sequential(a.stmt) /\ i \in 1 .. Len(a.stmt) /\ \A j \in 1 .. Len(a.stmt) : GoodStatement(a.stmt[j])
      BY <2>2 DEF AssertOK, Sequential
    <3>3. GoodStatement(e)
      BY <2>2, <3>2, DecodedIsGood
    <3>. HIDE DEF e
    <3>4. Sequential(s) /\ Len(s) = Len(a.stmt) /\ \A j \in 1 .. Len(a.stmt) : s[j] = IF j = i THEN e ELSE a.stmt[j]
      BY <3>2, StatementSet
    <3>. HIDE DEF s
    <3>5. \A j \in 1 .. Len(s) : GoodStatement(s[j])
      BY <3>2, <3>3, <3>4
    <3>. QED
      BY <3>1, <3>4, <3>5, StatementsKeep
  <2>. QED
    BY <2>1, <2>2
<1>2. ASSUME x \in AssertSignatures PROVE AssertOK(ASetSig(a, i, x))
  <2>1. CASE i > a.stmt_len \/ x = None
    BY <2>1 DEF ASetSig
  <2>2. CASE ~(i > a.stmt_len \/ x = None)
    <3> DEFINE e == [a.stmt[i] EXCEPT !.sig = x]  s == [a.stmt EXCEPT ![i] = e]
    <3>1. ASetSig(a, i, x) = [a EXCEPT !.stmt = s]
      BY <2>2 DEF ASetSig
    <3>2. Sequential(a.stmt) /\ i \in 1 .. Len(a.stmt) /\ \A j \in 1 .. Len(a.stmt) : GoodStatement(a.stmt[j])
      BY <2>2 DEF AssertOK, Sequential
    <3>3. GoodStatement(e)
      BY <1>2, <3>2 DEF GoodStatement, NoStatement
    <3>. HIDE DEF e
    <3>4. Sequential(s) /\ Len(s) = Len(a.stmt) /\ \A j \in 1 .. Len(a.stmt) : s[j] = IF j = i THEN e ELSE a.stmt[j]
      BY <3>2, StatementSet
    <3>. HIDE DEF s
    <3>5. \A j \in 1 .. Len(s) : GoodStatement(s[j])
      BY <3>2, <3>3, <3>4
    <3>. QED
      BY <3>1, <3>4, <3>5, StatementsKeep
  <2>. QED
    BY <2>1, <2>2
<1>. QED
  BY <1>1, <1>2

-----------------------------------------------------------------------------
(* Verification of an assertion.                                           *)

LEMMA AssertionOver ==
  ASSUME NEW g \in Given
  PROVE  /\ AssertionSig(g).by = g.pk /\ AssertionSig(g).over.what = <<AssertBytesOf(g), g.cdh>>
         /\ AssertionSig(g).over = AuthdataDigest(g.pk.alg, g.cdh, AssertBytesOf(g))
         /\ AssertionSig(g) = Sign(g.pk, AssertionSig(g).over)
         /\ g.pk.alg \in Alg
<1>1. g.pk.alg \in Alg
  BY GivenAssumption
<1>2. \A k, d : Sign(k, d).over = d /\ Sign(k, d).by = k
  BY DEF Sign
<1>3. AssertionSig(g).by = g.pk /\ AssertionSig(g).over = AuthdataDigest(g.pk.alg, g.cdh, AssertBytesOf(g))
  BY <1>2 DEF AssertionSig
<1>4. AuthdataDigest(g.pk.alg, g.cdh, AssertBytesOf(g)).what = <<AssertBytesOf(g), g.cdh>>
  BY <1>1 DEF AuthdataDigest, Digest, Alg
<1>5. AssertionSig(g) = Sign(g.pk, AssertionSig(g).over)
  BY <1>3 DEF AssertionSig
<1>. QED
  BY <1>1, <1>3, <1>4, <1>5

LEMMA AssertedGiven ==
  ASSUME NEW a, AssertOK(a), NEW i \in 1 .. a.stmt_len, NEW pk, AssertVerify(a, i, pk.alg, pk) = "OK"
  PROVE  \E g \in Given :
           /\ g.pk = pk /\ g.rp = a.rp
           /\ g.cdh = (IF a.cd = None THEN a.cdh ELSE AHash(a.cd))
           /\ (a.up = "TRUE" => "UP" \in g.flags) /\ (a.uv = "TRUE" => "UV" \in g.flags)
           /\ AssertExtensions(AssertBytesOf(g)) = a.ext \ {"LARGEBLOB_KEY"}
<1> DEFINE s == a.stmt[i]  dgst == SignedHash(pk.alg, a.cdh, s.authdata)
<1>1. GoodStatement(s)
  BY DEF AssertOK, Sequential
<1>2. /\ s.authdata # None /\ s.sig # None /\ dgst # None
      /\ CheckFlags(s.head.flags, a.up, a.uv) /\ ACheckExtensions(s.aext, a.ext) /\ CheckRpId(a.rp, s.head)
      /\ VerifySig(pk.alg, dgst, pk, s.sig)
  BY DEF AssertVerify, AComplete
<1>3. PICK g \in Given : s.sig = AssertionSig(g)
  BY <1>1, <1>2 DEF GoodStatement, AssertSignatures
<1>4. s.sig = [by |-> pk, over |-> dgst]
  <2>. HIDE DEF dgst, s
  <2>. QED
    BY <1>2, SignatureTells
<1>5. dgst.what = <<s.authdata, a.cdh>>
  <2>. HIDE DEF s
  <2>. QED
    BY <1>2 DEF SignedHash, Digest
<1>. HIDE DEF dgst, s
<1>6. g.pk = pk /\ <<s.authdata, a.cdh>> = <<AssertBytesOf(g), g.cdh>>
  <2>1. s.sig.by = pk /\ s.sig.over = dgst
    BY <1>4
  <2>. QED
    BY <1>3, <1>5, <2>1, AssertionOver
<1>7. s.authdata = AssertBytesOf(g) /\ a.cdh = g.cdh
  BY <1>6, TuplesDiffer
<1>8. s.head = [rp |-> g.rp, flags |-> g.flags] /\ s.aext = AssertExtensions(AssertBytesOf(g))
  <2>1. s.authdata.rp = g.rp /\ s.authdata.flags = g.flags
    BY <1>7 DEF AssertBytesOf, BytesOf
  <2>. QED
    BY <1>1, <1>2, <1>7, <2>1 DEF GoodStatement
<1>9. a.rp = g.rp /\ CheckFlags(g.flags, a.up, a.uv)
      /\ AssertExtensions(AssertBytesOf(g)) = a.ext \ {"LARGEBLOB_KEY"}
  BY <1>2, <1>8 DEF CheckRpId, ACheckExtensions
<1>. QED
  BY <1>6, <1>7, <1>9 DEF AssertOK, CheckFlags

LEMMA GivenVerifies ==
  ASSUME NEW a, AssertOK(a), NEW i \in 1 .. a.stmt_len, NEW g \in Given,
         a.stmt[i].authdata = AssertBytesOf(g), a.stmt[i].sig = AssertionSig(g),
         a.rp = g.rp, a.cdh = g.cdh, CheckFlags(g.flags, a.up, a.uv),
         AssertExtensions(AssertBytesOf(g)) = a.ext \ {"LARGEBLOB_KEY"},
         g.size <= DigestRoom
  PROVE  AssertVerify(a, i, g.pk.alg, g.pk) = "OK"
<1> DEFINE s == a.stmt[i]  dgst == SignedHash(g.pk.alg, a.cdh, s.authdata)
<1>1. GoodStatement(s)
  BY DEF AssertOK, Sequential
<1>2. None \notin {g.rp, g.cdh, g.pk, AssertBytesOf(g), AssertionSig(g), AssertionSig(g).over}
  BY NoneAssumption
<1>3. s.head = [rp |-> g.rp, flags |-> g.flags] /\ s.aext = AssertExtensions(AssertBytesOf(g))
  <2>1. s.authdata.rp = g.rp /\ s.authdata.flags = g.flags
    BY DEF AssertBytesOf, BytesOf
  <2>. QED
    BY <1>1, <1>2, <2>1 DEF GoodStatement
<1>4. CheckFlags(s.head.flags, a.up, a.uv) /\ ACheckExtensions(s.aext, a.ext) /\ CheckRpId(a.rp, s.head)
  <2>. HIDE DEF s
  <2>. QED
    BY <1>3 DEF CheckRpId, ACheckExtensions
<1>5. g.pk.alg \in Alg /\ AssertionSig(g) = Sign(g.pk, AssertionSig(g).over)
      /\ AssertionSig(g).over = AuthdataDigest(g.pk.alg, g.cdh, AssertBytesOf(g))
  BY AssertionOver
<1>6. dgst = AssertionSig(g).over
  <2>1. AssertBytesOf(g).size = g.size
    BY DEF AssertBytesOf, BytesOf
  <2>2. SignedHash(g.pk.alg, g.cdh, AssertBytesOf(g)) = AuthdataDigest(g.pk.alg, g.cdh, AssertBytesOf(g))
    BY <1>5, <2>1 DEF SignedHash, AuthdataDigest, Alg
  <2>. QED
    BY <1>5, <2>2
<1>7. VerifySig(g.pk.alg, dgst, g.pk, s.sig)
  <2>1. BaseId(g.pk) = KeyTypeOf(g.pk.alg) /\ g.pk.alg \in AttAlg
    BY <1>5 DEF BaseId, KeyTypeOf, AttAlg, Alg
  <2>2. g.pk.alg = "RS256" => AssertionSig(g).over.hash = "sha256"
    BY <1>5 DEF AuthdataDigest, Digest
  <2>3. g.pk.alg # "RS1"
    BY <1>5 DEF Alg
  <2> DEFINE d == AssertionSig(g).over
  <2>. HIDE DEF d, dgst
  <2>4. VerifySig(g.pk.alg, d, g.pk, Sign(g.pk, d))
    BY <2>1, <2>2, <2>3, SignedVerifies DEF d
  <2>. QED
    BY <1>5, <1>6, <2>4 DEF d
<1>8. AComplete(a, i)
  BY <1>2 DEF AComplete
<1>. QED
  BY <1>2, <1>4, <1>6, <1>7, <1>8 DEF AssertVerify

LEMMA AssertionProperties ==
  ASSUME AssertOK(asrt)
  PROVE  AssertionIsGiven /\ GivenAccepted
<1>1. AssertionIsGiven
  BY AssertedGiven DEF AssertionIsGiven, Indices
<1>2. ASSUME NEW i \in Indices, NEW g \in Given,
             LET s == asrt.stmt[i] IN
             /\ s.authdata = AssertBytesOf(g) /\ s.sig = AssertionSig(g)
             /\ asrt.rp = g.rp /\ asrt.cdh = g.cdh /\ CheckFlags(g.flags, asrt.up, asrt.uv)
             /\ AssertExtensions(s.authdata) = asrt.ext \ {"LARGEBLOB_KEY"}
             /\ g.size <= DigestRoom
      PROVE  AssertVerify(asrt, i, g.pk.alg, g.pk) = "OK"
  <2>1. AssertExtensions(AssertBytesOf(g)) = asrt.ext \ {"LARGEBLOB_KEY"}
    BY <1>2
  <2>. QED
    BY <1>2, <2>1, GivenVerifies DEF Indices
<1>3. GivenAccepted
  BY <1>2 DEF GivenAccepted
<1>. QED
  BY <1>1, <1>3

-----------------------------------------------------------------------------
(* Answers to make_cred.                                                   *)

\* The object holds attestation m, all of it decoded.
Received(c, d, m) ==
  /\ SameRequest(c, d) /\ WholeDecoded(d) /\ d.fmt = m.fmt /\ d.authdata = BytesOf(m)
  /\ d.attcred.id = m.id /\ d.stmt = DecodedAttStmt(NoStmt, StmtOf(m))

LEMMA MadeIsAttobj ==
  ASSUME NEW m \in Made
  PROVE  /\ IsAttobj(AttobjOf(m)) /\ AttobjOf(m).fmt = m.fmt /\ AttobjOf(m).authdata = BytesOf(m)
         /\ AttobjOf(m).authdata.id = m.id /\ AttobjOf(m).stmt = StmtOf(m)
<1>1. IsStmt(StmtOf(m))
  <2>1. StmtOf(m).sig \in Signatures /\ StmtOf(m).x5c = (IF IsSelf(m) THEN <<>> ELSE <<m.by>>)
    BY DEF StmtOf, Signatures
  <2>2. ~IsSelf(m) => IsCertificate(m.by)
    BY MadeAssumption DEF IsCertificate
  <2>. QED
    BY <2>1, <2>2 DEF IsStmt
<1>2. BytesOf(m) # None /\ IsCredAuthdata(BytesOf(m)) /\ BytesOf(m).id = m.id
  BY NoneAssumption DEF IsCredAuthdata, BytesOf
<1>. QED
  BY <1>1, <1>2 DEF AttobjOf, IsAttobj

LEMMA AppAttobjs ==
  ASSUME program \in DOMAIN Programs, app.what = "cred", NEW o \in app.attobjs
  PROVE  IsAttobj(o)
BY ProgramsAssumption DEF app, IsAttobj

\* cbor_decode_attobj into an emptied object, of what an authenticator made.
LEMMA DecodedIsReceived ==
  ASSUME NEW c, Emptied(c), c.stmt = NoStmt, NEW m \in Made, DecodeAttobj(c, AttobjOf(m)).ok
  PROVE  Received(c, DecodeAttobj(c, AttobjOf(m)).obj, m)
<1> DEFINE o == AttobjOf(m)
<1>1. IsAttobj(o) /\ o.fmt = m.fmt /\ o.authdata = BytesOf(m) /\ o.authdata.id = m.id /\ o.stmt = StmtOf(m)
  BY MadeIsAttobj
<1> DEFINE r == DecodeAttobj(c, o)
<1>. HIDE DEF o
<1>2. /\ CredOK(r.obj, IF r.ok THEN {} ELSE {"attobj"}) /\ SameRequest(c, r.obj)
      /\ r.ok => /\ WholeDecoded(r.obj) /\ r.obj.attcred.id = o.authdata.id
                 /\ r.obj.fmt = o.fmt /\ r.obj.authdata = o.authdata
                 /\ r.obj.stmt = DecodedAttStmt(c.stmt, o.stmt)
  BY <1>1, AttobjKeeps
<1>3. r.ok
  BY DEF o
<1>. HIDE DEF r
<1>4. Received(c, r.obj, m)
  BY <1>1, <1>2, <1>3 DEF Received
<1>. QED
  BY <1>4 DEF r, o

LEMMA ReplyKeeps ==
  ASSUME NEW c, CredTyped(c), NEW o, IsAttobj(o)
  PROVE  LET r == MakeCredReply(c, o) IN
         /\ CredOK(r.obj, {}) /\ SameRequest(c, r.obj)
         /\ ~r.ok => r.obj = ResetRx(c)
         /\ \A m \in Made : r.ok /\ o = AttobjOf(m) => Received(c, r.obj, m)
<1> DEFINE e == ResetRx(c)  r == DecodeAttobj(e, o)  q == MakeCredReply(c, o)
<1>1. Emptied(e) /\ SameRequest(c, e) /\ e.stmt = NoStmt
  BY Empties
<1>2. CASE r.ok
  <2> DEFINE d == [r.obj EXCEPT !.lbkey = calls + 1]
  <2>1. q.ok = TRUE /\ q.obj = d
    BY <1>2 DEF MakeCredReply
  <2>2. CredOK(r.obj, {}) /\ SameRequest(e, r.obj)
    <3>1. CredOK(r.obj, IF r.ok THEN {} ELSE {"attobj"}) /\ SameRequest(e, r.obj)
      <4>. HIDE DEF e
      <4>. QED
        BY <1>1, AttobjKeeps
    <3>. QED
      BY <1>2, <3>1
  <2>3. \A m \in Made : o = AttobjOf(m) => Received(e, r.obj, m)
    <3>. HIDE DEF e
    <3>. QED
      BY <1>1, <1>2, DecodedIsReceived
  <2>. HIDE DEF r, e
  <2>4. /\ DOMAIN d = DOMAIN r.obj /\ SameRequest(r.obj, d) /\ d.stmt = r.obj.stmt
        /\ d.fmt = r.obj.fmt /\ d.authdata = r.obj.authdata /\ d.head = r.obj.head /\ d.attcred = r.obj.attcred
        /\ d.aext = r.obj.aext
    BY <2>2 DEF CredOK, CredTyped, NoCred, SameRequest
  <2>. HIDE DEF d
  <2>5. CredOK(d, {})
    <3>1. CredTyped(d) /\ d.type = r.obj.type
      BY <2>2, <2>4 DEF CredOK, CredTyped, SameRequest
    <3>. QED
      BY <2>2, <2>4, <3>1, OthersKeep
  <2>6. SameRequest(c, d)
    BY <1>1, <2>2, <2>4 DEF SameRequest
  <2>7. \A m \in Made : o = AttobjOf(m) => Received(c, d, m)
    BY <1>1, <2>3, <2>4, <2>6 DEF Received, WholeDecoded, SameRequest
  <2>. HIDE DEF q
  <2>. QED
    BY <2>1, <2>5, <2>6, <2>7 DEF q
<1>3. CASE ~r.ok
  <2>1. q.ok = FALSE /\ q.obj = e
    BY <1>3 DEF MakeCredReply
  <2>2. CredOK(e, {})
    <3>. HIDE DEF e
    <3>. QED
      BY <1>1, EmptiedOK
  <2>. HIDE DEF q
  <2>. QED
    BY <1>1, <2>1, <2>2 DEF q
<1>. QED
  BY <1>2, <1>3

\* parse_register_reply: what a U2F token made.
LEMMA RegisteredKeeps ==
  ASSUME NEW c, CredTyped(c), NEW m \in Made, m.fmt = "fido-u2f", m.rp = c.rp
  PROVE  /\ CredOK(RegisterReply(c, m).obj, {}) /\ SameRequest(c, RegisterReply(c, m).obj)
         /\ RegisterReply(c, m).ok => Received(c, RegisterReply(c, m).obj, m)
<1> DEFINE f == SetFmt(c, "fido-u2f")  e == CleanAuthdata(f)
           a == EncodeCredAuthdata(c.rp, m.id, m.pk)  d == SetAuthdata(f, a)
           s == EncodeCredAttstmt(m.by, AttestationSig(m))  r == RegisterReply(c, m)
<1>1. CredTyped(f) /\ SameRequest(c, f) /\ f.fmt = "fido-u2f"
  BY DEF SetFmt, Formats, CredTyped, NoCred, SameRequest
<1>2. Emptied(e) /\ SameRequest(f, e) /\ e.fmt = "fido-u2f"
  <2>1. e.fmt = "fido-u2f"
    <3>. HIDE DEF f
    <3>. QED
      BY <1>1 DEF CleanAuthdata, CredTyped, NoCred
  <2>. HIDE DEF f
  <2>. QED
    BY <1>1, <2>1, Empties
<1>3. a = BytesOf(m) /\ a # None /\ IsCredAuthdata(a) /\ a.id = m.id
  <2>1. m.flags = {"UP", "AT"} /\ m.ext = <<>> /\ m.size = 1 /\ BytesOf(m) # None
    BY MadeAssumption, NoneAssumption
  <2>2. a = BytesOf(m)
    BY <2>1 DEF EncodeCredAuthdata, BytesOf
  <2>. QED
    BY <2>1, <2>2 DEF EncodeCredAuthdata, IsCredAuthdata
<1>4. IsStmt(s) /\ s = StmtOf(m) /\ AttStmtDecodes(s) /\ s # None
  <2>1. ~IsSelf(m) /\ m.alg = "ES256"
    BY MadeAssumption
  <2>2. PubAreaOf(m) = None /\ CertInfoOf(m) = None
    BY DEF PubAreaOf, CertInfoOf
  <2>3. s = StmtOf(m)
    BY <2>1, <2>2 DEF EncodeCredAttstmt, StmtOf
  <2>4. IsStmt(StmtOf(m))
    BY MadeIsAttobj DEF IsAttobj
  <2>5. s.bad = None
    BY DEF EncodeCredAttstmt
  <2>. QED
    BY <2>3, <2>4, <2>5, NoneAssumption DEF AttStmtDecodes
<1>. HIDE DEF a, s
<1>5. CASE d.ok
  <2> DEFINE g == DecodeAuthdata(e, a)
  <2>1. d = g /\ g.ok
    BY <1>5 DEF SetAuthdata
  <2>. HIDE DEF e, d
  <2>2. /\ CredTyped(g.obj) /\ WholeDecoded(g.obj) /\ g.obj.attcred.id = a.id /\ g.obj.authdata = a
        /\ SameRequest(e, g.obj) /\ g.obj.fmt = e.fmt
    BY <1>2, <1>3, <2>1, DecodeIsWhole
  <2>. HIDE DEF g
  <2> DEFINE h == [g.obj EXCEPT !.stmt = DecodedAttStmt(CleanAttstmt(g.obj).stmt, s)]
  <2>3. r.obj = h /\ r.ok = TRUE
    BY <1>4, <1>5, <2>1 DEF RegisterReply, SetAttstmt, d, a, s, f
  <2>4. /\ DOMAIN h = DOMAIN g.obj /\ SameRequest(g.obj, h) /\ h.stmt = DecodedAttStmt(NoStmt, s)
        /\ h.fmt = g.obj.fmt /\ h.authdata = g.obj.authdata /\ h.head = g.obj.head /\ h.attcred = g.obj.attcred
        /\ h.aext = g.obj.aext
    BY <2>2 DEF CredTyped, NoCred, SameRequest, CleanAttstmt
  <2>. HIDE DEF h
  <2>5. IsStmt(DecodedAttStmt(NoStmt, s)) /\ DOMAIN DecodedAttStmt(NoStmt, s) = DOMAIN NoStmt
    BY <1>4 DEF DecodedAttStmt, Or, IsStmt, NoStmt, Signatures
  <2>6. CredTyped(h)
    BY <2>2, <2>4, <2>5 DEF CredTyped, SameRequest
  <2>7. WholeDecoded(h)
    BY <2>2, <2>4 DEF WholeDecoded, SameRequest
  <2>8. CredOK(h, {})
    BY <1>3, <2>2, <2>4, <2>6, <2>7 DEF CredOK, Decoded
  <2>9. SameRequest(c, h)
    BY <1>1, <1>2, <2>2, <2>4 DEF SameRequest
  <2>10. Received(c, h, m)
    BY <1>2, <1>3, <1>4, <2>2, <2>4, <2>7, <2>9 DEF Received
  <2>. HIDE DEF r
  <2>. QED
    BY <2>3, <2>8, <2>9, <2>10 DEF r
<1>6. CASE ~d.ok
  <2>1. d.obj = e /\ d.ok = FALSE
    BY <1>6 DEF SetAuthdata
  <2>2. r = d
    BY <1>6 DEF RegisterReply, a
  <2>3. CredOK(e, {}) /\ SameRequest(c, e)
    <3>. HIDE DEF e, f
    <3>. QED
      BY <1>1, <1>2, EmptiedOK DEF SameRequest
  <2>. HIDE DEF r, d
  <2>. QED
    BY <2>1, <2>2, <2>3 DEF r
<1>. QED
  BY <1>5, <1>6

-----------------------------------------------------------------------------
(* Answers to get_assert.                                                  *)

\* Statement s of a was given for what a asks, by a token that has keys, in call n.
Shows(a, s, keys, n) ==
  /\ s.made = n /\ s.id \in keys /\ (a.allow # <<>> => \E j \in DOMAIN a.allow : a.allow[j] = s.id)
  /\ \E g \in Given :
       /\ g.id = s.id /\ s.authdata = AssertBytesOf(g) /\ s.sig = AssertionSig(g)
       /\ g.rp = a.rp /\ g.cdh = a.cdh /\ CheckFlags(g.flags, a.up, a.uv)
       /\ AssertExtensions(AssertBytesOf(g)) = a.ext \ {"LARGEBLOB_KEY"}

LEMMA ShowsSame ==
  ASSUME NEW a, NEW b, SameQuery(a, b), NEW s, NEW keys, NEW n, Shows(a, s, keys, n)
  PROVE  Shows(b, s, keys, n)
BY DEF Shows, SameQuery

LEMMA EmptiedAssert ==
  ASSUME NEW a, AssertOK(a)
  PROVE  AssertOK(AResetRx(a)) /\ SameQuery(a, AResetRx(a))
<1> DEFINE b == AResetRx(a)
<1>1. DOMAIN b = DOMAIN a /\ SameQuery(a, b) /\ b.stmt = <<>> /\ b.stmt_len = 0
  BY DEF AResetRx, AssertOK, NoAssert, SameQuery
<1>2. Sequential(<<>>) /\ Len(<<>>) = 0
  BY DEF Sequential
<1>. HIDE DEF b
<1>3. AssertOK(b)
  BY <1>1, <1>2 DEF AssertOK, SameQuery, Sequential
<1>. QED
  BY <1>1, <1>3 DEF b

LEMMA GivenBytes ==
  ASSUME NEW g \in Given
  PROVE  /\ AssertBytesOf(g).rp = g.rp /\ AssertBytesOf(g).flags = g.flags /\ AssertBytesOf(g).cut = None
         /\ AssertBytesOf(g).ext = g.ext /\ AssertBytesOf(g).size = g.size
         /\ AssertBytesOf(g) # None /\ AssertionSig(g) # None /\ AssertionSig(g) \in AssertSignatures
BY NoneAssumption DEF AssertBytesOf, BytesOf, AssertSignatures

LEMMA StatementIsGood ==
  ASSUME NEW g \in Given
  PROVE  LET s == StatementOf(g) IN
         /\ GoodStatement(s) /\ s.id = g.id /\ s.made = calls + 1
         /\ s.authdata = AssertBytesOf(g) /\ s.sig = AssertionSig(g)
<1> DEFINE a == AssertBytesOf(g)  d == DecodedAssertAuthdata(NoStatement, a)  s == StatementOf(g)
<1>1. a # None /\ AssertionSig(g) \in AssertSignatures
  BY GivenBytes
<1>. HIDE DEF a
<1>2. /\ DOMAIN d = DOMAIN NoStatement /\ d.authdata = a /\ d.head = [rp |-> a.rp, flags |-> a.flags]
      /\ d.aext = AssertExtensions(a)
  BY DEF DecodedAssertAuthdata, NoStatement
<1>. HIDE DEF d
<1>3. /\ DOMAIN s = DOMAIN NoStatement /\ s.authdata = a /\ s.head = d.head /\ s.aext = d.aext
      /\ s.sig = AssertionSig(g) /\ s.id = g.id /\ s.made = calls + 1
  BY <1>2 DEF StatementOf, d, a, NoStatement
<1>. HIDE DEF s
<1>4. GoodStatement(s)
  BY <1>1, <1>2, <1>3 DEF GoodStatement
<1>. QED
  BY <1>3, <1>4 DEF s, a

\* What a FIDO2 device has answered.
AnswersPut(a, gs, n) == [a EXCEPT !.stmt = Answered(gs, n), !.stmt_len = Len(gs)]

LEMMA AnsweredKeeps ==
  ASSUME NEW a, AssertOK(a), NEW dev, NEW n \in 1 .. 2, NEW gs \in BoundedSeq(GivenFor(a, dev), 2), Len(gs) <= n
  PROVE  LET b == AnswersPut(a, gs, n) IN
         /\ AssertOK(b) /\ b.stmt_len = Len(gs)
         /\ \A i \in 1 .. Len(gs) : Shows(b, b.stmt[i], dev.keys, calls + 1)
<1> DEFINE b == [a EXCEPT !.stmt = Answered(gs, n), !.stmt_len = Len(gs)]
           k == Len(gs)  s == Answered(gs, n)
<1>1. k \in Nat /\ \A i \in 1 .. k : gs[i] \in GivenFor(a, dev)
  <2>1. PICK m \in 0 .. 2 : gs \in [1 .. m -> GivenFor(a, dev)]
    BY DEF BoundedSeq, SeqOf
  <2>2. gs = [i \in 1 .. m |-> gs[i]]
    BY <2>1
  <2>3. Len(gs) = m
    BY <2>1, <2>2, SequenceOf
  <2>. QED
    BY <2>1, <2>3
<1>2. n \in Nat /\ k \in 0 .. n
  BY <1>1
<1>3. \A i \in 1 .. n : s[i] = IF i <= k THEN StatementOf(gs[i]) ELSE NoStatement
  BY DEF Answered
<1>4. s = [i \in 1 .. n |-> s[i]]
  BY DEF Answered
<1>5. DOMAIN b = DOMAIN a /\ SameQuery(a, b) /\ b.stmt = s /\ b.stmt_len = k
  BY DEF AssertOK, NoAssert, SameQuery
<1>. HIDE DEF b, s, k
<1>6. Sequential(s) /\ Len(s) = n
  BY <1>2, <1>4, SequenceOf
<1>7. ASSUME NEW i \in 1 .. n PROVE GoodStatement(s[i])
  <2>1. CASE i <= k
    <3>1. gs[i] \in Given
      BY <1>1, <1>2, <2>1 DEF GivenFor
    <3>. QED
      BY <1>3, <2>1, <3>1, StatementIsGood
  <2>2. CASE ~(i <= k)
    BY <1>3, <2>2, NoneGood
  <2>. QED
    BY <2>1, <2>2
<1>8. AssertOK(b)
  BY <1>2, <1>5, <1>6, <1>7 DEF AssertOK, SameQuery, Sequential
<1>9. ASSUME NEW i \in 1 .. k PROVE Shows(b, s[i], dev.keys, calls + 1)
  <2>1. PICK g \in Given : g = gs[i] /\ g \in GivenFor(a, dev)
    BY <1>1 DEF GivenFor
  <2>2. s[i] = StatementOf(g)
    BY <1>2, <1>3, <2>1
  <2>3. s[i].id = g.id /\ s[i].made = calls + 1 /\ s[i].authdata = AssertBytesOf(g) /\ s[i].sig = AssertionSig(g)
    BY <2>2, StatementIsGood
  <2>4. /\ g.rp = a.rp /\ g.cdh = a.cdh /\ g.id \in dev.keys
        /\ a.allow # <<>> => \E j \in DOMAIN a.allow : a.allow[j] = g.id
        /\ (a.up # "FALSE") = ("UP" \in g.flags) /\ (a.uv = "TRUE" => "UV" \in g.flags)
        /\ AssertExtensions(AssertBytesOf(g)) = a.ext \ {"LARGEBLOB_KEY"}
    BY <2>1 DEF GivenFor
  <2>5. CheckFlags(g.flags, a.up, a.uv)
    BY <2>4 DEF CheckFlags
  <2>. QED
    BY <1>5, <2>3, <2>4, <2>5 DEF Shows, SameQuery
<1>. QED
  BY <1>5, <1>8, <1>9 DEF b, k, AnswersPut

\* A field of a statement that is neither decoded nor verified.
LEMMA MarkKeeps ==
  ASSUME NEW s, GoodStatement(s), NEW x
  PROVE  /\ GoodStatement([s EXCEPT !.made = x]) /\ GoodStatement([s EXCEPT !.id = x])
         /\ GoodStatement([s EXCEPT !.user = x])
BY DEF GoodStatement, NoStatement

\* a with s as its statement k.
Put(a, k, s) == [a EXCEPT !.stmt = [a.stmt EXCEPT ![k] = s]]

LEMMA PutKeeps ==
  ASSUME NEW a, AssertOK(a), NEW k \in 1 .. Len(a.stmt), NEW s, GoodStatement(s)
  PROVE  LET b == Put(a, k, s) IN
         /\ AssertOK(b) /\ SameQuery(a, b) /\ b.stmt_len = a.stmt_len /\ Len(b.stmt) = Len(a.stmt)
         /\ \A i \in 1 .. Len(a.stmt) : b.stmt[i] = IF i = k THEN s ELSE a.stmt[i]
<1>0. PICK u : u = a.stmt
  OBVIOUS
<1> DEFINE t == [u EXCEPT ![k] = s]
<1>1. Sequential(a.stmt) /\ \A i \in 1 .. Len(a.stmt) : GoodStatement(a.stmt[i])
  BY DEF AssertOK, Sequential
<1>2. Sequential(t) /\ Len(t) = Len(a.stmt) /\ \A i \in 1 .. Len(a.stmt) : t[i] = IF i = k THEN s ELSE a.stmt[i]
  <2> DEFINE n == Len(u)
  <2>1. n \in Nat /\ t = [i \in 1 .. n |-> t[i]] /\ \A i \in 1 .. n : t[i] = IF i = k THEN s ELSE u[i]
    BY <1>0, <1>1 DEF Sequential
  <2>. HIDE DEF t
  <2>2. Sequential(t) /\ Len(t) = n
    BY <2>1, SequenceOf
  <2>. QED
    BY <1>0, <2>1, <2>2
<1>3. Put(a, k, s) = [a EXCEPT !.stmt = t]
  BY <1>0 DEF Put
<1>. HIDE DEF t
<1>4. \A i \in 1 .. Len(t) : GoodStatement(t[i])
  BY <1>1, <1>2
<1> DEFINE b == [a EXCEPT !.stmt = t]
<1>5. AssertOK(b) /\ SameQuery(a, b) /\ b.stmt = t /\ b.stmt_len = a.stmt_len
  BY <1>2, <1>4, StatementsKeep
<1>. HIDE DEF b
<1>. QED
  BY <1>2, <1>3, <1>5 DEF b

LEMMA PutTwice ==
  ASSUME NEW a, AssertOK(a), NEW k \in 1 .. Len(a.stmt), NEW s, NEW t
  PROVE  Put(Put(a, k, s), k, t) = Put(a, k, t)
BY DEF Put, AssertOK, NoAssert, Sequential

LEMMA PutThere ==
  ASSUME NEW a, AssertOK(a), NEW k \in 1 .. Len(a.stmt), NEW s
  PROVE  Put(a, k, s).stmt[k] = s
BY DEF Put, AssertOK, NoAssert, Sequential

LEMMA SetAuthdataPuts ==
  ASSUME NEW a, AssertOK(a), NEW k \in 1 .. a.stmt_len, NEW d, d # None
  PROVE  ASetAuthdata(a, k, d) = Put(a, k, DecodeStatement(a.stmt[k], d))
BY DEF ASetAuthdata, Put, AssertOK

LEMMA SetSigPuts ==
  ASSUME NEW a, AssertOK(a), NEW k \in 1 .. a.stmt_len, NEW sig, sig # None
  PROVE  ASetSig(a, k, sig) = Put(a, k, [a.stmt[k] EXCEPT !.sig = sig])
BY DEF ASetSig, Put, AssertOK

\* An assertion and its signature become statement k.
LEMMA AnswerIsPut ==
  ASSUME NEW a, AssertOK(a), NEW k \in 1 .. a.stmt_len, NEW g \in Given
  PROVE  \E s : /\ ASetSig(ASetAuthdata(a, k, AssertBytesOf(g)), k, AssertionSig(g)) = Put(a, k, s)
                /\ GoodStatement(s) /\ s.authdata = AssertBytesOf(g) /\ s.sig = AssertionSig(g)
                /\ s.id = a.stmt[k].id
<1> DEFINE d == AssertBytesOf(g)  sig == AssertionSig(g)
           e == DecodeStatement(a.stmt[k], d)  b == Put(a, k, e)  s == [e EXCEPT !.sig = sig]
<1>1. d # None /\ sig # None /\ sig \in AssertSignatures /\ AssertAuthdataDecodes(d)
  BY GivenBytes, GivenAssumption
<1>2. k \in 1 .. Len(a.stmt) /\ GoodStatement(a.stmt[k])
  BY DEF AssertOK, Sequential
<1>. HIDE DEF d, sig
<1>3. GoodStatement(e) /\ e.id = a.stmt[k].id /\ e.authdata = d
  BY <1>1, <1>2, DecodedIsGood
<1>4. ASetAuthdata(a, k, d) = b
  BY <1>1, SetAuthdataPuts
<1>. HIDE DEF e
<1>5. AssertOK(b) /\ b.stmt_len = a.stmt_len /\ b.stmt[k] = e
  BY <1>2, <1>3, PutKeeps
<1>6. ASetSig(b, k, sig) = Put(b, k, s)
  <2>. HIDE DEF b
  <2>. QED
    BY <1>1, <1>5, SetSigPuts
<1>7. Put(b, k, s) = Put(a, k, s)
  BY <1>2, PutTwice
<1>8. GoodStatement(s) /\ s.authdata = d /\ s.sig = sig /\ s.id = a.stmt[k].id
  BY <1>1, <1>3 DEF GoodStatement, NoStatement
<1>. HIDE DEF b, s
<1>. QED
  BY <1>4, <1>6, <1>7, <1>8 DEF d, sig

\* winhello_get_assert, and the relying party that the token knew.
LEMMA WinhelloKeeps ==
  ASSUME NEW a, AssertOK(a), NEW g \in Given, g.rp \in {a.rp, a.appid},
         NEW stop \in {"authdata", "sig", "id", "end"}, NEW n
  PROVE  LET b == WinhelloAssert(a, g, stop, n) IN
         /\ AssertOK(b)
         /\ stop = "end" =>
              /\ b.cdh = a.cdh /\ b.up = a.up /\ b.uv = a.uv /\ b.ext = a.ext /\ b.allow = a.allow
              /\ b.rp = g.rp /\ b.stmt_len = 1 /\ b.stmt[1].made = n /\ b.stmt[1].id = g.id
              /\ b.stmt[1].authdata = AssertBytesOf(g) /\ b.stmt[1].sig = AssertionSig(g)
<1> DEFINE a0 == SetCount(a, 1)  a1 == UnpackAppid(a0, g.rp # a.rp)
           cut == [AssertBytesOf(g) EXCEPT !.cut = "head"]
<1>1. /\ AssertOK(a0) /\ Len(a0.stmt) = 1 /\ a0.stmt_len = 1 /\ SameQuery(a, a0)
  BY CountKeeps DEF SameQuery
<1>. HIDE DEF a0
<1>2. /\ AssertOK(a1) /\ a1.stmt_len = 1 /\ Len(a1.stmt) = 1 /\ a1.rp = g.rp
      /\ a1.cdh = a.cdh /\ a1.up = a.up /\ a1.uv = a.uv /\ a1.ext = a.ext /\ a1.allow = a.allow
  BY <1>1 DEF UnpackAppid, AssertOK, SameQuery, NoAssert
<1> DEFINE b1 == ASetAuthdata(a1, 1, cut)
           b2 == ASetAuthdata(a1, 1, AssertBytesOf(g))
           b3 == ASetSig(b2, 1, AssertionSig(g))
           b4 == [b3 EXCEPT !.stmt[1].made = n]
           b5 == [b4 EXCEPT !.stmt[1].id = g.id, !.stmt[1].user = n]
<1>3. /\ stop = "authdata" => WinhelloAssert(a, g, stop, n) = b1
      /\ stop = "sig" => WinhelloAssert(a, g, stop, n) = b2
      /\ stop = "id" => WinhelloAssert(a, g, stop, n) = b4
      /\ stop = "end" => WinhelloAssert(a, g, stop, n) = b5
  BY DEF WinhelloAssert, a0
<1>4. AssertOK(b1) /\ AssertOK(b2)
  <2>. HIDE DEF a1
  <2>. QED
    BY <1>2, AnswerKeeps
<1>5. PICK s : /\ b3 = Put(a1, 1, s) /\ GoodStatement(s) /\ s.authdata = AssertBytesOf(g)
               /\ s.sig = AssertionSig(g) /\ s.id = a1.stmt[1].id
  <2>. HIDE DEF a1
  <2>1. 1 \in 1 .. a1.stmt_len
    BY <1>2
  <2>. QED
    BY <1>2, <2>1, AnswerIsPut
<1>. HIDE DEF a1, b1, b2, b3
<1> DEFINE s1 == [s EXCEPT !.made = n]  s2 == [s1 EXCEPT !.id = g.id]  s3 == [s2 EXCEPT !.user = n]
<1>6. /\ GoodStatement(s1) /\ GoodStatement(s3)
      /\ s3.authdata = s.authdata /\ s3.sig = s.sig /\ s3.id = g.id /\ s3.made = n
  <2>1. GoodStatement(s1)
    BY <1>5, MarkKeeps
  <2>2. GoodStatement(s2)
    BY <2>1, MarkKeeps
  <2>3. GoodStatement(s3)
    BY <2>2, MarkKeeps
  <2>4. s3.authdata = s.authdata /\ s3.sig = s.sig /\ s3.id = g.id /\ s3.made = n
    BY <1>5 DEF GoodStatement, NoStatement
  <2>. QED
    BY <2>1, <2>3, <2>4
<1>7. 1 \in 1 .. Len(a1.stmt)
  BY <1>2
<1>8. AssertOK(b3) /\ SameQuery(a1, b3) /\ b3.stmt_len = 1 /\ Len(b3.stmt) = 1 /\ b3.stmt[1] = s
  BY <1>2, <1>5, <1>7, PutKeeps
<1>9. b4 = Put(b3, 1, s1)
  BY <1>8 DEF Put
<1>10. AssertOK(b4) /\ SameQuery(b3, b4) /\ b4.stmt_len = 1 /\ Len(b4.stmt) = 1 /\ b4.stmt[1] = s1
  <2>1. 1 \in 1 .. Len(b3.stmt) /\ GoodStatement(s1)
    BY <1>6, <1>8
  <2>. HIDE DEF b4, s1
  <2>2. /\ AssertOK(Put(b3, 1, s1)) /\ SameQuery(b3, Put(b3, 1, s1)) /\ Put(b3, 1, s1).stmt_len = b3.stmt_len
        /\ Len(Put(b3, 1, s1).stmt) = Len(b3.stmt)
        /\ \A i \in 1 .. Len(b3.stmt) : Put(b3, 1, s1).stmt[i] = IF i = 1 THEN s1 ELSE b3.stmt[i]
    BY <1>8, <2>1, PutKeeps
  <2>. QED
    BY <1>8, <1>9, <2>1, <2>2
<1>. HIDE DEF b4, s1
<1>11. b5 = Put(Put(b4, 1, s2), 1, s3)
  <2>1. Put(b4, 1, s2).stmt[1] = s2
    <3>1. 1 \in 1 .. Len(b4.stmt)
      BY <1>10
    <3>. HIDE DEF s2
    <3>. QED
      BY <1>10, <3>1, PutThere
  <2>2. Put(b4, 1, s2) = [b4 EXCEPT !.stmt[1].id = g.id]
    BY <1>10 DEF Put
  <2> DEFINE b == Put(b4, 1, s2)
  <2>3. b5 = [b EXCEPT !.stmt[1].user = n]
    BY <2>2
  <2>4. [b EXCEPT !.stmt[1].user = n] = Put(b, 1, s3)
    <3>. HIDE DEF b
    <3>1. b.stmt[1] = s2
      BY <2>1 DEF b
    <3>. QED
      BY <3>1 DEF Put
  <2>. QED
    BY <2>3, <2>4
<1>12. b5 = Put(b4, 1, s3)
  <2>1. 1 \in 1 .. Len(b4.stmt)
    BY <1>10
  <2>. HIDE DEF b5, s2, s3
  <2>2. Put(Put(b4, 1, s2), 1, s3) = Put(b4, 1, s3)
    BY <1>10, <2>1, PutTwice
  <2>. QED
    BY <1>11, <2>2
<1>13. AssertOK(b5) /\ SameQuery(b4, b5) /\ b5.stmt_len = 1 /\ b5.stmt[1] = s3
  <2>1. 1 \in 1 .. Len(b4.stmt)
    BY <1>10
  <2>. HIDE DEF b5, s3
  <2>. QED
    BY <1>6, <1>10, <1>12, <2>1, PutKeeps
<1>. HIDE DEF b5, s3
<1>. QED
  BY <1>2, <1>3, <1>4, <1>5, <1>6, <1>8, <1>10, <1>13 DEF SameQuery

-----------------------------------------------------------------------------
(* The objects, through whatever an application does with them.            *)

Objects == program \in DOMAIN Programs /\ CredOK(cred, spoilt) /\ AssertOK(asrt)

\* Only the setters of a request have touched it.
LEMMA RequestOK ==
  ASSUME NEW c, IsRequest(c)
  PROVE  CredOK(c, {})
<1>1. Sequential(c.excl)
  BY SequenceOf DEF IsRequest, IsSequence
<1>2. DOMAIN c = DOMAIN NoCred /\ c = ResetRx(c)
  BY DEF IsRequest
<1>3. /\ ResetRx(c).authdata = None /\ ResetRx(c).head = NoHead /\ ResetRx(c).attcred = NoAttCred
      /\ ResetRx(c).aext = NoExt /\ ResetRx(c).stmt = NoStmt
  BY <1>2 DEF ResetRx, CleanAttobj, CleanAttstmt, CleanAuthdata, NoCred
<1>4. c.authdata = None /\ c.head = NoHead /\ c.attcred = NoAttCred /\ c.aext = NoExt /\ c.stmt = NoStmt
  BY <1>2, <1>3
<1>5. IsStmt(NoStmt)
  BY DEF IsStmt, NoStmt, Signatures
<1>6. CredTyped(c)
  BY <1>1, <1>4, <1>5 DEF CredTyped, IsRequest, Sequential
<1>. QED
  BY <1>4, <1>6 DEF CredOK, Decoded, NothingDecoded, NoAttCred

LEMMA QueryOK ==
  ASSUME NEW a, IsQuery(a)
  PROVE  AssertOK(a)
<1>1. Sequential(a.allow)
  BY SequenceOf DEF IsQuery, IsSequence
<1>2. DOMAIN a = DOMAIN NoAssert /\ a = AResetRx(a)
  BY DEF IsQuery
<1>3. AResetRx(a).stmt = <<>> /\ AResetRx(a).stmt_len = 0
  BY <1>2 DEF AResetRx, NoAssert
<1>4. a.stmt = <<>> /\ a.stmt_len = 0
  BY <1>2, <1>3
<1>5. Sequential(<<>>) /\ Len(<<>>) = 0
  BY DEF Sequential
<1>. QED
  BY <1>1, <1>4, <1>5 DEF AssertOK, IsQuery, Sequential

LEMMA InitObjects == Init => Objects
<1> SUFFICES ASSUME Init PROVE Objects
  OBVIOUS
<1>1. program \in DOMAIN Programs /\ IsRequest(cred) /\ IsQuery(asrt) /\ spoilt = {}
  BY ProgramsAssumption DEF Init, app
<1>. QED
  BY <1>1, RequestOK, QueryOK DEF Objects

LEMMA ParamKeeps ==
  ASSUME Objects, SetCredParam
  PROVE  Objects'
<1>1. app.what = "cred" /\ CredOK(cred, spoilt) /\ program \in DOMAIN Programs
  BY DEF SetCredParam, Objects
<1>2. app.sigs \subseteq Signatures /\ (\A x \in app.certs : IsCertificate(x)) /\ (\A x \in app.stmts : IsStmt(x))
  BY <1>1, ProgramsAssumption DEF app
<1>7. CredOK(cred', spoilt)
  <2>1. CASE \/ \E x \in app.datas : cred' = SetClientdata(cred, x)
             \/ \E x \in app.hashes : cred' = SetClientdataHash(cred, x)
             \/ \E x \in app.rps : cred' = SetRp(cred, x)
             \/ \E x \in app.uvs : cred' = SetUv(cred, x)
             \/ \E x \in app.rks : cred' = SetRk(cred, x)
    BY <1>1, <2>1, RequestKeeps
  <2>2. CASE \E x \in app.types : cred' = SetType(cred, x)
    BY <1>1, <2>2, TypeKeeps
  <2>3. CASE \/ \E x \in app.masks : cred' = SetExtensions(cred, x)
             \/ \E x \in app.prots : cred' = SetProt(cred, x)
             \/ \E x \in app.minlens : cred' = SetPinMinlen(cred, x)
    BY <1>1, <2>3, ExtensionsKeep
  <2>4. CASE \/ \E x \in app.fmts : cred' = SetFmt(cred, x)
             \/ \E x \in app.stmts : cred' = SetAttstmt(cred, x).obj
             \/ \E x \in app.certs : cred' = SetX509(cred, x)
             \/ \E x \in app.sigs : cred' = SetSig(cred, x)
    BY <1>1, <1>2, <2>4, StatementKeeps
  <2>. QED
    BY <2>1, <2>2, <2>3, <2>4 DEF SetCredParam
<1>. QED
  BY <1>7 DEF SetCredParam, Objects

LEMMA FillKeeps ==
  ASSUME Objects, Fill
  PROVE  Objects'
<1>1. CredTyped(cred) /\ CredOK(cred, spoilt) /\ AssertOK(asrt) /\ program \in DOMAIN Programs
  BY DEF Objects, CredOK
<1>2. CASE SetCredParam
  BY <1>2, ParamKeeps
<1>3. CASE SetCredAuthdata
  <2>1. PICK x \in app.authdatas : cred' = SetAuthdata(cred, x).obj
    BY <1>3 DEF SetCredAuthdata
  <2>2. x # None => IsCredAuthdata(x)
    BY <1>1, <1>3, ProgramsAssumption DEF SetCredAuthdata, app
  <2>3. CredOK(SetAuthdata(cred, x).obj, {})
    BY <1>1, <2>2, AuthdataKeeps
  <2>. QED
    BY <1>3, <2>1, <2>3 DEF SetCredAuthdata, Objects
<1>4. CASE SetCredId
  BY <1>1, <1>4, IdKeeps DEF SetCredId, Objects
<1>5. CASE SetCredAttobj
  <2>1. PICK x \in app.attobjs : LET r == SetAttobj(cred, x) IN
                                   cred' = r.obj /\ spoilt' = IF r.ok THEN {} ELSE {"attobj"}
    BY <1>5 DEF SetCredAttobj
  <2>2. IsAttobj(x)
    BY <1>1, <1>5, AppAttobjs DEF SetCredAttobj
  <2>3. PICK e : e = CleanAttobj(cred) /\ Emptied(e)
    BY <1>1, Empties
  <2>4. CredOK(DecodeAttobj(e, x).obj, IF DecodeAttobj(e, x).ok THEN {} ELSE {"attobj"})
    BY <2>2, <2>3, AttobjKeeps
  <2>5. CredOK(cred', spoilt')
    BY <2>1, <2>3, <2>4 DEF SetAttobj
  <2>. QED
    BY <1>5, <2>5 DEF SetCredAttobj, Objects
<1>6. CASE SetAssertParam
  <2>1. app.what = "assert" => app.sigs \subseteq AssertSignatures
    BY <1>1, ProgramsAssumption DEF app
  <2>2. app.counts \subseteq Nat
    BY <1>1, ProgramsAssumption DEF app
  <2>3. AssertOK(asrt')
    <3>1. CASE \/ \E x \in app.datas : asrt' = ASetClientdata(asrt, x)
               \/ \E x \in app.hashes : asrt' = ASetClientdataHash(asrt, x)
               \/ \E x \in app.rps : asrt' = ASetRp(asrt, x)
               \/ \E x \in app.ups : asrt' = ASetUp(asrt, x)
               \/ \E x \in app.uvs : asrt' = ASetUv(asrt, x)
               \/ \E x \in app.masks : asrt' = ASetExtensions(asrt, x)
               \/ \E x \in app.appids : asrt' = SetWinhelloAppid(asrt, x)
      BY <1>1, <3>1, AskKeeps
    <3>2. CASE \E n \in app.counts : asrt' = SetCount(asrt, n)
      BY <1>1, <2>2, <3>2, CountKeeps
    <3>3. CASE \/ \E i \in 1 .. 2, x \in app.authdatas : asrt' = ASetAuthdata(asrt, i, x)
               \/ \E i \in 1 .. 2, x \in app.sigs : asrt' = ASetSig(asrt, i, x)
      <4>1. \A i \in 1 .. 2 : i \in Nat /\ i # 0
        OBVIOUS
      <4>. QED
        BY <1>1, <1>6, <2>1, <3>3, <4>1, AnswerKeeps DEF SetAssertParam
    <3>. QED
      BY <1>6, <3>1, <3>2, <3>3 DEF SetAssertParam
  <2>. QED
    BY <1>1, <1>6, <2>3 DEF SetAssertParam, Objects
<1>. QED
  BY <1>2, <1>3, <1>4, <1>5, <1>6 DEF Fill

-----------------------------------------------------------------------------
(* Calls.  While a U2F call goes on, the object asks for nothing that the  *)
(* token cannot do, and what has been looked up stays true.                *)

\* The excluded credentials before the one looked up are not the token's.
Registering ==
  /\ app.what = "cred" /\ cred.uv # "TRUE" /\ cred.ext.mask = {}
  /\ call.stage = "exclude" => \A j \in 1 .. call.i - 1 : cred.excl[j] \notin call.dev.keys
  /\ call.stage = "register" => \A j \in 1 .. Len(cred.excl) : cred.excl[j] \notin call.dev.keys

\* Of the allowed credentials before the one looked up, nfound are the token's,
\* and if there had to be a touch, each has its assertion.
Authenticating ==
  /\ app.what = "assert" /\ asrt.uv # "TRUE" /\ asrt.ext = {}
  /\ call.i <= Len(asrt.allow) /\ Len(asrt.stmt) = Len(asrt.allow)
  /\ call.nfound \in Nat /\ call.nauth \in Nat /\ call.nfound < call.i
  /\ asrt.up = "FALSE" => call.nauth = 0
  /\ asrt.up # "FALSE" => \A j \in 1 .. call.nfound : Shows(asrt, asrt.stmt[j], call.dev.keys, calls)
  /\ call.stage = "sign" =>
       /\ asrt.up # "FALSE" /\ asrt.allow[call.i] \in call.dev.keys
       /\ asrt.stmt[call.nfound + 1].id = asrt.allow[call.i]
  /\ asrt.stmt_len = Len(asrt.allow)

InProgress ==
  call # None =>
    /\ DOMAIN call = {"stage", "dev", "i", "nfound", "nauth", "timeout"}
    /\ call.i \in Nat \ {0} /\ call.dev.kind = "u2f" /\ ret = NoReturn
    /\ call.stage \in {"exclude", "dummy", "register"} => Registering
    /\ call.stage \in {"lookup", "sign"} => Authenticating

\* What a call that has returned leaves in the object.
CredReturned ==
  app.what = "cred" =>
    /\ ret.code = "OK" =>
         /\ WholeDecoded(cred)
         /\ ret.kind = "u2f" => \A i \in DOMAIN cred.excl : cred.excl[i] \notin ret.keys
         /\ "MINPINLEN" \notin cred.ext.mask => \E m \in Made : Holds(Answerable(cred), m)
    /\ (ret.kind = "fido2" /\ ret.code \in {"RX", "INVALID_CBOR"}) => cred = ResetRx(cred)

AssertReturned ==
  (app.what = "assert" /\ ret.code = "OK") =>
    \A i \in 1 .. asrt.stmt_len : Shows(asrt, asrt.stmt[i], ret.keys, calls)

CallsInv == Objects /\ calls \in Nat /\ InProgress /\ CredReturned /\ AssertReturned

LEMMA InitCalls == CallsInit => CallsInv
BY InitObjects DEF CallsInit, CallsInv, InProgress, CredReturned, AssertReturned, NoReturn

\* A step after which nothing is in progress, that returns an error of which no
\* property speaks.
LEMMA ErrorKeeps ==
  ASSUME Objects', calls' \in Nat, NEW dev, NEW code, Returns(dev, code), code # "OK",
         dev.kind = "fido2" => code \notin {"RX", "INVALID_CBOR"}
  PROVE  CallsInv'
BY DEF Returns, CallsInv, InProgress, CredReturned, AssertReturned

\* A step that returns nothing.
LEMMA QuietKeeps ==
  ASSUME Objects', calls' \in Nat, InProgress', ret' = NoReturn
  PROVE  CallsInv'
BY DEF CallsInv, CredReturned, AssertReturned, NoReturn

LEMMA FillBetweenKeeps == ASSUME CallsInv, FillBetween PROVE CallsInv'
<1>1. Objects'
  BY FillKeeps DEF CallsInv, FillBetween
<1>2. InProgress' /\ calls' \in Nat /\ ret' = NoReturn
  BY DEF FillBetween, InProgress, CallsInv
<1>. QED
  BY <1>1, <1>2, QuietKeeps

LEMMA MakeCredU2fKeeps == ASSUME CallsInv, MakeCredU2f PROVE CallsInv'
<1>1. PICK dev \in app.devices, pin \in BOOLEAN, timeout \in Timeouts :
        LET r == U2fRegisterRefuses(cred, pin) IN
        /\ dev.kind = "u2f"
        /\ IF r # "OK" THEN Returns(dev, r)
           ELSE Begins(dev, IF cred.excl = <<>> THEN "register" ELSE "exclude", timeout)
  BY DEF MakeCredU2f
<1>2. Objects' /\ calls' \in Nat /\ UNCHANGED <<program, cred, asrt, spoilt>> /\ app.what = "cred"
  BY DEF CallsInv, Objects, MakeCredU2f, Idle
<1>3. CASE U2fRegisterRefuses(cred, pin) # "OK"
  BY <1>1, <1>2, <1>3, ErrorKeeps
<1>4. CASE U2fRegisterRefuses(cred, pin) = "OK"
  <2>1. cred.uv # "TRUE" /\ cred.ext.mask = {}
    BY <1>4 DEF U2fRegisterRefuses
  <2>2. Begins(dev, IF cred.excl = <<>> THEN "register" ELSE "exclude", timeout)
    BY <1>1, <1>4
  <2>3. InProgress' /\ ret' = NoReturn
    BY <1>1, <1>2, <2>1, <2>2 DEF Begins, InProgress, Registering, app
  <2>. QED
    BY <1>2, <2>3, QuietKeeps
<1>. QED
  BY <1>3, <1>4

\* Asking for what m was made for, an object that has received it holds it.
LEMMA ReceivedHolds ==
  ASSUME NEW c, NEW d, NEW m \in Made, Received(c, d, m), m.rp = c.rp, m.cdh = c.cdh,
         c.uv = "TRUE" => "UV" \in m.flags,
         NEW x, x.fmt = d.fmt, x.authdata = d.authdata, x.attcred = d.attcred, x.stmt = d.stmt, x.rp = d.rp,
         x.cdh = d.cdh, x.uv = d.uv, x.ext.prot = d.ext.prot,
         DecodeCredExtensions(m.ext).mask = x.ext.mask \ {"LARGEBLOB_KEY"}, "MINPINLEN" \notin x.ext.mask,
         "CRED_PROTECT" \in x.ext.mask => DecodeCredExtensions(m.ext).prot = c.ext.prot
  PROVE  Holds(x, m)
BY MadeAssumption DEF Received, SameRequest, Holds

LEMMA ResetTwice == ASSUME NEW c PROVE ResetRx(ResetRx(c)) = ResetRx(c)
BY DEF ResetRx, CleanAttobj, CleanAttstmt, CleanAuthdata

\* A FIDO2 device has answered with o.
LEMMA Fido2Answered ==
  ASSUME CallsInv, Idle, app.what = "cred", UNCHANGED <<asrt, spoilt>>, NEW dev, dev.kind = "fido2",
         NEW o \in {AttobjOf(m) : m \in MadeFor(cred)} \cup Undecodable(cred),
         LET r == MakeCredReply(cred, o) IN cred' = r.obj /\ Returns(dev, IF r.ok THEN "OK" ELSE "INVALID_CBOR")
  PROVE  CallsInv'
<1>1. CredTyped(cred) /\ CredOK(cred, spoilt) /\ AssertOK(asrt) /\ program \in DOMAIN Programs
  BY DEF CallsInv, Objects, CredOK
<1>2. IsAttobj(o)
  BY <1>1, AppAttobjs, MadeIsAttobj DEF Undecodable, MadeFor
<1>3. PICK r : r = MakeCredReply(cred, o)
  OBVIOUS
<1>4. /\ CredOK(r.obj, {}) /\ SameRequest(cred, r.obj) /\ (~r.ok => r.obj = ResetRx(cred))
      /\ \A m \in Made : r.ok /\ o = AttobjOf(m) => Received(cred, r.obj, m)
  BY <1>1, <1>2, <1>3, ReplyKeeps
<1>5. cred' = r.obj /\ Returns(dev, IF r.ok THEN "OK" ELSE "INVALID_CBOR")
  BY <1>3
<1>6. Objects' /\ calls' \in Nat /\ InProgress' /\ AssertReturned'
  <2>1. CredOK(r.obj, spoilt)
    BY <1>4, SpoilsMore
  <2>. QED
    BY <1>1, <1>5, <2>1 DEF CallsInv, Objects, Idle, InProgress, Returns, AssertReturned, app
<1>7. CASE ~r.ok
  <2>1. ResetRx(r.obj) = r.obj
    BY <1>4, <1>7, ResetTwice
  <2>. QED
    BY <1>5, <1>6, <1>7, <2>1 DEF CallsInv, CredReturned, Returns
<1>8. CASE r.ok
  <2>1. o \notin Undecodable(cred)
    BY <1>3, <1>8 DEF Undecodable, MakeCredReply
  <2>2. PICK m \in MadeFor(cred) : o = AttobjOf(m)
    BY <2>1
  <2>3. m \in Made /\ Received(cred, r.obj, m)
    BY <1>4, <1>8, <2>2 DEF MadeFor
  <2>4. /\ m.rp = cred.rp /\ m.cdh = cred.cdh /\ (cred.uv = "TRUE" => "UV" \in m.flags)
        /\ DecodeCredExtensions(m.ext).mask = cred.ext.mask \ {"LARGEBLOB_KEY"}
        /\ "CRED_PROTECT" \in cred.ext.mask => DecodeCredExtensions(m.ext).prot = cred.ext.prot
    BY <2>2 DEF MadeFor, EncodeCredExt
  <2>5. r.obj.ext = cred.ext
    BY <1>4 DEF SameRequest
  <2>6. "MINPINLEN" \notin r.obj.ext.mask => Holds(r.obj, m)
    BY <2>3, <2>4, <2>5, ReceivedHolds
  <2>7. WholeDecoded(r.obj)
    BY <2>3 DEF Received
  <2>8. CredReturned'
    BY <1>5, <1>8, <2>3, <2>6, <2>7 DEF CredReturned, Returns, Answerable
  <2>. QED
    BY <1>6, <2>8 DEF CallsInv
<1>. QED
  BY <1>7, <1>8

LEMMA MakeCredFido2Keeps == ASSUME CallsInv, MakeCredFido2 PROVE CallsInv'
<1>1. Idle /\ app.what = "cred" /\ UNCHANGED <<asrt, spoilt>>
  BY DEF MakeCredFido2
<1>2. PICK dev \in app.devices :
       /\ dev.kind = "fido2"
       /\ \/ /\ cred.cdh = None \/ cred.type = "UNSPEC"
             /\ cred' = cred /\ Returns(dev, "INVALID_ARGUMENT")
          \/ cred' = cred /\ Returns(dev, "TX")
          \/ cred' = ResetRx(cred) /\ Returns(dev, "RX")
          \/ \E o \in {AttobjOf(m) : m \in MadeFor(cred)} \cup Undecodable(cred) :
               LET r == MakeCredReply(cred, o) IN
               cred' = r.obj /\ Returns(dev, IF r.ok THEN "OK" ELSE "INVALID_CBOR")
  BY DEF MakeCredFido2
<1>3. CASE cred' = cred /\ (Returns(dev, "INVALID_ARGUMENT") \/ Returns(dev, "TX"))
  <2>1. Objects' /\ calls' \in Nat
    BY <1>1, <1>3 DEF CallsInv, Objects, Idle
  <2>. QED
    BY <1>2, <1>3, <2>1, ErrorKeeps
<1>4. CASE cred' = ResetRx(cred) /\ Returns(dev, "RX")
  <2>1. CredOK(ResetRx(cred), spoilt)
    BY Empties, EmptiedOK DEF CallsInv, Objects, CredOK
  <2>2. Objects' /\ calls' \in Nat /\ InProgress' /\ AssertReturned'
    BY <1>1, <1>4, <2>1 DEF CallsInv, Objects, Idle, InProgress, Returns, AssertReturned, app
  <2>3. CredReturned'
    BY <1>4, ResetTwice DEF CredReturned, Returns
  <2>. QED
    BY <2>2, <2>3 DEF CallsInv
<1>5. CASE \E o \in {AttobjOf(m) : m \in MadeFor(cred)} \cup Undecodable(cred) :
             LET r == MakeCredReply(cred, o) IN
             cred' = r.obj /\ Returns(dev, IF r.ok THEN "OK" ELSE "INVALID_CBOR")
  BY <1>1, <1>2, <1>5, Fido2Answered
<1>. QED
  BY <1>2, <1>3, <1>4, <1>5

\* Windows has answered with o, for c.
LEMMA WinhelloAnswered ==
  ASSUME CallsInv, Idle, app.what = "cred", UNCHANGED asrt, NEW dev, dev.kind = "winhello", NEW pin,
         NEW c, c = ResetRx(cred), FidoCredRefuses(c) = "OK",
         NEW o \in {AttobjOf(m) : m \in WinhelloMadeFor(c, pin)} \cup Undecodable(c),
         LET d == WinhelloCred(c, o) IN
         /\ cred' = d.obj /\ spoilt' = IF d.ok THEN {} ELSE {"attobj"}
         /\ Returns(dev, IF d.ok THEN "OK" ELSE "INTERNAL")
  PROVE  CallsInv'
<1>1. CredTyped(cred) /\ CredOK(cred, spoilt) /\ AssertOK(asrt) /\ program \in DOMAIN Programs
  BY DEF CallsInv, Objects, CredOK
<1>2. Emptied(c) /\ SameRequest(cred, c) /\ c.stmt = NoStmt
  BY <1>1, Empties
<1>3. IsAttobj(o)
  BY <1>1, AppAttobjs, MadeIsAttobj DEF Undecodable, WinhelloMadeFor
<1>4. PICK d : d = DecodeAttobj(c, o)
  OBVIOUS
<1>5. CredOK(d.obj, IF d.ok THEN {} ELSE {"attobj"}) /\ SameRequest(c, d.obj) /\ (d.ok => WholeDecoded(d.obj))
  BY <1>2, <1>3, <1>4, AttobjKeeps
<1>6. cred' = d.obj /\ spoilt' = (IF d.ok THEN {} ELSE {"attobj"}) /\ Returns(dev, IF d.ok THEN "OK" ELSE "INTERNAL")
  BY <1>4 DEF WinhelloCred
<1>7. Objects' /\ calls' \in Nat
  BY <1>1, <1>5, <1>6 DEF CallsInv, Objects, Idle
<1>8. CASE ~d.ok
  BY <1>6, <1>7, <1>8, ErrorKeeps
<1>9. CASE d.ok
  <2>1. o \notin Undecodable(c)
    BY <1>4, <1>9, ResetTwice DEF Undecodable
  <2>2. PICK m \in WinhelloMadeFor(c, pin) : o = AttobjOf(m)
    BY <2>1
  <2>3. m \in Made /\ Received(c, d.obj, m)
    BY <1>2, <1>4, <1>9, <2>2, DecodedIsReceived DEF WinhelloMadeFor
  <2>4. /\ m.rp = c.rp /\ m.cdh = c.cdh /\ (c.uv = "TRUE" => "UV" \in m.flags)
        /\ DecodeCredExtensions(m.ext).mask = IF HmacOverlooked(c) THEN c.ext.mask \ {"HMAC_SECRET"} ELSE c.ext.mask
        /\ "CRED_PROTECT" \in c.ext.mask => DecodeCredExtensions(m.ext).prot = c.ext.prot
    BY <2>2 DEF WinhelloMadeFor, EncodeCredExt, CredUvRequired
  <2>5. c.ext.mask \subseteq {"HMAC_SECRET", "CRED_PROTECT"}
    BY DEF FidoCredRefuses, PacksExt
  <2> DEFINE x == IF HmacOverlooked(d.obj) THEN [d.obj EXCEPT !.ext.mask = @ \ {"HMAC_SECRET"}] ELSE d.obj
  <2>6. d.obj.ext = c.ext /\ d.obj.rk = c.rk
    BY <1>5 DEF SameRequest
  <2>7. /\ x.fmt = d.obj.fmt /\ x.authdata = d.obj.authdata /\ x.attcred = d.obj.attcred /\ x.stmt = d.obj.stmt
        /\ x.rp = d.obj.rp /\ x.cdh = d.obj.cdh /\ x.uv = d.obj.uv /\ x.ext.prot = d.obj.ext.prot
        /\ x.ext.mask = IF HmacOverlooked(c) THEN c.ext.mask \ {"HMAC_SECRET"} ELSE c.ext.mask
    BY <1>5, <2>6 DEF CredOK, CredTyped, NoCred, NoExt, HmacOverlooked
  <2>. HIDE DEF x
  <2>8. Holds(x, m)
    <3>1. /\ DecodeCredExtensions(m.ext).mask = x.ext.mask \ {"LARGEBLOB_KEY"}
          /\ "MINPINLEN" \notin x.ext.mask
          /\ "CRED_PROTECT" \in x.ext.mask => DecodeCredExtensions(m.ext).prot = c.ext.prot
      BY <2>4, <2>5, <2>7
    <3>. QED
      BY <2>3, <2>4, <2>7, <3>1, ReceivedHolds
  <2>9. InProgress' /\ AssertReturned'
    BY <1>6 DEF InProgress, Returns, AssertReturned, Idle, app
  <2>10. CredReturned'
    <3>1. ret'.code = "OK" /\ ret'.kind = "winhello"
      BY <1>6, <1>9 DEF Returns
    <3>2. Answerable(cred)' = x
      BY <1>6, <3>1 DEF Answerable, x
    <3>. QED
      BY <1>5, <1>6, <1>9, <2>3, <2>8, <3>1, <3>2 DEF CredReturned
  <2>. QED
    BY <1>7, <2>9, <2>10 DEF CallsInv
<1>. QED
  BY <1>8, <1>9

LEMMA MakeCredWinhelloKeeps == ASSUME CallsInv, MakeCredWinhello PROVE CallsInv'
<1>1. PICK dev \in app.devices, pin \in BOOLEAN :
       LET c == ResetRx(cred)  r == FidoCredRefuses(c) IN
       /\ dev.kind = "winhello"
       /\ \/ /\ r # "OK"
             /\ cred' = c /\ spoilt' = spoilt /\ Returns(dev, r)
          \/ /\ r = "OK"
             /\ cred' = c /\ spoilt' = spoilt /\ \E e \in ToFido : Returns(dev, e)
          \/ /\ r = "OK"
             /\ \E o \in {AttobjOf(m) : m \in WinhelloMadeFor(c, pin)} \cup Undecodable(c) :
                  LET d == WinhelloCred(c, o) IN
                  /\ cred' = d.obj /\ spoilt' = IF d.ok THEN {} ELSE {"attobj"}
                  /\ Returns(dev, IF d.ok THEN "OK" ELSE "INTERNAL")
  BY DEF MakeCredWinhello
<1>2. Idle /\ app.what = "cred" /\ UNCHANGED asrt
  BY DEF MakeCredWinhello
<1>3. PICK c : c = ResetRx(cred)
  OBVIOUS
<1>4. CASE cred' = c /\ spoilt' = spoilt /\ \E e : e # "OK" /\ Returns(dev, e)
  <2>1. CredOK(c, spoilt)
    BY <1>3, Empties, EmptiedOK DEF CallsInv, Objects, CredOK
  <2>2. Objects' /\ calls' \in Nat
    BY <1>2, <1>4, <2>1 DEF CallsInv, Objects, Idle
  <2>. QED
    BY <1>1, <1>4, <2>2, ErrorKeeps
<1>5. CASE /\ FidoCredRefuses(c) = "OK"
           /\ \E o \in {AttobjOf(m) : m \in WinhelloMadeFor(c, pin)} \cup Undecodable(c) :
                LET d == WinhelloCred(c, o) IN
                /\ cred' = d.obj /\ spoilt' = IF d.ok THEN {} ELSE {"attobj"}
                /\ Returns(dev, IF d.ok THEN "OK" ELSE "INTERNAL")
  BY <1>1, <1>2, <1>3, <1>5, WinhelloAnswered
<1>6. \A e \in ToFido : e # "OK"
  BY DEF ToFido
<1>. QED
  BY <1>1, <1>3, <1>4, <1>5, <1>6

\* A step that returns assertions, or statements that an error leaves.
LEMMA ReturnsKeeps ==
  ASSUME Objects', calls' \in Nat, app'.what = "assert", NEW dev, NEW code, Returns(dev, code),
         code = "OK" => \A i \in 1 .. asrt'.stmt_len : Shows(asrt', asrt'.stmt[i], dev.keys, calls')
  PROVE  CallsInv'
BY DEF Returns, CallsInv, InProgress, CredReturned, AssertReturned

LEMMA GetAssertU2fKeeps == ASSUME CallsInv, GetAssertU2f PROVE CallsInv'
<1>1. PICK dev \in app.devices, pin \in BOOLEAN, timeout \in Timeouts :
       /\ dev.kind = "u2f"
       /\ IF asrt.rp = None \/ asrt.cdh = None
          THEN Returns(dev, "INVALID_ARGUMENT") /\ UNCHANGED asrt
          ELSE IF pin \/ asrt.ext # {} \/ asrt.uv = "TRUE" \/ asrt.allow = <<>>
          THEN Returns(dev, "UNSUPPORTED_OPTION") /\ UNCHANGED asrt
          ELSE Begins(dev, "lookup", timeout) /\ asrt' = SetCount(asrt, Len(asrt.allow))
  BY DEF GetAssertU2f
<1>2. /\ UNCHANGED <<program, cred, spoilt>> /\ calls' \in Nat /\ app.what = "assert" /\ app' = app
      /\ CredOK(cred, spoilt) /\ AssertOK(asrt) /\ program \in DOMAIN Programs
  BY DEF GetAssertU2f, CallsInv, Objects, Idle, app
<1>3. CASE UNCHANGED asrt /\ (Returns(dev, "INVALID_ARGUMENT") \/ Returns(dev, "UNSUPPORTED_OPTION"))
  <2>1. Objects'
    BY <1>2, <1>3 DEF Objects
  <2>. QED
    BY <1>1, <1>2, <1>3, <2>1, ErrorKeeps
<1>4. CASE /\ asrt.ext = {} /\ asrt.uv # "TRUE" /\ asrt.allow # <<>>
           /\ Begins(dev, "lookup", timeout) /\ asrt' = SetCount(asrt, Len(asrt.allow))
  <2>1. PICK n : n = Len(asrt.allow) /\ n \in Nat /\ n > 0
    BY <1>2, <1>4 DEF AssertOK, Sequential
  <2>2. /\ AssertOK(asrt') /\ Len(asrt'.stmt) = n /\ asrt'.stmt_len = n
        /\ asrt'.uv = asrt.uv /\ asrt'.ext = asrt.ext /\ asrt'.allow = asrt.allow
    BY <1>2, <1>4, <2>1, CountKeeps
  <2>3. Objects'
    BY <1>2, <2>2 DEF Objects
  <2>4. /\ call' = [stage |-> "lookup", dev |-> dev, i |-> 1, nfound |-> 0, nauth |-> 0, timeout |-> timeout]
        /\ ret' = NoReturn
    BY <1>4 DEF Begins
  <2>5. Authenticating'
    BY <1>2, <1>4, <2>1, <2>2, <2>4 DEF Authenticating
  <2>6. InProgress'
    BY <1>1, <2>4, <2>5 DEF InProgress
  <2>. QED
    BY <1>2, <2>3, <2>4, <2>6, QuietKeeps
<1>. QED
  BY <1>1, <1>3, <1>4

LEMMA GetAssertFido2Keeps == ASSUME CallsInv, GetAssertFido2 PROVE CallsInv'
<1>1. PICK dev \in app.devices :
       /\ dev.kind = "fido2"
       /\ \/ /\ asrt.rp = None \/ asrt.cdh = None
             /\ asrt' = asrt /\ Returns(dev, "INVALID_ARGUMENT")
          \/ asrt' = asrt /\ Returns(dev, "TX")
          \/ asrt' = AResetRx(asrt) /\ Returns(dev, "RX")
          \/ \E n \in 1 .. 2, gs \in BoundedSeq(GivenFor(asrt, dev), 2) :
               /\ Len(gs) <= n /\ (Len(gs) = 2 => gs[1].id # gs[2].id)
               /\ asrt' = [asrt EXCEPT !.stmt = Answered(gs, n), !.stmt_len = Len(gs)]
               /\ Returns(dev, IF Len(gs) = n THEN "OK" ELSE "RX")
  BY DEF GetAssertFido2
<1>2. /\ UNCHANGED <<program, cred, spoilt>> /\ calls \in Nat /\ calls' = calls + 1
      /\ app.what = "assert" /\ app' = app
      /\ CredOK(cred, spoilt) /\ AssertOK(asrt) /\ program \in DOMAIN Programs
  BY DEF GetAssertFido2, CallsInv, Objects, Idle, app
<1>3. CASE asrt' \in {asrt, AResetRx(asrt)} /\ \E e : e # "OK" /\ Returns(dev, e)
  <2>1. AssertOK(asrt')
    BY <1>2, <1>3, EmptiedAssert
  <2>. QED
    BY <1>2, <1>3, <2>1, ReturnsKeeps DEF Objects
<1>4. CASE \E n \in 1 .. 2, gs \in BoundedSeq(GivenFor(asrt, dev), 2) :
               /\ Len(gs) <= n /\ (Len(gs) = 2 => gs[1].id # gs[2].id)
               /\ asrt' = [asrt EXCEPT !.stmt = Answered(gs, n), !.stmt_len = Len(gs)]
               /\ Returns(dev, IF Len(gs) = n THEN "OK" ELSE "RX")
  <2>1. PICK n \in 1 .. 2, gs \in BoundedSeq(GivenFor(asrt, dev), 2) :
               /\ Len(gs) <= n
               /\ asrt' = [asrt EXCEPT !.stmt = Answered(gs, n), !.stmt_len = Len(gs)]
               /\ Returns(dev, IF Len(gs) = n THEN "OK" ELSE "RX")
    BY <1>4
  <2>2. PICK b : b = AnswersPut(asrt, gs, n)
    OBVIOUS
  <2>3. AssertOK(b) /\ b.stmt_len = Len(gs) /\ \A i \in 1 .. Len(gs) : Shows(b, b.stmt[i], dev.keys, calls + 1)
    BY <1>2, <2>1, <2>2, AnsweredKeeps
  <2>4. asrt' = b
    BY <2>1, <2>2 DEF AnswersPut
  <2>5. \A i \in 1 .. asrt'.stmt_len : Shows(asrt', asrt'.stmt[i], dev.keys, calls')
    BY <1>2, <2>3, <2>4
  <2>6. Objects'
    BY <1>2, <2>3, <2>4 DEF Objects
  <2>. QED
    BY <1>2, <2>1, <2>5, <2>6, ReturnsKeeps
<1>. QED
  BY <1>1, <1>3, <1>4

LEMMA GetAssertWinhelloKeeps == ASSUME CallsInv, GetAssertWinhello PROVE CallsInv'
<1>1. PICK dev \in app.devices, pin \in BOOLEAN :
       LET a == AResetRx(asrt)  r == FidoAssertRefuses(a) IN
       /\ dev.kind = "winhello"
       /\ \/ r # "OK" /\ asrt' = a /\ Returns(dev, r)
          \/ r = "OK" /\ asrt' = a /\ \E e \in ToFido : Returns(dev, e)
          \/ /\ r = "OK"
             /\ \E g \in WinhelloGivenFor(a, dev.keys, pin), stop \in {"authdata", "sig", "id", "end"} :
                  /\ asrt' = WinhelloAssert(a, g, stop, calls + 1)
                  /\ Returns(dev, IF stop = "end" THEN "OK" ELSE "INTERNAL")
  BY DEF GetAssertWinhello
<1>2. /\ UNCHANGED <<program, cred, spoilt>> /\ calls \in Nat /\ calls' = calls + 1
      /\ app.what = "assert" /\ app' = app
      /\ CredOK(cred, spoilt) /\ AssertOK(asrt) /\ program \in DOMAIN Programs
  BY DEF GetAssertWinhello, CallsInv, Objects, Idle, app
<1>3. PICK a : a = AResetRx(asrt) /\ AssertOK(a)
  BY <1>2, EmptiedAssert
<1>4. CASE asrt' = a /\ \E e : e # "OK" /\ Returns(dev, e)
  BY <1>2, <1>3, <1>4, ReturnsKeeps DEF Objects
<1>5. CASE /\ FidoAssertRefuses(a) = "OK"
           /\ \E g \in WinhelloGivenFor(a, dev.keys, pin), stop \in {"authdata", "sig", "id", "end"} :
                /\ asrt' = WinhelloAssert(a, g, stop, calls + 1)
                /\ Returns(dev, IF stop = "end" THEN "OK" ELSE "INTERNAL")
  <2>1. PICK g \in WinhelloGivenFor(a, dev.keys, pin), stop \in {"authdata", "sig", "id", "end"} :
                /\ asrt' = WinhelloAssert(a, g, stop, calls + 1)
                /\ Returns(dev, IF stop = "end" THEN "OK" ELSE "INTERNAL")
    BY <1>5
  <2>2. PICK n : n = calls + 1
    OBVIOUS
  <2>3. /\ g \in Given /\ g.rp \in {a.rp, a.appid} /\ g.cdh = a.cdh /\ g.id \in dev.keys
        /\ a.allow # <<>> => \E i \in DOMAIN a.allow : a.allow[i] = g.id
        /\ "UP" \in g.flags /\ (a.uv = "TRUE" => "UV" \in g.flags)
        /\ AssertExtensions(AssertBytesOf(g)) = a.ext
    BY DEF WinhelloGivenFor, AssertUvRequired
  <2>4. PICK b : b = WinhelloAssert(a, g, stop, n)
    OBVIOUS
  <2>5. /\ AssertOK(b)
        /\ stop = "end" =>
             /\ b.cdh = a.cdh /\ b.up = a.up /\ b.uv = a.uv /\ b.ext = a.ext /\ b.allow = a.allow
             /\ b.rp = g.rp /\ b.stmt_len = 1 /\ b.stmt[1].made = n /\ b.stmt[1].id = g.id
             /\ b.stmt[1].authdata = AssertBytesOf(g) /\ b.stmt[1].sig = AssertionSig(g)
    BY <1>3, <2>3, <2>4, WinhelloKeeps
  <2>6. asrt' = b /\ calls' = n
    BY <1>2, <2>1, <2>2, <2>4
  <2>7. Objects'
    BY <1>2, <2>5, <2>6 DEF Objects
  <2>8. ASSUME stop = "end" PROVE Shows(b, b.stmt[1], dev.keys, n) /\ b.stmt_len = 1
    <3>1. a.ext \in {{}, {"HMAC_SECRET"}}
      BY <1>5 DEF FidoAssertRefuses
    <3>2. a.ext = a.ext \ {"LARGEBLOB_KEY"}
      BY <3>1
    <3>3. CheckFlags(g.flags, a.up, a.uv)
      BY <2>3 DEF CheckFlags
    <3>. QED
      BY <2>3, <2>5, <2>8, <3>2, <3>3 DEF Shows
  <2>9. stop = "end" => \A i \in 1 .. asrt'.stmt_len : Shows(asrt', asrt'.stmt[i], dev.keys, calls')
    <3>1. \A i \in 1 .. 1 : i = 1
      OBVIOUS
    <3>. QED
      BY <2>6, <2>8, <3>1
  <2>. QED
    BY <1>2, <2>1, <2>7, <2>9, ReturnsKeeps
<1>6. \A e \in ToFido : e # "OK"
  BY DEF ToFido
<1>. QED
  BY <1>1, <1>3, <1>4, <1>5, <1>6

-----------------------------------------------------------------------------
(* Exchanges with a U2F token.                                             *)

LEMMA BreaksKeeps == ASSUME CallsInv, Breaks PROVE CallsInv'
<1>1. call # None /\ Objects' /\ calls' \in Nat /\ Returns(call.dev, "RX")
  BY DEF Breaks, InCall, CallsInv, Objects
<1>2. call.dev.kind = "u2f"
  BY <1>1 DEF CallsInv, InProgress
<1>. QED
  BY <1>1, <1>2, ErrorKeeps

LEMMA DummyRegisterKeeps == ASSUME CallsInv, DummyRegister PROVE CallsInv'
<1>1. Objects' /\ calls' \in Nat /\ Returns(call.dev, "CREDENTIAL_EXCLUDED")
  BY DEF DummyRegister, InCall, CallsInv, Objects
<1>. QED
  BY <1>1, ErrorKeeps

LEMMA NotTouchedKeeps == ASSUME CallsInv, NotTouched PROVE CallsInv'
BY DEF NotTouched, InCall, CallsInv, Objects, InProgress, Registering, Authenticating, CredReturned, AssertReturned,
       Answerable, app

LEMMA LookupExcludedKeeps == ASSUME CallsInv, LookupExcluded PROVE CallsInv'
<1>1. /\ call # None /\ call.stage = "exclude" /\ UNCHANGED <<program, spoilt, calls, cred, asrt, ret>>
      /\ IF cred.excl[call.i] \in call.dev.keys THEN call' = [call EXCEPT !.stage = "dummy"]
         ELSE IF call.i < Len(cred.excl) THEN call' = [call EXCEPT !.i = @ + 1]
         ELSE call' = [call EXCEPT !.stage = "register"]
  BY DEF LookupExcluded, InCall, GoesOn
<1>2. /\ DOMAIN call = {"stage", "dev", "i", "nfound", "nauth", "timeout"}
      /\ call.i \in Nat \ {0} /\ call.dev.kind = "u2f" /\ ret = NoReturn
      /\ app.what = "cred" /\ cred.uv # "TRUE" /\ cred.ext.mask = {}
      /\ \A j \in 1 .. call.i - 1 : cred.excl[j] \notin call.dev.keys
      /\ app' = app
  BY <1>1 DEF CallsInv, InProgress, Registering, app
<1>3. Objects' /\ calls' \in Nat /\ ret' = NoReturn /\ Len(cred.excl) \in Nat
  BY <1>1, <1>2 DEF CallsInv, Objects, CredOK, CredTyped
<1>4. CASE cred.excl[call.i] \in call.dev.keys
  <2>1. call' = [call EXCEPT !.stage = "dummy"]
    BY <1>1, <1>4
  <2>2. InProgress'
    BY <1>1, <1>2, <2>1 DEF InProgress, Registering
  <2>. QED
    BY <1>3, <2>2, QuietKeeps
<1>5. CASE cred.excl[call.i] \notin call.dev.keys
  <2>1. \A j \in 1 .. call.i : cred.excl[j] \notin call.dev.keys
    BY <1>2, <1>5
  <2>2. CASE call.i < Len(cred.excl)
    <3>1. call' = [call EXCEPT !.i = @ + 1]
      BY <1>1, <1>5, <2>2
    <3>2. /\ DOMAIN call' = DOMAIN call /\ call'.i = call.i + 1 /\ call'.dev = call.dev /\ call'.stage = "exclude"
      BY <1>1, <1>2, <3>1
    <3>3. call'.i - 1 = call.i
      BY <1>2, <3>2
    <3>4. InProgress'
      BY <1>1, <1>2, <2>1, <3>2, <3>3 DEF InProgress, Registering
    <3>. QED
      BY <1>3, <3>4, QuietKeeps
  <2>3. CASE ~(call.i < Len(cred.excl))
    <3>1. call' = [call EXCEPT !.stage = "register"]
      BY <1>1, <1>5, <2>3
    <3>2. \A j \in 1 .. Len(cred.excl) : cred.excl[j] \notin call.dev.keys
      BY <1>2, <1>3, <2>1, <2>3
    <3>3. DOMAIN call' = DOMAIN call /\ call'.i = call.i /\ call'.dev = call.dev /\ call'.stage = "register"
      BY <1>2, <3>1
    <3>4. InProgress'
      BY <1>1, <1>2, <3>2, <3>3 DEF InProgress, Registering
    <3>. QED
      BY <1>3, <3>4, QuietKeeps
  <2>. QED
    BY <2>2, <2>3
<1>. QED
  BY <1>4, <1>5

LEMMA RegisterKeeps == ASSUME CallsInv, Register PROVE CallsInv'
<1>1. /\ call # None /\ call.stage = "register" /\ UNCHANGED <<program, spoilt, calls, asrt>>
  BY DEF Register, InCall
<1>2. PICK m \in Made :
        /\ m.fmt = "fido-u2f" /\ m.rp = cred.rp /\ m.cdh = cred.cdh
        /\ cred' = RegisterReply(cred, m).obj
        /\ Returns(call.dev, IF RegisterReply(cred, m).ok THEN "OK" ELSE "INTERNAL")
  BY DEF Register
<1>3. /\ call.dev.kind = "u2f" /\ app.what = "cred" /\ cred.uv # "TRUE" /\ cred.ext.mask = {} /\ app' = app
      /\ \A j \in 1 .. Len(cred.excl) : cred.excl[j] \notin call.dev.keys
      /\ CredTyped(cred) /\ AssertOK(asrt) /\ program \in DOMAIN Programs /\ calls \in Nat
  BY <1>1 DEF CallsInv, InProgress, Registering, app, Objects, CredOK
<1>4. PICK r : r = RegisterReply(cred, m)
  OBVIOUS
<1>5. CredOK(r.obj, {}) /\ SameRequest(cred, r.obj) /\ (r.ok => Received(cred, r.obj, m))
  BY <1>2, <1>3, <1>4, RegisteredKeeps
<1>6. cred' = r.obj /\ Returns(call.dev, IF r.ok THEN "OK" ELSE "INTERNAL")
  BY <1>2, <1>4
<1>7. Objects' /\ calls' \in Nat
  BY <1>1, <1>3, <1>5, <1>6, SpoilsMore DEF Objects
<1>8. CASE ~r.ok
  BY <1>3, <1>6, <1>7, <1>8, ErrorKeeps
<1>9. CASE r.ok
  <2>1. r.obj.excl = cred.excl /\ r.obj.ext = cred.ext /\ DOMAIN cred.excl = 1 .. Len(cred.excl)
    BY <1>3, <1>5 DEF SameRequest, CredTyped
  <2>2. DecodeCredExtensions(m.ext).mask = {}
    BY <1>2, MadeAssumption, NoneDecoded DEF NoExt
  <2>3. Holds(r.obj, m)
    BY <1>2, <1>3, <1>5, <1>9, <2>1, <2>2, ReceivedHolds
  <2>4. WholeDecoded(r.obj)
    BY <1>5, <1>9 DEF Received
  <2>5. CredReturned'
    BY <1>3, <1>6, <1>9, <2>1, <2>3, <2>4 DEF CredReturned, Returns, Answerable
  <2>6. InProgress' /\ AssertReturned'
    BY <1>3, <1>6 DEF InProgress, AssertReturned, Returns
  <2>. QED
    BY <1>7, <2>5, <2>6 DEF CallsInv
<1>. QED
  BY <1>8, <1>9

\* After allowed credential i, of which nfound are the token's, with the statements t.
LEMMA NextAllowedKeeps ==
  ASSUME CallsInv, call # None, call.stage \in {"lookup", "sign"},
         UNCHANGED <<program, spoilt, calls, cred>>,
         NEW nfound \in Nat, NEW nauth \in Nat, NEW t, NextAllowed(nfound, nauth, t),
         nfound <= call.i, Sequential(t), Len(t) = Len(asrt.stmt), \A j \in 1 .. Len(t) : GoodStatement(t[j]),
         asrt.up = "FALSE" => nauth = 0,
         asrt.up # "FALSE" => \A j \in 1 .. nfound : Shows(asrt, t[j], call.dev.keys, calls)
  PROVE  CallsInv'
<1>1. /\ DOMAIN call = {"stage", "dev", "i", "nfound", "nauth", "timeout"}
      /\ call.i \in Nat \ {0} /\ call.dev.kind = "u2f" /\ ret = NoReturn
      /\ app.what = "assert" /\ asrt.uv # "TRUE" /\ asrt.ext = {} /\ app' = app
      /\ call.i <= Len(asrt.allow) /\ Len(asrt.stmt) = Len(asrt.allow) /\ asrt.stmt_len = Len(asrt.allow)
  BY DEF CallsInv, InProgress, Authenticating, app
<1>2. AssertOK(asrt) /\ CredOK(cred, spoilt) /\ program \in DOMAIN Programs /\ calls \in Nat
  BY DEF CallsInv, Objects
<1>3. Len(asrt.allow) \in Nat
  BY <1>2 DEF AssertOK, Sequential
<1>4. PICK b : b = [asrt EXCEPT !.stmt = t]
  OBVIOUS
<1>5. AssertOK(b) /\ SameQuery(asrt, b) /\ b.stmt = t /\ b.stmt_len = asrt.stmt_len
  BY <1>2, <1>4, StatementsKeep
<1>6. CASE call.i < Len(asrt.allow)
  <2>1. /\ call' = [call EXCEPT !.i = @ + 1, !.stage = "lookup", !.nfound = nfound, !.nauth = nauth]
        /\ ret' = ret /\ asrt' = b
    BY <1>4, <1>6 DEF NextAllowed, GoesOn
  <2>2. /\ DOMAIN call' = DOMAIN call /\ call'.i = call.i + 1 /\ call'.stage = "lookup" /\ call'.dev = call.dev
        /\ call'.nfound = nfound /\ call'.nauth = nauth
    BY <1>1, <2>1
  <2>3. nfound < call.i + 1 /\ call.i + 1 <= Len(asrt.allow) /\ call.i + 1 \in Nat \ {0}
    BY <1>1, <1>3, <1>6
  <2>4. asrt.up # "FALSE" => \A j \in 1 .. nfound : Shows(b, b.stmt[j], call.dev.keys, calls)
    BY <1>5, ShowsSame
  <2>5. /\ b.up = asrt.up /\ b.uv = asrt.uv /\ b.ext = asrt.ext /\ b.allow = asrt.allow
        /\ Len(b.stmt) = Len(asrt.allow) /\ b.stmt_len = Len(asrt.allow)
    BY <1>1, <1>5 DEF SameQuery
  <2>6. Authenticating'
    BY <1>1, <2>1, <2>2, <2>3, <2>4, <2>5 DEF Authenticating
  <2>7. InProgress' /\ ret' = NoReturn
    BY <1>1, <2>1, <2>2, <2>3, <2>6 DEF InProgress
  <2>8. Objects' /\ calls' \in Nat
    BY <1>2, <1>5, <2>1 DEF Objects
  <2>. QED
    BY <2>7, <2>8, QuietKeeps
<1>7. CASE ~(call.i < Len(asrt.allow))
  <2> DEFINE code == IF nfound = 0 THEN "NO_CREDENTIALS" ELSE IF nauth = 0 THEN "USER_PRESENCE_REQUIRED" ELSE "OK"
             d == [b EXCEPT !.stmt_len = nfound]
  <2>1. /\ call' = None /\ ret' = [code |-> code, keys |-> call.dev.keys, kind |-> call.dev.kind]
        /\ asrt' = [asrt EXCEPT !.stmt = t, !.stmt_len = nfound]
    BY <1>7 DEF NextAllowed, Counted
  <2>2. asrt' = d
    BY <1>4, <2>1
  <2>3. /\ DOMAIN d = DOMAIN b /\ SameQuery(b, d) /\ d.stmt = b.stmt /\ d.stmt_len = nfound
    BY <1>5 DEF AssertOK, NoAssert, SameQuery
  <2>4. nfound \in 0 .. Len(t)
    BY <1>1, <1>3, <1>7
  <2>. HIDE DEF d
  <2>5. AssertOK(d) /\ SameQuery(asrt, d)
    BY <1>5, <2>3, <2>4 DEF AssertOK, SameQuery
  <2>6. asrt.up # "FALSE" => \A j \in 1 .. nfound : Shows(d, d.stmt[j], call.dev.keys, calls)
    BY <1>5, <2>3, <2>5, ShowsSame
  <2>7. code = "OK" => asrt.up # "FALSE"
    OBVIOUS
  <2>. HIDE DEF code
  <2>8. AssertReturned'
    BY <2>1, <2>2, <2>3, <2>6, <2>7 DEF AssertReturned
  <2>9. InProgress' /\ CredReturned' /\ Objects' /\ calls' \in Nat
    BY <1>1, <1>2, <2>1, <2>2, <2>5 DEF InProgress, CredReturned, Objects
  <2>. QED
    BY <2>8, <2>9 DEF CallsInv
<1>. QED
  BY <1>6, <1>7

\* Statement k of a sequence is replaced by a good one.
Replaced(s, k, x) == [s EXCEPT ![k] = x]

AreGood(s) == Sequential(s) /\ \A j \in 1 .. Len(s) : GoodStatement(s[j])

LEMMA OneReplaced ==
  ASSUME NEW s, AreGood(s), NEW k \in 1 .. Len(s), NEW x, GoodStatement(x)
  PROVE  LET t == Replaced(s, k, x) IN
         /\ AreGood(t) /\ Len(t) = Len(s) /\ t[k] = x
         /\ \A j \in 1 .. Len(s) : j # k => t[j] = s[j]
<1>1. PICK t : t = Replaced(s, k, x)
  OBVIOUS
<1>2. Len(s) \in Nat /\ t = [j \in 1 .. Len(s) |-> t[j]] /\ \A j \in 1 .. Len(s) : t[j] = IF j = k THEN x ELSE s[j]
  BY <1>1 DEF Sequential, Replaced, AreGood
<1>3. Sequential(t) /\ Len(t) = Len(s)
  BY <1>2, SequenceOf
<1>. QED
  BY <1>1, <1>2, <1>3 DEF AreGood

LEMMA LookupAllowedKeeps == ASSUME CallsInv, LookupAllowed PROVE CallsInv'
<1> DEFINE id == asrt.allow[call.i]  k == call.nfound + 1  named == [asrt.stmt EXCEPT ![k].id = id]
<1>1. /\ call # None /\ call.stage = "lookup" /\ UNCHANGED <<program, spoilt, calls, cred>>
      /\ IF id \notin call.dev.keys THEN NextAllowed(call.nfound, call.nauth, asrt.stmt)
         ELSE IF asrt.up = "FALSE" THEN NextAllowed(k, call.nauth, named)
         ELSE GoesOn([call EXCEPT !.stage = "sign"]) /\ asrt' = [asrt EXCEPT !.stmt = named]
  BY DEF LookupAllowed, InCall
<1>2. /\ DOMAIN call = {"stage", "dev", "i", "nfound", "nauth", "timeout"}
      /\ call.i \in Nat \ {0} /\ call.dev.kind = "u2f" /\ ret = NoReturn /\ Authenticating /\ app' = app
  BY <1>1 DEF CallsInv, InProgress, app
<1>3. AssertOK(asrt) /\ CredOK(cred, spoilt) /\ program \in DOMAIN Programs /\ calls \in Nat
  BY DEF CallsInv, Objects
<1>4. /\ Len(asrt.allow) \in Nat /\ Sequential(asrt.stmt)
      /\ \A j \in 1 .. Len(asrt.stmt) : GoodStatement(asrt.stmt[j])
  BY <1>3 DEF AssertOK, Sequential
<1>5. call.nfound \in Nat /\ call.nauth \in Nat /\ k \in 1 .. Len(asrt.stmt) /\ k \in Nat /\ k <= call.i
  BY <1>2, <1>4 DEF Authenticating
<1>6. PICK x : x = [asrt.stmt[k] EXCEPT !.id = id]
  OBVIOUS
<1>7. GoodStatement(x) /\ x.id = id
  BY <1>4, <1>5, <1>6, MarkKeeps DEF GoodStatement, NoStatement
<1>8. PICK t : t = named
  OBVIOUS
<1>9. t = Replaced(asrt.stmt, k, x)
  BY <1>6, <1>8 DEF Replaced
<1>10. /\ Sequential(t) /\ Len(t) = Len(asrt.stmt) /\ t[k] = x /\ \A j \in 1 .. Len(t) : GoodStatement(t[j])
       /\ \A j \in 1 .. Len(t) : j # k => t[j] = asrt.stmt[j]
  <2>1. AreGood(asrt.stmt)
    BY <1>4 DEF AreGood
  <2>. HIDE DEF id, k, named
  <2>2. /\ AreGood(t) /\ Len(t) = Len(asrt.stmt) /\ t[k] = x
        /\ \A j \in 1 .. Len(asrt.stmt) : j # k => t[j] = asrt.stmt[j]
    BY <1>5, <1>7, <1>9, <2>1, OneReplaced
  <2>. QED
    BY <2>2 DEF AreGood
<1>11. CASE id \notin call.dev.keys
  <2>1. NextAllowed(call.nfound, call.nauth, asrt.stmt)
    BY <1>1, <1>11
  <2>2. call.nfound <= call.i
    BY <1>2, <1>5 DEF Authenticating
  <2>. HIDE DEF id, k, named
  <2>. QED
    BY <1>1, <1>2, <1>4, <1>5, <2>1, <2>2, NextAllowedKeeps DEF Authenticating
<1>12. CASE id \in call.dev.keys /\ asrt.up = "FALSE"
  <2>1. NextAllowed(k, call.nauth, t) /\ call.nauth = 0
    BY <1>1, <1>2, <1>8, <1>12 DEF Authenticating
  <2>. HIDE DEF id, k, named
  <2>. QED
    BY <1>1, <1>5, <1>10, <1>12, <2>1, NextAllowedKeeps
<1>13. CASE id \in call.dev.keys /\ asrt.up # "FALSE"
  <2>1. PICK b : b = [asrt EXCEPT !.stmt = t]
    OBVIOUS
  <2>2. AssertOK(b) /\ SameQuery(asrt, b) /\ b.stmt = t /\ b.stmt_len = asrt.stmt_len
    BY <1>3, <1>10, <2>1, StatementsKeep
  <2>3. call' = [call EXCEPT !.stage = "sign"] /\ ret' = ret /\ asrt' = b
    BY <1>1, <1>8, <1>13, <2>1 DEF GoesOn
  <2>4. /\ DOMAIN call' = DOMAIN call /\ call'.i = call.i /\ call'.stage = "sign" /\ call'.dev = call.dev
        /\ call'.nfound = call.nfound /\ call'.nauth = call.nauth
    BY <1>2, <2>3
  <2>5. \A j \in 1 .. call.nfound : Shows(b, b.stmt[j], call.dev.keys, calls)
    <3>1. ASSUME NEW j \in 1 .. call.nfound PROVE b.stmt[j] = asrt.stmt[j] /\ Shows(asrt, asrt.stmt[j], call.dev.keys, calls)
      <4>1. j \in 1 .. Len(t) /\ j # k
        BY <1>5, <1>10
      <4>. QED
        BY <1>2, <1>10, <1>13, <2>2, <4>1 DEF Authenticating
    <3>. QED
      BY <2>2, <3>1, ShowsSame
  <2>6. b.stmt[call.nfound + 1].id = b.allow[call.i] /\ b.allow[call.i] \in call.dev.keys
    BY <1>7, <1>10, <1>13, <2>2 DEF SameQuery
  <2>. HIDE DEF id, k, named
  <2>7. Authenticating'
    BY <1>1, <1>2, <1>10, <1>13, <2>2, <2>3, <2>4, <2>5, <2>6 DEF Authenticating, SameQuery
  <2>8. InProgress' /\ ret' = NoReturn
    BY <1>2, <2>3, <2>4, <2>7 DEF InProgress
  <2>9. Objects' /\ calls' \in Nat
    BY <1>1, <1>3, <2>2, <2>3 DEF Objects
  <2>. QED
    BY <2>8, <2>9, QuietKeeps
<1>. QED
  BY <1>11, <1>12, <1>13

LEMMA AuthenticateKeeps == ASSUME CallsInv, Authenticate PROVE CallsInv'
<1>1. call # None /\ call.stage = "sign" /\ UNCHANGED <<program, spoilt, calls, cred>>
  BY DEF Authenticate, InCall
<1>2. PICK g \in Given :
        /\ g.id = asrt.allow[call.i] /\ g.rp = asrt.rp /\ g.cdh = asrt.cdh
        /\ g.flags = {"UP"}
        /\ NextAllowed(call.nfound + 1, call.nauth + 1, Statements(call.nfound + 1, g))
  BY DEF Authenticate
<1>3. call.i \in Nat \ {0} /\ Authenticating
  BY <1>1 DEF CallsInv, InProgress
<1>4. AssertOK(asrt)
  BY DEF CallsInv, Objects
<1>5. /\ Len(asrt.allow) \in Nat /\ Sequential(asrt.stmt) /\ DOMAIN asrt.allow = 1 .. Len(asrt.allow)
      /\ \A j \in 1 .. Len(asrt.stmt) : GoodStatement(asrt.stmt[j])
  BY <1>4 DEF AssertOK, Sequential
<1>6. PICK k : k = call.nfound + 1
  OBVIOUS
<1>7. /\ call.nfound \in Nat /\ call.nauth \in Nat /\ k \in 1 .. Len(asrt.stmt) /\ k \in 1 .. asrt.stmt_len
      /\ k \in Nat /\ k <= call.i /\ asrt.up # "FALSE"
      /\ asrt.stmt[k].id = asrt.allow[call.i] /\ asrt.allow[call.i] \in call.dev.keys
      /\ asrt.uv # "TRUE" /\ asrt.ext = {}
      /\ call.i \in DOMAIN asrt.allow
  BY <1>1, <1>3, <1>5, <1>6 DEF Authenticating
<1>8. AuthdataFake(asrt.rp, g.flags) = AssertBytesOf(g)
  <2>1. g.ext = <<>> /\ g.size = 1
    BY <1>2, GivenAssumption
  <2>2. AssertBytesOf(g) = [rp |-> g.rp, flags |-> g.flags, id |-> None, pk |-> NoPk, ext |-> g.ext, cut |-> None,
                            size |-> g.size]
    <3> DEFINE b == [BytesOf(g) EXCEPT !.id = None]
    <3>1. b = [rp |-> g.rp, flags |-> g.flags, id |-> None, pk |-> g.pk, ext |-> g.ext, cut |-> None, size |-> g.size]
      BY DEF BytesOf
    <3>2. AssertBytesOf(g) = [b EXCEPT !.pk = NoPk]
      BY DEF AssertBytesOf
    <3>. HIDE DEF b
    <3>. QED
      BY <3>1, <3>2
  <2>3. g.rp = asrt.rp
    BY <1>2
  <2>. QED
    BY <2>1, <2>2, <2>3 DEF AuthdataFake
<1>9. PICK s : /\ ASetSig(ASetAuthdata(asrt, k, AssertBytesOf(g)), k, AssertionSig(g)) = Put(asrt, k, s)
               /\ GoodStatement(s) /\ s.authdata = AssertBytesOf(g) /\ s.sig = AssertionSig(g)
               /\ s.id = asrt.stmt[k].id
  BY <1>4, <1>7, AnswerIsPut
<1>10. PICK x : x = [s EXCEPT !.made = calls]
  OBVIOUS
<1>11. GoodStatement(x) /\ x.authdata = AssertBytesOf(g) /\ x.sig = AssertionSig(g) /\ x.id = g.id /\ x.made = calls
  BY <1>2, <1>7, <1>9, <1>10, MarkKeeps DEF GoodStatement, NoStatement
<1>12. PICK t : t = Statements(k, g)
  OBVIOUS
<1>13. t = Replaced(asrt.stmt, k, x)
  <2>1. t = [Put(asrt, k, s).stmt EXCEPT ![k].made = calls]
    BY <1>8, <1>9, <1>12 DEF Statements
  <2>2. Put(asrt, k, s).stmt = [asrt.stmt EXCEPT ![k] = s]
    BY <1>4 DEF Put, AssertOK, NoAssert
  <2>3. [[asrt.stmt EXCEPT ![k] = s] EXCEPT ![k].made = calls] = Replaced(asrt.stmt, k, x)
    BY <1>5, <1>7, <1>10 DEF Sequential, Replaced
  <2>. QED
    BY <2>1, <2>2, <2>3
<1>14. /\ Sequential(t) /\ Len(t) = Len(asrt.stmt) /\ t[k] = x /\ \A j \in 1 .. Len(t) : GoodStatement(t[j])
       /\ \A j \in 1 .. Len(t) : j # k => t[j] = asrt.stmt[j]
  <2>1. AreGood(asrt.stmt)
    BY <1>5 DEF AreGood
  <2>2. /\ AreGood(t) /\ Len(t) = Len(asrt.stmt) /\ t[k] = x
        /\ \A j \in 1 .. Len(asrt.stmt) : j # k => t[j] = asrt.stmt[j]
    BY <1>7, <1>11, <1>13, <2>1, OneReplaced
  <2>. QED
    BY <2>2 DEF AreGood
<1>15. Shows(asrt, x, call.dev.keys, calls)
  <2>1. CheckFlags(g.flags, asrt.up, asrt.uv)
    BY <1>2, <1>7 DEF CheckFlags
  <2>2. AssertExtensions(AssertBytesOf(g)) = asrt.ext \ {"LARGEBLOB_KEY"}
    BY <1>2, <1>7, GivenBytes DEF AssertExtensions
  <2>. QED
    BY <1>2, <1>7, <1>11, <2>1, <2>2 DEF Shows
<1>16. ASSUME NEW j \in 1 .. k PROVE Shows(asrt, t[j], call.dev.keys, calls)
  <2>1. CASE j = k
    BY <1>14, <1>15, <2>1
  <2>2. CASE j # k
    <3>1. j \in 1 .. call.nfound /\ j \in 1 .. Len(t)
      BY <1>6, <1>7, <1>14, <2>2
    <3>. QED
      BY <1>3, <1>7, <1>14, <2>2, <3>1 DEF Authenticating
  <2>. QED
    BY <2>1, <2>2
<1>17. NextAllowed(k, call.nauth + 1, t) /\ call.nauth + 1 \in Nat
  BY <1>2, <1>6, <1>7, <1>12
<1>. QED
  BY <1>1, <1>7, <1>14, <1>16, <1>17, NextAllowedKeeps

LEMMA NextCalls == CallsInv /\ [CallsNext]_allVars => CallsInv'
<1> SUFFICES ASSUME CallsInv, [CallsNext]_allVars PROVE CallsInv'
  OBVIOUS
<1>1. CASE CallsNext
  BY <1>1, FillBetweenKeeps, MakeCredU2fKeeps, MakeCredFido2Keeps, MakeCredWinhelloKeeps, GetAssertU2fKeeps,
     GetAssertFido2Keeps, GetAssertWinhelloKeeps, BreaksKeeps, LookupExcludedKeeps, NotTouchedKeeps,
     DummyRegisterKeeps, RegisterKeeps, LookupAllowedKeeps, AuthenticateKeeps DEF CallsNext, U2fStep
<1>2. CASE UNCHANGED allVars
  BY <1>2 DEF allVars, vars, callVars, CallsInv, Objects, InProgress, Registering, Authenticating, CredReturned,
     AssertReturned, Answerable, app
<1>. QED
  BY <1>1, <1>2

LEMMA CallsInvAlways == CallsSpec => []CallsInv
BY InitCalls, NextCalls, PTL DEF CallsSpec

-----------------------------------------------------------------------------
(* The properties of the runs.                                             *)

LEMMA AnswerableHolds ==
  ASSUME CredTyped(cred), WholeDecoded(cred)
  PROVE  CredTyped(Answerable(cred)) /\ WholeDecoded(Answerable(cred))
<1> DEFINE c == [cred EXCEPT !.ext.mask = @ \ {"HMAC_SECRET"}]
<1>1. /\ DOMAIN c = DOMAIN cred /\ DOMAIN c.ext = DOMAIN cred.ext /\ c.stmt = cred.stmt /\ c.attcred = cred.attcred
      /\ c.type = cred.type /\ c.cd = cred.cd /\ c.cdh = cred.cdh /\ c.excl = cred.excl
      /\ c.authdata = cred.authdata /\ c.head = cred.head /\ c.aext = cred.aext
  BY DEF CredTyped, NoCred, NoExt
<1>2. Answerable(cred) = c \/ Answerable(cred) = cred
  BY DEF Answerable
<1>. HIDE DEF c
<1>3. CredTyped(c) /\ WholeDecoded(c)
  BY <1>1 DEF CredTyped, WholeDecoded
<1>. QED
  BY <1>2, <1>3

LEMMA CredentialReturned == ASSUME CallsInv PROVE CredentialOfThisCall
<1>1. ASSUME app.what = "cred", ret.code = "OK", "MINPINLEN" \notin cred.ext.mask
      PROVE  \E m \in Made :
               LET c == Answerable(cred) IN
               /\ Holds(c, m)
               /\ (m.size <= DigestRoom /\ ~StaleExt(c.ext)) => Accepts(c, m)
  <2>1. PICK m \in Made : Holds(Answerable(cred), m)
    BY <1>1 DEF CallsInv, CredReturned
  <2>2. PICK c : c = Answerable(cred)
    OBVIOUS
  <2>3. CredTyped(c) /\ WholeDecoded(c)
    BY <1>1, <2>2, AnswerableHolds DEF CallsInv, Objects, CredOK, CredReturned
  <2>4. (m.size <= DigestRoom /\ ~StaleExt(c.ext)) => Accepts(c, m)
    BY <2>1, <2>2, <2>3, HeldAccepted
  <2>. QED
    BY <2>1, <2>2, <2>4
<1>. QED
  BY <1>1 DEF CallsInv, CredReturned, CredentialOfThisCall

LEMMA AssertionsReturned == ASSUME CallsInv PROVE AssertionsOfThisCall
<1> SUFFICES ASSUME app.what = "assert", ret.code = "OK", NEW i \in Indices
             PROVE  LET s == Shown(asrt, i) IN
                    /\ s.made = calls /\ s.id \in ret.keys
                    /\ asrt.allow # <<>> => s.id \in {asrt.allow[j] : j \in DOMAIN asrt.allow}
                    /\ \E g \in Given :
                         /\ g.id = s.id
                         /\ g.size <= DigestRoom => AssertVerify(asrt, i, g.pk.alg, g.pk) = "OK"
  BY DEF AssertionsOfThisCall
<1>1. AssertOK(asrt) /\ i \in 1 .. asrt.stmt_len
  BY DEF CallsInv, Objects, Indices
<1>2. Shows(asrt, asrt.stmt[i], ret.keys, calls)
  BY <1>1 DEF CallsInv, AssertReturned
<1>3. Shown(asrt, i) = asrt.stmt[i]
  BY <1>1 DEF Shown, AssertOK
<1>4. PICK g \in Given :
        /\ g.id = asrt.stmt[i].id /\ asrt.stmt[i].authdata = AssertBytesOf(g) /\ asrt.stmt[i].sig = AssertionSig(g)
        /\ g.rp = asrt.rp /\ g.cdh = asrt.cdh /\ CheckFlags(g.flags, asrt.up, asrt.uv)
        /\ AssertExtensions(AssertBytesOf(g)) = asrt.ext \ {"LARGEBLOB_KEY"}
  BY <1>2 DEF Shows
<1>5. g.size <= DigestRoom => AssertVerify(asrt, i, g.pk.alg, g.pk) = "OK"
  BY <1>1, <1>4, GivenVerifies
<1>. QED
  BY <1>2, <1>3, <1>4, <1>5 DEF Shows

LEMMA ObjectProperties ==
  ASSUME CallsInv
  PROVE  VerifiedIsAttested /\ GenuineAccepted /\ DecodedTogether /\ AssertionIsGiven /\ GivenAccepted
BY CredentialProperties, AssertionProperties DEF CallsInv, Objects

\* Whatever was set in whatever order, failures included, and whatever calls were
\* made: a credential that passes fido_cred_verify or fido_cred_verify_self was
\* attested by an authenticator for what is in the object now.
THEOREM VerifiedIsAttestedAlways == CallsSpec => []VerifiedIsAttested
BY CallsInvAlways, ObjectProperties, PTL

\* An attestation passes verification in any object that holds it with the request
\* it was made for: the setters and the decoders of cred.c lose nothing of it.
THEOREM GenuineAcceptedAlways == CallsSpec => []GenuineAccepted
BY CallsInvAlways, ObjectProperties, PTL

\* The parts that fido_cred_set_authdata and fido_cred_set_attobj decode are those
\* of the bytes that the object has, never of bytes that it had or that were refused.
THEOREM DecodedTogetherAlways == CallsSpec => []DecodedTogether
BY CallsInvAlways, ObjectProperties, PTL

\* A statement that passes fido_assert_verify with a public key was signed with it,
\* for what the object asks now.
THEOREM AssertionIsGivenAlways == CallsSpec => []AssertionIsGiven
BY CallsInvAlways, ObjectProperties, PTL

\* An assertion passes fido_assert_verify in any statement it was put into.
THEOREM GivenAcceptedAlways == CallsSpec => []GivenAccepted
BY CallsInvAlways, ObjectProperties, PTL

\* fido_dev_make_cred leaves a credential of this call that passes verification, on
\* a U2F token that holds none of the excluded ones; or, having failed on a FIDO2
\* device after the request was sent, nothing.
THEOREM CredentialOfThisCallAlways == CallsSpec => []CredentialOfThisCall
BY CallsInvAlways, CredentialReturned, PTL

\* fido_dev_get_assert shows assertions of this call only, each of a credential that
\* was asked for and that the device holds, and each passing verification.
THEOREM AssertionsOfThisCallAlways == CallsSpec => []AssertionsOfThisCall
BY CallsInvAlways, AssertionsReturned, PTL
=============================================================================
