---------------------------- MODULE KeyCacheProof ----------------------------
(* KeyCache's safety for any names of keys and any window. The inductive      *)
(* invariant adds to the types what the properties rest on: the cached set is  *)
(* the last document served, what is trusted is in it, a fetch is for a key    *)
(* outside it, and the age of the set runs ahead of the rest the issuer was    *)
(* given by no more than the answer took.                                      *)
EXTENDS KeyCache, TLAPS

SetIsLastServed == keys = served

TrustedIsKnown == trusted \subseteq keys \cap Public

FetchIsForUnknown == call.phase = "fetching" => call.token.kid \notin keys

AgeLeads == age <= rest + took

IInv ==
    /\ TypeOK
    /\ SetIsLastServed
    /\ TrustedIsKnown
    /\ FetchIsForUnknown
    /\ AgeLeads
    /\ BelievesOnlyTheLastKeySet
    /\ OutageLogsOutNobody
    /\ FetchesAreSpaced

-----------------------------------------------------------------------------
(* A call is idle, fetching or answered. *)

LEMMA IdleType == Idle \in Calls /\ Idle.phase = "idle"
  BY DEF Idle, Calls

LEMMA AnsweredType ==
    ASSUME NEW token \in Tokens, NEW believed \in BOOLEAN
    PROVE  /\ Answered(token, believed) \in Calls
           /\ Answered(token, believed).phase = "answered"
           /\ Answered(token, believed).token = token
           /\ Answered(token, believed).believed = believed
  BY DEF Answered, Calls

LEMMA FetchingType ==
    ASSUME call \in Calls, call.phase = "fetching"
    PROVE  /\ call.token \in Fetchable
           /\ call.waited \in 0..Window
           /\ call = [phase |-> "fetching", token |-> call.token, waited |-> call.waited]
  BY DEF Calls

LEMMA FetchableType ==
    ASSUME NEW token \in Fetchable
    PROVE  token \in Tokens /\ token.alg /\ token.kid \in Kids
  BY DEF Fetchable

LEMMA PublicType == Public \subseteq Kids
  BY DEF Public

LEMMA SumGrows ==
    ASSUME NEW few \in Nat, NEW more \in Nat, NEW rise \in Nat, NEW floor \in Nat,
           few + rise >= floor, more >= few
    PROVE  more + rise >= floor
  OBVIOUS

LEMMA InitIInv == Init => IInv
  <1> SUFFICES ASSUME Init PROVE IInv
    OBVIOUS
  <1>1. TypeOK
    BY IdleType, ClockAssumption DEF Init, TypeOK
  <1>2. SetIsLastServed /\ TrustedIsKnown /\ AgeLeads
    BY ClockAssumption DEF Init, SetIsLastServed, TrustedIsKnown, AgeLeads
  <1>3. FetchIsForUnknown /\ BelievesOnlyTheLastKeySet /\ OutageLogsOutNobody /\ FetchesAreSpaced
    BY IdleType DEF Init, FetchIsForUnknown, BelievesOnlyTheLastKeySet, OutageLogsOutNobody, FetchesAreSpaced
  <1> QED
    BY <1>1, <1>2, <1>3 DEF IInv

-----------------------------------------------------------------------------
(* An answer settles the call: the same for the three actions that give one.  *)
(* `set` is what is cached after it.                                          *)

LEMMA SettleIsSound ==
    ASSUME IInv, NEW token \in Tokens, NEW believed \in BOOLEAN, NEW set \in SUBSET Kids,
           Settle(token, believed), keys' = set, served' = set, published' = published,
           trusted \subseteq set,
           believed => token = Genuine(token.kid) /\ token.kid \in set,
           ~ believed => ~ (token = Genuine(token.kid) /\ token.kid \in set)
    PROVE  /\ call' \in Calls /\ trusted' \subseteq Kids
           /\ TrustedIsKnown' /\ FetchIsForUnknown' /\ SetIsLastServed'
           /\ BelievesOnlyTheLastKeySet' /\ OutageLogsOutNobody' /\ FetchesAreSpaced'
  <1>1. /\ call' \in Calls /\ call'.phase = "answered"
        /\ call'.token = token /\ call'.believed = believed
    BY AnsweredType DEF Settle
  <1>2. Public' = Public
    BY DEF Public
  <1>3. trusted' \subseteq set \cap Public
    <2>1. trusted \subseteq Public
      BY DEF IInv, TrustedIsKnown
    <2>2. CASE believed
      BY <2>1, <2>2 DEF Settle
    <2>3. CASE ~ believed
      BY <2>1, <2>3 DEF Settle
    <2> QED
      BY <2>2, <2>3
  <1>4. FetchIsForUnknown' /\ FetchesAreSpaced'
    BY <1>1 DEF FetchIsForUnknown, FetchesAreSpaced
  <1>5. BelievesOnlyTheLastKeySet'
    BY <1>1 DEF BelievesOnlyTheLastKeySet
  <1>6. OutageLogsOutNobody'
    BY <1>1, <1>3 DEF OutageLogsOutNobody
  <1>7. TrustedIsKnown' /\ SetIsLastServed' /\ trusted' \subseteq Kids
    BY <1>2, <1>3 DEF TrustedIsKnown, SetIsLastServed
  <1> QED
    BY <1>1, <1>4, <1>5, <1>6, <1>7

\* A token that decodes with the key its accepted header names is genuine.
LEMMA DecodesIsGenuine ==
    ASSUME NEW token \in Tokens, token.alg
    PROVE  Decodes(token) <=> token = Genuine(token.kid)
  BY DEF Tokens, Decodes, Genuine

LEMMA GenuineIsAlg ==
    ASSUME NEW token \in Tokens, token = Genuine(token.kid)
    PROVE  token.alg
  BY DEF Tokens, Genuine

-----------------------------------------------------------------------------
(* The code's steps. *)

LEMMA VerifyIInv ==
    ASSUME IInv, NEW token \in Tokens, Verify(token)
    PROVE  IInv'
  <1>1. token.alg /\ token.kid \in keys
    BY DEF Verify, Known
  <1>2. Decodes(token) \in BOOLEAN
    BY DEF Decodes, Tokens
  <1>3. /\ keys' = keys /\ served' = keys /\ keys \in SUBSET Kids
        /\ trusted \subseteq keys /\ published' = published
    BY DEF Verify, IInv, TypeOK, SetIsLastServed, TrustedIsKnown
  <1>4. Settle(token, Decodes(token))
    BY DEF Verify
  <1>5. /\ call' \in Calls /\ trusted' \subseteq Kids
        /\ TrustedIsKnown' /\ FetchIsForUnknown' /\ SetIsLastServed'
        /\ BelievesOnlyTheLastKeySet' /\ OutageLogsOutNobody' /\ FetchesAreSpaced'
    BY <1>1, <1>2, <1>3, <1>4, DecodesIsGenuine, SettleIsSound
  <1>6. TypeOK' /\ AgeLeads'
    BY <1>5 DEF Verify, IInv, TypeOK, AgeLeads
  <1> QED
    BY <1>5, <1>6 DEF IInv

LEMMA RefuseIInv ==
    ASSUME IInv, NEW token \in Tokens, Refuse(token)
    PROVE  IInv'
  <1>1. ~ (token = Genuine(token.kid) /\ token.kid \in keys)
    BY GenuineIsAlg DEF Refuse, Known
  <1>2. /\ keys' = keys /\ served' = keys /\ keys \in SUBSET Kids
        /\ trusted \subseteq keys /\ published' = published
    BY DEF Refuse, IInv, TypeOK, SetIsLastServed, TrustedIsKnown
  <1>3. /\ call' \in Calls /\ trusted' \subseteq Kids
        /\ TrustedIsKnown' /\ FetchIsForUnknown' /\ SetIsLastServed'
        /\ BelievesOnlyTheLastKeySet' /\ OutageLogsOutNobody' /\ FetchesAreSpaced'
    BY <1>1, <1>2, SettleIsSound DEF Refuse
  <1>4. TypeOK' /\ AgeLeads'
    BY <1>3 DEF Refuse, IInv, TypeOK, AgeLeads
  <1> QED
    BY <1>3, <1>4 DEF IInv

\* The window is over, so the issuer has had its rest.
LEMMA StartFetchIInv ==
    ASSUME IInv, NEW token \in Tokens, StartFetch(token)
    PROVE  IInv'
  <1>1. /\ call' \in Calls /\ call'.phase = "fetching" /\ call'.token = token
    BY ClockAssumption DEF StartFetch, Unknown, Calls, Fetchable
  <1>2. rest' + took' >= Window
    BY ClockAssumption DEF StartFetch, IInv, TypeOK, AgeLeads
  <1>3. FetchIsForUnknown' /\ FetchesAreSpaced'
    BY <1>1, <1>2 DEF StartFetch, Unknown, FetchIsForUnknown, FetchesAreSpaced
  <1>4. BelievesOnlyTheLastKeySet' /\ OutageLogsOutNobody'
    BY <1>1 DEF BelievesOnlyTheLastKeySet, OutageLogsOutNobody
  <1>5. TypeOK' /\ SetIsLastServed' /\ TrustedIsKnown' /\ AgeLeads'
    BY <1>1 DEF StartFetch, IInv, TypeOK, SetIsLastServed, TrustedIsKnown, AgeLeads, Public
  <1> QED
    BY <1>3, <1>4, <1>5 DEF IInv

LEMMA FetchedIInv ==
    ASSUME IInv, Fetched
    PROVE  IInv'
  <1> DEFINE token == call.token
             believed == token.kid \in Public /\ Decodes(token)
  <1>1. /\ token \in Tokens /\ call.waited \in 0..Window /\ token.alg
    BY FetchingType, FetchableType DEF Fetched, IInv, TypeOK
  <1>2. /\ keys' = Public /\ served' = Public /\ published' = published
        /\ age' = call.waited /\ rest' = 0 /\ took' = call.waited
    BY DEF Fetched, Install
  <1>3. believed \in BOOLEAN
    BY <1>1 DEF Decodes, Tokens
  <1>4. Settle(token, believed)
    BY <1>2 DEF Fetched
  <1>5. trusted \subseteq Public
    BY DEF IInv, TrustedIsKnown
  <1>6. /\ call' \in Calls /\ trusted' \subseteq Kids
        /\ TrustedIsKnown' /\ FetchIsForUnknown' /\ SetIsLastServed'
        /\ BelievesOnlyTheLastKeySet' /\ OutageLogsOutNobody' /\ FetchesAreSpaced'
    BY <1>1, <1>2, <1>3, <1>4, <1>5, PublicType, DecodesIsGenuine, SettleIsSound
  <1>7. TypeOK' /\ AgeLeads'
    BY <1>1, <1>2, <1>6, PublicType, ClockAssumption DEF Fetched, IInv, TypeOK, AgeLeads
  <1> QED
    BY <1>6, <1>7 DEF IInv

LEMMA FetchFailsIInv ==
    ASSUME IInv, FetchFails
    PROVE  IInv'
  <1>1. call.token \in Tokens /\ call.token.kid \notin keys
    BY FetchingType, FetchableType DEF FetchFails, IInv, TypeOK, FetchIsForUnknown
  <1>2. /\ keys' = keys /\ served' = keys /\ keys \in SUBSET Kids
        /\ trusted \subseteq keys /\ published' = published
    BY DEF FetchFails, IInv, TypeOK, SetIsLastServed, TrustedIsKnown
  <1>3. /\ call' \in Calls /\ trusted' \subseteq Kids
        /\ TrustedIsKnown' /\ FetchIsForUnknown' /\ SetIsLastServed'
        /\ BelievesOnlyTheLastKeySet' /\ OutageLogsOutNobody' /\ FetchesAreSpaced'
    BY <1>1, <1>2, SettleIsSound DEF FetchFails
  <1>4. TypeOK' /\ AgeLeads'
    BY <1>3 DEF FetchFails, IInv, TypeOK, AgeLeads
  <1> QED
    BY <1>3, <1>4 DEF IInv

LEMMA ReturnIInv ==
    ASSUME IInv, Return
    PROVE  IInv'
  <1>1. call' \in Calls /\ call'.phase = "idle"
    BY IdleType DEF Return
  <1>2. /\ FetchIsForUnknown' /\ BelievesOnlyTheLastKeySet'
        /\ OutageLogsOutNobody' /\ FetchesAreSpaced'
    BY <1>1 DEF FetchIsForUnknown, BelievesOnlyTheLastKeySet, OutageLogsOutNobody, FetchesAreSpaced
  <1>3. TypeOK' /\ SetIsLastServed' /\ TrustedIsKnown' /\ AgeLeads'
    BY <1>1 DEF Return, IInv, TypeOK, SetIsLastServed, TrustedIsKnown, AgeLeads, Public
  <1> QED
    BY <1>2, <1>3 DEF IInv

-----------------------------------------------------------------------------
(* The steps around it. *)

LEMMA TickIInv ==
    ASSUME IInv, Tick
    PROVE  IInv'
  <1>1. /\ call' \in Calls
        /\ call'.phase = call.phase
        /\ call.phase = "fetching" => call'.token = call.token
        /\ call.phase # "fetching" => call' = call
    <2>1. CASE call.phase = "fetching"
      BY <2>1, FetchingType, ClockAssumption DEF Tick, Later, IInv, TypeOK, Calls
    <2>2. CASE call.phase # "fetching"
      BY <2>2 DEF Tick, IInv, TypeOK
    <2> QED
      BY <2>1, <2>2
  <1>2. /\ age' \in 0..Window /\ rest' \in 0..Window
        /\ age' <= rest' + took' /\ rest' >= rest /\ took' = took
    BY ClockAssumption DEF Tick, Later, IInv, TypeOK, AgeLeads
  <1>3. TypeOK' /\ AgeLeads'
    BY <1>1, <1>2 DEF Tick, IInv, TypeOK, AgeLeads
  <1>4. FetchIsForUnknown' /\ BelievesOnlyTheLastKeySet' /\ OutageLogsOutNobody'
    BY <1>1 DEF Tick, IInv, FetchIsForUnknown, BelievesOnlyTheLastKeySet, OutageLogsOutNobody
  <1>5. FetchesAreSpaced'
    <2>1. rest \in Nat /\ rest' \in Nat /\ took \in Nat /\ Window \in Nat
      BY <1>2, ClockAssumption DEF IInv, TypeOK
    <2>2. call'.phase = "fetching" => rest + took >= Window
      BY <1>1 DEF IInv, FetchesAreSpaced
    <2>3. rest' >= rest
      BY <1>2
    <2>4. call'.phase = "fetching" => rest' + took >= Window
      BY <2>1, <2>2, <2>3, SumGrows
    <2> QED
      BY <1>2, <2>4 DEF FetchesAreSpaced
  <1>6. SetIsLastServed' /\ TrustedIsKnown'
    BY DEF Tick, IInv, SetIsLastServed, TrustedIsKnown, Public
  <1> QED
    BY <1>3, <1>4, <1>5, <1>6 DEF IInv

\* What the issuer withdraws is trusted no longer.
LEMMA RotateIInv ==
    ASSUME IInv, NEW document \in [Kids -> KeyKinds], Rotate(document)
    PROVE  IInv'
  <1>1. Public' = {kid \in Kids : document[kid] = "public"}
    BY DEF Rotate, Public
  <1>2. trusted' \subseteq trusted
    BY DEF Rotate
  <1>3. TypeOK' /\ SetIsLastServed' /\ AgeLeads' /\ FetchIsForUnknown'
        /\ BelievesOnlyTheLastKeySet' /\ FetchesAreSpaced'
    BY <1>2 DEF Rotate, IInv, TypeOK, SetIsLastServed, AgeLeads, FetchIsForUnknown,
                BelievesOnlyTheLastKeySet, FetchesAreSpaced
  <1>4. TrustedIsKnown'
    BY <1>1 DEF Rotate, IInv, TrustedIsKnown
  <1>5. OutageLogsOutNobody'
    BY <1>2 DEF Rotate, IInv, OutageLogsOutNobody
  <1> QED
    BY <1>3, <1>4, <1>5 DEF IInv

LEMMA StillIInv ==
    ASSUME IInv, Outage \/ UNCHANGED vars
    PROVE  IInv'
  <1>1. up' \in BOOLEAN
    BY DEF Outage, vars, IInv, TypeOK
  <1>2. UNCHANGED <<published, keys, age, call, served, trusted, rest, took>>
    BY DEF Outage, vars
  <1> QED
    BY <1>1, <1>2 DEF IInv, TypeOK, SetIsLastServed, TrustedIsKnown, FetchIsForUnknown, Public,
        AgeLeads, BelievesOnlyTheLastKeySet, OutageLogsOutNobody, FetchesAreSpaced

-----------------------------------------------------------------------------

\* In every behaviour: types hold, and the three properties with what they rest on.
THEOREM Invariance == Spec => []IInv
  <1>1. Init => IInv
    BY InitIInv
  <1>2. IInv /\ [Next]_vars => IInv'
    <2> SUFFICES ASSUME IInv, [Next]_vars PROVE IInv'
      OBVIOUS
    <2>1. CASE \E token \in Tokens : Ask(token)
      BY <2>1, VerifyIInv, RefuseIInv, StartFetchIInv DEF Ask
    <2>2. CASE Fetched
      BY <2>2, FetchedIInv
    <2>3. CASE FetchFails
      BY <2>3, FetchFailsIInv
    <2>4. CASE Return
      BY <2>4, ReturnIInv
    <2>5. CASE Tick
      BY <2>5, TickIInv
    <2>6. CASE \E document \in [Kids -> KeyKinds] : Rotate(document)
      BY <2>6, RotateIInv
    <2>7. CASE Outage \/ UNCHANGED vars
      BY <2>7, StillIInv
    <2> QED
      BY <2>1, <2>2, <2>3, <2>4, <2>5, <2>6, <2>7 DEF Next
  <1> QED
    BY <1>1, <1>2, PTL DEF Spec

\* Every reachable state is well typed: in particular no fetch is made for a token
\* without a kid or in another algorithm (_Jwks.key_for, TokenVerifier._decode).
THEOREM TypeCorrect == Spec => []TypeOK
  <1>1. IInv => TypeOK
    BY DEF IInv
  <1> QED
    BY <1>1, Invariance, PTL

\* A token is believed only with a public key of the last document the issuer served
\* (_Jwks.key_for and _Jwks._fetch), whatever the window.
THEOREM BelievedSafety == Spec => []BelievesOnlyTheLastKeySet
  <1>1. IInv => BelievesOnlyTheLastKeySet
    BY DEF IInv
  <1> QED
    BY <1>1, Invariance, PTL

\* No fetch of another caller's, failed or not, turns away a genuine token whose key
\* was believed and is still published (_Jwks.key_for keeps the set it has).
THEOREM OutageSafety == Spec => []OutageLogsOutNobody
  <1>1. IInv => OutageLogsOutNobody
    BY DEF IInv
  <1> QED
    BY <1>1, Invariance, PTL

\* The issuer rests for the window, less what its answer took, after every document
\* it served (_Jwks.key_for), however long an answer takes.
THEOREM SpacingSafety == Spec => []FetchesAreSpaced
  <1>1. IInv => FetchesAreSpaced
    BY DEF IInv
  <1> QED
    BY <1>1, Invariance, PTL
=============================================================================
