------------------------------ MODULE KeyCache ------------------------------
(* auth.py, TokenVerifier and _Jwks: the process that serves an HTTP surface  *)
(* believes a bearer token when a key of its issuer's published set signed it,*)
(* and keeps that set in memory. A key it does not know costs a fetch, and a  *)
(* successful fetch closes the window for MIN_REFETCH_SECONDS.                *)
(*                                                                            *)
(* verify_token never awaits, so the event loop verifies one token at a time: *)
(* `call` is the only one in progress, and the issuer, which is outside, may  *)
(* rotate its keys or go away between any two of its steps.                   *)
EXTENDS Naturals

CONSTANTS
    Kids,      \* the names of keys: a name stands for one key for good
    NoKid,     \* a token whose header names none
    Window     \* MIN_REFETCH_SECONDS, in ticks of the clock

ASSUME NoKidAssumption == NoKid \notin Kids
ASSUME ClockAssumption == Window \in Nat

VARIABLES
    published,  \* the issuer's document: kid -> the kind of key it publishes
    up,         \* does the issuer answer, and finish its answer
    keys,       \* _Jwks._keys
    age,        \* ticks since _fetched_at, up to Window, where it starts
    call,       \* the token being verified
    \* Not in the code, for the properties:
    served,     \* the public keys of the last document fetched
    trusted,    \* keys believed at least once and not withdrawn by the issuer since
    rest,       \* ticks since the issuer last served a document, up to Window
    took        \* ticks it took to serve that document, up to Window

vars == <<published, up, keys, age, call, served, trusted, rest, took>>

KeyKinds == {"none", "public", "symmetric"}

\* What the header and the body of a token say, and whose key signed it: alg, an
\* accepted algorithm; sound, right issuer and audience, and unexpired with leeway.
Tokens == [kid: Kids \cup {NoKid}, signer: Kids \cup {NoKid}, alg: BOOLEAN, sound: BOOLEAN]

Genuine(kid) == [kid |-> kid, signer |-> kid, alg |-> TRUE, sound |-> TRUE]

\* A fetch is made for a token that has an accepted algorithm and names a key.
Fetchable == {token \in Tokens : token.alg /\ token.kid \in Kids}

\* waited: the ticks since key_for read the time, up to Window. Nothing bounds them:
\* the timeout of urlopen is one for each read of the socket, not for the answer.
Calls == [phase: {"idle"}]
         \cup [phase: {"fetching"}, token: Fetchable, waited: 0..Window]
         \cup [phase: {"answered"}, token: Tokens, believed: BOOLEAN]

Idle == [phase |-> "idle"]
Answered(token, believed) == [phase |-> "answered", token |-> token, believed |-> believed]

Public == {kid \in Kids : published[kid] = "public"}

Init ==
    /\ published \in [Kids -> KeyKinds]
    /\ up \in BOOLEAN
    /\ keys = {}
    /\ age = Window
    /\ call = Idle
    /\ served = {}
    /\ trusted = {}
    /\ rest = Window
    /\ took = 0

-----------------------------------------------------------------------------
(* The code. *)

\* jwt.decode, with the key its kid selected.
Decodes(token) == token.signer = token.kid /\ token.sound

Settle(token, believed) ==
    /\ call' = Answered(token, believed)
    /\ trusted' = IF believed THEN trusted \cup ({token.kid} \cap Public) ELSE trusted

\* A plausible bug: a known key is looked up only while the set is young.
KnownWhileYoung(token) == token.alg /\ token.kid \in keys /\ age < Window

Known(token) == token.alg /\ token.kid \in keys

\* A plausible bug: a header without a kid counts as one with an unknown kid.
UnknownOrUnnamed(token) == token.alg /\ token.kid \notin keys

Unknown(token) == token.alg /\ token.kid \in Kids \ keys

\* A known key answers at once, whatever the age of the set.
Verify(token) ==
    /\ call = Idle
    /\ Known(token)
    /\ Settle(token, Decodes(token))
    /\ UNCHANGED <<published, up, keys, age, served, rest, took>>

\* Another algorithm, no kid, or an unknown key inside the window: 401.
Refuse(token) ==
    /\ call = Idle
    /\ ~ Known(token)
    /\ Unknown(token) => age < Window
    /\ Settle(token, FALSE)
    /\ UNCHANGED <<published, up, keys, age, served, rest, took>>

\* A plausible bug: the set is fetched once and for all.
StartFetchOnce(token) ==
    /\ call = Idle /\ Unknown(token) /\ age = Window /\ keys = {}
    /\ call' = [phase |-> "fetching", token |-> token, waited |-> 0]
    /\ UNCHANGED <<published, up, keys, age, served, trusted, rest, took>>

\* An unknown key after the window, or before any set was fetched.
StartFetch(token) ==
    /\ call = Idle
    /\ Unknown(token)
    /\ age = Window
    /\ call' = [phase |-> "fetching", token |-> token, waited |-> 0]
    /\ UNCHANGED <<published, up, keys, age, served, trusted, rest, took>>

\* A plausible bug: the new set is added to the old one.
InstallMerging(set, since) == keys' = keys \cup set /\ age' = since

\* A plausible bug: the time of the fetch is not kept.
InstallForgetting(set, since) == keys' = set /\ age' = age

Install(set, since) == keys' = set /\ age' = since

\* The set is replaced, and its age is counted from before the request.
Fetched ==
    /\ call.phase = "fetching"
    /\ up
    /\ Public # {}
    /\ Install(Public, call.waited)
    /\ Settle(call.token, call.token.kid \in keys' /\ Decodes(call.token))
    /\ served' = Public
    /\ rest' = 0
    /\ took' = call.waited
    /\ UNCHANGED <<published, up>>

\* No answer, or a document with no public key in it: the old set and its age stay.
FetchFails ==
    /\ call.phase = "fetching"
    /\ ~ up \/ Public = {}
    /\ Settle(call.token, FALSE)
    /\ UNCHANGED <<published, up, keys, age, served, rest, took>>

\* The believed call reaches its tool, the other is a 401.
Return ==
    /\ call.phase = "answered"
    /\ call' = Idle
    /\ UNCHANGED <<published, up, keys, age, served, trusted, rest, took>>

-----------------------------------------------------------------------------
(* Around it. *)

Later(ticks) == IF ticks < Window THEN ticks + 1 ELSE Window

Tick ==
    /\ call' = IF call.phase = "fetching" THEN [call EXCEPT !.waited = Later(@)] ELSE call
    /\ age' = Later(age)
    /\ rest' = Later(rest)
    /\ UNCHANGED <<published, up, keys, served, trusted, took>>

Rotate(document) ==
    /\ published' = document
    /\ trusted' = trusted \cap {kid \in Kids : document[kid] = "public"}
    /\ UNCHANGED <<up, keys, age, call, served, rest, took>>

Outage ==
    /\ up' = ~ up
    /\ UNCHANGED <<published, keys, age, call, served, trusted, rest, took>>

Ask(token) == Verify(token) \/ Refuse(token) \/ StartFetch(token)

Next ==
    \/ \E token \in Tokens : Ask(token)
    \/ Fetched
    \/ FetchFails
    \/ Return
    \/ Tick
    \/ \E document \in [Kids -> KeyKinds] : Rotate(document)
    \/ Outage

Spec == Init /\ [][Next]_vars

(* The clock runs and a call returns; an issuer that is up finishes its        *)
(* answer; and a client whose token is genuine tries again until it is         *)
(* believed. That any other fetch ends is not assumed.                         *)
Fairness ==
    /\ WF_vars(Tick) /\ WF_vars(Return)
    /\ WF_vars(Fetched)
    /\ \A kid \in Kids : SF_vars(Ask(Genuine(kid)))

FairSpec == Spec /\ Fairness

-----------------------------------------------------------------------------
(* Properties. *)

\* Types: the cached set holds names of keys, and a fetch in progress is for a token
\* that names one, in an accepted algorithm (_Jwks.key_for refuses a token without).
TypeOK ==
    /\ published \in [Kids -> KeyKinds]
    /\ up \in BOOLEAN
    /\ keys \subseteq Kids
    /\ age \in 0..Window
    /\ call \in Calls
    /\ served \subseteq Kids
    /\ trusted \subseteq Kids
    /\ rest \in 0..Window
    /\ took \in 0..Window

\* A believed token is genuine, and the key that signed it was a public key of the
\* last document the issuer served: a rotated-out key stops working with the next
\* fetch, and a symmetric one never works (_Jwks.key_for, _Jwks._fetch).
BelievesOnlyTheLastKeySet ==
    call.phase = "answered" /\ call.believed
        => /\ call.token = Genuine(call.token.kid)
           /\ call.token.kid \in served

\* An outage logs nobody out: whatever other callers make the process fetch, and
\* however that ends, a genuine token whose key was believed before and which the
\* issuer still publishes is never refused.
OutageLogsOutNobody ==
    call.phase = "answered" /\ ~ call.believed
        => ~ (call.token = Genuine(call.token.kid) /\ call.token.kid \in trusted)

\* The kid is the caller's to choose, and still the issuer, having served its key
\* set, is left alone for MIN_REFETCH_SECONDS less the ticks that answer took: the
\* window opens when key_for reads the time, before the request, and shuts by the
\* same clock. An answer that took a whole window leaves no rest at all.
FetchesAreSpaced == call.phase = "fetching" => rest + took >= Window

\* A key that the issuer publishes and goes on publishing is known in the end and
\* stays so, under any rotation before, any outage that ends and any number of
\* callers that spend the window on keys nobody publishes.
NewKeyIsKnown ==
    \A kid \in Kids : <>[](up /\ kid \in Public) => <>[](kid \in keys)
=============================================================================
