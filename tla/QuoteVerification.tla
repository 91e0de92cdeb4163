------------------------- MODULE QuoteVerification -------------------------
(***************************************************************************)
(* What the page does with the enclave's quote (web/lib/attestation):      *)
(* three checks, the second of which verifies a hardware token against the *)
(* keys Google publishes.                                                  *)
(*                                                                         *)
(* The key set is fetched once per page and shared: a check that finds a   *)
(* fetch under way waits for it.  A reset of the pipeline leaves the old   *)
(* verification running beside the new one, so several checks share it.    *)
(* WebPipeline takes the verdict as a free choice; here it is computed.    *)
(***************************************************************************)
EXTENDS Naturals

CONSTANTS Checks,       \* verifications of one page
          Quotes,       \* what the enclave, or whoever is in between, may serve
          GoogleKeys,   \* external: [kid, kty] of the keys Google ever publishes
          FirstKeys,    \* those published when the page loads
          FirstListed,  \* the measurements whitelisted when the page loads
          MaxTime, MaxFailures

Issuer == "google"
Modes == {0, 1}  \* hardware, simulated

\* A token: its header, what it claims and who signed it.  readable: three
\* segments whose payload parses; exp = 0 and kid = "none": the claim is absent.
ASSUME QuotesAssumption ==
  /\ FirstKeys \subseteq GoogleKeys
  /\ \A q \in Quotes :
       /\ q.mode \in Modes /\ q.keyIs32Bytes \in BOOLEAN
       /\ q.token.readable \in BOOLEAN /\ q.token.exp \in Nat
ASSUME BoundsAssumption == MaxTime \in Nat /\ MaxFailures \in Nat

VARIABLES published,  \* Google's key set now
          listed,     \* the whitelist on chain
          now,
          fetch,      \* "none", "discovery" or "keys": the shared fetch
          cache,      \* the key set the page holds; {} when it holds none
          failures,   \* fetches that failed
          pc, quote,
          asked       \* failures when the check asked for the keys

checksVars == <<published, listed, now, fetch, cache, failures, pc, quote, asked>>
world == <<published, listed, now>>
jwks == <<fetch, cache, failures>>

Stages == {"idle", "shape", "binding", "keys", "signature", "whitelist",
           "accepted", "refused", "unreachable"}
Nobody == [kid |-> "nobody", kty |-> "RSA"]

ChecksInit ==
  /\ published = FirstKeys /\ listed = FirstListed /\ now = 1
  /\ fetch = "none" /\ cache = {} /\ failures = 0
  /\ pc = [c \in Checks |-> "idle"]
  /\ quote \in [Checks -> Quotes]
  /\ asked = [c \in Checks |-> 0]

Goes(c, stage) == pc' = [pc EXCEPT ![c] = stage]

-----------------------------------------------------------------------------
(* The checks.                                                             *)

\* The quote has been fetched.
Begin(c) ==
  /\ pc[c] = "idle" /\ Goes(c, "shape")
  /\ UNCHANGED <<world, jwks, quote, asked>>

\* Check 1: the lengths are right and the token can be read.
CheckQuoteShape(c) ==
  /\ pc[c] = "shape"
  /\ Goes(c, IF quote[c].keyIs32Bytes /\ quote[c].token.readable THEN "binding" ELSE "refused")
  /\ UNCHANGED <<world, jwks, quote, asked>>

\* The key and the measurement served are those inside the token.
Bound(q) == q.token.digest = q.measurement /\ q.token.nonce = q.pubKey

\* What verifyTokenSignature refuses before it needs the keys.
Plausible(token) ==
  /\ token.alg # "none"
  /\ token.iss = Issuer
  /\ token.exp > 0 => token.exp >= now

\* Check 2: the binding, and for a hardware quote the signature.
CheckSignatureBinding(c) ==
  /\ pc[c] = "binding"
  /\ LET q == quote[c] IN
     Goes(c, IF ~Bound(q) THEN "refused"
             ELSE IF q.mode = 1 THEN "whitelist"
             ELSE IF Plausible(q.token) THEN "keys" ELSE "refused")
  /\ asked' = [asked EXCEPT ![c] = failures]
  /\ UNCHANGED <<world, jwks, quote>>

FetchJwks_Remembers(c) ==
  /\ pc[c] = "keys"
  /\ IF cache # {} THEN Goes(c, "signature") /\ UNCHANGED fetch
     ELSE IF failures > 0 THEN Goes(c, "unreachable") /\ UNCHANGED fetch
     ELSE fetch = "none" /\ fetch' = "discovery" /\ UNCHANGED pc
  /\ UNCHANGED <<world, cache, failures, quote, asked>>

\* fetchJwks: the cached set, or a wait for the fetch under way or a new one.
Waiting(c) == pc[c] = "keys"
FetchJwks(c) ==
  /\ Waiting(c)
  /\ IF cache # {} THEN Goes(c, "signature") /\ UNCHANGED fetch
     ELSE fetch = "none" /\ fetch' = "discovery" /\ UNCHANGED pc
  /\ UNCHANGED <<world, cache, failures, quote, asked>>

Discovered ==
  /\ fetch = "discovery" /\ fetch' = "keys"
  /\ UNCHANGED <<world, cache, failures, pc, quote, asked>>

KeysArrive ==
  /\ fetch = "keys" /\ fetch' = "none" /\ cache' = published
  /\ UNCHANGED <<world, failures, pc, quote, asked>>

Forgotten_Pending == fetch' = "rejected"

\* Either request fails: the promise is forgotten and all who wait are told.
Forgotten == fetch' = "none"
FetchFails ==
  /\ fetch # "none" /\ failures < MaxFailures
  /\ failures' = failures + 1
  /\ Forgotten
  /\ pc' = [c \in Checks |-> IF Waiting(c) THEN "unreachable" ELSE pc[c]]
  /\ UNCHANGED <<world, cache, quote, asked>>

\* algorithmFor.
Supports(jwk, alg) == <<jwk.kty, alg>> \in {<<"RSA", "RS256">>, <<"EC", "ES256">>}

\* The keys the token names, or all of them when it names none.
Candidates(token) == {jwk \in cache : token.kid = "none" \/ jwk.kid = token.kid}

Verified_Named(token) == \E jwk \in Candidates(token) : Supports(jwk, token.alg)
Verified(token) == \E jwk \in Candidates(token) : Supports(jwk, token.alg) /\ token.signer = jwk

VerifySignature(c) ==
  /\ pc[c] = "signature"
  /\ Goes(c, IF Verified(quote[c].token) THEN "whitelist" ELSE "refused")
  /\ UNCHANGED <<world, jwks, quote, asked>>

\* Check 3: the measurement is one the chain lists now.
CheckWhitelist(c) ==
  /\ pc[c] = "whitelist"
  /\ Goes(c, IF quote[c].measurement \in listed THEN "accepted" ELSE "refused")
  /\ UNCHANGED <<world, jwks, quote, asked>>

\* "Verify again" fetches a new quote.
Retry(c) ==
  /\ pc[c] \in {"refused", "unreachable"}
  /\ \E q \in Quotes : quote' = [quote EXCEPT ![c] = q]
  /\ Goes(c, "shape")
  /\ UNCHANGED <<world, jwks, asked>>

-----------------------------------------------------------------------------
(* The world: time passes, Google rotates its keys, builds are delisted.   *)

Tick ==
  /\ now < MaxTime /\ now' = now + 1
  /\ UNCHANGED <<published, listed, jwks, pc, quote, asked>>
Rotate ==
  /\ published # GoogleKeys /\ published' = GoogleKeys
  /\ UNCHANGED <<listed, now, jwks, pc, quote, asked>>
Delist ==
  /\ \E m \in listed : listed' = listed \ {m}
  /\ UNCHANGED <<published, now, jwks, pc, quote, asked>>

Step(c) ==
  \/ Begin(c) \/ CheckQuoteShape(c) \/ CheckSignatureBinding(c) \/ FetchJwks(c)
  \/ VerifySignature(c) \/ CheckWhitelist(c)
Fetching == Discovered \/ KeysArrive \/ FetchFails

ChecksNext ==
  \/ \E c \in Checks : Step(c) \/ Retry(c)
  \/ Fetching
  \/ Tick \/ Rotate \/ Delist

\* Started checks run on and a request is answered or fails.  Nothing is
\* assumed of the user.
Fairness == WF_checksVars(Fetching) /\ \A c \in Checks : WF_checksVars(Step(c))

ChecksSpec == ChecksInit /\ [][ChecksNext]_checksVars /\ Fairness

-----------------------------------------------------------------------------
(* Properties.                                                             *)

ChecksTypeOK ==
  /\ published \subseteq GoogleKeys /\ cache \subseteq GoogleKeys
  /\ listed \subseteq FirstListed
  /\ now \in Nat /\ fetch \in {"none", "discovery", "keys"} /\ failures \in 0 .. MaxFailures
  /\ pc \in [Checks -> Stages]
  /\ quote \in [Checks -> Quotes]
  /\ asked \in [Checks -> 0 .. MaxFailures]

\* A check that passes vouches for the key: key and measurement are inside the
\* token, the measurement was whitelisted, and a quote that claims hardware
\* was issued by Google, for the algorithm declared, under a key Google
\* published, whatever else shares the key set or rotates meanwhile.
AcceptedIsGenuine == \A c \in Checks :
  pc[c] = "accepted" =>
    LET q == quote[c] IN
    /\ q.token.digest = q.measurement /\ q.token.nonce = q.pubKey
    /\ q.measurement \in FirstListed
    /\ q.mode = 0 => /\ q.token.iss = Issuer
                     /\ q.token.signer \in GoogleKeys
                     /\ q.token.alg \in {"RS256", "ES256"}

\* A fetch that failed earlier in the session fails no later check: whoever
\* is told that the keys could not be reached asked before that failure.
FailureIsNotCached == \A c \in Checks :
  pc[c] = "unreachable" => asked[c] < failures

\* Every check that asked for the keys gets an answer, whoever started the
\* fetch and however often it failed.
EveryCheckEnds == \A c \in Checks :
  Waiting(c) ~> pc[c] \in {"accepted", "refused", "unreachable"}

\* A quote from an honest enclave on Confidential Space, whose build is listed
\* throughout and whose key the page holds, is not refused.
Honest(q) ==
  /\ q.mode = 0 /\ q.keyIs32Bytes /\ q.token.readable /\ q.honest
  /\ q.token.exp = 0 \/ q.token.exp > MaxTime
GenuineQuotePasses == \A c \in Checks :
  Honest(quote[c]) /\ listed = FirstListed => pc[c] # "refused"

=============================================================================
