------------------------ MODULE MCQuoteVerification ------------------------
(***************************************************************************)
(* One quote for each thing the checks look at, before and after a         *)
(* rotation of the signing keys.                                           *)
(***************************************************************************)
EXTENDS QuoteVerification

Rsa == [kid |-> "rsa", kty |-> "RSA"]
Ec == [kid |-> "ec", kty |-> "EC"]

Token == [readable |-> TRUE, alg |-> "RS256", kid |-> "rsa", iss |-> Issuer, exp |-> 0,
          signer |-> Rsa, digest |-> "build", nonce |-> "key"]
Quote == [measurement |-> "build", pubKey |-> "key", keyIs32Bytes |-> TRUE, mode |-> 0,
          token |-> Token, honest |-> FALSE]
With(token) == [Quote EXCEPT !.token = token]

MCQuotes == {
  Quote,
  With([Token EXCEPT !.kid = "none"]),
  With([Token EXCEPT !.signer = Nobody]),
  With([Token EXCEPT !.signer = Nobody, !.kid = "nobody"]),
  With([Token EXCEPT !.alg = "none"]),
  With([Token EXCEPT !.iss = "somebody"]),
  With([Token EXCEPT !.exp = 1]),
  With([Token EXCEPT !.nonce = "relay"]),
  With([Token EXCEPT !.readable = FALSE]),
  With([Token EXCEPT !.signer = Ec, !.kid = "ec", !.alg = "ES256"]),
  With([Token EXCEPT !.signer = Ec, !.kid = "ec"]),
  [Quote EXCEPT !.mode = 1, !.token.signer = Nobody, !.token.iss = "somebody"],
  [Quote EXCEPT !.measurement = "other", !.token.digest = "other"],
  [Quote EXCEPT !.keyIs32Bytes = FALSE]}

\* Confidential Space signs "sha256:..." and the enclave serves "0x...".
HardwareQuotes == {[Quote EXCEPT !.token.digest = "sha256:build", !.honest = TRUE]}

TwoKeys == {Rsa, Ec}
OneKey == {Rsa}

=============================================================================
