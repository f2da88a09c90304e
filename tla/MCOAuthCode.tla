----------------------------- MODULE MCOAuthCode -----------------------------
(* Instances of OAuthCode for TLC.                                          *)
EXTENDS OAuthCode, TLC

CONSTANTS c1, c2, k1, k2, u1, u2, x1, x2, i1, i2, v1, v2, r1, r2

OAuthSymmetry ==
    Permutations(Codes) \cup Permutations(Clients) \cup Permutations(Users)
      \cup Permutations(Exchanges) \cup Permutations(Tokens)
      \cup Permutations(Verifiers)
==============================================================================
