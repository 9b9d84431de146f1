----------------------------- MODULE MCOidcLogin -----------------------------
(* Instances of OidcLogin for TLC. *)
EXTENDS OidcLogin

CONSTANTS w1, w2, b1, b2, kakao, ann, shop, elsewhere, front
=============================================================================
