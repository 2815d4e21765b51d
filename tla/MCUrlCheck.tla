----------------------------- MODULE MCUrlCheck -----------------------------
(***************************************************************************)
(* A small instance of UrlCheck: three URLs, two permits.                   *)
(***************************************************************************)
EXTENDS UrlCheck

CONSTANTS u1, u2, u3
=============================================================================
