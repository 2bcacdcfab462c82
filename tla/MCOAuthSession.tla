--------------------------- MODULE MCOAuthSession ---------------------------
(* The instance of OAuthSession that TLC checks; the sets are in oauth.cfg. *)
EXTENDS OAuthSession
=============================================================================
