------------------------------ MODULE OidcTokens ------------------------------
(* The tokens of OIDC clients: how they are granted (OidcGrants), and      *)
(* beside it how they are refreshed (OidcRefresh).                         *)
EXTENDS OidcGrants

CONSTANTS Refreshes, MaxRows, MaxLogins, MaxErrors, MaxDeaths

VARIABLES rows, request, known, minted, broken, logins, errors, deaths

refreshVars == <<rows, request, known, minted, broken, logins, errors, deaths>>

Refresh == INSTANCE OidcRefresh WITH Requests <- Refreshes

ASSUME RefreshAssumption == Refresh!RefreshAssumption

(* Tokens of one chain share a sid, but where reading or writing it failed.*)
RefreshInvariant == Refresh!RefreshInvariant
==============================================================================
