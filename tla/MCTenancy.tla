----------------------------- MODULE MCTenancy -----------------------------
(* Small instances of Tenancy for TLC. *)
EXTENDS Tenancy, TLC

(* Two spellings of one tenant, and the tenant whose database is that of the *)
(* configuration: dataauth_pg.                                                *)
CONSTANTS acme, Acme, pg, acmeDb, pgDb

MCDbOf == acme :> acmeDb @@ Acme :> acmeDb @@ pg :> pgDb
=============================================================================
