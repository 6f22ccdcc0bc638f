--------------------------- MODULE MCConfigStore ---------------------------
EXTENDS ConfigStore, TLC

CONSTANTS acme, beta, t1, t2

\* Each spelling is an owner of its own.
MCOrgOf == (acme :> "acme") @@ (beta :> "beta")

\* Two spellings of one owner.
MCOneOrg == (acme :> "acme") @@ (beta :> "acme")
=============================================================================
