------------------------- MODULE MCCatalogRecovery -------------------------
(* A database with two sidecars, which each snapshot may or may not have.  *)
EXTENDS CatalogRecovery

MCOrder == <<"db", "wal", "shm">>
=============================================================================
