------------------------------- MODULE MCIngest -------------------------------
(* Instance of Ingest for TLC: the bounds are in the cfg.                  *)
EXTENDS Ingest
===============================================================================
