---------------------------- MODULE MCRDSSupervisor -------------------------
(* Small instance of RDSSupervisor.                                        *)
EXTENDS RDSSupervisor
=============================================================================
