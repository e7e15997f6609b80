--------------------------- MODULE MCRecorderClient ---------------------------
(* Small instances of RecorderClient.                                      *)
EXTENDS RecorderClient
=============================================================================
