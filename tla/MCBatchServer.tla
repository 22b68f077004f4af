---------------------------- MODULE MCBatchServer ----------------------------
(* Small instances of BatchServer.                                         *)
EXTENDS BatchServer
=============================================================================
