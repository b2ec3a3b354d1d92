---------------------------- MODULE MCClibHandles ----------------------------
(* Small instances of ClibHandles: its constants are given in Clib.cfg.    *)
EXTENDS ClibHandles
=============================================================================
