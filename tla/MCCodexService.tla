--------------------------- MODULE MCCodexService ---------------------------
(* Small instances of CodexService for TLC. *)
EXTENDS CodexService
=============================================================================
