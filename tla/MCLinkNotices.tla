--------------------------- MODULE MCLinkNotices ---------------------------
(* Small instances of LinkNotices for TLC. *)
EXTENDS LinkNotices
=============================================================================
