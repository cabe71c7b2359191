------------------------ MODULE MCChannelMembership ------------------------
(* Small instances of ChannelMembership for TLC. *)
EXTENDS ChannelMembership, TLC

Symmetry == Permutations(Cmd)
=============================================================================
