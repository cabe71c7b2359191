-------------------------- MODULE MCCodexDelivery --------------------------
(* Small instances of CodexDelivery for TLC. *)
EXTENDS CodexDelivery

RouteOf(thread, subscribed, mention) ==
  [thread |-> thread, subscribed |-> subscribed, mention |-> mention]

MentionRoutes == {RouteOf("t1", FALSE, TRUE)}
=============================================================================
