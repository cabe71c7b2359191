-------------------------- MODULE AtLeastOnceQueue --------------------------
(***************************************************************************)
(* What delivery to Codex promises, without locks, stale copies, retries   *)
(* or crashes.  A reader follows a log under a subscription that may be    *)
(* replaced.  The consumer accepts the wanted records in the order of the  *)
(* log, each at least once, and the cursor of the subscription follows the *)
(* acceptances and never runs ahead of them.                               *)
(***************************************************************************)
EXTENDS Integers, Sequences

CONSTANTS
  Record,       \* the records there are
  Wants(_, _)   \* Wants(record, route): the subscription wants it

VARIABLES
  log,       \* the records stored so far
  id,        \* which subscription is in force; 0 is none
  route,     \* what it subscribes to
  origin,    \* the position it started from
  cursor,    \* the position it reached
  accepted   \* positions the consumer accepted for it

vars == <<log, id, route, origin, cursor, accepted>>

Init ==
  /\ log = <<>>
  /\ id = 0 /\ origin = 0 /\ cursor = 0
  /\ accepted = {}

(* A record is stored. *)
Publish ==
  /\ \E r \in Record : log' = Append(log, r)
  /\ UNCHANGED <<id, route, origin, cursor, accepted>>

(* A new subscription starts somewhere in the log, with nothing accepted. *)
Subscribe ==
  /\ id' = id + 1
  /\ origin' \in 0..Len(log) /\ cursor' = origin'
  /\ accepted' = {}
  /\ UNCHANGED log

(* The consumer accepts a wanted record, for the first time or again, after
   all the wanted records before it. *)
Accept ==
  /\ \E i \in 1..Len(log) :
       /\ origin < i /\ Wants(log[i], route)
       /\ \A j \in origin+1..i-1 : Wants(log[j], route) => j \in accepted
       /\ accepted' = accepted \cup {i}
  /\ UNCHANGED <<log, id, route, origin, cursor>>

(* The cursor passes one record: nobody wants it, or it was accepted. *)
Advance ==
  /\ cursor < Len(log)
  /\ Wants(log[cursor + 1], route) => cursor + 1 \in accepted
  /\ cursor' = cursor + 1
  /\ UNCHANGED <<log, id, route, origin, accepted>>

Next == Publish \/ Subscribe \/ Accept \/ Advance

Spec == Init /\ [][Next]_vars
=============================================================================
