---------------------------- MODULE LinkNotices ----------------------------
(***************************************************************************)
(* How inbox watch (Watch) learns that the link to the server was          *)
(* interrupted.  It asks the supervisor for its status every second and    *)
(* compares the generation, the number of connections the supervisor has   *)
(* made, with the last one it saw: a link that was lost and repaired       *)
(* between two questions shows in the number alone.  The file side of the  *)
(* same loop is in Inbox.                                                  *)
(***************************************************************************)
EXTENDS Integers

CONSTANTS
  MaxLinks,    \* bound: connections ever made
  MaxReplaced, \* bound: supervisors ever replaced
  MaxWatches   \* bound: watches ever begun

ASSUME BoundsAssumption == MaxLinks \in Nat /\ MaxReplaced \in Nat /\ MaxWatches \in Nat

VARIABLES
  sup,     \* the supervisor: which one, its generation, its connection
  watch,   \* the watcher
  owed,    \* history: an interruption that no notice announced yet
  counts   \* bound counters

vars == <<sup, watch, owed, counts>>

NoWatch == [pc |-> "off", gen |-> 0, down |-> FALSE, asked |-> 0, owed |-> "nothing"]

Init ==
  /\ sup = [inst |-> 0, gen |-> 0, conn |-> FALSE]
  /\ watch = NoWatch /\ owed = "nothing"
  /\ counts = [links |-> 0, watches |-> 0]

----------------------------------------------------------------------------
(* The supervisor.  A new connection counts up the generation of its own
   process, which starts at zero. *)
ConnectsUncounted ==
  /\ ~sup.conn /\ counts.links < MaxLinks
  /\ sup' = [sup EXCEPT !.conn = TRUE]
  /\ counts' = [counts EXCEPT !.links = @ + 1]
  /\ UNCHANGED <<watch, owed>>

Connects ==
  /\ ~sup.conn /\ counts.links < MaxLinks
  /\ sup' = [sup EXCEPT !.conn = TRUE, !.gen = @ + 1]
  /\ counts' = [counts EXCEPT !.links = @ + 1]
  /\ UNCHANGED <<watch, owed>>

LinkDrops ==
  /\ sup.conn
  /\ sup' = [sup EXCEPT !.conn = FALSE]
  /\ owed' = IF watch.pc # "off" /\ owed = "nothing" THEN "link" ELSE owed
  /\ UNCHANGED <<watch, counts>>

(* Ensure, some command's or the watcher's own, finds the client without a
   connection, or its supervisor dead, and starts another one. *)
EnsureReplaces ==
  /\ ~sup.conn /\ sup.inst < MaxReplaced
  /\ sup' = [inst |-> sup.inst + 1, gen |-> 0, conn |-> FALSE]
  /\ owed' = IF owed = "link" THEN "process" ELSE owed
  /\ UNCHANGED <<watch, counts>>

----------------------------------------------------------------------------
(* The watcher. *)

(* The first answer only sets what later ones are compared with. *)
WatchBegins ==
  /\ watch.pc = "off" /\ counts.watches < MaxWatches
  /\ watch' = [NoWatch EXCEPT !.pc = "tick", !.down = ~sup.conn,
                              !.gen = IF sup.conn THEN sup.gen ELSE 0]
  /\ counts' = [counts EXCEPT !.watches = @ + 1]
  /\ UNCHANGED <<sup, owed>>

(* It is cancelled, its owner ended, or its own Ensure found no live client
   and could not start one. *)
WatchEnds ==
  /\ watch.pc # "off" /\ watch' = NoWatch /\ owed' = "nothing"
  /\ UNCHANGED <<sup, counts>>

ToldUnknown(ok, gen) ==
  /\ watch' = [watch EXCEPT !.pc = "tick", !.down = ~ok, !.gen = IF ok THEN gen ELSE -1,
                            !.asked = 0, !.owed = "nothing"]
  /\ owed' = IF ok /\ ~sup.conn THEN owed ELSE "nothing"

(* transportGeneration as the loop sees it: whether there is a usable
   connection, and which.  What was owed is announced by this round or
   never; a link that was lost since the answer is for the next one. *)
Told(ok, gen) ==
  /\ watch' = [watch EXCEPT !.pc = "tick", !.down = ~ok, !.gen = IF ok THEN gen ELSE @,
                            !.asked = 0, !.owed = "nothing"]
  /\ owed' = IF ok /\ ~sup.conn THEN owed ELSE "nothing"

(* The handler of status looks for the connection, and then, with the lock
   taken anew, for the generation. *)
WatchAsks ==
  /\ watch.pc = "tick"
  /\ IF sup.conn
     THEN /\ watch' = [watch EXCEPT !.pc = "answer", !.asked = sup.inst, !.owed = owed]
          /\ UNCHANGED owed
     ELSE Told(FALSE, 0)
  /\ UNCHANGED <<sup, counts>>

(* A supervisor that was stopped in between does not answer. *)
WatchHears ==
  /\ watch.pc = "answer"
  /\ IF watch.asked = sup.inst THEN Told(TRUE, sup.gen) ELSE Told(FALSE, 0)
  /\ UNCHANGED <<sup, counts>>

Next == Connects \/ LinkDrops \/ EnsureReplaces
        \/ WatchBegins \/ WatchEnds \/ WatchAsks \/ WatchHears

Spec == Init /\ [][Next]_vars

----------------------------------------------------------------------------
Debt == {"nothing", "link", "process"}

TypeOK ==
  /\ sup \in [inst : 0..MaxReplaced, gen : 0..MaxLinks, conn : BOOLEAN]
  /\ watch \in [pc : {"off", "tick", "answer"}, gen : 0..MaxLinks, down : BOOLEAN,
                asked : 0..MaxReplaced, owed : Debt]
  /\ owed \in Debt
  /\ counts \in [links : 0..MaxLinks, watches : 0..MaxWatches]

(* The watcher hears of a live link and finds nothing to announce. *)
Silent ==
  /\ watch.pc = "answer" /\ watch'.pc = "tick"
  /\ ~watch.down /\ ~watch'.down /\ watch'.gen = watch.gen

(* LinkLossAnnounced: a link that was lost, and repaired by the same
   supervisor before the watcher asks, is announced even though the watcher
   never saw it down (Watch, setConn, status). *)
LinkLossAnnounced == [][Silent => watch.owed # "link"]_vars
=============================================================================
