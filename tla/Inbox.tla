------------------------------- MODULE Inbox -------------------------------
(***************************************************************************)
(* The messages of a client home and who reads them.  The supervisor       *)
(* appends what IRC delivers to messages.jsonl.  The command inbox read    *)
(* (PollMessages) returns what lies beyond the cursor of the agent session *)
(* that invokes it, and moves the cursor: it takes no lock, and several    *)
(* may run.  The command inbox watch (Watch) follows the file from where   *)
(* it ends; what else it does is in LinkNotices.                           *)
(*                                                                         *)
(* A position is a line, an offset the number of lines before it: appends  *)
(* are single writes of whole lines, and nothing shortens the file.  The   *)
(* file's third kind of reader is CodexDelivery.                           *)
(***************************************************************************)
EXTENDS Integers, Sequences

CONSTANTS
  Invoker,     \* agent sessions that read the inbox
  Poll,        \* inbox read commands that may run at the same time
  NoInvoker,   \* a poll that is not in progress is nobody's
  MaxMessages, \* bound: messages
  MaxPolls,    \* bound: polls ever begun
  MaxWatches   \* bound: watches ever begun

ASSUME InvokerAssumption == NoInvoker \notin Invoker
ASSUME BoundsAssumption == MaxMessages \in Nat /\ MaxPolls \in Nat /\ MaxWatches \in Nat

VARIABLES
  store,   \* messages.jsonl: each line a peer's, or other: the client's or broken
  cursor,  \* the cursor file of each invoker
  poll,    \* the polls in progress
  taken,   \* history: the lines that polls of an invoker returned
  watch,   \* the watcher
  covered, \* history: invokers with a whole poll since the watch began
  emitted, \* history: the lines watchers emitted
  polls,   \* bound counter
  watches  \* bound counter, and which watch this is

vars == <<store, cursor, poll, taken, watch, covered, emitted, polls, watches>>

Position == 1..MaxMessages
Offset   == 0..MaxMessages

NoPoll  == [pc |-> "idle", by |-> NoInvoker, from |-> 0, next |-> 0, since |-> 0]
NoWatch == [on |-> FALSE, offset |-> 0]

Init ==
  /\ store = <<>>
  /\ cursor = [i \in Invoker |-> 0]
  /\ poll = [p \in Poll |-> NoPoll]
  /\ taken = [i \in Invoker |-> {}]
  /\ watch = NoWatch /\ emitted = {} /\ covered = {}
  /\ polls = 0 /\ watches = 0

(* What a reader makes of the lines in between: lines that do not parse and
   the client's own are skipped. *)
Lines(from, next) == {k \in DOMAIN store : from < k /\ k <= next /\ store[k] = "peer"}

(* OnMessage, AppendMessage. *)
Receives(whose) ==
  /\ Len(store) < MaxMessages
  /\ store' = Append(store, whose)
  /\ UNCHANGED <<cursor, poll, taken, watch, covered, emitted, polls, watches>>

----------------------------------------------------------------------------
(* inbox read. *)

(* The cursor is loaded, or ignored by a replay. *)
PollBegins(p, i, replay) ==
  /\ poll[p].pc = "idle" /\ polls < MaxPolls
  /\ poll' = [poll EXCEPT ![p] =
       [pc |-> "read", by |-> i, from |-> IF replay THEN 0 ELSE cursor[i],
        next |-> 0, since |-> IF watch.on THEN watches ELSE 0]]
  /\ polls' = polls + 1
  /\ UNCHANGED <<store, cursor, taken, watch, covered, emitted, watches>>

PollReadsPast(p) ==
  /\ poll[p].pc = "read"
  /\ poll' = [poll EXCEPT ![p].pc = "save", ![p].next = Len(store) + 1]
  /\ UNCHANGED <<store, cursor, taken, watch, covered, emitted, polls, watches>>

PollReads(p) ==
  /\ poll[p].pc = "read"
  /\ poll' = [poll EXCEPT ![p].pc = "save", ![p].next = Len(store)]
  /\ UNCHANGED <<store, cursor, taken, watch, covered, emitted, polls, watches>>

Returns(p) ==
  /\ poll[p].pc = "save"
  /\ poll' = [poll EXCEPT ![p] = NoPoll]
  /\ taken' = [taken EXCEPT ![poll[p].by] = @ \cup Lines(poll[p].from, poll[p].next)]
  /\ covered' = IF watch.on /\ poll[p].since = watches
                THEN covered \cup {poll[p].by} ELSE covered
  /\ UNCHANGED <<store, watch, emitted, polls, watches>>

PollSavesSize(p) ==
  Returns(p) /\ cursor' = [cursor EXCEPT ![poll[p].by] = Len(store)]

(* The lines are returned if the cursor could be saved. *)
PollSaves(p) ==
  Returns(p) /\ cursor' = [cursor EXCEPT ![poll[p].by] = poll[p].next]

(* An error, or the end of the process. *)
PollFails(p) ==
  /\ poll[p].pc = "save"
  /\ poll' = [poll EXCEPT ![p] = NoPoll]
  /\ UNCHANGED <<store, cursor, taken, watch, covered, emitted, polls, watches>>

----------------------------------------------------------------------------
(* inbox watch. *)
WatchBegins ==
  /\ ~watch.on /\ watches < MaxWatches
  /\ watch' = [on |-> TRUE, offset |-> Len(store)]
  /\ watches' = watches + 1
  /\ UNCHANGED <<store, cursor, poll, taken, covered, emitted, polls>>

(* It is cancelled, its owner ended, or the client could not be recovered. *)
WatchEnds ==
  /\ watch.on /\ watch' = NoWatch /\ covered' = {}
  /\ UNCHANGED <<store, cursor, poll, taken, emitted, polls, watches>>

WatchReadsRest ==
  /\ watch.on /\ watch.offset < Len(store)
  /\ emitted' = emitted \cup Lines(watch.offset + 1, Len(store))
  /\ watch' = [watch EXCEPT !.offset = Len(store)]
  /\ UNCHANGED <<store, cursor, poll, taken, covered, polls, watches>>

WatchReads ==
  /\ watch.on /\ watch.offset < Len(store)
  /\ emitted' = emitted \cup Lines(watch.offset, Len(store))
  /\ watch' = [watch EXCEPT !.offset = Len(store)]
  /\ UNCHANGED <<store, cursor, poll, taken, covered, polls, watches>>

----------------------------------------------------------------------------
PollStep(p) ==
  \/ \E i \in Invoker, replay \in BOOLEAN : PollBegins(p, i, replay)
  \/ PollReads(p) \/ PollSaves(p) \/ PollFails(p)

Next ==
  \/ \E whose \in {"peer", "other"} : Receives(whose)
  \/ \E p \in Poll : PollStep(p)
  \/ WatchBegins \/ WatchReads \/ WatchEnds

Spec == Init /\ [][Next]_vars

----------------------------------------------------------------------------
TypeOK ==
  /\ store \in Seq({"peer", "other"}) /\ Len(store) <= MaxMessages
  /\ cursor \in [Invoker -> Offset]
  /\ poll \in [Poll -> [pc : {"idle", "read", "save"}, by : Invoker \cup {NoInvoker},
                        from : Offset, next : Offset, since : 0..MaxWatches]]
  /\ \A p \in Poll : poll[p].pc # "idle" => poll[p].by \in Invoker
  /\ taken \in [Invoker -> SUBSET Position]
  /\ watch \in [on : BOOLEAN, offset : Offset]
  /\ covered \subseteq Invoker /\ emitted \subseteq Position
  /\ polls \in 0..MaxPolls /\ watches \in 0..MaxWatches

(* NothingSkipped: whatever lies before an invoker's cursor was returned by
   one of its polls, however many run at once and in whatever order their
   saves, of whatever they read, reach the cursor file (PollMessages). *)
NothingSkipped == \A i \in Invoker : Lines(0, cursor[i]) \subseteq taken[i]

(* GapCovered: once an invoker has polled since the watcher began, every
   message up to where the watcher is was returned or emitted: one poll
   makes up for the time no watcher ran (Watch, PollMessages). *)
GapCovered ==
  watch.on => \A i \in covered : Lines(0, watch.offset) \subseteq emitted \cup taken[i]

----------------------------------------------------------------------------
(* Fairness.  The watcher's ticker fires every second. *)
FairSpec == Spec /\ WF_vars(WatchReads)

(* WatchEmits: a message that arrives while a watcher runs is emitted, unless
   the watch ends first (Watch). *)
WatchEmits ==
  \A k \in Position :
    watch.on /\ k \in Lines(watch.offset, Len(store)) ~> k \in emitted \/ ~watch.on
=============================================================================
