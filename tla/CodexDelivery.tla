--------------------------- MODULE CodexDelivery ---------------------------
(***************************************************************************)
(* Delivery of the stored IRC messages of one client home to the Codex     *)
(* thread it is bound to.  The supervisor process runs three things that   *)
(* share the binding file: the IRC reader that appends to messages.jsonl,  *)
(* the delivery worker (runCodexWorker), and the control-socket handler    *)
(* that binds, reuses and unbinds.  bindingMu serialises the accesses to   *)
(* the file; the worker holds it only for single steps, a bind holds it    *)
(* across its probe of the app server.  The worker keeps a local copy of   *)
(* the binding for a whole batch, and this copy goes stale.                *)
(*                                                                         *)
(* The app server is external: each request it is sent is accepted,        *)
(* refused, or left without an answer.                                     *)
(***************************************************************************)
EXTENDS Integers, Sequences

CONSTANTS
  Session,    \* session IDs a supervisor of this home is started with
  Routes,     \* routes (thread and subscriptions) a bind asks for
  Kinds,      \* kinds of records that reach messages.jsonl
  MaxLog,     \* bound: records ever appended
  MaxBind,    \* bound: bindings ever created
  MaxFaults   \* bound: crashes, lost answers, ambiguous errors, failed saves

(* What the delivery filter tells apart in a stored record.  "channel" is
   a channel line without our nick, "mention" one with it, "self" our own
   echo, "legacy" a direct message without an event ID, "corrupt" a complete
   line that is not JSON (two writes glued together by a crash). *)
Kind == {"direct", "mention", "channel", "self", "legacy", "corrupt"}

Route == [thread : STRING, subscribed : BOOLEAN, mention : BOOLEAN]

ASSUME KindsAssumption == Kinds \subseteq Kind
ASSUME RoutesAssumption == Routes \subseteq Route
ASSUME BoundsAssumption == MaxLog \in Nat /\ MaxBind \in Nat /\ MaxFaults \in Nat

VARIABLES
  log,       \* messages.jsonl: the records, oldest first
  file,      \* codex-binding.json
  session,   \* m.State.SessionID of the running supervisor
  pc,        \* where the worker is; "down" when there is no supervisor
  w,         \* the worker's local copy of the binding
  last,      \* index of the last record of the worker's batch
  failure,   \* what a failed delivery was: "plain", or "steer" for an RPC error
  lock,      \* the per-thread flock: "free", "worker", or "other" supervisor
  request,   \* the RPC the worker waits for
  reply,     \* the app server's answer to it
  probe,     \* the bind that holds bindingMu while it probes the thread
  accepted,  \* app server: times each record was accepted under file.id
  late,      \* requests under file.id whose sender gave up, still in the socket
  origin,    \* auxiliary: the cursor file.id was created with
  faults     \* bound counter

vars == <<log, file, session, pc, w, last, failure, lock, request, reply,
          probe, accepted, late, origin, faults>>

worker == <<pc, w, last, failure, lock, request, reply>>
server == <<accepted, late, origin>>

Index == 1..MaxLog

NoRoute == [thread |-> "", subscribed |-> FALSE, mention |-> FALSE]

NoBinding == [id |-> 0, session |-> "", route |-> NoRoute, enabled |-> FALSE,
              offset |-> 0, blocked |-> FALSE, noStart |-> FALSE]
NoRequest == [id |-> 0, index |-> 0, method |-> ""]
NoProbe   == [held |-> FALSE, route |-> NoRoute, offset |-> 0,
              required |-> FALSE, reuse |-> FALSE]
Zero      == [i \in Index |-> 0]

(* One more occurrence of record i. *)
CountedIn(count, i) == [count EXCEPT ![i] = @ + 1]

(* bindingMu is free: no bind is between its stat and its save. *)
MuFree == ~probe.held

Up == pc # "down"

(* codexBindingMatches: a rebind makes a new ID, a reuse keeps it. *)
Matches(b, c) ==
  /\ b.id = c.id
  /\ b.session = c.session
  /\ b.route.thread = c.route.thread

(* Slip: the recheck looks at the enabled flag and not at the generation. *)
CurrentEnabledOnly == file.enabled /\ file.session = session

(* codexBindingCurrent, and the check of authorizeCodexDispatch. *)
Current == file.enabled /\ Matches(file, w) /\ file.session = session

(* Slip: progress is saved into whatever binding is enabled. *)
SavableEnabledOnly == file.enabled

(* The check under which progress and failures are saved. *)
Savable == file.enabled /\ Matches(file, w)

(* addressedTo, for the classes of records that Kind distinguishes. *)
AddressedTo(kind, route) ==
  \/ kind \in {"direct", "legacy"}
  \/ kind \in {"channel", "mention"} /\ route.subscribed
  \/ kind = "mention" /\ route.mention

(* Slip: undecodable records are skipped, as ReadMessages does. *)
ReadEndSkipsBad(from, n) == from <= Len(log) /\ n = Len(log)

(* Where ReadCompleteMessageRecords stops: at the end of the log or before
   the first record that does not decode. *)
IsReadEnd(from, n) ==
  /\ n \in from..Len(log)
  /\ \A i \in from+1..n : log[i] # "corrupt"
  /\ n < Len(log) => log[n+1] = "corrupt"

(* The four ways the binding file is rewritten in place. *)
Advanced(b, offset) == [b EXCEPT !.offset = offset]
Acknowledged(b, offset) ==
  [b EXCEPT !.offset = offset, !.blocked = FALSE, !.noStart = FALSE]
Blocked(b, kind) ==
  [b EXCEPT !.blocked = TRUE, !.noStart = @ \/ kind = "steer"]
Disabled(b) == [b EXCEPT !.enabled = FALSE]

At == w.offset + 1             \* the record the worker is at

(* The record loop goes on with the next record of the batch, or ends. *)
AfterRecord(offset) == IF offset < last THEN "next" ELSE "wait"

----------------------------------------------------------------------------
Init ==
  /\ log = <<>>
  /\ file = NoBinding
  /\ session \in Session
  /\ pc = "wait" /\ w = NoBinding /\ last = 0 /\ failure = "plain"
  /\ lock = "free"
  /\ request = NoRequest /\ reply = "none"
  /\ probe = NoProbe
  /\ accepted = Zero /\ late = Zero /\ origin = 0
  /\ faults = 0

(* The worker goes to p; locals it does not assign keep their values. *)
Goto(p) == pc' = p

(* A fault happens, within the bound. *)
Fault == faults < MaxFaults /\ faults' = faults + 1

NoFault == faults' = faults

----------------------------------------------------------------------------
(* The IRC reader: OnMessage appends one record.  It wakes the worker, which
   also polls, so a lost wake-up only costs time and is not modelled. *)
StoreMessage(kind) ==
  /\ Up /\ Len(log) < MaxLog
  /\ log' = Append(log, kind)
  /\ UNCHANGED <<file, session, worker, probe, server, faults>>

----------------------------------------------------------------------------
(* The delivery worker. *)

(* Wake or tick: load the binding; a disabled one, or one that belongs to
   another session, sends the worker back to sleep. *)
LoadBinding ==
  /\ pc = "wait" /\ MuFree
  /\ file.enabled /\ file.session = session
  /\ w' = file
  /\ Goto("read")
  /\ UNCHANGED <<log, file, session, last, failure, lock, request, reply,
                 probe, server, faults>>

(* Read every complete, decodable record past the copied cursor. *)
ReadRecords ==
  /\ pc = "read"
  /\ \E n \in w.offset..Len(log) :
       /\ IsReadEnd(w.offset, n)
       /\ last' = n
       /\ Goto(IF n = w.offset THEN "wait" ELSE "next")
  /\ UNCHANGED <<log, file, session, w, failure, lock, request, reply,
                 probe, server, faults>>

(* Slip: the filter forgets that a binding may want mentions. *)
FilterRecordDropsMentions ==
  /\ pc = "next" /\ MuFree
  /\ ~AddressedTo(log[At], [w.route EXCEPT !.mention = FALSE])
  /\ IF Savable
       THEN /\ file' = Advanced(file, At)
            /\ w' = Advanced(w, At)
            /\ Goto(AfterRecord(At))
       ELSE Goto("wait") /\ UNCHANGED <<file, w>>
  /\ UNCHANGED <<log, session, last, failure, lock, request, reply, probe,
                 server, faults>>

(* A record that is not addressed to us: advance the cursor in the file and
   in the local copy, or end the batch when the binding is not ours any more. *)
FilterRecord ==
  /\ pc = "next" /\ MuFree
  /\ ~AddressedTo(log[At], w.route)
  /\ IF Savable
       THEN /\ file' = Advanced(file, At)
            /\ w' = Advanced(w, At)
            /\ Goto(AfterRecord(At))
       ELSE Goto("wait") /\ UNCHANGED <<file, w>>
  /\ UNCHANGED <<log, session, last, failure, lock, request, reply, probe,
                 server, faults>>

(* No event ID, or an error on the lock file: the batch ends, the cursor
   stays. *)
GiveUpRecord ==
  /\ pc = "next" /\ AddressedTo(log[At], w.route)
  /\ \/ log[At] = "legacy" /\ NoFault
     \/ log[At] # "legacy" /\ Fault
  /\ Goto("wait")
  /\ UNCHANGED <<log, file, session, w, last, failure, lock, request, reply,
                 probe, server>>

(* lockThreadWith: waits as long as another supervisor serves the thread. *)
LockThread ==
  /\ pc = "next" /\ AddressedTo(log[At], w.route) /\ log[At] # "legacy"
  /\ lock = "free"
  /\ lock' = "worker"
  /\ Goto("locked")
  /\ UNCHANGED <<log, file, session, w, last, failure, request, reply, probe,
                 server, faults>>

(* Slip: the early exit forgets to release the lock. *)
RecheckLeaksLock ==
  /\ pc = "locked" /\ MuFree
  /\ Goto(IF Current THEN "inspect" ELSE "wait")
  /\ UNCHANGED <<log, file, session, w, last, failure, lock, request, reply,
                 probe, server, faults>>

(* The wait for the lock may have been long: check the binding again. *)
Recheck ==
  /\ pc = "locked" /\ MuFree
  /\ IF Current
       THEN Goto("inspect") /\ lock' = lock
       ELSE Goto("wait") /\ lock' = "free"
  /\ UNCHANGED <<log, file, session, w, last, failure, request, reply, probe,
                 server, faults>>

(* Deliver returned an error: the lock is released, the failure is to be
   saved.  Every such exit keeps the cursor. *)
Fail(kind) ==
  /\ Goto("failed") /\ failure' = kind
  /\ lock' = "free"
  /\ request' = NoRequest /\ reply' = "none"

(* Deliver connects and reads the thread. *)
InspectIdle ==
  /\ pc = "inspect"
  /\ IF w.noStart
       THEN Fail("plain")
       ELSE Goto("start") /\ UNCHANGED <<failure, lock, request, reply>>
  /\ UNCHANGED <<log, file, session, w, last, probe, server, faults>>

InspectActive ==
  /\ pc = "inspect"
  /\ Goto("steer")
  /\ UNCHANGED <<log, file, session, w, last, failure, lock, request, reply,
                 probe, server, faults>>

InspectFails ==
  /\ pc \in {"inspect", "reinspect"}
  /\ Fail("plain")
  /\ UNCHANGED <<log, file, session, w, last, probe, server, faults>>

(* After a steer that found no active turn, the thread must read idle. *)
ReinspectIdle ==
  /\ pc = "reinspect"
  /\ Goto("fallback")
  /\ UNCHANGED <<log, file, session, w, last, failure, lock, request, reply,
                 probe, server, faults>>

MethodAt(p) == IF p = "steer" THEN "turn/steer" ELSE "turn/start"

(* authorizeCodexDispatch: the binding is checked and the request written
   in one critical section; a changed binding ends the batch and records no
   failure. *)
Dispatch ==
  /\ pc \in {"start", "steer", "fallback"} /\ MuFree
  /\ IF Current
       THEN /\ request' = [id |-> w.id, index |-> At, method |-> MethodAt(pc)]
            /\ Goto("sent") /\ lock' = lock
       ELSE /\ request' = NoRequest
            /\ Goto("wait") /\ lock' = "free"
  /\ UNCHANGED <<log, file, session, w, last, failure, reply, probe, server,
                 faults>>

(* The connection breaks before the request is written. *)
DispatchFails ==
  /\ pc \in {"start", "steer", "fallback"} /\ MuFree /\ Current
  /\ Fault /\ Fail("plain")
  /\ UNCHANGED <<log, file, session, w, last, probe, server>>

(* The answer "no active turn to steer" (isIdleSteerRace). *)
ReceiveRace ==
  /\ pc = "sent" /\ reply = "race"
  /\ Goto("reinspect")
  /\ request' = NoRequest /\ reply' = "none"
  /\ UNCHANGED <<log, file, session, w, last, failure, lock, probe, server,
                 faults>>

ReceiveError ==
  /\ pc = "sent" /\ reply = "error"
  /\ Fail(IF request.method = "turn/steer" THEN "steer" ELSE "plain")
  /\ UNCHANGED <<log, file, session, w, last, probe, server, faults>>

ReceiveAck ==
  /\ pc = "sent" /\ reply = "ok"
  /\ Goto("acked")
  /\ lock' = "free"
  /\ request' = NoRequest /\ reply' = "none"
  /\ UNCHANGED <<log, file, session, w, last, failure, probe, server, faults>>

(* The sender of the pending request gives up.  If the app server has not
   handled the request yet, it still may. *)
Abandon ==
  late' = IF request.id = file.id /\ request.id # 0 /\ reply = "none"
            THEN CountedIn(late, request.index)
            ELSE late

(* The read deadline passes, the connection breaks, or the answer carries
   no turn ID. *)
ReplyLost ==
  /\ pc = "sent" /\ Fault
  /\ Fail("plain")
  /\ Abandon
  /\ UNCHANGED <<log, file, session, w, last, probe, accepted, origin>>

(* Slip: only the local copy advances. *)
SaveAckCopyOnly ==
  /\ pc = "acked" /\ MuFree
  /\ w' = Advanced(w, At) /\ Goto(AfterRecord(At))
  /\ UNCHANGED <<log, file, session, last, failure, lock, request, reply,
                 probe, server, faults>>

(* saveCodexProgress with acknowledged = true.  The copy w keeps its noStart
   for the rest of the batch. *)
SaveAck ==
  /\ pc = "acked" /\ MuFree
  /\ IF Savable
       THEN /\ file' = Acknowledged(file, At)
            /\ w' = Advanced(w, At)
            /\ Goto(AfterRecord(At))
       ELSE Goto("wait") /\ UNCHANGED <<file, w>>
  /\ UNCHANGED <<log, session, last, failure, lock, request, reply, probe,
                 server, faults>>

(* Slip: a failed record is retried in place, with the old copy. *)
SaveFailureRetries ==
  /\ pc = "failed" /\ MuFree
  /\ file' = IF Savable THEN Blocked(file, failure) ELSE file
  /\ Goto("next")
  /\ UNCHANGED <<log, session, w, last, failure, lock, request, reply, probe,
                 server, faults>>

(* Slip: a failed record is passed over for the rest of the batch. *)
SaveFailurePassesOver ==
  /\ pc = "failed" /\ MuFree
  /\ w' = Advanced(w, At) /\ Goto(AfterRecord(At))
  /\ UNCHANGED <<log, file, session, last, failure, lock, request, reply,
                 probe, server, faults>>

(* Slip: the failure is only logged. *)
SaveFailureOnlyLogs ==
  /\ pc = "failed" /\ Goto("wait")
  /\ UNCHANGED <<log, file, session, w, last, failure, lock, request, reply,
                 probe, server, faults>>

(* saveCodexDeliveryFailure; the batch ends in any case. *)
SaveFailure ==
  /\ pc = "failed" /\ MuFree
  /\ file' = IF Savable THEN Blocked(file, failure) ELSE file
  /\ Goto("wait")
  /\ UNCHANGED <<log, session, w, last, failure, lock, request, reply, probe,
                 server, faults>>

(* A save fails on I/O: the file keeps its contents, the batch ends. *)
SaveFails ==
  /\ \/ pc \in {"acked", "failed"}
     \/ pc = "next" /\ ~AddressedTo(log[At], w.route)
  /\ MuFree /\ Fault
  /\ Goto("wait")
  /\ UNCHANGED <<log, file, session, w, last, failure, lock, request, reply,
                 probe, server>>

----------------------------------------------------------------------------
(* The app server handles the pending request.  An acceptance counts for the
   binding in force only when that binding sent the request. *)
Accept ==
  accepted' = IF request.id = file.id
                THEN CountedIn(accepted, request.index)
                ELSE accepted

Pending == pc = "sent" /\ reply = "none"

ServerAccepts ==
  /\ Pending /\ Accept
  /\ reply' = "ok"
  /\ UNCHANGED <<log, file, session, pc, w, last, failure, lock, request,
                 probe, late, origin, faults>>

ServerFindsNoTurn ==
  /\ Pending /\ request.method = "turn/steer"
  /\ reply' = "race"
  /\ UNCHANGED <<log, file, session, pc, w, last, failure, lock, request,
                 probe, server, faults>>

ServerRefuses ==
  /\ Pending
  /\ reply' = "error"
  /\ UNCHANGED <<log, file, session, pc, w, last, failure, lock, request,
                 probe, server, faults>>

(* An error answer to a request that took effect all the same. *)
ServerAcceptsAndFails ==
  /\ Pending /\ Fault /\ Accept
  /\ reply' = "error"
  /\ UNCHANGED <<log, file, session, pc, w, last, failure, lock, request,
                 probe, late, origin>>

(* A request whose sender gave up is handled, or dropped. *)
LateRequest(i) ==
  /\ late[i] > 0
  /\ late' = [late EXCEPT ![i] = @ - 1]
  /\ \/ accepted' = CountedIn(accepted, i)
     \/ accepted' = accepted
  /\ UNCHANGED <<log, file, session, worker, probe, origin, faults>>

----------------------------------------------------------------------------
(* Other supervisors that serve the same thread take and release its flock. *)
OtherLocks ==
  /\ lock = "free" /\ lock' = "other"
  /\ UNCHANGED <<log, file, session, pc, w, last, failure, request, reply,
                 probe, server, faults>>

OtherUnlocks ==
  /\ lock = "other" /\ lock' = "free"
  /\ UNCHANGED <<log, file, session, pc, w, last, failure, request, reply,
                 probe, server, faults>>

----------------------------------------------------------------------------
(* Control requests.  A bind starts at the end of the log, or at its
   beginning with replay; the position is taken before the probe, and
   bindingMu is held until the bind ends.  StartProbePastEnd is a slip: one
   record too far. *)
StartProbePastEnd(route, replay, required, reuse) ==
  probe' = [held |-> TRUE, route |-> route, required |-> required,
            reuse |-> reuse, offset |-> IF replay THEN 0 ELSE Len(log) + 1]

StartProbe(route, replay, required, reuse) ==
  probe' = [held |-> TRUE, route |-> route, required |-> required,
            reuse |-> reuse, offset |-> IF replay THEN 0 ELSE Len(log)]

BindBegin(route, replay, required) ==
  /\ Up /\ MuFree /\ file.id < MaxBind
  /\ StartProbe(route, replay, required, FALSE)
  /\ UNCHANGED <<log, file, session, worker, server, faults>>

SameRoute(route) == file.session = session /\ file.route = route

(* bind --if-needed: an enabled binding with the same route is only probed; a
   conflicting one is refused at once, without effect; without an enabled
   binding it is an ordinary bind that requires the thread. *)
ReuseBegin(route) ==
  /\ Up /\ MuFree /\ file.id < MaxBind
  /\ file.enabled => SameRoute(route)
  /\ StartProbe(route, FALSE, TRUE, file.enabled)
  /\ UNCHANGED <<log, file, session, worker, server, faults>>

(* The binding the pending bind saves, once its probe ended. *)
NewBinding(available) ==
  [id |-> file.id + 1, session |-> session, route |-> probe.route,
   enabled |-> TRUE, offset |-> probe.offset, blocked |-> ~available,
   noStart |-> FALSE]

(* The probe ends and the bind is saved; a new binding starts with a clean
   record of acceptances. *)
BindSave(available) ==
  /\ probe.held /\ ~probe.reuse
  /\ probe.required => available
  /\ file' = NewBinding(available)
  /\ origin' = probe.offset /\ accepted' = Zero /\ late' = Zero
  /\ probe' = NoProbe
  /\ UNCHANGED <<log, session, worker, faults>>

(* The bind ends without a new binding: the route is reused, or a required
   thread is not available, or the save fails. *)
BindKeep ==
  /\ probe.held
  /\ probe' = NoProbe
  /\ UNCHANGED <<log, file, session, worker, server, faults>>

(* Slip: unbind does not wait for the bind in progress. *)
UnbindUnlocked ==
  /\ Up /\ file.id # 0
  /\ file' = Disabled(file)
  /\ UNCHANGED <<log, session, worker, probe, server, faults>>

Unbind ==
  /\ Up /\ MuFree /\ file.id # 0
  /\ file' = Disabled(file)
  /\ UNCHANGED <<log, session, worker, probe, server, faults>>

----------------------------------------------------------------------------
(* The supervisor process ends at any point, killed or stopped.  Its locks
   are released with it, a pending bind is lost, a written request is not. *)
SupervisorEnds ==
  /\ Up /\ Fault
  /\ Goto("down")
  /\ lock' = IF lock = "worker" THEN "free" ELSE lock
  /\ Abandon
  /\ request' = NoRequest /\ reply' = "none"
  /\ probe' = NoProbe
  /\ UNCHANGED <<log, file, session, w, last, failure, accepted, origin>>

(* A new supervisor of the same home, for the same session or for one that
   took the home over. *)
SupervisorStarts(s) ==
  /\ pc = "down"
  /\ Goto("wait")
  /\ session' = s
  /\ UNCHANGED <<log, file, w, last, failure, lock, request, reply, probe,
                 server, faults>>

----------------------------------------------------------------------------
WorkerStep ==
  \/ LoadBinding \/ ReadRecords \/ FilterRecord \/ GiveUpRecord
  \/ LockThread \/ Recheck \/ InspectIdle \/ InspectActive \/ InspectFails
  \/ ReinspectIdle \/ Dispatch \/ DispatchFails \/ ReceiveRace
  \/ ReceiveError \/ ReceiveAck \/ ReplyLost \/ SaveAck \/ SaveFailure
  \/ SaveFails

ServerStep ==
  \/ ServerAccepts \/ ServerFindsNoTurn \/ ServerRefuses
  \/ ServerAcceptsAndFails \/ \E i \in Index : LateRequest(i)

ControlStep ==
  \/ \E r \in Routes, replay, required \in BOOLEAN : BindBegin(r, replay, required)
  \/ \E r \in Routes : ReuseBegin(r)
  \/ \E available \in BOOLEAN : BindSave(available)
  \/ BindKeep \/ Unbind

EnvironmentStep ==
  \/ \E k \in Kinds : StoreMessage(k)
  \/ OtherLocks \/ OtherUnlocks
  \/ SupervisorEnds \/ \E s \in Session : SupervisorStarts(s)

Next == WorkerStep \/ ServerStep \/ ControlStep \/ EnvironmentStep

Spec == Init /\ [][Next]_vars

----------------------------------------------------------------------------
(* Properties. *)

Binding == [id : 0..MaxBind, session : Session \cup {""},
            route : Routes \cup {NoRoute}, enabled : BOOLEAN,
            offset : 0..MaxLog, blocked : BOOLEAN, noStart : BOOLEAN]
Request == [id : 0..MaxBind, index : 0..MaxLog,
            method : {"", "turn/start", "turn/steer"}]
Probe == [held : BOOLEAN, route : Routes \cup {NoRoute}, offset : 0..MaxLog,
          required : BOOLEAN, reuse : BOOLEAN]

InDelivery == {"locked", "inspect", "start", "steer", "fallback", "sent",
               "reinspect"}
AtRecord   == InDelivery \cup {"next", "acked", "failed"}

(* Every variable keeps its type: in particular no cursor, batch end or
   request index ever points outside the log. *)
TypeOK ==
  /\ log \in Seq(Kind) /\ Len(log) \in 0..MaxLog
  /\ file \in Binding /\ file.offset <= Len(log)
  /\ session \in Session
  /\ pc \in {"down", "wait", "read"} \cup AtRecord
  /\ w \in Binding /\ w.offset <= Len(log)
  /\ last \in 0..Len(log)
  /\ failure \in {"plain", "steer"}
  /\ lock \in {"free", "worker", "other"}
  /\ request \in Request
  /\ reply \in {"none", "ok", "race", "error"}
  /\ probe \in Probe /\ probe.offset <= Len(log)
  /\ accepted \in [Index -> Nat]
  /\ late \in [Index -> Nat]
  /\ origin \in 0..MaxLog
  /\ faults \in 0..MaxFaults

(* The records between two positions that the binding in force must hand to
   Codex. *)
Wanted(from, to) ==
  {i \in Index : from < i /\ i <= to /\ i <= Len(log)
                   /\ AddressedTo(log[i], file.route)}

(* NoLoss: the saved cursor of the binding in force only passes a record
   addressed to the session after the app server accepted it under that
   binding, whatever rebinds, restarts and stale copies came in between
   (saveCodexProgress). *)
NoLoss == \A i \in Wanted(origin, file.offset) : accepted[i] > 0

(* PoisonHolds: the cursor never passes a record without an event ID that is
   addressed to us, nor one that does not decode; they are retained for
   inspection (runCodexWorker, ReadCompleteMessageRecords). *)
PoisonHolds ==
  \A i \in Index :
    origin < i /\ i <= file.offset =>
      log[i] # "corrupt" /\ i \notin {j \in Wanted(origin, file.offset) : log[j] = "legacy"}

(* InOrder: what the app server accepts, and what is still on its way to it,
   comes in the order of the log: before a record goes out, every earlier
   one the binding wants was accepted at least once. *)
InOrder ==
  \A i \in Index :
    accepted[i] > 0 \/ late[i] > 0 \/ (pc = "sent" /\ request.id = file.id /\ request.index = i)
      => \A j \in Wanted(origin, i - 1) : accepted[j] > 0

(* BoundedCopies: at least once becomes more than once only by a fault: a
   lost answer, a crash, an ambiguous error or a failed save each cost at
   most one more copy. *)
BoundedCopies == \A i \in Index : accepted[i] <= 1 + faults

(* CursorMonotone: within one binding the saved cursor never moves back, and
   a binding that was replaced never comes back. *)
CursorMonotone ==
  [][ /\ file'.id >= file.id
      /\ file'.id = file.id => file'.offset >= file.offset ]_vars

(* DispatchIsHead: whenever a request leaves, the stale copy the worker acts
   on still describes the binding on disk: that binding is enabled, belongs
   to the running session, wants the record sent, and has every record up to
   it behind its cursor. *)
DispatchIsHead ==
  [][ request' # request /\ request' # NoRequest =>
        /\ file.enabled /\ file.session = session
        /\ request'.id = file.id
        /\ request'.index = file.offset + 1
        /\ AddressedTo(log[request'.index], file.route)
        /\ log[request'.index] # "legacy" ]_vars

(* NoStartWhileFlagged: once an unclassified turn/steer failure is on disk,
   no turn is started from an idle reading until an acknowledgement or a
   rebind clears it: the flag the worker copied is never older than the
   file's (Deliver, saveCodexDeliveryFailure). *)
NoStartWhileFlagged ==
  [][ pc = "start" /\ pc' = "sent" => ~file.noStart ]_vars

(* ReuseIsTruthful: while bind --if-needed probes the thread for a binding
   it found, that binding stays in force with the requested route, so the
   success it reports is true when it is reported (bindCodexWithReuse). *)
ReuseIsTruthful ==
  probe.held /\ probe.reuse => file.enabled /\ SameRoute(probe.route)

(* Promise: all of it implements the at-least-once queue. *)
Queue == INSTANCE AtLeastOnceQueue WITH
  Record <- Kind, Wants <- AddressedTo, id <- file.id, route <- file.route,
  cursor <- file.offset, accepted <- {i \in Index : accepted[i] > 0}

Promise == Queue!Spec

----------------------------------------------------------------------------
(* Fairness.  The worker is a goroutine of its own with a two-second ticker;
   its calls have deadlines.  The Go mutex and the kernel's flock hand over
   to waiters, so a worker that keeps finding them free in between gets
   them (strong fairness).  A bind ends: its probe has a deadline. *)
MuStep == LoadBinding \/ FilterRecord \/ Recheck \/ Dispatch \/ SaveAck \/ SaveFailure

Inspect == InspectIdle \/ InspectActive \/ InspectFails

(* The pending call ends: answered, or given up. *)
CallEnds == ServerAccepts \/ ServerFindsNoTurn \/ ServerRefuses

Scheduling ==
  /\ WF_vars(ReadRecords) /\ SF_vars(MuStep) /\ SF_vars(LockThread)
  /\ WF_vars(Inspect \/ ReinspectIdle)
  /\ WF_vars(ReceiveRace \/ ReceiveError \/ ReceiveAck)
  /\ WF_vars(CallEnds)
  /\ WF_vars(\E available \in BOOLEAN : BindSave(available) \/ BindKeep)
  /\ WF_vars(OtherUnlocks)

(* Assumed of the app server: a thread that is read again and again is now
   and then loaded, and requests are not refused for ever. *)
ServerCooperates ==
  /\ SF_vars(InspectIdle \/ InspectActive)
  /\ SF_vars(ServerAccepts)

FairSpec == Spec /\ Scheduling

(* Record i is pending under binding k, and nothing before it is stuck. *)
PendingUnder(k, i) ==
  /\ Up /\ file.id = k /\ file.enabled /\ file.session = session
  /\ i \in Wanted(file.offset, Len(log))
  /\ \A j \in origin+1..i : log[j] \notin {"corrupt", "legacy"}

(* The user or the session changed what the supervisor works for. *)
Superseded(k) == ~Up \/ file.id # k \/ ~file.enabled \/ file.session # session

(* PendingIsDelivered: with a cooperating app server every pending record is
   eventually accepted, unless the binding is superseded or an unclassified
   steer failure is recorded, which holds back turns on an idle thread. *)
PendingIsDelivered ==
  ServerCooperates =>
    \A k \in 1..MaxBind, i \in Index :
      PendingUnder(k, i) ~> accepted[i] > 0 \/ Superseded(k) \/ file.noStart

(* FailureIsVisible: whatever the app server does, a pending record is
   eventually accepted or the binding shows that its delivery is blocked
   (saveCodexDeliveryFailure). *)
FailureIsVisible ==
  \A k \in 1..MaxBind, i \in Index :
    PendingUnder(k, i) ~> accepted[i] > 0 \/ Superseded(k) \/ file.blocked
=============================================================================
