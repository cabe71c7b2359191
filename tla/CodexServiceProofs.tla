------------------------ MODULE CodexServiceProofs -------------------------
(***************************************************************************)
(* Proofs about CodexService: its types, that a service home has one app   *)
(* server, that no call touches the recorded server while it lives, and    *)
(* that a call reports the server it reached; for any number of callers,   *)
(* servers, calls and faults.                                              *)
(***************************************************************************)
EXTENDS CodexService, TLAPS

(* A caller knows of a server it started exactly until it gives the lock
   back. *)
Held == \A c \in Caller : call[c].started # 0 <=> call[c].at \in Starting

(* What is recorded, and what a caller started, was a process once: a new
   process is neither. *)
Born ==
  /\ record.of # 0 => server[record.of].at # "unborn"
  /\ \A c \in Caller : call[c].started # 0 => server[call[c].started].at # "unborn"

(* Of s the callers expect nothing any more. *)
Past(s) == Live(s) => s \in abandoned

(* Past the decision to start a server, the recorded one is dead or was
   taken for dead. *)
Clear == \A c \in Caller : call[c].at \in {"launch"} \cup Starting => Past(record.of)

(* So is the started one when the socket is removed. *)
Dead == \A c \in Caller : call[c].at = "unlink" => Past(call[c].started)

(* What answered is a server, and the one that the caller is to report. *)
Met ==
  \A c \in Caller :
    /\ call[c].at \in {"check", "write"} => call[c].met # 0
    /\ abandoned = {} => /\ call[c].at = "check" => call[c].met = record.of
                         /\ call[c].at = "write" => call[c].met = call[c].started

IInv == TypeOK /\ Held /\ Born /\ Clear /\ Dead /\ OneServer /\ Met

Place == {"idle", "lock", "reused", "started"} \cup Locked \cup Starting

CallRecord == [at : Place, started : 0..MaxServers, met : 0..MaxServers]

(* Only c moves: to a place, with the server it started and the one it met. *)
Moves(c, at, started, met) ==
  /\ call' \in [Caller -> CallRecord]
  /\ call'[c].at = at /\ call'[c].started = started /\ call'[c].met = met
  /\ \A d \in Caller : d # c => call'[d] = call[d]

LEMMA CallFields ==
  ASSUME TypeOK
  PROVE  /\ call \in [Caller -> CallRecord]
         /\ \A c \in Caller :
              /\ call[c].at \in Place
              /\ call[c].started \in 0..MaxServers /\ call[c].met \in 0..MaxServers
         /\ 0 \in 0..MaxServers
BY BoundsAssumption DEF TypeOK, Place, CallRecord

(* What an update of one field of a caller does. *)
LEMMA AtUpdate ==
  ASSUME NEW A, NEW N, NEW f \in [Caller -> [at : A, started : N, met : N]],
         NEW g, NEW c \in Caller, NEW x \in A, g = [f EXCEPT ![c].at = x]
  PROVE  /\ g \in [Caller -> [at : A, started : N, met : N]]
         /\ g[c].at = x /\ g[c].started = f[c].started /\ g[c].met = f[c].met
         /\ \A d \in Caller : d # c => g[d] = f[d]
OBVIOUS

LEMMA GotoMoves ==
  ASSUME TypeOK, NEW c \in Caller, NEW at \in Place, Goto(c, at)
  PROVE  Moves(c, at, call[c].started, call[c].met)
<1>1. /\ call \in [Caller -> CallRecord] /\ call' = [call EXCEPT ![c].at = at]
  BY CallFields DEF Goto
<1> QED BY <1>1, AtUpdate DEF Moves, CallRecord

LEMMA LaunchMoves ==
  ASSUME TypeOK, NEW c \in Caller, NEW at \in Place, NEW s \in 0..MaxServers,
         call' = [call EXCEPT ![c].at = at, ![c].started = s]
  PROVE  Moves(c, at, s, call[c].met)
<1> DEFINE N == 0..MaxServers
<1>1. call \in [Caller -> [at : Place, started : N, met : N]] /\ s \in N
  BY CallFields DEF CallRecord
<1> HIDE DEF N
<1>2. /\ call' \in [Caller -> [at : Place, started : N, met : N]]
      /\ call'[c].at = at /\ call'[c].started = s /\ call'[c].met = call[c].met
      /\ \A d \in Caller : d # c => call'[d] = call[d]
  BY <1>1
<1> QED BY <1>2 DEF Moves, CallRecord, N

LEMMA EndMoves ==
  ASSUME TypeOK, NEW c \in Caller, NEW at \in Place, End(c, at)
  PROVE  Moves(c, at, 0, call[c].met) /\ lock' = Nobody
BY CallFields, LaunchMoves DEF End

LEMMA MeetMoves ==
  ASSUME TypeOK, NEW c \in Caller, NEW at \in Place, NEW s \in 0..MaxServers,
         call' = [call EXCEPT ![c].at = at, ![c].met = s]
  PROVE  Moves(c, at, call[c].started, s)
<1> DEFINE N == 0..MaxServers
<1>1. call \in [Caller -> [at : Place, started : N, met : N]] /\ s \in N
  BY CallFields DEF CallRecord
<1> HIDE DEF N
<1>2. /\ call' \in [Caller -> [at : Place, started : N, met : N]]
      /\ call'[c].at = at /\ call'[c].started = call[c].started /\ call'[c].met = s
      /\ \A d \in Caller : d # c => call'[d] = call[d]
  BY <1>1
<1> QED BY <1>2 DEF Moves, CallRecord, N

LEMMA IdleMoves ==
  ASSUME TypeOK, NEW c \in Caller, call' = [call EXCEPT ![c] = Idle]
  PROVE  Moves(c, "idle", 0, 0)
BY CallFields DEF Moves, CallRecord, Idle, Place

(* The lock goes with the caller's place. *)
LockFollows(c, at) ==
  /\ lock' = IF at \in Locked \cup Starting THEN c ELSE IF lock = c THEN Nobody ELSE lock
  /\ at \in Locked \cup Starting => lock \in {c, Nobody}

(* The other variables keep their types. *)
OthersTyped ==
  /\ record' \in [of : 0..MaxServers, account : Account]
  /\ socket' \in [of : 0..MaxServers, private : BOOLEAN]
  /\ server' \in [Server -> [at : {"unborn", "starting", "serving", "hung", "gone", "killed"},
                            account : Account]]
  /\ calls' \in 0..MaxCalls /\ abandoned' \subseteq Server /\ faults' \in 0..MaxFaults

LEMMA MoveTypes ==
  ASSUME TypeOK, NEW c \in Caller, NEW at \in Place, NEW started, NEW met,
         Moves(c, at, started, met), LockFollows(c, at), OthersTyped
  PROVE  TypeOK'
<1>1. lock' \in Caller \cup {Nobody}
  BY DEF LockFollows, TypeOK
<1>2. ASSUME NEW d \in Caller PROVE (lock = d <=> call[d].at \in Locked \cup Starting)'
  <2>1. lock = d <=> call[d].at \in Locked \cup Starting
    BY DEF TypeOK
  <2>2. d # Nobody /\ c # Nobody
    BY NobodyAssumption
  <2>3. CASE d = c
    BY <2>2, <2>3 DEF LockFollows, Moves
  <2>4. CASE d # c
    BY <2>1, <2>2, <2>4 DEF LockFollows, Moves
  <2> QED BY <2>3, <2>4
<1>3. call' \in [Caller -> CallRecord]
  BY DEF Moves
<1> QED BY <1>1, <1>2, <1>3 DEF TypeOK, OthersTyped, CallRecord, Place

(* One caller moves and nothing happens to servers and record. *)
LEMMA QuietStep ==
  ASSUME IInv, NEW c \in Caller, NEW at \in Place, NEW started \in 0..MaxServers, NEW met,
         Moves(c, at, started, met), LockFollows(c, at), OthersTyped,
         UNCHANGED <<record, server>>, abandoned \subseteq abandoned',
         \/ started = call[c].started
         \/ started = 0 /\ (Live(call[c].started) => call[c].started \in abandoned'),
         started # 0 <=> at \in Starting,
         at \in {"launch"} \cup Starting => (Live(record.of) => record.of \in abandoned'),
         at = "unlink" => (Live(started) => started \in abandoned'),
         at \in {"check", "write"} => met # 0,
         abandoned' = {} => /\ at = "check" => met = record.of
                            /\ at = "write" => met = started
  PROVE  IInv'
<1>1. TypeOK'
  BY MoveTypes DEF IInv
<1>2. /\ call'[c].at = at /\ call'[c].started = started /\ call'[c].met = met
      /\ \A d \in Caller : d # c => call'[d] = call[d]
  BY DEF Moves
<1>3. record' = record /\ server' = server
  OBVIOUS
<1>4. Held'
  BY <1>2 DEF IInv, Held
<1>5. Born'
  BY <1>2, <1>3 DEF IInv, Born
<1>6. Clear'
  BY <1>2, <1>3 DEF IInv, Clear, Past, Live
<1>7. Dead'
  BY <1>2, <1>3 DEF IInv, Dead, Past, Live
<1>8. Met'
  BY <1>2, <1>3 DEF IInv, Met
<1>9. OneServer'
  <2> SUFFICES ASSUME NEW s \in Server, Live(s) PROVE s = Current' \/ s \in abandoned'
    BY <1>3 DEF OneServer, Live
  <2>1. s = Current \/ s \in abandoned
    BY DEF IInv, OneServer
  <2>2. c # Nobody /\ lock \in Caller \cup {Nobody} /\ s # 0
    BY NobodyAssumption DEF IInv, TypeOK, Server
  <2>3. \A d \in Caller : lock = d <=> call[d].at \in Locked \cup Starting
    BY DEF IInv, TypeOK
  <2>4. \A d \in Caller : call[d].started # 0 <=> call[d].at \in Starting
    BY DEF IInv, Held
  <2>5. CASE lock # c /\ at \notin Locked \cup Starting
    <3>1. lock' = lock /\ (lock # Nobody => call'[lock] = call[lock])
      BY <1>2, <2>2, <2>5 DEF LockFollows
    <3> QED BY <1>3, <2>1, <3>1 DEF Current
  <2>6. CASE lock = c /\ at \in Locked \cup Starting
    <3>1. lock' = c
      BY <2>6 DEF LockFollows
    <3> QED BY <1>2, <1>3, <2>1, <2>2, <2>6, <3>1 DEF Current
  <2>7. CASE lock = c /\ at \notin Locked \cup Starting
    <3>1. lock' = Nobody /\ started = 0
      BY <2>7 DEF LockFollows
    <3> QED BY <1>2, <1>3, <2>1, <2>2, <2>7, <3>1 DEF Current
  <2>8. CASE lock # c /\ at \in Locked \cup Starting
    <3>1. lock = Nobody /\ lock' = c /\ call[c].started = 0 /\ started = 0
      BY <2>3, <2>4, <2>8 DEF LockFollows
    <3> QED BY <1>2, <1>3, <2>1, <2>2, <3>1 DEF Current
  <2> QED BY <2>5, <2>6, <2>7, <2>8
<1> QED BY <1>1, <1>4, <1>5, <1>6, <1>7, <1>8, <1>9 DEF IInv

(* A step that moves on, on the same side of the lock and of the start. *)
LEMMA GotoStep ==
  ASSUME IInv, NEW c \in Caller, NEW at \in Place, Goto(c, at), OthersTyped,
         UNCHANGED <<lock, record, server>>, abandoned \subseteq abandoned',
         call[c].at \in Locked \cup Starting <=> at \in Locked \cup Starting,
         call[c].at \in Starting <=> at \in Starting,
         at = "launch" => (Live(record.of) => record.of \in abandoned'),
         at = "unlink" => (Live(call[c].started) => call[c].started \in abandoned'),
         at # "check", at # "write"
  PROVE  IInv'
<1>1. TypeOK /\ call[c].started \in 0..MaxServers
  BY CallFields DEF IInv
<1>2. Moves(c, at, call[c].started, call[c].met)
  BY <1>1, GotoMoves
<1>3. LockFollows(c, at)
  BY <1>1 DEF LockFollows, TypeOK
<1>4. call[c].started # 0 <=> at \in Starting
  BY DEF IInv, Held
<1>5. at \in {"launch"} \cup Starting => (Live(record.of) => record.of \in abandoned')
  BY DEF IInv, Clear, Past
<1> QED BY <1>1, <1>2, <1>3, <1>4, <1>5, QuietStep

(* A return: what the caller started is dead, or given up. *)
LEMMA EndStep ==
  ASSUME IInv, NEW c \in Caller, NEW at \in {"idle", "reused"}, End(c, at), OthersTyped,
         UNCHANGED <<record, server>>, abandoned \subseteq abandoned',
         call[c].at \in Locked \cup Starting,
         Live(call[c].started) => call[c].started \in abandoned'
  PROVE  IInv'
<1>1. TypeOK /\ 0 \in 0..MaxServers /\ at \in Place
  BY CallFields DEF IInv, Place
<1>2. Moves(c, at, 0, call[c].met) /\ lock' = Nobody
  BY <1>1, EndMoves
<1>3. at \notin Locked \cup Starting /\ at # "check" /\ at # "write" /\ at # "unlink"
      /\ at \notin {"launch"} \cup Starting
  BY DEF Locked, Starting
<1>4. LockFollows(c, at)
  BY <1>1, <1>2, <1>3 DEF LockFollows, TypeOK
<1> QED BY <1>1, <1>2, <1>3, <1>4, QuietStep

LEMMA BoundTypes ==
  ASSUME TypeOK
  PROVE  /\ Fault => faults' \in 0..MaxFaults
         /\ NoFault => faults' \in 0..MaxFaults
         /\ \A s : Found(s) \/ NotFound(s) => faults' \in 0..MaxFaults
         /\ calls < MaxCalls /\ calls' = calls + 1 => calls' \in 0..MaxCalls
<1>1. calls \in Nat /\ faults \in Nat /\ MaxCalls \in Nat /\ MaxFaults \in Nat
  BY BoundsAssumption DEF TypeOK
<1> QED BY <1>1 DEF TypeOK, Fault, NoFault, Found, NotFound

(* A server that a caller goes on without. *)
LEMMA AbandonTypes ==
  ASSUME TypeOK, NEW s \in 0..MaxServers, Abandons(s)
  PROVE  /\ abandoned \subseteq abandoned' /\ abandoned' \subseteq Server
         /\ Live(s) => s \in abandoned'
<1>1. Live(s) => s \in Server
  BY BoundsAssumption DEF Live, Server
<1> QED BY <1>1 DEF TypeOK, Abandons

LEMMA SocketTypes ==
  ASSUME TypeOK
  PROVE  /\ NoSocket \in [of : 0..MaxServers, private : BOOLEAN]
         /\ Private \in [of : 0..MaxServers, private : BOOLEAN]
         /\ Private.of = socket.of
<1>1. NoSocket \in [of : 0..MaxServers, private : BOOLEAN]
  BY BoundsAssumption DEF NoSocket
<1>2. socket \in [of : 0..MaxServers, private : BOOLEAN]
  BY DEF TypeOK
<1>3. /\ [socket EXCEPT !.private = TRUE] \in [of : 0..MaxServers, private : BOOLEAN]
      /\ [socket EXCEPT !.private = TRUE].of = socket.of
  BY <1>2
<1> QED BY <1>1, <1>2, <1>3 DEF Private

(* The steps of a caller that only move on. *)
LEMMA MovesOn ==
  ASSUME IInv, NEW c \in Caller,
         \/ Begins(c) \/ GivesUp(c) \/ ProbeFails(c) \/ ReprobeFails(c)
         \/ Normalizes(c) \/ NotOwned(c) \/ RemovesStaleSocket(c) \/ Identifies(c) \/ Polls(c) \/ FindsExit(c)
         \/ PollFails(c) \/ TimesOut(c) \/ WriteFails(c)
  PROVE  IInv'
<1> USE DEF IInv, At, files, OthersTyped, Locked, Starting, Place
<1>t. TypeOK
  OBVIOUS
<1>f. NoAnswer => faults' \in 0..MaxFaults
  BY BoundTypes DEF NoAnswer
<1>r. record.of \in 0..MaxServers
  BY <1>t DEF TypeOK
<1>1. CASE Begins(c)
  <2>1. OthersTyped
    BY <1>1, <1>t, BoundTypes DEF Begins, TypeOK
  <2> QED BY <1>1, <2>1, GotoStep DEF Begins
<1>2. CASE GivesUp(c)
  <2>1. OthersTyped
    BY <1>2, <1>t DEF GivesUp, TypeOK
  <2> QED BY <1>2, <2>1, GotoStep DEF GivesUp
<1>3. CASE ProbeFails(c)
  <2>1. OthersTyped
    BY <1>3, <1>t, <1>f DEF ProbeFails, TypeOK
  <2> QED BY <1>3, <2>1, GotoStep DEF ProbeFails
<1>4. CASE ReprobeFails(c)
  <2>1. OthersTyped
    BY <1>4, <1>t, <1>f DEF ReprobeFails, TypeOK
  <2> QED BY <1>4, <2>1, GotoStep DEF ReprobeFails
<1>5. CASE RemovesStaleSocket(c)
  <2>1. OthersTyped
    BY <1>5, <1>t, <1>r, SocketTypes, BoundTypes, AbandonTypes DEF RemovesStaleSocket, TypeOK
  <2>2. abandoned \subseteq abandoned' /\ (Live(record.of) => record.of \in abandoned')
    BY <1>5, <1>t, <1>r, AbandonTypes DEF RemovesStaleSocket
  <2> QED BY <1>5, <2>1, <2>2, GotoStep DEF RemovesStaleSocket
<1>6. CASE Identifies(c)
  <2>1. OthersTyped
    BY <1>6, <1>t DEF Identifies, TypeOK
  <2> QED BY <1>6, <2>1, GotoStep DEF Identifies
<1>7. CASE Polls(c)
  <2>1. OthersTyped
    BY <1>7, <1>t, SocketTypes, BoundTypes DEF Polls, TypeOK
  <2> QED BY <1>7, <2>1, GotoStep DEF Polls
<1>8. CASE FindsExit(c)
  <2>1. OthersTyped
    BY <1>8, <1>t, BoundTypes DEF FindsExit, TypeOK
  <2> QED BY <1>8, <2>1, GotoStep DEF FindsExit
<1>9. CASE PollFails(c)
  <2>1. OthersTyped
    BY <1>9, <1>t, <1>f DEF PollFails, TypeOK
  <2> QED BY <1>9, <2>1, GotoStep DEF PollFails
<1>10. CASE TimesOut(c)
  <2>1. OthersTyped
    BY <1>10, <1>t, <1>f DEF TimesOut, TypeOK
  <2> QED BY <1>10, <2>1, GotoStep DEF TimesOut
<1>11. CASE WriteFails(c)
  <2>1. OthersTyped
    BY <1>11, <1>t, BoundTypes DEF WriteFails, TypeOK
  <2> QED BY <1>11, <2>1, GotoStep DEF WriteFails
<1>12. CASE Normalizes(c)
  <2>1. OthersTyped
    BY <1>12, <1>t, SocketTypes, BoundTypes DEF Normalizes, TypeOK
  <2>2. CASE socket.of # 0
    BY <1>12, <2>1, <2>2, GotoStep DEF Normalizes
  <2>3. CASE socket.of = 0
    BY <1>12, <2>1, <2>3, GotoStep DEF Normalizes
  <2> QED BY <2>2, <2>3
<1>13. CASE NotOwned(c)
  <2>1. OthersTyped
    BY <1>13, <1>t, BoundTypes DEF NotOwned, TypeOK
  <2> QED BY <1>13, <2>1, GotoStep DEF NotOwned
<1> QED
  BY <1>1, <1>2, <1>3, <1>4, <1>5, <1>6, <1>7, <1>8, <1>9, <1>10, <1>11, <1>12, <1>13

(* The steps of a caller that return, without success or with a server it
   found. *)
LEMMA ReturnsEarly ==
  ASSUME IInv, NEW c \in Caller,
         \/ Reuses(c) \/ Mismatches(c) \/ Refuses(c)
         \/ LaunchFails(c) \/ CannotIdentify(c) \/ Unlinks(c)
  PROVE  IInv'
<1> USE DEF IInv, At, files, OthersTyped
<1>t. TypeOK
  OBVIOUS
<1>h. call[c].at \notin Starting => ~Live(call[c].started)
  BY DEF Held, Live
<1>0. CASE Reuses(c)
  <2>1. OthersTyped /\ call[c].at \in Locked \cup Starting /\ call[c].at \notin Starting
    BY <1>0, <1>t, BoundTypes DEF Reuses, TypeOK, Locked, Starting
  <2> QED BY <1>0, <1>h, <2>1, EndStep DEF Reuses
<1>1. CASE Mismatches(c)
  <2>1. OthersTyped /\ call[c].at \in Locked \cup Starting /\ call[c].at \notin Starting
    BY <1>1, <1>t, BoundTypes DEF Mismatches, TypeOK, Locked, Starting
  <2> QED BY <1>1, <1>h, <2>1, EndStep DEF Mismatches
<1>2. CASE Refuses(c)
  <2>1. OthersTyped /\ call[c].at \in Locked \cup Starting /\ call[c].at \notin Starting
    BY <1>2, <1>t, BoundTypes DEF Refuses, TypeOK, Locked, Starting
  <2> QED BY <1>2, <1>h, <2>1, EndStep DEF Refuses
<1>3. CASE LaunchFails(c)
  <2>1. OthersTyped /\ call[c].at \in Locked \cup Starting /\ call[c].at \notin Starting
    BY <1>3, <1>t DEF LaunchFails, TypeOK, Locked, Starting
  <2> QED BY <1>3, <1>h, <2>1, EndStep DEF LaunchFails
<1>4. CASE CannotIdentify(c)
  <2>1. call[c].at \in Locked \cup Starting
    BY <1>4 DEF CannotIdentify, Starting
  <2>3. /\ abandoned \subseteq abandoned' /\ abandoned' \subseteq Server
        /\ Live(call[c].started) => call[c].started \in abandoned'
        /\ faults' \in 0..MaxFaults
    BY <1>4, <1>t, CallFields, AbandonTypes, BoundTypes DEF CannotIdentify
  <2>4. OthersTyped
    BY <1>4, <1>t, <2>3 DEF CannotIdentify, TypeOK
  <2> QED BY <1>4, <2>1, <2>3, <2>4, EndStep DEF CannotIdentify
<1>5. CASE Unlinks(c)
  <2>1. OthersTyped /\ call[c].at \in Locked \cup Starting
    BY <1>5, <1>t, SocketTypes DEF Unlinks, TypeOK, Starting
  <2>2. Live(call[c].started) => call[c].started \in abandoned'
    BY <1>5 DEF Unlinks, Dead, Past
  <2> QED BY <1>5, <2>1, <2>2, EndStep DEF Unlinks
<1> QED BY <1>0, <1>1, <1>2, <1>3, <1>4, <1>5

(* What answers is, while nothing was abandoned, the server that is to. *)
LEMMA Answered ==
  ASSUME IInv, Answers
  PROVE  /\ socket.of \in Server /\ socket.of # 0 /\ Live(socket.of)
         /\ abandoned = {} => socket.of = Current
<1>1. socket.of \in Server /\ socket.of # 0 /\ Live(socket.of)
  BY BoundsAssumption DEF IInv, TypeOK, Answers, Live, Server
<1> QED BY <1>1 DEF IInv, OneServer

(* A probe that succeeds. *)
LEMMA Meets ==
  ASSUME IInv, NEW c \in Caller, ProbeSucceeds(c) \/ PollAnswered(c)
  PROVE  IInv'
<1> USE DEF IInv, At, files
<1>1. /\ socket.of \in Server /\ socket.of # 0 /\ socket.of \in 0..MaxServers
      /\ abandoned = {} => socket.of = Current
  BY Answered DEF ProbeSucceeds, PollAnswered, TypeOK
<1>2. TypeOK /\ call[c].started \in 0..MaxServers /\ c # Nobody
  BY CallFields, NobodyAssumption
<1>3. OthersTyped
  BY <1>2 DEF OthersTyped, ProbeSucceeds, PollAnswered, TypeOK
<1>4. /\ call[c].started # 0 <=> call[c].at \in Starting
      /\ lock = c <=> call[c].at \in Locked \cup Starting
      /\ call[c].at \in {"launch"} \cup Starting => Past(record.of)
  BY DEF Held, TypeOK, Clear
<1>5. CASE ProbeSucceeds(c)
  <2>1. Moves(c, "check", call[c].started, socket.of)
    BY <1>1, <1>2, <1>5, MeetMoves DEF ProbeSucceeds, Place, Locked
  <2>2. lock = c /\ call[c].started = 0
    BY <1>4, <1>5 DEF ProbeSucceeds, Locked, Starting
  <2>3. LockFollows(c, "check")
    BY <1>5, <2>2 DEF ProbeSucceeds, LockFollows, Locked
  <2>4. abandoned' = {} => socket.of = record.of
    BY <1>1, <1>2, <1>5, <2>2 DEF ProbeSucceeds, Current
  <2> QED
    BY <1>1, <1>2, <1>3, <1>5, <2>1, <2>2, <2>3, <2>4, QuietStep
    DEF ProbeSucceeds, Place, Locked, Starting
<1>6. CASE PollAnswered(c)
  <2>1. Moves(c, "write", call[c].started, socket.of)
    BY <1>1, <1>2, <1>6, MeetMoves DEF PollAnswered, Place, Starting
  <2>2. /\ lock = c /\ call[c].started # 0
        /\ Live(record.of) => record.of \in abandoned'
    BY <1>4, <1>6 DEF PollAnswered, Starting, Past
  <2>3. LockFollows(c, "write")
    BY <1>6, <2>2 DEF PollAnswered, LockFollows, Starting
  <2>4. abandoned' = {} => socket.of = call[c].started
    BY <1>1, <1>2, <1>6, <2>2 DEF PollAnswered, Current
  <2> QED
    BY <1>1, <1>2, <1>3, <1>6, <2>1, <2>2, <2>3, <2>4, QuietStep
    DEF PollAnswered, Place, Locked, Starting
<1> QED BY <1>5, <1>6

(* The steps of a caller without a server of its own, and its death. *)
LEMMA ComesAndGoes ==
  ASSUME IInv, NEW c \in Caller, Locks(c) \/ Returns(c) \/ Killed(c)
  PROVE  IInv'
<1> USE DEF IInv, At, files
<1>1. /\ TypeOK /\ call[c].started \in 0..MaxServers /\ 0 \in 0..MaxServers
      /\ "idle" \in Place /\ "probe" \in Place
  BY CallFields DEF Place, Locked
<1>2. /\ call[c].started # 0 <=> call[c].at \in Starting
      /\ lock = c <=> call[c].at \in Locked \cup Starting
  BY DEF Held, TypeOK
<1>3. "idle" \notin Locked \cup Starting /\ "idle" \notin {"launch"} \cup Starting
  BY DEF Locked, Starting
<1>4. CASE Locks(c)
  <2>1. OthersTyped
    BY <1>1, <1>4 DEF Locks, OthersTyped, TypeOK
  <2>2. Moves(c, "probe", call[c].started, call[c].met)
    BY <1>1, <1>4, GotoMoves DEF Locks
  <2>3. LockFollows(c, "probe") /\ call[c].started = 0
    BY <1>2, <1>4 DEF Locks, LockFollows, Locked, Starting
  <2> QED
    BY <1>1, <1>4, <2>1, <2>2, <2>3, QuietStep DEF Locks, Starting
<1>5. CASE Returns(c)
  <2>1. OthersTyped
    BY <1>1, <1>5 DEF Returns, OthersTyped, TypeOK
  <2>2. Moves(c, "idle", 0, 0)
    BY <1>5, IdleMoves DEF Returns
  <2>3. lock # c /\ call[c].started = 0
    BY <1>2, <1>5 DEF Returns, Locked, Starting
  <2>4. LockFollows(c, "idle")
    BY <1>3, <1>5, <2>3 DEF Returns, LockFollows
  <2> QED
    BY <1>1, <1>3, <1>5, <2>1, <2>2, <2>3, <2>4, QuietStep DEF Returns
<1>6. CASE Killed(c)
  <2>2. /\ abandoned \subseteq abandoned' /\ abandoned' \subseteq Server
        /\ Live(call[c].started) => call[c].started \in abandoned'
    BY <1>1, <1>6, AbandonTypes DEF Killed
  <2>3. OthersTyped
    BY <1>1, <1>6, <2>2, BoundTypes DEF Killed, OthersTyped, TypeOK
  <2>4. Moves(c, "idle", 0, 0)
    BY <1>6, IdleMoves DEF Killed
  <2>5. LockFollows(c, "idle")
    BY <1>3, <1>6 DEF Killed, LockFollows
  <2> QED
    BY <1>1, <1>3, <1>6, <2>2, <2>3, <2>4, <2>5, QuietStep DEF Killed
<1> QED BY <1>4, <1>5, <1>6

(* The start of a server: it becomes the current one, and the one on record
   is dead. *)
LEMMA Starts ==
  ASSUME IInv, NEW c \in Caller, NEW s \in Server, NEW account \in Account,
         Launches(c, s, account)
  PROVE  IInv'
<1> USE DEF IInv, At, files
<1>1. /\ TypeOK /\ s \in 0..MaxServers /\ s # 0 /\ "identify" \in Place
      /\ call[c].met \in 0..MaxServers /\ c # Nobody
  BY CallFields, NobodyAssumption, BoundsAssumption DEF Place, Starting, Server
<1>2. Moves(c, "identify", s, call[c].met)
  BY <1>1, LaunchMoves DEF Launches
<1>3. /\ server' \in [Server -> [at : {"unborn", "starting", "serving", "hung", "gone", "killed"},
                                account : Account]]
      /\ server'[s].at = "starting" /\ server[s].at = "unborn"
      /\ \A t \in Server : t # s => server'[t] = server[t]
  BY DEF Launches, TypeOK, Unborn
<1>4. lock = c /\ lock' = c /\ record' = record /\ abandoned' = abandoned /\ Past(record.of)
  BY DEF Launches, TypeOK, Locked, Clear
<1>5. OthersTyped
  BY <1>1, <1>3 DEF Launches, OthersTyped, TypeOK
<1>6. LockFollows(c, "identify")
  BY <1>4 DEF LockFollows, Starting
<1>7. TypeOK'
  BY <1>1, <1>2, <1>5, <1>6, MoveTypes
<1>8. /\ call'[c].at = "identify" /\ call'[c].started = s
      /\ \A d \in Caller : d # c => call'[d] = call[d]
  BY <1>2 DEF Moves
<1>9. /\ record.of \in 0..MaxServers /\ record.of # s
      /\ \A d \in Caller : call[d].started \in 0..MaxServers /\ call[d].started # s
  BY <1>1, <1>3, CallFields DEF Born, TypeOK
<1>10. \A t \in 0..MaxServers : t # 0 => t \in Server
  BY BoundsAssumption DEF Server
<1>11. Held'
  BY <1>1, <1>8 DEF Held, Starting
<1>12. Born'
  BY <1>3, <1>4, <1>8, <1>9, <1>10 DEF Born
<1>13. Past(record.of)'
  BY <1>3, <1>4, <1>9, <1>10 DEF Past, Live
<1>14. Clear'
  BY <1>13 DEF Clear
<1>15. Dead'
  BY <1>3, <1>4, <1>8, <1>9, <1>10 DEF Dead, Past, Live
<1>16. Met'
  BY <1>4, <1>8 DEF Met
<1>17. OneServer'
  <2> SUFFICES ASSUME NEW t \in Server, Live(t)', t # s PROVE t \in abandoned
    BY <1>1, <1>4, <1>8 DEF OneServer, Current
  <2>1. Live(t)
    BY <1>3 DEF Live
  <2>2. call[c].started = 0
    BY DEF Held, Launches, Starting
  <2>3. Current = record.of
    BY <1>4, <2>2 DEF Current
  <2> QED BY <1>4, <2>1, <2>3 DEF OneServer, Past
<1> QED BY <1>7, <1>11, <1>12, <1>14, <1>15, <1>16, <1>17

(* The record is written: the server that was started stays the current one. *)
LEMMA Records ==
  ASSUME IInv, NEW c \in Caller, WritesRecord(c)
  PROVE  IInv'
<1> USE DEF IInv, At
<1>1. /\ TypeOK /\ "started" \in Place /\ c # Nobody
      /\ call[c].started \in 0..MaxServers /\ call[c].met \in 0..MaxServers
      /\ "started" \notin Locked \cup Starting /\ "started" \notin {"launch"} \cup Starting
  BY CallFields, NobodyAssumption DEF Place, Locked, Starting
<1>2. Moves(c, "started", 0, call[c].met) /\ lock' = Nobody
  BY <1>1, EndMoves DEF WritesRecord
<1>3. /\ call'[c].at = "started" /\ call'[c].started = 0
      /\ \A d \in Caller : d # c => call'[d] = call[d]
  BY <1>2 DEF Moves
<1>4. lock = c /\ call[c].started # 0
  BY DEF WritesRecord, TypeOK, Held, Starting
<1>5. \A d \in Caller : d # c => call[d].at \notin Locked \cup Starting
  BY <1>1, <1>4 DEF TypeOK
<1>6. /\ record'.of = call[c].started /\ server' = server /\ abandoned' = abandoned
      /\ record' = [of |-> call[c].started, account |-> server[call[c].met].account]
  BY DEF WritesRecord
<1>7. server[call[c].met].account \in Account /\ call[c].met \in Server
  <2>1. call[c].met \in Server
    BY <1>1, BoundsAssumption DEF Met, WritesRecord, Server
  <2> QED BY <1>1, <2>1 DEF TypeOK
<1>8. OthersTyped
  BY <1>1, <1>6, <1>7 DEF WritesRecord, OthersTyped, TypeOK
<1>9. LockFollows(c, "started")
  BY <1>1, <1>2, <1>4 DEF LockFollows
<1>10. TypeOK'
  BY <1>1, <1>2, <1>8, <1>9, MoveTypes
<1>11. Held'
  BY <1>1, <1>3 DEF Held
<1>12. Born'
  BY <1>3, <1>4, <1>6 DEF Born
<1>13. Clear'
  BY <1>1, <1>3, <1>5 DEF Clear, Locked
<1>14. Dead'
  BY <1>3, <1>6 DEF Dead, Past, Live
<1>15. Met'
  BY <1>3, <1>5 DEF Met, Locked, Starting
<1>16. OneServer'
  BY <1>1, <1>2, <1>4, <1>6 DEF OneServer, Current, Live
<1> QED BY <1>10, <1>11, <1>12, <1>13, <1>14, <1>15, <1>16

(* A step of servers only: no server begins, what lived or lives was born. *)
LEMMA ServersStep ==
  ASSUME IInv, OthersTyped, UNCHANGED <<lock, record, call, calls, abandoned, faults>>,
         \A t \in Server : /\ Live(t)' => Live(t)
                           /\ server[t].at # "unborn" => server'[t].at # "unborn"
  PROVE  IInv'
<1> USE DEF IInv
<1>1. TypeOK'
  BY DEF TypeOK, OthersTyped
<1>2. \A t \in 0..MaxServers : t # 0 => t \in Server
  BY BoundsAssumption DEF Server
<1>3. /\ record.of \in 0..MaxServers
      /\ \A d \in Caller : call[d].started \in 0..MaxServers
  BY CallFields DEF TypeOK
<1>4. \A t \in 0..MaxServers : Live(t)' => Live(t)
  BY <1>2 DEF Live
<1>5. Held' /\ Met'
  BY DEF Held, Met
<1>6. Born'
  BY <1>2, <1>3 DEF Born
<1>7. Clear' /\ Dead'
  BY <1>3, <1>4 DEF Clear, Dead, Past
<1>8. OneServer'
  BY DEF OneServer, Current
<1> QED BY <1>1, <1>5, <1>6, <1>7, <1>8

Status == {"unborn", "starting", "serving", "hung", "gone", "killed"}

(* What an update of a server's status does. *)
LEMMA StatusUpdate ==
  ASSUME TypeOK, NEW s \in Server, NEW at \in Status,
         server' = [server EXCEPT ![s].at = at]
  PROVE  /\ server' \in [Server -> [at : Status, account : Account]]
         /\ server'[s].at = at /\ server'[s].account = server[s].account
         /\ \A t \in Server : t # s => server'[t] = server[t]
<1>1. server \in [Server -> [at : Status, account : Account]]
  BY DEF TypeOK, Status
<1> QED BY <1>1

(* A server that was started is stopped. *)
LEMMA Halts ==
  ASSUME IInv, NEW c \in Caller, Stops(c), Found(call[c].started), UNCHANGED abandoned,
         server' = [server EXCEPT ![call[c].started].at = "killed"]
  PROVE  IInv'
<1> USE DEF IInv, At, files
<1>1. /\ TypeOK /\ "unlink" \in Place /\ c # Nobody
      /\ call[c].started \in 0..MaxServers
  BY CallFields, NobodyAssumption DEF Place, Starting
<1>2. Moves(c, "unlink", call[c].started, call[c].met)
  BY <1>1, GotoMoves DEF Stops
<1>3. /\ call'[c].at = "unlink" /\ call'[c].started = call[c].started
      /\ \A d \in Caller : d # c => call'[d] = call[d]
  BY <1>2 DEF Moves
<1>4. lock = c /\ lock' = c /\ call[c].started # 0
  BY DEF Stops, TypeOK, Held, Starting
<1>5. call[c].started \in Server
  BY <1>1, <1>4, BoundsAssumption DEF Server
<1>6. /\ server' \in [Server -> [at : Status, account : Account]]
      /\ ~(Live(call[c].started))'
      /\ \A t \in Server : t # call[c].started => server'[t] = server[t]
      /\ server[call[c].started].at # "unborn" => server'[call[c].started].at # "unborn"
  <2>1. /\ server' \in [Server -> [at : Status, account : Account]]
        /\ server'[call[c].started].at = "killed"
        /\ \A t \in Server : t # call[c].started => server'[t] = server[t]
    BY <1>1, <1>5, StatusUpdate DEF Status
  <2> QED BY <1>3, <2>1 DEF Live
<1>7. \A t \in Server : /\ Live(t)' => Live(t)
                        /\ server[t].at # "unborn" => server'[t].at # "unborn"
  BY <1>3, <1>5, <1>6 DEF Live
<1>8. \A t \in 0..MaxServers : t # 0 => t \in Server
  BY BoundsAssumption DEF Server
<1>9. /\ record' = record /\ abandoned' = abandoned
      /\ record.of \in 0..MaxServers
      /\ \A d \in Caller : call[d].started \in 0..MaxServers
  BY CallFields DEF Stops, TypeOK
<1>10. \A t \in 0..MaxServers : Live(t)' => Live(t)
  BY <1>7, <1>8 DEF Live
<1>11. TypeOK'
  <2>1. OthersTyped
    BY <1>1, <1>6, BoundTypes DEF Stops, OthersTyped, TypeOK, Status
  <2>2. LockFollows(c, "unlink")
    BY <1>4 DEF LockFollows, Starting
  <2> QED BY <1>1, <1>2, <2>1, <2>2, MoveTypes
<1>12. Held'
  BY <1>3, <1>4 DEF Held, Starting
<1>13. Born'
  BY <1>3, <1>7, <1>8, <1>9 DEF Born
<1>14. Clear'
  BY <1>3, <1>4, <1>9, <1>10 DEF Clear, Past, Starting, Stops
<1>15. Dead'
  <2>1. ASSUME NEW d \in Caller, call'[d].at = "unlink" PROVE Past(call[d].started)'
    <3>1. CASE d = c
      BY <1>3, <1>6, <3>1 DEF Past, Live
    <3>2. CASE d # c
      BY <1>3, <1>9, <1>10, <2>1, <3>2 DEF Dead, Past
    <3> QED BY <3>1, <3>2
  <2> QED BY <2>1 DEF Dead
<1>16. Met'
  BY <1>3, <1>9 DEF Met
<1>17. OneServer'
  BY <1>1, <1>3, <1>4, <1>7, <1>9 DEF OneServer, Current
<1> QED BY <1>11, <1>12, <1>13, <1>14, <1>15, <1>16, <1>17

(* A server that was not found is left running, if it runs. *)
LEMMA StopsStep ==
  ASSUME IInv, NEW c \in Caller, Stops(c)
  PROVE  IInv'
<1> USE DEF IInv, At, files
<1>1. CASE Found(call[c].started) /\ UNCHANGED abandoned
           /\ server' = [server EXCEPT ![call[c].started].at = "killed"]
  BY <1>1, Halts
<1>2. CASE NotFound(call[c].started) /\ Abandons(call[c].started) /\ UNCHANGED server
  <2>1. /\ abandoned \subseteq abandoned' /\ abandoned' \subseteq Server
        /\ Live(call[c].started) => call[c].started \in abandoned'
    BY <1>2, CallFields, AbandonTypes
  <2>2. OthersTyped
    BY <1>2, <2>1, BoundTypes DEF Stops, OthersTyped, TypeOK
  <2> QED
    BY <1>2, <2>1, <2>2, GotoStep DEF Stops, Place, Locked, Starting
<1> QED BY <1>1, <1>2 DEF Stops

(* The servers' own steps. *)
LEMMA ServerSteps ==
  ASSUME IInv, NEW s \in Server, ServerStep(s)
  PROVE  IInv'
<1> USE DEF IInv, files
<1>1. TypeOK /\ s \in 0..MaxServers /\ {"starting", "serving", "hung", "gone"} \subseteq Status
  BY BoundsAssumption DEF Server, Status
<1>2. ASSUME NEW private \in BOOLEAN, Binds(s, private) PROVE IInv'
  <2>1. server' = [server EXCEPT ![s].at = "serving"]
    BY <1>2 DEF Binds
  <2>2. OthersTyped
    BY <1>1, <1>2, <2>1, StatusUpdate DEF Binds, OthersTyped, TypeOK, Status
  <2>3. \A t \in Server : /\ Live(t)' => Live(t)
                          /\ server[t].at # "unborn" => server'[t].at # "unborn"
    BY <1>1, <1>2, <2>1, StatusUpdate DEF Binds, Live
  <2> QED BY <1>2, <2>2, <2>3, ServersStep DEF Binds
<1>3. CASE Hangs(s)
  <2>1. server' = [server EXCEPT ![s].at = "hung"]
    BY <1>3 DEF Hangs
  <2>2. OthersTyped
    BY <1>1, <1>3, <2>1, StatusUpdate DEF Hangs, OthersTyped, TypeOK, Status
  <2>3. \A t \in Server : /\ Live(t)' => Live(t)
                          /\ server[t].at # "unborn" => server'[t].at # "unborn"
    BY <1>1, <1>3, <2>1, StatusUpdate DEF Hangs, Live
  <2> QED BY <1>3, <2>2, <2>3, ServersStep DEF Hangs
<1>4. CASE Resumes(s)
  <2>1. server' = [server EXCEPT ![s].at = "serving"]
    BY <1>4 DEF Resumes
  <2>2. OthersTyped
    BY <1>1, <1>4, <2>1, StatusUpdate DEF Resumes, OthersTyped, TypeOK, Status
  <2>3. \A t \in Server : /\ Live(t)' => Live(t)
                          /\ server[t].at # "unborn" => server'[t].at # "unborn"
    BY <1>1, <1>4, <2>1, StatusUpdate DEF Resumes, Live
  <2> QED BY <1>4, <2>2, <2>3, ServersStep DEF Resumes
<1>5. CASE Dies(s)
  <2>1. server' = [server EXCEPT ![s].at = "gone"]
    BY <1>5 DEF Dies
  <2>2. OthersTyped
    BY <1>1, <1>5, <2>1, StatusUpdate, SocketTypes DEF Dies, OthersTyped, TypeOK, Status
  <2>3. \A t \in Server : /\ Live(t)' => Live(t)
                          /\ server[t].at # "unborn" => server'[t].at # "unborn"
    BY <1>1, <1>5, <2>1, StatusUpdate DEF Dies, Live
  <2> QED BY <1>5, <2>2, <2>3, ServersStep DEF Dies
<1> QED BY <1>2, <1>3, <1>4, <1>5 DEF ServerStep

(* Every step keeps the invariant. *)
LEMMA InvStep == IInv /\ [Next]_vars => IInv'
<1> SUFFICES ASSUME IInv, [Next]_vars PROVE IInv'
    OBVIOUS
<1>1. ASSUME NEW c \in Caller, CallerStep(c) PROVE IInv'
  BY <1>1, MovesOn, ReturnsEarly, Meets, ComesAndGoes, Starts, Records, StopsStep DEF CallerStep
<1>2. ASSUME NEW s \in Server, ServerStep(s) PROVE IInv'
  BY <1>2, ServerSteps
<1>3. CASE UNCHANGED vars
  BY <1>3 DEF vars, IInv, TypeOK, Held, Born, Clear, Dead, Past, Met, OneServer, Current, Live
<1> QED BY <1>1, <1>2, <1>3 DEF Next

LEMMA InvInit == Init => IInv
<1> SUFFICES ASSUME Init PROVE IInv
    OBVIOUS
<1>1. /\ Unborn.at = "unborn" /\ Unborn.account \in Account
      /\ Unborn = [at |-> "unborn", account |-> Unborn.account]
  BY AccountAssumption DEF Unborn
<1>2. /\ 0 \in 0..MaxServers /\ 0 \in 0..MaxCalls /\ 0 \in 0..MaxFaults
  BY BoundsAssumption
<1>3. \A s \in Server : server[s].at = "unborn"
  BY <1>1 DEF Init
<1>4. \A c \in Caller : call[c].at = "idle" /\ call[c].started = 0
  BY DEF Init, Idle
<1>5. TypeOK
  <2>1. lock \in Caller \cup {Nobody} /\ \A c \in Caller : lock # c
    BY NobodyAssumption DEF Init
  <2>2. record \in [of : 0..MaxServers, account : Account]
    BY <1>1, <1>2 DEF Init, NoRecord
  <2>3. socket \in [of : 0..MaxServers, private : BOOLEAN]
    BY <1>2 DEF Init, NoSocket
  <2>4. server \in [Server -> [at : Status, account : Account]]
    <3>1. Unborn \in [at : Status, account : Account]
      BY <1>1 DEF Status
    <3> QED BY <3>1 DEF Init
  <2>5. call \in [Caller -> CallRecord]
    <3>1. Idle \in CallRecord
      BY <1>2 DEF Idle, CallRecord, Place
    <3> QED BY <3>1 DEF Init
  <2>6. \A c \in Caller : lock = c <=> call[c].at \in Locked \cup Starting
    BY <1>4, <2>1 DEF Locked, Starting
  <2>7. calls \in 0..MaxCalls /\ abandoned \subseteq Server /\ faults \in 0..MaxFaults
    BY <1>2 DEF Init
  <2> QED BY <2>1, <2>2, <2>3, <2>4, <2>5, <2>6, <2>7 DEF TypeOK, CallRecord, Place, Status
<1>6. record.of = 0
  BY DEF Init, NoRecord
<1>7. Held /\ Born /\ Dead
  BY <1>4, <1>6 DEF Held, Born, Dead, Starting
<1>8. Clear /\ Met
  BY <1>4 DEF Clear, Met, Starting
<1>9. OneServer
  BY <1>3 DEF OneServer, Live
<1> QED BY <1>5, <1>7, <1>8, <1>9 DEF IInv

LEMMA Invariant == Spec => []IInv
BY InvInit, InvStep, PTL DEF Spec

(* The types, and the lock's holder, of every reachable state. *)
THEOREM ServiceTypes == Spec => []TypeOK
<1>1. IInv => TypeOK
  BY DEF IInv
<1> QED BY <1>1, Invariant, PTL

(* EnsureCodexAppServer never leaves two servers of one home running, except
   those whose caller was killed, or was told by ps that they are gone. *)
THEOREM AtMostOneServer == Spec => []OneServer
<1>1. IInv => OneServer
  BY DEF IInv
<1> QED BY <1>1, Invariant, PTL

(* What the callers lost sight of stays so. *)
LEMMA AbandonedGrows ==
  ASSUME IInv, Next
  PROVE  abandoned \subseteq abandoned'
<1>1. ASSUME NEW c \in Caller, CallerStep(c) PROVE abandoned \subseteq abandoned'
  <2> USE <1>1 DEF CallerStep, Abandons
  <2> QED
    BY DEF Begins, Locks, GivesUp, ProbeSucceeds, ProbeFails, Normalizes, NotOwned, ReprobeFails,
           Reuses, Mismatches, Refuses, RemovesStaleSocket, LaunchFails, Launches, Identifies,
           CannotIdentify, Polls, FindsExit, PollAnswered, PollFails, TimesOut, WritesRecord,
           WriteFails, Stops, Unlinks, Returns, Killed
<1>2. ASSUME NEW s \in Server, ServerStep(s) PROVE abandoned \subseteq abandoned'
  BY <1>2 DEF ServerStep, Binds, Hangs, Resumes, Dies
<1> QED BY <1>1, <1>2 DEF Next

(* No call replaces, stops or hides the recorded server while it lives,
   unless ps denies it where the call decides. *)
THEOREM RecordedUntouched == Spec => RecordedKept
<1> DEFINE Kept == Recorded /\ record.of \notin abandoned' =>
              /\ record' = record
              /\ server'[record.of].at # "killed"
              /\ socket.of = record.of /\ server'[record.of].at # "gone"
                   => socket'.of = record.of
<1>1. IInv /\ [Next]_vars => [Kept]_vars
  <2> SUFFICES ASSUME IInv, Next, Recorded, record.of \notin abandoned' PROVE Kept
      OBVIOUS
  <2>1. \A c \in Caller : call[c].at \notin {"launch"} \cup Starting
    BY AbandonedGrows DEF IInv, Clear, Past, Recorded
  <2>2. /\ record.of \in Server /\ server[record.of].at \in {"starting", "serving", "hung"}
        /\ TypeOK
    BY BoundsAssumption DEF IInv, TypeOK, Recorded, Live, Server
  <2>3. ASSUME NEW c \in Caller, CallerStep(c) PROVE Kept
    <3> USE DEF At, files
    <3>0. /\ call[c].at \notin {"launch", "identify", "await", "polled", "write", "stop", "unlink"}
          /\ Private.of = socket.of
      BY <2>1, <2>2, SocketTypes DEF Starting
    <3>1. CASE Begins(c) \/ Locks(c) \/ GivesUp(c) \/ Returns(c) \/ Killed(c)
      BY <2>2, <3>1 DEF Begins, Locks, GivesUp, Returns, Killed
    <3>2. CASE \/ ProbeSucceeds(c) \/ ProbeFails(c) \/ ReprobeFails(c) \/ NotOwned(c)
               \/ Reuses(c) \/ Mismatches(c) \/ Refuses(c)
      BY <2>2, <3>2 DEF ProbeSucceeds, ProbeFails, ReprobeFails, NotOwned, Reuses, Mismatches,
                        Refuses
    <3>3. CASE Normalizes(c)
      BY <2>2, <3>0, <3>3 DEF Normalizes
    <3>4. ~RemovesStaleSocket(c)
      BY DEF RemovesStaleSocket, Abandons, Recorded
    <3>5. /\ ~LaunchFails(c) /\ \A s \in Server, account \in Account : ~Launches(c, s, account)
          /\ ~Identifies(c) /\ ~CannotIdentify(c)
      BY <3>0 DEF LaunchFails, Launches, Identifies, CannotIdentify
    <3>6. /\ ~Polls(c) /\ ~FindsExit(c) /\ ~PollAnswered(c) /\ ~PollFails(c) /\ ~TimesOut(c)
          /\ ~WritesRecord(c) /\ ~WriteFails(c) /\ ~Stops(c) /\ ~Unlinks(c)
      BY <3>0 DEF Polls, FindsExit, PollAnswered, PollFails, TimesOut, WritesRecord,
                  WriteFails, Stops, Unlinks
    <3> QED BY <2>3, <3>1, <3>2, <3>3, <3>4, <3>5, <3>6 DEF CallerStep
  <2>4. ASSUME NEW s \in Server, ServerStep(s) PROVE Kept
    <3> USE DEF files
    <3>1. ASSUME NEW at \in {"serving", "hung", "gone"}, server' = [server EXCEPT ![s].at = at]
          PROVE  server'[record.of].at \in {"starting", "serving", "hung", "gone"}
                 /\ server'[s].at = at
      <4>1. at \in Status
        BY DEF Status
      <4>2. /\ server'[s].at = at
            /\ \A t \in Server : t # s => server'[t] = server[t]
        BY <2>2, <3>1, <4>1, StatusUpdate
      <4> QED BY <2>2, <4>2
    <3>2. ASSUME NEW private \in BOOLEAN, Binds(s, private) PROVE Kept
      <4>1. server' = [server EXCEPT ![s].at = "serving"] /\ record' = record
        BY <3>2 DEF Binds
      <4>2. server'[record.of].at # "killed"
        BY <3>1, <4>1
      <4>3. socket.of # record.of
        BY <2>2, <3>2 DEF Binds, Recorded
      <4> QED BY <4>1, <4>2, <4>3
    <3>3. CASE Hangs(s)
      BY <2>2, <3>1, <3>3 DEF Hangs
    <3>4. CASE Resumes(s)
      BY <2>2, <3>1, <3>4 DEF Resumes
    <3>5. CASE Dies(s)
      BY <2>2, <3>1, <3>5 DEF Dies
    <3> QED BY <2>4, <3>2, <3>3, <3>4, <3>5 DEF ServerStep
  <2> QED BY <2>3, <2>4 DEF Next
<1> QED BY <1>1, Invariant, PTL DEF Spec, RecordedKept

(* A caller's step is its own, and only a check and a record lead to success. *)
LEMMA Successes ==
  ASSUME IInv, NEW c \in Caller, CallerStep(c)
  PROVE  /\ \A d \in Caller : d # c => call'[d] = call[d]
         /\ call'[c].at \in {"reused", "started"} => Reuses(c) \/ WritesRecord(c)
<1> DEFINE Goal == /\ \A d \in Caller : d # c => call'[d] = call[d]
                   /\ call'[c].at \notin {"reused", "started"}
<1> USE DEF Place, Locked, Starting
<1>1. TypeOK /\ call[c].started \in 0..MaxServers /\ socket.of \in 0..MaxServers
  BY CallFields DEF IInv, TypeOK
<1>2. ASSUME NEW at \in Place \ {"reused", "started"}, Goto(c, at) PROVE Goal
  <2>1. Moves(c, at, call[c].started, call[c].met)
    BY <1>1, <1>2, GotoMoves
  <2> QED BY <1>2, <2>1 DEF Moves
<1>3. ASSUME End(c, "idle") PROVE Goal
  <2>1. Moves(c, "idle", 0, call[c].met)
    BY <1>1, <1>3, EndMoves
  <2> QED BY <2>1 DEF Moves
<1>4. CASE Begins(c) \/ Locks(c) \/ GivesUp(c) \/ ProbeFails(c) \/ ReprobeFails(c)
  BY <1>2, <1>4 DEF Begins, Locks, GivesUp, ProbeFails, ReprobeFails
<1>5. CASE RemovesStaleSocket(c) \/ Identifies(c) \/ Polls(c) \/ FindsExit(c) \/ PollFails(c)
  BY <1>2, <1>5 DEF RemovesStaleSocket, Identifies, Polls, FindsExit, PollFails
<1>0. CASE Normalizes(c) \/ NotOwned(c)
  BY <1>0, <1>2 DEF Normalizes, NotOwned
<1>6. CASE TimesOut(c) \/ WriteFails(c) \/ Stops(c)
  BY <1>2, <1>6 DEF TimesOut, WriteFails, Stops
<1>7. CASE Mismatches(c) \/ Refuses(c) \/ LaunchFails(c) \/ CannotIdentify(c) \/ Unlinks(c)
  BY <1>3, <1>7 DEF Mismatches, Refuses, LaunchFails, CannotIdentify, Unlinks
<1>8. CASE Returns(c) \/ Killed(c)
  <2>1. Moves(c, "idle", 0, 0)
    BY <1>1, <1>8, IdleMoves DEF Returns, Killed
  <2> QED BY <2>1 DEF Moves
<1>9. CASE ProbeSucceeds(c)
  <2>1. Moves(c, "check", call[c].started, socket.of)
    BY <1>1, <1>9, MeetMoves DEF ProbeSucceeds
  <2> QED BY <2>1 DEF Moves
<1>10. CASE PollAnswered(c)
  <2>1. Moves(c, "write", call[c].started, socket.of)
    BY <1>1, <1>10, MeetMoves DEF PollAnswered
  <2> QED BY <2>1 DEF Moves
<1>11. ASSUME NEW s \in Server, NEW account \in Account, Launches(c, s, account) PROVE Goal
  <2>1. s \in 0..MaxServers
    BY BoundsAssumption DEF Server
  <2>2. Moves(c, "identify", s, call[c].met)
    BY <1>1, <1>11, <2>1, LaunchMoves DEF Launches
  <2> QED BY <2>2 DEF Moves
<1>12. CASE Reuses(c)
  <2>1. Moves(c, "reused", 0, call[c].met)
    BY <1>1, <1>12, EndMoves DEF Reuses
  <2> QED BY <1>12, <2>1 DEF Moves
<1>13. CASE WritesRecord(c)
  <2>1. Moves(c, "started", 0, call[c].met)
    BY <1>1, <1>13, EndMoves DEF WritesRecord
  <2> QED BY <1>13, <2>1 DEF Moves
<1>14. ASSUME NEW s \in Server, NEW account \in Account, Launches(c, s, account)
       PROVE  /\ \A d \in Caller : d # c => call'[d] = call[d]
              /\ call'[c].at \in {"reused", "started"} => Reuses(c) \/ WritesRecord(c)
  BY <1>11, <1>14
<1> QED
  BY <1>0, <1>4, <1>5, <1>6, <1>7, <1>8, <1>9, <1>10, <1>12, <1>13, <1>14 DEF CallerStep

(* A call that succeeds reports the server it reached, while none was
   abandoned. *)
THEOREM ReportsTruth == Spec => ReportTrue
<1> DEFINE True == \A c \in Caller :
              call[c].at # call'[c].at /\ call'[c].at \in {"reused", "started"} /\ abandoned = {} =>
                /\ record'.of # 0 /\ record'.of = call[c].met
                /\ record'.account = server[call[c].met].account
<1>1. IInv /\ [Next]_vars => [True]_vars
  <2> SUFFICES ASSUME IInv, Next, abandoned = {}, NEW c \in Caller, call[c].at # call'[c].at,
                      call'[c].at \in {"reused", "started"}
               PROVE  /\ record'.of # 0 /\ record'.of = call[c].met
                      /\ record'.account = server[call[c].met].account
      OBVIOUS
  <2>1. CallerStep(c)
    <3>1. ASSUME NEW s \in Server, ServerStep(s) PROVE FALSE
      BY <3>1 DEF ServerStep, Binds, Hangs, Resumes, Dies
    <3>2. ASSUME NEW d \in Caller, d # c, CallerStep(d) PROVE FALSE
      BY <3>2, Successes
    <3> QED BY <3>1, <3>2 DEF Next
  <2>2. Reuses(c) \/ WritesRecord(c)
    BY <2>1, Successes
  <2>3. Met /\ TypeOK
    BY DEF IInv
  <2>4. CASE Reuses(c)
    <3>1. /\ call[c].at = "check" /\ record' = record
          /\ call[c].met # 0 /\ call[c].met = record.of
      BY <2>3, <2>4 DEF Reuses, At, Met, files
    <3> QED BY <2>4, <3>1 DEF Reuses, SameAccount
  <2>5. CASE WritesRecord(c)
    <3>1. /\ call[c].at = "write"
          /\ record' = [of |-> call[c].started, account |-> server[call[c].met].account]
      BY <2>5 DEF WritesRecord, At
    <3>2. call[c].met # 0 /\ call[c].met = call[c].started
      BY <2>3, <3>1 DEF Met
    <3> QED BY <3>1, <3>2
  <2> QED BY <2>2, <2>4, <2>5
<1> QED BY <1>1, Invariant, PTL DEF Spec, ReportTrue
=============================================================================
