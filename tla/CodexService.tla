---------------------------- MODULE CodexService ----------------------------
(***************************************************************************)
(* The shared Codex app server of one service home, and the callers of     *)
(* EnsureCodexAppServer that reuse or start it: codex service ensure,      *)
(* codex launch, and codex bind --current, each in a process of its own.   *)
(* They agree through three files: the lock, the record of the server that *)
(* was started last, and the server's socket.  A caller may be killed at   *)
(* any point, and a server may hang or die at any point; only the lock is  *)
(* given back by the kernel.                                               *)
(*                                                                         *)
(* Whether a process lives a caller asks of ps, and a query that fails     *)
(* says that it does not: wherever the code asks, the answer may be no for *)
(* a process that lives.                                                   *)
(*                                                                         *)
(* The paths, modes and owners of files that a caller only looks at are    *)
(* left out, except the mode of the socket, which callers repair.  So is   *)
(* the endpoint that --endpoint names, which is only probed.               *)
(***************************************************************************)
EXTENDS Integers

CONSTANTS
  Caller,     \* processes that call EnsureCodexAppServer
  Nobody,     \* holds the lock when it is free
  Account,    \* what an app server says of itself: its CODEX_HOME
  MaxServers, \* bound: app servers ever started
  MaxCalls,   \* bound: calls ever made
  MaxFaults   \* bound: callers killed, probes too late, queries and files that fail

ASSUME NobodyAssumption == Nobody \notin Caller
ASSUME AccountAssumption == Account # {}
ASSUME BoundsAssumption == MaxServers \in Nat /\ MaxCalls \in Nat /\ MaxFaults \in Nat

VARIABLES
  lock,      \* who holds the flock of .ensure.lock
  record,    \* service.json: a server and the account that answered; 0 is no file
  socket,    \* app-server.sock: whose it is, 0 when there is none, and its mode
  server,    \* the app server processes
  call,      \* the calls in progress
  calls,     \* bound counter
  abandoned, \* auxiliary: servers a caller lost sight of, killed or told no by ps
  faults     \* bound counter

vars == <<lock, record, socket, server, call, calls, abandoned, faults>>

Server == 1..MaxServers

NoSocket == [of |-> 0, private |-> FALSE]
Unborn   == [at |-> "unborn", account |-> CHOOSE a \in Account : TRUE]
NoRecord == [of |-> 0, account |-> Unborn.account]
Idle     == [at |-> "idle", started |-> 0, met |-> 0]

(* A server ID is a PID with its start time, which is never used again. *)
Live(s) == s # 0 /\ server[s].at \in {"starting", "serving", "hung"}

Recorded == Live(record.of)

(* A probe of the socket can succeed: it is private and its server answers. *)
Answers == socket.of # 0 /\ socket.private /\ server[socket.of].at = "serving"

Init ==
  /\ lock = Nobody /\ record = NoRecord /\ socket = NoSocket
  /\ server = [s \in Server |-> Unborn]
  /\ call = [c \in Caller |-> Idle]
  /\ calls = 0 /\ abandoned = {} /\ faults = 0

Fault == faults < MaxFaults /\ faults' = faults + 1
NoFault == faults' = faults

(* processMatches: what ps tells a caller of s.  It says no as well when it
   cannot be run, fails or is too slow. *)
Found(s)    == Live(s) /\ NoFault
NotFound(s) == IF Live(s) THEN Fault ELSE NoFault

(* A caller goes on without s, which may live. *)
Abandons(s) == abandoned' = IF Live(s) THEN abandoned \cup {s} ELSE abandoned

files == <<record, socket>>

----------------------------------------------------------------------------
(* EnsureCodexAppServer.  Goto moves the caller on and changes nothing else of it. *)
Goto(c, at) == call' = [call EXCEPT ![c].at = at]

At(c, at) == call[c].at = at

(* Every return after lockCodexService unlocks (defer). *)
End(c, at) ==
  /\ lock' = Nobody
  /\ call' = [call EXCEPT ![c].at = at, ![c].started = 0]

Begins(c) ==
  /\ At(c, "idle") /\ calls < MaxCalls
  /\ Goto(c, "lock") /\ calls' = calls + 1
  /\ UNCHANGED <<lock, files, server, abandoned, faults>>

Locks(c) ==
  /\ At(c, "lock") /\ lock = Nobody
  /\ lock' = c /\ Goto(c, "probe")
  /\ UNCHANGED <<files, server, calls, abandoned, faults>>

(* Slip: the unlock is deferred before the lock is taken. *)
GivesUpUnlocks(c) ==
  /\ At(c, "lock")
  /\ lock' = Nobody /\ Goto(c, "idle")
  /\ UNCHANGED <<files, server, calls, abandoned, faults>>

(* The context ends while the lock is held by another caller. *)
GivesUp(c) ==
  /\ At(c, "lock")
  /\ Goto(c, "idle")
  /\ UNCHANGED <<lock, files, server, calls, abandoned, faults>>

(* probeCodexEndpoint: met is the server that answered. *)
ProbeSucceeds(c) ==
  /\ \/ At(c, "probe") \/ At(c, "reprobe")
  /\ Answers
  /\ call' = [call EXCEPT ![c].at = "check", ![c].met = socket.of]
  /\ UNCHANGED <<lock, files, server, calls, abandoned, faults>>

(* A server that answers may still be too slow for this probe. *)
NoAnswer == (~Answers /\ NoFault) \/ (Answers /\ Fault)

(* normalizeManagedCodexSocket: the mode of the socket is repaired. *)
Private == IF socket.of = 0 THEN socket ELSE [socket EXCEPT !.private = TRUE]

ProbeFails(c) ==
  /\ At(c, "probe") /\ NoAnswer
  /\ Goto(c, "owned")
  /\ UNCHANGED <<lock, files, server, calls, abandoned>>

(* The recorded process may have a socket that is not private yet. *)
Normalizes(c) ==
  /\ At(c, "owned") /\ Found(record.of)
  /\ socket' = Private
  /\ Goto(c, IF socket.of # 0 THEN "reprobe" ELSE "decide")
  /\ UNCHANGED <<lock, record, server, calls, abandoned>>

NotOwned(c) ==
  /\ At(c, "owned") /\ NotFound(record.of)
  /\ Goto(c, "decide")
  /\ UNCHANGED <<lock, files, server, calls, abandoned>>

ReprobeFails(c) ==
  /\ At(c, "reprobe") /\ NoAnswer
  /\ Goto(c, "decide")
  /\ UNCHANGED <<lock, files, server, calls, abandoned>>

(* Something answered.  A record must be of a live process and of the
   account that answered; without a record the server is reported with
   process ID 0. *)
SameAccount(c) == server[call[c].met].account = record.account

Reuses(c) ==
  /\ At(c, "check")
  /\ \/ record.of = 0 /\ NoFault
     \/ Found(record.of) /\ SameAccount(c)
  /\ End(c, "reused")
  /\ UNCHANGED <<files, server, calls, abandoned>>

Mismatches(c) ==
  /\ At(c, "check") /\ record.of # 0
  /\ \/ NotFound(record.of)
     \/ Found(record.of) /\ ~SameAccount(c)
  /\ End(c, "idle")
  /\ UNCHANGED <<files, server, calls, abandoned>>

(* Nothing answered.  A recorded process that is found is left alone
   ("refusing to start a duplicate"); otherwise a socket file is a stale one. *)
Refuses(c) ==
  /\ At(c, "decide") /\ Found(record.of)
  /\ End(c, "idle")
  /\ UNCHANGED <<files, server, calls, abandoned>>

(* Slip: a server that does not answer is taken for dead. *)
RemovesAnySocket(c) ==
  /\ At(c, "decide")
  /\ socket' = NoSocket /\ Goto(c, "launch")
  /\ UNCHANGED <<lock, record, server, calls, abandoned, faults>>

RemovesStaleSocket(c) ==
  /\ At(c, "decide") /\ NotFound(record.of) /\ Abandons(record.of)
  /\ socket' = NoSocket /\ Goto(c, "launch")
  /\ UNCHANGED <<lock, record, server, calls>>

(* The binary, its version, the log or its directory cannot be had. *)
LaunchFails(c) ==
  /\ At(c, "launch")
  /\ End(c, "idle")
  /\ UNCHANGED <<files, server, calls, abandoned, faults>>

(* The server process is started, in a session of its own. *)
Launches(c, s, account) ==
  /\ At(c, "launch") /\ server[s] = Unborn
  /\ \A t \in Server : server[t] = Unborn => s <= t
  /\ server' = [server EXCEPT ![s] = [at |-> "starting", account |-> account]]
  /\ call' = [call EXCEPT ![c].at = "identify", ![c].started = s]
  /\ UNCHANGED <<lock, files, calls, abandoned, faults>>

(* An ended process still has a start time until it is reaped. *)
Identifies(c) ==
  /\ At(c, "identify")
  /\ Goto(c, "await")
  /\ UNCHANGED <<lock, files, server, calls, abandoned, faults>>

(* Without a start time the process is not stopped: it could be another. *)
CannotIdentify(c) ==
  /\ At(c, "identify") /\ NotFound(call[c].started) /\ Abandons(call[c].started)
  /\ End(c, "idle")
  /\ UNCHANGED <<files, server, calls>>

(* The loop: the process must live, its socket is made private, then probed. *)
Polls(c) ==
  /\ At(c, "await") /\ Found(call[c].started)
  /\ socket' = Private
  /\ Goto(c, "polled")
  /\ UNCHANGED <<lock, record, server, calls, abandoned>>

FindsExit(c) ==
  /\ At(c, "await") /\ NotFound(call[c].started)
  /\ Goto(c, "stop")
  /\ UNCHANGED <<lock, files, server, calls, abandoned>>

PollAnswered(c) ==
  /\ At(c, "polled") /\ Answers
  /\ call' = [call EXCEPT ![c].at = "write", ![c].met = socket.of]
  /\ UNCHANGED <<lock, files, server, calls, abandoned, faults>>

PollFails(c) ==
  /\ At(c, "polled") /\ NoAnswer
  /\ Goto(c, "await")
  /\ UNCHANGED <<lock, files, server, calls, abandoned>>

(* codexServiceStartupTimeout, or the context ends. *)
TimesOut(c) ==
  /\ At(c, "polled") /\ NoAnswer
  /\ Goto(c, "stop")
  /\ UNCHANGED <<lock, files, server, calls, abandoned>>

(* Slip: the identity is the one declared outside the loop, still empty. *)
WritesOuterIdentity(c) ==
  /\ At(c, "write")
  /\ record' = [of |-> call[c].started, account |-> Unborn.account]
  /\ End(c, "started")
  /\ UNCHANGED <<socket, server, calls, abandoned, faults>>

(* writeCodexServiceRecord: a temporary file and a rename. *)
WritesRecord(c) ==
  /\ At(c, "write")
  /\ record' = [of |-> call[c].started, account |-> server[call[c].met].account]
  /\ End(c, "started")
  /\ UNCHANGED <<socket, server, calls, abandoned, faults>>

WriteFails(c) ==
  /\ At(c, "write") /\ Fault
  /\ Goto(c, "stop")
  /\ UNCHANGED <<lock, files, server, calls, abandoned>>

(* Slip: a failed start only cleans up the socket. *)
StopsNothing(c) ==
  /\ At(c, "stop")
  /\ Goto(c, "unlink")
  /\ UNCHANGED <<lock, files, server, calls, abandoned, faults>>

(* stopStartedServer: SIGTERM, and SIGKILL after two seconds, to a process
   that is found. *)
Stops(c) ==
  /\ At(c, "stop")
  /\ \/ /\ Found(call[c].started) /\ UNCHANGED abandoned
        /\ server' = [server EXCEPT ![call[c].started].at = "killed"]
     \/ /\ NotFound(call[c].started) /\ Abandons(call[c].started)
        /\ UNCHANGED server
  /\ Goto(c, "unlink")
  /\ UNCHANGED <<lock, files, calls>>

Unlinks(c) ==
  /\ At(c, "unlink")
  /\ socket' = NoSocket
  /\ End(c, "idle")
  /\ UNCHANGED <<record, server, calls, abandoned, faults>>

(* The caller has the status it asked for. *)
Returns(c) ==
  /\ \/ At(c, "reused") \/ At(c, "started")
  /\ call' = [call EXCEPT ![c] = Idle]
  /\ UNCHANGED <<lock, files, server, calls, abandoned, faults>>

(* Slip: the lock is a file that its creator must remove. *)
KilledKeepsLock(c) ==
  /\ ~At(c, "idle") /\ Fault
  /\ call' = [call EXCEPT ![c] = Idle]
  /\ UNCHANGED <<lock, files, server, calls, abandoned>>

(* The caller's process is killed: the kernel releases its lock, a server it
   started goes on by itself. *)
Killed(c) ==
  /\ ~At(c, "idle") /\ Fault
  /\ lock' = IF lock = c THEN Nobody ELSE lock
  /\ call' = [call EXCEPT ![c] = Idle]
  /\ Abandons(call[c].started)
  /\ UNCHANGED <<files, server, calls>>

----------------------------------------------------------------------------
(* The app server process. *)

(* It listens on the socket path, unless a live server does, and with the
   mode its umask gives. *)
Binds(s, private) ==
  /\ server[s].at = "starting" /\ ~Live(socket.of)
  /\ server' = [server EXCEPT ![s].at = "serving"]
  /\ socket' = [of |-> s, private |-> private]
  /\ UNCHANGED <<lock, record, call, calls, abandoned, faults>>

Hangs(s) ==
  /\ server[s].at = "serving"
  /\ server' = [server EXCEPT ![s].at = "hung"]
  /\ UNCHANGED <<lock, files, call, calls, abandoned, faults>>

Resumes(s) ==
  /\ server[s].at = "hung"
  /\ server' = [server EXCEPT ![s].at = "serving"]
  /\ UNCHANGED <<lock, files, call, calls, abandoned, faults>>

(* It may or may not remove its socket. *)
Dies(s) ==
  /\ Live(s)
  /\ server' = [server EXCEPT ![s].at = "gone"]
  /\ socket' \in {socket, IF socket.of = s THEN NoSocket ELSE socket}
  /\ UNCHANGED <<lock, record, call, calls, abandoned, faults>>

----------------------------------------------------------------------------
CallerStep(c) ==
  \/ Begins(c) \/ Locks(c) \/ GivesUp(c)
  \/ ProbeSucceeds(c) \/ ProbeFails(c) \/ ReprobeFails(c)
  \/ Normalizes(c) \/ NotOwned(c) \/ Reuses(c) \/ Mismatches(c)
  \/ Refuses(c) \/ RemovesStaleSocket(c)
  \/ LaunchFails(c)
  \/ \E s \in Server, account \in Account : Launches(c, s, account)
  \/ Identifies(c) \/ CannotIdentify(c)
  \/ Polls(c) \/ FindsExit(c) \/ PollAnswered(c) \/ PollFails(c) \/ TimesOut(c)
  \/ WritesRecord(c) \/ WriteFails(c)
  \/ Stops(c) \/ Unlinks(c) \/ Returns(c) \/ Killed(c)

ServerStep(s) ==
  \/ \E private \in BOOLEAN : Binds(s, private)
  \/ Hangs(s) \/ Resumes(s) \/ Dies(s)

Next ==
  \/ \E c \in Caller : CallerStep(c)
  \/ \E s \in Server : ServerStep(s)

Spec == Init /\ [][Next]_vars

----------------------------------------------------------------------------
(* Properties. *)
Locked  == {"probe", "owned", "reprobe", "check", "decide", "launch"}
Starting == {"identify", "await", "polled", "write", "stop", "unlink"}

(* Every variable keeps its type; a caller is between lock and unlock exactly
   when it holds the lock, and knows of a server it started exactly there. *)
TypeOK ==
  /\ lock \in Caller \cup {Nobody}
  /\ record \in [of : 0..MaxServers, account : Account]
  /\ socket \in [of : 0..MaxServers, private : BOOLEAN]
  /\ server \in [Server -> [at : {"unborn", "starting", "serving", "hung", "gone", "killed"},
                            account : Account]]
  /\ call \in [Caller -> [at : {"idle", "lock", "reused", "started"} \cup Locked \cup Starting,
                          started : 0..MaxServers, met : 0..MaxServers]]
  /\ \A c \in Caller : lock = c <=> call[c].at \in Locked \cup Starting
  /\ calls \in 0..MaxCalls /\ abandoned \subseteq Server /\ faults \in 0..MaxFaults

(* The server that is to serve this home: the one being started, or else the
   recorded one. *)
Current ==
  IF lock # Nobody /\ call[lock].started # 0 THEN call[lock].started ELSE record.of

(* OneServer: at most one app server of a service home runs, and it is the
   one being started or the one on record, so that later calls find it and
   a failed start leaves none behind; except for servers whose caller was
   killed, or was told by ps that they are gone (EnsureCodexAppServer). *)
OneServer == \A s \in Server : Live(s) => s = Current \/ s \in abandoned

(* RecordedKept: while the recorded server lives, healthy or not, no call
   stops it, removes its socket, or puts another in its place, unless the
   query that decides about it fails (EnsureCodexAppServer, processMatches,
   removeStaleSocket). *)
RecordedKept ==
  [][ Recorded /\ record.of \notin abandoned' =>
        /\ record' = record
        /\ server'[record.of].at # "killed"
        /\ socket.of = record.of /\ server'[record.of].at # "gone"
             => socket'.of = record.of ]_vars

(* ReportTrue: a call that succeeds has reached the server whose process ID
   it reports, and the account that server says it is; as long as no server
   was abandoned (EnsureCodexAppServer). *)
ReportTrue ==
  [][ \A c \in Caller :
        call[c].at # call'[c].at /\ call'[c].at \in {"reused", "started"} /\ abandoned = {} =>
          /\ record'.of # 0 /\ record'.of = call[c].met
          /\ record'.account = server[call[c].met].account ]_vars

(* Fairness.  A caller's steps follow one another, its probes, its query for
   a start time and codex --version have deadlines, and so has the wait for a
   server that does not come up: a wait that could end again and again does.
   The ps of processMatches has no deadline and gets no fairness. *)
Scheduling ==
  \A c \in Caller :
    /\ WF_vars(Locks(c) \/ GivesUp(c))
    /\ WF_vars(ProbeSucceeds(c) \/ ProbeFails(c) \/ ReprobeFails(c))
    /\ WF_vars(LaunchFails(c))
    /\ WF_vars(Identifies(c) \/ CannotIdentify(c))
    /\ WF_vars(PollAnswered(c) \/ PollFails(c))
    /\ SF_vars(TimesOut(c))
    /\ WF_vars(WritesRecord(c)) /\ WF_vars(Unlinks(c))
    /\ WF_vars(Returns(c))

FairSpec == Spec /\ Scheduling

(* Where a caller waits for the ps of processMatches, the lock in its hand. *)
Querying == {"owned", "check", "decide", "await", "stop"}

(* LockIsFreed: as long as no ps hangs for ever, no call keeps the others
   waiting for ever, whatever servers and callers do (lockCodexService,
   EnsureCodexAppServer). *)
LockIsFreed ==
  (\A c \in Caller : []<>(call[c].at \notin Querying)) => (lock # Nobody ~> lock = Nobody)
=============================================================================
