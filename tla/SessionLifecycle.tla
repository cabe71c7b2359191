-------------------------- MODULE SessionLifecycle --------------------------
(***************************************************************************)
(* The life of one client home: the commands session start, session stop,  *)
(* client gc and every command that recovers the session first (Ensure),   *)
(* and the resident supervisor processes they spawn and stop.  They share  *)
(* four files: state.json, the lock file, the control socket, and the      *)
(* Codex binding, whose enabled flag keeps a supervisor alive after its    *)
(* owner.  The commands take no lock; only supervisors do.                 *)
(*                                                                         *)
(* Any number of commands run at once, each may be killed at every step,   *)
(* and a process query (ps, kill -0) may fail or time out.  Three history  *)
(* variables, beside, misled and stray, record what that does to a home;   *)
(* the properties name them and no guard reads them.                       *)
(*                                                                         *)
(* The rest of a session is left out: channels are the subject of          *)
(* ChannelMembership, the binding that of CodexDelivery.                   *)
(***************************************************************************)
EXTENDS Integers, FiniteSets

CONSTANTS
  Owner,        \* agent processes (PID and start fingerprint)
  None,         \* no owner
  Cmd,          \* commands that may run at the same time
  MaxProc,      \* bound: supervisors ever spawned
  MaxCommands,  \* bound: commands ever started
  NickAttempts, \* nickAttempts
  MaxFaults     \* bound: supervisors that crash and queries that fail

ASSUME NoneAssumption == None \notin Owner
ASSUME BoundsAssumption ==
  /\ MaxProc \in Nat /\ MaxCommands \in Nat /\ NickAttempts \in Nat \ {0} /\ MaxFaults \in Nat

VARIABLES
  alive,     \* the owners that still run
  bound,     \* the owner whose session has an enabled Codex binding, or None
  state,     \* state.json: owner and supervisor; owner None is no file
  lock,      \* inode of the lock file, 0 when there is none
  inodes,    \* inodes created so far
  sock,      \* whose listener the control socket path leads to, 0 if none
  proc,      \* the supervisor processes
  cmd,       \* the commands in progress
  commands,  \* bound counter
  faults,    \* bound counter
  beside,    \* history: the last command to act began beside another one
  misled,    \* history: the commands whose view of the owner is out of date
  stray      \* history: the supervisors that got out of hand

vars == <<alive, bound, state, lock, inodes, sock, proc, cmd, commands, faults,
          beside, misled, stray>>

Proc == 1..MaxProc

NoState == [owner |-> None, sup |-> 0]
Unborn  == [pc |-> "unborn", inode |-> 0, st |-> None, term |-> FALSE, refused |-> FALSE]
Gone    == [Unborn EXCEPT !.pc = "gone"]
Idle    == [op |-> "none", by |-> None, pc |-> "idle", st |-> NoState,
            target |-> 0, next |-> "idle", tries |-> 0, force |-> FALSE,
            eligible |-> FALSE]

Live(p) == p # 0 /\ proc[p].pc \notin {"unborn", "gone"}

(* The owner runs, or an enabled binding of its session stands in for it. *)
Leased(o) == o \in alive \/ bound = o

(* The supervisor has its lock and its control socket, and the one that
   answers on the socket path, 0 if none does. *)
Serving(p) == proc[p].pc \in {"loop", "dial", "online"}

Answering == IF sock # 0 /\ Serving(sock) THEN sock ELSE 0

(* A command that may still stop, spawn, record or remove something: one
   that only waits for a healthy supervisor, or found nothing to collect,
   does not. *)
Acts(r) ==
  /\ r.pc # "idle"
  /\ ~(r.op = "ensure" /\ r.pc = "wait")
  /\ ~(r.op = "gc" /\ r.pc = "collect" /\ ~r.eligible)

----------------------------------------------------------------------------
Init ==
  /\ alive = Owner /\ bound = None
  /\ state = NoState /\ lock = 0 /\ inodes = 0 /\ sock = 0
  /\ proc = [p \in Proc |-> Unborn]
  /\ cmd = [c \in Cmd |-> Idle]
  /\ commands = 0 /\ faults = 0
  /\ beside = FALSE /\ misled = {} /\ stray = {}

Fault == faults < MaxFaults /\ faults' = faults + 1

files == <<state, lock, inodes, sock>>
bounds == <<commands, faults>>
aux    == <<beside, misled, stray>>

(* A query that answers no where the truth is yes has failed. *)
Misses(truth) == IF truth THEN Fault ELSE UNCHANGED faults

----------------------------------------------------------------------------
(* The supervisor process. *)

(* When a stray takes or removes the socket path, whoever had it is out of
   hand as well. *)
Displaced(p) == IF p \in stray THEN stray \cup ({sock} \ {0}) ELSE stray

(* Every orderly exit closes the listener, which unlinks the socket path
   whoever listens there by now, and then the lock file. *)
Exit(p) ==
  /\ proc' = [proc EXCEPT ![p] = Gone]
  /\ sock' = IF Serving(p) THEN 0 ELSE sock
  /\ stray' = IF Serving(p) THEN Displaced(p) ELSE stray
  /\ UNCHANGED <<beside, misled>>

(* LockHome creates the file if need be, and takes the lock of the file it
   opened, which may be unlinked by then, without waiting. *)
OpensLock(p) ==
  LET inode == IF lock = 0 THEN inodes + 1 ELSE lock
  IN  /\ proc[p].pc = "new"
      /\ lock' = inode
      /\ inodes' = IF lock = 0 THEN inode ELSE inodes
      /\ proc' = [proc EXCEPT ![p].pc = "open", ![p].inode = inode]
      /\ UNCHANGED <<alive, bound, state, sock, cmd, bounds, aux>>

Locked(inode) == \E q \in Proc : Live(q) /\ proc[q].pc # "open" /\ proc[q].inode = inode

LockHome(p) ==
  /\ proc[p].pc = "open"
  /\ proc' = [proc EXCEPT ![p] = IF Locked(@.inode) THEN Gone ELSE [@ EXCEPT !.pc = "locked"]]
  /\ UNCHANGED <<alive, bound, files, cmd, bounds, aux>>

(* The control socket is bound at its path, over whatever is there. *)
Listen(p) ==
  /\ proc[p].pc = "locked"
  /\ proc' = [proc EXCEPT ![p].pc = "loop"]
  /\ sock' = p
  /\ stray' = Displaced(p)
  /\ UNCHANGED <<alive, bound, state, lock, inodes, cmd, bounds, beside, misled>>

(* The head of the loop: without a session, or with one whose owner seems to
   be gone, the supervisor ends. *)
LoopEnds(p) ==
  /\ proc[p].pc = "loop"
  /\ state = NoState \/ bound # state.owner
  /\ Misses(state.owner \in alive)
  /\ Exit(p)
  /\ UNCHANGED <<alive, bound, state, lock, inodes, cmd, commands>>

(* The session is loaded, and the server dialled with it. *)
Dials(p) ==
  /\ proc[p].pc = "loop" /\ state # NoState /\ Leased(state.owner)
  /\ proc' = [proc EXCEPT ![p].pc = "dial", ![p].st = state.owner]
  /\ UNCHANGED <<alive, bound, files, cmd, bounds, aux>>

Connects(p) ==
  /\ proc[p].pc = "dial"
  /\ proc' = [proc EXCEPT ![p].pc = "online", ![p].refused = FALSE]
  /\ UNCHANGED <<alive, bound, files, cmd, bounds, aux>>

(* The server refuses the nick, or cannot be reached. *)
DialFails(p, nick) ==
  /\ proc[p].pc = "dial"
  /\ proc' = [proc EXCEPT ![p].pc = "loop", ![p].st = None, ![p].refused = nick]
  /\ UNCHANGED <<alive, bound, files, cmd, bounds, aux>>

(* The link breaks, is found silent, or was told to quit. *)
Disconnects(p) ==
  /\ proc[p].pc = "online"
  /\ proc' = [proc EXCEPT ![p].pc = "loop", ![p].st = None]
  /\ UNCHANGED <<alive, bound, files, cmd, bounds, aux>>

(* Slip: the tick of a connected supervisor looks at state.json, which may
   be gone or somebody else's. *)
OwnerEndedByFile(p) ==
  /\ proc[p].pc = "online" /\ state # NoState /\ bound # state.owner
  /\ Misses(state.owner \in alive)
  /\ Exit(p)
  /\ UNCHANGED <<alive, bound, state, lock, inodes, cmd, commands>>

(* The tick of a connected supervisor looks at the session it connected
   with, not at state.json. *)
OwnerEnded(p) ==
  /\ proc[p].pc = "online" /\ bound # proc[p].st
  /\ Misses(proc[p].st \in alive)
  /\ Exit(p)
  /\ UNCHANGED <<alive, bound, state, lock, inodes, cmd, commands>>

Terminates(p) ==
  /\ Live(p) /\ proc[p].term
  /\ Exit(p)
  /\ UNCHANGED <<alive, bound, state, lock, inodes, cmd, bounds>>

Crashes(p) ==
  /\ Live(p) /\ Fault
  /\ proc' = [proc EXCEPT ![p] = Gone]
  /\ UNCHANGED <<alive, bound, files, cmd, commands, aux>>

----------------------------------------------------------------------------
(* Commands.  Go(c, r): command c continues as r. *)
Go(c, r) == cmd' = [cmd EXCEPT ![c] = r]

(* Supervisors that are there while two commands act are out of hand. *)
Begin(c, r) ==
  /\ cmd[c].pc = "idle" /\ commands < MaxCommands
  /\ Go(c, r)
  /\ commands' = commands + 1
  /\ IF Acts(r)
       THEN LET company == \E d \in Cmd \ {c} : Acts(cmd[d])
            IN  /\ beside' = company
                /\ stray' = IF company THEN stray \cup {p \in Proc : Live(p)} ELSE stray
       ELSE UNCHANGED <<beside, stray>>

(* Command c looks at the owner of the record, and sees it as it is or not. *)
Looks(c, truly) ==
  /\ Misses(~truly)
  /\ misled' = IF truly THEN misled \ {c} ELSE misled \cup {c}

(* Command c writes the record: it knows it now, and the others under way do
   not when it has another owner. *)
Saves(c, st) ==
  /\ state' = st
  /\ misled' = (misled \ {c}) \cup
               {d \in Cmd \ {c} : cmd[d].pc # "idle" /\ st.owner # state.owner}
  /\ UNCHANGED <<beside, stray>>

(* Command c finds no process p, which runs when the query failed: then
   nobody looks after it any more. *)
Unseen(p) ==
  /\ Misses(Live(p))
  /\ stray' = IF Live(p) THEN stray \cup {p} ELSE stray
  /\ UNCHANGED <<beside, misled>>

(* StopVerifiedSupervisor(target), then the step next. *)
Stopping(r, target, next) == [r EXCEPT !.pc = "stop", !.target = target, !.next = next]

Signal(c) ==
  /\ cmd[c].pc = "stop" /\ Live(cmd[c].target) /\ ~proc[cmd[c].target].term
  /\ proc' = [proc EXCEPT ![cmd[c].target].term = TRUE]
  /\ UNCHANGED <<alive, bound, files, cmd, bounds, aux>>

(* After three seconds. *)
Kill(c) ==
  /\ cmd[c].pc = "stop" /\ Live(cmd[c].target) /\ proc[cmd[c].target].term
  /\ proc' = [proc EXCEPT ![cmd[c].target] = Gone]
  /\ UNCHANGED <<alive, bound, files, cmd, bounds, aux>>

(* The process is gone, or seems to be, before or after it was told to. *)
Stopped(c) ==
  /\ cmd[c].pc = "stop" /\ Unseen(cmd[c].target)
  /\ Go(c, IF cmd[c].next = "idle" THEN Idle ELSE [cmd[c] EXCEPT !.pc = cmd[c].next])
  /\ UNCHANGED <<alive, bound, files, proc, commands>>

(* A process ID not used before. *)
Spawned == CHOOSE p \in Proc : proc[p].pc = "unborn"
CanSpawn == \E p \in Proc : proc[p].pc = "unborn"

Spawn(c, next) ==
  /\ CanSpawn
  /\ proc' = [proc EXCEPT ![Spawned].pc = "new"]
  /\ Go(c, [cmd[c] EXCEPT !.pc = next, !.target = Spawned])
  /\ stray' = IF beside THEN stray \cup {Spawned} ELSE stray
  /\ UNCHANGED <<beside, misled>>

----------------------------------------------------------------------------
(* session start. *)

(* Slip: nobody's session is left alone. *)
MayStartAlways(o, takeover) == TRUE

(* Another live owner's session is left alone, unless told otherwise. *)
MayStart(o, takeover) == takeover \/ state.owner \notin alive \ {o}

(* Slip: the supervisor of the replaced session is left running. *)
StartBeginsBeside(c, o, takeover) ==
  /\ o \in alive /\ Looks(c, MayStart(o, takeover))
  /\ Begin(c, [Idle EXCEPT !.op = "start", !.by = o, !.force = takeover,
                           !.st = [owner |-> o, sup |-> 0], !.pc = "save"])
  /\ UNCHANGED <<alive, bound, files, proc>>

StartBegins(c, o, takeover) ==
  /\ o \in alive /\ Looks(c, MayStart(o, takeover))
  /\ Begin(c, Stopping([Idle EXCEPT !.op = "start", !.by = o, !.force = takeover,
                                    !.st = [owner |-> o, sup |-> 0]],
                       state.sup, "save"))
  /\ UNCHANGED <<alive, bound, files, proc>>

StartSaves(c) ==
  /\ cmd[c].op = "start" /\ cmd[c].pc = "save"
  /\ Saves(c, cmd[c].st)
  /\ Go(c, [cmd[c] EXCEPT !.pc = "spawn"])
  /\ UNCHANGED <<alive, bound, lock, inodes, sock, proc, bounds>>

StartSpawns(c) ==
  /\ cmd[c].op = "start" /\ cmd[c].pc = "spawn"
  /\ Spawn(c, "record")
  /\ UNCHANGED <<alive, bound, files, bounds>>

StartRecords(c) ==
  /\ cmd[c].op = "start" /\ cmd[c].pc = "record"
  /\ Saves(c, [cmd[c].st EXCEPT !.sup = cmd[c].target])
  /\ Go(c, [cmd[c] EXCEPT !.pc = "wait"])
  /\ UNCHANGED <<alive, bound, lock, inodes, sock, proc, bounds>>

(* The start time of the new process cannot be read: it is left alone. *)
StartLosesProcess(c) ==
  /\ cmd[c].op = "start" /\ cmd[c].pc = "record" /\ Unseen(cmd[c].target)
  /\ Go(c, [cmd[c] EXCEPT !.pc = "discard"])
  /\ UNCHANGED <<alive, bound, files, proc, commands>>

(* The control socket answers and its supervisor holds a connection. *)
Reachable == Answering # 0 /\ proc[Answering].pc = "online"

(* Health reads state.json, or takes its own record when there is none, and
   asks whoever answers; it does not compare them with the session this
   command started. *)
Healthy(own) ==
  LET st == IF state = NoState THEN own ELSE state
  IN  st.owner \in alive /\ Live(st.sup) /\ Reachable

StartSucceeds(c) ==
  /\ cmd[c].op = "start" /\ cmd[c].pc = "wait"
  /\ Healthy([cmd[c].st EXCEPT !.sup = cmd[c].target])
  /\ Go(c, Idle)
  /\ UNCHANGED <<alive, bound, files, proc, bounds, aux>>

(* Slip: a refused nick is tried again for ever. *)
StartNickTakenForever(c) ==
  /\ cmd[c].op = "start" /\ cmd[c].pc = "wait"
  /\ Answering # 0 /\ proc[Answering].pc # "online" /\ proc[Answering].refused
  /\ Go(c, Stopping([cmd[c] EXCEPT !.tries = @ + 1], cmd[c].target, "spawn"))
  /\ UNCHANGED <<alive, bound, files, proc, bounds, aux>>

(* A refused nick is tried again with a new supervisor. *)
StartNickTaken(c) ==
  /\ cmd[c].op = "start" /\ cmd[c].pc = "wait"
  /\ Answering # 0 /\ proc[Answering].pc # "online" /\ proc[Answering].refused
  /\ Go(c, Stopping([cmd[c] EXCEPT !.tries = @ + 1], cmd[c].target,
                    IF cmd[c].tries + 1 < NickAttempts THEN "spawn" ELSE "discard"))
  /\ UNCHANGED <<alive, bound, files, proc, bounds, aux>>

(* The new process is gone, or seems to be. *)
StartFindsExit(c) ==
  /\ cmd[c].op = "start" /\ cmd[c].pc = "wait" /\ Unseen(cmd[c].target)
  /\ Go(c, [cmd[c] EXCEPT !.pc = "discard"])
  /\ UNCHANGED <<alive, bound, files, proc, commands>>

(* Slip: a start that times out leaves its supervisor running. *)
StartTimesOutUnstopped(c) ==
  /\ cmd[c].op = "start" /\ cmd[c].pc \in {"record", "wait"}
  /\ Go(c, [cmd[c] EXCEPT !.pc = "discard"])
  /\ UNCHANGED <<alive, bound, files, proc, bounds, aux>>

(* The record cannot be saved, the deadline passes, the nick is invalid, or
   the command is cancelled. *)
StartTimesOut(c) ==
  /\ cmd[c].op = "start" /\ cmd[c].pc \in {"record", "wait"}
  /\ Go(c, Stopping(cmd[c], cmd[c].target, "discard"))
  /\ UNCHANGED <<alive, bound, files, proc, bounds, aux>>

(* discardSession removes what the home holds by now, in two steps; so it
   does at once when no supervisor can be spawned. *)
StartDiscards(c) ==
  /\ cmd[c].op = "start" /\ cmd[c].pc \in {"spawn", "discard"}
  /\ Saves(c, NoState)
  /\ Go(c, [cmd[c] EXCEPT !.pc = "unlock"])
  /\ UNCHANGED <<alive, bound, lock, inodes, sock, proc, bounds>>

StartUnlocks(c) ==
  /\ cmd[c].op = "start" /\ cmd[c].pc = "unlock"
  /\ lock' = 0
  /\ Go(c, Idle)
  /\ UNCHANGED <<alive, bound, state, inodes, sock, proc, bounds, aux>>

----------------------------------------------------------------------------
(* Ensure: what join, part, send, direct, members, poll and watch do first.
   It recovers the session of whoever owns it. *)

(* The supervisor runs and answers on the socket; neither may be seen. *)
EnsureBegins(c) ==
  /\ state # NoState /\ Leased(state.owner)
  /\ misled' = misled \ {c}
  /\ LET r == [Idle EXCEPT !.op = "ensure", !.st = state]
         healthy == Live(state.sup) /\ Reachable
     IN  \/ /\ healthy /\ UNCHANGED faults
            /\ Begin(c, [r EXCEPT !.pc = "wait"])
         \/ /\ Misses(healthy)
            /\ Begin(c, Stopping(r, state.sup, "spawn"))
  /\ UNCHANGED <<alive, bound, files, proc>>

EnsureSpawns(c) ==
  /\ cmd[c].op = "ensure" /\ cmd[c].pc = "spawn"
  /\ Spawn(c, "record")
  /\ UNCHANGED <<alive, bound, files, bounds>>

(* Slip: the new supervisor is not recorded. *)
EnsureForgets(c) ==
  /\ cmd[c].op = "ensure" /\ cmd[c].pc = "record"
  /\ Go(c, [cmd[c] EXCEPT !.pc = "wait"])
  /\ UNCHANGED <<alive, bound, files, proc, bounds, aux>>

(* The record loaded at the beginning is saved with the new supervisor. *)
EnsureRecords(c) ==
  /\ cmd[c].op = "ensure" /\ cmd[c].pc = "record"
  /\ Saves(c, [cmd[c].st EXCEPT !.sup = cmd[c].target])
  /\ Go(c, [cmd[c] EXCEPT !.pc = "wait", !.st.sup = cmd[c].target])
  /\ UNCHANGED <<alive, bound, lock, inodes, sock, proc, bounds>>

(* The start time of the new process cannot be read, or the record not be
   saved. *)
EnsureLosesProcess(c) ==
  /\ cmd[c].op = "ensure" /\ cmd[c].pc = "record" /\ Unseen(cmd[c].target)
  /\ Go(c, Idle)
  /\ UNCHANGED <<alive, bound, files, proc, commands>>

(* Ready, or timed out: either way the supervisor keeps running. *)
EnsureEnds(c) ==
  /\ cmd[c].op = "ensure" /\ cmd[c].pc = "wait"
  /\ Go(c, Idle)
  /\ UNCHANGED <<alive, bound, files, proc, bounds, aux>>

----------------------------------------------------------------------------
(* session stop. *)

StopBegins(c, o, force) ==
  /\ state # NoState /\ Looks(c, force \/ state.owner \notin alive \ {o})
  /\ Begin(c, Stopping([Idle EXCEPT !.op = "stop", !.by = o, !.st = state],
                       state.sup, "save"))
  /\ UNCHANGED <<alive, bound, files, proc>>

(* The record loaded at the beginning is saved without its supervisor. *)
StopSaves(c) ==
  /\ cmd[c].op = "stop" /\ cmd[c].pc = "save"
  /\ Saves(c, [cmd[c].st EXCEPT !.sup = 0])
  /\ Go(c, Idle)
  /\ UNCHANGED <<alive, bound, lock, inodes, sock, proc, bounds>>

----------------------------------------------------------------------------
(* client gc. *)

(* Survey: is the home without an owner, as far as can be seen? *)
GcSurveys(c) ==
  /\ state # NoState
  /\ \E seen \in BOOLEAN :
       /\ seen => state.owner \in alive
       /\ Looks(c, seen \/ state.owner \notin alive)
       /\ Begin(c, [Idle EXCEPT !.op = "gc", !.pc = "collect",
                                !.eligible = ~seen /\ bound # state.owner])
  /\ UNCHANGED <<alive, bound, files, proc>>

(* The state is loaded again, and its supervisor stopped, on the verdict of
   the survey. *)
GcCollects(c, prune) ==
  /\ cmd[c].op = "gc" /\ cmd[c].pc = "collect"
  /\ Go(c, IF state = NoState \/ ~cmd[c].eligible
             THEN Idle
             ELSE Stopping([cmd[c] EXCEPT !.st = state], state.sup,
                           IF prune THEN "prune" ELSE "idle"))
  /\ UNCHANGED <<alive, bound, files, proc, bounds, aux>>

GcPrunes(c) ==
  /\ cmd[c].op = "gc" /\ cmd[c].pc = "prune"
  /\ Saves(c, NoState) /\ lock' = 0 /\ sock' = 0 /\ bound' = None
  /\ Go(c, Idle)
  /\ UNCHANGED <<alive, inodes, proc, bounds>>

----------------------------------------------------------------------------
(* A command is killed, or its process ends with its agent's.  A supervisor
   it was about, and the record does not name, is out of hand then. *)
Killed(c) ==
  /\ cmd[c].pc # "idle"
  /\ Go(c, Idle)
  /\ stray' = stray \cup {p \in {cmd[c].target} \ {state.sup} : Live(p)}
  /\ UNCHANGED <<alive, bound, files, proc, bounds, beside, misled>>

OwnerEnds(o) ==
  /\ o \in alive
  /\ alive' = alive \ {o}
  /\ UNCHANGED <<bound, files, proc, cmd, bounds, aux>>

(* A bind request reaches the supervisor that serves the session; an unbind
   or a rebind ends the binding. *)
Binds(o) ==
  /\ Answering # 0 /\ state.owner = o /\ bound # o
  /\ bound' = o
  /\ UNCHANGED <<alive, files, proc, cmd, bounds, aux>>

Unbinds ==
  /\ Answering # 0 /\ bound # None
  /\ bound' = None
  /\ UNCHANGED <<alive, files, proc, cmd, bounds, aux>>

SupervisorStep(p) ==
  \/ OpensLock(p) \/ LockHome(p) \/ Listen(p) \/ LoopEnds(p) \/ Dials(p) \/ Connects(p)
  \/ \E nick \in BOOLEAN : DialFails(p, nick)
  \/ Disconnects(p) \/ OwnerEnded(p) \/ Terminates(p) \/ Crashes(p)

CommandStep(c) ==
  \/ \E o \in Owner, takeover \in BOOLEAN : StartBegins(c, o, takeover)
  \/ StartSaves(c) \/ StartSpawns(c) \/ StartRecords(c) \/ StartLosesProcess(c)
  \/ StartSucceeds(c) \/ StartNickTaken(c) \/ StartFindsExit(c)
  \/ StartTimesOut(c) \/ StartDiscards(c) \/ StartUnlocks(c)
  \/ EnsureBegins(c) \/ EnsureSpawns(c) \/ EnsureRecords(c)
  \/ EnsureLosesProcess(c) \/ EnsureEnds(c)
  \/ \E o \in Owner, force \in BOOLEAN : StopBegins(c, o, force)
  \/ StopSaves(c)
  \/ GcSurveys(c) \/ \E prune \in BOOLEAN : GcCollects(c, prune)
  \/ GcPrunes(c)
  \/ Signal(c) \/ Kill(c) \/ Stopped(c) \/ Killed(c)

Next ==
  \/ \E p \in Proc : SupervisorStep(p)
  \/ \E c \in Cmd : CommandStep(c)
  \/ \E o \in Owner : OwnerEnds(o) \/ Binds(o)
  \/ Unbinds

Spec == Init /\ [][Next]_vars

----------------------------------------------------------------------------
(* Properties. *)

State == [owner : Owner \cup {None}, sup : 0..MaxProc]

(* Every variable keeps its type. *)
TypeOK ==
  /\ alive \subseteq Owner /\ bound \in Owner \cup {None}
  /\ state \in State
  /\ lock \in 0..MaxProc /\ inodes \in 0..MaxProc /\ sock \in 0..MaxProc
  /\ proc \in [Proc -> [pc : {"unborn", "new", "open", "locked", "loop", "dial", "online", "gone"},
                        inode : 0..MaxProc, st : Owner \cup {None},
                        term : BOOLEAN, refused : BOOLEAN]]
  /\ cmd \in [Cmd -> [op : {"none", "start", "ensure", "stop", "gc"},
                      by : Owner \cup {None}, st : State, target : 0..MaxProc,
                      pc : {"idle", "stop", "save", "spawn", "record", "wait",
                            "discard", "unlock", "collect", "prune"},
                      next : {"idle", "save", "spawn", "discard", "prune"},
                      tries : 0..NickAttempts, force : BOOLEAN, eligible : BOOLEAN]]
  /\ commands \in 0..MaxCommands /\ faults \in 0..MaxFaults
  /\ beside \in BOOLEAN /\ misled \subseteq Cmd /\ stray \subseteq Proc

(* OneServer: of two supervisors that hold the nick and append to the log of
   one home, one is out of hand and holds a lock file that was removed.  So
   failed starts and prunes, which unlink the lock file that keeps others
   out, never do so under a supervisor that is in hand, and commands that
   overlap without unlinking it, Ensures say, never make two servers
   (LockHome, discardSession, StopVerifiedSupervisor). *)
OneServer ==
  \A p, q \in Proc :
    Serving(p) /\ Serving(q) /\ p # q =>
      \E r \in {p, q} : r \in stray /\ proc[r].inode # lock

Calm == \A c \in Cmd : ~Acts(cmd[c])

(* NoOrphan: while no command acts, a live supervisor that did not get out of
   hand is the one state.json names, and once it listens the control socket
   leads to it: later commands can talk to it and stop it (startOnce, Ensure,
   Stop, GCReport). *)
NoOrphan ==
  Calm => \A p \in Proc \ stray : Live(p) => state.sup = p /\ (Serving(p) => sock = p)

(* StartIsMine: a start that reports success has its own session on disk,
   unless somebody replaced it since, and its own supervisor behind the
   control socket, unless it ran beside another command or a stray answers
   there (Start, Health). *)
StartIsMine ==
  [][ \A c \in Cmd :
        StartSucceeds(c) =>
          /\ c \notin misled => state.owner = cmd[c].by
          /\ ~beside /\ Answering \notin stray => Answering = cmd[c].target ]_vars

(* LiveOwnerKept: the session of a live owner is only replaced or removed by
   its own start, by one told to take over, or by a command that looked at
   another record than the one it replaces, or saw a live owner as dead
   (Start, discardSession, GCReport, Ensure, Stop). *)
LiveOwnerKept ==
  [][ \A o \in alive :
        state.owner = o /\ state'.owner # o =>
          \E c \in Cmd : /\ cmd'[c] # cmd[c]
                         /\ \/ c \in misled
                            \/ cmd[c].op = "start" /\ (cmd[c].by = o \/ cmd[c].force) ]_vars

(* GcSparesLiveOwners: client gc never stops the supervisor, nor removes the
   home, of a session whose owner runs (GCReport, Survey). *)
GcSparesLiveOwners ==
  \A c \in Cmd :
    cmd[c].op = "gc" /\ cmd[c].pc \in {"stop", "prune"} => cmd[c].st.owner \notin alive

----------------------------------------------------------------------------
(* Fairness.  The supervisor's loop and its one-second ticker run by
   themselves and a dial has a deadline; nothing else is assumed of the IRC
   server, and nothing of the commands. *)
Scheduling ==
  \A p \in Proc :
    /\ WF_vars(OpensLock(p)) /\ WF_vars(LockHome(p)) /\ WF_vars(Listen(p))
    /\ WF_vars(LoopEnds(p) \/ OwnerEnded(p))
    /\ WF_vars(Connects(p) \/ \E nick \in BOOLEAN : DialFails(p, nick))

FairSpec == Spec /\ Scheduling

(* NoneOutlivesOwners: when the last owner is gone and no binding stands in
   for one, every supervisor ends, the ones no state.json names included
   (supervise, hasActiveCodexBinding). *)
NoneOutlivesOwners ==
  \A p \in Proc : alive = {} /\ bound = None /\ Live(p) ~> ~Live(p) \/ bound # None
=============================================================================
