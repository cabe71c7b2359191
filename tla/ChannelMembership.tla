------------------------- MODULE ChannelMembership -------------------------
(***************************************************************************)
(* Which channels a client is in, according to three parties: the session  *)
(* record on disk (the roster), the connection, and the IRC server.  Three *)
(* kinds of actors change that: the commands channel join and channel      *)
(* part, which read the roster, ask the supervisor over the control        *)
(* socket, and write the whole record back; the supervisor, which rejoins  *)
(* the roster it read before it connected; and the link, which drops.      *)
(* The commands channel members and message dm only ask.  Commands overlap *)
(* each other and the rejoin in every way, and stall between any two steps.*)
(*                                                                         *)
(* A session exists and its supervisor runs (SessionLifecycle has the      *)
(* rest): a supervisor that Ensure replaces does what this one does from   *)
(* "load" on.  Channels are rejoined in any order, the code takes that of  *)
(* the roster.                                                             *)
(***************************************************************************)
EXTENDS IrcConnection

CONSTANTS
  Home,         \* the home channel
  Sup,          \* the supervisor's own goroutine, a waiter
  MaxCommands   \* bound: commands, and commands killed

ASSUME HomeAssumption == Home \in Channel /\ Sup \in Waiter
ASSUME CommandBoundsAssumption == MaxCommands \in Nat

VARIABLES
  roster,    \* the Channels of state.json
  published, \* controlHandler.conn is the connection, not nil
  sup,       \* where the supervisor's loop is
  cmd,       \* the commands in progress, one per control handler
  sure,      \* history: commands since whose request nobody else acted on their channel
  doubtful,  \* history: channels whose record may be wrong until it is read again
  commands   \* bound counter

history == <<sure, doubtful>>

vars == <<connVars, roster, published, sup, cmd, history, commands>>

Cmd == Waiter \ {Sup}

Idle == [op |-> "none", target |-> Home, pc |-> "idle", base |-> {}]

Init ==
  /\ ConnInit
  /\ roster = {Home} /\ published = FALSE
  /\ sup = [pc |-> "load", st |-> {}, todo |-> {}]
  /\ cmd = [c \in Cmd |-> Idle]
  /\ sure = {} /\ doubtful = {} /\ commands = 0

----------------------------------------------------------------------------
(* History, which no guard reads.  Whoever asks for a channel, or parts it,
   is the last to have done so; what the others about that channel were told
   no longer says what the server knows. *)
Elsewhere(target) == {c \in sure : cmd[c].target # target}

Doubts(names) == doubtful' = doubtful \cup names

----------------------------------------------------------------------------
(* The supervisor. *)
outcomes == <<roster, cmd, commands>>

files == <<outcomes, history>>

SupPc(pc) == sup' = [sup EXCEPT !.pc = pc]

(* The record read here is what will be rejoined: from here on it is right,
   but for what commands under way write into it. *)
Loads(st) ==
  /\ sup.pc = "load"
  /\ sup' = [sup EXCEPT !.pc = "dial", !.st = st]
  /\ sure' = {} /\ doubtful' = {}
  /\ UNCHANGED <<connVars, outcomes, published>>

(* Slip: only the first record is read. *)
SupLoadsOnce == Loads(IF sup.st = {} THEN roster ELSE sup.st)

SupLoads == Loads(roster)

SupDials ==
  /\ sup.pc = "dial" /\ DialSucceeds /\ SupPc("hook")
  /\ UNCHANGED <<files, published>>

SupDialFails ==
  /\ sup.pc = "dial" /\ SupPc("load") /\ published' = FALSE
  /\ UNCHANGED <<connVars, files>>

(* OnMessage, OnDisconnect and setConn. *)
SupHooks ==
  /\ sup.pc = "hook"
  /\ link' = [link EXCEPT !.hooked = TRUE]
  /\ published' = TRUE
  /\ sup' = [sup EXCEPT !.pc = "rejoin", !.todo = sup.st]
  /\ UNCHANGED <<inbound, pending, req, channels, member, refused, crossed, drops, files>>

(* A channel that was parted since the record was read is joined again. *)
SupRejoins(c) ==
  /\ sup.pc = "rejoin" /\ c \in sup.todo /\ req[Sup].state = "none"
  /\ Ask(Sup, <<"join", c>>)
  /\ sup' = [sup EXCEPT !.todo = @ \ {c}]
  /\ sure' = Elsewhere(c) /\ Doubts({c} \ roster)
  /\ UNCHANGED <<outcomes, published>>

(* A join that fails is logged, and that is all. *)
SupHasJoined ==
  /\ req[Sup].state \in {"answered", "timeout"}
  /\ req' = [req EXCEPT ![Sup] = NoRequest]
  /\ UNCHANGED <<link, inbound, pending, channels, member, refused, crossed, drops,
                 files, published, sup>>

SupRuns ==
  /\ sup.pc = "rejoin" /\ sup.todo = {} /\ req[Sup].state = "none"
  /\ SupPc("run")
  /\ UNCHANGED <<connVars, files, published>>

SupNotices ==
  /\ sup.pc = "run" /\ link.told
  /\ SupPc("load") /\ published' = FALSE
  /\ UNCHANGED <<connVars, files>>

(* Nothing was heard for livenessDeadline: a server that froze, or a read
   loop that is gone.  The connection is closed, but only the read loop's
   signal ends the loop. *)
SupHearsNothing ==
  /\ sup.pc = "run"
  /\ link.up => drops < MaxDrops
  /\ drops' = IF link.up THEN drops + 1 ELSE drops
  /\ CloseLink /\ published' = FALSE
  /\ UNCHANGED <<pending, req, channels, member, refused, crossed, files, sup>>

----------------------------------------------------------------------------
(* The commands. *)
server == <<roster, published, sup>>

Pc(c, pc) == cmd' = [cmd EXCEPT ![c].pc = pc]

Ends(c) == cmd' = [cmd EXCEPT ![c] = Idle]

ChangesRecord(op) == op \in {"join", "part"}

(* Ensure found the session healthy, and the command its preconditions in
   the record that Ensure returned, which it keeps. *)
Begins(c, op, target) ==
  /\ cmd[c].pc = "idle" /\ commands < MaxCommands /\ published
  /\ cmd' = [cmd EXCEPT ![c] = [op |-> op, target |-> target, pc |-> "call", base |-> roster]]
  /\ commands' = commands + 1
  /\ UNCHANGED <<connVars, server, history>>

Join(c, channel) == channel \notin roster /\ Begins(c, "join", channel)
PartAny(c, channel) == Begins(c, "part", channel)
Part(c, channel) == channel # Home /\ Begins(c, "part", channel)
Members(c, channel) == channel \in roster /\ Begins(c, "names", channel)
DM(c, nick) == Begins(c, "privmsg", nick)

(* The supervisor's handler, with the connection it finds. *)
HandlerAsks(c) ==
  /\ cmd[c].pc = "call" /\ cmd[c].op # "part" /\ published
  /\ Ask(c, <<cmd[c].op, cmd[c].target>>)
  /\ Pc(c, "wait")
  /\ sure' = IF cmd[c].op = "join" THEN Elsewhere(cmd[c].target) \cup {c} ELSE sure
  /\ UNCHANGED <<server, doubtful, commands>>

HandlerParts(c) ==
  /\ cmd[c].pc = "call" /\ cmd[c].op = "part" /\ published
  /\ SendPart(cmd[c].target)
  /\ Pc(c, "save")
  /\ sure' = Elsewhere(cmd[c].target) \cup {c}
  /\ UNCHANGED <<server, doubtful, commands>>

(* channel part does not look at the answer, only whether there is one. *)
HandlerHasNoConnection(c) ==
  /\ cmd[c].pc = "call" /\ ~published
  /\ IF cmd[c].op = "part" THEN Pc(c, "save") ELSE Ends(c)
  /\ UNCHANGED <<connVars, server, history, commands>>

(* The control request gets no answer at all. *)
CallFails(c) ==
  /\ cmd[c].pc = "call" /\ Ends(c)
  /\ UNCHANGED <<connVars, server, history, commands>>

(* The command ends without a save. *)
Abandons(c) ==
  /\ sure' = sure \ {c}
  /\ Doubts(IF ChangesRecord(cmd[c].op) THEN {cmd[c].target} ELSE {})

(* The command's own ten seconds are over; its handler goes on. *)
GivesUp(c) ==
  /\ cmd[c].pc = "wait" /\ req[c].state = "waiting"
  /\ Pc(c, "left") /\ Abandons(c)
  /\ UNCHANGED <<connVars, server, commands>>

(* A join that was refused changed nothing, if the refusal is its own. *)
Refused(c) == c \in sure /\ req[c].state = "answered" /\ req[c].fresh

HandlerReplies(c) ==
  /\ cmd[c].pc \in {"wait", "left"} /\ req[c].state \in {"answered", "timeout"}
  /\ req' = [req EXCEPT ![c] = NoRequest]
  /\ IF cmd[c].pc = "wait" /\ cmd[c].op = "join" /\ req[c].ok
     THEN Pc(c, "save") /\ UNCHANGED history
     ELSE /\ Ends(c)
          /\ IF cmd[c].pc = "left" THEN UNCHANGED history
             ELSE IF Refused(c) THEN sure' = sure \ {c} /\ UNCHANGED doubtful
             ELSE Abandons(c)
  /\ UNCHANGED <<link, inbound, pending, channels, member, refused, crossed, drops,
                 server, commands>>

(* Whatever others wrote since the base was read is undone. *)
Undone(c) == (cmd[c].base \ roster) \cup (roster \ cmd[c].base)

Saves(c) ==
  /\ cmd[c].pc = "save"
  /\ roster' = IF cmd[c].op = "join" THEN cmd[c].base \cup {cmd[c].target}
               ELSE cmd[c].base \ {cmd[c].target}
  /\ sure' = sure \ {c}
  /\ doubtful' = IF c \in sure THEN (doubtful \cup Undone(c)) \ {cmd[c].target}
                 ELSE doubtful \cup Undone(c) \cup {cmd[c].target}
  /\ Ends(c)
  /\ UNCHANGED <<connVars, published, sup, commands>>

(* A command that is killed leaves its handler behind, and the record as it
   was. *)
Killed(c) ==
  /\ cmd[c].pc \in {"wait", "save"} /\ commands < MaxCommands
  /\ commands' = commands + 1
  /\ IF cmd[c].pc = "wait" THEN Pc(c, "left") ELSE Ends(c)
  /\ Abandons(c)
  /\ UNCHANGED <<connVars, server>>

----------------------------------------------------------------------------
ConnStep(A) == A /\ UNCHANGED <<server, cmd, history, commands>>

SupStep ==
  \/ SupLoads \/ SupDials \/ SupDialFails \/ SupHooks \/ SupHasJoined
  \/ SupRuns \/ SupNotices \/ SupHearsNothing
  \/ \E channel \in Channel : SupRejoins(channel)

CmdStep(c) ==
  \/ \E channel \in Channel :
       Join(c, channel) \/ Part(c, channel) \/ Members(c, channel)
  \/ \E nick \in Nick : DM(c, nick)
  \/ HandlerAsks(c) \/ HandlerParts(c) \/ HandlerHasNoConnection(c)
  \/ CallFails(c) \/ GivesUp(c) \/ HandlerReplies(c) \/ Saves(c) \/ Killed(c)

Next ==
  \/ SupStep
  \/ \E c \in Cmd : CmdStep(c)
  \/ ConnStep(HandleLine) \/ ConnStep(ReadLoopEnds) \/ ConnStep(Drops)
  \/ \E w \in Waiter : ConnStep(WaitEnds(w)) \/ ConnStep(WindowEnds(w))

Spec == Init /\ [][Next]_vars

----------------------------------------------------------------------------
TypeOK ==
  /\ ConnTypeOK
  /\ roster \subseteq Channel /\ published \in BOOLEAN
  /\ sup \in [pc : {"load", "dial", "hook", "rejoin", "run"},
              st : SUBSET Channel, todo : SUBSET Channel]
  /\ cmd \in [Cmd -> [op : {"none", "join", "part", "names", "privmsg"},
                      target : Channel \cup Nick,
                      pc : {"idle", "call", "wait", "left", "save"},
                      base : SUBSET Channel]]
  /\ sure \subseteq Cmd /\ doubtful \subseteq Channel
  /\ commands \in 0..MaxCommands

Answered(w, kind) == req[w].state = "answered" /\ req[w].key[1] = kind

(* JoinConfirmed: a join is reported as done exactly when the server let the
   client in on that request, although every 366 of the channel ends a join
   that waits, and other joins of it take its place in the table; unless an
   answer about the channel was still under way when it was sent (Conn.Join,
   handle). *)
JoinConfirmed ==
  \A w \in Waiter : Answered(w, "join") /\ req[w].fresh =>
    (req[w].ok <=> req[w].truth = "accepted")

(* NamesWhole: a member list that is returned is one whole list, however many
   others ask for the channel meanwhile, and wherever the link drops; again
   unless an answer about the channel was still under way (Conn.Names). *)
NamesWhole ==
  \A w \in Waiter : Answered(w, "names") /\ req[w].ok /\ req[w].fresh =>
    req[w].lines = NameLines

(* RejectionMine: a direct message that was rejected is reported as delivered
   only if the rejection had not come when its window ended, or that of
   another to the same nick, or if that other took its place in the table, or
   the link was lost; and one that is reported as rejected after a wait was
   rejected itself, unless an earlier rejection was still under way.  One
   that could not be written is reported as rejected at once, which is not
   true of it (Conn.PrivmsgDM, privmsg). *)
RejectionMine ==
  [][\A w \in Waiter :
       req[w].state = "waiting" /\ req[w].key[1] = "privmsg" /\ req'[w].state = "answered" =>
         IF req'[w].ok
         THEN \/ req[w].truth # "refused"
              \/ pending[req[w].key] # w \/ ~link.up
              \/ \E i \in DOMAIN inbound' : inbound'[i] = Line("401", req[w].key[2])
         ELSE req[w].fresh => req[w].truth = "refused"]_vars

AtRest ==
  /\ sup.pc = "run" /\ link.up /\ inbound = <<>>
  /\ \A c \in Cmd : cmd[c].pc \in {"idle", "call", "left"}

(* RosterIsMembership: whenever nothing is under way the client is in the
   channels of its record, as far as the server lets it in, and in no other,
   across links that drop, commands that are killed and commands that
   overlap.  A channel is in doubt only if the last command about it was not
   alone with it or did not end well, if a save undid another, or if it was
   rejoined after it had been parted; and no longer than until a command
   alone with it ends well, or the record is read for the next connection
   (ChatService.Join, Part, supervise). *)
RosterIsMembership == AtRest => member \ doubtful = (roster \ refused) \ doubtful

(* StatusIsMembership: the channels its status reports, by which Health
   judges it and to which it says goodbye, are those it is in, and besides
   only channels parted before the echo of their join had come
   (Conn.Channels, announceDeparture). *)
StatusIsMembership == AtRest => member \subseteq channels /\ channels \ crossed \subseteq member

(* HomeHeld: on a live link, once channels are rejoined, no command takes the
   client out of its home channel (CanPart, supervise). *)
HomeHeld == sup.pc = "run" /\ link.up => Home \in member \cup refused

----------------------------------------------------------------------------
(* Fairness.  The read loop and the supervisor's loop run by themselves, and
   every wait has a deadline.  Nothing is assumed of the server, nor of when
   commands are given. *)
Scheduling ==
  /\ WF_vars(ConnStep(HandleLine)) /\ WF_vars(ConnStep(ReadLoopEnds))
  /\ \A w \in Waiter : WF_vars(ConnStep(WaitEnds(w)) \/ ConnStep(WindowEnds(w)))
  /\ WF_vars(SupNotices) /\ WF_vars(SupHasJoined) /\ WF_vars(SupRuns) /\ WF_vars(SupHooks)
  /\ WF_vars(\E channel \in Channel : SupRejoins(channel))
  /\ \A c \in Cmd : WF_vars(HandlerReplies(c)) /\ WF_vars(Saves(c))
                    /\ WF_vars(HandlerAsks(c) \/ HandlerParts(c)
                               \/ HandlerHasNoConnection(c) \/ CallFails(c))

FairSpec == Spec /\ Scheduling

(* Recovers: a supervisor whose connection is gone goes back to dialling, if
   the link dropped after OnDisconnect was set: while channels were being
   rejoined, while commands waited, or because the server froze (supervise,
   readLoop). *)
Recovers ==
  /\ sup.pc \in {"hook", "rejoin", "run"} /\ ~link.up
  /\ (link.hooked /\ link.reading) \/ link.told
  ~> sup.pc = "load"

(* RecoversAlways: and without that condition. *)
RecoversAlways == sup.pc \in {"hook", "rejoin", "run"} /\ ~link.up ~> sup.pc = "load"
=============================================================================
