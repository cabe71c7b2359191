--------------------------- MODULE IrcConnection ---------------------------
(***************************************************************************)
(* One IRC connection (dal/irc.Conn): the read loop, and the table that    *)
(* pairs what the server says with the goroutines that asked.  A request   *)
(* is filed under its kind and its target, not under its asker: a reply    *)
(* resolves whatever is filed there.                                       *)
(*                                                                         *)
(* The server answers a request when it is sent and its lines wait, in     *)
(* order, until the read loop handles them; only the order of a client's   *)
(* own lines can be observed, so nothing is lost by that.  Of the lines    *)
(* that are no answers, PING is left out, and PRIVMSG is the beginning of  *)
(* Inbox.  PART and KICK echoes are ignored by the code.                   *)
(*                                                                         *)
(* Any two requests may overlap, and an asker may give up at any moment.   *)
(* Two history facts, req[w].fresh and crossed, say what was under way     *)
(* when a request was sent; the properties name them, no guard reads them. *)
(***************************************************************************)
EXTENDS Integers, Sequences

CONSTANTS
  Channel,    \* channel names
  Nick,       \* targets of direct messages
  Waiter,     \* goroutines that may have a request: control handlers, supervisor
  None,       \* no request is filed
  Abandoned,  \* a request is filed that nobody waits for any more
  NameLines,  \* lines of a member list
  MaxDrops    \* bound: links that drop

ASSUME NoneAssumption == None \notin Waiter /\ Abandoned \notin Waiter /\ None # Abandoned
ASSUME ConnBoundsAssumption == NameLines \in Nat /\ MaxDrops \in Nat

VARIABLES
  link,      \* the socket, its read loop, the OnDisconnect callback and its signal
  inbound,   \* lines the server has sent and the read loop has not handled
  pending,   \* Conn.pending: who waits for the answer filed under a key
  req,       \* the request of each goroutine
  channels,  \* Conn.channels: confirmed by a JOIN echo
  member,    \* what the server knows: the channels this connection is in
  refused,   \* the channels it was last refused
  crossed,   \* history: channels last parted while the echo of a JOIN was under way
  drops      \* bound counter

connVars == <<link, inbound, pending, req, channels, member, refused, crossed, drops>>

Key == ({"join", "names"} \X Channel) \cup ({"privmsg"} \X Nick)

NoRequest == [key |-> <<>>, state |-> "none", ok |-> FALSE, lines |-> 0,
              truth |-> "none", here |-> FALSE, fresh |-> FALSE]
NoLink    == [up |-> FALSE, reading |-> FALSE, hooked |-> FALSE, told |-> FALSE]
NewLink   == [NoLink EXCEPT !.up = TRUE, !.reading = TRUE]

NothingFiled == [k \in Key |-> None]

ConnInit ==
  /\ link = NoLink /\ inbound = <<>>
  /\ pending = NothingFiled
  /\ req = [w \in Waiter |-> NoRequest]
  /\ channels = {} /\ member = {} /\ refused = {} /\ crossed = {} /\ drops = 0

----------------------------------------------------------------------------
(* The server. *)
Line(type, about) == [type |-> type, about |-> about]

NamesReply(c) == [i \in 1..NameLines |-> Line("353", c)] \o <<Line("366", c)>>

(* A JOIN of a channel one is in has no answer, nor has a direct message
   that is delivered. *)
Reply(key, truth) ==
  CASE key[1] = "names" -> NamesReply(key[2])
    [] key[1] = "join" /\ key[2] \in member -> <<>>
    [] key[1] = "join" /\ key[2] \notin member /\ truth = "accepted" ->
         <<Line("JOIN", key[2])>> \o NamesReply(key[2])
    [] key[1] = "join" /\ key[2] \notin member /\ truth = "refused" ->
         <<Line("473", key[2])>>
    [] key[1] = "privmsg" ->
         IF truth = "refused" THEN <<Line("401", key[2])>> ELSE <<>>

Verdicts(key) ==
  IF key[1] = "names" \/ (key[1] = "join" /\ key[2] \in member) THEN {"accepted"}
  ELSE {"accepted", "refused"}

ServerTakes(key, truth) ==
  /\ inbound' = inbound \o Reply(key, truth)
  /\ IF key[1] # "join" THEN UNCHANGED <<member, refused>>
     ELSE IF truth = "accepted"
          THEN member' = member \cup {key[2]} /\ refused' = refused \ {key[2]}
          ELSE refused' = refused \cup {key[2]} /\ UNCHANGED member

----------------------------------------------------------------------------
(* Requests. *)

(* resolvePending: whoever is filed under the key gets the outcome. *)
Resolved(keys, ok) ==
  [w \in Waiter |->
     IF \E k \in keys : pending[k] = w
     THEN [req[w] EXCEPT !.state = "answered", !.ok = ok] ELSE req[w]]

Unfiled(keys) == [k \in Key |-> IF k \in keys THEN None ELSE pending[k]]

ResolveKeeping(keys, ok) == req' = Resolved(keys, ok) /\ UNCHANGED pending

Resolve(keys, ok) == req' = Resolved(keys, ok) /\ pending' = Unfiled(keys)

(* No line about the target is under way: every earlier answer about it has
   come, or never will. *)
Fresh(target) == \A i \in DOMAIN inbound : inbound[i].about # target

Asked(key, truth, state) ==
  [key |-> key, state |-> state, ok |-> FALSE, lines |-> 0, truth |-> truth,
   here |-> TRUE, fresh |-> Fresh(key[2])]

(* Join, Names and PrivmsgDM up to their wait.  registerPending overwrites
   an entry somebody may still wait for.  What is written to a dead link is
   lost, and not always with an error. *)
Sends(w, key) ==
  /\ \E truth \in (IF link.up THEN Verdicts(key) ELSE {"lost"}) :
       /\ req' = [req EXCEPT ![w] = Asked(key, truth, "waiting")]
       /\ IF link.up THEN ServerTakes(key, truth) ELSE UNCHANGED <<inbound, member, refused>>
  /\ pending' = [pending EXCEPT ![key] = w]
  /\ UNCHANGED <<link, channels, crossed, drops>>

(* The write fails, and with it the request. *)
SendFails(w, key) ==
  /\ ~link.up
  /\ req' = [req EXCEPT ![w] = Asked(key, "lost", "answered")]
  /\ pending' = [pending EXCEPT ![key] = None]
  /\ UNCHANGED <<link, inbound, channels, member, refused, crossed, drops>>

Ask(w, key) == Sends(w, key) \/ SendFails(w, key)

(* Part waits for nothing: it trusts that the server obeys.  On a dead link
   the write may fail, and then the channel stays. *)
Parts(c, confirmed) ==
  /\ channels' = confirmed
  /\ member' = IF link.up THEN member \ {c} ELSE member
  /\ crossed' = IF Fresh(c) THEN crossed \ {c} ELSE crossed \cup {c}
  /\ UNCHANGED <<link, inbound, pending, req, refused, drops>>

(* Slip: the channel stays confirmed. *)
SendPartKeepsName(c) == Parts(c, channels)

SendPart(c) == Parts(c, channels \ {c}) \/ (~link.up /\ Parts(c, channels))

(* wait, of Join and Names: the entry stays where it is filed. *)
WaitEnds(w) ==
  /\ req[w].state = "waiting" /\ req[w].key[1] # "privmsg"
  /\ req' = [req EXCEPT ![w].state = "timeout"]
  /\ pending' = IF pending[req[w].key] = w
                THEN [pending EXCEPT ![req[w].key] = Abandoned] ELSE pending
  /\ UNCHANGED <<link, inbound, channels, member, refused, crossed, drops>>

(* The window of PrivmsgDM: a message nobody rejected is delivered, and
   whatever is filed under the key by now is resolved with that outcome. *)
WindowEnds(w) ==
  /\ req[w].state = "waiting" /\ req[w].key[1] = "privmsg"
  /\ LET others == IF req[w].here THEN {req[w].key} ELSE {}
     IN  /\ req' = [Resolved(others, TRUE) EXCEPT ![w].state = "answered", ![w].ok = TRUE]
         /\ pending' = Unfiled(others)
  /\ UNCHANGED <<link, inbound, channels, member, refused, crossed, drops>>

----------------------------------------------------------------------------
(* handle, by the line at the head of what the server sent. *)
HandleJoin(c) == channels' = channels \cup {c} /\ UNCHANGED <<pending, req>>

HandleNamesAsEnd(c) == Resolve({<<"names", c>>}, TRUE) /\ UNCHANGED channels

HandleNames(c) ==
  /\ req' = [w \in Waiter |-> IF pending[<<"names", c>>] = w
                              THEN [req[w] EXCEPT !.lines = @ + 1] ELSE req[w]]
  /\ UNCHANGED <<pending, channels>>

HandleEndOfNames(c) ==
  Resolve({<<"names", c>>, <<"join", c>>}, TRUE) /\ UNCHANGED channels

HandleDeniedAsDone(c) == Resolve({<<"join", c>>}, TRUE) /\ UNCHANGED channels

HandleDenied(c) == Resolve({<<"join", c>>}, FALSE) /\ UNCHANGED channels

HandleNoSuchNickDropped(n) == UNCHANGED <<pending, req, channels>>

HandleNoSuchNick(n) == Resolve({<<"privmsg", n>>}, FALSE) /\ UNCHANGED channels

HandleLine ==
  /\ link.reading /\ inbound # <<>>
  /\ LET line == Head(inbound)
     IN  CASE line.type = "JOIN" -> HandleJoin(line.about)
           [] line.type = "353"  -> HandleNames(line.about)
           [] line.type = "366"  -> HandleEndOfNames(line.about)
           [] line.type = "473"  -> HandleDenied(line.about)
           [] line.type = "401"  -> HandleNoSuchNick(line.about)
  /\ inbound' = Tail(inbound)
  /\ UNCHANGED <<link, member, refused, crossed, drops>>

(* The end of readLoop: requests that wait are not told, and the disconnect
   is only reported if OnDisconnect has been set by then. *)
ReadLoopEndsQuietly ==
  /\ link.reading /\ ~link.up /\ inbound = <<>>
  /\ link' = [link EXCEPT !.reading = FALSE]
  /\ UNCHANGED <<inbound, pending, req, channels, member, refused, crossed, drops>>

ReadLoopEnds ==
  /\ link.reading /\ ~link.up /\ inbound = <<>>
  /\ link' = [link EXCEPT !.reading = FALSE, !.told = link.hooked]
  /\ UNCHANGED <<inbound, pending, req, channels, member, refused, crossed, drops>>

----------------------------------------------------------------------------
(* The link. *)

(* Dial: the registration succeeds, with a table and a read loop of its own.
   What waits on an earlier connection goes on waiting there ("here" says
   whose table a request is filed in). *)
DialSucceeds ==
  /\ link' = NewLink /\ inbound' = <<>>
  /\ pending' = NothingFiled
  /\ req' = [w \in Waiter |-> [req[w] EXCEPT !.here = FALSE]]
  /\ channels' = {} /\ member' = {} /\ refused' = {} /\ crossed' = {}
  /\ UNCHANGED drops

(* The server or the network ends the link; lines under way may be lost. *)
Drops ==
  /\ link.up /\ drops < MaxDrops
  /\ drops' = drops + 1
  /\ link' = [link EXCEPT !.up = FALSE]
  /\ inbound' \in {inbound, <<>>}
  /\ UNCHANGED <<pending, req, channels, member, refused, crossed>>

(* Close by this side. *)
CloseLink ==
  link' = [link EXCEPT !.up = FALSE] /\ inbound' \in {inbound, <<>>}

Request == [key : Key \cup {<<>>}, state : {"none", "waiting", "answered", "timeout"},
            ok : BOOLEAN, lines : Nat, truth : {"none", "lost", "accepted", "refused"},
            here : BOOLEAN, fresh : BOOLEAN]

(* The last part: what is filed waits for the answer filed there; a request
   resolved twice would close its channel twice, which ends the process. *)
ConnTypeOK ==
  /\ link \in [up : BOOLEAN, reading : BOOLEAN, hooked : BOOLEAN, told : BOOLEAN]
  /\ \A i \in DOMAIN inbound :
       inbound[i] \in [type : {"JOIN", "353", "366", "473", "401"}, about : Channel \cup Nick]
  /\ pending \in [Key -> Waiter \cup {None, Abandoned}]
  /\ req \in [Waiter -> Request]
  /\ channels \subseteq Channel /\ member \subseteq Channel /\ refused \subseteq Channel
  /\ crossed \subseteq Channel
  /\ drops \in 0..MaxDrops
  /\ \A k \in Key, w \in Waiter :
       pending[k] = w => req[w].state = "waiting" /\ req[w].key = k /\ req[w].here
=============================================================================
