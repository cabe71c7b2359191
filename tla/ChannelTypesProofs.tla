------------------------- MODULE ChannelTypesProofs -------------------------
(***************************************************************************)
(* Proofs about ChannelMembership that need little of what is under way:   *)
(* what is filed in the table of a connection always waits for it, and the *)
(* client keeps its home channel.  Also what each operation of the         *)
(* connection does to the requests, which ChannelMembershipProofs uses.    *)
(***************************************************************************)
EXTENDS ChannelMembership, SequenceTheorems, TLAPS

ChannelLine == [type : {"JOIN", "353", "366", "473"}, about : Channel]
NickLine == [type : {"401"}, about : Nick]
AnyLine == ChannelLine \cup NickLine

ReqState == {"none", "waiting", "answered", "timeout"}
Truth == {"none", "lost", "accepted", "refused"}

CmdPc == {"idle", "call", "wait", "left", "save"}
CmdRecord == [op : {"none", "join", "part", "names", "privmsg"},
              target : Channel \cup Nick, pc : CmdPc, base : SUBSET Channel]

SupPlace == {"load", "dial", "hook", "rejoin", "run"}
SupRecord == [pc : SupPlace, st : SUBSET Channel, todo : SUBSET Channel]

LinkRecord == [up : BOOLEAN, reading : BOOLEAN, hooked : BOOLEAN, told : BOOLEAN]

(* What is filed waits for what is filed. *)
Filing == \A k \in Key, w \in Waiter :
            pending[k] = w => req[w].state = "waiting" /\ req[w].key = k /\ req[w].here

(* A handler has a request from its call to its reply, and of the kind that
   the command is. *)
Ordered(c) ==
  /\ cmd[c].pc = "idle" <=> cmd[c].op = "none"
  /\ cmd[c].op = "privmsg" => cmd[c].target \in Nick
  /\ cmd[c].op \in {"join", "part", "names"} => cmd[c].target \in Channel
  /\ req[c].state = "none" <=> cmd[c].pc \notin {"wait", "left"}
  /\ req[c].state # "none" => req[c].key = <<cmd[c].op, cmd[c].target>>
  /\ cmd[c].pc \in {"wait", "left"} => cmd[c].op # "part"
  /\ cmd[c].pc = "save" => cmd[c].op \in {"join", "part"}

Orders == \A c \in Cmd : Ordered(c)

(* The supervisor asks to join. *)
SupJoins == req[Sup].state # "none" => \E c \in Channel : req[Sup].key = <<"join", c>>

LinkTypes == link \in LinkRecord /\ drops \in 0..MaxDrops
LineTypes == inbound \in Seq(AnyLine)
FileTypes == pending \in [Key -> Waiter \cup {None, Abandoned}] /\ Filing
ReqTypes == /\ req \in [Waiter -> Request]
            /\ \A w \in Waiter : req[w].state # "none" => req[w].key \in Key
NameTypes == /\ channels \subseteq Channel /\ member \subseteq Channel
             /\ refused \subseteq Channel /\ crossed \subseteq Channel
SupTypes == sup \in SupRecord /\ roster \subseteq Channel /\ published \in BOOLEAN
CmdTypes == cmd \in [Cmd -> CmdRecord] /\ commands \in 0..MaxCommands
HistoryTypes == sure \subseteq Cmd /\ doubtful \subseteq Channel

Types ==
  /\ LinkTypes /\ LineTypes /\ FileTypes /\ ReqTypes /\ NameTypes /\ SupTypes /\ CmdTypes
  /\ Orders /\ SupJoins

----------------------------------------------------------------------------
(* Keys, lines and records. *)

LEMMA Keys ==
  /\ \A c \in Channel : <<"join", c>> \in Key /\ <<"names", c>> \in Key
  /\ \A n \in Nick : <<"privmsg", n>> \in Key
  /\ \A k \in Key : /\ k = <<k[1], k[2]>>
                    /\ (k[1] \in {"join", "names"} /\ k[2] \in Channel) \/ (k[1] = "privmsg" /\ k[2] \in Nick)
BY DEF Key

LEMMA LineKinds ==
  /\ \A c \in Channel : /\ Line("JOIN", c) \in AnyLine /\ Line("353", c) \in AnyLine
                        /\ Line("366", c) \in AnyLine /\ Line("473", c) \in AnyLine
  /\ \A n \in Nick : Line("401", n) \in AnyLine
  /\ \A t, x : Line(t, x).type = t /\ Line(t, x).about = x
  /\ \A l \in AnyLine : /\ l = Line(l.type, l.about)
                        /\ \/ l.type \in {"JOIN", "353", "366", "473"} /\ l.about \in Channel
                           \/ l.type = "401" /\ l.about \in Nick
BY DEF Line, AnyLine, ChannelLine, NickLine

LEMMA NamesLines ==
  ASSUME NEW c \in Channel
  PROVE  /\ NamesReply(c) \in Seq(AnyLine) /\ Len(NamesReply(c)) = NameLines + 1
         /\ \A i \in 1..NameLines : NamesReply(c)[i] = Line("353", c)
         /\ NamesReply(c)[NameLines + 1] = Line("366", c)
<1> DEFINE s == [i \in 1..NameLines |-> Line("353", c)]
           t == <<Line("366", c)>>
<1>1. NameLines \in Nat /\ Line("353", c) \in AnyLine /\ Line("366", c) \in AnyLine
  BY ConnBoundsAssumption, LineKinds
<1>2. s \in Seq(AnyLine) /\ Len(s) = NameLines /\ t \in Seq(AnyLine) /\ Len(t) = 1
  BY <1>1
<1>3. s \o t \in Seq(AnyLine) /\ Len(s \o t) = Len(s) + Len(t)
      /\ \A i \in 1..(Len(s) + Len(t)) : (s \o t)[i] = IF i <= Len(s) THEN s[i] ELSE t[i - Len(s)]
  BY <1>2, ConcatProperties
<1>4. NamesReply(c) = s \o t
  BY DEF NamesReply
<1>5. \A i \in 1..NameLines : s[i] = Line("353", c)
  OBVIOUS
<1>6. t[1] = Line("366", c)
  OBVIOUS
<1> HIDE DEF s, t
<1> QED BY <1>1, <1>2, <1>3, <1>4, <1>5, <1>6

LEMMA ReqFields ==
  ASSUME ReqTypes, NEW w \in Waiter
  PROVE  /\ req[w] \in Request /\ req[w].key \in Key \cup {<<>>} /\ req[w].state \in ReqState
         /\ req[w].ok \in BOOLEAN /\ req[w].lines \in Nat /\ req[w].truth \in Truth
         /\ req[w].here \in BOOLEAN /\ req[w].fresh \in BOOLEAN
BY DEF ReqTypes, Request, ReqState, Truth

LEMMA CmdFields ==
  ASSUME CmdTypes, NEW c \in Cmd
  PROVE  /\ cmd[c] \in CmdRecord /\ cmd[c].op \in {"none", "join", "part", "names", "privmsg"}
         /\ cmd[c].target \in Channel \cup Nick /\ cmd[c].pc \in CmdPc /\ cmd[c].base \subseteq Channel
BY DEF CmdTypes, CmdRecord

LEMMA SupFields ==
  ASSUME SupTypes
  PROVE  sup.pc \in SupPlace /\ sup.st \subseteq Channel /\ sup.todo \subseteq Channel
BY DEF SupTypes, SupRecord

LEMMA LinkFields ==
  ASSUME LinkTypes
  PROVE  link.up \in BOOLEAN /\ link.reading \in BOOLEAN /\ link.hooked \in BOOLEAN /\ link.told \in BOOLEAN
BY DEF LinkTypes, LinkRecord

LEMMA Outsiders ==
  /\ \A w \in Waiter : w # None /\ w # Abandoned
  /\ Sup \in Waiter /\ Cmd \subseteq Waiter /\ Sup \notin Cmd /\ Waiter = Cmd \cup {Sup}
  /\ Home \in Channel
BY NoneAssumption, HomeAssumption DEF Cmd

(* Types are those of the specification. *)
LEMMA TypesGiveTypeOK ==
  ASSUME Types, HistoryTypes
  PROVE  TypeOK
<1>1. \A i \in DOMAIN inbound :
        inbound[i] \in [type : {"JOIN", "353", "366", "473", "401"}, about : Channel \cup Nick]
  BY DEF Types, LineTypes, AnyLine, ChannelLine, NickLine
<1>2. ConnTypeOK
  BY <1>1 DEF Types, ConnTypeOK, LinkTypes, LinkRecord, FileTypes, Filing, ReqTypes, NameTypes
<1> QED BY <1>2 DEF Types, TypeOK, SupTypes, SupRecord, SupPlace, CmdTypes, CmdRecord, CmdPc,
                       HistoryTypes

----------------------------------------------------------------------------
(* What the operations of the connection do to requests. *)

SameAsk(w) ==
  /\ req'[w].key = req[w].key /\ req'[w].here = req[w].here
  /\ req'[w].truth = req[w].truth /\ req'[w].fresh = req[w].fresh

(* w waits for one of the keys. *)
Filed(keys, w) == \E k \in keys : pending[k] = w

LEMMA Resolving ==
  ASSUME ReqTypes, NEW keys, NEW ok \in BOOLEAN, NEW f, f = Resolved(keys, ok)
  PROVE  /\ f \in [Waiter -> Request]
         /\ \A w \in Waiter :
              /\ f[w].key = req[w].key /\ f[w].here = req[w].here
              /\ f[w].truth = req[w].truth /\ f[w].lines = req[w].lines /\ f[w].fresh = req[w].fresh
              /\ Filed(keys, w) => f[w].state = "answered" /\ f[w].ok = ok
              /\ ~Filed(keys, w) => f[w] = req[w]
<1> DEFINE g(w) == IF \E k \in keys : pending[k] = w
                   THEN [req[w] EXCEPT !.state = "answered", !.ok = ok] ELSE req[w]
<1>1. f = [w \in Waiter |-> g(w)]
  BY DEF Resolved
<1>2. ASSUME NEW w \in Waiter
      PROVE  /\ g(w) \in Request
             /\ g(w).key = req[w].key /\ g(w).here = req[w].here
             /\ g(w).truth = req[w].truth /\ g(w).lines = req[w].lines /\ g(w).fresh = req[w].fresh
             /\ Filed(keys, w) => g(w).state = "answered" /\ g(w).ok = ok
             /\ ~Filed(keys, w) => g(w) = req[w]
  <2> DEFINE q == [req[w] EXCEPT !.state = "answered", !.ok = ok]
  <2>1. req[w] \in Request /\ "answered" \in ReqState
    BY ReqFields DEF ReqState
  <2>2. /\ q \in Request /\ q.state = "answered" /\ q.ok = ok /\ q.key = req[w].key
        /\ q.here = req[w].here /\ q.truth = req[w].truth /\ q.lines = req[w].lines /\ q.fresh = req[w].fresh
    BY <2>1 DEF Request, ReqState
  <2>3. g(w) = IF Filed(keys, w) THEN q ELSE req[w]
    BY DEF Filed
  <2> HIDE DEF q, g
  <2> QED BY <2>1, <2>2, <2>3
<1> HIDE DEF g
<1> QED BY <1>1, <1>2

LEMMA ResolvingFiles ==
  ASSUME ReqTypes, FileTypes, NEW keys \in SUBSET Key, NEW ok \in BOOLEAN, Resolve(keys, ok)
  PROVE  /\ ReqTypes' /\ FileTypes'
         /\ \A w \in Waiter :
              /\ SameAsk(w) /\ req'[w].lines = req[w].lines
              /\ Filed(keys, w) => /\ req'[w].state = "answered" /\ req'[w].ok = ok
                                   /\ req[w].state = "waiting" /\ req[w].key \in keys /\ req[w].here
              /\ ~Filed(keys, w) => req'[w] = req[w]
         /\ \A k \in Key : pending'[k] = IF k \in keys THEN None ELSE pending[k]
<1>1. /\ req' \in [Waiter -> Request]
      /\ \A w \in Waiter : /\ SameAsk(w) /\ req'[w].lines = req[w].lines
                           /\ Filed(keys, w) => req'[w].state = "answered" /\ req'[w].ok = ok
                           /\ ~Filed(keys, w) => req'[w] = req[w]
  BY Resolving DEF Resolve, SameAsk
<1>2. \A k \in Key : pending'[k] = IF k \in keys THEN None ELSE pending[k]
  BY DEF Resolve, Unfiled
<1>3. pending' \in [Key -> Waiter \cup {None, Abandoned}]
  BY DEF Resolve, Unfiled, FileTypes
<1>4. \A w \in Waiter : Filed(keys, w) =>
        req[w].state = "waiting" /\ req[w].key \in keys /\ req[w].here
  BY DEF Filed, FileTypes, Filing
<1>5. Filing'
  <2> SUFFICES ASSUME NEW k \in Key, NEW w \in Waiter, pending'[k] = w
               PROVE  req'[w].state = "waiting" /\ req'[w].key = k /\ req'[w].here
    BY DEF Filing
  <2>1. k \notin keys /\ pending[k] = w
    BY <1>2, Outsiders
  <2>2. req[w].state = "waiting" /\ req[w].key = k /\ req[w].here
    BY <2>1 DEF FileTypes, Filing
  <2>3. ~Filed(keys, w)
    BY <1>4, <2>1, <2>2
  <2> QED BY <1>1, <2>2, <2>3
<1>6. ASSUME NEW w \in Waiter, req'[w].state # "none"
      PROVE  req'[w].key \in Key
  <2>1. req'[w].key = req[w].key
    BY <1>1 DEF SameAsk
  <2>2. req[w].state # "none"
    BY <1>1, <1>4, <1>6
  <2> QED BY <2>1, <2>2 DEF ReqTypes
<1> QED BY <1>1, <1>2, <1>3, <1>4, <1>5, <1>6 DEF ReqTypes, FileTypes

(* What HandleLine does, by the kind of the line. *)
LEMMA LineCases ==
  ASSUME Types, HandleLine
  PROVE  /\ link.reading /\ inbound # <<>> /\ inbound' = Tail(inbound)
         /\ UNCHANGED <<link, member, refused, crossed, drops>>
         /\ \/ \E c \in Channel : Head(inbound) = Line("JOIN", c) /\ HandleJoin(c)
            \/ \E c \in Channel : Head(inbound) = Line("353", c) /\ HandleNames(c)
            \/ \E c \in Channel : Head(inbound) = Line("366", c) /\ HandleEndOfNames(c)
            \/ \E c \in Channel : Head(inbound) = Line("473", c) /\ HandleDenied(c)
            \/ \E n \in Nick : Head(inbound) = Line("401", n) /\ HandleNoSuchNick(n)
<1> DEFINE l == Head(inbound)
<1>1. link.reading /\ inbound # <<>> /\ inbound' = Tail(inbound)
      /\ UNCHANGED <<link, member, refused, crossed, drops>>
  BY DEF HandleLine
<1>2. l \in AnyLine
  BY <1>1, HeadTailProperties DEF Types, LineTypes
<1>3. /\ l = Line(l.type, l.about)
      /\ \/ l.type \in {"JOIN", "353", "366", "473"} /\ l.about \in Channel
         \/ l.type = "401" /\ l.about \in Nick
  BY <1>2, LineKinds
<1>4. CASE l.type = "JOIN"
  <2>1. HandleJoin(l.about)
    BY <1>4 DEF HandleLine
  <2> QED BY <1>1, <1>3, <1>4, <2>1
<1>5. CASE l.type = "353"
  <2>1. HandleNames(l.about)
    BY <1>5 DEF HandleLine
  <2> QED BY <1>1, <1>3, <1>5, <2>1
<1>6. CASE l.type = "366"
  <2>1. HandleEndOfNames(l.about)
    BY <1>6 DEF HandleLine
  <2> QED BY <1>1, <1>3, <1>6, <2>1
<1>7. CASE l.type = "473"
  <2>1. HandleDenied(l.about)
    BY <1>7 DEF HandleLine
  <2> QED BY <1>1, <1>3, <1>7, <2>1
<1>8. CASE l.type = "401"
  <2>1. HandleNoSuchNick(l.about)
    BY <1>8 DEF HandleLine
  <2> QED BY <1>1, <1>3, <1>8, <2>1
<1> QED BY <1>3, <1>4, <1>5, <1>6, <1>7, <1>8

LEMMA CountUpdate ==
  ASSUME NEW r \in Request, NEW q, q = [r EXCEPT !.lines = @ + 1]
  PROVE  /\ q \in Request /\ q.lines = r.lines + 1 /\ q.state = r.state /\ q.ok = r.ok
         /\ q.key = r.key /\ q.here = r.here /\ q.truth = r.truth
         /\ q.fresh = r.fresh
BY DEF Request

LEMMA Counting ==
  ASSUME ReqTypes, NEW c \in Channel, HandleNames(c)
  PROVE  /\ ReqTypes' /\ UNCHANGED <<pending, channels>>
         /\ \A w \in Waiter :
              /\ SameAsk(w) /\ req'[w].state = req[w].state /\ req'[w].ok = req[w].ok
              /\ req'[w].lines = IF pending[<<"names", c>>] = w THEN req[w].lines + 1 ELSE req[w].lines
<1> DEFINE g(w) == IF pending[<<"names", c>>] = w THEN [req[w] EXCEPT !.lines = @ + 1] ELSE req[w]
<1>1. req' = [w \in Waiter |-> g(w)] /\ UNCHANGED <<pending, channels>>
  BY DEF HandleNames
<1>2. ASSUME NEW w \in Waiter
      PROVE  /\ g(w) \in Request /\ g(w).key = req[w].key /\ g(w).here = req[w].here
             /\ g(w).truth = req[w].truth /\ g(w).fresh = req[w].fresh /\ g(w).state = req[w].state /\ g(w).ok = req[w].ok
             /\ g(w).lines = IF pending[<<"names", c>>] = w THEN req[w].lines + 1 ELSE req[w].lines
  <2> DEFINE q == [req[w] EXCEPT !.lines = @ + 1]
  <2>1. req[w] \in Request
    BY ReqFields
  <2>2. /\ q \in Request /\ q.lines = req[w].lines + 1 /\ q.state = req[w].state /\ q.ok = req[w].ok
        /\ q.key = req[w].key /\ q.here = req[w].here /\ q.truth = req[w].truth
        /\ q.fresh = req[w].fresh
    BY <2>1, CountUpdate
  <2>3. g(w) = IF pending[<<"names", c>>] = w THEN q ELSE req[w]
    OBVIOUS
  <2> HIDE DEF q, g
  <2> QED BY <2>1, <2>2, <2>3
<1> HIDE DEF g
<1> QED BY <1>1, <1>2 DEF ReqTypes, SameAsk

(* What the server answers, by the request. *)
LEMMA ReplyCases ==
  ASSUME NEW key \in Key, NEW truth \in Verdicts(key)
  PROVE  \/ \E c \in Channel : key = <<"names", c>> /\ truth = "accepted" /\ Reply(key, truth) = NamesReply(c)
         \/ \E c \in Channel : key = <<"join", c>> /\ truth = "accepted" /\ c \in member
                               /\ Reply(key, truth) = <<>>
         \/ \E c \in Channel : key = <<"join", c>> /\ truth = "accepted" /\ c \notin member
                               /\ Reply(key, truth) = <<Line("JOIN", c)>> \o NamesReply(c)
         \/ \E c \in Channel : key = <<"join", c>> /\ truth = "refused" /\ c \notin member
                               /\ Reply(key, truth) = <<Line("473", c)>>
         \/ \E n \in Nick : key = <<"privmsg", n>> /\ truth = "refused" /\ Reply(key, truth) = <<Line("401", n)>>
         \/ \E n \in Nick : key = <<"privmsg", n>> /\ truth = "accepted" /\ Reply(key, truth) = <<>>
<1>1. /\ key = <<key[1], key[2]>>
      /\ (key[1] \in {"join", "names"} /\ key[2] \in Channel) \/ (key[1] = "privmsg" /\ key[2] \in Nick)
  BY Keys
<1>2. CASE key[1] = "names" /\ key[2] \in Channel
  BY <1>1, <1>2 DEF Reply, Verdicts
<1>3. CASE key[1] = "join" /\ key[2] \in Channel /\ key[2] \in member
  BY <1>1, <1>3 DEF Reply, Verdicts
<1>4. CASE key[1] = "join" /\ key[2] \in Channel /\ key[2] \notin member
  BY <1>1, <1>4 DEF Reply, Verdicts
<1>5. CASE key[1] = "privmsg" /\ key[2] \in Nick
  BY <1>1, <1>5 DEF Reply, Verdicts
<1> QED BY <1>1, <1>2, <1>3, <1>4, <1>5

LEMMA ReplyLines ==
  ASSUME NEW key \in Key, NEW truth \in Verdicts(key)
  PROVE  Reply(key, truth) \in Seq(AnyLine)
<1>1. /\ \A c \in Channel : /\ NamesReply(c) \in Seq(AnyLine) /\ Line("JOIN", c) \in AnyLine
                            /\ Line("473", c) \in AnyLine
      /\ \A n \in Nick : Line("401", n) \in AnyLine
  BY NamesLines, LineKinds
<1>2. \A c \in Channel : <<Line("JOIN", c)>> \o NamesReply(c) \in Seq(AnyLine)
  <2> TAKE c \in Channel
  <2>1. <<Line("JOIN", c)>> \in Seq(AnyLine) /\ NamesReply(c) \in Seq(AnyLine)
    BY <1>1
  <2> QED BY <2>1, ConcatProperties
<1>3. \A l \in AnyLine : <<l>> \in Seq(AnyLine)
  OBVIOUS
<1>4. <<>> \in Seq(AnyLine)
  OBVIOUS
<1> QED BY <1>1, <1>2, <1>3, <1>4, ReplyCases

(* What a request does, and what the server makes of it. *)
Served(w, key) ==
  \/ link.up /\ req'[w].truth \in Verdicts(key) /\ ServerTakes(key, req'[w].truth)
  \/ ~link.up /\ req'[w].truth = "lost" /\ UNCHANGED <<inbound, member, refused>>

LEMMA Asking ==
  ASSUME ReqTypes, FileTypes, NameTypes, LineTypes,
         NEW w \in Waiter, NEW key \in Key, req[w].state = "none", Ask(w, key)
  PROVE  /\ ReqTypes' /\ FileTypes' /\ NameTypes' /\ LineTypes' /\ UNCHANGED <<link, channels, crossed, drops>>
         /\ req'[w].key = key /\ ~req'[w].ok /\ req'[w].lines = 0 /\ req'[w].here
         /\ req'[w].fresh = Fresh(key[2])
         /\ \/ req'[w].state = "waiting"
            \/ req'[w].state = "answered" /\ ~link.up
         /\ \A v \in Waiter : v # w => req'[v] = req[v]
         /\ \A k \in Key : pending'[k] = IF k # key THEN pending[k]
                                       ELSE IF req'[w].state = "waiting" THEN w ELSE None
         /\ Served(w, key)
<1> DEFINE r(truth, state) == Asked(key, truth, state)
<1>1. PICK truth \in (IF link.up THEN Verdicts(key) ELSE {"lost"}), state \in {"waiting", "answered"} :
        /\ req' = [req EXCEPT ![w] = r(truth, state)]
        /\ IF link.up THEN ServerTakes(key, truth) ELSE UNCHANGED <<inbound, member, refused>>
        /\ pending' = [pending EXCEPT ![key] = IF state = "waiting" THEN w ELSE None]
        /\ state = "answered" => ~link.up
        /\ UNCHANGED <<link, channels, crossed, drops>>
  <2>1. CASE Sends(w, key)
    BY <2>1 DEF Sends
  <2>2. CASE SendFails(w, key)
    BY <2>2 DEF SendFails
  <2> QED BY <2>1, <2>2 DEF Ask
<1>3. truth \in Truth
  BY <1>1 DEF Verdicts, Truth
<1>4. /\ r(truth, state) \in Request /\ r(truth, state).key = key /\ r(truth, state).state = state
      /\ ~r(truth, state).ok /\ r(truth, state).lines = 0 /\ r(truth, state).here
      /\ r(truth, state).truth = truth /\ r(truth, state).fresh = Fresh(key[2])
  <2>1. Fresh(key[2]) \in BOOLEAN
    BY DEF Fresh
  <2> QED BY <1>1, <1>3, <2>1 DEF Request, Truth, Asked
<1> HIDE DEF r
<1>5. ReqTypes' /\ req'[w] = r(truth, state) /\ \A v \in Waiter : v # w => req'[v] = req[v]
  BY <1>1, <1>4 DEF ReqTypes
<1>6. \A k \in Key : pending'[k] = IF k # key THEN pending[k]
                                  ELSE IF state = "waiting" THEN w ELSE None
  BY <1>1 DEF FileTypes
<1>7. Served(w, key)
  BY <1>1, <1>4, <1>5 DEF Served
<1>8. LineTypes' /\ NameTypes'
  <2>1. CASE link.up
    <3>1. ServerTakes(key, truth) /\ truth \in Verdicts(key)
      BY <1>1, <2>1
    <3>2. inbound' \in Seq(AnyLine)
      <4>1. inbound \in Seq(AnyLine) /\ Reply(key, truth) \in Seq(AnyLine)
        BY <3>1, ReplyLines DEF LineTypes
      <4>2. inbound' = inbound \o Reply(key, truth)
        BY <3>1 DEF ServerTakes
      <4> QED BY <4>1, <4>2, ConcatProperties
    <3>3. key[1] = "join" => key[2] \in Channel
      BY Keys
    <3> QED BY <1>1, <3>1, <3>2, <3>3 DEF ServerTakes, NameTypes, LineTypes
  <2>2. CASE ~link.up
    BY <1>1, <2>2 DEF NameTypes, LineTypes
  <2> QED BY <2>1, <2>2
<1>9. FileTypes'
  <2>1. pending' \in [Key -> Waiter \cup {None, Abandoned}]
    BY <1>1 DEF FileTypes
  <2>2. Filing'
    <3> SUFFICES ASSUME NEW k \in Key, NEW v \in Waiter, pending'[k] = v
                 PROVE  req'[v].state = "waiting" /\ req'[v].key = k /\ req'[v].here
      BY DEF Filing
    <3>1. CASE k = key
      BY <1>4, <1>5, <1>6, <3>1, Outsiders
    <3>2. CASE k # key
      <4>1. pending[k] = v
        BY <1>6, <3>2
      <4>2. req[v].state = "waiting" /\ req[v].key = k /\ req[v].here
        BY <4>1 DEF FileTypes, Filing
      <4>3. v # w
        BY <4>2
      <4> QED BY <1>5, <4>2, <4>3
    <3> QED BY <3>1, <3>2
  <2> QED BY <2>1, <2>2 DEF FileTypes
<1> QED BY <1>1, <1>4, <1>5, <1>6, <1>7, <1>8, <1>9

LEMMA Waiting ==
  ASSUME ReqTypes, FileTypes, NEW w \in Waiter, WaitEnds(w)
  PROVE  /\ ReqTypes' /\ FileTypes'
         /\ UNCHANGED <<link, inbound, channels, member, refused, crossed, drops>>
         /\ req[w].state = "waiting" /\ req[w].key[1] # "privmsg"
         /\ SameAsk(w) /\ req'[w].state = "timeout" /\ req'[w].ok = req[w].ok
         /\ req'[w].lines = req[w].lines
         /\ \A v \in Waiter : v # w => req'[v] = req[v]
         /\ \A k \in Key : pending'[k] = IF pending[k] = w THEN Abandoned ELSE pending[k]
<1> DEFINE q == [req[w] EXCEPT !.state = "timeout"]
<1>1. /\ req' = [req EXCEPT ![w] = q]
      /\ UNCHANGED <<link, inbound, channels, member, refused, crossed, drops>>
      /\ req[w].state = "waiting" /\ req[w].key[1] # "privmsg"
  BY DEF WaitEnds
<1>2. pending' = IF pending[req[w].key] = w
                 THEN [pending EXCEPT ![req[w].key] = Abandoned] ELSE pending
  BY DEF WaitEnds
<1>3. req[w] \in Request
  BY ReqFields
<1>4. /\ q \in Request /\ q.state = "timeout" /\ q.key = req[w].key /\ q.here = req[w].here
      /\ q.truth = req[w].truth /\ q.fresh = req[w].fresh /\ q.ok = req[w].ok /\ q.lines = req[w].lines
  BY <1>3 DEF Request
<1> HIDE DEF q
<1>5. ReqTypes' /\ req'[w] = q /\ \A v \in Waiter : v # w => req'[v] = req[v]
  BY <1>1, <1>4 DEF ReqTypes
<1>6. \A k \in Key : pending[k] = w => k = req[w].key
  BY DEF FileTypes, Filing
<1>7. \A k \in Key : pending'[k] = IF pending[k] = w THEN Abandoned ELSE pending[k]
  BY <1>2, <1>6 DEF FileTypes
<1>8. pending' \in [Key -> Waiter \cup {None, Abandoned}]
  BY <1>2 DEF FileTypes
<1>9. Filing'
  BY <1>5, <1>7, Outsiders DEF FileTypes, Filing
<1> QED BY <1>1, <1>4, <1>5, <1>7, <1>8, <1>9 DEF FileTypes, SameAsk

(* Where a direct message is filed, when its window ends. *)
Others(w) == IF req[w].here THEN {req[w].key} ELSE {}

LEMMA WindowEnding ==
  ASSUME ReqTypes, FileTypes, NEW w \in Waiter, WindowEnds(w)
  PROVE  /\ ReqTypes' /\ FileTypes'
         /\ UNCHANGED <<link, inbound, channels, member, refused, crossed, drops>>
         /\ req[w].state = "waiting" /\ req[w].key[1] = "privmsg"
         /\ SameAsk(w) /\ req'[w].state = "answered" /\ req'[w].ok /\ req'[w].lines = req[w].lines
         /\ \A v \in Waiter : v # w =>
              /\ SameAsk(v) /\ req'[v].lines = req[v].lines
              /\ Filed(Others(w), v) => /\ req'[v].state = "answered" /\ req'[v].ok /\ req[w].here
                                        /\ req[v].state = "waiting" /\ req[v].key = req[w].key
                                        /\ req[v].here
              /\ ~Filed(Others(w), v) => req'[v] = req[v]
         /\ \A k \in Key : pending'[k] = IF k \in Others(w) THEN None ELSE pending[k]
<1> DEFINE f == Resolved(Others(w), TRUE)
           q == [f[w] EXCEPT !.state = "answered", !.ok = TRUE]
<1>1. /\ req[w].state = "waiting" /\ req[w].key[1] = "privmsg"
      /\ UNCHANGED <<link, inbound, channels, member, refused, crossed, drops>>
      /\ pending' = Unfiled(Others(w))
  BY DEF WindowEnds, Others
<1>2. req' = [f EXCEPT ![w].state = "answered", ![w].ok = TRUE]
  BY DEF WindowEnds, Others
<1>3. /\ f \in [Waiter -> Request]
      /\ \A v \in Waiter :
           /\ f[v].key = req[v].key /\ f[v].here = req[v].here
           /\ f[v].truth = req[v].truth /\ f[v].lines = req[v].lines /\ f[v].fresh = req[v].fresh
           /\ Filed(Others(w), v) => f[v].state = "answered" /\ f[v].ok = TRUE
           /\ ~Filed(Others(w), v) => f[v] = req[v]
  <2> DEFINE keys == Others(w)
             ok == TRUE
  <2>1. f = Resolved(keys, ok) /\ ok \in BOOLEAN
    OBVIOUS
  <2> HIDE DEF f, keys, ok
  <2>2. /\ f \in [Waiter -> Request]
        /\ \A v \in Waiter :
             /\ f[v].key = req[v].key /\ f[v].here = req[v].here
             /\ f[v].truth = req[v].truth /\ f[v].lines = req[v].lines /\ f[v].fresh = req[v].fresh
             /\ Filed(keys, v) => f[v].state = "answered" /\ f[v].ok = ok
             /\ ~Filed(keys, v) => f[v] = req[v]
    BY <2>1, Resolving
  <2> QED BY <2>2 DEF keys, ok
<1> HIDE DEF f
<1>4. f[w] \in Request
  BY <1>3
<1>5. /\ q \in Request /\ q.state = "answered" /\ q.ok /\ q.key = f[w].key /\ q.here = f[w].here
      /\ q.truth = f[w].truth /\ q.lines = f[w].lines /\ q.fresh = f[w].fresh
  BY <1>4 DEF Request
<1>6. req' = [f EXCEPT ![w] = q]
  BY <1>2, <1>3
<1> HIDE DEF q
<1>7. /\ req' \in [Waiter -> Request] /\ req'[w] = q
      /\ \A v \in Waiter : v # w => req'[v] = f[v]
  BY <1>3, <1>5, <1>6
<1>8. SameAsk(w) /\ req'[w].state = "answered" /\ req'[w].ok /\ req'[w].lines = req[w].lines
  BY <1>3, <1>5, <1>7 DEF SameAsk
<1>9. \A v \in Waiter : Filed(Others(w), v) =>
        req[w].here /\ req[v].state = "waiting" /\ req[v].key = req[w].key /\ req[v].here
  <2> SUFFICES ASSUME NEW v \in Waiter, Filed(Others(w), v)
               PROVE  req[w].here /\ req[v].state = "waiting" /\ req[v].key = req[w].key /\ req[v].here
    OBVIOUS
  <2>1. req[w].here /\ pending[req[w].key] = v
    BY DEF Filed, Others
  <2>2. req[w].key \in Key
    BY <1>1 DEF ReqTypes
  <2> QED BY <2>1, <2>2 DEF FileTypes, Filing
<1>10. \A k \in Key : pending'[k] = IF k \in Others(w) THEN None ELSE pending[k]
  BY <1>1 DEF Unfiled
<1>11. pending' \in [Key -> Waiter \cup {None, Abandoned}]
  BY <1>1 DEF Unfiled, FileTypes
<1>12. \A v \in Waiter : v # w =>
         /\ SameAsk(v) /\ req'[v].lines = req[v].lines
         /\ Filed(Others(w), v) => req'[v].state = "answered" /\ req'[v].ok
         /\ ~Filed(Others(w), v) => req'[v] = req[v]
  BY <1>3, <1>7 DEF SameAsk
<1>13. Filing'
  <2> SUFFICES ASSUME NEW k \in Key, NEW v \in Waiter, pending'[k] = v
               PROVE  req'[v].state = "waiting" /\ req'[v].key = k /\ req'[v].here
    BY DEF Filing
  <2>1. k \notin Others(w) /\ pending[k] = v
    BY <1>10, Outsiders
  <2>2. req[v].state = "waiting" /\ req[v].key = k /\ req[v].here
    BY <2>1 DEF FileTypes, Filing
  <2>3. v # w
    BY <2>1, <2>2 DEF Others
  <2>4. ~Filed(Others(w), v)
    BY <1>9, <2>1, <2>2 DEF Others
  <2> QED BY <1>12, <2>2, <2>3, <2>4
<1>14. ASSUME NEW v \in Waiter, req'[v].state # "none"
       PROVE  req'[v].key \in Key
  <2>1. req'[v].key = req[v].key
    BY <1>8, <1>12 DEF SameAsk
  <2>2. req[v].state # "none"
    BY <1>1, <1>9, <1>12, <1>14
  <2> QED BY <2>1, <2>2 DEF ReqTypes
<1> QED BY <1>1, <1>7, <1>8, <1>9, <1>10, <1>11, <1>12, <1>13, <1>14 DEF FileTypes, ReqTypes

(* A new connection: nothing is filed on it. *)
LEMMA Dialling ==
  ASSUME ReqTypes, DialSucceeds
  PROVE  /\ ReqTypes' /\ FileTypes' /\ NameTypes' /\ LineTypes' /\ link' \in LinkRecord
         /\ UNCHANGED drops
         /\ link'.up /\ link'.reading /\ ~link'.hooked /\ ~link'.told
         /\ inbound' = <<>> /\ channels' = {} /\ member' = {} /\ refused' = {} /\ crossed' = {}
         /\ \A w \in Waiter : /\ req'[w].key = req[w].key /\ req'[w].state = req[w].state
                              /\ req'[w].ok = req[w].ok /\ req'[w].lines = req[w].lines
                              /\ req'[w].truth = req[w].truth /\ req'[w].fresh = req[w].fresh
                              /\ ~req'[w].here
         /\ \A k \in Key : pending'[k] = None
<1> DEFINE g(w) == [req[w] EXCEPT !.here = FALSE]
<1>1. /\ link' = NewLink /\ inbound' = <<>> /\ UNCHANGED drops
      /\ pending' = NothingFiled /\ channels' = {} /\ member' = {} /\ refused' = {}
      /\ crossed' = {}
      /\ req' = [w \in Waiter |-> g(w)]
  BY DEF DialSucceeds
<1>2. ASSUME NEW w \in Waiter
      PROVE  /\ g(w) \in Request /\ g(w).key = req[w].key /\ g(w).state = req[w].state
             /\ g(w).ok = req[w].ok /\ g(w).lines = req[w].lines /\ g(w).truth = req[w].truth
             /\ g(w).fresh = req[w].fresh
             /\ ~g(w).here
  <2>1. req[w] \in Request
    BY ReqFields
  <2> QED BY <2>1 DEF Request
<1> HIDE DEF g
<1>3. \A w \in Waiter : req'[w] = g(w)
  BY <1>1
<1>4. ReqTypes'
  BY <1>1, <1>2, <1>3 DEF ReqTypes
<1>5. FileTypes'
  BY <1>1, Outsiders DEF NothingFiled, FileTypes, Filing
<1>6. /\ link' \in LinkRecord /\ link'.up /\ link'.reading /\ ~link'.hooked /\ ~link'.told
  BY <1>1 DEF NewLink, NoLink, LinkRecord
<1>7. NameTypes' /\ LineTypes'
  BY <1>1 DEF NameTypes, LineTypes
<1>8. \A k \in Key : pending'[k] = None
  BY <1>1 DEF NothingFiled
<1> QED BY <1>1, <1>2, <1>3, <1>4, <1>5, <1>6, <1>7, <1>8

----------------------------------------------------------------------------
(* Where the commands and the supervisor are. *)

LEMMA Placing ==
  ASSUME cmd \in [Cmd -> CmdRecord], NEW c \in Cmd, NEW pc \in CmdPc, Pc(c, pc)
  PROVE  /\ cmd' \in [Cmd -> CmdRecord]
         /\ cmd'[c].pc = pc /\ cmd'[c].op = cmd[c].op /\ cmd'[c].target = cmd[c].target
         /\ cmd'[c].base = cmd[c].base
         /\ \A d \in Cmd : d # c => cmd'[d] = cmd[d]
BY DEF Pc, CmdRecord

LEMMA Ending ==
  ASSUME cmd \in [Cmd -> CmdRecord], NEW c \in Cmd, Ends(c)
  PROVE  /\ cmd' \in [Cmd -> CmdRecord]
         /\ cmd'[c].pc = "idle" /\ cmd'[c].op = "none" /\ cmd'[c].target = Home /\ cmd'[c].base = {}
         /\ \A d \in Cmd : d # c => cmd'[d] = cmd[d]
<1>1. /\ Idle \in CmdRecord
      /\ Idle.pc = "idle" /\ Idle.op = "none" /\ Idle.target = Home /\ Idle.base = {}
  BY Outsiders DEF Idle, CmdRecord, CmdPc
<1>2. cmd' = [cmd EXCEPT ![c] = Idle]
  BY DEF Ends
<1> HIDE DEF Idle
<1> QED BY <1>1, <1>2

LEMMA Beginning ==
  ASSUME cmd \in [Cmd -> CmdRecord], roster \subseteq Channel, NEW c \in Cmd,
         NEW op \in {"join", "part", "names", "privmsg"}, NEW target \in Channel \cup Nick,
         Begins(c, op, target)
  PROVE  /\ cmd' \in [Cmd -> CmdRecord]
         /\ cmd'[c].pc = "call" /\ cmd'[c].op = op /\ cmd'[c].target = target /\ cmd'[c].base = roster
         /\ \A d \in Cmd : d # c => cmd'[d] = cmd[d]
         /\ cmd[c].pc = "idle" /\ published
         /\ commands < MaxCommands /\ commands' = commands + 1
         /\ UNCHANGED connVars /\ UNCHANGED server
<1> DEFINE r == [op |-> op, target |-> target, pc |-> "call", base |-> roster]
<1>1. /\ cmd[c].pc = "idle" /\ published
      /\ commands < MaxCommands /\ commands' = commands + 1
      /\ UNCHANGED connVars /\ UNCHANGED server
      /\ cmd' = [cmd EXCEPT ![c] = r]
  BY DEF Begins
<1>2. r \in CmdRecord /\ r.op = op /\ r.target = target /\ r.pc = "call" /\ r.base = roster
  BY DEF CmdRecord, CmdPc
<1> HIDE DEF r
<1> QED BY <1>1, <1>2

LEMMA SupPlacing ==
  ASSUME sup \in SupRecord, NEW pc \in SupPlace, SupPc(pc)
  PROVE  sup' \in SupRecord /\ sup'.pc = pc /\ sup'.st = sup.st /\ sup'.todo = sup.todo
BY DEF SupPc, SupRecord

(* A request that is taken back. *)
Clears(w) == req' = [req EXCEPT ![w] = NoRequest]

LEMMA Clearing ==
  ASSUME ReqTypes, FileTypes, NEW w \in Waiter, Clears(w), UNCHANGED pending,
         req[w].state # "waiting"
  PROVE  /\ ReqTypes' /\ FileTypes' /\ req'[w].state = "none"
         /\ \A v \in Waiter : v # w => req'[v] = req[v]
<1>1. NoRequest \in Request /\ NoRequest.state = "none"
  BY DEF NoRequest, Request
<1>2. /\ req' \in [Waiter -> Request] /\ req'[w] = NoRequest
      /\ \A v \in Waiter : v # w => req'[v] = req[v]
  BY <1>1 DEF Clears, ReqTypes
<1> HIDE DEF NoRequest
<1>3. ReqTypes'
  BY <1>1, <1>2 DEF ReqTypes
<1>4. FileTypes'
  BY <1>2 DEF FileTypes, Filing
<1> QED BY <1>1, <1>2, <1>3, <1>4

LEMMA ConnKept ==
  ASSUME Types, UNCHANGED connVars
  PROVE  LinkTypes' /\ LineTypes' /\ FileTypes' /\ ReqTypes' /\ NameTypes'
BY DEF Types, connVars, LinkTypes, LineTypes, FileTypes, Filing, ReqTypes, NameTypes

(* Requests move on, and the commands and the supervisor have not noticed. *)
LEMMA OrdersKept ==
  ASSUME Types, UNCHANGED cmd,
         \A w \in Waiter : /\ req'[w].key = req[w].key
                           /\ req'[w].state = "none" <=> req[w].state = "none"
  PROVE  Orders' /\ SupJoins'
<1>1. Orders'
  BY Outsiders DEF Types, Orders, Ordered
<1>2. SupJoins'
  BY Outsiders DEF Types, SupJoins
<1> QED BY <1>1, <1>2

(* One command moves on, with its own request or none. *)
LEMMA OrderMoves ==
  ASSUME Types, NEW c \in Cmd, Ordered(c)',
         \A d \in Cmd : d # c => cmd'[d] = cmd[d] /\ req'[d] = req[d], req'[Sup] = req[Sup]
  PROVE  Orders' /\ SupJoins'
<1>1. Orders'
  BY DEF Types, Orders, Ordered
<1>2. SupJoins'
  BY DEF Types, SupJoins
<1> QED BY <1>1, <1>2

----------------------------------------------------------------------------
(* Every step keeps the types.  The connection first. *)

OfOthers == <<roster, published, sup, history, cmd, commands>>

LEMMA OthersKept ==
  ASSUME Types, UNCHANGED OfOthers
  PROVE  SupTypes' /\ CmdTypes'
BY DEF Types, OfOthers, SupTypes, CmdTypes

LEMMA TypesHandleLine ==
  ASSUME Types, HandleLine, UNCHANGED OfOthers
  PROVE  Types'
<1>1. /\ UNCHANGED link /\ UNCHANGED member /\ UNCHANGED refused /\ UNCHANGED crossed /\ UNCHANGED drops
      /\ inbound # <<>> /\ inbound' = Tail(inbound)
  BY LineCases
<1>2. LineTypes'
  BY <1>1, HeadTailProperties DEF Types, LineTypes
<1>3. LinkTypes' /\ SupTypes' /\ CmdTypes' /\ UNCHANGED cmd
  BY <1>1, OthersKept DEF Types, LinkTypes, OfOthers
<1>4. SUFFICES /\ FileTypes' /\ ReqTypes' /\ channels' \subseteq Channel
               /\ \A w \in Waiter : /\ req'[w].key = req[w].key
                                    /\ req'[w].state = "none" <=> req[w].state = "none"
  <2>1. NameTypes'
    BY <1>1, <1>4 DEF Types, NameTypes
  <2>2. Orders' /\ SupJoins'
    BY <1>3, <1>4, OrdersKept
  <2> QED BY <1>2, <1>3, <1>4, <2>1, <2>2 DEF Types
<1>5. ReqTypes /\ FileTypes /\ channels \subseteq Channel
  BY DEF Types, NameTypes
<1>6. ASSUME NEW keys \in SUBSET Key, NEW ok \in BOOLEAN, Resolve(keys, ok), UNCHANGED channels
      PROVE  /\ FileTypes' /\ ReqTypes' /\ channels' \subseteq Channel
             /\ \A w \in Waiter : /\ req'[w].key = req[w].key
                                  /\ req'[w].state = "none" <=> req[w].state = "none"
  <2>1. ReqTypes' /\ FileTypes'
    BY <1>5, <1>6, ResolvingFiles
  <2>2. \A w \in Waiter :
              /\ SameAsk(w)
              /\ Filed(keys, w) => req'[w].state = "answered" /\ req[w].state = "waiting"
              /\ ~Filed(keys, w) => req'[w] = req[w]
    BY <1>5, <1>6, ResolvingFiles
  <2> QED BY <1>5, <1>6, <2>1, <2>2 DEF SameAsk
<1>7. \A c \in Channel : {<<"names", c>>, <<"join", c>>} \in SUBSET Key /\ {<<"join", c>>} \in SUBSET Key
  BY Keys
<1>8. \A n \in Nick : {<<"privmsg", n>>} \in SUBSET Key
  BY Keys
<1>9. CASE \E c \in Channel : HandleJoin(c)
  BY <1>5, <1>9 DEF HandleJoin, FileTypes, Filing, ReqTypes
<1>10. CASE \E c \in Channel : HandleNames(c)
  <2>1. PICK c \in Channel : HandleNames(c)
    BY <1>10
  <2>2. /\ ReqTypes' /\ UNCHANGED pending /\ UNCHANGED channels
        /\ \A w \in Waiter : SameAsk(w) /\ req'[w].state = req[w].state
    BY <1>5, <2>1, Counting
  <2>3. FileTypes'
    BY <1>5, <2>2 DEF FileTypes, Filing, SameAsk
  <2> QED BY <1>5, <2>2, <2>3 DEF SameAsk
<1>11. CASE \E c \in Channel : HandleEndOfNames(c)
  <2>1. PICK c \in Channel : HandleEndOfNames(c)
    BY <1>11
  <2>2. Resolve({<<"names", c>>, <<"join", c>>}, TRUE) /\ UNCHANGED channels
    BY <2>1 DEF HandleEndOfNames
  <2> QED BY <1>6, <1>7, <2>2
<1>12. CASE \E c \in Channel : HandleDenied(c)
  <2>1. PICK c \in Channel : HandleDenied(c)
    BY <1>12
  <2>2. Resolve({<<"join", c>>}, FALSE) /\ UNCHANGED channels
    BY <2>1 DEF HandleDenied
  <2> QED BY <1>6, <1>7, <2>2
<1>13. CASE \E n \in Nick : HandleNoSuchNick(n)
  <2>1. PICK n \in Nick : HandleNoSuchNick(n)
    BY <1>13
  <2>2. Resolve({<<"privmsg", n>>}, FALSE) /\ UNCHANGED channels
    BY <2>1 DEF HandleNoSuchNick
  <2> QED BY <1>6, <1>8, <2>2
<1> QED BY <1>9, <1>10, <1>11, <1>12, <1>13, LineCases

LEMMA TypesReadLoopEnds ==
  ASSUME Types, ReadLoopEnds, UNCHANGED OfOthers
  PROVE  Types'
<1>1. /\ link' = [link EXCEPT !.reading = FALSE, !.told = link.hooked]
      /\ UNCHANGED <<inbound, pending, req, channels, member, refused, crossed, drops>>
  BY DEF ReadLoopEnds
<1>2. LinkTypes'
  BY <1>1 DEF Types, LinkTypes, LinkRecord
<1>3. LineTypes' /\ FileTypes' /\ ReqTypes' /\ NameTypes'
  BY <1>1 DEF Types, LineTypes, FileTypes, Filing, ReqTypes, NameTypes
<1>4. SupTypes' /\ CmdTypes' /\ UNCHANGED cmd
  BY OthersKept DEF OfOthers
<1>5. Orders' /\ SupJoins'
  BY <1>1, <1>4, OrdersKept
<1> QED BY <1>2, <1>3, <1>4, <1>5 DEF Types

LEMMA LosesLines ==
  ASSUME Types, inbound' \in {inbound, <<>>}
  PROVE  LineTypes'
<1>1. <<>> \in Seq(AnyLine)
  OBVIOUS
<1> QED BY <1>1 DEF Types, LineTypes

LEMMA TypesDrops ==
  ASSUME Types, Drops, UNCHANGED OfOthers
  PROVE  Types'
<1>1. /\ link' = [link EXCEPT !.up = FALSE] /\ inbound' \in {inbound, <<>>}
      /\ drops < MaxDrops /\ drops' = drops + 1
      /\ UNCHANGED <<pending, req, channels, member, refused, crossed>>
  BY DEF Drops
<1>2. LinkTypes'
  <2>1. link' \in LinkRecord
    BY <1>1 DEF Types, LinkTypes, LinkRecord
  <2>2. drops' \in 0..MaxDrops
    BY <1>1, ConnBoundsAssumption DEF Types, LinkTypes
  <2> QED BY <2>1, <2>2 DEF LinkTypes
<1>3. FileTypes' /\ ReqTypes' /\ NameTypes'
  BY <1>1 DEF Types, FileTypes, Filing, ReqTypes, NameTypes
<1>4. SupTypes' /\ CmdTypes' /\ UNCHANGED cmd
  BY OthersKept DEF OfOthers
<1>5. Orders' /\ SupJoins'
  BY <1>1, <1>4, OrdersKept
<1> QED BY <1>1, <1>2, <1>3, <1>4, <1>5, LosesLines DEF Types

LEMMA TypesWaitEnds ==
  ASSUME Types, NEW w \in Waiter, WaitEnds(w), UNCHANGED OfOthers
  PROVE  Types'
<1>1. /\ ReqTypes' /\ FileTypes'
      /\ UNCHANGED <<link, inbound, channels, member, refused, crossed, drops>>
      /\ SameAsk(w) /\ req[w].state = "waiting" /\ req'[w].state = "timeout"
      /\ \A v \in Waiter : v # w => req'[v] = req[v]
  BY Waiting DEF Types
<1>2. LinkTypes' /\ LineTypes' /\ NameTypes'
  BY <1>1 DEF Types, LinkTypes, LineTypes, NameTypes
<1>3. SupTypes' /\ CmdTypes' /\ UNCHANGED cmd
  BY OthersKept DEF OfOthers
<1>4. Orders' /\ SupJoins'
  BY <1>1, <1>3, OrdersKept DEF SameAsk
<1> QED BY <1>1, <1>2, <1>3, <1>4 DEF Types

LEMMA TypesWindowEnds ==
  ASSUME Types, NEW w \in Waiter, WindowEnds(w), UNCHANGED OfOthers
  PROVE  Types'
<1>1. /\ ReqTypes' /\ FileTypes'
      /\ UNCHANGED <<link, inbound, channels, member, refused, crossed, drops>>
      /\ SameAsk(w) /\ req[w].state = "waiting" /\ req'[w].state = "answered"
      /\ \A v \in Waiter : v # w =>
           /\ SameAsk(v)
           /\ Filed(Others(w), v) => req'[v].state = "answered" /\ req[v].state = "waiting"
           /\ ~Filed(Others(w), v) => req'[v] = req[v]
  BY WindowEnding DEF Types
<1>2. LinkTypes' /\ LineTypes' /\ NameTypes'
  BY <1>1 DEF Types, LinkTypes, LineTypes, NameTypes
<1>3. SupTypes' /\ CmdTypes' /\ UNCHANGED cmd
  BY OthersKept DEF OfOthers
<1>4. \A v \in Waiter : /\ req'[v].key = req[v].key
                        /\ req'[v].state = "none" <=> req[v].state = "none"
  BY <1>1 DEF SameAsk
<1>5. Orders' /\ SupJoins'
  BY <1>3, <1>4, OrdersKept
<1> QED BY <1>1, <1>2, <1>3, <1>5 DEF Types

----------------------------------------------------------------------------
(* The supervisor. *)

LEMMA FilesKept ==
  ASSUME Types, UNCHANGED <<roster, cmd, commands>>
  PROVE  CmdTypes' /\ roster' \subseteq Channel
BY DEF Types, CmdTypes, SupTypes

LEMMA SupTypesKept ==
  ASSUME Types, UNCHANGED roster, sup' \in SupRecord, published' \in BOOLEAN
  PROVE  SupTypes'
BY DEF Types, SupTypes

LEMMA TypesSupMoves ==
  ASSUME Types, SupLoads \/ SupDialFails \/ SupRuns \/ SupNotices
  PROVE  Types'
<1>1. /\ UNCHANGED connVars /\ UNCHANGED <<roster, cmd, commands>>
      /\ published' \in BOOLEAN
  BY DEF SupLoads, Loads, SupDialFails, SupRuns, SupNotices, files, outcomes, Types, SupTypes
<1>2. sup' \in SupRecord
  BY DEF SupLoads, Loads, SupDialFails, SupRuns, SupNotices, SupPc, Types, SupTypes, SupRecord, SupPlace
<1>3. UNCHANGED req
  BY <1>1 DEF connVars
<1>4. Orders' /\ SupJoins'
  BY <1>1, <1>3, OrdersKept
<1> QED BY <1>1, <1>2, <1>4, ConnKept, FilesKept, SupTypesKept DEF Types

LEMMA TypesSupDials ==
  ASSUME Types, SupDials
  PROVE  Types'
<1>1. /\ DialSucceeds /\ SupPc("hook")
      /\ UNCHANGED <<roster, cmd, commands, published>>
  BY DEF SupDials, files, outcomes
<1>2. /\ ReqTypes' /\ FileTypes' /\ NameTypes' /\ LineTypes' /\ link' \in LinkRecord
      /\ UNCHANGED drops
      /\ \A w \in Waiter : req'[w].key = req[w].key /\ req'[w].state = req[w].state
  BY <1>1, Dialling DEF Types
<1>3. LinkTypes'
  BY <1>2 DEF Types, LinkTypes
<1>4. CmdTypes' /\ SupTypes'
  <2>1. sup' \in SupRecord
    BY <1>1, SupPlacing DEF Types, SupTypes, SupPlace
  <2> QED BY <1>1, <2>1 DEF Types, CmdTypes, SupTypes
<1>5. Orders' /\ SupJoins'
  BY <1>1, <1>2, OrdersKept
<1> QED BY <1>2, <1>3, <1>4, <1>5 DEF Types

LEMMA TypesSupHooks ==
  ASSUME Types, SupHooks
  PROVE  Types'
<1>1. /\ link' = [link EXCEPT !.hooked = TRUE] /\ published' = TRUE
      /\ sup' = [sup EXCEPT !.pc = "rejoin", !.todo = sup.st]
      /\ UNCHANGED <<inbound, pending, req, channels, member, refused, crossed, drops>>
      /\ UNCHANGED <<roster, cmd, commands>>
  BY DEF SupHooks, files, outcomes
<1>2. LinkTypes'
  BY <1>1 DEF Types, LinkTypes, LinkRecord
<1>3. LineTypes' /\ FileTypes' /\ ReqTypes' /\ NameTypes'
  BY <1>1 DEF Types, LineTypes, FileTypes, Filing, ReqTypes, NameTypes
<1>4. sup' \in SupRecord
  BY <1>1 DEF Types, SupTypes, SupRecord, SupPlace
<1>5. Orders' /\ SupJoins'
  BY <1>1, OrdersKept
<1> QED BY <1>1, <1>2, <1>3, <1>4, <1>5, FilesKept, SupTypesKept DEF Types

LEMMA TypesSupRejoins ==
  ASSUME Types, NEW c \in Channel, SupRejoins(c)
  PROVE  Types'
<1>1. /\ req[Sup].state = "none" /\ Ask(Sup, <<"join", c>>)
      /\ sup' = [sup EXCEPT !.todo = @ \ {c}]
      /\ UNCHANGED <<roster, cmd, commands, published>>
  BY DEF SupRejoins, files, outcomes
<1>2. <<"join", c>> \in Key
  BY Keys
<1>3. /\ ReqTypes' /\ FileTypes' /\ NameTypes' /\ LineTypes' /\ UNCHANGED <<link, channels, crossed, drops>>
      /\ req'[Sup].key = <<"join", c>>
      /\ \A v \in Waiter : v # Sup => req'[v] = req[v]
  BY <1>1, <1>2, Asking, Outsiders DEF Types
<1>4. LinkTypes'
  BY <1>3 DEF Types, LinkTypes
<1>5. sup' \in SupRecord
  BY <1>1 DEF Types, SupTypes, SupRecord
<1>6. Orders' /\ SupJoins'
  BY <1>1, <1>3, Outsiders DEF Types, Orders, Ordered, SupJoins
<1>7. published' \in BOOLEAN
  BY <1>1 DEF Types, SupTypes
<1> QED BY <1>1, <1>3, <1>4, <1>5, <1>6, <1>7, FilesKept, SupTypesKept DEF Types

LEMMA TypesSupHasJoined ==
  ASSUME Types, SupHasJoined
  PROVE  Types'
<1>1. /\ req[Sup].state # "waiting" /\ Clears(Sup)
      /\ UNCHANGED <<link, inbound, pending, channels, member, refused, crossed, drops>>
      /\ UNCHANGED <<roster, cmd, commands>> /\ UNCHANGED <<published, sup>>
  BY DEF SupHasJoined, Clears, files, outcomes
<1>2. /\ ReqTypes' /\ FileTypes' /\ req'[Sup].state = "none"
      /\ \A v \in Waiter : v # Sup => req'[v] = req[v]
  BY <1>1, Clearing, Outsiders DEF Types
<1>3. LinkTypes' /\ LineTypes' /\ NameTypes'
  BY <1>1 DEF Types, LinkTypes, LineTypes, NameTypes
<1>4. Orders' /\ SupJoins'
  BY <1>1, <1>2, Outsiders DEF Types, Orders, Ordered, SupJoins
<1>5. sup' \in SupRecord /\ published' \in BOOLEAN
  BY <1>1 DEF Types, SupTypes
<1> QED BY <1>1, <1>2, <1>3, <1>4, <1>5, FilesKept, SupTypesKept DEF Types

LEMMA TypesSupHearsNothing ==
  ASSUME Types, SupHearsNothing
  PROVE  Types'
<1>1. /\ link' = [link EXCEPT !.up = FALSE] /\ inbound' \in {inbound, <<>>}
      /\ link.up => drops < MaxDrops
      /\ drops' = IF link.up THEN drops + 1 ELSE drops
      /\ published' = FALSE
      /\ UNCHANGED <<pending, req, channels, member, refused, crossed>>
      /\ UNCHANGED <<roster, cmd, commands>> /\ UNCHANGED sup
  BY DEF SupHearsNothing, CloseLink, files, outcomes
<1>2. LinkTypes'
  <2>1. link' \in LinkRecord
    BY <1>1 DEF Types, LinkTypes, LinkRecord
  <2>2. drops' \in 0..MaxDrops
    BY <1>1, ConnBoundsAssumption DEF Types, LinkTypes
  <2> QED BY <2>1, <2>2 DEF LinkTypes
<1>3. FileTypes' /\ ReqTypes' /\ NameTypes'
  BY <1>1 DEF Types, FileTypes, Filing, ReqTypes, NameTypes
<1>4. sup' \in SupRecord /\ published' \in BOOLEAN
  BY <1>1 DEF Types, SupTypes
<1>5. Orders' /\ SupJoins'
  BY <1>1, OrdersKept
<1> QED BY <1>1, <1>2, <1>3, <1>4, <1>5, LosesLines, FilesKept, SupTypesKept DEF Types

----------------------------------------------------------------------------
(* The commands. *)

LEMMA ServerKept ==
  ASSUME Types, UNCHANGED server
  PROVE  SupTypes'
BY DEF Types, server, SupTypes, CmdTypes

LEMMA TypesBegins ==
  ASSUME Types, NEW c \in Cmd, NEW op \in {"join", "part", "names", "privmsg"},
         NEW target \in Channel \cup Nick, Begins(c, op, target),
         op = "privmsg" => target \in Nick, op # "privmsg" => target \in Channel
  PROVE  Types'
<1>1. /\ cmd' \in [Cmd -> CmdRecord]
      /\ cmd'[c].pc = "call" /\ cmd'[c].op = op /\ cmd'[c].target = target
      /\ \A d \in Cmd : d # c => cmd'[d] = cmd[d]
      /\ cmd[c].pc = "idle" /\ commands < MaxCommands /\ commands' = commands + 1
      /\ UNCHANGED connVars /\ UNCHANGED server
  BY Beginning DEF Types, CmdTypes, SupTypes
<1>2. commands' \in 0..MaxCommands
  BY <1>1, CommandBoundsAssumption DEF Types, CmdTypes
<1>3. UNCHANGED req
  BY <1>1 DEF connVars
<1>4. req[c].state = "none"
  BY <1>1 DEF Types, Orders, Ordered
<1>5. Ordered(c)'
  BY <1>1, <1>3, <1>4 DEF Ordered
<1>6. Orders' /\ SupJoins'
  BY <1>1, <1>3, <1>5, OrderMoves
<1>7. CmdTypes' /\ SupTypes'
  BY <1>1, <1>2, ServerKept DEF CmdTypes
<1> QED BY <1>1, <1>6, <1>7, ConnKept DEF Types

LEMMA TypesJoin ==
  ASSUME Types, NEW c \in Cmd, NEW channel \in Channel,
         Join(c, channel) \/ Part(c, channel) \/ Members(c, channel)
  PROVE  Types'
<1>1. \/ Begins(c, "join", channel) \/ Begins(c, "part", channel) \/ Begins(c, "names", channel)
  BY DEF Join, Part, Members
<1> QED BY <1>1, TypesBegins

LEMMA TypesDM ==
  ASSUME Types, NEW c \in Cmd, NEW nick \in Nick, DM(c, nick)
  PROVE  Types'
<1>1. Begins(c, "privmsg", nick)
  BY DEF DM
<1> QED BY <1>1, TypesBegins

LEMMA OpKey ==
  ASSUME Types, NEW c \in Cmd, cmd[c].pc # "idle", cmd[c].op # "part"
  PROVE  /\ <<cmd[c].op, cmd[c].target>> \in Key
         /\ cmd[c].op = "join" \/ cmd[c].op = "names" \/ cmd[c].op = "privmsg"
<1>1. Ordered(c) /\ cmd[c].op \in {"none", "join", "part", "names", "privmsg"}
  BY CmdFields DEF Types, Orders
<1>2. cmd[c].op # "none"
  BY <1>1 DEF Ordered
<1>3. \/ cmd[c].op \in {"join", "names"} /\ cmd[c].target \in Channel
      \/ cmd[c].op = "privmsg" /\ cmd[c].target \in Nick
  BY <1>1, <1>2 DEF Ordered
<1> QED BY <1>3, Keys

LEMMA TypesHandlerAsks ==
  ASSUME Types, NEW c \in Cmd, HandlerAsks(c)
  PROVE  Types'
<1> DEFINE key == <<cmd[c].op, cmd[c].target>>
<1>1. /\ cmd[c].pc = "call" /\ cmd[c].op # "part" /\ Ask(c, key) /\ Pc(c, "wait")
      /\ UNCHANGED server /\ UNCHANGED commands
  BY DEF HandlerAsks
<1>2. key \in Key
  BY <1>1, OpKey
<1>3. req[c].state = "none"
  BY <1>1 DEF Types, Orders, Ordered
<1>4. /\ ReqTypes' /\ FileTypes' /\ NameTypes' /\ LineTypes' /\ UNCHANGED <<link, channels, crossed, drops>>
      /\ req'[c].key = key /\ req'[c].state # "none"
      /\ \A v \in Waiter : v # c => req'[v] = req[v]
  <2> HIDE DEF key
  <2> QED BY <1>1, <1>2, <1>3, Asking, Outsiders DEF Types
<1>5. /\ cmd' \in [Cmd -> CmdRecord]
      /\ cmd'[c].pc = "wait" /\ cmd'[c].op = cmd[c].op /\ cmd'[c].target = cmd[c].target
      /\ \A d \in Cmd : d # c => cmd'[d] = cmd[d]
  BY <1>1, Placing DEF Types, CmdTypes, CmdPc
<1>6. LinkTypes'
  BY <1>4 DEF Types, LinkTypes
<1>7. Ordered(c)'
  <2>1. Ordered(c)
    BY DEF Types, Orders
  <2> QED BY <1>1, <1>4, <1>5, <2>1 DEF Ordered
<1>8. Orders' /\ SupJoins'
  BY <1>4, <1>5, <1>7, OrderMoves, Outsiders
<1>9. SupTypes' /\ CmdTypes'
  BY <1>1, <1>5, ServerKept DEF Types, CmdTypes
<1> QED BY <1>4, <1>6, <1>8, <1>9 DEF Types

(* A command moves on, or ends, and its request is as it was. *)
LEMMA TypesPlaces ==
  ASSUME Types, NEW c \in Cmd,
         \/ Pc(c, "save") /\ cmd[c].pc = "call" /\ cmd[c].op = "part"
         \/ Ends(c) /\ cmd[c].pc \in {"call", "save"}
         \/ Pc(c, "left") /\ cmd[c].pc = "wait",
         UNCHANGED req
  PROVE  cmd' \in [Cmd -> CmdRecord] /\ Orders' /\ SupJoins'
<1>1. cmd \in [Cmd -> CmdRecord] /\ Ordered(c)
  BY DEF Types, CmdTypes, Orders
<1>2. /\ cmd' \in [Cmd -> CmdRecord] /\ \A d \in Cmd : d # c => cmd'[d] = cmd[d]
      /\ Ordered(c)'
  <2>1. CASE Pc(c, "save") /\ cmd[c].pc = "call" /\ cmd[c].op = "part"
    <3>1. "save" \in CmdPc
      BY DEF CmdPc
    <3>2. /\ cmd' \in [Cmd -> CmdRecord]
          /\ cmd'[c].pc = "save" /\ cmd'[c].op = cmd[c].op /\ cmd'[c].target = cmd[c].target
          /\ \A d \in Cmd : d # c => cmd'[d] = cmd[d]
      BY <1>1, <2>1, <3>1, Placing
    <3> QED BY <1>1, <2>1, <3>2 DEF Ordered
  <2>2. CASE Ends(c) /\ cmd[c].pc \in {"call", "save"}
    <3>1. /\ cmd' \in [Cmd -> CmdRecord] /\ cmd'[c].pc = "idle" /\ cmd'[c].op = "none"
          /\ \A d \in Cmd : d # c => cmd'[d] = cmd[d]
      BY <1>1, <2>2, Ending
    <3> QED BY <1>1, <2>2, <3>1 DEF Ordered
  <2>3. CASE Pc(c, "left") /\ cmd[c].pc = "wait"
    <3>1. "left" \in CmdPc
      BY DEF CmdPc
    <3>2. /\ cmd' \in [Cmd -> CmdRecord]
          /\ cmd'[c].pc = "left" /\ cmd'[c].op = cmd[c].op /\ cmd'[c].target = cmd[c].target
          /\ \A d \in Cmd : d # c => cmd'[d] = cmd[d]
      BY <1>1, <2>3, <3>1, Placing
    <3> QED BY <1>1, <2>3, <3>2 DEF Ordered
  <2> QED BY <2>1, <2>2, <2>3
<1> QED BY <1>2, OrderMoves

LEMMA TypesHandlerParts ==
  ASSUME Types, NEW c \in Cmd, HandlerParts(c)
  PROVE  Types'
<1>1. /\ cmd[c].pc = "call" /\ cmd[c].op = "part" /\ SendPart(cmd[c].target) /\ Pc(c, "save")
      /\ UNCHANGED server /\ UNCHANGED commands
  BY DEF HandlerParts
<1>2. /\ channels' \subseteq channels /\ member' \subseteq member
      /\ crossed' \subseteq crossed \cup {cmd[c].target}
      /\ UNCHANGED <<link, inbound, pending, req, refused, drops>>
  BY <1>1 DEF SendPart, Parts
<1>3. cmd[c].target \in Channel
  BY <1>1 DEF Types, Orders, Ordered
<1>5. LinkTypes' /\ LineTypes' /\ FileTypes' /\ ReqTypes' /\ NameTypes'
  BY <1>2, <1>3 DEF Types, LinkTypes, LineTypes, FileTypes, Filing, ReqTypes, NameTypes
<1>4. cmd' \in [Cmd -> CmdRecord] /\ Orders' /\ SupJoins'
  BY <1>1, <1>2, TypesPlaces
<1> QED BY <1>1, <1>4, <1>5, ServerKept DEF Types, CmdTypes

LEMMA TypesCommandOnly ==
  ASSUME Types, NEW c \in Cmd, HandlerHasNoConnection(c) \/ CallFails(c) \/ GivesUp(c)
  PROVE  Types'
<1>1. UNCHANGED connVars /\ UNCHANGED server /\ UNCHANGED commands
  BY DEF HandlerHasNoConnection, CallFails, GivesUp
<1>2. UNCHANGED req
  BY <1>1 DEF connVars
<1>3. \/ Pc(c, "save") /\ cmd[c].pc = "call" /\ cmd[c].op = "part"
      \/ Ends(c) /\ cmd[c].pc \in {"call", "save"}
      \/ Pc(c, "left") /\ cmd[c].pc = "wait"
  BY DEF HandlerHasNoConnection, CallFails, GivesUp
<1>4. cmd' \in [Cmd -> CmdRecord] /\ Orders' /\ SupJoins'
  BY <1>2, <1>3, TypesPlaces
<1> QED BY <1>1, <1>4, ServerKept, ConnKept DEF Types, CmdTypes

LEMMA TypesHandlerReplies ==
  ASSUME Types, NEW c \in Cmd, HandlerReplies(c)
  PROVE  Types'
<1>1. /\ req[c].state # "waiting" /\ Clears(c)
      /\ cmd[c].pc \in {"wait", "left"} /\ ((Pc(c, "save") /\ cmd[c].op = "join") \/ Ends(c))
      /\ UNCHANGED <<link, inbound, pending, channels, member, refused, crossed, drops>>
      /\ UNCHANGED server /\ UNCHANGED commands
  BY DEF HandlerReplies, Clears
<1>2. /\ ReqTypes' /\ FileTypes' /\ req'[c].state = "none"
      /\ \A v \in Waiter : v # c => req'[v] = req[v]
  BY <1>1, Clearing, Outsiders DEF Types
<1>3. LinkTypes' /\ LineTypes' /\ NameTypes'
  BY <1>1 DEF Types, LinkTypes, LineTypes, NameTypes
<1>4. cmd \in [Cmd -> CmdRecord] /\ Ordered(c)
  BY DEF Types, CmdTypes, Orders
<1>5. /\ cmd' \in [Cmd -> CmdRecord] /\ \A d \in Cmd : d # c => cmd'[d] = cmd[d]
      /\ Ordered(c)'
  <2>1. CASE Pc(c, "save") /\ cmd[c].op = "join"
    <3>1. "save" \in CmdPc
      BY DEF CmdPc
    <3>2. /\ cmd' \in [Cmd -> CmdRecord]
          /\ cmd'[c].pc = "save" /\ cmd'[c].op = cmd[c].op /\ cmd'[c].target = cmd[c].target
          /\ \A d \in Cmd : d # c => cmd'[d] = cmd[d]
      BY <1>4, <2>1, <3>1, Placing
    <3> QED BY <1>1, <1>2, <1>4, <2>1, <3>2 DEF Ordered
  <2>2. CASE Ends(c)
    <3>1. /\ cmd' \in [Cmd -> CmdRecord] /\ cmd'[c].pc = "idle" /\ cmd'[c].op = "none"
          /\ \A d \in Cmd : d # c => cmd'[d] = cmd[d]
      BY <1>4, <2>2, Ending
    <3> QED BY <1>2, <1>4, <3>1 DEF Ordered
  <2> QED BY <1>1, <2>1, <2>2
<1>6. Orders' /\ SupJoins'
  BY <1>2, <1>5, OrderMoves, Outsiders
<1> QED BY <1>1, <1>2, <1>3, <1>5, <1>6, ServerKept DEF Types, CmdTypes

LEMMA TypesSaves ==
  ASSUME Types, NEW c \in Cmd, Saves(c)
  PROVE  Types'
<1>1. /\ cmd[c].pc = "save" /\ Ends(c)
      /\ roster' = IF cmd[c].op = "join" THEN cmd[c].base \cup {cmd[c].target}
                   ELSE cmd[c].base \ {cmd[c].target}
      /\ UNCHANGED connVars /\ UNCHANGED <<published, sup, commands>>
  BY DEF Saves
<1>2. UNCHANGED req
  BY <1>1 DEF connVars
<1>3. cmd' \in [Cmd -> CmdRecord] /\ Orders' /\ SupJoins'
  BY <1>1, <1>2, TypesPlaces
<1>4. cmd[c].base \subseteq Channel /\ (cmd[c].op = "join" => cmd[c].target \in Channel)
  BY CmdFields DEF Types, Orders, Ordered
<1>5. SupTypes'
  BY <1>1, <1>4 DEF Types, SupTypes
<1>6. CmdTypes'
  BY <1>1, <1>3 DEF Types, CmdTypes
<1> QED BY <1>1, <1>3, <1>5, <1>6, ConnKept DEF Types

LEMMA TypesKilled ==
  ASSUME Types, NEW c \in Cmd, Killed(c)
  PROVE  Types'
<1>1. /\ cmd[c].pc \in {"wait", "save"} /\ commands < MaxCommands /\ commands' = commands + 1
      /\ IF cmd[c].pc = "wait" THEN Pc(c, "left") ELSE Ends(c)
      /\ UNCHANGED connVars /\ UNCHANGED <<roster, published, sup>>
  BY DEF Killed, server
<1>2. UNCHANGED req
  BY <1>1 DEF connVars
<1>3. cmd' \in [Cmd -> CmdRecord] /\ Orders' /\ SupJoins'
  BY <1>1, <1>2, TypesPlaces
<1>4. ChangesRecord(cmd[c].op) => cmd[c].target \in Channel
  BY DEF Types, Orders, Ordered, ChangesRecord
<1>5. commands' \in 0..MaxCommands
  BY <1>1, CommandBoundsAssumption DEF Types, CmdTypes
<1>6. SupTypes' /\ CmdTypes'
  BY <1>1, <1>3, <1>4, <1>5 DEF Types, CmdTypes, SupTypes
<1> QED BY <1>1, <1>3, <1>6, ConnKept DEF Types

----------------------------------------------------------------------------
(* The types hold. *)

LEMMA TypesInit ==
  ASSUME Init
  PROVE  Types
<1> USE DEF Init, ConnInit
<1>1. LinkTypes
  BY ConnBoundsAssumption DEF LinkTypes, LinkRecord, NoLink
<1>2. LineTypes
  BY DEF LineTypes
<1>3. \A w \in Waiter : req[w] = NoRequest
  OBVIOUS
<1>4. NoRequest \in Request /\ NoRequest.state = "none"
  BY DEF NoRequest, Request
<1>5. ReqTypes
  BY <1>4 DEF ReqTypes
<1>6. FileTypes
  BY Outsiders DEF FileTypes, Filing, NothingFiled
<1>7. NameTypes /\ SupTypes
  BY Outsiders DEF NameTypes, SupTypes, SupRecord, SupPlace
<1>8. Idle \in CmdRecord /\ Idle.pc = "idle" /\ Idle.op = "none"
  BY Outsiders DEF Idle, CmdRecord, CmdPc
<1>9. CmdTypes
  BY <1>8, CommandBoundsAssumption DEF CmdTypes
<1>10. Orders
  <2> SUFFICES ASSUME NEW c \in Cmd
               PROVE  Ordered(c)
    BY DEF Orders
  <2>1. cmd[c] = Idle /\ req[c].state = "none"
    BY <1>3, <1>4, Outsiders
  <2> QED BY <1>8, <2>1 DEF Ordered
<1>11. SupJoins
  BY <1>3, <1>4, Outsiders DEF SupJoins
<1> QED BY <1>1, <1>2, <1>5, <1>6, <1>7, <1>9, <1>10, <1>11 DEF Types

(* The steps, one by one. *)
ConnectionSteps ==
  /\ UNCHANGED OfOthers
  /\ HandleLine \/ ReadLoopEnds \/ Drops \/ \E w \in Waiter : WaitEnds(w) \/ WindowEnds(w)

LEMMA NextCases ==
  ASSUME Next
  PROVE  SupStep \/ (\E c \in Cmd : CmdStep(c)) \/ ConnectionSteps
BY DEF Next, ConnStep, ConnectionSteps, OfOthers, server

LEMMA TypesStep ==
  ASSUME Types, [Next]_vars
  PROVE  Types'
<1>1. CASE SupStep
  BY <1>1, TypesSupMoves, TypesSupDials, TypesSupHooks, TypesSupRejoins, TypesSupHasJoined,
     TypesSupHearsNothing DEF SupStep
<1>2. CASE \E c \in Cmd : CmdStep(c)
  <2>1. PICK c \in Cmd : CmdStep(c)
    BY <1>2
  <2> QED BY <2>1, TypesJoin, TypesDM, TypesHandlerAsks, TypesHandlerParts, TypesCommandOnly,
             TypesHandlerReplies, TypesSaves, TypesKilled DEF CmdStep
<1>3. CASE ConnectionSteps
  BY <1>3, TypesHandleLine, TypesReadLoopEnds, TypesDrops, TypesWaitEnds, TypesWindowEnds
     DEF ConnectionSteps
<1>4. CASE UNCHANGED vars
  <2>1. UNCHANGED connVars /\ UNCHANGED cmd /\ UNCHANGED OfOthers /\ UNCHANGED req
    BY <1>4 DEF vars, connVars, OfOthers
  <2>2. Orders' /\ SupJoins'
    BY <2>1, OrdersKept
  <2> QED BY <2>1, <2>2, ConnKept, OthersKept DEF Types
<1> QED BY <1>1, <1>2, <1>3, <1>4, NextCases

(* The channels and the commands that history remembers. *)
LEMMA HistoryStep ==
  ASSUME Types, HistoryTypes, [Next]_vars
  PROVE  HistoryTypes'
<1>1. CASE UNCHANGED history
  BY <1>1 DEF history, HistoryTypes
<1>2. CASE SupLoads
  BY <1>2 DEF SupLoads, Loads, HistoryTypes
<1>3. CASE \E channel \in Channel : SupRejoins(channel)
  BY <1>3 DEF SupRejoins, Elsewhere, Doubts, HistoryTypes
<1>4. ASSUME NEW c \in Cmd, Abandons(c)
      PROVE  HistoryTypes'
  <2>1. ChangesRecord(cmd[c].op) => cmd[c].target \in Channel
    BY DEF ChangesRecord, Types, Orders, Ordered
  <2> QED BY <1>4, <2>1 DEF Abandons, Doubts, HistoryTypes
<1>5. CASE \E c \in Cmd : HandlerAsks(c) \/ HandlerParts(c)
  BY <1>5 DEF HandlerAsks, HandlerParts, Elsewhere, HistoryTypes
<1>6. CASE \E c \in Cmd : GivesUp(c) \/ Killed(c)
  BY <1>4, <1>6 DEF GivesUp, Killed
<1>7. CASE \E c \in Cmd : HandlerReplies(c)
  <2>1. PICK c \in Cmd : HandlerReplies(c)
    BY <1>7
  <2>2. \/ UNCHANGED history \/ Abandons(c)
        \/ sure' = sure \ {c} /\ UNCHANGED doubtful
    BY <2>1 DEF HandlerReplies
  <2> QED BY <1>1, <1>4, <2>2 DEF HistoryTypes
<1>8. CASE \E c \in Cmd : Saves(c)
  <2>1. PICK c \in Cmd : Saves(c)
    BY <1>8
  <2>2. cmd[c].target \in Channel /\ Undone(c) \subseteq Channel
    BY <2>1, CmdFields DEF Saves, Undone, Types, Orders, Ordered, SupTypes
  <2> QED BY <2>1, <2>2 DEF Saves, HistoryTypes
<1>9. CASE SupStep
  BY <1>1, <1>2, <1>3, <1>9 DEF SupStep, SupDials, SupDialFails, SupHooks, SupHasJoined, SupRuns,
     SupNotices, SupHearsNothing, files, vars
<1>10. CASE \E c \in Cmd : CmdStep(c)
  BY <1>1, <1>5, <1>6, <1>7, <1>8, <1>10 DEF CmdStep, Join, Part, Members, DM, Begins,
     HandlerHasNoConnection, CallFails
<1>11. CASE ConnectionSteps \/ UNCHANGED vars
  BY <1>1, <1>11 DEF ConnectionSteps, OfOthers, vars
<1> QED BY <1>9, <1>10, <1>11, NextCases

(* Typed: the types, and where the requests of a command and of the
   supervisor belong, hold always: the invariant that every later proof
   about the connection starts from. *)
THEOREM Typed == Spec => [](Types /\ HistoryTypes)
<1>1. Init => Types /\ HistoryTypes
  BY TypesInit DEF Init, HistoryTypes
<1>2. Types /\ HistoryTypes /\ [Next]_vars => Types' /\ HistoryTypes'
  BY TypesStep, HistoryStep
<1> QED BY <1>1, <1>2, PTL DEF Spec

(* ChannelTypes: every variable keeps its type; in particular an entry of
   the table always names a goroutine that waits for that entry on that
   connection, so that no request is resolved twice (Conn.resolvePending,
   Conn.registerPending), however commands overlap. *)
THEOREM ChannelTypes == Spec => []TypeOK
<1>1. Types /\ HistoryTypes => TypeOK
  BY TypesGiveTypeOK
<1> QED BY <1>1, Typed, PTL

----------------------------------------------------------------------------
(* The home channel. *)

Knowing == Home \in member \cup refused

HomeInv ==
  /\ Home \in roster
  /\ \A c \in Cmd : /\ cmd[c].pc # "idle" => Home \in cmd[c].base
                    /\ cmd[c].op = "part" => cmd[c].target # Home
  /\ sup.pc # "load" => Home \in sup.st
  /\ sup.pc = "rejoin" /\ link.up => Home \in sup.todo \/ Knowing
  /\ sup.pc = "run" /\ link.up => Knowing

(* Once the server has decided about a channel, it stays decided until the
   client parts. *)
LEMMA Decided ==
  ASSUME NEW key \in Key, NEW w \in Waiter, Served(w, key)
  PROVE  /\ member \cup refused \subseteq member' \cup refused'
         /\ link.up /\ key[1] = "join" => key[2] \in member' \cup refused'
<1>1. CASE ~link.up
  BY <1>1 DEF Served
<1>2. CASE link.up
  <2> DEFINE truth == req'[w].truth
  <2>1. ServerTakes(key, truth)
    BY <1>2 DEF Served
  <2> HIDE DEF truth
  <2> QED BY <2>1 DEF ServerTakes
<1> QED BY <1>1, <1>2

LEMMA HomeInit ==
  ASSUME Init
  PROVE  HomeInv
BY DEF Init, ConnInit, HomeInv, Idle, NoLink

LEMMA HomeSup ==
  ASSUME Types, HomeInv, SupStep
  PROVE  HomeInv'
<1>0. sup \in SupRecord
  BY DEF Types, SupTypes
<1>1. ASSUME SupHasJoined \/ SupDialFails \/ SupLoads \/ SupNotices \/ SupHearsNothing
      PROVE  HomeInv'
  <2>1. UNCHANGED <<member, refused>>
    BY <1>1 DEF SupHasJoined, SupDialFails, SupLoads, Loads, SupNotices, SupHearsNothing, connVars
  <2>2. UNCHANGED <<roster, cmd>>
    BY <1>1 DEF SupHasJoined, SupDialFails, SupLoads, Loads, SupNotices, SupHearsNothing, files, outcomes
  <2>3. link' = link \/ (SupHearsNothing /\ ~link'.up)
    <3>1. SupHearsNothing => ~link'.up
      BY DEF SupHearsNothing, CloseLink, Types, LinkTypes, LinkRecord
    <3> QED BY <1>1, <3>1 DEF SupHasJoined, SupDialFails, SupLoads, Loads, SupNotices, connVars
  <2>4. \/ UNCHANGED sup
        \/ sup'.pc = "load"
        \/ sup'.pc = "dial" /\ sup'.st = roster
    BY <1>0, <1>1 DEF SupHasJoined, SupDialFails, SupLoads, Loads, SupNotices, SupHearsNothing, SupPc, SupRecord
  <2> QED BY <2>1, <2>2, <2>3, <2>4 DEF HomeInv, Knowing
<1>2. ASSUME SupDials
      PROVE  HomeInv'
  <2>1. UNCHANGED <<roster, cmd>> /\ sup.pc = "dial" /\ sup'.pc = "hook" /\ sup'.st = sup.st
    BY <1>0, <1>2 DEF SupDials, files, outcomes, SupPc, SupRecord
  <2> QED BY <2>1 DEF HomeInv
<1>3. ASSUME SupHooks
      PROVE  HomeInv'
  <2>1. /\ UNCHANGED <<roster, cmd>> /\ sup.pc = "hook" /\ sup'.pc = "rejoin"
        /\ sup'.st = sup.st /\ sup'.todo = sup.st
    BY <1>0, <1>3 DEF SupHooks, outcomes, files, SupRecord
  <2> QED BY <2>1 DEF HomeInv
<1>4. ASSUME SupRuns
      PROVE  HomeInv'
  <2>1. /\ UNCHANGED <<roster, cmd>> /\ UNCHANGED <<member, refused, link>>
        /\ sup.pc = "rejoin" /\ sup.todo = {} /\ sup'.pc = "run" /\ sup'.st = sup.st
    BY <1>0, <1>4 DEF SupRuns, connVars, outcomes, files, SupPc, SupRecord
  <2> QED BY <2>1 DEF HomeInv, Knowing
<1>5. ASSUME NEW c \in Channel, SupRejoins(c)
      PROVE  HomeInv'
  <2>1. /\ UNCHANGED <<roster, cmd>> /\ req[Sup].state = "none" /\ Ask(Sup, <<"join", c>>)
        /\ sup.pc = "rejoin" /\ sup'.pc = "rejoin" /\ sup'.st = sup.st /\ sup'.todo = sup.todo \ {c}
    BY <1>0, <1>5 DEF SupRejoins, files, outcomes, SupRecord
  <2>2. <<"join", c>> \in Key
    BY Keys
  <2>3. UNCHANGED link /\ Served(Sup, <<"join", c>>)
    BY <2>1, <2>2, Asking, Outsiders DEF Types
  <2>4. member \cup refused \subseteq member' \cup refused' /\ (link.up => c \in member' \cup refused')
    BY <2>2, <2>3, Decided, Outsiders
  <2> QED BY <2>1, <2>3, <2>4 DEF HomeInv, Knowing
<1> QED BY <1>1, <1>2, <1>3, <1>4, <1>5 DEF SupStep

LEMMA HomeCmd ==
  ASSUME Types, HomeInv, NEW c \in Cmd, CmdStep(c)
  PROVE  HomeInv'
<1>0. cmd \in [Cmd -> CmdRecord] /\ roster \subseteq Channel
  BY DEF Types, CmdTypes, SupTypes
<1>1. ASSUME NEW op \in {"join", "part", "names", "privmsg"}, NEW target \in Channel \cup Nick,
             Begins(c, op, target), op = "part" => target # Home
      PROVE  HomeInv'
  <2>1. /\ cmd'[c].op = op /\ cmd'[c].target = target /\ cmd'[c].base = roster
        /\ \A d \in Cmd : d # c => cmd'[d] = cmd[d]
        /\ UNCHANGED connVars /\ UNCHANGED server
    BY <1>0, <1>1, Beginning
  <2> QED BY <1>1, <2>1 DEF HomeInv, Knowing, connVars, server
<1>2. ASSUME NEW channel \in Channel, Join(c, channel) \/ Part(c, channel) \/ Members(c, channel)
      PROVE  HomeInv'
  BY <1>1, <1>2 DEF Join, Part, Members
<1>3. ASSUME NEW nick \in Nick, DM(c, nick)
      PROVE  HomeInv'
  BY <1>1, <1>3 DEF DM
<1>4. ASSUME \/ \E pc \in CmdPc : Pc(c, pc) /\ cmd[c].pc # "idle"
             \/ Ends(c),
             UNCHANGED roster
      PROVE  /\ Home \in roster'
             /\ \A d \in Cmd : /\ cmd'[d].pc # "idle" => Home \in cmd'[d].base
                               /\ cmd'[d].op = "part" => cmd'[d].target # Home
  <2>1. CASE \E pc \in CmdPc : Pc(c, pc) /\ cmd[c].pc # "idle"
    <3>1. PICK pc \in CmdPc : Pc(c, pc) /\ cmd[c].pc # "idle"
      BY <2>1
    <3>2. /\ cmd'[c].op = cmd[c].op /\ cmd'[c].target = cmd[c].target /\ cmd'[c].base = cmd[c].base
          /\ \A d \in Cmd : d # c => cmd'[d] = cmd[d]
      BY <1>0, <3>1, Placing
    <3> QED BY <1>4, <3>1, <3>2 DEF HomeInv
  <2>2. CASE Ends(c)
    <3>1. /\ cmd'[c].pc = "idle" /\ cmd'[c].op = "none"
          /\ \A d \in Cmd : d # c => cmd'[d] = cmd[d]
      BY <1>0, <2>2, Ending
    <3> QED BY <1>4, <3>1 DEF HomeInv
  <2> QED BY <1>4, <2>1, <2>2
<1>5. ASSUME HandlerHasNoConnection(c) \/ CallFails(c) \/ GivesUp(c) \/ HandlerReplies(c) \/ Killed(c)
      PROVE  HomeInv'
  <2>1. UNCHANGED <<roster, sup, member, refused, link>>
    BY <1>5 DEF HandlerHasNoConnection, CallFails, GivesUp, HandlerReplies, Killed, connVars, server
  <2>2. \/ \E pc \in CmdPc : Pc(c, pc) /\ cmd[c].pc # "idle"
        \/ Ends(c)
    BY <1>5 DEF HandlerHasNoConnection, CallFails, GivesUp, HandlerReplies, Killed, CmdPc
  <2> QED BY <1>4, <2>1, <2>2 DEF HomeInv, Knowing
<1>6. ASSUME HandlerAsks(c)
      PROVE  HomeInv'
  <2> DEFINE key == <<cmd[c].op, cmd[c].target>>
  <2>1. /\ cmd[c].pc = "call" /\ cmd[c].op # "part" /\ Ask(c, key) /\ Pc(c, "wait")
        /\ UNCHANGED <<roster, sup>>
    BY <1>6 DEF HandlerAsks, server
  <2>2. key \in Key /\ req[c].state = "none" /\ "wait" \in CmdPc
    BY <2>1, OpKey DEF Types, Orders, Ordered, CmdPc
  <2> HIDE DEF key
  <2>3. UNCHANGED link /\ Served(c, key)
    BY <2>1, <2>2, Asking, Outsiders DEF Types
  <2>4. member \cup refused \subseteq member' \cup refused'
    BY <2>2, <2>3, Decided, Outsiders
  <2> QED BY <1>4, <2>1, <2>2, <2>3, <2>4 DEF HomeInv, Knowing
<1>7. ASSUME HandlerParts(c)
      PROVE  HomeInv'
  <2>1. /\ cmd[c].pc = "call" /\ cmd[c].op = "part" /\ SendPart(cmd[c].target) /\ Pc(c, "save")
        /\ UNCHANGED <<roster, sup>>
    BY <1>7 DEF HandlerParts, server
  <2>2. UNCHANGED <<link, refused>> /\ member \ {cmd[c].target} \subseteq member'
    BY <2>1 DEF SendPart, Parts
  <2>3. cmd[c].target # Home /\ "save" \in CmdPc
    BY <2>1 DEF HomeInv, CmdPc
  <2> QED BY <1>4, <2>1, <2>2, <2>3 DEF HomeInv, Knowing
<1>8. ASSUME Saves(c)
      PROVE  HomeInv'
  <2>1. /\ cmd[c].pc = "save" /\ Ends(c)
        /\ roster' = IF cmd[c].op = "join" THEN cmd[c].base \cup {cmd[c].target}
                     ELSE cmd[c].base \ {cmd[c].target}
        /\ UNCHANGED <<sup, member, refused, link>>
    BY <1>8 DEF Saves, connVars
  <2>2. Home \in cmd[c].base
    BY <2>1 DEF HomeInv
  <2>3. cmd[c].op = "join" \/ cmd[c].op = "part"
    BY <2>1 DEF Types, Orders, Ordered
  <2>4. Home \in roster'
    BY <2>1, <2>2, <2>3 DEF HomeInv
  <2>5. /\ cmd'[c].pc = "idle" /\ cmd'[c].op = "none"
        /\ \A d \in Cmd : d # c => cmd'[d] = cmd[d]
    BY <1>0, <2>1, Ending
  <2> QED BY <2>1, <2>4, <2>5 DEF HomeInv, Knowing
<1> QED BY <1>2, <1>3, <1>5, <1>6, <1>7, <1>8 DEF CmdStep

LEMMA HomeConn ==
  ASSUME Types, HomeInv, ConnectionSteps
  PROVE  HomeInv'
<1>1. UNCHANGED <<roster, cmd, sup>>
  BY DEF ConnectionSteps, OfOthers
<1>2. UNCHANGED <<member, refused>> /\ (link'.up => link.up)
  BY LineCases DEF ConnectionSteps, ReadLoopEnds, Drops, WaitEnds, WindowEnds, Types, LinkTypes, LinkRecord
<1> QED BY <1>1, <1>2 DEF HomeInv, Knowing

(* HomeIsHeld: no command ever takes the client out of its home channel, and
   no reconnection forgets it, however commands overlap (CanPart,
   supervise). *)
THEOREM HomeIsHeld == Spec => []HomeHeld
<1>1. Init => HomeInv
  BY HomeInit
<1>2. Types /\ HomeInv /\ [Next]_vars => HomeInv'
  <2> SUFFICES ASSUME Types, HomeInv, [Next]_vars
               PROVE  HomeInv'
    OBVIOUS
  <2>1. CASE UNCHANGED vars
    BY <2>1 DEF vars, connVars, HomeInv, Knowing
  <2>2. CASE \E c \in Cmd : CmdStep(c)
    BY <2>2, HomeCmd
  <2> QED BY <2>1, <2>2, NextCases, HomeSup, HomeConn
<1>3. HomeInv => HomeHeld
  BY DEF HomeInv, HomeHeld, Knowing
<1> QED BY <1>1, <1>2, <1>3, Typed, PTL DEF Spec

=============================================================================
