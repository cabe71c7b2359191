-------------------------- MODULE ChannelMembershipProofs --------------------------
(***************************************************************************)
(* Proofs about ChannelMembership: what answers, the status and the record *)
(* are worth, for any number of commands that overlap each other, the      *)
(* rejoin, kills and dropped links in any way.                             *)
(*                                                                         *)
(* The argument.  Whoever is filed in the table under a key is the last to *)
(* have asked under it, so that a line that only such a request brings is  *)
(* the answer to it; and if nothing about the target was under way when it *)
(* was sent, the lines under way about it are in the order of what was     *)
(* asked, its own first (Coming).  What the connection lists differs from  *)
(* what the server knows by the echoes of JOIN under way, and by those     *)
(* that a PART has overtaken (Echo).  The record is right about every      *)
(* channel that is not in doubt and that no command is at work on, because *)
(* a command that is still sure of its channel knows what the server knows *)
(* (Knows), and what was read before a connection is rejoined (Right).     *)
(***************************************************************************)
EXTENDS ChannelTypesProofs

----------------------------------------------------------------------------
(* Requests and lines. *)

Kind(w) == req[w].key[1]
Target(w) == req[w].key[2]

(* w waits for the answer filed under its key. *)
Waits(w) == req[w].state = "waiting" /\ req[w].here /\ pending[req[w].key] = w

UnderWay == {inbound[i] : i \in 1..Len(inbound)}

(* The lines that resolve what is filed under a key. *)
Answers(line, key) ==
  \/ key[1] = "names" /\ line = Line("366", key[2])
  \/ key[1] = "join" /\ (line = Line("366", key[2]) \/ line = Line("473", key[2]))
  \/ key[1] = "privmsg" /\ line = Line("401", key[2])

----------------------------------------------------------------------------
(* The lines under way. *)

LEMMA TailLines ==
  ASSUME NEW s \in Seq(AnyLine), s # <<>>
  PROVE  /\ Len(s) \in Nat /\ Len(s) >= 1 /\ Head(s) = s[1]
         /\ Tail(s) \in Seq(AnyLine) /\ Len(Tail(s)) = Len(s) - 1
         /\ \A i \in 1..(Len(s) - 1) : Tail(s)[i] = s[i + 1]
BY HeadTailProperties

LEMMA LinesHandled ==
  ASSUME LineTypes, inbound # <<>>, inbound' = Tail(inbound)
  PROVE  /\ Head(inbound) \in UnderWay /\ UnderWay' \subseteq UnderWay
         /\ UnderWay \subseteq UnderWay' \cup {Head(inbound)}
<1>1. /\ Len(inbound) \in Nat /\ Len(inbound) >= 1 /\ Head(inbound) = inbound[1]
      /\ Len(inbound') = Len(inbound) - 1
      /\ \A i \in 1..(Len(inbound) - 1) : inbound'[i] = inbound[i + 1]
  BY TailLines DEF LineTypes
<1>2. Head(inbound) \in UnderWay
  BY <1>1 DEF UnderWay
<1>3. UnderWay' \subseteq UnderWay
  BY <1>1 DEF UnderWay
<1>4. UnderWay \subseteq UnderWay' \cup {Head(inbound)}
  <2> SUFFICES ASSUME NEW i \in 1..Len(inbound), i # 1
               PROVE  inbound[i] \in UnderWay'
    BY <1>1 DEF UnderWay
  <2>1. i - 1 \in 1..Len(inbound') /\ inbound'[i - 1] = inbound[i]
    BY <1>1
  <2> QED BY <2>1 DEF UnderWay
<1> QED BY <1>2, <1>3, <1>4

LEMMA LinesAdded ==
  ASSUME LineTypes, NEW r \in Seq(AnyLine), inbound' = inbound \o r
  PROVE  /\ Len(inbound) \in Nat /\ Len(r) \in Nat /\ Len(inbound') = Len(inbound) + Len(r)
         /\ \A i \in 1..Len(inbound) : inbound'[i] = inbound[i]
         /\ \A i \in 1..Len(r) : inbound'[Len(inbound) + i] = r[i]
         /\ UnderWay' = UnderWay \cup {r[i] : i \in 1..Len(r)}
<1>1. /\ Len(inbound) \in Nat /\ Len(r) \in Nat /\ Len(inbound') = Len(inbound) + Len(r)
      /\ \A i \in 1..(Len(inbound) + Len(r)) :
           inbound'[i] = IF i <= Len(inbound) THEN inbound[i] ELSE r[i - Len(inbound)]
  BY ConcatProperties DEF LineTypes
<1>2. \A i \in 1..Len(inbound) : inbound'[i] = inbound[i]
  BY <1>1
<1>3. \A i \in 1..Len(r) : inbound'[Len(inbound) + i] = r[i]
  BY <1>1
<1>4. UnderWay' \subseteq UnderWay \cup {r[i] : i \in 1..Len(r)}
  <2> SUFFICES ASSUME NEW i \in 1..Len(inbound')
               PROVE  inbound'[i] \in UnderWay \cup {r[k] : k \in 1..Len(r)}
    BY DEF UnderWay
  <2>1. CASE i <= Len(inbound)
    BY <1>1, <2>1 DEF UnderWay
  <2>2. CASE i > Len(inbound)
    <3>1. i - Len(inbound) \in 1..Len(r) /\ inbound'[i] = r[i - Len(inbound)]
      BY <1>1, <2>2
    <3> QED BY <3>1
  <2> QED BY <1>1, <2>1, <2>2
<1>5. UnderWay \subseteq UnderWay'
  BY <1>1, <1>2 DEF UnderWay
<1>6. \A i \in 1..Len(r) : r[i] \in UnderWay'
  <2> TAKE i \in 1..Len(r)
  <2>1. Len(inbound) + i \in 1..Len(inbound')
    BY <1>1
  <2> QED BY <1>3, <2>1 DEF UnderWay
<1> QED BY <1>1, <1>2, <1>3, <1>4, <1>5, <1>6

----------------------------------------------------------------------------
(* What handling a line does, whatever the line. *)

(* w waits under a key that the line at the head answers. *)
Gets(w) ==
  /\ req[w].state = "waiting" /\ req[w].here /\ pending[req[w].key] = w
  /\ Answers(Head(inbound), req[w].key)

LineEffect ==
  /\ \A w \in Waiter :
       /\ SameAsk(w)
       /\ Gets(w) => /\ req'[w].state = "answered" /\ (req'[w].ok <=> Head(inbound).type = "366")
                     /\ req'[w].lines = req[w].lines
       /\ ~Gets(w) => /\ req'[w].state = req[w].state /\ req'[w].ok = req[w].ok
                      /\ req'[w].lines =
                           IF Head(inbound).type = "353" /\ pending[<<"names", Head(inbound).about>>] = w
                           THEN req[w].lines + 1 ELSE req[w].lines
  /\ \A k \in Key : pending'[k] = IF Answers(Head(inbound), k) THEN None ELSE pending[k]
  /\ channels' = IF Head(inbound).type = "JOIN" THEN channels \cup {Head(inbound).about} ELSE channels

(* The keys that a line answers. *)
LEMMA AnswerKeys ==
  /\ \A c \in Channel, k \in Key :
       /\ ~Answers(Line("JOIN", c), k) /\ ~Answers(Line("353", c), k)
       /\ Answers(Line("366", c), k) <=> k \in {<<"names", c>>, <<"join", c>>}
       /\ Answers(Line("473", c), k) <=> k \in {<<"join", c>>}
  /\ \A n \in Nick, k \in Key : Answers(Line("401", n), k) <=> k \in {<<"privmsg", n>>}
<1>1. ASSUME NEW k \in Key
      PROVE  /\ k = <<k[1], k[2]>>
             /\ k[1] = "names" => \A l : Answers(l, k) <=> l = Line("366", k[2])
             /\ k[1] = "join" => \A l : Answers(l, k) <=> (l = Line("366", k[2]) \/ l = Line("473", k[2]))
             /\ k[1] = "privmsg" => \A l : Answers(l, k) <=> l = Line("401", k[2])
             /\ k[1] = "names" \/ k[1] = "join" \/ k[1] = "privmsg"
  <2>1. k = <<k[1], k[2]>> /\ (k[1] = "names" \/ k[1] = "join" \/ k[1] = "privmsg")
    BY Keys
  <2>2. ASSUME k[1] = "names"
        PROVE  \A l : Answers(l, k) <=> l = Line("366", k[2])
    BY <2>2 DEF Answers
  <2>3. ASSUME k[1] = "join"
        PROVE  \A l : Answers(l, k) <=> (l = Line("366", k[2]) \/ l = Line("473", k[2]))
    BY <2>3 DEF Answers
  <2>4. ASSUME k[1] = "privmsg"
        PROVE  \A l : Answers(l, k) <=> l = Line("401", k[2])
    BY <2>4 DEF Answers
  <2> QED BY <2>1, <2>2, <2>3, <2>4
<1>2. \A t, x, u, y : Line(t, x) = Line(u, y) <=> t = u /\ x = y
  BY LineKinds
<1>3. ASSUME NEW c \in Channel, NEW k \in Key
      PROVE  /\ ~Answers(Line("JOIN", c), k) /\ ~Answers(Line("353", c), k)
             /\ Answers(Line("366", c), k) <=> k \in {<<"names", c>>, <<"join", c>>}
             /\ Answers(Line("473", c), k) <=> k \in {<<"join", c>>}
  BY <1>1, <1>2
<1>4. ASSUME NEW n \in Nick, NEW k \in Key
      PROVE  Answers(Line("401", n), k) <=> k \in {<<"privmsg", n>>}
  BY <1>1, <1>2
<1> QED BY <1>3, <1>4

LEMMA HandlingLine ==
  ASSUME Types, HandleLine
  PROVE  LineEffect
<1> DEFINE h == Head(inbound)
<1>0. ReqTypes /\ FileTypes
  BY DEF Types
<1>1. ASSUME NEW keys \in SUBSET Key, NEW ok \in BOOLEAN, Resolve(keys, ok),
             ok <=> h.type = "366", h.type # "353", h.type # "JOIN", UNCHANGED channels,
             \A k \in Key : Answers(h, k) <=> k \in keys
      PROVE  LineEffect
  <2>1. /\ \A w \in Waiter :
              /\ SameAsk(w) /\ req'[w].lines = req[w].lines
              /\ Filed(keys, w) => /\ req'[w].state = "answered" /\ req'[w].ok = ok
                                   /\ req[w].state = "waiting" /\ req[w].key \in keys /\ req[w].here
              /\ ~Filed(keys, w) => req'[w] = req[w]
        /\ \A k \in Key : pending'[k] = IF k \in keys THEN None ELSE pending[k]
    BY <1>0, <1>1, ResolvingFiles
  <2>2. ASSUME NEW w \in Waiter
        PROVE  Gets(w) <=> Filed(keys, w)
    <3>1. ASSUME Gets(w)
          PROVE  Filed(keys, w)
      <4>1. req[w].key \in Key
        BY <1>0, <3>1 DEF ReqTypes, Gets
      <4> QED BY <1>1, <3>1, <4>1 DEF Gets, Filed
    <3>2. ASSUME Filed(keys, w)
          PROVE  Gets(w)
      <4>1. PICK k \in keys : pending[k] = w
        BY <3>2 DEF Filed
      <4>2. req[w].key = k /\ k \in Key /\ req[w].state = "waiting" /\ req[w].here
        BY <1>0, <4>1 DEF FileTypes, Filing
      <4> QED BY <1>1, <4>1, <4>2 DEF Gets
    <3> QED BY <3>1, <3>2
  <2>3. \A w \in Waiter :
              /\ SameAsk(w) /\ req'[w].lines = req[w].lines
              /\ Gets(w) => req'[w].state = "answered" /\ req'[w].ok = ok
              /\ ~Gets(w) => req'[w].state = req[w].state /\ req'[w].ok = req[w].ok
    BY <2>1, <2>2
  <2>4. \A k \in Key : pending'[k] = IF Answers(h, k) THEN None ELSE pending[k]
    BY <1>1, <2>1
  <2>5. channels' = IF h.type = "JOIN" THEN channels \cup {h.about} ELSE channels
    BY <1>1
  <2> QED BY <1>1, <2>3, <2>4, <2>5 DEF LineEffect
<1>2. CASE \E c \in Channel : h = Line("JOIN", c) /\ HandleJoin(c)
  <2>1. PICK c \in Channel : h = Line("JOIN", c) /\ HandleJoin(c)
    BY <1>2
  <2>2. h.type = "JOIN" /\ h.about = c /\ \A k \in Key : ~Answers(h, k)
    BY <2>1, LineKinds, AnswerKeys
  <2>3. UNCHANGED pending /\ UNCHANGED req /\ channels' = channels \cup {c}
    BY <2>1 DEF HandleJoin
  <2>4. \A w \in Waiter : ~Gets(w)
    BY <1>0, <2>2 DEF Gets, ReqTypes
  <2> HIDE DEF h
  <2> QED BY <2>2, <2>3, <2>4 DEF LineEffect, SameAsk, h
<1>3. CASE \E c \in Channel : h = Line("353", c) /\ HandleNames(c)
  <2>1. PICK c \in Channel : h = Line("353", c) /\ HandleNames(c)
    BY <1>3
  <2>2. h.type = "353" /\ h.about = c /\ \A k \in Key : ~Answers(h, k)
    BY <2>1, LineKinds, AnswerKeys
  <2>3. /\ UNCHANGED pending /\ UNCHANGED channels
        /\ \A w \in Waiter :
              /\ SameAsk(w) /\ req'[w].state = req[w].state /\ req'[w].ok = req[w].ok
              /\ req'[w].lines = IF pending[<<"names", c>>] = w THEN req[w].lines + 1 ELSE req[w].lines
    BY <1>0, <2>1, Counting
  <2>4. \A w \in Waiter : ~Gets(w)
    BY <1>0, <2>2 DEF Gets, ReqTypes
  <2> QED BY <2>2, <2>3, <2>4 DEF LineEffect
<1>4. CASE \E c \in Channel : h = Line("366", c) /\ HandleEndOfNames(c)
  <2>1. PICK c \in Channel : h = Line("366", c) /\ HandleEndOfNames(c)
    BY <1>4
  <2>2. h.type = "366" /\ \A k \in Key : Answers(h, k) <=> k \in {<<"names", c>>, <<"join", c>>}
    BY <2>1, LineKinds, AnswerKeys
  <2>3. Resolve({<<"names", c>>, <<"join", c>>}, TRUE) /\ UNCHANGED channels
    BY <2>1 DEF HandleEndOfNames
  <2>4. {<<"names", c>>, <<"join", c>>} \in SUBSET Key
    BY Keys
  <2> QED BY <1>1, <2>2, <2>3, <2>4
<1>5. CASE \E c \in Channel : h = Line("473", c) /\ HandleDenied(c)
  <2>1. PICK c \in Channel : h = Line("473", c) /\ HandleDenied(c)
    BY <1>5
  <2>2. h.type = "473" /\ \A k \in Key : Answers(h, k) <=> k \in {<<"join", c>>}
    BY <2>1, LineKinds, AnswerKeys
  <2>3. Resolve({<<"join", c>>}, FALSE) /\ UNCHANGED channels
    BY <2>1 DEF HandleDenied
  <2>4. {<<"join", c>>} \in SUBSET Key
    BY Keys
  <2> QED BY <1>1, <2>2, <2>3, <2>4
<1>6. CASE \E n \in Nick : h = Line("401", n) /\ HandleNoSuchNick(n)
  <2>1. PICK n \in Nick : h = Line("401", n) /\ HandleNoSuchNick(n)
    BY <1>6
  <2>2. h.type = "401" /\ \A k \in Key : Answers(h, k) <=> k \in {<<"privmsg", n>>}
    BY <2>1, LineKinds, AnswerKeys
  <2>3. Resolve({<<"privmsg", n>>}, FALSE) /\ UNCHANGED channels
    BY <2>1 DEF HandleNoSuchNick
  <2>4. {<<"privmsg", n>>} \in SUBSET Key
    BY Keys
  <2> QED BY <1>1, <2>2, <2>3, <2>4
<1> QED BY <1>2, <1>3, <1>4, <1>5, <1>6, LineCases

----------------------------------------------------------------------------
(* The lines that a request brings, and what the server makes of it. *)

ReplyIs(r, key, truth) ==
  /\ r \in Seq(AnyLine) /\ truth \in {"accepted", "refused"}
  /\ \A i \in 1..Len(r) :
       /\ r[i].type = "JOIN" => key = <<"join", r[i].about>> /\ truth = "accepted"
       /\ r[i].type = "473" => key = <<"join", r[i].about>> /\ truth = "refused"
       /\ r[i].type = "401" => key = <<"privmsg", r[i].about>> /\ truth = "refused"
  /\ key[1] = "names" => /\ Len(r) = NameLines + 1 /\ r[NameLines + 1] = Line("366", key[2])
                         /\ \A i \in 1..NameLines : r[i] = Line("353", key[2])
  /\ key[1] = "join" /\ truth = "accepted" /\ key[2] \notin member =>
       \E i \in 1..Len(r) : r[i] = Line("JOIN", key[2])
  /\ key[1] = "join" /\ truth = "refused" =>
       key[2] \notin member /\ Len(r) = 1 /\ r[1] = Line("473", key[2])
  /\ key[1] = "privmsg" /\ truth = "refused" => Len(r) = 1 /\ r[1] = Line("401", key[2])

LEMMA ReplyFacts ==
  ASSUME NEW key \in Key, NEW truth \in Verdicts(key)
  PROVE  ReplyIs(Reply(key, truth), key, truth)
<1> DEFINE r == Reply(key, truth)
<1>1. r \in Seq(AnyLine)
  BY ReplyLines
<1>2. \A t, x : Line(t, x).type = t /\ Line(t, x).about = x
  BY LineKinds
<1>3. NameLines \in Nat
  BY ConnBoundsAssumption
<1>4. CASE \E c \in Channel : key = <<"names", c>> /\ truth = "accepted" /\ r = NamesReply(c)
  <2>1. PICK c \in Channel : key = <<"names", c>> /\ truth = "accepted" /\ r = NamesReply(c)
    BY <1>4
  <2>2. /\ key[1] = "names" /\ key[2] = c /\ Len(r) = NameLines + 1
        /\ \A i \in 1..NameLines : r[i] = Line("353", c)
        /\ r[NameLines + 1] = Line("366", c)
    BY <2>1, NamesLines
  <2> HIDE DEF r
  <2>3. \A i \in 1..Len(r) : r[i].type = "353" \/ r[i].type = "366"
    <3>1. \A i \in 1..Len(r) : r[i] = Line("353", c) \/ r[i] = Line("366", c)
      BY <1>3, <2>2
    <3> QED BY <1>2, <3>1
  <2>4. ReplyIs(r, key, truth)
    BY <1>1, <2>1, <2>2, <2>3 DEF ReplyIs
  <2> QED BY <2>4 DEF r
<1>5. CASE \E c \in Channel : key = <<"join", c>> /\ truth = "accepted" /\ c \in member /\ r = <<>>
  <2>1. PICK c \in Channel : key = <<"join", c>> /\ truth = "accepted" /\ c \in member /\ r = <<>>
    BY <1>5
  <2>2. key[1] = "join" /\ key[2] = c /\ Len(r) = 0
    BY <2>1
  <2> HIDE DEF r
  <2>3. ReplyIs(r, key, truth)
    BY <1>1, <2>1, <2>2 DEF ReplyIs
  <2> QED BY <2>3 DEF r
<1>6. CASE \E c \in Channel : key = <<"join", c>> /\ truth = "accepted" /\ c \notin member
                              /\ r = <<Line("JOIN", c)>> \o NamesReply(c)
  <2>1. PICK c \in Channel : key = <<"join", c>> /\ truth = "accepted" /\ c \notin member
                              /\ r = <<Line("JOIN", c)>> \o NamesReply(c)
    BY <1>6
  <2> DEFINE a == <<Line("JOIN", c)>>
             b == NamesReply(c)
  <2>2. /\ b \in Seq(AnyLine) /\ Len(b) = NameLines + 1
        /\ \A i \in 1..NameLines : b[i] = Line("353", c)
        /\ b[NameLines + 1] = Line("366", c)
    BY NamesLines
  <2>3. a \in Seq(AnyLine) /\ Len(a) = 1 /\ a[1] = Line("JOIN", c)
    BY LineKinds
  <2> HIDE DEF a, b
  <2>4. /\ Len(a \o b) = Len(a) + Len(b)
        /\ \A i \in 1..(Len(a) + Len(b)) : (a \o b)[i] = IF i <= Len(a) THEN a[i] ELSE b[i - Len(a)]
    BY <2>2, <2>3, ConcatProperties
  <2>5. r = a \o b
    BY <2>1 DEF a, b
  <2> HIDE DEF r
  <2>6. /\ Len(r) = NameLines + 2 /\ r[1] = Line("JOIN", c) /\ r[NameLines + 2] = Line("366", c)
        /\ \A i \in 2..(NameLines + 1) : r[i] = Line("353", c)
    BY <1>3, <2>2, <2>3, <2>4, <2>5
  <2>7. \A i \in 1..Len(r) : r[i] = Line("JOIN", c) \/ r[i] = Line("353", c) \/ r[i] = Line("366", c)
    BY <1>3, <2>6
  <2>8. \A i \in 1..Len(r) : /\ r[i].type = "JOIN" \/ r[i].type = "353" \/ r[i].type = "366"
                             /\ r[i].about = c
    BY <1>2, <2>7
  <2>9. key[1] = "join" /\ key[2] = c /\ key = <<"join", c>> /\ 1 \in 1..Len(r)
    BY <1>3, <2>1, <2>6
  <2>10. \E i \in 1..Len(r) : r[i] = Line("JOIN", key[2])
    BY <2>6, <2>9
  <2>11. ReplyIs(r, key, truth)
    BY <1>1, <2>1, <2>8, <2>9, <2>10 DEF ReplyIs
  <2> QED BY <2>11 DEF r
<1>7. CASE \E c \in Channel : key = <<"join", c>> /\ truth = "refused" /\ c \notin member
                              /\ r = <<Line("473", c)>>
  <2>1. PICK c \in Channel : key = <<"join", c>> /\ truth = "refused" /\ c \notin member
                              /\ r = <<Line("473", c)>>
    BY <1>7
  <2>2. key[1] = "join" /\ key[2] = c /\ Len(r) = 1 /\ r[1] = Line("473", c)
    BY <2>1
  <2> HIDE DEF r
  <2>3. \A i \in 1..Len(r) : r[i].type = "473" /\ r[i].about = c
    BY <1>2, <2>2
  <2>4. ReplyIs(r, key, truth)
    BY <1>1, <2>1, <2>2, <2>3 DEF ReplyIs
  <2> QED BY <2>4 DEF r
<1>8. CASE \E n \in Nick : key = <<"privmsg", n>> /\ truth = "refused" /\ r = <<Line("401", n)>>
  <2>1. PICK n \in Nick : key = <<"privmsg", n>> /\ truth = "refused" /\ r = <<Line("401", n)>>
    BY <1>8
  <2>2. key[1] = "privmsg" /\ key[2] = n /\ Len(r) = 1 /\ r[1] = Line("401", n)
    BY <2>1
  <2> HIDE DEF r
  <2>3. \A i \in 1..Len(r) : r[i].type = "401" /\ r[i].about = n
    BY <1>2, <2>2
  <2>4. ReplyIs(r, key, truth)
    BY <1>1, <2>1, <2>2, <2>3 DEF ReplyIs
  <2> QED BY <2>4 DEF r
<1>9. CASE \E n \in Nick : key = <<"privmsg", n>> /\ truth = "accepted" /\ r = <<>>
  <2>1. PICK n \in Nick : key = <<"privmsg", n>> /\ truth = "accepted" /\ r = <<>>
    BY <1>9
  <2>2. key[1] = "privmsg" /\ key[2] = n /\ Len(r) = 0
    BY <2>1
  <2> HIDE DEF r
  <2>3. ReplyIs(r, key, truth)
    BY <1>1, <2>1, <2>2 DEF ReplyIs
  <2> QED BY <2>3 DEF r
<1> QED BY <1>4, <1>5, <1>6, <1>7, <1>8, <1>9, ReplyCases

LEMMA Taken ==
  ASSUME NEW w \in Waiter, NEW key \in Key, Served(w, key)
  PROVE  \/ /\ ~link.up /\ req'[w].truth = "lost"
            /\ UNCHANGED inbound /\ UNCHANGED member /\ UNCHANGED refused
         \/ /\ link.up
            /\ \E r : ReplyIs(r, key, req'[w].truth) /\ inbound' = inbound \o r
            /\ \/ key[1] # "join" /\ UNCHANGED member /\ UNCHANGED refused
               \/ /\ key[1] = "join" /\ req'[w].truth = "accepted"
                  /\ member' = member \cup {key[2]} /\ refused' = refused \ {key[2]}
               \/ /\ key[1] = "join" /\ req'[w].truth = "refused" /\ key[2] \notin member
                  /\ UNCHANGED member /\ refused' = refused \cup {key[2]}
<1> DEFINE truth == req'[w].truth
           r == Reply(key, truth)
<1>1. CASE ~link.up
  BY <1>1 DEF Served
<1>2. CASE link.up
  <2>1. truth \in Verdicts(key) /\ ServerTakes(key, truth)
    BY <1>2 DEF Served
  <2> HIDE DEF truth
  <2>2. ReplyIs(r, key, truth) /\ inbound' = inbound \o r
    BY <2>1, ReplyFacts DEF ServerTakes
  <2> HIDE DEF r
  <2>3. truth \in {"accepted", "refused"} /\ (key[1] = "join" /\ truth = "refused" => key[2] \notin member)
    BY <2>2 DEF ReplyIs
  <2>4. \/ key[1] # "join" /\ UNCHANGED member /\ UNCHANGED refused
        \/ /\ key[1] = "join" /\ truth = "accepted"
           /\ member' = member \cup {key[2]} /\ refused' = refused \ {key[2]}
        \/ /\ key[1] = "join" /\ truth = "refused" /\ key[2] \notin member
           /\ UNCHANGED member /\ refused' = refused \cup {key[2]}
    BY <2>1, <2>3 DEF ServerTakes
  <2> QED BY <1>2, <2>2, <2>4 DEF truth
<1> QED BY <1>1, <1>2

----------------------------------------------------------------------------
(* Every step, by what it does to the connection. *)

(* Nothing, or the link ends. *)
Quiet ==
  /\ UNCHANGED <<pending, req, channels, member, refused, crossed>>
  /\ \/ UNCHANGED inbound /\ (link'.up => link.up)
     \/ ~link'.up /\ inbound' = <<>>

AsksOf(w, key) ==
  /\ req[w].state = "none" /\ UNCHANGED <<link, channels, crossed>>
  /\ req'[w].key = key /\ ~req'[w].ok /\ req'[w].lines = 0 /\ req'[w].here
  /\ req'[w].fresh = Fresh(key[2])
  /\ req'[w].state = "waiting" \/ (req'[w].state = "answered" /\ ~link.up)
  /\ \A v \in Waiter : v # w => req'[v] = req[v]
  /\ \A k \in Key : pending'[k] = IF k # key THEN pending[k]
                                  ELSE IF req'[w].state = "waiting" THEN w ELSE None
  /\ Served(w, key)

(* A request stops waiting, or is taken back; or its direct message is, with
   another that is filed in its place. *)
LeavesOf(w) ==
  /\ UNCHANGED <<link, inbound, channels, member, refused, crossed>>
  /\ WaitEnds(w) \/ WindowEnds(w) \/ (Clears(w) /\ req[w].state # "waiting" /\ UNCHANGED pending)

LEMMA Effects ==
  ASSUME Types, [Next]_vars
  PROVE  \/ Quiet \/ HandleLine \/ DialSucceeds
         \/ \E w \in Waiter : (\E key \in Key : AsksOf(w, key)) \/ LeavesOf(w)
         \/ \E c \in Channel : SendPart(c)
<1> USE DEF Quiet
<1>1. CASE UNCHANGED connVars
  BY <1>1 DEF connVars
<1>2. \A w \in Waiter, key \in Key : req[w].state = "none" /\ Ask(w, key) => AsksOf(w, key)
  BY Asking DEF Types, AsksOf
<1>3. CASE SupStep
  <2>1. ASSUME SupLoads \/ SupDialFails \/ SupRuns \/ SupNotices
        PROVE  UNCHANGED connVars
    BY <2>1 DEF SupLoads, Loads, SupDialFails, SupRuns, SupNotices
  <2>2. CASE SupDials
    BY <2>2 DEF SupDials
  <2>3. CASE SupHooks
    <3>1. link'.up = link.up
      BY <2>3 DEF SupHooks, Types, LinkTypes, LinkRecord
    <3> QED BY <2>3, <3>1 DEF SupHooks
  <2>4. CASE SupHearsNothing
    <3>1. ~link'.up
      BY <2>4 DEF SupHearsNothing, CloseLink, Types, LinkTypes, LinkRecord
    <3> QED BY <2>4, <3>1 DEF SupHearsNothing, CloseLink
  <2>5. CASE SupHasJoined
    BY <2>5, Outsiders DEF SupHasJoined, LeavesOf, Clears
  <2>6. CASE \E c \in Channel : SupRejoins(c)
    <3>1. PICK c \in Channel : SupRejoins(c)
      BY <2>6
    <3>2. <<"join", c>> \in Key /\ req[Sup].state = "none" /\ Ask(Sup, <<"join", c>>)
      BY <3>1, Keys DEF SupRejoins
    <3> QED BY <1>2, <3>2, Outsiders
  <2> QED BY <1>1, <1>3, <2>1, <2>2, <2>3, <2>4, <2>5, <2>6 DEF SupStep
<1>4. ASSUME NEW c \in Cmd, CmdStep(c)
      PROVE  \/ UNCHANGED connVars
             \/ \E w \in Waiter : (\E key \in Key : AsksOf(w, key)) \/ LeavesOf(w)
             \/ \E x \in Channel : SendPart(x)
  <2>1. ASSUME \/ \E channel \in Channel : Join(c, channel) \/ Part(c, channel) \/ Members(c, channel)
               \/ \E nick \in Nick : DM(c, nick)
        PROVE  UNCHANGED connVars
    BY <2>1 DEF Join, Part, Members, DM, Begins
  <2>2. ASSUME HandlerHasNoConnection(c) \/ CallFails(c) \/ GivesUp(c) \/ Saves(c) \/ Killed(c)
        PROVE  UNCHANGED connVars
    BY <2>2 DEF HandlerHasNoConnection, CallFails, GivesUp, Saves, Killed
  <2>3. CASE HandlerAsks(c)
    <3> DEFINE key == <<cmd[c].op, cmd[c].target>>
    <3>1. cmd[c].pc = "call" /\ cmd[c].op # "part" /\ Ask(c, key)
      BY <2>3 DEF HandlerAsks
    <3>2. key \in Key /\ req[c].state = "none"
      BY <3>1, OpKey DEF Types, Orders, Ordered
    <3> HIDE DEF key
    <3> QED BY <1>2, <3>1, <3>2, Outsiders
  <2>4. CASE HandlerParts(c)
    <3>1. SendPart(cmd[c].target) /\ cmd[c].op = "part"
      BY <2>4 DEF HandlerParts
    <3>2. cmd[c].target \in Channel
      BY <3>1 DEF Types, Orders, Ordered
    <3> QED BY <3>1, <3>2
  <2>5. CASE HandlerReplies(c)
    BY <2>5, Outsiders DEF HandlerReplies, LeavesOf, Clears
  <2> QED BY <1>4, <2>1, <2>2, <2>3, <2>4, <2>5 DEF CmdStep
<1>5. CASE ConnectionSteps
  <2>1. CASE ReadLoopEnds
    <3>1. link'.up = link.up
      BY <2>1 DEF ReadLoopEnds, Types, LinkTypes, LinkRecord
    <3> QED BY <2>1, <3>1 DEF ReadLoopEnds
  <2>2. CASE Drops
    <3>1. ~link'.up
      BY <2>2 DEF Drops, Types, LinkTypes, LinkRecord
    <3> QED BY <2>2, <3>1 DEF Drops
  <2>3. CASE \E w \in Waiter : WaitEnds(w) \/ WindowEnds(w)
    BY <2>3 DEF WaitEnds, WindowEnds, LeavesOf
  <2> QED BY <1>5, <2>1, <2>2, <2>3 DEF ConnectionSteps
<1>6. CASE UNCHANGED vars
  BY <1>1, <1>6 DEF vars
<1> QED BY <1>1, <1>3, <1>4, <1>5, <1>6, NextCases

----------------------------------------------------------------------------
(* What is under way for a request that waits. *)

(* A refusal of t comes before any end of its member list. *)
RefusedFirst(s, t) ==
  \A i \in 1..Len(s) : s[i] = Line("366", t) =>
    \E j \in 1..Len(s) : j < i /\ s[j] = Line("473", t)

(* The first lines about the members of t are the rest of one whole list, of
   which some lines have come. *)
RestOfList(s, t, come) ==
  \E j \in 1..Len(s), n \in Nat :
    /\ n < j /\ n + come = NameLines /\ s[j] = Line("366", t)
    /\ \A i \in 1..(j - n - 1) : s[i] # Line("353", t) /\ s[i] # Line("366", t)
    /\ \A i \in (j - n)..(j - 1) : s[i] = Line("353", t)

LEMMA RefusedFirstAfterTail ==
  ASSUME NEW s \in Seq(AnyLine), s # <<>>, NEW t, RefusedFirst(s, t), Head(s) # Line("473", t)
  PROVE  RefusedFirst(Tail(s), t)
<1>1. /\ Len(s) \in Nat /\ Len(s) >= 1 /\ Head(s) = s[1] /\ Len(Tail(s)) = Len(s) - 1
      /\ \A i \in 1..(Len(s) - 1) : Tail(s)[i] = s[i + 1]
  BY TailLines
<1> SUFFICES ASSUME NEW i \in 1..Len(Tail(s)), Tail(s)[i] = Line("366", t)
             PROVE  \E j \in 1..Len(Tail(s)) : j < i /\ Tail(s)[j] = Line("473", t)
  BY DEF RefusedFirst
<1>2. i + 1 \in 1..Len(s) /\ s[i + 1] = Line("366", t)
  BY <1>1
<1>3. PICK j \in 1..Len(s) : j < i + 1 /\ s[j] = Line("473", t)
  BY <1>2 DEF RefusedFirst
<1>4. j # 1
  BY <1>1, <1>3
<1>5. j - 1 \in 1..Len(Tail(s)) /\ j - 1 < i /\ Tail(s)[j - 1] = s[j]
  BY <1>1, <1>3, <1>4
<1> QED BY <1>3, <1>5

LEMMA RefusedFirstWithMore ==
  ASSUME LineTypes, NEW r \in Seq(AnyLine), inbound' = inbound \o r,
         NEW t, RefusedFirst(inbound, t), Line("473", t) \in UnderWay
  PROVE  RefusedFirst(inbound', t)
<1>1. /\ Len(inbound) \in Nat /\ Len(r) \in Nat /\ Len(inbound') = Len(inbound) + Len(r)
      /\ \A i \in 1..Len(inbound) : inbound'[i] = inbound[i]
  BY LinesAdded
<1>2. PICK k \in 1..Len(inbound) : inbound[k] = Line("473", t)
  BY DEF UnderWay
<1> SUFFICES ASSUME NEW i \in 1..Len(inbound'), inbound'[i] = Line("366", t)
             PROVE  \E j \in 1..Len(inbound') : j < i /\ inbound'[j] = Line("473", t)
  BY DEF RefusedFirst
<1>3. CASE i <= Len(inbound)
  <2>1. i \in 1..Len(inbound) /\ inbound[i] = Line("366", t)
    BY <1>1, <1>3
  <2>2. PICK j \in 1..Len(inbound) : j < i /\ inbound[j] = Line("473", t)
    BY <2>1 DEF RefusedFirst
  <2> QED BY <1>1, <2>2
<1>4. CASE i > Len(inbound)
  <2>1. k \in 1..Len(inbound') /\ k < i /\ inbound'[k] = Line("473", t)
    BY <1>1, <1>2, <1>4
  <2> QED BY <2>1
<1> QED BY <1>1, <1>3, <1>4

LEMMA RestAfterTail ==
  ASSUME NEW s \in Seq(AnyLine), s # <<>>, NEW t, NEW come \in Nat, RestOfList(s, t, come)
  PROVE  /\ Head(s) = Line("366", t) => come = NameLines
         /\ Head(s) = Line("353", t) => RestOfList(Tail(s), t, come + 1)
         /\ Head(s) # Line("353", t) /\ Head(s) # Line("366", t) => RestOfList(Tail(s), t, come)
<1>1. /\ Len(s) \in Nat /\ Len(s) >= 1 /\ Head(s) = s[1] /\ Len(Tail(s)) = Len(s) - 1
      /\ \A i \in 1..(Len(s) - 1) : Tail(s)[i] = s[i + 1]
  BY TailLines
<1>2. Line("353", t) # Line("366", t)
  BY LineKinds
<1>3. NameLines \in Nat
  BY ConnBoundsAssumption
<1>4. PICK j \in 1..Len(s), n \in Nat :
        /\ n < j /\ n + come = NameLines /\ s[j] = Line("366", t)
        /\ \A i \in 1..(j - n - 1) : s[i] # Line("353", t) /\ s[i] # Line("366", t)
        /\ \A i \in (j - n)..(j - 1) : s[i] = Line("353", t)
  BY DEF RestOfList
<1>5. ASSUME Head(s) = Line("366", t)
      PROVE  come = NameLines
  <2>1. ~(1 \in 1..(j - n - 1)) /\ ~(1 \in (j - n)..(j - 1))
    BY <1>1, <1>2, <1>4, <1>5
  <2> QED BY <1>3, <1>4, <2>1
<1>6. ASSUME Head(s) = Line("353", t)
      PROVE  RestOfList(Tail(s), t, come + 1)
  <2>1. ~(1 \in 1..(j - n - 1)) /\ j # 1
    BY <1>1, <1>2, <1>4, <1>6
  <2>2. j - n = 1 /\ n >= 1
    BY <1>4, <2>1
  <2> DEFINE m == n - 1
             k == j - 1
  <2>3. k \in 1..Len(Tail(s)) /\ m \in Nat /\ m < k /\ m + (come + 1) = NameLines /\ k - m = 1
    BY <1>1, <1>3, <1>4, <2>2
  <2>4. Tail(s)[k] = Line("366", t)
    BY <1>1, <1>4, <2>3
  <2>5. \A i \in (k - m)..(k - 1) : Tail(s)[i] = Line("353", t)
    <3> TAKE i \in (k - m)..(k - 1)
    <3>1. i + 1 \in (j - n)..(j - 1) /\ i \in 1..(Len(s) - 1)
      BY <1>1, <1>4, <2>2, <2>3
    <3> QED BY <1>1, <1>4, <3>1
  <2>6. \A i \in 1..(k - m - 1) : Tail(s)[i] # Line("353", t) /\ Tail(s)[i] # Line("366", t)
    BY <2>3
  <2> HIDE DEF m, k
  <2> QED BY <2>3, <2>4, <2>5, <2>6 DEF RestOfList
<1>7. ASSUME Head(s) # Line("353", t), Head(s) # Line("366", t)
      PROVE  RestOfList(Tail(s), t, come)
  <2>1. ~(1 \in (j - n)..(j - 1)) /\ j # 1
    BY <1>1, <1>4, <1>7
  <2>2. j - n >= 2
    BY <1>4, <2>1
  <2> DEFINE k == j - 1
  <2>3. k \in 1..Len(Tail(s)) /\ n < k
    BY <1>1, <1>4, <2>2
  <2>4. Tail(s)[k] = Line("366", t)
    BY <1>1, <1>4, <2>3
  <2>5. \A i \in (k - n)..(k - 1) : Tail(s)[i] = Line("353", t)
    <3> TAKE i \in (k - n)..(k - 1)
    <3>1. i + 1 \in (j - n)..(j - 1) /\ i \in 1..(Len(s) - 1)
      BY <1>1, <1>4, <2>2, <2>3
    <3> QED BY <1>1, <1>4, <3>1
  <2>6. \A i \in 1..(k - n - 1) : Tail(s)[i] # Line("353", t) /\ Tail(s)[i] # Line("366", t)
    <3> TAKE i \in 1..(k - n - 1)
    <3>1. i + 1 \in 1..(j - n - 1) /\ i \in 1..(Len(s) - 1)
      BY <1>1, <1>4, <2>2, <2>3
    <3> QED BY <1>1, <1>4, <3>1
  <2> HIDE DEF k
  <2> QED BY <1>4, <2>3, <2>4, <2>5, <2>6 DEF RestOfList
<1> QED BY <1>5, <1>6, <1>7

LEMMA RestWithMore ==
  ASSUME LineTypes, NEW r \in Seq(AnyLine), inbound' = inbound \o r,
         NEW t, NEW come \in Nat, RestOfList(inbound, t, come)
  PROVE  RestOfList(inbound', t, come)
<1>1. /\ Len(inbound) \in Nat /\ Len(r) \in Nat /\ Len(inbound') = Len(inbound) + Len(r)
      /\ \A i \in 1..Len(inbound) : inbound'[i] = inbound[i]
  BY LinesAdded
<1>2. PICK j \in 1..Len(inbound), n \in Nat :
        /\ n < j /\ n + come = NameLines /\ inbound[j] = Line("366", t)
        /\ \A i \in 1..(j - n - 1) : inbound[i] # Line("353", t) /\ inbound[i] # Line("366", t)
        /\ \A i \in (j - n)..(j - 1) : inbound[i] = Line("353", t)
  BY DEF RestOfList
<1>3. j \in 1..Len(inbound') /\ inbound'[j] = Line("366", t)
  BY <1>1, <1>2
<1>4. \A i \in 1..(j - n - 1) : inbound'[i] # Line("353", t) /\ inbound'[i] # Line("366", t)
  <2> TAKE i \in 1..(j - n - 1)
  <2>1. i \in 1..Len(inbound)
    BY <1>1, <1>2
  <2> QED BY <1>1, <1>2, <2>1
<1>5. \A i \in (j - n)..(j - 1) : inbound'[i] = Line("353", t)
  <2> TAKE i \in (j - n)..(j - 1)
  <2>1. i \in 1..Len(inbound)
    BY <1>1, <1>2
  <2> QED BY <1>1, <1>2, <2>1
<1> QED BY <1>2, <1>3, <1>4, <1>5 DEF RestOfList

(* A list that is asked for, with nothing about it under way. *)
LEMMA WholeListComes ==
  ASSUME LineTypes, NEW r \in Seq(AnyLine), inbound' = inbound \o r, NEW t, Fresh(t),
         Len(r) = NameLines + 1, r[NameLines + 1] = Line("366", t),
         \A i \in 1..NameLines : r[i] = Line("353", t)
  PROVE  RestOfList(inbound', t, 0)
<1>1. /\ Len(inbound) \in Nat /\ Len(inbound') = Len(inbound) + Len(r)
      /\ \A i \in 1..Len(inbound) : inbound'[i] = inbound[i]
      /\ \A i \in 1..Len(r) : inbound'[Len(inbound) + i] = r[i]
  BY LinesAdded
<1>2. NameLines \in Nat
  BY ConnBoundsAssumption
<1> DEFINE n == NameLines
           j == Len(inbound) + NameLines + 1
<1>3. /\ j \in 1..Len(inbound') /\ n \in Nat /\ n < j /\ n + 0 = NameLines
      /\ j - n - 1 = Len(inbound)
  <2> DEFINE l == Len(inbound)
             m == Len(inbound')
  <2>1. l \in Nat /\ m = l + (NameLines + 1) /\ n \in Nat /\ n = NameLines /\ j = l + NameLines + 1
    BY <1>1, <1>2
  <2> HIDE DEF l, m, n, j
  <2>2. j \in 1..m /\ n < j /\ n + 0 = NameLines /\ j - n - 1 = l
    BY <2>1
  <2> QED BY <2>1, <2>2 DEF l, m
<1>4. inbound'[j] = Line("366", t)
  <2>1. NameLines + 1 \in 1..Len(r) /\ j = Len(inbound) + (NameLines + 1)
    BY <1>1, <1>2
  <2> HIDE DEF j
  <2> QED BY <1>1, <2>1
<1>5. \A i \in 1..(j - n - 1) : inbound'[i] # Line("353", t) /\ inbound'[i] # Line("366", t)
  <2> TAKE i \in 1..(j - n - 1)
  <2>1. i \in 1..Len(inbound) /\ inbound'[i] = inbound[i]
    BY <1>1, <1>3
  <2>2. inbound[i].about # t
    <3>1. DOMAIN inbound = 1..Len(inbound)
      BY DEF LineTypes
    <3> QED BY <2>1, <3>1 DEF Fresh
  <2> QED BY <2>1, <2>2, LineKinds
<1>6. \A i \in (j - n)..(j - 1) : inbound'[i] = Line("353", t)
  <2> TAKE i \in (j - n)..(j - 1)
  <2>1. i - Len(inbound) \in 1..NameLines /\ i - Len(inbound) \in 1..Len(r)
        /\ Len(inbound) + (i - Len(inbound)) = i
    BY <1>1, <1>2
  <2> QED BY <1>1, <2>1
<1> HIDE DEF j, n
<1> QED BY <1>3, <1>4, <1>5, <1>6 DEF RestOfList

LEMMA FreshLines ==
  ASSUME LineTypes, NEW t, Fresh(t), NEW type
  PROVE  Line(type, t) \notin UnderWay
<1>1. DOMAIN inbound = 1..Len(inbound)
  BY DEF LineTypes
<1>2. \A i \in 1..Len(inbound) : inbound[i].about # t
  BY <1>1 DEF Fresh
<1> QED BY <1>2, LineKinds DEF UnderWay

----------------------------------------------------------------------------
(* A request that waits where it is filed will get its own answer, if any. *)

JoinComing(w) ==
  Kind(w) = "join" /\ req[w].fresh =>
    /\ req[w].truth = "lost" => ~link.up /\ Line("366", Target(w)) \notin UnderWay
    /\ req[w].truth = "accepted" => Line("473", Target(w)) \notin UnderWay
    /\ req[w].truth = "refused" => /\ link.up => Line("473", Target(w)) \in UnderWay
                                   /\ RefusedFirst(inbound, Target(w))

NamesComing(w) ==
  Kind(w) = "names" /\ req[w].fresh =>
    /\ link.up => Line("366", Target(w)) \in UnderWay
    /\ Line("366", Target(w)) \in UnderWay => RestOfList(inbound, Target(w), req[w].lines)

DMComing(w) ==
  Kind(w) = "privmsg" =>
    /\ req[w].truth = "refused" /\ link.up => Line("401", Target(w)) \in UnderWay
    /\ req[w].fresh /\ req[w].truth # "refused" => Line("401", Target(w)) \notin UnderWay

Coming(w) ==
  Waits(w) => req[w].truth # "none" /\ JoinComing(w) /\ NamesComing(w) /\ DMComing(w)

Settled(w) ==
  /\ Answered(w, "join") /\ req[w].fresh => (req[w].ok <=> req[w].truth = "accepted")
  /\ Answered(w, "names") /\ req[w].ok /\ req[w].fresh => req[w].lines = NameLines

Answering == \A w \in Waiter : Coming(w) /\ Settled(w)

(* The steps, one by one, for one request. *)
LEMMA ComingStays ==
  ASSUME NEW w \in Waiter, Coming(w), UNCHANGED inbound, link'.up => link.up,
         Waits(w)' => Waits(w) /\ req'[w] = req[w]
  PROVE  Coming(w)'
<1> SUFFICES ASSUME Waits(w)'
             PROVE  (req[w].truth # "none" /\ JoinComing(w) /\ NamesComing(w) /\ DMComing(w))'
  BY DEF Coming
<1>1. /\ UnderWay' = UnderWay /\ inbound' = inbound /\ req'[w] = req[w]
      /\ Kind(w)' = Kind(w) /\ Target(w)' = Target(w)
  BY DEF UnderWay, Kind, Target
<1>2. req[w].truth # "none" /\ JoinComing(w) /\ NamesComing(w) /\ DMComing(w)
  BY DEF Coming
<1>3. JoinComing(w)'
  BY <1>1, <1>2 DEF JoinComing
<1>4. NamesComing(w)'
  BY <1>1, <1>2 DEF NamesComing
<1>5. DMComing(w)'
  BY <1>1, <1>2 DEF DMComing
<1> QED BY <1>1, <1>2, <1>3, <1>4, <1>5

LEMMA ComingLost ==
  ASSUME NEW w \in Waiter, Coming(w), ~link'.up, inbound' = <<>>,
         Waits(w)' => Waits(w) /\ req'[w] = req[w]
  PROVE  Coming(w)'
<1> SUFFICES ASSUME Waits(w)'
             PROVE  (req[w].truth # "none" /\ JoinComing(w) /\ NamesComing(w) /\ DMComing(w))'
  BY DEF Coming
<1>1. \A l : l \notin UnderWay'
  BY DEF UnderWay
<1>2. \A t : RefusedFirst(inbound', t)
  BY DEF RefusedFirst
<1>3. req[w].truth # "none" /\ req'[w] = req[w]
  BY DEF Coming
<1>4. JoinComing(w)'
  BY <1>1, <1>2 DEF JoinComing
<1>5. NamesComing(w)'
  BY <1>1 DEF NamesComing
<1>6. DMComing(w)'
  BY <1>1 DEF DMComing
<1> QED BY <1>3, <1>4, <1>5, <1>6

LEMMA SettledStays ==
  ASSUME NEW w \in Waiter, Settled(w),
         Answered(w, "join")' \/ Answered(w, "names")' =>
           /\ req'[w].state = req[w].state /\ req'[w].key = req[w].key /\ req'[w].ok = req[w].ok
           /\ req'[w].truth = req[w].truth /\ req'[w].fresh = req[w].fresh
           /\ req'[w].lines = req[w].lines
  PROVE  Settled(w)'
BY DEF Settled, Answered

(* A line is handled. *)
LEMMA ComingHandles ==
  ASSUME Types, HandleLine, LineEffect, NEW w \in Waiter, Coming(w)
  PROVE  Coming(w)'
<1> DEFINE h == Head(inbound)
           t == Target(w)
<1> SUFFICES ASSUME Waits(w)'
             PROVE  (req[w].truth # "none" /\ JoinComing(w) /\ NamesComing(w) /\ DMComing(w))'
  BY DEF Coming
<1>0. /\ link' = link /\ inbound # <<>> /\ inbound' = Tail(inbound) /\ inbound \in Seq(AnyLine)
      /\ LineTypes
  BY LineCases DEF Types, LineTypes
<1>1. SameAsk(w) /\ Kind(w)' = Kind(w) /\ Target(w)' = t
  BY DEF LineEffect, SameAsk, Kind, Target
<1>2. ~Gets(w) /\ Waits(w)
  <2>1. ~Gets(w)
    BY DEF LineEffect, Waits
  <2>2. req[w].state = "waiting" /\ req[w].here /\ req'[w].key = req[w].key
    BY <1>1, <2>1 DEF LineEffect, Waits, SameAsk
  <2>3. req[w].key \in Key
    BY <2>2 DEF Types, ReqTypes
  <2>4. pending[req[w].key] = w
    BY <2>2, <2>3, Outsiders DEF LineEffect, Waits
  <2> QED BY <2>1, <2>2, <2>4 DEF Waits
<1>3. req[w].key \in Key /\ ~Answers(h, req[w].key)
  BY <1>2 DEF Waits, Gets, Types, ReqTypes
<1>4. /\ UnderWay' \subseteq UnderWay /\ UnderWay \subseteq UnderWay' \cup {h}
  BY <1>0, LinesHandled
<1>5. req[w].truth # "none" /\ JoinComing(w) /\ NamesComing(w) /\ DMComing(w)
  BY <1>2 DEF Coming
<1>6. /\ Kind(w) = "join" => h # Line("366", t) /\ h # Line("473", t)
      /\ Kind(w) = "names" => h # Line("366", t)
      /\ Kind(w) = "privmsg" => h # Line("401", t)
  BY <1>3 DEF Answers, Kind, Target
<1>7. req'[w].truth = req[w].truth /\ req'[w].fresh = req[w].fresh
  BY <1>1 DEF SameAsk
<1> HIDE DEF h, t
<1>8. JoinComing(w)'
  <2> SUFFICES ASSUME Kind(w) = "join", req[w].fresh
               PROVE  /\ req[w].truth = "lost" => ~link.up /\ Line("366", t) \notin UnderWay'
                      /\ req[w].truth = "accepted" => Line("473", t) \notin UnderWay'
                      /\ req[w].truth = "refused" => /\ link.up => Line("473", t) \in UnderWay'
                                                     /\ RefusedFirst(inbound', t)
    BY <1>0, <1>1, <1>7 DEF JoinComing
  <2>1. /\ req[w].truth = "lost" => ~link.up /\ Line("366", t) \notin UnderWay
        /\ req[w].truth = "accepted" => Line("473", t) \notin UnderWay
        /\ req[w].truth = "refused" => /\ link.up => Line("473", t) \in UnderWay
                                       /\ RefusedFirst(inbound, t)
    BY <1>5 DEF JoinComing, t
  <2>2. req[w].truth = "refused" => RefusedFirst(inbound', t)
    BY <1>0, <1>6, <2>1, RefusedFirstAfterTail DEF h
  <2> QED BY <1>4, <1>6, <2>1, <2>2
<1>9. NamesComing(w)'
  <2> SUFFICES ASSUME Kind(w) = "names", req[w].fresh
               PROVE  /\ link.up => Line("366", t) \in UnderWay'
                      /\ Line("366", t) \in UnderWay' => RestOfList(inbound', t, req'[w].lines)
    BY <1>0, <1>1, <1>7 DEF NamesComing
  <2>1. /\ link.up => Line("366", t) \in UnderWay
        /\ Line("366", t) \in UnderWay => RestOfList(inbound, t, req[w].lines)
    BY <1>5 DEF NamesComing, t
  <2>2. link.up => Line("366", t) \in UnderWay'
    BY <1>4, <1>6, <2>1
  <2>3. ASSUME Line("366", t) \in UnderWay'
        PROVE  RestOfList(inbound', t, req'[w].lines)
    <3>1. RestOfList(inbound, t, req[w].lines) /\ req[w].lines \in Nat
      BY <1>4, <2>1, <2>3, ReqFields DEF Types
    <3>2. req[w].key = <<"names", t>>
      BY <1>3, Keys DEF Kind, Target, t
    <3>3. CASE h = Line("353", t)
      <4>1. h.type = "353" /\ h.about = t
        BY <3>3, LineKinds
      <4>2. pending[<<"names", h.about>>] = w
        BY <1>2, <3>2, <4>1 DEF Waits
      <4>3. req'[w].lines = req[w].lines + 1
        BY <1>2, <4>1, <4>2 DEF LineEffect, h
      <4> QED BY <1>0, <3>1, <3>3, <4>3, RestAfterTail DEF h
    <3>4. CASE h # Line("353", t)
      <4>1. ~(h.type = "353" /\ pending[<<"names", h.about>>] = w)
        <5> SUFFICES ASSUME h.type = "353", pending[<<"names", h.about>>] = w
                     PROVE  FALSE
          OBVIOUS
        <5>1. h \in AnyLine
          BY <1>0, HeadTailProperties DEF h
        <5>2. h = Line("353", h.about) /\ h.about \in Channel
          BY <5>1, LineKinds
        <5>3. <<"names", h.about>> \in Key
          BY <5>2, Keys
        <5>4. req[w].key = <<"names", h.about>>
          BY <5>3 DEF Types, FileTypes, Filing
        <5> QED BY <3>2, <3>4, <5>2, <5>4
      <4>2. req'[w].lines = req[w].lines
        BY <1>2, <4>1 DEF LineEffect, h
      <4> QED BY <1>0, <1>6, <3>1, <3>4, <4>2, RestAfterTail DEF h
    <3> QED BY <3>3, <3>4
  <2> QED BY <2>2, <2>3
<1>10. DMComing(w)'
  BY <1>0, <1>1, <1>4, <1>5, <1>6, <1>7 DEF DMComing, t
<1> QED BY <1>5, <1>7, <1>8, <1>9, <1>10

LEMMA SettledHandles ==
  ASSUME Types, HandleLine, LineEffect, NEW w \in Waiter, Coming(w), Settled(w)
  PROVE  Settled(w)'
<1> DEFINE h == Head(inbound)
           t == Target(w)
<1>1. /\ inbound # <<>> /\ inbound \in Seq(AnyLine) /\ h \in UnderWay
  BY LineCases, LinesHandled DEF Types, LineTypes
<1>2. SameAsk(w)
  BY DEF LineEffect
<1>3. CASE ~Gets(w)
  <2>1. req'[w].state = req[w].state /\ req'[w].ok = req[w].ok
    BY <1>3 DEF LineEffect
  <2>2. ASSUME req[w].state = "answered"
        PROVE  req'[w].lines = req[w].lines
    <3> SUFFICES ASSUME h.type = "353", pending[<<"names", h.about>>] = w
                 PROVE  FALSE
      BY <1>3 DEF LineEffect
    <3>1. h \in AnyLine
      BY <1>1, HeadTailProperties
    <3> HIDE DEF h
    <3>2. <<"names", h.about>> \in Key
      BY <3>1, LineKinds, Keys
    <3> QED BY <2>2, <3>2 DEF Types, FileTypes, Filing
  <2> QED BY <1>2, <2>1, <2>2, SettledStays DEF SameAsk, Answered
<1>4. CASE Gets(w)
  <2>1. /\ req'[w].state = "answered" /\ (req'[w].ok <=> h.type = "366")
        /\ req'[w].lines = req[w].lines /\ req'[w].key = req[w].key
        /\ req'[w].truth = req[w].truth /\ req'[w].fresh = req[w].fresh
    BY <1>2, <1>4 DEF LineEffect, SameAsk
  <2>2. /\ Waits(w) /\ req[w].key \in Key /\ Answers(h, req[w].key) /\ req[w].lines \in Nat
        /\ req[w].truth \in Truth
    BY <1>4, ReqFields DEF Gets, Waits, Types, ReqTypes
  <2>3. req[w].truth # "none" /\ JoinComing(w) /\ NamesComing(w)
    BY <2>2 DEF Coming
  <2> HIDE DEF h
  <2>4. ASSUME req[w].key[1] = "join", req[w].fresh
        PROVE  req'[w].ok <=> req[w].truth = "accepted"
    <3>1. h = Line("366", t) \/ h = Line("473", t)
      BY <2>2, <2>4 DEF Answers, Target
    <3>2. /\ req[w].truth = "lost" => Line("366", t) \notin UnderWay
          /\ req[w].truth = "accepted" => Line("473", t) \notin UnderWay
          /\ req[w].truth = "refused" => RefusedFirst(inbound, t)
      BY <2>3, <2>4 DEF JoinComing, Kind
    <3>3. CASE h = Line("473", t)
      <4>1. h.type # "366"
        BY <3>3, LineKinds
      <4> QED BY <1>1, <2>1, <3>2, <3>3, <4>1 DEF h
    <3>4. CASE h = Line("366", t)
      <4>1. h.type = "366"
        BY <3>4, LineKinds
      <4>2. ~RefusedFirst(inbound, t)
        <5>1. Len(inbound) \in Nat /\ Len(inbound) >= 1 /\ h = inbound[1]
          BY <1>1, TailLines DEF h
        <5> QED BY <3>4, <5>1 DEF RefusedFirst
      <4> QED BY <1>1, <2>1, <2>2, <2>3, <3>2, <3>4, <4>1, <4>2 DEF h, Truth
    <3> QED BY <3>1, <3>3, <3>4
  <2>5. ASSUME req[w].key[1] = "names", req[w].fresh
        PROVE  req'[w].lines = NameLines
    <3>1. h = Line("366", t)
      BY <2>2, <2>5 DEF Answers, Target
    <3>2. RestOfList(inbound, t, req[w].lines)
      BY <1>1, <2>3, <2>5, <3>1 DEF NamesComing, Kind, h
    <3> HIDE DEF t
    <3>3. req[w].lines = NameLines
      BY <1>1, <2>2, <3>1, <3>2, RestAfterTail DEF h
    <3> QED BY <2>1, <3>3
  <2> QED BY <2>1, <2>4, <2>5 DEF Settled, Answered
<1> QED BY <1>3, <1>4

(* A request is sent: what that means for its own answer. *)
LEMMA ComingAsked ==
  ASSUME Types, NEW w \in Waiter, NEW key \in Key, AsksOf(w, key)
  PROVE  Coming(w)'
<1> DEFINE t == key[2]
           truth == req'[w].truth
<1>0. LineTypes /\ link' = link
  BY DEF Types, AsksOf
<1>1. /\ req'[w].key = key /\ req'[w].fresh = Fresh(t) /\ Kind(w)' = key[1] /\ Target(w)' = t
      /\ req'[w].lines = 0
  BY DEF AsksOf, Kind, Target
<1>2. \A type : Fresh(t) => Line(type, t) \notin UnderWay
  BY <1>0, FreshLines
<1>3. CASE ~link.up /\ truth = "lost" /\ UNCHANGED inbound
  <2>1. UnderWay' = UnderWay
    BY <1>3 DEF UnderWay
  <2> HIDE DEF t
  <2>2. JoinComing(w)'
    BY <1>0, <1>1, <1>2, <1>3, <2>1 DEF JoinComing
  <2>3. NamesComing(w)'
    BY <1>0, <1>1, <1>2, <1>3, <2>1 DEF NamesComing
  <2>4. DMComing(w)'
    BY <1>0, <1>1, <1>2, <1>3, <2>1 DEF DMComing
  <2> QED BY <1>3, <2>2, <2>3, <2>4 DEF Coming
<1>4. ASSUME NEW r, link.up, ReplyIs(r, key, truth), inbound' = inbound \o r
      PROVE  Coming(w)'
  <2>1. r \in Seq(AnyLine) /\ truth \in {"accepted", "refused"}
    BY <1>4 DEF ReplyIs
  <2>2. /\ Len(inbound) \in Nat /\ Len(r) \in Nat /\ Len(inbound') = Len(inbound) + Len(r)
        /\ \A i \in 1..Len(inbound) : inbound'[i] = inbound[i]
        /\ \A i \in 1..Len(r) : inbound'[Len(inbound) + i] = r[i]
        /\ UnderWay' = UnderWay \cup {r[i] : i \in 1..Len(r)}
    BY <1>0, <1>4, <2>1, LinesAdded
  <2>3. JoinComing(w)'
    <3> SUFFICES ASSUME key[1] = "join", Fresh(t)
                 PROVE  /\ truth = "accepted" => Line("473", t) \notin UnderWay'
                        /\ truth = "refused" => Line("473", t) \in UnderWay' /\ RefusedFirst(inbound', t)
      BY <1>1, <2>1 DEF JoinComing
    <3>1. ASSUME truth = "accepted"
          PROVE  Line("473", t) \notin UnderWay'
      <4>1. \A i \in 1..Len(r) : r[i] # Line("473", t)
        <5>1. \A i \in 1..Len(r) : r[i].type # "473"
          BY <1>4, <3>1 DEF ReplyIs
        <5> QED BY <5>1, LineKinds
      <4> QED BY <1>2, <2>2, <4>1
    <3>2. ASSUME truth = "refused"
          PROVE  Line("473", t) \in UnderWay' /\ RefusedFirst(inbound', t)
      <4>1. Len(r) = 1 /\ r[1] = Line("473", t)
        BY <1>4, <3>2 DEF ReplyIs
      <4>2. Line("473", t) # Line("366", t)
        BY LineKinds
      <4>3. \A i \in 1..Len(inbound) : inbound'[i] # Line("366", t)
        BY <1>2, <2>2 DEF UnderWay
      <4>4. \A i \in 1..Len(inbound') : inbound'[i] # Line("366", t)
        <5> TAKE i \in 1..Len(inbound')
        <5>1. CASE i \in 1..Len(inbound)
          BY <4>3, <5>1
        <5>2. CASE i = Len(inbound) + 1
          <6>1. inbound'[i] = r[1]
            BY <2>2, <4>1, <5>2
          <6> QED BY <4>1, <4>2, <6>1
        <5> QED BY <2>2, <4>1, <5>1, <5>2
      <4> QED BY <2>2, <4>1, <4>4 DEF RefusedFirst
    <3> QED BY <3>1, <3>2
  <2>4. NamesComing(w)'
    <3> SUFFICES ASSUME key[1] = "names", Fresh(t)
                 PROVE  Line("366", t) \in UnderWay' /\ RestOfList(inbound', t, 0)
      BY <1>1 DEF NamesComing
    <3>1. /\ Len(r) = NameLines + 1 /\ r[NameLines + 1] = Line("366", t)
          /\ \A i \in 1..NameLines : r[i] = Line("353", t)
      BY <1>4 DEF ReplyIs
    <3>2. RestOfList(inbound', t, 0)
      BY <1>0, <1>4, <2>1, <3>1, WholeListComes
    <3>3. Line("366", t) \in UnderWay'
      BY <3>2 DEF RestOfList, UnderWay
    <3> QED BY <3>2, <3>3
  <2>5. DMComing(w)'
    <3> SUFFICES ASSUME key[1] = "privmsg"
                 PROVE  /\ truth = "refused" => Line("401", t) \in UnderWay'
                        /\ Fresh(t) /\ truth # "refused" => Line("401", t) \notin UnderWay'
      BY <1>1 DEF DMComing
    <3>1. ASSUME truth = "refused"
          PROVE  Line("401", t) \in UnderWay'
      <4>1. Len(r) = 1 /\ r[1] = Line("401", t)
        BY <1>4, <3>1 DEF ReplyIs
      <4> QED BY <2>2, <4>1
    <3>2. ASSUME Fresh(t), truth # "refused"
          PROVE  Line("401", t) \notin UnderWay'
      <4>1. \A i \in 1..Len(r) : r[i].type # "401"
        BY <1>4, <3>2 DEF ReplyIs
      <4>2. \A i \in 1..Len(r) : r[i] # Line("401", t)
        BY <4>1, LineKinds
      <4> QED BY <1>2, <2>2, <3>2, <4>2
    <3> QED BY <3>1, <3>2
  <2> HIDE DEF truth
  <2> QED BY <2>1, <2>3, <2>4, <2>5 DEF Coming, truth
<1> QED BY <1>3, <1>4, Taken DEF AsksOf

(* And for the answers of others. *)
LEMMA ComingBesides ==
  ASSUME Types, NEW w \in Waiter, NEW key \in Key, AsksOf(w, key),
         NEW v \in Waiter, v # w, Coming(v)
  PROVE  Coming(v)'
<1> DEFINE t == Target(v)
           truth == req'[w].truth
<1> SUFFICES ASSUME Waits(v)'
             PROVE  Coming(v)'
  BY DEF Coming
<1>0. LineTypes /\ link' = link /\ req'[v] = req[v]
  BY DEF Types, AsksOf
<1>1. req[v].key \in Key
  BY <1>0 DEF Types, ReqTypes, Waits
<1>2. req[v].key # key /\ Waits(v)
  <2>1. \A k \in Key : pending'[k] = IF k # key THEN pending[k]
                                     ELSE IF req'[w].state = "waiting" THEN w ELSE None
    BY DEF AsksOf
  <2>2. req[v].state = "waiting" /\ req[v].here /\ pending'[req[v].key] = v
    BY <1>0 DEF Waits
  <2>3. req[v].key # key
    BY <1>1, <2>1, <2>2, Outsiders
  <2> QED BY <1>1, <2>1, <2>2, <2>3 DEF Waits
<1>3. CASE ~link.up /\ UNCHANGED inbound
  BY <1>0, <1>2, <1>3, ComingStays
<1>4. ASSUME NEW r, link.up, ReplyIs(r, key, truth), inbound' = inbound \o r
      PROVE  Coming(v)'
  <2>1. r \in Seq(AnyLine)
    BY <1>4 DEF ReplyIs
  <2>2. UnderWay' = UnderWay \cup {r[i] : i \in 1..Len(r)}
    BY <1>0, <1>4, <2>1, LinesAdded
  <2>3. req[v].truth # "none" /\ JoinComing(v) /\ NamesComing(v) /\ DMComing(v)
    BY <1>2 DEF Coming
  <2>4. Kind(v)' = Kind(v) /\ Target(v)' = t /\ req[v].key = <<Kind(v), t>>
    BY <1>0, <1>1, Keys DEF Kind, Target
  <2>5. JoinComing(v)'
    <3> SUFFICES ASSUME Kind(v) = "join", req[v].fresh
                 PROVE  /\ req[v].truth # "lost"
                        /\ req[v].truth = "accepted" => Line("473", t) \notin UnderWay'
                        /\ req[v].truth = "refused" => /\ Line("473", t) \in UnderWay'
                                                       /\ RefusedFirst(inbound', t)
      BY <1>0, <2>4 DEF JoinComing
    <3>1. /\ req[v].truth # "lost"
          /\ req[v].truth = "accepted" => Line("473", t) \notin UnderWay
          /\ req[v].truth = "refused" => /\ Line("473", t) \in UnderWay
                                         /\ RefusedFirst(inbound, t)
      BY <1>4, <2>3 DEF JoinComing
    <3> HIDE DEF t
    <3>2. \A i \in 1..Len(r) : r[i] # Line("473", t)
      <4> SUFFICES ASSUME NEW i \in 1..Len(r), r[i] = Line("473", t)
                   PROVE  FALSE
        OBVIOUS
      <4>1. r[i].type = "473" /\ r[i].about = t
        BY LineKinds
      <4>2. key = <<"join", t>>
        BY <1>4, <4>1 DEF ReplyIs
      <4> QED BY <1>2, <2>4, <4>2
    <3>3. req[v].truth = "refused" => RefusedFirst(inbound', t)
      BY <1>0, <1>4, <2>1, <3>1, RefusedFirstWithMore
    <3> QED BY <2>2, <3>1, <3>2, <3>3
  <2>6. NamesComing(v)'
    <3> SUFFICES ASSUME Kind(v) = "names", req[v].fresh
                 PROVE  Line("366", t) \in UnderWay' /\ RestOfList(inbound', t, req[v].lines)
      BY <1>0, <2>4 DEF NamesComing
    <3>1. Line("366", t) \in UnderWay /\ RestOfList(inbound, t, req[v].lines)
      BY <1>4, <2>3 DEF NamesComing
    <3>2. req[v].lines \in Nat
      BY ReqFields DEF Types
    <3> HIDE DEF t
    <3>3. RestOfList(inbound', t, req[v].lines)
      BY <1>0, <1>4, <2>1, <3>1, <3>2, RestWithMore
    <3> QED BY <2>2, <3>1, <3>3
  <2>7. DMComing(v)'
    <3> SUFFICES ASSUME Kind(v) = "privmsg"
                 PROVE  /\ req[v].truth = "refused" => Line("401", t) \in UnderWay'
                        /\ req[v].fresh /\ req[v].truth # "refused" => Line("401", t) \notin UnderWay'
      BY <1>0, <2>4 DEF DMComing
    <3>1. /\ req[v].truth = "refused" => Line("401", t) \in UnderWay
          /\ req[v].fresh /\ req[v].truth # "refused" => Line("401", t) \notin UnderWay
      BY <1>4, <2>3 DEF DMComing
    <3> HIDE DEF t
    <3>2. \A i \in 1..Len(r) : r[i] # Line("401", t)
      <4> SUFFICES ASSUME NEW i \in 1..Len(r), r[i] = Line("401", t)
                   PROVE  FALSE
        OBVIOUS
      <4>1. r[i].type = "401" /\ r[i].about = t
        BY LineKinds
      <4>2. key = <<"privmsg", t>>
        BY <1>4, <4>1 DEF ReplyIs
      <4> QED BY <1>2, <2>4, <4>2
    <3> QED BY <2>2, <3>1, <3>2
  <2> QED BY <1>0, <2>3, <2>5, <2>6, <2>7 DEF Coming
<1>5. Served(w, key)
  BY DEF AsksOf
<1>6. \/ ~link.up /\ UNCHANGED inbound
      \/ \E r : link.up /\ ReplyIs(r, key, truth) /\ inbound' = inbound \o r
  BY <1>5, Taken
<1> QED BY <1>3, <1>4, <1>6

LEMMA SettledAsked ==
  ASSUME Types, NEW w \in Waiter, NEW key \in Key, AsksOf(w, key),
         \A v \in Waiter : Settled(v)
  PROVE  \A v \in Waiter : Settled(v)'
<1>1. Settled(w)'
  <2>1. ~req'[w].ok /\ (req'[w].state = "answered" => ~link.up)
    BY DEF AsksOf
  <2>2. ~link.up => req'[w].truth = "lost"
    BY Taken DEF AsksOf
  <2> QED BY <2>1, <2>2 DEF Settled, Answered
<1>2. ASSUME NEW v \in Waiter, v # w
      PROVE  Settled(v)'
  <2>1. req'[v] = req[v]
    BY <1>2 DEF AsksOf
  <2> QED BY <2>1, SettledStays
<1> QED BY <1>1, <1>2

(* A request that is left. *)
LEMMA AnsweringLeaves ==
  ASSUME Types, Answering, NEW w \in Waiter, LeavesOf(w)
  PROVE  Answering'
<1>0. link' = link /\ inbound' = inbound /\ ReqTypes /\ FileTypes
  BY DEF LeavesOf, Types
<1> SUFFICES ASSUME NEW v \in Waiter
             PROVE  Coming(v)' /\ Settled(v)'
  BY DEF Answering
<1>1. Coming(v) /\ Settled(v)
  BY DEF Answering
<1>2. CASE WaitEnds(w)
  <2>1. /\ req[w].state = "waiting" /\ req'[w].state = "timeout"
        /\ \A u \in Waiter : u # w => req'[u] = req[u]
        /\ \A k \in Key : pending'[k] = IF pending[k] = w THEN Abandoned ELSE pending[k]
    BY <1>0, <1>2, Waiting
  <2>2. CASE v = w
    BY <2>1, <2>2 DEF Coming, Waits, Settled, Answered
  <2>3. CASE v # w
    <3>1. req'[v] = req[v]
      BY <2>1, <2>3
    <3>2. Waits(v)' => Waits(v)
      <4> SUFFICES ASSUME Waits(v)'
                   PROVE  Waits(v)
        OBVIOUS
      <4>1. req[v].key \in Key
        BY <1>0, <3>1 DEF ReqTypes, Waits
      <4> QED BY <2>1, <3>1, <4>1, Outsiders DEF Waits
    <3> QED BY <1>0, <1>1, <3>1, <3>2, ComingStays, SettledStays
  <2> QED BY <2>2, <2>3
<1>3. CASE WindowEnds(w)
  <2>1. /\ req[w].state = "waiting" /\ req[w].key[1] = "privmsg"
        /\ SameAsk(w) /\ req'[w].state = "answered"
        /\ \A u \in Waiter : u # w =>
             /\ SameAsk(u) /\ req'[u].lines = req[u].lines
             /\ Filed(Others(w), u) => req'[u].state = "answered" /\ req[u].key = req[w].key
             /\ ~Filed(Others(w), u) => req'[u] = req[u]
        /\ \A k \in Key : pending'[k] = IF k \in Others(w) THEN None ELSE pending[k]
    BY <1>0, <1>3, WindowEnding
  <2>2. CASE v = w \/ Filed(Others(w), v)
    <3>1. req'[v].state = "answered" /\ req'[v].key[1] = "privmsg"
      BY <2>1, <2>2 DEF SameAsk
    <3> QED BY <3>1 DEF Coming, Waits, Settled, Answered
  <2>3. CASE v # w /\ ~Filed(Others(w), v)
    <3>1. req'[v] = req[v]
      BY <2>1, <2>3
    <3>2. Waits(v)' => Waits(v)
      <4> SUFFICES ASSUME Waits(v)'
                   PROVE  Waits(v)
        OBVIOUS
      <4>1. req[v].key \in Key
        BY <1>0, <3>1 DEF ReqTypes, Waits
      <4> QED BY <2>1, <3>1, <4>1, Outsiders DEF Waits
    <3> QED BY <1>0, <1>1, <3>1, <3>2, ComingStays, SettledStays
  <2> QED BY <2>2, <2>3
<1>4. CASE Clears(w) /\ req[w].state # "waiting" /\ UNCHANGED pending
  <2>1. req'[w].state = "none" /\ \A u \in Waiter : u # w => req'[u] = req[u]
    BY <1>0, <1>4, Clearing
  <2>2. CASE v = w
    BY <2>1, <2>2 DEF Coming, Waits, Settled, Answered
  <2>3. CASE v # w
    <3>1. req'[v] = req[v] /\ (Waits(v)' => Waits(v))
      BY <1>4, <2>1, <2>3 DEF Waits
    <3> QED BY <1>0, <1>1, <3>1, ComingStays, SettledStays
  <2> QED BY <2>2, <2>3
<1> QED BY <1>2, <1>3, <1>4 DEF LeavesOf

LEMMA AnsweringKept ==
  ASSUME Types, Answering, [Next]_vars
  PROVE  Answering'
<1> USE DEF Answering
<1>1. CASE Quiet
  <2> SUFFICES ASSUME NEW w \in Waiter
               PROVE  Coming(w)' /\ Settled(w)'
    OBVIOUS
  <2>1. req'[w] = req[w] /\ (Waits(w)' => Waits(w))
    BY <1>1 DEF Quiet, Waits
  <2> QED BY <1>1, <2>1, ComingStays, ComingLost, SettledStays DEF Quiet
<1>2. CASE HandleLine
  BY <1>2, HandlingLine, ComingHandles, SettledHandles
<1>3. CASE DialSucceeds
  <2> SUFFICES ASSUME NEW w \in Waiter
               PROVE  Coming(w)' /\ Settled(w)'
    OBVIOUS
  <2>1. /\ req'[w].key = req[w].key /\ req'[w].state = req[w].state
        /\ req'[w].ok = req[w].ok /\ req'[w].lines = req[w].lines
        /\ req'[w].truth = req[w].truth /\ req'[w].fresh = req[w].fresh /\ ~req'[w].here
    BY <1>3, Dialling DEF Types
  <2> QED BY <2>1, SettledStays DEF Coming, Waits
<1>4. ASSUME NEW w \in Waiter, NEW key \in Key, AsksOf(w, key)
      PROVE  Answering'
  BY <1>4, ComingAsked, ComingBesides, SettledAsked
<1>5. ASSUME NEW w \in Waiter, LeavesOf(w)
      PROVE  Answering'
  BY <1>5, AnsweringLeaves
<1>6. ASSUME NEW c \in Channel, SendPart(c)
      PROVE  Answering'
  <2> SUFFICES ASSUME NEW w \in Waiter
               PROVE  Coming(w)' /\ Settled(w)'
    OBVIOUS
  <2>1. UNCHANGED <<link, inbound, pending, req>>
    BY <1>6 DEF SendPart, Parts
  <2>2. req'[w] = req[w] /\ (Waits(w)' => Waits(w))
    BY <2>1 DEF Waits
  <2> QED BY <2>1, <2>2, ComingStays, SettledStays
<1> QED BY <1>1, <1>2, <1>3, <1>4, <1>5, <1>6, Effects

LEMMA AnsweringAtFirst ==
  ASSUME Init
  PROVE  Answering
BY DEF Init, ConnInit, NoRequest, Answering, Coming, Waits, Settled, Answered

LEMMA AnsweringAlways == Spec => []Answering
<1>1. Spec => []Types
  BY Typed, PTL
<1> QED BY <1>1, AnsweringAtFirst, AnsweringKept, PTL DEF Spec

(* A join is reported as done exactly when the server let the client in on
   that request (JoinConfirmed), for any number of requests about the same
   channel at once (Conn.Join, handle). *)
THEOREM JoinsAreConfirmed == Spec => []JoinConfirmed
<1>1. Answering => JoinConfirmed
  BY DEF Answering, Settled, JoinConfirmed
<1> QED BY <1>1, AnsweringAlways, PTL

(* A member list that is returned is one whole list (NamesWhole), for lists
   of any length and any number of requests at once (Conn.Names). *)
THEOREM NamesAreWhole == Spec => []NamesWhole
<1>1. Answering => NamesWhole
  BY DEF Answering, Settled, NamesWhole
<1> QED BY <1>1, AnsweringAlways, PTL

(* What is reported of a direct message after a wait is about that message
   (RejectionMine), for any number of messages and targets
   (Conn.PrivmsgDM). *)
THEOREM RejectionsAreOwn == Spec => RejectionMine
<1> DEFINE Own ==
             \A w \in Waiter :
               req[w].state = "waiting" /\ req[w].key[1] = "privmsg" /\ req'[w].state = "answered" =>
                 IF req'[w].ok
                 THEN \/ req[w].truth # "refused"
                      \/ pending[req[w].key] # w \/ ~link.up
                      \/ \E i \in DOMAIN inbound' : inbound'[i] = Line("401", req[w].key[2])
                 ELSE req[w].fresh => req[w].truth = "refused"
<1>1. ASSUME Types, Answering, [Next]_vars
      PROVE  Own
  <2> SUFFICES ASSUME NEW w \in Waiter,
                      req[w].state = "waiting", req[w].key[1] = "privmsg", req'[w].state = "answered"
               PROVE  IF req'[w].ok
                      THEN \/ req[w].truth # "refused"
                           \/ pending[req[w].key] # w \/ ~link.up
                           \/ \E i \in DOMAIN inbound' : inbound'[i] = Line("401", req[w].key[2])
                      ELSE req[w].fresh => req[w].truth = "refused"
    OBVIOUS
  <2> DEFINE n == req[w].key[2]
  <2>1. Coming(w) /\ ReqTypes /\ FileTypes /\ LineTypes /\ req[w].key \in Key
    BY <1>1 DEF Answering, Types, ReqTypes
  <2>2. Waits(w) => /\ req[w].truth = "refused" /\ link.up => Line("401", n) \in UnderWay
                    /\ req[w].fresh /\ req[w].truth # "refused" => Line("401", n) \notin UnderWay
    BY <2>1 DEF Coming, DMComing, Kind, Target
  <2>3. CASE HandleLine
    <3>1. LineEffect
      BY <1>1, <2>3, HandlingLine
    <3>2. /\ Gets(w) /\ (req'[w].ok <=> Head(inbound).type = "366")
      BY <3>1 DEF LineEffect
    <3>3. Waits(w) /\ Head(inbound) = Line("401", n)
      BY <3>2 DEF Gets, Waits, Answers
    <3>4. Head(inbound).type = "401"
      BY <3>3, LineKinds
    <3>5. Head(inbound) \in UnderWay
      BY <1>1, <2>1, <2>3, LineCases, LinesHandled
    <3> QED BY <2>2, <3>2, <3>3, <3>4, <3>5
  <2>4. ASSUME NEW v \in Waiter, LeavesOf(v)
        PROVE  /\ req'[w].ok
               /\ Waits(w) /\ req[w].truth = "refused" /\ link.up =>
                    \E i \in DOMAIN inbound' : inbound'[i] = Line("401", n)
    <3>1. inbound' = inbound /\ DOMAIN inbound = 1..Len(inbound)
      BY <2>1, <2>4 DEF LeavesOf, LineTypes
    <3>2. req'[w].ok
      <4>1. CASE WaitEnds(v)
        BY <2>1, <4>1, Waiting
      <4>2. CASE WindowEnds(v)
        BY <2>1, <4>2, WindowEnding
      <4>3. CASE Clears(v) /\ req[v].state # "waiting" /\ UNCHANGED pending
        BY <2>1, <4>3, Clearing
      <4> QED BY <2>4, <4>1, <4>2, <4>3 DEF LeavesOf
    <3> QED BY <2>2, <3>1, <3>2 DEF UnderWay
  <2>5. ASSUME NEW v \in Waiter, LeavesOf(v)
        PROVE  pending[req[w].key] = w => Waits(w)
    BY <2>1 DEF FileTypes, Filing, Waits
  <2>6. ASSUME NEW v \in Waiter, NEW key \in Key, AsksOf(v, key)
        PROVE  FALSE
    BY <2>6 DEF AsksOf
  <2>7. CASE Quiet
    BY <2>7 DEF Quiet
  <2>8. CASE DialSucceeds
    BY <2>1, <2>8, Dialling
  <2>9. ASSUME NEW c \in Channel, SendPart(c)
        PROVE  FALSE
    BY <2>9 DEF SendPart, Parts
  <2> QED BY <1>1, <2>3, <2>4, <2>5, <2>6, <2>7, <2>8, <2>9, Effects
<1>2. Spec => []Types
  BY Typed, PTL
<1>3. Types /\ Answering /\ [Next]_vars => [Own]_vars
  BY <1>1
<1>4. Spec => [][Own]_vars
  BY <1>2, <1>3, AnsweringAlways, PTL DEF Spec
<1> QED BY <1>4 DEF RejectionMine

----------------------------------------------------------------------------
(* What the connection lists as its channels. *)

Listed(c) == c \in channels \/ Line("JOIN", c) \in UnderWay

Echo == link.up =>
  \A c \in Channel : (c \in member => Listed(c)) /\ (Listed(c) => c \in member \cup crossed)

LEMMA EchoAsked ==
  ASSUME Types, Echo, NEW w \in Waiter, NEW key \in Key, AsksOf(w, key)
  PROVE  Echo'
<1> DEFINE truth == req'[w].truth
<1>1. /\ UNCHANGED link /\ UNCHANGED channels /\ UNCHANGED crossed /\ Served(w, key)
  BY DEF AsksOf
<1>2. CASE ~link.up
  BY <1>1, <1>2 DEF Echo
<1>3. CASE link.up
  <2>1. PICK r : ReplyIs(r, key, truth) /\ inbound' = inbound \o r
    BY <1>1, <1>3, Taken
  <2>2. UnderWay' = UnderWay \cup {r[i] : i \in 1..Len(r)}
    BY <2>1, LinesAdded DEF Types, ReplyIs
  <2>3. \/ key[1] # "join" /\ UNCHANGED member
        \/ key[1] = "join" /\ truth = "accepted" /\ member' = member \cup {key[2]}
        \/ key[1] = "join" /\ truth = "refused" /\ UNCHANGED member
    BY <1>1, <1>3, Taken
  <2> SUFFICES ASSUME NEW c \in Channel
               PROVE  (c \in member => Listed(c))' /\ (Listed(c) => c \in member \cup crossed)'
    BY DEF Echo
  <2>4. (c \in member => Listed(c)) /\ (Listed(c) => c \in member \cup crossed)
    BY <1>3 DEF Echo
  <2>5. ASSUME c \in member'
        PROVE  Listed(c)'
    <3>1. CASE c \in member
      BY <1>1, <2>2, <2>4, <3>1 DEF Listed
    <3>2. CASE c \notin member
      <4>1. c = key[2] /\ key[1] = "join" /\ truth = "accepted"
        BY <2>3, <2>5, <3>2
      <4>2. \E i \in 1..Len(r) : r[i] = Line("JOIN", c)
        BY <2>1, <3>2, <4>1 DEF ReplyIs
      <4> QED BY <2>2, <4>2 DEF Listed
    <3> QED BY <3>1, <3>2
  <2>6. ASSUME Listed(c)'
        PROVE  c \in member' \cup crossed'
    <3>1. CASE Listed(c)
      BY <1>1, <2>3, <2>4, <3>1
    <3>2. CASE ~Listed(c)
      <4>1. PICK i \in 1..Len(r) : r[i] = Line("JOIN", c)
        BY <1>1, <2>2, <2>6, <3>2 DEF Listed
      <4>2. r[i].type = "JOIN" /\ r[i].about = c
        BY <4>1, LineKinds
      <4>3. key = <<"join", c>> /\ truth = "accepted"
        BY <2>1, <4>2 DEF ReplyIs
      <4> QED BY <2>3, <4>3
    <3> QED BY <3>1, <3>2
  <2> QED BY <2>5, <2>6
<1> QED BY <1>2, <1>3

LEMMA EchoParts ==
  ASSUME Types, Echo, NEW c \in Channel, SendPart(c)
  PROVE  Echo'
<1>1. /\ link' = link /\ inbound' = inbound
      /\ crossed' = IF Fresh(c) THEN crossed \ {c} ELSE crossed \cup {c}
      /\ link.up => channels' = channels \ {c} /\ member' = member \ {c}
  BY DEF SendPart, Parts
<1>2. UnderWay' = UnderWay /\ LineTypes
  BY <1>1 DEF UnderWay, Types
<1>3. Line("JOIN", c) \in UnderWay => c \in crossed'
  BY <1>1, <1>2, FreshLines
<1>4. ASSUME link.up, NEW x \in Channel
      PROVE  /\ x \in member' => x \in channels' \/ Line("JOIN", x) \in UnderWay
             /\ x \in channels' \/ Line("JOIN", x) \in UnderWay => x \in member' \cup crossed'
  <2>1. CASE x = c
    BY <1>1, <1>3, <1>4, <2>1
  <2>2. CASE x # c
    <3>1. /\ x \in member => x \in channels \/ Line("JOIN", x) \in UnderWay
          /\ x \in channels \/ Line("JOIN", x) \in UnderWay => x \in member \cup crossed
      BY <1>4 DEF Echo, Listed
    <3> QED BY <1>1, <1>4, <2>2, <3>1
  <2> QED BY <2>1, <2>2
<1> QED BY <1>1, <1>2, <1>4 DEF Echo, Listed

LEMMA EchoLine ==
  ASSUME Types, Echo, HandleLine
  PROVE  Echo'
<1> DEFINE h == Head(inbound)
<1>1. /\ UNCHANGED link /\ UNCHANGED member /\ UNCHANGED crossed
      /\ inbound # <<>> /\ inbound' = Tail(inbound)
  BY LineCases
<1>2. h \in UnderWay /\ UnderWay' \subseteq UnderWay /\ UnderWay \subseteq UnderWay' \cup {h}
  BY <1>1, LinesHandled DEF Types
<1>3. channels' = IF h.type = "JOIN" THEN channels \cup {h.about} ELSE channels
  BY HandlingLine DEF LineEffect
<1>4. h.type = "JOIN" => h = Line("JOIN", h.about)
  <2>1. h \in AnyLine
    BY <1>1, HeadTailProperties DEF Types, LineTypes
  <2> QED BY <2>1, LineKinds
<1> HIDE DEF h
<1>5. \A x : Line("JOIN", x).type = "JOIN" /\ Line("JOIN", x).about = x
  BY LineKinds
<1>6. ASSUME NEW x
      PROVE  Listed(x)' <=> Listed(x)
  BY <1>2, <1>3, <1>4, <1>5 DEF Listed
<1> QED BY <1>1, <1>6 DEF Echo

LEMMA EchoStep ==
  ASSUME Types, Echo, [Next]_vars
  PROVE  Echo'
<1>1. CASE Quiet
  BY <1>1 DEF Quiet, Echo, Listed, UnderWay
<1>2. CASE DialSucceeds
  <2>1. inbound' = <<>> /\ channels' = {} /\ member' = {}
    BY <1>2, Dialling DEF Types
  <2> QED BY <2>1 DEF Echo, Listed, UnderWay
<1>3. ASSUME NEW w \in Waiter, LeavesOf(w)
      PROVE  Echo'
  BY <1>3 DEF LeavesOf, Echo, Listed, UnderWay
<1> QED BY <1>1, <1>2, <1>3, EchoAsked, EchoParts, EchoLine, Effects

LEMMA EchoAtFirst ==
  ASSUME Init
  PROVE  Echo
BY DEF Init, ConnInit, NoLink, Echo

(* At rest the channels that the status of a client reports are those the
   server has it in, and besides only channels that were parted before the
   echo of their join had come (StatusIsMembership), for any number of
   commands at once (Conn.Channels, handle, Part). *)
THEOREM StatusIsTrue == Spec => []StatusIsMembership
<1>1. ASSUME Types, Echo
      PROVE  StatusIsMembership
  <2> SUFFICES ASSUME AtRest
               PROVE  member \subseteq channels /\ channels \ crossed \subseteq member
    BY DEF StatusIsMembership
  <2>1. link.up /\ UnderWay = {} /\ member \subseteq Channel /\ channels \subseteq Channel
    BY <1>1 DEF AtRest, UnderWay, Types, NameTypes
  <2> QED BY <1>1, <2>1 DEF Echo, Listed
<1>2. Spec => []Types
  BY Typed, PTL
<1>3. Spec => []Echo
  BY <1>2, EchoAtFirst, EchoStep, PTL DEF Spec
<1>4. Types /\ Echo => StatusIsMembership
  BY <1>1
<1> QED BY <1>2, <1>3, <1>4, PTL

----------------------------------------------------------------------------
(* What the record says about a channel. *)

BusyBy(c, x) == cmd[c].pc \in {"wait", "save"} /\ ChangesRecord(cmd[c].op) /\ cmd[c].target = x

Todo == IF sup.pc = "hook" THEN sup.st ELSE IF sup.pc = "rejoin" THEN sup.todo ELSE {}

(* The record is right about x, or will be when x has been rejoined. *)
Right(x) == (x \in member => x \in roster) /\ (x \in roster => x \in member \cup refused \cup Todo)

Connected == link.up /\ sup.pc \in {"hook", "rejoin", "run"}

(* A command that is sure of its channel knows what the server does. *)
Knows(c) ==
  /\ \/ cmd[c].op = "join" /\ cmd[c].pc \in {"wait", "save"}
     \/ cmd[c].op = "part" /\ cmd[c].pc = "save"
  /\ link.up =>
       /\ cmd[c].pc = "wait" =>
            \/ req[c].truth = "accepted" /\ cmd[c].target \in member
            \/ req[c].truth = "refused" /\ cmd[c].target \in refused
       /\ cmd[c].pc = "save" /\ cmd[c].op = "join" => cmd[c].target \in member \cup refused
       /\ cmd[c].pc = "save" /\ cmd[c].op = "part" => cmd[c].target \notin member

Apart == member \cap refused = {}

Unpublished == sup.pc \in {"load", "dial"} => ~published

Dialled == sup.pc = "dial" => sure = {} /\ \A x \in Channel \ doubtful : x \in roster <=> x \in sup.st

Recorded == Connected => \A x \in Channel \ doubtful : (\E c \in Cmd : BusyBy(c, x)) \/ Right(x)

Records == Apart /\ Unpublished /\ Dialled /\ (\A c \in sure : Knows(c)) /\ Recorded

----------------------------------------------------------------------------
(* What the steps of a command do. *)

OthersStay(c) == \A d \in Cmd : d # c => cmd'[d] = cmd[d]

Moves(c, pc) ==
  /\ cmd'[c].pc = pc /\ cmd'[c].op = cmd[c].op /\ cmd'[c].target = cmd[c].target
  /\ cmd'[c].base = cmd[c].base /\ OthersStay(c)

Idles(c) == cmd'[c].pc = "idle" /\ cmd'[c].op = "none" /\ OthersStay(c)

LEMMA PlacingMoves ==
  ASSUME Types, NEW c \in Cmd, NEW pc \in CmdPc, Pc(c, pc)
  PROVE  Moves(c, pc)
BY Placing DEF Types, CmdTypes, Moves, OthersStay

LEMMA EndingIdles ==
  ASSUME Types, NEW c \in Cmd, Ends(c)
  PROVE  Idles(c)
BY Ending DEF Types, CmdTypes, Idles, OthersStay

(* The record and the commands stay, and the server learns nothing. *)
LEMMA RecordsStay ==
  ASSUME Records, sure \subseteq Cmd, link'.up => link.up, UNCHANGED member, UNCHANGED refused,
         UNCHANGED roster, UNCHANGED published, UNCHANGED sup, UNCHANGED sure, UNCHANGED doubtful,
         UNCHANGED cmd, \A c \in Cmd : req[c].state # "none" => req'[c].truth = req[c].truth,
         \A c \in Cmd : cmd[c].pc = "wait" => req[c].state # "none"
  PROVE  Records'
<1>1. Apart' /\ Unpublished' /\ Dialled'
  BY DEF Records, Apart, Unpublished, Dialled
<1>2. ASSUME NEW c \in sure
      PROVE  Knows(c)'
  BY DEF Records, Knows
<1>3. Recorded'
  <2> SUFFICES ASSUME Connected', NEW x \in Channel \ doubtful'
               PROVE  (\E c \in Cmd : BusyBy(c, x)') \/ Right(x)'
    BY DEF Recorded
  <2>1. (\E c \in Cmd : BusyBy(c, x)) \/ Right(x)
    BY DEF Records, Recorded, Connected
  <2>2. Right(x) => Right(x)'
    BY DEF Right, Todo
  <2>3. \A c \in Cmd : BusyBy(c, x) => BusyBy(c, x)'
    BY DEF BusyBy
  <2> QED BY <2>1, <2>2, <2>3
<1> QED BY <1>1, <1>2, <1>3 DEF Records

(* A command moves; about a channel either nothing changes, or what it does
   makes the record right or is under way. *)
SameAbout(x) ==
  /\ x \notin doubtful /\ (x \in roster' <=> x \in roster)
  /\ link.up => (x \in member' <=> x \in member) /\ (x \in refused' <=> x \in refused)

LEMMA RecordsMove ==
  ASSUME Types, HistoryTypes, Records, NEW c \in Cmd, OthersStay(c),
         \A d \in Cmd : d # c => req'[d] = req[d],
         UNCHANGED link, UNCHANGED published, UNCHANGED sup,
         sure' \ {c} \subseteq sure, c \in sure' => Knows(c)',
         \A d \in sure' \ {c} : link.up =>
           /\ cmd[d].target \in member' <=> cmd[d].target \in member
           /\ cmd[d].target \in refused' <=> cmd[d].target \in refused,
         Apart', sup.pc = "dial" => sure' = {},
         \A x \in Channel \ doubtful' :
           \/ SameAbout(x) /\ (BusyBy(c, x) => BusyBy(c, x)')
           \/ sup.pc # "dial" /\ (link.up => BusyBy(c, x)' \/ Right(x)')
  PROVE  Records'
<1>1. Apart' /\ Unpublished'
  BY DEF Records, Unpublished
<1>2. Dialled'
  <2> SUFFICES ASSUME sup.pc = "dial", NEW x \in Channel \ doubtful'
               PROVE  sure' = {} /\ (x \in roster' <=> x \in sup.st)
    BY DEF Dialled
  <2>1. SameAbout(x)
    OBVIOUS
  <2>2. x \notin doubtful /\ (x \in roster' <=> x \in roster)
    BY <2>1 DEF SameAbout
  <2> QED BY <2>2 DEF Records, Dialled
<1>3. ASSUME NEW d \in sure'
      PROVE  Knows(d)'
  <2>1. CASE d = c
    BY <2>1
  <2>2. CASE d # c
    <3>1. d \in sure /\ d \in Cmd
      BY <2>2 DEF HistoryTypes
    <3>2. cmd'[d] = cmd[d] /\ req'[d] = req[d] /\ Knows(d)
      BY <2>2, <3>1 DEF OthersStay, Records
    <3>3. link.up => /\ cmd[d].target \in member' <=> cmd[d].target \in member
                     /\ cmd[d].target \in refused' <=> cmd[d].target \in refused
      BY <2>2
    <3> QED BY <3>2, <3>3 DEF Knows
  <2> QED BY <2>1, <2>2
<1>4. Recorded'
  <2> SUFFICES ASSUME Connected', NEW x \in Channel \ doubtful'
               PROVE  (\E d \in Cmd : BusyBy(d, x)') \/ Right(x)'
    BY DEF Recorded
  <2>1. link.up /\ sup.pc # "dial" /\ Connected
    BY DEF Connected
  <2>2. CASE SameAbout(x) /\ (BusyBy(c, x) => BusyBy(c, x)')
    <3>1. (\E d \in Cmd : BusyBy(d, x)) \/ Right(x)
      BY <2>1, <2>2 DEF Records, Recorded, SameAbout
    <3>2. Right(x) => Right(x)'
      BY <2>1, <2>2 DEF Right, Todo, SameAbout
    <3>3. \A d \in Cmd : BusyBy(d, x) => BusyBy(d, x)'
      BY <2>2 DEF BusyBy, OthersStay
    <3> QED BY <3>1, <3>2, <3>3
  <2>3. CASE sup.pc # "dial" /\ (link.up => BusyBy(c, x)' \/ Right(x)')
    BY <2>1, <2>3
  <2> QED BY <2>2, <2>3
<1> QED BY <1>1, <1>2, <1>3, <1>4 DEF Records

(* As above, and neither the record nor the server changes. *)
LEMMA RecordsMoveAlone ==
  ASSUME Types, HistoryTypes, Records, NEW c \in Cmd, OthersStay(c),
         \A d \in Cmd : d # c => req'[d] = req[d],
         UNCHANGED link, UNCHANGED published, UNCHANGED sup,
         UNCHANGED roster, UNCHANGED member, UNCHANGED refused,
         sure' \subseteq sure, c \in sure' => Knows(c)', doubtful \subseteq doubtful',
         \A x \in Channel \ doubtful' : BusyBy(c, x) =>
           \/ BusyBy(c, x)'
           \/ sup.pc # "dial" /\ (link.up => Right(x)')
  PROVE  Records'
<1>1. Apart' /\ (sup.pc = "dial" => sure' = {})
  BY DEF Records, Apart, Dialled
<1>2. \A x \in Channel \ doubtful' : SameAbout(x)
  BY DEF SameAbout
<1>3. \A x \in Channel \ doubtful' :
        \/ SameAbout(x) /\ (BusyBy(c, x) => BusyBy(c, x)')
        \/ sup.pc # "dial" /\ (link.up => BusyBy(c, x)' \/ Right(x)')
  BY <1>2
<1>4. /\ sure' \ {c} \subseteq sure
      /\ \A d \in sure' \ {c} : link.up =>
           /\ cmd[d].target \in member' <=> cmd[d].target \in member
           /\ cmd[d].target \in refused' <=> cmd[d].target \in refused
  OBVIOUS
<1> QED BY <1>1, <1>3, <1>4, RecordsMove

----------------------------------------------------------------------------
(* The steps of the supervisor. *)

LEMMA RecordsLoads ==
  ASSUME Types, Records, SupLoads
  PROVE  Records'
<1>1. /\ sup.pc = "load" /\ sup'.pc = "dial" /\ sup'.st = roster
      /\ sure' = {} /\ doubtful' = {} /\ UNCHANGED member /\ UNCHANGED refused
      /\ UNCHANGED roster /\ UNCHANGED published
  BY DEF SupLoads, Loads, connVars, outcomes, Types, SupTypes, SupRecord
<1> QED BY <1>1 DEF Records, Apart, Unpublished, Dialled, Recorded, Connected

LEMMA RecordsReturns ==
  ASSUME Types, Records, SupDialFails \/ SupNotices
  PROVE  Records'
<1>1. "load" \in SupPlace
  BY DEF SupPlace
<1>2. /\ sup'.pc = "load" /\ published' = FALSE /\ UNCHANGED connVars
      /\ UNCHANGED files
  BY <1>1, SupPlacing DEF SupDialFails, SupNotices, Types, SupTypes
<1>3. /\ UNCHANGED link /\ UNCHANGED req /\ UNCHANGED member /\ UNCHANGED refused
      /\ UNCHANGED cmd /\ UNCHANGED sure
  BY <1>2 DEF connVars, files, outcomes, history
<1>4. \A c \in sure : Knows(c)'
  BY <1>3 DEF Records, Knows
<1> QED BY <1>2, <1>3, <1>4 DEF Records, Apart, Unpublished, Dialled, Recorded, Connected

LEMMA RecordsDials ==
  ASSUME Types, Records, SupDials
  PROVE  Records'
<1>1. "hook" \in SupPlace
  BY DEF SupPlace
<1>2. /\ sup.pc = "dial" /\ sup'.pc = "hook" /\ sup'.st = sup.st
      /\ UNCHANGED roster /\ UNCHANGED doubtful /\ UNCHANGED sure
  BY <1>1, SupPlacing DEF SupDials, Types, SupTypes, files, outcomes, history
<1>3. member' = {} /\ refused' = {}
  BY Dialling DEF SupDials, Types
<1>4. sure = {} /\ \A x \in Channel \ doubtful : x \in roster <=> x \in sup.st
  BY <1>2 DEF Records, Dialled
<1>5. \A x \in Channel \ doubtful : Right(x)'
  BY <1>2, <1>3, <1>4 DEF Right, Todo
<1>6. Recorded'
  BY <1>2, <1>5 DEF Recorded
<1> QED BY <1>2, <1>3, <1>4, <1>6 DEF Records, Apart, Unpublished, Dialled

(* The supervisor goes on with a connection it has. *)
LEMMA RecordsGoesOn ==
  ASSUME Types, Records, SupHooks \/ SupRuns \/ SupHearsNothing
  PROVE  Records'
<1>0. UNCHANGED roster /\ UNCHANGED cmd /\ UNCHANGED sure /\ UNCHANGED doubtful
      /\ UNCHANGED req /\ UNCHANGED member /\ UNCHANGED refused
  BY DEF SupHooks, SupRuns, SupHearsNothing, files, outcomes, history, connVars
<1>1. /\ sup.pc \in {"hook", "rejoin", "run"} /\ sup'.pc \in {"rejoin", "run"} /\ Todo' = Todo
      /\ link'.up => link.up
  <2>1. CASE SupHooks
    <3>1. sup.pc = "hook" /\ sup'.pc = "rejoin" /\ sup'.todo = sup.st
      BY <2>1 DEF SupHooks, Types, SupTypes, SupRecord
    <3>2. link'.up = link.up
      BY <2>1 DEF SupHooks, Types, LinkTypes, LinkRecord
    <3> QED BY <3>1, <3>2 DEF Todo
  <2>2. CASE SupRuns
    <3>1. "run" \in SupPlace
      BY DEF SupPlace
    <3>2. sup.pc = "rejoin" /\ sup.todo = {} /\ sup'.pc = "run" /\ link' = link
      BY <2>2, <3>1, SupPlacing DEF SupRuns, connVars, Types, SupTypes
    <3> QED BY <3>2 DEF Todo
  <2>3. CASE SupHearsNothing
    <3>1. ~link'.up
      BY <2>3 DEF SupHearsNothing, CloseLink, Types, LinkTypes, LinkRecord
    <3> QED BY <2>3, <3>1 DEF SupHearsNothing, Todo
  <2> QED BY <2>1, <2>2, <2>3
<1>2. Apart' /\ Unpublished' /\ Dialled'
  BY <1>0, <1>1 DEF Records, Apart, Unpublished, Dialled
<1>3. ASSUME NEW c \in sure
      PROVE  Knows(c)'
  BY <1>0, <1>1 DEF Records, Knows
<1>4. Recorded'
  <2> SUFFICES ASSUME Connected', NEW x \in Channel \ doubtful
               PROVE  (\E c \in Cmd : BusyBy(c, x)') \/ Right(x)'
    BY <1>0 DEF Recorded
  <2>1. (\E c \in Cmd : BusyBy(c, x)) \/ Right(x)
    BY <1>1 DEF Records, Recorded, Connected
  <2> QED BY <1>0, <1>1, <2>1 DEF BusyBy, Right
<1> QED BY <1>0, <1>2, <1>3, <1>4 DEF Records

(* What a request changes of what the server knows. *)
LEMMA AskedOf ==
  ASSUME Types, Apart, NEW w \in Waiter, NEW key \in Key, AsksOf(w, key)
  PROVE  /\ Apart' /\ link' = link
         /\ \A x : key # <<"join", x>> => /\ x \in member' <=> x \in member
                                          /\ x \in refused' <=> x \in refused
         /\ link.up /\ key[1] = "join" =>
              \/ req'[w].truth = "accepted" /\ key[2] \in member'
              \/ req'[w].truth = "refused" /\ key[2] \in refused' /\ key[2] \notin member'
<1>1. Served(w, key) /\ link' = link
  BY DEF AsksOf
<1>2. key = <<key[1], key[2]>>
  BY Keys
<1>3. \/ UNCHANGED member /\ UNCHANGED refused /\ (~link.up \/ key[1] # "join")
      \/ /\ key[1] = "join" /\ req'[w].truth = "accepted"
         /\ member' = member \cup {key[2]} /\ refused' = refused \ {key[2]}
      \/ /\ key[1] = "join" /\ req'[w].truth = "refused" /\ key[2] \notin member
         /\ UNCHANGED member /\ refused' = refused \cup {key[2]}
  BY <1>1, Taken
<1>4. Apart'
  BY <1>3 DEF Apart
<1>5. \A x : key # <<"join", x>> => /\ x \in member' <=> x \in member
                                    /\ x \in refused' <=> x \in refused
  BY <1>2, <1>3
<1> QED BY <1>1, <1>3, <1>4, <1>5

LEMMA RecordsRejoins ==
  ASSUME Types, HistoryTypes, Records, NEW c \in Channel, SupRejoins(c)
  PROVE  Records'
<1> DEFINE key == <<"join", c>>
<1>1. /\ sup.pc = "rejoin" /\ sup'.pc = "rejoin" /\ sup'.st = sup.st /\ sup'.todo = sup.todo \ {c}
      /\ sure' = {d \in sure : cmd[d].target # c} /\ doubtful' = doubtful \cup ({c} \ roster)
      /\ UNCHANGED roster /\ UNCHANGED cmd /\ UNCHANGED published
  BY DEF SupRejoins, Types, SupTypes, SupRecord, Elsewhere, Doubts, outcomes
<1>2. key \in Key /\ AsksOf(Sup, key)
  <2>1. key \in Key /\ req[Sup].state = "none" /\ Ask(Sup, key)
    BY Keys DEF SupRejoins
  <2> HIDE DEF key
  <2> QED BY <2>1, Asking, Outsiders DEF Types, AsksOf
<1>3. /\ Apart' /\ link' = link
      /\ \A x : x # c => /\ x \in member' <=> x \in member
                         /\ x \in refused' <=> x \in refused
      /\ link.up => c \in member' \cup refused'
  <2>1. key[1] = "join" /\ key[2] = c /\ \A x : x # c => key # <<"join", x>>
    OBVIOUS
  <2> HIDE DEF key
  <2> QED BY <1>2, <2>1, AskedOf, Outsiders DEF Records
<1>4. ASSUME NEW d \in sure'
      PROVE  Knows(d)'
  <2>1. d \in sure /\ d \in Cmd /\ cmd[d].target # c
    BY <1>1 DEF HistoryTypes
  <2>2. req'[d] = req[d]
    BY <1>2, <2>1, Outsiders DEF AsksOf
  <2> QED BY <1>1, <1>3, <2>1, <2>2 DEF Records, Knows
<1>5. Recorded'
  <2> SUFFICES ASSUME Connected', NEW x \in Channel \ doubtful'
               PROVE  (\E d \in Cmd : BusyBy(d, x)') \/ Right(x)'
    BY DEF Recorded
  <2>1. link.up /\ Connected /\ x \notin doubtful
    BY <1>1, <1>3 DEF Connected
  <2>2. CASE x = c
    BY <1>1, <1>3, <2>1, <2>2 DEF Right
  <2>3. CASE x # c
    <3>1. (\E d \in Cmd : BusyBy(d, x)) \/ Right(x)
      BY <2>1 DEF Records, Recorded
    <3>2. x \in Todo' <=> x \in Todo
      BY <1>1, <2>3 DEF Todo
    <3> QED BY <1>1, <1>3, <2>3, <3>1, <3>2 DEF BusyBy, Right
  <2> QED BY <2>2, <2>3
<1> QED BY <1>1, <1>3, <1>4, <1>5 DEF Records, Unpublished, Dialled

----------------------------------------------------------------------------
(* The steps of a command. *)

LEMMA RecordsBegins ==
  ASSUME Types, HistoryTypes, Records, NEW c \in Cmd,
         \/ \E channel \in Channel : Join(c, channel) \/ Part(c, channel) \/ Members(c, channel)
         \/ \E nick \in Nick : DM(c, nick)
  PROVE  Records'
<1>1. PICK op \in {"join", "part", "names", "privmsg"}, target \in Channel \cup Nick :
        Begins(c, op, target)
  BY DEF Join, Part, Members, DM
<1>2. /\ cmd[c].pc = "idle" /\ OthersStay(c) /\ UNCHANGED connVars /\ UNCHANGED server
      /\ UNCHANGED history
  BY <1>1, Beginning DEF Types, CmdTypes, SupTypes, OthersStay, Begins
<1>3. c \notin sure
  BY <1>2 DEF Records, Knows
<1>4. \A x : ~BusyBy(c, x)
  BY <1>2 DEF BusyBy
<1> QED BY <1>2, <1>3, <1>4, RecordsMoveAlone DEF connVars, server, history

LEMMA RecordsAsks ==
  ASSUME Types, HistoryTypes, Records, NEW c \in Cmd, HandlerAsks(c)
  PROVE  Records'
<1> DEFINE t == cmd[c].target
           key == <<cmd[c].op, t>>
<1>1. /\ cmd[c].pc = "call" /\ cmd[c].op # "part" /\ Ask(c, key) /\ published
      /\ UNCHANGED roster /\ UNCHANGED published /\ UNCHANGED sup /\ UNCHANGED doubtful
      /\ sure' = IF cmd[c].op = "join" THEN Elsewhere(t) \cup {c} ELSE sure
  BY DEF HandlerAsks, server
<1>2. Moves(c, "wait")
  <2>1. Pc(c, "wait") /\ "wait" \in CmdPc
    BY DEF HandlerAsks, CmdPc
  <2> QED BY <2>1, PlacingMoves
<1>3. key \in Key /\ AsksOf(c, key)
  <2>1. key \in Key /\ req[c].state = "none"
    BY <1>1, OpKey DEF Types, Orders, Ordered
  <2> HIDE DEF key
  <2> QED BY <1>1, <2>1, Asking, Outsiders DEF Types, AsksOf
<1>4. key[1] = cmd[c].op /\ key[2] = t /\ \A x : key = <<"join", x>> <=> cmd[c].op = "join" /\ x = t
  OBVIOUS
<1>5. \A d \in Cmd : d # c => req'[d] = req[d]
  BY <1>3, Outsiders DEF AsksOf
<1>6. c \notin sure /\ \A x : ~BusyBy(c, x)
  BY <1>1 DEF Records, Knows, BusyBy
<1>7. sup.pc # "dial"
  BY <1>1 DEF Records, Unpublished
<1> HIDE DEF key, t
<1>8. /\ Apart' /\ link' = link
      /\ \A x : ~(cmd[c].op = "join" /\ x = t) => /\ x \in member' <=> x \in member
                                                  /\ x \in refused' <=> x \in refused
      /\ link.up /\ cmd[c].op = "join" =>
           \/ req'[c].truth = "accepted" /\ t \in member'
           \/ req'[c].truth = "refused" /\ t \in refused'
  BY <1>3, <1>4, AskedOf, Outsiders DEF Records
<1>9. c \in sure' => Knows(c)'
  <2>1. c \in sure' => cmd[c].op = "join"
    BY <1>1, <1>6
  <2>2. cmd'[c].pc = "wait" /\ cmd'[c].op = cmd[c].op /\ cmd'[c].target = t
    BY <1>2 DEF Moves, t
  <2> QED BY <1>8, <2>1, <2>2 DEF Knows
<1>10. sure' \ {c} \subseteq sure /\ (cmd[c].op = "join" => \A d \in sure' \ {c} : cmd[d].target # t)
  BY <1>1 DEF Elsewhere
<1>11. \A d \in sure' \ {c} : link.up =>
         /\ cmd[d].target \in member' <=> cmd[d].target \in member
         /\ cmd[d].target \in refused' <=> cmd[d].target \in refused
  BY <1>8, <1>10
<1>12. ASSUME NEW x \in Channel \ doubtful'
       PROVE  \/ SameAbout(x) /\ (BusyBy(c, x) => BusyBy(c, x)')
              \/ sup.pc # "dial" /\ (link.up => BusyBy(c, x)' \/ Right(x)')
  <2>1. CASE cmd[c].op = "join" /\ x = t
    <3>1. BusyBy(c, x)'
      BY <1>2, <2>1 DEF Moves, BusyBy, ChangesRecord, t
    <3> QED BY <1>7, <3>1
  <2>2. CASE ~(cmd[c].op = "join" /\ x = t)
    BY <1>1, <1>6, <1>8, <1>12, <2>2 DEF SameAbout
  <2> QED BY <2>1, <2>2
<1> QED BY <1>1, <1>2, <1>5, <1>7, <1>8, <1>9, <1>10, <1>11, <1>12, RecordsMove DEF Moves

LEMMA RecordsParts ==
  ASSUME Types, HistoryTypes, Records, NEW c \in Cmd, HandlerParts(c)
  PROVE  Records'
<1> DEFINE t == cmd[c].target
<1>1. /\ cmd[c].pc = "call" /\ cmd[c].op = "part" /\ published
      /\ UNCHANGED link /\ UNCHANGED req /\ UNCHANGED refused
      /\ member' = (IF link.up THEN member \ {t} ELSE member)
      /\ UNCHANGED roster /\ UNCHANGED published /\ UNCHANGED sup /\ UNCHANGED doubtful
      /\ sure' = Elsewhere(t) \cup {c}
  BY DEF HandlerParts, SendPart, Parts, server
<1>2. Moves(c, "save")
  <2>1. Pc(c, "save") /\ "save" \in CmdPc
    BY DEF HandlerParts, CmdPc
  <2> QED BY <2>1, PlacingMoves
<1>3. sup.pc # "dial" /\ \A x : ~BusyBy(c, x)
  BY <1>1 DEF Records, Unpublished, BusyBy
<1> HIDE DEF t
<1>4. Apart'
  BY <1>1 DEF Records, Apart
<1>5. Knows(c)'
  BY <1>1, <1>2 DEF Knows, Moves, t
<1>6. \A d \in sure' \ {c} : d \in sure /\ cmd[d].target # t
  BY <1>1 DEF Elsewhere
<1>7. \A d \in sure' \ {c} : link.up =>
        /\ cmd[d].target \in member' <=> cmd[d].target \in member
        /\ cmd[d].target \in refused' <=> cmd[d].target \in refused
  BY <1>1, <1>6
<1>8. ASSUME NEW x \in Channel \ doubtful'
      PROVE  \/ SameAbout(x) /\ (BusyBy(c, x) => BusyBy(c, x)')
             \/ sup.pc # "dial" /\ (link.up => BusyBy(c, x)' \/ Right(x)')
  <2>1. CASE x = t
    <3>1. BusyBy(c, x)'
      BY <1>1, <1>2, <2>1 DEF Moves, BusyBy, ChangesRecord, t
    <3> QED BY <1>3, <3>1
  <2>2. CASE x # t
    BY <1>1, <1>3, <1>8, <2>2 DEF SameAbout
  <2> QED BY <2>1, <2>2
<1> QED BY <1>1, <1>2, <1>3, <1>4, <1>5, <1>6, <1>7, <1>8, RecordsMove DEF Moves

(* Calls that reach no connection, or get no answer. *)
LEMMA RecordsCalls ==
  ASSUME Types, HistoryTypes, Records, NEW c \in Cmd, HandlerHasNoConnection(c) \/ CallFails(c)
  PROVE  Records'
<1>1. /\ cmd[c].pc = "call" /\ UNCHANGED connVars /\ UNCHANGED server /\ UNCHANGED history
      /\ Pc(c, "save") \/ Ends(c)
  BY DEF HandlerHasNoConnection, CallFails
<1>2. OthersStay(c)
  <2>1. "save" \in CmdPc
    BY DEF CmdPc
  <2> QED BY <1>1, <2>1, PlacingMoves, EndingIdles DEF Moves, Idles
<1>3. c \notin sure /\ \A x : ~BusyBy(c, x)
  BY <1>1 DEF Records, Knows, BusyBy
<1> QED BY <1>1, <1>2, <1>3, RecordsMoveAlone DEF connVars, server, history

(* Commands that end without a save. *)
LEMMA RecordsAbandons ==
  ASSUME Types, HistoryTypes, Records, NEW c \in Cmd, Abandons(c), OthersStay(c),
         \A d \in Cmd : d # c => req'[d] = req[d],
         UNCHANGED link, UNCHANGED published, UNCHANGED sup,
         UNCHANGED roster, UNCHANGED member, UNCHANGED refused
  PROVE  Records'
<1>1. sure' = sure \ {c} /\ doubtful \subseteq doubtful'
      /\ (ChangesRecord(cmd[c].op) => cmd[c].target \in doubtful')
  BY DEF Abandons, Doubts
<1>2. \A x \in Channel \ doubtful' : ~BusyBy(c, x)
  BY <1>1 DEF BusyBy
<1> QED BY <1>1, <1>2, RecordsMoveAlone

LEMMA RecordsEnds ==
  ASSUME Types, HistoryTypes, Records, NEW c \in Cmd, GivesUp(c) \/ Killed(c)
  PROVE  Records'
<1>1. /\ Pc(c, "left") \/ Ends(c)
      /\ Abandons(c) /\ UNCHANGED connVars /\ UNCHANGED server
  BY DEF GivesUp, Killed
<1>2. OthersStay(c)
  <2>1. "left" \in CmdPc
    BY DEF CmdPc
  <2> QED BY <1>1, <2>1, PlacingMoves, EndingIdles DEF Moves, Idles
<1> QED BY <1>1, <1>2, RecordsAbandons DEF connVars, server

LEMMA RecordsReplies ==
  ASSUME Types, HistoryTypes, Records, Answering, NEW c \in Cmd, HandlerReplies(c)
  PROVE  Records'
<1> DEFINE t == cmd[c].target
<1>1. /\ cmd[c].pc \in {"wait", "left"} /\ req[c].state \in {"answered", "timeout"} /\ Clears(c)
      /\ UNCHANGED link /\ UNCHANGED pending /\ UNCHANGED member /\ UNCHANGED refused
      /\ UNCHANGED roster /\ UNCHANGED published /\ UNCHANGED sup
      /\ \/ cmd[c].pc = "wait" /\ cmd[c].op = "join" /\ Pc(c, "save") /\ UNCHANGED history
         \/ cmd[c].pc = "left" /\ Ends(c) /\ UNCHANGED history
         \/ /\ Ends(c) /\ cmd[c].pc = "wait" /\ ~(cmd[c].op = "join" /\ req[c].ok) /\ Refused(c)
            /\ sure' = sure \ {c} /\ UNCHANGED doubtful
         \/ Ends(c) /\ Abandons(c)
  BY DEF HandlerReplies, Clears, server
<1>2. \A d \in Cmd : d # c => req'[d] = req[d]
  BY <1>1, Clearing, Outsiders DEF Types
<1>3. CASE cmd[c].pc = "wait" /\ cmd[c].op = "join" /\ Pc(c, "save") /\ UNCHANGED history
  <2>1. Moves(c, "save")
    BY <1>3, PlacingMoves DEF CmdPc
  <2>2. c \in sure => Knows(c)'
    BY <1>1, <1>3, <2>1 DEF Records, Knows, Moves
  <2>3. \A x : BusyBy(c, x) => BusyBy(c, x)'
    BY <2>1 DEF BusyBy, Moves
  <2> QED BY <1>1, <1>2, <1>3, <2>1, <2>2, <2>3, RecordsMoveAlone DEF Moves, history
<1>4. CASE cmd[c].pc = "left" /\ Ends(c) /\ UNCHANGED history
  <2>1. OthersStay(c)
    BY <1>4, EndingIdles DEF Idles
  <2>2. c \notin sure /\ \A x : ~BusyBy(c, x)
    BY <1>4 DEF Records, Knows, BusyBy
  <2> QED BY <1>1, <1>2, <1>4, <2>1, <2>2, RecordsMoveAlone DEF history
<1>5. CASE /\ Ends(c) /\ cmd[c].pc = "wait" /\ ~(cmd[c].op = "join" /\ req[c].ok) /\ Refused(c)
           /\ sure' = sure \ {c} /\ UNCHANGED doubtful
  <2>1. OthersStay(c)
    BY <1>5, EndingIdles DEF Idles
  <2>2. c \in sure /\ req[c].state = "answered" /\ req[c].fresh /\ Knows(c)
    BY <1>5 DEF Refused, Records
  <2>3. cmd[c].op = "join" /\ ~req[c].ok /\ sup.pc # "dial"
    BY <1>5, <2>2 DEF Knows, Records, Dialled
  <2>4. req[c].key = <<cmd[c].op, t>>
    BY <2>2 DEF Types, Orders, Ordered
  <2>5. req[c].truth # "accepted"
    <3>1. Settled(c) /\ Answered(c, "join")
      BY <2>2, <2>3, <2>4, Outsiders DEF Answering, Answered
    <3> QED BY <2>2, <2>3, <3>1 DEF Settled
  <2>6. link.up => t \in refused /\ t \notin member
    BY <1>5, <2>2, <2>5 DEF Knows, Records, Apart
  <2> HIDE DEF t
  <2>7. ASSUME NEW x, x = t, link.up
        PROVE  Right(x)'
    BY <1>1, <2>6, <2>7 DEF Right
  <2>8. \A x : BusyBy(c, x) => x = t
    BY DEF BusyBy, t
  <2> QED BY <1>1, <1>2, <1>5, <2>1, <2>3, <2>7, <2>8, RecordsMoveAlone
<1>6. CASE Ends(c) /\ Abandons(c)
  <2>1. OthersStay(c)
    BY <1>6, EndingIdles DEF Idles
  <2> QED BY <1>1, <1>2, <1>6, <2>1, RecordsAbandons
<1> QED BY <1>1, <1>3, <1>4, <1>5, <1>6

LEMMA RecordsSaves ==
  ASSUME Types, HistoryTypes, Records, NEW c \in Cmd, Saves(c)
  PROVE  Records'
<1> DEFINE t == cmd[c].target
<1>1. /\ cmd[c].pc = "save" /\ (cmd[c].op = "join" \/ cmd[c].op = "part")
      /\ roster' = (IF cmd[c].op = "join" THEN cmd[c].base \cup {t} ELSE cmd[c].base \ {t})
      /\ sure' = sure \ {c}
      /\ doubtful' = (IF c \in sure THEN (doubtful \cup Undone(c)) \ {t}
                      ELSE doubtful \cup Undone(c) \cup {t})
      /\ UNCHANGED link /\ UNCHANGED req /\ UNCHANGED member /\ UNCHANGED refused
      /\ UNCHANGED published /\ UNCHANGED sup
  BY DEF Saves, connVars, Types, Orders, Ordered
<1>2. OthersStay(c)
  BY EndingIdles DEF Saves, Idles
<1>3. \A x : BusyBy(c, x) => x = t
  BY DEF BusyBy
<1>4. c \in sure => Knows(c) /\ sup.pc # "dial"
  BY DEF Records, Dialled
<1>5. c \in sure /\ link.up => IF cmd[c].op = "join" THEN t \in member \cup refused ELSE t \notin member
  BY <1>1, <1>4 DEF Knows
<1> HIDE DEF t
<1>6. Apart'
  BY <1>1 DEF Records, Apart
<1>7. ASSUME NEW x \in Channel \ doubtful'
      PROVE  \/ SameAbout(x) /\ (BusyBy(c, x) => BusyBy(c, x)')
             \/ sup.pc # "dial" /\ (link.up => BusyBy(c, x)' \/ Right(x)')
  <2>1. CASE x = t
    <3>1. c \in sure
      BY <1>1, <1>7, <2>1
    <3>2. link.up => Right(x)'
      BY <1>1, <1>5, <2>1, <3>1 DEF Right
    <3> QED BY <1>4, <3>1, <3>2
  <2>2. CASE x # t
    <3>1. x \notin doubtful /\ x \notin Undone(c)
      BY <1>1, <1>7, <2>2
    <3>2. x \in cmd[c].base <=> x \in roster
      BY <3>1 DEF Undone
    <3>3. x \in roster' <=> x \in roster
      BY <1>1, <2>2, <3>2
    <3> QED BY <1>1, <1>3, <2>2, <3>1, <3>3 DEF SameAbout
  <2> QED BY <2>1, <2>2
<1> QED BY <1>1, <1>2, <1>4, <1>6, <1>7, RecordsMove DEF Records, Dialled

----------------------------------------------------------------------------
(* The steps that concern neither. *)

LEMMA RecordsConnection ==
  ASSUME Types, HistoryTypes, Records, ConnectionSteps \/ SupHasJoined
  PROVE  Records'
<1>1. /\ UNCHANGED roster /\ UNCHANGED published /\ UNCHANGED sup /\ UNCHANGED sure
      /\ UNCHANGED doubtful /\ UNCHANGED cmd
  BY DEF ConnectionSteps, OfOthers, SupHasJoined, files, outcomes, history
<1>2. \A c \in Cmd : cmd[c].pc = "wait" => req[c].state # "none"
  BY DEF Types, Orders, Ordered
<1>3. /\ link'.up => link.up
      /\ UNCHANGED member /\ UNCHANGED refused
      /\ \A c \in Cmd : req'[c].truth = req[c].truth
  <2>1. CASE HandleLine
    BY <2>1, LineCases, HandlingLine, Outsiders DEF LineEffect, SameAsk
  <2>2. CASE ReadLoopEnds
    <3>1. link'.up = link.up
      BY <2>2 DEF ReadLoopEnds, Types, LinkTypes, LinkRecord
    <3> QED BY <2>2, <3>1 DEF ReadLoopEnds
  <2>3. CASE Drops
    <3>1. ~link'.up
      BY <2>3 DEF Drops, Types, LinkTypes, LinkRecord
    <3> QED BY <2>3, <3>1 DEF Drops
  <2>4. ASSUME NEW w \in Waiter, WaitEnds(w)
        PROVE  /\ UNCHANGED link /\ UNCHANGED member /\ UNCHANGED refused
               /\ \A c \in Cmd : req'[c].truth = req[c].truth
    BY <2>4, Waiting, Outsiders DEF Types, SameAsk
  <2>5. ASSUME NEW w \in Waiter, WindowEnds(w)
        PROVE  /\ UNCHANGED link /\ UNCHANGED member /\ UNCHANGED refused
               /\ \A c \in Cmd : req'[c].truth = req[c].truth
    BY <2>5, WindowEnding, Outsiders DEF Types, SameAsk
  <2>6. CASE SupHasJoined
    <3>1. /\ Clears(Sup) /\ req[Sup].state # "waiting"
          /\ UNCHANGED link /\ UNCHANGED pending /\ UNCHANGED member /\ UNCHANGED refused
      BY <2>6 DEF SupHasJoined, Clears
    <3>2. \A c \in Cmd : req'[c] = req[c]
      BY <3>1, Clearing, Outsiders DEF Types
    <3> QED BY <3>1, <3>2
  <2> QED BY <2>1, <2>2, <2>3, <2>4, <2>5, <2>6 DEF ConnectionSteps
<1> QED BY <1>1, <1>2, <1>3, RecordsStay DEF HistoryTypes

LEMMA RecordsNothing ==
  ASSUME Types, HistoryTypes, Records, UNCHANGED vars
  PROVE  Records'
<1>1. \A c \in Cmd : cmd[c].pc = "wait" => req[c].state # "none"
  BY DEF Types, Orders, Ordered
<1> QED BY <1>1, RecordsStay DEF vars, connVars, history, HistoryTypes

LEMMA RecordsStep ==
  ASSUME Types, HistoryTypes, Records, Answering, [Next]_vars
  PROVE  Records'
<1>1. CASE SupStep
  BY <1>1, RecordsLoads, RecordsReturns, RecordsDials, RecordsGoesOn, RecordsRejoins,
     RecordsConnection DEF SupStep
<1>2. ASSUME NEW c \in Cmd, CmdStep(c)
      PROVE  Records'
  BY <1>2, RecordsBegins, RecordsAsks, RecordsParts, RecordsCalls, RecordsEnds, RecordsReplies,
     RecordsSaves DEF CmdStep
<1> QED BY <1>1, <1>2, RecordsConnection, RecordsNothing, NextCases

LEMMA RecordsAtFirst ==
  ASSUME Init
  PROVE  Records
BY DEF Init, ConnInit, NoLink, Records, Apart, Unpublished, Dialled, Recorded, Connected

(* At rest the client is in the channels of its record, as far as the server
   lets it in and but for the channels in doubt (RosterIsMembership), for
   any number of commands that overlap, are killed, or meet the rejoin and
   links that drop (ChatService.Join, Part, supervise). *)
THEOREM RosterIsTrue == Spec => []RosterIsMembership
<1>1. ASSUME Types, Records
      PROVE  RosterIsMembership
  <2> SUFFICES ASSUME AtRest
               PROVE  member \ doubtful = (roster \ refused) \ doubtful
    BY DEF RosterIsMembership
  <2>1. /\ Connected /\ Todo = {} /\ \A c \in Cmd, x \in Channel : ~BusyBy(c, x)
        /\ member \subseteq Channel /\ roster \subseteq Channel
    BY <1>1 DEF AtRest, Connected, Todo, BusyBy, Types, NameTypes, SupTypes
  <2>2. \A x \in Channel \ doubtful : Right(x)
    BY <1>1, <2>1 DEF Records, Recorded
  <2>3. \A x \in Channel \ doubtful : (x \in member => x \in roster)
                                      /\ (x \in roster => x \in member \cup refused)
    BY <2>1, <2>2 DEF Right
  <2> QED BY <1>1, <2>1, <2>3 DEF Records, Apart
<1>2. Spec => [](Types /\ HistoryTypes)
  BY Typed
<1>3. Types /\ HistoryTypes /\ Records /\ Answering /\ [Next]_vars => Records'
  BY RecordsStep
<1>4. Init => Records
  BY RecordsAtFirst
<1>5. Spec => []Records
  BY <1>2, <1>3, <1>4, AnsweringAlways, PTL DEF Spec
<1>6. Types /\ Records => RosterIsMembership
  BY <1>1
<1> QED BY <1>2, <1>5, <1>6, PTL
=============================================================================
