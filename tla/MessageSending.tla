--------------------------- MODULE MessageSending ---------------------------
(***************************************************************************)
(* Sending a text: message send and message dm (ChatService.Send and DM)   *)
(* split it into lines and pieces and hand them to the supervisor, one     *)
(* control request at a time; the supervisor writes each as an IRC line,   *)
(* the server relays it, and the peer's client parses it.  A command gives *)
(* up on a request that is late, or is killed, while the handler goes on;  *)
(* the link drops, and is broken for a while before the supervisor knows.  *)
(*                                                                         *)
(* A text is a sequence of classes of runes.  White space other than the   *)
(* space and the newline is left out, so are the prefix of a line and the  *)
(* recovery of the session that comes first (SessionLifecycle).            *)
(***************************************************************************)
EXTENDS Integers, Sequences, SequencesExt

CONSTANTS
  Texts,    \* what each command may send: sequences of runes
  Limit,    \* bytes of a piece (400)
  Sends,    \* bound: the commands, numbered
  MaxFaults \* bound: requests given up, links dropped, messages refused

Bytes == [letter |-> 1, space |-> 1, colon |-> 1, newline |-> 1, wide |-> 3]

Rune == DOMAIN Bytes

ASSUME TextsAssumption == \A k \in Sends : Texts[k] \subseteq Seq(Rune)
ASSUME BoundsAssumption == Limit \in Nat /\ Sends \subseteq Nat /\ MaxFaults \in Nat
ASSUME LimitAssumption == \A r \in Rune : Bytes[r] <= Limit

VARIABLES
  send,   \* the commands
  asked,  \* control requests with their handlers: the piece and the answer
  link,   \* the supervisor's connection: "up", "broken", or "none"
  wire,   \* lines written to the connection that the server has not taken
  got,    \* what the peer's callback received
  lost,   \* auxiliary: sends of which the link or the server lost a piece
  faults  \* bound counter

vars == <<send, asked, link, wire, got, lost, faults>>

----------------------------------------------------------------------------
(* The text. *)

(* strings.Split *)
SplitAt(s, sep) ==
  FoldLeft(LAMBDA parts, x : IF x = sep THEN Append(parts, <<>>)
                             ELSE [parts EXCEPT ![Len(parts)] = Append(@, x)],
           << <<>> >>, s)

Blank(line) == ToSet(line) \subseteq {"space"}

NoPiece == [out |-> <<>>, current |-> <<>>, size |-> 0]

(* Slip: the rune that does not fit is not carried over. *)
PutDropsOverflow(p, r) ==
  IF p.size + Bytes[r] > Limit /\ p.current # <<>>
    THEN [out |-> Append(p.out, p.current), current |-> <<>>, size |-> 0]
    ELSE [p EXCEPT !.current = Append(@, r), !.size = @ + Bytes[r]]

(* One rune of a line: a piece that has no room for it is finished first. *)
Put(p, r) ==
  IF p.size + Bytes[r] > Limit /\ p.current # <<>>
    THEN [out |-> Append(p.out, p.current), current |-> <<r>>, size |-> Bytes[r]]
    ELSE [p EXCEPT !.current = Append(@, r), !.size = @ + Bytes[r]]

LinePieces(line) ==
  LET p == FoldLeft(Put, NoPiece, line)
  IN  IF p.current # <<>> THEN Append(p.out, p.current) ELSE p.out

splitUTF8(text) ==
  FoldLeft(LAMBDA out, line : IF Blank(line) THEN out ELSE out \o LinePieces(line),
           <<>>, SplitAt(text, "newline"))

(* The line of a message; the command and the target are words. *)
FormatLine(text) ==
  <<"PRIVMSG", "space", "target", "space">>
    \o (IF text = <<>> \/ "space" \in ToSet(text) \/ text[1] = "colon"
          THEN <<"colon">> ELSE <<>>)
    \o text

(* strings.Fields *)
Fields(s) ==
  FoldLeft(LAMBDA words, w : IF w = <<>> THEN words ELSE Append(words, w),
           <<>>, SplitAt(s, "space"))

(* The parameters of a line: what follows the first " :" is one. *)
ParseLine(line) ==
  LET cuts == {i \in 1..(Len(line) - 1) : line[i] = "space" /\ line[i + 1] = "colon"}
      cut  == CHOOSE i \in cuts : \A j \in cuts : i <= j
  IN  IF cuts = {} THEN Tail(Fields(line))
      ELSE Append(Tail(Fields(SubSeq(line, 1, cut - 1))), SubSeq(line, cut + 2, Len(line)))

----------------------------------------------------------------------------
Idle == [at |-> "idle", text |-> <<>>, parts |-> <<>>, next |-> 1]

Init ==
  /\ send = [k \in Sends |-> Idle]
  /\ asked = {} /\ link = "up" /\ wire = <<>> /\ got = <<>>
  /\ lost = {} /\ faults = 0

Fault == faults < MaxFaults /\ faults' = faults + 1

(* ChatService.Send, ChatService.DM. *)
Begins(k, text) ==
  /\ send[k].at = "idle"
  /\ send' = [send EXCEPT ![k].text = text, ![k].parts = splitUTF8(text),
                          ![k].at = IF splitUTF8(text) = <<>> THEN "failed" ELSE "ready"]
  /\ UNCHANGED <<asked, link, wire, got, lost, faults>>

(* daemon.Request: the server of the control socket handles each request in a
   goroutine of its own. *)
Requests(k) ==
  /\ send[k].at = "ready"
  /\ send' = [send EXCEPT ![k].at = "waiting"]
  /\ asked' = asked \cup {[by |-> k, piece |-> send[k].next, answer |-> "none"]}
  /\ UNCHANGED <<link, wire, got, lost, faults>>

(* Nobody accepts on the control socket. *)
RequestFails(k) ==
  /\ send[k].at = "ready" /\ Fault
  /\ send' = [send EXCEPT ![k].at = "failed"]
  /\ UNCHANGED <<asked, link, wire, got, lost>>

(* The answer to the piece arrives; the next piece follows an OK. *)
Receives(k, h) ==
  /\ send[k].at = "waiting" /\ h.by = k /\ h.answer # "none"
  /\ asked' = asked \ {h}
  /\ send' = [send EXCEPT
       ![k].next = @ + 1,
       ![k].at = IF h.answer = "error" THEN "failed"
                 ELSE IF send[k].next = Len(send[k].parts) THEN "ok" ELSE "ready"]
  /\ UNCHANGED <<link, wire, got, lost, faults>>

(* Slip: a request that is late is repeated. *)
GivesUpRetries(k) ==
  /\ send[k].at = "waiting" /\ Fault
  /\ send' = [send EXCEPT ![k].at = "ready"]
  /\ UNCHANGED <<asked, link, wire, got, lost>>

(* responseDeadline, the end of the context, or of the command. *)
GivesUp(k) ==
  /\ send[k].at = "waiting" /\ Fault
  /\ send' = [send EXCEPT ![k].at = "failed"]
  /\ UNCHANGED <<asked, link, wire, got, lost>>

----------------------------------------------------------------------------
(* The handler (controlHandler.privmsg).  The answer to a command that gave
   up reaches nobody. *)
Answer(h, answer) ==
  /\ h.answer = "none"
  /\ asked' = (asked \ {h}) \cup
       IF send[h.by].at = "waiting" THEN {[h EXCEPT !.answer = answer]} ELSE {}

Piece(h) == send[h.by].parts[h.piece]

Writes(h) ==
  /\ link = "up" /\ Answer(h, "ok")
  /\ wire' = Append(wire, [by |-> h.by, piece |-> h.piece, line |-> FormatLine(Piece(h))])
  /\ UNCHANGED <<send, link, got, lost, faults>>

(* A connection that broke may still take what is written to it. *)
WritesInVain(h) ==
  /\ link = "broken" /\ Answer(h, "ok")
  /\ lost' = lost \cup {h.by}
  /\ UNCHANGED <<send, link, wire, got, faults>>

(* A handler may also hold the connection before this one. *)
WriteFails(h) ==
  /\ Answer(h, "error")
  /\ (link # "up" /\ faults' = faults) \/ (link = "up" /\ Fault)
  /\ UNCHANGED <<send, link, wire, got, lost>>

(* The server does not deliver the message; only the missing target of a
   direct message is heard of, and only in time (PrivmsgDM). *)
Declined(h) ==
  /\ link = "up" /\ Fault
  /\ \/ Answer(h, "ok") \/ Answer(h, "error")
  /\ lost' = lost \cup {h.by}
  /\ UNCHANGED <<send, link, wire, got>>

----------------------------------------------------------------------------
(* The connection, the server and the peer. *)

LinkBreaks ==
  /\ link = "up" /\ Fault
  /\ link' = "broken" /\ wire' = <<>>
  /\ lost' = lost \cup {l.by : l \in ToSet(wire)}
  /\ UNCHANGED <<send, asked, got>>

LinkDropped ==
  /\ link = "broken" /\ link' = "none"
  /\ UNCHANGED <<send, asked, wire, got, lost, faults>>

Reconnects ==
  /\ link = "none" /\ link' = "up"
  /\ UNCHANGED <<send, asked, wire, got, lost, faults>>

(* The server passes a line on as it came, or with a trailing parameter. *)
Relayed(line) ==
  LET params == ParseLine(line)
  IN  {line, <<"PRIVMSG", "space">> \o params[1] \o <<"space", "colon">> \o params[Len(params)]}

(* Conn.handle, at the peer: the last parameter is the text. *)
Heard(line) == LET params == ParseLine(line) IN params[Len(params)]

Relays ==
  /\ wire # <<>> /\ wire' = Tail(wire)
  /\ \E line \in Relayed(wire[1].line) :
       got' = Append(got, [by |-> wire[1].by, piece |-> wire[1].piece, text |-> Heard(line)])
  /\ UNCHANGED <<send, asked, link, lost, faults>>

----------------------------------------------------------------------------
CommandStep(k) ==
  \/ \E text \in Texts[k] : Begins(k, text)
  \/ Requests(k) \/ RequestFails(k) \/ GivesUp(k)
  \/ \E h \in asked : Receives(k, h)

HandlerStep(h) == Writes(h) \/ WritesInVain(h) \/ WriteFails(h) \/ Declined(h)

Next ==
  \/ \E k \in Sends : CommandStep(k)
  \/ \E h \in asked : HandlerStep(h)
  \/ LinkBreaks \/ LinkDropped \/ Reconnects \/ Relays

Spec == Init /\ [][Next]_vars

----------------------------------------------------------------------------
(* Properties. *)

(* What the peer has, or will have unless the link breaks. *)
Passed ==
  [i \in 1..(Len(got) + Len(wire)) |->
     IF i <= Len(got) THEN got[i]
     ELSE LET l == wire[i - Len(got)]
          IN  [by |-> l.by, piece |-> l.piece, text |-> Heard(l.line)]]

(* ReceivedInOrder: whatever commands overlap or give up and links drop, the
   peer hears the pieces of a text in their order, each at most once, and
   without a gap unless the link or the server lost one (Send, DM, Request). *)
ReceivedInOrder ==
  LET p == Passed
  IN  \A i \in DOMAIN p :
        /\ \A j \in DOMAIN p : j < i /\ p[j].by = p[i].by => p[j].piece < p[i].piece
        /\ \/ p[i].by \in lost \/ p[i].piece = 1
           \/ \E j \in DOMAIN p : j < i /\ p[j].by = p[i].by /\ p[j].piece = p[i].piece - 1

(* Rune i of the text is on a line that is not blank. *)
Worded(text, i) ==
  /\ text[i] # "newline"
  /\ \E j \in DOMAIN text :
       /\ text[j] \notin {"space", "newline"}
       /\ \A n \in DOMAIN text : (i < n /\ n < j) \/ (j < n /\ n < i) => text[n] # "newline"

(* What a text says: the runes of its lines that are not blank. *)
Said(text) ==
  FoldLeft(LAMBDA s, i : IF Worded(text, i) THEN Append(s, text[i]) ELSE s,
           <<>>, [i \in DOMAIN text |-> i])

(* What the peer hears of k. *)
HeardOf(k) == FoldLeft(LAMBDA s, g : IF g.by = k THEN s \o g.text ELSE s, <<>>, Passed)

Size(piece) == FoldLeft(LAMBDA n, r : n + Bytes[r], 0, piece)

(* TextsAreWhole: every piece is heard letter by letter, is not empty and
   within the limit; and of a text whose send succeeded the peer hears every
   rune of every line that is not blank, in order and nothing else, unless the
   link or the server lost a piece (splitUTF8, Send, DM, FormatLine,
   ParseLine). *)
TextsAreWhole ==
  /\ \A i \in DOMAIN Passed :
       LET g == Passed[i]
       IN  g.text = send[g.by].parts[g.piece] /\ g.text # <<>> /\ Size(g.text) <= Limit
  /\ \A k \in Sends :
       send[k].at = "ok" /\ k \notin lost => HeardOf(k) = Said(send[k].text)
=============================================================================
