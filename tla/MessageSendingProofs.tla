------------------------ MODULE MessageSendingProofs ------------------------
(***************************************************************************)
(* Proofs about MessageSending: what the peer hears of a text, for all     *)
(* texts, limits, numbers of commands and faults.                          *)
(*                                                                         *)
(* The order.  A command has one request at a time, for the piece it is    *)
(* at (OneRequest), and does not go on after it gave up, so what is on its *)
(* way is behind what may still be written (Behind).  A command that goes  *)
(* on, or succeeded, has an answer for every earlier piece, and an answer  *)
(* without loss means a line (Complete).  Hence a line that is written     *)
(* follows every earlier piece (Increasing, Gapless).                      *)
(*                                                                         *)
(* The text.  Splitting and parsing are folds, and a fold is defined by a  *)
(* CHOOSE; the second part finds what each does to one more element        *)
(* (SplitFacts to HeardInFacts) by induction over a set of numbers or of   *)
(* sequences.  Then the pieces of a text say together what the text says   *)
(* (SaidIsSplit), the parser hears in a line the text it was made of       *)
(* (HeardIsText), and pieces heard once and in order are the text          *)
(* (Recited).  The third part carries that through the steps (Spelled).    *)
(***************************************************************************)
EXTENDS MessageSending, SequenceTheorems, WellFoundedInduction, TLAPS

----------------------------------------------------------------------------
(* Where a mark is: what the peer has, then what is on the wire. *)
Count == Len(got) + Len(wire)
By(i) == IF i <= Len(got) THEN got[i].by ELSE wire[i - Len(got)].by
Nth(i) == IF i <= Len(got) THEN got[i].piece ELSE wire[i - Len(got)].piece

Has(k, n) == \E i \in 1..Count : By(i) = k /\ Nth(i) = n

(* A request is for the piece its command is at, and the only one of it. *)
OneRequest ==
  /\ \A h \in asked : /\ send[h.by].at = "waiting" \/ send[h.by].at = "failed"
                      /\ h.piece = send[h.by].next
  /\ \A g, h \in asked : g.by = h.by => g = h
  /\ \A k \in Sends : send[k].at = "idle" => send[k].next = 1

(* What is on its way is behind what is still to be asked for or written. *)
Behind == \A i \in 1..Count :
  /\ send[By(i)].at # "idle" /\ Nth(i) <= send[By(i)].next
  /\ send[By(i)].at = "ready" => Nth(i) < send[By(i)].next
  /\ \A h \in asked : h.by = By(i) /\ h.answer = "none" => Nth(i) < h.piece

(* A piece may follow, or all were answered. *)
GoesOn(k) == \/ send[k].at = "ready" \/ send[k].at = "waiting" \/ send[k].at = "ok"
             \/ \E h \in asked : h.by = k /\ h.answer = "none"

(* Unless a command gave up, every piece it is past is on its way. *)
Complete ==
  /\ \A k \in Sends : k \notin lost /\ GoesOn(k) =>
       \A n \in Nat : 1 <= n /\ n < send[k].next => Has(k, n)
  /\ \A h \in asked : h.answer = "ok" /\ h.by \notin lost => Has(h.by, h.piece)

Increasing == \A i, j \in 1..Count : j < i /\ By(j) = By(i) => Nth(j) < Nth(i)

Gapless == \A i \in 1..Count :
  \/ By(i) \in lost \/ Nth(i) = 1
  \/ \E j \in 1..Count : j < i /\ By(j) = By(i) /\ Nth(j) = Nth(i) - 1

----------------------------------------------------------------------------
(* The types. *)

At == {"idle", "ready", "waiting", "ok", "failed"}
Words == {<<>>} \cup UNION {Texts[k] : k \in Sends}
Split == {<<>>} \cup {splitUTF8(text) : text \in Words}
SendRecord == [at : At, text : Words, parts : Split, next : Nat \ {0}]

Asked == [by : Sends, piece : Nat \ {0}, answer : {"none", "ok", "error"}]

Lines == {FormatLine(parts[n]) : parts \in Split, n \in Nat}
Heards == {Heard(line) : line \in UNION {Relayed(l) : l \in Lines}}
WireLine == [by : Sends, piece : Nat \ {0}, line : Lines]
GotLine == [by : Sends, piece : Nat \ {0}, text : Heards]

Types == /\ send \in [Sends -> SendRecord] /\ asked \subseteq Asked
         /\ wire \in Seq(WireLine) /\ got \in Seq(GotLine)

Inv == Types /\ OneRequest /\ Behind /\ Complete /\ Increasing /\ Gapless

----------------------------------------------------------------------------
(* What the steps do to the commands, the requests and the marks. *)

Others(k) == \A j \in Sends : j # k => send'[j] = send[j]

(* The command k comes to a place. *)
Comes(k, at) ==
  /\ send' \in [Sends -> SendRecord]
  /\ send'[k].at = at /\ send'[k].next = send[k].next /\ Others(k)

(* Its text stays. *)
Stays(k) == send'[k].text = send[k].text /\ send'[k].parts = send[k].parts

LEMMA Coming ==
  ASSUME Types, NEW k \in Sends, NEW at \in At, send' = [send EXCEPT ![k].at = at]
  PROVE  Comes(k, at) /\ Stays(k)
<1> DEFINE r == [send[k] EXCEPT !.at = at]
<1>1. send[k] \in SendRecord
  BY DEF Types
<1>2. /\ r \in SendRecord /\ r.at = at /\ r.next = send[k].next
      /\ r.text = send[k].text /\ r.parts = send[k].parts
  BY <1>1 DEF SendRecord
<1>3. send' = [send EXCEPT ![k] = r]
  OBVIOUS
<1> HIDE DEF r
<1> QED BY <1>2, <1>3 DEF Types, Comes, Stays, Others

LEMMA Beginning ==
  ASSUME Types, NEW k \in Sends, NEW text \in Texts[k], Begins(k, text)
  PROVE  /\ \E at \in {"ready", "failed"} : Comes(k, at)
         /\ send'[k].text = text /\ send'[k].parts = splitUTF8(text)
         /\ send'[k].at = "ready" => send'[k].parts # <<>>
<1> DEFINE parts == splitUTF8(text)
           at == IF parts = <<>> THEN "failed" ELSE "ready"
           r == [send[k] EXCEPT !.text = text, !.parts = parts, !.at = at]
<1>1. send[k] \in SendRecord /\ text \in Words /\ parts \in Split /\ at \in At
  BY DEF Types, Words, Split, At
<1>2. send' = [send EXCEPT ![k].text = text, ![k].parts = parts, ![k].at = at]
  BY DEF Begins
<1>a. parts = splitUTF8(text)
  OBVIOUS
<1> HIDE DEF parts
<1>3. (at = "ready" /\ parts # <<>>) \/ at = "failed"
  OBVIOUS
<1> HIDE DEF at
<1>4. r \in SendRecord /\ r.at = at /\ r.next = send[k].next /\ r.text = text /\ r.parts = parts
  BY <1>1 DEF SendRecord
<1>5. send' = [send EXCEPT ![k] = r]
  BY <1>2 DEF Types
<1> HIDE DEF r
<1>6. Comes(k, at) /\ send'[k].at = at /\ send'[k].text = text /\ send'[k].parts = parts
  BY <1>4, <1>5 DEF Types, Comes, Others
<1> QED BY <1>3, <1>6, <1>a

LEMMA Receiving ==
  ASSUME Types, NEW k \in Sends, NEW h \in asked, Receives(k, h)
  PROVE  /\ send' \in [Sends -> SendRecord] /\ Others(k) /\ send'[k].next = send[k].next + 1
         /\ Stays(k)
         /\ \/ send'[k].at = "failed"
            \/ h.answer = "ok" /\ IF send[k].next = Len(send[k].parts) THEN send'[k].at = "ok"
                                  ELSE send'[k].at = "ready"
         /\ send[k].at = "waiting" /\ h.by = k /\ h.answer # "none" /\ asked' = asked \ {h}
         /\ UNCHANGED <<wire, got, lost>>
<1> DEFINE at == IF h.answer = "error" THEN "failed"
                 ELSE IF send[k].next = Len(send[k].parts) THEN "ok" ELSE "ready"
           r == [send[k] EXCEPT !.next = @ + 1, !.at = at]
<1>1. send[k] \in SendRecord /\ at \in At /\ h \in Asked
  BY DEF Types, At
<1>2. send' = [send EXCEPT ![k].next = @ + 1, ![k].at = at]
  BY DEF Receives
<1>3. h.answer # "none"
  BY DEF Receives
<1>4. \/ at = "failed"
      \/ h.answer = "ok" /\ IF send[k].next = Len(send[k].parts) THEN at = "ok" ELSE at = "ready"
  BY <1>1, <1>3 DEF Asked
<1> HIDE DEF at
<1> DEFINE next == send[k].next + 1
<1>a. next \in Nat \ {0}
  BY <1>1 DEF SendRecord
<1>b. r = [send[k] EXCEPT !.next = next, !.at = at]
  OBVIOUS
<1>c. send' = [send EXCEPT ![k].next = next, ![k].at = at]
  BY <1>2 DEF Types
<1> HIDE DEF next
<1> HIDE DEF r
<1>5. /\ r \in SendRecord /\ r.at = at /\ r.next = next
      /\ r.text = send[k].text /\ r.parts = send[k].parts
  BY <1>1, <1>a, <1>b DEF SendRecord
<1>6. send' = [send EXCEPT ![k] = r]
  BY <1>b, <1>c DEF Types
<1>7. send' \in [Sends -> SendRecord] /\ Others(k) /\ send'[k] = r
  BY <1>5, <1>6 DEF Types, Others
<1> QED BY <1>4, <1>5, <1>7 DEF Receives, Stays, next

(* The request h is answered, or was given up and ends. *)
Ends(h, answer) ==
  /\ h.answer = "none" /\ asked' \subseteq Asked /\ h \notin asked'
  /\ \A g \in asked' : g \in asked \/ (g.by = h.by /\ g.piece = h.piece /\ g.answer = answer)
  /\ \A g \in asked : g # h => g \in asked'
  /\ \A g \in asked' : g \notin asked => send[h.by].at = "waiting"
  /\ \A f, g \in asked' : f \notin asked /\ g \notin asked => f = g

LEMMA Answering ==
  ASSUME Types, NEW h \in asked, NEW answer \in {"ok", "error"}, Answer(h, answer)
  PROVE  Ends(h, answer)
<1> DEFINE g == [h EXCEPT !.answer = answer]
<1>1. h \in Asked /\ h.answer = "none"
  BY DEF Types, Answer
<1>2. g \in Asked /\ g.by = h.by /\ g.piece = h.piece /\ g.answer = answer
  BY <1>1 DEF Asked
<1>3. asked' = (asked \ {h}) \cup IF send[h.by].at = "waiting" THEN {g} ELSE {}
  BY DEF Answer
<1> HIDE DEF g
<1>4. g # h
  BY <1>1, <1>2
<1>5. asked' \subseteq Asked
  BY <1>2, <1>3 DEF Types
<1> QED BY <1>1, <1>2, <1>3, <1>4, <1>5 DEF Ends

(* The marks stay. *)
SameMarks == Count' = Count /\ \A i \in 1..Count : By(i)' = By(i) /\ Nth(i)' = Nth(i)

LEMMA MarksStay ==
  ASSUME UNCHANGED got, UNCHANGED wire
  PROVE  SameMarks
BY DEF SameMarks, Count, By, Nth

LEMMA MarkTypes ==
  ASSUME Types
  PROVE  /\ Count \in Nat /\ \A i \in 1..Count : By(i) \in Sends /\ Nth(i) \in Nat \ {0}
<1>1. Len(got) \in Nat /\ Len(wire) \in Nat
  BY DEF Types
<1>2. Count \in Nat
  BY <1>1 DEF Count
<1>3. ASSUME NEW i \in 1..Count
      PROVE  By(i) \in Sends /\ Nth(i) \in Nat \ {0}
  <2>1. CASE i <= Len(got)
    <3>1. i \in 1..Len(got)
      BY <1>1, <1>2, <1>3, <2>1
    <3>2. got[i] \in GotLine
      BY <3>1 DEF Types
    <3> QED BY <2>1, <3>2 DEF By, Nth, GotLine
  <2>2. CASE ~(i <= Len(got))
    <3>1. i - Len(got) \in 1..Len(wire)
      BY <1>1, <1>3, <2>2 DEF Count
    <3>2. wire[i - Len(got)] \in WireLine
      BY <3>1 DEF Types
    <3> QED BY <2>2, <3>2 DEF By, Nth, WireLine
  <2> QED BY <2>1, <2>2
<1> QED BY <1>2, <1>3

(* A line that is written is the last mark. *)
Grows(n, k, piece) ==
  /\ n = Count + 1 /\ Count' = n /\ By(n)' = k /\ Nth(n)' = piece
  /\ \A i \in 1..Count : By(i)' = By(i) /\ Nth(i)' = Nth(i)

LEMMA MarkWritten ==
  ASSUME Types, NEW l \in WireLine, wire' = Append(wire, l), UNCHANGED got
  PROVE  /\ \E n \in Nat : Grows(n, l.by, l.piece)
         /\ wire' \in Seq(WireLine)
<1>1. /\ Len(got) \in Nat /\ Len(wire) \in Nat /\ Len(wire') = Len(wire) + 1
      /\ wire'[Len(wire) + 1] = l /\ \A i \in 1..Len(wire) : wire'[i] = wire[i]
      /\ wire' \in Seq(WireLine)
  BY DEF Types
<1>2. Count' = Count + 1 /\ Count \in Nat
  BY <1>1 DEF Count
<1>3. PICK n \in Nat : n = Count + 1
  BY <1>2
<1>4. By(n)' = l.by /\ Nth(n)' = l.piece
  <2>1. ~(n <= Len(got)) /\ n - Len(got) = Len(wire) + 1
    BY <1>1, <1>3 DEF Count
  <2>2. wire'[n - Len(got)] = l
    BY <1>1, <2>1
  <2> QED BY <2>1, <2>2 DEF By, Nth
<1>5. ASSUME NEW i \in 1..Count
      PROVE  By(i)' = By(i) /\ Nth(i)' = Nth(i)
  <2>1. CASE i <= Len(got)
    BY <2>1 DEF By, Nth
  <2>2. CASE ~(i <= Len(got))
    <3>1. i - Len(got) \in 1..Len(wire)
      BY <1>1, <1>5, <2>2 DEF Count
    <3>2. wire'[i - Len(got)] = wire[i - Len(got)]
      BY <1>1, <3>1
    <3> QED BY <2>2, <3>2 DEF By, Nth
  <2> QED BY <2>1, <2>2
<1> QED BY <1>1, <1>2, <1>3, <1>4, <1>5 DEF Grows

(* A line that is relayed is the same mark at the peer. *)
LEMMA MarkRelayed ==
  ASSUME Types, wire # <<>>, wire' = Tail(wire), NEW g \in GotLine, got' = Append(got, g),
         g.by = wire[1].by, g.piece = wire[1].piece
  PROVE  SameMarks /\ wire' \in Seq(WireLine) /\ got' \in Seq(GotLine)
<1>1. /\ Len(got) \in Nat /\ Len(wire) \in Nat /\ Len(wire) >= 1
      /\ Len(wire') = Len(wire) - 1 /\ Len(got') = Len(got) + 1
      /\ wire' \in Seq(WireLine) /\ got' \in Seq(GotLine)
  BY DEF Types
<1>2. /\ \A i \in 1..Len(got) : got'[i] = got[i]
      /\ got'[Len(got) + 1] = g
  BY DEF Types
<1>3. \A i \in 1..(Len(wire) - 1) : wire'[i] = wire[i + 1]
  BY <1>1 DEF Types
<1>4. Count' = Count /\ Count \in Nat
  BY <1>1 DEF Count
<1>5. ASSUME NEW i \in 1..Count
      PROVE  By(i)' = By(i) /\ Nth(i)' = Nth(i)
  <2>1. CASE i <= Len(got)
    <3>1. i <= Len(got') /\ got'[i] = got[i]
      BY <1>1, <1>2, <1>4, <1>5, <2>1
    <3> QED BY <2>1, <3>1 DEF By, Nth
  <2>2. CASE i = Len(got) + 1
    <3>1. i <= Len(got') /\ got'[i] = g /\ ~(i <= Len(got)) /\ i - Len(got) = 1
      BY <1>1, <1>2, <1>5, <2>2
    <3>2. wire[i - Len(got)] = wire[1]
      BY <3>1
    <3> QED BY <3>1, <3>2 DEF By, Nth
  <2>3. CASE i > Len(got) + 1
    <3>1. /\ ~(i <= Len(got')) /\ ~(i <= Len(got))
          /\ i - Len(got') \in 1..(Len(wire) - 1) /\ i - Len(got) = (i - Len(got')) + 1
      BY <1>1, <1>5, <2>3 DEF Count
    <3>2. wire'[i - Len(got')] = wire[i - Len(got)]
      BY <1>3, <3>1
    <3> QED BY <3>1, <3>2 DEF By, Nth
  <2> QED BY <1>1, <1>4, <1>5, <2>1, <2>2, <2>3
<1> QED BY <1>1, <1>4, <1>5 DEF SameMarks

(* The marks on the wire go with the connection. *)
LEMMA MarksDropped ==
  ASSUME Types, UNCHANGED got, wire' = <<>>, {l.by : l \in ToSet(wire)} \subseteq lost'
  PROVE  /\ Count' \in Nat /\ Count' <= Count
         /\ \A i \in 1..Count' : By(i)' = By(i) /\ Nth(i)' = Nth(i)
         /\ \A i \in 1..Count : i > Count' => By(i) \in lost'
<1>1. Len(got) \in Nat /\ Len(wire) \in Nat /\ Len(wire') = 0 /\ Len(got') = Len(got)
  BY DEF Types
<1>2. Count' = Len(got) /\ Count \in Nat
  BY <1>1 DEF Count
<1>3. ASSUME NEW i \in 1..Count'
      PROVE  By(i)' = By(i) /\ Nth(i)' = Nth(i)
  <2>1. i <= Len(got)
    BY <1>1, <1>2, <1>3
  <2> QED BY <2>1 DEF By, Nth
<1>4. ASSUME NEW i \in 1..Count, i > Count'
      PROVE  By(i) \in lost'
  <2>1. ~(i <= Len(got)) /\ i - Len(got) \in 1..Len(wire)
    BY <1>1, <1>2, <1>4 DEF Count
  <2>2. DOMAIN wire = 1..Len(wire)
    BY DEF Types
  <2> DEFINE m == i - Len(got)
  <2>3. m \in DOMAIN wire
    BY <2>1, <2>2
  <2>4. wire[m] \in ToSet(wire)
    BY <2>3 DEF ToSet
  <2>5. wire[m].by \in {l.by : l \in ToSet(wire)}
    BY <2>4
  <2> QED BY <2>1, <2>5 DEF By
<1> QED BY <1>1, <1>2, <1>3, <1>4 DEF Count

----------------------------------------------------------------------------
(* How the parts of the invariant are kept. *)

Persists == \A k \in Sends : \A n \in Nat : Has(k, n) /\ k \notin lost' => Has(k, n)'

LEMMA SamePersists ==
  ASSUME SameMarks
  PROVE  Persists
BY DEF SameMarks, Persists, Has

LEMMA GrowsPersists ==
  ASSUME Types, NEW m \in Nat, NEW j, NEW piece, Grows(m, j, piece)
  PROVE  Persists
<1>1. Count \in Nat /\ Count' = m /\ m = Count + 1
  BY MarkTypes DEF Grows
<1>2. \A i \in 1..Count : i \in 1..Count'
  BY <1>1
<1>3. \A i \in 1..Count : By(i)' = By(i) /\ Nth(i)' = Nth(i)
  BY DEF Grows
<1> QED BY <1>2, <1>3 DEF Persists, Has

LEMMA BehindStays ==
  ASSUME Types, Behind, send' \in [Sends -> SendRecord],
         Count' \in Nat, Count' <= Count,
         \A i \in 1..Count' : By(i)' = By(i) /\ Nth(i)' = Nth(i),
         \A k \in Sends :
           \/ send'[k] = send[k]
           \/ send'[k].at # "idle" /\ send'[k].at # "ready" /\ send[k].next <= send'[k].next
           \/ send'[k].at = "ready" /\ send[k].next < send'[k].next
           \/ send[k].at = "idle" /\ send'[k].at # "idle",
         \A h \in asked' : h.answer = "none" =>
           h \in asked \/ (send[h.by].at = "ready" /\ h.piece = send[h.by].next)
  PROVE  Behind'
<1> SUFFICES ASSUME NEW i \in 1..Count'
             PROVE  /\ send'[By(i)'].at # "idle" /\ Nth(i)' <= send'[By(i)'].next
                    /\ send'[By(i)'].at = "ready" => Nth(i)' < send'[By(i)'].next
                    /\ \A h \in asked' : h.by = By(i)' /\ h.answer = "none" => Nth(i)' < h.piece
  BY DEF Behind
<1> DEFINE k == By(i)
           n == Nth(i)
<1>1. Count \in Nat /\ i \in 1..Count
  BY MarkTypes
<1>2. By(i)' = k /\ Nth(i)' = n
  OBVIOUS
<1>3. k \in Sends /\ n \in Nat \ {0}
  BY <1>1, MarkTypes
<1>4. /\ send[k].at # "idle" /\ n <= send[k].next
      /\ send[k].at = "ready" => n < send[k].next
      /\ \A h \in asked : h.by = k /\ h.answer = "none" => n < h.piece
  BY <1>1 DEF Behind
<1> HIDE DEF k, n
<1>5. send[k].next \in Nat /\ send'[k].next \in Nat
  BY <1>3 DEF Types, SendRecord
<1>6. /\ send'[k].at # "idle" /\ n <= send'[k].next
      /\ send'[k].at = "ready" => n < send'[k].next
  BY <1>3, <1>4, <1>5
<1>7. ASSUME NEW h \in asked', h.by = k, h.answer = "none"
      PROVE  n < h.piece
  BY <1>4, <1>7
<1> QED BY <1>2, <1>6, <1>7

LEMMA CompleteStays ==
  ASSUME Types, Complete, Persists, lost \subseteq lost', send' \in [Sends -> SendRecord],
         asked' \subseteq Asked,
         \A k \in Sends : k \notin lost' /\ GoesOn(k)' =>
           \/ GoesOn(k) /\ send'[k].next = send[k].next
           \/ GoesOn(k) /\ send'[k].next = send[k].next + 1 /\ Has(k, send[k].next)
           \/ send'[k].next = 1,
         \A h \in asked' : h.answer = "ok" /\ h.by \notin lost' =>
           h \in asked \/ Has(h.by, h.piece)'
  PROVE  Complete'
<1>1. ASSUME NEW k \in Sends, k \notin lost', GoesOn(k)', NEW n \in Nat, 1 <= n, n < send'[k].next
      PROVE  Has(k, n)'
  <2>1. send[k].next \in Nat /\ send'[k].next \in Nat /\ k \notin lost
    BY <1>1 DEF Types, SendRecord
  <2>2. GoesOn(k) /\ (n < send[k].next \/ (n = send[k].next /\ Has(k, send[k].next)))
    BY <1>1, <2>1
  <2>3. Has(k, n)
    BY <1>1, <2>1, <2>2 DEF Complete
  <2> QED BY <1>1, <2>3 DEF Persists
<1>2. ASSUME NEW h \in asked', h.answer = "ok", h.by \notin lost'
      PROVE  Has(h.by, h.piece)'
  <2>1. h.by \in Sends /\ h.piece \in Nat
    BY <1>2 DEF Asked
  <2>2. CASE h \in asked
    <3>1. Has(h.by, h.piece)
      BY <1>2, <2>2 DEF Complete
    <3> QED BY <1>2, <2>1, <3>1 DEF Persists
  <2> QED BY <1>2, <2>2
<1> QED BY <1>1, <1>2 DEF Complete

(* Marks that are the first of those there were. *)
LEMMA OrderStays ==
  ASSUME Types, Increasing, Gapless, lost \subseteq lost', Count' \in Nat, Count' <= Count,
         \A i \in 1..Count' : By(i)' = By(i) /\ Nth(i)' = Nth(i)
  PROVE  Increasing' /\ Gapless'
<1>1. Count \in Nat /\ \A i \in 1..Count' : i \in 1..Count
  BY MarkTypes
<1>2. Increasing'
  BY <1>1 DEF Increasing
<1>3. ASSUME NEW i \in 1..Count'
      PROVE  \/ By(i)' \in lost' \/ Nth(i)' = 1
             \/ \E j \in 1..Count' : j < i /\ By(j)' = By(i)' /\ Nth(j)' = Nth(i)' - 1
  <2>1. CASE By(i) \in lost \/ Nth(i) = 1
    BY <1>3, <2>1
  <2>2. CASE \E j \in 1..Count : j < i /\ By(j) = By(i) /\ Nth(j) = Nth(i) - 1
    <3>1. PICK j \in 1..Count : j < i /\ By(j) = By(i) /\ Nth(j) = Nth(i) - 1
      BY <2>2
    <3>2. j \in 1..Count'
      BY <1>1, <1>3, <3>1
    <3> QED BY <1>3, <3>1, <3>2
  <2> QED BY <1>1, <1>3, <2>1, <2>2 DEF Gapless
<1> QED BY <1>2, <1>3 DEF Gapless

(* A line follows what is behind it. *)
LEMMA OrderGrows ==
  ASSUME Types, Increasing, Gapless, UNCHANGED lost,
         NEW m \in Nat, NEW k \in Sends, NEW piece \in Nat \ {0}, Grows(m, k, piece),
         \A i \in 1..Count : By(i) = k => Nth(i) < piece,
         k \in lost \/ piece = 1 \/ Has(k, piece - 1)
  PROVE  Increasing' /\ Gapless'
<1>1. Count \in Nat /\ m = Count + 1 /\ Count' = m /\ By(m)' = k /\ Nth(m)' = piece
  BY MarkTypes DEF Grows
<1>2. \A i \in 1..Count : By(i)' = By(i) /\ Nth(i)' = Nth(i)
  BY DEF Grows
<1>3. \A i \in 1..Count' : i \in 1..Count \/ i = m
  BY <1>1
<1>4. ASSUME NEW i \in 1..Count', NEW j \in 1..Count', j < i, By(j)' = By(i)'
      PROVE  Nth(j)' < Nth(i)'
  <2>1. j \in 1..Count
    BY <1>1, <1>4
  <2>2. CASE i \in 1..Count
    BY <1>2, <1>4, <2>1, <2>2 DEF Increasing
  <2>3. CASE i = m
    BY <1>1, <1>2, <1>4, <2>1, <2>3
  <2> QED BY <1>3, <2>2, <2>3
<1>5. ASSUME NEW i \in 1..Count'
      PROVE  \/ By(i)' \in lost' \/ Nth(i)' = 1
             \/ \E j \in 1..Count' : j < i /\ By(j)' = By(i)' /\ Nth(j)' = Nth(i)' - 1
  <2>1. \A j \in 1..Count : j \in 1..Count' /\ j < m
    BY <1>1
  <2>2. CASE i \in 1..Count
    <3>1. \/ By(i) \in lost \/ Nth(i) = 1
          \/ \E j \in 1..Count : j < i /\ By(j) = By(i) /\ Nth(j) = Nth(i) - 1
      BY <2>2 DEF Gapless
    <3> QED BY <1>2, <2>1, <2>2, <3>1
  <2>3. CASE i = m
    <3>1. CASE Has(k, piece - 1)
      <4>1. PICK j \in 1..Count : By(j) = k /\ Nth(j) = piece - 1
        BY <3>1 DEF Has
      <4> QED BY <1>1, <1>2, <2>1, <2>3, <4>1
    <3> QED BY <1>1, <2>3, <3>1
  <2> QED BY <1>3, <2>2, <2>3
<1> QED BY <1>4, <1>5 DEF Increasing, Gapless

----------------------------------------------------------------------------
(* A step that leaves the marks: what is left to show of it. *)
LEMMA Quiet ==
  ASSUME Inv, SameMarks, lost \subseteq lost',
         send' \in [Sends -> SendRecord], asked' \subseteq Asked,
         wire' \in Seq(WireLine), got' \in Seq(GotLine), OneRequest',
         \A k \in Sends :
           \/ send'[k] = send[k]
           \/ send'[k].at # "idle" /\ send'[k].at # "ready" /\ send[k].next <= send'[k].next
           \/ send'[k].at = "ready" /\ send[k].next < send'[k].next
           \/ send[k].at = "idle" /\ send'[k].at # "idle",
         \A h \in asked' : h.answer = "none" =>
           h \in asked \/ (send[h.by].at = "ready" /\ h.piece = send[h.by].next),
         \A k \in Sends : k \notin lost' /\ GoesOn(k)' =>
           \/ GoesOn(k) /\ send'[k].next = send[k].next
           \/ GoesOn(k) /\ send'[k].next = send[k].next + 1 /\ Has(k, send[k].next)
           \/ send'[k].next = 1,
         \A h \in asked' : h.answer = "ok" /\ h.by \notin lost' =>
           h \in asked \/ Has(h.by, h.piece)'
  PROVE  Inv'
<1>1. Types /\ OneRequest /\ Behind /\ Complete /\ Increasing /\ Gapless
  BY DEF Inv
<1>2. /\ Count' \in Nat /\ Count' <= Count
      /\ \A i \in 1..Count' : By(i)' = By(i) /\ Nth(i)' = Nth(i)
  BY <1>1, MarkTypes DEF SameMarks
<1>3. Persists
  BY SamePersists
<1>4. Behind'
  BY <1>1, <1>2, BehindStays
<1>5. Complete'
  BY <1>1, <1>3, CompleteStays
<1>6. Increasing' /\ Gapless'
  BY <1>1, <1>2, OrderStays
<1> QED BY <1>4, <1>5, <1>6 DEF Inv, Types

LEMMA BeginsKeeps ==
  ASSUME Inv, NEW k \in Sends, NEW text \in Texts[k], Begins(k, text)
  PROVE  Inv'
<1>1. Types /\ OneRequest
  BY DEF Inv
<1>2. PICK at \in {"ready", "failed"} : Comes(k, at)
  BY <1>1, Beginning
<1>3. send[k].at = "idle" /\ send[k].next = 1
  BY <1>1 DEF OneRequest, Begins
<1>4. UNCHANGED <<asked, wire, got, lost>>
  BY DEF Begins
<1>5. /\ send' \in [Sends -> SendRecord] /\ send'[k].at = at /\ send'[k].next = 1
      /\ \A j \in Sends : j # k => send'[j] = send[j]
  BY <1>2, <1>3 DEF Comes, Others
<1>6. \A h \in asked : h.by \in Sends /\ h.by # k
  BY <1>1, <1>3 DEF OneRequest, Types, Asked
<1>7. OneRequest'
  BY <1>1, <1>2, <1>4, <1>5, <1>6 DEF OneRequest
<1>8. SameMarks
  BY <1>4, MarksStay
<1>9. \A j \in Sends : j # k => (GoesOn(j)' <=> GoesOn(j))
  BY <1>4, <1>5 DEF GoesOn
<1>10. \A j \in Sends : send'[j] = send[j] \/ (send[j].at = "idle" /\ send'[j].at # "idle")
  BY <1>2, <1>3, <1>5
<1>11. \A j \in Sends : GoesOn(j)' =>
         (GoesOn(j) /\ send'[j].next = send[j].next) \/ send'[j].next = 1
  BY <1>5, <1>9
<1> QED BY <1>1, <1>4, <1>5, <1>7, <1>8, <1>10, <1>11, Quiet DEF Types

LEMMA RequestsKeeps ==
  ASSUME Inv, NEW k \in Sends, Requests(k)
  PROVE  Inv'
<1> DEFINE q == [by |-> k, piece |-> send[k].next, answer |-> "none"]
<1>1. Types /\ OneRequest
  BY DEF Inv
<1>2. Comes(k, "waiting")
  BY <1>1, Coming DEF Requests, At
<1>3. send[k].at = "ready" /\ asked' = asked \cup {q} /\ UNCHANGED <<wire, got, lost>>
  BY DEF Requests
<1>4. send[k] \in SendRecord
  BY <1>1 DEF Types
<1>5. q \in Asked /\ q.by = k /\ q.piece = send[k].next /\ q.answer = "none"
  BY <1>4 DEF SendRecord, Asked
<1> HIDE DEF q
<1>6. /\ send' \in [Sends -> SendRecord]
      /\ send'[k].at = "waiting" /\ send'[k].next = send[k].next
      /\ \A j \in Sends : j # k => send'[j] = send[j]
  BY <1>2 DEF Comes, Others
<1>7. \A h \in asked : h \in Asked /\ h.by \in Sends /\ h.by # k
  BY <1>1, <1>3 DEF OneRequest, Types, Asked
<1>8. OneRequest'
  <2>1. \A h \in asked' : /\ send'[h.by].at = "waiting" \/ send'[h.by].at = "failed"
                          /\ h.piece = send'[h.by].next
    BY <1>1, <1>3, <1>5, <1>6, <1>7 DEF OneRequest
  <2>2. \A g, h \in asked' : g.by = h.by => g = h
    BY <1>1, <1>3, <1>5, <1>7 DEF OneRequest
  <2>3. \A j \in Sends : send'[j].at = "idle" => send'[j].next = 1
    BY <1>1, <1>6 DEF OneRequest
  <2> QED BY <2>1, <2>2, <2>3 DEF OneRequest
<1>9. SameMarks
  BY <1>3, MarksStay
<1>10. \A j \in Sends : GoesOn(j)' => GoesOn(j) /\ send'[j].next = send[j].next
  <2>1. GoesOn(k)
    BY <1>3 DEF GoesOn
  <2>2. ASSUME NEW j \in Sends, j # k, GoesOn(j)'
        PROVE  GoesOn(j)
    BY <1>3, <1>5, <1>6, <2>2 DEF GoesOn
  <2> QED BY <1>6, <2>1, <2>2
<1>11. \A h \in asked' : h \in asked
                         \/ (send[h.by].at = "ready" /\ h.piece = send[h.by].next /\ h.answer = "none")
  BY <1>3, <1>5
<1>12. \A j \in Sends :
         \/ send'[j] = send[j]
         \/ send'[j].at # "idle" /\ send'[j].at # "ready" /\ send[j].next <= send'[j].next
  <2>1. send[k].next <= send'[k].next
    BY <1>4, <1>6 DEF SendRecord
  <2> QED BY <1>6, <2>1
<1>13. asked' \subseteq Asked
  BY <1>3, <1>5, <1>7
<1> QED BY <1>1, <1>3, <1>6, <1>8, <1>9, <1>10, <1>11, <1>12, <1>13, Quiet DEF Types

(* A command that gives up, whatever becomes of its request. *)
LEMMA FailsKeeps ==
  ASSUME Inv, NEW k \in Sends, send[k].at = "ready" \/ send[k].at = "waiting",
         send' = [send EXCEPT ![k].at = "failed"], UNCHANGED <<asked, wire, got, lost>>
  PROVE  Inv'
<1>1. Types /\ OneRequest
  BY DEF Inv
<1>2. Comes(k, "failed")
  BY <1>1, Coming DEF At
<1>3. /\ send' \in [Sends -> SendRecord]
      /\ send'[k].at = "failed" /\ send'[k].next = send[k].next
      /\ \A j \in Sends : j # k => send'[j] = send[j]
  BY <1>2 DEF Comes, Others
<1>4. \A h \in asked : h.by \in Sends
  BY <1>1 DEF Types, Asked
<1>5. OneRequest'
  BY <1>1, <1>3, <1>4 DEF OneRequest
<1>6. SameMarks
  BY MarksStay
<1>7. \A j \in Sends : GoesOn(j)' => GoesOn(j) /\ send'[j].next = send[j].next
  BY <1>3 DEF GoesOn
<1>8. \A j \in Sends :
         \/ send'[j] = send[j]
         \/ send'[j].at # "idle" /\ send'[j].at # "ready" /\ send[j].next <= send'[j].next
  <2>1. send[k].next <= send'[k].next
    BY <1>1, <1>3 DEF Types, SendRecord
  <2> QED BY <1>3, <2>1
<1> QED BY <1>1, <1>3, <1>5, <1>6, <1>7, <1>8, Quiet DEF Types

LEMMA ReceivesKeeps ==
  ASSUME Inv, NEW k \in Sends, NEW h \in asked, Receives(k, h)
  PROVE  Inv'
<1>1. Types /\ OneRequest /\ Complete
  BY DEF Inv
<1>2. /\ send' \in [Sends -> SendRecord] /\ send'[k].next = send[k].next + 1
      /\ \A j \in Sends : j # k => send'[j] = send[j]
      /\ send'[k].at = "failed" \/ (h.answer = "ok" /\ (send'[k].at = "ready" \/ send'[k].at = "ok"))
      /\ send[k].at = "waiting" /\ h.by = k /\ h.answer # "none" /\ asked' = asked \ {h}
      /\ UNCHANGED <<wire, got, lost>>
  BY <1>1, Receiving DEF Others
<1>3. \A g \in asked' : g \in asked /\ g.by \in Sends /\ g.by # k
  BY <1>1, <1>2 DEF OneRequest, Types, Asked
<1>4. OneRequest'
  <2>1. \A g \in asked' : /\ send'[g.by].at = "waiting" \/ send'[g.by].at = "failed"
                          /\ g.piece = send'[g.by].next
    BY <1>1, <1>2, <1>3 DEF OneRequest
  <2>2. \A f, g \in asked' : f.by = g.by => f = g
    BY <1>1, <1>3 DEF OneRequest
  <2>3. \A j \in Sends : send'[j].at = "idle" => send'[j].next = 1
    BY <1>1, <1>2 DEF OneRequest
  <2> QED BY <2>1, <2>2, <2>3 DEF OneRequest
<1>5. SameMarks
  BY <1>2, MarksStay
<1>6. send[k].next < send'[k].next /\ send[k].next <= send'[k].next
  BY <1>1, <1>2 DEF Types, SendRecord
<1>7. \A j \in Sends :
         \/ send'[j] = send[j]
         \/ send'[j].at # "idle" /\ send'[j].at # "ready" /\ send[j].next <= send'[j].next
         \/ send'[j].at = "ready" /\ send[j].next < send'[j].next
  BY <1>2, <1>6
<1>8. ASSUME NEW j \in Sends, j \notin lost', GoesOn(j)'
      PROVE  \/ GoesOn(j) /\ send'[j].next = send[j].next
             \/ GoesOn(j) /\ send'[j].next = send[j].next + 1 /\ Has(j, send[j].next)
  <2>1. CASE j # k
    BY <1>2, <1>3, <1>8, <2>1 DEF GoesOn
  <2>2. CASE j = k
    <3>1. h.answer = "ok"
      BY <1>2, <1>3, <1>8, <2>2 DEF GoesOn
    <3>2. Has(k, send[k].next)
      BY <1>1, <1>2, <1>8, <2>2, <3>1 DEF Complete, OneRequest
    <3> QED BY <1>2, <2>2, <3>2 DEF GoesOn
  <2> QED BY <2>1, <2>2
<1>9. lost \subseteq lost' /\ asked' \subseteq Asked /\ wire' \in Seq(WireLine) /\ got' \in Seq(GotLine)
  BY <1>1, <1>2 DEF Types
<1> QED BY <1>2, <1>3, <1>4, <1>5, <1>7, <1>8, <1>9, Quiet

LEMMA EndsOneRequest ==
  ASSUME OneRequest, NEW h \in asked, NEW answer, Ends(h, answer), UNCHANGED send
  PROVE  OneRequest'
<1>1. \A g \in asked' : /\ send'[g.by].at = "waiting" \/ send'[g.by].at = "failed"
                        /\ g.piece = send'[g.by].next
  BY DEF OneRequest, Ends
<1>2. ASSUME NEW f \in asked', NEW g \in asked', f.by = g.by
      PROVE  f = g
  <2>1. \A e \in asked' : e \in asked => e # h
    BY DEF Ends
  <2>2. \A e \in asked' : e \notin asked => e.by = h.by
    BY DEF Ends
  <2>3. f \notin asked /\ g \notin asked => f = g
    BY DEF Ends
  <2>4. \A e \in asked : e.by = h.by => e = h
    BY DEF OneRequest
  <2> QED BY <1>2, <2>1, <2>2, <2>3, <2>4 DEF OneRequest
<1>3. \A k \in Sends : send'[k].at = "idle" => send'[k].next = 1
  BY DEF OneRequest
<1> QED BY <1>1, <1>2, <1>3 DEF OneRequest

(* An answer of a handler that writes nothing that arrives. *)
LEMMA EndsKeeps ==
  ASSUME Inv, NEW h \in asked, NEW answer \in {"ok", "error"}, Answer(h, answer),
         answer = "error" \/ h.by \in lost', lost \subseteq lost', UNCHANGED <<send, wire, got>>
  PROVE  Inv'
<1>1. Types /\ OneRequest
  BY DEF Inv
<1>2. Ends(h, answer)
  BY <1>1, Answering
<1>3. OneRequest'
  BY <1>1, <1>2, EndsOneRequest
<1>4. SameMarks
  BY MarksStay
<1>5. \A g \in asked' : g \in asked \/ (g.by = h.by /\ g.answer = answer)
  BY <1>2 DEF Ends
<1>6. \A k \in Sends : GoesOn(k)' => GoesOn(k) /\ send'[k].next = send[k].next
  BY <1>5 DEF GoesOn
<1>7. asked' \subseteq Asked
  BY <1>2 DEF Ends
<1> QED BY <1>1, <1>3, <1>4, <1>5, <1>6, <1>7, Quiet DEF Types

(* A line that is written follows every earlier piece. *)
LEMMA WritesKeeps ==
  ASSUME Inv, NEW h \in asked, Writes(h)
  PROVE  Inv'
<1>1. Types /\ OneRequest /\ Behind /\ Complete /\ Increasing /\ Gapless
  BY DEF Inv
<1> DEFINE line == FormatLine(Piece(h))
           l == [by |-> h.by, piece |-> h.piece, line |-> line]
<1>2. /\ Answer(h, "ok") /\ wire' = Append(wire, l)
      /\ UNCHANGED <<send, got, lost>>
  BY DEF Writes
<1>3. /\ h \in Asked /\ h.by \in Sends /\ h.piece \in Nat \ {0} /\ h.piece = send[h.by].next
      /\ h.answer = "none"
  BY <1>1, <1>2 DEF OneRequest, Types, Asked, Answer
<1>4. line \in Lines
  <2>1. send[h.by] \in SendRecord
    BY <1>1, <1>3 DEF Types
  <2>2. send[h.by].parts \in Split /\ h.piece \in Nat
    BY <1>3, <2>1 DEF SendRecord
  <2>3. line = FormatLine(send[h.by].parts[h.piece])
    BY DEF Piece
  <2> QED BY <2>2, <2>3 DEF Lines
<1> HIDE DEF line
<1>5. l \in WireLine /\ l.by = h.by /\ l.piece = h.piece
  BY <1>3, <1>4 DEF WireLine
<1> HIDE DEF l
<1>6. wire' \in Seq(WireLine) /\ \E n \in Nat : Grows(n, h.by, h.piece)
  BY <1>1, <1>2, <1>5, MarkWritten
<1>7. PICK m \in Nat : Grows(m, h.by, h.piece)
  BY <1>6
<1>8. /\ Count \in Nat /\ m = Count + 1 /\ Count' = m /\ By(m)' = h.by /\ Nth(m)' = h.piece
      /\ \A i \in 1..Count : By(i)' = By(i) /\ Nth(i)' = Nth(i)
  BY <1>1, <1>7, MarkTypes DEF Grows
<1>9. Ends(h, "ok")
  BY <1>1, <1>2, Answering
<1>10. OneRequest'
  BY <1>1, <1>2, <1>9, EndsOneRequest
<1>11. Persists
  BY <1>1, <1>7, GrowsPersists
<1>12. \A i \in 1..Count : By(i) = h.by => Nth(i) < h.piece
  BY <1>1, <1>3 DEF Behind
<1>13. Increasing' /\ Gapless'
  <2>1. CASE h.by \in lost \/ h.piece = 1
    BY <1>1, <1>2, <1>3, <1>7, <1>12, <2>1, OrderGrows
  <2>2. CASE h.by \notin lost /\ h.piece # 1
    <3>1. GoesOn(h.by)
      BY <1>3 DEF GoesOn
    <3>2. h.piece - 1 \in Nat /\ 1 <= h.piece - 1 /\ h.piece - 1 < send[h.by].next
      BY <1>3, <2>2
    <3>3. Has(h.by, h.piece - 1)
      BY <1>1, <1>3, <2>2, <3>1, <3>2 DEF Complete
    <3> QED BY <1>1, <1>2, <1>3, <1>7, <1>12, <3>3, OrderGrows
  <2> QED BY <2>1, <2>2
<1>14. asked' \subseteq Asked /\ \A g \in asked' : g \in asked \/ (g.by = h.by /\ g.piece = h.piece /\ g.answer = "ok")
  BY <1>9 DEF Ends
<1>15. \A g \in asked' : g.answer = "none" => g \in asked /\ g # h
  BY <1>9, <1>14 DEF Ends
<1>16. Complete'
  <2>1. Has(h.by, h.piece)'
    <3>1. m \in 1..Count'
      BY <1>8
    <3> QED BY <1>8, <3>1 DEF Has
  <2>2. \A k \in Sends : GoesOn(k)' => GoesOn(k) /\ send'[k].next = send[k].next
    BY <1>2, <1>14 DEF GoesOn
  <2>3. send' \in [Sends -> SendRecord] /\ lost \subseteq lost'
    BY <1>1, <1>2 DEF Types
  <2>4. \A g \in asked' : g \in asked \/ Has(g.by, g.piece)'
    BY <1>14, <2>1
  <2> QED BY <1>1, <1>11, <1>14, <2>2, <2>3, <2>4, CompleteStays
<1>17. Behind'
  <2>1. ASSUME NEW i \in 1..Count'
        PROVE  /\ send[By(i)'].at # "idle" /\ Nth(i)' <= send[By(i)'].next
               /\ send[By(i)'].at = "ready" => Nth(i)' < send[By(i)'].next
               /\ \A g \in asked' : g.by = By(i)' /\ g.answer = "none" => Nth(i)' < g.piece
    <3>1. CASE i \in 1..Count
      BY <1>1, <1>8, <1>15, <3>1 DEF Behind
    <3>2. CASE i = m
      <4>1. send[h.by].at # "idle" /\ send[h.by].at # "ready"
        BY <1>1 DEF OneRequest
      <4>2. \A g \in asked' : g.by = h.by => g.answer # "none"
        BY <1>1, <1>15 DEF OneRequest
      <4>3. h.piece <= send[h.by].next
        BY <1>3
      <4> QED BY <1>8, <3>2, <4>1, <4>2, <4>3
    <3> QED BY <1>8, <2>1, <3>1, <3>2
  <2> QED BY <1>2, <2>1 DEF Behind
<1> QED BY <1>1, <1>2, <1>6, <1>10, <1>13, <1>14, <1>16, <1>17 DEF Inv, Types

LEMMA LinkBreaksKeeps ==
  ASSUME Inv, LinkBreaks
  PROVE  Inv'
<1>1. Types /\ OneRequest /\ Behind /\ Complete /\ Increasing /\ Gapless
  BY DEF Inv
<1>2. /\ UNCHANGED <<send, asked, got>> /\ wire' = <<>>
      /\ {l.by : l \in ToSet(wire)} \subseteq lost' /\ lost \subseteq lost'
  BY DEF LinkBreaks
<1>3. /\ Count' \in Nat /\ Count' <= Count
      /\ \A i \in 1..Count' : By(i)' = By(i) /\ Nth(i)' = Nth(i)
      /\ \A i \in 1..Count : i > Count' => By(i) \in lost'
  BY <1>1, <1>2, MarksDropped
<1>4. Persists
  <2>1. ASSUME NEW k \in Sends, NEW n \in Nat, Has(k, n), k \notin lost'
        PROVE  Has(k, n)'
    <3>1. PICK i \in 1..Count : By(i) = k /\ Nth(i) = n
      BY <2>1 DEF Has
    <3>2. i \in 1..Count'
      BY <1>1, <1>3, <2>1, <3>1, MarkTypes
    <3> QED BY <1>3, <3>1, <3>2 DEF Has
  <2> QED BY <2>1 DEF Persists
<1>5. send' \in [Sends -> SendRecord] /\ asked' \subseteq Asked
  BY <1>1, <1>2 DEF Types
<1>6. Behind'
  BY <1>1, <1>2, <1>3, <1>5, BehindStays
<1>7. \A k \in Sends : GoesOn(k)' => GoesOn(k) /\ send'[k].next = send[k].next
  BY <1>2 DEF GoesOn
<1>8. Complete'
  BY <1>1, <1>2, <1>4, <1>5, <1>7, CompleteStays
<1>9. Increasing' /\ Gapless'
  BY <1>1, <1>2, <1>3, OrderStays
<1>10. OneRequest'
  BY <1>1, <1>2 DEF OneRequest
<1>11. wire' \in Seq(WireLine) /\ got' \in Seq(GotLine)
  BY <1>1, <1>2 DEF Types
<1> QED BY <1>5, <1>6, <1>8, <1>9, <1>10, <1>11 DEF Inv, Types

LEMMA RelaysKeeps ==
  ASSUME Inv, Relays
  PROVE  Inv'
<1>1. Types /\ OneRequest
  BY DEF Inv
<1>2. PICK line \in Relayed(wire[1].line) :
        got' = Append(got, [by |-> wire[1].by, piece |-> wire[1].piece, text |-> Heard(line)])
  BY DEF Relays
<1> DEFINE g == [by |-> wire[1].by, piece |-> wire[1].piece, text |-> Heard(line)]
<1>3. wire # <<>> /\ wire' = Tail(wire) /\ got' = Append(got, g) /\ UNCHANGED <<send, asked, lost>>
  BY <1>2 DEF Relays
<1>4. wire[1] \in WireLine
  <2>1. 1 \in 1..Len(wire)
    BY <1>1, <1>3 DEF Types
  <2> QED BY <1>1, <2>1 DEF Types
<1>5. wire[1].by \in Sends /\ wire[1].piece \in Nat \ {0} /\ wire[1].line \in Lines
  BY <1>4 DEF WireLine
<1>6. Heard(line) \in Heards
  BY <1>2, <1>5 DEF Heards
<1>7. g \in GotLine /\ g.by = wire[1].by /\ g.piece = wire[1].piece
  BY <1>5, <1>6 DEF GotLine
<1> HIDE DEF g
<1>8. SameMarks /\ wire' \in Seq(WireLine) /\ got' \in Seq(GotLine)
  BY <1>1, <1>3, <1>7, MarkRelayed
<1>9. OneRequest'
  BY <1>1, <1>3 DEF OneRequest
<1>10. \A k \in Sends : GoesOn(k)' => GoesOn(k) /\ send'[k].next = send[k].next
  BY <1>3 DEF GoesOn
<1> QED BY <1>1, <1>3, <1>8, <1>9, <1>10, Quiet DEF Types

LEMMA StutterKeeps ==
  ASSUME Inv, UNCHANGED <<send, asked, wire, got, lost>>
  PROVE  Inv'
<1>1. Types /\ OneRequest
  BY DEF Inv
<1>2. SameMarks
  BY MarksStay
<1>3. OneRequest'
  BY <1>1 DEF OneRequest
<1>4. \A k \in Sends : GoesOn(k)' => GoesOn(k) /\ send'[k].next = send[k].next
  BY DEF GoesOn
<1> QED BY <1>1, <1>2, <1>3, <1>4, Quiet DEF Types

----------------------------------------------------------------------------
LEMMA InitInv == Init => Inv
<1> SUFFICES ASSUME Init PROVE Inv
  OBVIOUS
<1>1. Idle \in SendRecord /\ Idle.at = "idle" /\ Idle.next = 1
  BY DEF Idle, SendRecord, At, Words, Split
<1>2. send = [k \in Sends |-> Idle] /\ asked = {} /\ wire = <<>> /\ got = <<>>
  BY DEF Init
<1> HIDE DEF Idle
<1>3. send \in [Sends -> SendRecord] /\ \A k \in Sends : send[k].at = "idle" /\ send[k].next = 1
  BY <1>1, <1>2
<1>4. Types
  BY <1>2, <1>3 DEF Types
<1>5. Count = 0
  BY <1>2 DEF Count
<1>6. 1..Count = {}
  BY <1>5
<1>7. Behind /\ Increasing /\ Gapless
  BY <1>6 DEF Behind, Increasing, Gapless
<1>8. OneRequest
  BY <1>2, <1>3 DEF OneRequest
<1>9. \A k \in Sends : ~GoesOn(k)
  BY <1>2, <1>3 DEF GoesOn
<1>10. Complete
  BY <1>2, <1>9 DEF Complete
<1> QED BY <1>4, <1>7, <1>8, <1>10 DEF Inv

LEMMA Inductive == Inv /\ [Next]_vars => Inv'
<1> SUFFICES ASSUME Inv, [Next]_vars PROVE Inv'
  OBVIOUS
<1>1. ASSUME NEW k \in Sends, CommandStep(k)
      PROVE  Inv'
  <2>1. CASE \E text \in Texts[k] : Begins(k, text)
    BY <2>1, BeginsKeeps
  <2>2. CASE Requests(k)
    BY <2>2, RequestsKeeps
  <2>3. CASE RequestFails(k)
    BY <2>3, FailsKeeps DEF RequestFails
  <2>4. CASE GivesUp(k)
    BY <2>4, FailsKeeps DEF GivesUp
  <2>5. CASE \E h \in asked : Receives(k, h)
    BY <2>5, ReceivesKeeps
  <2> QED BY <1>1, <2>1, <2>2, <2>3, <2>4, <2>5 DEF CommandStep
<1>2. ASSUME NEW h \in asked, HandlerStep(h)
      PROVE  Inv'
  <2>1. CASE Writes(h)
    BY <2>1, WritesKeeps
  <2>2. CASE WritesInVain(h)
    BY <2>2, EndsKeeps DEF WritesInVain
  <2>3. CASE WriteFails(h)
    BY <2>3, EndsKeeps DEF WriteFails
  <2>4. CASE Declined(h)
    BY <2>4, EndsKeeps DEF Declined
  <2> QED BY <1>2, <2>1, <2>2, <2>3, <2>4 DEF HandlerStep
<1>3. CASE LinkBreaks
  BY <1>3, LinkBreaksKeeps
<1>4. CASE LinkDropped \/ Reconnects
  BY <1>4, StutterKeeps DEF LinkDropped, Reconnects
<1>5. CASE Relays
  BY <1>5, RelaysKeeps
<1>6. CASE UNCHANGED vars
  BY <1>6, StutterKeeps DEF vars
<1> QED BY <1>1, <1>2, <1>3, <1>4, <1>5, <1>6 DEF Next

(* ReceivedInOrder speaks of the marks in the words of the peer. *)
LEMMA InOrder == Inv => ReceivedInOrder
<1> SUFFICES ASSUME Inv PROVE ReceivedInOrder
  OBVIOUS
<1>1. Types /\ Increasing /\ Gapless
  BY DEF Inv
<1> DEFINE p == Passed
<1>2. DOMAIN p = 1..Count
  BY DEF Passed, Count
<1>3. \A i \in 1..Count : p[i].by = By(i) /\ p[i].piece = Nth(i)
  BY DEF Passed, Count, By, Nth
<1> HIDE DEF p
<1>4. \A i \in DOMAIN p :
        /\ \A j \in DOMAIN p : j < i /\ p[j].by = p[i].by => p[j].piece < p[i].piece
        /\ \/ p[i].by \in lost \/ p[i].piece = 1
           \/ \E j \in DOMAIN p : j < i /\ p[j].by = p[i].by /\ p[j].piece = p[i].piece - 1
  <2>1. \A i, j \in 1..Count : j < i /\ p[j].by = p[i].by => p[j].piece < p[i].piece
    BY <1>1, <1>3 DEF Increasing
  <2>2. ASSUME NEW i \in 1..Count
        PROVE  \/ p[i].by \in lost \/ p[i].piece = 1
               \/ \E j \in 1..Count : j < i /\ p[j].by = p[i].by /\ p[j].piece = p[i].piece - 1
    <3>1. \/ By(i) \in lost \/ Nth(i) = 1
          \/ \E j \in 1..Count : j < i /\ By(j) = By(i) /\ Nth(j) = Nth(i) - 1
      BY <1>1 DEF Gapless
    <3> QED BY <1>3, <3>1
  <2> QED BY <1>2, <2>1, <2>2
<1> QED BY <1>4 DEF p, ReceivedInOrder

(* PiecesInOrder: however many commands send, give up or are killed, whatever
   requests outlive them and however often the link breaks, the peer hears the
   pieces of a text in their order, none twice, and none is missing in between
   unless the link or the server lost one (ChatService.Send and DM,
   daemon.Request, controlHandler.privmsg). *)
THEOREM PiecesInOrder == Spec => []ReceivedInOrder
<1>1. Spec => []Inv
  BY InitInv, Inductive, PTL DEF Spec
<1> QED BY <1>1, InOrder, PTL

----------------------------------------------------------------------------
(* Induction.  The provers do not instantiate an induction rule whose
   parameter is a predicate; a set is a parameter they do instantiate, and that
   every non-empty set of numbers has a least one is a theorem. *)

LEMMA Numbers ==
  ASSUME NEW T, T \subseteq Nat, 0 \in T, \A n \in T : n + 1 \in T
  PROVE  T = Nat
<1> DEFINE Less == OpToRel(<, Nat)
           Rest == Nat \ T
<1>1. \A x, y \in Nat : <<x, y>> \in Less <=> x < y
  BY DEF OpToRel
<1>2. IsWellFoundedOn(Less, Nat)
  BY NatLessThanWellFounded
<1> HIDE DEF Less
<1>3. ASSUME Rest # {} PROVE FALSE
  <2>1. Rest \subseteq Nat
    OBVIOUS
  <2>2. PICK x \in Rest : \A y \in Rest : ~(<<y, x>> \in Less)
    <3> HIDE DEF Rest
    <3> QED BY <1>2, <1>3, <2>1, WFMin
  <2>3. PICK y \in Nat : x = y + 1
    <3>1. x \in Nat /\ x # 0
      BY <2>2
    <3>2. x - 1 \in Nat /\ x = (x - 1) + 1
      BY <3>1
    <3> QED BY <3>2
  <2>4. y \notin T
    BY <2>2, <2>3
  <2>5. <<y, x>> \in Less
    BY <1>1, <2>2, <2>3
  <2> QED BY <2>2, <2>3, <2>4, <2>5
<1> QED BY <1>3

(* The same for a set of sequences that is closed under one more element. *)
LEMMA Sequencing ==
  ASSUME NEW E, NEW T, T \subseteq Seq(E), <<>> \in T,
         \A s \in T : \A x \in E : Append(s, x) \in T
  PROVE  T = Seq(E)
<1> DEFINE N == {n \in Nat : \A s \in Seq(E) : Len(s) = n => s \in T}
<1>1. 0 \in N
  <2>1. \A s \in Seq(E) : Len(s) = 0 => s = <<>>
    OBVIOUS
  <2> QED BY <2>1
<1>2. ASSUME NEW n \in N PROVE n + 1 \in N
  <2>1. ASSUME NEW s \in Seq(E), Len(s) = n + 1 PROVE s \in T
    <3>1. n \in Nat
      OBVIOUS
    <3>a. s # <<>>
      BY <2>1, <3>1
    <3>2. PICK r \in Seq(E), x \in E : s = Append(r, x)
      BY <3>a, SequenceEmptyOrAppend
    <3>3. r \in T
      BY <2>1, <3>1, <3>2
    <3> QED BY <3>2, <3>3
  <2> QED BY <2>1
<1>3. N = Nat
  <2>1. N \subseteq Nat
    OBVIOUS
  <2> HIDE DEF N
  <2> QED BY <1>1, <1>2, <2>1, Numbers
<1>4. \A s \in Seq(E) : Len(s) \in N
  BY <1>3
<1> QED BY <1>4

----------------------------------------------------------------------------
(* Folds.  FoldLeft chooses a function on the sets of indices.  Iterated says
   that it is such a function, for a step that is itself a function on V \X E
   (Iterates: there is one); Folded says what it makes of the whole sequence
   (Chosen), one element after the other (FoldedAppend). *)

LEMMA Greatest ==
  ASSUME NEW n \in Nat, NEW t \in SUBSET (1..(n + 1)), n + 1 \in t
  PROVE  Max(t) = n + 1 /\ t \ {n + 1} \subseteq 1..n
<1>1. \A y \in t : n + 1 >= y
  OBVIOUS
<1>2. \A x \in t : (\A y \in t : x >= y) => x = n + 1
  OBVIOUS
<1>3. Max(t) = n + 1
  BY <1>1, <1>2 DEF Max
<1> QED BY <1>3

(* A set of numbers has a greatest one, and that of a prefix is its end. *)
LEMMA Greatests ==
  ASSUME NEW n \in Nat, NEW t \in SUBSET (1..n), t # {}
  PROVE  Max(t) \in t
<1> DEFINE Top(u) == \E x \in u : \A y \in u : x >= y
           N == {m \in Nat : \A u \in SUBSET (1..m) : u # {} => Top(u)}
<1>1. 0 \in N
  <2>1. 1..0 = {}
    OBVIOUS
  <2> QED BY <2>1
<1>2. ASSUME NEW m \in N PROVE m + 1 \in N
  <2>1. m \in Nat /\ \A u \in SUBSET (1..m) : u # {} => Top(u)
    OBVIOUS
  <2>2. ASSUME NEW u \in SUBSET (1..(m + 1)), u # {} PROVE Top(u)
    <3>1. CASE m + 1 \in u
      BY <2>1, <3>1
    <3>2. CASE m + 1 \notin u
      <4>1. u \in SUBSET (1..m)
        BY <2>1, <3>2
      <4> QED BY <2>1, <2>2, <4>1
    <3> QED BY <3>1, <3>2
  <2> HIDE DEF Top
  <2> QED BY <2>1, <2>2
<1>3. N = Nat
  <2>1. N \subseteq Nat
    OBVIOUS
  <2> HIDE DEF N
  <2> QED BY <1>1, <1>2, <2>1, Numbers
<1> HIDE DEF Top
<1>4. Top(t)
  BY <1>3
<1> QED BY <1>4 DEF Top, Max

LEMMA Tops ==
  ASSUME NEW n \in Nat
  PROVE  1..(n + 1) # {} /\ Max(1..(n + 1)) = n + 1 /\ (1..(n + 1)) \ {n + 1} = 1..n
<1>1. n + 1 \in 1..(n + 1)
  OBVIOUS
<1>2. Max(1..(n + 1)) = n + 1
  BY <1>1, Greatest
<1>3. \A m : m \in (1..(n + 1)) \ {n + 1} <=> m \in 1..n
  OBVIOUS
<1>4. (1..(n + 1)) \ {n + 1} = 1..n
  BY <1>3
<1> QED BY <1>1, <1>2, <1>4

Iterated(it, n, s, step, base) ==
  it = [t \in SUBSET (1..n) |->
          IF t = {} THEN base ELSE step[<<it[t \ {Max(t)}], s[Max(t)]>>]]

LEMMA Iterates ==
  ASSUME NEW V, NEW E, NEW base \in V, NEW step \in [V \X E -> V], NEW s \in Seq(E)
  PROVE  \E it : /\ Iterated(it, Len(s), s, step, base)
                 /\ it \in [SUBSET (1..Len(s)) -> V]
<1> DEFINE P(n) == \E it : Iterated(it, n, s, step, base) /\ it \in [SUBSET (1..n) -> V]
           N == {n \in Nat : n <= Len(s) => P(n)}
<1> SUFFICES P(Len(s))
  OBVIOUS
<1>1. 0 \in N
  <2> DEFINE it == [t \in SUBSET (1..0) |-> base]
  <2>1. \A t \in SUBSET (1..0) : t = {}
    OBVIOUS
  <2>2. Iterated(it, 0, s, step, base)
    BY <2>1 DEF Iterated
  <2>3. it \in [SUBSET (1..0) -> V]
    OBVIOUS
  <2> QED BY <2>2, <2>3
<1>2. ASSUME NEW n \in N PROVE n + 1 \in N
  <2> HIDE DEF P
  <2>0. n \in Nat /\ (n <= Len(s) => P(n)) /\ Len(s) \in Nat
    OBVIOUS
  <2> SUFFICES ASSUME n + 1 <= Len(s)
               PROVE  P(n + 1)
    BY <2>0
  <2>1. PICK i : Iterated(i, n, s, step, base) /\ i \in [SUBSET (1..n) -> V]
    <3>1. P(n)
      BY <2>0
    <3> QED BY <3>1 DEF P
  <2> DEFINE j == [t \in SUBSET (1..(n + 1)) |->
                     IF n + 1 \in t THEN step[<<i[t \ {n + 1}], s[n + 1]>>] ELSE i[t]]
  <2>2. \A t \in SUBSET (1..(n + 1)) : n + 1 \notin t => t \in SUBSET (1..n)
    BY <2>0
  <2>3. \A t \in SUBSET (1..(n + 1)) : n + 1 \in t => t \ {n + 1} \in SUBSET (1..n) /\ Max(t) = n + 1
    BY <2>0, Greatest
  <2>4. s[n + 1] \in E
    BY <2>0
  <2>5. \A t \in SUBSET (1..(n + 1)) : n + 1 \in t => i[t \ {n + 1}] \in V
    BY <2>1, <2>3
  <2>6. ASSUME NEW t \in SUBSET (1..(n + 1))
        PROVE  (IF n + 1 \in t THEN step[<<i[t \ {n + 1}], s[n + 1]>>] ELSE i[t]) \in V
    <3>1. CASE n + 1 \in t
      <4>1. <<i[t \ {n + 1}], s[n + 1]>> \in V \X E
        BY <2>4, <2>5, <3>1
      <4> QED BY <3>1, <4>1
    <3>2. CASE n + 1 \notin t
      BY <2>1, <2>2, <3>2
    <3> QED BY <3>1, <3>2
  <2>7. j \in [SUBSET (1..(n + 1)) -> V]
    BY <2>6
  <2>8. ASSUME NEW t \in SUBSET (1..(n + 1))
        PROVE  j[t] = IF t = {} THEN base ELSE step[<<j[t \ {Max(t)}], s[Max(t)]>>]
    <3>1. CASE n + 1 \in t
      <4>1. n + 1 \notin t \ {n + 1} /\ t \ {n + 1} \in SUBSET (1..(n + 1))
        OBVIOUS
      <4>2. j[t \ {n + 1}] = i[t \ {n + 1}]
        BY <4>1
      <4>3. j[t] = step[<<i[t \ {n + 1}], s[n + 1]>>]
        BY <3>1
      <4> HIDE DEF j
      <4> QED BY <2>3, <3>1, <4>2, <4>3
    <3>2. CASE n + 1 \notin t
      <4>1. t \in SUBSET (1..n) /\ j[t] = i[t]
        BY <2>2, <3>2
      <4>2. i[t] = IF t = {} THEN base ELSE step[<<i[t \ {Max(t)}], s[Max(t)]>>]
        BY <2>1, <4>1 DEF Iterated
      <4>3. n + 1 \notin t \ {Max(t)} /\ t \ {Max(t)} \in SUBSET (1..(n + 1))
        BY <3>2
      <4>4. j[t \ {Max(t)}] = i[t \ {Max(t)}]
        BY <4>3
      <4> QED BY <4>1, <4>2, <4>4
    <3> QED BY <3>1, <3>2
  <2>9. Iterated(j, n + 1, s, step, base)
    <3>1. j = [t \in SUBSET (1..(n + 1)) |-> j[t]]
      BY <2>7
    <3> HIDE DEF j
    <3> QED BY <2>8, <3>1 DEF Iterated
  <2> HIDE DEF j
  <2> QED BY <2>7, <2>9 DEF P
<1>3. N = Nat
  <2>1. N \subseteq Nat
    OBVIOUS
  <2> HIDE DEF N
  <2> QED BY <1>1, <1>2, <2>1, Numbers
<1> HIDE DEF P
<1>4. Len(s) \in Nat /\ Len(s) \in N
  BY <1>3
<1> QED BY <1>4

(* v is what comes out of s, one element after the other. *)
Runs(g, s, step, base) ==
  /\ g[0] = base
  /\ \A n \in Nat : n < Len(s) => g[n + 1] = step[<<g[n], s[n + 1]>>]

Folded(V, E, step, base, s, v) ==
  \E g \in [0..Len(s) -> V] : Runs(g, s, step, base) /\ v = g[Len(s)]

LEMMA FoldedEmpty ==
  ASSUME NEW V, NEW E, NEW step, NEW base, NEW v, Folded(V, E, step, base, <<>>, v)
  PROVE  v = base
BY DEF Folded, Runs

LEMMA FoldedType ==
  ASSUME NEW V, NEW E, NEW step, NEW base, NEW s \in Seq(E), NEW v, Folded(V, E, step, base, s, v)
  PROVE  v \in V
<1>1. Len(s) \in 0..Len(s)
  OBVIOUS
<1> QED BY <1>1 DEF Folded

LEMMA FoldedAppend ==
  ASSUME NEW V, NEW E, NEW step, NEW base, NEW s \in Seq(E), NEW x \in E, NEW v, NEW w,
         Folded(V, E, step, base, s, v), Folded(V, E, step, base, Append(s, x), w)
  PROVE  w = step[<<v, x>>]
<1> DEFINE r == Append(s, x)
           m == Len(s)
<1>1. m \in Nat /\ Len(r) = m + 1 /\ r[m + 1] = x /\ \A n \in 1..m : r[n] = s[n]
  OBVIOUS
<1>2. PICK g \in [0..m -> V] : Runs(g, s, step, base) /\ v = g[m]
  BY DEF Folded
<1>3. PICK h \in [0..Len(r) -> V] : Runs(h, r, step, base) /\ w = h[Len(r)]
  BY DEF Folded
<1> HIDE DEF r
<1> DEFINE N == {n \in Nat : n <= m => g[n] = h[n]}
<1>4. 0 \in N
  BY <1>2, <1>3 DEF Runs
<1>5. ASSUME NEW n \in N PROVE n + 1 \in N
  <2>1. n \in Nat
    OBVIOUS
  <2>2. ASSUME n + 1 <= m PROVE g[n + 1] = h[n + 1]
    <3>1. n < m /\ n < Len(r) /\ n + 1 \in 1..m /\ g[n] = h[n]
      BY <1>1, <2>1, <2>2
    <3>2. g[n + 1] = step[<<g[n], s[n + 1]>>]
      BY <1>2, <2>1, <3>1 DEF Runs
    <3>3. h[n + 1] = step[<<h[n], r[n + 1]>>]
      BY <1>3, <2>1, <3>1 DEF Runs
    <3> QED BY <1>1, <3>1, <3>2, <3>3
  <2> QED BY <2>1, <2>2
<1>6. N = Nat
  <2>1. N \subseteq Nat
    OBVIOUS
  <2> HIDE DEF N
  <2> QED BY <1>4, <1>5, <2>1, Numbers
<1>7. g[m] = h[m]
  BY <1>1, <1>6
<1>8. h[m + 1] = step[<<h[m], r[m + 1]>>]
  BY <1>1, <1>3 DEF Runs
<1> QED BY <1>1, <1>2, <1>3, <1>7, <1>8

(* From the function that FoldLeft chose, prefix by prefix. *)
LEMMA Chosen ==
  ASSUME NEW V, NEW E, NEW base \in V, NEW step \in [V \X E -> V], NEW s \in Seq(E), NEW i,
         i[{}] = base,
         \A t \in SUBSET (1..Len(s)) : t # {} /\ i[t \ {Max(t)}] \in V =>
           i[t] = step[<<i[t \ {Max(t)}], s[Max(t)]>>]
  PROVE  Folded(V, E, step, base, s, i[DOMAIN s])
<1> DEFINE N == {n \in Nat : n <= Len(s) => i[1..n] \in V}
           g == [n \in 0..Len(s) |-> i[1..n]]
<1>0. ASSUME NEW n \in Nat, n < Len(s), i[1..n] \in V
      PROVE  i[1..(n + 1)] = step[<<i[1..n], s[n + 1]>>] /\ i[1..(n + 1)] \in V
  <2>1. 1..(n + 1) # {} /\ Max(1..(n + 1)) = n + 1 /\ (1..(n + 1)) \ {n + 1} = 1..n
    BY Tops
  <2>2. 1..(n + 1) \in SUBSET (1..Len(s)) /\ s[n + 1] \in E
    BY <1>0
  <2> QED BY <1>0, <2>1, <2>2
<1>1. 0 \in N
  <2>1. 1..0 = {}
    OBVIOUS
  <2> QED BY <2>1
<1>2. ASSUME NEW n \in N PROVE n + 1 \in N
  <2>1. n \in Nat /\ Len(s) \in Nat /\ (n <= Len(s) => i[1..n] \in V)
    OBVIOUS
  <2>2. ASSUME n + 1 <= Len(s) PROVE i[1..(n + 1)] \in V
    <3>1. n < Len(s) /\ n <= Len(s)
      BY <2>1, <2>2
    <3> QED BY <1>0, <2>1, <3>1
  <2> QED BY <2>1, <2>2
<1>3. N = Nat
  <2>1. N \subseteq Nat
    OBVIOUS
  <2> HIDE DEF N
  <2> QED BY <1>1, <1>2, <2>1, Numbers
<1>4. \A n \in 0..Len(s) : n \in Nat /\ n <= Len(s)
  OBVIOUS
<1>5. \A n \in 0..Len(s) : i[1..n] \in V
  <2>1. \A n \in Nat : n \in N
    BY <1>3
  <2> QED BY <1>4, <2>1
<1>6. g \in [0..Len(s) -> V]
  BY <1>5
<1>7. g[0] = base
  <2>1. 1..0 = {} /\ 0 \in 0..Len(s)
    OBVIOUS
  <2> QED BY <2>1
<1>8. ASSUME NEW n \in Nat, n < Len(s)
      PROVE  g[n + 1] = step[<<g[n], s[n + 1]>>]
  <2>1. n \in 0..Len(s) /\ n + 1 \in 0..Len(s)
    BY <1>8
  <2>2. g[n] = i[1..n] /\ g[n + 1] = i[1..(n + 1)]
    BY <2>1
  <2> QED BY <1>0, <1>5, <1>8, <2>1, <2>2
<1>9. DOMAIN s = 1..Len(s) /\ Len(s) \in 0..Len(s)
  OBVIOUS
<1>10. i[DOMAIN s] = g[Len(s)]
  BY <1>9
<1> HIDE DEF g
<1> QED BY <1>6, <1>7, <1>8, <1>10 DEF Folded, Runs

----------------------------------------------------------------------------
(* strings.Split: one more element opens a part, or belongs to the last one. *)

Parts(E) == Seq(Seq(E)) \ {<<>>}
Cut(parts, x, sep) == IF x = sep THEN Append(parts, <<>>)
                      ELSE [parts EXCEPT ![Len(parts)] = Append(@, x)]
Cuts(E, sep) == [p \in Parts(E) \X E |-> Cut(p[1], p[2], sep)]

LEMMA SplitType ==
  ASSUME NEW E, NEW sep
  PROVE  << <<>> >> \in Parts(E) /\ \A v \in Parts(E) : \A x \in E : Cut(v, x, sep) \in Parts(E)
<1>1. << <<>> >> \in Parts(E)
  BY DEF Parts
<1>2. ASSUME NEW v \in Parts(E), NEW x \in E PROVE Cut(v, x, sep) \in Parts(E)
  <2>1. v \in Seq(Seq(E)) /\ Len(v) \in 1..Len(v) /\ v[Len(v)] \in Seq(E)
    BY DEF Parts
  <2>2. Append(v, <<>>) \in Parts(E)
    BY <2>1 DEF Parts
  <2>3. [v EXCEPT ![Len(v)] = Append(v[Len(v)], x)] \in Parts(E)
    <3> DEFINE r == Append(v[Len(v)], x)
    <3>1. r \in Seq(E)
      BY <2>1
    <3> HIDE DEF r
    <3>2. [v EXCEPT ![Len(v)] = r] \in Seq(Seq(E)) /\ Len([v EXCEPT ![Len(v)] = r]) = Len(v)
      BY <2>1, <3>1, ExceptSeq
    <3> QED BY <2>1, <3>2 DEF r, Parts
  <2> QED BY <2>2, <2>3 DEF Cut
<1> QED BY <1>1, <1>2

LEMMA SplitFolded ==
  ASSUME NEW E, NEW sep, NEW s \in Seq(E)
  PROVE  Folded(Parts(E), E, Cuts(E, sep), << <<>> >>, s, SplitAt(s, sep))
<1> DEFINE P(i) == i = [t \in SUBSET DOMAIN s |->
                          IF t = {} THEN << <<>> >> ELSE Cut(i[t \ {Max(t)}], s[Max(t)], sep)]
           step == Cuts(E, sep)
<1>1. SplitAt(s, sep) = (CHOOSE i : P(i))[DOMAIN s]
  BY Zenon DEF SplitAt, Cut, FoldLeft, MapThenFoldSet
<1>2. step \in [Parts(E) \X E -> Parts(E)] /\ << <<>> >> \in Parts(E)
  BY SplitType DEF Cuts
<1>3. \A v \in Parts(E) : \A x \in E : step[<<v, x>>] = Cut(v, x, sep)
  BY DEF Cuts
<1> HIDE DEF step
<1>4. DOMAIN s = 1..Len(s) /\ \A t \in SUBSET (1..Len(s)) : t # {} => s[Max(t)] \in E
  <2>1. DOMAIN s = 1..Len(s) /\ Len(s) \in Nat /\ \A n \in 1..Len(s) : s[n] \in E
    OBVIOUS
  <2> QED BY <2>1, Greatests
<1>5. PICK it : Iterated(it, Len(s), s, step, << <<>> >>) /\ it \in [SUBSET (1..Len(s)) -> Parts(E)]
  BY <1>2, Iterates
<1>6. P(it)
  <2>1. ASSUME NEW t \in SUBSET (1..Len(s)), t # {}
        PROVE  step[<<it[t \ {Max(t)}], s[Max(t)]>>] = Cut(it[t \ {Max(t)}], s[Max(t)], sep)
    <3>1. it[t \ {Max(t)}] \in Parts(E)
      BY <1>5
    <3> QED BY <1>3, <1>4, <2>1, <3>1
  <2> QED BY <1>4, <1>5, <2>1 DEF Iterated
<1> DEFINE i == CHOOSE i : P(i)
<1>7. P(i)
  <2> HIDE DEF P
  <2> QED BY <1>6
<1> HIDE DEF i
<1>8. i[{}] = << <<>> >>
  BY <1>7
<1>9. ASSUME NEW t \in SUBSET (1..Len(s)), t # {}, i[t \ {Max(t)}] \in Parts(E)
      PROVE  i[t] = step[<<i[t \ {Max(t)}], s[Max(t)]>>]
  <2>1. i[t] = Cut(i[t \ {Max(t)}], s[Max(t)], sep)
    BY <1>4, <1>7, <1>9
  <2> QED BY <1>3, <1>4, <1>9, <2>1
<1>10. Folded(Parts(E), E, step, << <<>> >>, s, i[DOMAIN s])
  <2> HIDE DEF P
  <2> QED BY <1>2, <1>8, <1>9, Chosen
<1> QED BY <1>1, <1>10 DEF i, step

LEMMA SplitFacts ==
  ASSUME NEW E, NEW sep
  PROVE  /\ SplitAt(<<>>, sep) = << <<>> >>
         /\ \A s \in Seq(E) :
              /\ SplitAt(s, sep) \in Parts(E)
              /\ \A x \in E : SplitAt(Append(s, x), sep) = Cut(SplitAt(s, sep), x, sep)
<1>1. SplitAt(<<>>, sep) = << <<>> >>
  <2>1. <<>> \in Seq(E)
    OBVIOUS
  <2> QED BY <2>1, SplitFolded, FoldedEmpty
<1>2. ASSUME NEW s \in Seq(E) PROVE SplitAt(s, sep) \in Parts(E)
  BY SplitFolded, FoldedType
<1>3. ASSUME NEW s \in Seq(E), NEW x \in E
      PROVE  SplitAt(Append(s, x), sep) = Cut(SplitAt(s, sep), x, sep)
  <2>1. Append(s, x) \in Seq(E)
    OBVIOUS
  <2>2. Folded(Parts(E), E, Cuts(E, sep), << <<>> >>, Append(s, x), SplitAt(Append(s, x), sep))
    BY <2>1, SplitFolded
  <2>3. Folded(Parts(E), E, Cuts(E, sep), << <<>> >>, s, SplitAt(s, sep))
    BY SplitFolded
  <2>4. SplitAt(Append(s, x), sep) = Cuts(E, sep)[<<SplitAt(s, sep), x>>]
    BY <2>2, <2>3, FoldedAppend
  <2> QED BY <1>2, <2>4 DEF Cuts
<1> QED BY <1>1, <1>2, <1>3

----------------------------------------------------------------------------
(* The other folds of the text, each with what it does to one more element.
   What a fold of the module does not name is named here. *)

(* strings.Fields drops the empty parts. *)
Keep(words, w) == IF w = <<>> THEN words ELSE Append(words, w)
Keeps(E) == [p \in Seq(Seq(E)) \X Seq(E) |-> Keep(p[1], p[2])]
WordsIn(parts) ==
  FoldLeft(LAMBDA words, w : IF w = <<>> THEN words ELSE Append(words, w), <<>>, parts)

LEMMA WordsInType ==
  ASSUME NEW E
  PROVE  <<>> \in Seq(Seq(E)) /\ \A v \in Seq(Seq(E)) : \A x \in Seq(E) : Keep(v, x) \in Seq(Seq(E))
BY DEF Keep

LEMMA WordsInFolded ==
  ASSUME NEW E, NEW s \in Seq(Seq(E))
  PROVE  Folded(Seq(Seq(E)), Seq(E), Keeps(E), <<>>, s, WordsIn(s))
<1> DEFINE P(i) == i = [t \in SUBSET DOMAIN s |->
                          IF t = {} THEN <<>> ELSE Keep(i[t \ {Max(t)}], s[Max(t)])]
           step == Keeps(E)
<1>1. WordsIn(s) = (CHOOSE i : P(i))[DOMAIN s]
  BY Zenon DEF WordsIn, Keep, FoldLeft, MapThenFoldSet
<1>2. step \in [Seq(Seq(E)) \X Seq(E) -> Seq(Seq(E))] /\ <<>> \in Seq(Seq(E))
  BY WordsInType DEF Keeps
<1>3. \A v \in Seq(Seq(E)) : \A x \in Seq(E) : step[<<v, x>>] = Keep(v, x)
  BY DEF Keeps
<1> HIDE DEF step
<1>4. DOMAIN s = 1..Len(s) /\ \A t \in SUBSET (1..Len(s)) : t # {} => s[Max(t)] \in Seq(E)
  <2>1. DOMAIN s = 1..Len(s) /\ Len(s) \in Nat /\ \A n \in 1..Len(s) : s[n] \in Seq(E)
    OBVIOUS
  <2> QED BY <2>1, Greatests
<1>5. PICK it : Iterated(it, Len(s), s, step, <<>>) /\ it \in [SUBSET (1..Len(s)) -> Seq(Seq(E))]
  BY <1>2, Iterates
<1>6. P(it)
  <2>1. ASSUME NEW t \in SUBSET (1..Len(s)), t # {}
        PROVE  step[<<it[t \ {Max(t)}], s[Max(t)]>>] = Keep(it[t \ {Max(t)}], s[Max(t)])
    <3>1. it[t \ {Max(t)}] \in Seq(Seq(E))
      BY <1>5
    <3> QED BY <1>3, <1>4, <2>1, <3>1
  <2> QED BY <1>4, <1>5, <2>1 DEF Iterated
<1> DEFINE i == CHOOSE i : P(i)
<1>7. P(i)
  <2> HIDE DEF P
  <2> QED BY <1>6
<1> HIDE DEF i
<1>8. i[{}] = <<>>
  BY <1>7
<1>9. ASSUME NEW t \in SUBSET (1..Len(s)), t # {}, i[t \ {Max(t)}] \in Seq(Seq(E))
      PROVE  i[t] = step[<<i[t \ {Max(t)}], s[Max(t)]>>]
  <2>1. i[t] = Keep(i[t \ {Max(t)}], s[Max(t)])
    BY <1>4, <1>7, <1>9
  <2> QED BY <1>3, <1>4, <1>9, <2>1
<1>10. Folded(Seq(Seq(E)), Seq(E), step, <<>>, s, i[DOMAIN s])
  <2> HIDE DEF P
  <2> QED BY <1>2, <1>8, <1>9, Chosen
<1> QED BY <1>1, <1>10 DEF i, step

LEMMA WordsInFacts ==
  ASSUME NEW E
  PROVE  /\ WordsIn(<<>>) = <<>>
         /\ \A s \in Seq(Seq(E)) :
              /\ WordsIn(s) \in Seq(Seq(E))
              /\ \A x \in Seq(E) : WordsIn(Append(s, x)) = Keep(WordsIn(s), x)
<1>1. WordsIn(<<>>) = <<>>
  <2>1. <<>> \in Seq(Seq(E))
    OBVIOUS
  <2> QED BY <2>1, WordsInFolded, FoldedEmpty
<1>2. ASSUME NEW s \in Seq(Seq(E)) PROVE WordsIn(s) \in Seq(Seq(E))
  BY WordsInFolded, FoldedType
<1>3. ASSUME NEW s \in Seq(Seq(E)), NEW x \in Seq(E)
      PROVE  WordsIn(Append(s, x)) = Keep(WordsIn(s), x)
  <2>1. Append(s, x) \in Seq(Seq(E))
    OBVIOUS
  <2>2. Folded(Seq(Seq(E)), Seq(E), Keeps(E), <<>>, Append(s, x), WordsIn(Append(s, x)))
    BY <2>1, WordsInFolded
  <2>3. Folded(Seq(Seq(E)), Seq(E), Keeps(E), <<>>, s, WordsIn(s))
    BY WordsInFolded
  <2>4. WordsIn(Append(s, x)) = Keeps(E)[<<WordsIn(s), x>>]
    BY <2>2, <2>3, FoldedAppend
  <2> QED BY <1>2, <2>4 DEF Keeps
<1> QED BY <1>1, <1>2, <1>3

(* All of a sequence of texts, one after the other. *)
Joins(E) == [p \in Seq(E) \X Seq(E) |-> p[1] \o p[2]]
Together(parts) == FoldLeft(LAMBDA s, x : s \o x, <<>>, parts)

LEMMA TogetherType ==
  ASSUME NEW E
  PROVE  <<>> \in Seq(E) /\ \A v \in Seq(E) : \A x \in Seq(E) : v \o x \in Seq(E)
OBVIOUS

LEMMA TogetherFolded ==
  ASSUME NEW E, NEW s \in Seq(Seq(E))
  PROVE  Folded(Seq(E), Seq(E), Joins(E), <<>>, s, Together(s))
<1> DEFINE P(i) == i = [t \in SUBSET DOMAIN s |->
                          IF t = {} THEN <<>> ELSE i[t \ {Max(t)}] \o s[Max(t)]]
           step == Joins(E)
<1>1. Together(s) = (CHOOSE i : P(i))[DOMAIN s]
  BY Zenon DEF Together, FoldLeft, MapThenFoldSet
<1>2. step \in [Seq(E) \X Seq(E) -> Seq(E)] /\ <<>> \in Seq(E)
  BY TogetherType DEF Joins
<1>3. \A v \in Seq(E) : \A x \in Seq(E) : step[<<v, x>>] = v \o x
  BY DEF Joins
<1> HIDE DEF step
<1>4. DOMAIN s = 1..Len(s) /\ \A t \in SUBSET (1..Len(s)) : t # {} => s[Max(t)] \in Seq(E)
  <2>1. DOMAIN s = 1..Len(s) /\ Len(s) \in Nat /\ \A n \in 1..Len(s) : s[n] \in Seq(E)
    OBVIOUS
  <2> QED BY <2>1, Greatests
<1>5. PICK it : Iterated(it, Len(s), s, step, <<>>) /\ it \in [SUBSET (1..Len(s)) -> Seq(E)]
  BY <1>2, Iterates
<1>6. P(it)
  <2>1. ASSUME NEW t \in SUBSET (1..Len(s)), t # {}
        PROVE  step[<<it[t \ {Max(t)}], s[Max(t)]>>] = it[t \ {Max(t)}] \o s[Max(t)]
    <3>1. it[t \ {Max(t)}] \in Seq(E)
      BY <1>5
    <3> QED BY <1>3, <1>4, <2>1, <3>1
  <2> QED BY <1>4, <1>5, <2>1 DEF Iterated
<1> DEFINE i == CHOOSE i : P(i)
<1>7. P(i)
  <2> HIDE DEF P
  <2> QED BY <1>6
<1> HIDE DEF i
<1>8. i[{}] = <<>>
  BY <1>7
<1>9. ASSUME NEW t \in SUBSET (1..Len(s)), t # {}, i[t \ {Max(t)}] \in Seq(E)
      PROVE  i[t] = step[<<i[t \ {Max(t)}], s[Max(t)]>>]
  <2>1. i[t] = i[t \ {Max(t)}] \o s[Max(t)]
    BY <1>4, <1>7, <1>9
  <2> QED BY <1>3, <1>4, <1>9, <2>1
<1>10. Folded(Seq(E), Seq(E), step, <<>>, s, i[DOMAIN s])
  <2> HIDE DEF P
  <2> QED BY <1>2, <1>8, <1>9, Chosen
<1> QED BY <1>1, <1>10 DEF i, step

LEMMA TogetherFacts ==
  ASSUME NEW E
  PROVE  /\ Together(<<>>) = <<>>
         /\ \A s \in Seq(Seq(E)) :
              /\ Together(s) \in Seq(E)
              /\ \A x \in Seq(E) : Together(Append(s, x)) = Together(s) \o x
<1>1. Together(<<>>) = <<>>
  <2>1. <<>> \in Seq(Seq(E))
    OBVIOUS
  <2> QED BY <2>1, TogetherFolded, FoldedEmpty
<1>2. ASSUME NEW s \in Seq(Seq(E)) PROVE Together(s) \in Seq(E)
  BY TogetherFolded, FoldedType
<1>3. ASSUME NEW s \in Seq(Seq(E)), NEW x \in Seq(E)
      PROVE  Together(Append(s, x)) = Together(s) \o x
  <2>1. Append(s, x) \in Seq(Seq(E))
    OBVIOUS
  <2>2. Folded(Seq(E), Seq(E), Joins(E), <<>>, Append(s, x), Together(Append(s, x)))
    BY <2>1, TogetherFolded
  <2>3. Folded(Seq(E), Seq(E), Joins(E), <<>>, s, Together(s))
    BY TogetherFolded
  <2>4. Together(Append(s, x)) = Joins(E)[<<Together(s), x>>]
    BY <2>2, <2>3, FoldedAppend
  <2> QED BY <1>2, <2>4 DEF Joins
<1> QED BY <1>1, <1>2, <1>3

(* The runes of a line, and their bytes. *)
RuneBytes == \A r \in Rune : Bytes[r] \in Nat /\ Bytes[r] <= Limit

LEMMA BytesType == RuneBytes /\ Limit \in Nat
<1>1. \A r \in Rune : Bytes[r] \in Nat
  BY DEF Bytes, Rune
<1> QED BY <1>1, LimitAssumption, BoundsAssumption DEF RuneBytes

Weighs == [p \in Nat \X Rune |-> p[1] + Bytes[p[2]]]

LEMMA SizeType ==
  0 \in Nat /\ \A v \in Nat : \A x \in Rune : v + Bytes[x] \in Nat
BY BytesType DEF RuneBytes

LEMMA SizeFolded ==
  ASSUME NEW s \in Seq(Rune)
  PROVE  Folded(Nat, Rune, Weighs, 0, s, Size(s))
<1> DEFINE P(i) == i = [t \in SUBSET DOMAIN s |->
                          IF t = {} THEN 0 ELSE i[t \ {Max(t)}] + Bytes[s[Max(t)]]]
           step == Weighs
<1>1. Size(s) = (CHOOSE i : P(i))[DOMAIN s]
  BY Zenon DEF Size, FoldLeft, MapThenFoldSet
<1>2. step \in [Nat \X Rune -> Nat] /\ 0 \in Nat
  BY SizeType DEF Weighs
<1>3. \A v \in Nat : \A x \in Rune : step[<<v, x>>] = v + Bytes[x]
  BY DEF Weighs
<1> HIDE DEF step
<1>4. DOMAIN s = 1..Len(s) /\ \A t \in SUBSET (1..Len(s)) : t # {} => s[Max(t)] \in Rune
  <2>1. DOMAIN s = 1..Len(s) /\ Len(s) \in Nat /\ \A n \in 1..Len(s) : s[n] \in Rune
    OBVIOUS
  <2> QED BY <2>1, Greatests
<1>5. PICK it : Iterated(it, Len(s), s, step, 0) /\ it \in [SUBSET (1..Len(s)) -> Nat]
  BY <1>2, Iterates
<1>6. P(it)
  <2>1. ASSUME NEW t \in SUBSET (1..Len(s)), t # {}
        PROVE  step[<<it[t \ {Max(t)}], s[Max(t)]>>] = it[t \ {Max(t)}] + Bytes[s[Max(t)]]
    <3>1. it[t \ {Max(t)}] \in Nat
      BY <1>5
    <3> QED BY <1>3, <1>4, <2>1, <3>1
  <2> QED BY <1>4, <1>5, <2>1 DEF Iterated
<1> DEFINE i == CHOOSE i : P(i)
<1>7. P(i)
  <2> HIDE DEF P
  <2> QED BY <1>6
<1> HIDE DEF i
<1>8. i[{}] = 0
  BY <1>7
<1>9. ASSUME NEW t \in SUBSET (1..Len(s)), t # {}, i[t \ {Max(t)}] \in Nat
      PROVE  i[t] = step[<<i[t \ {Max(t)}], s[Max(t)]>>]
  <2>1. i[t] = i[t \ {Max(t)}] + Bytes[s[Max(t)]]
    BY <1>4, <1>7, <1>9
  <2> QED BY <1>3, <1>4, <1>9, <2>1
<1>10. Folded(Nat, Rune, step, 0, s, i[DOMAIN s])
  <2> HIDE DEF P
  <2> QED BY <1>2, <1>8, <1>9, Chosen
<1> QED BY <1>1, <1>10 DEF i, step

LEMMA SizeFacts ==
  /\ Size(<<>>) = 0
  /\ \A s \in Seq(Rune) :
       /\ Size(s) \in Nat
       /\ \A x \in Rune : Size(Append(s, x)) = Size(s) + Bytes[x]
<1>1. Size(<<>>) = 0
  <2>1. <<>> \in Seq(Rune)
    OBVIOUS
  <2> QED BY <2>1, SizeFolded, FoldedEmpty
<1>2. ASSUME NEW s \in Seq(Rune) PROVE Size(s) \in Nat
  BY SizeFolded, FoldedType
<1>3. ASSUME NEW s \in Seq(Rune), NEW x \in Rune
      PROVE  Size(Append(s, x)) = Size(s) + Bytes[x]
  <2>1. Append(s, x) \in Seq(Rune)
    OBVIOUS
  <2>2. Folded(Nat, Rune, Weighs, 0, Append(s, x), Size(Append(s, x)))
    BY <2>1, SizeFolded
  <2>3. Folded(Nat, Rune, Weighs, 0, s, Size(s))
    BY SizeFolded
  <2>4. Size(Append(s, x)) = Weighs[<<Size(s), x>>]
    BY <2>2, <2>3, FoldedAppend
  <2> QED BY <1>2, <2>4 DEF Weighs
<1> QED BY <1>1, <1>2, <1>3

PieceRecord == [out : Seq(Seq(Rune)), current : Seq(Rune), size : Nat]
Puts == [p \in PieceRecord \X Rune |-> Put(p[1], p[2])]
Filled(line) == FoldLeft(Put, NoPiece, line)

LEMMA FilledType ==
  NoPiece \in PieceRecord /\ \A v \in PieceRecord : \A x \in Rune : Put(v, x) \in PieceRecord
<1>1. NoPiece \in PieceRecord
  BY DEF NoPiece, PieceRecord
<1>2. ASSUME NEW v \in PieceRecord, NEW x \in Rune PROVE Put(v, x) \in PieceRecord
  <2>1. Bytes[x] \in Nat
    BY BytesType DEF RuneBytes
  <2>2. /\ v.out \in Seq(Seq(Rune)) /\ v.current \in Seq(Rune) /\ v.size \in Nat
    BY DEF PieceRecord
  <2>3. [out |-> Append(v.out, v.current), current |-> <<x>>, size |-> Bytes[x]] \in PieceRecord
    BY <2>1, <2>2 DEF PieceRecord
  <2>4. [v EXCEPT !.current = Append(@, x), !.size = @ + Bytes[x]] \in PieceRecord
    <3> DEFINE current == Append(v.current, x)
               size == v.size + Bytes[x]
    <3>1. current \in Seq(Rune) /\ size \in Nat
      BY <2>1, <2>2
    <3> HIDE DEF current, size
    <3>2. [v EXCEPT !.current = current, !.size = size] \in PieceRecord
      BY <3>1, <2>2 DEF PieceRecord
    <3> QED BY <3>2 DEF current, size
  <2> QED BY <2>3, <2>4 DEF Put
<1> QED BY <1>1, <1>2

LEMMA FilledFolded ==
  ASSUME NEW s \in Seq(Rune)
  PROVE  Folded(PieceRecord, Rune, Puts, NoPiece, s, Filled(s))
<1> DEFINE P(i) == i = [t \in SUBSET DOMAIN s |->
                          IF t = {} THEN NoPiece ELSE Put(i[t \ {Max(t)}], s[Max(t)])]
           step == Puts
<1>1. Filled(s) = (CHOOSE i : P(i))[DOMAIN s]
  BY Zenon DEF Filled, FoldLeft, MapThenFoldSet
<1>2. step \in [PieceRecord \X Rune -> PieceRecord] /\ NoPiece \in PieceRecord
  BY FilledType DEF Puts
<1>3. \A v \in PieceRecord : \A x \in Rune : step[<<v, x>>] = Put(v, x)
  BY DEF Puts
<1> HIDE DEF step
<1>4. DOMAIN s = 1..Len(s) /\ \A t \in SUBSET (1..Len(s)) : t # {} => s[Max(t)] \in Rune
  <2>1. DOMAIN s = 1..Len(s) /\ Len(s) \in Nat /\ \A n \in 1..Len(s) : s[n] \in Rune
    OBVIOUS
  <2> QED BY <2>1, Greatests
<1>5. PICK it : Iterated(it, Len(s), s, step, NoPiece) /\ it \in [SUBSET (1..Len(s)) -> PieceRecord]
  BY <1>2, Iterates
<1>6. P(it)
  <2>1. ASSUME NEW t \in SUBSET (1..Len(s)), t # {}
        PROVE  step[<<it[t \ {Max(t)}], s[Max(t)]>>] = Put(it[t \ {Max(t)}], s[Max(t)])
    <3>1. it[t \ {Max(t)}] \in PieceRecord
      BY <1>5
    <3> QED BY <1>3, <1>4, <2>1, <3>1
  <2> QED BY <1>4, <1>5, <2>1 DEF Iterated
<1> DEFINE i == CHOOSE i : P(i)
<1>7. P(i)
  <2> HIDE DEF P
  <2> QED BY <1>6
<1> HIDE DEF i
<1>8. i[{}] = NoPiece
  BY <1>7
<1>9. ASSUME NEW t \in SUBSET (1..Len(s)), t # {}, i[t \ {Max(t)}] \in PieceRecord
      PROVE  i[t] = step[<<i[t \ {Max(t)}], s[Max(t)]>>]
  <2>1. i[t] = Put(i[t \ {Max(t)}], s[Max(t)])
    BY <1>4, <1>7, <1>9
  <2> QED BY <1>3, <1>4, <1>9, <2>1
<1>10. Folded(PieceRecord, Rune, step, NoPiece, s, i[DOMAIN s])
  <2> HIDE DEF P
  <2> QED BY <1>2, <1>8, <1>9, Chosen
<1> QED BY <1>1, <1>10 DEF i, step

LEMMA FilledFacts ==
  /\ Filled(<<>>) = NoPiece
  /\ \A s \in Seq(Rune) :
       /\ Filled(s) \in PieceRecord
       /\ \A x \in Rune : Filled(Append(s, x)) = Put(Filled(s), x)
<1>1. Filled(<<>>) = NoPiece
  <2>1. <<>> \in Seq(Rune)
    OBVIOUS
  <2> QED BY <2>1, FilledFolded, FoldedEmpty
<1>2. ASSUME NEW s \in Seq(Rune) PROVE Filled(s) \in PieceRecord
  BY FilledFolded, FoldedType
<1>3. ASSUME NEW s \in Seq(Rune), NEW x \in Rune
      PROVE  Filled(Append(s, x)) = Put(Filled(s), x)
  <2>1. Append(s, x) \in Seq(Rune)
    OBVIOUS
  <2>2. Folded(PieceRecord, Rune, Puts, NoPiece, Append(s, x), Filled(Append(s, x)))
    BY <2>1, FilledFolded
  <2>3. Folded(PieceRecord, Rune, Puts, NoPiece, s, Filled(s))
    BY FilledFolded
  <2>4. Filled(Append(s, x)) = Puts[<<Filled(s), x>>]
    BY <2>2, <2>3, FoldedAppend
  <2> QED BY <1>2, <2>4 DEF Puts
<1> QED BY <1>1, <1>2, <1>3

(* The lines of a text. *)
Gather(out, line) == IF Blank(line) THEN out ELSE out \o LinePieces(line)
Gathers == [p \in Seq(Seq(Rune)) \X Seq(Rune) |-> Gather(p[1], p[2])]
Pieces(lines) ==
  FoldLeft(LAMBDA out, line : IF Blank(line) THEN out ELSE out \o LinePieces(line), <<>>, lines)

LEMMA LineType ==
  ASSUME NEW line \in Seq(Rune)
  PROVE  LinePieces(line) \in Seq(Seq(Rune))
<1>1. Filled(line) \in PieceRecord
  BY FilledFacts
<1>2. LinePieces(line) = IF Filled(line).current # <<>>
                           THEN Append(Filled(line).out, Filled(line).current)
                           ELSE Filled(line).out
  BY DEF LinePieces, Filled
<1> QED BY <1>1, <1>2 DEF PieceRecord

LEMMA PiecesType ==
  <<>> \in Seq(Seq(Rune))
    /\ \A v \in Seq(Seq(Rune)) : \A x \in Seq(Rune) : Gather(v, x) \in Seq(Seq(Rune))
BY LineType DEF Gather

LEMMA PiecesFolded ==
  ASSUME NEW s \in Seq(Seq(Rune))
  PROVE  Folded(Seq(Seq(Rune)), Seq(Rune), Gathers, <<>>, s, Pieces(s))
<1> DEFINE P(i) == i = [t \in SUBSET DOMAIN s |->
                          IF t = {} THEN <<>> ELSE Gather(i[t \ {Max(t)}], s[Max(t)])]
           step == Gathers
<1>1. Pieces(s) = (CHOOSE i : P(i))[DOMAIN s]
  BY Zenon DEF Pieces, Gather, FoldLeft, MapThenFoldSet
<1>2. step \in [Seq(Seq(Rune)) \X Seq(Rune) -> Seq(Seq(Rune))] /\ <<>> \in Seq(Seq(Rune))
  BY PiecesType DEF Gathers
<1>3. \A v \in Seq(Seq(Rune)) : \A x \in Seq(Rune) : step[<<v, x>>] = Gather(v, x)
  BY DEF Gathers
<1> HIDE DEF step
<1>4. DOMAIN s = 1..Len(s) /\ \A t \in SUBSET (1..Len(s)) : t # {} => s[Max(t)] \in Seq(Rune)
  <2>1. DOMAIN s = 1..Len(s) /\ Len(s) \in Nat /\ \A n \in 1..Len(s) : s[n] \in Seq(Rune)
    OBVIOUS
  <2> QED BY <2>1, Greatests
<1>5. PICK it : Iterated(it, Len(s), s, step, <<>>) /\ it \in [SUBSET (1..Len(s)) -> Seq(Seq(Rune))]
  BY <1>2, Iterates
<1>6. P(it)
  <2>1. ASSUME NEW t \in SUBSET (1..Len(s)), t # {}
        PROVE  step[<<it[t \ {Max(t)}], s[Max(t)]>>] = Gather(it[t \ {Max(t)}], s[Max(t)])
    <3>1. it[t \ {Max(t)}] \in Seq(Seq(Rune))
      BY <1>5
    <3> QED BY <1>3, <1>4, <2>1, <3>1
  <2> QED BY <1>4, <1>5, <2>1 DEF Iterated
<1> DEFINE i == CHOOSE i : P(i)
<1>7. P(i)
  <2> HIDE DEF P
  <2> QED BY <1>6
<1> HIDE DEF i
<1>8. i[{}] = <<>>
  BY <1>7
<1>9. ASSUME NEW t \in SUBSET (1..Len(s)), t # {}, i[t \ {Max(t)}] \in Seq(Seq(Rune))
      PROVE  i[t] = step[<<i[t \ {Max(t)}], s[Max(t)]>>]
  <2>1. i[t] = Gather(i[t \ {Max(t)}], s[Max(t)])
    BY <1>4, <1>7, <1>9
  <2> QED BY <1>3, <1>4, <1>9, <2>1
<1>10. Folded(Seq(Seq(Rune)), Seq(Rune), step, <<>>, s, i[DOMAIN s])
  <2> HIDE DEF P
  <2> QED BY <1>2, <1>8, <1>9, Chosen
<1> QED BY <1>1, <1>10 DEF i, step

LEMMA PiecesFacts ==
  /\ Pieces(<<>>) = <<>>
  /\ \A s \in Seq(Seq(Rune)) :
       /\ Pieces(s) \in Seq(Seq(Rune))
       /\ \A x \in Seq(Rune) : Pieces(Append(s, x)) = Gather(Pieces(s), x)
<1>1. Pieces(<<>>) = <<>>
  <2>1. <<>> \in Seq(Seq(Rune))
    OBVIOUS
  <2> QED BY <2>1, PiecesFolded, FoldedEmpty
<1>2. ASSUME NEW s \in Seq(Seq(Rune)) PROVE Pieces(s) \in Seq(Seq(Rune))
  BY PiecesFolded, FoldedType
<1>3. ASSUME NEW s \in Seq(Seq(Rune)), NEW x \in Seq(Rune)
      PROVE  Pieces(Append(s, x)) = Gather(Pieces(s), x)
  <2>1. Append(s, x) \in Seq(Seq(Rune))
    OBVIOUS
  <2>2. Folded(Seq(Seq(Rune)), Seq(Rune), Gathers, <<>>, Append(s, x), Pieces(Append(s, x)))
    BY <2>1, PiecesFolded
  <2>3. Folded(Seq(Seq(Rune)), Seq(Rune), Gathers, <<>>, s, Pieces(s))
    BY PiecesFolded
  <2>4. Pieces(Append(s, x)) = Gathers[<<Pieces(s), x>>]
    BY <2>2, <2>3, FoldedAppend
  <2> QED BY <1>2, <2>4 DEF Gathers
<1> QED BY <1>1, <1>2, <1>3

(* What a text says, by its indices. *)
Say(s, i, text) == IF Worded(text, i) THEN Append(s, text[i]) ELSE s
Says(text) == [p \in Seq(Rune) \X DOMAIN text |-> Say(p[1], p[2], text)]
SaidBy(is, text) ==
  FoldLeft(LAMBDA s, i : IF Worded(text, i) THEN Append(s, text[i]) ELSE s, <<>>, is)

LEMMA SaidByType ==
  ASSUME NEW text, text \in Seq(Rune)
  PROVE  <<>> \in Seq(Rune) /\ \A v \in Seq(Rune) : \A x \in DOMAIN text : Say(v, x, text) \in Seq(Rune)
<1>1. \A x \in DOMAIN text : text[x] \in Rune
  OBVIOUS
<1> QED BY <1>1 DEF Say

LEMMA SaidByFolded ==
  ASSUME NEW text, text \in Seq(Rune), NEW s \in Seq(DOMAIN text)
  PROVE  Folded(Seq(Rune), DOMAIN text, Says(text), <<>>, s, SaidBy(s, text))
<1> DEFINE P(i) == i = [t \in SUBSET DOMAIN s |->
                          IF t = {} THEN <<>> ELSE Say(i[t \ {Max(t)}], s[Max(t)], text)]
           step == Says(text)
<1>1. SaidBy(s, text) = (CHOOSE i : P(i))[DOMAIN s]
  BY Zenon DEF SaidBy, Say, FoldLeft, MapThenFoldSet
<1>2. step \in [Seq(Rune) \X DOMAIN text -> Seq(Rune)] /\ <<>> \in Seq(Rune)
  BY SaidByType DEF Says
<1>3. \A v \in Seq(Rune) : \A x \in DOMAIN text : step[<<v, x>>] = Say(v, x, text)
  BY DEF Says
<1> HIDE DEF step
<1>4. DOMAIN s = 1..Len(s) /\ \A t \in SUBSET (1..Len(s)) : t # {} => s[Max(t)] \in DOMAIN text
  <2>1. DOMAIN s = 1..Len(s) /\ Len(s) \in Nat /\ \A n \in 1..Len(s) : s[n] \in DOMAIN text
    OBVIOUS
  <2> QED BY <2>1, Greatests
<1>5. PICK it : Iterated(it, Len(s), s, step, <<>>) /\ it \in [SUBSET (1..Len(s)) -> Seq(Rune)]
  BY <1>2, Iterates
<1>6. P(it)
  <2>1. ASSUME NEW t \in SUBSET (1..Len(s)), t # {}
        PROVE  step[<<it[t \ {Max(t)}], s[Max(t)]>>] = Say(it[t \ {Max(t)}], s[Max(t)], text)
    <3>1. it[t \ {Max(t)}] \in Seq(Rune)
      BY <1>5
    <3> QED BY <1>3, <1>4, <2>1, <3>1
  <2> QED BY <1>4, <1>5, <2>1 DEF Iterated
<1> DEFINE i == CHOOSE i : P(i)
<1>7. P(i)
  <2> HIDE DEF P
  <2> QED BY <1>6
<1> HIDE DEF i
<1>8. i[{}] = <<>>
  BY <1>7
<1>9. ASSUME NEW t \in SUBSET (1..Len(s)), t # {}, i[t \ {Max(t)}] \in Seq(Rune)
      PROVE  i[t] = step[<<i[t \ {Max(t)}], s[Max(t)]>>]
  <2>1. i[t] = Say(i[t \ {Max(t)}], s[Max(t)], text)
    BY <1>4, <1>7, <1>9
  <2> QED BY <1>3, <1>4, <1>9, <2>1
<1>10. Folded(Seq(Rune), DOMAIN text, step, <<>>, s, i[DOMAIN s])
  <2> HIDE DEF P
  <2> QED BY <1>2, <1>8, <1>9, Chosen
<1> QED BY <1>1, <1>10 DEF i, step

LEMMA SaidByFacts ==
  ASSUME NEW text, text \in Seq(Rune)
  PROVE  /\ SaidBy(<<>>, text) = <<>>
         /\ \A s \in Seq(DOMAIN text) :
              /\ SaidBy(s, text) \in Seq(Rune)
              /\ \A x \in DOMAIN text : SaidBy(Append(s, x), text) = Say(SaidBy(s, text), x, text)
<1>1. SaidBy(<<>>, text) = <<>>
  <2>1. <<>> \in Seq(DOMAIN text)
    OBVIOUS
  <2> QED BY <2>1, SaidByFolded, FoldedEmpty
<1>2. ASSUME NEW s \in Seq(DOMAIN text) PROVE SaidBy(s, text) \in Seq(Rune)
  BY SaidByFolded, FoldedType
<1>3. ASSUME NEW s \in Seq(DOMAIN text), NEW x \in DOMAIN text
      PROVE  SaidBy(Append(s, x), text) = Say(SaidBy(s, text), x, text)
  <2>1. Append(s, x) \in Seq(DOMAIN text)
    OBVIOUS
  <2>2. Folded(Seq(Rune), DOMAIN text, Says(text), <<>>, Append(s, x), SaidBy(Append(s, x), text))
    BY <2>1, SaidByFolded
  <2>3. Folded(Seq(Rune), DOMAIN text, Says(text), <<>>, s, SaidBy(s, text))
    BY SaidByFolded
  <2>4. SaidBy(Append(s, x), text) = Says(text)[<<SaidBy(s, text), x>>]
    BY <2>2, <2>3, FoldedAppend
  <2> QED BY <1>2, <2>4 DEF Says
<1> QED BY <1>1, <1>2, <1>3

(* What the peer hears of a command. *)
Mark == [by : Sends, piece : Nat \ {0}, text : Seq(Rune)]
Hear(s, g, k) == IF g.by = k THEN s \o g.text ELSE s
Hears(k) == [p \in Seq(Rune) \X Mark |-> Hear(p[1], p[2], k)]
HeardIn(p, k) == FoldLeft(LAMBDA s, g : IF g.by = k THEN s \o g.text ELSE s, <<>>, p)

LEMMA HeardInType ==
  ASSUME NEW k
  PROVE  <<>> \in Seq(Rune) /\ \A v \in Seq(Rune) : \A x \in Mark : Hear(v, x, k) \in Seq(Rune)
BY DEF Hear, Mark

LEMMA HeardInFolded ==
  ASSUME NEW k, NEW s \in Seq(Mark)
  PROVE  Folded(Seq(Rune), Mark, Hears(k), <<>>, s, HeardIn(s, k))
<1> DEFINE P(i) == i = [t \in SUBSET DOMAIN s |->
                          IF t = {} THEN <<>> ELSE Hear(i[t \ {Max(t)}], s[Max(t)], k)]
           step == Hears(k)
<1>1. HeardIn(s, k) = (CHOOSE i : P(i))[DOMAIN s]
  BY Zenon DEF HeardIn, Hear, FoldLeft, MapThenFoldSet
<1>2. step \in [Seq(Rune) \X Mark -> Seq(Rune)] /\ <<>> \in Seq(Rune)
  BY HeardInType DEF Hears
<1>3. \A v \in Seq(Rune) : \A x \in Mark : step[<<v, x>>] = Hear(v, x, k)
  BY DEF Hears
<1> HIDE DEF step
<1>4. DOMAIN s = 1..Len(s) /\ \A t \in SUBSET (1..Len(s)) : t # {} => s[Max(t)] \in Mark
  <2>1. DOMAIN s = 1..Len(s) /\ Len(s) \in Nat /\ \A n \in 1..Len(s) : s[n] \in Mark
    OBVIOUS
  <2> QED BY <2>1, Greatests
<1>5. PICK it : Iterated(it, Len(s), s, step, <<>>) /\ it \in [SUBSET (1..Len(s)) -> Seq(Rune)]
  BY <1>2, Iterates
<1>6. P(it)
  <2>1. ASSUME NEW t \in SUBSET (1..Len(s)), t # {}
        PROVE  step[<<it[t \ {Max(t)}], s[Max(t)]>>] = Hear(it[t \ {Max(t)}], s[Max(t)], k)
    <3>1. it[t \ {Max(t)}] \in Seq(Rune)
      BY <1>5
    <3> QED BY <1>3, <1>4, <2>1, <3>1
  <2> QED BY <1>4, <1>5, <2>1 DEF Iterated
<1> DEFINE i == CHOOSE i : P(i)
<1>7. P(i)
  <2> HIDE DEF P
  <2> QED BY <1>6
<1> HIDE DEF i
<1>8. i[{}] = <<>>
  BY <1>7
<1>9. ASSUME NEW t \in SUBSET (1..Len(s)), t # {}, i[t \ {Max(t)}] \in Seq(Rune)
      PROVE  i[t] = step[<<i[t \ {Max(t)}], s[Max(t)]>>]
  <2>1. i[t] = Hear(i[t \ {Max(t)}], s[Max(t)], k)
    BY <1>4, <1>7, <1>9
  <2> QED BY <1>3, <1>4, <1>9, <2>1
<1>10. Folded(Seq(Rune), Mark, step, <<>>, s, i[DOMAIN s])
  <2> HIDE DEF P
  <2> QED BY <1>2, <1>8, <1>9, Chosen
<1> QED BY <1>1, <1>10 DEF i, step

LEMMA HeardInFacts ==
  ASSUME NEW k
  PROVE  /\ HeardIn(<<>>, k) = <<>>
         /\ \A s \in Seq(Mark) :
              /\ HeardIn(s, k) \in Seq(Rune)
              /\ \A x \in Mark : HeardIn(Append(s, x), k) = Hear(HeardIn(s, k), x, k)
<1>1. HeardIn(<<>>, k) = <<>>
  <2>1. <<>> \in Seq(Mark)
    OBVIOUS
  <2> QED BY <2>1, HeardInFolded, FoldedEmpty
<1>2. ASSUME NEW s \in Seq(Mark) PROVE HeardIn(s, k) \in Seq(Rune)
  BY HeardInFolded, FoldedType
<1>3. ASSUME NEW s \in Seq(Mark), NEW x \in Mark
      PROVE  HeardIn(Append(s, x), k) = Hear(HeardIn(s, k), x, k)
  <2>1. Append(s, x) \in Seq(Mark)
    OBVIOUS
  <2>2. Folded(Seq(Rune), Mark, Hears(k), <<>>, Append(s, x), HeardIn(Append(s, x), k))
    BY <2>1, HeardInFolded
  <2>3. Folded(Seq(Rune), Mark, Hears(k), <<>>, s, HeardIn(s, k))
    BY HeardInFolded
  <2>4. HeardIn(Append(s, x), k) = Hears(k)[<<HeardIn(s, k), x>>]
    BY <2>2, <2>3, FoldedAppend
  <2> QED BY <1>2, <2>4 DEF Hears
<1> QED BY <1>1, <1>2, <1>3

----------------------------------------------------------------------------
(* The pieces of a line: put together they are the line, and each fits. *)

LEMMA Glued ==
  ASSUME NEW E, NEW a \in Seq(E), NEW b \in Seq(E), NEW x \in E
  PROVE  /\ a \o Append(b, x) = Append(a \o b, x)
         /\ Append(a, x) = a \o <<x>>
         /\ a \o <<>> = a /\ <<>> \o a = a
BY AppendIsConcat, ConcatAssociative, ConcatEmptySeq, ConcatProperties

LEMMA Grouped ==
  ASSUME NEW E, NEW a \in Seq(E), NEW b \in Seq(E), NEW c \in Seq(E)
  PROVE  (a \o b) \o c = a \o (b \o c)
BY ConcatAssociative

LEMMA TogetherConcat ==
  ASSUME NEW E, NEW a \in Seq(Seq(E))
  PROVE  \A b \in Seq(Seq(E)) : Together(a \o b) = Together(a) \o Together(b)
<1> DEFINE T == {b \in Seq(Seq(E)) : Together(a \o b) = Together(a) \o Together(b)}
<1>1. \A s \in Seq(Seq(E)) : Together(s) \in Seq(E)
  BY TogetherFacts
<1>2. <<>> \in T
  <2>1. <<>> \in Seq(Seq(E)) /\ a \o <<>> = a
    BY ConcatEmptySeq
  <2>2. Together(<<>>) = <<>>
    BY TogetherFacts
  <2>3. Together(a) \o <<>> = Together(a)
    BY <1>1, ConcatEmptySeq
  <2> QED BY <2>1, <2>2, <2>3
<1>3. ASSUME NEW b \in T, NEW x \in Seq(E) PROVE Append(b, x) \in T
  <2>1. b \in Seq(Seq(E)) /\ Append(b, x) \in Seq(Seq(E)) /\ a \o b \in Seq(Seq(E))
    OBVIOUS
  <2>2. a \o Append(b, x) = Append(a \o b, x)
    BY <2>1, Glued
  <2>3. Together(Append(a \o b, x)) = Together(a \o b) \o x
    BY <2>1, TogetherFacts
  <2>4. Together(Append(b, x)) = Together(b) \o x
    BY <2>1, TogetherFacts
  <2>5. Together(a \o b) = Together(a) \o Together(b)
    OBVIOUS
  <2>6. (Together(a) \o Together(b)) \o x = Together(a) \o (Together(b) \o x)
    BY <1>1, <2>1, Grouped
  <2>7. Together(a \o Append(b, x)) = Together(a) \o Together(Append(b, x))
    BY <2>2, <2>3, <2>4, <2>5, <2>6
  <2> QED BY <2>1, <2>7
<1>4. T = Seq(Seq(E))
  <2>1. T \subseteq Seq(Seq(E))
    OBVIOUS
  <2> HIDE DEF T
  <2> QED BY <1>2, <1>3, <2>1, Sequencing
<1> QED BY <1>4

Fits(piece) == piece \in Seq(Rune) /\ piece # <<>> /\ Size(piece) <= Limit
AllFit(parts) == \A i \in 1..Len(parts) : Fits(parts[i])

LEMMA FitMore ==
  ASSUME NEW a \in Seq(Seq(Rune)), AllFit(a), NEW x \in Seq(Rune), Fits(x)
  PROVE  AllFit(Append(a, x))
<1>1. \A i \in 1..Len(Append(a, x)) : i \in 1..Len(a) \/ i = Len(a) + 1
  OBVIOUS
<1>2. \A i \in 1..Len(a) : Append(a, x)[i] = a[i]
  OBVIOUS
<1>3. Append(a, x)[Len(a) + 1] = x
  OBVIOUS
<1> QED BY <1>1, <1>2, <1>3 DEF AllFit

LEMMA FitBoth ==
  ASSUME NEW a \in Seq(Seq(Rune)), AllFit(a), NEW b \in Seq(Seq(Rune)), AllFit(b)
  PROVE  AllFit(a \o b)
<1> SUFFICES ASSUME NEW i \in 1..Len(a \o b)
             PROVE  Fits((a \o b)[i])
  BY DEF AllFit
<1>1. Len(a) \in Nat /\ Len(b) \in Nat /\ Len(a \o b) = Len(a) + Len(b)
  OBVIOUS
<1>2. CASE i <= Len(a)
  <2>1. i \in 1..Len(a) /\ (a \o b)[i] = a[i]
    BY <1>1, <1>2
  <2> QED BY <2>1 DEF AllFit
<1>3. CASE i > Len(a)
  <2>1. i - Len(a) \in 1..Len(b) /\ (a \o b)[i] = b[i - Len(a)]
    BY <1>1, <1>3
  <2> QED BY <2>1 DEF AllFit
<1> QED BY <1>1, <1>2, <1>3

(* What is true of the piece at hand after every rune of a line. *)
Fill(p, line) ==
  /\ Together(p.out) \o p.current = line /\ AllFit(p.out)
  /\ p.size = Size(p.current) /\ p.size <= Limit

LEMMA SizeOne ==
  ASSUME NEW r \in Rune
  PROVE  Size(<<r>>) = Bytes[r] /\ Bytes[r] \in Nat /\ Bytes[r] <= Limit /\ Limit \in Nat
<1>1. <<r>> = Append(<<>>, r) /\ <<>> \in Seq(Rune)
  OBVIOUS
<1>2. Size(<<>>) = 0 /\ Size(Append(<<>>, r)) = Size(<<>>) + Bytes[r]
  BY <1>1, SizeFacts
<1>3. Bytes[r] \in Nat /\ Bytes[r] <= Limit /\ Limit \in Nat
  BY BytesType DEF RuneBytes
<1> QED BY <1>1, <1>2, <1>3

LEMMA FilledFills ==
  ASSUME NEW line \in Seq(Rune)
  PROVE  Fill(Filled(line), line)
<1> DEFINE T == {l \in Seq(Rune) : Fill(Filled(l), l)}
<1>1. <<>> \in T
  <2>1. Filled(<<>>) = NoPiece
    BY FilledFacts
  <2>2. Together(<<>>) = <<>> /\ Size(<<>>) = 0 /\ Limit \in Nat
    BY TogetherFacts, SizeFacts, BytesType
  <2>3. NoPiece.out = <<>> /\ NoPiece.current = <<>> /\ NoPiece.size = 0
    BY DEF NoPiece
  <2>4. <<>> \o <<>> = <<>> /\ AllFit(<<>>)
    BY DEF AllFit
  <2>5. Fill(NoPiece, <<>>)
    BY <2>2, <2>3, <2>4 DEF Fill
  <2> QED BY <2>1, <2>5
<1>2. ASSUME NEW l \in T, NEW r \in Rune PROVE Append(l, r) \in T
  <2> DEFINE p == Filled(l)
             q == Filled(Append(l, r))
  <2>1. l \in Seq(Rune) /\ Append(l, r) \in Seq(Rune) /\ p \in PieceRecord /\ q = Put(p, r) /\ Fill(p, l)
    BY FilledFacts
  <2> HIDE DEF p, q
  <2>2. /\ p.out \in Seq(Seq(Rune)) /\ p.current \in Seq(Rune) /\ p.size \in Nat
        /\ Together(p.out) \o p.current = l /\ AllFit(p.out)
        /\ p.size = Size(p.current) /\ p.size <= Limit
    BY <2>1 DEF PieceRecord, Fill
  <2>3. Together(p.out) \in Seq(Rune)
    BY <2>2, TogetherFacts
  <2>4. Size(<<r>>) = Bytes[r] /\ Bytes[r] \in Nat /\ Bytes[r] <= Limit /\ Limit \in Nat
    BY SizeOne
  <2> DEFINE full == p.size + Bytes[r] > Limit /\ p.current # <<>>
  <2>5. ASSUME full PROVE Fill(q, Append(l, r))
    <3>1. q.out = Append(p.out, p.current) /\ q.current = <<r>> /\ q.size = Bytes[r]
      BY <2>1, <2>5 DEF Put
    <3>2. Together(q.out) = l
      BY <2>2, <3>1, TogetherFacts
    <3>3. Together(q.out) \o q.current = Append(l, r)
      BY <2>1, <3>1, <3>2, Glued
    <3>4. AllFit(q.out)
      BY <2>2, <2>5, <3>1, FitMore DEF Fits
    <3>5. q.size = Size(q.current) /\ q.size <= Limit
      BY <2>4, <3>1
    <3> QED BY <3>3, <3>4, <3>5 DEF Fill
  <2>6. ASSUME ~full PROVE Fill(q, Append(l, r))
    <3> DEFINE current == Append(p.current, r)
               size == p.size + Bytes[r]
    <3>1. q = [p EXCEPT !.current = current, !.size = size]
      BY <2>1, <2>6 DEF Put
    <3>2. current = Append(p.current, r) /\ size = p.size + Bytes[r]
      OBVIOUS
    <3> HIDE DEF current, size
    <3>3. q.out = p.out /\ q.current = current /\ q.size = size
      BY <2>1, <3>1 DEF PieceRecord
    <3>4. Together(p.out) \o current = Append(l, r)
      <4>1. \A a, b \in Seq(Rune) : a \o Append(b, r) = Append(a \o b, r)
        BY Glued
      <4>2. Together(p.out) \o Append(p.current, r) = Append(Together(p.out) \o p.current, r)
        BY <2>2, <2>3, <4>1
      <4> QED BY <2>2, <3>2, <4>2
    <3>5. size = Size(current)
      BY <2>2, <3>2, SizeFacts
    <3>6. size <= Limit
      <4>1. p.current = <<>> => p.size = 0
        BY <2>2, SizeFacts
      <4>2. CASE p.current = <<>>
        BY <2>4, <3>2, <4>1, <4>2
      <4>3. CASE ~(p.size + Bytes[r] > Limit)
        BY <2>2, <2>4, <3>2, <4>3
      <4> QED BY <2>6, <4>2, <4>3
    <3> QED BY <2>2, <3>3, <3>4, <3>5, <3>6 DEF Fill
  <2>7. Fill(q, Append(l, r))
    <3> HIDE DEF full
    <3> QED BY <2>5, <2>6
  <2> QED BY <2>1, <2>7 DEF q
<1>3. T = Seq(Rune)
  <2>1. T \subseteq Seq(Rune)
    OBVIOUS
  <2> HIDE DEF T
  <2> QED BY <1>1, <1>2, <2>1, Sequencing
<1> QED BY <1>3

LEMMA LineWhole ==
  ASSUME NEW line \in Seq(Rune)
  PROVE  Together(LinePieces(line)) = line /\ AllFit(LinePieces(line))
<1> DEFINE p == Filled(line)
<1>1. p \in PieceRecord /\ Fill(p, line)
  BY FilledFacts, FilledFills
<1>2. LinePieces(line) = IF p.current # <<>> THEN Append(p.out, p.current) ELSE p.out
  BY DEF LinePieces, Filled
<1> HIDE DEF p
<1>3. /\ p.out \in Seq(Seq(Rune)) /\ p.current \in Seq(Rune)
      /\ Together(p.out) \o p.current = line /\ AllFit(p.out) /\ Size(p.current) <= Limit
  BY <1>1 DEF PieceRecord, Fill
<1>4. CASE p.current # <<>>
  <2>1. Together(Append(p.out, p.current)) = line
    BY <1>3, TogetherFacts
  <2>2. AllFit(Append(p.out, p.current))
    BY <1>3, <1>4, FitMore DEF Fits
  <2> QED BY <1>2, <1>4, <2>1, <2>2
<1>5. CASE p.current = <<>>
  <2>1. Together(p.out) \in Seq(Rune)
    BY <1>3, TogetherFacts
  <2>2. Together(p.out) = line
    BY <1>3, <1>5, <2>1, ConcatEmptySeq
  <2> QED BY <1>2, <1>3, <1>5, <2>2
<1> QED BY <1>4, <1>5

(* The pieces of lines, one line more. *)
LEMMA PiecesMore ==
  ASSUME NEW lines \in Seq(Seq(Rune)), NEW line \in Seq(Rune)
  PROVE  Together(Pieces(Append(lines, line))) =
           Together(Pieces(lines)) \o (IF Blank(line) THEN <<>> ELSE line)
<1>1. Pieces(Append(lines, line)) = Gather(Pieces(lines), line) /\ Pieces(lines) \in Seq(Seq(Rune))
  BY PiecesFacts
<1>2. Together(Pieces(lines)) \in Seq(Rune)
  BY <1>1, TogetherFacts
<1>3. CASE Blank(line)
  BY <1>1, <1>2, <1>3, ConcatEmptySeq DEF Gather
<1>4. CASE ~Blank(line)
  <2>1. Pieces(Append(lines, line)) = Pieces(lines) \o LinePieces(line)
    BY <1>1, <1>4 DEF Gather
  <2>2. LinePieces(line) \in Seq(Seq(Rune)) /\ Together(LinePieces(line)) = line
    BY LineType, LineWhole
  <2> QED BY <1>1, <1>4, <2>1, <2>2, TogetherConcat
<1> QED BY <1>3, <1>4

LEMMA PiecesFit ==
  ASSUME NEW lines \in Seq(Seq(Rune))
  PROVE  AllFit(Pieces(lines))
<1> DEFINE T == {ls \in Seq(Seq(Rune)) : AllFit(Pieces(ls))}
<1>1. <<>> \in T
  <2>1. Pieces(<<>>) = <<>>
    BY PiecesFacts
  <2> QED BY <2>1 DEF AllFit
<1>2. ASSUME NEW ls \in T, NEW line \in Seq(Rune) PROVE Append(ls, line) \in T
  <2>1. ls \in Seq(Seq(Rune)) /\ Append(ls, line) \in Seq(Seq(Rune)) /\ AllFit(Pieces(ls))
    OBVIOUS
  <2>2. Pieces(Append(ls, line)) = Gather(Pieces(ls), line) /\ Pieces(ls) \in Seq(Seq(Rune))
    BY <2>1, PiecesFacts
  <2>3. LinePieces(line) \in Seq(Seq(Rune)) /\ AllFit(LinePieces(line))
    BY LineType, LineWhole
  <2>4. AllFit(Pieces(Append(ls, line)))
    BY <2>1, <2>2, <2>3, FitBoth DEF Gather
  <2> QED BY <2>1, <2>4
<1>3. T = Seq(Seq(Rune))
  <2>1. T \subseteq Seq(Seq(Rune))
    OBVIOUS
  <2> HIDE DEF T
  <2> QED BY <1>1, <1>2, <2>1, Sequencing
<1> QED BY <1>3

----------------------------------------------------------------------------
(* What a text says is what its pieces say together. *)

UpTo(n) == [i \in 1..n |-> i]
Told(text, n) == SaidBy(UpTo(n), text)
Spoken(lines) == Together(Pieces(lines))

LEMMA ToldNothing ==
  ASSUME NEW text, text \in Seq(Rune)
  PROVE  Told(text, 0) = <<>>
<1>1. UpTo(0) = <<>>
  BY DEF UpTo
<1> QED BY <1>1, SaidByFacts DEF Told

LEMMA ToldMore ==
  ASSUME NEW text, text \in Seq(Rune), NEW n \in Nat, n < Len(text)
  PROVE  /\ Told(text, n) \in Seq(Rune)
         /\ Told(text, n + 1) = Say(Told(text, n), n + 1, text)
<1>1. Len(text) \in Nat /\ DOMAIN text = 1..Len(text)
  OBVIOUS
<1>2. UpTo(n) \in Seq(DOMAIN text) /\ n + 1 \in DOMAIN text
  BY <1>1 DEF UpTo
<1>3. UpTo(n + 1) = Append(UpTo(n), n + 1)
  <2>1. UpTo(n) \in Seq(Nat) /\ Len(UpTo(n)) = n /\ \A i \in 1..n : UpTo(n)[i] = i
    BY DEF UpTo
  <2>2. UpTo(n + 1) \in Seq(Nat) /\ Len(UpTo(n + 1)) = n + 1 /\ \A i \in 1..(n + 1) : UpTo(n + 1)[i] = i
    BY DEF UpTo
  <2>3. Append(UpTo(n), n + 1) \in Seq(Nat) /\ Len(Append(UpTo(n), n + 1)) = n + 1
        /\ \A i \in 1..n : Append(UpTo(n), n + 1)[i] = i
        /\ Append(UpTo(n), n + 1)[n + 1] = n + 1
    BY <2>1
  <2>4. \A i \in 1..(n + 1) : i \in 1..n \/ i = n + 1
    OBVIOUS
  <2>5. \A i \in 1..(n + 1) : UpTo(n + 1)[i] = Append(UpTo(n), n + 1)[i]
    BY <2>2, <2>3, <2>4
  <2> QED BY <2>2, <2>3, <2>5, SeqEqual
<1> QED BY <1>2, <1>3, SaidByFacts DEF Told

LEMMA ToldType ==
  ASSUME NEW text, text \in Seq(Rune), NEW n \in Nat, n <= Len(text)
  PROVE  Told(text, n) \in Seq(Rune)
<1>1. Len(text) \in Nat /\ DOMAIN text = 1..Len(text)
  OBVIOUS
<1>2. UpTo(n) \in Seq(DOMAIN text)
  BY <1>1 DEF UpTo
<1> QED BY <1>2, SaidByFacts DEF Told

LEMMA ToldSame ==
  ASSUME NEW s, s \in Seq(Rune), NEW t, t \in Seq(Rune),
         NEW n \in Nat, n <= Len(s), n <= Len(t),
         \A i \in 1..n : s[i] = t[i] /\ (Worded(s, i) <=> Worded(t, i))
  PROVE  Told(s, n) = Told(t, n)
<1> DEFINE N == {m \in Nat : m <= n => Told(s, m) = Told(t, m)}
<1>1. 0 \in N
  BY ToldNothing
<1>2. ASSUME NEW m \in N PROVE m + 1 \in N
  <2>1. m \in Nat /\ m + 1 \in Nat
    OBVIOUS
  <2>2. ASSUME m + 1 <= n PROVE Told(s, m + 1) = Told(t, m + 1)
    <3>1. Told(s, m) = Told(t, m)
      BY <2>1, <2>2
    <3>2. m < Len(s) /\ m < Len(t) /\ m + 1 \in 1..n
      BY <2>1, <2>2
    <3>3. s[m + 1] = t[m + 1] /\ (Worded(s, m + 1) <=> Worded(t, m + 1))
      BY <3>2
    <3>4. Say(Told(s, m), m + 1, s) = Say(Told(t, m), m + 1, t)
      BY <3>1, <3>3 DEF Say
    <3> QED BY <2>1, <3>2, <3>4, ToldMore
  <2> QED BY <2>1, <2>2
<1>3. N = Nat
  <2>1. N \subseteq Nat
    OBVIOUS
  <2> HIDE DEF N
  <2> QED BY <1>1, <1>2, <2>1, Numbers
<1> QED BY <1>3

(* A rune at the end of a text matters to the lines before it no more than a
   newline does. *)
LEMMA SameWorded ==
  ASSUME NEW text, text \in Seq(Rune), NEW x \in Rune, NEW i \in 1..Len(text),
         x = "newline" \/ \E m \in 1..Len(text) : i <= m /\ text[m] = "newline"
  PROVE  Worded(Append(text, x), i) <=> Worded(text, i)
<1> DEFINE t == Append(text, x)
           n == Len(text)
<1>1. /\ n \in Nat /\ DOMAIN text = 1..n /\ DOMAIN t = 1..(n + 1)
      /\ t[n + 1] = x /\ \A j \in 1..n : t[j] = text[j]
  OBVIOUS
<1> HIDE DEF t, n
<1>2. i \in 1..n /\ (x = "newline" \/ \E m \in 1..n : i <= m /\ text[m] = "newline")
  BY DEF n
<1>3. ASSUME Worded(text, i) PROVE Worded(t, i)
  <2>1. PICK j \in 1..n :
          /\ text[j] \notin {"space", "newline"}
          /\ \A m \in 1..n : (i < m /\ m < j) \/ (j < m /\ m < i) => text[m] # "newline"
    BY <1>1, <1>3 DEF Worded
  <2>2. j \in 1..(n + 1) /\ t[j] = text[j] /\ t[i] = text[i]
    BY <1>1, <1>2
  <2>3. \A m \in 1..(n + 1) : (i < m /\ m < j) \/ (j < m /\ m < i) => m \in 1..n
    BY <1>1, <1>2
  <2>4. \A m \in 1..(n + 1) : (i < m /\ m < j) \/ (j < m /\ m < i) => t[m] # "newline"
    BY <1>1, <2>1, <2>3
  <2> QED BY <1>1, <1>3, <2>1, <2>2, <2>4 DEF Worded
<1>4. ASSUME Worded(t, i) PROVE Worded(text, i)
  <2>1. PICK j \in 1..(n + 1) :
          /\ t[j] \notin {"space", "newline"}
          /\ \A m \in 1..(n + 1) : (i < m /\ m < j) \/ (j < m /\ m < i) => t[m] # "newline"
    BY <1>1, <1>4 DEF Worded
  <2>2. t[i] = text[i] /\ text[i] # "newline"
    BY <1>1, <1>2, <1>4 DEF Worded
  <2>3. j # n + 1
    <3>1. ASSUME j = n + 1 PROVE FALSE
      <4>1. x # "newline"
        BY <1>1, <2>1, <3>1
      <4>2. PICK m \in 1..n : i <= m /\ text[m] = "newline"
        BY <1>2, <4>1
      <4>3. m # i /\ m \in 1..(n + 1) /\ t[m] = "newline"
        BY <1>1, <2>2, <4>2
      <4>4. i < m /\ m < j
        BY <1>1, <1>2, <3>1, <4>2, <4>3
      <4> QED BY <2>1, <4>3, <4>4
    <3> QED BY <3>1
  <2>4. j \in 1..n
    BY <1>1, <2>1, <2>3
  <2>5. \A m \in 1..n : (i < m /\ m < j) \/ (j < m /\ m < i) => text[m] # "newline"
    <3>1. \A m \in 1..n : m \in 1..(n + 1)
      BY <1>1
    <3> QED BY <1>1, <2>1, <3>1
  <2> QED BY <1>1, <2>1, <2>2, <2>4, <2>5 DEF Worded
<1> QED BY <1>3, <1>4 DEF t

(* Where the last line of a text is, and that everything before is told. *)
Ending(text, front, last, n) ==
  /\ SplitAt(text, "newline") = Append(front, last)
  /\ Len(text) = n + Len(last)
  /\ \A i \in 1..Len(last) : text[n + i] = last[i] /\ last[i] # "newline"
  /\ n = 0 \/ text[n] = "newline"
  /\ Told(text, n) = Spoken(front)

LEMMA EndingWorded ==
  ASSUME NEW text, text \in Seq(Rune), NEW front, NEW last \in Seq(Rune), NEW n \in Nat,
         Ending(text, front, last, n), NEW i \in 1..Len(last)
  PROVE  Worded(text, n + i) <=> ~Blank(last)
<1>1. /\ DOMAIN text = 1..Len(text) /\ Len(text) \in Nat /\ Len(text) = n + Len(last) /\ Len(last) \in Nat
      /\ n = 0 \/ text[n] = "newline"
  BY DEF Ending
<1>2. \A m \in 1..Len(last) : text[n + m] = last[m] /\ last[m] # "newline"
  BY DEF Ending
<1>3. ASSUME ~Blank(last) PROVE Worded(text, n + i)
  <2>1. PICK m \in 1..Len(last) : last[m] # "space"
    <3>1. DOMAIN last = 1..Len(last)
      OBVIOUS
    <3> QED BY <1>3, <3>1 DEF Blank, ToSet
  <2>2. n + m \in 1..Len(text) /\ text[n + m] \notin {"space", "newline"} /\ text[n + i] # "newline"
    BY <1>1, <1>2, <2>1
  <2>3. ASSUME NEW e \in 1..Len(text), (n + i < e /\ e < n + m) \/ (n + m < e /\ e < n + i)
        PROVE  text[e] # "newline"
    <3>1. e - n \in 1..Len(last) /\ e = n + (e - n)
      BY <1>1, <2>1, <2>3
    <3> QED BY <1>2, <3>1
  <2> QED BY <1>1, <2>2, <2>3 DEF Worded
<1>4. ASSUME Worded(text, n + i) PROVE ~Blank(last)
  <2>1. PICK j \in 1..Len(text) :
          /\ text[j] \notin {"space", "newline"}
          /\ \A m \in 1..Len(text) : (n + i < m /\ m < j) \/ (j < m /\ m < n + i) => text[m] # "newline"
    BY <1>1, <1>4 DEF Worded
  <2>2. j > n
    <3>1. ASSUME ~(j > n) PROVE FALSE
      <4>1. n # 0 /\ text[n] = "newline" /\ j # n
        BY <1>1, <2>1, <3>1
      <4>2. n \in 1..Len(text) /\ j < n /\ n < n + i
        BY <1>1, <2>1, <3>1, <4>1
      <4> QED BY <2>1, <4>1, <4>2
    <3> QED BY <3>1
  <2>3. j - n \in 1..Len(last) /\ j = n + (j - n)
    BY <1>1, <2>1, <2>2
  <2> DEFINE m == j - n
  <2>4. m \in DOMAIN last /\ last[m] # "space"
    BY <1>2, <2>1, <2>3
  <2> HIDE DEF m
  <2> QED BY <2>4 DEF Blank, ToSet
<1> QED BY <1>3, <1>4

LEMMA EndingTold ==
  ASSUME NEW text, text \in Seq(Rune), NEW front \in Seq(Seq(Rune)), NEW last \in Seq(Rune),
         NEW n \in Nat, Ending(text, front, last, n)
  PROVE  Told(text, Len(text)) = Spoken(Append(front, last))
<1> DEFINE Rest(m) == IF Blank(last) THEN <<>> ELSE SubSeq(last, 1, m)
           N == {m \in Nat : m <= Len(last) => Told(text, n + m) = Told(text, n) \o Rest(m)}
<1>1. /\ Len(text) = n + Len(last) /\ Len(last) \in Nat /\ Told(text, n) = Spoken(front)
      /\ \A i \in 1..Len(last) : text[n + i] = last[i]
  BY DEF Ending
<1>2. Told(text, n) \in Seq(Rune)
  BY <1>1, ToldType
<1>3. 0 \in N
  <2>1. Rest(0) = <<>>
    BY SubSeqEmpty
  <2>2. Told(text, n) \o <<>> = Told(text, n)
    BY <1>2, ConcatEmptySeq
  <2>3. n + 0 = n
    OBVIOUS
  <2> HIDE DEF Rest
  <2> QED BY <2>1, <2>2, <2>3
<1>4. ASSUME NEW m \in N PROVE m + 1 \in N
  <2>1. m \in Nat /\ m + 1 \in Nat
    OBVIOUS
  <2>2. ASSUME m + 1 <= Len(last) PROVE Told(text, n + (m + 1)) = Told(text, n) \o Rest(m + 1)
    <3>1. Told(text, n + m) = Told(text, n) \o Rest(m)
      <4>1. m <= Len(last)
        BY <1>1, <2>1, <2>2
      <4> HIDE DEF Rest
      <4> QED BY <4>1
    <3>2. n + m \in Nat /\ n + m < Len(text) /\ m + 1 \in 1..Len(last) /\ n + (m + 1) = (n + m) + 1
      BY <1>1, <2>1, <2>2
    <3>3. Told(text, n + (m + 1)) = Say(Told(text, n + m), n + (m + 1), text)
      BY <3>2, ToldMore
    <3>4. text[n + (m + 1)] = last[m + 1] /\ last[m + 1] \in Rune
      BY <1>1, <3>2
    <3>5. Worded(text, n + (m + 1)) <=> ~Blank(last)
      BY <3>2, EndingWorded
    <3>6. CASE Blank(last)
      BY <3>1, <3>3, <3>5, <3>6 DEF Say
    <3>7. CASE ~Blank(last)
      <4>1. Told(text, n + (m + 1)) = Append(Told(text, n) \o SubSeq(last, 1, m), last[m + 1])
        BY <3>1, <3>3, <3>4, <3>5, <3>7 DEF Say
      <4>2. SubSeq(last, 1, m) \in Seq(Rune)
        BY <2>1, <2>2
      <4>3. SubSeq(last, 1, m + 1) = Append(SubSeq(last, 1, m), last[m + 1])
        BY <2>1, <2>2, <3>2
      <4>4. \A a, b \in Seq(Rune) : a \o Append(b, last[m + 1]) = Append(a \o b, last[m + 1])
        <5>1. \A y \in Rune : \A a, b \in Seq(Rune) : a \o Append(b, y) = Append(a \o b, y)
          BY Glued
        <5> QED BY <3>4, <5>1
      <4>5. Told(text, n) \o SubSeq(last, 1, m + 1) = Append(Told(text, n) \o SubSeq(last, 1, m), last[m + 1])
        BY <1>2, <4>2, <4>3, <4>4
      <4> QED BY <3>7, <4>1, <4>5
    <3> QED BY <3>6, <3>7
  <2> HIDE DEF Rest
  <2> QED BY <2>1, <2>2
<1>5. N = Nat
  <2>1. N \subseteq Nat
    OBVIOUS
  <2> HIDE DEF N
  <2> QED BY <1>3, <1>4, <2>1, Numbers
<1>6. Told(text, Len(text)) = Told(text, n) \o Rest(Len(last))
  <2>1. Len(last) \in N
    <3> HIDE DEF N
    <3> QED BY <1>1, <1>5
  <2> HIDE DEF Rest
  <2> QED BY <1>1, <2>1
<1>7. Rest(Len(last)) = IF Blank(last) THEN <<>> ELSE last
  BY SubSeqFull
<1> HIDE DEF Rest
<1>8. Spoken(Append(front, last)) = Spoken(front) \o (IF Blank(last) THEN <<>> ELSE last)
  BY PiecesMore DEF Spoken
<1> QED BY <1>1, <1>6, <1>7, <1>8

LEMMA Endings ==
  ASSUME NEW text, text \in Seq(Rune)
  PROVE  \E front \in Seq(Seq(Rune)), last \in Seq(Rune), n \in Nat : Ending(text, front, last, n)
<1> DEFINE Shown(s) ==
      \E front \in Seq(Seq(Rune)), last \in Seq(Rune), n \in Nat : Ending(s, front, last, n)
           T == {s \in Seq(Rune) : Shown(s)}
<1>1. <<>> \in T
  <2>1. SplitAt(<<>>, "newline") = << <<>> >>
    BY SplitFacts
  <2>2. << <<>> >> = Append(<<>>, <<>>)
    OBVIOUS
  <2>3. <<>> \in Seq(Rune) /\ <<>> \in Seq(Seq(Rune)) /\ Len(<<>>) = 0 + Len(<<>>) /\ 1..Len(<<>>) = {}
    OBVIOUS
  <2>4. Told(<<>>, 0) = Spoken(<<>>)
    BY <2>3, ToldNothing, PiecesFacts, TogetherFacts DEF Spoken
  <2>5. Ending(<<>>, <<>>, <<>>, 0)
    BY <2>1, <2>2, <2>3, <2>4 DEF Ending
  <2> QED BY <2>3, <2>5
<1>2. ASSUME NEW s \in T, NEW x \in Rune PROVE Append(s, x) \in T
  <2>1. s \in Seq(Rune) /\ Shown(s)
    OBVIOUS
  <2>2. PICK front \in Seq(Seq(Rune)), last \in Seq(Rune), n \in Nat : Ending(s, front, last, n)
    BY <2>1
  <2> DEFINE t == Append(s, x)
  <2>3. /\ t \in Seq(Rune) /\ Len(t) = Len(s) + 1 /\ Len(s) \in Nat /\ t[Len(s) + 1] = x
        /\ \A i \in 1..Len(s) : t[i] = s[i]
    OBVIOUS
  <2>4. SplitAt(t, "newline") = Cut(Append(front, last), x, "newline")
    <3>1. SplitAt(t, "newline") = Cut(SplitAt(s, "newline"), x, "newline")
      BY SplitFacts
    <3> QED BY <2>2, <3>1 DEF Ending
  <2>5. /\ Len(s) = n + Len(last)
        /\ n = 0 \/ s[n] = "newline"
        /\ Told(s, n) = Spoken(front) /\ Len(last) \in Nat
    BY <2>2 DEF Ending
  <2>6. \A i \in 1..Len(last) : s[n + i] = last[i] /\ last[i] # "newline"
    BY <2>2 DEF Ending
  <2>7. ASSUME NEW i \in 1..Len(s), x = "newline" \/ i <= n
        PROVE  Worded(t, i) <=> Worded(s, i)
    <3>1. CASE x = "newline"
      BY <2>1, <3>1, SameWorded
    <3>2. CASE i <= n
      <4>1. n \in 1..Len(s) /\ s[n] = "newline"
        BY <2>3, <2>5, <3>2
      <4> QED BY <2>1, <3>2, <4>1, SameWorded
    <3> QED BY <2>7, <3>1, <3>2
  <2> HIDE DEF t
  <2>8. CASE x = "newline"
    <3> DEFINE f == Append(front, last)
               m == Len(s) + 1
    <3>1. SplitAt(t, "newline") = Append(f, <<>>)
      BY <2>4, <2>8 DEF Cut
    <3>2. f \in Seq(Seq(Rune)) /\ m \in Nat /\ Len(t) = m + Len(<<>>) /\ 1..Len(<<>>) = {} /\ t[m] = "newline"
      BY <2>3, <2>8
    <3>3. Told(t, Len(s)) = Told(s, Len(s))
      <4>1. \A i \in 1..Len(s) : t[i] = s[i] /\ (Worded(t, i) <=> Worded(s, i))
        BY <2>3, <2>7, <2>8
      <4>2. Len(s) <= Len(s) /\ Len(s) <= Len(t)
        BY <2>3
      <4> QED BY <2>1, <2>3, <4>1, <4>2, ToldSame
    <3>4. Told(t, m) = Told(t, Len(s))
      <4>1. Len(s) < Len(t)
        BY <2>3
      <4>2. Told(t, m) = Say(Told(t, Len(s)), m, t)
        BY <2>3, <4>1, ToldMore
      <4>3. ~Worded(t, m)
        BY <3>2 DEF Worded
      <4> QED BY <4>2, <4>3 DEF Say
    <3>5. Told(t, m) = Spoken(f)
      BY <2>1, <2>2, <3>3, <3>4, EndingTold
    <3> HIDE DEF f, m
    <3>6. Ending(t, f, <<>>, m)
      BY <3>1, <3>2, <3>5 DEF Ending
    <3>7. <<>> \in Seq(Rune)
      OBVIOUS
    <3>8. Shown(t)
      BY <3>2, <3>6, <3>7
    <3> HIDE DEF Shown
    <3> QED BY <2>3, <3>8 DEF t
  <2>9. CASE x # "newline"
    <3> DEFINE l == Append(last, x)
    <3>1. SplitAt(t, "newline") = Append(front, l)
      <4>1. Cut(Append(front, last), x, "newline") =
              [Append(front, last) EXCEPT ![Len(front) + 1] = Append(last, x)]
        <5>1. Len(Append(front, last)) = Len(front) + 1 /\ Append(front, last)[Len(front) + 1] = last
          OBVIOUS
        <5> QED BY <2>9, <5>1 DEF Cut
      <4>2. l \in Seq(Rune)
        OBVIOUS
      <4> HIDE DEF l
      <4>3. [Append(front, last) EXCEPT ![Len(front) + 1] = l] = Append(front, l)
        <5> DEFINE a == [Append(front, last) EXCEPT ![Len(front) + 1] = l]
                   b == Append(front, l)
        <5>1. a \in Seq(Seq(Rune)) /\ Len(a) = Len(front) + 1
          <6>1. Append(front, last) \in Seq(Seq(Rune)) /\ Len(Append(front, last)) = Len(front) + 1
            OBVIOUS
          <6>2. Len(front) + 1 \in 1..Len(Append(front, last))
            BY <6>1
          <6> QED BY <4>2, <6>1, <6>2, ExceptSeq
        <5>2. b \in Seq(Seq(Rune)) /\ Len(b) = Len(front) + 1
          BY <4>2
        <5>3. \A i \in 1..(Len(front) + 1) : a[i] = b[i]
          <6>1. ASSUME NEW i \in 1..Len(front) PROVE a[i] = b[i]
            <7>1. i # Len(front) + 1 /\ i \in DOMAIN Append(front, last) /\ Append(front, last)[i] = front[i]
              OBVIOUS
            <7>2. a[i] = Append(front, last)[i]
              BY <7>1, Zenon
            <7>3. b[i] = front[i]
              OBVIOUS
            <7> QED BY <7>1, <7>2, <7>3
          <6>2. a[Len(front) + 1] = b[Len(front) + 1]
            OBVIOUS
          <6>3. \A i \in 1..(Len(front) + 1) : i \in 1..Len(front) \/ i = Len(front) + 1
            OBVIOUS
          <6> QED BY <6>1, <6>2, <6>3
        <5> HIDE DEF a, b
        <5>4. a = b
          BY <5>1, <5>2, <5>3, SeqEqual
        <5> QED BY <5>4 DEF a, b
      <4> QED BY <2>4, <4>1, <4>3 DEF l
    <3>2. l \in Seq(Rune) /\ Len(l) = Len(last) + 1 /\ Len(t) = n + Len(l)
      BY <2>3, <2>5
    <3>3. \A i \in 1..Len(l) : t[n + i] = l[i] /\ l[i] # "newline"
      <4>1. l[Len(last) + 1] = x /\ \A i \in 1..Len(last) : l[i] = last[i]
        OBVIOUS
      <4>2. n + (Len(last) + 1) = Len(s) + 1
        BY <2>5
      <4>3. \A i \in 1..Len(last) : t[n + i] = last[i] /\ last[i] # "newline"
        <5>1. \A i \in 1..Len(last) : n + i \in 1..Len(s)
          BY <2>5
        <5> QED BY <2>3, <2>6, <5>1
      <4>4. t[n + (Len(last) + 1)] = x
        BY <2>3, <4>2
      <4>5. \A i \in 1..Len(l) : i \in 1..Len(last) \/ i = Len(last) + 1
        <5>1. \A j \in Nat : \A i \in 1..(j + 1) : i \in 1..j \/ i = j + 1
          OBVIOUS
        <5> QED BY <2>5, <3>2, <5>1
      <4> QED BY <2>9, <4>1, <4>3, <4>4, <4>5
    <3>4. n = 0 \/ t[n] = "newline"
      BY <2>3, <2>5
    <3>5. Told(t, n) = Spoken(front)
      <4>1. n <= Len(s) /\ n <= Len(t) /\ \A i \in 1..n : i \in 1..Len(s) /\ i <= n
        BY <2>3, <2>5
      <4>2. \A i \in 1..n : t[i] = s[i] /\ (Worded(t, i) <=> Worded(s, i))
        BY <2>3, <2>7, <4>1
      <4> QED BY <2>1, <2>3, <2>5, <4>1, <4>2, ToldSame
    <3> HIDE DEF l
    <3>6. Ending(t, front, l, n)
      BY <3>1, <3>2, <3>3, <3>4, <3>5 DEF Ending
    <3>7. Shown(t)
      BY <3>2, <3>6
    <3> HIDE DEF Shown
    <3> QED BY <2>3, <3>7 DEF t
  <2> QED BY <2>8, <2>9
<1>3. T = Seq(Rune)
  <2>1. T \subseteq Seq(Rune)
    OBVIOUS
  <2> HIDE DEF T
  <2> QED BY <1>1, <1>2, <2>1, Sequencing
<1> QED BY <1>3

(* SaidIsSplit: for every text and limit the pieces put together are the runes
   of the lines that are not blank, in order, and no piece is empty or longer
   than the limit (splitUTF8). *)
THEOREM SaidIsSplit ==
  ASSUME NEW text, text \in Seq(Rune)
  PROVE  /\ Said(text) = Together(splitUTF8(text))
         /\ splitUTF8(text) \in Seq(Seq(Rune)) /\ AllFit(splitUTF8(text))
<1>1. PICK front \in Seq(Seq(Rune)), last \in Seq(Rune), n \in Nat : Ending(text, front, last, n)
  BY Endings
<1>2. Told(text, Len(text)) = Spoken(SplitAt(text, "newline"))
  BY <1>1, EndingTold DEF Ending
<1>3. Said(text) = Told(text, Len(text))
  <2>1. DOMAIN text = 1..Len(text)
    OBVIOUS
  <2> QED BY <2>1 DEF Said, Told, SaidBy, UpTo
<1>4. splitUTF8(text) = Pieces(SplitAt(text, "newline"))
  BY DEF splitUTF8, Pieces
<1>5. SplitAt(text, "newline") \in Seq(Seq(Rune))
  BY SplitFacts DEF Parts
<1> QED BY <1>2, <1>3, <1>4, <1>5, PiecesFacts, PiecesFit DEF Spoken

----------------------------------------------------------------------------
(* What the parser makes of the line of a text. *)

Symbol == Rune \cup {"PRIVMSG", "target"}
Before == <<"PRIVMSG", "space", "target", "space">>
Plain(t) == Before \o t
Trailing(t) == (Before \o <<"colon">>) \o t

LEMMA Symbols ==
  /\ "space" \in Rune /\ "colon" \in Rune /\ Rune \subseteq Symbol
  /\ "PRIVMSG" \in Symbol /\ "target" \in Symbol /\ Seq(Rune) \subseteq Seq(Symbol)
BY DEF Rune, Bytes, Symbol

LEMMA Spelling ==
  /\ SplitAt(<<"PRIVMSG", "space", "target">>, "space") = << <<"PRIVMSG">>, <<"target">> >>
  /\ SplitAt(Before, "space") = << <<"PRIVMSG">>, <<"target">>, <<>> >>
<1> DEFINE a == "PRIVMSG"
           b == "target"
           sp == "space"
<1>1. a \in Symbol /\ b \in Symbol /\ sp \in Symbol /\ a # sp /\ b # sp
  BY Symbols
<1>2. Before = <<a, sp, b, sp>>
  BY DEF Before
<1> HIDE DEF a, b, sp
<1>3. <<>> \in Seq(Symbol) /\ <<a>> \in Seq(Symbol) /\ <<a, sp>> \in Seq(Symbol) /\ <<a, sp, b>> \in Seq(Symbol)
  BY <1>1
<1>4. /\ <<a>> = Append(<<>>, a) /\ <<a, sp>> = Append(<<a>>, sp)
      /\ <<a, sp, b>> = Append(<<a, sp>>, b) /\ <<a, sp, b, sp>> = Append(<<a, sp, b>>, sp)
  OBVIOUS
<1>5. \A s \in Seq(Symbol) : \A x \in Symbol : SplitAt(Append(s, x), sp) = Cut(SplitAt(s, sp), x, sp)
  BY SplitFacts
<1>6. SplitAt(<<>>, sp) = << <<>> >>
  BY SplitFacts
<1>7. SplitAt(<<a>>, sp) = << <<a>> >>
  <2>1. SplitAt(<<a>>, sp) = Cut(<< <<>> >>, a, sp)
    BY <1>1, <1>3, <1>4, <1>5, <1>6
  <2>2. Cut(<< <<>> >>, a, sp) = [<< <<>> >> EXCEPT ![1] = <<a>>]
    BY <1>1 DEF Cut
  <2> QED BY <2>1, <2>2
<1>8. SplitAt(<<a, sp>>, sp) = << <<a>>, <<>> >>
  <2>1. SplitAt(<<a, sp>>, sp) = Cut(<< <<a>> >>, sp, sp)
    BY <1>1, <1>3, <1>4, <1>5, <1>7
  <2> QED BY <2>1 DEF Cut
<1>9. SplitAt(<<a, sp, b>>, sp) = << <<a>>, <<b>> >>
  <2>1. SplitAt(<<a, sp, b>>, sp) = Cut(<< <<a>>, <<>> >>, b, sp)
    BY <1>1, <1>3, <1>4, <1>5, <1>8
  <2>2. Cut(<< <<a>>, <<>> >>, b, sp) = [<< <<a>>, <<>> >> EXCEPT ![2] = <<b>>]
    BY <1>1 DEF Cut
  <2> QED BY <2>1, <2>2
<1>10. SplitAt(<<a, sp, b, sp>>, sp) = << <<a>>, <<b>>, <<>> >>
  <2>1. SplitAt(<<a, sp, b, sp>>, sp) = Cut(<< <<a>>, <<b>> >>, sp, sp)
    BY <1>1, <1>3, <1>4, <1>5, <1>9
  <2> QED BY <2>1 DEF Cut
<1> QED BY <1>2, <1>9, <1>10 DEF a, b, sp

LEMMA Spelled3 ==
  ASSUME NEW t \in Seq(Rune \ {"space"})
  PROVE  SplitAt(Plain(t), "space") = << <<"PRIVMSG">>, <<"target">>, t >>
<1> DEFINE E == Rune \ {"space"}
           p == <<"PRIVMSG">>
           q == <<"target">>
           T == {s \in Seq(E) : SplitAt(Plain(s), "space") = <<p, q, s>>}
<1>1. Before \in Seq(Symbol) /\ E \subseteq Symbol /\ Seq(E) \subseteq Seq(Symbol)
  BY Symbols DEF Before
<1>2. p \in Seq(Symbol) /\ q \in Seq(Symbol)
  BY Symbols
<1>3. <<>> \in T
  <2>1. Plain(<<>>) = Before
    BY <1>1, ConcatEmptySeq DEF Plain
  <2> QED BY <2>1, Spelling
<1> HIDE DEF p, q
<1>4. ASSUME NEW s \in T, NEW x \in E PROVE Append(s, x) \in T
  <2>1. /\ s \in Seq(E) /\ Append(s, x) \in Seq(E) /\ s \in Seq(Symbol) /\ x \in Symbol /\ x # "space"
        /\ SplitAt(Plain(s), "space") = <<p, q, s>>
    BY <1>1
  <2>2. Plain(Append(s, x)) = Append(Plain(s), x) /\ Plain(s) \in Seq(Symbol)
    BY <1>1, <2>1, Glued DEF Plain
  <2>3. SplitAt(Plain(Append(s, x)), "space") = Cut(<<p, q, s>>, x, "space")
    BY <2>1, <2>2, SplitFacts
  <2>4. Cut(<<p, q, s>>, x, "space") = [<<p, q, s>> EXCEPT ![3] = Append(s, x)]
    BY <2>1 DEF Cut
  <2> DEFINE r == Append(s, x)
  <2>5. SplitAt(Plain(r), "space") = [<<p, q, s>> EXCEPT ![3] = r] /\ r \in Seq(E)
    BY <2>1, <2>3, <2>4
  <2> HIDE DEF r
  <2>6. [<<p, q, s>> EXCEPT ![3] = r] = <<p, q, r>>
    OBVIOUS
  <2>7. r \in T
    BY <2>5, <2>6
  <2> QED BY <2>7 DEF r
<1>5. T = Seq(E)
  <2>1. T \subseteq Seq(E)
    OBVIOUS
  <2> HIDE DEF T, E
  <2> QED BY <1>3, <1>4, <2>1, Sequencing
<1> QED BY <1>5 DEF p, q

LEMMA FieldsAre ==
  ASSUME NEW s
  PROVE  Fields(s) = WordsIn(SplitAt(s, "space"))
BY DEF Fields, WordsIn

LEMMA Kept ==
  ASSUME NEW a \in Seq(Symbol), NEW b \in Seq(Symbol), NEW c \in Seq(Symbol),
         a # <<>>, b # <<>>, c # <<>>
  PROVE  WordsIn(<<a, b>>) = <<a, b>> /\ WordsIn(<<a, b, c>>) = <<a, b, c>>
<1>1. /\ <<a>> = Append(<<>>, a) /\ <<a, b>> = Append(<<a>>, b) /\ <<a, b, c>> = Append(<<a, b>>, c)
      /\ <<>> \in Seq(Seq(Symbol)) /\ <<a>> \in Seq(Seq(Symbol)) /\ <<a, b>> \in Seq(Seq(Symbol))
  OBVIOUS
<1>2. WordsIn(<<>>) = <<>>
  BY WordsInFacts
<1>3. \A s \in Seq(Seq(Symbol)) : \A x \in Seq(Symbol) : WordsIn(Append(s, x)) = Keep(WordsIn(s), x)
  BY WordsInFacts
<1>4. WordsIn(<<a>>) = <<a>>
  BY <1>1, <1>2, <1>3 DEF Keep
<1>5. WordsIn(<<a, b>>) = <<a, b>>
  BY <1>1, <1>3, <1>4 DEF Keep
<1>6. WordsIn(<<a, b, c>>) = <<a, b, c>>
  BY <1>1, <1>3, <1>5 DEF Keep
<1> QED BY <1>5, <1>6

(* With a trailing parameter. *)
LEMMA TrailingParsed ==
  ASSUME NEW t \in Seq(Rune)
  PROVE  ParseLine(Trailing(t)) = << <<"target">>, t >>
<1> DEFINE line == Trailing(t)
           cuts == {i \in 1..(Len(line) - 1) : line[i] = "space" /\ line[i + 1] = "colon"}
           cut == CHOOSE i \in cuts : \A j \in cuts : i <= j
           five == Before \o <<"colon">>
<1>1. /\ five[1] = "PRIVMSG" /\ five[2] = "space" /\ five[3] = "target" /\ five[4] = "space"
      /\ five[5] = "colon" /\ five \in Seq(Symbol) /\ Len(five) = 5
  <2>1. Before \in Seq(Symbol) /\ "colon" \in Symbol
    BY Symbols DEF Before
  <2>2. five = Append(Before, "colon")
    BY <2>1, AppendIsConcat
  <2>3. /\ Before[1] = "PRIVMSG" /\ Before[2] = "space" /\ Before[3] = "target"
        /\ Before[4] = "space" /\ Len(Before) = 4
    BY DEF Before
  <2> HIDE DEF five
  <2>4. Len(five) = 5 /\ five \in Seq(Symbol) /\ five[5] = "colon" /\ \A i \in 1..4 : five[i] = Before[i]
    <3>1. /\ Append(Before, "colon") \in Seq(Symbol) /\ Len(Append(Before, "colon")) = Len(Before) + 1
          /\ \A i \in 1..Len(Before) : Append(Before, "colon")[i] = Before[i]
          /\ Append(Before, "colon")[Len(Before) + 1] = "colon"
      BY <2>1, AppendProperties
    <3> QED BY <2>2, <2>3, <3>1
  <2> QED BY <2>3, <2>4
<1>2. t \in Seq(Symbol) /\ five \in Seq(Symbol) /\ Len(five) = 5
  BY <1>1, Symbols
<1>3. /\ line \in Seq(Symbol) /\ Len(line) = 5 + Len(t) /\ Len(t) \in Nat
      /\ \A i \in 1..5 : line[i] = five[i]
      /\ \A i \in 1..Len(t) : line[5 + i] = t[i]
  <2>1. line = five \o t
    BY DEF Trailing
  <2> HIDE DEF line, five
  <2>2. /\ line \in Seq(Symbol) /\ Len(line) = 5 + Len(t) /\ Len(t) \in Nat
        /\ \A i \in 1..(5 + Len(t)) : line[i] = IF i <= 5 THEN five[i] ELSE t[i - 5]
    <3>1. \A a, b \in Seq(Symbol) :
            /\ a \o b \in Seq(Symbol) /\ Len(a \o b) = Len(a) + Len(b)
            /\ \A i \in 1..(Len(a) + Len(b)) : (a \o b)[i] = IF i <= Len(a) THEN a[i] ELSE b[i - Len(a)]
      BY ConcatProperties
    <3>2. five \in Seq(Symbol) /\ t \in Seq(Symbol)
      BY <1>2
    <3>3. /\ line \in Seq(Symbol) /\ Len(line) = Len(five) + Len(t)
          /\ \A i \in 1..(Len(five) + Len(t)) : line[i] = IF i <= Len(five) THEN five[i] ELSE t[i - Len(five)]
      BY <2>1, <3>1, <3>2, Zenon
    <3>4. Len(five) = 5 /\ Len(t) \in Nat
      BY <1>2
    <3> QED BY <3>3, <3>4
  <2>3. \A i \in 1..Len(t) : 5 + i \in 1..(5 + Len(t)) /\ ~(5 + i <= 5) /\ (5 + i) - 5 = i
    BY <2>2
  <2>4. \A i \in 1..Len(t) : line[5 + i] = t[i]
    BY <2>2, <2>3
  <2> QED BY <2>2, <2>4
<1> HIDE DEF line, five
<1>4. /\ line[1] = "PRIVMSG" /\ line[2] = "space" /\ line[3] = "target"
      /\ line[4] = "space" /\ line[5] = "colon"
  BY <1>1, <1>3
<1>5. 4 \in cuts
  BY <1>3, <1>4
<1>6. \A j \in cuts : 4 <= j
  <2>1. ASSUME NEW j \in cuts, ~(4 <= j) PROVE FALSE
    <3>1. j = 1 \/ j = 2 \/ j = 3
      BY <1>3, <2>1
    <3>2. line[j] = "space" /\ line[j + 1] = "colon"
      OBVIOUS
    <3> QED BY <1>4, <3>1, <3>2
  <2> QED BY <2>1
<1>7. cuts \subseteq Int
  BY <1>3
<1>8. ParseLine(line) = IF cuts = {} THEN Tail(Fields(line))
        ELSE Append(Tail(Fields(SubSeq(line, 1, cut - 1))), SubSeq(line, cut + 2, Len(line)))
  BY Zenon DEF ParseLine
<1>9. cut = 4
  <2> HIDE DEF cuts
  <2>1. cut \in cuts /\ \A j \in cuts : cut <= j
    BY <1>5, <1>6
  <2> HIDE DEF cut
  <2>2. cut <= 4 /\ 4 <= cut /\ cut \in Int
    BY <1>5, <1>6, <1>7, <2>1
  <2> QED BY <2>2
<1> HIDE DEF cuts, cut
<1>10. SubSeq(line, 1, 3) = <<"PRIVMSG", "space", "target">>
  <2> DEFINE s == SubSeq(line, 1, 3)
  <2>1. s \in Seq(Symbol) /\ Len(s) = 3
    BY <1>3
  <2>2. s[1] = line[1] /\ s[2] = line[2] /\ s[3] = line[3]
    BY <1>3
  <2> HIDE DEF s
  <2>3. s = <<s[1], s[2], s[3]>>
    BY <2>1
  <2> QED BY <1>4, <2>2, <2>3 DEF s
<1>11. Fields(SubSeq(line, 1, 3)) = << <<"PRIVMSG">>, <<"target">> >>
  <2>1. <<"PRIVMSG">> \in Seq(Symbol) /\ <<"target">> \in Seq(Symbol) /\ <<"PRIVMSG">> # <<>> /\ <<"target">> # <<>>
    BY Symbols
  <2>2. WordsIn(<< <<"PRIVMSG">>, <<"target">> >>) = << <<"PRIVMSG">>, <<"target">> >>
    BY <2>1, Kept
  <2> QED BY <1>10, <2>2, FieldsAre, Spelling
<1>12. SubSeq(line, 6, Len(line)) = t
  <2>1. SubSeq(line, 6, Len(line)) \in Seq(Symbol) /\ Len(SubSeq(line, 6, Len(line))) = Len(t)
    BY <1>3
  <2>2. \A i \in 1..Len(t) : SubSeq(line, 6, Len(line))[i] = t[i]
    BY <1>3
  <2> QED BY <1>2, <2>1, <2>2, SeqEqual
<1>13. ParseLine(line) = Append(Tail(Fields(SubSeq(line, 1, 3))), t)
  BY <1>5, <1>8, <1>9, <1>12
<1>14. Append(Tail(<< <<"PRIVMSG">>, <<"target">> >>), t) = << <<"target">>, t >>
  <2>1. \A p, q : Tail(<<p, q>>) = <<q>>
    OBVIOUS
  <2>2. \A q : <<q, t>> = Append(<<q>>, t)
    OBVIOUS
  <2> QED BY <2>1, <2>2
<1> QED BY <1>11, <1>13, <1>14 DEF line

(* Without one. *)
LEMMA PlainParsed ==
  ASSUME NEW t \in Seq(Rune), t # <<>>, "space" \notin ToSet(t), t[1] # "colon"
  PROVE  ParseLine(Plain(t)) = << <<"target">>, t >>
<1> DEFINE line == Plain(t)
           cuts == {i \in 1..(Len(line) - 1) : line[i] = "space" /\ line[i + 1] = "colon"}
<1>1. /\ t \in Seq(Symbol) /\ Before \in Seq(Symbol) /\ Len(Before) = 4
      /\ Before[1] = "PRIVMSG" /\ Before[2] = "space" /\ Before[3] = "target" /\ Before[4] = "space"
  BY Symbols DEF Before
<1>2. /\ line \in Seq(Symbol) /\ Len(line) = 4 + Len(t) /\ Len(t) \in Nat
      /\ \A i \in 1..4 : line[i] = Before[i]
      /\ \A i \in 1..Len(t) : line[4 + i] = t[i]
  <2>1. line = Before \o t
    BY DEF Plain
  <2> HIDE DEF line
  <2>2. /\ line \in Seq(Symbol) /\ Len(line) = 4 + Len(t) /\ Len(t) \in Nat
        /\ \A i \in 1..(4 + Len(t)) : line[i] = IF i <= 4 THEN Before[i] ELSE t[i - 4]
    <3>1. \A a, b \in Seq(Symbol) :
            /\ a \o b \in Seq(Symbol) /\ Len(a \o b) = Len(a) + Len(b)
            /\ \A i \in 1..(Len(a) + Len(b)) : (a \o b)[i] = IF i <= Len(a) THEN a[i] ELSE b[i - Len(a)]
      BY ConcatProperties
    <3>2. Before \in Seq(Symbol) /\ t \in Seq(Symbol)
      BY <1>1
    <3>3. /\ line \in Seq(Symbol) /\ Len(line) = Len(Before) + Len(t)
          /\ \A i \in 1..(Len(Before) + Len(t)) : line[i] = IF i <= Len(Before) THEN Before[i] ELSE t[i - Len(Before)]
      BY <2>1, <3>1, <3>2, Zenon
    <3>4. Len(Before) = 4 /\ Len(t) \in Nat
      BY <1>1
    <3> QED BY <3>3, <3>4
  <2>3. \A i \in 1..Len(t) : 4 + i \in 1..(4 + Len(t)) /\ ~(4 + i <= 4) /\ (4 + i) - 4 = i
    BY <2>2
  <2>4. \A i \in 1..Len(t) : line[4 + i] = t[i]
    BY <2>2, <2>3
  <2> QED BY <2>2, <2>4
<1>3. \A i \in 1..Len(t) : t[i] \in Rune /\ t[i] # "space"
  <2>1. DOMAIN t = 1..Len(t)
    OBVIOUS
  <2> QED BY <2>1 DEF ToSet
<1> HIDE DEF line
<1>4. cuts = {}
  <2>1. ASSUME NEW i \in cuts PROVE FALSE
    <3>1. i \in 1..(3 + Len(t)) /\ line[i] = "space" /\ line[i + 1] = "colon"
      BY <1>2
    <3>2. CASE i <= 4
      <4>1. i = 1 \/ i = 2 \/ i = 3 \/ i = 4
        BY <3>1, <3>2
      <4>2. line[5] = t[1]
        BY <1>2
      <4>3. line[1] = "PRIVMSG" /\ line[3] = "target"
        BY <1>1, <1>2
      <4> QED BY <3>1, <4>1, <4>2, <4>3
    <3>3. CASE i > 4
      <4> DEFINE m == i - 4
      <4>1. m \in 1..Len(t) /\ i = 4 + m
        BY <1>2, <3>1, <3>3
      <4> HIDE DEF m
      <4>2. line[i] = t[m] /\ t[m] # "space"
        BY <1>2, <1>3, <4>1
      <4> QED BY <3>1, <4>2
    <3> QED BY <1>2, <3>1, <3>2, <3>3
  <2> QED BY <2>1
<1>5. ParseLine(line) = Tail(Fields(line))
  BY <1>4 DEF ParseLine
<1>6. t \in Seq(Rune \ {"space"})
  BY <1>3
<1>7. SplitAt(line, "space") = << <<"PRIVMSG">>, <<"target">>, t >>
  BY <1>6, Spelled3 DEF line
<1>8. <<"PRIVMSG">> \in Seq(Symbol) /\ <<"target">> \in Seq(Symbol) /\ <<"PRIVMSG">> # <<>> /\ <<"target">> # <<>>
  BY Symbols
<1>9. Fields(line) = << <<"PRIVMSG">>, <<"target">>, t >>
  <2>1. \A a, b \in Seq(Symbol) : a # <<>> /\ b # <<>> => WordsIn(<<a, b, t>>) = <<a, b, t>>
    BY <1>1, Kept
  <2>2. WordsIn(<< <<"PRIVMSG">>, <<"target">>, t >>) = << <<"PRIVMSG">>, <<"target">>, t >>
    BY <1>8, <2>1
  <2> QED BY <1>7, <2>2, FieldsAre
<1>10. Tail(<< <<"PRIVMSG">>, <<"target">>, t >>) = << <<"target">>, t >>
  <2>1. \A p, q : Tail(<<p, q, t>>) = <<q, t>>
    OBVIOUS
  <2> QED BY <2>1
<1> QED BY <1>5, <1>9, <1>10 DEF line

(* HeardIsText: whatever the text, the parser hears it in the line that was made
   of it, as it is and as the server may pass it on (FormatLine, ParseLine). *)
THEOREM HeardIsText ==
  ASSUME NEW t \in Seq(Rune), NEW line \in {FormatLine(t)} \cup Relayed(FormatLine(t))
  PROVE  Heard(line) = t
<1> DEFINE params == << <<"target">>, t >>
<1>1. Before \in Seq(Symbol) /\ t \in Seq(Symbol)
  BY Symbols DEF Before
<1>2. /\ ParseLine(FormatLine(t)) = params
      /\ FormatLine(t) = Trailing(t) \/ FormatLine(t) = Plain(t)
  <2>1. CASE t = <<>> \/ "space" \in ToSet(t) \/ t[1] = "colon"
    <3>1. FormatLine(t) = Trailing(t)
      BY <2>1 DEF FormatLine, Trailing, Before
    <3> QED BY <3>1, TrailingParsed
  <2>2. CASE ~(t = <<>> \/ "space" \in ToSet(t) \/ t[1] = "colon")
    <3>1. FormatLine(t) = (Before \o <<>>) \o t
      BY <2>2 DEF FormatLine, Before
    <3>2. Before \o <<>> = Before
      BY <1>1, ConcatEmptySeq
    <3>3. FormatLine(t) = Plain(t)
      BY <3>1, <3>2 DEF Plain
    <3> QED BY <2>2, <3>3, PlainParsed
  <2> QED BY <2>1, <2>2
<1>3. params[1] = <<"target">> /\ Len(params) = 2 /\ params[2] = t
  OBVIOUS
<1>4. ParseLine(FormatLine(t)) = params
  BY <1>2
<1>5. Relayed(FormatLine(t)) = {FormatLine(t), ((<<"PRIVMSG", "space">> \o <<"target">>) \o <<"space", "colon">>) \o t}
  BY <1>3, <1>4 DEF Relayed
<1>6. (<<"PRIVMSG", "space">> \o <<"target">>) \o <<"space", "colon">> = Before \o <<"colon">>
  BY DEF Before
<1>7. line = FormatLine(t) \/ line = Trailing(t)
  BY <1>5, <1>6 DEF Trailing
<1>8. ParseLine(line) = params
  BY <1>4, <1>7, TrailingParsed
<1> QED BY <1>3, <1>8 DEF Heard

----------------------------------------------------------------------------
(* The pieces of a text, each heard once and in order, are the text. *)

Recital(p, k, parts) == \A i \in 1..Len(p) : p[i].by = k =>
  /\ p[i].piece \in 1..Len(parts) /\ p[i].text = parts[p[i].piece]
  /\ \A j \in 1..Len(p) : j < i /\ p[j].by = k => p[j].piece < p[i].piece
  /\ \/ p[i].piece = 1
     \/ \E j \in 1..Len(p) : j < i /\ p[j].by = k /\ p[j].piece = p[i].piece - 1

(* The first m marks recite the first c pieces. *)
Recites(p, k, parts, m, c) ==
  /\ c <= Len(parts) /\ HeardIn(SubSeq(p, 1, m), k) = Together(SubSeq(parts, 1, c))
  /\ \A i \in 1..m : p[i].by = k => p[i].piece <= c
  /\ c = 0 \/ \E i \in 1..m : p[i].by = k /\ p[i].piece = c

LEMMA OneMore ==
  ASSUME NEW E, NEW s \in Seq(E), NEW n \in Nat, n < Len(s)
  PROVE  /\ SubSeq(s, 1, n) \in Seq(E) /\ s[n + 1] \in E
         /\ SubSeq(s, 1, n + 1) = Append(SubSeq(s, 1, n), s[n + 1])
<1>1. n + 1 \in 1..Len(s)
  OBVIOUS
<1>2. SubSeq(s, 1, n) \in Seq(E) /\ s[n + 1] \in E
  BY <1>1
<1>3. SubSeq(s, 1, n + 1) = Append(SubSeq(s, 1, n), s[n + 1])
  BY <1>1
<1> QED BY <1>2, <1>3

LEMMA RecitesMore ==
  ASSUME NEW p \in Seq(Mark), NEW k, NEW parts \in Seq(Seq(Rune)), Recital(p, k, parts),
         NEW m \in Nat, m < Len(p), NEW c \in Nat, Recites(p, k, parts, m, c)
  PROVE  \E d \in Nat : Recites(p, k, parts, m + 1, d)
<1> DEFINE x == p[m + 1].piece
<1>1. /\ Len(p) \in Nat /\ m + 1 \in 1..Len(p) /\ p[m + 1] \in Mark
      /\ \A i \in 1..(m + 1) : i \in 1..m \/ i = m + 1
      /\ \A i \in 1..m : i \in 1..(m + 1) /\ i \in 1..Len(p) /\ i < m + 1
  OBVIOUS
<1>2. /\ SubSeq(p, 1, m) \in Seq(Mark)
      /\ SubSeq(p, 1, m + 1) = Append(SubSeq(p, 1, m), p[m + 1])
  BY OneMore
<1>3. HeardIn(SubSeq(p, 1, m + 1), k) = Hear(HeardIn(SubSeq(p, 1, m), k), p[m + 1], k)
  BY <1>1, <1>2, HeardInFacts
<1>4. /\ c <= Len(parts) /\ HeardIn(SubSeq(p, 1, m), k) = Together(SubSeq(parts, 1, c))
      /\ \A i \in 1..m : p[i].by = k => p[i].piece <= c
      /\ c = 0 \/ \E i \in 1..m : p[i].by = k /\ p[i].piece = c
  BY DEF Recites
<1>5. CASE p[m + 1].by # k
  <2>1. HeardIn(SubSeq(p, 1, m + 1), k) = Together(SubSeq(parts, 1, c))
    BY <1>3, <1>4, <1>5 DEF Hear
  <2>2. \A i \in 1..(m + 1) : p[i].by = k => p[i].piece <= c
    BY <1>1, <1>4, <1>5
  <2>3. c = 0 \/ \E i \in 1..(m + 1) : p[i].by = k /\ p[i].piece = c
    BY <1>1, <1>4
  <2>4. Recites(p, k, parts, m + 1, c)
    BY <1>4, <2>1, <2>2, <2>3 DEF Recites
  <2> QED BY <2>4
<1>6. CASE p[m + 1].by = k
  <2>1. /\ x \in 1..Len(parts) /\ p[m + 1].text = parts[x]
        /\ \A j \in 1..Len(p) : j < m + 1 /\ p[j].by = k => p[j].piece < x
        /\ \/ x = 1
           \/ \E j \in 1..Len(p) : j < m + 1 /\ p[j].by = k /\ p[j].piece = x - 1
    BY <1>1, <1>6 DEF Recital
  <2> HIDE DEF x
  <2>2. x \in Nat /\ 1 <= x /\ x <= Len(parts) /\ Len(parts) \in Nat
    BY <2>1
  <2>3. c < x
    <3>1. CASE c = 0
      BY <2>2, <3>1
    <3>2. CASE \E i \in 1..m : p[i].by = k /\ p[i].piece = c
      BY <1>1, <2>1, <3>2
    <3> QED BY <1>4, <3>1, <3>2
  <2>4. x - 1 <= c
    <3>1. CASE x = 1
      BY <3>1
    <3>2. CASE \E j \in 1..Len(p) : j < m + 1 /\ p[j].by = k /\ p[j].piece = x - 1
      <4>1. PICK j \in 1..Len(p) : j < m + 1 /\ p[j].by = k /\ p[j].piece = x - 1
        BY <3>2
      <4>2. j \in 1..m
        BY <4>1
      <4> QED BY <1>4, <4>1, <4>2
    <3> QED BY <2>1, <3>1, <3>2
  <2>5. x = c + 1 /\ c < Len(parts)
    BY <2>2, <2>3, <2>4
  <2>6. HeardIn(SubSeq(p, 1, m + 1), k) = Together(SubSeq(parts, 1, c)) \o parts[c + 1]
    BY <1>3, <1>4, <1>6, <2>1, <2>5 DEF Hear
  <2>7. HeardIn(SubSeq(p, 1, m + 1), k) = Together(SubSeq(parts, 1, c + 1))
    <3>1. /\ SubSeq(parts, 1, c) \in Seq(Seq(Rune)) /\ parts[c + 1] \in Seq(Rune)
          /\ SubSeq(parts, 1, c + 1) = Append(SubSeq(parts, 1, c), parts[c + 1])
      BY <2>5, OneMore
    <3>2. \A s \in Seq(Seq(Rune)) : \A y \in Seq(Rune) : Together(Append(s, y)) = Together(s) \o y
      BY TogetherFacts
    <3> QED BY <2>6, <3>1, <3>2
  <2>8. \A i \in 1..(m + 1) : p[i].by = k => p[i].piece <= c + 1
    <3>1. \A i \in 1..m : p[i].by = k => p[i].piece <= c + 1
      <4>1. \A i \in 1..m : p[i].by = k => p[i].piece < x
        BY <1>1, <2>1
      <4>2. \A i \in 1..m : p[i] \in Mark
        BY <1>1
      <4>3. \A i \in 1..m : p[i].piece \in Nat
        BY <4>2 DEF Mark
      <4> QED BY <2>5, <4>1, <4>3
    <3>2. p[m + 1].piece = c + 1
      BY <2>5 DEF x
    <3> QED BY <1>1, <3>1, <3>2
  <2>9. \E i \in 1..(m + 1) : p[i].by = k /\ p[i].piece = c + 1
    <3>1. p[m + 1].piece = c + 1 /\ m + 1 \in 1..(m + 1)
      BY <2>5 DEF x
    <3> QED BY <1>6, <3>1
  <2>10. c + 1 \in Nat /\ c + 1 <= Len(parts)
    BY <2>2, <2>5
  <2>11. Recites(p, k, parts, m + 1, c + 1)
    BY <2>7, <2>8, <2>9, <2>10 DEF Recites
  <2> QED BY <2>10, <2>11
<1> QED BY <1>5, <1>6

LEMMA Recited ==
  ASSUME NEW p \in Seq(Mark), NEW k, NEW parts \in Seq(Seq(Rune)), Recital(p, k, parts),
         \A n \in 1..Len(parts) : \E i \in 1..Len(p) : p[i].by = k /\ p[i].piece = n
  PROVE  HeardIn(p, k) = Together(parts)
<1> DEFINE Some(m) == \E c \in Nat : Recites(p, k, parts, m, c)
           N == {m \in Nat : m <= Len(p) => Some(m)}
<1>1. 0 \in N
  <2>1. SubSeq(p, 1, 0) = <<>> /\ SubSeq(parts, 1, 0) = <<>>
    BY SubSeqEmpty
  <2>2. HeardIn(<<>>, k) = <<>> /\ Together(<<>>) = <<>>
    BY HeardInFacts, TogetherFacts
  <2>3. 0 <= Len(parts) /\ 1..0 = {}
    OBVIOUS
  <2>4. Recites(p, k, parts, 0, 0)
    BY <2>1, <2>2, <2>3 DEF Recites
  <2> QED BY <2>4
<1>2. ASSUME NEW m \in N PROVE m + 1 \in N
  <2>1. m \in Nat /\ m + 1 \in Nat /\ (m <= Len(p) => Some(m)) /\ Len(p) \in Nat
    OBVIOUS
  <2>2. ASSUME m + 1 <= Len(p) PROVE Some(m + 1)
    <3>1. m < Len(p) /\ m <= Len(p)
      BY <2>1, <2>2
    <3>2. PICK c \in Nat : Recites(p, k, parts, m, c)
      BY <2>1, <3>1
    <3> QED BY <2>1, <3>1, <3>2, RecitesMore
  <2> HIDE DEF Some
  <2> QED BY <2>1, <2>2
<1>3. N = Nat
  <2>1. N \subseteq Nat
    OBVIOUS
  <2> HIDE DEF N
  <2> QED BY <1>1, <1>2, <2>1, Numbers
<1>4. Some(Len(p))
  <2>1. Len(p) \in Nat /\ Len(p) \in N
    <3> HIDE DEF N
    <3> QED BY <1>3
  <2> HIDE DEF Some
  <2> QED BY <2>1
<1>5. PICK c \in Nat : Recites(p, k, parts, Len(p), c)
  BY <1>4
<1>6. /\ c <= Len(parts) /\ HeardIn(SubSeq(p, 1, Len(p)), k) = Together(SubSeq(parts, 1, c))
      /\ \A i \in 1..Len(p) : p[i].by = k => p[i].piece <= c
  BY <1>5 DEF Recites
<1>7. c = Len(parts)
  <2>1. CASE Len(parts) = 0
    BY <1>6, <2>1
  <2>2. CASE Len(parts) # 0
    <3>1. Len(parts) \in 1..Len(parts) /\ Len(parts) \in Nat
      BY <2>2
    <3>2. Len(parts) <= c
      BY <1>6, <3>1
    <3> QED BY <1>6, <3>1, <3>2
  <2> QED BY <2>1, <2>2
<1>8. SubSeq(p, 1, Len(p)) = p /\ SubSeq(parts, 1, Len(parts)) = parts
  BY SubSeqFull
<1> QED BY <1>6, <1>7, <1>8

----------------------------------------------------------------------------
(* The lines and the marks are pieces of the text of their command. *)

(* The parts of a command are those of its text, and it is at one of them. *)
Divides(k) == send[k].at # "idle" =>
  /\ send[k].parts = splitUTF8(send[k].text)
  /\ send[k].at = "ready" \/ send[k].at = "waiting" => send[k].next <= Len(send[k].parts)
  /\ send[k].at = "ok" => send[k].next = Len(send[k].parts) + 1

Divided == \A k \in Sends : Divides(k)

(* n is a part of k. *)
Belongs(k, n) == send[k].at # "idle" /\ n <= Len(send[k].parts)

Requested == \A h \in asked : Belongs(h.by, h.piece)

Spells(l) == Belongs(l.by, l.piece) /\ l.line = FormatLine(send[l.by].parts[l.piece])
Written == \A i \in 1..Len(wire) : Spells(wire[i])

Tells(g) == Belongs(g.by, g.piece) /\ g.text = send[g.by].parts[g.piece]
Received == \A i \in 1..Len(got) : Tells(got[i])

Spelled == Divided /\ Requested /\ Written /\ Received

LEMMA TextTypes ==
  ASSUME Types, NEW k \in Sends
  PROVE  /\ send[k].text \in Seq(Rune) /\ send[k].next \in Nat \ {0}
         /\ send[k].parts \in Seq(Seq(Rune)) /\ Len(send[k].parts) \in Nat
<1>1. \A text \in Words : text \in Seq(Rune)
  <2>1. <<>> \in Seq(Rune)
    OBVIOUS
  <2> QED BY <2>1, TextsAssumption DEF Words
<1>2. \A parts \in Split : parts \in Seq(Seq(Rune))
  <2>1. <<>> \in Seq(Seq(Rune))
    OBVIOUS
  <2>2. \A text \in Words : splitUTF8(text) \in Seq(Seq(Rune))
    BY <1>1, SaidIsSplit
  <2> QED BY <2>1, <2>2 DEF Split
<1>3. send[k] \in SendRecord
  BY DEF Types
<1>4. send[k].text \in Words /\ send[k].parts \in Split /\ send[k].next \in Nat \ {0}
  BY <1>3 DEF SendRecord
<1>5. send[k].parts \in Seq(Seq(Rune))
  BY <1>2, <1>4
<1> QED BY <1>1, <1>4, <1>5

(* What has begun stays, so what is a piece of it stays one. *)
TextsStay == \A k \in Sends : send[k].at # "idle" => send'[k].at # "idle" /\ Stays(k)

LEMMA SpelledStays ==
  ASSUME TextsStay, Divided', asked' \subseteq Asked, \A h \in asked' : Belongs(h.by, h.piece),
         wire' \in Seq(WireLine), \A i \in 1..Len(wire') : Spells(wire'[i]),
         got' \in Seq(GotLine), \A i \in 1..Len(got') : Tells(got'[i])
  PROVE  Spelled'
<1>1. \A k \in Sends : \A n : Belongs(k, n) =>
        send'[k].at # "idle" /\ n <= Len(send'[k].parts) /\ send'[k].parts = send[k].parts
  BY DEF TextsStay, Stays, Belongs
<1>2. Requested'
  <2>1. \A h \in asked' : h.by \in Sends
    BY DEF Asked
  <2> QED BY <1>1, <2>1 DEF Requested, Belongs
<1>3. Written'
  <2>1. ASSUME NEW i \in 1..Len(wire')
        PROVE  /\ send'[wire'[i].by].at # "idle" /\ wire'[i].piece <= Len(send'[wire'[i].by].parts)
               /\ wire'[i].line = FormatLine(send'[wire'[i].by].parts[wire'[i].piece])
    <3>1. wire'[i] \in WireLine
      OBVIOUS
    <3>2. wire'[i].by \in Sends
      BY <3>1 DEF WireLine
    <3> QED BY <1>1, <3>2 DEF Spells
  <2> QED BY <2>1 DEF Written, Spells, Belongs
<1>4. Received'
  <2>1. ASSUME NEW i \in 1..Len(got')
        PROVE  /\ send'[got'[i].by].at # "idle" /\ got'[i].piece <= Len(send'[got'[i].by].parts)
               /\ got'[i].text = send'[got'[i].by].parts[got'[i].piece]
    <3>1. got'[i] \in GotLine
      OBVIOUS
    <3>2. got'[i].by \in Sends
      BY <3>1 DEF GotLine
    <3> QED BY <1>1, <3>2 DEF Tells
  <2> QED BY <2>1 DEF Received, Tells, Belongs
<1> QED BY <1>2, <1>3, <1>4 DEF Spelled

(* A step of one command. *)
LEMMA DividedStays ==
  ASSUME Divided, NEW k \in Sends, Others(k), Divides(k)'
  PROVE  Divided'
BY DEF Divided, Divides, Others

(* A step of no command. *)
LEMMA SameSends ==
  ASSUME Divided, UNCHANGED send
  PROVE  Divided' /\ TextsStay
BY DEF Divided, Divides, TextsStay, Stays

LEMMA BeginsSpells ==
  ASSUME Inv, Inv', Spelled, NEW k \in Sends, NEW text \in Texts[k], Begins(k, text)
  PROVE  Spelled'
<1>1. Types /\ OneRequest /\ Types' /\ send[k].at = "idle" /\ send[k].next = 1
  BY DEF Inv, OneRequest, Begins
<1>2. UNCHANGED <<asked, wire, got>>
  BY DEF Begins
<1>3. PICK at \in {"ready", "failed"} : Comes(k, at)
  BY <1>1, Beginning
<1>4. /\ send'[k].text = text /\ send'[k].parts = splitUTF8(text)
      /\ send'[k].at = "ready" => send'[k].parts # <<>>
  BY <1>1, Beginning
<1>5. send'[k].at = at /\ send'[k].next = 1 /\ Others(k)
  BY <1>1, <1>3 DEF Comes
<1>6. send'[k].parts # <<>> => 1 <= Len(send'[k].parts)
  <2>1. send'[k].parts \in Seq(Seq(Rune))
    <3>1. text \in Seq(Rune)
      BY TextsAssumption
    <3> QED BY <1>4, <3>1, SaidIsSplit
  <2> QED BY <2>1
<1>7. Divides(k)'
  BY <1>3, <1>4, <1>5, <1>6 DEF Divides
<1>8. Divided'
  BY <1>5, <1>7, DividedStays DEF Spelled
<1>9. TextsStay
  BY <1>1, <1>5 DEF TextsStay, Stays, Others
<1>10. /\ asked' \subseteq Asked /\ wire' \in Seq(WireLine) /\ got' \in Seq(GotLine)
  BY <1>1 DEF Types
<1> QED BY <1>2, <1>8, <1>9, <1>10, SpelledStays DEF Spelled, Requested, Written, Received

LEMMA RequestsSpells ==
  ASSUME Inv, Inv', Spelled, NEW k \in Sends, Requests(k)
  PROVE  Spelled'
<1> DEFINE q == [by |-> k, piece |-> send[k].next, answer |-> "none"]
<1>1. Types /\ Types' /\ Divides(k)
  BY DEF Inv, Spelled, Divided
<1>2. send[k].at = "ready" /\ asked' = asked \cup {q} /\ UNCHANGED <<wire, got>>
  BY DEF Requests
<1>3. Comes(k, "waiting") /\ Stays(k)
  BY <1>1, Coming DEF Requests, At
<1>4. /\ send'[k].at = "waiting" /\ send'[k].next = send[k].next /\ Others(k)
      /\ send'[k].text = send[k].text /\ send'[k].parts = send[k].parts
  BY <1>3 DEF Comes, Stays
<1>5. send[k].parts = splitUTF8(send[k].text) /\ send[k].next <= Len(send[k].parts)
  BY <1>1, <1>2 DEF Divides
<1>6. Divided'
  <2>1. Divides(k)'
    BY <1>4, <1>5 DEF Divides
  <2> QED BY <1>4, <2>1, DividedStays DEF Spelled
<1>7. TextsStay
  BY <1>4 DEF TextsStay, Stays, Others
<1>8. q.by = k /\ q.piece = send[k].next
  OBVIOUS
<1> HIDE DEF q
<1>9. \A h \in asked' : Belongs(h.by, h.piece)
  BY <1>2, <1>5, <1>8 DEF Belongs, Spelled, Requested
<1>10. /\ asked' \subseteq Asked /\ wire' \in Seq(WireLine) /\ got' \in Seq(GotLine)
  BY <1>1 DEF Types
<1> QED BY <1>2, <1>6, <1>7, <1>9, <1>10, SpelledStays DEF Spelled, Written, Received

LEMMA FailsSpells ==
  ASSUME Inv, Inv', Spelled, NEW k \in Sends, send[k].at = "ready" \/ send[k].at = "waiting",
         send' = [send EXCEPT ![k].at = "failed"], UNCHANGED <<asked, wire, got>>
  PROVE  Spelled'
<1>1. Types /\ Types' /\ Divides(k)
  BY DEF Inv, Spelled, Divided
<1>2. Comes(k, "failed") /\ Stays(k)
  BY <1>1, Coming DEF At
<1>3. /\ send'[k].at = "failed" /\ Others(k)
      /\ send'[k].text = send[k].text /\ send'[k].parts = send[k].parts
  BY <1>2 DEF Comes, Stays
<1>4. Divided'
  <2>1. Divides(k)'
    BY <1>1, <1>3 DEF Divides
  <2> QED BY <1>3, <2>1, DividedStays DEF Spelled
<1>5. TextsStay
  BY <1>3 DEF TextsStay, Stays, Others
<1>6. /\ asked' \subseteq Asked /\ wire' \in Seq(WireLine) /\ got' \in Seq(GotLine)
  BY <1>1 DEF Types
<1> QED BY <1>4, <1>5, <1>6, SpelledStays DEF Spelled, Requested, Written, Received

LEMMA ReceivesSpells ==
  ASSUME Inv, Inv', Spelled, NEW k \in Sends, NEW h \in asked, Receives(k, h)
  PROVE  Spelled'
<1>1. Types /\ Types' /\ Divides(k)
  BY DEF Inv, Spelled, Divided
<1>2. /\ Others(k) /\ send'[k].next = send[k].next + 1 /\ Stays(k)
      /\ \/ send'[k].at = "failed"
         \/ h.answer = "ok" /\ IF send[k].next = Len(send[k].parts) THEN send'[k].at = "ok"
                               ELSE send'[k].at = "ready"
      /\ send[k].at = "waiting" /\ asked' = asked \ {h} /\ UNCHANGED <<wire, got>>
  BY <1>1, Receiving
<1>3. send'[k].text = send[k].text /\ send'[k].parts = send[k].parts
  BY <1>2 DEF Stays
<1>4. /\ send[k].parts = splitUTF8(send[k].text) /\ send[k].next <= Len(send[k].parts)
      /\ send[k].next \in Nat /\ Len(send[k].parts) \in Nat
  BY <1>1, <1>2, TextTypes DEF Divides
<1>5. Divides(k)'
  <2>1. CASE send'[k].at = "failed"
    BY <1>3, <1>4, <2>1 DEF Divides
  <2>2. CASE send'[k].at = "ok" /\ send[k].next = Len(send[k].parts)
    BY <1>2, <1>3, <1>4, <2>2 DEF Divides
  <2>3. CASE send'[k].at = "ready" /\ send[k].next # Len(send[k].parts)
    <3>1. send'[k].next <= Len(send'[k].parts)
      BY <1>2, <1>3, <1>4, <2>3
    <3> QED BY <1>3, <1>4, <2>3, <3>1 DEF Divides
  <2> QED BY <1>2, <2>1, <2>2, <2>3
<1>6. Divided'
  BY <1>2, <1>5, DividedStays DEF Spelled
<1>7. TextsStay
  BY <1>2 DEF TextsStay, Stays, Others
<1>8. \A g \in asked' : Belongs(g.by, g.piece)
  BY <1>2 DEF Spelled, Requested
<1>9. /\ asked' \subseteq Asked /\ wire' \in Seq(WireLine) /\ got' \in Seq(GotLine)
  BY <1>1 DEF Types
<1> QED BY <1>2, <1>6, <1>7, <1>8, <1>9, SpelledStays DEF Spelled, Written, Received

(* An answer of a handler, whatever else it does. *)
LEMMA EndsSpells ==
  ASSUME Inv, Inv', Spelled, NEW h \in asked, NEW answer \in {"ok", "error"}, Answer(h, answer),
         UNCHANGED <<send, got>>, \A i \in 1..Len(wire') : Spells(wire'[i])
  PROVE  Spelled'
<1>1. Types /\ Types' /\ Divided
  BY DEF Inv, Spelled
<1>2. Divided' /\ TextsStay
  BY <1>1, SameSends
<1>3. Ends(h, answer)
  BY <1>1, Answering
<1>4. \A g \in asked' : Belongs(g.by, g.piece)
  <2>1. \A g \in asked' : g \in asked \/ (g.by = h.by /\ g.piece = h.piece)
    BY <1>3 DEF Ends
  <2>2. \A g \in asked : Belongs(g.by, g.piece)
    BY DEF Spelled, Requested
  <2> QED BY <2>1, <2>2
<1>5. /\ asked' \subseteq Asked /\ wire' \in Seq(WireLine) /\ got' \in Seq(GotLine)
  BY <1>1 DEF Types
<1> QED BY <1>2, <1>4, <1>5, SpelledStays DEF Spelled, Received

LEMMA WritesSpells ==
  ASSUME Inv, Inv', Spelled, NEW h \in asked, Writes(h)
  PROVE  Spelled'
<1> DEFINE line == FormatLine(Piece(h))
           l == [by |-> h.by, piece |-> h.piece, line |-> line]
<1>1. Answer(h, "ok") /\ wire' = Append(wire, l) /\ UNCHANGED <<send, got>>
  BY DEF Writes
<1>2. l.by = h.by /\ l.piece = h.piece /\ l.line = FormatLine(send[h.by].parts[h.piece])
  BY DEF Piece
<1>3. wire \in Seq(WireLine)
  BY DEF Inv, Types
<1> HIDE DEF l
<1>4. Spells(l)
  BY <1>2 DEF Spells, Spelled, Requested, Belongs
<1>5. \A i \in 1..Len(wire') : Spells(wire'[i])
  <2>1. /\ Len(wire') = Len(wire) + 1 /\ wire'[Len(wire) + 1] = l /\ Len(wire) \in Nat
        /\ \A i \in 1..Len(wire) : wire'[i] = wire[i]
    BY <1>1, <1>3
  <2>2. \A i \in 1..Len(wire') : i \in 1..Len(wire) \/ i = Len(wire) + 1
    BY <2>1
  <2> QED BY <1>4, <2>1, <2>2 DEF Spelled, Written
<1> QED BY <1>1, <1>5, EndsSpells

(* A step of the connection. *)
LEMMA LinkSpells ==
  ASSUME Inv, Inv', Spelled, UNCHANGED <<send, asked, got>>, wire' = wire \/ wire' = <<>>
  PROVE  Spelled'
<1>1. Types' /\ Divided
  BY DEF Inv, Spelled
<1>2. Divided' /\ TextsStay
  BY <1>1, SameSends
<1>3. \A i \in 1..Len(wire') : Spells(wire'[i])
  <2>1. 1..Len(<<>>) = {}
    OBVIOUS
  <2> QED BY <2>1 DEF Spelled, Written
<1>4. /\ asked' \subseteq Asked /\ wire' \in Seq(WireLine) /\ got' \in Seq(GotLine)
  BY <1>1 DEF Types
<1> QED BY <1>2, <1>3, <1>4, SpelledStays DEF Spelled, Requested, Received

(* The peer hears the piece that was written. *)
LEMMA PieceHeard ==
  ASSUME Types, NEW k \in Sends, NEW n \in Nat \ {0}, n <= Len(send[k].parts),
         NEW line \in {FormatLine(send[k].parts[n])} \cup Relayed(FormatLine(send[k].parts[n]))
  PROVE  Heard(line) = send[k].parts[n]
<1>1. n \in 1..Len(send[k].parts) /\ send[k].parts \in Seq(Seq(Rune))
  BY TextTypes
<1>2. send[k].parts[n] \in Seq(Rune)
  BY <1>1
<1> QED BY <1>2, HeardIsText

LEMMA RelaysSpells ==
  ASSUME Inv, Inv', Spelled, Relays
  PROVE  Spelled'
<1>1. Types /\ Types' /\ Divided
  BY DEF Inv, Spelled
<1>2. Divided' /\ TextsStay
  BY <1>1, SameSends DEF Relays
<1>3. PICK line \in Relayed(wire[1].line) :
        got' = Append(got, [by |-> wire[1].by, piece |-> wire[1].piece, text |-> Heard(line)])
  BY DEF Relays
<1> DEFINE g == [by |-> wire[1].by, piece |-> wire[1].piece, text |-> Heard(line)]
<1>4. /\ wire # <<>> /\ wire' = Tail(wire) /\ got' = Append(got, g) /\ UNCHANGED <<send, asked>>
      /\ g.by = wire[1].by /\ g.piece = wire[1].piece /\ g.text = Heard(line)
  BY <1>3 DEF Relays
<1> HIDE DEF g
<1>5. wire \in Seq(WireLine) /\ got \in Seq(GotLine) /\ 1 \in 1..Len(wire) /\ wire[1] \in WireLine
  BY <1>1, <1>4 DEF Types
<1>6. wire[1].by \in Sends /\ wire[1].piece \in Nat \ {0} /\ Spells(wire[1])
  BY <1>5 DEF WireLine, Spelled, Written
<1>7. Tells(g)
  <2>1. /\ Belongs(wire[1].by, wire[1].piece)
        /\ wire[1].line = FormatLine(send[wire[1].by].parts[wire[1].piece])
    BY <1>6 DEF Spells
  <2>2. Heard(line) = send[wire[1].by].parts[wire[1].piece]
    BY <1>1, <1>3, <1>6, <2>1, PieceHeard DEF Belongs
  <2> QED BY <1>4, <2>1, <2>2 DEF Tells
<1>8. \A i \in 1..Len(got') : Tells(got'[i])
  <2>1. /\ Len(got') = Len(got) + 1 /\ got'[Len(got) + 1] = g /\ Len(got) \in Nat
        /\ \A i \in 1..Len(got) : got'[i] = got[i]
    BY <1>4, <1>5
  <2>2. \A i \in 1..Len(got') : i \in 1..Len(got) \/ i = Len(got) + 1
    BY <2>1
  <2> QED BY <1>7, <2>1, <2>2 DEF Spelled, Received
<1>9. \A i \in 1..Len(wire') : Spells(wire'[i])
  <2>1. \A i \in 1..Len(wire') : wire'[i] = wire[i + 1] /\ i + 1 \in 1..Len(wire)
    BY <1>4, <1>5
  <2> QED BY <2>1 DEF Spelled, Written
<1>10. /\ asked' \subseteq Asked /\ wire' \in Seq(WireLine) /\ got' \in Seq(GotLine)
  BY <1>1 DEF Types
<1> QED BY <1>2, <1>4, <1>8, <1>9, <1>10, SpelledStays DEF Spelled, Requested

LEMMA InitSpelled == Init => Spelled
<1> SUFFICES ASSUME Init PROVE Spelled
  OBVIOUS
<1>1. asked = {} /\ wire = <<>> /\ got = <<>> /\ \A k \in Sends : send[k].at = "idle"
  BY DEF Init, Idle
<1>2. 1..Len(wire) = {} /\ 1..Len(got) = {}
  BY <1>1
<1> QED BY <1>1, <1>2 DEF Spelled, Divided, Divides, Requested, Written, Received

LEMMA SpelledInductive == Inv /\ Inv' /\ Spelled /\ [Next]_vars => Spelled'
<1> SUFFICES ASSUME Inv, Inv', Spelled, [Next]_vars PROVE Spelled'
  OBVIOUS
<1>1. ASSUME NEW k \in Sends, CommandStep(k)
      PROVE  Spelled'
  <2>1. CASE \E text \in Texts[k] : Begins(k, text)
    BY <2>1, BeginsSpells
  <2>2. CASE Requests(k)
    BY <2>2, RequestsSpells
  <2>3. CASE RequestFails(k)
    BY <2>3, FailsSpells DEF RequestFails
  <2>4. CASE GivesUp(k)
    BY <2>4, FailsSpells DEF GivesUp
  <2>5. CASE \E h \in asked : Receives(k, h)
    BY <2>5, ReceivesSpells
  <2> QED BY <1>1, <2>1, <2>2, <2>3, <2>4, <2>5 DEF CommandStep
<1>2. ASSUME NEW h \in asked, HandlerStep(h)
      PROVE  Spelled'
  <2>0. \A i \in 1..Len(wire) : Spells(wire[i])
    BY DEF Spelled, Written
  <2>1. CASE Writes(h)
    BY <2>1, WritesSpells
  <2>2. CASE WritesInVain(h)
    BY <2>0, <2>2, EndsSpells DEF WritesInVain
  <2>3. CASE WriteFails(h)
    BY <2>0, <2>3, EndsSpells DEF WriteFails
  <2>4. CASE Declined(h)
    BY <2>0, <2>4, EndsSpells DEF Declined
  <2> QED BY <1>2, <2>1, <2>2, <2>3, <2>4 DEF HandlerStep
<1>3. CASE LinkBreaks
  BY <1>3, LinkSpells DEF LinkBreaks
<1>4. CASE LinkDropped \/ Reconnects
  BY <1>4, LinkSpells DEF LinkDropped, Reconnects
<1>5. CASE Relays
  BY <1>5, RelaysSpells
<1>6. CASE UNCHANGED vars
  BY <1>6, LinkSpells DEF vars
<1> QED BY <1>1, <1>2, <1>3, <1>4, <1>5, <1>6 DEF Next

(* The marks as the peer has them. *)
LEMMA MarksTell ==
  ASSUME Inv, Spelled
  PROVE  /\ Passed \in Seq(Mark) /\ Len(Passed) = Count
         /\ \A i \in 1..Count : Passed[i].by = By(i) /\ Passed[i].piece = Nth(i) /\ Tells(Passed[i])
<1> DEFINE p == Passed
<1>1. /\ Types /\ Count \in Nat /\ Count = Len(got) + Len(wire) /\ Len(got) \in Nat /\ Len(wire) \in Nat
      /\ wire \in Seq(WireLine) /\ got \in Seq(GotLine)
  BY MarkTypes DEF Inv, Types, Count
<1>2. p = [i \in 1..Count |-> p[i]]
  BY DEF Passed, Count
<1>3. ASSUME NEW i \in 1..Count
      PROVE  p[i].by = By(i) /\ p[i].piece = Nth(i) /\ Tells(p[i]) /\ p[i] \in Mark
  <2>1. CASE i <= Len(got)
    <3>1. p[i] = got[i] /\ i \in 1..Len(got)
      BY <1>1, <1>3, <2>1 DEF Passed
    <3>2. got[i] \in GotLine /\ Tells(got[i])
      BY <1>1, <3>1 DEF Spelled, Received
    <3>3. got[i].by = By(i) /\ got[i].piece = Nth(i)
      BY <2>1 DEF By, Nth
    <3>4. got[i] \in Mark
      <4> DEFINE k == got[i].by
                 n == got[i].piece
      <4>1. k \in Sends /\ n \in Nat \ {0} /\ got[i] = [by |-> k, piece |-> n, text |-> got[i].text]
        BY <3>2 DEF GotLine
      <4>2. got[i].text = send[k].parts[n] /\ n <= Len(send[k].parts)
        BY <3>2 DEF Tells, Belongs
      <4> HIDE DEF k, n
      <4>3. n \in 1..Len(send[k].parts) /\ send[k].parts \in Seq(Seq(Rune))
        BY <1>1, <4>1, <4>2, TextTypes
      <4>4. got[i].text \in Seq(Rune)
        BY <4>2, <4>3
      <4> QED BY <4>1, <4>4 DEF Mark
    <3> HIDE DEF p
    <3> QED BY <3>1, <3>2, <3>3, <3>4
  <2>2. CASE ~(i <= Len(got))
    <3> DEFINE m == i - Len(got)
               k == wire[m].by
               n == wire[m].piece
               text == Heard(wire[m].line)
    <3>1. m \in 1..Len(wire)
      BY <1>1, <1>3, <2>2
    <3>2. p[i] = [by |-> k, piece |-> n, text |-> text]
      BY <1>1, <1>3, <2>2 DEF Passed, Count
    <3>3. k = By(i) /\ n = Nth(i)
      BY <2>2 DEF By, Nth
    <3>4. wire[m] \in WireLine /\ Spells(wire[m])
      BY <1>1, <3>1 DEF Spelled, Written
    <3>5. /\ k \in Sends /\ n \in Nat \ {0} /\ Belongs(k, n)
          /\ wire[m].line = FormatLine(send[k].parts[n])
      BY <3>4 DEF WireLine, Spells
    <3>a. text = Heard(wire[m].line)
      OBVIOUS
    <3> HIDE DEF p, k, n, text
    <3>6. text = send[k].parts[n] /\ n \in 1..Len(send[k].parts) /\ send[k].parts \in Seq(Seq(Rune))
      <4>1. /\ send[k].parts \in Seq(Seq(Rune)) /\ Len(send[k].parts) \in Nat
            /\ n <= Len(send[k].parts) /\ n \in 1..Len(send[k].parts)
        BY <1>1, <3>5, TextTypes DEF Belongs
      <4>2. Heard(FormatLine(send[k].parts[n])) = send[k].parts[n]
        BY <1>1, <3>5, <4>1, PieceHeard
      <4> QED BY <3>5, <3>a, <4>1, <4>2
    <3>7. text \in Seq(Rune)
      BY <3>6
    <3>8. p[i] \in Mark
      BY <3>2, <3>5, <3>7 DEF Mark
    <3>9. Tells(p[i])
      BY <3>2, <3>5, <3>6 DEF Tells
    <3> QED BY <3>2, <3>3, <3>8, <3>9
  <2> QED BY <2>1, <2>2
<1> HIDE DEF p
<1>4. p \in Seq(Mark) /\ Len(p) = Count
  <2>1. p \in [1..Count -> Mark]
    BY <1>2, <1>3
  <2> QED BY <1>1, <2>1
<1> QED BY <1>3, <1>4 DEF p

LEMMA Whole == Inv /\ Spelled => TextsAreWhole
<1> SUFFICES ASSUME Inv, Spelled PROVE TextsAreWhole
  OBVIOUS
<1> DEFINE p == Passed
<1>1. /\ p \in Seq(Mark) /\ Len(p) = Count
      /\ \A i \in 1..Count : p[i].by = By(i) /\ p[i].piece = Nth(i) /\ Tells(p[i])
  BY MarksTell
<1>2. Types /\ Complete /\ Increasing /\ Gapless
  BY DEF Inv
<1>3. Count \in Nat /\ \A i \in 1..Count : By(i) \in Sends /\ Nth(i) \in Nat \ {0}
  BY <1>2, MarkTypes
<1>4. \A k \in Sends : send[k].at # "idle" => send[k].parts = splitUTF8(send[k].text)
  BY DEF Spelled, Divided, Divides
<1> HIDE DEF p
<1>5. ASSUME NEW i \in 1..Count
      PROVE  /\ p[i].piece \in 1..Len(send[p[i].by].parts)
             /\ p[i].text = send[p[i].by].parts[p[i].piece] /\ Fits(p[i].text)
  <2> DEFINE k == p[i].by
             n == p[i].piece
  <2>1. k \in Sends /\ n \in Nat \ {0}
    BY <1>1, <1>3
  <2>2. send[k].at # "idle" /\ n <= Len(send[k].parts) /\ p[i].text = send[k].parts[n]
    BY <1>1 DEF Tells, Belongs
  <2> HIDE DEF k, n
  <2>3. send[k].text \in Seq(Rune) /\ Len(send[k].parts) \in Nat
    BY <1>2, <2>1, TextTypes
  <2>4. AllFit(send[k].parts)
    BY <1>4, <2>1, <2>2, <2>3, SaidIsSplit
  <2>5. n \in 1..Len(send[k].parts)
    BY <2>1, <2>2, <2>3
  <2>6. Fits(send[k].parts[n])
    BY <2>4, <2>5 DEF AllFit
  <2> QED BY <2>2, <2>5, <2>6 DEF k, n
<1>6. ASSUME NEW k \in Sends, send[k].at = "ok", k \notin lost
      PROVE  HeardOf(k) = Said(send[k].text)
  <2> DEFINE parts == send[k].parts
  <2>1. /\ parts \in Seq(Seq(Rune)) /\ Len(parts) \in Nat /\ send[k].text \in Seq(Rune)
        /\ parts = splitUTF8(send[k].text) /\ send[k].next = Len(parts) + 1
    BY <1>2, <1>4, <1>6, TextTypes DEF Spelled, Divided, Divides
  <2>2. Recital(p, k, parts)
    <3>1. ASSUME NEW i \in 1..Count, p[i].by = k
          PROVE  /\ p[i].piece \in 1..Len(parts) /\ p[i].text = parts[p[i].piece]
                 /\ \A j \in 1..Count : j < i /\ p[j].by = k => p[j].piece < p[i].piece
                 /\ \/ p[i].piece = 1
                    \/ \E j \in 1..Count : j < i /\ p[j].by = k /\ p[j].piece = p[i].piece - 1
      <4>1. p[i].piece \in 1..Len(parts) /\ p[i].text = parts[p[i].piece]
        BY <1>5, <3>1
      <4>2. \A j \in 1..Count : j < i /\ p[j].by = k => p[j].piece < p[i].piece
        BY <1>1, <1>2, <3>1 DEF Increasing
      <4>3. By(i) = k /\ p[i].piece = Nth(i)
        BY <1>1, <3>1
      <4>4. Nth(i) = 1 \/ \E j \in 1..Count : j < i /\ By(j) = k /\ Nth(j) = Nth(i) - 1
        BY <1>2, <1>6, <4>3 DEF Gapless
      <4>5. \/ p[i].piece = 1
            \/ \E j \in 1..Count : j < i /\ p[j].by = k /\ p[j].piece = p[i].piece - 1
        BY <1>1, <4>3, <4>4
      <4> QED BY <4>1, <4>2, <4>5
    <3> HIDE DEF parts
    <3> QED BY <1>1, <3>1 DEF Recital
  <2>3. \A n \in 1..Len(parts) : \E i \in 1..Len(p) : p[i].by = k /\ p[i].piece = n
    <3>1. GoesOn(k)
      BY <1>6 DEF GoesOn
    <3>2. \A n \in Nat : 1 <= n /\ n < send[k].next => Has(k, n)
      BY <1>2, <1>6, <3>1 DEF Complete
    <3>3. \A n \in 1..Len(parts) : Has(k, n)
      BY <2>1, <3>2
    <3> HIDE DEF parts
    <3> QED BY <1>1, <3>3 DEF Has
  <2>4. HeardIn(p, k) = Together(parts)
    <3> HIDE DEF parts
    <3> QED BY <1>1, <2>1, <2>2, <2>3, Recited
  <2>5. Said(send[k].text) = Together(parts)
    BY <2>1, SaidIsSplit
  <2>6. HeardOf(k) = HeardIn(p, k)
    BY DEF HeardOf, HeardIn, p
  <2> QED BY <2>4, <2>5, <2>6
<1>7. DOMAIN p = 1..Count
  BY <1>1
<1>8. \A i \in DOMAIN p :
        p[i].text = send[p[i].by].parts[p[i].piece] /\ p[i].text # <<>> /\ Size(p[i].text) <= Limit
  BY <1>5, <1>7 DEF Fits
<1> QED BY <1>6, <1>8 DEF TextsAreWhole, p

(* TextsArriveWhole: every piece that the peer hears is a piece of the text as
   it was given, not empty and within the limit; and of a command that
   succeeded, with nothing lost on the way, the peer hears the text: every rune
   of every line that is not blank, in order, once and nothing else (splitUTF8,
   ChatService.Send and DM, FormatLine, ParseLine, Conn.handle). *)
THEOREM TextsArriveWhole == Spec => []TextsAreWhole
<1>1. Spec => []Inv
  BY InitInv, Inductive, PTL DEF Spec
<1>2. Inv /\ Inv' /\ Spelled /\ [Next]_vars => Spelled'
  BY SpelledInductive
<1>3. Spec => []Spelled
  BY <1>1, <1>2, InitSpelled, PTL DEF Spec
<1> QED BY <1>1, <1>3, Whole, PTL

=============================================================================
