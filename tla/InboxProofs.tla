---------------------------- MODULE InboxProofs ----------------------------
(***************************************************************************)
(* Proofs about Inbox: its types, that no cursor passes over a message     *)
(* that was not returned, and that one poll covers the time before a       *)
(* watch, for any number of invokers, polls, messages and watches.         *)
(***************************************************************************)
EXTENDS Inbox, TLAPS

Kind == {"peer", "other"}

(* Lines, of an explicit store: what the lemmas below are about. *)
LinesOf(s, from, next) == {k \in DOMAIN s : from < k /\ k <= next /\ s[k] = "peer"}

(* Appending changes no line that is there already. *)
LEMMA LinesKept ==
  ASSUME NEW s \in Seq(Kind), NEW x \in Kind, NEW from \in Nat, NEW next \in Nat,
         next <= Len(s)
  PROVE  LinesOf(Append(s, x), from, next) = LinesOf(s, from, next)
BY DEF LinesOf

(* Lines up to an offset are those up to an earlier one and those between. *)
LEMMA LinesSplit ==
  ASSUME NEW s \in Seq(Kind), NEW from \in Nat, NEW next \in Nat
  PROVE  LinesOf(s, 0, next) \subseteq LinesOf(s, 0, from) \cup LinesOf(s, from, next)
BY DEF LinesOf

(* A longer prefix has at least the lines of a shorter one. *)
LEMMA LinesGrow ==
  ASSUME NEW s \in Seq(Kind), NEW a \in Nat, NEW b \in Nat, a <= b
  PROVE  LinesOf(s, 0, a) \subseteq LinesOf(s, 0, b)
BY DEF LinesOf

(* Lines are named by positions of the file. *)
LEMMA LinesArePositions ==
  ASSUME NEW s \in Seq(Kind), NEW from \in Nat, NEW next \in Nat, MaxMessages \in Nat,
         Len(s) <= MaxMessages
  PROVE  LinesOf(s, from, next) \subseteq Position
BY DEF LinesOf, Position

(* Offsets lie within the file, and a poll began no later than now. *)
Bounds ==
  /\ \A i \in Invoker : cursor[i] <= Len(store)
  /\ \A p \in Poll : /\ poll[p].from <= Len(store)
                     /\ poll[p].next <= Len(store)
                     /\ poll[p].since <= watches
  /\ watch.offset <= Len(store)
  /\ ~watch.on => covered = {}

(* What a poll starts from has been returned to its invoker before. *)
PollInv ==
  /\ NothingSkipped
  /\ \A p \in Poll : poll[p].pc # "idle" => Lines(0, poll[p].from) \subseteq taken[poll[p].by]

(* A poll that began under this watch, once it has read, closes the gap. *)
GapInv ==
  /\ GapCovered
  /\ watch.on => \A p \in Poll : poll[p].pc = "save" /\ poll[p].since = watches =>
                   Lines(0, watch.offset) \subseteq emitted \cup Lines(0, poll[p].next)

IInv == TypeOK /\ Bounds /\ PollInv /\ GapInv

ReceiveStep == \E whose \in Kind : Receives(whose)
PollsStep   == \E p \in Poll : PollStep(p)
WatchStep   == WatchBegins \/ WatchReads \/ WatchEnds

----------------------------------------------------------------------------
(* The inductive invariant holds at first. *)
LEMMA InitInv == Init => IInv
<1> SUFFICES ASSUME Init PROVE IInv
    OBVIOUS
<1> USE BoundsAssumption, InvokerAssumption DEF Init, NoPoll, NoWatch, Offset
<1>1. TypeOK
  BY DEF TypeOK
<1>2. Bounds
  BY DEF Bounds
<1>3. PollInv
  BY DEF PollInv, NothingSkipped, Lines
<1>4. GapInv
  BY DEF GapInv, GapCovered
<1> QED BY <1>1, <1>2, <1>3, <1>4 DEF IInv

(* What the types say, for the provers' arithmetic. *)
LEMMA Facts ==
  ASSUME TypeOK, Bounds
  PROVE  /\ store \in Seq(Kind) /\ Len(store) \in Nat /\ Len(store) <= MaxMessages
         /\ \A i \in Invoker : cursor[i] \in Nat /\ cursor[i] <= Len(store)
         /\ \A p \in Poll : /\ poll[p].from \in Nat /\ poll[p].from <= Len(store)
                            /\ poll[p].next \in Nat /\ poll[p].next <= Len(store)
                            /\ poll[p].since \in Nat /\ poll[p].since <= watches
                            /\ poll[p].pc # "idle" => poll[p].by \in Invoker
         /\ watch.offset \in Nat /\ watch.offset <= Len(store)
         /\ watches \in Nat /\ polls \in Nat
         /\ MaxMessages \in Nat
BY BoundsAssumption DEF TypeOK, Bounds, Offset, Kind

(* An appended message lies beyond every offset. *)
LEMMA ReceiveInv == IInv /\ ReceiveStep => IInv'
<1> SUFFICES ASSUME IInv, NEW whose \in Kind, Receives(whose) PROVE IInv'
    BY DEF ReceiveStep
<1> USE DEF IInv
<1>f. /\ store \in Seq(Kind) /\ Len(store) \in Nat
      /\ store' = Append(store, whose) /\ Len(store') = Len(store) + 1
      /\ Len(store') <= MaxMessages
      /\ store' \in Seq(Kind)
      /\ UNCHANGED <<cursor, poll, taken, watch, covered, emitted, polls, watches>>
  BY Facts, BoundsAssumption DEF Receives
<1>k. \A from, next \in Nat : next <= Len(store) => Lines(from, next)' = Lines(from, next)
  <2> SUFFICES ASSUME NEW from \in Nat, NEW next \in Nat, next <= Len(store)
               PROVE  LinesOf(store', from, next) = LinesOf(store, from, next)
    BY DEF Lines, LinesOf
  <2> QED BY <1>f, LinesKept
<1>1. TypeOK'
  BY <1>f DEF TypeOK, Kind
<1>2. Bounds'
  BY <1>f, Facts DEF Bounds
<1>3. PollInv'
  BY <1>f, <1>k, Facts DEF PollInv, NothingSkipped
<1>4. GapInv'
  BY <1>f, <1>k, Facts DEF GapInv, GapCovered
<1> QED BY <1>1, <1>2, <1>3, <1>4

----------------------------------------------------------------------------
(* The steps of a poll. *)
LEMMA BeginsInv ==
  ASSUME IInv, NEW p \in Poll, NEW i \in Invoker, NEW replay \in BOOLEAN,
         PollBegins(p, i, replay)
  PROVE  IInv'
<1> USE DEF IInv
<1>f. /\ UNCHANGED <<store, cursor, taken, watch, covered, emitted, watches>>
      /\ polls' = polls + 1 /\ polls < MaxPolls
      /\ \A q \in Poll : q # p => poll'[q] = poll[q]
      /\ poll'[p].pc = "read" /\ poll'[p].by = i /\ poll'[p].next = 0
      /\ poll'[p].from = IF replay THEN 0 ELSE cursor[i]
      /\ poll'[p].since = IF watch.on THEN watches ELSE 0
  BY DEF PollBegins, TypeOK
<1>1. TypeOK'
  <2>1. poll' \in [Poll -> [pc : {"idle", "read", "save"}, by : Invoker \cup {NoInvoker},
                            from : Offset, next : Offset, since : 0..MaxWatches]]
    <3>1. [pc |-> "read", by |-> i, from |-> IF replay THEN 0 ELSE cursor[i],
           next |-> 0, since |-> IF watch.on THEN watches ELSE 0]
          \in [pc : {"idle", "read", "save"}, by : Invoker \cup {NoInvoker},
               from : Offset, next : Offset, since : 0..MaxWatches]
      BY BoundsAssumption DEF TypeOK, Offset
    <3> QED BY <3>1 DEF PollBegins, TypeOK
  <2>2. polls' \in 0..MaxPolls
    BY <1>f, BoundsAssumption DEF TypeOK
  <2> QED BY <1>f, <2>1, <2>2 DEF TypeOK
<1>2. Bounds'
  BY <1>f, Facts DEF Bounds
<1>3. PollInv'
  <2>1. Lines(0, 0) = {}
    BY Facts DEF Lines
  <2> QED BY <1>f, <2>1, Facts DEF PollInv, NothingSkipped, Lines
<1>4. GapInv'
  BY <1>f DEF GapInv, GapCovered, Lines
<1> QED BY <1>1, <1>2, <1>3, <1>4

(* A poll that read reaches at least as far as the watcher. *)
LEMMA ReadsInv == ASSUME IInv, NEW p \in Poll, PollReads(p) PROVE IInv'
<1> USE DEF IInv
<1>f. /\ UNCHANGED <<store, cursor, taken, watch, covered, emitted, polls, watches>>
      /\ \A q \in Poll : q # p => poll'[q] = poll[q]
      /\ poll[p].pc = "read" /\ poll'[p].pc = "save" /\ poll'[p].by = poll[p].by
      /\ poll'[p].next = Len(store)
      /\ poll'[p].from = poll[p].from /\ poll'[p].since = poll[p].since
  BY DEF PollReads, TypeOK
<1>1. TypeOK'
  <2>1. Len(store) \in Offset
    BY Facts, BoundsAssumption DEF Offset
  <2> QED BY <1>f, <2>1 DEF TypeOK, PollReads
<1>2. Bounds'
  BY <1>f, Facts DEF Bounds
<1>3. PollInv'
  BY <1>f DEF PollInv, NothingSkipped, Lines
<1>4. GapInv'
  <2>1. Lines(0, watch.offset) \subseteq Lines(0, Len(store))
    BY Facts, LinesGrow DEF Lines, LinesOf
  <2> QED BY <1>f, <2>1 DEF GapInv, GapCovered, Lines
<1> QED BY <1>1, <1>2, <1>3, <1>4

(* A poll that saves its cursor returns what it read. *)
LEMMA SavesInv == ASSUME IInv, NEW p \in Poll, PollSaves(p) PROVE IInv'
<1> USE DEF IInv
<1> DEFINE i == poll[p].by
           new == Lines(poll[p].from, poll[p].next)
<1>i. i \in Invoker
  BY Facts DEF PollSaves, Returns
<1>f. /\ UNCHANGED <<store, watch, emitted, polls, watches>>
      /\ poll[p].pc = "save" /\ poll' = [poll EXCEPT ![p] = NoPoll]
      /\ \A q \in Poll : q # p => poll'[q] = poll[q]
      /\ poll'[p] = NoPoll
      /\ \A j \in Invoker : j # i => cursor'[j] = cursor[j] /\ taken'[j] = taken[j]
      /\ cursor'[i] = poll[p].next
      /\ taken'[i] = taken[i] \cup new
      /\ covered' \subseteq covered \cup {i}
      /\ i \in covered' /\ i \notin covered => watch.on /\ poll[p].since = watches
  BY <1>i DEF PollSaves, Returns, TypeOK
<1>c. ~watch.on => covered' = covered
  BY DEF PollSaves, Returns
<1>l. \A from, next : Lines(from, next)' = Lines(from, next)
  BY <1>f DEF Lines
<1>s. Lines(0, poll[p].next) \subseteq taken[i] \cup new
  <2>1. Lines(0, poll[p].from) \subseteq taken[i]
    BY <1>f DEF PollInv
  <2>2. Lines(0, poll[p].next) \subseteq Lines(0, poll[p].from) \cup new
    BY Facts, LinesSplit DEF Lines, LinesOf
  <2> QED BY <2>1, <2>2
<1>1. TypeOK'
  <2>1. new \subseteq Position
    BY Facts, LinesArePositions DEF Lines, LinesOf
  <2>2. taken' \in [Invoker -> SUBSET Position]
    BY <1>i, <2>1 DEF PollSaves, Returns, TypeOK
  <2>3. cursor' \in [Invoker -> Offset]
    BY <1>i DEF PollSaves, Returns, TypeOK
  <2>4. NoPoll \in [pc : {"idle", "read", "save"}, by : Invoker \cup {NoInvoker},
                    from : Offset, next : Offset, since : 0..MaxWatches]
    BY BoundsAssumption DEF NoPoll, Offset
  <2>5. covered' \subseteq Invoker
    BY <1>i, <1>f DEF TypeOK
  <2>6. \A q \in Poll : poll'[q].pc # "idle" => poll'[q].by \in Invoker
    BY <1>f DEF TypeOK, NoPoll
  <2> QED BY <1>f, <2>2, <2>3, <2>4, <2>5, <2>6 DEF TypeOK
<1>2. Bounds'
  BY <1>f, <1>c, Facts DEF Bounds, NoPoll
<1>3. PollInv'
  <2>1. \A j \in Invoker : taken[j] \subseteq taken'[j]
    BY <1>f
  <2>2. NothingSkipped'
    BY <1>f, <1>l, <1>s DEF PollInv, NothingSkipped
  <2>3. ASSUME NEW q \in Poll, (poll[q].pc # "idle")'
        PROVE  (Lines(0, poll[q].from) \subseteq taken[poll[q].by])'
    <3>1. q # p
      BY <1>f, <2>3 DEF NoPoll
    <3>2. poll[q].by \in Invoker /\ poll[q].pc # "idle" /\ poll'[q] = poll[q]
      BY <1>f, <2>3, <3>1, Facts
    <3>3. Lines(0, poll[q].from) \subseteq taken'[poll[q].by]
      BY <2>1, <3>2 DEF PollInv
    <3> QED BY <1>f, <3>2, <3>3 DEF Lines
  <2> QED BY <2>2, <2>3 DEF PollInv
<1>4. GapInv'
  <2>1. GapCovered'
    <3>1. SUFFICES ASSUME watch.on, NEW j \in covered'
                   PROVE  Lines(0, watch.offset) \subseteq emitted \cup taken'[j]
      BY <1>f, <1>l DEF GapCovered
    <3>2. CASE j \in covered
      BY <1>f, <3>1, <3>2 DEF GapInv, GapCovered, TypeOK
    <3>3. CASE j \notin covered
      <4>1. j = i /\ poll[p].since = watches
        BY <1>f, <3>3
      <4>2. Lines(0, watch.offset) \subseteq emitted \cup Lines(0, poll[p].next)
        BY <1>f, <3>1, <4>1 DEF GapInv
      <4> QED BY <1>f, <1>s, <4>1, <4>2
    <3> QED BY <3>2, <3>3
  <2>2. ASSUME watch'.on, NEW q \in Poll, (poll[q].pc = "save" /\ poll[q].since = watches)'
        PROVE  (Lines(0, watch.offset) \subseteq emitted \cup Lines(0, poll[q].next))'
    <3>1. q # p
      BY <1>f, <2>2 DEF NoPoll
    <3>2. Lines(0, watch.offset) \subseteq emitted \cup Lines(0, poll[q].next)
      BY <1>f, <2>2, <3>1 DEF GapInv
    <3> QED BY <1>f, <3>1, <3>2 DEF Lines
  <2> QED BY <2>1, <2>2 DEF GapInv
<1> QED BY <1>1, <1>2, <1>3, <1>4

(* A poll that fails moves no cursor. *)
LEMMA FailsInv == ASSUME IInv, NEW p \in Poll, PollFails(p) PROVE IInv'
<1> USE DEF IInv
<1>f. /\ UNCHANGED <<store, cursor, taken, watch, covered, emitted, polls, watches>>
      /\ \A q \in Poll : q # p => poll'[q] = poll[q]
      /\ poll'[p] = NoPoll
  BY DEF PollFails, TypeOK
<1>1. TypeOK'
  <2>1. NoPoll \in [pc : {"idle", "read", "save"}, by : Invoker \cup {NoInvoker},
                    from : Offset, next : Offset, since : 0..MaxWatches]
    BY BoundsAssumption DEF NoPoll, Offset
  <2>2. poll' \in [Poll -> [pc : {"idle", "read", "save"}, by : Invoker \cup {NoInvoker},
                            from : Offset, next : Offset, since : 0..MaxWatches]]
    BY <2>1 DEF PollFails, TypeOK
  <2>3. \A q \in Poll : poll'[q].pc # "idle" => poll'[q].by \in Invoker
    BY <1>f DEF TypeOK, NoPoll
  <2> QED BY <1>f, <2>2, <2>3 DEF TypeOK
<1>2. Bounds'
  BY <1>f, Facts DEF Bounds, NoPoll
<1>3. PollInv'
  BY <1>f DEF PollInv, NothingSkipped, Lines, NoPoll
<1>4. GapInv'
  BY <1>f DEF GapInv, GapCovered, Lines, NoPoll
<1> QED BY <1>1, <1>2, <1>3, <1>4

(* The steps of a poll keep the invariant. *)
LEMMA PollsInv == IInv /\ PollsStep => IInv'
BY BeginsInv, ReadsInv, SavesInv, FailsInv DEF PollsStep, PollStep

----------------------------------------------------------------------------
(* The steps of the watcher.  A watch that begins leaves nobody covered, and
   no poll that is in progress began under it. *)
LEMMA WatchBeginsInv == IInv /\ WatchBegins => IInv'
<1> SUFFICES ASSUME IInv, WatchBegins PROVE IInv'
    OBVIOUS
<1> USE DEF IInv
<1>f. /\ UNCHANGED <<store, cursor, poll, taken, covered, emitted, polls>>
      /\ ~watch.on /\ covered = {}
      /\ watch' = [on |-> TRUE, offset |-> Len(store)]
      /\ watches' = watches + 1 /\ watches < MaxWatches
  BY DEF WatchBegins, Bounds
<1>1. TypeOK'
  <2>1. Len(store) \in Offset
    BY Facts, BoundsAssumption DEF Offset
  <2>2. watches' \in 0..MaxWatches
    BY <1>f, BoundsAssumption DEF TypeOK
  <2> QED BY <1>f, <2>1, <2>2 DEF TypeOK
<1>2. Bounds'
  BY <1>f, Facts DEF Bounds
<1>3. PollInv'
  BY <1>f DEF PollInv, NothingSkipped, Lines
<1>4. GapInv'
  <2>1. \A q \in Poll : poll'[q].since # watches'
    BY <1>f, Facts
  <2> QED BY <1>f, <2>1 DEF GapInv, GapCovered
<1> QED BY <1>1, <1>2, <1>3, <1>4

(* The watcher emits what lies between its offset and the end. *)
LEMMA WatchReadsInv == IInv /\ WatchReads => IInv'
<1> SUFFICES ASSUME IInv, WatchReads PROVE IInv'
    OBVIOUS
<1> USE DEF IInv
<1> DEFINE new == Lines(watch.offset, Len(store))
<1>f. /\ UNCHANGED <<store, cursor, poll, taken, covered, polls, watches>>
      /\ watch.on /\ watch'.on
      /\ watch' = [watch EXCEPT !.offset = Len(store)]
      /\ watch'.offset = Len(store)
      /\ emitted' = emitted \cup new
  BY DEF WatchReads, TypeOK
<1>s. Lines(0, Len(store)) \subseteq Lines(0, watch.offset) \cup new
  BY Facts, LinesSplit DEF Lines, LinesOf
<1>1. TypeOK'
  <2>1. new \subseteq Position
    BY Facts, LinesArePositions DEF Lines, LinesOf
  <2>2. Len(store) \in Offset
    BY Facts, BoundsAssumption DEF Offset
  <2> QED BY <1>f, <2>1, <2>2 DEF TypeOK
<1>2. Bounds'
  BY <1>f, Facts DEF Bounds
<1>3. PollInv'
  BY <1>f DEF PollInv, NothingSkipped, Lines
<1>4. GapInv'
  <2>1. \A X : Lines(0, watch.offset) \subseteq emitted \cup X
               => Lines(0, Len(store)) \subseteq emitted' \cup X
    BY <1>f, <1>s
  <2>2. ASSUME NEW i \in covered'
        PROVE  (Lines(0, watch.offset) \subseteq emitted \cup taken[i])'
    <3>1. Lines(0, Len(store)) \subseteq emitted' \cup taken[i]
      BY <1>f, <2>1 DEF GapInv, GapCovered
    <3> QED BY <1>f, <3>1 DEF Lines
  <2>3. ASSUME NEW q \in Poll, (poll[q].pc = "save" /\ poll[q].since = watches)'
        PROVE  (Lines(0, watch.offset) \subseteq emitted \cup Lines(0, poll[q].next))'
    <3>1. Lines(0, Len(store)) \subseteq emitted' \cup Lines(0, poll[q].next)
      BY <1>f, <2>1, <2>3 DEF GapInv
    <3> QED BY <1>f, <3>1 DEF Lines
  <2> QED BY <2>2, <2>3 DEF GapInv, GapCovered
<1> QED BY <1>1, <1>2, <1>3, <1>4

(* A watch that ends leaves nobody covered. *)
LEMMA WatchEndsInv == IInv /\ WatchEnds => IInv'
<1> SUFFICES ASSUME IInv, WatchEnds PROVE IInv'
    OBVIOUS
<1> USE DEF IInv
<1>f. /\ UNCHANGED <<store, cursor, poll, taken, emitted, polls, watches>>
      /\ watch' = NoWatch /\ covered' = {}
  BY DEF WatchEnds
<1>1. TypeOK'
  BY <1>f, BoundsAssumption DEF TypeOK, NoWatch, Offset
<1>2. Bounds'
  BY <1>f, Facts DEF Bounds, NoWatch
<1>3. PollInv'
  BY <1>f DEF PollInv, NothingSkipped, Lines
<1>4. GapInv'
  BY <1>f DEF GapInv, GapCovered, NoWatch
<1> QED BY <1>1, <1>2, <1>3, <1>4

(* So does a step that changes nothing. *)
LEMMA StutterInv == IInv /\ UNCHANGED vars => IInv'
BY DEF vars, IInv, TypeOK, Bounds, PollInv, NothingSkipped, GapInv, GapCovered, Lines

(* Every step keeps the inductive invariant. *)
LEMMA Inductive == IInv /\ [Next]_vars => IInv'
<1> SUFFICES ASSUME IInv, Next PROVE IInv'
    BY StutterInv
<1>1. ReceiveStep \/ PollsStep \/ WatchStep
  BY DEF Next, ReceiveStep, PollsStep, WatchStep, Kind
<1> QED BY <1>1, ReceiveInv, PollsInv, WatchBeginsInv, WatchReadsInv, WatchEndsInv
        DEF WatchStep

----------------------------------------------------------------------------
(* Every reachable state satisfies the inductive invariant. *)
THEOREM Invariant == Spec => []IInv
BY InitInv, Inductive, PTL DEF Spec

(* TypeOK: the file, the cursors, the polls and the watcher have their types. *)
THEOREM InboxTypes == Spec => []TypeOK
<1>1. IInv => TypeOK
  BY DEF IInv
<1> QED BY <1>1, Invariant, PTL

(* NothingSkipped: no invoker's cursor passes over a peer's message that no
   poll of that invoker returned, whatever the polls that overlap, replay,
   fail or save in the other order (PollMessages). *)
THEOREM NeverSkipped == Spec => []NothingSkipped
<1>1. IInv => NothingSkipped
  BY DEF IInv, PollInv
<1> QED BY <1>1, Invariant, PTL

(* GapCovered: one whole poll after a watch began covers every message from
   before it (Watch, PollMessages). *)
THEOREM GapAlwaysCovered == Spec => []GapCovered
<1>1. IInv => GapCovered
  BY DEF IInv, GapInv
<1> QED BY <1>1, Invariant, PTL
=============================================================================
