------------------------- MODULE LinkNoticesProofs -------------------------
(***************************************************************************)
(* Proofs about LinkNotices: its types, and that the watcher announces     *)
(* every interruption the same supervisor repaired, for any number of      *)
(* connections, replacements and watches.                                  *)
(***************************************************************************)
EXTENDS LinkNotices, TLAPS

(* What the watcher compares with.  A live link it knows of, and nobody
   dropped since, has the generation it remembers; one that was dropped since
   counts up the generation before it is live again. *)
Remembers ==
  /\ watch.pc = "off" => owed = "nothing"
  /\ watch.pc # "off" /\ ~watch.down =>
       /\ owed = "nothing" => sup.conn /\ watch.gen <= sup.gen
       /\ owed = "link" => watch.gen <= sup.gen /\ (sup.conn => watch.gen < sup.gen)

(* While the question is on its way the generation of the supervisor it went
   to only grows, and a replaced one never answers. *)
Asked ==
  watch.pc = "answer" =>
    /\ watch.asked <= sup.inst
    /\ owed = "nothing" => sup.conn
    /\ ~watch.down /\ watch.owed = "link" /\ watch.asked = sup.inst => watch.gen < sup.gen

(* The generation counts connections. *)
Counted == sup.gen <= counts.links

IInv == TypeOK /\ Counted /\ Remembers /\ Asked

(* The watcher's record after an answer has its type. *)
LEMMA ToldType ==
  ASSUME TypeOK, NEW ok \in BOOLEAN, NEW g \in 0..MaxLinks, Told(ok, g)
  PROVE  /\ watch' \in [pc : {"off", "tick", "answer"}, gen : 0..MaxLinks, down : BOOLEAN,
                        asked : 0..MaxReplaced, owed : Debt]
         /\ owed' \in Debt
<1>1. 0 \in 0..MaxReplaced /\ "nothing" \in Debt
  BY BoundsAssumption DEF Debt
<1>2. (~ok) \in BOOLEAN /\ (IF ok THEN g ELSE watch.gen) \in 0..MaxLinks
  BY DEF TypeOK
<1>3. watch' \in [pc : {"off", "tick", "answer"}, gen : 0..MaxLinks, down : BOOLEAN,
                  asked : 0..MaxReplaced, owed : Debt]
  BY <1>1, <1>2 DEF TypeOK, Told
<1>4. owed' \in Debt
  BY <1>1 DEF TypeOK, Told
<1> QED BY <1>3, <1>4

(* The types, one action at a time. *)
LEMMA TypeStep == TypeOK /\ Counted /\ [Next]_vars => TypeOK' /\ Counted'
<1> SUFFICES ASSUME TypeOK, Counted, [Next]_vars PROVE TypeOK' /\ Counted'
    OBVIOUS
<1>f. /\ sup.inst \in Nat /\ sup.gen \in Nat /\ sup.conn \in BOOLEAN
      /\ sup.gen \in 0..MaxLinks
      /\ counts.links \in Nat /\ counts.watches \in Nat
      /\ MaxLinks \in Nat /\ MaxReplaced \in Nat /\ MaxWatches \in Nat
  BY BoundsAssumption DEF TypeOK
<1>1. CASE Connects
  <2>1. sup' = [sup EXCEPT !.conn = TRUE, !.gen = @ + 1] /\ sup.gen + 1 \in 0..MaxLinks
    BY <1>1, <1>f DEF Connects, Counted
  <2>3. sup'.gen = sup.gen + 1
        /\ sup' \in [inst : 0..MaxReplaced, gen : 0..MaxLinks, conn : BOOLEAN]
    BY <2>1 DEF TypeOK
  <2>2. counts'.links = counts.links + 1
        /\ counts' \in [links : 0..MaxLinks, watches : 0..MaxWatches]
    BY <1>1, <1>f DEF Connects, TypeOK
  <2> QED BY <1>1, <1>f, <2>2, <2>3 DEF Connects, TypeOK, Counted
<1>2. CASE LinkDrops
  BY <1>2, <1>f DEF LinkDrops, TypeOK, Counted, Debt
<1>3. CASE EnsureReplaces
  BY <1>3, <1>f DEF EnsureReplaces, TypeOK, Counted, Debt
<1>4. CASE WatchBegins
  <2>1. watch' \in [pc : {"off", "tick", "answer"}, gen : 0..MaxLinks, down : BOOLEAN,
                    asked : 0..MaxReplaced, owed : Debt]
    <3>1. /\ watch' = [pc |-> "tick", gen |-> IF sup.conn THEN sup.gen ELSE 0,
                       down |-> ~sup.conn, asked |-> 0, owed |-> "nothing"]
      BY <1>4 DEF WatchBegins, NoWatch
    <3>2. (IF sup.conn THEN sup.gen ELSE 0) \in 0..MaxLinks /\ 0 \in 0..MaxReplaced
          /\ (~sup.conn) \in BOOLEAN
      BY <1>f
    <3> QED BY <3>1, <3>2 DEF Debt
  <2>2. counts'.links = counts.links
        /\ counts' \in [links : 0..MaxLinks, watches : 0..MaxWatches]
    BY <1>4, <1>f DEF WatchBegins, TypeOK
  <2> QED BY <1>4, <2>1, <2>2 DEF WatchBegins, TypeOK, Counted
<1>5. CASE WatchEnds
  BY <1>5, <1>f DEF WatchEnds, NoWatch, TypeOK, Counted, Debt
<1>6. CASE WatchAsks
  <2>1. CASE sup.conn
    BY <1>6, <2>1 DEF WatchAsks, TypeOK, Counted, Debt
  <2>2. CASE ~sup.conn
    <3>1. Told(FALSE, 0)
      BY <1>6, <2>2 DEF WatchAsks
    <3>2. 0 \in 0..MaxLinks
      BY <1>f
    <3> QED BY <1>6, <3>1, <3>2, ToldType DEF WatchAsks, TypeOK, Counted
  <2> QED BY <2>1, <2>2
<1>7. CASE WatchHears
  <2>1. Told(TRUE, sup.gen) \/ Told(FALSE, 0)
    BY <1>7 DEF WatchHears
  <2>2. 0 \in 0..MaxLinks
    BY <1>f
  <2> QED BY <1>7, <1>f, <2>1, <2>2, ToldType DEF WatchHears, TypeOK, Counted
<1>8. CASE UNCHANGED vars
  BY <1>8 DEF vars, TypeOK, Counted
<1> QED BY <1>1, <1>2, <1>3, <1>4, <1>5, <1>6, <1>7, <1>8 DEF Next

(* What the watcher compares with stays true in every step. *)
LEMMA InvStep == IInv /\ [Next]_vars => IInv'
<1> SUFFICES ASSUME IInv, [Next]_vars PROVE Remembers' /\ Asked'
    BY TypeStep DEF IInv
<1> USE DEF IInv
<1>f. /\ sup.inst \in Nat /\ sup.gen \in Nat /\ sup.conn \in BOOLEAN
      /\ watch.gen \in Nat /\ watch.down \in BOOLEAN /\ watch.asked \in Nat
      /\ watch.pc \in {"off", "tick", "answer"}
  BY BoundsAssumption DEF TypeOK
<1>1. CASE Connects
  <2>1. sup'.gen = sup.gen + 1 /\ sup'.conn /\ sup'.inst = sup.inst /\ ~sup.conn
        /\ UNCHANGED <<watch, owed>>
    BY <1>1 DEF Connects, TypeOK
  <2> QED BY <1>f, <2>1 DEF Remembers, Asked
<1>2. CASE LinkDrops
  <2>1. sup'.gen = sup.gen /\ ~sup'.conn /\ sup'.inst = sup.inst /\ sup.conn
        /\ UNCHANGED watch
        /\ owed' = IF watch.pc # "off" /\ owed = "nothing" THEN "link" ELSE owed
    BY <1>2 DEF LinkDrops, TypeOK
  <2> QED BY <1>f, <2>1 DEF Remembers, Asked
<1>3. CASE EnsureReplaces
  <2>1. ~sup.conn /\ sup'.inst = sup.inst + 1 /\ UNCHANGED watch
        /\ owed' = IF owed = "link" THEN "process" ELSE owed
    BY <1>3 DEF EnsureReplaces
  <2> QED BY <1>f, <2>1 DEF Remembers, Asked
<1>4. CASE WatchBegins
  <2>1. /\ watch'.pc = "tick"
        /\ ~watch'.down => sup.conn
        /\ sup.conn => watch'.gen = sup.gen
    BY <1>4 DEF WatchBegins, NoWatch
  <2>2. owed' = owed /\ sup' = sup
    BY <1>4 DEF WatchBegins
  <2>3. owed = "nothing"
    BY <1>4 DEF WatchBegins, Remembers
  <2> QED BY <1>f, <2>1, <2>2, <2>3 DEF Remembers, Asked
<1>5. CASE WatchEnds
  BY <1>5 DEF WatchEnds, NoWatch, Remembers, Asked
<1>6. CASE WatchAsks
  <2>1. CASE sup.conn
    <3>1. watch'.pc = "answer" /\ watch'.asked = sup.inst /\ watch'.owed = owed
          /\ watch'.gen = watch.gen /\ watch'.down = watch.down
          /\ UNCHANGED <<sup, owed>> /\ watch.pc = "tick"
      BY <1>6, <2>1 DEF WatchAsks, TypeOK
    <3> QED BY <1>f, <2>1, <3>1 DEF Remembers, Asked
  <2>2. CASE ~sup.conn
    <3>1. watch'.pc = "tick" /\ watch'.down
      BY <1>6, <2>2 DEF WatchAsks, Told, TypeOK
    <3> QED BY <3>1 DEF Remembers, Asked
  <2> QED BY <2>1, <2>2
<1>7. CASE WatchHears
  <2>1. CASE watch.asked = sup.inst
    <3>1. /\ watch.pc = "answer"
          /\ watch'.pc = "tick" /\ ~watch'.down /\ watch'.gen = sup.gen
          /\ owed' = IF ~sup.conn THEN owed ELSE "nothing"
          /\ sup' = sup
      BY <1>7, <2>1 DEF WatchHears, Told, TypeOK
    <3> QED BY <1>f, <3>1 DEF Remembers, Asked
  <2>2. CASE watch.asked # sup.inst
    <3>1. watch'.pc = "tick" /\ watch'.down
      BY <1>7, <2>2 DEF WatchHears, Told, TypeOK
    <3> QED BY <3>1 DEF Remembers, Asked
  <2> QED BY <2>1, <2>2
<1>8. CASE UNCHANGED vars
  BY <1>8 DEF vars, Remembers, Asked
<1> QED BY <1>1, <1>2, <1>3, <1>4, <1>5, <1>6, <1>7, <1>8 DEF Next

----------------------------------------------------------------------------
(* Every reachable state satisfies the inductive invariant. *)
THEOREM Invariant == Spec => []IInv
<1>1. Init => IInv
  BY BoundsAssumption DEF Init, IInv, TypeOK, Counted, Remembers, Asked, NoWatch, Debt
<1> QED BY <1>1, InvStep, PTL DEF Spec

(* TypeOK: the supervisor, the watcher and what it owes have their types. *)
THEOREM NoticesTypes == Spec => []TypeOK
<1>1. IInv => TypeOK
  BY DEF IInv
<1> QED BY <1>1, Invariant, PTL

(* LinkLossAnnounced: a link that was lost, and repaired by the same
   supervisor before the watcher asks, is announced although the watcher never
   saw it down, with the connection and its generation read under separate
   locks (Watch, setConn, status). *)
THEOREM LossAnnounced == Spec => LinkLossAnnounced
<1>1. IInv /\ [Next]_vars => [Silent => watch.owed # "link"]_vars
  <2> SUFFICES ASSUME IInv, Next, Silent PROVE watch.owed # "link"
    OBVIOUS
  <2>1. WatchHears
    BY DEF Silent, Next, Connects, LinkDrops, EnsureReplaces, WatchBegins, WatchEnds, NoWatch,
           WatchAsks
  <2>2. watch.asked = sup.inst
    BY <2>1 DEF IInv, TypeOK, WatchHears, Told, Silent
  <2>3. watch'.gen = sup.gen
    BY <2>1, <2>2 DEF IInv, TypeOK, WatchHears, Told
  <2>4. watch.gen \in Nat /\ sup.gen \in Nat
    BY BoundsAssumption DEF IInv, TypeOK
  <2> QED BY <2>2, <2>3, <2>4 DEF IInv, Asked, Silent
<1> QED BY <1>1, InvStep, Invariant, PTL DEF Spec, LinkLossAnnounced
=============================================================================
