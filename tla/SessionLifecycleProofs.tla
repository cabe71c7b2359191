----------------------- MODULE SessionLifecycleProofs -----------------------
(***************************************************************************)
(* Proofs about SessionLifecycle, for any number of commands at once that  *)
(* may be killed anywhere, supervisors that crash and queries that fail:   *)
(* its types; who takes the session of a live owner; that supervisors that *)
(* did not get out of hand are one, recorded and reachable; and what a     *)
(* start that succeeds reports.                                            *)
(***************************************************************************)
EXTENDS SessionLifecycle, FiniteSetTheorems, TLAPS

Place == {"idle", "stop", "save", "spawn", "record", "wait", "discard", "unlock",
          "collect", "prune"}
After == {"idle", "save", "spawn", "discard", "prune"}
Op == {"none", "start", "ensure", "stop", "gc"}
Life == {"unborn", "new", "open", "locked", "loop", "dial", "online", "gone"}

(* A supervisor, or 0 for none; the tries of a start. *)
Slot == 0..MaxProc
Attempts == 0..NickAttempts

CmdRecord == [op : Op, by : Owner \cup {None}, st : State, target : Slot,
              pc : Place, next : After, tries : Attempts, force : BOOLEAN,
              eligible : BOOLEAN]

ProcRecord == [pc : Life, inode : Slot, st : Owner \cup {None}, term : BOOLEAN,
               refused : BOOLEAN]

(* The command is at one of the places, or waits for a supervisor to end
   before it goes there. *)
Toward(r, places) == r.pc \in places \/ (r.pc = "stop" /\ r.next \in places)

(* A start that may still dial has an attempt left. *)
TriesLeft(r) ==
  r.op = "start" /\ Toward(r, {"save", "spawn", "record", "wait"}) => r.tries < NickAttempts

Tries == \A c \in Cmd : TriesLeft(cmd[c])

HistoryTypes ==
  faults \in 0..MaxFaults /\ beside \in BOOLEAN /\ misled \subseteq Cmd /\ stray \subseteq Proc

(* Every supervisor creates at most one lock file. *)
Unopened == {p \in Proc : proc[p].pc \in {"unborn", "new"}}
Inodes == lock <= inodes /\ inodes + Cardinality(Unopened) <= MaxProc

Types == TypeOK /\ Tries /\ Inodes

----------------------------------------------------------------------------
(* The records of a command and of a supervisor, and their updates. *)

LEMMA Fields ==
  ASSUME TypeOK
  PROVE  /\ cmd \in [Cmd -> CmdRecord] /\ proc \in [Proc -> ProcRecord] /\ state \in State
         /\ HistoryTypes
         /\ 0 \in Slot /\ 0 \in Attempts /\ 0 \notin Proc /\ Proc \subseteq Slot
BY BoundsAssumption DEF TypeOK, CmdRecord, ProcRecord, Place, After, Op, Life, Proc, Slot,
                        Attempts, HistoryTypes

LEMMA CommandFields ==
  ASSUME TypeOK, NEW c \in Cmd
  PROVE  /\ cmd[c] \in CmdRecord /\ cmd[c].op \in Op /\ cmd[c].by \in Owner \cup {None}
         /\ cmd[c].st \in State /\ cmd[c].target \in Slot /\ cmd[c].pc \in Place
         /\ cmd[c].next \in After /\ cmd[c].tries \in Attempts
         /\ cmd[c].force \in BOOLEAN /\ cmd[c].eligible \in BOOLEAN
BY Fields DEF CmdRecord

LEMMA StateFields ==
  ASSUME NEW s \in State
  PROVE  /\ s.owner \in Owner \cup {None} /\ s.sup \in Slot
         /\ \A p \in Slot : /\ [s EXCEPT !.sup = p] \in State
                                  /\ [s EXCEPT !.sup = p].owner = s.owner
                                  /\ [s EXCEPT !.sup = p].sup = p
BY DEF State, Slot

LEMMA NewState ==
  /\ NoState \in State /\ NoState.owner = None /\ NoState.sup = 0
  /\ \A o \in Owner : [owner |-> o, sup |-> 0] \in State
BY BoundsAssumption DEF State, NoState

LEMMA Going ==
  ASSUME TypeOK, NEW c \in Cmd, NEW r \in CmdRecord, Go(c, r)
  PROVE  /\ cmd' \in [Cmd -> CmdRecord] /\ cmd'[c] = r
         /\ \A d \in Cmd : d # c => cmd'[d] = cmd[d]
BY Fields DEF Go

LEMMA IdleFields ==
  /\ Idle \in CmdRecord /\ Idle.op = "none" /\ Idle.pc = "idle" /\ Idle.by = None
  /\ Idle.st = NoState /\ Idle.target = 0 /\ Idle.next = "idle" /\ Idle.tries = 0
  /\ Idle.force = FALSE /\ Idle.eligible = FALSE
<1>1. /\ "none" \in Op /\ None \in Owner \cup {None} /\ NoState \in State /\ 0 \in Slot
      /\ "idle" \in Place /\ "idle" \in After /\ 0 \in Attempts /\ FALSE \in BOOLEAN
  BY NewState, BoundsAssumption DEF Op, Place, After, Slot, Attempts
<1> QED BY <1>1 DEF Idle, CmdRecord

(* The updates of more than one field. *)
Owns(s, x, p) == [s EXCEPT !.pc = x, !.target = p]
Records(s, x, p) == [s EXCEPT !.pc = x, !.st.sup = p]
Starting(o, takeover) ==
  [Idle EXCEPT !.op = "start", !.by = o, !.force = takeover, !.st = [owner |-> o, sup |-> 0]]
Ending(o, s) == [Idle EXCEPT !.op = "stop", !.by = o, !.st = s]

(* The record goes on, or starts, with its operation and what it was told. *)
Keeps(r, s) ==
  r.op = s.op /\ r.by = s.by /\ r.force = s.force /\ r.eligible = s.eligible

LEMMA PcUpdate ==
  ASSUME NEW s \in CmdRecord, NEW x \in Place, NEW r, r = [s EXCEPT !.pc = x]
  PROVE  /\ r \in CmdRecord /\ Keeps(r, s) /\ r.pc = x /\ r.st = s.st /\ r.target = s.target
         /\ r.next = s.next /\ r.tries = s.tries
BY DEF CmdRecord, Keeps

LEMMA StoppingUpdate ==
  ASSUME NEW s \in CmdRecord, NEW target \in Slot, NEW next \in After,
         NEW r, r = Stopping(s, target, next)
  PROVE  /\ r \in CmdRecord /\ Keeps(r, s) /\ r.pc = "stop" /\ r.st = s.st
         /\ r.target = target /\ r.next = next /\ r.tries = s.tries
BY DEF Stopping, CmdRecord, Keeps, Place

LEMMA TriesUpdate ==
  ASSUME NEW s \in CmdRecord, NEW n \in Attempts, NEW r, r = [s EXCEPT !.tries = n]
  PROVE  r \in CmdRecord /\ Keeps(r, s) /\ r.st = s.st /\ r.tries = n
BY DEF CmdRecord, Keeps

LEMMA StUpdate ==
  ASSUME NEW s \in CmdRecord, NEW x \in State, NEW r, r = [s EXCEPT !.st = x]
  PROVE  r \in CmdRecord /\ Keeps(r, s) /\ r.pc = s.pc /\ r.st = x /\ r.tries = s.tries
         /\ r.target = s.target /\ r.next = s.next
BY DEF CmdRecord, Keeps

LEMMA TargetUpdate ==
  ASSUME NEW s \in CmdRecord, NEW x \in Place, NEW p \in Slot, NEW r,
         r = Owns(s, x, p)
  PROVE  /\ r \in CmdRecord /\ Keeps(r, s) /\ r.pc = x /\ r.st = s.st /\ r.target = p
         /\ r.next = s.next /\ r.tries = s.tries
BY DEF Owns, CmdRecord, Keeps

LEMMA SupUpdate ==
  ASSUME NEW s \in CmdRecord, NEW x \in Place, NEW p \in Slot, NEW r,
         r = Records(s, x, p)
  PROVE  /\ r \in CmdRecord /\ Keeps(r, s) /\ r.pc = x /\ r.target = s.target
         /\ r.st.owner = s.st.owner
<1>1. s.st \in State
  BY DEF CmdRecord
<1>2. [s.st EXCEPT !.sup = p] \in State
  BY <1>1, StateFields
<1> DEFINE u == [s.st EXCEPT !.sup = p]
<1>3. r = [s EXCEPT !.pc = x, !.st = u] /\ u \in State
  BY <1>2 DEF Records, CmdRecord
<1> HIDE DEF u
<1>4. r \in CmdRecord /\ Keeps(r, s) /\ r.pc = x /\ r.st = u /\ r.target = s.target
  BY <1>3 DEF CmdRecord, Keeps
<1>5. u.owner = s.st.owner
  BY <1>1, StateFields DEF u
<1> QED BY <1>4, <1>5

(* How each command begins. *)
LEMMA StartRecord ==
  ASSUME NEW o \in Owner, NEW takeover \in BOOLEAN, NEW target \in Slot, NEW r,
         r = Stopping(Starting(o, takeover), target, "save")
  PROVE  /\ r \in CmdRecord /\ r.op = "start" /\ r.by = o /\ r.force = takeover
         /\ r.st.owner = o /\ r.pc = "stop" /\ r.next = "save" /\ r.target = target
         /\ r.tries = 0
<1> DEFINE t == Starting(o, takeover)
<1>1. /\ [owner |-> o, sup |-> 0] \in State /\ "start" \in Op /\ o \in Owner \cup {None}
  BY NewState DEF Op
<1>2. t \in CmdRecord /\ t.op = "start" /\ t.by = o /\ t.force = takeover
      /\ t.st = [owner |-> o, sup |-> 0] /\ t.tries = 0
  BY <1>1, IdleFields DEF Starting, CmdRecord
<1> HIDE DEF t
<1>3. "save" \in After /\ r = Stopping(t, target, "save")
  BY DEF After, t
<1> QED BY <1>2, <1>3, StoppingUpdate DEF Keeps

LEMMA EnsureRecord ==
  ASSUME NEW s \in State, NEW t, t = [Idle EXCEPT !.op = "ensure", !.st = s]
  PROVE  /\ t \in CmdRecord /\ t.op = "ensure" /\ t.st = s
<1>1. "ensure" \in Op
  BY DEF Op
<1> QED BY <1>1, IdleFields DEF CmdRecord

LEMMA StopRecord ==
  ASSUME NEW s \in State, NEW o \in Owner, NEW target \in Slot, NEW r,
         r = Stopping(Ending(o, s), target, "save")
  PROVE  /\ r \in CmdRecord /\ r.op = "stop" /\ r.st = s /\ r.pc = "stop"
         /\ r.next = "save" /\ r.target = target
<1> DEFINE t == Ending(o, s)
<1>1. "stop" \in Op /\ o \in Owner \cup {None}
  BY DEF Op
<1>2. t \in CmdRecord /\ t.op = "stop" /\ t.st = s
  BY <1>1, IdleFields DEF Ending, CmdRecord
<1> HIDE DEF t
<1>3. "save" \in After /\ r = Stopping(t, target, "save")
  BY DEF After, t
<1> QED BY <1>2, <1>3, StoppingUpdate DEF Keeps

LEMMA SurveyRecord ==
  ASSUME NEW e \in BOOLEAN, NEW r,
         r = [Idle EXCEPT !.op = "gc", !.pc = "collect", !.eligible = e]
  PROVE  r \in CmdRecord /\ r.op = "gc" /\ r.pc = "collect" /\ r.eligible = e
<1>1. "gc" \in Op /\ "collect" \in Place
  BY DEF Op, Place
<1> QED BY <1>1, IdleFields DEF CmdRecord

LEMMA CollectRecord ==
  ASSUME NEW q \in CmdRecord, NEW s \in State, NEW target \in Slot, NEW next \in After,
         NEW r, r = Stopping([q EXCEPT !.st = s], target, next)
  PROVE  r \in CmdRecord /\ Keeps(r, q) /\ r.pc = "stop" /\ r.st = s /\ r.target = target
         /\ r.next = next /\ r.tries = q.tries
<1> DEFINE t == [q EXCEPT !.st = s]
<1>1. t \in CmdRecord /\ Keeps(t, q) /\ t.st = s /\ t.tries = q.tries
  BY StUpdate
<1> HIDE DEF t
<1>2. r = Stopping(t, target, next)
  BY DEF t
<1> QED BY <1>1, <1>2, StoppingUpdate DEF Keeps

LEMMA RetryRecord ==
  ASSUME NEW q \in CmdRecord, q.tries < NickAttempts, NEW target \in Slot,
         NEW next \in After, NEW r, r = Stopping([q EXCEPT !.tries = @ + 1], target, next)
  PROVE  r \in CmdRecord /\ Keeps(r, q) /\ r.pc = "stop" /\ r.st = q.st /\ r.target = target
         /\ r.next = next /\ r.tries = q.tries + 1
<1> DEFINE t == [q EXCEPT !.tries = q.tries + 1]
<1>1. q.tries \in Attempts
  BY DEF CmdRecord
<1>2. q.tries + 1 \in Attempts
  BY <1>1, BoundsAssumption DEF Attempts
<1>3. t \in CmdRecord /\ Keeps(t, q) /\ t.st = q.st /\ t.tries = q.tries + 1
  BY <1>2, TriesUpdate
<1>4. [q EXCEPT !.tries = @ + 1] = t
  OBVIOUS
<1> HIDE DEF t
<1>5. r = Stopping(t, target, next)
  BY <1>4
<1> QED BY <1>3, <1>5, StoppingUpdate DEF Keeps

----------------------------------------------------------------------------
(* Supervisors. *)

LEMMA SupervisorFields ==
  ASSUME TypeOK, NEW p \in Proc
  PROVE  /\ proc[p] \in ProcRecord /\ proc[p].pc \in Life /\ proc[p].inode \in Slot
         /\ proc[p].st \in Owner \cup {None}
BY Fields DEF ProcRecord

LEMMA GoneFields ==
  Gone \in ProcRecord /\ Gone.pc = "gone"
<1>1. 0 \in Slot /\ "gone" \in Life /\ None \in Owner \cup {None}
  BY BoundsAssumption DEF Life, Slot
<1> QED BY <1>1 DEF Gone, Unborn, ProcRecord

(* Only p changes. *)
OnlyOne(p) ==
  /\ proc' \in [Proc -> ProcRecord]
  /\ \A q \in Proc : q # p => proc'[q] = proc[q]

LEMMA Replaces ==
  ASSUME TypeOK, NEW p \in Proc, NEW r \in ProcRecord, proc' = [proc EXCEPT ![p] = r]
  PROVE  OnlyOne(p) /\ proc'[p] = r
BY Fields DEF OnlyOne

LEMMA PcChange ==
  ASSUME NEW s \in ProcRecord, NEW x \in Life
  PROVE  /\ [s EXCEPT !.pc = x] \in ProcRecord /\ [s EXCEPT !.pc = x].pc = x
         /\ [s EXCEPT !.pc = x].inode = s.inode
BY DEF ProcRecord

LEMMA PcChanges ==
  ASSUME TypeOK, NEW p \in Proc, NEW x \in Life, proc' = [proc EXCEPT ![p].pc = x]
  PROVE  OnlyOne(p) /\ proc'[p].pc = x /\ proc'[p].inode = proc[p].inode
<1>1. proc' = [proc EXCEPT ![p] = [proc[p] EXCEPT !.pc = x]]
  BY Fields
<1>2. /\ [proc[p] EXCEPT !.pc = x] \in ProcRecord /\ [proc[p] EXCEPT !.pc = x].pc = x
      /\ [proc[p] EXCEPT !.pc = x].inode = proc[p].inode
  BY SupervisorFields, PcChange
<1> QED BY <1>1, <1>2, Replaces

LEMMA InodeChanges ==
  ASSUME TypeOK, NEW p \in Proc, NEW x \in Life, NEW i \in Slot,
         proc' = [proc EXCEPT ![p].pc = x, ![p].inode = i]
  PROVE  OnlyOne(p) /\ proc'[p].pc = x /\ proc'[p].inode = i
BY Fields DEF OnlyOne, ProcRecord

LEMMA StChanges ==
  ASSUME TypeOK, NEW p \in Proc, NEW x \in Life, NEW o \in Owner \cup {None},
         proc' = [proc EXCEPT ![p].pc = x, ![p].st = o]
  PROVE  OnlyOne(p) /\ proc'[p].pc = x /\ proc'[p].inode = proc[p].inode
BY Fields DEF OnlyOne, ProcRecord

LEMMA RefusalChanges ==
  ASSUME TypeOK, NEW p \in Proc, NEW x \in Life, NEW o \in Owner \cup {None},
         NEW refused \in BOOLEAN,
         \/ proc' = [proc EXCEPT ![p].pc = x, ![p].refused = refused]
         \/ proc' = [proc EXCEPT ![p].pc = x, ![p].st = o, ![p].refused = refused]
  PROVE  OnlyOne(p) /\ proc'[p].pc = x /\ proc'[p].inode = proc[p].inode
BY Fields DEF OnlyOne, ProcRecord

LEMMA TermChanges ==
  ASSUME TypeOK, NEW p \in Proc, proc' = [proc EXCEPT ![p].term = TRUE]
  PROVE  OnlyOne(p) /\ proc'[p].pc = proc[p].pc /\ proc'[p].inode = proc[p].inode
BY Fields DEF OnlyOne, ProcRecord

(* The supervisor holds the lock of the file it opened. *)
Holds(p) == proc[p].pc \in {"locked", "loop", "dial", "online"}

(* What a step of a supervisor leaves alone: it is live, makes none live,
   serves only behind its own socket, takes no lock that is held, and does
   not become new; a socket it takes from another is remembered. *)
Harmless(p) ==
  /\ OnlyOne(p) /\ Live(p)
  /\ proc'[p].pc # "unborn" /\ (proc'[p].pc = "new" => proc[p].pc = "new")
  /\ Serving(p)' => (Serving(p) /\ sock' = sock) \/ sock' = p
  /\ sock' \in {sock, 0, p}
  /\ (sock' = sock /\ stray' = stray) \/ stray' = Displaced(p)
  /\ Holds(p)' => Holds(p) \/ ~Locked(proc[p].inode)
  /\ UNCHANGED <<alive, bound, state, cmd, commands, beside, misled>>
  /\ faults' \in 0..MaxFaults

(* It keeps its lock file, when it goes on. *)
KeepsLock(p) ==
  /\ UNCHANGED <<lock, inodes>>
  /\ proc'[p].pc # "gone" => proc[p].pc # "new" /\ proc'[p].inode = proc[p].inode

LEMMA Missed ==
  ASSUME TypeOK, NEW truth, Misses(truth)
  PROVE  faults' \in 0..MaxFaults
BY BoundsAssumption DEF TypeOK, Misses, Fault

LEMMA ExitHarmless ==
  ASSUME TypeOK, NEW p \in Proc, Live(p), Exit(p), faults' \in 0..MaxFaults,
         UNCHANGED <<alive, bound, state, lock, inodes, cmd, commands>>
  PROVE  Harmless(p) /\ KeepsLock(p)
<1>1. OnlyOne(p) /\ proc'[p] = Gone
  BY GoneFields, Replaces DEF Exit
<1>2. ~Serving(p)' /\ ~Holds(p)'
  BY <1>1, GoneFields DEF Serving, Holds
<1> QED BY <1>1, <1>2, GoneFields DEF Harmless, KeepsLock, Exit

LEMMA SupervisorSteps ==
  ASSUME TypeOK, NEW p \in Proc, SupervisorStep(p), ~OpensLock(p)
  PROVE  Harmless(p) /\ KeepsLock(p)
<1> USE DEF files, bounds, aux
<1>1. p # 0 /\ faults \in 0..MaxFaults
  BY Fields DEF TypeOK
<1>2. CASE LockHome(p)
  <2>1. /\ proc[p].pc = "open"
        /\ UNCHANGED <<alive, bound, state, lock, inodes, sock, cmd, commands, faults,
                       beside, misled, stray>>
        /\ proc' = [proc EXCEPT ![p] = IF Locked(@.inode) THEN Gone ELSE [@ EXCEPT !.pc = "locked"]]
    BY <1>2 DEF LockHome
  <2>2. CASE Locked(proc[p].inode)
    <3>1. OnlyOne(p) /\ proc'[p] = Gone
      BY <2>1, <2>2, GoneFields, Replaces, Fields
    <3> QED BY <1>1, <2>1, <3>1, GoneFields DEF Harmless, KeepsLock, Live, Serving, Holds
  <2>3. CASE ~Locked(proc[p].inode)
    <3>1. proc' = [proc EXCEPT ![p].pc = "locked"] /\ "locked" \in Life
      BY <2>1, <2>3, Fields DEF Life
    <3>2. OnlyOne(p) /\ proc'[p].pc = "locked" /\ proc'[p].inode = proc[p].inode
      BY <3>1, PcChanges
    <3> QED BY <1>1, <2>1, <2>3, <3>2 DEF Harmless, KeepsLock, Live, Serving, Holds
  <2> QED BY <2>2, <2>3
<1>3. CASE Listen(p)
  <2>1. OnlyOne(p) /\ proc'[p].pc = "loop" /\ proc'[p].inode = proc[p].inode
    BY <1>3, PcChanges DEF Listen, Life
  <2> QED BY <1>1, <1>3, <2>1 DEF Listen, Harmless, KeepsLock, Live, Serving, Holds
<1>4. CASE LoopEnds(p)
  <2>1. faults' \in 0..MaxFaults
    BY <1>4, Missed DEF LoopEnds
  <2> QED BY <1>1, <1>4, <2>1, ExitHarmless DEF LoopEnds, Live
<1>5. CASE Dials(p)
  <2>1. state.owner \in Owner \cup {None} /\ "dial" \in Life
    BY Fields, StateFields DEF Life
  <2>2. OnlyOne(p) /\ proc'[p].pc = "dial" /\ proc'[p].inode = proc[p].inode
    BY <1>5, <2>1, StChanges DEF Dials
  <2> QED BY <1>1, <1>5, <2>2 DEF Dials, Harmless, KeepsLock, Live, Serving, Holds
<1>6. CASE Connects(p)
  <2>1. OnlyOne(p) /\ proc'[p].pc = "online" /\ proc'[p].inode = proc[p].inode
    BY <1>6, RefusalChanges DEF Connects, Life
  <2> QED BY <1>1, <1>6, <2>1 DEF Connects, Harmless, KeepsLock, Live, Serving, Holds
<1>7. ASSUME NEW nick \in BOOLEAN, DialFails(p, nick)
      PROVE  Harmless(p) /\ KeepsLock(p)
  <2>1. OnlyOne(p) /\ proc'[p].pc = "loop" /\ proc'[p].inode = proc[p].inode
    BY <1>7, RefusalChanges DEF DialFails, Life
  <2> QED BY <1>1, <1>7, <2>1 DEF DialFails, Harmless, KeepsLock, Live, Serving, Holds
<1>8. CASE Disconnects(p)
  <2>1. OnlyOne(p) /\ proc'[p].pc = "loop" /\ proc'[p].inode = proc[p].inode
    BY <1>8, StChanges DEF Disconnects, Life
  <2> QED BY <1>1, <1>8, <2>1 DEF Disconnects, Harmless, KeepsLock, Live, Serving, Holds
<1>9. CASE OwnerEnded(p)
  <2>1. faults' \in 0..MaxFaults
    BY <1>9, Missed DEF OwnerEnded
  <2> QED BY <1>1, <1>9, <2>1, ExitHarmless DEF OwnerEnded, Live
<1>10. CASE Terminates(p)
  BY <1>1, <1>10, ExitHarmless DEF Terminates
<1>11. CASE Crashes(p)
  <2>1. OnlyOne(p) /\ proc'[p] = Gone
    BY <1>11, GoneFields, Replaces DEF Crashes
  <2>2. faults' \in 0..MaxFaults
    BY <1>1, <1>11, BoundsAssumption DEF Crashes, Fault
  <2> QED BY <1>11, <2>1, <2>2, GoneFields DEF Crashes, Harmless, KeepsLock, Serving, Holds
<1> QED BY <1>2, <1>3, <1>4, <1>5, <1>6, <1>7, <1>8, <1>9, <1>10, <1>11 DEF SupervisorStep

LEMMA OpensLockHarmless ==
  ASSUME Types, NEW p \in Proc, OpensLock(p)
  PROVE  /\ Harmless(p) /\ p \in Unopened /\ proc'[p].pc = "open"
         /\ proc'[p].inode = lock' /\ lock' # 0 /\ (lock # 0 => lock' = lock)
         /\ lock' = inodes' \/ (lock' = lock /\ inodes' = inodes)
         /\ inodes' \in {inodes, inodes + 1} /\ inodes + 1 <= MaxProc
<1>0. MaxProc \in Int /\ IsFiniteSet(Proc)
  BY FS_Interval, BoundsAssumption DEF Proc
<1>1. p \in Unopened /\ Unopened \subseteq Proc /\ IsFiniteSet(Proc)
  BY <1>0 DEF OpensLock, Unopened
<1>2. IsFiniteSet(Unopened)
  BY <1>1, FS_Subset
<1>3. Cardinality(Unopened) \in Nat /\ Cardinality(Unopened) # 0
  BY <1>1, <1>2, FS_CardinalityType, FS_EmptySet
<1>4. inodes \in Nat /\ lock \in Slot /\ inodes + Cardinality(Unopened) <= MaxProc
  BY BoundsAssumption DEF Types, TypeOK, Inodes, Slot
<1>5. inodes + 1 <= MaxProc
  BY <1>3, <1>4, BoundsAssumption
<1> DEFINE inode == IF lock = 0 THEN inodes + 1 ELSE lock
<1>6. inode \in Slot /\ inode # 0 /\ (lock # 0 => inode = lock)
  BY <1>4, <1>5, BoundsAssumption DEF Slot
<1>7. /\ proc[p].pc = "new" /\ lock' = inode /\ inodes' = IF lock = 0 THEN inode ELSE inodes
      /\ proc' = [proc EXCEPT ![p].pc = "open", ![p].inode = inode]
      /\ UNCHANGED <<alive, bound, state, sock, cmd, commands, faults, beside, misled, stray>>
  BY DEF OpensLock, bounds, aux
<1>8. lock' = inodes' \/ (lock' = lock /\ inodes' = inodes)
  BY <1>7
<1>9. inodes' \in {inodes, inodes + 1}
  BY <1>7
<1> HIDE DEF inode
<1>10. OnlyOne(p) /\ proc'[p].pc = "open" /\ proc'[p].inode = inode
  BY <1>6, <1>7, InodeChanges DEF Life, Types
<1>11. p # 0 /\ faults \in 0..MaxFaults
  BY Fields DEF Types, TypeOK
<1>12. Harmless(p)
  BY <1>7, <1>10, <1>11 DEF Harmless, Live, Serving, Holds
<1> QED BY <1>1, <1>5, <1>6, <1>7, <1>8, <1>9, <1>10, <1>12

----------------------------------------------------------------------------
(* Types. *)

LEMMA FewerUnopened ==
  ASSUME Types, Unopened' \subseteq Unopened
  PROVE  Cardinality(Unopened') <= Cardinality(Unopened) /\ Cardinality(Unopened') \in Nat
         /\ Cardinality(Unopened) \in Nat
         /\ \A p \in Unopened \ Unopened' : Cardinality(Unopened') < Cardinality(Unopened)
<1>1. MaxProc \in Int /\ IsFiniteSet(Proc) /\ Unopened \subseteq Proc
  BY FS_Interval, BoundsAssumption DEF Proc, Unopened
<1>2. IsFiniteSet(Unopened)
  BY <1>1, FS_Subset
<1>3. IsFiniteSet(Unopened') /\ Cardinality(Unopened') <= Cardinality(Unopened)
      /\ (Cardinality(Unopened) = Cardinality(Unopened') => Unopened = Unopened')
  BY <1>2, FS_Subset
<1>4. Cardinality(Unopened') \in Nat /\ Cardinality(Unopened) \in Nat
  BY <1>2, <1>3, FS_CardinalityType
<1> QED BY <1>3, <1>4

LEMMA NothingUnopened ==
  ASSUME NEW p \in Proc, OnlyOne(p), proc'[p].pc \in {"unborn", "new"} => p \in Unopened
  PROVE  Unopened' \subseteq Unopened
BY DEF OnlyOne, Unopened

LEMMA SupervisorTypes ==
  ASSUME Types, NEW p \in Proc, SupervisorStep(p)
  PROVE  Types'
<1>1. Harmless(p) /\ inodes' \in Slot /\ lock' \in Slot
      /\ lock' <= inodes' /\ inodes' + Cardinality(Unopened') <= MaxProc
  <2>1. inodes \in Nat /\ lock \in Nat /\ lock <= inodes /\ inodes \in Slot /\ lock \in Slot
        /\ inodes + Cardinality(Unopened) <= MaxProc /\ MaxProc \in Nat
    BY BoundsAssumption DEF Types, TypeOK, Inodes, Slot
  <2>2. Harmless(p) => Unopened' \subseteq Unopened
    <3>1. Harmless(p) => (proc'[p].pc \in {"unborn", "new"} => p \in Unopened) /\ OnlyOne(p)
      BY DEF Harmless, Unopened
    <3> QED BY <3>1, NothingUnopened
  <2>3. CASE OpensLock(p)
    <3>1. /\ Harmless(p) /\ p \in Unopened /\ proc'[p].pc = "open"
          /\ lock' = inodes' \/ (lock' = lock /\ inodes' = inodes)
          /\ inodes' \in {inodes, inodes + 1} /\ inodes + 1 <= MaxProc
      BY <2>3, OpensLockHarmless
    <3>2. p \in Unopened \ Unopened'
      BY <3>1 DEF Unopened
    <3>3. Cardinality(Unopened') < Cardinality(Unopened) /\ Cardinality(Unopened') \in Nat
          /\ Cardinality(Unopened) \in Nat
      BY <2>2, <3>1, <3>2, FewerUnopened
    <3> QED BY <2>1, <3>1, <3>3 DEF Slot
  <2>4. CASE ~OpensLock(p)
    <3>1. Harmless(p) /\ UNCHANGED <<lock, inodes>>
      BY <2>4, SupervisorSteps DEF Types, KeepsLock
    <3>2. Cardinality(Unopened') <= Cardinality(Unopened) /\ Cardinality(Unopened') \in Nat
          /\ Cardinality(Unopened) \in Nat
      BY <2>2, <3>1, FewerUnopened
    <3> QED BY <2>1, <3>1, <3>2
  <2> QED BY <2>3, <2>4
<1>2. /\ proc' \in [Proc -> ProcRecord] /\ sock' \in {sock, 0, p}
      /\ UNCHANGED <<alive, bound, state, cmd, commands, beside, misled>>
      /\ faults' \in 0..MaxFaults /\ stray' \in {stray, Displaced(p)}
  BY <1>1 DEF Harmless, OnlyOne
<1>3. sock' \in Slot /\ stray' \subseteq Proc
  BY <1>2, Fields, BoundsAssumption DEF Types, TypeOK, Slot, Proc, Displaced
<1>4. TypeOK'
  BY <1>1, <1>2, <1>3 DEF Types, TypeOK, ProcRecord, Life, Slot
<1>5. Tries'
  BY <1>2 DEF Types, Tries, TriesLeft, Toward
<1> QED BY <1>1, <1>4, <1>5 DEF Types, Inodes

(* A command continues as r, and the rest keeps its types. *)
LEMMA CommandTypes ==
  ASSUME Types, NEW c \in Cmd, NEW r \in CmdRecord, Go(c, r), TriesLeft(r),
         UNCHANGED <<alive, inodes>>, HistoryTypes', state' \in State, bound' \in {bound, None},
         lock' \in {lock, 0}, sock' \in {sock, 0}, commands' \in 0..MaxCommands,
         proc' \in [Proc -> ProcRecord], Unopened' \subseteq Unopened
  PROVE  Types'
<1>1. cmd' \in [Cmd -> CmdRecord] /\ cmd'[c] = r /\ \A d \in Cmd : d # c => cmd'[d] = cmd[d]
  BY Going DEF Types
<1>2. lock' \in Slot /\ sock' \in Slot /\ bound' \in Owner \cup {None}
  BY Fields DEF Types, TypeOK, Slot
<1>3. TypeOK'
  BY <1>1, <1>2 DEF Types, TypeOK, CmdRecord, ProcRecord, Life, Place, After, Op, Slot, Attempts,
                    HistoryTypes
<1>4. Tries'
  BY <1>1 DEF Types, Tries, TriesLeft, Toward
<1>5. Inodes'
  <2>1. Cardinality(Unopened') <= Cardinality(Unopened) /\ Cardinality(Unopened') \in Nat
        /\ Cardinality(Unopened) \in Nat
    BY FewerUnopened
  <2>2. inodes \in Nat /\ lock \in Nat /\ lock <= inodes
        /\ inodes + Cardinality(Unopened) <= MaxProc /\ MaxProc \in Nat
    BY BoundsAssumption DEF Types, TypeOK, Inodes, Slot
  <2> QED BY <2>1, <2>2, inodes' = inodes DEF Inodes
<1> QED BY <1>3, <1>4, <1>5 DEF Types

(* What most steps of a command leave alone. *)
Alone == UNCHANGED <<alive, bound, inodes, lock, sock, proc, commands>>

(* What becomes of the history: nothing, or what looking, saving, missing a
   process, beginning and spawning do. *)
LEMMA HistorySteps ==
  ASSUME TypeOK, NEW c \in Cmd
  PROVE  /\ UNCHANGED <<faults, beside, misled, stray>> => HistoryTypes'
         /\ \A p \in Slot : Unseen(p) => HistoryTypes'
         /\ \A st : Saves(c, st) /\ UNCHANGED faults => HistoryTypes'
         /\ \A r : Begin(c, r) /\ faults' \in 0..MaxFaults
                     /\ misled' \in {misled \ {c}, misled \cup {c}} => HistoryTypes'
         /\ Spawn(c, "record") /\ UNCHANGED faults => HistoryTypes'
         /\ UNCHANGED <<faults, beside, misled>> /\ Killed(c) => HistoryTypes'
<1>1. HistoryTypes /\ cmd[c].target \in Slot
  BY Fields, CommandFields
<1>2. ASSUME NEW p \in Slot, Unseen(p) PROVE HistoryTypes'
  <2>1. Live(p) => p \in Proc
    BY BoundsAssumption DEF Live, Slot, Proc
  <2>2. faults' \in 0..MaxFaults
    <3>1. Misses(Live(p))
      BY <1>2 DEF Unseen
    <3> HIDE <1>2
    <3> QED BY <3>1, Missed
  <2> QED BY <1>1, <1>2, <2>1, <2>2 DEF Unseen, HistoryTypes
<1>3. ASSUME NEW st, Saves(c, st), UNCHANGED faults PROVE HistoryTypes'
  BY <1>1, <1>3 DEF Saves, HistoryTypes
<1>4. ASSUME NEW r, Begin(c, r), faults' \in 0..MaxFaults, misled' \in {misled \ {c}, misled \cup {c}}
      PROVE  HistoryTypes'
  BY <1>1, <1>4 DEF Begin, HistoryTypes
<1>5. ASSUME Spawn(c, "record"), UNCHANGED faults PROVE HistoryTypes'
  BY <1>1, <1>5 DEF Spawn, CanSpawn, Spawned, HistoryTypes
<1>6. ASSUME Killed(c), UNCHANGED <<faults, beside, misled>> PROVE HistoryTypes'
  <2> DEFINE lost == {p \in {cmd[c].target} \ {state.sup} : Live(p)}
  <2>1. \A p \in Slot : Live(p) => p \in Proc
    BY BoundsAssumption DEF Live, Slot, Proc
  <2>2. lost \subseteq Proc
    BY <1>1, <2>1
  <2>3. stray' = stray \cup lost
    BY <1>6 DEF Killed
  <2> HIDE DEF lost
  <2> QED BY <1>1, <1>6, <2>2, <2>3 DEF HistoryTypes
<1>7. UNCHANGED <<faults, beside, misled, stray>> => HistoryTypes'
  BY <1>1 DEF HistoryTypes
<1> QED BY <1>2, <1>3, <1>4, <1>5, <1>6, <1>7

LEMMA Looked ==
  ASSUME TypeOK, NEW c \in Cmd, NEW truly, Looks(c, truly)
  PROVE  faults' \in 0..MaxFaults /\ misled' \in {misled \ {c}, misled \cup {c}}
BY Missed DEF Looks

LEMMA AloneTypes ==
  ASSUME Types, NEW c \in Cmd, NEW r \in CmdRecord, Go(c, r), TriesLeft(r), Alone, state' \in State,
         HistoryTypes'
  PROVE  Types'
<1>1. commands' \in 0..MaxCommands /\ proc' \in [Proc -> ProcRecord] /\ Unopened' \subseteq Unopened
  BY Fields DEF Types, TypeOK, Alone, Unopened
<1> QED BY <1>1, CommandTypes DEF Alone

LEMMA BeginTypes ==
  ASSUME Types, NEW c \in Cmd, NEW r \in CmdRecord, Begin(c, r), TriesLeft(r),
         UNCHANGED <<alive, bound, files, proc>>,
         faults' \in 0..MaxFaults, misled' \in {misled \ {c}, misled \cup {c}}
  PROVE  Types'
<1>1. commands' \in 0..MaxCommands
  BY BoundsAssumption DEF Types, TypeOK, Begin
<1>2. proc' \in [Proc -> ProcRecord] /\ Unopened' \subseteq Unopened /\ state' \in State
  BY Fields DEF Types, Unopened, files
<1>3. HistoryTypes'
  BY HistorySteps DEF Types
<1> QED BY <1>1, <1>2, <1>3, CommandTypes DEF Begin, files

LEMMA StopTypes ==
  ASSUME Types, NEW c \in Cmd, Signal(c) \/ Kill(c)
  PROVE  Types'
<1> DEFINE p == cmd[c].target
<1>1. p \in Proc
  BY CommandFields, BoundsAssumption DEF Types, Signal, Kill, Live, Proc, Slot
<1>2. OnlyOne(p) /\ (proc'[p].pc = proc[p].pc \/ proc'[p].pc = "gone")
  BY <1>1, TermChanges, GoneFields, Replaces DEF Types, Signal, Kill
<1>3. Unopened' \subseteq Unopened
  BY <1>1, <1>2, NothingUnopened DEF Unopened
<1>4. UNCHANGED <<alive, bound, state, lock, inodes, sock, cmd, commands, faults,
                   beside, misled, stray>>
  BY DEF Signal, Kill, files, bounds, aux
<1>5. TypeOK'
  BY <1>2, <1>4 DEF Types, TypeOK, OnlyOne, ProcRecord, Life, Slot
<1>6. Cardinality(Unopened') <= Cardinality(Unopened) /\ Cardinality(Unopened') \in Nat
      /\ Cardinality(Unopened) \in Nat
  BY <1>3, FewerUnopened
<1>7. inodes \in Nat /\ lock \in Nat /\ lock <= inodes
      /\ inodes + Cardinality(Unopened) <= MaxProc /\ MaxProc \in Nat
  BY BoundsAssumption DEF Types, TypeOK, Inodes, Slot
<1>8. Inodes'
  BY <1>4, <1>6, <1>7 DEF Inodes
<1>9. Tries'
  BY <1>4 DEF Types, Tries, TriesLeft, Toward
<1> QED BY <1>5, <1>8, <1>9 DEF Types

LEMMA Spawns ==
  ASSUME TypeOK, NEW c \in Cmd, Spawn(c, "record")
  PROVE  /\ Spawned \in Proc /\ proc[Spawned].pc = "unborn"
         /\ OnlyOne(Spawned) /\ proc'[Spawned].pc = "new"
         /\ \E r \in CmdRecord : /\ Go(c, r) /\ Keeps(r, cmd[c]) /\ r.pc = "record"
                                 /\ r.st = cmd[c].st /\ r.target = Spawned
                                 /\ r.next = cmd[c].next /\ r.tries = cmd[c].tries
<1>1. Spawned \in Proc /\ proc[Spawned].pc = "unborn"
  BY DEF Spawn, CanSpawn, Spawned
<1>2. OnlyOne(Spawned) /\ proc'[Spawned].pc = "new"
  BY <1>1, PcChanges DEF Spawn, Life
<1>3. Spawned \in Slot /\ "record" \in Place /\ cmd[c] \in CmdRecord
  BY <1>1, Fields, CommandFields DEF Place
<1> DEFINE r == Owns(cmd[c], "record", Spawned)
<1>4. /\ r \in CmdRecord /\ Keeps(r, cmd[c]) /\ r.pc = "record" /\ r.st = cmd[c].st
      /\ r.target = Spawned /\ r.next = cmd[c].next /\ r.tries = cmd[c].tries
  BY <1>3, TargetUpdate
<1>5. Go(c, r)
  BY DEF Spawn, Owns
<1> QED BY <1>1, <1>2, <1>4, <1>5

(* The steps of start that go on, or end. *)
LEMMA StartTypes ==
  ASSUME Types, NEW c \in Cmd,
         \/ StartSaves(c) \/ StartSpawns(c) \/ StartRecords(c) \/ StartLosesProcess(c)
         \/ StartSucceeds(c) \/ StartNickTaken(c) \/ StartFindsExit(c) \/ StartTimesOut(c)
         \/ StartDiscards(c) \/ StartUnlocks(c)
  PROVE  Types'
<1>1. /\ TypeOK /\ cmd[c] \in CmdRecord /\ cmd[c].st \in State /\ cmd[c].target \in Slot
      /\ cmd[c].tries \in Attempts /\ TriesLeft(cmd[c]) /\ state \in State
  BY CommandFields, Fields DEF Types, Tries
<1>2. {"spawn", "wait", "discard", "unlock"} \subseteq Place /\ {"spawn", "discard"} \subseteq After
  BY DEF Place, After
<1>3. TriesLeft(Idle) /\ Idle \in CmdRecord
  BY IdleFields DEF TriesLeft
<1>4. \A x \in Place : \A r : r = [cmd[c] EXCEPT !.pc = x] =>
        r \in CmdRecord /\ Keeps(r, cmd[c]) /\ r.pc = x /\ r.tries = cmd[c].tries
  BY <1>1, PcUpdate
<1>5. \A r : Keeps(r, cmd[c]) /\ r.tries = cmd[c].tries /\ cmd[c].pc \in {"save", "spawn", "record", "wait"}
             => TriesLeft(r)
  BY <1>1 DEF TriesLeft, Toward, Keeps
<1>6. \A r : r.pc \in {"discard", "unlock"} \/ (r.pc = "stop" /\ r.next = "discard") => TriesLeft(r)
  BY DEF TriesLeft, Toward
<1>7. CASE StartSaves(c)
  <2> DEFINE r == [cmd[c] EXCEPT !.pc = "spawn"]
  <2>1. r \in CmdRecord /\ TriesLeft(r)
    BY <1>2, <1>4, <1>5, <1>7 DEF StartSaves
  <2>2. Go(c, r) /\ Alone /\ state' \in State
    BY <1>1, <1>7 DEF StartSaves, Saves, Alone, bounds
  <2>3. HistoryTypes'
    BY <1>1, <1>7, HistorySteps DEF StartSaves, bounds
  <2> HIDE DEF r
  <2> QED BY <2>1, <2>2, <2>3, AloneTypes
<1>8. CASE StartSpawns(c)
  <2>1. Spawn(c, "record") /\ UNCHANGED <<alive, bound, state, lock, inodes, sock, commands, faults>>
    BY <1>8 DEF StartSpawns, files, bounds
  <2>0. HistoryTypes'
    BY <1>1, <2>1, HistorySteps
  <2>2. PICK r \in CmdRecord : Go(c, r) /\ Keeps(r, cmd[c]) /\ r.pc = "record" /\ r.tries = cmd[c].tries
    BY <1>1, <2>1, Spawns
  <2>3. TriesLeft(r)
    BY <1>5, <1>8, <2>2 DEF StartSpawns
  <2>4. Unopened' \subseteq Unopened /\ proc' \in [Proc -> ProcRecord]
    BY <1>1, <2>1, Spawns, NothingUnopened DEF Unopened, OnlyOne
  <2> QED BY <1>1, <2>0, <2>1, <2>2, <2>3, <2>4, CommandTypes DEF Types, TypeOK
<1>9. CASE StartRecords(c)
  <2> DEFINE r == [cmd[c] EXCEPT !.pc = "wait"]
  <2>1. r \in CmdRecord /\ TriesLeft(r)
    BY <1>2, <1>4, <1>5, <1>9 DEF StartRecords
  <2>2. [cmd[c].st EXCEPT !.sup = cmd[c].target] \in State
    BY <1>1, StateFields
  <2>3. Go(c, r) /\ Alone /\ state' \in State
    BY <1>9, <2>2 DEF StartRecords, Saves, Alone, bounds
  <2>4. HistoryTypes'
    BY <1>1, <1>9, HistorySteps DEF StartRecords, bounds
  <2> HIDE DEF r
  <2> QED BY <2>1, <2>3, <2>4, AloneTypes
<1>10. CASE StartLosesProcess(c) \/ StartFindsExit(c)
  <2> DEFINE r == [cmd[c] EXCEPT !.pc = "discard"]
  <2>1. r \in CmdRecord /\ TriesLeft(r)
    BY <1>2, <1>4, <1>6
  <2>2. Go(c, r) /\ Alone /\ state' \in State /\ Unseen(cmd[c].target)
    BY <1>1, <1>10 DEF StartLosesProcess, StartFindsExit, Alone, files
  <2>3. HistoryTypes'
    BY <1>1, <2>2, HistorySteps
  <2> HIDE DEF r
  <2> QED BY <2>1, <2>2, <2>3, AloneTypes
<1>11. CASE StartSucceeds(c)
  <2>1. HistoryTypes'
    BY <1>1, <1>11, HistorySteps DEF StartSucceeds, bounds, aux
  <2> QED BY <1>1, <1>3, <1>11, <2>1, AloneTypes DEF StartSucceeds, Alone, files, bounds
<1>12. CASE StartNickTaken(c)
  <2> DEFINE next == IF cmd[c].tries + 1 < NickAttempts THEN "spawn" ELSE "discard"
             r == Stopping([cmd[c] EXCEPT !.tries = @ + 1], cmd[c].target, next)
  <2>1. cmd[c].op = "start" /\ cmd[c].pc = "wait" /\ cmd[c].tries < NickAttempts
    BY <1>1, <1>12 DEF StartNickTaken, TriesLeft, Toward
  <2>2. next \in After /\ (next = "spawn" => cmd[c].tries + 1 < NickAttempts) /\ next \in {"spawn", "discard"}
    BY <1>2
  <2>3. Go(c, r) /\ UNCHANGED <<alive, bound, state, lock, inodes, sock, proc, commands>>
    BY <1>12 DEF StartNickTaken, files, bounds
  <2>6. HistoryTypes'
    BY <1>1, <1>12, HistorySteps DEF StartNickTaken, bounds, aux
  <2> HIDE DEF next
  <2>4. r \in CmdRecord /\ r.tries = cmd[c].tries + 1 /\ r.next = next /\ r.pc = "stop"
    BY <1>1, <2>1, <2>2, RetryRecord
  <2>5. TriesLeft(r)
    BY <2>2, <2>4 DEF TriesLeft, Toward
  <2> QED BY <1>1, <2>3, <2>4, <2>5, <2>6, AloneTypes DEF Alone
<1>13. CASE StartTimesOut(c)
  <2> DEFINE r == Stopping(cmd[c], cmd[c].target, "discard")
  <2>1. r \in CmdRecord /\ r.pc = "stop" /\ r.next = "discard"
    BY <1>1, <1>2, StoppingUpdate
  <2>2. HistoryTypes'
    BY <1>1, <1>13, HistorySteps DEF StartTimesOut, bounds, aux
  <2> QED BY <1>1, <1>6, <1>13, <2>1, <2>2, AloneTypes DEF StartTimesOut, Alone, files, bounds
<1>14. CASE StartDiscards(c)
  <2> DEFINE r == [cmd[c] EXCEPT !.pc = "unlock"]
  <2>1. r \in CmdRecord /\ TriesLeft(r)
    BY <1>2, <1>4, <1>6
  <2>2. Go(c, r) /\ Alone /\ state' \in State
    BY <1>14, NewState DEF StartDiscards, Saves, Alone, bounds
  <2>3. HistoryTypes'
    BY <1>1, <1>14, HistorySteps DEF StartDiscards, bounds
  <2> HIDE DEF r
  <2> QED BY <2>1, <2>2, <2>3, AloneTypes
<1>15. CASE StartUnlocks(c)
  <2>1. UNCHANGED <<alive, bound, state, inodes, sock, proc, commands, faults>> /\ lock' = 0
        /\ Go(c, Idle)
    BY <1>15 DEF StartUnlocks, bounds
  <2>3. HistoryTypes'
    BY <1>1, <1>15, HistorySteps DEF StartUnlocks, bounds, aux
  <2>2. commands' \in 0..MaxCommands /\ proc' \in [Proc -> ProcRecord] /\ Unopened' \subseteq Unopened
    BY <1>1, <2>1, Fields DEF TypeOK, Unopened
  <2> QED BY <1>1, <1>3, <2>1, <2>2, <2>3, CommandTypes
<1> QED BY <1>7, <1>8, <1>9, <1>10, <1>11, <1>12, <1>13, <1>14, <1>15

LEMMA EnsureTypes ==
  ASSUME Types, NEW c \in Cmd,
         \/ EnsureBegins(c) \/ EnsureSpawns(c) \/ EnsureRecords(c) \/ EnsureLosesProcess(c)
         \/ EnsureEnds(c)
  PROVE  Types'
<1>1. /\ TypeOK /\ cmd[c] \in CmdRecord /\ cmd[c].st \in State /\ cmd[c].target \in Slot
      /\ state \in State /\ state.sup \in Slot /\ TriesLeft(Idle) /\ Idle \in CmdRecord
  BY CommandFields, Fields, StateFields, IdleFields DEF Types, TriesLeft
<1>2. \A r : r.op = "ensure" => TriesLeft(r)
  BY DEF TriesLeft
<1>3. CASE EnsureBegins(c)
  <2> DEFINE t == [Idle EXCEPT !.op = "ensure", !.st = state]
             u == [t EXCEPT !.pc = "wait"]
             w == Stopping(t, state.sup, "spawn")
             healthy == Live(state.sup) /\ Reachable
  <2>1. /\ UNCHANGED <<alive, bound, files, proc>> /\ misled' = misled \ {c}
        /\ (healthy /\ UNCHANGED faults /\ Begin(c, u)) \/ (Misses(healthy) /\ Begin(c, w))
    BY <1>3 DEF EnsureBegins
  <2>2. t \in CmdRecord /\ t.op = "ensure" /\ "wait" \in Place /\ "spawn" \in After
    BY <1>1, EnsureRecord DEF Place, After
  <2> HIDE DEF t
  <2>3. u \in CmdRecord /\ u.op = "ensure"
    BY <2>2, PcUpdate DEF Keeps
  <2>4. w \in CmdRecord /\ w.op = "ensure"
    BY <1>1, <2>2, StoppingUpdate DEF Keeps
  <2> HIDE DEF u, w, healthy
  <2>5. faults' \in 0..MaxFaults
    BY <1>1, <2>1, Missed DEF TypeOK
  <2> QED BY <1>2, <2>1, <2>3, <2>4, <2>5, BeginTypes
<1>4. CASE EnsureSpawns(c)
  <2>1. Spawn(c, "record") /\ UNCHANGED <<alive, bound, state, lock, inodes, sock, commands, faults>>
    BY <1>4 DEF EnsureSpawns, files, bounds
  <2>0. HistoryTypes'
    BY <1>1, <2>1, HistorySteps
  <2>2. PICK r \in CmdRecord : Go(c, r) /\ Keeps(r, cmd[c])
    BY <1>1, <2>1, Spawns
  <2>3. TriesLeft(r)
    BY <1>2, <1>4, <2>2 DEF EnsureSpawns, Keeps
  <2>4. Unopened' \subseteq Unopened /\ proc' \in [Proc -> ProcRecord]
    BY <1>1, <2>1, Spawns, NothingUnopened DEF Unopened, OnlyOne
  <2> QED BY <1>1, <2>0, <2>1, <2>2, <2>3, <2>4, CommandTypes DEF Types, TypeOK
<1>5. CASE EnsureRecords(c)
  <2> DEFINE r == Records(cmd[c], "wait", cmd[c].target)
  <2>0. "wait" \in Place
    BY DEF Place
  <2>1. r \in CmdRecord /\ Keeps(r, cmd[c])
    BY <1>1, <2>0, SupUpdate
  <2>2. [cmd[c].st EXCEPT !.sup = cmd[c].target] \in State /\ TriesLeft(r)
    BY <1>1, <1>2, <1>5, <2>1, StateFields DEF EnsureRecords, Keeps
  <2>3. Go(c, r) /\ state' = [cmd[c].st EXCEPT !.sup = cmd[c].target] /\ Alone
    BY <1>5 DEF EnsureRecords, Records, Saves, Alone, bounds
  <2>4. HistoryTypes'
    BY <1>1, <1>5, HistorySteps DEF EnsureRecords, bounds
  <2> HIDE DEF r
  <2> QED BY <2>1, <2>2, <2>3, <2>4, AloneTypes
<1>6. CASE EnsureLosesProcess(c) \/ EnsureEnds(c)
  <2>1. HistoryTypes'
    BY <1>1, <1>6, HistorySteps DEF EnsureLosesProcess, EnsureEnds, bounds, aux
  <2> QED BY <1>1, <1>6, <2>1, AloneTypes DEF EnsureLosesProcess, EnsureEnds, Alone, files, bounds
<1> QED BY <1>3, <1>4, <1>5, <1>6

LEMMA OtherTypes ==
  ASSUME Types, NEW c \in Cmd,
         \/ \E o \in Owner, takeover \in BOOLEAN : StartBegins(c, o, takeover)
         \/ \E o \in Owner, force \in BOOLEAN : StopBegins(c, o, force)
         \/ StopSaves(c) \/ GcSurveys(c) \/ (\E prune \in BOOLEAN : GcCollects(c, prune))
         \/ GcPrunes(c) \/ Stopped(c) \/ Killed(c)
  PROVE  Types'
<1>1. /\ TypeOK /\ cmd[c] \in CmdRecord /\ cmd[c].st \in State /\ cmd[c].target \in Slot
      /\ state \in State /\ state.sup \in Slot /\ TriesLeft(Idle) /\ Idle \in CmdRecord
      /\ cmd[c].next \in After /\ TriesLeft(cmd[c])
  BY CommandFields, Fields, StateFields, IdleFields DEF Types, TriesLeft, Tries
<1>2. \A r : r.op # "start" => TriesLeft(r)
  BY DEF TriesLeft
<1>3. ASSUME NEW o \in Owner, NEW takeover \in BOOLEAN, StartBegins(c, o, takeover)
      PROVE  Types'
  <2> DEFINE r == Stopping(Starting(o, takeover), state.sup, "save")
  <2>1. r \in CmdRecord /\ r.tries = 0
    BY <1>1, StartRecord
  <2>2. TriesLeft(r)
    BY <2>1, BoundsAssumption DEF TriesLeft
  <2>3. /\ Begin(c, r) /\ UNCHANGED <<alive, bound, files, proc>>
        /\ Looks(c, MayStart(o, takeover))
    BY <1>3 DEF StartBegins, Starting
  <2> HIDE DEF r
  <2> QED BY <1>1, <2>1, <2>2, <2>3, Looked, BeginTypes
<1>4. ASSUME NEW o \in Owner, NEW force \in BOOLEAN, StopBegins(c, o, force)
      PROVE  Types'
  <2> DEFINE r == Stopping(Ending(o, state), state.sup, "save")
  <2>1. r \in CmdRecord /\ r.op = "stop"
    BY <1>1, StopRecord
  <2>2. /\ Begin(c, r) /\ UNCHANGED <<alive, bound, files, proc>>
        /\ Looks(c, force \/ state.owner \notin alive \ {o})
    BY <1>4 DEF StopBegins, Ending
  <2> HIDE DEF r
  <2> QED BY <1>1, <1>2, <2>1, <2>2, Looked, BeginTypes
<1>5. CASE StopSaves(c)
  <2>1. [cmd[c].st EXCEPT !.sup = 0] \in State
    BY <1>1, Fields, StateFields
  <2>2. HistoryTypes'
    BY <1>1, <1>5, HistorySteps DEF StopSaves, bounds
  <2> QED BY <1>1, <1>5, <2>1, <2>2, AloneTypes DEF StopSaves, Saves, Alone, bounds
<1>6. CASE GcSurveys(c)
  <2>1. PICK seen \in BOOLEAN :
           /\ Looks(c, seen \/ state.owner \notin alive)
           /\ Begin(c, [Idle EXCEPT !.op = "gc", !.pc = "collect",
                                    !.eligible = ~seen /\ bound # state.owner])
    BY <1>6 DEF GcSurveys
  <2> DEFINE e == ~seen /\ bound # state.owner
             r == [Idle EXCEPT !.op = "gc", !.pc = "collect", !.eligible = e]
  <2>2. Begin(c, r) /\ UNCHANGED <<alive, bound, files, proc>> /\ e \in BOOLEAN
    BY <1>6, <2>1 DEF GcSurveys
  <2> HIDE DEF e
  <2>3. r \in CmdRecord /\ r.op = "gc"
    BY <2>2, SurveyRecord
  <2> HIDE DEF r
  <2> QED BY <1>1, <1>2, <2>1, <2>2, <2>3, Looked, BeginTypes
<1>7. ASSUME NEW prune \in BOOLEAN, GcCollects(c, prune)
      PROVE  Types'
  <2> DEFINE next == IF prune THEN "prune" ELSE "idle"
             r == IF state = NoState \/ ~cmd[c].eligible THEN Idle
                    ELSE Stopping([cmd[c] EXCEPT !.st = state], state.sup, next)
  <2>1. Go(c, r) /\ Alone /\ state' = state /\ cmd[c].op = "gc" /\ next \in After
    BY <1>7 DEF GcCollects, Alone, files, bounds, After
  <2> HIDE DEF next
  <2>2. r \in CmdRecord /\ (r = Idle \/ r.op = "gc")
    BY <1>1, <2>1, CollectRecord DEF Keeps
  <2>3. HistoryTypes'
    BY <1>1, <1>7, HistorySteps DEF GcCollects, bounds, aux
  <2> HIDE DEF r
  <2> QED BY <1>1, <1>2, <2>1, <2>2, <2>3, AloneTypes
<1>8. CASE GcPrunes(c)
  <2>1. UNCHANGED <<alive, inodes, proc, commands, faults>> /\ state' = NoState /\ lock' = 0
        /\ sock' = 0 /\ bound' = None /\ Go(c, Idle)
    BY <1>8 DEF GcPrunes, Saves, bounds
  <2>3. HistoryTypes'
    BY <1>1, <1>8, HistorySteps DEF GcPrunes, bounds
  <2>2. commands' \in 0..MaxCommands /\ proc' \in [Proc -> ProcRecord] /\ Unopened' \subseteq Unopened
    BY <1>1, <2>1, Fields DEF TypeOK, Unopened
  <2> QED BY <1>1, <2>1, <2>2, <2>3, NewState, CommandTypes
<1>9. CASE Stopped(c)
  <2> DEFINE t == [cmd[c] EXCEPT !.pc = cmd[c].next]
             r == IF cmd[c].next = "idle" THEN Idle ELSE t
  <2>1. /\ Go(c, r) /\ Alone /\ state' = state /\ cmd[c].pc = "stop"
        /\ Unseen(cmd[c].target)
    BY <1>9 DEF Stopped, Alone, files
  <2>6. HistoryTypes'
    BY <1>1, <2>1, HistorySteps
  <2>2. cmd[c].next \in Place
    BY <1>1 DEF After, Place
  <2>3. t \in CmdRecord /\ Keeps(t, cmd[c]) /\ t.pc = cmd[c].next /\ t.tries = cmd[c].tries
        /\ cmd[c].next # "stop"
    BY <1>1, <2>2, PcUpdate DEF After
  <2> HIDE DEF t
  <2>4. TriesLeft(t)
    BY <1>1, <2>1, <2>3 DEF TriesLeft, Toward, Keeps
  <2>5. r \in CmdRecord /\ TriesLeft(r)
    BY <1>1, <2>3, <2>4
  <2> HIDE DEF r
  <2> QED BY <1>1, <2>1, <2>5, <2>6, AloneTypes
<1>10. CASE Killed(c)
  <2>1. HistoryTypes'
    BY <1>1, <1>10, HistorySteps DEF Killed, bounds
  <2> QED BY <1>1, <1>10, <2>1, AloneTypes DEF Killed, Alone, files, bounds
<1> QED BY <1>3, <1>4, <1>5, <1>6, <1>7, <1>8, <1>9, <1>10

LEMMA TypesInit == Init => Types
<1> SUFFICES ASSUME Init PROVE Types
  OBVIOUS
<1>1. Unborn \in ProcRecord
  BY BoundsAssumption DEF Unborn, ProcRecord, Life, Slot
<1>2. cmd \in [Cmd -> CmdRecord] /\ proc \in [Proc -> ProcRecord] /\ \A c \in Cmd : cmd[c].op = "none"
  BY <1>1, IdleFields DEF Init
<1>6. /\ faults \in 0..MaxFaults /\ commands \in 0..MaxCommands
      /\ lock \in 0..MaxProc /\ inodes \in 0..MaxProc /\ sock \in 0..MaxProc
  BY BoundsAssumption DEF Init
<1>7. alive \subseteq Owner /\ bound \in Owner \cup {None} /\ state \in State
  BY NewState DEF Init
<1>8. beside \in BOOLEAN /\ misled \subseteq Cmd /\ stray \subseteq Proc
  BY DEF Init
<1>3. TypeOK
  BY <1>2, <1>6, <1>7, <1>8
     DEF TypeOK, CmdRecord, ProcRecord, Life, Place, After, Op, Slot, Attempts
<1>4. Unopened = 1..MaxProc
  BY DEF Init, Unopened, Unborn, Proc
<1>5. Cardinality(Unopened) = MaxProc
  <2>1. MaxProc \in Nat /\ MaxProc \in Int /\ 1 \in Int
    BY BoundsAssumption
  <2> QED BY <1>4, <2>1, FS_Interval
<1> QED BY <1>2, <1>3, <1>5, BoundsAssumption DEF Init, Types, Tries, TriesLeft, Inodes

LEMMA TypesStep ==
  ASSUME Types, [Next]_vars
  PROVE  Types'
<1>1. ASSUME NEW p \in Proc, SupervisorStep(p) PROVE Types'
  BY <1>1, SupervisorTypes
<1>2. ASSUME NEW c \in Cmd, CommandStep(c) PROVE Types'
  BY <1>2, StartTypes, EnsureTypes, OtherTypes, StopTypes DEF CommandStep
<1>3. ASSUME NEW o \in Owner, OwnerEnds(o) \/ Binds(o) PROVE Types'
  BY <1>3 DEF OwnerEnds, Binds, files, bounds, aux, Types, TypeOK, Tries, TriesLeft, Toward,
              Inodes, Unopened
<1>4. CASE Unbinds
  BY <1>4 DEF Unbinds, files, bounds, aux, Types, TypeOK, Tries, TriesLeft, Toward, Inodes, Unopened
<1>5. CASE UNCHANGED vars
  BY <1>5 DEF vars, Types, TypeOK, Tries, TriesLeft, Toward, Inodes, Unopened
<1> QED BY <1>1, <1>2, <1>3, <1>4, <1>5 DEF Next

(* Types: whatever runs at once, every variable keeps its type, no start
   tries more often than nickAttempts, and no more lock files are made than
   supervisors open one (startOnce, LockHome). *)
THEOREM SessionTypes == Spec => []TypeOK
<1>1. Types /\ [Next]_vars => Types'
  BY TypesStep
<1>2. Types => TypeOK
  BY DEF Types
<1> QED BY <1>1, <1>2, TypesInit, PTL DEF Spec

----------------------------------------------------------------------------
(* What a command knows of the owner in state.json, at each of its places. *)

StartKnows(r) ==
  /\ Toward(r, {"save"}) => r.force \/ state.owner \notin alive \ {r.by}
  /\ Toward(r, {"spawn", "record", "wait", "discard"}) => state.owner = r.by

GcKnows(r) ==
  /\ r.pc = "collect" /\ r.eligible => state.owner \notin alive
  /\ r.pc \in {"stop", "prune"} => state.owner \notin alive

Knows(r) ==
  /\ r.op = "start" => StartKnows(r)
  /\ r.op \in {"ensure", "stop"} => r.st.owner = state.owner
  /\ r.op = "gc" => GcKnows(r)

(* A start writes its own session; who is not misled knows. *)
OwnSession(r) == r.op = "start" => r.st.owner = r.by

Known ==
  /\ \A c \in Cmd : OwnSession(cmd[c])
  /\ \A c \in Cmd \ misled : cmd[c].pc # "idle" => Knows(cmd[c])

OthersStay(c) == \A d \in Cmd : d # c => cmd'[d] = cmd[d]

(* The other commands under way know what they knew. *)
Spares(c) ==
  \A d \in Cmd : d # c /\ d \notin misled' /\ cmd[d].pc # "idle" =>
    d \notin misled /\ state'.owner = state.owner

LEMMA SparesOthers ==
  ASSUME NEW c \in Cmd,
         \/ state' = state /\ misled' \in {misled, misled \ {c}, misled \cup {c}}
         \/ \E st : Saves(c, st)
  PROVE  Spares(c)
BY DEF Spares, Saves

LEMMA KnownBy ==
  ASSUME Known, NEW c \in Cmd, OthersStay(c), alive' = alive, Spares(c), OwnSession(cmd[c])',
         c \notin misled' /\ cmd'[c].pc # "idle" => Knows(cmd[c])'
  PROVE  Known'
<1>1. ASSUME NEW d \in Cmd, d \notin misled', cmd'[d].pc # "idle" PROVE Knows(cmd[d])'
  <2>1. CASE d = c
    BY <1>1, <2>1
  <2>2. CASE d # c
    <3>1. cmd'[d] = cmd[d] /\ state'.owner = state.owner /\ Knows(cmd[d])
      BY <1>1, <2>2 DEF OthersStay, Spares, Known
    <3> QED BY <3>1 DEF Knows, StartKnows, GcKnows, Toward
  <2> QED BY <2>1, <2>2
<1>2. \A d \in Cmd : OwnSession(cmd[d])'
  BY DEF Known, OthersStay, OwnSession
<1> QED BY <1>1, <1>2 DEF Known

(* The session of a live owner is not taken from it. *)
OwnerTaken ==
  \A o \in alive :
    state.owner = o /\ state'.owner # o =>
      \E c \in Cmd : /\ cmd'[c] # cmd[c]
                     /\ \/ c \in misled
                        \/ cmd[c].op = "start" /\ (cmd[c].by = o \/ cmd[c].force)

LEMMA TakenBy ==
  ASSUME NEW c \in Cmd, cmd'[c] # cmd[c],
         c \notin misled =>
           \/ state.owner \notin alive \/ state'.owner = state.owner
           \/ cmd[c].op = "start" /\ (cmd[c].by = state.owner \/ cmd[c].force)
  PROVE  OwnerTaken
BY DEF OwnerTaken

LEMMA KeptOwner == state' = state => OwnerTaken
BY DEF OwnerTaken

LEMMA IdleKnows == OwnSession(Idle)
BY IdleFields DEF OwnSession

(* A command that goes on to a place it was heading for, and writes nothing,
   knows enough. *)
GoesOn(r, s) ==
  /\ Keeps(r, s) /\ r.st.owner = s.st.owner
  /\ Toward(r, {"save"}) => Toward(s, {"save"})
  /\ Toward(r, {"spawn", "record", "wait", "discard"})
       => Toward(s, {"spawn", "record", "wait", "discard"})
  /\ r.op = "gc" => r.pc # "collect" /\ s.pc \in {"stop", "prune"}

LEMMA KnownMoves ==
  ASSUME Known, NEW c \in Cmd, OthersStay(c), UNCHANGED <<alive, state, misled>>,
         cmd[c].pc # "idle", cmd'[c] = Idle \/ GoesOn(cmd'[c], cmd[c])
  PROVE  Known' /\ OwnerTaken
<1>1. Spares(c)
  BY SparesOthers
<1>2. CASE cmd'[c] = Idle
  <2>1. cmd'[c].pc = "idle" /\ OwnSession(cmd[c])'
    BY <1>2, IdleFields DEF OwnSession
  <2> QED BY <1>1, <2>1, KnownBy, KeptOwner
<1>3. CASE GoesOn(cmd'[c], cmd[c])
  <2>1. OwnSession(cmd[c])'
    BY <1>3 DEF Known, OwnSession, GoesOn, Keeps
  <2>2. ASSUME c \notin misled' PROVE Knows(cmd[c])'
    <3>1. Knows(cmd[c])
      BY <2>2 DEF Known
    <3>2. CASE cmd[c].op = "start"
      <4>1. StartKnows(cmd[c]) /\ cmd'[c].op = "start"
        BY <1>3, <3>1, <3>2 DEF Knows, GoesOn, Keeps
      <4>2. StartKnows(cmd[c])'
        BY <1>3, <4>1 DEF StartKnows, GoesOn, Keeps, Toward
      <4> QED BY <4>1, <4>2 DEF Knows
    <3>3. CASE cmd[c].op # "start"
      BY <1>3, <3>1, <3>3 DEF Knows, GoesOn, Keeps, GcKnows
    <3> QED BY <3>2, <3>3
  <2> QED BY <1>1, <2>1, <2>2, KnownBy, KeptOwner
<1> QED BY <1>2, <1>3

(* cmd[c].pc is set and nothing else of the command. *)
LEMMA Advances ==
  ASSUME TypeOK, NEW c \in Cmd, NEW x \in Place, Go(c, [cmd[c] EXCEPT !.pc = x])
  PROVE  /\ Keeps(cmd'[c], cmd[c]) /\ cmd'[c].pc = x /\ cmd'[c].st = cmd[c].st
         /\ cmd'[c].target = cmd[c].target /\ cmd'[c].next = cmd[c].next /\ OthersStay(c)
BY CommandFields, PcUpdate, Going DEF OthersStay

LEMMA Ends ==
  ASSUME TypeOK, NEW c \in Cmd, Go(c, Idle)
  PROVE  cmd'[c] = Idle /\ OthersStay(c)
BY IdleFields, Going DEF OthersStay

(* A start stops its own supervisor, to try again or to give up. *)
LEMMA StopsOwn ==
  ASSUME Types, NEW c \in Cmd, StartNickTaken(c) \/ StartTimesOut(c)
  PROVE  /\ Keeps(cmd'[c], cmd[c]) /\ cmd'[c].pc = "stop" /\ cmd'[c].st = cmd[c].st
         /\ cmd'[c].target = cmd[c].target /\ cmd'[c].next \in {"spawn", "discard"}
         /\ OthersStay(c)
<1>1. TypeOK /\ cmd[c] \in CmdRecord /\ cmd[c].target \in Slot /\ "spawn" \in After /\ "discard" \in After
  BY CommandFields DEF Types, After
<1>2. CASE StartNickTaken(c)
  <2> DEFINE next == IF cmd[c].tries + 1 < NickAttempts THEN "spawn" ELSE "discard"
             r == Stopping([cmd[c] EXCEPT !.tries = @ + 1], cmd[c].target, next)
  <2>1. cmd[c].tries < NickAttempts
    BY <1>2 DEF StartNickTaken, Types, Tries, TriesLeft, Toward
  <2>2. next \in After /\ next \in {"spawn", "discard"} /\ Go(c, r)
    BY <1>1, <1>2 DEF StartNickTaken
  <2> HIDE DEF next
  <2>3. r \in CmdRecord /\ Keeps(r, cmd[c]) /\ r.pc = "stop" /\ r.st = cmd[c].st
        /\ r.target = cmd[c].target /\ r.next = next
    BY <1>1, <2>1, <2>2, RetryRecord
  <2> QED BY <1>1, <2>2, <2>3, Going DEF OthersStay
<1>3. CASE StartTimesOut(c)
  <2> DEFINE r == Stopping(cmd[c], cmd[c].target, "discard")
  <2>1. r \in CmdRecord /\ Keeps(r, cmd[c]) /\ r.pc = "stop" /\ r.st = cmd[c].st
        /\ r.target = cmd[c].target /\ r.next = "discard"
    BY <1>1, StoppingUpdate
  <2> QED BY <1>1, <1>3, <2>1, Going DEF StartTimesOut, OthersStay
<1> QED BY <1>2, <1>3

LEMMA StartKnown ==
  ASSUME Types, Known, NEW c \in Cmd,
         \/ StartSaves(c) \/ StartSpawns(c) \/ StartRecords(c) \/ StartLosesProcess(c)
         \/ StartSucceeds(c) \/ StartNickTaken(c) \/ StartFindsExit(c) \/ StartTimesOut(c)
         \/ StartDiscards(c) \/ StartUnlocks(c)
  PROVE  Known' /\ OwnerTaken
<1>1. /\ TypeOK /\ cmd[c] \in CmdRecord /\ cmd[c].st \in State /\ cmd[c].target \in Slot
  BY CommandFields DEF Types
<1>2. {"spawn", "wait", "discard", "unlock"} \subseteq Place
  BY DEF Place
<1>3. cmd[c].op = "start" /\ cmd[c].st.owner = cmd[c].by
  BY DEF Known, OwnSession, StartSaves, StartSpawns, StartRecords, StartLosesProcess,
         StartSucceeds, StartNickTaken, StartFindsExit, StartTimesOut, StartDiscards, StartUnlocks
<1>4. c \notin misled /\ cmd[c].pc # "idle" => StartKnows(cmd[c])
  BY <1>3 DEF Known, Knows
<1>5. CASE StartSaves(c)
  <2>1. cmd[c].pc = "save" /\ Saves(c, cmd[c].st) /\ alive' = alive /\ Go(c, [cmd[c] EXCEPT !.pc = "spawn"])
    BY <1>5 DEF StartSaves
  <2>2. /\ Keeps(cmd'[c], cmd[c]) /\ cmd'[c].pc = "spawn" /\ cmd'[c].st = cmd[c].st
        /\ OthersStay(c)
    BY <1>1, <1>2, <2>1, Advances
  <2>3. state' = cmd[c].st
    BY <2>1 DEF Saves
  <2>4. Knows(cmd[c])' /\ OwnSession(cmd[c])'
    BY <1>3, <2>2, <2>3 DEF Knows, StartKnows, OwnSession, Keeps, Toward
  <2>5. Known'
    BY <2>1, <2>2, <2>4, SparesOthers, KnownBy
  <2>6. OwnerTaken
    BY <1>3, <1>4, <2>1, <2>2, <2>3, TakenBy DEF StartKnows, Toward
  <2> QED BY <2>5, <2>6
<1>6. CASE StartSpawns(c)
  <2>1. PICK r \in CmdRecord : Go(c, r) /\ Keeps(r, cmd[c]) /\ r.pc = "record" /\ r.st = cmd[c].st
    BY <1>1, <1>6, Spawns DEF StartSpawns
  <2>2. /\ cmd'[c] = r /\ OthersStay(c) /\ UNCHANGED <<alive, state, misled>>
        /\ cmd[c].pc = "spawn"
    BY <1>1, <1>6, <2>1, Going DEF StartSpawns, Spawn, files, OthersStay
  <2>3. GoesOn(cmd'[c], cmd[c])
    BY <1>3, <2>1, <2>2 DEF GoesOn, Toward, Keeps
  <2> QED BY <2>2, <2>3, KnownMoves
<1>7. CASE StartRecords(c)
  <2> DEFINE s == [cmd[c].st EXCEPT !.sup = cmd[c].target]
  <2>1. /\ cmd[c].pc = "record" /\ Saves(c, s) /\ alive' = alive
        /\ Go(c, [cmd[c] EXCEPT !.pc = "wait"])
    BY <1>7 DEF StartRecords
  <2>2. state' = s /\ s.owner = cmd[c].by
    BY <1>1, <1>3, <2>1, StateFields DEF Saves
  <2> HIDE DEF s
  <2>3. /\ Keeps(cmd'[c], cmd[c]) /\ cmd'[c].pc = "wait" /\ cmd'[c].st = cmd[c].st
        /\ OthersStay(c)
    BY <1>1, <1>2, <2>1, Advances
  <2>4. Knows(cmd[c])' /\ OwnSession(cmd[c])'
    BY <1>3, <2>2, <2>3 DEF Knows, StartKnows, OwnSession, Keeps, Toward
  <2>5. Known'
    BY <2>1, <2>3, <2>4, SparesOthers, KnownBy
  <2>6. OwnerTaken
    BY <1>3, <1>4, <2>1, <2>2, <2>3, TakenBy DEF StartKnows, Toward
  <2> QED BY <2>5, <2>6
<1>8. CASE StartLosesProcess(c) \/ StartFindsExit(c)
  <2>1. /\ cmd[c].pc \in {"record", "wait"} /\ Go(c, [cmd[c] EXCEPT !.pc = "discard"])
        /\ UNCHANGED <<alive, state, misled>>
    BY <1>8 DEF StartLosesProcess, StartFindsExit, Unseen, files
  <2>2. /\ Keeps(cmd'[c], cmd[c]) /\ cmd'[c].pc = "discard" /\ cmd'[c].st = cmd[c].st
        /\ OthersStay(c)
    BY <1>1, <1>2, <2>1, Advances
  <2>3. GoesOn(cmd'[c], cmd[c])
    BY <1>3, <2>1, <2>2 DEF GoesOn, Toward, Keeps
  <2> QED BY <2>1, <2>2, <2>3, KnownMoves
<1>9. CASE StartSucceeds(c) \/ StartUnlocks(c)
  <2>1. /\ cmd[c].pc # "idle" /\ UNCHANGED <<alive, state, misled>> /\ Go(c, Idle)
    BY <1>9 DEF StartSucceeds, StartUnlocks, files, aux
  <2> QED BY <1>1, <2>1, Ends, KnownMoves
<1>10. CASE StartNickTaken(c) \/ StartTimesOut(c)
  <2>1. /\ Keeps(cmd'[c], cmd[c]) /\ cmd'[c].pc = "stop" /\ cmd'[c].st = cmd[c].st
        /\ cmd'[c].next \in {"spawn", "discard"} /\ OthersStay(c)
    BY <1>10, StopsOwn
  <2>2. cmd[c].pc \in {"record", "wait"} /\ UNCHANGED <<alive, state, misled>>
    BY <1>10 DEF StartNickTaken, StartTimesOut, files, aux
  <2>3. GoesOn(cmd'[c], cmd[c])
    BY <1>3, <2>1, <2>2 DEF GoesOn, Toward, Keeps
  <2> QED BY <2>1, <2>2, <2>3, KnownMoves
<1>11. CASE StartDiscards(c)
  <2>1. /\ cmd[c].pc \in {"spawn", "discard"} /\ Saves(c, NoState) /\ alive' = alive
        /\ Go(c, [cmd[c] EXCEPT !.pc = "unlock"])
    BY <1>11 DEF StartDiscards
  <2>2. /\ Keeps(cmd'[c], cmd[c]) /\ cmd'[c].pc = "unlock" /\ cmd'[c].st = cmd[c].st
        /\ OthersStay(c)
    BY <1>1, <1>2, <2>1, Advances
  <2>3. Knows(cmd[c])' /\ OwnSession(cmd[c])'
    BY <1>3, <2>2 DEF Knows, StartKnows, OwnSession, Keeps, Toward
  <2>4. Known'
    BY <2>1, <2>2, <2>3, SparesOthers, KnownBy
  <2>5. OwnerTaken
    BY <1>3, <1>4, <2>1, <2>2, TakenBy DEF StartKnows, Toward
  <2> QED BY <2>4, <2>5
<1> QED BY <1>5, <1>6, <1>7, <1>8, <1>9, <1>10, <1>11

(* A command that begins to act marks what lives while another one acts. *)
Company(c) ==
  IF Acts(cmd[c])'
    THEN LET company == \E d \in Cmd \ {c} : Acts(cmd[d])
         IN  /\ beside' = company
             /\ stray' = IF company THEN stray \cup {p \in Proc : Live(p)} ELSE stray
    ELSE UNCHANGED <<beside, stray>>

(* How ensure, stop, start and gc begin. *)
LEMMA Begins ==
  ASSUME TypeOK, NEW c \in Cmd, NEW r \in CmdRecord, Begin(c, r)
  PROVE  cmd'[c] = r /\ OthersStay(c) /\ cmd[c].pc = "idle" /\ Company(c)
<1>1. cmd'[c] = r /\ OthersStay(c)
  BY Going DEF Begin, OthersStay
<1>2. Acts(cmd[c])' <=> Acts(r)
  BY <1>1 DEF Acts
<1> QED BY <1>1, <1>2 DEF Begin, Company

(* Only the commands, the fault counter and the history have changed. *)
Apart == UNCHANGED <<alive, bound, state, lock, inodes, sock, proc>>

LEMMA EnsureStarts ==
  ASSUME TypeOK, NEW c \in Cmd, EnsureBegins(c)
  PROVE  /\ cmd'[c].op = "ensure" /\ cmd'[c].st = state
         /\ cmd'[c].pc = "wait" \/ (/\ cmd'[c].pc = "stop" /\ cmd'[c].next = "spawn"
                                    /\ cmd'[c].target = state.sup)
         /\ Apart /\ misled' = misled \ {c}
         /\ OthersStay(c) /\ cmd[c].pc = "idle" /\ Company(c)
<1> DEFINE t == [Idle EXCEPT !.op = "ensure", !.st = state]
           u == [t EXCEPT !.pc = "wait"]
           w == Stopping(t, state.sup, "spawn")
<1>1. Apart /\ misled' = misled \ {c} /\ (Begin(c, u) \/ Begin(c, w))
  BY DEF EnsureBegins, files, Apart
<1>2. state \in State /\ state.sup \in Slot /\ "wait" \in Place /\ "spawn" \in After
  BY Fields, StateFields DEF Place, After
<1>3. t \in CmdRecord /\ t.op = "ensure" /\ t.st = state
  BY <1>2, EnsureRecord
<1> HIDE DEF t
<1>4. u \in CmdRecord /\ u.op = "ensure" /\ u.st = state /\ u.pc = "wait"
  BY <1>2, <1>3, PcUpdate DEF Keeps
<1>5. /\ w \in CmdRecord /\ w.op = "ensure" /\ w.st = state
      /\ w.pc = "stop" /\ w.next = "spawn" /\ w.target = state.sup
  BY <1>2, <1>3, StoppingUpdate DEF Keeps
<1> HIDE DEF u, w
<1> QED BY <1>1, <1>4, <1>5, Begins

LEMMA StartStarts ==
  ASSUME TypeOK, NEW c \in Cmd, NEW o \in Owner, NEW takeover \in BOOLEAN,
         StartBegins(c, o, takeover)
  PROVE  /\ cmd'[c].op = "start" /\ cmd'[c].by = o /\ cmd'[c].force = takeover
         /\ cmd'[c].st.owner = o /\ cmd'[c].pc = "stop" /\ cmd'[c].next = "save"
         /\ cmd'[c].target = state.sup
         /\ Apart /\ misled' \in {misled \ {c}, misled \cup {c}}
         /\ c \in misled' \/ takeover \/ state.owner \notin alive \ {o}
         /\ OthersStay(c) /\ cmd[c].pc = "idle" /\ Company(c)
<1> DEFINE r == Stopping(Starting(o, takeover), state.sup, "save")
<1>1. Begin(c, r) /\ Apart
  BY DEF StartBegins, Starting, files, Apart
<1>2. /\ misled' \in {misled \ {c}, misled \cup {c}}
      /\ c \in misled' \/ takeover \/ state.owner \notin alive \ {o}
  BY DEF StartBegins, Looks, MayStart
<1>3. /\ r \in CmdRecord /\ r.op = "start" /\ r.by = o /\ r.force = takeover
      /\ r.st.owner = o /\ r.pc = "stop" /\ r.next = "save" /\ r.target = state.sup
  BY StartRecord, Fields, StateFields
<1> HIDE DEF r
<1> QED BY <1>1, <1>2, <1>3, Begins

LEMMA StopStarts ==
  ASSUME TypeOK, NEW c \in Cmd, NEW o \in Owner, NEW force \in BOOLEAN, StopBegins(c, o, force)
  PROVE  /\ cmd'[c].op = "stop" /\ cmd'[c].st = state /\ cmd'[c].pc = "stop"
         /\ cmd'[c].next = "save" /\ cmd'[c].target = state.sup
         /\ Apart /\ misled' \in {misled \ {c}, misled \cup {c}}
         /\ OthersStay(c) /\ cmd[c].pc = "idle" /\ Company(c)
<1> DEFINE r == Stopping(Ending(o, state), state.sup, "save")
<1>1. Begin(c, r) /\ Apart
  BY DEF StopBegins, Ending, files, Apart
<1>2. misled' \in {misled \ {c}, misled \cup {c}}
  BY DEF StopBegins, Looks
<1>3. /\ r \in CmdRecord /\ r.op = "stop" /\ r.st = state
      /\ r.pc = "stop" /\ r.next = "save" /\ r.target = state.sup
  BY StopRecord, Fields, StateFields
<1> HIDE DEF r
<1> QED BY <1>1, <1>2, <1>3, Begins

LEMMA GcStarts ==
  ASSUME TypeOK, NEW c \in Cmd, GcSurveys(c)
  PROVE  /\ cmd'[c].op = "gc" /\ cmd'[c].pc = "collect"
         /\ cmd'[c].eligible /\ c \notin misled' => state.owner \notin alive
         /\ Apart /\ misled' \in {misled \ {c}, misled \cup {c}}
         /\ OthersStay(c) /\ cmd[c].pc = "idle" /\ Company(c)
<1>1. PICK seen \in BOOLEAN :
         /\ Looks(c, seen \/ state.owner \notin alive)
         /\ Begin(c, [Idle EXCEPT !.op = "gc", !.pc = "collect",
                                  !.eligible = ~seen /\ bound # state.owner])
  BY DEF GcSurveys
<1>2. /\ misled' \in {misled \ {c}, misled \cup {c}}
      /\ c \in misled' \/ seen \/ state.owner \notin alive
  BY <1>1 DEF Looks
<1> DEFINE e == ~seen /\ bound # state.owner
           r == [Idle EXCEPT !.op = "gc", !.pc = "collect", !.eligible = e]
<1>3. Begin(c, r) /\ Apart /\ e \in BOOLEAN /\ (e => ~seen)
  BY <1>1 DEF GcSurveys, files, Apart
<1> HIDE DEF e
<1>4. r \in CmdRecord /\ r.op = "gc" /\ r.pc = "collect" /\ r.eligible = e
  BY <1>3, SurveyRecord
<1> HIDE DEF r
<1>5. cmd'[c] = r /\ OthersStay(c) /\ cmd[c].pc = "idle" /\ Company(c)
  BY <1>3, <1>4, Begins
<1> QED BY <1>2, <1>3, <1>4, <1>5

LEMMA GcGoesOn ==
  ASSUME TypeOK, NEW c \in Cmd, NEW prune \in BOOLEAN, GcCollects(c, prune)
  PROVE  /\ Apart /\ UNCHANGED <<commands, faults, beside, misled, stray>> /\ OthersStay(c)
         /\ cmd[c].op = "gc" /\ cmd[c].pc = "collect"
         /\ cmd'[c] = Idle \/ (/\ cmd[c].eligible /\ Keeps(cmd'[c], cmd[c]) /\ cmd'[c].pc = "stop"
                               /\ cmd'[c].st = state /\ cmd'[c].target = state.sup)
         /\ cmd'[c] = Idle => ~cmd[c].eligible \/ state = NoState
<1> DEFINE next == IF prune THEN "prune" ELSE "idle"
           w == Stopping([cmd[c] EXCEPT !.st = state], state.sup, next)
           r == IF state = NoState \/ ~cmd[c].eligible THEN Idle ELSE w
<1>1. /\ Go(c, r) /\ Apart /\ UNCHANGED <<commands, faults, beside, misled, stray>>
      /\ cmd[c].op = "gc" /\ cmd[c].pc = "collect" /\ next \in After
  BY DEF GcCollects, files, bounds, aux, After, Apart
<1>2. /\ cmd[c] \in CmdRecord /\ cmd[c].eligible \in BOOLEAN /\ state \in State
      /\ state.sup \in Slot /\ Idle \in CmdRecord
  BY CommandFields, Fields, StateFields, IdleFields
<1> HIDE DEF next
<1>3. /\ w \in CmdRecord /\ Keeps(w, cmd[c]) /\ w.pc = "stop" /\ w.st = state
      /\ w.target = state.sup
  BY <1>1, <1>2, CollectRecord
<1>6. w # Idle
  BY <1>3, IdleFields
<1> HIDE DEF w
<1>4. (r = Idle /\ (~cmd[c].eligible \/ state = NoState)) \/ (cmd[c].eligible /\ r = w)
  BY <1>2
<1>5. cmd'[c] = r /\ OthersStay(c)
  <2>1. r \in CmdRecord
    BY <1>2, <1>3, <1>4
  <2> HIDE DEF r
  <2> QED BY <1>1, <2>1, Going DEF OthersStay
<1> QED BY <1>1, <1>3, <1>4, <1>5, <1>6

(* The supervisor is gone, or not seen: the command ends, or goes where it
   was heading. *)
LEMMA StoppedGoesOn ==
  ASSUME TypeOK, NEW c \in Cmd, Stopped(c)
  PROVE  /\ Apart /\ Unseen(cmd[c].target) /\ OthersStay(c)
         /\ cmd[c].pc = "stop" /\ cmd[c].next \in After
         /\ \/ cmd'[c] = Idle
            \/ /\ Keeps(cmd'[c], cmd[c]) /\ cmd'[c].pc = cmd[c].next
               /\ cmd'[c].st = cmd[c].st
<1> DEFINE t == [cmd[c] EXCEPT !.pc = cmd[c].next]
           r == IF cmd[c].next = "idle" THEN Idle ELSE t
<1>1. Go(c, r) /\ Apart /\ Unseen(cmd[c].target) /\ cmd[c].pc = "stop"
  BY DEF Stopped, files, Apart
<1>2. cmd[c] \in CmdRecord /\ cmd[c].next \in After /\ cmd[c].next \in Place /\ Idle \in CmdRecord
  BY CommandFields, IdleFields DEF After, Place
<1>3. t \in CmdRecord /\ Keeps(t, cmd[c]) /\ t.pc = cmd[c].next /\ t.st = cmd[c].st
  BY <1>2, PcUpdate
<1> HIDE DEF t
<1>4. r = Idle \/ r = t
  OBVIOUS
<1>5. cmd'[c] = r /\ OthersStay(c)
  <2>1. r \in CmdRecord
    BY <1>2, <1>3, <1>4
  <2> HIDE DEF r
  <2> QED BY <1>1, <2>1, Going DEF OthersStay
<1> QED BY <1>1, <1>2, <1>3, <1>4, <1>5

(* A new supervisor is recorded by ensure. *)
LEMMA EnsureSaves ==
  ASSUME TypeOK, NEW c \in Cmd, EnsureRecords(c)
  PROVE  /\ cmd[c].op = "ensure" /\ cmd[c].pc = "record"
         /\ Saves(c, [cmd[c].st EXCEPT !.sup = cmd[c].target])
         /\ state'.owner = cmd[c].st.owner /\ state'.sup = cmd[c].target
         /\ cmd'[c].op = "ensure" /\ cmd'[c].pc = "wait" /\ cmd'[c].st.owner = state'.owner
         /\ OthersStay(c) /\ UNCHANGED <<alive, bound, lock, inodes, sock, proc>>
<1> DEFINE r == Records(cmd[c], "wait", cmd[c].target)
           s == [cmd[c].st EXCEPT !.sup = cmd[c].target]
<1>1. /\ cmd[c].op = "ensure" /\ cmd[c].pc = "record" /\ Saves(c, s) /\ Go(c, r)
      /\ UNCHANGED <<alive, bound, lock, inodes, sock, proc>>
  BY DEF EnsureRecords, Records
<1>2. cmd[c] \in CmdRecord /\ cmd[c].st \in State /\ cmd[c].target \in Slot /\ "wait" \in Place
  BY CommandFields DEF Place
<1>3. r \in CmdRecord /\ Keeps(r, cmd[c]) /\ r.st.owner = cmd[c].st.owner /\ r.pc = "wait"
  BY <1>2, SupUpdate
<1>4. s.owner = cmd[c].st.owner /\ s.sup = cmd[c].target /\ state' = s
  BY <1>1, <1>2, StateFields DEF Saves
<1> HIDE DEF r
<1>5. cmd'[c] = r /\ OthersStay(c)
  BY <1>1, <1>3, Going DEF OthersStay
<1> QED BY <1>1, <1>3, <1>4, <1>5 DEF Keeps

LEMMA EnsureKnown ==
  ASSUME Types, Known, NEW c \in Cmd,
         \/ EnsureBegins(c) \/ EnsureSpawns(c) \/ EnsureRecords(c) \/ EnsureLosesProcess(c)
         \/ EnsureEnds(c)
  PROVE  Known' /\ OwnerTaken
<1>1. /\ TypeOK /\ cmd[c] \in CmdRecord /\ cmd[c].st \in State /\ cmd[c].target \in Slot
  BY CommandFields DEF Types
<1>2. CASE EnsureBegins(c)
  <2>1. /\ cmd'[c].op = "ensure" /\ cmd'[c].st = state /\ UNCHANGED <<alive, state>>
        /\ misled' = misled \ {c} /\ OthersStay(c)
    BY <1>1, <1>2, EnsureStarts DEF Apart
  <2>2. Knows(cmd[c])' /\ OwnSession(cmd[c])'
    BY <2>1 DEF Knows, OwnSession
  <2> QED BY <2>1, <2>2, SparesOthers, KnownBy, KeptOwner
<1>3. CASE EnsureSpawns(c)
  <2>1. PICK r \in CmdRecord : Go(c, r) /\ Keeps(r, cmd[c]) /\ r.pc = "record" /\ r.st = cmd[c].st
    BY <1>1, <1>3, Spawns DEF EnsureSpawns
  <2>2. /\ cmd'[c] = r /\ OthersStay(c) /\ UNCHANGED <<alive, state, misled>>
        /\ cmd[c].op = "ensure" /\ cmd[c].pc = "spawn"
    BY <1>1, <1>3, <2>1, Going DEF EnsureSpawns, Spawn, files, OthersStay
  <2>3. GoesOn(cmd'[c], cmd[c])
    BY <2>1, <2>2 DEF GoesOn, Toward, Keeps
  <2> QED BY <2>2, <2>3, KnownMoves
<1>4. CASE EnsureRecords(c)
  <2>1. /\ Saves(c, [cmd[c].st EXCEPT !.sup = cmd[c].target]) /\ cmd[c].op = "ensure"
        /\ cmd[c].pc = "record" /\ state'.owner = cmd[c].st.owner /\ alive' = alive
        /\ cmd'[c].op = "ensure" /\ cmd'[c].pc = "wait" /\ cmd'[c].st.owner = state'.owner
        /\ OthersStay(c)
    BY <1>1, <1>4, EnsureSaves
  <2>2. Knows(cmd[c])' /\ OwnSession(cmd[c])'
    BY <2>1 DEF Knows, OwnSession
  <2>3. Known'
    BY <2>1, <2>2, SparesOthers, KnownBy
  <2>4. c \notin misled => cmd[c].st.owner = state.owner
    BY <2>1 DEF Known, Knows
  <2>5. OwnerTaken
    BY <2>1, <2>4, TakenBy
  <2> QED BY <2>3, <2>5
<1>5. CASE EnsureLosesProcess(c) \/ EnsureEnds(c)
  <2>1. /\ cmd[c].pc # "idle" /\ UNCHANGED <<alive, state, misled>> /\ Go(c, Idle)
    BY <1>5 DEF EnsureLosesProcess, EnsureEnds, Unseen, files, aux
  <2> QED BY <1>1, <2>1, Ends, KnownMoves
<1> QED BY <1>2, <1>3, <1>4, <1>5

LEMMA OtherKnown ==
  ASSUME Types, Known, NEW c \in Cmd,
         \/ \E o \in Owner, takeover \in BOOLEAN : StartBegins(c, o, takeover)
         \/ \E o \in Owner, force \in BOOLEAN : StopBegins(c, o, force)
         \/ StopSaves(c) \/ GcSurveys(c) \/ (\E prune \in BOOLEAN : GcCollects(c, prune))
         \/ GcPrunes(c) \/ Stopped(c) \/ Killed(c)
  PROVE  Known' /\ OwnerTaken
<1>1. TypeOK /\ cmd[c].st \in State /\ 0 \in Slot
  BY CommandFields, Fields DEF Types
<1>2. c \notin misled /\ cmd[c].pc # "idle" => Knows(cmd[c])
  BY DEF Known
<1>3. ASSUME NEW o \in Owner, NEW takeover \in BOOLEAN, StartBegins(c, o, takeover)
      PROVE  Known' /\ OwnerTaken
  <2>1. /\ cmd'[c].op = "start" /\ cmd'[c].by = o /\ cmd'[c].force = takeover
        /\ cmd'[c].st.owner = o /\ cmd'[c].pc = "stop" /\ cmd'[c].next = "save"
        /\ UNCHANGED <<alive, state>> /\ misled' \in {misled \ {c}, misled \cup {c}}
        /\ c \in misled' \/ takeover \/ state.owner \notin alive \ {o}
        /\ OthersStay(c)
    BY <1>1, <1>3, StartStarts DEF Apart
  <2>2. OwnSession(cmd[c])' /\ (c \notin misled' => Knows(cmd[c])')
    BY <2>1 DEF Knows, OwnSession, StartKnows, Toward
  <2> QED BY <2>1, <2>2, SparesOthers, KnownBy, KeptOwner
<1>4. ASSUME NEW o \in Owner, NEW force \in BOOLEAN, StopBegins(c, o, force)
      PROVE  Known' /\ OwnerTaken
  <2>1. /\ cmd'[c].op = "stop" /\ cmd'[c].st = state /\ UNCHANGED <<alive, state>>
        /\ misled' \in {misled \ {c}, misled \cup {c}} /\ OthersStay(c)
    BY <1>1, <1>4, StopStarts DEF Apart
  <2>2. Knows(cmd[c])' /\ OwnSession(cmd[c])'
    BY <2>1 DEF Knows, OwnSession
  <2> QED BY <2>1, <2>2, SparesOthers, KnownBy, KeptOwner
<1>5. CASE StopSaves(c)
  <2> DEFINE s == [cmd[c].st EXCEPT !.sup = 0]
  <2>1. /\ cmd[c].op = "stop" /\ cmd[c].pc = "save" /\ Saves(c, s) /\ alive' = alive
        /\ Go(c, Idle)
    BY <1>5 DEF StopSaves
  <2>2. state' = s /\ s.owner = cmd[c].st.owner
    BY <1>1, <2>1, StateFields DEF Saves
  <2> HIDE DEF s
  <2>3. cmd'[c] = Idle /\ OthersStay(c)
    BY <1>1, <2>1, Ends
  <2>4. cmd'[c].pc = "idle" /\ OwnSession(cmd[c])'
    BY <2>3, IdleFields DEF OwnSession
  <2>5. Known'
    BY <2>1, <2>3, <2>4, SparesOthers, KnownBy
  <2>6. c \notin misled => cmd[c].st.owner = state.owner
    BY <1>2, <2>1 DEF Knows
  <2>7. OwnerTaken
    BY <2>1, <2>2, <2>4, <2>6, TakenBy
  <2> QED BY <2>5, <2>7
<1>6. CASE GcSurveys(c)
  <2>1. /\ cmd'[c].op = "gc" /\ cmd'[c].pc = "collect"
        /\ cmd'[c].eligible /\ c \notin misled' => state.owner \notin alive
        /\ UNCHANGED <<alive, state>> /\ misled' \in {misled \ {c}, misled \cup {c}}
        /\ OthersStay(c)
    BY <1>1, <1>6, GcStarts DEF Apart
  <2>2. OwnSession(cmd[c])' /\ (c \notin misled' => Knows(cmd[c])')
    BY <2>1 DEF Knows, GcKnows, OwnSession
  <2> QED BY <2>1, <2>2, SparesOthers, KnownBy, KeptOwner
<1>7. ASSUME NEW prune \in BOOLEAN, GcCollects(c, prune)
      PROVE  Known' /\ OwnerTaken
  <2>1. /\ UNCHANGED <<alive, state, misled>> /\ OthersStay(c)
        /\ cmd[c].op = "gc" /\ cmd[c].pc = "collect"
        /\ cmd'[c] = Idle \/ (/\ cmd[c].eligible /\ Keeps(cmd'[c], cmd[c])
                              /\ cmd'[c].pc = "stop")
    BY <1>1, <1>7, GcGoesOn DEF Apart
  <2>2. CASE cmd'[c] = Idle
    BY <2>1, <2>2, KnownMoves
  <2>3. CASE cmd'[c] # Idle
    <3>1. c \notin misled => state.owner \notin alive
      BY <1>2, <2>1, <2>3 DEF Knows, GcKnows
    <3>2. OwnSession(cmd[c])' /\ (c \notin misled' => Knows(cmd[c])')
      BY <2>1, <2>3, <3>1 DEF Knows, GcKnows, Keeps, OwnSession
    <3> QED BY <2>1, <3>2, SparesOthers, KnownBy, KeptOwner
  <2> QED BY <2>2, <2>3
<1>8. CASE GcPrunes(c)
  <2>1. /\ cmd[c].op = "gc" /\ cmd[c].pc = "prune" /\ Go(c, Idle) /\ Saves(c, NoState)
        /\ alive' = alive
    BY <1>8 DEF GcPrunes
  <2>2. c \notin misled => state.owner \notin alive
    BY <1>2, <2>1 DEF Knows, GcKnows
  <2>3. cmd'[c] = Idle /\ OthersStay(c)
    BY <1>1, <2>1, Ends
  <2>4. cmd'[c].pc = "idle" /\ OwnSession(cmd[c])'
    BY <2>3, IdleFields DEF OwnSession
  <2>5. Known'
    BY <2>1, <2>3, <2>4, SparesOthers, KnownBy
  <2>6. OwnerTaken
    BY <2>1, <2>2, <2>4, TakenBy
  <2> QED BY <2>5, <2>6
<1>9. CASE Stopped(c)
  <2>1. /\ UNCHANGED <<alive, state, misled>> /\ OthersStay(c)
        /\ cmd[c].pc = "stop" /\ cmd[c].next \in After
        /\ \/ cmd'[c] = Idle
           \/ /\ Keeps(cmd'[c], cmd[c]) /\ cmd'[c].pc = cmd[c].next
              /\ cmd'[c].st = cmd[c].st
    BY <1>1, <1>9, StoppedGoesOn DEF Apart, Unseen
  <2>2. cmd[c].next # "collect" /\ cmd[c].next # "stop"
    BY <2>1 DEF After
  <2>3. cmd'[c] = Idle \/ GoesOn(cmd'[c], cmd[c])
    BY <2>1, <2>2 DEF GoesOn, Toward
  <2> QED BY <2>1, <2>3, KnownMoves
<1>10. CASE Killed(c)
  <2>1. /\ cmd[c].pc # "idle" /\ UNCHANGED <<alive, state, misled>> /\ Go(c, Idle)
    BY <1>10 DEF Killed, files
  <2> QED BY <1>1, <2>1, Ends, KnownMoves
<1> QED BY <1>3, <1>4, <1>5, <1>6, <1>7, <1>8, <1>9, <1>10

LEMMA KnownStep ==
  ASSUME Types, Known, [Next]_vars
  PROVE  Known' /\ OwnerTaken
<1>1. ASSUME UNCHANGED <<state, cmd, misled>>, alive' \subseteq alive PROVE Known' /\ OwnerTaken
  <2>1. \A c \in Cmd \ misled : cmd[c].pc # "idle" => Knows(cmd[c])'
    BY <1>1 DEF Known, Knows, StartKnows, GcKnows, Toward
  <2> QED BY <1>1, <2>1, KeptOwner DEF Known, OwnSession
<1>2. ASSUME NEW p \in Proc, SupervisorStep(p) PROVE Known' /\ OwnerTaken
  <2>1. UNCHANGED <<alive, state, cmd, misled>>
    BY <1>2, SupervisorSteps, OpensLockHarmless DEF Types, Harmless
  <2> QED BY <1>1, <2>1
<1>3. ASSUME NEW c \in Cmd, CommandStep(c) PROVE Known' /\ OwnerTaken
  <2>1. CASE Signal(c) \/ Kill(c)
    BY <1>1, <2>1 DEF Signal, Kill, files, bounds, aux
  <2> QED BY <1>3, <2>1, StartKnown, EnsureKnown, OtherKnown DEF CommandStep
<1>4. CASE \E o \in Owner : OwnerEnds(o) \/ Binds(o)
  BY <1>1, <1>4 DEF OwnerEnds, Binds, files, bounds, aux
<1>5. CASE Unbinds \/ UNCHANGED vars
  BY <1>1, <1>5 DEF Unbinds, files, bounds, aux, vars
<1> QED BY <1>2, <1>3, <1>4, <1>5 DEF Next

LEMMA KnownInit == Init => Known
BY IdleFields DEF Init, Known, OwnSession

(* Whatever overlaps, is killed or fails: the session of a live owner is
   replaced or removed by its own start, by one told to take over, or by a
   command whose record another one replaced or that saw a live owner as
   dead; no recovery, stop or gc that knows the owner does (Start, Ensure,
   Stop, GCReport, discardSession). *)
THEOREM OwnersKeepSessions == Spec => LiveOwnerKept
<1>1. Types /\ Known /\ [Next]_vars => Types' /\ Known' /\ OwnerTaken
  BY TypesStep, KnownStep
<1>2. OwnerTaken <=> \A o \in alive :
        state.owner = o /\ state'.owner # o =>
          \E c \in Cmd : /\ cmd'[c] # cmd[c]
                         /\ \/ c \in misled
                            \/ cmd[c].op = "start" /\ (cmd[c].by = o \/ cmd[c].force)
  BY DEF OwnerTaken
<1> QED BY <1>1, <1>2, TypesInit, KnownInit, PTL DEF Spec, LiveOwnerKept

----------------------------------------------------------------------------
(* Supervisors that are in hand: no command lost them from sight, was killed
   before it recorded them, or began to act while they lived and another
   command acted. *)

InHand(p) == Live(p) /\ p \notin stray

(* A lock file is held once. *)
Excluded ==
  \A p, q \in Proc : Holds(p) /\ Holds(q) /\ proc[p].inode = proc[q].inode => p = q

(* The lock file of a supervisor in hand is still the one that keeps others
   out, and its control socket the one that is found. *)
LockKept == \A p \in Proc : InHand(p) /\ proc[p].pc # "new" => proc[p].inode = lock /\ lock # 0
Reached == \A p \in Proc : InHand(p) /\ Serving(p) => sock = p

(* The command is at a place where p may live: it has p in its hands, or p is
   recorded. *)
At(r, p) ==
  /\ r.pc \in {"stop", "record", "wait", "collect"}
  /\ r.pc \in {"stop", "record", "wait"} => r.target = p
  /\ r.pc \in {"wait", "collect"} => state.sup = p

(* When commands act beside each other, no supervisor is in hand; one that is
   in hand is recorded, or the command that acts has it. *)
OneActs == \A c, d \in Cmd : Acts(cmd[c]) /\ Acts(cmd[d]) => c = d
Attended(p) ==
  /\ Calm => state.sup = p
  /\ \A c \in Cmd : Acts(cmd[c]) => At(cmd[c], p)
Lone ==
  IF beside THEN \A p \in Proc : ~InHand(p)
            ELSE OneActs /\ \A p \in Proc : InHand(p) => Attended(p)

Servers == Excluded /\ LockKept /\ Reached /\ Lone

LEMMA ServingLives ==
  ASSUME NEW p \in Proc, Serving(p)
  PROVE  Live(p) /\ Holds(p) /\ proc[p].pc # "new"
BY DEF Serving, Live, Holds, Proc

(* At most one supervisor is in hand. *)
LEMMA OneInHand ==
  ASSUME Lone, NEW p \in Proc, NEW q \in Proc, InHand(p), InHand(q)
  PROVE  p = q
<1>1. Attended(p) /\ Attended(q)
  BY DEF Lone
<1>2. CASE Calm
  BY <1>1, <1>2 DEF Attended
<1>3. CASE ~Calm
  BY <1>1, <1>3 DEF Attended, Calm, At
<1> QED BY <1>2, <1>3

(* At these places of a command that acts, none is. *)
LEMMA Unattended ==
  ASSUME Lone, NEW c \in Cmd, Acts(cmd[c]),
         cmd[c].pc \in {"save", "spawn", "discard", "unlock", "prune"}
  PROVE  \A p \in Proc : ~InHand(p)
BY DEF Lone, Attended, At

(* A command that acts goes on, or has done. *)
LEMMA LoneMoves ==
  ASSUME Lone, NEW c \in Cmd, Acts(cmd[c]), OthersStay(c), beside' = beside,
         \A p \in Proc : InHand(p)' => InHand(p),
         \A p \in Proc : InHand(p)' /\ At(cmd[c], p) =>
           IF Acts(cmd[c])' THEN At(cmd[c], p)' ELSE state'.sup = p
  PROVE  Lone'
<1>1. CASE beside
  BY <1>1 DEF Lone
<1>2. CASE ~beside
  <2>1. \A d \in Cmd : Acts(cmd[d])' => d = c
    BY <1>2 DEF Lone, OneActs, OthersStay, Acts
  <2>2. OneActs'
    BY <2>1 DEF OneActs
  <2>3. ASSUME NEW p \in Proc, InHand(p)' PROVE Attended(p)'
    <3>1. At(cmd[c], p)
      BY <1>2, <2>3 DEF Lone, Attended
    <3>2. CASE Acts(cmd[c])'
      BY <2>1, <2>3, <3>1, <3>2 DEF Attended, Calm
    <3>3. CASE ~Acts(cmd[c])'
      BY <2>1, <2>3, <3>1, <3>3 DEF Attended
    <3> QED BY <3>2, <3>3
  <2> QED BY <1>2, <2>2, <2>3 DEF Lone
<1> QED BY <1>1, <1>2

(* What acts, what is recorded and what is in hand stays, or less is in
   hand. *)
LEMMA LoneStays ==
  ASSUME Lone, UNCHANGED <<beside, state>>, \A d \in Cmd : Acts(cmd[d])' <=> Acts(cmd[d]),
         \A d \in Cmd : Acts(cmd[d]) => cmd'[d] = cmd[d],
         \A p \in Proc : InHand(p)' => InHand(p)
  PROVE  Lone'
<1>1. CASE beside
  BY <1>1 DEF Lone
<1>2. CASE ~beside
  <2>1. OneActs'
    BY <1>2 DEF Lone, OneActs
  <2>2. ASSUME NEW p \in Proc, InHand(p)' PROVE Attended(p)'
    BY <1>2, <2>2 DEF Lone, Attended, Calm, At
  <2> QED BY <1>2, <2>1, <2>2 DEF Lone
<1> QED BY <1>1, <1>2

(* A step of a command that leaves the supervisors alone, and removes the
   lock file or the socket only when none is in hand. *)
LEMMA ServersApart ==
  ASSUME Servers, proc' = proc, stray \subseteq stray', Lone',
         UNCHANGED <<lock, sock>> \/ \A p \in Proc : ~InHand(p)
  PROVE  Servers'
<1>1. \A p \in Proc : (InHand(p)' => InHand(p)) /\ (Holds(p)' <=> Holds(p)) /\ (Serving(p)' <=> Serving(p))
  BY DEF InHand, Live, Holds, Serving
<1>2. Excluded'
  BY <1>1 DEF Servers, Excluded
<1>3. LockKept' /\ Reached'
  BY <1>1 DEF Servers, LockKept, Reached
<1> QED BY <1>2, <1>3 DEF Servers

(* A command that acts goes on and leaves the supervisors alone. *)
LEMMA ServersMove ==
  ASSUME Servers, NEW c \in Cmd, Acts(cmd[c]), OthersStay(c), beside' = beside,
         proc' = proc, stray \subseteq stray',
         UNCHANGED <<lock, sock>> \/ \A p \in Proc : ~InHand(p),
         \A p \in Proc : InHand(p)' /\ At(cmd[c], p) =>
           IF Acts(cmd[c])' THEN At(cmd[c], p)' ELSE state'.sup = p
  PROVE  Servers'
<1>1. \A p \in Proc : InHand(p)' => InHand(p)
  BY DEF InHand, Live
<1>2. Lone'
  BY <1>1, LoneMoves DEF Servers
<1> QED BY <1>2, ServersApart

(* A command that does not act, and did not. *)
LEMMA ServersIdle ==
  ASSUME Servers, NEW c \in Cmd, ~Acts(cmd[c]), ~Acts(cmd[c])', OthersStay(c),
         UNCHANGED <<beside, state, proc, lock, sock>>, stray \subseteq stray'
  PROVE  Servers'
<1>1. \A p \in Proc : InHand(p)' => InHand(p)
  BY DEF InHand, Live
<1>2. \A d \in Cmd : Acts(cmd[d])' <=> Acts(cmd[d])
  BY DEF OthersStay, Acts
<1>3. \A d \in Cmd : Acts(cmd[d]) => cmd'[d] = cmd[d]
  BY DEF OthersStay
<1>4. Lone'
  BY <1>1, <1>2, <1>3, LoneStays DEF Servers
<1> QED BY <1>4, ServersApart

(* A command loses sight of the supervisor it was about. *)
LEMMA ServersUnseen ==
  ASSUME Servers, NEW c \in Cmd, Acts(cmd[c]), cmd[c].pc \in {"stop", "record", "wait"},
         OthersStay(c), Unseen(cmd[c].target), UNCHANGED <<state, proc, lock, sock>>
  PROVE  Servers'
<1>1. beside' = beside /\ stray' = IF Live(cmd[c].target) THEN stray \cup {cmd[c].target} ELSE stray
  BY DEF Unseen
<1>2. \A p \in Proc : InHand(p)' /\ At(cmd[c], p) => FALSE
  BY <1>1 DEF InHand, At, Live
<1> QED BY <1>1, <1>2, ServersMove

(* A command begins: when another one acts nothing is in hand any more. *)
LEMMA ServersBegin ==
  ASSUME Servers, NEW c \in Cmd, Apart, OthersStay(c), cmd[c].pc = "idle", Company(c),
         Acts(cmd[c])' =>
           cmd'[c].pc = "collect" \/ (cmd'[c].pc = "stop" /\ cmd'[c].target = state.sup)
  PROVE  Servers'
<1>1. ~Acts(cmd[c])
  BY DEF Acts
<1>2. UNCHANGED <<state, proc, lock, sock>>
  BY DEF Apart
<1>3. CASE ~Acts(cmd[c])'
  <2>1. UNCHANGED <<beside, stray>>
    BY <1>3 DEF Company
  <2> QED BY <1>1, <1>2, <1>3, <2>1, ServersIdle
<1>4. CASE Acts(cmd[c])' /\ \E d \in Cmd \ {c} : Acts(cmd[d])
  <2>1. beside' = TRUE /\ stray' = stray \cup {p \in Proc : Live(p)}
    BY <1>4 DEF Company
  <2>2. \A p \in Proc : ~InHand(p)'
    BY <1>2, <2>1 DEF InHand, Live
  <2>3. Lone'
    BY <2>1, <2>2 DEF Lone
  <2> QED BY <1>2, <2>1, <2>3, ServersApart
<1>5. CASE Acts(cmd[c])' /\ \A d \in Cmd \ {c} : ~Acts(cmd[d])
  <2>1. beside' = FALSE /\ stray' = stray
    BY <1>5 DEF Company
  <2>2. Calm
    BY <1>1, <1>5 DEF Calm
  <2>3. \A d \in Cmd : Acts(cmd[d])' <=> d = c
    BY <1>5 DEF OthersStay, Acts
  <2>4. ASSUME NEW p \in Proc, InHand(p)' PROVE Attended(p)'
    <3>1. InHand(p)
      BY <1>2, <2>1, <2>4 DEF InHand, Live
    <3>2. state.sup = p
      BY <2>2, <3>1 DEF Servers, Lone, Attended
    <3>3. At(cmd[c], p)'
      BY <1>2, <1>5, <3>2 DEF At
    <3> QED BY <2>3, <3>3 DEF Attended, Calm
  <2>5. Lone'
    BY <2>1, <2>3, <2>4 DEF Lone, OneActs
  <2> QED BY <1>2, <2>1, <2>5, ServersApart
<1> QED BY <1>3, <1>4, <1>5

(* A supervisor starts while none is in hand, and its command has it. *)
LEMMA ServersSpawn ==
  ASSUME TypeOK, Servers, NEW c \in Cmd, cmd[c].op \in {"start", "ensure"}, cmd[c].pc = "spawn",
         Spawn(c, "record"), UNCHANGED <<state, lock, sock>>
  PROVE  Servers'
<1>1. Acts(cmd[c])
  BY DEF Acts
<1>2. \A p \in Proc : ~InHand(p)
  BY <1>1, Unattended DEF Servers
<1>3. Spawned \in Proc /\ OnlyOne(Spawned) /\ proc'[Spawned].pc = "new"
      /\ proc[Spawned].pc = "unborn"
  BY Spawns
<1>4. PICK r \in CmdRecord : Go(c, r) /\ Keeps(r, cmd[c]) /\ r.pc = "record" /\ r.target = Spawned
  BY Spawns
<1>5. /\ cmd'[c] = r /\ OthersStay(c) /\ beside' = beside
      /\ stray' = IF beside THEN stray \cup {Spawned} ELSE stray
  BY <1>4, Going DEF OthersStay, Spawn
<1> HIDE DEF Spawned
<1>6. \A p \in Proc : InHand(p)' => p = Spawned /\ ~beside
  BY <1>2, <1>3, <1>5 DEF InHand, Live, OnlyOne
<1>7. \A p \in Proc : (Holds(p)' => Holds(p) /\ proc'[p] = proc[p]) /\ (Serving(p)' => p # Spawned)
  BY <1>3 DEF Holds, Serving, OnlyOne
<1>8. Excluded'
  BY <1>7 DEF Servers, Excluded
<1>9. LockKept' /\ Reached'
  BY <1>3, <1>6, <1>7 DEF LockKept, Reached
<1>10. ASSUME beside PROVE Lone'
  <2>1. beside' = beside /\ \A p \in Proc : ~InHand(p)'
    BY <1>5, <1>6, <1>10
  <2> QED BY <1>10, <2>1 DEF Lone
<1>11. ASSUME ~beside PROVE Lone'
  <2>1. \A d \in Cmd : Acts(cmd[d])' => d = c
    BY <1>1, <1>5, <1>11 DEF Servers, Lone, OneActs, OthersStay, Acts
  <2>2. Acts(cmd[c])'
    BY <1>4, <1>5 DEF Acts
  <2>4. ASSUME NEW p \in Proc, InHand(p)' PROVE Attended(p)'
    <3>1. At(cmd[c], p)'
      BY <1>4, <1>5, <1>6, <2>4 DEF At
    <3> QED BY <2>1, <2>2, <3>1 DEF Attended, Calm
  <2>5. beside' = beside /\ OneActs'
    BY <1>5, <2>1 DEF OneActs
  <2> QED BY <1>11, <2>4, <2>5 DEF Lone
<1> QED BY <1>8, <1>9, <1>10, <1>11 DEF Servers

(* What a step does to one supervisor, the commands standing by. *)
LEMMA LoneStands ==
  ASSUME Lone, UNCHANGED <<state, cmd, beside>>, \A p \in Proc : InHand(p)' => InHand(p)
  PROVE  Lone'
<1>1. \A d \in Cmd : Acts(cmd[d])' <=> Acts(cmd[d])
  BY DEF Acts
<1> QED BY <1>1, LoneStays

LEMMA StillInHand ==
  ASSUME NEW p \in Proc, OnlyOne(p), Live(p), stray \subseteq stray'
  PROVE  \A q \in Proc : InHand(q)' => InHand(q)
BY DEF OnlyOne, InHand, Live

LEMMA ServersHarmless ==
  ASSUME TypeOK, Servers, NEW p \in Proc, Harmless(p),
         \/ KeepsLock(p)
         \/ /\ proc'[p].pc = "open" /\ proc'[p].inode = lock' /\ lock' # 0
            /\ lock # 0 => lock' = lock
  PROVE  Servers'
<1>1. /\ OnlyOne(p) /\ Live(p) /\ UNCHANGED <<state, cmd, beside>>
      /\ Serving(p)' => (Serving(p) /\ sock' = sock) \/ sock' = p
      /\ (sock' = sock /\ stray' = stray) \/ stray' = Displaced(p)
      /\ Holds(p)' => Holds(p) \/ ~Locked(proc[p].inode)
      /\ proc'[p].pc = "new" => proc[p].pc = "new"
  BY DEF Harmless
<1>2. stray \subseteq stray'
  BY <1>1 DEF Displaced
<1>3. \A q \in Proc : InHand(q)' => InHand(q)
  BY <1>1, <1>2, StillInHand
<1>4. Lone'
  BY <1>1, <1>3, LoneStands DEF Servers
<1>5. Excluded'
  <2>1. Holds(p)' => proc'[p].inode = proc[p].inode
    BY DEF KeepsLock, Holds
  <2>2. \A q \in Proc : Holds(q) => Live(q) /\ proc[q].pc # "open"
    BY DEF Holds, Live, Proc
  <2>3. ASSUME NEW q \in Proc, q # p, Holds(p)', Holds(q)', proc'[p].inode = proc'[q].inode
        PROVE  FALSE
    <3>1. proc'[q] = proc[q] /\ Holds(q)
      BY <1>1, <2>3 DEF OnlyOne, Holds
    <3>2. proc[p].inode = proc[q].inode
      BY <2>1, <2>3, <3>1
    <3>3. Locked(proc[p].inode)
      BY <2>2, <3>1, <3>2 DEF Locked
    <3> QED BY <1>1, <2>3, <3>1, <3>2, <3>3 DEF Servers, Excluded
  <2>4. \A q \in Proc : q # p => proc'[q] = proc[q] /\ (Holds(q)' <=> Holds(q))
    BY <1>1 DEF OnlyOne, Holds
  <2> QED BY <2>3, <2>4 DEF Servers, Excluded
<1>6. LockKept'
  <2>1. ASSUME NEW q \in Proc, InHand(q)', proc'[q].pc # "new" PROVE proc'[q].inode = lock' /\ lock' # 0
    <3>1. InHand(q) /\ proc'[q].pc # "gone"
      BY <1>3, <2>1 DEF InHand, Live
    <3>2. CASE q # p
      <4>1. proc'[q] = proc[q]
        BY <1>1, <3>2 DEF OnlyOne
      <4>2. proc[q].inode = lock /\ lock # 0
        BY <2>1, <3>1, <4>1 DEF Servers, LockKept
      <4> QED BY <4>1, <4>2 DEF KeepsLock
    <3>3. CASE q = p /\ KeepsLock(p)
      <4>1. proc[p].pc # "new" /\ proc'[p].inode = proc[p].inode /\ lock' = lock
        BY <3>1, <3>3 DEF KeepsLock
      <4> QED BY <3>1, <3>3, <4>1 DEF Servers, LockKept
    <3> QED BY <3>2, <3>3
  <2> QED BY <2>1 DEF LockKept
<1>7. Reached'
  <2>1. ASSUME NEW q \in Proc, InHand(q)', Serving(q)' PROVE sock' = q
    <3>1. InHand(q)
      BY <1>3, <2>1
    <3>2. CASE q = p
      BY <1>1, <2>1, <3>1, <3>2 DEF Servers, Reached
    <3>3. CASE q # p
      <4>1. Serving(q)
        BY <1>1, <2>1, <3>3 DEF OnlyOne, Serving
      <4>2. sock = q /\ q # 0
        BY <3>1, <4>1 DEF Servers, Reached, InHand, Live
      <4>3. p \in stray
        BY <1>1, <3>1, <3>3, OneInHand DEF Servers, InHand
      <4>4. stray' # Displaced(p)
        BY <2>1, <4>2, <4>3 DEF Displaced, InHand
      <4> QED BY <1>1, <4>2, <4>4
    <3> QED BY <3>2, <3>3
  <2> QED BY <2>1 DEF Reached
<1> QED BY <1>4, <1>5, <1>6, <1>7 DEF Servers

LEMMA ServersEnd ==
  ASSUME Types, Servers, NEW c \in Cmd, Signal(c) \/ Kill(c)
  PROVE  Servers'
<1> DEFINE p == cmd[c].target
<1>1. p \in Proc /\ Live(p)
  BY CommandFields, BoundsAssumption DEF Types, Signal, Kill, Live, Proc, Slot
<1>2. /\ OnlyOne(p)
      /\ \/ proc'[p].pc = proc[p].pc /\ proc'[p].inode = proc[p].inode
         \/ proc'[p].pc = "gone"
  BY <1>1, TermChanges, GoneFields, Replaces DEF Types, Signal, Kill
<1>3. UNCHANGED <<state, cmd, sock, lock, beside, stray>>
  BY DEF Signal, Kill, files, aux
<1> HIDE DEF p
<1>4. \A q \in Proc : InHand(q)' => InHand(q)
  BY <1>1, <1>2, <1>3, StillInHand
<1>5. \A q \in Proc : \/ proc'[q].pc = proc[q].pc /\ proc'[q].inode = proc[q].inode
                      \/ proc'[q].pc = "gone"
  BY <1>2 DEF OnlyOne
<1>6. Lone'
  BY <1>3, <1>4, LoneStands DEF Servers
<1>7. Excluded'
  BY <1>5 DEF Servers, Excluded, Holds
<1>8. LockKept' /\ Reached'
  BY <1>3, <1>4, <1>5 DEF Servers, LockKept, Reached, Serving, InHand, Live
<1> QED BY <1>6, <1>7, <1>8 DEF Servers

LEMMA StartServes ==
  ASSUME Types, Servers, NEW c \in Cmd,
         \/ StartSaves(c) \/ StartSpawns(c) \/ StartRecords(c) \/ StartLosesProcess(c)
         \/ StartSucceeds(c) \/ StartNickTaken(c) \/ StartFindsExit(c) \/ StartTimesOut(c)
         \/ StartDiscards(c) \/ StartUnlocks(c)
  PROVE  Servers'
<1>1. /\ TypeOK /\ cmd[c] \in CmdRecord /\ cmd[c].st \in State /\ cmd[c].target \in Slot
  BY CommandFields DEF Types
<1>2. {"spawn", "wait", "discard", "unlock"} \subseteq Place
  BY DEF Place
<1>3. cmd[c].op = "start" /\ Acts(cmd[c])
  BY DEF Acts, StartSaves, StartSpawns, StartRecords, StartLosesProcess, StartSucceeds,
         StartNickTaken, StartFindsExit, StartTimesOut, StartDiscards, StartUnlocks
<1>4. \A x \in Place : Go(c, [cmd[c] EXCEPT !.pc = x]) =>
        /\ cmd'[c].op = "start" /\ cmd'[c].pc = x /\ cmd'[c].target = cmd[c].target
        /\ OthersStay(c)
  BY <1>1, <1>3, Advances DEF Keeps
<1>5. CASE StartSaves(c) \/ StartDiscards(c)
  <2>1. /\ cmd[c].pc \in {"save", "spawn", "discard"} /\ UNCHANGED <<proc, lock, sock, beside, stray>>
        /\ \E x \in {"spawn", "unlock"} : Go(c, [cmd[c] EXCEPT !.pc = x])
    BY <1>5 DEF StartSaves, StartDiscards, Saves
  <2>2. OthersStay(c)
    BY <1>2, <1>4, <2>1
  <2>3. \A p \in Proc : ~At(cmd[c], p)
    BY <2>1 DEF At
  <2> QED BY <1>3, <2>1, <2>2, <2>3, ServersMove
<1>6. CASE StartUnlocks(c)
  <2>1. cmd[c].pc = "unlock" /\ UNCHANGED <<proc, sock, beside, stray>> /\ Go(c, Idle)
    BY <1>6 DEF StartUnlocks, aux
  <2>2. OthersStay(c)
    BY <1>1, <2>1, Ends
  <2>3. \A p \in Proc : ~At(cmd[c], p) /\ ~InHand(p)
    BY <1>3, <2>1, Unattended DEF At, Servers
  <2> QED BY <1>3, <2>1, <2>2, <2>3, ServersMove
<1>7. CASE StartSpawns(c)
  BY <1>1, <1>3, <1>7, ServersSpawn DEF StartSpawns, files
<1>8. CASE StartRecords(c)
  <2>1. /\ cmd[c].pc = "record" /\ UNCHANGED <<proc, lock, sock, beside, stray>>
        /\ Go(c, [cmd[c] EXCEPT !.pc = "wait"])
        /\ state' = [cmd[c].st EXCEPT !.sup = cmd[c].target]
    BY <1>8 DEF StartRecords, Saves
  <2>2. state'.sup = cmd[c].target
    BY <1>1, <2>1, StateFields
  <2>3. cmd'[c].pc = "wait" /\ cmd'[c].target = cmd[c].target /\ OthersStay(c)
        /\ cmd'[c].op = "start"
    BY <1>2, <1>4, <2>1
  <2>4. \A p \in Proc : At(cmd[c], p) => At(cmd[c], p)'
    BY <2>1, <2>2, <2>3 DEF At
  <2>5. Acts(cmd[c])'
    BY <2>3 DEF Acts
  <2> QED BY <1>3, <2>1, <2>3, <2>4, <2>5, ServersMove
<1>9. CASE StartLosesProcess(c) \/ StartFindsExit(c)
  <2>1. /\ cmd[c].pc \in {"record", "wait"} /\ UNCHANGED <<state, proc, lock, sock>>
        /\ Go(c, [cmd[c] EXCEPT !.pc = "discard"]) /\ Unseen(cmd[c].target)
    BY <1>9 DEF StartLosesProcess, StartFindsExit, files
  <2>2. OthersStay(c)
    BY <1>2, <1>4, <2>1
  <2> QED BY <1>3, <2>1, <2>2, ServersUnseen
<1>10. CASE StartSucceeds(c)
  <2>1. cmd[c].pc = "wait" /\ UNCHANGED <<state, proc, lock, sock, beside, stray>> /\ Go(c, Idle)
    BY <1>10 DEF StartSucceeds, files, aux
  <2>2. cmd'[c] = Idle /\ OthersStay(c)
    BY <1>1, <2>1, Ends
  <2>3. ~Acts(cmd[c])'
    BY <2>2, IdleFields DEF Acts
  <2>4. \A p \in Proc : At(cmd[c], p) => state'.sup = p
    BY <2>1 DEF At
  <2> QED BY <1>3, <2>1, <2>2, <2>3, <2>4, ServersMove
<1>11. CASE StartNickTaken(c) \/ StartTimesOut(c)
  <2>1. cmd[c].pc \in {"record", "wait"} /\ UNCHANGED <<state, proc, lock, sock, beside, stray>>
    BY <1>11 DEF StartNickTaken, StartTimesOut, files, aux
  <2>2. cmd'[c].op = "start" /\ cmd'[c].pc = "stop" /\ cmd'[c].target = cmd[c].target /\ OthersStay(c)
    BY <1>3, <1>11, StopsOwn DEF Keeps
  <2>3. \A p \in Proc : At(cmd[c], p) => At(cmd[c], p)'
    BY <2>1, <2>2 DEF At
  <2>4. Acts(cmd[c])'
    BY <2>2 DEF Acts
  <2> QED BY <1>3, <2>1, <2>2, <2>3, <2>4, ServersMove
<1> QED BY <1>5, <1>6, <1>7, <1>8, <1>9, <1>10, <1>11

LEMMA EnsureServes ==
  ASSUME Types, Servers, NEW c \in Cmd,
         \/ EnsureBegins(c) \/ EnsureSpawns(c) \/ EnsureRecords(c) \/ EnsureLosesProcess(c)
         \/ EnsureEnds(c)
  PROVE  Servers'
<1>1. TypeOK /\ state.sup \in Slot
  BY Fields, StateFields DEF Types
<1>2. CASE EnsureBegins(c)
  <2>1. /\ cmd'[c].op = "ensure"
        /\ cmd'[c].pc = "wait" \/ (cmd'[c].pc = "stop" /\ cmd'[c].target = state.sup)
        /\ Apart /\ OthersStay(c) /\ cmd[c].pc = "idle" /\ Company(c)
    BY <1>1, <1>2, EnsureStarts
  <2>2. Acts(cmd[c])' => cmd'[c].pc = "stop" /\ cmd'[c].target = state.sup
    BY <2>1 DEF Acts
  <2> QED BY <2>1, <2>2, ServersBegin
<1>3. CASE EnsureSpawns(c)
  BY <1>1, <1>3, ServersSpawn DEF EnsureSpawns, files
<1>4. CASE EnsureRecords(c)
  <2>1. /\ cmd[c].op = "ensure" /\ cmd[c].pc = "record" /\ state'.sup = cmd[c].target
        /\ cmd'[c].op = "ensure" /\ cmd'[c].pc = "wait"
        /\ OthersStay(c) /\ UNCHANGED <<lock, sock, proc, beside, stray>>
    BY <1>1, <1>4, EnsureSaves DEF Saves
  <2>2. Acts(cmd[c]) /\ ~Acts(cmd[c])'
    BY <2>1 DEF Acts
  <2>3. \A p \in Proc : At(cmd[c], p) => state'.sup = p
    BY <2>1 DEF At
  <2> QED BY <2>1, <2>2, <2>3, ServersMove
<1>5. CASE EnsureLosesProcess(c)
  <2>1. /\ cmd[c].op = "ensure" /\ cmd[c].pc = "record" /\ Unseen(cmd[c].target) /\ Go(c, Idle)
        /\ UNCHANGED <<state, lock, sock, proc>>
    BY <1>5 DEF EnsureLosesProcess, files
  <2>2. Acts(cmd[c]) /\ OthersStay(c)
    BY <1>1, <2>1, Ends DEF Acts
  <2> QED BY <2>1, <2>2, ServersUnseen
<1>6. CASE EnsureEnds(c)
  <2>1. /\ cmd[c].op = "ensure" /\ cmd[c].pc = "wait" /\ Go(c, Idle)
        /\ UNCHANGED <<state, lock, sock, proc, beside, stray>>
    BY <1>6 DEF EnsureEnds, files, aux
  <2>2. cmd'[c] = Idle /\ OthersStay(c)
    BY <1>1, <2>1, Ends
  <2>3. ~Acts(cmd[c]) /\ ~Acts(cmd[c])'
    BY <2>1, <2>2, IdleFields DEF Acts
  <2> QED BY <2>1, <2>2, <2>3, ServersIdle
<1> QED BY <1>2, <1>3, <1>4, <1>5, <1>6

LEMMA OtherServes ==
  ASSUME Types, Servers, NEW c \in Cmd,
         \/ \E o \in Owner, takeover \in BOOLEAN : StartBegins(c, o, takeover)
         \/ \E o \in Owner, force \in BOOLEAN : StopBegins(c, o, force)
         \/ StopSaves(c) \/ GcSurveys(c) \/ (\E prune \in BOOLEAN : GcCollects(c, prune))
         \/ GcPrunes(c) \/ Stopped(c) \/ Killed(c)
  PROVE  Servers'
<1>1. TypeOK /\ 0 \notin Proc
  BY Fields DEF Types
<1>2. CASE \/ \E o \in Owner, takeover \in BOOLEAN : StartBegins(c, o, takeover)
           \/ \E o \in Owner, force \in BOOLEAN : StopBegins(c, o, force)
           \/ GcSurveys(c)
  <2>1. /\ cmd'[c].pc = "collect" \/ (cmd'[c].pc = "stop" /\ cmd'[c].target = state.sup)
        /\ Apart /\ OthersStay(c) /\ cmd[c].pc = "idle" /\ Company(c)
    BY <1>1, <1>2, StartStarts, StopStarts, GcStarts
  <2> QED BY <2>1, ServersBegin
<1>3. CASE StopSaves(c) \/ GcPrunes(c)
  <2>1. /\ cmd[c].op \in {"stop", "gc"} /\ cmd[c].pc \in {"save", "prune"} /\ Go(c, Idle)
        /\ UNCHANGED <<proc, beside, stray>>
    BY <1>3 DEF StopSaves, GcPrunes, Saves
  <2>2. Acts(cmd[c]) /\ OthersStay(c)
    BY <1>1, <2>1, Ends DEF Acts
  <2>3. \A p \in Proc : ~At(cmd[c], p) /\ ~InHand(p)
    BY <2>1, <2>2, Unattended DEF At, Servers
  <2> QED BY <2>1, <2>2, <2>3, ServersMove
<1>4. ASSUME NEW prune \in BOOLEAN, GcCollects(c, prune)
      PROVE  Servers'
  <2>1. /\ Apart /\ UNCHANGED <<beside, stray>> /\ OthersStay(c)
        /\ cmd[c].op = "gc" /\ cmd[c].pc = "collect"
        /\ cmd'[c] = Idle \/ (/\ cmd[c].eligible /\ Keeps(cmd'[c], cmd[c]) /\ cmd'[c].pc = "stop"
                              /\ cmd'[c].target = state.sup)
        /\ cmd'[c] = Idle => ~cmd[c].eligible \/ state = NoState
    BY <1>1, <1>4, GcGoesOn
  <2>2. UNCHANGED <<state, proc, lock, sock>> /\ ~Acts(Idle)
    BY <2>1, IdleFields DEF Apart, Acts
  <2>3. CASE cmd[c].eligible
    <3>1. Acts(cmd[c])
      BY <2>1, <2>3 DEF Acts
    <3>2. CASE cmd'[c] = Idle
      <4>1. state.sup = 0 /\ ~Acts(cmd[c])'
        BY <2>1, <2>2, <2>3, <3>2, NewState DEF Acts
      <4>2. \A p \in Proc : ~At(cmd[c], p)
        BY <1>1, <2>1, <4>1 DEF At
      <4> QED BY <2>1, <2>2, <3>1, <4>2, ServersMove
    <3>3. CASE cmd'[c] # Idle
      <4>1. cmd'[c].op = "gc" /\ cmd'[c].pc = "stop" /\ cmd'[c].target = state.sup
        BY <2>1, <3>3 DEF Keeps
      <4>2. Acts(cmd[c])'
        BY <4>1 DEF Acts
      <4>3. \A p \in Proc : At(cmd[c], p) => At(cmd[c], p)'
        BY <2>1, <4>1 DEF At
      <4> QED BY <2>1, <2>2, <3>1, <4>2, <4>3, ServersMove
    <3> QED BY <3>2, <3>3
  <2>4. CASE ~cmd[c].eligible
    <3>1. ~Acts(cmd[c]) /\ cmd'[c] = Idle
      BY <2>1, <2>4 DEF Acts
    <3>2. ~Acts(cmd[c])'
      BY <3>1, <2>2 DEF Acts
    <3> QED BY <2>1, <2>2, <3>1, <3>2, ServersIdle
  <2> QED BY <2>3, <2>4
<1>5. CASE Stopped(c)
  <2>1. Apart /\ Unseen(cmd[c].target) /\ OthersStay(c) /\ cmd[c].pc = "stop"
    BY <1>1, <1>5, StoppedGoesOn
  <2>2. Acts(cmd[c]) /\ UNCHANGED <<state, proc, lock, sock>>
    BY <2>1 DEF Acts, Apart
  <2> QED BY <2>1, <2>2, ServersUnseen
<1>6. CASE Killed(c)
  <2>1. /\ UNCHANGED <<state, proc, lock, sock, beside>> /\ Go(c, Idle)
        /\ stray' = stray \cup {p \in {cmd[c].target} \ {state.sup} : Live(p)}
    BY <1>6 DEF Killed, files
  <2>2. cmd'[c] = Idle /\ OthersStay(c) /\ stray \subseteq stray'
    BY <1>1, <2>1, Ends
  <2>3. ~Acts(cmd[c])'
    BY <2>2, IdleFields DEF Acts
  <2>4. CASE Acts(cmd[c])
    <3>1. ASSUME NEW p \in Proc, InHand(p)', At(cmd[c], p) PROVE state'.sup = p
      <4>1. p \notin stray' /\ Live(p)
        BY <2>1, <3>1 DEF InHand, Live
      <4>2. cmd[c].target = p => state.sup = p
        BY <2>1, <4>1
      <4> QED BY <2>1, <3>1, <4>2 DEF At
    <3> QED BY <2>1, <2>2, <2>3, <2>4, <3>1, ServersMove
  <2>5. CASE ~Acts(cmd[c])
    BY <2>1, <2>2, <2>3, <2>5, ServersIdle
  <2> QED BY <2>4, <2>5
<1> QED BY <1>2, <1>3, <1>4, <1>5, <1>6

LEMMA ServersStep ==
  ASSUME Types, Servers, [Next]_vars
  PROVE  Servers'
<1>1. ASSUME NEW p \in Proc, SupervisorStep(p) PROVE Servers'
  BY <1>1, SupervisorSteps, OpensLockHarmless, ServersHarmless DEF Types
<1>2. ASSUME NEW c \in Cmd, CommandStep(c) PROVE Servers'
  BY <1>2, StartServes, EnsureServes, OtherServes, ServersEnd DEF CommandStep
<1>3. CASE (\E o \in Owner : OwnerEnds(o) \/ Binds(o)) \/ Unbinds \/ UNCHANGED vars
  <2>1. UNCHANGED <<state, proc, cmd, lock, sock, beside, stray>>
    BY <1>3 DEF OwnerEnds, Binds, Unbinds, files, bounds, aux, vars
  <2>2. Lone'
    BY <2>1, LoneStands DEF Servers, InHand, Live
  <2> QED BY <2>1, <2>2, ServersApart
<1> QED BY <1>1, <1>2, <1>3 DEF Next

(* What holds of the supervisors in hand. *)
LEMMA ServersHold == Spec => [](Types /\ Servers)
<1>1. Init => Servers
  BY IdleFields DEF Init, Servers, Excluded, LockKept, Reached, Lone, OneActs, Attended, Acts,
                    InHand, Live, Holds, Unborn
<1>2. Types /\ Servers /\ [Next]_vars => Types' /\ Servers'
  BY TypesStep, ServersStep
<1> QED BY <1>1, <1>2, TypesInit, PTL DEF Spec

(* Whatever overlaps, is killed or fails: a home has two serving supervisors
   only when one of them got out of hand and its lock file was unlinked by a
   failed start or a prune; the lock that is found keeps all others out
   (LockHome, discardSession, StopVerifiedSupervisor). *)
THEOREM HomeHasOneServer == Spec => []OneServer
<1>1. ASSUME Servers PROVE OneServer
  <2> SUFFICES ASSUME NEW p \in Proc, NEW q \in Proc, Serving(p), Serving(q), p # q
               PROVE  \E r \in {p, q} : r \in stray /\ proc[r].inode # lock
    BY DEF OneServer
  <2>1. /\ Live(p) /\ Holds(p) /\ proc[p].pc # "new"
        /\ Live(q) /\ Holds(q) /\ proc[q].pc # "new"
    BY ServingLives
  <2>2. proc[p].inode # lock \/ proc[q].inode # lock
    BY <1>1, <2>1 DEF Servers, Excluded
  <2>3. \A r \in {p, q} : r \notin stray => proc[r].inode = lock
    BY <1>1, <2>1 DEF Servers, LockKept, InHand
  <2> QED BY <2>2, <2>3
<1> QED BY <1>1, ServersHold, PTL

(* Whatever overlaps, is killed or fails: while no command acts, a supervisor
   in hand is the one in state.json, and behind the control socket once it
   listens (startOnce, Ensure, Stop, GCReport). *)
THEOREM HomeHasNoOrphan == Spec => []NoOrphan
<1>1. ASSUME Servers, Calm, NEW p \in Proc \ stray, Live(p)
      PROVE  state.sup = p /\ (Serving(p) => sock = p)
  <2>1. p \in Proc /\ InHand(p) /\ Reached
    BY <1>1 DEF InHand, Servers
  <2>2. CASE beside
    BY <1>1, <2>1, <2>2 DEF Servers, Lone
  <2>3. CASE ~beside
    BY <1>1, <2>1, <2>3 DEF Servers, Lone, Attended, Reached
  <2> QED BY <2>2, <2>3
<1>2. Servers => NoOrphan
  BY <1>1 DEF NoOrphan
<1> QED BY <1>2, ServersHold, PTL

(* Whatever overlaps, is killed or fails: a start that reports success, which
   asks only who answers and reads only what is on disk, has its own session
   there unless somebody replaced it, and its own supervisor behind the
   socket unless another command acted beside it or a stray answers (Start,
   Health). *)
THEOREM StartReportsItsOwn == Spec => StartIsMine
<1>1. ASSUME Types, Servers, Known, NEW c \in Cmd, StartSucceeds(c)
      PROVE  /\ c \notin misled => state.owner = cmd[c].by
             /\ ~beside /\ Answering \notin stray => Answering = cmd[c].target
  <2>1. cmd[c].op = "start" /\ cmd[c].pc = "wait" /\ Answering # 0
    BY <1>1 DEF StartSucceeds, Healthy, Reachable
  <2>2. c \notin misled => state.owner = cmd[c].by
    BY <1>1, <2>1 DEF Known, Knows, StartKnows, Toward
  <2>3. Answering = sock /\ sock # 0 /\ Serving(sock)
    BY <2>1 DEF Answering
  <2>4. sock \in Proc
    BY <1>1, <2>3, BoundsAssumption DEF Types, TypeOK, Proc
  <2>5. ASSUME ~beside, sock \notin stray PROVE sock = cmd[c].target
    <3>1. InHand(sock) /\ Acts(cmd[c])
      BY <2>1, <2>3, <2>4, <2>5, ServingLives DEF InHand, Acts
    <3>2. At(cmd[c], sock)
      BY <1>1, <2>4, <2>5, <3>1 DEF Servers, Lone, Attended
    <3> QED BY <2>1, <3>2 DEF At
  <2> QED BY <2>2, <2>3, <2>5
<1>2. Types /\ Servers /\ Known =>
        \A c \in Cmd :
          StartSucceeds(c) =>
            /\ c \notin misled => state.owner = cmd[c].by
            /\ ~beside /\ Answering \notin stray => Answering = cmd[c].target
  BY <1>1
<1>3. Types /\ Known /\ [Next]_vars => Types' /\ Known'
  BY TypesStep, KnownStep
<1> QED BY <1>2, <1>3, TypesInit, KnownInit, ServersHold, PTL DEF Spec, StartIsMine
=============================================================================
