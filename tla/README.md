# A TLA+ verification of chatta

chatta gives coding agents an IRC presence.  Each agent has a *client home*, a
directory with its files, and a resident *supervisor* process that holds the IRC
connection for it.  Short-lived commands (`session start`, `channel join`,
`inbox read`, ...) read and write the files of the home and talk to the
supervisor over a Unix control socket.  Optionally the supervisor delivers
incoming messages to a Codex thread through a local Codex app server.

The modules of this directory model that system, TLC checks them on small
instances, and TLAPS proves every safety property that the passing runs check for all
instances and all behaviours.
`PROJECT.json` maps every definition to the lines of `src/` that it
translates, lists the runs, the mutants that show that each property can fail,
the hazards, the findings and the theorems.

## 1. The system

| Component | Code | State | Operations | Talks to |
|---|---|---|---|---|
| Session lifecycle | `services/session.go`, `health.go`, `fleet.go`, `dal/process_posix.go`, `owner_posix.go`, `state.go` | `state.json`, the lock file, the control socket path, the supervisor processes | session start, stop, Ensure (in front of almost every command), client list and gc, the supervisor's loop | everything below runs in the supervisor it manages |
| IRC connection | `dal/irc/conn.go` | the socket, the table of pending requests, the confirmed channels | Dial, Join, Part, Names, Privmsg, PrivmsgDM, the read loop, Close | the IRC server; the control handlers; the store (OnMessage) |
| Channel membership | `services/channel.go`, `dal/channel.go`, the handler of `session.go` | `Channels` in `state.json` | channel join, leave, members; the rejoin after a reconnection | control socket, IRC connection |
| Message store and inbox | `dal/store.go`, `tail.go`, `state.go`, `services/message.go` | `messages.jsonl`, one cursor file per agent session | append, inbox read (PollMessages), inbox watch | supervisor's OnMessage; Ensure and status, from the watcher |
| Message sending | `services/message.go` | none | message send, message direct | control socket |
| Codex delivery | `services/codex.go`, `codex_binding.go`, `codex_app_client.go`, `dal/codex.go` | `codex-binding.json`, `bindingMu`, a lock file per thread, the worker's copy of the binding | bind, bind --if-needed, unbind, status; the worker's loop; Deliver | the store (third reader), the app server, other supervisors of the same thread |
| Codex app-server service | `services/codex_service.go` | `service.json`, the service's lock and socket, the server process | service ensure | the operating system, the app server |
| Control socket | `daemon/*.go` | a listener | Request, Serve | commands and supervisor |
| IRC line syntax, configuration, paths, command line | `dal/irc/message.go`, `config`, `dal/paths.go`, `cmd/chatta` | none that changes | parsing and formatting | - |

What makes it hard:

* commands take no locks on `state.json` or on the cursors; they read a record,
  do something slow, and write the whole record back;
* one supervisor per home is enforced by a lock *file* that some commands unlink,
  and the control socket path leads to whoever listened last;
* SKILL.md has every agent keep an `inbox watch` in the background, which calls Ensure every
  30 seconds beside whatever other command runs;
* whether a process lives is asked of `ps` and `kill`, which may fail or time out;
* replies of the IRC server name a channel or a nick, not the request they answer,
  and requests time out while their answers are on the way;
* the delivery worker works through a batch with a copy of the binding, while
  bind, unbind and replay rewrite the binding, supervisors crash and restart, and
  the app server may do what it was told and lose the answer;
* links drop at any point, and the supervisor and the watcher must recover by
  themselves;
* every command is a process that may be killed between any two of its steps, and what
  it asked for goes on without it.

What makes each component correct:

* lifecycle: at most one serving supervisor and none that no command can reach, but for
  those that a kill, a failed query or an overlap of commands put out of hand; a start that
  reports its own session; a live owner's session left alone by whoever sees the owner
  alive; no supervisor, in hand or not, that outlives its owners;
* connection and channels: an outcome is reported to the request it belongs to, unless an
  answer about the same target was already under way; at rest the roster, the connection
  and the server agree, but for channels two commands disputed or one left half done; the
  home channel is kept; a lost link leads back to dialling;
* store and inbox: no reader skips a message that nobody returned; a watcher and a
  poll together leave no gap; an interruption of the link is announced;
* sending: what the peer hears of a text is in order, unchanged and without unexplained
  gaps, and all of it when the send succeeded;
* app-server service: one server per home and a recorded one left alone while it lives, as
  far as `ps` tells the truth; a report that is true; a lock that is held no longer than a
  `ps` hangs;
* delivery: nothing addressed to the session is passed over, the order of the log is
  kept, duplicates cost a fault each, no request goes out for a binding that is no
  longer in force, and a failure is visible.

## 2. Modules

| Module | Models | Lines |
|---|---|---|
| `CodexDelivery` | the worker, the binding, bind and unbind, the app server's answers, restarts | one supervisor in full, the others as holders of the thread lock |
| `AtLeastOnceQueue` | abstract specification: what delivery promises | implemented by `CodexDelivery` (`Promise`) |
| `SessionLifecycle` | start, stop, Ensure, gc, supervisor loop, owners | several commands, several processes of one home |
| `IrcConnection` | one `irc.Conn` and what the server does | extended by `ChannelMembership` |
| `ChannelMembership` | commands, control handlers and the supervisor around the connection | composes with `IrcConnection` |
| `Inbox` | the store, polls, the file side of watch | |
| `LinkNotices` | how watch learns of an interruption | the other side of the same loop |
| `CodexService` | EnsureCodexAppServer, its lock, record and socket, and the server processes | several callers, several servers of one home |
| `MessageSending` | Send and DM: splitting, requests, handlers, the line, the link, the peer's parser | several commands, one connection |
| `CodexDeliveryProofs`, `SessionLifecycleProofs`, `InboxProofs`, `LinkNoticesProofs`, `CodexServiceProofs`, `MessageSendingProofs` | the proofs about the module of that name | |
| `ChannelTypesProofs`, `ChannelMembershipProofs` | the proofs about `ChannelMembership` and `IrcConnection`; the second builds on the first | |
| `MC*` | instances for TLC | |

An action is one uninterrupted step of the code: between two actions another
process, goroutine or party may act.  Where the code holds a mutex over several
statements they are one action (`authorizeCodexDispatch` checks the binding and
writes the request: `Dispatch`); where it does not, they are several (`Start` is
`StartBegins`, `StartSaves`, `StartSpawns`, `StartRecords`, `StartSucceeds` or one
of its failures).  A name that begins as another one does and says what is wrong
(`ReadEndSkipsBad`, `SaveAckCopyOnly`, ...), usually marked "Slip", is a mutated form
that only the mutants use; no specification contains it.

**CodexDelivery.**  `log` is `messages.jsonl`, a sequence of the *kinds* of records
the delivery filter distinguishes; a byte offset is the number of records before it.
`file` is the binding on disk, `w` the copy the worker keeps for a batch, `pc` where
the worker's loop is, `lock` the flock of the thread, `probe` the bind that holds
`bindingMu` while it asks the app server about the thread.  `MuFree` guards every step
that takes the mutex.  `accepted` and `late` are the app server's side: how often
it took a record for the binding in force, and requests whose sender gave up.  A bind
resets them because a binding starts a new count.  `faults` bounds crashes, lost
answers, ambiguous errors and failed saves.

**SessionLifecycle.**  `state`, `lock`, `sock` are the files (`lock` is an inode, so
that a process may hold the lock of a file that was unlinked), `proc` the supervisor
processes with their place in `supervise`, `cmd` the commands with their place and
the record they loaded.  `Go`, `Begin`, `Stopping` are the ways a command continues.
`OpensLock` and `LockHome` are apart, since the file may be unlinked between open and
flock, and so are the two removes of `discardSession`.  Any number of commands act at once,
each may be killed at any of its places (`Killed`), and a process query may fail (`Fault`
counts it): a live owner is seen as dead (`Misses`), the start time of a new supervisor cannot
be read (`StartLosesProcess`, `EnsureLosesProcess`).  Three history variables say what that
did to the home.  `beside`: the last command to act began while another one acted.  `misled`:
the commands whose view of the owner is out of date or wrong, since a query failed or another
command replaced the record after they read it.  `stray`: the supervisors out of hand, that
is lost from sight by the command that started them, left by a kill before they were
recorded, alive while two commands act together, or displaced from the control socket by
another stray.

**IrcConnection and ChannelMembership.**  `pending` is the table of `Conn`, filed
under kind and target as in the code; `req` what each goroutine waits for, with
`truth`, what the server decided about that very request.  `inbound` holds the lines
the server sent; the server decides when a request reaches it.  `member` is
the server's view, `channels` the connection's, `roster` the record's.  `cmd[c].base`
is the record a command read before its round trip.  Commands overlap each other and the
rejoin, about the same channel or different ones; any of them may take arbitrarily long
between two steps, and any request may be given up before or after its answer.  A command that is
killed leaves its handler to go on (`Killed`).  What is written to a dead link may be lost
without notice (`Sends`), or the write fails and the request with it (`SendFails`), which for a
direct message is reported as an absent target.  Four history variables serve the
properties.  `req[w].fresh`: no line about the target was under way when the request was sent.
`crossed`: channels parted before the echo of their join had come.  `sure`: commands that
have been alone with their channel since they began, so that what they find is
theirs.  `doubtful`: channels whose last command was not alone with it or did not end well,
that a save of another record undid, or that the rejoin asked for after they had been
parted; the next command that is alone with the channel and ends well, or the next load of the record,
takes it out.

**Inbox and LinkNotices.**  A position is a line of the file.  `taken`, `emitted`,
`covered` and `owed` are history: what was returned, what was written out, which
invokers polled since the watch began, and which interruption is not announced yet.

**CodexService.**  A server is a process with its identity (process ID and start time)
and the account its answers name.  `lock` is who holds the flock, `record` the file
`service.json`, `socket` the path, whose listener it leads to and whether its mode is private;
a server binds it, hangs, resumes and dies on its own.  A call runs from `Locks` to `End`:
probe, check of the record, removal of a stale socket, start, polls, the record, and the
deferred stop of a server that did not come up.  Every `ps` may fail, which the code
takes for a process that is gone (`processMatches`, `codex_service.go:432,436`): `NotOwned`,
`RemovesStaleSocket`, `FindsExit` and the stop may go that way although the server
lives, for one of the `faults`.  `abandoned` is history: servers that a caller lost sight of,
because it was killed, could not read their start time, or was told by `ps` that they are gone.

**MessageSending.**  A text is a sequence of classes of runes with the bytes they take, so
that the split at the limit, blank lines, the leading colon and the parser's treatment of
spaces are what the code does.  `asked` holds the control requests with their handlers, which
outlive the command that asked; `wire` the lines the server has not taken yet, `got` what
the peer's callback received, `lost` which texts the link or the server lost a piece of.

## 3. Checks

| Run | Instance | Distinct states | Shows |
|---|---|---|---|
| `delivery_safety` | 2 sessions, one route with mentions, 4 kinds of records, 2 records, 2 bindings, 2 faults | 1.2 million | the ten safety properties of delivery and that it implements the queue |
| `delivery_live` | 1 session, 2 records, 2 bindings, 1 fault | | pending records are delivered or their failure is visible |
| `session_overlap` | 2 owners, 2 commands at a time, killed anywhere, 3 processes | 952 000 | which supervisors get out of hand; the others keep lock, record and socket; truthful start, live owners kept |
| `session_live` | 2 owners, 1 command at a time, 2 commands killed anywhere, 2 processes, 2 nicks, 1 crash or failed query | 556 000 | no orphan, with faults and refused nicks too, and no supervisor outlives its owners |
| `session_gc_race` | 2 commands at a time | | finding |
| `channels_all` | 2 channels, 1 nick, 2 commands or kills that overlap anything, member lists of 2 lines, 1 dropped link | 1.59 million | answers belong to their requests, record, connection and server agree, the home channel is kept |
| `channels_live` | 2 channels, 1 command, 2 dropped links | 79 000 | the supervisor recovers |
| `channels_early_drop` | a link that drops before the callbacks are set | | finding |
| `inbox_readers` | 2 invokers, 2 polls at a time, 3 polls, 2 messages, 2 watches | 342 000 | nothing is skipped, no gap, the watcher emits |
| `link_notices_same` | 5 connections, 2 replacements, 2 watches | 4 800 | an interruption the same supervisor repaired is announced |
| `codex_service` | 2 callers, 2 accounts, 3 servers, 3 calls, 2 faults (kills, failed queries, late probes) | 561 000 | one server, recorded ones kept, true reports, a lock that is freed |
| `message_sends` | 2 commands, one with every text of up to 3 runes, pieces of 3 bytes, 2 faults | 1.65 million | pieces in order and unchanged, whole texts |

Why the bounds are enough to be interesting: two records are what it takes for an
order, a batch that ends in the middle, and a record that holds back another; two
bindings are what it takes for a stale copy, a rebind in the middle of a delivery and
a late request of a replaced binding; two faults for a crash after a lost answer.
Two commands of two owners at a time are the least that overlap, and in sequence they let a
home be started, then taken over, recovered, stopped or collected by the other owner or its
own, with a second supervisor beside or after the first.  Two polls of one invoker can save in the wrong order, and the third replays.
Two commands beside the supervisor's rejoin of two channels give three that ask about one
channel at a time, and a command that is killed with one link that drops at any point;
lists of two lines are the least that can be returned in part.  Three servers are one that was recorded, one that replaces it, and one of the
caller that waited; two accounts make a report of the wrong one visible.  A piece of
three bytes holds one wide rune or three narrow ones, so that three runes reach every case of the
split: full to the last byte, a rune that does not fit, a blank line between two, a
leading colon, spaces at the edges; the second command's text always has two lines to
interleave.  Every action of every next-state relation occurs in some passing run.

No run restricts which commands overlap, where they are killed or how long they take.
What the code does not promise then is in the properties, as an exception that names the
cause: a supervisor in `stray`, a command in `misled`, a channel in `doubtful` or `crossed`, a
request that is not `fresh`, a server in `abandoned`.  Each exception is as narrow as the
code allows: without it TLC finds the property violated by the code (section 5).  The background
watch, for instance, costs nothing as long as its Ensure finds the supervisor healthy: it then
waits and does not act (`Acts`), so a start beside it is covered like one that is alone.

Deadlock is checked in the delivery runs.  The others stop when their bounded
supply of commands, messages or connections is used up, which is no deadlock of the
program, and switch the check off.

### Properties

* Delivery: `NoLoss`, `PoisonHolds`, `InOrder`, `BoundedCopies`, `CursorMonotone`,
  `DispatchIsHead`, `NoStartWhileFlagged`, `ReuseIsTruthful`, `Promise`; live:
  `PendingIsDelivered`, `FailureIsVisible`.
* Lifecycle: `OneServer`, `NoOrphan`, `StartIsMine`, `LiveOwnerKept`; live:
  `NoneOutlivesOwners`; violated: `GcSparesLiveOwners`.
* Channels: `JoinConfirmed`, `NamesWhole`, `RejectionMine`, `RosterIsMembership`,
  `StatusIsMembership`, `HomeHeld`; live: `Recovers`; violated: `RecoversAlways`.
* Inbox: `NothingSkipped`, `GapCovered`; live: `WatchEmits`.
* Notices: `LinkLossAnnounced`.
* Service: `OneServer`, `RecordedKept`, `ReportTrue`; live: `LockIsFreed`.
* Sending: `ReceivedInOrder`, `TextsAreWhole`.

Every module states its properties, in words and in TLA+, at its end.  The types
carry some content where they can: no cursor, batch or request leaves the log
(`CodexDelivery`), a request is resolved at most once (`IrcConnection`; resolving
twice would close a Go channel twice).

### Fairness

* Delivery.  The worker is a goroutine with a two-second ticker and all its calls
  have deadlines: weak fairness of its steps.  `bindingMu` and the flock are handed to
  waiters by Go's mutex and by the kernel, so a worker that finds them free again and
  again gets them: strong fairness of the steps that take them.  `PendingIsDelivered`
  also assumes, in its own statement, that the app server neither refuses for ever nor
  keeps the thread unloaded for ever; `FailureIsVisible` assumes nothing of it.
* Lifecycle.  The supervisor's loop and its ticker run by themselves and a dial has a
  deadline.  Nothing is assumed of commands: an orphan must end without their help.
* Channels.  The read loop, the supervisor's loop, the waits, which have deadlines, and
  the handlers.  Nothing is assumed of the server, which may freeze.
* Inbox.  The watcher's one-second ticker.
* Service.  The flock wait, the probes, the query for a start time and `codex --version` have
  deadlines: weak fairness.  A start stops polling at its deadline, whatever the polls before
  it found: strong fairness of `TimesOut`.  The `ps` of `processMatches` has no deadline
  (`codex_service.go:435`, against the bound that `process_posix.go:40-42` puts on the one of the
  session), so the steps that wait for it have no fairness: a call may stay there for
  ever with the lock in its hand.  `LockIsFreed` says so in its premise, that no call
  stays at its queries for ever, and follows from the rest.  Nothing is assumed of the server,
  and a call may be killed at any step.

## 4. Proofs

The theorems hold for every value of the constants, under the assumptions named in the
modules: bounds are natural numbers, routes and kinds are of their sets, `NoInvoker` is
no invoker.  No theorem has another hypothesis: each is about `Spec`, with all its overlaps,
kills, failed queries and drops.  Where the code does not keep a promise in all of them, the
property says what is excepted, in terms of what happened and not of what may happen.

**CodexDeliveryProofs** proves all of `delivery_safety`: `TypeCorrect`, `NothingLost`,
`PoisonAlwaysHolds`, `DeliveredInOrder`, `CursorNeverBack`, `DispatchAlwaysHead`,
`NoStartOverFailure`, `ReuseAlwaysTruthful`, `CopiesBounded`, and `DeliveryIsQueue`,
that the detailed specification implements `AtLeastOnceQueue`.  `NoLoss` is not
inductive: that the cursor only passes what was accepted depends on the worker's copy, its
batch and the pending request.  `IInv` strengthens it by `CopyInv` (the copy is never of
a later binding than the file; of the same binding it agrees on the route and, while in
use, on the cursor), `BatchInv` (the batch decodes; what is being delivered is wanted),
`PendingInv` (a positive answer is one to the record the worker is at) and `CountInv`
(whatever was or may yet be accepted has every earlier wanted record accepted).  Three
further invariants are proved on top of it: `FlagInv` for the no-start flag, `ReuseInv` for
the reuse, `CopiesInv` for the number of copies, which counts a request on its way and a
late one as copies already.  The refinement then needs no new invariant: a save of
progress is `Advance`, an acceptance `Accept`, a bind `Subscribe`, an append `Publish`,
and every other step a stutter.

**InboxProofs** proves `InboxTypes`, `NeverSkipped` and `GapAlwaysCovered`.
`NothingSkipped` needs `PollInv`: what lies before the offset a poll *started* from has
been returned to its invoker; then the order of the saves does not matter.
`GapCovered` needs `GapInv`: a poll that began under this watch and has read reaches
at least as far as the watcher, up to what the watcher itself emitted.

**LinkNoticesProofs** proves `NoticesTypes` and `LossAnnounced`.  The invariant
`Remembers` says that a lost link that is live again has a greater generation than the
watcher remembers, unless the process was replaced; `Asked` that this survives the
moment between the two reads of the status.

**CodexServiceProofs** proves `ServiceTypes`, `AtMostOneServer`, `RecordedUntouched` and
`ReportsTruth`, with a `ps` that may be wrong wherever it is asked.  The inductive invariant
adds to the types, which say at which places a caller holds the lock, that a caller knows of a
server it started exactly until it gives the lock back (`Held`), that what is recorded or
started was a process once (`Born`), that past the decision to start one the recorded server
is dead or abandoned (`Clear`), that the socket is removed after the server (`Dead`), and
that what answered is what is reported (`Met`).  `AbandonedGrows` makes one query that failed
an exception for good.

**SessionLifecycleProofs** proves `SessionTypes`, `OwnersKeepSessions`, `HomeHasOneServer`,
`HomeHasNoOrphan` and `StartReportsItsOwn`.  `Types` bounds the processes by the lock files they
created and the attempts that a start has left.  `OwnersKeepSessions` follows from `Known`: what
a command that is not misled found out about the owner of the session is still so at each
of its later places, however other commands interleave (`Spares`).  The other three follow from
`Servers`, an invariant about the supervisors in hand (`InHand`: alive and not stray).
`Excluded`: one inode is locked by one process.  `LockKept`: the lock file of a supervisor in hand
is the one on disk, so it keeps others out.  `Reached`: if it serves, the control socket
leads to it.  `Lone`: while commands act beside each other none is in hand; otherwise a
supervisor in hand is the recorded one, or the one that the command which acts is about
to stop, record or wait for (`Attended`).  So wherever a command saves, spawns or removes
files, no supervisor in hand lives, and what it stops is what is recorded.

**ChannelTypesProofs** proves `ChannelTypes` and `HomeIsHeld`.  A request that is filed waits for
this connection, so it is resolved once; and no command or supervisor holds a copy of
the record without the home channel.

**ChannelMembershipProofs** proves `JoinsAreConfirmed`, `NamesAreWhole`, `RejectionsAreOwn`,
`StatusIsTrue` and `RosterIsTrue`.  `Effects` sorts every step by what it does to the
connection: nothing, a line handled, a dial, a request, a part, or an end of a wait.  On that rest
four layers.  `Answering` is about one request that was fresh and is still where it was
filed: among the lines to come, its own answer is the first that could resolve it (`Coming`: the
refusal of a join, the rest of a member list directly before its end, the rejection of a
message), and once resolved the outcome is that answer (`Settled`).  Others may take its place
or ask beside it; their answers come later.  `Echo`: the connection's channels are the
server's, but for joins whose echo is on the way, and for `crossed`.  `Records` is about the
record: a join or part that is still sure of its channel knows what the server knows
(`Knows`), the supervisor rejoins exactly what it loaded (`Dialled`), and a channel that is not
in doubt either has a command or a rejoin under way or agrees (`Recorded`: `BusyBy` or `Right`).
At rest nothing is under way, which gives `RosterIsTrue`.

**MessageSendingProofs** proves `PiecesInOrder` and `TextsArriveWhole` for
every text, limit, number of commands and losses.  It has three parts.

*The order.*  A mark is a piece that the peer has, or that is on the wire.  `OneRequest`: a
command has at most one request, for the piece it is at, and none once it goes on.  `Behind`:
marks of a text are behind the piece that may still be asked for or written, also by a handler
that outlives its command.  `Complete`: unless a command gave up or something was lost, every
piece it is past has a mark.  From these a new mark keeps the order (`Increasing`)
and leaves no gap (`Gapless`).

*The text.*  `SplitAt`, `Put`, `splitUTF8`, `Fields`, `Said`, `HeardOf` and `Size` are
folds, and the prover has no induction rule to instantiate for them.  The proof does without:
`Numbers` and `Sequencing` are induction with a *set* for the parameter (from the theorem that
the order of the numbers is well-founded), `Iterates` builds the function that `FoldLeft`
chooses, and `Chosen` reads the value off it one element at a time.  Each fold then has a
lemma that says what it makes of one more element (`SplitFacts`, `FilledFacts`,
`PiecesFacts`, ...), and three results follow by induction over texts.  `SaidIsSplit`: the pieces put
together are the runes of the lines that are not blank, and each fits; its invariant, `Ending`,
follows where the last line starts, and that everything before it is told.  `HeardIsText`:
`ParseLine` finds in the line of a text that text, with a trailing parameter
(`TrailingParsed`, which finds the first " :" in front of whatever the text holds) and without
one (`PlainParsed`, where the text is one word).  `Recited`: pieces heard in order, once and
without a gap are the text.

*The steps.*  `Spelled` adds to the invariant that the parts of a command are those of its
text, that it is at one of them, and that every request, line and mark is a piece of
it; what has begun keeps its text (`TextsStay`).  A send that succeeded is past its last piece,
so by `Complete` the peer has them all, and `Recited` gives `TextsAreWhole`.

Only model-checked: the live properties (`PendingIsDelivered`, `FailureIsVisible`,
`NoneOutlivesOwners`, `Recovers`, `WatchEmits`, `LockIsFreed`); fairness and `ENABLED` are
beyond the prover.

## 5. Findings

Two runs end in a violation, each of something the repository says of itself;
`PROJECT.json` quotes the lines.

1. `session_gc_race`: client gc acts on the verdict of its survey, and stops or
   removes the client of an owner that came to live in between, although `chat.md:66-68` says that
   live owners are protected.
2. `channels_early_drop`: a link that ends before `OnDisconnect` is set is never noticed,
   and the supervisor does not reconnect, although `session.go:589-590` says it does.

Four more disagreements are exceptions that properties of passing runs make; the property fails
without the exception.

3. `req[w].fresh` in `NamesWhole`: every end of a member list resolves whatever request for
   members of the channel is filed (`conn.go:353`), the end that belongs to a JOIN included.  A
   list asked for while the supervisor rejoins the channel is returned in part, although
   `conn.go:212-213` says that replies are collected "until 366".
4. "After a wait" in `RejectionMine` (the request was `waiting`): a direct message whose write
   fails (`conn.go:242-245`) is given the code `no_such_nick` (`session.go:558-559`) and reported
   as one to an absent target (`message.go:95-96`), although nobody asked the server.
5. `Undone` in `doubtful`, for `RosterIsMembership`: a join or part writes back the whole record it
   read before its round trip (`channel.go:33-34`, `55-56`), and undoes what another command saved
   meanwhile; the channel is then not rejoined, although `conventions.md:170-171` says that all
   are.
6. `abandoned` in `RecordedKept` and `OneServer`: `processMatches` takes a `ps` that fails for a
   process that is gone (`codex_service.go:432,436`); at line 133 that removes the socket of
   the recorded server and starts a second one beside it, although line 134 says "refusing to
   start a duplicate".

Further limits that the models show, and that the properties name:

* The generation of an interruption starts again at zero with the supervisor process, so one
  that ended with another process may go unannounced; `LinkLossAnnounced` speaks of the
  same supervisor (`message.go:205`; `message.go:184` promises every interruption).
* After an unclassified steer failure no turn is started from an idle reading
  (`NoStartWhileFlagged`), but a later steer that meets "no active turn" falls back to
  turn/start without looking at the flag (`codex_app_client.go:209`).
* Two starts that overlap can both find the home free; the later save replaces the earlier
  session (`misled` in `LiveOwnerKept`, `StartIsMine`).  Two Ensures, or an Ensure beside a
  start, that find no healthy supervisor each spawn one, and one of the two is left out of hand.  And so is the
  supervisor of a command that is killed between start and record: the next start
  finds the lock taken, gives up, and removes the lock file from under it (`stray` in `OneServer`,
  `NoOrphan`).  Every one of them ends with its owner (`NoneOutlivesOwners`).
* A join that takes another one's answer, or a join and a part of one channel that overlap, leave
  the channel in doubt: record, status and server may differ until the next command about it or
  the next connection (`doubtful`).  A part that overtakes the echo of a join leaves the channel in
  the status (`crossed`).
* A caller of the app-server service killed between the start and the record, or one that `ps`
  told wrongly, leaves a server that later calls report with process ID 0, or refuse because
  the identity of the record does not match; `ReportTrue` speaks of homes without such a server.
* A join that is killed before its save cannot be repeated on the same link: the server does
  not answer the JOIN of a channel one is in, so the repetition times out.  The
  channel's part, or the next connection, sets it right (`RosterIsMembership`).

## 6. Not modelled, and why

* The websocket client's transport and its background completion reader: a request is
  accepted, refused or left unanswered; what follows is not part of any promise.
* KICK, and QUIT of others: the code ignores them, so a client that is kicked
  keeps the channel in its status and record until it reconnects.
* The end of a poll after its save and before its output is read; full disks.
* Of `codex_service.go`: the probe of an endpoint that is given by hand, which only reads, the
  checks of paths, modes and owners of files, and records that cannot be read.
* White space other than the space and the newline: a tab in a piece without a space
  is taken for a separator by `ParseLine`, so such a piece reaches the peer cut.  NormalizeChannel
  and ValidateSession, which are pure.
* Process IDs that are reused, processes that survive SIGKILL, a `state.json` that `session
  start` cannot save, TLS, configuration, rendering, the command line.

## 7. Plan

1. `SharedThread`: two delivery workers and the turns of one Codex thread, with Deliver as
   the detailed module: who steers whose turn.
2. `NormalizeChannel` and `ValidateSession` as pure operators.
