# pi-team-room in TLA+

TLA+ models of pi-team-room, the TLC runs that check them on small instances and
the TLAPS proofs about them for every instance. Each module is translated from
the source; `PROJECT.json` ("map") names the lines each definition stands for.

## The system

Pi sessions on one machine share a room: one JSON file of sessions, messages,
updates and journal entries. Every Pi process loads `extension.ts`; one detached
process per machine runs `network-service.mjs` and exchanges rooms with other
machines; a maintenance command prunes the file; each session also keeps a private
SQLite index of its transcript; a Go viewer reads transcripts and the room.

| Component | State | Operations | Talks to | What makes it correct |
|---|---|---|---|---|
| Room file and lock (`extension.ts` 323-436, `network-service.mjs` 86-150, `state-rules-cli.mjs`) | the file, the `.lock` file and its age | `updateState`, `withState`, `withStateLock`, `--apply` | all writers, through the file system | one writer at a time; what was saved stays; a killed holder does not stop the others |
| Read cache (`extension.ts` 283-321) | `readCache`: content and identity | `readState` | the file | an answer is no older than the call |
| Session record (`extension.ts` 743-835, 1597-1692) | `current`, `writtenRecord`, `lastRecordWriteAt`, the room's copy | register, heartbeat, turn, focus, checkpoint, inbox stamp, shutdown | room transactions | the room ends up with what the session said; closed stays closed |
| Delivery (`extension.ts` 1000-1120) | `deliveredAt`, `readAt`, `locallySent`, `lastAutoWakeAt`, `deliveryInFlight` | the inbox poll, `/team inbox`, the pulse | Pi (`sendMessage`, `isIdle`), room transactions | every message reaches the agent, once, and is stamped only if shown |
| History queue (`extension.ts` 838-1000, `history-worker.mjs`) | queue of one, running flag, worker thread | enqueue, run, message, error, exit, flush | worker thread, index | at most one job at a time; the index catches up; shutdown returns |
| Retention and merging (`state-rules.mjs`, `extension.ts` 330-374) | none: pure | merge by id, prune, budgets | every save | a merge loses nothing newer; bounds hold |
| Network node (`network-service.mjs`) | peers, failures, back-off, leases, port | `syncPeer`, the HTTP handlers, `runSync`, stop | nodes of other machines, the room file | rooms converge; a node serves only while a session lives |
| mDNS | discovered endpoints | found, lost | network node | — |
| History index (`session-history.mjs`) | SQLite tables, indexed prefix | sync, append or rebuild, link tool calls, merge | transcript files | the index is a function of the transcript |
| Viewer: scan (`viewer/scan.go`, `parse.go`) | per file an offset, stat and stability; sessions, calls, wakes | `refresh`, `consume`, `line`, `dropSession` | transcripts being written | the index is the files as far as they were read |
| Viewer: message model (`viewer/build.go`, `group.go`) | bubbles by key, refused sends, feed, threads, chats | `build`, `matchCall`, `matchWakeLoose`, `linkThreads`, `inferTargets`, `buildChats` | index and room file, once per view | each piece of evidence on one bubble; joined just by evidence; each message in one chat |
| Viewer: server (`viewer/server.go`, `state.go`, `main.go`) | base view, generation, loaded room, subscribers' channels | `refreshOnce`, `loadRoomState`, `notify`, `currentView`, `handleEvents` | the scan's store, pages | an answer is no older than what made the page ask; pages catch up |
| Viewer: page (`viewer/ui/index.html`) | mode, filters, stream | ask, listen, connect again | server | — |
| Widget and commands | drawing state | render | everything above | — |

Hard behaviour: processes interleave at every file-system call (no operating-system
lock, only `O_EXCL` and an age); within a process, handlers interleave at every
`await`; processes are killed or suspended holding the lock; worker threads die;
transactions raise; and most of what a handler read before an `await` it uses after it.
`PROJECT.json` ("hazards") lists each such place with the property that covers it.

## Modules

| Module | Models | One step is |
|---|---|---|
| `StateFile` | lock, save, reclaim, node fallback, maintenance rewrite | one file-system call of one process |
| `AtomicRoom` | what the lock should give: each transaction applied at once | one transaction |
| `ReadCache` | `readState` of one process while anyone saves | one file-system call |
| `MessageDelivery` | poll, wakes, inbox, pulse and stamps of one session | the code between two awaits |
| `SessionRecord` | the session's own record, in its process and in the room | the code between two awaits |
| `NetworkSync` | the rooms of several machines, the nodes' exchanges, pruning and merging | one room transaction, or one end of a request |
| `HistoryQueue` | queue, debounce, worker thread, inline fallback, flush | one handler, or one thread's step |
| `TranscriptScan` | the viewer's incremental index while Pi writes, replaces and deletes transcripts | one line read, one stat, or one write of a file |
| `ViewerServer` | the viewer's poll, base view, announcements, event stream and regrouping handler | one stretch under a lock, or one unlocked read |
| `RoomMerge` | how records, calls and wakes become bubbles | one call, or one message of one wake |
| `RoomChats` | threads, inferred recipients and chats of those bubbles (extends `RoomMerge`) | one pass over the bubbles, or the joining of two sets |
| `MC...` | definitions the configurations need | |
| `...Proofs` | theorems | |

The modules compose by assume and guarantee rather than by one product: `StateFile`
shows that a covered transaction is one atomic step which may raise, and
`MessageDelivery` and `SessionRecord` take a room transaction to be exactly that.
`NetworkSync` takes the same step for each machine's room. `AtomicRoom` is the
interface between them; `lock_room` checks the refinement. Likewise in the viewer:
`TranscriptScan` shows what the index holds after a refresh; `ViewerServer` takes a
refresh to be one step (it holds the store's lock) that brings the index to the files,
but for what could not be listed or read; and `RoomMerge` and `RoomChats` are the pure function that both of its ways
to make a view apply to such an index.

How state and actions match the code:

- **StateFile.** `lockOwner`/`lockStale` are the lock file and whether its mtime is
  older than `LOCK_STALE_MS`; `attempt` is the loop counter of `withState`; labels are
  the next call (`create` is `open(..., "wx")`, `stat`, `unlink`, `load`, `merge`,
  `save` is the rename, `release`). A node that runs out of attempts goes to
  `blindLoad`/`blindSave`, the code's unlocked fallback. Rooms are reduced to a
  version per writer, which is what `mergeById` compares. `faults` records the three
  things the lock does not cover: a reclaimed lock whose holder lives, a node's
  fallback, the maintenance command. Properties that need the cover say so.
- **ReadCache.** A save renames a new inode into place, so a file is its version.
  Inode numbers used again by the file system are left out.
- **MessageDelivery.** Messages are numbered by `createdAt`; `sentPos` is the
  insertion order of `locallySent`, which is trimmed; `inGap` is the `WAKE_MIN_GAP_MS`
  test against `lastAutoWakeAt`, and `recentWake` (history) the time since the wake
  itself. `readState` may answer with the file or with `tornRoom`, an older room that a
  save left in the cache under the file's identity: what `ReadCache` finds (`torn`), until
  the next save. A save is `Heartbeat` if it is none of the messages' business.
  `markRead` loads the room itself, so `InboxMark` stamps the file as it is; the list is
  returned, or shown, only after that await (`InboxShow`), and a process that ends between
  the two has stamped what it will not show (`lost`). `Drop` is retention. `Crash` and
  `Resume` are a session closing and being continued. In which way Pi presents a
  wake (a turn started, steered or queued) is left out, and with it `isIdle`.
- **SessionRecord.** `file` is the room's copy, `rec[c]` what a call captured before
  its await. `/team focus`, `saveCheckpoint` and `markRead` patch the room with
  `current` as it is when the transaction runs (`Patch`), `writeSessionRecord` with
  the record it was given (`Register`, `WriteLands`). Whether a name, branch or path
  changed is an input (`news`). The record's two stamps are kept as one, the later.
- **NetworkSync.** `Fetch`, `MergeIn` and `Post` are the three awaits of `syncPeer`,
  and `held` what the sync carries from one to the next. `GiveUp` is the request's
  timeout or failure; the post it gave up on may still be served (`ServeLate`). A
  message is its `createdAt` and whether it bears a stamp, a session record its
  `updatedAt` and one optional field. `Prune` has the three rules for messages;
  whether texts fit the budget is the constant `Fits`, of which only that a part of
  what fits also fits is assumed (the configuration gives it sizes and a sum). The
  machines' clocks agree, two messages are never sent at the same instant, and
  sessions are young enough to be kept.
- **TranscriptScan.** A file is which text it was last given, how many whole lines of
  it are there and whether half a line follows, which is also its size and mtime:
  a rewrite that leaves both as they were is left out. Sizes and offsets count half
  lines. An entry is its kind and the call it belongs to; an indexed item names the
  lines it was made of, so that a line read twice or a result with another text's
  call shows. A file does not move to another path. A read fails in two ways. If
  the file does not open, or the error comes between two lines (`CannotRead`), `consume`
  returns it: the offset and the stat stay behind, and what was taken by then is taken
  once more. If it comes inside a line (`CutShort`), `ReadBytes` returns the piece with
  the error and `consume` takes it for a line still being written: offset and stat are
  remembered, and the rest is not read until the file changes. A directory that is not
  listed (`CannotLook`) takes its files out of the index. `faults` records, until
  the file is rewritten or gone, what the contents of the index do not survive (`Mistakes`:
  a half line that was trusted, a rewrite not shorter than the offset, lines read twice)
  and, until the file changes, a reading that was cut short.
- **ViewerServer.** Transcripts and room file are version numbers, a view is the
  versions it was made from, a channel a sequence of views. `RefreshFails` is the failing
  steps of `TranscriptScan` seen from here: the index may shrink by a directory that
  was not listed (`losses` counts those refreshes), what was not read is read again
  later (`owed`), and what lies behind a reading that was cut short is out of `reach`
  until its file changes. `Silent` are the changes
  that only delete transcripts, which `refresh` does not report; the run has none, the
  proofs any. `handleChats` stands
  for the handlers, all of which begin with `currentView`; a page shows the answer to
  its newest request. `TakeBase` and `FirstFrame` wait for the poll, which holds
  `s.mu`; `ReadSessions`, `ReadCalls`, `ReadWakes` and the unlocked `ReadState` do not.
- **RoomMerge, RoomChats.** `said` is what really happened (`sends`, `wakes`) and what
  is left of it: `kept` in the room, `quoted` in a confirmation, `indexed` sessions,
  `named` wakes. A bubble carries `evidence`, the pieces merged into it, which the
  program has only as `Sources`. The steps of one `build` are taken one at a time, so
  that the invariants see it half done, and where Go ranges over a map any order
  is taken. `forest` is `unionFind` (`group.go`), used for the threads and again for
  the chats; `links` are the pairs still to be joined, in any order. `stage` is how far
  a build is. A send is its number and so its id; texts are values, of which
  `LongTexts` are those a wake's body can prove (`build.go` 701); the label of a session
  and what a typed name may mean are constants. Bubbles get their keys in `ds.keys`:
  what a later `put` overwrites is no longer shown. A broadcast without a text is not on
  the feed.
- **HistoryQueue.** Transcript and index are lengths; a job carries paths only, so a
  queue is a flag, and a thread's `snap` is the file when it read it.

## Runs

All numbers are distinct states with the bounds in the `.cfg`.

| Run | Shows | Bounds |
|---|---|---|
| `lock_protocol` | types, mutual exclusion and no lost save while none of the three faults has happened, and a lock file always has an owner | two sessions, a node, a tool; one update each; kills, a suspended holder, failing saves (2.7M) |
| `lock_room` | covered transactions implement `AtomicRoom`; every session that is not killed saves, although a killed one may leave its lock | two sessions, three updates (8k) |
| `delivery` | a process never wakes twice for a message `locallySent` holds; what is stamped was shown, but for what an inbox action stamps after an answer that was too old or without living to show it; wakes are spaced | two messages, caps of one, a torn cache, one crash (243k) |
| `delivery_liveness` | every message that stays in the room is delivered | a done signal and a message, a torn cache, one crash (71k) |
| `read_cache` | answers are as fresh as the call, unless the cached content was torn by a save between load and stat | three overlapping calls, four saves |
| `history` | the index never shrinks, it catches up, a flush that ends in time has indexed everything, a flush always returns | three entries, two threads, two worker errors, one timeout |
| `session_record` | the room agrees with the session when nothing is under way or lost; closed stays closed; pinned stays pinned | two calls at once, four calls in all over two processes, three clock values (1.5M) |
| `network_sync` | nobody is ahead of a session's own machine; no stamp and no newer record is lost to a stale snapshot; the rooms agree in the end | two machines, one of which syncs the other; four instants at which messages are sent or not; age 2, two messages, a budget that one large message fills; one late post (91k) |
| `transcript_scan` | the index of a file is its text as far as it was read, each line once and each result with its own call; nothing stays of a file that is gone; a file whose last line is whole comes to be indexed, unless its last reading was cut short | two files, one with another id in its header than in its name and one with none; two texts; one mishap: a half line, a read that fails before, between or inside lines, or a directory that is not listed (414k) |
| `viewer_server` | no answer is older than the frame it was asked for nor than its label, except for a directory that a refresh took out of the index; once the files are quiet, the page holds what can be read of them | one page, a channel of one frame, two changes of the transcripts, one save of the room, one mishap: a broken stream, a failed stat or load of the room, or a refresh that drops a directory, cannot read a file or cuts one short (701k) |
| `room_view` | every record, call and wake is on exactly one bubble; what quotes an id is on its record; threads and chats join just what a chain of evidence joins; ids of chats are unique; session fields hold sessions | 44,426 starting points: histories of two and three sends between three actors (one of them with two sessions), resent, refused, answered, late, in one entry or after long pauses; woken alone, together, twice, or a second time in a batch with a new one; with every choice of what the room keeps (178k) |

One run finds what a comment says to be false of the code (`PROJECT.json`,
"findings"): in `reclaim_race`, two sessions both saw a stale lock; the slower one
unlinks the faster one's new lock, and two sessions write. `stat` and `unlink` are two
calls.

Why the bounds are enough: every race here is between two actors over one datum, with
a third to have left it in a bad state; the configurations have those. Retry counts of
2 or 3 stand for 40 and 80 because a run of attempts differs from a shorter one only in
length; caps of 1 make `locallySent` overflow at once; two processes of a session are
one restart. In `network_sync` a message can age out, be one too many, and be too
long. The scan needs two files (one that renames its session) and two texts for a
rewrite to mix with; the server needs a channel that one unread frame fills, and a second change after a
failure. Its mishaps come one at a time. `room_view` has three sends because two
compete for a piece and a third answers one of them; its times are in units of ten
seconds and its windows those of the code (20 s for a call is 2, ninety minutes between
episodes is 540), so that each history lies on a chosen side of each window.
`MaxMishaps`, `MaxTree`, `MaxRoom`, `MaxClock`, `MaxBeats`, `MaxLate`, `MaxBegun`, `MaxTime`, `MaxRuns`, `MaxUpdates`,
`MaxVersion`, `MaxEntries`, `MaxErrors`, `MaxTimeouts` and `MaxCrashes` only stop
counters, which is why runs that end there set `CHECK_DEADLOCK FALSE`.

### Fairness

- `lock_room`: weak fairness of each live process's own steps (an operating system
  runs them) and of the lock growing old (time passes). No node takes part: with no
  clock, a node that syncs for ever could hold the lock at every attempt.
- `delivery_liveness`: weak fairness of the poll (an interval timer) of the gap's
  end, and of the saves of the presence clock (every `HEARTBEAT_MS`), which end a torn
  cache; a closed session is resumed; strong fairness of sending and of the done stamp,
  since neither Pi nor the disk fails for ever.
- `network_sync`: weak fairness of beginning a sync (the interval timer) and strong
  fairness of its merge and its post: a peer that answers again and again is not cut
  off at the same request every time. Without it nothing could converge.
- `transcript_scan`: weak fairness of the poll, which a ticker starts for as long as
  the program runs. None of the writers; half lines and failing reads are bounded.
- `viewer_server`: weak fairness of the poll, strong fairness of each page's stream and
  of its handler: both wait for `s.mu`, which polls take again and again, and Go's
  mutex hands itself to a waiter that has starved for a millisecond. None of the
  disk's changes, failures or breaks, which are bounded.
- `history`: weak fairness of the debounce timer, the threads and their events (the
  event loop runs). None of the flush timeout: nothing but the queue ends a flush.

## Proofs

For every value of the constants, from the `ASSUME` of each module (which the
passing runs evaluate):

- **StateFileProofs**: types, `Exclusion`, `CommittedKept`, `AtomicWhileCovered`,
  `LockHasOwner`, and the refinement `ImplementsAtomicRoom`. Exclusion alone is not inductive. `Covered` says, as long as no
  fault has happened: being inside a transaction and owning the lock file are the
  same; nobody is about to unlink or to write without it; and what a process is about
  to write is the file as it is now with its own record raised. The last part is what
  makes a save keep everybody's record. The refinement has no fault in its premise, so
  it is proved where none can happen (`OneReclaims`): sessions alone, any number of
  them, that are neither suspended nor killed, or one that may be killed beside one
  that goes on, which is the instance of `lock_room`. `RefineInv` adds that a stale lock
  is a killed session's and that whoever is about to unlink has seen that one. With two
  sessions left to reclaim the lock of a third, the refinement is false: `reclaim_race`.
- **MessageDeliveryProofs**: types, `WokenOnce`, `StampedWasShown`, `WakesSpaced`,
  `InspectedIsDelivered`. `WakeInv` ties what the process pushed to `locallySent` and
  what it evicted. `AnswersInv` says that an answer, torn or not, holds only messages that
  have arrived, and that what it holds as read is read if it is still in the room; from it `StampInv` gets
  that what an inbox action will stamp is in its list, shown before or `slipped`.
  `InspectInv` uses that what has left the room does not come back. `SpacedInv`
  says that a recent wake is in its gap, is still to be stamped, or is on record as
  unstamped, and that only the last lets a poll go on.
  The module also holds the proofs of `ReadCache`: types, `AnswersAreFresh`,
  `CachedNotAhead`. `CacheInv` orders the version a call began at, the one it loaded, the
  cached one and the file, and says that a cached content older than its identity was
  recorded as torn.
- **HistoryQueueProofs**: types, `OneAtATime`, `IndexNeverShrinks`, `ShutIsIndexed`.
  `ThreadInv` says at most one live thread, which is the worker; `ReadInOrder` that its
  reading is at least the index. `DrainInv` says what a flush waits for: once it has begun
  and no job is queued, the transcript is indexed, or a job of it has come to nothing, or
  a thread runs that reads all of it; and when the queue has drained, one of the first two.
- **SessionRecordProofs**: types, `ClosedStaysClosed`, `PinnedKept`, `QuietMeansAdvertised`. `ClockInv` says stamps come from the clock and the process's record
  bears the latest; `ClosedInv` that a connected record still under way is stamped no
  later than the shutdown's, which the merge's strict comparison then rejects;
  `PinInv` the same of records without a pinned focus. `ShownInv` says that, unless the
  process is behind, the record the room will be left with shows what the process's own
  shows, or a patch is under way that will; so the writes that are skipped because
  nothing changed are not missed.
- **NetworkSyncProofs**: types, `NobodyAhead`, `StampsKept`. `NobodyAhead` needs that
  nothing held by a sync or a late post is ahead either. `StampsKept` is not a fact of
  the merge alone: if one transaction dropped a stamped message for want of space and
  merged an unstamped copy of it, the copy could stay. `WithinLimits` rules that out:
  a room left by a write satisfies the limits, so what its next pruning drops is only
  old, and an old copy is dropped with it. The lemmas on `Prune` and `Merge` are
  stated for any rooms.
- **TranscriptScanProofs**: types, `NothingOrphaned`, `IndexIsPrefix`. A session in the
  index is grounded by a known file that carries its id. That a line read now cannot
  orphan what it adds needs that the file being read is known (`ReadIsKnown`), and a
  header that renames a session drops what the old id had in the same step. The lemmas
  go operation by operation, over the index as a value. `IndexIsPrefix` is not inductive:
  it says nothing of the calls still waiting, nor of the two offsets a poll has between
  its first line and its end. `PrefixInv` says of a path without a mistake that the waiting
  calls are those which no line read so far answers or repeats, that both offsets end
  whole lines, and that until the first line is taken the index is what both of them
  say. One line more (`LineIndexed`) is then one item more in the list of its kind. `Only`
  frames each operation: what is done for one path leaves the others' sessions alone.
- **ViewerServerProofs**: types, `AnswersFollowFrames`, `LabelNotAhead`. `ServerInv` is
  the order in which versions travel: disk, store, base, channel, page; and of a
  request, that its label was taken after its frame and its parts after its label.
  The reads of the parts need no lock for that: the room only grows, and so does the
  index between two losses. A view therefore carries the number of losses it was made
  after, and `NotAfter` compares two indexes only where those numbers are equal.
- **RoomChatsProofs** (of `RoomMerge` and `RoomChats`): types, `EvidenceKept`,
  `RoomRecordWins`, `ThreadsAreExchanges`, `ChatsAreComponents`, each for any history,
  whatever is left of it and in whatever order it is merged, linked and joined. `TypeInv` says what is queued is of the
  history and is taken once, and every key leads to a bubble. `EvidenceKept` counts the
  bubbles that are shown, so its invariant `Kept` is about marks and keys: a mark is on
  one bubble, and on none while its call or wake is queued; a record's key is never
  taken; a call's key leads to a bubble of a call of that entry; a wake's key is free
  until its wake is taken; and no wake is merged before the last call, so that a call
  which takes the key of another hides no wake. Each step that touches a bubble adds one
  mark to one of them (`Marked`), from which most parts follow at once. `Home` adds for
  `RoomRecordWins` that a record's bubble goes on saying what the record says, and if it
  has a call, that is the record's own or one alike that no id ties to a record:
  being alike is transitive, so a call that found its own record taken, and took another
  that looks the same, was preceded by a loose one. `Linking` says of the disjoint
  sets, at any point, that no set which no link leaves tells members with one root apart,
  and that the ends of a link already joined have one root; it is the invariant both of
  the linking of threads and of the joining of chats. When no link is left, sets are
  chains of what the links stand for (`SetsAreChains`): messages, since a batch is linked
  to its first message only, which makes the chains those of messages woken together; and
  buckets, each of which its lead names. A party's episodes are chains too: were two
  messages with the same number of silences before them on two sides of a set that
  nothing near leaves, the first message on the other side would follow a silence. The
  count that tells chats of one id apart ranks them, because no two share a message.

What the proofs assume of the constants is in the `ASSUME` of each module, and three of
them deserve a word. `HistoriesAssumption` says a history is one that can have happened:
nothing quotes or names a message that was not sent, and no time and no line of a
transcript is 0, which stands for none. `ScanAssumption` says that two paths name no common session and
that a transcript begins with its header: Pi writes it so, and the viewer relies on
it, since a header that renames a session drops what was read before it. `OneReclaims`
is no assumption of a module but the premise of one theorem.

Every invariant and action property of the passing runs is proved. Only model-checked is
liveness (`Converge`, `EventuallySaved`, `EventuallyDelivered`, `EventuallyIndexed`,
`FlushReturns`, `PageCatchesUp`), which needs fairness and ENABLED. A chain of links is
defined by the sets that no link leaves, which is what the joining of disjoint sets, and
the counting of silences, can be proved against without induction on its length.
Some of what is proved is
no property of a run, being weaker than one that is or internal to the code:
`AtomicWhileCovered`, `OneAtATime`, `CachedNotAhead`, `InspectedIsDelivered`.

## Divergences not kept as runs

Seen while modelling; recorded here so they are not found again. Five are
defined as properties (`DeliveredMeansShown`, `ReadsSeeTheFile`, `ExplicitWins`,
`ConsumesAnythingNew`, `BatchesAreExchanges`); TLC
shows a trace when one is added to a configuration of its module.

- A message arriving between the inbox's read and `markRead`'s transaction is stamped
  read and delivered without being shown (`DeliveredMeansShown`). So is one that arrived
  before, if the read was answered from a torn cache: `markRead` loads the file itself. And
  `/team inbox` shows its list only after `await markRead()` (1746-1748, 1818-1822): a
  process that ends in between has stamped messages that nobody saw.
- A save between the load and the second `stat` of `readState` files the old content
  under the new identity, until the next save (`ReadsSeeTheFile`).
- Focus spreads the record it got before its await over a checkpoint saved meanwhile;
  the shutdown then leaves an `[auto]` one (`ExplicitWins`).
- A node that cannot get the lock writes without it (`network-service.mjs` 122), while
  `CHANGELOG.md` 12-15 says all writers take it. `CommittedKept` therefore has the
  fault in its premise.
- Whether the session is idle is sampled before two awaits (`extension.ts` 1021, used
  at 1050): a session that starts a turn meanwhile is steered by a message whose sender
  asked for nothing, while `README.md` 168 says a busy session's messages are queued.
- The poll may wake for a message the inbox shows while the poll is under way; and
  when a stamp fails and the session is resumed, the message wakes again.
- `markRead` does not touch `updatedAt`, so its `lastReadAt` loses the merge's tie and
  reaches the room with the next write.
- `/team focus` bypasses `writeSessionRecord`: an older status it puts back stays in the
  room until the heartbeat, because `writtenRecord` still names the newer one.
  `QuietMeansAdvertised` has this, a raised transaction and an equal stamp in its
  premise (`behind`).
- A call still awaiting its read at the shutdown makes the record connected again
  (`late` in `ClosedStaysClosed`).
- When the history worker dies, its error handler (`extension.ts` 908-917) goes on with
  the queue, but the job the worker had in hand is not put back, while the comment at
  909-910 says an environment that cannot run the worker loses no history. A flush
  that was waiting for that job returns with the transcript not indexed; `ShutIsIndexed`
  has the errors in its premise.
- `state-rules.mjs` 4-9 and `README.md` 206 say a record that a peer's snapshot brings
  back is dropped again by every node that dropped it. True of ages and counts. Not of
  the character budget: a message dropped in favour of a long newer one comes back once
  the long one has itself been dropped, and if it had been stamped here, the copy that
  comes back need not be, so it is delivered again. `StampsKept` is therefore about
  messages the room still has.
- `mergeRecords` spreads the newer record over the older, so a field the newer one left
  out (a branch, say) comes back from the older.
- The pulse is rendered after its own stamp, so updates since the previous turn are not
  newer than it (`extension.ts` 1650).

Of the scan (`viewer/scan.go`):

- An unterminated last line is trusted when the file was stable at the poll before,
  not when it has stopped growing (202-206): what is appended in two writes after a quiet
  spell can be read between them and indexed by halves. A half line that stays as it
  is, on the other hand, is never read.
- "It returns whether anything changed" (93-94): not for a deletion, nor for a rewind
  followed by an error once the file had been stable; and a file without a whole first
  line makes it true at every poll.
- "A file that shrinks is treated as rewritten" (`viewer/README.md` 39-40): one rewritten
  to no less than the offset is read on from its middle.
- A read that fails inside a line returns the piece with the error, which `consume` takes
  for "a line still being written" (202-209): it breaks, stores the offset and returns
  nil (220-221), and `refresh` remembers the whole file's stat (151). The rest is
  skipped (135-138) until the file changes, while "refresh walks the session tree and
  consumes anything new" (93): `ConsumesAnythingNew` is false of the code, and
  `EventuallyIndexed` excepts such a file. A read that fails between two lines has the
  lines before it read again.
- A directory that cannot be listed (111-115) loses its sessions (157-162) until a poll
  lists it again. An answer that is regrouped meanwhile (`server.go` 124) lacks what its
  frame announced; `AnswersFollowFrames` and `LabelNotAhead` except it.
- A transcript moved to another directory loses its session: the sweep drops it by id,
  after the new path has been read.

Of the server (`viewer/server.go`):

- "The request layer re-groups on demand from the same dataset" (90-91): it takes a new
  snapshot, without `s.mu` and under the generation of the base, so that one answer
  may mix polls (`LabelNotAhead` is what is left). `s.state` is read there while
  `refreshOnce` writes it, and `scanSeconds` in `handleHealth`: data races.
- `snapshotSessions` copies a session but not its map of counts (`scan.go` 415), which a
  handler may encode while `refresh` writes it: a fatal error in Go.
- A save of the room alone announces a frame with the generation it had; a deletion
  alone announces none, and shows with the next change.
- The first frame may be followed by an older one that was queued before it, and the
  page starts a request per frame without cancelling the last, so a late answer may
  overwrite a newer one.

Of the merge and the chats (`viewer/build.go`, `viewer/group.go`):

- Two calls in one entry of a transcript that the room does not know have one key
  (`build.go` 377): the later one replaces the earlier, which "quietly" drops it
  (`viewer/README.md` 17-18). `EvidenceKept` excepts it.
- A call that quotes an id whose record has aged out may be matched by its looks with
  another message's record, whose recipient is not compared. `RoomRecordWins` says when
  the viewer may be misled.
- `matchWakeLoose` takes the latest message that went to the session within ten minutes
  without looking at the text, while its comment (671-673) says containment is the
  evidence and anything weaker stays unmatched.
- "Messages delivered in one wake batch belong to one exchange" (828; likewise 813-814),
  but `linkThreads` goes by a message's `WakeEntry` (830-834), which is set at its first
  wake only (656-658): one that was delivered before and comes again, together with a
  new one, is not linked with it. `BatchesAreExchanges` says what the comments say and
  is false of the code; `ThreadsAreExchanges` says what the code joins.
- The id of a bubble made from a wake is not registered, so a message delivered twice,
  of which nothing else is left, is two bubbles.
- "Three sessions ... stays one conversation" (`viewer/README.md` 44-45, `group.go`
  287-291): two pairs that share one actor measure 1/3, less than the 0.34 asked for, so
  a round trip of three agents is three chats. In session mode, pairs whose labels are
  the same are joined, so the groups are not "the literal session pair".
- A stored message's recipient may be a session only the room knows, against the test
  that says targets are sessions of the transcripts (`unit_test.go` 469-483).
- `flagOutcomes` takes any later ask of the thread for an answer (258-266), so of two asks that
  woke a session together the second answers the first, although 246 says "something from the intended
  recipient".
- Equal candidates are told apart by the order of a map, so views of one dataset may
  differ between rebuilds.

## Not modelled, and the plan

Left out for good: the widget and command text, the page's rendering, the history CLI,
mDNS (an input), errors of the room file's system calls that are neither "exists" nor a
failing save, and
retention of the session's own record. Of the viewer: outcomes, repeats, health counts
and summaries, which are counts over the bubbles `RoomChats` ends with; a session's
timeline, which reads one file per request and keeps nothing; a page's filters and limit;
how names are normalised to labels.

Next, in this order:

1. `StateRules` (pure: the rules for sessions, updates, the journal and the whole
   file; checked against reference definitions over bounded rooms), and in
   `NetworkSync` the session ids to keep and what a dropped record may still do: with
   no budget, what was dropped for its age or number stays dropped.
2. `SyncScheduler` (back-off, in-flight guard, late answers) with `NodeLifecycle`
   (the port as an election, leases, stop).
3. `HistoryIndex` (append or rebuild, crash between transactions, linking), which
   `HistoryQueue`'s job then refines.
4. In `RoomChats`, whether an ask is shown as answered, and files that move in
   `TranscriptScan`.
5. Proofs: the algebra of the rooms' merge (commutative up to
   ties, idempotent); scheduler exclusion.

A component's runs stay few: one passing run for each, with liveness in the same
specification where its size allows, and a counterexample only for the strongest
disagreement.
