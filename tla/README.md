# Retro-Cloud-Sync: a TLA+ verification project

Retro-Cloud-Sync keeps an old Mac or iPhone in step with iCloud. A daemon
mirrors CardDAV and CalDAV accounts into SQLite, exchanges them with the local
address book and calendar, uploads local edits with conditional requests, and
runs a local TLS proxy for Mail. The modules here model that logic from its
source (`src/source`), check it with TLC on small instances, and prove for every
instance, with TLAPS, the safety of the write path (journal, writer, HTTP
client), of the contact mirror, of both exchanges and of the mail proxy.

## 1. Inventory

| Component | State | Operations | Interacts with |
|---|---|---|---|
| Write journal (`shared/RCWriteJournal.c`) | four tables: bases, operations, resolutions, attention | SetBase, Enqueue, Next, BeginAttempt, RecordResult, Acknowledge, Cancel, ResolveConflict, ConflictAttention, ResolutionMirrored | called by everything that writes; each call is a savepoint or transaction |
| DAV writer (`shared/RCDAVWriter.c`, `RCTwoWayRunWrites`) | the attempt in progress | one attempt: commit, probe, conditional PUT or DELETE, verify, record | journal, HTTP client, server |
| Contact mirror (`shared/RCCardDAVMirror.c`, `RCDAVClient.c`, `RCDAVStaging.c`, `RCDAVSyncState.c`) | token, page loop, staging database | discover, report pages, fall back, list, download, commit | server, contact store |
| Contact store (`shared/RCContactStore.c`) | contacts, generations, publication | save, mark seen, finish collection and run, publish | mirror, journal |
| Calendar mirror and store (`shared/RCCalDAVMirror.c`, `RCCalendarStore.c`) | as for contacts, with a history window | as for contacts, renames, pruning, re-parsing | server, journal |
| Two-way coordinator (`macOS-daemon/RCTwoWaySync.m`, `RCTwoWayFields.m`) | intents, aliases, detached uploads, pending fields | complete verified uploads, queue successors, run writes | journal, local store |
| Native exchange (`macOS-daemon/RCNativeExchange.m`, `RCNativeSystemStore.m`) | published rows, native receipts | three-way comparison, queue, publish, remove, recover | local store, journal |
| Sync Services backend (`RCSyncServicesBackend.m`, `RCSyncConflictSession.m`) | checkpoint, intents, conflict records | pull, queue, push, accept, recover conflicts | the system's sync engine, journal |
| Calendar operations (`macOS-daemon/RCCalendarOperations.m`) | operations table | create a calendar, move an event, verify | server, journal |
| Sync worker (`macOS-daemon/main.m`, `RCSyncFollowup.h`) | worker record, status | poll, back off, follow up, stop | everything above |
| Policies (`RCSyncPolicy.c`, `RCStatusPolicy.c`) | none | pure decisions on fields, records and status | worker, coordinator |
| HTTP client (`shared/RCHTTPClient.c`) | one request: headers, redirects, body | GET, PROPFIND, REPORT, PUT, DELETE, MOVE, MKCALENDAR | every network user |
| Formats (`RCVCard.c`, `RCICalendar.c`, `RCResourcePatch.c`, `RCPhotoCodec.c`) | none | unfold, escape, patch, base64 | mirrors, projections |
| Projections (`RCCalendarProjection.c`, `RCCalendarGraph.m`, `RCContactGraph.m`) | none | resource to records and back, recurring series | native exchange, Sync Services |
| Contact photos (`RCContactPhotoCache.m`) | image files, pins | refresh, pin, local image | server, contact graph |
| Mail proxy (`macOS-daemon/RCMailProxy.c`) | connection list, stopping flag, threads | start, accept, upgrade, relay, request stop, stop | main thread, mail client and server |

Hard behaviour: other clients of the account change the server between any two
requests; a request may be executed after the writer gave up on it; the process
may end between any two commits, and everything durable has to be resumed;
pages, tokens and downloads of one inventory belong to different moments; the
proxy frees memory that detached threads use. `PROJECT.json` lists each hazard
at its line with the properties that cover it.

What makes each part correct:

- journal: one live conditional write per resource; decisions are never
  rewritten; a conflict's successor stays conditional on what the conflict saw;
- writer: no unseen revision is overwritten, no update acts twice, nothing is
  confirmed that the server does not hold, every write settles;
- mirrors: a saved token skips nothing, absence is only believed when real, a
  base never pairs a tag with another body, a renamed event keeps its identity,
  the contact mirror converges;
- exchange with the local store: no second record for one resource, no unseen
  revision overwritten, no local edit buried, both sides agree in the end;
- calendar operations: a calendar is created once, a move keeps the user's
  placement and settles;
- worker: a service is shown green only when it is;
- policies, formats and projections: an acknowledged field was uploaded as
  edited, what is written is read back, a series shows the source's occurrences;
- HTTP client: credentials stay with their host, a mutation is sent once;
- proxy: nothing is freed in use, nothing is relayed after a stop, TLS begins on
  a clean connection, what is relayed is in order, a stop returns.

## 2. Modules

### WriteJournal

`bases`, `ops`, `resolutions` and `attention` are the tables; `lastId` the last
row id. Each function that changes a table is an action of the same name; a
call that is refused or replayed changes nothing and is a stuttering step.
`QueueFromBase` and `QueueSuccessor` are the two transactions in which callers
combine journal functions (`RCNativeQueue`, `QueueSuccessor`). `Next` lets any
caller make any call, so its properties do not depend on how the rest of the
daemon uses the journal. `Null` stands for SQL NULL and for a tag that is not
strong, which the code only ever tests for strength.

### DAVWriter (extends WriteJournal)

An attempt of `RCDAVWriterAttempt` is cut at each request: `BeginAttempt`
(durable before the network is touched), `Get` (probe, recheck, confirm),
`Decide`, `Receive`, `Refused`, `Verify`. `Interrupted` is a failed or
cancelled request or the end of the process at any of these points; the journal
survives, the attempt does not, and a request already sent stays in `inflight`,
to be executed later or lost. The server is external: revisions are numbered
and the number is the entity tag, so tags are not reused; `Strengths` lets it
omit strong tags, `Serialisations` lets it store a normalised body. The
coordinator's steps (`Publish`, `QueueEdit`, `Accept`, `Replan`, `Checkpoint`,
`Resolve`) run between attempts, as they do on the one worker thread.
`effects` records what our requests did to the server, for the properties only.

### ContactMirror

The fetch is cut at each request: `Discover`, `FetchCollection`, report pages
(`RCDAVSyncCollection`), `Fallback`, `RCDAVListResources`, one
`RCApplyContactChanges` per listed member, `Commit`. The server's changes are
numbered by `clock`; a token is the number of the last change it accounts for,
a tag and a body the number of the change that stored them, so "this body does
not belong to this tag" is visible. Bodies may be malformed (`good`), downloads
may lack a tag, collections may appear and vanish, and with `Cycling` the server
repeats continuation tokens. The commit is one step, as it is one SQLite
transaction; a crash before it loses the staging database. Only the commit
changes the rows and it replays a member's staged actions in order, so `stage`
holds, per member, what that replay makes of its row instead of the actions.

### MailProxy

The main thread, the listener threads and the connection threads of
`RCMailProxy.c`. Each critical section of `connectionMutex` is one step and so
is everything between two of them. A socket is `open`, `shut` or `closed`; a
shut socket ends every blocking call except the resolver's. `StopProxy` serves
both the failed start (`exiting` FALSE, waits without limit) and the exit (a
two-second deadline after which the proxy is left allocated).

### MailRelay

One connection inside a thread of MailProxy: the SMTP dialogue line by line,
TLS and its verification, the saved greeting, and the select loop with its
blocking reads and writes. Each direction of a socket is a bounded queue; the
client and the server (external) speak, read and close when they like, and a
TLS record may carry no data. MailProxy's `Handshake` and `RelayEnds` are what
this module does in detail.

### ConditionalWrite, refined by DAVWriter

The abstract promise of an upload: an operation acts at most once, atomically,
on the revision it names or not at all, and its outcome is what happened.
DAVWriter instantiates it with a refinement mapping (`KeepsPromise`); the many
requests, lost answers and restarts of an attempt map to stuttering.

### CalendarMirror

As ContactMirror, with what is different for events: the token is read before
the windowed inventory, `RCCalendarStoreSave` follows renames by UID and refuses
a duplicate, resources that left the window are excluded rather than deleted,
pruning spares resources with pending writes, and opening the store parses again
what an earlier release could not (`RCCalendarStoreOpen`,
`RCReparseCachedResources`, one row after the other; a failure leaves the store
closed). A body is a UID, a day and whether the codec understands it. Here the
order of the staged actions matters, since one can take the row of another, so
the transaction is taken step by step: `RCCalendarStoreBeginScopedRun` copies the
table into `work` and counts the members of kept calendars as seen,
`commitCalendar` applies the next staged action to it,
`RCCalendarStoreFinishRun` replaces the table by it. What ends a run before that
loses `work`, as a rollback does.

### NativeSync, SyncServices

The two backends of the two-way exchange, each composed with an abstract journal
and server (its conflicts, lost and late answers, crashes between any two
commits). NativeSync is AddressBook and EventKit: per resource the three-way
decision of `RCNativeExchange.m`, reservation, save, identifier and confirmation
of a publication, recovery of an interrupted one, `RCTwoWayComplete` with its
aliases and detached receipts, and the switch between one-way and two-way mode,
which `EarlySwitch` also allows while an alias is unknown (exception E1 below).
SyncServices is the system's sync engine (external): pull, translate, queue,
push, mingle, accept, the publication checkpoint, and the conflict sessions.
What may fail by itself and leaves one record for attention while the pass goes
on has an action of its own (`AwaitMirror`, a verified upload that cannot be
projected beside a later download; `AcceptFailed`; `ConflictPending`); what ends
the pass is `Interrupted`, or `ResolutionRefused` when the journal does not take a
decision (exception E6 below). The first four are faults and bounded, the last is
not: it follows from the tables.
FieldPlan has what both leave out: which fields of a record an operation carries.

### CalendarMove, CalendarCreate

The operations of `RCCalendarOperations.m`, cut at each request and at each
commit, with lost and late MOVE and MKCALENDAR requests and their verification.

### FieldPlan, RecordEquality, SyncWorker

FieldPlan follows rounds of planning, uploading and acknowledging the fields of
one resource (`RCSyncPolicy.c`, `RCTwoWayFields.m`). RecordEquality evaluates
the comparison of records over all pairs of small records. SyncWorker is the
poll loop with its follow-up and termination, and `RCStatusEvaluate` over every
content of the tables.

### HTTPClient, ContactIdentity

HTTPClient follows one request from its entry point through header building and
the transfer's callbacks to its result, redirects included. ContactIdentity
follows `RCContactStoreSaveVCard` statement by statement: savepoint, deleted and
re-inserted property rows, identifiers that survive them. Identifiers are random
in the code and numbered in the order they are drawn in the model.

### ContentLines, ResourcePatch, SeriesProjection

Algorithms against reference definitions, for every input up to a size: the
input is read step by step, and the properties compare what the code computes
with what the text, the body or the series says. SeriesProjection is the
expansion and the UTC projection of recurring events.

### MC modules

`MCDaemon` and `MCResourceData` put side by side modules that share no state:
`part` names the one a behaviour runs, the others keep their initial states. The
first holds the poll loop and the calendar operations, the second the stages
between a local record and the body of its resource. The other `MC` modules add
symmetry sets and function-valued constants; a module without one is checked
directly. Operators and variables of the modules that `MCResourceData` or a proof
module extends together have names of their own (`SeriesInit`, `IdentityNext`,
`PlanTypeOK`). Every module also holds the faulty variants named in `PROJECT.json`
("Faulty variant: ..."), each defined just before the definition it replaces; no
specification uses them. The `TypeOK` of a module says what its variables hold.

## 3. Runs

| Run | Checks | Bounds |
|---|---|---|
| `write_journal` | `OneUnresolvedWrite`, `ResolutionsPinned`, `CheckpointBeforeAcknowledge`, `JournalIsHistory` | two keys that may name one href, two operations, one attempt |
| `dav_writer` | `NoLostUpdate`, `AppliedIsStored`, `KeepsPromise` (refinement of ConditionalWrite), `EveryWriteSettles` | one resource, two bodies the server may rewrite, strong and weak tags, two operations of three attempts, four revisions, one foreign change, one fault |
| `contact_mirror` | `NoMissedChange`, `BaseIsHonest`, `AbsenceIsReal`, `Converges`, `FetchEnds` | two members of one book, four server changes, one fault, cycling tokens |
| `mail_proxy` | `NoUseAfterFree`, `NothingServedAfterStop`, `NoDescriptorLeak`, `StopReturns` | two services, two connections |
| `calendar_mirror` | `NoMissedChange`, `AbsenceIsReal`, `IdentityKept` | one calendar that may be hidden, two addresses, two UIDs, no window and one that starts after the events, bodies that only the later codec parses, three changes, one fault |
| `calendar_duplicate_uid` | `DuplicateIsReal`, violated | one day, one codec level, five changes |
| `native_sync` | `NoDuplicate`, `NoEditBuried`, `Converges` | one event that may leave and enter the window, both modes, five edits, two faults |
| `sync_services` | `NoEditBuried`, `ComesToRest` | two resources, four edits, one fault |
| `http_client` | `CredentialsStayHome`, `MutationSentOnce` | two hosts of which one is allowed, two redirects, two bytes |
| `mail_relay` | `CleanUpgrade`, `InOrder`, `CommandsMove` | queues of two units, answers of up to three, two commands, three replies |
| `daemon` | `GreenIsTrue`; `OneRemoteCalendar`; `PlacementKept`, `MoveSettles` | two services, every content of the tables for one operation, each query failing in turn; two calendars, three markers, three faults, two deletions; three addresses, four changes, one fault |
| `resource_data` | `WireRoundTrip`; `OrderIrrelevant`; `FieldsAgreeWithRecord`; `ShownAsSource`; `IdentityKeepsItsRole`; `ScopeIsHonest` | all texts of up to four characters, line limits 4 and 3; pairs of edits of three bodies; all pairs of records of one text, two instants and one wall time; series of up to two periods and one beyond, offsets of one hour; two contacts, two kinds, two properties, three saves; a root and a child record, two edits |

What they show. No order of journal calls, requests, lost answers and restarts
makes the daemon overwrite a revision it has not seen, confirm a write the
server does not hold, or forget one; together with `NoEditBuried` of both
exchanges this covers an edit from the native record to the server and back. A
mirror never believes it is further than it is. Each conversion between a record
and a body is faithful for every small input. The proxy never serves or uses
what a stop has taken away.

### Why the bounds are enough

Two operations hold an upload and the successor that
replaces it after a conflict or a newer local edit; what separates more is a
longer chain of the same pair, which the journal's theorems cover for every
length. Four revisions hold a base, our write, a foreign edit of either and a
second foreign edit after it; three attempts hold one that is lost, one that
finds out and one more. Four server changes over two members let a member
change before, between and after the pages of one report and again in the next.
Two connections are what it takes for one to be set up while the other is torn
down; a third multiplies the states (235,304) and shows nothing new.

A calendar's hard cases relate two addresses (a UID that moves from one to the
other, the order of the inventory against the rows) and a row that a window
hides or shows again, which two addresses and a switch of the window at any
point reach; three changes are a put, a deletion and a put at the other address.
An event that itself moves across the window's start needs a second day, which
multiplies the states by more than four and is left out of the run. For the same
reason `write_journal` has no third operation, so a successor never conflicts in
turn there, and `daemon` no records with pending fields or attention rows
(`Roots`): the theorems `ResolutionsStayPinned` and `GreenServicesAreTrue` cover
both, and a run of `daemon` with one record, three times as long, agrees. In the native and Sync Services models a record is edited, sent,
edited again while the answer is lost, and edited by somebody else; four or five
edits and one or two faults put a crash between any two of those commits. A MOVE
needs three addresses, so that a user can change his mind while the first MOVE
is under way. The relay's queue of two units is full, half full or empty, which
is all its code distinguishes, and an answer one unit longer than the queue has
to be refused or passed on in parts. The pure algorithms are checked for every
input below their bound, the bound being past the point where each has its last
special case: a folded line with a multi-byte character on the limit, an edit
that shifts another's occurrence, a period on both sides of an offset change.
Three saves of a card insert a property, replace or remove it, and
insert it again. Resources are independent in NativeSync but for the order of a pass, so one
event with more edits and faults finds more than two with fewer.

Faults are bounded, so liveness says: once faults stop. `CHECK_DEADLOCK FALSE`
appears where the bounds themselves end the behaviour (revisions, changes,
edits or inputs used up); the journal, the proxy, the relay, the HTTP client,
NativeSync and SyncServices are checked for deadlock.

### Fairness

The worker is one thread that polls for ever and none of whose steps
waits for another thread: weak fairness on its steps, on the passing of time
and on the server answering what it holds (`WFairness`, `FairSpec` of
ContactMirror). The same holds in NativeSync, SyncServices and CalendarMove
(strongly for its fetch, which every poll makes and which a fault can interrupt):
the next poll comes, and every request ends in an answer or in the HTTP client's
time limit. Users and other clients owe nothing, and a fault never has to
happen. MailRelay is weakly fair to the thread alone; its peers owe nothing,
since the time limits (120 seconds) end a wait for them. The other runs state
safety only. In MailProxy, weak fairness of
each thread, justified by the one-second select, the 120-second socket limits
and the stop deadline; none for `Connected`, because the resolver may hang, and
for a relay only once a socket was shut, because an idle relay may last for
ever.

### Finding

`calendar_duplicate_uid` expects a violation of `DuplicateIsReal`
(`RCCalendarStore.c:473`): an event is deleted and its UID stored at the address
of another event. The inventory names the UID once, yet the download is refused
as a duplicate, the fetch rolls back, the deletion is never recorded and every
later poll fails likewise.

### Exceptions met while modelling

The models follow the code in these cases, and the properties above do not claim
otherwise:

- E1 (`RCTwoWaySync.m:374`): an event created on the device leaves the window
  before its imported identity is learned; after a switch to one-way mode nobody
  learns it, and the returning event is published as a second one. `native_sync`
  assumes the user does not switch in that state; with `EarlySwitch = TRUE` TLC
  finds `NoDuplicate` violated.
- E2 (`RCCalendarOperations.m:315`): source and target both present is taken for
  a MOVE the server rejected, although the MOVE may have taken effect and the
  source been filled again, or taken effect between the two reads.
- E3 (`RCCalendarOperations.m:204`): a fetch between a MOVE and its verification
  inserts a row at the target; the event has two identities, and the move's own
  update breaks the uniqueness constraint from then on. `MoveSettles` excludes
  moves that can no longer be verified (`Verifiable`).
- E4 (`RCTwoWaySync.m:296`): pending fields can be left without the attention
  row that `RCStatusPolicy.c:35` says they also have.
- E5 (`RCHTTPClient.c:342`): two unchecked header appends let a MOVE leave
  without `Destination` and `Overwrite` when memory runs out; `MutationSentOnce`
  shows it never leaves with the first and without the second.
- E6 (`RCWriteJournal.c:313`): to let a deletion stand where the resource is gone
  takes a local revision above 0, and the update that replaces a conflicting
  creation inherits the creation's 0 (`RCWriteJournal.c:327`). So: a creation whose
  answer is lost, an edit of the resource by another client, the update that
  replaces the creation, a deletion by the other client, and an engine that lets it
  stand. `RCWriteJournalResolveConflict` refuses that decision in every pass,
  `RecoverConflicts` returns NO (`RCSyncServicesBackend.m:102`) and the exchange
  ends (166): no download of the account is published and no edit journaled until
  the record is created again in the truth, although the comment at
  `RCSyncServicesBackend.m:22` has every decision become a conditional successor.
  `ComesToRest` excepts this state (`DecisionRefused`) and asks of it that what was
  queued is uploaded and completed all the same; without the exception TLC finds
  the trace within the bounds of `sync_services`.
- E7 (`RCTwoWaySync.m:437`): an acknowledged creation whose alias was not known
  while the window hid it keeps waiting for the alias if its verified bytes cannot
  be projected when the resource is listed again, and nothing holds back the
  publication of the resource in that pass. NativeSync lets this projection fail
  only for uploads that are not acknowledged yet (`AwaitMirror`), which stay busy;
  `NoDuplicate` says nothing of the other case.

## 4. Proofs

`DAVWriterProofs` first proves, for every set of keys, hrefs, bodies, tags and
changes and every bound, that `Spec` keeps

    JournalInv == TypeOK, OneUnresolvedWrite, ResolutionsPinned,
                  CheckpointBeforeAcknowledge, DurablePrecondition,
                  UnusedUnresolved

and derives each named invariant and the action property `JournalIsHistory`
(theorems `JournalInvariant`, `JournalTypes`, `OneWritePerResource`,
`ResolutionsStayPinned`, `CheckpointPrecedesAcknowledge`,
`PreconditionsAreDurable`, `JournalHistory`). The invariants need each other:
`ResolveConflict` keeps `OneUnresolvedWrite` only because the conflict it
cancels was the one live write, keeps `ResolutionsPinned` only because
`DurablePrecondition` says the old base of a deletion is strong, and keeps the
successor unique only because a row that does not exist yet is nobody's
successor and has no resolution: that is the strengthening `UnusedUnresolved`.
The actions change the tables in a few shapes (a row updated, inserted,
superseded; a conflict resolved; a resolution checkpointed), each of which is
one lemma; each action then has a lemma of its own and the step theorem splits
on the disjuncts of `Next`. The only assumption is `JournalConstants`.

`MailProofs` proves `ProxyTypeOK`, `NoUseAfterFree`, `NothingServedAfterStop`
and `NoDescriptorLeak` for one or two services and any set of connections
(`LinkedHasOwner`, `FreedWhenUnused`, `StopReachesEveryConnection`,
`SocketsClosed`). The first three hold because somebody owns every connection at
every moment, which the inductive invariant `ProxyInv` spells out: a running
thread's connection is on the list (`ThreadsLinked`); a connection being set up
belongs to one listener (`HeldOnce`); an open socket has an owner who will close
it, and a serving thread has closed neither (`SocketsOwned`); listeners are
joined, all of them, before the list is drained (`JoinedFirst`); the proxy is
freed last, on an empty list (`FreedLast`). The only assumption is
`ProxyConstants`.

`DAVWriterProofs` then proves `NoLostUpdate`, `AppliedIsStored` and `AtMostOnce`,
and that DAVWriter implements ConditionalWrite (`WriterKeepsPromise`), for every set
of resources, bodies and serialisations and every bound on operations, attempts,
revisions and faults. The invariant is

    WriterInv == JournalInv, WriterTypeOK,
                 HistoryInv (tables, server, requests), AttemptInv (the attempt)

The server never returns to a revision it has left, so "the base is no longer
current" (`Overtaken`) is stable once true. Every path that settles an operation
has seen that (`RemoteOvertakes`, `ReplyIsTrue`), and until it is true at most a
request with the operation's own precondition is under way
(`RequestsFollowRows`), however long the attempt that sent it is over; without
this last part a late execution could not be tied to the row it acts for. What a
row names or recorded really existed (`RowsAreSound`), so an applied operation is
one the server held. The journal's part comes from its own per-action lemmas
(`WriterKeepsJournal`). For the refinement, a change by another client maps to
`Foreign`, the execution of our request whose condition holds to `Perform`, a
new row (`QueueEdit`, the successor of `Replan` or `Resolve`) to a decided
operation, and the recording of a definite outcome to `Report`; every other step
is a stutter. The assumptions are the journal's and `WriterConstants`, which
says among other things that NULL is no revision.

`HTTPClientProofs` proves `CredentialsStayHome` and `MutationSentOnce` for every
set of hosts, any of them allowed, and every limit on redirects and on the body.
A hop leaves "validate" only for an allowed destination and the URL stays until
the hop is judged (`DestinationInv`). A conditional call never follows a
redirect, so its only hop is its first (`SentOnceInv`); that its header list is
right when the transfer takes it rests on the order of the appends
(`HeadersInv`): whichever append fails, what is emptied is emptied before the
precondition, and takes `Destination` with it. The assumption is
`HTTPAssumption`: there is a host, the allowed ones are among them.

`NativeSyncProofs` proves `NoDuplicate` and `NoEditBuried` for every set of
resources, number of edits and faults. A record gets a duplicate when a
publication does not find it: for want of the row, of the identity that leads to
the row, or of the native id in it. `RowInv` says which rows can lack the id and
`AliasInv` that a creation which has a row is always protected by its operation,
its alias, or the detached creation that the next exchange turns into an alias
before it publishes anything; `FreshInv` that what has no row never left the
device; `WorkInv`, `StepInv` and `ModeInv` in which phase and mode all this can
be. An edit is buried when a content is replaced that the other side never had:
`ShownInv` and `StoredInv` bound every base, row and operation by the contents
that were shown on the device or stored on the server. The assumptions are
`SyncConstants` and, in the theorems about the exchange, `~EarlySwitch`: with it `NoDuplicate`
is false (exception E1), and the run makes the same choice.

`NativeSyncProofs` also proves `ScopeIsHonest` of FieldPlan for any records, fields,
groups and edits, and for an encoder that refuses whatever it likes. The plan first
puts the independent groups back and then offers them one by one, so while it runs
the scopes name fields that are not carried yet. `PlanInv` gives the reason they
will be: a field of the scopes has the user's value in the working graph, or it is
in a group that is still untried, and only records that both sides have, with the
same owner, have untried groups (`GroupsInv`). A refused group leaves the scopes
with the try; when the structure is refused the scopes shrink to groups and owners
in the step that puts it back. The proof needs no assumption on the constants.

`MailProofs` also proves `CleanUpgrade` and `InOrder` for sockets, buffers and
responses of any size and any amount of mail. The upgrade is clean because in
the clear the two sides take turns: a command is under way or its response is,
never both (`DialogueInv`, `ResponseInv`). The relay's half of that is the
code's, which reads nothing from the client before the upgrade; that the server
says nothing between the last line of a response and the next command is SMTP,
and how the model's server behaves. The relayed data are in order because what
is on its way, in a socket, in the relay's buffer or in a TLS record, continues
the numbers where the part already handed over stops (`BufferInv`, `RecordInv`,
`CommandsInv`, `RepliesInv`), and the saved greeting comes before all of it
(`GreetingInv`).

`SyncServicesProofs` proves `NoEditBuried` for every number of resources, edits
and faults, whatever the engine decides. Three chains of facts carry it. The
engine's snapshot only ever holds what the server has held (`StoredInv`), and
only the user takes the truth away from the snapshot (`TruthInv`): so a push,
which replaces a record that equals its snapshot, replaces nothing the server
did not have. What an operation is conditional on was in the engine when the
operation was decided (`ShownInv`). And an operation that creates does so with
the user's content and for a record no snapshot has (`UploadInv`), because a
snapshot of a resource implies that its identity is known or its operation is
not settled yet (`KnownInv`), across a crash between the acceptance and the
acknowledgement too. `WorkInv` says what a phase works through, `ShapeInv` what
an operation can be. The assumption is `SyncServicesConstants`.

`SyncServicesProofs` also proves `FieldsAgreeWithRecord` of RecordEquality, for any two
records and not only those the run enumerates. A field is compared in a scoped
record, which keeps the entity; apart from the sound of an alarm the comparison of a
record is that of its fields (`EqualByField`), and a scope has both sound fields or
neither, so the sound is judged as in the whole record or is absent from both
(`EqualInScope`).

`ContactMirrorProofs` proves `NoMissedChange`, `BaseIsHonest` and the action
property `AbsenceIsReal` for any address books, members, changes and faults,
with or without servers that repeat their tokens. The invariant is

    MirrorInv == TypeOK, SaneInv, LoopInv, PageInv, CoverInv, AbsenceInv,
                 NoMissedChange

A revision never returns, so whatever the server changes during a run has a
number above every token the run has seen and owes nothing to it; for everything
else the outcome staged for a member agrees with the server from the moment its
page is applied (`CoverInv`, by `PageInv` while it is being applied). A delta and
an unchanged tag rest on what the last commit left, which is why `NoMissedChange`
is part of the invariant. A run from nothing accounts for every member by an
action or by an absence it saw (`AbsenceInv`). A body is never older than the tag
it is kept with (`SaneInv`), so a tag that is still current has the current body.
The only assumption is `MirrorConstants`.

`ContactMirrorProofs` also proves `IdentityKeepsItsRole` of ContactIdentity for any
resources, kinds, cards and saves. Rows are deleted and inserted again inside a
savepoint, so between two commits the working rows agree with neither the old card
nor the new one. `IdentityInv` therefore speaks of both: in the committed tables
and in those of the savepoint an identifier names one row and agrees with whatever
was exported under it (`Owned`, `RolesAgree`); the savepoint has touched one contact
only, and in a state that its step determines (`SaveInv`); and what is remembered
for a property is the identifier of the committed row with the same place and kind
(`KeptInv`). An invalid card keeps the usable one, which is why a row describes the
usable card and not the last one (`Described`). The assumption is
`IdentityConstants`; that an identifier is never drawn twice is the model's reading
of `randomblob(16)`.

`DaemonProofs` proves `GreenIsTrue`, `OneRemoteCalendar` and the action property
`PlacementKept` of `MCDaemon` for any services, journals, calendars, addresses
and bounds. The invariant is

    DaemonInv == WorkerInv, CreateInv, MoveInv

one part for each of the three modules that `MCDaemon` sets side by side. Every
`RCStatus` function but `RCStatusFinish` leaves a service as it was or not green
(`Dimmed`), and by the time a journal can change, its service is not green and
has no full sync of this poll (`AheadInv`); so green, and the full sync, are
judged in the one step that evaluates the journal (`Evaluation`). There the
counts of the code's queries have to be turned into facts about the sets they
count: no operation open, verified, or flagged, no field waiting (`CountFacts`,
`NothingWaits`), for which the sets must be finite. A calendar's first operation
fixes its marker, which an insert that ignores what is there and a commit both
keep, so every request and every calendar on the server carries the marker of
its owner (`OneMarker`). A move that is committed wants no row at its target, and
what is mirrored or published has a row (`HasRow`), so committing overwrites no
other event's place. The proof corrected the model in one place: in
`RCCalendarCollectOperations` two arms of a `CASE` applied to an event the user
has moved back while its move is queued, which leaves the choice open. The code
keeps that operation, and only a conflict whose event is elsewhere is retired
(`RCCalendarOperations.m:60-77`); the definition now says so. The assumption is
`DaemonConstants`.

`CalendarMirrorProofs` proves `TypeOK`, `NoMissedChange` and the action properties
`AbsenceIsReal` and `IdentityKept` for any calendars, members, UIDs, windows,
codecs, changes and faults. The invariant is

    CalendarInv == TypeOK, ServerInv, TokenInv, ListInv, KeepInv, GoneInv,
                   WorkInv, NoMissedChange

As for contacts, a change during a run has a number above the token the run will
save and owes nothing to it. A member that has not changed since its token was
read is staged as it is on the server, or waits to be (`Inventoried`, `Fetched`,
in `ListInv` for each phase of the run), or its calendar is kept because an empty
report for the same window says that nothing of it changed since the last commit
(`KeepInv`). The transaction is the difficult part: an action that follows a
rename takes away a row that an earlier one wrote, and the token of the first
would then be a lie. `WorkInv` says that this never happens, because a row this
run has written or seen is refused to a second action (`Duplicate`), so what
every applied action put into the working table is still there (`AppliedStep`),
that the table remains in order (`Sane`), and that each id of the committed table
survives in the working one with its address or its UID (`Survives`), which is
what `IdentityKept` asks of the commit. The order of two actions therefore
decides only whether a run is refused, never what a run that is not refused
commits. What is missing from a complete inventory was absent at some moment of
it (`GoneInv`), which gives `AbsenceIsReal`. That a new row finds an id in the
range of the type is a counting argument: every row has a body stored by a
change of its own address (`StoredCount`). The assumption is `CalendarConstants`.

`CalendarMirrorProofs` also proves `ShownAsSource` of SeriesProjection for any rules,
dates and exclusions, any two zones, and series of any length. Its invariant,
`SeriesInv`, says that every rewriting of the event keeps the days it occurs on: in
`RCExpandFiniteRecurrence` because what is excluded after the last included day
excludes nothing (`LastOfDays` gives that day), and the expansion is refused when an
exclusion up to it has another wall time (one later on that last day ends the
enumeration instead). The projected series is then counted and
compared day by day; its places are distinct because `DayLength` is not zero
(`BaselinesDiffer`), and a native zone is trusted only on the days on which it was
compared. The assumption is `SeriesConstants`.

The `TypeOK`s, `DurablePrecondition` and `AtMostOnce` are proved and not listed in
a run.

Only model-checked:

- liveness (`EveryWriteSettles`, `Converges` of ContactMirror and NativeSync,
  `FetchEnds`, `StopReturns`, `MoveSettles`, `ComesToRest`, `CommandsMove`),
  which is outside TLAPS' reach, as is everything about ENABLED;
- `WireRoundTrip` of ContentLines and `OrderIrrelevant` of ResourcePatch: what a
  recursive definition computes for every text or body is an induction over data.

## 5. Not modelled

- XML: service discovery, multistatus listings and their parsing. The mirrors
  take a listing as the members, tags and token it names.
- Field mapping between vCard or iCalendar text and the native records (graph
  projections apart from series and dates), `RCCalendarStructure.h`, the schema
  and its migrations, the calendar date recovery: conversions without control
  state. The comparison of two zones looks at five years around the event; a
  difference beyond them is outside SeriesProjection.
- Record types the comparison does not know (it falls back to one generic type)
  and replacement groups of patches.
- In the native exchange: recurring series, invitations and field attention;
  an edit by the user between the comparison and the save, which the code
  accepts as a window of its own (`RCNativeExchange.m:300`). With a history
  window a server deletion is not applied to the native store, because the
  mirror keeps its row as excluded (`RCNativeExchange.m:315-330`): NativeSync
  models that as the code does it.
- In SyncServices: resets of the truth and refused slow syncs with busy records,
  exclusions on the first run, field scopes (FieldPlan has them) and the time
  limit of a session's waiter. A deletion that waits behind a re-creation of the
  same record. Failures to project or to accept are transient: a mapping that
  fails for ever (`RCTwoWaySync.m:437`, `RCSyncServicesBackend.m:59-70`) leaves
  its record for attention for ever and is not among the cases of `ComesToRest`.
  `RCConflictRecover` and the contact resolver are built into the tests only and
  are not called by the daemon.
- Contact photos: the base64 codec and the cache of downloads, which is checked
  against the card and rebuilt when it does not match.
- Dates: the day counting of `RCRecurrenceDay` and the first day of the history
  window. The models take days as numbers.
- The page limit of a report (1024): it turns a fetch into a failed one, which
  the models have. Wall-clock time that goes back.
- Descriptor numbers in the proxy: a stop may call `shutdown` on a descriptor a
  finishing thread has just closed (`RCMailProxy.c:364` against 497), harmless
  to the proxy, whose sockets are all being shut, and a failed exchange to any
  other user of a reused number.
- In the calendar export (`RCExchangeCalendars`): a body that parses and cannot be
  mapped for its date range, and the exports of a build that refuses to mark
  anything exported while one mapping is not current (`RCCalendarTwoWay.m:601-618`,
  650). They withhold the checkpoint or end the exchange before it, which is the
  export not happening yet.
- In ContactIdentity each save commits by itself. In the code the savepoint is
  inside the transaction of the run, whose rollback (`RCContactStore.c:819`) undoes
  several saves at once; no export can come between, being refused during a run
  (`RCContactStore.c:880`).
- What a side of the relay said before it closed need not arrive: `InOrder` and
  `CommandsMove` speak of what is delivered and of progress while both are open.
- A creation repeated after a lost answer and a foreign deletion: `AtMostOnce`
  is about updates and deletions.
- Keychain, logging, error values and the settings applications: I/O and user
  interface.

## 6. Plan

The system's control is modelled, and every safety property that a run checks
is proved except `WireRoundTrip` and `OrderIrrelevant`, which need an induction
over the text or the body. What is left, in this order:

1. A second day in the `calendar_mirror` run, should a faster machine allow it;
   the theorems cover it.
2. Recurring series and invitations in the native exchange.
