--------------------------- MODULE CalendarMirror ---------------------------
(***************************************************************************)
(* One CalDAV account mirrored into the calendar database, through a       *)
(* history window (RCCalDAVMirror.c, RCCalendarStore.c): the token check   *)
(* that keeps a collection, the windowed inventory, downloads staged       *)
(* outside the database, the transaction that commits the generation,      *)
(* publication, the pruning of what left the window and the re-parsing of  *)
(* cached bodies when the store is opened.                                 *)
(*                                                                         *)
(* As in ContactMirror the server is external, its changes are numbered by *)
(* clock, and a token, an entity tag and a body are such numbers, 0 for    *)
(* none; the pages of a report are modelled there, here a report is one    *)
(* step.  An event lies on a day; window 0 is no window (start == NULL),   *)
(* window k lists the events of day k and later.  The improved codec of a  *)
(* later release parses the bodies of level 1 too.                         *)
(***************************************************************************)
EXTENDS Naturals, Sequences, FiniteSets

CONSTANTS
  Collections, \* calendar URLs
  Hrefs,       \* member URLs
  Home,        \* Home[h]: the calendar of h
  Uids,        \* iCalendar UIDs
  Holds,       \* Holds[h]: the UIDs other clients may store at h
  Days,        \* days of events
  Windows,     \* history windows the user may select
  Levels,      \* how hard to parse the bodies of the server are
  Hideable,    \* calendars that may be hidden and shown again
  MaxClock,    \* bound: changes on the server and of the window
  MaxFaults,   \* bound: failed requests, cancellations and crashes
  NoUid, NoCollection

ASSUME CalendarConstants ==
  /\ Home \in [Hrefs -> Collections] /\ Holds \in [Hrefs -> SUBSET Uids]
  /\ NoUid \notin Uids /\ NoCollection \notin Collections
  /\ Days \subseteq Nat \ {0} /\ Windows \subseteq Nat /\ 0 \in Windows
  /\ Levels \subseteq {0, 1} /\ Hideable \subseteq Collections
  /\ IsFiniteSet(Hrefs) /\ MaxClock \in Nat \ {0} /\ MaxFaults \in Nat

VARIABLES
  clock,     \* the number of the last change
  live,      \* calendars the server lists
  cur,       \* cur[h]: the current revision, 0 when absent
  hist,      \* hist[n]: what revision n says
  changed,   \* changed[h]: the last change of h
  start,     \* the window the user selected
  codec,     \* the codec this release parses with
  rows,      \* calendar_resources: rows[h], NoRow when there is none
  calMissing,\* calendars.remote_missing
  sync,      \* dav_sync_state: sync[c], a token and its window
  published, \* published_generation = generation > 0
  bases,     \* write_bases, by row id
  ops,       \* unresolved write operations
  pc,        \* where the fetch is
  found,     \* calendars discovered by this run
  listed,    \* listed[c]: the token discovery returned
  todo,      \* of those found, the ones not yet fetched
  col,       \* the calendar being fetched
  at,        \* its token to save
  pend,      \* listed members still to be staged
  stage,     \* the staging database, in the order of the commit
  keep,      \* calendars kept by an empty report
  work,      \* the transaction: its rows, the members it has seen, and how
             \* many staged actions it has applied
  next,      \* next[c]: the token to save
  error,     \* why the last run failed
  gone,      \* history: members absent at some moment of this run
  faults

serverVars == <<clock, live, cur, hist, changed, start>>
storeVars  == <<rows, calMissing, sync, published, bases, ops, codec>>
fetchVars  == <<pc, found, listed, todo, col, at, pend, stage, keep, work, next>>
vars == <<serverVars, storeVars, fetchVars, error, gone, faults>>

NoRow == [id |-> 0, uid |-> NoUid, etag |-> 0, body |-> 0, bad |-> FALSE,
          missing |-> TRUE, excluded |-> FALSE, exported |-> 0, exportETag |-> 0]
Row   == [id : 1 .. MaxClock, uid : Uids \cup {NoUid}, etag : 0 .. MaxClock, body : 0 .. MaxClock,
          bad : BOOLEAN, missing : BOOLEAN, excluded : BOOLEAN,
          exported : 0 .. MaxClock, exportETag : 0 .. MaxClock]
NoWork == [rows |-> [h \in Hrefs |-> NoRow], seen |-> {}, applied |-> 0]
NoSync == [token |-> 0, window |-> 0]
NoBase == [etag |-> 0, body |-> 0]
NoBody == [uid |-> NoUid, day |-> 0, level |-> 0]

Members(c) == {h \in Hrefs : Home[h] = c}
Stored     == {h \in Hrefs : rows[h] # NoRow}
Idle(v)    == [c \in Collections |-> v]

Runs   == {"next", "list", "apply", "commit"}
Bodies == [uid : Uids, day : Days, level : Levels]

(* A new store beside an empty server.                                     *)
Init ==
  /\ clock = 1 /\ live = Collections /\ start \in Windows
  /\ cur = [h \in Hrefs |-> 0] /\ changed = [h \in Hrefs |-> 0]
  /\ hist = [n \in 1 .. MaxClock |-> NoBody]
  /\ codec = 0 /\ rows = [h \in Hrefs |-> NoRow] /\ calMissing = Idle(TRUE)
  /\ sync = Idle(NoSync) /\ published = FALSE
  /\ bases = [i \in 1 .. MaxClock |-> NoBase] /\ ops = {}
  /\ pc = "idle" /\ found = {} /\ listed = Idle(0) /\ todo = {} /\ col = NoCollection
  /\ at = 0 /\ pend = {} /\ stage = <<>> /\ keep = {} /\ work = NoWork /\ next = Idle(0)
  /\ error = "none" /\ gone = {} /\ faults = 0

-----------------------------------------------------------------------------
(* The server's other clients, and the user's choice of a window.          *)

Change(hs, r) ==
  /\ clock < MaxClock
  /\ clock' = clock + 1
  /\ changed' = [h \in Hrefs |-> IF h \in hs THEN clock + 1 ELSE changed[h]]
  /\ cur' = [h \in Hrefs |-> IF h \in hs THEN r ELSE cur[h]]
  /\ UNCHANGED <<storeVars, fetchVars, error, faults>>

(* A calendar never holds two resources of one UID.                        *)
ServerPut(h, body) ==
  /\ Home[h] \in live /\ body.uid \in Holds[h]
  /\ \A o \in Members(Home[h]) \ {h} : cur[o] # 0 => hist[cur[o]].uid # body.uid
  /\ Change({h}, clock + 1)
  /\ hist' = [hist EXCEPT ![clock + 1] = body]
  /\ UNCHANGED <<live, start, gone>>

ServerDelete(h) ==
  /\ cur[h] # 0 /\ Home[h] \in live
  /\ Change({h}, 0)
  /\ gone' = gone \cup {h}
  /\ UNCHANGED <<live, hist, start>>

(* A calendar is hidden or shown again, with its members.                  *)
CalendarShown(c, shown) ==
  /\ (c \in live) # shown
  /\ live' = IF shown THEN live \cup {c} ELSE live \ {c}
  /\ Change({}, 0)
  /\ gone' = gone \cup Members(c)
  /\ UNCHANGED <<hist, start>>

(* The preference, or the rolling cutoff of a new day.                     *)
SetWindow(k) ==
  /\ pc = "idle" /\ k # start
  /\ start' = k /\ Change({}, 0)
  /\ UNCHANGED <<live, hist, gone>>

-----------------------------------------------------------------------------
(* Fetching: nothing here touches the calendar database.                   *)

Finished ==
  /\ pc' = "idle" /\ found' = {} /\ listed' = Idle(0) /\ todo' = {} /\ col' = NoCollection
  /\ at' = 0 /\ pend' = {} /\ stage' = <<>> /\ keep' = {} /\ work' = NoWork /\ next' = Idle(0)

(* The run ends without a commit; what was staged is discarded.            *)
Failed(why) == Finished /\ error' = why /\ UNCHANGED <<serverVars, storeVars, gone>>

(* Home discovery lists the calendars, each with its current sync token if *)
(* the server has one.                                                     *)
RCDAVListCollections ==
  /\ pc = "idle"
  /\ pc' = "next" /\ found' = live /\ todo' = live
  /\ \E t \in {0, clock} : listed' = [c \in Collections |-> IF c \in live THEN t ELSE 0]
  /\ error' = "none" /\ gone' = {h \in Hrefs : cur[h] = 0}
  /\ UNCHANGED <<serverVars, storeVars, col, at, pend, stage, keep, work, next, faults>>

SyncUsable(c) == sync[c].token # 0 /\ sync[c].window = start

Inventory(c, token) ==
  /\ pc' = "list" /\ col' = c /\ at' = token
  /\ UNCHANGED <<todo, keep, work, next>>

(* An empty report keeps the calendar; a rejected token, a changed         *)
(* calendar, no usable token or no support takes the inventory.            *)
FetchCalendar(c) ==
  /\ pc = "next" /\ c \in todo /\ c \in live
  /\ LET delta == {h \in Members(c) : changed[h] > sync[c].token} IN
     \/ /\ SyncUsable(c) /\ delta = {}
        /\ todo' = todo \ {c} /\ keep' = keep \cup {c}
        /\ next' = [next EXCEPT ![c] = clock]
        /\ UNCHANGED <<pc, col, at, work>>
     \/ SyncUsable(c) /\ delta # {} /\ Inventory(c, clock)
     \/ Inventory(c, listed[c])
  /\ UNCHANGED <<serverVars, storeVars, found, listed, pend, stage, error, gone, faults>>

(* The members of a window, each with its tag.                             *)
RCDAVListCalendarResourcesSince ==
  /\ pc = "list" /\ col \in live
  /\ pend' = {[href |-> h, etag |-> cur[h]] :
                h \in {m \in Members(col) : cur[m] # 0 /\ hist[cur[m]].day >= start}}
  /\ pc' = "apply"
  /\ UNCHANGED <<serverVars, storeVars, found, listed, todo, col, at, stage, keep, work, next,
                 error, gone, faults>>

RCDAVMirrorResourceCurrent(e) ==
  rows[e.href] # NoRow /\ rows[e.href].etag = e.etag /\ rows[e.href].body # 0

StageSave(e, action, etag, body) ==
  /\ stage' = Append(stage, [action |-> action, href |-> e.href, etag |-> etag, body |-> body])
  /\ pend' = pend \ {e}
  /\ UNCHANGED <<serverVars, storeVars, pc, found, listed, todo, col, at, keep, work, next,
                 error, gone, faults>>

(* A download may come without a tag of its own; a member that is gone by  *)
(* the time it is requested fails the run.                                 *)
StageResource(e) ==
  /\ pc = "apply" /\ e \in pend
  /\ LET unchanged == RCDAVMirrorResourceCurrent(e) IN
     \/ unchanged /\ StageSave(e, "seen", e.etag, 0)
     \/ /\ ~unchanged /\ cur[e.href] # 0
        /\ \E etag \in {cur[e.href], e.etag} : StageSave(e, "downloaded", etag, cur[e.href])
     \/ ~unchanged /\ cur[e.href] = 0 /\ Failed("request") /\ UNCHANGED faults

(* Faulty variant: the token is read again after the downloads.            *)
TokenReread ==
  /\ pc = "apply" /\ pend = {}
  /\ pc' = "next" /\ todo' = todo \ {col} /\ next' = [next EXCEPT ![col] = clock]
  /\ col' = NoCollection /\ at' = 0
  /\ UNCHANGED <<serverVars, storeVars, found, listed, pend, stage, keep, work, error, gone, faults>>

(* The saved token precedes the inventory.                                 *)
CollectionComplete ==
  /\ pc = "apply" /\ pend = {}
  /\ pc' = "next" /\ todo' = todo \ {col} /\ next' = [next EXCEPT ![col] = at]
  /\ col' = NoCollection /\ at' = 0
  /\ UNCHANGED <<serverVars, storeVars, found, listed, pend, stage, keep, work, error, gone, faults>>

(* The calendar was hidden since it was discovered.                        *)
CalendarGone ==
  /\ \/ pc = "list" /\ col \notin live
     \/ pc = "next" /\ \E c \in todo : c \notin live
  /\ Failed("request") /\ UNCHANGED faults

(* A failed request, a cancellation or the end of the process.             *)
Interrupted ==
  /\ pc \in Runs
  /\ faults < MaxFaults /\ faults' = faults + 1
  /\ Failed("request")

-----------------------------------------------------------------------------
(* The transaction.  What fails, is cancelled or ends with the process     *)
(* before the commit leaves the database as it was.                        *)

Kept == {h \in Stored : Home[h] \in keep /\ ~rows[h].missing /\ ~rows[h].excluded}

RCCalendarStoreBeginScopedRun ==
  /\ pc = "next" /\ todo = {}
  /\ pc' = "commit" /\ work' = [rows |-> rows, seen |-> Kept, applied |-> 0]
  /\ UNCHANGED <<serverVars, storeVars, found, listed, todo, col, at, pend, stage, keep, next,
                 error, gone, faults>>

NextId(t) == 1 + Cardinality({h \in Hrefs : t[h] # NoRow})
Parses(s, c) == hist[s.body].level <= c

(* Faulty variant: a renamed resource becomes a new record.                *)
SaveRenewed(t, from, s, c) ==
  LET old == [t[from] EXCEPT !.id = IF from # s.href \/ @ = 0 THEN NextId(t) ELSE @]
      new == [old EXCEPT !.uid = IF Parses(s, c) THEN hist[s.body].uid ELSE @, !.etag = s.etag,
                         !.body = s.body, !.bad = ~Parses(s, c), !.missing = FALSE, !.excluded = FALSE]
  IN  [[t EXCEPT ![from] = NoRow] EXCEPT ![s.href] = new]

(* The row of from is stored at s.href: itself, a renamed or a new row.  A *)
(* body that does not parse replaces the raw one, its tag and its error,   *)
(* and keeps the UID.                                                      *)
SaveRow(t, from, s, c) ==
  LET old == [t[from] EXCEPT !.id = IF @ = 0 THEN NextId(t) ELSE @]
      new == [old EXCEPT !.uid = IF Parses(s, c) THEN hist[s.body].uid ELSE @, !.etag = s.etag,
                         !.body = s.body, !.bad = ~Parses(s, c), !.missing = FALSE, !.excluded = FALSE]
  IN  [[t EXCEPT ![from] = NoRow] EXCEPT ![s.href] = new]

(* Rows of the calendar that hold the UID and are not known to be deleted. *)
SameUid(t, s, c) ==
  {o \in Members(Home[s.href]) \ {s.href} :
     Parses(s, c) /\ t[o].uid = hist[s.body].uid /\ ~t[o].missing}

(* The row RCCalendarStoreSave takes for the resource: one with its UID is *)
(* its own under an old address, unless the new address has a row already  *)
(* or this run has seen the other.                                         *)
Resource(t, s, c) == IF SameUid(t, s, c) = {} THEN {s.href} ELSE SameUid(t, s, c)
Duplicate(t, seen, s, from) == from # s.href /\ (t[s.href] # NoRow \/ from \in seen)

Applied(s, t) ==
  /\ work' = [rows |-> t, seen |-> work.seen \cup {s.href}, applied |-> work.applied + 1]
  /\ UNCHANGED <<serverVars, storeVars, pc, found, listed, todo, col, at, pend, stage, keep, next,
                 error, gone>>

RCCalendarStoreSave(s) ==
  \E from \in Resource(work.rows, s, codec) :
    IF Duplicate(work.rows, work.seen, s, from) THEN Failed("duplicate")
    ELSE Applied(s, SaveRow(work.rows, from, s, codec))

RCCalendarStoreSeen(s) ==
  IF work.rows[s.href].etag = s.etag /\ work.rows[s.href].body # 0
  THEN Applied(s, [work.rows EXCEPT ![s.href].missing = FALSE, ![s.href].excluded = FALSE])
  ELSE Failed("changed")

commitCalendar ==
  /\ pc = "commit" /\ work.applied < Len(stage)
  /\ LET s == stage[work.applied + 1] IN
     \/ s.action = "seen" /\ RCCalendarStoreSeen(s)
     \/ s.action = "downloaded" /\ RCCalendarStoreSave(s)
  /\ UNCHANGED faults

(* Faulty variant: a windowed run decides about deletion too.              *)
FinishAlwaysDeletes(row, seen) == [row EXCEPT !.excluded = FALSE, !.missing = ~seen]

(* A time range can not establish deletion, only that a resource left it.  *)
FinishRow(row, seen) ==
  IF start # 0 THEN [row EXCEPT !.excluded = ~seen]
  ELSE [row EXCEPT !.excluded = FALSE, !.missing = ~seen]

RCCalendarStoreFinishRun ==
  /\ pc = "commit" /\ work.applied = Len(stage)
  /\ rows' = [h \in Hrefs |->
       IF work.rows[h] = NoRow THEN NoRow ELSE FinishRow(work.rows[h], h \in work.seen)]
  /\ calMissing' = [c \in Collections |-> c \notin found]
  /\ sync' = [c \in Collections |->
       IF c \in found THEN [token |-> next[c], window |-> start] ELSE NoSync]
  /\ published' = FALSE
  /\ Finished
  /\ UNCHANGED <<serverVars, bases, ops, codec, error, gone, faults>>

-----------------------------------------------------------------------------
(* Between two fetches.                                                    *)

Available(h) ==
  rows[h] # NoRow /\ ~rows[h].missing /\ ~rows[h].excluded /\ ~calMissing[Home[h]]

(* What cannot be parsed is represented by its last publication.           *)
ExportRow(row) ==
  [row EXCEPT !.exported = IF row.bad THEN @ ELSE row.body,
              !.exportETag = IF row.bad THEN @ ELSE row.etag]

(* The publication of a whole generation, and its write bases.             *)
RCExchangeCalendars ==
  /\ pc = "idle" /\ \E c \in Collections : sync[c] # NoSync \/ ~calMissing[c]
  /\ rows' = [h \in Hrefs |-> IF Available(h) THEN ExportRow(rows[h]) ELSE rows[h]]
  /\ bases' = [i \in DOMAIN bases |->
       IF \E h \in Hrefs : Available(h) /\ rows[h].id = i /\ rows'[h].exported # 0
       THEN LET h == CHOOSE x \in Hrefs : rows[x].id = i
            IN  [etag |-> rows'[h].exportETag, body |-> rows'[h].exported]
       ELSE NoBase]
  /\ published' = TRUE
  /\ UNCHANGED <<serverVars, calMissing, sync, ops, codec, fetchVars, error, gone, faults>>

(* A local edit of a published event, or a creation, enters the journal;   *)
(* later it is acknowledged or cancelled.                                  *)
Enqueue(h) ==
  /\ pc = "idle" /\ ops = {}
  /\ \/ Available(h) /\ bases[rows[h].id] # NoBase
     \/ rows[h] = NoRow
  /\ ops' = {[id |-> rows[h].id, href |-> h]}
  /\ UNCHANGED <<serverVars, rows, calMissing, sync, published, bases, codec, fetchVars,
                 error, gone, faults>>

Resolve ==
  /\ pc = "idle" /\ ops # {}
  /\ ops' = {}
  /\ UNCHANGED <<serverVars, rows, calMissing, sync, published, bases, codec, fetchVars,
                 error, gone, faults>>

Concerns(op, h) == rows[h] # NoRow /\ (op.id = rows[h].id \/ op.href = h)

Prunable(h) == rows[h].excluded /\ \A op \in ops : ~Concerns(op, h)

(* What left the window loses its bodies, its tags and its write base; the *)
(* row stays, so that widening the window finds the same record.           *)
RCCalendarStorePruneHistory ==
  /\ pc = "idle" /\ published
  /\ rows' = [h \in Hrefs |->
       IF Prunable(h)
       THEN [rows[h] EXCEPT !.etag = 0, !.body = 0, !.exported = 0, !.exportETag = 0, !.bad = FALSE]
       ELSE rows[h]]
  /\ bases' = [i \in DOMAIN bases |->
       IF \E h \in Hrefs : Prunable(h) /\ rows[h].id = i THEN NoBase ELSE bases[i]]
  /\ rows' # rows
  /\ UNCHANGED <<serverVars, calMissing, sync, published, ops, codec, fetchVars, error, gone,
                 faults>>

(* The daemon is replaced by a release with the improved codec, which      *)
(* retries the cached parse failures when it opens the store.              *)
RCCalendarStoreOpen ==
  /\ pc = "idle" /\ codec = 0 /\ 1 \in Levels
  /\ codec' = 1 /\ pc' = "reparse" /\ error' = "none"
  /\ UNCHANGED <<serverVars, rows, calMissing, sync, published, bases, ops, found, listed, todo, col,
                 at, pend, stage, keep, work, next, gone, faults>>

(* One resource after the other, each with its own savepoint: a failure    *)
(* leaves the store closed, and what was reparsed before it committed.     *)
RCReparseCachedResources ==
  /\ pc = "reparse"
  /\ LET retried == {h \in Hrefs : Available(h) /\ rows[h].bad} IN
     \/ retried = {} /\ pc' = "idle" /\ UNCHANGED <<rows, error>>
     \/ \E h \in retried :
          LET s == [href |-> h, etag |-> rows[h].etag, body |-> rows[h].body] IN
          /\ \A g \in retried : rows[h].id <= rows[g].id
          /\ \E from \in Resource(rows, s, codec) :
               IF Duplicate(rows, {}, s, from)
               THEN pc' = "closed" /\ error' = "duplicate" /\ UNCHANGED rows
               ELSE rows' = SaveRow(rows, from, s, codec) /\ UNCHANGED <<pc, error>>
  /\ UNCHANGED <<serverVars, calMissing, sync, published, bases, ops, codec, found, listed, todo, col,
                 at, pend, stage, keep, work, next, gone, faults>>

-----------------------------------------------------------------------------

Server ==
  \/ \E h \in Hrefs :
       \/ ServerDelete(h)
       \/ \E body \in Bodies : ServerPut(h, body)
  \/ \E c \in Hideable, shown \in BOOLEAN : CalendarShown(c, shown)
  \/ \E k \in Windows : SetWindow(k)

Fetch ==
  \/ RCDAVListCollections
  \/ \E c \in todo : FetchCalendar(c)
  \/ RCDAVListCalendarResourcesSince \/ CalendarGone
  \/ \E e \in pend : StageResource(e)
  \/ CollectionComplete
  \/ RCCalendarStoreBeginScopedRun \/ commitCalendar \/ RCCalendarStoreFinishRun

Local ==
  \/ RCExchangeCalendars \/ RCCalendarStorePruneHistory
  \/ RCCalendarStoreOpen \/ RCReparseCachedResources
  \/ Resolve \/ \E h \in Hrefs : Enqueue(h)

Next == Server \/ Fetch \/ Interrupted \/ Local

Spec == Init /\ [][Next]_vars

-----------------------------------------------------------------------------

Listed      == [href : Hrefs, etag : 1 .. MaxClock]
StageAction == [action : {"seen", "downloaded"}, href : Hrefs, etag : 1 .. MaxClock, body : 0 .. MaxClock]
Tables      == [Hrefs -> Row \cup {NoRow}]

(* Row ids are assigned once; the staging area and the transaction are     *)
(* private to a run.                                                       *)
TypeOK ==
  /\ clock \in 1 .. MaxClock /\ live \subseteq Collections /\ start \in Windows
  /\ cur \in [Hrefs -> 0 .. clock] /\ changed \in [Hrefs -> 0 .. clock]
  /\ hist \in [1 .. MaxClock -> Bodies \cup {NoBody}]
  /\ rows \in Tables /\ calMissing \in [Collections -> BOOLEAN]
  /\ \A g, h \in Stored : rows[g].id = rows[h].id => g = h
  /\ sync \in [Collections -> [token : 0 .. clock, window : Windows]]
  /\ bases \in [1 .. MaxClock -> [etag : 0 .. MaxClock, body : 0 .. MaxClock]]
  /\ pc \in Runs \cup {"idle", "reparse", "closed"}
  /\ todo \subseteq found /\ found \subseteq Collections /\ keep \subseteq found
  /\ listed \in [Collections -> 0 .. clock] /\ next \in [Collections -> 0 .. clock]
  /\ col \in found \cup {NoCollection} /\ at \in 0 .. clock /\ pend \subseteq Listed
  /\ stage \in Seq(StageAction)
  /\ work \in [rows : Tables, seen : SUBSET Hrefs, applied : Nat]
  /\ pc \notin Runs => stage = <<>> /\ pend = {} /\ found = {}
  /\ pc # "commit" => work = NoWork
  /\ error \in {"none", "request", "duplicate", "changed"} /\ gone \subseteq Hrefs
  /\ codec \in {0, 1} /\ published \in BOOLEAN /\ faults \in 0 .. MaxFaults

(* The mirror shows h exactly as window k of the server does.              *)
Mirrored(h, k) ==
  IF cur[h] # 0 /\ hist[cur[h]].day >= k
  THEN rows[h] # NoRow /\ ~rows[h].missing /\ ~rows[h].excluded
       /\ rows[h].etag = cur[h] /\ rows[h].body = cur[h]
  ELSE rows[h] # NoRow => rows[h].missing \/ rows[h].excluded

(* A saved token never skips a change of its window, however the token     *)
(* checks, the inventories, renames and window changes interleave with the *)
(* changes of other clients and with pruning.                              *)
NoMissedChange ==
  \A h \in Hrefs : LET s == sync[Home[h]] IN
    s.token # 0 /\ changed[h] <= s.token => Mirrored(h, s.window)

(* A resource is taken for deleted only by a run without a window, and     *)
(* only if it or its calendar really was absent at some moment of it.      *)
AbsenceIsReal ==
  [][\A h \in Stored : ~rows[h].missing /\ rows'[h].missing /\ rows'[h] # NoRow =>
       start = 0 /\ (h \in gone \/ Home[h] \notin found)]_vars

(* The identity the local stores know an event by survives every run: a    *)
(* row keeps its address or its UID and is never dropped, so a renamed     *)
(* resource, a pruned one and one that comes back are still themselves.    *)
IdentityKept ==
  [][\A h \in Stored : \E g \in Hrefs :
       /\ rows'[g].id = rows[h].id
       /\ g = h \/ rows'[g].uid = rows[h].uid]_vars

(* A run that is refused for a duplicate UID found that UID twice.         *)
DuplicateIsReal ==
  [][error # "duplicate" /\ error' = "duplicate" =>
       \E i, j \in DOMAIN stage :
         LET uid(s) == IF s.action = "seen" THEN rows[s.href].uid ELSE hist[s.body].uid
         IN  i # j /\ uid(stage[i]) = uid(stage[j])]_vars
=============================================================================
