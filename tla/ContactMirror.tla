---------------------------- MODULE ContactMirror ---------------------------
(***************************************************************************)
(* One CardDAV account mirrored into the contact database: discovery,      *)
(* paged sync-collection reports with their fallbacks, downloads staged    *)
(* outside the database, and one transaction that commits the generation   *)
(* (RCCardDAVMirror.c, RCDAVClient.c, RCDAVStaging.c, RCDAVSyncState.c,    *)
(* RCContactStore.c).  Other clients change the server between any two     *)
(* requests; a request, the process or the database can fail at any point. *)
(*                                                                         *)
(* The server is external.  Its changes are numbered by clock; a sync      *)
(* token is the number of the last change it accounts for, an entity tag   *)
(* and a body are the number of the change that stored the revision.  0 is *)
(* a NULL token, the empty token of an initial sync, and an absent member. *)
(*                                                                         *)
(* A run's id is only ever compared with the running one, so seen_run_id   *)
(* is the flag seen of the committing transaction.                         *)
(***************************************************************************)
EXTENDS Naturals

CONSTANTS
  Collections, \* address-book URLs
  Hrefs,       \* member URLs
  Home,        \* Home[h]: the collection of h
  Cycling,     \* TRUE: the server may repeat a continuation token
  MaxClock,    \* bound: changes on the server
  MaxFaults,   \* bound: failed requests, cancellations and crashes
  NoCollection

ASSUME MirrorConstants ==
  /\ Home \in [Hrefs -> Collections]
  /\ Cycling \in BOOLEAN /\ NoCollection \notin Collections
  /\ MaxClock \in Nat \ {0} /\ MaxFaults \in Nat

VARIABLES
  clock,   \* the number of the last change on the server
  live,    \* collections that exist on the server
  rev,     \* rev[h]: the current revision, 0 when absent
  good,    \* good[h]: the current body is a valid vCard
  changed, \* changed[h]: the last change of h
  rows,    \* contacts: rows[h], NoRow when never stored
  token,   \* dav_sync_state: token[c], 0 for NULL or no row
  bases,   \* write_bases, as of the last publication
  pc,      \* where the fetch is
  found,   \* collections discovered by this run
  todo,    \* of those, the ones not yet fetched
  col,     \* the collection being fetched
  used,    \* tokens sent for it in this report loop
  at,      \* the last of them
  pend,    \* listed members still to be applied, [href, etag]
  final,   \* the page being applied is the last one
  stage,   \* the staging database, by member
  keep,    \* keep[c]: members not reported are unchanged
  next,    \* next[c]: the token to save
  gone,    \* history: members absent at some moment of this run
  faults

serverVars == <<clock, live, rev, good, changed>>
storeVars  == <<rows, token, bases>>
loopVars   == <<col, used, at, pend, final>>
fetchVars  == <<pc, found, todo, loopVars, stage, keep, next>>
vars == <<serverVars, storeVars, fetchVars, gone, faults>>

NoRow == [etag |-> 0, body |-> 0, usableETag |-> 0, usable |-> 0, missing |-> TRUE]
Row   == [etag : Nat, body : Nat, usableETag : Nat, usable : Nat, missing : BOOLEAN]
Listed == [href : Hrefs, etag : Nat]
Members(c) == {h \in Hrefs : Home[h] = c}

(* The stored rows stay as they are until the commit replays the staged    *)
(* actions, so what it will make of a member is known as soon as they are  *)
(* staged: stage[h] has whether there are any, the row they leave in their *)
(* order, and whether the run has seen the member.                         *)
Staged == [any : BOOLEAN, row : Row, seen : BOOLEAN]
NotStaged == [any |-> FALSE, row |-> NoRow, seen |-> FALSE]
NoStage == [h \in Hrefs |-> NotStaged]

Idle(v) == [c \in Collections |-> v]

Init ==
  /\ clock = 1 /\ live = Collections
  /\ rev = [h \in Hrefs |-> 0] /\ good = [h \in Hrefs |-> TRUE]
  /\ changed = [h \in Hrefs |-> 0]
  /\ rows = [h \in Hrefs |-> NoRow] /\ token = Idle(0)
  /\ bases = [h \in Hrefs |-> [etag |-> 0, body |-> 0]]
  /\ pc = "idle" /\ found = {} /\ todo = {} /\ col = NoCollection
  /\ used = {} /\ at = 0 /\ pend = {} /\ final = FALSE
  /\ stage = NoStage /\ keep = Idle(FALSE) /\ next = Idle(0)
  /\ gone = {} /\ faults = 0

-----------------------------------------------------------------------------
(* The server's other clients.                                             *)

Change(hs, r) ==
  /\ clock < MaxClock
  /\ clock' = clock + 1
  /\ changed' = [h \in Hrefs |-> IF h \in hs THEN clock + 1 ELSE changed[h]]
  /\ rev' = [h \in Hrefs |-> IF h \in hs THEN r ELSE rev[h]]
  /\ UNCHANGED <<storeVars, fetchVars, faults>>

ServerPut(h, ok) ==
  /\ Home[h] \in live
  /\ Change({h}, clock + 1)
  /\ good' = [good EXCEPT ![h] = ok]
  /\ UNCHANGED <<live, gone>>

ServerDelete(h) ==
  /\ rev[h] # 0
  /\ Change({h}, 0)
  /\ gone' = gone \cup {h}
  /\ UNCHANGED <<live, good>>

CollectionRemoved(c) ==
  /\ c \in live
  /\ live' = live \ {c}
  /\ Change({h \in Members(c) : rev[h] # 0}, 0)
  /\ gone' = gone \cup Members(c)
  /\ UNCHANGED good

CollectionAdded(c) ==
  /\ c \notin live
  /\ live' = live \cup {c}
  /\ Change({}, 0)
  /\ UNCHANGED <<good, gone>>

-----------------------------------------------------------------------------
(* The actions staged for the commit.                                      *)

(* Faulty variant: a malformed body moves the usable tag.                  *)
SaveMovesTag(row, s) ==
  [row EXCEPT !.etag = s.etag, !.body = s.body, !.missing = FALSE,
              !.usableETag = s.etag, !.usable = IF s.ok THEN s.body ELSE @]

(* A body that does not parse replaces the raw one and its tag; the last   *)
(* usable version stays.                                                   *)
RCContactStoreSaveResource(row, s) ==
  [row EXCEPT !.etag = s.etag, !.body = s.body, !.missing = FALSE,
              !.usableETag = IF s.ok THEN s.etag ELSE @,
              !.usable = IF s.ok THEN s.body ELSE @]

(* w: what the actions of a member made of it so far.                      *)
RCContactStoreMarkSeen(w) == [w EXCEPT !.seen = w.row # NoRow]
RCContactStoreSyncDelete(w) == [w EXCEPT !.seen = FALSE]

(* A delta starts from what was there.                                     *)
RCContactStoreKeepCollection(h) == keep[Home[h]] /\ ~rows[h].missing

(* Faulty variant: member 404s are not deletions.                          *)
CommitKeeping(w, s) ==
  CASE s.action = "deleted"    -> w
    [] s.action = "seen"       -> RCContactStoreMarkSeen(w)
    [] s.action = "downloaded" -> [w EXCEPT !.row = RCContactStoreSaveResource(w.row, s), !.seen = TRUE]

RCCommitContact(w, s) ==
  CASE s.action = "deleted"    -> RCContactStoreSyncDelete(w)
    [] s.action = "seen"       -> RCContactStoreMarkSeen(w)
    [] s.action = "downloaded" -> [w EXCEPT !.row = RCContactStoreSaveResource(w.row, s), !.seen = TRUE]

(* What the commit makes of h: KeepCollection, then the staged actions.    *)
RCDAVStageApply(h) ==
  IF stage[h].any THEN stage[h]
  ELSE [any |-> FALSE, row |-> rows[h], seen |-> RCContactStoreKeepCollection(h)]

RCDAVStageReset(c) == [h \in Hrefs |-> IF Home[h] = c THEN NotStaged ELSE stage[h]]
RCDAVStageHasResource(h) == stage[h].any

-----------------------------------------------------------------------------
(* Fetching: nothing here touches the contact database.                    *)

Finished ==
  /\ pc' = "idle" /\ found' = {} /\ todo' = {} /\ col' = NoCollection
  /\ used' = {} /\ at' = 0 /\ pend' = {} /\ final' = FALSE
  /\ stage' = NoStage /\ keep' = Idle(FALSE) /\ next' = Idle(0)

(* The run ends without a commit; what was staged is discarded.            *)
Failed == Finished /\ UNCHANGED <<serverVars, storeVars, gone>>

(* Home discovery lists the collections.                                   *)
Discover ==
  /\ pc = "idle"
  /\ pc' = "next" /\ found' = live /\ todo' = live
  /\ gone' = {h \in Hrefs : rev[h] = 0}
  /\ UNCHANGED <<serverVars, storeVars, loopVars, stage, keep, next, faults>>

(* Faulty variant: a delta is taken for a complete inventory.              *)
ReportComplete(c, base) ==
  /\ pc' = "report" /\ col' = c
  /\ used' = {base} /\ at' = base
  /\ keep' = [keep EXCEPT ![c] = FALSE]

(* Report from base, the stored token or, for an initial sync, 0.          *)
Report(c, base) ==
  /\ pc' = "report" /\ col' = c
  /\ used' = {base} /\ at' = base
  /\ keep' = [keep EXCEPT ![c] = base # 0]

FetchCollection(c) ==
  /\ pc = "next" /\ c \in todo
  /\ \/ Report(c, token[c])
     \/ pc' = "list" /\ col' = c /\ UNCHANGED <<used, at, keep>>
  /\ UNCHANGED <<serverVars, storeVars, found, todo, pend, final, stage, next, gone, faults>>

(* What the server says of the members whose last change is in at+1 .. x;  *)
(* an empty token asks for no deletions.                                   *)
Changes(x) ==
  {[href |-> h, etag |-> rev[h]] :
     h \in {m \in Members(col) : changed[m] > at /\ changed[m] <= x /\ (at = 0 => rev[m] # 0)}}

More(x) == \E m \in Members(col) : changed[m] > x

(* Faulty variant: a continuation without members is followed.             *)
EmptyContinued(x, entries, more) == entries # {} => x \notin used

(* A continuation has to advance and must not cycle.                       *)
PageAccepted(x, entries, more) ==
  /\ more => entries # {}
  /\ more \/ entries # {} => x \notin used

Page(x, entries, more) ==
  \/ /\ PageAccepted(x, entries, more)
     /\ pc' = "apply" /\ pend' = entries /\ final' = ~more
     /\ used' = used \cup {x} /\ at' = x
     /\ UNCHANGED <<serverVars, storeVars, found, todo, col, stage, keep, next, gone, faults>>
  \/ /\ ~PageAccepted(x, entries, more)
     /\ Failed /\ UNCHANGED faults

(* A server that hands out a continuation token a second time.             *)
RepeatedPage ==
  /\ Cycling /\ pc = "report" /\ col \in live
  /\ \E x \in used, hs \in SUBSET {h \in Members(col) : rev[h] # 0} :
       x > 0 /\ Page(x, {[href |-> h, etag |-> rev[h]] : h \in hs}, TRUE)

RCDAVSyncCollection ==
  /\ pc = "report" /\ col \in live
  /\ \E x \in at .. clock :
       /\ x > 0 /\ (More(x) => Changes(x) # {})
       /\ Page(x, Changes(x), More(x))

(* A rejected token or an unsupported report: staged pages are discarded,  *)
(* a delta retries as an initial sync, an initial sync as a listing.       *)
Fallback ==
  /\ pc = "report" /\ col \in live
  /\ stage' = RCDAVStageReset(col)
  /\ IF keep[col]
     THEN Report(col, 0)
     ELSE pc' = "list" /\ UNCHANGED <<col, used, at, keep>>
  /\ UNCHANGED <<serverVars, storeVars, found, todo, pend, final, next, gone, faults>>

(* A PROPFIND inventory carries no token.                                  *)
RCDAVListResources ==
  /\ pc = "list" /\ col \in live
  /\ pend' = {[href |-> h, etag |-> rev[h]] : h \in {m \in Members(col) : rev[m] # 0}}
  /\ pc' = "apply" /\ final' = TRUE /\ used' = {} /\ at' = 0
  /\ keep' = [keep EXCEPT ![col] = FALSE]
  /\ UNCHANGED <<serverVars, storeVars, found, todo, col, stage, next, gone, faults>>

RCDAVMirrorResourceCurrent(e) == rows[e.href] # NoRow /\ rows[e.href].etag = e.etag

StageSave(e, action, etag, body, ok) ==
  /\ LET s == [action |-> action, etag |-> etag, body |-> body, ok |-> ok] IN
     stage' = [stage EXCEPT ![e.href] =
       [RCCommitContact(RCDAVStageApply(e.href), s) EXCEPT !.any = TRUE]]
  /\ pend' = pend \ {e}
  /\ UNCHANGED <<serverVars, storeVars, pc, found, todo, col, used, at, final, keep, next,
                 gone, faults>>

(* A download may come without a tag of its own; a member that is gone by  *)
(* the time it is requested fails the run.                                 *)
RCApplyContactChanges(e) ==
  /\ pc = "apply" /\ e \in pend
  /\ LET unchanged == RCDAVMirrorResourceCurrent(e) /\ ~RCDAVStageHasResource(e.href) IN
     \/ e.etag = 0 /\ StageSave(e, "deleted", 0, 0, TRUE)
     \/ e.etag # 0 /\ unchanged /\ StageSave(e, "seen", e.etag, 0, TRUE)
     \/ /\ e.etag # 0 /\ ~unchanged /\ rev[e.href] # 0
        /\ \E etag \in {rev[e.href], e.etag} :
             StageSave(e, "downloaded", etag, rev[e.href], good[e.href])
     \/ e.etag # 0 /\ ~unchanged /\ rev[e.href] = 0 /\ Failed /\ UNCHANGED faults

(* Faulty variant: the token is read again after the downloads.            *)
TokenReread ==
  /\ pc = "apply" /\ pend = {}
  /\ IF final
     THEN /\ pc' = "next" /\ todo' = todo \ {col} /\ next' = [next EXCEPT ![col] = clock]
          /\ col' = NoCollection /\ used' = {} /\ at' = 0 /\ final' = FALSE
     ELSE pc' = "report" /\ UNCHANGED <<todo, next, col, used, at, final>>
  /\ UNCHANGED <<serverVars, storeVars, found, pend, stage, keep, gone, faults>>

PageApplied ==
  /\ pc = "apply" /\ pend = {}
  /\ IF final
     THEN /\ pc' = "next" /\ todo' = todo \ {col} /\ next' = [next EXCEPT ![col] = at]
          /\ col' = NoCollection /\ used' = {} /\ at' = 0 /\ final' = FALSE
     ELSE pc' = "report" /\ UNCHANGED <<todo, next, col, used, at, final>>
  /\ UNCHANGED <<serverVars, storeVars, found, pend, stage, keep, gone, faults>>

(* The collection was removed since it was discovered: 404.                *)
CollectionGone ==
  /\ pc \in {"report", "list"} /\ col \notin live
  /\ Failed /\ UNCHANGED faults

(* A failed request, a cancellation or the end of the process.             *)
Interrupted ==
  /\ pc # "idle"
  /\ faults < MaxFaults /\ faults' = faults + 1
  /\ Failed

-----------------------------------------------------------------------------
(* The transaction.                                                        *)

(* KeepCollection, the staged actions in order, FinishCollection.          *)
Committed(h) ==
  LET w == RCDAVStageApply(h)
  IN  IF Home[h] \in found
      THEN [w.row EXCEPT !.missing = ~w.seen]
      ELSE [rows[h] EXCEPT !.missing = TRUE]

(* Every collection was fetched: the generation, its tokens and the        *)
(* absence of what was not seen commit together.                           *)
Commit ==
  /\ pc = "next" /\ todo = {}
  /\ rows' = [h \in Hrefs |-> Committed(h)]
  /\ token' = [c \in Collections |-> IF c \in found THEN next[c] ELSE 0]
  /\ Finished
  /\ UNCHANGED <<serverVars, bases, gone, faults>>

Available(h) == ~rows[h].missing /\ rows[h].usable # 0

(* The write bases are exactly the bodies published.                       *)
RCContactStoreMarkPublished ==
  /\ pc = "idle"
  /\ bases' = [h \in Hrefs |->
       IF Available(h) THEN [etag |-> rows[h].usableETag, body |-> rows[h].usable]
       ELSE [etag |-> 0, body |-> 0]]
  /\ UNCHANGED <<serverVars, rows, token, fetchVars, gone, faults>>

-----------------------------------------------------------------------------

Server ==
  \/ \E h \in Hrefs : ServerDelete(h) \/ \E ok \in BOOLEAN : ServerPut(h, ok)
  \/ \E c \in Collections : CollectionRemoved(c) \/ CollectionAdded(c)

Fetch ==
  \/ Discover
  \/ \E c \in todo : FetchCollection(c)
  \/ RCDAVSyncCollection \/ RepeatedPage \/ Fallback \/ RCDAVListResources \/ CollectionGone
  \/ \E e \in pend : RCApplyContactChanges(e)
  \/ PageApplied \/ Commit

Next == Server \/ Fetch \/ Interrupted \/ RCContactStoreMarkPublished

Spec == Init /\ [][Next]_vars

(* The worker polls for ever; each request is answered or fails.           *)
FairSpec == Spec /\ WF_vars(Fetch)

-----------------------------------------------------------------------------

(* The staging area is private to a run.                                   *)
TypeOK ==
  /\ clock \in 1 .. MaxClock /\ live \subseteq Collections
  /\ rev \in [Hrefs -> 0 .. clock] /\ good \in [Hrefs -> BOOLEAN]
  /\ changed \in [Hrefs -> 0 .. clock]
  /\ rows \in [Hrefs -> Row] /\ token \in [Collections -> 0 .. clock]
  /\ bases \in [Hrefs -> [etag : 0 .. clock, body : 0 .. clock]]
  /\ pc \in {"idle", "next", "report", "list", "apply"}
  /\ found \subseteq Collections /\ todo \subseteq found /\ col \in found \cup {NoCollection}
  /\ used \subseteq 0 .. clock /\ at \in 0 .. clock
  /\ pend \subseteq Listed /\ final \in BOOLEAN
  /\ stage \in [Hrefs -> Staged]
  /\ keep \in [Collections -> BOOLEAN] /\ next \in [Collections -> 0 .. clock]
  /\ pc = "idle" => stage = NoStage /\ todo = {}
  /\ gone \subseteq Hrefs /\ faults \in 0 .. MaxFaults

Agrees(h) ==
  IF rev[h] = 0 THEN rows[h].missing
  ELSE ~rows[h].missing /\ rows[h].etag = rev[h] /\ rows[h].body = rev[h]

(* A saved token never skips a change: whatever the server changed up to   *)
(* the token is in the mirror, however the pages, the fallbacks and the    *)
(* downloads interleaved with the changes of other clients.                *)
NoMissedChange ==
  \A h \in Hrefs : token[Home[h]] # 0 /\ changed[h] <= token[Home[h]] => Agrees(h)

(* A contact is retired only if it, or its address book, really was absent *)
(* at some moment of the run: never because of a partial inventory.        *)
AbsenceIsReal ==
  [][\A h \in Hrefs : ~rows[h].missing /\ rows'[h].missing =>
       h \in gone \/ Home[h] \notin found]_vars

(* A write base never pairs the server's current tag with another body, so *)
(* an If-Match on it can not approve an overwrite of an unseen revision,   *)
(* even after a malformed replacement or a download without a tag.         *)
BaseIsHonest ==
  \A h \in Hrefs : bases[h].etag # 0 /\ bases[h].etag = rev[h] => bases[h].body = rev[h]

(* Once the server and the faults settle, so does the mirror, on what the  *)
(* server has, unless the server repeats its tokens for ever.              *)
Converges == []<><<RepeatedPage>>_vars \/ <>[](\A h \in Hrefs : Agrees(h))

(* A fetch always ends, even on a server that repeats continuation tokens. *)
FetchEnds == pc # "idle" ~> pc = "idle"
=============================================================================
