---------------------------- MODULE WriteJournal ----------------------------
(***************************************************************************)
(* The durable outgoing-write journal of one account (RCWriteJournal.c).   *)
(*                                                                         *)
(* The four SQLite tables are four variables.  Every function of the       *)
(* journal that changes a table is one action; a call that is refused, or  *)
(* that replays a change already journaled, leaves the tables alone and is *)
(* a stuttering step.  Next lets an arbitrary caller make any call with    *)
(* any arguments, so what holds of Spec holds whatever the coordinator,    *)
(* the writer and the conflict resolver do with the journal.               *)
(*                                                                         *)
(* Data.  A body, an href, a key, a change identifier and a receipt are    *)
(* opaque values; Null is SQL NULL.  An entity tag the code would not call *)
(* strong (RCWriteETagIsStrong) is only ever tested for strength and for   *)
(* equality with a strong one, so Null also stands for a weak or malformed *)
(* tag.  http_status 0 is a NULL column read through sqlite3_column_int.   *)
(***************************************************************************)
EXTENDS Naturals

CONSTANTS
  Keys,        \* resource_key values
  Hrefs,       \* hrefs of the account's resources
  Bodies,      \* non-empty resource bodies
  ETags,       \* strong entity tags
  Changes,     \* change identifiers chosen by the callers of Enqueue
  Receipts,    \* non-empty resolution receipts
  Reasons,     \* attention reason codes
  Revisions,   \* published local revisions, all positive
  Statuses,    \* HTTP statuses that can be recorded
  Times,       \* clock readings an arbitrary caller may pass to BeginAttempt
  MaxOps,      \* bound: rows of write_operations
  MaxAttempts, \* bound: attempts per operation
  Null

ASSUME JournalConstants ==
  /\ MaxOps \in Nat \ {0} /\ MaxAttempts \in Nat
  /\ Revisions \subseteq Nat \ {0} /\ 1 \in Revisions
  /\ Statuses \subseteq Nat \ {0} /\ 200 \in Statuses /\ 404 \in Statuses
  /\ Times \subseteq Nat
  /\ Null \notin Keys \cup Hrefs \cup Bodies \cup ETags \cup Receipts \cup Reasons

VARIABLES
  bases,       \* write_bases: the revision last published locally, per key
  ops,         \* write_operations, by row id; ids above lastId are unused
  lastId,      \* the largest row id; rows are never deleted
  resolutions, \* write_resolutions: conflict id -> its successor and receipt
  attention    \* write_attention: conflict id -> reason, or Null

journalVars == <<bases, ops, lastId, resolutions, attention>>

Ids   == 1 .. MaxOps
Rows  == 1 .. lastId
Kinds == {"create", "update", "delete"}
OpStates == {"queued", "uncertain", "applied", "conflict", "acknowledged", "cancelled"}
Terminal == {"acknowledged", "cancelled"}
Results  == {"uncertain", "applied", "conflict"}

RCWriteETagIsStrong(etag) == etag # Null

(* A change identifier is the caller's own, or one reserved for the        *)
(* successor of an operation: "resolution:<id>", "two-way-successor:<id>". *)
ChangeIds == ({"local"} \X Changes) \cup ({"resolution", "successor"} \X Ids)

RCWriteOperation ==
  [changeID : ChangeIds, resourceKey : Keys, href : Hrefs, kind : Kinds,
   state : OpStates, localRevision : Revisions \cup {0},
   baseETag : ETags \cup {Null}, baseBody : Bodies \cup {Null},
   desiredBody : Bodies \cup {Null}, attempts : Nat, retryAt : Nat,
   httpStatus : Statuses \cup {0},
   resultETag : ETags \cup {Null}, resultBody : Bodies \cup {Null}]

Base == [href : Hrefs \cup {Null}, etag : ETags \cup {Null},
         body : Bodies \cup {Null}, revision : Revisions \cup {0}]
NoBase == [href |-> Null, etag |-> Null, body |-> Null, revision |-> 0]

Resolution   == [successor : Ids \cup {0}, receipt : Receipts \cup {Null}, mirrored : BOOLEAN]
NoResolution == [successor |-> 0, receipt |-> Null, mirrored |-> FALSE]

-----------------------------------------------------------------------------

Init ==
  /\ bases = [k \in Keys |-> NoBase]
  /\ lastId = 0
  /\ ops = [i \in Ids |-> Null]
  /\ resolutions = [i \in Ids |-> NoResolution]
  /\ attention = [i \in Ids |-> Null]

Unresolved(i) == ops[i].state \notin Terminal

(* The row INSERTed by Enqueue and by ResolveConflict.                     *)
NewOperation(change, key, href, kind, revision, etag, base, body) ==
  [changeID |-> change, resourceKey |-> key, href |-> href, kind |-> kind,
   state |-> "queued", localRevision |-> revision,
   baseETag |-> etag, baseBody |-> base, desiredBody |-> body,
   attempts |-> 0, retryAt |-> 0, httpStatus |-> 0,
   resultETag |-> Null, resultBody |-> Null]

WithState(o, state) == [o EXCEPT !.state = state]

Insert(row) ==
  /\ lastId < MaxOps
  /\ lastId' = lastId + 1
  /\ ops' = [ops EXCEPT ![lastId + 1] = row]

(* Row i is settled and its successor inserted in one transaction.         *)
Supersede(i, state, row) ==
  /\ lastId < MaxOps
  /\ lastId' = lastId + 1
  /\ ops' = [ops EXCEPT ![i] = WithState(@, state), ![lastId + 1] = row]

-----------------------------------------------------------------------------

RCWriteJournalSetBase(key, href, etag, body, revision) ==
  /\ revision > 0
  /\ bases' = [bases EXCEPT ![key] =
       [href |-> href, etag |-> etag, body |-> body, revision |-> revision]]
  /\ UNCHANGED <<ops, lastId, resolutions, attention>>

(* Publication (RCContactStoreMarkPublished, RCCalendarStoreSnapshotWrite- *)
(* Bases) and history pruning delete base rows.                            *)
DeleteBase(key) ==
  /\ bases' = [bases EXCEPT ![key] = NoBase]
  /\ UNCHANGED <<ops, lastId, resolutions, attention>>

(* Kind, revision and body have to fit before anything is read.            *)
ValidOperation(kind, revision, body) ==
  /\ (kind = "delete") <=> (body = Null)
  /\ (kind = "create") <=> (revision = 0)

ExactBase(base, kind, href, revision) ==
  IF kind = "create"
  THEN base = NoBase
  ELSE /\ base # NoBase
       /\ base.href = href
       /\ RCWriteETagIsStrong(base.etag)
       /\ base.revision = revision

(* Faulty variant: only the resource key is checked.                       *)
FreeKey(change, key, href, done) ==
  /\ \A i \in Rows : ops[i].changeID # change
  /\ \A i \in Rows \ done : ops[i].resourceKey = key => ~Unresolved(i)

(* No row has used the change identifier (a repeat is a replay or an       *)
(* error), and no row other than done is unresolved for the key or href.   *)
Free(change, key, href, done) ==
  /\ \A i \in Rows : ops[i].changeID # change
  /\ \A i \in Rows \ done :
       (ops[i].resourceKey = key \/ ops[i].href = href) => ~Unresolved(i)

RCWriteJournalEnqueue(change, key, href, kind, revision, body) ==
  /\ ValidOperation(kind, revision, body)
  /\ Free(change, key, href, {})
  /\ ExactBase(bases[key], kind, href, revision)
  /\ Insert(NewOperation(change, key, href, kind, revision,
                         bases[key].etag, bases[key].body, body))
  /\ UNCHANGED <<bases, resolutions, attention>>

(* A caller's transaction around SetBase and Enqueue (RCNativeQueue): the  *)
(* edit is pinned to the revision last published, not to the mirror's.     *)
QueueFromBase(change, key, kind, base, body) ==
  /\ base.href # Null /\ base.body # Null /\ base.revision > 0
  /\ ValidOperation(kind, base.revision, body)
  /\ Free(change, key, base.href, {})
  /\ ExactBase(base, kind, base.href, base.revision)
  /\ bases' = [bases EXCEPT ![key] = base]
  /\ Insert(NewOperation(change, key, base.href, kind, base.revision,
                         base.etag, base.body, body))
  /\ UNCHANGED <<resolutions, attention>>

Due(i, now) == ops[i].state \in {"queued", "uncertain"} /\ ops[i].retryAt <= now

(* Faulty variant: interrupted attempts are not picked up again.           *)
NextQueued(now) ==
  IF \E i \in Rows : ops[i].state = "queued"
  THEN CHOOSE i \in Rows : ops[i].state = "queued"
                            /\ \A j \in Rows : ops[j].state = "queued" => i <= j
  ELSE 0

(* The lowest due id, or 0 when nothing is due.                            *)
RCWriteJournalNext(now) ==
  IF \E i \in Rows : Due(i, now)
  THEN CHOOSE i \in Rows : Due(i, now) /\ \A j \in Rows : Due(j, now) => i <= j
  ELSE 0

(* 5 << attempts below ten attempts, an hour from then on.                 *)
Backoff(attempts) ==
  IF attempts < 10
  THEN <<5, 10, 20, 40, 80, 160, 320, 640, 1280, 2560>>[attempts + 1]
  ELSE 3600

(* Faulty variant: a retry refreshes the precondition.                     *)
Refreshed(o, now) ==
  [o EXCEPT !.state = "uncertain", !.retryAt = now + Backoff(o.attempts),
            !.attempts = o.attempts + 1, !.baseETag = bases[o.resourceKey].etag,
            !.httpStatus = 0, !.resultETag = Null, !.resultBody = Null]

Attempted(o, now) ==
  [o EXCEPT !.state = "uncertain", !.retryAt = now + Backoff(o.attempts),
            !.attempts = o.attempts + 1,
            !.httpStatus = 0, !.resultETag = Null, !.resultBody = Null]

RCWriteJournalBeginAttempt(i, now) ==
  /\ Due(i, now)
  /\ ops[i].attempts < MaxAttempts
  /\ ops' = [ops EXCEPT ![i] = Attempted(@, now)]
  /\ UNCHANGED <<bases, lastId, resolutions, attention>>

Recorded(o, state, status, etag, body) ==
  [o EXCEPT !.state = state, !.httpStatus = status, !.resultETag = etag, !.resultBody = body]

RCWriteJournalRecordResult(i, state, status, etag, body) ==
  /\ ops[i].state = "uncertain"
  /\ state = "applied" =>
       /\ status = IF ops[i].kind = "delete" THEN 404 ELSE 200
       /\ status # 404 => RCWriteETagIsStrong(etag) /\ body # Null
  /\ ops' = [ops EXCEPT ![i] = Recorded(@, state, status, etag, body)]
  /\ UNCHANGED <<bases, lastId, resolutions, attention>>

(* Faulty variant: acknowledgement does not wait for the checkpoint.       *)
Unchecked(i) == TRUE

MirrorCheckpointed(i) ==
  \A j \in Rows : resolutions[j].successor = i => resolutions[j].mirrored

RCWriteJournalAcknowledge(i) ==
  /\ ops[i].state \in {"applied", "acknowledged"}
  /\ MirrorCheckpointed(i)
  /\ ops' = [ops EXCEPT ![i] = WithState(@, "acknowledged")]
  /\ UNCHANGED <<bases, lastId, resolutions, attention>>

(* A caller's transaction (QueueSuccessor): the verified result becomes    *)
(* the base, the upload is acknowledged and the newer local edit, unless   *)
(* it encodes to the verified body, is queued on top of it.                *)
VerifiedBase(o) ==
  [href |-> o.href, etag |-> o.resultETag, body |-> o.resultBody,
   revision |-> IF o.localRevision = 0 THEN 1 ELSE o.localRevision]

QueueSuccessor(i, kind, body) ==
  LET o    == ops[i]
      base == VerifiedBase(o)
  IN  /\ o.state = "applied" /\ o.kind # "delete"
      /\ MirrorCheckpointed(i)
      /\ bases' = [bases EXCEPT ![o.resourceKey] = base]
      /\ \/ /\ kind = "update" /\ body = o.resultBody
            /\ ops' = [ops EXCEPT ![i] = WithState(@, "acknowledged")]
            /\ UNCHANGED lastId
         \/ /\ body # o.resultBody
            /\ ValidOperation(kind, base.revision, body)
            /\ Free(<<"successor", i>>, o.resourceKey, o.href, {i})
            /\ ExactBase(base, kind, o.href, base.revision)
            /\ Supersede(i, "acknowledged",
                 NewOperation(<<"successor", i>>, o.resourceKey, o.href,
                              kind, base.revision, base.etag, base.body, body))
      /\ UNCHANGED <<resolutions, attention>>

RCWriteJournalCancel(i) ==
  /\ ops[i].state \in {"queued", "conflict", "cancelled"}
  /\ ops' = [ops EXCEPT ![i] = WithState(@, "cancelled")]
  /\ UNCHANGED <<bases, lastId, resolutions, attention>>

(* The remote revision observed by the conflict permits the decision.      *)
Resolvable(o, kind) ==
  /\ o.state = "conflict"
  /\ \/ /\ o.httpStatus = 404
        /\ \/ kind = "create"
           \/ kind = "delete" /\ RCWriteETagIsStrong(o.baseETag) /\ o.localRevision > 0
     \/ /\ o.httpStatus = 200
        /\ RCWriteETagIsStrong(o.resultETag) /\ o.resultBody # Null
        /\ kind # "create"

(* Faulty variant: the successor repeats the precondition that failed.     *)
SamePrecondition(i, kind, body) ==
  LET o == ops[i] IN
  NewOperation(<<"resolution", i>>, o.resourceKey, o.href, kind,
               o.localRevision, o.baseETag, o.baseBody, body)

(* The successor is pinned to the observed remote revision: the recorded   *)
(* result, nothing for a re-creation, the old base for the deletion of     *)
(* what is already gone.                                                   *)
Successor(i, kind, body) ==
  LET o    == ops[i]
      gone == o.httpStatus = 404
      new  == gone /\ kind # "delete"
  IN  NewOperation(<<"resolution", i>>, o.resourceKey, o.href, kind,
        IF new THEN 0 ELSE o.localRevision,
        IF new THEN Null ELSE IF gone THEN o.baseETag ELSE o.resultETag,
        IF new THEN Null ELSE IF gone THEN o.baseBody ELSE o.resultBody,
        body)

(* One savepoint: successor, receipt, cancellation of the conflict and the *)
(* removal of its attention row.                                           *)
RCWriteJournalResolveConflict(i, kind, body, receipt) ==
  /\ (kind = "delete") <=> (body = Null)
  /\ resolutions[i].successor = 0
  /\ Resolvable(ops[i], kind)
  /\ Supersede(i, "cancelled", Successor(i, kind, body))
  /\ resolutions' = [resolutions EXCEPT ![i] =
       [successor |-> lastId + 1, receipt |-> receipt, mirrored |-> FALSE]]
  /\ attention' = [attention EXCEPT ![i] = Null]
  /\ UNCHANGED bases

RCWriteJournalConflictAttention(i, reason) ==
  /\ ops[i].state = "conflict"
  /\ attention' = [attention EXCEPT ![i] = reason]
  /\ UNCHANGED <<bases, ops, lastId, resolutions>>

RCWriteJournalResolutionMirrored(i) ==
  /\ ops[i].state = "applied"
  /\ \E j \in Rows :
       /\ resolutions[j].successor = i
       /\ resolutions' = [resolutions EXCEPT ![j].mirrored = TRUE]
  /\ UNCHANGED <<bases, ops, lastId, attention>>

-----------------------------------------------------------------------------

Next ==
  \/ \E k \in Keys, h \in Hrefs, e \in ETags \cup {Null}, b \in Bodies, r \in Revisions :
       RCWriteJournalSetBase(k, h, e, b, r)
  \/ \E k \in Keys : DeleteBase(k)
  \/ \E c \in Changes, k \in Keys, h \in Hrefs, kind \in Kinds,
        r \in Revisions \cup {0}, b \in Bodies \cup {Null} :
       RCWriteJournalEnqueue(<<"local", c>>, k, h, kind, r, b)
  \/ \E c \in Changes, k \in Keys, kind \in {"update", "delete"},
        base \in Base, b \in Bodies \cup {Null} :
       QueueFromBase(<<"local", c>>, k, kind, base, b)
  \/ \E i \in Rows :
       \/ \E now \in Times : RCWriteJournalBeginAttempt(i, now)
       \/ \E s \in Results, status \in Statuses,
             e \in ETags \cup {Null}, b \in Bodies \cup {Null} :
            RCWriteJournalRecordResult(i, s, status, e, b)
       \/ RCWriteJournalAcknowledge(i)
       \/ \E kind \in {"update", "delete"}, b \in Bodies \cup {Null} : QueueSuccessor(i, kind, b)
       \/ RCWriteJournalCancel(i)
       \/ \E kind \in Kinds, b \in Bodies \cup {Null}, receipt \in Receipts :
            RCWriteJournalResolveConflict(i, kind, b, receipt)
       \/ \E reason \in Reasons \cup {Null} : RCWriteJournalConflictAttention(i, reason)
       \/ RCWriteJournalResolutionMirrored(i)

Spec == Init /\ [][Next]_journalVars

-----------------------------------------------------------------------------

(* Every row has the shape of RCWriteOperation, and the tables refer only  *)
(* to rows that exist.                                                     *)
TypeOK ==
  /\ bases \in [Keys -> Base]
  /\ lastId \in 0 .. MaxOps
  /\ DOMAIN ops = Ids
  /\ \A i \in Rows : ops[i] \in RCWriteOperation
  /\ resolutions \in [Ids -> Resolution]
  /\ \A i \in Ids : resolutions[i].successor \in Rows \cup {0}
  /\ attention \in [Ids -> Reasons \cup {Null}]

Decision(o) ==
  <<o.changeID, o.resourceKey, o.href, o.kind, o.localRevision,
    o.baseETag, o.baseBody, o.desiredBody>>

KeepsHistory ==
  /\ lastId' >= lastId
  /\ \A i \in Rows : /\ Decision(ops'[i]) = Decision(ops[i])
                     /\ ops[i].state \in Terminal => ops'[i] = ops[i]

(* The journal is a history: a row never disappears, what was decided (the *)
(* resource, the kind, the pinned base, the body to write) is never        *)
(* rewritten by a retry, a publication or a resolution, and a settled row  *)
(* is never reopened.                                                      *)
JournalIsHistory == [][KeepsHistory]_journalVars

(* "One unacknowledged operation per resource/href" (RCWriteJournal.h):    *)
(* two unresolved rows never share a key or an href, although the row that *)
(* ResolveConflict inserts is never checked against the others.            *)
OneUnresolvedWrite ==
  \A i, j \in Rows :
    /\ i # j /\ Unresolved(i) /\ Unresolved(j)
    => ops[i].resourceKey # ops[j].resourceKey /\ ops[i].href # ops[j].href

(* Row s is the one successor of conflict i: a later row for the same      *)
(* resource, conditional on the remote revision that i recorded.           *)
PinnedSuccessor(i, s) ==
  /\ s > i /\ \A j \in Rows : resolutions[j].successor = s => j = i
  /\ resolutions[i].receipt # Null
  /\ ops[i].state = "cancelled"
  /\ ops[s].changeID = <<"resolution", i>>
  /\ ops[s].resourceKey = ops[i].resourceKey /\ ops[s].href = ops[i].href
  /\ \/ /\ ops[i].httpStatus = 200 /\ ops[s].kind # "create"
        /\ ops[s].baseETag = ops[i].resultETag /\ ops[s].baseETag # Null
        /\ ops[s].baseBody = ops[i].resultBody
     \/ ops[i].httpStatus = 404 /\ ops[s].kind = "create" /\ ops[s].baseETag = Null
     \/ /\ ops[i].httpStatus = 404 /\ ops[s].kind = "delete"
        /\ ops[s].baseETag = ops[i].baseETag /\ ops[s].baseETag # Null

(* A resolved conflict stays cancelled for good with one successor, whose  *)
(* precondition is still the remote revision the conflict recorded (or the *)
(* absence, or for a deletion of what is gone the original base): neither  *)
(* row is ever refreshed by later reconciliation.                          *)
ResolutionsPinned ==
  \A i \in Rows :
    resolutions[i].successor # 0 => PinnedSuccessor(i, resolutions[i].successor)

(* The resolution of a conflict is acknowledged only once the verified     *)
(* result is checkpointed with the mirror, and the checkpoint is only ever *)
(* taken for a result the server confirmed.                                *)
CheckpointBeforeAcknowledge ==
  \A i \in Rows, s \in Rows : resolutions[i].successor = s =>
    /\ ops[s].state = "acknowledged" => resolutions[i].mirrored
    /\ resolutions[i].mirrored => ops[s].state \in {"applied", "acknowledged"}

(* Every operation that could reach the network carries what makes it      *)
(* conditional: a strong base tag unless it creates, a body unless it      *)
(* deletes; and an applied one carries the server's confirmation.          *)
DurablePrecondition ==
  \A i \in Rows :
    /\ ops[i].kind = "create" <=> ops[i].baseETag = Null
    /\ ops[i].kind = "delete" <=> ops[i].desiredBody = Null
    /\ ops[i].state \in {"applied", "acknowledged"} =>
         IF ops[i].kind = "delete" THEN ops[i].httpStatus = 404
         ELSE ops[i].resultETag # Null /\ ops[i].resultBody # Null
=============================================================================
