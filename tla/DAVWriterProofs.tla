-------------------------- MODULE DAVWriterProofs ---------------------------
(***************************************************************************)
(* The journal's invariants hold for every set of keys, hrefs, bodies,     *)
(* tags and statuses, every bound and every caller.  Every action rewrites *)
(* one row (RowUpdated), appends one (RowInserted), or does both in one    *)
(* transaction; the lemmas about those shapes carry the invariants, and    *)
(* are then applied action by action.                                      *)
(*                                                                         *)
(* What the writer on top of it promises holds for any number of           *)
(* resources, operations, revisions, attempts, other clients and faults,   *)
(* and whatever the server makes of a stored body: no lost update, no      *)
(* foreign revision taken for our own, and the refinement of               *)
(* ConditionalWrite.                                                       *)
(*                                                                         *)
(* The argument.  The server never returns to a revision it has left, so   *)
(* "the base is no longer current" is stable once true; every path of an   *)
(* attempt that settles an operation has seen that, and until it is true   *)
(* at most a request with the operation's own precondition is under way.   *)
(***************************************************************************)
EXTENDS DAVWriter, FiniteSetTheorems, TLAPS

(***************************************************************************)
(* The journal.                                                            *)
(***************************************************************************)

(* Rows that do not exist yet have no resolution, so that a fresh row can  *)
(* not be born resolved.                                                   *)
UnusedUnresolved == \A i \in Ids \ Rows : resolutions[i] = NoResolution

JournalInv ==
  /\ TypeOK
  /\ UnusedUnresolved
  /\ OneUnresolvedWrite
  /\ ResolutionsPinned
  /\ CheckpointBeforeAcknowledge
  /\ DurablePrecondition

-----------------------------------------------------------------------------
(* Rows.                                                                   *)

(* The back-off table yields a delay for every number of attempts.         *)
LEMMA BackoffType ==
  ASSUME NEW n \in Nat PROVE Backoff(n) \in Nat
<1>1. CASE n < 10
  <2>1. n \in 0 .. 9
    BY <1>1
  <2>2. n + 1 \in 1 .. 10
    BY <2>1
  <2> QED
    BY <1>1, <2>1, <2>2 DEF Backoff
<1>2. CASE ~(n < 10)
  BY <1>2 DEF Backoff
<1> QED
  BY <1>1, <1>2

(* The row inserted for a well-typed decision is well typed.               *)
LEMMA NewOperationType ==
  ASSUME NEW change \in ChangeIds, NEW key \in Keys, NEW href \in Hrefs, NEW kind \in Kinds,
         NEW revision \in Revisions \cup {0}, NEW etag \in ETags \cup {Null},
         NEW base \in Bodies \cup {Null}, NEW body \in Bodies \cup {Null}
  PROVE  NewOperation(change, key, href, kind, revision, etag, base, body) \in RCWriteOperation
BY DEF NewOperation, RCWriteOperation, OpStates

(* What was decided survives in the new version p of row o.                *)
SameDecision(o, p) ==
  /\ p.changeID = o.changeID /\ p.resourceKey = o.resourceKey /\ p.href = o.href
  /\ p.kind = o.kind /\ p.localRevision = o.localRevision
  /\ p.baseETag = o.baseETag /\ p.baseBody = o.baseBody /\ p.desiredBody = o.desiredBody

(* A change of state changes nothing else.                                 *)
LEMMA WithStateRow ==
  ASSUME NEW o \in RCWriteOperation, NEW s \in OpStates
  PROVE  /\ WithState(o, s) \in RCWriteOperation
         /\ SameDecision(o, WithState(o, s))
         /\ WithState(o, s).state = s
         /\ WithState(o, s).httpStatus = o.httpStatus
         /\ WithState(o, s).resultETag = o.resultETag
         /\ WithState(o, s).resultBody = o.resultBody
         /\ o.state = s => WithState(o, s) = o
BY DEF WithState, RCWriteOperation, SameDecision

(* A recorded result leaves the decision alone.                            *)
LEMMA RecordedRow ==
  ASSUME NEW o \in RCWriteOperation, NEW s \in OpStates, NEW status \in Statuses,
         NEW e \in ETags \cup {Null}, NEW b \in Bodies \cup {Null}
  PROVE  /\ Recorded(o, s, status, e, b) \in RCWriteOperation
         /\ SameDecision(o, Recorded(o, s, status, e, b))
         /\ Recorded(o, s, status, e, b).state = s
         /\ Recorded(o, s, status, e, b).httpStatus = status
         /\ Recorded(o, s, status, e, b).resultETag = e
         /\ Recorded(o, s, status, e, b).resultBody = b
<1> DEFINE p == [o EXCEPT !.state = s]
           q == [p EXCEPT !.httpStatus = status]
           r == [q EXCEPT !.resultETag = e]
           t == [r EXCEPT !.resultBody = b]
<1>1. p \in RCWriteOperation /\ SameDecision(o, p) /\ p.state = s
  BY DEF RCWriteOperation, SameDecision
<1>2. q \in RCWriteOperation /\ SameDecision(p, q) /\ q.state = p.state /\ q.httpStatus = status
  <2> HIDE DEF p
  <2> QED BY <1>1 DEF RCWriteOperation, SameDecision
<1>3. /\ r \in RCWriteOperation /\ SameDecision(q, r) /\ r.state = q.state
      /\ r.httpStatus = q.httpStatus /\ r.resultETag = e
  <2> HIDE DEF q
  <2> QED BY <1>2 DEF RCWriteOperation, SameDecision
<1>4. /\ t \in RCWriteOperation /\ SameDecision(r, t) /\ t.state = r.state
      /\ t.httpStatus = r.httpStatus /\ t.resultETag = r.resultETag /\ t.resultBody = b
  <2> HIDE DEF r
  <2> QED BY <1>3 DEF RCWriteOperation, SameDecision
<1>5. t = Recorded(o, s, status, e, b)
  BY DEF Recorded
<1> HIDE DEF p, q, r, t
<1> QED
  BY <1>1, <1>2, <1>3, <1>4, <1>5 DEF SameDecision

(* A new attempt makes the row uncertain and leaves the decision alone.    *)
LEMMA AttemptedRow ==
  ASSUME NEW o \in RCWriteOperation, NEW moment \in Nat
  PROVE  /\ Attempted(o, moment) \in RCWriteOperation
         /\ SameDecision(o, Attempted(o, moment))
         /\ Attempted(o, moment).state = "uncertain"
         /\ Attempted(o, moment).httpStatus = 0
<1> DEFINE p == [o EXCEPT !.state = "uncertain"]
           q == [p EXCEPT !.retryAt = moment + Backoff(o.attempts)]
           r == [q EXCEPT !.attempts = o.attempts + 1]
           t == [r EXCEPT !.httpStatus = 0]
           u == [t EXCEPT !.resultETag = Null]
           v == [u EXCEPT !.resultBody = Null]
<1>0. moment + Backoff(o.attempts) \in Nat /\ o.attempts + 1 \in Nat
  BY BackoffType DEF RCWriteOperation
<1>1. p \in RCWriteOperation /\ SameDecision(o, p) /\ p.state = "uncertain"
  BY DEF RCWriteOperation, SameDecision, OpStates
<1>2. q \in RCWriteOperation /\ SameDecision(p, q) /\ q.state = p.state
  <2> HIDE DEF p
  <2> QED BY <1>0, <1>1 DEF RCWriteOperation, SameDecision
<1>3. r \in RCWriteOperation /\ SameDecision(q, r) /\ r.state = q.state
  <2> HIDE DEF q
  <2> QED BY <1>0, <1>2 DEF RCWriteOperation, SameDecision
<1>4. t \in RCWriteOperation /\ SameDecision(r, t) /\ t.state = r.state
      /\ t.httpStatus = 0
  <2> HIDE DEF r
  <2> QED BY <1>3 DEF RCWriteOperation, SameDecision
<1>5. u \in RCWriteOperation /\ SameDecision(t, u) /\ u.state = t.state
      /\ u.httpStatus = t.httpStatus
  <2> HIDE DEF t
  <2> QED BY <1>4 DEF RCWriteOperation, SameDecision
<1>6. v \in RCWriteOperation /\ SameDecision(u, v) /\ v.state = u.state
      /\ v.httpStatus = u.httpStatus
  <2> HIDE DEF u
  <2> QED BY <1>5 DEF RCWriteOperation, SameDecision
<1>7. v = Attempted(o, moment)
  BY DEF Attempted
<1> HIDE DEF p, q, r, t, u, v
<1> QED
  BY <1>1, <1>2, <1>3, <1>4, <1>5, <1>6, <1>7 DEF SameDecision

-----------------------------------------------------------------------------
(* Tables.                                                                 *)

(* Rewriting an existing row touches no other.                             *)
LEMMA SetRow ==
  ASSUME TypeOK, NEW i \in Rows, NEW row,
         ops' = [ops EXCEPT ![i] = row], lastId' = lastId
  PROVE  /\ DOMAIN ops' = Ids /\ Rows' = Rows
         /\ ops'[i] = row
         /\ \A j \in Rows \ {i} : ops'[j] = ops[j]
<1>1. Rows \subseteq DOMAIN ops /\ DOMAIN ops = Ids
  BY JournalConstants DEF TypeOK, Rows, Ids
<1>2. Rows' = Rows
  BY DEF Rows
<1> QED
  BY <1>1, <1>2

(* An insertion appends one row and touches no other.                      *)
LEMMA InsertRow ==
  ASSUME TypeOK, NEW row, Insert(row)
  PROVE  /\ DOMAIN ops' = Ids /\ lastId' \in 0 .. MaxOps
         /\ Rows' = Rows \cup {lastId + 1}
         /\ lastId + 1 \in Ids \ Rows
         /\ ops'[lastId + 1] = row
         /\ \A j \in Rows : ops'[j] = ops[j] /\ j < lastId + 1
BY JournalConstants DEF TypeOK, Rows, Ids, Insert

(* A supersession settles one row and appends one.                         *)
LEMMA SupersedeRow ==
  ASSUME TypeOK, NEW i \in Rows, NEW s, NEW row, Supersede(i, s, row)
  PROVE  /\ DOMAIN ops' = Ids /\ lastId' \in 0 .. MaxOps
         /\ Rows' = Rows \cup {lastId + 1}
         /\ lastId + 1 \in Ids \ Rows
         /\ ops'[lastId + 1] = row
         /\ ops'[i] = WithState(ops[i], s)
         /\ \A j \in Rows \ {i} : ops'[j] = ops[j]
         /\ \A j \in Rows : j < lastId + 1
<1>1. /\ lastId' \in 0 .. MaxOps /\ Rows' = Rows \cup {lastId + 1}
      /\ lastId + 1 \in Ids \ Rows /\ \A j \in Rows : j < lastId + 1 /\ j # lastId + 1
  BY JournalConstants DEF TypeOK, Rows, Ids, Supersede
<1>2. Rows \subseteq DOMAIN ops /\ DOMAIN ops = Ids
  BY JournalConstants DEF TypeOK, Rows, Ids
<1>3. ops' = [ops EXCEPT ![i] = WithState(ops[i], s), ![lastId + 1] = row]
  BY DEF Supersede
<1> QED
  BY <1>1, <1>2, <1>3

(* Rows are typed records with ids among Ids.                              *)
LEMMA RowFacts ==
  ASSUME TypeOK, NEW i \in Rows
  PROVE  ops[i] \in RCWriteOperation /\ i \in Ids /\ lastId \in Nat
BY JournalConstants DEF TypeOK, Rows, Ids

(* Nothing but the bases and the attention rows changed.                   *)
LEMMA TablesKept ==
  ASSUME JournalInv, UNCHANGED <<ops, lastId, resolutions>>,
         bases' \in [Keys -> Base], attention' \in [Ids -> Reasons \cup {Null}]
  PROVE  JournalInv'
BY DEF JournalInv, TypeOK, UnusedUnresolved, OneUnresolvedWrite, ResolutionsPinned,
       PinnedSuccessor, CheckpointBeforeAcknowledge, DurablePrecondition, Rows, Unresolved

-----------------------------------------------------------------------------
(* The three shapes of a journal transaction.                              *)

Confirmed(o) ==
  o.state \in {"applied", "acknowledged"} =>
    IF o.kind = "delete" THEN o.httpStatus = 404
    ELSE o.resultETag # Null /\ o.resultBody # Null

(* One row moves on: it keeps its decision, is not reopened, does not      *)
(* withdraw a confirmation, and is acknowledged only past the checkpoint.  *)
LEMMA RowUpdated ==
  ASSUME JournalInv, NEW i \in Rows, NEW row \in RCWriteOperation,
         ops' = [ops EXCEPT ![i] = row], UNCHANGED <<lastId, resolutions, attention>>,
         bases' \in [Keys -> Base],
         SameDecision(ops[i], row),
         ops[i].state \in Terminal => row = ops[i],
         ops[i].state = "applied" => row.state \in {"applied", "acknowledged"},
         row.state = "acknowledged" => MirrorCheckpointed(i),
         Confirmed(row)
  PROVE  JournalInv'
<1> USE DEF JournalInv
<1>1. /\ DOMAIN ops' = Ids /\ Rows' = Rows /\ ops'[i] = row
      /\ \A j \in Rows \ {i} : ops'[j] = ops[j]
  BY SetRow
<1>2. \A j \in Rows : SameDecision(ops[j], ops'[j])
  BY <1>1 DEF SameDecision
<1>3. TypeOK'
  BY <1>1 DEF TypeOK
<1>4. UnusedUnresolved'
  BY <1>1 DEF UnusedUnresolved
<1>5. OneUnresolvedWrite'
  <2>1. \A j \in Rows : ops'[j].state \notin Terminal => ops[j].state \notin Terminal
    BY <1>1
  <2> QED
    BY <1>1, <1>2, <2>1 DEF OneUnresolvedWrite, Unresolved, SameDecision
<1>6. ResolutionsPinned'
  <2> SUFFICES ASSUME NEW j \in Rows, resolutions[j].successor # 0
               PROVE  PinnedSuccessor(j, resolutions[j].successor)'
    BY <1>1 DEF ResolutionsPinned
  <2> DEFINE s == resolutions[j].successor
  <2>1. s \in Rows /\ PinnedSuccessor(j, s)
    BY RowFacts DEF TypeOK, ResolutionsPinned
  <2>2. ops'[j] = ops[j]
    BY <1>1, <2>1 DEF PinnedSuccessor, Terminal
  <2>3. SameDecision(ops[s], ops'[s])
    BY <1>2, <2>1
  <2> HIDE DEF s
  <2> QED
    BY <1>1, <2>1, <2>2, <2>3 DEF PinnedSuccessor, SameDecision, s
<1>7. CheckpointBeforeAcknowledge'
  <2> SUFFICES ASSUME NEW j \in Rows, NEW s \in Rows, resolutions[j].successor = s
               PROVE  /\ ops'[s].state = "acknowledged" => resolutions[j].mirrored
                      /\ resolutions[j].mirrored => ops'[s].state \in {"applied", "acknowledged"}
    BY <1>1 DEF CheckpointBeforeAcknowledge
  <2>1. CASE s = i
    BY <1>1, <2>1 DEF CheckpointBeforeAcknowledge, MirrorCheckpointed, Terminal
  <2>2. CASE s # i
    BY <1>1, <2>2 DEF CheckpointBeforeAcknowledge
  <2> QED
    BY <2>1, <2>2
<1>8. DurablePrecondition'
  <2>1. \A j \in Rows : Confirmed(ops'[j])
    BY <1>1 DEF DurablePrecondition, Confirmed
  <2> QED
    BY <1>1, <1>2, <2>1 DEF DurablePrecondition, SameDecision, Confirmed
<1> QED
  BY <1>3, <1>4, <1>5, <1>6, <1>7, <1>8

Fresh(row) ==
  /\ row.state = "queued"
  /\ row.kind = "create" <=> row.baseETag = Null
  /\ row.kind = "delete" <=> row.desiredBody = Null

(* One row is appended, for a resource no unresolved row is about.         *)
LEMMA RowInserted ==
  ASSUME JournalInv, NEW row \in RCWriteOperation, Insert(row), Fresh(row),
         bases' \in [Keys -> Base], UNCHANGED <<resolutions, attention>>,
         \A j \in Rows : (ops[j].resourceKey = row.resourceKey \/ ops[j].href = row.href)
                           => ~Unresolved(j)
  PROVE  JournalInv'
<1> USE DEF JournalInv
<1> DEFINE n == lastId + 1
<1>1. /\ DOMAIN ops' = Ids /\ lastId' \in 0 .. MaxOps
      /\ Rows' = Rows \cup {n} /\ n \in Ids \ Rows
      /\ ops'[n] = row
      /\ \A j \in Rows : ops'[j] = ops[j] /\ j < n
  BY InsertRow
<1> HIDE DEF n
<1>2. TypeOK'
  BY <1>1 DEF TypeOK
<1>3. UnusedUnresolved'
  BY <1>1 DEF UnusedUnresolved
<1>4. OneUnresolvedWrite'
  BY <1>1 DEF OneUnresolvedWrite, Unresolved
<1>5. resolutions[n].successor = 0
  BY <1>1 DEF UnusedUnresolved, NoResolution
<1>6. \A j \in Rows : resolutions[j].successor # 0 => resolutions[j].successor \in Rows
  BY RowFacts DEF TypeOK
<1>7. ResolutionsPinned'
  <2> SUFFICES ASSUME NEW j \in Rows, resolutions[j].successor # 0
               PROVE  PinnedSuccessor(j, resolutions[j].successor)'
    BY <1>1, <1>5 DEF ResolutionsPinned
  <2>1. PinnedSuccessor(j, resolutions[j].successor)
    BY DEF ResolutionsPinned
  <2> QED
    BY <1>1, <1>5, <1>6, <2>1 DEF PinnedSuccessor
<1>8. CheckpointBeforeAcknowledge'
  <2>1. \A j \in Rows : resolutions[j].successor # n
    BY <1>1, <1>6, RowFacts DEF Ids
  <2>2. resolutions[n].successor \notin Rows'
    BY <1>1, <1>5 DEF Rows, Ids
  <2> QED
    BY <1>1, <2>1, <2>2 DEF CheckpointBeforeAcknowledge
<1>9. DurablePrecondition'
  BY <1>1 DEF DurablePrecondition, Fresh
<1> QED
  BY <1>2, <1>3, <1>4, <1>7, <1>8, <1>9

(* An applied row is acknowledged and its successor queued in its place.   *)
LEMMA RowSucceeded ==
  ASSUME JournalInv, NEW i \in Rows, NEW row \in RCWriteOperation, Fresh(row),
         Supersede(i, "acknowledged", row),
         bases' \in [Keys -> Base], UNCHANGED <<resolutions, attention>>,
         ops[i].state = "applied", MirrorCheckpointed(i),
         \A j \in Rows \ {i} : (ops[j].resourceKey = row.resourceKey \/ ops[j].href = row.href)
                                 => ~Unresolved(j)
  PROVE  JournalInv'
<1> USE DEF JournalInv
<1> DEFINE n == lastId + 1
<1>1. /\ DOMAIN ops' = Ids /\ lastId' \in 0 .. MaxOps
      /\ Rows' = Rows \cup {n} /\ n \in Ids \ Rows
      /\ ops'[n] = row
      /\ ops'[i] = WithState(ops[i], "acknowledged")
      /\ \A j \in Rows \ {i} : ops'[j] = ops[j]
  BY SupersedeRow
<1>2. /\ ops'[i] \in RCWriteOperation /\ SameDecision(ops[i], ops'[i])
      /\ ops'[i].state = "acknowledged" /\ ops'[i].httpStatus = ops[i].httpStatus
      /\ ops'[i].resultETag = ops[i].resultETag /\ ops'[i].resultBody = ops[i].resultBody
  BY <1>1, RowFacts, WithStateRow DEF OpStates
<1> HIDE DEF n
<1>3. TypeOK'
  BY <1>1, <1>2 DEF TypeOK
<1>4. UnusedUnresolved'
  BY <1>1 DEF UnusedUnresolved
<1>5. OneUnresolvedWrite'
  BY <1>1, <1>2 DEF OneUnresolvedWrite, Unresolved, Terminal
<1>6. resolutions[n].successor = 0
  BY <1>1 DEF UnusedUnresolved, NoResolution
<1>7. \A j \in Rows : resolutions[j].successor # 0 => resolutions[j].successor \in Rows
  BY RowFacts DEF TypeOK
<1>8. ResolutionsPinned'
  <2> SUFFICES ASSUME NEW j \in Rows, resolutions[j].successor # 0
               PROVE  PinnedSuccessor(j, resolutions[j].successor)'
    BY <1>1, <1>6 DEF ResolutionsPinned
  <2>1. PinnedSuccessor(j, resolutions[j].successor)
    BY DEF ResolutionsPinned
  <2>2. j # i
    BY <2>1 DEF PinnedSuccessor
  <2> QED
    BY <1>1, <1>2, <1>6, <1>7, <2>1, <2>2 DEF PinnedSuccessor, SameDecision
<1>9. CheckpointBeforeAcknowledge'
  <2>1. \A j \in Rows : resolutions[j].successor # n
    BY <1>1, <1>7, RowFacts DEF Ids
  <2>2. resolutions[n].successor \notin Rows'
    BY <1>1, <1>6 DEF Rows, Ids
  <2> QED
    BY <1>1, <1>2, <2>1, <2>2 DEF CheckpointBeforeAcknowledge, MirrorCheckpointed
<1>10. DurablePrecondition'
  BY <1>1, <1>2 DEF DurablePrecondition, Fresh, SameDecision
<1> QED
  BY <1>3, <1>4, <1>5, <1>8, <1>9, <1>10

(* A conflict is cancelled, its successor queued in its place and linked.  *)
LEMMA ConflictResolved ==
  ASSUME JournalInv, NEW i \in Rows, NEW kind \in Kinds, NEW b \in Bodies \cup {Null},
         NEW receipt \in Receipts, RCWriteJournalResolveConflict(i, kind, b, receipt)
  PROVE  JournalInv'
<1> USE DEF JournalInv
<1> DEFINE n   == lastId + 1
           row == Successor(i, kind, b)
           res == [successor |-> n, receipt |-> receipt, mirrored |-> FALSE]
<1>0. /\ ops[i].state = "conflict" /\ resolutions[i].successor = 0
      /\ (kind = "delete") <=> (b = Null)
      /\ Supersede(i, "cancelled", row) /\ UNCHANGED bases
      /\ resolutions' = [resolutions EXCEPT ![i] = res]
      /\ attention' = [attention EXCEPT ![i] = Null]
  BY DEF RCWriteJournalResolveConflict, Resolvable
<1>1. /\ DOMAIN ops' = Ids /\ lastId' \in 0 .. MaxOps
      /\ Rows' = Rows \cup {n} /\ n \in Ids \ Rows
      /\ ops'[n] = row
      /\ ops'[i] = WithState(ops[i], "cancelled")
      /\ \A j \in Rows \ {i} : ops'[j] = ops[j]
      /\ \A j \in Rows : j < n
  BY <1>0, SupersedeRow
<1>2. ops[i] \in RCWriteOperation /\ i \in Ids /\ lastId \in Nat
  BY RowFacts
<1>3. /\ ops'[i] \in RCWriteOperation /\ SameDecision(ops[i], ops'[i])
      /\ ops'[i].state = "cancelled" /\ ops'[i].httpStatus = ops[i].httpStatus
      /\ ops'[i].resultETag = ops[i].resultETag /\ ops'[i].resultBody = ops[i].resultBody
  BY <1>1, <1>2, WithStateRow DEF OpStates
<1>4. /\ row \in RCWriteOperation /\ row.state = "queued"
      /\ row.changeID = <<"resolution", i>> /\ row.kind = kind /\ row.desiredBody = b
      /\ row.resourceKey = ops[i].resourceKey /\ row.href = ops[i].href
  <2>1. <<"resolution", i>> \in ChangeIds
    BY <1>2 DEF ChangeIds
  <2> QED
    BY <1>2, <2>1 DEF Successor, NewOperation, RCWriteOperation, OpStates
<1>5. \/ /\ ops[i].httpStatus = 200 /\ kind # "create"
         /\ row.baseETag = ops[i].resultETag /\ row.baseETag # Null
         /\ row.baseBody = ops[i].resultBody
      \/ ops[i].httpStatus = 404 /\ kind = "create" /\ row.baseETag = Null
      \/ /\ ops[i].httpStatus = 404 /\ kind = "delete"
         /\ row.baseETag = ops[i].baseETag /\ row.baseETag # Null
  BY <1>2 DEF RCWriteJournalResolveConflict, Resolvable, RCWriteETagIsStrong,
              Successor, NewOperation, Kinds
<1>6. /\ resolutions' \in [Ids -> Resolution] /\ resolutions'[i] = res
      /\ res.successor = n /\ res.receipt # Null /\ ~res.mirrored
      /\ \A j \in Ids \ {i} : resolutions'[j] = resolutions[j]
  BY <1>0, <1>1, <1>2, JournalConstants DEF TypeOK, Resolution
<1> HIDE DEF n, row, res
<1>7. TypeOK'
  <2>1. attention' \in [Ids -> Reasons \cup {Null}]
    BY <1>0 DEF TypeOK
  <2>2. \A j \in Ids : resolutions'[j].successor \in Rows' \cup {0}
    BY <1>1, <1>6 DEF TypeOK
  <2>3. \A j \in Rows' : ops'[j] \in RCWriteOperation
    BY <1>1, <1>3, <1>4 DEF TypeOK
  <2> QED
    BY <1>0, <1>1, <1>6, <2>1, <2>2, <2>3 DEF TypeOK
<1>8. UnusedUnresolved'
  BY <1>1, <1>6 DEF UnusedUnresolved
<1>9. OneUnresolvedWrite'
  BY <1>0, <1>1, <1>3, <1>4 DEF OneUnresolvedWrite, Unresolved, Terminal, SameDecision
<1>10. resolutions'[n].successor = 0
  BY <1>1, <1>6 DEF UnusedUnresolved, NoResolution
<1>11. \A j \in Rows : resolutions[j].successor # 0 => resolutions[j].successor \in Rows
  BY RowFacts DEF TypeOK
<1>12. \A j \in Rows : j \in Ids
  BY RowFacts
<1>13. ResolutionsPinned'
  <2> SUFFICES ASSUME NEW j \in Rows, resolutions'[j].successor # 0
               PROVE  PinnedSuccessor(j, resolutions[j].successor)'
    BY <1>1, <1>10 DEF ResolutionsPinned
  <2>1. CASE j = i
    BY <2>1, <1>1, <1>3, <1>4, <1>5, <1>6, <1>10, <1>11, <1>12 DEF PinnedSuccessor, SameDecision
  <2>2. CASE j # i
    <3> DEFINE s == resolutions[j].successor
    <3>1. s \in Rows /\ s # n /\ s # 0 /\ resolutions'[j] = resolutions[j] /\ PinnedSuccessor(j, s)
      BY <2>2, <1>1, <1>6, <1>11, <1>12 DEF ResolutionsPinned
    <3>2. SameDecision(ops[s], ops'[s]) /\ ops'[j] = ops[j]
      BY <2>2, <3>1, <1>1, <1>3 DEF SameDecision
    <3> HIDE DEF s
    <3>3. \A m \in Rows' : resolutions'[m].successor = s => m = j
      BY <3>1, <1>1, <1>6, <1>10, <1>12 DEF PinnedSuccessor
    <3> QED
      BY <3>1, <3>2, <3>3 DEF PinnedSuccessor, SameDecision, s
  <2> QED
    BY <2>1, <2>2
<1>14. CheckpointBeforeAcknowledge'
  <2> SUFFICES ASSUME NEW j \in Rows, NEW s \in Rows', resolutions'[j].successor = s
               PROVE  /\ ops'[s].state = "acknowledged" => resolutions'[j].mirrored
                      /\ resolutions'[j].mirrored => ops'[s].state \in {"applied", "acknowledged"}
    <3>1. 0 \notin Rows'
      BY DEF Rows
    <3> QED
      BY <3>1, <1>1, <1>10 DEF CheckpointBeforeAcknowledge
  <2>1. CASE j = i
    BY <2>1, <1>1, <1>4, <1>6
  <2>2. CASE j # i
    <3>1. s \in Rows /\ resolutions'[j] = resolutions[j]
      BY <2>2, <1>1, <1>6, <1>11, <1>12 DEF Rows
    <3> QED
      BY <3>1, <1>0, <1>1, <1>3 DEF CheckpointBeforeAcknowledge
  <2> QED
    BY <2>1, <2>2
<1>15. DurablePrecondition'
  <2>1. /\ row.kind = "create" <=> row.baseETag = Null
        /\ row.kind = "delete" <=> row.desiredBody = Null
    BY <1>0, <1>4, <1>5
  <2> QED
    BY <1>1, <1>3, <1>4, <2>1 DEF DurablePrecondition, SameDecision
<1> QED
  BY <1>7, <1>8, <1>9, <1>13, <1>14, <1>15

(* The checkpoint of an applied successor.                                 *)
LEMMA ResolutionCheckpointed ==
  ASSUME JournalInv, NEW i \in Rows, RCWriteJournalResolutionMirrored(i)
  PROVE  JournalInv'
<1> USE DEF JournalInv
<1>1. PICK j \in Rows : /\ resolutions[j].successor = i
                        /\ resolutions' = [resolutions EXCEPT ![j].mirrored = TRUE]
  BY DEF RCWriteJournalResolutionMirrored
<1>2. ops[i].state = "applied" /\ UNCHANGED <<bases, ops, lastId, attention>> /\ Rows' = Rows
  BY DEF RCWriteJournalResolutionMirrored, Rows
<1>3. /\ resolutions' \in [Ids -> Resolution]
      /\ \A m \in Ids : /\ resolutions'[m].successor = resolutions[m].successor
                        /\ resolutions'[m].receipt = resolutions[m].receipt
                        /\ m # j => resolutions'[m] = resolutions[m]
  BY <1>1, RowFacts DEF TypeOK, Resolution
<1>4. j \in Ids /\ \A m \in Rows : m \in Ids
  BY RowFacts
<1>5. TypeOK'
  BY <1>2, <1>3 DEF TypeOK
<1>6. UnusedUnresolved'
  BY <1>2, <1>3 DEF UnusedUnresolved
<1>7. OneUnresolvedWrite' /\ DurablePrecondition'
  BY <1>2 DEF OneUnresolvedWrite, Unresolved, DurablePrecondition
<1>8. ResolutionsPinned'
  <2> SUFFICES ASSUME NEW m \in Rows, resolutions[m].successor # 0
               PROVE  PinnedSuccessor(m, resolutions[m].successor)'
    BY <1>2, <1>3, <1>4 DEF ResolutionsPinned
  <2>1. PinnedSuccessor(m, resolutions[m].successor)
    BY DEF ResolutionsPinned
  <2> QED
    BY <1>2, <1>3, <1>4, <2>1 DEF PinnedSuccessor
<1>9. CheckpointBeforeAcknowledge'
  BY <1>1, <1>2, <1>3, <1>4 DEF CheckpointBeforeAcknowledge
<1> QED
  BY <1>5, <1>6, <1>7, <1>8, <1>9

-----------------------------------------------------------------------------
(* The actions.                                                            *)

(* A change is journaled against the base on record.                       *)
LEMMA EnqueueKeeps ==
  ASSUME JournalInv, NEW change \in ChangeIds, NEW k \in Keys, NEW h \in Hrefs, NEW kind \in Kinds,
         NEW r \in Revisions \cup {0}, NEW b \in Bodies \cup {Null},
         RCWriteJournalEnqueue(change, k, h, kind, r, b)
  PROVE  JournalInv'
<1> DEFINE row == NewOperation(change, k, h, kind, r, bases[k].etag, bases[k].body, b)
<1>1. /\ bases[k].etag \in ETags \cup {Null} /\ bases[k].body \in Bodies \cup {Null}
      /\ bases \in [Keys -> Base]
  BY DEF JournalInv, TypeOK, Base
<1>2. row \in RCWriteOperation
  BY <1>1, NewOperationType
<1>3. row.resourceKey = k /\ row.href = h
  BY DEF NewOperation
<1>4. Fresh(row)
  BY DEF Fresh, NewOperation, RCWriteJournalEnqueue, ValidOperation, ExactBase, NoBase,
         RCWriteETagIsStrong
<1>5. Insert(row) /\ UNCHANGED <<bases, resolutions, attention>> /\ Free(change, k, h, {})
  BY DEF RCWriteJournalEnqueue
<1> HIDE DEF row
<1> QED
  BY <1>1, <1>2, <1>3, <1>4, <1>5, RowInserted DEF Free

(* A change is journaled against the base published with it.               *)
LEMMA QueueFromBaseKeeps ==
  ASSUME JournalInv, NEW change \in ChangeIds, NEW k \in Keys, NEW kind \in {"update", "delete"},
         NEW base \in Base, NEW b \in Bodies \cup {Null},
         QueueFromBase(change, k, kind, base, b)
  PROVE  JournalInv'
<1> DEFINE row == NewOperation(change, k, base.href, kind, base.revision, base.etag, base.body, b)
<1>1. /\ base.href \in Hrefs /\ base.etag \in ETags \cup {Null}
      /\ base.body \in Bodies \cup {Null} /\ base.revision \in Revisions \cup {0}
      /\ kind \in Kinds
  BY DEF QueueFromBase, Base, Kinds
<1>2. row \in RCWriteOperation
  BY <1>1, NewOperationType
<1>3. row.resourceKey = k /\ row.href = base.href
  BY DEF NewOperation
<1>4. Fresh(row)
  BY DEF Fresh, NewOperation, QueueFromBase, ValidOperation, ExactBase, NoBase,
         RCWriteETagIsStrong
<1>5. Insert(row) /\ UNCHANGED <<resolutions, attention>> /\ Free(change, k, base.href, {})
  BY DEF QueueFromBase
<1>6. bases' \in [Keys -> Base]
  BY DEF QueueFromBase, JournalInv, TypeOK
<1> HIDE DEF row
<1> QED
  BY <1>2, <1>3, <1>4, <1>5, <1>6, RowInserted DEF Free

(* An attempt begins at any time.                                          *)
LEMMA BeginAttemptKeeps ==
  ASSUME JournalInv, NEW i \in Rows, NEW moment \in Nat, RCWriteJournalBeginAttempt(i, moment)
  PROVE  JournalInv'
<1> DEFINE row == Attempted(ops[i], moment)
<1>1. row \in RCWriteOperation /\ SameDecision(ops[i], row) /\ row.state = "uncertain"
  BY AttemptedRow, RowFacts DEF JournalInv
<1>2. /\ ops[i].state \in {"queued", "uncertain"} /\ ops' = [ops EXCEPT ![i] = row]
      /\ UNCHANGED <<bases, lastId, resolutions, attention>>
  BY DEF RCWriteJournalBeginAttempt, Due
<1> HIDE DEF row
<1>3. bases' \in [Keys -> Base]
  BY <1>2 DEF JournalInv, TypeOK
<1> QED
  BY <1>1, <1>2, <1>3, RowUpdated DEF Terminal, Confirmed

(* The outcome of an attempt is recorded.                                  *)
LEMMA RecordResultKeeps ==
  ASSUME JournalInv, NEW i \in Rows, NEW s \in Results, NEW status \in Statuses,
         NEW e \in ETags \cup {Null}, NEW b \in Bodies \cup {Null},
         RCWriteJournalRecordResult(i, s, status, e, b)
  PROVE  JournalInv'
<1> DEFINE row == Recorded(ops[i], s, status, e, b)
<1>0. s \in OpStates
  BY DEF Results, OpStates
<1>1. /\ row \in RCWriteOperation /\ SameDecision(ops[i], row) /\ row.state = s
      /\ row.httpStatus = status /\ row.resultETag = e /\ row.resultBody = b
  BY <1>0, RecordedRow, RowFacts DEF JournalInv
<1>2. /\ ops[i].state = "uncertain" /\ ops' = [ops EXCEPT ![i] = row]
      /\ UNCHANGED <<bases, lastId, resolutions, attention>>
  BY DEF RCWriteJournalRecordResult
<1> HIDE DEF row
<1>3. bases' \in [Keys -> Base]
  BY <1>2 DEF JournalInv, TypeOK
<1>4. Confirmed(row)
  BY <1>1 DEF RCWriteJournalRecordResult, Confirmed, SameDecision, Results, RCWriteETagIsStrong
<1> QED
  BY <1>1, <1>2, <1>3, <1>4, RowUpdated DEF Terminal, Results

(* Settling a row for good.                                                *)
LEMMA SettleKeeps ==
  ASSUME JournalInv, NEW i \in Rows, NEW s \in Terminal,
         ops' = [ops EXCEPT ![i] = WithState(@, s)],
         UNCHANGED <<lastId, resolutions, attention>>, bases' \in [Keys -> Base],
         \/ /\ s = "acknowledged" /\ MirrorCheckpointed(i)
            /\ ops[i].state \in {"applied", "acknowledged"}
         \/ s = "cancelled" /\ ops[i].state \in {"queued", "conflict", "cancelled"}
  PROVE  JournalInv'
<1> DEFINE row == WithState(ops[i], s)
<1>1. /\ row \in RCWriteOperation /\ SameDecision(ops[i], row) /\ row.state = s
      /\ row.httpStatus = ops[i].httpStatus /\ row.resultETag = ops[i].resultETag
      /\ row.resultBody = ops[i].resultBody /\ (ops[i].state = s => row = ops[i])
  BY WithStateRow, RowFacts DEF JournalInv, Terminal, OpStates
<1>2. ops' = [ops EXCEPT ![i] = row]
  OBVIOUS
<1> HIDE DEF row
<1>3. Confirmed(row)
  BY <1>1 DEF Confirmed, SameDecision, JournalInv, DurablePrecondition
<1> QED
  BY <1>1, <1>2, <1>3, RowUpdated DEF Terminal

(* A newer local edit follows an applied upload.                           *)
LEMMA QueueSuccessorKeeps ==
  ASSUME JournalInv, NEW i \in Rows, NEW kind \in {"update", "delete"},
         NEW b \in Bodies \cup {Null}, QueueSuccessor(i, kind, b)
  PROVE  JournalInv'
<1> DEFINE o    == ops[i]
           base == VerifiedBase(o)
           row  == NewOperation(<<"successor", i>>, o.resourceKey, o.href,
                                kind, base.revision, base.etag, base.body, b)
<1>0. o \in RCWriteOperation /\ i \in Ids
  BY RowFacts DEF JournalInv
<1>1. /\ base \in Base /\ base.etag \in ETags \cup {Null} /\ base.body \in Bodies \cup {Null}
      /\ base.revision \in Revisions \cup {0} /\ base.etag = o.resultETag
  BY <1>0, JournalConstants DEF VerifiedBase, Base, RCWriteOperation
<1>2. o.state = "applied" /\ o.kind # "delete" /\ MirrorCheckpointed(i)
  BY DEF QueueSuccessor
<1>3. bases' = [bases EXCEPT ![o.resourceKey] = base] /\ UNCHANGED <<resolutions, attention>>
  BY DEF QueueSuccessor
<1>4. bases' \in [Keys -> Base]
  <2> HIDE DEF base
  <2> QED
    BY <1>0, <1>1, <1>3 DEF JournalInv, TypeOK, RCWriteOperation
<1>5. \/ ops' = [ops EXCEPT ![i] = WithState(@, "acknowledged")] /\ UNCHANGED lastId
      \/ /\ Supersede(i, "acknowledged", row)
         /\ ValidOperation(kind, base.revision, b)
         /\ Free(<<"successor", i>>, o.resourceKey, o.href, {i})
  BY DEF QueueSuccessor
<1>6. /\ row \in RCWriteOperation /\ row.resourceKey = o.resourceKey /\ row.href = o.href
      /\ row.state = "queued" /\ row.kind = kind /\ row.baseETag = base.etag
      /\ row.desiredBody = b
  <2>1. <<"successor", i>> \in ChangeIds /\ kind \in Kinds
    BY <1>0 DEF ChangeIds, Kinds
  <2>2. o.resourceKey \in Keys /\ o.href \in Hrefs
    BY <1>0 DEF RCWriteOperation
  <2>3. row \in RCWriteOperation
    BY <1>1, <2>1, <2>2, NewOperationType
  <2> QED
    BY <2>3 DEF NewOperation
<1>7. base.etag # Null
  BY <1>1, <1>2 DEF JournalInv, DurablePrecondition
<1> HIDE DEF o, base, row
<1>8. CASE ops' = [ops EXCEPT ![i] = WithState(@, "acknowledged")] /\ UNCHANGED lastId
  BY <1>2, <1>3, <1>4, <1>8, SettleKeeps DEF Terminal, o
<1>9. CASE /\ Supersede(i, "acknowledged", row)
           /\ ValidOperation(kind, base.revision, b)
           /\ Free(<<"successor", i>>, o.resourceKey, o.href, {i})
  <2>1. Fresh(row)
    BY <1>6, <1>7, <1>9 DEF Fresh, ValidOperation
  <2>2. \A j \in Rows \ {i} :
          (ops[j].resourceKey = row.resourceKey \/ ops[j].href = row.href) => ~Unresolved(j)
    BY <1>6, <1>9 DEF Free
  <2> QED
    BY <1>2, <1>3, <1>4, <1>6, <1>9, <2>1, <2>2, RowSucceeded DEF o
<1> QED
  BY <1>5, <1>8, <1>9

(* The journal's invariant is inductive, whoever calls it.                 *)
LEMMA JournalStep == JournalInv /\ [Next]_journalVars => JournalInv'
<1> SUFFICES ASSUME JournalInv, [Next]_journalVars PROVE JournalInv'
  OBVIOUS
<1>0. bases \in [Keys -> Base] /\ attention \in [Ids -> Reasons \cup {Null}]
  BY DEF JournalInv, TypeOK
<1>1. CASE UNCHANGED journalVars
  BY <1>0, <1>1, TablesKept DEF journalVars
<1>2. ASSUME NEW k \in Keys, NEW h \in Hrefs, NEW e \in ETags \cup {Null},
             NEW b \in Bodies, NEW r \in Revisions, RCWriteJournalSetBase(k, h, e, b, r)
      PROVE  JournalInv'
  <2>1. bases' \in [Keys -> Base]
    BY <1>0, <1>2 DEF RCWriteJournalSetBase, Base
  <2> QED
    BY <1>0, <1>2, <2>1, TablesKept DEF RCWriteJournalSetBase
<1>3. ASSUME NEW k \in Keys, DeleteBase(k) PROVE JournalInv'
  <2>1. bases' \in [Keys -> Base]
    BY <1>0, <1>3 DEF DeleteBase, Base, NoBase
  <2> QED
    BY <1>0, <1>3, <2>1, TablesKept DEF DeleteBase
<1>4. \A c \in Changes : <<"local", c>> \in ChangeIds
  BY DEF ChangeIds
<1>5. ASSUME NEW c \in Changes, NEW k \in Keys, NEW h \in Hrefs, NEW kind \in Kinds,
             NEW r \in Revisions \cup {0}, NEW b \in Bodies \cup {Null},
             RCWriteJournalEnqueue(<<"local", c>>, k, h, kind, r, b)
      PROVE  JournalInv'
  BY <1>4, <1>5, EnqueueKeeps
<1>6. ASSUME NEW c \in Changes, NEW k \in Keys, NEW kind \in {"update", "delete"},
             NEW base \in Base, NEW b \in Bodies \cup {Null},
             QueueFromBase(<<"local", c>>, k, kind, base, b)
      PROVE  JournalInv'
  BY <1>4, <1>6, QueueFromBaseKeeps
<1>7. ASSUME NEW i \in Rows, NEW moment \in Times, RCWriteJournalBeginAttempt(i, moment)
      PROVE  JournalInv'
  BY <1>7, BeginAttemptKeeps, JournalConstants
<1>8. ASSUME NEW i \in Rows, NEW s \in Results, NEW status \in Statuses,
             NEW e \in ETags \cup {Null}, NEW b \in Bodies \cup {Null},
             RCWriteJournalRecordResult(i, s, status, e, b)
      PROVE  JournalInv'
  BY <1>8, RecordResultKeeps
<1>9. ASSUME NEW i \in Rows, RCWriteJournalAcknowledge(i) \/ RCWriteJournalCancel(i)
      PROVE  JournalInv'
  BY <1>0, <1>9, SettleKeeps DEF RCWriteJournalAcknowledge, RCWriteJournalCancel, Terminal
<1>10. ASSUME NEW i \in Rows, NEW kind \in {"update", "delete"}, NEW b \in Bodies \cup {Null},
              QueueSuccessor(i, kind, b)
       PROVE  JournalInv'
  BY <1>10, QueueSuccessorKeeps
<1>11. ASSUME NEW i \in Rows, NEW kind \in Kinds, NEW b \in Bodies \cup {Null},
              NEW receipt \in Receipts, RCWriteJournalResolveConflict(i, kind, b, receipt)
       PROVE  JournalInv'
  BY <1>11, ConflictResolved
<1>12. ASSUME NEW i \in Rows, NEW reason \in Reasons \cup {Null},
              RCWriteJournalConflictAttention(i, reason)
       PROVE  JournalInv'
  <2>1. attention' \in [Ids -> Reasons \cup {Null}]
    BY <1>0, <1>12 DEF RCWriteJournalConflictAttention
  <2> QED
    BY <1>0, <1>12, <2>1, TablesKept DEF RCWriteJournalConflictAttention
<1>13. ASSUME NEW i \in Rows, RCWriteJournalResolutionMirrored(i) PROVE JournalInv'
  BY <1>13, ResolutionCheckpointed
<1> QED
  BY <1>1, <1>2, <1>3, <1>5, <1>6, <1>7, <1>8, <1>9, <1>10, <1>11, <1>12, <1>13 DEF Next

(* A new journal satisfies the invariant.                                  *)
LEMMA JournalInit == Init => JournalInv
BY JournalConstants DEF Init, JournalInv, TypeOK, UnusedUnresolved, OneUnresolvedWrite,
   ResolutionsPinned, CheckpointBeforeAcknowledge, DurablePrecondition, Rows, Ids,
   Base, NoBase, Resolution, NoResolution

(* Every reachable journal satisfies the inductive invariant.              *)
THEOREM JournalInvariant == Spec => []JournalInv
BY JournalInit, JournalStep, PTL DEF Spec

(* Every row keeps the shape of RCWriteOperation.                          *)
THEOREM JournalTypes == Spec => []TypeOK
<1>1. JournalInv => TypeOK
  BY DEF JournalInv
<1> QED
  BY <1>1, JournalInvariant, PTL

(* One unresolved write per resource key and per href, whatever callers    *)
(* enqueue, resolve and acknowledge.                                       *)
THEOREM OneWritePerResource == Spec => []OneUnresolvedWrite
<1>1. JournalInv => OneUnresolvedWrite
  BY DEF JournalInv
<1> QED
  BY <1>1, JournalInvariant, PTL

(* Conflict resolutions stay pinned to the observed remote revision.       *)
THEOREM ResolutionsStayPinned == Spec => []ResolutionsPinned
<1>1. JournalInv => ResolutionsPinned
  BY DEF JournalInv
<1> QED
  BY <1>1, JournalInvariant, PTL

(* A resolution is checkpointed before it is acknowledged.                 *)
THEOREM CheckpointPrecedesAcknowledge == Spec => []CheckpointBeforeAcknowledge
<1>1. JournalInv => CheckpointBeforeAcknowledge
  BY DEF JournalInv
<1> QED
  BY <1>1, JournalInvariant, PTL

(* Every row carries its precondition, every confirmed row its proof.      *)
THEOREM PreconditionsAreDurable == Spec => []DurablePrecondition
<1>1. JournalInv => DurablePrecondition
  BY DEF JournalInv
<1> QED
  BY <1>1, JournalInvariant, PTL

-----------------------------------------------------------------------------
(* The journal as a history.                                               *)

(* Rewriting a row keeps the history if it keeps the decision.             *)
LEMMA UpdateKeepsHistory ==
  ASSUME TypeOK, NEW i \in Rows, NEW row,
         ops' = [ops EXCEPT ![i] = row], lastId' = lastId,
         SameDecision(ops[i], row), ops[i].state \in Terminal => row = ops[i]
  PROVE  KeepsHistory
<1>1. lastId \in Nat
  BY RowFacts
<1>2. ops'[i] = row /\ \A j \in Rows \ {i} : ops'[j] = ops[j]
  BY SetRow
<1> QED
  BY <1>1, <1>2 DEF KeepsHistory, Decision, SameDecision

(* So does appending a row, and appending one while settling another.      *)
LEMMA InsertKeepsHistory ==
  ASSUME TypeOK, NEW row, Insert(row)
  PROVE  KeepsHistory
<1>1. lastId \in Nat /\ lastId' = lastId + 1
  BY JournalConstants DEF TypeOK, Insert
<1>2. \A j \in Rows : ops'[j] = ops[j]
  BY InsertRow
<1> QED
  BY <1>1, <1>2 DEF KeepsHistory

(* Settling one row while appending another keeps the history too.         *)
LEMMA SupersedeKeepsHistory ==
  ASSUME TypeOK, NEW i \in Rows, NEW s \in Terminal, NEW row, Supersede(i, s, row),
         ops[i].state \notin Terminal
  PROVE  KeepsHistory
<1>1. lastId \in Nat /\ lastId' = lastId + 1
  BY JournalConstants DEF TypeOK, Supersede
<1>2. ops'[i] = WithState(ops[i], s) /\ \A j \in Rows \ {i} : ops'[j] = ops[j]
  BY SupersedeRow
<1>3. SameDecision(ops[i], ops'[i])
  BY <1>2, RowFacts, WithStateRow DEF Terminal, OpStates
<1> QED
  BY <1>1, <1>2, <1>3 DEF KeepsHistory, Decision, SameDecision

(* Every journal call keeps the history.                                   *)
LEMMA HistoryStep == JournalInv /\ Next => KeepsHistory
<1> SUFFICES ASSUME TypeOK, Next PROVE KeepsHistory
  BY DEF JournalInv
<1>0. lastId \in Nat
  BY JournalConstants DEF TypeOK
<1>1. ASSUME UNCHANGED <<ops, lastId>> PROVE KeepsHistory
  BY <1>0, <1>1 DEF KeepsHistory
<1>2. ASSUME NEW row, Insert(row) PROVE KeepsHistory
  BY <1>2, InsertKeepsHistory
<1>3. ASSUME NEW i \in Rows, NEW moment \in Times, RCWriteJournalBeginAttempt(i, moment)
      PROVE  KeepsHistory
  <2>1. SameDecision(ops[i], Attempted(ops[i], moment))
    BY AttemptedRow, RowFacts, JournalConstants
  <2> QED
    BY <1>3, <2>1, UpdateKeepsHistory DEF RCWriteJournalBeginAttempt, Due, Terminal
<1>4. ASSUME NEW i \in Rows, NEW s \in Results, NEW status \in Statuses,
             NEW e \in ETags \cup {Null}, NEW b \in Bodies \cup {Null},
             RCWriteJournalRecordResult(i, s, status, e, b)
      PROVE  KeepsHistory
  <2>1. SameDecision(ops[i], Recorded(ops[i], s, status, e, b))
    BY RecordedRow, RowFacts DEF Results, OpStates
  <2>2. /\ ops[i].state \notin Terminal /\ lastId' = lastId
        /\ ops' = [ops EXCEPT ![i] = Recorded(ops[i], s, status, e, b)]
    BY <1>4 DEF RCWriteJournalRecordResult, Terminal
  <2> QED
    BY <2>1, <2>2, UpdateKeepsHistory
<1>5. ASSUME NEW i \in Rows, NEW s \in Terminal, ops[i].state \in Terminal => ops[i].state = s,
             ops' = [ops EXCEPT ![i] = WithState(@, s)], lastId' = lastId
      PROVE  KeepsHistory
  <2>1. /\ SameDecision(ops[i], WithState(ops[i], s))
        /\ ops[i].state = s => WithState(ops[i], s) = ops[i]
    BY WithStateRow, RowFacts DEF Terminal, OpStates
  <2> QED
    BY <1>5, <2>1, UpdateKeepsHistory
<1>6. ASSUME NEW i \in Rows, RCWriteJournalAcknowledge(i) \/ RCWriteJournalCancel(i)
      PROVE  KeepsHistory
  BY <1>5, <1>6 DEF RCWriteJournalAcknowledge, RCWriteJournalCancel, Terminal
<1>7. ASSUME NEW i \in Rows, NEW kind \in {"update", "delete"}, NEW b \in Bodies \cup {Null},
             QueueSuccessor(i, kind, b)
      PROVE  KeepsHistory
  BY <1>5, <1>7, SupersedeKeepsHistory DEF QueueSuccessor, Terminal
<1>8. ASSUME NEW i \in Rows, NEW kind \in Kinds, NEW b \in Bodies \cup {Null},
             NEW receipt \in Receipts, RCWriteJournalResolveConflict(i, kind, b, receipt)
      PROVE  KeepsHistory
  BY <1>8, SupersedeKeepsHistory DEF RCWriteJournalResolveConflict, Resolvable, Terminal
<1> QED
  BY <1>1, <1>2, <1>3, <1>4, <1>6, <1>7, <1>8
     DEF Next, RCWriteJournalSetBase, DeleteBase, RCWriteJournalEnqueue, QueueFromBase,
         RCWriteJournalConflictAttention, RCWriteJournalResolutionMirrored

(* Decisions are immutable and settled rows are final.                     *)
THEOREM JournalHistory == Spec => JournalIsHistory
BY JournalInvariant, HistoryStep, PTL DEF Spec, JournalIsHistory

(***************************************************************************)
(* The writer.                                                             *)
(***************************************************************************)

(* Revision e, which has a strong tag, is body b of href h.                *)
Real(e, h, b) ==
  e \in 1 .. lastRev /\ revs[e].href = h /\ revs[e].body = b /\ revs[e].strong

Open(i) == ops[i].state \in {"queued", "uncertain"}

(* The base of operation i is gone for good, or what it was to create has  *)
(* existed.                                                                *)
Overtaken(i) ==
  IF ops[i].kind = "create" THEN \E e \in 1 .. lastRev : revs[e].href = ops[i].href
  ELSE cur[ops[i].href] # ops[i].baseETag

ServerSound ==
  \A h \in Hrefs : /\ cur[h] # 0 => revs[cur[h]].href = h
                   /\ published[h] # 0 => revs[published[h]].href = h

(* What an operation is conditional on, and what it recorded, existed, and *)
(* what it applied was asked for or its own.                               *)
RowSound(i) ==
  LET o == ops[i] IN
  /\ o.kind # "create" => Real(o.baseETag, o.href, o.baseBody)
  /\ o.state \in {"applied", "acknowledged"} /\ o.kind # "delete" =>
       /\ o.httpStatus = 200
       /\ o.resultBody = o.desiredBody \/ revs[o.resultETag].by = i
  /\ o.httpStatus = 200 /\ o.resultETag # Null => Real(o.resultETag, o.href, o.resultBody)

RowsAreSound == \A i \in Rows : RowSound(i)

(* A request repeats its operation's decision; it would do nothing once    *)
(* the operation is settled.                                               *)
RequestsFollowRows ==
  \A r \in inflight :
    /\ r.op \in Rows /\ r.href = ops[r.op].href
    /\ r.match = ops[r.op].baseETag /\ r.body = ops[r.op].desiredBody
    /\ ops[r.op].kind = "update" => ops[r.op].baseBody # ops[r.op].desiredBody
    /\ ops[r.op].kind # "create" /\ ~Open(r.op) => Overtaken(r.op)

EffectsAreSpent ==
  \A f \in effects : f.op \in Rows /\ (ops[f.op].kind # "create" => Overtaken(f.op))

(* What the attempt under way has read is real and still means what it did.*)
RemoteIsReal ==
  wop # 0 /\ remote.status = 200 =>
    /\ \E e \in 1 .. lastRev : revs[e].href = ops[wop].href
    /\ remote.body # Null
    /\ remote.etag # Null => Real(remote.etag, ops[wop].href, remote.body)

UnderWay == wop # 0 => ops[wop].state = "uncertain"

RemoteOvertakes ==
  /\ wop # 0 /\ ops[wop].kind # "create"
  /\ remote.status = 404 \/ (remote.status = 200 /\ remote.etag # ops[wop].baseETag)
  => Overtaken(wop)

ReplyIsTrue ==
  /\ pc = "idle" => remote = NoResponse
  /\ pc \in {"idle", "probe", "decide"} => reply = Null
  /\ pc \in {"recheck", "refused"} => reply # Null /\ reply.status = 412
  /\ pc \in {"confirm", "verify"} => reply # Null /\ reply.status = 204
  /\ reply # Null =>
       /\ reply.etag # Null => reply.etag \in 1 .. lastRev /\ revs[reply.etag].by = wop
       /\ reply.status \in {204, 412} => Overtaken(wop)

(* The part about the tables and the server, and the part about the        *)
(* attempt under way.                                                      *)
HistoryInv ==
  /\ ServerSound /\ RowsAreSound /\ RequestsFollowRows
  /\ EffectsAreSpent /\ NoLostUpdate /\ AtMostOnce

AttemptInv == UnderWay /\ RemoteIsReal /\ RemoteOvertakes /\ ReplyIsTrue

WriterInv == JournalInv /\ WriterTypeOK /\ HistoryInv /\ AttemptInv

-----------------------------------------------------------------------------
(* What is stable.                                                         *)

(* Revisions are only added, and the server never returns to one.          *)
Onward ==
  /\ lastRev' \in Nat /\ lastRev <= lastRev'
  /\ \A e \in 1 .. lastRev : revs'[e] = revs[e]
  /\ \A h \in Hrefs : \A e \in 1 .. lastRev : cur'[h] = e => cur[h] = e

(* Rows are only added, and none is decided anew.                          *)
DecisionsKept == Rows \subseteq Rows' /\ \A i \in Rows : SameDecision(ops[i], ops'[i])

(* The facts about a row that the proofs below cite.                       *)
LEMMA WriterRow ==
  ASSUME WriterInv, NEW i \in Rows
  PROVE  /\ ops[i] \in RCWriteOperation /\ i \in Ids /\ i # 0
         /\ lastId \in Nat /\ lastRev \in Nat
         /\ ops[i].kind \in Kinds /\ ops[i].href \in Hrefs
         /\ ops[i].kind = "create" <=> ops[i].baseETag = Null
         /\ ops[i].kind = "delete" <=> ops[i].desiredBody = Null
         /\ ops[i].kind # "create" => ops[i].baseETag \in 1 .. lastRev
<1>1. ops[i] \in RCWriteOperation /\ i \in Ids /\ lastId \in Nat
  BY RowFacts DEF WriterInv, JournalInv
<1>2. lastRev \in Nat
  BY WriterConstants DEF WriterInv, WriterTypeOK
<1>3. /\ ops[i].kind = "create" <=> ops[i].baseETag = Null
      /\ ops[i].kind = "delete" <=> ops[i].desiredBody = Null
  BY DEF WriterInv, JournalInv, DurablePrecondition
<1>4. ops[i].kind # "create" => ops[i].baseETag \in 1 .. lastRev
  BY DEF WriterInv, HistoryInv, RowsAreSound, RowSound, Real
<1>5. ops[i].kind \in Kinds /\ ops[i].href \in Hrefs
  BY <1>1 DEF RCWriteOperation
<1> QED
  BY <1>1, <1>2, <1>3, <1>4, <1>5 DEF Ids

(* A real revision stays one.                                              *)
LEMMA RealKept ==
  ASSUME WriterTypeOK, Onward, NEW e, NEW h, NEW b, Real(e, h, b)
  PROVE  Real(e, h, b)'
<1>1. lastRev \in Nat
  BY WriterConstants DEF WriterTypeOK
<1> QED
  BY <1>1 DEF Onward, Real

(* An operation that was overtaken stays so.                               *)
LEMMA OvertakenKept ==
  ASSUME WriterInv, Onward, DecisionsKept, NEW i \in Rows, Overtaken(i)
  PROVE  Overtaken(i)'
<1>1. /\ ops[i].href \in Hrefs /\ lastRev \in Nat
      /\ ops[i].kind # "create" => ops[i].baseETag \in 1 .. lastRev
  BY WriterRow
<1>2. /\ ops'[i].kind = ops[i].kind /\ ops'[i].href = ops[i].href
      /\ ops'[i].baseETag = ops[i].baseETag
  BY DEF DecisionsKept, SameDecision
<1>3. CASE ops[i].kind = "create"
  BY <1>1, <1>2, <1>3 DEF Overtaken, Onward
<1>4. CASE ops[i].kind # "create"
  BY <1>1, <1>2, <1>4 DEF Overtaken, Onward
<1> QED
  BY <1>3, <1>4

(* An applied row is the stored revision it claims to be.                  *)
LEMMA SoundRowsApplied == WriterInv => AppliedIsStored
<1> SUFFICES ASSUME WriterInv, NEW i \in Rows,
                    ops[i].state \in {"applied", "acknowledged"}, ops[i].kind # "delete"
             PROVE  LET e == ops[i].resultETag IN
                    /\ e \in 1 .. lastRev /\ revs[e].href = ops[i].href
                    /\ revs[e].body = ops[i].resultBody
                    /\ ops[i].resultBody = ops[i].desiredBody \/ revs[e].by = i
  BY DEF AppliedIsStored
<1>1. ops[i].resultETag # Null
  BY DEF WriterInv, JournalInv, DurablePrecondition
<1> QED
  BY <1>1 DEF WriterInv, HistoryInv, RowsAreSound, RowSound, Real

-----------------------------------------------------------------------------
(* The shapes of a step.                                                   *)

(* The server unchanged, the rows moved on: a row settles only when no     *)
(* request under way could still act.                                      *)
LEMMA RowsMoved ==
  ASSUME WriterInv, UNCHANGED serverVars, DecisionsKept, ServerSound',
         \A i \in Rows' : RowSound(i)',
         \A i \in Rows : Open(i) /\ ~Open(i)' /\ ops[i].kind # "create" =>
           Overtaken(i) \/ \A r \in inflight : r.op # i
  PROVE  HistoryInv'
<1>1. Onward
  <2>1. lastRev \in Nat
    BY WriterConstants DEF WriterInv, WriterTypeOK
  <2> QED
    BY <2>1 DEF Onward, serverVars
<1>2. \A i \in Rows : Overtaken(i) => Overtaken(i)'
  BY <1>1, OvertakenKept
<1>3. \A i \in Rows : /\ i \in Rows' /\ ops'[i].kind = ops[i].kind /\ ops'[i].href = ops[i].href
                      /\ ops'[i].baseETag = ops[i].baseETag /\ ops'[i].baseBody = ops[i].baseBody
                      /\ ops'[i].desiredBody = ops[i].desiredBody
  BY DEF DecisionsKept, SameDecision
<1>4. UNCHANGED <<revs, lastRev, cur, inflight, effects>>
  BY DEF serverVars
<1>5. RowsAreSound'
  BY DEF RowsAreSound
<1>6. RequestsFollowRows'
  BY <1>2, <1>3, <1>4 DEF RequestsFollowRows, WriterInv, HistoryInv
<1>7. EffectsAreSpent'
  BY <1>2, <1>3, <1>4 DEF EffectsAreSpent, WriterInv, HistoryInv
<1>8. NoLostUpdate'
  BY <1>3, <1>4 DEF NoLostUpdate, EffectsAreSpent, WriterInv, HistoryInv
<1>9. AtMostOnce'
  BY <1>3, <1>4 DEF AtMostOnce, EffectsAreSpent, WriterInv, HistoryInv
<1> QED
  BY <1>5, <1>6, <1>7, <1>8, <1>9 DEF HistoryInv

(* The journal unchanged, the server moved on.                             *)
LEMMA ServerMoved ==
  ASSUME WriterInv, UNCHANGED <<journalVars, pc, wop, remote>>, Onward,
         inflight' \subseteq inflight
  PROVE  /\ JournalInv' /\ RowsAreSound' /\ RequestsFollowRows'
         /\ UnderWay' /\ RemoteIsReal' /\ RemoteOvertakes'
         /\ \A i \in Rows : Overtaken(i) => Overtaken(i)'
         /\ Rows' = Rows /\ ops' = ops
<1>1. /\ UNCHANGED <<bases, ops, lastId, resolutions, attention>> /\ Rows' = Rows
  BY DEF journalVars, Rows
<1>2. JournalInv'
  BY <1>1, TablesKept DEF WriterInv, JournalInv, TypeOK
<1>3. DecisionsKept
  BY <1>1 DEF DecisionsKept, SameDecision
<1>4. \A i \in Rows : Overtaken(i) => Overtaken(i)'
  BY <1>3, OvertakenKept
<1>5. \A e, h, b : Real(e, h, b) => Real(e, h, b)'
  BY RealKept DEF WriterInv
<1>6. \A e \in 1 .. lastRev : e \in 1 .. lastRev' /\ revs'[e] = revs[e]
  BY WriterConstants DEF Onward, WriterInv, WriterTypeOK
<1>7. RowsAreSound'
  <2> SUFFICES ASSUME NEW i \in Rows PROVE RowSound(i)'
    BY <1>1 DEF RowsAreSound
  <2>1. RowSound(i)
    BY DEF WriterInv, HistoryInv, RowsAreSound
  <2>2. ops[i].state \in {"applied", "acknowledged"} /\ ops[i].kind # "delete" =>
          ops[i].resultETag \in 1 .. lastRev
    BY SoundRowsApplied DEF AppliedIsStored
  <2> QED
    BY <1>1, <1>5, <1>6, <2>1, <2>2 DEF RowSound
<1>8. RequestsFollowRows'
  BY <1>1, <1>4 DEF RequestsFollowRows, Open, WriterInv, HistoryInv
<1>9. RemoteIsReal'
  BY <1>1, <1>5, <1>6 DEF RemoteIsReal, WriterInv, AttemptInv
<1>10. RemoteOvertakes'
  BY <1>1, <1>4 DEF RemoteOvertakes, WriterInv, AttemptInv, WriterTypeOK
<1>11. UnderWay'
  BY <1>1 DEF UnderWay, WriterInv, AttemptInv
<1> QED
  BY <1>1, <1>2, <1>4, <1>7, <1>8, <1>9, <1>10, <1>11

(* Between attempts there is nothing to say of the attempt.                *)
LEMMA AttemptOver ==
  ASSUME pc' = "idle", wop' = 0, remote' = NoResponse, reply' = Null
  PROVE  AttemptInv'
BY DEF AttemptInv, UnderWay, RemoteIsReal, RemoteOvertakes, ReplyIsTrue

-----------------------------------------------------------------------------
(* The server.                                                             *)

ServerTyped ==
  /\ lastRev \in 0 .. MaxRevisions /\ DOMAIN revs = ETags
  /\ \A e \in 1 .. lastRev : revs[e] \in Revision
  /\ cur \in [Hrefs -> 0 .. lastRev]
  /\ \A h \in Hrefs : cur[h] # 0 => revs[cur[h]].href = h

(* A new revision becomes the current one.                                 *)
LEMMA StoreMoves ==
  ASSUME WriterInv, NEW h \in Hrefs, NEW body \in Bodies, NEW by \in Ids \cup {0},
         Store(h, body, by)
  PROVE  /\ Onward /\ ServerTyped'
         /\ lastRev' = lastRev + 1 /\ cur'[h] = lastRev + 1
         /\ \A g \in Hrefs \ {h} : cur'[g] = cur[g]
         /\ \E strong \in BOOLEAN : revs'[lastRev + 1] =
              [href |-> h, body |-> body, strong |-> strong, by |-> by]
<1>1. /\ lastRev \in Nat /\ MaxRevisions \in Nat /\ DOMAIN revs = ETags /\ ETags = 1 .. MaxRevisions
      /\ cur \in [Hrefs -> 0 .. lastRev] /\ \A e \in 1 .. lastRev : revs[e] \in Revision
  BY WriterConstants DEF WriterInv, WriterTypeOK
<1>2. lastRev < MaxRevisions /\ lastRev' = lastRev + 1 /\ cur' = [cur EXCEPT ![h] = lastRev + 1]
  BY DEF Store
<1>3. PICK strong \in Strengths : revs' = [revs EXCEPT ![lastRev + 1] =
             [href |-> h, body |-> body, strong |-> strong, by |-> by]]
  BY DEF Store
<1>4. strong \in BOOLEAN
  BY WriterConstants
<1>5. /\ DOMAIN revs' = ETags /\ \A e \in 1 .. lastRev : revs'[e] = revs[e]
      /\ revs'[lastRev + 1] = [href |-> h, body |-> body, strong |-> strong, by |-> by]
  BY <1>1, <1>2, <1>3
<1>6. cur' \in [Hrefs -> 0 .. lastRev'] /\ cur'[h] = lastRev + 1
      /\ \A g \in Hrefs \ {h} : cur'[g] = cur[g]
  BY <1>1, <1>2
<1>7. Onward
  BY <1>1, <1>2, <1>5, <1>6 DEF Onward
<1>8. \A e \in 1 .. lastRev' : revs'[e] \in Revision
  BY <1>1, <1>2, <1>4, <1>5 DEF Revision
<1>9. \A g \in Hrefs : cur'[g] # 0 => revs'[cur'[g]].href = g
  <2>1. \A g \in Hrefs \ {h} : cur[g] \in 0 .. lastRev /\ (cur[g] # 0 => revs[cur[g]].href = g)
    BY <1>1 DEF WriterInv, HistoryInv, ServerSound
  <2> QED
    BY <1>1, <1>5, <1>6, <2>1
<1> QED
  BY <1>1, <1>2, <1>4, <1>5, <1>6, <1>7, <1>8, <1>9 DEF ServerTyped

(* A resource is removed, or nothing happens.                              *)
LEMMA RemoveMoves ==
  ASSUME WriterInv, NEW h \in Hrefs, UNCHANGED <<revs, lastRev>>,
         cur' \in {cur, [cur EXCEPT ![h] = 0]}
  PROVE  Onward /\ ServerTyped'
<1>1. /\ lastRev \in Nat /\ cur \in [Hrefs -> 0 .. lastRev]
      /\ \A g \in Hrefs : cur[g] # 0 => revs[cur[g]].href = g
  BY WriterConstants DEF WriterInv, WriterTypeOK, HistoryInv, ServerSound
<1>2. \A g \in Hrefs : cur'[g] \in {cur[g], 0}
  BY <1>1
<1>3. Onward
  BY <1>1, <1>2 DEF Onward
<1>4. ServerTyped'
  BY <1>1, <1>2 DEF ServerTyped, WriterInv, WriterTypeOK
<1> QED
  BY <1>3, <1>4

(* Whatever moves the server on, with no effect of ours and no answer.     *)
LEMMA OthersKeep ==
  ASSUME WriterInv, UNCHANGED <<journalVars, writerVars, effects, published, now>>,
         Onward, ServerTyped', inflight' \subseteq inflight,
         faults' \in 0 .. MaxFaults, foreign' \in 0 .. MaxForeign
  PROVE  WriterInv'
<1>1. UNCHANGED <<pc, wop, remote, reply, effects, published, now>>
  BY DEF writerVars
<1>2. /\ JournalInv' /\ RowsAreSound' /\ RequestsFollowRows'
      /\ UnderWay' /\ RemoteIsReal' /\ RemoteOvertakes'
      /\ \A i \in Rows : Overtaken(i) => Overtaken(i)'
      /\ Rows' = Rows /\ ops' = ops
  BY <1>1, ServerMoved
<1>3. lastRev \in Nat /\ lastRev' \in Nat /\ lastRev <= lastRev'
      /\ \A e \in 1 .. lastRev : revs'[e] = revs[e] /\ e \in 1 .. lastRev'
  BY WriterConstants DEF Onward, WriterInv, WriterTypeOK
<1>4. WriterTypeOK'
  BY <1>1, <1>2, <1>3 DEF WriterTypeOK, WriterInv, JournalInv, ServerTyped
<1>5. ServerSound'
  BY <1>1, <1>3 DEF ServerSound, ServerTyped, WriterInv, HistoryInv, WriterTypeOK
<1>6. EffectsAreSpent' /\ AtMostOnce'
  BY <1>1, <1>2 DEF EffectsAreSpent, AtMostOnce, WriterInv, HistoryInv
<1>7. NoLostUpdate'
  <2> SUFFICES ASSUME NEW f \in effects
               PROVE  IF ops[f.op].kind = "create" THEN f.over = 0
                      ELSE /\ f.over = ops[f.op].baseETag
                           /\ revs'[f.over].href = ops[f.op].href
                           /\ revs'[f.over].body = ops[f.op].baseBody
    BY <1>1, <1>2 DEF NoLostUpdate
  <2>1. f.op \in Rows
    BY DEF WriterInv, HistoryInv, EffectsAreSpent
  <2>2. ops[f.op].kind # "create" => ops[f.op].baseETag \in 1 .. lastRev
    BY <2>1, WriterRow
  <2> QED
    BY <1>3, <2>1, <2>2 DEF NoLostUpdate, WriterInv, HistoryInv
<1>8. ReplyIsTrue'
  BY <1>1, <1>2, <1>3 DEF ReplyIsTrue, WriterInv, AttemptInv, WriterTypeOK
<1> QED
  BY <1>2, <1>4, <1>5, <1>6, <1>7, <1>8 DEF WriterInv, HistoryInv, AttemptInv

(* The other clients.                                                      *)
LEMMA OtherClientKeeps ==
  ASSUME WriterInv, NEW h \in Hrefs,
         OtherClientDelete(h) \/ \E b \in Bodies : OtherClientPut(h, b)
  PROVE  WriterInv'
<1>1. /\ UNCHANGED <<journalVars, writerVars, effects, published, now, inflight, faults>>
      /\ faults' \in 0 .. MaxFaults /\ foreign' \in 0 .. MaxForeign
  BY WriterConstants
     DEF OtherClientDelete, OtherClientPut, WriterInv, WriterTypeOK
<1>2. Onward /\ ServerTyped'
  <2>1. CASE OtherClientDelete(h)
    BY <2>1, RemoveMoves DEF OtherClientDelete
  <2>2. ASSUME NEW b \in Bodies, OtherClientPut(h, b) PROVE Onward /\ ServerTyped'
    BY <2>2, StoreMoves DEF OtherClientPut
  <2> QED
    BY <2>1, <2>2
<1> QED
  BY <1>1, <1>2, OthersKeep

(* A request is lost.                                                      *)
LEMMA RequestLostKeeps ==
  ASSUME WriterInv, NEW r \in inflight, RequestLost(r)
  PROVE  WriterInv'
<1>1. /\ UNCHANGED <<journalVars, writerVars, effects, published, now, revs, lastRev, cur>>
      /\ inflight' \subseteq inflight
      /\ faults' \in 0 .. MaxFaults /\ foreign' \in 0 .. MaxForeign
  BY WriterConstants DEF RequestLost, Fault, WriterInv, WriterTypeOK
<1>2. PICK h \in Hrefs : TRUE
  BY DEF WriterInv, WriterTypeOK, Request
<1>3. Onward /\ ServerTyped'
  BY <1>1, <1>2, RemoveMoves
<1> QED
  BY <1>1, <1>3, OthersKeep

(* What a request finds when the server executes it.                       *)
LEMMA RequestFinds ==
  ASSUME WriterInv, NEW r \in inflight
  PROVE  /\ r.op \in Rows /\ r.href = ops[r.op].href /\ r.href \in Hrefs
         /\ r.match = ops[r.op].baseETag /\ r.body = ops[r.op].desiredBody
         /\ r.body \in Bodies \cup {Null} /\ r.op \in Ids
         /\ Satisfied(r) =>
              /\ ops[r.op].kind = "create" => cur[r.href] = 0
              /\ ops[r.op].kind # "create" => /\ cur[r.href] = ops[r.op].baseETag
                                              /\ Open(r.op)
         /\ ~Satisfied(r) => Overtaken(r.op)
<1>1. /\ r.op \in Rows /\ r.href = ops[r.op].href /\ r.href \in Hrefs
      /\ r.match = ops[r.op].baseETag /\ r.body = ops[r.op].desiredBody
      /\ r.body \in Bodies \cup {Null} /\ r.op \in Ids
  BY DEF WriterInv, HistoryInv, RequestsFollowRows, WriterTypeOK, Request
<1>2. CASE ops[r.op].kind = "create"
  <2>1. r.match = Null
    BY <1>1, <1>2, WriterRow
  <2>2. cur[r.href] \in 0 .. lastRev /\ (cur[r.href] # 0 => revs[cur[r.href]].href = r.href)
    BY <1>1 DEF WriterInv, HistoryInv, ServerSound, WriterTypeOK
  <2>3. ~Satisfied(r) => Overtaken(r.op)
    BY <1>1, <1>2, <2>1, <2>2 DEF Satisfied, Overtaken
  <2> QED
    BY <1>1, <1>2, <2>1, <2>3 DEF Satisfied
<1>3. CASE ops[r.op].kind # "create"
  <2>1. r.match # Null /\ r.match \in 1 .. lastRev /\ revs[r.match].strong /\ r.match # 0
    BY <1>1, <1>3, WriterRow DEF WriterInv, HistoryInv, RowsAreSound, RowSound, Real
  <2>2. Satisfied(r) => cur[r.href] = r.match
    BY <2>1 DEF Satisfied, ETagOf
  <2>3. ~Satisfied(r) => cur[r.href] # r.match
    BY <2>1 DEF Satisfied, ETagOf
  <2>4. Satisfied(r) => Open(r.op)
    BY <1>1, <1>3, <2>2 DEF WriterInv, HistoryInv, RequestsFollowRows, Overtaken
  <2> QED
    BY <1>1, <1>3, <2>2, <2>3, <2>4 DEF Overtaken
<1> QED
  BY <1>2, <1>3

(* What a satisfied request does: a revision by the operation, or the      *)
(* removal of the resource.                                                *)
LEMMA RequestDoes ==
  ASSUME WriterInv, NEW r \in inflight, Satisfied(r),
         \/ /\ r.body # Null
            /\ \E stored \in Serialisations[r.body] : Store(r.href, stored, r.op)
         \/ /\ r.body = Null
            /\ cur' = [cur EXCEPT ![r.href] = 0]
            /\ UNCHANGED <<revs, lastRev>>
  PROVE  /\ Onward /\ ServerTyped'
         /\ ops' = ops /\ Rows' = Rows => Overtaken(r.op)'
         /\ r.body # Null =>
              /\ lastRev' = lastRev + 1 /\ cur'[r.href] = lastRev + 1
              /\ revs'[lastRev + 1].by = r.op
<1>1. /\ r.op \in Rows /\ r.href = ops[r.op].href /\ r.href \in Hrefs /\ r.op \in Ids
      /\ r.body = ops[r.op].desiredBody /\ r.body \in Bodies \cup {Null}
  BY RequestFinds
<1>2. /\ ops[r.op].kind # "create" => ops[r.op].baseETag \in 1 .. lastRev
      /\ ops[r.op].kind = "delete" <=> r.body = Null
      /\ lastRev \in Nat
  BY <1>1, WriterRow
<1>3. CASE r.body # Null
  <2>1. PICK stored \in Serialisations[r.body] : Store(r.href, stored, r.op)
    BY <1>3
  <2>2. stored \in Bodies
    BY <1>1, <1>3, WriterConstants
  <2>3. /\ Onward /\ ServerTyped' /\ lastRev' = lastRev + 1 /\ cur'[r.href] = lastRev + 1
        /\ revs'[lastRev + 1].by = r.op /\ revs'[lastRev + 1].href = r.href
    <3>1. r.op \in Ids \cup {0}
      BY <1>1
    <3>2. /\ Onward /\ ServerTyped' /\ lastRev' = lastRev + 1 /\ cur'[r.href] = lastRev + 1
          /\ \E strong \in BOOLEAN : revs'[lastRev + 1] =
               [href |-> r.href, body |-> stored, strong |-> strong, by |-> r.op]
      BY <1>1, <2>1, <2>2, <3>1, StoreMoves
    <3> QED
      BY <3>2
  <2>4. ops' = ops /\ Rows' = Rows => Overtaken(r.op)'
    BY <1>1, <1>2, <2>3 DEF Overtaken
  <2> QED
    BY <2>3, <2>4
<1>4. CASE r.body = Null
  <2>1. Onward /\ ServerTyped'
    BY <1>1, <1>3, <1>4, RemoveMoves
  <2>2. cur'[r.href] = 0
    BY <1>1, <1>4 DEF WriterInv, WriterTypeOK
  <2>3. ops' = ops /\ Rows' = Rows => Overtaken(r.op)'
    BY <1>1, <1>2, <1>4, <2>2 DEF Overtaken
  <2> QED
    BY <1>4, <2>1, <2>3
<1> QED
  BY <1>3, <1>4

(* A request takes effect, or is refused, and is answered.                 *)
LEMMA ServerExecuteKeeps ==
  ASSUME WriterInv, NEW r \in inflight, ServerExecute(r)
  PROVE  WriterInv'
<1> DEFINE f == [op |-> r.op, over |-> cur[r.href], made |-> cur'[r.href]]
<1>0. /\ UNCHANGED <<journalVars, pc, wop, remote, published, now, foreign>>
      /\ inflight' \subseteq inflight /\ faults' \in 0 .. MaxFaults
  BY WriterConstants DEF ServerExecute, Fault, WriterInv, WriterTypeOK
<1>1. \/ /\ Satisfied(r) /\ Overtaken(r.op)' /\ effects' = effects \cup {f}
         /\ \E status \in {204, 503} : \E etag \in {cur'[r.href], Null} :
              /\ Answer(r, status, etag)
              /\ etag # Null => r.body # Null /\ etag = cur'[r.href]
      \/ /\ ~Satisfied(r) /\ Overtaken(r.op)' /\ effects' = effects
         /\ \E status \in {412, 503} : Answer(r, status, Null)
  <2>1. CASE Satisfied(r)
    <3>1. ops' = ops /\ Rows' = Rows
      BY <1>0 DEF journalVars, Rows
    <3>2. Overtaken(r.op)'
      BY <2>1, <3>1, RequestDoes DEF ServerExecute
    <3>3. effects' = effects \cup {f}
      BY <2>1 DEF ServerExecute
    <3>4. \E status \in {204, 503} : \E etag \in {cur'[r.href], Null} :
            /\ Answer(r, status, etag)
            /\ etag # Null => r.body # Null /\ etag = cur'[r.href]
      BY <2>1 DEF ServerExecute
    <3> QED
      BY <2>1, <3>2, <3>3, <3>4
  <2>2. CASE ~Satisfied(r)
    <3>1. Overtaken(r.op)
      BY <2>2, RequestFinds
    <3>2. Overtaken(r.op)'
      BY <1>0, <2>2, <3>1 DEF ServerExecute, Overtaken, journalVars
    <3> QED
      BY <2>2, <3>2 DEF ServerExecute
  <2> QED
    BY <2>1, <2>2
<1>2. Onward /\ ServerTyped'
  <2>1. CASE Satisfied(r)
    BY <2>1, RequestDoes DEF ServerExecute
  <2>2. CASE ~Satisfied(r)
    BY <2>2, RemoveMoves, RequestFinds DEF ServerExecute
  <2> QED
    BY <2>1, <2>2
<1>3. Satisfied(r) /\ r.body # Null =>
        cur'[r.href] = lastRev + 1 /\ lastRev' = lastRev + 1 /\ revs'[lastRev + 1].by = r.op
  BY RequestDoes DEF ServerExecute
<1>4. /\ JournalInv' /\ RowsAreSound' /\ RequestsFollowRows'
      /\ UnderWay' /\ RemoteIsReal' /\ RemoteOvertakes'
      /\ \A i \in Rows : Overtaken(i) => Overtaken(i)'
      /\ Rows' = Rows /\ ops' = ops
  BY <1>0, <1>2, ServerMoved
<1>5. /\ lastRev \in Nat /\ lastRev' \in Nat /\ lastRev <= lastRev'
      /\ \A e \in 1 .. lastRev : revs'[e] = revs[e] /\ e \in 1 .. lastRev'
  BY <1>2, WriterConstants DEF Onward, WriterInv, WriterTypeOK
<1>6. /\ r.op \in Rows /\ r.href = ops[r.op].href /\ r.href \in Hrefs
      /\ Satisfied(r) =>
           /\ ops[r.op].kind = "create" => cur[r.href] = 0
           /\ ops[r.op].kind # "create" => cur[r.href] = ops[r.op].baseETag
  BY RequestFinds
<1>7. \/ reply' = reply
      \/ /\ pc = "await" /\ wop = r.op /\ reply' \in WriteReply
         /\ reply'.etag # Null => reply'.etag \in 1 .. lastRev' /\ revs'[reply'.etag].by = wop
  <2>1. CASE ~Satisfied(r)
    BY <1>1, <2>1 DEF Answer, WriteReply
  <2>2. CASE Satisfied(r)
    <3>1. PICK status \in {204, 503}, etag \in {cur'[r.href], Null} :
            Answer(r, status, etag) /\ (etag # Null => r.body # Null /\ etag = cur'[r.href])
      BY <1>1, <2>2
    <3>2. etag # Null => etag \in 1 .. lastRev' /\ revs'[etag].by = r.op /\ etag \in ETags
      BY <1>2, <1>3, <1>5, <2>2, <3>1, WriterConstants DEF ServerTyped
    <3> QED
      BY <3>1, <3>2 DEF Answer, WriteReply
  <2> QED
    BY <2>1, <2>2
<1>8. WriterTypeOK'
  BY <1>0, <1>2, <1>4, <1>5, <1>7 DEF WriterTypeOK, WriterInv, JournalInv, ServerTyped
<1>9. ServerSound'
  BY <1>0, <1>2, <1>5 DEF ServerSound, ServerTyped, WriterInv, HistoryInv, WriterTypeOK
<1>10. EffectsAreSpent'
  BY <1>1, <1>4, <1>6 DEF EffectsAreSpent, WriterInv, HistoryInv
<1>11. NoLostUpdate'
  <2> SUFFICES ASSUME NEW g \in effects'
               PROVE  IF ops[g.op].kind = "create" THEN g.over = 0
                      ELSE /\ g.over = ops[g.op].baseETag
                           /\ revs'[g.over].href = ops[g.op].href
                           /\ revs'[g.over].body = ops[g.op].baseBody
    BY <1>4 DEF NoLostUpdate
  <2>1. CASE g \in effects
    <3>1. g.op \in Rows
      BY <2>1 DEF WriterInv, HistoryInv, EffectsAreSpent
    <3>2. ops[g.op].kind # "create" => ops[g.op].baseETag \in 1 .. lastRev
      BY <3>1, WriterRow
    <3> QED
      BY <1>5, <2>1, <3>1, <3>2 DEF NoLostUpdate, WriterInv, HistoryInv
  <2>2. CASE Satisfied(r) /\ g = f
    <3>1. ops[r.op].kind # "create" => Real(ops[r.op].baseETag, ops[r.op].href, ops[r.op].baseBody)
      BY <1>6 DEF WriterInv, HistoryInv, RowsAreSound, RowSound
    <3> QED
      BY <1>5, <1>6, <2>2, <3>1 DEF Real
  <2> QED
    BY <1>1, <2>1, <2>2
<1>12. AtMostOnce'
  <2>1. Satisfied(r) /\ ops[r.op].kind # "create" => \A g \in effects : g.op # r.op
    BY <1>6 DEF WriterInv, HistoryInv, EffectsAreSpent, Overtaken
  <2> QED
    BY <1>1, <1>4, <2>1 DEF AtMostOnce, WriterInv, HistoryInv
<1>13. ReplyIsTrue'
  <2>1. CASE reply' = reply
    BY <1>0, <1>4, <1>5, <2>1 DEF ReplyIsTrue, WriterInv, AttemptInv, WriterTypeOK
  <2>2. CASE reply' # reply
    <3>1. pc = "await" /\ wop = r.op
      BY <1>7, <2>2
    <3>2. pc' = "await" /\ wop' = r.op
      BY <1>0, <3>1
    <3> QED
      BY <1>1, <1>7, <2>2, <3>1, <3>2 DEF ReplyIsTrue
  <2> QED
    BY <2>1, <2>2
<1> QED
  BY <1>4, <1>8, <1>9, <1>10, <1>11, <1>12, <1>13 DEF WriterInv, HistoryInv, AttemptInv

-----------------------------------------------------------------------------
(* The writer.                                                             *)

(* A step of the attempt that leaves the journal and the server alone.     *)
LEMMA WorkerMoved ==
  ASSUME WriterInv, UNCHANGED <<journalVars, serverVars, published>>
  PROVE  /\ JournalInv' /\ HistoryInv' /\ Rows' = Rows /\ ops' = ops
         /\ \A i \in Rows : Overtaken(i)' = Overtaken(i)
         /\ \A e, h, b : Real(e, h, b)' = Real(e, h, b)
<1>1. /\ UNCHANGED <<bases, ops, lastId, resolutions, attention, published>> /\ Rows' = Rows
      /\ UNCHANGED <<revs, lastRev, cur, inflight, effects>>
  BY DEF journalVars, serverVars, Rows
<1>2. JournalInv'
  BY <1>1, TablesKept DEF WriterInv, JournalInv, TypeOK
<1>3. DecisionsKept
  BY <1>1 DEF DecisionsKept, SameDecision
<1>4. ServerSound'
  BY <1>1 DEF ServerSound, WriterInv, HistoryInv
<1>5. \A e, h, b : Real(e, h, b)' = Real(e, h, b)
  BY <1>1 DEF Real
<1>6. \A i \in Rows : RowSound(i)' /\ Open(i)' = Open(i) /\ Overtaken(i)' = Overtaken(i)
  <2> SUFFICES ASSUME NEW i \in Rows
               PROVE  RowSound(i)' /\ Open(i)' = Open(i) /\ Overtaken(i)' = Overtaken(i)
    OBVIOUS
  <2>1. RowSound(i)
    BY DEF WriterInv, HistoryInv, RowsAreSound
  <2> QED
    BY <1>1, <1>5, <2>1 DEF RowSound, Open, Overtaken
<1>7. HistoryInv'
  BY <1>1, <1>3, <1>4, <1>6, RowsMoved
<1> QED
  BY <1>1, <1>2, <1>5, <1>6, <1>7

(* The resource is read.                                                   *)
LEMMA GetKeeps == ASSUME WriterInv, Get PROVE WriterInv'
<1> DEFINE h == ops[wop].href
           e == cur[h]
<1>0. /\ pc \in {"probe", "recheck", "confirm"} /\ wop' = wop /\ wop \in Rows /\ wop # 0
      /\ pc = "probe" => pc' = "decide"
      /\ pc = "recheck" => pc' = "refused"
      /\ pc = "confirm" => pc' = "verify"
      /\ UNCHANGED <<journalVars, serverVars, reply, published, now, foreign>>
      /\ faults' \in 0 .. MaxFaults
  BY WriterConstants DEF Get, AfterGet, Goto, Fault, WriterInv, WriterTypeOK
<1>1. /\ JournalInv' /\ HistoryInv' /\ Rows' = Rows /\ ops' = ops
      /\ \A i \in Rows : Overtaken(i)' = Overtaken(i)
      /\ \A x, g, b : Real(x, g, b)' = Real(x, g, b)
  BY <1>0, WorkerMoved
<1>2. /\ ops[wop].kind # "create" => ops[wop].baseETag \in 1 .. lastRev
      /\ h \in Hrefs /\ lastRev \in Nat
  BY <1>0, WriterRow
<1>3. /\ e \in 0 .. lastRev /\ (e # 0 => revs[e].href = h /\ revs[e] \in Revision /\ e \in ETags)
  BY <1>2, WriterConstants DEF WriterInv, WriterTypeOK, HistoryInv, ServerSound
<1>4. \/ e = 0 /\ remote' = [status |-> 404, etag |-> Null, body |-> Null]
      \/ e # 0 /\ remote' = [status |-> 200, etag |-> ETagOf(e), body |-> revs[e].body]
      \/ remote' = NoResponse
  BY DEF Get
<1>5. remote' \in Response
  BY <1>3, <1>4 DEF Response, NoResponse, ETagOf, Revision
<1>6. WriterTypeOK'
  BY <1>0, <1>1, <1>5 DEF WriterTypeOK, WriterInv, JournalInv, PCs, serverVars
<1>7. RemoteIsReal'
  <2>1. e # 0 => revs[e].body \in Bodies /\ revs[e].body # Null
    BY <1>3, JournalConstants DEF Revision
  <2>2. e # 0 /\ ETagOf(e) # Null => Real(ETagOf(e), h, revs[e].body)
    BY <1>2, <1>3 DEF ETagOf, Real
  <2>3. lastRev' = lastRev /\ revs' = revs
    BY <1>0 DEF serverVars
  <2>4. CASE e # 0 /\ remote' = [status |-> 200, etag |-> ETagOf(e), body |-> revs[e].body]
    BY <1>0, <1>1, <1>2, <1>3, <2>1, <2>2, <2>3, <2>4 DEF RemoteIsReal
  <2>5. CASE remote'.status # 200
    BY <2>5 DEF RemoteIsReal
  <2> QED
    BY <1>4, <2>4, <2>5 DEF NoResponse
<1>8. RemoteOvertakes'
  <2>1. ops[wop].kind # "create" =>
          /\ revs[ops[wop].baseETag].strong /\ ops[wop].baseETag # 0
          /\ Overtaken(wop) \/ ETagOf(e) = ops[wop].baseETag
    BY <1>0, <1>2 DEF WriterInv, HistoryInv, RowsAreSound, RowSound, Real, Overtaken, ETagOf
  <2>2. ops[wop].kind # "create" /\ e = 0 => Overtaken(wop)
    BY <2>1 DEF Overtaken
  <2> QED
    BY <1>0, <1>1, <1>4, <2>1, <2>2 DEF RemoteOvertakes, NoResponse
<1>9. ReplyIsTrue' /\ UnderWay'
  BY <1>0, <1>1 DEF ReplyIsTrue, UnderWay, WriterInv, AttemptInv, serverVars
<1> QED
  BY <1>1, <1>6, <1>7, <1>8, <1>9 DEF WriterInv, AttemptInv

(* A row is rewritten and keeps its decision; the server stands still.     *)
LEMMA RowRewritten ==
  ASSUME WriterInv, NEW i \in Rows, NEW row,
         ops' = [ops EXCEPT ![i] = row], lastId' = lastId, UNCHANGED serverVars,
         ServerSound', SameDecision(ops[i], row), RowSound(i)',
         Open(i) /\ ~Open(i)' /\ ops[i].kind # "create" =>
           Overtaken(i) \/ \A r \in inflight : r.op # i
  PROVE  HistoryInv' /\ ops'[i] = row /\ Rows' = Rows
<1>1. /\ Rows' = Rows /\ ops'[i] = row /\ \A j \in Rows \ {i} : ops'[j] = ops[j]
  BY SetRow DEF WriterInv, JournalInv
<1>2. DecisionsKept
  BY <1>1 DEF DecisionsKept, SameDecision
<1>3. \A j \in Rows \ {i} : RowSound(j)' /\ Open(j)' = Open(j)
  <2> SUFFICES ASSUME NEW j \in Rows \ {i} PROVE RowSound(j)' /\ Open(j)' = Open(j)
    OBVIOUS
  <2>1. RowSound(j)
    BY DEF WriterInv, HistoryInv, RowsAreSound
  <2> QED
    BY <1>1, <2>1 DEF RowSound, Open, Real, serverVars
<1>4. HistoryInv'
  BY <1>1, <1>2, <1>3, RowsMoved
<1> QED
  BY <1>1, <1>4

(* A set of naturals with an element has a least one.                      *)
LEMMA LeastNatural ==
  ASSUME NEW T, T \subseteq Nat, T # {}
  PROVE  \E x \in T : \A y \in T : x <= y
<1> DEFINE U == {1 .. x : x \in T}
           R == StrictSubsetOrdering(Nat)
<1>1. IsWellFoundedOn(R, FiniteSubsetsOf(Nat))
  BY FS_StrictSubsetOrderingWellFounded
<1>2. \A x \in T : 1 .. x \in FiniteSubsetsOf(Nat)
  BY FS_Interval DEF FiniteSubsetsOf
<1>3. U \subseteq FiniteSubsetsOf(Nat) /\ U # {}
  BY <1>2
<1>4. \A x, y \in T : y < x => <<1 .. y, 1 .. x>> \in R
  <2> SUFFICES ASSUME NEW x \in T, NEW y \in T, y < x PROVE <<1 .. y, 1 .. x>> \in R
    OBVIOUS
  <2>1. x \in 1 .. x /\ x \notin 1 .. y /\ 1 .. y \subseteq 1 .. x /\ 1 .. x \subseteq Nat
    OBVIOUS
  <2> QED
    BY <2>1 DEF StrictSubsetOrdering
<1> HIDE DEF R
<1>5. \E s \in U : \A u \in U : ~ (<<u, s>> \in R)
  <2> HIDE DEF U
  <2> QED
    BY <1>1, <1>3, WFMin
<1>6. PICK x \in T : \A y \in T : ~ (<<1 .. y, 1 .. x>> \in R)
  BY <1>5
<1>7. \A y \in T : ~ (y < x)
  BY <1>4, <1>6
<1> QED
  BY <1>7

(* The journal hands out a due row, or none.                               *)
LEMMA NextIsDue ==
  ASSUME TypeOK, RCWriteJournalNext(now) # 0
  PROVE  RCWriteJournalNext(now) \in Rows /\ Due(RCWriteJournalNext(now), now)
<1> DEFINE T == {i \in Rows : Due(i, now)}
<1>1. T # {} /\ T \subseteq Nat
  BY JournalConstants DEF RCWriteJournalNext, TypeOK, Rows
<1>2. PICK i \in T : \A j \in T : i <= j
  <2> HIDE DEF T
  <2> QED
    BY <1>1, LeastNatural
<1> QED
  BY <1>2 DEF RCWriteJournalNext

(* The lowest due operation is picked.                                     *)
LEMMA BeginAttemptKeepsWriter == ASSUME WriterInv, BeginAttempt PROVE WriterInv'
<1>1. PICK i \in Rows : i = RCWriteJournalNext(now) /\ Due(i, now)
  BY NextIsDue DEF BeginAttempt, WriterInv, JournalInv
<1> DEFINE row == Attempted(ops[i], now)
<1>2. /\ RCWriteJournalBeginAttempt(i, now) /\ i # 0 /\ pc = "idle" /\ now \in Nat
      /\ pc' = "probe" /\ wop' = i
      /\ UNCHANGED <<serverVars, remote, reply, published, now, faults, foreign>>
  BY <1>1 DEF BeginAttempt, WriterInv, WriterTypeOK
<1>3. JournalInv'
  BY <1>1, <1>2, BeginAttemptKeeps DEF WriterInv
<1>4. /\ SameDecision(ops[i], row) /\ row.state = "uncertain" /\ row.httpStatus = 0
      /\ ops' = [ops EXCEPT ![i] = row] /\ lastId' = lastId
  BY <1>1, <1>2, AttemptedRow, RowFacts DEF RCWriteJournalBeginAttempt, WriterInv, JournalInv
<1> HIDE DEF row
<1>5. ops'[i] = row /\ Rows' = Rows
  BY <1>1, <1>4, SetRow DEF WriterInv, JournalInv
<1>6. RowSound(i)'
  <2>1. ops[i].kind # "create" => Real(ops[i].baseETag, ops[i].href, ops[i].baseBody)
    BY <1>1 DEF WriterInv, HistoryInv, RowsAreSound, RowSound
  <2> QED
    BY <1>2, <1>4, <1>5, <2>1 DEF RowSound, SameDecision, Real, serverVars
<1>7. ServerSound'
  BY <1>2 DEF ServerSound, WriterInv, HistoryInv, serverVars
<1>8. HistoryInv'
  <2>1. Open(i)'
    BY <1>4, <1>5 DEF Open
  <2> QED
    BY <1>1, <1>2, <1>4, <1>6, <1>7, <2>1, RowRewritten
<1>9. WriterTypeOK'
  BY <1>1, <1>2, <1>3, <1>5 DEF WriterTypeOK, WriterInv, JournalInv, PCs, serverVars
<1>10. remote = NoResponse /\ reply = Null
  BY <1>2 DEF WriterInv, AttemptInv, ReplyIsTrue
<1>11. AttemptInv'
  BY <1>2, <1>4, <1>5, <1>10
     DEF AttemptInv, UnderWay, RemoteIsReal, RemoteOvertakes, ReplyIsTrue, NoResponse
<1> QED
  BY <1>3, <1>8, <1>9, <1>11 DEF WriterInv

(* What is recorded of an attempt.                                         *)
LEMMA RecordKeeps ==
  ASSUME WriterInv, NEW i \in Rows, i = wop, NEW s \in Results, NEW r \in Response,
         Record(s, r),
         r.status = 200 /\ r.etag # Null => Real(r.etag, ops[i].href, r.body),
         s = "applied" /\ ops[i].kind # "delete" =>
           r.body = ops[i].desiredBody \/ revs[r.etag].by = i,
         s # "uncertain" /\ ops[i].kind # "create" =>
           Overtaken(i) \/ \A q \in inflight : q.op # i
  PROVE  WriterInv'
<1> DEFINE body == IF r.status = 200 THEN r.body ELSE Null
           row  == Recorded(ops[i], s, r.status, r.etag, body)
<1>1. /\ r.status \in {200, 404, 503} /\ r.status \in Statuses
      /\ r.etag \in ETags \cup {Null} /\ body \in Bodies \cup {Null}
      /\ s \in OpStates
  BY JournalConstants, WriterConstants DEF Response, Results, OpStates
<1>2. /\ RCWriteJournalRecordResult(i, s, r.status, r.etag, body)
      /\ Done /\ UNCHANGED <<serverVars, published, now, faults, foreign>>
  BY DEF Record
<1> HIDE DEF body
<1>3. JournalInv'
  BY <1>1, <1>2, RecordResultKeeps DEF WriterInv
<1>4. /\ SameDecision(ops[i], row) /\ row.state = s /\ row.httpStatus = r.status
      /\ row.resultETag = r.etag /\ row.resultBody = body
  <2>1. ops[i] \in RCWriteOperation
    BY RowFacts DEF WriterInv, JournalInv
  <2> QED
    BY ONLY <1>1, <2>1, RecordedRow
<1>5. ops' = [ops EXCEPT ![i] = row] /\ lastId' = lastId
  BY <1>2 DEF RCWriteJournalRecordResult
<1>6. s = "applied" /\ ops[i].kind # "delete" => r.status = 200
  BY <1>2 DEF RCWriteJournalRecordResult
<1> HIDE DEF row
<1>7. ops'[i] = row /\ Rows' = Rows
  BY <1>5, SetRow DEF WriterInv, JournalInv
<1>8. RowSound(i)'
  <2>1. ops[i].kind # "create" => Real(ops[i].baseETag, ops[i].href, ops[i].baseBody)
    BY DEF WriterInv, HistoryInv, RowsAreSound, RowSound
  <2>2. r.status = 200 => body = r.body
    BY DEF body
  <2>3. s # "acknowledged"
    BY DEF Results
  <2> QED
    BY <1>2, <1>4, <1>6, <1>7, <2>1, <2>2, <2>3 DEF RowSound, SameDecision, Real, serverVars
<1>9. ServerSound'
  BY <1>2 DEF ServerSound, WriterInv, HistoryInv, serverVars
<1>10. HistoryInv'
  <2>1. ~Open(i)' => s # "uncertain"
    BY <1>4, <1>7 DEF Open
  <2> QED
    BY <1>2, <1>4, <1>5, <1>8, <1>9, <2>1, RowRewritten
<1>11. WriterTypeOK'
  BY <1>2, <1>3, <1>7
     DEF WriterTypeOK, WriterInv, JournalInv, PCs, serverVars, Done, Response, NoResponse
<1> QED
  BY <1>2, <1>3, <1>10, <1>11, AttemptOver DEF WriterInv, Done

(* The attempt's own operation, and what a GET showed of its resource.     *)
LEMMA UnderWayRow ==
  ASSUME WriterInv, pc # "idle"
  PROVE  /\ wop \in Rows /\ wop # 0 /\ ops[wop].state = "uncertain"
         /\ ops[wop] \in RCWriteOperation
         /\ remote \in Response
         /\ remote.status = 200 /\ remote.etag # Null =>
              Real(remote.etag, ops[wop].href, remote.body)
         /\ ops[wop].kind # "create" =>
              /\ ops[wop].baseETag # Null
              /\ Real(ops[wop].baseETag, ops[wop].href, ops[wop].baseBody)
         /\ /\ ops[wop].kind # "create"
            /\ remote.status = 404 \/ (remote.status = 200 /\ remote.etag # ops[wop].baseETag)
            => Overtaken(wop)
<1>1. wop \in Rows /\ wop # 0 /\ remote \in Response
  BY DEF WriterInv, WriterTypeOK
<1>2. ops[wop] \in RCWriteOperation /\ (ops[wop].kind # "create" => ops[wop].baseETag # Null)
  BY <1>1, WriterRow
<1>3. ops[wop].kind # "create" => Real(ops[wop].baseETag, ops[wop].href, ops[wop].baseBody)
  BY <1>1 DEF WriterInv, HistoryInv, RowsAreSound, RowSound
<1> QED
  BY <1>1, <1>2, <1>3 DEF WriterInv, AttemptInv, UnderWay, RemoteIsReal, RemoteOvertakes

(* The probe shows that the write is done, overtaken, or still to be sent. *)
LEMMA DecideKeeps == ASSUME WriterInv, Decide PROVE WriterInv'
<1>1. PICK i \in Rows : i = wop
  BY UnderWayRow DEF Decide
<1> DEFINE o == ops[i]
<1>2. /\ pc = "decide" /\ i # 0 /\ o.state = "uncertain" /\ remote \in Response
      /\ remote.status = 200 /\ remote.etag # Null => Real(remote.etag, o.href, remote.body)
      /\ o.kind # "create" => o.baseETag # Null /\ Real(o.baseETag, o.href, o.baseBody)
      /\ /\ o.kind # "create"
         /\ remote.status = 404 \/ (remote.status = 200 /\ remote.etag # o.baseETag)
         => Overtaken(i)
  BY <1>1, UnderWayRow DEF Decide
<1>3. CASE Reached(o, remote) /\ Record("applied", remote)
  <2>1. remote.status = 404 \/ (remote.status = 200 /\ remote.body = o.desiredBody)
    BY <1>3 DEF Reached, Desired
  <2>2. o.kind # "delete" => remote.body = o.desiredBody
    BY <1>3 DEF Reached, Desired
  <2>3. o.kind # "create" => Overtaken(i) \/ \A q \in inflight : q.op # i
    <3> SUFFICES ASSUME o.kind # "create", ~Overtaken(i), NEW q \in inflight, q.op = i
                 PROVE  FALSE
      OBVIOUS
    <3>1. remote.status = 200 /\ remote.etag = o.baseETag /\ remote.body = o.desiredBody
      BY <1>2, <2>1
    <3>2. o.baseBody = o.desiredBody
      BY <1>2, <3>1 DEF Real
    <3>3. o.kind \in Kinds /\ o.kind # "delete"
      BY <1>3, <3>1, WriterRow DEF Reached
    <3> QED
      BY <3>2, <3>3 DEF Kinds, WriterInv, HistoryInv, RequestsFollowRows
  <2> HIDE DEF o
  <2> QED
    BY <1>1, <1>2, <1>3, <2>2, <2>3, RecordKeeps DEF Results, o
<1>4. CASE ~Conclusive(remote) /\ Record("uncertain", remote)
  BY <1>1, <1>2, <1>4, RecordKeeps DEF Results
<1>5. CASE Conclusive(remote) /\ Diverged(o, remote) /\ Record("conflict", remote)
  <2>1. o.kind # "create" => Overtaken(i)
    BY <1>2, <1>5 DEF Conclusive, Diverged
  <2> QED
    BY <1>1, <1>2, <1>5, <2>1, RecordKeeps DEF Results
<1>6. CASE /\ ~Reached(o, remote) /\ Conclusive(remote) /\ ~Diverged(o, remote)
           /\ SendConditional(o)
  <2> DEFINE q == [op |-> i, attempt |-> o.attempts, href |-> o.href, match |-> o.baseETag,
                   body |-> o.desiredBody]
  <2>1. /\ inflight' = inflight \cup {q} /\ pc' = "await" /\ wop' = wop /\ reply' = Null
        /\ UNCHANGED <<journalVars, revs, lastRev, cur, effects, remote, published, now, faults,
                       foreign>>
    BY <1>1, <1>6 DEF SendConditional, Goto
  <2>2. /\ UNCHANGED <<bases, ops, lastId, resolutions, attention>> /\ Rows' = Rows
        /\ UNCHANGED <<revs, lastRev, cur, effects, remote, published, now, faults, foreign>>
    BY <2>1 DEF journalVars, Rows
  <2>3. JournalInv'
    BY <2>2, TablesKept DEF WriterInv, JournalInv, TypeOK
  <2>4. q \in Request
    BY <1>1, <1>2, UnderWayRow, RowFacts DEF Request, RCWriteOperation, WriterInv, JournalInv
  <2>5. o.kind = "update" => o.baseBody # o.desiredBody
    BY <1>2, <1>6, WriterRow
       DEF Reached, Desired, Diverged, Conclusive, Real, RCWriteETagIsStrong
  <2>6. RequestsFollowRows'
    BY <1>2, <2>1, <2>2, <2>5 DEF RequestsFollowRows, Open, Overtaken, WriterInv, HistoryInv
  <2>7. HistoryInv'
    BY <2>2, <2>6
       DEF HistoryInv, ServerSound, RowsAreSound, RowSound, Real, EffectsAreSpent, Overtaken,
           NoLostUpdate, AtMostOnce, WriterInv
  <2>8. WriterTypeOK'
    BY <1>2, <2>1, <2>2, <2>3, <2>4 DEF WriterTypeOK, WriterInv, JournalInv, PCs
  <2>9. AttemptInv'
    BY <1>2, <2>1, <2>2
       DEF AttemptInv, UnderWay, RemoteIsReal, RemoteOvertakes, ReplyIsTrue, Overtaken, Real,
           WriterInv
  <2> QED
    BY <2>3, <2>7, <2>8, <2>9 DEF WriterInv
<1> QED
  BY <1>1, <1>3, <1>4, <1>5, <1>6 DEF Decide

(* A refused or confirmed request is followed by a GET; an error is not.   *)
LEMMA ReceiveKeeps == ASSUME WriterInv, Receive PROVE WriterInv'
<1>1. PICK i \in Rows : i = wop
  BY UnderWayRow DEF Receive
<1>2. pc = "await" /\ reply \in WriteReply /\ i # 0
  BY <1>1, UnderWayRow DEF Receive, WriterInv, WriterTypeOK
<1>3. CASE reply.status = 503
  <2> DEFINE r == [status |-> 503, etag |-> reply.etag, body |-> Null]
  <2>1. r \in Response /\ r.status = 503 /\ Record("uncertain", r)
    BY <1>2, <1>3 DEF Receive, Response, WriteReply
  <2> HIDE DEF r
  <2> QED
    BY <1>1, <2>1, RecordKeeps DEF Results
<1>4. CASE reply.status # 503
  <2>1. /\ pc' = IF reply.status = 412 THEN "recheck" ELSE "confirm"
        /\ wop' = wop /\ reply.status \in {204, 412}
        /\ UNCHANGED <<journalVars, serverVars, remote, reply, published, now, faults, foreign>>
    BY <1>2, <1>4 DEF Receive, Goto, WriteReply
  <2>2. /\ JournalInv' /\ HistoryInv' /\ Rows' = Rows /\ ops' = ops
        /\ \A j \in Rows : Overtaken(j)' = Overtaken(j)
        /\ \A e, h, b : Real(e, h, b)' = Real(e, h, b)
    BY <2>1, WorkerMoved
  <2>3. WriterTypeOK'
    BY <1>2, <2>1, <2>2 DEF WriterTypeOK, WriterInv, JournalInv, PCs, serverVars
  <2>4. reply # Null
    BY DEF Receive
  <2>5. AttemptInv'
    BY <1>1, <1>2, <2>1, <2>2, <2>4
       DEF AttemptInv, UnderWay, RemoteIsReal, RemoteOvertakes, ReplyIsTrue, WriterInv, serverVars
  <2> QED
    BY <2>2, <2>3, <2>5 DEF WriterInv
<1> QED
  BY <1>3, <1>4

(* The attempt ends and nothing is recorded.                               *)
LEMMA AbandonKeeps ==
  ASSUME WriterInv, Done, UNCHANGED <<journalVars, serverVars, published, now, foreign>>,
         faults' \in 0 .. MaxFaults
  PROVE  WriterInv'
<1>1. JournalInv' /\ HistoryInv' /\ Rows' = Rows
  BY WorkerMoved
<1>2. NoResponse \in Response
  BY DEF Response, NoResponse
<1>3. WriterTypeOK'
  BY <1>1, <1>2 DEF WriterTypeOK, WriterInv, JournalInv, PCs, serverVars, Done
<1> QED
  BY <1>1, <1>3, AttemptOver DEF WriterInv, Done

(* The refusal is confirmed by what the second GET shows.                  *)
LEMMA RefusedKeeps == ASSUME WriterInv, Refused PROVE WriterInv'
<1>1. PICK i \in Rows : i = wop
  BY UnderWayRow DEF Refused
<1>2. /\ pc = "refused" /\ remote \in Response
      /\ remote.status = 200 /\ remote.etag # Null => Real(remote.etag, ops[i].href, remote.body)
  BY <1>1, UnderWayRow DEF Refused
<1>3. Overtaken(i)
  BY <1>1, <1>2 DEF WriterInv, AttemptInv, ReplyIsTrue
<1>4. \E s \in {"conflict", "uncertain"} : Record(s, remote)
  BY DEF Refused
<1> QED
  BY <1>1, <1>2, <1>3, <1>4, RecordKeeps DEF Results

(* What the GET shows is what was asked for, or ours by its tag, or not.   *)
LEMMA VerifyKeeps == ASSUME WriterInv, Verify PROVE WriterInv'
<1>1. PICK i \in Rows : i = wop
  BY UnderWayRow DEF Verify
<1>2. /\ pc = "verify" /\ remote \in Response
      /\ remote.status = 200 /\ remote.etag # Null => Real(remote.etag, ops[i].href, remote.body)
  BY <1>1, UnderWayRow DEF Verify
<1>3. /\ Overtaken(i) /\ reply # Null
      /\ reply.etag # Null => revs[reply.etag].by = i
  BY <1>1, <1>2 DEF WriterInv, AttemptInv, ReplyIsTrue
<1>4. CASE Reached(ops[i], remote) \/ (ops[i].kind # "delete" /\ Ours(remote, reply))
  <2>1. Record("applied", remote)
    BY <1>1, <1>4 DEF Verify
  <2>2. ops[i].kind # "delete" =>
          remote.body = ops[i].desiredBody \/ revs[remote.etag].by = i
    BY <1>3, <1>4 DEF Reached, Desired, Ours, RCWriteETagIsStrong
  <2> QED
    BY <1>1, <1>2, <1>3, <2>1, <2>2, RecordKeeps DEF Results
<1>5. CASE ~(Reached(ops[i], remote) \/ (ops[i].kind # "delete" /\ Ours(remote, reply)))
  <2>1. \E s \in {"conflict", "uncertain"} : Record(s, remote)
    BY <1>1, <1>5 DEF Verify
  <2> QED
    BY <1>1, <1>2, <1>3, <2>1, RecordKeeps DEF Results
<1> QED
  BY <1>4, <1>5

(* Time passes.                                                            *)
LEMMA TickKeeps == ASSUME WriterInv, Tick PROVE WriterInv'
<1>1. PICK i \in Rows : now' = ops[i].retryAt
  BY DEF Tick
<1>2. now' \in Nat
  BY <1>1, WriterRow DEF RCWriteOperation
<1>3. /\ JournalInv' /\ HistoryInv' /\ Rows' = Rows /\ ops' = ops
      /\ \A j \in Rows : Overtaken(j)' = Overtaken(j)
      /\ \A e, h, b : Real(e, h, b)' = Real(e, h, b)
  BY WorkerMoved DEF Tick
<1>4. UNCHANGED <<journalVars, serverVars, pc, wop, remote, reply, published, faults, foreign>>
  BY DEF Tick, writerVars
<1>5. WriterTypeOK'
  BY <1>2, <1>3, <1>4 DEF WriterTypeOK, WriterInv, JournalInv, serverVars
<1>6. pc = "idle" /\ wop = 0
  BY DEF Tick, WriterInv, WriterTypeOK
<1>7. AttemptInv'
  BY <1>4, <1>6
     DEF AttemptInv, UnderWay, RemoteIsReal, RemoteOvertakes, ReplyIsTrue, WriterInv
<1> QED
  BY <1>3, <1>5, <1>7 DEF WriterInv

-----------------------------------------------------------------------------
(* The coordinator, between attempts.                                      *)

(* The rows move on soundly and the local store shows what exists.         *)
LEMMA CoordinatorMoved ==
  ASSUME WriterInv, pc = "idle", JournalInv',
         UNCHANGED <<serverVars, writerVars, now, faults, foreign>>,
         published' \in [Hrefs -> 0 .. lastRev],
         \A h \in Hrefs : published'[h] # 0 => revs[published'[h]].href = h,
         DecisionsKept, \A i \in Rows' : RowSound(i)', \A i \in Rows : Open(i) => Open(i)'
  PROVE  WriterInv'
<1>1. UNCHANGED <<revs, lastRev, cur, inflight, effects, pc, wop, remote, reply>>
  BY DEF serverVars, writerVars
<1>2. wop = 0 /\ remote = NoResponse /\ reply = Null
  BY DEF WriterInv, WriterTypeOK, AttemptInv, ReplyIsTrue
<1>3. ServerSound'
  BY <1>1 DEF ServerSound, WriterInv, HistoryInv
<1>4. HistoryInv'
  BY <1>3, RowsMoved
<1>5. WriterTypeOK'
  BY <1>1, <1>2 DEF WriterTypeOK, WriterInv, JournalInv
<1> QED
  BY <1>1, <1>2, <1>4, <1>5, AttemptOver DEF WriterInv

(* A fresh row is sound if its base is real.                               *)
BaseIsReal(row) ==
  /\ row.state = "queued" /\ row.httpStatus = 0
  /\ row.kind # "create" => Real(row.baseETag, row.href, row.baseBody)

(* A row is appended.                                                      *)
LEMMA RowAppended ==
  ASSUME WriterInv, NEW row, Insert(row), BaseIsReal(row), UNCHANGED serverVars
  PROVE  /\ DecisionsKept /\ \A i \in Rows' : RowSound(i)'
         /\ \A i \in Rows : Open(i) => Open(i)'
<1>1. /\ Rows' = Rows \cup {lastId + 1} /\ ops'[lastId + 1] = row
      /\ \A j \in Rows : ops'[j] = ops[j]
  BY InsertRow DEF WriterInv, JournalInv
<1>2. UNCHANGED <<revs, lastRev>>
  BY DEF serverVars
<1>3. \A j \in Rows : RowSound(j)
  BY DEF WriterInv, HistoryInv, RowsAreSound
<1>4. DecisionsKept /\ \A i \in Rows : Open(i) => Open(i)'
  BY <1>1 DEF DecisionsKept, SameDecision, Open
<1>5. ASSUME NEW i \in Rows PROVE RowSound(i)'
  BY <1>1, <1>2, <1>3 DEF RowSound, Real
<1>6. ASSUME NEW n \in Rows' \ Rows PROVE RowSound(n)'
  BY <1>1, <1>2 DEF RowSound, Real, BaseIsReal
<1> QED
  BY <1>4, <1>5, <1>6

(* A row is settled, with or without a successor.                          *)
LEMMA RowSettled ==
  ASSUME WriterInv, NEW i \in Rows, NEW s \in {"acknowledged", "cancelled"}, NEW row,
         UNCHANGED serverVars,
         \/ s = "acknowledged" /\ ops[i].state \in {"applied", "acknowledged"}
         \/ s = "cancelled" /\ ops[i].state = "conflict",
         \/ ops' = [ops EXCEPT ![i] = WithState(@, s)] /\ lastId' = lastId
         \/ Supersede(i, s, row) /\ BaseIsReal(row)
  PROVE  /\ DecisionsKept /\ \A j \in Rows' : RowSound(j)'
         /\ \A j \in Rows : Open(j) => Open(j)'
<1>1. \/ /\ Rows' = Rows
         /\ ops'[i] = WithState(ops[i], s) /\ \A j \in Rows \ {i} : ops'[j] = ops[j]
      \/ /\ Rows' = Rows \cup {lastId + 1} /\ ops'[lastId + 1] = row /\ BaseIsReal(row)
         /\ ops'[i] = WithState(ops[i], s) /\ \A j \in Rows \ {i} : ops'[j] = ops[j]
  BY SetRow, SupersedeRow DEF WriterInv, JournalInv
<1>2. UNCHANGED <<revs, lastRev>>
  BY DEF serverVars
<1>3. \A j \in Rows : RowSound(j)
  BY DEF WriterInv, HistoryInv, RowsAreSound
<1>4. /\ SameDecision(ops[i], ops'[i]) /\ ops'[i].state = s
      /\ ops'[i].httpStatus = ops[i].httpStatus /\ ops'[i].resultETag = ops[i].resultETag
      /\ ops'[i].resultBody = ops[i].resultBody
  <2>1. ops[i] \in RCWriteOperation /\ s \in OpStates
    BY RowFacts DEF WriterInv, JournalInv, OpStates
  <2>2. ops'[i] = WithState(ops[i], s)
    BY <1>1
  <2> QED
    BY ONLY <2>1, <2>2, WithStateRow
<1>5. DecisionsKept
  <2>1. Rows \subseteq Rows'
    BY <1>1
  <2>2. \A j \in Rows : SameDecision(ops[j], ops'[j])
    BY <1>1, <1>4 DEF SameDecision
  <2> QED
    BY <2>1, <2>2 DEF DecisionsKept
<1>6. \A j \in Rows : Open(j) => Open(j)'
  BY <1>1 DEF Open
<1>7. RowSound(i)'
  BY <1>2, <1>3, <1>4 DEF RowSound, SameDecision, Real
<1>8. ASSUME NEW j \in Rows \ {i} PROVE RowSound(j)'
  BY <1>1, <1>2, <1>3 DEF RowSound, Real
<1>9. ASSUME NEW n \in Rows' \ Rows PROVE RowSound(n)'
  BY <1>1, <1>2 DEF RowSound, Real, BaseIsReal
<1> QED
  BY <1>5, <1>6, <1>7, <1>8, <1>9

(* What a row, or a publication, is pinned to.                             *)
LEMMA BaseOfIsReal ==
  ASSUME WriterInv, NEW e \in 1 .. lastRev
  PROVE  /\ BaseOf(e) \in Base /\ BaseOf(e).href = revs[e].href /\ BaseOf(e).revision = 1
         /\ BaseOf(e).etag # Null => Real(BaseOf(e).etag, revs[e].href, BaseOf(e).body)
<1>1. revs[e] \in Revision /\ e \in ETags /\ e # 0
  BY WriterConstants DEF WriterInv, WriterTypeOK
<1>2. ETagOf(e) \in ETags \cup {Null} /\ (ETagOf(e) # Null => ETagOf(e) = e /\ revs[e].strong)
  BY <1>1 DEF ETagOf
<1> QED
  BY <1>1, <1>2, JournalConstants DEF BaseOf, Base, Revision, Real

(* A publication.                                                          *)
LEMMA PublishKeeps == ASSUME WriterInv, NEW h \in Hrefs, Publish(h) PROVE WriterInv'
<1>1. /\ pc = "idle" /\ UNCHANGED <<serverVars, writerVars, now, faults, foreign>>
      /\ UNCHANGED <<ops, lastId, resolutions, attention>> /\ Rows' = Rows
  BY DEF Publish, Rows
<1>2. /\ cur[h] \in 0 .. lastRev /\ (cur[h] # 0 => revs[cur[h]].href = h)
      /\ published \in [Hrefs -> 0 .. lastRev] /\ lastRev \in Nat
      /\ \A g \in Hrefs : published[g] # 0 => revs[published[g]].href = g
  BY WriterConstants DEF WriterInv, WriterTypeOK, HistoryInv, ServerSound
<1>3. bases' \in [Keys -> Base]
  <2>1. cur[h] # 0 => BaseOf(cur[h]) \in Base
    BY <1>2, BaseOfIsReal
  <2>2. NoBase \in Base
    BY DEF NoBase, Base
  <2>3. bases \in [Keys -> Base] /\ h \in Keys
    BY WriterConstants DEF WriterInv, JournalInv, TypeOK
  <2>4. \E base \in Base : bases' = [bases EXCEPT ![h] = base]
    BY <2>1, <2>2 DEF Publish
  <2> QED
    BY <2>3, <2>4
<1>4. JournalInv'
  <2>1. attention \in [Ids -> Reasons \cup {Null}]
    BY DEF WriterInv, JournalInv, TypeOK
  <2> QED
    BY <1>1, <1>3, <2>1, TablesKept DEF WriterInv
<1>5. published' \in {published, [published EXCEPT ![h] = cur[h]]}
  BY DEF Publish
<1>6. /\ published' \in [Hrefs -> 0 .. lastRev]
      /\ \A g \in Hrefs : published'[g] # 0 => revs[published'[g]].href = g
  BY <1>2, <1>5
<1>7. DecisionsKept /\ \A i \in Rows : Open(i) => Open(i)'
  BY <1>1 DEF DecisionsKept, SameDecision, Open
<1>8. \A i \in Rows' : RowSound(i)'
  BY <1>1 DEF RowSound, Real, serverVars, WriterInv, HistoryInv, RowsAreSound
<1> QED
  BY <1>1, <1>4, <1>6, <1>7, <1>8, CoordinatorMoved

(* A local edit is queued on the revision the local store showed.          *)
LEMMA QueueEditKeeps ==
  ASSUME WriterInv, NEW c \in Changes, NEW h \in Hrefs, NEW kind \in Kinds,
         NEW b \in Bodies \cup {Null}, QueueEdit(c, h, kind, b)
  PROVE  WriterInv'
<1> DEFINE e == published[h]
<1>1. pc = "idle" /\ UNCHANGED <<serverVars, writerVars, published, now, faults, foreign>>
  BY DEF QueueEdit
<1>2. /\ e \in 0 .. lastRev /\ (e # 0 => revs[e].href = h) /\ h \in Keys /\ lastRev \in Nat
      /\ published \in [Hrefs -> 0 .. lastRev]
      /\ \A g \in Hrefs : published[g] # 0 => revs[published[g]].href = g
  BY WriterConstants DEF WriterInv, WriterTypeOK, HistoryInv, ServerSound
<1>3. <<"local", c>> \in ChangeIds
  BY DEF ChangeIds
<1>4. JournalInv' /\ \E row : Insert(row) /\ BaseIsReal(row)
  <2>1. CASE e = 0
    <3>1. RCWriteJournalEnqueue(<<"local", c>>, h, h, "create", 0, b)
      BY <2>1 DEF QueueEdit
    <3>2. JournalInv'
      BY <1>2, <1>3, <3>1, EnqueueKeeps DEF WriterInv, Kinds
    <3> DEFINE row == NewOperation(<<"local", c>>, h, h, "create", 0, bases[h].etag,
                                   bases[h].body, b)
    <3>3. Insert(row) /\ BaseIsReal(row)
      BY <3>1 DEF RCWriteJournalEnqueue, BaseIsReal, NewOperation
    <3> HIDE DEF row
    <3> QED
      BY <3>2, <3>3
  <2>2. CASE e # 0
    <3> DEFINE base == BaseOf(e)
               row  == NewOperation(<<"local", c>>, h, base.href, kind, base.revision, base.etag,
                                    base.body, b)
    <3>1. QueueFromBase(<<"local", c>>, h, kind, base, b)
      BY <2>2 DEF QueueEdit
    <3>2. /\ base \in Base /\ base.href = h /\ base.revision = 1
          /\ base.etag # Null => Real(base.etag, h, base.body)
      BY <1>2, <2>2, BaseOfIsReal
    <3>3. kind \in {"update", "delete"}
      BY <3>1, <3>2 DEF QueueFromBase, ValidOperation, Kinds
    <3> HIDE DEF base
    <3>4. JournalInv'
      BY <1>2, <1>3, <3>1, <3>2, <3>3, QueueFromBaseKeeps DEF WriterInv
    <3>5. base.etag # Null
      BY <3>1, <3>3 DEF QueueFromBase, ExactBase, RCWriteETagIsStrong
    <3>6. Insert(row) /\ BaseIsReal(row)
      BY <3>1, <3>2, <3>5 DEF QueueFromBase, BaseIsReal, NewOperation
    <3> HIDE DEF row
    <3> QED
      BY <3>4, <3>6
  <2> QED
    BY <2>1, <2>2
<1>5. PICK row : Insert(row) /\ BaseIsReal(row)
  BY <1>4
<1>6. /\ DecisionsKept /\ \A i \in Rows' : RowSound(i)'
      /\ \A i \in Rows : Open(i) => Open(i)'
  BY <1>1, <1>5, RowAppended
<1> QED
  BY <1>1, <1>2, <1>4, <1>6, CoordinatorMoved

(* The checkpoint of an applied successor.                                 *)
LEMMA CheckpointKeeps == ASSUME WriterInv, NEW i \in Rows, Checkpoint(i) PROVE WriterInv'
<1>1. /\ pc = "idle" /\ UNCHANGED <<serverVars, writerVars, published, now, faults, foreign>>
      /\ RCWriteJournalResolutionMirrored(i)
  BY DEF Checkpoint
<1>2. JournalInv'
  BY <1>1, ResolutionCheckpointed DEF WriterInv
<1>3. ops' = ops /\ Rows' = Rows
  BY <1>1 DEF RCWriteJournalResolutionMirrored, Rows
<1>4. DecisionsKept /\ \A j \in Rows : Open(j) => Open(j)'
  BY <1>3 DEF DecisionsKept, SameDecision, Open
<1>5. \A j \in Rows' : RowSound(j)'
  BY <1>1, <1>3 DEF RowSound, Real, serverVars, WriterInv, HistoryInv, RowsAreSound
<1>6. /\ published' \in [Hrefs -> 0 .. lastRev]
      /\ \A h \in Hrefs : published'[h] # 0 => revs[published'[h]].href = h
  BY <1>1 DEF WriterInv, WriterTypeOK, HistoryInv, ServerSound
<1> QED
  BY <1>1, <1>2, <1>4, <1>5, <1>6, CoordinatorMoved

(* The local store adopts what an applied operation left on the server.    *)
LEMMA AdoptShowsWhatExists ==
  ASSUME WriterInv, NEW i \in Rows, ops[i].state = "applied", Adopt(i)
  PROVE  /\ published' \in [Hrefs -> 0 .. lastRev]
         /\ \A h \in Hrefs : published'[h] # 0 => revs[published'[h]].href = h
<1>1. /\ published \in [Hrefs -> 0 .. lastRev] /\ ops[i].href \in Hrefs /\ lastRev \in Nat
      /\ \A h \in Hrefs : published[h] # 0 => revs[published[h]].href = h
  BY WriterRow DEF WriterInv, WriterTypeOK, HistoryInv, ServerSound
<1>2. ops[i].kind # "delete" =>
        ops[i].resultETag \in 1 .. lastRev /\ revs[ops[i].resultETag].href = ops[i].href
  BY SoundRowsApplied DEF AppliedIsStored
<1>3. PICK e \in 0 .. lastRev : /\ published' = [published EXCEPT ![ops[i].href] = e]
                                /\ e # 0 => revs[e].href = ops[i].href
  <2>1. CASE ops[i].kind = "delete"
    <3>1. 0 \in 0 .. lastRev /\ published' = [published EXCEPT ![ops[i].href] = 0]
      BY <1>1, <2>1 DEF Adopt
    <3> QED
      BY <3>1
  <2>2. CASE ops[i].kind # "delete"
    <3>1. published' = [published EXCEPT ![ops[i].href] = ops[i].resultETag]
      BY <2>2 DEF Adopt
    <3>2. ops[i].resultETag \in 0 .. lastRev
      BY <1>1, <1>2, <2>2
    <3> QED
      BY <1>2, <2>2, <3>1, <3>2
  <2> QED
    BY <2>1, <2>2
<1> QED
  BY <1>1, <1>3

(* An applied upload is accepted and acknowledged.                         *)
LEMMA AcceptKeeps == ASSUME WriterInv, NEW i \in Rows, Accept(i) PROVE WriterInv'
<1>1. /\ pc = "idle" /\ UNCHANGED <<serverVars, writerVars, now, faults, foreign>>
      /\ ops[i].state = "applied" /\ Adopt(i) /\ MirrorCheckpointed(i)
      /\ ops' = [ops EXCEPT ![i] = WithState(@, "acknowledged")]
      /\ UNCHANGED <<bases, lastId, resolutions, attention>>
  BY DEF Accept, RCWriteJournalAcknowledge
<1>2. JournalInv'
  <2>1. bases' \in [Keys -> Base]
    BY <1>1 DEF WriterInv, JournalInv, TypeOK
  <2> QED
    BY <1>1, <2>1, SettleKeeps DEF WriterInv, Terminal
<1>3. /\ DecisionsKept /\ \A j \in Rows' : RowSound(j)'
      /\ \A j \in Rows : Open(j) => Open(j)'
  BY <1>1, RowSettled
<1> QED
  BY <1>1, <1>2, <1>3, AdoptShowsWhatExists, CoordinatorMoved

(* A newer local edit follows an applied upload.                           *)
LEMMA ReplanKeeps ==
  ASSUME WriterInv, NEW i \in Rows, NEW kind \in {"update", "delete"},
         NEW b \in Bodies \cup {Null}, Replan(i, kind, b)
  PROVE  WriterInv'
<1> DEFINE o    == ops[i]
           base == VerifiedBase(o)
           row  == NewOperation(<<"successor", i>>, o.resourceKey, o.href, kind, base.revision,
                                base.etag, base.body, b)
<1>1. /\ pc = "idle" /\ UNCHANGED <<serverVars, writerVars, now, faults, foreign>>
      /\ QueueSuccessor(i, kind, b) /\ Adopt(i)
  BY DEF Replan
<1>2. JournalInv'
  BY <1>1, QueueSuccessorKeeps DEF WriterInv
<1>3. /\ o.state = "applied" /\ o.kind # "delete"
      /\ \/ ops' = [ops EXCEPT ![i] = WithState(@, "acknowledged")] /\ lastId' = lastId
         \/ Supersede(i, "acknowledged", row)
  BY <1>1 DEF QueueSuccessor
<1>4. BaseIsReal(row)
  <2>1. RowSound(i) /\ o.resultETag # Null
    BY <1>3 DEF WriterInv, HistoryInv, RowsAreSound, JournalInv, DurablePrecondition
  <2>2. Real(o.resultETag, o.href, o.resultBody)
    BY <1>3, <2>1 DEF RowSound
  <2> QED
    BY <2>2 DEF BaseIsReal, NewOperation, VerifiedBase
<1> HIDE DEF row
<1>5. /\ DecisionsKept /\ \A j \in Rows' : RowSound(j)'
      /\ \A j \in Rows : Open(j) => Open(j)'
  BY <1>1, <1>3, <1>4, RowSettled
<1> QED
  BY <1>1, <1>2, <1>3, <1>5, AdoptShowsWhatExists, CoordinatorMoved

(* A conflict is resolved on the revision it showed.                       *)
LEMMA ResolveKeeps ==
  ASSUME WriterInv, NEW i \in Rows, NEW kind \in Kinds, NEW b \in Bodies \cup {Null},
         NEW receipt \in Receipts, Resolve(i, kind, b, receipt)
  PROVE  WriterInv'
<1> DEFINE o   == ops[i]
           row == Successor(i, kind, b)
<1>1. /\ pc = "idle" /\ UNCHANGED <<serverVars, writerVars, published, now, faults, foreign>>
      /\ RCWriteJournalResolveConflict(i, kind, b, receipt)
  BY DEF Resolve
<1>2. JournalInv'
  BY <1>1, ConflictResolved DEF WriterInv
<1>3. Resolvable(o, kind) /\ Supersede(i, "cancelled", row)
  BY <1>1 DEF RCWriteJournalResolveConflict
<1>4. BaseIsReal(row)
  <2>1. RowSound(i) /\ (o.baseETag # Null => o.kind # "create")
    BY WriterRow DEF WriterInv, HistoryInv, RowsAreSound
  <2>2. row.state = "queued" /\ row.httpStatus = 0 /\ row.href = o.href /\ row.kind = kind
    BY DEF Successor, NewOperation
  <2>3. CASE o.httpStatus = 404
    BY <1>3, <2>1, <2>2, <2>3
       DEF BaseIsReal, Resolvable, RowSound, Successor, NewOperation, RCWriteETagIsStrong
  <2>4. CASE o.httpStatus = 200
    BY <1>3, <2>1, <2>2, <2>4
       DEF BaseIsReal, Resolvable, RowSound, Successor, NewOperation, RCWriteETagIsStrong
  <2> QED
    BY <1>3, <2>3, <2>4 DEF Resolvable
<1>5. o.state = "conflict"
  BY <1>3 DEF Resolvable
<1> HIDE DEF row
<1>6. /\ DecisionsKept /\ \A j \in Rows' : RowSound(j)'
      /\ \A j \in Rows : Open(j) => Open(j)'
  BY <1>1, <1>3, <1>4, <1>5, RowSettled
<1>7. /\ published' \in [Hrefs -> 0 .. lastRev]
      /\ \A h \in Hrefs : published'[h] # 0 => revs[published'[h]].href = h
  BY <1>1 DEF WriterInv, WriterTypeOK, HistoryInv, ServerSound
<1> QED
  BY <1>1, <1>2, <1>6, <1>7, CoordinatorMoved

-----------------------------------------------------------------------------
(* The theorems.                                                           *)

(* Nothing exists yet and nothing is under way.                            *)
LEMMA WriterInit == WInit => WriterInv
<1> SUFFICES ASSUME WInit PROVE WriterInv
  OBVIOUS
<1>1. JournalInv
  BY JournalInit DEF WInit
<1>2. Rows = {}
  BY DEF WInit, Init, Rows
<1>3. WriterTypeOK
  BY <1>1, WriterConstants
     DEF WInit, WriterTypeOK, JournalInv, PCs, Response, NoResponse
<1>4. HistoryInv
  BY <1>2 DEF WInit, HistoryInv, ServerSound, RowsAreSound, RequestsFollowRows, EffectsAreSpent,
              NoLostUpdate, AtMostOnce
<1>5. AttemptInv
  BY DEF WInit, AttemptInv, UnderWay, RemoteIsReal, RemoteOvertakes, ReplyIsTrue
<1> QED
  BY <1>1, <1>3, <1>4, <1>5 DEF WriterInv

(* A step that changes nothing.                                            *)
LEMMA WriterStutters == ASSUME WriterInv, UNCHANGED vars PROVE WriterInv'
<1>1. /\ UNCHANGED <<journalVars, writerVars, effects, published, now, revs, lastRev, cur>>
      /\ UNCHANGED <<inflight, faults, foreign>>
  BY DEF vars, serverVars
<1>2. JournalInv' /\ HistoryInv' /\ Rows' = Rows /\ ops' = ops
  BY <1>1, WorkerMoved DEF serverVars
<1>3. WriterTypeOK' /\ AttemptInv'
  BY <1>1, <1>2
     DEF writerVars, WriterTypeOK, WriterInv, JournalInv, AttemptInv, UnderWay, RemoteIsReal,
         RemoteOvertakes, ReplyIsTrue, Overtaken, Real
<1> QED
  BY <1>2, <1>3 DEF WriterInv

(* Every step of the writer, the coordinator and the environment keeps the *)
(* invariant.                                                              *)
LEMMA WriterStep == WriterInv /\ [WNext]_vars => WriterInv'
<1> SUFFICES ASSUME WriterInv, [WNext]_vars PROVE WriterInv'
  OBVIOUS
<1>1. CASE UNCHANGED vars
  BY <1>1, WriterStutters
<1>2. CASE Writer
  <2>1. ASSUME TimedOut PROVE WriterInv'
    BY <2>1, AbandonKeeps DEF TimedOut, WriterInv, WriterTypeOK
  <2> QED
    BY <1>2, <2>1, BeginAttemptKeepsWriter, GetKeeps, DecideKeeps, ReceiveKeeps, RefusedKeeps,
       VerifyKeeps DEF Writer
<1>3. CASE Tick
  BY <1>3, TickKeeps
<1>4. CASE Coordinator
  BY <1>4, PublishKeeps, QueueEditKeeps, CheckpointKeeps, AcceptKeeps, ReplanKeeps, ResolveKeeps
     DEF Coordinator
<1>5. CASE Environment
  <2>1. ASSUME Interrupted PROVE WriterInv'
    BY <2>1, AbandonKeeps, WriterConstants DEF Interrupted, Fault, WriterInv, WriterTypeOK
  <2> QED
    BY <1>5, <2>1, OtherClientKeeps, ServerExecuteKeeps, RequestLostKeeps DEF Environment
<1> QED
  BY <1>1, <1>2, <1>3, <1>4, <1>5 DEF WNext

(* Every reachable state of the writer satisfies the inductive invariant.  *)
THEOREM WriterInvariant == WSpec => []WriterInv
BY WriterInit, WriterStep, PTL DEF WSpec

(* The writer, the server and the journal keep their types.                *)
THEOREM WriterTypes == WSpec => []WriterTypeOK
<1>1. WriterInv => WriterTypeOK
  BY DEF WriterInv
<1> QED
  BY <1>1, WriterInvariant, PTL

(* A request of ours overwrites and removes only the very revision that    *)
(* its operation was decided on: no update of another client is lost.      *)
THEOREM NoUpdateIsLost == WSpec => []NoLostUpdate
<1>1. WriterInv => NoLostUpdate
  BY DEF WriterInv, HistoryInv
<1> QED
  BY <1>1, WriterInvariant, PTL

(* An update or a deletion takes effect at most once, however many         *)
(* attempts its operation needs and whichever requests arrive late.        *)
THEOREM EffectsHappenOnce == WSpec => []AtMostOnce
<1>1. WriterInv => AtMostOnce
  BY DEF WriterInv, HistoryInv
<1> QED
  BY <1>1, WriterInvariant, PTL

(* What an operation reports as applied is a revision the server stored,   *)
(* asked for byte for byte or made by the operation itself.                *)
THEOREM AppliedRevisionIsStored == WSpec => []AppliedIsStored
BY SoundRowsApplied, WriterInvariant, PTL

-----------------------------------------------------------------------------
(* The writer implements ConditionalWrite.                                 *)

MadeBar == [e \in ETags |-> IF e > lastRev THEN Null ELSE
             [href |-> revs[e].href, body |-> revs[e].body,
              by |-> IF revs[e].by = 0 THEN Null ELSE revs[e].by]]

OrderBar   == [i \in Ids |-> IF i \in Rows THEN OrderOf(ops[i]) ELSE Null]
OutcomeBar == [i \in Ids |-> IF i \in Rows THEN Reported[ops[i].state] ELSE "none"]

(* What an existing row shows.                                             *)
LEMMA RowShows ==
  ASSUME WriterInv, NEW i \in Rows
  PROVE  /\ i \in Ids /\ OutcomeBar[i] = Reported[ops[i].state]
         /\ OrderBar[i] = OrderOf(ops[i])
         /\ OrderBar[i].href = ops[i].href /\ OrderBar[i].kind = ops[i].kind
         /\ OrderBar[i].want = ops[i].desiredBody
         /\ OrderBar[i].base = IF ops[i].kind = "create" THEN 0 ELSE ops[i].baseETag
         /\ OutcomeBar[i] = "open" <=> Open(i)
         /\ OutcomeBar[i] # "none"
<1>1. i \in Ids /\ ops[i].state \in OpStates
  BY WriterRow DEF RCWriteOperation
<1>2. /\ Reported[ops[i].state] = "open" <=> Open(i)
      /\ Reported[ops[i].state] # "none"
  BY <1>1 DEF Reported, OpStates, Open
<1> QED
  BY <1>1, <1>2 DEF OutcomeBar, OrderBar, OrderOf

(* What a stored revision shows.                                           *)
LEMMA RevisionShows ==
  ASSUME WriterInv, NEW e \in 1 .. lastRev
  PROVE  /\ e \in ETags /\ MadeBar[e] # Null /\ MadeBar[e].href = revs[e].href
         /\ MadeBar[e].body = revs[e].body
         /\ revs[e].by # 0 => MadeBar[e].by = revs[e].by
<1>1. /\ revs[e] \in Revision /\ e \in ETags /\ lastRev \in Nat /\ ~(e > lastRev)
  BY WriterConstants DEF WriterInv, WriterTypeOK
<1>2. MadeBar[e] = [href |-> revs[e].href, body |-> revs[e].body,
                    by |-> IF revs[e].by = 0 THEN Null ELSE revs[e].by]
  BY <1>1 DEF MadeBar
<1>3. MadeBar[e] \in [href : Hrefs, body : Bodies, by : Ids \cup {Null}]
  BY <1>1, <1>2 DEF Revision
<1> QED
  BY <1>1, <1>2, <1>3, WriterConstants

(* Neither the server nor the report of any row changes.                   *)
LEMMA ShowsTheSame ==
  ASSUME WriterInv, UNCHANGED <<revs, lastRev, cur>>, Rows' = Rows, DecisionsKept,
         \A i \in Rows : Reported[ops'[i].state] = Reported[ops[i].state]
  PROVE  UNCHANGED Promise!cwVars
<1>1. MadeBar' = MadeBar
  BY DEF MadeBar
<1>2. \A i \in Rows : OrderOf(ops'[i]) = OrderOf(ops[i])
  BY DEF DecisionsKept, SameDecision, OrderOf
<1>3. OrderBar' = OrderBar
  BY <1>2 DEF OrderBar
<1>4. OutcomeBar' = OutcomeBar
  BY DEF OutcomeBar
<1> QED
  BY <1>1, <1>3, <1>4 DEF Promise!cwVars, MadeBar, OrderBar, OutcomeBar

(* The store of a new revision is a replacement.                           *)
LEMMA StoreReplaces ==
  ASSUME WriterInv, NEW h \in Hrefs, NEW body \in Bodies, NEW by \in Ids \cup {0},
         Store(h, body, by)
  PROVE  Promise!Replace(h, IF by = 0 THEN Null ELSE by)
<1> DEFINE e == lastRev + 1
           new == [href |-> h, body |-> body, by |-> IF by = 0 THEN Null ELSE by]
<1>1. /\ lastRev \in Nat /\ MaxRevisions \in Nat /\ ETags = 1 .. MaxRevisions
      /\ lastRev < MaxRevisions /\ lastRev' = lastRev + 1 /\ cur' = [cur EXCEPT ![h] = lastRev + 1]
      /\ DOMAIN revs = ETags
  BY WriterConstants DEF WriterInv, WriterTypeOK, Store
<1>2. e \in ETags /\ MadeBar[e] = Null
  BY <1>1 DEF MadeBar
<1>3. PICK strong \in Strengths : revs' = [revs EXCEPT ![e] =
             [href |-> h, body |-> body, strong |-> strong, by |-> by]]
  BY DEF Store
<1>4. MadeBar' = [MadeBar EXCEPT ![e] = new]
  <2>1. \A x \in ETags \ {e} : revs'[x] = revs[x] /\ (x > lastRev' <=> x > lastRev)
    BY <1>1, <1>3
  <2>2. revs'[e] = [href |-> h, body |-> body, strong |-> strong, by |-> by]
    BY <1>1, <1>2, <1>3
  <2>3. MadeBar'[e] = new
    BY <1>1, <1>2, <2>2 DEF MadeBar
  <2>4. \A x \in ETags \ {e} : MadeBar'[x] = MadeBar[x]
    BY <2>1 DEF MadeBar
  <2>5. MadeBar' \in [ETags -> {MadeBar'[x] : x \in ETags}] /\ DOMAIN MadeBar = ETags
    BY DEF MadeBar
  <2> QED
    BY <1>2, <2>3, <2>4, <2>5 DEF MadeBar
<1> HIDE DEF e
<1>5. \E r \in ETags, c \in Bodies :
        /\ MadeBar[r] = Null
        /\ MadeBar' = [MadeBar EXCEPT ![r] = [href |-> h, body |-> c,
                                              by |-> IF by = 0 THEN Null ELSE by]]
        /\ cur' = [cur EXCEPT ![h] = r]
  BY <1>1, <1>2, <1>4 DEF e
<1> QED
  BY <1>5 DEF Promise!Replace, MadeBar

(* A new row is a decision.                                                *)
LEMMA RowDecides ==
  ASSUME WriterInv, WriterInv', UNCHANGED <<revs, lastRev, cur>>, DecisionsKept,
         NEW n \in Ids \ Rows, Rows' = Rows \cup {n}, ops'[n].state = "queued",
         \A i \in Rows : Reported[ops'[i].state] = Reported[ops[i].state]
  PROVE  Promise!Decided(n)
<1> DEFINE o == OrderOf(ops'[n])
<1>1. /\ ops'[n] \in RCWriteOperation
      /\ ops'[n].kind = "create" <=> ops'[n].baseETag = Null
      /\ ops'[n].kind = "delete" <=> ops'[n].desiredBody = Null
  BY DEF WriterInv, JournalInv, TypeOK, DurablePrecondition
<1>2. /\ ops'[n].kind \in Kinds /\ ops'[n].href \in Hrefs
      /\ ops'[n].baseETag \in ETags \cup {Null} /\ ops'[n].desiredBody \in Bodies \cup {Null}
  BY <1>1 DEF RCWriteOperation
<1>3. 0 \notin ETags
  BY WriterConstants
<1>4. /\ o \in Promise!Orders
      /\ o.kind = "create" <=> o.base = 0
      /\ o.kind = "delete" <=> o.want = Null
  BY <1>1, <1>2, <1>3 DEF OrderOf, Promise!Orders, Kinds
<1> HIDE DEF o
<1>5. MadeBar' = MadeBar
  BY DEF MadeBar
<1>6. \A i \in Rows : OrderOf(ops'[i]) = OrderOf(ops[i])
  BY DEF DecisionsKept, SameDecision, OrderOf
<1>7. OrderBar' = [OrderBar EXCEPT ![n] = o]
  BY <1>6 DEF OrderBar, o
<1>8. OutcomeBar[n] = "none" /\ OutcomeBar' = [OutcomeBar EXCEPT ![n] = "open"]
  <2>1. Reported["queued"] = "open"
    BY DEF Reported
  <2> QED
    BY <2>1 DEF OutcomeBar
<1> QED
  BY <1>4, <1>5, <1>7, <1>8 DEF Promise!Decided, MadeBar, OrderBar, OutcomeBar

(* What overtook an operation obstructs its write.                         *)
LEMMA OvertakenIsObstructed ==
  ASSUME WriterInv, NEW i \in Rows, Overtaken(i)
  PROVE  Promise!Obstructed(i)
<1>1. i \in Ids /\ OrderBar[i] = OrderOf(ops[i])
  BY RowShows
<1>2. CASE ops[i].kind = "create"
  <2>1. PICK e \in 1 .. lastRev : revs[e].href = ops[i].href
    BY <1>2 DEF Overtaken
  <2>2. e \in ETags /\ MadeBar[e] # Null /\ MadeBar[e].href = ops[i].href
    BY <2>1, RevisionShows
  <2>3. OrderBar[i].kind = "create" /\ OrderBar[i].href = ops[i].href
    BY <1>2, RowShows
  <2>4. \E r \in ETags : MadeBar[r] # Null /\ MadeBar[r].href = OrderBar[i].href
    BY <2>2, <2>3
  <2> QED
    BY <2>3, <2>4 DEF Promise!Obstructed, OrderBar, MadeBar
<1>3. CASE ops[i].kind # "create"
  <2>1. /\ OrderBar[i].kind # "create" /\ OrderBar[i].href = ops[i].href
        /\ OrderBar[i].base = ops[i].baseETag
    BY <1>3, RowShows
  <2>2. cur[OrderBar[i].href] # OrderBar[i].base
    BY <1>3, <2>1 DEF Overtaken
  <2> QED
    BY <2>1, <2>2 DEF Promise!Obstructed, OrderBar
<1> QED
  BY <1>2, <1>3

(* A real result that was asked for, or made by i, is stored.              *)
LEMMA RealIsStored ==
  ASSUME WriterInv, NEW i \in Rows, NEW e, NEW b, Real(e, ops[i].href, b),
         b = ops[i].desiredBody \/ revs[e].by = i
  PROVE  Promise!Stored(i)
<1>1. /\ e \in 1 .. lastRev /\ revs[e].href = ops[i].href /\ revs[e].body = b
  BY DEF Real
<1>2. /\ e \in ETags /\ MadeBar[e] # Null /\ MadeBar[e].href = ops[i].href
      /\ MadeBar[e].body = b /\ (revs[e].by # 0 => MadeBar[e].by = revs[e].by)
  BY <1>1, RevisionShows
<1>3. i # 0 /\ OrderBar[i].href = ops[i].href /\ OrderBar[i].want = ops[i].desiredBody
  BY WriterRow, RowShows
<1>4. \E r \in ETags : /\ MadeBar[r] # Null /\ MadeBar[r].href = OrderBar[i].href
                       /\ MadeBar[r].body = OrderBar[i].want \/ MadeBar[r].by = i
  BY <1>1, <1>2, <1>3
<1> QED
  BY <1>4 DEF Promise!Stored, OrderBar, MadeBar

(* Recording a definite result is the report; an uncertain one is none.    *)
LEMMA RecordReports ==
  ASSUME WriterInv, WriterInv', NEW i \in Rows, i = wop, pc # "idle",
         NEW s \in Results, NEW r \in Response, Record(s, r),
         s = "conflict" \/ (s = "applied" /\ ops[i].kind = "delete") => Overtaken(i)
  PROVE  Promise!Report(i) \/ UNCHANGED Promise!cwVars
<1> DEFINE body == IF r.status = 200 THEN r.body ELSE Null
           row  == Recorded(ops[i], s, r.status, r.etag, body)
<1>1. /\ r.status \in Statuses /\ r.etag \in ETags \cup {Null} /\ body \in Bodies \cup {Null}
      /\ s \in OpStates
  BY JournalConstants, WriterConstants DEF Response, Results, OpStates
<1>2. ops[i] \in RCWriteOperation /\ ops[i].state = "uncertain"
  BY UnderWayRow
<1>3. /\ ops' = [ops EXCEPT ![i] = row] /\ lastId' = lastId
      /\ UNCHANGED <<revs, lastRev, cur>>
  BY DEF Record, RCWriteJournalRecordResult, serverVars
<1> HIDE DEF body
<1>4. SameDecision(ops[i], row) /\ row.state = s
  BY ONLY <1>1, <1>2, RecordedRow
<1> HIDE DEF row
<1>5. ops'[i] = row /\ Rows' = Rows /\ \A j \in Rows \ {i} : ops'[j] = ops[j]
  BY <1>3, SetRow DEF WriterInv, JournalInv
<1>6. DecisionsKept
  BY <1>4, <1>5 DEF DecisionsKept, SameDecision
<1>7. CASE s = "uncertain"
  BY <1>2, <1>3, <1>4, <1>5, <1>6, <1>7, ShowsTheSame
<1>8. CASE s \in {"applied", "conflict"}
  <2>1. MadeBar' = MadeBar
    BY <1>3 DEF MadeBar
  <2>2. \A j \in Rows : OrderOf(ops'[j]) = OrderOf(ops[j])
    BY <1>6 DEF DecisionsKept, SameDecision, OrderOf
  <2>3. OrderBar' = OrderBar
    BY <1>5, <2>2 DEF OrderBar
  <2>4. OutcomeBar[i] = "open" /\ OutcomeBar' = [OutcomeBar EXCEPT ![i] = s]
    BY <1>2, <1>4, <1>5, <1>8, RowFacts DEF OutcomeBar, Reported, WriterInv, JournalInv
  <2>5. s = "conflict" \/ ops[i].kind = "delete" => Promise!Obstructed(i)
    BY <1>8, OvertakenIsObstructed
  <2>6. s = "applied" /\ ops[i].kind # "delete" => Promise!Stored(i)
    <3> SUFFICES ASSUME s = "applied", ops[i].kind # "delete" PROVE Promise!Stored(i)
      OBVIOUS
    <3>1. /\ ops'[i].state = "applied" /\ ops'[i].kind # "delete" /\ i \in Rows'
          /\ ops'[i].href = ops[i].href /\ ops'[i].desiredBody = ops[i].desiredBody
      BY <1>4, <1>5 DEF SameDecision
    <3>2. RowSound(i)' /\ ops'[i].resultETag # Null
      BY <3>1 DEF WriterInv, HistoryInv, RowsAreSound, JournalInv, DurablePrecondition
    <3>3. /\ Real(ops'[i].resultETag, ops[i].href, ops'[i].resultBody)
          /\ \/ ops'[i].resultBody = ops[i].desiredBody
             \/ revs[ops'[i].resultETag].by = i
      BY <1>3, <3>1, <3>2 DEF RowSound, Real
    <3> QED
      BY <3>3, RealIsStored
  <2>7. OrderBar[i].kind = ops[i].kind
    BY RowShows
  <2> QED
    BY <1>3, <1>8, <2>1, <2>3, <2>4, <2>5, <2>6, <2>7
       DEF Promise!Report, MadeBar, OrderBar, OutcomeBar
<1> QED
  BY <1>7, <1>8 DEF Results

(* Nothing that is promised changes.                                       *)
LEMMA NothingShown ==
  ASSUME WriterInv, UNCHANGED <<ops, lastId, revs, lastRev, cur>>
  PROVE  UNCHANGED Promise!cwVars
<1>1. Rows' = Rows /\ DecisionsKept
  BY DEF Rows, DecisionsKept, SameDecision
<1> QED
  BY <1>1, ShowsTheSame

(* The server changes and the journal does not.                            *)
LEMMA OnlyServerChanges ==
  ASSUME WriterInv, UNCHANGED <<ops, lastId>>
  PROVE  UNCHANGED <<OrderBar, OutcomeBar>>
BY DEF OrderBar, OutcomeBar, Rows

(* Other clients change the server at will.                                *)
LEMMA OtherClientIsForeign ==
  ASSUME WriterInv, NEW h \in Hrefs,
         OtherClientDelete(h) \/ \E b \in Bodies : OtherClientPut(h, b)
  PROVE  Promise!Foreign(h)
<1>1. UNCHANGED <<ops, lastId>>
  BY DEF OtherClientDelete, OtherClientPut, journalVars
<1>2. UNCHANGED <<OrderBar, OutcomeBar>>
  BY <1>1, OnlyServerChanges
<1>3. CASE OtherClientDelete(h)
  <2>1. cur' = [cur EXCEPT ![h] = 0] /\ MadeBar' = MadeBar
    BY <1>3 DEF OtherClientDelete, MadeBar
  <2>2. Promise!Remove(h)
    BY <2>1 DEF Promise!Remove, MadeBar
  <2> QED
    BY <1>2, <2>2 DEF Promise!Foreign, OrderBar, OutcomeBar
<1>4. ASSUME NEW b \in Bodies, OtherClientPut(h, b) PROVE Promise!Foreign(h)
  <2>1. Promise!Replace(h, Null)
    BY <1>4, StoreReplaces DEF OtherClientPut
  <2> QED
    BY <1>2, <2>1 DEF Promise!Foreign, OrderBar, OutcomeBar
<1> QED
  BY <1>3, <1>4

(* A request performs its write, if it still finds the base.               *)
LEMMA ExecutePerforms ==
  ASSUME WriterInv, NEW r \in inflight, ServerExecute(r)
  PROVE  Promise!Perform(r.op) \/ UNCHANGED Promise!cwVars
<1>1. UNCHANGED <<ops, lastId>>
  BY DEF ServerExecute, journalVars
<1>2. UNCHANGED <<OrderBar, OutcomeBar>>
  BY <1>1, OnlyServerChanges
<1>3. CASE ~Satisfied(r)
  BY <1>1, <1>3, NothingShown DEF ServerExecute
<1>4. CASE Satisfied(r)
  <2>1. PICK i \in Rows : i = r.op
    BY RequestFinds
  <2>2. /\ r.href = ops[i].href /\ r.href \in Hrefs /\ i \in Ids
        /\ r.body = ops[i].desiredBody /\ r.body \in Bodies \cup {Null}
        /\ ops[i].kind = "create" => cur[r.href] = 0
        /\ ops[i].kind # "create" => cur[r.href] = ops[i].baseETag /\ Open(i)
    BY <1>4, <2>1, RequestFinds
  <2>3. /\ OrderBar[i].href = r.href /\ OrderBar[i].kind = ops[i].kind
        /\ OrderBar[i].base = IF ops[i].kind = "create" THEN 0 ELSE ops[i].baseETag
        /\ OutcomeBar[i] = "open" <=> Open(i)
        /\ OutcomeBar[i] # "none"
    BY <2>2, RowShows
  <2>4. ops[i].kind = "delete" <=> r.body = Null
    BY <2>2, WriterRow
  <2>5. IF OrderBar[i].kind = "delete" THEN Promise!Remove(OrderBar[i].href)
        ELSE Promise!Replace(OrderBar[i].href, i)
    <3>1. CASE r.body = Null
      <4>1. cur' = [cur EXCEPT ![r.href] = 0] /\ MadeBar' = MadeBar
        BY <1>4, <3>1 DEF ServerExecute, MadeBar
      <4>2. Promise!Remove(r.href)
        BY <4>1 DEF Promise!Remove, MadeBar
      <4> QED
        BY <2>3, <2>4, <3>1, <4>2
    <3>2. CASE r.body # Null
      <4>1. PICK stored \in Serialisations[r.body] : Store(r.href, stored, r.op)
        BY <1>4, <3>2 DEF ServerExecute
      <4>2. stored \in Bodies /\ i \in Ids \cup {0} /\ i # 0
        BY <2>2, <3>2, WriterConstants, WriterRow
      <4>3. Promise!Replace(r.href, IF i = 0 THEN Null ELSE i)
        BY <2>1, <2>2, <4>1, <4>2, StoreReplaces
      <4>4. Promise!Replace(r.href, i)
        BY <4>2, <4>3
      <4> QED
        BY <2>3, <2>4, <3>2, <4>4
    <3> QED
      BY <3>1, <3>2
  <2>6. cur[OrderBar[i].href] = OrderBar[i].base
    BY <2>2, <2>3
  <2>7. OutcomeBar[i] # "none" /\ (OutcomeBar[i] = "open" \/ OrderBar[i].kind = "create")
    BY <2>2, <2>3
  <2>8. Promise!Perform(i)
    BY <1>2, <2>5, <2>6, <2>7 DEF Promise!Perform, OrderBar, OutcomeBar
  <2> QED
    BY <2>1, <2>8
<1> QED
  BY <1>3, <1>4

(* The worker's steps report, or show nothing.                             *)
LEMMA WriterReports ==
  ASSUME WriterInv, WriterInv', Writer
  PROVE  (\E w \in Ids : Promise!Report(w)) \/ UNCHANGED Promise!cwVars
<1>1. ASSUME BeginAttempt PROVE UNCHANGED Promise!cwVars
  <2>1. PICK i \in Rows : i = RCWriteJournalNext(now) /\ Due(i, now)
    BY <1>1, NextIsDue DEF BeginAttempt, WriterInv, JournalInv
  <2> DEFINE row == Attempted(ops[i], now)
  <2>2. /\ SameDecision(ops[i], row) /\ row.state = "uncertain"
        /\ ops' = [ops EXCEPT ![i] = row] /\ lastId' = lastId /\ UNCHANGED <<revs, lastRev, cur>>
    BY <1>1, <2>1, AttemptedRow, RowFacts
       DEF BeginAttempt, RCWriteJournalBeginAttempt, WriterInv, JournalInv, WriterTypeOK, serverVars
  <2> HIDE DEF row
  <2>3. ops'[i] = row /\ Rows' = Rows /\ \A j \in Rows \ {i} : ops'[j] = ops[j]
    BY <2>2, SetRow DEF WriterInv, JournalInv
  <2>4. Reported[row.state] = Reported[ops[i].state]
    BY <2>1, <2>2 DEF Reported, Due
  <2>5. DecisionsKept
    BY <2>2, <2>3 DEF DecisionsKept, SameDecision
  <2> QED
    BY <2>2, <2>3, <2>4, <2>5, ShowsTheSame
<1>2. ASSUME Get \/ TimedOut PROVE UNCHANGED Promise!cwVars
  BY <1>2, NothingShown DEF Get, TimedOut, journalVars, serverVars
<1>3. ASSUME NEW s \in Results, NEW r \in Response, Record(s, r), pc # "idle",
             s = "conflict" \/ (s = "applied" /\ ops[wop].kind = "delete") => Overtaken(wop)
      PROVE  (\E w \in Ids : Promise!Report(w)) \/ UNCHANGED Promise!cwVars
  <2>1. PICK i \in Rows : i = wop
    BY <1>3, UnderWayRow
  <2> QED
    BY <1>3, <2>1, RecordReports, RowFacts DEF WriterInv, JournalInv
<1>4. ASSUME Decide
      PROVE  (\E w \in Ids : Promise!Report(w)) \/ UNCHANGED Promise!cwVars
  <2>1. /\ pc = "decide" /\ remote \in Response /\ wop # 0 /\ wop \in Rows
        /\ /\ ops[wop].kind # "create"
           /\ remote.status = 404 \/ (remote.status = 200 /\ remote.etag # ops[wop].baseETag)
           => Overtaken(wop)
    BY <1>4, UnderWayRow DEF Decide
  <2>2. CASE Reached(ops[wop], remote) /\ Record("applied", remote)
    BY <1>3, <2>1, <2>2 DEF Reached, Results
  <2>3. CASE Record("uncertain", remote)
    BY <1>3, <2>1, <2>3 DEF Results
  <2>4. CASE Conclusive(remote) /\ Diverged(ops[wop], remote) /\ Record("conflict", remote)
    <3>1. ops[wop].kind = "create" => Overtaken(wop)
      BY <2>1, <2>4
         DEF Conclusive, Diverged, Overtaken, RemoteIsReal, WriterInv, AttemptInv
    <3>2. Overtaken(wop)
      BY <2>1, <2>4, <3>1 DEF Conclusive, Diverged
    <3> QED
      BY <1>3, <2>1, <2>4, <3>2 DEF Results
  <2>5. CASE SendConditional(ops[wop])
    BY <2>5, NothingShown DEF SendConditional, journalVars
  <2> QED
    BY <1>4, <2>2, <2>3, <2>4, <2>5 DEF Decide
<1>5. ASSUME Receive
      PROVE  (\E w \in Ids : Promise!Report(w)) \/ UNCHANGED Promise!cwVars
  <2>1. pc = "await" /\ reply \in WriteReply
    BY <1>5 DEF Receive, WriterInv, WriterTypeOK
  <2>2. CASE Record("uncertain", [status |-> 503, etag |-> reply.etag, body |-> Null])
    <3>1. [status |-> 503, etag |-> reply.etag, body |-> Null] \in Response
      BY <2>1 DEF Response, WriteReply
    <3> QED
      BY <1>3, <2>1, <2>2, <3>1 DEF Results
  <2>3. CASE UNCHANGED <<journalVars, serverVars>>
    BY <2>3, NothingShown DEF journalVars, serverVars
  <2> QED
    BY <1>5, <2>2, <2>3 DEF Receive
<1>6. ASSUME Refused \/ Verify
      PROVE  (\E w \in Ids : Promise!Report(w)) \/ UNCHANGED Promise!cwVars
  <2>1. pc \in {"refused", "verify"} /\ remote \in Response
    BY <1>6 DEF Refused, Verify, WriterInv, WriterTypeOK
  <2>2. Overtaken(wop)
    BY <2>1 DEF WriterInv, AttemptInv, ReplyIsTrue
  <2>3. \E s \in Results : Record(s, remote)
    BY <1>6 DEF Refused, Verify, Results
  <2> QED
    BY <1>3, <2>1, <2>2, <2>3
<1> QED
  BY <1>1, <1>2, <1>4, <1>5, <1>6 DEF Writer

(* Settling a row shows nothing; a row inserted is a decision.             *)
LEMMA SettledShows ==
  ASSUME WriterInv, WriterInv', NEW i \in Rows, NEW s \in {"acknowledged", "cancelled"}, NEW row,
         UNCHANGED <<revs, lastRev, cur>>,
         \/ s = "acknowledged" /\ ops[i].state \in {"applied", "acknowledged"}
         \/ s = "cancelled" /\ ops[i].state = "conflict",
         \/ ops' = [ops EXCEPT ![i] = WithState(@, s)] /\ lastId' = lastId
         \/ Supersede(i, s, row) /\ row.state = "queued"
  PROVE  (\E w \in Ids : Promise!Decided(w)) \/ UNCHANGED Promise!cwVars
<1>1. ops[i] \in RCWriteOperation /\ s \in OpStates
  BY RowFacts DEF WriterInv, JournalInv, OpStates
<1>2. \/ /\ Rows' = Rows /\ lastId' = lastId
         /\ ops'[i] = WithState(ops[i], s) /\ \A j \in Rows \ {i} : ops'[j] = ops[j]
      \/ /\ Rows' = Rows \cup {lastId + 1} /\ lastId + 1 \in Ids \ Rows
         /\ ops'[lastId + 1] = row /\ row.state = "queued"
         /\ ops'[i] = WithState(ops[i], s) /\ \A j \in Rows \ {i} : ops'[j] = ops[j]
  BY SetRow, SupersedeRow DEF WriterInv, JournalInv
<1>3. ops'[i] = WithState(ops[i], s)
  BY <1>2
<1>4. SameDecision(ops[i], ops'[i]) /\ ops'[i].state = s
  BY ONLY <1>1, <1>3, WithStateRow
<1>5. Rows \subseteq Rows' /\ \A j \in Rows : SameDecision(ops[j], ops'[j])
  BY <1>2, <1>4 DEF SameDecision
<1>6. Reported[s] = Reported[ops[i].state]
  BY DEF Reported
<1>7. \A j \in Rows : Reported[ops'[j].state] = Reported[ops[j].state]
  BY <1>2, <1>4, <1>6
<1>8. DecisionsKept
  BY <1>5 DEF DecisionsKept
<1>9. CASE Rows' = Rows
  BY <1>7, <1>8, <1>9, ShowsTheSame
<1>10. CASE Rows' # Rows
  <2>1. PICK n \in Ids \ Rows : Rows' = Rows \cup {n} /\ ops'[n].state = "queued"
    BY <1>2, <1>10
  <2> QED
    BY <1>7, <1>8, <2>1, RowDecides
<1> QED
  BY <1>9, <1>10

(* The coordinator's steps decide, or show nothing.                        *)
LEMMA CoordinatorDecides ==
  ASSUME WriterInv, WriterInv', Coordinator
  PROVE  (\E w \in Ids : Promise!Decided(w)) \/ UNCHANGED Promise!cwVars
<1>1. ASSUME NEW h \in Hrefs, Publish(h) PROVE UNCHANGED Promise!cwVars
  BY <1>1, NothingShown DEF Publish, serverVars
<1>2. ASSUME NEW c \in Changes, NEW h \in Hrefs, NEW kind \in Kinds,
             NEW b \in Bodies \cup {Null}, QueueEdit(c, h, kind, b)
      PROVE  \E w \in Ids : Promise!Decided(w)
  <2>1. PICK row : Insert(row) /\ row.state = "queued"
    BY <1>2 DEF QueueEdit, RCWriteJournalEnqueue, QueueFromBase, NewOperation
  <2>2. /\ Rows' = Rows \cup {lastId + 1} /\ lastId + 1 \in Ids \ Rows
        /\ ops'[lastId + 1] = row /\ \A j \in Rows : ops'[j] = ops[j]
    BY <2>1, InsertRow DEF WriterInv, JournalInv
  <2>3. PICK n \in Ids \ Rows : /\ Rows' = Rows \cup {n} /\ ops'[n].state = "queued"
                                /\ \A j \in Rows : ops'[j] = ops[j]
    BY <2>1, <2>2
  <2>4. DecisionsKept /\ UNCHANGED <<revs, lastRev, cur>>
    BY <1>2, <2>3 DEF DecisionsKept, SameDecision, QueueEdit, serverVars
  <2> QED
    BY <2>3, <2>4, RowDecides
<1>3. ASSUME NEW i \in Rows, Checkpoint(i) PROVE UNCHANGED Promise!cwVars
  BY <1>3, NothingShown DEF Checkpoint, RCWriteJournalResolutionMirrored, serverVars
<1>4. ASSUME NEW i \in Rows, Accept(i)
      PROVE  (\E w \in Ids : Promise!Decided(w)) \/ UNCHANGED Promise!cwVars
  BY <1>4, SettledShows DEF Accept, RCWriteJournalAcknowledge, serverVars
<1>5. ASSUME NEW i \in Rows, NEW kind \in {"update", "delete"}, NEW b \in Bodies \cup {Null},
             Replan(i, kind, b)
      PROVE  (\E w \in Ids : Promise!Decided(w)) \/ UNCHANGED Promise!cwVars
  <2>1. /\ ops[i].state = "applied" /\ UNCHANGED <<revs, lastRev, cur>>
        /\ \/ ops' = [ops EXCEPT ![i] = WithState(@, "acknowledged")] /\ lastId' = lastId
           \/ \E row : Supersede(i, "acknowledged", row) /\ row.state = "queued"
    BY <1>5 DEF Replan, QueueSuccessor, NewOperation, serverVars
  <2> QED
    BY <2>1, SettledShows
<1>6. ASSUME NEW i \in Rows, NEW kind \in Kinds, NEW b \in Bodies \cup {Null},
             NEW receipt \in Receipts, Resolve(i, kind, b, receipt)
      PROVE  (\E w \in Ids : Promise!Decided(w)) \/ UNCHANGED Promise!cwVars
  <2>1. /\ ops[i].state = "conflict" /\ UNCHANGED <<revs, lastRev, cur>>
        /\ \E row : Supersede(i, "cancelled", row) /\ row.state = "queued"
    BY <1>6
       DEF Resolve, RCWriteJournalResolveConflict, Resolvable, Successor, NewOperation, serverVars
  <2> QED
    BY <2>1, SettledShows
<1> QED
  BY <1>1, <1>2, <1>3, <1>4, <1>5, <1>6 DEF Coordinator

(* Nothing has been decided or stored.                                     *)
LEMMA PromiseInit == WInit => Promise!CWInit
<1> SUFFICES ASSUME WInit PROVE Promise!CWInit
  OBVIOUS
<1>1. lastId = 0 /\ lastRev = 0 /\ Rows = {} /\ cur = [h \in Hrefs |-> 0]
  BY DEF WInit, Init, Rows
<1>2. \A e \in ETags : e > lastRev
  BY <1>1, WriterConstants
<1>3. /\ MadeBar = [e \in ETags |-> Null] /\ OrderBar = [i \in Ids |-> Null]
      /\ OutcomeBar = [i \in Ids |-> "none"]
  BY <1>1, <1>2 DEF MadeBar, OrderBar, OutcomeBar
<1> QED
  BY <1>1, <1>3 DEF Promise!CWInit, MadeBar, OrderBar, OutcomeBar

(* Every step of the writer is a step of ConditionalWrite or shows nothing *)
(* of it.                                                                  *)
LEMMA PromiseStep ==
  WriterInv /\ WriterInv' /\ [WNext]_vars => [Promise!CWNext]_(Promise!cwVars)
<1> SUFFICES ASSUME WriterInv, WriterInv', [WNext]_vars
             PROVE  Promise!CWNext \/ UNCHANGED Promise!cwVars
  OBVIOUS
<1>1. CASE UNCHANGED vars
  BY <1>1, NothingShown DEF vars, journalVars, serverVars
<1>2. CASE Writer
  BY <1>2, WriterReports DEF Promise!CWNext
<1>3. CASE Tick
  BY <1>3, NothingShown DEF Tick, journalVars, serverVars
<1>4. CASE Coordinator
  BY <1>4, CoordinatorDecides DEF Promise!CWNext
<1>5. CASE Environment
  <2>1. ASSUME NEW h \in Hrefs, OtherClientDelete(h) \/ \E b \in Bodies : OtherClientPut(h, b)
        PROVE  Promise!CWNext
    BY <2>1, OtherClientIsForeign DEF Promise!CWNext
  <2>2. ASSUME NEW r \in inflight, ServerExecute(r)
        PROVE  Promise!CWNext \/ UNCHANGED Promise!cwVars
    BY <2>2, ExecutePerforms, RequestFinds DEF Promise!CWNext
  <2>3. ASSUME NEW r \in inflight, RequestLost(r) PROVE UNCHANGED Promise!cwVars
    BY <2>3, NothingShown DEF RequestLost, journalVars
  <2>4. ASSUME Interrupted PROVE UNCHANGED Promise!cwVars
    BY <2>4, NothingShown DEF Interrupted, journalVars, serverVars
  <2> QED
    BY <1>5, <2>1, <2>2, <2>3, <2>4 DEF Environment
<1> QED
  BY <1>1, <1>2, <1>3, <1>4, <1>5 DEF WNext

(* The attempts, requests, answers, faults, restarts and resolutions of    *)
(* the writer implement ConditionalWrite.                                  *)
THEOREM WriterKeepsPromise == WSpec => KeepsPromise
BY WriterInvariant, PromiseInit, PromiseStep, PTL DEF WSpec, KeepsPromise, Promise!CWSpec

(* What the journal guarantees whoever calls it, it guarantees here: the   *)
(* coordinator and the attempts leave one unresolved write per resource,   *)
(* pinned resolutions, and a confirmation for whatever is applied.         *)
THEOREM WriterKeepsJournal ==
  WSpec => [](/\ OneUnresolvedWrite /\ ResolutionsPinned
              /\ CheckpointBeforeAcknowledge /\ DurablePrecondition)
<1>1. WriterInv => /\ OneUnresolvedWrite /\ ResolutionsPinned
                   /\ CheckpointBeforeAcknowledge /\ DurablePrecondition
  BY DEF WriterInv, JournalInv
<1> QED
  BY <1>1, WriterInvariant, PTL
=============================================================================
