----------------------------- MODULE DAVWriter ------------------------------
(***************************************************************************)
(* One account worker uploading its journaled operations to a DAV server   *)
(* (RCDAVWriter.c, RCTwoWayRunWrites) while other clients edit the same    *)
(* resources, requests and responses are lost or arrive late, and the      *)
(* process is stopped or killed at any point.                              *)
(*                                                                         *)
(* The server is external: it is what the If-Match and If-None-Match       *)
(* preconditions of RCHTTPClientConditionalRequest rely on.  Revisions are *)
(* numbered in the order the server stores them and the number is the      *)
(* revision's entity tag, so a tag is never reused; a server may expose a  *)
(* revision with no strong tag, and may store a normalised serialisation.  *)
(*                                                                         *)
(* An attempt is the straight-line code of RCDAVWriterAttempt cut at every *)
(* point where another actor's step can fall in between: each request, and *)
(* between a response and the journal transaction that records it.         *)
(***************************************************************************)
EXTENDS WriteJournal

CONSTANTS
  Serialisations, \* Serialisations[b]: bodies the server may store for b
  Strengths,      \* {TRUE}, or BOOLEAN when revisions may lack a strong tag
  MaxRevisions,   \* bound: revisions the server stores
  MaxForeign,     \* bound: changes made by other clients
  MaxFaults       \* bound: lost, late or failed exchanges and interruptions

ASSUME WriterConstants ==
  /\ MaxRevisions \in Nat \ {0} /\ MaxForeign \in Nat /\ MaxFaults \in Nat
  /\ ETags = 1 .. MaxRevisions
  /\ Keys = Hrefs
  /\ Serialisations \in [Bodies -> SUBSET Bodies]
  /\ Strengths \subseteq BOOLEAN
  /\ 503 \in Statuses
  /\ Null \notin [href : Hrefs, body : Bodies, by : Ids \cup {Null}]

VARIABLES
  revs,      \* revs[e]: the revision with tag e; unused above lastRev
  lastRev,   \* the newest revision
  cur,       \* cur[h]: the current revision of href h, 0 when absent
  inflight,  \* conditional requests the server may still execute
  effects,   \* history: what our requests did, [op, over, made]
  published, \* published[h]: the revision the local store last showed, or 0
  pc,        \* where the attempt is
  wop,       \* the operation being attempted, 0 when idle
  remote,    \* the response of the last GET
  reply,     \* the response to the conditional request, Null until it is in
  foreign,   \* changes made by other clients so far
  now,       \* time(NULL)
  faults     \* faults so far

serverVars == <<revs, lastRev, cur, inflight, effects>>
writerVars == <<pc, wop, remote, reply>>
vars == <<journalVars, serverVars, writerVars, published, now, faults, foreign>>

PCs == {"idle", "probe", "decide", "await", "recheck", "refused", "confirm", "verify"}
Revision == [href : Hrefs, body : Bodies, strong : BOOLEAN, by : Ids \cup {0}]
Request  == [op : Ids, attempt : Nat, href : Hrefs, match : ETags \cup {Null},
             body : Bodies \cup {Null}]
Response == [status : {200, 404, 503}, etag : ETags \cup {Null}, body : Bodies \cup {Null}]
WriteReply == [status : {204, 412, 503}, etag : ETags \cup {Null}]
NoResponse == [status |-> 503, etag |-> Null, body |-> Null]

ETagOf(e) == IF e # 0 /\ revs[e].strong THEN e ELSE Null

WInit ==
  /\ Init
  /\ revs = [e \in ETags |-> Null] /\ lastRev = 0
  /\ cur = [h \in Hrefs |-> 0]
  /\ inflight = {} /\ effects = {}
  /\ published = [h \in Hrefs |-> 0]
  /\ pc = "idle" /\ wop = 0 /\ remote = NoResponse /\ reply = Null
  /\ now = 0 /\ faults = 0 /\ foreign = 0

Fault == faults < MaxFaults /\ faults' = faults + 1

-----------------------------------------------------------------------------
(* The server and the other clients of the account.                        *)

Store(h, body, by) ==
  /\ lastRev < MaxRevisions
  /\ lastRev' = lastRev + 1
  /\ \E strong \in Strengths :
       revs' = [revs EXCEPT ![lastRev + 1] =
         [href |-> h, body |-> body, strong |-> strong, by |-> by]]
  /\ cur' = [cur EXCEPT ![h] = lastRev + 1]

OtherClientPut(h, body) ==
  /\ foreign < MaxForeign /\ foreign' = foreign + 1
  /\ Store(h, body, 0)
  /\ UNCHANGED <<journalVars, inflight, effects, writerVars, published, now, faults>>

OtherClientDelete(h) ==
  /\ foreign < MaxForeign /\ foreign' = foreign + 1
  /\ cur[h] # 0
  /\ cur' = [cur EXCEPT ![h] = 0]
  /\ UNCHANGED <<journalVars, revs, lastRev, inflight, effects, writerVars, published, now, faults>>

(* The precondition of a request, on what the server now holds.            *)
Satisfied(r) ==
  IF r.match = Null THEN cur[r.href] = 0 ELSE ETagOf(cur[r.href]) = r.match

(* The answer reaches the writer only while it is still waiting for it.    *)
Answer(r, status, etag) ==
  reply' = IF pc = "await" /\ wop = r.op /\ ops[wop].attempts = r.attempt
           THEN [status |-> status, etag |-> etag] ELSE reply

(* A request is executed at most once, at any time after it was sent.  The *)
(* answer to a stored PUT may carry the new tag or none, and a gateway may *)
(* turn any answer into an error.                                          *)
ServerExecute(r) ==
  /\ inflight' = inflight \ {r}
  /\ \/ /\ Satisfied(r)
        /\ \/ /\ r.body # Null
              /\ \E stored \in Serialisations[r.body] : Store(r.href, stored, r.op)
           \/ /\ r.body = Null
              /\ cur' = [cur EXCEPT ![r.href] = 0]
              /\ UNCHANGED <<revs, lastRev>>
        /\ effects' = effects \cup
             {[op |-> r.op, over |-> cur[r.href], made |-> cur'[r.href]]}
        /\ \/ /\ \E etag \in {IF r.body # Null /\ revs'[cur'[r.href]].strong
                              THEN cur'[r.href] ELSE Null, Null} : Answer(r, 204, etag)
              /\ UNCHANGED faults
           \/ Answer(r, 503, Null) /\ Fault
     \/ /\ ~Satisfied(r)
        /\ UNCHANGED <<revs, lastRev, cur, effects>>
        /\ \/ Answer(r, 412, Null) /\ UNCHANGED faults
           \/ Answer(r, 503, Null) /\ Fault
  /\ UNCHANGED <<journalVars, pc, wop, remote, published, now, foreign>>

RequestLost(r) ==
  /\ inflight' = inflight \ {r}
  /\ Fault
  /\ UNCHANGED <<journalVars, revs, lastRev, cur, effects, writerVars, published, now, foreign>>

-----------------------------------------------------------------------------
(* The writer: RCTwoWayRunWrites picks the operation, RCDAVWriterAttempt   *)
(* makes one attempt.                                                      *)

Goto(label) == pc' = label /\ UNCHANGED wop
Done == pc' = "idle" /\ wop' = 0 /\ remote' = NoResponse /\ reply' = Null

(* The lowest due operation; the attempt is committed before the network   *)
(* is touched.                                                             *)
BeginAttempt ==
  LET i == RCWriteJournalNext(now) IN
  /\ pc = "idle" /\ i # 0
  /\ ops[i].kind # "create" => RCWriteETagIsStrong(ops[i].baseETag)
  /\ ops[i].kind # "delete" => ops[i].desiredBody # Null
  /\ RCWriteJournalBeginAttempt(i, now)
  /\ pc' = "probe" /\ wop' = i
  /\ UNCHANGED <<serverVars, remote, reply, published, now, faults, foreign>>

AfterGet == [probe |-> "decide", recheck |-> "refused", confirm |-> "verify"]

Get ==
  /\ pc \in DOMAIN AfterGet
  /\ Goto(AfterGet[pc])
  /\ LET e == cur[ops[wop].href] IN
     \/ /\ remote' = IF e = 0 THEN [status |-> 404, etag |-> Null, body |-> Null]
                     ELSE [status |-> 200, etag |-> ETagOf(e), body |-> revs[e].body]
        /\ UNCHANGED faults
     \/ remote' = NoResponse /\ Fault
  /\ UNCHANGED <<journalVars, serverVars, reply, published, now, foreign>>

(* Faulty variant: a request without an answer is taken for a refusal.     *)
InterruptedAsConflict ==
  /\ pc # "idle"
  /\ Fault
  /\ Done
  /\ RCWriteJournalRecordResult(wop, "conflict", 503, Null, Null)
  /\ UNCHANGED <<serverVars, published, now, foreign>>

(* A request failed or was cancelled, or the process died: the journal     *)
(* keeps what it has and a request already sent stays with the server.     *)
Interrupted ==
  /\ pc # "idle"
  /\ Fault
  /\ Done
  /\ UNCHANGED <<journalVars, serverVars, published, now, foreign>>

(* libcurl's timeout, once nothing can answer the request any more.        *)
TimedOut ==
  /\ pc = "await" /\ reply = Null
  /\ \A r \in inflight : r.op # wop \/ r.attempt # ops[wop].attempts
  /\ Done
  /\ UNCHANGED <<journalVars, serverVars, published, now, faults, foreign>>

Desired(o, r) ==
  r.status = 200 /\ RCWriteETagIsStrong(r.etag) /\ r.body = o.desiredBody

Reached(o, r) == IF o.kind = "delete" THEN r.status = 404 ELSE Desired(o, r)

Diverged(o, r) ==
  IF o.kind = "create" THEN r.status # 404
  ELSE r.status # 200 \/ r.etag # o.baseETag

Record(state, r) ==
  /\ RCWriteJournalRecordResult(wop, state, r.status, r.etag,
                                IF r.status = 200 THEN r.body ELSE Null)
  /\ Done
  /\ UNCHANGED <<serverVars, published, now, faults, foreign>>

Conclusive(r) == r.status \in {200, 404}

SendConditional(o) ==
  /\ inflight' = inflight \cup
       {[op |-> wop, attempt |-> o.attempts, href |-> o.href, match |-> o.baseETag,
         body |-> o.desiredBody]}
  /\ Goto("await")
  /\ reply' = Null
  /\ UNCHANGED <<journalVars, revs, lastRev, cur, effects, remote, published, now, faults, foreign>>

(* Faulty variant: the request is conditional on what the probe found.     *)
DecideFresh ==
  LET o == ops[wop] IN
  /\ pc = "decide"
  /\ \/ Reached(o, remote) /\ Record("applied", remote)
     \/ ~Reached(o, remote) /\ ~Conclusive(remote) /\ Record("uncertain", remote)
     \/ ~Reached(o, remote) /\ Conclusive(remote)
        /\ SendConditional([o EXCEPT !.baseETag = remote.etag])

Decide ==
  LET o == ops[wop] IN
  /\ pc = "decide"
  /\ \/ Reached(o, remote) /\ Record("applied", remote)
     \/ ~Reached(o, remote) /\ ~Conclusive(remote) /\ Record("uncertain", remote)
     \/ ~Reached(o, remote) /\ Conclusive(remote) /\ Diverged(o, remote)
        /\ Record("conflict", remote)
     \/ ~Reached(o, remote) /\ Conclusive(remote) /\ ~Diverged(o, remote)
        /\ SendConditional(o)

Receive ==
  /\ pc = "await" /\ reply # Null
  /\ \/ /\ reply.status = 503
        /\ Record("uncertain", [status |-> 503, etag |-> reply.etag, body |-> Null])
     \/ /\ reply.status # 503
        /\ Goto(IF reply.status = 412 THEN "recheck" ELSE "confirm")
        /\ UNCHANGED <<journalVars, serverVars, remote, reply, published, now, faults, foreign>>

Refused ==
  /\ pc = "refused"
  /\ Record(IF Conclusive(remote) THEN "conflict" ELSE "uncertain", remote)

(* Faulty variant: any tag in the answer will do.                          *)
OursUntagged(r, w) ==
  r.status = 200 /\ r.body # Null /\ RCWriteETagIsStrong(w.etag)

(* The tag of our own PUT proves a changed serialisation is ours.          *)
Ours(r, w) ==
  /\ r.status = 200 /\ r.body # Null
  /\ RCWriteETagIsStrong(w.etag) /\ r.etag = w.etag

Verify ==
  LET o == ops[wop] IN
  /\ pc = "verify"
  /\ IF Reached(o, remote) \/ (o.kind # "delete" /\ Ours(remote, reply))
     THEN Record("applied", remote)
     ELSE Record(IF Conclusive(remote) THEN "conflict" ELSE "uncertain", remote)

Tick ==
  /\ pc = "idle"
  /\ \E i \in Rows : ops[i].retryAt > now /\ now' = ops[i].retryAt
  /\ UNCHANGED <<journalVars, serverVars, writerVars, published, faults, foreign>>

-----------------------------------------------------------------------------
(* The coordinator runs on the same worker, between attempts.              *)

Busy(h) == \E i \in Rows : ops[i].href = h /\ Unresolved(i)

BaseOf(e) ==
  [href |-> revs[e].href, etag |-> ETagOf(e), body |-> revs[e].body, revision |-> 1]

(* A publication snapshots the mirror's revision as the write base, for a  *)
(* resource with an unresolved write too, and the local store adopts it    *)
(* unless the resource is busy.                                            *)
Publish(h) ==
  /\ pc = "idle"
  /\ bases' = [bases EXCEPT ![h] = IF cur[h] = 0 THEN NoBase ELSE BaseOf(cur[h])]
  /\ published' = IF Busy(h) THEN published ELSE [published EXCEPT ![h] = cur[h]]
  /\ UNCHANGED <<ops, lastId, resolutions, attention, serverVars, writerVars, now, faults, foreign>>

QueueEdit(c, h, kind, body) ==
  /\ pc = "idle"
  /\ IF published[h] = 0
     THEN RCWriteJournalEnqueue(<<"local", c>>, h, h, "create", 0, body) /\ kind = "create"
     ELSE QueueFromBase(<<"local", c>>, h, kind, BaseOf(published[h]), body)
  /\ UNCHANGED <<serverVars, writerVars, published, now, faults, foreign>>

(* RCTwoWayComplete: the checkpoint commits, the local store accepts the   *)
(* verified revision, the operation is acknowledged.                       *)
Adopt(i) ==
  published' = [published EXCEPT ![ops[i].href] =
    IF ops[i].kind = "delete" THEN 0 ELSE ops[i].resultETag]

Checkpoint(i) ==
  /\ pc = "idle"
  /\ RCWriteJournalResolutionMirrored(i)
  /\ UNCHANGED <<serverVars, writerVars, published, now, faults, foreign>>

Accept(i) ==
  /\ pc = "idle" /\ ops[i].state = "applied"
  /\ RCWriteJournalAcknowledge(i)
  /\ Adopt(i)
  /\ UNCHANGED <<serverVars, writerVars, now, faults, foreign>>

Replan(i, kind, body) ==
  /\ pc = "idle"
  /\ QueueSuccessor(i, kind, body)
  /\ Adopt(i)
  /\ UNCHANGED <<serverVars, writerVars, now, faults, foreign>>

(* RecoverConflicts: an update or deletion of the remote revision, or, for *)
(* an edit of what is gone, its re-creation or verification-only deletion. *)
Resolve(i, kind, body, receipt) ==
  /\ pc = "idle"
  /\ ops[i].httpStatus = 404 => ops[i].kind # "create"
  /\ RCWriteJournalResolveConflict(i, kind, body, receipt)
  /\ UNCHANGED <<serverVars, writerVars, published, now, faults, foreign>>

-----------------------------------------------------------------------------

Writer == BeginAttempt \/ Get \/ Decide \/ Receive \/ TimedOut \/ Refused \/ Verify

Coordinator ==
  \/ \E h \in Hrefs : Publish(h)
  \/ \E c \in Changes, h \in Hrefs, kind \in Kinds, b \in Bodies \cup {Null} :
       QueueEdit(c, h, kind, b)
  \/ \E i \in Rows :
       \/ Checkpoint(i)
       \/ Accept(i)
       \/ \E kind \in {"update", "delete"}, b \in Bodies \cup {Null} : Replan(i, kind, b)
       \/ \E kind \in Kinds, b \in Bodies \cup {Null}, receipt \in Receipts :
            Resolve(i, kind, b, receipt)

Environment ==
  \/ \E h \in Hrefs : OtherClientDelete(h) \/ \E b \in Bodies : OtherClientPut(h, b)
  \/ \E r \in inflight : ServerExecute(r) \/ RequestLost(r)
  \/ Interrupted

WNext == Writer \/ Tick \/ Coordinator \/ Environment

WSpec == WInit /\ [][WNext]_vars

(* The worker polls for ever and its steps are never blocked by another    *)
(* thread; time passes; the server gets round to every request it holds.   *)
(* Faults are bounded by MaxFaults and other clients by MaxRevisions.      *)
WFairness ==
  /\ WF_vars(Writer) /\ WF_vars(Tick)
  /\ WF_vars(\E r \in inflight : ServerExecute(r))

WFairSpec == WSpec /\ WFairness

-----------------------------------------------------------------------------

(* The server, the writer and the journal refer to each other soundly: the *)
(* attempt is of an existing row, what the local store shows is a revision *)
(* or nothing (RCTwoWayComplete adopts no body for a deletion).            *)
WriterTypeOK ==
  /\ TypeOK
  /\ lastRev \in 0 .. MaxRevisions /\ DOMAIN revs = ETags
  /\ \A e \in 1 .. lastRev : revs[e] \in Revision
  /\ cur \in [Hrefs -> 0 .. lastRev] /\ published \in [Hrefs -> 0 .. lastRev]
  /\ inflight \subseteq Request
  /\ pc \in PCs /\ wop \in Rows \cup {0} /\ (wop = 0 <=> pc = "idle")
  /\ remote \in Response /\ reply \in WriteReply \cup {Null}
  /\ now \in Nat /\ faults \in 0 .. MaxFaults /\ foreign \in 0 .. MaxForeign

(* No lost update: whatever our requests overwrote or removed on the       *)
(* server was exactly the revision, tag and body, that the operation       *)
(* recorded as its base when it was decided; a creation overwrote nothing. *)
NoLostUpdate ==
  \A f \in effects : LET o == ops[f.op] IN
    IF o.kind = "create" THEN f.over = 0
    ELSE /\ f.over = o.baseETag
         /\ revs[f.over].href = o.href /\ revs[f.over].body = o.baseBody

(* An update or deletion reaches the server at most once, however often it *)
(* is retried after a lost answer or a restart.                            *)
AtMostOnce ==
  \A f, g \in effects : f.op = g.op /\ ops[f.op].kind # "create" => f = g

(* An applied write is a revision the server really stored for this href,  *)
(* and is either byte for byte what was asked for or the outcome of our    *)
(* own request: another client's edit is never taken for our own.          *)
AppliedIsStored ==
  \A i \in Rows :
    ops[i].state \in {"applied", "acknowledged"} /\ ops[i].kind # "delete" =>
      LET e == ops[i].resultETag IN
      /\ e \in 1 .. lastRev /\ revs[e].href = ops[i].href
      /\ revs[e].body = ops[i].resultBody
      /\ ops[i].resultBody = ops[i].desiredBody \/ revs[e].by = i

(* Once faults stop, every queued or uncertain write gets a definite       *)
(* outcome: the back-off and the lowest-id-first choice starve none.       *)
EveryWriteSettles ==
  \A i \in Ids :
    (i \in Rows /\ Due(i, ops[i].retryAt)) ~> (i \in Rows /\ ~Due(i, ops[i].retryAt))

-----------------------------------------------------------------------------

(* How the journal and the server show what the writer has promised: an    *)
(* operation is open until its result is recorded, and settling or         *)
(* resolving it changes nothing about what was reported.                   *)
OrderOf(o) ==
  [href |-> o.href, kind |-> o.kind, base |-> IF o.kind = "create" THEN 0 ELSE o.baseETag,
   want |-> o.desiredBody]

Reported == [queued |-> "open", uncertain |-> "open", applied |-> "applied",
             acknowledged |-> "applied", conflict |-> "conflict", cancelled |-> "conflict"]

Promise == INSTANCE ConditionalWrite WITH
  Writes <- Ids, Revisions <- ETags, Contents <- Bodies, None <- Null,
  current <- cur,
  made <- [e \in ETags |-> IF e > lastRev THEN Null ELSE
             [href |-> revs[e].href, body |-> revs[e].body,
              by |-> IF revs[e].by = 0 THEN Null ELSE revs[e].by]],
  order <- [i \in Ids |-> IF i \in Rows THEN OrderOf(ops[i]) ELSE Null],
  outcome <- [i \in Ids |-> IF i \in Rows THEN Reported[ops[i].state] ELSE "none"]

(* The attempts, requests, answers, faults, restarts and resolutions of    *)
(* the writer implement ConditionalWrite: a queued write acts only on the  *)
(* revision it was decided on and is truthfully reported once.             *)
KeepsPromise == Promise!CWSpec
=============================================================================
