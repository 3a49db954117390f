----------------------------- MODULE SyncWorker -----------------------------
(***************************************************************************)
(* The polls of the sync worker (RCSyncWorkerMain), the status it reports  *)
(* (RCStatus.m, RCStatusPolicy.c), the follow-up poll (RCSyncFollowup.h)   *)
(* and the shutdown by the main thread.  What a poll transfers is modelled *)
(* elsewhere; here a step of a poll succeeds or fails, and leaves a        *)
(* journal with some rows.  Every RCStatus function runs under one lock    *)
(* and looks at RCStopRequested, which a signal sets at any moment.        *)
(*                                                                         *)
(* A missing table counts as an empty one.  Rows of other accounts are     *)
(* left out by every query, and left out here.                             *)
(***************************************************************************)
EXTENDS Naturals, FiniteSets

CONSTANTS
  Services,  \* the enabled services, out of "Contacts" and "Calendars"
  TwoWay,    \* those of them that also upload
  Ops,       \* operations in the journal
  Roots,     \* records that pending fields and attention rows name
  MaxFaults  \* bound: queries of one evaluation that fail

VARIABLES
  stop,      \* RCStopRequested
  main,      \* where the main thread is
  pc, service, \* where the worker is, and in which service's part
  password, fetched, exported, complete, \* locals of the poll
  uploaded, followup,
  status,    \* Status.plist: phase, severity, error and counts of a service
  running,
  db,        \* what the service's journal holds
  advanced,  \* LastSuccess was set in this poll
  judged     \* history: what the last RCStatusFinish judged, or "nothing"

local == <<password, fetched, exported, complete, uploaded, followup>>
vars == <<stop, main, pc, service, local, status, running, db, advanced, judged>>

Values == [ops |-> [Ops -> {"queued", "conflict", "applied", "acknowledged"}], flagged |-> SUBSET Ops,
           fields |-> SUBSET Roots, attention |-> SUBSET Roots, actions |-> 0 .. 1, invalid |-> 0 .. 1]
Contents == [ops : Values.ops, flagged : Values.flagged, fields : Values.fields,
             attention : Values.attention, actions : Values.actions, invalid : Values.invalid]
EmptyDB == [ops |-> [o \in Ops |-> "acknowledged"], flagged |-> {}, fields |-> {}, attention |-> {},
            actions |-> 0, invalid |-> 0]

(* What local application and the uploads leave: one table has changed.    *)
After(d) == UNION {{[d EXCEPT ![table] = v] : v \in Values[table]} : table \in DOMAIN Values}

-----------------------------------------------------------------------------
(* RCStatusEvaluate.                                                       *)

Queries == {"ops", "fields", "attention", "actions", "flagged", "overlap", "invalid", "applied"}
Faults == {b \in SUBSET Queries : Cardinality(b) <= MaxFaults}

InState(d, states) == {o \in Ops : d.ops[o] \in states}

(* Rows of a query that worked; a failed one adds nothing.                 *)
Count(d, broken, query) ==
  IF query \in broken THEN 0
  ELSE CASE query = "ops" -> Cardinality(InState(d, {"queued", "conflict", "applied"}))
         [] query = "fields" -> Cardinality(d.fields)
         [] query = "attention" -> Cardinality(d.attention)
         [] query = "actions" -> d.actions
         [] query = "flagged" -> Cardinality(d.flagged \cap InState(d, {"applied"}))
         [] query = "overlap" -> Cardinality(d.fields \cap d.attention)
         [] query = "invalid" -> d.invalid
         [] query = "applied" -> Cardinality(InState(d, {"applied"}))

(* Faulty variant: a query that failed is not noticed.                     *)
EvaluateUnknown(d, broken, done, failed) ==
  LET n(q) == Count(d, broken, q)
      pending == n("ops") + n("fields") + n("attention") + n("actions") + n("flagged")
                 + n("invalid") - n("overlap")
      attention == pending - n("applied")
      waits == attention # 0 \/ (~done /\ n("applied") = 0)
  IN  [pending |-> pending, attention |-> attention,
       phase |-> IF failed THEN "Error" ELSE IF waits THEN "Attention"
                 ELSE IF n("applied") # 0 THEN "Uploaded" ELSE "UpToDate",
       severity |-> IF failed THEN "red" ELSE IF waits THEN "yellow" ELSE "green",
       advance |-> ~failed /\ done /\ pending = 0]

RCStatusEvaluate(d, broken, done, failed) ==
  LET n(q) == Count(d, broken, q)
      known == broken = {}
      pending == n("ops") + n("fields") + n("attention") + n("actions") + n("flagged")
                 + n("invalid") - n("overlap")
      attention == pending - n("applied")
      waits == ~known \/ attention # 0 \/ (~done /\ n("applied") = 0)
  IN  [pending |-> pending, attention |-> attention,
       phase |-> IF failed THEN "Error" ELSE IF waits THEN "Attention"
                 ELSE IF n("applied") # 0 THEN "Uploaded" ELSE "UpToDate",
       severity |-> IF failed THEN "red" ELSE IF waits THEN "yellow" ELSE "green",
       advance |-> ~failed /\ done /\ known /\ pending = 0]

-----------------------------------------------------------------------------
(* The RCStatus functions, as functions of the status.                     *)

RCStatusStopping(st) ==
  [s \in Services |-> [st[s] EXCEPT !.phase = "Stopping", !.severity = "yellow", !.error = FALSE]]

RCStatusPhase(st, s, phase) ==
  IF stop THEN RCStatusStopping(st)
  ELSE LET error == phase # "Waiting" /\ st[s].error IN
       [st EXCEPT ![s] = [@ EXCEPT !.phase = phase, !.error = error,
                                   !.severity = IF error THEN "red" ELSE "yellow"]]

RCStatusFailure(st, s) ==
  IF stop THEN RCStatusStopping(st)
  ELSE [st EXCEPT ![s] = [@ EXCEPT !.phase = "Error", !.severity = "red", !.error = TRUE]]

FailIf(failed, st, s) == IF failed THEN RCStatusFailure(st, s) ELSE st

-----------------------------------------------------------------------------

Init ==
  /\ stop = FALSE /\ main = "run" /\ pc = "poll" /\ service = "Contacts"
  /\ password = FALSE /\ fetched = FALSE /\ exported = FALSE /\ complete = FALSE
  /\ uploaded = FALSE /\ followup = FALSE /\ running = TRUE
  /\ status = [s \in Services |-> [phase |-> "Waiting", severity |-> "yellow", error |-> FALSE, attention |-> 0]]
  /\ db \in [Services -> Contents] /\ \A s \in Services \ TwoWay : db[s] = EmptyDB
  /\ advanced = [s \in Services |-> FALSE]
  /\ judged = [s \in Services |-> "nothing"]

(* A poll begins: every service waits, the old errors are forgotten.       *)
Poll ==
  /\ pc = "poll"
  /\ IF main \in {"joining", "done"}
     THEN pc' = "ended" /\ UNCHANGED <<status, advanced, judged>>
     ELSE /\ pc' = "credentials"
          /\ status' = IF stop THEN RCStatusStopping(status)
                       ELSE [s \in Services |-> RCStatusPhase(status, s, "Waiting")[s]]
          /\ advanced' = [s \in Services |-> FALSE]
          /\ judged' = [s \in Services |-> "nothing"]
  /\ service' = "Contacts" /\ uploaded' = FALSE
  /\ fetched' = FALSE /\ exported' = FALSE /\ complete' = FALSE /\ password' = FALSE
  /\ UNCHANGED <<stop, main, followup, running, db>>

(* RCCopyPasswordForWorker.                                                *)
Credentials ==
  /\ pc = "credentials" /\ pc' = "access"
  /\ password' \in IF stop THEN {FALSE} ELSE BOOLEAN
  /\ status' = IF password' \/ stop THEN status
               ELSE [s \in Services |-> RCStatusFailure(status, s)[s]]
  /\ UNCHANGED <<stop, main, service, fetched, exported, complete, uploaded, followup, running, db, advanced,
                 judged>>

(* To the next service, or to the end of the poll.                         *)
Leave ==
  IF service = "Contacts" THEN service' = "Calendars" /\ pc' = "access"
  ELSE pc' = "finished" /\ UNCHANGED service

(* Access to the native store, and to the database.                        *)
Access ==
  /\ pc = "access"
  /\ fetched' = FALSE /\ exported' = FALSE /\ complete' = FALSE
  /\ \/ (service \notin Services \/ stop) /\ Leave /\ UNCHANGED status
     \/ service \in Services /\ ~stop /\ pc' = "writes" /\ UNCHANGED <<service, status>>
     \/ service \in Services /\ ~stop /\ Leave /\ status' = RCStatusFailure(status, service)
  /\ UNCHANGED <<stop, main, password, uploaded, followup, running, db, advanced, judged>>

(* RCRunAccountWrites before the download.                                 *)
Writes ==
  /\ pc = "writes"
  /\ IF service \in TwoWay /\ password /\ ~stop
     THEN \E failed \in BOOLEAN :
            status' = FailIf(failed, RCStatusPhase(status, service, "Uploading"), service)
     ELSE UNCHANGED status
  /\ IF stop THEN Leave ELSE pc' = "fetch" /\ UNCHANGED service
  /\ UNCHANGED <<stop, main, local, running, db, advanced, judged>>

(* The download, with the photos of contacts; reading the statistics of a  *)
(* completed one may fail too.                                             *)
Fetch ==
  /\ pc = "fetch"
  /\ fetched' \in IF password THEN BOOLEAN ELSE {FALSE}
  /\ \E statistics \in IF fetched' /\ service = "Contacts" THEN BOOLEAN ELSE {fetched'} :
       status' = FailIf(password /\ ~statistics, RCStatusPhase(status, service, "Downloading"), service)
  /\ IF stop THEN Leave ELSE pc' = "apply" /\ UNCHANGED service
  /\ UNCHANGED <<stop, main, password, exported, complete, uploaded, followup, running, db, advanced, judged>>

RCHasPendingWrites(d) == InState(d, {"queued", "conflict", "applied"}) # {} \/ d.actions # 0

(* Local application, and the uploads it queued.                           *)
Apply ==
  /\ pc = "apply"
  /\ exported' \in IF service \in TwoWay THEN {FALSE, fetched}
                   ELSE IF RCHasPendingWrites(db[service]) THEN {FALSE} ELSE BOOLEAN
  /\ complete' \in IF fetched /\ exported' THEN (IF service \in TwoWay THEN BOOLEAN ELSE {TRUE}) ELSE {FALSE}
  /\ \E d \in IF service \in TwoWay THEN After(db[service]) ELSE {db[service]} : db' = [db EXCEPT ![service] = d]
  /\ \E failed, verified \in BOOLEAN :
       LET writes == service \in TwoWay /\ exported' /\ password /\ ~stop
           applying == RCStatusPhase(status, service, "Applying")
           after == IF writes THEN FailIf(failed, RCStatusPhase(applying, service, "Uploading"), service) ELSE applying
       IN  /\ writes \/ (~failed /\ ~verified)
           /\ uploaded' = (uploaded \/ verified)
           /\ status' = FailIf(~exported' /\ fetched /\ ~stop, after, service)
  /\ IF stop THEN Leave ELSE pc' = "finish" /\ UNCHANGED service
  /\ UNCHANGED <<stop, main, password, fetched, followup, running, advanced, judged>>

RCStatusFinish ==
  /\ pc = "finish"
  /\ \/ /\ stop
        /\ status' = RCStatusStopping(status) /\ UNCHANGED <<advanced, judged>>
     \/ /\ ~stop
        /\ \E broken \in Faults :
             LET result == RCStatusEvaluate(db[service], broken, complete, status[service].error) IN
             /\ status' = [status EXCEPT ![service] =
                             [@ EXCEPT !.phase = result.phase, !.severity = result.severity,
                                       !.attention = result.attention]]
             /\ advanced' = [advanced EXCEPT ![service] = @ \/ result.advance]
             /\ judged' = [judged EXCEPT ![service] =
                             IF broken = {} THEN "everything" ELSE "unknown"]
  /\ IF service = "Calendars" /\ exported /\ (service \in TwoWay => complete)
     THEN pc' = "prune" /\ UNCHANGED service ELSE Leave
  /\ UNCHANGED <<stop, main, local, running, db>>

(* RCCalendarStorePruneHistory.                                            *)
Prune ==
  /\ pc = "prune" /\ Leave
  /\ \E failed \in BOOLEAN : status' = FailIf(failed /\ ~stop, status, service)
  /\ UNCHANGED <<stop, main, local, running, db, advanced, judged>>

RCSyncFollowupDelay == IF uploaded /\ ~followup THEN 0 ELSE 1

Finished ==
  /\ pc = "finished"
  /\ IF stop THEN pc' = "ended" /\ UNCHANGED followup
     ELSE /\ followup' = (RCSyncFollowupDelay = 0)
          /\ pc' = IF RCSyncFollowupDelay = 0 THEN "poll" ELSE "wait"
  /\ UNCHANGED <<stop, main, service, password, fetched, exported, complete, uploaded, status, running, db,
                 advanced, judged>>

(* pthread_cond_timedwait ends by its timeout or by the stop.              *)
Wait ==
  /\ pc = "wait"
  /\ pc' = IF main \in {"joining", "done"} THEN "ended" ELSE "poll"
  /\ UNCHANGED <<stop, main, service, local, status, running, db, advanced, judged>>

(* HandleTerminationSignal.                                                *)
Signal ==
  /\ ~stop /\ stop' = TRUE
  /\ UNCHANGED <<main, pc, service, local, status, running, db, advanced, judged>>

(* The main loop ends: RCStatusStopping, RCSyncWorkerStop, RCStatusStop.   *)
Stopping ==
  /\ main = "run" /\ stop /\ main' = "stopping"
  /\ status' = RCStatusStopping(status)
  /\ UNCHANGED <<stop, pc, service, local, running, db, advanced, judged>>

RCSyncWorkerStop ==
  /\ main = "stopping" /\ main' = "joining"
  /\ UNCHANGED <<stop, pc, service, local, status, running, db, advanced, judged>>

Joined ==
  /\ main = "joining" /\ pc = "ended" /\ main' = "done" /\ running' = FALSE
  /\ UNCHANGED <<stop, pc, service, local, status, db, advanced, judged>>

Worker ==
  \/ Poll \/ Credentials \/ Access \/ Writes \/ Fetch \/ Apply \/ RCStatusFinish \/ Prune
  \/ Finished \/ Wait
Main == Stopping \/ RCSyncWorkerStop \/ Joined

Next == Worker \/ Main \/ Signal

(* Both threads run whenever they can.                                     *)
Spec == Init /\ [][Next]_vars /\ WF_vars(Worker) /\ WF_vars(Main)
-----------------------------------------------------------------------------

(* The rows and the phases are the tables' and the policy's own.           *)
TypeOK ==
  /\ \A s \in Services :
       /\ db[s] \in Contents /\ advanced[s] \in BOOLEAN
       /\ status[s].phase \in {"Waiting", "Uploading", "Downloading", "Applying", "Error", "Attention",
                               "Uploaded", "UpToDate", "Stopping"}
       /\ (status[s].severity = "red") = status[s].error
  /\ pc \in {"poll", "credentials", "access", "writes", "fetch", "apply", "finish", "prune", "finished",
             "wait", "ended"}

(* What waits for somebody, each thing once.                               *)
Waiting(d) ==
  ({"op"} \X (InState(d, {"queued", "conflict"}) \cup (d.flagged \cap InState(d, {"applied"}))))
    \cup ({"root"} \X (d.fields \cup d.attention))
    \cup ({"action"} \X (1 .. d.actions)) \cup ({"invalid"} \X (1 .. d.invalid))

(* A green service tells the truth: this poll had no failure, every query  *)
(* of the evaluation worked, and nothing waits but verified uploads; and   *)
(* the time of the last full sync advances only when not even those do.    *)
GreenIsTrue ==
  \A s \in Services :
    /\ status[s].severity = "green" =>
         /\ ~status[s].error /\ judged[s] = "everything" /\ Waiting(db[s]) = {}
         /\ status[s].phase = "Uploaded" <=> InState(db[s], {"applied"}) # {}
    /\ advanced[s] => judged[s] = "everything" /\ Waiting(db[s]) = {} /\ ~RCHasPendingWrites(db[s])
=============================================================================
