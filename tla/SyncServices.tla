---------------------------- MODULE SyncServices ----------------------------
(***************************************************************************)
(* The two-way exchange through Apple's Sync Services and its recovery     *)
(* from conflicts: RCSyncServicesBackend.m, RCSyncConflictSession.m,       *)
(* RCTwoWaySync.m and RCWriteJournalResolveConflict.  A pass uploads,      *)
(* fetches, completes verified uploads, resolves conflicts, publishes the  *)
(* mirror, journals local edits and uploads again; every commit is a step, *)
(* and the daemon can end between any two of them.                         *)
(*                                                                         *)
(* The engine is external and modelled by how the code uses it.  It keeps  *)
(* the truth, which the user's applications edit, and for this client a    *)
(* snapshot of the records it last pushed or accepted; where they differ a *)
(* change is pending.  A pushed record that meets a pending change is      *)
(* reconciled: the engine lets one of the two win.  Cancelling a session   *)
(* keeps what was mingled and leaves every pending change pending.         *)
(*                                                                         *)
(* As in NativeSync, a content is the number of the edit that made it, 0   *)
(* is an absent record, and the revision an upload stores is its content.  *)
(* Of an operation's local_revision only its sign matters: 0 for a         *)
(* creation and what replaces it, 1 for any other.                         *)
(* Field scopes, detached events and resources outside a history window    *)
(* are left to FieldPlan and NativeSync.                                   *)
(***************************************************************************)
EXTENDS Naturals, FiniteSets

CONSTANTS
  Resources,
  MaxClock,   \* bound: edits
  MaxFaults,  \* bound: crashes, failed sessions, lost answers
  NoResource

ASSUME SyncServicesConstants ==
  NoResource \notin Resources /\ MaxClock \in Nat /\ MaxFaults \in Nat

VARIABLES
  clock, faults,
  srv,       \* srv[h]: the content on the server
  truth,     \* truth[h]: the engine's canonical record
  snap,      \* snap[h]: the engine's snapshot for this client
  mir,       \* mir[h]: the mirror
  imported,  \* resources the mirror ever stored an identity for
  published, \* the publication checkpoint
  alias,     \* local creations whose imported identity is mapped
  op,        \* op[h]: the unresolved operation
  born,      \* where h was created
  pc, todo,
  cur,       \* the resource within a task, NoResource between tasks
  at,        \* where in the task
  view,      \* the truth the session read
  busy,      \* records with unresolved work when the session began
  stored,    \* history: <<h, c>>: the server held content c of h
  made,      \* history: contents the user made here
  seen,      \* history: contents the engine has been shown
  lost       \* history: <<h, c>>: the engine decided against c for h

serverVars == <<srv, stored>>
engineVars == <<truth, snap, seen, lost>>
ownVars    == <<published, alias, op>>
mirrorVars == <<mir, imported>>
passVars   == <<pc, todo, cur, at, view, busy>>
vars == <<clock, faults, serverVars, engineVars, ownVars, mirrorVars, born, made, passVars>>

NoOp == [kind |-> "none", revision |-> 0, base |-> 0, body |-> 0, state |-> "none", result |-> 0]
NewOp(kind, revision, base, body) ==
  [kind |-> kind, revision |-> revision, base |-> base, body |-> body, state |-> "queued", result |-> 0]

Init ==
  /\ clock = 0 /\ faults = 0
  /\ srv = [h \in Resources |-> 0] /\ truth = srv /\ snap = srv /\ mir = srv /\ view = srv
  /\ imported = {} /\ published = {} /\ alias = {}
  /\ op = [h \in Resources |-> NoOp] /\ born = [h \in Resources |-> "none"]
  /\ pc = "idle" /\ todo = {} /\ cur = NoResource /\ at = "none" /\ busy = {}
  /\ stored = {} /\ made = {} /\ seen = {} /\ lost = {}

-----------------------------------------------------------------------------
(* The user, and the server's other clients.                               *)

Tick == clock < MaxClock /\ clock' = clock + 1

LocalEdit(h) ==
  /\ Tick
  /\ \/ truth[h] # 0 /\ UNCHANGED born
     \/ born[h] = "none" /\ born' = [born EXCEPT ![h] = "local"]
  /\ truth' = [truth EXCEPT ![h] = clock'] /\ made' = made \cup {clock'}
  /\ UNCHANGED <<faults, serverVars, snap, seen, lost, ownVars, mirrorVars, passVars>>

LocalDelete(h) ==
  /\ Tick /\ truth[h] # 0
  /\ truth' = [truth EXCEPT ![h] = 0]
  /\ UNCHANGED <<faults, serverVars, snap, seen, lost, ownVars, mirrorVars, born, made, passVars>>

RemoteEdit(h) ==
  /\ Tick
  /\ \/ \E c \in 1 .. clock : <<h, c>> \in stored /\ UNCHANGED born   \* edited or restored
     \/ born[h] = "none" /\ born' = [born EXCEPT ![h] = "server"]
  /\ srv' = [srv EXCEPT ![h] = clock'] /\ stored' = stored \cup {<<h, clock'>>}
  /\ UNCHANGED <<faults, engineVars, ownVars, mirrorVars, made, passVars>>

RemoteDelete(h) ==
  /\ Tick /\ srv[h] # 0
  /\ srv' = [srv EXCEPT ![h] = 0]
  /\ UNCHANGED <<faults, stored, engineVars, ownVars, mirrorVars, born, made, passVars>>

-----------------------------------------------------------------------------
(* The engine.  Push gives each record of push[h] (0: a deletion) for h in *)
(* its domain; winners are the conflicts it lets the pushed record win.    *)

Conflicts(push) ==
  {h \in DOMAIN push : push[h] # snap[h] /\ truth[h] # snap[h] /\ push[h] # truth[h]}

Push(push) ==
  \E winners \in SUBSET Conflicts(push) :
    /\ truth' = [h \in Resources |->
         IF h \in DOMAIN push /\ push[h] # snap[h] /\ h \notin Conflicts(push) \ winners
         THEN push[h] ELSE truth[h]]
    /\ snap' = [h \in Resources |-> IF h \in DOMAIN push THEN push[h] ELSE snap[h]]
    /\ lost' = lost \cup {<<h, truth[h]>> : h \in winners}
                     \cup {<<h, push[h]>> : h \in Conflicts(push) \ winners}
    /\ seen' = seen \cup {push[h] : h \in DOMAIN push}

Accepted(h) == snap' = [snap EXCEPT ![h] = truth[h]]

-----------------------------------------------------------------------------
(* The pass.                                                               *)

InState(s) == {h \in Resources : op[h].state = s}

Phase(p, work) == pc' = p /\ todo' = work /\ cur' = NoResource /\ at' = "none"
Task(h, where) == cur' = h /\ at' = where /\ todo' = todo \ {h} /\ UNCHANGED pc
Between == cur = NoResource

NextTask == cur' = NoResource /\ at' = "none" /\ UNCHANGED <<pc, todo>>
Skipped(h) == todo' = todo \ {h} /\ UNCHANGED <<pc, cur, at>>

StartPass ==
  /\ pc = "idle" /\ Phase("writes", InState("queued"))
  /\ UNCHANGED <<clock, faults, serverVars, engineVars, ownVars, mirrorVars, born, made, view, busy>>

WritesDone ==
  /\ pc \in {"writes", "rewrites"} /\ Between /\ todo = {}
  /\ Phase(IF pc = "writes" THEN "fetch" ELSE "idle", {})
  /\ UNCHANGED <<clock, faults, serverVars, engineVars, ownVars, mirrorVars, born, made, view, busy>>

Fetched ==
  /\ pc = "fetch"
  /\ mir' = srv /\ imported' = imported \cup {h \in Resources : srv[h] # 0}
  /\ Phase("complete", InState("applied"))
  /\ UNCHANGED <<clock, faults, serverVars, engineVars, ownVars, born, made, view, busy>>

Fault == faults < MaxFaults /\ faults' = faults + 1

(* A failed fetch or session, or the end of the process: the next pass     *)
(* starts from what was committed.                                         *)
Interrupted ==
  /\ pc # "idle" /\ Fault
  /\ Phase("idle", {})
  /\ UNCHANGED <<clock, serverVars, engineVars, ownVars, mirrorVars, born, made, view, busy>>

-----------------------------------------------------------------------------
(* RCDAVWriterAttempt: look, send, check.                                  *)

Record(h, state) == op' = [op EXCEPT ![h].state = state, ![h].result = srv[h]]

Look(h) ==
  /\ pc \in {"writes", "rewrites"} /\ Between /\ h \in todo
  /\ \/ srv[h] = op[h].body /\ Record(h, "applied") /\ Skipped(h)
     \/ srv[h] # op[h].body /\ srv[h] # op[h].base /\ Record(h, "conflict") /\ Skipped(h)
     \/ srv[h] # op[h].body /\ srv[h] = op[h].base /\ Task(h, "send") /\ UNCHANGED op
  /\ UNCHANGED <<clock, faults, serverVars, engineVars, published, alias, mirrorVars, born, made, view, busy>>

Send ==
  /\ at = "send"
  /\ IF srv[cur] = op[cur].base
     THEN /\ srv' = [srv EXCEPT ![cur] = op[cur].body]
          /\ stored' = stored \cup {<<cur, op[cur].body>>}
     ELSE UNCHANGED serverVars
  /\ at' = IF srv[cur] = op[cur].base THEN "check" ELSE "refused"
  /\ UNCHANGED <<clock, faults, engineVars, ownVars, mirrorVars, born, made, pc, todo, cur, view, busy>>

Check ==
  /\ at \in {"check", "refused"}
  /\ Record(cur, IF at = "check" /\ srv[cur] = op[cur].body THEN "applied" ELSE "conflict")
  /\ NextTask
  /\ UNCHANGED <<clock, faults, serverVars, engineVars, published, alias, mirrorVars, born, made, view, busy>>

-----------------------------------------------------------------------------
(* RCTwoWayComplete: aliases, the engine's acceptance, the acknowledgement *)
(* are three commits.                                                      *)

Completing(h) == pc = "complete" /\ Between /\ h \in todo

(* A verified deletion waits for a mirror without the resource.            *)
CompleteAlias(h) ==
  /\ Completing(h)
  /\ IF op[h].kind = "delete" /\ mir[h] # 0
     THEN Skipped(h) /\ UNCHANGED alias
     ELSE /\ alias' = IF op[h].kind # "delete" THEN alias \cup {h} ELSE alias
          /\ Task(h, "aliased")
  /\ UNCHANGED <<clock, faults, serverVars, engineVars, published, op, mirrorVars, born, made, view, busy>>

(* verified-write-awaits-matching-mirror: the verified bytes cannot be     *)
(* projected onto a mirror that is not their own.                          *)
AwaitMirror(h) ==
  /\ Completing(h) /\ op[h].kind # "delete" /\ mir[h] # op[h].body /\ Fault
  /\ Skipped(h)
  /\ UNCHANGED <<clock, serverVars, engineVars, ownVars, mirrorVars, born, made, view, busy>>

(* Faulty variant: whatever is in the truth by now is accepted.            *)
MatchesAny(h) == TRUE

(* The receipt is the record as it was when the operation was journaled.   *)
ReceiptMatches(h) == truth[h] = op[h].body

Accept ==
  /\ at = "aliased" /\ ReceiptMatches(cur)
  /\ Accepted(cur) /\ seen' = seen \cup {truth[cur]}
  /\ at' = "accepted"
  /\ UNCHANGED <<clock, faults, serverVars, truth, lost, ownVars, mirrorVars, born, made, pc, todo, cur,
                 view, busy>>

(* The acceptance session, or the successor's transaction, fails: the      *)
(* operation needs attention and the pass goes on.  The session may have   *)
(* committed the acceptance before it failed to close.                     *)
AcceptFailed ==
  /\ at = "aliased" /\ Fault
  /\ \/ ReceiptMatches(cur) /\ Accepted(cur) /\ seen' = seen \cup {truth[cur]}
     \/ UNCHANGED <<snap, seen>>
  /\ NextTask
  /\ UNCHANGED <<clock, serverVars, truth, lost, ownVars, mirrorVars, born, made, view, busy>>

Acknowledge ==
  /\ at = "accepted"
  /\ op' = [op EXCEPT ![cur] = NoOp]
  /\ NextTask
  /\ UNCHANGED <<clock, faults, serverVars, engineVars, published, alias, mirrorVars, born, made, view, busy>>

Kind(content) == IF content = 0 THEN "delete" ELSE "update"

(* A newer local edit: the verified upload is retired and the edit queued  *)
(* against the verified revision, in one transaction.                      *)
Successor(h) == NewOp(Kind(truth[h]), 1, op[h].body, truth[h])

QueueSuccessor ==
  /\ at = "aliased" /\ ~ReceiptMatches(cur) /\ mir[cur] # 0 /\ op[cur].kind # "delete"
  /\ op' = [op EXCEPT ![cur] = Successor(cur)]
  /\ NextTask
  /\ UNCHANGED <<clock, faults, serverVars, engineVars, published, alias, mirrorVars, born, made, view, busy>>

(* Nothing can be queued against a resource the mirror no longer has: the  *)
(* operation needs attention.                                              *)
AwaitAcceptance ==
  /\ at = "aliased" /\ ~ReceiptMatches(cur) /\ (mir[cur] = 0 \/ op[cur].kind = "delete")
  /\ NextTask
  /\ UNCHANGED <<clock, faults, serverVars, engineVars, ownVars, mirrorVars, born, made, view, busy>>

CompleteDone ==
  /\ pc = "complete" /\ Between /\ todo = {}
  /\ Phase("recover", InState("conflict"))
  /\ UNCHANGED <<clock, faults, serverVars, engineVars, ownVars, mirrorVars, born, made, view, busy>>

-----------------------------------------------------------------------------
(* RecoverConflicts: the conflicting revision alone is pushed, the engine  *)
(* decides, and the decision becomes a conditional successor.              *)

Recovering(h) == pc = "recover" /\ Between /\ h \in todo

(* A creation whose resource is gone has no usable revision.               *)
Recoverable(h) == ~(op[h].kind = "create" /\ op[h].result = 0)

ConflictAttention(h) ==
  /\ Recovering(h) /\ ~Recoverable(h)
  /\ Skipped(h)
  /\ UNCHANGED <<clock, faults, serverVars, engineVars, ownVars, mirrorVars, born, made, view, busy>>

ResolveResourceConflict(h) ==
  /\ Recovering(h) /\ Recoverable(h)
  /\ Push([r \in {h} |-> op[h].result])
  /\ view' = truth' /\ Task(h, "resolved")
  /\ UNCHANGED <<clock, faults, serverVars, ownVars, mirrorVars, born, made, busy>>

(* The session fails, before or after the engine has mingled: the conflict *)
(* stays, and the pass goes on.                                            *)
ConflictPending(h) ==
  /\ Recovering(h) /\ Recoverable(h) /\ Fault
  /\ Push([r \in {h} |-> op[h].result]) \/ UNCHANGED engineVars
  /\ Skipped(h)
  /\ UNCHANGED <<clock, serverVars, ownVars, mirrorVars, born, made, view, busy>>

(* RCWriteJournalResolveConflict: to let a deletion stand where the        *)
(* resource is gone takes the revision it was published with.              *)
Usable(h, decision) ==
  op[h].result = 0 /\ decision = 0 => op[h].base # 0 /\ op[h].revision > 0

(* Faulty variant: the decision is queued against the old base.            *)
ResolutionKeepsBase(h) ==
  NewOp(IF view[h] = 0 THEN "delete" ELSE "update", op[h].revision, op[h].base, view[h])

(* The precondition is the revision the decision saw; a deletion of what   *)
(* is gone keeps its old one.                                              *)
Resolution(h) ==
  IF op[h].result # 0 THEN NewOp(Kind(view[h]), op[h].revision, op[h].result, view[h])
  ELSE IF view[h] = 0 THEN NewOp("delete", op[h].revision, op[h].base, 0)
  ELSE NewOp("create", 0, 0, view[h])

SaveResolution ==
  /\ at = "resolved" /\ Usable(cur, view[cur])
  /\ op' = [op EXCEPT ![cur] = Resolution(cur)]
  /\ NextTask
  /\ UNCHANGED <<clock, faults, serverVars, engineVars, published, alias, mirrorVars, born, made, view, busy>>

(* A decision the journal refuses ends the pass.                           *)
ResolutionRefused ==
  /\ at = "resolved" /\ ~Usable(cur, view[cur])
  /\ Phase("idle", {})
  /\ UNCHANGED <<clock, faults, serverVars, engineVars, ownVars, mirrorVars, born, made, view, busy>>

RecoverDone ==
  /\ pc = "recover" /\ Between /\ todo = {}
  /\ Phase("publish", {})
  /\ UNCHANGED <<clock, faults, serverVars, engineVars, ownVars, mirrorVars, born, made, view, busy>>

-----------------------------------------------------------------------------
(* Exchange: publish the mirror, read the truth, journal what differs.     *)

Unsettled == {h \in Resources : op[h] # NoOp}

(* Without unresolved work all records are pushed, and one that is not     *)
(* among them is deleted; with it, only the changes against the checkpoint.*)
PushSet ==
  IF Unsettled = {} THEN Resources
  ELSE {h \in Resources \ Unsettled : mir[h] # 0 \/ h \in published}

Publish ==
  /\ pc = "publish"
  /\ Push([h \in {r \in PushSet : mir[r] # 0 \/ snap[r] # 0} |-> mir[h]])
  /\ view' = truth' /\ busy' = Unsettled
  /\ Phase("journal", Resources \ Unsettled)
  /\ UNCHANGED <<clock, faults, serverVars, ownVars, mirrorVars, born, made>>

(* A record with an imported identity is never a new local one.            *)
Known(h) == h \in published \cup alias \cup imported

LocalDeletion(h) == view[h] = 0 /\ snap[h] # 0

Unchanged(h) ==
  \/ mir[h] = view[h]
  \/ mir[h] # 0 /\ view[h] = 0 /\ ~LocalDeletion(h)   \* missing-native-delete-receipt
  \/ mir[h] = 0 /\ Known(h)

Journal(h) ==
  /\ pc = "journal" /\ h \in todo
  /\ IF Unchanged(h) THEN UNCHANGED op
     ELSE op' = [op EXCEPT ![h] = IF mir[h] = 0 THEN NewOp("create", 0, 0, view[h])
                                  ELSE NewOp(Kind(view[h]), 1, mir[h], view[h])]
  /\ Skipped(h)
  /\ UNCHANGED <<clock, faults, serverVars, engineVars, published, alias, mirrorVars, born, made, view, busy>>

(* RCTwoWaySavePublished, after the session has closed: busy records keep  *)
(* what the last checkpoint said of them.                                  *)
SavePublished ==
  /\ pc = "journal" /\ todo = {}
  /\ published' = {h \in Resources : IF h \in busy THEN h \in published ELSE mir[h] # 0}
  /\ Phase("rewrites", InState("queued"))
  /\ UNCHANGED <<clock, faults, serverVars, engineVars, alias, op, mirrorVars, born, made, view, busy>>

-----------------------------------------------------------------------------

Daemon ==
  \/ StartPass \/ WritesDone \/ Fetched \/ Send \/ Check
  \/ Accept \/ Acknowledge \/ QueueSuccessor \/ AwaitAcceptance \/ CompleteDone
  \/ SaveResolution \/ ResolutionRefused \/ RecoverDone \/ Publish \/ SavePublished
  \/ \E h \in Resources : Look(h) \/ CompleteAlias(h) \/ ConflictAttention(h)
                          \/ ResolveResourceConflict(h) \/ Journal(h)

Edits == \E h \in Resources : LocalEdit(h) \/ LocalDelete(h) \/ RemoteEdit(h) \/ RemoteDelete(h)

Faults ==
  Interrupted \/ AcceptFailed \/ \E h \in Resources : AwaitMirror(h) \/ ConflictPending(h)

Next == Daemon \/ Edits \/ Faults

Spec == Init /\ [][Next]_vars

(* The worker polls for ever; edits and faults are bounded.                *)
FairSpec == Spec /\ WF_vars(Daemon)

-----------------------------------------------------------------------------
(* Properties.                                                             *)

Contents == 0 .. MaxClock

Operations ==
  [kind : {"none", "create", "update", "delete"}, revision : {0, 1}, base : Contents, body : Contents,
   state : {"none", "queued", "applied", "conflict"}, result : Contents]

(* Types, and a place within a task exactly while there is a task.         *)
TypeOK ==
  /\ clock \in Contents /\ faults \in 0 .. MaxFaults
  /\ srv \in [Resources -> Contents] /\ truth \in [Resources -> Contents]
  /\ snap \in [Resources -> Contents] /\ mir \in [Resources -> Contents]
  /\ view \in [Resources -> Contents]
  /\ imported \subseteq Resources /\ published \subseteq Resources /\ alias \subseteq Resources
  /\ busy \subseteq Resources /\ todo \subseteq Resources
  /\ op \in [Resources -> Operations]
  /\ born \in [Resources -> {"none", "local", "server"}]
  /\ pc \in {"idle", "writes", "fetch", "complete", "recover", "publish", "journal", "rewrites"}
  /\ cur \in Resources \cup {NoResource} /\ (cur = NoResource) = (at = "none")
  /\ at \in {"none", "send", "check", "refused", "aliased", "accepted", "resolved"}
  /\ stored \subseteq Resources \X Contents /\ lost \subseteq Resources \X Contents
  /\ made \subseteq Contents \ {0} /\ seen \subseteq Contents

(* A local edit leaves the truth only by a later edit of the user, by the  *)
(* engine's decision of a conflict, or after the server has held it.       *)
LocalEditKept(h) ==
  truth[h] \in made /\ truth'[h] # truth[h] => <<h, truth[h]>> \in stored \cup lost'

(* What an upload overwrites is the user's own earlier upload or a         *)
(* revision the engine was shown when it decided what to upload.           *)
OverwritesOnlySeen(h) ==
  srv[h] # 0 /\ srv'[h] # srv[h] => srv[h] \in seen \cup made

(* What other clients deleted comes back only as an edit made here that    *)
(* was never accepted.                                                     *)
NotResurrected(h) ==
  srv[h] = 0 /\ srv'[h] # 0 => srv'[h] \in made /\ srv'[h] # snap[h]

(* No order of edits, uploads, crashes and replays buries an edit of       *)
(* either side: an acceptance (RCSyncAcceptMappedUpload) or a publication  *)
(* replaces no local edit nobody saw, and a replay or a successor, which   *)
(* never refreshes a precondition (RCSyncServicesBackend.m:21,             *)
(* RCTwoWaySync.m:306), no revision or deletion of another client.         *)
NoEditBuried ==
  [][clock' = clock =>
       \A h \in Resources : LocalEditKept(h) /\ OverwritesOnlySeen(h) /\ NotResurrected(h)]_vars

Settled(h) == op[h] = NoOp /\ truth[h] = srv[h] /\ mir[h] = srv[h] /\ snap[h] = srv[h]

(* What the code leaves for the user: a creation that met a resource since *)
(* deleted, a newer edit of an upload since deleted, a verified deletion   *)
(* of what another client restored, an edit the engine preferred to a      *)
(* deletion when no operation carried it, and, while any of these is       *)
(* unresolved, a record deleted on the server that the checkpoint does not *)
(* know.                                                                   *)
NeedsAttention(h) ==
  \/ op[h].state = "conflict" /\ ~Recoverable(h)
  \/ op[h].state = "applied" /\ mir[h] = 0 /\ truth[h] # op[h].body
  \/ op[h].state = "applied" /\ mir[h] # 0 /\ op[h].kind = "delete"
  \/ op[h] = NoOp /\ mir[h] = 0 /\ truth[h] # 0 /\ <<h, 0>> \in lost
  \/ op[h] = NoOp /\ mir[h] = 0 /\ truth[h] # 0 /\ Unsettled # {} /\ h \notin published

(* A deletion decided for the update that replaced a creation: the journal *)
(* refuses it in every pass (RCWriteJournal.c:313).                        *)
DecisionRefused ==
  \E h \in Resources : op[h].state = "conflict" /\ Recoverable(h) /\ ~Usable(h, truth[h])

(* Once edits and faults end, every record comes to rest: server, mirror,  *)
(* truth and snapshot agree and nothing is queued, or the record is one    *)
(* the code leaves for the user.  Repeated conflicts do not chase each     *)
(* other for ever.  A refused decision ends every later pass before the    *)
(* mirror is published: then edits wait unjournaled and conflicts          *)
(* unresolved, but what was queued has still been uploaded and completed.  *)
ComesToRest ==
  \A h \in Resources :
    <>[]( \/ Settled(h) \/ NeedsAttention(h)
          \/ DecisionRefused /\ op[h].state \in {"none", "conflict"} )
=============================================================================
