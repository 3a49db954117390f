-------------------------- MODULE SyncServicesProofs -------------------------
(***************************************************************************)
(* NoEditBuried holds of the exchange through Sync Services, for any       *)
(* number of resources, edits and faults, and whatever the engine decides. *)
(*                                                                         *)
(* Three chains of facts carry it.  The engine's snapshot only ever holds  *)
(* what the server has held (StoredInv), and only the user takes the truth *)
(* away from the snapshot (TruthInv): so a push, which replaces a record   *)
(* that equals its snapshot, replaces nothing the server did not have.     *)
(* What an operation is conditional on was in the engine when the          *)
(* operation was decided (ShownInv).  And an operation that creates does   *)
(* so for a record no snapshot has (UploadInv), because a snapshot of a    *)
(* resource implies that its identity is known, or that its operation is   *)
(* not settled yet (KnownInv).                                             *)
(*                                                                         *)
(* Last, FieldsAgreeWithRecord of the comparison of records: within a      *)
(* scope only its fields count, and as in the whole record (EqualInScope). *)
(***************************************************************************)
EXTENDS SyncServices, RecordEquality, TLAPS

(* The server had content c of h, or it is none. *)
Held(h, c) == c = 0 \/ <<h, c>> \in stored

(* The engine had content c, or it is none. *)
Shown(c) == c = 0 \/ c \in seen \cup made

(* Content c of h is the user's, unless the snapshot has it. *)
Own(h, c) == c \in made \cup {0, snap[h]}

(* What a phase works through, and what a step in a task works on. *)
WorkInv ==
  /\ cur \notin todo
  /\ pc \in {"writes", "rewrites"} => todo \subseteq InState("queued")
  /\ pc = "complete" => todo \subseteq InState("applied")
  /\ pc = "recover" => todo \subseteq InState("conflict")
  /\ pc = "journal" => todo \cap Unsettled = {}
  /\ at \in {"send", "check", "refused"} => pc \in {"writes", "rewrites"} /\ op[cur].state = "queued"
  /\ at \in {"aliased", "accepted"} => pc = "complete" /\ op[cur].state = "applied"
  /\ at = "resolved" => pc = "recover" /\ op[cur].state = "conflict"

ShapeInv ==
  \A h \in Resources :
    /\ op[h].state = "none" => op[h] = NoOp
    /\ op[h] # NoOp => (op[h].kind = "delete" <=> op[h].body = 0)

StoredInv ==
  \A h \in Resources :
    /\ Held(h, srv[h]) /\ Held(h, mir[h]) /\ Held(h, snap[h]) /\ Held(h, op[h].result)
    /\ op[h].state = "applied" => Held(h, op[h].body)

TruthInv ==
  /\ \A h \in Resources : Own(h, truth[h])
  /\ pc = "journal" => \A h \in todo : Own(h, view[h])
  /\ at = "resolved" => Own(cur, view[cur]) /\ snap[cur] = op[cur].result

ShownInv ==
  /\ \A h \in Resources : Shown(snap[h]) /\ Shown(view[h]) /\ Shown(op[h].base) /\ Shown(op[h].body)
  /\ pc = "journal" => \A h \in todo : Shown(mir[h])

KnownInv ==
  /\ \A h \in Resources : /\ mir[h] # 0 => h \in imported
                          /\ snap[h] # 0 => h \in imported \cup alias \/ op[h] # NoOp
  /\ at \in {"aliased", "accepted"} /\ op[cur].kind # "delete" => cur \in alias
  /\ at = "accepted" => snap[cur] = op[cur].body

UploadInv ==
  \A h \in Resources :
    op[h].state = "queued" /\ op[h].base = 0 /\ op[h].body # 0 => op[h].body \in made \ {snap[h]}

ExchangeInv ==
  TypeOK /\ WorkInv /\ ShapeInv /\ StoredInv /\ TruthInv /\ ShownInv /\ KnownInv /\ UploadInv

-----------------------------------------------------------------------------
(* Types. *)

LEMMA Types ==
  ASSUME TypeOK, NEW h \in Resources
  PROVE  /\ srv[h] \in Contents /\ truth[h] \in Contents /\ snap[h] \in Contents
         /\ mir[h] \in Contents /\ view[h] \in Contents /\ 0 \in Contents
         /\ op[h] \in Operations
         /\ op[h].base \in Contents /\ op[h].body \in Contents /\ op[h].result \in Contents
         /\ op[h].revision \in {0, 1}
         /\ op[h].kind \in {"none", "create", "update", "delete"}
         /\ op[h].state \in {"none", "queued", "applied", "conflict"}
  BY SyncServicesConstants DEF TypeOK, Contents, Operations

LEMMA NewOpFacts ==
  ASSUME NEW k \in {"create", "update", "delete"}, NEW rev \in {0, 1},
         NEW base \in Contents, NEW body \in Contents
  PROVE  LET o == NewOp(k, rev, base, body) IN
         /\ o \in Operations /\ o # NoOp
         /\ o.kind = k /\ o.base = base /\ o.body = body /\ o.state = "queued" /\ o.result = 0
  BY SyncServicesConstants DEF NewOp, NoOp, Operations, Contents

LEMMA FaultCounts ==
  ASSUME TypeOK, Fault
  PROVE  faults' \in 0 .. MaxFaults
  BY SyncServicesConstants DEF TypeOK, Fault

LEMMA NoOpFacts ==
  /\ NoOp \in Operations /\ NoOp.kind = "none" /\ NoOp.state = "none"
  /\ NoOp.base = 0 /\ NoOp.body = 0 /\ NoOp.result = 0
  BY SyncServicesConstants DEF NoOp, Operations, Contents

LEMMA KindFacts ==
  ASSUME NEW c
  PROVE  Kind(c) \in {"create", "update", "delete"} /\ (Kind(c) = "delete" <=> c = 0)
  BY DEF Kind

(* An operation in a state is one. *)
LEMMA InStateFacts ==
  ASSUME NEW s \in {"queued", "applied", "conflict"}, NEW h \in InState(s)
  PROVE  h \in Resources /\ op[h].state = s /\ op[h] # NoOp
  BY NoOpFacts DEF InState

-----------------------------------------------------------------------------
(* Steps that only move on in the pass. *)

Kept == <<srv, stored, truth, snap, seen, lost, alias, op, mir, imported, made, view>>

LEMMA PassMoves ==
  ASSUME ExchangeInv, TypeOK', WorkInv', UNCHANGED Kept,
         pc' = "journal" => pc = "journal" /\ todo' \subseteq todo,
         at' \in {"aliased", "accepted", "resolved"} => at' = at /\ cur' = cur
  PROVE  ExchangeInv'
<1> USE DEF ExchangeInv
<1>1. UNCHANGED <<srv, stored, truth, snap, seen, lost, alias, op, mir, imported, made, view>>
  BY DEF Kept
<1>2. StoredInv' /\ ShapeInv' /\ UploadInv'
  BY <1>1 DEF StoredInv, ShapeInv, UploadInv, Held
<1>3. TruthInv'
  BY <1>1 DEF TruthInv, Own
<1>4. ShownInv'
  BY <1>1 DEF ShownInv, Shown
<1>5. KnownInv'
  BY <1>1 DEF KnownInv
<1> QED
  BY <1>2, <1>3, <1>4, <1>5

LEMMA PhaseBegins ==
  ASSUME ExchangeInv, NEW p, NEW work, Phase(p, work), UNCHANGED Kept,
         p \in {"idle", "writes", "fetch", "complete", "recover", "publish", "rewrites"},
         p \in {"writes", "rewrites"} => work \subseteq InState("queued"),
         p = "complete" => work \subseteq InState("applied"),
         p = "recover" => work \subseteq InState("conflict"),
         work \subseteq Resources, published' \subseteq Resources,
         faults' \in 0 .. MaxFaults,
         UNCHANGED <<clock, born, busy>>
  PROVE  ExchangeInv'
<1>1. pc' = p /\ todo' = work /\ cur' = NoResource /\ at' = "none"
      /\ UNCHANGED <<srv, stored, truth, snap, seen, lost, alias, op, mir, imported, made, view>>
  BY DEF Phase, Kept
<1>2. TypeOK'
  BY <1>1 DEF ExchangeInv, TypeOK
<1>3. WorkInv'
  BY <1>1, SyncServicesConstants DEF WorkInv, InState
<1> QED
  BY <1>1, <1>2, <1>3, PassMoves

LEMMA StartPassStep == ASSUME ExchangeInv, StartPass PROVE ExchangeInv'
<1>1. InState("queued") \subseteq Resources
  BY DEF InState
<1> QED
  BY <1>1, PhaseBegins DEF StartPass, ExchangeInv, TypeOK, serverVars, engineVars, ownVars, mirrorVars, Kept

LEMMA WritesDoneStep == ASSUME ExchangeInv, WritesDone PROVE ExchangeInv'
  BY PhaseBegins DEF WritesDone, ExchangeInv, TypeOK, serverVars, engineVars, ownVars, mirrorVars, Kept

LEMMA InterruptedStep == ASSUME ExchangeInv, Interrupted PROVE ExchangeInv'
<1>1. faults' \in 0 .. MaxFaults
  BY FaultCounts DEF Interrupted, ExchangeInv
<1> QED
  BY <1>1, PhaseBegins DEF Interrupted, ExchangeInv, TypeOK, serverVars, engineVars, ownVars, mirrorVars, Kept

LEMMA CompleteDoneStep == ASSUME ExchangeInv, CompleteDone PROVE ExchangeInv'
<1>1. InState("conflict") \subseteq Resources
  BY DEF InState
<1> QED
  BY <1>1, PhaseBegins
  DEF CompleteDone, ExchangeInv, TypeOK, serverVars, engineVars, ownVars, mirrorVars, Kept

LEMMA RecoverDoneStep == ASSUME ExchangeInv, RecoverDone PROVE ExchangeInv'
  BY PhaseBegins DEF RecoverDone, ExchangeInv, TypeOK, serverVars, engineVars, ownVars, mirrorVars, Kept

LEMMA ResolutionRefusedStep == ASSUME ExchangeInv, ResolutionRefused PROVE ExchangeInv'
  BY PhaseBegins DEF ResolutionRefused, ExchangeInv, TypeOK, serverVars, engineVars, ownVars, mirrorVars, Kept

LEMMA SavePublishedStep == ASSUME ExchangeInv, SavePublished PROVE ExchangeInv'
<1>1. InState("queued") \subseteq Resources /\ published' \subseteq Resources
  BY DEF InState, SavePublished
<1> QED
  BY <1>1, PhaseBegins DEF SavePublished, ExchangeInv, TypeOK, serverVars, engineVars, mirrorVars, Kept

LEMMA TaskEnds ==
  ASSUME ExchangeInv, NextTask, UNCHANGED Kept, faults' \in 0 .. MaxFaults,
         UNCHANGED <<clock, published, born, busy>>
  PROVE  ExchangeInv'
<1>1. /\ cur' = NoResource /\ at' = "none"
      /\ UNCHANGED <<clock, srv, stored, truth, snap, seen, lost, published, alias, op, mir, imported,
                     born, made, view, busy, pc, todo>>
  BY DEF NextTask, Kept
<1>2. TypeOK'
  BY <1>1 DEF ExchangeInv, TypeOK
<1>3. WorkInv'
  BY <1>1, SyncServicesConstants DEF ExchangeInv, TypeOK, WorkInv, InState, Unsettled
<1> QED
  BY <1>1, <1>2, <1>3, PassMoves

LEMMA ResourceSkipped ==
  ASSUME ExchangeInv, NEW h \in Resources, Skipped(h), UNCHANGED Kept, faults' \in 0 .. MaxFaults,
         UNCHANGED <<clock, published, born, busy>>
  PROVE  ExchangeInv'
<1>1. /\ todo' = todo \ {h} /\ UNCHANGED <<pc, cur, at>>
      /\ UNCHANGED <<clock, srv, stored, truth, snap, seen, lost, published, alias, op, mir, imported,
                     born, made, view, busy>>
  BY DEF Skipped, Kept
<1>2. TypeOK'
  BY <1>1 DEF ExchangeInv, TypeOK
<1>3. WorkInv'
  BY <1>1 DEF ExchangeInv, WorkInv, InState, Unsettled
<1> QED
  BY <1>1, <1>2, <1>3, PassMoves

LEMMA AwaitAcceptanceStep == ASSUME ExchangeInv, AwaitAcceptance PROVE ExchangeInv'
  BY TaskEnds DEF AwaitAcceptance, ExchangeInv, TypeOK, serverVars, engineVars, ownVars, mirrorVars, Kept

LEMMA ConflictAttentionStep ==
  ASSUME ExchangeInv, NEW h \in Resources, ConflictAttention(h)
  PROVE  ExchangeInv'
  BY ResourceSkipped
  DEF ConflictAttention, ExchangeInv, TypeOK, serverVars, engineVars, ownVars, mirrorVars, Kept

LEMMA AwaitMirrorStep ==
  ASSUME ExchangeInv, NEW h \in Resources, AwaitMirror(h)
  PROVE  ExchangeInv'
  BY ResourceSkipped, FaultCounts
  DEF AwaitMirror, ExchangeInv, serverVars, engineVars, ownVars, mirrorVars, Kept

-----------------------------------------------------------------------------
(* Steps that replace one operation. *)

Settling == <<clock, faults, srv, stored, truth, snap, seen, lost, published, mir, imported, born,
              made, view, busy>>

LEMMA OpReplaced ==
  ASSUME ExchangeInv, NEW h \in Resources, NEW o \in Operations,
         op' = [op EXCEPT ![h] = o], UNCHANGED <<Settling, alias>>,
         pc' = pc, todo' \subseteq todo, h \notin todo', cur' = NoResource, at' = "none",
         o.state = "none" => o = NoOp,
         o # NoOp => (o.kind = "delete" <=> o.body = 0),
         Held(h, o.result), o.state = "applied" => Held(h, o.body), Shown(o.base), Shown(o.body),
         snap[h] # 0 => h \in imported \cup alias \/ o # NoOp,
         o.state = "queued" /\ o.base = 0 /\ o.body # 0 => o.body \in made \ {snap[h]}
  PROVE  ExchangeInv'
<1> USE DEF ExchangeInv
<1>1. UNCHANGED <<clock, faults, srv, stored, truth, snap, seen, lost, published, mir, imported, born,
                  made, view, busy, alias, pc>>
  BY DEF Settling
<1>2. op'[h] = o /\ \A g \in Resources \ {h} : op'[g] = op[g]
  BY DEF TypeOK
<1>3. TypeOK'
  <2>1. op' \in [Resources -> Operations]
    BY DEF TypeOK
  <2> QED
    BY <1>1, <2>1 DEF TypeOK
<1>4. WorkInv'
  <2>1. todo' \subseteq Resources /\ \A g \in todo' : g # h /\ op'[g] = op[g]
    BY <1>2 DEF TypeOK
  <2>2. \A s : todo \subseteq InState(s) => todo' \subseteq InState(s)'
    BY <2>1 DEF InState
  <2>3. todo \cap Unsettled = {} => todo' \cap Unsettled' = {}
    BY <2>1 DEF Unsettled
  <2> QED
    BY <1>1, <2>1, <2>2, <2>3, SyncServicesConstants DEF WorkInv
<1>5. ShapeInv'
  BY <1>2 DEF ShapeInv
<1>6. StoredInv'
  <2>1. ASSUME NEW g \in Resources
        PROVE  /\ Held(g, op'[g].result)
               /\ op'[g].state = "applied" => Held(g, op'[g].body)
    BY <1>2 DEF StoredInv
  <2> QED
    BY <1>1, <2>1 DEF StoredInv, Held
<1>7. TruthInv'
  BY <1>1 DEF TruthInv, Own
<1>8. ShownInv'
  BY <1>1, <1>2 DEF ShownInv, Shown
<1>9. KnownInv'
  BY <1>1, <1>2 DEF KnownInv
<1>10. UploadInv'
  BY <1>1, <1>2 DEF UploadInv
<1> QED
  BY <1>3, <1>4, <1>5, <1>6, <1>7, <1>8, <1>9, <1>10

LEMMA Recorded ==
  ASSUME ExchangeInv, NEW h \in Resources, op[h].state = "queued",
         NEW s \in {"applied", "conflict"}, Record(h, s), UNCHANGED <<Settling, alias>>,
         s = "applied" => srv[h] = op[h].body,
         pc' = pc, todo' \subseteq todo, h \notin todo', cur' = NoResource, at' = "none"
  PROVE  ExchangeInv'
<1> USE DEF ExchangeInv
<1>1. PICK o \in Operations : /\ o = [op[h] EXCEPT !.state = s, !.result = srv[h]]
                              /\ o.state = s /\ o.result = srv[h] /\ o.kind = op[h].kind
                              /\ o.base = op[h].base /\ o.body = op[h].body
  <2>1. op[h] \in Operations /\ srv[h] \in Contents
    BY Types
  <2>2. ASSUME NEW r \in Operations, NEW c \in Contents
        PROVE  LET o == [r EXCEPT !.state = s, !.result = c] IN
               /\ o \in Operations /\ o.state = s /\ o.result = c /\ o.kind = r.kind
               /\ o.base = r.base /\ o.body = r.body
    BY DEF Operations
  <2> QED
    BY <2>1, <2>2
<1>2. op' = [op EXCEPT ![h] = o]
  BY <1>1 DEF Record, TypeOK
<1>3. op[h] # NoOp /\ o # NoOp
  BY <1>1, NoOpFacts
<1>4. Held(h, srv[h]) /\ Shown(op[h].base) /\ Shown(op[h].body)
  BY DEF StoredInv, ShownInv
<1>5. o.kind = "delete" <=> o.body = 0
  BY <1>1, <1>3 DEF ShapeInv
<1> QED
  BY <1>1, <1>2, <1>3, <1>4, <1>5, OpReplaced

LEMMA LookStep ==
  ASSUME ExchangeInv, NEW h \in Resources, Look(h)
  PROVE  ExchangeInv'
<1> USE DEF ExchangeInv
<1>1. /\ pc \in {"writes", "rewrites"} /\ cur = NoResource /\ at = "none" /\ h \in todo
      /\ UNCHANGED <<Settling, alias>>
      /\ op[h].state = "queued"
  BY DEF Look, Between, TypeOK, WorkInv, InState, Settling, serverVars, engineVars, mirrorVars
<1>2. CASE srv[h] = op[h].body /\ Record(h, "applied") /\ Skipped(h)
  <2>1. todo' \subseteq todo /\ h \notin todo' /\ pc' = pc /\ cur' = NoResource /\ at' = "none"
    BY <1>1, <1>2 DEF Skipped
  <2> QED
    BY <1>1, <1>2, <2>1, Recorded
<1>3. CASE Record(h, "conflict") /\ Skipped(h)
  <2>1. todo' \subseteq todo /\ h \notin todo' /\ pc' = pc /\ cur' = NoResource /\ at' = "none"
    BY <1>1, <1>3 DEF Skipped
  <2> QED
    BY <1>1, <1>3, <2>1, Recorded
<1>4. CASE Task(h, "send") /\ UNCHANGED op
  <2>1. /\ cur' = h /\ at' = "send" /\ todo' = todo \ {h} /\ pc' = pc /\ op' = op
        /\ UNCHANGED <<clock, faults, srv, stored, truth, snap, seen, lost, published, mir, imported, born,
                       made, view, busy, alias>>
    BY <1>1, <1>4 DEF Task, Settling
  <2>2. TypeOK'
    BY <2>1, SyncServicesConstants DEF TypeOK
  <2>3. WorkInv'
    BY <1>1, <2>1 DEF WorkInv, InState
  <2> QED
    BY <2>1, <2>2, <2>3, PassMoves DEF Kept
<1> QED
  BY <1>2, <1>3, <1>4 DEF Look

LEMMA CheckStep == ASSUME ExchangeInv, Check PROVE ExchangeInv'
<1> USE DEF ExchangeInv
<1>1. /\ at \in {"check", "refused"} /\ cur \in Resources /\ cur \notin todo /\ op[cur].state = "queued"
      /\ UNCHANGED <<Settling, alias, pc, todo>> /\ cur' = NoResource /\ at' = "none"
  BY DEF Check, NextTask, TypeOK, WorkInv, Settling, serverVars, engineVars, mirrorVars
<1>2. CASE at = "check" /\ srv[cur] = op[cur].body
  BY <1>1, <1>2, Recorded DEF Check
<1>3. CASE ~(at = "check" /\ srv[cur] = op[cur].body)
  BY <1>1, <1>3, Recorded DEF Check
<1> QED
  BY <1>2, <1>3

LEMMA AcknowledgeStep == ASSUME ExchangeInv, Acknowledge PROVE ExchangeInv'
<1> USE DEF ExchangeInv
<1>1. /\ at = "accepted" /\ cur \in Resources /\ cur \notin todo /\ op[cur].state = "applied"
      /\ op' = [op EXCEPT ![cur] = NoOp]
      /\ UNCHANGED <<Settling, alias, pc, todo>> /\ cur' = NoResource /\ at' = "none"
  BY DEF Acknowledge, NextTask, TypeOK, WorkInv, Settling, serverVars, engineVars, mirrorVars
<1>2. snap[cur] # 0 => cur \in alias
  BY <1>1, NoOpFacts DEF KnownInv, ShapeInv
<1>3. Held(cur, 0) /\ Shown(0)
  BY DEF Held, Shown
<1> QED
  BY <1>1, <1>2, <1>3, NoOpFacts, OpReplaced

LEMMA QueueSuccessorStep == ASSUME ExchangeInv, QueueSuccessor PROVE ExchangeInv'
<1> USE DEF ExchangeInv
<1>1. /\ at = "aliased" /\ cur \in Resources /\ cur \notin todo /\ op[cur].state = "applied"
      /\ op[cur].kind # "delete" /\ op' = [op EXCEPT ![cur] = Successor(cur)]
      /\ UNCHANGED <<Settling, alias, pc, todo>> /\ cur' = NoResource /\ at' = "none"
  BY DEF QueueSuccessor, NextTask, TypeOK, WorkInv, Settling, serverVars, engineVars, mirrorVars
<1>2. op[cur].body \in Contents /\ truth[cur] \in Contents /\ op[cur].body # 0 /\ 1 \in {0, 1}
  BY <1>1, NoOpFacts, Types DEF ShapeInv
<1>3. PICK o \in Operations :
        /\ o = Successor(cur) /\ o # NoOp /\ o.state = "queued" /\ o.result = 0
        /\ o.base = op[cur].body /\ o.body = truth[cur] /\ (o.kind = "delete" <=> o.body = 0)
  BY <1>2, KindFacts, NewOpFacts DEF Successor
<1>4. Held(cur, 0) /\ Shown(op[cur].body) /\ Shown(truth[cur])
  BY <1>1 DEF Held, Shown, ShownInv, TruthInv, Own
<1> QED
  BY <1>1, <1>2, <1>3, <1>4, OpReplaced

LEMMA SaveResolutionStep == ASSUME ExchangeInv, SaveResolution PROVE ExchangeInv'
<1> USE DEF ExchangeInv
<1>1. /\ at = "resolved" /\ cur \in Resources /\ cur \notin todo
      /\ op' = [op EXCEPT ![cur] = Resolution(cur)]
      /\ UNCHANGED <<Settling, alias, pc, todo>> /\ cur' = NoResource /\ at' = "none"
  BY DEF SaveResolution, NextTask, TypeOK, WorkInv, Settling, serverVars, engineVars, mirrorVars
<1>2. /\ op[cur].base \in Contents /\ op[cur].result \in Contents /\ view[cur] \in Contents /\ 0 \in Contents
      /\ op[cur].revision \in {0, 1} /\ snap[cur] = op[cur].result /\ Own(cur, view[cur])
  BY <1>1, Types DEF TruthInv
<1>3. Held(cur, 0) /\ Shown(0) /\ Shown(snap[cur]) /\ Shown(view[cur]) /\ Shown(op[cur].base)
  BY <1>1 DEF Held, Shown, ShownInv
<1>4. PICK k \in {"create", "update", "delete"}, rev \in {0, 1}, base \in Contents :
        /\ Resolution(cur) = NewOp(k, rev, base, view[cur])
        /\ k = "delete" <=> view[cur] = 0
        /\ base \in {op[cur].result, op[cur].base}
        /\ base = 0 /\ view[cur] # 0 => op[cur].result = 0
  BY <1>2, KindFacts DEF Resolution
<1>5. PICK o \in Operations :
        /\ o = Resolution(cur) /\ o # NoOp /\ o.state = "queued" /\ o.result = 0
        /\ o.base = base /\ o.body = view[cur] /\ (o.kind = "delete" <=> o.body = 0)
  BY <1>2, <1>4, NewOpFacts
<1>6. base = 0 /\ view[cur] # 0 => view[cur] \in made \ {snap[cur]}
  BY <1>2, <1>4 DEF Own
<1> QED
  BY <1>1, <1>2, <1>3, <1>4, <1>5, <1>6, OpReplaced

LEMMA JournalStep ==
  ASSUME ExchangeInv, NEW h \in Resources, Journal(h)
  PROVE  ExchangeInv'
<1> USE DEF ExchangeInv
<1>1. /\ pc = "journal" /\ h \in todo /\ at = "none" /\ cur = NoResource
      /\ todo' = todo \ {h} /\ UNCHANGED <<Settling, alias, pc>> /\ cur' = NoResource /\ at' = "none"
  BY DEF Journal, Skipped, TypeOK, WorkInv, Settling, serverVars, engineVars, mirrorVars
<1>2. op[h] = NoOp
  BY <1>1 DEF WorkInv, Unsettled
<1>3. /\ mir[h] \in Contents /\ view[h] \in Contents /\ 0 \in Contents /\ Own(h, view[h])
      /\ Shown(mir[h]) /\ Shown(view[h]) /\ Shown(0) /\ Held(h, 0)
  BY <1>1, Types DEF TruthInv, ShownInv, Shown, Held
<1>4. CASE Unchanged(h)
  <2>1. op' = [op EXCEPT ![h] = NoOp]
    BY <1>1, <1>2, <1>4 DEF Journal, TypeOK
  <2>2. snap[h] # 0 => h \in imported \cup alias
    BY <1>2 DEF KnownInv
  <2> QED
    BY <1>1, <1>3, <2>1, <2>2, NoOpFacts, OpReplaced
<1>5. CASE ~Unchanged(h) /\ mir[h] = 0
  <2>1. view[h] # 0 /\ h \notin imported \cup alias
    BY <1>5 DEF Unchanged, Known
  <2>2. snap[h] = 0 /\ view[h] \in made \ {snap[h]}
    BY <1>2, <1>3, <2>1 DEF KnownInv, Own
  <2>3. PICK o \in Operations :
          /\ o = NewOp("create", 0, 0, view[h]) /\ o # NoOp /\ o.state = "queued" /\ o.result = 0
          /\ o.base = 0 /\ o.body = view[h] /\ o.kind = "create"
    BY <1>3, NewOpFacts
  <2>4. op' = [op EXCEPT ![h] = o]
    BY <1>5, <2>3 DEF Journal
  <2> QED
    BY <1>1, <1>3, <2>1, <2>2, <2>3, <2>4, OpReplaced
<1>6. CASE ~Unchanged(h) /\ mir[h] # 0
  <2>1. PICK o \in Operations :
          /\ o = NewOp(Kind(view[h]), 1, mir[h], view[h]) /\ o # NoOp /\ o.state = "queued" /\ o.result = 0
          /\ o.base = mir[h] /\ o.body = view[h] /\ (o.kind = "delete" <=> o.body = 0)
    BY <1>3, KindFacts, NewOpFacts
  <2>2. op' = [op EXCEPT ![h] = o]
    BY <1>6, <2>1 DEF Journal
  <2> QED
    BY <1>1, <1>3, <1>6, <2>1, <2>2, OpReplaced
<1> QED
  BY <1>4, <1>5, <1>6

-----------------------------------------------------------------------------
(* The user, the server, the mirror and an acceptance. *)

LEMMA LocalChange ==
  ASSUME ExchangeInv, NEW h \in Resources, NEW c \in Contents,
         truth' = [truth EXCEPT ![h] = c], made \subseteq made', made' \subseteq Contents \ {0},
         c \in made' \cup {0}, clock' \in Contents, born' \in [Resources -> {"none", "local", "server"}],
         UNCHANGED <<faults, serverVars, snap, seen, lost, ownVars, mirrorVars, passVars>>
  PROVE  ExchangeInv'
<1> USE DEF ExchangeInv
<1>1. UNCHANGED <<faults, srv, stored, snap, seen, lost, published, alias, op, mir, imported, pc, todo,
                  cur, at, view, busy>>
  BY DEF serverVars, ownVars, mirrorVars, passVars
<1>2. truth'[h] = c /\ \A g \in Resources \ {h} : truth'[g] = truth[g]
  BY DEF TypeOK
<1>3. TypeOK'
  <2>1. truth' \in [Resources -> Contents]
    BY DEF TypeOK
  <2> QED
    BY <1>1, <2>1 DEF TypeOK
<1>4. WorkInv' /\ ShapeInv' /\ KnownInv'
  BY <1>1 DEF WorkInv, ShapeInv, KnownInv, InState, Unsettled
<1>5. StoredInv'
  BY <1>1 DEF StoredInv, Held
<1>6. TruthInv'
  BY <1>1, <1>2 DEF TruthInv, Own
<1>7. ShownInv' /\ UploadInv'
  BY <1>1 DEF ShownInv, UploadInv, Shown
<1> QED
  BY <1>3, <1>4, <1>5, <1>6, <1>7

LEMMA Ticks ==
  ASSUME TypeOK, Tick
  PROVE  clock' \in Contents /\ clock' # 0 /\ clock' # clock
  BY SyncServicesConstants DEF TypeOK, Tick, Contents

LEMMA LocalStep ==
  ASSUME ExchangeInv, NEW h \in Resources, LocalEdit(h) \/ LocalDelete(h)
  PROVE  ExchangeInv'
<1>1. clock' \in Contents /\ 0 \in Contents /\ made \subseteq Contents \ {0}
  BY Ticks, SyncServicesConstants DEF LocalEdit, LocalDelete, ExchangeInv, TypeOK, Contents
<1>2. born' \in [Resources -> {"none", "local", "server"}]
  BY DEF LocalEdit, LocalDelete, ExchangeInv, TypeOK
<1>3. CASE LocalEdit(h)
  <2>1. truth' = [truth EXCEPT ![h] = clock'] /\ made' = made \cup {clock'} /\ clock' # 0
    BY <1>3, Ticks DEF LocalEdit, ExchangeInv
  <2>2. made \subseteq made' /\ made' \subseteq Contents \ {0} /\ clock' \in made' \cup {0}
    BY <1>1, <2>1
  <2> QED
    BY <1>1, <1>2, <1>3, <2>1, <2>2, LocalChange DEF LocalEdit
<1>4. CASE LocalDelete(h)
  BY <1>1, <1>2, <1>4, LocalChange DEF LocalDelete
<1> QED
  BY <1>3, <1>4

(* What the server held stays known. *)
LEMMA ServerMoves ==
  ASSUME ExchangeInv, TypeOK', WorkInv', NEW h \in Resources, NEW c \in Contents,
         srv' = [srv EXCEPT ![h] = c], stored \subseteq stored', c = 0 \/ <<h, c>> \in stored',
         pc' = pc, todo' = todo, cur' = cur, at' = at \/ at' \in {"check", "refused"},
         UNCHANGED <<engineVars, ownVars, mirrorVars, made, view>>
  PROVE  ExchangeInv'
<1> USE DEF ExchangeInv
<1>1. UNCHANGED <<truth, snap, seen, lost, published, alias, op, mir, imported, made, view, pc, todo, cur>>
  BY DEF engineVars, ownVars, mirrorVars
<1>2. srv'[h] = c /\ \A g \in Resources \ {h} : srv'[g] = srv[g]
  BY DEF TypeOK
<1>3. ShapeInv' /\ KnownInv'
  BY <1>1 DEF ShapeInv, KnownInv
<1>4. StoredInv'
  BY <1>1, <1>2 DEF StoredInv, Held
<1>5. TruthInv' /\ ShownInv' /\ UploadInv'
  BY <1>1 DEF TruthInv, ShownInv, UploadInv, Own, Shown
<1> QED
  BY <1>3, <1>4, <1>5

LEMMA RemoteStep ==
  ASSUME ExchangeInv, NEW h \in Resources, RemoteEdit(h) \/ RemoteDelete(h)
  PROVE  ExchangeInv'
<1> USE DEF ExchangeInv
<1>1. PICK c \in Contents :
        /\ srv' = [srv EXCEPT ![h] = c] /\ stored \subseteq stored' /\ (c = 0 \/ <<h, c>> \in stored')
        /\ stored' \subseteq Resources \X Contents
  <2>1. clock' \in Contents /\ 0 \in Contents
    BY Ticks, SyncServicesConstants DEF RemoteEdit, RemoteDelete, Contents
  <2>2. CASE RemoteEdit(h)
    <3>1. <<h, clock'>> \in Resources \X Contents
      BY <2>1
    <3>2. srv' = [srv EXCEPT ![h] = clock'] /\ stored' = stored \cup {<<h, clock'>>}
      BY <2>2 DEF RemoteEdit
    <3> QED
      BY <2>1, <3>1, <3>2 DEF TypeOK
  <2>3. CASE RemoteDelete(h)
    BY <2>1, <2>3 DEF RemoteDelete, TypeOK
  <2> QED
    BY <2>2, <2>3
<1>2. /\ clock' \in Contents /\ born' \in [Resources -> {"none", "local", "server"}]
      /\ UNCHANGED <<faults, engineVars, ownVars, mirrorVars, made, passVars>>
  BY Ticks DEF RemoteEdit, RemoteDelete, TypeOK
<1>3. UNCHANGED <<faults, truth, snap, seen, lost, published, alias, op, mir, imported, made, pc, todo,
                  cur, at, view, busy>>
  BY <1>2 DEF engineVars, ownVars, mirrorVars, passVars
<1>4. TypeOK'
  <2>1. srv' \in [Resources -> Contents]
    BY <1>1 DEF TypeOK
  <2> QED
    BY <1>1, <1>2, <1>3, <2>1 DEF TypeOK
<1>5. WorkInv'
  BY <1>3 DEF WorkInv, InState, Unsettled
<1> QED
  BY <1>1, <1>2, <1>3, <1>4, <1>5, ServerMoves

LEMMA SendStep == ASSUME ExchangeInv, Send PROVE ExchangeInv'
<1> USE DEF ExchangeInv
<1>1. /\ at = "send" /\ cur \in Resources /\ at' \in {"check", "refused"}
      /\ UNCHANGED <<clock, faults, engineVars, ownVars, mirrorVars, born, made, pc, todo, cur, view, busy>>
  BY DEF Send, TypeOK
<1>2. UNCHANGED <<clock, faults, truth, snap, seen, lost, published, alias, op, mir, imported, born, made, pc,
                  todo, cur, view, busy>>
  BY <1>1 DEF engineVars, ownVars, mirrorVars
<1>3. PICK c \in Contents :
        /\ srv' = [srv EXCEPT ![cur] = c] /\ stored \subseteq stored' /\ (c = 0 \/ <<cur, c>> \in stored')
        /\ stored' \subseteq Resources \X Contents
  <2>1. CASE srv[cur] = op[cur].base
    <3>1. op[cur].body \in Contents /\ <<cur, op[cur].body>> \in Resources \X Contents
      BY <1>1, Types
    <3>2. srv' = [srv EXCEPT ![cur] = op[cur].body] /\ stored' = stored \cup {<<cur, op[cur].body>>}
      BY <2>1 DEF Send
    <3> QED
      BY <3>1, <3>2 DEF TypeOK
  <2>2. CASE srv[cur] # op[cur].base
    <3>1. srv' = srv /\ stored' = stored /\ srv[cur] \in Contents
      BY <1>1, <2>2, Types DEF Send, serverVars
    <3>2. srv = [srv EXCEPT ![cur] = srv[cur]] /\ (srv[cur] = 0 \/ <<cur, srv[cur]>> \in stored)
      BY <1>1 DEF TypeOK, StoredInv, Held
    <3> QED
      BY <3>1, <3>2 DEF TypeOK
  <2> QED
    BY <2>1, <2>2
<1>4. TypeOK'
  <2>1. srv' \in [Resources -> Contents]
    BY <1>3 DEF TypeOK
  <2> QED
    BY <1>1, <1>2, <1>3, <2>1, SyncServicesConstants DEF TypeOK
<1>5. WorkInv'
  BY <1>1, <1>2 DEF WorkInv, InState, Unsettled
<1> QED
  BY <1>1, <1>2, <1>3, <1>4, <1>5, ServerMoves

LEMMA FetchedStep == ASSUME ExchangeInv, Fetched PROVE ExchangeInv'
<1> USE DEF ExchangeInv
<1>1. /\ mir' = srv /\ imported' = imported \cup {h \in Resources : srv[h] # 0}
      /\ pc' = "complete" /\ todo' = InState("applied") /\ cur' = NoResource /\ at' = "none"
      /\ UNCHANGED <<clock, faults, srv, stored, truth, snap, seen, lost, published, alias, op, born, made,
                     view, busy>>
  BY DEF Fetched, Phase, serverVars, engineVars, ownVars
<1>2. InState("applied") \subseteq Resources
  BY DEF InState
<1>3. TypeOK'
  BY <1>1, <1>2 DEF TypeOK
<1>4. WorkInv'
  BY <1>1, <1>2, SyncServicesConstants DEF WorkInv, InState
<1>5. ShapeInv' /\ UploadInv'
  BY <1>1 DEF ShapeInv, UploadInv
<1>6. StoredInv'
  BY <1>1 DEF StoredInv, Held
<1>7. TruthInv' /\ ShownInv'
  BY <1>1 DEF TruthInv, ShownInv, Own, Shown
<1>8. KnownInv'
  BY <1>1 DEF KnownInv
<1> QED
  BY <1>3, <1>4, <1>5, <1>6, <1>7, <1>8

LEMMA CompleteAliasStep ==
  ASSUME ExchangeInv, NEW h \in Resources, CompleteAlias(h)
  PROVE  ExchangeInv'
<1> USE DEF ExchangeInv
<1>1. /\ pc = "complete" /\ cur = NoResource /\ at = "none" /\ h \in todo /\ op[h].state = "applied"
      /\ UNCHANGED <<clock, faults, srv, stored, truth, snap, seen, lost, published, op, mir, imported,
                     born, made, view, busy>>
  BY DEF CompleteAlias, Completing, Between, TypeOK, WorkInv, InState, serverVars, engineVars, mirrorVars
<1>2. CASE Skipped(h) /\ UNCHANGED alias
  <2>1. todo' = todo \ {h} /\ UNCHANGED <<pc, cur, at, alias>>
    BY <1>2 DEF Skipped
  <2>2. TypeOK'
    BY <1>1, <2>1 DEF TypeOK
  <2>3. WorkInv'
    BY <1>1, <2>1 DEF WorkInv, InState
  <2> QED
    BY <1>1, <2>1, <2>2, <2>3, PassMoves DEF Kept
<1>3. CASE /\ alias' = IF op[h].kind # "delete" THEN alias \cup {h} ELSE alias
           /\ Task(h, "aliased")
  <2>1. /\ cur' = h /\ at' = "aliased" /\ todo' = todo \ {h} /\ pc' = pc
        /\ alias \subseteq alias' /\ alias' \subseteq Resources
        /\ op[h].kind # "delete" => h \in alias'
    BY <1>3 DEF Task, TypeOK
  <2>2. TypeOK'
    BY <1>1, <2>1, SyncServicesConstants DEF TypeOK
  <2>3. WorkInv'
    BY <1>1, <2>1 DEF WorkInv, InState
  <2>4. ShapeInv' /\ UploadInv'
    BY <1>1 DEF ShapeInv, UploadInv
  <2>5. StoredInv'
    BY <1>1 DEF StoredInv, Held
  <2>6. TruthInv' /\ ShownInv'
    BY <1>1, <2>1 DEF TruthInv, ShownInv, Own, Shown
  <2>7. KnownInv'
    BY <1>1, <2>1 DEF KnownInv
  <2> QED
    BY <2>2, <2>3, <2>4, <2>5, <2>6, <2>7
<1> QED
  BY <1>2, <1>3 DEF CompleteAlias

(* The snapshot takes the record whose upload is verified.                 *)
LEMMA SnapshotAdvances ==
  ASSUME ExchangeInv, at = "aliased", ReceiptMatches(cur), Accepted(cur), seen' = seen \cup {truth[cur]},
         UNCHANGED <<clock, serverVars, truth, lost, ownVars, mirrorVars, born, made, pc, todo, view, busy>>,
         faults' \in 0 .. MaxFaults, (at' = "accepted" /\ cur' = cur) \/ (at' = "none" /\ cur' = NoResource)
  PROVE  ExchangeInv'
<1> USE DEF ExchangeInv
<1>1. /\ cur \in Resources /\ truth[cur] = op[cur].body
      /\ snap' = [snap EXCEPT ![cur] = truth[cur]] /\ seen' = seen \cup {truth[cur]}
      /\ pc = "complete" /\ op[cur].state = "applied"
      /\ UNCHANGED <<clock, srv, stored, truth, lost, published, alias, op, mir, imported, born, made,
                     pc, todo, view, busy>>
  BY DEF ReceiptMatches, Accepted, TypeOK, WorkInv, serverVars, ownVars, mirrorVars
<1>2. truth[cur] \in Contents
  BY <1>1, Types
<1>3. snap'[cur] = truth[cur] /\ \A g \in Resources \ {cur} : snap'[g] = snap[g]
  BY <1>1 DEF TypeOK
<1>4. TypeOK'
  <2>1. snap' \in [Resources -> Contents] /\ seen' \subseteq Contents
    BY <1>1, <1>2 DEF TypeOK
  <2> QED
    BY <1>1, <2>1, SyncServicesConstants DEF TypeOK
<1>5. WorkInv'
  BY <1>1, SyncServicesConstants DEF WorkInv, InState, TypeOK
<1>6. ShapeInv'
  BY <1>1 DEF ShapeInv
<1>7. StoredInv'
  <2>1. Held(cur, truth[cur])
    BY <1>1 DEF StoredInv
  <2>2. \A g \in Resources : Held(g, snap'[g])
    BY <1>3, <2>1 DEF StoredInv
  <2> QED
    BY <1>1, <2>2 DEF StoredInv, Held
<1>8. TruthInv'
  BY <1>1, <1>3 DEF TruthInv, Own
<1>9. ShownInv'
  BY <1>1, <1>3 DEF ShownInv, Shown
<1>10. KnownInv'
  BY <1>1, <1>3, NoOpFacts DEF KnownInv
<1>11. UploadInv'
  BY <1>1, <1>3 DEF UploadInv
<1> QED
  BY <1>4, <1>5, <1>6, <1>7, <1>8, <1>9, <1>10, <1>11

LEMMA AcceptStep == ASSUME ExchangeInv, Accept PROVE ExchangeInv'
<1>1. faults' \in 0 .. MaxFaults
  BY DEF Accept, ExchangeInv, TypeOK
<1> QED
  BY <1>1, SnapshotAdvances DEF Accept

LEMMA AcceptFailedStep == ASSUME ExchangeInv, AcceptFailed PROVE ExchangeInv'
<1>1. faults' \in 0 .. MaxFaults
  BY FaultCounts DEF AcceptFailed, ExchangeInv
<1>2. CASE ReceiptMatches(cur) /\ Accepted(cur) /\ seen' = seen \cup {truth[cur]}
  BY <1>1, <1>2, SnapshotAdvances DEF AcceptFailed, NextTask
<1>3. CASE UNCHANGED <<snap, seen>>
  BY <1>1, <1>3, TaskEnds DEF AcceptFailed, serverVars, ownVars, mirrorVars, Kept
<1> QED
  BY <1>2, <1>3 DEF AcceptFailed

-----------------------------------------------------------------------------
(* A push. *)

LEMMA Pushed ==
  ASSUME ExchangeInv, NEW D \in SUBSET Resources, NEW push \in [D -> Contents], Push(push), made' = made
  PROVE  /\ truth' \in [Resources -> Contents] /\ snap' \in [Resources -> Contents]
         /\ lost' \subseteq Resources \X Contents
         /\ seen \subseteq seen' /\ seen' \subseteq Contents /\ \A h \in D : push[h] \in seen'
         /\ \A h \in Resources : Own(h, truth[h])'
         /\ \A h \in D : snap'[h] = push[h] /\ truth'[h] \in {truth[h], push[h]}
         /\ \A h \in Resources \ D : snap'[h] = snap[h] /\ truth'[h] = truth[h]
         /\ \A h \in Resources :
              truth'[h] # truth[h] => truth[h] = snap[h] \/ <<h, truth[h]>> \in lost'
<1> USE DEF ExchangeInv
<1>1. DOMAIN push = D
  OBVIOUS
<1>2. PICK winners \in SUBSET Conflicts(push) :
        /\ truth' = [h \in Resources |->
             IF h \in D /\ push[h] # snap[h] /\ h \notin Conflicts(push) \ winners
             THEN push[h] ELSE truth[h]]
        /\ snap' = [h \in Resources |-> IF h \in D THEN push[h] ELSE snap[h]]
        /\ lost' = lost \cup {<<h, truth[h]>> : h \in winners}
                        \cup {<<h, push[h]>> : h \in Conflicts(push) \ winners}
        /\ seen' = seen \cup {push[h] : h \in D}
  BY <1>1 DEF Push
<1>3. Conflicts(push) = {h \in D : push[h] # snap[h] /\ truth[h] # snap[h] /\ push[h] # truth[h]}
  BY <1>1 DEF Conflicts
<1>4. \A h \in Resources : truth[h] \in Contents /\ snap[h] \in Contents
  BY DEF TypeOK
<1>5. truth' \in [Resources -> Contents] /\ snap' \in [Resources -> Contents]
  BY <1>2, <1>4
<1>6. lost' \subseteq Resources \X Contents
  <2>1. lost \subseteq Resources \X Contents
    BY DEF TypeOK
  <2>2. Conflicts(push) \subseteq D
    BY <1>3
  <2>3. \A h \in Conflicts(push) :
          <<h, truth[h]>> \in Resources \X Contents /\ <<h, push[h]>> \in Resources \X Contents
    BY <1>4, <2>2
  <2> QED
    BY <1>2, <2>1, <2>2, <2>3
<1>7. seen \subseteq seen' /\ seen' \subseteq Contents /\ \A h \in D : push[h] \in seen'
  BY <1>2 DEF TypeOK
<1>8. \A h \in D : snap'[h] = push[h] /\ truth'[h] \in {truth[h], push[h]}
  BY <1>2
<1>9. \A h \in Resources \ D : snap'[h] = snap[h] /\ truth'[h] = truth[h]
  BY <1>2
<1>10. ASSUME NEW h \in Resources, truth'[h] # truth[h]
       PROVE  truth[h] = snap[h] \/ <<h, truth[h]>> \in lost'
  <2>1. h \in D /\ truth'[h] = push[h] /\ push[h] # snap[h] /\ h \notin Conflicts(push) \ winners
    BY <1>2, <1>10
  <2>2. CASE h \in winners
    BY <1>2, <2>2
  <2>3. CASE h \notin winners
    BY <1>3, <1>10, <2>1, <2>3
  <2> QED
    BY <2>2, <2>3
<1>11. ASSUME NEW h \in Resources PROVE truth'[h] \in made \cup {0, snap'[h]}
  <2>1. truth[h] \in made \cup {0, snap[h]}
    BY DEF TruthInv, Own
  <2>2. CASE h \notin D
    BY <1>9, <2>1, <2>2
  <2>3. CASE h \in D /\ truth'[h] = push[h]
    BY <1>8, <2>3
  <2>4. CASE h \in D /\ truth'[h] # push[h]
    <3>1. truth'[h] = truth[h]
      BY <1>8, <2>4
    <3>2. push[h] = snap[h] \/ h \in Conflicts(push)
      BY <1>2, <2>4
    <3>3. push[h] = snap[h] \/ truth[h] # snap[h]
      BY <1>3, <3>2
    <3> QED
      BY <1>8, <2>1, <2>4, <3>1, <3>3
  <2> QED
    BY <2>2, <2>3, <2>4
<1>12. ASSUME NEW h \in Resources PROVE Own(h, truth[h])'
  BY <1>11 DEF Own
<1> QED
  BY <1>5, <1>6, <1>7, <1>8, <1>9, <1>10, <1>12

(* The revision a conflict was recorded with is pushed: the resource is    *)
(* taken up, or left when the session fails.                               *)
LEMMA ConflictPushed ==
  ASSUME ExchangeInv, NEW h \in Resources, Recovering(h), Push([r \in {h} |-> op[h].result]),
         \/ (view' = truth' /\ cur' = h /\ at' = "resolved")
         \/ (view' = view /\ cur' = cur /\ at' = at),
         todo' = todo \ {h}, pc' = pc, faults' \in 0 .. MaxFaults,
         UNCHANGED <<clock, serverVars, ownVars, mirrorVars, born, made, busy>>
  PROVE  ExchangeInv'
<1> USE DEF ExchangeInv
<1> DEFINE push == [r \in {h} |-> op[h].result]
<1>1. /\ pc = "recover" /\ cur = NoResource /\ at = "none" /\ h \in todo
      /\ op[h].state = "conflict" /\ op[h] # NoOp
      /\ \/ view' = truth' /\ cur' = h /\ at' = "resolved"
         \/ view' = view /\ cur' = cur /\ at' = at
      /\ todo' = todo \ {h}
      /\ UNCHANGED <<clock, srv, stored, published, alias, op, mir, imported, born, made, busy, pc>>
      /\ Push(push)
  BY NoOpFacts DEF Recovering, Between, TypeOK, WorkInv, InState, serverVars, ownVars, mirrorVars
<1>2. {h} \in SUBSET Resources /\ push \in [{h} -> Contents] /\ push[h] = op[h].result
  BY Types
<1> HIDE DEF push
<1>3. /\ truth' \in [Resources -> Contents] /\ snap' \in [Resources -> Contents]
      /\ lost' \subseteq Resources \X Contents
      /\ seen \subseteq seen' /\ seen' \subseteq Contents /\ op[h].result \in seen'
      /\ \A g \in Resources : Own(g, truth[g])'
      /\ snap'[h] = op[h].result /\ \A g \in Resources \ {h} : snap'[g] = snap[g]
  <2>1. ExchangeInv /\ Push(push) /\ made' = made
    BY <1>1
  <2> HIDE DEF ExchangeInv
  <2>2. /\ truth' \in [Resources -> Contents] /\ snap' \in [Resources -> Contents]
        /\ lost' \subseteq Resources \X Contents
        /\ seen \subseteq seen' /\ seen' \subseteq Contents /\ \A g \in {h} : push[g] \in seen'
        /\ \A g \in Resources : Own(g, truth[g])'
        /\ \A g \in {h} : snap'[g] = push[g]
        /\ \A g \in Resources \ {h} : snap'[g] = snap[g]
    BY <1>2, <2>1, Pushed
  <2> QED
    BY <1>2, <2>2
<1>4. TypeOK'
  BY <1>1, <1>3, SyncServicesConstants DEF TypeOK
<1>5. WorkInv'
  BY <1>1 DEF WorkInv, InState
<1>6. ShapeInv'
  BY <1>1 DEF ShapeInv
<1>7. StoredInv'
  <2>1. \A g \in Resources : Held(g, snap'[g])
    BY <1>3 DEF StoredInv
  <2> QED
    BY <1>1, <2>1 DEF StoredInv, Held
<1>8. TruthInv'
  BY <1>1, <1>3 DEF TruthInv, Own
<1>9. ShownInv'
  <2>1. \A g \in Resources : truth'[g] \in made \cup {0, snap'[g]}
    BY <1>1, <1>3 DEF Own
  <2>2. \A g \in Resources : snap'[g] \in seen' \cup made \cup {0}
    BY <1>3 DEF ShownInv, Shown
  <2>3. \A g \in Resources : Shown(view[g]) /\ Shown(op[g].base) /\ Shown(op[g].body)
    BY DEF ShownInv
  <2> QED
    BY <1>1, <1>3, <2>1, <2>2, <2>3 DEF ShownInv, Shown
<1>10. KnownInv'
  BY <1>1, <1>3 DEF KnownInv
<1>11. UploadInv'
  BY <1>1, <1>3 DEF UploadInv
<1> QED
  BY <1>4, <1>5, <1>6, <1>7, <1>8, <1>9, <1>10, <1>11

LEMMA ResolveStep ==
  ASSUME ExchangeInv, NEW h \in Resources, ResolveResourceConflict(h)
  PROVE  ExchangeInv'
<1>1. faults' \in 0 .. MaxFaults
  BY DEF ResolveResourceConflict, ExchangeInv, TypeOK
<1> QED
  BY <1>1, ConflictPushed DEF ResolveResourceConflict, Task

LEMMA ConflictPendingStep ==
  ASSUME ExchangeInv, NEW h \in Resources, ConflictPending(h)
  PROVE  ExchangeInv'
<1>1. faults' \in 0 .. MaxFaults
  BY FaultCounts DEF ConflictPending, ExchangeInv
<1>2. CASE Push([r \in {h} |-> op[h].result])
  BY <1>1, <1>2, ConflictPushed DEF ConflictPending, Skipped
<1>3. CASE UNCHANGED engineVars
  BY <1>1, <1>3, ResourceSkipped DEF ConflictPending, serverVars, engineVars, ownVars, mirrorVars, Kept
<1> QED
  BY <1>2, <1>3 DEF ConflictPending

LEMMA PublishStep == ASSUME ExchangeInv, Publish PROVE ExchangeInv'
<1> USE DEF ExchangeInv
<1> DEFINE D == {r \in PushSet : mir[r] # 0 \/ snap[r] # 0}
           push == [h \in D |-> mir[h]]
<1>1. /\ pc = "publish" /\ view' = truth' /\ busy' = Unsettled /\ pc' = "journal"
      /\ todo' = Resources \ Unsettled /\ cur' = NoResource /\ at' = "none"
      /\ UNCHANGED <<clock, faults, srv, stored, published, alias, op, mir, imported, born, made>>
      /\ Push(push)
  BY DEF Publish, Phase, serverVars, ownVars, mirrorVars
<1>2. /\ D \in SUBSET Resources /\ push \in [D -> Contents] /\ \A h \in D : push[h] = mir[h]
      /\ \A h \in D : op[h] = NoOp
      /\ \A h \in Resources \ Unsettled : mir[h] # 0 => h \in D
  BY Types DEF PushSet, Unsettled
<1> HIDE DEF D, push
<1>3. /\ truth' \in [Resources -> Contents] /\ snap' \in [Resources -> Contents]
      /\ lost' \subseteq Resources \X Contents
      /\ seen \subseteq seen' /\ seen' \subseteq Contents /\ \A h \in D : mir[h] \in seen'
      /\ \A g \in Resources : Own(g, truth[g])'
      /\ \A h \in D : snap'[h] = mir[h]
      /\ \A g \in Resources \ D : snap'[g] = snap[g]
  BY <1>1, <1>2, Pushed
<1>4. TypeOK'
  BY <1>1, <1>3 DEF TypeOK, Unsettled
<1>5. WorkInv'
  BY <1>1, SyncServicesConstants DEF WorkInv, Unsettled
<1>6. ShapeInv'
  BY <1>1 DEF ShapeInv
<1>7. StoredInv'
  <2>1. \A g \in Resources : Held(g, snap'[g])
    BY <1>3 DEF StoredInv
  <2> QED
    BY <1>1, <2>1 DEF StoredInv, Held
<1>8. TruthInv'
  BY <1>1, <1>3 DEF TruthInv, Own
<1>9. ShownInv'
  <2>1. \A g \in Resources : truth'[g] \in made \cup {0, snap'[g]}
    BY <1>1, <1>3 DEF Own
  <2>2. \A g \in Resources : snap'[g] \in seen' \cup made \cup {0}
    BY <1>3 DEF ShownInv, Shown
  <2>3. \A g \in Resources \ Unsettled : mir[g] \in seen' \cup {0}
    BY <1>2, <1>3
  <2> QED
    BY <1>1, <1>3, <2>1, <2>2, <2>3 DEF ShownInv, Shown
<1>10. KnownInv'
  BY <1>1, <1>3 DEF KnownInv
<1>11. UploadInv'
  BY <1>1, <1>2, <1>3, NoOpFacts DEF UploadInv
<1> QED
  BY <1>4, <1>5, <1>6, <1>7, <1>8, <1>9, <1>10, <1>11

-----------------------------------------------------------------------------
(* Every step. *)

LEMMA ExchangeInit == Init => ExchangeInv
<1> SUFFICES ASSUME Init PROVE ExchangeInv
  OBVIOUS
<1>1. /\ clock = 0 /\ faults = 0
      /\ srv = [h \in Resources |-> 0] /\ truth = srv /\ snap = srv /\ mir = srv /\ view = srv
      /\ imported = {} /\ published = {} /\ alias = {}
      /\ op = [h \in Resources |-> NoOp] /\ born = [h \in Resources |-> "none"]
      /\ pc = "idle" /\ todo = {} /\ cur = NoResource /\ at = "none" /\ busy = {}
      /\ stored = {} /\ made = {} /\ seen = {} /\ lost = {}
  BY DEF Init
<1>2. 0 \in Contents /\ 0 \in 0 .. MaxFaults
  BY SyncServicesConstants DEF Contents
<1>3. TypeOK
  BY <1>1, <1>2, NoOpFacts DEF TypeOK
<1>4. \A h \in Resources : /\ op[h] = NoOp /\ srv[h] = 0 /\ truth[h] = 0
                           /\ snap[h] = 0 /\ mir[h] = 0 /\ view[h] = 0
  BY <1>1
<1>5. WorkInv /\ ShapeInv
  BY <1>1, <1>4 DEF WorkInv, ShapeInv
<1>6. StoredInv /\ TruthInv /\ ShownInv
  BY <1>1, <1>4, NoOpFacts DEF StoredInv, TruthInv, ShownInv, Held, Own, Shown
<1>7. KnownInv /\ UploadInv
  BY <1>1, <1>4, NoOpFacts DEF KnownInv, UploadInv
<1> QED
  BY <1>3, <1>5, <1>6, <1>7 DEF ExchangeInv

LEMMA UnchangedStep ==
  ASSUME ExchangeInv, UNCHANGED vars
  PROVE  ExchangeInv'
<1>1. UNCHANGED <<clock, faults, srv, stored, truth, snap, seen, lost, published, alias, op, mir, imported,
                  born, made, pc, todo, cur, at, view, busy>>
  BY DEF vars, serverVars, engineVars, ownVars, mirrorVars, passVars
<1>2. TypeOK'
  BY <1>1 DEF ExchangeInv, TypeOK
<1>3. WorkInv'
  BY <1>1 DEF ExchangeInv, WorkInv, InState, Unsettled
<1> QED
  BY <1>1, <1>2, <1>3, PassMoves DEF Kept

LEMMA ExchangeStep == ExchangeInv /\ [Next]_vars => ExchangeInv'
<1> SUFFICES ASSUME ExchangeInv, [Next]_vars PROVE ExchangeInv'
  OBVIOUS
<1>1. CASE StartPass
  BY <1>1, StartPassStep
<1>2. CASE WritesDone
  BY <1>2, WritesDoneStep
<1>3. CASE Fetched
  BY <1>3, FetchedStep
<1>4. CASE Send
  BY <1>4, SendStep
<1>5. CASE Check
  BY <1>5, CheckStep
<1>6. CASE Accept
  BY <1>6, AcceptStep
<1>7. CASE Acknowledge
  BY <1>7, AcknowledgeStep
<1>8. CASE QueueSuccessor
  BY <1>8, QueueSuccessorStep
<1>9. CASE AwaitAcceptance
  BY <1>9, AwaitAcceptanceStep
<1>10. CASE CompleteDone
  BY <1>10, CompleteDoneStep
<1>11. CASE SaveResolution
  BY <1>11, SaveResolutionStep
<1>12. CASE RecoverDone
  BY <1>12, RecoverDoneStep
<1>13. CASE Publish
  BY <1>13, PublishStep
<1>14. CASE SavePublished
  BY <1>14, SavePublishedStep
<1>15. CASE \E h \in Resources : Look(h)
  BY <1>15, LookStep
<1>16. CASE \E h \in Resources : CompleteAlias(h)
  BY <1>16, CompleteAliasStep
<1>17. CASE \E h \in Resources : ConflictAttention(h)
  BY <1>17, ConflictAttentionStep
<1>18. CASE \E h \in Resources : ResolveResourceConflict(h)
  BY <1>18, ResolveStep
<1>19. CASE \E h \in Resources : Journal(h)
  BY <1>19, JournalStep
<1>20. CASE \E h \in Resources : LocalEdit(h) \/ LocalDelete(h)
  BY <1>20, LocalStep
<1>21. CASE \E h \in Resources : RemoteEdit(h) \/ RemoteDelete(h)
  BY <1>21, RemoteStep
<1>22. CASE Interrupted
  BY <1>22, InterruptedStep
<1>23. CASE UNCHANGED vars
  BY <1>23, UnchangedStep
<1>24. CASE ResolutionRefused
  BY <1>24, ResolutionRefusedStep
<1>25. CASE AcceptFailed
  BY <1>25, AcceptFailedStep
<1>26. CASE \E h \in Resources : AwaitMirror(h)
  BY <1>26, AwaitMirrorStep
<1>27. CASE \E h \in Resources : ConflictPending(h)
  BY <1>27, ConflictPendingStep
<1> QED
  BY <1>1, <1>2, <1>3, <1>4, <1>5, <1>6, <1>7, <1>8, <1>9, <1>10, <1>11, <1>12, <1>13, <1>14, <1>15,
     <1>16, <1>17, <1>18, <1>19, <1>20, <1>21, <1>22, <1>23, <1>24, <1>25, <1>26, <1>27
  DEF Next, Daemon, Edits, Faults

-----------------------------------------------------------------------------
(* Edits. *)

(* The daemon changes the truth by a push and the server by an upload.     *)
LEMMA OnlyThese ==
  ASSUME TypeOK, [Next]_vars, clock' = clock
  PROVE  /\ \/ truth' = truth \/ Publish
            \/ \E h \in Resources : ResolveResourceConflict(h) \/ ConflictPending(h)
         /\ srv' = srv \/ Send
<1>1. ASSUME Edits PROVE FALSE
  BY <1>1, Ticks DEF Edits, LocalEdit, LocalDelete, RemoteEdit, RemoteDelete
<1>2. ASSUME StartPass \/ WritesDone \/ Fetched \/ CompleteDone \/ RecoverDone \/ SavePublished \/ Interrupted
             \/ ResolutionRefused
      PROVE  truth' = truth /\ srv' = srv
  BY <1>2 DEF StartPass, WritesDone, Fetched, CompleteDone, RecoverDone, SavePublished, Interrupted,
     ResolutionRefused, serverVars, engineVars
<1>3. ASSUME Check \/ Accept \/ AcceptFailed \/ Acknowledge \/ QueueSuccessor \/ AwaitAcceptance
             \/ SaveResolution
      PROVE  truth' = truth /\ srv' = srv
  BY <1>3 DEF Check, Accept, AcceptFailed, Acknowledge, QueueSuccessor, AwaitAcceptance, SaveResolution,
     serverVars, engineVars
<1>4. ASSUME NEW h \in Resources, Look(h) \/ CompleteAlias(h) \/ AwaitMirror(h) \/ ConflictAttention(h)
                                  \/ Journal(h)
      PROVE  truth' = truth /\ srv' = srv
  BY <1>4 DEF Look, CompleteAlias, AwaitMirror, ConflictAttention, Journal, serverVars, engineVars
<1>5. ASSUME NEW h \in Resources, ResolveResourceConflict(h) \/ ConflictPending(h) PROVE srv' = srv
  BY <1>5 DEF ResolveResourceConflict, ConflictPending, serverVars
<1>6. Publish => srv' = srv
  BY DEF Publish, serverVars
<1>7. Send => truth' = truth
  BY DEF Send, engineVars
<1>8. UNCHANGED vars => truth' = truth /\ srv' = srv
  BY DEF vars, serverVars, engineVars
<1> QED
  BY <1>1, <1>2, <1>3, <1>4, <1>5, <1>6, <1>7, <1>8 DEF Next, Daemon, Faults

LEMMA TruthIsKept ==
  ASSUME ExchangeInv, [Next]_vars, clock' = clock, NEW h \in Resources
  PROVE  LocalEditKept(h)
<1> USE DEF ExchangeInv
<1> SUFFICES ASSUME truth[h] \in made, truth'[h] # truth[h]
             PROVE  <<h, truth[h]>> \in stored \cup lost'
  BY DEF LocalEditKept
<1>1. truth[h] = snap[h] \/ <<h, truth[h]>> \in lost'
  <2>1. CASE Publish
    <3> DEFINE D == {r \in PushSet : mir[r] # 0 \/ snap[r] # 0}
               push == [g \in D |-> mir[g]]
    <3>1. Push(push) /\ made' = made
      BY <2>1 DEF Publish
    <3>2. D \in SUBSET Resources /\ push \in [D -> Contents]
      BY Types DEF PushSet
    <3> HIDE DEF D, push
    <3> QED
      BY <3>1, <3>2, Pushed
  <2>2. CASE \E r \in Resources : ResolveResourceConflict(r) \/ ConflictPending(r)
    <3>1. PICK r \in Resources : ResolveResourceConflict(r) \/ ConflictPending(r)
      BY <2>2
    <3> DEFINE push == [g \in {r} |-> op[r].result]
    <3>2. SUFFICES ASSUME truth' # truth PROVE truth[h] = snap[h] \/ <<h, truth[h]>> \in lost'
      OBVIOUS
    <3>4. Push(push) /\ made' = made
      BY <3>1, <3>2 DEF ResolveResourceConflict, ConflictPending, engineVars
    <3>3. {r} \in SUBSET Resources /\ push \in [{r} -> Contents]
      BY Types
    <3> HIDE DEF push
    <3> QED
      BY <3>3, <3>4, Pushed
  <2> QED
    BY <2>1, <2>2, OnlyThese
<1>2. truth[h] # 0
  BY DEF TypeOK
<1> QED
  BY <1>1, <1>2 DEF StoredInv, Held

LEMMA ServerIsKept ==
  ASSUME ExchangeInv, [Next]_vars, clock' = clock, NEW h \in Resources
  PROVE  OverwritesOnlySeen(h) /\ NotResurrected(h)
<1> USE DEF ExchangeInv
<1> SUFFICES ASSUME srv'[h] # srv[h]
             PROVE  /\ srv[h] # 0 => srv[h] \in seen \cup made
                    /\ srv[h] = 0 => srv'[h] \in made /\ srv'[h] # snap[h]
  BY DEF OverwritesOnlySeen, NotResurrected
<1>1. Send
  BY OnlyThese
<1>2. /\ cur = h /\ op[h].state = "queued" /\ srv[h] = op[h].base /\ srv'[h] = op[h].body
  BY <1>1 DEF Send, WorkInv, TypeOK, serverVars
<1> QED
  BY <1>2 DEF ShownInv, Shown, UploadInv

-----------------------------------------------------------------------------

(* The inductive invariant: what the engine, the mirror and the operations *)
(* know of each other's contents at every point of a pass of               *)
(* RCSyncServicesBackend and RCTwoWayRunWrites.                            *)
THEOREM ExchangeInvariant == Spec => []ExchangeInv
<1>1. Init => ExchangeInv
  BY ExchangeInit
<1>2. ExchangeInv /\ [Next]_vars => ExchangeInv'
  BY ExchangeStep
<1> QED
  BY <1>1, <1>2, PTL DEF Spec

(* The variables of the pass, the engine and the server keep their types.  *)
THEOREM ExchangeTypes == Spec => []TypeOK
<1>1. ExchangeInv => TypeOK
  BY DEF ExchangeInv
<1> QED
  BY <1>1, ExchangeInvariant, PTL

(* No pass buries an edit: a publication (RCSyncServicesBackend) or an     *)
(* acceptance (RCSyncAcceptMappedUpload) replaces no local edit the server *)
(* never had or the engine did not decide against, and an upload, a replay *)
(* or a successor no revision the engine was not shown and no deletion.    *)
THEOREM NoEditIsBuried == Spec => NoEditBuried
<1>1. ExchangeInv /\ [Next]_vars =>
        [clock' = clock =>
           \A h \in Resources : LocalEditKept(h) /\ OverwritesOnlySeen(h) /\ NotResurrected(h)]_vars
  BY TruthIsKept, ServerIsKept
<1> QED
  BY <1>1, ExchangeInvariant, PTL DEF Spec, NoEditBuried

-----------------------------------------------------------------------------
(* The comparison of two records (RecordEquality).                         *)

(* The sound of an alarm is read from its two sound fields.                *)
LEMMA ScopeKeepsSound ==
  ASSUME NEW r, NEW fields, SoundFields \subseteq fields
  PROVE  RCNativeAlarmSound(RCNativeScopedRecord(r, fields)) = RCNativeAlarmSound(r)
<1>1. /\ RCNativeScopedRecord(r, fields)["sound"] = r["sound"]
      /\ RCNativeScopedRecord(r, fields)["com.apple.ical.sound"] = r["com.apple.ical.sound"]
  BY DEF RCNativeScopedRecord, SoundFields, Keys
<1> QED
  BY <1>1 DEF RCNativeAlarmSound

(* A record without sound fields plays none, which is not a disagreement.  *)
LEMMA SilentWithoutFields ==
  ASSUME NEW r, NEW fields, fields \cap SoundFields = {}
  PROVE  RCNativeAlarmSound(RCNativeScopedRecord(r, fields)) = Nil
<1>1. /\ RCNativeScopedRecord(r, fields)["sound"] = Nil
      /\ RCNativeScopedRecord(r, fields)["com.apple.ical.sound"] = Nil
  BY DEF RCNativeScopedRecord, SoundFields, Keys, EntityKey
<1>2. RCNativeEmptyValue(Nil) /\ RCNativeLocalSoundURL(Nil) = Nil
  BY DEF RCNativeEmptyValue, RCNativeLocalSoundURL
<1> QED
  BY <1>1, <1>2 DEF RCNativeAlarmSound

(* The entity both records are of, the alarms whose sounds are compared,   *)
(* and the comparison of one field under both.                             *)
Entity(x, y) == IF RCRecordEntity(x) = RCRecordEntity(y) THEN RCRecordEntity(x) ELSE Nil
Alarm(x, y) ==
  Entity(x, y) = "AudioAlarm" /\ Invalid \notin {RCNativeAlarmSound(x), RCNativeAlarmSound(y)}
ValuesAgree(entity, alarm, k, v, w) ==
  \/ v = Nil /\ w = Nil
  \/ RCIgnoredNativeField(entity, k)
  \/ alarm /\ k \in SoundFields
  \/ RCNativePropertyValuesEqual(entity, k, v, w)
  \/ RCUnorderedField(k) /\ RCRecordUnorderedEqual(v, w)

LEMMA EqualByField ==
  ASSUME NEW x, NEW y
  PROVE  RCRecordsEqual(x, y) <=>
           /\ Alarm(x, y) => RCNativeAlarmSound(x) = RCNativeAlarmSound(y)
           /\ \A k \in Keys : ValuesAgree(Entity(x, y), Alarm(x, y), k, x[k], y[k])
BY DEF RCRecordsEqual, Alarm, Entity, ValuesAgree

(* A scope keeps the entity, the values of its fields and no other.        *)
LEMMA ScopedValues ==
  ASSUME NEW r, NEW fields
  PROVE  /\ RCRecordEntity(RCNativeScopedRecord(r, fields)) = RCRecordEntity(r)
         /\ \A k \in Keys : RCNativeScopedRecord(r, fields)[k]
                              = IF k \in fields \cup {EntityKey} THEN r[k] ELSE Nil
BY DEF RCRecordEntity, RCNativeScopedRecord, Keys

(* Within a scope that has both sound fields or neither, only its fields   *)
(* count, and they count as in the whole records.                          *)
LEMMA EqualInScope ==
  ASSUME NEW x, NEW y, NEW fields \in SUBSET Keys,
         SoundFields \subseteq fields \/ fields \cap SoundFields = {}
  PROVE  RCRecordsEqual(RCNativeScopedRecord(x, fields), RCNativeScopedRecord(y, fields)) <=>
           /\ SoundFields \subseteq fields /\ Alarm(x, y) => RCNativeAlarmSound(x) = RCNativeAlarmSound(y)
           /\ \A k \in fields \cup {EntityKey} : ValuesAgree(Entity(x, y), Alarm(x, y), k, x[k], y[k])
<1> DEFINE u == RCNativeScopedRecord(x, fields)
           v == RCNativeScopedRecord(y, fields)
<1>1. Entity(u, v) = Entity(x, y)
  BY ScopedValues DEF Entity
<1>2. \A k \in Keys : /\ k \in fields \cup {EntityKey} => u[k] = x[k] /\ v[k] = y[k]
                      /\ k \notin fields \cup {EntityKey} => u[k] = Nil /\ v[k] = Nil
  BY ScopedValues
<1>3. EntityKey \in Keys /\ EntityKey \notin SoundFields
  BY DEF Keys, EntityKey, SoundFields
<1>4. CASE SoundFields \subseteq fields
  <2>1. RCNativeAlarmSound(u) = RCNativeAlarmSound(x) /\ RCNativeAlarmSound(v) = RCNativeAlarmSound(y)
    BY <1>4, ScopeKeepsSound
  <2>2. Alarm(u, v) = Alarm(x, y)
    BY <1>1, <2>1 DEF Alarm
  <2> HIDE DEF u, v
  <2>3. \A k \in Keys : ValuesAgree(Entity(u, v), Alarm(u, v), k, u[k], v[k]) <=>
          (k \in fields \cup {EntityKey} => ValuesAgree(Entity(x, y), Alarm(x, y), k, x[k], y[k]))
    BY <1>1, <1>2, <2>2 DEF ValuesAgree
  <2>4. RCRecordsEqual(u, v) <=>
          /\ Alarm(u, v) => RCNativeAlarmSound(u) = RCNativeAlarmSound(v)
          /\ \A k \in Keys : ValuesAgree(Entity(u, v), Alarm(u, v), k, u[k], v[k])
    BY EqualByField
  <2> QED
    BY <1>3, <1>4, <2>1, <2>2, <2>3, <2>4 DEF u, v
<1>5. CASE fields \cap SoundFields = {}
  <2>1. RCNativeAlarmSound(u) = Nil /\ RCNativeAlarmSound(v) = Nil
    BY <1>5, SilentWithoutFields
  <2> HIDE DEF u, v
  <2>2. \A k \in Keys : ValuesAgree(Entity(u, v), Alarm(u, v), k, u[k], v[k]) <=>
          (k \in fields \cup {EntityKey} => ValuesAgree(Entity(x, y), Alarm(x, y), k, x[k], y[k]))
    <3> SUFFICES ASSUME NEW k \in Keys
                 PROVE  ValuesAgree(Entity(u, v), Alarm(u, v), k, u[k], v[k]) <=>
                          (k \in fields \cup {EntityKey} =>
                             ValuesAgree(Entity(x, y), Alarm(x, y), k, x[k], y[k]))
      OBVIOUS
    <3>1. CASE k \in fields \cup {EntityKey}
      <4>1. k \notin SoundFields
        BY <1>3, <1>5, <3>1
      <4> QED
        BY <1>1, <1>2, <3>1, <4>1 DEF ValuesAgree
    <3>2. CASE k \notin fields \cup {EntityKey}
      BY <1>2, <3>2 DEF ValuesAgree
    <3> QED
      BY <3>1, <3>2
  <2>3. SoundFields # {}
    BY DEF SoundFields
  <2>4. RCRecordsEqual(u, v) <=>
          /\ Alarm(u, v) => RCNativeAlarmSound(u) = RCNativeAlarmSound(v)
          /\ \A k \in Keys : ValuesAgree(Entity(u, v), Alarm(u, v), k, u[k], v[k])
    BY EqualByField
  <2> QED
    BY <1>3, <1>5, <2>1, <2>2, <2>3, <2>4 DEF u, v
<1> QED
  BY <1>4, <1>5

(* What RCTwoWayFields lists as changed, field by field, is what the       *)
(* comparison of the whole records sees.                                   *)
LEMMA FieldsDecide ==
  ASSUME NEW x, NEW y
  PROVE  RCRecordsEqual(x, y) <=> \A k \in Keys : FieldEqual(x, y, k)
<1> DEFINE Scope(k) == IF k \in SoundFields THEN SoundFields ELSE {k}
           agree(k) == ValuesAgree(Entity(x, y), Alarm(x, y), k, x[k], y[k])
           sound == Alarm(x, y) => RCNativeAlarmSound(x) = RCNativeAlarmSound(y)
<1>1. EntityKey \in Keys /\ EntityKey \notin SoundFields /\ SoundFields \subseteq Keys
      /\ "sound" \in SoundFields
  BY DEF Keys, EntityKey, SoundFields
<1>2. ASSUME NEW k \in Keys
      PROVE  FieldEqual(x, y, k) <=>
               /\ k \in SoundFields => sound
               /\ \A f \in Scope(k) \cup {EntityKey} : agree(f)
  <2>1. /\ Scope(k) \in SUBSET Keys /\ (SoundFields \subseteq Scope(k) <=> k \in SoundFields)
        /\ SoundFields \subseteq Scope(k) \/ Scope(k) \cap SoundFields = {}
    BY <1>1 DEF SoundFields
  <2>2. FieldEqual(x, y, k) <=>
          RCRecordsEqual(RCNativeScopedRecord(x, Scope(k)), RCNativeScopedRecord(y, Scope(k)))
    BY DEF FieldEqual
  <2> HIDE DEF Scope
  <2> QED
    BY <2>1, <2>2, EqualInScope
<1>3. RCRecordsEqual(x, y) <=> sound /\ \A k \in Keys : agree(k)
  BY EqualByField
<1> HIDE DEF agree, sound
<1>4. ASSUME sound, \A k \in Keys : agree(k), NEW k \in Keys
      PROVE  FieldEqual(x, y, k)
  BY <1>1, <1>2, <1>4
<1>5. ASSUME \A k \in Keys : FieldEqual(x, y, k)
      PROVE  sound /\ \A k \in Keys : agree(k)
  BY <1>1, <1>2, <1>5
<1> QED
  BY <1>3, <1>4, <1>5

(* Records are equal exactly when no field of theirs would be listed as    *)
(* pending, for records of any values: the pair of sound fields is the one *)
(* case in which the comparison of a record is not that of its fields, and *)
(* FieldEqual compares that pair as a whole.                               *)
THEOREM RecordsAreTheirFields == EqualitySpec => []FieldsAgreeWithRecord
<1>1. FieldsAgreeWithRecord
  BY FieldsDecide DEF FieldsAgreeWithRecord
<1> QED
  BY <1>1, PTL
=============================================================================
