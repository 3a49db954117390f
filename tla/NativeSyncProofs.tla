--------------------------- MODULE NativeSyncProofs ---------------------------
(***************************************************************************)
(* NoDuplicate and NoEditBuried hold of the two-way exchange, for any      *)
(* number of resources, edits, mode changes and crashes, as long as the    *)
(* user does not turn to one-way mode while the alias of an acknowledged   *)
(* creation is still to be learned (EarlySwitch).                          *)
(*                                                                         *)
(* A record gets a duplicate when a publication does not find it, for want *)
(* of the row, of the identity that leads to the row, or of the native id  *)
(* in it.  Identity is the subtle one: the row of a creation is found only *)
(* through its alias, the alias is learned only from a mirror that lists   *)
(* the resource, and what was acknowledged without one stays detached.     *)
(* SyncInv says that one of the three always protects such a row: the      *)
(* operation, the alias, or the detached creation that the next exchange   *)
(* turns into an alias before it publishes anything.                       *)
(*                                                                         *)
(* An edit is buried when a content is replaced that the other side never  *)
(* had: the second half of SyncInv bounds every base, row and operation by *)
(* the contents that were shown on the device or stored on the server.     *)
(*                                                                         *)
(* Last, ScopeIsHonest of the fields an upload carries: a field of the     *)
(* scopes has the user's value in the working graph already, or is in a    *)
(* group that the plan has still to try (PlanInv).                         *)
(***************************************************************************)
EXTENDS NativeSync, FieldPlan, TLAPS

Publishing == {"reserved", "saved", "named", "removed"}

(* What a phase works through. *)
WorkInv ==
  /\ pc \in {"writes", "rewrites"} => todo \subseteq Due
  /\ pc = "complete" => todo \subseteq Settled

(* A step belongs to its phase and to a resource no operation concerns, or  *)
(* whose operation is applied.                                             *)
StepInv ==
  step # NoStep =>
    /\ step.at \in Publishing => pc = "apply" /\ op[step.res] = NoOp
    /\ step.at \notin Publishing => pc = "complete" /\ op[step.res].state = "applied"

(* The modes in which a phase is entered. *)
ModeInv ==
  /\ pc \in {"writes", "complete", "rewrites"} => mode = "two-way"
  /\ mode = "one-way" => detached = {}
  /\ mode = "one-way" /\ pc \in {"saved", "apply"} => \A h \in Resources : op[h] = NoOp

(* Nobody knows a resource before it is created; what was created here and  *)
(* has no row yet never left the device.                                   *)
FreshInv ==
  \A h \in Resources :
    /\ born[h] = "none" => /\ srv[h] = 0 /\ mir[h] = 0 /\ nat[h] = 0
                           /\ row[h] = NoRow /\ h \notin alias \cup detached
    /\ row[h] = NoRow /\ nat[h] # 0 => born[h] = "local" /\ h \notin alias \cup detached
    /\ row[h] = NoRow /\ born[h] = "local" /\ h \notin alias \cup detached
         => srv[h] = 0 /\ mir[h] = 0

(* What leads a creation that has a row to its alias. *)
AliasInv ==
  \A h \in Resources :
    /\ row[h] # NoRow /\ born[h] = "local" => h \in alias \cup detached \/ op[h].kind = "create"
    /\ h \in detached \ alias /\ mir[h] # 0 /\ op[h] = NoOp =>
         /\ pc \notin {"saved", "apply"}
         /\ pc = "complete" => h \in todo
    /\ step # NoStep /\ step.res = h /\ step.at \in {"aliased", "accepted"} =>
         /\ born[h] = "local" => h \in alias \cup detached
         /\ mir[h] # 0 => h \in alias

(* A row without its native id is one whose publication was interrupted,    *)
(* and during the exchange only the one being published is.                *)
RowInv ==
  \A h \in Resources :
    /\ row[h] # NoRow /\ ~row[h].ids => row[h].pending
    /\ row[h].pending => op[h] = NoOp /\ row[h].graph # 0 /\ row[h].rev = row[h].graph
    /\ pc = "apply" /\ row[h].pending => step # NoStep /\ step.res = h
    /\ step # NoStep /\ step.res = h =>
         /\ step.at \in {"reserved", "saved", "named"} => row[h].pending
         /\ step.at = "reserved" => row[h].ids \/ nat[h] = 0
         /\ step.at = "named" => row[h].ids
         /\ step.at = "removed" => nat[h] = 0

CopiesInv ==
  \A h \in Resources : copies[h] <= 1 /\ (nat[h] = 0 => copies[h] = 0)

(* Where the contents come from. *)
ShownInv ==
  \A h \in Resources :
    /\ nat[h] \in shown \cup {0}
    /\ op[h].base \in shown \cup {0} /\ op[h].body \in shown \cup {0}
    /\ ~row[h].pending => row[h].rev \in shown \cup {0}
    /\ step # NoStep /\ step.res = h /\ step.at \in {"saved", "named"} => row[h].rev \in shown

StoredInv ==
  \A h \in Resources :
    /\ srv[h] \in stored \cup {0} /\ mir[h] \in stored \cup {0}
    /\ op[h].state = "applied" => op[h].body \in stored \cup {0}
    /\ op[h] = NoOp => row[h].graph \in stored \cup {0}
    /\ step # NoStep /\ step.res = h /\ step.at = "accepted" => row[h].graph \in stored \cup {0}
    /\ step # NoStep /\ step.res = h /\ step.at = "reserved" /\ mode = "two-way"
         => nat[h] \in stored \cup {0}

SyncInv ==
  /\ TypeOK /\ WorkInv /\ StepInv /\ ModeInv
  /\ FreshInv /\ AliasInv /\ RowInv /\ CopiesInv
  /\ ShownInv /\ StoredInv

-----------------------------------------------------------------------------
(* Records. *)

LEMMA StepRecord ==
  ASSUME NEW h \in Resources,
         NEW a \in {"aliased", "accepted", "reserved", "saved", "named", "removed"}
  PROVE  /\ [res |-> h, at |-> a] \in Steps /\ [res |-> h, at |-> a] # NoStep
         /\ [res |-> h, at |-> a].res = h /\ [res |-> h, at |-> a].at = a
  BY SyncConstants DEF Steps

(* The step under way, and what follows it. *)
LEMMA StepFacts ==
  ASSUME TypeOK, step # NoStep
  PROVE  /\ step \in Steps /\ step.res \in Resources /\ step.res \in todo
         /\ \A a \in {"accepted", "saved", "named"} :
              [step EXCEPT !.at = a] = [res |-> step.res, at |-> a]
  BY DEF TypeOK, Steps

LEMMA OpTypes ==
  ASSUME TypeOK, NEW h \in Resources
  PROVE  /\ op[h] # NoOp => op[h] \in Operations
         /\ op[h].state # "none" => op[h] # NoOp
         /\ op[h].body \in Contents /\ op[h].base \in Contents
  BY SyncConstants DEF TypeOK, Operations, NoOp, Contents

LEMMA OpSettled ==
  ASSUME NEW o \in Operations, NEW s \in {"applied", "conflict"}
  PROVE  LET p == [o EXCEPT !.state = s] IN
         /\ p \in Operations /\ p # NoOp /\ o # NoOp
         /\ p.kind = o.kind /\ p.base = o.base /\ p.body = o.body /\ p.state = s
  BY DEF Operations, NoOp

LEMMA NewOperation ==
  ASSUME NEW k \in {"create", "update", "delete"}, NEW b \in Contents, NEW c \in Contents
  PROVE  LET p == [kind |-> k, base |-> b, body |-> c, state |-> "pending"] IN
         /\ p \in Operations /\ p # NoOp
         /\ p.kind = k /\ p.base = b /\ p.body = c /\ p.state = "pending"
  BY DEF Operations, NoOp, Contents

LEMMA RowRecord ==
  ASSUME NEW g \in Contents, NEW v \in Contents, NEW i \in BOOLEAN, NEW p \in BOOLEAN
  PROVE  LET r == [graph |-> g, rev |-> v, ids |-> i, pending |-> p] IN
         r \in Rows /\ r.graph = g /\ r.rev = v /\ r.ids = i /\ r.pending = p
  BY DEF Rows, Contents

LEMMA RowTypes ==
  ASSUME TypeOK, NEW h \in Resources
  PROVE  /\ row[h] \in Rows /\ NoRow \in Rows
         /\ row[h].graph \in Contents /\ row[h].rev \in Contents
         /\ row[h].ids \in BOOLEAN /\ row[h].pending \in BOOLEAN
  BY SyncConstants DEF TypeOK, Rows, NoRow, Contents

(* The changes the exchange makes to a row leave its other fields alone. *)
LEMMA RowAccepted ==
  ASSUME NEW r \in Rows, NEW g \in Contents
  PROVE  LET q == [r EXCEPT !.graph = g] IN
         /\ q \in Rows /\ q.graph = g /\ q.rev = r.rev
         /\ q.ids = r.ids /\ q.pending = r.pending
  BY DEF Rows, Contents

LEMMA RowAdvanced ==
  ASSUME NEW r \in Rows, NEW g \in Contents
  PROVE  LET q == [r EXCEPT !.graph = g, !.rev = g] IN
         /\ q \in Rows /\ q.graph = g /\ q.rev = g
         /\ q.ids = r.ids /\ q.pending = r.pending
  BY DEF Rows, Contents

LEMMA RowNamed ==
  ASSUME NEW r \in Rows
  PROVE  LET q == [r EXCEPT !.ids = TRUE] IN
         /\ q \in Rows /\ q.graph = r.graph /\ q.rev = r.rev
         /\ q.ids = TRUE /\ q.pending = r.pending
  BY DEF Rows

LEMMA RowConfirmed ==
  ASSUME NEW r \in Rows
  PROVE  LET q == [r EXCEPT !.pending = FALSE] IN
         /\ q \in Rows /\ q.graph = r.graph /\ q.rev = r.rev
         /\ q.ids = r.ids /\ q.pending = FALSE
  BY DEF Rows

LEMMA RowRecovered ==
  ASSUME NEW r \in Rows
  PROVE  LET q == [r EXCEPT !.ids = TRUE, !.pending = FALSE] IN
         /\ q \in Rows /\ q.graph = r.graph /\ q.rev = r.rev
         /\ q.ids = TRUE /\ q.pending = FALSE
  BY DEF Rows

-----------------------------------------------------------------------------
(* The user, and the other clients. *)

LEMMA LocalEditStep ==
  ASSUME SyncInv, NEW h \in Resources, LocalEdit(h)
  PROVE  SyncInv'
<1> USE DEF SyncInv, LocalEdit, Tick, Saving, serverVars, mirrorVars, ownVars, passVars
<1>1. TypeOK'
  BY SyncConstants DEF TypeOK, Contents, Unresolved
<1>2. WorkInv' /\ StepInv' /\ ModeInv'
  BY DEF WorkInv, StepInv, ModeInv, Due, Settled
<1>3. FreshInv'
  BY DEF FreshInv, TypeOK
<1>4. AliasInv'
  <2>1. born[h] = "none" => op[h] = NoOp
    BY DEF TypeOK, Unresolved, FreshInv
  <2>2. \A g \in Resources : born'[g] = "local" => born[g] = "local" \/ (g = h /\ born[h] = "none")
    BY DEF TypeOK
  <2>3. step # NoStep => (step.res = h /\ born[h] = "none" => step.at \in Publishing)
    BY <2>1, OpTypes DEF StepInv, NoOp
  <2>4. born[h] = "none" => row[h] = NoRow
    BY DEF FreshInv
  <2> QED
    BY <2>2, <2>3, <2>4 DEF AliasInv, Publishing
<1>5. RowInv' /\ CopiesInv'
  BY DEF RowInv, CopiesInv, TypeOK
<1>6. ShownInv'
  BY DEF ShownInv, TypeOK
<1>7. StoredInv'
  BY DEF StoredInv, TypeOK
<1> QED
  BY <1>1, <1>2, <1>3, <1>4, <1>5, <1>6, <1>7

LEMMA LocalDeleteStep ==
  ASSUME SyncInv, NEW h \in Resources, LocalDelete(h)
  PROVE  SyncInv'
<1> USE DEF SyncInv, LocalDelete, Tick, Saving, serverVars, mirrorVars, ownVars, passVars
<1>1. TypeOK'
  BY SyncConstants DEF TypeOK, Contents, Unresolved
<1>2. WorkInv' /\ StepInv' /\ ModeInv'
  BY DEF WorkInv, StepInv, ModeInv, Due, Settled
<1>3. FreshInv' /\ AliasInv'
  BY DEF FreshInv, AliasInv, TypeOK
<1>4. RowInv' /\ CopiesInv'
  BY DEF RowInv, CopiesInv, TypeOK
<1>5. ShownInv' /\ StoredInv'
  BY DEF ShownInv, StoredInv, TypeOK
<1> QED
  BY <1>1, <1>2, <1>3, <1>4, <1>5

LEMMA RemoteEditStep ==
  ASSUME SyncInv, NEW h \in Resources, RemoteEdit(h)
  PROVE  SyncInv'
<1> USE DEF SyncInv, RemoteEdit, Tick, mirrorVars, nativeVars, ownVars, passVars
<1>1. TypeOK'
  BY SyncConstants DEF TypeOK, Contents, Unresolved
<1>2. WorkInv' /\ StepInv' /\ ModeInv'
  BY DEF WorkInv, StepInv, ModeInv, Due, Settled
<1>3. FreshInv' /\ AliasInv'
  BY DEF FreshInv, AliasInv, TypeOK
<1>4. RowInv' /\ CopiesInv'
  BY DEF RowInv, CopiesInv, TypeOK
<1>5. ShownInv' /\ StoredInv'
  BY DEF ShownInv, StoredInv, TypeOK
<1> QED
  BY <1>1, <1>2, <1>3, <1>4, <1>5

LEMMA RemoteDeleteStep ==
  ASSUME SyncInv, NEW h \in Resources, RemoteDelete(h)
  PROVE  SyncInv'
<1> USE DEF SyncInv, RemoteDelete, Tick, mirrorVars, nativeVars, ownVars, passVars
<1>1. TypeOK'
  BY SyncConstants DEF TypeOK, Contents, Unresolved
<1>2. WorkInv' /\ StepInv' /\ ModeInv'
  BY DEF WorkInv, StepInv, ModeInv, Due, Settled
<1>3. FreshInv' /\ AliasInv'
  BY DEF FreshInv, AliasInv, TypeOK
<1>4. RowInv' /\ CopiesInv'
  BY DEF RowInv, CopiesInv, TypeOK
<1>5. ShownInv' /\ StoredInv'
  BY DEF ShownInv, StoredInv, TypeOK
<1> QED
  BY <1>1, <1>2, <1>3, <1>4, <1>5

LEMMA SetModeStep ==
  ASSUME SyncInv, ~EarlySwitch, NEW m \in Modes, SetMode(m)
  PROVE  SyncInv'
<1> USE DEF SyncInv, SetMode, Tick, serverVars, mirrorVars, nativeVars, ownVars, passVars
<1>1. TypeOK'
  BY SyncConstants DEF TypeOK, Contents, Unresolved
<1>2. WorkInv' /\ StepInv' /\ ModeInv'
  BY DEF WorkInv, StepInv, ModeInv, Due, Settled
<1>3. FreshInv' /\ AliasInv' /\ RowInv' /\ CopiesInv'
  BY DEF FreshInv, AliasInv, RowInv, CopiesInv
<1>4. ShownInv' /\ StoredInv'
  BY DEF ShownInv, StoredInv, StepInv, Publishing
<1> QED
  BY <1>1, <1>2, <1>3, <1>4

-----------------------------------------------------------------------------
(* Steps that only move the pass on. *)

(* The records of both sides are untouched, no step is under way, and the   *)
(* next phase may be entered.                                              *)
LEMMA PhaseStep ==
  ASSUME SyncInv, step' = NoStep,
         UNCHANGED <<clock, serverVars, mirrorVars, nativeVars, ownVars, born, mode>>,
         faults' \in 0 .. MaxFaults, todo' \subseteq Resources,
         pc' \in {"idle", "writes", "fetch", "exchange", "complete", "saved", "apply", "rewrites"},
         WorkInv', ModeInv',
         \A h \in Resources : pc' = "apply" => ~row[h].pending,
         \A h \in Resources : h \in detached \ alias /\ mir[h] # 0 /\ op[h] = NoOp =>
            /\ pc' \notin {"saved", "apply"}
            /\ pc' = "complete" => h \in todo'
  PROVE  SyncInv'
<1> USE DEF SyncInv, serverVars, mirrorVars, nativeVars, ownVars
<1>1. TypeOK' /\ StepInv'
  BY DEF TypeOK, StepInv, Unresolved
<1>2. FreshInv' /\ AliasInv' /\ RowInv' /\ CopiesInv'
  BY DEF FreshInv, AliasInv, RowInv, CopiesInv
<1>3. ShownInv' /\ StoredInv'
  BY DEF ShownInv, StoredInv
<1> QED
  BY <1>1, <1>2, <1>3

LEMMA NothingStarted ==
  ASSUME TypeOK, todo = {} PROVE step = NoStep
  BY DEF TypeOK

LEMMA PassStep ==
  ASSUME SyncInv,
         StartPass \/ WritesDone \/ FetchFailed \/ ExchangeStarts \/ CompleteDone
           \/ ApplyDone \/ Crash
  PROVE  SyncInv'
<1>1. Due \subseteq Resources /\ Settled \subseteq Resources
  BY DEF Due, Settled, SyncInv, TypeOK
<1>2. /\ step' = NoStep
      /\ UNCHANGED <<clock, serverVars, mirrorVars, nativeVars, ownVars, born, mode>>
      /\ faults' \in 0 .. MaxFaults /\ todo' \subseteq Resources
      /\ pc' \in {"idle", "writes", "fetch", "exchange", "complete", "saved", "apply", "rewrites"}
  BY <1>1, SyncConstants DEF SyncInv, TypeOK, StartPass, WritesDone, FetchFailed, ExchangeStarts,
     CompleteDone, ApplyDone, Crash, Phase
<1>3. WorkInv'
  BY <1>2 DEF WorkInv, StartPass, WritesDone, FetchFailed, ExchangeStarts,
     CompleteDone, ApplyDone, Crash, Phase, Due, Settled, ownVars
<1>4. ModeInv'
  BY <1>2 DEF SyncInv, ModeInv, StartPass, WritesDone, FetchFailed, ExchangeStarts,
     CompleteDone, ApplyDone, Crash, Phase, Unresolved, ownVars, TypeOK
<1>5. pc' # "apply"
  BY DEF StartPass, WritesDone, FetchFailed, ExchangeStarts, CompleteDone, ApplyDone, Crash, Phase
<1>6. ASSUME NEW h \in Resources, h \in detached \ alias, mir[h] # 0, op[h] = NoOp
      PROVE  /\ pc' \notin {"saved", "apply"}
             /\ pc' = "complete" => h \in todo'
  <2>1. CASE CompleteDone
    BY <1>6, <2>1 DEF SyncInv, AliasInv, CompleteDone
  <2>2. CASE ExchangeStarts
    <3>1. mode = "two-way" \/ mode = "one-way"
      BY SyncConstants DEF SyncInv, TypeOK
    <3>2. mode = "two-way"
      BY <1>6, <3>1 DEF SyncInv, ModeInv
    <3>3. pc' = "complete" /\ todo' = Settled
      BY <2>2, <3>2 DEF ExchangeStarts, Phase
    <3> QED
      BY <1>6, <3>3 DEF Settled
  <2>3. CASE StartPass \/ WritesDone \/ FetchFailed \/ ApplyDone \/ Crash
    <3>1. pc' \in {"idle", "writes", "fetch", "exchange", "rewrites"}
      BY <2>3 DEF StartPass, WritesDone, FetchFailed, ApplyDone, Crash, Phase
    <3> QED
      BY <3>1
  <2> QED
    BY <2>1, <2>2, <2>3
<1> QED
  BY <1>2, <1>3, <1>4, <1>5, <1>6, PhaseStep

-----------------------------------------------------------------------------
(* The upload and the fetch. *)

LEMMA AttemptStep ==
  ASSUME SyncInv, NEW h \in Resources, Attempt(h)
  PROVE  SyncInv'
<1> USE DEF SyncInv, mirrorVars, nativeVars, serverVars
<1>1. /\ pc \in {"writes", "rewrites"} /\ h \in todo /\ todo' = todo \ {h}
      /\ UNCHANGED <<clock, faults, mirrorVars, nativeVars, row, alias, detached, born, mode, pc, step>>
  BY DEF Attempt
<1>2. op[h] \in Operations /\ op[h].state = "pending" /\ op[h] # NoOp /\ row[h] # NoRow
  BY <1>1, OpTypes DEF WorkInv, Due, TypeOK, Unresolved, NoOp
<1>3. PICK s \in {"applied", "conflict"} : op' = [op EXCEPT ![h].state = s]
  BY DEF Attempt, Applied
<1>4. /\ op'[h] \in Operations /\ op'[h] # NoOp /\ op'[h].state = s
      /\ op'[h].kind = op[h].kind /\ op'[h].base = op[h].base /\ op'[h].body = op[h].body
      /\ op' \in [Resources -> Operations \cup {NoOp}]
      /\ \A g \in Resources : g # h => op'[g] = op[g]
  <2>1. op'[h] = [op[h] EXCEPT !.state = s] /\ \A g \in Resources : g # h => op'[g] = op[g]
    BY <1>3 DEF TypeOK
  <2>2. /\ op'[h] \in Operations /\ op'[h] # NoOp /\ op'[h].state = s
        /\ op'[h].kind = op[h].kind /\ op'[h].base = op[h].base /\ op'[h].body = op[h].body
    <3>1. PICK o \in Operations : o = op[h]
      BY <1>2
    <3>2. LET p == [o EXCEPT !.state = s] IN
          /\ p \in Operations /\ p # NoOp
          /\ p.kind = o.kind /\ p.base = o.base /\ p.body = o.body /\ p.state = s
      BY ONLY OpSettled, s \in {"applied", "conflict"}, o \in Operations
    <3> QED
      BY ONLY <2>1, <3>1, <3>2
  <2>3. op' \in [Resources -> Operations \cup {NoOp}]
    BY <1>3, <2>1, <2>2 DEF TypeOK
  <2> QED
    BY <2>1, <2>2, <2>3
<1>5. step = NoStep
  BY <1>1 DEF StepInv, Publishing, TypeOK, Steps
<1>6. op[h].body \in Contents
  BY OpTypes
<1>7. /\ srv' \in [Resources -> Contents]
      /\ \A g \in Resources : g # h => srv'[g] = srv[g]
      /\ srv'[h] \in {srv[h], op[h].body}
      /\ s = "applied" => srv'[h] = op[h].body
  <2>1. CASE srv[h] = op[h].body
    BY <1>6, <2>1 DEF Attempt, TypeOK
  <2>2. CASE /\ srv[h] # op[h].body
             /\ srv' = [srv EXCEPT ![h] = op[h].body]
    BY <1>6, <2>2 DEF TypeOK
  <2>3. CASE /\ srv[h] # op[h].body
             /\ op' = [op EXCEPT ![h].state = "conflict"] /\ srv' = srv
    <3>1. op'[h].state = "conflict"
      <4>1. op'[h] = [op[h] EXCEPT !.state = "conflict"]
        BY <2>3 DEF TypeOK
      <4> QED
        BY <1>2, <4>1, OpSettled
    <3> QED
      BY <1>4, <2>3, <3>1 DEF TypeOK
  <2> QED
    BY <2>1, <2>2, <2>3 DEF Attempt
<1>8. stored \subseteq stored' /\ (srv'[h] \in stored' \cup {0})
  BY DEF Attempt, StoredInv, TypeOK
<1>9. TypeOK'
  BY <1>1, <1>4, <1>5, <1>7, <1>2 DEF TypeOK, Unresolved, Contents
<1>10. WorkInv' /\ StepInv' /\ ModeInv'
  <2>1. WorkInv'
    BY <1>1, <1>4 DEF WorkInv, Due, TypeOK
  <2> QED
    BY <2>1, <1>1, <1>5 DEF StepInv, ModeInv
<1>11. born[h] # "none"
  BY <1>2 DEF FreshInv
<1>12. FreshInv'
  BY <1>1, <1>2, <1>7, <1>11 DEF FreshInv
<1>13. AliasInv'
  BY <1>1, <1>2, <1>4, <1>5 DEF AliasInv
<1>14. RowInv' /\ CopiesInv'
  BY <1>1, <1>2, <1>4, <1>5 DEF RowInv, CopiesInv
<1>15. ShownInv'
  BY <1>1, <1>4, <1>5 DEF ShownInv
<1>16. StoredInv'
  BY <1>1, <1>4, <1>5, <1>7, <1>8 DEF StoredInv
<1> QED
  BY <1>9, <1>10, <1>12, <1>13, <1>14, <1>15, <1>16

LEMMA AnswerLostStep ==
  ASSUME SyncInv, NEW h \in Resources, AnswerLost(h)
  PROVE  SyncInv'
<1> USE DEF SyncInv, mirrorVars, nativeVars, serverVars, ownVars
<1>1. /\ pc \in {"writes", "rewrites"} /\ h \in todo /\ todo' = {}
      /\ faults' \in 0 .. MaxFaults
      /\ UNCHANGED <<clock, mirrorVars, nativeVars, ownVars, born, mode, pc, step>>
  BY SyncConstants DEF AnswerLost, TypeOK
<1>2. op[h] # NoOp /\ row[h] # NoRow
  BY <1>1, OpTypes DEF WorkInv, Due, TypeOK, Unresolved, NoOp
<1>3. step = NoStep
  BY <1>1 DEF StepInv, Publishing, TypeOK, Steps
<1>4. op[h].body \in Contents
  BY OpTypes
<1>5. /\ srv' \in [Resources -> Contents]
      /\ \A g \in Resources : g # h => srv'[g] = srv[g]
      /\ stored \subseteq stored' /\ (srv'[h] \in stored' \cup {0})
  BY <1>4 DEF AnswerLost, TypeOK, StoredInv
<1>6. TypeOK'
  BY <1>1, <1>3, <1>5 DEF TypeOK, Unresolved
<1>7. WorkInv' /\ StepInv' /\ ModeInv'
  BY <1>1, <1>3 DEF WorkInv, StepInv, ModeInv
<1>8. FreshInv'
  BY <1>1, <1>2, <1>5 DEF FreshInv
<1>9. AliasInv' /\ RowInv' /\ CopiesInv'
  BY <1>1, <1>3 DEF AliasInv, RowInv, CopiesInv
<1>10. ShownInv' /\ StoredInv'
  BY <1>1, <1>3, <1>5 DEF ShownInv, StoredInv
<1> QED
  BY <1>6, <1>7, <1>8, <1>9, <1>10

LEMMA FetchedStep ==
  ASSUME SyncInv, Fetched
  PROVE  SyncInv'
<1> USE DEF SyncInv, nativeVars, serverVars, ownVars
<1>1. /\ pc' = "exchange" /\ todo' = {} /\ step' = NoStep
      /\ UNCHANGED <<clock, faults, serverVars, nativeVars, ownVars, born, mode>>
  BY DEF Fetched, Phase
<1>2. /\ mir' \in [Resources -> Contents]
      /\ \A h \in Resources : mir'[h] \in {0, srv[h]}
      /\ retained' \subseteq Resources
  <2>1. PICK out \in SUBSET Outside :
          mir' = [h \in Resources |-> IF h \in out THEN 0 ELSE srv[h]]
    BY DEF Fetched
  <2>2. retained' \subseteq Resources
    BY DEF Fetched
  <2> QED
    BY <2>1, <2>2, SyncConstants DEF TypeOK, Contents
<1>3. TypeOK'
  BY <1>1, <1>2 DEF TypeOK, Unresolved
<1>4. WorkInv' /\ StepInv' /\ ModeInv'
  BY <1>1 DEF WorkInv, StepInv, ModeInv
<1>5. FreshInv' /\ AliasInv'
  BY <1>1, <1>2 DEF FreshInv, AliasInv
<1>6. RowInv' /\ CopiesInv'
  BY <1>1 DEF RowInv, CopiesInv
<1>7. ShownInv' /\ StoredInv'
  BY <1>1, <1>2 DEF ShownInv, StoredInv
<1> QED
  BY <1>3, <1>4, <1>5, <1>6, <1>7

-----------------------------------------------------------------------------
(* The verified uploads. *)

LEMMA CompleteDeleteStep ==
  ASSUME SyncInv, NEW h \in Resources, CompleteDelete(h)
  PROVE  SyncInv'
<1> USE DEF SyncInv, mirrorVars, nativeVars, serverVars
<1>1. /\ pc = "complete" /\ step = NoStep /\ h \in todo
      /\ op[h].kind = "delete" /\ op[h].state = "applied"
      /\ UNCHANGED <<clock, faults, serverVars, mirrorVars, nativeVars, op, alias, detached, born,
                     mode, pc>>
  BY DEF CompleteDelete, Completing
<1>2. op[h] # NoOp /\ row[h] # NoRow /\ ~row[h].pending /\ row[h].ids = TRUE
  BY <1>1, RowTypes DEF TypeOK, Unresolved, NoOp, RowInv
<1>3. CASE mir[h] # 0
  <2>1. todo' = todo \ {h} /\ step' = NoStep /\ row' = row
    BY <1>1, <1>3 DEF CompleteDelete
  <2>2. TypeOK' /\ WorkInv' /\ StepInv' /\ ModeInv'
    BY <1>1, <2>1 DEF TypeOK, WorkInv, StepInv, ModeInv, Unresolved, Settled
  <2>3. FreshInv' /\ RowInv' /\ CopiesInv'
    BY <1>1, <2>1 DEF FreshInv, RowInv, CopiesInv
  <2>4. AliasInv'
    BY <1>1, <1>2, <2>1 DEF AliasInv
  <2>5. ShownInv' /\ StoredInv'
    BY <1>1, <2>1 DEF ShownInv, StoredInv
  <2> QED
    BY <2>2, <2>3, <2>4, <2>5
<1>4. CASE mir[h] = 0
  <2>1. /\ row' = [row EXCEPT ![h] = [row[h] EXCEPT !.graph = 0]]
        /\ step' = [res |-> h, at |-> "accepted"] /\ todo' = todo
    BY <1>1, <1>4 DEF CompleteDelete
  <2>2. step' \in Steps /\ step' # NoStep /\ step'.res = h /\ step'.at = "accepted"
    BY <2>1, StepRecord
  <2>3. PICK q \in Rows : /\ row' = [row EXCEPT ![h] = q] /\ q.graph = 0 /\ q.rev = row[h].rev
                          /\ q.ids = row[h].ids /\ q.pending = row[h].pending
    <3>1. PICK r \in Rows : r = row[h]
      BY RowTypes
    <3>2. 0 \in Contents
      BY SyncConstants DEF Contents
    <3>3. LET p == [r EXCEPT !.graph = 0] IN
          p \in Rows /\ p.graph = 0 /\ p.rev = r.rev /\ p.ids = r.ids /\ p.pending = r.pending
      BY ONLY RowAccepted, r \in Rows, <3>2
    <3> QED
      BY ONLY <2>1, <3>1, <3>3
  <2>4. q # NoRow
    BY <1>2, <2>3 DEF NoRow
  <2>5. row' \in [Resources -> Rows] /\ row'[h] = q /\ \A g \in Resources : g # h => row'[g] = row[g]
    BY <2>3 DEF TypeOK
  <2>6. TypeOK' /\ WorkInv'
    BY <1>1, <2>1, <2>2, <2>4, <2>5 DEF TypeOK, WorkInv, Unresolved, Settled
  <2>7. StepInv' /\ ModeInv'
    BY <1>1, <2>2 DEF StepInv, ModeInv, Publishing
  <2>8. FreshInv'
    BY <1>1, <1>2, <2>4, <2>5 DEF FreshInv
  <2>9. AliasInv'
    BY <1>1, <1>2, <1>4, <2>1, <2>2, <2>5 DEF AliasInv
  <2>10. RowInv' /\ CopiesInv'
    BY <1>1, <1>2, <2>2, <2>3, <2>5 DEF RowInv, CopiesInv
  <2>11. ShownInv'
    BY <1>1, <2>2, <2>3, <2>5 DEF ShownInv
  <2>12. StoredInv'
    BY <1>1, <2>2, <2>3, <2>5 DEF StoredInv
  <2> QED
    BY <2>6, <2>7, <2>8, <2>9, <2>10, <2>11, <2>12
<1> QED
  BY <1>3, <1>4

LEMMA CompleteAliasStep ==
  ASSUME SyncInv, NEW h \in Resources, CompleteAlias(h)
  PROVE  SyncInv'
<1> USE DEF SyncInv, mirrorVars, nativeVars, serverVars
<1>1. /\ pc = "complete" /\ step = NoStep /\ h \in todo
      /\ UNCHANGED <<clock, faults, serverVars, mirrorVars, nativeVars, row, op, born, mode, pc>>
  BY DEF CompleteAlias, Completing
<1>2. IF mir[h] # 0
      THEN alias' = alias \cup {h} /\ detached' = detached \ {h}
      ELSE detached' = detached \cup {h} /\ alias' = alias
  BY DEF CompleteAlias
<1>3. \/ /\ op[h].state # "applied" /\ todo' = todo \ {h} /\ step' = NoStep
      \/ /\ op[h].state = "applied" /\ todo' = todo
         /\ step' = [res |-> h, at |-> "aliased"]
         /\ step' \in Steps /\ step' # NoStep /\ step'.res = h /\ step'.at = "aliased"
  <2>1. [res |-> h, at |-> "aliased"] \in Steps
    BY StepRecord
  <2>2. [res |-> h, at |-> "aliased"] # NoStep
    BY <2>1, SyncConstants
  <2>3. CASE op[h].state # "applied"
    BY <1>1, <2>3 DEF CompleteAlias, OnlyAlias
  <2>4. CASE op[h].state = "applied"
    BY <1>1, <2>1, <2>2, <2>4 DEF CompleteAlias, OnlyAlias
  <2> QED
    BY <2>3, <2>4
<1>4. op[h].state = "applied" \/ h \in detached
  BY <1>1 DEF WorkInv, Settled
<1>5. born[h] # "none" /\ (row[h] = NoRow /\ born[h] = "local" => h \in alias \cup detached)
      /\ (row[h] = NoRow /\ nat[h] # 0 => h \in alias \cup detached)
  <2>1. op[h].state = "applied" => row[h] # NoRow
    BY DEF TypeOK, Unresolved, NoOp
  <2> QED
    BY <1>4, <2>1 DEF FreshInv
<1>6. alias' \subseteq Resources /\ detached' \subseteq Resources /\ h \in alias' \cup detached'
      /\ (mir[h] # 0 => h \in alias') /\ alias \subseteq alias'
      /\ \A g \in Resources : g # h => (g \in alias' <=> g \in alias) /\ (g \in detached' <=> g \in detached)
  BY <1>2 DEF TypeOK
<1>7. TypeOK'
  BY <1>1, <1>3, <1>6 DEF TypeOK, Unresolved
<1>8. WorkInv'
  <2>1. \A g \in Resources : g # h /\ g \in todo' => g \in todo
    BY <1>3
  <2>2. h \in todo' => op[h].state = "applied"
    BY <1>3
  <2> QED
    BY <1>1, <1>6, <2>1, <2>2, <1>7 DEF WorkInv, Settled, TypeOK
<1>9. StepInv' /\ ModeInv'
  BY <1>1, <1>3, SyncConstants DEF StepInv, ModeInv, Publishing, TypeOK
<1>10. FreshInv'
  BY <1>1, <1>5, <1>6 DEF FreshInv
<1>11. AliasInv'
  BY <1>1, <1>3, <1>6 DEF AliasInv
<1>12. RowInv' /\ CopiesInv'
  BY <1>1, <1>3 DEF RowInv, CopiesInv
<1>13. ShownInv' /\ StoredInv'
  BY <1>1, <1>3 DEF ShownInv, StoredInv
<1> QED
  BY <1>7, <1>8, <1>9, <1>10, <1>11, <1>12, <1>13

LEMMA AcceptReceiptStep ==
  ASSUME SyncInv, AcceptReceipt
  PROVE  SyncInv'
<1> USE DEF SyncInv, mirrorVars, nativeVars, serverVars
<1>1. /\ pc = "complete" /\ step # NoStep /\ step.at = "aliased"
      /\ UNCHANGED <<clock, faults, serverVars, mirrorVars, nativeVars, op, alias, detached, born,
                     mode, pc>>
  BY DEF AcceptReceipt
<1>2. PICK h \in Resources : h = step.res
  BY <1>1, StepFacts
<1>3. op[h].state = "applied" /\ op[h] # NoOp /\ row[h] # NoRow
  BY <1>1, <1>2 DEF StepInv, Publishing, TypeOK, Unresolved, NoOp
<1>4. ~row[h].pending /\ row[h].ids = TRUE
  BY <1>3, RowTypes DEF RowInv
<1>5. /\ row' = [row EXCEPT ![h] = [row[h] EXCEPT !.graph = op[h].body, !.rev = op[h].body]]
      /\ step' = [step EXCEPT !.at = "accepted"] /\ todo' = todo
  BY <1>1, <1>2, <1>4 DEF AcceptReceipt, TypeOK
<1>6. step' \in Steps /\ step' # NoStep /\ step'.res = h /\ step'.at = "accepted" /\ h \in todo
  <2>1. step' = [res |-> h, at |-> "accepted"] /\ h \in todo
    BY <1>1, <1>2, <1>5, StepFacts
  <2> QED
    BY <2>1, StepRecord
<1>7. PICK q \in Rows : /\ row' = [row EXCEPT ![h] = q] /\ q.graph = op[h].body /\ q.rev = op[h].body
                        /\ q.ids = row[h].ids /\ q.pending = row[h].pending
  <2>1. PICK c \in Contents : c = op[h].body
    BY OpTypes
  <2>2. PICK r \in Rows : r = row[h]
    BY RowTypes
  <2>3. LET p == [r EXCEPT !.graph = c, !.rev = c] IN
        p \in Rows /\ p.graph = c /\ p.rev = c /\ p.ids = r.ids /\ p.pending = r.pending
    BY ONLY RowAdvanced, r \in Rows, c \in Contents
  <2> QED
    BY ONLY <1>5, <2>1, <2>2, <2>3
<1>8. q # NoRow
  BY <1>4, <1>7 DEF NoRow
<1>9. row' \in [Resources -> Rows] /\ row'[h] = q /\ \A g \in Resources : g # h => row'[g] = row[g]
  BY <1>7 DEF TypeOK
<1>10. TypeOK' /\ WorkInv'
  BY <1>1, <1>5, <1>6, <1>8, <1>9 DEF TypeOK, WorkInv, Unresolved, Settled
<1>11. StepInv' /\ ModeInv'
  BY <1>1, <1>3, <1>6 DEF StepInv, ModeInv, Publishing
<1>12. FreshInv'
  BY <1>1, <1>3, <1>8, <1>9 DEF FreshInv
<1>13. AliasInv'
  BY <1>1, <1>2, <1>3, <1>5, <1>6, <1>9 DEF AliasInv
<1>14. RowInv' /\ CopiesInv'
  BY <1>1, <1>4, <1>6, <1>7, <1>9 DEF RowInv, CopiesInv
<1>15. ShownInv'
  BY <1>1, <1>6, <1>7, <1>9 DEF ShownInv
<1>16. StoredInv'
  BY <1>1, <1>3, <1>6, <1>7, <1>9 DEF StoredInv
<1> QED
  BY <1>10, <1>11, <1>12, <1>13, <1>14, <1>15, <1>16

LEMMA AcknowledgeStep ==
  ASSUME SyncInv, Acknowledge
  PROVE  SyncInv'
<1> USE DEF SyncInv, mirrorVars, nativeVars, serverVars
<1>1. /\ pc = "complete" /\ step # NoStep /\ step.at = "accepted"
      /\ step' = NoStep /\ todo' = todo \ {step.res} /\ op' = [op EXCEPT ![step.res] = NoOp]
      /\ UNCHANGED <<clock, faults, serverVars, mirrorVars, nativeVars, row, alias, detached, born,
                     mode, pc>>
  BY DEF Acknowledge, NextTask
<1>2. PICK h \in Resources : h = step.res
  BY <1>1, StepFacts
<1>3. op[h].state = "applied" /\ row[h] # NoRow /\ ~row[h].pending
  BY <1>1, <1>2 DEF StepInv, Publishing, TypeOK, Unresolved, NoOp, RowInv
<1>4. /\ op' \in [Resources -> Operations \cup {NoOp}]
      /\ op'[h] = NoOp /\ \A g \in Resources : g # h => op'[g] = op[g]
  BY <1>1, <1>2 DEF TypeOK
<1>5. TypeOK'
  BY <1>1, <1>4 DEF TypeOK, Unresolved
<1>6. WorkInv' /\ StepInv' /\ ModeInv'
  <2>1. WorkInv'
    BY <1>1, <1>2, <1>4 DEF WorkInv, Settled, TypeOK
  <2> QED
    BY <1>1, <2>1 DEF StepInv, ModeInv
<1>7. FreshInv' /\ CopiesInv'
  BY <1>1 DEF FreshInv, CopiesInv
<1>8. AliasInv'
  BY <1>1, <1>2, <1>4 DEF AliasInv
<1>9. RowInv'
  BY <1>1, <1>3, <1>4 DEF RowInv
<1>10. ShownInv' /\ StoredInv'
  BY <1>1, <1>2, <1>4 DEF ShownInv, StoredInv, NoOp
<1> QED
  BY <1>5, <1>6, <1>7, <1>8, <1>9, <1>10

-----------------------------------------------------------------------------
(* The exchange: decisions. *)

LEMMA SavedResourcesStep ==
  ASSUME SyncInv, SavedResources
  PROVE  SyncInv'
<1> USE DEF SyncInv, mirrorVars, nativeVars, serverVars
<1>1. /\ pc = "saved" /\ step' = NoStep
      /\ UNCHANGED <<clock, faults, serverVars, mirrorVars, nativeVars, op, alias, detached, born, mode>>
  BY DEF SavedResources, Phase
<1>2. CASE pc' = "idle" /\ todo' = {} /\ row' = row
  BY <1>1, <1>2 DEF TypeOK, WorkInv, StepInv, ModeInv, FreshInv, AliasInv, RowInv, CopiesInv,
     ShownInv, StoredInv, Unresolved
<1>3. CASE /\ \A h \in Interrupted : Recoverable(h)
           /\ row' = [h \in Resources |->
                IF h \in Interrupted THEN [row[h] EXCEPT !.ids = TRUE, !.pending = FALSE] ELSE row[h]]
           /\ pc' = "apply" /\ todo' = Resources
  <2>1. ASSUME NEW h \in Resources
        PROVE  /\ row'[h] \in Rows /\ row'[h].graph = row[h].graph /\ row'[h].rev = row[h].rev
               /\ row'[h].pending = FALSE
               /\ row[h].pending => row'[h].ids = TRUE /\ op[h] = NoOp /\ row[h].rev = nat[h]
               /\ ~row[h].pending => row'[h] = row[h]
    <3>1. PICK r \in Rows : r = row[h]
      BY RowTypes
    <3>2. LET q == [r EXCEPT !.ids = TRUE, !.pending = FALSE] IN
          q \in Rows /\ q.graph = r.graph /\ q.rev = r.rev /\ q.ids = TRUE /\ q.pending = FALSE
      BY ONLY RowRecovered, r \in Rows
    <3>3. CASE row[h].pending
      <4>1. row'[h] = [r EXCEPT !.ids = TRUE, !.pending = FALSE]
        BY <1>3, <3>1, <3>3 DEF Interrupted
      <4>2. op[h] = NoOp /\ row[h].rev = nat[h]
        BY <1>3, <3>3 DEF Interrupted, Recoverable, RowInv
      <4> QED
        BY <3>1, <3>2, <3>3, <4>1, <4>2
    <3>4. CASE ~row[h].pending
      BY <1>3, <3>1, <3>4, RowTypes DEF Interrupted
    <3> QED
      BY <3>3, <3>4
  <2>2. row' \in [Resources -> Rows]
    BY <1>3, <2>1
  <2>3. ASSUME NEW h \in Resources PROVE (row'[h] = NoRow) <=> (row[h] = NoRow)
    <3>1. CASE row[h].pending
      <4>1. row'[h].ids = TRUE
        BY <2>1, <3>1
      <4>2. NoRow.ids = FALSE /\ NoRow.pending = FALSE
        BY DEF NoRow
      <4> QED
        BY ONLY <3>1, <4>1, <4>2
    <3>2. CASE ~row[h].pending
      BY <2>1, <3>2
    <3> QED
      BY <3>1, <3>2
  <2>4. TypeOK'
    BY <1>1, <1>3, <2>2, <2>3 DEF TypeOK, Unresolved
  <2>5. WorkInv' /\ StepInv' /\ ModeInv'
    BY <1>1, <1>3 DEF WorkInv, StepInv, ModeInv
  <2>6. FreshInv' /\ AliasInv' /\ CopiesInv'
    BY <1>1, <1>3, <2>3 DEF FreshInv, AliasInv, CopiesInv
  <2>7. RowInv'
    BY <1>1, <2>1, <2>3 DEF RowInv
  <2>8. ShownInv'
    BY <1>1, <2>1 DEF ShownInv
  <2>9. StoredInv'
    BY <1>1, <2>1 DEF StoredInv
  <2> QED
    BY <2>4, <2>5, <2>6, <2>7, <2>8, <2>9
<1> QED
  BY <1>2, <1>3 DEF SavedResources, Phase

LEMMA AwaitMirrorStep ==
  ASSUME SyncInv, NEW h \in Resources, AwaitMirror(h)
  PROVE  SyncInv'
<1> USE DEF SyncInv, mirrorVars, nativeVars, serverVars, ownVars
<1>1. /\ pc = "complete" /\ step = NoStep /\ todo' = todo \ {h}
      /\ op[h] # NoOp
      /\ UNCHANGED <<clock, serverVars, mirrorVars, nativeVars, ownVars, born, mode, pc, step>>
  BY DEF AwaitMirror, Completing, OnlyAlias, NoOp
<1>2. faults' \in 0 .. MaxFaults
  BY SyncConstants DEF AwaitMirror, TypeOK
<1>3. TypeOK'
  BY <1>1, <1>2 DEF TypeOK, Unresolved
<1>4. Settled' = Settled
  BY <1>1 DEF Settled
<1>5. WorkInv' /\ StepInv' /\ ModeInv'
  BY <1>1, <1>4 DEF WorkInv, StepInv, ModeInv
<1>6. FreshInv' /\ AliasInv'
  BY <1>1 DEF FreshInv, AliasInv
<1>7. RowInv' /\ CopiesInv' /\ ShownInv' /\ StoredInv'
  BY <1>1 DEF RowInv, CopiesInv, ShownInv, StoredInv
<1> QED
  BY <1>3, <1>5, <1>6, <1>7

LEMMA SkipStep ==
  ASSUME SyncInv, NEW h \in Resources, Skip(h)
  PROVE  SyncInv'
<1> USE DEF SyncInv, mirrorVars, nativeVars, serverVars, ownVars
<1>1. /\ pc = "apply" /\ step = NoStep /\ todo' = todo \ {h}
      /\ UNCHANGED <<clock, faults, serverVars, mirrorVars, nativeVars, ownVars, born, mode, pc, step>>
  BY DEF Skip, Apply
<1> QED
  BY <1>1 DEF TypeOK, WorkInv, StepInv, ModeInv, FreshInv, AliasInv, RowInv, CopiesInv,
     ShownInv, StoredInv, Unresolved

LEMMA QueueEditStep ==
  ASSUME SyncInv, NEW h \in Resources, QueueEdit(h)
  PROVE  SyncInv'
<1> USE DEF SyncInv, mirrorVars, nativeVars, serverVars
<1>1. /\ pc = "apply" /\ step = NoStep /\ op[h] = NoOp /\ mode = "two-way"
      /\ row[h] # NoRow /\ todo' = todo \ {h}
      /\ UNCHANGED <<clock, faults, serverVars, mirrorVars, nativeVars, row, alias, detached, born,
                     mode, pc, step>>
  BY DEF QueueEdit, Apply, RCNativeBusy, Unresolved, LocallyChanged, Known
<1>2. ~row[h].pending
  BY <1>1 DEF RowInv
<1>3. row[h].rev \in Contents /\ nat[h] \in Contents
  BY RowTypes DEF TypeOK
<1>4. PICK k \in {"update", "delete"}, o \in Operations :
        /\ op' = [op EXCEPT ![h] = o] /\ o # NoOp
        /\ o.kind = k /\ o.base = row[h].rev /\ o.body = nat[h] /\ o.state = "pending"
  <2>1. PICK k \in {"update", "delete"} : k = IF nat[h] = 0 THEN "delete" ELSE "update"
    OBVIOUS
  <2>2. op' = [op EXCEPT ![h] = [kind |-> k, base |-> row[h].rev, body |-> nat[h], state |-> "pending"]]
    BY <2>1 DEF QueueEdit, RCNativeQueue
  <2> QED
    <3>1. PICK c \in Contents, b \in Contents : c = nat[h] /\ b = row[h].rev
      BY <1>3
    <3>2. LET p == [kind |-> k, base |-> b, body |-> c, state |-> "pending"] IN
          /\ p \in Operations /\ p # NoOp
          /\ p.kind = k /\ p.base = b /\ p.body = c /\ p.state = "pending"
      BY ONLY NewOperation, k \in {"update", "delete"}, b \in Contents, c \in Contents
    <3> QED
      BY ONLY <2>2, <3>1, <3>2, k \in {"update", "delete"}
<1>5. /\ op' \in [Resources -> Operations \cup {NoOp}]
      /\ op'[h] = o /\ \A g \in Resources : g # h => op'[g] = op[g]
  BY <1>4 DEF TypeOK
<1>6. TypeOK'
  BY <1>1, <1>5 DEF TypeOK, Unresolved
<1>7. WorkInv' /\ StepInv' /\ ModeInv'
  BY <1>1 DEF WorkInv, StepInv, ModeInv
<1>8. FreshInv' /\ CopiesInv'
  BY <1>1 DEF FreshInv, CopiesInv
<1>9. AliasInv'
  BY <1>1, <1>4, <1>5 DEF AliasInv, NoOp
<1>10. RowInv'
  BY <1>1, <1>2, <1>5 DEF RowInv
<1>11. ShownInv'
  BY <1>1, <1>2, <1>4, <1>5 DEF ShownInv
<1>12. StoredInv'
  BY <1>1, <1>4, <1>5 DEF StoredInv
<1> QED
  BY <1>6, <1>7, <1>8, <1>9, <1>10, <1>11, <1>12

LEMMA QueueCreateStep ==
  ASSUME SyncInv, NEW h \in Resources, QueueCreate(h)
  PROVE  SyncInv'
<1> USE DEF SyncInv, mirrorVars, nativeVars, serverVars
<1>1. /\ pc = "apply" /\ step = NoStep /\ mode = "two-way" /\ op[h] = NoOp
      /\ nat[h] # 0 /\ todo' = todo \ {h}
      /\ UNCHANGED <<clock, faults, serverVars, mirrorVars, nativeVars, alias, detached, born, mode,
                     pc, step>>
  BY DEF QueueCreate, Apply, RCNativeBusy, Unresolved
<1>2. nat[h] \in Contents /\ 0 \in Contents
  BY SyncConstants DEF TypeOK, Contents
<1>3. PICK o \in Operations :
        /\ op' = [op EXCEPT ![h] = o] /\ o # NoOp
        /\ o.kind = "create" /\ o.base = 0 /\ o.body = nat[h] /\ o.state = "pending"
  <2>1. PICK c \in Contents, b \in Contents : c = nat[h] /\ b = 0
    BY <1>2
  <2>2. LET p == [kind |-> "create", base |-> b, body |-> c, state |-> "pending"] IN
        /\ p \in Operations /\ p # NoOp
        /\ p.kind = "create" /\ p.base = b /\ p.body = c /\ p.state = "pending"
    BY ONLY NewOperation, b \in Contents, c \in Contents
  <2>3. op' = [op EXCEPT ![h] = [kind |-> "create", base |-> b, body |-> c, state |-> "pending"]]
    BY <2>1 DEF QueueCreate
  <2> QED
    BY ONLY <2>1, <2>2, <2>3
<1>4. PICK q \in Rows :
        /\ row' = [row EXCEPT ![h] = q]
        /\ q.graph = nat[h] /\ q.rev = 0 /\ q.ids = TRUE /\ q.pending = FALSE
  <2>1. PICK c \in Contents, b \in Contents : c = nat[h] /\ b = 0
    BY <1>2
  <2>2. LET r == [graph |-> c, rev |-> b, ids |-> TRUE, pending |-> FALSE] IN
        r \in Rows /\ r.graph = c /\ r.rev = b /\ r.ids = TRUE /\ r.pending = FALSE
    BY ONLY RowRecord, b \in Contents, c \in Contents
  <2>3. row' = [row EXCEPT ![h] = [graph |-> c, rev |-> b, ids |-> TRUE, pending |-> FALSE]]
    BY <2>1 DEF QueueCreate
  <2> QED
    BY ONLY <2>1, <2>2, <2>3
<1>5. q # NoRow
  BY <1>4 DEF NoRow
<1>6. /\ op' \in [Resources -> Operations \cup {NoOp}]
      /\ op'[h] = o /\ \A g \in Resources : g # h => op'[g] = op[g]
  BY <1>3 DEF TypeOK
<1>7. /\ row' \in [Resources -> Rows]
      /\ row'[h] = q /\ \A g \in Resources : g # h => row'[g] = row[g]
  BY <1>4 DEF TypeOK
<1>8. TypeOK'
  BY <1>1, <1>5, <1>6, <1>7 DEF TypeOK, Unresolved
<1>9. WorkInv' /\ StepInv' /\ ModeInv'
  BY <1>1 DEF WorkInv, StepInv, ModeInv
<1>10. FreshInv' /\ CopiesInv'
  BY <1>1, <1>5, <1>7 DEF FreshInv, CopiesInv
<1>11. AliasInv'
  BY <1>1, <1>3, <1>6, <1>7 DEF AliasInv
<1>12. RowInv'
  BY <1>1, <1>4, <1>6, <1>7 DEF RowInv
<1>13. ShownInv'
  BY <1>1, <1>3, <1>4, <1>6, <1>7 DEF ShownInv
<1>14. StoredInv'
  BY <1>1, <1>3, <1>6, <1>7 DEF StoredInv
<1> QED
  BY <1>8, <1>9, <1>10, <1>11, <1>12, <1>13, <1>14

-----------------------------------------------------------------------------
(* The exchange: publication and removal. *)

(* A native record is found before it is saved over: its row exists, the    *)
(* mirrored identity leads to it, and it holds the native id.              *)
LEMMA RecordIsFound ==
  ASSUME SyncInv, NEW h \in Resources, pc = "apply", step = NoStep,
         op[h] = NoOp, mir[h] # 0, nat[h] # 0
  PROVE  Known(h) /\ row[h].ids = TRUE
<1> USE DEF SyncInv
<1>1. born[h] # "none" /\ row[h] # NoRow
  BY DEF FreshInv
<1>2. h \notin detached \ alias
  BY DEF AliasInv
<1>3. born[h] = "local" => h \in alias
  BY <1>1, <1>2 DEF AliasInv, NoOp
<1>4. row[h].ids = TRUE
  BY <1>1, RowTypes DEF RowInv
<1> QED
  BY <1>1, <1>3, <1>4 DEF Known, TypeOK

LEMMA PublishReserveStep ==
  ASSUME SyncInv, NEW h \in Resources, PublishReserve(h)
  PROVE  SyncInv'
<1> USE DEF SyncInv, mirrorVars, nativeVars, serverVars
<1>1. /\ pc = "apply" /\ step = NoStep /\ h \in todo /\ op[h] = NoOp /\ mir[h] # 0
      /\ step' = [res |-> h, at |-> "reserved"]
      /\ UNCHANGED <<clock, faults, serverVars, mirrorVars, nativeVars, op, alias, detached, born,
                     mode, pc, todo>>
  BY DEF PublishReserve, Apply, RCNativeBusy, Unresolved
<1>2. step' \in Steps /\ step' # NoStep /\ step'.res = h /\ step'.at = "reserved"
  BY <1>1, StepRecord
<1>3. PICK i \in BOOLEAN : i = (Known(h) /\ row[h].ids)
  OBVIOUS
<1>4. PICK q \in Rows :
        /\ row' = [row EXCEPT ![h] = q]
        /\ q.graph = mir[h] /\ q.rev = mir[h] /\ q.ids = i /\ q.pending = TRUE
  <2>1. mir[h] \in Contents
    BY DEF TypeOK
  <2>2. row' = [row EXCEPT ![h] = [graph |-> mir[h], rev |-> mir[h], ids |-> i, pending |-> TRUE]]
    BY <1>3 DEF PublishReserve
  <2> QED
    BY <2>1, <2>2, RowRecord
<1>5. q # NoRow
  BY <1>4 DEF NoRow
<1>6. /\ row' \in [Resources -> Rows]
      /\ row'[h] = q /\ \A g \in Resources : g # h => row'[g] = row[g]
  BY <1>4 DEF TypeOK
<1>7. born[h] # "none"
  BY <1>1 DEF FreshInv
<1>8. TypeOK' /\ WorkInv'
  BY <1>1, <1>2, <1>5, <1>6 DEF TypeOK, WorkInv, Unresolved
<1>9. StepInv' /\ ModeInv'
  BY <1>1, <1>2 DEF StepInv, ModeInv, Publishing
<1>10. FreshInv' /\ CopiesInv'
  BY <1>1, <1>5, <1>6, <1>7 DEF FreshInv, CopiesInv
<1>11. AliasInv'
  <2>1. born[h] = "local" => h \in alias \cup detached
    BY <1>1 DEF AliasInv, FreshInv, NoOp
  <2> QED
    BY <1>1, <1>2, <1>6, <2>1 DEF AliasInv
<1>12. RowInv'
  <2>1. i \/ nat[h] = 0
    BY <1>1, <1>3, RecordIsFound
  <2> QED
    BY <1>1, <1>2, <1>4, <1>6, <2>1 DEF RowInv
<1>13. ShownInv'
  BY <1>1, <1>2, <1>4, <1>6 DEF ShownInv
<1>14. StoredInv'
  <2>1. mode = "two-way" /\ nat[h] # 0 => row[h].graph = nat[h]
    BY <1>1, RecordIsFound DEF PublishReserve, LocallyChanged
  <2> QED
    BY <1>1, <1>2, <1>4, <1>6, <2>1 DEF StoredInv
<1> QED
  BY <1>8, <1>9, <1>10, <1>11, <1>12, <1>13, <1>14

LEMMA PublishSaveStep ==
  ASSUME SyncInv, PublishSave
  PROVE  SyncInv'
<1> USE DEF SyncInv, mirrorVars, serverVars, ownVars
<1>1. /\ pc = "apply" /\ step # NoStep /\ step.at = "reserved"
      /\ step' = [step EXCEPT !.at = "saved"]
      /\ UNCHANGED <<clock, faults, serverVars, mirrorVars, made, ownVars, born, mode, pc, todo>>
  BY DEF PublishSave
<1>2. PICK h \in Resources : h = step.res
  BY <1>1, StepFacts
<1>3. step' \in Steps /\ step' # NoStep /\ step'.res = h /\ step'.at = "saved" /\ h \in todo
  <2>1. step' = [res |-> h, at |-> "saved"] /\ h \in todo
    BY <1>1, <1>2, StepFacts
  <2> QED
    BY <2>1, StepRecord
<1>4. /\ row[h].pending /\ row[h].graph # 0 /\ row[h].rev = row[h].graph /\ op[h] = NoOp
      /\ row[h].ids \/ nat[h] = 0
  BY <1>1, <1>2 DEF RowInv
<1>5. row[h] # NoRow
  BY <1>4 DEF NoRow
<1>6. /\ nat' = [nat EXCEPT ![h] = row[h].graph] /\ shown' = shown \cup {row[h].graph}
      /\ copies' = [copies EXCEPT ![h] = IF row[h].ids /\ nat[h] # 0 THEN copies[h] ELSE copies[h] + 1]
  BY <1>2 DEF PublishSave
<1>7. /\ nat' \in [Resources -> Contents] /\ nat'[h] = row[h].graph
      /\ \A g \in Resources : g # h => nat'[g] = nat[g]
  BY <1>6, RowTypes DEF TypeOK
<1>8. copies[h] \in Nat /\ copies[h] <= 1 /\ (nat[h] = 0 => copies[h] = 0)
  BY DEF CopiesInv, TypeOK
<1>9. /\ copies' \in [Resources -> Nat] /\ copies'[h] <= 1
      /\ \A g \in Resources : g # h => copies'[g] = copies[g]
  BY <1>4, <1>6, <1>8 DEF TypeOK
<1>10. TypeOK' /\ WorkInv'
  BY <1>1, <1>3, <1>7, <1>9 DEF TypeOK, WorkInv, Unresolved
<1>11. StepInv' /\ ModeInv'
  BY <1>1, <1>3, <1>4 DEF StepInv, ModeInv, Publishing
<1>12. FreshInv' /\ CopiesInv'
  BY <1>1, <1>4, <1>5, <1>7, <1>9 DEF FreshInv, CopiesInv
<1>13. AliasInv'
  BY <1>1, <1>3 DEF AliasInv
<1>14. RowInv'
  BY <1>1, <1>2, <1>3, <1>4, <1>7 DEF RowInv
<1>15. ShownInv'
  BY <1>1, <1>3, <1>4, <1>6, <1>7 DEF ShownInv
<1>16. StoredInv'
  BY <1>1, <1>3 DEF StoredInv
<1> QED
  BY <1>10, <1>11, <1>12, <1>13, <1>14, <1>15, <1>16

LEMMA PublishIdStep ==
  ASSUME SyncInv, PublishId
  PROVE  SyncInv'
<1> USE DEF SyncInv, mirrorVars, nativeVars, serverVars
<1>1. /\ pc = "apply" /\ step # NoStep /\ step.at = "saved"
      /\ step' = [step EXCEPT !.at = "named"]
      /\ UNCHANGED <<clock, faults, serverVars, mirrorVars, nativeVars, op, alias, detached, born,
                     mode, pc, todo>>
  BY DEF PublishId
<1>2. PICK h \in Resources : h = step.res
  BY <1>1, StepFacts
<1>3. step' \in Steps /\ step' # NoStep /\ step'.res = h /\ step'.at = "named" /\ h \in todo
  <2>1. step' = [res |-> h, at |-> "named"] /\ h \in todo
    BY <1>1, <1>2, StepFacts
  <2> QED
    BY <2>1, StepRecord
<1>4. row[h].pending /\ op[h] = NoOp /\ row[h].rev \in shown
  BY <1>1, <1>2 DEF RowInv, ShownInv
<1>5. row[h] # NoRow
  BY <1>4 DEF NoRow
<1>6. PICK q \in Rows : /\ row' = [row EXCEPT ![h] = q] /\ q.graph = row[h].graph /\ q.rev = row[h].rev
                        /\ q.ids = TRUE /\ q.pending = row[h].pending
  <2>1. row' = [row EXCEPT ![h] = [row[h] EXCEPT !.ids = TRUE]]
    BY <1>2 DEF PublishId, TypeOK
  <2>2. PICK r \in Rows : r = row[h]
    BY RowTypes
  <2>3. LET p == [r EXCEPT !.ids = TRUE] IN
        p \in Rows /\ p.graph = r.graph /\ p.rev = r.rev /\ p.ids = TRUE /\ p.pending = r.pending
    BY ONLY RowNamed, r \in Rows
  <2> QED
    BY ONLY <2>1, <2>2, <2>3
<1>7. q # NoRow
  BY <1>6 DEF NoRow
<1>8. row' \in [Resources -> Rows] /\ row'[h] = q /\ \A g \in Resources : g # h => row'[g] = row[g]
  BY <1>6 DEF TypeOK
<1>9. TypeOK' /\ WorkInv'
  BY <1>1, <1>3, <1>7, <1>8 DEF TypeOK, WorkInv, Unresolved
<1>10. StepInv' /\ ModeInv'
  BY <1>1, <1>3, <1>4 DEF StepInv, ModeInv, Publishing
<1>11. FreshInv' /\ AliasInv' /\ CopiesInv'
  BY <1>1, <1>3, <1>5, <1>7, <1>8 DEF FreshInv, AliasInv, CopiesInv
<1>12. RowInv'
  <2>1. row[h].graph # 0 /\ row[h].rev = row[h].graph
    BY <1>4 DEF RowInv
  <2>2. q.graph # 0 /\ q.rev = q.graph /\ q.ids /\ q.pending /\ op[h] = NoOp
    BY <1>4, <1>6, <2>1
  <2>3. ASSUME NEW g \in Resources
        PROVE  /\ row'[g] # NoRow /\ ~row'[g].ids => row'[g].pending
               /\ row'[g].pending => op[g] = NoOp /\ row'[g].graph # 0 /\ row'[g].rev = row'[g].graph
               /\ row'[g].pending => g = h
    <3>1. CASE g = h
      BY <1>8, <2>2, <3>1
    <3>2. CASE g # h
      BY <1>1, <1>2, <1>8, <3>2 DEF RowInv
    <3> QED
      BY <3>1, <3>2
  <2> QED
    BY <1>1, <1>2, <1>3, <1>8, <2>2, <2>3 DEF RowInv
<1>13. ShownInv'
  BY <1>1, <1>3, <1>4, <1>6, <1>8 DEF ShownInv
<1>14. StoredInv'
  BY <1>1, <1>3, <1>6, <1>8 DEF StoredInv
<1> QED
  BY <1>9, <1>10, <1>11, <1>12, <1>13, <1>14

LEMMA PublishConfirmStep ==
  ASSUME SyncInv, PublishConfirm
  PROVE  SyncInv'
<1> USE DEF SyncInv, mirrorVars, nativeVars, serverVars
<1>1. /\ pc = "apply" /\ step # NoStep /\ step.at = "named"
      /\ step' = NoStep /\ todo' = todo \ {step.res}
      /\ UNCHANGED <<clock, faults, serverVars, mirrorVars, nativeVars, op, alias, detached, born,
                     mode, pc>>
  BY DEF PublishConfirm, NextTask
<1>2. PICK h \in Resources : h = step.res
  BY <1>1, StepFacts
<1>3. row[h].pending /\ row[h].ids = TRUE /\ op[h] = NoOp /\ row[h].rev \in shown
  BY <1>1, <1>2, RowTypes DEF RowInv, ShownInv
<1>4. row[h] # NoRow
  BY <1>3 DEF NoRow
<1>5. PICK q \in Rows : /\ row' = [row EXCEPT ![h] = q] /\ q.graph = row[h].graph /\ q.rev = row[h].rev
                        /\ q.ids = row[h].ids /\ q.pending = FALSE
  <2>1. row' = [row EXCEPT ![h] = [row[h] EXCEPT !.pending = FALSE]]
    BY <1>2 DEF PublishConfirm, TypeOK
  <2>2. PICK r \in Rows : r = row[h]
    BY RowTypes
  <2>3. LET p == [r EXCEPT !.pending = FALSE] IN
        p \in Rows /\ p.graph = r.graph /\ p.rev = r.rev /\ p.ids = r.ids /\ p.pending = FALSE
    BY ONLY RowConfirmed, r \in Rows
  <2> QED
    BY ONLY <2>1, <2>2, <2>3
<1>6. q # NoRow
  BY <1>3, <1>5 DEF NoRow
<1>7. row' \in [Resources -> Rows] /\ row'[h] = q /\ \A g \in Resources : g # h => row'[g] = row[g]
  BY <1>5 DEF TypeOK
<1>8. TypeOK' /\ WorkInv'
  BY <1>1, <1>6, <1>7 DEF TypeOK, WorkInv, Unresolved
<1>9. StepInv' /\ ModeInv'
  BY <1>1 DEF StepInv, ModeInv
<1>10. FreshInv' /\ AliasInv' /\ CopiesInv'
  BY <1>1, <1>4, <1>6, <1>7 DEF FreshInv, AliasInv, CopiesInv
<1>11. RowInv'
  BY <1>1, <1>2, <1>3, <1>5, <1>7 DEF RowInv
<1>12. ShownInv' /\ StoredInv'
  BY <1>1, <1>3, <1>5, <1>7 DEF ShownInv, StoredInv
<1> QED
  BY <1>8, <1>9, <1>10, <1>11, <1>12

LEMMA RemoveNativeStep ==
  ASSUME SyncInv, NEW h \in Resources, RemoveNative(h)
  PROVE  SyncInv'
<1> USE DEF SyncInv, mirrorVars, serverVars, ownVars
<1>1. /\ pc = "apply" /\ step = NoStep /\ h \in todo /\ op[h] = NoOp
      /\ nat' = [nat EXCEPT ![h] = 0] /\ copies' = [copies EXCEPT ![h] = 0]
      /\ step' = [res |-> h, at |-> "removed"]
      /\ UNCHANGED <<clock, faults, serverVars, mirrorVars, shown, made, ownVars, born, mode, pc, todo>>
  BY DEF RemoveNative, Apply, RCNativeBusy, Unresolved
<1>2. step' \in Steps /\ step' # NoStep /\ step'.res = h /\ step'.at = "removed"
  BY <1>1, StepRecord
<1>3. /\ nat' \in [Resources -> Contents] /\ copies' \in [Resources -> Nat]
      /\ nat'[h] = 0 /\ copies'[h] = 0
      /\ \A g \in Resources : g # h => nat'[g] = nat[g] /\ copies'[g] = copies[g]
  BY <1>1, SyncConstants DEF TypeOK, Contents
<1>4. TypeOK' /\ WorkInv'
  BY <1>1, <1>2, <1>3 DEF TypeOK, WorkInv, Unresolved
<1>5. StepInv' /\ ModeInv'
  BY <1>1, <1>2 DEF StepInv, ModeInv, Publishing
<1>6. FreshInv' /\ AliasInv' /\ CopiesInv'
  BY <1>1, <1>2, <1>3 DEF FreshInv, AliasInv, CopiesInv
<1>7. RowInv'
  BY <1>1, <1>2, <1>3 DEF RowInv
<1>8. ShownInv' /\ StoredInv'
  BY <1>1, <1>2, <1>3 DEF ShownInv, StoredInv
<1> QED
  BY <1>4, <1>5, <1>6, <1>7, <1>8

LEMMA RemoveRowStep ==
  ASSUME SyncInv, RemoveRow
  PROVE  SyncInv'
<1> USE DEF SyncInv, mirrorVars, nativeVars, serverVars
<1>1. /\ pc = "apply" /\ step # NoStep /\ step.at = "removed"
      /\ step' = NoStep /\ todo' = todo \ {step.res} /\ row' = [row EXCEPT ![step.res] = NoRow]
      /\ UNCHANGED <<clock, faults, serverVars, mirrorVars, nativeVars, op, alias, detached, born,
                     mode, pc>>
  BY DEF RemoveRow, NextTask
<1>2. PICK h \in Resources : h = step.res
  BY <1>1, StepFacts
<1>3. op[h] = NoOp /\ nat[h] = 0
  BY <1>1, <1>2 DEF StepInv, Publishing, RowInv
<1>4. NoRow \in Rows /\ NoRow.graph = 0 /\ NoRow.rev = 0 /\ NoRow.pending = FALSE
  BY RowTypes, <1>2 DEF NoRow
<1>5. row' \in [Resources -> Rows] /\ row'[h] = NoRow /\ \A g \in Resources : g # h => row'[g] = row[g]
  BY <1>1, <1>2, <1>4 DEF TypeOK
<1>6. TypeOK' /\ WorkInv'
  BY <1>1, <1>3, <1>5 DEF TypeOK, WorkInv, Unresolved
<1>7. StepInv' /\ ModeInv'
  BY <1>1 DEF StepInv, ModeInv
<1>8. FreshInv' /\ CopiesInv'
  <2>1. row[h] # NoRow /\ born[h] = "local" => h \in alias \cup detached
    BY <1>3 DEF AliasInv, NoOp
  <2> QED
    BY <1>1, <1>3, <1>5, <2>1 DEF FreshInv, CopiesInv
<1>9. AliasInv'
  BY <1>1, <1>5 DEF AliasInv
<1>10. RowInv'
  BY <1>1, <1>2, <1>4, <1>5 DEF RowInv
<1>11. ShownInv' /\ StoredInv'
  BY <1>1, <1>4, <1>5 DEF ShownInv, StoredInv
<1> QED
  BY <1>6, <1>7, <1>8, <1>9, <1>10, <1>11

-----------------------------------------------------------------------------
(* The invariant. *)

LEMMA SyncInit ==
  Init => SyncInv
<1> SUFFICES ASSUME Init PROVE SyncInv
  OBVIOUS
<1> USE DEF Init
<1>1. 0 \in Contents /\ NoRow \in Rows
  BY SyncConstants DEF Contents, NoRow, Rows
<1>2. TypeOK
  BY <1>1, SyncConstants DEF TypeOK, Unresolved, Contents
<1>3. WorkInv /\ StepInv /\ ModeInv
  BY DEF WorkInv, StepInv, ModeInv
<1>4. FreshInv /\ AliasInv /\ CopiesInv
  BY DEF FreshInv, AliasInv, CopiesInv
<1>5. RowInv /\ ShownInv /\ StoredInv
  BY DEF RowInv, ShownInv, StoredInv, NoRow, NoOp
<1> QED
  BY <1>2, <1>3, <1>4, <1>5 DEF SyncInv

LEMMA SyncStep ==
  ASSUME ~EarlySwitch, SyncInv, [Next]_vars
  PROVE  SyncInv'
<1>1. CASE UNCHANGED vars
  BY <1>1 DEF SyncInv, vars, serverVars, mirrorVars, nativeVars, ownVars, passVars, TypeOK, WorkInv,
     StepInv, ModeInv, FreshInv, AliasInv, RowInv, CopiesInv, ShownInv, StoredInv, Unresolved,
     Due, Settled
<1>2. CASE Others
  BY <1>2, LocalEditStep, LocalDeleteStep, RemoteEditStep, RemoteDeleteStep, SetModeStep DEF Others
<1>3. CASE Faults
  BY <1>3, PassStep, AnswerLostStep, AwaitMirrorStep DEF Faults
<1>4. CASE Pass
  <2>1. ASSUME NEW h \in Resources,
               \/ Attempt(h) \/ CompleteDelete(h) \/ CompleteAlias(h)
               \/ Skip(h) \/ QueueEdit(h) \/ QueueCreate(h) \/ PublishReserve(h) \/ RemoveNative(h)
        PROVE  SyncInv'
    BY <2>1, AttemptStep, CompleteDeleteStep, CompleteAliasStep, SkipStep, QueueEditStep,
       QueueCreateStep, PublishReserveStep, RemoveNativeStep
  <2>2. CASE StartPass \/ WritesDone \/ Fetched \/ ExchangeStarts \/ CompleteDone \/ SavedResources
               \/ ApplyDone
    BY <2>2, PassStep, FetchedStep, SavedResourcesStep
  <2>3. CASE AcceptReceipt \/ Acknowledge \/ PublishSave \/ PublishId \/ PublishConfirm \/ RemoveRow
    BY <2>3, AcceptReceiptStep, AcknowledgeStep, PublishSaveStep, PublishIdStep, PublishConfirmStep,
       RemoveRowStep
  <2> QED
    BY <1>4, <2>1, <2>2, <2>3 DEF Pass
<1> QED
  BY <1>1, <1>2, <1>3, <1>4 DEF Next

(* Every reachable state of the exchange satisfies SyncInv: the alias, the  *)
(* row and the native id lead from a resource to its one native record,    *)
(* and no base or publication leaves what both sides have seen.            *)
THEOREM SyncInvariant ==
  ASSUME ~EarlySwitch
  PROVE  Spec => []SyncInv
<1>1. SyncInv /\ [Next]_vars => SyncInv'
  BY SyncStep
<1> QED
  BY <1>1, SyncInit, PTL DEF Spec

(* The exchange keeps its types, and no operation is without its row. *)
THEOREM SyncTypes ==
  ASSUME ~EarlySwitch
  PROVE  Spec => []TypeOK
<1>1. SyncInv => TypeOK
  BY DEF SyncInv
<1> QED
  BY <1>1, SyncInvariant, PTL

(* A resource never has two native records: RCNativeExchange finds the one  *)
(* it saved, wherever the daemon died between its commits.                 *)
THEOREM RecordsAreUnique ==
  ASSUME ~EarlySwitch
  PROVE  Spec => []NoDuplicate
<1>1. SyncInv => NoDuplicate
  BY DEF SyncInv, CopiesInv, NoDuplicate
<1> QED
  BY <1>1, SyncInvariant, PTL

-----------------------------------------------------------------------------
(* What a step replaces. *)

(* The condition of an upload is the base the operation was queued with. *)
LEMMA UploadReplacesShown ==
  ASSUME SyncInv, [Next]_vars, clock' = clock, NEW h \in Resources
  PROVE  OverwritesOnlyShown(h)
<1> SUFFICES ASSUME pc \in {"writes", "rewrites"}, srv'[h] # srv[h]
             PROVE  srv[h] \in shown \cup {0}
  BY DEF OverwritesOnlyShown
<1>1. clock + 1 # clock
  BY SyncConstants DEF SyncInv, TypeOK
<1>2. ~Others
  BY <1>1 DEF Others, LocalEdit, LocalDelete, RemoteEdit, RemoteDelete, SetMode, Tick
<1>3. PICK g \in Resources : Attempt(g) \/ AnswerLost(g)
  BY <1>2 DEF Next, Faults, Pass, vars, serverVars, StartPass, WritesDone, Fetched, ExchangeStarts,
     CompleteDone, SavedResources, ApplyDone, AcceptReceipt, Acknowledge, PublishSave, PublishId,
     PublishConfirm, RemoveRow, CompleteDelete, CompleteAlias, Skip, QueueEdit, QueueCreate,
     PublishReserve, RemoveNative, FetchFailed, Crash, AwaitMirror
<1>4. g = h /\ srv[h] = op[h].base
  BY <1>3 DEF Attempt, AnswerLost, Holds, serverVars, SyncInv, TypeOK
<1> QED
  BY <1>4 DEF SyncInv, ShownInv

(* A publication or a removal follows the comparison with the row. *)
LEMMA PublicationKeepsEdits ==
  ASSUME SyncInv, [Next]_vars, clock' = clock, NEW h \in Resources
  PROVE  LocalEditKept(h)
<1> SUFFICES ASSUME nat'[h] # nat[h], nat[h] # 0, nat[h] \notin stored
             PROVE  mode = "one-way" /\ \A g \in Resources : op[g].body # nat[h]
  BY DEF LocalEditKept
<1> USE DEF SyncInv
<1>1. clock + 1 # clock
  BY SyncConstants DEF TypeOK
<1>2. ~Others
  BY <1>1 DEF Others, LocalEdit, LocalDelete, RemoteEdit, RemoteDelete, SetMode, Tick
<1>3. PublishSave \/ \E g \in Resources : RemoveNative(g)
  BY <1>2 DEF Next, Faults, Pass, vars, nativeVars, StartPass, WritesDone, Fetched, ExchangeStarts,
     CompleteDone, SavedResources, ApplyDone, AcceptReceipt, Acknowledge, PublishId,
     PublishConfirm, RemoveRow, CompleteDelete, CompleteAlias, Skip, QueueEdit, QueueCreate,
     PublishReserve, FetchFailed, Crash, Attempt, AnswerLost, AwaitMirror
<1>4. pc = "apply"
  BY <1>3 DEF PublishSave, RemoveNative, Apply
<1>5. mode # "two-way"
  <2>1. CASE PublishSave
    <3>1. step # NoStep /\ step.at = "reserved" /\ step.res = h
      BY <2>1 DEF PublishSave, TypeOK
    <3> QED
      BY <3>1 DEF StoredInv
  <2>2. ASSUME NEW g \in Resources, RemoveNative(g) PROVE mode # "two-way"
    <3>1. g = h /\ op[h] = NoOp /\ Known(h) /\ ~LocallyChanged(h)
      BY <2>2 DEF RemoveNative, RCNativeBusy, Unresolved, Known, TypeOK
    <3>2. mode = "two-way" => row[h].graph = nat[h]
      BY <3>1 DEF LocallyChanged
    <3> QED
      BY <3>1, <3>2 DEF StoredInv
  <2> QED
    BY <1>3, <2>1, <2>2
<1>6. mode = "one-way"
  BY <1>5, SyncConstants DEF TypeOK
<1> QED
  BY <1>4, <1>6 DEF ModeInv, NoOp

(* No revision of another client and no edit of the user is buried, in any  *)
(* step of the daemon.                                                     *)
THEOREM NothingIsBuried ==
  ASSUME ~EarlySwitch
  PROVE  Spec => NoEditBuried
<1>1. SyncInv /\ [Next]_vars =>
        [clock' = clock => \A h \in Resources : OverwritesOnlyShown(h) /\ LocalEditKept(h)]_vars
  BY UploadReplacesShown, PublicationKeepsEdits
<1> QED
  BY <1>1, SyncInvariant, PTL DEF Spec, NoEditBuried

-----------------------------------------------------------------------------
(* The fields of an upload (FieldPlan).                                    *)

(* Record i of the working graph has the user's value of field f.          *)
Carried(i, f) == projected[i] # Absent /\ working[i][f] = projected[i][f]

(* A field of the scopes is carried, or in a group that is still to be     *)
(* tried; a group is only tried of a record that both sides have.          *)
GroupsInv ==
  /\ DOMAIN working = Ids /\ DOMAIN scopes = Ids
  /\ \A i \in Ids :
       \/ working[i] = Absent /\ projected[i] = Absent
       \/ \A f \in scopes[i] : Carried(i, f) \/ \E t \in untried : t[1] = i /\ f \in t[2]
  /\ \A t \in untried : t[1] \in Ids /\ Same(t[1]) /\ t[2] \in Groups[t[1]]

PlanInv ==
  /\ DOMAIN base = Ids
  /\ \A i \in Ids : scopes[i] \subseteq RCWritableFieldNames(i)
  /\ phase = "whole" =>
       working = projected /\ scopes = [i \in Ids |-> RCWritableFieldNames(i)]
  /\ phase = "structure" =>
       /\ working = WithoutGroups /\ scopes = [i \in Ids |-> RCWritableFieldNames(i)] /\ ~MovedOwner
       /\ untried = UNION {{i} \X Groups[i] : i \in {j \in Ids : Same(j)}}
  /\ phase = "groups" => GroupsInv
  /\ phase = "planned" =>
       \A i \in Ids : working[i] # Absent => \A f \in scopes[i] : Carried(i, f)
  /\ ScopeIsHonest

(* Groups and writable fields are fields.                                  *)
LEMMA FieldFacts ==
  ASSUME NEW i \in Ids
  PROVE  /\ RCWritableFieldNames(i) \subseteq AllFields
         /\ Independent(i) \subseteq AllFields /\ \A g \in Groups[i] : g \subseteq Independent(i)
         /\ RCWritableFieldNames(i) = Independent(i) \cup Structure[i] \cup Fixed[i]
<1>1. RCWritableFieldNames(i) = Independent(i) \cup Structure[i] \cup Fixed[i]
  BY DEF RCWritableFieldNames
<1>2. Independent(i) \subseteq AllFields /\ Structure[i] \subseteq AllFields /\ Fixed[i] \subseteq AllFields
  <2>1. ASSUME NEW f, f \in UNION Groups[i] \/ f \in Structure[i] \/ f \in Fixed[i] PROVE f \in AllFields
    <3>1. f \in (UNION Groups[i]) \cup Structure[i] \cup Fixed[i] \cup Opaque[i] \cup Ignored[i]
      BY <2>1, Zenon
    <3> QED
      BY <3>1, Zenon DEF AllFields
  <2> QED
    BY <2>1, Zenon DEF Independent
<1>3. \A g \in Groups[i] : g \subseteq Independent(i)
  BY DEF Independent
<1> QED
  BY <1>1, <1>2, <1>3

LEMMA PlanBegins == PlanInit => PlanInv
<1> SUFFICES ASSUME PlanInit PROVE PlanInv
  OBVIOUS
<1>1. /\ DOMAIN base = Ids /\ phase = "idle" /\ scopes = [i \in Ids |-> {}]
      /\ \A i \in Ids : upload.receipt[i] = Absent
  BY DEF PlanInit, NoFields, NoGraph
<1> QED
  BY <1>1 DEF PlanInv, ScopeIsHonest

(* A step that leaves the plan and the upload alone.                       *)
LEMMA PlanRests ==
  ASSUME PlanInv, UNCHANGED <<planVars, upload>>, DOMAIN base' = Ids,
         phase' \in {"idle", "queued", "verified"}
  PROVE  PlanInv'
<1>1. UNCHANGED <<untried, projected, working, scopes, upload>>
  BY DEF planVars
<1>2. ScopeIsHonest'
  BY <1>1 DEF PlanInv, ScopeIsHonest
<1>3. \A i \in Ids : scopes'[i] \subseteq RCWritableFieldNames(i)
  BY <1>1 DEF PlanInv
<1> QED
  BY <1>2, <1>3 DEF PlanInv

LEMMA StartKeeps ==
  ASSUME PlanInv, StartPlan
  PROVE  PlanInv'
<1>1. /\ phase' = "whole" /\ working' = projected' /\ UNCHANGED <<base, upload>>
      /\ scopes' = [i \in Ids |-> RCWritableFieldNames(i)]
  BY DEF StartPlan
<1>2. ScopeIsHonest'
  BY <1>1 DEF PlanInv, ScopeIsHonest
<1> QED
  BY <1>1, <1>2 DEF PlanInv

(* The whole edit, or the edit without its independent groups.             *)
LEMMA WholeKeeps ==
  ASSUME PlanInv, EncodeWhole
  PROVE  PlanInv'
<1>1. /\ phase = "whole" /\ working = projected /\ scopes = [i \in Ids |-> RCWritableFieldNames(i)]
      /\ UNCHANGED <<base, projected, scopes, upload>>
  BY DEF PlanInv, EncodeWhole
<1>2. ScopeIsHonest' /\ \A i \in Ids : scopes'[i] \subseteq RCWritableFieldNames(i)
  BY <1>1 DEF PlanInv, ScopeIsHonest
<1>3. CASE phase' = "planned" /\ UNCHANGED working
  BY <1>1, <1>2, <1>3 DEF PlanInv, Carried
<1>4. CASE Refuse
  BY <1>1, <1>2, <1>4 DEF PlanInv, Refuse
<1>5. CASE /\ phase' = "structure" /\ ~MovedOwner /\ working' = WithoutGroups
           /\ untried' = UNION {{i} \X Groups[i] : i \in {j \in Ids : Same(j)}}
  <2>1. WithoutGroups' = WithoutGroups /\ ~MovedOwner' /\ \A i \in Ids : Same(i)' <=> Same(i)
    BY <1>1, <1>5 DEF WithoutGroups, MovedOwner, Same
  <2> QED
    BY <1>1, <1>2, <1>5, <2>1 DEF PlanInv
<1> QED
  BY <1>3, <1>4, <1>5 DEF EncodeWhole

(* The groups are still to be tried, and everything else of the scopes is  *)
(* carried, whether the structure could be encoded or was put back.        *)
LEMMA StructureKeeps ==
  ASSUME PlanInv, EncodeStructure
  PROVE  PlanInv'
<1>1. /\ DOMAIN base = Ids /\ phase = "structure" /\ working = WithoutGroups /\ ~MovedOwner
      /\ scopes = [i \in Ids |-> RCWritableFieldNames(i)]
      /\ untried = UNION {{i} \X Groups[i] : i \in {j \in Ids : Same(j)}}
      /\ UNCHANGED <<base, untried, projected, upload>>
  BY DEF PlanInv, EncodeStructure
<1>2. ScopeIsHonest'
  BY <1>1 DEF PlanInv, ScopeIsHonest
<1>3. \A t \in untried : t[1] \in Ids /\ Same(t[1]) /\ t[2] \in Groups[t[1]]
  BY <1>1
<1>4. \A i \in Ids : Same(i) => \A f \in Independent(i) : \E t \in untried : t[1] = i /\ f \in t[2]
  <2> SUFFICES ASSUME NEW i \in Ids, Same(i), NEW f \in Independent(i)
               PROVE  \E t \in untried : t[1] = i /\ f \in t[2]
    OBVIOUS
  <2>1. PICK g \in Groups[i] : f \in g
    BY DEF Independent
  <2>2. <<i, g>> \in untried
    BY <1>1
  <2> QED
    BY <2>1, <2>2
<1>5. CASE phase' = "groups" /\ UNCHANGED <<working, scopes>>
  <2>1. \A i \in Ids : ~Same(i) => working[i] = projected[i]
    BY <1>1 DEF WithoutGroups
  <2>2. \A i \in Ids : Same(i) => \A f \in AllFields :
          f \notin Independent(i) => working[i][f] = projected[i][f]
    BY <1>1 DEF WithoutGroups
  <2>3. \A i \in Ids : Same(i) => projected[i] # Absent
    BY DEF Same
  <2>4. ASSUME NEW i \in Ids, projected[i] # Absent, NEW f \in scopes[i]
        PROVE  Carried(i, f) \/ \E t \in untried : t[1] = i /\ f \in t[2]
    <3>1. f \in AllFields
      BY <1>1, <2>4, FieldFacts
    <3> QED
      BY <1>4, <2>1, <2>2, <2>3, <2>4, <3>1 DEF Carried
  <2>5. \A t \in untried' : t[1] \in Ids /\ Same(t[1])' /\ t[2] \in Groups[t[1]]
    BY <1>1, <1>3, <1>5 DEF Same
  <2>6. \A i \in Ids : projected[i] = Absent => working[i] = Absent
    BY <2>1 DEF Same
  <2>7. DOMAIN working' = Ids /\ DOMAIN scopes' = Ids
    BY <1>1, <1>5 DEF WithoutGroups
  <2>8. GroupsInv'
    BY <1>1, <1>5, <2>4, <2>5, <2>6, <2>7 DEF GroupsInv, Carried
  <2> QED
    BY <1>1, <1>2, <1>5, <2>8 DEF PlanInv
<1>6. CASE /\ phase' = "groups" /\ working' = base
           /\ scopes' = [i \in Ids |-> IF Same(i) THEN Independent(i) \cup Fixed[i] ELSE {}]
  <2>1. ASSUME NEW i \in Ids, NEW f \in scopes'[i]
        PROVE  Carried(i, f)' \/ \E t \in untried : t[1] = i /\ f \in t[2]
    <3>1. Same(i) /\ projected[i] # Absent
      BY <1>6, <2>1 DEF Same
    <3>2. CASE f \in Independent(i)
      BY <1>4, <3>1, <3>2
    <3>3. CASE f \in Fixed[i]
      BY <1>1, <1>6, <3>1, <3>3 DEF Carried, MovedOwner
    <3> QED
      BY <1>6, <2>1, <3>1, <3>2, <3>3
  <2>3. \A i \in Ids : scopes'[i] \subseteq RCWritableFieldNames(i)
    BY <1>6, FieldFacts
  <2>4. \A t \in untried' : t[1] \in Ids /\ Same(t[1])' /\ t[2] \in Groups[t[1]]
    BY <1>1, <1>3, <1>6 DEF Same
  <2>5. DOMAIN working' = Ids /\ DOMAIN scopes' = Ids
    BY <1>1, <1>6
  <2>6. GroupsInv'
    BY <1>1, <2>1, <2>4, <2>5 DEF GroupsInv
  <2> QED
    BY <1>1, <1>2, <1>6, <2>3, <2>6 DEF PlanInv
<1>7. CASE Refuse /\ UNCHANGED <<working, scopes>>
  BY <1>1, <1>2, <1>7 DEF PlanInv, Refuse
<1> QED
  BY <1>5, <1>6, <1>7 DEF EncodeStructure

(* A group is carried, or leaves the scope.                                *)
LEMMA GroupKeeps ==
  ASSUME PlanInv, EncodeGroup
  PROVE  PlanInv'
<1>1. phase = "groups" /\ phase' = "groups" /\ GroupsInv /\ UNCHANGED <<base, projected, upload>>
  BY DEF PlanInv, EncodeGroup
<1>2. ScopeIsHonest' /\ DOMAIN base' = Ids
  BY <1>1 DEF PlanInv, ScopeIsHonest
<1>3. PICK t \in untried : /\ untried' = untried \ {t}
                           /\ \/ working' = With(t[1], t[2]) /\ UNCHANGED scopes
                              \/ scopes' = [scopes EXCEPT ![t[1]] = @ \ t[2]] /\ UNCHANGED working
  BY DEF EncodeGroup
<1> DEFINE j == t[1]  g == t[2]
<1>4. /\ j \in Ids /\ g \in Groups[j] /\ projected[j] # Absent /\ g \subseteq AllFields
      /\ j \in DOMAIN working /\ j \in DOMAIN scopes
  BY <1>1, <1>3, FieldFacts DEF GroupsInv, Same
<1>5. \A d \in untried : d = t \/ d \in untried'
  BY <1>3
<1>6. \A d \in untried' : d[1] \in Ids /\ Same(d[1])' /\ d[2] \in Groups[d[1]]
  BY <1>1, <1>3 DEF GroupsInv, Same
<1>7. \A i \in Ids : \/ working[i] = Absent /\ projected[i] = Absent
                     \/ \A f \in scopes[i] : \/ Carried(i, f)
                                             \/ i = j /\ f \in g
                                             \/ \E d \in untried' : d[1] = i /\ f \in d[2]
  <2> SUFFICES ASSUME NEW i \in Ids, ~(working[i] = Absent /\ projected[i] = Absent), NEW f \in scopes[i]
               PROVE  \/ Carried(i, f)
                      \/ i = j /\ f \in g
                      \/ \E d \in untried' : d[1] = i /\ f \in d[2]
    OBVIOUS
  <2>1. Carried(i, f) \/ \E d \in untried : d[1] = i /\ f \in d[2]
    BY <1>1 DEF GroupsInv
  <2> QED
    BY <2>1, <1>5
<1> HIDE DEF j, g
<1>8. CASE working' = With(j, g) /\ UNCHANGED scopes
  <2>1. \A i \in Ids : i # j => working'[i] = working[i]
    BY <1>1, <1>8 DEF With, GroupsInv
  <2>2. \A f \in AllFields : working'[j][f] = IF f \in g THEN projected[j][f] ELSE working[j][f]
    BY <1>4, <1>8 DEF With
  <2>3. \A f \in scopes[j] : f \in AllFields
    BY <1>4, FieldFacts DEF PlanInv
  <2>4. ASSUME NEW i \in Ids, ~(working'[i] = Absent /\ projected[i] = Absent), NEW f \in scopes[i]
        PROVE  Carried(i, f)' \/ \E d \in untried' : d[1] = i /\ f \in d[2]
    <3>1. CASE i = j
      BY <1>1, <1>4, <1>7, <2>2, <2>3, <2>4, <3>1 DEF Carried
    <3>2. CASE i # j
      BY <1>1, <1>7, <2>1, <2>4, <3>2 DEF Carried
    <3> QED
      BY <3>1, <3>2
  <2>5. DOMAIN working' = Ids /\ DOMAIN scopes' = Ids
    BY <1>1, <1>8 DEF With, GroupsInv
  <2>6. GroupsInv'
    BY <1>1, <1>6, <1>8, <2>4, <2>5 DEF GroupsInv
  <2> QED
    BY <1>1, <1>2, <1>8, <2>6 DEF PlanInv
<1>9. CASE scopes' = [scopes EXCEPT ![j] = @ \ g] /\ UNCHANGED working
  <2>1. scopes'[j] = scopes[j] \ g /\ \A i \in Ids : i # j => scopes'[i] = scopes[i]
    BY <1>1, <1>4, <1>9 DEF GroupsInv
  <2>2. ASSUME NEW i \in Ids, ~(working[i] = Absent /\ projected[i] = Absent), NEW f \in scopes'[i]
        PROVE  Carried(i, f)' \/ \E d \in untried' : d[1] = i /\ f \in d[2]
    <3>1. f \in scopes[i] /\ ~(i = j /\ f \in g)
      BY <2>1, <2>2
    <3> QED
      BY <1>1, <1>7, <1>9, <2>2, <3>1 DEF Carried
  <2>3. DOMAIN working' = Ids /\ DOMAIN scopes' = Ids
    BY <1>1, <1>9 DEF GroupsInv
  <2>4. GroupsInv'
    BY <1>1, <1>6, <1>9, <2>2, <2>3 DEF GroupsInv
  <2>5. \A i \in Ids : scopes'[i] \subseteq RCWritableFieldNames(i)
    BY <2>1 DEF PlanInv
  <2> QED
    BY <1>1, <1>2, <1>9, <2>4, <2>5 DEF PlanInv
<1> QED
  BY <1>3, <1>8, <1>9 DEF j, g

LEMMA DoneKeeps ==
  ASSUME PlanInv, GroupsDone
  PROVE  PlanInv'
<1>1. /\ phase = "groups" /\ untried = {} /\ phase' = "planned" /\ GroupsInv
      /\ UNCHANGED <<base, untried, projected, working, scopes, upload>>
  BY DEF PlanInv, GroupsDone, planVars
<1>2. ScopeIsHonest' /\ \A i \in Ids : scopes'[i] \subseteq RCWritableFieldNames(i)
  BY <1>1 DEF PlanInv, ScopeIsHonest
<1>3. \A i \in Ids : working'[i] # Absent => \A f \in scopes'[i] : Carried(i, f)'
  BY <1>1 DEF GroupsInv, Carried
<1> QED
  BY <1>1, <1>2, <1>3 DEF PlanInv

(* The journal takes over what the plan carries.                           *)
LEMMA QueueKeeps ==
  ASSUME PlanInv, QueueUpload
  PROVE  PlanInv'
<1>1. /\ phase = "planned" /\ phase' \in {"idle", "queued"} /\ UNCHANGED <<base, planVars, projected, scopes>>
      /\ upload' = upload \/ upload' = Journal
  BY DEF QueueUpload, planVars
<1>2. ScopeIsHonest'
  <2>1. CASE upload' = upload
    BY <2>1 DEF PlanInv, ScopeIsHonest
  <2>2. CASE upload' = Journal
    <3> SUFFICES ASSUME NEW i \in Ids, Journal.receipt[i] \notin {Absent, Tombstone},
                        NEW f \in Journal.scopes[i]
                 PROVE  Journal.from[i] # Absent /\ Journal.receipt[i][f] = Journal.from[i][f]
      BY <2>2 DEF ScopeIsHonest
    <3>1. working[i] # Absent /\ Journal.receipt[i] = working[i] /\ Journal.scopes[i] = scopes[i]
          /\ Journal.from = projected
      BY DEF Journal
    <3>2. Carried(i, f)
      BY <1>1, <3>1 DEF PlanInv
    <3> QED
      BY <3>1, <3>2 DEF Carried
  <2> QED
    BY <1>1, <2>1, <2>2
<1>3. \A i \in Ids : scopes'[i] \subseteq RCWritableFieldNames(i)
  BY <1>1 DEF PlanInv
<1> QED
  BY <1>1, <1>2, <1>3 DEF PlanInv

LEMMA PlanStays == PlanInv /\ [PlanNext]_fieldVars => PlanInv'
<1> SUFFICES ASSUME PlanInv, [PlanNext]_fieldVars PROVE PlanInv'
  OBVIOUS
<1>1. CASE UNCHANGED fieldVars
  BY <1>1 DEF fieldVars, planVars, PlanInv, GroupsInv, Carried, ScopeIsHonest, WithoutGroups, MovedOwner, Same
<1>2. CASE Upload \/ Complete \/ QueueInterrupted
  <2>1. DOMAIN base' = Ids
    BY <1>2 DEF Upload, Complete, QueueInterrupted, PlanInv
  <2> QED
    BY <1>2, <2>1, PlanRests DEF Upload, Complete, QueueInterrupted
<1>3. CASE \E i \in Ids : Edit(i)
  <2>1. /\ phase \in {"idle", "queued", "verified"} /\ DOMAIN base' = Ids
        /\ UNCHANGED <<phase, planVars, upload>>
    BY <1>3 DEF Edit, PlanInv
  <2> QED
    BY <2>1, PlanRests
<1> QED
  BY <1>1, <1>2, <1>3, StartKeeps, WholeKeeps, StructureKeeps, GroupKeeps, DoneKeeps, QueueKeeps
     DEF PlanNext, Daemon

(* What EncodeIndependent has put back and what it still tries account for *)
(* every field of the scopes, through all of its steps.                    *)
THEOREM PlanInvariant == PlanSpec => []PlanInv
BY PlanBegins, PlanStays, PTL DEF PlanSpec

(* A field that RCTwoWayComplete will acknowledge was uploaded with the    *)
(* value the user had given it, for any records, fields and groups and     *)
(* whatever the encoder refuses.                                           *)
THEOREM ScopesAreHonest == PlanSpec => []ScopeIsHonest
<1>1. PlanInv => ScopeIsHonest
  BY DEF PlanInv
<1> QED
  BY <1>1, PlanInvariant, PTL
=============================================================================
