----------------------------- MODULE NativeSync -----------------------------
(***************************************************************************)
(* The two-way exchange of one service, end to end: the server and its     *)
(* other clients, the mirror, the write journal, the saved native rows and *)
(* the device's own store, which the user edits at any time (main.m,       *)
(* RCNativeExchange.m, RCTwoWaySync.m, RCNativeSystemStore.m).  A pass     *)
(* uploads, fetches, exchanges and uploads again; every commit is a step,  *)
(* and the daemon can end between any two of them.                         *)
(*                                                                         *)
(* The parts other modules show in detail are one step here: a fetch       *)
(* (ContactMirror, CalendarMirror) and an upload attempt (DAVWriter).      *)
(* Every edit, local or remote, makes a new content, numbered by clock; 0  *)
(* is an absent record.  The revision an upload stores is its content.     *)
(*                                                                         *)
(* The user does not touch the very record the daemon is saving between    *)
(* its comparison and its readback; nothing in the code excludes that.     *)
(***************************************************************************)
EXTENDS Naturals, FiniteSets

CONSTANTS
  Resources,  \* hrefs
  Calendar,   \* TRUE: events in a history window, FALSE: contacts
  Outside,    \* resources that may leave and enter the window
  Findable,   \* events that can be told apart by their fields alone
  Modes,      \* sync modes the user may select: "two-way", "one-way"
  EarlySwitch, \* TRUE: one-way mode also while an alias is to be learned
  MaxClock,   \* bound: edits and mode changes
  MaxFaults,  \* bound: crashes, failed fetches and lost answers
  NoStep

Steps == [res : Resources, at : {"aliased", "accepted", "reserved", "saved", "named", "removed"}]

ASSUME SyncConstants ==
  /\ NoStep \notin Steps
  /\ Calendar \in BOOLEAN /\ Outside \subseteq Resources /\ Findable \subseteq Resources /\ (Outside # {} => Calendar)
  /\ Modes \subseteq {"two-way", "one-way"} /\ "two-way" \in Modes /\ EarlySwitch \in BOOLEAN
  /\ MaxClock \in Nat /\ MaxFaults \in Nat

VARIABLES
  clock, faults,
  srv,      \* srv[h]: the content on the server
  mir,      \* mir[h]: the content the mirror offers for publication
  retained, \* mirrored resources that are merely outside the window
  nat,      \* nat[h]: the content of the native record
  copies,   \* copies[h]: native records that stand for h
  row,      \* native_store_resources: row[h], the published base
  op,       \* op[h]: the unresolved operation on h
  born,     \* where h was created
  alias,    \* imported identities mapped to native ones
  detached, \* two_way_detached: creations acknowledged without an alias
  mode,
  pc, todo, \* the phase of the pass and what it still has to do
  step,     \* the resource and the commit reached within a phase
  stored,   \* history: contents the server ever held
  shown,    \* history: contents the device ever held
  made      \* history: contents made on the device

serverVars == <<srv, stored>>
mirrorVars == <<mir, retained>>
nativeVars == <<nat, copies, shown, made>>
ownVars    == <<row, op, alias, detached>>
passVars   == <<pc, todo, step>>
vars == <<clock, faults, serverVars, mirrorVars, nativeVars, ownVars, born, mode, passVars>>

NoRow == [graph |-> 0, rev |-> 0, ids |-> FALSE, pending |-> FALSE]
NoOp  == [kind |-> "none", base |-> 0, body |-> 0, state |-> "none"]
Rows  == [graph : 0 .. MaxClock, rev : 0 .. MaxClock, ids : BOOLEAN, pending : BOOLEAN]
Operations == [kind : {"create", "update", "delete"}, base : 0 .. MaxClock, body : 0 .. MaxClock,
               state : {"pending", "applied", "conflict"}]

Init ==
  /\ clock = 0 /\ faults = 0
  /\ srv = [h \in Resources |-> 0] /\ mir = srv /\ nat = srv /\ copies = srv
  /\ retained = {} /\ row = [h \in Resources |-> NoRow] /\ op = [h \in Resources |-> NoOp]
  /\ born = [h \in Resources |-> "none"] /\ alias = {} /\ detached = {}
  /\ mode = "two-way" /\ pc = "idle" /\ todo = {} /\ step = NoStep
  /\ stored = {} /\ shown = {} /\ made = {}

-----------------------------------------------------------------------------
(* The user, and the server's other clients.                               *)

Tick == clock < MaxClock /\ clock' = clock + 1

Saving(h) == step # NoStep /\ step.res = h /\ step.at \in {"reserved", "saved", "named", "removed"}

(* An address is made up by whoever creates the resource.                  *)
LocalEdit(h) ==
  /\ Tick /\ ~Saving(h)
  /\ \/ nat[h] # 0 /\ UNCHANGED <<born, copies>>
     \/ born[h] = "none" /\ born' = [born EXCEPT ![h] = "local"] /\ copies' = [copies EXCEPT ![h] = 1]
  /\ nat' = [nat EXCEPT ![h] = clock']
  /\ shown' = shown \cup {clock'} /\ made' = made \cup {clock'}
  /\ UNCHANGED <<faults, serverVars, mirrorVars, ownVars, mode, passVars>>

LocalDelete(h) ==
  /\ Tick /\ ~Saving(h) /\ nat[h] # 0
  /\ nat' = [nat EXCEPT ![h] = 0] /\ copies' = [copies EXCEPT ![h] = 0]
  /\ UNCHANGED <<faults, serverVars, mirrorVars, shown, made, ownVars, born, mode, passVars>>

RemoteEdit(h) ==
  /\ Tick
  /\ \/ srv[h] # 0 /\ UNCHANGED born
     \/ srv[h] = 0 /\ born[h] \in {"none", "server"} /\ born' = [born EXCEPT ![h] = "server"]
  /\ srv' = [srv EXCEPT ![h] = clock'] /\ stored' = stored \cup {clock'}
  /\ UNCHANGED <<faults, mirrorVars, nativeVars, ownVars, mode, passVars>>

RemoteDelete(h) ==
  /\ Tick /\ srv[h] # 0
  /\ srv' = [srv EXCEPT ![h] = 0]
  /\ UNCHANGED <<faults, stored, mirrorVars, nativeVars, ownVars, born, mode, passVars>>

SetMode(m) ==
  /\ Tick /\ pc = "idle" /\ m # mode /\ (EarlySwitch \/ detached = {})
  /\ mode' = m
  /\ UNCHANGED <<faults, serverVars, mirrorVars, nativeVars, ownVars, born, passVars>>

-----------------------------------------------------------------------------
(* The pass: RCSyncWorkerMain.                                             *)

Unresolved(h) == op[h] # NoOp
Due == {h \in Resources : op[h].state = "pending"}
Settled == {h \in Resources : op[h].state = "applied"} \cup detached

Phase(p, work) == pc' = p /\ todo' = work /\ step' = NoStep

StartPass ==
  /\ pc = "idle"
  /\ IF mode = "two-way" THEN Phase("writes", Due) ELSE Phase("fetch", {})
  /\ UNCHANGED <<clock, faults, serverVars, mirrorVars, nativeVars, ownVars, born, mode>>

WritesDone ==
  /\ pc \in {"writes", "rewrites"} /\ todo = {}
  /\ IF pc = "writes" THEN Phase("fetch", {}) ELSE Phase("idle", {})
  /\ UNCHANGED <<clock, faults, serverVars, mirrorVars, nativeVars, ownVars, born, mode>>

(* A complete mirror generation.  Through a window a resource that is not  *)
(* listed is excluded, not missing.                                        *)
Fetched ==
  /\ pc = "fetch"
  /\ \E out \in SUBSET Outside :
       /\ mir' = [h \in Resources |-> IF h \in out THEN 0 ELSE srv[h]]
       /\ retained' = IF Calendar
                      THEN {h \in Resources : mir'[h] = 0 /\ (mir[h] # 0 \/ h \in retained \/ (h \in out /\ srv[h] # 0))}
                      ELSE {}
  /\ Phase("exchange", {})
  /\ UNCHANGED <<clock, faults, serverVars, nativeVars, ownVars, born, mode>>

(* After a failed fetch only a one-way publication goes on.                *)
FetchFailed ==
  /\ pc = "fetch"
  /\ faults < MaxFaults /\ faults' = faults + 1
  /\ IF mode = "two-way" THEN Phase("idle", {}) ELSE Phase("exchange", {})
  /\ UNCHANGED <<clock, serverVars, mirrorVars, nativeVars, ownVars, born, mode>>

(* One-way publication waits until the journal is empty.                   *)
ExchangeStarts ==
  /\ pc = "exchange"
  /\ IF mode = "two-way" THEN Phase("complete", Settled)
     ELSE IF \E h \in Resources : Unresolved(h) THEN Phase("idle", {})
     ELSE Phase("saved", {})
  /\ UNCHANGED <<clock, faults, serverVars, mirrorVars, nativeVars, ownVars, born, mode>>

(* The process ends; what was committed stays.                             *)
Crash ==
  /\ pc # "idle"
  /\ faults < MaxFaults /\ faults' = faults + 1
  /\ Phase("idle", {})
  /\ UNCHANGED <<clock, serverVars, mirrorVars, nativeVars, ownVars, born, mode>>

-----------------------------------------------------------------------------
(* RCTwoWayRunWrites: one attempt per due operation.                       *)

Applied(h) == op' = [op EXCEPT ![h].state = "applied"]

(* The condition of the request: If-Match the base or If-None-Match.       *)
Holds(h) == srv[h] = op[h].base

(* The server took the write, or already had; anything else is a conflict. *)
Attempt(h) ==
  /\ pc \in {"writes", "rewrites"} /\ h \in todo
  /\ todo' = todo \ {h}
  /\ \/ srv[h] = op[h].body /\ Applied(h) /\ UNCHANGED <<srv, stored>>
     \/ /\ srv[h] # op[h].body /\ Holds(h)
        /\ srv' = [srv EXCEPT ![h] = op[h].body] /\ stored' = stored \cup ({op[h].body} \ {0})
        /\ Applied(h)
     \/ /\ srv[h] # op[h].body /\ ~Holds(h)
        /\ op' = [op EXCEPT ![h].state = "conflict"] /\ UNCHANGED <<srv, stored>>
  /\ UNCHANGED <<clock, faults, mirrorVars, nativeVars, row, alias, detached, born, mode, pc, step>>

(* The server took the write and the answer was lost, or the request never *)
(* got there: the outcome is uncertain and the rest of the pass is left.   *)
AnswerLost(h) ==
  /\ pc \in {"writes", "rewrites"} /\ h \in todo
  /\ faults < MaxFaults /\ faults' = faults + 1
  /\ todo' = {}
  /\ \/ UNCHANGED serverVars
     \/ /\ Holds(h)
        /\ srv' = [srv EXCEPT ![h] = op[h].body] /\ stored' = stored \cup ({op[h].body} \ {0})
  /\ UNCHANGED <<clock, mirrorVars, nativeVars, ownVars, born, mode, pc, step>>

-----------------------------------------------------------------------------
(* RCTwoWayComplete: verified uploads, before anything is published.       *)

NextTask == todo' = todo \ {step.res} /\ step' = NoStep

Completing(h) == pc = "complete" /\ step = NoStep /\ h \in todo

(* A creation acknowledged earlier, of which only the alias is missing.    *)
OnlyAlias(h) == op[h].state # "applied"

(* A deletion waits for a mirror without the resource.                     *)
CompleteDelete(h) ==
  /\ Completing(h) /\ op[h].kind = "delete" /\ op[h].state = "applied"
  /\ IF mir[h] = 0
     THEN /\ row' = [row EXCEPT ![h].graph = 0]
          /\ step' = [res |-> h, at |-> "accepted"] /\ UNCHANGED todo
     ELSE todo' = todo \ {h} /\ UNCHANGED <<row, step>>
  /\ UNCHANGED <<clock, faults, serverVars, mirrorVars, nativeVars, op, alias, detached, born,
                 mode, pc>>

(* Faulty variant: an upload the mirror omits counts as aliased.           *)
AliasUnseen(h) ==
  /\ Completing(h) /\ (op[h].kind # "delete" \/ OnlyAlias(h))
  /\ alias' = alias \cup (IF mir[h] # 0 THEN {h} ELSE {}) /\ detached' = detached \ {h}
  /\ IF OnlyAlias(h) THEN todo' = todo \ {h} /\ UNCHANGED step
     ELSE step' = [res |-> h, at |-> "aliased"] /\ UNCHANGED todo
  /\ UNCHANGED <<clock, faults, serverVars, mirrorVars, nativeVars, row, op, born, mode, pc>>

(* The receipt is compared with the verified bytes, not with a later       *)
(* download; the imported identity is known only from the mirror.          *)
CompleteAlias(h) ==
  /\ Completing(h) /\ (op[h].kind # "delete" \/ OnlyAlias(h))
  /\ IF mir[h] # 0
     THEN alias' = alias \cup {h} /\ detached' = detached \ {h}
     ELSE detached' = detached \cup {h} /\ UNCHANGED alias
  /\ IF OnlyAlias(h) THEN todo' = todo \ {h} /\ UNCHANGED step
     ELSE step' = [res |-> h, at |-> "aliased"] /\ UNCHANGED todo
  /\ UNCHANGED <<clock, faults, serverVars, mirrorVars, nativeVars, row, op, born, mode, pc>>

(* The mirror holds other bytes than the verified ones, and these can not  *)
(* be projected beside them: the upload waits and is tried by later passes.*)
AwaitMirror(h) ==
  /\ Completing(h) /\ op[h].kind # "delete" /\ ~OnlyAlias(h) /\ mir[h] \notin {0, op[h].body}
  /\ faults < MaxFaults /\ faults' = faults + 1
  /\ todo' = todo \ {h}
  /\ UNCHANGED <<clock, serverVars, mirrorVars, nativeVars, ownVars, born, mode, pc, step>>

(* Faulty variant: the tag advances and the published graph does not.      *)
AcceptTagOnly ==
  /\ pc = "complete" /\ step # NoStep /\ step.at = "aliased"
  /\ IF row[step.res].pending THEN NextTask /\ UNCHANGED row
     ELSE /\ row' = [row EXCEPT ![step.res].rev = op[step.res].body]
          /\ step' = [step EXCEPT !.at = "accepted"] /\ UNCHANGED todo
  /\ UNCHANGED <<clock, faults, serverVars, mirrorVars, nativeVars, op, alias, detached, born,
                 mode, pc>>

(* The base advances to the captured receipt and the verified revision, so *)
(* that an edit made since stays visible.                                  *)
AcceptReceipt ==
  /\ pc = "complete" /\ step # NoStep /\ step.at = "aliased"
  /\ IF row[step.res].pending THEN NextTask /\ UNCHANGED row
     ELSE /\ row' = [row EXCEPT ![step.res].graph = op[step.res].body, ![step.res].rev = op[step.res].body]
          /\ step' = [step EXCEPT !.at = "accepted"] /\ UNCHANGED todo
  /\ UNCHANGED <<clock, faults, serverVars, mirrorVars, nativeVars, op, alias, detached, born,
                 mode, pc>>

Acknowledge ==
  /\ pc = "complete" /\ step # NoStep /\ step.at = "accepted"
  /\ op' = [op EXCEPT ![step.res] = NoOp]
  /\ NextTask
  /\ UNCHANGED <<clock, faults, serverVars, mirrorVars, nativeVars, row, alias, detached, born,
                 mode, pc>>

CompleteDone ==
  /\ pc = "complete" /\ todo = {}
  /\ Phase("saved", {})
  /\ UNCHANGED <<clock, faults, serverVars, mirrorVars, nativeVars, ownVars, born, mode>>

-----------------------------------------------------------------------------
(* RCNativeExchange: the three-way decision for each resource.             *)

Interrupted == {h \in Resources : row[h].pending}

(* An event found again by its id, or unambiguously by its fields, and     *)
(* still as it was to be saved.                                            *)
Recoverable(h) ==
  Calendar /\ (row[h].ids \/ h \in Findable) /\ nat[h] = row[h].graph /\ copies[h] = 1

(* An interrupted save is recovered or refuses the whole exchange.         *)
SavedResources ==
  /\ pc = "saved"
  /\ IF \A h \in Interrupted : Recoverable(h)
     THEN /\ row' = [h \in Resources |->
               IF h \in Interrupted THEN [row[h] EXCEPT !.ids = TRUE, !.pending = FALSE] ELSE row[h]]
          /\ Phase("apply", Resources)
     ELSE Phase("idle", {}) /\ UNCHANGED row
  /\ UNCHANGED <<clock, faults, serverVars, mirrorVars, nativeVars, op, alias, detached, born, mode>>

(* The saved row of h, found under the identity the mirror gives it.       *)
Known(h) == row[h] # NoRow /\ (born[h] = "server" \/ h \in alias \/ mir[h] = 0)

(* Faulty variant: an operation that is still queued protects nothing.     *)
BusyOnceSent(h) == op[h].state \in {"applied", "conflict"}

RCNativeBusy(h) == Unresolved(h)

Apply(h) == pc = "apply" /\ step = NoStep /\ h \in todo

(* Nothing to do: busy, unchanged, retained outside the window, or unknown *)
(* on both sides.                                                          *)
Skip(h) ==
  /\ Apply(h)
  /\ \/ RCNativeBusy(h)
     \/ mir[h] # 0 /\ Known(h) /\ row[h].rev = mir[h] /\ row[h].graph = nat[h]
     \/ mir[h] = 0 /\ row[h] # NoRow /\ h \in retained
     \/ mir[h] = 0 /\ row[h] = NoRow /\ (nat[h] = 0 \/ mode = "one-way")
  /\ todo' = todo \ {h}
  /\ UNCHANGED <<clock, faults, serverVars, mirrorVars, nativeVars, ownVars, born, mode, pc, step>>

LocallyChanged(h) == mode = "two-way" /\ Known(h) /\ row[h].graph # nat[h]

(* Outgoing work is pinned to the last publication, never to the mirror.   *)
RCNativeQueue(h) ==
  op' = [op EXCEPT ![h] = [kind |-> IF nat[h] = 0 THEN "delete" ELSE "update", body |-> nat[h],
                           base |-> row[h].rev, state |-> "pending"]]

(* A local edit, also of a record that is gone from the server.            *)
QueueEdit(h) ==
  /\ Apply(h) /\ ~RCNativeBusy(h) /\ LocallyChanged(h)
  /\ mir[h] # 0 \/ (h \notin retained /\ nat[h] # 0)
  /\ RCNativeQueue(h)
  /\ todo' = todo \ {h}
  /\ UNCHANGED <<clock, faults, serverVars, mirrorVars, nativeVars, row, alias, detached, born,
                 mode, pc, step>>

(* A record no row knows; its row is saved in the same transaction.        *)
QueueCreate(h) ==
  /\ Apply(h) /\ mode = "two-way" /\ ~RCNativeBusy(h) /\ row[h] = NoRow /\ mir[h] = 0 /\ nat[h] # 0
  /\ op' = [op EXCEPT ![h] = [kind |-> "create", base |-> 0, body |-> nat[h], state |-> "pending"]]
  /\ row' = [row EXCEPT ![h] = [graph |-> nat[h], rev |-> 0, ids |-> TRUE, pending |-> FALSE]]
  /\ todo' = todo \ {h}
  /\ UNCHANGED <<clock, faults, serverVars, mirrorVars, nativeVars, alias, detached, born, mode,
                 pc, step>>

(* Publication: reserve the row, save the record, keep its id, confirm.    *)
PublishReserve(h) ==
  /\ Apply(h) /\ ~RCNativeBusy(h) /\ mir[h] # 0 /\ ~LocallyChanged(h)
  /\ ~(Known(h) /\ row[h].rev = mir[h] /\ row[h].graph = nat[h])
  /\ row' = [row EXCEPT ![h] = [graph |-> mir[h], rev |-> mir[h], pending |-> TRUE,
                                ids |-> Known(h) /\ row[h].ids]]
  /\ step' = [res |-> h, at |-> "reserved"]
  /\ UNCHANGED <<clock, faults, serverVars, mirrorVars, nativeVars, op, alias, detached, born,
                 mode, pc, todo>>

PublishSave ==
  /\ pc = "apply" /\ step # NoStep /\ step.at = "reserved"
  /\ LET h == step.res IN
     /\ nat' = [nat EXCEPT ![h] = row[h].graph]
     /\ copies' = [copies EXCEPT ![h] = IF row[h].ids /\ nat[h] # 0 THEN @ ELSE @ + 1]
     /\ shown' = shown \cup {row[h].graph}
     /\ step' = [step EXCEPT !.at = "saved"]
  /\ UNCHANGED <<clock, faults, serverVars, mirrorVars, made, ownVars, born, mode, pc, todo>>

PublishId ==
  /\ pc = "apply" /\ step # NoStep /\ step.at = "saved"
  /\ row' = [row EXCEPT ![step.res].ids = TRUE]
  /\ step' = [step EXCEPT !.at = "named"]
  /\ UNCHANGED <<clock, faults, serverVars, mirrorVars, nativeVars, op, alias, detached, born,
                 mode, pc, todo>>

PublishConfirm ==
  /\ pc = "apply" /\ step # NoStep /\ step.at = "named"
  /\ row' = [row EXCEPT ![step.res].pending = FALSE]
  /\ NextTask
  /\ UNCHANGED <<clock, faults, serverVars, mirrorVars, nativeVars, op, alias, detached, born,
                 mode, pc>>

(* Gone from the server and not edited here: the record, then its row.     *)
RemoveNative(h) ==
  /\ Apply(h) /\ ~RCNativeBusy(h) /\ mir[h] = 0 /\ h \notin retained /\ row[h] # NoRow
  /\ nat[h] = 0 \/ ~LocallyChanged(h)
  /\ nat' = [nat EXCEPT ![h] = 0] /\ copies' = [copies EXCEPT ![h] = 0]
  /\ step' = [res |-> h, at |-> "removed"]
  /\ UNCHANGED <<clock, faults, serverVars, mirrorVars, shown, made, ownVars, born, mode, pc, todo>>

RemoveRow ==
  /\ pc = "apply" /\ step # NoStep /\ step.at = "removed"
  /\ row' = [row EXCEPT ![step.res] = NoRow]
  /\ NextTask
  /\ UNCHANGED <<clock, faults, serverVars, mirrorVars, nativeVars, op, alias, detached, born,
                 mode, pc>>

ApplyDone ==
  /\ pc = "apply" /\ todo = {}
  /\ IF mode = "two-way" THEN Phase("rewrites", Due) ELSE Phase("idle", {})
  /\ UNCHANGED <<clock, faults, serverVars, mirrorVars, nativeVars, ownVars, born, mode>>

-----------------------------------------------------------------------------

Others ==
  \/ \E h \in Resources : LocalEdit(h) \/ LocalDelete(h) \/ RemoteEdit(h) \/ RemoteDelete(h)
  \/ \E m \in Modes : SetMode(m)

Faults == FetchFailed \/ Crash \/ \E h \in Resources : AnswerLost(h) \/ AwaitMirror(h)

Pass ==
  \/ StartPass \/ WritesDone \/ Fetched \/ ExchangeStarts \/ CompleteDone \/ SavedResources \/ ApplyDone
  \/ AcceptReceipt \/ Acknowledge \/ PublishSave \/ PublishId \/ PublishConfirm \/ RemoveRow
  \/ \E h \in Resources :
       \/ Attempt(h) \/ CompleteDelete(h) \/ CompleteAlias(h)
       \/ Skip(h) \/ QueueEdit(h) \/ QueueCreate(h) \/ PublishReserve(h) \/ RemoveNative(h)

Next == Others \/ Faults \/ Pass

Spec == Init /\ [][Next]_vars

(* The worker polls for ever, and each phase of a pass ends.               *)
FairSpec == Spec /\ WF_vars(Pass)

-----------------------------------------------------------------------------

Contents == 0 .. MaxClock

(* A record has a row before it has an operation.                          *)
TypeOK ==
  /\ clock \in 0 .. MaxClock /\ faults \in 0 .. MaxFaults
  /\ srv \in [Resources -> Contents] /\ mir \in [Resources -> Contents] /\ nat \in [Resources -> Contents]
  /\ copies \in [Resources -> Nat] /\ row \in [Resources -> Rows] /\ retained \subseteq Resources
  /\ op \in [Resources -> Operations \cup {NoOp}]
  /\ \A h \in Resources : Unresolved(h) => row[h] # NoRow
  /\ born \in [Resources -> {"none", "local", "server"}]
  /\ alias \subseteq Resources /\ detached \subseteq Resources /\ mode \in Modes
  /\ pc \in {"idle", "writes", "fetch", "exchange", "complete", "saved", "apply", "rewrites"}
  /\ todo \subseteq Resources
  /\ step \in Steps \cup {NoStep} /\ (step = NoStep \/ step.res \in todo)

(* However the daemon dies between its commits, a resource never has two   *)
(* native records, unless the user turns to one-way mode while the alias   *)
(* of an acknowledged creation is still unknown (EarlySwitch).             *)
NoDuplicate == \A h \in Resources : copies[h] <= 1

(* An upload or a deletion replaces only a content this device has held.   *)
OverwritesOnlyShown(h) ==
  pc \in {"writes", "rewrites"} /\ srv'[h] # srv[h] => srv[h] \in shown \cup {0}

(* The daemon replaces or removes a native content only if the server has  *)
(* held it; a one-way publication may discard edits that were never        *)
(* queued, but no content of an operation still under way.                 *)
LocalEditKept(h) ==
  nat'[h] # nat[h] /\ nat[h] # 0 =>
    \/ nat[h] \in stored
    \/ mode = "one-way" /\ \A g \in Resources : op[g].body # nat[h]

(* However fetches, exchanges, uploads and edits interleave, and wherever  *)
(* the daemon dies, it buries no revision of another client and no edit of *)
(* the user: the base of an upload is what RCNativeQueue compared, and a   *)
(* publication skips what is busy (RCNativeExchange.m, RCTwoWaySync.m).    *)
NoEditBuried ==
  [][clock' = clock => \A h \in Resources : OverwritesOnlyShown(h) /\ LocalEditKept(h)]_vars

InSync(h) ==
  \/ nat[h] = srv[h] /\ op[h] = NoOp
  \/ nat[h] # 0 /\ h \in retained \* a window never proves a deletion
  \/ nat[h] = 0 /\ mir[h] = 0 /\ h \in Outside

(* Deleted here and created again by another client: the acknowledgement   *)
(* of the deletion waits for a mirror without the resource.                *)
Recreated(h) == op[h].kind = "delete" /\ op[h].state = "applied" /\ mir[h] # 0

(* Once the edits and the faults stop, in two-way mode, every resource is  *)
(* and stays the same on both sides, unless it waits in a conflict or      *)
(* behind a re-creation, or an interrupted save refuses the exchange.      *)
Converges ==
  <>[](mode = "two-way" =>
         \/ \A h \in Resources : InSync(h) \/ op[h].state = "conflict" \/ Recreated(h)
         \/ \E h \in Resources : row[h].pending)
=============================================================================
