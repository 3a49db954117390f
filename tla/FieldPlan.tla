----------------------------- MODULE FieldPlan ------------------------------
(***************************************************************************)
(* Which fields of a local edit are uploaded, which stay pending, and      *)
(* which the completed upload acknowledges (RCSyncPolicy.c,                *)
(* RCTwoWayFields.m, RCTwoWaySavePendingFields).  One resource is a graph  *)
(* of a root record and its children.  Rounds follow each other: the plan  *)
(* is made, uploaded, verified and its receipt compared with the local     *)
(* records, which the user goes on editing.                                *)
(*                                                                         *)
(* Data.  A field's value is a number; 0 is an absent, empty or default    *)
(* value (RCSyncFieldDefault).  Groups are the field groups of             *)
(* RCIndependentFieldGroup, Fixed the ownership fields, Structure the      *)
(* other fields of RCWritableFieldNames, Opaque what no encoder knows and  *)
(* Ignored the native bookkeeping.  The encoder (RCContactTwoWay.m,        *)
(* RCCalendarTwoWay.m) refuses a change that the raw representation of     *)
(* this very resource cannot carry: uneditable is arbitrary.               *)
(***************************************************************************)
EXTENDS Naturals, FiniteSets

CONSTANTS
  Ids,        \* records of the resource
  Root,       \* its contact or event
  Groups,     \* Groups[i]: the independent groups of fields of record i
  Structure, Fixed, Opaque, Ignored, \* the other fields of record i
  MaxEdits,   \* bound: edits made by the user, and interruptions
  Absent

AllFields ==
  UNION {(UNION Groups[i]) \cup Structure[i] \cup Fixed[i] \cup Opaque[i] \cup Ignored[i] : i \in Ids}

ASSUME PlanConstants ==
  /\ Root \in Ids /\ MaxEdits \in Nat /\ "record" \notin AllFields
  /\ \A i \in Ids : \A g, h \in Groups[i] : g # h => g \cap h = {}

VARIABLES
  base,       \* base[i]: record i of the verified server resource
  truth,      \* truth[i]: the local record
  uneditable, \* <<record, field>> pairs, or <<record, "record">>, that the
              \* encoder cannot change in this resource
  pending,    \* two_way_pending_fields
  attention,  \* the reason in two_way_attention
  open,       \* whether the upload made last is still to be acknowledged
  phase, untried,   \* where the plan is, and the groups it still has to try
  projected,  \* the edit as far as any encoder could represent it
  working,    \* the graph the encoder accepted last, or is to try
  scopes,     \* scopes[i]: the fields that would be acknowledged
  upload,     \* the journaled upload: its receipt with tombstones, the scopes,
              \* and what it was planned from (history)
  edits

planVars == <<untried, projected, working, scopes>>
fieldVars == <<base, truth, uneditable, pending, attention, open, phase, planVars, upload, edits>>

Independent(i) == UNION Groups[i]
RCWritableFieldNames(i) == Independent(i) \cup Structure[i] \cup Fixed[i]
Fields(i) == RCWritableFieldNames(i) \cup Opaque[i] \cup Ignored[i]
Tombstone == [f \in AllFields |-> 2]
Record(fields) == [f \in AllFields |-> IF f \in fields THEN 1 ELSE 0]
NoGraph  == [i \in Ids |-> Absent]
NoFields == [i \in Ids |-> {}]

-----------------------------------------------------------------------------
(* Comparison of records, graphs and receipts (RecordEquality has          *)
(* RCRecordsEqual in full).                                                *)

RecordsAgree(a, b, i, fields) ==
  IF a = Absent \/ b = Absent THEN a = b
  ELSE \A f \in fields \ Ignored[i] : a[f] = b[f]

RCGraphsEqual(a, b) == \A i \in Ids : RecordsAgree(a[i], b[i], i, AllFields)

(* An empty scope keeps a record on the server and acknowledges nothing.   *)
RCReceiptMatches(current, expected, scope) ==
  \A i \in Ids : expected[i] # Absent =>
    IF expected[i] = Tombstone THEN current[i] = Absent
    ELSE scope[i] # {} =>
           current[i] # Absent /\ RecordsAgree(current[i], expected[i], i, scope[i])

-----------------------------------------------------------------------------

(* A resource with or without its children, or one that is to be created.  *)
PlanInit ==
  /\ \E have \in SUBSET Ids :
       /\ have # {} => Root \in have
       /\ base = [i \in Ids |-> IF i \in have THEN Record(RCWritableFieldNames(i)) ELSE Absent]
       /\ truth = [base EXCEPT ![Root] = Record(RCWritableFieldNames(Root))]
  /\ uneditable \in SUBSET ((UNION {{i} \X RCWritableFieldNames(i) : i \in Ids})
                             \cup Ids \X {"record"})
  /\ pending = NoFields /\ attention = "none" /\ open = FALSE /\ edits = 0
  /\ phase = "idle" /\ untried = {} /\ projected = NoGraph /\ working = NoGraph
  /\ scopes = NoFields /\ upload = [receipt |-> NoGraph, scopes |-> NoFields, from |-> NoGraph]

(* The user changes a field, or adds or removes a child.  The plan works   *)
(* on a snapshot, so an edit during it is an edit after it.                *)
Edit(i) ==
  /\ phase \in {"idle", "queued", "verified"}
  /\ edits < MaxEdits /\ edits' = edits + 1
  /\ \/ /\ truth[i] # Absent
        /\ \E f \in Fields(i) : truth' = [truth EXCEPT ![i][f] = 1 - @]
     \/ /\ i # Root
        /\ truth' = [truth EXCEPT ![i] = IF @ = Absent THEN Record(RCWritableFieldNames(i)) ELSE Absent]
  /\ UNCHANGED <<base, uneditable, pending, attention, open, phase, planVars, upload>>

-----------------------------------------------------------------------------
(* RCTwoWayEncodeFields and RCPlanIndependentFields.                       *)

Changed(a, b, f) ==
  LET value(r) == IF r = Absent THEN 0 ELSE r[f] IN value(a) # value(b)

(* The strict encoder: it carries a graph over entirely or not at all, and *)
(* may refuse the resource whatever the graph.                             *)
Encodes(graph) ==
  /\ <<Root, "record">> \notin uneditable
  /\ \A i \in Ids :
    /\ (base[i] = Absent) # (graph[i] = Absent) => <<i, "record">> \notin uneditable
    /\ \A f \in RCWritableFieldNames(i) :
         graph[i] # Absent /\ Changed(base[i], graph[i], f) => <<i, f>> \notin uneditable

(* The local value of the writable fields, the server's of any other.      *)
Project(i) ==
  IF truth[i] = Absent THEN Absent
  ELSE [f \in AllFields |-> IF f \in RCWritableFieldNames(i) THEN truth[i][f]
                            ELSE IF base[i] # Absent THEN base[i][f] ELSE 0]

(* A pass finds the resource idle, or its completed upload outdated.       *)
StartPlan ==
  /\ \/ phase = "idle" /\ ~(RCGraphsEqual(base, truth) /\ \A i \in Ids : pending[i] = {})
     \/ phase = "verified" /\ ~RCReceiptMatches(truth, upload.receipt, upload.scopes)
  /\ projected' = [i \in Ids |-> Project(i)]
  /\ working' = projected'
  /\ scopes' = [i \in Ids |-> RCWritableFieldNames(i)]
  /\ phase' = "whole"
  /\ UNCHANGED <<base, truth, uneditable, pending, attention, open, untried, upload, edits>>

Same(i) == base[i] # Absent /\ projected[i] # Absent

(* The independent groups put back, every other change kept.               *)
WithoutGroups ==
  [i \in Ids |-> IF ~Same(i) THEN projected[i]
                 ELSE [f \in AllFields |-> IF f \in Independent(i) THEN base[i][f] ELSE projected[i][f]]]

MovedOwner == \E i \in Ids : Same(i) /\ \E f \in Fixed[i] : base[i][f] # projected[i][f]

(* Nothing can be uploaded: the edit waits for attention, or the verified  *)
(* upload for its acknowledgement.                                         *)
Refuse ==
  /\ phase' = IF open THEN "verified" ELSE "idle"
  /\ attention' = IF open THEN "acceptance" ELSE "mapping"

EncodeWhole ==
  /\ phase = "whole"
  /\ \/ Encodes(working) /\ phase' = "planned" /\ UNCHANGED <<working, untried, attention>>
     \/ /\ ~Encodes(working) /\ (base[Root] = Absent \/ MovedOwner)
        /\ Refuse /\ UNCHANGED <<working, untried>>
     \/ /\ ~Encodes(working) /\ base[Root] # Absent /\ ~MovedOwner
        /\ working' = WithoutGroups
        /\ untried' = UNION {{i} \X Groups[i] : i \in {j \in Ids : Same(j)}}
        /\ phase' = "structure" /\ UNCHANGED attention
  /\ UNCHANGED <<base, truth, uneditable, pending, open, projected, scopes, upload, edits>>

(* Faulty variant: what was put back is still acknowledged.                *)
EncodeStructureKeepScopes ==
  /\ phase = "structure"
  /\ \/ Encodes(working) /\ phase' = "groups" /\ UNCHANGED <<working, attention>>
     \/ ~Encodes(working) /\ Encodes(base) /\ phase' = "groups" /\ working' = base /\ UNCHANGED attention
     \/ ~Encodes(working) /\ ~Encodes(base) /\ Refuse /\ UNCHANGED working
  /\ UNCHANGED <<base, truth, uneditable, pending, open, untried, projected, scopes, upload, edits>>

(* If the structural changes cannot be carried they are put back too, and  *)
(* only groups of records on both sides can still be acknowledged.         *)
EncodeStructure ==
  /\ phase = "structure"
  /\ \/ Encodes(working) /\ phase' = "groups" /\ UNCHANGED <<working, scopes, attention>>
     \/ /\ ~Encodes(working) /\ Encodes(base) /\ phase' = "groups"
        /\ working' = base
        /\ scopes' = [i \in Ids |-> IF Same(i) THEN Independent(i) \cup Fixed[i] ELSE {}]
        /\ UNCHANGED attention
     \/ ~Encodes(working) /\ ~Encodes(base) /\ Refuse /\ UNCHANGED <<working, scopes>>
  /\ UNCHANGED <<base, truth, uneditable, pending, open, untried, projected, upload, edits>>

With(i, g) == [working EXCEPT ![i] = [f \in AllFields |-> IF f \in g THEN projected[i][f] ELSE @[f]]]

EncodeGroup ==
  /\ phase = "groups" /\ untried # {}
  /\ \E t \in untried : LET i == t[1]  g == t[2] IN
       /\ untried' = untried \ {t}
       /\ IF Encodes(With(i, g)) THEN working' = With(i, g) /\ UNCHANGED scopes
          ELSE scopes' = [scopes EXCEPT ![i] = @ \ g] /\ UNCHANGED working
  /\ UNCHANGED <<base, truth, uneditable, pending, attention, open, phase, projected, upload, edits>>

GroupsDone ==
  /\ phase = "groups" /\ untried = {} /\ phase' = "planned"
  /\ UNCHANGED <<base, truth, uneditable, pending, attention, open, planVars, upload, edits>>

-----------------------------------------------------------------------------

(* What the local record has and the upload has not, or the reverse.       *)
Different(i) ==
  IF working[i] # Absent /\ truth[i] = Absent THEN {"record"}
  ELSE {f \in AllFields \ Ignored[i] : Changed(truth[i], working[i], f)}

(* An opaque field that disappears again was not uploaded either.          *)
StillPending(i) ==
  Different(i) \cup
    {f \in pending[i] \cap Opaque[i] : working[i] # Absent /\ working[i][f] = 0}

(* RCTwoWaySavePendingFields: the row is written only when it changes.     *)
Marked(fields) ==
  IF fields = NoFields THEN IF attention \in {"fields", "mapping"} THEN "none" ELSE attention
  ELSE IF fields = pending THEN attention ELSE "fields"

Journal ==
  [receipt |-> [i \in Ids |-> IF working[i] = Absent /\ base[i] # Absent THEN Tombstone ELSE working[i]],
   scopes  |-> [i \in Ids |-> IF working[i] = Absent THEN {} ELSE scopes[i]],
   from    |-> projected]

(* The pending fields are saved; unless the body is the base's own, the    *)
(* operation is queued, and the attention of an earlier refusal goes.  An  *)
(* open upload is acknowledged in the same transaction (QueueSuccessor).   *)
QueueUpload ==
  LET fields == [i \in Ids |-> StillPending(i)] IN
  /\ phase = "planned"
  /\ pending' = fields
  /\ IF working = base
     THEN phase' = "idle" /\ open' = FALSE /\ attention' = Marked(fields) /\ UNCHANGED upload
     ELSE /\ phase' = "queued" /\ open' = TRUE /\ upload' = Journal
          /\ attention' = IF ~open /\ Marked(fields) # "fields" THEN "none" ELSE Marked(fields)
  /\ UNCHANGED <<base, truth, uneditable, planVars, edits>>

(* The pending fields commit before the transaction of the queue begins:   *)
(* the daemon can stop between the two.                                    *)
QueueInterrupted ==
  LET fields == [i \in Ids |-> StillPending(i)] IN
  /\ phase = "planned" /\ ~open
  /\ edits < MaxEdits /\ edits' = edits + 1
  /\ pending' = fields /\ attention' = Marked(fields) /\ phase' = "idle"
  /\ UNCHANGED <<base, truth, uneditable, open, planVars, upload>>

(* DAVWriter: the upload was stored and verified.                          *)
Upload ==
  /\ phase = "queued"
  /\ base' = [i \in Ids |-> IF upload.receipt[i] = Tombstone THEN Absent ELSE upload.receipt[i]]
  /\ phase' = "verified"
  /\ UNCHANGED <<truth, uneditable, pending, attention, open, planVars, upload, edits>>

(* RCTwoWayComplete with the acceptance of the exact receipt.              *)
Complete ==
  /\ phase = "verified" /\ RCReceiptMatches(truth, upload.receipt, upload.scopes)
  /\ phase' = "idle" /\ open' = FALSE
  /\ attention' = IF attention = "acceptance" THEN "none" ELSE attention
  /\ UNCHANGED <<base, truth, uneditable, pending, planVars, upload, edits>>

Daemon ==
  \/ StartPlan \/ EncodeWhole \/ EncodeStructure \/ EncodeGroup \/ GroupsDone
  \/ QueueUpload \/ Upload \/ Complete

PlanNext == Daemon \/ QueueInterrupted \/ \E i \in Ids : Edit(i)

PlanSpec == PlanInit /\ [][PlanNext]_fieldVars

-----------------------------------------------------------------------------

Graphs == [Ids -> [AllFields -> 0 .. 2] \cup {Absent}]

(* The graphs, scopes and pending names are of the resource's own records. *)
PlanTypeOK ==
  /\ {base, truth, projected, working, upload.receipt, upload.from} \subseteq Graphs
  /\ \A i \in Ids : pending[i] \subseteq Fields(i) \cup {"record"} /\ scopes[i] \subseteq Fields(i)
  /\ attention \in {"none", "fields", "mapping", "acceptance"} /\ open \in BOOLEAN
  /\ phase \in {"idle", "whole", "structure", "groups", "planned", "queued", "verified"}
  /\ phase = "idle" => ~open

(* The scope of an upload is honest: a field it will acknowledge was       *)
(* uploaded with the very value the user had given it, however many groups *)
(* and structural changes the plan had to put back.                        *)
ScopeIsHonest ==
  \A i \in Ids : upload.receipt[i] \notin {Absent, Tombstone} =>
    \A f \in upload.scopes[i] :
      upload.from[i] # Absent /\ upload.receipt[i][f] = upload.from[i][f]

=============================================================================
