---------------------------- MODULE ResourcePatch ---------------------------
(***************************************************************************)
(* Edits of the raw vCard or iCalendar body of a resource                  *)
(* (RCResourcePatch) and their journaling (RCResourceEnqueueEdits).  A     *)
(* body is a sequence of unfolded lines (ContentLines): BEGIN, END and     *)
(* properties.  All edits of a call address the lines of the same base.    *)
(***************************************************************************)
EXTENDS Integers, Sequences, SequencesExt, FiniteSets, FiniteSetsExt

CONSTANTS
  Bodies,    \* bodies of the resource
  Edits,     \* edits that a caller may ask for
  MaxEdits,  \* bound: edits in one call
  Changes,   \* change identifiers
  Refused,   \* the result of a call that failed
  None       \* NULL

VARIABLES
  published, \* write_bases: the body and its local revision
  asked,     \* the edits put together for the next call
  ops,       \* write_operations, by change
  returned   \* what the last call returned, or "nothing"

vars == <<published, asked, ops, returned>>

Begin(kind) == [line |-> "BEGIN", name |-> kind, group |-> "", value |-> "", params |-> ""]
End(kind)   == [line |-> "END",   name |-> kind, group |-> "", value |-> "", params |-> ""]
Property(group, name, value) ==
  [line |-> "property", name |-> name, group |-> group, value |-> value, params |-> "old"]
Edit(component, group, name, occurrence, value, params, rename) ==
  [component |-> component, group |-> group, name |-> name, occurrence |-> occurrence,
   value |-> value, params |-> params, rename |-> rename]
Appended == -1  \* as the occurrence

-----------------------------------------------------------------------------

(* The component that each line opens, closes or stands in, by number and  *)
(* kind.  Refused unless the lines are one calendar or card with every     *)
(* component closed by its own END, and no component inside a card.        *)
Components(body) ==
  LET step(s, l) ==
        IF s = Refused \/ (s.stack = <<>> /\ s.of # <<>>) THEN Refused
        ELSE IF l.line = "BEGIN"
        THEN LET c == [number |-> s.count, kind |-> l.name] IN
             IF IF s.stack = <<>> THEN l.name \in {"VCALENDAR", "VCARD"} ELSE s.of[1].kind = "VCALENDAR"
             THEN [count |-> s.count + 1, stack |-> Append(s.stack, c), of |-> Append(s.of, c)]
             ELSE Refused
        ELSE IF s.stack = <<>> \/ (l.line = "END" /\ Last(s.stack).kind # l.name) THEN Refused
        ELSE [s EXCEPT !.stack = IF l.line = "END" THEN Front(@) ELSE @, !.of = Append(@, Last(s.stack))]
      end == FoldLeft(step, [count |-> 0, stack |-> <<>>, of |-> <<>>], body)
  IN  IF end = Refused \/ end.stack # <<>> \/ body = <<>> THEN Refused ELSE end.of

RCFraming(body) == Components(body) # Refused

(* valid: a framed body is parsed before and after the edits.  libical     *)
(* refuses a value that is malformed for its property, libvc none.         *)
ValidBody(body) ==
  RCFraming(body) /\ (body[1].name = "VCALENDAR" => \A i \in DOMAIN body : body[i].value # "malformed")

Allowed(kind, name) ==
  CASE kind = "VEVENT" -> name \in {"SUMMARY", "URL", "DTSTART"}
    [] kind = "VALARM" -> name = "DESCRIPTION"
    [] kind = "VCARD"  -> name \in {"TEL", "URL"}
    [] OTHER -> FALSE

(* Line i is one of the properties that the edit selects from.             *)
Matches(body, of, i, e) ==
  /\ body[i].line = "property" /\ e.occurrence # Appended
  /\ of[i].number = e.component /\ body[i].name = e.name /\ body[i].group = e.group

(* The line an edit is about: the occurrence it names, or the END of its   *)
(* component.  No line, or one that is not writable, refuses the call.     *)
Targets(body, of, e) ==
  {i \in DOMAIN body :
     \/ /\ Matches(body, of, i, e)
        /\ Cardinality({j \in 1 .. i - 1 : Matches(body, of, j, e)}) = e.occurrence
     \/ /\ e.occurrence = Appended /\ body[i].line = "END" /\ of[i].number = e.component}

Valid(e) == e.occurrence = Appended => e.value # None /\ e.rename = None

Writable(e, kind) == Allowed(kind, e.name) /\ (e.rename # None => Allowed(kind, e.rename))

(* The lines in the place of line i, none for a removal.                   *)
Replacement(body, e, i) ==
  IF e.value = None THEN <<>>
  ELSE <<[line |-> "property", name |-> IF e.rename = None THEN e.name ELSE e.rename, group |-> e.group,
          value |-> e.value,
          params |-> IF e.params # None THEN e.params
                     ELSE IF e.occurrence = Appended THEN "" ELSE body[i].params]>>

Patch(body, of, e) ==
  LET i == CHOOSE j \in Targets(body, of, e) : TRUE IN
  [start |-> i, end |-> IF e.occurrence = Appended THEN i ELSE i + 1, lines |-> Replacement(body, e, i)]

(* The stable insertion sort by the start.                                 *)
Sorted(patches) ==
  LET place(i) == Cardinality({j \in DOMAIN patches :
                                 patches[j].start < patches[i].start
                                 \/ (patches[j].start = patches[i].start /\ j <= i)})
  IN  [n \in DOMAIN patches |-> patches[CHOOSE i \in DOMAIN patches : place(i) = n]]

(* Faulty variant: the edits are applied one after the other.              *)
PatchInTurn(body, edits) ==
  LET apply(b, e) ==
        LET of == Components(b) IN
        IF b = Refused \/ ~Valid(e) \/ Targets(b, of, e) = {} THEN Refused
        ELSE LET p == Patch(b, of, e) IN
             IF ~Writable(e, of[p.start].kind) THEN Refused
             ELSE SubSeq(b, 1, p.start - 1) \o p.lines \o SubSeq(b, p.end, Len(b))
  IN  FoldLeft(apply, body, edits)

RCResourcePatch(body, edits) ==
  LET of == Components(body)
      refused(e) == \/ ~Valid(e) \/ Targets(body, of, e) = {}
                    \/ \E i \in Targets(body, of, e) : ~Writable(e, of[i].kind)
      apply(s, p) ==
        IF s = Refused \/ p.start < s.cursor THEN Refused
        ELSE [cursor |-> p.end, out |-> s.out \o SubSeq(body, s.cursor, p.start - 1) \o p.lines]
      end == FoldLeft(apply, [cursor |-> 1, out |-> <<>>],
                      Sorted([n \in DOMAIN edits |-> Patch(body, of, edits[n])]))
      result == end.out \o SubSeq(body, end.cursor, Len(body))
  IN  IF ~ValidBody(body) \/ (\E n \in DOMAIN edits : refused(edits[n])) THEN Refused
      ELSE IF end = Refused \/ ~ValidBody(result) THEN Refused ELSE result

-----------------------------------------------------------------------------

New(l) == l.line = "property" /\ l.value = "new"

Init ==
  /\ published \in [body : Bodies, revision : {1}]
  /\ asked = <<>> /\ ops = [c \in Changes |-> None] /\ returned = "nothing"

Ask ==
  /\ Len(asked) < MaxEdits
  /\ \E e \in Edits : asked' = Append(asked, e)
  /\ returned' = "nothing" /\ UNCHANGED <<published, ops>>

(* A change that was journaled before is made on its own base again, and   *)
(* RCWriteJournalEnqueue refuses it unless it gives the same body.  A new  *)
(* change needs the published revision, and no other one to be in the way. *)
RCResourceEnqueueEdits(change, revision) ==
  LET old  == ops[change]
      base == IF old # None THEN [body |-> old.base, revision |-> old.revision] ELSE published
      body == RCResourcePatch(base.body, asked)
      fits == revision = base.revision /\ body # Refused
  IN  /\ asked # <<>>
      /\ IF old # None
         THEN returned' = (IF fits /\ body = old.body THEN change ELSE Refused) /\ UNCHANGED ops
         ELSE IF fits /\ \A c \in Changes : ops[c] = None \/ ops[c].state = "acknowledged"
         THEN /\ returned' = change
              /\ ops' = [ops EXCEPT ![change] = [base |-> base.body, revision |-> revision, edits |-> asked,
                                                 body |-> body, state |-> "queued"]]
         ELSE returned' = Refused /\ UNCHANGED ops
      /\ UNCHANGED <<published, asked>>

(* The operation is uploaded and acknowledged, and its body published: its *)
(* values are those of the base now.                                       *)
Acknowledge(change) ==
  /\ ops[change] # None /\ ops[change].state = "queued"
  /\ ops' = [ops EXCEPT ![change].state = "acknowledged"]
  /\ published' = [body |-> [i \in DOMAIN ops[change].body |->
                                IF New(ops[change].body[i]) THEN [ops[change].body[i] EXCEPT !.value = "old"]
                                ELSE ops[change].body[i]],
                   revision |-> published.revision + 1]
  /\ returned' = "nothing" /\ UNCHANGED asked

Next ==
  \/ Ask
  \/ \E c \in Changes, r \in 1 .. 2 : RCResourceEnqueueEdits(c, r)
  \/ \E c \in Changes : published.revision < 2 /\ Acknowledge(c)

Spec == Init /\ [][Next]_vars
-----------------------------------------------------------------------------

Result == RCResourcePatch(published.body, asked)

(* All selectors address the same base: two edits give the same body in    *)
(* either order, or are refused in either, unless both append to one       *)
(* component.                                                              *)
OrderIrrelevant ==
  Len(asked) = 2 =>
    LET swapped == <<asked[2], asked[1]>>
        appends == \A n \in 1 .. 2 : asked[n].occurrence = Appended /\ asked[n].component = asked[1].component
    IN  appends \/ RCResourcePatch(published.body, swapped) = Result

=============================================================================
