--------------------------- MODULE MCResourceData ---------------------------
(***************************************************************************)
(* Instances of the stages between a local record and the body of its      *)
(* resource: comparison, the plan of an upload, the text of its lines, the *)
(* patch of the body, the series shown for an event, the identities of a   *)
(* card's properties.  They share no state, so a behaviour runs one stage  *)
(* and the others keep their initial states.                               *)
(***************************************************************************)
EXTENDS ContactIdentity, FieldPlan, RecordEquality, SeriesProjection

CONSTANTS
  FirstLimit, NextLimit, Parts, MaxText,  \* ContentLines
  Refused, None                           \* ResourcePatch

VARIABLES
  part,  \* the stage this behaviour runs
  text, raw,
  published, asked, ops, returned

(* FieldPlan: a root with two independent groups, and one child owned by it. *)
Graph     == {"root", "child"}
TwoGroups == [root |-> {{"first", "last"}, {"notes"}}, child |-> {{"value"}}]
Children  == [root |-> {"children"}, child |-> {}]
Owner     == [root |-> {}, child |-> {"owner"}]
Unknown   == [root |-> {"unknown"}, child |-> {}]
Stamp     == [root |-> {"stamp"}, child |-> {}]

Lines == INSTANCE ContentLines

(* ResourcePatch: an event with repeated properties around an alarm, two   *)
(* events, and a card with groups.                                         *)
Changes == {"c1", "c2"}
Shape == INSTANCE ResourcePatch WITH Bodies <- {}, Edits <- {}
Old(group, name) == Shape!Property(group, name, "old")
Bodies ==
  {<<Shape!Begin("VCALENDAR"), Shape!Begin("VEVENT"), Old("", "SUMMARY"), Old("", "UID"), Shape!Begin("VALARM"),
     Old("", "DESCRIPTION"), Shape!End("VALARM"), Old("", "SUMMARY"), Shape!End("VEVENT"), Shape!End("VCALENDAR")>>,
   <<Shape!Begin("VCALENDAR"), Shape!Begin("VEVENT"), Old("", "SUMMARY"), Shape!End("VEVENT"),
     Shape!Begin("VEVENT"), Old("", "SUMMARY"), Old("", "SUMMARY"), Shape!End("VEVENT"), Shape!End("VCALENDAR")>>,
   <<Shape!Begin("VCARD"), Old("", "UID"), Old("g", "TEL"), Old("", "TEL"), Old("g", "TEL"), Shape!End("VCARD")>>}
Appended == Shape!Appended
Edits ==
  {Shape!Edit(c, "", "SUMMARY", o, v, None, None) : c \in 1 .. 2, o \in {0, 1, Appended}, v \in {None, "new"}}
  \cup {Shape!Edit(0, "", "TEL", o, v, None, None) : o \in {0, 1, Appended}, v \in {None, "new"}}
  \cup {Shape!Edit(0, "g", "TEL", o, "new", p, r) : o \in {0, 1, Appended}, p \in {None, "p"}, r \in {None, "URL"}}
  \cup {Shape!Edit(2, "", "DESCRIPTION", o, v, None, None) : o \in {0, Appended}, v \in {None, "new"}}
  \cup {Shape!Edit(1, "", "DTSTART", Appended, v, None, None) : v \in {"new", "malformed"}}
Patch == INSTANCE ResourcePatch

ASSUME StageConstants ==
  NextLimit \in Nat /\ NextLimit >= 3 /\ FirstLimit \in Nat /\ FirstLimit >= NextLimit

linesVars == <<text, raw>>
patchVars == <<published, asked, ops, returned>>
vars == <<part, linesVars, patchVars, equalityVars, seriesVars, identityVars, fieldVars>>

Init ==
  /\ part \in {"lines", "patch", "equality", "series", "identity", "plan"}
  /\ Lines!Init /\ EqualityInit /\ SeriesInit /\ IdentityInit
  /\ Patch!Init /\ (part # "patch" => published.body = CHOOSE body \in Bodies : TRUE)
  /\ PlanInit /\ (part # "plan" => uneditable = {} /\ base = truth /\ \A i \in Ids : base[i] # Absent)

Next ==
  /\ UNCHANGED part
  /\ \/ /\ part = "lines" /\ Lines!Next
        /\ UNCHANGED <<patchVars, equalityVars, seriesVars, identityVars, fieldVars>>
     \/ /\ part = "patch" /\ Patch!Next
        /\ UNCHANGED <<linesVars, equalityVars, seriesVars, identityVars, fieldVars>>
     \/ /\ part = "equality" /\ EqualityNext
        /\ UNCHANGED <<linesVars, patchVars, seriesVars, identityVars, fieldVars>>
     \/ /\ part = "series" /\ SeriesNext
        /\ UNCHANGED <<linesVars, patchVars, equalityVars, identityVars, fieldVars>>
     \/ /\ part = "identity" /\ IdentityNext
        /\ UNCHANGED <<linesVars, patchVars, equalityVars, seriesVars, fieldVars>>
     \/ /\ part = "plan" /\ PlanNext
        /\ UNCHANGED <<linesVars, patchVars, equalityVars, seriesVars, identityVars>>

Spec == Init /\ [][Next]_vars

-----------------------------------------------------------------------------

(* What is uploaded as text is read back as it was (ContentLines).         *)
WireRoundTrip == Lines!WireRoundTrip

(* Edits of a body address one base, in any order (ResourcePatch).         *)
OrderIrrelevant == Patch!OrderIrrelevant
=============================================================================
