--------------------------- MODULE RecordEquality ---------------------------
(***************************************************************************)
(* When two local records count as the same (RCSyncRecordEquality.h and    *)
(* RCRecordsEqual).  The comparison decides whether the user has edited a  *)
(* record, whether an upload came back as it was sent, and whether a       *)
(* receipt may be accepted, as a whole, by field and within a scope; these *)
(* uses have to agree with one another.                                    *)
(*                                                                         *)
(* A record is a function of its fields; Nil is a missing one.  Fields of  *)
(* a kind behave alike, so there is one of each: a text with a default, an *)
(* ignored timestamp, an unordered relationship, a date, and the two       *)
(* fields that name an alarm's sound.                                      *)
(***************************************************************************)
EXTENDS Naturals, Sequences, SequencesExt, FiniteSets

CONSTANTS
  Nil,
  Texts,     \* texts other than the empty one and the default
  First, Second,   \* members of a relationship
  Instants,  \* absolute points in time
  Walls      \* wall-clock times

SoundFields == {"sound", "com.apple.ical.sound"}
EntityKey == "com.apple.syncservices.RecordEntityName"
Keys == {EntityKey, "summary", "datestamp", "attendees", "start date"} \cup SoundFields

(* A floating date remembers the instant it meant when it was read.        *)
Floating(w, i) == [type |-> "floating", wall |-> w, instant |-> i]
Absolute(i)    == [type |-> "date", wall |-> Nil, instant |-> i]
Text(t)        == [type |-> "text", text |-> t]
List(s)        == [type |-> "list", list |-> s]
URL(u)         == [type |-> "url", url |-> u]

(* System sounds and their files, with and without "localhost", a relative *)
(* URL equal to the bare name, and an attachment of the user's own.        *)
Sounds == {"Basso", "Glass"}
File(name)  == URL(<<"file", name>>)
Local(name) == URL(<<"localhost", name>>)
Bare(name)  == URL(<<"relative", name>>)
Custom      == URL(<<"file", "/Users/own">>)
Invalid     == URL(<<"invalid">>)

(* In either order, repeated, partly and not at all.                       *)
Lists == SeqOf({First, Second}, 2) \ {<<Second>>, <<Second, Second>>}

EventValues == [summary |-> {Nil} \cup {Text(t) : t \in Texts \cup {"", "Untitled event"}},
                datestamp |-> {Nil, Text("stamp")},
                attendees |-> {Nil} \cup {List(s) : s \in Lists},
                start     |-> {Nil} \cup {Absolute(i) : i \in Instants}
                                    \cup {Floating(w, i) : w \in Walls, i \in Instants}]
Blank == [k \in Keys |-> Nil]

Events ==
  {[Blank EXCEPT ![EntityKey] = Text("Event"), !["summary"] = s, !["datestamp"] = t,
                 !["attendees"] = m, !["start date"] = d] :
     s \in EventValues.summary, t \in EventValues.datestamp,
     m \in EventValues.attendees, d \in EventValues.start}
Alarms ==
  {[Blank EXCEPT ![EntityKey] = Text("AudioAlarm"), !["sound"] = n, !["com.apple.ical.sound"] = u] :
     n \in {Nil} \cup {Text(x) : x \in Sounds \cup {"", "a/b"}},
     u \in {Nil, Custom, Text("Basso")} \cup {File(x) : x \in Sounds}
           \cup {Local(x) : x \in Sounds} \cup {Bare(x) : x \in Sounds}}
Records == Events \cup Alarms

VARIABLES left, right

equalityVars == <<left, right>>

EqualityInit == left = Nil /\ right = Nil
EqualityNext ==
  \/ left = Nil /\ left' \in Records /\ UNCHANGED right
  \/ left # Nil /\ right = Nil /\ right' \in Records /\ UNCHANGED left
EqualitySpec == EqualityInit /\ [][EqualityNext]_equalityVars

-----------------------------------------------------------------------------

RCNativeEmptyValue(v) == v \in {Nil, Text(""), List(<<>>)}

RCRecordEntity(r) == IF r[EntityKey] = Nil THEN Nil ELSE r[EntityKey].text

RCIgnoredNativeField(entity, key) == entity = "Event" /\ key = "datestamp"

RCUnorderedField(key) == key = "attendees"

RCSyncFieldDefault(entity, key) ==
  IF entity = "Event" /\ key = "summary" THEN Text("Untitled event") ELSE Nil

RCNativeFloatingDate(v) == v # Nil /\ v.type = "floating"

(* -isEqual: dates by their instant, anything else by value.               *)
IsEqual(x, y) ==
  IF x = Nil \/ y = Nil THEN FALSE
  ELSE IF {x.type, y.type} \subseteq {"floating", "date"} THEN x.instant = y.instant ELSE x = y

RCNativePropertyValuesEqual(entity, key, x, y) ==
  LET default == RCSyncFieldDefault(entity, key)
      value(v) == IF default # Nil /\ RCNativeEmptyValue(v) THEN default ELSE v
  IN  IF RCNativeFloatingDate(x) \/ RCNativeFloatingDate(y)
      THEN RCNativeFloatingDate(x) /\ RCNativeFloatingDate(y) /\ x.wall = y.wall
      ELSE \/ RCNativeEmptyValue(value(x)) /\ RCNativeEmptyValue(value(y))
           \/ IsEqual(value(x), value(y))

RCRecordUnorderedEqual(x, y) ==
  /\ x # Nil /\ y # Nil /\ x.type = "list" /\ y.type = "list"
  /\ ToSet(x.list) = ToSet(y.list)

RCNativeLocalSoundURL(u) == IF u # Nil /\ u.url[1] = "localhost" THEN File(u.url[2]) ELSE u

(* The sound an alarm plays, or Invalid when its two fields disagree.    *)
RCNativeAlarmSound(r) ==
  LET name == IF RCNativeEmptyValue(r["sound"]) THEN Nil ELSE r["sound"]
      url  == IF RCNativeEmptyValue(r["com.apple.ical.sound"]) THEN Nil ELSE r["com.apple.ical.sound"]
  IN  IF url # Nil /\ url.type # "url" THEN Invalid
      ELSE LET own == RCNativeLocalSoundURL(url) IN
           IF name = Nil THEN own
           ELSE IF name.text = "a/b" THEN Invalid
           ELSE IF own = Bare(name.text) THEN own
           ELSE IF own # Nil /\ own # File(name.text) THEN Invalid
           ELSE File(name.text)

RCRecordsEqual(x, y) ==
  LET entity == IF RCRecordEntity(x) = RCRecordEntity(y) THEN RCRecordEntity(x) ELSE Nil
      alarm  == /\ entity = "AudioAlarm"
                /\ Invalid \notin {RCNativeAlarmSound(x), RCNativeAlarmSound(y)}
  IN  /\ alarm => RCNativeAlarmSound(x) = RCNativeAlarmSound(y)
      /\ \A k \in Keys :
           \/ x[k] = Nil /\ y[k] = Nil
           \/ RCIgnoredNativeField(entity, k)
           \/ alarm /\ k \in SoundFields
           \/ RCNativePropertyValuesEqual(entity, k, x[k], y[k])
           \/ RCUnorderedField(k) /\ RCRecordUnorderedEqual(x[k], y[k])

RCNativeScopedRecord(r, fields) ==
  [k \in Keys |-> IF k \in fields \cup {EntityKey} THEN r[k] ELSE Nil]

(* Faulty variant: the two sound fields are compared one at a time.        *)
FieldEqualAlone(x, y, key) ==
  RCRecordsEqual(RCNativeScopedRecord(x, {key}), RCNativeScopedRecord(y, {key}))

(* RCTwoWayFields: the two sound fields are one.                           *)
FieldEqual(x, y, key) ==
  LET keys == IF key \in SoundFields THEN SoundFields ELSE {key}
  IN  RCRecordsEqual(RCNativeScopedRecord(x, keys), RCNativeScopedRecord(y, keys))

-----------------------------------------------------------------------------

(* Records are equal exactly when no field of theirs would be listed as    *)
(* pending: the plan of an upload and its acceptance agree.                *)
FieldsAgreeWithRecord ==
  right # Nil => (RCRecordsEqual(left, right) <=> \A k \in Keys : FieldEqual(left, right, k))

=============================================================================
