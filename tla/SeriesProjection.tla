-------------------------- MODULE SeriesProjection --------------------------
(***************************************************************************)
(* What a recurring event of the server becomes for a native calendar      *)
(* (RCCalendarProjection.c and Date of RCCalendarGraph.m).  Extra dates    *)
(* and exclusion rules are written out as a daily series with              *)
(* exceptions; a series whose time zone the platform knows by other rules  *)
(* becomes a daily series in UTC, its shifted occurrences detached.        *)
(*                                                                         *)
(* An occurrence is the day after DTSTART, at DTSTART's wall time, that    *)
(* RCRecurrenceDay gives; day Span + 1 stands for one it refuses.          *)
(* A zone gives the offset of every day.  Iterating a rule and reading a   *)
(* VTIMEZONE are libical's.                                                *)
(***************************************************************************)
EXTENDS Integers, FiniteSetsExt

CONSTANTS
  Span,       \* the days an expanded series may last, 3660
  Horizon,    \* the days on which zones are compared, up to five years on
  Probes,     \* those of them, one a month, that Date looks at again
  Budget,     \* the occurrences that may be enumerated, 10000
  DayLength,  \* the seconds of a day
  MaxOffset   \* bound: offsets from UTC

ASSUME SeriesConstants ==
  /\ Span \in Nat /\ Horizon \in 0 .. Span /\ Probes \subseteq 0 .. Horizon /\ 0 \in Probes
  /\ Budget \in Nat /\ MaxOffset \in Nat /\ DayLength \in Nat /\ DayLength > 2 * MaxOffset

VARIABLES
  progress, \* "none", "read", "kept" or "expanded", "shown" or "refused"
  event,   \* the parsed event, rewritten in place
  wanted,  \* the days on which the source event occurs
  zone,    \* the resource's own offset of every day
  native,  \* the platform's offset of every day
  view     \* the series handed to the native calendar

seriesVars == <<progress, event, wanted, zone, native, view>>

SeriesDays  == 0 .. Span
Late  == Span + 1
Zones == [SeriesDays -> 0 .. MaxOffset]

Occurs(e) == ((({0} \cup e.rdates \cup e.rule) \ e.exrule) \ e.exdates)

Unread == [d \in SeriesDays |-> 0]
NoView == [kind |-> "none"]

NoEvent == [rule |-> {}, finite |-> TRUE, rdates |-> {}, exrule |-> {}, odd |-> {}, later |-> {}, exdates |-> {}]

SeriesInit ==
  /\ progress = "none" /\ zone = Unread /\ native = Unread /\ view = NoView
  /\ event = NoEvent /\ wanted = {}

UpToOne == {{}} \cup {{d} : d \in SeriesDays}

(* An event with an optional rule, its dates and its exclusions; odd are   *)
(* days of the exclusion rule at another wall time, later those of them at *)
(* a later one than DTSTART's.                                             *)
Parsed ==
  /\ progress = "none" /\ progress' = "read"
  /\ event' \in [rule : SUBSET (0 .. Late), finite : BOOLEAN, rdates : SUBSET (1 .. Late),
                exrule : SUBSET (0 .. Late), odd : UpToOne, later : UpToOne, exdates : UpToOne]
  /\ event'.later \subseteq event'.odd /\ event'.odd \subseteq event'.exrule /\ (event'.rule = {} => event'.finite)
  /\ wanted' = Occurs([event' EXCEPT !.exrule = @ \ event'.odd])
  /\ UNCHANGED <<zone, native, view>>

-----------------------------------------------------------------------------
(* RCExpandFiniteRecurrence.                                               *)

(* Faulty variant: the last day of the series is forgotten.                *)
EnvelopeShort(last) == 0 .. (last - 1)

(* FREQ=DAILY;COUNT=last+1.                                                *)
Envelope(last) == 0 .. last

RefuseSeries == progress' = "refused" /\ UNCHANGED <<event, wanted, zone, native, view>>

Expanded(e) == e.rdates # {} \/ e.exrule # {}
LastDay(e) == Max({0} \cup e.rdates \cup e.rule)

(* Exclusions are enumerated as far as the last included occurrence: an    *)
(* instance later on its day ends the enumeration.                         *)
Excluding(e) == {d \in e.exrule : d < LastDay(e) \/ (d = LastDay(e) /\ d \notin e.later)}

Expandable(e) ==
  /\ e.rule # {} => e.finite
  /\ Late \notin e.rule \cup e.rdates
  /\ Excluding(e) \cap e.odd = {}
  /\ Cardinality(e.rule) + Cardinality(Excluding(e)) <= Budget

(* The table of days.                                                      *)
Included(e) == ({0} \cup e.rdates \cup e.rule) \ Excluding(e)

RCExpandFiniteRecurrence ==
  /\ progress = "read" /\ (Expanded(event) => Expandable(event))
  /\ progress' = (IF Expanded(event) THEN "expanded" ELSE "kept")
  /\ event' = IF ~Expanded(event) THEN event
              ELSE [rule |-> Envelope(LastDay(event)), finite |-> TRUE, rdates |-> {}, exrule |-> {},
                    odd |-> {}, later |-> {},
                    exdates |-> event.exdates
                      \cup ((0 .. LastDay(event)) \ Included(event))]
  /\ UNCHANGED <<wanted, zone, native, view>>

ExpansionRefused ==
  /\ progress = "read" /\ Expanded(event) /\ ~Expandable(event)
  /\ RefuseSeries

-----------------------------------------------------------------------------
(* ProjectTimezone.  The resource's zone z is fixed when its definition    *)
(* has one offset; known is FALSE when the platform has no zone of that    *)
(* name.                                                                   *)

SameOn(days, z, n, known) == known /\ \A d \in days : n[d] = z[d]

(* The daily comparison, for a rule in a zone with transitions.            *)
RCCalendarNeedsUTCProjection(z, n, known, fixed) ==
  event.rule # {} /\ ~fixed /\ ~SameOn(0 .. Horizon, z, n, known)

UTC(z, d) == d * DayLength - z[d]
Baseline(z, d) == UTC(z, 0) + d * DayLength

(* Days with an occurrence once the exceptions are taken out.              *)
Occurrences == ({0} \cup event.rule) \ event.exdates

(* The UTC envelope: a day without an occurrence is an exception, a moved  *)
(* one is detached from its place.                                         *)
ProjectedSeries(z) ==
  LET last == Max({0} \cup event.rule)
      moved == {d \in Occurrences : UTC(z, d) # Baseline(z, d)}
  IN [kind |-> "utc", base |-> {Baseline(z, d) : d \in Envelope(last)},
      exdates |-> {Baseline(z, d) : d \in (0 .. last) \ Occurrences},
      detached |-> {<<Baseline(z, d), UTC(z, d)>> : d \in moved}]

(* special stands for what a projection cannot carry: a detached instance, *)
(* an absolute reminder, DURATION, a second rule, an end after 2037.       *)
Projectable(special) ==
  /\ ~special /\ event.finite /\ Late \notin event.rule
  /\ Cardinality(event.rule) <= Budget

ProjectTimezone(z, n, known, fixed, special) ==
  /\ progress \in {"kept", "expanded"} /\ RCCalendarNeedsUTCProjection(z, n, known, fixed)
  /\ Projectable(special)
  /\ progress' = "shown" /\ zone' = z /\ native' = n
  /\ view' = ProjectedSeries(z)
  /\ UNCHANGED <<event, wanted>>

ProjectionRefused(z, n, known, fixed, special) ==
  /\ progress \in {"kept", "expanded"} /\ RCCalendarNeedsUTCProjection(z, n, known, fixed)
  /\ ~Projectable(special) /\ RefuseSeries

(* Date, without a projection: the platform's zone where the days         *)
(* looked at agree, a fixed zone's offset otherwise; an event without a    *)
(* rule is placed by its own offset.                                       *)
Date(z, n, known, fixed) ==
  /\ progress \in {"kept", "expanded"} /\ ~RCCalendarNeedsUTCProjection(z, n, known, fixed)
  /\ progress' = "shown" /\ zone' = z /\ native' = n
  /\ view' = IF event.rule = {} \/ ~SameOn(Probes, z, n, known) THEN [kind |-> "offset"]
             ELSE [kind |-> "zone", compared |-> IF fixed THEN Probes ELSE 0 .. Horizon]
  /\ UNCHANGED <<event, wanted>>

-----------------------------------------------------------------------------

SeriesNext ==
  \/ Parsed \/ RCExpandFiniteRecurrence \/ ExpansionRefused
  \/ \E z, n \in Zones, known, fixed, special \in BOOLEAN :
       /\ fixed => \A d \in SeriesDays : z[d] = z[0]
       /\ \/ ProjectTimezone(z, n, known, fixed, special)
          \/ ProjectionRefused(z, n, known, fixed, special)
          \/ Date(z, n, known, fixed)

SeriesSpec == SeriesInit /\ [][SeriesNext]_seriesVars

-----------------------------------------------------------------------------

(* A series that is written out, with its exceptions, fits the table of    *)
(* days.                                                                   *)
SeriesTypeOK ==
  /\ progress \in {"none", "read", "kept", "expanded", "shown", "refused"}
  /\ zone \in Zones /\ native \in Zones
  /\ wanted \subseteq 0 .. Late
  /\ view.kind \in {"none", "utc", "zone", "offset"}
  /\ progress = "expanded" => event.rule \cup event.exdates \subseteq SeriesDays
  /\ view.kind = "utc" => Cardinality(view.base) <= Span + 1

(* The instants a native calendar shows for the days of the source.        *)
Shown(days) ==
  CASE view.kind = "utc" ->
         (view.base \ (view.exdates \cup {m[1] : m \in view.detached})) \cup {m[2] : m \in view.detached}
    [] view.kind = "zone" -> {d * DayLength - native[d] : d \in Occurrences \cap days}
    [] view.kind = "offset" -> {d * DayLength - zone[0] : d \in Occurrences \cap days}

Places ==
  Cardinality(view.base \ view.exdates)
    + Cardinality({m \in view.detached : m[1] \notin view.base \ view.exdates})

(* The native calendar shows the source's occurrences: each one, at the    *)
(* instant the resource's own zone gives it, once, and no other.  A series *)
(* left to the platform's zone is compared on the days the zones were.     *)
ShownAsSource ==
  progress = "shown" =>
    LET days == IF view.kind = "zone" THEN view.compared ELSE SeriesDays
    IN /\ Shown(days) = {UTC(zone, d) : d \in wanted \cap days}
       /\ view.kind = "utc" => Places = Cardinality(wanted)
=============================================================================
