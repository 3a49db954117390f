-------------------------- MODULE MCCalendarMirror --------------------------
(* Small instances of CalendarMirror.                                      *)
EXTENDS CalendarMirror, TLC

CONSTANTS c1, h1, h2, u1, u2

OneCalendar  == [h \in Hrefs |-> c1]
AnyUid       == [h \in Hrefs |-> Uids]
Symmetry     == Permutations({h1, h2}) \cup Permutations({u1, u2})
=============================================================================
