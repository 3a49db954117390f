---------------------------- MODULE CalendarCreate ----------------------------
(***************************************************************************)
(* Creating the user's new calendars on the server                         *)
(* (RCCalendarOperations.m).  The address and the ownership marker of a    *)
(* calendar are chosen once, when it is queued; a MKCALENDAR is believed   *)
(* only when the marker is read back.  Calendars the user had before the   *)
(* feature was first used are never migrated.                              *)
(*                                                                         *)
(* A marker is a number; the address is made from it.                      *)
(***************************************************************************)
EXTENDS Naturals, FiniteSets

CONSTANTS
  Calendars,   \* native calendars
  MaxMarkers,  \* bound: markers made up
  MaxFaults,   \* bound: lost requests, failed probes and crashes
  MaxDeletes,  \* bound: calendars deleted by other clients
  None

VARIABLES
  native,    \* calendars that exist on the device
  first,     \* TRUE until the account's calendars were first collected
  baseline,  \* calendar_native_baseline
  act,       \* calendar_actions: a marker and a state, by native calendar
  alias,     \* native calendars with a server address
  gone,      \* of these, the ones the mirror found missing
  markers,   \* markers made up so far
  remote,    \* calendars on the server: marker and owner
  flight,    \* MKCALENDAR requests that may still arrive
  run,       \* the operation being run: calendar and step
  faults, deletes

vars == <<native, first, baseline, act, alias, gone, markers, remote, flight, run, faults, deletes>>

Init ==
  /\ native = {} /\ first = TRUE /\ baseline = {}
  /\ act = [c \in Calendars |-> None] /\ alias = {} /\ gone = {}
  /\ markers = 0 /\ remote = {} /\ flight = {} /\ run = None
  /\ faults = 0 /\ deletes = 0

UserCreates(c) ==
  /\ c \notin native /\ native' = native \cup {c}
  /\ UNCHANGED <<first, baseline, act, alias, gone, markers, remote, flight, run, faults, deletes>>

OtherDeletes(m) ==
  /\ m \in remote /\ deletes < MaxDeletes /\ deletes' = deletes + 1
  /\ remote' = remote \ {m}
  /\ UNCHANGED <<native, first, baseline, act, alias, gone, markers, flight, run, faults>>

-----------------------------------------------------------------------------
(* RCCalendarCollectOperations.                                            *)

CollectFirst ==
  /\ run = None /\ first
  /\ first' = FALSE /\ baseline' = baseline \cup native
  /\ UNCHANGED <<native, act, alias, gone, markers, remote, flight, run, faults, deletes>>

(* Faulty variant: a calendar without an address is queued afresh.         *)
InsertOrReplace(c) == TRUE

(* INSERT OR IGNORE: the marker of an operation is never replaced, not     *)
(* even when the calendar is gone from the server.                         *)
InsertOrIgnore(c) == act[c] = None

Candidate(c) == c \in native \ baseline /\ (c \notin alias \/ c \in gone)

Collect(c) ==
  /\ run = None /\ ~first /\ markers < MaxMarkers
  /\ Candidate(c) /\ InsertOrIgnore(c)
  /\ markers' = markers + 1
  /\ act' = [act EXCEPT ![c] = [marker |-> markers', state |-> "queued"]]
  /\ UNCHANGED <<native, first, baseline, alias, gone, remote, flight, run, faults, deletes>>

(* A fetch: calendars no longer listed are missing.                        *)
Fetch ==
  /\ run = None
  /\ gone' = {c \in alias : \A m \in remote : m.owner # c}
  /\ gone' # gone
  /\ UNCHANGED <<native, first, baseline, act, alias, markers, remote, flight, run, faults, deletes>>

-----------------------------------------------------------------------------
(* RCCalendarRunOperations: probe, MKCALENDAR, probe again, commit.        *)

RunCreate(c) ==
  /\ run = None /\ act[c] # None /\ act[c].state = "queued"
  /\ run' = [cal |-> c, at |-> "probe"]
  /\ UNCHANGED <<native, first, baseline, act, alias, gone, markers, remote, flight, faults, deletes>>

Asked == [marker |-> act[run.cal].marker, owner |-> run.cal]

(* The marker and the resource type, read at the calendar's own address.   *)
Created == Asked \in remote

Probe ==
  /\ run # None /\ run.at \in {"probe", "verify"}
  /\ run' = CASE Created -> [run EXCEPT !.at = "commit"]
              [] ~Created /\ run.at = "probe" -> [run EXCEPT !.at = "send"]
              [] OTHER -> None
  /\ UNCHANGED <<native, first, baseline, act, alias, gone, markers, remote, flight, faults, deletes>>

(* A failed probe says the same as a missing calendar.                     *)
ProbeFails ==
  /\ run # None /\ run.at \in {"probe", "verify"}
  /\ faults < MaxFaults /\ faults' = faults + 1
  /\ run' = IF run.at = "probe" THEN [run EXCEPT !.at = "send"] ELSE None
  /\ UNCHANGED <<native, first, baseline, act, alias, gone, markers, remote, flight, deletes>>

Send ==
  /\ run # None /\ run.at = "send"
  /\ \/ remote' = remote \cup {Asked} /\ UNCHANGED <<flight, faults>>
     \/ /\ faults < MaxFaults /\ faults' = faults + 1
        /\ flight' = flight \cup {Asked} /\ UNCHANGED remote
  /\ run' = [run EXCEPT !.at = "verify"]
  /\ UNCHANGED <<native, first, baseline, act, alias, gone, markers, deletes>>

Late(m) ==
  /\ m \in flight /\ flight' = flight \ {m}
  /\ remote' = remote \cup {m} \/ UNCHANGED remote
  /\ UNCHANGED <<native, first, baseline, act, alias, gone, markers, run, faults, deletes>>

(* One transaction; the operation stays, done.                             *)
Commit ==
  /\ run # None /\ run.at = "commit"
  /\ alias' = alias \cup {run.cal}
  /\ act' = [act EXCEPT ![run.cal].state = "done"]
  /\ run' = None
  /\ UNCHANGED <<native, first, baseline, gone, markers, remote, flight, faults, deletes>>

Crash ==
  /\ run # None /\ run' = None
  /\ faults < MaxFaults /\ faults' = faults + 1
  /\ UNCHANGED <<native, first, baseline, act, alias, gone, markers, remote, flight, deletes>>

-----------------------------------------------------------------------------

Work == Probe \/ Send \/ Commit

Next ==
  \/ \E c \in Calendars : UserCreates(c) \/ Collect(c) \/ RunCreate(c)
  \/ \E m \in remote : OtherDeletes(m)
  \/ \E m \in flight : Late(m)
  \/ CollectFirst \/ Fetch \/ Work \/ ProbeFails \/ Crash

Spec == Init /\ [][Next]_vars

-----------------------------------------------------------------------------

Requests == [marker : 1 .. MaxMarkers, owner : Calendars]
Operations == [marker : 1 .. MaxMarkers, state : {"queued", "done"}]

(* A calendar with an address has an operation that is done.               *)
TypeOK ==
  /\ native \subseteq Calendars /\ baseline \subseteq Calendars /\ gone \subseteq alias
  /\ act \in [Calendars -> Operations \cup {None}]
  /\ \A c \in alias : act[c] # None /\ act[c].state = "done"
  /\ remote \subseteq Requests /\ flight \subseteq Requests
  /\ run \in [cal : Calendars, at : {"probe", "send", "verify", "commit"}] \cup {None}

(* However often a creation is retried, the server never has two calendars *)
(* of one native calendar.                                                 *)
OneRemoteCalendar ==
  \A m, n \in remote : m.owner = n.owner => m = n
=============================================================================
