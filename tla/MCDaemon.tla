------------------------------ MODULE MCDaemon ------------------------------
(***************************************************************************)
(* Instances of the daemon's poll loop and of the calendar operations it   *)
(* runs: SyncWorker, CalendarCreate and CalendarMove.  Each is a model of  *)
(* one concern and shares no state with the others, so a behaviour runs    *)
(* one of them and the others keep their initial states.                   *)
(***************************************************************************)
EXTENDS Naturals, FiniteSets

CONSTANTS
  Services, TwoWay, Ops, Roots, MaxQueryFaults,  \* SyncWorker
  Calendars, MaxMarkers, MaxCreateFaults, MaxDeletes, \* CalendarCreate
  Addresses, Home, MaxClock, MaxMoveFaults,      \* CalendarMove
  None

VARIABLES
  part,  \* the model this behaviour runs
  stop, main, pc, service, password, fetched, exported, complete, uploaded, followup, status, running,
  db, advanced, judged,
  native, first, baseline, creations, alias, gone, markers, remote, requests, creating, createFaults,
  deletes,
  clock, moveFaults, srv, flight, mir, rows, row, moves, phase, todo, moving

workerVars == <<stop, main, pc, service, password, fetched, exported, complete, uploaded, followup, status,
                running, db, advanced, judged>>
createVars == <<native, first, baseline, creations, alias, gone, markers, remote, requests, creating,
                createFaults, deletes>>
moveVars   == <<clock, moveFaults, srv, flight, mir, rows, row, moves, phase, todo, moving>>
vars == <<part, workerVars, createVars, moveVars>>

Worker == INSTANCE SyncWorker WITH MaxFaults <- MaxQueryFaults
Create == INSTANCE CalendarCreate
  WITH MaxFaults <- MaxCreateFaults, faults <- createFaults, act <- creations, flight <- requests, run <- creating
Move == INSTANCE CalendarMove
  WITH MaxFaults <- MaxMoveFaults, faults <- moveFaults, act <- moves, pc <- phase, run <- moving

ASSUME DaemonConstants ==
  /\ Services \subseteq {"Contacts", "Calendars"} /\ TwoWay \subseteq Services
  /\ MaxMarkers \in Nat \ {0} /\ MaxDeletes \in Nat /\ None \notin Calendars
  /\ Home \in Addresses /\ MaxClock \in Nat \ {0}
  /\ IsFiniteSet(Ops) /\ IsFiniteSet(Roots)
  /\ {MaxQueryFaults, MaxCreateFaults, MaxMoveFaults} \subseteq Nat
  /\ None \notin Create!Operations \cup Move!Moves \cup Move!Published

Init ==
  /\ part \in {"worker", "create", "move"}
  /\ Worker!Init /\ (part # "worker" => \A s \in Services : db[s] = Worker!EmptyDB)
  /\ Create!Init /\ Move!Init

Next ==
  /\ UNCHANGED part
  /\ \/ part = "worker" /\ Worker!Next /\ UNCHANGED <<createVars, moveVars>>
     \/ part = "create" /\ Create!Next /\ UNCHANGED <<workerVars, moveVars>>
     \/ part = "move" /\ Move!Next /\ UNCHANGED <<workerVars, createVars>>

(* The fairness of CalendarMove, in the behaviours that run it: a poll     *)
(* goes through its phases and its requests end.                           *)
Spec ==
  /\ Init /\ [][Next]_vars
  /\ WF_moveVars(part = "move" /\ Move!Run) /\ WF_moveVars(part = "move" /\ Move!Network)
  /\ SF_moveVars(part = "move" /\ Move!Fetch) /\ WF_moveVars(part = "move" /\ Move!StartWrites)
  /\ \A a \in Addresses :
       WF_moveVars(part = "move" /\ Move!RunMove(a)) /\ WF_moveVars(part = "move" /\ Move!Exchange(a))

-----------------------------------------------------------------------------

(* A service is shown green only when nothing failed or waits (SyncWorker). *)
GreenIsTrue == Worker!GreenIsTrue

(* Retries never leave two calendars on the server (CalendarCreate).       *)
OneRemoteCalendar == Create!OneRemoteCalendar

(* Where the user has put an event is never undone (CalendarMove).         *)
PlacementKept == Move!PlacementKept

(* A queued move is done or refused in the end (CalendarMove).             *)
MoveSettles == Move!MoveSettles
=============================================================================
