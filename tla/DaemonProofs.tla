---------------------------- MODULE DaemonProofs -----------------------------
(***************************************************************************)
(* What the poll loop and the calendar operations promise holds for any    *)
(* services, journals, calendars and addresses, and whatever the bounds on *)
(* faults and on the other clients' changes: a green service tells the     *)
(* truth, retries leave one calendar on the server, and the place the user *)
(* has given an event is kept.                                             *)
(*                                                                         *)
(* The arguments.  A service loses its green and its last full sync before *)
(* its journal can change, and gets them back only from an evaluation of   *)
(* the journal as it is.  The marker of a queued calendar is never         *)
(* replaced, so every request and every calendar on the server carries the *)
(* one marker of its owner.  A committed move carries the user's place     *)
(* along, to an address that had no row.                                   *)
(***************************************************************************)
EXTENDS MCDaemon, FiniteSetTheorems, TLAPS

-----------------------------------------------------------------------------
(* Creating calendars.                                                     *)

(* Every request and every calendar carries the marker of its owner's      *)
(* operation, which nothing replaces.                                      *)
OneMarker ==
  \A m \in remote \cup requests :
    /\ creations[m.owner] # None
    /\ m = [marker |-> creations[m.owner].marker, owner |-> m.owner]

(* An operation that runs is in the table.                                 *)
CreatingQueued == creating # None => creations[creating.cal] # None

(* The inductive invariant of the creations.                               *)
CreateInv ==
  /\ Create!TypeOK /\ markers \in 0 .. MaxMarkers
  /\ OneMarker /\ CreatingQueued

(* No calendar is queued at first.                                         *)
LEMMA CreateInit == Create!Init => CreateInv
BY DaemonConstants DEF Create!Init, CreateInv, Create!TypeOK, OneMarker, CreatingQueued

(* The rows of calendar_actions.                                           *)
LEMMA OperationFacts ==
  ASSUME NEW o \in Create!Operations
  PROVE  /\ o # None /\ o.marker \in 1 .. MaxMarkers /\ o.state \in {"queued", "done"}
         /\ [o EXCEPT !.state = "done"] \in Create!Operations
         /\ [o EXCEPT !.state = "done"].marker = o.marker
         /\ [o EXCEPT !.state = "done"].state = "done"
BY DaemonConstants DEF Create!Operations

(* A step that leaves the operations alone and asks for nothing that they  *)
(* do not say.                                                             *)
LEMMA SameOperations ==
  ASSUME CreateInv, UNCHANGED <<creations, markers>>,
         native' \subseteq Calendars, baseline' \subseteq Calendars,
         alias' = alias, gone' \subseteq alias,
         creating' # None => /\ creating' \in [cal : Calendars, at : {"probe", "send", "verify", "commit"}]
                             /\ creations[creating'.cal] # None,
         \A m \in (remote \cup requests)' :
           \/ m \in remote \cup requests
           \/ creating # None /\ m = [marker |-> creations[creating.cal].marker, owner |-> creating.cal]
  PROVE  CreateInv'
<1>1. \A m \in (remote \cup requests)' : m \in remote \cup requests
         \/ /\ m.owner \in Calendars /\ creations[m.owner] # None
            /\ m = [marker |-> creations[m.owner].marker, owner |-> m.owner]
  BY DEF CreateInv, CreatingQueued, Create!TypeOK
<1>2. OneMarker'
  BY <1>1 DEF CreateInv, OneMarker
<1>3. \A m \in (remote \cup requests)' : m \in Create!Requests
  <2>1. \A c \in Calendars : creations[c] # None => creations[c].marker \in 1 .. MaxMarkers
    BY OperationFacts DEF CreateInv, Create!TypeOK
  <2> QED
    BY <1>1, <2>1 DEF CreateInv, Create!TypeOK, Create!Requests
<1> QED
  BY <1>2, <1>3 DEF CreateInv, CreatingQueued, Create!TypeOK

(* A calendar's first operation: nothing carries a marker of it yet.       *)
LEMMA CollectStep ==
  ASSUME CreateInv, NEW c \in Calendars, Create!Collect(c)
  PROVE  CreateInv'
<1> DEFINE o == [marker |-> markers', state |-> "queued"]
<1>1. /\ creations[c] = None /\ markers' = markers + 1 /\ creations' = [creations EXCEPT ![c] = o]
      /\ creating = None /\ markers < MaxMarkers
      /\ UNCHANGED <<native, baseline, alias, gone, remote, requests, creating>>
  BY DEF Create!Collect, Create!InsertOrIgnore
<1>2. markers' \in 1 .. MaxMarkers
  BY <1>1, DaemonConstants DEF CreateInv
<1>3. o \in Create!Operations
  BY <1>2 DEF Create!Operations
<1> HIDE DEF o
<1>4. creations' \in [Calendars -> Create!Operations \cup {None}]
      /\ \A d \in Calendars \ {c} : creations'[d] = creations[d]
  BY <1>1, <1>3 DEF CreateInv, Create!TypeOK
<1>5. c \notin alias /\ \A m \in remote \cup requests : m.owner \in Calendars \ {c}
  BY <1>1 DEF CreateInv, Create!TypeOK, OneMarker, Create!Requests
<1>6. OneMarker'
  BY <1>1, <1>4, <1>5 DEF CreateInv, OneMarker
<1>7. \A d \in alias' : creations'[d] # None /\ creations'[d].state = "done"
  BY <1>1, <1>4, <1>5 DEF CreateInv, Create!TypeOK
<1> QED
  BY <1>1, <1>2, <1>4, <1>6, <1>7 DEF CreateInv, CreatingQueued, Create!TypeOK

(* A verified creation keeps its marker.                                   *)
LEMMA CommitStep ==
  ASSUME CreateInv, Create!Commit
  PROVE  CreateInv'
<1> DEFINE c == creating.cal
<1> DEFINE o == [creations[c] EXCEPT !.state = "done"]
<1>1. /\ creating # None /\ alias' = alias \cup {c} /\ creations' = [creations EXCEPT ![c] = o]
      /\ creating' = None
      /\ UNCHANGED <<native, baseline, gone, markers, remote, requests>>
  BY DEF Create!Commit
<1>2. c \in Calendars /\ creations[c] \in Create!Operations
  BY <1>1 DEF CreateInv, CreatingQueued, Create!TypeOK
<1>3. /\ o \in Create!Operations /\ o # None
      /\ o.marker = creations[c].marker /\ o.state = "done"
  BY <1>2, OperationFacts
<1> HIDE DEF c, o
<1>4. /\ creations' \in [Calendars -> Create!Operations \cup {None}]
      /\ creations'[c] = o
      /\ \A d \in Calendars \ {c} : creations'[d] = creations[d]
  BY <1>1, <1>2, <1>3 DEF CreateInv, Create!TypeOK
<1>5. \A d \in Calendars : creations[d] # None =>
        creations'[d] # None /\ creations'[d].marker = creations[d].marker
  BY <1>3, <1>4
<1>6. OneMarker'
  BY <1>1, <1>5 DEF CreateInv, OneMarker, Create!TypeOK, Create!Requests
<1>7. \A d \in alias' : creations'[d] # None /\ creations'[d].state = "done"
  BY <1>1, <1>3, <1>4 DEF CreateInv, Create!TypeOK
<1>8. /\ native' \subseteq Calendars /\ baseline' \subseteq Calendars /\ gone' \subseteq alias'
      /\ remote' \subseteq Create!Requests /\ requests' \subseteq Create!Requests
      /\ markers' \in 0 .. MaxMarkers
  BY <1>1 DEF CreateInv, Create!TypeOK
<1> QED
  BY <1>1, <1>4, <1>6, <1>7, <1>8 DEF CreateInv, CreatingQueued, Create!TypeOK

(* Every step of the creations, by what it does to the operations.         *)
LEMMA CreateStep == CreateInv /\ Create!Next => CreateInv'
<1> SUFFICES ASSUME CreateInv, Create!Next PROVE CreateInv'
  OBVIOUS
<1> DEFINE Runs == [cal : Calendars, at : {"probe", "send", "verify", "commit"}]
<1>0. /\ native \subseteq Calendars /\ baseline \subseteq Calendars /\ gone \subseteq alias
      /\ creating # None => creating \in Runs /\ creations[creating.cal] # None
  BY DEF CreateInv, CreatingQueued, Create!TypeOK
<1>1. ASSUME NEW c \in Calendars, Create!UserCreates(c) PROVE CreateInv'
  BY <1>0, <1>1, SameOperations DEF Create!UserCreates
<1>2. ASSUME NEW c \in Calendars, Create!Collect(c) PROVE CreateInv'
  BY <1>2, CollectStep
<1>3. ASSUME NEW c \in Calendars, Create!RunCreate(c) PROVE CreateInv'
  <2>1. /\ creating' = [cal |-> c, at |-> "probe"] /\ creations[c] # None
        /\ UNCHANGED <<native, baseline, creations, alias, gone, markers, remote, requests>>
    BY <1>3 DEF Create!RunCreate
  <2>2. creating' \in Runs /\ creating'.cal = c
    BY <2>1
  <2> QED
    BY <1>0, <2>1, <2>2, SameOperations
<1>4. ASSUME NEW m \in remote, Create!OtherDeletes(m) PROVE CreateInv'
  BY <1>0, <1>4, SameOperations DEF Create!OtherDeletes
<1>5. ASSUME NEW m \in requests, Create!Late(m) PROVE CreateInv'
  BY <1>0, <1>5, SameOperations DEF Create!Late
<1>6. CASE Create!CollectFirst
  BY <1>0, <1>6, SameOperations DEF Create!CollectFirst
<1>7. CASE Create!Fetch
  <2>1. /\ gone' \subseteq alias
        /\ UNCHANGED <<native, baseline, creations, alias, markers, remote, requests, creating>>
    BY <1>7 DEF Create!Fetch
  <2> QED
    BY <1>0, <2>1, SameOperations
<1>8. ASSUME NEW r \in Runs, NEW s \in {"probe", "send", "verify", "commit"}
      PROVE  [r EXCEPT !.at = s] \in Runs /\ [r EXCEPT !.at = s].cal = r.cal
  OBVIOUS
<1>9. CASE Create!Probe \/ Create!ProbeFails
  <2>1. /\ creating # None
        /\ creating' # None => \E s \in {"commit", "send"} : creating' = [creating EXCEPT !.at = s]
        /\ UNCHANGED <<native, baseline, creations, alias, gone, markers, remote, requests>>
    BY <1>9 DEF Create!Probe, Create!ProbeFails
  <2>2. creating' # None => creating' \in Runs /\ creations[creating'.cal] # None
    BY <1>0, <1>8, <2>1
  <2> QED
    BY <1>0, <2>1, <2>2, SameOperations
<1>10. CASE Create!Send
  <2>1. /\ creating # None
        /\ creating' = [creating EXCEPT !.at = "verify"]
        /\ UNCHANGED <<native, baseline, creations, alias, gone, markers>>
    BY <1>10 DEF Create!Send
  <2>2. creating' \in Runs /\ creations[creating'.cal] # None
    BY <1>0, <1>8, <2>1
  <2>3. \A m \in (remote \cup requests)' : m \in remote \cup requests
          \/ m = [marker |-> creations[creating.cal].marker, owner |-> creating.cal]
    BY <1>10 DEF Create!Send, Create!Asked
  <2> QED
    BY <1>0, <2>1, <2>2, <2>3, SameOperations
<1>11. CASE Create!Commit
  BY <1>11, CommitStep
<1>12. CASE Create!Crash
  BY <1>0, <1>12, SameOperations DEF Create!Crash
<1> QED
  BY <1>1, <1>2, <1>3, <1>4, <1>5, <1>6, <1>7, <1>9, <1>10, <1>11, <1>12 DEF Create!Next, Create!Work

-----------------------------------------------------------------------------
(* Moving events.                                                          *)

(* What the mirror holds and what is published has a mirror row, so a      *)
(* committed move, which wants none at its target, overwrites nothing.     *)
HasRow == \A a \in Addresses : mir[a] # 0 \/ row[a] # None => a \in rows

(* The operations a poll still runs, and the one it is running, are in the *)
(* table: only their own verification removes them.                        *)
MovesQueued ==
  /\ phase = "writes" => \A a \in todo : moves[a] # None
  /\ moving # None => moves[moving.res] # None /\ moving.res \notin todo

(* The inductive invariant of the moves.                                   *)
MoveInv == Move!TypeOK /\ HasRow /\ MovesQueued

(* At first every published event has its row, and nothing is queued.      *)
LEMMA MoveInit == Move!Init => MoveInv
<1> SUFFICES ASSUME Move!Init PROVE MoveInv
  OBVIOUS
<1>1. Move!Tag(Home, 1) \in Move!Tags
  BY DaemonConstants DEF Move!Tag, Move!Tags
<1>2. [tag |-> Move!Tag(Home, 1), at |-> Home] \in Move!Published
  BY <1>1, DaemonConstants DEF Move!Published
<1>3. Move!TypeOK
  BY <1>2, DaemonConstants DEF Move!Init, Move!TypeOK
<1> QED
  BY <1>3, DaemonConstants DEF Move!Init, MoveInv, HasRow, MovesQueued

(* The fields of a row of native_store_resources.                          *)
LEMMA PublishedFacts ==
  ASSUME NEW r \in Move!Published, NEW b \in Addresses
  PROVE  /\ r # None /\ r.tag \in Move!Tags /\ r.at \in Addresses
         /\ [r EXCEPT !.at = b] \in Move!Published /\ [r EXCEPT !.at = b].at = b
BY DaemonConstants DEF Move!Published

(* The fields of a row of move_actions.                                    *)
LEMMA MoveFacts ==
  ASSUME NEW m \in Move!Moves
  PROVE  /\ m # None /\ m.tag \in Move!Tags /\ m.to \in Addresses
         /\ [m EXCEPT !.took = TRUE] \in Move!Moves /\ [m EXCEPT !.state = "conflict"] \in Move!Moves
BY DaemonConstants DEF Move!Moves

(* The fields of the operation being run, which keeps its address.         *)
LEMMA RunFacts ==
  ASSUME NEW r \in Move!Runs, NEW c \in 0 .. MaxClock
  PROVE  /\ r.res \in Addresses /\ r.source \in 0 .. MaxClock
         /\ [r EXCEPT !.at = "target", !.source = c] \in Move!Runs
         /\ [r EXCEPT !.at = "target", !.source = c].res = r.res
         /\ [r EXCEPT !.at = "move"] \in Move!Runs /\ [r EXCEPT !.at = "move"].res = r.res
         /\ [r EXCEPT !.at = "source", !.sent = TRUE] \in Move!Runs
         /\ [r EXCEPT !.at = "source", !.sent = TRUE].res = r.res
BY DEF Move!Runs

(* A step of the server, of the network or of an operation that is not     *)
(* committed: nothing is published, and no operation is added or removed.  *)
LEMMA SameRecords ==
  ASSUME MoveInv, UNCHANGED <<mir, rows, row, phase>>, todo' \subseteq todo,
         clock' \in 1 .. MaxClock, moveFaults' \in 0 .. MaxMoveFaults,
         srv' \in [Addresses -> 0 .. MaxClock], flight' \subseteq [tag : Move!Tags, to : Addresses],
         moves' \in [Addresses -> Move!Moves \cup {None}],
         \A a \in Addresses : moves'[a] # None <=> moves[a] # None,
         moving' # None => /\ moving' \in Move!Runs /\ phase = "writes"
                           /\ moves[moving'.res] # None /\ moving'.res \notin todo'
  PROVE  MoveInv'
<1>1. Move!TypeOK'
  BY DEF MoveInv, Move!TypeOK
<1>2. moving' # None => moving'.res \in Addresses
  BY DEF Move!Runs
<1>3. MovesQueued'
  BY <1>1, <1>2 DEF MoveInv, MovesQueued, Move!TypeOK
<1>4. HasRow'
  BY DEF MoveInv, HasRow
<1> QED
  BY <1>1, <1>3, <1>4 DEF MoveInv

(* What a request in flight does, whenever it takes effect.                *)
LEMMA EffectFacts ==
  ASSUME MoveInv, NEW m \in [tag : Move!Tags, to : Addresses], Move!Effect(m)
  PROVE  /\ srv' \in [Addresses -> 0 .. MaxClock]
         /\ moves' \in [Addresses -> Move!Moves \cup {None}]
         /\ \A a \in Addresses : moves'[a] # None <=> moves[a] # None
<1>1. /\ m.tag.addr \in Addresses /\ m.to \in Addresses /\ srv \in [Addresses -> 0 .. MaxClock]
      /\ moves \in [Addresses -> Move!Moves \cup {None}]
  BY DEF MoveInv, Move!TypeOK, Move!Tags
<1>2. srv' \in [Addresses -> 0 .. MaxClock]
  <2>1. srv[m.tag.addr] \in 0 .. MaxClock /\ 0 \in 0 .. MaxClock
    BY <1>1, DaemonConstants
  <2>2. srv' = [srv EXCEPT ![m.to] = srv[m.tag.addr], ![m.tag.addr] = 0]
    BY DEF Move!Effect
  <2> QED
    BY <1>1, <2>1, <2>2
<1>3. \A a \in Addresses : moves[a] # None =>
        [moves[a] EXCEPT !.took = TRUE] \in Move!Moves /\ [moves[a] EXCEPT !.took = TRUE] # None
  BY <1>1, MoveFacts
<1>4. moves' = [a \in Addresses |-> IF a = m.tag.addr /\ moves[a] # None THEN [moves[a] EXCEPT !.took = TRUE]
                                    ELSE moves[a]]
  BY DEF Move!Effect
<1>5. \A a \in Addresses : moves'[a] = IF a = m.tag.addr /\ moves[a] # None
                                       THEN [moves[a] EXCEPT !.took = TRUE] ELSE moves[a]
  BY <1>4
<1>6. \A a \in Addresses : moves'[a] \in Move!Moves \cup {None} /\ (moves'[a] # None <=> moves[a] # None)
  BY <1>1, <1>3, <1>5
<1> QED
  BY <1>2, <1>4, <1>6

(* The user moves a published event.                                       *)
LEMMA LocalMove ==
  ASSUME MoveInv, NEW a \in Addresses, NEW b \in Addresses, Move!MoveLocal(a, b)
  PROVE  MoveInv'
<1>1. /\ clock < MaxClock /\ clock' = clock + 1 /\ row[a] # None
      /\ row' = [row EXCEPT ![a] = [row[a] EXCEPT !.at = b]]
      /\ UNCHANGED <<moveFaults, srv, flight, mir, rows, moves, phase, todo, moving>>
  BY DEF Move!MoveLocal, Move!Tick, Move!remoteVars, Move!mirrorVars, Move!passVars
<1>2. clock' \in 1 .. MaxClock
  BY <1>1, DaemonConstants DEF MoveInv, Move!TypeOK
<1>3. row[a] \in Move!Published /\ row \in [Addresses -> Move!Published \cup {None}]
  BY <1>1 DEF MoveInv, Move!TypeOK
<1>4. PICK r : r = [row[a] EXCEPT !.at = b]
  OBVIOUS
<1>5. r \in Move!Published /\ r # None /\ row' = [row EXCEPT ![a] = r]
  BY <1>1, <1>3, <1>4, PublishedFacts
<1>6. /\ row' \in [Addresses -> Move!Published \cup {None}]
      /\ \A c \in Addresses : row'[c] # None <=> row[c] # None
  BY <1>1, <1>3, <1>5
<1>7. Move!TypeOK'
  BY <1>1, <1>2, <1>6 DEF MoveInv, Move!TypeOK
<1>8. HasRow'
  BY <1>1, <1>6 DEF MoveInv, HasRow
<1>9. MovesQueued'
  BY <1>1 DEF MoveInv, MovesQueued
<1> QED
  BY <1>7, <1>8, <1>9 DEF MoveInv

(* A verified move is committed: its target had no row.                    *)
LEMMA CommittedMove ==
  ASSUME MoveInv, moving # None, NEW a \in Addresses, a = moving.res,
         Move!RCCalendarCommitVerifiedMove(a), moving' = None,
         UNCHANGED <<clock, moveFaults, srv, flight, phase, todo>>
  PROVE  /\ MoveInv'
         /\ moves[a].to \in Addresses /\ moves[a].to \notin rows
         /\ row[a] # None /\ row'[moves[a].to] # None /\ row'[moves[a].to].at = row[a].at
         /\ \A b \in Addresses \ {a, moves[a].to} : row'[b] = row[b]
<1>1. /\ moves[a] \in Move!Moves /\ a \notin todo /\ row[a] \in Move!Published
      /\ row \in [Addresses -> Move!Published \cup {None}] /\ mir \in [Addresses -> 0 .. MaxClock]
      /\ moves \in [Addresses -> Move!Moves \cup {None}] /\ rows \subseteq Addresses
      /\ todo \subseteq Addresses /\ phase = "writes"
  BY DEF MoveInv, MovesQueued, Move!TypeOK
<1>2. PICK t \in Addresses : t = moves[a].to
  BY <1>1, MoveFacts
<1>3. PICK r : r = [tag |-> Move!Tag(t, moves[a].tag.content), at |-> row[a].at]
  OBVIOUS
<1>4. /\ moves[a].tag.content \in 1 .. MaxClock /\ row[a].at \in Addresses
  BY <1>1, MoveFacts, PublishedFacts DEF Move!Tags
<1>5. r \in Move!Published /\ r.at = row[a].at /\ r # None
  <2>1. Move!Tag(t, moves[a].tag.content) \in Move!Tags
    BY <1>4 DEF Move!Tag, Move!Tags
  <2>2. r \in Move!Published /\ r.at = row[a].at
    BY <1>3, <1>4, <2>1 DEF Move!Published
  <2> QED
    BY <2>2, PublishedFacts
<1>6. /\ t \notin rows /\ row' = [row EXCEPT ![a] = None, ![t] = r]
      /\ rows' = (rows \ {a}) \cup {t}
      /\ mir' = [mir EXCEPT ![a] = 0, ![t] = moves[a].tag.content]
      /\ moves' = [moves EXCEPT ![a] = None]
  BY <1>2, <1>3 DEF Move!RCCalendarCommitVerifiedMove
<1>7. a \in rows /\ a # t /\ row[t] = None
  BY <1>1, <1>2, <1>6, PublishedFacts DEF MoveInv, HasRow
<1>8. /\ row' \in [Addresses -> Move!Published \cup {None}]
      /\ row'[a] = None /\ row'[t] = r /\ \A b \in Addresses \ {a, t} : row'[b] = row[b]
  BY <1>1, <1>5, <1>6, <1>7
<1>9. /\ mir' \in [Addresses -> 0 .. MaxClock]
      /\ mir'[a] = 0 /\ \A b \in Addresses \ {a, t} : mir'[b] = mir[b]
  <2>1. moves[a].tag.content \in 0 .. MaxClock /\ 0 \in 0 .. MaxClock
    BY <1>4, DaemonConstants
  <2> QED
    BY <1>1, <1>6, <1>7, <2>1
<1>10. /\ moves' \in [Addresses -> Move!Moves \cup {None}]
       /\ moves'[a] = None /\ \A b \in Addresses \ {a} : moves'[b] = moves[b]
  BY <1>1, <1>6
<1>11. \A b \in Addresses : moves'[b] # None => row'[b] # None
  BY <1>5, <1>8, <1>10 DEF MoveInv, Move!TypeOK
<1>12. Move!TypeOK'
  BY <1>1, <1>6, <1>8, <1>9, <1>10, <1>11 DEF MoveInv, Move!TypeOK
<1>13. HasRow'
  BY <1>6, <1>8, <1>9 DEF MoveInv, HasRow
<1>14. MovesQueued'
  BY <1>1, <1>10 DEF MoveInv, MovesQueued
<1> QED
  BY <1>1, <1>2, <1>5, <1>7, <1>6, <1>8, <1>12, <1>13, <1>14, PublishedFacts DEF MoveInv

(* An operation is refused: nothing else changes.                          *)
LEMMA RefusedMove ==
  ASSUME MoveInv, NEW a \in Addresses, moves[a] # None, Move!Conflict(a)
  PROVE  /\ moves' \in [Addresses -> Move!Moves \cup {None}]
         /\ \A b \in Addresses : moves'[b] # None <=> moves[b] # None
<1>1. moves[a] \in Move!Moves /\ moves \in [Addresses -> Move!Moves \cup {None}]
  BY DEF MoveInv, Move!TypeOK
<1>2. PICK m : m = [moves[a] EXCEPT !.state = "conflict"]
  OBVIOUS
<1>3. m \in Move!Moves /\ m # None
  BY <1>1, <1>2, MoveFacts
<1>4. moves' = [moves EXCEPT ![a] = m]
  BY <1>2 DEF Move!Conflict
<1> QED
  BY <1>1, <1>3, <1>4

(* The user's places, step by step: unless the user or another client      *)
(* acts, an event stays where the user has moved it.                       *)
MovedEventsKept ==
  \A a \in Addresses : clock' = clock /\ row[a] # None /\ row[a].at # a =>
    \E b \in Addresses : row'[b] # None /\ row'[b].at = row[a].at

(* The target has been read: the move is done, refused, sent, or waits.    *)
LEMMA TargetStep ==
  ASSUME MoveInv, Move!GetTarget
  PROVE  MoveInv' /\ MovedEventsKept
<1> DEFINE a == moving.res
<1>1. /\ moving # None /\ moving \in Move!Runs /\ a = moving.res /\ a \in Addresses
      /\ moves[a] # None /\ a \notin todo /\ phase = "writes"
      /\ UNCHANGED <<clock, moveFaults, srv, flight, phase, todo>>
  BY RunFacts, DaemonConstants
     DEF MoveInv, MovesQueued, Move!TypeOK, Move!GetTarget, Move!Running, Move!remoteVars, Move!Runs
<1>2. /\ clock \in 1 .. MaxClock /\ moveFaults \in 0 .. MaxMoveFaults
      /\ srv \in [Addresses -> 0 .. MaxClock] /\ flight \subseteq [tag : Move!Tags, to : Addresses]
      /\ moves \in [Addresses -> Move!Moves \cup {None}]
  BY DEF MoveInv, Move!TypeOK
<1>3. \/ Move!RCCalendarCommitVerifiedMove(a) /\ moving' = None
      \/ UNCHANGED <<mir, rows, row, moves>> /\ moving' = None
      \/ Move!Conflict(a) /\ UNCHANGED <<mir, rows, row>> /\ moving' = None
      \/ UNCHANGED <<mir, rows, row, moves>> /\ moving' = [moving EXCEPT !.at = "move"]
  BY DEF Move!GetTarget, Move!Ends, Move!mirrorVars
<1> HIDE DEF a
<1>0. ASSUME row' = row PROVE MovedEventsKept
  BY <1>0 DEF MovedEventsKept
<1>4. CASE Move!RCCalendarCommitVerifiedMove(a) /\ moving' = None
  <2>1. /\ MoveInv'
        /\ moves[a].to \in Addresses /\ moves[a].to \notin rows
        /\ row'[moves[a].to] # None /\ row'[moves[a].to].at = row[a].at
        /\ \A b \in Addresses \ {a, moves[a].to} : row'[b] = row[b]
    BY <1>1, <1>4, CommittedMove
  <2>2. row[moves[a].to] = None
    BY <2>1 DEF MoveInv, HasRow
  <2> QED
    BY <2>1, <2>2 DEF MovedEventsKept
<1>5. CASE UNCHANGED <<mir, rows, row, moves>> /\ moving' = None
  BY <1>0, <1>1, <1>2, <1>5, SameRecords
<1>6. CASE Move!Conflict(a) /\ UNCHANGED <<mir, rows, row>> /\ moving' = None
  <2>1. /\ moves' \in [Addresses -> Move!Moves \cup {None}]
        /\ \A b \in Addresses : moves'[b] # None <=> moves[b] # None
    BY <1>1, <1>6, RefusedMove
  <2> QED
    BY <1>0, <1>1, <1>2, <1>6, <2>1, SameRecords
<1>7. CASE UNCHANGED <<mir, rows, row, moves>> /\ moving' = [moving EXCEPT !.at = "move"]
  <2>1. moving' \in Move!Runs /\ moving'.res = a
    BY <1>1, <1>7, RunFacts, DaemonConstants DEF Move!Runs
  <2> QED
    BY <1>0, <1>1, <1>2, <1>7, <2>1, SameRecords
<1> QED
  BY <1>3, <1>4, <1>5, <1>6, <1>7

(* The other steps of the operations, of the server and of the network.    *)
LEMMA OperationStep ==
  ASSUME MoveInv,
         \/ \E a \in Addresses : Move!RemotePut(a) \/ Move!RemoteDelete(a) \/ Move!RunMove(a)
         \/ Move!Network \/ Move!GetSource \/ Move!RCHTTPClientMove \/ Move!GetFails \/ Move!MoveTimesOut
  PROVE  MoveInv' /\ row' = row
<1>1. /\ clock \in 1 .. MaxClock /\ moveFaults \in 0 .. MaxMoveFaults
      /\ srv \in [Addresses -> 0 .. MaxClock] /\ flight \subseteq [tag : Move!Tags, to : Addresses]
      /\ moves \in [Addresses -> Move!Moves \cup {None}]
      /\ moving # None => /\ moving \in Move!Runs /\ phase = "writes"
                          /\ moves[moving.res] # None /\ moving.res \notin todo /\ moving.res \in Addresses
  BY DEF MoveInv, MovesQueued, Move!TypeOK, Move!Runs
<1> USE DEF Move!remoteVars, Move!mirrorVars, Move!passVars
<1>2. ASSUME NEW a \in Addresses, Move!RemotePut(a) \/ Move!RemoteDelete(a) PROVE MoveInv' /\ row' = row
  <2>1. /\ clock < MaxClock /\ clock' = clock + 1
        /\ \E c \in {0, clock'} : srv' = [srv EXCEPT ![a] = c]
        /\ UNCHANGED <<moveFaults, flight, mir, rows, row, moves, phase, todo, moving>>
    BY <1>2 DEF Move!RemotePut, Move!RemoteDelete, Move!Tick
  <2>2. clock' \in 1 .. MaxClock
    BY <1>1, <2>1, DaemonConstants
  <2>3. {0, clock'} \subseteq 0 .. MaxClock
    BY <2>2, DaemonConstants
  <2>4. srv' \in [Addresses -> 0 .. MaxClock]
    BY <1>1, <2>1, <2>3
  <2> QED
    BY <1>1, <2>1, <2>2, <2>4, SameRecords
<1>3. ASSUME NEW a \in Addresses, Move!RunMove(a) PROVE MoveInv' /\ row' = row
  <2>1. /\ phase = "writes" /\ a \in todo /\ todo' = todo \ {a}
        /\ moving' = [res |-> a, at |-> "source", source |-> 0, sent |-> FALSE]
        /\ UNCHANGED <<clock, moveFaults, srv, flight, mir, rows, row, moves, phase>>
    BY <1>3 DEF Move!RunMove
  <2>2. moving' \in Move!Runs /\ moving'.res = a
    BY <2>1, DaemonConstants DEF Move!Runs
  <2>3. moves[a] # None
    BY <2>1 DEF MoveInv, MovesQueued
  <2> QED
    BY <1>1, <2>1, <2>2, <2>3, SameRecords
<1>4. ASSUME NEW m \in flight, Move!Late(m) \/ Move!Lost(m) PROVE MoveInv' /\ row' = row
  <2>1. /\ flight' = flight \ {m} /\ (Move!Effect(m) \/ UNCHANGED <<srv, moves>>)
        /\ UNCHANGED <<clock, moveFaults, mir, rows, row, phase, todo, moving>>
    BY <1>4 DEF Move!Late, Move!Lost
  <2>2. /\ srv' \in [Addresses -> 0 .. MaxClock]
        /\ moves' \in [Addresses -> Move!Moves \cup {None}]
        /\ \A b \in Addresses : moves'[b] # None <=> moves[b] # None
    BY <1>1, <2>1, EffectFacts
  <2> QED
    BY <1>1, <2>1, <2>2, SameRecords
<1>5. CASE Move!GetSource
  <2>1. /\ moving # None /\ moving' = [moving EXCEPT !.at = "target", !.source = srv[moving.res]]
        /\ UNCHANGED <<clock, moveFaults, srv, flight, mir, rows, row, moves, phase, todo>>
    BY <1>5 DEF Move!GetSource, Move!Running
  <2>2. PICK c \in 0 .. MaxClock : c = srv[moving.res]
    BY <1>1, <2>1
  <2>3. moving' \in Move!Runs /\ moving'.res = moving.res
    BY <1>1, <2>1, <2>2, RunFacts
  <2> QED
    BY <1>1, <2>1, <2>3, SameRecords
<1>6. CASE Move!RCHTTPClientMove
  <2>1. PICK m : m = [tag |-> moves[moving.res].tag, to |-> moves[moving.res].to]
    OBVIOUS
  <2>2. /\ moving # None /\ (Move!Effect(m) \/ UNCHANGED <<srv, moves>>)
        /\ moving' = [moving EXCEPT !.at = "source", !.sent = TRUE]
        /\ UNCHANGED <<clock, moveFaults, flight, mir, rows, row, phase, todo>>
    BY <1>6, <2>1 DEF Move!RCHTTPClientMove, Move!Running, Move!Sent
  <2>3. m \in [tag : Move!Tags, to : Addresses]
    BY <1>1, <2>1, <2>2, MoveFacts
  <2>4. /\ srv' \in [Addresses -> 0 .. MaxClock]
        /\ moves' \in [Addresses -> Move!Moves \cup {None}]
        /\ \A b \in Addresses : moves'[b] # None <=> moves[b] # None
    BY <1>1, <2>2, <2>3, EffectFacts
  <2>5. moving' \in Move!Runs /\ moving'.res = moving.res
    BY <1>1, <2>2, RunFacts, DaemonConstants DEF Move!Runs
  <2> QED
    BY <1>1, <2>2, <2>4, <2>5, SameRecords
<1>7. CASE Move!GetFails
  <2>1. /\ moveFaults < MaxMoveFaults /\ moveFaults' = moveFaults + 1 /\ moving' = None
        /\ UNCHANGED <<clock, srv, flight, mir, rows, row, moves, phase, todo>>
    BY <1>7 DEF Move!GetFails, Move!Ends
  <2>2. moveFaults' \in 0 .. MaxMoveFaults
    BY <1>1, <2>1, DaemonConstants
  <2> QED
    BY <1>1, <2>1, <2>2, SameRecords
<1>8. CASE Move!MoveTimesOut
  <2>1. PICK m : m = [tag |-> moves[moving.res].tag, to |-> moves[moving.res].to]
    OBVIOUS
  <2>2. /\ moving # None /\ moveFaults < MaxMoveFaults /\ moveFaults' = moveFaults + 1
        /\ flight' = flight \cup {m}
        /\ moving' = [moving EXCEPT !.at = "source", !.sent = TRUE]
        /\ UNCHANGED <<clock, srv, mir, rows, row, moves, phase, todo>>
    BY <1>8, <2>1 DEF Move!MoveTimesOut, Move!Running, Move!Sent
  <2>3. m \in [tag : Move!Tags, to : Addresses]
    BY <1>1, <2>1, <2>2, MoveFacts
  <2>4. moveFaults' \in 0 .. MaxMoveFaults
    BY <1>1, <2>2, DaemonConstants
  <2>5. moving' \in Move!Runs /\ moving'.res = moving.res
    BY <1>1, <2>2, RunFacts, DaemonConstants DEF Move!Runs
  <2> QED
    BY <1>1, <2>2, <2>3, <2>4, <2>5, SameRecords
<1> QED
  BY <1>2, <1>3, <1>4, <1>5, <1>6, <1>7, <1>8 DEF Move!Network

(* The fetch brings rows, and the next writes take the queued operations.  *)
LEMMA PhaseStep ==
  ASSUME MoveInv, Move!Fetch \/ Move!StartWrites
  PROVE  MoveInv' /\ row' = row
<1> USE DEF Move!remoteVars, Move!mirrorVars, Move!passVars
<1>1. CASE Move!Fetch
  <2>1. /\ mir' = srv /\ rows' = rows \cup {a \in Addresses : srv[a] # 0}
        /\ phase' = "exchange" /\ todo' = Addresses /\ moving = None /\ moving' = None
        /\ UNCHANGED <<clock, moveFaults, srv, flight, row, moves>>
    BY <1>1 DEF Move!Fetch
  <2>2. Move!TypeOK'
    BY <2>1 DEF MoveInv, Move!TypeOK
  <2>3. HasRow'
    BY <2>1 DEF MoveInv, HasRow
  <2> QED
    BY <2>1, <2>2, <2>3 DEF MoveInv, MovesQueued
<1>2. CASE Move!StartWrites
  <2>1. /\ phase' = "writes" /\ todo' = Move!Queued /\ moving = None /\ moving' = None
        /\ moveFaults' = moveFaults \/ (moveFaults < MaxMoveFaults /\ moveFaults' = moveFaults + 1)
        /\ UNCHANGED <<clock, srv, flight, mir, rows, row, moves>>
    BY <1>2 DEF Move!StartWrites
  <2>2. moveFaults' \in 0 .. MaxMoveFaults
    BY <2>1, DaemonConstants DEF MoveInv, Move!TypeOK
  <2>3. todo' \subseteq Addresses /\ \A a \in todo' : moves'[a] # None
    BY <2>1 DEF Move!Queued
  <2>4. Move!TypeOK'
    BY <2>1, <2>2, <2>3 DEF MoveInv, Move!TypeOK
  <2> QED
    BY <2>1, <2>3, <2>4 DEF MoveInv, HasRow, MovesQueued
<1> QED
  BY <1>1, <1>2

(* The exchange of one address: it collects a decision of the user, or     *)
(* publishes or removes an event that is where the user left it.           *)
LEMMA ExchangeStep ==
  ASSUME MoveInv, NEW a \in Addresses, Move!Exchange(a)
  PROVE  /\ MoveInv'
         /\ \A b \in Addresses : row[b] # None /\ row[b].at # b => row'[b] = row[b]
<1> USE DEF Move!remoteVars, Move!mirrorVars, Move!passVars
<1>1. /\ moving = None /\ todo' = todo \ {a}
      /\ UNCHANGED <<clock, moveFaults, srv, flight, mir, rows, phase, moving>>
      /\ phase = "exchange"
  BY DEF Move!Exchange, Move!Exchanged, MoveInv, Move!TypeOK
<1>2. /\ clock \in 1 .. MaxClock /\ moveFaults \in 0 .. MaxMoveFaults
      /\ srv \in [Addresses -> 0 .. MaxClock] /\ flight \subseteq [tag : Move!Tags, to : Addresses]
      /\ moves \in [Addresses -> Move!Moves \cup {None}] /\ mir \in [Addresses -> 0 .. MaxClock]
      /\ row \in [Addresses -> Move!Published \cup {None}]
      /\ \A b \in Addresses : moves[b] # None => row[b] # None
  BY DEF MoveInv, Move!TypeOK
<1>3. ASSUME row' = row, row[a] # None, Move!RCCalendarCollectOperations(a) PROVE MoveInv'
  <2>1. row[a] \in Move!Published
    BY <1>2, <1>3
  <2>2. PICK m : m = IF moves[a] # None /\ ~(moves[a].state = "conflict" /\ moves[a].to # row[a].at)
                       THEN moves[a]
                     ELSE IF row[a].at = a THEN None ELSE Move!QueuedMove(a)
    OBVIOUS
  <2>3. Move!QueuedMove(a) \in Move!Moves
    BY <2>1, PublishedFacts DEF Move!QueuedMove, Move!Moves
  <2>4. m \in Move!Moves \cup {None}
    BY <1>2, <2>2, <2>3
  <2>5. moves' = [moves EXCEPT ![a] = m]
    BY <1>3, <2>2 DEF Move!RCCalendarCollectOperations
  <2>6. /\ moves' \in [Addresses -> Move!Moves \cup {None}]
        /\ \A b \in Addresses : moves'[b] # None => row'[b] # None
    BY <1>2, <1>3, <2>4, <2>5
  <2>7. Move!TypeOK'
    BY <1>1, <1>3, <2>6 DEF MoveInv, Move!TypeOK
  <2> QED
    BY <1>1, <1>3, <2>7 DEF MoveInv, HasRow, MovesQueued
<1>4. ASSUME NEW r \in Move!Published \cup {None}, row' = [row EXCEPT ![a] = r], moves' = moves,
             moves[a] = None, r # None => a \in rows
      PROVE  MoveInv'
  <2>1. /\ row' \in [Addresses -> Move!Published \cup {None}]
        /\ row'[a] = r /\ \A b \in Addresses \ {a} : row'[b] = row[b]
    BY <1>2, <1>4
  <2>2. \A b \in Addresses : moves'[b] # None => row'[b] # None
    BY <1>2, <1>4, <2>1
  <2>3. Move!TypeOK'
    BY <1>1, <1>4, <2>1, <2>2 DEF MoveInv, Move!TypeOK
  <2>4. HasRow'
    BY <1>1, <1>4, <2>1 DEF MoveInv, HasRow
  <2> QED
    BY <1>1, <1>4, <2>3, <2>4 DEF MoveInv, MovesQueued
<1>5. ASSUME UNCHANGED <<row, moves>> PROVE MoveInv'
  <2>1. Move!TypeOK'
    BY <1>1, <1>5 DEF MoveInv, Move!TypeOK
  <2> QED
    BY <1>1, <1>5, <2>1 DEF MoveInv, HasRow, MovesQueued
<1>6. CASE moves[a] # None /\ row' = row
           /\ IF mir[a] # 0 THEN Move!RCCalendarCollectOperations(a) ELSE UNCHANGED moves
  BY <1>2, <1>3, <1>5, <1>6
<1>7. CASE row[a] # None /\ Move!RCCalendarCollectOperations(a) /\ row' = row
  BY <1>3, <1>7
<1>8. CASE moves[a] = None /\ mir[a] # 0 /\ (row[a] # None => row[a].at = a) /\ Move!Publish(a)
  <2>1. PICK r : r = [tag |-> Move!Tag(a, mir[a]), at |-> a]
    OBVIOUS
  <2>2. mir[a] \in 1 .. MaxClock
    BY <1>2, <1>8, DaemonConstants
  <2>3. Move!Tag(a, mir[a]) \in Move!Tags
    BY <2>2 DEF Move!Tag, Move!Tags
  <2>4. r \in Move!Published
    BY <2>1, <2>3 DEF Move!Published
  <2>5. row' = [row EXCEPT ![a] = r] /\ moves' = moves
    BY <1>8, <2>1 DEF Move!Publish
  <2>6. a \in rows
    BY <1>8 DEF MoveInv, HasRow
  <2> QED
    BY <1>2, <1>4, <1>8, <2>4, <2>5, <2>6
<1>9. CASE /\ moves[a] = None /\ (row[a] # None => row[a].at = a)
           /\ row' = [row EXCEPT ![a] = None] /\ moves' = moves
  BY <1>2, <1>4, <1>9
<1> QED
  BY <1>6, <1>7, <1>8, <1>9 DEF Move!Exchange

(* Every step of the moves: the invariant, and the user's places.          *)
LEMMA MoveStep == MoveInv /\ Move!Next => MoveInv' /\ MovedEventsKept
<1> SUFFICES ASSUME MoveInv, Move!Next PROVE MoveInv' /\ MovedEventsKept
  OBVIOUS
<1>1. ASSUME row' = row PROVE MovedEventsKept
  BY <1>1 DEF MovedEventsKept
<1>2. ASSUME NEW a \in Addresses, NEW b \in Addresses, Move!MoveLocal(a, b)
      PROVE  MoveInv' /\ MovedEventsKept
  <2>1. clock' # clock
    BY <1>2 DEF Move!MoveLocal, Move!Tick, MoveInv, Move!TypeOK
  <2> QED
    BY <1>2, <2>1, LocalMove DEF MovedEventsKept
<1>3. CASE Move!GetTarget
  BY <1>3, TargetStep
<1>4. ASSUME NEW a \in Addresses, Move!Exchange(a) PROVE MoveInv' /\ MovedEventsKept
  BY <1>4, ExchangeStep DEF MovedEventsKept
<1>5. CASE Move!Network \/ Move!GetSource \/ Move!RCHTTPClientMove \/ Move!GetFails \/ Move!MoveTimesOut
  BY <1>1, <1>5, OperationStep
<1>6. ASSUME NEW a \in Addresses, Move!RemotePut(a) \/ Move!RemoteDelete(a) \/ Move!RunMove(a)
      PROVE  MoveInv' /\ MovedEventsKept
  BY <1>1, <1>6, OperationStep
<1>7. CASE Move!Fetch \/ Move!StartWrites
  BY <1>1, <1>7, PhaseStep
<1> QED
  BY <1>2, <1>3, <1>4, <1>5, <1>6, <1>7 DEF Move!Next, Move!Others, Move!Run

-----------------------------------------------------------------------------
(* The status.                                                             *)

(* The phases the RCStatus functions show.                                 *)
Phases == {"Waiting", "Uploading", "Downloading", "Applying", "Error", "Attention", "Uploaded", "UpToDate",
           "Stopping"}

(* What Status.plist says of a service; it is red while it has an error.   *)
Statuses ==
  {r \in [phase : Phases, severity : {"red", "yellow", "green"}, error : BOOLEAN, attention : Int] :
     (r.severity = "red") = r.error}

(* Where the worker is, and in whose part of the poll.                     *)
VisitInv ==
  /\ service \in {"Contacts", "Calendars"}
  /\ pc \in {"writes", "fetch", "apply", "finish", "prune"} => service \in Services
  /\ pc = "credentials" => service = "Contacts"
  /\ pc = "prune" => service = "Calendars"

(* A service whose evaluation is to come has not had its full sync in this *)
(* poll, and its journal changes only while it is not green.               *)
AheadInv ==
  /\ \A s \in Services :
       \/ pc = "credentials"
       \/ pc \in {"access", "writes", "fetch", "apply", "finish"} /\ service \in {"Contacts", s}
       => ~advanced[s]
  /\ pc = "apply" => status[service].severity # "green"

(* The inductive invariant of the worker and the main thread.              *)
WorkerInv ==
  /\ Worker!TypeOK
  /\ status \in [Services -> Statuses] /\ db \in [Services -> Worker!Contents]
  /\ advanced \in [Services -> BOOLEAN] /\ judged \in [Services -> {"nothing", "unknown", "everything"}]
  /\ VisitInv /\ AheadInv /\ GreenIsTrue

(* Nothing is green and nothing has been evaluated at start.               *)
LEMMA WorkerInit == Worker!Init => WorkerInv
<1> SUFFICES ASSUME Worker!Init PROVE WorkerInv
  OBVIOUS
<1>1. PICK r : r = [phase |-> "Waiting", severity |-> "yellow", error |-> FALSE, attention |-> 0]
  OBVIOUS
<1>2. r \in Statuses /\ r.phase = "Waiting" /\ r.severity = "yellow" /\ r.error = FALSE
  <2>1. r.phase = "Waiting" /\ r.severity = "yellow" /\ r.error = FALSE /\ r.attention = 0
    BY <1>1
  <2>2. r \in [phase : Phases, severity : {"red", "yellow", "green"}, error : BOOLEAN, attention : Int]
    BY <1>1 DEF Phases
  <2>3. (r.severity = "red") = r.error
    BY <2>1
  <2> QED
    BY <2>1, <2>2, <2>3 DEF Statuses
<1>3. /\ status = [s \in Services |-> r] /\ pc = "poll" /\ service = "Contacts"
      /\ db \in [Services -> Worker!Contents] /\ advanced = [s \in Services |-> FALSE]
      /\ judged = [s \in Services |-> "nothing"]
  BY <1>1 DEF Worker!Init
<1>4. Worker!TypeOK
  BY <1>2, <1>3 DEF Worker!TypeOK
<1>5. VisitInv /\ AheadInv
  BY <1>3 DEF VisitInv, AheadInv
<1>6. GreenIsTrue
  BY <1>2, <1>3 DEF GreenIsTrue, Worker!GreenIsTrue
<1> QED
  BY <1>2, <1>3, <1>4, <1>5, <1>6 DEF WorkerInv

(* A service shown anew is not shown green.                                *)
LEMMA StatusFacts ==
  ASSUME NEW r \in Statuses, NEW p \in Phases, NEW e \in BOOLEAN
  PROVE  /\ [r EXCEPT !.phase = "Stopping", !.severity = "yellow", !.error = FALSE] \in Statuses
         /\ [r EXCEPT !.phase = "Stopping", !.severity = "yellow", !.error = FALSE].severity # "green"
         /\ [r EXCEPT !.phase = "Error", !.severity = "red", !.error = TRUE] \in Statuses
         /\ [r EXCEPT !.phase = "Error", !.severity = "red", !.error = TRUE].severity # "green"
         /\ [r EXCEPT !.phase = p, !.error = e, !.severity = IF e THEN "red" ELSE "yellow"] \in Statuses
         /\ [r EXCEPT !.phase = p, !.error = e, !.severity = IF e THEN "red" ELSE "yellow"].severity # "green"
BY DEF Statuses, Phases

(* What the RCStatus functions but RCStatusFinish do to the services: each *)
(* keeps its status or is not green.                                       *)
Dimmed(old, new) ==
  /\ new \in [Services -> Statuses]
  /\ \A s \in Services : new[s] = old[s] \/ new[s].severity # "green"

(* Dimming twice is dimming.                                               *)
LEMMA DimmedTwice ==
  ASSUME NEW x, NEW y, NEW z, Dimmed(x, y), Dimmed(y, z)
  PROVE  Dimmed(x, z)
BY DEF Dimmed

(* Stopping shows nothing green.                                           *)
LEMMA StoppingDims ==
  ASSUME NEW st \in [Services -> Statuses]
  PROVE  /\ Dimmed(st, Worker!RCStatusStopping(st))
         /\ \A s \in Services : Worker!RCStatusStopping(st)[s].severity # "green"
<1>1. PICK f : f = [s \in Services |->
                      [st[s] EXCEPT !.phase = "Stopping", !.severity = "yellow", !.error = FALSE]]
  OBVIOUS
<1>2. \A s \in Services : f[s] \in Statuses /\ f[s].severity # "green"
  <2> TAKE s \in Services
  <2>1. st[s] \in Statuses /\ "Error" \in Phases /\ TRUE \in BOOLEAN
    BY DEF Phases
  <2> QED
    BY <1>1, <2>1, StatusFacts
<1>3. f \in [Services -> Statuses]
  BY <1>1, <1>2
<1> QED
  BY <1>1, <1>2, <1>3 DEF Dimmed, Worker!RCStatusStopping

(* A phase shown in the course of a poll is not green.                     *)
LEMMA PhaseDims ==
  ASSUME NEW st \in [Services -> Statuses], NEW s \in Services, NEW p \in Phases
  PROVE  /\ Dimmed(st, Worker!RCStatusPhase(st, s, p))
         /\ Worker!RCStatusPhase(st, s, p)[s].severity # "green"
<1>1. CASE stop
  BY <1>1, StoppingDims DEF Worker!RCStatusPhase
<1>2. CASE ~stop
  <2>1. PICK e \in BOOLEAN : e = (p # "Waiting" /\ st[s].error)
    OBVIOUS
  <2>2. PICK r : r = [st[s] EXCEPT !.phase = p, !.error = e, !.severity = IF e THEN "red" ELSE "yellow"]
    OBVIOUS
  <2>3. r \in Statuses /\ r.severity # "green"
    BY <2>2, StatusFacts
  <2>4. Worker!RCStatusPhase(st, s, p) = [st EXCEPT ![s] = r]
    BY <1>2, <2>1, <2>2 DEF Worker!RCStatusPhase
  <2> QED
    BY <2>3, <2>4 DEF Dimmed
<1> QED
  BY <1>1, <1>2

(* Nor is a failure.                                                       *)
LEMMA FailureDims ==
  ASSUME NEW st \in [Services -> Statuses], NEW s \in Services
  PROVE  /\ Dimmed(st, Worker!RCStatusFailure(st, s))
         /\ Worker!RCStatusFailure(st, s)[s].severity # "green"
<1>1. CASE stop
  BY <1>1, StoppingDims DEF Worker!RCStatusFailure
<1>2. CASE ~stop
  <2>1. PICK r : r = [st[s] EXCEPT !.phase = "Error", !.severity = "red", !.error = TRUE]
    OBVIOUS
  <2>2. r \in Statuses /\ r.severity # "green"
    <3>1. st[s] \in Statuses /\ "Error" \in Phases /\ TRUE \in BOOLEAN
      BY DEF Phases
    <3> QED
      BY <2>1, <3>1, StatusFacts
  <2>3. Worker!RCStatusFailure(st, s) = [st EXCEPT ![s] = r]
    BY <1>2, <2>1 DEF Worker!RCStatusFailure
  <2> QED
    BY <2>2, <2>3 DEF Dimmed
<1> QED
  BY <1>1, <1>2

(* Nor is a step that may have failed.                                     *)
LEMMA FailIfDims ==
  ASSUME NEW st \in [Services -> Statuses], NEW s \in Services, NEW failed \in BOOLEAN
  PROVE  /\ Dimmed(st, Worker!FailIf(failed, st, s))
         /\ st[s].severity # "green" => Worker!FailIf(failed, st, s)[s].severity # "green"
BY FailureDims DEF Worker!FailIf, Dimmed

(* The places of the worker in its poll.                                   *)
Places == {"poll", "credentials", "access", "writes", "fetch", "apply", "finish", "prune", "finished", "wait",
           "ended"}

(* A row of the status.                                                    *)
LEMMA StatusRow ==
  ASSUME NEW r \in Statuses
  PROVE  r.phase \in Phases /\ (r.severity = "red") = r.error
BY DEF Statuses

(* A step that neither evaluates nor changes a journal.                    *)
LEMMA SameJournal ==
  ASSUME WorkerInv, Dimmed(status, status'), UNCHANGED <<db, advanced, judged>>, pc' \in Places,
         VisitInv', AheadInv'
  PROVE  WorkerInv'
<1>1. /\ status' \in [Services -> Statuses] /\ db' \in [Services -> Worker!Contents]
      /\ advanced' \in [Services -> BOOLEAN]
      /\ judged' \in [Services -> {"nothing", "unknown", "everything"}]
  BY DEF WorkerInv, Dimmed
<1>2. Worker!TypeOK'
  BY <1>1, StatusRow DEF Worker!TypeOK, Phases, Places
<1>3. GreenIsTrue'
  <2>1. \A s \in Services : status'[s].severity = "green" => status'[s] = status[s]
    BY DEF Dimmed
  <2> QED
    BY <2>1 DEF WorkerInv, GreenIsTrue, Worker!GreenIsTrue, Worker!Waiting, Worker!InState,
                Worker!RCHasPendingWrites
<1> QED
  BY <1>1, <1>2, <1>3 DEF WorkerInv

(* A status left alone is a status.                                        *)
LEMMA StatusTyped == WorkerInv => status \in [Services -> Statuses] /\ Dimmed(status, status)
BY DEF WorkerInv, Dimmed

(* A poll begins: nothing is green and nothing has been evaluated.         *)
LEMMA PollStep ==
  ASSUME WorkerInv, Worker!Poll
  PROVE  WorkerInv'
<1>1. service' = "Contacts" /\ db' = db /\ pc = "poll"
  BY DEF Worker!Poll
<1>2. CASE pc' = "ended" /\ UNCHANGED <<status, advanced, judged>>
  <2>1. VisitInv' /\ AheadInv'
    BY <1>1, <1>2 DEF VisitInv, AheadInv
  <2> QED
    BY <1>1, <1>2, <2>1, StatusTyped, SameJournal DEF Places
<1>3. CASE /\ pc' = "credentials" /\ advanced' = [s \in Services |-> FALSE]
           /\ judged' = [s \in Services |-> "nothing"]
           /\ status' = IF stop THEN Worker!RCStatusStopping(status)
                        ELSE [s \in Services |-> Worker!RCStatusPhase(status, s, "Waiting")[s]]
  <2>1. status' \in [Services -> Statuses] /\ \A s \in Services : status'[s].severity # "green"
    <3>1. CASE stop
      BY <1>3, <3>1, StatusTyped, StoppingDims DEF Dimmed
    <3>2. CASE ~stop
      <4>1. "Waiting" \in Phases
        BY DEF Phases
      <4>2. \A s \in Services : /\ Worker!RCStatusPhase(status, s, "Waiting")[s] \in Statuses
                                /\ Worker!RCStatusPhase(status, s, "Waiting")[s].severity # "green"
        BY <4>1, StatusTyped, PhaseDims DEF Dimmed
      <4>3. PICK f : f = [s \in Services |-> Worker!RCStatusPhase(status, s, "Waiting")[s]]
        OBVIOUS
      <4>4. \A s \in Services : f[s] \in Statuses /\ f[s].severity # "green"
        BY <4>2, <4>3
      <4>5. f \in [Services -> Statuses]
        BY <4>3, <4>4
      <4>6. status' = f
        BY <1>3, <3>2, <4>3
      <4> QED
        BY <4>4, <4>5, <4>6
    <3> QED
      BY <3>1, <3>2
  <2>2. VisitInv' /\ AheadInv'
    BY <1>1, <1>3 DEF VisitInv, AheadInv
  <2>3. GreenIsTrue'
    BY <1>3, <2>1 DEF GreenIsTrue, Worker!GreenIsTrue
  <2>4. /\ db' \in [Services -> Worker!Contents] /\ advanced' \in [Services -> BOOLEAN]
        /\ judged' \in [Services -> {"nothing", "unknown", "everything"}] /\ pc' \in Places
    BY <1>1, <1>3 DEF WorkerInv, Places
  <2>5. Worker!TypeOK'
    BY <2>1, <2>4, StatusRow DEF Worker!TypeOK, Phases, Places
  <2> QED
    BY <2>1, <2>2, <2>3, <2>4, <2>5 DEF WorkerInv
<1> QED
  BY <1>2, <1>3 DEF Worker!Poll

(* The steps of a poll that leave its journal, and the main thread's.      *)
LEMMA QuietStep ==
  ASSUME WorkerInv,
         \/ Worker!Credentials \/ Worker!Access \/ Worker!Writes \/ Worker!Fetch \/ Worker!Prune
         \/ Worker!Finished \/ Worker!Wait \/ Worker!Signal \/ Worker!Main
  PROVE  WorkerInv'
<1>0. /\ status \in [Services -> Statuses] /\ Dimmed(status, status) /\ VisitInv /\ AheadInv /\ pc \in Places
      /\ {"Uploading", "Downloading"} \subseteq Phases
  BY StatusTyped DEF WorkerInv, Worker!TypeOK, Places, Phases
<1>1. CASE Worker!Credentials
  <2>1. Dimmed(status, status')
    <3>1. CASE status' = status
      BY <1>0, <3>1
    <3>2. CASE status' = [s \in Services |-> Worker!RCStatusFailure(status, s)[s]]
      <4>1. \A s \in Services : Worker!RCStatusFailure(status, s)[s] \in Statuses
                                /\ Worker!RCStatusFailure(status, s)[s].severity # "green"
        BY <1>0, FailureDims DEF Dimmed
      <4> HIDE DEF Worker!RCStatusFailure
      <4> QED
        BY <3>2, <4>1 DEF Dimmed
    <3> QED
      BY <1>1, <3>1, <3>2 DEF Worker!Credentials
  <2>2. VisitInv' /\ AheadInv' /\ pc' \in Places
    BY <1>0, <1>1 DEF Worker!Credentials, VisitInv, AheadInv, Places
  <2> QED
    BY <1>1, <2>1, <2>2, SameJournal DEF Worker!Credentials
<1>2. CASE Worker!Access
  <2>1. Dimmed(status, status')
    BY <1>0, <1>2, FailureDims DEF Worker!Access
  <2>2. VisitInv' /\ AheadInv' /\ pc' \in Places
    BY <1>0, <1>2 DEF Worker!Access, Worker!Leave, VisitInv, AheadInv, Places
  <2> QED
    BY <1>2, <2>1, <2>2, SameJournal DEF Worker!Access
<1>3. CASE Worker!Writes
  <2>1. Dimmed(status, status')
    <3>1. service \in Services
      BY <1>0, <1>3 DEF VisitInv, Worker!Writes
    <3>2. PICK mid : mid = Worker!RCStatusPhase(status, service, "Uploading")
      OBVIOUS
    <3>3. Dimmed(status, mid) /\ mid \in [Services -> Statuses]
      BY <1>0, <3>1, <3>2, PhaseDims DEF Dimmed
    <3>4. \A failed \in BOOLEAN : Dimmed(mid, Worker!FailIf(failed, mid, service))
      BY <3>1, <3>3, FailIfDims
    <3>5. status' = status \/ \E failed \in BOOLEAN : status' = Worker!FailIf(failed, mid, service)
      BY <1>3, <3>2 DEF Worker!Writes
    <3> QED
      BY <1>0, <3>3, <3>4, <3>5, DimmedTwice
  <2>2. VisitInv' /\ AheadInv' /\ pc' \in Places
    BY <1>0, <1>3 DEF Worker!Writes, Worker!Leave, VisitInv, AheadInv, Places
  <2> QED
    BY <1>3, <2>1, <2>2, SameJournal DEF Worker!Writes
<1>4. CASE Worker!Fetch
  <2>1. service \in Services /\ pc = "fetch"
    BY <1>0, <1>4 DEF VisitInv, Worker!Fetch
  <2>2. PICK mid : mid = Worker!RCStatusPhase(status, service, "Downloading")
    OBVIOUS
  <2>3. Dimmed(status, mid) /\ mid \in [Services -> Statuses] /\ mid[service].severity # "green"
    BY <1>0, <2>1, <2>2, PhaseDims DEF Dimmed
  <2>4. PICK failed \in BOOLEAN : status' = Worker!FailIf(failed, mid, service)
    <3>1. PICK statistics : status' = Worker!FailIf(password /\ ~statistics, mid, service)
      BY <1>4, <2>2 DEF Worker!Fetch
    <3>2. (password /\ ~statistics) \in BOOLEAN
      OBVIOUS
    <3> QED
      BY <3>1, <3>2
  <2>5. Dimmed(status, status') /\ status'[service].severity # "green"
    BY <2>1, <2>3, <2>4, FailIfDims, DimmedTwice
  <2>6. UNCHANGED advanced /\ ((pc' = "apply" /\ service' = service) \/ Worker!Leave)
    BY <1>4 DEF Worker!Fetch
  <2>7. VisitInv' /\ AheadInv' /\ pc' \in Places
    BY <1>0, <2>1, <2>5, <2>6 DEF Worker!Leave, VisitInv, AheadInv, Places
  <2> QED
    BY <1>4, <2>5, <2>7, SameJournal DEF Worker!Fetch
<1>5. CASE Worker!Prune
  <2>1. service \in Services
    BY <1>0, <1>5 DEF VisitInv, Worker!Prune
  <2>2. Dimmed(status, status')
    <3>1. PICK failed \in BOOLEAN : status' = Worker!FailIf(failed /\ ~stop, status, service)
      BY <1>5 DEF Worker!Prune
    <3>2. (failed /\ ~stop) \in BOOLEAN
      OBVIOUS
    <3> QED
      BY <1>0, <2>1, <3>1, <3>2, FailIfDims
  <2>3. VisitInv' /\ AheadInv' /\ pc' \in Places
    BY <1>0, <1>5 DEF Worker!Prune, Worker!Leave, VisitInv, AheadInv, Places
  <2> QED
    BY <1>5, <2>2, <2>3, SameJournal DEF Worker!Prune
<1>6. CASE Worker!Finished \/ Worker!Wait
  <2>1. pc' \in {"ended", "poll", "wait"} /\ UNCHANGED <<service, status, db, advanced, judged>>
    BY <1>6 DEF Worker!Finished, Worker!Wait, Worker!local
  <2>2. VisitInv' /\ AheadInv' /\ pc' \in Places
    BY <1>0, <2>1 DEF VisitInv, AheadInv, Places
  <2> QED
    BY <1>0, <2>1, <2>2, SameJournal
<1>7. CASE Worker!Signal \/ Worker!Main
  <2>1. /\ UNCHANGED <<pc, service, db, advanced, judged>>
        /\ status' = status \/ status' = Worker!RCStatusStopping(status)
    BY <1>7 DEF Worker!Signal, Worker!Main, Worker!Stopping, Worker!RCSyncWorkerStop, Worker!Joined
  <2>2. Dimmed(status, status') /\ \A s \in Services : status'[s].severity # "green" \/ status' = status
    BY <1>0, <2>1, StoppingDims
  <2>3. VisitInv' /\ AheadInv' /\ pc' \in Places
    BY <1>0, <2>1, <2>2 DEF VisitInv, AheadInv, Places
  <2> QED
    BY <2>1, <2>2, <2>3, SameJournal
<1> QED
  BY <1>1, <1>2, <1>3, <1>4, <1>5, <1>6, <1>7

(* The tables of a journal stay tables.                                    *)
LEMMA AfterTyped ==
  ASSUME NEW d \in Worker!Contents
  PROVE  Worker!After(d) \subseteq Worker!Contents
<1>1. DOMAIN Worker!Values = {"ops", "flagged", "fields", "attention", "actions", "invalid"}
  BY DEF Worker!Values
<1> SUFFICES ASSUME NEW table \in DOMAIN Worker!Values, NEW v \in Worker!Values[table]
             PROVE  [d EXCEPT ![table] = v] \in Worker!Contents
  BY DEF Worker!After
<1> USE DEF Worker!Contents
<1>2. CASE table = "ops"
  BY <1>2
<1>3. CASE table = "flagged"
  BY <1>3
<1>4. CASE table = "fields"
  BY <1>4
<1>5. CASE table = "attention"
  BY <1>5
<1>6. CASE table = "actions"
  BY <1>6
<1>7. CASE table = "invalid"
  BY <1>7
<1> QED
  BY <1>1, <1>2, <1>3, <1>4, <1>5, <1>6, <1>7

(* The instance counts as the module it was made from does.                *)
LEMMA SameCardinality ==
  ASSUME NEW S
  PROVE  Worker!Cardinality(S) = Cardinality(S)
BY DEF Worker!Cardinality, Cardinality

(* The counts of an evaluation whose queries all worked: what waits, and   *)
(* the verified uploads among the operations.                              *)
LEMMA CountFacts ==
  ASSUME NEW d \in Worker!Contents
  PROVE  LET n(q) == Worker!Count(d, {}, q) IN
         /\ n("ops") \in Nat /\ n("fields") \in Nat /\ n("attention") \in Nat /\ n("actions") \in Nat
         /\ n("flagged") \in Nat /\ n("invalid") \in Nat /\ n("overlap") \in Nat /\ n("applied") \in Nat
         /\ n("applied") <= n("ops") /\ n("overlap") <= n("fields")
         /\ n("applied") = n("ops") => Worker!InState(d, {"queued", "conflict"}) = {}
         /\ n("applied") = 0 <=> Worker!InState(d, {"applied"}) = {}
         /\ n("ops") = 0 <=> Worker!InState(d, {"queued", "conflict", "applied"}) = {}
         /\ n("flagged") = 0 <=> d.flagged \cap Worker!InState(d, {"applied"}) = {}
         /\ n("attention") = 0 <=> d.attention = {}
         /\ n("fields") = 0 <=> d.fields = {}
         /\ d.attention = {} => n("overlap") = 0
         /\ n("actions") = d.actions /\ n("invalid") = d.invalid
<1> DEFINE waiting == Worker!InState(d, {"queued", "conflict"})
           applied == Worker!InState(d, {"applied"})
           open == Worker!InState(d, {"queued", "conflict", "applied"})
<1>1. /\ d.fields \subseteq Roots /\ d.attention \subseteq Roots /\ d.actions \in Nat /\ d.invalid \in Nat
      /\ d.flagged \subseteq Ops
  BY DEF Worker!Contents, Worker!Values
<1>2. waiting \subseteq open /\ applied \subseteq open /\ waiting \cap applied = {} /\ open \subseteq Ops
  BY DEF Worker!InState
<1>3. IsFiniteSet(Ops) /\ IsFiniteSet(Roots)
  BY DaemonConstants
<1>4. /\ IsFiniteSet(open) /\ IsFiniteSet(applied) /\ IsFiniteSet(d.flagged \cap applied)
      /\ IsFiniteSet(d.fields) /\ IsFiniteSet(d.attention) /\ IsFiniteSet(d.fields \cap d.attention)
  <2>1. /\ d.flagged \cap applied \subseteq Ops /\ applied \subseteq Ops
        /\ d.fields \cap d.attention \subseteq Roots
    BY <1>1, <1>2
  <2> QED
    BY <1>1, <1>2, <1>3, <2>1, FS_Subset
<1>5. \A S : IsFiniteSet(S) => Cardinality(S) \in Nat /\ (Cardinality(S) = 0 <=> S = {})
  BY FS_CardinalityType, FS_EmptySet
<1>6. /\ Cardinality(applied) <= Cardinality(open)
      /\ Cardinality(applied) = Cardinality(open) => applied = open
  BY <1>2, <1>4, FS_Subset
<1>7. Cardinality(d.fields \cap d.attention) <= Cardinality(d.fields)
  <2>1. d.fields \cap d.attention \subseteq d.fields
    OBVIOUS
  <2> QED
    BY <1>4, <2>1, FS_Subset
<1>8. applied = open => waiting = {}
  BY <1>2
<1>9. d.attention = {} => d.fields \cap d.attention = {}
  OBVIOUS
<1>10. /\ Worker!Count(d, {}, "ops") = Cardinality(open)
       /\ Worker!Count(d, {}, "fields") = Cardinality(d.fields)
       /\ Worker!Count(d, {}, "attention") = Cardinality(d.attention)
       /\ Worker!Count(d, {}, "actions") = d.actions
       /\ Worker!Count(d, {}, "flagged") = Cardinality(d.flagged \cap applied)
       /\ Worker!Count(d, {}, "overlap") = Cardinality(d.fields \cap d.attention)
       /\ Worker!Count(d, {}, "invalid") = d.invalid
       /\ Worker!Count(d, {}, "applied") = Cardinality(applied)
  <2>1. Worker!Count(d, {}, "ops") = Cardinality(open)
    BY SameCardinality DEF Worker!Count
  <2>2. Worker!Count(d, {}, "fields") = Cardinality(d.fields)
    BY SameCardinality DEF Worker!Count
  <2>3. Worker!Count(d, {}, "attention") = Cardinality(d.attention)
    BY SameCardinality DEF Worker!Count
  <2>4. Worker!Count(d, {}, "actions") = d.actions
    BY SameCardinality DEF Worker!Count
  <2>5. Worker!Count(d, {}, "flagged") = Cardinality(d.flagged \cap applied)
    BY SameCardinality DEF Worker!Count
  <2>6. Worker!Count(d, {}, "overlap") = Cardinality(d.fields \cap d.attention)
    BY SameCardinality DEF Worker!Count
  <2>7. Worker!Count(d, {}, "invalid") = d.invalid
    BY SameCardinality DEF Worker!Count
  <2>8. Worker!Count(d, {}, "applied") = Cardinality(applied)
    BY SameCardinality DEF Worker!Count
  <2> QED
    BY <2>1, <2>2, <2>3, <2>4, <2>5, <2>6, <2>7, <2>8
<1> HIDE DEF waiting, applied, open
<1>11. /\ Cardinality(open) \in Nat /\ Cardinality(applied) \in Nat
       /\ Cardinality(d.flagged \cap applied) \in Nat
       /\ Cardinality(d.fields) \in Nat /\ Cardinality(d.attention) \in Nat
       /\ Cardinality(d.fields \cap d.attention) \in Nat
       /\ Cardinality(open) = 0 <=> open = {}
       /\ Cardinality(applied) = 0 <=> applied = {}
       /\ Cardinality(d.flagged \cap applied) = 0 <=> d.flagged \cap applied = {}
       /\ Cardinality(d.fields) = 0 <=> d.fields = {}
       /\ Cardinality(d.attention) = 0 <=> d.attention = {}
       /\ Cardinality(d.fields \cap d.attention) = 0 <=> d.fields \cap d.attention = {}
  BY <1>4, <1>5
<1> QED
  BY <1>1, <1>6, <1>7, <1>8, <1>9, <1>10, <1>11 DEF waiting, applied, open

(* A query adds a natural number, worked or not.                           *)
LEMMA CountTyped ==
  ASSUME NEW d \in Worker!Contents, NEW broken, NEW q \in Worker!Queries
  PROVE  Worker!Count(d, broken, q) \in Nat
<1>1. CASE q \in broken
  BY <1>1 DEF Worker!Count
<1>2. CASE q \notin broken
  <2>1. CASE q = "ops"
    BY <1>2, <2>1, CountFacts DEF Worker!Count
  <2>2. CASE q = "fields"
    BY <1>2, <2>2, CountFacts DEF Worker!Count
  <2>3. CASE q = "attention"
    BY <1>2, <2>3, CountFacts DEF Worker!Count
  <2>4. CASE q = "actions"
    BY <1>2, <2>4, CountFacts DEF Worker!Count
  <2>5. CASE q = "flagged"
    BY <1>2, <2>5, CountFacts DEF Worker!Count
  <2>6. CASE q = "overlap"
    BY <1>2, <2>6, CountFacts DEF Worker!Count
  <2>7. CASE q = "invalid"
    BY <1>2, <2>7, CountFacts DEF Worker!Count
  <2>8. CASE q = "applied"
    BY <1>2, <2>8, CountFacts DEF Worker!Count
  <2> QED
    BY <2>1, <2>2, <2>3, <2>4, <2>5, <2>6, <2>7, <2>8 DEF Worker!Queries
<1> QED
  BY <1>1, <1>2

(* Nothing waits when the count of what waits is zero.                     *)
LEMMA NothingWaits ==
  ASSUME NEW d \in Worker!Contents, Worker!InState(d, {"queued", "conflict"}) = {},
         d.flagged \cap Worker!InState(d, {"applied"}) = {}, d.fields = {}, d.attention = {},
         d.actions = 0, d.invalid = 0
  PROVE  Worker!Waiting(d) = {}
<1>1. 1 .. d.actions = {} /\ 1 .. d.invalid = {}
  OBVIOUS
<1> QED
  BY <1>1 DEF Worker!Waiting

(* RCStatusEvaluate: green, and a full sync, are what they claim to be.    *)
LEMMA Evaluation ==
  ASSUME NEW d \in Worker!Contents, NEW broken \in SUBSET Worker!Queries, NEW done,
         NEW failed \in BOOLEAN
  PROVE  LET r == Worker!RCStatusEvaluate(d, broken, done, failed) IN
         /\ r.phase \in Phases /\ r.severity \in {"red", "yellow", "green"} /\ r.attention \in Int
         /\ r.severity = "red" <=> failed
         /\ r.advance \in BOOLEAN
         /\ r.severity = "green" =>
              /\ broken = {} /\ ~failed /\ Worker!Waiting(d) = {}
              /\ r.phase = "Uploaded" <=> Worker!InState(d, {"applied"}) # {}
         /\ r.advance => broken = {} /\ Worker!Waiting(d) = {} /\ ~Worker!RCHasPendingWrites(d)
<1> DEFINE n(q) == Worker!Count(d, broken, q)
           pending == n("ops") + n("fields") + n("attention") + n("actions") + n("flagged") + n("invalid")
                      - n("overlap")
           attention == pending - n("applied")
           waits == broken # {} \/ attention # 0 \/ (~done /\ n("applied") = 0)
           r == Worker!RCStatusEvaluate(d, broken, done, failed)
<1>1. /\ n("ops") \in Nat /\ n("fields") \in Nat /\ n("attention") \in Nat /\ n("actions") \in Nat
      /\ n("flagged") \in Nat /\ n("invalid") \in Nat /\ n("overlap") \in Nat /\ n("applied") \in Nat
  BY CountTyped DEF Worker!Queries
<1>2. r = [pending |-> pending, attention |-> attention,
           phase |-> IF failed THEN "Error" ELSE IF waits THEN "Attention"
                     ELSE IF n("applied") # 0 THEN "Uploaded" ELSE "UpToDate",
           severity |-> IF failed THEN "red" ELSE IF waits THEN "yellow" ELSE "green",
           advance |-> ~failed /\ done /\ broken = {} /\ pending = 0]
  BY DEF Worker!RCStatusEvaluate
<1>11. PICK o \in Nat, f \in Nat, a \in Nat, c \in Nat, g \in Nat, i \in Nat, v \in Nat, u \in Nat :
         /\ o = n("ops") /\ f = n("fields") /\ a = n("attention") /\ c = n("actions") /\ g = n("flagged")
         /\ i = n("invalid") /\ v = n("overlap") /\ u = n("applied")
  BY <1>1
<1>12. pending = o + f + a + c + g + i - v /\ attention = pending - u
  BY <1>11
<1>3. ASSUME broken = {}, attention = 0
      PROVE  Worker!Waiting(d) = {} /\ (n("applied") # 0 <=> Worker!InState(d, {"applied"}) # {})
  <2>1. /\ n("applied") <= n("ops") /\ n("overlap") <= n("fields")
        /\ n("applied") = n("ops") => Worker!InState(d, {"queued", "conflict"}) = {}
        /\ n("applied") = 0 <=> Worker!InState(d, {"applied"}) = {}
        /\ n("flagged") = 0 <=> d.flagged \cap Worker!InState(d, {"applied"}) = {}
        /\ n("attention") = 0 <=> d.attention = {}
        /\ n("fields") = 0 <=> d.fields = {}
        /\ d.attention = {} => n("overlap") = 0
        /\ n("actions") = d.actions /\ n("invalid") = d.invalid
    BY <1>3, CountFacts
  <2>2. /\ n("applied") = n("ops") /\ n("fields") = n("overlap") /\ n("attention") = 0 /\ n("actions") = 0
        /\ n("flagged") = 0 /\ n("invalid") = 0
    <3>1. u <= o /\ v <= f /\ attention = 0
      BY <1>3, <1>11, <2>1
    <3> HIDE DEF n, pending, attention
    <3>2. u = o /\ f = v /\ a = 0 /\ c = 0 /\ g = 0 /\ i = 0
      BY ONLY <1>12, <3>1, o \in Nat, f \in Nat, a \in Nat, c \in Nat, g \in Nat, i \in Nat, v \in Nat,
              u \in Nat
    <3> QED
      BY <1>11, <3>2
  <2>3. d.attention = {} /\ n("overlap") = 0 /\ d.fields = {}
    BY <2>1, <2>2
  <2> QED
    BY <2>1, <2>2, <2>3, NothingWaits
<1>4. ASSUME broken = {}, pending = 0
      PROVE  Worker!Waiting(d) = {} /\ ~Worker!RCHasPendingWrites(d)
  <2>1. /\ n("overlap") <= n("fields") /\ n("applied") <= n("ops")
        /\ n("ops") = 0 <=> Worker!InState(d, {"queued", "conflict", "applied"}) = {}
        /\ n("actions") = d.actions
    BY <1>4, CountFacts
  <2>2. n("ops") = 0 /\ n("actions") = 0 /\ n("applied") = 0 /\ attention = 0
    <3>1. u <= o /\ v <= f /\ pending = 0
      BY <1>4, <1>11, <2>1
    <3> HIDE DEF n, pending, attention
    <3>2. o = 0 /\ c = 0 /\ u = 0 /\ attention = 0
      BY ONLY <1>12, <3>1, o \in Nat, f \in Nat, a \in Nat, c \in Nat, g \in Nat, i \in Nat, v \in Nat,
              u \in Nat
    <3> QED
      BY <1>11, <3>2
  <2>3. Worker!Waiting(d) = {}
    BY <1>3, <1>4, <2>2
  <2> QED
    BY <2>1, <2>2, <2>3 DEF Worker!RCHasPendingWrites
<1>5. attention \in Int
  <2> HIDE DEF n
  <2> QED
    BY <1>1
<1> HIDE DEF n, pending, attention, r
<1>6. r.attention = attention /\ r.severity = IF failed THEN "red" ELSE IF waits THEN "yellow" ELSE "green"
  BY <1>2
<1>7. r.phase = IF failed THEN "Error" ELSE IF waits THEN "Attention"
                ELSE IF n("applied") # 0 THEN "Uploaded" ELSE "UpToDate"
  BY <1>2
<1>8. r.advance = (~failed /\ done /\ broken = {} /\ pending = 0)
  BY <1>2
<1>9. r.severity = "green" => /\ broken = {} /\ ~failed /\ Worker!Waiting(d) = {}
                              /\ r.phase = "Uploaded" <=> Worker!InState(d, {"applied"}) # {}
  <2> SUFFICES ASSUME r.severity = "green"
               PROVE  /\ broken = {} /\ ~failed /\ Worker!Waiting(d) = {}
                      /\ r.phase = "Uploaded" <=> Worker!InState(d, {"applied"}) # {}
    OBVIOUS
  <2>1. ~failed /\ ~waits
    BY <1>6
  <2>2. broken = {} /\ attention = 0
    BY <2>1
  <2>3. Worker!Waiting(d) = {} /\ (n("applied") # 0 <=> Worker!InState(d, {"applied"}) # {})
    BY <1>3, <2>2
  <2>4. r.phase = "Uploaded" <=> n("applied") # 0
    BY <1>7, <2>1
  <2> QED
    BY <2>1, <2>2, <2>3, <2>4
<1>10. r.phase \in Phases /\ r.severity \in {"red", "yellow", "green"} /\ (r.severity = "red" <=> failed)
  BY <1>6, <1>7 DEF Phases
<1> QED
  BY <1>4, <1>5, <1>6, <1>8, <1>9, <1>10 DEF r

(* Local application and its uploads: the journal of a service that is not *)
(* green changes.                                                          *)
LEMMA ApplyStep ==
  ASSUME WorkerInv, Worker!Apply
  PROVE  WorkerInv'
<1>0. /\ status \in [Services -> Statuses] /\ db \in [Services -> Worker!Contents]
      /\ pc = "apply" /\ service \in Services /\ service \in {"Contacts", "Calendars"}
      /\ ~advanced[service] /\ status[service].severity # "green"
      /\ {"Uploading", "Applying"} \subseteq Phases
  BY DEF WorkerInv, VisitInv, AheadInv, Worker!Apply, Phases
<1>1. Dimmed(status, status') /\ status'[service].severity # "green"
  <2>1. PICK applying : applying = Worker!RCStatusPhase(status, service, "Applying")
    OBVIOUS
  <2>2. /\ Dimmed(status, applying) /\ applying \in [Services -> Statuses]
        /\ applying[service].severity # "green"
    BY <1>0, <2>1, PhaseDims DEF Dimmed
  <2>3. PICK uploading : uploading = Worker!RCStatusPhase(applying, service, "Uploading")
    OBVIOUS
  <2>4. /\ Dimmed(status, uploading) /\ uploading \in [Services -> Statuses]
        /\ uploading[service].severity # "green"
    BY <1>0, <2>2, <2>3, PhaseDims, DimmedTwice DEF Dimmed
  <2>5. PICK after :
          /\ after = applying \/ \E failed \in BOOLEAN : after = Worker!FailIf(failed, uploading, service)
          /\ status' = Worker!FailIf(~exported' /\ fetched /\ ~stop, after, service)
    BY <2>1, <2>3, Zenon DEF Worker!Apply
  <2>6. Dimmed(status, after) /\ after \in [Services -> Statuses] /\ after[service].severity # "green"
    BY <1>0, <2>2, <2>4, <2>5, FailIfDims, DimmedTwice DEF Dimmed
  <2>7. (~exported' /\ fetched /\ ~stop) \in BOOLEAN
    OBVIOUS
  <2> QED
    BY <1>0, <2>5, <2>6, <2>7, FailIfDims, DimmedTwice
<1>2. PICK d \in Worker!Contents : db' = [db EXCEPT ![service] = d]
  <2>1. db[service] \in Worker!Contents
    BY <1>0
  <2>2. Worker!After(db[service]) \subseteq Worker!Contents
    BY <2>1, AfterTyped
  <2> QED
    BY <2>1, <2>2 DEF Worker!Apply
<1>3. UNCHANGED <<advanced, judged>> /\ ((pc' = "finish" /\ service' = service) \/ Worker!Leave)
  BY DEF Worker!Apply
<1>4. /\ status' \in [Services -> Statuses] /\ db' \in [Services -> Worker!Contents]
      /\ advanced' \in [Services -> BOOLEAN]
      /\ judged' \in [Services -> {"nothing", "unknown", "everything"}] /\ pc' \in Places
  BY <1>0, <1>1, <1>2, <1>3 DEF WorkerInv, Dimmed, Worker!Leave, Places
<1>5. Worker!TypeOK'
  BY <1>4, StatusRow DEF Worker!TypeOK, Phases, Places
<1>6. VisitInv' /\ AheadInv'
  BY <1>0, <1>3 DEF WorkerInv, VisitInv, AheadInv, Worker!Leave
<1>7. GreenIsTrue'
  <2>1. \A s \in Services : /\ db'[s] = db[s] \/ s = service
                            /\ status'[s].severity = "green" => status'[s] = status[s]
    BY <1>0, <1>1, <1>2 DEF Dimmed
  <2> QED
    BY <1>0, <1>1, <1>3, <2>1 DEF WorkerInv, GreenIsTrue, Worker!GreenIsTrue, Worker!Waiting, Worker!InState,
                                  Worker!RCHasPendingWrites
<1> QED
  BY <1>4, <1>5, <1>6, <1>7 DEF WorkerInv

(* The evaluation of a service's part of the poll.                         *)
LEMMA FinishStep ==
  ASSUME WorkerInv, Worker!RCStatusFinish
  PROVE  WorkerInv'
<1>0. /\ status \in [Services -> Statuses] /\ db \in [Services -> Worker!Contents]
      /\ advanced \in [Services -> BOOLEAN] /\ judged \in [Services -> {"nothing", "unknown", "everything"}]
      /\ pc = "finish" /\ service \in Services /\ service \in {"Contacts", "Calendars"}
      /\ ~advanced[service] /\ UNCHANGED <<stop, db>>
  BY DEF WorkerInv, VisitInv, AheadInv, Worker!RCStatusFinish
<1>1. (pc' = "prune" /\ service = "Calendars" /\ service' = service) \/ Worker!Leave
  BY DEF Worker!RCStatusFinish
<1>2. pc' \in Places
  BY <1>1 DEF Worker!Leave, Places
<1>3. CASE stop /\ status' = Worker!RCStatusStopping(status) /\ UNCHANGED <<advanced, judged>>
  <2>1. Dimmed(status, status')
    BY <1>0, <1>3, StoppingDims
  <2>2. VisitInv' /\ AheadInv'
    BY <1>0, <1>1, <1>3 DEF WorkerInv, VisitInv, AheadInv, Worker!Leave
  <2> QED
    BY <1>0, <1>2, <1>3, <2>1, <2>2, SameJournal
<1>4. ASSUME ~stop, NEW broken \in Worker!Faults,
             NEW result,
             result = Worker!RCStatusEvaluate(db[service], broken, complete, status[service].error),
             status' = [status EXCEPT ![service] =
                          [status[service] EXCEPT !.phase = result.phase, !.severity = result.severity,
                                                  !.attention = result.attention]],
             advanced' = [advanced EXCEPT ![service] = advanced[service] \/ result.advance],
             judged' = [judged EXCEPT ![service] = IF broken = {} THEN "everything" ELSE "unknown"]
      PROVE  WorkerInv'
  <2>1. db[service] \in Worker!Contents /\ broken \in SUBSET Worker!Queries /\ status[service] \in Statuses
    BY <1>0 DEF Worker!Faults
  <2>2. status[service].error \in BOOLEAN
    BY <2>1 DEF Statuses
  <2>3. /\ result.phase \in Phases /\ result.severity \in {"red", "yellow", "green"}
        /\ result.attention \in Int
        /\ result.severity = "red" <=> status[service].error
        /\ result.advance \in BOOLEAN
        /\ result.severity = "green" =>
             /\ broken = {} /\ ~status[service].error /\ Worker!Waiting(db[service]) = {}
             /\ result.phase = "Uploaded" <=> Worker!InState(db[service], {"applied"}) # {}
        /\ result.advance =>
             broken = {} /\ Worker!Waiting(db[service]) = {} /\ ~Worker!RCHasPendingWrites(db[service])
    <3>1. PICK d \in Worker!Contents : d = db[service]
      BY <2>1
    <3>2. PICK failed \in BOOLEAN : failed = status[service].error
      BY <2>2
    <3>3. result = Worker!RCStatusEvaluate(d, broken, complete, failed)
      BY <1>4, <3>1, <3>2
    <3>4. /\ result.phase \in Phases /\ result.severity \in {"red", "yellow", "green"}
          /\ result.attention \in Int
          /\ result.severity = "red" <=> failed
          /\ result.advance \in BOOLEAN
          /\ result.severity = "green" =>
               /\ broken = {} /\ ~failed /\ Worker!Waiting(d) = {}
               /\ result.phase = "Uploaded" <=> Worker!InState(d, {"applied"}) # {}
          /\ result.advance => broken = {} /\ Worker!Waiting(d) = {} /\ ~Worker!RCHasPendingWrites(d)
      BY <2>1, <3>3, Evaluation
    <3> QED
      BY <3>1, <3>2, <3>4
  <2>4. PICK row1 : row1 = [status[service] EXCEPT !.phase = result.phase, !.severity = result.severity,
                                                   !.attention = result.attention]
    OBVIOUS
  <2>5. /\ row1 \in Statuses /\ row1.phase = result.phase /\ row1.severity = result.severity
        /\ row1.error = status[service].error
    <3>1. PICK r \in Statuses : r = status[service]
      BY <2>1
    <3>2. PICK p \in Phases, v \in {"red", "yellow", "green"}, n \in Int :
            p = result.phase /\ v = result.severity /\ n = result.attention
      BY <2>3
    <3>3. v = "red" <=> r.error
      BY <2>3, <3>1, <3>2
    <3>4. row1 = [r EXCEPT !.phase = p, !.severity = v, !.attention = n]
      BY <2>4, <3>1, <3>2
    <3>5. /\ row1 \in [phase : Phases, severity : {"red", "yellow", "green"}, error : BOOLEAN,
                    attention : Int]
          /\ row1.phase = p /\ row1.severity = v /\ row1.error = r.error
      BY <3>4 DEF Statuses
    <3>6. row1 \in Statuses
      BY <3>3, <3>5 DEF Statuses
    <3> QED
      BY <3>1, <3>2, <3>5, <3>6
  <2>6. status' = [status EXCEPT ![service] = row1]
    BY <1>4, <2>4
  <2>7. /\ status' \in [Services -> Statuses] /\ status'[service] = row1
        /\ \A s \in Services \ {service} : status'[s] = status[s]
    BY <1>0, <2>5, <2>6
  <2>8. /\ advanced' \in [Services -> BOOLEAN] /\ (advanced'[service] <=> result.advance)
        /\ \A s \in Services \ {service} : advanced'[s] = advanced[s]
    BY <1>0, <1>4, <2>3
  <2>9. /\ judged' \in [Services -> {"nothing", "unknown", "everything"}]
        /\ broken = {} => judged'[service] = "everything"
        /\ \A s \in Services \ {service} : judged'[s] = judged[s]
    BY <1>0, <1>4
  <2>10. GreenIsTrue'
    BY <1>0, <2>3, <2>5, <2>7, <2>8, <2>9 DEF WorkerInv, GreenIsTrue, Worker!GreenIsTrue, Worker!Waiting,
       Worker!InState, Worker!RCHasPendingWrites
  <2>11. VisitInv' /\ AheadInv'
    BY <1>0, <1>1, <2>8 DEF WorkerInv, VisitInv, AheadInv, Worker!Leave
  <2>12. Worker!TypeOK'
    BY <1>0, <1>2, <2>7, <2>8, StatusRow DEF Worker!TypeOK, Phases, Places
  <2> QED
    BY <1>0, <2>7, <2>8, <2>9, <2>10, <2>11, <2>12 DEF WorkerInv
<1> QED
  BY <1>3, <1>4 DEF Worker!RCStatusFinish

(* Every step of the worker and of the main thread.                        *)
LEMMA WorkerStep == WorkerInv /\ Worker!Next => WorkerInv'
BY PollStep, QuietStep, ApplyStep, FinishStep DEF Worker!Next, Worker!Worker

-----------------------------------------------------------------------------
(* The daemon: a behaviour runs one of the three parts.                    *)

(* Their invariants together are inductive.                                *)
DaemonInv == WorkerInv /\ CreateInv /\ MoveInv

(* The parts begin in their invariants.                                    *)
LEMMA DaemonInit == Init => DaemonInv
BY WorkerInit, CreateInit, MoveInit DEF Init, DaemonInv

(* A step of one part leaves the others' invariants alone.                 *)
LEMMA DaemonStutters ==
  ASSUME DaemonInv
  PROVE  /\ UNCHANGED workerVars => WorkerInv'
         /\ UNCHANGED createVars => CreateInv'
         /\ UNCHANGED moveVars => MoveInv' /\ MovedEventsKept
<1>1. ASSUME UNCHANGED workerVars PROVE WorkerInv'
  BY <1>1 DEF DaemonInv, workerVars, WorkerInv, Worker!TypeOK, VisitInv, AheadInv, GreenIsTrue,
              Worker!GreenIsTrue, Worker!Waiting, Worker!InState, Worker!RCHasPendingWrites
<1>2. ASSUME UNCHANGED createVars PROVE CreateInv'
  BY <1>2 DEF DaemonInv, createVars, CreateInv, Create!TypeOK, OneMarker, CreatingQueued
<1>3. ASSUME UNCHANGED moveVars PROVE MoveInv' /\ MovedEventsKept
  BY <1>3 DEF DaemonInv, moveVars, MoveInv, Move!TypeOK, HasRow, MovesQueued, MovedEventsKept
<1> QED
  BY <1>1, <1>2, <1>3

(* Every step of the daemon is a step of one part.                         *)
LEMMA DaemonStep == DaemonInv /\ [Next]_vars => DaemonInv' /\ MovedEventsKept
<1> SUFFICES ASSUME DaemonInv, [Next]_vars PROVE DaemonInv' /\ MovedEventsKept
  OBVIOUS
<1> USE DaemonStutters
<1>1. CASE Worker!Next /\ UNCHANGED <<createVars, moveVars>>
  BY <1>1, WorkerStep DEF DaemonInv
<1>2. CASE Create!Next /\ UNCHANGED <<workerVars, moveVars>>
  BY <1>2, CreateStep DEF DaemonInv
<1>3. CASE Move!Next /\ UNCHANGED <<workerVars, createVars>>
  BY <1>3, MoveStep DEF DaemonInv
<1>4. CASE UNCHANGED vars
  BY <1>4 DEF vars, DaemonInv
<1> QED
  BY <1>1, <1>2, <1>3, <1>4 DEF Next

(* The inductive invariant of the poll loop, the creations and the moves,  *)
(* in every behaviour of the daemon.                                       *)
THEOREM DaemonInvariant == Spec => []DaemonInv
BY DaemonInit, DaemonStep, PTL DEF Spec

(* The rows of the status, of the journals, of calendar_actions, of the    *)
(* mirror and of native_store_resources are of their tables' types; an     *)
(* operation belongs to a published event, and a calendar with an address  *)
(* to an operation that is done.                                           *)
THEOREM DaemonTypes == Spec => [](Worker!TypeOK /\ Create!TypeOK /\ Move!TypeOK)
<1>1. DaemonInv => Worker!TypeOK /\ Create!TypeOK /\ Move!TypeOK
  BY DEF DaemonInv, WorkerInv, CreateInv, MoveInv
<1> QED
  BY <1>1, DaemonInvariant, PTL

(* RCStatusFinish shows a service green, and RCStatusEvaluate sets its     *)
(* LastSuccess, only when every query worked and nothing waits, and it is  *)
(* so until the service is shown otherwise: no local application or upload *)
(* of a later part of the poll, no failure and no signal leaves a green    *)
(* that is not true.                                                       *)
THEOREM GreenServicesAreTrue == Spec => []GreenIsTrue
<1>1. DaemonInv => GreenIsTrue
  BY DEF DaemonInv, WorkerInv
<1> QED
  BY <1>1, DaemonInvariant, PTL

(* RCCalendarCollectOperations inserts a creation or ignores it, so that   *)
(* however often RCCalendarRunOperations retries one, after whatever lost  *)
(* or late MKCALENDAR, the server has at most one calendar of its owner.   *)
THEOREM RetriesMakeOneCalendar == Spec => []OneRemoteCalendar
<1>1. DaemonInv => OneRemoteCalendar
  BY DEF DaemonInv, CreateInv, OneMarker, OneRemoteCalendar, Create!OneRemoteCalendar
<1> QED
  BY <1>1, DaemonInvariant, PTL

(* Neither RCCalendarCommitVerifiedMove nor the exchange loses where the   *)
(* user has put an event.                                                  *)
THEOREM UserPlacesAreKept == Spec => PlacementKept
<1>1. DaemonInv /\ [Next]_vars => [MovedEventsKept]_(Move!vars)
  BY DaemonStep
<1>2. MovedEventsKept <=>
        \A a \in Addresses : clock' = clock /\ row[a] # None /\ row[a].at # a =>
          \E b \in Addresses : row'[b] # None /\ row'[b].at = row[a].at
  BY DEF MovedEventsKept
<1> QED
  BY <1>1, <1>2, DaemonInvariant, PTL DEF Spec, PlacementKept, Move!PlacementKept

=============================================================================
