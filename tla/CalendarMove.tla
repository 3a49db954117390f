----------------------------- MODULE CalendarMove -----------------------------
(***************************************************************************)
(* Moving an event to another calendar of the account                      *)
(* (RCCalendarOperations.m, with the exchange of RCNativeExchange.m around *)
(* it).  The user moves the native event; the daemon queues a move, sends  *)
(* a conditional MOVE and believes only what it then reads at both         *)
(* addresses.  The answer of the MOVE is ignored: a request can be lost,   *)
(* or take effect after the daemon stopped waiting for it.                 *)
(*                                                                         *)
(* The model follows the copies of one event.  An address is the event's   *)
(* place in one calendar; a content is a number, 0 for none, and the tag   *)
(* of a version is its address and content.  Tags are strong.              *)
(***************************************************************************)
EXTENDS Naturals, FiniteSets

CONSTANTS
  Addresses,
  Home,       \* where the event is at first
  MaxClock,   \* bound: changes by the user and other clients
  MaxFaults,  \* bound: lost and late requests, failed reads
  None

VARIABLES
  clock, faults,
  srv,     \* srv[a]: the content at a
  flight,  \* MOVE requests that may still arrive
  mir,     \* mir[a]: the content the mirror holds
  rows,    \* addresses that have a mirror row; rows are never deleted
  row,     \* native_store_resources by address: base, and where the user has it
  act,     \* calendar_actions by source address
  pc, todo, run  \* the phase, its remaining work, the operation being run

remoteVars == <<srv, flight>>
mirrorVars == <<mir, rows>>
passVars   == <<pc, todo, run>>
vars == <<clock, faults, remoteVars, mirrorVars, row, act, passVars>>

Tag(a, c) == [addr |-> a, content |-> c]

Init ==
  /\ clock = 1 /\ faults = 0
  /\ srv = [a \in Addresses |-> IF a = Home THEN 1 ELSE 0] /\ mir = srv /\ rows = {Home}
  /\ flight = {}
  /\ row = [a \in Addresses |-> IF a = Home THEN [tag |-> Tag(Home, 1), at |-> Home] ELSE None]
  /\ act = [a \in Addresses |-> None]
  /\ pc = "writes" /\ todo = {} /\ run = None

-----------------------------------------------------------------------------
(* The user and the server's other clients.                                *)

Tick == clock < MaxClock /\ clock' = clock + 1

MoveLocal(a, b) ==
  /\ Tick /\ row[a] # None /\ row[a].at # b
  /\ row' = [row EXCEPT ![a].at = b]
  /\ UNCHANGED <<faults, remoteVars, mirrorVars, act, passVars>>

RemotePut(a) ==
  /\ Tick
  /\ srv' = [srv EXCEPT ![a] = clock']
  /\ UNCHANGED <<faults, flight, mirrorVars, row, act, passVars>>

RemoteDelete(a) ==
  /\ Tick /\ srv[a] # 0
  /\ srv' = [srv EXCEPT ![a] = 0]
  /\ UNCHANGED <<faults, flight, mirrorVars, row, act, passVars>>

-----------------------------------------------------------------------------
(* A MOVE at the server.                                                   *)

(* If-Match the base, Overwrite: F.                                        *)
Holds(m) == srv[m.tag.addr] = m.tag.content /\ srv[m.to] = 0

Effect(m) ==
  /\ srv' = [srv EXCEPT ![m.to] = srv[m.tag.addr], ![m.tag.addr] = 0]
  /\ act' = [a \in Addresses |-> IF a = m.tag.addr /\ act[a] # None THEN [act[a] EXCEPT !.took = TRUE]
                                 ELSE act[a]]

(* A request the daemon no longer waits for arrives, or never does.        *)
Late(m) ==
  /\ m \in flight /\ flight' = flight \ {m}
  /\ IF Holds(m) THEN Effect(m) ELSE UNCHANGED <<srv, act>>
  /\ UNCHANGED <<clock, faults, mirrorVars, row, passVars>>

Lost(m) ==
  /\ m \in flight /\ flight' = flight \ {m}
  /\ UNCHANGED <<clock, faults, srv, mirrorVars, row, act, passVars>>

-----------------------------------------------------------------------------
(* RCCalendarRunOperations, for a queued move.                             *)

Queued == {a \in Addresses : act[a] # None /\ act[a].state = "queued"}

Running(at) == run # None /\ run.at = at

Ends == run' = None

(* Faulty variant: a new run takes the MOVE for sent.                      *)
RunSent(a) ==
  /\ pc = "writes" /\ run = None /\ a \in todo
  /\ todo' = todo \ {a}
  /\ run' = [res |-> a, at |-> "source", source |-> 0, sent |-> TRUE]
  /\ UNCHANGED <<clock, faults, remoteVars, mirrorVars, row, act, pc>>

RunMove(a) ==
  /\ pc = "writes" /\ run = None /\ a \in todo
  /\ todo' = todo \ {a}
  /\ run' = [res |-> a, at |-> "source", source |-> 0, sent |-> FALSE]
  /\ UNCHANGED <<clock, faults, remoteVars, mirrorVars, row, act, pc>>

GetSource ==
  /\ Running("source")
  /\ run' = [run EXCEPT !.at = "target", !.source = srv[run.res]]
  /\ UNCHANGED <<clock, faults, remoteVars, mirrorVars, row, act, pc, todo>>

(* A read that fails, or a cancellation, leaves the operation queued.      *)
GetFails ==
  /\ Running("source") \/ Running("target")
  /\ faults < MaxFaults /\ faults' = faults + 1
  /\ Ends
  /\ UNCHANGED <<clock, remoteVars, mirrorVars, row, act, pc, todo>>

Conflict(a) == act' = [act EXCEPT ![a].state = "conflict"]

(* One transaction: the mirror row and the native row change their         *)
(* address, unless the target has a mirror row already.                    *)
RCCalendarCommitVerifiedMove(a) ==
  /\ row[a].tag = act[a].tag /\ act[a].to \notin rows
  /\ row' = [row EXCEPT ![a] = None,
                        ![act[a].to] = [tag |-> Tag(act[a].to, act[a].tag.content), at |-> row[a].at]]
  /\ rows' = (rows \ {a}) \cup {act[a].to}
  /\ mir' = [mir EXCEPT ![a] = 0, ![act[a].to] = act[a].tag.content]
  /\ act' = [act EXCEPT ![a] = None]

Moved(a) == run.source = 0 /\ srv[act[a].to] = act[a].tag.content

(* The target is read after the source, and the pair decides.              *)
GetTarget ==
  /\ Running("target")
  /\ LET a == run.res
         source == run.source
         target == srv[act[a].to]
     IN \/ /\ Moved(a)
           /\ RCCalendarCommitVerifiedMove(a)
           /\ Ends
        \/ /\ Moved(a) /\ ~(row[a].tag = act[a].tag /\ act[a].to \notin rows)
           /\ Ends /\ UNCHANGED <<mirrorVars, row, act>>
        \/ /\ source # 0 /\ target # 0
           /\ Conflict(a)
           /\ Ends /\ UNCHANGED <<mirrorVars, row>>
        \/ /\ source # 0 /\ target = 0 /\ ~run.sent /\ source # act[a].tag.content
           /\ Conflict(a)
           /\ Ends /\ UNCHANGED <<mirrorVars, row>>
        \/ /\ source # 0 /\ target = 0 /\ ~run.sent /\ source = act[a].tag.content
           /\ run' = [run EXCEPT !.at = "move"]
           /\ UNCHANGED <<mirrorVars, row, act>>
        \/ /\ ~Moved(a) /\ (source = 0 \/ (target = 0 /\ run.sent))
           /\ Ends /\ UNCHANGED <<mirrorVars, row, act>>
  /\ UNCHANGED <<clock, faults, remoteVars, pc, todo>>

Sent == run' = [run EXCEPT !.at = "source", !.sent = TRUE]

RCHTTPClientMove ==
  /\ Running("move")
  /\ LET m == [tag |-> act[run.res].tag, to |-> act[run.res].to]
     IN IF Holds(m) THEN Effect(m) ELSE UNCHANGED <<srv, act>>
  /\ Sent
  /\ UNCHANGED <<clock, faults, flight, mirrorVars, row, pc, todo>>

(* The wait for the answer ends before the request took effect.            *)
MoveTimesOut ==
  /\ Running("move")
  /\ faults < MaxFaults /\ faults' = faults + 1
  /\ flight' = flight \cup {[tag |-> act[run.res].tag, to |-> act[run.res].to]}
  /\ Sent
  /\ UNCHANGED <<clock, srv, mirrorVars, row, act, pc, todo>>

-----------------------------------------------------------------------------
(* The fetch, when every queued move has had its run, and the exchange of  *)
(* every address.                                                          *)

Fetch ==
  /\ pc = "writes" /\ run = None /\ todo = {}
  /\ mir' = srv /\ rows' = rows \cup {a \in Addresses : srv[a] # 0}
  /\ pc' = "exchange" /\ todo' = Addresses
  /\ UNCHANGED <<clock, faults, remoteVars, row, act, run>>

Exchanged(a) == todo' = todo \ {a} /\ UNCHANGED pc

(* After the exchange, or without one if the fetch failed.                 *)
StartWrites ==
  /\ todo = {} /\ run = None
  /\ \/ pc = "exchange" /\ UNCHANGED faults
     \/ pc = "writes" /\ faults < MaxFaults /\ faults' = faults + 1
  /\ pc' = "writes" /\ todo' = Queued
  /\ UNCHANGED <<clock, remoteVars, mirrorVars, row, act, run>>

(* The published version, and the calendar the user has put it in.         *)
QueuedMove(a) == [tag |-> row[a].tag, to |-> row[a].at, state |-> "queued", took |-> FALSE]

(* A conflict whose destination the user has changed is retired, and the   *)
(* new decision queued if there is one.                                    *)
RCCalendarCollectOperations(a) ==
  LET stays == act[a] # None /\ ~(act[a].state = "conflict" /\ act[a].to # row[a].at)
  IN  act' = [act EXCEPT ![a] = IF stays THEN act[a] ELSE IF row[a].at = a THEN None ELSE QueuedMove(a)]

Publish(a) ==
  /\ row' = [row EXCEPT ![a] = [tag |-> Tag(a, mir[a]), at |-> a]]
  /\ UNCHANGED act

(* Faulty variant: a record gone from its calendar is removed even if the  *)
(* user has moved it.                                                      *)
ExchangeRemoving(a) ==
  /\ pc = "exchange" /\ a \in todo
  /\ \/ /\ act[a] # None
        /\ IF mir[a] # 0 THEN RCCalendarCollectOperations(a) ELSE UNCHANGED act
        /\ UNCHANGED row
     \/ /\ act[a] = None /\ row[a] # None /\ row[a].at # a /\ mir[a] # 0
        /\ RCCalendarCollectOperations(a) /\ UNCHANGED row
     \/ act[a] = None /\ mir[a] # 0 /\ (row[a] # None => row[a].at = a) /\ Publish(a)
     \/ act[a] = None /\ mir[a] = 0 /\ row' = [row EXCEPT ![a] = None] /\ UNCHANGED act
  /\ Exchanged(a)
  /\ UNCHANGED <<clock, faults, remoteVars, mirrorVars, run>>

(* Protected by its operation, moved by the user, published or removed.    *)
Exchange(a) ==
  /\ pc = "exchange" /\ a \in todo
  /\ \/ /\ act[a] # None
        /\ IF mir[a] # 0 THEN RCCalendarCollectOperations(a) ELSE UNCHANGED act
        /\ UNCHANGED row
     \/ /\ act[a] = None /\ row[a] # None /\ row[a].at # a
        /\ RCCalendarCollectOperations(a) /\ UNCHANGED row
     \/ act[a] = None /\ mir[a] # 0 /\ (row[a] # None => row[a].at = a) /\ Publish(a)
     \/ /\ act[a] = None /\ mir[a] = 0 /\ (row[a] # None => row[a].at = a)
        /\ row' = [row EXCEPT ![a] = None] /\ UNCHANGED act
  /\ Exchanged(a)
  /\ UNCHANGED <<clock, faults, remoteVars, mirrorVars, run>>

-----------------------------------------------------------------------------

Others == \E a \in Addresses : RemotePut(a) \/ RemoteDelete(a) \/ \E b \in Addresses : MoveLocal(a, b)

Network == \E m \in flight : Late(m) \/ Lost(m)

Run == GetSource \/ GetTarget \/ RCHTTPClientMove

Next ==
  \/ Others \/ Network \/ Run \/ GetFails \/ MoveTimesOut \/ Fetch \/ StartWrites
  \/ \E a \in Addresses : RunMove(a) \/ Exchange(a)

Spec == Init /\ [][Next]_vars

(* A poll goes through its phases; requests end.                           *)
FairSpec ==
  /\ Spec /\ WF_vars(Run) /\ WF_vars(Network) /\ SF_vars(Fetch) /\ WF_vars(StartWrites)
  /\ \A a \in Addresses : WF_vars(RunMove(a)) /\ WF_vars(Exchange(a))

-----------------------------------------------------------------------------

Tags == [addr : Addresses, content : 1 .. MaxClock]
Published == [tag : Tags, at : Addresses]
Runs == [res : Addresses, at : {"source", "target", "move"}, source : 0 .. MaxClock, sent : BOOLEAN]
Moves == [tag : Tags, to : Addresses, state : {"queued", "conflict"}, took : BOOLEAN]

(* An operation belongs to a published event.                              *)
TypeOK ==
  /\ clock \in 1 .. MaxClock /\ faults \in 0 .. MaxFaults
  /\ srv \in [Addresses -> 0 .. MaxClock] /\ mir \in [Addresses -> 0 .. MaxClock]
  /\ flight \subseteq [tag : Tags, to : Addresses] /\ rows \subseteq Addresses
  /\ row \in [Addresses -> Published \cup {None}]
  /\ act \in [Addresses -> Moves \cup {None}]
  /\ \A a \in Addresses : act[a] # None => row[a] # None
  /\ pc \in {"writes", "exchange"} /\ todo \subseteq Addresses
  /\ run \in Runs \cup {None} /\ (run # None => pc = "writes")

(* Where the user has put an event is never undone by the daemon, not even *)
(* when an earlier move of it is committed, or it is gone from the server. *)
PlacementKept ==
  [][\A a \in Addresses : clock' = clock /\ row[a] # None /\ row[a].at # a =>
       \E b \in Addresses : row'[b] # None /\ row'[b].at = row[a].at]_vars

(* A move that can still be verified: the source is there, or its bytes    *)
(* are at the target, which has no mirror row.                             *)
Verifiable(a) == act[a].to \notin rows /\ (srv[a] # 0 \/ srv[act[a].to] = act[a].tag.content)

(* Once changes and faults stop, a queued move is done or refused, unless  *)
(* somebody deleted or changed the event, or a fetch found it at the       *)
(* target before its verification.                                         *)
MoveSettles ==
  \A a \in Addresses : <>[](act[a] # None /\ act[a].state = "queued" => ~Verifiable(a))
=============================================================================
