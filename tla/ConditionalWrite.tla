-------------------------- MODULE ConditionalWrite --------------------------
(***************************************************************************)
(* What the conditional writer promises of a write that the journal has    *)
(* taken in, without attempts, requests, answers, retries or restarts.     *)
(* Other clients change the server's resources at will.  A write stays     *)
(* open until its outcome is reported; it changes the server only where it *)
(* finds the very revision it was decided on, and the report is true.      *)
(***************************************************************************)
EXTENDS Naturals

CONSTANTS
  Hrefs,
  Writes,    \* identifiers of writes
  Revisions, \* revisions of resources, positive; 0 is an absent resource
  Contents,  \* what a resource can hold
  None

VARIABLES
  current, \* current[h]: the revision the server has
  made,    \* made[r]: what revision r is and who made it, None before that
  order,   \* order[w]: what w is to do, None before it is decided
  outcome  \* outcome[w]: "none", "open", "applied" or "conflict"

cwVars == <<current, made, order, outcome>>

Orders == [href : Hrefs, kind : {"create", "update", "delete"},
           base : Revisions \cup {0}, want : Contents \cup {None}]

CWInit ==
  /\ current = [h \in Hrefs |-> 0]
  /\ made = [r \in Revisions |-> None]
  /\ order = [w \in Writes |-> None]
  /\ outcome = [w \in Writes |-> "none"]

(* A new revision of h, by a write or, for None, by another client.        *)
Replace(h, by) ==
  \E r \in Revisions, c \in Contents :
    /\ made[r] = None
    /\ made' = [made EXCEPT ![r] = [href |-> h, body |-> c, by |-> by]]
    /\ current' = [current EXCEPT ![h] = r]

Remove(h) ==
  /\ current' = [current EXCEPT ![h] = 0]
  /\ UNCHANGED made

Foreign(h) ==
  /\ Replace(h, None) \/ Remove(h)
  /\ UNCHANGED <<order, outcome>>

Decided(w) ==
  /\ outcome[w] = "none"
  /\ \E o \in Orders :
       /\ o.kind = "create" <=> o.base = 0
       /\ o.kind = "delete" <=> o.want = None
       /\ order' = [order EXCEPT ![w] = o]
  /\ outcome' = [outcome EXCEPT ![w] = "open"]
  /\ UNCHANGED <<current, made>>

(* A creation can be performed again once its resource has been removed,   *)
(* and late: nothing ties If-None-Match to one point in time.              *)
Perform(w) ==
  /\ outcome[w] # "none"
  /\ outcome[w] = "open" \/ order[w].kind = "create"
  /\ current[order[w].href] = order[w].base
  /\ IF order[w].kind = "delete" THEN Remove(order[w].href) ELSE Replace(order[w].href, w)
  /\ UNCHANGED <<order, outcome>>

(* Something was in the way: the base is not, and never again will be, the *)
(* current revision, or what was to be created has existed.                *)
Obstructed(w) ==
  IF order[w].kind = "create"
  THEN \E r \in Revisions : made[r] # None /\ made[r].href = order[w].href
  ELSE current[order[w].href] # order[w].base

(* A revision of the resource carries what w was to store, or is what the  *)
(* server made of it.                                                      *)
Stored(w) ==
  \E r \in Revisions :
    /\ made[r] # None /\ made[r].href = order[w].href
    /\ made[r].body = order[w].want \/ made[r].by = w

Report(w) ==
  /\ outcome[w] = "open"
  /\ \/ /\ IF order[w].kind = "delete" THEN Obstructed(w) ELSE Stored(w)
        /\ outcome' = [outcome EXCEPT ![w] = "applied"]
     \/ /\ Obstructed(w)
        /\ outcome' = [outcome EXCEPT ![w] = "conflict"]
  /\ UNCHANGED <<current, made, order>>

CWNext ==
  \/ \E h \in Hrefs : Foreign(h)
  \/ \E w \in Writes : Decided(w) \/ Perform(w) \/ Report(w)

CWSpec == CWInit /\ [][CWNext]_cwVars
=============================================================================
