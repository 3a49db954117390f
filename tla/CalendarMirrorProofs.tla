------------------------ MODULE CalendarMirrorProofs ------------------------
(***************************************************************************)
(* Proofs about CalendarMirror: the type invariant, that a saved token     *)
(* never skips a change of its window, that a resource is taken for        *)
(* deleted only if it really was absent, and that the identity of an event *)
(* survives every run, for every server, window, codec and interleaving.   *)
(*                                                                         *)
(* The tokens alone say nothing between the listing of a calendar and the  *)
(* commit.  CalendarInv adds what a run carries from one to the other:     *)
(* what has been listed (Inventoried), how a member that has not changed   *)
(* since its token was read is staged (Fetched, ListInv), why an empty     *)
(* report may keep a calendar (KeepInv), what is known to have been absent *)
(* (GoneInv), and how the working table of the transaction relates to the  *)
(* committed one and to what was staged (WorkInv).  Row ids never outgrow  *)
(* the changes of the server, because every row had a revision of its own  *)
(* (Sane, StoredCount).                                                    *)
(*                                                                         *)
(* Last, ShownAsSource of the series a native calendar is given: each      *)
(* rewriting of an event keeps the days it occurs on (SeriesInv).          *)
(***************************************************************************)
EXTENDS CalendarMirror, SeriesProjection, FiniteSetTheorems, FunctionTheorems, WellFoundedInduction, TLAPS

(* What is known of the server: a member that exists is at the revision of *)
(* its last change, and no two changes have one number.                    *)
ServerInv ==
  /\ \A h \in Hrefs : cur[h] # 0 => cur[h] = changed[h]
  /\ \A h \in Hrefs : changed[h] # 1
  /\ \A g, h \in Hrefs : changed[g] # 0 /\ changed[g] = changed[h] => g = h

(* A table of resources: a body is of its address and not older than its   *)
(* tag, and the ids are the numbers up to that of the rows.                *)
Sane(t) ==
  /\ \A h \in Hrefs : t[h] # NoRow =>
       /\ changed[h] # 0 /\ t[h].etag <= t[h].body /\ t[h].body <= changed[h]
       /\ t[h].bad => t[h].body # 0
  /\ \A h \in Hrefs : t[h] # NoRow => t[h].id <= Cardinality({g \in Hrefs : t[g] # NoRow})
  /\ \A g, h \in Hrefs : t[g] # NoRow /\ t[h] # NoRow /\ t[g].id = t[h].id => g = h

(* Collections whose members have been listed by this run, and the token   *)
(* to be saved for them.                                                   *)
Inventoried == {c \in found : c \notin todo \cup keep \/ (pc = "apply" /\ c = col)}
Token(c) == IF c = col THEN at ELSE next[c]

Staged == {stage[i].href : i \in DOMAIN stage}

(* Where the run is.                                                       *)
LoopInv ==
  /\ pc \in {"list", "apply"} => col \in todo
  /\ pc \notin {"list", "apply"} => col = NoCollection
  /\ pc # "apply" => pend = {}
  /\ todo \cap keep = {}
  /\ pc = "commit" => todo = {}

(* What is staged and what is still to be staged are different members of  *)
(* the listed collections.                                                 *)
StageInv ==
  /\ \A e \in pend : Home[e.href] = col /\ e.href \notin Staged /\ e.etag <= changed[e.href]
  /\ \A d, e \in pend : d.href = e.href => d = e
  /\ \A i, j \in DOMAIN stage : stage[i].href = stage[j].href => i = j
  /\ \A i \in DOMAIN stage : LET s == stage[i] IN
       /\ Home[s.href] \in Inventoried
       /\ s.action = "seen" => rows[s.href].etag = s.etag /\ rows[s.href].body # 0
       /\ s.action = "downloaded" => s.etag <= s.body /\ s.body <= changed[s.href]

(* A member that has not changed since the token was read is staged as it  *)
(* is, or was not listed.                                                  *)
Fetched(h) ==
  IF cur[h] # 0 /\ hist[cur[h]].day >= start
  THEN \/ \E e \in pend : e.href = h /\ e.etag = cur[h]
       \/ \E i \in DOMAIN stage :
            stage[i].href = h /\ stage[i].etag = cur[h]
            /\ (stage[i].action = "seen" \/ stage[i].body = cur[h])
  ELSE h \notin Staged /\ \A e \in pend : e.href # h

ListInv ==
  \A c \in Inventoried : \A h \in Members(c) :
    /\ start = 0 => h \in gone \/ h \in Staged \/ \E e \in pend : e.href = h
    /\ Token(c) # 0 /\ changed[h] <= Token(c) => Fetched(h)

(* A calendar is kept when nothing has changed since its token, until the  *)
(* next one.                                                               *)
KeepInv ==
  \A c \in keep : SyncUsable(c) /\
    \A h \in Members(c) :
      /\ changed[h] <= next[c] => changed[h] <= sync[c].token
      /\ start = 0 /\ rows[h] # NoRow /\ ~rows[h].missing /\ rows[h].excluded => h \in gone

GoneInv == pc \in Runs => \A h \in Hrefs : cur[h] = 0 => h \in gone

(* Row t of h under its own address, or under one that has been committed. *)
Survives(h, n) ==
  \/ work.rows[h] # NoRow /\ work.rows[h].id = rows[h].id
  \/ \E i \in 1 .. n : LET g == work.rows[stage[i].href] IN
       g # NoRow /\ g.id = rows[h].id /\ g.uid = rows[h].uid

WorkInv ==
  pc = "commit" =>
    /\ work.applied \in 0 .. Len(stage)
    /\ work.seen = Kept \cup {stage[i].href : i \in 1 .. work.applied}
    /\ Sane(work.rows)
    /\ \A h \in Hrefs : h \in Kept => work.rows[h] = rows[h]
    /\ \A h \in Hrefs : h \notin work.seen => work.rows[h] \in {rows[h], NoRow}
    /\ \A i \in 1 .. work.applied : LET s == stage[i]  r == work.rows[s.href] IN
         /\ r # NoRow /\ ~r.missing /\ ~r.excluded /\ r.etag = s.etag
         /\ s.action = "downloaded" => r.body = s.body
    /\ \A h \in Stored : Survives(h, work.applied)

(* Table u is t with the resource of s: its address has a row, its own or  *)
(* one that had not been seen under another address; no other row changes. *)
Saved(t, seen, s, u) ==
  /\ u[s.href] # NoRow /\ ~u[s.href].missing /\ ~u[s.href].excluded /\ u[s.href].etag = s.etag
  /\ t[s.href] # NoRow => u[s.href].id = t[s.href].id
  /\ \A h \in Hrefs \ {s.href} : u[h] # t[h] =>
       u[h] = NoRow /\ h \notin seen /\ u[s.href].id = t[h].id /\ u[s.href].uid = t[h].uid

CalendarInv ==
  /\ TypeOK /\ ServerInv /\ Sane(rows) /\ LoopInv /\ StageInv /\ ListInv /\ KeepInv /\ GoneInv
  /\ WorkInv /\ NoMissedChange

-----------------------------------------------------------------------------
(* Rows and tables.                                                        *)

(* The columns of a row.                                                   *)
LEMMA RowFacts ==
  ASSUME NEW r \in Row
  PROVE  /\ r # NoRow /\ r.id \in 1 .. MaxClock /\ r.uid \in Uids \cup {NoUid}
         /\ r.etag \in 0 .. MaxClock /\ r.body \in 0 .. MaxClock /\ r.bad \in BOOLEAN
         /\ r.missing \in BOOLEAN /\ r.excluded \in BOOLEAN
BY CalendarConstants DEF Row, NoRow

(* A row that is not stored is known to be deleted and holds no UID.       *)
LEMMA TableFacts ==
  ASSUME NEW t \in Tables, NEW h \in Hrefs
  PROVE  /\ t[h] \in Row \cup {NoRow} /\ (t[h] # NoRow <=> t[h] \in Row) /\ (t[h] # NoRow <=> t[h].id # 0)
         /\ t[h].etag \in 0 .. MaxClock /\ t[h].body \in 0 .. MaxClock
         /\ t[h].missing \in BOOLEAN /\ t[h].excluded \in BOOLEAN
         /\ t[h].body # 0 => t[h] # NoRow
         /\ ~t[h].missing => t[h] # NoRow
<1>1. t[h] \in Row \cup {NoRow}
  BY DEF Tables
<1>2. /\ NoRow.id = 0 /\ NoRow.etag = 0 /\ NoRow.body = 0 /\ NoRow.missing = TRUE /\ NoRow.excluded = FALSE
      /\ NoRow \notin Row /\ 0 \in 0 .. MaxClock
  BY RowFacts, CalendarConstants DEF NoRow
<1>3. CASE t[h] \in Row
  BY <1>2, <1>3, RowFacts
<1>4. CASE t[h] = NoRow
  <2>1. MaxClock \in Nat /\ 0 \in 0 .. MaxClock
    BY CalendarConstants
  <2> QED
    BY <1>2, <1>4, <2>1
<1> QED
  BY <1>1, <1>3, <1>4

(* What the bodies say.                                                    *)
LEMMA BodyFacts ==
  ASSUME NEW b \in Bodies \cup {NoBody}
  PROVE  b.uid \in Uids \cup {NoUid} /\ b.level \in {0, 1} /\ b.day \in Nat
<1>1. CASE b \in Bodies
  <2>1. b.uid \in Uids /\ b.day \in Days /\ b.level \in Levels
    BY <1>1 DEF Bodies
  <2> QED
    BY <2>1, CalendarConstants
<1>2. CASE b = NoBody
  BY <1>2 DEF NoBody
<1> QED
  BY <1>1, <1>2

(* The row a body is stored in: its id stays or is a new one.              *)
LEMMA SavedRow ==
  ASSUME NEW t \in Tables, NEW from \in Hrefs, NEW s, s.href \in Hrefs, s.etag \in 0 .. MaxClock,
         s.body \in 1 .. MaxClock, NEW c \in {0, 1}, hist \in [1 .. MaxClock -> Bodies \cup {NoBody}],
         t[from] = NoRow => NextId(t) \in 1 .. MaxClock
  PROVE  \E new \in Row :
           /\ SaveRow(t, from, s, c) = [[t EXCEPT ![from] = NoRow] EXCEPT ![s.href] = new]
           /\ new.id = IF t[from] = NoRow THEN NextId(t) ELSE t[from].id
           /\ new.etag = s.etag /\ new.body = s.body /\ ~new.missing /\ ~new.excluded
           /\ Parses(s, c) => new.uid = hist[s.body].uid
<1>0. hist[s.body].uid \in Uids \cup {NoUid} /\ hist[s.body].level \in {0, 1}
  <2>1. hist[s.body] \in Bodies \cup {NoBody}
    OBVIOUS
  <2> QED
    BY <2>1, BodyFacts
<1>1. PICK p \in BOOLEAN : p = Parses(s, c)
  <2>1. PICK l \in {0, 1} : l = hist[s.body].level
    BY <1>0
  <2>2. Parses(s, c) = (l <= c)
    BY <2>1, Zenon DEF Parses
  <2>4. (l <= c) \in BOOLEAN
    OBVIOUS
  <2> QED
    BY <2>2, <2>4, Zenon
<1>2. PICK u \in Uids \cup {NoUid} : u = hist[s.body].uid
  BY <1>0
<1>3. PICK old : old = [t[from] EXCEPT !.id = IF @ = 0 THEN NextId(t) ELSE @]
  OBVIOUS
<1>4. old \in Row /\ old.id = IF t[from] = NoRow THEN NextId(t) ELSE t[from].id
  <2>1. CASE t[from] = NoRow
    <3>1. old = [id |-> NextId(t), uid |-> NoUid, etag |-> 0, body |-> 0, bad |-> FALSE,
                 missing |-> TRUE, excluded |-> FALSE, exported |-> 0, exportETag |-> 0]
      <4>1. old = [NoRow EXCEPT !.id = NextId(t)]
        BY <1>3, <2>1 DEF NoRow
      <4> QED
        BY <4>1 DEF NoRow
    <3>2. NextId(t) \in 1 .. MaxClock /\ 0 \in 0 .. MaxClock
      BY <2>1, CalendarConstants
    <3> QED
      BY <2>1, <3>1, <3>2 DEF Row
  <2>2. CASE t[from] \in Row
    BY <1>3, <2>2, RowFacts DEF Row
  <2> QED
    BY <2>1, <2>2, TableFacts
<1>5. PICK v \in Uids \cup {NoUid}, q \in BOOLEAN : v = (IF p THEN u ELSE old.uid) /\ q = ~p
  BY <1>4, RowFacts
<1>6. PICK new : new = [old EXCEPT !.uid = v, !.etag = s.etag, !.body = s.body, !.bad = q,
                                  !.missing = FALSE, !.excluded = FALSE]
  OBVIOUS
<1>9. s.body \in 0 .. MaxClock
  BY CalendarConstants
<1>8. /\ new \in Row /\ new.id = old.id /\ new.etag = s.etag /\ new.body = s.body
      /\ ~new.missing /\ ~new.excluded
      /\ new.uid = v
  BY <1>4, <1>6, <1>9 DEF Row
<1>7. SaveRow(t, from, s, c) = [[t EXCEPT ![from] = NoRow] EXCEPT ![s.href] = new]
  BY <1>1, <1>2, <1>3, <1>5, <1>6 DEF SaveRow
<1> QED
  BY <1>1, <1>2, <1>4, <1>5, <1>7, <1>8

(* Every resource that has a row had a revision of its own, so there are   *)
(* fewer rows than changes.                                                *)
LEMMA StoredCount ==
  ASSUME TypeOK, ServerInv, NEW T \in SUBSET Hrefs, \A h \in T : changed[h] # 0
  PROVE  IsFiniteSet(T) /\ Cardinality(T) \in Nat /\ Cardinality(T) < clock
<1>1. clock \in 1 .. MaxClock /\ MaxClock \in Nat /\ changed \in [Hrefs -> 0 .. clock]
  BY CalendarConstants DEF TypeOK
<1>2. IsFiniteSet(T) /\ Cardinality(T) \in Nat
  BY FS_Subset, FS_CardinalityType, CalendarConstants
<1>3. PICK f : f = [h \in T |-> changed[h]]
  OBVIOUS
<1>4. \A h \in T : changed[h] \in 2 .. clock
  BY <1>1 DEF ServerInv
<1>5. f \in Injection(T, 2 .. clock)
  BY <1>3, <1>4 DEF Injection, IsInjective, ServerInv
<1>6. IsFiniteSet(2 .. clock) /\ Cardinality(2 .. clock) = IF 2 > clock THEN 0 ELSE clock - 2 + 1
  BY <1>1, FS_Interval
<1>7. Cardinality(T) <= Cardinality(2 .. clock)
  BY <1>5, <1>6, FS_Injection
<1> QED
  BY <1>1, <1>2, <1>6, <1>7

(* The rows of a sane table, and the id a new one would get.               *)
LEMMA FreshId ==
  ASSUME TypeOK, ServerInv, NEW t \in Tables, Sane(t), NEW h \in Hrefs, t[h] = NoRow, changed[h] # 0
  PROVE  /\ NextId(t) \in 1 .. MaxClock
         /\ \A g \in Hrefs : t[g] # NoRow => t[g].id < NextId(t)
         /\ Cardinality({g \in Hrefs : t[g] # NoRow} \cup {h}) = NextId(t)
<1> DEFINE S == {g \in Hrefs : t[g] # NoRow}
<1>1. \A g \in S \cup {h} : changed[g] # 0
  BY DEF Sane
<1>2. IsFiniteSet(S) /\ Cardinality(S) \in Nat
  BY FS_Subset, FS_CardinalityType, CalendarConstants
<1>3. Cardinality(S \cup {h}) = Cardinality(S) + 1
  BY <1>2, FS_AddElement
<1>4. Cardinality(S \cup {h}) < clock
  <2>1. S \cup {h} \in SUBSET Hrefs
    OBVIOUS
  <2> HIDE DEF S
  <2> QED
    BY <1>1, <2>1, StoredCount
<1>5. clock \in 1 .. MaxClock /\ MaxClock \in Nat
  BY CalendarConstants DEF TypeOK
<1>6. NextId(t) = 1 + Cardinality(S)
  BY DEF NextId
<1>7. \A g \in S : t[g].id \in Nat /\ t[g].id <= Cardinality(S)
  BY RowFacts, TableFacts DEF Sane
<1> QED
  BY <1>2, <1>3, <1>4, <1>5, <1>6, <1>7

(* The row a resource is stored in, when it is not a duplicate.            *)
LEMMA ResourceFacts ==
  ASSUME NEW t \in Tables, NEW seen, NEW s, s.href \in Hrefs, NEW c, NEW from \in Resource(t, s, c),
         ~Duplicate(t, seen, s, from)
  PROVE  /\ from \in Hrefs
         /\ from # s.href =>
              /\ t[from] # NoRow /\ t[s.href] = NoRow /\ from \notin seen
              /\ Parses(s, c) /\ t[from].uid = hist[s.body].uid
<1>1. CASE from = s.href
  BY <1>1
<1>2. CASE from # s.href
  <2>1. from \in SameUid(t, s, c)
    BY <1>2 DEF Resource
  <2>2. from \in Hrefs /\ Parses(s, c) /\ t[from].uid = hist[s.body].uid /\ ~t[from].missing
    BY <2>1 DEF SameUid, Members
  <2> QED
    BY <1>2, <2>2, TableFacts DEF Duplicate
<1> QED
  BY <1>1, <1>2

(* Saving keeps a table sane: a renamed row takes its id and its UID along *)
(* and had not been seen by the run, a new one gets the next id.           *)
LEMMA SavedTable ==
  ASSUME TypeOK, ServerInv, NEW t \in Tables, Sane(t), NEW seen, NEW s, s.href \in Hrefs,
         s.etag \in 0 .. MaxClock, s.body \in 1 .. MaxClock, s.etag <= s.body, s.body <= changed[s.href],
         NEW c \in {0, 1}, NEW from \in Resource(t, s, c), ~Duplicate(t, seen, s, from)
  PROVE  \E u \in Tables :
           u = SaveRow(t, from, s, c) /\ Sane(u) /\ Saved(t, seen, s, u) /\ u[s.href].body = s.body
<1>0. /\ from \in Hrefs
      /\ from # s.href =>
           /\ t[from] # NoRow /\ t[s.href] = NoRow /\ from \notin seen
           /\ Parses(s, c) /\ t[from].uid = hist[s.body].uid
  BY ResourceFacts
<1>1. changed[s.href] # 0 /\ changed[s.href] \in Nat
  <2>1. clock \in 1 .. MaxClock /\ MaxClock \in Nat /\ changed \in [Hrefs -> 0 .. clock]
    BY CalendarConstants DEF TypeOK
  <2>2. changed[s.href] \in Nat
    BY <2>1
  <2> QED
    BY <2>1, <2>2
<1>2. t[from] = NoRow => NextId(t) \in 1 .. MaxClock
  BY <1>0, <1>1, FreshId
<1>3. PICK new \in Row :
        /\ SaveRow(t, from, s, c) = [[t EXCEPT ![from] = NoRow] EXCEPT ![s.href] = new]
        /\ new.id = IF t[from] = NoRow THEN NextId(t) ELSE t[from].id
        /\ new.etag = s.etag /\ new.body = s.body /\ ~new.missing /\ ~new.excluded
        /\ Parses(s, c) => new.uid = hist[s.body].uid
  <2>1. hist \in [1 .. MaxClock -> Bodies \cup {NoBody}]
    BY DEF TypeOK
  <2> QED
    BY <1>0, <1>2, <2>1, SavedRow
<1>4. PICK u : u = SaveRow(t, from, s, c)
  OBVIOUS
<1>5. /\ u \in Tables /\ u[s.href] = new /\ (from # s.href => u[from] = NoRow)
      /\ \A h \in Hrefs \ {s.href, from} : u[h] = t[h]
  BY <1>0, <1>3, <1>4 DEF Tables
<1>6. new # NoRow
  BY RowFacts
<1>7. \A h \in Hrefs : u[h] # NoRow =>
        /\ changed[h] # 0 /\ u[h].etag <= u[h].body /\ u[h].body <= changed[h]
        /\ u[h].bad => u[h].body # 0
  <2> TAKE h \in Hrefs
  <2>1. CASE h = s.href
    BY <1>1, <1>3, <1>5, <2>1
  <2>2. CASE h # s.href
    BY <1>5, <2>2 DEF Sane
  <2> QED
    BY <2>1, <2>2
<1> DEFINE S == {g \in Hrefs : t[g] # NoRow}
           U == {g \in Hrefs : u[g] # NoRow}
<1>8. \A h \in S : t[h].id <= Cardinality(S)
  BY DEF Sane
<1>9. IsFiniteSet(S) /\ Cardinality(S) \in Nat /\ IsFiniteSet(S \ {from})
  BY FS_Subset, FS_CardinalityType, CalendarConstants
<1>10. /\ Cardinality(U) \in Nat /\ Cardinality(S) <= Cardinality(U) /\ new.id <= Cardinality(U)
       /\ \A h \in Hrefs \ {s.href, from} : t[h] # NoRow => t[h].id # new.id
  <2>1. CASE t[from] = NoRow
    <3>1. from = s.href
      BY <1>0, <2>1
    <3>2. U = S \cup {s.href}
      BY <1>5, <1>6, <3>1
    <3>3. /\ Cardinality(S \cup {s.href}) = NextId(t) /\ NextId(t) \in 1 .. MaxClock
          /\ \A g \in Hrefs : t[g] # NoRow => t[g].id < NextId(t)
      BY <1>1, <2>1, <3>1, FreshId
    <3>4. Cardinality(S) <= Cardinality(S \cup {s.href})
      <4>1. s.href \notin S
        BY <2>1, <3>1
      <4>2. Cardinality(S \cup {s.href}) = Cardinality(S) + 1
        BY <1>9, <4>1, FS_AddElement
      <4> QED
        BY <1>9, <4>2
    <3>5. MaxClock \in Nat /\ new.id = NextId(t) /\ \A h \in Hrefs : t[h] # NoRow => t[h].id \in Nat
      BY <1>3, <2>1, CalendarConstants, TableFacts, RowFacts
    <3>6. \A h \in Hrefs : t[h] # NoRow => t[h].id # new.id
      <4> SUFFICES ASSUME NEW h \in Hrefs, t[h] # NoRow PROVE t[h].id # new.id
        OBVIOUS
      <4>1. t[h].id \in Nat /\ NextId(t) \in Nat /\ t[h].id < NextId(t)
        BY <3>3, <3>5
      <4> QED
        BY <3>5, <4>1
    <3> HIDE DEF S, U
    <3>7. Cardinality(U) = NextId(t) /\ NextId(t) \in Nat
      BY <3>2, <3>3, <3>5
    <3> QED
      BY <3>2, <3>4, <3>5, <3>6, <3>7
  <2>2. CASE t[from] # NoRow
    <3>1. U = (S \ {from}) \cup {s.href}
      BY <1>0, <1>5, <1>6
    <3>2. from \in S /\ s.href \notin S \ {from}
      BY <1>0, <2>2
    <3>3. Cardinality(S \ {from}) = Cardinality(S) - 1
      BY <1>9, <3>2, FS_RemoveElement
    <3>4. Cardinality((S \ {from}) \cup {s.href}) = Cardinality(S \ {from}) + 1
      BY <1>9, <3>2, FS_AddElement
    <3>5. Cardinality(U) = Cardinality(S)
      <4>1. PICK n \in Nat : n = Cardinality(S)
        BY <1>9
      <4>2. Cardinality(S \ {from}) = n - 1 /\ Cardinality(U) = Cardinality(S \ {from}) + 1
        BY <3>1, <3>3, <3>4, <4>1
      <4> QED
        BY <4>1, <4>2
    <3>6. new.id = t[from].id /\ \A h \in Hrefs \ {from} : t[h] # NoRow => t[h].id # t[from].id
      BY <1>0, <1>3, <2>2 DEF Sane
    <3>7. t[from].id <= Cardinality(S)
      BY <1>8, <3>2
    <3> QED
      BY <1>9, <3>5, <3>6, <3>7
  <2> QED
    BY <2>1, <2>2
<1>11. \A h \in Hrefs : u[h] # NoRow => u[h].id <= Cardinality(U)
  <2> TAKE h \in Hrefs
  <2>1. CASE h = s.href
    BY <1>5, <1>10, <2>1
  <2>2. CASE h \notin {s.href, from} /\ u[h] # NoRow
    <3>1. u[h] = t[h] /\ h \in S
      BY <1>5, <2>2
    <3>2. t[h].id \in Nat
      BY <3>1, TableFacts, RowFacts
    <3> QED
      BY <1>8, <1>9, <1>10, <3>1, <3>2
  <2> QED
    BY <1>5, <2>1, <2>2
<1>12. \A g, h \in Hrefs : u[g] # NoRow /\ u[h] # NoRow /\ u[g].id = u[h].id => g = h
  BY <1>5, <1>10 DEF Sane
<1>13. Sane(u)
  BY <1>7, <1>11, <1>12 DEF Sane
<1>14. /\ t[s.href] # NoRow => new.id = t[s.href].id
       /\ \A h \in Hrefs \ {s.href} : u[h] # t[h] =>
            u[h] = NoRow /\ h \notin seen /\ new.id = t[h].id /\ new.uid = t[h].uid
  BY <1>0, <1>3, <1>5
<1>15. Saved(t, seen, s, u)
  BY <1>3, <1>5, <1>6, <1>14 DEF Saved
<1> QED
  BY <1>3, <1>4, <1>5, <1>13, <1>15

-----------------------------------------------------------------------------
(* The beginning and the end of a run.                                     *)

(* A run that is over has nothing to say.                                  *)
LEMMA FinishedRun ==
  ASSUME Finished
  PROVE  LoopInv' /\ StageInv' /\ ListInv' /\ KeepInv' /\ GoneInv' /\ WorkInv'
<1>1. /\ pc' = "idle" /\ found' = {} /\ keep' = {} /\ todo' = {} /\ pend' = {} /\ stage' = <<>>
      /\ col' = NoCollection
  BY DEF Finished
<1>2. DOMAIN stage' = {} /\ Inventoried' = {}
  BY <1>1 DEF Inventoried
<1>3. LoopInv'
  BY <1>1 DEF LoopInv
<1>4. StageInv'
  BY <1>1, <1>2 DEF StageInv
<1>5. ListInv' /\ KeepInv'
  BY <1>1, <1>2 DEF ListInv, KeepInv
<1>6. GoneInv' /\ WorkInv'
  BY <1>1 DEF GoneInv, WorkInv, Runs
<1> QED
  BY <1>3, <1>4, <1>5, <1>6

(* The state of no run.                                                    *)
LEMMA NoRun ==
  ASSUME Finished
  PROVE  /\ pc' = "idle" /\ found' = {} /\ keep' = {} /\ todo' = {} /\ pend' = {}
         /\ stage' \in Seq(StageAction)
         /\ col' = NoCollection /\ at' = 0 /\ stage' = <<>> /\ work' = NoWork
         /\ listed' \in [Collections -> {0}] /\ next' \in [Collections -> {0}]
         /\ work' \in [rows : Tables, seen : SUBSET Hrefs, applied : Nat]
<1>1. NoWork \in [rows : Tables, seen : SUBSET Hrefs, applied : Nat]
  BY DEF NoWork, Tables
<1> QED
  BY <1>1 DEF Finished, Idle

(* A new store beside an empty server.                                     *)
LEMMA CalendarInit == Init => CalendarInv
<1> SUFFICES ASSUME Init PROVE CalendarInv
  OBVIOUS
<1>1. TypeOK
  <2>1. NoRow.id = 0 /\ \A h \in Hrefs : rows[h] = NoRow
    BY DEF Init, NoRow
  <2>2. NoWork \in [rows : Tables, seen : SUBSET Hrefs, applied : Nat]
    BY DEF NoWork, Tables
  <2>3. rows \in Tables
    BY DEF Init, Tables
  <2>4. 0 \in 0 .. MaxClock /\ MaxClock \in Nat /\ MaxFaults \in Nat /\ 1 \in 1 .. MaxClock
    BY CalendarConstants
  <2>5. bases \in [1 .. MaxClock -> [etag : 0 .. MaxClock, body : 0 .. MaxClock]]
    BY <2>4 DEF Init, NoBase
  <2>6. sync \in [Collections -> [token : 0 .. clock, window : Windows]]
    BY <2>4, CalendarConstants DEF Init, NoSync, Idle
  <2> QED
    <3>1. Stored = {} /\ stage = <<>> /\ stage \in Seq(StageAction) /\ work = NoWork
      BY <2>1 DEF Init, Stored
    <3>2. /\ cur \in [Hrefs -> 0 .. clock] /\ changed \in [Hrefs -> 0 .. clock]
          /\ hist \in [1 .. MaxClock -> Bodies \cup {NoBody}]
      BY <2>4 DEF Init
    <3>3. /\ calMissing \in [Collections -> BOOLEAN]
          /\ listed \in [Collections -> 0 .. clock] /\ next \in [Collections -> 0 .. clock]
      BY <2>4 DEF Init, Idle
    <3>4. /\ clock \in 1 .. MaxClock /\ live \subseteq Collections /\ start \in Windows
          /\ pc = "idle" /\ todo = {} /\ found = {} /\ keep = {} /\ col = NoCollection /\ at = 0 /\ pend = {}
          /\ error = "none" /\ gone = {} /\ codec = 0 /\ published = FALSE /\ faults \in 0 .. MaxFaults
          /\ at \in 0 .. clock
      BY <2>4 DEF Init
    <3> QED
      BY <2>2, <2>3, <2>5, <2>6, <3>1, <3>2, <3>3, <3>4 DEF TypeOK, Runs
<1>2. ServerInv /\ Sane(rows)
  BY DEF Init, ServerInv, Sane
<1>3. LoopInv /\ StageInv /\ ListInv /\ KeepInv /\ GoneInv /\ WorkInv
  <2>1. DOMAIN stage = {} /\ Inventoried = {}
    BY DEF Init, Inventoried
  <2>2. StageInv /\ ListInv
    BY <2>1 DEF Init, StageInv, ListInv
  <2> QED
    BY <2>2 DEF Init, LoopInv, KeepInv, GoneInv, WorkInv, Runs
<1>4. NoMissedChange
  BY CalendarConstants DEF Init, NoMissedChange, Idle, NoSync
<1> QED
  BY <1>1, <1>2, <1>3, <1>4 DEF CalendarInv

(* What was staged is discarded, and the database is as it was.            *)
LEMMA FailedStep ==
  ASSUME CalendarInv, NEW why \in {"none", "request", "duplicate", "changed"}, Failed(why),
         faults' \in 0 .. MaxFaults
  PROVE  CalendarInv'
<1>1. Finished /\ UNCHANGED <<serverVars, storeVars, gone>> /\ error' = why
  BY DEF Failed
<1>2. TypeOK'
  <2>1. 0 \in 0 .. clock
    BY CalendarConstants DEF CalendarInv, TypeOK
  <2> QED
    BY <1>1, <2>1, NoRun DEF CalendarInv, TypeOK, Stored, serverVars, storeVars, Runs
<1>3. ServerInv' /\ Sane(rows)' /\ NoMissedChange'
  BY <1>1 DEF CalendarInv, ServerInv, Sane, NoMissedChange, Mirrored, serverVars, storeVars
<1> QED
  BY <1>1, <1>2, <1>3, FinishedRun DEF CalendarInv

-----------------------------------------------------------------------------
(* The server's other clients, and the user's choice of a window.          *)

(* A change has a number above every token and every revision: it concerns *)
(* neither what the mirror has nor what this run has staged.               *)
LEMMA ChangeStep ==
  ASSUME CalendarInv, NEW hs \in SUBSET Hrefs, NEW r, Change(hs, r), r = 0 \/ r = clock + 1,
         \A g, h \in hs : g = h,
         hist' \in [1 .. MaxClock -> Bodies \cup {NoBody}], \A n \in 1 .. clock : hist'[n] = hist[n],
         gone \subseteq gone', gone' \subseteq Hrefs, r = 0 => hs \subseteq gone',
         live' \subseteq Collections, start' \in Windows, pc \in Runs => start' = start
  PROVE  CalendarInv'
<1>1. /\ clock < MaxClock /\ clock' = clock + 1
      /\ changed' = [h \in Hrefs |-> IF h \in hs THEN clock + 1 ELSE changed[h]]
      /\ cur' = [h \in Hrefs |-> IF h \in hs THEN r ELSE cur[h]]
      /\ UNCHANGED <<rows, calMissing, sync, published, bases, ops, codec>>
      /\ UNCHANGED <<pc, found, listed, todo, col, at, pend, stage, keep, work, next, error, faults>>
  BY DEF Change, storeVars, fetchVars
<1>2. /\ clock \in 1 .. MaxClock /\ MaxClock \in Nat /\ clock' \in 1 .. MaxClock
      /\ \A n \in 0 .. clock : n \in 0 .. clock' /\ n \in Nat
      /\ changed \in [Hrefs -> 0 .. clock] /\ cur \in [Hrefs -> 0 .. clock]
  <2>1. /\ clock \in 1 .. MaxClock /\ changed \in [Hrefs -> 0 .. clock] /\ cur \in [Hrefs -> 0 .. clock]
        /\ MaxClock \in Nat
    BY CalendarConstants DEF CalendarInv, TypeOK
  <2>2. clock' \in 1 .. MaxClock /\ \A n \in 0 .. clock : n \in 0 .. clock' /\ n \in Nat
    BY <1>1, <2>1
  <2> QED
    BY <2>1, <2>2
<1>3. TypeOK'
  <2>1. cur' \in [Hrefs -> 0 .. clock'] /\ changed' \in [Hrefs -> 0 .. clock']
    BY <1>1, <1>2
  <2>2. /\ sync' \in [Collections -> [token : 0 .. clock', window : Windows]]
        /\ listed' \in [Collections -> 0 .. clock'] /\ next' \in [Collections -> 0 .. clock']
        /\ at' \in 0 .. clock'
    <3>1. sync \in [Collections -> [token : 0 .. clock', window : Windows]]
      <4>1. \A s \in [token : 0 .. clock, window : Windows] : s \in [token : 0 .. clock', window : Windows]
        BY <1>2
      <4> QED
        BY <4>1 DEF CalendarInv, TypeOK
    <3> QED
      BY <1>1, <1>2, <3>1 DEF CalendarInv, TypeOK
  <2> QED
    BY <1>1, <1>2, <2>1, <2>2 DEF CalendarInv, TypeOK, Stored
<1>4. /\ \A h \in Hrefs : changed[h] \in Nat /\ changed'[h] \in Nat /\ changed[h] <= changed'[h]
      /\ \A h \in Hrefs \ hs : changed'[h] = changed[h] /\ cur'[h] = cur[h]
      /\ \A h \in hs : changed'[h] = clock + 1 /\ cur'[h] = r
  BY <1>1, <1>2
<1>5. ServerInv'
  <2>1. \A h \in Hrefs : cur'[h] # 0 => cur'[h] = changed'[h]
    BY <1>4 DEF CalendarInv, ServerInv
  <2>2. \A h \in Hrefs : changed'[h] # 1
    BY <1>2, <1>4 DEF CalendarInv, ServerInv
  <2>3. \A h \in Hrefs \ hs : changed'[h] # clock + 1
    BY <1>2, <1>4
  <2>4. ASSUME NEW g \in Hrefs, NEW h \in Hrefs, changed'[g] # 0, changed'[g] = changed'[h] PROVE g = h
    BY <1>4, <2>3, <2>4 DEF CalendarInv, ServerInv
  <2> QED
    BY <2>1, <2>2, <2>4 DEF ServerInv
<1>7. ASSUME NEW t \in Tables, Sane(t), NEW h \in Hrefs, t[h] # NoRow
      PROVE  changed'[h] # 0 /\ t[h].etag <= t[h].body /\ t[h].body <= changed'[h]
  BY <1>2, <1>4, <1>7, TableFacts DEF Sane
<1>8. Sane(rows)'
  BY <1>1, <1>7 DEF CalendarInv, TypeOK, Sane
<1>9. LoopInv'
  BY <1>1 DEF CalendarInv, LoopInv
<1>10. Inventoried' = Inventoried /\ Staged' = Staged /\ DOMAIN stage' = DOMAIN stage
  BY <1>1 DEF Inventoried, Staged
<1>11. stage \in Seq(StageAction) /\ \A i \in DOMAIN stage : stage[i] \in StageAction
  BY DEF CalendarInv, TypeOK
<1>12. StageInv'
  <2>1. \A e \in pend : e.href \in Hrefs /\ e.etag \in Nat /\ e.etag <= changed[e.href]
    BY DEF CalendarInv, TypeOK, StageInv, Listed
  <2>2. \A e \in pend : e.etag <= changed'[e.href]
    BY <1>4, <2>1
  <2>3. \A i \in DOMAIN stage : stage[i].action = "downloaded" => stage[i].body <= changed'[stage[i].href]
    <3> TAKE i \in DOMAIN stage
    <3>1. stage[i].href \in Hrefs /\ stage[i].body \in Nat
      BY <1>11, CalendarConstants DEF StageAction
    <3> QED
      BY <1>4, <3>1 DEF CalendarInv, StageInv
  <2> QED
    BY <1>1, <1>10, <2>2, <2>3 DEF CalendarInv, StageInv
<1>13. \A h \in Hrefs : h \notin hs =>
         (cur'[h] # 0 => cur'[h] = cur[h] /\ hist'[cur'[h]] = hist[cur[h]]) /\ (cur'[h] = 0 <=> cur[h] = 0)
  BY <1>2, <1>4
<1>14. ListInv'
  <2> SUFFICES ASSUME NEW c \in Inventoried, NEW h \in Members(c)
               PROVE  /\ start' = 0 => h \in gone' \/ h \in Staged \/ \E e \in pend : e.href = h
                      /\ Token(c)' # 0 /\ changed'[h] <= Token(c)' => Fetched(h)'
    BY <1>1, <1>10 DEF ListInv, Members
  <2>1. pc \in Runs
    BY DEF Inventoried, CalendarInv, TypeOK
  <2>2. Token(c)' = Token(c) /\ Token(c) \in 0 .. clock /\ h \in Hrefs
    BY <1>1 DEF CalendarInv, TypeOK, Token, Inventoried, Members
  <2>3. ASSUME Token(c) # 0, changed'[h] <= Token(c) PROVE Fetched(h)'
    <3>1. h \notin hs
      BY <1>2, <1>4, <2>2, <2>3
    <3>2. Fetched(h)
      BY <1>4, <2>2, <2>3, <3>1 DEF CalendarInv, ListInv
    <3> QED
      BY <1>1, <1>10, <1>13, <2>1, <2>2, <3>1, <3>2 DEF Fetched
  <2> QED
    BY <2>1, <2>2, <2>3 DEF CalendarInv, ListInv
<1>15. KeepInv'
  <2> SUFFICES ASSUME NEW c \in keep
               PROVE  /\ SyncUsable(c)'
                      /\ \A h \in Members(c) :
                           /\ changed'[h] <= next[c] => changed'[h] <= sync[c].token
                           /\ start' = 0 /\ rows[h] # NoRow /\ ~rows[h].missing /\ rows[h].excluded =>
                                h \in gone'
    BY <1>1 DEF KeepInv, Members
  <2>1. pc \in Runs /\ c \in Collections
    BY DEF CalendarInv, TypeOK
  <2>2. next[c] \in 0 .. clock
    BY <2>1 DEF CalendarInv, TypeOK
  <2>3. SyncUsable(c)'
    BY <1>1, <2>1 DEF CalendarInv, KeepInv, SyncUsable
  <2>4. ASSUME NEW h \in Members(c)
        PROVE  /\ changed'[h] <= next[c] => changed'[h] <= sync[c].token
               /\ start' = 0 /\ rows[h] # NoRow /\ ~rows[h].missing /\ rows[h].excluded => h \in gone'
    <3>1. h \in Hrefs
      BY DEF Members
    <3>2. changed'[h] <= next[c] => changed'[h] = changed[h]
      BY <1>2, <1>4, <2>2, <3>1
    <3> QED
      BY <2>1, <3>2 DEF CalendarInv, KeepInv
  <2> QED
    BY <2>3, <2>4
<1>16. GoneInv'
  BY <1>1, <1>4 DEF CalendarInv, GoneInv
<1>17. WorkInv'
  <2>1. pc = "commit" => Sane(work.rows)'
    <3>1. pc = "commit" => work.rows \in Tables /\ Sane(work.rows)
      BY DEF CalendarInv, TypeOK, WorkInv
    <3> QED
      BY <1>1, <1>7, <3>1 DEF Sane
  <2>2. Kept' = Kept /\ Stored' = Stored
    BY <1>1 DEF Kept, Stored
  <2>3. \A h : \A n : Survives(h, n)' <=> Survives(h, n)
    BY <1>1 DEF Survives
  <2> QED
    BY <1>1, <2>1, <2>2, <2>3 DEF CalendarInv, WorkInv
<1>18. NoMissedChange'
  <2> SUFFICES ASSUME NEW h \in Hrefs, sync[Home[h]].token # 0, changed'[h] <= sync[Home[h]].token
               PROVE  Mirrored(h, sync[Home[h]].window)'
    BY <1>1 DEF NoMissedChange
  <2>1. sync[Home[h]].token \in 0 .. clock
    BY CalendarConstants DEF CalendarInv, TypeOK
  <2>2. h \notin hs
    BY <1>2, <1>4, <2>1
  <2>3. Mirrored(h, sync[Home[h]].window)
    BY <1>4, <2>2 DEF CalendarInv, NoMissedChange
  <2> QED
    BY <1>1, <1>13, <2>2, <2>3 DEF Mirrored
<1> QED
  BY <1>3, <1>5, <1>8, <1>9, <1>12, <1>14, <1>15, <1>16, <1>17, <1>18 DEF CalendarInv

(* Every change on the server, and of the window between two runs.         *)
LEMMA ServerStep == CalendarInv /\ Server => CalendarInv'
<1> SUFFICES ASSUME CalendarInv, Server PROVE CalendarInv'
  OBVIOUS
<1>0. /\ clock \in 1 .. MaxClock /\ MaxClock \in Nat /\ gone \subseteq Hrefs /\ start \in Windows
      /\ live \subseteq Collections /\ hist \in [1 .. MaxClock -> Bodies \cup {NoBody}]
  BY CalendarConstants DEF CalendarInv, TypeOK
<1>1. ASSUME NEW h \in Hrefs, ServerDelete(h) PROVE CalendarInv'
  <2>1. /\ Change({h}, 0) /\ gone' = gone \cup {h} /\ UNCHANGED <<live, hist, start>>
    BY <1>1 DEF ServerDelete
  <2> QED
    BY <1>0, <2>1, ChangeStep
<1>2. ASSUME NEW h \in Hrefs, NEW body \in Bodies, ServerPut(h, body) PROVE CalendarInv'
  <2>1. /\ Change({h}, clock + 1) /\ hist' = [hist EXCEPT ![clock + 1] = body] /\ UNCHANGED <<live, start,
                                                                                              gone>>
        /\ clock < MaxClock
    BY <1>2 DEF ServerPut, Change
  <2>2. /\ hist' \in [1 .. MaxClock -> Bodies \cup {NoBody}] /\ \A n \in 1 .. clock : hist'[n] = hist[n]
        /\ clock + 1 # 0
    BY <1>0, <2>1
  <2> QED
    BY <1>0, <2>1, <2>2, ChangeStep
<1>3. ASSUME NEW c \in Hideable, NEW shown \in BOOLEAN, CalendarShown(c, shown) PROVE CalendarInv'
  <2>1. /\ live' = (IF shown THEN live \cup {c} ELSE live \ {c}) /\ Change({}, 0)
        /\ gone' = gone \cup Members(c) /\ UNCHANGED <<hist, start>>
    BY <1>3 DEF CalendarShown
  <2>2. live' \subseteq Collections /\ gone' \subseteq Hrefs
    BY <1>0, <2>1, CalendarConstants DEF Members
  <2> QED
    BY <1>0, <2>1, <2>2, ChangeStep
<1>4. ASSUME NEW k \in Windows, SetWindow(k) PROVE CalendarInv'
  <2>1. /\ pc = "idle" /\ start' = k /\ Change({}, 0) /\ UNCHANGED <<live, hist, gone>>
    BY <1>4 DEF SetWindow
  <2> QED
    BY <1>0, <2>1, ChangeStep DEF Runs
<1> QED
  BY <1>1, <1>2, <1>3, <1>4 DEF Server

-----------------------------------------------------------------------------
(* Fetching.                                                               *)

(* Nothing a fetch does before its commit changes what the server and the  *)
(* database know of each other.                                            *)
LEMMA QuietStep ==
  ASSUME CalendarInv, UNCHANGED <<serverVars, storeVars>>
  PROVE  /\ ServerInv' /\ Sane(rows)' /\ NoMissedChange'
         /\ UNCHANGED <<clock, live, cur, hist, changed, start, rows, calMissing, sync, published, bases,
                        ops, codec>>
BY DEF CalendarInv, ServerInv, Sane, NoMissedChange, Mirrored, serverVars, storeVars

(* Types, of what the conditions below speak of.                           *)
LEMMA RunTypes ==
  ASSUME CalendarInv
  PROVE  /\ clock \in 1 .. MaxClock /\ MaxClock \in Nat /\ \A n \in 0 .. clock : n \in 0 .. MaxClock
         /\ cur \in [Hrefs -> 0 .. clock] /\ changed \in [Hrefs -> 0 .. clock]
         /\ start \in Nat /\ start \in Windows /\ rows \in Tables
         /\ sync \in [Collections -> [token : 0 .. clock, window : Windows]]
         /\ next \in [Collections -> 0 .. clock] /\ listed \in [Collections -> 0 .. clock]
         /\ found \subseteq Collections /\ todo \subseteq found /\ keep \subseteq found
         /\ Home \in [Hrefs -> Collections] /\ NoCollection \notin Collections
         /\ \A h \in Hrefs : cur[h] # 0 => hist[cur[h]].day \in Nat
         /\ stage \in Seq(StageAction) /\ Len(stage) \in Nat /\ DOMAIN stage = 1 .. Len(stage)
         /\ \A i \in DOMAIN stage : stage[i] \in StageAction
<1>1. /\ clock \in 1 .. MaxClock /\ MaxClock \in Nat /\ hist \in [1 .. MaxClock -> Bodies \cup {NoBody}]
      /\ cur \in [Hrefs -> 0 .. clock] /\ stage \in Seq(StageAction)
  BY CalendarConstants DEF CalendarInv, TypeOK
<1>2. \A h \in Hrefs : cur[h] # 0 => hist[cur[h]].day \in Nat
  <2> SUFFICES ASSUME NEW h \in Hrefs, cur[h] # 0 PROVE hist[cur[h]].day \in Nat
    OBVIOUS
  <2>1. cur[h] \in 1 .. MaxClock
    BY <1>1
  <2>2. hist[cur[h]] \in Bodies \cup {NoBody}
    BY <1>1, <2>1
  <2> QED
    BY <2>2, BodyFacts
<1>3. \A n \in 0 .. clock : n \in 0 .. MaxClock
  BY <1>1
<1>4. Len(stage) \in Nat /\ DOMAIN stage = 1 .. Len(stage) /\ \A i \in DOMAIN stage : stage[i] \in StageAction
  BY <1>1
<1> QED
  BY <1>1, <1>2, <1>3, <1>4, CalendarConstants DEF CalendarInv, TypeOK

(* What an entry of the staging area or of the listing refers to.          *)
LEMMA EntryFacts ==
  /\ \A s \in StageAction : s.href \in Hrefs /\ s.etag \in 1 .. MaxClock /\ s.body \in 0 .. MaxClock
                            /\ s.action \in {"seen", "downloaded"}
  /\ \A e \in Listed : e.href \in Hrefs /\ e.etag \in 1 .. MaxClock
BY DEF StageAction, Listed

(* Discovery: nothing is listed yet.                                       *)
LEMMA DiscoverStep ==
  ASSUME CalendarInv, RCDAVListCollections
  PROVE  CalendarInv'
<1>1. /\ pc = "idle" /\ pc' = "next" /\ found' = live /\ todo' = live /\ error' = "none"
      /\ gone' = {h \in Hrefs : cur[h] = 0}
      /\ UNCHANGED <<serverVars, storeVars, col, at, pend, stage, keep, work, next, faults>>
  BY DEF RCDAVListCollections
<1>2. stage = <<>> /\ pend = {} /\ keep = {} /\ col = NoCollection
  BY <1>1 DEF CalendarInv, TypeOK, LoopInv, Runs
<1>3. listed' \in [Collections -> 0 .. clock]
  <2>1. PICK t \in {0, clock} : listed' = [c \in Collections |-> IF c \in live THEN t ELSE 0]
    BY DEF RCDAVListCollections
  <2> QED
    BY <2>1, RunTypes
<1>4. UNCHANGED <<clock, live, cur, hist, changed, start, rows, calMissing, sync, published, bases, ops,
                  codec>>
  BY <1>1, QuietStep
<1>5. TypeOK'
  BY <1>1, <1>2, <1>3, <1>4 DEF CalendarInv, TypeOK, Stored, Runs
<1>6. DOMAIN stage' = {} /\ Inventoried' = {}
  BY <1>1, <1>2 DEF Inventoried
<1>7. LoopInv' /\ StageInv' /\ ListInv' /\ KeepInv'
  BY <1>1, <1>2, <1>6 DEF LoopInv, StageInv, ListInv, KeepInv
<1>8. GoneInv' /\ WorkInv'
  BY <1>1, <1>4 DEF GoneInv, WorkInv
<1> QED
  BY <1>1, <1>5, <1>7, <1>8, QuietStep DEF CalendarInv

(* An empty report: what the mirror has of the calendar is as the server   *)
(* has it, so what it hides in a run without a window is gone.             *)
LEMMA KeepStep ==
  ASSUME CalendarInv, NEW c \in todo, pc = "next", c \in live, SyncUsable(c),
         \A h \in Members(c) : ~(changed[h] > sync[c].token),
         todo' = todo \ {c}, keep' = keep \cup {c}, next' = [next EXCEPT ![c] = clock],
         UNCHANGED <<serverVars, storeVars, pc, found, listed, col, at, pend, stage, work, error, gone,
                     faults>>
  PROVE  CalendarInv'
<1>1. UNCHANGED <<clock, live, cur, hist, changed, start, rows, calMissing, sync, published, bases, ops,
                  codec>>
  BY QuietStep
<1>2. /\ c \in Collections /\ c \in found /\ c \notin keep /\ col = NoCollection /\ pend = {}
      /\ clock \in 0 .. clock
  BY RunTypes DEF CalendarInv, LoopInv
<1>3. next' \in [Collections -> 0 .. clock]
  BY <1>2, RunTypes
<1>4. TypeOK'
  BY <1>1, <1>2, <1>3 DEF CalendarInv, TypeOK, Stored
<1>5. Inventoried' = Inventoried /\ c \notin Inventoried /\ Inventoried \subseteq Collections
  BY <1>2, RunTypes DEF Inventoried
<1>6. Staged' = Staged
  BY DEF Staged
<1>7. LoopInv' /\ StageInv' /\ GoneInv' /\ WorkInv'
  BY <1>1, <1>2, <1>5, <1>6 DEF CalendarInv, LoopInv, StageInv, GoneInv, WorkInv
<1>8. ListInv'
  <2>1. \A d \in Inventoried : Token(d)' = Token(d)
    BY <1>2, <1>5, RunTypes DEF Token
  <2>2. \A h : Fetched(h)' <=> Fetched(h)
    BY <1>1, <1>6 DEF Fetched
  <2> QED
    BY <1>1, <1>5, <1>6, <2>1, <2>2 DEF CalendarInv, ListInv, Members
<1>9. ASSUME NEW h \in Members(c)
      PROVE  /\ changed[h] <= sync[c].token
             /\ start = 0 /\ rows[h] # NoRow /\ ~rows[h].missing /\ rows[h].excluded => h \in gone
  <2>1. h \in Hrefs /\ Home[h] = c
    BY DEF Members
  <2>2. changed[h] \in Nat /\ sync[c].token \in Nat /\ sync[c].token # 0 /\ sync[c].window = start
    BY <1>2, <2>1, RunTypes DEF SyncUsable
  <2>3. changed[h] <= sync[c].token
    BY <2>2
  <2>4. Mirrored(h, start)
    BY <2>1, <2>2, <2>3 DEF CalendarInv, NoMissedChange
  <2>5. start = 0 /\ cur[h] # 0 => hist[cur[h]].day >= start
    BY <2>1, RunTypes
  <2>6. cur[h] = 0 => h \in gone
    BY <2>1 DEF CalendarInv, GoneInv, Runs
  <2> QED
    BY <2>3, <2>4, <2>5, <2>6 DEF Mirrored
<1>10. KeepInv'
  <2>1. \A d \in keep : d # c /\ next'[d] = next[d]
    BY <1>2, RunTypes
  <2> QED
    BY <1>1, <1>9, <2>1 DEF CalendarInv, KeepInv, SyncUsable, Members
<1> QED
  BY <1>4, <1>7, <1>8, <1>10, QuietStep DEF CalendarInv

(* The inventory of a calendar begins.                                     *)
LEMMA InventoryStep ==
  ASSUME CalendarInv, NEW c \in todo, pc = "next", NEW token \in {clock, listed[c]}, Inventory(c, token),
         UNCHANGED <<serverVars, storeVars, found, listed, pend, stage, error, gone, faults>>
  PROVE  CalendarInv'
<1>1. UNCHANGED <<clock, live, cur, hist, changed, start, rows, calMissing, sync, published, bases, ops,
                  codec>>
  BY QuietStep
<1>2. pc' = "list" /\ col' = c /\ at' = token /\ UNCHANGED <<todo, keep, work, next>>
  BY DEF Inventory
<1>3. c \in Collections /\ c \in found /\ col = NoCollection /\ pend = {} /\ token \in 0 .. clock
  BY RunTypes DEF CalendarInv, LoopInv
<1>4. TypeOK'
  BY <1>1, <1>2, <1>3 DEF CalendarInv, TypeOK, Stored, Runs
<1>5. /\ Inventoried' = Inventoried /\ c \notin Inventoried /\ Inventoried \subseteq Collections
      /\ Staged' = Staged
  BY <1>2, <1>3, RunTypes DEF Inventoried, Staged
<1>6. LoopInv' /\ StageInv' /\ GoneInv' /\ WorkInv' /\ KeepInv'
  BY <1>1, <1>2, <1>3, <1>5 DEF CalendarInv, LoopInv, StageInv, GoneInv, WorkInv, KeepInv, SyncUsable,
     Members, Runs
<1>7. ListInv'
  <2>1. \A d \in Inventoried : Token(d)' = Token(d)
    BY <1>2, <1>3, <1>5, RunTypes DEF Token
  <2>2. \A h : Fetched(h)' <=> Fetched(h)
    BY <1>1, <1>5 DEF Fetched
  <2> QED
    BY <1>1, <1>5, <2>1, <2>2 DEF CalendarInv, ListInv, Members
<1> QED
  BY <1>4, <1>6, <1>7, QuietStep DEF CalendarInv

(* The listing of a calendar: every member it had since the run began is   *)
(* listed, unless it is outside the window.                                *)
LEMMA ListStep ==
  ASSUME CalendarInv, RCDAVListCalendarResourcesSince
  PROVE  CalendarInv'
<1> DEFINE L == {m \in Members(col) : cur[m] # 0 /\ hist[cur[m]].day >= start}
<1>1. /\ pc = "list" /\ pc' = "apply" /\ pend' = {[href |-> h, etag |-> cur[h]] : h \in L}
      /\ UNCHANGED <<serverVars, storeVars, found, listed, todo, col, at, stage, keep, work, next,
                     error, gone, faults>>
  BY DEF RCDAVListCalendarResourcesSince
<1>2. UNCHANGED <<clock, live, cur, hist, changed, start, rows, calMissing, sync, published, bases, ops,
                  codec>>
  BY <1>1, QuietStep
<1>3. col \in todo /\ col \in found /\ col \in Collections /\ col \notin keep /\ pend = {}
  BY <1>1, RunTypes DEF CalendarInv, LoopInv
<1>4. \A h \in L : h \in Hrefs /\ Home[h] = col /\ cur[h] \in 1 .. MaxClock /\ cur[h] = changed[h]
                   /\ changed[h] \in Nat
  BY RunTypes DEF Members, CalendarInv, ServerInv
<1>5. pend' \subseteq Listed
  BY <1>1, <1>4 DEF Listed
<1>6. TypeOK'
  BY <1>1, <1>2, <1>5 DEF CalendarInv, TypeOK, Stored, Runs
<1>7. Inventoried' = Inventoried \cup {col} /\ col \notin Inventoried /\ Staged' = Staged
  BY <1>1, <1>3 DEF Inventoried, Staged
<1>8. LoopInv' /\ GoneInv' /\ WorkInv' /\ KeepInv'
  BY <1>1, <1>2, <1>3 DEF CalendarInv, LoopInv, GoneInv, WorkInv, KeepInv, SyncUsable, Members, Runs
<1>9. \A h \in Staged : Home[h] \in Inventoried
  BY DEF CalendarInv, StageInv, Staged
<1>10. StageInv'
  <2>1. \A e \in pend' : Home[e.href] = col /\ e.href \notin Staged /\ e.etag <= changed[e.href]
    <3> TAKE e \in pend'
    <3>1. PICK h \in L : e = [href |-> h, etag |-> cur[h]]
      BY <1>1
    <3> QED
      BY <1>4, <1>7, <1>9, <3>1
  <2>2. \A d, e \in pend' : d.href = e.href => d = e
    BY <1>1
  <2> QED
    BY <1>1, <1>2, <1>7, <2>1, <2>2 DEF CalendarInv, StageInv
<1>11. ListInv'
  <2> SUFFICES ASSUME NEW c \in Inventoried \cup {col}, NEW h \in Members(c)
               PROVE  /\ start = 0 => h \in gone \/ h \in Staged \/ \E e \in pend' : e.href = h
                      /\ Token(c) # 0 /\ changed[h] <= Token(c) => Fetched(h)'
    BY <1>1, <1>2, <1>7 DEF ListInv, Members, Token
  <2>0. h \in Hrefs /\ Home[h] = c
    BY DEF Members
  <2>1. CASE c \in Inventoried
    <3>1. c # col
      BY <1>7, <2>1
    <3>2. \A e \in pend' : e.href # h
      BY <1>1, <1>4, <2>0, <3>1
    <3>3. start = 0 => h \in gone \/ h \in Staged
      BY <1>3, <2>1 DEF CalendarInv, ListInv
    <3>4. ASSUME Token(c) # 0, changed[h] <= Token(c) PROVE Fetched(h)'
      <4>1. Fetched(h)
        BY <2>1, <3>4 DEF CalendarInv, ListInv
      <4> QED
        BY <1>1, <1>2, <1>3, <1>7, <3>2, <4>1 DEF Fetched
    <3> QED
      BY <3>3, <3>4
  <2>2. CASE c = col
    <3>1. h \notin Staged
      BY <1>7, <1>9, <2>0, <2>2
    <3>2. CASE h \in L
      <4>1. [href |-> h, etag |-> cur[h]] \in pend'
        BY <1>1, <3>2
      <4> QED
        BY <1>2, <3>2, <4>1 DEF Fetched
    <3>3. CASE h \notin L
      <4>1. \A e \in pend' : e.href # h
        BY <1>1, <3>3
      <4>2. cur[h] = 0 \/ ~(hist[cur[h]].day >= start)
        BY <2>2, <3>3
      <4>3. start = 0 => h \in gone
        <5>1. cur[h] # 0 => hist[cur[h]].day \in Nat
          BY <2>0, RunTypes
        <5>2. start = 0 => cur[h] = 0
          BY <4>2, <5>1
        <5> QED
          BY <1>1, <2>0, <5>2 DEF CalendarInv, GoneInv, Runs
      <4> QED
        BY <1>2, <1>7, <3>1, <4>1, <4>2, <4>3 DEF Fetched
    <3> QED
      BY <3>2, <3>3
  <2> QED
    BY <2>1, <2>2
<1> QED
  BY <1>1, <1>6, <1>8, <1>10, <1>11, QuietStep DEF CalendarInv

(* A listed member is staged.                                              *)
LEMMA StagedEntry ==
  ASSUME CalendarInv, pc = "apply", NEW e \in pend, NEW action \in {"seen", "downloaded"},
         NEW etag \in 1 .. MaxClock, NEW body \in 0 .. MaxClock, StageSave(e, action, etag, body),
         action = "seen" => rows[e.href].etag = etag /\ rows[e.href].body # 0,
         action = "downloaded" => etag <= body /\ body <= changed[e.href],
         cur[e.href] # 0 /\ e.etag = cur[e.href] =>
           etag = cur[e.href] /\ (action = "seen" \/ body = cur[e.href])
  PROVE  CalendarInv'
<1> DEFINE x == [action |-> action, href |-> e.href, etag |-> etag, body |-> body]
           n == Len(stage) + 1
<1>1. /\ stage' = Append(stage, x) /\ pend' = pend \ {e}
      /\ UNCHANGED <<serverVars, storeVars, pc, found, listed, todo, col, at, keep, work, next,
                     error, gone, faults>>
  BY DEF StageSave
<1>2. UNCHANGED <<clock, live, cur, hist, changed, start, rows, calMissing, sync, published, bases, ops,
                  codec>>
  BY <1>1, QuietStep
<1>3. /\ e.href \in Hrefs /\ x \in StageAction /\ pend \subseteq Listed
      /\ x.href = e.href /\ x.etag = etag /\ x.body = body /\ x.action = action
  BY EntryFacts DEF CalendarInv, TypeOK, StageAction
<1>4. /\ stage' \in Seq(StageAction) /\ DOMAIN stage' = DOMAIN stage \cup {n} /\ stage'[n] = x
      /\ \A i \in DOMAIN stage : stage'[i] = stage[i] /\ i # n
  <2> HIDE DEF x
  <2> QED
    BY <1>1, <1>3, RunTypes
<1> HIDE DEF x, n
<1>5. TypeOK'
  BY <1>1, <1>2, <1>3, <1>4 DEF CalendarInv, TypeOK, Stored, Runs
<1>6. Inventoried' = Inventoried /\ Staged' = Staged \cup {e.href} /\ e.href \notin Staged
  <2>1. Staged' = Staged \cup {e.href}
    BY <1>3, <1>4 DEF Staged
  <2> QED
    BY <1>1, <2>1 DEF Inventoried, CalendarInv, StageInv
<1>7. LoopInv' /\ GoneInv' /\ WorkInv' /\ KeepInv'
  BY <1>1, <1>2 DEF CalendarInv, LoopInv, GoneInv, WorkInv, KeepInv, SyncUsable, Members, Runs
<1>8. Home[e.href] \in Inventoried
  <2>1. Home[e.href] = col /\ col \in found
    BY RunTypes DEF CalendarInv, StageInv, LoopInv
  <2> QED
    BY <2>1 DEF Inventoried
<1>9. StageInv'
  <2>1. \A d \in pend' : Home[d.href] = col /\ d.href \notin Staged' /\ d.etag <= changed[d.href]
    BY <1>1, <1>6 DEF CalendarInv, StageInv
  <2>2. \A d, g \in pend' : d.href = g.href => d = g
    BY <1>1 DEF CalendarInv, StageInv
  <2>3. \A i \in DOMAIN stage : stage[i].href # e.href
    BY <1>6 DEF Staged
  <2>4. \A i, j \in DOMAIN stage' : stage'[i].href = stage'[j].href => i = j
    BY <1>3, <1>4, <2>3 DEF CalendarInv, StageInv
  <2>5. \A i \in DOMAIN stage' : LET s == stage'[i] IN
          /\ Home[s.href] \in Inventoried
          /\ s.action = "seen" => rows[s.href].etag = s.etag /\ rows[s.href].body # 0
          /\ s.action = "downloaded" => s.etag <= s.body /\ s.body <= changed[s.href]
    BY <1>3, <1>4, <1>8 DEF CalendarInv, StageInv
  <2> QED
    BY <1>1, <1>2, <1>6, <2>1, <2>2, <2>4, <2>5 DEF StageInv
<1>10. ListInv'
  <2> SUFFICES ASSUME NEW c \in Inventoried, NEW h \in Members(c)
               PROVE  /\ start = 0 => h \in gone \/ h \in Staged' \/ \E d \in pend' : d.href = h
                      /\ Token(c) # 0 /\ changed[h] <= Token(c) => Fetched(h)'
    BY <1>1, <1>2, <1>6 DEF ListInv, Members, Token
  <2>1. start = 0 => h \in gone \/ h \in Staged' \/ \E d \in pend' : d.href = h
    BY <1>1, <1>6 DEF CalendarInv, ListInv
  <2>2. ASSUME Token(c) # 0, changed[h] <= Token(c) PROVE Fetched(h)'
    <3>1. Fetched(h)
      BY <2>2 DEF CalendarInv, ListInv
    <3>2. CASE cur[h] # 0 /\ hist[cur[h]].day >= start
      <4>1. CASE \E d \in pend : d.href = h /\ d.etag = cur[h]
        <5>1. PICK d \in pend : d.href = h /\ d.etag = cur[h]
          BY <4>1
        <5>2. CASE d = e
          <6>1. stage'[n].href = h /\ stage'[n].etag = cur[h]
                /\ (stage'[n].action = "seen" \/ stage'[n].body = cur[h])
            BY <1>3, <1>4, <3>2, <5>1, <5>2
          <6> QED
            BY <1>2, <1>4, <3>2, <6>1 DEF Fetched
        <5>3. CASE d # e
          BY <1>1, <1>2, <3>2, <5>1, <5>3 DEF Fetched
        <5> QED
          BY <5>2, <5>3
      <4>2. CASE \E i \in DOMAIN stage : stage[i].href = h /\ stage[i].etag = cur[h]
                     /\ (stage[i].action = "seen" \/ stage[i].body = cur[h])
        BY <1>2, <1>4, <3>2, <4>2 DEF Fetched
      <4> QED
        BY <3>1, <3>2, <4>1, <4>2 DEF Fetched
    <3>3. CASE ~(cur[h] # 0 /\ hist[cur[h]].day >= start)
      BY <1>1, <1>2, <1>6, <3>1, <3>3 DEF Fetched
    <3> QED
      BY <3>2, <3>3
  <2> QED
    BY <2>1, <2>2
<1> QED
  BY <1>1, <1>5, <1>7, <1>9, <1>10, QuietStep DEF CalendarInv

(* A member is staged as it was listed, or with a body that is not older   *)
(* than its tag.                                                           *)
LEMMA StageStep ==
  ASSUME CalendarInv, NEW e \in pend, StageResource(e)
  PROVE  CalendarInv'
<1>1. pc = "apply"
  BY DEF StageResource
<1>2. e.href \in Hrefs /\ e.etag \in 1 .. MaxClock /\ e.etag <= changed[e.href]
  BY EntryFacts DEF CalendarInv, TypeOK, StageInv
<1>3. CASE RCDAVMirrorResourceCurrent(e) /\ StageSave(e, "seen", e.etag, 0)
  <2>1. rows[e.href].etag = e.etag /\ rows[e.href].body # 0 /\ 0 \in 0 .. MaxClock
    BY <1>3, CalendarConstants DEF RCDAVMirrorResourceCurrent
  <2> QED
    BY <1>1, <1>2, <1>3, <2>1, StagedEntry
<1>4. ASSUME cur[e.href] # 0, NEW etag \in {cur[e.href], e.etag},
             StageSave(e, "downloaded", etag, cur[e.href])
      PROVE  CalendarInv'
  <2>1. cur[e.href] \in 1 .. MaxClock /\ cur[e.href] = changed[e.href] /\ MaxClock \in Nat
    BY <1>2, <1>4, RunTypes DEF CalendarInv, ServerInv
  <2>2. etag \in 1 .. MaxClock /\ etag <= cur[e.href] /\ cur[e.href] <= changed[e.href]
        /\ cur[e.href] \in 0 .. MaxClock
    BY <1>2, <2>1
  <2>3. e.etag = cur[e.href] => etag = cur[e.href]
    OBVIOUS
  <2> QED
    BY <1>1, <1>4, <2>2, <2>3, StagedEntry
<1>5. CASE Failed("request") /\ UNCHANGED faults
  BY <1>5, FailedStep DEF CalendarInv, TypeOK
<1> QED
  BY <1>3, <1>4, <1>5 DEF StageResource

(* The calendar is done; its token is that of the listing.                 *)
LEMMA CompleteStep ==
  ASSUME CalendarInv, CollectionComplete
  PROVE  CalendarInv'
<1>1. /\ pc = "apply" /\ pend = {} /\ pc' = "next" /\ todo' = todo \ {col}
      /\ next' = [next EXCEPT ![col] = at] /\ col' = NoCollection /\ at' = 0
      /\ UNCHANGED <<serverVars, storeVars, found, listed, pend, stage, keep, work, error, gone, faults>>
  BY DEF CollectionComplete
<1>2. UNCHANGED <<clock, live, cur, hist, changed, start, rows, calMissing, sync, published, bases, ops,
                  codec>>
  BY <1>1, QuietStep
<1>3. /\ col \in todo /\ col \in found /\ col \in Collections /\ col \notin keep /\ at \in 0 .. clock
      /\ 0 \in 0 .. clock
  BY <1>1, RunTypes DEF CalendarInv, LoopInv, TypeOK
<1>4. /\ next' \in [Collections -> 0 .. clock] /\ next'[col] = at
      /\ \A c \in Collections \ {col} : next'[c] = next[c]
  BY <1>1, <1>3, RunTypes
<1>5. TypeOK'
  BY <1>1, <1>2, <1>3, <1>4 DEF CalendarInv, TypeOK, Stored, Runs
<1>6. Inventoried' = Inventoried /\ Staged' = Staged /\ Inventoried \subseteq Collections
  BY <1>1, <1>3, RunTypes DEF Inventoried, Staged
<1>7. LoopInv' /\ StageInv' /\ GoneInv' /\ WorkInv'
  BY <1>1, <1>2, <1>3, <1>6 DEF CalendarInv, LoopInv, StageInv, GoneInv, WorkInv, Runs
<1>8. KeepInv'
  <2>1. \A c \in keep : next'[c] = next[c]
    BY <1>3, <1>4, RunTypes
  <2> QED
    BY <1>1, <1>2, <2>1 DEF CalendarInv, KeepInv, SyncUsable, Members
<1>9. ListInv'
  <2>1. \A c \in Inventoried : Token(c)' = Token(c)
    BY <1>1, <1>4, <1>6, RunTypes DEF Token
  <2>2. \A h : Fetched(h)' <=> Fetched(h)
    BY <1>1, <1>2, <1>6 DEF Fetched
  <2> QED
    BY <1>1, <1>2, <1>6, <2>1, <2>2 DEF CalendarInv, ListInv, Members
<1> QED
  BY <1>5, <1>1, <1>7, <1>8, <1>9, QuietStep DEF CalendarInv

(* The transaction begins with the rows as they are.                       *)
LEMMA BeginStep ==
  ASSUME CalendarInv, RCCalendarStoreBeginScopedRun
  PROVE  CalendarInv'
<1>1. /\ pc = "next" /\ todo = {} /\ pc' = "commit" /\ work' = [rows |-> rows, seen |-> Kept, applied |-> 0]
      /\ UNCHANGED <<serverVars, storeVars, found, listed, todo, col, at, pend, stage, keep, next,
                     error, gone, faults>>
  BY DEF RCCalendarStoreBeginScopedRun
<1>2. UNCHANGED <<clock, live, cur, hist, changed, start, rows, calMissing, sync, published, bases, ops,
                  codec>>
  BY <1>1, QuietStep
<1>3. work' \in [rows : Tables, seen : SUBSET Hrefs, applied : Nat]
  BY <1>1, RunTypes DEF Kept, Stored
<1>4. TypeOK'
  BY <1>1, <1>2, <1>3 DEF CalendarInv, TypeOK, Stored, Runs
<1>5. Inventoried' = Inventoried /\ Staged' = Staged /\ Kept' = Kept /\ Stored' = Stored
  BY <1>1, <1>2 DEF Inventoried, Staged, Kept, Stored
<1>6. LoopInv' /\ StageInv' /\ GoneInv' /\ KeepInv'
  BY <1>1, <1>2, <1>5 DEF CalendarInv, LoopInv, StageInv, GoneInv, KeepInv, SyncUsable, Members, Runs
<1>7. ListInv'
  BY <1>1, <1>2, <1>5 DEF CalendarInv, ListInv, Members, Token, Fetched
<1>8. WorkInv'
  <2>1. work'.rows = rows /\ work'.seen = Kept /\ work'.applied = 0
    BY <1>1
  <2>2. Sane(work.rows)'
    BY <1>2, <2>1 DEF CalendarInv, Sane
  <2>3. \A h \in Stored : Survives(h, 0)'
    BY <1>2, <2>1 DEF Survives, Stored
  <2>4. /\ work'.applied \in 0 .. Len(stage') /\ {stage'[i].href : i \in 1 .. work'.applied} = {}
        /\ 1 .. work'.applied = {}
    BY <1>1, <2>1, RunTypes
  <2> QED
    BY <1>1, <1>2, <1>5, <2>1, <2>2, <2>3, <2>4 DEF WorkInv
<1> QED
  BY <1>1, <1>4, <1>6, <1>7, <1>8, QuietStep DEF CalendarInv

(* What a run does before its transaction ends, but for the staged actions.*)
LEMMA FetchStep ==
  ASSUME CalendarInv,
         \/ RCDAVListCollections \/ (\E c \in todo : FetchCalendar(c)) \/ RCDAVListCalendarResourcesSince
         \/ CalendarGone \/ (\E e \in pend : StageResource(e)) \/ CollectionComplete
         \/ RCCalendarStoreBeginScopedRun \/ Interrupted
  PROVE  CalendarInv'
<1>1. ASSUME NEW c \in todo, FetchCalendar(c) PROVE CalendarInv'
  <2> DEFINE delta == {h \in Members(c) : changed[h] > sync[c].token}
  <2>1. /\ pc = "next" /\ c \in live
        /\ UNCHANGED <<serverVars, storeVars, found, listed, pend, stage, error, gone, faults>>
    BY <1>1 DEF FetchCalendar
  <2>2. CASE /\ SyncUsable(c) /\ delta = {}
             /\ todo' = todo \ {c} /\ keep' = keep \cup {c} /\ next' = [next EXCEPT ![c] = clock]
             /\ UNCHANGED <<pc, col, at, work>>
    <3>1. \A h \in Members(c) : ~(changed[h] > sync[c].token)
      BY <2>2
    <3> QED
      BY <2>1, <2>2, <3>1, KeepStep
  <2>3. CASE Inventory(c, clock) \/ Inventory(c, listed[c])
    BY <2>1, <2>3, InventoryStep
  <2> QED
    BY <1>1, <2>2, <2>3 DEF FetchCalendar
<1>2. CASE CalendarGone
  BY <1>2, FailedStep DEF CalendarGone, CalendarInv, TypeOK
<1>3. CASE Interrupted
  <2>1. faults' \in 0 .. MaxFaults
    BY <1>3, CalendarConstants DEF Interrupted, CalendarInv, TypeOK
  <2> QED
    BY <1>3, <2>1, FailedStep DEF Interrupted
<1> QED
  BY <1>1, <1>2, <1>3, DiscoverStep, ListStep, StageStep, CompleteStep, BeginStep

-----------------------------------------------------------------------------
(* The transaction.                                                        *)

(* What a run has seen belongs to a calendar that was kept or listed, and  *)
(* never to both.                                                          *)
LEMMA CommitFacts ==
  ASSUME CalendarInv, pc = "commit"
  PROVE  /\ work.rows \in Tables /\ work.seen \subseteq Hrefs /\ work.applied \in 0 .. Len(stage)
         /\ work.seen = Kept \cup {stage[i].href : i \in 1 .. work.applied}
         /\ Sane(work.rows)
         /\ \A h \in Hrefs : h \in Kept => work.rows[h] = rows[h]
         /\ \A h \in Hrefs : h \notin work.seen => work.rows[h] \in {rows[h], NoRow}
         /\ \A i \in 1 .. work.applied : LET s == stage[i]  r == work.rows[s.href] IN
              /\ r # NoRow /\ ~r.missing /\ ~r.excluded /\ r.etag = s.etag
              /\ s.action = "downloaded" => r.body = s.body
         /\ \A h \in Stored : Survives(h, work.applied)
         /\ \A i \in DOMAIN stage : stage[i].href \in Hrefs /\ stage[i].href \notin Kept
         /\ todo = {} /\ pend = {} /\ col = NoCollection
<1>1. /\ work.rows \in Tables /\ work.seen \subseteq Hrefs
      /\ todo = {} /\ pend = {} /\ col = NoCollection
  BY DEF CalendarInv, TypeOK, LoopInv
<1>2. \A i \in DOMAIN stage : stage[i].href \in Hrefs /\ stage[i].href \notin Kept
  <2> TAKE i \in DOMAIN stage
  <2>1. Home[stage[i].href] \in Inventoried /\ stage[i].href \in Hrefs
    BY RunTypes, EntryFacts DEF CalendarInv, StageInv
  <2>2. Home[stage[i].href] \notin keep
    BY <2>1 DEF Inventoried
  <2> QED
    BY <2>1, <2>2 DEF Kept
<1> QED
  BY <1>1, <1>2 DEF CalendarInv, WorkInv

(* An action that was staged is applied to the working table t: its own    *)
(* address gets a row, its own or a renamed one, and no other changes.     *)
LEMMA AppliedStep ==
  ASSUME CalendarInv, pc = "commit", work.applied < Len(stage), NEW s, s = stage[work.applied + 1],
         NEW t \in Tables, Sane(t), Applied(s, t), UNCHANGED faults,
         Saved(work.rows, work.seen, s, t), s.action = "downloaded" => t[s.href].body = s.body
  PROVE  CalendarInv'
<1>0. PICK n : n = work.applied + 1
  OBVIOUS
<1>13. /\ t[s.href] # NoRow /\ ~t[s.href].missing /\ ~t[s.href].excluded /\ t[s.href].etag = s.etag
       /\ work.rows[s.href] # NoRow => t[s.href].id = work.rows[s.href].id
       /\ \A h \in Hrefs \ {s.href} : t[h] # work.rows[h] =>
            /\ t[h] = NoRow /\ h \notin work.seen
            /\ t[s.href].id = work.rows[h].id /\ t[s.href].uid = work.rows[h].uid
  BY DEF Saved
<1>1. /\ work' = [rows |-> t, seen |-> work.seen \cup {s.href}, applied |-> n]
      /\ UNCHANGED <<serverVars, storeVars, pc, found, listed, todo, col, at, pend, stage, keep, next,
                     error, gone, faults>>
  BY <1>0 DEF Applied
<1>2. UNCHANGED <<clock, live, cur, hist, changed, start, rows, calMissing, sync, published, bases, ops,
                  codec>>
  BY <1>1, QuietStep
<1>3. /\ work.applied \in Nat /\ n \in DOMAIN stage /\ n \in 0 .. Len(stage) /\ n \in Nat /\ n # 0
      /\ 1 .. n = (1 .. work.applied) \cup {n} /\ n \notin 1 .. work.applied
      /\ 1 .. work.applied \subseteq DOMAIN stage
  BY <1>0, CommitFacts, RunTypes
<1>4. s \in StageAction /\ s.href \in Hrefs /\ s = stage[n] /\ s.href \notin Kept
  BY <1>0, <1>3, RunTypes, EntryFacts, CommitFacts
<1>5. work'.rows = t /\ work'.seen = work.seen \cup {s.href} /\ work'.applied = n
  BY <1>1
<1>6. work' \in [rows : Tables, seen : SUBSET Hrefs, applied : Nat]
  <2>1. work.seen \cup {s.href} \in SUBSET Hrefs
    BY <1>4, CommitFacts
  <2> QED
    BY <1>1, <1>3, <2>1
<1>7. TypeOK'
  <2>1. pc' = "commit" /\ TypeOK /\ Stored' = Stored
    BY <1>1, <1>2 DEF CalendarInv, Stored
  <2> QED
    BY <1>1, <1>2, <1>6, <2>1 DEF TypeOK, Runs
<1>8. Inventoried' = Inventoried /\ Staged' = Staged /\ Kept' = Kept /\ Stored' = Stored
  BY <1>1, <1>2 DEF Inventoried, Staged, Kept, Stored
<1>9. LoopInv' /\ StageInv' /\ GoneInv' /\ KeepInv'
  BY <1>1, <1>2, <1>8 DEF CalendarInv, LoopInv, StageInv, GoneInv, KeepInv, SyncUsable, Members, Runs
<1>10. ListInv'
  BY <1>1, <1>2, <1>8 DEF CalendarInv, ListInv, Members, Token, Fetched
<1>11. \A i \in 1 .. work.applied : stage[i].href # s.href /\ stage[i].href \in work.seen
                                    /\ stage[i].href \in Hrefs /\ t[stage[i].href] = work.rows[stage[i].href]
  <2> TAKE i \in 1 .. work.applied
  <2>1. i \in DOMAIN stage /\ i # n
    BY <1>3
  <2>2. stage[i].href # s.href
    BY <1>3, <1>4, <2>1 DEF CalendarInv, StageInv
  <2>3. stage[i].href \in work.seen /\ stage[i].href \in Hrefs
    BY <2>1, CommitFacts
  <2> QED
    BY <1>13, <2>2, <2>3
<1>12. WorkInv'
  <2>1. work'.seen = Kept \cup {stage[i].href : i \in 1 .. n}
    BY <1>3, <1>4, <1>5, CommitFacts
  <2>2. Sane(work.rows)'
    BY <1>2, <1>5 DEF Sane
  <2>3. \A h \in Hrefs : h \in Kept => t[h] = rows[h]
    <3> TAKE h \in Hrefs
    <3>1. h \in Kept => h \in work.seen /\ h # s.href /\ work.rows[h] = rows[h]
      BY <1>4, CommitFacts
    <3> QED
      BY <1>13, <3>1
  <2>4. \A h \in Hrefs : h \notin work'.seen => t[h] \in {rows[h], NoRow}
    <3> TAKE h \in Hrefs
    <3>1. h \notin work'.seen => h # s.href /\ work.rows[h] \in {rows[h], NoRow}
      BY <1>5, CommitFacts
    <3> QED
      BY <1>13, <3>1
  <2>5. \A i \in 1 .. n : LET a == stage[i]  r == t[a.href] IN
          /\ r # NoRow /\ ~r.missing /\ ~r.excluded /\ r.etag = a.etag
          /\ a.action = "downloaded" => r.body = a.body
    <3> TAKE i \in 1 .. n
    <3>1. CASE i = n
      BY <1>4, <1>13, <3>1
    <3>2. CASE i \in 1 .. work.applied
      BY <1>11, <3>2, CommitFacts
    <3> QED
      BY <1>3, <3>1, <3>2
  <2>6. ASSUME NEW h \in Stored PROVE Survives(h, n)'
    <3>0. h \in Hrefs /\ rows'[h] = rows[h] /\ Survives(h, work.applied)
      BY <1>2, CommitFacts DEF Stored
    <3>1. CASE work.rows[h] # NoRow /\ work.rows[h].id = rows[h].id
      <4>1. CASE h = s.href \/ t[h] = work.rows[h]
        BY <1>5, <1>13, <3>0, <3>1, <4>1 DEF Survives
      <4>2. CASE h # s.href /\ t[h] # work.rows[h]
        <5>1. h \notin work.seen /\ t[s.href].id = work.rows[h].id /\ t[s.href].uid = work.rows[h].uid
          BY <1>13, <3>0, <4>2
        <5>2. work.rows[h] = rows[h]
          BY <3>0, <3>1, <5>1, CommitFacts
        <5>3. n \in 1 .. n /\ stage'[n] = s
          BY <1>1, <1>3, <1>4
        <5>4. \E i \in 1 .. n : LET g == work'.rows[stage'[i].href] IN
                g # NoRow /\ g.id = rows'[h].id /\ g.uid = rows'[h].uid
          BY <1>5, <1>13, <3>0, <5>1, <5>2, <5>3
        <5> QED
          BY <5>4 DEF Survives
      <4> QED
        BY <4>1, <4>2
    <3>2. CASE \E i \in 1 .. work.applied : LET g == work.rows[stage[i].href] IN
                 g # NoRow /\ g.id = rows[h].id /\ g.uid = rows[h].uid
      <4>1. PICK i \in 1 .. work.applied : LET g == work.rows[stage[i].href] IN
                 g # NoRow /\ g.id = rows[h].id /\ g.uid = rows[h].uid
        BY <3>2
      <4>2. i \in 1 .. n /\ stage'[i] = stage[i] /\ t[stage[i].href] = work.rows[stage[i].href]
        BY <1>1, <1>3, <1>11
      <4>3. \E j \in 1 .. n : LET g == work'.rows[stage'[j].href] IN
              g # NoRow /\ g.id = rows'[h].id /\ g.uid = rows'[h].uid
        BY <1>5, <3>0, <4>1, <4>2
      <4> QED
        BY <4>3 DEF Survives
    <3> QED
      BY <3>0, <3>1, <3>2 DEF Survives
  <2>7. /\ n \in 0 .. Len(stage') /\ stage' = stage
        /\ \A h \in Hrefs : h \in Kept' => work'.rows[h] = rows'[h]
        /\ \A h \in Hrefs : h \notin work'.seen => work'.rows[h] \in {rows'[h], NoRow}
        /\ work'.seen = Kept' \cup {stage'[i].href : i \in 1 .. n}
    BY <1>1, <1>2, <1>3, <1>5, <1>8, <2>1, <2>3, <2>4
  <2>8. \A i \in 1 .. n : LET a == stage'[i]  r == work'.rows[a.href] IN
          /\ r # NoRow /\ ~r.missing /\ ~r.excluded /\ r.etag = a.etag
          /\ a.action = "downloaded" => r.body = a.body
    BY <1>1, <1>5, <2>5
  <2>9. \A h \in Stored' : Survives(h, n)'
    BY <1>8, <2>6
  <2>10. work'.applied = n
    BY <1>5
  <2> QED
    BY <2>2, <2>7, <2>8, <2>9, <2>10 DEF WorkInv
<1> QED
  BY <1>1, <1>7, <1>9, <1>10, <1>12, QuietStep DEF CalendarInv

(* A resource that was as listed is seen again.                            *)
LEMMA SeenStep ==
  ASSUME CalendarInv, pc = "commit", work.applied < Len(stage), NEW s, s = stage[work.applied + 1],
         s.action = "seen", RCCalendarStoreSeen(s), UNCHANGED faults
  PROVE  CalendarInv'
<1>1. work.applied + 1 \in DOMAIN stage /\ s \in StageAction /\ s.href \in Hrefs
  BY CommitFacts, RunTypes, EntryFacts
<1>2. CASE work.rows[s.href].etag = s.etag /\ work.rows[s.href].body # 0
  <2>1. work.rows[s.href] \in Row /\ work.rows \in Tables
    BY <1>1, <1>2, TableFacts, CommitFacts
  <2>2. PICK r : r = [work.rows[s.href] EXCEPT !.missing = FALSE, !.excluded = FALSE]
    OBVIOUS
  <2>3. /\ r \in Row /\ ~r.missing /\ ~r.excluded /\ r.id = work.rows[s.href].id
        /\ r.etag = work.rows[s.href].etag /\ r.body = work.rows[s.href].body /\ r.bad = work.rows[s.href].bad
    BY <2>1, <2>2 DEF Row
  <2>4. PICK t : t = [work.rows EXCEPT ![s.href] = r]
    OBVIOUS
  <2>5. t = [work.rows EXCEPT ![s.href].missing = FALSE, ![s.href].excluded = FALSE]
    BY <1>1, <2>1, <2>2, <2>4 DEF Tables
  <2>6. t \in Tables /\ t[s.href] = r /\ r # NoRow /\ \A h \in Hrefs \ {s.href} : t[h] = work.rows[h]
    BY <1>1, <2>1, <2>3, <2>4, RowFacts DEF Tables
  <2>7. Sane(t)
    <3>1. {g \in Hrefs : t[g] # NoRow} = {g \in Hrefs : work.rows[g] # NoRow}
      BY <2>1, <2>6, RowFacts
    <3>2. Sane(work.rows) /\ work.rows[s.href] # NoRow
      BY <2>1, CommitFacts, RowFacts
    <3>3. \A h \in Hrefs : t[h] # NoRow => /\ work.rows[h] # NoRow /\ t[h].id = work.rows[h].id
             /\ t[h].etag = work.rows[h].etag /\ t[h].body = work.rows[h].body /\ t[h].bad = work.rows[h].bad
      BY <2>3, <2>6, <3>2
    <3> QED
      BY <3>1, <3>2, <3>3 DEF Sane
  <2>8. Applied(s, t)
    BY <1>2, <2>5 DEF RCCalendarStoreSeen
  <2>9. Saved(work.rows, work.seen, s, t)
    BY <1>2, <2>3, <2>6 DEF Saved
  <2> QED
    BY <2>6, <2>7, <2>8, <2>9, AppliedStep
<1>3. CASE Failed("changed")
  BY <1>3, FailedStep DEF CalendarInv, TypeOK
<1> QED
  BY <1>2, <1>3 DEF RCCalendarStoreSeen

(* A downloaded resource is saved: in its own row, in one it had under     *)
(* another address, or in a new one.                                       *)
LEMMA SavedStep ==
  ASSUME CalendarInv, pc = "commit", work.applied < Len(stage), NEW s, s = stage[work.applied + 1],
         s.action = "downloaded", RCCalendarStoreSave(s), UNCHANGED faults
  PROVE  CalendarInv'
<1>1. /\ work.applied + 1 \in DOMAIN stage /\ s.href \in Hrefs
      /\ s.etag \in 1 .. MaxClock /\ s.body \in 0 .. MaxClock
      /\ codec \in {0, 1} /\ TypeOK /\ ServerInv /\ work.rows \in Tables /\ Sane(work.rows)
      /\ changed[s.href] \in Nat
  <2>1. work.applied + 1 \in DOMAIN stage /\ s \in StageAction
    BY CommitFacts, RunTypes
  <2>2. s.href \in Hrefs /\ s.etag \in 1 .. MaxClock /\ s.body \in 0 .. MaxClock
    BY <2>1, EntryFacts
  <2>3. codec \in {0, 1} /\ TypeOK /\ ServerInv
    BY DEF CalendarInv, TypeOK
  <2>4. \A h \in Hrefs : changed[h] \in Nat
    BY RunTypes
  <2> QED
    BY <2>1, <2>2, <2>3, <2>4, CommitFacts
<1>2. s.etag <= s.body /\ s.body <= changed[s.href]
  BY <1>1 DEF CalendarInv, StageInv
<1>3. s.etag \in 0 .. MaxClock /\ s.body \in 1 .. MaxClock /\ changed[s.href] # 0
  BY <1>1, <1>2, CalendarConstants
<1>4. PICK from \in Resource(work.rows, s, codec) :
        IF Duplicate(work.rows, work.seen, s, from) THEN Failed("duplicate")
        ELSE Applied(s, SaveRow(work.rows, from, s, codec))
  BY DEF RCCalendarStoreSave
<1>5. CASE Duplicate(work.rows, work.seen, s, from)
  BY <1>4, <1>5, FailedStep DEF CalendarInv, TypeOK
<1>6. CASE ~Duplicate(work.rows, work.seen, s, from)
  <2>0. PICK w : w = work.rows
    OBVIOUS
  <2>1. PICK seen : seen = work.seen
    OBVIOUS
  <2>2. /\ w \in Tables /\ Sane(w) /\ codec \in {0, 1} /\ TypeOK /\ ServerInv /\ s.href \in Hrefs
        /\ from \in Resource(w, s, codec) /\ ~Duplicate(w, seen, s, from)
    BY <1>1, <1>4, <1>6, <2>0, <2>1
  <2>3. PICK t \in Tables :
          t = SaveRow(w, from, s, codec) /\ Sane(t) /\ Saved(w, seen, s, t) /\ t[s.href].body = s.body
    BY <1>2, <1>3, <2>2, SavedTable
  <2>4. Applied(s, t) /\ Saved(work.rows, work.seen, s, t)
    BY <1>4, <1>6, <2>0, <2>1, <2>3
  <2> QED
    BY <2>3, <2>4, AppliedStep
<1> QED
  BY <1>5, <1>6

(* One staged action after the other.                                      *)
LEMMA CommitStep ==
  ASSUME CalendarInv, commitCalendar
  PROVE  CalendarInv'
<1>1. pc = "commit" /\ work.applied < Len(stage) /\ UNCHANGED faults
  BY DEF commitCalendar
<1>2. PICK s : s = stage[work.applied + 1]
  OBVIOUS
<1>3. \/ s.action = "seen" /\ RCCalendarStoreSeen(s)
      \/ s.action = "downloaded" /\ RCCalendarStoreSave(s)
  BY <1>2 DEF commitCalendar
<1> QED
  BY <1>1, <1>2, <1>3, SeenStep, SavedStep

(* The rows the end of the run leaves.                                     *)
LEMMA FinishedRows ==
  ASSUME CalendarInv, RCCalendarStoreFinishRun
  PROVE  /\ rows' \in Tables
         /\ \A h \in Hrefs : (rows'[h] # NoRow <=> work.rows[h] # NoRow)
         /\ \A h \in Hrefs : work.rows[h] # NoRow =>
              /\ rows'[h].id = work.rows[h].id /\ rows'[h].uid = work.rows[h].uid
              /\ rows'[h].etag = work.rows[h].etag /\ rows'[h].body = work.rows[h].body
              /\ rows'[h].bad = work.rows[h].bad
              /\ start # 0 =>
                   rows'[h].missing = work.rows[h].missing /\ rows'[h].excluded = (h \notin work.seen)
              /\ start = 0 => rows'[h].missing = (h \notin work.seen) /\ rows'[h].excluded = FALSE
<1>1. /\ pc = "commit"
      /\ rows' = [h \in Hrefs |->
           IF work.rows[h] = NoRow THEN NoRow ELSE FinishRow(work.rows[h], h \in work.seen)]
  BY DEF RCCalendarStoreFinishRun
<1>2. work.rows \in Tables
  BY <1>1, CommitFacts
<1>3. ASSUME NEW r \in Row, NEW seen \in BOOLEAN
      PROVE  LET f == FinishRow(r, seen) IN
             /\ f \in Row
             /\ f.id = r.id /\ f.uid = r.uid /\ f.etag = r.etag /\ f.body = r.body /\ f.bad = r.bad
             /\ start # 0 => f.missing = r.missing /\ f.excluded = ~seen
             /\ start = 0 => f.missing = ~seen /\ f.excluded = FALSE
  <2>1. PICK n \in BOOLEAN : n = ~seen
    OBVIOUS
  <2>2. CASE start # 0
    <3>1. FinishRow(r, seen) = [r EXCEPT !.excluded = n]
      BY <2>1, <2>2 DEF FinishRow
    <3> QED
      BY <2>1, <2>2, <3>1 DEF Row
  <2>3. CASE start = 0
    <3>1. FinishRow(r, seen) = [r EXCEPT !.excluded = FALSE, !.missing = n]
      BY <2>1, <2>3 DEF FinishRow
    <3> QED
      BY <2>1, <2>3, <3>1 DEF Row
  <2> QED
    BY <2>2, <2>3
<1>4. ASSUME NEW h \in Hrefs
      PROVE  /\ rows'[h] \in Row \cup {NoRow} /\ (rows'[h] # NoRow <=> work.rows[h] # NoRow)
             /\ work.rows[h] # NoRow =>
                  /\ rows'[h].id = work.rows[h].id /\ rows'[h].uid = work.rows[h].uid
                  /\ rows'[h].etag = work.rows[h].etag /\ rows'[h].body = work.rows[h].body
                  /\ rows'[h].bad = work.rows[h].bad
                  /\ start # 0 =>
                       rows'[h].missing = work.rows[h].missing /\ rows'[h].excluded = (h \notin work.seen)
                  /\ start = 0 => rows'[h].missing = (h \notin work.seen) /\ rows'[h].excluded = FALSE
  <2>1. CASE work.rows[h] = NoRow
    BY <1>1, <2>1
  <2>2. CASE work.rows[h] # NoRow
    <3>1. PICK seen \in BOOLEAN : seen = (h \in work.seen)
      <4>1. (h \in work.seen) \in BOOLEAN
        OBVIOUS
      <4> QED
        BY <4>1, Zenon
    <3>2. PICK r \in Row : r = work.rows[h]
      BY <1>2, <2>2, TableFacts
    <3>3. rows'[h] = FinishRow(r, seen)
      BY <1>1, <2>2, <3>1, <3>2
    <3>4. PICK f : f = FinishRow(r, seen)
      OBVIOUS
    <3>5. /\ f \in Row
          /\ f.id = r.id /\ f.uid = r.uid /\ f.etag = r.etag /\ f.body = r.body /\ f.bad = r.bad
          /\ start # 0 => f.missing = r.missing /\ f.excluded = ~seen
          /\ start = 0 => f.missing = ~seen /\ f.excluded = FALSE
      BY <1>3, <3>4
    <3> QED
      BY <2>2, <3>1, <3>2, <3>3, <3>4, <3>5, RowFacts
  <2> QED
    BY <2>1, <2>2
<1>5. rows' \in Tables
  BY <1>1, <1>4 DEF Tables
<1> QED
  BY <1>4, <1>5

(* What a run that ends has seen: what it kept and what it staged.         *)
LEMMA FinishFacts ==
  ASSUME CalendarInv, RCCalendarStoreFinishRun
  PROVE  /\ work.seen = Kept \cup Staged
         /\ \A c \in Collections : c \in found => c \in keep \/ (c \in Inventoried /\ Token(c) = next[c])
         /\ \A h \in Hrefs : Home[h] \in keep => h \notin Staged
<1>1. pc = "commit" /\ work.applied = Len(stage) /\ DOMAIN stage = 1 .. Len(stage)
  BY RunTypes DEF RCCalendarStoreFinishRun
<1>2. todo = {} /\ col = NoCollection /\ work.seen = Kept \cup {stage[i].href : i \in 1 .. work.applied}
  BY <1>1, CommitFacts
<1>3. \A c \in Collections : c \in found => c \in keep \/ (c \in Inventoried /\ Token(c) = next[c])
  BY <1>2, RunTypes DEF Inventoried, Token
<1>4. \A h \in Hrefs : Home[h] \in keep => h \notin Staged
  <2>1. \A h \in Staged : Home[h] \in Inventoried
    BY DEF CalendarInv, StageInv, Staged
  <2> QED
    BY <1>1, <2>1 DEF Inventoried
<1> QED
  BY <1>1, <1>2, <1>3, <1>4 DEF Staged

(* The row of a staged resource is as it was staged.                       *)
LEMMA StagedRow ==
  ASSUME CalendarInv, RCCalendarStoreFinishRun, NEW i \in DOMAIN stage
  PROVE  LET s == stage[i]  r == work.rows[s.href] IN
         /\ s.href \in Hrefs /\ s.href \in work.seen
         /\ r # NoRow /\ ~r.missing /\ ~r.excluded /\ r.etag = s.etag
         /\ s.action = "downloaded" => r.body = s.body
<1>1. pc = "commit" /\ work.applied = Len(stage) /\ i \in 1 .. work.applied
  BY RunTypes DEF RCCalendarStoreFinishRun
<1> QED
  BY <1>1, CommitFacts

(* The commit: what the token of a calendar covers is in the mirror.       *)
LEMMA FinishMirrors ==
  ASSUME CalendarInv, RCCalendarStoreFinishRun, NEW h \in Hrefs, Home[h] \in found,
         next[Home[h]] # 0, changed[h] <= next[Home[h]],
         UNCHANGED <<cur, hist, changed, start>>
  PROVE  Mirrored(h, start)'
<1> DEFINE c == Home[h]
           in == cur[h] # 0 /\ hist[cur[h]].day >= start
<1>1. c \in Collections /\ start \in Nat /\ changed[h] \in Nat /\ cur[h] \in Nat
  BY RunTypes
<1>2. pc = "commit" /\ Sane(work.rows) /\ work.rows \in Tables /\ pend = {}
  BY CommitFacts DEF RCCalendarStoreFinishRun
<1>3. in => cur[h] = changed[h]
  BY DEF CalendarInv, ServerInv
<1>4. CASE c \in keep
  <2>1. SyncUsable(c) /\ changed[h] <= sync[c].token
    BY <1>4 DEF CalendarInv, KeepInv, Members
  <2>2. Mirrored(h, start)
    BY <2>1 DEF CalendarInv, NoMissedChange, SyncUsable
  <2>3. CASE in
    <3>1. /\ rows[h] # NoRow /\ ~rows[h].missing /\ ~rows[h].excluded
          /\ rows[h].etag = cur[h] /\ rows[h].body = cur[h]
      BY <2>2, <2>3 DEF Mirrored
    <3>2. h \in Kept
      BY <1>4, <3>1 DEF Kept, Stored
    <3>3. work.rows[h] = rows[h] /\ h \in work.seen
      BY <1>2, <3>2, CommitFacts
    <3> QED
      BY <1>1, <2>3, <3>1, <3>3, FinishedRows DEF Mirrored
  <2>4. CASE ~in
    <3>1. h \notin Kept
      BY <2>2, <2>4 DEF Mirrored, Kept, Stored
    <3>2. h \notin work.seen
      BY <1>4, <3>1, FinishFacts
    <3> QED
      BY <1>1, <2>4, <3>2, FinishedRows DEF Mirrored
  <2> QED
    BY <2>3, <2>4
<1>5. CASE c \notin keep
  <2>1. c \in Inventoried /\ Token(c) = next[c]
    BY <1>1, <1>5, FinishFacts
  <2>2. Fetched(h)
    BY <2>1 DEF CalendarInv, ListInv, Members
  <2>3. CASE in
    <3>1. PICK i \in DOMAIN stage :
            stage[i].href = h /\ stage[i].etag = cur[h]
            /\ (stage[i].action = "seen" \/ stage[i].body = cur[h])
      BY <1>2, <2>2, <2>3 DEF Fetched
    <3>2. /\ h \in work.seen /\ work.rows[h] # NoRow /\ ~work.rows[h].missing /\ ~work.rows[h].excluded
          /\ work.rows[h].etag = cur[h]
          /\ stage[i].action = "downloaded" => work.rows[h].body = stage[i].body
      BY <3>1, StagedRow
    <3>3. work.rows[h].body = cur[h]
      <4>1. stage[i].action \in {"seen", "downloaded"}
        BY RunTypes, EntryFacts
      <4>2. CASE stage[i].action = "downloaded"
        BY <3>1, <3>2, <4>2
      <4>3. work.rows[h].etag <= work.rows[h].body /\ work.rows[h].body <= changed[h]
        BY <1>2, <3>2 DEF Sane
      <4>4. work.rows[h].body \in Nat
        BY <1>2, TableFacts
      <4> QED
        BY <1>1, <1>3, <2>3, <3>2, <4>3, <4>4
    <3> QED
      BY <1>1, <2>3, <3>2, <3>3, FinishedRows DEF Mirrored
  <2>4. CASE ~in
    <3>1. h \notin Staged /\ h \notin Kept
      BY <1>5, <2>2, <2>4 DEF Fetched, Kept
    <3>2. h \notin work.seen
      BY <3>1, FinishFacts
    <3> QED
      BY <1>1, <2>4, <3>2, FinishedRows DEF Mirrored
  <2> QED
    BY <2>3, <2>4
<1> QED
  BY <1>4, <1>5

(* The end of a run.                                                       *)
LEMMA FinishStep ==
  ASSUME CalendarInv, RCCalendarStoreFinishRun
  PROVE  CalendarInv'
<1>1. /\ pc = "commit"
      /\ calMissing' = [c \in Collections |-> c \notin found]
      /\ sync' = [c \in Collections |-> IF c \in found THEN [token |-> next[c], window |-> start] ELSE NoSync]
      /\ published' = FALSE /\ Finished
      /\ UNCHANGED <<clock, live, cur, hist, changed, start>>
      /\ UNCHANGED <<bases, ops, codec, error, gone, faults>>
  BY DEF RCCalendarStoreFinishRun, serverVars
<1>2. work.rows \in Tables /\ Sane(work.rows)
  BY <1>1, CommitFacts
<1>3. Sane(rows)'
  <2>1. {g \in Hrefs : rows'[g] # NoRow} = {g \in Hrefs : work.rows[g] # NoRow}
    BY FinishedRows
  <2>2. \A h \in Hrefs : rows'[h] # NoRow =>
          /\ work.rows[h] # NoRow /\ rows'[h].id = work.rows[h].id /\ rows'[h].bad = work.rows[h].bad
          /\ rows'[h].etag = work.rows[h].etag /\ rows'[h].body = work.rows[h].body
    BY FinishedRows
  <2>3. \A g, h \in Hrefs : rows'[g] # NoRow /\ rows'[h] # NoRow /\ rows'[g].id = rows'[h].id => g = h
    BY <1>2, <2>2 DEF Sane
  <2>4. \A h \in Hrefs : rows'[h] # NoRow => rows'[h].id <= Cardinality({g \in Hrefs : rows'[g] # NoRow})
    BY <1>2, <2>1, <2>2 DEF Sane
  <2>5. \A h \in Hrefs : rows'[h] # NoRow =>
          /\ changed[h] # 0 /\ rows'[h].etag <= rows'[h].body /\ rows'[h].body <= changed[h]
          /\ rows'[h].bad => rows'[h].body # 0
    BY <1>2, <2>2 DEF Sane
  <2> QED
    BY <1>1, <2>3, <2>4, <2>5 DEF Sane
<1>4. sync' \in [Collections -> [token : 0 .. clock, window : Windows]]
  <2>1. NoSync \in [token : 0 .. clock, window : Windows]
    BY RunTypes, CalendarConstants DEF NoSync
  <2>2. \A c \in Collections :
          [token |-> next[c], window |-> start] \in [token : 0 .. clock, window : Windows]
    BY RunTypes
  <2> QED
    BY <1>1, <2>1, <2>2
<1>5. TypeOK'
  <2>1. \A g, h \in Stored' : rows'[g].id = rows'[h].id => g = h
    BY <1>3 DEF Sane, Stored
  <2>2. calMissing' \in [Collections -> BOOLEAN]
    BY <1>1
  <2>3. 0 \in 0 .. clock /\ TypeOK /\ rows' \in Tables
    BY RunTypes, FinishedRows DEF CalendarInv
  <2>4. listed' \in [Collections -> 0 .. clock] /\ next' \in [Collections -> 0 .. clock]
    BY <1>1, <2>3, NoRun
  <2>5. /\ pc' = "idle" /\ found' = {} /\ keep' = {} /\ todo' = {} /\ pend' = {} /\ stage' = <<>>
        /\ stage' \in Seq(StageAction) /\ col' = NoCollection /\ at' = 0 /\ work' = NoWork
        /\ work' \in [rows : Tables, seen : SUBSET Hrefs, applied : Nat]
    BY <1>1, NoRun
  <2>6. published' \in BOOLEAN /\ sync' \in [Collections -> [token : 0 .. clock', window : Windows]]
    BY <1>1, <1>4
  <2>7. /\ clock' \in 1 .. MaxClock /\ live' \subseteq Collections /\ start' \in Windows
        /\ cur' \in [Hrefs -> 0 .. clock'] /\ changed' \in [Hrefs -> 0 .. clock']
        /\ hist' \in [1 .. MaxClock -> Bodies \cup {NoBody}]
        /\ bases' \in [1 .. MaxClock -> [etag : 0 .. MaxClock, body : 0 .. MaxClock]]
        /\ error' \in {"none", "request", "duplicate", "changed"} /\ gone' \subseteq Hrefs
        /\ codec' \in {0, 1} /\ faults' \in 0 .. MaxFaults /\ clock' = clock
    BY <1>1, <2>3 DEF TypeOK
  <2>8. /\ pc' \in Runs \cup {"idle", "reparse", "closed"}
        /\ todo' \subseteq found' /\ found' \subseteq Collections /\ keep' \subseteq found'
        /\ listed' \in [Collections -> 0 .. clock'] /\ next' \in [Collections -> 0 .. clock']
        /\ col' \in found' \cup {NoCollection} /\ at' \in 0 .. clock' /\ pend' \subseteq Listed
        /\ stage' \in Seq(StageAction)
        /\ work' \in [rows : Tables, seen : SUBSET Hrefs, applied : Nat]
        /\ pc' \notin Runs => stage' = <<>> /\ pend' = {} /\ found' = {}
        /\ pc' # "commit" => work' = NoWork
    BY <2>3, <2>4, <2>5, <2>7
  <2>9. rows' \in Tables
    BY <2>3
  <2> QED
    BY <2>1, <2>2, <2>6, <2>7, <2>8, <2>9 DEF TypeOK
<1>6. ServerInv'
  BY <1>1 DEF CalendarInv, ServerInv
<1>7. NoMissedChange'
  <2> SUFFICES ASSUME NEW h \in Hrefs, sync'[Home[h]].token # 0, changed'[h] <= sync'[Home[h]].token
               PROVE  Mirrored(h, sync[Home[h]].window)'
    BY DEF NoMissedChange
  <2>1. Home[h] \in Collections
    BY RunTypes
  <2>2. Home[h] \in found /\ sync'[Home[h]] = [token |-> next[Home[h]], window |-> start]
    BY <1>1, <2>1 DEF NoSync
  <2>3. Mirrored(h, start)'
    BY <1>1, <2>2, FinishMirrors
  <2> QED
    BY <1>1, <2>2, <2>3 DEF Mirrored
<1> QED
  BY <1>1, <1>3, <1>5, <1>6, <1>7, FinishedRun DEF CalendarInv

-----------------------------------------------------------------------------
(* Between two fetches.                                                    *)

(* What the daemon does to the rows between two runs: whatever is neither  *)
(* missing nor outside the window stays as it is.                          *)
LEMMA LocalRows ==
  ASSUME CalendarInv, pc \notin Runs, pc' \in {"idle", "reparse", "closed"},
         rows' \in Tables, Sane(rows)',
         \A h \in Hrefs : /\ rows'[h] # NoRow <=> rows[h] # NoRow
                          /\ rows'[h].missing = rows[h].missing /\ rows'[h].excluded = rows[h].excluded
                          /\ ~rows[h].excluded =>
                               rows'[h].etag = rows[h].etag /\ rows'[h].body = rows[h].body,
         bases' \in [1 .. MaxClock -> [etag : 0 .. MaxClock, body : 0 .. MaxClock]],
         codec' \in {0, 1}, published' \in BOOLEAN, error' \in {"none", "request", "duplicate", "changed"},
         UNCHANGED <<serverVars, calMissing, sync, found, listed, todo, col, at, pend, stage, keep, work,
                     next,
                     gone, faults>>
  PROVE  CalendarInv'
<1>1. UNCHANGED <<clock, live, cur, hist, changed, start>>
  BY DEF serverVars
<1>2. /\ stage = <<>> /\ pend = {} /\ found = {} /\ keep = {} /\ todo = {} /\ col = NoCollection
      /\ work = NoWork
      /\ pc' \notin Runs /\ pc' \notin {"list", "apply"}
  BY DEF CalendarInv, TypeOK, LoopInv, Runs
<1>3. TypeOK'
  <2>1. \A g, h \in Stored' : rows'[g].id = rows'[h].id => g = h
    BY DEF Sane, Stored
  <2>2. TypeOK
    BY DEF CalendarInv
  <2> QED
    BY <1>1, <1>2, <2>1, <2>2 DEF TypeOK
<1>4. ServerInv'
  BY <1>1 DEF CalendarInv, ServerInv
<1>5. DOMAIN stage' = {} /\ Inventoried' = {}
  BY <1>2 DEF Inventoried
<1>6. LoopInv' /\ StageInv' /\ ListInv' /\ KeepInv' /\ GoneInv' /\ WorkInv'
  BY <1>2, <1>5 DEF LoopInv, StageInv, ListInv, KeepInv, GoneInv, WorkInv, Runs
<1>7. NoMissedChange'
  <2> SUFFICES ASSUME NEW h \in Hrefs, sync[Home[h]].token # 0, changed[h] <= sync[Home[h]].token
               PROVE  Mirrored(h, sync[Home[h]].window)'
    BY <1>1 DEF NoMissedChange
  <2>1. Mirrored(h, sync[Home[h]].window)
    BY DEF CalendarInv, NoMissedChange
  <2> QED
    BY <1>1, <2>1 DEF Mirrored
<1> QED
  BY <1>3, <1>4, <1>6, <1>7 DEF CalendarInv

(* A publication copies the body and the tag of the rows it exports.       *)
LEMMA ExportedRow ==
  ASSUME NEW r \in Row
  PROVE  LET e == ExportRow(r) IN
         /\ e \in Row
         /\ e.id = r.id /\ e.uid = r.uid /\ e.etag = r.etag /\ e.body = r.body /\ e.bad = r.bad
         /\ e.missing = r.missing /\ e.excluded = r.excluded
<1>1. PICK x \in 0 .. MaxClock : x = IF r.bad THEN r.exported ELSE r.body
  BY DEF Row
<1>2. PICK y \in 0 .. MaxClock : y = IF r.bad THEN r.exportETag ELSE r.etag
  BY DEF Row
<1>3. ExportRow(r) = [r EXCEPT !.exported = x, !.exportETag = y]
  BY <1>1, <1>2 DEF ExportRow, Row
<1> QED
  BY <1>3 DEF Row

(* The rows of a publication.                                              *)
LEMMA ExportedRows ==
  ASSUME CalendarInv, RCExchangeCalendars
  PROVE  /\ rows' \in Tables
         /\ \A h \in Hrefs :
              /\ rows'[h] # NoRow <=> rows[h] # NoRow
              /\ rows'[h].id = rows[h].id /\ rows'[h].uid = rows[h].uid /\ rows'[h].etag = rows[h].etag
              /\ rows'[h].body = rows[h].body /\ rows'[h].bad = rows[h].bad
              /\ rows'[h].missing = rows[h].missing /\ rows'[h].excluded = rows[h].excluded
<1>1. rows' = [h \in Hrefs |-> IF Available(h) THEN ExportRow(rows[h]) ELSE rows[h]]
  BY DEF RCExchangeCalendars
<1>2. ASSUME NEW h \in Hrefs
      PROVE  /\ rows'[h] \in Row \cup {NoRow} /\ (rows'[h] # NoRow <=> rows[h] # NoRow)
             /\ rows'[h].id = rows[h].id /\ rows'[h].uid = rows[h].uid /\ rows'[h].etag = rows[h].etag
             /\ rows'[h].body = rows[h].body /\ rows'[h].bad = rows[h].bad
             /\ rows'[h].missing = rows[h].missing /\ rows'[h].excluded = rows[h].excluded
  <2>1. CASE Available(h)
    <3>1. PICK r \in Row : r = rows[h]
      BY <2>1, RunTypes, TableFacts DEF Available
    <3>2. PICK e : e = ExportRow(r)
      OBVIOUS
    <3>3. rows'[h] = e
      BY <1>1, <2>1, <3>1, <3>2
    <3>4. /\ e \in Row
          /\ e.id = r.id /\ e.uid = r.uid /\ e.etag = r.etag /\ e.body = r.body /\ e.bad = r.bad
          /\ e.missing = r.missing /\ e.excluded = r.excluded
      BY <3>2, ExportedRow
    <3> QED
      BY <3>1, <3>3, <3>4, RowFacts
  <2>2. CASE ~Available(h)
    BY <1>1, <2>2, RunTypes, TableFacts
  <2> QED
    BY <2>1, <2>2
<1> QED
  BY <1>1, <1>2 DEF Tables

(* The publication of a generation.                                        *)
LEMMA ExchangeStep ==
  ASSUME CalendarInv, RCExchangeCalendars
  PROVE  CalendarInv'
<1>1. /\ pc = "idle" /\ published' = TRUE
      /\ UNCHANGED <<serverVars, calMissing, sync, ops, codec, fetchVars, error, gone, faults>>
      /\ bases' = [i \in DOMAIN bases |->
           IF \E h \in Hrefs : Available(h) /\ rows[h].id = i /\ rows'[h].exported # 0
           THEN LET h == CHOOSE x \in Hrefs : rows[x].id = i
                IN  [etag |-> rows'[h].exportETag, body |-> rows'[h].exported]
           ELSE NoBase]
  BY DEF RCExchangeCalendars
<1>2. rows' \in Tables /\ rows \in Tables
  BY ExportedRows, RunTypes
<1>3. Sane(rows)'
  <2>1. {g \in Hrefs : rows'[g] # NoRow} = {g \in Hrefs : rows[g] # NoRow} /\ changed' = changed
    BY <1>1, ExportedRows DEF serverVars
  <2> QED
    BY <2>1, ExportedRows DEF CalendarInv, Sane
<1>4. bases' \in [1 .. MaxClock -> [etag : 0 .. MaxClock, body : 0 .. MaxClock]]
  <2>1. \A h \in Hrefs : [etag |-> rows'[h].exportETag, body |-> rows'[h].exported]
                            \in [etag : 0 .. MaxClock, body : 0 .. MaxClock]
    <3> TAKE h \in Hrefs
    <3>1. rows'[h].exportETag \in 0 .. MaxClock /\ rows'[h].exported \in 0 .. MaxClock
      <4>1. rows'[h] \in Row \cup {NoRow} /\ 0 \in 0 .. MaxClock
        BY <1>2, CalendarConstants DEF Tables
      <4> QED
        BY <4>1 DEF Row, NoRow
    <3> QED
      BY <3>1
  <2>2. NoBase \in [etag : 0 .. MaxClock, body : 0 .. MaxClock]
    BY CalendarConstants DEF NoBase
  <2>3. DOMAIN bases = 1 .. MaxClock
    BY DEF CalendarInv, TypeOK
  <2>4. ASSUME NEW i \in 1 .. MaxClock PROVE bases'[i] \in [etag : 0 .. MaxClock, body : 0 .. MaxClock]
    <3>1. CASE \E h \in Hrefs : Available(h) /\ rows[h].id = i /\ rows'[h].exported # 0
      <4>1. PICK w : w = CHOOSE x \in Hrefs : rows[x].id = i
        OBVIOUS
      <4>2. w \in Hrefs
        BY <3>1, <4>1
      <4>3. bases'[i] = [etag |-> rows'[w].exportETag, body |-> rows'[w].exported]
        BY <1>1, <2>3, <3>1, <4>1
      <4> QED
        BY <2>1, <4>2, <4>3
    <3>2. CASE ~\E h \in Hrefs : Available(h) /\ rows[h].id = i /\ rows'[h].exported # 0
      BY <1>1, <2>2, <2>3, <3>2
    <3> QED
      BY <3>1, <3>2
  <2> QED
    BY <1>1, <2>3, <2>4
<1>5. /\ pc' = "idle" /\ UNCHANGED <<found, listed, todo, col, at, pend, stage, keep, work, next>>
      /\ codec' \in {0, 1} /\ error' \in {"none", "request", "duplicate", "changed"}
  BY <1>1 DEF CalendarInv, TypeOK, fetchVars
<1> QED
  BY <1>1, <1>2, <1>3, <1>4, <1>5, ExportedRows, LocalRows DEF Runs

(* The rows that pruning leaves.                                           *)
LEMMA PrunedRows ==
  ASSUME CalendarInv, RCCalendarStorePruneHistory
  PROVE  /\ rows' \in Tables
         /\ \A h \in Hrefs :
              /\ rows'[h] # NoRow <=> rows[h] # NoRow
              /\ rows'[h].id = rows[h].id /\ rows'[h].uid = rows[h].uid
              /\ rows'[h].missing = rows[h].missing /\ rows'[h].excluded = rows[h].excluded
              /\ \/ rows'[h] = rows[h]
                 \/ rows[h].excluded /\ rows'[h].etag = 0 /\ rows'[h].body = 0 /\ rows'[h].bad = FALSE
<1>1. rows' = [h \in Hrefs |->
         IF Prunable(h)
         THEN [rows[h] EXCEPT !.etag = 0, !.body = 0, !.exported = 0, !.exportETag = 0, !.bad = FALSE]
         ELSE rows[h]]
  BY DEF RCCalendarStorePruneHistory
<1>2. ASSUME NEW h \in Hrefs
      PROVE  /\ rows'[h] \in Row \cup {NoRow} /\ (rows'[h] # NoRow <=> rows[h] # NoRow)
             /\ rows'[h].id = rows[h].id /\ rows'[h].uid = rows[h].uid
             /\ rows'[h].missing = rows[h].missing /\ rows'[h].excluded = rows[h].excluded
             /\ \/ rows'[h] = rows[h]
                \/ rows[h].excluded /\ rows'[h].etag = 0 /\ rows'[h].body = 0 /\ rows'[h].bad = FALSE
  <2>1. CASE Prunable(h)
    <3>1. rows[h].excluded
      BY <2>1 DEF Prunable
    <3>2. PICK r \in Row : r = rows[h]
      BY <3>1, RunTypes, TableFacts DEF NoRow
    <3>3. rows'[h] = [r EXCEPT !.etag = 0, !.body = 0, !.exported = 0, !.exportETag = 0, !.bad = FALSE]
      BY <1>1, <2>1, <3>2
    <3>4. 0 \in 0 .. MaxClock
      BY CalendarConstants
    <3>5. /\ rows'[h] \in Row /\ rows'[h].id = r.id /\ rows'[h].uid = r.uid
          /\ rows'[h].missing = r.missing /\ rows'[h].excluded = r.excluded
          /\ rows'[h].etag = 0 /\ rows'[h].body = 0 /\ rows'[h].bad = FALSE
      BY <3>3, <3>4 DEF Row
    <3> QED
      BY <3>1, <3>2, <3>5, RowFacts
  <2>2. CASE ~Prunable(h)
    BY <1>1, <2>2, RunTypes, TableFacts
  <2> QED
    BY <2>1, <2>2
<1> QED
  BY <1>1, <1>2 DEF Tables

(* Pruning takes bodies and write bases of what is outside the window.     *)
LEMMA PruneStep ==
  ASSUME CalendarInv, RCCalendarStorePruneHistory
  PROVE  CalendarInv'
<1>1. /\ pc = "idle"
      /\ UNCHANGED <<serverVars, calMissing, sync, published, ops, codec, fetchVars, error, gone, faults>>
      /\ bases' = [i \in DOMAIN bases |->
           IF \E h \in Hrefs : Prunable(h) /\ rows[h].id = i THEN NoBase ELSE bases[i]]
  BY DEF RCCalendarStorePruneHistory
<1>2. rows' \in Tables /\ rows \in Tables
  BY PrunedRows, RunTypes
<1>3. Sane(rows)'
  <2>1. {g \in Hrefs : rows'[g] # NoRow} = {g \in Hrefs : rows[g] # NoRow} /\ changed' = changed
    BY <1>1, PrunedRows DEF serverVars
  <2>2. \A h \in Hrefs : changed[h] \in Nat
    BY RunTypes
  <2>3. ASSUME NEW h \in Hrefs, rows'[h] # NoRow
        PROVE  /\ changed[h] # 0 /\ rows'[h].etag <= rows'[h].body /\ rows'[h].body <= changed[h]
               /\ rows'[h].bad => rows'[h].body # 0
    <3>1. rows[h] # NoRow
      BY <2>3, PrunedRows
    <3>2. CASE rows'[h] = rows[h]
      BY <3>1, <3>2 DEF CalendarInv, Sane
    <3>3. CASE rows'[h].etag = 0 /\ rows'[h].body = 0 /\ rows'[h].bad = FALSE
      BY <2>2, <3>1, <3>3 DEF CalendarInv, Sane
    <3> QED
      BY <3>2, <3>3, PrunedRows
  <2>4. \A g, h \in Hrefs : rows'[g] # NoRow /\ rows'[h] # NoRow /\ rows'[g].id = rows'[h].id => g = h
    <3>1. \A g, h \in Hrefs : rows[g] # NoRow /\ rows[h] # NoRow /\ rows[g].id = rows[h].id => g = h
      BY DEF CalendarInv, Sane
    <3>2. \A h \in Hrefs : (rows'[h] # NoRow <=> rows[h] # NoRow) /\ rows'[h].id = rows[h].id
      BY PrunedRows
    <3> QED
      BY <3>1, <3>2
  <2>5. \A h \in Hrefs : rows'[h] # NoRow => rows'[h].id <= Cardinality({g \in Hrefs : rows'[g] # NoRow})
    BY <2>1, PrunedRows DEF CalendarInv, Sane
  <2> QED
    BY <2>1, <2>3, <2>4, <2>5 DEF Sane
<1>4. bases' \in [1 .. MaxClock -> [etag : 0 .. MaxClock, body : 0 .. MaxClock]]
  <2>1. NoBase \in [etag : 0 .. MaxClock, body : 0 .. MaxClock]
    BY CalendarConstants DEF NoBase
  <2>2. bases \in [1 .. MaxClock -> [etag : 0 .. MaxClock, body : 0 .. MaxClock]]
    BY DEF CalendarInv, TypeOK
  <2> QED
    BY <1>1, <2>1, <2>2
<1>5. /\ pc' = "idle" /\ UNCHANGED <<found, listed, todo, col, at, pend, stage, keep, work, next>>
      /\ codec' \in {0, 1} /\ error' \in {"none", "request", "duplicate", "changed"} /\ published' \in BOOLEAN
  BY <1>1 DEF CalendarInv, TypeOK, fetchVars
<1> QED
  BY <1>1, <1>2, <1>3, <1>4, <1>5, PrunedRows, LocalRows DEF Runs

(* The retry of a cached parse failure: a row that is shown holds its own  *)
(* UID, so it is either saved in place or refused.                         *)
LEMMA ReparsedRows ==
  ASSUME CalendarInv, RCReparseCachedResources
  PROVE  /\ rows' \in Tables /\ Sane(rows')
         /\ \A h \in Hrefs :
              \/ rows'[h] = rows[h]
              \/ /\ rows'[h] # NoRow /\ rows[h] # NoRow /\ rows'[h].id = rows[h].id
                 /\ rows'[h].etag = rows[h].etag /\ rows'[h].body = rows[h].body
                 /\ rows'[h].missing = rows[h].missing /\ rows'[h].excluded = rows[h].excluded
         /\ pc' \in {"idle", "reparse", "closed"} /\ error' \in {"none", "request", "duplicate", "changed"}
<1>1. /\ rows \in Tables /\ Sane(rows) /\ TypeOK /\ ServerInv /\ codec \in {0, 1} /\ pc = "reparse"
      /\ error \in {"none", "request", "duplicate", "changed"}
  BY RunTypes DEF CalendarInv, TypeOK, RCReparseCachedResources
<1> DEFINE retried == {h \in Hrefs : Available(h) /\ rows[h].bad}
<1>2. CASE /\ UNCHANGED rows
           /\ \/ pc' = "idle" /\ error' = error
              \/ pc' = "closed" /\ error' = "duplicate"
  BY <1>1, <1>2
<1>3. ASSUME NEW h \in retried, NEW s, s = [href |-> h, etag |-> rows[h].etag, body |-> rows[h].body],
             NEW from \in Resource(rows, s, codec), ~Duplicate(rows, {}, s, from),
             rows' = SaveRow(rows, from, s, codec), UNCHANGED <<pc, error>>
      PROVE  /\ rows' \in Tables /\ Sane(rows')
             /\ \A g \in Hrefs :
                  \/ rows'[g] = rows[g]
                  \/ /\ rows'[g] # NoRow /\ rows[g] # NoRow /\ rows'[g].id = rows[g].id
                     /\ rows'[g].etag = rows[g].etag /\ rows'[g].body = rows[g].body
                     /\ rows'[g].missing = rows[g].missing /\ rows'[g].excluded = rows[g].excluded
             /\ pc' \in {"idle", "reparse", "closed"}
             /\ error' \in {"none", "request", "duplicate", "changed"}
  <2>1. /\ h \in Hrefs /\ rows[h] # NoRow /\ ~rows[h].missing /\ ~rows[h].excluded /\ rows[h].bad
        /\ s.href = h /\ s.etag = rows[h].etag /\ s.body = rows[h].body
    BY <1>3 DEF Available
  <2>2. rows[h].etag \in 0 .. MaxClock /\ rows[h].body \in 0 .. MaxClock /\ rows[h].missing \in BOOLEAN
        /\ rows[h].excluded \in BOOLEAN
    BY <1>1, <2>1, TableFacts
  <2>3. s.etag <= s.body /\ s.body <= changed[s.href] /\ s.body # 0
    BY <1>1, <2>1 DEF Sane
  <2>4. s.etag \in 0 .. MaxClock /\ s.body \in 1 .. MaxClock /\ s.href \in Hrefs
    BY <2>1, <2>2, <2>3
  <2>5. from = h
    BY <1>1, <1>3, <2>1, <2>4, ResourceFacts
  <2>6. PICK u \in Tables :
          u = SaveRow(rows, from, s, codec) /\ Sane(u) /\ Saved(rows, {}, s, u) /\ u[s.href].body = s.body
    BY <1>1, <1>3, <2>3, <2>4, SavedTable
  <2>7. \A g \in Hrefs \ {h} : u[g] = rows[g]
    <3> SUFFICES ASSUME NEW g \in Hrefs \ {h}, u[g] # rows[g] PROVE FALSE
      OBVIOUS
    <3>1. rows[g].id = rows[h].id
      BY <2>1, <2>6 DEF Saved
    <3>2. rows[g] # NoRow
      BY <1>1, <2>1, <3>1, TableFacts
    <3> QED
      BY <1>1, <2>1, <3>1, <3>2 DEF Sane
  <2>8. /\ u[h] # NoRow /\ ~u[h].missing /\ ~u[h].excluded /\ u[h].etag = rows[h].etag
        /\ u[h].id = rows[h].id /\ u[h].body = rows[h].body
    BY <2>1, <2>6 DEF Saved
  <2>9. u[h].missing \in BOOLEAN /\ u[h].excluded \in BOOLEAN
    BY <2>1, <2>6, TableFacts
  <2>10. u[h].missing = rows[h].missing /\ u[h].excluded = rows[h].excluded
    BY <2>1, <2>2, <2>8, <2>9
  <2>11. rows' = u
    BY <1>3, <2>6
  <2>12. rows' \in Tables /\ Sane(rows')
    BY <2>6, <2>11
  <2>13. \A g \in Hrefs :
           \/ rows'[g] = rows[g]
           \/ /\ rows'[g] # NoRow /\ rows[g] # NoRow /\ rows'[g].id = rows[g].id
              /\ rows'[g].etag = rows[g].etag /\ rows'[g].body = rows[g].body
              /\ rows'[g].missing = rows[g].missing /\ rows'[g].excluded = rows[g].excluded
    BY <2>1, <2>7, <2>8, <2>10, <2>11
  <2>14. pc' \in {"idle", "reparse", "closed"} /\ error' \in {"none", "request", "duplicate", "changed"}
    BY <1>1, <1>3
  <2> QED
    BY <2>12, <2>13, <2>14
<1> QED
  <2>1. CASE retried = {} /\ pc' = "idle" /\ UNCHANGED <<rows, error>>
    BY <1>2, <2>1
  <2>2. ASSUME NEW h \in retried, NEW s, s = [href |-> h, etag |-> rows[h].etag, body |-> rows[h].body],
               NEW from \in Resource(rows, s, codec),
               IF Duplicate(rows, {}, s, from)
               THEN pc' = "closed" /\ error' = "duplicate" /\ UNCHANGED rows
               ELSE rows' = SaveRow(rows, from, s, codec) /\ UNCHANGED <<pc, error>>
        PROVE  /\ rows' \in Tables /\ Sane(rows')
               /\ \A g \in Hrefs :
                    \/ rows'[g] = rows[g]
                    \/ /\ rows'[g] # NoRow /\ rows[g] # NoRow /\ rows'[g].id = rows[g].id
                       /\ rows'[g].etag = rows[g].etag /\ rows'[g].body = rows[g].body
                       /\ rows'[g].missing = rows[g].missing /\ rows'[g].excluded = rows[g].excluded
               /\ pc' \in {"idle", "reparse", "closed"}
               /\ error' \in {"none", "request", "duplicate", "changed"}
    <3>1. CASE Duplicate(rows, {}, s, from)
      BY <1>2, <2>2, <3>1
    <3>2. CASE ~Duplicate(rows, {}, s, from)
      BY <1>3, <2>2, <3>2
    <3> QED
      BY <3>1, <3>2
  <2>3. \/ retried = {} /\ pc' = "idle" /\ UNCHANGED <<rows, error>>
        \/ \E h \in retried :
             LET s == [href |-> h, etag |-> rows[h].etag, body |-> rows[h].body] IN
             \E from \in Resource(rows, s, codec) :
               IF Duplicate(rows, {}, s, from)
               THEN pc' = "closed" /\ error' = "duplicate" /\ UNCHANGED rows
               ELSE rows' = SaveRow(rows, from, s, codec) /\ UNCHANGED <<pc, error>>
    BY Zenon DEF RCReparseCachedResources
  <2> HIDE DEF retried
  <2> QED
    BY <2>1, <2>2, <2>3, Zenon

(* A step of the retry.                                                    *)
LEMMA ReparseStep ==
  ASSUME CalendarInv, RCReparseCachedResources
  PROVE  CalendarInv'
<1>1. /\ pc = "reparse"
      /\ UNCHANGED <<serverVars, calMissing, sync, published, bases, ops, codec, found, listed, todo, col,
                     at, pend, stage, keep, work, next, gone, faults>>
  BY DEF RCReparseCachedResources
<1>2. Sane(rows)'
  <2>1. changed' = changed
    BY <1>1 DEF serverVars
  <2> QED
    BY <2>1, ReparsedRows DEF Sane
<1>3. /\ bases' \in [1 .. MaxClock -> [etag : 0 .. MaxClock, body : 0 .. MaxClock]]
      /\ codec' \in {0, 1} /\ published' \in BOOLEAN
  BY <1>1 DEF CalendarInv, TypeOK
<1>4. \A h \in Hrefs : /\ rows'[h] # NoRow <=> rows[h] # NoRow
                       /\ rows'[h].missing = rows[h].missing /\ rows'[h].excluded = rows[h].excluded
                       /\ ~rows[h].excluded => rows'[h].etag = rows[h].etag /\ rows'[h].body = rows[h].body
  BY ReparsedRows
<1>5. /\ pc' \in {"idle", "reparse", "closed"} /\ error' \in {"none", "request", "duplicate", "changed"}
      /\ rows' \in Tables
  BY ReparsedRows
<1> QED
  BY <1>1, <1>2, <1>3, <1>4, <1>5, LocalRows DEF Runs

(* The steps between two fetches.                                          *)
LEMMA LocalStep == CalendarInv /\ Local => CalendarInv'
<1> SUFFICES ASSUME CalendarInv, Local PROVE CalendarInv'
  OBVIOUS
<1>1. ASSUME UNCHANGED rows, UNCHANGED serverVars PROVE Sane(rows)'
  BY <1>1 DEF CalendarInv, Sane, serverVars
<1>2. /\ bases \in [1 .. MaxClock -> [etag : 0 .. MaxClock, body : 0 .. MaxClock]] /\ rows \in Tables
      /\ codec \in {0, 1} /\ published \in BOOLEAN /\ error \in {"none", "request", "duplicate", "changed"}
  BY DEF CalendarInv, TypeOK
<1>3. ASSUME RCCalendarStoreOpen PROVE CalendarInv'
  <2>1. /\ pc = "idle" /\ codec' = 1 /\ pc' = "reparse" /\ error' = "none"
        /\ UNCHANGED <<serverVars, rows, calMissing, sync, published, bases, ops, found, listed, todo, col,
                       at, pend, stage, keep, work, next, gone, faults>>
    BY <1>3 DEF RCCalendarStoreOpen
  <2> QED
    BY <1>1, <1>2, <2>1, LocalRows DEF Runs
<1>4. ASSUME Resolve \/ \E h \in Hrefs : Enqueue(h) PROVE CalendarInv'
  <2>1. /\ pc = "idle"
        /\ UNCHANGED <<serverVars, rows, calMissing, sync, published, bases, codec, fetchVars, error, gone,
                       faults>>
    BY <1>4 DEF Resolve, Enqueue
  <2> QED
    BY <1>1, <1>2, <2>1, LocalRows DEF Runs, fetchVars
<1> QED
  BY <1>3, <1>4, ExchangeStep, PruneStep, ReparseStep DEF Local

-----------------------------------------------------------------------------
(* The specification.                                                      *)

(* Every step keeps the invariant.                                         *)
LEMMA CalendarStep == CalendarInv /\ [Next]_vars => CalendarInv'
<1> SUFFICES ASSUME CalendarInv, [Next]_vars PROVE CalendarInv'
  OBVIOUS
<1>1. CASE Server
  BY <1>1, ServerStep
<1>2. CASE Fetch
  BY <1>2, FetchStep, CommitStep, FinishStep DEF Fetch
<1>3. CASE Interrupted
  BY <1>3, FetchStep
<1>4. CASE Local
  BY <1>4, LocalStep
<1>5. CASE UNCHANGED vars
  <2>1. UNCHANGED <<clock, live, cur, hist, changed, start, rows, calMissing, sync, published, bases, ops,
                    codec>>
    BY <1>5 DEF vars, serverVars, storeVars
  <2>2. UNCHANGED <<pc, found, listed, todo, col, at, pend, stage, keep, work, next, error, gone, faults>>
    BY <1>5 DEF vars, fetchVars
  <2>3. TypeOK'
    BY <2>1, <2>2 DEF CalendarInv, TypeOK, Stored
  <2>4. ServerInv' /\ Sane(rows)' /\ NoMissedChange'
    BY <1>5, QuietStep DEF vars
  <2>5. Inventoried' = Inventoried /\ Staged' = Staged /\ Kept' = Kept /\ Stored' = Stored
    BY <2>1, <2>2 DEF Inventoried, Staged, Kept, Stored
  <2>6. LoopInv' /\ StageInv' /\ KeepInv' /\ GoneInv'
    BY <2>1, <2>2, <2>5 DEF CalendarInv, LoopInv, StageInv, KeepInv, GoneInv, SyncUsable, Members
  <2>7. ListInv'
    BY <2>1, <2>2, <2>5 DEF CalendarInv, ListInv, Members, Token, Fetched
  <2>8. WorkInv'
    <3>1. Sane(work.rows)' <=> Sane(work.rows)
      BY <2>1, <2>2 DEF Sane
    <3>2. \A h : \A n : Survives(h, n)' <=> Survives(h, n)
      BY <2>1, <2>2 DEF Survives
    <3> QED
      BY <2>1, <2>2, <2>5, <3>1, <3>2 DEF CalendarInv, WorkInv
  <2> QED
    BY <2>3, <2>4, <2>6, <2>7, <2>8 DEF CalendarInv
<1> QED
  BY <1>1, <1>2, <1>3, <1>4, <1>5 DEF Next

(* What is known of the server, of the fetch (RCCalDAVMirrorFetchSince)    *)
(* and of its transaction holds in every state, also after a failure, a    *)
(* crash or a duplicate.                                                   *)
THEOREM CalendarInvariant == Spec => []CalendarInv
BY CalendarInit, CalendarStep, PTL DEF Spec

(* A row of calendar_resources keeps its shape and its id is assigned once *)
(* (RCCalendarStoreSave), and a run that ended leaves neither a staging    *)
(* database nor a transaction (RCCalendarStoreFinishRun).                  *)
THEOREM CalendarTypes == Spec => []TypeOK
<1>1. CalendarInv => TypeOK
  BY DEF CalendarInv
<1> QED
  BY <1>1, CalendarInvariant, PTL

(* A token that RCDAVSyncStateSave recorded never skips a change of its    *)
(* window: the next incremental fetch keeps a calendar only as the server  *)
(* has it.                                                                 *)
THEOREM NoChangeIsMissed == Spec => []NoMissedChange
<1>1. CalendarInv => NoMissedChange
  BY DEF CalendarInv
<1> QED
  BY <1>1, CalendarInvariant, PTL

(* Only the end of a run, a publication, pruning and a retry change rows.  *)
LEMMA RowsStay ==
  ASSUME CalendarInv, [Next]_vars, ~RCCalendarStoreFinishRun, ~RCExchangeCalendars,
         ~RCCalendarStorePruneHistory, ~RCReparseCachedResources
  PROVE  UNCHANGED rows
<1>1. CASE Server
  <2>1. \E hs, r : Change(hs, r)
    BY <1>1 DEF Server, ServerDelete, ServerPut, CalendarShown, SetWindow
  <2> QED
    BY <2>1 DEF Change, storeVars
<1>2. CASE \/ RCDAVListCollections \/ (\E c \in todo : FetchCalendar(c)) \/ RCDAVListCalendarResourcesSince
           \/ CalendarGone \/ (\E e \in pend : StageResource(e)) \/ CollectionComplete
           \/ RCCalendarStoreBeginScopedRun \/ Interrupted
  BY <1>2 DEF RCDAVListCollections, FetchCalendar, RCDAVListCalendarResourcesSince, CalendarGone,
              StageResource, StageSave, CollectionComplete, RCCalendarStoreBeginScopedRun, Interrupted,
              Failed, storeVars
<1>3. CASE commitCalendar
  <2>1. \E s : RCCalendarStoreSeen(s) \/ RCCalendarStoreSave(s)
    BY <1>3 DEF commitCalendar
  <2>2. (\E s, t : Applied(s, t)) \/ \E why : Failed(why)
    BY <2>1 DEF RCCalendarStoreSeen, RCCalendarStoreSave
  <2> QED
    BY <2>2 DEF Applied, Failed, storeVars
<1>4. CASE RCCalendarStoreOpen \/ Resolve \/ \E h \in Hrefs : Enqueue(h)
  BY <1>4 DEF RCCalendarStoreOpen, Resolve, Enqueue
<1>5. CASE UNCHANGED vars
  BY <1>5 DEF vars, storeVars
<1> QED
  BY <1>1, <1>2, <1>3, <1>4, <1>5 DEF Next, Fetch, Local

(* A resource is taken for deleted only by a run without a window that     *)
(* listed its calendar without it, or found its calendar gone.             *)
LEMMA AbsenceStep ==
  ASSUME CalendarInv, [Next]_vars, NEW h \in Stored, ~rows[h].missing, rows'[h].missing, rows'[h] # NoRow
  PROVE  start = 0 /\ (h \in gone \/ Home[h] \notin found)
<1>1. h \in Hrefs /\ rows[h] # NoRow
  BY DEF Stored
<1>2. rows'[h].missing # rows[h].missing
  BY RunTypes, TableFacts, <1>1
<1>3. RCCalendarStoreFinishRun
  <2>1. ~(UNCHANGED rows)
    BY <1>2
  <2>2. ~RCExchangeCalendars /\ ~RCCalendarStorePruneHistory /\ ~RCReparseCachedResources
    BY <1>1, <1>2, ExportedRows, PrunedRows, ReparsedRows
  <2> QED
    BY <2>1, <2>2, RowsStay
<1>4. /\ pc = "commit" /\ work.applied = Len(stage) /\ work.rows \in Tables /\ pend = {}
      /\ work.seen = Kept \cup Staged /\ work.rows[h] # NoRow
  BY <1>1, <1>3, CommitFacts, FinishFacts, FinishedRows DEF RCCalendarStoreFinishRun
<1>5. h \notin work.seen
  <2>1. CASE h \in Staged
    <3>1. PICK i \in DOMAIN stage : stage[i].href = h
      BY <2>1 DEF Staged
    <3>2. ~work.rows[h].missing /\ h \in work.seen
      BY <1>3, <3>1, StagedRow
    <3> QED
      BY <1>1, <1>3, <1>4, <3>2, RunTypes, FinishedRows
  <2>2. CASE h \in Kept
    <3>1. work.rows[h] = rows[h] /\ h \in work.seen
      BY <1>1, <1>4, <2>2, CommitFacts
    <3> QED
      BY <1>1, <1>3, <1>4, <3>1, RunTypes, FinishedRows
  <2> QED
    BY <1>4, <2>1, <2>2
<1>6. start = 0
  <2>1. work.rows[h] = rows[h]
    BY <1>1, <1>4, <1>5, CommitFacts
  <2> QED
    BY <1>1, <1>2, <1>3, <1>4, <2>1, FinishedRows
<1>7. CASE Home[h] \in found
  <2>1. h \notin Staged /\ h \notin Kept /\ Home[h] \in Collections
    BY <1>1, <1>4, <1>5, RunTypes
  <2>2. CASE Home[h] \in keep
    <3>1. rows[h].excluded
      BY <1>1, <2>1, <2>2 DEF Kept, Stored
    <3> QED
      BY <1>1, <1>6, <2>2, <3>1 DEF CalendarInv, KeepInv, Members
  <2>3. CASE Home[h] \in Inventoried
    BY <1>1, <1>4, <1>6, <2>1, <2>3 DEF CalendarInv, ListInv, Members
  <2> QED
    BY <1>3, <1>7, <2>1, <2>2, <2>3, FinishFacts
<1> QED
  BY <1>6, <1>7

(* RCCalendarStoreFinishRun takes a resource for deleted only at the end   *)
(* of a run without a window that it or its calendar was absent from at    *)
(* some moment.                                                            *)
THEOREM AbsencesAreReal == Spec => AbsenceIsReal
<1>1. CalendarInv /\ [Next]_vars =>
        [\A h \in Stored : ~rows[h].missing /\ rows'[h].missing /\ rows'[h] # NoRow =>
           start = 0 /\ (h \in gone \/ Home[h] \notin found)]_vars
  BY AbsenceStep
<1> QED
  BY <1>1, CalendarInvariant, PTL DEF Spec, AbsenceIsReal

(* A row keeps its address or its UID.                                     *)
LEMMA IdentityStep ==
  ASSUME CalendarInv, [Next]_vars, NEW h \in Stored
  PROVE  \E g \in Hrefs : rows'[g].id = rows[h].id /\ (g = h \/ rows'[g].uid = rows[h].uid)
<1>1. h \in Hrefs /\ rows[h] # NoRow
  BY DEF Stored
<1>2. CASE RCCalendarStoreFinishRun
  <2>1. pc = "commit" /\ work.applied = Len(stage) /\ DOMAIN stage = 1 .. Len(stage)
    BY <1>2, RunTypes DEF RCCalendarStoreFinishRun
  <2>2. Survives(h, Len(stage))
    BY <2>1, CommitFacts
  <2>3. CASE work.rows[h] # NoRow /\ work.rows[h].id = rows[h].id
    BY <1>1, <1>2, <2>3, FinishedRows
  <2>4. CASE \E i \in 1 .. Len(stage) : LET g == work.rows[stage[i].href] IN
               g # NoRow /\ g.id = rows[h].id /\ g.uid = rows[h].uid
    <3>1. PICK i \in DOMAIN stage : LET g == work.rows[stage[i].href] IN
               g # NoRow /\ g.id = rows[h].id /\ g.uid = rows[h].uid
      BY <2>1, <2>4
    <3>2. stage[i].href \in Hrefs
      BY <2>1, CommitFacts
    <3> QED
      BY <1>2, <3>1, <3>2, FinishedRows
  <2> QED
    BY <2>2, <2>3, <2>4 DEF Survives
<1>3. CASE ~RCCalendarStoreFinishRun
  <2>1. rows'[h].id = rows[h].id
    <3>1. CASE RCExchangeCalendars
      BY <1>1, <3>1, ExportedRows
    <3>2. CASE RCCalendarStorePruneHistory
      BY <1>1, <3>2, PrunedRows
    <3>3. CASE RCReparseCachedResources
      BY <1>1, <3>3, ReparsedRows
    <3> QED
      BY <1>3, <3>1, <3>2, <3>3, RowsStay
  <2> QED
    BY <1>1, <2>1
<1> QED
  BY <1>2, <1>3

(* The identity the local stores know an event by survives every run, also *)
(* a rename (RCCalendarStoreSave), RCCalendarStorePruneHistory and the     *)
(* retries of RCReparseCachedResources.                                    *)
THEOREM IdentitiesAreKept == Spec => IdentityKept
<1>1. CalendarInv /\ [Next]_vars =>
        [\A h \in Stored : \E g \in Hrefs :
           /\ rows'[g].id = rows[h].id
           /\ g = h \/ rows'[g].uid = rows[h].uid]_vars
  BY IdentityStep
<1> QED
  BY <1>1, CalendarInvariant, PTL DEF Spec, IdentityKept

-----------------------------------------------------------------------------
(* The series shown for an event (SeriesProjection).                       *)

(* A day the source event occurs on is one of the occurrences of the event *)
(* as rewritten so far.                                                    *)
SeriesInv ==
  /\ progress = "read" =>
       /\ event.rule \cup event.rdates \cup event.exrule \subseteq 0 .. Late
       /\ event.exdates \subseteq SeriesDays /\ event.later \subseteq event.odd
       /\ wanted = (({0} \cup event.rdates \cup event.rule) \ (event.exrule \ event.odd)) \ event.exdates
  /\ progress \in {"kept", "expanded"} =>
       event.rule \subseteq 0 .. Late /\ event.exdates \subseteq SeriesDays /\ wanted = Occurrences
  /\ ShownAsSource

(* Days are bounded, so a set of them has a last one.                      *)
LEMMA LastOfDays ==
  ASSUME NEW N \in Nat, NEW S \in SUBSET (0 .. N), S # {}
  PROVE  /\ Max(S) \in S
         /\ \A y \in S : Max(S) >= y
<1> DEFINE T == {n \in Nat : N - n \in S}
<1>1. T \subseteq Nat /\ T # {}
  <2>1. PICK s \in S : TRUE
    OBVIOUS
  <2>2. s \in 0 .. N
    OBVIOUS
  <2>3. N - s \in Nat /\ N - (N - s) = s
    BY <2>2
  <2> QED
    BY <2>3
<1>2. \E m \in T : \A n \in T : ~(<<n, m>> \in OpToRel(<, Nat))
  BY <1>1, WFMin, NatLessThanWellFounded
<1>3. PICK m \in T : \A n \in T : ~(n < m)
  BY <1>1, <1>2 DEF OpToRel
<1>4. N - m \in S /\ m \in Nat
  OBVIOUS
<1>5. ASSUME NEW y \in S PROVE N - m >= y
  <2>1. y \in Int /\ 0 <= y /\ y <= N
    OBVIOUS
  <2>2. N - y \in T
    BY <2>1
  <2>3. ~(N - y < m)
    BY <1>3, <2>2
  <2> QED
    BY <1>4, <2>1, <2>3
<1>6. \E x \in S : \A y \in S : x >= y
  BY <1>4, <1>5
<1> QED
  BY <1>6 DEF Max

LEMMA SeriesBegins == SeriesInit => SeriesInv
BY DEF SeriesInit, SeriesInv, ShownAsSource

LEMMA ParsedKeeps ==
  ASSUME SeriesInv, Parsed
  PROVE  SeriesInv'
<1>1. /\ progress' = "read"
      /\ event' \in [rule : SUBSET (0 .. Late), finite : BOOLEAN, rdates : SUBSET (1 .. Late),
                exrule : SUBSET (0 .. Late), odd : UpToOne, later : UpToOne, exdates : UpToOne]
      /\ event'.later \subseteq event'.odd
      /\ wanted' = Occurs([event' EXCEPT !.exrule = @ \ event'.odd])
  BY DEF Parsed
<1>2. /\ event'.rule \cup event'.rdates \cup event'.exrule \subseteq 0 .. Late
      /\ event'.exdates \subseteq SeriesDays
  <2>1. 1 .. Late \subseteq 0 .. Late /\ \A s \in UpToOne : s \subseteq SeriesDays
    BY DEF UpToOne
  <2> QED
    BY <1>1, <2>1
<1>3. wanted' = (({0} \cup event'.rdates \cup event'.rule) \ (event'.exrule \ event'.odd)) \ event'.exdates
  BY <1>1 DEF Occurs
<1> QED
  BY <1>1, <1>2, <1>3 DEF SeriesInv, ShownAsSource

(* Writing a series out keeps its occurrences: exclusions after the last   *)
(* included day exclude nothing.                                           *)
LEMMA ExpansionKeeps ==
  ASSUME SeriesInv, RCExpandFiniteRecurrence
  PROVE  SeriesInv'
<1>1. /\ progress = "read" /\ UNCHANGED wanted
      /\ event.rule \cup event.rdates \cup event.exrule \subseteq 0 .. Late
      /\ event.exdates \subseteq SeriesDays /\ event.later \subseteq event.odd
      /\ wanted = (({0} \cup event.rdates \cup event.rule) \ (event.exrule \ event.odd)) \ event.exdates
  BY DEF SeriesInv, RCExpandFiniteRecurrence
<1>2. CASE ~Expanded(event)
  <2>1. event' = event /\ progress' = "kept"
    BY <1>2 DEF RCExpandFiniteRecurrence
  <2>2. wanted = Occurrences
    BY <1>1, <1>2 DEF Expanded, Occurrences
  <2>3. wanted' = Occurrences'
    BY <1>1, <2>1, <2>2 DEF Occurrences
  <2> QED
    BY <1>1, <2>1, <2>3 DEF SeriesInv, ShownAsSource
<1>3. CASE Expanded(event)
  <2> DEFINE N == LastDay(event)
             days == {0} \cup event.rdates \cup event.rule
  <2>1. /\ Expandable(event) /\ progress' = "expanded" /\ event'.rule = 0 .. N
        /\ event'.exdates = event.exdates \cup ((0 .. N) \ Included(event))
    BY <1>3 DEF RCExpandFiniteRecurrence, Envelope
  <2>2. days \in SUBSET SeriesDays /\ Excluding(event) \cap event.odd = {}
    BY <1>1, <2>1, SeriesConstants DEF Expandable, SeriesDays, Late
  <2>3. N \in days /\ \A d \in days : N >= d
    BY <2>2, LastOfDays, SeriesConstants DEF SeriesDays, LastDay
  <2>4. N \in SeriesDays /\ \A d \in days : d \in 0 .. N
    BY <2>2, <2>3, SeriesConstants DEF SeriesDays
  <2>5. Included(event) = days \ (event.exrule \ event.odd)
    <3>1. \A d \in days : d < N \/ d = N
      BY <2>3, <2>4, SeriesConstants DEF SeriesDays
    <3>2. \A d \in days :
            d \in Excluding(event) <=> d \in event.exrule /\ (d < N \/ (d = N /\ d \notin event.later))
      BY DEF Excluding
    <3> HIDE DEF N
    <3>3. \A d \in days : d \in Excluding(event) <=> d \in event.exrule /\ d \notin event.odd
      <4>1. SUFFICES ASSUME NEW d \in days
                     PROVE  d \in Excluding(event) <=> d \in event.exrule /\ d \notin event.odd
        OBVIOUS
      <4>2. d \in Excluding(event) => d \in event.exrule /\ d \notin event.odd
        BY <2>2, <3>2
      <4>3. d \notin event.odd => d \notin event.later
        BY <1>1
      <4> QED
        BY <3>1, <3>2, <4>2, <4>3
    <3> QED
      BY <3>3 DEF Included
  <2> HIDE DEF N
  <2>6. \A d : d \in wanted <=> d \in days /\ d \in Included(event) /\ d \notin event.exdates
    BY <1>1, <2>5
  <2>7. Occurrences' = ({0} \cup (0 .. N)) \ (event.exdates \cup ((0 .. N) \ Included(event)))
    BY <2>1 DEF Occurrences
  <2>8. 0 \in 0 .. N /\ Included(event) \subseteq 0 .. N
    BY <2>4, <2>5
  <2>9. wanted' = Occurrences'
    BY <1>1, <2>5, <2>6, <2>7, <2>8
  <2>10. 0 .. N \subseteq SeriesDays /\ SeriesDays \subseteq 0 .. Late
    BY <2>4, SeriesConstants DEF SeriesDays, Late
  <2> QED
    BY <1>1, <2>1, <2>9, <2>10 DEF SeriesInv, ShownAsSource
<1> QED
  BY <1>2, <1>3

(* Days keep their distance in seconds.                                    *)
LEMMA BaselinesDiffer ==
  ASSUME NEW z, z[0] \in Int, NEW c \in Nat, NEW d \in Nat, Baseline(z, c) = Baseline(z, d)
  PROVE  c = d
<1>1. DayLength \in Nat /\ DayLength > 0
  BY SeriesConstants
<1>2. c * DayLength = d * DayLength
  <2>1. 0 * DayLength - z[0] \in Int /\ c * DayLength \in Int /\ d * DayLength \in Int
    BY <1>1
  <2> QED
    BY <2>1 DEF Baseline, UTC
<1>3. ASSUME NEW i \in Nat, NEW j \in Nat, i < j PROVE i * DayLength < j * DayLength
  BY <1>1, <1>3
<1>4. c * DayLength \in Int /\ d * DayLength \in Int
  BY <1>1
<1>5. ~(c < d) /\ ~(d < c)
  <2>1. CASE c < d
    BY <1>2, <1>3, <1>4, <2>1
  <2>2. CASE d < c
    BY <1>2, <1>3, <1>4, <2>2
  <2> QED
    BY <2>1, <2>2
<1> QED
  BY <1>5

(* The UTC series has an instant for every occurrence: the place of its    *)
(* day in the envelope, or the one it is detached to.                      *)
LEMMA ProjectionKeeps ==
  ASSUME SeriesInv, NEW z \in Zones, NEW n, NEW known, NEW fixed, NEW special,
         ProjectTimezone(z, n, known, fixed, special)
  PROVE  SeriesInv'
<1> DEFINE B(d) == Baseline(z, d)
           U(d) == UTC(z, d)
           last == Max({0} \cup event.rule)
           occ == Occurrences
           moved == {d \in occ : U(d) # B(d)}
<1>1. /\ progress' = "shown" /\ zone' = z /\ UNCHANGED <<event, wanted>> /\ view' = ProjectedSeries(z)
      /\ Late \notin event.rule /\ event.rule \subseteq 0 .. Late /\ wanted = occ
  BY DEF ProjectTimezone, Projectable, SeriesInv
<1>2. {0} \cup event.rule \in SUBSET SeriesDays
  BY <1>1, SeriesConstants DEF SeriesDays, Late
<1>3. last \in SeriesDays /\ \A d \in {0} \cup event.rule : last >= d
  BY <1>2, LastOfDays, SeriesConstants DEF SeriesDays
<1>4. last \in Nat /\ occ \subseteq 0 .. last /\ occ \subseteq SeriesDays /\ 0 .. last \subseteq Nat
  BY <1>2, <1>3, SeriesConstants DEF SeriesDays, Occurrences
<1>5. z[0] \in Int
  BY SeriesConstants DEF Zones, SeriesDays
<1>6. \A c, d \in 0 .. last : B(c) = B(d) => c = d
  BY <1>4, <1>5, BaselinesDiffer
<1> DEFINE base0 == {B(d) : d \in 0 .. last}
           exd == {B(d) : d \in (0 .. last) \ occ}
           det == {<<B(d), U(d)>> : d \in moved}
<1>7. /\ view'.kind = "utc" /\ view'.base = base0 /\ view'.exdates = exd /\ view'.detached = det
  BY <1>1 DEF ProjectedSeries, Envelope
<1> HIDE DEF B, U, last, occ
<1>8. base0 \ exd = {B(d) : d \in occ}
  BY <1>4, <1>6
<1>9. {m[1] : m \in det} = {B(d) : d \in moved} /\ {m[2] : m \in det} = {U(d) : d \in moved}
  <2> HIDE DEF moved
  <2>1. \A m \in det : \E d \in moved : m[1] = B(d) /\ m[2] = U(d)
    OBVIOUS
  <2>2. ASSUME NEW d \in moved PROVE \E m \in det : m[1] = B(d) /\ m[2] = U(d)
    <3>1. <<B(d), U(d)>> \in det
      OBVIOUS
    <3> QED
      BY <3>1
  <2> HIDE DEF det
  <2> QED
    BY <2>1, <2>2
<1>10. (base0 \ (exd \cup {m[1] : m \in det})) \cup {m[2] : m \in det} = {U(d) : d \in occ}
  <2>1. base0 \ (exd \cup {m[1] : m \in det}) = {B(d) : d \in occ \ moved}
    <3>1. moved \subseteq 0 .. last /\ moved \subseteq occ
      BY <1>4
    <3> HIDE DEF moved, det, base0, exd
    <3>2. base0 \ (exd \cup {m[1] : m \in det}) = (base0 \ exd) \ {m[1] : m \in det}
      OBVIOUS
    <3>3. base0 \ (exd \cup {m[1] : m \in det}) = {B(d) : d \in occ} \ {B(d) : d \in moved}
      BY <1>8, <1>9, <3>2
    <3> QED
      BY <1>4, <1>6, <3>1, <3>3
  <2>2. {B(d) : d \in occ \ moved} = {U(d) : d \in occ \ moved}
    OBVIOUS
  <2> QED
    BY <1>9, <2>1, <2>2
<1>11. {m \in det : m[1] \notin base0 \ exd} = {}
  BY <1>8
<1>12. Cardinality(base0 \ exd) = Cardinality(occ) /\ Cardinality(occ) \in Nat
  <2> DEFINE f == [d \in occ |-> B(d)]
  <2>1. f \in Bijection(occ, {B(d) : d \in occ})
    BY <1>4, <1>6 DEF Bijection, Injection, Surjection, IsInjective
  <2>2. IsFiniteSet(occ) /\ Cardinality(occ) \in Nat
    <3>1. 0 \in Int /\ last \in Int /\ occ \in SUBSET (0 .. last)
      BY <1>4
    <3>2. IsFiniteSet(0 .. last)
      BY <3>1, FS_Interval
    <3>3. IsFiniteSet(occ)
      BY <3>1, <3>2, FS_Subset
    <3> QED
      BY <3>3, FS_CardinalityType
  <2> QED
    BY <1>8, <2>1, <2>2, FS_Bijection DEF ExistsBijection
<1>13. Places' = Cardinality(occ)
  <2>1. Places' = Cardinality(base0 \ exd) + Cardinality({m \in det : m[1] \notin base0 \ exd})
    BY <1>7 DEF Places
  <2> HIDE DEF base0, exd, det
  <2>2. Cardinality({m \in det : m[1] \notin base0 \ exd}) = 0
    BY <1>11, FS_EmptySet
  <2> QED
    BY <1>12, <2>1, <2>2
<1>14. Shown(SeriesDays)' = {U(d) : d \in occ}
  BY <1>7, <1>10 DEF Shown
<1>15. {UTC(zone, d)' : d \in (wanted \cap SeriesDays)'} = {U(d) : d \in occ}
  BY <1>1, <1>4 DEF U, UTC
<1> QED
  BY <1>1, <1>7, <1>13, <1>14, <1>15 DEF SeriesInv, ShownAsSource

(* Without a projection the native calendar computes with its own zone on  *)
(* days where it agrees, or with an offset that never changes.             *)
LEMMA NativeDateKeeps ==
  ASSUME SeriesInv, NEW z \in Zones, NEW n, NEW known \in BOOLEAN, NEW fixed \in BOOLEAN,
         fixed => \A d \in SeriesDays : z[d] = z[0],
         Date(z, n, known, fixed)
  PROVE  SeriesInv'
<1>1. /\ progress' = "shown" /\ zone' = z /\ native' = n /\ UNCHANGED <<event, wanted>>
      /\ wanted = Occurrences
      /\ event.rule = {} \/ fixed \/ SameOn(0 .. Horizon, z, n, known)
      /\ view' = IF event.rule = {} \/ ~SameOn(Probes, z, n, known) THEN [kind |-> "offset"]
                 ELSE [kind |-> "zone", compared |-> IF fixed THEN Probes ELSE 0 .. Horizon]
  BY DEF Date, RCCalendarNeedsUTCProjection, SeriesInv
<1>2. Occurrences' = Occurrences /\ wanted' = Occurrences
  BY <1>1 DEF Occurrences
<1>3. CASE event.rule = {} \/ ~SameOn(Probes, z, n, known)
  <2>1. view'.kind = "offset"
    BY <1>1, <1>3
  <2>2. \A d \in Occurrences \cap SeriesDays : z[d] = z[0]
    <3>1. CASE event.rule = {}
      BY <3>1 DEF Occurrences
    <3>2. CASE event.rule # {}
      <4>1. fixed
        BY <1>1, <1>3, <3>2, SeriesConstants DEF SameOn
      <4> QED
        BY <4>1
    <3> QED
      BY <3>1, <3>2
  <2>3. Shown(SeriesDays)' = {d * DayLength - z[0] : d \in Occurrences \cap SeriesDays}
    BY <1>1, <1>2, <2>1 DEF Shown
  <2>4. {UTC(zone, d)' : d \in (wanted \cap SeriesDays)'}
          = {d * DayLength - z[d] : d \in Occurrences \cap SeriesDays}
    BY <1>1, <1>2 DEF UTC
  <2> QED
    BY <1>1, <2>1, <2>2, <2>3, <2>4 DEF SeriesInv, ShownAsSource
<1>4. CASE event.rule # {} /\ SameOn(Probes, z, n, known)
  <2> DEFINE days == IF fixed THEN Probes ELSE 0 .. Horizon
  <2>1. view'.kind = "zone" /\ view'.compared = days
    BY <1>1, <1>4
  <2>2. \A d \in days : n[d] = z[d]
    BY <1>1, <1>4 DEF SameOn
  <2> HIDE DEF days
  <2>3. Shown(days)' = {d * DayLength - n[d] : d \in Occurrences \cap days}
    BY <1>1, <1>2, <2>1 DEF Shown
  <2>4. {UTC(zone, d)' : d \in wanted' \cap days} = {d * DayLength - z[d] : d \in Occurrences \cap days}
    BY <1>1, <1>2 DEF UTC
  <2>5. Shown(days)' = {UTC(zone, d)' : d \in wanted' \cap days}
    BY <2>2, <2>3, <2>4
  <2>6. ShownAsSource'
    BY <2>1, <2>5 DEF ShownAsSource
  <2> QED
    BY <1>1, <2>6 DEF SeriesInv
<1> QED
  BY <1>3, <1>4

LEMMA SeriesStays == SeriesInv /\ [SeriesNext]_seriesVars => SeriesInv'
<1> SUFFICES ASSUME SeriesInv, [SeriesNext]_seriesVars PROVE SeriesInv'
  OBVIOUS
<1>1. CASE UNCHANGED seriesVars
  <2>1. UNCHANGED <<progress, event, wanted, zone, native, view>>
    BY <1>1 DEF seriesVars
  <2>2. Occurrences' = Occurrences /\ Places' = Places
    BY <2>1 DEF Occurrences, Places
  <2>3. \A days : Shown(days)' = Shown(days)
    BY <2>1, <2>2 DEF Shown
  <2>4. ShownAsSource'
    BY <2>1, <2>2, <2>3 DEF SeriesInv, ShownAsSource, UTC
  <2> QED
    BY <2>1, <2>2, <2>4 DEF SeriesInv
<1>2. ASSUME progress' = "refused" PROVE SeriesInv'
  BY <1>2 DEF SeriesInv, ShownAsSource
<1>3. ASSUME NEW z \in Zones, NEW n \in Zones, NEW known \in BOOLEAN, NEW fixed \in BOOLEAN,
             NEW special \in BOOLEAN, fixed => \A d \in SeriesDays : z[d] = z[0],
             \/ ProjectTimezone(z, n, known, fixed, special)
             \/ ProjectionRefused(z, n, known, fixed, special)
             \/ Date(z, n, known, fixed)
      PROVE  SeriesInv'
  <2>1. CASE ProjectTimezone(z, n, known, fixed, special)
    BY <2>1, ProjectionKeeps
  <2>2. CASE ProjectionRefused(z, n, known, fixed, special)
    BY <1>2, <2>2 DEF ProjectionRefused, RefuseSeries
  <2>3. CASE Date(z, n, known, fixed)
    BY <1>3, <2>3, NativeDateKeeps
  <2> QED
    BY <1>3, <2>1, <2>2, <2>3
<1>4. CASE ExpansionRefused
  BY <1>2, <1>4 DEF ExpansionRefused, RefuseSeries
<1> QED
  BY <1>1, <1>3, <1>4, ParsedKeeps, ExpansionKeeps DEF SeriesNext

(* RCExpandFiniteRecurrence keeps the days on which the source event       *)
(* occurs, and they are its days when its dates are computed.              *)
THEOREM SeriesInvariant == SeriesSpec => []SeriesInv
BY SeriesBegins, SeriesStays, PTL DEF SeriesSpec

(* A native calendar shows every occurrence of the source at the instant   *)
(* the resource's zone gives it, once, and no other: for any rule, dates   *)
(* and exclusions, any two zones, and series of any length.                *)
THEOREM SeriesIsShown == SeriesSpec => []ShownAsSource
<1>1. SeriesInv => ShownAsSource
  BY DEF SeriesInv
<1> QED
  BY <1>1, SeriesInvariant, PTL
=============================================================================
