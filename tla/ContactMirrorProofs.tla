------------------------- MODULE ContactMirrorProofs -------------------------
(***************************************************************************)
(* NoMissedChange, AbsenceIsReal and BaseIsHonest hold of the contact      *)
(* mirror, for any address books, members, changes of other clients and    *)
(* faults.                                                                 *)
(*                                                                         *)
(* A revision never returns, so whatever the server changes during a run   *)
(* has a number above every token the run has seen and owes nothing to     *)
(* this run; for everything else the staged outcome agrees with the server *)
(* as soon as its page was applied (CoverInv).  A run that starts from     *)
(* nothing accounts for every member by an action or by an absence it saw  *)
(* (AbsenceInv).  A body is never older than its tag (SaneInv), so a tag   *)
(* that is still current has the current body.                             *)
(*                                                                         *)
(* Last, IdentityKeepsItsRole of the identities of a card's properties: a  *)
(* save copies an identifier only from the row of the same property, a row *)
(* always describes the usable card, and the open savepoint differs from   *)
(* the committed rows in one contact only (IdentityInv).                   *)
(***************************************************************************)
EXTENDS ContactMirror, ContactIdentity, TLAPS

Running == pc # "idle"
Fetching == pc \in {"report", "list", "apply"}

(* The member is on the page being applied. *)
InPend(h) == \E e \in pend : e.href = h

(* The collection of the member is completely staged. *)
Fetched(h) == Running /\ Home[h] \in found \ todo

(* What the commit will make of the member is what the server has. *)
WillAgree(h) ==
  LET w == RCDAVStageApply(h) IN
  IF rev[h] = 0 THEN ~w.seen ELSE w.seen /\ w.row.etag = rev[h] /\ w.row.body = rev[h]

(* A body is at least as new as the tag it is kept with. *)
Sane(row, newest) ==
  /\ row.etag <= row.body /\ row.body <= newest
  /\ row.usableETag <= row.usable /\ row.usable <= newest

SaneInv ==
  \A h \in Hrefs :
    /\ rev[h] \in {0, changed[h]}
    /\ Sane(rows[h], changed[h]) /\ Sane(stage[h].row, changed[h])
    /\ bases[h].etag <= bases[h].body /\ bases[h].body <= changed[h]

(* Where the loop is. *)
LoopInv ==
  /\ Fetching => col \in todo
  /\ ~Fetching => col = NoCollection
  /\ \A h \in Hrefs : stage[h].any \/ stage[h] = NotStaged
  /\ \A h \in Hrefs : Home[h] \in todo /\ Home[h] # col => ~stage[h].any
  /\ pc = "list" => \A h \in Members(col) : ~stage[h].any
  /\ pc = "apply" /\ ~final => at # 0
  /\ pc = "report" /\ at = 0 => ~keep[col] /\ \A h \in Members(col) : ~stage[h].any

(* The page being applied. *)
PageInv ==
  pc = "apply" => \A e \in pend :
    /\ Home[e.href] = col /\ e.etag <= changed[e.href]
    /\ changed[e.href] <= at => e.etag = rev[e.href]
    /\ e.etag = 0 => e.href \in gone

(* What a token accounts for is staged. *)
CoverInv ==
  \A h \in Hrefs :
    /\ Fetched(h) /\ next[Home[h]] # 0 /\ changed[h] <= next[Home[h]] => WillAgree(h)
    /\ pc = "report" /\ Home[h] = col /\ at # 0 /\ changed[h] <= at => WillAgree(h)
    /\ pc = "apply" /\ Home[h] = col /\ at # 0 /\ changed[h] <= at => InPend(h) \/ WillAgree(h)

(* What a run from nothing does not stage was absent at some moment of it. *)
AbsenceInv ==
  \A h \in Hrefs : Running =>
    /\ rev[h] = 0 => h \in gone
    /\ stage[h].any /\ ~stage[h].seen => h \in gone
    /\ Home[h] \in found \ todo /\ ~keep[Home[h]] => stage[h].any \/ h \in gone
    /\ pc = "report" /\ Home[h] = col /\ ~keep[col] => stage[h].any \/ h \in gone \/ changed[h] > at
    /\ pc = "apply" /\ Home[h] = col /\ ~keep[col] =>
         stage[h].any \/ h \in gone \/ InPend(h) \/ (~final /\ changed[h] > at)

MirrorInv == TypeOK /\ SaneInv /\ LoopInv /\ PageInv /\ CoverInv /\ AbsenceInv /\ NoMissedChange

-----------------------------------------------------------------------------
(* Staging. *)

StageActions ==
  [action : {"deleted", "seen", "downloaded"}, etag : Nat, body : Nat, ok : BOOLEAN]

LEMMA SavedResource ==
  ASSUME NEW r \in Row, NEW s \in StageActions
  PROVE  LET n == RCContactStoreSaveResource(r, s) IN
         /\ n \in Row /\ n.etag = s.etag /\ n.body = s.body
         /\ n.usableETag = (IF s.ok THEN s.etag ELSE r.usableETag)
         /\ n.usable = (IF s.ok THEN s.body ELSE r.usable)
  BY DEF RCContactStoreSaveResource, Row, StageActions

LEMMA EmptyStage ==
  NoRow \in Row /\ NotStaged \in Staged /\ NoStage \in [Hrefs -> Staged] /\ ~NotStaged.any
  /\ NotStaged.row = NoRow /\ \A n \in Nat : Sane(NoRow, n)
  BY DEF NoRow, Row, NotStaged, Staged, NoStage, Sane

LEMMA OutcomeTypes ==
  ASSUME TypeOK, NEW h \in Hrefs
  PROVE  /\ Home[h] \in Collections /\ stage[h] \in Staged /\ rows[h] \in Row /\ rev[h] \in Nat
         /\ changed[h] \in Nat /\ changed[h] <= clock /\ rev[h] <= clock /\ clock \in Nat
         /\ RCDAVStageApply(h) \in Staged
         /\ stage[h].any => RCDAVStageApply(h) = stage[h]
         /\ ~stage[h].any => /\ RCDAVStageApply(h).row = rows[h]
                             /\ RCDAVStageApply(h).seen = (keep[Home[h]] /\ ~rows[h].missing)
<1>1. /\ Home[h] \in Collections /\ stage[h] \in Staged /\ rows[h] \in Row /\ keep[Home[h]] \in BOOLEAN
      /\ rows[h].missing \in BOOLEAN
  BY MirrorConstants DEF TypeOK, Row
<1>2. /\ rev[h] \in Nat /\ changed[h] \in Nat /\ changed[h] <= clock /\ rev[h] <= clock /\ clock \in Nat
  BY MirrorConstants DEF TypeOK
<1> QED
  BY <1>1, <1>2 DEF RCDAVStageApply, RCContactStoreKeepCollection, Staged

LEMMA StagedOutcome ==
  ASSUME NEW w \in Staged, NEW s \in StageActions
  PROVE  LET n == [RCCommitContact(w, s) EXCEPT !.any = TRUE] IN
         /\ n \in Staged /\ n.any
         /\ n.row = (IF s.action = "downloaded" THEN RCContactStoreSaveResource(w.row, s) ELSE w.row)
         /\ n.seen = CASE s.action = "deleted" -> FALSE [] s.action = "seen" -> w.row # NoRow
                       [] s.action = "downloaded" -> TRUE
<1>1. w.row \in Row /\ w.seen \in BOOLEAN
  BY DEF Staged
<1>2. RCContactStoreSaveResource(w.row, s) \in Row
  BY <1>1, SavedResource
<1>3. CASE s.action = "deleted"
  BY <1>1, <1>3 DEF RCCommitContact, RCContactStoreSyncDelete, Staged
<1>4. CASE s.action = "seen"
  BY <1>1, <1>4 DEF RCCommitContact, RCContactStoreMarkSeen, Staged
<1>5. CASE s.action = "downloaded"
  BY <1>1, <1>2, <1>5 DEF RCCommitContact, Staged
<1> QED
  BY <1>3, <1>4, <1>5 DEF StageActions

(* What is to become of a member changes only with these. *)
LEMMA SameOutcome ==
  ASSUME NEW h \in Hrefs, rev'[h] = rev[h], stage'[h] = stage[h], rows' = rows,
         keep'[Home[h]] = keep[Home[h]]
  PROVE  WillAgree(h)' <=> WillAgree(h)
  BY DEF WillAgree, RCDAVStageApply, RCContactStoreKeepCollection

-----------------------------------------------------------------------------
(* The server's other clients. *)

LEMMA ServerChange ==
  ASSUME MirrorInv, NEW hs \in SUBSET Hrefs, NEW r \in {0, clock + 1}, Change(hs, r),
         good' \in [Hrefs -> BOOLEAN], live' \subseteq Collections,
         gone \subseteq gone', gone' \subseteq Hrefs, r = 0 => hs \subseteq gone'
  PROVE  MirrorInv'
<1> USE DEF MirrorInv
<1>1. /\ clock < MaxClock /\ clock' = clock + 1
      /\ changed' = [h \in Hrefs |-> IF h \in hs THEN clock + 1 ELSE changed[h]]
      /\ rev' = [h \in Hrefs |-> IF h \in hs THEN r ELSE rev[h]]
      /\ UNCHANGED <<rows, token, bases, pc, found, todo, col, used, at, pend, final, stage, keep,
                     next, faults>>
  BY DEF Change, storeVars, fetchVars, loopVars
<1>2. /\ clock \in Nat /\ clock <= clock' /\ clock' \in 1 .. MaxClock
      /\ 0 .. clock \subseteq 0 .. clock'
  BY <1>1, MirrorConstants DEF TypeOK
<1>3. \A h \in Hrefs : /\ h \in hs => changed'[h] = clock + 1 /\ rev'[h] = r
                       /\ h \notin hs => changed'[h] = changed[h] /\ rev'[h] = rev[h]
                       /\ changed[h] \in 0 .. clock /\ rev[h] \in 0 .. clock
  BY <1>1 DEF TypeOK
<1>4. TypeOK'
  <2>1. rev' \in [Hrefs -> 0 .. clock'] /\ changed' \in [Hrefs -> 0 .. clock']
    <3>1. \A h \in Hrefs : changed'[h] \in 0 .. clock' /\ rev'[h] \in 0 .. clock'
      BY <1>1, <1>2, <1>3
    <3> QED
      BY <1>1, <3>1
  <2>2. /\ token' \in [Collections -> 0 .. clock'] /\ next' \in [Collections -> 0 .. clock']
        /\ bases' \in [Hrefs -> [etag : 0 .. clock', body : 0 .. clock']]
        /\ used' \subseteq 0 .. clock' /\ at' \in 0 .. clock'
    BY <1>1, <1>2 DEF TypeOK
  <2> QED
    BY <1>1, <1>2, <2>1, <2>2 DEF TypeOK
<1>5. \A h \in Hrefs : changed[h] <= changed'[h] /\ rev'[h] \in {0, changed'[h]}
  BY <1>1, <1>2, <1>3 DEF SaneInv
<1>6. SaneInv'
  <2>1. ASSUME NEW h \in Hrefs
        PROVE  /\ Sane(rows[h], changed'[h]) /\ Sane(stage[h].row, changed'[h])
               /\ bases[h].etag <= bases[h].body /\ bases[h].body <= changed'[h]
    <3>1. /\ rows[h] \in Row /\ stage[h].row \in Row /\ bases[h].body \in Nat
          /\ changed[h] \in Nat /\ changed'[h] \in Nat /\ changed[h] <= changed'[h]
      BY <1>2, <1>3, <1>5, <1>4 DEF TypeOK, Staged
    <3> QED
      BY <3>1 DEF SaneInv, Sane, Row
  <2> QED
    BY <1>1, <1>5, <2>1 DEF SaneInv
<1>7. LoopInv'
  BY <1>1 DEF LoopInv, Fetching, Members
<1>8. at \in Nat /\ at <= clock /\ \A c \in Collections : next[c] \in Nat /\ next[c] <= clock
        /\ token[c] \in Nat /\ token[c] <= clock
  BY <1>2 DEF TypeOK
<1>9. \A h \in Hrefs : changed'[h] <= clock => h \notin hs /\ changed'[h] = changed[h] /\ rev'[h] = rev[h]
  BY <1>2, <1>3
<1>10. PageInv'
  <2>1. ASSUME pc = "apply", NEW e \in pend
        PROVE  /\ Home[e.href] = col /\ e.etag <= changed'[e.href]
               /\ changed'[e.href] <= at => e.etag = rev'[e.href]
               /\ e.etag = 0 => e.href \in gone'
    <3>1. e.href \in Hrefs /\ e.etag \in Nat /\ Home[e.href] = col /\ e.etag <= changed[e.href]
      BY <2>1 DEF TypeOK, Listed, PageInv
    <3>2. e.etag <= changed'[e.href]
      BY <1>2, <1>3, <1>5, <3>1
    <3>3. changed'[e.href] <= at => changed'[e.href] <= clock
      BY <1>2, <1>3, <1>8, <3>1
    <3> QED
      BY <1>9, <2>1, <3>1, <3>2, <3>3 DEF PageInv
  <2> QED
    BY <1>1, <2>1 DEF PageInv
<1>11. \A h \in Hrefs : h \notin hs => (WillAgree(h)' <=> WillAgree(h))
  BY <1>1, <1>3, SameOutcome
<1>12. CoverInv'
  <2>1. ASSUME NEW h \in Hrefs, changed'[h] <= at \/ changed'[h] <= next[Home[h]]
        PROVE  changed'[h] = changed[h] /\ (WillAgree(h)' <=> WillAgree(h))
    <3>1. changed'[h] <= clock
      <4>1. Home[h] \in Collections /\ changed'[h] \in Nat
        BY <1>4, OutcomeTypes DEF TypeOK
      <4> QED
        BY <1>2, <1>8, <2>1, <4>1
    <3> QED
      BY <1>9, <1>11, <3>1
  <2> QED
    BY <1>1, <2>1 DEF CoverInv, Fetched, Running, InPend
<1>13. AbsenceInv'
  <2>1. ASSUME NEW h \in Hrefs, Running
        PROVE  rev'[h] = 0 => h \in gone'
    BY <1>2, <1>3, <2>1 DEF AbsenceInv
  <2>2. \A h \in Hrefs : changed[h] > at => changed'[h] > at
    BY <1>2, <1>3, <1>5, <1>8
  <2> QED
    BY <1>1, <2>1, <2>2 DEF AbsenceInv, Running, InPend
<1>14. NoMissedChange'
  <2>1. ASSUME NEW h \in Hrefs, changed'[h] <= token[Home[h]]
        PROVE  changed'[h] = changed[h] /\ rev'[h] = rev[h]
    <3>1. changed'[h] <= clock
      <4>1. Home[h] \in Collections /\ changed'[h] \in Nat
        BY <1>4, OutcomeTypes DEF TypeOK
      <4> QED
        BY <1>2, <1>8, <2>1, <4>1
    <3> QED
      BY <1>9, <3>1
  <2> QED
    BY <1>1, <2>1 DEF NoMissedChange, Agrees
<1> QED
  BY <1>4, <1>6, <1>7, <1>10, <1>12, <1>13, <1>14

LEMMA ServerStep ==
  ASSUME MirrorInv, Server
  PROVE  MirrorInv'
<1> USE DEF MirrorInv
<1>1. CASE \E h \in Hrefs : ServerDelete(h)
  <2>1. PICK h \in Hrefs : ServerDelete(h)
    BY <1>1
  <2> QED
    BY <2>1, ServerChange DEF ServerDelete, TypeOK
<1>2. CASE \E h \in Hrefs, ok \in BOOLEAN : ServerPut(h, ok)
  <2>1. PICK h \in Hrefs, ok \in BOOLEAN : ServerPut(h, ok)
    BY <1>2
  <2>2. clock + 1 # 0
    BY MirrorConstants DEF TypeOK
  <2> QED
    BY <2>1, <2>2, ServerChange DEF ServerPut, TypeOK
<1>3. CASE \E c \in Collections : CollectionRemoved(c)
  <2>1. PICK c \in Collections : CollectionRemoved(c)
    BY <1>3
  <2>2. Members(c) \subseteq Hrefs /\ {h \in Members(c) : rev[h] # 0} \subseteq Members(c)
    BY DEF Members
  <2> QED
    BY <2>1, <2>2, ServerChange DEF CollectionRemoved, TypeOK
<1>4. CASE \E c \in Collections : CollectionAdded(c)
  <2>1. PICK c \in Collections : CollectionAdded(c)
    BY <1>4
  <2> QED
    BY <2>1, ServerChange DEF CollectionAdded, TypeOK
<1> QED
  BY <1>1, <1>2, <1>3, <1>4 DEF Server

-----------------------------------------------------------------------------
(* The beginning and the end of a run. *)

LEMMA FinishedIdle ==
  ASSUME Finished, clock' \in 1 .. MaxClock
  PROVE  /\ pc' = "idle" /\ found' = {} /\ todo' = {} /\ col' = NoCollection
         /\ used' \subseteq 0 .. clock' /\ at' \in 0 .. clock' /\ pend' = {} /\ final' \in BOOLEAN
         /\ stage' = NoStage /\ stage' \in [Hrefs -> Staged] /\ keep' \in [Collections -> BOOLEAN]
         /\ next' \in [Collections -> 0 .. clock']
         /\ LoopInv' /\ PageInv' /\ CoverInv' /\ AbsenceInv'
<1>1. /\ pc' = "idle" /\ found' = {} /\ todo' = {} /\ col' = NoCollection
      /\ used' = {} /\ at' = 0 /\ pend' = {} /\ final' = FALSE
      /\ stage' = NoStage /\ keep' = Idle(FALSE) /\ next' = Idle(0)
  BY DEF Finished
<1>2. /\ 0 \in 0 .. clock' /\ Idle(0) \in [Collections -> 0 .. clock']
      /\ Idle(FALSE) \in [Collections -> BOOLEAN]
  BY MirrorConstants DEF Idle
<1>3. LoopInv' /\ PageInv' /\ CoverInv' /\ AbsenceInv'
  BY <1>1 DEF NoStage, LoopInv, PageInv, CoverInv, AbsenceInv, Fetching, Running, Fetched
<1> QED
  BY <1>1, <1>2, <1>3, EmptyStage

LEMMA FailedStep ==
  ASSUME MirrorInv, Failed, faults' \in 0 .. MaxFaults
  PROVE  MirrorInv'
<1> USE DEF MirrorInv
<1>1. Finished /\ UNCHANGED <<clock, live, rev, good, changed, rows, token, bases, gone>>
  BY DEF Failed, serverVars, storeVars
<1>2. /\ pc' = "idle" /\ found' = {} /\ todo' = {} /\ col' = NoCollection
      /\ used' \subseteq 0 .. clock' /\ at' \in 0 .. clock' /\ pend' = {} /\ final' \in BOOLEAN
      /\ stage' = NoStage /\ stage' \in [Hrefs -> Staged] /\ keep' \in [Collections -> BOOLEAN]
      /\ next' \in [Collections -> 0 .. clock']
      /\ LoopInv' /\ PageInv' /\ CoverInv' /\ AbsenceInv'
  BY <1>1, FinishedIdle DEF TypeOK
<1>3. TypeOK'
  BY <1>1, <1>2 DEF TypeOK
<1>4. SaneInv'
  <2>1. ASSUME NEW h \in Hrefs PROVE Sane(stage'[h].row, changed[h])
    BY <1>2, EmptyStage, OutcomeTypes DEF NoStage
  <2> QED
    BY <1>1, <2>1 DEF SaneInv
<1>5. NoMissedChange'
  BY <1>1 DEF NoMissedChange, Agrees
<1> QED
  BY <1>2, <1>3, <1>4, <1>5

LEMMA InterruptedStep ==
  ASSUME MirrorInv, Interrupted
  PROVE  MirrorInv'
<1>1. faults' \in 0 .. MaxFaults
  BY MirrorConstants DEF Interrupted, MirrorInv, TypeOK
<1> QED
  BY <1>1, FailedStep DEF Interrupted

LEMMA CollectionGoneStep ==
  ASSUME MirrorInv, CollectionGone
  PROVE  MirrorInv'
<1>1. faults' \in 0 .. MaxFaults
  BY DEF CollectionGone, MirrorInv, TypeOK
<1> QED
  BY <1>1, FailedStep DEF CollectionGone

LEMMA DiscoverStep ==
  ASSUME MirrorInv, Discover
  PROVE  MirrorInv'
<1> USE DEF MirrorInv
<1>1. /\ pc = "idle" /\ pc' = "next" /\ found' = live /\ todo' = live
      /\ gone' = {h \in Hrefs : rev[h] = 0}
      /\ UNCHANGED <<clock, live, rev, good, changed, rows, token, bases, col, used, at, pend, final,
                     stage, keep, next, faults>>
  BY DEF Discover, serverVars, storeVars, loopVars
<1>2. stage = NoStage /\ \A h \in Hrefs : ~stage[h].any /\ stage[h] = NotStaged
  BY <1>1, EmptyStage DEF TypeOK, NoStage
<1>3. col = NoCollection
  BY <1>1 DEF LoopInv, Fetching
<1>4. TypeOK'
  BY <1>1, <1>3 DEF TypeOK
<1>5. SaneInv' /\ PageInv' /\ NoMissedChange'
  BY <1>1 DEF SaneInv, PageInv, NoMissedChange, Agrees
<1>6. LoopInv'
  BY <1>1, <1>2, <1>3 DEF LoopInv, Fetching
<1>7. CoverInv' /\ AbsenceInv'
  BY <1>1, <1>2 DEF CoverInv, AbsenceInv, Fetched
<1> QED
  BY <1>4, <1>5, <1>6, <1>7

-----------------------------------------------------------------------------
(* A collection. *)

(* What is not staged yet and whether it is kept is all a report needs. *)
LEMMA Reporting ==
  ASSUME MirrorInv, NEW c \in todo, NEW base \in 0 .. clock, Report(c, base), Running,
         col \in {c, NoCollection},
         base # 0 => base = token[c],
         stage' = RCDAVStageReset(c),
         UNCHANGED <<serverVars, storeVars, found, todo, pend, final, next, gone, faults>>
  PROVE  MirrorInv'
<1> USE DEF MirrorInv
<1>1. /\ pc' = "report" /\ col' = c /\ used' = {base} /\ at' = base
      /\ keep' = [keep EXCEPT ![c] = base # 0]
      /\ UNCHANGED <<clock, live, rev, good, changed, rows, token, bases, found, todo, pend, final,
                     next, gone, faults>>
  BY DEF Report, serverVars, storeVars
<1>2. c \in found /\ c \in Collections /\ c # NoCollection
  BY MirrorConstants DEF TypeOK
<1>3. \A h \in Hrefs : /\ Home[h] = c => stage'[h] = NotStaged /\ ~stage'[h].any
                       /\ Home[h] # c => stage'[h] = stage[h]
  BY EmptyStage DEF RCDAVStageReset
<1>4. TypeOK'
  <2>1. stage' \in [Hrefs -> Staged]
    BY EmptyStage DEF RCDAVStageReset, TypeOK
  <2>2. keep' \in [Collections -> BOOLEAN]
    BY <1>1 DEF TypeOK
  <2> QED
    BY <1>1, <1>2, <2>1, <2>2 DEF TypeOK
<1>5. SaneInv'
  <2>1. ASSUME NEW h \in Hrefs PROVE Sane(stage'[h].row, changed[h])
    BY <1>3, EmptyStage, OutcomeTypes DEF SaneInv
  <2> QED
    BY <1>1, <2>1 DEF SaneInv
<1>6. keep'[c] = (base # 0) /\ \A d \in Collections \ {c} : keep'[d] = keep[d]
  BY <1>1, <1>2 DEF TypeOK
<1>7. LoopInv'
  <2>1. \A h \in Hrefs : Home[h] \in todo /\ Home[h] # c => ~stage'[h].any
    BY <1>3, <1>2, OutcomeTypes, MirrorConstants DEF LoopInv
  <2>2. \A h \in Hrefs : stage'[h].any \/ stage'[h] = NotStaged
    BY <1>3 DEF LoopInv
  <2> QED
    BY <1>1, <1>2, <2>2, <1>3, <1>6, <2>1 DEF LoopInv, Fetching, Members
<1>8. PageInv'
  BY <1>1 DEF PageInv
<1>9. \A h \in Hrefs : Home[h] # c => (WillAgree(h)' <=> WillAgree(h))
  BY <1>1, <1>3, <1>6, SameOutcome, OutcomeTypes
<1>10. ASSUME NEW h \in Hrefs, Home[h] = c, at' # 0, changed[h] <= at'
       PROVE  WillAgree(h)'
  <2>1. Agrees(h) /\ keep'[c]
    BY <1>1, <1>6, <1>10 DEF NoMissedChange
  <2>2. RCDAVStageApply(h)' = [any |-> FALSE, row |-> rows[h], seen |-> ~rows[h].missing]
    <3>1. rows[h].missing \in BOOLEAN
      BY OutcomeTypes DEF Row
    <3> QED
      BY <1>1, <1>3, <1>10, <2>1, <3>1 DEF RCDAVStageApply, RCContactStoreKeepCollection
  <2>3. RCDAVStageApply(h)'.row = rows[h] /\ RCDAVStageApply(h)'.seen = ~rows[h].missing
    BY <2>2
  <2>4. rev'[h] = rev[h] /\ rows[h].missing \in BOOLEAN
    BY <1>1, OutcomeTypes DEF Row
  <2>5. CASE rev[h] = 0
    BY <2>1, <2>3, <2>4, <2>5 DEF WillAgree, Agrees
  <2>6. CASE rev[h] # 0
    BY <2>1, <2>3, <2>4, <2>6 DEF WillAgree, Agrees
  <2> QED
    BY <2>5, <2>6
<1>11. CoverInv'
  BY <1>1, <1>9, <1>10 DEF CoverInv, Fetched, Running
<1>12. AbsenceInv'
  <2>1. ASSUME NEW h \in Hrefs, Home[h] = c, ~keep'[c]
        PROVE  h \in gone \/ changed[h] > at'
    <3>1. at' = 0 /\ changed[h] \in Nat /\ rev[h] \in {0, changed[h]}
      BY <1>1, <1>6, <2>1, OutcomeTypes DEF SaneInv
    <3>2. rev[h] = 0 => h \in gone
      BY DEF AbsenceInv
    <3> QED
      BY <3>1, <3>2
  <2> QED
    BY <1>1, <1>2, <1>3, <1>6, <2>1, OutcomeTypes DEF AbsenceInv, Running
<1>13. NoMissedChange'
  BY <1>1 DEF NoMissedChange, Agrees
<1> QED
  BY <1>4, <1>5, <1>7, <1>8, <1>11, <1>12, <1>13

(* An inventory starts from nothing staged. *)
LEMMA Listing ==
  ASSUME MirrorInv, NEW c \in todo, Running, col \in {c, NoCollection},
         pc' = "list", col' = c, stage' = RCDAVStageReset(c), UNCHANGED <<used, at, keep>>,
         UNCHANGED <<serverVars, storeVars, found, todo, pend, final, next, gone, faults>>
  PROVE  MirrorInv'
<1> USE DEF MirrorInv
<1>1. UNCHANGED <<clock, live, rev, good, changed, rows, token, bases, found, todo, pend, final,
                  next, gone, faults>>
  BY DEF serverVars, storeVars
<1>2. c \in found /\ c \in Collections /\ c # NoCollection
  BY MirrorConstants DEF TypeOK
<1>3. \A h \in Hrefs : /\ Home[h] = c => stage'[h] = NotStaged /\ ~stage'[h].any
                       /\ Home[h] # c => stage'[h] = stage[h]
  BY EmptyStage DEF RCDAVStageReset
<1>4. TypeOK'
  <2>1. stage' \in [Hrefs -> Staged]
    BY EmptyStage DEF RCDAVStageReset, TypeOK
  <2> QED
    BY <1>1, <1>2, <2>1 DEF TypeOK
<1>5. SaneInv'
  <2>1. ASSUME NEW h \in Hrefs PROVE Sane(stage'[h].row, changed[h])
    BY <1>3, EmptyStage, OutcomeTypes DEF SaneInv
  <2> QED
    BY <1>1, <2>1 DEF SaneInv
<1>6. LoopInv'
  <2>1. \A h \in Hrefs : Home[h] \in todo /\ Home[h] # c => ~stage'[h].any
    BY <1>3, <1>2, OutcomeTypes, MirrorConstants DEF LoopInv
  <2>2. \A h \in Hrefs : stage'[h].any \/ stage'[h] = NotStaged
    BY <1>3 DEF LoopInv
  <2> QED
    BY <1>1, <1>2, <2>2, <1>3, <2>1 DEF LoopInv, Fetching, Members
<1>7. PageInv' /\ NoMissedChange'
  BY <1>1 DEF PageInv, NoMissedChange, Agrees
<1>8. \A h \in Hrefs : Home[h] # c => (WillAgree(h)' <=> WillAgree(h))
  BY <1>1, <1>3, SameOutcome
<1>9. CoverInv' /\ AbsenceInv'
  BY <1>1, <1>3, <1>8 DEF CoverInv, AbsenceInv, Fetched, Running
<1> QED
  BY <1>4, <1>5, <1>6, <1>7, <1>9

LEMMA FetchCollectionStep ==
  ASSUME MirrorInv, NEW c \in todo, FetchCollection(c)
  PROVE  MirrorInv'
<1> USE DEF MirrorInv
<1>1. /\ pc = "next" /\ UNCHANGED <<serverVars, storeVars, found, todo, pend, final, stage, next, gone,
                                    faults>>
      /\ Report(c, token[c]) \/ (pc' = "list" /\ col' = c /\ UNCHANGED <<used, at, keep>>)
  BY DEF FetchCollection
<1>2. Running /\ col = NoCollection /\ c \in Collections /\ token[c] \in 0 .. clock /\ c # NoCollection
  BY <1>1, MirrorConstants DEF LoopInv, Fetching, Running, TypeOK
<1>3. stage' = RCDAVStageReset(c)
  <2>1. ASSUME NEW h \in Hrefs, Home[h] = c PROVE stage[h] = NotStaged
    BY <1>2, <2>1 DEF LoopInv
  <2>2. stage = [h \in Hrefs |-> stage[h]]
    BY DEF TypeOK
  <2>3. stage = [h \in Hrefs |-> IF Home[h] = c THEN NotStaged ELSE stage[h]]
    BY <2>1, <2>2
  <2> QED
    BY <1>1, <2>3 DEF RCDAVStageReset
<1> QED
  BY <1>1, <1>2, <1>3, Reporting, Listing

LEMMA FallbackStep ==
  ASSUME MirrorInv, Fallback
  PROVE  MirrorInv'
<1> USE DEF MirrorInv
<1>1. /\ pc = "report" /\ stage' = RCDAVStageReset(col)
      /\ UNCHANGED <<serverVars, storeVars, found, todo, pend, final, next, gone, faults>>
      /\ Report(col, 0) \/ (pc' = "list" /\ UNCHANGED <<col, used, at, keep>>)
  BY DEF Fallback
<1>2. Running /\ col \in todo /\ 0 \in 0 .. clock
  BY <1>1, MirrorConstants DEF LoopInv, Fetching, Running, TypeOK
<1> QED
  BY <1>1, <1>2, Reporting, Listing

-----------------------------------------------------------------------------
(* Pages. *)

LEMMA Entries ==
  ASSUME TypeOK, NEW hs \in SUBSET Hrefs
  PROVE  LET p == {[href |-> h, etag |-> rev[h]] : h \in hs} IN
         /\ p \subseteq Listed
         /\ \A e \in p : e.href \in hs /\ e.etag = rev[e.href]
         /\ \A h \in hs : \E e \in p : e.href = h
<1> DEFINE entry(h) == [href |-> h, etag |-> rev[h]]
<1>1. \A h \in hs : entry(h) \in Listed /\ entry(h).href = h /\ entry(h).etag = rev[h]
  BY OutcomeTypes DEF Listed
<1> HIDE DEF entry
<1>2. /\ {entry(h) : h \in hs} \subseteq Listed
      /\ \A e \in {entry(h) : h \in hs} : e.href \in hs /\ e.etag = rev[e.href]
      /\ \A h \in hs : \E e \in {entry(g) : g \in hs} : e.href = h
  BY <1>1
<1> QED
  BY <1>2 DEF entry

(* A page of the members hs, whose changes it accounts for up to x. *)
LEMMA PageTaken ==
  ASSUME MirrorInv, NEW hs \in SUBSET Members(col), NEW x \in 0 .. clock, NEW last \in BOOLEAN,
         pc \in {"report", "list"}, pc' = "apply",
         pend' = {[href |-> h, etag |-> rev[h]] : h \in hs}, final' = last, at' = x,
         used' \subseteq 0 .. clock,
         UNCHANGED <<serverVars, storeVars, found, todo, col, stage, next, gone, faults>>,
         keep' = [keep EXCEPT ![col] = keep'[col]], keep'[col] \in BOOLEAN, last \/ x # 0,
         \A h \in Members(col) : x # 0 /\ changed[h] <= x => h \in hs \/ WillAgree(h)',
         \A h \in Members(col) : ~keep'[col] =>
           h \in hs \/ stage[h].any \/ h \in gone \/ (~last /\ changed[h] > x)
  PROVE  MirrorInv'
<1> USE DEF MirrorInv
<1>1. UNCHANGED <<clock, live, rev, good, changed, rows, token, bases, found, todo, col, stage, next,
                  gone, faults>>
  BY DEF serverVars, storeVars
<1>2. Fetching /\ Running /\ Running' /\ col \in todo /\ col \in found /\ col \in Collections
  BY DEF LoopInv, Fetching, Running, TypeOK
<1>3. \A c \in Collections \ {col} : keep'[c] = keep[c]
  BY DEF TypeOK
<1>4. Members(col) \subseteq Hrefs /\ hs \subseteq Hrefs /\ \A h \in hs : Home[h] = col
  BY DEF Members
<1>5. /\ pend' \subseteq Listed /\ \A e \in pend' : e.href \in hs /\ e.etag = rev[e.href]
      /\ \A h \in hs : InPend(h)'
  BY <1>4, Entries DEF InPend
<1>6. TypeOK'
  <2>1. keep' \in [Collections -> BOOLEAN]
    BY DEF TypeOK
  <2> QED
    BY <1>1, <1>2, <1>5, <2>1 DEF TypeOK
<1>7. SaneInv' /\ NoMissedChange'
  BY <1>1 DEF SaneInv, NoMissedChange, Agrees
<1>8. LoopInv'
  BY <1>1, <1>2 DEF LoopInv, Fetching
<1>9. PageInv'
  <2>1. ASSUME NEW e \in pend'
        PROVE  Home[e.href] = col /\ e.etag <= changed[e.href] /\ (e.etag = 0 => e.href \in gone)
    <3>1. e.href \in Hrefs /\ Home[e.href] = col /\ e.etag = rev[e.href]
      BY <1>4, <1>5
    <3>2. rev[e.href] \in {0, changed[e.href]} /\ (rev[e.href] = 0 => e.href \in gone)
      BY <1>2, <3>1 DEF SaneInv, AbsenceInv
    <3> QED
      BY <3>1, <3>2, OutcomeTypes
  <2> QED
    BY <1>1, <1>5, <2>1 DEF PageInv
<1>10. \A h \in Hrefs : Home[h] # col => (WillAgree(h)' <=> WillAgree(h))
  BY <1>1, <1>3, SameOutcome, OutcomeTypes
<1>11. CoverInv'
  BY <1>1, <1>2, <1>5, <1>10 DEF CoverInv, Fetched, Members
<1>12. AbsenceInv'
  BY <1>1, <1>2, <1>3, <1>5, OutcomeTypes DEF AbsenceInv, Members
<1> QED
  BY <1>6, <1>7, <1>8, <1>9, <1>11, <1>12

LEMMA SyncCollectionStep ==
  ASSUME MirrorInv, RCDAVSyncCollection
  PROVE  MirrorInv'
<1> USE DEF MirrorInv
<1>1. PICK x \in at .. clock : pc = "report" /\ x > 0 /\ Page(x, Changes(x), More(x))
  BY DEF RCDAVSyncCollection
<1>2. at \in Nat /\ clock \in Nat /\ x \in 0 .. clock /\ x # 0 /\ at <= x
  BY <1>1, MirrorConstants DEF TypeOK
<1>3. CASE Failed /\ UNCHANGED faults
  BY <1>3, FailedStep DEF TypeOK
<1>4. CASE /\ pc' = "apply" /\ pend' = Changes(x) /\ final' = ~More(x)
           /\ used' = used \cup {x} /\ at' = x
           /\ UNCHANGED <<serverVars, storeVars, found, todo, col, stage, keep, next, gone, faults>>
  <2>1. PICK hs \in SUBSET Members(col) :
          /\ hs = {m \in Members(col) : changed[m] > at /\ changed[m] <= x /\ (at = 0 => rev[m] # 0)}
          /\ pend' = {[href |-> h, etag |-> rev[h]] : h \in hs}
    BY <1>4 DEF Changes
  <2>2. PICK last \in BOOLEAN : last = ~More(x) /\ final' = last
    BY <1>4 DEF More
  <2>3. Running /\ col \in Collections
    BY <1>1 DEF LoopInv, Fetching, Running, TypeOK
  <2>4. used' \subseteq 0 .. clock /\ keep'[col] \in BOOLEAN /\ keep' = [keep EXCEPT ![col] = keep'[col]]
    BY <1>2, <1>4, <2>3 DEF TypeOK
  <2>5. UNCHANGED <<rev, stage, rows, keep, changed, gone>>
    BY <1>4 DEF serverVars, storeVars
  <2>6. ASSUME NEW h \in Members(col)
        PROVE  /\ h \in Hrefs /\ Home[h] = col /\ changed[h] \in Nat
               /\ rev[h] \in {0, changed[h]} /\ (rev[h] = 0 => h \in gone)
               /\ WillAgree(h)' <=> WillAgree(h)
    <3>1. h \in Hrefs /\ Home[h] = col
      BY DEF Members
    <3> QED
      BY <2>3, <2>5, <3>1, SameOutcome, OutcomeTypes DEF SaneInv, AbsenceInv
  <2>7. ASSUME NEW h \in Members(col), changed[h] <= x
        PROVE  h \in hs \/ WillAgree(h)'
    <3>1. CASE at = 0
      <4>1. ~keep[col] /\ ~stage[h].any
        BY <1>1, <3>1 DEF LoopInv
      <4>2. ~RCDAVStageApply(h).seen
        BY <2>6, <4>1, OutcomeTypes
      <4>3. rev[h] = 0 => WillAgree(h)
        BY <4>2 DEF WillAgree
      <4> QED
        BY <1>2, <2>1, <2>6, <2>7, <3>1, <4>3
    <3>2. CASE at # 0 /\ changed[h] <= at
      BY <1>1, <2>6, <3>2 DEF CoverInv
    <3>3. CASE at # 0 /\ changed[h] > at
      BY <2>1, <2>7, <3>3
    <3> QED
      BY <1>2, <2>6, <3>1, <3>2, <3>3
  <2>8. ASSUME NEW h \in Members(col), ~keep[col]
        PROVE  h \in hs \/ stage[h].any \/ h \in gone \/ (~last /\ changed[h] > x)
    <3>1. stage[h].any \/ h \in gone \/ changed[h] > at
      BY <1>1, <2>3, <2>6, <2>8 DEF AbsenceInv
    <3>2. last => ~(changed[h] > x)
      BY <2>2 DEF More
    <3> QED
      BY <1>2, <2>1, <2>6, <3>1, <3>2
  <2> QED
    BY <1>1, <1>2, <1>4, <2>1, <2>2, <2>4, <2>5, <2>7, <2>8, PageTaken
<1> QED
  BY <1>1, <1>3, <1>4 DEF Page

LEMMA RepeatedPageStep ==
  ASSUME MirrorInv, RepeatedPage
  PROVE  MirrorInv'
<1>1. PICK x \in used, hs \in SUBSET {h \in Members(col) : rev[h] # 0} :
        Page(x, {[href |-> h, etag |-> rev[h]] : h \in hs}, TRUE)
  BY DEF RepeatedPage
<1>2. Failed /\ UNCHANGED faults
  BY <1>1 DEF Page, PageAccepted
<1> QED
  BY <1>2, FailedStep DEF MirrorInv, TypeOK

LEMMA ListResourcesStep ==
  ASSUME MirrorInv, RCDAVListResources
  PROVE  MirrorInv'
<1> USE DEF MirrorInv
<1>1. /\ pc = "list" /\ pc' = "apply" /\ final' = TRUE /\ used' = {} /\ at' = 0
      /\ keep' = [keep EXCEPT ![col] = FALSE]
      /\ UNCHANGED <<serverVars, storeVars, found, todo, col, stage, next, gone, faults>>
  BY DEF RCDAVListResources
<1>2. PICK hs \in SUBSET Members(col) :
        /\ hs = {m \in Members(col) : rev[m] # 0}
        /\ pend' = {[href |-> h, etag |-> rev[h]] : h \in hs}
  BY DEF RCDAVListResources
<1>3. Running /\ col \in Collections /\ 0 \in 0 .. clock
  BY <1>1, MirrorConstants DEF LoopInv, Fetching, Running, TypeOK
<1>4. keep'[col] = FALSE /\ keep' = [keep EXCEPT ![col] = keep'[col]]
  BY <1>1, <1>3 DEF TypeOK
<1>5. \A h \in Members(col) : h \in hs \/ h \in gone
  BY <1>2, <1>3 DEF Members, AbsenceInv
<1> QED
  BY <1>1, <1>2, <1>3, <1>4, <1>5, PageTaken

-----------------------------------------------------------------------------
(* The members of a page, and its end. *)

LEMMA StageSaveStep ==
  ASSUME MirrorInv, pc = "apply", NEW e \in pend, NEW h \in Hrefs, h = e.href,
         NEW a \in {"deleted", "seen", "downloaded"}, NEW t \in Nat, NEW b \in Nat,
         NEW ok \in BOOLEAN, StageSave(e, a, t, b, ok),
         a = "deleted" => e.etag = 0,
         a = "seen" => e.etag # 0 /\ rows[h] # NoRow /\ rows[h].etag = e.etag /\ ~stage[h].any,
         a = "downloaded" => e.etag # 0 /\ rev[h] # 0 /\ t \in {rev[h], e.etag} /\ b = rev[h]
  PROVE  MirrorInv'
<1> USE DEF MirrorInv
<1>1. PICK s \in StageActions :
        s.action = a /\ s.etag = t /\ s.body = b /\ s.ok = ok
        /\ stage' = [stage EXCEPT ![h] = [RCCommitContact(RCDAVStageApply(h), s) EXCEPT !.any = TRUE]]
  BY DEF StageActions, StageSave
<1>2. /\ pend' = pend \ {e}
      /\ UNCHANGED <<clock, live, rev, good, changed, rows, token, bases, pc, found, todo, col, used,
                     at, final, keep, next, gone, faults>>
  BY DEF StageSave, serverVars, storeVars
<1>3. /\ Home[h] = col /\ e.etag <= changed[h] /\ e.etag \in Nat
      /\ changed[h] <= at => e.etag = rev[h]
      /\ e.etag = 0 => h \in gone
  BY DEF PageInv, TypeOK, Listed
<1>4. PICK w \in Staged : /\ w = RCDAVStageApply(h)
                          /\ w.row = IF stage[h].any THEN stage[h].row ELSE rows[h]
  BY OutcomeTypes
<1>5. PICK n \in Staged :
        /\ n = [RCCommitContact(w, s) EXCEPT !.any = TRUE] /\ n.any
        /\ n.row = (IF a = "downloaded" THEN RCContactStoreSaveResource(w.row, s) ELSE w.row)
        /\ a = "deleted" => ~n.seen
        /\ a = "seen" => n.seen = (w.row # NoRow)
        /\ a = "downloaded" => n.seen
  <2> DEFINE n == [RCCommitContact(w, s) EXCEPT !.any = TRUE]
  <2>1. /\ n \in Staged /\ n.any
        /\ n.row = (IF s.action = "downloaded" THEN RCContactStoreSaveResource(w.row, s) ELSE w.row)
        /\ n.seen = CASE s.action = "deleted" -> FALSE [] s.action = "seen" -> w.row # NoRow
                      [] s.action = "downloaded" -> TRUE
    BY ONLY w \in Staged, s \in StageActions, StagedOutcome
  <2> HIDE DEF n
  <2>2. /\ a = "deleted" => ~n.seen
        /\ a = "seen" => n.seen = (w.row # NoRow)
        /\ a = "downloaded" => n.seen
    BY <1>1, <2>1
  <2> QED
    BY <1>1, <2>1, <2>2 DEF n
<1>6. stage'[h] = n /\ \A g \in Hrefs \ {h} : stage'[g] = stage[g]
  BY <1>1, <1>4, <1>5 DEF TypeOK
<1>7. /\ w.row \in Row /\ n.row \in Row
      /\ a = "downloaded" => /\ n.row.etag = t /\ n.row.body = b
                             /\ n.row.usableETag = (IF ok THEN t ELSE w.row.usableETag)
                             /\ n.row.usable = (IF ok THEN b ELSE w.row.usable)
  BY <1>1, <1>5, SavedResource DEF Staged
<1>8. TypeOK'
  <2>1. stage' \in [Hrefs -> Staged]
    BY <1>1, <1>4, <1>5 DEF TypeOK
  <2> QED
    BY <1>2, <2>1 DEF TypeOK
<1>9. rev[h] \in {0, changed[h]} /\ changed[h] \in Nat /\ Sane(w.row, changed[h]) /\ Sane(rows[h], changed[h])
  BY <1>4, OutcomeTypes DEF SaneInv
<1>10. SaneInv'
  <2>1. Sane(n.row, changed[h])
    <3>1. CASE a = "downloaded"
      <4>1. t <= b /\ b <= changed[h]
        BY <1>3, <1>9, <3>1
      <4> QED
        BY <1>7, <1>9, <3>1, <4>1 DEF Sane
    <3>2. CASE a # "downloaded"
      BY <1>5, <1>9, <3>2
    <3> QED
      BY <3>1, <3>2
  <2> QED
    BY <1>2, <1>6, <2>1 DEF SaneInv
<1>11. LoopInv'
  BY <1>2, <1>3, <1>5, <1>6 DEF LoopInv, Fetching, Members
<1>12. PageInv' /\ NoMissedChange'
  BY <1>2 DEF PageInv, NoMissedChange, Agrees
<1>13. \A g \in Hrefs \ {h} : (WillAgree(g)' <=> WillAgree(g)) /\ (InPend(g)' <=> InPend(g))
  <2>1. \A g \in Hrefs \ {h} : WillAgree(g)' <=> WillAgree(g)
    BY <1>2, <1>6, SameOutcome
  <2>2. \A g \in Hrefs \ {h} : InPend(g)' <=> InPend(g)
    BY <1>2 DEF InPend
  <2> QED
    BY <2>1, <2>2
<1>14. changed[h] <= at => WillAgree(h)'
  <2>1. SUFFICES ASSUME changed[h] <= at PROVE WillAgree(h)'
    OBVIOUS
  <2>2. rev'[h] = rev[h] /\ rev[h] = e.etag /\ RCDAVStageApply(h)' = n
    BY <1>2, <1>3, <1>5, <1>6, <2>1 DEF RCDAVStageApply
  <2>3. CASE a = "deleted"
    BY <1>5, <2>2, <2>3 DEF WillAgree
  <2>4. CASE a = "seen"
    <3>1. w.row = rows[h] /\ n.row = rows[h] /\ n.seen
      BY <1>4, <1>5, <2>4
    <3>2. rows[h].body \in Nat
      BY OutcomeTypes DEF Row
    <3>3. rows[h].body = rev[h]
      BY <1>3, <1>9, <2>2, <2>4, <3>2 DEF Sane
    <3> QED
      BY <2>2, <2>4, <3>1, <3>3 DEF WillAgree
  <2>5. CASE a = "downloaded"
    BY <1>5, <1>7, <2>2, <2>5 DEF WillAgree
  <2> QED
    BY <2>3, <2>4, <2>5
<1>15. CoverInv'
  <2>1. ~Fetched(h)' /\ pc' # "report"
    BY <1>2, <1>3 DEF Fetched, LoopInv, Fetching
  <2> QED
    BY <1>2, <1>13, <1>14, <2>1 DEF CoverInv, Fetched, Running
<1>16. AbsenceInv'
  <2>1. stage'[h].any /\ (~stage'[h].seen => h \in gone)
    <3>1. a = "seen" => n.seen
      BY <1>4, <1>5
    <3> QED
      BY <1>3, <1>5, <1>6, <3>1
  <2>2. rev[h] = 0 => h \in gone
    BY DEF AbsenceInv, Running
  <2> QED
    BY <1>2, <1>6, <1>13, <2>1, <2>2 DEF AbsenceInv, Running
<1> QED
  BY <1>8, <1>10, <1>11, <1>12, <1>15, <1>16

LEMMA ApplyStep ==
  ASSUME MirrorInv, NEW e \in pend, RCApplyContactChanges(e)
  PROVE  MirrorInv'
<1> USE DEF MirrorInv
<1>1. pc = "apply"
  BY DEF RCApplyContactChanges
<1>2. PICK h \in Hrefs : h = e.href
  BY DEF TypeOK, Listed
<1>3. e.etag \in Nat /\ rev[h] \in Nat /\ good[h] \in BOOLEAN /\ 0 \in Nat
  BY OutcomeTypes DEF TypeOK, Listed
<1>4. \/ e.etag = 0 /\ StageSave(e, "deleted", 0, 0, TRUE)
      \/ /\ e.etag # 0 /\ rows[h] # NoRow /\ rows[h].etag = e.etag /\ ~stage[h].any
         /\ StageSave(e, "seen", e.etag, 0, TRUE)
      \/ /\ e.etag # 0 /\ rev[h] # 0
         /\ \E t \in {rev[h], e.etag} : StageSave(e, "downloaded", t, rev[h], good[h])
      \/ Failed /\ UNCHANGED faults
  BY <1>2 DEF RCApplyContactChanges, RCDAVMirrorResourceCurrent, RCDAVStageHasResource
<1>5. CASE e.etag = 0 /\ StageSave(e, "deleted", 0, 0, TRUE)
  BY <1>1, <1>2, <1>3, <1>5, StageSaveStep
<1>6. CASE /\ e.etag # 0 /\ rows[h] # NoRow /\ rows[h].etag = e.etag /\ ~stage[h].any
           /\ StageSave(e, "seen", e.etag, 0, TRUE)
  BY <1>1, <1>2, <1>3, <1>6, StageSaveStep
<1>7. CASE /\ e.etag # 0 /\ rev[h] # 0
           /\ \E t \in {rev[h], e.etag} : StageSave(e, "downloaded", t, rev[h], good[h])
  <2>1. PICK t \in {rev[h], e.etag} : StageSave(e, "downloaded", t, rev[h], good[h])
    BY <1>7
  <2>2. t \in Nat
    BY <1>3
  <2> QED
    BY <1>1, <1>2, <1>3, <1>7, <2>1, <2>2, StageSaveStep
<1>8. CASE Failed /\ UNCHANGED faults
  BY <1>8, FailedStep DEF TypeOK
<1> QED
  BY <1>4, <1>5, <1>6, <1>7, <1>8

LEMMA PageAppliedStep ==
  ASSUME MirrorInv, PageApplied
  PROVE  MirrorInv'
<1> USE DEF MirrorInv
<1>1. /\ pc = "apply" /\ pend = {}
      /\ UNCHANGED <<clock, live, rev, good, changed, rows, token, bases, found, pend, stage, keep,
                     gone, faults>>
  BY DEF PageApplied, serverVars, storeVars
<1>2. Fetching /\ Running /\ col \in todo /\ col \in found /\ col \in Collections /\ col # NoCollection
  BY <1>1, MirrorConstants DEF LoopInv, Fetching, Running, TypeOK
<1>3. \A h \in Hrefs : ~InPend(h) /\ ~InPend(h)'
  BY <1>1 DEF InPend
<1>4. \A h \in Hrefs : WillAgree(h)' <=> WillAgree(h)
  BY <1>1, SameOutcome
<1>5. SaneInv' /\ NoMissedChange'
  BY <1>1 DEF SaneInv, NoMissedChange, Agrees
<1>6. CASE final
  <2>1. /\ pc' = "next" /\ todo' = todo \ {col} /\ next' = [next EXCEPT ![col] = at]
        /\ col' = NoCollection /\ used' = {} /\ at' = 0 /\ final' = FALSE
    BY <1>6 DEF PageApplied
  <2>2. TypeOK'
    <3>1. next' \in [Collections -> 0 .. clock] /\ todo' \subseteq found
      BY <2>1 DEF TypeOK
    <3>2. used' \subseteq 0 .. clock /\ at' \in 0 .. clock /\ final' \in BOOLEAN
      <4>1. 0 \in 0 .. clock
        BY MirrorConstants DEF TypeOK
      <4> QED
        BY <2>1, <4>1
    <3>3. col' \in found \cup {NoCollection} /\ pc' = "next"
      BY <2>1
    <3> QED
      BY <1>1, <3>1, <3>2, <3>3 DEF TypeOK
  <2>3. LoopInv' /\ PageInv'
    BY <1>1, <2>1 DEF LoopInv, PageInv, Fetching
  <2>4. next'[col] = at /\ \A c \in Collections \ {col} : next'[c] = next[c]
    BY <1>2, <2>1 DEF TypeOK
  <2>5. CoverInv'
    <3>1. ASSUME NEW h \in Hrefs, Fetched(h)', next'[Home[h]] # 0, changed[h] <= next'[Home[h]]
          PROVE  WillAgree(h)
      <4>1. Home[h] \in found /\ Home[h] \in Collections /\ (Home[h] = col \/ Home[h] \notin todo)
        BY <1>1, <2>1, <3>1, OutcomeTypes DEF Fetched
      <4>2. CASE Home[h] = col
        BY <1>1, <1>3, <2>4, <3>1, <4>2 DEF CoverInv
      <4>3. CASE Home[h] # col
        BY <1>2, <2>4, <3>1, <4>1, <4>3 DEF CoverInv, Fetched
      <4> QED
        BY <4>2, <4>3
    <3> QED
      BY <1>1, <1>4, <2>1, <3>1 DEF CoverInv
  <2>6. AbsenceInv'
    BY <1>1, <1>2, <1>3, <1>6, <2>1 DEF AbsenceInv, Running
  <2> QED
    BY <1>5, <2>2, <2>3, <2>5, <2>6
<1>7. CASE ~final
  <2>1. pc' = "report" /\ UNCHANGED <<todo, next, col, used, at, final>>
    BY <1>7 DEF PageApplied
  <2>2. TypeOK'
    BY <1>1, <2>1 DEF TypeOK
  <2>3. LoopInv' /\ PageInv'
    BY <1>1, <1>7, <2>1 DEF LoopInv, PageInv, Fetching
  <2>4. CoverInv'
    BY <1>1, <1>3, <1>4, <2>1 DEF CoverInv, Fetched, Running
  <2>5. AbsenceInv'
    BY <1>1, <1>2, <1>3, <1>7, <2>1 DEF AbsenceInv, Running
  <2> QED
    BY <1>5, <2>2, <2>3, <2>4, <2>5
<1> QED
  BY <1>6, <1>7 DEF TypeOK

-----------------------------------------------------------------------------
(* The database. *)

LEMMA CommittedRow ==
  ASSUME MirrorInv, NEW h \in Hrefs
  PROVE  /\ Committed(h) \in Row /\ Sane(Committed(h), changed[h])
         /\ Home[h] \in found =>
              /\ Committed(h).missing = ~RCDAVStageApply(h).seen
              /\ Committed(h).etag = RCDAVStageApply(h).row.etag
              /\ Committed(h).body = RCDAVStageApply(h).row.body
         /\ Home[h] \notin found => Committed(h).missing
<1> USE DEF MirrorInv
<1>1. PICK w \in Staged : w = RCDAVStageApply(h) /\ Sane(w.row, changed[h])
  BY OutcomeTypes DEF SaneInv
<1>2. /\ w.row \in Row /\ w.seen \in BOOLEAN /\ rows[h] \in Row /\ changed[h] \in Nat
      /\ Sane(rows[h], changed[h])
  BY OutcomeTypes DEF SaneInv, Staged
<1>3. ASSUME NEW r \in Row, NEW m \in BOOLEAN, Sane(r, changed[h])
      PROVE  LET n == [r EXCEPT !.missing = m] IN
             n \in Row /\ Sane(n, changed[h]) /\ n.missing = m /\ n.etag = r.etag /\ n.body = r.body
  BY <1>3 DEF Row, Sane
<1>4. CASE Home[h] \in found
  <2>1. Committed(h) = [w.row EXCEPT !.missing = ~w.seen]
    BY <1>1, <1>4 DEF Committed
  <2>2. PICK m \in BOOLEAN : m = ~w.seen
    BY <1>2
  <2>3. Committed(h) = [w.row EXCEPT !.missing = m]
    BY <2>1, <2>2
  <2>4. /\ Committed(h) \in Row /\ Sane(Committed(h), changed[h]) /\ Committed(h).missing = m
        /\ Committed(h).etag = w.row.etag /\ Committed(h).body = w.row.body
    BY <1>1, <1>2, <1>3, <2>3
  <2>5. Committed(h).missing = ~w.seen
    BY <2>2, <2>4
  <2> QED
    BY <1>1, <1>4, <2>4, <2>5
<1>5. CASE Home[h] \notin found
  <2>1. Committed(h) = [rows[h] EXCEPT !.missing = TRUE]
    BY <1>5 DEF Committed
  <2> QED
    BY <1>2, <1>3, <1>5, <2>1
<1> QED
  BY <1>4, <1>5

LEMMA CommitStep ==
  ASSUME MirrorInv, Commit
  PROVE  MirrorInv'
<1> USE DEF MirrorInv
<1>1. /\ pc = "next" /\ todo = {} /\ Finished
      /\ rows' = [h \in Hrefs |-> Committed(h)]
      /\ token' = [c \in Collections |-> IF c \in found THEN next[c] ELSE 0]
      /\ UNCHANGED <<clock, live, rev, good, changed, bases, gone, faults>>
  BY DEF Commit, serverVars
<1>2. /\ pc' = "idle" /\ found' = {} /\ todo' = {} /\ col' = NoCollection
      /\ used' \subseteq 0 .. clock' /\ at' \in 0 .. clock' /\ pend' = {} /\ final' \in BOOLEAN
      /\ stage' = NoStage /\ stage' \in [Hrefs -> Staged] /\ keep' \in [Collections -> BOOLEAN]
      /\ next' \in [Collections -> 0 .. clock']
      /\ LoopInv' /\ PageInv' /\ CoverInv' /\ AbsenceInv'
  BY <1>1, FinishedIdle DEF TypeOK
<1>3. TypeOK'
  <2>1. rows' \in [Hrefs -> Row]
    BY <1>1, CommittedRow
  <2>2. token' \in [Collections -> 0 .. clock']
    BY <1>1, MirrorConstants DEF TypeOK
  <2> QED
    BY <1>1, <1>2, <2>1, <2>2 DEF TypeOK
<1>4. SaneInv'
  <2>1. ASSUME NEW h \in Hrefs PROVE Sane(stage'[h].row, changed[h])
    BY <1>2, EmptyStage, OutcomeTypes DEF NoStage
  <2> QED
    BY <1>1, <2>1, CommittedRow DEF SaneInv
<1>5. NoMissedChange'
  <2>1. ASSUME NEW h \in Hrefs, token'[Home[h]] # 0, changed[h] <= token'[Home[h]]
        PROVE  Agrees(h)'
    <3>1. Home[h] \in found /\ token'[Home[h]] = next[Home[h]]
      BY <1>1, <2>1, OutcomeTypes
    <3>2. WillAgree(h)
      BY <1>1, <2>1, <3>1 DEF CoverInv, Fetched, Running
    <3>3. rows'[h] = Committed(h) /\ rev'[h] = rev[h] /\ RCDAVStageApply(h).seen \in BOOLEAN
      BY <1>1, OutcomeTypes DEF Staged
    <3>4. /\ Committed(h).missing = ~RCDAVStageApply(h).seen
          /\ Committed(h).etag = RCDAVStageApply(h).row.etag
          /\ Committed(h).body = RCDAVStageApply(h).row.body
      BY <3>1, CommittedRow
    <3>5. rows'[h].missing = ~RCDAVStageApply(h).seen
      BY <3>3, <3>4
    <3>6. CASE rev[h] = 0
      BY <3>2, <3>3, <3>5, <3>6 DEF WillAgree, Agrees
    <3>7. CASE rev[h] # 0
      BY <3>2, <3>3, <3>4, <3>5, <3>7 DEF WillAgree, Agrees
    <3> QED
      BY <3>6, <3>7
  <2> QED
    BY <1>1, <2>1 DEF NoMissedChange
<1> QED
  BY <1>2, <1>3, <1>4, <1>5

LEMMA PublishedStep ==
  ASSUME MirrorInv, RCContactStoreMarkPublished
  PROVE  MirrorInv'
<1> USE DEF MirrorInv
<1>1. /\ bases' = [h \in Hrefs |->
            IF Available(h) THEN [etag |-> rows[h].usableETag, body |-> rows[h].usable]
            ELSE [etag |-> 0, body |-> 0]]
      /\ UNCHANGED <<clock, live, rev, good, changed, rows, token, pc, found, todo, col, used, at, pend,
                     final, stage, keep, next, gone, faults>>
  BY DEF RCContactStoreMarkPublished, serverVars, fetchVars, loopVars
<1>2. ASSUME NEW h \in Hrefs
      PROVE  /\ bases'[h].etag <= bases'[h].body /\ bases'[h].body <= changed[h]
             /\ bases'[h] \in [etag : 0 .. clock, body : 0 .. clock]
  <2>1. /\ rows[h] \in Row /\ changed[h] \in Nat /\ changed[h] <= clock /\ clock \in Nat
        /\ rows[h].usableETag <= rows[h].usable /\ rows[h].usable <= changed[h]
    BY OutcomeTypes DEF SaneInv, Sane
  <2>2. rows[h].usableETag \in 0 .. clock /\ rows[h].usable \in 0 .. clock /\ 0 \in 0 .. clock
    BY <2>1 DEF Row
  <2> QED
    BY <1>1, <2>1, <2>2
<1>3. bases' \in [Hrefs -> [etag : 0 .. clock, body : 0 .. clock]]
  BY <1>1, <1>2
<1>4. TypeOK' /\ SaneInv' /\ NoMissedChange'
  BY <1>1, <1>2, <1>3 DEF TypeOK, SaneInv, NoMissedChange, Agrees
<1>5. LoopInv' /\ PageInv'
  BY <1>1 DEF LoopInv, PageInv, Fetching
<1>6. CoverInv' /\ AbsenceInv'
  BY <1>1, SameOutcome DEF CoverInv, AbsenceInv, Fetched, Running, InPend
<1> QED
  BY <1>4, <1>5, <1>6

-----------------------------------------------------------------------------
(* Every step. *)

LEMMA MirrorInit ==
  Init => MirrorInv
<1> SUFFICES ASSUME Init PROVE MirrorInv
  OBVIOUS
<1>1. /\ clock = 1 /\ live = Collections
      /\ rev = [h \in Hrefs |-> 0] /\ good = [h \in Hrefs |-> TRUE]
      /\ changed = [h \in Hrefs |-> 0]
      /\ rows = [h \in Hrefs |-> NoRow] /\ token = Idle(0)
      /\ bases = [h \in Hrefs |-> [etag |-> 0, body |-> 0]]
      /\ pc = "idle" /\ found = {} /\ todo = {} /\ col = NoCollection
      /\ used = {} /\ at = 0 /\ pend = {} /\ final = FALSE
      /\ stage = NoStage /\ keep = Idle(FALSE) /\ next = Idle(0)
      /\ gone = {} /\ faults = 0
  BY DEF Init
<1>2. 0 \in 0 .. clock /\ clock \in 1 .. MaxClock /\ faults \in 0 .. MaxFaults
  BY <1>1, MirrorConstants
<1>3. Idle(0) \in [Collections -> 0 .. clock] /\ Idle(FALSE) \in [Collections -> BOOLEAN]
  BY <1>2 DEF Idle
<1>4. TypeOK
  <2>1. /\ rev \in [Hrefs -> 0 .. clock] /\ changed \in [Hrefs -> 0 .. clock] /\ good \in [Hrefs -> BOOLEAN]
        /\ rows \in [Hrefs -> Row]
        /\ bases \in [Hrefs -> [etag : 0 .. clock, body : 0 .. clock]]
    BY <1>1, <1>2, EmptyStage
  <2> QED
    BY <1>1, <1>2, <1>3, <2>1, EmptyStage DEF TypeOK
<1>5. SaneInv
  <2>1. ASSUME NEW h \in Hrefs
        PROVE  /\ rev[h] = 0 /\ changed[h] = 0 /\ rows[h] = NoRow /\ stage[h].row = NoRow
               /\ bases[h].etag = 0 /\ bases[h].body = 0
    BY <1>1, EmptyStage DEF NoStage
  <2>2. Sane(NoRow, 0)
    BY EmptyStage
  <2> QED
    BY <2>1, <2>2 DEF SaneInv
<1>6. LoopInv /\ PageInv /\ CoverInv /\ AbsenceInv
  BY <1>1 DEF NoStage, LoopInv, PageInv, CoverInv, AbsenceInv, Fetching, Running, Fetched
<1>7. NoMissedChange
  BY <1>1, OutcomeTypes, <1>4 DEF NoMissedChange, Idle
<1> QED
  BY <1>4, <1>5, <1>6, <1>7 DEF MirrorInv

LEMMA UnchangedStep ==
  ASSUME MirrorInv, UNCHANGED vars
  PROVE  MirrorInv'
<1>1. UNCHANGED <<clock, live, rev, good, changed, rows, token, bases, pc, found, todo, col, used, at,
                  pend, final, stage, keep, next, gone, faults>>
  BY DEF vars, serverVars, storeVars, fetchVars, loopVars
<1>2. TypeOK' /\ SaneInv' /\ NoMissedChange'
  BY <1>1 DEF MirrorInv, TypeOK, SaneInv, NoMissedChange, Agrees
<1>3. LoopInv' /\ PageInv'
  BY <1>1 DEF MirrorInv, LoopInv, PageInv, Fetching
<1>4. CoverInv' /\ AbsenceInv'
  BY <1>1, SameOutcome DEF MirrorInv, CoverInv, AbsenceInv, Fetched, Running, InPend
<1> QED
  BY <1>2, <1>3, <1>4 DEF MirrorInv

LEMMA MirrorStep ==
  MirrorInv /\ [Next]_vars => MirrorInv'
<1> SUFFICES ASSUME MirrorInv, [Next]_vars PROVE MirrorInv'
  OBVIOUS
<1>1. CASE Server
  BY <1>1, ServerStep
<1>2. CASE Discover
  BY <1>2, DiscoverStep
<1>3. CASE \E c \in todo : FetchCollection(c)
  BY <1>3, FetchCollectionStep
<1>4. CASE RCDAVSyncCollection
  BY <1>4, SyncCollectionStep
<1>5. CASE RepeatedPage
  BY <1>5, RepeatedPageStep
<1>6. CASE Fallback
  BY <1>6, FallbackStep
<1>7. CASE RCDAVListResources
  BY <1>7, ListResourcesStep
<1>8. CASE CollectionGone
  BY <1>8, CollectionGoneStep
<1>9. CASE \E e \in pend : RCApplyContactChanges(e)
  BY <1>9, ApplyStep
<1>10. CASE PageApplied
  BY <1>10, PageAppliedStep
<1>11. CASE Commit
  BY <1>11, CommitStep
<1>12. CASE Interrupted
  BY <1>12, InterruptedStep
<1>13. CASE RCContactStoreMarkPublished
  BY <1>13, PublishedStep
<1>14. CASE UNCHANGED vars
  BY <1>14, UnchangedStep
<1> QED
  BY <1>1, <1>2, <1>3, <1>4, <1>5, <1>6, <1>7, <1>8, <1>9, <1>10, <1>11, <1>12, <1>13, <1>14
  DEF Next, Fetch

-----------------------------------------------------------------------------
(* Absence. *)

(* The commit is the only step that retires a contact. *)
LEMMA RowsStay ==
  ASSUME [Next]_vars, ~Commit
  PROVE  rows' = rows
<1>1. ASSUME Server PROVE rows' = rows
  BY <1>1 DEF Server, ServerDelete, ServerPut, CollectionRemoved, CollectionAdded, Change, storeVars
<1>2. ASSUME NEW x, NEW entries, NEW more, Page(x, entries, more) PROVE rows' = rows
  BY <1>2 DEF Page, Failed, storeVars
<1>3. ASSUME RCDAVSyncCollection \/ RepeatedPage PROVE rows' = rows
  BY <1>2, <1>3 DEF RCDAVSyncCollection, RepeatedPage
<1>4. ASSUME NEW e \in pend, RCApplyContactChanges(e) PROVE rows' = rows
  BY <1>4 DEF RCApplyContactChanges, StageSave, Failed, storeVars
<1>5. ASSUME \/ Discover \/ Fallback \/ RCDAVListResources \/ CollectionGone
             \/ \E c \in todo : FetchCollection(c)
      PROVE  rows' = rows
  BY <1>5 DEF Discover, Fallback, RCDAVListResources, CollectionGone, FetchCollection, Failed, storeVars
<1>6. ASSUME PageApplied \/ Interrupted \/ RCContactStoreMarkPublished \/ UNCHANGED vars
      PROVE  rows' = rows
  BY <1>6 DEF PageApplied, Interrupted, RCContactStoreMarkPublished, Failed, storeVars, vars
<1> QED
  BY <1>1, <1>3, <1>4, <1>5, <1>6 DEF Next, Fetch

LEMMA AbsenceStep ==
  ASSUME MirrorInv, [Next]_vars, NEW h \in Hrefs, ~rows[h].missing, rows'[h].missing
  PROVE  h \in gone \/ Home[h] \notin found
<1>1. Commit
  BY RowsStay
<1>2. /\ pc = "next" /\ todo = {} /\ rows'[h] = Committed(h)
  BY <1>1 DEF Commit
<1>3. CASE Home[h] \in found
  <2>1. ~RCDAVStageApply(h).seen
    BY <1>2, <1>3, CommittedRow
  <2>2. CASE stage[h].any
    <3>1. RCDAVStageApply(h) = stage[h]
      BY <2>2 DEF RCDAVStageApply
    <3> QED
      BY <1>2, <2>1, <2>2, <3>1 DEF MirrorInv, AbsenceInv, Running
  <2>3. CASE ~stage[h].any
    <3>1. ~keep[Home[h]]
      BY <2>1, <2>3, OutcomeTypes DEF MirrorInv
    <3> QED
      BY <1>2, <1>3, <2>3, <3>1 DEF MirrorInv, AbsenceInv, Running
  <2> QED
    BY <2>2, <2>3
<1> QED
  BY <1>3

-----------------------------------------------------------------------------

(* The inductive invariant: what the pages, the fallbacks and the staged   *)
(* actions of RCFetchContactCollection and RCApplyContactChanges account   *)
(* for at every point of a run.                                            *)
THEOREM MirrorInvariant == Spec => []MirrorInv
<1>1. Init => MirrorInv
  BY MirrorInit
<1>2. MirrorInv /\ [Next]_vars => MirrorInv'
  BY MirrorStep
<1> QED
  BY <1>1, <1>2, PTL DEF Spec

(* The variables of the mirror, the staging area and the server keep their *)
(* types, and nothing stays staged when a run has ended.                   *)
THEOREM MirrorTypes == Spec => []TypeOK
<1>1. MirrorInv => TypeOK
  BY DEF MirrorInv
<1> QED
  BY <1>1, MirrorInvariant, PTL

(* The token RCDAVSyncStateSet saves never skips a change: a member last   *)
(* changed at or before it is in the mirror as the server has it.          *)
THEOREM TokensSkipNothing == Spec => []NoMissedChange
<1>1. MirrorInv => NoMissedChange
  BY DEF MirrorInv
<1> QED
  BY <1>1, MirrorInvariant, PTL

(* A write base RCContactStoreMarkPublished records never pairs the        *)
(* server's current tag with the body of another revision, whatever        *)
(* RCContactStoreSaveResource kept of malformed or untagged downloads.     *)
THEOREM BasesAreHonest == Spec => []BaseIsHonest
<1>1. MirrorInv => BaseIsHonest
  <2>1. SUFFICES ASSUME MirrorInv, NEW h \in Hrefs, bases[h].etag # 0, bases[h].etag = rev[h]
                 PROVE  bases[h].body = rev[h]
    BY DEF BaseIsHonest
  <2>2. rev[h] \in {0, changed[h]} /\ bases[h].etag <= bases[h].body /\ bases[h].body <= changed[h]
    BY <2>1 DEF MirrorInv, SaneInv
  <2>3. changed[h] \in Nat /\ bases[h].body \in Nat
    BY <2>1, MirrorConstants DEF MirrorInv, TypeOK
  <2> QED
    BY <2>1, <2>2, <2>3
<1> QED
  BY <1>1, MirrorInvariant, PTL

(* The commit retires a contact only if it, or its address book, was       *)
(* absent at some moment of the run: RCContactStoreFinishCollection never  *)
(* acts on a partial inventory.                                            *)
THEOREM AbsencesAreReal == Spec => AbsenceIsReal
<1>1. MirrorInv /\ [Next]_vars =>
        [\A h \in Hrefs : ~rows[h].missing /\ rows'[h].missing => h \in gone \/ Home[h] \notin found]_vars
  BY AbsenceStep
<1> QED
  BY <1>1, MirrorInvariant, PTL DEF Spec, AbsenceIsReal

-----------------------------------------------------------------------------
(* The identities of a card's properties (ContactIdentity).                *)

(* An identifier names one row.                                            *)
Owned(t) ==
  \A g, h \in Resources : \A q \in t.rows[g], r \in t.rows[h] : q.id = r.id => g = h /\ q = r

(* A row is a property of the usable card.                                 *)
Described(t) ==
  \A h \in Resources : \A r \in t.rows[h] :
    t.usable[h] # NoCard /\ r.position \in DOMAIN t.usable[h] /\ r.kind = t.usable[h][r.position]

(* What was exported under the identifier of a row is the row's.           *)
RolesAgree(t) ==
  \A h \in Resources : \A r \in t.rows[h] :
    /\ r.id <= drawn
    /\ \A e \in role : e[1] = r.id => e[2] = h /\ e[3] = r.kind

(* What the savepoint of cur has changed by now.                           *)
SaveInv ==
  /\ step = "idle" => tx = db
  /\ step # "idle" =>
       /\ cur \in Resources
       /\ \A h \in Resources : h # cur => tx.rows[h] = db.rows[h] /\ tx.usable[h] = db.usable[h]
       /\ step \in {"retain", "update", "copy", "delete"} => tx.rows[cur] = db.rows[cur]
       /\ step \in {"retain", "update"} => tx.usable[cur] = db.usable[cur]
       /\ step \in {"update", "copy", "delete", "insert"} => card \in Cards
       /\ step \in {"copy", "delete", "insert"} => tx.usable[cur] = card
       /\ step = "insert" =>
            \A r \in tx.rows[cur] : r.position \in DOMAIN card /\ r.kind = card[r.position]
       /\ step = "release" => Described(tx)

(* A remembered identifier is that of the same property in the last card.  *)
KeptInv ==
  step \in {"delete", "insert"} =>
    \A i \in DOMAIN card :
      \/ kept[i] = 0
      \/ \E r \in db.rows[cur] : r.id = kept[i] /\ r.position = i /\ r.kind = card[i]

IdentityInv ==
  /\ IdentityTypeOK /\ step \in {"idle", "retain", "update", "copy", "delete", "insert", "release"}
  /\ Described(db) /\ Owned(db) /\ Owned(tx) /\ RolesAgree(db) /\ RolesAgree(tx)
  /\ SaveInv /\ KeptInv /\ IdentityKeepsItsRole

(* The tables, and what each statement changes of them.                    *)
LEMMA TablesFacts ==
  ASSUME NEW t \in Tables, NEW h \in Resources
  PROVE  /\ t.contact[h] \in Nat /\ t.usable[h] \in Cards \cup {NoCard}
         /\ \A r \in t.rows[h] :
              r.position \in 1 .. MaxProperties /\ r.kind \in Kinds /\ r.id \in Nat \ {0}
  BY DEF Tables

LEMMA ContactInserted ==
  ASSUME NEW t \in Tables, NEW h \in Resources, NEW i \in Nat, NEW u, u = [t EXCEPT !.contact[h] = i]
  PROVE  u \in Tables /\ u.rows = t.rows /\ u.usable = t.usable
  BY DEF Tables

LEMMA CardFacts ==
  ASSUME NEW c \in Cards
  PROVE  c # NoCard /\ DOMAIN c \subseteq 1 .. MaxProperties /\ \A i \in DOMAIN c : c[i] \in Kinds
  BY IdentityConstants DEF Cards

LEMMA IdentityBegins == IdentityInit => IdentityInv
<1> SUFFICES ASSUME IdentityInit PROVE IdentityInv
  OBVIOUS
<1>1. db \in Tables /\ tx = db /\ \A h \in Resources : db.rows[h] = {}
  BY DEF IdentityInit, Tables
<1>2. IdentityTypeOK
  BY <1>1, IdentityConstants DEF IdentityInit, IdentityTypeOK
<1>3. Described(db) /\ Owned(db) /\ Owned(tx) /\ RolesAgree(db) /\ RolesAgree(tx)
  BY <1>1 DEF Described, Owned, RolesAgree
<1>4. SaveInv /\ KeptInv /\ IdentityKeepsItsRole /\ step = "idle"
  BY <1>1 DEF IdentityInit, SaveInv, KeptInv, IdentityKeepsItsRole
<1> QED
  BY <1>2, <1>3, <1>4 DEF IdentityInv

(* A savepoint, with an identifier for a contact that has none.            *)
LEMMA BeginKeeps ==
  ASSUME IdentityInv, NEW h \in Resources, NEW c \in Cards \cup {NoCard}, Begin(h, c)
  PROVE  IdentityInv'
<1>1. db \in Tables /\ tx \in Tables /\ tx = db /\ drawn \in Nat /\ saves \in 0 .. MaxSaves /\ step = "idle"
      /\ role \subseteq (1 .. drawn) \X Resources \X Kinds
  BY DEF Begin, IdentityInv, SaveInv, IdentityTypeOK
<1>2. /\ tx' \in Tables /\ tx'.rows = db.rows /\ tx'.usable = db.usable
      /\ drawn' \in Nat /\ drawn <= drawn'
  <2>1. CASE db.contact[h] # 0
    BY <1>1, <2>1 DEF Begin
  <2>2. CASE db.contact[h] = 0
    <3>1. tx' = [db EXCEPT !.contact[h] = drawn + 1] /\ drawn' = drawn + 1
      BY <2>2 DEF Begin, Fresh
    <3> QED
      BY <1>1, <3>1, ContactInserted
  <2> QED
    BY <2>1, <2>2
<1>3. /\ cur' = h /\ card' = c /\ saves' \in 0 .. MaxSaves /\ UNCHANGED <<db, kept, role>>
      /\ step' = IF c = NoCard THEN "retain" ELSE "update"
  BY <1>1, IdentityConstants DEF Begin
<1>4. IdentityTypeOK'
  <2>1. role' \subseteq (1 .. drawn') \X Resources \X Kinds
    BY <1>1, <1>2, <1>3
  <2> QED
    BY <1>1, <1>2, <1>3, <2>1, IdentityConstants DEF IdentityTypeOK
<1>5. (Described(db) /\ Owned(db) /\ Owned(tx))'
  BY <1>1, <1>2, <1>3 DEF IdentityInv, Described, Owned
<1>6. RolesAgree(db)' /\ RolesAgree(tx)'
  <2>1. \A g \in Resources : \A r \in db.rows[g] : r.id \in Nat
    BY <1>1, TablesFacts
  <2> QED
    BY <1>1, <1>2, <1>3, <2>1 DEF IdentityInv, RolesAgree
<1>7. SaveInv' /\ KeptInv'
  BY <1>1, <1>2, <1>3 DEF SaveInv, KeptInv
<1>8. IdentityKeepsItsRole'
  BY <1>3 DEF IdentityInv, IdentityKeepsItsRole
<1> QED
  BY <1>3, <1>4, <1>5, <1>6, <1>7, <1>8 DEF IdentityInv

(* The steps that only move the save on, and the new usable card.          *)
LEMMA UpdateKeeps ==
  ASSUME IdentityInv, RetainInvalid \/ UpdateContact \/ Inserted
  PROVE  IdentityInv'
<1>1. /\ db \in Tables /\ tx \in Tables /\ step # "idle" /\ cur \in Resources
      /\ UNCHANGED <<db, drawn, saves, cur, card, kept, role>>
  BY DEF IdentityInv, SaveInv, IdentityTypeOK, RetainInvalid, UpdateContact, Inserted
<1>2. /\ tx' \in Tables /\ tx'.rows = tx.rows /\ \A g \in Resources : g # cur => tx'.usable[g] = tx.usable[g]
      /\ step = "update" => tx'.usable[cur] = card
      /\ step # "update" => tx' = tx
  <2>1. CASE UpdateContact
    <3>1. tx' = [tx EXCEPT !.usable[cur] = card] /\ step = "update"
      BY <2>1 DEF UpdateContact
    <3>2. card \in Cards
      BY <3>1 DEF IdentityInv, SaveInv
    <3> QED
      BY <1>1, <3>1, <3>2 DEF Tables
  <2>2. CASE RetainInvalid \/ Inserted
    BY <1>1, <2>2 DEF RetainInvalid, Inserted
  <2> QED
    BY <2>1, <2>2
<1>3. \/ step = "retain" /\ step' = "release"
      \/ step = "update" /\ step' = "copy"
      \/ step = "insert" /\ step' = "release"
  BY DEF RetainInvalid, UpdateContact, Inserted
<1>4. IdentityTypeOK'
  BY <1>1, <1>2, <1>3 DEF IdentityInv, IdentityTypeOK
<1>5. (Described(db) /\ Owned(db) /\ Owned(tx) /\ RolesAgree(db) /\ RolesAgree(tx))'
  BY <1>1, <1>2 DEF IdentityInv, Described, Owned, RolesAgree
<1>6. step' = "release" => Described(tx)'
  <2>1. CASE step = "retain"
    BY <1>1, <1>2, <2>1 DEF IdentityInv, SaveInv, Described
  <2>2. CASE step = "insert"
    <3>1. card \in Cards /\ card # NoCard
      BY <2>2, CardFacts DEF IdentityInv, SaveInv
    <3> QED
      BY <1>1, <1>2, <2>2, <3>1 DEF IdentityInv, SaveInv, Described
  <2> QED
    BY <1>3, <2>1, <2>2
<1>7. SaveInv'
  BY <1>1, <1>2, <1>3, <1>6 DEF IdentityInv, SaveInv
<1>8. KeptInv' /\ IdentityKeepsItsRole'
  BY <1>1, <1>3 DEF IdentityInv, KeptInv, IdentityKeepsItsRole
<1> QED
  BY <1>3, <1>4, <1>5, <1>7, <1>8 DEF IdentityInv

(* Only the same property of the last card hands its identifier on.        *)
LEMMA CopyKeeps ==
  ASSUME IdentityInv, CopyPreviousPropertyIdentifiers
  PROVE  IdentityInv'
<1>1. /\ step = "copy" /\ step' = "delete" /\ cur \in Resources /\ tx.rows[cur] = db.rows[cur]
      /\ UNCHANGED <<db, tx, drawn, saves, cur, card, role>>
  BY DEF IdentityInv, SaveInv, CopyPreviousPropertyIdentifiers
<1>2. IdentityTypeOK' /\ SaveInv' /\ IdentityKeepsItsRole'
      /\ (Described(db) /\ Owned(db) /\ Owned(tx) /\ RolesAgree(db) /\ RolesAgree(tx))'
  <2>1. IdentityTypeOK' /\ IdentityKeepsItsRole'
    BY <1>1 DEF IdentityInv, IdentityTypeOK, IdentityKeepsItsRole
  <2>2. SaveInv'
    BY <1>1 DEF IdentityInv, SaveInv
  <2>3. (Described(db) /\ Owned(db) /\ Owned(tx) /\ RolesAgree(db) /\ RolesAgree(tx))'
    BY <1>1 DEF IdentityInv, Described, Owned, RolesAgree
  <2> QED
    BY <2>1, <2>2, <2>3
<1>3. KeptInv'
  <2> SUFFICES ASSUME NEW i \in DOMAIN card, kept'[i] # 0
               PROVE  \E r \in db.rows[cur] : r.id = kept'[i] /\ r.position = i /\ r.kind = card[i]
    BY <1>1 DEF KeptInv
  <2> DEFINE old == {row \in tx.rows[cur] : SameProperty(row, i)}
  <2>1. kept'[i] = IF old = {} THEN 0 ELSE (CHOOSE row \in old : TRUE).id
    BY DEF CopyPreviousPropertyIdentifiers
  <2>2. old # {}
    BY <2>1
  <2>3. (CHOOSE row \in old : TRUE) \in old
    BY <2>2
  <2> QED
    BY <1>1, <2>1, <2>2, <2>3 DEF SameProperty
<1> QED
  BY <1>1, <1>2, <1>3 DEF IdentityInv

LEMMA DeleteKeeps ==
  ASSUME IdentityInv, DeleteProperties
  PROVE  IdentityInv'
<1>1. /\ db \in Tables /\ tx \in Tables /\ step = "delete" /\ step' = "insert" /\ cur \in Resources
      /\ UNCHANGED <<db, drawn, saves, cur, card, kept, role>>
  BY DEF IdentityInv, SaveInv, IdentityTypeOK, DeleteProperties
<1>2. /\ tx' \in Tables /\ tx'.usable = tx.usable /\ tx'.rows[cur] = {}
      /\ \A g \in Resources \ {cur} : tx'.rows[g] = tx.rows[g]
  <2>1. tx' = [tx EXCEPT !.rows[cur] = {}]
    BY DEF DeleteProperties
  <2>2. {} \in SUBSET [position : 1 .. MaxProperties, kind : Kinds, id : Nat \ {0}]
    OBVIOUS
  <2> QED
    BY <1>1, <2>1, <2>2 DEF Tables
<1>3. \A g \in Resources : \A r \in tx'.rows[g] : r \in tx.rows[g]
  BY <1>2
<1>4. IdentityTypeOK' /\ KeptInv' /\ IdentityKeepsItsRole'
  BY <1>1, <1>2 DEF IdentityInv, IdentityTypeOK, KeptInv, IdentityKeepsItsRole
<1>5. (Described(db) /\ Owned(db) /\ Owned(tx) /\ RolesAgree(db) /\ RolesAgree(tx))'
  BY <1>1, <1>3 DEF IdentityInv, Described, Owned, RolesAgree
<1>6. SaveInv'
  BY <1>1, <1>2 DEF IdentityInv, SaveInv
<1> QED
  BY <1>1, <1>4, <1>5, <1>6 DEF IdentityInv

(* One property: its old identifier, or one that nothing was exported by.  *)
LEMMA InsertKeeps ==
  ASSUME IdentityInv, InsertProperty
  PROVE  IdentityInv'
<1> DEFINE i == Cardinality(tx.rows[cur]) + 1
           id == Identifier(i)
           new == [position |-> i, kind |-> card[i], id |-> id]
<1>1. /\ db \in Tables /\ tx \in Tables /\ drawn \in Nat /\ step = "insert" /\ cur \in Resources
      /\ card \in Cards /\ tx.usable[cur] = card
      /\ role \subseteq (1 .. drawn) \X Resources \X Kinds
      /\ UNCHANGED <<db, saves, cur, card, step, kept, role>>
  BY DEF IdentityInv, SaveInv, IdentityTypeOK, InsertProperty
<1>2. i \in DOMAIN card /\ i \in 1 .. MaxProperties /\ card[i] \in Kinds
  BY <1>1, CardFacts DEF InsertProperty
<1>3. \A h \in Resources : \A r \in tx.rows[h] : r.id # id
  BY DEF InsertProperty
<1>4. /\ id \in Nat \ {0} /\ id <= drawn' /\ drawn' \in Nat /\ drawn <= drawn'
      /\ \A e \in role : e[1] = id => e[2] = cur /\ e[3] = card[i]
  <2>1. CASE kept[i] = 0
    <3>1. id = drawn + 1 /\ drawn' = drawn + 1
      BY <2>1 DEF InsertProperty, Identifier, Fresh
    <3>2. \A e \in role : e[1] # id
      BY <1>1, <3>1
    <3> QED
      BY <1>1, <3>1, <3>2
  <2>2. CASE kept[i] # 0
    <3>1. id = kept[i] /\ drawn' = drawn
      BY <2>2 DEF InsertProperty, Identifier
    <3>2. PICK r \in db.rows[cur] : r.id = kept[i] /\ r.position = i /\ r.kind = card[i]
      BY <1>1, <1>2, <2>2 DEF IdentityInv, KeptInv
    <3>3. r.id \in Nat \ {0}
      BY <1>1, <3>2, TablesFacts
    <3>4. r.id <= drawn /\ \A e \in role : e[1] = r.id => e[2] = cur /\ e[3] = r.kind
      BY <1>1, <3>2 DEF IdentityInv, RolesAgree
    <3> QED
      BY <1>1, <3>1, <3>2, <3>3, <3>4
  <2> QED
    BY <2>1, <2>2
<1>5. new \in [position : 1 .. MaxProperties, kind : Kinds, id : Nat \ {0}]
      /\ new.id = id /\ new.position = i /\ new.kind = card[i]
  BY <1>2, <1>4
<1>6. /\ tx' \in Tables /\ tx'.usable = tx.usable /\ tx'.rows[cur] = tx.rows[cur] \cup {new}
      /\ \A g \in Resources \ {cur} : tx'.rows[g] = tx.rows[g]
  <2>1. tx' = [tx EXCEPT !.rows[cur] = tx.rows[cur] \cup {new}]
    BY DEF InsertProperty
  <2>2. tx.rows[cur] \cup {new} \in SUBSET [position : 1 .. MaxProperties, kind : Kinds, id : Nat \ {0}]
    BY <1>1, <1>5 DEF Tables
  <2> QED
    BY <1>1, <2>1, <2>2 DEF Tables
<1> HIDE DEF i, id, new
<1>7. \A g \in Resources : \A r \in tx'.rows[g] : r \in tx.rows[g] \/ (g = cur /\ r = new)
  BY <1>6
<1>8. IdentityTypeOK' /\ KeptInv' /\ IdentityKeepsItsRole'
  <2>1. role' \subseteq (1 .. drawn') \X Resources \X Kinds
    BY <1>1, <1>4
  <2>2. IdentityTypeOK'
    BY <1>1, <1>4, <1>6, <2>1 DEF IdentityInv, IdentityTypeOK
  <2> QED
    BY <1>1, <2>2 DEF IdentityInv, KeptInv, IdentityKeepsItsRole
<1>9. Described(db)' /\ Owned(db)' /\ RolesAgree(db)'
  <2>1. \A g \in Resources : \A r \in db.rows[g] : r.id \in Nat
    BY <1>1, TablesFacts
  <2> QED
    BY <1>1, <1>4, <2>1 DEF IdentityInv, Described, Owned, RolesAgree
<1>10. Owned(tx)'
  BY <1>3, <1>5, <1>7 DEF IdentityInv, Owned
<1>11. RolesAgree(tx)'
  <2>1. \A g \in Resources : \A r \in tx.rows[g] : r.id \in Nat
    BY <1>1, TablesFacts
  <2> QED
    BY <1>1, <1>4, <1>5, <1>7, <2>1 DEF IdentityInv, RolesAgree
<1>12. SaveInv'
  <2>1. \A r \in tx'.rows[cur] : r.position \in DOMAIN card /\ r.kind = card[r.position]
    BY <1>1, <1>2, <1>5, <1>7 DEF IdentityInv, SaveInv
  <2> QED
    BY <1>1, <1>6, <2>1 DEF IdentityInv, SaveInv
<1> QED
  BY <1>1, <1>8, <1>9, <1>10, <1>11, <1>12 DEF IdentityInv

(* The savepoint ends, kept or rolled back.                                *)
LEMMA ReleaseKeeps ==
  ASSUME IdentityInv, Release \/ Fail
  PROVE  IdentityInv'
<1>1. /\ step' = "idle" /\ cur' = NoHref /\ card' = NoCard /\ tx' = db' /\ UNCHANGED <<drawn, saves, role>>
      /\ \/ db' = db
         \/ db' = tx /\ step = "release"
  BY DEF Release, Fail, Closed
<1>2. db' \in Tables /\ Described(db)' /\ Owned(db)' /\ RolesAgree(db)'
  <2>1. CASE db' = db
    BY <1>1, <2>1 DEF IdentityInv, IdentityTypeOK, Described, Owned, RolesAgree
  <2>2. CASE db' = tx /\ step = "release"
    BY <1>1, <2>2 DEF IdentityInv, IdentityTypeOK, SaveInv, Described, Owned, RolesAgree
  <2> QED
    BY <1>1, <2>1, <2>2
<1>3. Owned(tx)' /\ RolesAgree(tx)'
  BY <1>1, <1>2 DEF Owned, RolesAgree
<1>4. IdentityTypeOK' /\ SaveInv' /\ KeptInv' /\ IdentityKeepsItsRole'
  BY <1>1, <1>2 DEF IdentityInv, IdentityTypeOK, SaveInv, KeptInv, IdentityKeepsItsRole
<1> QED
  BY <1>1, <1>2, <1>3, <1>4 DEF IdentityInv

(* What is exported is what the rows say.                                  *)
LEMMA ExportKeeps ==
  ASSUME IdentityInv, NEW h \in Resources, Export(h)
  PROVE  IdentityInv'
<1>1. /\ step = "idle" /\ tx = db /\ db \in Tables /\ drawn \in Nat
      /\ role \subseteq (1 .. drawn) \X Resources \X Kinds
      /\ role' = role \cup {<<row.id, h, db.usable[h][row.position]>> : row \in db.rows[h]}
      /\ UNCHANGED <<db, tx, drawn, saves, cur, card, step, kept>>
  BY DEF Export, IdentityInv, IdentityTypeOK, SaveInv
<1>2. \A e \in role' : e \in role \/ \E r \in db.rows[h] : e = <<r.id, h, r.kind>>
  BY <1>1 DEF IdentityInv, Described
<1>3. RolesAgree(db)' /\ RolesAgree(tx)'
  BY <1>1, <1>2 DEF IdentityInv, RolesAgree, Owned
<1>4. role' \subseteq (1 .. drawn) \X Resources \X Kinds
  <2> SUFFICES ASSUME NEW r \in db.rows[h] PROVE <<r.id, h, r.kind>> \in (1 .. drawn) \X Resources \X Kinds
    BY <1>1, <1>2
  <2>1. r.id \in Nat \ {0} /\ r.kind \in Kinds
    BY <1>1, TablesFacts
  <2>2. r.id <= drawn
    BY DEF IdentityInv, RolesAgree
  <2> QED
    BY <1>1, <2>1, <2>2
<1>5. IdentityKeepsItsRole'
  <2> SUFFICES ASSUME NEW e \in role', NEW f \in role', e[1] = f[1] PROVE e = f
    BY DEF IdentityKeepsItsRole
  <2>1. CASE e \in role /\ f \in role
    BY <2>1 DEF IdentityInv, IdentityKeepsItsRole
  <2>2. \A r \in db.rows[h], d \in role : d[1] = r.id => d = <<r.id, h, r.kind>>
    BY <1>1 DEF IdentityInv, RolesAgree
  <2>3. \A q, r \in db.rows[h] : q.id = r.id => q = r
    BY DEF IdentityInv, Owned
  <2> QED
    BY <1>2, <2>1, <2>2, <2>3
<1>6. IdentityTypeOK'
  BY <1>1, <1>4 DEF IdentityInv, IdentityTypeOK
<1>7. (SaveInv /\ KeptInv /\ Described(db) /\ Owned(db) /\ Owned(tx))'
  BY <1>1 DEF IdentityInv, SaveInv, KeptInv, Described, Owned
<1> QED
  BY <1>1, <1>3, <1>5, <1>6, <1>7 DEF IdentityInv

LEMMA IdentityStays == IdentityInv /\ [IdentityNext]_identityVars => IdentityInv'
<1> SUFFICES ASSUME IdentityInv, [IdentityNext]_identityVars PROVE IdentityInv'
  OBVIOUS
<1>1. CASE UNCHANGED identityVars
  <2>1. IdentityTypeOK' /\ KeptInv' /\ IdentityKeepsItsRole' /\ step' = step
    BY <1>1 DEF identityVars, IdentityInv, IdentityTypeOK, KeptInv, IdentityKeepsItsRole
  <2>2. SaveInv'
    BY <1>1 DEF identityVars, IdentityInv, SaveInv, Described
  <2>3. (Described(db) /\ Owned(db) /\ Owned(tx) /\ RolesAgree(db) /\ RolesAgree(tx))'
    BY <1>1 DEF identityVars, IdentityInv, Described, Owned, RolesAgree
  <2> QED
    BY <2>1, <2>2, <2>3 DEF IdentityInv
<1>2. CASE RetainInvalid \/ UpdateContact \/ Inserted
  BY <1>2, UpdateKeeps
<1>3. CASE CopyPreviousPropertyIdentifiers
  BY <1>3, CopyKeeps
<1>4. CASE DeleteProperties
  BY <1>4, DeleteKeeps
<1>5. CASE InsertProperty
  BY <1>5, InsertKeeps
<1>6. CASE Release \/ Fail
  BY <1>6, ReleaseKeeps
<1>7. CASE \E h \in Resources : Export(h) \/ \E c \in Cards \cup {NoCard} : Begin(h, c)
  BY <1>7, ExportKeeps, BeginKeeps
<1> QED
  BY <1>1, <1>2, <1>3, <1>4, <1>5, <1>6, <1>7 DEF IdentityNext

(* The facts about the savepoint of RCContactStoreSaveVCard and the rows   *)
(* it replaces hold in every state, whatever statement fails.              *)
THEOREM IdentityInvariant == IdentitySpec => []IdentityInv
BY IdentityBegins, IdentityStays, PTL DEF IdentitySpec

(* An identifier that RCContactStoreForEachAvailableContact has exported   *)
(* never names another contact or a property of another kind later, for    *)
(* any number of contacts, properties and saves.                           *)
THEOREM IdentitiesKeepTheirRole == IdentitySpec => []IdentityKeepsItsRole
<1>1. IdentityInv => IdentityKeepsItsRole
  BY DEF IdentityInv
<1> QED
  BY <1>1, IdentityInvariant, PTL
=============================================================================
