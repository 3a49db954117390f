--------------------------- MODULE ContactIdentity ---------------------------
(***************************************************************************)
(* The identities of contacts and of their properties in RCContactStore.c. *)
(* Each property (a number, an address) is exported as a record of its     *)
(* own, so its random identifier has to survive every later save of the    *)
(* card.  RCContactStoreSaveResource replaces all property rows of a card  *)
(* inside a savepoint: remember the old identifiers, delete, insert one by *)
(* one.  Any statement can fail, and the process can end, in between.      *)
(*                                                                         *)
(* A card is the sequence of its properties' kinds (group and name): what  *)
(* the lookup compares.  Values never take part.                           *)
(***************************************************************************)
EXTENDS Naturals, Sequences, FiniteSets

CONSTANTS
  Resources,
  Kinds,
  MaxProperties,  \* bound: properties of a card
  MaxSaves,       \* bound: saves begun
  NoHref,
  NoCard

Cards == UNION {[1 .. n -> Kinds] : n \in 0 .. MaxProperties}

ASSUME IdentityConstants ==
  /\ MaxProperties \in Nat /\ MaxSaves \in Nat
  /\ NoHref \notin Resources /\ NoCard \notin Cards

VARIABLES
  db,     \* the committed tables
  tx,     \* the tables inside the savepoint
  drawn,  \* how many identifiers have been drawn
  saves,
  cur,    \* the resource being saved, NoHref outside the savepoint
  card,   \* its parsed card, NoCard when it does not parse
  step,
  kept,   \* identifiers remembered, by position
  role    \* history: <<identifier, href, kind>> of every record exported

identityVars == <<db, tx, drawn, saves, cur, card, step, kept, role>>

Tables == [contact : [Resources -> Nat],                 \* contacts.sync_record_id, 0: no row
           usable  : [Resources -> Cards \cup {NoCard}], \* usable_vcard
           rows    : [Resources -> SUBSET [position : 1 .. MaxProperties, kind : Kinds, id : Nat \ {0}]]]

IdentityInit ==
  /\ db = [contact |-> [h \in Resources |-> 0], usable |-> [h \in Resources |-> NoCard],
           rows    |-> [h \in Resources |-> {}]]
  /\ tx = db /\ drawn = 0 /\ saves = 0
  /\ cur = NoHref /\ card = NoCard /\ step = "idle" /\ kept = <<>> /\ role = {}

(* randomblob(16): never drawn before, so the identifiers are numbered as  *)
(* they are drawn.                                                         *)
Fresh == drawn + 1

-----------------------------------------------------------------------------
(* Saving a resource.                                                      *)

(* SAVEPOINT, and INSERT OR IGNORE INTO contacts.                          *)
Begin(h, c) ==
  /\ step = "idle" /\ saves < MaxSaves /\ saves' = saves + 1
  /\ cur' = h /\ card' = c
  /\ IF db.contact[h] # 0 THEN tx' = db /\ UNCHANGED drawn
     ELSE tx' = [db EXCEPT !.contact[h] = Fresh] /\ drawn' = Fresh
  /\ step' = IF c = NoCard THEN "retain" ELSE "update"
  /\ UNCHANGED <<db, kept, role>>

(* A card that does not parse keeps its raw bytes and its error; the       *)
(* usable card and its properties stay.                                    *)
RetainInvalid ==
  /\ step = "retain" /\ step' = "release"
  /\ UNCHANGED <<db, tx, drawn, saves, cur, card, kept, role>>

UpdateContact ==
  /\ step = "update" /\ step' = "copy"
  /\ tx' = [tx EXCEPT !.usable[cur] = card]
  /\ UNCHANGED <<db, drawn, saves, cur, card, kept, role>>

(* Faulty variant: the position alone identifies a property.               *)
SameSlot(row, i) == row.position = i

(* Same position, group and name.                                          *)
SameProperty(row, i) == row.position = i /\ row.kind = card[i]

CopyPreviousPropertyIdentifiers ==
  /\ step = "copy" /\ step' = "delete"
  /\ kept' = [i \in DOMAIN card |->
       LET old == {row \in tx.rows[cur] : SameProperty(row, i)}
       IN IF old = {} THEN 0 ELSE (CHOOSE row \in old : TRUE).id]
  /\ UNCHANGED <<db, tx, drawn, saves, cur, card, role>>

DeleteProperties ==
  /\ step = "delete" /\ step' = "insert"
  /\ tx' = [tx EXCEPT !.rows[cur] = {}]
  /\ UNCHANGED <<db, drawn, saves, cur, card, kept, role>>

(* COALESCE(the remembered identifier, a new one).                         *)
Identifier(i) == IF kept[i] # 0 THEN kept[i] ELSE Fresh

(* One row at a time; sync_record_id is UNIQUE, a repeat fails the save.   *)
InsertProperty ==
  LET i == Cardinality(tx.rows[cur]) + 1
      id == Identifier(i)
  IN /\ step = "insert" /\ i \in DOMAIN card
     /\ \A h \in Resources : \A row \in tx.rows[h] : row.id # id
     /\ tx' = [tx EXCEPT !.rows[cur] = @ \cup {[position |-> i, kind |-> card[i], id |-> id]}]
     /\ drawn' = IF kept[i] # 0 THEN drawn ELSE Fresh
     /\ UNCHANGED <<db, saves, cur, card, step, kept, role>>

Inserted ==
  /\ step = "insert" /\ Cardinality(tx.rows[cur]) = Len(card)
  /\ step' = "release"
  /\ UNCHANGED <<db, tx, drawn, saves, cur, card, kept, role>>

Closed == cur' = NoHref /\ card' = NoCard /\ step' = "idle" /\ kept' = <<>>

Release ==
  /\ step = "release"
  /\ db' = tx /\ UNCHANGED tx
  /\ Closed
  /\ UNCHANGED <<drawn, saves, role>>

(* A failing statement, a full disk, or the end of the process: the        *)
(* savepoint is rolled back.                                               *)
Fail ==
  /\ step # "idle"
  /\ tx' = db /\ UNCHANGED db
  /\ Closed
  /\ UNCHANGED <<drawn, saves, role>>

-----------------------------------------------------------------------------
(* Exporting: parse the usable card, look up each property's identifier by *)
(* its position.                                                           *)

SyncIdentifiers(h, i) == {row.id : row \in {r \in db.rows[h] : r.position = i}}

Export(h) ==
  /\ step = "idle" /\ db.usable[h] # NoCard
  /\ \A i \in DOMAIN db.usable[h] : SyncIdentifiers(h, i) # {}
  /\ role' = role \cup {<<row.id, h, db.usable[h][row.position]>> : row \in db.rows[h]}
  /\ UNCHANGED <<db, tx, drawn, saves, cur, card, step, kept>>

IdentityNext ==
  \/ RetainInvalid \/ UpdateContact \/ CopyPreviousPropertyIdentifiers \/ DeleteProperties
  \/ InsertProperty \/ Inserted \/ Release \/ Fail
  \/ \E h \in Resources : Export(h) \/ \E c \in Cards \cup {NoCard} : Begin(h, c)

IdentitySpec == IdentityInit /\ [][IdentityNext]_identityVars

-----------------------------------------------------------------------------
(* Properties.                                                             *)

(* Types; the savepoint is open exactly while a resource is saved.         *)
IdentityTypeOK ==
  /\ db \in Tables /\ tx \in Tables
  /\ drawn \in Nat /\ saves \in 0 .. MaxSaves
  /\ cur \in Resources \cup {NoHref} /\ (cur = NoHref) = (step = "idle")
  /\ card \in Cards \cup {NoCard}
  /\ role \subseteq (1 .. drawn) \X Resources \X Kinds

(* An exported identifier never names another contact or a property of     *)
(* another kind later: the native store would turn a telephone number into *)
(* an address.                                                             *)
IdentityKeepsItsRole ==
  \A a \in role, b \in role : a[1] = b[1] => a = b

=============================================================================
