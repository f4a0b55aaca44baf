---------------------------- MODULE OrderCreation ----------------------------
(***************************************************************************)
(* The creation of orders against the menu that administrators edit: the   *)
(* row locks of both, and the unique indexes of names that edits enter, in *)
(* the steps in which PostgreSQL grants them under READ COMMITTED.         *)
(***************************************************************************)
EXTENDS Naturals

CONSTANTS
    MenuItemIds,   \* numbers: the rows of an order are locked in the order of their ids
    CategoryIds,
    Home,          \* the category each item is in at first
    Names,         \* normalized names, lower(btrim(name))
    Called,        \* the name each row has at first
    Buyers,        \* server threads that create orders
    Editors,       \* server threads that edit the menu
    MaxEdits       \* bound: edits that are saved

ASSUME MenuRows ==
    /\ MenuItemIds \subseteq Nat /\ MenuItemIds \cap CategoryIds = {}
    /\ Home \in [MenuItemIds -> CategoryIds]
    /\ Called \in [MenuItemIds \cup CategoryIds -> Names]
    /\ Buyers \cap Editors = {} /\ MaxEdits \in Nat

VARIABLES
    menu,      \* the committed rows of menu_items and categories
    creating,  \* create_order in each buyer's thread
    editing    \* update_admin_menu_item or update_admin_category in each editor's thread

rowsVars == <<menu, creating, editing>>

-----------------------------------------------------------------------------
\* A version stands for the columns an order copies besides the names: price, cost, currency;
\* an edit gives its row one that no row has had. A row is offered when it is active and, if
\* it is an item, available.
ItemRow == [category : CategoryIds, name : Names, offered : BOOLEAN, version : 0..MaxEdits]
CategoryRow == [name : Names, offered : BOOLEAN, version : 0..MaxEdits]

\* The indexes ix_categories_name_normalized_unique and
\* ix_menu_items_category_name_normalized_unique: rows r and s of one table, with the values
\* p and q, have the same key.
SameKey(r, p, s, q) ==
    /\ r \in MenuItemIds <=> s \in MenuItemIds
    /\ p.name = q.name
    /\ r \in MenuItemIds => p.category = q.category

SnapshotOf(i) == [item |-> menu[i], category |-> menu[menu[i].category]]
Lines == [item : ItemRow, category : CategoryRow]
WithLine(lines, i) == [j \in DOMAIN lines \cup {i} |-> IF j = i THEN SnapshotOf(i) ELSE lines[j]]
Orderable(line) == line.item.offered /\ line.category.offered

\* "joined" are the rows of the locking SELECT's join, "todo" those it has still to lock,
\* "held" is what the transaction has locked FOR SHARE.
NoCreation == [pc |-> "idle", joined |-> <<>>, todo |-> {}, held |-> {}, lines |-> <<>>]

\* "to" and "name" hold what a PATCH sets, if it does: the category an item is moved to, the
\* name of the row.
Optional(S) == {{}} \cup {{v} : v \in S}
Edits ==
    [row : MenuItemIds, to : Optional(CategoryIds), name : Optional(Names)]
    \cup [row : CategoryIds, to : {{}}, name : Optional(Names)]
NoEdit == [pc |-> "idle"]

\* An edit waits for its row, holds it, has updated it and waits for the index of names, has
\* entered its name there.
Holding == {"holding", "updating", "entered"}
Editing == [pc : {"waiting"} \cup Holding, edit : Edits]

NotShared(row) == {}   \* mutant: the rows of an order are read without FOR SHARE

\* FOR SHARE and FOR UPDATE exclude each other, and FOR UPDATE itself; only transactions that
\* hold a lock are waited for, those that wait are overtaken.
Sharing(row) == {b \in Buyers : row \in creating[b].held}
Updating(row) == {e \in Editors : editing[e].pc \in Holding /\ editing[e].edit.row = row}

\* Mutant: the target category is locked FOR UPDATE instead of read.
BlocksUpdate(target) == Updating(target) \cup Sharing(target)

\* The foreign key of a moved item takes FOR KEY SHARE on its new category, which only
\* FOR UPDATE excludes; session.get reads the category without a lock.
BlocksReference(target) == Updating(target)

-----------------------------------------------------------------------------
(* create_order                                                            *)

NextItem(b) == CHOOSE i \in creating[b].todo : \A j \in creating[b].todo : i <= j

\* The SELECT joins and sorts what is committed when it starts, then locks row by row.
PlaceOrder(b) ==
    /\ creating[b].pc = "idle"
    /\ \E wanted \in (SUBSET MenuItemIds) \ {{}} :
         creating' = [creating EXCEPT ![b] =
            [NoCreation EXCEPT !.pc = "item", !.todo = wanted,
                               !.joined = [i \in wanted |-> menu[i].category]]]
    /\ UNCHANGED <<menu, editing>>

\* What holds a buyer up: the row it locks next is being updated.
BlocksRead(b) ==
    CASE creating[b].pc = "item" /\ creating[b].todo # {} -> Updating(NextItem(b))
      [] creating[b].pc = "category" -> Updating(creating[b].joined[NextItem(b)])
      [] OTHER -> {}

LockItem(b) ==
    /\ creating[b].pc = "item" /\ creating[b].todo # {}
    /\ BlocksRead(b) = {}
    /\ creating' = [creating EXCEPT ![b].pc = "category", ![b].held = @ \cup {NextItem(b)}]
    /\ UNCHANGED <<menu, editing>>

\* The rows are read again when both are locked; one that no longer joins is dropped.
LockCategory(b) ==
    LET i == NextItem(b)
        c == creating[b].joined[i]
    IN /\ creating[b].pc = "category"
       /\ BlocksRead(b) = {}
       /\ creating' = [creating EXCEPT
            ![b].pc = "item", ![b].held = @ \cup {c}, ![b].todo = @ \ {i},
            ![b].lines = IF menu[i].category = c THEN WithLine(@, i) ELSE @]
       /\ UNCHANGED <<menu, editing>>

\* Validation, the INSERTs and the commit, which releases the locks.
CreateOrder(b) ==
    LET lines == creating[b].lines
    IN /\ creating[b].pc = "item" /\ creating[b].todo = {}
       /\ creating' = [creating EXCEPT
            ![b] = [NoCreation EXCEPT !.pc =
                IF DOMAIN lines = DOMAIN creating[b].joined /\ \A i \in DOMAIN lines : Orderable(lines[i])
                THEN "created" ELSE "refused"]]
       /\ UNCHANGED <<menu, editing>>

\* The answer is sent; or the transaction failed and was rolled back.
EndCreation(b) ==
    /\ creating[b].pc # "idle"
    /\ creating' = [creating EXCEPT ![b] = NoCreation]
    /\ UNCHANGED <<menu, editing>>

-----------------------------------------------------------------------------
(* update_admin_menu_item, update_admin_category                           *)

BeginEdit(e) ==
    /\ editing[e].pc = "idle"
    /\ \A r \in DOMAIN menu : menu[r].version < MaxEdits   \* the bound: one more can be saved
    /\ \E edit \in Edits : editing' = [editing EXCEPT ![e] = [pc |-> "waiting", edit |-> edit]]
    /\ UNCHANGED <<menu, creating>>

\* The row after the PATCH, and the rows of the table that it would be confused with.
Chosen(set, old) == IF set = {} THEN old ELSE CHOOSE v \in set : TRUE
Patched(e) ==
    LET edit == editing[e].edit
        row == [menu[edit.row] EXCEPT !.name = Chosen(edit.name, @)]
    IN IF edit.to = {} THEN row ELSE [row EXCEPT !.category = Chosen(edit.to, @)]
Asks(e, r, row) == SameKey(editing[e].edit.row, Patched(e), r, row)

\* A unique index waits for the transactions that have not ended and whose update gave up the
\* key, or entered it; a row that is only locked is a row like others.
BlocksName(e) ==
    {f \in Editors \ {e} :
        \/ editing[f].pc \in {"updating", "entered"} /\ Asks(e, editing[f].edit.row, menu[editing[f].edit.row])
        \/ editing[f].pc = "entered" /\ Asks(e, editing[f].edit.row, Patched(f))}

\* What holds an editor up: its row is read or updated; its name is in doubt; or the category
\* it moves the item to is updated.
BlocksEdit(e) ==
    CASE editing[e].pc = "waiting" -> Sharing(editing[e].edit.row) \cup Updating(editing[e].edit.row)
      [] editing[e].pc = "updating" -> BlocksName(e)
      [] editing[e].pc = "entered" ->
           UNION {BlocksReference(c) : c \in {d \in editing[e].edit.to : d # menu[editing[e].edit.row].category}}
      [] OTHER -> {}

Proceed(e, from, to) ==
    /\ editing[e].pc = from
    /\ BlocksEdit(e) = {}
    /\ editing' = [editing EXCEPT ![e].pc = to]
    /\ UNCHANGED <<menu, creating>>

LockForUpdate(e) == Proceed(e, "waiting", "holding")

\* The flush: the UPDATE writes the row, then enters its key in the index, unless a row has it,
\* and last checks the foreign key.
FlushUpdate(e) == Proceed(e, "holding", "updating")

EnterName(e) ==
    /\ Proceed(e, "updating", "entered")
    /\ \A r \in DOMAIN menu \ {editing[e].edit.row} : ~Asks(e, r, menu[r])

\* The end of the flush, and the commit.
SaveEdit(e) ==
    /\ editing[e].pc = "entered"
    /\ BlocksEdit(e) = {}
    /\ LET row == editing[e].edit.row IN
       \E offered \in BOOLEAN, version \in 1..MaxEdits :
          /\ \A r \in DOMAIN menu : menu[r].version < version
          /\ menu' = [menu EXCEPT ![row] = [Patched(e) EXCEPT !.offered = offered, !.version = version]]
    /\ editing' = [editing EXCEPT ![e] = NoEdit]
    /\ UNCHANGED creating

\* A name that is taken, a circle of waits that PostgreSQL breaks, or any other failure of the
\* transaction.
AbandonEdit(e) ==
    /\ editing[e].pc # "idle"
    /\ editing' = [editing EXCEPT ![e] = NoEdit]
    /\ UNCHANGED <<menu, creating>>

-----------------------------------------------------------------------------
RowsInit ==
    /\ menu = [r \in MenuItemIds \cup CategoryIds |->
                 IF r \in MenuItemIds
                 THEN [category |-> Home[r], name |-> Called[r], offered |-> TRUE, version |-> 0]
                 ELSE [name |-> Called[r], offered |-> TRUE, version |-> 0]]
    /\ creating = [b \in Buyers |-> NoCreation]
    /\ editing = [e \in Editors |-> NoEdit]

RowsNext ==
    \/ \E b \in Buyers :
         PlaceOrder(b) \/ LockItem(b) \/ LockCategory(b) \/ CreateOrder(b) \/ EndCreation(b)
    \/ \E e \in Editors :
         BeginEdit(e) \/ LockForUpdate(e) \/ FlushUpdate(e) \/ EnterName(e) \/ SaveEdit(e) \/ AbandonEdit(e)

RowsSpec == RowsInit /\ [][RowsNext]_rowsVars

-----------------------------------------------------------------------------
Picks(S) == UNION {[wanted -> S] : wanted \in SUBSET MenuItemIds}
Creations == [pc : {"idle", "item", "category", "created", "refused"}, joined : Picks(CategoryIds),
              todo : SUBSET MenuItemIds, held : SUBSET (MenuItemIds \cup CategoryIds), lines : Picks(Lines)]

RowsTypeOK ==
    /\ DOMAIN menu = MenuItemIds \cup CategoryIds
    /\ \A i \in MenuItemIds : menu[i] \in ItemRow
    /\ \A c \in CategoryIds : menu[c] \in CategoryRow
    /\ creating \in [Buyers -> Creations]
    /\ \A b \in Buyers :
         /\ creating[b].todo \cup DOMAIN creating[b].lines \subseteq DOMAIN creating[b].joined
         /\ creating[b].pc = "category" => creating[b].todo # {}
    /\ editing \in [Editors -> Editing \cup {NoEdit}]

\* The rows are locked one after another, but an order is a picture of the menu at one
\* moment: when it is committed, every line it read, the first one included, is still what
\* the menu says, and may still be ordered.
SnapshotsAreCurrent ==
    [][\A b \in Buyers : creating[b].pc = "item" /\ creating'[b].pc = "created" =>
          \A i \in DOMAIN creating[b].joined :
             creating[b].lines[i] = SnapshotOf(i) /\ Orderable(SnapshotOf(i))]_rowsVars

\* Edits that trade names or places: each one has updated its row and asks for the key that
\* the row of another one has in the menu.
Trade(U) ==
    \A e \in U :
       /\ editing[e].pc = "updating"
       /\ \E f \in U : /\ f \in BlocksName(e)
                       /\ editing[f].edit.row # editing[e].edit.row
                       /\ Asks(e, editing[f].edit.row, menu[editing[f].edit.row])

\* Row locks, the index of names and foreign keys together are awaited in a circle only where
\* edits trade: every set of transactions in which each waits for another of the set holds
\* edits that do. So no buyer is part of a circle, nor are edits of which none asks for a
\* name or place that another one leaves.
Blocks(t) == IF t \in Buyers THEN BlocksRead(t) ELSE BlocksEdit(t)
CirclesAreTrades ==
    \A T \in (SUBSET (Buyers \cup Editors)) \ {{}} :
       (\A t \in T : Blocks(t) \cap T # {}) => \E U \in (SUBSET (T \cap Editors)) \ {{}} : Trade(U)
=============================================================================
