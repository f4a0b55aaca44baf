----------------------------- MODULE AdminMenu -----------------------------
(***************************************************************************)
(* The menu page of the administrator: one of its two sections (categories *)
(* or menu items) with its list, its form and its submissions, against the *)
(* rows of the service, which other administrators change too.  The other  *)
(* section is only what it does to the category choices of the item form.  *)
(***************************************************************************)
EXTENDS AdminApi, Integers, Sequences, FiniteSets

CONSTANTS
    Fields,         \* writable fields of a row
    Values,         \* what a field may hold
    PageLimit,      \* rows of one list page (PAGE_LIMIT)
    MaxRows,        \* bound: rows of the service
    MaxTyped,       \* bound: fields typed into in one form
    MaxSaves,       \* bound: submissions of this page
    MaxElsewhere    \* bound: changes of other administrators

ASSUME MenuBounds ==
    /\ Values # {}
    /\ PageLimit \in Nat \ {0} /\ MaxRows \in Nat /\ MaxSaves \in Nat /\ MaxElsewhere \in Nat

VARIABLES
    section,    \* the section looked at: "category" or "item"
    rows,       \* the rows of the service, in the order of its lists
    left,       \* submissions and changes elsewhere still to come (a bound)
    page,       \* the section's list, lock and notice
    load,       \* the list request in progress
    editor,     \* the section's form
    choices,    \* categoryOptions, and the form that waits for them
    save,       \* the last submission of the form
    stray       \* mutations that may still reach the service, nobody waiting for them

menuVars == <<section, rows, left, page, load, editor, choices, save, stray>>

-----------------------------------------------------------------------------
(* Lists.                                                                  *)

Row == [Fields -> Values]
Patch == UNION {[S -> Values] : S \in SUBSET Fields}

Least(a, b) == IF a <= b THEN a ELSE b

\* One page of the list, for the offset that was asked for: the service counts the rows, then
\* reads those from the offset on, in two statements.
NoList == [from |-> 0, total |-> 0, items |-> <<>>]
CountedFrom(offset) == [from |-> offset, total |-> Len(rows), items |-> <<>>]
WithRows(list) == [list EXCEPT !.items = SubSeq(rows, list.from + 1, Least(list.from + PageLimit, Len(rows)))]

NoLoad == [pc |-> "none", from |-> 0, list |-> NoList]
Asking(from) == [NoLoad EXCEPT !.pc = "asked", !.from = from]

-----------------------------------------------------------------------------
(* The form: a draft that starts from the row it was opened on.  "touched" *)
(* and "mixed" are history: the fields the administrator changed, and      *)
(* whether the row under an open draft was exchanged for another one.      *)

NoRow == [f \in Fields |-> CHOOSE v \in Values : TRUE]
Closed == [open |-> FALSE, at |-> 0, base |-> NoRow, draft |-> NoRow, touched |-> {}, mixed |-> FALSE]
OpenOn(at, row) ==
    [open |-> TRUE, at |-> at, base |-> row, draft |-> row, touched |-> {}, mixed |-> FALSE]

\* Mutant: the whole form is sent.
WholePayload == [f \in Fields |-> editor.draft[f]]

\* All of a new row (at = 0), of an old one what differs from the row under the form.
Payload ==
    [f \in {g \in Fields : editor.at = 0 \/ editor.draft[g] # editor.base[g]} |-> editor.draft[f]]

FormShown == editor.open /\ (section = "category" \/ choices.kind = "success")

\* The form is keyed by its row: opened again on the same row while it is shown it keeps its
\* draft.
Reopened(at, row) ==
    IF FormShown /\ editor.at = at
    THEN [editor EXCEPT !.base = row, !.mixed = @ \/ editor.base # row]
    ELSE OpenOn(at, row)
Busy == save.pc # "idle"

\* "waiting" is the form whose choices have been asked for, if there is one.
NoChoices == [kind |-> "idle", waiting |-> {}]

\* When the choices go the item form goes, and returns with a new draft of its row.
FormUnder(e, kind) ==
    IF section = "item" /\ kind # "success" /\ e.open THEN OpenOn(e.at, e.base) ELSE e

NoSave == [pc |-> "idle", at |-> 0, patch |-> <<>>, done |-> FALSE, from |-> 0, list |-> NoList]
Finished == [NoSave EXCEPT !.done = save.done]

-----------------------------------------------------------------------------
(* What the section offers.                                                *)

\* CategoryResults and the two Pagination controls.
ListControls ==
    IF page.shown # "success" THEN {}
    ELSE {<<"edit", page.list.from + i>> : i \in DOMAIN page.list.items}
         \cup (IF page.offset > 0 /\ page.list.total > 0 THEN {<<"turn", page.offset - PageLimit>>} ELSE {})
         \cup (IF page.offset + Len(page.list.items) < page.list.total
               THEN {<<"turn", page.offset + PageLimit>>} ELSE {})

\* The section's header and panels; an error panel's Retry is there while a form is busy.
CategoryControls ==
    ListControls
    \cup (IF Busy THEN {} ELSE {<<"edit", 0>>})
    \cup (IF page.shown = "error" \/ (page.shown = "success" /\ ~Busy) THEN {<<"load", 0>>} ELSE {})

\* A new item also waits for choices that are being loaded, and needs a loaded category
\* (which the other section may have or not).
ItemControls ==
    CategoryControls \ (IF choices.kind = "loading" THEN {<<"edit", 0>>} ELSE {})

Controls == IF ~page.on THEN {} ELSE IF section = "category" THEN CategoryControls ELSE ItemControls

\* CategoryForm; the item form's controls differ only in that a row in another currency
\* is never submitted.
FormControls ==
    IF ~page.on \/ ~FormShown THEN {}
    ELSE {"type"} \cup (IF Busy THEN {} ELSE {"cancel"})
                  \cup (IF Busy \/ page.locked THEN {} ELSE {"submit"})

-----------------------------------------------------------------------------
(* The page comes and goes.                                                *)

\* "doubt": a load's 403 waits for the session to be checked.
NewPage == [on |-> TRUE, offset |-> 0, shown |-> "loading", list |-> NoList, locked |-> FALSE,
            notice |-> "none", doubt |-> FALSE]

MenuInit ==
    /\ section \in {"category", "item"}
    /\ rows = <<NoRow>>
    /\ left = [saves |-> MaxSaves, elsewhere |-> MaxElsewhere]
    /\ page = NewPage
    /\ load = Asking(0)
    /\ editor = Closed
    /\ choices = NoChoices
    /\ save = NoSave
    /\ stray = {}

\* Unmounting aborts the loads; a submission goes on, but nobody hears of it.
Off ==
    /\ page' = [NewPage EXCEPT !.on = FALSE]
    /\ load' = NoLoad
    /\ editor' = Closed
    /\ choices' = NoChoices
    /\ save' = NoSave
    /\ stray' = IF save.pc = "asked" /\ ~save.done THEN stray \cup {[at |-> save.at, patch |-> save.patch]}
                ELSE stray

MenuLeave == page.on /\ Off /\ UNCHANGED <<section, rows, left>>

MenuVisit ==
    /\ ~page.on
    /\ page' = NewPage
    /\ load' = Asking(0)
    /\ UNCHANGED <<section, rows, left, editor, choices, save, stray>>

-----------------------------------------------------------------------------
(* Loading the list: loadCategories, loadItems.                            *)

Loading(p) == [p EXCEPT !.shown = "loading", !.list = NoList, !.notice = "none"]

\* Any list that comes releases the form, one asked for before an uncertain save too.
Shown(p, list) == [p EXCEPT !.shown = "success", !.list = list, !.locked = FALSE]

\* A new load supersedes the one in progress.
Reload ==
    /\ <<"load", 0>> \in Controls
    /\ page' = Loading(page)
    /\ load' = Asking(page.offset)
    /\ UNCHANGED <<section, rows, left, editor, choices, save, stray>>

\* A change of offset aborts the load in progress and starts another one.
Turn ==
    \E o \in {c[2] : c \in {d \in Controls : d[1] = "turn"}} :
        /\ page' = [Loading(page) EXCEPT !.offset = IF o < 0 THEN 0 ELSE o]
        /\ load' = Asking(IF o < 0 THEN 0 ELSE o)
        /\ UNCHANGED <<section, rows, left, editor, choices, save, stray>>

CountList ==
    /\ load.pc = "asked"
    /\ load' = [load EXCEPT !.pc = "counted", !.list = CountedFrom(load.from)]
    /\ UNCHANGED <<section, rows, left, page, editor, choices, save, stray>>

ReadList ==
    /\ load.pc = "counted"
    /\ load' = [load EXCEPT !.pc = "read", !.list = WithRows(@)]
    /\ UNCHANGED <<section, rows, left, page, editor, choices, save, stray>>

ListArrives ==
    /\ load.pc = "read"
    /\ page' = Shown(page, load.list)
    /\ load' = NoLoad
    /\ UNCHANGED <<section, rows, left, editor, choices, save, stray>>

ListFails ==
    /\ load.pc \in {"asked", "counted", "read"}
    /\ \/ Off                                                           \* 401
       \/ /\ page' \in {[page EXCEPT !.doubt = TRUE],                    \* 403
                        [page EXCEPT !.shown = "error", !.list = NoList]}  \* any other
          /\ load' = NoLoad
          /\ UNCHANGED <<editor, choices, save, stray>>
    /\ UNCHANGED <<section, rows, left>>

\* refreshCurrentUser has answered a load's 403: the page goes with the session, or shows
\* an error, whatever it has shown in the meantime.
DoubtEnds ==
    /\ page.on /\ page.doubt
    /\ \/ Off
       \/ /\ page' = [page EXCEPT !.doubt = FALSE, !.shown = "error", !.list = NoList]
          /\ UNCHANGED <<load, editor, choices, save, stray>>
    /\ UNCHANGED <<section, rows, left>>

-----------------------------------------------------------------------------
(* The form: openCategoryEditor, openItemEditor, typing, cancel.           *)

\* Without choices the item form waits for them; a later click takes the place of the one
\* that waited.
Edit ==
    \E at \in {c[2] : c \in {d \in Controls : d[1] = "edit"}} :
        LET row == IF at = 0 THEN NoRow ELSE page.list.items[at - page.list.from]
        IN  /\ page' = IF page.locked THEN page ELSE [page EXCEPT !.notice = "none"]
            /\ IF section = "category" \/ choices.kind = "success"
               THEN editor' = Reopened(at, row) /\ UNCHANGED choices
               ELSE choices' = [kind |-> "loading", waiting |-> {[at |-> at, row |-> row]}] /\ UNCHANGED editor
            /\ UNCHANGED <<section, rows, left, load, save, stray>>

ChoicesArrive ==
    \E form \in choices.waiting :
        /\ choices' = [kind |-> "success", waiting |-> {}]
        /\ editor' = Reopened(form.at, form.row)
        /\ UNCHANGED <<section, rows, left, page, load, save, stray>>

ChoicesFail ==
    /\ choices.waiting # {}
    /\ \/ Off
       \/ /\ choices' = [kind |-> "error", waiting |-> {}]
          /\ editor' = FormUnder(editor, "error")
          /\ UNCHANGED <<page, load, save, stray>>
    /\ UNCHANGED <<section, rows, left>>

\* The category section loaded every category, or part of them, or changed one; choices that
\* have been asked for still come.
ChoicesChange ==
    /\ page.on /\ section = "item"
    /\ \E kind \in {"idle", "success"} :
        /\ choices' = [choices EXCEPT !.kind = kind]
        /\ editor' = FormUnder(editor, kind)
    /\ UNCHANGED <<section, rows, left, page, load, save, stray>>

Type ==
    /\ "type" \in FormControls
    /\ \E f \in Fields, v \in Values :
        /\ v # editor.draft[f] /\ Cardinality(editor.touched \cup {f}) <= MaxTyped
        /\ editor' = [editor EXCEPT !.draft[f] = v, !.touched = @ \cup {f}]
    /\ UNCHANGED <<section, rows, left, page, load, choices, save, stray>>

Cancel ==
    /\ "cancel" \in FormControls
    /\ editor' = Closed
    /\ UNCHANGED <<section, rows, left, page, load, choices, save, stray>>

-----------------------------------------------------------------------------
(* handleCategorySubmit, handleItemSubmit.                                 *)

Submit ==
    /\ "submit" \in FormControls
    /\ DOMAIN Payload # {}
    /\ left.saves > 0
    /\ left' = [left EXCEPT !.saves = @ - 1]
    /\ save' = [NoSave EXCEPT !.pc = "asked", !.at = editor.at, !.patch = Payload, !.from = page.offset]
    /\ page' = [page EXCEPT !.notice = "none"]
    /\ UNCHANGED <<section, rows, load, editor, choices, stray>>

\* The service's transaction: a new row, or the fields sent over the locked row.
Over(patch, row) == [f \in Fields |-> IF f \in DOMAIN patch THEN patch[f] ELSE row[f]]
Applied(at, patch) ==
    IF at = 0 THEN Append(rows, Over(patch, NoRow)) ELSE [rows EXCEPT ![at] = Over(patch, @)]

ServeSave ==
    /\ save.pc = "asked" /\ ~save.done
    /\ save.at = 0 => Len(rows) < MaxRows
    /\ rows' = Applied(save.at, save.patch)
    /\ save' = [save EXCEPT !.done = TRUE]
    /\ UNCHANGED <<section, left, page, load, editor, choices, stray>>

\* The form that is open now is closed, and the list of the offset of then is read.
SaveArrives ==
    /\ save.pc = "asked" /\ save.done
    /\ save' = [save EXCEPT !.pc = "listing", !.at = 0, !.patch = <<>>]
    /\ editor' = Closed
    /\ UNCHANGED <<section, rows, left, page, load, choices, stray>>

SaveFails ==
    /\ save.pc = "asked"
    /\ \E o \in Failures :
        /\ save.done => Ambiguous(o)
        /\ CASE o = "401" -> Off
             [] o = "403" -> save' = [save EXCEPT !.pc = "judged"] /\ UNCHANGED <<page, load, editor, choices, stray>>
             [] o = "404" -> /\ page' = Loading(page)
                             /\ load' = Asking(save.from)
                             /\ editor' = Closed
                             /\ choices' = [choices EXCEPT !.kind = "idle"]
                             /\ save' = Finished
                             /\ UNCHANGED stray
             [] Ambiguous(o) -> /\ page' = [page EXCEPT !.locked = TRUE, !.notice = "uncertain"]
                                /\ stray' = IF save.done THEN stray
                                            ELSE stray \cup {[at |-> save.at, patch |-> save.patch]}
                                /\ save' = Finished
                                /\ UNCHANGED <<load, editor, choices>>
             [] OTHER -> /\ page' = [page EXCEPT !.notice = "refused"]
                         /\ save' = Finished
                         /\ UNCHANGED <<load, editor, choices, stray>>
    /\ UNCHANGED <<section, rows, left>>

CountAfterSave ==
    /\ save.pc = "listing"
    /\ save' = [save EXCEPT !.pc = "counted", !.list = CountedFrom(save.from)]
    /\ UNCHANGED <<section, rows, left, page, load, editor, choices, stray>>

ReadAfterSave ==
    /\ save.pc = "counted"
    /\ save' = [save EXCEPT !.pc = "listed", !.list = WithRows(@)]
    /\ UNCHANGED <<section, rows, left, page, load, editor, choices, stray>>

ListAfterSaveArrives ==
    /\ save.pc = "listed"
    /\ page' = [Shown(page, save.list) EXCEPT !.notice = "saved"]
    /\ save' = Finished
    /\ UNCHANGED <<section, rows, left, load, editor, choices, stray>>

ListAfterSaveFails ==
    /\ save.pc \in {"listing", "counted", "listed"}
    /\ \/ Off                                                           \* 401
       \/ /\ save' = [save EXCEPT !.pc = "judged"]                        \* 403
          /\ UNCHANGED <<page, load, editor, choices, stray>>
       \/ /\ page' = [page EXCEPT !.notice = "saved"]                    \* any other
          /\ save' = Finished
          /\ UNCHANGED <<load, editor, choices, stray>>
    /\ UNCHANGED <<section, rows, left>>

\* refreshCurrentUser has answered the 403 of the submission or of the list after it.
SaveDoubtEnds ==
    /\ save.pc = "judged"
    /\ \/ Off
       \/ /\ page' = [page EXCEPT !.notice = IF save.done THEN "saved" ELSE "refused"]
          /\ save' = Finished
          /\ UNCHANGED <<load, editor, choices, stray>>
    /\ UNCHANGED <<section, rows, left>>

-----------------------------------------------------------------------------
(* Requests nobody waits for, and other administrators.                    *)

StrayServed ==
    \E m \in stray :
        /\ m.at = 0 => Len(rows) < MaxRows
        /\ stray' = stray \ {m}
        /\ rows' \in {Applied(m.at, m.patch), rows}
        /\ UNCHANGED <<section, left, page, load, editor, choices, save>>

\* Another administrator's save: one field of a row, or a new row.
ChangeElsewhere ==
    /\ left.elsewhere > 0
    /\ left' = [left EXCEPT !.elsewhere = @ - 1]
    /\ \/ \E at \in DOMAIN rows, f \in Fields, v \in Values : rows' = Applied(at, [g \in {f} |-> v])
       \/ Len(rows) < MaxRows /\ rows' = Applied(0, NoRow)
    /\ UNCHANGED <<section, page, load, editor, choices, save, stray>>

ByAdministrator == MenuLeave \/ MenuVisit \/ Reload \/ Turn \/ Edit \/ Type \/ Cancel \/ Submit
OfRequests ==
    \/ CountList \/ ReadList \/ ListArrives \/ ListFails \/ DoubtEnds \/ ChoicesArrive \/ ChoicesFail
    \/ ServeSave \/ SaveArrives \/ SaveFails \/ CountAfterSave \/ ReadAfterSave
    \/ ListAfterSaveArrives \/ ListAfterSaveFails \/ SaveDoubtEnds

MenuNext == ByAdministrator \/ OfRequests \/ ChoicesChange \/ StrayServed \/ ChangeElsewhere

MenuSpec == MenuInit /\ [][MenuNext]_menuVars

-----------------------------------------------------------------------------
(* Properties.                                                             *)

Lists == [from : Nat, total : Nat, items : Seq(Row)]

MenuTypeOK ==
    /\ section \in {"category", "item"}
    /\ rows \in Seq(Row)
    /\ page \in [on : BOOLEAN, offset : Nat, shown : {"loading", "error", "success"}, list : Lists,
                 locked : BOOLEAN, notice : {"none", "saved", "refused", "uncertain"},
                 doubt : BOOLEAN]
    /\ load \in [pc : {"none", "asked", "counted", "read"}, from : Nat, list : Lists]
    /\ editor \in [open : BOOLEAN, at : Nat, base : Row, draft : Row, touched : SUBSET Fields, mixed : BOOLEAN]
    /\ choices \in [kind : {"idle", "loading", "success", "error"},
                    waiting : SUBSET [at : Nat, row : Row]]
    /\ save \in [pc : {"idle", "asked", "listing", "counted", "listed", "judged"}, at : Nat, patch : Patch,
                 done : BOOLEAN, from : Nat, list : Lists]
    /\ stray \subseteq [at : Nat, patch : Patch]

\* A notice speaks of the last submission: "saved" only when the service has committed it,
\* "refused" only when it has not (getCategoryMutationNotice, getItemMutationNotice).
MenuNoticeIsTrue ==
    /\ page.notice = "saved" => save.done
    /\ page.notice = "refused" => ~save.done

\* A PATCH sends only fields the administrator changed in the form, as long as the form
\* was not opened again, over its draft, on a newer reading of its row: what others have
\* saved since the form was opened survives.
PatchIsDeliberate ==
    [][save.pc = "idle" /\ save'.pc = "asked" /\ editor.at # 0 /\ ~editor.mixed
       => DOMAIN save'.patch \subseteq editor.touched]_menuVars
=============================================================================
