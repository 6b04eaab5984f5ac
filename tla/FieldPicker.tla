---------------------------- MODULE FieldPicker -----------------------------
(***************************************************************************)
(* The columns of the results table and the picker that chooses among      *)
(* them.  The columns come from the catalogue of result fields, which      *)
(* arrives at any time; the picker stays mounted while it is closed, so    *)
(* that its query and its group live on behind the page.                   *)
(*                                                                         *)
(* An action is a handler with the effects that follow it.                 *)
(***************************************************************************)
EXTENDS Naturals, Sequences, FiniteSets, SequencesExt, Lists

CONSTANTS
    Fields,     \* the catalogue in its order: a sequence of records
    Queries,    \* for each text a user types, the fields that match it
    NoGroup

Ids  == {Fields[i].id : i \in DOMAIN Fields}
Of(id) == CHOOSE f \in ToSet(Fields) : f.id = id

VARIABLES
    arrived,        \* the catalogue has been answered
    visible,        \* visibleCols, in the order in which they were chosen
    open,
    query,          \* the fields that match it
    activeGroup

vars == <<arrived, visible, open, query, activeGroup>>

-----------------------------------------------------------------------------
(* buildFromFields, and the columns that the page hands to the picker *)

Eligible == {f \in ToSet(Fields) : ~f.excludeFromOutput}

\* Mutant: hidden fields are shown by default.
DefaultWithHidden(f) == f.visibleByDefault = "yes"

\* An indicator is shown by default only when it says so itself.
IsDefault(f) ==
    /\ ~f.excludeFromResults
    /\ f.visibleByDefault # "no"
    /\ f.isIndicator => f.visibleByDefault = "yes"

IdsOf(fs)      == [i \in DOMAIN fs |-> fs[i].id]
DefaultVisible == IdsOf(Selection(Fields, {f \in Eligible : IsDefault(f)}))

PickerColumns == Selection(Fields, {f \in Eligible : ~f.excludeFromResults})

Columns == IF arrived THEN PickerColumns ELSE <<>>

\* The groups of the picker are in the order of their first fields, hidden ones
\* included, and show the columns that match the query.
Matching   == {f \in ToSet(Columns) : f.id \in query}
GroupNames == {f.category : f \in Matching}
FirstGroup ==
    Selection(Fields, {f \in Eligible : f.category \in GroupNames})[1].category
ActiveCols == {f.id : f \in {m \in Matching : m.category = activeGroup}}

Init ==
    /\ arrived = FALSE
    /\ visible = <<>>
    /\ open = FALSE
    /\ query = Ids
    /\ activeGroup = NoGroup

-----------------------------------------------------------------------------
(* The effects *)

\* Mutant: the group is chosen once.
KeepGroup(group) == activeGroup' = group

\* A group without columns gives way to the first that has some.
SetGroup(group) ==
    activeGroup' = IF GroupNames' = {} THEN NoGroup
                   ELSE IF group \in GroupNames' THEN group ELSE FirstGroup'

\* Mutant: only the close button forgets the query.
CloseBy(handleClose) ==
    /\ open' = FALSE
    /\ query' = IF handleClose THEN Ids ELSE query

\* Closing forgets the query, by the handler or by the effect.
Close(handleClose) == open' = FALSE /\ query' = Ids

-----------------------------------------------------------------------------
FieldsArrive ==
    /\ ~arrived
    /\ arrived' = TRUE
    /\ visible' = DefaultVisible
    /\ UNCHANGED <<open, query>>
    /\ SetGroup(activeGroup)

Open ==
    /\ open' = TRUE
    /\ UNCHANGED <<arrived, visible, query>>
    /\ SetGroup(activeGroup)

\* The buttons of the picker.
PressClose ==
    /\ open
    /\ Close(TRUE)
    /\ UNCHANGED <<arrived, visible>>
    /\ SetGroup(activeGroup)

\* Escape, or the risk overview, which takes the place of the picker.
CloseFromPage ==
    /\ open
    /\ Close(FALSE)
    /\ UNCHANGED <<arrived, visible>>
    /\ SetGroup(activeGroup)

Type(q) ==
    /\ open
    /\ query' = q
    /\ UNCHANGED <<arrived, visible, open>>
    /\ SetGroup(activeGroup)

PressGroup(g) ==
    /\ open /\ g \in GroupNames
    /\ UNCHANGED <<arrived, visible, open, query>>
    /\ SetGroup(g)

Change(to) ==
    /\ open
    /\ visible' = to
    /\ UNCHANGED <<arrived, open, query>>
    /\ SetGroup(activeGroup)

Toggle(id) ==
    /\ id \in ActiveCols
    /\ Change(IF id \in ToSet(visible) THEN Selection(visible, Ids \ {id})
              ELSE Append(visible, id))

Reset         == Change(IF arrived THEN DefaultVisible ELSE <<>>)
SelectAll     == Change(IdsOf(Columns))
SelectNone    == Change(<<>>)
SelectRiskOnly == Change(IdsOf(Selection(Columns, {f \in Eligible : f.isRisk})))

Next ==
    \/ FieldsArrive
    \/ Open \/ PressClose \/ CloseFromPage
    \/ \E q \in Queries : Type(q)
    \/ \E f \in ToSet(Fields) : PressGroup(f.category) \/ Toggle(f.id)
    \/ Reset \/ SelectAll \/ SelectNone \/ SelectRiskOnly

Spec == Init /\ [][Next]_vars

-----------------------------------------------------------------------------
(* Properties *)

\* The picker opens with every field, however it was closed.
QueryIsForgotten == ~open => query = Ids

\* While some field matches, one of the groups on display is open and shows
\* its matching columns.
GroupIsOnDisplay == GroupNames # {} => activeGroup \in GroupNames

\* The number of selected fields is the number of boxes that are ticked: each
\* visible column is chosen once and has a box to take it away.
SelectedAreTicked ==
    /\ IsInjective(visible)
    /\ ToSet(visible) \subseteq {f.id : f \in ToSet(Columns)}

\* What the picker shows fits together.
PickerInv == QueryIsForgotten /\ GroupIsOnDisplay /\ SelectedAreTicked

=============================================================================
