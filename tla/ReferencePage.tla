--------------------------- MODULE ReferencePage ----------------------------
(***************************************************************************)
(* The page of the result fields, and that of the commodities, which works *)
(* alike: administrators list, open, edit, create and delete the rows of   *)
(* one table, each in a document of their own.  The server actions of one  *)
(* document are carried out one after the other; those of two documents in *)
(* any order.                                                              *)
(***************************************************************************)
EXTENDS Integers, Sequences, FiniteSets

CONSTANTS
    Doc,        \* the documents of the administrators
    Id,         \* the codes of the rows
    Field,      \* what a row has: text fields, and an entry for a commodity
    Value,      \* what a field may contain
    MaxCalls,   \* a bound on the calls of a document that wait
    None

VARIABLES
    table,      \* table[i]: the row i in the database, or None
    doc         \* doc[d]: the state of a document, see Opened

vars == <<table, doc>>

NoRow == [f \in Field |-> None]

Call(op, id, row, then) == [op |-> op, id |-> id, row |-> row, then |-> then]

LoadThen(then) == Call("load", None, NoRow, then)

\* deleting is of the list, which goes with it; a call to delete whose list is gone
\* says so.  base, edited, own and left are history: the row in the list when the form was
\* opened, the fields changed since, whether the save on its way is of the form on
\* display, and whether a form was left by Escape during its save.
Opened ==
    [list |-> [i \in Id |-> None], mode |-> "list", id |-> None, form |-> NoRow,
     readonly |-> FALSE, loading |-> FALSE, message |-> None, deleting |-> None,
     calls |-> <<LoadThen("nothing")>>,
     base |-> None, edited |-> {}, own |-> FALSE, left |-> FALSE]

Init ==
    /\ table \in [Id -> {None, NoRow}]
    /\ doc = [d \in Doc |-> Opened]

-----------------------------------------------------------------------------
(* What the administrator does *)

Idle(d) == Len(doc[d].calls) < MaxCalls

\* reset: the list is shown again.
Closed(s) ==
    [s EXCEPT !.mode = "list", !.id = None, !.form = NoRow, !.readonly = FALSE,
              !.base = None, !.edited = {}, !.own = FALSE]

To(d, s) == doc' = [doc EXCEPT ![d] = s] /\ UNCHANGED table

\* The list gives way to a form, and the button of a deletion with it.
Away(s) ==
    [s EXCEPT !.deleting = None,
              !.calls = [k \in DOMAIN @ |-> IF @[k].op = "delete" THEN [@[k] EXCEPT !.then = "gone"]
                                           ELSE @[k]]]

OpenField(d, i, asReadonly) ==
    LET row == doc[d].list[i] IN
    /\ doc[d].mode = "list" /\ row # None
    /\ To(d, [Away(doc[d]) EXCEPT !.mode = "edit", !.id = i, !.form = row,
                            !.readonly = asReadonly, !.message = None, !.base = row])

StartEditing(d) ==
    /\ doc[d].mode = "edit" /\ doc[d].readonly
    /\ To(d, [doc[d] EXCEPT !.readonly = FALSE])

StartCreate(d) ==
    /\ doc[d].mode = "list"
    /\ To(d, [Away(doc[d]) EXCEPT !.mode = "create", !.form = NoRow, !.readonly = FALSE,
                            !.message = None])

\* The code of a new row is one of its fields.
EnterCode(d, i) ==
    /\ doc[d].mode = "create"
    /\ To(d, [doc[d] EXCEPT !.id = i])

\* Mutant: each change of the form begins anew.
OnlyThis(form, f, v) == [k \in Field |-> IF k = f THEN v ELSE None]

\* updateCommodityMeta: a commodity without values has no entry.
Patched(form, f, v) == [form EXCEPT ![f] = v]

UpdateField(d, f, v) ==
    /\ doc[d].mode # "list" /\ ~doc[d].readonly
    /\ To(d, [doc[d] EXCEPT !.form = Patched(@, f, v), !.edited = @ \cup {f}])

HandleSave(d) ==
    LET s == doc[d] IN
    /\ s.mode # "list" /\ ~s.readonly /\ ~s.loading /\ Idle(d)
    /\ To(d, IF s.mode = "create" /\ s.id = None
             THEN [s EXCEPT !.message = "error"]
             ELSE [s EXCEPT !.loading = TRUE, !.message = None, !.own = TRUE,
                            !.calls = Append(@, Call(IF s.mode = "create" THEN "create" ELSE "update",
                                                     s.id, s.form, "nothing"))])

\* Mutant: Cancel works during a save.
CanAlwaysCancel(d) == doc[d].mode # "list"

CanCancel(d) == doc[d].mode # "list" /\ (doc[d].readonly \/ ~doc[d].loading)

Cancel(d) == CanCancel(d) /\ To(d, Closed(doc[d]))

Escape(d) ==
    /\ doc[d].mode # "list"
    /\ To(d, [Closed(doc[d]) EXCEPT !.left = @ \/ doc[d].loading])

HandleDelete(d, i) ==
    /\ doc[d].mode = "list" /\ doc[d].list[i] # None /\ doc[d].deleting # i /\ Idle(d)
    /\ To(d, [doc[d] EXCEPT !.deleting = i, !.calls = Append(@, Call("delete", i, NoRow, "nothing"))])

CloseMessage(d) ==
    /\ doc[d].message # None
    /\ To(d, [doc[d] EXCEPT !.message = None])

-----------------------------------------------------------------------------
(* The calls *)

Next1(d, op) == doc[d].calls # <<>> /\ Head(doc[d].calls).op = op

Served(d, then) ==
    IF then = "nothing" THEN Tail(doc[d].calls)
    ELSE Append(Tail(doc[d].calls), LoadThen(then))

\* The rows as a write leaves them: an INSERT fails on a code that is taken, an
\* UPDATE of a row that is gone changes nothing, and is no failure.
Written(call) ==
    IF call.op = "update" /\ table[call.id] = None THEN table
    ELSE [table EXCEPT ![call.id] = IF call.op = "delete" THEN None ELSE call.row]

Fits(call) == call.op = "create" => table[call.id] = None

Saved(d) ==
    LET call == Head(doc[d].calls) IN
    /\ Next1(d, "create") \/ Next1(d, "update")
    /\ Fits(call)
    /\ table' = Written(call)
    /\ doc' = [doc EXCEPT ![d].message = "saved", ![d].calls = Served(d, "save")]

\* Refused by the server, or not answered: what was lost may have been carried out.
NotSaved(d) ==
    LET call == Head(doc[d].calls) IN
    /\ Next1(d, "create") \/ Next1(d, "update")
    /\ table' \in {table} \cup (IF Fits(call) THEN {Written(call)} ELSE {})
    /\ doc' = [doc EXCEPT ![d].message = "error", ![d].loading = FALSE, ![d].calls = Tail(@)]

\* What the button of a deletion becomes with its answer: another list keeps its own.
StillDeleting(d) == IF Head(doc[d].calls).then = "gone" THEN doc[d].deleting ELSE None

Deleted(d) ==
    /\ Next1(d, "delete")
    /\ table' = Written(Head(doc[d].calls))
    /\ doc' = [doc EXCEPT ![d].deleting = StillDeleting(d), ![d].calls = Served(d, "list")]

\* A call that is lost is not caught: its button stays disabled as long as its list.
NotDeleted(d) ==
    /\ Next1(d, "delete")
    /\ \/ doc' = [doc EXCEPT ![d].deleting = StillDeleting(d), ![d].calls = Tail(@)] /\ UNCHANGED table
       \/ /\ table' \in {table, Written(Head(doc[d].calls))}
          /\ doc' = [doc EXCEPT ![d].calls = Tail(@)]

Finished(s) == [Closed(s) EXCEPT !.loading = FALSE]

\* load, and what handleSave does after it: a list that is refused ends the save
\* as well.
Loaded(d, ok) ==
    LET s == [doc[d] EXCEPT !.calls = Tail(@),
                            !.list = IF ok THEN table ELSE @,
                            !.message = IF ok THEN @ ELSE "error"]
    IN  /\ Next1(d, "load")
        /\ To(d, IF Head(doc[d].calls).then = "save" THEN Finished(s) ELSE s)

\* The call of load is lost: after a save, the form stays.
LoadLost(d) ==
    LET s == [doc[d] EXCEPT !.calls = Tail(@)] IN
    /\ Next1(d, "load")
    /\ To(d, IF Head(doc[d].calls).then = "save"
             THEN [s EXCEPT !.message = "error", !.loading = FALSE] ELSE s)

Answer(d) == Saved(d) \/ NotSaved(d) \/ Deleted(d) \/ NotDeleted(d)
             \/ Loaded(d, TRUE) \/ Loaded(d, FALSE) \/ LoadLost(d)

Next == \E d \in Doc :
    \/ \E i \in Id : OpenField(d, i, FALSE) \/ OpenField(d, i, TRUE) \/ EnterCode(d, i) \/ HandleDelete(d, i)
    \/ StartEditing(d) \/ StartCreate(d)
    \/ \E f \in Field, v \in Value : UpdateField(d, f, v)
    \/ HandleSave(d) \/ Cancel(d) \/ Escape(d) \/ CloseMessage(d)
    \/ Answer(d)

Spec == Init /\ [][Next]_vars

-----------------------------------------------------------------------------
(* Properties *)

\* No form that an administrator is filling in is closed by the end of another
\* form's save, unless that form was left by Escape while it was being saved.
FormStays ==
    [][\A d \in DOMAIN doc :
          /\ Loaded(d, TRUE) \/ Loaded(d, FALSE)
          /\ doc[d].mode # "list" /\ doc'[d].mode = "list"
          => doc[d].own \/ doc[d].left]_vars

\* A save changes the fields that were edited and no others, if the row is still
\* as it was when the form was opened.
OthersAreKept ==
    [][\A d \in DOMAIN doc :
          LET s == doc[d] IN
          Saved(d) /\ Next1(d, "update") /\ s.own /\ s.base = table[s.id] =>
             \A f \in Field \ s.edited : table'[s.id][f] = s.base[f]]_vars

\* A form stays as long as it is filled in, and its save touches what was edited.
FormsAreKept == FormStays /\ OthersAreKept

=============================================================================
