------------------------------- MODULE Store --------------------------------
(***************************************************************************)
(* What the storage engine promises to the SQL layer while it runs and     *)
(* across orderly restarts: named tables, each a set of rows under row     *)
(* ids that grow and are never given out twice, and every operation one    *)
(* atomic step.  Engine implements it.                                     *)
(***************************************************************************)
EXTENDS Naturals

CONSTANTS Names, Values

VARIABLE db

NoTable == [rows |-> {}, next_rowid |-> 0]

Init == db = [n \in Names |-> NoTable]

Exists(n) == db[n] # NoTable

CreateTable(n) ==
    /\ ~Exists(n)
    /\ db' = [db EXCEPT ![n] = [rows |-> {}, next_rowid |-> 1]]

DropTable(n) ==
    /\ Exists(n)
    /\ db' = [db EXCEPT ![n] = NoTable]

InsertRow(n, v) ==
    /\ Exists(n)
    /\ db' = [db EXCEPT
                ![n].rows = @ \cup {[key |-> db[n].next_rowid, value |-> v]},
                ![n].next_rowid = @ + 1]

UpdateRow(n, row, v) ==
    db' = [db EXCEPT ![n].rows = (@ \ {row}) \cup {[row EXCEPT !.value = v]}]

DeleteRow(n, row) ==
    db' = [db EXCEPT ![n].rows = @ \ {row}]

Next ==
    \E n \in Names :
        \/ CreateTable(n) \/ DropTable(n)
        \/ \E v \in Values : InsertRow(n, v)
        \/ \E row \in db[n].rows :
             \/ DeleteRow(n, row)
             \/ \E v \in Values : UpdateRow(n, row, v)

Spec == Init /\ [][Next]_db
=============================================================================
