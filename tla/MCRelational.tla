---------------------------- MODULE MCRelational ----------------------------
(* Two tables: users(id INT PRIMARY KEY, boss INT REFERENCES users(id)) and  *)
(* orders(code TEXT UNIQUE REFERENCES users(id), user INT NOT NULL           *)
(* REFERENCES users(id)): code references a column of another type.          *)
EXTENDS Relational, Sequences

CONSTANTS users, orders, i0, i1, r0, t0

MCTables == {users, orders}

MCVals == [ty \in ColType |-> CASE ty = "INT"  -> {i0, i1}
                                [] ty = "REAL" -> {r0}
                                [] ty = "TEXT" -> {t0}]

MCZero == [ty \in ColType |-> CASE ty = "INT"  -> i0
                                [] ty = "REAL" -> r0
                                [] ty = "TEXT" -> t0]

Col(ty, pk, nn, un, fk) ==
    [type |-> ty, primary_key |-> pk, not_null |-> nn, unique |-> un,
     has_fk |-> fk, fk_table |-> users, fk_column |-> 1]

MCSchema ==
    [t \in MCTables |->
       IF t = users
       THEN << Col("INT", TRUE, FALSE, FALSE, FALSE),
               Col("INT", FALSE, FALSE, FALSE, TRUE) >>
       ELSE << Col("TEXT", FALSE, FALSE, TRUE, TRUE),
               Col("INT", FALSE, TRUE, FALSE, TRUE) >>]
=============================================================================
