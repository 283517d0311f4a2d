--------------------------------- MODULE Orm ---------------------------------
(***************************************************************************)
(* geeOrm: two sessions of one engine.  "user" executes statements on the  *)
(* database itself; "tx" is the session that Transaction makes for its     *)
(* function, which is a program's own or the one of Migrate.               *)
(*                                                                         *)
(* The database is external: SQLite with one table and, in a migration, a  *)
(* second one.  Any statement may fail.  A statement of a transaction      *)
(* takes the lock that refuses the writes of others until it ends.         *)
(***************************************************************************)
CONSTANTS Cols,     \* columns of the table, new and old ones
          Fields,   \* FieldNames of the schema that Parse makes
          Rows,
          Chained   \* the parts that a program sets: WHERE, LIMIT, ORDERBY

ASSUME OrmAssumption ==
    /\ Fields \subseteq Cols /\ Fields # {}
    /\ Chained \subseteq {"WHERE", "LIMIT", "ORDERBY"}

NoTable == {}             \* a table has a column

VARIABLES clause,     \* Session.clause: is a part unset, of the present chain
                      \* of calls ("own") or of an earlier one ("stale")
          refTable,   \* whether Session.refTable is set
          tx,         \* Session.tx: "none", "open" or "done"
          wants,      \* the parts that the present chain has set: for checking
          panicked,   \* since the session was last cleared
          committed,  \* the database
          work,       \* the database as the transaction that has the lock sees it
          locked,
          pc,         \* where Transaction is
          todo,       \* columns that Migrate still adds
          dropped     \* delCols is not empty

sessionVars == <<clause, refTable, tx, wants, panicked>>
dbVars == <<committed, work, locked>>
engineVars == <<pc, todo, dropped>>
ormVars == <<sessionVars, dbVars, engineVars>>

Sessions == {"user", "tx"}
Kinds == {"INSERT", "VALUES", "SELECT", "LIMIT", "WHERE", "ORDERBY", "UPDATE",
          "DELETE", "COUNT"}
Unset == [k \in Kinds |-> "unset"]

OrmInit ==
    /\ clause = [s \in Sessions |-> Unset]
    /\ refTable = [s \in Sessions |-> FALSE]
    /\ tx = [s \in Sessions |-> "none"]
    /\ wants = [s \in Sessions |-> {}]
    /\ panicked = [s \in Sessions |-> FALSE]
    /\ committed \in [cols : SUBSET Cols, tmp : {NoTable}, rows : {{}, Rows}]
    /\ committed.cols = NoTable => committed.rows = {}
    /\ work = committed /\ locked = FALSE
    /\ pc = "idle" /\ todo = {} /\ dropped = FALSE

------------------------------------------------------------------------------
Aged(s) == [k \in Kinds |-> IF clause[s][k] = "own" THEN "stale" ELSE clause[s][k]]

(* Slips that the properties at the end must catch.                        *)

ClearDone(s, ok) == IF ok THEN Unset ELSE Aged(s)      \* no defer
NoTx(s) == IF pc = "func" THEN "none" ELSE tx[s]       \* a program's function: s.db

------------------------------------------------------------------------------
\* Session.Clear, deferred by Exec, QueryRow and QueryRows.
Cleared(s, ok) == Unset

Clear(s, ok) ==
    /\ clause' = [clause EXCEPT ![s] = Cleared(s, ok)]
    /\ wants' = [wants EXCEPT ![s] = {}]
    /\ panicked' = [panicked EXCEPT ![s] = FALSE]

\* Session.DB: the transaction, ended or not, once there is one.
DB(s) == tx[s]

Seen(s) == IF DB(s) = "open" /\ locked THEN work ELSE committed

\* A statement that turns what the session sees into d.
Executes(s, d) ==
    \/ /\ DB(s) = "open"
       /\ work' = d /\ locked' = TRUE /\ UNCHANGED committed
    \/ /\ DB(s) = "none" /\ (locked => d = committed)
       /\ committed' = d /\ UNCHANGED <<work, locked>>

\* Exec, QueryRow and QueryRows; the statement may have any of the effects.
Exec(s, effects, ok) ==
    /\ IF ok THEN \E d \in effects : Executes(s, d) ELSE UNCHANGED dbVars
    /\ Clear(s, ok)

\* Clause.Set; a part that is set is part of the present chain.
Set(s, kinds) ==
    [k \in Kinds |-> IF k \in kinds THEN "own" ELSE clause[s][k]]

\* The terminal calls and the parts that their statements are built of, in a
\* fixed order that is left out; those that they set themselves.
Calls == [Insert |-> {"INSERT", "VALUES"},
          Find   |-> {"SELECT", "WHERE", "ORDERBY", "LIMIT"},
          Update |-> {"UPDATE", "WHERE"},
          Delete |-> {"DELETE", "WHERE"},
          Count  |-> {"COUNT", "WHERE"}]
Own(call) == Calls[call] \ {"WHERE", "ORDERBY", "LIMIT"}

\* Clause.Build, after the terminal call has set its own parts.
Build(s, call) == {k \in Calls[call] : Set(s, Own(call))[k] # "unset"}

\* The sessions that a program uses: its own, the one of its function in
\* Transaction, and that one again, kept by mistake, after the end.
Active(s) == s = "user" \/ pc = "func" \/ (pc = "idle" /\ tx[s] = "done")

\* Where, OrderBy, Limit
Chain(s, k) ==
    /\ Active(s)
    /\ clause' = [clause EXCEPT ![s] = Set(s, {k})]
    /\ wants' = [wants EXCEPT ![s] = @ \cup {k}]
    /\ UNCHANGED <<refTable, tx, panicked, dbVars, engineVars>>

HasRefTable(s) == refTable' = [refTable EXCEPT ![s] = TRUE]  \* Model, Insert, Find

Inserted(d) ==
    IF d.cols = NoTable THEN {} ELSE {[d EXCEPT !.rows = @ \cup {r}] : r \in Rows}

Deleted(d, sql) ==
    IF "WHERE" \notin sql THEN {[d EXCEPT !.rows = {}]}
    ELSE {[d EXCEPT !.rows = kept] : kept \in SUBSET d.rows}

\* What a statement may do.  The values of a row are left out, so an Update
\* changes nothing here.
Effects(s, call) ==
    IF call = "Insert" THEN Inserted(Seen(s))
    ELSE IF call = "Delete" THEN Deleted(Seen(s), Build(s, call))
    ELSE {Seen(s)}

\* Insert, Find, First (which is Limit(1).Find), Update, Delete and Count; the
\* last three take the table of refTable.  AfterQuery runs after the clear.
Terminal(s, call) ==
    /\ Active(s)
    /\ IF call \in {"Insert", "Find"} THEN HasRefTable(s)
       ELSE refTable[s] /\ UNCHANGED refTable
    /\ \E ok \in BOOLEAN : Exec(s, Effects(s, call), ok)
    /\ UNCHANGED <<tx, engineVars>>

Created(d) == IF d.cols = NoTable THEN {[d EXCEPT !.cols = Fields, !.rows = {}]}
              ELSE {}
Gone(d) == [d EXCEPT !.cols = NoTable, !.rows = {}]

\* CreateTable, DropTable, HasTable and the statements that Raw is given.
TableCall(s) ==
    /\ Active(s)
    /\ \E ok \in BOOLEAN :
          Exec(s, Created(Seen(s)) \cup {Gone(Seen(s)), Seen(s)}, ok)
    /\ UNCHANGED <<refTable, tx, engineVars>>

\* Before a part is set: Update with the flat form, for which the loop over
\* its arguments never ends well, or a call that needs a refTable without one.
Panics(s) ==
    /\ Active(s)
    /\ panicked' = [panicked EXCEPT ![s] = TRUE]
    /\ clause' = [clause EXCEPT ![s] = Aged(s)]
    /\ wants' = [wants EXCEPT ![s] = {}]
    /\ pc' = IF s = "tx" /\ pc = "func" THEN "rollback" ELSE pc
    /\ UNCHANGED <<refTable, tx, dbVars, todo, dropped>>

------------------------------------------------------------------------------
\* Transaction: a session, Begin, which may fail, and the function.
Transaction(start) ==
    /\ pc = "idle"
    /\ clause' = [clause EXCEPT !["tx"] = Unset]
    /\ wants' = [wants EXCEPT !["tx"] = {}]
    /\ panicked' = [panicked EXCEPT !["tx"] = FALSE]
    /\ refTable' = [refTable EXCEPT !["tx"] = start = "has"]
    /\ tx' = [tx EXCEPT !["tx"] = "open"]
    /\ pc' = start
    /\ UNCHANGED <<dbVars, todo, dropped>>

\* A program's function returns, with an error or without.
Returns ==
    /\ pc = "func" /\ pc' \in {"commit", "rollback"}
    /\ UNCHANGED <<sessionVars, dbVars, todo, dropped>>

\* The deferred function.  A Commit that fails leaves nothing, as a Rollback.
Ends(d) ==
    /\ committed' = d /\ locked' = FALSE
    /\ work' = d
    /\ tx' = [tx EXCEPT !["tx"] = "done"]
    /\ pc' = "idle" /\ todo' = {} /\ dropped' = FALSE
    /\ UNCHANGED <<clause, refTable, wants, panicked>>

Commit == pc \in {"commit", "migrated"} /\ Ends(Seen("tx"))
Rollback == pc \in {"commit", "migrated", "rollback"} /\ Ends(committed)

------------------------------------------------------------------------------
\* Migrate.  An error of a step, and a panic, lead to the Rollback.
Step(from, effects, next) ==
    /\ pc = from
    /\ \/ Exec("tx", effects, TRUE) /\ pc' = next
       \/ Exec("tx", effects, FALSE) /\ pc' = "rollback"
    /\ UNCHANGED <<refTable, tx>>

\* HasTable, which takes a failed query for a missing table.
MigrateHas ==
    /\ pc = "has"
    /\ \/ Exec("tx", {Seen("tx")}, TRUE)
          /\ pc' = IF Seen("tx").cols = NoTable THEN "create" ELSE "select"
       \/ Exec("tx", {}, FALSE) /\ pc' = "create"
    /\ UNCHANGED <<refTable, tx, todo, dropped>>

MigrateCreate ==
    Step("create", Created(Seen("tx")), "migrated") /\ UNCHANGED <<todo, dropped>>

difference(a, b) == a \ b

\* The columns of the old table; without a result Columns panics.
MigrateSelect ==
    LET d == Seen("tx") IN
    /\ todo' = difference(Fields, d.cols)
    /\ dropped' = (difference(d.cols, Fields) # {})
    /\ Step("select", {d}, "add")

MigrateAdd(col) ==
    /\ col \in todo /\ todo' = todo \ {col} /\ UNCHANGED dropped
    /\ Step("add", {[Seen("tx") EXCEPT !.cols = @ \cup {col}]}, "add")

\* Nothing to delete, and the function returns.
MigrateAdded ==
    /\ pc = "add" /\ todo = {} /\ ~dropped /\ pc' = "migrated"
    /\ UNCHANGED <<sessionVars, dbVars, todo, dropped>>

Copied(d) == [d EXCEPT !.tmp = Fields]
Swapped(d) == [d EXCEPT !.cols = d.tmp, !.tmp = NoTable]

\* One Exec of three statements: the new columns are copied to a second table,
\* the old table is dropped and the second one renamed.  Those before the one
\* that fails stay done.
MigrateCopy ==
    /\ todo = {} /\ dropped /\ pc = "add"
    /\ \/ Exec("tx", {Swapped(Copied(Seen("tx")))}, TRUE) /\ pc' = "migrated"
       \/ /\ Executes("tx", Seen("tx")) \/ Executes("tx", Copied(Seen("tx")))
             \/ Executes("tx", [Copied(Seen("tx")) EXCEPT !.cols = NoTable])
          /\ Clear("tx", FALSE) /\ pc' = "rollback"
    /\ UNCHANGED <<refTable, tx, todo, dropped>>

OrmNext ==
    \/ \E s \in Sessions :
          \/ \E k \in Chained : Chain(s, k)
          \/ \E call \in DOMAIN Calls : Terminal(s, call)
          \/ TableCall(s) \/ Panics(s)
    \/ \E start \in {"func", "has"} : Transaction(start)
    \/ Returns \/ Commit \/ Rollback
    \/ MigrateHas \/ MigrateCreate \/ MigrateSelect
    \/ (\E col \in Cols : MigrateAdd(col)) \/ MigrateAdded \/ MigrateCopy

OrmSpec == OrmInit /\ [][OrmNext]_ormVars

------------------------------------------------------------------------------
Table == [cols : SUBSET Cols, tmp : {NoTable, Fields},
          rows : SUBSET Rows]

OrmTypeOK ==
    /\ clause \in [Sessions -> [Kinds -> {"unset", "own", "stale"}]]
    /\ refTable \in [Sessions -> BOOLEAN]
    /\ tx \in [Sessions -> {"none", "open", "done"}]
    /\ wants \in [Sessions -> SUBSET Kinds]
    /\ panicked \in [Sessions -> BOOLEAN]
    /\ committed \in Table /\ work \in Table
    /\ locked \in BOOLEAN
    /\ pc \in {"idle", "func", "commit", "rollback", "has", "create", "select",
              "add", "migrated"}
    /\ todo \subseteq Cols /\ dropped \in BOOLEAN

\* Whatever a session executes next, its statement has exactly the parts that
\* its own chain of calls has set and its kind takes: no condition is lost, and
\* none is left over from a call that failed.  Only a call that has panicked
\* leaves parts behind, until the session is cleared.
OwnStatement ==
    /\ OrmTypeOK
    /\ \A s \in Sessions, call \in DOMAIN Calls : ~panicked[s] =>
          /\ Build(s, call) = (wants[s] \cup Own(call)) \cap Calls[call]
          /\ \A k \in Build(s, call) \ Own(call) : clause[s][k] = "own"

Migrated(d) == [d EXCEPT !.cols = Fields]

Executed(s) == TableCall(s) \/ \E call \in DOMAIN Calls : Terminal(s, call)

\* What a Transaction writes reaches the database at its Commit alone: no
\* statement of its session, in a program's function, in a Migrate or kept and
\* executed after the end, changes the database.  Else it changes only by a
\* statement of the program's own session, while no transaction has the lock.
\* By the Commit of a Migrate the table has exactly the new columns and all of
\* its rows.
AllOrNothing ==
    [][/\ committed' # committed =>
              Commit \/ (~locked /\ Executed("user") /\ ~Executed("tx"))
       /\ Commit /\ pc = "migrated" => committed' = Migrated(committed)]_ormVars
=============================================================================
