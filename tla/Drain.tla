-------------------------------- MODULE Drain --------------------------------
(***************************************************************************)
(* An application that runs a query and reads the whole answer the usual   *)
(* way: fetch until rowsFetched is 0 and, on each row, SQLGetData on each  *)
(* column until SQL_NO_DATA or an error.  Every call is an action of       *)
(* Statement; this module only says which call comes next.                 *)
(***************************************************************************)
EXTENDS Statement

CONSTANTS DrainTypes,   \* the chunked C types it uses
          DrainBuffers  \* its buffers, each with room for a unit of each type

\* Its calls are calls of Statement.  It gives every call a buffer with room for
\* a unit, and an indicator: without one a NULL is an error, and not told.
ASSUME DrainAssumption ==
    /\ DrainTypes \subseteq ReadTypes \cap Chunked
    /\ DrainBuffers \subseteq ReadBuffers
    /\ "ROWS_FETCHED_PTR" \in Attributes
    /\ \A t \in DrainTypes, b \in DrainBuffers :
          b.ptr /\ b.ind /\ b.len >= Unit(t) + TerminatorBytes(t)

VARIABLES step,     \* what it does next
          column,   \* the column it is reading
          type      \* with which C type

drainVars == <<vars, step, column, type>>

DrainInit ==
    /\ Init
    /\ step = "attribute"
    /\ column = 1
    /\ type \in DrainTypes

SetPointer ==
    /\ step = "attribute"
    /\ SetStmtAttr("ROWS_FETCHED_PTR", TRUE)
    /\ step' = "execute"
    /\ UNCHANGED <<column, type>>

Run ==
    /\ step = "execute"
    /\ \E text \in Texts : ExecDirect(text)
    /\ step' = IF ret'.rc = SUCCESS THEN "fetch" ELSE "done"
    /\ UNCHANGED <<column, type>>

NextRow ==
    /\ step = "fetch"
    /\ Fetch
    /\ step' = IF rowsFetched' = 1 THEN "read" ELSE "done"
    /\ column' = 1
    /\ type' \in DrainTypes

Read ==
    /\ step = "read" /\ column <= Len(rs.columns)
    /\ \E b \in DrainBuffers : GetData(column, type, b)
    /\ IF ret'.rc \in {NO_DATA, ERROR}
       THEN column' = column + 1 /\ type' \in DrainTypes
       ELSE UNCHANGED <<column, type>>
    /\ UNCHANGED step

RowDone ==
    /\ step = "read" /\ column > Len(rs.columns)
    /\ step' = "fetch"
    /\ UNCHANGED <<vars, column, type>>

\* Calls it may make at any point, and that must not disturb it.
Ask ==
    /\ MoreResults \/ \E c \in 1..Len(rs.columns) : Describe(c)
    /\ UNCHANGED <<step, column, type>>

Program == SetPointer \/ Run \/ NextRow \/ Read \/ RowDone

DrainNext == Program \/ Ask

(***************************************************************************)
(* The application goes on with its program.  No driver call blocks it for *)
(* ever: requests end by their timeout, and the rest is in memory.         *)
(***************************************************************************)
DrainSpec == DrainInit /\ [][DrainNext]_drainVars /\ WF_drainVars(Program)

\* The loop over rows and chunks ends: every chunk brings the value nearer to its
\* end, SQL_NO_DATA is reached on every column, NULL or not, and the end of the
\* result clears rowsFetched.
Terminates == <>(step = "done")

\* Before it moves on, the application has all of every column of the row: the
\* value to its last byte, or that it is NULL.
RowRead ==
    step = "fetch" /\ OnRow =>
        \A c \in 1..Len(rs.columns) : got[c].null \/ (got[c].complete /\ got[c].gapless)
=============================================================================
