------------------------------- MODULE Handles -------------------------------
(***************************************************************************)
(* The handle tree and the life of a connection: SQLAllocHandle,           *)
(* SQLFreeHandle and SQL_DROP (odbc_handles.cpp), SQLConnect,              *)
(* SQLDriverConnect and SQLDisconnect (odbc_connect.cpp), and the          *)
(* attributes that bear on them.                                           *)
(*                                                                         *)
(* An environment holds the connections it must free, a connection the     *)
(* statements it must free, and each child points back to its parent.      *)
(* One action is one call; calls are not interleaved here.  The            *)
(* application passes live handles, of any kind, or null.  A freed handle  *)
(* may be given out again, as an allocator reuses an address.              *)
(***************************************************************************)
EXTENDS Integers, FiniteSets

CONSTANTS
    Envs, Dbcs, Stmts,  \* addresses of PinotEnv, PinotDbc, PinotStmt
    NoHandle,           \* the null handle
    Servers,            \* brokers a connection string may name
    GivenTimeouts,      \* TIMEOUT values in connection strings, any integers
    DefaultTimeout,     \* Config's timeoutSec when the string gives none
    LoginTimeouts,      \* values given to SQL_ATTR_LOGIN_TIMEOUT
    NoClient            \* a connection whose client pointer is empty

\* What a connection string says, and the Config made of it.
Strings == [server : Servers, timeout : GivenTimeouts, healthCheck : BOOLEAN]
Configs == [server : Servers, timeoutSec : Nat \ {0}, healthCheck : BOOLEAN]

ASSUME TimeoutAssumption ==
    /\ GivenTimeouts \subseteq Int
    /\ DefaultTimeout \in Nat \ {0}
    /\ LoginTimeouts \subseteq Nat
ASSUME NoneAssumption ==
    /\ NoHandle \notin Envs \cup Dbcs \cup Stmts
    /\ NoClient \notin Configs

SUCCESS == "SQL_SUCCESS"
WITH_INFO == "SQL_SUCCESS_WITH_INFO"
ERROR == "SQL_ERROR"
INVALID_HANDLE == "SQL_INVALID_HANDLE"

VARIABLES
    liveEnvs, liveDbcs, liveStmts,  \* the objects whose magic is intact
    env, dbc,              \* parent pointers, PinotDbc::env and PinotStmt::dbc
    connections, stmts,    \* children, PinotEnv::connections and PinotDbc::stmts
    connected, cfg, client, loginTimeout,     \* the rest of a PinotDbc
    ret                    \* the last call: its function, handle and outcome

treeVars == <<liveEnvs, liveDbcs, liveStmts, env, dbc, connections, stmts>>
dbcVars == <<connected, cfg, client, loginTimeout>>
vars == <<treeVars, dbcVars, ret>>

Return(fn, h, rc, state) == ret' = [fn |-> fn, on |-> h, rc |-> rc, state |-> state]

-----------------------------------------------------------------------------
\* mergeDsnProfile and configFromKeyValues: a timeout that is not positive is
\* ignored; the variant takes it as it is.
ConfigTrustingTimeout(kv) ==
    [server |-> kv.server, timeoutSec |-> kv.timeout, healthCheck |-> kv.healthCheck]

ConfigFrom(kv) ==
    [server |-> kv.server,
     timeoutSec |-> IF kv.timeout > 0 THEN kv.timeout ELSE DefaultTimeout,
     healthCheck |-> kv.healthCheck]

\* The login timeout of the connection caps the timeout of every request; the
\* variant only caps a timeout that the string gave.
CapGivenTimeout(c, cap) ==
    [server |-> c.server,
     timeoutSec |-> IF cap > 0 /\ c.timeoutSec > cap /\ c.timeoutSec # DefaultTimeout
                    THEN cap ELSE c.timeoutSec,
     healthCheck |-> c.healthCheck]

CapTimeout(c, cap) ==
    [server |-> c.server,
     timeoutSec |-> IF cap > 0 /\ c.timeoutSec > cap THEN cap ELSE c.timeoutSec,
     healthCheck |-> c.healthCheck]

\* The Config of a new connection.
BlankConfigs == {ConfigFrom(kv) : kv \in [server : Servers, timeout : {0}, healthCheck : {TRUE}]}

Init ==
    /\ liveEnvs = {} /\ liveDbcs = {} /\ liveStmts = {}
    /\ env = [d \in Dbcs |-> NoHandle] /\ dbc = [s \in Stmts |-> NoHandle]
    /\ connections = [e \in Envs |-> {}] /\ stmts = [d \in Dbcs |-> {}]
    /\ connected = [d \in Dbcs |-> FALSE]
    /\ \E c \in BlankConfigs : cfg = [d \in Dbcs |-> c]
    /\ client = [d \in Dbcs |-> NoClient]
    /\ loginTimeout = [d \in Dbcs |-> 0]
    /\ ret = [fn |-> "SQLAllocHandle", on |-> NoHandle, rc |-> SUCCESS, state |-> "none"]

-----------------------------------------------------------------------------
(* SQLAllocHandle *)

AllocEnv(e) ==
    /\ e \notin liveEnvs
    /\ liveEnvs' = liveEnvs \cup {e}
    /\ connections' = [connections EXCEPT ![e] = {}]
    /\ Return("SQLAllocHandle", NoHandle, SUCCESS, "none")
    /\ UNCHANGED <<liveDbcs, liveStmts, env, dbc, stmts, dbcVars>>

AllocDbc(e, d) ==
    /\ e \in liveEnvs /\ d \notin liveDbcs
    /\ liveDbcs' = liveDbcs \cup {d}
    /\ env' = [env EXCEPT ![d] = e]
    /\ connections' = [connections EXCEPT ![e] = @ \cup {d}]
    /\ stmts' = [stmts EXCEPT ![d] = {}]
    /\ connected' = [connected EXCEPT ![d] = FALSE]
    /\ \E c \in BlankConfigs : cfg' = [cfg EXCEPT ![d] = c]
    /\ client' = [client EXCEPT ![d] = NoClient]
    /\ loginTimeout' = [loginTimeout EXCEPT ![d] = 0]
    /\ Return("SQLAllocHandle", e, SUCCESS, "none")
    /\ UNCHANGED <<liveEnvs, liveStmts, dbc>>

\* A statement is only given out on an open connection.
AllocStmt(d, s) ==
    /\ d \in liveDbcs /\ s \notin liveStmts
    /\ connected[d]
    /\ liveStmts' = liveStmts \cup {s}
    /\ dbc' = [dbc EXCEPT ![s] = d]
    /\ stmts' = [stmts EXCEPT ![d] = @ \cup {s}]
    /\ Return("SQLAllocHandle", d, SUCCESS, "none")
    /\ UNCHANGED <<liveEnvs, liveDbcs, env, connections, dbcVars>>

\* A statement on a closed connection, or an explicit descriptor.
AllocRefused(d) ==
    /\ d \in liveDbcs
    /\ \/ ~connected[d] /\ Return("SQLAllocHandle", d, ERROR, "08003")
       \/ Return("SQLAllocHandle", d, ERROR, "HYC00")
    /\ UNCHANGED <<treeVars, dbcVars>>

-----------------------------------------------------------------------------
(* SQLFreeHandle, SQLFreeStmt(SQL_DROP) *)

\* Every connection of D goes, with the statements it holds.  What was in the
\* memory of a freed object is forgotten.
DestroyDbcs(D) ==
    /\ liveDbcs' = liveDbcs \ D
    /\ liveStmts' = liveStmts \ UNION {stmts[d] : d \in D}
    /\ env' = [d \in Dbcs |-> IF d \in D THEN NoHandle ELSE env[d]]
    /\ dbc' = [s \in Stmts |-> IF dbc[s] \in D THEN NoHandle ELSE dbc[s]]
    /\ stmts' = [d \in Dbcs |-> IF d \in D THEN {} ELSE stmts[d]]
    /\ connected' = [d \in Dbcs |-> connected[d] /\ d \notin D]
    /\ client' = [d \in Dbcs |-> IF d \in D THEN NoClient ELSE client[d]]
    /\ loginTimeout' = [d \in Dbcs |-> IF d \in D THEN 0 ELSE loginTimeout[d]]
    /\ UNCHANGED cfg

FreeEnv(e) ==
    /\ e \in liveEnvs
    /\ DestroyDbcs(connections[e])
    /\ liveEnvs' = liveEnvs \ {e}
    /\ connections' = [connections EXCEPT ![e] = {}]
    /\ Return("SQLFreeHandle", e, SUCCESS, "none")

\* The variant frees as the case of an environment does.
FreeDbcAndSiblings(d) ==
    /\ d \in liveDbcs
    /\ DestroyDbcs(connections[env[d]])
    /\ connections' = [connections EXCEPT ![env[d]] = {}]
    /\ UNCHANGED liveEnvs
    /\ Return("SQLFreeHandle", d, SUCCESS, "none")

FreeDbc(d) ==
    /\ d \in liveDbcs
    /\ connections' = [connections EXCEPT ![env[d]] = @ \ {d}]
    /\ DestroyDbcs({d})
    /\ UNCHANGED liveEnvs
    /\ Return("SQLFreeHandle", d, SUCCESS, "none")

\* stmt->dbc->stmts.erase(stmt); and a variant that forgets to.
KeepPointer(s) == UNCHANGED stmts
ErasePointer(s) == stmts' = [stmts EXCEPT ![dbc[s]] = @ \ {s}]

DropStmt(s) ==
    /\ s \in liveStmts
    /\ ErasePointer(s)
    /\ liveStmts' = liveStmts \ {s}
    /\ dbc' = [dbc EXCEPT ![s] = NoHandle]
    /\ UNCHANGED <<liveEnvs, liveDbcs, env, connections, dbcVars>>
    /\ Return("SQLFreeHandle", s, SUCCESS, "none")

-----------------------------------------------------------------------------
(* SQLConnect, SQLDriverConnect, SQLDisconnect *)

\* The client could not be made (HY001), or something else threw.
ClientErrors == {"HY001", "HY000"}
\* How the request to the broker's /health may fail.
HealthErrors == {"08001", "08S01", "HYT00"}

\* The test of dbc->connected, and a connect that goes without it.
AnyConnection(d) == TRUE
Unused(d) == ~connected[d]

\* client.reset() after a failure, and a failure that skips it.
KeepClient(d, c) == client' = [client EXCEPT ![d] = c]
ResetClient(d, c) == client' = [client EXCEPT ![d] = NoClient]

\* cfg is replaced before the connection is known to work, and stays so.
Connect(d, kv) ==
    LET c == CapTimeout(ConfigFrom(kv), loginTimeout[d])
        errors == ClientErrors \cup (IF c.healthCheck THEN HealthErrors ELSE {})
    IN  /\ d \in liveDbcs
        /\ Unused(d)
        /\ cfg' = [cfg EXCEPT ![d] = c]
        /\ \/ /\ client' = [client EXCEPT ![d] = c]
              /\ connected' = [connected EXCEPT ![d] = TRUE]
              /\ \/ Return("SQLConnect", d, SUCCESS, "none")
                 \/ Return("SQLDriverConnect", d, WITH_INFO, "01004")
           \/ /\ ResetClient(d, c)
              /\ UNCHANGED connected
              /\ \E state \in errors : Return("SQLConnect", d, ERROR, state)
        /\ UNCHANGED <<treeVars, loginTimeout>>

ConnectAgain(d) ==
    /\ d \in liveDbcs
    /\ connected[d]
    /\ Return("SQLConnect", d, ERROR, "08002")
    /\ UNCHANGED <<treeVars, dbcVars>>

\* The statements of the connection are dropped with it; the variant leaves
\* them to the application.
LeaveStatements(d) == UNCHANGED <<liveStmts, dbc, stmts>>
DropStatements(d) ==
    /\ liveStmts' = liveStmts \ stmts[d]
    /\ dbc' = [s \in Stmts |-> IF dbc[s] = d THEN NoHandle ELSE dbc[s]]
    /\ stmts' = [stmts EXCEPT ![d] = {}]

Disconnect(d) ==
    /\ d \in liveDbcs
    /\ connected[d]
    /\ DropStatements(d)
    /\ client' = [client EXCEPT ![d] = NoClient]
    /\ connected' = [connected EXCEPT ![d] = FALSE]
    /\ Return("SQLDisconnect", d, SUCCESS, "none")
    /\ UNCHANGED <<liveEnvs, liveDbcs, env, connections, cfg, loginTimeout>>

NotConnected(d) ==
    /\ d \in liveDbcs
    /\ ~connected[d]
    /\ Return("SQLDisconnect", d, ERROR, "08003")
    /\ UNCHANGED <<treeVars, dbcVars>>

-----------------------------------------------------------------------------
(* Attributes, and calls that only report *)

\* SQL_ATTR_LOGIN_TIMEOUT and SQL_ATTR_CONNECTION_TIMEOUT; it is read by the
\* next connect only.
SetLoginTimeout(d, t) ==
    /\ d \in liveDbcs
    /\ loginTimeout' = [loginTimeout EXCEPT ![d] = t]
    /\ Return("SQLSetConnectAttr", d, SUCCESS, "none")
    /\ UNCHANGED <<treeVars, connected, cfg, client>>

\* SQLGetInfo, SQLGetFunctions, SQLNativeSql, SQLGetConnectAttr, the other
\* connection attributes, SQLBrowseConnect.
ReportDbc(d) ==
    /\ d \in liveDbcs
    /\ \/ Return("SQLGetInfo", d, SUCCESS, "none")
       \/ Return("SQLGetInfo", d, WITH_INFO, "01004")
       \/ Return("SQLGetInfo", d, ERROR, "HY096")
       \/ Return("SQLGetConnectAttr", d, ERROR, "HY092")
       \/ Return("SQLBrowseConnect", d, ERROR, "HYC00")
    /\ UNCHANGED <<treeVars, dbcVars>>

ReportEnv(e) ==
    /\ e \in liveEnvs
    /\ \/ Return("SQLSetEnvAttr", e, SUCCESS, "none")
       \/ \E state \in {"HY092", "HYC00"} : Return("SQLSetEnvAttr", e, ERROR, state)
    /\ UNCHANGED <<treeVars, dbcVars>>

\* A null handle, or a live handle of another kind: its magic is wrong.
WrongHandle(h) ==
    /\ h \in {NoHandle} \cup liveEnvs \cup liveDbcs \cup liveStmts
    /\ Return("SQLFreeHandle", h, INVALID_HANDLE, "none")
    /\ UNCHANGED <<treeVars, dbcVars>>

Next ==
    \/ \E e \in Envs : AllocEnv(e) \/ FreeEnv(e) \/ ReportEnv(e)
    \/ \E e \in Envs, d \in Dbcs : AllocDbc(e, d)
    \/ \E d \in Dbcs, s \in Stmts : AllocStmt(d, s)
    \/ \E d \in Dbcs : \/ AllocRefused(d) \/ FreeDbc(d) \/ ConnectAgain(d)
                       \/ Disconnect(d) \/ NotConnected(d) \/ ReportDbc(d)
    \/ \E s \in Stmts : DropStmt(s)
    \/ \E d \in Dbcs, kv \in Strings : Connect(d, kv)
    \/ \E d \in Dbcs, t \in LoginTimeouts : SetLoginTimeout(d, t)
    \/ \E h \in {NoHandle} \cup Envs \cup Dbcs \cup Stmts : WrongHandle(h)

Spec == Init /\ [][Next]_vars
-----------------------------------------------------------------------------
(* Properties *)

\* Every pointer is null or points at an object of its type, and the timeout
\* of every Config is positive (curl takes 0 for "never").
TypeOK ==
    /\ liveEnvs \subseteq Envs /\ liveDbcs \subseteq Dbcs /\ liveStmts \subseteq Stmts
    /\ env \in [Dbcs -> Envs \cup {NoHandle}] /\ dbc \in [Stmts -> Dbcs \cup {NoHandle}]
    /\ connections \in [Envs -> SUBSET Dbcs] /\ stmts \in [Dbcs -> SUBSET Stmts]
    /\ connected \in [Dbcs -> BOOLEAN]
    /\ cfg \in [Dbcs -> Configs]
    /\ client \in [Dbcs -> Configs \cup {NoClient}]
    /\ loginTimeout \in [Dbcs -> Nat]

\* Containers and parent pointers agree: a live object's parent is alive, and
\* its container lists exactly its live children.  So no container holds a
\* freed object for a later free to touch, and none that is alive is lost.
HandleTree ==
    /\ \A d \in liveDbcs : env[d] \in liveEnvs
    /\ \A s \in liveStmts : dbc[s] \in liveDbcs
    /\ \A e \in liveEnvs : connections[e] = {d \in liveDbcs : env[d] = e}
    /\ \A d \in liveDbcs : stmts[d] = {s \in liveStmts : dbc[s] = d}

\* A live statement's connection is open and has a client: the catalog
\* functions use stmt->dbc->client without looking (odbc_catalog.cpp).
StatementsHaveClient ==
    \A s \in liveStmts : connected[dbc[s]] /\ client[dbc[s]] # NoClient

\* A connection has a client exactly while it is open, and what it reports of
\* itself (SQLGetInfo reads cfg) is what the client's own copy says.
ClientMatchesConfig ==
    \A d \in liveDbcs : client[d] = IF connected[d] THEN cfg[d] ELSE NoClient

\* A call only frees the handle it is given and what hangs from it; the
\* statements and connections of its siblings survive.
OnlyDescendantsDie ==
    [][/\ \A s \in liveStmts \ liveStmts' : ret'.on \in {s, dbc[s], env[dbc[s]]}
       /\ \A d \in liveDbcs \ liveDbcs' : ret'.on \in {d, env[d]}]_vars

\* A call that fails frees nothing, allocates nothing and neither opens nor
\* closes a connection; a failed connect leaves no client behind.
FailureKeepsTree ==
    [][ret'.rc \in {ERROR, INVALID_HANDLE} =>
           UNCHANGED <<treeVars, connected, client, loginTimeout>>]_vars

\* A client made while a login timeout is set never waits longer than it,
\* whatever the connection string says.
LoginTimeoutBounds ==
    [][\A d \in Dbcs :
          client[d] = NoClient /\ client'[d] # NoClient /\ loginTimeout[d] > 0
              => client'[d].timeoutSec <= loginTimeout[d]]_vars

=============================================================================
