---------------------------- MODULE HandleThreads ----------------------------
(***************************************************************************)
(* The calls of Handles as the steps they are made of, taken by several    *)
(* threads: the test of the magic number, the lock, the accesses to the    *)
(* parent's container, the deletes, the unlock (odbc_handles.cpp,          *)
(* odbc_connect.cpp, handles.h), and the client's mutex under a statement's*)
(* request (pinot_client.cpp).                                             *)
(*                                                                         *)
(* SQLAllocHandle, SQLConnect and SQLDisconnect hold the mutex of the      *)
(* handle they are given; SQLFreeHandle takes none.  What keeps a handle   *)
(* alive under a call is the application: it must not end the life of a    *)
(* handle some other call is using.  An access to a std::set is two steps, *)
(* reading it and writing it back, so that two at a time can lose one.     *)
(*                                                                         *)
(* The erase of SQLFreeHandle from the parent's container is not locked.   *)
(* With FreesAlone the states in which it meets another change of the same *)
(* container are left out: what is checked and proved here is about every  *)
(* order of steps but those.  The driver does nothing to prevent them and  *)
(* asks nobody else to; with FALSE TLC finds a free and an allocation that *)
(* lose each other's change (Linearizable).                                *)
(*                                                                         *)
(* One environment.  A connection string names one server, gives no        *)
(* timeout and leaves the health check on.                                 *)
(***************************************************************************)
EXTENDS Integers, FiniteSets

CONSTANTS
    Threads, NoThread,  \* the application's threads; a mutex that is free
    Env, Dbcs, Stmts,   \* addresses, as in Handles
    NoHandle,
    Server, DefaultTimeout, NoClient,
    FreesAlone          \* an assumption the code does not justify: that no call
                        \* changes a container while a free erases from it

ASSUME ThreadAssumption ==
    /\ NoThread \notin Threads
    /\ NoHandle \notin {Env} \cup Dbcs \cup Stmts
    /\ Env \notin Dbcs \cup Stmts
    /\ Dbcs \cap Stmts = {}
    /\ DefaultTimeout \in Nat \ {0}
    /\ FreesAlone \in BOOLEAN

Mutexes == {Env} \cup Dbcs \cup Stmts

VARIABLES
    liveEnvs, liveDbcs, liveStmts,  \* objects that are constructed and not deleted
    parent,                 \* PinotStmt::dbc
    connections, stmts,     \* PinotEnv::connections (of Env), PinotDbc::stmts
    connected, client,      \* of a connection; client: whether the pointer is set
    owner,                  \* who holds the mtx of each object
    asking,                 \* who holds the mtx_ of each connection's client
    call,                   \* what each thread is doing
    ret                     \* the call that took effect last, as in Handles

vars == <<liveEnvs, liveDbcs, liveStmts, parent, connections, stmts, connected,
          client, owner, asking, call, ret>>

Idle == [fn |-> "none", on |-> NoHandle, pc |-> "idle", child |-> NoHandle, seen |-> {}]
Running(t) == call[t].pc # "idle"

Init ==
    /\ liveEnvs = {} /\ liveDbcs = {} /\ liveStmts = {}
    /\ parent = [s \in Stmts |-> NoHandle]
    /\ connections = {} /\ stmts = [d \in Dbcs |-> {}]
    /\ connected = [d \in Dbcs |-> FALSE] /\ client = [d \in Dbcs |-> FALSE]
    /\ owner = [m \in Mutexes |-> NoThread] /\ asking = [d \in Dbcs |-> NoThread]
    /\ call = [t \in Threads |-> Idle]
    /\ ret = [fn |-> "SQLAllocHandle", on |-> NoHandle, rc |-> "SQL_SUCCESS", state |-> "none"]

Return(fn, h, rc, state) == ret' = [fn |-> fn, on |-> h, rc |-> rc, state |-> state]
At(t, pc) == call[t].pc = pc
Goto(t, pc) == call' = [call EXCEPT ![t].pc = pc]

-----------------------------------------------------------------------------
(* The application *)

\* Calls by the kind of handle they are given.  Use stands for the functions
\* of a statement that ask the broker or the controller.
CallsOn(h) ==
    CASE h = Env -> {"AllocDbc", "FreeEnv"}
      [] h \in Dbcs -> {"AllocStmt", "Connect", "Disconnect", "FreeDbc"}
      [] h \in Stmts -> {"Use", "FreeStmt"}

Live == liveEnvs \cup liveDbcs \cup liveStmts
ChildrenOf(d) == {s \in liveStmts : parent[s] = d}

\* The handles whose life a call may end.
Ends(fn, h) ==
    CASE fn = "FreeStmt" -> {h}
      [] fn = "FreeDbc" -> {h} \cup ChildrenOf(h)
      [] fn = "Disconnect" -> ChildrenOf(h)
      [] fn = "FreeEnv" -> Live
      [] OTHER -> {}

\* The owner of the container a call changes.
Container(fn, h) ==
    CASE fn \in {"AllocDbc", "FreeDbc", "FreeEnv"} -> Env
      [] fn \in {"AllocStmt", "Disconnect"} -> h
      [] fn = "FreeStmt" -> parent[h]
      [] OTHER -> NoHandle

Frees == {"FreeStmt", "FreeDbc", "FreeEnv"}

\* Bound: an allocation starts only if an address will be left for it.
Room(fn) ==
    LET waiting == {u \in Threads : call[u].fn = fn /\ call[u].child = NoHandle}
        free == CASE fn = "AllocDbc" -> Dbcs \ liveDbcs
                  [] fn = "AllocStmt" -> Stmts \ liveStmts
                  [] OTHER -> {NoHandle}
    IN  fn \in {"AllocDbc", "AllocStmt"} => Cardinality(free) > Cardinality(waiting)

\* What ODBC asks of the application: no call on a handle that another call may
\* be ending.  What only FreesAlone assumes: a free apart from other changes of
\* the container it erases from.
Permitted(t, fn, h) ==
    /\ h \in Live
    /\ \A u \in Threads \ {t} : Running(u) =>
        /\ h # call[u].child
        /\ h \notin Ends(call[u].fn, call[u].on)
        /\ call[u].on \notin Ends(fn, h)
        /\ FreesAlone /\ {fn, call[u].fn} \cap Frees # {} =>
               \/ Container(fn, h) = NoHandle
               \/ Container(fn, h) # Container(call[u].fn, call[u].on)

Start(t, fn, h) ==
    /\ ~Running(t)
    /\ Permitted(t, fn, h) /\ Room(fn)
    /\ call' = [call EXCEPT ![t] = [Idle EXCEPT !.fn = fn, !.on = h, !.pc = "entry"]]
    /\ UNCHANGED <<liveEnvs, liveDbcs, liveStmts, parent, connections, stmts,
                   connected, client, owner, asking, ret>>

\* SQLAllocHandle(SQL_HANDLE_ENV) has nothing to share yet.
AllocEnv(t) ==
    /\ ~Running(t)
    /\ liveEnvs = {}
    /\ liveEnvs' = {Env}
    /\ Return("SQLAllocHandle", NoHandle, "SQL_SUCCESS", "none")
    /\ UNCHANGED <<liveDbcs, liveStmts, parent, connections, stmts, connected,
                   client, owner, asking, call>>

-----------------------------------------------------------------------------
(* Entry, lock, unlock *)

\* The functions with a lock_guard; a variant in which SQLConnect has none.
LockedExceptConnect == {"AllocDbc", "AllocStmt", "Disconnect", "Use"}
Locked == {"AllocDbc", "AllocStmt", "Connect", "Disconnect", "Use"}

\* asEnv, asDbc, asStmt: the magic number is read before any lock is held.
Enter(t) ==
    /\ At(t, "entry")
    /\ Goto(t, IF call[t].fn \in Locked THEN "lock" ELSE "body")
    /\ UNCHANGED <<liveEnvs, liveDbcs, liveStmts, parent, connections, stmts,
                   connected, client, owner, asking, ret>>

Lock(t) ==
    /\ At(t, "lock")
    /\ owner[call[t].on] = NoThread
    /\ owner' = [owner EXCEPT ![call[t].on] = t]
    /\ Goto(t, "body")
    /\ UNCHANGED <<liveEnvs, liveDbcs, liveStmts, parent, connections, stmts,
                   connected, client, asking, ret>>

Unlock(t) ==
    /\ At(t, "unlock")
    /\ owner' = [m \in Mutexes |-> IF owner[m] = t THEN NoThread ELSE owner[m]]
    /\ call' = [call EXCEPT ![t] = Idle]
    /\ UNCHANGED <<liveEnvs, liveDbcs, liveStmts, parent, connections, stmts,
                   connected, client, asking, ret>>

-----------------------------------------------------------------------------
(* SQLAllocHandle *)

AllocDbc(t) ==
    /\ At(t, "body") /\ call[t].fn = "AllocDbc"
    /\ \E d \in Dbcs \ liveDbcs :
        /\ liveDbcs' = liveDbcs \cup {d}
        /\ connected' = [connected EXCEPT ![d] = FALSE]
        /\ client' = [client EXCEPT ![d] = FALSE]
        /\ stmts' = [stmts EXCEPT ![d] = {}]
        /\ call' = [call EXCEPT ![t].pc = "insert", ![t].child = d, ![t].seen = connections]
    /\ UNCHANGED <<liveEnvs, liveStmts, parent, connections, owner, asking, ret>>

AllocStmt(t) ==
    LET d == call[t].on IN
    /\ At(t, "body") /\ call[t].fn = "AllocStmt"
    /\ connected[d]
    /\ \E s \in Stmts \ liveStmts :
        /\ liveStmts' = liveStmts \cup {s}
        /\ parent' = [parent EXCEPT ![s] = d]
        /\ call' = [call EXCEPT ![t].pc = "insert", ![t].child = s, ![t].seen = stmts[d]]
    /\ UNCHANGED <<liveEnvs, liveDbcs, connections, stmts, connected, client,
                   owner, asking, ret>>

\* connections.insert(dbc), stmts.insert(stmt)
Insert(t) ==
    LET new == call[t].seen \cup {call[t].child} IN
    /\ At(t, "insert")
    /\ IF call[t].on = Env
       THEN connections' = new /\ UNCHANGED stmts
       ELSE stmts' = [stmts EXCEPT ![call[t].on] = new] /\ UNCHANGED connections
    /\ call' = [call EXCEPT ![t].pc = "unlock", ![t].seen = {}]
    /\ Return("SQLAllocHandle", call[t].on, "SQL_SUCCESS", "none")
    /\ UNCHANGED <<liveEnvs, liveDbcs, liveStmts, parent, connected, client, owner, asking>>

\* 08003 from SQLAllocHandle and SQLDisconnect, 08002 from SQLConnect.
Refuse(t) ==
    /\ At(t, "body")
    /\ \/ /\ call[t].fn = "AllocStmt" /\ ~connected[call[t].on]
          /\ Return("SQLAllocHandle", call[t].on, "SQL_ERROR", "08003")
       \/ /\ call[t].fn = "Disconnect" /\ ~connected[call[t].on]
          /\ Return("SQLDisconnect", call[t].on, "SQL_ERROR", "08003")
       \/ /\ call[t].fn = "Connect" /\ connected[call[t].on]
          /\ Return("SQLConnect", call[t].on, "SQL_ERROR", "08002")
    /\ Goto(t, "unlock")
    /\ UNCHANGED <<liveEnvs, liveDbcs, liveStmts, parent, connections, stmts,
                   connected, client, owner, asking>>

-----------------------------------------------------------------------------
(* SQLConnect, SQLDisconnect *)

\* The client is made, then asked for the broker's health.
MakeClient(t) ==
    /\ At(t, "body") /\ call[t].fn = "Connect"
    /\ ~connected[call[t].on]
    /\ client' = [client EXCEPT ![call[t].on] = TRUE]
    /\ Goto(t, "health")
    /\ UNCHANGED <<liveEnvs, liveDbcs, liveStmts, parent, connections, stmts,
                   connected, owner, asking, ret>>

CheckHealth(t) ==
    LET d == call[t].on IN
    /\ At(t, "health")
    /\ \/ /\ connected' = [connected EXCEPT ![d] = TRUE]
          /\ UNCHANGED client
          /\ Return("SQLConnect", d, "SQL_SUCCESS", "none")
       \/ /\ client' = [client EXCEPT ![d] = FALSE]
          /\ UNCHANGED connected
          /\ Return("SQLConnect", d, "SQL_ERROR", "08001")
    /\ Goto(t, "unlock")
    /\ UNCHANGED <<liveEnvs, liveDbcs, liveStmts, parent, connections, stmts, owner, asking>>

Disconnect(t) ==
    /\ At(t, "body") /\ call[t].fn = "Disconnect"
    /\ connected[call[t].on]
    /\ call' = [call EXCEPT ![t].pc = "drop", ![t].seen = stmts[call[t].on]]
    /\ Return("SQLDisconnect", call[t].on, "SQL_SUCCESS", "none")
    /\ UNCHANGED <<liveEnvs, liveDbcs, liveStmts, parent, connections, stmts,
                   connected, client, owner, asking>>

\* One turn of the loop over the statements; and a loop that deletes the first
\* statement of a set it never shrinks.
DropFirst(t) ==
    /\ At(t, "drop")
    /\ \E s \in call[t].seen : liveStmts' = liveStmts \ {s}
    /\ UNCHANGED <<liveEnvs, liveDbcs, parent, connections, stmts, connected,
                   client, owner, asking, call, ret>>

DropNext(t) ==
    /\ At(t, "drop")
    /\ \E s \in call[t].seen :
        /\ liveStmts' = liveStmts \ {s}
        /\ call' = [call EXCEPT ![t].seen = @ \ {s}]
    /\ UNCHANGED <<liveEnvs, liveDbcs, parent, connections, stmts, connected,
                   client, owner, asking, ret>>

\* stmts.clear(), client.reset(), connected = false
DropDone(t) ==
    LET d == call[t].on IN
    /\ At(t, "drop") /\ call[t].seen = {}
    /\ stmts' = [stmts EXCEPT ![d] = {}]
    /\ client' = [client EXCEPT ![d] = FALSE]
    /\ connected' = [connected EXCEPT ![d] = FALSE]
    /\ Goto(t, "unlock")
    /\ UNCHANGED <<liveEnvs, liveDbcs, liveStmts, parent, connections, owner, asking, ret>>

-----------------------------------------------------------------------------
(* A statement's request *)

\* PinotClient::request holds mtx_ from the first option to the answer.  The
\* statement's own mutex stays held.
Ask(t) ==
    LET d == parent[call[t].on] IN
    /\ At(t, "body") /\ call[t].fn = "Use"
    /\ asking[d] = NoThread
    /\ asking' = [asking EXCEPT ![d] = t]
    /\ Goto(t, "request")
    /\ UNCHANGED <<liveEnvs, liveDbcs, liveStmts, parent, connections, stmts,
                   connected, client, owner, ret>>

\* The answer, or the timeout: either way the mutex is let go.
Answer(t) ==
    LET d == parent[call[t].on] IN
    /\ At(t, "request")
    /\ asking' = [asking EXCEPT ![d] = NoThread]
    /\ Goto(t, "unlock")
    /\ UNCHANGED <<liveEnvs, liveDbcs, liveStmts, parent, connections, stmts,
                   connected, client, owner, ret>>

-----------------------------------------------------------------------------
(* SQLFreeHandle *)

\* What erase leaves of a set; and a variant that does not erase.
NotErased(set, h) == set
Erased(set, h) == set \ {h}

\* The container the handle is in.
ListedIn(t) == IF call[t].fn = "FreeDbc" THEN connections ELSE stmts[parent[call[t].on]]

\* env->connections.erase(dbc), dbc->stmts.erase(stmt): no lock is held.
EraseBegin(t) ==
    /\ At(t, "body") /\ call[t].fn \in {"FreeStmt", "FreeDbc"}
    /\ call' = [call EXCEPT ![t].pc = "erase", ![t].seen = ListedIn(t)]
    /\ UNCHANGED <<liveEnvs, liveDbcs, liveStmts, parent, connections, stmts,
                   connected, client, owner, asking, ret>>

EraseEnd(t) ==
    LET left == Erased(call[t].seen, call[t].on) IN
    /\ At(t, "erase")
    /\ IF call[t].fn = "FreeDbc"
       THEN connections' = left /\ UNCHANGED stmts
       ELSE stmts' = [stmts EXCEPT ![parent[call[t].on]] = left] /\ UNCHANGED connections
    /\ call' = [call EXCEPT ![t].pc = "destroy", ![t].seen = {}]
    /\ UNCHANGED <<liveEnvs, liveDbcs, liveStmts, parent, connected, client,
                   owner, asking, ret>>

\* destroyStmt, destroyDbc and the loop over an environment's connections.
DestroyConnections(D) ==
    /\ liveDbcs' = liveDbcs \ D
    /\ liveStmts' = liveStmts \ UNION {stmts[d] : d \in D}
    /\ stmts' = [d \in Dbcs |-> IF d \in D THEN {} ELSE stmts[d]]
    /\ connected' = [d \in Dbcs |-> connected[d] /\ d \notin D]
    /\ client' = [d \in Dbcs |-> client[d] /\ d \notin D]

Destroy(t) ==
    LET h == call[t].on IN
    /\ \/ /\ At(t, "destroy") /\ call[t].fn = "FreeStmt"
          /\ liveStmts' = liveStmts \ {h}
          /\ UNCHANGED <<liveEnvs, liveDbcs, stmts, connections, connected, client>>
       \/ /\ At(t, "destroy") /\ call[t].fn = "FreeDbc"
          /\ DestroyConnections({h})
          /\ UNCHANGED <<liveEnvs, connections>>
       \/ /\ At(t, "body") /\ call[t].fn = "FreeEnv"
          /\ DestroyConnections(connections)
          /\ liveEnvs' = {}
          /\ connections' = {}
    /\ call' = [call EXCEPT ![t] = Idle]
    /\ Return("SQLFreeHandle", h, "SQL_SUCCESS", "none")
    /\ UNCHANGED <<parent, owner, asking>>

-----------------------------------------------------------------------------
Step(t) ==
    \/ Enter(t) \/ Lock(t) \/ Unlock(t)
    \/ AllocDbc(t) \/ AllocStmt(t) \/ Insert(t) \/ Refuse(t)
    \/ MakeClient(t) \/ CheckHealth(t) \/ Disconnect(t) \/ DropNext(t) \/ DropDone(t)
    \/ Ask(t) \/ Answer(t)
    \/ EraseBegin(t) \/ EraseEnd(t) \/ Destroy(t)

Begin(t) == AllocEnv(t) \/ \E h \in Live : \E fn \in CallsOn(h) : Start(t, fn, h)

Next == \E t \in Threads : Step(t) \/ Begin(t)

Spec == Init /\ [][Next]_vars

\* A thread inside the driver goes on: it waits for a mutex or for an answer,
\* and curl's timeout bounds every answer.
FairSpec == Spec /\ \A t \in Threads : WF_vars(Step(t))

-----------------------------------------------------------------------------
(* Properties *)

\* Every variable has its type; a mutex is held by one thread or none.
TypeOK ==
    /\ liveEnvs \subseteq {Env} /\ liveDbcs \subseteq Dbcs /\ liveStmts \subseteq Stmts
    /\ parent \in [Stmts -> Dbcs \cup {NoHandle}]
    /\ connections \subseteq Dbcs /\ stmts \in [Dbcs -> SUBSET Stmts]
    /\ connected \in [Dbcs -> BOOLEAN] /\ client \in [Dbcs -> BOOLEAN]
    /\ owner \in [Mutexes -> Threads \cup {NoThread}]
    /\ asking \in [Dbcs -> Threads \cup {NoThread}]
    /\ \A t \in Threads :
        /\ call[t].on \in Mutexes \cup {NoHandle}
        /\ call[t].child \in Mutexes \cup {NoHandle}
        /\ call[t].seen \subseteq Mutexes

\* No call runs on an object that was deleted, from the test of its magic
\* number to its last step: not because of another thread's free, nor of one
\* long ago that left a pointer behind.  The client a request goes through is
\* there for as long as it lasts.
NoDeadAccess ==
    \A t \in Threads : Running(t) =>
        /\ call[t].on \in Live
        /\ call[t].on \in Stmts => parent[call[t].on] \in liveDbcs
        /\ call[t].fn = "Use" /\ call[t].pc \in {"body", "request"} =>
               client[parent[call[t].on]]

\* The effects of concurrent calls are those of the same calls made one after
\* another, each at one moment between its start and its return.  A new object
\* counts from its insertion, a freed one until it is destroyed, a connection
\* as open from the end of its connect to the moment SQLDisconnect finds it
\* open, which is also when its statements go.  (Frees kept apart, see above.)
Inserting == {call[t].child : t \in {u \in Threads : At(u, "insert")}}
Erasing == {call[t].on : t \in {u \in Threads : At(u, "destroy")}}
Closing == {call[t].on : t \in {u \in Threads : At(u, "drop")}}
Dropping == UNION {call[t].seen : t \in {u \in Threads : At(u, "drop")}}

TheConfig == [server |-> Server, timeoutSec |-> DefaultTimeout, healthCheck |-> TRUE]

SeqDbcs == liveDbcs \ Inserting
SeqStmts == liveStmts \ (Inserting \cup Dropping)
SeqOpen(d) == connected[d] /\ d \notin Closing

Sequential == INSTANCE Handles WITH
    Envs <- {Env},
    Servers <- {Server}, GivenTimeouts <- {0}, LoginTimeouts <- {},
    liveDbcs <- SeqDbcs, liveStmts <- SeqStmts,
    env <- [d \in Dbcs |-> IF d \in SeqDbcs THEN Env ELSE NoHandle],
    dbc <- [s \in Stmts |-> IF s \in SeqStmts THEN parent[s] ELSE NoHandle],
    connections <- [e \in {Env} |-> connections \cup (Erasing \cap Dbcs)],
    stmts <- [d \in Dbcs |-> IF d \in Closing THEN {}
                             ELSE stmts[d] \cup {s \in Erasing \cap Stmts : parent[s] = d}],
    connected <- [d \in Dbcs |-> SeqOpen(d)],
    cfg <- [d \in Dbcs |-> TheConfig],
    client <- [d \in Dbcs |-> IF SeqOpen(d) THEN TheConfig ELSE NoClient],
    loginTimeout <- [d \in Dbcs |-> 0]

Linearizable == Sequential!Spec

\* If the application stops calling, every call that is under way returns:
\* no cycle of mutexes, no mutex that is never let go.
CallsReturn ==
    <>[][\A t \in Threads : ~Begin(t)]_vars => []<>(\A t \in Threads : ~Running(t))

=============================================================================
