---------------------------- MODULE HandlesProofs ----------------------------
(***************************************************************************)
(* The handle tree is well formed in every state, for any sets of handles  *)
(* and any values the application gives.  The four invariants of Handles   *)
(* are inductive together: freeing an environment reads its container,     *)
(* which is the set of its live connections only because of HandleTree,    *)
(* and a statement keeps its client only because no other call closes a    *)
(* connection without dropping what hangs from it.                         *)
(***************************************************************************)
EXTENDS Handles, TLAPS

IInv == TypeOK /\ HandleTree /\ ClientMatchesConfig /\ StatementsHaveClient

-----------------------------------------------------------------------------
(* The Configs *)

\* Whatever the string says, the Config made of it has a positive timeout.
LEMMA ConfigFromOK ==
    ASSUME NEW kv \in Strings
    PROVE  ConfigFrom(kv) \in Configs
  <1>1. kv.server \in Servers /\ kv.timeout \in Int /\ kv.healthCheck \in BOOLEAN
    BY TimeoutAssumption DEF Strings
  <1>2. (IF kv.timeout > 0 THEN kv.timeout ELSE DefaultTimeout) \in Nat \ {0}
    BY <1>1, TimeoutAssumption
  <1> QED
    BY <1>1, <1>2 DEF ConfigFrom, Configs

\* Capping it keeps it positive and never makes it longer than the cap.
LEMMA CapTimeoutOK ==
    ASSUME NEW c \in Configs, NEW cap \in Nat
    PROVE  /\ CapTimeout(c, cap) \in Configs
           /\ cap > 0 => CapTimeout(c, cap).timeoutSec <= cap
  <1>1. c.server \in Servers /\ c.timeoutSec \in Nat \ {0} /\ c.healthCheck \in BOOLEAN
    BY DEF Configs
  <1> QED
    BY <1>1 DEF CapTimeout, Configs

LEMMA BlankOK == \A c \in BlankConfigs : c \in Configs
  <1> SUFFICES ASSUME NEW kv \in [server : Servers, timeout : {0}, healthCheck : {TRUE}]
               PROVE  ConfigFrom(kv) \in Configs
    BY DEF BlankConfigs
  <1>1. kv.server \in Servers /\ kv.timeout = 0 /\ kv.healthCheck \in BOOLEAN
    OBVIOUS
  <1>2. (IF kv.timeout > 0 THEN kv.timeout ELSE DefaultTimeout) \in Nat \ {0}
    BY <1>1, TimeoutAssumption
  <1> QED
    BY <1>1, <1>2 DEF ConfigFrom, Configs

-----------------------------------------------------------------------------
(* Each call keeps the invariant *)

LEMMA InitOK == Init => IInv
  <1> SUFFICES ASSUME Init PROVE IInv
    OBVIOUS
  <1>1. TypeOK
    BY BlankOK DEF Init, TypeOK
  <1>2. HandleTree /\ ClientMatchesConfig /\ StatementsHaveClient
    BY DEF Init, HandleTree, ClientMatchesConfig, StatementsHaveClient
  <1> QED
    BY <1>1, <1>2 DEF IInv

\* Calls that leave the tree and the connections as they are.
LEMMA StutterOK == IInv /\ UNCHANGED <<treeVars, dbcVars>> => IInv'
  BY DEF IInv, TypeOK, HandleTree, ClientMatchesConfig, StatementsHaveClient, treeVars, dbcVars

LEMMA AllocEnvOK ==
    ASSUME NEW e \in Envs, IInv, AllocEnv(e)
    PROVE  IInv'
  <1> USE DEF IInv, AllocEnv, dbcVars
  <1>1. TypeOK'
    BY DEF TypeOK
  <1>2. HandleTree'
    BY DEF TypeOK, HandleTree
  <1>3. ClientMatchesConfig' /\ StatementsHaveClient'
    BY DEF ClientMatchesConfig, StatementsHaveClient
  <1> QED
    BY <1>1, <1>2, <1>3

LEMMA AllocDbcOK ==
    ASSUME NEW e \in Envs, NEW d \in Dbcs, IInv, AllocDbc(e, d)
    PROVE  IInv'
  <1> USE DEF IInv, AllocDbc
  <1>1. TypeOK'
    BY BlankOK DEF TypeOK
  <1>2. \A s \in liveStmts : dbc[s] # d
    BY DEF HandleTree
  <1>3. HandleTree'
    BY <1>2 DEF TypeOK, HandleTree
  <1>4. ClientMatchesConfig' /\ StatementsHaveClient'
    BY <1>2 DEF TypeOK, ClientMatchesConfig, StatementsHaveClient
  <1> QED
    BY <1>1, <1>3, <1>4

LEMMA AllocStmtOK ==
    ASSUME NEW d \in Dbcs, NEW s \in Stmts, IInv, AllocStmt(d, s)
    PROVE  IInv'
  <1> USE DEF IInv, AllocStmt, dbcVars
  <1>1. TypeOK'
    BY DEF TypeOK
  <1>2. HandleTree'
    BY DEF TypeOK, HandleTree
  <1>3. ClientMatchesConfig'
    BY DEF ClientMatchesConfig
  <1>4. client[d] # NoClient
    BY NoneAssumption DEF TypeOK, ClientMatchesConfig
  <1>5. StatementsHaveClient'
    BY <1>4 DEF TypeOK, StatementsHaveClient
  <1> QED
    BY <1>1, <1>2, <1>3, <1>5

\* Freeing a set of live connections, when the containers of the
\* environments that remain lose just these.
LEMMA DestroyOK ==
    ASSUME NEW D \in SUBSET liveDbcs, IInv, DestroyDbcs(D),
           liveEnvs' \subseteq liveEnvs,
           connections' \in [Envs -> SUBSET Dbcs],
           \A d \in liveDbcs \ D : env[d] \in liveEnvs',
           \A e \in liveEnvs' : connections'[e] = connections[e] \ D
    PROVE  IInv'
  <1> USE DEF IInv, DestroyDbcs
  <1>1. TypeOK'
    BY DEF TypeOK
  <1>0. D \subseteq Dbcs
    BY DEF TypeOK
  <1>2. \A s \in liveStmts' : s \in liveStmts /\ dbc[s] \notin D /\ dbc'[s] = dbc[s]
    BY DEF TypeOK, HandleTree
  <1>3. \A d \in liveDbcs' : d \in liveDbcs /\ d \notin D /\ env'[d] = env[d] /\ stmts'[d] = stmts[d]
    BY DEF TypeOK
  <1>4. HandleTree'
    <2>1. \A d \in liveDbcs' : env'[d] \in liveEnvs'
      BY <1>3
    <2>2. \A s \in liveStmts' : dbc'[s] \in liveDbcs'
      BY <1>2 DEF HandleTree
    <2>3. \A e \in liveEnvs' : connections'[e] = {d \in liveDbcs' : env'[d] = e}
      <3>1. TAKE e \in liveEnvs'
      <3>2. connections'[e] = {d \in liveDbcs : env[d] = e} \ D
        BY DEF HandleTree
      <3>3. \A d \in liveDbcs : d \notin D => d \in liveDbcs'
        OBVIOUS
      <3> QED
        BY <1>3, <3>2, <3>3
    <2>4. ASSUME NEW d \in liveDbcs'
          PROVE  stmts'[d] = {s \in liveStmts' : dbc'[s] = d}
      <3>1. stmts'[d] = {s \in liveStmts : dbc[s] = d}
        BY <1>3 DEF HandleTree
      <3>2. \A s \in liveStmts : dbc[s] = d => s \in liveStmts'
        <4>1. SUFFICES ASSUME NEW s \in liveStmts, dbc[s] = d,
                              NEW x \in D, s \in stmts[x]
                       PROVE  FALSE
          OBVIOUS
        <4>2. dbc[s] = x
          BY <4>1 DEF HandleTree
        <4> QED
          BY <1>3, <4>1, <4>2
      <3> QED
        BY <1>2, <3>1, <3>2
    <2> QED
      BY <2>1, <2>2, <2>3, <2>4 DEF HandleTree
  <1>5. ClientMatchesConfig'
    BY <1>3 DEF TypeOK, ClientMatchesConfig
  <1>6. StatementsHaveClient'
    BY <1>2 DEF TypeOK, HandleTree, StatementsHaveClient
  <1> QED
    BY <1>1, <1>4, <1>5, <1>6

LEMMA FreeEnvOK ==
    ASSUME NEW e \in Envs, IInv, FreeEnv(e)
    PROVE  IInv'
  <1>1. connections[e] \in SUBSET liveDbcs /\ liveEnvs' \subseteq liveEnvs
    BY DEF IInv, HandleTree, FreeEnv
  <1>2. connections' \in [Envs -> SUBSET Dbcs]
    BY DEF IInv, TypeOK, FreeEnv
  <1>3. \A d \in liveDbcs \ connections[e] : env[d] \in liveEnvs'
    BY DEF IInv, HandleTree, FreeEnv
  <1>4. \A f \in liveEnvs' : connections'[f] = connections[f] \ connections[e]
    BY DEF IInv, TypeOK, HandleTree, FreeEnv
  <1> QED
    BY <1>1, <1>2, <1>3, <1>4, DestroyOK DEF FreeEnv

LEMMA FreeDbcOK ==
    ASSUME NEW d \in Dbcs, IInv, FreeDbc(d)
    PROVE  IInv'
  <1>1. /\ {d} \in SUBSET liveDbcs
        /\ liveEnvs' \subseteq liveEnvs /\ env[d] \in liveEnvs /\ env[d] \in Envs
    BY DEF IInv, TypeOK, HandleTree, FreeDbc
  <1>2. connections' \in [Envs -> SUBSET Dbcs]
    BY <1>1 DEF IInv, TypeOK, FreeDbc
  <1>3. \A x \in liveDbcs \ {d} : env[x] \in liveEnvs'
    BY DEF IInv, HandleTree, FreeDbc
  <1>4. \A f \in liveEnvs' : connections'[f] = connections[f] \ {d}
    BY <1>1 DEF IInv, TypeOK, HandleTree, FreeDbc
  <1> QED
    BY <1>1, <1>2, <1>3, <1>4, DestroyOK DEF FreeDbc

LEMMA DropStmtOK ==
    ASSUME NEW s \in Stmts, IInv, DropStmt(s)
    PROVE  IInv'
  <1> USE DEF IInv, DropStmt, ErasePointer, dbcVars
  <1>1. TypeOK'
    BY DEF TypeOK
  <1>2. dbc[s] \in liveDbcs /\ dbc[s] \in Dbcs
    BY DEF TypeOK, HandleTree
  <1>3. HandleTree'
    BY <1>2 DEF TypeOK, HandleTree
  <1>4. ClientMatchesConfig' /\ StatementsHaveClient'
    BY DEF TypeOK, ClientMatchesConfig, StatementsHaveClient
  <1> QED
    BY <1>1, <1>3, <1>4

LEMMA ConnectOK ==
    ASSUME NEW d \in Dbcs, NEW kv \in Strings, IInv, Connect(d, kv)
    PROVE  IInv'
  <1> DEFINE c == CapTimeout(ConfigFrom(kv), loginTimeout[d])
  <1>1. c \in Configs
    BY ConfigFromOK, CapTimeoutOK DEF IInv, TypeOK
  <1>2. /\ d \in liveDbcs /\ ~connected[d]
        /\ cfg' = [cfg EXCEPT ![d] = c]
        /\ UNCHANGED <<treeVars, loginTimeout>>
        /\ \/ /\ client' = [client EXCEPT ![d] = c]
              /\ connected' = [connected EXCEPT ![d] = TRUE]
           \/ /\ client' = [client EXCEPT ![d] = NoClient]
              /\ UNCHANGED connected
    BY DEF Connect, Unused, ResetClient
  <1> HIDE DEF c
  <1>3. TypeOK'
    BY <1>1, <1>2, ZenonT(30) DEF IInv, TypeOK, treeVars
  <1>4. HandleTree'
    BY <1>2 DEF IInv, HandleTree, treeVars
  <1>5. ClientMatchesConfig'
    BY <1>2 DEF IInv, TypeOK, ClientMatchesConfig, treeVars
  <1>6. \A s \in liveStmts : dbc[s] # d
    BY <1>2 DEF IInv, StatementsHaveClient
  <1>7. StatementsHaveClient'
    BY <1>2, <1>6 DEF IInv, TypeOK, HandleTree, StatementsHaveClient, treeVars
  <1> QED
    BY <1>3, <1>4, <1>5, <1>7 DEF IInv

LEMMA DisconnectOK ==
    ASSUME NEW d \in Dbcs, IInv, Disconnect(d)
    PROVE  IInv'
  <1> USE DEF IInv, Disconnect, DropStatements
  <1>1. TypeOK'
    BY DEF TypeOK
  <1>2. \A s \in liveStmts' : s \in liveStmts /\ dbc[s] # d /\ dbc'[s] = dbc[s]
    BY DEF TypeOK, HandleTree
  <1>3. HandleTree'
    BY <1>2 DEF TypeOK, HandleTree
  <1>4. ClientMatchesConfig'
    BY DEF TypeOK, ClientMatchesConfig
  <1>5. StatementsHaveClient'
    BY <1>2 DEF TypeOK, HandleTree, StatementsHaveClient
  <1> QED
    BY <1>1, <1>3, <1>4, <1>5

LEMMA SetLoginTimeoutOK ==
    ASSUME NEW d \in Dbcs, NEW t \in LoginTimeouts, IInv, SetLoginTimeout(d, t)
    PROVE  IInv'
  <1>1. TypeOK'
    BY TimeoutAssumption DEF IInv, TypeOK, SetLoginTimeout, treeVars
  <1>2. HandleTree' /\ ClientMatchesConfig' /\ StatementsHaveClient'
    BY DEF IInv, SetLoginTimeout, HandleTree, ClientMatchesConfig, StatementsHaveClient, treeVars
  <1> QED
    BY <1>1, <1>2 DEF IInv

-----------------------------------------------------------------------------
(* The theorems *)

LEMMA IInvStep == IInv /\ [Next]_vars => IInv'
  <1> SUFFICES ASSUME IInv, [Next]_vars PROVE IInv'
    OBVIOUS
  <1>1. ASSUME NEW e \in Envs, AllocEnv(e) PROVE IInv'
    BY <1>1, AllocEnvOK
  <1>2. ASSUME NEW e \in Envs, FreeEnv(e) PROVE IInv'
    BY <1>2, FreeEnvOK
  <1>3. ASSUME NEW e \in Envs, NEW d \in Dbcs, AllocDbc(e, d) PROVE IInv'
    BY <1>3, AllocDbcOK
  <1>4. ASSUME NEW d \in Dbcs, NEW s \in Stmts, AllocStmt(d, s) PROVE IInv'
    BY <1>4, AllocStmtOK
  <1>5. ASSUME NEW d \in Dbcs, FreeDbc(d) PROVE IInv'
    BY <1>5, FreeDbcOK
  <1>6. ASSUME NEW d \in Dbcs, Disconnect(d) PROVE IInv'
    BY <1>6, DisconnectOK
  <1>7. ASSUME NEW s \in Stmts, DropStmt(s) PROVE IInv'
    BY <1>7, DropStmtOK
  <1>8. ASSUME NEW d \in Dbcs, NEW kv \in Strings, Connect(d, kv) PROVE IInv'
    BY <1>8, ConnectOK
  <1>9. ASSUME NEW d \in Dbcs, NEW t \in LoginTimeouts, SetLoginTimeout(d, t) PROVE IInv'
    BY <1>9, SetLoginTimeoutOK
  <1>10. ASSUME NEW e \in Envs, ReportEnv(e) PROVE IInv'
    BY <1>10, StutterOK DEF ReportEnv
  <1>11. ASSUME NEW d \in Dbcs,
                AllocRefused(d) \/ ConnectAgain(d) \/ NotConnected(d) \/ ReportDbc(d)
         PROVE  IInv'
    BY <1>11, StutterOK DEF AllocRefused, ConnectAgain, NotConnected, ReportDbc
  <1>12. ASSUME NEW h \in {NoHandle} \cup Envs \cup Dbcs \cup Stmts, WrongHandle(h)
         PROVE  IInv'
    BY <1>12, StutterOK DEF WrongHandle
  <1>13. CASE UNCHANGED vars
    BY <1>13, StutterOK DEF vars
  <1> QED
    BY <1>1, <1>2, <1>3, <1>4, <1>5, <1>6, <1>7, <1>8, <1>9, <1>10, <1>11, <1>12, <1>13
       DEF Next

THEOREM Invariance == Spec => []IInv
  BY InitOK, IInvStep, PTL DEF Spec

\* TypeOK: no Config ever carries a timeout that curl would take for "never".
THEOREM TypeCorrect == Spec => []TypeOK
  <1>1. IInv => TypeOK
    BY DEF IInv
  <1> QED
    BY <1>1, Invariance, PTL

\* HandleTree: every container lists exactly the live children of its owner.
THEOREM TreeIsWhole == Spec => []HandleTree
  <1>1. IInv => HandleTree
    BY DEF IInv
  <1> QED
    BY <1>1, Invariance, PTL

\* StatementsHaveClient: a live statement can always reach the broker's client.
THEOREM StatementsCanAsk == Spec => []StatementsHaveClient
  <1>1. IInv => StatementsHaveClient
    BY DEF IInv
  <1> QED
    BY <1>1, Invariance, PTL

\* ClientMatchesConfig: a client exists while connected, made of the Config
\* the connection reports.
THEOREM ClientIsCurrent == Spec => []ClientMatchesConfig
  <1>1. IInv => ClientMatchesConfig
    BY DEF IInv
  <1> QED
    BY <1>1, Invariance, PTL

-----------------------------------------------------------------------------
(* What a step may do *)

\* OnlyDescendantsDie: a call frees what it was given and what hangs from it.
DescendantsOnly ==
    /\ \A s \in liveStmts \ liveStmts' : ret'.on \in {s, dbc[s], env[dbc[s]]}
    /\ \A d \in liveDbcs \ liveDbcs' : ret'.on \in {d, env[d]}

LEMMA DescendantsStep == IInv /\ [Next]_vars => DescendantsOnly
  <1> SUFFICES ASSUME IInv, [Next]_vars PROVE DescendantsOnly
    OBVIOUS
  <1>1. CASE liveStmts \subseteq liveStmts' /\ liveDbcs \subseteq liveDbcs'
    BY <1>1 DEF DescendantsOnly
  <1>2. ASSUME NEW e \in Envs, FreeEnv(e) PROVE DescendantsOnly
    <2>1. \A d \in connections[e] : d \in liveDbcs /\ env[d] = e
      BY <1>2 DEF IInv, HandleTree, FreeEnv
    <2>2. \A d \in connections[e] : \A s \in stmts[d] : dbc[s] = d
      BY <2>1 DEF IInv, HandleTree
    <2>3. ret'.on = e
      BY <1>2 DEF FreeEnv, Return
    <2> QED
      BY <1>2, <2>1, <2>2, <2>3 DEF FreeEnv, DestroyDbcs, DescendantsOnly
  <1>3. ASSUME NEW d \in Dbcs, FreeDbc(d) PROVE DescendantsOnly
    <2>1. \A s \in stmts[d] : dbc[s] = d
      BY <1>3 DEF IInv, HandleTree, FreeDbc
    <2>2. ret'.on = d
      BY <1>3 DEF FreeDbc, Return
    <2> QED
      BY <1>3, <2>1, <2>2 DEF FreeDbc, DestroyDbcs, DescendantsOnly
  <1>4. ASSUME NEW d \in Dbcs, Disconnect(d) PROVE DescendantsOnly
    <2>1. \A s \in stmts[d] : dbc[s] = d
      BY <1>4 DEF IInv, HandleTree, Disconnect
    <2>2. ret'.on = d
      BY <1>4 DEF Disconnect, Return
    <2> QED
      BY <1>4, <2>1, <2>2 DEF Disconnect, DropStatements, DescendantsOnly
  <1>5. ASSUME NEW s \in Stmts, DropStmt(s) PROVE DescendantsOnly
    BY <1>5 DEF DropStmt, Return, DescendantsOnly
  <1> QED
    BY <1>1, <1>2, <1>3, <1>4, <1>5
       DEF Next, vars, treeVars, AllocEnv, AllocDbc, AllocStmt, AllocRefused, Connect,
           ConnectAgain, NotConnected, SetLoginTimeout, ReportDbc, ReportEnv, WrongHandle

THEOREM SiblingsSurvive == Spec => OnlyDescendantsDie
  <1>1. IInv /\ [Next]_vars => [DescendantsOnly]_vars
    BY DescendantsStep
  <1> QED
    BY <1>1, Invariance, PTL DEF Spec, OnlyDescendantsDie, DescendantsOnly

\* FailureKeepsTree: a refused call leaves the tree and the connection alone.
FailureKeeps ==
    ret'.rc \in {ERROR, INVALID_HANDLE} =>
        UNCHANGED <<treeVars, connected, client, loginTimeout>>

LEMMA FailureStep == IInv /\ Next => FailureKeeps
  <1> SUFFICES ASSUME IInv, Next PROVE FailureKeeps
    OBVIOUS
  <1> USE DEF Return, SUCCESS, WITH_INFO, ERROR, INVALID_HANDLE
  <1>1. CASE UNCHANGED <<treeVars, connected, client, loginTimeout>>
    BY <1>1 DEF FailureKeeps
  <1>2. CASE ret'.rc = SUCCESS
    BY <1>2 DEF FailureKeeps
  <1>3. ASSUME NEW d \in Dbcs, NEW kv \in Strings, Connect(d, kv) PROVE FailureKeeps
    <2>1. CASE ret'.rc \in {SUCCESS, WITH_INFO}
      BY <2>1 DEF FailureKeeps
    <2>2. CASE ResetClient(d, CapTimeout(ConfigFrom(kv), loginTimeout[d])) /\ UNCHANGED connected
      <3>1. client[d] = NoClient
        BY <1>3 DEF Connect, Unused, IInv, ClientMatchesConfig
      <3>2. client' = client
        BY <2>2, <3>1 DEF ResetClient, IInv, TypeOK
      <3> QED
        BY <1>3, <2>2, <3>2 DEF Connect, FailureKeeps
    <2> QED
      BY <1>3, <2>1, <2>2 DEF Connect
  <1>4. ASSUME UNCHANGED <<treeVars, dbcVars>> PROVE FailureKeeps
    BY <1>1, <1>4 DEF dbcVars
  <1>5. ASSUME NEW e \in Envs, AllocEnv(e) \/ FreeEnv(e) PROVE FailureKeeps
    BY <1>2, <1>5 DEF AllocEnv, FreeEnv
  <1>6. ASSUME NEW e \in Envs, NEW d \in Dbcs, AllocDbc(e, d) PROVE FailureKeeps
    BY <1>2, <1>6 DEF AllocDbc
  <1>7. ASSUME NEW d \in Dbcs, NEW s \in Stmts, AllocStmt(d, s) PROVE FailureKeeps
    BY <1>2, <1>7 DEF AllocStmt
  <1>8. ASSUME NEW d \in Dbcs, FreeDbc(d) \/ Disconnect(d) PROVE FailureKeeps
    BY <1>2, <1>8 DEF FreeDbc, Disconnect
  <1>9. ASSUME NEW s \in Stmts, DropStmt(s) PROVE FailureKeeps
    BY <1>2, <1>9 DEF DropStmt
  <1>10. ASSUME NEW d \in Dbcs, NEW t \in LoginTimeouts, SetLoginTimeout(d, t) PROVE FailureKeeps
    BY <1>2, <1>10 DEF SetLoginTimeout
  <1> HIDE DEF Return, SUCCESS, WITH_INFO, ERROR, INVALID_HANDLE
  <1> QED
    BY <1>3, <1>4, <1>5, <1>6, <1>7, <1>8, <1>9, <1>10
       DEF Next, AllocRefused, ConnectAgain, NotConnected, ReportDbc, ReportEnv, WrongHandle

THEOREM RefusalIsHarmless == Spec => FailureKeepsTree
  <1>1. IInv /\ [Next]_vars => [FailureKeeps]_vars
    BY FailureStep
  <1> QED
    BY <1>1, Invariance, PTL DEF Spec, FailureKeepsTree, FailureKeeps

\* LoginTimeoutBounds: a new client's timeout is within the login timeout.
ClientCapped ==
    \A d \in Dbcs :
        client[d] = NoClient /\ client'[d] # NoClient /\ loginTimeout[d] > 0
            => client'[d].timeoutSec <= loginTimeout[d]

LEMMA CappedStep == IInv /\ [Next]_vars => ClientCapped
  <1> SUFFICES ASSUME IInv, [Next]_vars PROVE ClientCapped
    OBVIOUS
  <1>1. ASSUME NEW d \in Dbcs, NEW kv \in Strings, Connect(d, kv) PROVE ClientCapped
    <2> DEFINE c == CapTimeout(ConfigFrom(kv), loginTimeout[d])
    <2>1. loginTimeout[d] > 0 => c.timeoutSec <= loginTimeout[d]
      BY ConfigFromOK, CapTimeoutOK DEF IInv, TypeOK
    <2>2. \/ client' = [client EXCEPT ![d] = c]
          \/ client' = [client EXCEPT ![d] = NoClient]
      BY <1>1 DEF Connect, ResetClient
    <2> HIDE DEF c
    <2> QED
      BY <2>1, <2>2 DEF IInv, TypeOK, ClientCapped
  <1>2. CASE \A d \in Dbcs : client'[d] \in {client[d], NoClient}
    BY <1>2 DEF ClientCapped
  <1> QED
    BY <1>1, <1>2
       DEF Next, vars, dbcVars, treeVars, IInv, TypeOK, AllocEnv, AllocDbc, AllocStmt,
           AllocRefused, FreeEnv, FreeDbc, DestroyDbcs, DropStmt, ConnectAgain, Disconnect,
           NotConnected, SetLoginTimeout, ReportDbc, ReportEnv, WrongHandle

THEOREM TimeoutIsCapped == Spec => LoginTimeoutBounds
  <1>1. IInv /\ [Next]_vars => [ClientCapped]_vars
    BY CappedStep
  <1> QED
    BY <1>1, Invariance, PTL DEF Spec, LoginTimeoutBounds, ClientCapped
=============================================================================
