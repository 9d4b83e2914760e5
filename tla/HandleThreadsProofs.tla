------------------------- MODULE HandleThreadsProofs -------------------------
(***************************************************************************)
(* No order of the steps of concurrent calls breaks the handle tree, for   *)
(* any number of threads, connections and statements, as long as no call   *)
(* changes a container while a free erases from it (FreesAlone, which the  *)
(* code does not see to).                                                  *)
(*                                                                         *)
(* The invariant says, of every state in the middle of calls: what kind of *)
(* call is at which step (Shape), who holds the mutex (Held), what the     *)
(* application's duty has come to while the calls went on (Apart), and how *)
(* far from the sequential tree the containers are (Tree, Views).          *)
(***************************************************************************)
EXTENDS HandleThreads, TLAPS

DbcCalls == {"AllocStmt", "Connect", "Disconnect", "FreeDbc"}
StmtCalls == {"Use", "FreeStmt"}
Functions == {"none", "AllocDbc", "FreeEnv"} \cup DbcCalls \cup StmtCalls
Places == {"idle", "entry", "lock", "body", "insert", "health", "drop", "request",
           "erase", "destroy", "unlock"}
Calls == [fn : Functions, on : Mutexes \cup {NoHandle}, pc : Places,
          child : Mutexes \cup {NoHandle}, seen : SUBSET Mutexes]

Typed == TypeOK /\ call \in [Threads -> Calls]

\* Which function is at which step.
Shape(c) ==
    /\ c.pc \in {"lock", "unlock"} => c.fn \in Locked
    /\ c.pc = "insert" => c.fn \in {"AllocDbc", "AllocStmt"} /\ c.child # NoHandle
    /\ c.pc = "health" => c.fn = "Connect"
    /\ c.pc = "drop" => c.fn = "Disconnect"
    /\ c.pc = "request" => c.fn = "Use"
    /\ c.pc \in {"erase", "destroy"} => c.fn \in {"FreeDbc", "FreeStmt"}
    /\ c.pc # "idle" => c.fn # "none"
    /\ c.child # NoHandle => c.pc \in {"insert", "unlock"} /\ c.fn \in {"AllocDbc", "AllocStmt"}
Shapes == \A t \in Threads : Shape(call[t])

\* The handle a call is given is alive, and so is its parent; so is a new one.
Lives(c) ==
    /\ c.pc # "idle" /\ c.fn \in {"AllocDbc", "FreeEnv"} => c.on = Env /\ Env \in liveEnvs
    /\ c.pc # "idle" /\ c.fn \in DbcCalls => c.on \in liveDbcs
    /\ c.pc # "idle" /\ c.fn \in StmtCalls => c.on \in liveStmts
    /\ c.child # NoHandle /\ c.fn = "AllocDbc" => c.child \in liveDbcs
    /\ c.child # NoHandle /\ c.fn = "AllocStmt" => c.child \in liveStmts /\ parent[c.child] = c.on
Alive == \A t \in Threads : Lives(call[t])

Holds(c) == c.fn \in Locked /\ c.pc \notin {"idle", "entry", "lock"}
Held == \A t \in Threads : Holds(call[t]) => owner[call[t].on] = t

\* What Permitted demands when a call begins stays true while both run.
Compatible(c, e) ==
    c.pc # "idle" /\ e.pc # "idle" =>
        /\ c.on # e.child
        /\ c.on \notin Ends(e.fn, e.on)
        /\ c.child # NoHandle => c.child # e.child
        /\ c.fn \in Frees => Container(c.fn, c.on) # Container(e.fn, e.on)
Apart == \A t, u \in Threads : t # u => Compatible(call[t], call[u])

\* The tree: as in Handles, but for what is being inserted, erased or dropped.
Tree ==
    /\ \A s \in liveStmts : parent[s] \in liveDbcs
    /\ connections = liveDbcs \ (Inserting \cup Erasing)
    /\ \A d \in Dbcs \ Closing : stmts[d] = ChildrenOf(d) \ (Inserting \cup Erasing)
    /\ liveDbcs # {} => Env \in liveEnvs

\* What a call has read of a container is still what is there.
View(c) ==
    /\ c.pc \in {"insert", "erase"} /\ c.fn \in {"AllocDbc", "FreeDbc"} => c.seen = connections
    /\ c.pc = "insert" /\ c.fn = "AllocStmt" => c.seen = stmts[c.on]
    /\ c.pc = "erase" /\ c.fn = "FreeStmt" => c.seen = stmts[parent[c.on]]
    /\ c.pc = "drop" => c.seen = ChildrenOf(c.on)
Views == \A t \in Threads : View(call[t])

\* A connection is open while it has statements, while it is being closed, and
\* not while it is being opened or is new; open, it has a client.
Open ==
    /\ \A s \in liveStmts : connected[parent[s]]
    /\ \A d \in Dbcs : connected[d] => client[d] /\ d \in liveDbcs
    /\ \A t \in Threads : At(t, "health") => ~connected[call[t].on] /\ client[call[t].on]
    /\ \A t \in Threads : At(t, "drop") => connected[call[t].on]
    /\ \A t \in Threads : At(t, "insert") /\ call[t].fn = "AllocDbc" => ~connected[call[t].child]

IInv == Typed /\ Shapes /\ Alive /\ Held /\ Apart /\ Tree /\ Views /\ Open
-----------------------------------------------------------------------------
(* The operators of the model, case by case *)

LEMMA EndsAre ==
    ASSUME NEW h
    PROVE  /\ Ends("FreeStmt", h) = {h}
           /\ Ends("FreeDbc", h) = {h} \cup ChildrenOf(h)
           /\ Ends("Disconnect", h) = ChildrenOf(h)
           /\ Ends("FreeEnv", h) = Live
           /\ \A fn : fn \notin {"FreeStmt", "FreeDbc", "Disconnect", "FreeEnv"} => Ends(fn, h) = {}
  BY DEF Ends

LEMMA ContainerIs ==
    ASSUME NEW h
    PROVE  /\ \A fn \in {"AllocDbc", "FreeDbc", "FreeEnv"} : Container(fn, h) = Env
           /\ \A fn \in {"AllocStmt", "Disconnect"} : Container(fn, h) = h
           /\ Container("FreeStmt", h) = parent[h]
           /\ \A fn \in {"Connect", "Use", "none"} : Container(fn, h) = NoHandle
  BY DEF Container

\* Who is being inserted, erased, closed.
LEMMA Underway ==
    /\ \A x : x \in Inserting <=> \E u \in Threads : call[u].pc = "insert" /\ call[u].child = x
    /\ \A x : x \in Erasing <=> \E u \in Threads : call[u].pc = "destroy" /\ call[u].on = x
    /\ \A x : x \in Closing <=> \E u \in Threads : call[u].pc = "drop" /\ call[u].on = x
  BY DEF Inserting, Erasing, Closing, At

LEMMA UnderwayNext ==
    /\ \A x : x \in Inserting' <=> \E u \in Threads : call'[u].pc = "insert" /\ call'[u].child = x
    /\ \A x : x \in Erasing' <=> \E u \in Threads : call'[u].pc = "destroy" /\ call'[u].on = x
    /\ \A x : x \in Closing' <=> \E u \in Threads : call'[u].pc = "drop" /\ call'[u].on = x
  BY DEF Inserting, Erasing, Closing, At

\* A step changes the call of the thread that takes it.
Moved(t, new) == call' = [call EXCEPT ![t] = new]

LEMMA MovedIs ==
    ASSUME Typed, NEW t \in Threads, NEW new, Moved(t, new)
    PROVE  call'[t] = new /\ \A u \in Threads : u # t => call'[u] = call[u]
  BY DEF Typed, Moved

-----------------------------------------------------------------------------
(* What the parts of the invariant need of a step *)

\* Ends shrinks with what is alive.
LEMMA EndsShrink ==
    ASSUME Live' \subseteq Live, parent' = parent, liveStmts' \subseteq liveStmts,
           NEW fn, NEW h
    PROVE  Ends(fn, h)' \subseteq Ends(fn, h)
  <1>1. ChildrenOf(h)' \subseteq ChildrenOf(h)
    BY DEF ChildrenOf
  <1> QED
    BY <1>1 DEF Ends

\* The step goes on with its call, or ends it, and nothing comes alive.
LEMMA ApartKept ==
    ASSUME Typed, Apart, NEW t \in Threads, NEW new, Moved(t, new), Running(t),
           new.pc = "idle" \/ (new.fn = call[t].fn /\ new.on = call[t].on /\ new.child = call[t].child),
           Live' \subseteq Live, parent' = parent, liveStmts' \subseteq liveStmts
    PROVE  Apart'
  <1> SUFFICES ASSUME NEW a \in Threads, NEW b \in Threads, a # b,
                      call'[a].pc # "idle", call'[b].pc # "idle"
               PROVE  Compatible(call[a], call[b])'
    BY DEF Apart, Compatible
  <1>1. /\ call[a].pc # "idle" /\ call[b].pc # "idle"
        /\ call'[a].fn = call[a].fn /\ call'[a].on = call[a].on /\ call'[a].child = call[a].child
        /\ call'[b].fn = call[b].fn /\ call'[b].on = call[b].on /\ call'[b].child = call[b].child
    BY MovedIs DEF Running
  <1>2. Compatible(call[a], call[b])
    BY DEF Apart
  <1>3. Ends(call[b].fn, call[b].on)' \subseteq Ends(call[b].fn, call[b].on)
    <2>1. \A fn, h : Ends(fn, h)' \subseteq Ends(fn, h)
      BY EndsShrink
    <2>2. (Ends(call[b].fn, call[b].on))' \subseteq Ends(call[b].fn, call[b].on)
      BY <1>1, <2>1 DEF Ends, ChildrenOf, Live
    <2> QED
      BY <2>2
  <1>4. /\ Container(call[a].fn, call[a].on)' = Container(call[a].fn, call[a].on)
        /\ Container(call[b].fn, call[b].on)' = Container(call[b].fn, call[b].on)
    BY <1>1 DEF Container
  <1> QED
    BY <1>1, <1>2, <1>3, <1>4 DEF Compatible
\* Parts that speak of one thread at a time.
LEMMA ShapesKept ==
    ASSUME Typed, Shapes, NEW t \in Threads, NEW new, Moved(t, new), Shape(new)
    PROVE  Shapes'
  <1> SUFFICES ASSUME NEW u \in Threads PROVE Shape(call'[u])
    BY DEF Shapes, Shape
  <1> QED
    BY MovedIs DEF Shapes

\* Nobody loses a mutex but the one that takes the step.
LEMMA HeldKept ==
    ASSUME Typed, Held, NEW t \in Threads, NEW new, Moved(t, new),
           Holds(new) => owner'[new.on] = t,
           \A m \in Mutexes : owner[m] \in Threads \ {t} => owner'[m] = owner[m],
           \A u \in Threads : Running(u) => call[u].on \in Mutexes
    PROVE  Held'
  <1> SUFFICES ASSUME NEW u \in Threads, Holds(call'[u])
               PROVE  owner'[call'[u].on] = u
    BY DEF Held, Holds
  <1>1. CASE u = t
    BY <1>1, MovedIs
  <1>2. CASE u # t
    <2>1. call'[u] = call[u]
      BY <1>2, MovedIs
    <2>2. Holds(call[u]) /\ owner[call[u].on] = u
      BY <2>1 DEF Held, Holds
    <2>3. call[u].on \in Mutexes
      BY <2>2 DEF Holds, Running
    <2> QED
      BY <2>1, <2>2, <2>3, <1>2
  <1> QED
    BY <1>1, <1>2

\* What a running call was given is a live handle, never null.
LEMMA OnLive ==
    ASSUME Typed, Shapes, Alive, NEW u \in Threads, Running(u)
    PROVE  call[u].on \in Live /\ call[u].on \in Mutexes /\ call[u].on # NoHandle
  <1>1. call[u].fn \in Functions \ {"none"}
    BY DEF Typed, Calls, Shapes, Shape, Running
  <1>2. call[u].on \in {Env} \cap liveEnvs \/ call[u].on \in liveDbcs \/ call[u].on \in liveStmts
    BY <1>1 DEF Alive, Lives, Running, Functions, DbcCalls, StmtCalls
  <1> QED
    BY <1>2, ThreadAssumption DEF Live, Mutexes, Typed, TypeOK

treeOnly == <<liveEnvs, liveDbcs, liveStmts, parent, connections, stmts>>

\* A step that changes nothing of the tree and goes on with its call, or ends
\* it, and passes neither into nor out of an insertion, a deletion or a drop.
Quiet(t, new) ==
    /\ Moved(t, new) /\ Running(t)
    /\ UNCHANGED treeOnly
    /\ \/ new.pc = "idle" /\ new.fn = "none" /\ new.child = NoHandle
       \/ new.fn = call[t].fn /\ new.on = call[t].on /\ new.child = call[t].child
    /\ call[t].pc \notin {"insert", "destroy", "drop"}
    /\ new.pc \notin {"insert", "destroy", "drop"}

LEMMA AliveKept ==
    ASSUME Typed, Alive, NEW t \in Threads, NEW new, Moved(t, new), Running(t),
           UNCHANGED <<liveEnvs, liveDbcs, liveStmts, parent>>,
           \/ new.pc = "idle" /\ new.fn = "none" /\ new.child = NoHandle
           \/ new.fn = call[t].fn /\ new.on = call[t].on /\ new.child = call[t].child
    PROVE  Alive'
  <1> SUFFICES ASSUME NEW u \in Threads PROVE Lives(call[u])'
    BY DEF Alive
  <1>1. Lives(call[u]) /\ Lives(call[t])
    BY DEF Alive
  <1>2. CASE u # t
    BY <1>1, <1>2, MovedIs DEF Lives
  <1>3. CASE u = t
    BY <1>1, <1>3, MovedIs DEF Lives, Running
  <1> QED
    BY <1>2, <1>3

LEMMA QuietKeeps ==
    ASSUME Typed, Alive, Apart, Tree, Views, NEW t \in Threads, NEW new, Quiet(t, new), View(new)
    PROVE  Alive' /\ Apart' /\ Tree' /\ Views'
  <1> USE DEF Quiet, treeOnly
  <1>0. call'[t] = new /\ \A u \in Threads : u # t => call'[u] = call[u]
    BY MovedIs
  <1>1. Alive'
    BY AliveKept
  <1>2. Apart'
    BY ApartKept DEF Live
  <1>3. Inserting' = Inserting /\ Erasing' = Erasing /\ Closing' = Closing
    <2>1. \A x : x \in Inserting' <=> x \in Inserting
      BY <1>0, Underway, UnderwayNext
    <2>2. \A x : x \in Erasing' <=> x \in Erasing
      BY <1>0, Underway, UnderwayNext
    <2>3. \A x : x \in Closing' <=> x \in Closing
      BY <1>0, Underway, UnderwayNext
    <2> QED
      BY <2>1, <2>2, <2>3
  <1>4. Tree'
    BY <1>3 DEF Tree, ChildrenOf
  <1>5. Views'
    <2> SUFFICES ASSUME NEW u \in Threads PROVE View(call[u])'
      BY DEF Views
    <2>1. View(call[u])
      BY DEF Views
    <2>2. CASE u # t
      BY <2>1, <2>2, <1>0 DEF View, ChildrenOf
    <2>3. CASE u = t
      BY <2>3, <1>0 DEF View, ChildrenOf
    <2> QED
      BY <2>2, <2>3
  <1> QED
    BY <1>1, <1>2, <1>4, <1>5
LEMMA GotoIs ==
    ASSUME Typed, NEW t \in Threads, NEW pc \in Places, Goto(t, pc)
    PROVE  /\ Moved(t, [call[t] EXCEPT !.pc = pc])
           /\ [call[t] EXCEPT !.pc = pc] \in Calls
           /\ [call[t] EXCEPT !.pc = pc].fn = call[t].fn
           /\ [call[t] EXCEPT !.pc = pc].on = call[t].on
           /\ [call[t] EXCEPT !.pc = pc].pc = pc
           /\ [call[t] EXCEPT !.pc = pc].child = call[t].child
           /\ [call[t] EXCEPT !.pc = pc].seen = call[t].seen
  BY DEF Typed, Calls, Goto, Moved

LEMMA IdleIs ==
    /\ Idle \in Calls
    /\ Idle.fn = "none" /\ Idle.on = NoHandle /\ Idle.pc = "idle"
    /\ Idle.child = NoHandle /\ Idle.seen = {}
    /\ Shape(Idle) /\ View(Idle) /\ ~Holds(Idle)
  BY DEF Idle, Calls, Functions, Places, Shape, View, Holds

\* The calls keep their type if the one that moved does.
LEMMA CallsTyped ==
    ASSUME Typed, NEW t \in Threads, NEW new \in Calls, Moved(t, new)
    PROVE  /\ call' \in [Threads -> Calls]
           /\ \A u \in Threads : /\ call'[u].on \in Mutexes \cup {NoHandle}
                                 /\ call'[u].child \in Mutexes \cup {NoHandle}
                                 /\ call'[u].seen \subseteq Mutexes
  <1>1. call' \in [Threads -> Calls]
    BY DEF Typed, Moved
  <1> QED
    BY <1>1 DEF Calls

-----------------------------------------------------------------------------
(* The steps that leave the tree alone *)

LEMMA EnterOK ==
    ASSUME IInv, NEW t \in Threads, Enter(t)
    PROVE  IInv'
  <1> DEFINE pc == IF call[t].fn \in Locked THEN "lock" ELSE "body"
             new == [call[t] EXCEPT !.pc = pc]
  <1> USE DEF IInv
  <1>1. /\ pc \in {"lock", "body"} /\ pc \in Places
        /\ call[t].pc = "entry" /\ Running(t) /\ Goto(t, pc)
        /\ Shape(call[t])
    BY DEF Enter, At, Places, Running, Shapes
  <1>2. /\ Moved(t, new) /\ new \in Calls
        /\ new.fn = call[t].fn /\ new.on = call[t].on /\ new.pc = pc
        /\ new.child = call[t].child
    BY <1>1, GotoIs
  <1>3. pc = "lock" => call[t].fn \in Locked
    OBVIOUS
  <1>4. pc = "body" => call[t].fn \notin Locked
    OBVIOUS
  <1> HIDE DEF pc, new
  <1>5. Typed'
    BY <1>2, CallsTyped DEF Typed, TypeOK, Enter
  <1>6. Shape(new) /\ View(new) /\ ~Holds(new)
    BY <1>1, <1>2, <1>3, <1>4 DEF Shape, View, Holds
  <1>7. Quiet(t, new)
    BY <1>1, <1>2 DEF Quiet, Enter, treeOnly
  <1>8. Held'
    BY <1>2, <1>6, HeldKept, OnLive DEF Enter
  <1>9. Open'
    BY <1>1, <1>2, MovedIs DEF Open, Enter, At
  <1> QED
    BY <1>2, <1>5, <1>6, <1>7, <1>8, <1>9, ShapesKept, QuietKeeps

LEMMA LockOK ==
    ASSUME IInv, NEW t \in Threads, Lock(t)
    PROVE  IInv'
  <1> DEFINE new == [call[t] EXCEPT !.pc = "body"]
  <1> USE DEF IInv
  <1>1. /\ call[t].pc = "lock" /\ Running(t) /\ Goto(t, "body") /\ Shape(call[t])
        /\ "body" \in Places
    BY DEF Lock, At, Places, Running, Shapes
  <1>2. /\ Moved(t, new) /\ new \in Calls
        /\ new.fn = call[t].fn /\ new.on = call[t].on /\ new.pc = "body"
        /\ new.child = call[t].child
    BY <1>1, GotoIs
  <1> HIDE DEF new
  <1>3. call[t].on \in Mutexes
    BY <1>1, OnLive
  <1>4. /\ owner \in [Mutexes -> Threads \cup {NoThread}]
        /\ owner' = [owner EXCEPT ![call[t].on] = t]
        /\ owner[call[t].on] = NoThread
    BY DEF Lock, Typed, TypeOK
  <1>5. Typed'
    <2>1. owner' \in [Mutexes -> Threads \cup {NoThread}]
      BY <1>4
    <2> QED
      BY <1>2, <2>1, CallsTyped DEF Typed, TypeOK, Lock
  <1>6. Shape(new) /\ View(new)
    BY <1>1, <1>2 DEF Shape, View
  <1>7. Quiet(t, new)
    BY <1>1, <1>2 DEF Quiet, Lock, treeOnly
  <1>8. Held'
    <2>1. owner'[new.on] = t
      BY <1>2, <1>3, <1>4
    <2>2. \A m \in Mutexes : owner[m] \in Threads \ {t} => owner'[m] = owner[m]
      BY <1>3, <1>4, ThreadAssumption
    <2> QED
      BY <1>2, <2>1, <2>2, HeldKept, OnLive
  <1>9. Open'
    BY <1>1, <1>2, MovedIs DEF Open, Lock, At
  <1> QED
    BY <1>2, <1>5, <1>6, <1>7, <1>8, <1>9, ShapesKept, QuietKeeps

LEMMA UnlockOK ==
    ASSUME IInv, NEW t \in Threads, Unlock(t)
    PROVE  IInv'
  <1> USE DEF IInv
  <1>1. call[t].pc = "unlock" /\ Running(t) /\ Moved(t, Idle)
    BY DEF Unlock, At, Running, Moved
  <1>2. Typed'
    BY <1>1, CallsTyped, IdleIs DEF Typed, TypeOK, Unlock
  <1>3. Quiet(t, Idle)
    BY <1>1, IdleIs DEF Quiet, Unlock, treeOnly
  <1>4. Held'
    <2>1. \A m \in Mutexes : owner[m] \in Threads \ {t} => owner'[m] = owner[m]
      BY DEF Unlock
    <2> QED
      BY <1>1, <2>1, HeldKept, OnLive, IdleIs
  <1>5. Open'
    BY <1>1, IdleIs, MovedIs DEF Open, Unlock, At
  <1> QED
    BY <1>1, <1>2, <1>3, <1>4, <1>5, ShapesKept, QuietKeeps, IdleIs
LEMMA RefuseOK ==
    ASSUME IInv, NEW t \in Threads, Refuse(t)
    PROVE  IInv'
  <1> DEFINE new == [call[t] EXCEPT !.pc = "unlock"]
  <1> USE DEF IInv
  <1>1. /\ call[t].pc = "body" /\ Running(t) /\ Goto(t, "unlock") /\ Shape(call[t])
        /\ "unlock" \in Places
        /\ call[t].fn \in {"AllocStmt", "Disconnect", "Connect"}
    BY DEF Refuse, At, Places, Running, Shapes
  <1>2. /\ Moved(t, new) /\ new \in Calls
        /\ new.fn = call[t].fn /\ new.on = call[t].on /\ new.pc = "unlock"
        /\ new.child = call[t].child
    BY <1>1, GotoIs
  <1> HIDE DEF new
  <1>3. Typed'
    BY <1>2, CallsTyped DEF Typed, TypeOK, Refuse
  <1>4. Shape(new) /\ View(new)
    BY <1>1, <1>2 DEF Shape, View, Locked
  <1>5. Quiet(t, new)
    BY <1>1, <1>2 DEF Quiet, Refuse, treeOnly
  <1>6. Held'
    <2>1. owner[call[t].on] = t
      BY <1>1 DEF Held, Holds, Locked
    <2> QED
      BY <1>2, <2>1, HeldKept, OnLive DEF Refuse
  <1>7. Open'
    BY <1>1, <1>2, MovedIs DEF Open, Refuse, At
  <1> QED
    BY <1>2, <1>3, <1>4, <1>5, <1>6, <1>7, ShapesKept, QuietKeeps

\* Two calls that hold the mutex of one handle are one.
LEMMA OneHolder ==
    ASSUME Held, NEW t \in Threads, NEW u \in Threads,
           Holds(call[t]), Holds(call[u]), call[t].on = call[u].on
    PROVE  t = u
  BY DEF Held

LEMMA MakeClientOK ==
    ASSUME IInv, NEW t \in Threads, MakeClient(t)
    PROVE  IInv'
  <1> DEFINE new == [call[t] EXCEPT !.pc = "health"]
  <1> USE DEF IInv
  <1>1. /\ call[t].pc = "body" /\ Running(t) /\ Goto(t, "health") /\ Shape(call[t])
        /\ "health" \in Places
        /\ call[t].fn = "Connect"
        /\ Lives(call[t])
    BY DEF MakeClient, At, Places, Running, Shapes, Alive
  <1>2. /\ Moved(t, new) /\ new \in Calls
        /\ new.fn = call[t].fn /\ new.on = call[t].on /\ new.pc = "health"
        /\ new.child = call[t].child
    BY <1>1, GotoIs
  <1> HIDE DEF new
  <1>3. call[t].on \in Dbcs /\ client' = [client EXCEPT ![call[t].on] = TRUE]
        /\ ~connected[call[t].on]
    BY <1>1 DEF Lives, DbcCalls, Typed, TypeOK, MakeClient
  <1>4. Typed'
    BY <1>2, <1>3, CallsTyped DEF Typed, TypeOK, MakeClient
  <1>5. Shape(new) /\ View(new)
    BY <1>1, <1>2 DEF Shape, View, Locked
  <1>6. Quiet(t, new)
    BY <1>1, <1>2 DEF Quiet, MakeClient, treeOnly
  <1>7. Held'
    <2>1. owner[call[t].on] = t
      BY <1>1 DEF Held, Holds, Locked
    <2> QED
      BY <1>2, <2>1, HeldKept, OnLive DEF MakeClient
  <1>8. Open'
    <2>1. (\A d \in Dbcs : client[d] => client'[d]) /\ client'[call[t].on]
      BY <1>3 DEF Typed, TypeOK
    <2>2. \A u \in Threads : call[u].pc = "health" => call[u].on \in Dbcs
      BY DEF Shapes, Shape, Alive, Lives, DbcCalls, Typed, TypeOK
    <2> QED
      BY <1>1, <1>2, <1>3, <2>1, <2>2, MovedIs DEF Open, MakeClient, At
  <1> QED
    BY <1>2, <1>4, <1>5, <1>6, <1>7, <1>8, ShapesKept, QuietKeeps

LEMMA CheckHealthOK ==
    ASSUME IInv, NEW t \in Threads, CheckHealth(t)
    PROVE  IInv'
  <1> DEFINE new == [call[t] EXCEPT !.pc = "unlock"]
             d == call[t].on
  <1> USE DEF IInv
  <1>1. /\ call[t].pc = "health" /\ Running(t) /\ Goto(t, "unlock") /\ Shape(call[t])
        /\ "unlock" \in Places
        /\ call[t].fn = "Connect"
        /\ Lives(call[t])
    BY DEF CheckHealth, At, Places, Running, Shapes, Alive, Shape
  <1>2. /\ Moved(t, new) /\ new \in Calls
        /\ new.fn = call[t].fn /\ new.on = d /\ new.pc = "unlock"
        /\ new.child = call[t].child
    BY <1>1, GotoIs
  <1> HIDE DEF new
  <1>3. d \in liveDbcs /\ d \in Dbcs /\ ~connected[d]
    BY <1>1 DEF Lives, DbcCalls, Typed, TypeOK, Open, At
  <1>4. Holds(call[t]) /\ owner[d] = t
    BY <1>1 DEF Held, Holds, Locked
  <1>5. \/ connected' = [connected EXCEPT ![d] = TRUE] /\ UNCHANGED client
        \/ client' = [client EXCEPT ![d] = FALSE] /\ UNCHANGED connected
    BY DEF CheckHealth
  <1>6. Typed'
    <2>1. connected' \in [Dbcs -> BOOLEAN] /\ client' \in [Dbcs -> BOOLEAN]
      BY <1>5 DEF Typed, TypeOK
    <2> QED
      BY <1>2, <2>1, CallsTyped DEF Typed, TypeOK, CheckHealth
  <1>7. Shape(new) /\ View(new)
    BY <1>1, <1>2 DEF Shape, View, Locked
  <1>8. Quiet(t, new)
    BY <1>1, <1>2 DEF Quiet, CheckHealth, treeOnly
  <1>9. Held'
    BY <1>2, <1>4, HeldKept, OnLive DEF CheckHealth
  <1>10. Open'
    <2>2. \A u \in Threads : u # t => call'[u] = call[u]
      BY <1>2, MovedIs
    <2>3. call'[t].pc = "unlock"
      BY <1>2, MovedIs
    <2>4. \A e \in Dbcs : e # d => connected'[e] = connected[e] /\ client'[e] = client[e]
      BY <1>5 DEF Typed, TypeOK
    <2>5. \A s \in liveStmts : parent[s] # d
      BY <1>3 DEF Open
    <2>6. \A s \in liveStmts : connected'[parent[s]]
      BY <2>4, <2>5 DEF Open, Tree, Typed, TypeOK
    <2>7. connected'[d] => client'[d]
      <3>1. client[d]
        BY <1>1 DEF Open, At
      <3> QED
        BY <1>3, <1>5, <3>1 DEF Typed, TypeOK
    <2>8. \A e \in Dbcs : connected'[e] => client'[e] /\ e \in liveDbcs
      BY <1>3, <2>4, <2>7 DEF Open
    <2>9. \A u \in Threads : /\ call'[u].pc = "health" => ~connected'[call'[u].on] /\ client'[call'[u].on]
                             /\ call'[u].pc = "drop" => connected'[call'[u].on]
      <3> SUFFICES ASSUME NEW u \in Threads, u # t
                   PROVE /\ call[u].pc = "health" => ~connected'[call[u].on] /\ client'[call[u].on]
                         /\ call[u].pc = "drop" => connected'[call[u].on]
        BY <2>2, <2>3
      <3>1. call[u].pc \in {"health", "drop"} => call[u].on \in Dbcs /\ call[u].on # d
        BY <1>4, OneHolder DEF Shapes, Shape, Holds, Locked, Alive, Lives, DbcCalls, Typed, TypeOK
      <3>2. /\ call[u].pc = "health" => ~connected[call[u].on] /\ client[call[u].on]
            /\ call[u].pc = "drop" => connected[call[u].on]
        BY DEF Open, At
      <3>3. CASE call[u].pc = "health"
        BY <2>4, <3>1, <3>2, <3>3
      <3>4. CASE call[u].pc = "drop"
        BY <2>4, <3>1, <3>2, <3>4
      <3> QED
        BY <3>3, <3>4
    <2>10. ASSUME NEW u \in Threads, u # t, call[u].pc = "insert", call[u].fn = "AllocDbc"
           PROVE  ~connected'[call[u].child]
      <3>1. call[u].child \in Dbcs /\ call[u].child # d
        BY <1>1, <2>10 DEF Shapes, Shape, Alive, Lives, Apart, Compatible, Typed, TypeOK
      <3> QED
        BY <2>4, <2>10, <3>1 DEF Open, At
    <2> QED
      BY <2>2, <2>3, <2>6, <2>8, <2>9, <2>10 DEF Open, At, CheckHealth
  <1> QED
    BY <1>2, <1>6, <1>7, <1>8, <1>9, <1>10, ShapesKept, QuietKeeps
LEMMA AskOK ==
    ASSUME IInv, NEW t \in Threads, Ask(t)
    PROVE  IInv'
  <1> DEFINE new == [call[t] EXCEPT !.pc = "request"]
  <1> USE DEF IInv
  <1>1. /\ call[t].pc = "body" /\ Running(t) /\ Goto(t, "request") /\ Shape(call[t])
        /\ "request" \in Places
        /\ call[t].fn = "Use"
    BY DEF Ask, At, Places, Running, Shapes
  <1>2. /\ Moved(t, new) /\ new \in Calls
        /\ new.fn = call[t].fn /\ new.on = call[t].on /\ new.pc = "request"
        /\ new.child = call[t].child
    BY <1>1, GotoIs
  <1> HIDE DEF new
  <1>3. asking' \in [Dbcs -> Threads \cup {NoThread}]
    BY DEF Ask, Typed, TypeOK
  <1>4. Typed'
    BY <1>2, <1>3, CallsTyped DEF Typed, TypeOK, Ask
  <1>5. Shape(new) /\ View(new)
    BY <1>1, <1>2 DEF Shape, View, Locked
  <1>6. Quiet(t, new)
    BY <1>1, <1>2 DEF Quiet, Ask, treeOnly
  <1>7. Held'
    <2>1. owner[call[t].on] = t
      BY <1>1 DEF Held, Holds, Locked
    <2> QED
      BY <1>2, <2>1, HeldKept, OnLive DEF Ask
  <1>8. Open'
    BY <1>1, <1>2, MovedIs DEF Open, Ask, At
  <1> QED
    BY <1>2, <1>4, <1>5, <1>6, <1>7, <1>8, ShapesKept, QuietKeeps

LEMMA AnswerOK ==
    ASSUME IInv, NEW t \in Threads, Answer(t)
    PROVE  IInv'
  <1> DEFINE new == [call[t] EXCEPT !.pc = "unlock"]
  <1> USE DEF IInv
  <1>1. /\ call[t].pc = "request" /\ Running(t) /\ Goto(t, "unlock") /\ Shape(call[t])
        /\ "unlock" \in Places
        /\ call[t].fn = "Use"
    BY DEF Answer, At, Places, Running, Shapes, Shape
  <1>2. /\ Moved(t, new) /\ new \in Calls
        /\ new.fn = call[t].fn /\ new.on = call[t].on /\ new.pc = "unlock"
        /\ new.child = call[t].child
    BY <1>1, GotoIs
  <1> HIDE DEF new
  <1>3. asking' \in [Dbcs -> Threads \cup {NoThread}]
    BY DEF Answer, Typed, TypeOK
  <1>4. Typed'
    BY <1>2, <1>3, CallsTyped DEF Typed, TypeOK, Answer
  <1>5. Shape(new) /\ View(new)
    BY <1>1, <1>2 DEF Shape, View, Locked
  <1>6. Quiet(t, new)
    BY <1>1, <1>2 DEF Quiet, Answer, treeOnly
  <1>7. Held'
    <2>1. owner[call[t].on] = t
      BY <1>1 DEF Held, Holds, Locked
    <2> QED
      BY <1>2, <2>1, HeldKept, OnLive DEF Answer
  <1>8. Open'
    BY <1>1, <1>2, MovedIs DEF Open, Answer, At
  <1> QED
    BY <1>2, <1>4, <1>5, <1>6, <1>7, <1>8, ShapesKept, QuietKeeps

LEMMA EraseBeginOK ==
    ASSUME IInv, NEW t \in Threads, EraseBegin(t)
    PROVE  IInv'
  <1> DEFINE new == [call[t] EXCEPT !.pc = "erase", !.seen = ListedIn(t)]
  <1> USE DEF IInv
  <1>1. /\ call[t].pc = "body" /\ Running(t) /\ Shape(call[t]) /\ Lives(call[t])
        /\ call[t].fn \in {"FreeStmt", "FreeDbc"}
        /\ call[t] \in Calls
    BY DEF EraseBegin, At, Running, Shapes, Typed, Alive
  <1>2. ListedIn(t) \subseteq Mutexes
    <2>1. call[t].fn = "FreeStmt" => parent[call[t].on] \in Dbcs
      BY <1>1 DEF Lives, StmtCalls, Tree, Typed, TypeOK
    <2> QED
      BY <1>1, <2>1 DEF ListedIn, Typed, TypeOK, Mutexes
  <1>3. /\ Moved(t, new) /\ new \in Calls
        /\ new.fn = call[t].fn /\ new.on = call[t].on /\ new.pc = "erase"
        /\ new.child = call[t].child /\ new.seen = ListedIn(t)
    <2>1. "erase" \in Places
      BY DEF Places
    <2>2. /\ new \in Calls
          /\ new.fn = call[t].fn /\ new.on = call[t].on /\ new.pc = "erase"
          /\ new.child = call[t].child /\ new.seen = ListedIn(t)
      BY <1>1, <1>2, <2>1 DEF Calls
    <2>3. Moved(t, new)
      BY DEF EraseBegin, Moved, Typed
    <2> QED
      BY <2>2, <2>3
  <1> HIDE DEF new
  <1>4. Typed'
    BY <1>3, CallsTyped DEF Typed, TypeOK, EraseBegin
  <1>5. Shape(new) /\ View(new) /\ ~Holds(new)
    BY <1>1, <1>3 DEF Shape, View, Locked, Holds, ListedIn
  <1>6. Quiet(t, new)
    BY <1>1, <1>3 DEF Quiet, EraseBegin, treeOnly
  <1>7. Held'
    BY <1>3, <1>5, HeldKept, OnLive DEF EraseBegin
  <1>8. Open'
    <2>1. UNCHANGED <<liveDbcs, liveStmts, parent, connected, client>>
      BY DEF EraseBegin
    <2> QED
      BY <1>1, <1>3, <2>1, MovedIs DEF Open, At
  <1> QED
    BY <1>3, <1>4, <1>5, <1>6, <1>7, <1>8, ShapesKept, QuietKeeps
-----------------------------------------------------------------------------
(* The steps that change a container or what is alive *)

\* No two threads are in the middle of the same container.
LEMMA Exclusion ==
    ASSUME Shapes, Alive, Held, Apart, NEW t \in Threads, NEW u \in Threads, t # u,
           call[t].pc \in {"insert", "erase", "drop"}, call[u].pc \in {"insert", "erase", "drop"}
    PROVE  Container(call[t].fn, call[t].on) # Container(call[u].fn, call[u].on)
  <1>1. /\ Shape(call[t]) /\ Shape(call[u]) /\ Lives(call[t]) /\ Lives(call[u])
        /\ Compatible(call[t], call[u]) /\ Compatible(call[u], call[t])
    BY DEF Shapes, Alive, Apart
  <1>2. CASE call[t].fn \in Frees \/ call[u].fn \in Frees
    BY <1>1, <1>2 DEF Compatible
  <1>3. CASE call[t].fn \notin Frees /\ call[u].fn \notin Frees
    <2>1. Holds(call[t]) /\ Holds(call[u])
      BY <1>1, <1>3 DEF Shape, Holds, Locked, Frees
    <2>2. call[t].on # call[u].on
      BY <2>1, OneHolder
    <2>3. /\ Container(call[t].fn, call[t].on) = call[t].on
          /\ Container(call[u].fn, call[u].on) = call[u].on
      BY <1>1, <1>3, ContainerIs DEF Shape, Lives, Frees
    <2> QED
      BY <2>2, <2>3
  <1> QED
    BY <1>2, <1>3

LEMMA InsertOK ==
    ASSUME IInv, NEW t \in Threads, Insert(t)
    PROVE  IInv'
  <1> DEFINE new == [call[t] EXCEPT !.pc = "unlock", !.seen = {}]
             x == call[t].child
             h == call[t].on
  <1> USE DEF IInv
  <1>1. /\ call[t].pc = "insert" /\ Running(t) /\ Shape(call[t]) /\ Lives(call[t]) /\ View(call[t])
        /\ call[t].fn \in {"AllocDbc", "AllocStmt"}
        /\ call[t] \in Calls
        /\ x # NoHandle
    BY DEF Insert, At, Running, Shapes, Typed, Alive, Views, Shape
  <1>2. /\ Moved(t, new) /\ new \in Calls
        /\ new.fn = call[t].fn /\ new.on = h /\ new.pc = "unlock"
        /\ new.child = x /\ new.seen = {}
    <2>1. "unlock" \in Places
      BY DEF Places
    <2>2. /\ new \in Calls
          /\ new.fn = call[t].fn /\ new.on = h /\ new.pc = "unlock"
          /\ new.child = x /\ new.seen = {}
      BY <1>1, <2>1 DEF Calls
    <2>3. Moved(t, new)
      BY DEF Insert, Moved, Typed
    <2> QED
      BY <2>2, <2>3
  <1> HIDE DEF new
  <1>3. UNCHANGED <<liveEnvs, liveDbcs, liveStmts, parent, connected, client, owner, asking>>
    BY DEF Insert
  <1>4. \A u \in Threads : u # t => call'[u] = call[u] /\ call[u].child # x
    <2> SUFFICES ASSUME NEW u \in Threads, u # t PROVE call[u].child # x
      BY <1>2, MovedIs
    <2> QED
      BY <1>1 DEF Apart, Compatible, Shapes, Shape, Running
  <1>5. \A u \in Threads : call[u].pc # "idle" => call[u].on # x
    <2>1. h # x
      BY <1>1, ThreadAssumption DEF Lives, Typed, TypeOK, DbcCalls
    <2> QED
      BY <1>1, <2>1 DEF Apart, Compatible, Running
  <1>6. /\ call'[t] = new
        /\ \A y : y \in Inserting' <=> y \in Inserting /\ y # x
        /\ \A y : y \in Erasing' <=> y \in Erasing
        /\ \A y : y \in Closing' <=> y \in Closing
    BY <1>1, <1>2, <1>4, MovedIs, Underway, UnderwayNext
  <1>7. x \in Inserting /\ x \notin Erasing /\ h \notin Closing
    <2>1. \A u \in Threads : call[u].pc = "drop" => call[u].on # h
      <3> SUFFICES ASSUME NEW u \in Threads, call[u].pc = "drop", call[u].on = h
                   PROVE  FALSE
        OBVIOUS
      <3>1. Holds(call[u]) /\ Holds(call[t])
        BY <1>1 DEF Holds, Locked, Shapes, Shape
      <3> QED
        BY <3>1, <1>1, OneHolder
    <2> QED
      BY <1>1, <1>5, <2>1, Underway
  <1>8. \/ /\ call[t].fn = "AllocDbc" /\ h = Env
           /\ connections' = connections \cup {x} /\ UNCHANGED stmts
           /\ x \in liveDbcs
        \/ /\ call[t].fn = "AllocStmt" /\ h \in Dbcs
           /\ stmts' = [stmts EXCEPT ![h] = @ \cup {x}] /\ UNCHANGED connections
           /\ x \in liveStmts /\ parent[x] = h
    BY <1>1, ThreadAssumption DEF Insert, Lives, View, DbcCalls, Typed, TypeOK
  <1>9. Typed'
    <2>1. connections' \subseteq Dbcs /\ stmts' \in [Dbcs -> SUBSET Stmts]
      BY <1>8 DEF Typed, TypeOK
    <2> QED
      BY <1>2, <1>3, <2>1, CallsTyped DEF Typed, TypeOK
  <1>10. Shape(new) /\ View(new)
    BY <1>1, <1>2 DEF Shape, View, Locked
  <1>11. Held'
    <2>1. owner[h] = t
      BY <1>1 DEF Held, Holds, Locked
    <2> QED
      BY <1>2, <1>3, <2>1, HeldKept, OnLive
  <1>12. Alive' /\ Apart'
    BY <1>1, <1>2, <1>3, AliveKept, ApartKept DEF Live
  <1>13. Tree'
    <2>1. \A d : ChildrenOf(d)' = ChildrenOf(d)
      BY <1>3 DEF ChildrenOf
    <2>2. connections' = liveDbcs \ (Inserting' \cup Erasing')
      BY <1>6, <1>7, <1>8, ThreadAssumption DEF Tree, Typed, TypeOK
    <2>3. ASSUME NEW d \in Dbcs, d \notin Closing
          PROVE  stmts'[d] = ChildrenOf(d) \ (Inserting' \cup Erasing')
      <3>1. stmts[d] = ChildrenOf(d) \ (Inserting \cup Erasing)
        BY <2>3 DEF Tree
      <3>2. CASE x \in ChildrenOf(d)
        <4>1. call[t].fn = "AllocStmt" /\ h = d
          BY <3>2, <1>8, ThreadAssumption DEF ChildrenOf, Typed, TypeOK
        <4>2. stmts'[d] = stmts[d] \cup {x}
          BY <4>1, <1>8 DEF Typed, TypeOK
        <4> QED
          BY <4>2, <3>1, <3>2, <1>6, <1>7
      <3>3. CASE x \notin ChildrenOf(d)
        <4>1. stmts'[d] = stmts[d]
          BY <3>3, <1>8 DEF ChildrenOf, Typed, TypeOK
        <4> QED
          BY <4>1, <3>1, <3>3, <1>6, <1>7
      <3> QED
        BY <3>2, <3>3
    <2> QED
      BY <1>3, <1>6, <2>1, <2>2, <2>3 DEF Tree
  <1>14. Views'
    <2> SUFFICES ASSUME NEW u \in Threads, u # t PROVE View(call[u])'
      BY <1>2, <1>6, <1>10 DEF Views, View
    <2>1. View(call[u]) /\ call'[u] = call[u] /\ Shape(call[u]) /\ Lives(call[u])
      BY <1>4 DEF Views, Shapes, Alive
    <2>2. call[u].pc \in {"insert", "erase", "drop"} =>
             Container(call[u].fn, call[u].on) # Container(call[t].fn, h)
      BY <1>1, Exclusion
    <2>3. call[u].pc \in {"insert", "erase"} /\ call[u].fn \in {"AllocDbc", "FreeDbc"} => connections' = connections
      BY <2>2, <1>8, ContainerIs
    <2>4. \A e \in Dbcs : e # Container(call[t].fn, h) => stmts'[e] = stmts[e]
      BY <1>8, ContainerIs DEF Typed, TypeOK
    <2>5. /\ call[u].pc = "insert" /\ call[u].fn = "AllocStmt" => stmts'[call[u].on] = stmts[call[u].on]
          /\ call[u].pc = "erase" /\ call[u].fn = "FreeStmt" =>
                 stmts'[parent[call[u].on]] = stmts[parent[call[u].on]]
      <3>1. call[u].pc = "insert" /\ call[u].fn = "AllocStmt" => call[u].on \in Dbcs
        BY <2>1 DEF Lives, DbcCalls, Typed, TypeOK
      <3>2. call[u].pc = "erase" /\ call[u].fn = "FreeStmt" => parent[call[u].on] \in Dbcs
        BY <2>1 DEF Lives, StmtCalls, Tree, Typed, TypeOK
      <3> QED
        BY <2>2, <2>4, <3>1, <3>2, ContainerIs
    <2> QED
      BY <1>3, <2>1, <2>3, <2>5 DEF View, ChildrenOf
  <1>15. Open'
    BY <1>2, <1>3, <1>4, <1>6 DEF Open, At
  <1> QED
    BY <1>2, <1>9, <1>10, <1>11, <1>12, <1>13, <1>14, <1>15, ShapesKept
LEMMA EraseEndOK ==
    ASSUME IInv, NEW t \in Threads, EraseEnd(t)
    PROVE  IInv'
  <1> DEFINE new == [call[t] EXCEPT !.pc = "destroy", !.seen = {}]
             h == call[t].on
  <1> USE DEF IInv
  <1>1. /\ call[t].pc = "erase" /\ Running(t) /\ Shape(call[t]) /\ Lives(call[t]) /\ View(call[t])
        /\ call[t].fn \in {"FreeDbc", "FreeStmt"}
        /\ call[t] \in Calls
    BY DEF EraseEnd, At, Running, Shapes, Typed, Alive, Views, Shape
  <1>2. /\ Moved(t, new) /\ new \in Calls
        /\ new.fn = call[t].fn /\ new.on = h /\ new.pc = "destroy"
        /\ new.child = call[t].child /\ new.seen = {}
    <2>1. "destroy" \in Places
      BY DEF Places
    <2>2. /\ new \in Calls
          /\ new.fn = call[t].fn /\ new.on = h /\ new.pc = "destroy"
          /\ new.child = call[t].child /\ new.seen = {}
      BY <1>1, <2>1 DEF Calls
    <2>3. Moved(t, new)
      BY DEF EraseEnd, Moved, Typed
    <2> QED
      BY <2>2, <2>3
  <1> HIDE DEF new
  <1>3. UNCHANGED <<liveEnvs, liveDbcs, liveStmts, parent, connected, client, owner, asking>>
    BY DEF EraseEnd
  <1>4. call'[t] = new /\ \A u \in Threads : u # t => call'[u] = call[u]
    BY <1>2, MovedIs
  <1>5. /\ \A y : y \in Inserting' <=> y \in Inserting
        /\ \A y : y \in Erasing' <=> y \in Erasing \/ y = h
        /\ \A y : y \in Closing' <=> y \in Closing
    BY <1>1, <1>2, <1>4, Underway, UnderwayNext
  <1>6. \/ /\ call[t].fn = "FreeDbc" /\ h \in liveDbcs
           /\ connections' = connections \ {h} /\ UNCHANGED stmts
        \/ /\ call[t].fn = "FreeStmt" /\ h \in liveStmts /\ parent[h] \in Dbcs
           /\ stmts' = [stmts EXCEPT ![parent[h]] = @ \ {h}] /\ UNCHANGED connections
    BY <1>1 DEF EraseEnd, Lives, View, DbcCalls, StmtCalls, Typed, TypeOK, Erased, Tree
  <1>7. Typed'
    <2>1. connections' \subseteq Dbcs /\ stmts' \in [Dbcs -> SUBSET Stmts]
      BY <1>6 DEF Typed, TypeOK
    <2> QED
      BY <1>2, <1>3, <2>1, CallsTyped DEF Typed, TypeOK
  <1>8. Shape(new) /\ View(new) /\ ~Holds(new)
    BY <1>1, <1>2 DEF Shape, View, Locked, Holds
  <1>9. Held'
    BY <1>2, <1>3, <1>8, HeldKept, OnLive
  <1>10. Alive' /\ Apart'
    BY <1>1, <1>2, <1>3, AliveKept, ApartKept DEF Live
  <1>11. Tree'
    <2>1. \A d : ChildrenOf(d)' = ChildrenOf(d)
      BY <1>3 DEF ChildrenOf
    <2>2. connections' = liveDbcs \ (Inserting' \cup Erasing')
      BY <1>5, <1>6, ThreadAssumption DEF Tree, Typed, TypeOK
    <2>3. ASSUME NEW d \in Dbcs, d \notin Closing
          PROVE  stmts'[d] = ChildrenOf(d) \ (Inserting' \cup Erasing')
      <3>1. stmts[d] = ChildrenOf(d) \ (Inserting \cup Erasing)
        BY <2>3 DEF Tree
      <3>2. CASE h \in ChildrenOf(d)
        <4>1. call[t].fn = "FreeStmt" /\ parent[h] = d
          BY <3>2, <1>6, ThreadAssumption DEF ChildrenOf, Typed, TypeOK
        <4>2. stmts'[d] = stmts[d] \ {h}
          BY <4>1, <1>6 DEF Typed, TypeOK
        <4> QED
          BY <4>2, <3>1, <1>5
      <3>3. CASE h \notin ChildrenOf(d)
        <4>1. stmts'[d] = stmts[d]
          BY <3>3, <1>6 DEF ChildrenOf, Typed, TypeOK
        <4> QED
          BY <4>1, <3>1, <3>3, <1>5
      <3> QED
        BY <3>2, <3>3
    <2> QED
      BY <1>3, <1>5, <2>1, <2>2, <2>3 DEF Tree
  <1>12. Views'
    <2> SUFFICES ASSUME NEW u \in Threads, u # t PROVE View(call[u])'
      BY <1>4, <1>2 DEF Views, View
    <2>1. View(call[u]) /\ call'[u] = call[u] /\ Shape(call[u]) /\ Lives(call[u])
      BY <1>4 DEF Views, Shapes, Alive
    <2>2. call[u].pc \in {"insert", "erase", "drop"} =>
             Container(call[u].fn, call[u].on) # Container(call[t].fn, h)
      BY <1>1, Exclusion
    <2>3. call[u].pc \in {"insert", "erase"} /\ call[u].fn \in {"AllocDbc", "FreeDbc"} => connections' = connections
      BY <2>2, <1>6, ContainerIs
    <2>4. \A e \in Dbcs : e # Container(call[t].fn, h) => stmts'[e] = stmts[e]
      BY <1>6, ContainerIs DEF Typed, TypeOK
    <2>5. /\ call[u].pc = "insert" /\ call[u].fn = "AllocStmt" => stmts'[call[u].on] = stmts[call[u].on]
          /\ call[u].pc = "erase" /\ call[u].fn = "FreeStmt" =>
                 stmts'[parent[call[u].on]] = stmts[parent[call[u].on]]
      <3>1. call[u].pc = "insert" /\ call[u].fn = "AllocStmt" => call[u].on \in Dbcs
        BY <2>1 DEF Lives, DbcCalls, Typed, TypeOK
      <3>2. call[u].pc = "erase" /\ call[u].fn = "FreeStmt" => parent[call[u].on] \in Dbcs
        BY <2>1 DEF Lives, StmtCalls, Tree, Typed, TypeOK
      <3> QED
        BY <2>2, <2>4, <3>1, <3>2, ContainerIs
    <2> QED
      BY <1>3, <2>1, <2>3, <2>5 DEF View, ChildrenOf
  <1>13. Open'
    BY <1>2, <1>3, <1>4 DEF Open, At
  <1> QED
    BY <1>2, <1>7, <1>8, <1>9, <1>10, <1>11, <1>12, <1>13, ShapesKept

LEMMA DisconnectOK ==
    ASSUME IInv, NEW t \in Threads, Disconnect(t)
    PROVE  IInv'
  <1> DEFINE d == call[t].on
             new == [call[t] EXCEPT !.pc = "drop", !.seen = stmts[d]]
  <1> USE DEF IInv
  <1>1. /\ call[t].pc = "body" /\ Running(t) /\ Shape(call[t]) /\ Lives(call[t])
        /\ call[t].fn = "Disconnect"
        /\ call[t] \in Calls
        /\ connected[d] /\ d \in liveDbcs /\ d \in Dbcs
    BY DEF Disconnect, At, Running, Shapes, Typed, TypeOK, Alive, Lives, DbcCalls
  <1>2. /\ Moved(t, new) /\ new \in Calls
        /\ new.fn = call[t].fn /\ new.on = d /\ new.pc = "drop"
        /\ new.child = call[t].child /\ new.seen = stmts[d]
    <2>1. "drop" \in Places /\ stmts[d] \subseteq Mutexes
      BY <1>1 DEF Places, Mutexes, Typed, TypeOK
    <2>2. /\ new \in Calls
          /\ new.fn = call[t].fn /\ new.on = d /\ new.pc = "drop"
          /\ new.child = call[t].child /\ new.seen = stmts[d]
      BY <1>1, <2>1 DEF Calls
    <2>3. Moved(t, new)
      BY DEF Disconnect, Moved, Typed
    <2> QED
      BY <2>2, <2>3
  <1> HIDE DEF new
  <1>3. UNCHANGED <<liveEnvs, liveDbcs, liveStmts, parent, connections, stmts, connected, client, owner, asking>>
    BY DEF Disconnect
  <1>4. call'[t] = new /\ \A u \in Threads : u # t => call'[u] = call[u]
    BY <1>2, MovedIs
  <1>5. /\ \A y : y \in Inserting' <=> y \in Inserting
        /\ \A y : y \in Erasing' <=> y \in Erasing
        /\ \A y : y \in Closing' <=> y \in Closing \/ y = d
    BY <1>1, <1>2, <1>4, Underway, UnderwayNext
  <1>6. Holds(call[t]) /\ owner[d] = t
    BY <1>1 DEF Held, Holds, Locked
  <1>7. Typed'
    BY <1>2, <1>3, CallsTyped DEF Typed, TypeOK
  <1>8. Shape(new)
    BY <1>1, <1>2 DEF Shape
  <1>9. Held'
    BY <1>2, <1>3, <1>6, HeldKept, OnLive
  <1>10. Alive' /\ Apart'
    BY <1>1, <1>2, <1>3, AliveKept, ApartKept DEF Live
  <1>11. Tree'
    <2>1. \A e : ChildrenOf(e)' = ChildrenOf(e)
      BY <1>3 DEF ChildrenOf
    <2> QED
      BY <1>3, <1>5, <2>1 DEF Tree
  <1>12. stmts[d] = ChildrenOf(d)
    <2>1. d \notin Closing
      <3> SUFFICES ASSUME NEW u \in Threads, call[u].pc = "drop", call[u].on = d
                   PROVE  FALSE
        BY Underway
      <3>1. Holds(call[u])
        BY DEF Holds, Locked, Shapes, Shape
      <3> QED
        BY <3>1, <1>1, <1>6, OneHolder
    <2>2. ChildrenOf(d) \cap Inserting = {}
      <3> SUFFICES ASSUME NEW u \in Threads, call[u].pc = "insert", call[u].child \in ChildrenOf(d)
                   PROVE  FALSE
        BY Underway
      <3>1. call[u].fn = "AllocStmt" /\ call[u].on = d
        BY ThreadAssumption DEF Shapes, Shape, Alive, Lives, ChildrenOf, Typed, TypeOK
      <3>2. Holds(call[u])
        BY <3>1 DEF Holds, Locked
      <3> QED
        BY <3>1, <3>2, <1>1, <1>6, OneHolder
    <2>3. ChildrenOf(d) \cap Erasing = {}
      <3> SUFFICES ASSUME NEW u \in Threads, call[u].pc = "destroy", call[u].on \in ChildrenOf(d)
                   PROVE  FALSE
        BY Underway
      <3>1. Compatible(call[u], call[t])
        BY <1>1 DEF Apart
      <3> QED
        BY <3>1, <1>1, EndsAre DEF Compatible
    <2>4. stmts[d] = ChildrenOf(d) \ (Inserting \cup Erasing)
      BY <2>1, <1>1 DEF Tree
    <2> QED
      BY <2>2, <2>3, <2>4
  <1>13. Views'
    <2> SUFFICES ASSUME NEW u \in Threads PROVE View(call[u])'
      BY DEF Views
    <2>1. View(call[u])
      BY DEF Views
    <2>2. CASE u # t
      BY <2>1, <2>2, <1>3, <1>4 DEF View, ChildrenOf
    <2>3. CASE u = t
      BY <2>3, <1>2, <1>3, <1>4, <1>12 DEF View, ChildrenOf
    <2> QED
      BY <2>2, <2>3
  <1>14. Open'
    BY <1>1, <1>2, <1>3, <1>4 DEF Open, At
  <1> QED
    BY <1>2, <1>7, <1>8, <1>9, <1>10, <1>11, <1>13, <1>14, ShapesKept
LEMMA DropNextOK ==
    ASSUME IInv, NEW t \in Threads, DropNext(t)
    PROVE  IInv'
  <1> DEFINE d == call[t].on
  <1> USE DEF IInv
  <1>1. PICK s \in call[t].seen :
           /\ liveStmts' = liveStmts \ {s}
           /\ call' = [call EXCEPT ![t].seen = @ \ {s}]
    BY DEF DropNext
  <1> DEFINE new == [call[t] EXCEPT !.seen = @ \ {s}]
  <1>2. /\ call[t].pc = "drop" /\ Running(t) /\ Shape(call[t]) /\ Lives(call[t]) /\ View(call[t])
        /\ call[t].fn = "Disconnect" /\ call[t].child = NoHandle
        /\ call[t] \in Calls
        /\ d \in liveDbcs /\ d \in Dbcs
    BY DEF DropNext, At, Running, Shapes, Shape, Typed, TypeOK, Alive, Lives, Views, DbcCalls
  <1>3. /\ Moved(t, new) /\ new \in Calls
        /\ new.fn = call[t].fn /\ new.on = d /\ new.pc = "drop"
        /\ new.child = call[t].child /\ new.seen = call[t].seen \ {s}
    <2>1. /\ new \in Calls
          /\ new.fn = call[t].fn /\ new.on = d /\ new.pc = "drop"
          /\ new.child = call[t].child /\ new.seen = call[t].seen \ {s}
      BY <1>2 DEF Calls
    <2>2. Moved(t, new)
      BY <1>1 DEF Moved, Typed
    <2> QED
      BY <2>1, <2>2
  <1> HIDE DEF new
  <1>4. UNCHANGED <<liveEnvs, liveDbcs, parent, connections, stmts, connected, client, owner, asking>>
    BY DEF DropNext
  <1>5. call'[t] = new /\ \A u \in Threads : u # t => call'[u] = call[u]
    BY <1>3, MovedIs
  <1>6. s \in liveStmts /\ parent[s] = d /\ call[t].seen = ChildrenOf(d)
    BY <1>1, <1>2 DEF View, ChildrenOf
  <1>7. /\ \A y : y \in Inserting' <=> y \in Inserting
        /\ \A y : y \in Erasing' <=> y \in Erasing
        /\ \A y : y \in Closing' <=> y \in Closing
    BY <1>2, <1>3, <1>5, Underway, UnderwayNext
  <1>8. Holds(call[t]) /\ owner[d] = t
    BY <1>2 DEF Held, Holds, Locked
  <1>9. Typed'
    BY <1>1, <1>3, <1>4, CallsTyped DEF Typed, TypeOK
  <1>10. Shape(new)
    BY <1>2, <1>3 DEF Shape
  <1>11. Held'
    BY <1>3, <1>4, <1>8, HeldKept, OnLive
  <1>12. Alive'
    <2> SUFFICES ASSUME NEW u \in Threads PROVE Lives(call[u])'
      BY DEF Alive
    <2>1. Lives(call[u]) /\ Shape(call[u])
      BY DEF Alive, Shapes
    <2>2. CASE u = t
      BY <2>2, <1>2, <1>3, <1>4, <1>5 DEF Lives, DbcCalls, StmtCalls
    <2>3. CASE u # t
      <3>1. call'[u] = call[u]
        BY <2>3, <1>5
      <3>2. call[u].pc # "idle" => call[u].on # s
        BY <2>3, <1>2, <1>6, EndsAre DEF Apart, Compatible
      <3>3. call[u].child # NoHandle /\ call[u].fn = "AllocStmt" => call[u].child # s
        <4> SUFFICES ASSUME call[u].child = s, call[u].child # NoHandle, call[u].fn = "AllocStmt"
                     PROVE  FALSE
          OBVIOUS
        <4>1. Holds(call[u]) /\ call[u].on = d
          BY <2>1, <1>6 DEF Shape, Lives, Holds, Locked
        <4> QED
          BY <4>1, <1>8, <2>3, OneHolder
      <3> QED
        BY <3>1, <3>2, <3>3, <2>1, <1>1, <1>4 DEF Lives
    <2> QED
      BY <2>2, <2>3
  <1>13. Apart'
    BY <1>1, <1>2, <1>3, <1>4, ApartKept DEF Live
  <1>14. \A e : e # d => ChildrenOf(e)' = ChildrenOf(e)
    BY <1>1, <1>4, <1>6 DEF ChildrenOf
  <1>15. Tree'
    <2>1. d \in Closing
      BY <1>2, Underway
    <2>2. connections = liveDbcs \ (Inserting' \cup Erasing')
      BY <1>7 DEF Tree
    <2>3. \A e \in Dbcs : e \notin Closing' => stmts[e] = ChildrenOf(e)' \ (Inserting' \cup Erasing')
      BY <1>7, <1>14, <2>1 DEF Tree
    <2> QED
      BY <1>1, <1>4, <2>2, <2>3 DEF Tree
  <1>16. Views'
    <2> SUFFICES ASSUME NEW u \in Threads PROVE View(call[u])'
      BY DEF Views
    <2>1. View(call[u])
      BY DEF Views
    <2>2. CASE u # t
      <3>1. call[u].pc = "drop" => call[u].on # d
        <4>1. call[u].pc = "drop" => Holds(call[u])
          BY DEF Shapes, Shape, Holds, Locked
        <4> QED
          BY <4>1, <2>2, <1>8, OneHolder
      <3>2. call[u].pc = "drop" => call[u].seen = {x \in liveStmts' : parent'[x] = call[u].on}
        BY <3>1, <2>1, <1>1, <1>4, <1>6 DEF View, ChildrenOf
      <3> QED
        BY <2>1, <2>2, <3>2, <1>4, <1>5 DEF View, ChildrenOf
    <2>3. CASE u = t
      <3>1. call'[u].seen = {x \in liveStmts' : parent'[x] = call'[u].on}
        BY <2>3, <1>1, <1>3, <1>4, <1>5, <1>6 DEF ChildrenOf
      <3> QED
        BY <2>3, <3>1, <1>3, <1>5 DEF View, ChildrenOf
    <2> QED
      BY <2>2, <2>3
  <1>17. Open'
    BY <1>1, <1>2, <1>3, <1>4, <1>5 DEF Open, At
  <1> QED
    BY <1>3, <1>9, <1>10, <1>11, <1>12, <1>13, <1>15, <1>16, <1>17, ShapesKept
LEMMA DropDoneOK ==
    ASSUME IInv, NEW t \in Threads, DropDone(t)
    PROVE  IInv'
  <1> DEFINE d == call[t].on
             new == [call[t] EXCEPT !.pc = "unlock"]
  <1> USE DEF IInv
  <1>1. /\ call[t].pc = "drop" /\ Running(t) /\ Shape(call[t]) /\ Lives(call[t]) /\ View(call[t])
        /\ call[t].fn = "Disconnect" /\ call[t].child = NoHandle
        /\ Goto(t, "unlock") /\ "unlock" \in Places
        /\ d \in liveDbcs /\ d \in Dbcs
    BY DEF DropDone, At, Running, Shapes, Shape, Typed, TypeOK, Alive, Lives, Views, DbcCalls, Places
  <1>2. /\ Moved(t, new) /\ new \in Calls
        /\ new.fn = call[t].fn /\ new.on = d /\ new.pc = "unlock"
        /\ new.child = call[t].child
    BY <1>1, GotoIs
  <1> HIDE DEF new
  <1>3. UNCHANGED <<liveEnvs, liveDbcs, liveStmts, parent, connections, owner, asking>>
    BY DEF DropDone
  <1>4. /\ stmts' = [stmts EXCEPT ![d] = {}]
        /\ client' = [client EXCEPT ![d] = FALSE]
        /\ connected' = [connected EXCEPT ![d] = FALSE]
    BY DEF DropDone
  <1>5. call'[t] = new /\ \A u \in Threads : u # t => call'[u] = call[u]
    BY <1>2, MovedIs
  <1>6. ChildrenOf(d) = {}
    BY <1>1 DEF DropDone, View
  <1>7. Holds(call[t]) /\ owner[d] = t
    BY <1>1 DEF Held, Holds, Locked
  <1>8. \A u \in Threads : u # t /\ Holds(call[u]) => call[u].on # d
    BY <1>7, OneHolder
  <1>9. /\ \A y : y \in Inserting' <=> y \in Inserting
        /\ \A y : y \in Erasing' <=> y \in Erasing
        /\ \A y : y \in Closing' <=> y \in Closing /\ y # d
    <2>1. \A u \in Threads : u # t /\ call[u].pc = "drop" => call[u].on # d
      BY <1>8 DEF Shapes, Shape, Holds, Locked
    <2> QED
      BY <1>1, <1>2, <1>5, <2>1, Underway, UnderwayNext
  <1>10. Typed'
    <2>1. /\ stmts' \in [Dbcs -> SUBSET Stmts]
          /\ client' \in [Dbcs -> BOOLEAN] /\ connected' \in [Dbcs -> BOOLEAN]
      BY <1>4 DEF Typed, TypeOK
    <2> QED
      BY <1>2, <1>3, <2>1, CallsTyped DEF Typed, TypeOK
  <1>11. Shape(new) /\ View(new)
    BY <1>1, <1>2 DEF Shape, View, Locked
  <1>12. Held'
    BY <1>2, <1>3, <1>7, HeldKept, OnLive
  <1>13. Alive' /\ Apart'
    BY <1>1, <1>2, <1>3, AliveKept, ApartKept DEF Live
  <1>14. \A e : ChildrenOf(e)' = ChildrenOf(e)
    BY <1>3 DEF ChildrenOf
  <1>15. stmts'[d] = {} /\ \A e \in Dbcs : e # d => stmts'[e] = stmts[e]
    BY <1>1, <1>4 DEF Typed, TypeOK
  <1>16. Tree'
    <2>1. connections = liveDbcs \ (Inserting' \cup Erasing')
      BY <1>9 DEF Tree
    <2>2. \A e \in Dbcs : e \notin Closing' => stmts'[e] = ChildrenOf(e) \ (Inserting' \cup Erasing')
      <3> SUFFICES ASSUME NEW e \in Dbcs, e \notin Closing'
                   PROVE  stmts'[e] = ChildrenOf(e) \ (Inserting' \cup Erasing')
        OBVIOUS
      <3>1. CASE e = d
        BY <3>1, <1>6, <1>15
      <3>2. CASE e # d
        <4>1. stmts[e] = ChildrenOf(e) \ (Inserting \cup Erasing)
          BY <3>2, <1>9 DEF Tree
        <4> QED
          BY <4>1, <3>2, <1>9, <1>15
      <3> QED
        BY <3>1, <3>2
    <2> QED
      BY <1>3, <1>14, <2>1, <2>2 DEF Tree
  <1>17. Views'
    <2> SUFFICES ASSUME NEW u \in Threads, u # t PROVE View(call[u])'
      BY <1>5, <1>2, <1>11 DEF Views, View
    <2>1. View(call[u]) /\ call'[u] = call[u] /\ Shape(call[u]) /\ Lives(call[u])
      BY <1>5 DEF Views, Shapes, Alive
    <2>2. call[u].pc = "insert" /\ call[u].fn = "AllocStmt" => call[u].on # d /\ call[u].on \in Dbcs
      BY <2>1, <1>8 DEF Holds, Locked, Lives, DbcCalls, Typed, TypeOK
    <2>3. call[u].pc = "erase" /\ call[u].fn = "FreeStmt" => parent[call[u].on] # d /\ parent[call[u].on] \in Dbcs
      BY <2>1, <1>6 DEF Lives, StmtCalls, ChildrenOf, Tree, Typed, TypeOK
    <2> QED
      BY <1>3, <2>1, <2>2, <2>3, <1>15 DEF View, ChildrenOf
  <1>18. Open'
    <2>1. \A e \in Dbcs : e # d => connected'[e] = connected[e] /\ client'[e] = client[e]
      BY <1>4 DEF Typed, TypeOK
    <2>2. ~connected'[d]
      BY <1>1, <1>4 DEF Typed, TypeOK
    <2>3. \A s \in liveStmts : connected'[parent[s]]
      BY <1>6, <2>1 DEF Open, ChildrenOf, Tree, Typed, TypeOK
    <2>4. \A e \in Dbcs : connected'[e] => client'[e] /\ e \in liveDbcs
      BY <2>1, <2>2 DEF Open
    <2>5. ASSUME NEW u \in Threads, u # t
          PROVE  /\ call[u].pc = "health" => ~connected'[call[u].on] /\ client'[call[u].on]
                 /\ call[u].pc = "drop" => connected'[call[u].on]
      <3>1. call[u].pc \in {"health", "drop"} => call[u].on \in Dbcs /\ call[u].on # d
        BY <2>5, <1>8 DEF Shapes, Shape, Holds, Locked, Alive, Lives, DbcCalls, Typed, TypeOK
      <3>2. CASE call[u].pc = "health"
        BY <2>1, <3>1, <3>2 DEF Open, At
      <3>3. CASE call[u].pc = "drop"
        BY <2>1, <3>1, <3>3 DEF Open, At
      <3> QED
        BY <3>2, <3>3
    <2>6. ASSUME NEW u \in Threads, u # t, call[u].pc = "insert", call[u].fn = "AllocDbc"
          PROVE  ~connected'[call[u].child]
      <3>1. call[u].child \in Dbcs
        BY <2>6 DEF Shapes, Shape, Alive, Lives, Typed, TypeOK
      <3> QED
        BY <2>1, <2>2, <2>6, <3>1 DEF Open, At
    <2> QED
      BY <1>2, <1>3, <1>5, <2>3, <2>4, <2>5, <2>6 DEF Open, At
  <1> QED
    BY <1>2, <1>10, <1>11, <1>12, <1>13, <1>16, <1>17, <1>18, ShapesKept

\* What Permitted demands is what Compatible says of the new call.
LEMMA StartOK ==
    ASSUME IInv, FreesAlone, NEW t \in Threads, NEW h \in Live, NEW fn \in CallsOn(h), Start(t, fn, h)
    PROVE  IInv'
  <1> DEFINE new == [Idle EXCEPT !.fn = fn, !.on = h, !.pc = "entry"]
  <1> USE DEF IInv
  <1>1. /\ \/ h = Env /\ h \in liveEnvs /\ fn \in {"AllocDbc", "FreeEnv"}
           \/ h \in liveDbcs /\ fn \in DbcCalls
           \/ h \in liveStmts /\ fn \in StmtCalls
        /\ h \in Mutexes /\ h # NoHandle
    BY ThreadAssumption DEF Live, CallsOn, DbcCalls, StmtCalls, Typed, TypeOK, Mutexes
  <1>2. fn \in Functions /\ "entry" \in Places /\ fn # "none"
    BY <1>1 DEF Functions, Places, DbcCalls, StmtCalls
  <1>3. /\ Moved(t, new) /\ new \in Calls
        /\ new.fn = fn /\ new.on = h /\ new.pc = "entry"
        /\ new.child = NoHandle /\ new.seen = {}
    BY <1>1, <1>2 DEF Start, Moved, Idle, Calls
  <1> HIDE DEF new
  <1>4. UNCHANGED <<liveEnvs, liveDbcs, liveStmts, parent, connections, stmts, connected, client, owner, asking>>
    BY DEF Start
  <1>5. call'[t] = new /\ (\A u \in Threads : u # t => call'[u] = call[u]) /\ call[t].pc = "idle"
    BY <1>3, MovedIs DEF Start, Running
  <1>6. /\ \A y : y \in Inserting' <=> y \in Inserting
        /\ \A y : y \in Erasing' <=> y \in Erasing
        /\ \A y : y \in Closing' <=> y \in Closing
    BY <1>3, <1>5, Underway, UnderwayNext
  <1>7. Typed'
    BY <1>3, <1>4, CallsTyped DEF Typed, TypeOK
  <1>8. Shape(new) /\ View(new) /\ ~Holds(new)
    BY <1>2, <1>3 DEF Shape, View, Holds
  <1>9. Held'
    BY <1>3, <1>4, <1>8, HeldKept, OnLive
  <1>10. Alive'
    <2> SUFFICES ASSUME NEW u \in Threads PROVE Lives(call[u])'
      BY DEF Alive
    <2>1. Lives(call[u])
      BY DEF Alive
    <2>2. CASE u # t
      BY <2>1, <2>2, <1>4, <1>5 DEF Lives
    <2>3. CASE u = t
      BY <2>3, <1>1, <1>3, <1>4, <1>5 DEF Lives, DbcCalls, StmtCalls
    <2> QED
      BY <2>2, <2>3
  <1>11. ASSUME NEW u \in Threads, u # t, call[u].pc # "idle"
         PROVE  /\ h # call[u].child /\ h \notin Ends(call[u].fn, call[u].on)
                /\ call[u].on \notin Ends(fn, h)
                /\ {fn, call[u].fn} \cap Frees # {} =>
                        Container(fn, h) # Container(call[u].fn, call[u].on)
    <2>1. /\ h # call[u].child /\ h \notin Ends(call[u].fn, call[u].on)
          /\ call[u].on \notin Ends(fn, h)
          /\ {fn, call[u].fn} \cap Frees # {} =>
                 \/ Container(fn, h) = NoHandle
                 \/ Container(fn, h) # Container(call[u].fn, call[u].on)
      BY <1>11 DEF Start, Permitted, Running
    <2>2. fn \in Frees => Container(fn, h) # NoHandle
      <3>1. fn = "FreeStmt" => parent[h] \in Dbcs
        BY <1>1 DEF DbcCalls, Tree, Typed, TypeOK
      <3> QED
        BY <3>1, <1>1, ContainerIs, ThreadAssumption DEF Frees
    <2>3. call[u].fn \in Frees => Container(call[u].fn, call[u].on) # NoHandle
      <3>1. call[u].fn = "FreeStmt" => parent[call[u].on] \in Dbcs
        BY <1>11 DEF Alive, Lives, StmtCalls, Tree, Typed, TypeOK
      <3> QED
        BY <3>1, ContainerIs, ThreadAssumption DEF Frees
    <2> QED
      BY <2>1, <2>2, <2>3
  <1>12. Apart'
    <2> SUFFICES ASSUME NEW a \in Threads, NEW b \in Threads, a # b,
                        call'[a].pc # "idle", call'[b].pc # "idle"
                 PROVE  Compatible(call[a], call[b])'
      BY DEF Apart, Compatible
    <2>1. \A f, g : Ends(f, g)' = Ends(f, g) /\ Container(f, g)' = Container(f, g)
      BY <1>4 DEF Ends, ChildrenOf, Live, Container
    <2>2. CASE a # t /\ b # t
      <3>1. Compatible(call[a], call[b])
        BY DEF Apart
      <3> QED
        BY <3>1, <2>2, <1>4, <1>5 DEF Compatible, Ends, ChildrenOf, Live, Container
    <2>3. CASE a = t
      <3>1. /\ h # call[b].child /\ h \notin Ends(call[b].fn, call[b].on)
            /\ fn \in Frees => Container(fn, h) # Container(call[b].fn, call[b].on)
        BY <2>3, <1>5, <1>11
      <3> QED
        BY <3>1, <2>3, <1>3, <1>4, <1>5 DEF Compatible, Ends, ChildrenOf, Live, Container
    <2>4. CASE b = t
      <3>1. /\ call[a].on # NoHandle /\ call[a].on \notin Ends(fn, h)
            /\ call[a].fn \in Frees => Container(fn, h) # Container(call[a].fn, call[a].on)
        BY <2>4, <1>5, <1>11, OnLive DEF Running
      <3> QED
        BY <3>1, <2>4, <1>3, <1>4, <1>5 DEF Compatible, Ends, ChildrenOf, Live, Container
    <2> QED
      BY <2>2, <2>3, <2>4
  <1>13. Tree'
    <2>1. \A e : ChildrenOf(e)' = ChildrenOf(e)
      BY <1>4 DEF ChildrenOf
    <2> QED
      BY <1>4, <1>6, <2>1 DEF Tree
  <1>14. Views'
    <2> SUFFICES ASSUME NEW u \in Threads, u # t PROVE View(call[u])'
      BY <1>5, <1>3 DEF Views, View
    <2>1. View(call[u])
      BY DEF Views
    <2> QED
      BY <2>1, <1>4, <1>5 DEF View, ChildrenOf
  <1>15. Open'
    BY <1>3, <1>4, <1>5 DEF Open, At
  <1> QED
    BY <1>3, <1>7, <1>8, <1>9, <1>10, <1>12, <1>13, <1>14, <1>15, ShapesKept
\* Before the environment nothing is alive, and nobody is inside the driver.
LEMMA AllocEnvOK ==
    ASSUME IInv, NEW t \in Threads, AllocEnv(t)
    PROVE  IInv'
  <1> USE DEF IInv
  <1>1. /\ liveEnvs = {} /\ liveEnvs' = {Env}
        /\ UNCHANGED <<liveDbcs, liveStmts, parent, connections, stmts, connected, client, owner, asking, call>>
    BY DEF AllocEnv
  <1>2. Live = {}
    BY <1>1 DEF Live, Tree
  <1>3. \A u \in Threads : call[u].pc = "idle"
    BY <1>2, OnLive DEF Running
  <1>4. Typed' /\ Shapes' /\ Held'
    BY <1>1 DEF Typed, TypeOK, Shapes, Shape, Held, Holds
  <1>5. Alive'
    BY <1>1, <1>3 DEF Alive, Lives
  <1>6. Apart'
    BY <1>1, <1>3 DEF Apart, Compatible
  <1>7. Tree'
    BY <1>1 DEF Tree, ChildrenOf, Inserting, Erasing, Closing, At
  <1>8. Views'
    BY <1>1 DEF Views, View, ChildrenOf
  <1>9. Open'
    BY <1>1 DEF Open, At
  <1> QED
    BY <1>4, <1>5, <1>6, <1>7, <1>8, <1>9

\* While anyone else is inside the driver nobody frees the environment.
LEMMA NoFreeEnv ==
    ASSUME Typed, Shapes, Alive, Apart, NEW t \in Threads, NEW u \in Threads, t # u,
           call[t].pc # "idle", call[u].pc # "idle"
    PROVE  call[u].fn # "FreeEnv"
  <1>1. call[t].on \in Live /\ Compatible(call[t], call[u])
    BY OnLive DEF Running, Apart
  <1> QED
    BY <1>1, EndsAre DEF Compatible

LEMMA AllocDbcOK ==
    ASSUME IInv, NEW t \in Threads, AllocDbc(t)
    PROVE  IInv'
  <1> USE DEF IInv
  <1>1. PICK d \in Dbcs \ liveDbcs :
          /\ liveDbcs' = liveDbcs \cup {d}
          /\ connected' = [connected EXCEPT ![d] = FALSE]
          /\ client' = [client EXCEPT ![d] = FALSE]
          /\ stmts' = [stmts EXCEPT ![d] = {}]
          /\ call' = [call EXCEPT ![t].pc = "insert", ![t].child = d, ![t].seen = connections]
    BY DEF AllocDbc
  <1> DEFINE new == [call[t] EXCEPT !.pc = "insert", !.child = d, !.seen = connections]
  <1>2. /\ call[t].pc = "body" /\ Running(t) /\ Shape(call[t]) /\ Lives(call[t])
        /\ call[t].fn = "AllocDbc" /\ call[t].on = Env /\ Env \in liveEnvs
        /\ call[t] \in Calls
    BY DEF AllocDbc, At, Running, Shapes, Typed, Alive, Lives
  <1>3. d \in Mutexes /\ d # NoHandle /\ d \notin Live
    BY ThreadAssumption DEF Mutexes, Live, Typed, TypeOK
  <1>4. /\ Moved(t, new) /\ new \in Calls
        /\ new.fn = "AllocDbc" /\ new.on = Env /\ new.pc = "insert"
        /\ new.child = d /\ new.seen = connections
    <2>1. "insert" \in Places /\ connections \subseteq Mutexes
      BY DEF Places, Mutexes, Typed, TypeOK
    <2>2. /\ new \in Calls
          /\ new.fn = "AllocDbc" /\ new.on = Env /\ new.pc = "insert"
          /\ new.child = d /\ new.seen = connections
      BY <1>2, <1>3, <2>1 DEF Calls
    <2>3. Moved(t, new)
      BY <1>1 DEF Moved, Typed
    <2> QED
      BY <2>2, <2>3
  <1> HIDE DEF new
  <1>5. UNCHANGED <<liveEnvs, liveStmts, parent, connections, owner, asking>>
    BY DEF AllocDbc
  <1>6. call'[t] = new /\ \A u \in Threads : u # t => call'[u] = call[u]
    BY <1>4, MovedIs
  <1>7. /\ \A y : y \in Inserting' <=> y \in Inserting \/ y = d
        /\ \A y : y \in Erasing' <=> y \in Erasing
        /\ \A y : y \in Closing' <=> y \in Closing
    BY <1>2, <1>4, <1>6, Underway, UnderwayNext
  <1>8. Holds(call[t]) /\ owner[Env] = t
    BY <1>2 DEF Held, Holds, Locked
  \* No call knows the address yet.
  <1>9. ASSUME NEW u \in Threads, call[u].pc # "idle"
        PROVE  call[u].on # d /\ call[u].child # d
    <2>1. call[u].on # d
      BY <1>3, <1>9, OnLive DEF Running
    <2>2. call[u].child # NoHandle => call[u].child \in Live
      BY DEF Shapes, Shape, Alive, Lives, Live
    <2> QED
      BY <1>3, <2>1, <2>2
  <1>10. Typed'
    <2>1. /\ liveDbcs' \subseteq Dbcs /\ stmts' \in [Dbcs -> SUBSET Stmts]
          /\ client' \in [Dbcs -> BOOLEAN] /\ connected' \in [Dbcs -> BOOLEAN]
      BY <1>1 DEF Typed, TypeOK
    <2> QED
      BY <1>4, <1>5, <2>1, CallsTyped DEF Typed, TypeOK
  <1>11. Shape(new)
    BY <1>3, <1>4 DEF Shape
  <1>12. Held'
    BY <1>4, <1>5, <1>8, HeldKept, OnLive
  <1>13. Alive'
    <2> SUFFICES ASSUME NEW u \in Threads PROVE Lives(call[u])'
      BY DEF Alive
    <2>1. Lives(call[u])
      BY DEF Alive
    <2>2. liveDbcs' = liveDbcs \cup {d}
      BY <1>1
    <2>3. CASE u # t
      <3>1. call'[u] = call[u]
        BY <2>3, <1>6
      <3> QED
        BY <2>1, <2>2, <3>1, <1>5 DEF Lives
    <2>4. CASE u = t
      BY <2>2, <2>4, <1>2, <1>4, <1>5, <1>6 DEF Lives, DbcCalls, StmtCalls
    <2> QED
      BY <2>3, <2>4
  <1>14. Apart'
    <2> SUFFICES ASSUME NEW a \in Threads, NEW b \in Threads, a # b,
                        call'[a].pc # "idle", call'[b].pc # "idle"
                 PROVE  Compatible(call[a], call[b])'
      BY DEF Apart, Compatible
    <2>1. /\ call[a].pc # "idle" /\ call[b].pc # "idle"
          /\ call'[a].fn = call[a].fn /\ call'[a].on = call[a].on
          /\ call'[b].fn = call[b].fn /\ call'[b].on = call[b].on
      BY <1>2, <1>4, <1>6
    <2>2. Compatible(call[a], call[b])
      BY DEF Apart
    <2>3. call'[a].child = call[a].child \/ (a = t /\ call'[a].child = d)
      BY <1>4, <1>6
    <2>4. call'[b].child = call[b].child \/ (b = t /\ call'[b].child = d)
      BY <1>4, <1>6
    <2>5. /\ call'[a].on # call'[b].child
          /\ call'[a].child # NoHandle => call'[a].child # call'[b].child
      BY <1>9, <2>1, <2>2, <2>3, <2>4 DEF Compatible
    <2>6. Ends(call[b].fn, call[b].on)' = Ends(call[b].fn, call[b].on)
      <3>1. call[b].fn # "FreeEnv"
        BY <2>1, NoFreeEnv
      <3> QED
        BY <3>1, <2>1, <1>5 DEF Ends, ChildrenOf
    <2>7. /\ Container(call[a].fn, call[a].on)' = Container(call[a].fn, call[a].on)
          /\ Container(call[b].fn, call[b].on)' = Container(call[b].fn, call[b].on)
      BY <2>1, <1>5 DEF Container
    <2> QED
      BY <2>1, <2>2, <2>5, <2>6, <2>7 DEF Compatible
  <1>15. \A e : ChildrenOf(e)' = ChildrenOf(e)
    BY <1>5 DEF ChildrenOf
  <1>16. ChildrenOf(d) = {}
    BY DEF ChildrenOf, Tree
  <1>17. Tree'
    <2>1. connections' = liveDbcs' \ (Inserting' \cup Erasing')
      BY <1>1, <1>5, <1>7 DEF Tree
    <2>2. \A e \in Dbcs : e \notin Closing' => stmts'[e] = ChildrenOf(e) \ (Inserting' \cup Erasing')
      <3> SUFFICES ASSUME NEW e \in Dbcs, e \notin Closing'
                   PROVE  stmts'[e] = ChildrenOf(e) \ (Inserting' \cup Erasing')
        OBVIOUS
      <3>1. CASE e = d
        BY <3>1, <1>1, <1>16 DEF Typed, TypeOK
      <3>2. CASE e # d
        <4>1. stmts[e] = ChildrenOf(e) \ (Inserting \cup Erasing)
          BY <1>7 DEF Tree
        <4>2. stmts'[e] = stmts[e]
          BY <1>1, <3>2 DEF Typed, TypeOK
        <4>3. d \notin ChildrenOf(e)
          BY ThreadAssumption DEF ChildrenOf, Typed, TypeOK
        <4> QED
          BY <4>1, <4>2, <4>3, <1>7
      <3> QED
        BY <3>1, <3>2
    <2> QED
      BY <1>1, <1>2, <1>5, <1>15, <2>1, <2>2 DEF Tree
  <1>18. Views'
    <2> SUFFICES ASSUME NEW u \in Threads PROVE View(call[u])'
      BY DEF Views
    <2>1. View(call[u]) /\ Lives(call[u])
      BY DEF Views, Alive
    <2>2. \A e \in liveDbcs : stmts'[e] = stmts[e]
      BY <1>1 DEF Typed, TypeOK
    <2>3. CASE u # t
      <3>1. call[u].pc = "insert" /\ call[u].fn = "AllocStmt" => call[u].on \in liveDbcs
        BY <2>1 DEF Lives, DbcCalls
      <3>2. call[u].pc = "erase" /\ call[u].fn = "FreeStmt" => parent[call[u].on] \in liveDbcs
        BY <2>1 DEF Lives, StmtCalls, Tree
      <3> QED
        BY <2>1, <2>2, <2>3, <3>1, <3>2, <1>5, <1>6 DEF View, ChildrenOf
    <2>4. CASE u = t
      BY <2>4, <1>4, <1>5, <1>6 DEF View
    <2> QED
      BY <2>3, <2>4
  <1>19. Open'
    <2>1. \A e \in Dbcs : e # d => connected'[e] = connected[e] /\ client'[e] = client[e]
      BY <1>1 DEF Typed, TypeOK
    <2>2. ~connected'[d]
      BY <1>1 DEF Typed, TypeOK
    <2>3. \A s \in liveStmts : connected'[parent[s]]
      BY <2>1 DEF Open, Tree, Typed, TypeOK
    <2>4. \A e \in Dbcs : connected'[e] => client'[e] /\ e \in liveDbcs'
      BY <1>1, <2>1, <2>2 DEF Open
    <2>5. ASSUME NEW u \in Threads, u # t
          PROVE  /\ call[u].pc = "health" => ~connected'[call[u].on] /\ client'[call[u].on]
                 /\ call[u].pc = "drop" => connected'[call[u].on]
      <3>1. call[u].pc \in {"health", "drop"} => call[u].on \in Dbcs /\ call[u].on # d
        BY DEF Shapes, Shape, Alive, Lives, DbcCalls, Typed, TypeOK
      <3>2. CASE call[u].pc = "health"
        BY <2>1, <3>1, <3>2 DEF Open, At
      <3>3. CASE call[u].pc = "drop"
        BY <2>1, <3>1, <3>3 DEF Open, At
      <3> QED
        BY <3>2, <3>3
    <2>6. ASSUME NEW u \in Threads, u # t, call[u].pc = "insert", call[u].fn = "AllocDbc"
          PROVE  ~connected'[call[u].child]
      <3>1. call[u].child \in Dbcs
        BY <2>6 DEF Shapes, Shape, Alive, Lives, Typed, TypeOK
      <3> QED
        BY <2>1, <2>2, <2>6, <3>1 DEF Open, At
    <2> QED
      BY <1>4, <1>5, <1>6, <2>2, <2>3, <2>4, <2>5, <2>6 DEF Open, At
  <1> QED
    BY <1>4, <1>10, <1>11, <1>12, <1>13, <1>14, <1>17, <1>18, <1>19, ShapesKept
LEMMA AllocStmtOK ==
    ASSUME IInv, NEW t \in Threads, AllocStmt(t)
    PROVE  IInv'
  <1> DEFINE d == call[t].on
  <1> USE DEF IInv
  <1>1. PICK s \in Stmts \ liveStmts :
          /\ liveStmts' = liveStmts \cup {s}
          /\ parent' = [parent EXCEPT ![s] = d]
          /\ call' = [call EXCEPT ![t].pc = "insert", ![t].child = s, ![t].seen = stmts[d]]
    BY DEF AllocStmt
  <1> DEFINE new == [call[t] EXCEPT !.pc = "insert", !.child = s, !.seen = stmts[d]]
  <1>2. /\ call[t].pc = "body" /\ Running(t) /\ Shape(call[t]) /\ Lives(call[t])
        /\ call[t].fn = "AllocStmt" /\ d \in liveDbcs /\ d \in Dbcs /\ connected[d]
        /\ call[t] \in Calls
    BY DEF AllocStmt, At, Running, Shapes, Typed, TypeOK, Alive, Lives, DbcCalls
  <1>3. s \in Mutexes /\ s # NoHandle /\ s \notin Live
    BY ThreadAssumption DEF Mutexes, Live, Typed, TypeOK
  <1>4. /\ Moved(t, new) /\ new \in Calls
        /\ new.fn = "AllocStmt" /\ new.on = d /\ new.pc = "insert"
        /\ new.child = s /\ new.seen = stmts[d]
    <2>1. "insert" \in Places /\ stmts[d] \subseteq Mutexes
      BY <1>2 DEF Places, Mutexes, Typed, TypeOK
    <2>2. /\ new \in Calls
          /\ new.fn = "AllocStmt" /\ new.on = d /\ new.pc = "insert"
          /\ new.child = s /\ new.seen = stmts[d]
      BY <1>2, <1>3, <2>1 DEF Calls
    <2>3. Moved(t, new)
      BY <1>1 DEF Moved, Typed
    <2> QED
      BY <2>2, <2>3
  <1> HIDE DEF new
  <1>5. UNCHANGED <<liveEnvs, liveDbcs, connections, stmts, connected, client, owner, asking>>
    BY DEF AllocStmt
  <1>6. call'[t] = new /\ \A u \in Threads : u # t => call'[u] = call[u]
    BY <1>4, MovedIs
  <1>7. /\ \A y : y \in Inserting' <=> y \in Inserting \/ y = s
        /\ \A y : y \in Erasing' <=> y \in Erasing
        /\ \A y : y \in Closing' <=> y \in Closing
    BY <1>2, <1>4, <1>6, Underway, UnderwayNext
  <1>8. Holds(call[t]) /\ owner[d] = t
    BY <1>2 DEF Held, Holds, Locked
  <1>9. ASSUME NEW u \in Threads, call[u].pc # "idle"
        PROVE  call[u].on # s /\ call[u].child # s
    <2>1. call[u].on # s
      BY <1>3, <1>9, OnLive DEF Running
    <2>2. call[u].child # NoHandle => call[u].child \in Live
      BY DEF Shapes, Shape, Alive, Lives, Live
    <2> QED
      BY <1>3, <2>1, <2>2
  <1>10. parent'[s] = d /\ \A x \in Stmts : x # s => parent'[x] = parent[x]
    BY <1>1 DEF Typed, TypeOK
  <1>11. liveStmts' = liveStmts \cup {s} /\ s \notin liveStmts /\ s \in Stmts
    BY <1>1
  <1>12. Typed'
    <2>1. liveStmts' \subseteq Stmts /\ parent' \in [Stmts -> Dbcs \cup {NoHandle}]
      BY <1>1, <1>2 DEF Typed, TypeOK
    <2> QED
      BY <1>4, <1>5, <2>1, CallsTyped DEF Typed, TypeOK
  <1>13. Shape(new)
    BY <1>3, <1>4 DEF Shape
  <1>14. Held'
    BY <1>4, <1>5, <1>8, HeldKept, OnLive
  <1>15. Alive'
    <2> SUFFICES ASSUME NEW u \in Threads PROVE Lives(call[u])'
      BY DEF Alive
    <2>1. Lives(call[u]) /\ Shape(call[u])
      BY DEF Alive, Shapes
    <2>2. CASE u # t
      <3>1. call'[u] = call[u]
        BY <2>2, <1>6
      <3>2. call[u].child # NoHandle /\ call[u].fn = "AllocStmt" => parent'[call[u].child] = parent[call[u].child]
        BY <2>1, <1>9, <1>10 DEF Lives, Shape, Typed, TypeOK
      <3> QED
        BY <2>1, <3>1, <3>2, <1>5, <1>11 DEF Lives
    <2>3. CASE u = t
      BY <2>3, <1>2, <1>4, <1>5, <1>6, <1>10, <1>11 DEF Lives, DbcCalls, StmtCalls
    <2> QED
      BY <2>2, <2>3
  <1>16. Apart'
    <2> SUFFICES ASSUME NEW a \in Threads, NEW b \in Threads, a # b,
                        call'[a].pc # "idle", call'[b].pc # "idle"
                 PROVE  Compatible(call[a], call[b])'
      BY DEF Apart, Compatible
    <2>1. /\ call[a].pc # "idle" /\ call[b].pc # "idle"
          /\ call'[a].fn = call[a].fn /\ call'[a].on = call[a].on
          /\ call'[b].fn = call[b].fn /\ call'[b].on = call[b].on
      BY <1>2, <1>4, <1>6
    <2>2. Compatible(call[a], call[b])
      BY DEF Apart
    <2>3. call'[a].child = call[a].child \/ (a = t /\ call'[a].child = s)
      BY <1>4, <1>6
    <2>4. call'[b].child = call[b].child \/ (b = t /\ call'[b].child = s)
      BY <1>4, <1>6
    <2>5. /\ call'[a].on # call'[b].child
          /\ call'[a].child # NoHandle => call'[a].child # call'[b].child
      BY <1>9, <2>1, <2>2, <2>3, <2>4 DEF Compatible
    <2>6. call[a].on \notin Ends(call[b].fn, call[b].on)'
      <3>1. call[b].fn # "FreeEnv"
        BY <2>1, NoFreeEnv
      <3>2. call[a].on # s
        BY <2>1, <1>9
      <3>3. call[a].on \in {x \in liveStmts' : parent'[x] = call[b].on} => call[a].on \in ChildrenOf(call[b].on)
        BY <3>2, <1>10, <1>11 DEF ChildrenOf, Typed, TypeOK
      <3>4. call[a].on \notin Ends(call[b].fn, call[b].on)
        BY <2>1, <2>2 DEF Compatible
      <3> QED
        BY <2>1, <3>1, <3>3, <3>4 DEF Ends, ChildrenOf
    <2>7. ASSUME NEW c \in {a, b}
          PROVE  Container(call[c].fn, call[c].on)' = Container(call[c].fn, call[c].on)
      <3>1. call[c].fn = "FreeStmt" => parent'[call[c].on] = parent[call[c].on]
        BY <2>1, <1>9, <1>10 DEF Alive, Lives, StmtCalls, Typed, TypeOK
      <3> QED
        BY <2>1, <3>1 DEF Container
    <2> QED
      BY <2>1, <2>2, <2>5, <2>6, <2>7 DEF Compatible
  <1>17. Tree'
    <2>1. \A x \in liveStmts' : parent'[x] \in liveDbcs
      BY <1>2, <1>10, <1>11 DEF Tree, Typed, TypeOK
    <2>2. connections = liveDbcs \ (Inserting' \cup Erasing')
      BY <1>7, <1>11, ThreadAssumption DEF Tree, Typed, TypeOK
    <2>3. \A e \in Dbcs : e \notin Closing' => stmts[e] = ChildrenOf(e)' \ (Inserting' \cup Erasing')
      <3> SUFFICES ASSUME NEW e \in Dbcs, e \notin Closing'
                   PROVE  stmts[e] = ChildrenOf(e)' \ (Inserting' \cup Erasing')
        OBVIOUS
      <3>1. stmts[e] = ChildrenOf(e) \ (Inserting \cup Erasing)
        BY <1>7 DEF Tree
      <3>2. s \notin ChildrenOf(e)
        BY <1>11 DEF ChildrenOf
      <3>3. \A x : x \in ChildrenOf(e)' <=> x \in ChildrenOf(e) \/ (e = d /\ x = s)
        BY <1>10, <1>11 DEF ChildrenOf, Typed, TypeOK
      <3> QED
        BY <3>1, <3>2, <3>3, <1>7
    <2> QED
      BY <1>5, <2>1, <2>2, <2>3 DEF Tree
  <1>18. Views'
    <2> SUFFICES ASSUME NEW u \in Threads PROVE View(call[u])'
      BY DEF Views
    <2>1. View(call[u]) /\ Lives(call[u]) /\ Shape(call[u])
      BY DEF Views, Alive, Shapes
    <2>2. CASE u # t
      <3>1. call[u].pc = "erase" /\ call[u].fn = "FreeStmt" => parent'[call[u].on] = parent[call[u].on]
        BY <2>1, <1>9, <1>10 DEF Lives, StmtCalls, Typed, TypeOK
      <3>2. call[u].pc = "drop" => call[u].on # d
        BY <2>1, <2>2, <1>8, OneHolder DEF Shape, Holds, Locked
      <3>3. call[u].pc = "drop" => call[u].seen = {x \in liveStmts' : parent'[x] = call[u].on}
        BY <3>2, <2>1, <1>10, <1>11 DEF View, ChildrenOf, Typed, TypeOK
      <3> QED
        BY <2>1, <2>2, <3>1, <3>3, <1>5, <1>6 DEF View, ChildrenOf
    <2>3. CASE u = t
      BY <2>3, <1>4, <1>5, <1>6 DEF View
    <2> QED
      BY <2>2, <2>3
  <1>19. Open'
    <2>1. \A x \in liveStmts' : connected[parent'[x]]
      BY <1>2, <1>10, <1>11 DEF Open, Typed, TypeOK
    <2> QED
      BY <2>1, <1>4, <1>5, <1>6 DEF Open, At
  <1> QED
    BY <1>4, <1>12, <1>13, <1>14, <1>15, <1>16, <1>17, <1>18, <1>19, ShapesKept
LEMMA DestroyStmtOK ==
    ASSUME IInv, NEW t \in Threads, Destroy(t), call[t].fn = "FreeStmt"
    PROVE  IInv'
  <1> DEFINE h == call[t].on
  <1> USE DEF IInv
  <1>1. /\ call[t].pc = "destroy" /\ Running(t) /\ Moved(t, Idle)
        /\ Shape(call[t]) /\ Lives(call[t])
        /\ h \in liveStmts /\ parent[h] \in Dbcs
    BY DEF Destroy, At, Running, Moved, Shapes, Alive, Lives, StmtCalls, Tree, Typed, TypeOK
  <1>2. /\ liveStmts' = liveStmts \ {h}
        /\ UNCHANGED <<liveEnvs, liveDbcs, stmts, connections, connected, client, parent, owner, asking>>
    BY DEF Destroy
  <1>3. call'[t] = Idle /\ \A u \in Threads : u # t => call'[u] = call[u]
    BY <1>1, MovedIs
  <1>4. ASSUME NEW u \in Threads, u # t, call[u].pc # "idle"
        PROVE  call[u].on # h /\ call[u].child # h /\ (call[u].fn = "Disconnect" => parent[h] # call[u].on)
    <2>1. Compatible(call[u], call[t]) /\ Compatible(call[t], call[u])
      BY <1>4 DEF Apart
    <2>2. h \in ChildrenOf(parent[h])
      BY <1>1 DEF ChildrenOf
    <2> QED
      BY <1>1, <1>4, <2>1, <2>2, EndsAre DEF Compatible
  <1>5. /\ \A y : y \in Inserting' <=> y \in Inserting
        /\ \A y : y \in Erasing' <=> y \in Erasing /\ y # h
        /\ \A y : y \in Closing' <=> y \in Closing
    BY <1>1, <1>3, <1>4, IdleIs, Underway, UnderwayNext
  <1>6. h \in Erasing
    BY <1>1, Underway
  <1>7. Typed'
    BY <1>1, <1>2, CallsTyped, IdleIs DEF Typed, TypeOK
  <1>8. Held'
    BY <1>1, <1>2, HeldKept, OnLive, IdleIs
  <1>9. Alive'
    <2> SUFFICES ASSUME NEW u \in Threads PROVE Lives(call[u])'
      BY DEF Alive
    <2>1. Lives(call[u]) /\ Shape(call[u])
      BY DEF Alive, Shapes
    <2>2. CASE u # t
      BY <2>1, <2>2, <1>2, <1>3, <1>4 DEF Lives, Shape
    <2>3. CASE u = t
      BY <2>3, <1>3, IdleIs DEF Lives
    <2> QED
      BY <2>2, <2>3
  <1>10. Apart'
    BY <1>1, <1>2, ApartKept, IdleIs DEF Live
  <1>11. Tree'
    <2>1. connections = liveDbcs \ (Inserting' \cup Erasing')
      BY <1>1, <1>5, ThreadAssumption DEF Tree, Typed, TypeOK
    <2>2. \A e \in Dbcs : e \notin Closing' => stmts[e] = ChildrenOf(e)' \ (Inserting' \cup Erasing')
      <3> SUFFICES ASSUME NEW e \in Dbcs, e \notin Closing'
                   PROVE  stmts[e] = ChildrenOf(e)' \ (Inserting' \cup Erasing')
        OBVIOUS
      <3>1. stmts[e] = ChildrenOf(e) \ (Inserting \cup Erasing)
        BY <1>5 DEF Tree
      <3>2. ChildrenOf(e)' = ChildrenOf(e) \ {h}
        BY <1>2 DEF ChildrenOf
      <3> QED
        BY <3>1, <3>2, <1>5, <1>6
    <2> QED
      BY <1>2, <2>1, <2>2 DEF Tree
  <1>12. Views'
    <2> SUFFICES ASSUME NEW u \in Threads PROVE View(call[u])'
      BY DEF Views
    <2>1. View(call[u]) /\ Shape(call[u])
      BY DEF Views, Shapes
    <2>2. CASE u # t
      <3>1. call[u].pc = "drop" => call[u].seen = {x \in liveStmts' : parent'[x] = call[u].on}
        BY <2>1, <2>2, <1>2, <1>4 DEF View, Shape, ChildrenOf
      <3> QED
        BY <2>1, <2>2, <3>1, <1>2, <1>3 DEF View, ChildrenOf
    <2>3. CASE u = t
      BY <2>3, <1>3, IdleIs DEF View
    <2> QED
      BY <2>2, <2>3
  <1>13. Open'
    BY <1>2, <1>3, IdleIs DEF Open, At
  <1> QED
    BY <1>1, <1>7, <1>8, <1>9, <1>10, <1>11, <1>12, <1>13, ShapesKept, IdleIs

\* What a connection lists while nobody else can be using it or its children.
LEMMA ListsChildren ==
    ASSUME IInv, NEW t \in Threads, call[t].fn \in {"FreeDbc", "FreeEnv"}, call[t].pc # "idle",
           NEW d \in liveDbcs, d \in Ends(call[t].fn, call[t].on), ChildrenOf(d) \subseteq Ends(call[t].fn, call[t].on)
    PROVE  /\ stmts[d] = ChildrenOf(d)
           /\ \A u \in Threads : u # t /\ call[u].pc # "idle" => call[u].on # d /\ call[u].on \notin ChildrenOf(d)
           /\ \A u \in Threads : u # t /\ call[u].pc # "idle" => call[u].child \notin ChildrenOf(d)
  <1> USE DEF IInv
  <1>1. \A u \in Threads : u # t /\ call[u].pc # "idle" => call[u].on # d /\ call[u].on \notin ChildrenOf(d)
    BY DEF Apart, Compatible
  <1>2. Shape(call[t]) /\ Lives(call[t])
    BY DEF Shapes, Alive
  <1>3. ASSUME NEW u \in Threads, u # t, call[u].pc # "idle", call[u].child \in ChildrenOf(d)
        PROVE  FALSE
    <2>1. call[u].child \in Stmts /\ call[u].child # NoHandle
      BY <1>3, ThreadAssumption DEF ChildrenOf, Typed, TypeOK
    <2>2. call[u].fn = "AllocStmt" /\ call[u].on = d
      BY <1>3, <2>1, ThreadAssumption DEF Shapes, Shape, Alive, Lives, ChildrenOf, Typed, TypeOK
    <2> QED
      BY <1>1, <1>3, <2>2
  <1>4. call[t].child = NoHandle /\ call[t].on \notin ChildrenOf(d) /\ call[t].pc # "drop"
    BY <1>2, ThreadAssumption DEF Shape, Lives, DbcCalls, ChildrenOf, Typed, TypeOK
  <1>5. d \notin Closing
    BY <1>1, <1>4, Underway
  <1>6. ChildrenOf(d) \cap Inserting = {} /\ ChildrenOf(d) \cap Erasing = {}
    <2>1. NoHandle \notin ChildrenOf(d)
      BY ThreadAssumption DEF ChildrenOf, Typed, TypeOK
    <2>2. \A x \in ChildrenOf(d) : x \notin Inserting
      BY <1>3, <1>4, <2>1, Underway
    <2>3. \A x \in ChildrenOf(d) : x \notin Erasing
      BY <1>1, <1>4, Underway
    <2> QED
      BY <2>2, <2>3
  <1>7. stmts[d] = ChildrenOf(d) \ (Inserting \cup Erasing)
    BY <1>5 DEF Tree, Typed, TypeOK
  <1> QED
    BY <1>1, <1>3, <1>6, <1>7

LEMMA DestroyDbcOK ==
    ASSUME IInv, NEW t \in Threads, Destroy(t), call[t].fn = "FreeDbc"
    PROVE  IInv'
  <1> DEFINE h == call[t].on
  <1> USE DEF IInv
  <1>1. /\ call[t].pc = "destroy" /\ Running(t) /\ Moved(t, Idle)
        /\ Shape(call[t]) /\ Lives(call[t])
        /\ h \in liveDbcs /\ h \in Dbcs
    BY DEF Destroy, At, Running, Moved, Shapes, Alive, Lives, DbcCalls, Typed, TypeOK
  <1>2. /\ stmts[h] = ChildrenOf(h)
        /\ \A u \in Threads : u # t /\ call[u].pc # "idle" => call[u].on # h /\ call[u].on \notin ChildrenOf(h)
        /\ \A u \in Threads : u # t /\ call[u].pc # "idle" => call[u].child \notin ChildrenOf(h)
    BY <1>1, ListsChildren, EndsAre DEF Running
  <1>3. /\ liveDbcs' = liveDbcs \ {h}
        /\ liveStmts' = liveStmts \ ChildrenOf(h)
        /\ stmts' = [d \in Dbcs |-> IF d \in {h} THEN {} ELSE stmts[d]]
        /\ connected' = [d \in Dbcs |-> connected[d] /\ d \notin {h}]
        /\ client' = [d \in Dbcs |-> client[d] /\ d \notin {h}]
        /\ UNCHANGED <<liveEnvs, connections, parent, owner, asking>>
    BY <1>2 DEF Destroy, DestroyConnections
  <1>4. call'[t] = Idle /\ \A u \in Threads : u # t => call'[u] = call[u]
    BY <1>1, MovedIs
  <1>5. \A u \in Threads : u # t /\ call[u].pc # "idle" => call[u].child # h
    BY <1>1 DEF Apart, Compatible
  <1>6. /\ \A y : y \in Inserting' <=> y \in Inserting
        /\ \A y : y \in Erasing' <=> y \in Erasing /\ y # h
        /\ \A y : y \in Closing' <=> y \in Closing
    BY <1>1, <1>2, <1>4, IdleIs, Underway, UnderwayNext
  <1>7. h \in Erasing
    BY <1>1, Underway
  <1>8. Typed'
    <2>1. /\ stmts' \in [Dbcs -> SUBSET Stmts]
          /\ client' \in [Dbcs -> BOOLEAN] /\ connected' \in [Dbcs -> BOOLEAN]
      BY <1>3 DEF Typed, TypeOK
    <2> QED
      BY <1>1, <1>3, <2>1, CallsTyped, IdleIs DEF Typed, TypeOK
  <1>9. Held'
    BY <1>1, <1>3, HeldKept, OnLive, IdleIs
  <1>10. Alive'
    <2> SUFFICES ASSUME NEW u \in Threads PROVE Lives(call[u])'
      BY DEF Alive
    <2>1. Lives(call[u]) /\ Shape(call[u])
      BY DEF Alive, Shapes
    <2>2. CASE u # t
      BY <2>1, <2>2, <1>2, <1>3, <1>4, <1>5 DEF Lives, Shape
    <2>3. CASE u = t
      BY <2>3, <1>4, IdleIs DEF Lives
    <2> QED
      BY <2>2, <2>3
  <1>11. Apart'
    BY <1>1, <1>3, ApartKept, IdleIs DEF Live
  <1>12. \A e : e # h => ChildrenOf(e)' = ChildrenOf(e)
    BY <1>3 DEF ChildrenOf
  <1>13. \A e : e = h => ChildrenOf(e)' = {}
    BY <1>3 DEF ChildrenOf
  <1>14. stmts'[h] = {} /\ \A e \in Dbcs : e # h => stmts'[e] = stmts[e]
    BY <1>1, <1>3
  <1>15. Tree'
    <2>1. connections = liveDbcs' \ (Inserting' \cup Erasing')
      BY <1>3, <1>6, <1>7 DEF Tree
    <2>2. \A e \in Dbcs : e \notin Closing' => stmts'[e] = ChildrenOf(e)' \ (Inserting' \cup Erasing')
      <3> SUFFICES ASSUME NEW e \in Dbcs, e \notin Closing'
                   PROVE  stmts'[e] = ChildrenOf(e)' \ (Inserting' \cup Erasing')
        OBVIOUS
      <3>1. CASE e = h
        BY <3>1, <1>13, <1>14
      <3>2. CASE e # h
        <4>1. stmts[e] = ChildrenOf(e) \ (Inserting \cup Erasing)
          BY <1>6 DEF Tree
        <4>2. ChildrenOf(e)' = ChildrenOf(e)
          BY <3>2, <1>12
        <4>3. h \notin ChildrenOf(e)
          BY <1>1, ThreadAssumption DEF ChildrenOf, Typed, TypeOK
        <4> QED
          BY <4>1, <4>2, <4>3, <3>2, <1>6, <1>14
      <3> QED
        BY <3>1, <3>2
    <2>3. \A s \in liveStmts' : parent[s] \in liveDbcs'
      BY <1>3 DEF Tree, ChildrenOf
    <2> QED
      BY <1>3, <2>1, <2>2, <2>3 DEF Tree
  <1>16. Views'
    <2> SUFFICES ASSUME NEW u \in Threads PROVE View(call[u])'
      BY DEF Views
    <2>1. View(call[u]) /\ Shape(call[u]) /\ Lives(call[u])
      BY DEF Views, Shapes, Alive
    <2>2. CASE u # t
      <3>1. call[u].pc = "drop" => call[u].seen = {x \in liveStmts' : parent'[x] = call[u].on}
        BY <2>1, <2>2, <1>2, <1>3 DEF View, ChildrenOf
      <3>2. call[u].pc = "insert" /\ call[u].fn = "AllocStmt" => call[u].on # h /\ call[u].on \in Dbcs
        BY <2>1, <2>2, <1>2 DEF Lives, DbcCalls, Typed, TypeOK
      <3>3. call[u].pc = "erase" /\ call[u].fn = "FreeStmt" => parent[call[u].on] # h /\ parent[call[u].on] \in Dbcs
        BY <2>1, <2>2, <1>2 DEF Lives, StmtCalls, ChildrenOf, Tree, Typed, TypeOK
      <3> QED
        BY <2>1, <2>2, <3>1, <3>2, <3>3, <1>3, <1>4, <1>14 DEF View, ChildrenOf
    <2>3. CASE u = t
      BY <2>3, <1>4, IdleIs DEF View
    <2> QED
      BY <2>2, <2>3
  <1>17. Open'
    <2>1. \A e \in Dbcs : e # h => connected'[e] = connected[e] /\ client'[e] = client[e]
      BY <1>3 DEF Typed, TypeOK
    <2>2. ~connected'[h]
      BY <1>1, <1>3
    <2>3. \A s \in liveStmts' : connected'[parent[s]]
      BY <1>3, <2>1 DEF Open, ChildrenOf, Tree, Typed, TypeOK
    <2>4. \A e \in Dbcs : connected'[e] => client'[e] /\ e \in liveDbcs'
      BY <1>3, <2>1, <2>2 DEF Open
    <2>5. ASSUME NEW u \in Threads, u # t
          PROVE  /\ call[u].pc = "health" => ~connected'[call[u].on] /\ client'[call[u].on]
                 /\ call[u].pc = "drop" => connected'[call[u].on]
      <3>1. call[u].pc \in {"health", "drop"} => call[u].on \in Dbcs /\ call[u].on # h
        BY <2>5, <1>2 DEF Shapes, Shape, Alive, Lives, DbcCalls, Typed, TypeOK
      <3>2. CASE call[u].pc = "health"
        BY <2>1, <3>1, <3>2 DEF Open, At
      <3>3. CASE call[u].pc = "drop"
        BY <2>1, <3>1, <3>3 DEF Open, At
      <3> QED
        BY <3>2, <3>3
    <2>6. ASSUME NEW u \in Threads, u # t, call[u].pc = "insert", call[u].fn = "AllocDbc"
          PROVE  ~connected'[call[u].child]
      <3>1. call[u].child \in Dbcs
        BY <2>6 DEF Shapes, Shape, Alive, Lives, Typed, TypeOK
      <3> QED
        BY <2>1, <2>2, <2>6, <3>1 DEF Open, At
    <2> QED
      BY <1>3, <1>4, <2>3, <2>4, <2>5, <2>6, IdleIs DEF Open, At
  <1> QED
    BY <1>1, <1>8, <1>9, <1>10, <1>11, <1>15, <1>16, <1>17, ShapesKept, IdleIs

\* The environment goes when nobody else is inside, and takes everything along.
LEMMA DestroyEnvOK ==
    ASSUME IInv, NEW t \in Threads, Destroy(t), call[t].fn = "FreeEnv"
    PROVE  IInv'
  <1> USE DEF IInv
  <1>1. /\ call[t].pc = "body" /\ Running(t) /\ Moved(t, Idle)
        /\ Shape(call[t]) /\ call[t].on = Env
    BY DEF Destroy, At, Running, Moved, Shapes, Alive, Lives
  <1>2. \A u \in Threads : u # t => call[u].pc = "idle"
    BY <1>1, NoFreeEnv
  <1>3. call'[t] = Idle /\ \A u \in Threads : u # t => call'[u] = call[u]
    BY <1>1, MovedIs
  <1>4. \A u \in Threads : call'[u].pc = "idle"
    BY <1>2, <1>3, IdleIs
  <1>5. connections = liveDbcs
    <2>1. \A x : x \notin Inserting /\ x \notin Erasing
      BY <1>1, <1>2, Underway
    <2> QED
      BY <2>1 DEF Tree
  <1>6. \A d \in liveDbcs : stmts[d] = ChildrenOf(d)
    BY <1>1, ListsChildren, EndsAre DEF Live, ChildrenOf
  <1>7. \A d \in Dbcs \ liveDbcs : stmts[d] = {}
    <2>1. \A d : d \notin Closing
      BY <1>1, <1>2, Underway
    <2>2. \A d \in Dbcs \ liveDbcs : ChildrenOf(d) = {}
      BY DEF ChildrenOf, Tree
    <2> QED
      BY <2>1, <2>2 DEF Tree
  <1>8. /\ liveEnvs' = {} /\ liveDbcs' = {} /\ connections' = {}
        /\ UNCHANGED <<parent, owner, asking>>
    BY <1>1, <1>5 DEF Destroy, DestroyConnections, At
  <1>9. liveStmts' = {}
    <2>1. liveStmts' = liveStmts \ UNION {stmts[d] : d \in connections}
      BY <1>1 DEF Destroy, DestroyConnections, At
    <2>2. \A s \in liveStmts : parent[s] \in connections /\ s \in stmts[parent[s]]
      BY <1>5, <1>6 DEF Tree, ChildrenOf
    <2> QED
      BY <2>1, <2>2
  <1>10. /\ stmts' = [d \in Dbcs |-> {}]
         /\ connected' = [d \in Dbcs |-> FALSE]
         /\ client' \in [Dbcs -> BOOLEAN]
    <2>1. /\ stmts' = [d \in Dbcs |-> IF d \in connections THEN {} ELSE stmts[d]]
          /\ connected' = [d \in Dbcs |-> connected[d] /\ d \notin connections]
          /\ client' = [d \in Dbcs |-> client[d] /\ d \notin connections]
      BY <1>1 DEF Destroy, DestroyConnections, At
    <2>2. stmts' = [d \in Dbcs |-> {}]
      BY <2>1, <1>5, <1>7
    <2>3. \A d \in Dbcs : ~(connected[d] /\ d \notin connections)
      BY <1>5 DEF Open
    <2>4. connected' = [d \in Dbcs |-> FALSE]
      BY <2>1, <2>3
    <2>5. client' \in [Dbcs -> BOOLEAN]
      BY <2>1
    <2> QED
      BY <2>2, <2>4, <2>5
  <1>11. Typed'
    BY <1>1, <1>8, <1>9, <1>10, CallsTyped, IdleIs DEF Typed, TypeOK
  <1>12. Held'
    BY <1>1, <1>8, HeldKept, OnLive, IdleIs
  <1>13. Shapes'
    BY <1>1, ShapesKept, IdleIs
  <1>14. Alive'
    <2>1. \A u \in Threads : call'[u].child = NoHandle
      BY <1>4, <1>13 DEF Shapes, Shape
    <2> QED
      BY <2>1, <1>4 DEF Alive, Lives
  <1>15. Apart'
    BY <1>4 DEF Apart, Compatible
  <1>16. Tree'
    BY <1>8, <1>9, <1>10 DEF Tree, ChildrenOf
  <1>17. Views'
    BY <1>4 DEF Views, View
  <1>18. Open'
    BY <1>4, <1>9, <1>10 DEF Open, At
  <1> QED
    BY <1>11, <1>12, <1>13, <1>14, <1>15, <1>16, <1>17, <1>18
-----------------------------------------------------------------------------
(* The invariant *)

LEMMA InitOK == Init => IInv
  <1> SUFFICES ASSUME Init PROVE IInv
    OBVIOUS
  <1>1. \A u \in Threads : call[u] = Idle
    BY DEF Init
  <1>2. Typed
    BY IdleIs DEF Init, Typed, TypeOK, Mutexes, Calls
  <1>3. Shapes /\ Views
    BY <1>1, IdleIs DEF Shapes, Views
  <1>4. Alive /\ Held /\ Apart
    BY <1>1, IdleIs DEF Alive, Lives, Held, Apart, Compatible
  <1>5. Tree
    BY DEF Init, Tree, ChildrenOf
  <1>6. Open
    BY <1>1, IdleIs DEF Init, Open, At
  <1> QED
    BY <1>2, <1>3, <1>4, <1>5, <1>6 DEF IInv

LEMMA StepOK ==
    ASSUME IInv, FreesAlone, [Next]_vars
    PROVE  IInv'
  <1>1. ASSUME NEW t \in Threads, Step(t)
        PROVE  IInv'
    <2>1. Destroy(t) => call[t].fn \in {"FreeStmt", "FreeDbc", "FreeEnv"}
      BY DEF Destroy
    <2> QED
      BY <1>1, <2>1, EnterOK, LockOK, UnlockOK, AllocDbcOK, AllocStmtOK, InsertOK, RefuseOK,
         MakeClientOK, CheckHealthOK, DisconnectOK, DropNextOK, DropDoneOK, AskOK, AnswerOK,
         EraseBeginOK, EraseEndOK, DestroyStmtOK, DestroyDbcOK, DestroyEnvOK DEF Step
  <1>2. ASSUME NEW t \in Threads, Begin(t)
        PROVE  IInv'
    BY <1>2, AllocEnvOK, StartOK DEF Begin
  <1>3. CASE UNCHANGED vars
    <2>1. Typed' /\ Shapes' /\ Held'
      BY <1>3 DEF vars, IInv, Typed, TypeOK, Shapes, Shape, Held, Holds
    <2>2. Alive'
      BY <1>3 DEF vars, IInv, Alive, Lives
    <2>3. Apart'
      BY <1>3 DEF vars, IInv, Apart, Compatible, Ends, ChildrenOf, Live, Container
    <2>4. Tree'
      BY <1>3 DEF vars, IInv, Tree, ChildrenOf, Inserting, Erasing, Closing, At
    <2>5. Views'
      BY <1>3 DEF vars, IInv, Views, View, ChildrenOf
    <2>6. Open'
      BY <1>3 DEF vars, IInv, Open, At
    <2> QED
      BY <2>1, <2>2, <2>3, <2>4, <2>5, <2>6 DEF IInv
  <1> QED
    BY <1>1, <1>2, <1>3 DEF Next

LEMMA Inductive == FreesAlone => (Spec => []IInv)
  <1> SUFFICES ASSUME FreesAlone PROVE Spec => []IInv
    OBVIOUS
  <1> QED
    BY InitOK, StepOK, PTL DEF Spec

\* Every variable has its type: pointers point at objects of their type, and
\* each mutex has one holder at most.
THEOREM TypeCorrect == FreesAlone => (Spec => []TypeOK)
  <1>1. IInv => TypeOK
    BY DEF IInv, Typed
  <1> QED
    BY <1>1, Inductive, PTL

\* However the steps of concurrent calls follow each other, no call touches a
\* handle, or a client, that has been freed.
THEOREM NothingDeadIsTouched == FreesAlone => (Spec => []NoDeadAccess)
  <1>1. IInv => NoDeadAccess
    <2> SUFFICES ASSUME IInv, NEW t \in Threads, Running(t)
                 PROVE  /\ call[t].on \in Live
                        /\ call[t].on \in Stmts => parent[call[t].on] \in liveDbcs
                        /\ call[t].fn = "Use" /\ call[t].pc \in {"body", "request"} =>
                               client[parent[call[t].on]]
      BY DEF NoDeadAccess
    <2>1. call[t].on \in Live
      BY OnLive DEF IInv
    <2>2. call[t].on \in Stmts => call[t].on \in liveStmts
      BY <2>1, ThreadAssumption DEF Live, IInv, Typed, TypeOK
    <2>3. call[t].fn = "Use" => call[t].on \in liveStmts
      BY DEF IInv, Alive, Lives, StmtCalls, Running
    <2> QED
      BY <2>1, <2>2, <2>3 DEF IInv, Tree, Open, Typed, TypeOK
  <1> QED
    BY <1>1, Inductive, PTL

-----------------------------------------------------------------------------
(* The calls are those of Handles, one after another *)

\* The values Sequential gives to the variables of Handles.
seqEnv == [d \in Dbcs |-> IF d \in SeqDbcs THEN Env ELSE NoHandle]
seqDbc == [s \in Stmts |-> IF s \in SeqStmts THEN parent[s] ELSE NoHandle]
seqConnections == [e \in {Env} |-> connections \cup (Erasing \cap Dbcs)]
seqStmts == [d \in Dbcs |-> IF d \in Closing THEN {}
                            ELSE stmts[d] \cup {s \in Erasing \cap Stmts : parent[s] = d}]
seqConnected == [d \in Dbcs |-> SeqOpen(d)]
seqCfg == [d \in Dbcs |-> TheConfig]
seqClient == [d \in Dbcs |-> IF SeqOpen(d) THEN TheConfig ELSE NoClient]
seqLogin == [d \in Dbcs |-> 0]

seqTree == <<liveEnvs, SeqDbcs, SeqStmts, seqEnv, seqDbc, seqConnections, seqStmts>>
seqConns == <<seqConnected, seqCfg, seqClient, seqLogin>>

LEMMA SequentialVars ==
    /\ UNCHANGED seqTree => UNCHANGED Sequential!treeVars
    /\ UNCHANGED seqConns => UNCHANGED Sequential!dbcVars
    /\ UNCHANGED <<seqTree, seqConns, ret>> => UNCHANGED Sequential!vars
  BY DEF Sequential!vars, Sequential!treeVars, Sequential!dbcVars, seqEnv, seqDbc, seqConnections,
     seqStmts, seqConnected, seqClient, seqCfg, seqLogin, seqTree, seqConns, TheConfig

LEMMA DroppingIs ==
    /\ \A x : x \in Dropping <=> \E u \in Threads : call[u].pc = "drop" /\ x \in call[u].seen
    /\ \A x : x \in Dropping' <=> \E u \in Threads : call'[u].pc = "drop" /\ x \in call'[u].seen
  BY DEF Dropping, At

\* The containers list what Handles says they list.
ListsAll ==
    /\ seqConnections = [e \in {Env} |-> SeqDbcs]
    /\ seqStmts = [d \in Dbcs |-> {s \in SeqStmts : parent[s] = d}]

LEMMA ContainersList == IInv => ListsAll
  <1> SUFFICES ASSUME IInv
               PROVE  /\ connections \cup (Erasing \cap Dbcs) = SeqDbcs
                      /\ \A d \in Dbcs : (IF d \in Closing THEN {}
                                           ELSE stmts[d] \cup {s \in Erasing \cap Stmts : parent[s] = d})
                                         = {s \in SeqStmts : parent[s] = d}
    BY DEF ListsAll, seqConnections, seqStmts
  <1> USE DEF IInv
  <1>1. \A x \in Erasing : /\ x \in Dbcs => x \in liveDbcs
                           /\ x \in Stmts => x \in liveStmts
                           /\ x \notin Inserting
    <2> SUFFICES ASSUME NEW u \in Threads, call[u].pc = "destroy"
                 PROVE  /\ call[u].on \in Dbcs => call[u].on \in liveDbcs
                        /\ call[u].on \in Stmts => call[u].on \in liveStmts
                        /\ call[u].on \notin Inserting
      BY Underway
    <2>1. call[u].on \in Live
      BY OnLive DEF Running
    <2>2. \A v \in Threads : call[v].pc = "insert" => call[v].child # call[u].on
      BY DEF Apart, Compatible
    <2> QED
      BY <2>1, <2>2, Underway, ThreadAssumption DEF Live, Typed, TypeOK
  <1>2. connections \cup (Erasing \cap Dbcs) = SeqDbcs
    <2>1. connections = liveDbcs \ (Inserting \cup Erasing) /\ liveDbcs \subseteq Dbcs
      BY DEF Tree, Typed, TypeOK
    <2>2. \A x : x \in SeqDbcs <=> x \in liveDbcs /\ x \notin Inserting
      BY DEF SeqDbcs
    <2>3. \A x : x \in connections \cup (Erasing \cap Dbcs) <=> x \in SeqDbcs
      BY <1>1, <2>1, <2>2
    <2> QED
      BY <2>3
  <1>3. \A x \in Dropping : parent[x] \in Closing
    BY DroppingIs, Underway DEF Views, View, ChildrenOf
  <1>4. ASSUME NEW d \in Dbcs, d \notin Closing
        PROVE  stmts[d] \cup {s \in Erasing \cap Stmts : parent[s] = d} = {s \in SeqStmts : parent[s] = d}
    <2>1. stmts[d] = ChildrenOf(d) \ (Inserting \cup Erasing) /\ liveStmts \subseteq Stmts
      BY <1>4 DEF Tree, Typed, TypeOK
    <2>2. \A x : x \in ChildrenOf(d) <=> x \in liveStmts /\ parent[x] = d
      BY DEF ChildrenOf
    <2>3. \A x : x \in SeqStmts <=> x \in liveStmts /\ x \notin Inserting /\ x \notin Dropping
      BY DEF SeqStmts
    <2>4. \A x : x \in stmts[d] \cup {s \in Erasing \cap Stmts : parent[s] = d} <=>
                   x \in SeqStmts /\ parent[x] = d
      BY <1>1, <1>3, <1>4, <2>1, <2>2, <2>3
    <2> QED
      BY <2>4
  <1>5. ASSUME NEW d \in Dbcs, d \in Closing
        PROVE  {s \in SeqStmts : parent[s] = d} = {}
    <2>1. PICK u \in Threads : call[u].pc = "drop" /\ call[u].on = d
      BY <1>5, Underway
    <2>2. \A x \in liveStmts : parent[x] = d => x \in Dropping
      BY <2>1, DroppingIs DEF Views, View, ChildrenOf
    <2> QED
      BY <2>2 DEF SeqStmts
  <1> QED
    BY <1>2, <1>4, <1>5

LEMMA ContainersListNext == IInv' => ListsAll'
  BY ContainersList, PTL

\* Of the steps that change nothing Handles has, a caller sees nothing.
LEMMA Hidden ==
    ASSUME IInv, IInv', liveEnvs' = liveEnvs, SeqDbcs' = SeqDbcs, SeqStmts' = SeqStmts,
           \A s \in SeqStmts : parent'[s] = parent[s],
           \A d \in Dbcs : SeqOpen(d)' <=> SeqOpen(d)
    PROVE  UNCHANGED seqTree /\ UNCHANGED seqConns
  <1>1. seqEnv' = seqEnv /\ seqDbc' = seqDbc
    BY DEF seqEnv, seqDbc
  <1>2. seqConnections' = seqConnections
    BY ContainersList, ContainersListNext DEF ListsAll
  <1>3. seqStmts' = seqStmts
    <2>1. \A d \in Dbcs : {s \in SeqStmts' : parent'[s] = d} = {s \in SeqStmts : parent[s] = d}
      OBVIOUS
    <2> QED
      BY <2>1, ContainersList, ContainersListNext DEF ListsAll
  <1>4. seqConnected' = seqConnected /\ seqClient' = seqClient /\ seqCfg' = seqCfg /\ seqLogin' = seqLogin
    BY DEF seqConnected, seqClient, TheConfig, SeqOpen, seqCfg, seqLogin
  <1> QED
    BY <1>1, <1>2, <1>3, <1>4 DEF seqTree, seqConns

\* Steps that are neither of an insertion of what is alive nor of a disconnect
\* are hidden, unless what is alive changes.
Aside(t) ==
    /\ UNCHANGED <<liveEnvs, liveDbcs, liveStmts, parent, connected>>
    /\ \A u \in Threads : u # t => call'[u] = call[u]
    /\ call[t].pc \notin {"insert", "drop"} /\ call'[t].pc \notin {"insert", "drop"}

LEMMA AsideIsHidden ==
    ASSUME IInv, IInv', NEW t \in Threads, Aside(t)
    PROVE  UNCHANGED seqTree /\ UNCHANGED seqConns
  <1>1. \A x : x \in Inserting' <=> x \in Inserting
    BY Underway, UnderwayNext DEF Aside
  <1>2. \A x : x \in Closing' <=> x \in Closing
    BY Underway, UnderwayNext DEF Aside
  <1>3. \A x : x \in Dropping' <=> x \in Dropping
    BY DroppingIs DEF Aside
  <1>4. SeqDbcs' = SeqDbcs
    BY <1>1 DEF SeqDbcs, Aside
  <1>5. SeqStmts' = SeqStmts
    BY <1>1, <1>3 DEF SeqStmts, Aside
  <1>6. \A d \in Dbcs : SeqOpen(d)' <=> SeqOpen(d)
    BY <1>2 DEF SeqOpen, Aside
  <1> QED
    BY <1>4, <1>5, <1>6, Hidden DEF Aside

\* A call that starts, tests its handle, waits, asks, or erases.
QuietStep(t) ==
    \/ Enter(t) \/ Lock(t) \/ Unlock(t) \/ MakeClient(t) \/ Ask(t) \/ Answer(t)
    \/ EraseBegin(t) \/ EraseEnd(t)
    \/ \E h \in Live : \E fn \in CallsOn(h) : Start(t, fn, h)

LEMMA QuietStepIsHidden ==
    ASSUME IInv, IInv', NEW t \in Threads, QuietStep(t)
    PROVE  UNCHANGED Sequential!vars
  <1>1. call \in [Threads -> Calls]
    BY DEF IInv, Typed
  <1>2. \A pc \in {"lock", "body", "health", "request", "unlock"} :
           Goto(t, pc) => call'[t].pc = pc /\ \A u \in Threads : u # t => call'[u] = call[u]
    BY <1>1 DEF Goto, Calls
  <1>3. ret' = ret /\ Aside(t)
    <2>1. CASE Enter(t)
      <3>1. Goto(t, "lock") \/ Goto(t, "body")
        BY <2>1 DEF Enter
      <3> QED
        BY <2>1, <3>1, <1>2 DEF Enter, Aside, At
    <2>2. CASE Lock(t)
      BY <2>2, <1>2 DEF Lock, Aside, At
    <2>3. CASE Unlock(t)
      BY <2>3, <1>1, IdleIs DEF Unlock, Aside, At
    <2>4. CASE MakeClient(t)
      BY <2>4, <1>2 DEF MakeClient, Aside, At
    <2>5. CASE Ask(t)
      BY <2>5, <1>2 DEF Ask, Aside, At
    <2>6. CASE Answer(t)
      BY <2>6, <1>2 DEF Answer, Aside, At
    <2>7. CASE EraseBegin(t)
      <3>1. call'[t].pc = "erase" /\ \A u \in Threads : u # t => call'[u] = call[u]
        BY <2>7, <1>1 DEF EraseBegin, Calls
      <3>2. call[t].pc = "body" /\ UNCHANGED <<liveEnvs, liveDbcs, liveStmts, parent, connected, ret>>
        BY <2>7 DEF EraseBegin, At
      <3> QED
        BY <3>1, <3>2 DEF Aside
    <2>8. CASE EraseEnd(t)
      <3>1. call'[t].pc = "destroy" /\ \A u \in Threads : u # t => call'[u] = call[u]
        BY <2>8, <1>1 DEF EraseEnd, Calls
      <3>2. call[t].pc = "erase" /\ UNCHANGED <<liveEnvs, liveDbcs, liveStmts, parent, connected, ret>>
        BY <2>8 DEF EraseEnd, At
      <3> QED
        BY <3>1, <3>2 DEF Aside
    <2>9. ASSUME NEW h \in Live, NEW fn \in CallsOn(h), Start(t, fn, h)
          PROVE  ret' = ret /\ Aside(t)
      <3>1. call'[t].pc = "entry" /\ \A u \in Threads : u # t => call'[u] = call[u]
        BY <2>9, <1>1 DEF Start, Idle
      <3>2. call[t].pc = "idle" /\ UNCHANGED <<liveEnvs, liveDbcs, liveStmts, parent, connected, ret>>
        BY <2>9 DEF Start, Running
      <3> QED
        BY <3>1, <3>2 DEF Aside
    <2> QED
      BY <2>1, <2>2, <2>3, <2>4, <2>5, <2>6, <2>7, <2>8, <2>9 DEF QuietStep
  <1> QED
    BY <1>3, AsideIsHidden, SequentialVars

\* A new object is not given out before its insertion.
LEMMA AllocIsHidden ==
    ASSUME IInv, IInv', NEW t \in Threads, AllocDbc(t) \/ AllocStmt(t)
    PROVE  UNCHANGED Sequential!vars
  <1> USE DEF IInv
  <1>1. call \in [Threads -> Calls]
    BY DEF Typed
  <1>2. CASE AllocDbc(t)
    <2>1. PICK d \in Dbcs \ liveDbcs :
            /\ liveDbcs' = liveDbcs \cup {d}
            /\ connected' = [connected EXCEPT ![d] = FALSE]
            /\ call' = [call EXCEPT ![t].pc = "insert", ![t].child = d, ![t].seen = connections]
      BY <1>2 DEF AllocDbc
    <2>2. /\ call'[t].pc = "insert" /\ call'[t].child = d
          /\ \A u \in Threads : u # t => call'[u] = call[u]
      BY <2>1, <1>1 DEF Calls
    <2>3. call[t].pc = "body" /\ UNCHANGED <<liveEnvs, liveStmts, parent, ret>>
      BY <1>2 DEF AllocDbc, At
    <2>4. /\ \A x : x \in Inserting' <=> x \in Inserting \/ x = d
          /\ \A x : x \in Closing' <=> x \in Closing
          /\ \A x : x \in Dropping' <=> x \in Dropping
      BY <2>2, <2>3, Underway, UnderwayNext, DroppingIs
    <2>5. SeqDbcs' = SeqDbcs
      BY <2>1, <2>4 DEF SeqDbcs
    <2>6. SeqStmts' = SeqStmts
      BY <2>1, <2>3, <2>4, ThreadAssumption DEF SeqStmts, Typed, TypeOK
    <2>7. \A e \in Dbcs : connected'[e] <=> connected[e]
      BY <2>1 DEF Open, Typed, TypeOK
    <2>8. \A e \in Dbcs : SeqOpen(e)' <=> SeqOpen(e)
      BY <2>4, <2>7 DEF SeqOpen
    <2> QED
      BY <2>3, <2>5, <2>6, <2>8, Hidden, SequentialVars
  <1>3. CASE AllocStmt(t)
    <2>1. PICK s \in Stmts \ liveStmts :
            /\ liveStmts' = liveStmts \cup {s}
            /\ parent' = [parent EXCEPT ![s] = call[t].on]
            /\ call' = [call EXCEPT ![t].pc = "insert", ![t].child = s, ![t].seen = stmts[call[t].on]]
      BY <1>3 DEF AllocStmt
    <2>2. /\ call'[t].pc = "insert" /\ call'[t].child = s
          /\ \A u \in Threads : u # t => call'[u] = call[u]
      BY <2>1, <1>1 DEF Calls
    <2>3. call[t].pc = "body" /\ UNCHANGED <<liveEnvs, liveDbcs, connected, ret>>
      BY <1>3 DEF AllocStmt, At
    <2>4. /\ \A x : x \in Inserting' <=> x \in Inserting \/ x = s
          /\ \A x : x \in Closing' <=> x \in Closing
          /\ \A x : x \in Dropping' <=> x \in Dropping
      BY <2>2, <2>3, Underway, UnderwayNext, DroppingIs
    <2>5. SeqDbcs' = SeqDbcs
      BY <2>1, <2>3, <2>4, ThreadAssumption DEF SeqDbcs, Typed, TypeOK
    <2>6. SeqStmts' = SeqStmts
      BY <2>1, <2>4 DEF SeqStmts
    <2>7. \A x \in SeqStmts : parent'[x] = parent[x]
      BY <2>1 DEF SeqStmts, Typed, TypeOK
    <2>8. \A e \in Dbcs : SeqOpen(e)' <=> SeqOpen(e)
      BY <2>3, <2>4 DEF SeqOpen
    <2> QED
      BY <2>3, <2>5, <2>6, <2>7, <2>8, Hidden, SequentialVars
  <1> QED
    BY <1>2, <1>3

\* SQLDisconnect has taken effect before it deletes the first statement.
LEMMA DropIsHidden ==
    ASSUME IInv, IInv', NEW t \in Threads, DropNext(t) \/ DropDone(t)
    PROVE  UNCHANGED Sequential!vars
  <1> DEFINE d == call[t].on
  <1> USE DEF IInv
  <1>1. call \in [Threads -> Calls]
    BY DEF Typed
  <1>2. call[t].pc = "drop" /\ d \in Dbcs /\ call[t].seen = ChildrenOf(d)
    BY DEF DropNext, DropDone, At, Shapes, Shape, Alive, Lives, DbcCalls, Views, View, Typed, TypeOK
  <1>3. d \in Closing
    BY <1>2, Underway
  <1>4. CASE DropNext(t)
    <2>1. PICK s \in call[t].seen :
             /\ liveStmts' = liveStmts \ {s}
             /\ call' = [call EXCEPT ![t].seen = @ \ {s}]
      BY <1>4 DEF DropNext
    <2>2. /\ call'[t].pc = "drop" /\ call'[t].on = d /\ call'[t].seen = call[t].seen \ {s}
          /\ \A u \in Threads : u # t => call'[u] = call[u]
      BY <2>1, <1>1, <1>2 DEF Calls
    <2>3. UNCHANGED <<liveEnvs, liveDbcs, parent, connected, ret>>
      BY <1>4 DEF DropNext
    <2>4. /\ \A x : x \in Inserting' <=> x \in Inserting
          /\ \A x : x \in Closing' <=> x \in Closing
      BY <2>2, <1>2, Underway, UnderwayNext
    <2>5. /\ s \in Dropping
          /\ \A x : x # s => (x \in Dropping' <=> x \in Dropping)
      BY <2>1, <2>2, <1>2, DroppingIs
    <2>6. SeqDbcs' = SeqDbcs /\ SeqStmts' = SeqStmts
      <3>1. SeqDbcs' = SeqDbcs
        BY <2>3, <2>4 DEF SeqDbcs
      <3>2. \A x : x \in SeqStmts' <=> x \in SeqStmts
        BY <2>1, <2>4, <2>5 DEF SeqStmts
      <3> QED
        BY <3>1, <3>2
    <2>7. \A e \in Dbcs : SeqOpen(e)' <=> SeqOpen(e)
      BY <2>3, <2>4 DEF SeqOpen
    <2> QED
      BY <2>3, <2>6, <2>7, Hidden, SequentialVars
  <1>5. CASE DropDone(t)
    <2>1. call[t].seen = {} /\ connected' = [connected EXCEPT ![d] = FALSE]
      BY <1>5 DEF DropDone
    <2>2. /\ call'[t].pc = "unlock" /\ \A u \in Threads : u # t => call'[u] = call[u]
      BY <1>5, <1>1 DEF DropDone, Goto, Calls
    <2>3. UNCHANGED <<liveEnvs, liveDbcs, liveStmts, parent, ret>>
      BY <1>5 DEF DropDone
    <2>4. \A x : x \in Inserting' <=> x \in Inserting
      BY <2>2, <1>2, Underway, UnderwayNext
    <2>5. \A x : x \in Closing' => x \in Closing
      BY <2>2, Underway, UnderwayNext
    <2>6. \A x : x \in Closing /\ x # d => x \in Closing'
      BY <2>2, Underway, UnderwayNext
    <2>7. \A x : x \in Dropping' <=> x \in Dropping
      BY <2>1, <2>2, <1>2, DroppingIs
    <2>8. SeqDbcs' = SeqDbcs /\ SeqStmts' = SeqStmts
      BY <2>3, <2>4, <2>7 DEF SeqDbcs, SeqStmts
    <2>9. \A e \in Dbcs : SeqOpen(e)' <=> SeqOpen(e)
      <3> SUFFICES ASSUME NEW e \in Dbcs PROVE SeqOpen(e)' <=> SeqOpen(e)
        OBVIOUS
      <3>1. CASE e = d
        BY <3>1, <2>1, <1>2, <1>3 DEF SeqOpen, Typed, TypeOK
      <3>2. CASE e # d
        <4>1. connected'[e] = connected[e]
          BY <3>2, <2>1 DEF Typed, TypeOK
        <4> QED
          BY <3>2, <4>1, <2>5, <2>6 DEF SeqOpen
      <3> QED
        BY <3>1, <3>2
    <2> QED
      BY <2>3, <2>8, <2>9, Hidden, SequentialVars
  <1> QED
    BY <1>4, <1>5
\* The handle of a call that does not free is given out, and nobody is closing
\* it while its mutex is held.
LEMMA GivenOut ==
    ASSUME IInv, NEW t \in Threads, call[t].pc # "idle", call[t].fn \in DbcCalls
    PROVE  /\ call[t].on \in SeqDbcs /\ call[t].on \in Dbcs
           /\ Holds(call[t]) /\ call[t].pc # "drop" => call[t].on \notin Closing
  <1> DEFINE d == call[t].on
  <1> USE DEF IInv
  <1>1. d \in liveDbcs /\ d \in Dbcs /\ Shape(call[t])
    BY DEF Alive, Lives, Shapes, Typed, TypeOK
  <1>2. d \notin Inserting
    <2> SUFFICES ASSUME NEW u \in Threads, call[u].pc = "insert", call[u].child = d
                 PROVE  FALSE
      BY Underway
    <2>1. u # t
      BY <1>1, ThreadAssumption DEF Alive, Lives, DbcCalls, Shape, Typed, TypeOK
    <2> QED
      BY <2>1 DEF Apart, Compatible
  <1>3. ASSUME Holds(call[t]), call[t].pc # "drop"
        PROVE  d \notin Closing
    <2> SUFFICES ASSUME NEW u \in Threads, call[u].pc = "drop", call[u].on = d
                 PROVE  FALSE
      BY Underway
    <2>1. Holds(call[u])
      BY DEF Shapes, Shape, Holds, Locked
    <2> QED
      BY <1>3, <2>1, OneHolder
  <1> QED
    BY <1>1, <1>2, <1>3 DEF SeqDbcs

LEMMA RefuseIsRefused ==
    ASSUME IInv, IInv', NEW t \in Threads, Refuse(t)
    PROVE  Sequential!Next
  <1> DEFINE d == call[t].on
  <1> USE DEF IInv
  <1>1. call[t].pc = "body" /\ call[t].fn \in {"AllocStmt", "Disconnect", "Connect"}
    BY DEF Refuse, At
  <1>2. d \in SeqDbcs /\ d \in Dbcs /\ d \notin Closing
    BY <1>1, GivenOut DEF DbcCalls, Holds, Locked
  <1>3. SeqOpen(d) <=> connected[d]
    BY <1>2 DEF SeqOpen
  <1>4. UNCHANGED Sequential!treeVars /\ UNCHANGED Sequential!dbcVars
    <2>1. call'[t].pc = "unlock" /\ \A u \in Threads : u # t => call'[u] = call[u]
      BY DEF Refuse, Goto, Typed, Calls
    <2>2. Aside(t)
      BY <1>1, <2>1 DEF Aside, Refuse
    <2> QED
      BY <2>2, AsideIsHidden, SequentialVars
  <1>5. CASE call[t].fn = "AllocStmt"
    <2>1. ~connected[d] /\ Return("SQLAllocHandle", d, "SQL_ERROR", "08003")
      BY <1>5 DEF Refuse
    <2>2. Sequential!AllocRefused(d)
      BY <2>1, <1>2, <1>3, <1>4 DEF Sequential!AllocRefused, Sequential!Return, Return, Sequential!ERROR
    <2> QED
      BY <2>2, <1>2 DEF Sequential!Next
  <1>6. CASE call[t].fn = "Disconnect"
    <2>1. ~connected[d] /\ Return("SQLDisconnect", d, "SQL_ERROR", "08003")
      BY <1>6 DEF Refuse
    <2>2. Sequential!NotConnected(d)
      BY <2>1, <1>2, <1>3, <1>4 DEF Sequential!NotConnected, Sequential!Return, Return, Sequential!ERROR
    <2> QED
      BY <2>2, <1>2 DEF Sequential!Next
  <1>7. CASE call[t].fn = "Connect"
    <2>1. connected[d] /\ Return("SQLConnect", d, "SQL_ERROR", "08002")
      BY <1>7 DEF Refuse
    <2>2. Sequential!ConnectAgain(d)
      BY <2>1, <1>2, <1>3, <1>4 DEF Sequential!ConnectAgain, Sequential!Return, Return, Sequential!ERROR
    <2> QED
      BY <2>2, <1>2 DEF Sequential!Next
  <1> QED
    BY <1>1, <1>5, <1>6, <1>7

\* The connection string names the server and nothing else.
TheString == [server |-> Server, timeout |-> 0, healthCheck |-> TRUE]

LEMMA TheConfigIs ==
    /\ TheString \in Sequential!Strings
    /\ Sequential!CapTimeout(Sequential!ConfigFrom(TheString), 0) = TheConfig
    /\ TheConfig.healthCheck
    /\ TheConfig \in Sequential!BlankConfigs
  <1>1. Sequential!ConfigFrom(TheString) = TheConfig
    BY DEF Sequential!ConfigFrom, TheString, TheConfig
  <1>2. Sequential!CapTimeout(TheConfig, 0) = TheConfig
    BY ThreadAssumption DEF Sequential!CapTimeout, TheConfig
  <1>3. TheString \in [server : {Server}, timeout : {0}, healthCheck : {TRUE}]
    BY DEF TheString
  <1>4. TheString \in Sequential!Strings
    BY DEF TheString, Sequential!Strings
  <1>5. TheConfig \in Sequential!BlankConfigs
    BY <1>1, <1>3 DEF Sequential!BlankConfigs
  <1> QED
    BY <1>1, <1>2, <1>4, <1>5 DEF TheConfig
\* SQLConnect takes effect when the broker has answered, or has not.
LEMMA HealthIsConnect ==
    ASSUME IInv, IInv', NEW t \in Threads, CheckHealth(t)
    PROVE  Sequential!Next
  <1> USE DEF IInv
  <1>1. call[t].pc = "health" /\ call[t].fn = "Connect" /\ ~connected[call[t].on]
    BY DEF CheckHealth, At, Shapes, Shape, Open
  <1>0. PICK d \in Dbcs : d = call[t].on
    BY <1>1, GivenOut DEF DbcCalls
  <1>2. d \in SeqDbcs /\ d \notin Closing /\ ~connected[d]
    BY <1>0, <1>1, GivenOut DEF DbcCalls, Holds, Locked
  <1>3. call'[t].pc = "unlock" /\ \A u \in Threads : u # t => call'[u] = call[u]
    BY DEF CheckHealth, Goto, Typed, Calls
  <1>4. UNCHANGED <<liveEnvs, liveDbcs, liveStmts, parent>>
    BY DEF CheckHealth
  <1>5. /\ \A x : x \in Inserting' <=> x \in Inserting
        /\ \A x : x \in Closing' <=> x \in Closing
        /\ \A x : x \in Dropping' <=> x \in Dropping
    BY <1>1, <1>3, Underway, UnderwayNext, DroppingIs
  <1>6. SeqDbcs' = SeqDbcs /\ SeqStmts' = SeqStmts
    BY <1>4, <1>5 DEF SeqDbcs, SeqStmts
  <1>7. UNCHANGED seqTree
    <2>1. seqEnv' = seqEnv /\ seqDbc' = seqDbc
      BY <1>4, <1>6 DEF seqEnv, seqDbc
    <2>2. seqConnections' = seqConnections /\ seqStmts' = seqStmts
      BY <1>4, <1>6, ContainersList, ContainersListNext DEF ListsAll
    <2> QED
      BY <1>4, <1>6, <2>1, <2>2 DEF seqTree
  <1>8. seqCfg' = [seqCfg EXCEPT ![d] = TheConfig] /\ seqLogin' = seqLogin
    BY <1>2 DEF seqCfg, seqLogin, TheConfig
  <1>9. ~seqConnected[d]
    BY <1>2 DEF seqConnected, SeqOpen
  <1>10. Sequential!CapTimeout(Sequential!ConfigFrom(TheString), seqLogin[d]) = TheConfig
    BY <1>2, TheConfigIs DEF seqLogin
  <1>11. \A e \in Dbcs : e # d /\ connected'[e] = connected[e] => (SeqOpen(e)' <=> SeqOpen(e))
    BY <1>5 DEF SeqOpen
  <1>12. CASE connected' = [connected EXCEPT ![d] = TRUE] /\ Return("SQLConnect", d, "SQL_SUCCESS", "none")
    <2>1. /\ SeqOpen(d)'
          /\ \A e \in Dbcs : e # d => (SeqOpen(e)' <=> SeqOpen(e))
      BY <1>2, <1>5, <1>11, <1>12 DEF SeqOpen, Typed, TypeOK
    <2>2. seqConnected' = [seqConnected EXCEPT ![d] = TRUE]
      BY <1>2, <2>1 DEF seqConnected, SeqOpen
    <2>3. seqClient' = [seqClient EXCEPT ![d] = TheConfig]
      BY <1>2, <2>1 DEF seqClient, TheConfig
    <2>4. Sequential!Connect(d, TheString)
      BY <1>2, <1>7, <1>8, <1>9, <1>10, <1>12, <2>2, <2>3, SequentialVars
         DEF Sequential!Connect, Sequential!Unused, Sequential!Return, Return, Sequential!SUCCESS,
             seqLogin, seqCfg, seqConnected, seqClient, TheConfig
    <2> QED
      BY <2>4, <1>2, TheConfigIs DEF Sequential!Next
  <1>13. CASE UNCHANGED connected /\ Return("SQLConnect", d, "SQL_ERROR", "08001")
    <2>1. \A e \in Dbcs : SeqOpen(e)' <=> SeqOpen(e)
      BY <1>5, <1>13 DEF SeqOpen
    <2>2. seqConnected' = seqConnected
      BY <2>1 DEF seqConnected, SeqOpen
    <2>3. seqClient' = [seqClient EXCEPT ![d] = NoClient]
      BY <1>2, <2>1 DEF seqClient, TheConfig, SeqOpen
    <2>4. "08001" \in Sequential!HealthErrors
      BY DEF Sequential!HealthErrors
    <2>5. Sequential!Connect(d, TheString)
      BY <1>2, <1>7, <1>8, <1>9, <1>10, <1>13, <2>2, <2>3, <2>4, SequentialVars, TheConfigIs
         DEF Sequential!Connect, Sequential!Unused, Sequential!ResetClient, Sequential!Return, Return,
             Sequential!ERROR, seqLogin, seqCfg, seqConnected, seqClient, TheConfig
    <2> QED
      BY <2>5, <1>2, TheConfigIs DEF Sequential!Next
  <1> QED
    BY <1>0, <1>12, <1>13 DEF CheckHealth

\* SQLDisconnect takes effect when it finds the connection open: its statements
\* go at once.
LEMMA DisconnectIsDisconnect ==
    ASSUME IInv, IInv', NEW t \in Threads, Disconnect(t)
    PROVE  Sequential!Next
  <1> USE DEF IInv
  <1>a. call[t].pc = "body" /\ call[t].fn = "Disconnect" /\ connected[call[t].on]
    BY DEF Disconnect, At
  <1>0. PICK d \in Dbcs : d = call[t].on
    BY <1>a, GivenOut DEF DbcCalls
  <1>1. call[t].pc = "body" /\ call[t].fn = "Disconnect" /\ connected[d]
    BY <1>0, <1>a
  <1>2. d \in SeqDbcs /\ d \in Dbcs /\ d \notin Closing
    BY <1>0, <1>1, GivenOut DEF DbcCalls, Holds, Locked
  <1>3. /\ call'[t].pc = "drop" /\ call'[t].on = d
        /\ \A u \in Threads : u # t => call'[u] = call[u]
    BY <1>0 DEF Disconnect, Typed, Calls
  <1>4. UNCHANGED <<liveEnvs, liveDbcs, liveStmts, parent, connected>>
        /\ Return("SQLDisconnect", d, "SQL_SUCCESS", "none")
    BY <1>0 DEF Disconnect
  <1>5. call'[t].seen = ChildrenOf(d)
    BY <1>3, <1>4 DEF Views, View, ChildrenOf
  <1>6. /\ \A x : x \in Inserting' <=> x \in Inserting
        /\ \A x : x \in Closing' <=> x \in Closing \/ x = d
        /\ \A x : x \in Dropping' <=> x \in Dropping \/ x \in ChildrenOf(d)
    BY <1>1, <1>3, <1>5, Underway, UnderwayNext, DroppingIs
  <1>7. SeqDbcs' = SeqDbcs
    BY <1>4, <1>6 DEF SeqDbcs
  <1>8. \A x : x \in SeqStmts' <=> x \in SeqStmts /\ parent[x] # d
    BY <1>4, <1>6 DEF SeqStmts, ChildrenOf
  <1>9. /\ seqConnections = [e \in {Env} |-> SeqDbcs] /\ seqConnections' = [e \in {Env} |-> SeqDbcs']
        /\ seqStmts = [e \in Dbcs |-> {x \in SeqStmts : parent[x] = e}]
        /\ seqStmts' = [e \in Dbcs |-> {x \in SeqStmts' : parent'[x] = e}]
    BY ContainersList, ContainersListNext DEF ListsAll
  <1>10. seqEnv' = seqEnv /\ seqConnections' = seqConnections
    BY <1>7, <1>9 DEF seqEnv
  <1>11. SeqStmts' = SeqStmts \ seqStmts[d]
    <2>1. seqStmts[d] = {x \in SeqStmts : parent[x] = d}
      BY <1>2, <1>9
    <2>2. \A x : x \in SeqStmts' <=> x \in SeqStmts \ seqStmts[d]
      BY <1>8, <2>1
    <2> QED
      BY <2>2
  <1>12. seqDbc' = [x \in Stmts |-> IF seqDbc[x] = d THEN NoHandle ELSE seqDbc[x]]
    <2> SUFFICES ASSUME NEW x \in Stmts
                 PROVE  (IF x \in SeqStmts' THEN parent'[x] ELSE NoHandle)
                          = (IF (IF x \in SeqStmts THEN parent[x] ELSE NoHandle) = d THEN NoHandle
                             ELSE IF x \in SeqStmts THEN parent[x] ELSE NoHandle)
      BY DEF seqDbc
    <2> QED
      BY <1>2, <1>4, <1>8, ThreadAssumption
  <1>13. seqStmts' = [seqStmts EXCEPT ![d] = {}]
    <2>1. {x \in SeqStmts' : parent'[x] = d} = {}
      BY <1>4, <1>8
    <2>2. ASSUME NEW e \in Dbcs, e # d
          PROVE  {x \in SeqStmts' : parent'[x] = e} = {x \in SeqStmts : parent[x] = e}
      BY <1>4, <1>8, <2>2
    <2>3. seqStmts' = [e \in Dbcs |-> IF e = d THEN {} ELSE seqStmts[e]]
      BY <1>9, <2>1, <2>2
    <2> QED
      BY <1>9, <2>3
  <1>14. /\ ~SeqOpen(d)' /\ SeqOpen(d)
         /\ \A e \in Dbcs : e # d => (SeqOpen(e)' <=> SeqOpen(e))
    BY <1>1, <1>2, <1>3, <1>4, <1>6 DEF SeqOpen
  <1>15. seqConnected' = [seqConnected EXCEPT ![d] = FALSE]
    BY <1>2, <1>14 DEF seqConnected, SeqOpen
  <1>16. seqClient' = [seqClient EXCEPT ![d] = NoClient]
    BY <1>2, <1>14 DEF seqClient, TheConfig
  <1>17. seqConnected[d] /\ seqCfg' = seqCfg /\ seqLogin' = seqLogin
    BY <1>2, <1>14 DEF seqConnected, seqCfg, seqLogin, TheConfig
  <1>18. Sequential!DropStatements(d)
    BY <1>11, <1>12, <1>13 DEF Sequential!DropStatements, seqStmts, seqDbc
  <1>19. Sequential!Disconnect(d)
    BY <1>2, <1>4, <1>7, <1>10, <1>15, <1>16, <1>17, <1>18
       DEF Sequential!Disconnect, Sequential!Return, Return, Sequential!SUCCESS,
           seqConnected, seqClient, seqCfg, seqLogin, seqEnv, seqConnections, TheConfig
  <1> QED
    BY <1>2, <1>19 DEF Sequential!Next
\* SQLAllocHandle takes effect when it inserts the new object.
LEMMA InsertIsAlloc ==
    ASSUME IInv, IInv', NEW t \in Threads, Insert(t)
    PROVE  Sequential!Next
  <1> USE DEF IInv
  <1>1. PICK x \in Mutexes : x = call[t].child
    BY ThreadAssumption DEF Insert, At, Shapes, Shape, Typed, TypeOK
  <1>2. /\ call[t].pc = "insert" /\ call[t].fn \in {"AllocDbc", "AllocStmt"} /\ Running(t)
        /\ x # NoHandle /\ Lives(call[t])
    BY <1>1 DEF Insert, At, Shapes, Shape, Running, Alive
  <1>3. /\ call'[t].pc = "unlock" /\ \A u \in Threads : u # t => call'[u] = call[u]
    BY DEF Insert, Typed, Calls
  <1>4. /\ UNCHANGED <<liveEnvs, liveDbcs, liveStmts, parent, connected>>
        /\ Return("SQLAllocHandle", call[t].on, "SQL_SUCCESS", "none")
    BY DEF Insert
  <1>5. /\ x \in Inserting
        /\ \A y : y \in Inserting' <=> y \in Inserting /\ y # x
        /\ \A y : y \in Closing' <=> y \in Closing
        /\ \A y : y \in Dropping' <=> y \in Dropping
    <2>1. \A u \in Threads : u # t /\ call[u].pc = "insert" => call[u].child # x
      BY <1>1, <1>2 DEF Apart, Compatible, Running
    <2> QED
      BY <1>1, <1>2, <1>3, <2>1, Underway, UnderwayNext, DroppingIs
  <1>6. \A e \in Dbcs : SeqOpen(e)' <=> SeqOpen(e)
    BY <1>4, <1>5 DEF SeqOpen
  <1>7. UNCHANGED seqConns
    BY <1>6 DEF seqConns, seqConnected, seqClient, seqCfg, seqLogin, TheConfig, SeqOpen
  <1>8. /\ seqConnections = [e \in {Env} |-> SeqDbcs] /\ seqConnections' = [e \in {Env} |-> SeqDbcs']
        /\ seqStmts = [e \in Dbcs |-> {y \in SeqStmts : parent[y] = e}]
        /\ seqStmts' = [e \in Dbcs |-> {y \in SeqStmts' : parent'[y] = e}]
    BY ContainersList, ContainersListNext DEF ListsAll
  <1>9. CASE call[t].fn = "AllocDbc"
    <2>1. /\ x \in liveDbcs /\ x \in Dbcs /\ x \notin Stmts /\ call[t].on = Env /\ Env \in liveEnvs
          /\ ~connected[x]
      BY <1>1, <1>2, <1>9, ThreadAssumption DEF Lives, Running, Typed, TypeOK, Open, At
    <2>2. x \notin SeqDbcs /\ SeqDbcs' = SeqDbcs \cup {x}
      <3>1. \A y : y \in SeqDbcs' <=> y \in SeqDbcs \/ y = x
        BY <1>4, <1>5, <2>1 DEF SeqDbcs
      <3> QED
        BY <1>5, <3>1 DEF SeqDbcs
    <2>3. SeqStmts' = SeqStmts
      <3>1. \A y : y \in SeqStmts' <=> y \in SeqStmts
        BY <1>4, <1>5, <2>1 DEF SeqStmts, Typed, TypeOK
      <3> QED
        BY <3>1
    <2>4. seqEnv' = [seqEnv EXCEPT ![x] = Env] /\ seqDbc' = seqDbc
      BY <1>4, <2>1, <2>2, <2>3 DEF seqEnv, seqDbc
    <2>5. seqConnections' = [seqConnections EXCEPT ![Env] = @ \cup {x}]
      BY <1>8, <2>2
    <2>6. seqStmts' = [seqStmts EXCEPT ![x] = {}]
      <3>1. {y \in SeqStmts : parent[y] = x} = {}
        BY <2>1 DEF SeqStmts, Open
      <3>2. seqStmts' = seqStmts
        BY <1>4, <1>8, <2>3
      <3>3. seqStmts = [e \in Dbcs |-> seqStmts[e]] /\ seqStmts[x] = {}
        BY <1>8, <2>1, <3>1
      <3> QED
        BY <3>2, <3>3
    <2>7. /\ seqConnected' = [seqConnected EXCEPT ![x] = FALSE]
          /\ seqCfg' = [seqCfg EXCEPT ![x] = TheConfig]
          /\ seqClient' = [seqClient EXCEPT ![x] = NoClient]
          /\ seqLogin' = [seqLogin EXCEPT ![x] = 0]
      BY <1>6, <2>1 DEF seqConnected, seqClient, seqCfg, seqLogin, TheConfig, SeqOpen
    <2>8. Sequential!AllocDbc(Env, x)
      BY <1>4, <2>1, <2>2, <2>3, <2>4, <2>5, <2>6, <2>7, TheConfigIs
         DEF Sequential!AllocDbc, Sequential!Return, Return, Sequential!SUCCESS, seqEnv, seqDbc,
             seqConnections, seqStmts, seqConnected, seqClient, seqCfg, seqLogin, TheConfig
    <2> QED
      BY <2>1, <2>8 DEF Sequential!Next
  <1>10. CASE call[t].fn = "AllocStmt"
    <2>1. PICK d \in Dbcs : d = call[t].on
      BY <1>2, <1>10, GivenOut DEF DbcCalls, Running
    <2>2. d \in SeqDbcs /\ d \notin Closing
      BY <1>2, <1>10, <2>1, GivenOut DEF DbcCalls, Running, Holds, Locked
    <2>3. x \in liveStmts /\ x \in Stmts /\ x \notin Dbcs /\ parent[x] = d
      BY <1>1, <1>2, <1>10, <2>1, ThreadAssumption DEF Lives, Running, Typed, TypeOK
    <2>4. connected[d]
      BY <2>3 DEF Open
    <2>5. x \notin Dropping
      BY <2>2, <2>3, DroppingIs, Underway DEF Views, View, ChildrenOf
    <2>6. x \notin SeqStmts /\ SeqStmts' = SeqStmts \cup {x}
      <3>1. \A y : y \in SeqStmts' <=> y \in SeqStmts \/ y = x
        BY <1>4, <1>5, <2>3, <2>5 DEF SeqStmts
      <3> QED
        BY <1>5, <3>1 DEF SeqStmts
    <2>7. SeqDbcs' = SeqDbcs
      <3>1. \A y : y \in SeqDbcs' <=> y \in SeqDbcs
        BY <1>4, <1>5, <2>3 DEF SeqDbcs, Typed, TypeOK
      <3> QED
        BY <3>1
    <2>8. seqEnv' = seqEnv /\ seqDbc' = [seqDbc EXCEPT ![x] = d]
      BY <1>4, <2>3, <2>6, <2>7 DEF seqEnv, seqDbc
    <2>9. seqConnections' = seqConnections
      BY <1>8, <2>7
    <2>10. seqStmts' = [seqStmts EXCEPT ![d] = @ \cup {x}]
      <3>1. {y \in SeqStmts' : parent'[y] = d} = {y \in SeqStmts : parent[y] = d} \cup {x}
        <4>1. \A y : y \in {z \in SeqStmts' : parent'[z] = d}
                       <=> y \in {z \in SeqStmts : parent[z] = d} \cup {x}
          BY <1>4, <2>3, <2>6
        <4> QED
          BY <4>1
      <3>2. \A e \in Dbcs : e # d => {y \in SeqStmts' : parent'[y] = e} = {y \in SeqStmts : parent[y] = e}
        BY <1>4, <2>3, <2>6
      <3> QED
        BY <1>8, <3>1, <3>2
    <2>11. seqConnected[d]
      BY <2>2, <2>4 DEF seqConnected, SeqOpen
    <2>12. Sequential!AllocStmt(d, x)
      BY <1>4, <1>7, <2>1, <2>2, <2>6, <2>7, <2>8, <2>9, <2>10, <2>11, SequentialVars
         DEF Sequential!AllocStmt, Sequential!Return, Return, Sequential!SUCCESS, seqEnv, seqDbc,
             seqConnections, seqStmts, seqConnected
    <2> QED
      BY <2>3, <2>12 DEF Sequential!Next
  <1> QED
    BY <1>2, <1>9, <1>10
\* SQLFreeHandle takes effect when it destroys the object.
LEMMA DestroyStmtIsDrop ==
    ASSUME IInv, IInv', NEW t \in Threads, Destroy(t), call[t].fn = "FreeStmt"
    PROVE  Sequential!Next
  <1> USE DEF IInv
  <1>1. PICK h \in Mutexes \cup {NoHandle} : h = call[t].on
    BY DEF Typed, TypeOK
  <1>2. /\ call[t].pc = "destroy" /\ Running(t) /\ Moved(t, Idle)
        /\ h \in liveStmts /\ h \in Stmts /\ h \notin Dbcs
    BY <1>1, ThreadAssumption
       DEF Destroy, At, Running, Moved, Alive, Lives, StmtCalls, Typed, TypeOK
  <1>3. /\ liveStmts' = liveStmts \ {h}
        /\ UNCHANGED <<liveEnvs, liveDbcs, connected, parent>>
        /\ Return("SQLFreeHandle", h, "SQL_SUCCESS", "none")
    BY <1>1 DEF Destroy
  <1>4. call'[t].pc = "idle" /\ \A u \in Threads : u # t => call'[u] = call[u]
    BY <1>2, MovedIs, IdleIs
  <1>5. /\ \A y : y \in Inserting' <=> y \in Inserting
        /\ \A y : y \in Closing' <=> y \in Closing
        /\ \A y : y \in Dropping' <=> y \in Dropping
    BY <1>2, <1>4, Underway, UnderwayNext, DroppingIs
  <1>6. \A u \in Threads : u # t /\ call[u].pc # "idle" =>
           call[u].child # h /\ h \notin Ends(call[u].fn, call[u].on)
    BY <1>1, <1>2 DEF Apart, Compatible, Running
  <1>7. h \notin Inserting /\ parent[h] \notin Closing /\ h \notin Dropping
    <2>1. h \notin Inserting
      BY <1>2, <1>6, Underway
    <2>2. ASSUME NEW u \in Threads, call[u].pc = "drop", h \in ChildrenOf(call[u].on)
          PROVE  FALSE
      <3>1. call[u].fn = "Disconnect" /\ u # t
        BY <1>2, <2>2 DEF Shapes, Shape
      <3> QED
        BY <1>6, <2>2, <3>1, EndsAre
    <2>3. parent[h] \notin Closing
      BY <1>2, <2>2, Underway DEF ChildrenOf
    <2>4. h \notin Dropping
      BY <2>2, DroppingIs DEF Views, View
    <2> QED
      BY <2>1, <2>3, <2>4
  <1>8. h \in SeqStmts /\ SeqStmts' = SeqStmts \ {h}
    <2>1. \A y : y \in SeqStmts' <=> y \in SeqStmts /\ y # h
      BY <1>3, <1>5 DEF SeqStmts
    <2> QED
      BY <1>2, <1>7, <2>1 DEF SeqStmts
  <1>9. SeqDbcs' = SeqDbcs
    <2>1. \A y : y \in SeqDbcs' <=> y \in SeqDbcs
      BY <1>3, <1>5 DEF SeqDbcs
    <2> QED
      BY <2>1
  <1>10. \A e \in Dbcs : SeqOpen(e)' <=> SeqOpen(e)
    BY <1>3, <1>5 DEF SeqOpen
  <1>11. UNCHANGED seqConns
    BY <1>10 DEF seqConns, seqConnected, seqClient, seqCfg, seqLogin, TheConfig, SeqOpen
  <1>12. /\ seqConnections = [e \in {Env} |-> SeqDbcs] /\ seqConnections' = [e \in {Env} |-> SeqDbcs']
         /\ seqStmts = [e \in Dbcs |-> {y \in SeqStmts : parent[y] = e}]
         /\ seqStmts' = [e \in Dbcs |-> {y \in SeqStmts' : parent'[y] = e}]
    BY ContainersList, ContainersListNext DEF ListsAll
  <1>13. seqEnv' = seqEnv /\ seqConnections' = seqConnections
    BY <1>9, <1>12 DEF seqEnv
  <1>14. seqDbc' = [seqDbc EXCEPT ![h] = NoHandle] /\ seqDbc[h] = parent[h] /\ parent[h] \in Dbcs
    BY <1>2, <1>3, <1>8 DEF seqDbc, Tree, Typed, TypeOK
  <1>15. seqStmts' = [seqStmts EXCEPT ![seqDbc[h]] = @ \ {h}]
    <2>1. {y \in SeqStmts' : parent'[y] = parent[h]} = {y \in SeqStmts : parent[y] = parent[h]} \ {h}
      BY <1>3, <1>8
    <2>2. \A e \in Dbcs : e # parent[h] =>
             {y \in SeqStmts' : parent'[y] = e} = {y \in SeqStmts : parent[y] = e}
      BY <1>3, <1>8
    <2>3. seqStmts' = [seqStmts EXCEPT ![parent[h]] = @ \ {h}]
      BY <1>12, <1>14, <2>1, <2>2
    <2> QED
      BY <1>14, <2>3
  <1>16. Sequential!DropStmt(h)
    BY <1>3, <1>8, <1>9, <1>11, <1>13, <1>14, <1>15, SequentialVars
       DEF Sequential!DropStmt, Sequential!ErasePointer, Sequential!Return, Return, Sequential!SUCCESS,
           seqEnv, seqDbc, seqConnections, seqStmts
  <1> QED
    BY <1>2, <1>16 DEF Sequential!Next

LEMMA DestroyDbcIsFree ==
    ASSUME IInv, IInv', NEW t \in Threads, Destroy(t), call[t].fn = "FreeDbc"
    PROVE  Sequential!Next
  <1> USE DEF IInv
  <1>1. PICK h \in Mutexes \cup {NoHandle} : h = call[t].on
    BY DEF Typed, TypeOK
  <1>2. /\ call[t].pc = "destroy" /\ Running(t) /\ Moved(t, Idle)
        /\ h \in liveDbcs /\ h \in Dbcs
    BY <1>1 DEF Destroy, At, Running, Moved, Alive, Lives, DbcCalls, Typed, TypeOK
  <1>3. /\ stmts[h] = ChildrenOf(h)
        /\ \A u \in Threads : u # t /\ call[u].pc # "idle" =>
              call[u].on # h /\ call[u].on \notin ChildrenOf(h) /\ call[u].child \notin ChildrenOf(h)
    BY <1>1, <1>2, ListsChildren, EndsAre DEF Running
  <1>4. /\ liveDbcs' = liveDbcs \ {h}
        /\ liveStmts' = liveStmts \ ChildrenOf(h)
        /\ connected' = [d \in Dbcs |-> connected[d] /\ d \notin {h}]
        /\ UNCHANGED <<liveEnvs, parent>>
        /\ Return("SQLFreeHandle", h, "SQL_SUCCESS", "none")
    BY <1>1, <1>3 DEF Destroy, DestroyConnections
  <1>5. call'[t].pc = "idle" /\ \A u \in Threads : u # t => call'[u] = call[u]
    BY <1>2, MovedIs, IdleIs
  <1>6. /\ \A y : y \in Inserting' <=> y \in Inserting
        /\ \A y : y \in Closing' <=> y \in Closing
        /\ \A y : y \in Dropping' <=> y \in Dropping
    BY <1>2, <1>5, Underway, UnderwayNext, DroppingIs
  <1>7. h \notin Inserting /\ h \notin Closing
    <2>1. \A u \in Threads : u # t /\ call[u].pc # "idle" => call[u].child # h
      BY <1>1, <1>2 DEF Apart, Compatible, Running
    <2> QED
      BY <1>2, <1>3, <2>1, Underway
  <1>8. h \in SeqDbcs /\ SeqDbcs' = SeqDbcs \ {h}
    <2>1. \A y : y \in SeqDbcs' <=> y \in SeqDbcs /\ y # h
      BY <1>4, <1>6 DEF SeqDbcs
    <2> QED
      BY <1>2, <1>7, <2>1 DEF SeqDbcs
  <1>9. \A y : y \in SeqStmts' <=> y \in SeqStmts /\ parent[y] # h
    BY <1>4, <1>6 DEF SeqStmts, ChildrenOf
  <1>10. /\ seqConnections = [e \in {Env} |-> SeqDbcs] /\ seqConnections' = [e \in {Env} |-> SeqDbcs']
         /\ seqStmts = [e \in Dbcs |-> {y \in SeqStmts : parent[y] = e}]
         /\ seqStmts' = [e \in Dbcs |-> {y \in SeqStmts' : parent'[y] = e}]
    BY ContainersList, ContainersListNext DEF ListsAll
  <1>11. SeqStmts' = SeqStmts \ UNION {seqStmts[d] : d \in {h}}
    <2>1. UNION {seqStmts[d] : d \in {h}} = seqStmts[h]
      OBVIOUS
    <2>2. \A y : y \in SeqStmts' <=> y \in SeqStmts /\ y \notin seqStmts[h]
      BY <1>2, <1>9, <1>10
    <2> QED
      BY <2>1, <2>2
  <1>12. /\ seqEnv[h] = Env
         /\ seqEnv' = [d \in Dbcs |-> IF d \in {h} THEN NoHandle ELSE seqEnv[d]]
    BY <1>2, <1>8 DEF seqEnv
  <1>13. seqDbc' = [s \in Stmts |-> IF seqDbc[s] \in {h} THEN NoHandle ELSE seqDbc[s]]
    <2> SUFFICES ASSUME NEW x \in Stmts
                 PROVE  (IF x \in SeqStmts' THEN parent'[x] ELSE NoHandle)
                          = (IF (IF x \in SeqStmts THEN parent[x] ELSE NoHandle) \in {h} THEN NoHandle
                             ELSE IF x \in SeqStmts THEN parent[x] ELSE NoHandle)
      BY DEF seqDbc
    <2> QED
      BY <1>2, <1>4, <1>9, ThreadAssumption
  <1>14. seqStmts' = [d \in Dbcs |-> IF d \in {h} THEN {} ELSE seqStmts[d]]
    <2>1. {x \in SeqStmts' : parent'[x] = h} = {}
      BY <1>4, <1>9
    <2>2. ASSUME NEW e \in Dbcs, e # h
          PROVE  {x \in SeqStmts' : parent'[x] = e} = {x \in SeqStmts : parent[x] = e}
      BY <1>4, <1>9, <2>2
    <2> QED
      BY <1>10, <2>1, <2>2
  <1>15. seqConnections' = [seqConnections EXCEPT ![seqEnv[h]] = @ \ {h}]
    BY <1>8, <1>10, <1>12
  <1>16. \A e \in Dbcs : SeqOpen(e)' <=> SeqOpen(e) /\ e \notin {h}
    BY <1>4, <1>6 DEF SeqOpen
  <1>17. /\ seqConnected' = [d \in Dbcs |-> seqConnected[d] /\ d \notin {h}]
         /\ seqClient' = [d \in Dbcs |-> IF d \in {h} THEN NoClient ELSE seqClient[d]]
         /\ seqLogin' = [d \in Dbcs |-> IF d \in {h} THEN 0 ELSE seqLogin[d]]
         /\ seqCfg' = seqCfg
    BY <1>16 DEF seqConnected, seqClient, seqCfg, seqLogin, TheConfig, SeqOpen
  <1>18. Sequential!DestroyDbcs({h})
    BY <1>8, <1>11, <1>12, <1>13, <1>14, <1>17
       DEF Sequential!DestroyDbcs, seqEnv, seqDbc, seqStmts, seqConnected, seqClient, seqCfg, seqLogin,
           TheConfig
  <1>19. Sequential!FreeDbc(h)
    BY <1>4, <1>8, <1>15, <1>18
       DEF Sequential!FreeDbc, Sequential!Return, Return, Sequential!SUCCESS, seqEnv, seqConnections
  <1> QED
    BY <1>2, <1>19 DEF Sequential!Next

LEMMA DestroyEnvIsFree ==
    ASSUME IInv, IInv', NEW t \in Threads, Destroy(t), call[t].fn = "FreeEnv"
    PROVE  Sequential!Next
  <1> USE DEF IInv
  <1>1. /\ call[t].pc = "body" /\ Running(t) /\ Moved(t, Idle)
        /\ call[t].on = Env /\ Env \in liveEnvs /\ liveEnvs = {Env}
    BY DEF Destroy, At, Running, Moved, Alive, Lives, Typed, TypeOK
  <1>2. \A u \in Threads : u # t => call[u].pc = "idle"
    BY <1>1, NoFreeEnv
  <1>3. /\ Inserting = {} /\ Erasing = {} /\ Closing = {} /\ Dropping = {}
    BY <1>1, <1>2, Underway, DroppingIs
  <1>4. connections = liveDbcs /\ SeqDbcs = liveDbcs /\ SeqStmts = liveStmts
    BY <1>3 DEF Tree, SeqDbcs, SeqStmts
  <1>5. \A u \in Threads : call'[u].pc = "idle"
    BY <1>1, <1>2, MovedIs, IdleIs
  <1>6. /\ liveEnvs' = {} /\ liveDbcs' = {}
        /\ connected' = [d \in Dbcs |-> connected[d] /\ d \notin liveDbcs]
        /\ Return("SQLFreeHandle", Env, "SQL_SUCCESS", "none")
    BY <1>1, <1>4 DEF Destroy, DestroyConnections, At
  <1>7. liveStmts' = {}
    BY <1>6 DEF Tree
  <1>8. SeqDbcs' = {} /\ SeqStmts' = {}
    BY <1>6, <1>7 DEF SeqDbcs, SeqStmts
  <1>9. /\ seqConnections = [e \in {Env} |-> SeqDbcs] /\ seqConnections' = [e \in {Env} |-> SeqDbcs']
        /\ seqStmts = [e \in Dbcs |-> {y \in SeqStmts : parent[y] = e}]
        /\ seqStmts' = [e \in Dbcs |-> {y \in SeqStmts' : parent'[y] = e}]
    BY ContainersList, ContainersListNext DEF ListsAll
  <1>10. liveStmts \subseteq Stmts /\ \A s \in liveStmts : parent[s] \in liveDbcs /\ parent[s] \in Dbcs
    BY DEF Tree, Typed, TypeOK
  <1>11. seqConnections[Env] = liveDbcs
    BY <1>4, <1>9
  <1>12. SeqDbcs' = SeqDbcs \ liveDbcs
    BY <1>4, <1>8
  <1>13. SeqStmts' = SeqStmts \ UNION {seqStmts[d] : d \in liveDbcs}
    <2>1. \A s \in SeqStmts : s \in seqStmts[parent[s]]
      BY <1>4, <1>9, <1>10
    <2> QED
      BY <1>4, <1>8, <1>10, <2>1
  <1>14. seqEnv' = [d \in Dbcs |-> IF d \in liveDbcs THEN NoHandle ELSE seqEnv[d]]
    BY <1>4, <1>8 DEF seqEnv
  <1>15. seqDbc' = [s \in Stmts |-> IF seqDbc[s] \in liveDbcs THEN NoHandle ELSE seqDbc[s]]
    BY <1>4, <1>8, <1>10 DEF seqDbc
  <1>16. seqStmts' = [d \in Dbcs |-> IF d \in liveDbcs THEN {} ELSE seqStmts[d]]
    <2>1. \A d \in Dbcs : {y \in SeqStmts' : parent'[y] = d} = {}
      BY <1>8
    <2>2. \A d \in Dbcs : d \notin liveDbcs => {y \in SeqStmts : parent[y] = d} = {}
      BY <1>4, <1>10
    <2> QED
      BY <1>9, <2>1, <2>2
  <1>17. seqConnections' = [seqConnections EXCEPT ![Env] = {}]
    BY <1>8, <1>9
  <1>18. \A e \in Dbcs : SeqOpen(e)' <=> SeqOpen(e) /\ e \notin liveDbcs
    <2>1. \A e \in Dbcs : SeqOpen(e) => e \in liveDbcs
      BY DEF SeqOpen, Open
    <2>2. \A e \in Dbcs : ~SeqOpen(e)'
      BY <1>6 DEF SeqOpen, Open
    <2> QED
      BY <2>1, <2>2
  <1>19. /\ seqConnected' = [d \in Dbcs |-> seqConnected[d] /\ d \notin liveDbcs]
         /\ seqClient' = [d \in Dbcs |-> IF d \in liveDbcs THEN NoClient ELSE seqClient[d]]
         /\ seqLogin' = [d \in Dbcs |-> IF d \in liveDbcs THEN 0 ELSE seqLogin[d]]
         /\ seqCfg' = seqCfg
    BY <1>18 DEF seqConnected, seqClient, seqCfg, seqLogin, TheConfig, SeqOpen
  <1>20. Sequential!DestroyDbcs(liveDbcs)
    BY <1>12, <1>13, <1>14, <1>15, <1>16, <1>19
       DEF Sequential!DestroyDbcs, seqEnv, seqDbc, seqStmts, seqConnected, seqClient, seqCfg, seqLogin,
           TheConfig
  <1>21. Sequential!DestroyDbcs(seqConnections[Env])
    BY <1>11, <1>20
       DEF Sequential!DestroyDbcs, seqEnv, seqDbc, seqStmts, seqConnected, seqClient, seqCfg, seqLogin,
           TheConfig
  <1>22. Sequential!FreeEnv(Env)
    BY <1>1, <1>6, <1>17, <1>21
       DEF Sequential!FreeEnv, Sequential!Return, Return, Sequential!SUCCESS, seqConnections
  <1> QED
    BY <1>22 DEF Sequential!Next

LEMMA AllocEnvIsAlloc ==
    ASSUME IInv, IInv', NEW t \in Threads, AllocEnv(t)
    PROVE  Sequential!Next
  <1> USE DEF IInv
  <1>1. /\ liveEnvs = {} /\ liveEnvs' = {Env}
        /\ UNCHANGED <<liveDbcs, liveStmts, parent, connections, stmts, connected, client,
                       owner, asking, call>>
        /\ Return("SQLAllocHandle", NoHandle, "SQL_SUCCESS", "none")
    BY DEF AllocEnv
  <1>2. /\ \A x : x \in Inserting' <=> x \in Inserting
        /\ \A x : x \in Closing' <=> x \in Closing
        /\ \A x : x \in Dropping' <=> x \in Dropping
    BY <1>1, Underway, UnderwayNext, DroppingIs
  <1>3. SeqDbcs' = SeqDbcs /\ SeqStmts' = SeqStmts
    BY <1>1, <1>2 DEF SeqDbcs, SeqStmts
  <1>4. SeqDbcs = {}
    BY <1>1 DEF Tree, SeqDbcs
  <1>5. \A e \in Dbcs : SeqOpen(e)' <=> SeqOpen(e)
    BY <1>1, <1>2 DEF SeqOpen
  <1>6. UNCHANGED seqConns
    BY <1>5 DEF seqConns, seqConnected, seqClient, seqCfg, seqLogin, TheConfig, SeqOpen
  <1>7. /\ seqConnections = [e \in {Env} |-> SeqDbcs] /\ seqConnections' = [e \in {Env} |-> SeqDbcs']
        /\ seqStmts = [e \in Dbcs |-> {y \in SeqStmts : parent[y] = e}]
        /\ seqStmts' = [e \in Dbcs |-> {y \in SeqStmts' : parent'[y] = e}]
    BY ContainersList, ContainersListNext DEF ListsAll
  <1>8. seqEnv' = seqEnv /\ seqDbc' = seqDbc /\ seqStmts' = seqStmts
    BY <1>1, <1>3, <1>7 DEF seqEnv, seqDbc
  <1>9. seqConnections' = [seqConnections EXCEPT ![Env] = {}]
    BY <1>3, <1>4, <1>7
  <1>10. Sequential!AllocEnv(Env)
    BY <1>1, <1>3, <1>6, <1>8, <1>9, SequentialVars
       DEF Sequential!AllocEnv, Sequential!Return, Return, Sequential!SUCCESS, seqEnv, seqDbc,
           seqConnections, seqStmts
  <1> QED
    BY <1>10 DEF Sequential!Next

LEMMA InitIsInit == Init => Sequential!Init
  <1> SUFFICES ASSUME Init PROVE Sequential!Init
    OBVIOUS
  <1>1. \A u \in Threads : call[u].pc = "idle"
    BY IdleIs DEF Init
  <1>2. SeqDbcs = {} /\ SeqStmts = {} /\ Erasing = {} /\ \A d \in Dbcs : ~SeqOpen(d)
    BY <1>1, Underway DEF Init, SeqDbcs, SeqStmts, SeqOpen
  <1>3. /\ seqEnv = [d \in Dbcs |-> NoHandle] /\ seqDbc = [s \in Stmts |-> NoHandle]
        /\ seqConnections = [e \in {Env} |-> {}] /\ seqStmts = [d \in Dbcs |-> {}]
        /\ seqConnected = [d \in Dbcs |-> FALSE] /\ seqClient = [d \in Dbcs |-> NoClient]
    <2>1. connections = {} /\ stmts = [d \in Dbcs |-> {}]
      BY DEF Init
    <2>2. seqEnv = [d \in Dbcs |-> NoHandle] /\ seqDbc = [s \in Stmts |-> NoHandle]
      BY <1>2 DEF seqEnv, seqDbc
    <2>3. seqConnections = [e \in {Env} |-> {}]
      BY <1>2, <2>1 DEF seqConnections
    <2>4. seqStmts = [d \in Dbcs |-> {}]
      BY <1>2, <2>1 DEF seqStmts
    <2>5. seqConnected = [d \in Dbcs |-> FALSE] /\ seqClient = [d \in Dbcs |-> NoClient]
      BY <1>2 DEF seqConnected, seqClient, SeqOpen
    <2> QED
      BY <2>2, <2>3, <2>4, <2>5
  <1> QED
    BY <1>2, <1>3, TheConfigIs
       DEF Init, Sequential!Init, Sequential!SUCCESS, seqEnv, seqDbc, seqConnections, seqStmts,
           seqConnected, seqClient, TheConfig

\* Concurrent calls have the effects of the same calls made one after another:
\* every step is one call of Handles, or nothing.
THEOREM CallsAreLinearizable == FreesAlone => (Spec => Linearizable)
  <1> SUFFICES ASSUME FreesAlone PROVE Spec => Linearizable
    OBVIOUS
  <1>1. ASSUME IInv, IInv', [Next]_vars
        PROVE  [Sequential!Next]_(Sequential!vars)
    <2>1. ASSUME NEW t \in Threads, Step(t) \/ Begin(t)
          PROVE  Sequential!Next \/ UNCHANGED Sequential!vars
      <3>1. Destroy(t) => call[t].fn \in {"FreeStmt", "FreeDbc", "FreeEnv"}
        BY DEF Destroy
      <3> QED
        BY <1>1, <2>1, <3>1, QuietStepIsHidden, AllocIsHidden, DropIsHidden, RefuseIsRefused,
           HealthIsConnect, DisconnectIsDisconnect, InsertIsAlloc, DestroyStmtIsDrop, DestroyDbcIsFree,
           DestroyEnvIsFree, AllocEnvIsAlloc DEF Step, Begin, QuietStep
    <2>2. CASE UNCHANGED vars
      <3>1. UNCHANGED <<seqTree, seqConns, ret>>
        BY <2>2 DEF vars, seqTree, seqConns, seqEnv, seqDbc, seqConnections, seqStmts, seqConnected,
                    seqCfg, seqClient, seqLogin, SeqDbcs, SeqStmts, SeqOpen, TheConfig, Inserting,
                    Erasing, Closing, Dropping, At
      <3> QED
        BY <3>1, SequentialVars
    <2> QED
      BY <1>1, <2>1, <2>2 DEF Next
  <1> QED
    BY <1>1, InitIsInit, Inductive, PTL DEF Spec, Linearizable, Sequential!Spec
=============================================================================
