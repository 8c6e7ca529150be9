-------------------------- MODULE DnsServerProofs --------------------------
(***************************************************************************)
(* Proofs about DnsServer, for any number of tasks and sockets: as long as *)
(* no task outlives the pause, tasks replace one another without sharing.  *)
(***************************************************************************)
EXTENDS DnsServer, TLAPS

Nobody == \A t \in Tasks : pc[t] = "none"

\* Whose turn it is: the creator starts a task when there is none, knows the
\* one it started, and leaves its handle where the watchdog finds it.
Turns ==
  /\ \A t, u \in Tasks : pc[t] # "none" /\ pc[u] # "none" => t = u
  /\ creator = "create" => Nobody
  /\ creator = "handle" => \A t \in Tasks : pc[t] # "none" => t = new_h
  /\ creator \in {"watch", "compare", "flag"} =>
       \A t \in Tasks : pc[t] # "none" => dns_task_handle = t

\* What a task still has open where it stands.
Sockets ==
  /\ open \subseteq {dns_srv_sock, dns_ext_sock}
  /\ Nobody => open = {}
  /\ \A t \in Tasks : pc[t] \in {"start", "srv", "forget", "handle"} => open = {}
  /\ \A t \in Tasks : pc[t] = "ext" => open \subseteq {dns_srv_sock}

InTime == "slow" \notin lapses

IInv == TypeOK /\ (InTime => Turns /\ Sockets)

-----------------------------------------------------------------------------
LEMMA TypeInit == Init => TypeOK
<1> SUFFICES ASSUME Init PROVE TypeOK
  OBVIOUS
<1>1. pc \in [Tasks -> TaskPcs]
  BY DEF Init, TaskPcs
<1>2. /\ open \in SUBSET Socks /\ bound \in SUBSET Socks
      /\ lapses \in SUBSET {"slow", "refused", "wrapped"}
  BY DEF Init
<1>3. dns_restart_flag \in BOOLEAN
  BY DEF Init
<1>4. dns_stuck_count \in 0..1
  BY DEF Init
<1>5. /\ dns_srv_sock \in Socks \cup {None} /\ dns_ext_sock \in Socks \cup {None}
      /\ dns_task_handle \in Tasks \cup {None} /\ new_h \in Tasks \cup {None}
  BY DEF Init
<1>6. /\ alive \in {"fresh", "late", "ahead"}
      /\ creator \in {"create", "handle", "watch", "compare", "flag", "pause"}
  BY DEF Init
<1> QED BY <1>1, <1>2, <1>3, <1>4, <1>5, <1>6 DEF TypeOK

\* A task's step keeps the types.
LEMMA TaskType ==
  ASSUME TypeOK, NEW t \in Tasks, TaskStep(t) \/ Answer(t)
  PROVE  TypeOK'
<1>1. pc' \in [Tasks -> TaskPcs]
  BY DEF TypeOK, TaskPcs, TaskStep, ClearFlag, OpenSrv, OpenExt, Bind, Check,
         Receive, Answer, Close, Forget, End, Goto
<1>2. CASE ClearFlag(t) \/ Check(t) \/ Receive(t) \/ Answer(t) \/ End(t)
  BY <1>1, <1>2 DEF TypeOK, ClearFlag, Check, Receive, Answer, End, sockVars,
                    watchVars
<1>3. CASE OpenSrv(t) \/ OpenExt(t)
  BY <1>1, <1>3 DEF TypeOK, OpenSrv, OpenExt, watchVars
<1>4. CASE Bind(t) \/ Close(t) \/ Forget(t)
  BY <1>1, <1>4 DEF TypeOK, Bind, Close, Forget, watchVars
<1> QED BY <1>2, <1>3, <1>4 DEF TaskStep

\* So does a step of the watchdog; its count never reaches two.
LEMMA WatchType ==
  ASSUME TypeOK, TimePasses \/ WatchStep
  PROVE  TypeOK'
<1>1. CASE TimePasses \/ Heartbeat \/ Signal
  BY <1>1 DEF TypeOK, TimePasses, Heartbeat, Signal, sockVars, watchVars
<1>2. CASE PauseEnds
  BY <1>2 DEF TypeOK, PauseEnds, sockVars
<1>3. CASE SetHandle
  <2>1. dns_stuck_count' \in 0..1
    BY <1>3 DEF SetHandle
  <2> QED BY <1>3, <2>1 DEF TypeOK, SetHandle, sockVars
<1>4. CASE Tick
  BY <1>4 DEF TypeOK, Tick, SecondLook, sockVars
<1>5. CASE Create
  <2>1. pc' \in [Tasks -> TaskPcs]
    BY <1>5 DEF TypeOK, TaskPcs, Create, Goto
  <2> QED BY <1>5, <2>1 DEF TypeOK, Create, sockVars
<1> QED BY <1>1, <1>2, <1>3, <1>4, <1>5 DEF WatchStep

LEMMA TypeStep == TypeOK /\ [Next]_vars => TypeOK'
<1> SUFFICES ASSUME TypeOK, [Next]_vars PROVE TypeOK'
  OBVIOUS
<1>1. CASE UNCHANGED vars
  BY <1>1 DEF TypeOK, vars, sockVars, watchVars
<1> QED BY <1>1, TaskType, WatchType DEF Next

-----------------------------------------------------------------------------
\* A task moves only itself, and moves on only if it was there.
LEMMA TaskMoves ==
  ASSUME TypeOK, NEW t \in Tasks, TaskStep(t) \/ Answer(t)
  PROVE  /\ pc[t] # "none"
         /\ \A u \in Tasks : u # t => pc'[u] = pc[u]
         /\ UNCHANGED <<creator, new_h>>
         /\ "slow" \in lapses' <=> "slow" \in lapses
         /\ pc'[t] # "none" => UNCHANGED dns_task_handle
<1>1. CASE ClearFlag(t) \/ Check(t) \/ Receive(t) \/ Answer(t) \/ End(t)
  BY <1>1 DEF TypeOK, ClearFlag, Check, Receive, Answer, End, Goto, watchVars
<1>2. CASE OpenSrv(t) \/ OpenExt(t)
  BY <1>2 DEF TypeOK, OpenSrv, OpenExt, Goto, watchVars
<1>3. CASE Bind(t) \/ Close(t) \/ Forget(t)
  BY <1>3 DEF TypeOK, Bind, Close, Forget, Goto, watchVars
<1> QED BY <1>1, <1>2, <1>3 DEF TaskStep

\* ... so the turns are kept: it is the only one.
LEMMA TaskTurns ==
  ASSUME TypeOK, Turns, NEW t \in Tasks, TaskStep(t) \/ Answer(t)
  PROVE  Turns'
<1>1. \A u \in Tasks : pc'[u] # "none" => u = t
  BY TaskMoves DEF Turns
<1>2. creator' = creator /\ new_h' = new_h /\ pc[t] # "none"
  BY TaskMoves
<1>3. creator # "create"
  BY <1>2 DEF Turns, Nobody
<1>4. creator = "handle" => t = new_h
  BY <1>2 DEF Turns
<1>5. creator \in {"watch", "compare", "flag"} /\ pc'[t] # "none" =>
        dns_task_handle' = t
  BY <1>2, TaskMoves DEF Turns
<1> QED BY <1>1, <1>2, <1>3, <1>4, <1>5 DEF Turns, Nobody

\* Every task closes what it opened, in the order it needs.
LEMMA TaskSockets ==
  ASSUME TypeOK, Turns, Sockets, NEW t \in Tasks, TaskStep(t) \/ Answer(t)
  PROVE  Sockets'
<1>1. \A u \in Tasks : u # t => pc[u] = "none" /\ pc'[u] = "none"
  BY TaskMoves DEF Turns
<1>2. CASE ClearFlag(t)
  BY <1>1, <1>2 DEF TypeOK, Sockets, Nobody, ClearFlag, Goto, sockVars
<1>3. CASE OpenSrv(t)
  BY <1>1, <1>3 DEF TypeOK, Sockets, Nobody, OpenSrv, Goto
<1>4. CASE OpenExt(t)
  BY <1>1, <1>4 DEF TypeOK, Sockets, Nobody, OpenExt, Goto
<1>5. CASE Bind(t)
  BY <1>1, <1>5 DEF TypeOK, Sockets, Nobody, Bind, Goto
<1>6. CASE Check(t) \/ Receive(t) \/ Answer(t)
  BY <1>1, <1>6 DEF TypeOK, Sockets, Nobody, Check, Receive, Answer, Goto, sockVars
<1>7. CASE Close(t) \/ Forget(t)
  BY <1>1, <1>7 DEF TypeOK, Sockets, Nobody, Close, Forget, Goto
<1>8. CASE End(t)
  BY <1>1, <1>8 DEF TypeOK, Sockets, Nobody, End, Goto, sockVars
<1> QED BY <1>2, <1>3, <1>4, <1>5, <1>6, <1>7, <1>8 DEF TaskStep

-----------------------------------------------------------------------------
\* The watchdog hands over at the end of a pause only when nobody is left.
LEMMA WatchTurns ==
  ASSUME TypeOK, InTime => Turns /\ Sockets, TimePasses \/ WatchStep, InTime'
  PROVE  Turns' /\ Sockets'
<1>1. InTime
  BY DEF InTime, TimePasses, WatchStep, Heartbeat, Tick, Signal, PauseEnds,
         Create, SetHandle
<1>2. Turns /\ Sockets
  BY <1>1
<1>3. CASE TimePasses \/ Heartbeat \/ Tick \/ Signal
  BY <1>2, <1>3 DEF Turns, Sockets, Nobody, TimePasses, Heartbeat, Tick, Signal,
                    sockVars, watchVars
<1>4. CASE PauseEnds
  <2>1. Nobody
    BY <1>4 DEF PauseEnds, InTime, Nobody
  <2> QED BY <1>2, <1>4, <2>1 DEF Turns, Sockets, Nobody, PauseEnds, sockVars
<1>5. CASE Create
  <2>1. Nobody /\ open = {}
    BY <1>2, <1>5 DEF Create, Turns, Sockets
  <2>2. CASE new_h' = None /\ UNCHANGED pc
    BY <1>5, <2>1, <2>2 DEF Turns, Sockets, Nobody, Create, sockVars
  <2>3. CASE \E t \in Tasks : pc[t] = "none" /\ Goto(t, "start") /\ new_h' = t
    BY <1>5, <2>1, <2>3 DEF TypeOK, Turns, Sockets, Nobody, Create, Goto, sockVars
  <2> QED BY <1>5, <2>2, <2>3 DEF Create
<1>6. CASE SetHandle
  BY <1>2, <1>6 DEF Turns, Sockets, Nobody, SetHandle, sockVars
<1> QED BY <1>3, <1>4, <1>5, <1>6 DEF WatchStep

-----------------------------------------------------------------------------
LEMMA IInvInit == Init => IInv
<1> SUFFICES ASSUME Init PROVE IInv
  OBVIOUS
<1>1. Turns /\ Sockets
  BY DEF Init, Turns, Sockets, Nobody
<1> QED BY <1>1, TypeInit DEF IInv

LEMMA IInvStep == IInv /\ [Next]_vars => IInv'
<1> SUFFICES ASSUME IInv, [Next]_vars PROVE IInv'
  OBVIOUS
<1>1. TypeOK'
  BY TypeStep DEF IInv
<1>2. ASSUME InTime' PROVE Turns' /\ Sockets'
  <2>1. CASE UNCHANGED vars
    BY <1>2, <2>1 DEF IInv, InTime, Turns, Sockets, Nobody, vars, sockVars, watchVars
  <2>2. ASSUME NEW t \in Tasks, TaskStep(t) \/ Answer(t) PROVE Turns' /\ Sockets'
    <3>1. InTime
      BY <1>2, <2>2, TaskMoves DEF IInv, InTime
    <3> QED BY <2>2, <3>1, TaskTurns, TaskSockets DEF IInv
  <2>3. CASE TimePasses \/ WatchStep
    BY <1>2, <2>3, WatchTurns DEF IInv
  <2> QED BY <2>1, <2>2, <2>3 DEF Next
<1> QED BY <1>1, <1>2 DEF IInv

LEMMA Invariance == Spec => []IInv
  BY IInvInit, IInvStep, PTL DEF Spec

\* The types; the watchdog's count stays below two.
THEOREM TypeCorrect == Spec => []TypeOK
<1>1. IInv => TypeOK
  BY DEF IInv
<1> QED BY Invariance, <1>1, PTL

\* One server at a time while tasks end within the pause, however restarts,
\* failing calls and wrapped readings follow one another.
THEOREM OneServerCorrect == Spec => []OneServer
<1>1. IInv => OneServer
  BY DEF IInv, InTime, Turns, OneServer, Alive
<1> QED BY Invariance, <1>1, PTL

\* No restart and no failure leaks a socket.
THEOREM SocketsCorrect == Spec => []NoSocketLost
<1>1. IInv => NoSocketLost
  BY DEF IInv, InTime, Sockets, NoSocketLost
<1> QED BY Invariance, <1>1, PTL

\* Whoever serves is watched.
THEOREM WatchedCorrect == Spec => []ServerIsWatched
<1>1. IInv => ServerIsWatched
  BY DEF IInv, InTime, Turns, ServerIsWatched
<1> QED BY Invariance, <1>1, PTL

\* ... and so the parts of the task's order hold together, for any number of
\* tasks and sockets.
THEOREM SafetyCorrect == Spec => []Safety
  BY TypeCorrect, SocketsCorrect, WatchedCorrect, PTL DEF Safety

-----------------------------------------------------------------------------
(* Whom the watchdog ends. Between heartbeats the flag belongs to the task *)
(* whose handle is held, so a late task that comes back finds it cleared   *)
(* and writes the time before it waits for a query.                        *)

Late ==
  /\ creator \in {"create", "handle"} => alive = "fresh"
  /\ creator = "handle" /\ new_h # None => ~dns_restart_flag \/ pc[new_h] = "start"
  /\ creator \in {"watch", "compare"} /\ dns_task_handle # None =>
       ~dns_restart_flag \/ pc[dns_task_handle] = "start"
  /\ alive = "late" /\ creator \in {"watch", "compare"} /\ dns_task_handle # None =>
       \A t \in Tasks : pc[t] \in {"none", "call", "check"}

LEMMA LateTask ==
  ASSUME TypeOK, Late, NEW t \in Tasks, TaskStep(t) \/ Answer(t)
  PROVE  Late'
<1>1. CASE ClearFlag(t)
  BY <1>1 DEF TypeOK, Late, ClearFlag, Goto, watchVars
<1>2. CASE OpenSrv(t) \/ OpenExt(t) \/ Bind(t)
  BY <1>2 DEF TypeOK, Late, OpenSrv, OpenExt, Bind, Goto, watchVars
<1>3. CASE Check(t)
  BY <1>3 DEF TypeOK, Late, Check, Goto, watchVars
<1>4. CASE Receive(t) \/ Answer(t)
  BY <1>4 DEF TypeOK, Late, Receive, Answer, Goto, watchVars
<1>5. CASE Close(t) \/ Forget(t)
  BY <1>5 DEF TypeOK, Late, Close, Forget, Goto, watchVars
<1>6. CASE End(t)
  BY <1>6 DEF TypeOK, Late, End, Goto, watchVars
<1> QED BY <1>1, <1>2, <1>3, <1>4, <1>5, <1>6 DEF TaskStep

LEMMA LateWatch ==
  ASSUME TypeOK, Late, TimePasses \/ WatchStep
  PROVE  Late'
<1>1. CASE TimePasses
  BY <1>1 DEF TypeOK, Late, TimePasses, watchVars
<1>2. CASE Heartbeat \/ Signal \/ PauseEnds \/ SetHandle
  BY <1>2 DEF TypeOK, Late, Heartbeat, Signal, PauseEnds, SetHandle
<1>3. CASE Tick
  BY <1>3 DEF TypeOK, Late, Tick
<1>4. CASE Create
  BY <1>4 DEF TypeOK, Late, Create, Goto
<1> QED BY <1>1, <1>2, <1>3, <1>4 DEF WatchStep

LEMMA LateStep == TypeOK /\ Late /\ [Next]_vars => Late'
<1> SUFFICES ASSUME TypeOK, Late, [Next]_vars PROVE Late'
  OBVIOUS
<1>1. CASE UNCHANGED vars
  BY <1>1 DEF Late, vars, sockVars, watchVars
<1> QED BY <1>1, LateTask, LateWatch DEF Next

\* Only a tick decides to end a task, and only on its second reading.
LEMMA TickEnds ==
  ASSUME TypeOK, Late, [Next]_vars, creator = "compare", creator' = "flag",
         "wrapped" \notin lapses'
  PROVE  \A t \in Alive : pc[t] \in {"call", "check"}
<1>1. Tick
  <2>1. CASE UNCHANGED vars
    BY <2>1 DEF vars, watchVars
  <2>2. ASSUME NEW t \in Tasks, TaskStep(t) \/ Answer(t) PROVE Tick
    BY <2>2, TaskMoves
  <2> QED BY <2>1, <2>2 DEF Next, TimePasses, WatchStep, Heartbeat, Signal,
                            PauseEnds, Create, SetHandle, watchVars
<1>2. Stuck /\ dns_stuck_count > 0
  BY <1>1 DEF TypeOK, Tick, SecondLook
<1>3. alive = "late" /\ dns_task_handle # None
  BY <1>1, <1>2 DEF Tick, Stuck
<1> QED BY <1>3 DEF Late, Alive

\* A task that starts, waits for a query or is ending is never ended, whatever
\* one false reading of the clock says.
THEOREM HungCorrect == Spec => OnlyHungIsEnded
<1>1. Init => TypeOK /\ Late
  BY TypeInit DEF Init, Late
<1>2. TypeOK /\ Late /\ [Next]_vars => (TypeOK /\ Late)'
  BY TypeStep, LateStep
<1>3. TypeOK /\ Late /\ [Next]_vars =>
        [creator = "compare" /\ creator' = "flag" /\ "wrapped" \notin lapses' =>
           \A t \in Alive : pc[t] \in {"call", "check"}]_vars
  BY TickEnds
<1> QED BY <1>1, <1>2, <1>3, PTL DEF Spec, OnlyHungIsEnded
=============================================================================
